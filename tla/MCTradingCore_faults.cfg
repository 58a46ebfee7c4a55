SPECIFICATION Spec
CONSTANTS
    Offers <- MCOffers
    Slips <- MCSlips
    ExitPrices <- MCExitPrices
    MaxCapitalPerTrade = 8
    MaxCapitalDeployed = 17
    MaxDailyLoss = 4
    RiskBudget = 4
    Symbols = {a}
    Threads = {t1}
    MaxOpenPositions = 2
    MaxUnconfirmed = 0
    MaxOrders = 2
    MaxDay = 2
    MaxCrashes = 2
    MaxFaults = 1
INVARIANTS
    ClosedStaysClosed
