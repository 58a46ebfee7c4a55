SPECIFICATION Spec
CONSTANTS
    Offers <- OneOffer
    Slips <- NoSlip
    ExitPrices <- OneExitPrice
    MaxCapitalPerTrade = 8
    MaxCapitalDeployed = 30
    MaxDailyLoss = 40
    RiskBudget = 4
    Symbols = {a, b, c}
    Threads = {t1, t2}
    MaxOpenPositions = 1
    MaxUnconfirmed = 0
    MaxOrders = 3
    MaxDay = 1
    MaxCrashes = 1
    MaxFaults = 0
SYMMETRY SymmetricNames
INVARIANTS
    PositionOvershootBounded
PROPERTIES
    LedgerSpec
