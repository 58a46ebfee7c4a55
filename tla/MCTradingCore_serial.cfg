SPECIFICATION Spec
CONSTANTS
    Offers <- MCOffers
    Slips <- MCSlips
    ExitPrices <- MCExitPrices
    MaxCapitalPerTrade = 8
    MaxCapitalDeployed = 17
    MaxDailyLoss = 4
    RiskBudget = 4
    Symbols = {a, b}
    Threads = {t1}
    MaxOpenPositions = 2
    MaxUnconfirmed = 1
    MaxOrders = 2
    MaxDay = 2
    MaxCrashes = 1
    MaxFaults = 0
SYMMETRY SymmetricSymbols
INVARIANTS
    TypeOK
    BookAgreesWithBroker
    CountersMatchBroker
    DailyLossHonoured
    ExposureBounded
    SwitchSurvivesRestart
    OpenTradesAreHeld
PROPERTIES
    TrippedUntilTomorrow
