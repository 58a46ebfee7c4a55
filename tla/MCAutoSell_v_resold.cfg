SPECIFICATION Spec
CONSTANTS
    Symbols = {a}
    Signals <- LongOnly
    Prices <- AllPrices
    Priced = {a}
    TrailingPct = 5
    UpdateThresholdPct = 1
    GttMaxRetries = 1
    ReloadsTriggers = FALSE
    StrategyExits = FALSE
    Overlaps = FALSE
    FailureKinds <- NoFailures
    MaxFailures = 0
    MaxEntries = 1
    MaxGtts = 1
    MaxCrashes = 1
INVARIANTS
    TriggeredIsNotSold
