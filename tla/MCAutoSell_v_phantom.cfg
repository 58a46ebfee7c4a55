SPECIFICATION Spec
CONSTANTS
    Symbols = {a}
    Signals <- LongOnly
    Prices <- AllPrices
    Priced = {}
    TrailingPct = 5
    UpdateThresholdPct = 1
    GttMaxRetries = 2
    ReloadsTriggers = TRUE
    StrategyExits = FALSE
    Overlaps = FALSE
    FailureKinds <- NoFailures
    MaxFailures = 0
    MaxEntries = 2
    MaxGtts = 2
    MaxCrashes = 0
PROPERTIES
    NoPhantomClose
