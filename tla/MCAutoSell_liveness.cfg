SPECIFICATION FairSpec
CONSTANTS
    Symbols = {a, b}
    Signals <- LongOnly
    Prices <- UpToTarget
    Priced = {a, b}
    TrailingPct = 5
    UpdateThresholdPct = 1
    GttMaxRetries = 1
    ReloadsTriggers = FALSE
    StrategyExits = TRUE
    Overlaps = FALSE
    FailureKinds <- BrokerFailures
    MaxFailures = 1
    MaxEntries = 2
    MaxGtts = 2
    MaxCrashes = 0
CONSTRAINTS
    FirstInFirst
PROPERTIES
    ExitsWhenDue
    FiredGttIsBooked
