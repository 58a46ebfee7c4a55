SPECIFICATION Spec
CONSTANTS
    Signals <- LongOnly
    Prices <- ThreePrices
    Priced = {a}
    Symbols = {a}
    TrailingPct = 5
    UpdateThresholdPct = 1
    GttMaxRetries = 2
    ReloadsTriggers = FALSE
    StrategyExits = FALSE
    Overlaps = FALSE
    FailureKinds <- AllFailures
    MaxFailures = 2
    MaxEntries = 2
    MaxGtts = 3
    MaxCrashes = 2
CONSTRAINTS
    FewMishaps
INVARIANTS
    TypeOK
    LiveGttHasPosition
    SingleGtt
    HeldIsGuarded
    SoldTwiceOnlyInWindow
PROPERTIES
    StopOnlyTightens
    NoPhantomClose
