SPECIFICATION Spec
CONSTANTS
    Core <- MCCore
    Candidates <- MCCandidates
    CoreSector <- MCCoreSector
    CandidateSector <- MCCandidateSector
    DynamicSize = 1
    DynamicCap = 1
    MaxPerSector = 1
    MaxOutput = 1
    Index = "NIFTY 50"
    StrategyCount = 2
    Inputs <- MCInputs
    Volume <- MCVolume
    Setups = {0, 60}
    Macros <- MCMacros
    News = {90}
    Penalties = {10, 60}
    MaxDay = 1
INVARIANTS
    TypeOK
PROPERTIES
    NoTradeWithoutSentinel
    MajorityDirection
    BestAreQueued
