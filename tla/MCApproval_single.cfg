SPECIFICATION FairSpec
CONSTANTS
    Engines = {scheduler}
    Handlers = {scheduler}
    EngineOf <- OneThreadEach
    MaxSignals = 2
    MaxPresses = 3
    MaxCrashes = 1
    MaxFaults = 1
INVARIANTS
    TypeOK
    ExecutedOnce
    QueueMatchesRows
PROPERTIES
    IgnoredIsFinal
    Settled
