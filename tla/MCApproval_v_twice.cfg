SPECIFICATION Spec
CONSTANTS
    Engines = {worker, poller}
    Handlers = {worker, poller}
    EngineOf <- OneThreadEach
    MaxSignals = 1
    MaxPresses = 2
    MaxCrashes = 0
    MaxFaults = 0
INVARIANTS
    ExecutedOnce
