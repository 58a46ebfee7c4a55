SPECIFICATION FairSpec
CONSTANTS
    TradingDays = {0, 2}
    MaxDay = 2
    Callbacks = {c1, c2}
    MaxLogins = 2
    MaxFaults = 2
INVARIANTS
    TypeOK
    ActiveMeansAlive
    NoSilentDay
    MonitorsWithLiveToken
PROPERTIES
    LoginReachesWorker
CHECK_DEADLOCK FALSE
