SPECIFICATION FairSpec
CONSTANTS
    None = None
    Requests = {r1, r2}
    Hosts = {h1}
    MaxIdle = 2
    Tries = 2
    MaxClock = 6
INVARIANTS TypeOK BurstsFarApart PoolOpenWhileUsed EarlyTasksEnd
PROPERTIES ShutdownEnds
CHECK_DEADLOCK FALSE
