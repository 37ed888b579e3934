\* a reconnection overtakes the end of the old connection
SPECIFICATION LifecycleSpec
CONSTANTS
    t1 = t1  t2 = t2
    v1 = v1  v2 = v2
    s1 = s1  s2 = s2
    Threads   <- TwoThreads
    ClientIds <- TwoVehicles
    Sockets   <- TwoSockets
    EmptyId = v2
    NoSocket = NoSocket
    AppServerName = thisHost
    NA = NA
    NoRow = NoRow
    NoCall = NoCall
INVARIANT
    ConnectedSocketsMaintained
CHECK_DEADLOCK FALSE
