\* a connection without a client id
SPECIFICATION LifecycleSpec
CONSTANTS
    t1 = t1  t2 = t2
    v1 = v1  v2 = v2
    s1 = s1  s2 = s2
    Threads   <- TwoThreads
    ClientIds <- TwoVehicles
    Sockets   <- TwoSockets
    EmptyId = v2
    NoSocket = NoSocket
    AppServerName = thisHost
    NA = NA
    NoRow = NoRow
    NoCall = NoCall
INVARIANT
    EmptyIdRefused
CHECK_DEADLOCK FALSE
