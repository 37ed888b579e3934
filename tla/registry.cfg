SPECIFICATION RegistrySpec
CONSTANTS
    t1 = t1  t2 = t2
    v1 = v1  v2 = v2
    s1 = s1  s2 = s2
    Threads   <- TwoThreads
    ClientIds <- TwoVehicles
    Sockets   <- TwoSockets
    NoSocket = NoSocket
    AppServerName = thisHost
    NA = NA
    NoRow = NoRow
    NoCall = NoCall
INVARIANTS
    RegistryTypeOK
    MutualExclusion
    LockHasHolder
    AgreementWhenSerial
PROPERTY
    ImplementsClientTable
