\* two connections of one vehicle or of two, to their end
SPECIFICATION FairLifecycleSpec
CONSTANTS
    t1 = t1  t2 = t2
    v1 = v1  v2 = v2
    s1 = s1  s2 = s2
    Threads   <- TwoThreads
    ClientIds <- TwoVehicles
    Sockets   <- TwoSockets
    EmptyId = v2
    NoSocket = NoSocket
    AppServerName = thisHost
    NA = NA
    NoRow = NoRow
    NoCall = NoCall
INVARIANTS
    LifecycleTypeOK
    NoStaleEntry
    RowClearedWhenGone
    NothingLeftWhenIdle
    SoleConnectionRegistered
PROPERTIES
    MapOnlyLetsGo
    DepartedAreForgotten
    ImplementsCluster
\* every socket of the finite set may have been used
CHECK_DEADLOCK FALSE
