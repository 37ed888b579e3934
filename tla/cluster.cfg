\* three connections of one vehicle at two gateways
SPECIFICATION ClusterSpec
CONSTANTS
    h1 = h1  h2 = h2
    v1 = v1
    s1 = s1  s2 = s2  s3 = s3
    Hosts     <- TwoHosts
    ClientIds <- OneVehicle
    Sockets   <- ThreeSockets
    NoSocket = NoSocket
    EmptyName = EmptyName
    NA = NA
    NoRow = NoRow
INVARIANTS
    ClusterTypeOK
    RowNamesNoFormerHost
    SoleConnectionIsFound
    EntryLeadsToConnection
\* every socket of the finite set may have been used
CHECK_DEADLOCK FALSE
