\* one process with a list of database ports
SPECIFICATION StartupSpec
CONSTANTS
    g1 = g1  g2 = g2
    Gateways     <- OneGateway
    Environments <- PortLists
    Defaults     <- DefaultValues
    Unset = Unset
    CountSpace = 4
    PortSpace  = 4
    DriverPort = 3
    NoSession  = NoSession
INVARIANT
    ListedPortIsUsed
