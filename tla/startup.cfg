\* two processes that compete for the ports of their host, killed and restarted
SPECIFICATION FairStartupSpec
CONSTANTS
    g1 = g1  g2 = g2
    Gateways     <- TwoGateways
    Environments <- SomeEnvironments
    Defaults     <- DefaultValues
    Unset = Unset
    CountSpace = 4
    PortSpace  = 4
    DriverPort = 3
    NoSession  = NoSession
INVARIANTS
    StartupTypeOK
    SchemaBeforeService
    IoOutlivesServers
    AllPortsOrNone
PROPERTIES
    StartAdvances
    StartSettles
