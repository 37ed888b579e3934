------------------------------ MODULE MCStartup ------------------------------
(* Model values for TLC: four ports of which one is port 0, counts of two   *)
(* bits.                                                                    *)
EXTENDS Startup
CONSTANTS g1, g2

OneGateway  == {g1}
TwoGateways == {g1, g2}

Environment(count, port, mtlsPort, mtls, dbPorts) ==
    [WSS_NUMBER_OF_PORTS |-> count, WSS_PORT |-> port, WSS_MTLS_BASE_PORT |-> mtlsPort,
     WSS_USE_MTLS |-> mtls, WSS_SCYLLADB_PORT |-> dbPorts]

DefaultValues == [WSS_NUMBER_OF_PORTS |-> 2, WSS_PORT |-> 1, WSS_MTLS_BASE_PORT |-> 3]

\* Two ports at the default base, one in the middle, the highest with the one
\* beyond it over TLS, and a count that is cut to none.
SomeEnvironments ==
    { Environment(Unset, Unset, Unset, FALSE, <<1>>),
      Environment(1, 2, Unset, FALSE, <<1>>),
      Environment(2, 2, Unset, TRUE, <<1, 2>>),
      Environment(CountSpace, 1, 1, FALSE, <<2>>) }

PortLists == { Environment(1, 1, 1, FALSE, <<1, 2>>), Environment(2, 1, 1, TRUE, <<1>>) }
=============================================================================
