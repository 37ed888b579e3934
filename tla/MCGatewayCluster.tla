-------------------------- MODULE MCGatewayCluster --------------------------
(* Model values for TLC: every socket lives once.                          *)
EXTENDS GatewayCluster
CONSTANTS h1, h2, v1, s1, s2, s3

TwoHosts     == {h1, h2}
OneVehicle   == {v1}
TwoSockets   == {s1, s2}
ThreeSockets == {s1, s2, s3}
=============================================================================
