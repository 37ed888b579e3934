----------------------- MODULE MCWebSocketComponent -----------------------
(* Model values for TLC; every thread may call every operation for ever.   *)
EXTENDS WebSocketComponent
CONSTANTS t1, t2, v1, v2, s1, s2

TwoThreads  == {t1, t2}
OneVehicle  == {v1}
TwoVehicles == {v1, v2}
OneSocket   == {s1}
TwoSockets  == {s1, s2}
=============================================================================
