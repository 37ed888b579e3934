----------------------- MODULE MCConnectionLifecycle -----------------------
(* Model values for TLC: every socket lives once.                          *)
EXTENDS ConnectionLifecycle
CONSTANTS t1, t2, v1, v2, s1, s2

TwoThreads  == {t1, t2}
TwoVehicles == {v1, v2}
TwoSockets  == {s1, s2}
=============================================================================
