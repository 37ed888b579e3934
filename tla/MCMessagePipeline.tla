------------------------- MODULE MCMessagePipeline -------------------------
(* Model values for TLC.                                                   *)
EXTENDS MessagePipeline
CONSTANTS s1

OneSocket == {s1}
OneDraw   == {4}
TwoDraws  == {4, 5}
=============================================================================
