--------------------------- MODULE MCVideoEncoder ---------------------------
(* Values for checking VideoEncoder with TLC.                              *)
EXTENDS VideoEncoder

MCVideoOf == [m \in Msgs |-> CHOOSE v \in Videos : TRUE]
=============================================================================
