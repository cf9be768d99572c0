--------------------------- MODULE MCProcessProbes ---------------------------
(* An instance of ProcessProbes for TLC.                                   *)
EXTENDS ProcessProbes
=============================================================================
