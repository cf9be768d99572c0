-------------------------- MODULE MCCustomPipeline --------------------------
(* Instances of CustomPipeline for TLC.                                    *)
EXTENDS CustomPipeline, TLC

CONSTANTS s1, s2, s3

\* One file left by an older version, holding the series s3.
OneLegacy == {[batch |-> LegacyDir, chunk |-> 0, data |-> {s3}, mod |-> 0]}

NoLegacy == {}

Symmetry == Permutations({s1, s2})
=============================================================================
