------------------------- MODULE MCConnectionProbes -------------------------
(* Instances of ConnectionProbes for TLC: the threads of one process.      *)
EXTENDS ConnectionProbes, TLC

CONSTANTS t1, t2, s1, s2, a1, a2, p1

MCThreads == {t1, t2}
MCTgid == [t \in MCThreads |-> 1]
MCSockets == {s1, s2}
MCPorts == {a1, a2}

Symmetry == Permutations(MCThreads) \cup Permutations(MCSockets)
              \cup Permutations(MCPorts)
=============================================================================
