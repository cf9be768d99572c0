----------------------------- MODULE MCL7Probes -----------------------------
(* Instances of L7Probes for TLC: the threads of one process.              *)
EXTENDS L7Probes, TLC

CONSTANTS t1, t2, s1, s2, a1, p1, p2

MCThreads == {t1, t2}
MCTgid == [t \in Threads |-> 1]

\* One connection, plain or TLS, and every kind of request.
OneConnection == [kinds |-> Kinds, calls |-> {"read"}, peers |-> Peers, connections |-> 1]

\* The descriptor is used for a second connection.
Reconnection == [kinds |-> {"http", "stream"}, calls |-> {"read"}, peers |-> {p1}, connections |-> 2]

\* Reads into several buffers.
Vectored == [kinds |-> {"http"}, calls |-> {"read", "readv"}, peers |-> Peers, connections |-> 1]

MCScenarios == {OneConnection, Reconnection, Vectored}

Symmetry == Permutations(Threads) \cup Permutations(Sockets)
=============================================================================
