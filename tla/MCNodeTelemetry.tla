--------------------------- MODULE MCNodeTelemetry ---------------------------
(***************************************************************************)
(* The two halves of the node's own telemetry: StatsExchange, how a scrape *)
(* collects the containers, and NodeSpool, what becomes of it once it is   *)
(* gathered.  They share no state, so a behaviour runs one of them, chosen *)
(* in the initial state, and the other one rests.                          *)
(***************************************************************************)
EXTENDS NodeSpool, StatsExchange

CONSTANTS a, b, http, known, other, unknown

MCCollectors == {<<http, a>>, <<http, b>>}

\* Two connections, one of a process nobody knows any more; no Node.js
\* process; one Python process.
MCMaps == << {known, unknown}, {}, {other} >>
MCContainersOf ==
  [e \in {known, other, unknown} |->
     CASE e = known -> {a} [] e = other -> {b} [] e = unknown -> {}]

VARIABLE part

Init == NodeInit /\ StatsInit /\ part \in {"spool", "stats"} /\ (part = "stats" => collector)

Next ==
  \/ part = "spool" /\ NodeNext /\ UNCHANGED <<statsVars, part>>
  \/ part = "stats" /\ StatsNext /\ UNCHANGED <<nodeVars, part>>

\* The part that rests has no step enabled that its fairness speaks of.
Spec == Init /\ [][Next]_<<nodeVars, statsVars, part>> /\ NodeFairness /\ StatsFairness
=============================================================================
