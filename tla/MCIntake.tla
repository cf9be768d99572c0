------------------------------ MODULE MCIntake ------------------------------
(***************************************************************************)
(* A small receiver: two workers, a queue of two datagrams, and four       *)
(* series under a cap of one per name and two overall.  MaxBytes holds one *)
(* counter and one set with one member, or one gauge with its baseline.    *)
(***************************************************************************)
EXTENDS Intake, TLC

CONSTANTS c1, c2, gg, ss, v1, v2, d1, d2, d3, w1, w2

MCNameOf == c1 :> "c" @@ c2 :> "c" @@ gg :> "g" @@ ss :> "s"
MCKindOf == c1 :> "counter" @@ c2 :> "counter" @@ gg :> "gauge" @@ ss :> "set"
MCStateBytes == c1 :> 2 @@ c2 :> 2 @@ gg :> 2 @@ ss :> 1
MCBaselineBytes == gg :> 1
MCBytesOf == d1 :> 2 @@ d2 :> 1 @@ d3 :> 1
MCLinesOf ==
  d1 :> <<[series |-> c1, value |-> v1], [series |-> ss, value |-> v1]>> @@
  d2 :> <<[series |-> gg, value |-> v1], [series |-> ss, value |-> v2]>> @@
  d3 :> <<[series |-> c2, value |-> v1]>>

\* Windows rotate while datagrams arrive.
Flushed == [packets |-> {d1, d2}, received |-> 3, flushes |-> 2, clock |-> 1,
            stops |-> FALSE]

\* Series and baselines expire.
Aged == [packets |-> {d1, d2, d3}, received |-> 3, flushes |-> 0, clock |-> 3,
         stops |-> FALSE]

\* The receiver is stopped while datagrams wait.
Stopped == [packets |-> {d1, d3}, received |-> 4, flushes |-> 0, clock |-> 1,
            stops |-> TRUE]

MCScenarios == {Flushed, Aged, Stopped}
=============================================================================
