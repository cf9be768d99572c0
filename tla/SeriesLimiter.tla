---------------------------- MODULE SeriesLimiter ----------------------------
(***************************************************************************)
(* seriesLimiter of dogstatsd/safeguards.go: the series admitted and not   *)
(* yet expired, per metric name, under a cap per name and a cap overall.   *)
(*                                                                         *)
(* A limiter is a record: seen maps each tracked series to the time it was *)
(* last admitted (byMetric, flattened: a series has one metric name),      *)
(* total is the counter the code keeps beside the map.  Every operation    *)
(* holds the mutex throughout, so it is one operator on the record.  The   *)
(* time passed in was read before the lock was taken: two workers may pass *)
(* theirs in the wrong order.                                              *)
(***************************************************************************)
EXTENDS Integers, FiniteSets

CONSTANTS
  Series,        \* the series (fingerprints) that applications send
  NameOf,        \* the metric name of each series
  PerMetricCap,
  GlobalCap,
  TTL,
  PruneEvery     \* TTL / 10, at most a minute

ASSUME LimiterAssumption ==
  /\ PerMetricCap \in Nat \ {0}
  /\ GlobalCap \in Nat \ {0}
  /\ TTL \in Nat \ {0}
  /\ PruneEvery \in Nat

Never == 0       \* the zero time

NewSeriesLimiter == [seen |-> <<>>, total |-> 0, lastPrune |-> Never]

Tracked(l, name) == {s \in DOMAIN l.seen : NameOf[s] = name}

Expired(l, now) == {s \in DOMAIN l.seen : l.seen[s] < now - TTL}

\* Mutant of PruneExpired: the counter is lowered once, not once per series.
PruneExpiredOnce(l, now) ==
  [seen      |-> [s \in DOMAIN l.seen \ Expired(l, now) |-> l.seen[s]],
   total     |-> IF Expired(l, now) = {} THEN l.total ELSE l.total - 1,
   lastPrune |-> now]

PruneExpired(l, now) ==
  [seen      |-> [s \in DOMAIN l.seen \ Expired(l, now) |-> l.seen[s]],
   total     |-> l.total - Cardinality(Expired(l, now)),
   lastPrune |-> now]

PruneDue(l, now) ==
  \/ PruneEvery = 0
  \/ l.lastPrune = Never
  \/ now - l.lastPrune >= PruneEvery
  \/ l.total >= GlobalCap

\* The limiter in which Allow looks for room.
Pruned(l, now) == IF PruneDue(l, now) THEN PruneExpired(l, now) ELSE l

HasRoom(l, s) ==
  /\ Cardinality(Tracked(l, NameOf[s])) < PerMetricCap
  /\ l.total < GlobalCap

\* A map with the entry of s set: in seen, the last time of s.
See(seen, s, now) ==
  [t \in DOMAIN seen \cup {s} |-> IF t = s THEN now ELSE seen[t]]

Track(l, s, now) ==
  [seen |-> See(l.seen, s, now), total |-> l.total + 1, lastPrune |-> l.lastPrune]

Refresh(l, s, now) ==
  [seen |-> See(l.seen, s, now), total |-> l.total, lastPrune |-> l.lastPrune]

\* Allow's first result.
Allowed(l, s, now) == s \in DOMAIN l.seen \/ HasRoom(Pruned(l, now), s)

\* The limiter after Allow.
Allow(l, s, now) ==
  IF s \in DOMAIN l.seen THEN Refresh(l, s, now)
  ELSE IF HasRoom(Pruned(l, now), s) THEN Track(Pruned(l, now), s, now)
  ELSE Pruned(l, now)

\* The counter is the number of tracked series, which respects both caps.
Exact(l) ==
  /\ IsFiniteSet(DOMAIN l.seen)
  /\ l.total = Cardinality(DOMAIN l.seen)
  /\ l.total <= GlobalCap
  /\ \A s \in DOMAIN l.seen : Cardinality(Tracked(l, NameOf[s])) <= PerMetricCap
=============================================================================
