----------------------------- MODULE Aggregation -----------------------------
(***************************************************************************)
(* Aggregator of dogstatsd/aggregator.go with its byte accounting: the     *)
(* active window, the window reserved for the spool and the gauge          *)
(* baselines share one budget, MaxBytes.                                   *)
(*                                                                         *)
(* An aggregator is a record.  A window maps a series to the values its    *)
(* set holds (the empty set for the other types, whose numbers change no   *)
(* byte count and no decision).  The sample rates are those the parser     *)
(* lets through, so the refusals of a rate outside (0, 1] and of an        *)
(* unknown type, which no caller meets, are left out.                      *)
(***************************************************************************)
EXTENDS SeriesLimiter

CONSTANTS
  KindOf,         \* the type of each series: "gauge", "set" or another
  StateBytes,     \* estimateAggregateStateBytes of each series
  BaselineBytes,  \* the bytes of each gauge's baseline
  ValueBytes,     \* the bytes of a set member
  MaxBytes,
  MaxSetValues

Gauges == {s \in Series : KindOf[s] = "gauge"}

ASSUME AggregationAssumption ==
  /\ StateBytes \in [Series -> Nat]
  /\ BaselineBytes \in [Gauges -> Nat]
  /\ ValueBytes \in Nat
  /\ MaxBytes \in Nat

\* The sum of a function's natural numbers: the size of a disjoint union.
Total(f) == Cardinality(UNION {{x} \X (1 .. f[x]) : x \in DOMAIN f})

NewAggregator ==
  [series |-> <<>>, activeBytes |-> 0, inflight |-> <<>>, inflightBytes |-> 0,
   gauges |-> <<>>, gaugeBytes |-> 0, lastGaugePrune |-> Never]

\* totalBytesLocked
TotalBytes(a) == a.activeBytes + a.inflightBytes + a.gaugeBytes

Fits(a, bytes) == TotalBytes(a) + bytes <= MaxBytes

\* pruneGaugesLocked; a gauge's TTL is that of the limiter (main.go:204, 255)
PruneGauges(a, now) ==
  LET old == {s \in DOMAIN a.gauges : a.gauges[s] < now - TTL}
  IN  IF a.lastGaugePrune # Never /\ now - a.lastGaugePrune < PruneEvery
      THEN a
      ELSE [a EXCEPT !.gauges = [s \in DOMAIN a.gauges \ old |-> a.gauges[s]],
                     !.gaugeBytes = @ - Total([s \in old |-> BaselineBytes[s]]),
                     !.lastGaugePrune = now]

\* The aggregator with a state for s, if there is room for a new one.
HasState(a, s) == s \in DOMAIN a.series \/ Fits(a, StateBytes[s])

WithState(a, s) ==
  IF s \in DOMAIN a.series THEN a
  ELSE [a EXCEPT !.series = See(a.series, s, {}),
                 !.activeBytes = @ + StateBytes[s]]

\* Mutant of AddGauge: a refused baseline leaves the new state's bytes counted.
AddGaugeKeepsBytes(a, s, now) ==
  LET b == WithState(a, s)
  IN  IF s \in DOMAIN a.gauges
      THEN [b EXCEPT !.gauges[s] = now]
      ELSE IF Fits(b, BaselineBytes[s])
      THEN [b EXCEPT !.gauges = See(b.gauges, s, now),
                     !.gaugeBytes = @ + BaselineBytes[s]]
      ELSE [b EXCEPT !.series = a.series]

\* A gauge needs a baseline; if it does not fit, a state just made is undone.
AddGauge(a, s, now) ==
  LET b == WithState(a, s)
  IN  IF s \in DOMAIN a.gauges
      THEN [b EXCEPT !.gauges[s] = now]
      ELSE IF Fits(b, BaselineBytes[s])
      THEN [b EXCEPT !.gauges = See(b.gauges, s, now),
                     !.gaugeBytes = @ + BaselineBytes[s]]
      ELSE a

\* A new set member needs a place and its bytes; the state stays either way.
AddSet(a, s, v) ==
  LET b == WithState(a, s)
  IN  IF /\ v \notin b.series[s]
         /\ Cardinality(b.series[s]) < MaxSetValues
         /\ Fits(b, ValueBytes)
      THEN [b EXCEPT !.series[s] = @ \cup {v}, !.activeBytes = @ + ValueBytes]
      ELSE b

Add(a, s, v, now) ==
  LET p == PruneGauges(a, now)
  IN  IF ~HasState(p, s) THEN p
      ELSE CASE KindOf[s] = "gauge" -> AddGauge(p, s, now)
             [] KindOf[s] = "set"   -> AddSet(p, s, v)
             [] OTHER               -> WithState(p, s)

\* Snapshot's two critical sections: take the window, then reserve it.
Rotate(a) == [a EXCEPT !.series = <<>>, !.activeBytes = 0]

Reserved(a, window, bytes) ==
  [a EXCEPT !.inflight = window, !.inflightBytes = bytes]

Commit(a) == [a EXCEPT !.inflight = <<>>, !.inflightBytes = 0]

WindowBytes(w) ==
  Total([s \in DOMAIN w |-> StateBytes[s] + Cardinality(w[s]) * ValueBytes])
=============================================================================
