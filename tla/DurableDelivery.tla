-------------------------- MODULE DurableDelivery --------------------------
(***************************************************************************)
(* What the custom-metric pipeline promises, without files, windows or     *)
(* program counters: a series is held in memory once it is accepted, then  *)
(* queued durably, then received by the collector at least once.  Memory   *)
(* is forgotten when the process ends; the queue never is.  A series       *)
(* leaves the queue only after the collector received it, or is discarded  *)
(* for a reason the agent counts.                                          *)
(***************************************************************************)
CONSTANT Series

VARIABLES
  unseen,     \* not accepted yet
  held,       \* accepted, in memory only
  queued,     \* durable, waiting for the collector
  received,   \* received by the collector
  discarded   \* refused for good, or older than the retention age

vars == <<unseen, held, queued, received, discarded>>

Init ==
  /\ unseen \in SUBSET Series
  /\ held = {}
  /\ queued = Series \ unseen
  /\ received = {}
  /\ discarded = {}

Accept(m) ==
  /\ m \in unseen
  /\ unseen' = unseen \ {m}
  /\ held' = held \cup {m}
  /\ UNCHANGED <<queued, received, discarded>>

\* A whole set of series becomes durable in one step.
Persist(S) ==
  /\ S \subseteq held
  /\ held' = held \ S
  /\ queued' = queued \cup S
  /\ UNCHANGED <<unseen, received, discarded>>

Forget ==
  /\ held' = {}
  /\ UNCHANGED <<unseen, queued, received, discarded>>

Deliver(S) ==
  /\ S \subseteq queued
  /\ received' = received \cup S
  /\ UNCHANGED <<unseen, held, queued, discarded>>

Acknowledge(S) ==
  /\ S \subseteq queued \cap received
  /\ queued' = queued \ S
  /\ UNCHANGED <<unseen, held, received, discarded>>

Discard(S) ==
  /\ S \subseteq queued
  /\ queued' = queued \ S
  /\ discarded' = discarded \cup S
  /\ UNCHANGED <<unseen, held, received>>

Next ==
  \/ \E m \in Series : Accept(m)
  \/ \E S \in SUBSET Series : Persist(S) \/ Deliver(S) \/ Acknowledge(S) \/ Discard(S)
  \/ Forget

Spec == Init /\ [][Next]_vars
=============================================================================
