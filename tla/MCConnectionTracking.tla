------------------------ MODULE MCConnectionTracking ------------------------
(* Instances of ConnectionTracking for TLC: one thread, which reuses its   *)
(* descriptor number and the address of its socket.                        *)
EXTENDS ConnectionTracking

CONSTANTS t1, s1, s2, a1, a2, p1, p2

MCTgid == [t \in Threads |-> 1]
MCStamps == 1..MaxTime

\* Events are lost, and the scraper races the handlers.
LossyScenario == [faults |-> {"loss"}, aging |-> FALSE, scraped |-> TRUE,
                  requests |-> FALSE, peers |-> {p1}]

\* Events are read in any order.
ReorderedScenario == [faults |-> {"reorder"}, aging |-> FALSE, scraped |-> FALSE,
                      requests |-> FALSE, peers |-> {p1}]

\* Requests to two peers, their events in another buffer.
RequestsScenario == [faults |-> {}, aging |-> FALSE, scraped |-> FALSE,
                     requests |-> TRUE, peers |-> {p1, p2}]

\* Events are lost and read in any order, and any time passes.
AgedScenario == [faults |-> {"loss", "reorder"}, aging |-> TRUE, scraped |-> FALSE,
                 requests |-> FALSE, peers |-> {p1}]

ShortScenarios == {LossyScenario, ReorderedScenario, RequestsScenario}
AgedScenarios == {AgedScenario}

\* The handlers run whenever there is something to handle, and the ticker of
\* the container fires for ever; the traced programs owe nothing.
LiveSpec ==
  /\ TrackingSpec
  /\ WF_trackingVars(\E i \in DOMAIN buffered : HandleEvent(i))
  /\ WF_trackingVars(FinishClose)
  /\ WF_trackingVars(RunGc)
=============================================================================
