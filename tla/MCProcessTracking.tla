-------------------------- MODULE MCProcessTracking --------------------------
(* Instances of ProcessTracking for TLC.                                   *)
EXTENDS ProcessTracking, TLC

MCOwnIds == 1 :> "a" @@ 2 :> "b"
MCSameIds == 1 :> "a" @@ 2 :> "a"

\* Process ids that come up again at once; set-ups that fail.
OrderedScenarios == {{"wrap"}, {"setup"}}

\* Events are lost; processes change their cgroup as well, or events are read in
\* any order, among starts and exits alone.
LossyScenarios == {{"loss"}, {"loss", "move", "quiet"}, {"reorder", "quiet"}}

\* The reader of the buffers goes on reading, and gc keeps running while time
\* passes.
LiveSpec ==
  /\ TrackingSpec
  /\ WF_trackingVars(HandleEvent(1))
  /\ WF_trackingVars(RunGc(Zombies(registry)))
=============================================================================
