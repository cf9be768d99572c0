--------------------------- MODULE CustomPipeline ---------------------------
(***************************************************************************)
(* The custom-metric pipeline of dogstatsd/pipeline.go composed with the   *)
(* aggregation windows it drains (aggregator.go), the spool it fills       *)
(* (spool.go) and the collector it posts to (sender.go).                   *)
(*                                                                         *)
(* One goroutine (run, then Close in main) takes the pipeline's steps; the *)
(* parser workers add series at any time; the process can die at any time  *)
(* and be started again on the same spool directory.  The health flags are *)
(* left out: no step of the data path reads them.                          *)
(***************************************************************************)
EXTENDS CustomSpool

CONSTANTS
  TooLarge,     \* the series that alone exceed MaxBatchBytes when encoded
  Statuses,     \* the HTTP statuses the collector answers with
  MaxCrashes    \* bound: how often the process is killed

NoResponse == 0 \* SendFile's status when the request itself fails

ASSUME PipelineAssumption ==
  /\ TooLarge \subseteq Series
  /\ Statuses \subseteq 100 .. 599
  /\ MaxCrashes \in Nat

VARIABLES
  phase,        \* where the process is in its life
  intake,       \* whether parser workers still add metrics
  pc,           \* where the pipeline goroutine is
  series,       \* Aggregator.series: the active window
  window,       \* Snapshot's local window, between its two critical sections
  inflight,     \* Aggregator.inflight: the window reserved for the spool
  current,      \* ReplayOnce's file, if any
  status,       \* the status SendFile returned
  accepted,     \* history: series ever added
  lost,         \* history: series in memory when the process ended
  delivered,    \* history: series the collector has received
  redelivered,  \* history: series the collector has received twice
  last,         \* history: the last batch chunk the collector received
  crashes       \* how often the process was killed

pipeVars == <<phase, intake, pc, series, window, inflight, current, status,
              accepted, lost, delivered, redelivered, last, crashes>>
vars == <<spoolVars, pipeVars>>

Phases == {"down", "starting", "running", "stopping", "final", "exited"}

Pcs == {"idle", "rotated", "encode", "putting", "refresh", "refreshing",
        "send", "remove", "removing", "reject", "quarantining"}

Held == series \cup window \cup inflight

ClassifyHTTPStatus(code) ==
  IF code \in 200 .. 299 THEN "success"
  ELSE IF code \in {401, 403, 408, 429} \/ code >= 500 THEN "retry"
  ELSE "permanent"

Up == phase \in {"running", "stopping", "final"}

-----------------------------------------------------------------------------
(* The aggregator: Add by a parser worker, Snapshot and Commit by FlushOnce *)

Add(m) ==
  /\ Up
  /\ intake
  /\ m \notin accepted
  /\ series' = series \cup {m}
  /\ accepted' = accepted \cup {m}
  /\ UNCHANGED <<spoolVars, phase, intake, pc, window, inflight, current, status,
                 lost, delivered, redelivered, last, crashes>>

\* Mutant of FlushStart: the window is rotated although one is reserved.
FlushStartRotates ==
  /\ Up
  /\ pc = "idle"
  /\ pc' = "rotated" /\ window' = series /\ series' = {}
  /\ UNCHANGED <<spoolVars, phase, intake, inflight, current, status, accepted,
                 lost, delivered, redelivered, last, crashes>>

\* Snapshot's first critical section: return the reserved window or rotate.
FlushStart ==
  /\ Up
  /\ pc = "idle"
  /\ IF inflight # {}
     THEN pc' = "encode" /\ UNCHANGED <<series, window>>
     ELSE pc' = "rotated" /\ window' = series /\ series' = {}
  /\ UNCHANGED <<spoolVars, phase, intake, inflight, current, status, accepted,
                 lost, delivered, redelivered, last, crashes>>

\* Snapshot's second critical section reserves the rotated window.
Reserve ==
  /\ pc = "rotated"
  /\ inflight' = window
  /\ window' = {}
  /\ pc' = IF window = {} THEN "refresh" ELSE "encode"
  /\ UNCHANGED <<spoolVars, phase, intake, series, current, status, accepted,
                 lost, delivered, redelivered, last, crashes>>

\* The end of FlushOnce or ReplayOnce.  Close returns after its flush.
Finish ==
  /\ pc' = "idle"
  /\ phase' = IF phase = "final" THEN "exited" ELSE phase
  /\ current' = {}
  /\ status' = NoResponse

\* Mutant of EncodeFails: the window is dropped.
EncodeFailsDrops ==
  /\ pc = "encode"
  /\ inflight \cap TooLarge # {}
  /\ Finish
  /\ inflight' = {}
  /\ UNCHANGED <<spoolVars, intake, series, window, accepted, lost,
                 delivered, redelivered, last, crashes>>

\* encodeCustomBatches fails: the window stays reserved.
EncodeFails ==
  /\ pc = "encode"
  /\ inflight \cap TooLarge # {}
  /\ Finish
  /\ UNCHANGED <<spoolVars, intake, series, window, inflight, accepted, lost,
                 delivered, redelivered, last, crashes>>

FlushPut ==
  /\ pc = "encode"
  /\ inflight \cap TooLarge = {}
  /\ \E p \in Encodings(inflight) : PutBatch(p)
  /\ pc' = "putting"
  /\ UNCHANGED <<phase, intake, series, window, inflight, current, status,
                 accepted, lost, delivered, redelivered, last, crashes>>

\* Mutant of PutReturned: the window is committed whatever PutBatch returned.
PutReturnedAlwaysCommits ==
  /\ pc = "putting"
  /\ op = "none"
  /\ inflight' = {}
  /\ pc' = "refresh"
  /\ UNCHANGED <<spoolVars, phase, intake, series, window, current, status,
                 accepted, lost, delivered, redelivered, last, crashes>>

\* PutBatch has returned; Commit releases the window if it succeeded.
PutReturned ==
  /\ pc = "putting"
  /\ op = "none"
  /\ inflight' = IF result = "ok" THEN {} ELSE inflight
  /\ pc' = "refresh"
  /\ UNCHANGED <<spoolVars, phase, intake, series, window, current, status,
                 accepted, lost, delivered, redelivered, last, crashes>>

-----------------------------------------------------------------------------
(* refreshSpoolMetrics, which ends FlushOnce and most paths of ReplayOnce  *)

Refresh ==
  /\ pc = "refresh"
  /\ MaintainStart
  /\ pc' = "refreshing"
  /\ UNCHANGED <<phase, intake, series, window, inflight, current, status,
                 accepted, lost, delivered, redelivered, last, crashes>>

RefreshReturned ==
  /\ pc = "refreshing"
  /\ op = "none"
  /\ Finish
  /\ UNCHANGED <<spoolVars, intake, series, window, inflight, accepted, lost,
                 delivered, redelivered, last, crashes>>

-----------------------------------------------------------------------------
(* ReplayOnce.  Oldest fails on a broken spool and finds no file in an     *)
(* empty one; in both cases ReplayOnce returns without a change.           *)

ReplayStart ==
  /\ phase \in {"running", "stopping"}
  /\ pc = "idle"
  /\ ~Broken
  /\ \E f \in files :
       /\ IsOldest(f, files)
       /\ current' = {f}
  /\ pc' = "send"
  /\ UNCHANGED <<spoolVars, phase, intake, series, window, inflight, status,
                 accepted, lost, delivered, redelivered, last, crashes>>

\* customPayloadSampleCount cannot read or decode the payload.
Undecodable ==
  /\ pc = "send"
  /\ Fault("read")
  /\ status' = Corrupt
  /\ pc' = "reject"
  /\ UNCHANGED <<disk, op, payloads, written, emptied, result, now, history,
                 phase, intake, series, window, inflight, current, accepted,
                 lost, delivered, redelivered, last, crashes>>

\* The collector receives the payload of f.
Receive(f) ==
  /\ delivered' = delivered \cup f.data
  /\ redelivered' = redelivered \cup (delivered \cap f.data)
  /\ last' = IF f.batch = LegacyDir THEN last
             ELSE [batch |-> f.batch, chunk |-> f.chunk]

\* Mutant of Answered: a delivered file is not removed.
AnsweredKeepsFile(code) ==
  /\ pc = "send"
  /\ IF ClassifyHTTPStatus(code) = "success"
     THEN \A f \in current : Receive(f)
     ELSE UNCHANGED <<delivered, redelivered, last>>
  /\ pc' = "refresh"
  /\ status' = code
  /\ UNCHANGED <<spoolVars, phase, intake, series, window, inflight, current,
                 accepted, lost, crashes>>

\* The collector answers with a status.  It takes the payload in on success.
Answered(code) ==
  /\ pc = "send"
  /\ LET outcome == ClassifyHTTPStatus(code) IN
       /\ IF outcome = "success"
          THEN \A f \in current : Receive(f)
          ELSE UNCHANGED <<delivered, redelivered, last>>
       /\ pc' = CASE outcome = "success" -> "remove"
                  [] outcome = "retry" -> "refresh"
                  [] outcome = "permanent" -> "reject"
  /\ status' = code
  /\ UNCHANGED <<spoolVars, phase, intake, series, window, inflight, current,
                 accepted, lost, crashes>>

\* Mutant of Unanswered: the transport error is taken for a success.
UnansweredIsSuccess ==
  /\ pc = "send"
  /\ status' = NoResponse
  /\ pc' = "remove"
  /\ UNCHANGED <<spoolVars, phase, intake, series, window, inflight, current,
                 accepted, lost, delivered, redelivered, last, crashes>>

\* The request fails, on its way to the collector or on the way back.
Unanswered ==
  /\ pc = "send"
  /\ status' = NoResponse
  /\ pc' = "refresh"
  /\ \/ UNCHANGED <<faults, delivered, redelivered, last>>
     \/ Fault("response") /\ \A f \in current : Receive(f)
  /\ UNCHANGED <<disk, op, payloads, written, emptied, result, now, history,
                 phase, intake, series, window, inflight, current, accepted,
                 lost, crashes>>

RemoveDelivered ==
  /\ pc = "remove"
  /\ \E f \in current : Remove(f)
  /\ pc' = "removing"
  /\ UNCHANGED <<phase, intake, series, window, inflight, current, status,
                 accepted, lost, delivered, redelivered, last, crashes>>

QuarantineRejected ==
  /\ pc = "reject"
  /\ \E f \in current : Quarantine(f, status)
  /\ pc' = "quarantining"
  /\ UNCHANGED <<phase, intake, series, window, inflight, current, status,
                 accepted, lost, delivered, redelivered, last, crashes>>

\* Remove or Quarantine has returned; an error ends ReplayOnce at once.
ReplayReturned ==
  /\ pc \in {"removing", "quarantining"}
  /\ op = "none"
  /\ IF result = "ok"
     THEN pc' = "refresh" /\ UNCHANGED <<phase, current, status>>
     ELSE Finish
  /\ UNCHANGED <<spoolVars, intake, series, window, inflight, accepted, lost,
                 delivered, redelivered, last, crashes>>

-----------------------------------------------------------------------------
(* The process: main opens the spool and starts the pipeline; on a signal  *)
(* it closes the receiver, then the pipeline, and exits.                   *)

Start ==
  /\ phase = "down"
  /\ Open
  /\ phase' = "starting"
  /\ UNCHANGED <<intake, pc, series, window, inflight, current, status,
                 accepted, lost, delivered, redelivered, last, crashes>>

StartRecover ==
  /\ phase = "starting"
  /\ Recover
  /\ phase' = CASE op' = "recover" -> "starting"
                [] op' = "none" -> "running"
                [] op' = "closed" -> "down"
  /\ intake' = (op' = "none")
  /\ UNCHANGED <<pc, series, window, inflight, current, status, accepted, lost,
                 delivered, redelivered, last, crashes>>

\* Receiver.Close returns: the workers have drained the packet queue, or the
\* drain deadline has expired and they run on.  Then Close closes p.stop.
Shutdown ==
  /\ phase = "running"
  /\ phase' = "stopping"
  /\ intake' \in BOOLEAN
  /\ UNCHANGED <<spoolVars, pc, series, window, inflight, current, status,
                 accepted, lost, delivered, redelivered, last, crashes>>

\* run sees p.stop; Close goes on to its one flush.
RunReturns ==
  /\ phase = "stopping"
  /\ pc = "idle"
  /\ phase' = "final"
  /\ UNCHANGED <<spoolVars, intake, pc, series, window, inflight, current,
                 status, accepted, lost, delivered, redelivered, last, crashes>>

\* What was in memory only is lost.
ProcessEnds ==
  /\ SpoolCrash
  /\ phase' = "down"
  /\ intake' = FALSE
  /\ pc' = "idle"
  /\ lost' = lost \cup (Held \ persisted)
  /\ series' = {} /\ window' = {} /\ inflight' = {}
  /\ current' = {}
  /\ status' = NoResponse
  /\ UNCHANGED <<accepted, delivered, redelivered, last>>

Exit == phase = "exited" /\ ProcessEnds /\ UNCHANGED crashes

Crash ==
  /\ phase \notin {"down", "exited"}
  /\ crashes < MaxCrashes
  /\ crashes' = crashes + 1
  /\ ProcessEnds

\* The pipeline goroutine works inside a call of the spool.
InSpool == SpoolStep /\ UNCHANGED pipeVars

Clock == Tick /\ UNCHANGED pipeVars

Init ==
  /\ SpoolInit
  /\ phase = "down"
  /\ intake = FALSE
  /\ pc = "idle"
  /\ series = {} /\ window = {} /\ inflight = {}
  /\ current = {}
  /\ status = NoResponse
  /\ accepted = SeriesOf(Legacy)
  /\ lost = {}
  /\ delivered = {} /\ redelivered = {}
  /\ last = [batch |-> 0, chunk |-> 0]
  /\ crashes = 0

Flush == FlushStart \/ Reserve \/ EncodeFails \/ FlushPut \/ PutReturned

Replay ==
  \/ ReplayStart \/ Undecodable
  \/ \E code \in Statuses : Answered(code)
  \/ Unanswered
  \/ RemoveDelivered \/ QuarantineRejected \/ ReplayReturned

Next ==
  \/ \E m \in Series : Add(m)
  \/ Flush \/ Replay \/ Refresh \/ RefreshReturned \/ InSpool
  \/ Start \/ StartRecover \/ Shutdown \/ RunReturns \/ Exit \/ Crash
  \/ Clock

Spec == Init /\ [][Next]_vars

-----------------------------------------------------------------------------
\* Every variable of the pipeline has its type.
TypeOK ==
  /\ SpoolTypeOK
  /\ phase \in Phases
  /\ intake \in BOOLEAN
  /\ pc \in Pcs
  /\ series \in SUBSET Series /\ window \in SUBSET Series /\ inflight \in SUBSET Series
  /\ current \in SUBSET FileType
  /\ status \in Nat
  /\ accepted \in SUBSET Series /\ lost \in SUBSET Series
  /\ delivered \in SUBSET Series /\ redelivered \in SUBSET Series
  /\ last \in [batch : 0 .. MaxBatches, chunk : Nat]
  /\ crashes \in Nat

\* A series the aggregator accepted is in memory, or was committed to the
\* spool, or was in memory when the process ended: Snapshot, a failing flush
\* and Commit never drop one, although workers add series between any two of
\* their steps.
AcceptedAccounted == accepted = Held \cup persisted \cup lost

\* At-least-once delivery: a committed series is in the replay queue until the
\* collector has received it, it was quarantined or it expired.
NoSilentLoss == persisted \subseteq SeriesOf(files) \cup delivered \cup moved \cup expired

\* The collector receives a series twice only if a call, a response or the
\* process failed: no window is spooled twice and no file is sent again once
\* it has been removed.
DuplicatesNeedFailure == redelivered # {} => faults + crashes > 0

\* The refusals that are not the payload's fault.
RetryStatuses == {401, 403, 408, 429} \cup 500 .. 599

\* Only a permanent refusal or an unreadable payload leaves the queue for the
\* quarantine; a 401, 403, 408, 429 or 5xx never does.
QuarantineIsPermanent ==
  \A e \in quarantine : e.name[3] \notin RetryStatuses

\* The collector receives batch chunks in the order they were committed,
\* across retries, crashes and restarts; a chunk may be repeated.
InOrder == [][last = last' \/ Before(last, last')]_last

\* A window that encodeCustomBatches refuses is kept whole: none of it is
\* committed, and it stays reserved as long as the process lives.
OversizedWindowKept ==
  [][inflight \cap TooLarge # {} =>
       persisted' = persisted /\ (inflight' = inflight \/ phase' = "down")]_vars

\* When Close has flushed after a drained shutdown without an error, nothing
\* that was aggregated is left in memory.
FinalFlushComplete ==
  phase = "exited" /\ ~intake /\ inflight = {} => series = {}

-----------------------------------------------------------------------------
\* The pipeline implements DurableDelivery: the rename of PutBatch is the
\* moment a window becomes durable, whatever is still reserved in memory.
Delivery == INSTANCE DurableDelivery WITH
  unseen <- Series \ accepted,
  held <- Held \ persisted,
  queued <- SeriesOf(files),
  received <- delivered,
  discarded <- moved \cup expired

DeliverySpec == Delivery!Spec

-----------------------------------------------------------------------------
(* Fairness.  The goroutine goes on once it has started an operation, and  *)
(* a process that is down is restarted.  The flush ticker and the retry    *)
(* timer fire again and again, and select picks each of them again and     *)
(* again.  The collector accepts a payload if it is sent again and again.  *)

Progress ==
  \/ Reserve \/ EncodeFails \/ FlushPut \/ PutReturned
  \/ Refresh \/ RefreshReturned \/ InSpool
  \/ Undecodable \/ Unanswered \/ \E code \in Statuses : Answered(code)
  \/ RemoveDelivered \/ QuarantineRejected \/ ReplayReturned
  \/ Start \/ StartRecover \/ RunReturns \/ Exit

CollectorAccepts ==
  \E code \in Statuses : ClassifyHTTPStatus(code) = "success" /\ Answered(code)

Fairness ==
  /\ WF_vars(Progress)
  /\ SF_vars(FlushStart)
  /\ SF_vars(ReplayStart)
  /\ SF_vars(CollectorAccepts)

FairSpec == Spec /\ Fairness

\* Every committed series is eventually received by the collector, quarantined
\* or expired, through failed calls, lost responses, crashes and shutdowns.
QueueDrains ==
  \A m \in Series : m \in persisted ~> m \in delivered \cup moved \cup expired

\* Every accepted series is eventually committed, the process ended first, or it
\* waits behind a window that cannot be encoded: a failed or refused flush keeps
\* the window and is tried again.
WindowsFlushed ==
  \A m \in Series :
    m \in accepted ~> m \in persisted \cup lost \/ inflight \cap TooLarge # {}
=============================================================================
