------------------------ MODULE CustomPipelineProofs ------------------------
(***************************************************************************)
(* Proofs about CustomPipeline for every value of its constants.  The      *)
(* steps that send a file, take files out of the queue, commit a batch,    *)
(* call the spool or end the process keep IInv, so every step does, and    *)
(* the invariants follow.  From IInv also follows what the collector may   *)
(* rely on: it receives chunks in the order they were committed, and       *)
(* CustomPipeline implements DurableDelivery.  For the latter, each step   *)
(* of the pipeline is a step of the abstract specification, under the      *)
(* mapping of CustomPipeline, or changes nothing there.                    *)
(***************************************************************************)
EXTENDS CustomPipelineInvariant

-----------------------------------------------------------------------------
(* The sending of a file.                                                  *)

\* Two counters whose sum is zero are both zero.
LEMMA SumIsZero ==
  ASSUME NEW a \in Nat, NEW b \in Nat, a + b = 0
  PROVE  a = 0 /\ b = 0
OBVIOUS

\* A counter that may have grown has not, if the sum is still zero.
LEMMA StillZero == \A a, b, c \in Nat : (c = a \/ c = a + 1) /\ c + b = 0 => c = a
OBVIOUS

\* The same for the failures of a step without a crash.
LEMMA NoNewFault ==
  ASSUME faults \in Nat, crashes \in Nat, faults' \in Nat,
         faults' = faults \/ faults' = faults + 1,
         faults' + crashes = 0
  PROVE  faults' = faults
BY Zenon, StillZero

\* What SendFile leaves alone.
SendFrame ==
  /\ UNCHANGED <<disk, op, payloads, written, emptied, result, now, history>>
  /\ UNCHANGED <<phase, intake, series, window, inflight, current, accepted, lost, crashes>>

\* A payload that the collector does not receive, or that cannot be read,
\* leaves the history of the collector alone.
LEMMA NotReceivedInv ==
  ASSUME IInv, pc = "send", SendFrame,
         faults' = faults \/ faults' = faults + 1,
         pc' \in {"refresh", "reject"},
         pc' = "reject" => status' \notin RetryStatuses,
         status' \in Nat,
         UNCHANGED <<delivered, redelivered, last>>
  PROVE  IInv'
<1>1. UNCHANGED <<files, quarantine, nextBatch, persisted, removed, moved, expired, op, payloads, result,
                  phase, intake, series, window, inflight, current, accepted, lost, crashes>>
  BY Zenon DEF SendFrame, disk, history
<1>2. SpoolIInv'
  BY CountersAreNat, SpoolFault DEF IInv, SendFrame
<1>3. op = "none" /\ Up
  BY Zenon, MutexFree, WorkingIsUp
<1>4. TypeOK'
  <2>1. phase' \in Phases /\ intake' \in BOOLEAN /\ current' \in SUBSET FileType
    BY Zenon, <1>1 DEF IInv, TypeOK
  <2>2. pc' \in Pcs
    BY Zenon DEF Pcs
  <2> QED
    BY Zenon, <1>1, <1>2, <2>1, <2>2, TypeFrame
<1>5. ControlInv' /\ WindowInv' /\ AcceptedAccounted'
  <2>1. ControlInv'
    BY Zenon, <1>1, <1>3 DEF IInv, ControlInv, Up
  <2> QED
    BY Zenon, <1>1, <2>1, WindowFrame
<1>6. CurrentInv' /\ ReceivedInv' /\ OrderInv' /\ QuarantineIsPermanent'
  <2>1. \E f \in files : current = {f} /\ IsOldest(f, files)
    BY ZenonT(40), SMTT(60) DEF IInv, CurrentInv
  <2>2. CurrentInv'
    BY Zenon, <1>1, <2>1 DEF CurrentInv
  <2> QED
    BY Zenon, <1>1, <2>2, ReceivedFrame
<1>7. DuplicateInv'
  <2>1. faults' + crashes' = 0 => faults + crashes = 0
    BY <1>1, CountersAreNat
  <2> QED
    BY Zenon, <1>1, <2>1 DEF IInv, DuplicateInv
<1> QED
  BY Zenon, <1>2, <1>4, <1>5, <1>6, <1>7 DEF IInv

\* A payload that the collector receives: the file is removed next, or a
\* failure has been counted.
LEMMA ReceivedStepInv ==
  ASSUME IInv, pc = "send", SendFrame,
         \A f \in current : Receive(f),
         \/ pc' = "remove" /\ faults' = faults
         \/ pc' = "refresh" /\ faults' = faults + 1,
         status' \in Nat
  PROVE  IInv'
<1>1. faults \in Nat /\ crashes \in Nat /\ faults' \in Nat
  BY CountersAreNat
<1>2. SpoolIInv'
  BY Zenon, <1>1, SpoolFault DEF IInv, SendFrame
<1>3. op = "none" /\ Up
  BY Zenon, MutexFree, WorkingIsUp
<1>4. PICK f \in files : current = {f} /\ IsOldest(f, files)
  BY ZenonT(30) DEF IInv, CurrentInv
<1>5. /\ delivered' = delivered \cup f.data
      /\ redelivered' = redelivered \cup (delivered \cap f.data)
      /\ last' = IF f.batch = LegacyDir THEN last ELSE [batch |-> f.batch, chunk |-> f.chunk]
  BY ZenonT(30), <1>4 DEF Receive
<1>6. f \in FileType
  BY Zenon DEF IInv, SpoolIInv, SpoolTypeOK
<1>7. f.data \subseteq Series /\ f.data \subseteq persisted
  <2>1. CommittedIntact
    BY Zenon DEF IInv, SpoolIInv
  <2> QED
    BY Zenon, <1>6, <2>1 DEF FileType, CommittedIntact, SeriesOf
<1>8. MaxBatches \in Nat
  BY ZenonT(30), SpoolAssumption DEF SpoolAssumption
<1>9. TypeOK'
  <2>1. last' \in [batch : 0 .. MaxBatches, chunk : Nat]
    <3>1. f.batch # LegacyDir => f.batch \in 0 .. MaxBatches /\ f.chunk \in Nat
      BY <1>6, <1>8 DEF FileType, LegacyDir
    <3>2. last \in [batch : 0 .. MaxBatches, chunk : Nat]
      BY ZenonT(40), SMTT(60) DEF IInv, TypeOK
    <3> QED
      BY Zenon, <1>5, <3>1, <3>2
  <2>2. delivered' \in SUBSET Series /\ redelivered' \in SUBSET Series
    <3>1. delivered \in SUBSET Series /\ redelivered \in SUBSET Series
      BY Zenon DEF IInv, TypeOK
    <3> QED
      BY Zenon, <1>5, <1>7, <3>1
  <2>3. pc' \in Pcs
    BY Zenon DEF Pcs
  <2> QED
    BY ZenonT(30), <1>2, <2>1, <2>2, <2>3 DEF IInv, SendFrame, TypeOK, SpoolIInv
<1>10. /\ UNCHANGED <<files, quarantine, nextBatch, persisted, removed, current, crashes,
                       phase, series, window, inflight, accepted, lost, op, payloads, result>>
       /\ pc' # "reject"
  BY Zenon DEF SendFrame, disk, history
<1>11. ControlInv' /\ WindowInv' /\ AcceptedAccounted'
  <2>1. ControlInv'
    BY Zenon, <1>3, <1>10 DEF IInv, ControlInv, Up
  <2> QED
    BY Zenon, <1>10, <2>1, WindowFrame
<1>12. CurrentInv'
  <2>1. f \in files' /\ current' = {f} /\ IsOldest(f, files')
    BY Zenon, <1>4, <1>10
  <2>2. \A g \in current' : g.data \subseteq delivered'
    BY Zenon, <1>5, <2>1
  <2> QED
    BY Zenon, <1>10, <2>1, <2>2 DEF CurrentInv
<1>13. ReceivedInv'
  BY ZenonT(30), <1>5, <1>7, <1>10 DEF IInv, ReceivedInv
<1>14. QuarantineIsPermanent'
  BY ZenonT(40), SMTT(60), <1>10 DEF IInv, QuarantineIsPermanent
<1>15. DuplicateInv'
  <2>1. SUFFICES ASSUME faults' + crashes' = 0
                 PROVE  /\ redelivered' = {}
                        /\ \A g \in files' : g.data \cap delivered' = {} \/ (pc' = "remove" /\ g \in current')
    BY Zenon DEF DuplicateInv
  <2>2. faults + crashes = 0 /\ pc' = "remove"
    <3>1. faults' + crashes = 0
      BY Zenon, <1>10, <2>1
    <3>2. faults' = 0
      BY Zenon, <1>1, <3>1, SumIsZero
    <3>3. faults' # faults + 1
      BY <1>1, <3>2
    <3> QED
      BY Zenon, <3>1, <3>3
  <2>3. redelivered = {} /\ \A g \in files : g.data \cap delivered = {}
    BY Zenon, <2>2 DEF IInv, DuplicateInv
  <2>4. \A g \in files : g = f \/ g.data \cap f.data = {}
    BY Zenon DEF IInv, SpoolIInv, QueuedOnce
  <2>5. redelivered' = {}
    BY Zenon, <1>5, <2>3
  <2>6. \A g \in files : g = f \/ g.data \cap delivered' = {}
    BY Zenon, <1>5, <2>3, <2>4
  <2> QED
    BY ZenonT(40), SMTT(60), <1>4, <1>10, <2>2, <2>5, <2>6
<1>16. OrderInv'
  <2>1. CASE f.batch = LegacyDir
    BY ZenonT(30), <1>5, <1>10, <2>1 DEF IInv, OrderInv, Before
  <2>2. CASE f.batch # LegacyDir
    <3>1. f.batch < nextBatch
      BY Zenon, <2>2 DEF IInv, OrderInv
    <3>2. \A g \in files : g = f \/ Before(f, g)
      BY ZenonT(40), SMTT(60), <1>4 DEF IsOldest
    <3>3. last'.batch = f.batch /\ last'.chunk = f.chunk
      BY Zenon, <1>5, <2>2
    <3>4. \A g \in files : g.batch # LegacyDir => g.batch < nextBatch
      BY Zenon DEF IInv, OrderInv
    <3> QED
      BY Zenon, <1>10, <3>1, <3>2, <3>3, <3>4 DEF OrderInv, Before
  <2> QED
    BY Zenon, <2>1, <2>2
<1> QED
  BY Zenon, <1>2, <1>9, <1>11, <1>12, <1>13, <1>14, <1>15, <1>16 DEF IInv

\* SendFile preserves the invariant, whatever the collector answers.
LEMMA SendInv ==
  ASSUME IInv, Undecodable \/ Unanswered \/ \E code \in Statuses : Answered(code)
  PROVE  IInv'
<1>1. CASE Undecodable
  <2>1. SendFrame /\ pc = "send" /\ pc' = "reject" /\ faults' = faults + 1 /\ status' = 0
    BY Zenon, <1>1 DEF Undecodable, SendFrame, Fault, Corrupt
  <2>2. status' \notin RetryStatuses
    BY Zenon, <2>1, NoneRetryable
  <2> QED
    BY <1>1, <2>1, <2>2, NotReceivedInv DEF Undecodable
<1>2. CASE Unanswered
  <2>1. SendFrame /\ pc = "send" /\ pc' = "refresh" /\ status' = 0
    BY Zenon, <1>2 DEF Unanswered, SendFrame, NoResponse
  <2>2. \/ faults' = faults /\ UNCHANGED <<delivered, redelivered, last>>
        \/ faults' = faults + 1 /\ \A f \in current : Receive(f)
    BY Zenon, <1>2 DEF Unanswered, Fault
  <2> QED
    BY Zenon, <2>1, <2>2, NotReceivedInv, ReceivedStepInv
<1>3. ASSUME NEW code \in Statuses, Answered(code)
      PROVE  IInv'
  <2>1. SendFrame /\ pc = "send" /\ faults' = faults /\ status' = code
    BY Zenon, <1>3 DEF Answered, SendFrame, spoolVars
  <2>2. code \in 100 .. 599
    BY PipelineAssumption DEF PipelineAssumption
  <2>3. CASE ClassifyHTTPStatus(code) = "success"
    <3>1. pc' = "remove" /\ \A f \in current : Receive(f)
      BY Zenon, <1>3, <2>3 DEF Answered
    <3> QED
      BY <2>1, <2>2, <3>1, ReceivedStepInv
  <2>4. CASE ClassifyHTTPStatus(code) = "retry"
    <3>1. pc' = "refresh" /\ UNCHANGED <<delivered, redelivered, last>>
      BY Zenon, <1>3, <2>4 DEF Answered
    <3> QED
      BY <2>1, <2>2, <3>1, NotReceivedInv
  <2>5. CASE ClassifyHTTPStatus(code) = "permanent"
    <3>1. pc' = "reject" /\ UNCHANGED <<delivered, redelivered, last>>
      BY Zenon, <1>3, <2>5 DEF Answered
    <3>2. code \notin RetryStatuses
      BY <2>2, <2>5 DEF ClassifyHTTPStatus, RetryStatuses
    <3> QED
      BY <2>1, <2>2, <3>1, <3>2, NotReceivedInv
  <2> QED
    BY <2>3, <2>4, <2>5 DEF ClassifyHTTPStatus
<1> QED
  BY Zenon, <1>1, <1>2, <1>3

-----------------------------------------------------------------------------
(* Steps that take files out of the queue.                                 *)

\* A step of the spool that commits nothing and puts nothing in the queue
\* preserves the invariant, if the goroutine is not sending a file.
LEMMA ShrinkInv ==
  ASSUME IInv, SpoolIInv',
         files' \subseteq files, nextBatch' = nextBatch, persisted' = persisted,
         removed' \subseteq delivered,
         \A e \in quarantine' :
           e \in quarantine \/ e.name[3] \notin RetryStatuses,
         faults' = faults \/ faults' = faults + 1,
         pc' \notin {"send", "remove", "reject", "rotated"}, pc # "rotated",
         pc = "remove" /\ faults' = faults => \A f \in current : f \notin files',
         pc' \in Pcs, phase' \in Phases, ControlInv',
         IF pc' = "putting" /\ op' = "none" /\ result' = "ok"
         THEN inflight \subseteq persisted
         ELSE inflight \cap persisted = {},
         op' = "write" => UNION {payloads'[i] : i \in DOMAIN payloads'} = inflight,
         UNCHANGED <<intake, series, window, inflight, current, status, accepted, lost,
                     delivered, redelivered, last, crashes>>
  PROVE  IInv'
<1> USE DEF IInv
<1>1. TypeOK'
  BY Zenon DEF TypeOK, SpoolIInv
<1>2. WindowInv' /\ AcceptedAccounted'
  BY Zenon DEF WindowInv, AcceptedAccounted, Held
<1>3. CurrentInv' /\ ReceivedInv'
  BY Zenon DEF CurrentInv, ReceivedInv
<1>4. QuarantineIsPermanent'
  BY Zenon DEF QuarantineIsPermanent
<1>5. OrderInv'
  BY Zenon DEF OrderInv, Before
<1>6. DuplicateInv'
  <2>1. SUFFICES ASSUME faults' + crashes' = 0
                 PROVE  /\ redelivered' = {}
                        /\ \A g \in files' : g.data \cap delivered' = {}
    BY Zenon DEF DuplicateInv
  <2>2. faults \in Nat /\ crashes \in Nat /\ faults' \in Nat
    BY ZenonT(30) DEF SpoolIInv, SpoolTypeOK, TypeOK
  <2>3. faults' + crashes = 0
    BY Zenon, <2>1
  <2>4. faults' = faults \/ faults' = faults + 1
    BY Zenon
  <2>5. faults' = faults
    BY Zenon, <2>2, <2>3, <2>4, NoNewFault
  <2>6. faults + crashes = 0
    BY Zenon, <2>3, <2>5
  <2>7. \A g \in files' : ~(pc = "remove" /\ g \in current)
    BY Zenon, <2>5
  <2> QED
    BY Zenon, <2>6, <2>7 DEF DuplicateInv
<1> QED
  BY Zenon, <1>1, <1>2, <1>3, <1>4, <1>5, <1>6

\* Calling Maintain preserves the invariant.
LEMMA RefreshInv ==
  ASSUME IInv, Refresh
  PROVE  IInv'
<1>1. Up /\ op = "none" /\ pc = "refresh" /\ pc' = "refreshing"
  BY Zenon, MutexFree, WorkingIsUp DEF Refresh
<1>2. /\ UNCHANGED <<disk, history>>
      /\ faults' = faults \/ faults' = faults + 1
      /\ op' \in {"none", "expire"}
  BY Zenon, <1>1 DEF Refresh, MaintainStart, Return, Fault
<1>3. SpoolIInv'
  BY Zenon, QuietStepInv DEF Refresh, QuietStep, IInv
<1>4. ControlInv' /\ pc' \in Pcs /\ phase' \in Phases
  BY Zenon, <1>1, <1>2 DEF Refresh, ControlInv, IInv, Up, Pcs, TypeOK
<1>5. inflight \cap persisted = {} /\ removed \subseteq delivered
  BY Zenon, <1>1 DEF IInv, WindowInv, ReceivedInv
<1> QED
  BY Zenon, <1>1, <1>2, <1>3, <1>4, <1>5, ShrinkInv DEF disk, history, Refresh

\* Remove of a delivered file preserves the invariant.
LEMMA RemoveDeliveredInv ==
  ASSUME IInv, RemoveDelivered
  PROVE  IInv'
<1>1. Up /\ op = "none" /\ pc = "remove" /\ pc' = "removing"
  BY Zenon, MutexFree, WorkingIsUp DEF RemoveDelivered
<1>2. PICK f \in current : Remove(f)
  BY Zenon DEF RemoveDelivered
<1>3. f \in files /\ current = {f} /\ f.data \subseteq delivered
  BY Zenon, <1>1, <1>2 DEF IInv, CurrentInv
<1>4. SpoolIInv'
  BY Zenon, <1>2, <1>3, RemoveFileInv, QuietStepInv DEF Remove, QuietStep, IInv
<1>5. op' \in {"none", "rmdir"}
  BY Zenon, <1>2 DEF Remove, RemoveFile, CallFails, AfterRemoval, Return
<1>6. ControlInv' /\ pc' \in Pcs /\ phase' \in Phases
  BY Zenon, <1>1, <1>5 DEF RemoveDelivered, ControlInv, IInv, Up, Pcs, TypeOK
<1>7. inflight \cap persisted = {} /\ removed \subseteq delivered
  BY Zenon, <1>1 DEF IInv, WindowInv, ReceivedInv
<1>8. /\ UNCHANGED <<nextBatch, persisted, quarantine>>
      /\ \/ files' = files \ {f} /\ removed' = removed \cup f.data /\ faults' = faults
         \/ files' = files /\ removed' = removed /\ faults' = faults + 1
  BY Zenon, <1>2 DEF Remove, RemoveFile, CallFails, Fault, disk, history
<1>9. faults \in Nat
  BY Zenon DEF IInv, SpoolIInv, SpoolTypeOK
<1>10. faults' = faults => \A g \in current : g \notin files'
  BY SMTT(30), <1>3, <1>8, <1>9
<1> QED
  BY Zenon, <1>1, <1>3, <1>4, <1>5, <1>6, <1>7, <1>8, <1>10, ShrinkInv DEF RemoveDelivered

\* Quarantine of a refused file preserves the invariant.
LEMMA QuarantineRejectedInv ==
  ASSUME IInv, QuarantineRejected
  PROVE  IInv'
<1>1. Up /\ op = "none" /\ pc = "reject" /\ pc' = "quarantining"
  BY Zenon, MutexFree, WorkingIsUp DEF QuarantineRejected
<1>2. PICK f \in current : Quarantine(f, status)
  BY Zenon DEF QuarantineRejected
<1>3. f \in files /\ status \in Nat /\ status \notin RetryStatuses
  BY Zenon, <1>1, <1>2 DEF IInv, CurrentInv, TypeOK
<1>4. SpoolIInv'
  BY Zenon, <1>2, <1>3, QuarantineFileInv, QuietStepInv DEF Quarantine, QuietStep, IInv
<1>5. op' \in {"none", "rmdir"}
  BY Zenon, <1>2 DEF Quarantine, QuarantineFile, CallFails, AfterRemoval, Return
<1>6. ControlInv' /\ pc' \in Pcs /\ phase' \in Phases
  BY Zenon, <1>1, <1>5 DEF QuarantineRejected, ControlInv, IInv, Up, Pcs, TypeOK
<1>7. inflight \cap persisted = {} /\ removed \subseteq delivered
  BY Zenon, <1>1 DEF IInv, WindowInv, ReceivedInv
<1>8. /\ UNCHANGED <<nextBatch, persisted, removed>>
      /\ files' \subseteq files
      /\ faults' = faults \/ faults' = faults + 1
  BY Zenon, <1>2 DEF Quarantine, QuarantineFile, CallFails, Fault, disk, history
<1>9. \A e \in quarantine' : e \in quarantine \/ e.name[3] = status
  BY <1>2 DEF Quarantine, QuarantineFile, CallFails, disk, FailedName
<1> QED
  BY Zenon, <1>1, <1>3, <1>4, <1>5, <1>6, <1>7, <1>8, <1>9, ShrinkInv DEF QuarantineRejected

\* Opening and recovering the spool preserves the invariant.
LEMMA StartInv ==
  ASSUME IInv, Start \/ StartRecover
  PROVE  IInv'
<1>1. SpoolIInv'
  BY Zenon, QuietStepInv, RecoverInv DEF IInv, Start, StartRecover, QuietStep
<1>2. /\ pc = "idle" /\ op \in {"closed", "recover"}
      /\ UNCHANGED <<pc, series, window, inflight, current, status, accepted, lost,
                     delivered, redelivered, last, crashes>>
  BY Zenon DEF IInv, ControlInv, Start, StartRecover
<1>3. /\ UNCHANGED <<files, nextBatch, history, payloads>>
      /\ faults' = faults \/ faults' = faults + 1
      /\ \A e \in quarantine' : e \in quarantine \/ e.name[3] = 0
      /\ op' \in {"closed", "recover", "none"}
  BY SMTT(60), ZenonT(40)
     DEF Start, StartRecover, Open, Recover, RecoverTmp, RecoverBatch, RecoverDone, RecoverFails,
         Return, Fault, Corrupt, disk
<1>4. phase' = CASE op' = "recover" -> "starting"
                 [] op' = "none" -> "running"
                 [] op' = "closed" -> "down"
  BY Zenon DEF Start, StartRecover, Open
<1>5. intake' \in BOOLEAN
  BY Zenon DEF Start, StartRecover, IInv, TypeOK
<1>6. ControlInv' /\ TypeOK'
  <2>1. ControlInv'
    BY Zenon, <1>2, <1>3, <1>4 DEF ControlInv
  <2>2. phase' \in Phases
    BY Zenon, <1>3, <1>4 DEF Phases
  <2> QED
    BY Zenon, <1>1, <1>2, <1>5, <2>1, <2>2 DEF IInv, TypeOK, SpoolIInv
<1>7. WindowInv' /\ AcceptedAccounted' /\ CurrentInv' /\ ReceivedInv'
  BY Zenon, <1>2, <1>3 DEF history, IInv, WindowInv, AcceptedAccounted, Held, CurrentInv, ReceivedInv
<1>8. OrderInv' /\ QuarantineIsPermanent'
  <2>1. OrderInv'
    BY ZenonT(40), SMTT(60), <1>2, <1>3 DEF IInv, OrderInv, Before
  <2>2. QuarantineIsPermanent'
    BY Zenon, <1>3, NoneRetryable DEF IInv, QuarantineIsPermanent
  <2> QED
    BY Zenon, <2>1, <2>2
<1>9. DuplicateInv'
  <2>1. faults \in Nat /\ crashes \in Nat
    BY Zenon DEF IInv, SpoolIInv, SpoolTypeOK, TypeOK
  <2> QED
    BY SMTT(30), <1>2, <1>3, <2>1 DEF IInv, DuplicateInv
<1> QED
  BY Zenon, <1>1, <1>6, <1>7, <1>8, <1>9 DEF IInv

-----------------------------------------------------------------------------
(* Steps that fill the queue, call the spool, or end the process.          *)

\* The rename that commits the reserved window preserves the invariant.
LEMMA CommitInv ==
  ASSUME IInv, PutRename, UNCHANGED pipeVars
  PROVE  IInv'
<1> USE DEF pipeVars
<1>1. SpoolIInv'
  BY Zenon, PutRenameInv DEF IInv
<1>2. /\ op = "write" /\ op' = "none" /\ result' = "ok" /\ pc = "putting" /\ Up
      /\ files' = files \cup ChunkFiles
      /\ nextBatch' = nextBatch + 1
      /\ UNCHANGED <<quarantine, removed, faults>>
  BY Zenon, WorkingIsUp DEF PutRename, CommitBatch, Return, IInv, ControlInv
<1>3. persisted' = persisted \cup inflight
  BY Zenon, <1>2 DEF PutRename, CommitBatch, IInv, WindowInv
<1>4. TypeOK'
  BY Zenon, <1>1 DEF IInv, TypeOK, SpoolIInv
<1>5. ControlInv'
  BY Zenon, <1>2 DEF IInv, ControlInv, Up
<1>6. WindowInv' /\ AcceptedAccounted'
  <2>1. WindowInv'
    BY Zenon, <1>2, <1>3 DEF IInv, WindowInv
  <2>2. AcceptedAccounted'
    BY ZenonT(30), <1>2, <1>3 DEF IInv, AcceptedAccounted, Held
  <2> QED
    BY Zenon, <2>1, <2>2
<1>7. CurrentInv' /\ ReceivedInv' /\ QuarantineIsPermanent'
  <2>1. CurrentInv'
    BY Zenon, <1>2 DEF IInv, CurrentInv
  <2>2. ReceivedInv'
    BY Zenon, <1>2, <1>3 DEF IInv, ReceivedInv
  <2>3. QuarantineIsPermanent'
    BY Zenon, <1>2, <1>3 DEF IInv, QuarantineIsPermanent
  <2> QED
    BY Zenon, <2>1, <2>2, <2>3
<1>8. \A f \in ChunkFiles : f.batch = nextBatch
  BY DEF ChunkFiles
<1>9. OrderInv'
  <2>1. nextBatch \in Nat /\ last.batch \in Nat /\ last.batch < nextBatch
    <3>1. nextBatch \in 1 .. LegacyDir
      BY Zenon DEF IInv, SpoolIInv, SpoolTypeOK
    <3>2. last \in [batch : 0 .. MaxBatches, chunk : Nat]
      BY Zenon DEF IInv, TypeOK
    <3>3. MaxBatches \in Nat
      BY Zenon, SpoolAssumption DEF SpoolAssumption
    <3>4. nextBatch \in Nat /\ last.batch \in Nat
      BY <3>1, <3>2, <3>3 DEF LegacyDir
    <3> QED
      BY Zenon, <3>4 DEF IInv, OrderInv
  <2>2. \A f \in files : f.batch \in Nat
    BY SMTT(30) DEF IInv, SpoolIInv, SpoolTypeOK, FileType
  <2>3. \A f \in files : f.batch # LegacyDir =>
          /\ f.batch < nextBatch + 1
          /\ Before(last, f) \/ (last.batch = f.batch /\ last.chunk = f.chunk)
    BY <2>1, <2>2 DEF IInv, OrderInv
  <2>4. \A f \in ChunkFiles : f.batch < nextBatch + 1 /\ Before(last, f)
    BY SMTT(30), <1>8, <2>1 DEF Before
  <2>5. \A f \in files' : f.batch # LegacyDir =>
          /\ f.batch < nextBatch'
          /\ Before(last, f) \/ (last.batch = f.batch /\ last.chunk = f.chunk)
    BY Zenon, <1>2, <2>3, <2>4
  <2> QED
    BY SMTT(30), ZenonT(40), <1>2, <2>1, <2>5 DEF OrderInv, Before
<1>10. DuplicateInv'
  <2>1. \A f \in ChunkFiles : f.data \cap delivered = {}
    <3> TAKE f \in ChunkFiles
    <3>1. f.data \subseteq inflight
      BY SMTT(30), ZenonT(40), <1>2, LenProperties DEF ChunkFiles, IInv, WindowInv, SpoolIInv, SpoolTypeOK
    <3>2. inflight \cap persisted = {} /\ delivered \subseteq persisted
      BY Zenon, <1>2 DEF IInv, WindowInv, ReceivedInv
    <3> QED
      BY Zenon, <3>1, <3>2
  <2> QED
    BY Zenon, <1>2, <2>1 DEF IInv, DuplicateInv
<1> QED
  BY Zenon, <1>1, <1>4, <1>5, <1>6, <1>7, <1>9, <1>10 DEF IInv

\* Inside a call: what may change, and where the call goes on.
CallFrame ==
  /\ files' \subseteq files
  /\ quarantine' \subseteq quarantine
  /\ UNCHANGED <<nextBatch, persisted, removed>>
  /\ faults' = faults \/ faults' = faults + 1
  /\ op \notin {"closed", "recover", "none"}
  /\ op = "write" => op' \in {"write", "rollback"} /\ payloads' = payloads
  /\ op = "rollback" => op' = "none" /\ result' = "error"
  /\ op = "rmdir" => op' = "none"
  /\ op \in {"expire", "expireRmdir", "quota"} => op' \in {"expire", "expireRmdir", "quota", "none"}

\* No step inside a call but the rename adds to the queue.
LEMMA CallSteps ==
  ASSUME SpoolStep
  PROVE  PutRename \/ CallFrame
<1>1. CASE PutWrite
  BY Zenon, <1>1 DEF PutWrite, CallFrame, disk, history
<1>2. CASE PutFails
  BY Zenon, <1>2 DEF PutFails, CallFrame, Fault, disk, history
<1>3. CASE PutRollback
  BY Zenon, <1>3 DEF PutRollback, CallFrame, Return, Fault, history
<1>4. CASE Rmdir
  BY Zenon, <1>4 DEF Rmdir, CallFrame, Return, Fault, history
<1>5. ASSUME NEW f \in files, MaintainExpire(f)
      PROVE  CallFrame
  BY Zenon, <1>5 DEF MaintainExpire, CallFrame, AfterRemoval
<1>6. CASE MaintainExpired
  BY Zenon, <1>6 DEF MaintainExpired, CallFrame, disk, history
<1>7. ASSUME NEW e \in quarantine, MaintainTrim(e)
      PROVE  CallFrame
  BY Zenon, <1>7 DEF MaintainTrim, CallFrame
<1>8. CASE MaintainDone
  BY Zenon, <1>8 DEF MaintainDone, CallFrame, Return, disk, history
<1>9. CASE MaintainFails
  BY Zenon, <1>9 DEF MaintainFails, CallFrame, Return, Fault, disk, history
<1> QED
  BY ZenonT(40), SMTT(60), <1>1, <1>2, <1>3, <1>4, <1>5, <1>6, <1>7, <1>8, <1>9 DEF SpoolStep

\* The steps inside a call preserve the invariant.
LEMMA InSpoolInv ==
  ASSUME IInv, InSpool
  PROVE  IInv'
<1>1. UNCHANGED pipeVars
  BY Zenon DEF InSpool
<1>2. CASE PutRename
  BY Zenon, <1>1, <1>2, CommitInv
<1>3. CASE CallFrame
  <2>1. SpoolIInv'
    BY Zenon, SpoolStepInv DEF InSpool, IInv
  <2>2. /\ files' \subseteq files
        /\ quarantine' \subseteq quarantine
        /\ UNCHANGED <<nextBatch, persisted, removed>>
        /\ faults' = faults \/ faults' = faults + 1
    BY Zenon, <1>3 DEF CallFrame
  <2>3. op \notin {"closed", "recover", "none"}
    BY Zenon, <1>3 DEF CallFrame
  <2>4. /\ op = "write" => op' \in {"write", "rollback"} /\ payloads' = payloads
        /\ op = "rollback" => op' = "none" /\ result' = "error"
        /\ op = "rmdir" => op' = "none"
        /\ op \in {"expire", "expireRmdir", "quota"} => op' \in {"expire", "expireRmdir", "quota", "none"}
    BY Zenon, <1>3 DEF CallFrame
  <2>5. op \in {"write", "rollback", "rmdir", "expire", "expireRmdir", "quota"}
    BY Zenon, <2>3 DEF IInv, SpoolIInv, SpoolTypeOK, Ops
  <2>6. pc \in {"putting", "removing", "quarantining", "refreshing"} /\ Up
    BY Zenon, <2>5, WorkingIsUp DEF IInv, ControlInv
  <2>7. ControlInv'
    BY Zenon, <1>1, <2>4, <2>5, <2>6 DEF pipeVars, IInv, ControlInv, Up
  <2>8. inflight \cap persisted = {} /\ removed \subseteq delivered
    BY Zenon, <2>3 DEF IInv, WindowInv, ReceivedInv
  <2>9. /\ ~(pc' = "putting" /\ op' = "none" /\ result' = "ok")
        /\ op' = "write" => UNION {payloads'[i] : i \in DOMAIN payloads'} = inflight
    <3>1. pc' = pc
      BY Zenon, <1>1 DEF pipeVars
    <3>2. op' = "write" => op = "write" /\ payloads' = payloads
      BY Zenon, <2>4, <2>5
    <3>3. ~(pc' = "putting" /\ op' = "none" /\ result' = "ok")
      BY Zenon, <2>4, <2>5, <3>1 DEF IInv, ControlInv
    <3>4. op = "write" => UNION {payloads[i] : i \in DOMAIN payloads} = inflight
      BY Zenon DEF IInv, WindowInv
    <3> QED
      BY Zenon, <3>2, <3>3, <3>4
  <2>10. pc \in Pcs /\ phase \in Phases
    BY Zenon DEF IInv, TypeOK
  <2> QED
    BY Zenon, <1>1, <2>1, <2>2, <2>6, <2>7, <2>8, <2>9, <2>10, ShrinkInv DEF pipeVars
<1> QED
  BY Zenon, <1>2, <1>3, CallSteps DEF InSpool

\* A step that leaves the pipeline, the queue and the history alone.
LEMMA PipelineStutter ==
  ASSUME IInv, SpoolIInv',
         UNCHANGED <<files, quarantine, nextBatch, op, payloads, result, faults>>,
         UNCHANGED <<persisted, removed, moved, expired>>,
         UNCHANGED <<phase, intake, pc, series, window, inflight, current, status>>,
         UNCHANGED <<accepted, lost, delivered, redelivered, last, crashes>>
  PROVE  IInv'
<1>1. TypeOK'
  BY Zenon DEF IInv, TypeOK, SpoolIInv
<1>2. ControlInv' /\ WindowInv'
  BY ZenonT(30) DEF IInv, ControlInv, WindowInv
<1>3. CurrentInv'
  BY ZenonT(40), SMTT(60) DEF IInv, CurrentInv
<1>4. DuplicateInv'
  BY ZenonT(30) DEF IInv, DuplicateInv
<1>5. AcceptedAccounted' /\ ReceivedInv' /\ OrderInv' /\ QuarantineIsPermanent'
  <2>1. AcceptedAccounted'
    BY ZenonT(30) DEF IInv, AcceptedAccounted, Held
  <2> QED
    BY Zenon, <2>1, ReceivedFrame
<1> QED
  BY Zenon, <1>1, <1>2, <1>3, <1>4, <1>5 DEF IInv

\* The clock preserves the invariant.
LEMMA ClockInv ==
  ASSUME IInv, Clock
  PROVE  IInv'
<1>1. SpoolIInv'
  BY Zenon, QuietStepInv DEF IInv, Clock, QuietStep
<1>2. UNCHANGED <<files, dirs, quarantine, nextBatch, op, payloads, result, faults, history, pipeVars>>
  BY Zenon DEF Clock, Tick, disk
<1> QED
  BY Zenon, <1>1, <1>2, PipelineStutter DEF pipeVars, history

\* The end of the process, by a crash or after Close, preserves the invariant.
LEMMA ProcessEndsInv ==
  ASSUME IInv, Exit \/ Crash
  PROVE  IInv'
<1>1. SpoolIInv'
  BY Zenon, QuietStepInv DEF IInv, Exit, Crash, ProcessEnds, QuietStep
<1>2. /\ UNCHANGED <<disk, history, faults, accepted, delivered, redelivered, last>>
      /\ op' = "closed" /\ phase' = "down" /\ pc' = "idle" /\ intake' = FALSE
      /\ lost' = lost \cup (Held \ persisted)
      /\ series' = {} /\ window' = {} /\ inflight' = {} /\ current' = {}
      /\ status' = 0
  BY Zenon DEF Exit, Crash, ProcessEnds, SpoolCrash, NoResponse
<1>3. \/ crashes' = crashes /\ pc = "idle"
      \/ crashes' = crashes + 1
  BY Zenon DEF Exit, Crash, IInv, ControlInv
<1>4. faults \in Nat /\ crashes \in Nat
  BY Zenon DEF IInv, SpoolIInv, SpoolTypeOK, TypeOK
<1>5. TypeOK'
  <2>1. Held \in SUBSET Series
    BY Zenon DEF IInv, TypeOK, Held
  <2>2. crashes' \in Nat
    BY <1>3, <1>4
  <2>3. SpoolTypeOK'
    BY Zenon, <1>1 DEF SpoolIInv
  <2>4. intake' \in BOOLEAN
    BY ZenonT(40), SMTT(60), <1>2
  <2>5. lost' \in SUBSET Series
    BY Zenon, <1>2, <2>1 DEF IInv, TypeOK
  <2> QED
    BY Zenon, <1>2, <2>2, <2>3, <2>4, <2>5 DEF IInv, TypeOK, Phases, Pcs
<1>6. ControlInv' /\ WindowInv' /\ AcceptedAccounted'
  <2>1. ControlInv'
    BY Zenon, <1>2 DEF ControlInv
  <2>2. WindowInv'
    BY Zenon, <1>2 DEF WindowInv
  <2>3. AcceptedAccounted'
    BY Zenon, <1>2 DEF history, IInv, AcceptedAccounted, Held
  <2> QED
    BY Zenon, <2>1, <2>2, <2>3
<1>7. CurrentInv' /\ ReceivedInv' /\ OrderInv' /\ QuarantineIsPermanent'
  <2>1. CurrentInv'
    BY Zenon, <1>2 DEF CurrentInv
  <2> QED
    BY Zenon, <1>2, <2>1, ReceivedFrame DEF disk, history
<1>8. DuplicateInv'
  <2>1. SUFFICES ASSUME faults' + crashes' = 0
                 PROVE  /\ redelivered' = {}
                        /\ \A g \in files' : g.data \cap delivered' = {}
    BY Zenon DEF DuplicateInv
  <2>2. crashes' + faults = 0
    BY <1>2, <1>3, <1>4, <2>1
  <2>3. crashes' = crashes
    <3>1. crashes' \in Nat
      BY <1>3, <1>4
    <3> QED
      BY ZenonT(40), SMTT(60), <1>3, <1>4, <2>2, <3>1, StillZero
  <2>4. pc = "idle"
    BY <1>3, <1>4, <2>3
  <2>5. faults + crashes = 0
    BY Zenon, <1>2, <2>1, <2>3
  <2>6. UNCHANGED <<files, redelivered, delivered>>
    BY Zenon, <1>2 DEF disk, history
  <2>7. redelivered = {} /\ \A g \in files : g.data \cap delivered = {}
    <3>1. pc # "remove"
      BY Zenon, <2>4
    <3> QED
      BY ZenonT(40), SMTT(60), <2>5, <3>1 DEF IInv, DuplicateInv
  <2> QED
    BY ZenonT(40), SMTT(60), <2>6, <2>7
<1> QED
  BY Zenon, <1>1, <1>5, <1>6, <1>7, <1>8 DEF IInv

-----------------------------------------------------------------------------
(* The invariants for every value of the constants.                        *)

\* IInv is an invariant of the pipeline.
THEOREM PipelineInvariant == Spec => []IInv
<1>1. Init => IInv
  BY Zenon, InitInv
<1>2. IInv /\ [Next]_vars => IInv'
  <2> SUFFICES ASSUME IInv, [Next]_vars
               PROVE  IInv'
    BY Zenon
  <2>1. CASE \E m \in Series : Add(m)
    BY Zenon, <2>1, AddInv
  <2>2. CASE Flush
    BY Zenon, <2>2, WindowStepInv, FlushPutInv DEF Flush
  <2>3. CASE Replay
    BY Zenon, <2>3, ReplayStartInv, SendInv, RemoveDeliveredInv, QuarantineRejectedInv, ControlStepInv
       DEF Replay
  <2>4. CASE Refresh \/ RefreshReturned \/ Shutdown \/ RunReturns
    BY Zenon, <2>4, RefreshInv, ControlStepInv
  <2>5. CASE InSpool \/ Clock
    BY Zenon, <2>5, InSpoolInv, ClockInv
  <2>6. CASE Start \/ StartRecover \/ Exit \/ Crash
    BY Zenon, <2>6, StartInv, ProcessEndsInv
  <2>7. CASE UNCHANGED vars
    <3>1. SpoolIInv'
      BY Zenon, <2>7, SpoolStutter DEF vars, IInv
    <3> QED
      BY Zenon, <2>7, <3>1, PipelineStutter DEF vars, spoolVars, disk, history, pipeVars
  <2> QED
    BY Zenon, <2>1, <2>2, <2>3, <2>4, <2>5, <2>6, <2>7 DEF Next
<1> QED
  BY <1>1, <1>2, PTL DEF Spec

\* Every variable of the pipeline keeps its type.
THEOREM TypeCorrect == Spec => []TypeOK
<1>1. IInv => TypeOK
  BY Zenon DEF IInv
<1> QED
  BY <1>1, PipelineInvariant, PTL

\* At-least-once delivery: FlushOnce and ReplayOnce lose no committed series,
\* whatever fails and whenever the process dies.
THEOREM DeliveredAtLeastOnce == Spec => []NoSilentLoss
<1>1. IInv => NoSilentLoss
  BY Zenon DEF IInv, SpoolIInv, CommittedIntact, ReceivedInv, NoSilentLoss
<1> QED
  BY <1>1, PipelineInvariant, PTL

\* Snapshot, Commit and a failing flush lose no accepted series.
THEOREM AcceptedNotDropped == Spec => []AcceptedAccounted
<1>1. IInv => AcceptedAccounted
  BY Zenon DEF IInv
<1> QED
  BY <1>1, PipelineInvariant, PTL

\* FlushOnce, which retries a reserved window, never spools a series twice.
THEOREM SpooledOnce == Spec => []QueuedOnce
<1>1. IInv => QueuedOnce
  BY Zenon DEF IInv, SpoolIInv
<1> QED
  BY <1>1, PipelineInvariant, PTL

\* The pipeline keeps the replay queue within maxBytes.
THEOREM QueueBounded == Spec => []CapacityBound
<1>1. IInv => CapacityBound
  BY Zenon DEF IInv, SpoolIInv
<1> QED
  BY <1>1, PipelineInvariant, PTL

\* Under the whole pipeline, with its crashes and restarts, a batch is committed
\* whole or not at all, and leaves the queue only by being delivered and removed,
\* quarantined or expired.
THEOREM BatchesIntact == Spec => []CommittedIntact
<1>1. IInv => CommittedIntact
  BY Zenon DEF IInv, SpoolIInv
<1> QED
  BY <1>1, PipelineInvariant, PTL

\* The pipeline finds a spool that it can list after every start and recovery.
THEOREM SpoolStaysUsable == Spec => []UsableWhenOpen
<1>1. IInv => UsableWhenOpen
  BY Zenon DEF IInv, SpoolIInv, Tidy, Opened, UsableWhenOpen, Broken
<1> QED
  BY <1>1, PipelineInvariant, PTL

\* A series reaches the collector twice only after a failure.
THEOREM DeliveredOnceWithoutFailure == Spec => []DuplicatesNeedFailure
<1>1. IInv => DuplicatesNeedFailure
  <2> SUFFICES ASSUME IInv, redelivered # {}
               PROVE  faults + crashes > 0
    BY Zenon DEF DuplicatesNeedFailure
  <2>1. faults + crashes # 0
    BY Zenon DEF IInv, DuplicateInv
  <2>2. faults \in Nat /\ crashes \in Nat
    BY Zenon DEF IInv, SpoolIInv, SpoolTypeOK, TypeOK
  <2> QED
    BY <2>1, <2>2
<1> QED
  BY <1>1, PipelineInvariant, PTL

\* No payload is quarantined for a status that SendFile retries.
THEOREM RetryableNotQuarantined == Spec => []QuarantineIsPermanent
<1>1. IInv => QuarantineIsPermanent
  BY Zenon DEF IInv
<1> QED
  BY <1>1, PipelineInvariant, PTL

-----------------------------------------------------------------------------
(* The order of delivery.                                                  *)

\* A payload the collector receives does not sort before the last one.
LEMMA ReceiveInOrder ==
  ASSUME IInv, pc = "send", \A f \in current : Receive(f)
  PROVE  last' = last \/ Before(last, last')
<1>1. PICK f \in files : current = {f}
  <2>1. CurrentInv
    BY Zenon DEF IInv
  <2> QED
    BY Zenon, <2>1 DEF CurrentInv
<1>2. last' = IF f.batch = LegacyDir THEN last ELSE [batch |-> f.batch, chunk |-> f.chunk]
  <2>1. Receive(f)
    BY Zenon, <1>1
  <2> QED
    BY Zenon, <2>1 DEF Receive
<1>3. f.batch # LegacyDir =>
        Before(last, f) \/ (last.batch = f.batch /\ last.chunk = f.chunk)
  BY Zenon DEF IInv, OrderInv
<1>4. last = [batch |-> last.batch, chunk |-> last.chunk]
  BY Zenon DEF IInv, TypeOK
<1> QED
  BY Zenon, <1>2, <1>3, <1>4 DEF Before

\* Oldest and the sorted names deliver chunks in the order PutBatch committed
\* them, across retries and restarts.
THEOREM DeliveredInOrder == Spec => InOrder
<1>1. IInv /\ [Next]_vars => [last = last' \/ Before(last, last')]_last
  <2> SUFFICES ASSUME IInv, [Next]_vars
               PROVE  last' = last \/ Before(last, last')
    BY Zenon
  <2>1. CASE \E code \in Statuses : Answered(code)
    BY Zenon, <2>1, ReceiveInOrder DEF Answered
  <2>2. CASE Unanswered
    BY Zenon, <2>2, ReceiveInOrder DEF Unanswered
  <2>3. CASE \E m \in Series : Add(m)
    BY Zenon, <2>3 DEF Add
  <2>4. CASE Flush
    BY Zenon, <2>4 DEF Flush, FlushStart, Reserve, EncodeFails, FlushPut, PutReturned
  <2>5. CASE ReplayStart \/ Undecodable \/ RemoveDelivered \/ QuarantineRejected \/ ReplayReturned
    BY Zenon, <2>5 DEF ReplayStart, Undecodable, RemoveDelivered, QuarantineRejected, ReplayReturned
  <2>6. CASE Refresh \/ RefreshReturned \/ InSpool \/ Clock
    BY Zenon, <2>6 DEF Refresh, RefreshReturned, InSpool, Clock, pipeVars
  <2>7. CASE Start \/ StartRecover \/ Shutdown \/ RunReturns \/ Exit \/ Crash
    BY Zenon, <2>7 DEF Start, StartRecover, Shutdown, RunReturns, Exit, Crash, ProcessEnds
  <2>8. CASE UNCHANGED vars
    BY Zenon, <2>8 DEF vars, pipeVars
  <2> QED
    BY Zenon, <2>1, <2>2, <2>3, <2>4, <2>5, <2>6, <2>7, <2>8 DEF Next, Replay
<1> QED
  BY <1>1, PipelineInvariant, PTL DEF Spec, InOrder

-----------------------------------------------------------------------------
(* The pipeline implements DurableDelivery.                                *)

\* What the abstract variables stand for is left alone.
AbstractStutter ==
  /\ UNCHANGED <<accepted, delivered>>
  /\ Held' \ persisted' = Held \ persisted
  /\ SeriesOf(files') = SeriesOf(files)
  /\ moved' \cup expired' = moved \cup expired

\* Such a step is a stuttering step of the abstract specification.
LEMMA StutterRefines ==
  ASSUME AbstractStutter
  PROVE  UNCHANGED Delivery!vars
BY Zenon DEF AbstractStutter, Delivery!vars

\* An initial state is an abstract initial state.
LEMMA InitRefines ==
  ASSUME Init
  PROVE  Delivery!Init
<1>1. SeriesOf(Legacy) \subseteq Series
  BY Zenon, InitInv DEF Init, IInv, TypeOK
<1> QED
  BY Zenon, <1>1 DEF Init, SpoolInit, Delivery!Init, Held

\* Adding a series accepts it.
LEMMA AddRefines ==
  ASSUME IInv, NEW m \in Series, Add(m)
  PROVE  Delivery!Accept(m)
<1>1. m \notin Held /\ m \notin persisted /\ m \notin accepted
  BY Zenon DEF Add, IInv, AcceptedAccounted
<1>2. Held' = Held \cup {m}
  BY Zenon DEF Add, Held
<1> QED
  BY Zenon, <1>1, <1>2 DEF Add, spoolVars, disk, history, Delivery!Accept

\* Snapshot, a refused encoding and Commit are invisible.
LEMMA WindowStepRefines ==
  ASSUME IInv, FlushStart \/ Reserve \/ EncodeFails \/ PutReturned
  PROVE  AbstractStutter
<1>1. UNCHANGED <<spoolVars, accepted, delivered>>
  BY Zenon DEF FlushStart, Reserve, EncodeFails, PutReturned
<1>2. Held' \ persisted = Held \ persisted
  <2>1. CASE FlushStart
    BY Zenon, <2>1 DEF FlushStart, Held, IInv, WindowInv
  <2>2. CASE Reserve
    BY Zenon, <2>2 DEF Reserve, Held, IInv, WindowInv
  <2>3. CASE EncodeFails
    BY Zenon, <2>3 DEF EncodeFails, Held
  <2>4. CASE PutReturned
    BY Zenon, <2>4 DEF PutReturned, Held, IInv, WindowInv
  <2> QED
    BY Zenon, <2>1, <2>2, <2>3, <2>4
<1> QED
  BY Zenon, <1>1, <1>2 DEF spoolVars, disk, history, AbstractStutter

\* The rename in PutBatch makes the whole window durable in one step.
LEMMA CommitRefines ==
  ASSUME IInv, PutRename, UNCHANGED pipeVars
  PROVE  Delivery!Persist(inflight)
<1>1. op = "write" /\ inflight \cap persisted = {}
  BY Zenon DEF PutRename, IInv, WindowInv
<1>2. persisted' = persisted \cup inflight
  BY Zenon, <1>1 DEF PutRename, CommitBatch, IInv, WindowInv
<1>3. Held' = Held /\ inflight \subseteq Held
  BY Zenon DEF pipeVars, Held
<1>4. UNCHANGED <<removed, moved, expired>>
  BY Zenon DEF PutRename, CommitBatch
<1>5. SeriesOf(files') = SeriesOf(files) \cup inflight
  <2>1. /\ persisted = SeriesOf(files) \cup removed \cup moved \cup expired
        /\ SeriesOf(files) \cap (removed \cup moved \cup expired) = {}
    BY Zenon DEF IInv, SpoolIInv, CommittedIntact, QueuedOnce
  <2>2. SpoolIInv'
    BY Zenon, PutRenameInv DEF IInv
  <2>3. /\ persisted' = SeriesOf(files') \cup removed' \cup moved' \cup expired'
        /\ SeriesOf(files') \cap (removed' \cup moved' \cup expired') = {}
    BY Zenon, <2>2 DEF SpoolIInv, CommittedIntact, QueuedOnce
  <2> QED
    BY Zenon, <1>1, <1>2, <1>4, <2>1, <2>3
<1> QED
  BY Zenon, <1>1, <1>2, <1>3, <1>4, <1>5 DEF pipeVars, Delivery!Persist

\* A file that leaves the queue takes just its own series along.
LEMMA TakenOut ==
  ASSUME IInv, NEW f \in files, files' = files \ {f}
  PROVE  /\ SeriesOf(files') = SeriesOf(files) \ f.data
         /\ f.data \subseteq SeriesOf(files)
         /\ f.data \subseteq Series
<1>1. \A g \in files : g = f \/ g.data \cap f.data = {}
  BY Zenon DEF IInv, SpoolIInv, QueuedOnce
<1>2. f.data \subseteq Series
  BY Zenon DEF IInv, SpoolIInv, SpoolTypeOK, FileType
<1>3. SeriesOf(files') = SeriesOf(files) \ f.data
  BY Zenon, <1>1 DEF SeriesOf
<1> QED
  BY Zenon, <1>2, <1>3 DEF SeriesOf

\* Remove acknowledges what it removes; a failing call is invisible.
LEMMA RemoveDeliveredRefines ==
  ASSUME IInv, RemoveDelivered
  PROVE  AbstractStutter \/ \E S \in SUBSET Series : Delivery!Acknowledge(S)
<1>1. PICK f \in current : Remove(f)
  BY Zenon DEF RemoveDelivered
<1>2. UNCHANGED <<accepted, delivered, series, window, inflight>> /\ f.data \subseteq delivered
  BY Zenon, <1>1 DEF RemoveDelivered, IInv, CurrentInv
<1>3. CASE CallFails
  BY Zenon, <1>2, <1>3 DEF CallFails, disk, history, AbstractStutter, Held
<1>4. CASE RemoveFile(f)
  <2>1. f \in files /\ files' = files \ {f} /\ UNCHANGED <<persisted, moved, expired>>
    BY Zenon, <1>4 DEF RemoveFile
  <2>2. Delivery!Acknowledge(f.data)
    BY Zenon, <1>2, <2>1, TakenOut DEF Delivery!Acknowledge, Held
  <2> QED
    BY Zenon, <2>1, <2>2, TakenOut
<1> QED
  BY Zenon, <1>1, <1>3, <1>4 DEF Remove

\* Quarantine of a refused payload discards it.
LEMMA QuarantineRejectedRefines ==
  ASSUME IInv, QuarantineRejected
  PROVE  AbstractStutter \/ \E S \in SUBSET Series : Delivery!Discard(S)
<1>1. PICK f \in current : Quarantine(f, status)
  BY Zenon DEF QuarantineRejected
<1>2. UNCHANGED <<accepted, delivered, series, window, inflight>>
  BY Zenon DEF QuarantineRejected
<1>3. CASE CallFails
  BY Zenon, <1>2, <1>3 DEF CallFails, disk, history, AbstractStutter, Held
<1>4. CASE QuarantineFile(f, status)
  <2>1. /\ f \in files /\ files' = files \ {f}
        /\ moved' = moved \cup f.data
        /\ UNCHANGED <<persisted, expired>>
    BY Zenon, <1>4 DEF QuarantineFile
  <2>2. Delivery!Discard(f.data)
    BY Zenon, <1>2, <2>1, TakenOut DEF Delivery!Discard, Held
  <2> QED
    BY Zenon, <2>1, <2>2, TakenOut
<1> QED
  BY Zenon, <1>1, <1>3, <1>4 DEF Quarantine

\* Inside a call, the rename persists, Maintain discards, the rest is invisible.
LEMMA InSpoolRefines ==
  ASSUME IInv, InSpool
  PROVE  \/ AbstractStutter
         \/ \E S \in SUBSET Series : Delivery!Persist(S) \/ Delivery!Discard(S)
<1>1. UNCHANGED pipeVars
  BY DEF InSpool
<1>2. CASE PutRename
  <2>1. inflight \in SUBSET Series
    BY Zenon DEF IInv, TypeOK
  <2> QED
    BY Zenon, <1>1, <1>2, <2>1, CommitRefines
<1>3. ASSUME NEW f \in files, MaintainExpire(f)
      PROVE  \E S \in SUBSET Series : Delivery!Discard(S)
  <2>1. /\ files' = files \ {f}
        /\ expired' = expired \cup f.data
        /\ UNCHANGED <<persisted, moved>>
    BY Zenon, <1>3 DEF MaintainExpire
  <2>2. Delivery!Discard(f.data)
    BY Zenon, <1>1, <2>1, TakenOut DEF pipeVars, Delivery!Discard, Held
  <2> QED
    BY Zenon, <2>1, <2>2, TakenOut
<1>4. CASE UNCHANGED <<files, persisted, moved, expired>>
  <2>1. UNCHANGED <<accepted, delivered, series, window, inflight>>
    BY ZenonT(40), <1>1 DEF pipeVars
  <2> QED
    BY Zenon, <1>4, <2>1 DEF AbstractStutter, Held
<1>5. \/ PutRename
      \/ \E f \in files : MaintainExpire(f)
      \/ UNCHANGED <<files, persisted, moved, expired>>
  BY Zenon DEF InSpool, SpoolStep, PutWrite, PutFails, PutRollback, Rmdir, MaintainExpired, MaintainTrim,
         MaintainDone, MaintainFails, disk, history
<1> QED
  BY Zenon, <1>2, <1>3, <1>4, <1>5

\* A payload the collector receives is delivered, any other is left alone.
LEMMA SendRefines ==
  ASSUME IInv, Undecodable \/ Unanswered \/ \E code \in Statuses : Answered(code)
  PROVE  AbstractStutter \/ \E S \in SUBSET Series : Delivery!Deliver(S)
<1>1. /\ pc = "send"
      /\ UNCHANGED <<disk, history, accepted, series, window, inflight>>
  BY Zenon DEF Undecodable, Unanswered, Answered, spoolVars
<1>2. CASE UNCHANGED delivered
  BY Zenon, <1>1, <1>2 DEF disk, history, AbstractStutter, Held
<1>3. CASE \A f \in current : Receive(f)
  <2>1. PICK f \in files : current = {f}
    BY ZenonT(40), <1>1 DEF IInv, CurrentInv
  <2>2. delivered' = delivered \cup f.data
    BY Zenon, <1>3, <2>1 DEF Receive
  <2>3. f.data \subseteq SeriesOf(files) /\ f.data \in SUBSET Series
    BY Zenon DEF SeriesOf, IInv, SpoolIInv, SpoolTypeOK, FileType
  <2>4. Delivery!Deliver(f.data)
    BY Zenon, <1>1, <2>2, <2>3 DEF disk, history, Delivery!Deliver, Held
  <2> QED
    BY Zenon, <2>3, <2>4
<1> QED
  BY Zenon, <1>2, <1>3 DEF Undecodable, Unanswered, Answered

\* A step that leaves the disk and the history alone leaves these four alone.
LEMMA DiskKept ==
  UNCHANGED <<disk, history>> => UNCHANGED <<files, persisted, moved, expired>>
BY Zenon DEF disk, history

\* The other steps are invisible, but for the end of the process.
LEMMA OtherStepsRefine ==
  ASSUME \/ FlushPut \/ Refresh \/ RefreshReturned \/ ReplayStart \/ ReplayReturned
         \/ Start \/ StartRecover \/ Shutdown \/ RunReturns \/ Clock
  PROVE  AbstractStutter
<1>1. UNCHANGED <<accepted, delivered, series, window, inflight>>
  <2>1. CASE FlushPut \/ Refresh \/ RefreshReturned \/ ReplayStart \/ ReplayReturned
    BY Zenon, <2>1 DEF FlushPut, Refresh, RefreshReturned, ReplayStart, ReplayReturned
  <2>2. CASE Start \/ StartRecover \/ Shutdown \/ RunReturns \/ Clock
    BY Zenon, <2>2 DEF Start, StartRecover, Shutdown, RunReturns, Clock, pipeVars
  <2> QED
    BY Zenon, <2>1, <2>2
<1>2. UNCHANGED <<files, persisted, moved, expired>>
  <2>1. CASE FlushPut
    <3>1. PICK p \in Encodings(inflight) : PutRefused(p) \/ PutStart(p)
      BY Zenon, <2>1 DEF FlushPut, PutBatch
    <3>2. CASE PutRefused(p)
      BY Zenon, <3>2, DiskKept DEF PutRefused
    <3>3. CASE PutStart(p)
      BY Zenon, <3>3 DEF PutStart, history
    <3> QED
      BY Zenon, <3>1, <3>2, <3>3
  <2>2. CASE Refresh
    BY Zenon, <2>2, DiskKept DEF Refresh, MaintainStart
  <2>3. CASE Start
    BY Zenon, <2>3, DiskKept DEF Start, Open
  <2>4. CASE StartRecover
    <3>1. \/ RecoverTmp \/ (\E b \in dirs : RecoverBatch(b)) \/ RecoverDone \/ RecoverFails
      BY Zenon, <2>4 DEF StartRecover, Recover
    <3>2. CASE RecoverTmp
      BY Zenon, <3>2 DEF RecoverTmp, history
    <3>3. CASE \E b \in dirs : RecoverBatch(b)
      BY Zenon, <3>3 DEF RecoverBatch, history
    <3>4. CASE RecoverDone
      BY Zenon, <3>4, DiskKept DEF RecoverDone
    <3>5. CASE RecoverFails
      BY Zenon, <3>5, DiskKept DEF RecoverFails
    <3> QED
      BY Zenon, <3>1, <3>2, <3>3, <3>4, <3>5
  <2>5. CASE Clock
    BY Zenon, <2>5, DiskKept DEF Clock, Tick
  <2>6. CASE RefreshReturned \/ ReplayStart \/ ReplayReturned
    BY Zenon, <2>6, DiskKept DEF RefreshReturned, ReplayStart, ReplayReturned, spoolVars
  <2>7. CASE Shutdown \/ RunReturns
    BY Zenon, <2>7, DiskKept DEF Shutdown, RunReturns, spoolVars
  <2> QED
    BY Zenon, <2>1, <2>2, <2>3, <2>4, <2>5, <2>6, <2>7
<1> QED
  BY Zenon, <1>1, <1>2 DEF AbstractStutter, Held

\* When the process ends, what was in memory only is forgotten.
LEMMA ProcessEndsRefines ==
  ASSUME Exit \/ Crash
  PROVE  Delivery!Forget
<1>1. /\ UNCHANGED <<disk, history, accepted, delivered>>
      /\ series' = {} /\ window' = {} /\ inflight' = {}
  BY Zenon DEF Exit, Crash, ProcessEnds, SpoolCrash
<1> QED
  BY Zenon, <1>1 DEF disk, history, Delivery!Forget, Held

\* The pipeline implements durable at-least-once delivery: a window becomes
\* durable in one step, the rename in PutBatch, and leaves the queue only after
\* the collector received it or for a reason the agent counts.
THEOREM ImplementsDurableDelivery == Spec => DeliverySpec
<1>1. Init => Delivery!Init
  BY Zenon, InitRefines
<1>2. IInv /\ [Next]_vars => [Delivery!Next]_(Delivery!vars)
  <2> SUFFICES ASSUME IInv, [Next]_vars
               PROVE  Delivery!Next \/ UNCHANGED Delivery!vars
    BY Zenon
  <2>1. CASE \E m \in Series : Add(m)
    BY Zenon, <2>1, AddRefines DEF Delivery!Next
  <2>2. CASE FlushStart \/ Reserve \/ EncodeFails \/ PutReturned
    BY Zenon, <2>2, WindowStepRefines, StutterRefines
  <2>3. CASE RemoveDelivered
    BY Zenon, <2>3, RemoveDeliveredRefines, StutterRefines DEF Delivery!Next
  <2>4. CASE QuarantineRejected
    BY Zenon, <2>4, QuarantineRejectedRefines, StutterRefines DEF Delivery!Next
  <2>5. CASE InSpool
    BY Zenon, <2>5, InSpoolRefines, StutterRefines DEF Delivery!Next
  <2>6. CASE Undecodable \/ Unanswered \/ \E code \in Statuses : Answered(code)
    BY Zenon, <2>6, SendRefines, StutterRefines DEF Delivery!Next
  <2>7. CASE \/ FlushPut \/ Refresh \/ RefreshReturned \/ ReplayStart \/ ReplayReturned
             \/ Start \/ StartRecover \/ Shutdown \/ RunReturns \/ Clock
    BY Zenon, <2>7, OtherStepsRefine, StutterRefines
  <2>8. CASE Exit \/ Crash
    BY ZenonT(40), <2>8, ProcessEndsRefines DEF Delivery!Next
  <2>9. CASE UNCHANGED vars
    BY Zenon, <2>9 DEF vars, spoolVars, disk, history, pipeVars, Delivery!vars, Held
  <2> QED
    BY ZenonT(40), <2>1, <2>2, <2>3, <2>4, <2>5, <2>6, <2>7, <2>8, <2>9 DEF Next, Flush, Replay
<1> QED
  BY <1>1, <1>2, PipelineInvariant, PTL DEF Spec, DeliverySpec, Delivery!Spec
=============================================================================
