---------------------------- MODULE CustomSpool ----------------------------
(***************************************************************************)
(* The custom-metric spool of dogstatsd/spool.go: a directory of committed *)
(* batches, each a directory of chunk files, plus a quarantine directory.  *)
(*                                                                         *)
(* The mutex of CustomSpool makes the operations exclusive, so one         *)
(* operation is in progress at a time (op).  An operation is still a       *)
(* sequence of file-system calls: the process can die between any two of   *)
(* them, and any of them can fail.  A payload is the set of series encoded *)
(* in it and its size is the number of series.                             *)
(***************************************************************************)
EXTENDS Naturals, Sequences, FiniteSets

CONSTANTS
  Series,               \* the aggregated series that can be spooled
  MaxBytes,             \* maxBytes: capacity of the replay queue
  MaxQuarantineBytes,   \* maxQuarantineBytes: capacity of the quarantine
  MaxAge,               \* maxAge: retention of a ready file
  Reasons,              \* the HTTP statuses a payload is quarantined for
  Legacy,               \* custom-*.ready files an older version left behind
  FaultKinds,           \* the file-system calls that may fail
  MaxBatches,           \* bound: batches ever committed
  MaxTime,              \* bound: the clock
  MaxFaults             \* bound: failing file-system calls

(***************************************************************************)
(* Batch directories are named after their creation time, so their names   *)
(* sort in the order 1, 2, ... of their creation.  A legacy file lies in   *)
(* the spool directory itself; "custom-" sorts after every "batch-".       *)
(***************************************************************************)
LegacyDir == MaxBatches + 1

FileType == [batch : 1 .. LegacyDir, chunk : Nat, data : SUBSET Series, mod : Nat]

\* The name of a quarantine entry: base name, its number and the reason, which
\* is an HTTP status or Corrupt.
Corrupt == 0

EntryType == [name : {"chunk", "custom", "batch"} \X Nat \X Nat,
              data : SUBSET Series, mod : Nat]

VARIABLES
  files,        \* the ready files
  dirs,         \* the batch directories that exist, with or without files
  tmpDirs,      \* the number of .batch-*.tmp directories
  quarantine,   \* the entries of the quarantine directory
  nextBatch,    \* the number of the next batch
  op,           \* the step the holder of the mutex is at
  payloads,     \* PutBatch: the payloads, ...
  written,      \* ... and how many of them are written and synced
  emptied,      \* the batch directory the operation is about to remove
  result,       \* the result of the last operation
  now,          \* the wall clock
  faults,       \* how many file-system calls have failed
  persisted,    \* history: series of every batch PutBatch has committed
  removed,      \* history: series of the files Remove has removed
  moved,        \* history: series of the files Quarantine has moved
  expired,      \* history: series of the files Maintain has expired
  trimmed       \* history: series of the quarantine entries Maintain removed

disk == <<files, dirs, tmpDirs, quarantine, nextBatch>>
history == <<persisted, removed, moved, expired, trimmed>>
spoolVars == <<disk, op, payloads, written, emptied, result, now, faults, history>>

Ops == {"closed", "recover", "none", "write", "rollback", "rmdir",
        "expire", "expireRmdir", "quota"}

Results == {"ok", "full", "error"}

SeriesOf(F) == UNION {f.data : f \in F}

\* The summed size of the files or entries in F.
Bytes(F) == Cardinality(UNION {{f} \X f.data : f \in F})

ASSUME SpoolAssumption ==
  /\ IsFiniteSet(Series)
  /\ MaxBytes \in Nat \ {0}
  /\ MaxQuarantineBytes \in Nat \ {0}
  /\ MaxAge \in Nat \ {0}
  /\ Reasons \subseteq Nat
  /\ MaxBatches \in Nat /\ MaxTime \in Nat /\ MaxFaults \in Nat
  /\ Legacy \subseteq FileType
  /\ IsFiniteSet(Legacy)
  /\ \A f \in Legacy : f.batch = LegacyDir
  /\ \A f, g \in Legacy : f = g \/ f.data \cap g.data = {}
  /\ Bytes(Legacy) <= MaxBytes

-----------------------------------------------------------------------------
\* The order of sort.Strings on the ready paths.
Before(f, g) ==
  \/ f.batch < g.batch
  \/ f.batch = g.batch /\ f.chunk < g.chunk

\* Mutant of IsOldest: the paths are not sorted.
IsAny(f, F) == f \in F

IsOldest(f, F) == f \in F /\ \A g \in F \ {f} : Before(f, g)

FilesOf(b, F) == {f \in F : f.batch = b}

EmptyDirs == {b \in dirs : FilesOf(b, files) = {}}

\* filesLocked refuses to list a spool with an empty committed batch.
Broken == EmptyDirs # {}

\* The summed size of the payloads p.
Required(p) == Cardinality(UNION {{i} \X p[i] : i \in DOMAIN p})

\* Mutant of Fits: the size of the new batch is not counted.
FitsIgnoringBatch(p) == Required(p) <= MaxBytes /\ Bytes(files) <= MaxBytes

Fits(p) == Required(p) <= MaxBytes /\ Bytes(files) <= MaxBytes - Required(p)

Fault(kind) ==
  /\ kind \in FaultKinds
  /\ faults < MaxFaults
  /\ faults' = faults + 1

Return(r) == op' = "none" /\ result' = r

-----------------------------------------------------------------------------
(* OpenCustomSpoolWithPolicy and recoverStartup                            *)

Open ==
  /\ op = "closed"
  /\ op' = "recover"
  /\ UNCHANGED <<disk, payloads, written, emptied, result, now, faults, history>>

RecoverTmp ==
  /\ op = "recover"
  /\ tmpDirs > 0
  /\ tmpDirs' = tmpDirs - 1
  /\ UNCHANGED <<files, dirs, quarantine, nextBatch, op, payloads, written,
                 emptied, result, now, faults, history>>

\* The directory keeps its own modification time, any time up to now.
RecoverBatch(b) ==
  /\ op = "recover"
  /\ b \in EmptyDirs
  /\ dirs' = dirs \ {b}
  /\ \E t \in 0 .. now :
       quarantine' = quarantine \cup
         {[name |-> <<"batch", b, Corrupt>>, data |-> {}, mod |-> t]}
  /\ UNCHANGED <<files, tmpDirs, nextBatch, op, payloads, written, emptied,
                 result, now, faults, history>>

\* Mutant of RecoverDone: a batch without chunks passes for valid.
RecoverDoneKeepsEmpty ==
  /\ op = "recover"
  /\ tmpDirs = 0
  /\ Return("ok")
  /\ UNCHANGED <<disk, payloads, written, emptied, now, faults, history>>

RecoverDone ==
  /\ op = "recover"
  /\ tmpDirs = 0
  /\ ~Broken
  /\ Return("ok")
  /\ UNCHANGED <<disk, payloads, written, emptied, now, faults, history>>

\* recoverStartup returns an error and the process exits.
RecoverFails ==
  /\ op = "recover"
  /\ Fault("recover")
  /\ op' = "closed"
  /\ UNCHANGED <<disk, payloads, written, emptied, result, now, history>>

Recover ==
  \/ RecoverTmp
  \/ \E b \in dirs : RecoverBatch(b)
  \/ RecoverDone
  \/ RecoverFails

-----------------------------------------------------------------------------
(* PutBatch(p): check the capacity, write every chunk into a temporary     *)
(* directory, rename the directory to its committed name.  On an error the *)
(* temporary directory is removed.                                         *)

PutRefused(p) ==
  /\ op = "none"
  /\ \/ Broken /\ Return("error") /\ UNCHANGED faults
     \/ ~Broken /\ ~Fits(p) /\ Return("full") /\ UNCHANGED faults
     \/ Fault("write") /\ Return("error")
  /\ UNCHANGED <<disk, payloads, written, emptied, now, history>>

PutStart(p) ==
  /\ op = "none"
  /\ ~Broken
  /\ Fits(p)
  /\ nextBatch <= MaxBatches
  /\ op' = "write"
  /\ payloads' = p
  /\ written' = 0
  /\ tmpDirs' = tmpDirs + 1
  /\ UNCHANGED <<files, dirs, quarantine, nextBatch, emptied, result, now,
                 faults, history>>

PutBatch(p) == PutRefused(p) \/ PutStart(p)

PutWrite ==
  /\ op = "write"
  /\ written < Len(payloads)
  /\ written' = written + 1
  /\ UNCHANGED <<disk, op, payloads, emptied, result, now, faults, history>>

\* The chunk files of the temporary directory, under their committed paths.
ChunkFiles ==
  {[batch |-> nextBatch, chunk |-> i - 1, data |-> payloads[i], mod |-> now] :
     i \in 1 .. written}

\* What PutRename does to the disk and to the history.
CommitBatch ==
  /\ files' = files \cup ChunkFiles
  /\ dirs' = dirs \cup {nextBatch}
  /\ tmpDirs' = tmpDirs - 1
  /\ nextBatch' = nextBatch + 1
  /\ persisted' = persisted \cup UNION {payloads[i] : i \in DOMAIN payloads}
  /\ Return("ok")
  /\ UNCHANGED <<quarantine, emptied, now, faults, removed, moved, expired, trimmed>>

\* Mutant of PutRename: the directory is renamed before every chunk is written.
PutRenameEarly ==
  /\ op = "write"
  /\ CommitBatch
  /\ payloads' = <<>>
  /\ written' = 0

PutRename ==
  /\ op = "write"
  /\ written = Len(payloads)
  /\ CommitBatch
  /\ payloads' = <<>>
  /\ written' = 0

\* A write, a sync or the rename fails.
PutFails ==
  /\ op = "write"
  /\ Fault("write")
  /\ op' = "rollback"
  /\ UNCHANGED <<disk, payloads, written, emptied, result, now, history>>

PutRollback ==
  /\ op = "rollback"
  /\ \/ tmpDirs' = tmpDirs - 1 /\ UNCHANGED faults
     \/ tmpDirs' = tmpDirs /\ Fault("rollback")
  /\ Return("error")
  /\ payloads' = <<>>
  /\ written' = 0
  /\ UNCHANGED <<files, dirs, quarantine, nextBatch, emptied, now, history>>

-----------------------------------------------------------------------------
(* Remove and Quarantine take one file out of the replay queue, then       *)
(* remove its batch directory if that was the last file in it.             *)

\* Mutant of AfterRemoval: an emptied batch directory is left behind.
AfterRemovalKeepsDir(f, rmdir, otherwise) == otherwise /\ UNCHANGED emptied

\* What follows the removal of f: its directory has become empty, or not.
AfterRemoval(f, rmdir, otherwise) ==
  IF f.batch \in dirs /\ FilesOf(f.batch, files \ {f}) = {}
  THEN op' = rmdir /\ emptied' = f.batch /\ UNCHANGED result
  ELSE otherwise /\ UNCHANGED emptied

RemoveFile(f) ==
  /\ op = "none"
  /\ f \in files
  /\ files' = files \ {f}
  /\ removed' = removed \cup f.data
  /\ AfterRemoval(f, "rmdir", Return("ok"))
  /\ UNCHANGED <<dirs, tmpDirs, quarantine, nextBatch, payloads, written, now,
                 faults, persisted, moved, expired, trimmed>>

\* The name the file gets in the quarantine directory.
FailedName(f, reason) ==
  <<IF f.batch = LegacyDir THEN "custom" ELSE "chunk", f.chunk, reason>>

\* os.Rename replaces an entry of the same name.
QuarantineFile(f, reason) ==
  /\ op = "none"
  /\ f \in files
  /\ files' = files \ {f}
  /\ quarantine' = {e \in quarantine : e.name # FailedName(f, reason)} \cup
       {[name |-> FailedName(f, reason), data |-> f.data, mod |-> f.mod]}
  /\ moved' = moved \cup f.data
  /\ AfterRemoval(f, "rmdir", Return("ok"))
  /\ UNCHANGED <<dirs, tmpDirs, nextBatch, payloads, written, now, faults,
                 persisted, removed, expired, trimmed>>

\* os.Remove of the file, or its rename into the quarantine, fails.
CallFails ==
  /\ op = "none"
  /\ Fault("remove")
  /\ Return("error")
  /\ UNCHANGED <<disk, payloads, written, emptied, now, history>>

Remove(f) == RemoveFile(f) \/ CallFails

Quarantine(f, reason) == QuarantineFile(f, reason) \/ CallFails

\* The error of removing the empty directory is ignored.
Rmdir ==
  /\ op \in {"rmdir", "expireRmdir"}
  /\ \/ dirs' = dirs \ {emptied} /\ UNCHANGED faults
     \/ dirs' = dirs /\ Fault("rmdir")
  /\ emptied' = 0
  /\ IF op = "rmdir" THEN Return("ok") ELSE op' = "expire" /\ UNCHANGED result
  /\ UNCHANGED <<files, tmpDirs, quarantine, nextBatch, payloads, written, now,
                 history>>

-----------------------------------------------------------------------------
(* Maintain: expire ready files by age, then trim the quarantine.          *)

IsExpired(f) == f.mod + MaxAge < now

MaintainStart ==
  /\ op = "none"
  /\ \/ Broken /\ Return("error") /\ UNCHANGED faults
     \/ ~Broken /\ op' = "expire" /\ UNCHANGED <<result, faults>>
     \/ Fault("list") /\ Return("error")
  /\ UNCHANGED <<disk, payloads, written, emptied, now, history>>

MaintainExpire(f) ==
  /\ op = "expire"
  /\ IsOldest(f, {g \in files : IsExpired(g)})
  /\ files' = files \ {f}
  /\ expired' = expired \cup f.data
  /\ AfterRemoval(f, "expireRmdir", UNCHANGED <<op, result>>)
  /\ UNCHANGED <<dirs, tmpDirs, quarantine, nextBatch, payloads, written, now,
                 faults, persisted, removed, moved, trimmed>>

MaintainExpired ==
  /\ op = "expire"
  /\ \A f \in files : ~IsExpired(f)
  /\ op' = "quota"
  /\ UNCHANGED <<disk, payloads, written, emptied, result, now, faults, history>>

\* The oldest entry goes first; entries of equal age in any order.
MaintainTrim(e) ==
  /\ op = "quota"
  /\ Bytes(quarantine) > MaxQuarantineBytes
  /\ e \in quarantine
  /\ \A g \in quarantine : e.mod <= g.mod
  /\ quarantine' = quarantine \ {e}
  /\ trimmed' = trimmed \cup e.data
  /\ UNCHANGED <<files, dirs, tmpDirs, nextBatch, op, payloads, written, emptied,
                 result, now, faults, persisted, removed, moved, expired>>

MaintainDone ==
  /\ op = "quota"
  /\ Bytes(quarantine) <= MaxQuarantineBytes
  /\ Return("ok")
  /\ UNCHANGED <<disk, payloads, written, emptied, now, faults, history>>

MaintainFails ==
  /\ op \in {"expire", "quota"}
  /\ Fault("remove")
  /\ Return("error")
  /\ UNCHANGED <<disk, payloads, written, emptied, now, history>>

-----------------------------------------------------------------------------
\* The steps an operation goes through once it has been called.
SpoolStep ==
  \/ PutWrite \/ PutRename \/ PutFails \/ PutRollback
  \/ Rmdir
  \/ \E f \in files : MaintainExpire(f)
  \/ MaintainExpired
  \/ \E e \in quarantine : MaintainTrim(e)
  \/ MaintainDone \/ MaintainFails

\* The process dies: what the operation kept in memory is gone.
SpoolCrash ==
  /\ op # "closed"
  /\ op' = "closed"
  /\ payloads' = <<>>
  /\ written' = 0
  /\ emptied' = 0
  /\ UNCHANGED <<disk, result, now, faults, history>>

\* One tick is longer than an operation: Maintain reads its cutoff, and a batch
\* gets its modification times, within one tick.
Tick ==
  /\ op \in {"closed", "none"}
  /\ now < MaxTime
  /\ now' = now + 1
  /\ UNCHANGED <<disk, op, payloads, written, emptied, result, faults, history>>

SpoolInit ==
  /\ files = Legacy
  /\ dirs = {}
  /\ tmpDirs = 0
  /\ quarantine = {}
  /\ nextBatch = 1
  /\ op = "closed"
  /\ payloads = <<>>
  /\ written = 0
  /\ emptied = 0
  /\ result = "ok"
  /\ now = 0
  /\ faults = 0
  /\ persisted = SeriesOf(Legacy)
  /\ removed = {}
  /\ moved = {}
  /\ expired = {}
  /\ trimmed = {}

\* The payload sequences a window S can be encoded into.
Encodings(S) ==
  {p \in UNION {[1 .. n -> SUBSET S \ {{}}] : n \in 1 .. Cardinality(S)} :
     /\ UNION {p[i] : i \in DOMAIN p} = S
     /\ \A i, j \in DOMAIN p : i = j \/ p[i] \cap p[j] = {}}

\* Any sequence of calls; a series is put at most once.
SpoolClient ==
  \/ Open
  \/ \E S \in SUBSET (Series \ persisted) : \E p \in Encodings(S) : PutBatch(p)
  \/ \E f \in files : Remove(f)
  \/ \E f \in files, reason \in Reasons \cup {Corrupt} : Quarantine(f, reason)
  \/ MaintainStart

SpoolNext == SpoolClient \/ Recover \/ SpoolStep \/ SpoolCrash \/ Tick

SpoolSpec == SpoolInit /\ [][SpoolNext]_spoolVars

-----------------------------------------------------------------------------
\* Every variable of the spool has its type.
SpoolTypeOK ==
  /\ files \in SUBSET FileType /\ IsFiniteSet(files)
  /\ dirs \in SUBSET (1 .. MaxBatches)
  /\ tmpDirs \in Nat
  /\ quarantine \in SUBSET EntryType /\ IsFiniteSet(quarantine)
  /\ nextBatch \in 1 .. LegacyDir
  /\ op \in Ops
  /\ payloads \in Seq(SUBSET Series)
  /\ written \in 0 .. Len(payloads)
  /\ emptied \in 0 .. MaxBatches
  /\ result \in Results
  /\ now \in Nat
  /\ faults \in Nat
  /\ persisted \in SUBSET Series
  /\ removed \in SUBSET Series
  /\ moved \in SUBSET Series
  /\ expired \in SUBSET Series
  /\ trimmed \in SUBSET Series

\* The replay queue never holds more than maxBytes, whatever was put,
\* crashed and recovered before: PutBatch checks the capacity before it
\* writes, under the lock it holds until the rename.
CapacityBound == Bytes(files) <= MaxBytes

\* A committed batch is never lost in part: each of its series is still in a
\* ready file, or its file was removed, quarantined or expired.  A crash or a
\* failing call between any two steps of PutBatch leaves all of it or nothing.
CommittedIntact ==
  persisted = SeriesOf(files) \cup removed \cup moved \cup expired

\* No series is in two ready files, and none comes back into the replay queue
\* once its file has left it.
QueuedOnce ==
  /\ \A f, g \in files : f = g \/ f.data \cap g.data = {}
  /\ SeriesOf(files) \cap (removed \cup moved \cup expired) = {}

\* An open spool is usable unless the removal of an emptied directory failed:
\* recoverStartup clears away what any crash left behind.
UsableWhenOpen ==
  /\ op \in {"none", "write", "rollback", "quota"} /\ "rmdir" \notin FaultKinds => ~Broken
  /\ op = "none" /\ "rollback" \notin FaultKinds => tmpDirs = 0
=============================================================================
