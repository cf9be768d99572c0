---------------------- MODULE CustomPipelineInvariant ----------------------
(***************************************************************************)
(* The invariants of CustomSpool and CustomPipeline, for every value of    *)
(* their constants.                                                        *)
(*                                                                         *)
(* SpoolIInv is the invariant of the spool and every step of the spool     *)
(* keeps it: CapacityBound needs to know what the batch being written adds *)
(* to the queue, QueuedOnce that its series are new, and UsableWhenOpen    *)
(* where a directory may be empty in the middle of a call.                 *)
(*                                                                         *)
(* IInv is the invariant of the pipeline.  It extends SpoolIInv with where *)
(* the goroutine can be inside a call, what it may still hold in memory,   *)
(* which file it is sending, and what the collector has received of the    *)
(* queue.  Aggregation, flush, the start of a replay and the steps that    *)
(* only move control keep it; CustomPipelineProofs has the others.         *)
(***************************************************************************)
EXTENDS CustomPipeline, FiniteSetTheorems, TLAPS

\* The batch that PutBatch is writing fits, and all of its series are new.
PutSafe ==
  /\ op \in {"write", "rollback"} => tmpDirs > 0
  /\ op = "write" =>
       /\ nextBatch <= MaxBatches
       /\ payloads # <<>>
       /\ \A i \in DOMAIN payloads : payloads[i] \cap persisted = {}
       /\ \A i, j \in DOMAIN payloads : i = j \/ payloads[i] \cap payloads[j] = {}
       /\ Bytes(files) + Required(payloads) <= MaxBytes

\* The spool is open: recoverStartup has finished.
Opened == op \notin {"closed", "recover"}

\* What an open spool may hold besides complete batches.
Tidy ==
  /\ Opened /\ "rmdir" \notin FaultKinds =>
       \A b \in EmptyDirs : op \in {"rmdir", "expireRmdir"} /\ b = emptied
  /\ Opened /\ "rollback" \notin FaultKinds =>
       tmpDirs = IF op \in {"write", "rollback"} THEN 1 ELSE 0

SpoolIInv ==
  /\ SpoolTypeOK
  /\ PutSafe
  /\ CapacityBound
  /\ CommittedIntact
  /\ QueuedOnce
  /\ Tidy

-----------------------------------------------------------------------------
(* Sequences and sizes.                                                    *)

\* A sequence is a function on the numbers up to its length.
LEMMA LenProperties ==
  ASSUME NEW S, NEW seq \in Seq(S)
  PROVE  /\ Len(seq) \in Nat
         /\ seq \in [1 .. Len(seq) -> S]
         /\ DOMAIN seq = 1 .. Len(seq)
OBVIOUS

\* The empty sequence, and the length of any other.
LEMMA EmptySeq ==
  ASSUME NEW S
  PROVE  /\ <<>> \in Seq(S)
         /\ Len(<<>>) = 0
         /\ \A seq \in Seq(S) : seq # <<>> => Len(seq) \in Nat \ {0}
OBVIOUS

\* The set whose cardinality Bytes and Required count is finite.
LEMMA PairsFinite ==
  ASSUME NEW I, IsFiniteSet(I), NEW D \in [I -> SUBSET Series]
  PROVE  IsFiniteSet(UNION {{i} \X D[i] : i \in I})
<1>1. IsFiniteSet(I \X Series)
  BY Zenon, FS_Product, SpoolAssumption DEF SpoolAssumption
<1>2. UNION {{i} \X D[i] : i \in I} \in SUBSET (I \X Series)
  OBVIOUS
<1> QED
  BY Zenon, <1>1, <1>2, FS_Subset

\* The files of a finite set have a finite number of bytes.
LEMMA BytesFinite ==
  ASSUME NEW F, IsFiniteSet(F), \A f \in F : f.data \in SUBSET Series
  PROVE  /\ IsFiniteSet(UNION {{f} \X f.data : f \in F})
         /\ Bytes(F) \in Nat
<1>1. IsFiniteSet(F \X Series)
  BY Zenon, FS_Product, SpoolAssumption DEF SpoolAssumption
<1>2. UNION {{f} \X f.data : f \in F} \in SUBSET (F \X Series)
  OBVIOUS
<1> QED
  BY Zenon, <1>1, <1>2, FS_Subset, FS_CardinalityType DEF Bytes

\* Removing files does not add bytes.
LEMMA BytesSubset ==
  ASSUME NEW F, IsFiniteSet(F), \A f \in F : f.data \in SUBSET Series,
         NEW G \in SUBSET F
  PROVE  Bytes(G) <= Bytes(F)
<1>1. UNION {{f} \X f.data : f \in G} \in SUBSET UNION {{f} \X f.data : f \in F}
  BY Zenon
<1> QED
  BY Zenon, <1>1, BytesFinite, FS_Subset DEF Bytes

\* The cardinality of a union is bounded by the sum of the cardinalities.
LEMMA UnionBound ==
  ASSUME NEW S, IsFiniteSet(S), NEW T, IsFiniteSet(T)
  PROVE  Cardinality(S \cup T) <= Cardinality(S) + Cardinality(T)
<1>1. IsFiniteSet(S \cap T)
  BY Zenon, FS_Intersection
<1>2. Cardinality(S) \in Nat /\ Cardinality(T) \in Nat /\ Cardinality(S \cap T) \in Nat
  BY Zenon, <1>1, FS_CardinalityType
<1>3. Cardinality(S \cup T) = Cardinality(S) + Cardinality(T) - Cardinality(S \cap T)
  BY Zenon, FS_Union
<1> QED
  BY <1>2, <1>3

\* Adding files adds at most their bytes.
LEMMA BytesUnion ==
  ASSUME NEW F, IsFiniteSet(F), \A f \in F : f.data \in SUBSET Series,
         NEW G, IsFiniteSet(G), \A g \in G : g.data \in SUBSET Series
  PROVE  Bytes(F \cup G) <= Bytes(F) + Bytes(G)
<1> DEFINE P(H) == UNION {{f} \X f.data : f \in H}
<1>1. P(F \cup G) = P(F) \cup P(G)
  BY Zenon
<1>2. IsFiniteSet(P(F)) /\ IsFiniteSet(P(G))
  BY Zenon, BytesFinite
<1>3. Cardinality(P(F) \cup P(G)) <= Cardinality(P(F)) + Cardinality(P(G))
  BY Zenon, <1>2, UnionBound
<1>4. Bytes(F \cup G) = Cardinality(P(F) \cup P(G))
  BY Zenon, <1>1 DEF Bytes
<1> QED
  BY Zenon, <1>3, <1>4 DEF Bytes

\* The chunk files of a batch have no more bytes than its payloads.
LEMMA ChunkFilesBytes ==
  ASSUME SpoolTypeOK, written = Len(payloads)
  PROVE  /\ IsFiniteSet(ChunkFiles)
         /\ Bytes(ChunkFiles) \in Nat
         /\ Required(payloads) \in Nat
         /\ Bytes(ChunkFiles) <= Required(payloads)
<1> DEFINE C(i) == [batch |-> nextBatch, chunk |-> i - 1, data |-> payloads[i], mod |-> now]
           I == 1 .. Len(payloads)
           P == UNION {{i} \X payloads[i] : i \in I}
           Q == UNION {{f} \X f.data : f \in ChunkFiles}
           fun == [x \in P |-> <<C(x[1]), x[2]>>]
           num == [i \in I |-> C(i)]
<1>1. /\ Len(payloads) \in Nat
      /\ payloads \in [I -> SUBSET Series]
      /\ DOMAIN payloads = I
  BY Zenon, LenProperties DEF SpoolTypeOK
<1>2. IsFiniteSet(I)
  BY <1>1, FS_Interval
<1>3. IsFiniteSet(P)
  BY Zenon, <1>1, <1>2, PairsFinite
<1>4. ChunkFiles = {C(i) : i \in I}
  BY DEF ChunkFiles
<1>5. IsFiniteSet(ChunkFiles)
  <2>1. num \in Surjection(I, ChunkFiles)
    BY Zenon, <1>4 DEF Surjection
  <2> QED
    BY <2>1, <1>2, FS_Surjection
<1>6. \A x \in P : x[1] \in I /\ x[2] \in payloads[x[1]]
  OBVIOUS
<1>7. fun \in Surjection(P, Q)
  <2>1. \A x \in P : fun[x] \in Q
    <3> TAKE x \in P
    <3>1. x[1] \in I /\ x[2] \in payloads[x[1]]
      BY Zenon, <1>6
    <3>2. C(x[1]) \in ChunkFiles /\ C(x[1]).data = payloads[x[1]]
      BY Zenon, <3>1, <1>4
    <3> QED
      BY <3>1, <3>2
  <2>2. \A y \in Q : \E x \in P : fun[x] = y
    <3> TAKE y \in Q
    <3>1. PICK f \in ChunkFiles : y \in {f} \X f.data
      OBVIOUS
    <3>2. PICK i \in I : f = C(i)
      BY <1>4
    <3>3. <<i, y[2]>> \in P
      BY <3>1, <3>2
    <3>4. fun[<<i, y[2]>>] = y
      BY <3>1, <3>2, <3>3
    <3> QED
      BY Zenon, <3>3, <3>4
  <2> QED
    BY Zenon, <2>1, <2>2 DEF Surjection
<1>8. IsFiniteSet(Q) /\ Cardinality(Q) <= Cardinality(P)
  BY Zenon, <1>3, <1>7, FS_Surjection
<1> QED
  BY Zenon, <1>1, <1>3, <1>5, <1>8, FS_CardinalityType DEF Bytes, Required

-----------------------------------------------------------------------------
(* The initial states and the steps.                                       *)

\* The invariant holds before the spool is opened for the first time.
LEMMA SpoolInitInv == SpoolInit => SpoolIInv
<1> SUFFICES ASSUME SpoolInit PROVE SpoolIInv
  BY Zenon
<1> USE DEF SpoolInit
<1>1. SpoolTypeOK
  <2>1. payloads \in Seq(SUBSET Series) /\ written \in 0 .. Len(payloads)
    BY EmptySeq
  <2>2. \A f \in Legacy : f.data \in SUBSET Series
    BY Zenon, SpoolAssumption DEF SpoolAssumption, FileType
  <2>3. SeriesOf(Legacy) \in SUBSET Series
    BY Zenon, <2>2 DEF SeriesOf
  <2>4. IsFiniteSet({})
    BY Zenon, FS_EmptySet
  <2> QED
    BY <2>1, <2>3, <2>4, SpoolAssumption
       DEF SpoolTypeOK, SpoolAssumption, Ops, Results, LegacyDir
<1>2. PutSafe /\ Tidy
  BY Zenon DEF PutSafe, Tidy, Opened
<1>3. CapacityBound /\ CommittedIntact /\ QueuedOnce
  BY Zenon, SpoolAssumption DEF SpoolAssumption, CapacityBound, CommittedIntact, QueuedOnce, SeriesOf
<1> QED
  BY Zenon, <1>1, <1>2, <1>3 DEF SpoolIInv

\* Steps that change neither the directories nor the history.
QuietStep ==
  \/ Open \/ RecoverDone \/ RecoverFails
  \/ PutWrite \/ PutFails
  \/ CallFails
  \/ MaintainStart \/ MaintainExpired \/ MaintainDone \/ MaintainFails
  \/ SpoolCrash \/ Tick

\* A quiet step preserves the invariant.
LEMMA QuietStepInv ==
  ASSUME SpoolIInv, QuietStep
  PROVE  SpoolIInv'
<1> USE DEF SpoolIInv
<1>1. disk' = disk /\ history' = history
  BY Zenon DEF QuietStep, Open, RecoverDone, RecoverFails, PutWrite, PutFails, CallFails,
         MaintainStart, MaintainExpired, MaintainDone, MaintainFails, SpoolCrash, Tick
<1>2. CapacityBound' /\ CommittedIntact' /\ QueuedOnce'
  BY Zenon, <1>1 DEF disk, history, CapacityBound, CommittedIntact, QueuedOnce
<1>3. SpoolTypeOK'
  <2>1. payloads' \in Seq(SUBSET Series) /\ written' \in 0 .. Len(payloads')
    <3>1. CASE PutWrite
      BY <3>1, LenProperties DEF PutWrite, SpoolTypeOK
    <3>2. CASE SpoolCrash
      BY <3>2, EmptySeq DEF SpoolCrash
    <3>3. CASE payloads' = payloads /\ written' = written
      BY Zenon, <3>3 DEF SpoolTypeOK
    <3> QED
      BY Zenon, <3>1, <3>2, <3>3
         DEF QuietStep, Open, RecoverDone, RecoverFails, PutFails, CallFails,
           MaintainStart, MaintainExpired, MaintainDone, MaintainFails, Tick
  <2>2. /\ op' \in Ops
        /\ result' \in Results
        /\ emptied' \in 0 .. MaxBatches
        /\ now' \in Nat
        /\ faults' \in Nat
    BY SMTT(30), SpoolAssumption
       DEF SpoolAssumption, SpoolTypeOK, QuietStep, Open, RecoverDone, RecoverFails,
         PutWrite, PutFails, CallFails, MaintainStart, MaintainExpired, MaintainDone,
         MaintainFails, SpoolCrash, Tick, Return, Fault, Ops, Results
  <2> QED
    BY Zenon, <1>1, <2>1, <2>2 DEF SpoolTypeOK, disk, history
<1>4. PutSafe'
  BY ZenonT(30), <1>1
     DEF PutSafe, disk, history, QuietStep, Open, RecoverDone, RecoverFails, PutWrite,
         PutFails, CallFails, MaintainStart, MaintainExpired, MaintainDone, MaintainFails,
         SpoolCrash, Tick, Return
<1>5. Tidy'
  <2>1. EmptyDirs' = EmptyDirs /\ tmpDirs' = tmpDirs
    BY Zenon, <1>1 DEF disk, EmptyDirs
  <2> QED
    BY Zenon, <2>1
       DEF Tidy, Opened, Broken, QuietStep, Open, RecoverDone, RecoverFails, PutWrite,
         PutFails, CallFails, MaintainStart, MaintainExpired, MaintainDone, MaintainFails,
         SpoolCrash, Tick, Return
<1> QED
  BY Zenon, <1>2, <1>3, <1>4, <1>5

\* What Encodings gives PutBatch: a sequence of pairwise disjoint payloads,
\* not empty, that hold just the series of the window.
LEMMA EncodingProperties ==
  ASSUME NEW S \in SUBSET Series, NEW p \in Encodings(S)
  PROVE  /\ p \in Seq(SUBSET Series)
         /\ p # <<>>
         /\ UNION {p[i] : i \in DOMAIN p} = S
         /\ \A i, j \in DOMAIN p : i = j \/ p[i] \cap p[j] = {}
         /\ Required(p) \in Nat
<1>1. IsFiniteSet(S) /\ Cardinality(S) \in Nat
  BY Zenon, FS_Subset, FS_CardinalityType, SpoolAssumption DEF SpoolAssumption
<1>2. PICK n \in 1 .. Cardinality(S) : p \in [1 .. n -> SUBSET S \ {{}}]
  BY Zenon DEF Encodings
<1>3. n \in Nat \ {0} /\ p \in [1 .. n -> SUBSET Series]
  BY <1>1, <1>2
<1>4. p \in Seq(SUBSET Series) /\ p # <<>>
  BY <1>3
<1>5. IsFiniteSet(1 .. n)
  BY <1>3, FS_Interval
<1>6. IsFiniteSet(UNION {{i} \X p[i] : i \in 1 .. n})
  BY Zenon, <1>3, <1>5, PairsFinite
<1>7. Required(p) \in Nat
  BY Zenon, <1>3, <1>6, FS_CardinalityType DEF Required
<1> QED
  BY Zenon, <1>4, <1>7 DEF Encodings

\* PutBatch of a window whose series are new preserves the invariant.
LEMMA PutBatchInv ==
  ASSUME SpoolIInv, NEW S \in SUBSET (Series \ persisted), NEW p \in Encodings(S), PutBatch(p)
  PROVE  SpoolIInv'
<1> USE DEF SpoolIInv
<1>1. CASE PutRefused(p)
  <2>1. disk' = disk /\ history' = history
    BY Zenon, <1>1 DEF PutRefused
  <2>2. CapacityBound' /\ CommittedIntact' /\ QueuedOnce'
    BY Zenon, <2>1 DEF disk, history, CapacityBound, CommittedIntact, QueuedOnce
  <2>3. SpoolTypeOK'
    BY <1>1, <2>1
       DEF PutRefused, disk, history, SpoolTypeOK, Return, Fault, Ops, Results
  <2>4. PutSafe'
    BY Zenon, <1>1, <2>1 DEF PutRefused, PutSafe, Return
  <2>5. EmptyDirs' = EmptyDirs /\ tmpDirs' = tmpDirs
    BY Zenon, <2>1 DEF disk, EmptyDirs
  <2>6. Tidy'
    BY Zenon, <1>1, <2>5 DEF PutRefused, Tidy, Opened, Return
  <2> QED
    BY Zenon, <2>2, <2>3, <2>4, <2>6
<1>2. CASE PutStart(p)
  <2>1. /\ files' = files
        /\ dirs' = dirs
        /\ nextBatch' = nextBatch
        /\ history' = history
        /\ payloads' = p
        /\ tmpDirs' = tmpDirs + 1
        /\ op' = "write"
        /\ op = "none"
    BY Zenon, <1>2 DEF PutStart
  <2>2. CapacityBound' /\ CommittedIntact' /\ QueuedOnce'
    BY ZenonT(30), <2>1 DEF history, CapacityBound, CommittedIntact, QueuedOnce
  <2>3. SpoolTypeOK'
    <3>1. payloads' \in Seq(SUBSET Series) /\ written' \in 0 .. Len(payloads')
      BY <1>2, EncodingProperties, LenProperties DEF PutStart
    <3> QED
      BY <1>2, <3>1 DEF PutStart, history, SpoolTypeOK, Ops
  <2>4. PutSafe'
    <3>1. /\ p # <<>>
          /\ \A i \in DOMAIN p : p[i] \cap persisted = {}
          /\ \A i, j \in DOMAIN p : i = j \/ p[i] \cap p[j] = {}
          /\ Required(p) \in Nat
      BY EncodingProperties
    <3>2. Bytes(files) \in Nat
      BY Zenon, BytesFinite DEF SpoolTypeOK, FileType
    <3>3. Bytes(files) + Required(p) <= MaxBytes
      BY <1>2, <3>1, <3>2, SpoolAssumption DEF PutStart, Fits, SpoolAssumption
    <3> QED
      BY <1>2, <2>1, <3>1, <3>3 DEF PutStart, PutSafe, SpoolTypeOK, history
  <2>5. Tidy'
    <3>1. EmptyDirs' = EmptyDirs
      BY Zenon, <2>1 DEF EmptyDirs
    <3> QED
      BY <2>1, <3>1 DEF Tidy, Opened
  <2> QED
    BY Zenon, <2>2, <2>3, <2>4, <2>5
<1> QED
  BY Zenon, <1>1, <1>2 DEF PutBatch

\* The rename that commits a batch preserves the invariant: the new files fit,
\* and none of their series was in the queue before.
LEMMA PutRenameInv ==
  ASSUME SpoolIInv, PutRename
  PROVE  SpoolIInv'
<1> USE DEF SpoolIInv
<1> DEFINE new == UNION {payloads[i] : i \in DOMAIN payloads}
<1>1. /\ op = "write"
      /\ written = Len(payloads)
      /\ files' = files \cup ChunkFiles
      /\ dirs' = dirs \cup {nextBatch}
      /\ tmpDirs' = tmpDirs - 1
      /\ nextBatch' = nextBatch + 1
      /\ persisted' = persisted \cup new
      /\ op' = "none"
      /\ result' = "ok"
      /\ payloads' = <<>>
      /\ written' = 0
      /\ UNCHANGED <<quarantine, emptied, now, faults, removed, moved, expired, trimmed>>
  BY Zenon DEF PutRename, CommitBatch, Return
<1>2. Len(payloads) \in Nat /\ DOMAIN payloads = 1 .. Len(payloads)
  BY Zenon, LenProperties DEF SpoolTypeOK
<1>3. /\ IsFiniteSet(ChunkFiles)
      /\ Bytes(ChunkFiles) \in Nat
      /\ Required(payloads) \in Nat
      /\ Bytes(ChunkFiles) <= Required(payloads)
  BY Zenon, <1>1, ChunkFilesBytes
<1>4. ChunkFiles \subseteq FileType
  <2>1. /\ nextBatch \in 1 .. LegacyDir /\ now \in Nat /\ written \in 0 .. Len(payloads)
        /\ \A i \in DOMAIN payloads : payloads[i] \in SUBSET Series
    BY DEF SpoolTypeOK
  <2>2. \A i \in 1 .. written : i \in DOMAIN payloads /\ i - 1 \in Nat
    BY <1>2, <2>1
  <2> QED
    BY <2>1, <2>2 DEF ChunkFiles, FileType
<1>5. SeriesOf(ChunkFiles) = new
  <2>1. \A i \in DOMAIN payloads : \E f \in ChunkFiles : f.data = payloads[i]
    <3> TAKE i \in DOMAIN payloads
    <3> DEFINE f == [batch |-> nextBatch, chunk |-> i - 1, data |-> payloads[i], mod |-> now]
    <3>1. f \in ChunkFiles
      BY Zenon, <1>1, <1>2 DEF ChunkFiles
    <3>2. f.data = payloads[i]
      BY Zenon
    <3> QED
      BY Zenon, <3>1, <3>2
  <2>2. \A f \in ChunkFiles : \E i \in DOMAIN payloads : f.data = payloads[i]
    BY <1>1, <1>2 DEF ChunkFiles
  <2> QED
    BY Zenon, <2>1, <2>2 DEF SeriesOf
<1>6. new \subseteq Series /\ new \cap persisted = {}
  BY <1>1, <1>2 DEF SpoolTypeOK, PutSafe
<1>7. SpoolTypeOK'
  <2>1. IsFiniteSet(files')
    BY ZenonT(40), <1>1, <1>3, FS_Union DEF SpoolTypeOK
  <2>2. dirs' \in SUBSET (1 .. MaxBatches) /\ nextBatch' \in 1 .. LegacyDir /\ tmpDirs' \in Nat
    BY <1>1, SpoolAssumption DEF SpoolTypeOK, PutSafe, LegacyDir, SpoolAssumption
  <2>3. payloads' \in Seq(SUBSET Series) /\ written' \in 0 .. Len(payloads')
    BY <1>1, EmptySeq
  <2>4. persisted' \in SUBSET Series /\ files' \in SUBSET FileType
    BY ZenonT(40), <1>1, <1>4, <1>6 DEF SpoolTypeOK
  <2> QED
    BY Zenon, <1>1, <2>1, <2>2, <2>3, <2>4 DEF SpoolTypeOK, Ops, Results
<1>8. CapacityBound'
  <2>1. \A f \in files \cup ChunkFiles : f.data \in SUBSET Series
    BY Zenon, <1>4 DEF SpoolTypeOK, FileType
  <2>2. Bytes(files \cup ChunkFiles) <= Bytes(files) + Bytes(ChunkFiles)
    BY Zenon, <1>3, <2>1, BytesUnion DEF SpoolTypeOK
  <2>3. Bytes(files) \in Nat
    BY Zenon, <2>1, BytesFinite DEF SpoolTypeOK
  <2>4. IsFiniteSet(files \cup ChunkFiles)
    BY Zenon, <1>3, FS_Union DEF SpoolTypeOK
  <2>5. Bytes(files \cup ChunkFiles) \in Nat
    BY Zenon, <2>1, <2>4, BytesFinite
  <2>6. Bytes(files) + Required(payloads) <= MaxBytes
    BY Zenon, <1>1 DEF PutSafe
  <2>7. Bytes(files \cup ChunkFiles) <= MaxBytes
    BY <1>3, <2>2, <2>3, <2>5, <2>6, SpoolAssumption DEF SpoolAssumption
  <2> QED
    BY Zenon, <1>1, <2>7 DEF CapacityBound
<1>9. SeriesOf(files') = SeriesOf(files) \cup new
  BY Zenon, <1>1, <1>5 DEF SeriesOf
<1>10. CommittedIntact'
  BY Zenon, <1>1, <1>9 DEF CommittedIntact
<1>11. QueuedOnce'
  <2>1. \A f \in files, g \in ChunkFiles : f.data \cap g.data = {}
    <3> TAKE f \in files, g \in ChunkFiles
    <3>1. f.data \subseteq persisted
      BY Zenon DEF CommittedIntact, SeriesOf
    <3>2. g.data \subseteq new
      BY Zenon, <1>5 DEF SeriesOf
    <3> QED
      BY Zenon, <3>1, <3>2, <1>6
  <2>2. \A f, g \in ChunkFiles : f = g \/ f.data \cap g.data = {}
    <3> TAKE f, g \in ChunkFiles
    <3>1. PICK i \in DOMAIN payloads : f = [batch |-> nextBatch, chunk |-> i - 1,
                                            data |-> payloads[i], mod |-> now]
      BY Zenon, <1>1, <1>2 DEF ChunkFiles
    <3>2. PICK j \in DOMAIN payloads : g = [batch |-> nextBatch, chunk |-> j - 1,
                                            data |-> payloads[j], mod |-> now]
      BY Zenon, <1>1, <1>2 DEF ChunkFiles
    <3>3. i = j \/ payloads[i] \cap payloads[j] = {}
      BY Zenon, <1>1 DEF PutSafe
    <3> QED
      BY Zenon, <3>1, <3>2, <3>3
  <2>3. (SeriesOf(files) \cup new) \cap (removed \cup moved \cup expired) = {}
    BY Zenon, <1>6 DEF QueuedOnce, CommittedIntact
  <2>4. \A f, g \in files \cup ChunkFiles : f = g \/ f.data \cap g.data = {}
    BY Zenon, <2>1, <2>2 DEF QueuedOnce
  <2> QED
    BY Zenon, <1>1, <1>9, <2>3, <2>4 DEF QueuedOnce
<1>12. PutSafe'
  BY Zenon, <1>1 DEF PutSafe
<1>13. Tidy'
  <2>1. FilesOf(nextBatch, files') # {}
    <3>1. [batch |-> nextBatch, chunk |-> 0, data |-> payloads[1], mod |-> now] \in ChunkFiles
      <4>1. 1 \in 1 .. written
        BY SMTT(30), <1>1, <1>2, EmptySeq DEF PutSafe, SpoolTypeOK
      <4> QED
        BY <4>1 DEF ChunkFiles
    <3> QED
      BY <1>1, <3>1 DEF FilesOf
  <2>2. \A b \in EmptyDirs' : b \in EmptyDirs
    BY Zenon, <1>1, <2>1 DEF EmptyDirs, FilesOf
  <2> QED
    BY <1>1, <2>2 DEF Tidy, Opened, SpoolTypeOK
<1> QED
  BY Zenon, <1>7, <1>8, <1>10, <1>11, <1>12, <1>13

\* The rollback of a failed PutBatch, and the removal of a temporary directory
\* at startup, preserve the invariant.
LEMMA TmpRemovalInv ==
  ASSUME SpoolIInv, PutRollback \/ RecoverTmp
  PROVE  SpoolIInv'
<1> USE DEF SpoolIInv
<1>1. /\ files' = files
      /\ dirs' = dirs
      /\ nextBatch' = nextBatch
      /\ history' = history
      /\ op' # "write"
      /\ tmpDirs' = tmpDirs - 1 \/ tmpDirs' = tmpDirs
      /\ tmpDirs > 0
      /\ op' # "rollback"
  BY Zenon DEF PutRollback, RecoverTmp, Return, PutSafe
<1>2. CapacityBound' /\ CommittedIntact' /\ QueuedOnce' /\ PutSafe'
  BY Zenon, <1>1 DEF history, CapacityBound, CommittedIntact, QueuedOnce, PutSafe
<1>3. SpoolTypeOK'
  <2>1. payloads' \in Seq(SUBSET Series) /\ written' \in 0 .. Len(payloads')
    <3>1. CASE PutRollback
      BY <3>1, EmptySeq DEF PutRollback
    <3>2. CASE RecoverTmp
      BY Zenon, <3>2 DEF RecoverTmp, SpoolTypeOK
    <3> QED
      BY Zenon, <3>1, <3>2
  <2>2. op' \in Ops /\ result' \in Results /\ faults' \in Nat /\ tmpDirs' \in Nat
    BY <1>1 DEF PutRollback, RecoverTmp, SpoolTypeOK, Return, Fault, Ops, Results
  <2> QED
    BY Zenon, <1>1, <2>1, <2>2 DEF PutRollback, RecoverTmp, SpoolTypeOK, history
<1>4. Tidy'
  <2>1. EmptyDirs' = EmptyDirs
    BY Zenon, <1>1 DEF EmptyDirs
  <2> QED
    BY <2>1 DEF PutRollback, RecoverTmp, Tidy, Opened, Return, Fault, SpoolTypeOK
<1> QED
  BY Zenon, <1>2, <1>3, <1>4

\* Moving an empty batch to the quarantine at startup preserves the invariant.
LEMMA RecoverBatchInv ==
  ASSUME SpoolIInv, NEW b \in dirs, RecoverBatch(b)
  PROVE  SpoolIInv'
<1> USE DEF SpoolIInv
<1>1. CapacityBound' /\ CommittedIntact' /\ QueuedOnce' /\ PutSafe' /\ Tidy'
  BY Zenon DEF RecoverBatch, history, CapacityBound, CommittedIntact, QueuedOnce, PutSafe, Tidy,
         Opened
<1>2. PICK t \in 0 .. now : quarantine' = quarantine \cup
         {[name |-> <<"batch", b, Corrupt>>, data |-> {}, mod |-> t]}
  BY Zenon DEF RecoverBatch
<1>3. quarantine' \in SUBSET EntryType
  <2>1. b \in Nat /\ Corrupt \in Nat /\ t \in Nat
    BY SMTT(30) DEF SpoolTypeOK, Corrupt
  <2>2. [name |-> <<"batch", b, Corrupt>>, data |-> {}, mod |-> t] \in EntryType
    BY Zenon, <2>1 DEF EntryType
  <2> QED
    BY Zenon, <1>2, <2>2 DEF SpoolTypeOK
<1>4. IsFiniteSet(quarantine')
  BY ZenonT(40), <1>2, FS_AddElement DEF SpoolTypeOK
<1>5. SpoolTypeOK'
  BY Zenon, <1>3, <1>4 DEF RecoverBatch, SpoolTypeOK, history
<1> QED
  BY Zenon, <1>1, <1>5

\* Taking a file out of the queue keeps what the queue promises, when its
\* series are recorded as removed, moved or expired.
LEMMA TakeOutInv ==
  ASSUME SpoolIInv, NEW f \in files,
         files' = files \ {f},
         persisted' = persisted,
         (removed \cup moved \cup expired)' = removed \cup moved \cup expired \cup f.data
  PROVE  CapacityBound' /\ CommittedIntact' /\ QueuedOnce'
<1> USE DEF SpoolIInv
<1>1. \A g \in files : g.data \in SUBSET Series
  BY Zenon DEF SpoolTypeOK, FileType
<1>2. CapacityBound'
  <2>1. Bytes(files \ {f}) <= Bytes(files)
    BY Zenon, <1>1, BytesSubset DEF SpoolTypeOK
  <2>2. IsFiniteSet(files \ {f})
    BY Zenon, FS_RemoveElement DEF SpoolTypeOK
  <2>3. Bytes(files) \in Nat /\ Bytes(files \ {f}) \in Nat
    BY ZenonT(40), <1>1, <2>2, BytesFinite DEF SpoolTypeOK
  <2>4. Bytes(files \ {f}) <= MaxBytes
    BY <2>1, <2>3, SpoolAssumption DEF CapacityBound, SpoolAssumption
  <2> QED
    BY Zenon, <2>4 DEF CapacityBound
<1>3. SeriesOf(files) = SeriesOf(files') \cup f.data
  BY Zenon DEF SeriesOf
<1>4. SeriesOf(files') \cap f.data = {}
  BY DEF SeriesOf, QueuedOnce
<1>5. CommittedIntact'
  BY Zenon, <1>3 DEF CommittedIntact
<1>6. QueuedOnce'
  BY Zenon, <1>3, <1>4 DEF QueuedOnce
<1> QED
  BY Zenon, <1>2, <1>5, <1>6

\* The directory of a file that was taken out may now be empty; it is the one
\* the next step removes.
LEMMA AfterRemovalTidy ==
  ASSUME SpoolIInv, NEW f \in files,
         files' = files \ {f}, dirs' = dirs, tmpDirs' = tmpDirs,
         op \in {"none", "expire"},
         \/ op' \in {"rmdir", "expireRmdir"} /\ emptied' = f.batch
         \/ op' \in {"none", "expire"} /\ ~(f.batch \in dirs /\ FilesOf(f.batch, files \ {f}) = {})
  PROVE  Tidy'
<1>1. \A b \in EmptyDirs' : b \in EmptyDirs \/ b = f.batch
  BY Zenon DEF EmptyDirs, FilesOf
<1>2. f.batch \in EmptyDirs' => f.batch \in dirs /\ FilesOf(f.batch, files \ {f}) = {}
  BY Zenon DEF EmptyDirs
<1> QED
  BY Zenon, <1>1, <1>2 DEF SpoolIInv, Tidy, Opened

\* What emptied may be set to has its type.
LEMMA EmptiedType ==
  ASSUME SpoolTypeOK, NEW b \in dirs \cup {0, emptied}
  PROVE  b \in 0 .. MaxBatches
<1>1. MaxBatches \in Nat
  BY Zenon, SpoolAssumption DEF SpoolAssumption
<1>2. dirs \in SUBSET (1 .. MaxBatches) /\ emptied \in 0 .. MaxBatches
  BY Zenon DEF SpoolTypeOK
<1> QED
  BY <1>1, <1>2

\* Remove preserves the invariant.
LEMMA RemoveFileInv ==
  ASSUME SpoolIInv, NEW f \in files, RemoveFile(f)
  PROVE  SpoolIInv'
<1> USE DEF SpoolIInv
<1>1. CapacityBound' /\ CommittedIntact' /\ QueuedOnce'
  BY Zenon, TakeOutInv DEF RemoveFile
<1>2. IsFiniteSet(files')
  BY Zenon, FS_RemoveElement DEF RemoveFile, SpoolTypeOK
<1>3. f.data \in SUBSET Series
  BY Zenon DEF SpoolTypeOK, FileType
<1>4. SpoolTypeOK'
  <2>1. op' \in Ops /\ result' \in Results
    BY Zenon DEF RemoveFile, AfterRemoval, Return, SpoolTypeOK, Ops, Results
  <2>2. emptied' \in 0 .. MaxBatches
    <3>1. emptied' = emptied \/ emptied' \in dirs
      BY ZenonT(40) DEF RemoveFile, AfterRemoval, Return
    <3> QED
      BY Zenon, <3>1, EmptiedType
  <2> QED
    BY ZenonT(40), <1>2, <1>3, <2>1, <2>2 DEF RemoveFile, SpoolTypeOK
<1>5. PutSafe'
  BY Zenon DEF RemoveFile, AfterRemoval, Return, PutSafe
<1>6. Tidy'
  BY Zenon, AfterRemovalTidy DEF RemoveFile, AfterRemoval, Return
<1> QED
  BY Zenon, <1>1, <1>4, <1>5, <1>6

\* Quarantine preserves the invariant.
LEMMA QuarantineFileInv ==
  ASSUME SpoolIInv, NEW f \in files, NEW reason \in Nat, QuarantineFile(f, reason)
  PROVE  SpoolIInv'
<1> USE DEF SpoolIInv
<1>1. CapacityBound' /\ CommittedIntact' /\ QueuedOnce'
  BY Zenon, TakeOutInv DEF QuarantineFile
<1>2. IsFiniteSet(files')
  BY Zenon, FS_RemoveElement DEF QuarantineFile, SpoolTypeOK
<1>3. f.data \in SUBSET Series /\ f.chunk \in Nat /\ f.mod \in Nat
  BY Zenon DEF SpoolTypeOK, FileType
<1> DEFINE kept == {e \in quarantine : e.name # FailedName(f, reason)}
           entry == [name |-> FailedName(f, reason), data |-> f.data, mod |-> f.mod]
<1>4. quarantine' = kept \cup {entry}
  BY Zenon DEF QuarantineFile
<1>5. entry \in EntryType
  BY Zenon, <1>3 DEF EntryType, FailedName
<1>6. IsFiniteSet(kept)
  BY Zenon, FS_Subset DEF SpoolTypeOK
<1>7. IsFiniteSet(quarantine') /\ quarantine' \in SUBSET EntryType
  <2>1. IsFiniteSet(kept \cup {entry})
    BY ZenonT(40), <1>6, FS_AddElement
  <2> QED
    BY Zenon, <1>4, <1>5, <2>1 DEF SpoolTypeOK
<1>8. SpoolTypeOK'
  <2>1. op' \in Ops /\ result' \in Results
    BY Zenon DEF QuarantineFile, AfterRemoval, Return, SpoolTypeOK, Ops, Results
  <2>2. emptied' \in 0 .. MaxBatches
    <3>1. emptied' = emptied \/ emptied' \in dirs
      BY Zenon DEF QuarantineFile, AfterRemoval, Return
    <3> QED
      BY Zenon, <3>1, EmptiedType
  <2> QED
    BY Zenon, <1>2, <1>3, <1>7, <2>1, <2>2 DEF QuarantineFile, SpoolTypeOK
<1>9. PutSafe'
  BY Zenon DEF QuarantineFile, AfterRemoval, Return, PutSafe
<1>10. Tidy'
  BY ZenonT(40), AfterRemovalTidy DEF QuarantineFile, AfterRemoval, Return
<1> QED
  BY Zenon, <1>1, <1>8, <1>9, <1>10

\* Expiring a file preserves the invariant.
LEMMA MaintainExpireInv ==
  ASSUME SpoolIInv, NEW f \in files, MaintainExpire(f)
  PROVE  SpoolIInv'
<1> USE DEF SpoolIInv
<1>1. CapacityBound' /\ CommittedIntact' /\ QueuedOnce'
  BY Zenon, TakeOutInv DEF MaintainExpire
<1>2. IsFiniteSet(files')
  BY ZenonT(40), FS_RemoveElement DEF MaintainExpire, SpoolTypeOK
<1>3. f.data \in SUBSET Series
  BY DEF SpoolTypeOK, FileType
<1>4. SpoolTypeOK'
  <2>1. op' \in Ops /\ result' \in Results
    <3>1. op \in Ops /\ result \in Results
      BY Zenon DEF SpoolTypeOK
    <3> QED
      BY Zenon, <3>1 DEF MaintainExpire, AfterRemoval, Ops, Results
  <2>2. emptied' \in 0 .. MaxBatches
    <3>1. emptied' = emptied \/ emptied' \in dirs
      BY Zenon DEF MaintainExpire, AfterRemoval
    <3> QED
      BY Zenon, <3>1, EmptiedType
  <2> QED
    BY Zenon, <1>2, <1>3, <2>1, <2>2 DEF MaintainExpire, SpoolTypeOK
<1>5. PutSafe'
  BY Zenon DEF MaintainExpire, AfterRemoval, PutSafe
<1>6. Tidy'
  BY Zenon, AfterRemovalTidy DEF MaintainExpire, AfterRemoval
<1> QED
  BY Zenon, <1>1, <1>4, <1>5, <1>6

\* Removing an emptied directory, or failing to, preserves the invariant.
LEMMA RmdirInv ==
  ASSUME SpoolIInv, Rmdir
  PROVE  SpoolIInv'
<1> USE DEF SpoolIInv
<1>1. CapacityBound' /\ CommittedIntact' /\ QueuedOnce' /\ PutSafe'
  BY Zenon DEF Rmdir, Return, history, CapacityBound, CommittedIntact, QueuedOnce, PutSafe
<1>2. SpoolTypeOK'
  <2>1. op' \in Ops /\ result' \in Results
    BY Zenon DEF Rmdir, Return, SpoolTypeOK, Ops, Results
  <2>3. faults' \in Nat /\ dirs' \in SUBSET (1 .. MaxBatches)
    <3>1. dirs' \subseteq dirs /\ (faults' = faults \/ faults' = faults + 1)
      BY Zenon DEF Rmdir, Fault
    <3>2. dirs \in SUBSET (1 .. MaxBatches) /\ faults \in Nat
      BY Zenon DEF SpoolTypeOK
    <3> QED
      BY <3>1, <3>2
  <2>2. emptied' \in 0 .. MaxBatches
    <3>1. 0 \in 0 .. MaxBatches
      BY Zenon, EmptiedType
    <3> QED
      BY Zenon, <3>1 DEF Rmdir
  <2> QED
    BY Zenon, <2>1, <2>2, <2>3 DEF Rmdir, SpoolTypeOK, history
<1>3. Tidy'
  <2>1. "rmdir" \notin FaultKinds => dirs' = dirs \ {emptied}
    BY Zenon DEF Rmdir, Fault
  <2>2. \A b \in EmptyDirs' : b \in EmptyDirs /\ b \in dirs'
    BY Zenon DEF Rmdir, EmptyDirs
  <2> QED
    BY Zenon, <2>1, <2>2 DEF Rmdir, Return, Tidy, Opened
<1> QED
  BY Zenon, <1>1, <1>2, <1>3

\* Trimming the quarantine preserves the invariant.
LEMMA MaintainTrimInv ==
  ASSUME SpoolIInv, NEW e \in quarantine, MaintainTrim(e)
  PROVE  SpoolIInv'
<1> USE DEF SpoolIInv
<1>1. CapacityBound' /\ CommittedIntact' /\ QueuedOnce' /\ PutSafe' /\ Tidy'
  BY Zenon DEF MaintainTrim, CapacityBound, CommittedIntact, QueuedOnce, PutSafe, Tidy, Opened,
         EmptyDirs
<1>2. IsFiniteSet(quarantine') /\ e.data \in SUBSET Series
  BY Zenon, FS_RemoveElement DEF MaintainTrim, SpoolTypeOK, EntryType
<1>3. SpoolTypeOK'
  BY Zenon, <1>2 DEF MaintainTrim, SpoolTypeOK
<1> QED
  BY ZenonT(40), <1>1, <1>3

-----------------------------------------------------------------------------
(* The steps a client does not choose, then the theorems.                  *)

\* Recovery at startup preserves the invariant.
LEMMA RecoverInv ==
  ASSUME SpoolIInv, Recover
  PROVE  SpoolIInv'
BY Zenon, TmpRemovalInv, RecoverBatchInv, QuietStepInv DEF Recover, QuietStep

\* The steps inside a call preserve the invariant.
LEMMA SpoolStepInv ==
  ASSUME SpoolIInv, SpoolStep
  PROVE  SpoolIInv'
BY Zenon, PutRenameInv, TmpRemovalInv, RmdirInv, MaintainExpireInv, MaintainTrimInv, QuietStepInv
   DEF SpoolStep, QuietStep

\* The calls of any client preserve the invariant.
LEMMA SpoolClientInv ==
  ASSUME SpoolIInv, SpoolClient
  PROVE  SpoolIInv'
<1>1. CASE Open \/ MaintainStart \/ CallFails
  BY Zenon, <1>1, QuietStepInv DEF QuietStep
<1>2. CASE \E S \in SUBSET (Series \ persisted) : \E p \in Encodings(S) : PutBatch(p)
  BY Zenon, <1>2, PutBatchInv
<1>3. CASE \E f \in files : RemoveFile(f)
  BY Zenon, <1>3, RemoveFileInv
<1>4. CASE \E f \in files, reason \in Reasons \cup {Corrupt} : QuarantineFile(f, reason)
  <2>1. PICK f \in files, reason \in Reasons \cup {Corrupt} : QuarantineFile(f, reason)
    BY Zenon, <1>4
  <2>2. Reasons \subseteq Nat
    BY Zenon, SpoolAssumption DEF SpoolAssumption
  <2>3. reason \in Nat
    BY <2>2 DEF Corrupt
  <2> QED
    BY Zenon, <2>1, <2>3, QuarantineFileInv
<1> QED
  BY Zenon, <1>1, <1>2, <1>3, <1>4 DEF SpoolClient, Remove, Quarantine

\* SpoolIInv is an invariant: whatever the calls, failures, crashes and
\* restarts, the spool stays in a state it can go on from.
THEOREM SpoolInvariant == SpoolSpec => []SpoolIInv
<1>1. SpoolInit => SpoolIInv
  BY Zenon, SpoolInitInv
<1>2. SpoolIInv /\ [SpoolNext]_spoolVars => SpoolIInv'
  <2> SUFFICES ASSUME SpoolIInv, [SpoolNext]_spoolVars
               PROVE  SpoolIInv'
    BY Zenon
  <2>1. CASE SpoolNext
    BY Zenon, <2>1, SpoolClientInv, RecoverInv, SpoolStepInv, QuietStepInv DEF SpoolNext, QuietStep
  <2>2. CASE UNCHANGED spoolVars
    BY Zenon, <2>2
       DEF spoolVars, disk, history, SpoolIInv, SpoolTypeOK, PutSafe, CapacityBound,
         CommittedIntact, QueuedOnce, Tidy, Opened, EmptyDirs
  <2> QED
    BY Zenon, <2>1, <2>2
<1> QED
  BY <1>1, <1>2, PTL DEF SpoolSpec

\* Every variable of the spool keeps its type.
THEOREM SpoolTypeCorrect == SpoolSpec => []SpoolTypeOK
<1>1. SpoolIInv => SpoolTypeOK
  BY Zenon DEF SpoolIInv
<1> QED
  BY <1>1, SpoolInvariant, PTL

\* The replay queue of CustomSpool never exceeds maxBytes.
THEOREM SpoolCapacity == SpoolSpec => []CapacityBound
<1>1. SpoolIInv => CapacityBound
  BY Zenon DEF SpoolIInv
<1> QED
  BY <1>1, SpoolInvariant, PTL

\* PutBatch commits all of a batch or nothing, and a committed series leaves
\* the queue only through Remove, Quarantine or Maintain.
THEOREM SpoolCommittedIntact == SpoolSpec => []CommittedIntact
<1>1. SpoolIInv => CommittedIntact
  BY Zenon DEF SpoolIInv
<1> QED
  BY <1>1, SpoolInvariant, PTL

\* No series is twice in the queue, and none comes back to it.
THEOREM SpoolQueuedOnce == SpoolSpec => []QueuedOnce
<1>1. SpoolIInv => QueuedOnce
  BY Zenon DEF SpoolIInv
<1> QED
  BY <1>1, SpoolInvariant, PTL

\* After recoverStartup the spool can be listed and holds no temporary
\* directory, as long as the removals that the code does not check succeed.
THEOREM SpoolUsableWhenOpen == SpoolSpec => []UsableWhenOpen
<1>1. SpoolIInv => UsableWhenOpen
  BY Zenon DEF SpoolIInv, Tidy, Opened, UsableWhenOpen, Broken
<1> QED
  BY <1>1, SpoolInvariant, PTL
-----------------------------------------------------------------------------

\* Where the pipeline goroutine is in a call of the spool.
ControlInv ==
  /\ phase = "down" <=> op = "closed"
  /\ phase = "starting" <=> op = "recover"
  /\ phase \in {"down", "starting", "exited"} => pc = "idle"
  /\ op \in {"write", "rollback"} => pc = "putting"
  /\ op = "rmdir" => pc \in {"removing", "quarantining"}
  /\ op \in {"expire", "expireRmdir", "quota"} => pc = "refreshing"

\* The reserved window is in the spool just when PutBatch has returned nil and
\* Commit has not been called.
WindowInv ==
  /\ series \cap (window \cup inflight \cup persisted) = {}
  /\ window \cap persisted = {}
  /\ window # {} => pc = "rotated"
  /\ pc = "rotated" => inflight = {}
  /\ IF pc = "putting" /\ op = "none" /\ result = "ok"
     THEN inflight \subseteq persisted
     ELSE inflight \cap persisted = {}
  /\ op = "write" => UNION {payloads[i] : i \in DOMAIN payloads} = inflight

\* ReplayOnce works on one file, the oldest, until it has left the queue.
CurrentInv ==
  /\ pc \in {"send", "remove", "reject"} => \E f \in files : current = {f} /\ IsOldest(f, files)
  /\ pc = "remove" => \A f \in current : f.data \subseteq delivered
  /\ pc = "reject" => status \notin RetryStatuses

\* What Remove has removed, the collector has received.
ReceivedInv ==
  /\ removed \subseteq delivered
  /\ delivered \subseteq persisted

\* Without a failure, the collector has received nothing of what is queued,
\* but for the file that is about to be removed.
DuplicateInv ==
  faults + crashes = 0 =>
    /\ redelivered = {}
    /\ \A f \in files : f.data \cap delivered = {} \/ (pc = "remove" /\ f \in current)

\* Nothing queued sorts before what the collector received last.
OrderInv ==
  /\ last.batch < nextBatch
  /\ \A f \in files : f.batch # LegacyDir =>
       /\ f.batch < nextBatch
       /\ Before(last, f) \/ (last.batch = f.batch /\ last.chunk = f.chunk)

IInv ==
  /\ TypeOK
  /\ SpoolIInv
  /\ ControlInv
  /\ WindowInv
  /\ CurrentInv
  /\ ReceivedInv
  /\ DuplicateInv
  /\ OrderInv
  /\ AcceptedAccounted
  /\ QuarantineIsPermanent

-----------------------------------------------------------------------------
(* Facts used in several steps.                                            *)

\* The spool's invariant speaks of the spool's variables only.
LEMMA SpoolStutter ==
  ASSUME SpoolIInv, UNCHANGED spoolVars
  PROVE  SpoolIInv'
BY ZenonT(40) DEF spoolVars, disk, history, SpoolIInv, SpoolTypeOK, PutSafe, CapacityBound,
       CommittedIntact, QueuedOnce, Tidy, Opened, EmptyDirs

\* A read or a response that fails changes no more than the number of failures.
LEMMA SpoolFault ==
  ASSUME SpoolIInv, faults' \in Nat,
         UNCHANGED <<disk, op, payloads, written, emptied, result, now, history>>
  PROVE  SpoolIInv'
BY Zenon DEF disk, history, SpoolIInv, SpoolTypeOK, PutSafe, CapacityBound, CommittedIntact,
       QueuedOnce, Tidy, Opened, EmptyDirs

\* The mutex is free wherever the goroutine is outside a call.
LEMMA MutexFree ==
  ASSUME IInv, Up,
         pc \in {"idle", "rotated", "encode", "refresh", "send", "remove", "reject"}
  PROVE  op = "none"
BY Zenon DEF IInv, ControlInv, Up, SpoolIInv, SpoolTypeOK, Ops

\* The goroutine works only while the process is up.
LEMMA WorkingIsUp ==
  ASSUME IInv, pc # "idle"
  PROVE  Up
BY Zenon DEF IInv, TypeOK, ControlInv, Up, Phases

\* The status of an unreadable payload is none that is worth a retry.
LEMMA NoneRetryable == 0 \notin RetryStatuses
BY DEF RetryStatuses

\* What the collector has received, in which order, and what is quarantined
\* depends on the queue and on the history only.
LEMMA ReceivedFrame ==
  ASSUME IInv,
         UNCHANGED <<files, quarantine, nextBatch, persisted, removed, moved, expired>>,
         UNCHANGED <<delivered, redelivered, last>>
  PROVE  ReceivedInv' /\ OrderInv' /\ QuarantineIsPermanent'
<1>1. ReceivedInv'
  BY ZenonT(30) DEF IInv, ReceivedInv
<1>2. OrderInv'
  BY ZenonT(30) DEF IInv, OrderInv, Before
<1>3. QuarantineIsPermanent'
  BY Zenon DEF IInv, QuarantineIsPermanent
<1> QED
  BY Zenon, <1>1, <1>2, <1>3

\* The counters of failures and crashes are numbers.
LEMMA CountersAreNat ==
  ASSUME IInv
  PROVE  faults \in Nat /\ crashes \in Nat
BY Zenon DEF IInv, TypeOK, SpoolIInv, SpoolTypeOK

\* The types of what the steps of the goroutine leave alone.
LEMMA TypeFrame ==
  ASSUME IInv, SpoolIInv', phase' \in Phases, intake' \in BOOLEAN, pc' \in Pcs,
         current' \in SUBSET FileType, status' \in Nat,
         UNCHANGED <<series, window, inflight, accepted, lost, delivered, redelivered, last, crashes>>
  PROVE  TypeOK'
BY Zenon DEF IInv, TypeOK, SpoolIInv

\* The windows keep their invariant outside a flush.
LEMMA WindowFrame ==
  ASSUME IInv,
         UNCHANGED <<series, window, inflight, accepted, lost, persisted, op, payloads, result>>,
         \/ pc' = pc
         \/ pc \notin {"rotated", "putting"} /\ pc' \notin {"rotated", "putting"}
  PROVE  WindowInv' /\ AcceptedAccounted'
<1>1. WindowInv'
  BY ZenonT(30) DEF IInv, WindowInv
<1>2. AcceptedAccounted'
  BY ZenonT(30) DEF IInv, AcceptedAccounted, Held
<1> QED
  BY Zenon, <1>1, <1>2

\* The initial states satisfy the invariant.
LEMMA InitInv == Init => IInv
<1> SUFFICES ASSUME Init PROVE IInv
  OBVIOUS
<1> USE DEF Init
<1>1. SpoolIInv
  BY Zenon, SpoolInitInv
<1>2. TypeOK
  <2>1. SeriesOf(Legacy) \in SUBSET Series
    BY Zenon, <1>1 DEF SpoolIInv, SpoolTypeOK, SpoolInit
  <2>2. last \in [batch : 0 .. MaxBatches, chunk : Nat]
    BY Zenon, <1>1, EmptiedType DEF SpoolIInv
  <2> QED
    BY ZenonT(40), <1>1, <2>1, <2>2 DEF TypeOK, SpoolIInv, Phases, Pcs, NoResponse
<1>3. ControlInv /\ WindowInv /\ CurrentInv /\ ReceivedInv /\ DuplicateInv
  BY Zenon DEF SpoolInit, ControlInv, WindowInv, CurrentInv, ReceivedInv, DuplicateInv
<1>4. OrderInv
  BY SpoolAssumption DEF SpoolInit, OrderInv, SpoolAssumption
<1>5. AcceptedAccounted /\ QuarantineIsPermanent
  BY Zenon DEF SpoolInit, AcceptedAccounted, Held, QuarantineIsPermanent
<1> QED
  BY Zenon, <1>1, <1>2, <1>3, <1>4, <1>5 DEF IInv

-----------------------------------------------------------------------------
(* Aggregation and flush.                                                  *)

\* Adding a series preserves the invariant.
LEMMA AddInv ==
  ASSUME IInv, NEW m \in Series, Add(m)
  PROVE  IInv'
<1>1. SpoolIInv' /\ spoolVars' = spoolVars
  BY Zenon, SpoolStutter DEF IInv, Add
<1> USE <1>1 DEF IInv, Add
<1>2. TypeOK'
  BY Zenon DEF TypeOK, SpoolIInv
<1>3. ControlInv' /\ CurrentInv' /\ ReceivedInv' /\ DuplicateInv' /\ OrderInv' /\ QuarantineIsPermanent'
  <2>1. ControlInv'
    BY ZenonT(40) DEF spoolVars, ControlInv
  <2>2. CurrentInv'
    BY Zenon DEF spoolVars, disk, CurrentInv
  <2>3. DuplicateInv'
    BY ZenonT(40) DEF spoolVars, disk, DuplicateInv
  <2> QED
    BY Zenon, <2>1, <2>2, <2>3, ReceivedFrame DEF spoolVars, disk, history
<1>4. WindowInv' /\ AcceptedAccounted'
  BY DEF spoolVars, disk, history, WindowInv, AcceptedAccounted, Held
<1> QED
  BY Zenon, <1>2, <1>3, <1>4

\* Both critical sections of Snapshot, Commit, and a refused encoding preserve
\* the invariant.
LEMMA WindowStepInv ==
  ASSUME IInv, FlushStart \/ Reserve \/ EncodeFails \/ PutReturned
  PROVE  IInv'
<1> USE DEF IInv
<1>1. /\ spoolVars' = spoolVars
      /\ UNCHANGED <<intake, accepted, lost, delivered, redelivered, last, crashes>>
  BY Zenon DEF FlushStart, Reserve, EncodeFails, PutReturned
<1>2. SpoolIInv'
  BY ZenonT(40), <1>1, SpoolStutter
<1>3. TypeOK'
  BY SMTT(30), <1>1, <1>2
     DEF FlushStart, Reserve, EncodeFails, PutReturned, Finish, TypeOK, SpoolIInv, Phases, Pcs,
       NoResponse
<1>4. op = "none" /\ ControlInv'
  <2>1. op = "none" /\ Up
    BY Zenon, MutexFree, WorkingIsUp DEF FlushStart, Reserve, EncodeFails, PutReturned
  <2> QED
    BY Zenon, <1>1, <2>1
       DEF spoolVars, FlushStart, Reserve, EncodeFails, PutReturned, Finish, ControlInv, Up
<1>5. WindowInv' /\ AcceptedAccounted'
  <2>1. op = "none"
    BY Zenon, <1>4
  <2>2. CASE FlushStart
    BY ZenonT(30), <1>1, <2>1, <2>2
       DEF spoolVars, disk, history, FlushStart, WindowInv, AcceptedAccounted, Held
  <2>3. CASE Reserve
    BY ZenonT(30), <1>1, <2>1, <2>3
       DEF spoolVars, disk, history, Reserve, WindowInv, AcceptedAccounted, Held
  <2>4. CASE EncodeFails
    BY ZenonT(30), <1>1, <2>1, <2>4
       DEF spoolVars, disk, history, EncodeFails, Finish, WindowInv, AcceptedAccounted, Held
  <2>5. CASE PutReturned
    BY ZenonT(40), <1>1, <2>1, <2>5
       DEF spoolVars, disk, history, PutReturned, WindowInv, AcceptedAccounted, Held
  <2> QED
    BY Zenon, <2>2, <2>3, <2>4, <2>5
<1>6. CurrentInv' /\ DuplicateInv'
  <2>1. pc # "remove" /\ pc' \notin {"send", "remove", "reject"}
    BY Zenon DEF FlushStart, Reserve, EncodeFails, PutReturned, Finish
  <2> QED
    BY Zenon, <1>1, <2>1 DEF spoolVars, disk, CurrentInv, DuplicateInv
<1>7. ReceivedInv' /\ OrderInv' /\ QuarantineIsPermanent'
  BY Zenon, <1>1, ReceivedFrame DEF spoolVars, disk, history
<1> QED
  BY Zenon, <1>2, <1>3, <1>4, <1>5, <1>6, <1>7

\* Calling PutBatch on the reserved window preserves the invariant.
LEMMA FlushPutInv ==
  ASSUME IInv, FlushPut
  PROVE  IInv'
<1> USE DEF IInv
<1>1. PICK p \in Encodings(inflight) : PutBatch(p)
  BY Zenon DEF FlushPut
<1>2. /\ pc = "encode" /\ pc' = "putting" /\ op = "none" /\ Up
      /\ UNCHANGED <<phase, intake, series, window, inflight, current, status,
                     accepted, lost, delivered, redelivered, last, crashes>>
  BY ZenonT(40), MutexFree, WorkingIsUp DEF FlushPut
<1>3. inflight \in SUBSET (Series \ persisted)
  BY Zenon, <1>2 DEF TypeOK, WindowInv
<1>4. SpoolIInv'
  BY Zenon, <1>1, <1>3, PutBatchInv
<1>5. /\ UNCHANGED <<files, dirs, quarantine, nextBatch, history>>
      /\ faults' = faults \/ faults' = faults + 1
      /\ \/ op' = "none" /\ result' # "ok" 
         \/ op' = "write" /\ payloads' = p
  BY Zenon, <1>1 DEF PutBatch, PutRefused, PutStart, Return, Fault, disk
<1>6. UNION {p[i] : i \in DOMAIN p} = inflight
  BY Zenon, <1>3, EncodingProperties
<1>7. TypeOK'
  BY Zenon, <1>2, <1>4 DEF TypeOK, SpoolIInv, Pcs
<1>8. ControlInv'
  BY Zenon, <1>2, <1>5 DEF ControlInv, Up
<1>9. WindowInv' /\ AcceptedAccounted'
  <2>1. AcceptedAccounted'
    BY Zenon, <1>2, <1>5 DEF history, AcceptedAccounted, Held
  <2>2. /\ series' = series /\ window' = window /\ inflight' = inflight
        /\ persisted' = persisted /\ pc = "encode" /\ pc' = "putting"
    BY Zenon, <1>2, <1>5 DEF history
  <2>3. WindowInv /\ inflight \cap persisted = {} /\ window = {}
    BY Zenon, <2>2 DEF WindowInv
  <2>4. /\ op' = "none" => result' # "ok"
        /\ op' = "write" => UNION {payloads'[i] : i \in DOMAIN payloads'} = inflight
    BY Zenon, <1>5, <1>6
  <2>5. WindowInv'
    BY Zenon, <2>2, <2>3, <2>4 DEF WindowInv
  <2> QED
    BY Zenon, <2>1, <2>5
<1>10. CurrentInv' /\ ReceivedInv' /\ OrderInv' /\ QuarantineIsPermanent'
  <2>1. CurrentInv'
    BY Zenon, <1>2 DEF CurrentInv
  <2> QED
    BY ZenonT(40), <1>2, <1>5, <2>1, ReceivedFrame DEF history
<1>11. DuplicateInv'
  <2>1. faults \in Nat /\ crashes \in Nat
    BY Zenon DEF SpoolIInv, SpoolTypeOK, TypeOK
  <2>2. faults' + crashes' = 0 => faults + crashes = 0
    BY <1>2, <1>5, <2>1
  <2>3. files' = files /\ pc # "remove"
    BY Zenon, <1>2, <1>5
  <2> QED
    BY ZenonT(40), <1>2, <2>2, <2>3 DEF DuplicateInv
<1> QED
  BY Zenon, <1>4, <1>7, <1>8, <1>9, <1>10, <1>11

-----------------------------------------------------------------------------
(* Replay, retention and the process.                                      *)

\* The end of a call, a retried or refused payload, and the steps of a
\* shutdown preserve the invariant: they leave the spool, the windows and what
\* the collector has received alone.
LEMMA ControlStepInv ==
  ASSUME IInv, RefreshReturned \/ ReplayReturned \/ Shutdown \/ RunReturns
  PROVE  IInv'
<1> USE DEF IInv
<1>1. /\ spoolVars' = spoolVars
      /\ UNCHANGED <<series, window, inflight, accepted, lost, delivered, redelivered, last, crashes>>
  BY Zenon DEF RefreshReturned, ReplayReturned, Shutdown, RunReturns
<1>2. SpoolIInv'
  BY Zenon, <1>1, SpoolStutter
<1>3. TypeOK'
  <2>1. phase' \in Phases /\ intake' \in BOOLEAN /\ pc' \in Pcs
    BY Zenon DEF RefreshReturned, ReplayReturned, Shutdown, RunReturns, Finish, TypeOK, Phases, Pcs
  <2>2. current' \in SUBSET FileType /\ status' \in Nat
    BY DEF RefreshReturned, ReplayReturned, Shutdown, RunReturns, Finish, TypeOK, NoResponse
  <2> QED
    BY Zenon, <1>1, <1>2, <2>1, <2>2, TypeFrame
<1>4. ControlInv'
  <2>1. Up
    BY Zenon, WorkingIsUp DEF RefreshReturned, ReplayReturned, Shutdown, RunReturns, Up
  <2> QED
    BY ZenonT(30), <1>1, <2>1
       DEF spoolVars, RefreshReturned, ReplayReturned, Shutdown, RunReturns, Finish, ControlInv, Up
<1>5. WindowInv' /\ AcceptedAccounted'
  <2>1. \/ pc' = pc
        \/ pc \notin {"rotated", "putting"} /\ pc' \notin {"rotated", "putting"}
    BY Zenon DEF RefreshReturned, ReplayReturned, Shutdown, RunReturns, Finish
  <2> QED
    BY Zenon, <1>1, <2>1, WindowFrame DEF spoolVars, history
<1>6. CurrentInv' /\ DuplicateInv'
  <2>1. \/ pc' = pc /\ current' = current /\ status' = status
        \/ pc # "remove" /\ pc' \notin {"send", "remove", "reject"}
    BY Zenon DEF RefreshReturned, ReplayReturned, Shutdown, RunReturns, Finish
  <2> QED
    BY Zenon, <1>1, <2>1 DEF spoolVars, disk, CurrentInv, DuplicateInv
<1>7. ReceivedInv' /\ OrderInv' /\ QuarantineIsPermanent'
  BY Zenon, <1>1, ReceivedFrame DEF spoolVars, disk, history
<1> QED
  BY Zenon, <1>2, <1>3, <1>4, <1>5, <1>6, <1>7

\* Choosing the oldest file preserves the invariant.
LEMMA ReplayStartInv ==
  ASSUME IInv, ReplayStart
  PROVE  IInv'
<1> USE DEF IInv
<1>1. PICK f \in files : IsOldest(f, files) /\ current' = {f}
  BY Zenon DEF ReplayStart
<1>2. /\ spoolVars' = spoolVars
      /\ pc = "idle" /\ pc' = "send" /\ Up
      /\ UNCHANGED <<phase, intake, series, window, inflight, status,
                     accepted, lost, delivered, redelivered, last, crashes>>
  BY Zenon DEF ReplayStart, Up
<1>3. op = "none"
  BY Zenon, <1>2, MutexFree
<1>4. SpoolIInv'
  BY Zenon, <1>2, SpoolStutter
<1>5. TypeOK'
  <2>1. f \in FileType
    BY Zenon DEF SpoolIInv, SpoolTypeOK
  <2> QED
    BY Zenon, <1>1, <1>2, <1>4, <2>1 DEF TypeOK, SpoolIInv, Pcs
<1>6. ControlInv' /\ WindowInv' /\ AcceptedAccounted'
  BY ZenonT(30), <1>2, <1>3 DEF spoolVars, disk, history, ControlInv, Up, WindowInv, AcceptedAccounted, Held
<1>7. CurrentInv' /\ DuplicateInv' /\ ReceivedInv' /\ OrderInv' /\ QuarantineIsPermanent'
  <2>1. UNCHANGED <<files, quarantine, nextBatch, persisted, removed, moved, expired, faults>>
    BY Zenon, <1>2 DEF spoolVars, disk, history
  <2>2. CurrentInv'
    <3>1. f \in files' /\ IsOldest(f, files')
      BY Zenon, <1>1, <2>1
    <3> QED
      BY ZenonT(40), SMTT(60), <1>1, <1>2, <3>1 DEF CurrentInv
  <2>3. DuplicateInv'
    BY ZenonT(30), <1>2, <2>1 DEF DuplicateInv
  <2> QED
    BY Zenon, <1>2, <2>1, <2>2, <2>3, ReceivedFrame
<1> QED
  BY Zenon, <1>4, <1>5, <1>6, <1>7

=============================================================================
