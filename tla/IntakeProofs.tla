---------------------------- MODULE IntakeProofs ----------------------------
(***************************************************************************)
(* What is proved of the intake, for any number of workers, datagrams and  *)
(* series, any caps and limits, and any order of clock readings.           *)
(*                                                                         *)
(* The limiter: only LimitLine touches it, and its step is one Allow.      *)
(*                                                                         *)
(* The packet queue: a datagram that was read is in exactly one place, and *)
(* its bytes are counted while readLoop, the queue or a worker that has    *)
(* not released it holds it.  PacketIInv adds to that the order of the     *)
(* shutdown: who is done when.                                             *)
(*                                                                         *)
(* The aggregator: its operations keep its counters exact, and what        *)
(* Snapshot carries between its two critical sections is the one window    *)
(* that no counter has.                                                    *)
(***************************************************************************)
EXTENDS Intake, AggregationProofs

-----------------------------------------------------------------------------
(* The series limiter                                                      *)

LimiterIInv == IsLimiter(limiter) /\ Exact(limiter)

\* A step of the intake leaves the limiter alone or is one call of Allow.
LEMMA StepOfLimiter ==
  ASSUME [Next]_vars
  PROVE  \/ limiter' = limiter
         \/ \E w \in Workers : limiter' = Allow(limiter, Line(w).series, worker[w].now)
<1>1. CASE Tick \/ ReadLoop \/ FlushOnce \/ Close \/ WaitReturns \/ UNCHANGED vars
  BY Zenon, <1>1 DEF Tick, ReadLoop, ReadDrops, Read, Refuse, Enqueue, StopInSelect, ReadEnds,
     FlushOnce, FlushStart, FlushReserve, FlushEnds, Close, CloseStop, CloseConn,
     CloseDrained, CloseDeadline, WaitReturns, vars
<1>2. ASSUME NEW w \in Workers, ParseLoop(w)
      PROVE  limiter' = limiter \/ limiter' = Allow(limiter, Line(w).series, worker[w].now)
  BY Zenon, <1>2 DEF ParseLoop, Take, Release, SkipLine, LimitLine, AddLine, WorkerEnds
<1> QED
  BY Zenon, <1>1, <1>2 DEF Next

(* In every state of the receiver the limiter's counter is the number of   *)
(* series it tracks, at most globalCap, and no metric has more than        *)
(* perMetricCap (safeguards.go:110-164).                                   *)
THEOREM LimiterAlwaysExact == Spec => []LimiterExact
<1>1. Init => LimiterIInv
  BY Zenon, NewLimiterExact DEF Init, LimiterIInv
<1>2. LimiterIInv /\ [Next]_vars => LimiterIInv'
  <2> SUFFICES ASSUME LimiterIInv, [Next]_vars PROVE LimiterIInv'
    BY Zenon
  <2>1. IsLimiter(limiter) /\ Exact(limiter)
    BY Zenon DEF LimiterIInv
  <2>2. CASE limiter' = limiter
    BY Zenon, <2>1, <2>2 DEF LimiterIInv, IsLimiter, Exact, Tracked
  <2>3. CASE \E w \in Workers : limiter' = Allow(limiter, Line(w).series, worker[w].now)
    <3>1. PICK w \in Workers : limiter' = Allow(limiter, Line(w).series, worker[w].now)
      BY Zenon, <2>3
    <3>2. IsLimiter(limiter') /\ Exact(limiter')
      BY Zenon, <2>1, <3>1, AllowKeepsExact
    <3> QED
      BY Zenon, <3>2 DEF LimiterIInv, IsLimiter, Exact, Tracked
  <2> QED
    BY Zenon, <2>2, <2>3, StepOfLimiter
<1>3. LimiterIInv => LimiterExact
  BY Zenon DEF LimiterIInv, LimiterExact
<1> QED
  BY <1>1, <1>2, <1>3, PTL DEF Spec

-----------------------------------------------------------------------------
(* The packet queue                                                        *)

\* The fields of a worker, without which EXCEPT says nothing of them.
IsWorker(r) == r = [at |-> r.at, packet |-> r.packet, line |-> r.line, now |-> r.now]

\* A worker has a datagram in hand from Take on, and a line of it after Release.
WorkerOK(r) ==
  /\ IsWorker(r)
  /\ r.at \in {"idle", "taken", "line", "add", "done"}
  /\ r.at \in {"taken", "line", "add"} => r.packet \in Packets
  /\ r.at \in {"line", "add"} => r.line \in 1 .. Len(LinesOf[r.packet])

\* The counters of a receiver.
Counters == [received : Nat, dropped : Nat, processed : Nat, silent : Nat,
             shutdownDropped : Nat, deadline : BOOLEAN]

IntakeTypes ==
  /\ reader \in [at : {"read", "select", "refuse", "done"}, packet : Packets \cup {NoPacket}]
  /\ reader.at \in {"select", "refuse"} => reader.packet \in Packets
  /\ queue \in Seq(Packets)
  /\ worker = [w \in Workers |-> worker[w]]
  /\ \A w \in Workers : WorkerOK(worker[w])
  /\ count \in Counters
  /\ scenario \in Scenarios

\* The order of the shutdown, and what the select and the deadline rely on.
OrderInv ==
  /\ reader.at = "select" => packetBytes <= PacketQueueMaxBytes
  /\ reader.at # "done" => count.silent = 0
  /\ count.silent <= 1
  /\ reader.at = "done" => StopClosed
  /\ \A w \in Workers : worker[w].at = "done" => queue = <<>> /\ reader.at = "done"
  /\ closeDone => reader.at = "done" /\ \A w \in Workers : worker[w].at = "done"
  /\ count.shutdownDropped <= count.processed + Len(queue) + Cardinality(Busy)

ReaderHolds == IF reader.at \in {"refuse", "select"} THEN 1 ELSE 0

\* r datagrams were read: d dropped, p processed, s given up, l queued, b with
\* the workers and h with readLoop.
Balanced(r, d, p, s, l, b, h) == r = d + p + s + l + b + h

CountExact ==
  Balanced(count.received, count.dropped, count.processed, count.silent, Len(queue),
           Cardinality(Busy), ReaderHolds)

PacketIInv == IntakeTypes /\ OrderInv /\ QueueExact /\ CountExact

\* The numbers that QueueBytes and TakenBytes add up.
QueueSizes == [i \in 1 .. Len(queue) |-> BytesOf[queue[i]]]
Taken == {w \in Workers : worker[w].at = "taken"}
TakenSizes == [w \in Taken |-> BytesOf[worker[w].packet]]

\* The fields of the counters.
LEMMA CountersNat ==
  ASSUME NEW c \in Counters
  PROVE  /\ c.received \in Nat /\ c.dropped \in Nat /\ c.processed \in Nat
         /\ c.silent \in Nat /\ c.shutdownDropped \in Nat
BY Zenon DEF Counters

\* A datagram is read and dropped, or read.
LEMMA BalanceRead ==
  \A r, d, p, s, l, b, h \in Nat :
    /\ Balanced(r, d, p, s, l, b, h) => Balanced(r + 1, d + 1, p, s, l, b, h)
    /\ Balanced(r, d, p, s, l, b, 0) => Balanced(r + 1, d, p, s, l, b, 1)
BY DEF Balanced

\* The datagram of readLoop is dropped, given up or queued.
LEMMA BalanceLeave ==
  \A r, d, p, s, l, b \in Nat :
    Balanced(r, d, p, s, l, b, 1) =>
      /\ Balanced(r, d + 1, p, s, l, b, 0)
      /\ Balanced(r, d, p, s + 1, l, b, 0)
      /\ Balanced(r, d, p, s, l + 1, b, 0)
BY DEF Balanced

\* A datagram is taken by a worker, or has been processed.
LEMMA BalanceWork ==
  \A r, d, p, s, l, b, h \in Nat :
    /\ Balanced(r, d, p, s, l + 1, b, h) => Balanced(r, d, p, s, l, b + 1, h)
    /\ Balanced(r, d, p, s, l, b + 1, h) => Balanced(r, d, p + 1, s, l, b, h)
BY DEF Balanced

\* What was dropped at the deadline had been read.
LEMMA BalanceBounds ==
  ASSUME NEW r \in Nat, NEW d \in Nat, NEW p \in Nat, NEW s \in Nat, NEW l \in Nat,
         NEW b \in Nat, NEW h \in Nat, NEW x \in Nat,
         Balanced(r, d, p, s, l, b, h), x <= p + l + b
  PROVE  x <= r - d - s
BY DEF Balanced

\* The bytes and the busy workers are natural numbers.
LEMMA SizesNat ==
  ASSUME IntakeTypes
  PROVE  /\ Len(queue) \in Nat
         /\ Summable(QueueSizes) /\ QueueBytes = Total(QueueSizes) /\ QueueBytes \in Nat
         /\ Summable(TakenSizes) /\ TakenBytes = Total(TakenSizes) /\ TakenBytes \in Nat
         /\ ReaderBytes \in Nat
         /\ IsFiniteSet(Busy) /\ Cardinality(Busy) \in Nat
<1>1. Len(queue) \in Nat /\ \A i \in 1 .. Len(queue) : queue[i] \in Packets
  BY DEF IntakeTypes
<1>2. Summable(QueueSizes)
  <2>1. IsFiniteSet(1 .. Len(queue))
    BY <1>1, FS_Interval
  <2> QED
    BY Zenon, <1>1, <2>1, IntakeAssumption DEF QueueSizes, Summable
<1>3. Summable(TakenSizes)
  <2>1. IsFiniteSet(Taken)
    BY Zenon, FS_Subset, IntakeAssumption DEF Taken
  <2>2. \A w \in Taken : worker[w].packet \in Packets
    BY Zenon DEF Taken, IntakeTypes, WorkerOK
  <2> QED
    BY Zenon, <2>1, <2>2, IntakeAssumption DEF TakenSizes, Summable
<1>4. QueueBytes = Total(QueueSizes) /\ TakenBytes = Total(TakenSizes)
  BY Zenon DEF QueueBytes, QueueSizes, TakenBytes, TakenSizes, Taken
<1>5. Total(QueueSizes) \in Nat /\ Total(TakenSizes) \in Nat
  BY Zenon, <1>2, <1>3, TotalType
<1>6. ReaderBytes \in Nat
  BY Zenon, IntakeAssumption DEF ReaderBytes, IntakeTypes
<1>7. IsFiniteSet(Busy)
  BY Zenon, FS_Subset, IntakeAssumption DEF Busy
<1>8. Cardinality(Busy) \in Nat
  BY Zenon, <1>7, FS_CardinalityType
<1> QED
  BY Zenon, <1>1, <1>2, <1>3, <1>4, <1>5, <1>6, <1>7, <1>8

\* The invariant implies what the run checks.
LEMMA PacketsAreAccounted ==
  ASSUME PacketIInv
  PROVE  PacketsAccounted
<1>1. /\ Len(queue) \in Nat /\ QueueBytes \in Nat /\ TakenBytes \in Nat
      /\ Cardinality(Busy) \in Nat
  BY Zenon, SizesNat DEF PacketIInv
<1>2. /\ count \in Counters
      /\ count.received \in Nat /\ count.dropped \in Nat /\ count.processed \in Nat
      /\ count.silent \in Nat /\ count.shutdownDropped \in Nat
  BY Zenon, CountersNat DEF PacketIInv, IntakeTypes
<1>3. ReaderHolds \in Nat
  BY Zenon DEF ReaderHolds
<1>4. QueueExact
  BY Zenon DEF PacketIInv
<1>5. count.silent <= IF StopClosed THEN 1 ELSE 0
  BY <1>2 DEF PacketIInv, OrderInv
<1>6. ASSUME closeDone
      PROVE  queue = <<>> /\ Busy = {} /\ packetBytes = 0
  <2>1. /\ reader.at = "done"
        /\ \A w \in Workers : worker[w].at = "done"
    BY Zenon, <1>6 DEF PacketIInv, OrderInv
  <2>2. queue = <<>>
    BY Zenon, <2>1, IntakeAssumption DEF PacketIInv, OrderInv
  <2>3. Busy = {} /\ Taken = {} /\ ReaderBytes = 0
    BY Zenon, <2>1 DEF Busy, Taken, ReaderBytes
  <2>4. Len(queue) = 0
    BY Zenon, <2>2
  <2>5. DOMAIN QueueSizes = {} /\ DOMAIN TakenSizes = {}
    BY <2>3, <2>4 DEF QueueSizes, TakenSizes
  <2>6. QueueBytes = 0 /\ TakenBytes = 0
    BY Zenon, <2>5, TotalEmpty, SizesNat DEF PacketIInv
  <2> QED
    BY <2>2, <2>3, <2>6 DEF PacketIInv, QueueExact
<1>7. count.shutdownDropped <= count.received - count.dropped - count.silent
  <2>1. Balanced(count.received, count.dropped, count.processed, count.silent, Len(queue),
                 Cardinality(Busy), ReaderHolds)
    BY Zenon DEF PacketIInv, CountExact
  <2>2. count.shutdownDropped <= count.processed + Len(queue) + Cardinality(Busy)
    BY Zenon DEF PacketIInv, OrderInv
  <2> QED
    BY Zenon, <1>1, <1>2, <1>3, <2>1, <2>2, BalanceBounds
<1>8. count.received = count.dropped + count.processed + count.silent + Len(queue)
                      + Cardinality(Busy)
                      + (IF reader.at \in {"refuse", "select"} THEN 1 ELSE 0)
  BY Zenon DEF PacketIInv, CountExact, Balanced, ReaderHolds
<1> QED
  BY Zenon, <1>4, <1>5, <1>6, <1>7, <1>8 DEF PacketsAccounted

\* Nothing is queued before the first datagram.
LEMMA IntakeInitInv == Init => PacketIInv
<1> SUFFICES ASSUME Init PROVE PacketIInv
  BY Zenon
<1>1. IntakeTypes
  <2>1. queue = <<>> /\ queue \in Seq(Packets)
    BY DEF Init
  <2>2. worker = [w \in Workers |-> Idle]
    BY Zenon DEF Init
  <2>3. WorkerOK(Idle)
    BY Zenon DEF WorkerOK, IsWorker, Idle
  <2> QED
    BY Zenon, <2>1, <2>2, <2>3 DEF Init, IntakeTypes, Counters
<1>2. Busy = {} /\ Cardinality(Busy) = 0
  <2>1. Busy = {}
    BY Zenon DEF Init, Busy, Idle
  <2> QED
    BY Zenon, <2>1, FS_EmptySet
<1>3. Len(queue) = 0
  BY Zenon DEF Init
<1>4. QueueBytes = 0 /\ TakenBytes = 0
  <2>1. DOMAIN QueueSizes = {} /\ DOMAIN TakenSizes = {}
    BY <1>3 DEF QueueSizes, TakenSizes, Taken, Init, Idle
  <2> QED
    BY Zenon, <1>1, <2>1, TotalEmpty, SizesNat
<1>5. OrderInv
  BY <1>2, <1>3 DEF Init, OrderInv, Idle
<1>6. QueueExact
  BY <1>3, <1>4, IntakeAssumption DEF Init, QueueExact, ReaderBytes
<1>7. CountExact
  BY <1>2, <1>3 DEF Init, CountExact, Balanced, ReaderHolds
<1> QED
  BY Zenon, <1>1, <1>5, <1>6, <1>7 DEF PacketIInv

\* A step that leaves the workers and the queue alone.
LEMMA QueueFrame ==
  /\ queue' = queue => QueueBytes' = QueueBytes
  /\ worker' = worker => TakenBytes' = TakenBytes /\ Busy' = Busy
BY Zenon DEF QueueBytes, TakenBytes, Busy

\* readLoop reads a datagram and drops it at once, or counts its bytes.
LEMMA ReadInv ==
  ASSUME PacketIInv, ReadDrops \/ \E p \in scenario.packets : Read(p)
  PROVE  PacketIInv'
<1>1. /\ IntakeTypes /\ OrderInv /\ QueueExact /\ CountExact
  BY Zenon DEF PacketIInv
<1>2. /\ Len(queue) \in Nat /\ QueueBytes \in Nat /\ TakenBytes \in Nat
      /\ Cardinality(Busy) \in Nat
  BY Zenon, <1>1, SizesNat
<1>3. /\ UNCHANGED <<scenario, queue, worker, closer, closeDone>>
      /\ reader.at = "read"
  BY Zenon DEF ReadDrops, Read
<1>4. /\ QueueBytes' = QueueBytes /\ TakenBytes' = TakenBytes /\ Busy' = Busy
  BY Zenon, <1>3, QueueFrame
<1>5. /\ count \in Counters
      /\ count.received \in Nat /\ count.dropped \in Nat /\ count.processed \in Nat
      /\ count.silent \in Nat /\ count.shutdownDropped \in Nat
  BY Zenon, <1>1, CountersNat DEF IntakeTypes
<1>6. StopClosed' = StopClosed
  BY Zenon, <1>3 DEF StopClosed
<1>7. CASE ReadDrops
  <2>1. /\ count' = [count EXCEPT !.received = @ + 1, !.dropped = @ + 1]
        /\ UNCHANGED <<reader, packetBytes>>
    BY Zenon, <1>7 DEF ReadDrops
  <2>2. /\ count' \in Counters
        /\ count'.received = count.received + 1 /\ count'.dropped = count.dropped + 1
        /\ count'.processed = count.processed /\ count'.silent = count.silent
        /\ count'.shutdownDropped = count.shutdownDropped
    <3> DEFINE c == [count EXCEPT !.received = @ + 1]
    <3>1. /\ c \in Counters /\ c.received = count.received + 1 /\ c.dropped = count.dropped
          /\ c.processed = count.processed /\ c.silent = count.silent
          /\ c.shutdownDropped = count.shutdownDropped
      BY <1>5 DEF Counters
    <3>2. count' = [c EXCEPT !.dropped = @ + 1]
      BY Zenon, <2>1
    <3> HIDE DEF c
    <3> QED
      BY <3>1, <3>2 DEF Counters
  <2>3. IntakeTypes'
    BY Zenon, <1>1, <1>3, <2>1, <2>2 DEF IntakeTypes
  <2>4. OrderInv'
    BY Zenon, <1>1, <1>3, <1>4, <1>6, <2>1, <2>2 DEF OrderInv
  <2>5. QueueExact'
    BY Zenon, <1>1, <1>3, <1>4, <2>1 DEF QueueExact, ReaderBytes
  <2>6. ReaderHolds' = ReaderHolds /\ ReaderHolds \in Nat
    BY Zenon, <2>1 DEF ReaderHolds
  <2>7. CountExact'
    <3>1. Balanced(count.received, count.dropped, count.processed, count.silent, Len(queue),
                   Cardinality(Busy), ReaderHolds)
      BY Zenon, <1>1 DEF CountExact
    <3>2. Balanced(count.received + 1, count.dropped + 1, count.processed, count.silent,
                   Len(queue), Cardinality(Busy), ReaderHolds)
      BY Zenon, <1>2, <1>5, <2>6, <3>1, BalanceRead
    <3> QED
      BY Zenon, <1>3, <1>4, <2>2, <2>6, <3>2 DEF CountExact
  <2> QED
    BY Zenon, <2>3, <2>4, <2>5, <2>7 DEF PacketIInv
<1>8. CASE \E p \in scenario.packets : Read(p)
  <2>1. PICK p \in scenario.packets : Read(p)
    BY Zenon, <1>8
  <2>2. /\ packetBytes' = packetBytes + BytesOf[p]
        /\ reader' = [at |-> IF packetBytes' > PacketQueueMaxBytes THEN "refuse" ELSE "select",
                      packet |-> p]
        /\ count' = [count EXCEPT !.received = @ + 1]
    BY Zenon, <2>1 DEF Read
  <2>3. p \in Packets /\ BytesOf[p] \in Nat
    BY Zenon, <1>1, IntakeAssumption DEF IntakeTypes
  <2>4. /\ count' \in Counters
        /\ count'.received = count.received + 1 /\ count'.dropped = count.dropped
        /\ count'.processed = count.processed /\ count'.silent = count.silent
        /\ count'.shutdownDropped = count.shutdownDropped
    BY <1>5, <2>2 DEF Counters
  <2>5. /\ reader' \in [at : {"read", "select", "refuse", "done"}, packet : Packets \cup {NoPacket}]
        /\ reader'.at \in {"select", "refuse"} /\ reader'.packet = p
        /\ reader'.at = "select" => ~(packetBytes' > PacketQueueMaxBytes)
    BY Zenon, <2>2, <2>3
  <2>6. IntakeTypes'
    BY Zenon, <1>1, <1>3, <2>3, <2>4, <2>5 DEF IntakeTypes
  <2>7. packetBytes = QueueBytes + TakenBytes
    BY SMTT(30), <1>1, <1>2, <1>3 DEF QueueExact, ReaderBytes
  <2>8. reader'.at = "select" => packetBytes' <= PacketQueueMaxBytes
    BY SMTT(30), <1>2, <2>2, <2>3, <2>5, <2>7, IntakeAssumption
  <2>9. OrderInv'
    BY Zenon, <1>1, <1>3, <1>4, <1>6, <2>4, <2>5, <2>8 DEF OrderInv
  <2>10. ReaderBytes' = BytesOf[p]
    BY Zenon, <2>5 DEF ReaderBytes
  <2>11. QueueExact'
    BY <1>1, <1>2, <1>3, <1>4, <2>2, <2>7, <2>10 DEF QueueExact
  <2>12. ReaderHolds = 0 /\ ReaderHolds' = 1
    BY Zenon, <1>3, <2>5 DEF ReaderHolds
  <2>13. 0 \in Nat
    BY Zenon
  <2>14. CountExact'
    <3>1. Balanced(count.received, count.dropped, count.processed, count.silent, Len(queue),
                   Cardinality(Busy), 0)
      BY Zenon, <1>1, <2>12 DEF CountExact
    <3>2. Balanced(count.received + 1, count.dropped, count.processed, count.silent,
                   Len(queue), Cardinality(Busy), 1)
      BY Zenon, <1>2, <1>5, <2>13, <3>1, BalanceRead
    <3> QED
      BY Zenon, <1>3, <1>4, <2>4, <2>12, <3>2 DEF CountExact
  <2> QED
    BY Zenon, <2>6, <2>9, <2>11, <2>14 DEF PacketIInv
<1> QED
  BY Zenon, <1>7, <1>8

\* readLoop gives a datagram up, with a reason or without, or finds that the
\* socket is closed.
LEMMA GiveUpInv ==
  ASSUME PacketIInv, Refuse \/ StopInSelect \/ ReadEnds
  PROVE  PacketIInv'
<1>1. /\ IntakeTypes /\ OrderInv /\ QueueExact /\ CountExact
  BY Zenon DEF PacketIInv
<1>2. /\ Len(queue) \in Nat /\ QueueBytes \in Nat /\ TakenBytes \in Nat
      /\ Cardinality(Busy) \in Nat /\ ReaderBytes \in Nat
  BY Zenon, <1>1, SizesNat
<1>3. UNCHANGED <<scenario, queue, worker, closer, closeDone>>
  BY Zenon DEF Refuse, StopInSelect, ReadEnds
<1>4. QueueBytes' = QueueBytes /\ TakenBytes' = TakenBytes /\ Busy' = Busy
  BY Zenon, <1>3, QueueFrame
<1>5. /\ count \in Counters
      /\ count.received \in Nat /\ count.dropped \in Nat /\ count.processed \in Nat
      /\ count.silent \in Nat /\ count.shutdownDropped \in Nat
  BY Zenon, <1>1, CountersNat DEF IntakeTypes
<1>6. StopClosed' = StopClosed
  BY Zenon, <1>3 DEF StopClosed
<1>7. /\ reader.at \in {"read", "select", "refuse"}
      /\ reader' \in {[at |-> "read", packet |-> NoPacket], [at |-> "done", packet |-> NoPacket]}
      /\ reader'.at = "done" => StopClosed
  BY DEF Refuse, StopInSelect, ReadEnds
<1>8. /\ packetBytes' = packetBytes - ReaderBytes
      /\ \/ /\ count' = count /\ reader.at = "read"
         \/ /\ count' = [count EXCEPT !.dropped = @ + 1] /\ reader.at \in {"refuse", "select"}
         \/ /\ count' = [count EXCEPT !.silent = @ + 1] /\ reader.at \in {"refuse", "select"}
            /\ reader'.at = "done"
  <2>1. CASE Refuse
    BY Zenon, <2>1 DEF Refuse, ReaderBytes
  <2>2. CASE StopInSelect
    BY Zenon, <2>2 DEF StopInSelect, ReaderBytes
  <2>3. CASE ReadEnds
    <3>1. packetBytes = QueueBytes + TakenBytes + ReaderBytes
      BY Zenon, <1>1 DEF QueueExact
    <3>2. ReaderBytes = 0 /\ packetBytes' = packetBytes /\ count' = count /\ reader.at = "read"
      BY Zenon, <2>3 DEF ReadEnds, ReaderBytes
    <3> QED
      BY <1>2, <3>1, <3>2
  <2> QED
    BY Zenon, <2>1, <2>2, <2>3
<1>9. /\ count' \in Counters
      /\ count'.received = count.received
      /\ count'.processed = count.processed
      /\ count'.shutdownDropped = count.shutdownDropped
      /\ \/ /\ count'.dropped = count.dropped /\ count'.silent = count.silent /\ ReaderHolds = 0
         \/ /\ count'.dropped = count.dropped + 1 /\ count'.silent = count.silent
            /\ ReaderHolds = 1
         \/ /\ count'.dropped = count.dropped /\ count'.silent = count.silent + 1
            /\ ReaderHolds = 1 /\ reader'.at = "done"
  BY <1>5, <1>8 DEF ReaderHolds, Counters
<1>10. /\ reader'.at \in {"read", "done"}
       /\ reader' \in [at : {"read", "select", "refuse", "done"}, packet : Packets \cup {NoPacket}]
       /\ ReaderBytes' = 0 /\ ReaderHolds' = 0
  BY <1>7 DEF ReaderBytes, ReaderHolds
<1>11. IntakeTypes'
  BY Zenon, <1>1, <1>3, <1>9, <1>10 DEF IntakeTypes
<1>12. count.silent = 0
  BY Zenon, <1>1, <1>7 DEF OrderInv
<1>13. /\ \A w \in Workers : worker[w].at # "done"
       /\ ~closeDone
  BY Zenon, <1>1, <1>7 DEF OrderInv
<1>14. OrderInv'
  <2>1. /\ reader'.at # "done" => count'.silent = 0
        /\ count'.silent <= 1
    BY SMTT(30), <1>5, <1>9, <1>12, CountersNat
  <2>2. count'.shutdownDropped <= count'.processed + Len(queue') + Cardinality(Busy')
    BY Zenon, <1>1, <1>3, <1>4, <1>9 DEF OrderInv
  <2> QED
    BY Zenon, <1>3, <1>6, <1>7, <1>10, <1>13, <2>1, <2>2 DEF OrderInv
<1>15. QueueExact'
  <2>1. packetBytes' = QueueBytes + TakenBytes
    BY <1>1, <1>2, <1>8 DEF QueueExact
  <2> QED
    BY <1>1, <1>2, <1>3, <1>4, <1>10, <2>1 DEF QueueExact
<1>16. CountExact'
  <2>1. Balanced(count.received, count.dropped, count.processed, count.silent, Len(queue),
                 Cardinality(Busy), ReaderHolds)
    BY Zenon, <1>1 DEF CountExact
  <2>2. Balanced(count'.received, count'.dropped, count'.processed, count'.silent, Len(queue),
                 Cardinality(Busy), 0)
    <3>1. ReaderHolds = 1 =>
            /\ Balanced(count.received, count.dropped + 1, count.processed, count.silent,
                        Len(queue), Cardinality(Busy), 0)
            /\ Balanced(count.received, count.dropped, count.processed, count.silent + 1,
                        Len(queue), Cardinality(Busy), 0)
      BY Zenon, <1>2, <1>5, <2>1, BalanceLeave
    <3> QED
      BY Zenon, <1>9, <2>1, <3>1
  <2> QED
    BY Zenon, <1>3, <1>4, <1>10, <2>2 DEF CountExact
<1> QED
  BY Zenon, <1>11, <1>14, <1>15, <1>16 DEF PacketIInv

\* readLoop hands its datagram to the queue.
LEMMA EnqueueInv ==
  ASSUME PacketIInv, Enqueue
  PROVE  PacketIInv'
<1>1. /\ IntakeTypes /\ OrderInv /\ QueueExact /\ CountExact
  BY Zenon DEF PacketIInv
<1>2. /\ Len(queue) \in Nat /\ QueueBytes \in Nat /\ TakenBytes \in Nat
      /\ Cardinality(Busy) \in Nat
      /\ Summable(QueueSizes) /\ QueueBytes = Total(QueueSizes)
  BY Zenon, <1>1, SizesNat
<1>3. /\ UNCHANGED <<scenario, packetBytes, worker, closer, closeDone, count>>
      /\ reader.at = "select" /\ Len(queue) < PacketQueueSize
      /\ queue' = Append(queue, reader.packet)
      /\ reader' = [at |-> "read", packet |-> NoPacket]
  BY Zenon DEF Enqueue
<1>4. TakenBytes' = TakenBytes /\ Busy' = Busy
  BY Zenon, <1>3, QueueFrame
<1>5. /\ reader.packet \in Packets /\ BytesOf[reader.packet] \in Nat
      /\ packetBytes <= PacketQueueMaxBytes
  BY Zenon, <1>1, <1>3, IntakeAssumption DEF IntakeTypes, OrderInv
<1>6. /\ queue' \in Seq(Packets) /\ Len(queue') = Len(queue) + 1
      /\ queue'[Len(queue) + 1] = reader.packet
      /\ \A i \in 1 .. Len(queue) : queue'[i] = queue[i]
  BY <1>1, <1>3, <1>5 DEF IntakeTypes
<1>7. /\ reader' \in [at : {"read", "select", "refuse", "done"}, packet : Packets \cup {NoPacket}]
      /\ reader'.at = "read"
  BY Zenon, <1>3
<1>8. IntakeTypes'
  BY Zenon, <1>1, <1>3, <1>6, <1>7 DEF IntakeTypes
<1>9. /\ ReaderBytes = BytesOf[reader.packet] /\ ReaderBytes' = 0
      /\ ReaderHolds = 1 /\ ReaderHolds' = 0
  BY Zenon, <1>3, <1>7 DEF ReaderBytes, ReaderHolds
<1>10. QueueBytes' = QueueBytes + BytesOf[reader.packet]
  <2>1. /\ DOMAIN QueueSizes = 1 .. Len(queue)
        /\ \A i \in 1 .. Len(queue) : QueueSizes[i] = BytesOf[queue[i]]
    BY Zenon DEF QueueSizes
  <2>2. /\ DOMAIN QueueSizes' = 1 .. Len(queue')
        /\ \A i \in 1 .. Len(queue') : QueueSizes'[i] = BytesOf[queue'[i]]
    BY Zenon DEF QueueSizes
  <2>3. /\ Len(queue) + 1 \notin 1 .. Len(queue)
        /\ 1 .. Len(queue') = (1 .. Len(queue)) \cup {Len(queue) + 1}
    BY <1>2, <1>6
  <2>4. /\ QueueSizes'[Len(queue) + 1] = BytesOf[reader.packet]
        /\ \A i \in 1 .. Len(queue) : QueueSizes'[i] = QueueSizes[i]
    BY <1>6, <2>1, <2>2, <2>3
  <2>5. Total(QueueSizes') = Total(QueueSizes) + BytesOf[reader.packet]
    <3>1. PICK g : g = QueueSizes'
      BY Zenon
    <3>2. PICK x : x = Len(queue) + 1
      BY Zenon
    <3>3. /\ x \notin DOMAIN QueueSizes /\ DOMAIN g = DOMAIN QueueSizes \cup {x}
          /\ g[x] \in Nat
          /\ \A y \in DOMAIN QueueSizes : g[y] = QueueSizes[y]
      BY Zenon, <1>5, <2>1, <2>2, <2>3, <2>4, <3>1, <3>2
    <3>4. Total(g) = Total(QueueSizes) + g[x]
      <4>1. Summable(QueueSizes)
        BY Zenon, <1>2
      <4> QED
        BY Zenon, <3>3, <4>1, TotalAdd
    <3> QED
      BY Zenon, <2>4, <3>1, <3>2, <3>4
  <2>6. QueueBytes' = Total(QueueSizes')
    BY Zenon DEF QueueBytes, QueueSizes
  <2> QED
    BY Zenon, <1>2, <2>5, <2>6
<1>11. OrderInv'
  <2>1. \A v \in Workers : worker[v].at # "done"
    BY Zenon, <1>1, <1>3 DEF OrderInv
  <2>2. /\ count.silent = 0 /\ ~closeDone
        /\ count.shutdownDropped <= count.processed + Len(queue) + Cardinality(Busy)
    BY Zenon, <1>1, <1>3 DEF OrderInv
  <2>3. count.shutdownDropped \in Nat /\ count.processed \in Nat
    BY Zenon, <1>1, CountersNat DEF IntakeTypes
  <2>4. count.shutdownDropped <= count.processed + Len(queue') + Cardinality(Busy)
    BY <1>2, <1>6, <2>2, <2>3
  <2> QED
    BY SMTT(30), <1>3, <1>4, <1>7, <2>1, <2>2, <2>4 DEF OrderInv
<1>12. QueueExact'
  <2>1. /\ packetBytes = QueueBytes + TakenBytes + BytesOf[reader.packet]
        /\ packetBytes <= PacketQueueMaxBytes
    BY Zenon, <1>1, <1>5, <1>9 DEF QueueExact
  <2>2. /\ packetBytes' = QueueBytes' + TakenBytes' + ReaderBytes'
        /\ QueueBytes' + TakenBytes' <= PacketQueueMaxBytes
    BY SMTT(30), <1>2, <1>3, <1>4, <1>5, <1>9, <1>10, <2>1
  <2>3. Len(queue') <= PacketQueueSize
    BY <1>2, <1>3, <1>6, IntakeAssumption
  <2> QED
    BY Zenon, <2>2, <2>3 DEF QueueExact
<1>13. CountExact'
  <2>1. /\ count.received \in Nat /\ count.dropped \in Nat /\ count.processed \in Nat
        /\ count.silent \in Nat
    BY Zenon, <1>1, CountersNat DEF IntakeTypes
  <2>2. Balanced(count.received, count.dropped, count.processed, count.silent, Len(queue),
                 Cardinality(Busy), 1)
    BY Zenon, <1>1, <1>9 DEF CountExact
  <2>3. Balanced(count.received, count.dropped, count.processed, count.silent, Len(queue) + 1,
                 Cardinality(Busy), 0)
    BY Zenon, <1>2, <2>1, <2>2, BalanceLeave
  <2> QED
    BY ZenonT(40), <1>3, <1>4, <1>6, <1>9, <2>3 DEF CountExact
<1> QED
  BY Zenon, <1>8, <1>11, <1>12, <1>13 DEF PacketIInv

\* What the step of one worker does to the bytes taken.
LEMMA TakenStep ==
  ASSUME IntakeTypes, NEW w \in Workers, NEW r, worker' = [worker EXCEPT ![w] = r]
  PROVE  /\ worker[w].at # "taken" /\ r.at = "taken" /\ r.packet \in Packets
              => TakenBytes' = TakenBytes + BytesOf[r.packet]
         /\ worker[w].at = "taken" /\ r.at # "taken"
              => TakenBytes = TakenBytes' + BytesOf[worker[w].packet] /\ TakenBytes' \in Nat
         /\ worker[w].at # "taken" /\ r.at # "taken" => TakenBytes' = TakenBytes
<1>1. /\ Summable(TakenSizes) /\ TakenBytes = Total(TakenSizes)
  BY Zenon, SizesNat
<1>2. TakenBytes' = Total(TakenSizes')
  BY Zenon DEF TakenBytes, TakenSizes, Taken
<1>3. worker'[w] = r /\ \A v \in Workers : v # w => worker'[v] = worker[v]
  BY Zenon DEF IntakeTypes
<1>4. /\ DOMAIN TakenSizes = Taken
      /\ \A v \in Taken : TakenSizes[v] = BytesOf[worker[v].packet]
  BY Zenon DEF TakenSizes
<1>5. PICK g, T : g = TakenSizes' /\ T = Taken'
  BY Zenon
<1>6. DOMAIN g = T /\ \A v \in T : g[v] = BytesOf[worker'[v].packet]
  BY Zenon, <1>5 DEF TakenSizes
<1>7. T = {v \in Workers : worker'[v].at = "taken"}
  BY Zenon, <1>5 DEF Taken
<1>8. ASSUME worker[w].at # "taken", r.at = "taken", r.packet \in Packets
      PROVE  Total(g) = Total(TakenSizes) + BytesOf[r.packet]
  <2>1. w \notin Taken /\ T = Taken \cup {w}
    BY Zenon, <1>3, <1>7, <1>8 DEF Taken
  <2>2. g[w] = BytesOf[r.packet] /\ \A v \in Taken : g[v] = TakenSizes[v]
    BY SMTT(30), <1>3, <1>4, <1>6, <2>1 DEF Taken
  <2>3. g[w] \in Nat
    BY Zenon, <1>8, <2>2, IntakeAssumption
  <2>4. /\ w \notin DOMAIN TakenSizes /\ DOMAIN g = DOMAIN TakenSizes \cup {w}
        /\ \A v \in DOMAIN TakenSizes : g[v] = TakenSizes[v]
    BY Zenon, <1>4, <1>6, <2>1, <2>2
  <2>5. Total(g) = Total(TakenSizes) + g[w]
    BY Zenon, <1>1, <2>3, <2>4, TotalAdd
  <2> QED
    BY Zenon, <2>2, <2>5
<1>9. ASSUME worker[w].at = "taken", r.at # "taken"
      PROVE  /\ Total(TakenSizes) = Total(g) + BytesOf[worker[w].packet]
             /\ Total(g) \in Nat
  <2>1. w \in Taken /\ T = Taken \ {w}
    BY Zenon, <1>3, <1>7, <1>9 DEF Taken
  <2>2. TakenSizes[w] = BytesOf[worker[w].packet] /\ \A v \in T : g[v] = TakenSizes[v]
    BY <1>3, <1>4, <1>6, <2>1 DEF Taken
  <2>3. /\ w \in DOMAIN TakenSizes /\ DOMAIN g = DOMAIN TakenSizes \ {w}
        /\ \A v \in DOMAIN g : g[v] = TakenSizes[v]
    BY Zenon, <1>4, <1>6, <2>1, <2>2
  <2>4. Total(g) \in Nat /\ Total(TakenSizes) = Total(g) + TakenSizes[w]
    BY Zenon, <1>1, <2>3, TotalRemove
  <2> QED
    BY Zenon, <2>2, <2>4
<1>10. ASSUME worker[w].at # "taken", r.at # "taken"
       PROVE  Total(g) = Total(TakenSizes)
  <2>1. w \notin Taken /\ T = Taken
    BY <1>3, <1>7, <1>10 DEF Taken
  <2>2. \A v \in T : g[v] = TakenSizes[v]
    BY <1>3, <1>4, <1>6, <2>1 DEF Taken
  <2> QED
    BY ZenonT(40), <1>4, <1>6, <2>1, <2>2, TotalSame
<1> QED
  BY Zenon, <1>1, <1>2, <1>5, <1>8, <1>9, <1>10

\* What the step of one worker does to the number of busy ones.
LEMMA BusyStep ==
  ASSUME IntakeTypes, NEW w \in Workers, NEW r, worker' = [worker EXCEPT ![w] = r]
  PROVE  /\ w \in Busy <=> worker[w].at \notin {"idle", "done"}
         /\ w \notin Busy /\ r.at \notin {"idle", "done"}
              => Cardinality(Busy') = Cardinality(Busy) + 1
         /\ w \in Busy /\ r.at \in {"idle", "done"}
              => /\ Cardinality(Busy') \in Nat
                 /\ Cardinality(Busy) = Cardinality(Busy') + 1
         /\ (w \in Busy <=> r.at \notin {"idle", "done"}) => Busy' = Busy
<1>1. IsFiniteSet(Busy) /\ Cardinality(Busy) \in Nat
  BY Zenon, SizesNat
<1>2. worker'[w] = r /\ \A v \in Workers : v # w => worker'[v] = worker[v]
  BY DEF IntakeTypes
<1>3. w \in Busy <=> worker[w].at \notin {"idle", "done"}
  BY Zenon DEF Busy
<1>4. ASSUME w \notin Busy, r.at \notin {"idle", "done"}
      PROVE  Cardinality(Busy') = Cardinality(Busy) + 1
  <2>1. Busy' = Busy \cup {w}
    BY Zenon, <1>2, <1>4 DEF Busy
  <2> QED
    BY Zenon, <1>1, <1>4, <2>1, FS_AddElement
<1>5. ASSUME w \in Busy, r.at \in {"idle", "done"}
      PROVE  /\ Cardinality(Busy') \in Nat /\ Cardinality(Busy) = Cardinality(Busy') + 1
  <2>1. Busy' = Busy \ {w}
    BY Zenon, <1>2, <1>5 DEF Busy
  <2>2. /\ IsFiniteSet(Busy') /\ Cardinality(Busy') = Cardinality(Busy) - 1
    BY Zenon, <1>1, <1>5, <2>1, FS_RemoveElement
  <2>3. Cardinality(Busy') \in Nat
    BY Zenon, <2>2, FS_CardinalityType
  <2> QED
    BY <1>1, <2>2, <2>3
<1>6. ASSUME w \in Busy <=> r.at \notin {"idle", "done"}
      PROVE  Busy' = Busy
  BY Zenon, <1>2, <1>6 DEF Busy
<1> QED
  BY Zenon, <1>3, <1>4, <1>5, <1>6

\* What a worker's step must keep for the types.
LEMMA WorkerTypes ==
  ASSUME IntakeTypes, NEW w \in Workers, NEW r, WorkerOK(r), worker' = [worker EXCEPT ![w] = r]
  PROVE  /\ worker' = [v \in Workers |-> worker'[v]]
         /\ worker'[w] = r
         /\ \A v \in Workers : v # w => worker'[v] = worker[v]
         /\ \A v \in Workers : WorkerOK(worker'[v])
BY Zenon DEF IntakeTypes

\* A worker takes the datagram at the head of the queue.
LEMMA TakeInv ==
  ASSUME PacketIInv, NEW w \in Workers, Take(w)
  PROVE  PacketIInv'
<1>1. /\ IntakeTypes /\ OrderInv /\ QueueExact /\ CountExact
  BY Zenon DEF PacketIInv
<1>2. /\ Len(queue) \in Nat /\ QueueBytes \in Nat /\ TakenBytes \in Nat
      /\ Cardinality(Busy) \in Nat /\ ReaderBytes \in Nat
      /\ Summable(QueueSizes) /\ QueueBytes = Total(QueueSizes)
  BY Zenon, <1>1, SizesNat
<1>3. PICK r : r = [Idle EXCEPT !.at = "taken", !.packet = Head(queue)]
  BY Zenon
<1>4. /\ UNCHANGED <<scenario, reader, packetBytes, closer, closeDone, count>>
      /\ worker[w].at = "idle" /\ queue # <<>>
      /\ queue' = Tail(queue)
      /\ worker' = [worker EXCEPT ![w] = r]
  BY Zenon, <1>3 DEF Take
<1>5. PICK n \in Nat : Len(queue) = n + 1
  <2>1. Len(queue) # 0
    BY <1>1, <1>4 DEF IntakeTypes
  <2>2. Len(queue) - 1 \in Nat /\ Len(queue) = (Len(queue) - 1) + 1
    BY <1>2, <2>1
  <2> QED
    BY Zenon, <2>2
<1>6. /\ queue' \in Seq(Packets) /\ Len(queue') = n
      /\ \A i \in 1 .. n : queue'[i] = queue[i + 1]
      /\ \A i \in 1 .. n + 1 : queue[i] \in Packets
      /\ Head(queue) = queue[1]
  BY <1>1, <1>4, <1>5 DEF IntakeTypes
<1>7. Head(queue) \in Packets /\ BytesOf[Head(queue)] \in Nat
  <2>1. 1 \in 1 .. n + 1
    BY <1>5
  <2> QED
    BY Zenon, <1>6, <2>1, IntakeAssumption
<1>8. r.at = "taken" /\ r.packet = Head(queue) /\ WorkerOK(r)
  BY Zenon, <1>3, <1>7 DEF Idle, WorkerOK, IsWorker
<1>9. /\ worker' = [v \in Workers |-> worker'[v]] /\ worker'[w] = r
      /\ \A v \in Workers : v # w => worker'[v] = worker[v]
      /\ \A v \in Workers : WorkerOK(worker'[v])
  BY Zenon, <1>1, <1>4, <1>8, WorkerTypes
<1>10. IntakeTypes'
  BY Zenon, <1>1, <1>4, <1>6, <1>9 DEF IntakeTypes
<1>11. TakenBytes' = TakenBytes + BytesOf[Head(queue)]
  BY Zenon, <1>1, <1>4, <1>7, <1>8, TakenStep
<1>12. Cardinality(Busy') = Cardinality(Busy) + 1
  BY Zenon, <1>1, <1>4, <1>8, BusyStep
<1>13. QueueBytes = QueueBytes' + BytesOf[Head(queue)] /\ QueueBytes' \in Nat
  <2>1. PICK g : g = QueueSizes'
    BY Zenon
  <2>2. /\ DOMAIN QueueSizes = 1 .. n + 1
        /\ \A i \in 1 .. n + 1 : QueueSizes[i] = BytesOf[queue[i]]
    BY Zenon, <1>5 DEF QueueSizes
  <2>3. DOMAIN g = 1 .. n /\ \A i \in 1 .. n : g[i] = BytesOf[queue'[i]]
    BY Zenon, <1>6, <2>1 DEF QueueSizes
  <2>4. \A i \in 1 .. n + 1 : QueueSizes[i] \in Nat
    BY Zenon, <1>6, <2>2, IntakeAssumption
  <2>5. \A i \in 1 .. n : g[i] = QueueSizes[i + 1]
    <3>1. \A i \in 1 .. n : i + 1 \in 1 .. n + 1
      BY <1>5
    <3> QED
      BY <1>6, <2>2, <2>3, <3>1
  <2>6. Total(g) \in Nat /\ Total(QueueSizes) = Total(g) + QueueSizes[1]
    <3>1. n \in Nat /\ DOMAIN QueueSizes = 1 .. n + 1 /\ DOMAIN g = 1 .. n
      BY Zenon, <1>5, <2>2, <2>3
    <3> QED
      BY Zenon, <3>1, <2>4, <2>5, TotalTail
  <2>7. 1 \in 1 .. n + 1
    BY <1>5
  <2>8. QueueSizes[1] = BytesOf[Head(queue)]
    BY Zenon, <1>6, <2>2, <2>7
  <2>9. QueueBytes' = Total(QueueSizes')
    BY Zenon DEF QueueBytes, QueueSizes
  <2> QED
    BY ZenonT(40), <1>2, <2>1, <2>6, <2>8, <2>9
<1>14. OrderInv'
  <2>1. \A v \in Workers : worker'[v].at # "done"
    BY Zenon, <1>1, <1>4, <1>8, <1>9 DEF OrderInv
  <2>2. /\ ~closeDone
        /\ count.shutdownDropped <= count.processed + Len(queue) + Cardinality(Busy)
    BY Zenon, <1>1, <1>4 DEF OrderInv
  <2>3. count.shutdownDropped \in Nat /\ count.processed \in Nat
    BY Zenon, <1>1, CountersNat DEF IntakeTypes
  <2>4. count.shutdownDropped <= count.processed + Len(queue') + Cardinality(Busy')
    BY <1>2, <1>5, <1>6, <1>12, <2>2, <2>3
  <2>5. StopClosed' = StopClosed
    BY Zenon, <1>4 DEF StopClosed
  <2> QED
    BY Zenon, <1>1, <1>4, <2>1, <2>2, <2>4, <2>5 DEF OrderInv
<1>15. QueueExact'
  <2>1. /\ packetBytes = QueueBytes + TakenBytes + ReaderBytes
        /\ QueueBytes + TakenBytes <= PacketQueueMaxBytes
        /\ Len(queue) <= PacketQueueSize
    BY Zenon, <1>1 DEF QueueExact
  <2>2. ReaderBytes' = ReaderBytes
    BY Zenon, <1>4 DEF ReaderBytes
  <2>3. QueueBytes' + TakenBytes' = QueueBytes + TakenBytes
    BY SMTT(30), <1>2, <1>7, <1>11, <1>13
  <2>4. Len(queue') <= PacketQueueSize
    BY <1>5, <1>6, <2>1, IntakeAssumption
  <2> QED
    BY Zenon, <1>4, <2>1, <2>2, <2>3, <2>4 DEF QueueExact
<1>16. CountExact'
  <2>1. /\ count.received \in Nat /\ count.dropped \in Nat /\ count.processed \in Nat
        /\ count.silent \in Nat
    BY Zenon, <1>1, CountersNat DEF IntakeTypes
  <2>2. ReaderHolds \in Nat /\ ReaderHolds' = ReaderHolds
    BY Zenon, <1>4 DEF ReaderHolds
  <2>3. Balanced(count.received, count.dropped, count.processed, count.silent, n + 1,
                 Cardinality(Busy), ReaderHolds)
    BY Zenon, <1>1, <1>5 DEF CountExact
  <2>4. Balanced(count.received, count.dropped, count.processed, count.silent, n,
                 Cardinality(Busy) + 1, ReaderHolds)
    BY Zenon, <1>2, <1>5, <2>1, <2>2, <2>3, BalanceWork
  <2> QED
    BY Zenon, <1>4, <1>6, <1>12, <2>2, <2>4 DEF CountExact
<1> QED
  BY Zenon, <1>10, <1>14, <1>15, <1>16 DEF PacketIInv

\* The fields of a worker's record, set one after the other.
WorkerSets(u, a, l, n) ==
  /\ [u EXCEPT !.at = a] = [at |-> a, packet |-> u.packet, line |-> u.line, now |-> u.now]
  /\ [u EXCEPT !.at = a, !.line = l] = [at |-> a, packet |-> u.packet, line |-> l, now |-> u.now]
  /\ [u EXCEPT !.at = a, !.line = l, !.now = n]
       = [at |-> a, packet |-> u.packet, line |-> l, now |-> n]

\* A worker's record has the fields that EXCEPT sets.
LEMMA SetWorker ==
  ASSUME NEW u, IsWorker(u), NEW a, NEW l, NEW n
  PROVE  WorkerSets(u, a, l, n)
<1>1. PICK x, p, y, z : x = u.at /\ p = u.packet /\ y = u.line /\ z = u.now
  BY Zenon
<1>2. u = [at |-> x, packet |-> p, line |-> y, now |-> z]
  BY Zenon, <1>1 DEF IsWorker
<1>3. PICK f : f = [u EXCEPT !.at = a]
  BY Zenon
<1>4. f = [at |-> a, packet |-> p, line |-> y, now |-> z]
  BY Zenon, <1>2, <1>3
<1>5. PICK g : g = [f EXCEPT !.line = l]
  BY Zenon
<1>6. g = [at |-> a, packet |-> p, line |-> l, now |-> z]
  BY Zenon, <1>4, <1>5
<1>7. PICK e : e = [g EXCEPT !.now = n]
  BY Zenon
<1>8. e = [at |-> a, packet |-> p, line |-> l, now |-> n]
  BY Zenon, <1>6, <1>7
<1>9. /\ g = [u EXCEPT !.at = a, !.line = l]
      /\ e = [u EXCEPT !.at = a, !.line = l, !.now = n]
  BY Zenon, <1>3, <1>5, <1>7
<1> QED
  BY Zenon, <1>1, <1>3, <1>4, <1>6, <1>8, <1>9 DEF WorkerSets

\* Setting fields of one worker, one after the other.
LEMMA WorkerFields ==
  ASSUME IntakeTypes, NEW w \in Workers, NEW a, NEW l, NEW n
  PROVE  /\ [worker EXCEPT ![w].at = a, ![w].line = l]
              = [worker EXCEPT ![w] = [worker[w] EXCEPT !.at = a, !.line = l]]
         /\ [worker EXCEPT ![w].at = a, ![w].line = l, ![w].now = n]
              = [worker EXCEPT ![w] = [worker[w] EXCEPT !.at = a, !.line = l, !.now = n]]
<1>1. PICK f : f = [worker EXCEPT ![w].at = a]
  BY Zenon
<1>2. PICK g : g = [f EXCEPT ![w].line = l]
  BY Zenon
<1>3. PICK e : e = [g EXCEPT ![w].now = n]
  BY Zenon
<1>4. PICK r : r = [worker[w] EXCEPT !.at = a]
  BY Zenon
<1>5. PICK s : s = [r EXCEPT !.line = l]
  BY Zenon
<1>6. PICK t : t = [s EXCEPT !.now = n]
  BY Zenon
<1>7. f = [worker EXCEPT ![w] = r] /\ DOMAIN worker = Workers
  BY Zenon, <1>1, <1>4 DEF IntakeTypes
<1>8. g = [worker EXCEPT ![w] = s]
  BY Zenon, <1>2, <1>5, <1>7
<1>9. e = [worker EXCEPT ![w] = t]
  BY Zenon, <1>3, <1>6, <1>7, <1>8
<1>10. /\ g = [worker EXCEPT ![w].at = a, ![w].line = l]
       /\ e = [worker EXCEPT ![w].at = a, ![w].line = l, ![w].now = n]
  BY Zenon, <1>1, <1>2, <1>3
<1>11. /\ s = [worker[w] EXCEPT !.at = a, !.line = l]
       /\ t = [worker[w] EXCEPT !.at = a, !.line = l, !.now = n]
  BY Zenon, <1>4, <1>5, <1>6
<1> QED
  BY Zenon, <1>8, <1>9, <1>10, <1>11

\* A worker releases the bytes of its datagram.
LEMMA ReleaseInv ==
  ASSUME PacketIInv, NEW w \in Workers, Release(w)
  PROVE  PacketIInv'
<1>1. /\ IntakeTypes /\ OrderInv /\ QueueExact /\ CountExact
  BY Zenon DEF PacketIInv
<1>2. /\ Len(queue) \in Nat /\ QueueBytes \in Nat /\ TakenBytes \in Nat /\ ReaderBytes \in Nat
      /\ PacketQueueMaxBytes \in Nat
  BY Zenon, <1>1, SizesNat, IntakeAssumption
<1>3. WorkerOK(worker[w]) /\ worker[w].at = "taken" /\ worker[w].packet \in Packets
  BY Zenon, <1>1 DEF IntakeTypes, WorkerOK, Release
<1>4. PICK r : r = [at |-> "line", packet |-> worker[w].packet, line |-> 1, now |-> clock]
  BY Zenon
<1>5. /\ UNCHANGED <<scenario, reader, queue, closer, closeDone, count>>
      /\ packetBytes' = packetBytes - BytesOf[worker[w].packet]
      /\ worker' = [worker EXCEPT ![w] = r]
  <2>1. r = [worker[w] EXCEPT !.at = "line", !.line = 1, !.now = clock]
    <3>1. IsWorker(worker[w])
      BY Zenon, <1>3 DEF WorkerOK
    <3>2. [worker[w] EXCEPT !.at = "line", !.line = 1, !.now = clock]
            = [at |-> "line", packet |-> worker[w].packet, line |-> 1, now |-> clock]
      <4>1. WorkerSets(worker[w], "line", 1, clock)
        BY Zenon, <3>1, SetWorker
      <4> QED
        BY Zenon, <4>1 DEF WorkerSets
    <3> QED
      BY Zenon, <1>4, <3>2
  <2>2. worker' = [worker EXCEPT ![w].at = "line", ![w].line = 1, ![w].now = clock]
    BY Zenon DEF Release
  <2>3. worker' = [worker EXCEPT ![w] = r]
    BY ZenonT(40), <1>1, <2>1, <2>2, WorkerFields
  <2> QED
    BY Zenon, <2>3 DEF Release
<1>6. /\ r.at = "line" /\ WorkerOK(r)
  BY <1>3, <1>4, IntakeAssumption DEF WorkerOK, IsWorker
<1>7. /\ worker' = [v \in Workers |-> worker'[v]] /\ worker'[w] = r
      /\ \A v \in Workers : v # w => worker'[v] = worker[v]
      /\ \A v \in Workers : WorkerOK(worker'[v])
  BY Zenon, <1>1, <1>5, <1>6, WorkerTypes
<1>8. IntakeTypes'
  BY Zenon, <1>1, <1>5, <1>7 DEF IntakeTypes
<1>9. /\ TakenBytes = TakenBytes' + BytesOf[worker[w].packet] /\ TakenBytes' \in Nat
      /\ BytesOf[worker[w].packet] \in Nat
  BY Zenon, <1>1, <1>3, <1>5, <1>6, TakenStep, IntakeAssumption
<1>10. Busy' = Busy
  BY Zenon, <1>1, <1>3, <1>5, <1>6, BusyStep
<1>11. QueueBytes' = QueueBytes
  BY Zenon, <1>5, QueueFrame
<1>12. StopClosed' = StopClosed /\ ReaderBytes' = ReaderBytes /\ ReaderHolds' = ReaderHolds
  BY Zenon, <1>5 DEF StopClosed, ReaderBytes, ReaderHolds
<1>13. /\ packetBytes' = QueueBytes + TakenBytes' + ReaderBytes
       /\ QueueBytes + TakenBytes' <= PacketQueueMaxBytes
       /\ reader.at = "select" => packetBytes' <= PacketQueueMaxBytes
  <2>1. /\ packetBytes = QueueBytes + TakenBytes + ReaderBytes
        /\ QueueBytes + TakenBytes <= PacketQueueMaxBytes
        /\ reader.at = "select" => packetBytes <= PacketQueueMaxBytes
    BY Zenon, <1>1 DEF QueueExact, OrderInv
  <2>2. PICK q \in Nat, t \in Nat, u \in Nat, e \in Nat, b \in Nat, m \in Nat :
          /\ q = QueueBytes /\ t = TakenBytes /\ u = TakenBytes' /\ e = ReaderBytes
          /\ b = BytesOf[worker[w].packet] /\ m = PacketQueueMaxBytes
    BY Zenon, <1>2, <1>9
  <2>3. t = u + b /\ q + t <= m
    BY Zenon, <1>9, <2>1, <2>2
  <2>4. /\ (q + t + e) - b = q + u + e /\ q + u <= m
        /\ q + t + e <= m => q + u + e <= m
    BY <2>3
  <2>5. packetBytes' = QueueBytes + TakenBytes' + ReaderBytes
    <3>1. packetBytes' = (q + t + e) - b
      BY Zenon, <1>5, <2>1, <2>2
    <3> QED
      BY Zenon, <2>2, <2>4, <3>1
  <2> QED
    BY Zenon, <2>1, <2>2, <2>4, <2>5
<1>14. OrderInv'
  <2>1. \A v \in Workers : worker'[v].at = "done" => worker[v].at = "done"
    BY Zenon, <1>6, <1>7
  <2>2. ~closeDone
    BY Zenon, <1>1, <1>3 DEF OrderInv
  <2> QED
    BY Zenon, <1>1, <1>5, <1>10, <1>12, <1>13, <2>1, <2>2 DEF OrderInv
<1>15. QueueExact'
  <2>1. Len(queue) <= PacketQueueSize
    BY Zenon, <1>1 DEF QueueExact
  <2> QED
    BY Zenon, <1>5, <1>11, <1>12, <1>13, <2>1 DEF QueueExact
<1>16. CountExact'
  BY Zenon, <1>1, <1>5, <1>10, <1>12 DEF CountExact
<1> QED
  BY Zenon, <1>8, <1>14, <1>15, <1>16 DEF PacketIInv

\* What NextLine makes of a worker that has a line in hand.
LEMMA NextLineWorker ==
  ASSUME IntakeTypes, NEW w \in Workers, worker[w].at \in {"line", "add"}, NextLine(w)
  PROVE  \E r : /\ WorkerOK(r) /\ worker' = [worker EXCEPT ![w] = r]
                /\ \/ r.at = "line" /\ count' = count
                   \/ r.at = "idle" /\ count' = [count EXCEPT !.processed = @ + 1]
<1>1. /\ WorkerOK(worker[w]) /\ worker[w].packet \in Packets
      /\ worker[w].line \in 1 .. Len(LinesOf[worker[w].packet])
      /\ Len(LinesOf[worker[w].packet]) \in Nat
  BY Zenon, IntakeAssumption DEF IntakeTypes, WorkerOK
<1>2. CASE worker[w].line < Len(LinesOf[worker[w].packet])
  <2>1. PICK r : r = [at |-> "line", packet |-> worker[w].packet, line |-> worker[w].line + 1,
                      now |-> worker[w].now]
    BY Zenon
  <2>2. r = [worker[w] EXCEPT !.at = "line", !.line = worker[w].line + 1]
    <3>1. IsWorker(worker[w])
      BY Zenon, <1>1 DEF WorkerOK
    <3>2. [worker[w] EXCEPT !.at = "line", !.line = worker[w].line + 1]
            = [at |-> "line", packet |-> worker[w].packet, line |-> worker[w].line + 1,
               now |-> worker[w].now]
      <4>1. WorkerSets(worker[w], "line", worker[w].line + 1, 0)
        BY Zenon, <3>1, SetWorker
      <4> QED
        BY Zenon, <4>1 DEF WorkerSets
    <3> QED
      BY Zenon, <2>1, <3>2
  <2>3. worker' = [worker EXCEPT ![w] = r] /\ count' = count
    <3>1. /\ worker' = [worker EXCEPT ![w].at = "line", ![w].line = worker[w].line + 1]
          /\ count' = count
      BY <1>2 DEF NextLine
    <3> QED
      BY ZenonT(40), <2>2, <3>1, WorkerFields
  <2>4. r.at = "line" /\ r.line = worker[w].line + 1 /\ r.packet = worker[w].packet /\ IsWorker(r)
    BY <2>1 DEF IsWorker
  <2>5. worker[w].line + 1 \in 1 .. Len(LinesOf[worker[w].packet])
    BY <1>1, <1>2
  <2>6. WorkerOK(r)
    BY Zenon, <1>1, <2>4, <2>5 DEF WorkerOK
  <2> QED
    BY Zenon, <2>3, <2>4, <2>6
<1>3. CASE ~(worker[w].line < Len(LinesOf[worker[w].packet]))
  <2>1. worker' = [worker EXCEPT ![w] = Idle] /\ count' = [count EXCEPT !.processed = @ + 1]
    BY Zenon, <1>3 DEF NextLine
  <2>2. WorkerOK(Idle) /\ Idle.at = "idle"
    BY Zenon DEF WorkerOK, IsWorker, Idle
  <2> QED
    BY Zenon, <2>1, <2>2
<1> QED
  BY Zenon, <1>2, <1>3

\* A worker is done with a line: it goes on with the next, or with the next
\* datagram.
LEMMA LineInv ==
  ASSUME PacketIInv, NEW w \in Workers, SkipLine(w) \/ LimitLine(w) \/ AddLine(w)
  PROVE  PacketIInv'
<1>1. /\ IntakeTypes /\ OrderInv /\ QueueExact /\ CountExact
  BY Zenon DEF PacketIInv
<1>2. /\ UNCHANGED <<scenario, reader, queue, packetBytes, closer, closeDone>>
      /\ worker[w].at \in {"line", "add"}
      /\ \/ NextLine(w)
         \/ worker' = [worker EXCEPT ![w].at = "add"] /\ count' = count
  BY Zenon DEF SkipLine, LimitLine, AddLine
<1>3. /\ WorkerOK(worker[w]) /\ worker[w].packet \in Packets
      /\ worker[w].line \in 1 .. Len(LinesOf[worker[w].packet])
  BY Zenon, <1>1, <1>2 DEF IntakeTypes, WorkerOK
<1>4. PICK r : /\ WorkerOK(r) /\ worker' = [worker EXCEPT ![w] = r]
               /\ \/ r.at \in {"line", "add"} /\ count' = count
                  \/ r.at = "idle" /\ count' = [count EXCEPT !.processed = @ + 1]
  <2>1. CASE NextLine(w)
    BY Zenon, <1>1, <1>2, <2>1, NextLineWorker
  <2>2. CASE worker' = [worker EXCEPT ![w].at = "add"] /\ count' = count
    <3>1. PICK r : r = [at |-> "add", packet |-> worker[w].packet, line |-> worker[w].line,
                        now |-> worker[w].now]
      BY Zenon
    <3>2. r = [worker[w] EXCEPT !.at = "add"]
      <4>1. WorkerSets(worker[w], "add", 0, 0)
        BY Zenon, <1>3, SetWorker DEF WorkerOK
      <4> QED
        BY Zenon, <3>1, <4>1 DEF WorkerSets
    <3>3. worker' = [worker EXCEPT ![w] = r]
      BY Zenon, <1>1, <2>2, <3>2 DEF IntakeTypes
    <3>4. WorkerOK(r) /\ r.at = "add"
      BY Zenon, <1>3, <3>1 DEF WorkerOK, IsWorker
    <3> QED
      BY Zenon, <2>2, <3>3, <3>4
  <2> QED
    BY Zenon, <1>2, <2>1, <2>2
<1>5. /\ worker' = [v \in Workers |-> worker'[v]] /\ worker'[w] = r
      /\ \A v \in Workers : v # w => worker'[v] = worker[v]
      /\ \A v \in Workers : WorkerOK(worker'[v])
  BY Zenon, <1>1, <1>4, WorkerTypes
<1>6. /\ count \in Counters
      /\ count.received \in Nat /\ count.dropped \in Nat /\ count.processed \in Nat
      /\ count.silent \in Nat /\ count.shutdownDropped \in Nat
  BY Zenon, <1>1, CountersNat DEF IntakeTypes
<1>7. /\ count' \in Counters
      /\ count'.received = count.received /\ count'.dropped = count.dropped
      /\ count'.silent = count.silent /\ count'.shutdownDropped = count.shutdownDropped
      /\ \/ r.at \in {"line", "add"} /\ count'.processed = count.processed
         \/ r.at = "idle" /\ count'.processed = count.processed + 1
  BY <1>4, <1>6 DEF Counters
<1>8. IntakeTypes'
  BY Zenon, <1>1, <1>2, <1>5, <1>7 DEF IntakeTypes
<1>9. TakenBytes' = TakenBytes
  BY Zenon, <1>1, <1>2, <1>4, TakenStep
<1>10. QueueBytes' = QueueBytes /\ Len(queue) \in Nat /\ Cardinality(Busy) \in Nat
  BY Zenon, <1>1, <1>2, QueueFrame, SizesNat
<1>11. /\ r.at \in {"line", "add"} => Cardinality(Busy') = Cardinality(Busy)
       /\ r.at = "idle" => /\ Cardinality(Busy') \in Nat
                           /\ Cardinality(Busy) = Cardinality(Busy') + 1
  <2>1. w \in Busy
    BY Zenon, <1>2 DEF Busy
  <2> QED
    BY Zenon, <1>1, <1>4, <2>1, BusyStep
<1>12. StopClosed' = StopClosed /\ ReaderBytes' = ReaderBytes /\ ReaderHolds' = ReaderHolds
  BY Zenon, <1>2 DEF StopClosed, ReaderBytes, ReaderHolds
<1>13. OrderInv'
  <2>1. \A v \in Workers : worker'[v].at = "done" => worker[v].at = "done"
    BY Zenon, <1>4, <1>5
  <2>2. ~closeDone
    BY Zenon, <1>1, <1>2 DEF OrderInv
  <2>3. count'.shutdownDropped <= count'.processed + Len(queue) + Cardinality(Busy')
    <3>1. count.shutdownDropped <= count.processed + Len(queue) + Cardinality(Busy)
      BY Zenon, <1>1 DEF OrderInv
    <3>2. CASE r.at \in {"line", "add"}
      BY Zenon, <1>7, <1>11, <3>1, <3>2
    <3>3. CASE r.at = "idle"
      <4>1. \A x, p, l, c \in Nat : x <= p + l + (c + 1) => x <= (p + 1) + l + c
        OBVIOUS
      <4> QED
        BY Zenon, <1>6, <1>7, <1>10, <1>11, <3>1, <3>3, <4>1
    <3> QED
      BY Zenon, <1>7, <3>2, <3>3
  <2> QED
    BY Zenon, <1>1, <1>2, <1>7, <1>12, <2>1, <2>2, <2>3 DEF OrderInv
<1>14. QueueExact'
  BY Zenon, <1>1, <1>2, <1>9, <1>10, <1>12 DEF QueueExact
<1>15. CountExact'
  <2>1. ReaderHolds \in Nat
    BY Zenon DEF ReaderHolds
  <2>2. Balanced(count.received, count.dropped, count.processed, count.silent, Len(queue),
                 Cardinality(Busy), ReaderHolds)
    BY Zenon, <1>1 DEF CountExact
  <2>3. r.at = "idle" =>
          Balanced(count.received, count.dropped, count.processed + 1, count.silent, Len(queue),
                   Cardinality(Busy'), ReaderHolds)
    <3> SUFFICES ASSUME r.at = "idle"
                 PROVE  Balanced(count.received, count.dropped, count.processed + 1, count.silent,
                                 Len(queue), Cardinality(Busy'), ReaderHolds)
      BY Zenon
    <3>1. PICK c \in Nat : c = Cardinality(Busy') /\ Cardinality(Busy) = c + 1
      BY Zenon, <1>11
    <3>2. Balanced(count.received, count.dropped, count.processed, count.silent, Len(queue),
                   c + 1, ReaderHolds)
      BY Zenon, <2>2, <3>1
    <3>3. Balanced(count.received, count.dropped, count.processed + 1, count.silent, Len(queue),
                   c, ReaderHolds)
      BY Zenon, <1>6, <1>10, <2>1, <3>1, <3>2, BalanceWork
    <3> QED
      BY Zenon, <3>1, <3>3
  <2> QED
    BY Zenon, <1>2, <1>7, <1>11, <1>12, <2>2, <2>3 DEF CountExact
<1> QED
  BY Zenon, <1>8, <1>13, <1>14, <1>15 DEF PacketIInv

\* A worker finds the channel closed and drained.
LEMMA WorkerEndsInv ==
  ASSUME PacketIInv, NEW w \in Workers, WorkerEnds(w)
  PROVE  PacketIInv'
<1>1. /\ IntakeTypes /\ OrderInv /\ QueueExact /\ CountExact
  BY DEF PacketIInv
<1>2. PICK r : r = [worker[w] EXCEPT !.at = "done"]
  BY Zenon
<1>3. /\ UNCHANGED <<scenario, reader, queue, packetBytes, closer, closeDone, count>>
      /\ worker[w].at = "idle" /\ queue = <<>> /\ reader.at = "done"
      /\ worker' = [worker EXCEPT ![w] = r]
  BY Zenon, <1>1, <1>2 DEF WorkerEnds, IntakeTypes
<1>4. WorkerOK(r) /\ r.at = "done"
  <2>1. IsWorker(worker[w])
    BY Zenon, <1>1 DEF IntakeTypes, WorkerOK
  <2>2. WorkerSets(worker[w], "done", 0, 0)
    BY Zenon, <2>1, SetWorker
  <2>3. r = [at |-> "done", packet |-> worker[w].packet, line |-> worker[w].line,
             now |-> worker[w].now]
    BY Zenon, <1>2, <2>2 DEF WorkerSets
  <2> QED
    BY Zenon, <2>3 DEF WorkerOK, IsWorker
<1>5. /\ worker' = [v \in Workers |-> worker'[v]] /\ worker'[w] = r
      /\ \A v \in Workers : v # w => worker'[v] = worker[v]
      /\ \A v \in Workers : WorkerOK(worker'[v])
  BY Zenon, <1>1, <1>3, <1>4, WorkerTypes
<1>6. IntakeTypes'
  BY Zenon, <1>1, <1>3, <1>5 DEF IntakeTypes
<1>7. TakenBytes' = TakenBytes /\ Busy' = Busy /\ QueueBytes' = QueueBytes
  BY ZenonT(40), <1>1, <1>3, <1>4, TakenStep, BusyStep, QueueFrame
<1>8. StopClosed' = StopClosed /\ ReaderBytes' = ReaderBytes /\ ReaderHolds' = ReaderHolds
  BY Zenon, <1>3 DEF StopClosed, ReaderBytes, ReaderHolds
<1>9. OrderInv'
  <2>1. ~closeDone
    BY Zenon, <1>1, <1>3 DEF OrderInv
  <2> QED
    BY Zenon, <1>1, <1>3, <1>7, <1>8, <2>1 DEF OrderInv
<1>10. QueueExact' /\ CountExact'
  BY Zenon, <1>1, <1>3, <1>7, <1>8 DEF QueueExact, CountExact
<1> QED
  BY Zenon, <1>6, <1>9, <1>10 DEF PacketIInv

\* The steps that leave the datagrams where they are.
LEMMA QuietInv ==
  ASSUME PacketIInv,
         UNCHANGED <<scenario, reader, queue, packetBytes, worker, count>>,
         StopClosed => StopClosed',
         closeDone' => closeDone \/ (reader.at = "done" /\ \A w \in Workers : worker[w].at = "done")
  PROVE  PacketIInv'
<1>1. /\ IntakeTypes /\ OrderInv /\ QueueExact /\ CountExact
  BY Zenon DEF PacketIInv
<1>2. TakenBytes' = TakenBytes /\ Busy' = Busy /\ QueueBytes' = QueueBytes
  BY Zenon, QueueFrame
<1>3. ReaderBytes' = ReaderBytes /\ ReaderHolds' = ReaderHolds
  BY Zenon DEF ReaderBytes, ReaderHolds
<1>4. IntakeTypes'
  BY Zenon, <1>1 DEF IntakeTypes
<1>5. OrderInv'
  BY Zenon, <1>1, <1>2 DEF OrderInv
<1>6. QueueExact' /\ CountExact'
  BY Zenon, <1>1, <1>2, <1>3 DEF QueueExact, CountExact
<1> QED
  BY ZenonT(40), <1>4, <1>5, <1>6 DEF PacketIInv

\* The deadline counts what is queued, once.
LEMMA DeadlineInv ==
  ASSUME PacketIInv, CloseDeadline
  PROVE  PacketIInv'
<1>1. /\ IntakeTypes /\ OrderInv /\ QueueExact /\ CountExact
  BY DEF PacketIInv
<1>2. /\ UNCHANGED <<scenario, reader, queue, packetBytes, worker, closeDone>>
      /\ count' = [count EXCEPT !.shutdownDropped =
                     IF count.deadline THEN count.shutdownDropped ELSE Len(queue),
                     !.deadline = TRUE]
      /\ StopClosed'
  BY Zenon DEF CloseDeadline, CloseReturned, StopClosed
<1>3. TakenBytes' = TakenBytes /\ Busy' = Busy /\ QueueBytes' = QueueBytes
  BY Zenon, <1>2, QueueFrame
<1>4. Len(queue) \in Nat /\ Cardinality(Busy) \in Nat
  BY Zenon, <1>1, SizesNat
<1>5. /\ count \in Counters /\ count.processed \in Nat /\ count.shutdownDropped \in Nat
  BY Zenon, <1>1, CountersNat DEF IntakeTypes
<1>6. /\ count' \in Counters
      /\ count'.received = count.received /\ count'.dropped = count.dropped
      /\ count'.processed = count.processed /\ count'.silent = count.silent
      /\ count'.shutdownDropped \in {count.shutdownDropped, Len(queue)}
  <2>1. PICK d \in Nat : /\ d = IF count.deadline THEN count.shutdownDropped ELSE Len(queue)
                         /\ d \in {count.shutdownDropped, Len(queue)}
    BY Zenon, <1>4, <1>5
  <2>2. PICK c : c = [count EXCEPT !.shutdownDropped = d]
    BY Zenon
  <2>3. /\ c \in Counters /\ c.received = count.received /\ c.dropped = count.dropped
        /\ c.processed = count.processed /\ c.silent = count.silent /\ c.shutdownDropped = d
    BY Zenon, <1>5, <2>2 DEF Counters
  <2>4. count' = [c EXCEPT !.deadline = TRUE]
    BY Zenon, <1>2, <2>1, <2>2
  <2>5. /\ count' \in Counters /\ count'.received = c.received /\ count'.dropped = c.dropped
        /\ count'.processed = c.processed /\ count'.silent = c.silent
        /\ count'.shutdownDropped = c.shutdownDropped
    BY Zenon, <2>3, <2>4 DEF Counters
  <2> QED
    BY Zenon, <2>1, <2>3, <2>5
<1>7. ReaderBytes' = ReaderBytes /\ ReaderHolds' = ReaderHolds
  BY Zenon, <1>2 DEF ReaderBytes, ReaderHolds
<1>8. IntakeTypes'
  BY Zenon, <1>1, <1>2, <1>6 DEF IntakeTypes
<1>9. OrderInv'
  <2>1. count.shutdownDropped <= count.processed + Len(queue) + Cardinality(Busy)
    BY Zenon, <1>1 DEF OrderInv
  <2>2. Len(queue) <= count.processed + Len(queue) + Cardinality(Busy)
    BY <1>4, <1>5
  <2>3. count'.shutdownDropped <= count'.processed + Len(queue) + Cardinality(Busy)
    BY Zenon, <1>6, <2>1, <2>2
  <2> QED
    BY Zenon, <1>1, <1>2, <1>3, <1>6, <2>3 DEF OrderInv
<1>10. QueueExact' /\ CountExact'
  BY Zenon, <1>1, <1>2, <1>3, <1>6, <1>7 DEF QueueExact, CountExact
<1> QED
  BY Zenon, <1>8, <1>9, <1>10 DEF PacketIInv

\* main in Close.
CloserOK == closer \in [at : {"open", "stopped", "waiting", "exited"}, returned : Nat]

\* main's place in Close is one of these.
LEMMA CloserStep ==
  ASSUME CloserOK, [Next]_vars
  PROVE  CloserOK'
<1>1. \/ closer' = closer
      \/ closer' = [closer EXCEPT !.at = "stopped"]
      \/ closer' = [closer EXCEPT !.at = "waiting"]
      \/ CloseReturned
  <2>1. CASE ReadLoop
    BY Zenon, <2>1 DEF ReadLoop, ReadDrops, Read, Refuse, Enqueue, StopInSelect, ReadEnds
  <2>2. ASSUME NEW w \in Workers, ParseLoop(w) PROVE closer' = closer
    BY Zenon, <2>2 DEF ParseLoop, Take, Release, SkipLine, LimitLine, AddLine, WorkerEnds
  <2>3. CASE Tick \/ FlushOnce \/ WaitReturns \/ UNCHANGED vars
    BY Zenon, <2>3 DEF Tick, FlushOnce, FlushStart, FlushReserve, FlushEnds, WaitReturns, vars
  <2>4. CASE Close
    BY Zenon, <2>4 DEF Close, CloseStop, CloseConn, CloseDrained, CloseDeadline
  <2> QED
    BY Zenon, <2>1, <2>2, <2>3, <2>4 DEF Next
<1> QED
  BY <1>1 DEF CloserOK, CloseReturned

\* Every step of the receiver, of the flush and of Close keeps the account.
LEMMA PacketStep ==
  ASSUME PacketIInv, CloserOK, [Next]_vars
  PROVE  PacketIInv'
<1>1. CASE ReadLoop
  BY Zenon, <1>1, ReadInv, GiveUpInv, EnqueueInv DEF ReadLoop
<1>2. ASSUME NEW w \in Workers, ParseLoop(w) PROVE PacketIInv'
  BY Zenon, <1>2, TakeInv, ReleaseInv, LineInv, WorkerEndsInv DEF ParseLoop
<1>3. CASE CloseDeadline
  BY Zenon, <1>3, DeadlineInv
<1>4. CASE Tick \/ FlushOnce \/ CloseStop \/ CloseConn \/ CloseDrained \/ WaitReturns
  <2>1. CASE Tick \/ FlushOnce
    <3>1. /\ UNCHANGED <<scenario, reader, queue, packetBytes, worker, count>>
          /\ UNCHANGED <<closer, closeDone>>
      BY Zenon, <2>1 DEF Tick, FlushOnce, FlushStart, FlushReserve, FlushEnds
    <3>2. (StopClosed => StopClosed') /\ (closeDone' => closeDone)
      BY Zenon, <3>1 DEF StopClosed
    <3> QED
      BY Zenon, <3>1, <3>2, QuietInv
  <2>2. CASE CloseStop \/ CloseConn \/ CloseDrained
    <3>1. /\ UNCHANGED <<scenario, reader, queue, packetBytes, worker, count>>
          /\ closeDone' = closeDone
      BY Zenon, <2>2 DEF CloseStop, CloseConn, CloseDrained
    <3>2. StopClosed => StopClosed'
      BY <2>2 DEF CloseStop, CloseConn, CloseDrained, CloseReturned, StopClosed, CloserOK
    <3>3. closeDone' => closeDone
      BY Zenon, <3>1
    <3> QED
      BY Zenon, <3>1, <3>2, <3>3, QuietInv
  <2>3. CASE WaitReturns
    <3>1. /\ UNCHANGED <<scenario, reader, queue, packetBytes, worker, count>>
          /\ closer' = closer
          /\ reader.at = "done" /\ \A w \in Workers : worker[w].at = "done"
      BY Zenon, <2>3 DEF WaitReturns
    <3>2. StopClosed => StopClosed'
      BY Zenon, <3>1 DEF StopClosed
    <3> QED
      BY Zenon, <3>1, <3>2, QuietInv
  <2> QED
    BY Zenon, <1>4, <2>1, <2>2, <2>3
<1>5. CASE UNCHANGED vars
  <2>1. /\ UNCHANGED <<scenario, reader, queue, packetBytes, worker, count>>
        /\ UNCHANGED <<closer, closeDone>>
    BY Zenon, <1>5 DEF vars
  <2>2. (StopClosed => StopClosed') /\ (closeDone' => closeDone)
    BY <2>1 DEF StopClosed
  <2> QED
    BY Zenon, <2>1, <2>2, QuietInv
<1> QED
  BY Zenon, <1>1, <1>2, <1>3, <1>4, <1>5 DEF Next, Close

\* The invariant of the packet queue holds in every state.
THEOREM PacketInvariant == Spec => []PacketIInv
<1>1. Init => CloserOK
  BY DEF Init, CloserOK
<1>2. Spec => []CloserOK
  BY PTL, <1>1, CloserStep DEF Spec
<1> QED
  BY PTL, <1>2, IntakeInitInv, PacketStep DEF Spec

\* For every number of workers, every queue and every limit: the byte counter
\* is exact at every moment, the queue stays within both limits, every datagram
\* is accounted for, a clean drain leaves none, and the deadline never reports
\* more than was queued (receiver.go:218-243, 268-345).
THEOREM PacketsAlwaysAccounted == Spec => []PacketsAccounted
BY PTL, PacketInvariant, PacketsAreAccounted

-----------------------------------------------------------------------------
(* The aggregator                                                          *)

\* Snapshot holds a window only between its two critical sections, and then
\* nothing is reserved.
FlushOK ==
  /\ flush = [at |-> flush.at, window |-> flush.window, bytes |-> flush.bytes, runs |-> flush.runs]
  /\ GoodWindow(flush.window) /\ flush.bytes = WindowBytes(flush.window)
  /\ flush.bytes <= MaxBytes /\ aggregator.inflightBytes <= MaxBytes
  /\ IF flush.at = "rotated" THEN aggregator.inflight = <<>> ELSE flush.window = <<>>

AggInv == AggOK(aggregator) /\ FlushOK

\* The invariant implies what the run checks.
LEMMA RetainedIsBounded ==
  ASSUME AggInv
  PROVE  AggregationBounded
<1>1. AggOK(aggregator) /\ FlushOK
  BY Zenon DEF AggInv
<1>2. PICK x \in Nat, y \in Nat, z \in Nat, b \in Nat, m \in Nat :
        /\ x = aggregator.activeBytes /\ y = aggregator.inflightBytes
        /\ z = aggregator.gaugeBytes /\ b = flush.bytes /\ m = MaxBytes
  <2>1. flush.bytes \in Nat
    BY Zenon, <1>1, WindowNat DEF FlushOK
  <2> QED
    BY Zenon, <1>1, <2>1, AggNat
<1>3. y = 0 \/ b = 0
  BY Zenon, <1>1, <1>2, NothingRetained DEF FlushOK, AggOK
<1>4. x + z <= m /\ y <= m /\ b <= m
  BY Zenon, <1>1, <1>2 DEF FlushOK, AggOK
<1>5. y + b <= m /\ x + y + z + b <= 2 * m
  BY <1>3, <1>4
<1>6. TotalBytes(aggregator) + flush.bytes <= 2 * MaxBytes
  BY Zenon, <1>2, <1>5 DEF TotalBytes
<1>7. aggregator.inflightBytes + flush.bytes <= MaxBytes
  BY Zenon, <1>2, <1>5
<1>8. aggregator.gaugeBytes = Total([s \in DOMAIN aggregator.gauges |-> BaselineBytes[s]])
  BY Zenon, <1>1 DEF AggOK, GaugeSizes
<1> QED
  BY Zenon, <1>1, <1>6, <1>7, <1>8 DEF AggregationBounded, AggOK, FlushOK

\* Nothing is retained before the first line.
LEMMA AggInit == Init => AggInv
<1> SUFFICES ASSUME Init PROVE AggInv
  OBVIOUS
<1>1. aggregator = Agg(<<>>, 0, <<>>, 0, <<>>, 0, Never)
  BY Zenon DEF Init, NewAggregator, Agg
<1>2. /\ aggregator.series = <<>> /\ aggregator.activeBytes = 0 /\ aggregator.inflight = <<>>
      /\ aggregator.inflightBytes = 0 /\ aggregator.gauges = <<>> /\ aggregator.gaugeBytes = 0
      /\ aggregator.lastGaugePrune = Never
  BY Zenon, <1>1 DEF Agg
<1>3. IsAgg(aggregator)
  BY Zenon, <1>1, <1>2 DEF IsAgg
<1>4. DOMAIN <<>> = {} /\ 0 + 0 <= MaxBytes /\ 0 <= MaxBytes
  BY AggregationAssumption
<1>5. AggOK(aggregator)
  BY Zenon, <1>2, <1>3, <1>4, NothingRetained DEF AggOK
<1>6. flush = [at |-> "idle", window |-> <<>>, bytes |-> 0, runs |-> 0]
  BY Zenon DEF Init
<1>7. FlushOK
  BY Zenon, <1>2, <1>4, <1>6, NothingRetained DEF FlushOK
<1> QED
  BY ZenonT(40), <1>5, <1>7 DEF AggInv

\* A worker adds a line to the aggregator.
LEMMA AddLineOK ==
  ASSUME AggInv, PacketIInv, NEW w \in Workers, AddLine(w)
  PROVE  AggInv'
<1>1. /\ worker[w].at = "add" /\ flush' = flush
      /\ aggregator' = Add(aggregator, Line(w).series, Line(w).value, worker[w].now)
  BY Zenon DEF AddLine
<1>2. Line(w).series \in Series
  <2>1. /\ worker[w].packet \in Packets
        /\ worker[w].line \in 1 .. Len(LinesOf[worker[w].packet])
    BY Zenon, <1>1 DEF PacketIInv, IntakeTypes, WorkerOK
  <2> QED
    BY Zenon, <2>1, IntakeAssumption DEF Line
<1>3. AggOK(aggregator') /\ SameReserved(aggregator, aggregator')
  BY Zenon, <1>1, <1>2, AddOK DEF AggInv
<1>4. FlushOK'
  BY Zenon, <1>1, <1>3 DEF AggInv, FlushOK, SameReserved
<1> QED
  BY Zenon, <1>3, <1>4 DEF AggInv

\* Snapshot takes the window, or finds one reserved already.
LEMMA FlushStartOK ==
  ASSUME AggInv, FlushStart
  PROVE  AggInv'
<1>1. AggOK(aggregator) /\ FlushOK /\ flush.at = "idle"
  BY Zenon DEF AggInv, FlushStart
<1>2. PICK r : r = flush.runs + 1
  BY Zenon
<1>3. CASE aggregator.inflight # <<>>
  <2>1. /\ flush' = [flush EXCEPT !.at = "put", !.runs = @ + 1] /\ aggregator' = aggregator
    BY Zenon, <1>3 DEF FlushStart
  <2>2. PICK f : f = [flush EXCEPT !.at = "put"]
    BY Zenon
  <2>3. f = [at |-> "put", window |-> flush.window, bytes |-> flush.bytes, runs |-> flush.runs]
    <3>1. PICK c, d, e, g : c = flush.at /\ d = flush.window /\ e = flush.bytes /\ g = flush.runs
      BY Zenon
    <3>2. flush = [at |-> c, window |-> d, bytes |-> e, runs |-> g]
      BY Zenon, <1>1, <3>1 DEF FlushOK
    <3>3. f = [at |-> "put", window |-> d, bytes |-> e, runs |-> g]
      BY Zenon, <2>2, <3>2
    <3> QED
      BY Zenon, <3>1, <3>3
  <2>4. flush' = [f EXCEPT !.runs = @ + 1]
    BY Zenon, <2>1, <2>2
  <2>5. flush' = [at |-> "put", window |-> flush.window, bytes |-> flush.bytes, runs |-> r]
    BY Zenon, <1>2, <2>3, <2>4
  <2>6. flush.window = <<>>
    BY Zenon, <1>1 DEF FlushOK
  <2>7. /\ flush'.at = "put" /\ flush'.window = flush.window /\ flush'.bytes = flush.bytes
        /\ flush'.runs = r
    BY Zenon, <2>5
  <2>8. FlushOK'
    BY Zenon, <1>1, <2>1, <2>5, <2>6, <2>7 DEF FlushOK
  <2> QED
    BY Zenon, <1>1, <2>1, <2>8 DEF AggInv
<1>4. CASE aggregator.inflight = <<>>
  <2>1. /\ flush' = [at |-> "rotated", window |-> aggregator.series,
                     bytes |-> aggregator.activeBytes, runs |-> r]
        /\ aggregator' = [aggregator EXCEPT !.series = <<>>, !.activeBytes = 0]
    BY Zenon, <1>2, <1>4 DEF FlushStart, Rotate
  <2>2. aggregator' = Agg(<<>>, 0, aggregator.inflight, aggregator.inflightBytes,
                          aggregator.gauges, aggregator.gaugeBytes, aggregator.lastGaugePrune)
    <3>1. AggSets(aggregator, <<>>, 0, 0)
      BY Zenon, <1>1, SetAgg DEF AggOK
    <3> QED
      BY Zenon, <2>1, <3>1 DEF AggSets
  <2>3. /\ GoodWindow(aggregator.series) /\ aggregator.activeBytes = WindowBytes(aggregator.series)
        /\ GoodGauges(DOMAIN aggregator.gauges)
        /\ aggregator.gaugeBytes = Total(GaugeSizes(DOMAIN aggregator.gauges))
        /\ aggregator.activeBytes + aggregator.gaugeBytes <= MaxBytes
    BY Zenon, <1>1 DEF AggOK
  <2>4. 0 + aggregator.gaugeBytes <= MaxBytes /\ aggregator.activeBytes <= MaxBytes
    <3>1. PICK x \in Nat, z \in Nat, m \in Nat :
            x = aggregator.activeBytes /\ z = aggregator.gaugeBytes /\ m = MaxBytes
      BY Zenon, <1>1, AggNat
    <3>2. x + z <= m
      BY Zenon, <2>3, <3>1
    <3>3. 0 + z <= m /\ x <= m
      BY <3>2
    <3> QED
      BY Zenon, <3>1, <3>3
  <2>5. AggOK(aggregator')
    <3>1. GoodWindow(<<>>) /\ 0 = WindowBytes(<<>>)
      BY Zenon, NothingRetained
    <3> QED
      BY Zenon, <1>1, <2>2, <2>3, <2>4, <3>1, RebuiltOK
  <2>6. /\ aggregator'.inflight = aggregator.inflight
        /\ aggregator'.inflightBytes = aggregator.inflightBytes
    BY Zenon, <2>2 DEF Agg
  <2>7. /\ flush'.at = "rotated" /\ flush'.window = aggregator.series
        /\ flush'.bytes = aggregator.activeBytes /\ flush'.runs = r
    BY Zenon, <2>1
  <2>8. FlushOK'
    BY Zenon, <1>1, <1>4, <2>1, <2>3, <2>4, <2>6, <2>7 DEF FlushOK
  <2> QED
    BY Zenon, <2>5, <2>8 DEF AggInv
<1> QED
  BY Zenon, <1>3, <1>4

\* Snapshot reserves the window; the spool answers and it is committed or kept.
LEMMA FlushRestOK ==
  ASSUME AggInv, FlushReserve \/ \E ok \in BOOLEAN : FlushEnds(ok)
  PROVE  AggInv'
<1>1. AggOK(aggregator) /\ FlushOK
  BY Zenon DEF AggInv
<1>2. PICK c, d, e, g : c = flush.at /\ d = flush.window /\ e = flush.bytes /\ g = flush.runs
  BY Zenon
<1>3. flush = [at |-> c, window |-> d, bytes |-> e, runs |-> g]
  BY Zenon, <1>1, <1>2 DEF FlushOK
<1>4. 0 <= MaxBytes
  BY AggregationAssumption
<1>5. CASE FlushReserve
  <2>1. /\ flush.at = "rotated"
        /\ aggregator' = Reserved(aggregator, flush.window, flush.bytes)
        /\ flush' = [flush EXCEPT !.at = IF flush.window = <<>> THEN "idle" ELSE "put",
                                  !.window = <<>>, !.bytes = 0]
    BY Zenon, <1>5 DEF FlushReserve
  <2>2. GoodWindow(flush.window) /\ flush.bytes = WindowBytes(flush.window)
    BY Zenon, <1>1 DEF FlushOK
  <2>3. /\ AggOK(aggregator') /\ aggregator'.inflightBytes = flush.bytes
    BY ZenonT(40), <1>1, <2>1, <2>2, ReservedOK
  <2>4. PICK p \in {"idle", "put"} : p = IF flush.window = <<>> THEN "idle" ELSE "put"
    OBVIOUS
  <2>5. flush' = [at |-> p, window |-> <<>>, bytes |-> 0, runs |-> g]
    <3>1. PICK f : f = [flush EXCEPT !.at = p]
      BY Zenon
    <3>2. PICK h : h = [f EXCEPT !.window = <<>>]
      BY Zenon
    <3>3. f = [at |-> p, window |-> d, bytes |-> e, runs |-> g]
      BY Zenon, <1>3, <3>1
    <3>4. h = [at |-> p, window |-> <<>>, bytes |-> e, runs |-> g]
      BY Zenon, <3>2, <3>3
    <3>5. flush' = [h EXCEPT !.bytes = 0]
      BY ZenonT(40), <2>1, <2>4, <3>1, <3>2
    <3> QED
      BY Zenon, <3>4, <3>5
  <2>6. flush'.at = p /\ flush'.window = <<>> /\ flush'.bytes = 0 /\ flush'.runs = g /\ p # "rotated"
    BY Zenon, <2>4, <2>5
  <2>7. FlushOK'
    BY Zenon, <1>1, <1>4, <2>3, <2>5, <2>6, NothingRetained DEF FlushOK
  <2> QED
    BY Zenon, <2>3, <2>7 DEF AggInv
<1>6. CASE \E ok \in BOOLEAN : FlushEnds(ok)
  <2>1. /\ flush.at = "put"
        /\ \/ aggregator' = aggregator
           \/ aggregator' = Reserved(aggregator, <<>>, 0)
        /\ flush' = [flush EXCEPT !.at = "idle"]
    BY Zenon, <1>6 DEF FlushEnds, Commit, Reserved
  <2>2. AggOK(aggregator') /\ aggregator'.inflightBytes <= MaxBytes
    <3>1. GoodWindow(<<>>) /\ 0 = WindowBytes(<<>>)
      BY Zenon, NothingRetained
    <3>2. CASE aggregator' = aggregator
      BY Zenon, <1>1, <3>2 DEF FlushOK
    <3>3. CASE aggregator' = Reserved(aggregator, <<>>, 0)
      BY Zenon, <1>1, <1>4, <3>1, <3>3, ReservedOK
    <3> QED
      BY Zenon, <2>1, <3>2, <3>3
  <2>3. flush' = [at |-> "idle", window |-> d, bytes |-> e, runs |-> g]
    BY Zenon, <1>3, <2>1
  <2>4. flush'.at = "idle" /\ flush'.window = d /\ flush'.bytes = e /\ flush'.runs = g
    BY Zenon, <2>3
  <2>5. d = <<>>
    BY Zenon, <1>1, <1>2, <2>1 DEF FlushOK
  <2>6. FlushOK'
    BY Zenon, <1>1, <1>2, <2>2, <2>3, <2>4, <2>5 DEF FlushOK
  <2> QED
    BY Zenon, <2>2, <2>6 DEF AggInv
<1> QED
  BY Zenon, <1>5, <1>6

\* Every step keeps the aggregator's account.
LEMMA AggStep ==
  ASSUME AggInv, PacketIInv, [Next]_vars
  PROVE  AggInv'
<1>1. CASE UNCHANGED <<aggregator, flush>>
  BY Zenon, <1>1 DEF AggInv, FlushOK
<1>2. CASE ReadLoop
  <2>1. UNCHANGED <<aggregator, flush>>
    BY Zenon, <1>2 DEF ReadLoop, ReadDrops, Read, Refuse, Enqueue, StopInSelect, ReadEnds
  <2> QED
    BY Zenon, <1>1, <2>1
<1>3. ASSUME NEW w \in Workers, ParseLoop(w) PROVE AggInv'
  <2>1. CASE Take(w) \/ Release(w) \/ SkipLine(w) \/ LimitLine(w) \/ WorkerEnds(w)
    <3>1. UNCHANGED <<aggregator, flush>>
      BY Zenon, <2>1 DEF Take, Release, SkipLine, LimitLine, WorkerEnds
    <3> QED
      BY Zenon, <1>1, <3>1
  <2> QED
    BY Zenon, <1>3, <2>1, AddLineOK DEF ParseLoop
<1>4. CASE Tick \/ Close \/ WaitReturns \/ UNCHANGED vars
  <2>1. UNCHANGED <<aggregator, flush>>
    BY Zenon, <1>4 DEF Tick, Close, CloseStop, CloseConn, CloseDrained, CloseDeadline, WaitReturns, vars
  <2> QED
    BY Zenon, <1>1, <2>1
<1>5. CASE FlushOnce
  BY Zenon, <1>5, FlushStartOK, FlushRestOK DEF FlushOnce
<1> QED
  BY Zenon, <1>2, <1>3, <1>4, <1>5 DEF Next

\* For all sizes of states, baselines and members, and whatever order the
\* workers, the clock and the flush take their steps in: the three byte
\* counters are the sizes of what is retained, and the limits hold
\* (aggregator.go:93-330).
THEOREM AggregationAlwaysBounded == Spec => []AggregationBounded
<1>1. Spec => []PacketIInv
  BY Zenon, PacketInvariant
<1>2. Spec => []AggInv
  BY PTL, <1>1, AggInit, AggStep DEF Spec
<1> QED
  BY PTL, <1>2, RetainedIsBounded
=============================================================================
