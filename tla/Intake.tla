------------------------------- MODULE Intake -------------------------------
(***************************************************************************)
(* The DogStatsD receiver of dogstatsd/receiver.go with what its workers   *)
(* share: the packet queue and its byte counter, the series limiter, the   *)
(* aggregator, and the flush of the pipeline that empties the aggregator.  *)
(*                                                                         *)
(* Actors: readLoop, the parse workers, the pipeline goroutine, and main,  *)
(* which calls Close twice (main.go:319 and the deferred call at :270).    *)
(* A channel operation, an atomic addition and a critical section are one  *)
(* step each.  Metrics other than those the properties count, and the      *)
(* saturation observer, are left out: no step of the data path reads them. *)
(***************************************************************************)
EXTENDS Aggregation, Sequences

CONSTANTS
  Workers,
  Packets,          \* the datagrams that applications send
  NoPacket,         \* a value outside Packets
  BytesOf,          \* the length of each
  LinesOf,          \* its lines, each a [series, value]
  PacketQueueSize,
  PacketQueueMaxBytes,
  Scenarios         \* bounds: what a behaviour may contain (see scenario)

\* validate refuses a receiver without workers (types.go:65); a datagram has at
\* least one line.
ASSUME IntakeAssumption ==
  /\ IsFiniteSet(Workers) /\ Workers # {}
  /\ BytesOf \in [Packets -> Nat]
  /\ \A p \in Packets :
       Len(LinesOf[p]) \in Nat \ {0} /\ \A i \in 1 .. Len(LinesOf[p]) : LinesOf[p][i].series \in Series
  /\ PacketQueueSize \in Nat /\ PacketQueueMaxBytes \in Nat
  /\ \A s \in Scenarios : s.packets \subseteq Packets

VARIABLES
  scenario,         \* bound: the datagrams that arrive and how many, the number
                    \* of flushes, the last clock reading, whether main stops
  clock,
  reader,           \* readLoop: "read", "select" or "done", and its packet
  queue,            \* Receiver.packets
  packetBytes,      \* Receiver.packetBytes
  worker,           \* parseLoop of each worker
  limiter,          \* Receiver.limiter
  aggregator,       \* Receiver.aggregator
  flush,            \* FlushOnce, with Snapshot's locals
  closer,           \* main in Close: its place, and how many calls returned
  closeDone,        \* Receiver.closeDone is closed
  count             \* history: what became of the datagrams

vars == <<scenario, clock, reader, queue, packetBytes, worker, limiter, aggregator, flush,
          closer, closeDone, count>>

Idle == [at |-> "idle", packet |-> NoPacket, line |-> 0, now |-> Never]

Init ==
  /\ scenario \in Scenarios
  /\ clock = 1
  /\ reader = [at |-> "read", packet |-> NoPacket]
  /\ queue = <<>>
  /\ packetBytes = 0
  /\ worker = [w \in Workers |-> Idle]
  /\ limiter = NewSeriesLimiter
  /\ aggregator = NewAggregator
  /\ flush = [at |-> "idle", window |-> <<>>, bytes |-> 0, runs |-> 0]
  /\ closer = [at |-> "open", returned |-> 0]
  /\ closeDone = FALSE
  /\ count = [received |-> 0, dropped |-> 0, processed |-> 0, silent |-> 0,
              shutdownDropped |-> 0, deadline |-> FALSE]

Running == closer.at # "exited"
StopClosed == closer.at # "open"
ConnClosed == closer.at \notin {"open", "stopped"}

Tick ==
  /\ Running
  /\ clock < scenario.clock
  /\ clock' = clock + 1
  /\ UNCHANGED <<scenario, reader, queue, packetBytes, worker, limiter, aggregator,
                 flush, closer, closeDone, count>>

-----------------------------------------------------------------------------
(* readLoop                                                                *)

\* A datagram from an untrusted source, too long or over the byte rate.
ReadDrops ==
  /\ Running /\ ~ConnClosed
  /\ reader.at = "read"
  /\ count.received < scenario.received
  /\ count' = [count EXCEPT !.received = @ + 1, !.dropped = @ + 1]
  /\ UNCHANGED <<scenario, clock, reader, queue, packetBytes, worker, limiter, aggregator,
                 flush, closer, closeDone>>

\* Mutant of Read: the bytes of a refused datagram stay counted.
ReadKeepsBytes(p) ==
  /\ Running /\ ~ConnClosed
  /\ reader.at = "read"
  /\ count.received < scenario.received
  /\ packetBytes' = packetBytes + BytesOf[p]
  /\ IF packetBytes + BytesOf[p] > PacketQueueMaxBytes
     THEN /\ count' = [count EXCEPT !.received = @ + 1, !.dropped = @ + 1]
          /\ UNCHANGED reader
     ELSE /\ reader' = [at |-> "select", packet |-> p]
          /\ count' = [count EXCEPT !.received = @ + 1]
  /\ UNCHANGED <<scenario, clock, queue, worker, limiter, aggregator, flush, closer, closeDone>>

\* The bytes are added, and taken off again if they are too many.
Read(p) ==
  /\ Running /\ ~ConnClosed
  /\ reader.at = "read"
  /\ count.received < scenario.received
  /\ packetBytes' = packetBytes + BytesOf[p]
  /\ reader' = [at |-> IF packetBytes' > PacketQueueMaxBytes THEN "refuse" ELSE "select",
                packet |-> p]
  /\ count' = [count EXCEPT !.received = @ + 1]
  /\ UNCHANGED <<scenario, clock, queue, worker, limiter, aggregator, flush, closer, closeDone>>

\* packet_queue_bytes, or the default branch of the select: packet_queue_full.
Refuse ==
  /\ Running
  /\ \/ reader.at = "refuse"
     \/ reader.at = "select" /\ Len(queue) = PacketQueueSize /\ ~StopClosed
  /\ packetBytes' = packetBytes - BytesOf[reader.packet]
  /\ reader' = [at |-> "read", packet |-> NoPacket]
  /\ count' = [count EXCEPT !.dropped = @ + 1]
  /\ UNCHANGED <<scenario, clock, queue, worker, limiter, aggregator, flush, closer, closeDone>>

Enqueue ==
  /\ Running
  /\ reader.at = "select" /\ Len(queue) < PacketQueueSize
  /\ queue' = Append(queue, reader.packet)
  /\ reader' = [at |-> "read", packet |-> NoPacket]
  /\ UNCHANGED <<scenario, clock, packetBytes, worker, limiter, aggregator, flush, closer,
                 closeDone, count>>

\* Mutant of StopInSelect: this return leaves the channel open.
StopInSelectLeavesOpen ==
  /\ Running
  /\ reader.at = "select" /\ StopClosed
  /\ packetBytes' = packetBytes - BytesOf[reader.packet]
  /\ reader' = [at |-> "left", packet |-> NoPacket]
  /\ count' = [count EXCEPT !.silent = @ + 1]
  /\ UNCHANGED <<scenario, clock, queue, worker, limiter, aggregator, flush, closer, closeDone>>

\* The select may take its stop branch although the queue has room.
StopInSelect ==
  /\ Running
  /\ reader.at = "select" /\ StopClosed
  /\ packetBytes' = packetBytes - BytesOf[reader.packet]
  /\ reader' = [at |-> "done", packet |-> NoPacket]
  /\ count' = [count EXCEPT !.silent = @ + 1]
  /\ UNCHANGED <<scenario, clock, queue, worker, limiter, aggregator, flush, closer, closeDone>>

\* The read fails: the socket is closed, or stop is when it fails otherwise.
ReadEnds ==
  /\ Running
  /\ reader.at = "read" /\ StopClosed
  /\ reader' = [at |-> "done", packet |-> NoPacket]
  /\ UNCHANGED <<scenario, clock, queue, packetBytes, worker, limiter, aggregator, flush,
                 closer, closeDone, count>>

-----------------------------------------------------------------------------
(* parseLoop and processPacket                                             *)

Take(w) ==
  /\ Running
  /\ worker[w].at = "idle" /\ queue # <<>>
  /\ queue' = Tail(queue)
  /\ worker' = [worker EXCEPT ![w] = [Idle EXCEPT !.at = "taken", !.packet = Head(queue)]]
  /\ UNCHANGED <<scenario, clock, reader, packetBytes, limiter, aggregator, flush, closer,
                 closeDone, count>>

\* The bytes are released, and processPacket reads the clock.
Release(w) ==
  /\ Running
  /\ worker[w].at = "taken"
  /\ packetBytes' = packetBytes - BytesOf[worker[w].packet]
  /\ worker' = [worker EXCEPT ![w].at = "line", ![w].line = 1, ![w].now = clock]
  /\ UNCHANGED <<scenario, clock, reader, queue, limiter, aggregator, flush, closer, closeDone,
                 count>>

Line(w) == LinesOf[worker[w].packet][worker[w].line]

\* The worker goes on with the next line, or with the next packet.
NextLine(w) ==
  IF worker[w].line < Len(LinesOf[worker[w].packet])
  THEN /\ worker' = [worker EXCEPT ![w].at = "line", ![w].line = @ + 1]
       /\ UNCHANGED count
  ELSE /\ worker' = [worker EXCEPT ![w] = Idle]
       /\ count' = [count EXCEPT !.processed = @ + 1]

\* The line is blank, over the event rate, does not parse or cannot be mapped.
SkipLine(w) ==
  /\ Running
  /\ worker[w].at = "line"
  /\ NextLine(w)
  /\ UNCHANGED <<scenario, clock, reader, queue, packetBytes, limiter, aggregator, flush,
                 closer, closeDone>>

LimitLine(w) ==
  /\ Running
  /\ worker[w].at = "line"
  /\ limiter' = Allow(limiter, Line(w).series, worker[w].now)
  /\ IF Allowed(limiter, Line(w).series, worker[w].now)
     THEN worker' = [worker EXCEPT ![w].at = "add"] /\ UNCHANGED count
     ELSE NextLine(w)
  /\ UNCHANGED <<scenario, clock, reader, queue, packetBytes, aggregator, flush, closer, closeDone>>

AddLine(w) ==
  /\ Running
  /\ worker[w].at = "add"
  /\ aggregator' = Add(aggregator, Line(w).series, Line(w).value, worker[w].now)
  /\ NextLine(w)
  /\ UNCHANGED <<scenario, clock, reader, queue, packetBytes, limiter, flush, closer, closeDone>>

\* The channel is closed by readLoop's return and drained.
WorkerEnds(w) ==
  /\ Running
  /\ worker[w].at = "idle" /\ queue = <<>> /\ reader.at = "done"
  /\ worker' = [worker EXCEPT ![w].at = "done"]
  /\ UNCHANGED <<scenario, clock, reader, queue, packetBytes, limiter, aggregator, flush,
                 closer, closeDone, count>>

-----------------------------------------------------------------------------
(* FlushOnce on the aggregator: Snapshot, the spool's answer, Commit       *)

FlushStart ==
  /\ Running
  /\ flush.at = "idle" /\ flush.runs < scenario.flushes
  /\ IF aggregator.inflight # <<>>
     THEN flush' = [flush EXCEPT !.at = "put", !.runs = @ + 1] /\ UNCHANGED aggregator
     ELSE /\ flush' = [at |-> "rotated", window |-> aggregator.series,
                       bytes |-> aggregator.activeBytes, runs |-> flush.runs + 1]
          /\ aggregator' = Rotate(aggregator)
  /\ UNCHANGED <<scenario, clock, reader, queue, packetBytes, worker, limiter, closer,
                 closeDone, count>>

FlushReserve ==
  /\ Running
  /\ flush.at = "rotated"
  /\ aggregator' = Reserved(aggregator, flush.window, flush.bytes)
  /\ flush' = [flush EXCEPT !.at = IF flush.window = <<>> THEN "idle" ELSE "put",
                            !.window = <<>>, !.bytes = 0]
  /\ UNCHANGED <<scenario, clock, reader, queue, packetBytes, worker, limiter, closer,
                 closeDone, count>>

\* The spool keeps the batch, and the window is committed; or it fails.
FlushEnds(ok) ==
  /\ Running
  /\ flush.at = "put"
  /\ aggregator' = IF ok THEN Commit(aggregator) ELSE aggregator
  /\ flush' = [flush EXCEPT !.at = "idle"]
  /\ UNCHANGED <<scenario, clock, reader, queue, packetBytes, worker, limiter, closer,
                 closeDone, count>>

-----------------------------------------------------------------------------
(* CloseContext, which main calls twice; only the first call closes        *)

CloseStop ==
  /\ closer.at = "open" /\ scenario.stops
  /\ closer' = [closer EXCEPT !.at = "stopped"]
  /\ UNCHANGED <<scenario, clock, reader, queue, packetBytes, worker, limiter, aggregator,
                 flush, closeDone, count>>

CloseConn ==
  /\ closer.at = "stopped"
  /\ closer' = [closer EXCEPT !.at = "waiting"]
  /\ UNCHANGED <<scenario, clock, reader, queue, packetBytes, worker, limiter, aggregator,
                 flush, closeDone, count>>

\* The goroutine that waits for readLoop and the workers.
WaitReturns ==
  /\ closer.at = "waiting" /\ ~closeDone
  /\ reader.at = "done"
  /\ \A w \in Workers : worker[w].at = "done"
  /\ closeDone' = TRUE
  /\ UNCHANGED <<scenario, clock, reader, queue, packetBytes, worker, limiter, aggregator,
                 flush, closer, count>>

CloseReturned ==
  closer' = [at |-> IF closer.returned = 0 THEN "waiting" ELSE "exited",
             returned |-> closer.returned + 1]

CloseDrained ==
  /\ closer.at = "waiting" /\ closeDone
  /\ CloseReturned
  /\ UNCHANGED <<scenario, clock, reader, queue, packetBytes, worker, limiter, aggregator,
                 flush, closeDone, count>>

\* The deadline; shutdownDropOnce lets the first one count what is queued.
CloseDeadline ==
  /\ closer.at = "waiting"
  /\ CloseReturned
  /\ count' = [count EXCEPT !.shutdownDropped =
                 IF count.deadline THEN @ ELSE Len(queue), !.deadline = TRUE]
  /\ UNCHANGED <<scenario, clock, reader, queue, packetBytes, worker, limiter, aggregator,
                 flush, closeDone>>

-----------------------------------------------------------------------------
ReadLoop ==
  ReadDrops \/ (\E p \in scenario.packets : Read(p)) \/ Refuse \/ Enqueue \/ StopInSelect \/ ReadEnds

ParseLoop(w) ==
  Take(w) \/ Release(w) \/ SkipLine(w) \/ LimitLine(w) \/ AddLine(w) \/ WorkerEnds(w)

FlushOnce == FlushStart \/ FlushReserve \/ \E ok \in BOOLEAN : FlushEnds(ok)

Close == CloseStop \/ CloseConn \/ CloseDrained \/ CloseDeadline

Next ==
  \/ Tick
  \/ ReadLoop
  \/ \E w \in Workers : ParseLoop(w)
  \/ FlushOnce
  \/ Close
  \/ WaitReturns

Spec == Init /\ [][Next]_vars

\* The goroutines keep running, and a read of a closed socket returns.  The
\* clock, the network, the flush ticker and the deadline owe nothing.
Fairness ==
  /\ WF_vars(Refuse) /\ WF_vars(Enqueue \/ StopInSelect)
  /\ WF_vars(ConnClosed /\ ReadEnds)
  /\ \A w \in Workers : WF_vars(ParseLoop(w))
  /\ WF_vars(CloseConn) /\ WF_vars(WaitReturns)

LiveSpec == Spec /\ Fairness

-----------------------------------------------------------------------------
QueueBytes == Total([i \in 1 .. Len(queue) |-> BytesOf[queue[i]]])

TakenBytes ==
  Total([w \in {w \in Workers : worker[w].at = "taken"} |-> BytesOf[worker[w].packet]])

Busy == {w \in Workers : worker[w].at \notin {"idle", "done"}}

ReaderBytes == IF reader.at \in {"refuse", "select"} THEN BytesOf[reader.packet] ELSE 0

(* readLoop raises and the workers lower packetBytes without a lock, yet it *)
(* always is the bytes of the datagrams between the two, and the queue     *)
(* never holds more than PacketQueueMaxBytes (receiver.go:317-335, 342).   *)
QueueExact ==
  /\ packetBytes = QueueBytes + TakenBytes + ReaderBytes
  /\ QueueBytes + TakenBytes <= PacketQueueMaxBytes
  /\ Len(queue) <= PacketQueueSize

(* QueueExact, and every datagram read is dropped with a reason, waits, is *)
(* in somebody's hands or has been processed; the one exception is a       *)
(* datagram that meets the stop signal in the select (receiver.go:328), at *)
(* most one.  When Close reports a clean drain nothing waits any more, and *)
(* what the deadline counted as dropped is no more than had been queued.   *)
PacketsAccounted ==
  /\ QueueExact
  /\ count.received = count.dropped + count.processed + count.silent + Len(queue)
                      + Cardinality(Busy)
                      + (IF reader.at \in {"refuse", "select"} THEN 1 ELSE 0)
  /\ count.silent <= IF StopClosed THEN 1 ELSE 0
  /\ closeDone => queue = <<>> /\ Busy = {} /\ packetBytes = 0
  /\ count.shutdownDropped <= count.received - count.dropped - count.silent

(* Whatever order the workers' clock readings reach the limiter in, its    *)
(* counter is the number of tracked series and both caps hold              *)
(* (safeguards.go:110-164).                                                *)
LimiterExact == Exact(limiter)

(* The three byte counters are the sizes of what is retained.  The active  *)
(* window and the baselines stay within MaxBytes, so does the window being *)
(* flushed, and all together within twice MaxBytes: while Snapshot encodes *)
(* (aggregator.go:252-275) the rotated window is in neither counter.       *)
AggregationBounded ==
  /\ aggregator.activeBytes = WindowBytes(aggregator.series)
  /\ aggregator.inflightBytes = WindowBytes(aggregator.inflight)
  /\ flush.bytes = WindowBytes(flush.window)
  /\ aggregator.gaugeBytes =
       Total([s \in DOMAIN aggregator.gauges |-> BaselineBytes[s]])
  /\ aggregator.activeBytes + aggregator.gaugeBytes <= MaxBytes
  /\ aggregator.inflightBytes + flush.bytes <= MaxBytes
  /\ TotalBytes(aggregator) + flush.bytes <= 2 * MaxBytes

(* Once stop is closed and unless the process ends first, readLoop closes  *)
(* the channel, the workers drain it and closeDone is closed               *)
(* (receiver.go:218-231, 283-284, 340-341).                                *)
DrainCompletes == StopClosed ~> (closeDone \/ closer.at = "exited")
=============================================================================
