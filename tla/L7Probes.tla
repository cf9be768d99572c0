------------------------------ MODULE L7Probes ------------------------------
(***************************************************************************)
(* The request-tracing programs of ebpftracer/ebpf/l7: l7.c on the write   *)
(* and read system calls of tracked connections, openssl.c and gotls.c on  *)
(* the calls of the TLS libraries around them.                             *)
(*                                                                         *)
(* A payload is what the recognisers of the protocols make of it, and the  *)
(* protocols are grouped by how trace_exit_read pairs their responses:     *)
(*   "http"       HTTP, Postgres, Redis, Memcached, MySQL, Dubbo2: the     *)
(*                first read after the request is the response or ends it  *)
(*   "mongo"      MongoDB, ZooKeeper: a read of the length alone is part   *)
(*                of the response                                          *)
(*   "clickhouse" the request stays until a response is recognised         *)
(*   "fdb"        FoundationDB: a read of the connect packet alone leaves  *)
(*                the request where it is                                  *)
(*   "kafka"      the response names its request                           *)
(*   "stream"     Cassandra, DNS: requests are kept apart by a stream      *)
(*   "oneway"     RabbitMQ, NATS, HTTP/2 frames, the closing of a prepared *)
(*                statement: an event of its own                           *)
(*   "unknown"    anything else, the bytes of a TLS record among it        *)
(*                                                                         *)
(* The two programs of a TLS call, at the library and at the system call,  *)
(* run one after the other in one thread: they are one step here.          *)
(***************************************************************************)
EXTENDS ConnectionProbes, Sequences

CONSTANTS
  Kinds,        \* the kinds of request the programs send
  Streams,      \* the streams of the "stream" protocols
  TlsPeers,     \* the peers the programs talk TLS to
  ReadCalls,    \* a part of {"read", "readv"}
  MaxRequests,  \* bound: requests ever sent
  MaxPushes,    \* bound: reads of a connection after which its peer sends
                \* nothing of its own accord any more
  Scenarios     \* the programs to look at, see scenario

VARIABLES
  active_reads,  \* the reads in progress, by thread and is_tls
  reading,       \* kernel: the descriptor each thread reads from, and how
  asked,         \* kernel: the requests the peer of a socket has not answered
  wire,          \* kernel: what the peer of a socket sent and nobody read yet
  l7_events,     \* everything written to the l7_events buffers
  requests,      \* history: the requests sent, by number
  answered,      \* history: the requests whose response was read to its end
                 \* while the descriptor was open
  traffic,       \* history: the bytes of each connection
  mixed,         \* history: connections counted bytes of another socket, or the
                 \* buffers of a vectored read
  scenario       \* what the programs do, chosen once: the kinds of request they
                 \* send, the calls they read with, the peers they connect to, and
                 \* how often they connect

l7KernelVars == <<reading, asked, wire>>
l7Vars == <<active_reads, l7KernelVars, l7_events, requests, answered, traffic, mixed, scenario>>
vars == <<probeVars, l7Vars>>

Request == [kind : Kinds, stream : Streams \cup {-1}, attempt : 1..MaxTime]
Segment == [id : 0..MaxRequests, part : {"all", "first", "rest"}]
L7Event == [cid : Cids, timestamp : 1..MaxTime, req : 0..MaxRequests, answers : 0..MaxRequests,
            part : {"all", "first", "rest"}]

Tls(sk) == sockets[sk].dst \in TlsPeers
Key(cid, tls, stream) == [cid |-> cid, is_tls |-> tls, stream |-> stream]
KindOf(id) == IF id = 0 THEN "oneway" ELSE requests[id].kind
Connected(c) == fds[c] # None /\ InState(fds[c], "ESTABLISHED") /\ IsTcp(fds[c])
Readable(c) == Connected(c) \/ (fds[c] # None /\ InState(fds[c], "CLOSE_WAIT"))

-----------------------------------------------------------------------------
(* trace_enter_write                                                       *)

\* A request is entered in the map unless its key is taken (BPF_NOEXIST).
AfterWrite(map, cid, id, kind, tls, stream) ==
  IF kind \in {"oneway", "unknown"} THEN map
  ELSE UpdateNoExist(map, Key(cid, tls, stream), [id |-> id, kind |-> kind, partial |-> FALSE])

\* The bytes are counted at the system call, not at the library call.
CountSent(cid) ==
  active_connections' = IF cid \in DOMAIN active_connections
                        THEN [active_connections EXCEPT ![cid].sent = @ + 1]
                        ELSE active_connections

\* A program sends a request of one kind.  It has no connect call under way on the
\* socket, and no second request other than of a protocol with streams.
Write(t, fd, kind, stream) ==
  LET cid == Cid(t, fd)
      sk == fds[cid]
      tls == Tls(sk)
      id == Cardinality(DOMAIN requests) + 1
      tracked == cid \in DOMAIN active_connections
  IN /\ syscall[t] = None
     /\ Connected(cid)
     /\ id <= MaxRequests
     /\ kind \in scenario.kinds
     /\ \A u \in Threads : InCall(u, "connect") => syscall[u].sk # sk
     /\ (stream # -1) <=> (kind = "stream")
     /\ \A r \in asked[sk] \cup {wire[sk][i].id : i \in DOMAIN wire[sk]} :
          r # 0 => requests[r].stream # -1 /\ stream \notin {-1, requests[r].stream}
     /\ requests' = Update(requests, id, [kind |-> kind, stream |-> stream,
                                          attempt |-> sockets[sk].attempt])
     /\ asked' = IF kind \in {"oneway", "unknown"} THEN asked
                 ELSE [asked EXCEPT ![sk] = @ \cup {id}]
     /\ traffic' = [traffic EXCEPT ![sockets[sk].attempt].sent = @ + 1]
     /\ CountSent(cid)
     /\ active_l7_requests' = IF tracked
          THEN AfterWrite(active_l7_requests, cid, id, kind, tls, stream)
          ELSE active_l7_requests
     /\ l7_events' = IF tracked /\ kind = "oneway"
          THEN l7_events \cup {[cid |-> cid, timestamp |-> active_connections[cid].timestamp,
                                req |-> id, answers |-> id, part |-> "all"]}
          ELSE l7_events
     /\ UNCHANGED <<kernelVars, fd_by_pid_tgid, connection_id_by_socket, clock, events, attempts,
                    active_reads, reading, wire, answered, mixed, scenario>>

-----------------------------------------------------------------------------
(* The peer                                                                *)

\* The peer answers a request, in one segment or in two.
Answer(sk, id, parts) ==
  /\ InState(sk, "ESTABLISHED")
  /\ id \in asked[sk]
  /\ asked' = [asked EXCEPT ![sk] = @ \ {id}]
  /\ wire' = [wire EXCEPT ![sk] = @ \o [i \in DOMAIN parts |-> [id |-> id, part |-> parts[i]]]]
  /\ UNCHANGED <<probeVars, active_reads, reading, l7_events, requests, answered, traffic, mixed, scenario>>

\* The peer sends something of its own accord: a message, a frame.
Push(sk) ==
  /\ InState(sk, "ESTABLISHED")
  /\ "oneway" \in scenario.kinds
  /\ traffic[sockets[sk].attempt].received < MaxPushes
  /\ \A i \in DOMAIN wire[sk] : wire[sk][i].id # 0
  /\ wire' = [wire EXCEPT ![sk] = Append(@, [id |-> 0, part |-> "all"])]
  /\ UNCHANGED <<probeVars, active_reads, reading, asked, l7_events, requests, answered, traffic, mixed, scenario>>

-----------------------------------------------------------------------------
(* trace_enter_read and trace_exit_read                                    *)

ReadIds(t, tls) == {<<t, FALSE>>, <<t, tls>>}

\* read(2), or SSL_read and the read(2) it makes.
EnterRead(t, fd, call) ==
  LET cid == Cid(t, fd)
      tls == Tls(fds[cid])
  IN
  /\ syscall[t] = None
  /\ Readable(cid)
  /\ syscall' = [syscall EXCEPT ![t] = [call |-> "read", sk |-> fds[cid], dst |-> None]]
  /\ reading' = [reading EXCEPT ![t] = [tls |-> tls, call |-> call]]
  /\ active_reads' = IF cid \in DOMAIN active_connections
       THEN [k \in DOMAIN active_reads \cup ReadIds(t, tls) |->
               IF k \in ReadIds(t, tls) THEN fd ELSE active_reads[k]]
       ELSE active_reads
  /\ UNCHANGED <<sockets, fds, mapVars, clock, events, attempts, asked, wire, l7_events,
                 requests, answered, traffic, mixed, scenario>>

\* Mutant: a response is matched with any request of its connection.
CandidatesAnyStream(map, cid, tls, stream) ==
  {k \in DOMAIN map : k.cid = cid /\ k.is_tls = tls}

\* The key of the request a read may be the response to: one without a stream,
\* or else one of the stream the response names.
Candidates(map, cid, tls, stream) ==
  LET plain == {Key(cid, tls, -1)} \cap DOMAIN map IN
  IF plain # {} THEN plain ELSE {Key(cid, tls, stream)} \cap DOMAIN map

\* What the recogniser of the request's protocol returns: 1 for a response, 0 for
\* something else, 2 for a part of a response.
Response(req, kind, id, part) ==
  CASE req.kind # kind -> 0
    [] kind = "http" -> IF part = "rest" THEN 0 ELSE 1
    [] kind = "mongo" -> IF part = "first" /\ ~req.partial THEN 2
                         ELSE IF (part = "rest") = req.partial THEN 1 ELSE 0
    [] kind = "clickhouse" -> IF part = "first" THEN 0 ELSE 1
    [] kind = "fdb" -> IF part = "first" THEN 2 ELSE 1
    [] kind = "kafka" -> IF req.id = id /\ part # "rest" THEN 1 ELSE 0
    [] kind = "stream" -> 1

\* Mutant: the length a first read returned is not remembered.
AfterReadForgets(map, k, kind, id, part) ==
  LET response == Response(map[k], kind, id, part) IN
  IF response = 2 \/ (response = 0 /\ map[k].kind = "clickhouse") THEN map
  ELSE Delete(map, k)

\* The map after a read with a candidate k: a partial response is remembered
\* (FoundationDB needs no memory of it), ClickHouse waits for the next read, every
\* other request is done.
AfterRead(map, k, kind, id, part) ==
  LET response == Response(map[k], kind, id, part) IN
  IF response = 2 THEN [map EXCEPT ![k].partial = (kind = "mongo")]
  ELSE IF response = 0 /\ map[k].kind = "clickhouse" THEN map
  ELSE Delete(map, k)

\* The program at the exit of a read of `part` of the response to `id`, as the
\* system call sees it (is_tls FALSE) and, for a TLS connection, as the library
\* does; the system call sees a record of an unknown kind then.
Seen(map, cid, is_tls, tls, id, part) ==
  LET kind == IF is_tls = tls THEN KindOf(id) ELSE "unknown"
      stream == IF kind = "stream" THEN requests[id].stream ELSE -1
      ks == Candidates(map, cid, is_tls, stream)
      k == CHOOSE x \in ks : TRUE
      ev == [cid |-> cid, timestamp |-> active_connections[cid].timestamp,
             req |-> IF kind = "oneway" THEN 0 ELSE map[k].id, answers |-> id, part |-> part]
  IN IF kind = "oneway" THEN [map |-> map, ev |-> {ev}]
     ELSE IF ks = {} THEN [map |-> map, ev |-> {}]
     ELSE [map |-> AfterRead(map, k, kind, id, part),
           ev |-> IF Response(map[k], kind, id, part) = 1 THEN {ev} ELSE {}]

\* Mutant: the bytes of a TLS connection are counted for the library call too.
CountReceivedTwice(tls, call) == IF tls THEN 2 ELSE 1

\* The bytes are counted at the system call; for a vectored read, the sizes of the
\* buffers (read_iovec), which hold one more than what was read here.
CountReceived(tls, call) == IF call = "readv" THEN 2 ELSE 1

\* A read of a segment returns.
ExitRead(t) ==
  LET sk == syscall[t].sk
      tls == reading[t].tls
      seg == Head(wire[sk])
      cid == Cid(t, active_reads[<<t, FALSE>>])
      traced == <<t, FALSE>> \in DOMAIN active_reads /\ cid \in DOMAIN active_connections
      plain == Seen(active_l7_requests, cid, FALSE, tls, seg.id, seg.part)
      both == IF tls THEN Seen(plain.map, cid, TRUE, tls, seg.id, seg.part) ELSE plain
      ts == active_connections[cid].timestamp
  IN /\ InCall(t, "read")
     /\ wire[sk] # <<>>
     /\ wire' = [wire EXCEPT ![sk] = Tail(@)]
     /\ LeaveCall(t)
     /\ reading' = [reading EXCEPT ![t] = None]
     /\ active_reads' = DeleteAll(active_reads, ReadIds(t, tls))
     /\ active_l7_requests' = IF traced THEN both.map ELSE active_l7_requests
     /\ l7_events' = IF traced THEN l7_events \cup plain.ev \cup both.ev ELSE l7_events
     /\ active_connections' = IF traced
          THEN [active_connections EXCEPT ![cid].received = @ + CountReceived(tls, reading[t].call)]
          ELSE active_connections
     /\ answered' = IF seg.part # "first" /\ seg.id # 0 /\ \E c \in Cids : fds[c] = sk
                    THEN answered \cup {seg.id} ELSE answered
     /\ traffic' = [traffic EXCEPT ![sockets[sk].attempt].received = @ + 1]
     /\ mixed' = IF traced /\ (ts # sockets[sk].attempt \/ reading[t].call = "readv") THEN mixed \cup {ts} ELSE mixed
     /\ UNCHANGED <<sockets, fds, fd_by_pid_tgid, connection_id_by_socket, clock, events, attempts,
                    asked, requests, scenario>>

\* A read returns nothing: an error, a signal, the end of the stream.
ExitReadEmpty(t) ==
  /\ InCall(t, "read")
  /\ LeaveCall(t)
  /\ reading' = [reading EXCEPT ![t] = None]
  /\ active_reads' = DeleteAll(active_reads, ReadIds(t, reading[t].tls))
  /\ UNCHANGED <<sockets, fds, mapVars, clock, events, attempts, asked, wire, l7_events,
                 requests, answered, traffic, mixed, scenario>>

-----------------------------------------------------------------------------
Init ==
  /\ ProbesInit
  /\ active_reads = EmptyMap
  /\ reading = [t \in Threads |-> None]
  /\ asked = [sk \in Sockets |-> {}]
  /\ wire = [sk \in Sockets |-> <<>>]
  /\ l7_events = {}
  /\ requests = EmptyMap
  /\ answered = {}
  /\ traffic = [ts \in 1..MaxTime |-> [sent |-> 0, received |-> 0]]
  /\ mixed = {}
  /\ scenario \in Scenarios

\* A step of the connections: a program calls connect on a new socket, and again
\* during the handshake, but not after it.  What the kernel holds for a socket
\* goes with it.
ConnectionStep ==
  /\ \/ \E t \in Threads, fd \in Fds, dst \in scenario.peers :
          /\ LET sk == fds[Cid(t, fd)] IN
             sk # None /\ (sockets[sk].attempt = 0 \/ sockets[sk].state = "SYN_SENT")
          /\ sys_enter_connect(t, fd, dst)
     \/ OtherCalls
     \/ Kernel
  /\ clock' <= scenario.connections
  /\ asked' = [sk \in Sockets |-> IF sockets'[sk] = None THEN {} ELSE asked[sk]]
  /\ wire' = [sk \in Sockets |-> IF sockets'[sk] = None THEN <<>> ELSE wire[sk]]
  /\ UNCHANGED <<active_reads, reading, l7_events, requests, answered, traffic, mixed, scenario>>

Next ==
  \/ ConnectionStep
  \/ \E t \in Threads, fd \in Fds, kind \in Kinds, stream \in Streams \cup {-1} :
       Write(t, fd, kind, stream)
  \/ \E sk \in Sockets, id \in 1..MaxRequests, parts \in {<<"all">>, <<"first", "rest">>} :
       Answer(sk, id, parts)
  \/ \E sk \in Sockets : Push(sk)
  \/ \E t \in Threads, fd \in Fds, call \in scenario.calls : EnterRead(t, fd, call)
  \/ \E t \in Threads : ExitRead(t) \/ ExitReadEmpty(t)

Spec == Init /\ [][Next]_vars

-----------------------------------------------------------------------------
(* Properties                                                              *)

\* The type of the maps and events of l7.c and of the history.
TypeOK ==
  /\ ProbesTypeOK
  /\ IsMap(active_l7_requests, RequestKeys,
           [id : 1..MaxRequests, kind : Kinds, partial : BOOLEAN])
  /\ IsMap(active_reads, Threads \X BOOLEAN, Fds)
  /\ reading \in [Threads -> [tls : BOOLEAN, call : ReadCalls] \cup {None}]
  /\ asked \in [Sockets -> SUBSET (1..MaxRequests)]
  /\ \A sk \in Sockets : \A i \in DOMAIN wire[sk] : wire[sk][i] \in Segment
  /\ l7_events \subseteq L7Event
  /\ IsMap(requests, 1..MaxRequests, Request)
  /\ answered \subseteq 1..MaxRequests
  /\ traffic \in [1..MaxTime -> [sent : Nat, received : Nat]]
  /\ mixed \subseteq 1..MaxTime

\* A request and the response its event pairs it with belong together when the
\* request was sent on the connection the event names: however the reads of the
\* response are split, whichever thread makes them, with TLS or without.
PairedInConnection ==
  \A e \in l7_events : e.req # 0 /\ requests[e.req].attempt = e.timestamp => e.req = e.answers

\* A request is reported at most once.
ReportedOnce ==
  \A e, f \in l7_events : e.req # 0 /\ e.req = f.req => e = f

\* A response is paired with its request, and with no other one (trace_exit_read
\* of l7.c); and the state has its type.
ResponsesPaired == TypeOK /\ PairedInConnection /\ ReportedOnce

\* The byte counters of a connection are what the program wrote and read on it,
\* with TLS (where a library call and a system call are traced) as without,
\* unless a read of another socket returned under its descriptor number, or one
\* was vectored: read_iovec adds up the sizes of the buffers.
BytesCounted ==
  \A c \in Cids : Serving(c) /\ Alone(c) /\ active_connections[c].timestamp \notin mixed =>
    LET real == traffic[sockets[fds[c]].attempt] IN
    active_connections[c].sent = real.sent /\ active_connections[c].received = real.received

\* A request of an earlier connection that was never answered may still have the
\* key of this one.
Crowded(id) == \E r \in DOMAIN requests \ answered : requests[r].attempt < requests[id].attempt

\* Every request whose response was read has its event, whose duration goes into
\* the "Histogram of the response time for each outbound HTTP request", unless an
\* earlier connection left a request behind.
EveryResponseTimed ==
  \A id \in answered : Crowded(id) \/ \E e \in l7_events : e.req = id /\ e.answers = id
=============================================================================
