------------------------- MODULE ConnectionTracking -------------------------
(***************************************************************************)
(* The tracking of connections from the kernel to the metrics: the eBPF    *)
(* programs (ConnectionProbes), the perf buffers between them and the      *)
(* agent, the scraper that reads active_connections, and the tables of the *)
(* container (ConnectionTable).                                            *)
(*                                                                         *)
(* A perf buffer belongs to a CPU and drops what it has no room for; one   *)
(* goroutine reads the buffers of all CPUs.  The events of a thread that   *)
(* moves between CPUs may be read in any order.                            *)
(***************************************************************************)
EXTENDS ConnectionProbes, ConnectionTable, Sequences, SequencesExt

CONSTANTS
  Scenarios  \* the surroundings to look at, see scenario

VARIABLES
  scenario,  \* what surrounds the agent, chosen once: what the buffers do
             \* (faults, a part of {"loss", "reorder"}), whether gcInterval
             \* passes between two steps (aging), whether the metrics are
             \* collected (scraped), whether a write is a request the tracer
             \* recognises (requests), and whom the programs talk to (peers)
  buffered,  \* the events nobody has read yet
  update,    \* the entry of active_connections the scraper is sending, at most one
  written,   \* history: the bytes written on each connection
  l7Counted, \* history: the requests counted, with the destination
  l7Sent     \* the requests reported, read at any time

agentVars == <<tableVars, buffered, update, l7Counted, l7Sent>>
trackingVars == <<probeVars, agentVars, written, scenario>>

-----------------------------------------------------------------------------
(* The kernel                                                              *)

\* A step of the probes; what it reports goes to a buffer, or is lost.
Probe ==
  /\ ProbesNext
  /\ \A t \in Threads : InCall(t, "connect")' => syscall'[t].dst \in scenario.peers
  /\ \/ buffered' = buffered \o SetToSeq(events' \ events)
     \/ "loss" \in scenario.faults /\ events' # events /\ UNCHANGED buffered
  /\ UNCHANGED <<tableVars, update, written, l7Counted, l7Sent, scenario>>

\* A write on a connected socket: the bytes trace_enter_write counts, and the
\* event of a request when it has a response.
Transfer(c) ==
  /\ Serving(c)
  /\ written[sockets[fds[c]].attempt] < MaxSent
  /\ written' = [written EXCEPT ![sockets[fds[c]].attempt] = @ + 1]
  /\ active_connections' = IF c \in DOMAIN active_connections
       THEN [active_connections EXCEPT ![c].sent = @ + 1] ELSE active_connections
  /\ l7Sent' = IF scenario.requests /\ c \in DOMAIN active_connections
       THEN l7Sent \cup {[cid |-> c, timestamp |-> active_connections[c].timestamp]} ELSE l7Sent
  /\ UNCHANGED <<kernelVars, fd_by_pid_tgid, connection_id_by_socket, active_l7_requests,
                 clock, events, attempts, tableVars, buffered, update, l7Counted, scenario>>

-----------------------------------------------------------------------------
(* handleEvents                                                            *)

Handle(e) ==
  CASE e.type = "open"  -> onConnectionOpen(e.cid, e.src, e.dst, e.timestamp, FALSE)
    [] e.type = "error" -> onConnectionOpen(e.cid, e.src, e.dst, 0, TRUE)
    [] e.type = "close" -> onConnectionClose(e.cid, e.timestamp, e.sent)

HandleEvent(i) ==
  /\ "reorder" \notin scenario.faults => i = 1
  /\ Handle(buffered[i])
  /\ buffered' = RemoveAt(buffered, i)
  /\ UNCHANGED <<probeVars, update, written, l7Counted, l7Sent, scenario>>

HandleL7(r) ==
  /\ closing = {}
  /\ l7Counted' = l7Counted \cup {[timestamp |-> r.timestamp, dst |-> dst] :
                                    dst \in L7Destination(r.cid, r.timestamp)}
  /\ UNCHANGED <<probeVars, tableVars, buffered, update, written, l7Sent, scenario>>

\* The events of process start and exit: the agent learns of a process at some
\* time, and of its end after its descriptors are gone.
HandleProcess(pid) ==
  /\ \/ pid \notin processes /\ onProcessStart(pid)
     \/ (\A c \in Cids : c.pid = pid => fds[c] = None) /\ onProcessExit(pid)
  /\ UNCHANGED <<probeVars, buffered, update, written, l7Counted, l7Sent, scenario>>

\* The scraper reads an entry of active_connections and blocks on the channel
\* until handleEvents takes it.
ReadUpdate(c) ==
  /\ scenario.scraped
  /\ update = {}
  /\ c \in DOMAIN active_connections
  /\ update' = {[cid |-> c, sent |-> active_connections[c].sent]}
  /\ UNCHANGED <<probeVars, tableVars, buffered, written, l7Counted, l7Sent, scenario>>

HandleUpdate ==
  /\ \E u \in update : updateTrafficStats(u.cid, u.sent)
  /\ update' = {}
  /\ UNCHANGED <<probeVars, buffered, written, l7Counted, l7Sent, scenario>>

FinishClose ==
  /\ CloseConnection
  /\ UNCHANGED <<probeVars, buffered, update, written, l7Counted, l7Sent, scenario>>

\* What /proc/<pid>/net/tcp lists as established.
Listed == {[src |-> sockets[sk].src, dst |-> sockets[sk].dst] :
             sk \in {s \in Allocated : InState(s, "ESTABLISHED") /\ IsTcp(s)}}

\* Mutant: without a process gc does nothing.
RunGcWithProcess ==
  /\ processes # {}
  /\ \E old \in SUBSET DOMAIN conns, oldDsts \in SUBSET lastConnectionAttempts :
       /\ ~scenario.aging => old = {} /\ oldDsts = {}
       /\ gc(Listed, old, oldDsts)
  /\ UNCHANGED <<probeVars, buffered, update, written, l7Counted, l7Sent, scenario>>

\* Without a process gc lists no sockets.
RunGc ==
  /\ \E old \in SUBSET DOMAIN conns, oldDsts \in SUBSET lastConnectionAttempts :
       /\ ~scenario.aging => old = {} /\ oldDsts = {}
       /\ gc(IF processes = {} THEN {} ELSE Listed, old, oldDsts)
  /\ UNCHANGED <<probeVars, buffered, update, written, l7Counted, l7Sent, scenario>>

-----------------------------------------------------------------------------
TrackingInit ==
  /\ scenario \in Scenarios
  /\ ProbesInit
  /\ TableInit
  /\ buffered = <<>>
  /\ update = {}
  /\ written = [ts \in 1..MaxTime |-> 0]
  /\ l7Counted = {}
  /\ l7Sent = {}

TrackingNext ==
  \/ Probe
  \/ \E c \in Cids : Transfer(c) \/ ReadUpdate(c)
  \/ \E i \in DOMAIN buffered : HandleEvent(i)
  \/ \E r \in l7Sent : HandleL7(r)
  \/ \E pid \in Pids : HandleProcess(pid)
  \/ HandleUpdate
  \/ FinishClose
  \/ RunGc

TrackingSpec == TrackingInit /\ [][TrackingNext]_trackingVars

-----------------------------------------------------------------------------
(* Properties                                                              *)

\* The attempts that used a descriptor number.
Users(cid) == {ts \in DOMAIN attempts : attempts[ts].cid = cid}

\* A connection whose open event was handled stays one of the active ones while
\* its descriptor serves it, in both tables: late close events are told apart
\* by their timestamp, a reused descriptor closes the connection before it, and
\* gc keeps what is established.  It takes the events in their order.
LiveIsActive ==
  "reorder" \notin scenario.faults =>
  \A c \in Cids, id \in DOMAIN conns :
    Serving(c) /\ Alone(c) /\ conns[id].timestamp = sockets[fds[c]].attempt =>
      /\ ~conns[id].closed
      /\ c \in DOMAIN connectionsByPidFd /\ connectionsByPidFd[c] = id
      /\ conns[id].key \in DOMAIN activeConnections /\ activeConnections[conns[id].key] = id

\* The bytes counted for a connection are bytes written on it, and once its close
\* event is handled they are all of them, when no other connection had its
\* descriptor number: updates and the close event carry totals, are handled in
\* any order, an update read before the close after it, and each byte is counted
\* once.
TrafficCounted ==
  \A id \in DOMAIN conns :
    LET conn == conns[id] IN
    Users(conn.cid) = {conn.timestamp} =>
      /\ conn.counted <= written[conn.timestamp]
      /\ conn.closed => conn.counted = written[conn.timestamp]

\* A connection that still has its descriptor and is held as closed was reported
\* closed: a close event that is read late, after the open event of the next
\* connection of the descriptor, does not close that one.
CloseIsOwn ==
  \A c \in DOMAIN connectionsByPidFd :
    LET conn == conns[connectionsByPidFd[c]] IN
    conn.closed => \E e \in events : e.type = "close" /\ e.timestamp = conn.timestamp

\* A request is counted for the destination of the connection it was sent on,
\* although its event is read from another buffer than those of the connection.
L7Attributed ==
  \A r \in l7Counted :
    LET a == attempts[r.timestamp] IN r.dst = a.dst \/ a.abandoned \/ a.contended

\* The agent forgets a connection that is no longer established.
GoneIsForgotten ==
  \A k \in ConnKeys : <>[](k \notin Listed) => <>[](k \notin DOMAIN activeConnections)
=============================================================================
