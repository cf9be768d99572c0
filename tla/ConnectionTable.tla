--------------------------- MODULE ConnectionTable ---------------------------
(***************************************************************************)
(* The outbound connections of a container: the tables of                  *)
(* containers/container.go and the handlers that read and change them, run *)
(* by the goroutine of Registry.handleEvents and by the gc goroutine of    *)
(* the container, under the container's lock.                              *)
(*                                                                         *)
(* An *ActiveConnection is an index into conns, the heap.  A destination   *)
(* key is a remote address: what resolves it further (conntrack, DNS) is a *)
(* function of the address here.  Bytes stand for either direction.        *)
(***************************************************************************)
EXTENDS BpfMaps

CONSTANTS
  TableCids,  \* [pid, fd]: the descriptors of the processes
  Addresses,  \* local addresses
  Remotes,    \* remote addresses
  Skipped,    \* the remote addresses the filters skip
  Stamps,     \* timestamps of connections
  MaxConns,   \* bound: connections ever entered
  MaxFailed,  \* bound: failed attempts counted
  MaxSent,    \* bound: bytes of a connection in an event
  MaxCounted  \* bound: bytes counted for a connection

ASSUME TableAssumption == MaxSent \in Nat

VARIABLES
  processes,                \* the pids of c.processes
  conns,                    \* the heap of ActiveConnections
  activeConnections,
  connectionsByPidFd,
  connectionStats,
  failedConnectionAttempts,
  lastConnectionAttempts,   \* its keys: the time is that of a step
  closing,                  \* the close event between the two critical
                            \* sections of onConnectionClose, at most one
  stray                     \* history: bytes were counted for a connection
                            \* that is no longer in activeConnections

byKeyVars == <<activeConnections, connectionsByPidFd>>
statVars == <<connectionStats, failedConnectionAttempts, lastConnectionAttempts>>
tableVars == <<processes, conns, byKeyVars, statVars, closing, stray>>

TablePids == {c.pid : c \in TableCids}
ConnKeys == [src : Addresses, dst : Remotes]
Ids == 1..MaxConns

\* counted is history: what updateConnectionTrafficStats added for it.
Conn == [cid : TableCids, key : ConnKeys, timestamp : Stamps, closed : BOOLEAN, sent : Nat,
         counted : Nat]
Stats == [count : Nat, sent : Nat]
Closing == [id : Ids, sent : Nat]

Rng(f) == {f[x] : x \in DOMAIN f}
Dst(id) == conns[id].key.dst
StatsOf(dst) == IF dst \in DOMAIN connectionStats THEN connectionStats[dst]
                ELSE [count |-> 0, sent |-> 0]
FailedOf(dst) == IF dst \in DOMAIN failedConnectionAttempts THEN failedConnectionAttempts[dst] ELSE 0

TableInit ==
  /\ processes = {}
  /\ conns = EmptyMap
  /\ activeConnections = EmptyMap
  /\ connectionsByPidFd = EmptyMap
  /\ connectionStats = EmptyMap
  /\ failedConnectionAttempts = EmptyMap
  /\ lastConnectionAttempts = {}
  /\ closing = {}
  /\ stray = FALSE

-----------------------------------------------------------------------------
(* The event handlers                                                      *)

\* onProcessStart, when the statistics of the process can be read.
onProcessStart(pid) ==
  /\ closing = {}
  /\ processes' = processes \cup {pid}
  /\ UNCHANGED <<conns, byKeyVars, statVars, closing, stray>>

\* onProcessExit: the connections of the process stay until a gc.
onProcessExit(pid) ==
  /\ closing = {}
  /\ pid \in processes
  /\ processes' = processes \ {pid}
  /\ UNCHANGED <<conns, byKeyVars, statVars, closing, stray>>

Ignored(cid, dst) == cid.pid \notin processes \/ dst \in Skipped

\* The connection a descriptor had is marked closed.
ClosePrevious(cid) ==
  [i \in DOMAIN conns |-> IF cid \in DOMAIN connectionsByPidFd /\ i = connectionsByPidFd[cid]
                          THEN [conns[i] EXCEPT !.closed = TRUE] ELSE conns[i]]

\* Mutant: addresses that are in the table keep their connection.
EnterKeyOnce(key, id) == UpdateNoExist(activeConnections, key, id)

\* A connection takes the place of an earlier one with its addresses.
EnterKey(key, id) == Update(activeConnections, key, id)

\* A connection is entered: onConnectionOpen with failed = false.
EnterConnection(id, cid, src, dst, ts) ==
  LET key == [src |-> src, dst |-> dst] IN
  /\ id \notin DOMAIN conns
  /\ 1..(id - 1) \subseteq DOMAIN conns
  /\ conns' = Update(ClosePrevious(cid), id,
       [cid |-> cid, key |-> key, timestamp |-> ts, closed |-> FALSE, sent |-> 0, counted |-> 0])
  /\ activeConnections' = EnterKey(key, id)
  /\ connectionsByPidFd' = Update(connectionsByPidFd, cid, id)
  /\ connectionStats' = Update(connectionStats, dst, [StatsOf(dst) EXCEPT !.count = @ + 1])
  /\ lastConnectionAttempts' = lastConnectionAttempts \cup {dst}
  /\ UNCHANGED failedConnectionAttempts

\* A failed attempt is counted: onConnectionOpen with failed = true.
CountFailure(dst) ==
  /\ FailedOf(dst) < MaxFailed
  /\ failedConnectionAttempts' = Update(failedConnectionAttempts, dst, FailedOf(dst) + 1)
  /\ lastConnectionAttempts' = lastConnectionAttempts \cup {dst}
  /\ UNCHANGED <<conns, byKeyVars, connectionStats>>

onConnectionOpen(cid, src, dst, ts, failed) ==
  /\ closing = {}
  /\ \/ Ignored(cid, dst) /\ UNCHANGED <<conns, byKeyVars, statVars>>
     \/ ~Ignored(cid, dst) /\ failed /\ CountFailure(dst)
     \/ ~Ignored(cid, dst) /\ ~failed /\ \E id \in Ids : EnterConnection(id, cid, src, dst, ts)
  /\ UNCHANGED <<processes, closing, stray>>

\* Mutant: what was counted before is counted again.
MoreThanAll(id, sent) == sent

\* What a count adds to the one before it.
MoreThan(id, sent) == IF sent > conns[id].sent THEN sent - conns[id].sent ELSE 0

\* updateConnectionTrafficStats; closed is the value of conn.Closed after it.
AddTraffic(id, sent, closed) ==
  LET more == MoreThan(id, sent) IN
  /\ conns[id].counted + more <= MaxCounted
  /\ connectionStats' = Update(connectionStats, Dst(id), [StatsOf(Dst(id)) EXCEPT !.sent = @ + more])
  /\ conns' = Update(conns, id, [conns[id] EXCEPT !.sent = sent, !.closed = closed,
                                                 !.counted = conns[id].counted + more])
  /\ stray' = (stray \/ id \notin Rng(activeConnections))
  /\ UNCHANGED <<processes, byKeyVars, failedConnectionAttempts, lastConnectionAttempts>>

\* Mutant: a close event is taken for the connection its descriptor has now.
CloseMatchesAny(cid, ts) == cid \in DOMAIN connectionsByPidFd

\* The connection a close event is about is the one its descriptor had at the
\* time: the timestamps agree.
CloseMatches(cid, ts) ==
  /\ cid \in DOMAIN connectionsByPidFd
  /\ LET conn == conns[connectionsByPidFd[cid]] IN conn.timestamp = 0 \/ conn.timestamp = ts

\* onConnectionClose, to the first Unlock and the test of conn.Closed.
onConnectionClose(cid, ts, sent) ==
  /\ closing = {}
  /\ closing' = IF CloseMatches(cid, ts) /\ ~conns[connectionsByPidFd[cid]].closed
                THEN {[id |-> connectionsByPidFd[cid], sent |-> sent]} ELSE {}
  /\ UNCHANGED <<processes, conns, byKeyVars, statVars, stray>>

\* The rest of onConnectionClose: the byte counts, then conn.Closed.
CloseConnection ==
  /\ \E x \in closing : AddTraffic(x.id, x.sent, TRUE)
  /\ closing' = {}

\* updateTrafficStats: an update names a descriptor, not a connection.
updateTrafficStats(cid, sent) ==
  /\ closing = {}
  /\ IF cid \in DOMAIN connectionsByPidFd
     THEN LET id == connectionsByPidFd[cid] IN AddTraffic(id, sent, conns[id].closed)
     ELSE UNCHANGED <<processes, conns, byKeyVars, statVars, stray>>
  /\ UNCHANGED closing

\* Mutant: a request is counted for the connection its descriptor has now.
L7DestinationAny(cid, ts) ==
  {Dst(id) : id \in {i \in DOMAIN conns : /\ cid \in DOMAIN connectionsByPidFd
                                          /\ i = connectionsByPidFd[cid]}}

\* The destination onL7Request counts a request for, if any.
L7Destination(cid, ts) ==
  {Dst(id) : id \in {i \in DOMAIN conns : /\ cid \in DOMAIN connectionsByPidFd
                                          /\ i = connectionsByPidFd[cid]
                                          /\ ts = 0 \/ conns[i].timestamp = ts}}

-----------------------------------------------------------------------------
(* The gc goroutine                                                        *)

\* The keys gc deletes: the connections that are not established any more, and
\* those of them that were closed longer than gcInterval ago.
Outdated(established, old) ==
  {k \in DOMAIN activeConnections :
     k \notin established \/ (conns[activeConnections[k]].closed /\ activeConnections[k] \in old)}

\* Mutant: the descriptor of a deleted connection is forgotten, whoever has it.
DeleteByPidFdAlways(keys) ==
  DeleteAll(connectionsByPidFd, {conns[activeConnections[k]].cid : k \in keys})

\* A descriptor is forgotten with its connection, not with an earlier one of it.
DeleteByPidFd(keys) ==
  DeleteAll(connectionsByPidFd,
    {c \in DOMAIN connectionsByPidFd : \E k \in keys : connectionsByPidFd[c] = activeConnections[k]})

\* Mutant: a destination that is still connected is forgotten.
DeadAnyway(established, oldDsts) == lastConnectionAttempts \cap oldDsts

\* The destinations to forget: not attempted for gcInterval, and not connected.
Dead(established, oldDsts) ==
  (lastConnectionAttempts \cap oldDsts) \ {k.dst : k \in DOMAIN activeConnections \cap established}

\* connectionStats without some destinations
StatsWithout(dead) == DeleteAll(connectionStats, dead)

\* gc: established is what /proc lists (nothing, when it cannot be read), old the
\* connections closed, and oldDsts the destinations last attempted, longer than
\* gcInterval ago.
gc(established, old, oldDsts) ==
  LET keys == Outdated(established, old)
      dead == Dead(established, oldDsts)
  IN /\ activeConnections' = DeleteAll(activeConnections, keys)
     /\ connectionsByPidFd' = DeleteByPidFd(keys)
     /\ lastConnectionAttempts' = lastConnectionAttempts \ dead
     /\ failedConnectionAttempts' = DeleteAll(failedConnectionAttempts, dead)
     /\ connectionStats' = StatsWithout(dead)
     /\ UNCHANGED <<processes, conns, closing, stray>>

-----------------------------------------------------------------------------
TableNext ==
  \/ \E pid \in TablePids : onProcessStart(pid) \/ onProcessExit(pid)
  \/ \E cid \in TableCids, src \in Addresses, dst \in Remotes, ts \in Stamps, failed \in BOOLEAN :
       onConnectionOpen(cid, src, dst, ts, failed)
  \/ \E cid \in TableCids, ts \in Stamps, sent \in 0..MaxSent : onConnectionClose(cid, ts, sent)
  \/ CloseConnection
  \/ \E cid \in TableCids, sent \in 0..MaxSent : updateTrafficStats(cid, sent)
  \/ \E established \in SUBSET ConnKeys, old \in SUBSET DOMAIN conns,
        oldDsts \in SUBSET lastConnectionAttempts : gc(established, old, oldDsts)

TableSpec == TableInit /\ [][TableNext]_tableVars

-----------------------------------------------------------------------------
(* Properties                                                              *)

\* The type of the tables.
TableTypeOK ==
  /\ processes \subseteq TablePids
  /\ IsMap(conns, Ids, Conn)
  /\ IsMap(activeConnections, ConnKeys, DOMAIN conns)
  /\ IsMap(connectionsByPidFd, TableCids, DOMAIN conns)
  /\ IsMap(connectionStats, Remotes, Stats)
  /\ IsMap(failedConnectionAttempts, Remotes, Nat)
  /\ lastConnectionAttempts \subseteq Remotes
  /\ \A x \in closing : x \in Closing /\ x.id \in DOMAIN conns
  /\ stray \in BOOLEAN

\* An open connection is found through its descriptor, so that its close, its
\* traffic and its requests reach it: whatever the order of the events, and
\* although gc deletes from both tables while descriptors are reused.
OpenIsReachable ==
  \A k \in DOMAIN activeConnections :
    LET id == activeConnections[k] IN
    ~conns[id].closed => /\ conns[id].cid \in DOMAIN connectionsByPidFd
                         /\ connectionsByPidFd[conns[id].cid] = id

\* A destination with a connection is one gc knows of: its statistics and its
\* connections are deleted, but never under a connection.
DestinationsKnown ==
  \A k \in DOMAIN activeConnections : k.dst \in lastConnectionAttempts

\* Statistics can be deleted: gc finds them through lastConnectionAttempts, and
\* what it does not find stays for good.  Only bytes counted for a connection
\* gc has deleted, or whose addresses another one has taken, can leave any.
StatsExpire ==
  ~stray => /\ DOMAIN connectionStats \subseteq lastConnectionAttempts
            /\ DOMAIN failedConnectionAttempts \subseteq lastConnectionAttempts

\* gc deletes a destination and all there is about it together, and only without
\* a connection to it.
StatsConsistent == DestinationsKnown /\ StatsExpire
=============================================================================
