-------------------------- MODULE ConnectionProbes --------------------------
(***************************************************************************)
(* The connection-tracking programs of ebpftracer/ebpf/tcp/state.c, run by *)
(* the kernel on the connect and close system calls and on every state     *)
(* change of a TCP socket.  A program is atomic here; what the kernel does *)
(* between two of them is not: connect(2) enters, changes the state of the *)
(* socket and returns, close(2) frees the descriptor first and releases    *)
(* the socket later, and the peer answers at any time.                     *)
(*                                                                         *)
(* bpf_ktime_get_ns grows between any two uses of it, so the timestamp of  *)
(* a connection identifies the attempt that made it.                       *)
(***************************************************************************)
EXTENDS BpfMaps

CONSTANTS
  Threads,   \* the threads of the traced processes
  Tgid,      \* the process of each thread
  Fds,       \* descriptor numbers
  Sockets,   \* addresses of struct sock, reused after a release
  Protos,    \* the protocols in use: a part of {"tcp", "udp"}
  Ports,     \* local addresses
  Peers,     \* remote addresses
  None,      \* no socket, no system call, no address
  MaxTime    \* bound: timestamps taken

VARIABLES
  sockets,   \* the kernel's sockets: None, or a record in Socket
  fds,       \* the descriptor tables: the socket each descriptor refers to
  syscall,   \* the system call each thread is in, and the socket it holds
  fd_by_pid_tgid,
  connection_id_by_socket,
  active_connections,
  active_l7_requests,
  clock,     \* the last timestamp taken
  events,    \* everything written to the tcp_connect_events buffers
  attempts   \* history: what each timestamp was taken for

kernelVars == <<sockets, fds, syscall>>
mapVars == <<fd_by_pid_tgid, connection_id_by_socket, active_connections,
             active_l7_requests>>
probeVars == <<kernelVars, mapVars, clock, events, attempts>>

Pids == {Tgid[t] : t \in Threads}
Cids == [pid : Pids, fd : Fds]
Cid(t, fd) == [pid |-> Tgid[t], fd |-> fd]

Socket == [state : {"CLOSE", "SYN_SENT", "ESTABLISHED", "CLOSE_WAIT"}, proto : Protos,
           src : Ports \cup {None}, dst : Peers \cup {None}, attempt : 0..MaxTime]

Syscall == [call : {"connect", "read", "fput"}, sk : Sockets, dst : Peers \cup {None}]

\* None is told from every socket, and from what is kept of a socket and a call.
ASSUME ProbesAssumption ==
  MaxTime \in Nat /\ None \notin Sockets /\ None \notin Socket /\ None \notin Syscall

Connection == [timestamp : 1..MaxTime, sent : Nat, received : Nat]

RequestKeys == [cid : Cids, is_tls : BOOLEAN, stream : Int]

\* The field `of` is history: the attempt of the socket the event is about.
Event == [type : {"open", "error", "close"}, cid : Cids, timestamp : 0..MaxTime,
          src : Ports \cup {None}, dst : Peers \cup {None}, sent : Nat, received : Nat,
          of : 0..MaxTime]

\* abandoned: the descriptor was closed before the handshake ended.
\* contended: another socket was connecting for the same descriptor number.
Attempt == [cid : Cids, dst : Peers, abandoned : BOOLEAN, contended : BOOLEAN]

Allocated == {sk \in Sockets : sockets[sk] # None}
InState(sk, state) == sk \in Allocated /\ sockets[sk].state = state
IsTcp(sk) == sockets[sk].proto = "tcp"
Connecting == {sk \in Sockets : InState(sk, "SYN_SENT")}
InCall(t, call) == syscall[t] # None /\ syscall[t].call = call
Holds(t, sk) == syscall[t] # None /\ syscall[t].call # "fput" /\ syscall[t].sk = sk
HeldByOther(t, sk) == (\E c \in Cids : fds[c] = sk) \/ (\E u \in Threads \ {t} : Holds(u, sk))

\* A thread returns from a call and drops its reference to the socket; when it
\* was the last one the socket is released before the thread goes on.
LeaveCall(t) ==
  LET sk == syscall[t].sk IN
  syscall' = [syscall EXCEPT ![t] = IF HeldByOther(t, sk) THEN None
                                    ELSE [call |-> "fput", sk |-> sk, dst |-> None]]

Goto(sk, state) == sockets' = [sockets EXCEPT ![sk].state = state]

\* struct connection conn = {}; conn.timestamp = bpf_ktime_get_ns()
NewConnection(ts) == [timestamp |-> ts, sent |-> 0, received |-> 0]

\* The attempts of the sockets in S, when their descriptors are closed.
Abandon(S) ==
  attempts' = [ts \in DOMAIN attempts |->
    [attempts[ts] EXCEPT !.abandoned = @ \/ \E sk \in S \cap Connecting : sockets[sk].attempt = ts]]

-----------------------------------------------------------------------------
(* The traced programs                                                     *)

\* socket(2)
OpenSocket(t, fd, sk, proto) ==
  /\ syscall[t] = None
  /\ fds[Cid(t, fd)] = None
  /\ sk \notin Allocated
  /\ sockets' = [sockets EXCEPT ![sk] =
       [state |-> "CLOSE", proto |-> proto, src |-> None, dst |-> None, attempt |-> 0]]
  /\ fds' = [fds EXCEPT ![Cid(t, fd)] = sk]
  /\ UNCHANGED <<syscall, mapVars, clock, events, attempts>>

\* A process dies: its descriptors go without a close call.  Its threads left
\* the system calls they were in first.  A later process has the same pid.
Kill(pid) ==
  LET mine == {c \in Cids : c.pid = pid} IN
  /\ \A t \in Threads : Tgid[t] = pid => syscall[t] = None
  /\ \E c \in mine : fds[c] # None
  /\ fds' = [c \in Cids |-> IF c \in mine THEN None ELSE fds[c]]
  /\ Abandon({fds[c] : c \in mine})
  /\ UNCHANGED <<sockets, syscall, mapVars, clock, events>>

-----------------------------------------------------------------------------
(* connect(2): sys_enter_connect, then inet_sock_set_state from CLOSE to   *)
(* SYN_SENT for a TCP socket, then sys_exit_connect                        *)

sys_enter_connect(t, fd, dst) ==
  LET sk == fds[Cid(t, fd)] IN
  /\ syscall[t] = None
  /\ sk # None
  /\ syscall' = [syscall EXCEPT ![t] = [call |-> "connect", sk |-> sk, dst |-> dst]]
  /\ fd_by_pid_tgid' = Update(fd_by_pid_tgid, t, fd)
  /\ UNCHANGED <<sockets, fds, connection_id_by_socket, active_connections,
                 active_l7_requests, clock, events, attempts>>

\* Mutant: the entry of an earlier connection of the descriptor is kept.
SynSentKeeps(t, sk) ==
  /\ connection_id_by_socket' =
       Update(connection_id_by_socket, sk, Cid(t, fd_by_pid_tgid[t]))
  /\ active_connections' = UpdateNoExist(active_connections, Cid(t, fd_by_pid_tgid[t]),
                                         NewConnection(clock'))

\* The two maps a connect is entered in.
SynSentUpdates(t, sk) ==
  /\ connection_id_by_socket' =
       Update(connection_id_by_socket, sk, Cid(t, fd_by_pid_tgid[t]))
  /\ active_connections' = Update(active_connections, Cid(t, fd_by_pid_tgid[t]),
                                  NewConnection(clock'))

\* inet_sock_set_state, CLOSE to SYN_SENT, in the thread that connects
SynSent(t, src) ==
  /\ InCall(t, "connect")
  /\ clock < MaxTime
  /\ t \in DOMAIN fd_by_pid_tgid
  /\ LET sk == syscall[t].sk
         cid == Cid(t, fd_by_pid_tgid[t])
         rivals == {ts \in DOMAIN attempts : attempts[ts].cid = cid /\
                      \E s \in Allocated \ {sk} : /\ sockets[s].attempt = ts
                                                  /\ s \in Connecting \/ fds[cid] = s}
     IN /\ IsTcp(sk)
        /\ InState(sk, "CLOSE")
        /\ \A s \in Allocated : sockets[s].src = src => sockets[s].dst # syscall[t].dst
        /\ clock' = clock + 1
        /\ sockets' = [sockets EXCEPT ![sk].state = "SYN_SENT", ![sk].src = src,
                                      ![sk].dst = syscall[t].dst, ![sk].attempt = clock']
        /\ fd_by_pid_tgid' = Delete(fd_by_pid_tgid, t)
        /\ SynSentUpdates(t, sk)
        /\ attempts' = [ts \in 1..clock' |-> IF ts = clock'
             THEN [cid |-> cid, dst |-> syscall[t].dst, abandoned |-> fds[cid] # sk,
                   contended |-> rivals # {}]
             ELSE [attempts[ts] EXCEPT !.contended = @ \/ ts \in rivals]]
  /\ UNCHANGED <<fds, syscall, active_l7_requests, events>>

\* Mutant: a connect that failed keeps its argument in fd_by_pid_tgid.
ExitConnectLeaks(t, ret) ==
  IF t \notin DOMAIN fd_by_pid_tgid \/ ret # 0
  THEN UNCHANGED <<mapVars, clock, attempts>>
  ELSE /\ fd_by_pid_tgid' = Delete(fd_by_pid_tgid, t)
       /\ UNCHANGED <<connection_id_by_socket, active_connections,
                      active_l7_requests, clock, attempts>>

\* The program at the exit of connect.  The argument of a connect that reached
\* SYN_SENT is no longer in the map, and the program returns.
ExitConnect(t, ret) ==
  IF t \notin DOMAIN fd_by_pid_tgid
  THEN UNCHANGED <<mapVars, clock, attempts>>
  ELSE LET cid == Cid(t, fd_by_pid_tgid[t]) IN
       /\ IF cid \notin DOMAIN active_connections /\ ret = 0
          THEN /\ clock < MaxTime
               /\ clock' = clock + 1
               /\ active_connections' = Update(active_connections, cid, NewConnection(clock'))
               /\ attempts' = Update(attempts, clock',
                    [cid |-> cid, dst |-> syscall[t].dst, abandoned |-> FALSE, contended |-> FALSE])
          ELSE UNCHANGED <<active_connections, clock, attempts>>
       /\ active_l7_requests' = DeleteAll(active_l7_requests,
            {[cid |-> cid, is_tls |-> tls, stream |-> -1] : tls \in BOOLEAN})
       /\ fd_by_pid_tgid' = Delete(fd_by_pid_tgid, t)
       /\ UNCHANGED connection_id_by_socket

\* connect returns 0 on a UDP socket, or on a TCP socket the peer answered; a
\* call that fails, or does not wait for the peer, returns something else.
sys_exit_connect(t, ret) ==
  LET sk == syscall[t].sk
      udp == ret = 0 /\ ~IsTcp(sk)
  IN /\ InCall(t, "connect")
     /\ ret = 0 /\ IsTcp(sk) => sockets[sk].state \in {"ESTABLISHED", "CLOSE_WAIT"}
     /\ ExitConnect(t, ret)
     /\ sockets' = IF udp THEN [sockets EXCEPT ![sk].state = "ESTABLISHED", ![sk].dst = syscall[t].dst]
                   ELSE sockets
     /\ LeaveCall(t)
     /\ UNCHANGED <<fds, events>>

-----------------------------------------------------------------------------
(* The other state changes of a TCP socket                                 *)

\* The entry of the attempt a socket is making, as the program finds it.
Tracked(sk) == /\ sk \in DOMAIN connection_id_by_socket
               /\ connection_id_by_socket[sk] \in DOMAIN active_connections

ConnectEvent(sk, type, ts) ==
  [type |-> type, cid |-> connection_id_by_socket[sk], timestamp |-> ts,
   src |-> sockets[sk].src, dst |-> sockets[sk].dst, sent |-> 0, received |-> 0,
   of |-> sockets[sk].attempt]

\* Mutant: only a connect that waits for the peer is reported.
EstablishedInCall(sk) ==
  /\ InState(sk, "SYN_SENT")
  /\ Goto(sk, "ESTABLISHED")
  /\ events' = IF Tracked(sk) /\ \E t \in Threads : InCall(t, "connect") /\ syscall[t].sk = sk
               THEN events \cup {ConnectEvent(sk, "open",
                      active_connections[connection_id_by_socket[sk]].timestamp)}
               ELSE events
  /\ UNCHANGED <<fds, syscall, mapVars, clock, attempts>>

\* SYN_SENT to ESTABLISHED
Established(sk) ==
  /\ InState(sk, "SYN_SENT")
  /\ Goto(sk, "ESTABLISHED")
  /\ events' = IF Tracked(sk)
               THEN events \cup {ConnectEvent(sk, "open",
                      active_connections[connection_id_by_socket[sk]].timestamp)}
               ELSE events
  /\ UNCHANGED <<fds, syscall, mapVars, clock, attempts>>

\* SYN_SENT to CLOSE: the program.  An error event carries no timestamp.
ConnectFailed(sk) ==
  IF Tracked(sk)
  THEN /\ connection_id_by_socket' = Delete(connection_id_by_socket, sk)
       /\ active_connections' = Delete(active_connections, connection_id_by_socket[sk])
       /\ events' = events \cup {ConnectEvent(sk, "error", 0)}
  ELSE UNCHANGED <<connection_id_by_socket, active_connections, events>>

\* The peer refuses, or the handshake times out.
Refused(sk) ==
  /\ InState(sk, "SYN_SENT")
  /\ Goto(sk, "CLOSE")
  /\ ConnectFailed(sk)
  /\ UNCHANGED <<fds, syscall, fd_by_pid_tgid, active_l7_requests, clock, attempts>>

\* The peer closes (ESTABLISHED to CLOSE_WAIT) or resets (to CLOSE) the connection.
PeerCloses(sk, state) ==
  /\ InState(sk, "ESTABLISHED")
  /\ IsTcp(sk)
  /\ Goto(sk, state)
  /\ connection_id_by_socket' = IF state = "CLOSE_WAIT" THEN Delete(connection_id_by_socket, sk)
                                ELSE connection_id_by_socket
  /\ UNCHANGED <<fds, syscall, fd_by_pid_tgid, active_connections, active_l7_requests,
                 clock, events, attempts>>

-----------------------------------------------------------------------------
(* close(2): sys_enter_close, the descriptor is free, the socket released  *)

\* Mutant: a close reports the connection and leaves it in the map.
CloseKeeps(cid) ==
  /\ events' = IF cid \in DOMAIN active_connections
               THEN events \cup {[type |-> "close", cid |-> cid,
                      timestamp |-> active_connections[cid].timestamp, src |-> None, dst |-> None,
                      sent |-> active_connections[cid].sent,
                      received |-> active_connections[cid].received,
                      of |-> sockets[fds[cid]].attempt]}
               ELSE events
  /\ UNCHANGED active_connections

CloseReports(cid) ==
  IF cid \in DOMAIN active_connections
  THEN LET conn == active_connections[cid] IN
       /\ events' = events \cup {[type |-> "close", cid |-> cid, timestamp |-> conn.timestamp,
            src |-> None, dst |-> None, sent |-> conn.sent, received |-> conn.received,
            of |-> sockets[fds[cid]].attempt]}
       /\ active_connections' = Delete(active_connections, cid)
  ELSE UNCHANGED <<events, active_connections>>

sys_enter_close(t, fd) ==
  LET cid == Cid(t, fd) IN
  /\ syscall[t] = None
  /\ fds[cid] # None
  /\ CloseReports(cid)
  /\ fds' = [fds EXCEPT ![cid] = None]
  /\ syscall' = [syscall EXCEPT ![t] = [call |-> "fput", sk |-> fds[cid], dst |-> None]]
  /\ Abandon({fds[cid]})
  /\ UNCHANGED <<sockets, fd_by_pid_tgid, connection_id_by_socket, active_l7_requests, clock>>

\* close returns while another thread is still in a call with the socket.
CloseReturns(t) ==
  /\ InCall(t, "fput")
  /\ HeldByOther(t, syscall[t].sk)
  /\ syscall' = [syscall EXCEPT ![t] = None]
  /\ UNCHANGED <<sockets, fds, mapVars, clock, events, attempts>>

\* tcp_close, when nothing refers to the socket any more: SYN_SENT goes to CLOSE,
\* ESTABLISHED to FIN_WAIT1.  The memory of the socket is free for the next one.
Release(sk) ==
  /\ sk \in Allocated
  /\ \A c \in Cids : fds[c] # sk
  /\ \A t \in Threads : ~Holds(t, sk)
  /\ sockets' = [sockets EXCEPT ![sk] = None]
  /\ syscall' = [t \in Threads |-> IF InCall(t, "fput") /\ syscall[t].sk = sk THEN None ELSE syscall[t]]
  /\ \/ InState(sk, "SYN_SENT") /\ ConnectFailed(sk)
     \/ /\ ~InState(sk, "SYN_SENT")
        /\ connection_id_by_socket' = IF InState(sk, "ESTABLISHED") /\ IsTcp(sk)
             THEN Delete(connection_id_by_socket, sk) ELSE connection_id_by_socket
        /\ UNCHANGED <<active_connections, events>>
  /\ UNCHANGED <<fds, fd_by_pid_tgid, active_l7_requests, clock, attempts>>

-----------------------------------------------------------------------------
ProbesInit ==
  /\ sockets = [sk \in Sockets |-> None]
  /\ fds = [c \in Cids |-> None]
  /\ syscall = [t \in Threads |-> None]
  /\ fd_by_pid_tgid = EmptyMap
  /\ connection_id_by_socket = EmptyMap
  /\ active_connections = EmptyMap
  /\ active_l7_requests = EmptyMap
  /\ clock = 0
  /\ events = {}
  /\ attempts = EmptyMap

Connects == \E t \in Threads, fd \in Fds, dst \in Peers : sys_enter_connect(t, fd, dst)

OtherCalls ==
  \/ \E t \in Threads, fd \in Fds, sk \in Sockets, proto \in Protos : OpenSocket(t, fd, sk, proto)
  \/ \E t \in Threads, src \in Ports : SynSent(t, src)
  \/ \E t \in Threads, ret \in {0, -1} : sys_exit_connect(t, ret)
  \/ \E t \in Threads, fd \in Fds : sys_enter_close(t, fd)
  \/ \E t \in Threads : CloseReturns(t)
  \/ \E pid \in Pids : Kill(pid)

Kernel ==
  \/ \E sk \in Sockets : Established(sk) \/ Refused(sk) \/ Release(sk)
  \/ \E sk \in Sockets, state \in {"CLOSE_WAIT", "CLOSE"} : PeerCloses(sk, state)

ProbesNext == Connects \/ OtherCalls \/ Kernel

ProbesSpec == ProbesInit /\ [][ProbesNext]_probeVars

-----------------------------------------------------------------------------
(* Properties                                                              *)

\* The type of the kernel's state, of the maps of state.c and of its events.
ProbesTypeOK ==
  /\ sockets \in [Sockets -> Socket \cup {None}]
  /\ fds \in [Cids -> Sockets \cup {None}]
  /\ syscall \in [Threads -> Syscall \cup {None}]
  /\ IsMap(fd_by_pid_tgid, Threads, Fds)
  /\ IsMap(connection_id_by_socket, Sockets, Cids)
  /\ IsMap(active_connections, Cids, Connection)
  /\ DOMAIN active_l7_requests \subseteq RequestKeys
  /\ clock \in 0..MaxTime
  /\ events \subseteq Event
  /\ IsMap(attempts, 1..MaxTime, Attempt) /\ DOMAIN attempts = 1..clock

\* fd_by_pid_tgid holds the argument of a connect in progress and nothing
\* else: the map is not an LRU one, and what sys_exit_connect left behind would
\* fill its 10240 entries and end the tracking of connections for good.
ConnectArgsTransient ==
  \A t \in DOMAIN fd_by_pid_tgid : InCall(t, "connect")

\* The agent matches a close with its connection by the timestamp.  A
\* connection is reported closed at most once, with one byte count, and
\* nothing is counted for it afterwards (sys_enter_close deletes it).
ClosedOnce ==
  \A e \in {x \in events : x.type = "close"} :
    /\ \A x \in events : x.type = "close" /\ x.timestamp = e.timestamp => x = e
    /\ \A c \in DOMAIN active_connections : active_connections[c].timestamp # e.timestamp

\* An open event joins the addresses of a socket with the timestamp found
\* through its descriptor number.  They are of one connection, unless the
\* descriptor was closed during the handshake or another socket was connecting
\* for the same descriptor number.
OpenIsOwn ==
  \A e \in {x \in events : x.type = "open"} :
    \/ e.timestamp = e.of /\ e.cid = attempts[e.of].cid /\ e.dst = attempts[e.of].dst
    \/ attempts[e.of].abandoned
    \/ attempts[e.of].contended

\* The connected socket a descriptor refers to, when a TCP connect made it.
Serving(c) == fds[c] # None /\ InState(fds[c], "ESTABLISHED") /\ IsTcp(fds[c])
Alone(c) == LET a == attempts[sockets[fds[c]].attempt] IN ~a.abandoned /\ ~a.contended

\* While a connection is established and its descriptor open, it was reported and
\* the map holds it, both under its own timestamp: what is written and read is
\* counted for it, however descriptors, pids and socket addresses were reused,
\* when no other socket was connecting for its descriptor number.
EstablishedTracked ==
  \A c \in Cids : Serving(c) /\ Alone(c) =>
    LET own == sockets[fds[c]].attempt IN
    /\ c \in DOMAIN active_connections
    /\ active_connections[c].timestamp = own
    /\ \E e \in events : e.type = "open" /\ e.of = own /\ e.timestamp = own
=============================================================================
