---------------------- MODULE ConnectionTrackingProofs ----------------------
(***************************************************************************)
(* What the two ends of the tracking of connections keep true, for every   *)
(* value of the constants: the programs of state.c of their maps and       *)
(* events, whatever the threads do, and the tables of a container,         *)
(* whatever events arrive in whatever order, and whatever gc finds.        *)
(*                                                                         *)
(* The maps of the programs join a socket and a connection through a       *)
(* descriptor number, which both the descriptor table and the next socket  *)
(* may change.  The inductive invariant says when the join is right: the   *)
(* attempt a socket is making has the entry of its descriptor number,      *)
(* unless the descriptor was closed during the handshake or the number had *)
(* a rival.  That of the tables adds to their properties that a table      *)
(* leads to a connection with the key it was found under.  Without it two  *)
(* keys could share a connection, and gc could take the descriptor of an   *)
(* open one.                                                               *)
(***************************************************************************)
EXTENDS ConnectionTable, ConnectionProbes, TLAPS

-----------------------------------------------------------------------------
(* What the helpers of BpfMaps do, for every map.                          *)

\* An update keeps the type of a map.
LEMMA UpdateType ==
  ASSUME NEW Keys, NEW Values, NEW map, IsMap(map, Keys, Values), NEW key \in Keys, NEW value \in Values
  PROVE  IsMap(Update(map, key, value), Keys, Values)
BY Zenon DEF Update, IsMap

\* What a deletion does.
LEMMA DeleteProperties ==
  ASSUME NEW map, NEW keys
  PROVE  /\ DOMAIN DeleteAll(map, keys) = DOMAIN map \ keys
         /\ \A k \in DOMAIN map \ keys : DeleteAll(map, keys)[k] = map[k]
BY Zenon DEF DeleteAll

\* A deletion keeps the type of a map.
LEMMA DeleteType ==
  ASSUME NEW Keys, NEW Values, NEW map, IsMap(map, Keys, Values), NEW keys
  PROVE  IsMap(DeleteAll(map, keys), Keys, Values)
BY Zenon DEF DeleteAll, IsMap

\* A map into a set is one into a larger set.
LEMMA IsMapMonotone ==
  ASSUME NEW Keys, NEW S, NEW T, S \subseteq T, NEW map, IsMap(map, Keys, S)
  PROVE  IsMap(map, Keys, T)
BY Zenon DEF IsMap

-----------------------------------------------------------------------------
(* The probes: the inductive invariant                                     *)

\* Descriptors refer to sockets the kernel has, and each to one of its own.
FdsOwn ==
  /\ \A c \in Cids : fds[c] # None => fds[c] \in Allocated
  /\ \A c, d \in Cids : fds[c] = fds[d] /\ fds[c] # None => c = d

\* A thread in a call holds its socket; a connect has a peer.
CallsHold ==
  \A t \in Threads :
    /\ syscall[t] # None /\ syscall[t].call # "fput" => syscall[t].sk \in Allocated
    /\ InCall(t, "connect") => syscall[t].dst \in Peers

\* No two connections of the map have one timestamp, and none has a later one
\* than the clock; neither has a close event.
Stamped ==
  /\ \A c \in DOMAIN active_connections : active_connections[c].timestamp <= clock
  /\ \A c, d \in DOMAIN active_connections :
       active_connections[c].timestamp = active_connections[d].timestamp => c = d
  /\ \A e \in events : e.type = "close" => e.timestamp \in 1..clock

AttemptOf(sk) == sockets[sk].attempt
CidOf(sk) == attempts[AttemptOf(sk)].cid

\* No two sockets make one attempt, and an attempt that was not abandoned is
\* one for the descriptor the socket has.
AttemptsOwn ==
  \A sk \in Allocated :
    /\ AttemptOf(sk) <= clock
    /\ AttemptOf(sk) # 0 => \A s \in Allocated : AttemptOf(s) = AttemptOf(sk) => s = sk
    /\ AttemptOf(sk) # 0 /\ ~attempts[AttemptOf(sk)].abandoned =>
         \A c \in Cids : fds[c] = sk => c = CidOf(sk)

\* A TCP socket from its connect until either side closes.
Live(sk) == InState(sk, "SYN_SENT") \/ (InState(sk, "ESTABLISHED") /\ IsTcp(sk))

LiveAttempts == \A sk \in Sockets : Live(sk) => AttemptOf(sk) # 0

\* A connecting socket is entered under the descriptor number of its attempt.
ConnectingOwn ==
  \A sk \in Connecting :
    /\ sockets[sk].dst = attempts[AttemptOf(sk)].dst
    /\ sk \in DOMAIN connection_id_by_socket
    /\ connection_id_by_socket[sk] = CidOf(sk)
    /\ ~attempts[AttemptOf(sk)].abandoned => fds[CidOf(sk)] = sk

\* What shares its descriptor number with a connecting socket is known to.
RivalsContended ==
  \A sk \in Connecting, s \in Allocated :
    /\ s # sk
    /\ AttemptOf(s) # 0
    /\ CidOf(s) = CidOf(sk)
    /\ s \in Connecting \/ fds[CidOf(sk)] = s
    => attempts[AttemptOf(s)].contended

\* The sockets whose connection nothing disturbed, and still has its descriptor.
Undisturbed(sk) ==
  /\ Live(sk)
  /\ fds[CidOf(sk)] = sk
  /\ ~attempts[AttemptOf(sk)].abandoned
  /\ ~attempts[AttemptOf(sk)].contended

\* The map has the connection of such a socket, and it was reported.
OwnEntry ==
  \A sk \in Sockets : Undisturbed(sk) =>
    /\ CidOf(sk) \in DOMAIN active_connections
    /\ active_connections[CidOf(sk)].timestamp = AttemptOf(sk)

OpenReported(a) == \E e \in events : e.type = "open" /\ e.of = a /\ e.timestamp = a

Reported ==
  \A sk \in Sockets :
    Undisturbed(sk) /\ InState(sk, "ESTABLISHED") => OpenReported(AttemptOf(sk))

OpensOfAttempts == \A e \in events : e.type = "open" => e.of \in 1..clock

KernelInv == FdsOwn /\ CallsHold /\ ConnectArgsTransient
StampsInv == Stamped /\ ClosedOnce
AttemptsInv == AttemptsOwn /\ LiveAttempts /\ ConnectingOwn /\ RivalsContended
OwnInv == OwnEntry /\ Reported /\ OpensOfAttempts /\ OpenIsOwn

ProbesIInv == ProbesTypeOK /\ KernelInv /\ StampsInv /\ AttemptsInv /\ OwnInv

\* The initial states satisfy the invariant.
LEMMA ProbesInitInv == ProbesInit => ProbesIInv
<1> SUFFICES ASSUME ProbesInit
             PROVE  ProbesIInv
  BY Zenon
<1>1. Allocated = {} /\ Connecting = {} /\ \A sk \in Sockets : ~Live(sk)
  BY Zenon DEF ProbesInit, Allocated, Connecting, Live, InState
<1>2. ProbesTypeOK
  BY ProbesAssumption DEF ProbesInit, ProbesTypeOK, IsMap, EmptyMap
<1>3. KernelInv
  BY Zenon DEF ProbesInit, KernelInv, FdsOwn, CallsHold, ConnectArgsTransient, InCall, EmptyMap
<1>4. StampsInv
  BY Zenon DEF ProbesInit, StampsInv, Stamped, ClosedOnce, EmptyMap
<1>5. AttemptsInv
  BY Zenon, <1>1 DEF AttemptsInv, AttemptsOwn, LiveAttempts, ConnectingOwn, RivalsContended
<1>6. OwnInv
  BY Zenon, <1>1 DEF ProbesInit, OwnInv, OwnEntry, Reported, Undisturbed, OpensOfAttempts, OpenIsOwn
<1> QED
  BY Zenon, <1>2, <1>3, <1>4, <1>5, <1>6 DEF ProbesIInv

-----------------------------------------------------------------------------
(* What the parts of the invariant depend on                               *)

\* The timestamps are those of the map and of the events.
LEMMA StampsFrame ==
  ASSUME StampsInv, UNCHANGED <<active_connections, clock, events>>
  PROVE  StampsInv'
BY Zenon DEF StampsInv, Stamped, ClosedOnce

\* What a socket is doing.
LEMMA SocketFrame ==
  ASSUME UNCHANGED sockets
  PROVE  /\ Allocated' = Allocated /\ Connecting' = Connecting
         /\ \A sk : AttemptOf(sk)' = AttemptOf(sk) /\ (Live(sk)' <=> Live(sk))
         /\ \A sk, state : InState(sk, state)' <=> InState(sk, state)
BY Zenon DEF Allocated, Connecting, InState, AttemptOf, Live, IsTcp

\* The attempts are those of the sockets and their descriptors.
LEMMA AttemptsFrame ==
  ASSUME AttemptsInv, UNCHANGED <<sockets, fds, connection_id_by_socket, clock, attempts>>
  PROVE  AttemptsInv'
<1>1. \A sk : CidOf(sk)' = CidOf(sk)
  BY Zenon, SocketFrame DEF CidOf
<1> QED
  BY <1>1, SocketFrame
  DEF AttemptsInv, AttemptsOwn, LiveAttempts, ConnectingOwn, RivalsContended

\* The entries and the reports of the connections.
LEMMA OwnFrame ==
  ASSUME OwnInv, UNCHANGED <<sockets, fds, active_connections, clock, events, attempts>>
  PROVE  OwnInv'
<1>1. \A sk : CidOf(sk)' = CidOf(sk)
  BY Zenon, SocketFrame DEF CidOf
<1>2. \A sk : Undisturbed(sk)' <=> Undisturbed(sk)
  BY Zenon, <1>1, SocketFrame DEF Undisturbed
<1> QED
  BY Zenon, <1>1, <1>2, SocketFrame
  DEF OwnInv, OwnEntry, Reported, OpenReported, OpensOfAttempts, OpenIsOwn

-----------------------------------------------------------------------------
(* The steps of the probes                                                 *)

\* The clock and the domain of attempts.
LEMMA ClockType ==
  ASSUME ProbesIInv
  PROVE  clock \in Nat /\ DOMAIN attempts = 1..clock
BY ProbesAssumption DEF ProbesIInv, ProbesTypeOK

\* A descriptor of a thread's process.
LEMMA CidType ==
  ASSUME NEW t \in Threads, NEW fd \in Fds
  PROVE  Cid(t, fd) \in Cids
BY Zenon DEF Cid, Cids, Pids

\* The attempts of the sockets are ones that were noted.
LEMMA AttemptType ==
  ASSUME ProbesIInv
  PROVE  /\ \A sk \in Allocated : /\ AttemptOf(sk) \in 0..clock
                                  /\ AttemptOf(sk) # 0 => /\ AttemptOf(sk) \in DOMAIN attempts
                                                          /\ CidOf(sk) \in Cids
         /\ \A sk \in Sockets : Live(sk) => sk \in Allocated /\ AttemptOf(sk) # 0
         /\ \A sk \in Connecting : Live(sk) /\ sk \in Allocated /\ AttemptOf(sk) # 0
<1>1. \A sk \in Allocated : AttemptOf(sk) \in 0..clock
  BY ProbesAssumption
  DEF ProbesIInv, ProbesTypeOK, AttemptsInv, AttemptsOwn, AttemptOf, Allocated, Socket
<1>2. \A ts \in DOMAIN attempts : attempts[ts].cid \in Cids
  BY Zenon DEF ProbesIInv, ProbesTypeOK, IsMap, Attempt
<1>3. \A sk \in Sockets : Live(sk) => sk \in Allocated /\ AttemptOf(sk) # 0
  BY Zenon DEF ProbesIInv, AttemptsInv, LiveAttempts, Live, InState
<1>4. \A sk \in Connecting : Live(sk) /\ sk \in Sockets
  BY Zenon DEF Connecting, Live
<1>5. DOMAIN attempts = 1..clock /\ clock \in Nat
  BY DEF ProbesIInv, ProbesTypeOK
<1>6. \A sk \in Allocated : AttemptOf(sk) # 0 => AttemptOf(sk) \in DOMAIN attempts
  BY <1>1, <1>5
<1> QED
  BY Zenon, <1>1, <1>2, <1>3, <1>4, <1>6 DEF CidOf

\* The socket of a new attempt.
LEMMA NewSocketType ==
  ASSUME NEW s \in Socket, NEW src \in Ports, NEW dst \in Peers, NEW ts \in 1..MaxTime
  PROVE  /\ [state |-> "SYN_SENT", proto |-> s.proto, src |-> src, dst |-> dst, attempt |-> ts] \in Socket
         /\ [state |-> "SYN_SENT", proto |-> s.proto, src |-> src, dst |-> dst, attempt |-> ts] # None
BY ProbesAssumption DEF Socket

\* A connection is entered under a new timestamp.
LEMMA StampNew ==
  ASSUME ProbesIInv, NEW cid \in Cids, clock < MaxTime, clock' = clock + 1, UNCHANGED events,
         active_connections' = Update(active_connections, cid, NewConnection(clock + 1))
  PROVE  /\ IsMap(active_connections', Cids, Connection)
         /\ DOMAIN active_connections' = DOMAIN active_connections \cup {cid}
         /\ active_connections'[cid].timestamp = clock + 1
         /\ \A c \in DOMAIN active_connections \ {cid} :
              active_connections'[c] = active_connections[c]
         /\ StampsInv'
<1>1. clock \in Nat /\ clock + 1 \in 1..MaxTime
  BY ProbesAssumption DEF ProbesIInv, ProbesTypeOK
<1>2. /\ DOMAIN active_connections' = DOMAIN active_connections \cup {cid}
      /\ active_connections'[cid] = NewConnection(clock + 1)
      /\ \A c \in DOMAIN active_connections \ {cid} :
           active_connections'[c] = active_connections[c]
  BY Zenon DEF Update
<1>3. NewConnection(clock + 1) \in Connection /\ NewConnection(clock + 1).timestamp = clock + 1
  BY Zenon, <1>1 DEF NewConnection, Connection
<1>4. IsMap(active_connections', Cids, Connection)
  BY Zenon, <1>3, UpdateType DEF ProbesIInv, ProbesTypeOK
<1>5. \A c \in DOMAIN active_connections :
        active_connections[c].timestamp \in Nat /\ active_connections[c].timestamp < clock + 1
  BY <1>1 DEF ProbesIInv, ProbesTypeOK, IsMap, Connection, StampsInv, Stamped
<1>6. \A e \in events : e.type = "close" => e.timestamp \in 1..clock
  BY Zenon DEF ProbesIInv, StampsInv, Stamped
<1>7. Stamped'
  BY <1>1, <1>2, <1>3, <1>5, <1>6 DEF ProbesIInv, StampsInv, Stamped
<1>8. ClosedOnce'
  BY <1>1, <1>2, <1>3, <1>6 DEF ProbesIInv, StampsInv, ClosedOnce
<1> QED
  BY Zenon, <1>2, <1>3, <1>4, <1>7, <1>8 DEF StampsInv

\* A connect starts: the call and its argument are noted.
LEMMA EnterConnectInv ==
  ASSUME ProbesIInv, NEW t \in Threads, NEW fd \in Fds, NEW dst \in Peers,
         sys_enter_connect(t, fd, dst)
  PROVE  ProbesIInv'
<1> DEFINE sk == fds[Cid(t, fd)]
           call == [call |-> "connect", sk |-> sk, dst |-> dst]
<1>1. /\ sk # None
      /\ syscall' = [syscall EXCEPT ![t] = call]
      /\ fd_by_pid_tgid' = Update(fd_by_pid_tgid, t, fd)
      /\ UNCHANGED <<sockets, fds, connection_id_by_socket, active_connections,
                     active_l7_requests, clock, events, attempts>>
  BY Zenon DEF sys_enter_connect
<1>2. sk \in Sockets /\ sk \in Allocated
  BY Zenon, <1>1, CidType DEF ProbesIInv, ProbesTypeOK, KernelInv, FdsOwn
<1>3. call \in Syscall /\ call # None
  BY <1>2, ProbesAssumption DEF Syscall
<1> HIDE DEF call, sk
<1>4. ProbesTypeOK'
  <2>1. IsMap(fd_by_pid_tgid', Threads, Fds)
    BY Zenon, <1>1, UpdateType DEF ProbesIInv, ProbesTypeOK
  <2>2. syscall' \in [Threads -> Syscall \cup {None}]
    BY Zenon, <1>1, <1>3 DEF ProbesIInv, ProbesTypeOK
  <2> QED
    BY Zenon, <1>1, <2>1, <2>2 DEF ProbesIInv, ProbesTypeOK
<1>5. KernelInv'
  <2>1. syscall'[t] = call /\ \A u \in Threads \ {t} : syscall'[u] = syscall[u]
    BY Zenon, <1>1 DEF ProbesIInv, ProbesTypeOK
  <2>2. call.call = "connect" /\ call.sk = sk /\ call.dst = dst
    BY Zenon DEF call
  <2>3. FdsOwn'
    BY Zenon, <1>1, SocketFrame DEF ProbesIInv, KernelInv, FdsOwn
  <2>4. CallsHold'
    BY Zenon, <1>1, <1>2, <2>1, <2>2, SocketFrame DEF ProbesIInv, KernelInv, CallsHold, InCall
  <2>5. ConnectArgsTransient'
    BY Zenon, <1>1, <1>3, <2>1, <2>2
    DEF ProbesIInv, ProbesTypeOK, KernelInv, ConnectArgsTransient, InCall, Update, IsMap
  <2> QED
    BY Zenon, <2>3, <2>4, <2>5 DEF KernelInv
<1> QED
  BY Zenon, <1>1, <1>4, <1>5, StampsFrame, AttemptsFrame, OwnFrame DEF ProbesIInv

\* A close returns while somebody else has the socket.
LEMMA CloseReturnsInv ==
  ASSUME ProbesIInv, NEW t \in Threads, CloseReturns(t)
  PROVE  ProbesIInv'
<1>1. /\ InCall(t, "fput")
      /\ syscall' = [syscall EXCEPT ![t] = None]
      /\ UNCHANGED <<sockets, fds, fd_by_pid_tgid, connection_id_by_socket, active_connections,
                     active_l7_requests, clock, events, attempts>>
  BY Zenon DEF CloseReturns, mapVars
<1>2. ProbesTypeOK'
  BY Zenon, <1>1 DEF ProbesIInv, ProbesTypeOK
<1>3. KernelInv'
  BY Zenon, <1>1, SocketFrame
  DEF ProbesIInv, ProbesTypeOK, KernelInv, FdsOwn, CallsHold, ConnectArgsTransient, InCall, IsMap
<1> QED
  BY Zenon, <1>1, <1>2, <1>3, StampsFrame, AttemptsFrame, OwnFrame DEF ProbesIInv

\* A socket is made for a free descriptor: it has made no attempt.
LEMMA OpenSocketInv ==
  ASSUME ProbesIInv, NEW t \in Threads, NEW fd \in Fds, NEW sk \in Sockets, NEW proto \in Protos,
         OpenSocket(t, fd, sk, proto)
  PROVE  ProbesIInv'
<1> DEFINE c == Cid(t, fd)
           new == [state |-> "CLOSE", proto |-> proto, src |-> None, dst |-> None, attempt |-> 0]
<1>1. /\ fds[c] = None /\ sk \notin Allocated
      /\ sockets' = [sockets EXCEPT ![sk] = new]
      /\ fds' = [fds EXCEPT ![c] = sk]
      /\ UNCHANGED <<syscall, fd_by_pid_tgid, connection_id_by_socket, active_connections,
                     active_l7_requests, clock, events, attempts>>
  BY Zenon DEF OpenSocket, mapVars
<1>2. new \in Socket /\ new # None
  BY ProbesAssumption DEF Socket
<1>3. c \in Cids
  BY Zenon, CidType
<1>4. /\ sockets'[sk] = new /\ \A s \in Sockets \ {sk} : sockets'[s] = sockets[s]
      /\ fds'[c] = sk /\ \A d \in Cids \ {c} : fds'[d] = fds[d]
  BY Zenon, <1>1, <1>3 DEF ProbesIInv, ProbesTypeOK
<1>5. new.state = "CLOSE" /\ new.attempt = 0
  BY Zenon
<1> HIDE DEF c, new
<1>6. /\ Allocated' = Allocated \cup {sk}
      /\ Connecting' = Connecting /\ sk \notin Connecting
      /\ \A s \in Sockets : (Live(s)' <=> Live(s))
                            /\ (InState(s, "ESTABLISHED")' <=> InState(s, "ESTABLISHED"))
      /\ ~Live(sk) /\ \A s \in Sockets : s # sk => AttemptOf(s)' = AttemptOf(s)
      /\ AttemptOf(sk)' = 0
  BY <1>1, <1>2, <1>4, <1>5 DEF Allocated, Connecting, Live, InState, IsTcp, AttemptOf
<1>7. \A d \in Cids : fds[d] # sk
  BY Zenon, <1>1, ProbesAssumption DEF ProbesIInv, KernelInv, FdsOwn
<1>8. \A s \in Sockets : s # sk => /\ CidOf(s)' = CidOf(s)
                                   /\ \A d \in Cids : fds'[d] = s <=> fds[d] = s
  BY Zenon, <1>1, <1>3, <1>4, <1>6, ProbesAssumption DEF CidOf
<1>9. ProbesTypeOK'
  BY Zenon, <1>1, <1>2, <1>3 DEF ProbesIInv, ProbesTypeOK
<1>10. KernelInv'
  <2>1. FdsOwn'
    BY SMTT(30), <1>1, <1>3, <1>4, <1>6, <1>7 DEF ProbesIInv, KernelInv, FdsOwn
  <2>2. CallsHold' /\ ConnectArgsTransient'
    BY Zenon, <1>1, <1>6 DEF ProbesIInv, KernelInv, CallsHold, ConnectArgsTransient, InCall
  <2> QED
    BY Zenon, <2>1, <2>2 DEF KernelInv
<1>11. AttemptsInv'
  <2>1. AttemptsOwn'
    <3>1. AttemptOf(sk)' <= clock'
      BY <1>1, <1>6, ClockType
    <3>2. \A s \in Allocated : /\ s # sk /\ AttemptOf(s)' = AttemptOf(s) /\ CidOf(s)' = CidOf(s)
                               /\ \A d \in Cids : fds'[d] = s <=> fds[d] = s
      BY Zenon, <1>1, <1>6, <1>8 DEF Allocated
    <3>3. \A s \in Allocated :
            /\ AttemptOf(s)' <= clock'
            /\ AttemptOf(s)' # 0 => \A r \in Allocated : AttemptOf(r)' = AttemptOf(s)' => r = s
            /\ AttemptOf(s)' # 0 /\ ~attempts'[AttemptOf(s)'].abandoned =>
                 \A d \in Cids : fds'[d] = s => d = CidOf(s)'
      BY <1>1, <3>2 DEF ProbesIInv, AttemptsInv, AttemptsOwn
    <3> QED
      BY Zenon, <1>6, <3>1, <3>2, <3>3 DEF AttemptsOwn
  <2>2. LiveAttempts'
    BY Zenon, <1>6 DEF ProbesIInv, AttemptsInv, LiveAttempts
  <2>3. ConnectingOwn'
    <3>1. \A s \in Connecting : s # sk /\ s \in Sockets /\ CidOf(s) \in Cids
      BY Zenon, <1>6, AttemptType DEF Connecting
    <3>2. \A s \in Connecting :
            /\ sockets'[s] = sockets[s] /\ AttemptOf(s)' = AttemptOf(s) /\ CidOf(s)' = CidOf(s)
            /\ fds'[CidOf(s)] = s <=> fds[CidOf(s)] = s
      BY Zenon, <1>4, <1>6, <1>8, <3>1
    <3> QED
      BY <1>1, <1>6, <3>2 DEF ProbesIInv, AttemptsInv, ConnectingOwn
  <2>4. RivalsContended'
    BY <1>1, <1>6, <1>8 DEF ProbesIInv, AttemptsInv, RivalsContended, Connecting, Allocated
  <2> QED
    BY Zenon, <2>1, <2>2, <2>3, <2>4 DEF AttemptsInv
<1>12. OwnInv'
  <2>1. \A s \in Sockets : Undisturbed(s)' => Undisturbed(s)
    BY SMTT(30), <1>1, <1>6, <1>8 DEF Undisturbed
  <2>2. \A s \in Sockets : Undisturbed(s)' => AttemptOf(s)' = AttemptOf(s) /\ CidOf(s)' = CidOf(s)
    BY <1>6, <1>8, <2>1 DEF Undisturbed
  <2>3. OwnEntry'
    BY Zenon, <1>1, <2>1, <2>2 DEF ProbesIInv, OwnInv, OwnEntry
  <2>5. Reported'
    BY Zenon, <1>1, <1>6, <2>1, <2>2 DEF ProbesIInv, OwnInv, Reported, OpenReported
  <2>4. OpensOfAttempts' /\ OpenIsOwn'
    BY Zenon, <1>1 DEF ProbesIInv, OwnInv, OpensOfAttempts, OpenIsOwn
  <2> QED
    BY Zenon, <2>3, <2>4, <2>5 DEF OwnInv
<1> QED
  BY Zenon, <1>1, <1>9, <1>10, <1>11, <1>12, StampsFrame DEF ProbesIInv

\* Descriptors are closed: handshakes in progress for them are abandoned, and
\* the entries of other descriptors stay.
LEMMA ClosingInv ==
  ASSUME ProbesIInv, NEW closed \in SUBSET Cids,
         fds' = [c \in Cids |-> IF c \in closed THEN None ELSE fds[c]],
         Abandon({fds[c] : c \in closed}),
         UNCHANGED <<sockets, connection_id_by_socket, clock>>,
         \A c \in DOMAIN active_connections \ closed :
           c \in DOMAIN active_connections' /\ active_connections'[c] = active_connections[c],
         events \subseteq events', \A e \in events' \ events : e.type = "close"
  PROVE  /\ IsMap(attempts, 1..MaxTime, Attempt)' /\ DOMAIN attempts' = DOMAIN attempts
         /\ FdsOwn' /\ AttemptsInv' /\ OwnInv'
<1> DEFINE Left(ts) == \E sk \in {fds[c] : c \in closed} \cap Connecting : sockets[sk].attempt = ts
<1>1. attempts' = [ts \in DOMAIN attempts |->
                     [attempts[ts] EXCEPT !.abandoned = @ \/ Left(ts)]]
  BY DEF Abandon
<1>2. \A ts : Left(ts) \in BOOLEAN
  OBVIOUS
<1>3. \A ts \in DOMAIN attempts : attempts[ts] \in Attempt
  BY Zenon DEF ProbesIInv, ProbesTypeOK, IsMap
<1>4. \A sk \in Connecting : fds[CidOf(sk)] = sk /\ CidOf(sk) \in closed => Left(AttemptOf(sk))
  BY DEF AttemptOf
<1> HIDE DEF Left
<1>5. /\ DOMAIN attempts' = DOMAIN attempts
      /\ \A ts \in DOMAIN attempts :
           /\ attempts'[ts] \in Attempt
           /\ attempts'[ts].cid = attempts[ts].cid
           /\ attempts'[ts].dst = attempts[ts].dst
           /\ attempts'[ts].contended = attempts[ts].contended
           /\ attempts'[ts].abandoned <=> attempts[ts].abandoned \/ Left(ts)
  BY Zenon, <1>1, <1>2, <1>3 DEF Attempt
<1>6. \A sk \in Allocated : AttemptOf(sk) # 0 => CidOf(sk)' = CidOf(sk)
  BY Zenon, <1>5, AttemptType, SocketFrame DEF CidOf
<1>7. \A c \in Cids : fds'[c] # None => fds'[c] = fds[c] /\ c \notin closed
  BY Zenon
<1>8. None \notin Allocated
  BY Zenon, ProbesAssumption DEF Allocated
<1>9. IsMap(attempts, 1..MaxTime, Attempt)' /\ DOMAIN attempts' = DOMAIN attempts
  BY Zenon, <1>5 DEF ProbesIInv, ProbesTypeOK, IsMap
<1>10. FdsOwn'
  BY Zenon, <1>7, SocketFrame DEF ProbesIInv, KernelInv, FdsOwn
<1>11. AttemptsInv'
  <2>1. AttemptsOwn'
    BY SMTT(30), <1>5, <1>6, <1>7, <1>8, AttemptType, SocketFrame DEF ProbesIInv, AttemptsInv, AttemptsOwn
  <2>2. LiveAttempts'
    BY Zenon, SocketFrame DEF ProbesIInv, AttemptsInv, LiveAttempts
  <2>3. ConnectingOwn'
    BY SMTT(30), <1>4, <1>5, <1>6, <1>8, AttemptType, SocketFrame DEF ProbesIInv, AttemptsInv, ConnectingOwn
  <2>4. RivalsContended'
    BY SMTT(30), <1>5, <1>6, <1>7, <1>8, AttemptType, SocketFrame DEF ProbesIInv, AttemptsInv, RivalsContended
  <2> QED
    BY Zenon, <2>1, <2>2, <2>3, <2>4 DEF AttemptsInv
<1>12. \A sk \in Sockets : Undisturbed(sk)' => Undisturbed(sk) /\ CidOf(sk) \notin closed
  BY <1>5, <1>6, <1>7, <1>8, AttemptType, SocketFrame DEF Undisturbed
<1>13. OwnInv'
  <2>1. OwnEntry'
    <3>1. \A sk \in Sockets : Undisturbed(sk)' => CidOf(sk)' = CidOf(sk) /\ AttemptOf(sk)' = AttemptOf(sk)
      BY Zenon, <1>6, <1>12, AttemptType, SocketFrame DEF Undisturbed
    <3> QED
      BY Zenon, <1>12, <3>1 DEF ProbesIInv, OwnInv, OwnEntry
  <2>2. Reported'
    BY Zenon, <1>12, SocketFrame DEF ProbesIInv, OwnInv, Reported, OpenReported
  <2>3. OpensOfAttempts'
    BY Zenon DEF ProbesIInv, OwnInv, OpensOfAttempts
  <2>4. OpenIsOwn'
    BY Zenon, <1>5 DEF ProbesIInv, ProbesTypeOK, OwnInv, OpensOfAttempts, OpenIsOwn
  <2> QED
    BY Zenon, <2>1, <2>2, <2>3, <2>4 DEF OwnInv
<1> QED
  BY Zenon, <1>9, <1>10, <1>11, <1>13

\* A process dies.
LEMMA KillInv ==
  ASSUME ProbesIInv, NEW pid \in Pids, Kill(pid)
  PROVE  ProbesIInv'
<1> DEFINE mine == {c \in Cids : c.pid = pid}
<1>1. /\ fds' = [c \in Cids |-> IF c \in mine THEN None ELSE fds[c]]
      /\ Abandon({fds[c] : c \in mine})
      /\ UNCHANGED <<sockets, syscall, fd_by_pid_tgid, connection_id_by_socket, active_connections,
                     active_l7_requests, clock, events>>
  BY Zenon DEF Kill, mapVars
<1>2. mine \in SUBSET Cids
  BY Zenon
<1> HIDE DEF mine
<1>3. /\ IsMap(attempts, 1..MaxTime, Attempt)' /\ DOMAIN attempts' = DOMAIN attempts
      /\ FdsOwn' /\ AttemptsInv' /\ OwnInv'
  BY Zenon, <1>1, <1>2, ClosingInv
<1>4. ProbesTypeOK'
  BY Zenon, <1>1, <1>3 DEF ProbesIInv, ProbesTypeOK
<1>5. CallsHold' /\ ConnectArgsTransient'
  BY Zenon, <1>1, SocketFrame DEF ProbesIInv, KernelInv, CallsHold, ConnectArgsTransient, InCall
<1> QED
  BY Zenon, <1>1, <1>3, <1>4, <1>5, StampsFrame DEF ProbesIInv, KernelInv

\* A descriptor is closed: its entry, if it has one, is reported and deleted.
LEMMA CloseInv ==
  ASSUME ProbesIInv, NEW t \in Threads, NEW fd \in Fds, sys_enter_close(t, fd)
  PROVE  ProbesIInv'
<1> DEFINE cid == Cid(t, fd)
           conn == active_connections[cid]
           call == [call |-> "fput", sk |-> fds[cid], dst |-> None]
           event == [type |-> "close", cid |-> cid, timestamp |-> conn.timestamp,
                     src |-> None, dst |-> None, sent |-> conn.sent, received |-> conn.received,
                     of |-> sockets[fds[cid]].attempt]
<1>1. /\ syscall[t] = None /\ fds[cid] # None
      /\ fds' = [fds EXCEPT ![cid] = None]
      /\ syscall' = [syscall EXCEPT ![t] = call]
      /\ Abandon({fds[cid]})
      /\ UNCHANGED <<sockets, fd_by_pid_tgid, connection_id_by_socket, active_l7_requests, clock>>
  BY Zenon DEF sys_enter_close
<1>2. \/ /\ cid \in DOMAIN active_connections
         /\ events' = events \cup {event}
         /\ active_connections' = DeleteAll(active_connections, {cid})
      \/ /\ cid \notin DOMAIN active_connections
         /\ UNCHANGED <<events, active_connections>>
  BY Zenon DEF sys_enter_close, CloseReports, Delete
<1>3. cid \in Cids /\ fds[cid] \in Sockets /\ fds[cid] \in Allocated
  BY Zenon, <1>1, CidType DEF ProbesIInv, ProbesTypeOK, KernelInv, FdsOwn
<1>4. call \in Syscall /\ call # None /\ call.call = "fput"
  BY <1>3, ProbesAssumption DEF Syscall
<1>5. cid \in DOMAIN active_connections => conn \in Connection
  BY Zenon DEF ProbesIInv, ProbesTypeOK, IsMap
<1>6. sockets[fds[cid]].attempt \in 0..MaxTime
  BY Zenon, <1>3 DEF ProbesIInv, ProbesTypeOK, Allocated, Socket
<1>7. cid \in DOMAIN active_connections =>
        event \in Event /\ event.type = "close" /\ event.timestamp = conn.timestamp
  BY <1>3, <1>5, <1>6, ProbesAssumption DEF Event, Connection
<1> HIDE DEF call, conn, event
<1>8. /\ fds' = [c \in Cids |-> IF c \in {cid} THEN None ELSE fds[c]]
      /\ {fds[c] : c \in {cid}} = {fds[cid]}
  BY Zenon, <1>1, <1>3 DEF ProbesIInv, ProbesTypeOK
<1> HIDE DEF cid
<1>9. /\ \A c \in DOMAIN active_connections \ {cid} :
           c \in DOMAIN active_connections' /\ active_connections'[c] = active_connections[c]
      /\ DOMAIN active_connections' = DOMAIN active_connections \ {cid}
      /\ events \subseteq events'
      /\ \A e \in events' \ events : e = event /\ cid \in DOMAIN active_connections
  <2>1. CASE cid \in DOMAIN active_connections
    <3>1. /\ DOMAIN active_connections' = DOMAIN active_connections \ {cid}
          /\ \A c \in DOMAIN active_connections \ {cid} :
               active_connections'[c] = active_connections[c]
      BY Zenon, <1>2, <2>1 DEF DeleteAll
    <3> QED
      BY Zenon, <1>2, <2>1, <3>1
  <2>2. CASE cid \notin DOMAIN active_connections
    BY Zenon, <1>2, <2>2
  <2> QED
    BY Zenon, <2>1, <2>2
<1>10. /\ IsMap(attempts, 1..MaxTime, Attempt)' /\ DOMAIN attempts' = DOMAIN attempts
       /\ FdsOwn' /\ AttemptsInv' /\ OwnInv'
  <2>1. {cid} \in SUBSET Cids
    BY Zenon, <1>3
  <2>2. \A e \in events' \ events : e.type = "close"
    BY Zenon, <1>7, <1>9
  <2>3. Abandon({fds[c] : c \in {cid}})
    BY Zenon, <1>1, <1>8
  <2> QED
    BY Zenon, <1>1, <1>8, <1>9, <2>1, <2>2, <2>3, ClosingInv
<1>11. ProbesTypeOK'
  <2>1. IsMap(active_connections', Cids, Connection)
    BY <1>2, DeleteType DEF ProbesIInv, ProbesTypeOK
  <2>2. events' \subseteq Event
    BY Zenon, <1>2, <1>7 DEF ProbesIInv, ProbesTypeOK
  <2>3. syscall' \in [Threads -> Syscall \cup {None}]
    BY Zenon, <1>1, <1>4 DEF ProbesIInv, ProbesTypeOK
  <2>4. fds' \in [Cids -> Sockets \cup {None}]
    BY Zenon, <1>1, <1>3 DEF ProbesIInv, ProbesTypeOK
  <2> QED
    BY Zenon, <1>1, <1>10, <2>1, <2>2, <2>3, <2>4 DEF ProbesIInv, ProbesTypeOK
<1>12. CallsHold' /\ ConnectArgsTransient'
  <2>1. syscall'[t] = call /\ \A u \in Threads \ {t} : syscall'[u] = syscall[u]
    BY Zenon, <1>1 DEF ProbesIInv, ProbesTypeOK
  <2>2. CallsHold'
    BY Zenon, <1>1, <1>4, <2>1, SocketFrame DEF ProbesIInv, KernelInv, CallsHold, InCall
  <2>3. ConnectArgsTransient'
    BY Zenon, <1>1, <1>4, <2>1
    DEF ProbesIInv, ProbesTypeOK, KernelInv, ConnectArgsTransient, InCall, IsMap
  <2> QED
    BY Zenon, <2>2, <2>3
<1>13. StampsInv'
  <2>1. Stamped'
    BY SMTT(30), <1>1, <1>5, <1>7, <1>9 DEF ProbesIInv, StampsInv, Stamped, Connection, conn
  <2>2. ClosedOnce'
    BY <1>7, <1>9 DEF ProbesIInv, StampsInv, Stamped, ClosedOnce, conn
  <2> QED
    BY Zenon, <2>1, <2>2 DEF StampsInv
<1> QED
  BY Zenon, <1>10, <1>11, <1>12, <1>13 DEF ProbesIInv, KernelInv

\* No connection is entered, nothing is reported closed.
LEMMA StampsCalm ==
  ASSUME StampsInv, UNCHANGED clock,
         DOMAIN active_connections' \subseteq DOMAIN active_connections,
         \A c \in DOMAIN active_connections' : active_connections'[c] = active_connections[c],
         events \subseteq events', \A e \in events' \ events : e.type # "close"
  PROVE  StampsInv'
<1>1. Stamped'
  BY Zenon DEF StampsInv, Stamped
<1>2. ClosedOnce'
  BY Zenon DEF StampsInv, ClosedOnce
<1> QED
  BY Zenon, <1>1, <1>2 DEF StampsInv

\* An open event that joins a socket and a connection of one attempt.
IsOwn(e) ==
  \/ e.timestamp = e.of /\ e.cid = attempts[e.of].cid /\ e.dst = attempts[e.of].dst
  \/ attempts[e.of].abandoned
  \/ attempts[e.of].contended

\* No attempt is made, and what is newly opened joins what belongs together.
LEMMA OpensCalm ==
  ASSUME ProbesIInv,
         clock' \in Nat, clock <= clock',
         \A ts \in DOMAIN attempts : attempts'[ts] = attempts[ts],
         events \subseteq events',
         \A e \in events' \ events : e.type = "open" => e.of \in 1..clock /\ IsOwn(e)
  PROVE  OpensOfAttempts' /\ OpenIsOwn'
<1>1. \A e \in events' : e.type = "open" => e.of \in 1..clock
  BY Zenon DEF ProbesIInv, OwnInv, OpensOfAttempts
<1>2. \A e \in events' : e.type = "open" => IsOwn(e)
  BY Zenon DEF ProbesIInv, OwnInv, OpenIsOwn, IsOwn
<1>3. \A e \in events' : e.type = "open" => attempts'[e.of] = attempts[e.of]
  BY Zenon, <1>1, ClockType
<1>4. OpensOfAttempts'
  BY <1>1, ClockType DEF OpensOfAttempts
<1> QED
  BY Zenon, <1>2, <1>3, <1>4 DEF OpenIsOwn, IsOwn

\* No attempt is made, and no socket starts to connect.
LEMMA AttemptsCalm ==
  ASSUME ProbesIInv,
         Allocated' \subseteq Allocated,
         \A s \in Allocated' : AttemptOf(s)' = AttemptOf(s),
         Connecting' \subseteq Connecting, Connecting' \subseteq Allocated',
         \A s \in Connecting' : /\ sockets'[s].dst = sockets[s].dst
                                /\ s \in DOMAIN connection_id_by_socket'
                                /\ connection_id_by_socket'[s] = connection_id_by_socket[s],
         \A s \in Sockets : Live(s)' => Live(s) /\ s \in Allocated',
         UNCHANGED fds,
         clock' \in Nat, clock <= clock',
         \A ts \in DOMAIN attempts : attempts'[ts] = attempts[ts]
  PROVE  AttemptsInv'
<1>1. \A s \in Allocated' : AttemptOf(s) # 0 =>
        /\ AttemptOf(s) \in DOMAIN attempts
        /\ attempts'[AttemptOf(s)'] = attempts[AttemptOf(s)]
        /\ CidOf(s)' = CidOf(s)
  BY Zenon, AttemptType DEF CidOf
<1>2. \A s \in Connecting' : s \in Connecting /\ s \in Allocated' /\ AttemptOf(s) # 0
  BY Zenon, AttemptType
<1>3. \A s \in Allocated' : AttemptOf(s)' <= clock'
  BY SMTT(30), ClockType, AttemptType
<1>4. AttemptsOwn'
  BY Zenon, <1>1, <1>3 DEF ProbesIInv, AttemptsInv, AttemptsOwn
<1>5. LiveAttempts'
  BY Zenon DEF ProbesIInv, AttemptsInv, LiveAttempts
<1>6. ConnectingOwn'
  BY SMTT(30), <1>1, <1>2 DEF ProbesIInv, AttemptsInv, ConnectingOwn
<1>7. RivalsContended'
  BY SMTT(30), <1>1, <1>2 DEF ProbesIInv, AttemptsInv, RivalsContended
<1> QED
  BY Zenon, <1>4, <1>5, <1>6, <1>7 DEF AttemptsInv

\* What is left undisturbed keeps its entry, and what is newly established is
\* reported.
LEMMA EntriesCalm ==
  ASSUME ProbesIInv,
         \A s \in Allocated' : AttemptOf(s)' = AttemptOf(s),
         \A s \in Sockets : Live(s)' => Live(s) /\ s \in Allocated',
         \A s \in Sockets : Undisturbed(s) /\ Live(s)' /\ InState(s, "ESTABLISHED")' =>
            \/ InState(s, "ESTABLISHED")
            \/ \E e \in events' : e.type = "open" /\ e.of = AttemptOf(s) /\ e.timestamp = AttemptOf(s),
         UNCHANGED fds,
         \A ts \in DOMAIN attempts : attempts'[ts] = attempts[ts],
         \A s \in Sockets : Undisturbed(s) /\ Live(s)' =>
            /\ CidOf(s) \in DOMAIN active_connections'
            /\ active_connections'[CidOf(s)].timestamp = active_connections[CidOf(s)].timestamp,
         events \subseteq events'
  PROVE  OwnEntry' /\ Reported'
<1>1. \A s \in Sockets : Live(s)' => Live(s) /\ s \in Allocated' /\ AttemptOf(s) # 0
  BY Zenon, AttemptType
<1>2. \A s \in Sockets : Live(s)' =>
        /\ AttemptOf(s)' = AttemptOf(s)
        /\ attempts'[AttemptOf(s)'] = attempts[AttemptOf(s)]
        /\ CidOf(s)' = CidOf(s)
  BY Zenon, <1>1, AttemptType DEF CidOf
<1>3. \A s \in Sockets : Undisturbed(s)' => Undisturbed(s) /\ Live(s)'
  BY Zenon, <1>1, <1>2 DEF Undisturbed
<1>4. OwnEntry'
  BY Zenon, <1>2, <1>3 DEF ProbesIInv, OwnInv, OwnEntry
<1>5. Reported'
  <2> SUFFICES ASSUME NEW s \in Sockets, Undisturbed(s)', InState(s, "ESTABLISHED")'
               PROVE  \E e \in events' : /\ e.type = "open" /\ e.of = AttemptOf(s)'
                                         /\ e.timestamp = AttemptOf(s)'
    BY Zenon DEF Reported, OpenReported
  <2>1. Undisturbed(s) /\ Live(s)' /\ AttemptOf(s)' = AttemptOf(s)
    BY Zenon, <1>2, <1>3
  <2>2. InState(s, "ESTABLISHED") => OpenReported(AttemptOf(s))
    BY Zenon, <2>1 DEF ProbesIInv, OwnInv, Reported
  <2>3. \E e \in events' : e.type = "open" /\ e.of = AttemptOf(s) /\ e.timestamp = AttemptOf(s)
    BY Zenon, <2>1, <2>2 DEF OpenReported
  <2> QED
    BY Zenon, <2>1, <2>3
<1> QED
  BY Zenon, <1>4, <1>5

\* No attempt is made, what is left undisturbed keeps its entry, and what is
\* newly established is reported.
LEMMA CalmInv ==
  ASSUME ProbesIInv,
         Allocated' \subseteq Allocated,
         \A s \in Allocated' : AttemptOf(s)' = AttemptOf(s),
         Connecting' \subseteq Connecting, Connecting' \subseteq Allocated',
         \A s \in Connecting' : /\ sockets'[s].dst = sockets[s].dst
                                /\ s \in DOMAIN connection_id_by_socket'
                                /\ connection_id_by_socket'[s] = connection_id_by_socket[s],
         \A s \in Sockets : Live(s)' => Live(s) /\ s \in Allocated',
         \A s \in Sockets : Undisturbed(s) /\ Live(s)' /\ InState(s, "ESTABLISHED")' =>
            \/ InState(s, "ESTABLISHED")
            \/ \E e \in events' : e.type = "open" /\ e.of = AttemptOf(s) /\ e.timestamp = AttemptOf(s),
         UNCHANGED fds,
         clock' \in Nat, clock <= clock',
         \A ts \in DOMAIN attempts : attempts'[ts] = attempts[ts],
         \A s \in Sockets : Undisturbed(s) /\ Live(s)' =>
            /\ CidOf(s) \in DOMAIN active_connections'
            /\ active_connections'[CidOf(s)].timestamp = active_connections[CidOf(s)].timestamp,
         events \subseteq events',
         \A e \in events' \ events : e.type = "open" => e.of \in 1..clock /\ IsOwn(e)
  PROVE  AttemptsInv' /\ OwnInv'
<1>1. AttemptsInv'
  BY Zenon, AttemptsCalm
<1>2. OwnEntry' /\ Reported'
  BY Zenon, EntriesCalm
<1>3. OpensOfAttempts' /\ OpenIsOwn'
  BY Zenon, OpensCalm
<1> QED
  BY Zenon, <1>1, <1>2, <1>3 DEF OwnInv

\* The entry a failed connect leaves with is its own: what shares the number
\* with it is contended.
LEMMA FailedIsOwn ==
  ASSUME ProbesIInv, NEW sk \in Connecting, NEW s \in Sockets, s # sk, Undisturbed(s)
  PROVE  CidOf(s) # connection_id_by_socket[sk]
<1>1. Live(s) /\ s \in Allocated /\ AttemptOf(s) # 0
  BY Zenon, AttemptType DEF Undisturbed
<1>2. connection_id_by_socket[sk] = CidOf(sk)
  BY Zenon DEF ProbesIInv, AttemptsInv, ConnectingOwn
<1> QED
  BY Zenon, <1>1, <1>2 DEF ProbesIInv, AttemptsInv, RivalsContended, Undisturbed

\* A connect fails: both its entries go, and the error is reported.
LEMMA ConnectFailedEffects ==
  ASSUME ProbesIInv, NEW sk \in Connecting, ConnectFailed(sk)
  PROVE  /\ IsMap(connection_id_by_socket', Sockets, Cids)
         /\ \A s \in Connecting \ {sk} : /\ s \in DOMAIN connection_id_by_socket'
                                         /\ connection_id_by_socket'[s] = connection_id_by_socket[s]
         /\ IsMap(active_connections', Cids, Connection)
         /\ DOMAIN active_connections' \subseteq DOMAIN active_connections
         /\ \A c \in DOMAIN active_connections' : active_connections'[c] = active_connections[c]
         /\ \A c \in DOMAIN active_connections :
              c # connection_id_by_socket[sk] => c \in DOMAIN active_connections'
         /\ events' \subseteq Event /\ events \subseteq events'
         /\ \A e \in events' \ events : e.type = "error"
<1>1. /\ IsMap(connection_id_by_socket, Sockets, Cids) /\ IsMap(active_connections, Cids, Connection)
      /\ events \subseteq Event
      /\ \A s \in Connecting : s \in DOMAIN connection_id_by_socket
  BY Zenon DEF ProbesIInv, ProbesTypeOK, AttemptsInv, ConnectingOwn
<1>2. CASE Tracked(sk)
  <2>1. /\ connection_id_by_socket' = DeleteAll(connection_id_by_socket, {sk})
        /\ active_connections' = DeleteAll(active_connections, {connection_id_by_socket[sk]})
        /\ events' = events \cup {ConnectEvent(sk, "error", 0)}
    BY Zenon, <1>2 DEF ConnectFailed, Delete
  <2>2. ConnectEvent(sk, "error", 0) \in Event /\ ConnectEvent(sk, "error", 0).type = "error"
    <3>1. sockets[sk] \in Socket
      BY Zenon DEF ProbesIInv, ProbesTypeOK, Connecting, InState, Allocated
    <3>2. connection_id_by_socket[sk] \in Cids
      BY Zenon, <1>1, <1>2 DEF IsMap, Tracked
    <3> QED
      BY SMTT(30), <3>1, <3>2, ProbesAssumption DEF ConnectEvent, Event, Socket
  <2>3. /\ IsMap(connection_id_by_socket', Sockets, Cids)
        /\ IsMap(active_connections', Cids, Connection)
    BY Zenon, <1>1, <2>1, DeleteType
  <2>4. \A s \in Connecting \ {sk} : /\ s \in DOMAIN connection_id_by_socket'
                                     /\ connection_id_by_socket'[s] = connection_id_by_socket[s]
    BY Zenon, <1>1, <2>1 DEF DeleteAll
  <2>5. /\ DOMAIN active_connections' = DOMAIN active_connections \ {connection_id_by_socket[sk]}
        /\ \A c \in DOMAIN active_connections' : active_connections'[c] = active_connections[c]
    BY Zenon, <2>1 DEF DeleteAll
  <2> QED
    BY Zenon, <1>1, <2>1, <2>2, <2>3, <2>4, <2>5
<1>3. CASE ~Tracked(sk)
  BY Zenon, <1>1, <1>3 DEF ConnectFailed
<1> QED
  BY Zenon, <1>2, <1>3

\* A socket changes its state and nothing else.
LEMMA GotoEffects ==
  ASSUME ProbesIInv, NEW sk \in Allocated,
         NEW state \in {"CLOSE", "SYN_SENT", "ESTABLISHED", "CLOSE_WAIT"}, Goto(sk, state)
  PROVE  /\ sockets' \in [Sockets -> Socket \cup {None}]
         /\ Allocated' = Allocated
         /\ sockets'[sk].state = state
         /\ \A s \in Allocated : /\ AttemptOf(s)' = AttemptOf(s)
                                 /\ sockets'[s].dst = sockets[s].dst
                                 /\ sockets'[s].proto = sockets[s].proto
                                 /\ s # sk => sockets'[s] = sockets[s]
<1>1. sockets \in [Sockets -> Socket \cup {None}] /\ sk \in Sockets /\ sockets[sk] \in Socket
  BY Zenon DEF ProbesIInv, ProbesTypeOK, Allocated
<1>2. sockets'[sk] = [sockets[sk] EXCEPT !.state = state]
      /\ \A s \in Sockets \ {sk} : sockets'[s] = sockets[s]
  BY Zenon, <1>1 DEF Goto
<1>3. /\ sockets'[sk] \in Socket /\ sockets'[sk].state = state
      /\ sockets'[sk].attempt = sockets[sk].attempt
      /\ sockets'[sk].dst = sockets[sk].dst
      /\ sockets'[sk].proto = sockets[sk].proto
  BY Zenon, <1>1, <1>2 DEF Socket
<1>4. sockets' \in [Sockets -> Socket \cup {None}]
  <2>1. sockets' = [sockets EXCEPT ![sk] = sockets'[sk]]
    BY Zenon, <1>1, <1>2 DEF Goto
  <2> QED
    BY Zenon, <1>1, <1>3, <2>1
<1>5. Allocated' = Allocated
  BY Zenon, <1>2, <1>3, ProbesAssumption DEF Allocated
<1> QED
  BY Zenon, <1>2, <1>3, <1>4, <1>5 DEF AttemptOf, Allocated

\* The kernel's part of the invariant, when no descriptor and no call changes.
LEMMA KernelFrame ==
  ASSUME KernelInv, Allocated' = Allocated, UNCHANGED <<fds, syscall, fd_by_pid_tgid>>
  PROVE  KernelInv'
BY Zenon DEF KernelInv, FdsOwn, CallsHold, ConnectArgsTransient, InCall

\* A connect reaches SYN_SENT: the attempt is entered for the socket and for the
\* descriptor number, and whatever else uses the number becomes its rival.
LEMMA SynSentInv ==
  ASSUME ProbesIInv, NEW t \in Threads, NEW src \in Ports, SynSent(t, src)
  PROVE  ProbesIInv'
<1>sk. PICK sk : sk = syscall[t].sk
  BY Zenon
<1> DEFINE dst == syscall[t].dst
           cid == Cid(t, fd_by_pid_tgid[t])
           rivals == {ts \in DOMAIN attempts : attempts[ts].cid = cid /\
                        \E s \in Allocated \ {sk} : /\ sockets[s].attempt = ts
                                                    /\ s \in Connecting \/ fds[cid] = s}
           first == [cid |-> cid, dst |-> dst, abandoned |-> fds[cid] # sk,
                     contended |-> rivals # {}]
           socket == [state |-> "SYN_SENT", proto |-> sockets[sk].proto, src |-> src, dst |-> dst,
                      attempt |-> clock + 1]
<1>0. /\ InCall(t, "connect") /\ clock < MaxTime /\ t \in DOMAIN fd_by_pid_tgid
      /\ IsTcp(sk) /\ InState(sk, "CLOSE")
      /\ sockets' = [sockets EXCEPT ![sk].state = "SYN_SENT", ![sk].src = src,
                                    ![sk].dst = dst, ![sk].attempt = clock']
      /\ fd_by_pid_tgid' = DeleteAll(fd_by_pid_tgid, {t})
      /\ connection_id_by_socket' = Update(connection_id_by_socket, sk, cid)
      /\ active_connections' = Update(active_connections, cid, NewConnection(clock'))
      /\ attempts' = [ts \in 1..clock' |-> IF ts = clock' THEN first
                        ELSE [attempts[ts] EXCEPT !.contended = @ \/ ts \in rivals]]
  BY Zenon, <1>sk DEF SynSent, SynSentUpdates, Delete
<1>1. clock' = clock + 1 /\ UNCHANGED <<fds, syscall, active_l7_requests, events>>
  BY Zenon DEF SynSent
<1>2. sk \in Sockets /\ sk \in Allocated /\ dst \in Peers /\ cid \in Cids
  <2>1. fd_by_pid_tgid[t] \in Fds
    BY Zenon, <1>0 DEF ProbesIInv, ProbesTypeOK, IsMap
  <2>2. sk \in Sockets /\ dst \in Peers
    BY Zenon, <1>sk, <1>0 DEF ProbesIInv, ProbesTypeOK, KernelInv, CallsHold, InCall, Syscall
  <2> QED
    BY Zenon, <1>0, <2>1, <2>2, CidType DEF InState
<1>3. clock \in Nat /\ clock + 1 \in 1..MaxTime /\ DOMAIN attempts = 1..clock
  BY SMTT(30), <1>0, ProbesAssumption DEF ProbesIInv, ProbesTypeOK
<1>4. sockets[sk] \in Socket /\ sockets[sk] # None
  BY Zenon, <1>2 DEF ProbesIInv, ProbesTypeOK, Allocated
<1>5. sockets'[sk] = socket /\ \A s \in Sockets \ {sk} : sockets'[s] = sockets[s]
  <2>1. sockets \in [Sockets -> Socket \cup {None}]
    BY Zenon DEF ProbesIInv, ProbesTypeOK
  <2>2. \A s \in Sockets \ {sk} : sockets'[s] = sockets[s]
    BY Zenon, <1>0, <2>1
  <2>3. sockets'[sk] = [sockets[sk] EXCEPT !.state = "SYN_SENT", !.src = src, !.dst = dst,
                                           !.attempt = clock + 1]
    BY Zenon, <1>0, <1>1, <1>2, <2>1
  <2> QED
    BY Zenon, <1>4, <2>2, <2>3 DEF Socket
<1>6. socket \in Socket /\ socket # None
  BY Zenon, <1>2, <1>3, <1>4, NewSocketType
<1>7. first \in Attempt
  BY Zenon, <1>2 DEF Attempt
<1>8. /\ socket.state = "SYN_SENT" /\ socket.attempt = clock + 1 /\ socket.dst = dst
      /\ socket.proto = sockets[sk].proto
      /\ first.cid = cid /\ first.dst = dst
      /\ first.abandoned <=> fds[cid] # sk
      /\ first.contended <=> rivals # {}
  BY Zenon
<1>9. \A s \in Allocated \ {sk} :
        /\ AttemptOf(s) \in DOMAIN attempts
        /\ attempts[AttemptOf(s)].cid = cid
        /\ s \in Connecting \/ fds[cid] = s
        => AttemptOf(s) \in rivals
  BY Zenon DEF AttemptOf
<1>10. sockets' \in [Sockets -> Socket \cup {None}]
  <2>1. DOMAIN sockets' = Sockets
    BY Zenon, <1>0 DEF ProbesIInv, ProbesTypeOK
  <2>2. sockets' = [s \in DOMAIN sockets' |-> sockets'[s]]
    BY Zenon, <1>0
  <2> QED
    BY <1>2, <1>5, <1>6, <2>1, <2>2 DEF ProbesIInv, ProbesTypeOK
<1> HIDE DEF socket, first, rivals, dst, cid
<1>11. /\ Allocated' = Allocated
       /\ Connecting' = Connecting \cup {sk} /\ sk \notin Connecting
       /\ Live(sk)' /\ ~InState(sk, "ESTABLISHED")' /\ AttemptOf(sk)' = clock + 1
       /\ \A s \in Sockets \ {sk} : /\ (Live(s)' <=> Live(s)) /\ AttemptOf(s)' = AttemptOf(s)
                                    /\ InState(s, "ESTABLISHED")' <=> InState(s, "ESTABLISHED")
  <2>1. InState(sk, "CLOSE")
    BY Zenon, <1>0
  <2> QED
    BY Zenon, <1>2, <1>4, <1>5, <1>6, <1>8, <2>1 DEF Allocated, Connecting, Live, InState, IsTcp, AttemptOf
<1>12. /\ DOMAIN attempts' = 1..(clock + 1)
       /\ attempts'[clock + 1] = first
       /\ \A ts \in DOMAIN attempts :
            /\ attempts'[ts] \in Attempt
            /\ attempts'[ts].cid = attempts[ts].cid
            /\ attempts'[ts].dst = attempts[ts].dst
            /\ attempts'[ts].abandoned = attempts[ts].abandoned
            /\ attempts'[ts].contended <=> attempts[ts].contended \/ ts \in rivals
  <2>1. \A ts \in DOMAIN attempts : attempts[ts] \in Attempt
    BY Zenon DEF ProbesIInv, ProbesTypeOK, IsMap
  <2>2. attempts' = [ts \in 1..(clock + 1) |-> IF ts = clock + 1 THEN first
                       ELSE [attempts[ts] EXCEPT !.contended = @ \/ ts \in rivals]]
    BY Zenon, <1>0, <1>1
  <2>3. /\ DOMAIN attempts' = 1..(clock + 1)
        /\ attempts'[clock + 1] = first
        /\ \A ts \in DOMAIN attempts :
             attempts'[ts] = [attempts[ts] EXCEPT !.contended = @ \/ ts \in rivals]
    BY SMTT(30), <1>3, <2>2
  <2> QED
    BY ZenonT(40), <2>1, <2>3 DEF Attempt
<1>13. /\ CidOf(sk)' = cid
       /\ \A s \in Allocated \ {sk} : AttemptOf(s) # 0 => CidOf(s)' = CidOf(s)
  BY Zenon, <1>8, <1>11, <1>12, AttemptType DEF CidOf, Allocated
<1>14. /\ IsMap(active_connections', Cids, Connection)
       /\ DOMAIN active_connections' = DOMAIN active_connections \cup {cid}
       /\ active_connections'[cid].timestamp = clock + 1
       /\ \A c \in DOMAIN active_connections \ {cid} :
            active_connections'[c] = active_connections[c]
       /\ StampsInv'
  BY Zenon, <1>0, <1>1, <1>2, StampNew
<1>16. ProbesTypeOK'
  <2>2. IsMap(fd_by_pid_tgid', Threads, Fds)
    BY Zenon, <1>0, DeleteType DEF ProbesIInv, ProbesTypeOK
  <2>3. IsMap(connection_id_by_socket', Sockets, Cids)
    BY Zenon, <1>0, <1>2, UpdateType DEF ProbesIInv, ProbesTypeOK
  <2>5. IsMap(attempts', 1..MaxTime, Attempt) /\ DOMAIN attempts' = 1..clock'
    <3>1. \A ts \in 1..(clock + 1) : ts = clock + 1 \/ ts \in DOMAIN attempts
      BY SMTT(30), <1>3
    <3>2. 1..(clock + 1) \subseteq 1..MaxTime
      BY SMTT(30), <1>3, ProbesAssumption
    <3>3. \A ts \in DOMAIN attempts' : attempts'[ts] \in Attempt
      BY Zenon, <1>7, <1>12, <3>1
    <3> QED
      BY Zenon, <1>1, <1>12, <3>2, <3>3 DEF IsMap
  <2>6. clock' \in 0..MaxTime
    BY SMTT(30), <1>1, <1>3
  <2> QED
    BY Zenon, <1>1, <1>10, <1>14, <2>2, <2>3, <2>5, <2>6 DEF ProbesIInv, ProbesTypeOK
<1>17. KernelInv'
  <2>1. FdsOwn'
    BY Zenon, <1>1, <1>11 DEF ProbesIInv, KernelInv, FdsOwn
  <2>3. CallsHold'
    BY Zenon, <1>1, <1>11 DEF ProbesIInv, KernelInv, CallsHold, InCall
  <2>2. ConnectArgsTransient'
    <3>1. DOMAIN fd_by_pid_tgid' \subseteq DOMAIN fd_by_pid_tgid
      BY Zenon, <1>0 DEF DeleteAll
    <3> QED
      BY Zenon, <1>1, <3>1 DEF ProbesIInv, KernelInv, ConnectArgsTransient, InCall
  <2> QED
    BY Zenon, <2>1, <2>2, <2>3 DEF KernelInv
<1>19. AttemptsInv'
  <2>1. AttemptsOwn'
    <3>1. \A s \in Allocated \ {sk} : AttemptOf(s) \in 0..clock /\ AttemptOf(s) < clock + 1
      BY SMTT(30), <1>3, AttemptType
    <3>2. ASSUME NEW s \in Allocated, s # sk
          PROVE  /\ AttemptOf(s)' <= clock'
                 /\ AttemptOf(s)' # 0 => \A r \in Allocated : AttemptOf(r)' = AttemptOf(s)' => r = s
                 /\ AttemptOf(s)' # 0 /\ ~attempts'[AttemptOf(s)'].abandoned =>
                      \A c \in Cids : fds'[c] = s => c = CidOf(s)'
      <4>1. s \in Sockets /\ AttemptOf(s)' = AttemptOf(s) /\ AttemptOf(s) \in 0..clock
        BY Zenon, <1>11, <3>1, <3>2 DEF Allocated
      <4>2. AttemptOf(s)' <= clock'
        BY SMTT(30), <1>1, <1>3, <4>1
      <4>3. ASSUME AttemptOf(s)' # 0, NEW r \in Allocated, AttemptOf(r)' = AttemptOf(s)'
            PROVE  r = s
        <5>1. r # sk
          BY SMTT(30), <1>3, <1>11, <4>1, <4>3
        <5>2. AttemptOf(r) = AttemptOf(s)
          BY Zenon, <1>11, <4>1, <4>3, <5>1 DEF Allocated
        <5> QED
          BY Zenon, <3>2, <4>1, <4>3, <5>2 DEF ProbesIInv, AttemptsInv, AttemptsOwn
      <4>4. ASSUME AttemptOf(s)' # 0, ~attempts'[AttemptOf(s)'].abandoned,
                   NEW c \in Cids, fds'[c] = s
            PROVE  c = CidOf(s)'
        <5>1. AttemptOf(s) \in DOMAIN attempts
          BY SMTT(30), <1>3, <4>1, <4>4
        <5>2. AttemptOf(s) # 0 /\ ~attempts[AttemptOf(s)].abandoned /\ fds[c] = s
          BY Zenon, <1>1, <1>12, <4>1, <4>4, <5>1
        <5>3. CidOf(s)' = CidOf(s)
          BY Zenon, <1>13, <3>2, <5>2
        <5> QED
          BY Zenon, <3>2, <5>2, <5>3 DEF ProbesIInv, AttemptsInv, AttemptsOwn
      <4> QED
        BY Zenon, <4>2, <4>3, <4>4
    <3>3. /\ AttemptOf(sk)' <= clock'
          /\ AttemptOf(sk)' # 0 => \A r \in Allocated : AttemptOf(r)' = AttemptOf(sk)' => r = sk
          /\ AttemptOf(sk)' # 0 /\ ~attempts'[AttemptOf(sk)'].abandoned =>
               \A c \in Cids : fds'[c] = sk => c = CidOf(sk)'
      <4>1. AttemptOf(sk)' <= clock'
        BY SMTT(30), <1>1, <1>3, <1>11
      <4>2. ASSUME NEW r \in Allocated, AttemptOf(r)' = AttemptOf(sk)'
            PROVE  r = sk
        <5>1. r # sk => AttemptOf(r)' = AttemptOf(r)
          BY Zenon, <1>11 DEF Allocated
        <5> QED
          BY SMTT(30), <1>3, <1>11, <3>1, <4>2, <5>1
      <4>3. ASSUME ~attempts'[AttemptOf(sk)'].abandoned, NEW c \in Cids, fds'[c] = sk
            PROVE  c = CidOf(sk)'
        <5>1. fds[cid] = sk /\ fds[c] = sk
          BY Zenon, <1>1, <1>8, <1>11, <1>12, <4>3
        <5>2. sk # None
          BY Zenon, <1>2, ProbesAssumption
        <5> QED
          BY Zenon, <1>2, <1>13, <5>1, <5>2 DEF ProbesIInv, KernelInv, FdsOwn
      <4> QED
        BY Zenon, <4>1, <4>2, <4>3
    <3> QED
      BY Zenon, <1>11, <3>2, <3>3 DEF AttemptsOwn
  <2>2. LiveAttempts'
    BY SMTT(30), <1>3, <1>11 DEF ProbesIInv, AttemptsInv, LiveAttempts
  <2>3. ConnectingOwn'
    <3>0. /\ DOMAIN connection_id_by_socket' = DOMAIN connection_id_by_socket \cup {sk}
          /\ connection_id_by_socket'[sk] = cid
          /\ \A s \in DOMAIN connection_id_by_socket \ {sk} :
               connection_id_by_socket'[s] = connection_id_by_socket[s]
      BY Zenon, <1>0 DEF Update
    <3>1. ASSUME NEW s \in Connecting
          PROVE  /\ sockets'[s].dst = attempts'[AttemptOf(s)'].dst
                 /\ s \in DOMAIN connection_id_by_socket'
                 /\ connection_id_by_socket'[s] = CidOf(s)'
                 /\ ~attempts'[AttemptOf(s)'].abandoned => fds'[CidOf(s)'] = s
      <4>1. s # sk /\ s \in Sockets /\ s \in Allocated /\ AttemptOf(s) # 0
        BY Zenon, <1>11, AttemptType DEF Allocated
      <4>2. AttemptOf(s) \in DOMAIN attempts
        BY Zenon, <4>1, AttemptType
      <4> QED
        <5>1. /\ sockets[s].dst = attempts[AttemptOf(s)].dst
              /\ s \in DOMAIN connection_id_by_socket
              /\ connection_id_by_socket[s] = CidOf(s)
              /\ ~attempts[AttemptOf(s)].abandoned => fds[CidOf(s)] = s
          BY Zenon DEF ProbesIInv, AttemptsInv, ConnectingOwn
        <5>2. sockets'[s] = sockets[s] /\ AttemptOf(s)' = AttemptOf(s) /\ CidOf(s)' = CidOf(s)
          BY Zenon, <1>5, <1>11, <1>13, <4>1
        <5>3. /\ attempts'[AttemptOf(s)].dst = attempts[AttemptOf(s)].dst
              /\ attempts'[AttemptOf(s)].abandoned = attempts[AttemptOf(s)].abandoned
          BY Zenon, <1>12, <4>2
        <5>4. s \in DOMAIN connection_id_by_socket' /\ connection_id_by_socket'[s] = CidOf(s)
          BY Zenon, <3>0, <4>1, <5>1
        <5> QED
          BY Zenon, <1>1, <5>1, <5>2, <5>3, <5>4
    <3>2. /\ sockets'[sk].dst = attempts'[AttemptOf(sk)'].dst
          /\ sk \in DOMAIN connection_id_by_socket'
          /\ connection_id_by_socket'[sk] = CidOf(sk)'
          /\ ~attempts'[AttemptOf(sk)'].abandoned => fds'[CidOf(sk)'] = sk
      BY Zenon, <1>1, <1>5, <1>8, <1>11, <1>12, <1>13, <3>0
    <3> QED
      BY Zenon, <1>11, <3>1, <3>2 DEF ConnectingOwn
  <2>4. RivalsContended'
    <3> SUFFICES ASSUME NEW x \in Connecting', NEW s \in Allocated', s # x, AttemptOf(s)' # 0,
                        CidOf(s)' = CidOf(x)', s \in Connecting' \/ fds'[CidOf(x)'] = s
                 PROVE  attempts'[AttemptOf(s)'].contended
      BY Zenon DEF RivalsContended
    <3>1. CASE x = sk
      <4>1. s \in Allocated \ {sk} /\ s \in Sockets /\ AttemptOf(s)' = AttemptOf(s)
        BY Zenon, <1>11, <3>1 DEF Allocated
      <4>2. AttemptOf(s) \in DOMAIN attempts /\ CidOf(s) = cid
        BY Zenon, <1>13, <3>1, <4>1, AttemptType
      <4>3. AttemptOf(s) \in rivals
        BY Zenon, <1>1, <1>9, <1>11, <1>13, <3>1, <4>1, <4>2 DEF CidOf
      <4> QED
        BY Zenon, <1>12, <4>1, <4>2, <4>3
    <3>2. CASE x # sk /\ s = sk
      <4>1. x \in Connecting /\ x \in Allocated \ {sk} /\ AttemptOf(x) # 0
        BY Zenon, <1>11, <3>2, AttemptType
      <4>2. AttemptOf(x) \in DOMAIN attempts /\ CidOf(x) = cid
        BY Zenon, <1>13, <3>2, <4>1, AttemptType
      <4>3. AttemptOf(x) \in rivals
        BY Zenon, <1>9, <4>1, <4>2 DEF CidOf
      <4> QED
        BY Zenon, <1>8, <1>11, <1>12, <3>2, <4>3
    <3>3. CASE x # sk /\ s # sk
      <4>1. x \in Connecting /\ x \in Allocated \ {sk} /\ AttemptOf(x) # 0
        BY Zenon, <1>11, <3>3, AttemptType
      <4>2. s \in Allocated \ {sk} /\ s \in Sockets /\ AttemptOf(s)' = AttemptOf(s)
        BY Zenon, <1>11, <3>3 DEF Allocated
      <4>3. AttemptOf(s) \in DOMAIN attempts
        BY Zenon, <4>2, AttemptType
      <4>4. attempts[AttemptOf(s)].contended
        BY Zenon, <1>1, <1>11, <1>13, <3>3, <4>1, <4>2 DEF ProbesIInv, AttemptsInv, RivalsContended
      <4> QED
        BY Zenon, <1>12, <4>2, <4>3, <4>4
    <3> QED
      BY Zenon, <3>1, <3>2, <3>3
  <2> QED
    BY Zenon, <2>1, <2>2, <2>3, <2>4 DEF AttemptsInv
<1>20. OwnInv'
  <2>1. \A s \in Sockets \ {sk} : Undisturbed(s)' => Undisturbed(s) /\ CidOf(s) # cid
    <3> SUFFICES ASSUME NEW s \in Sockets, s # sk, Undisturbed(s)'
                 PROVE  Undisturbed(s) /\ CidOf(s) # cid
      BY Zenon
    <3>1. Live(s) /\ s \in Allocated \ {sk} /\ AttemptOf(s) # 0 /\ AttemptOf(s)' = AttemptOf(s)
      BY Zenon, <1>11, AttemptType DEF Undisturbed
    <3>2. AttemptOf(s) \in DOMAIN attempts /\ CidOf(s)' = CidOf(s)
      BY Zenon, <1>13, <3>1, AttemptType
    <3>3. Undisturbed(s) /\ AttemptOf(s) \notin rivals /\ fds[CidOf(s)] = s
      BY Zenon, <1>1, <1>12, <3>1, <3>2 DEF Undisturbed
    <3> QED
      BY Zenon, <1>9, <3>1, <3>2, <3>3 DEF CidOf
  <2>2. OwnEntry'
    <3>1. \A s \in Sockets \ {sk} : Undisturbed(s)' =>
            CidOf(s)' = CidOf(s) /\ AttemptOf(s)' = AttemptOf(s)
      BY Zenon, <1>11, <1>13, <2>1, AttemptType DEF Undisturbed
    <3> QED
      BY Zenon, <1>2, <1>11, <1>13, <1>14, <2>1, <3>1 DEF ProbesIInv, OwnInv, OwnEntry
  <2>3. Reported'
    <3>1. ASSUME NEW s \in Sockets, Undisturbed(s)', InState(s, "ESTABLISHED")'
          PROVE  s # sk /\ Undisturbed(s) /\ InState(s, "ESTABLISHED") /\ AttemptOf(s)' = AttemptOf(s)
      BY Zenon, <1>11, <2>1, <3>1
    <3> QED
      BY Zenon, <1>1, <3>1 DEF ProbesIInv, OwnInv, Reported, OpenReported
  <2>4. \A e \in events : e.type = "open" => e.of \in 1..clock
    BY Zenon DEF ProbesIInv, OwnInv, OpensOfAttempts
  <2>5. OpensOfAttempts'
    BY SMTT(30), <1>1, <1>3, <2>4 DEF OpensOfAttempts
  <2>6. \A ts \in 1..clock : /\ attempts[ts].abandoned => attempts'[ts].abandoned
                             /\ attempts[ts].contended => attempts'[ts].contended
                             /\ attempts'[ts].cid = attempts[ts].cid
                             /\ attempts'[ts].dst = attempts[ts].dst
    BY Zenon, <1>3, <1>12
  <2>7. OpenIsOwn'
    BY Zenon, <1>1, <2>4, <2>6 DEF ProbesIInv, OwnInv, OpenIsOwn
  <2> QED
    BY ZenonT(40), <2>2, <2>3, <2>5, <2>7 DEF OwnInv
<1> QED
  BY Zenon, <1>14, <1>16, <1>17, <1>19, <1>20 DEF ProbesIInv


\* The peer refuses a connect.
LEMMA RefusedInv ==
  ASSUME ProbesIInv, NEW sk \in Sockets, Refused(sk)
  PROVE  ProbesIInv'
<1>1. /\ InState(sk, "SYN_SENT") /\ Goto(sk, "CLOSE") /\ ConnectFailed(sk)
      /\ UNCHANGED <<fds, syscall, fd_by_pid_tgid, active_l7_requests, clock, attempts>>
  BY Zenon DEF Refused
<1>2. sk \in Allocated /\ sk \in Connecting
  BY Zenon, <1>1 DEF InState, Connecting
<1>3. /\ sockets' \in [Sockets -> Socket \cup {None}]
      /\ Allocated' = Allocated
      /\ sockets'[sk].state = "CLOSE"
      /\ \A s \in Allocated : /\ AttemptOf(s)' = AttemptOf(s)
                              /\ sockets'[s].dst = sockets[s].dst
                              /\ s # sk => sockets'[s] = sockets[s]
  BY Zenon, <1>1, <1>2, GotoEffects
<1>4. /\ Connecting' = Connecting \ {sk} /\ Connecting' \subseteq Allocated'
      /\ \A s \in Sockets : Live(s)' => Live(s) /\ s \in Allocated' /\ s # sk
      /\ \A s \in Sockets : Live(s)' /\ InState(s, "ESTABLISHED")' => InState(s, "ESTABLISHED")
  BY Zenon, <1>2, <1>3 DEF Connecting, Live, InState, IsTcp, Allocated
<1>5. ProbesTypeOK'
  BY Zenon, <1>1, <1>2, <1>3, ConnectFailedEffects DEF ProbesIInv, ProbesTypeOK
<1>6. KernelInv'
  BY Zenon, <1>1, <1>3, KernelFrame DEF ProbesIInv
<1>7. StampsInv'
  BY Zenon, <1>1, <1>2, ConnectFailedEffects, StampsCalm DEF ProbesIInv
<1>8. AttemptsInv' /\ OwnInv'
  <2>1. clock' \in Nat /\ clock <= clock'
    BY SMTT(30), <1>1 DEF ProbesIInv, ProbesTypeOK
  <2>2. \A s \in Sockets : Undisturbed(s) /\ Live(s)' =>
          /\ CidOf(s) \in DOMAIN active_connections'
          /\ active_connections'[CidOf(s)].timestamp = active_connections[CidOf(s)].timestamp
    BY Zenon, <1>1, <1>2, <1>4, FailedIsOwn, ConnectFailedEffects DEF ProbesIInv, OwnInv, OwnEntry
  <2>3. \A s \in Connecting' : /\ sockets'[s].dst = sockets[s].dst
                               /\ s \in DOMAIN connection_id_by_socket'
                               /\ connection_id_by_socket'[s] = connection_id_by_socket[s]
    BY Zenon, <1>1, <1>2, <1>3, <1>4, ConnectFailedEffects
  <2>4. events \subseteq events' /\ \A e \in events' \ events : e.type # "open"
    BY Zenon, <1>1, <1>2, ConnectFailedEffects
  <2> QED
    BY Zenon, <1>1, <1>3, <1>4, <2>1, <2>2, <2>3, <2>4, CalmInv
<1> QED
  BY Zenon, <1>5, <1>6, <1>7, <1>8 DEF ProbesIInv

\* The peer closes or resets a connection.
LEMMA PeerClosesInv ==
  ASSUME ProbesIInv, NEW sk \in Sockets, NEW state \in {"CLOSE_WAIT", "CLOSE"}, PeerCloses(sk, state)
  PROVE  ProbesIInv'
<1>1. /\ InState(sk, "ESTABLISHED") /\ IsTcp(sk) /\ Goto(sk, state)
      /\ \/ connection_id_by_socket' = DeleteAll(connection_id_by_socket, {sk})
         \/ connection_id_by_socket' = connection_id_by_socket
      /\ UNCHANGED <<fds, syscall, fd_by_pid_tgid, active_connections, active_l7_requests,
                     clock, events, attempts>>
  BY Zenon DEF PeerCloses, Delete
<1>2. sk \in Allocated /\ sk \notin Connecting
  BY Zenon, <1>1 DEF InState, Connecting
<1>3. /\ sockets' \in [Sockets -> Socket \cup {None}]
      /\ Allocated' = Allocated
      /\ sockets'[sk].state = state
      /\ \A s \in Allocated : /\ AttemptOf(s)' = AttemptOf(s)
                              /\ sockets'[s].dst = sockets[s].dst
                              /\ s # sk => sockets'[s] = sockets[s]
  BY Zenon, <1>1, <1>2, GotoEffects
<1>4. /\ Connecting' = Connecting /\ Connecting' \subseteq Allocated'
      /\ \A s \in Sockets : Live(s)' => Live(s) /\ s \in Allocated'
      /\ \A s \in Sockets : Live(s)' /\ InState(s, "ESTABLISHED")' => InState(s, "ESTABLISHED")
  BY Zenon, <1>2, <1>3 DEF Connecting, Live, InState, IsTcp, Allocated
<1>5. ProbesTypeOK'
  <2>1. IsMap(connection_id_by_socket', Sockets, Cids)
    BY SMTT(30), <1>1, DeleteType DEF ProbesIInv, ProbesTypeOK
  <2> QED
    BY Zenon, <1>1, <1>3, <2>1 DEF ProbesIInv, ProbesTypeOK
<1>6. KernelInv'
  BY Zenon, <1>1, <1>3, KernelFrame DEF ProbesIInv
<1>7. AttemptsInv' /\ OwnInv'
  <2>1. clock' \in Nat /\ clock <= clock'
    BY SMTT(30), <1>1 DEF ProbesIInv, ProbesTypeOK
  <2>2. \A s \in Sockets : Undisturbed(s) => CidOf(s) \in DOMAIN active_connections'
    BY Zenon, <1>1 DEF ProbesIInv, OwnInv, OwnEntry
  <2>3. \A s \in Connecting' : /\ s \in DOMAIN connection_id_by_socket'
                               /\ connection_id_by_socket'[s] = connection_id_by_socket[s]
    BY Zenon, <1>1, <1>2, <1>4 DEF ProbesIInv, AttemptsInv, ConnectingOwn, DeleteAll
  <2>4. \A s \in Connecting' : sockets'[s].dst = sockets[s].dst
    BY Zenon, <1>3, <1>4
  <2> QED
    BY Zenon, <1>1, <1>3, <1>4, <2>1, <2>2, <2>3, <2>4, CalmInv
<1> QED
  BY Zenon, <1>1, <1>5, <1>6, <1>7, StampsFrame DEF ProbesIInv

\* A socket nothing refers to is released.
LEMMA ReleaseInv ==
  ASSUME ProbesIInv, NEW sk \in Sockets, Release(sk)
  PROVE  ProbesIInv'
<1>1. /\ sk \in Allocated /\ (\A c \in Cids : fds[c] # sk) /\ (\A t \in Threads : ~Holds(t, sk))
      /\ sockets' = [sockets EXCEPT ![sk] = None]
      /\ syscall' = [t \in Threads |-> IF InCall(t, "fput") /\ syscall[t].sk = sk THEN None
                                       ELSE syscall[t]]
      /\ UNCHANGED <<fds, fd_by_pid_tgid, active_l7_requests, clock, attempts>>
  BY Zenon DEF Release
<1>2. \/ sk \in Connecting /\ ConnectFailed(sk)
      \/ /\ sk \notin Connecting
         /\ \/ connection_id_by_socket' = DeleteAll(connection_id_by_socket, {sk})
            \/ connection_id_by_socket' = connection_id_by_socket
         /\ UNCHANGED <<active_connections, events>>
  BY Zenon DEF Release, Connecting, Delete
<1>3. sockets'[sk] = None /\ \A s \in Sockets \ {sk} : sockets'[s] = sockets[s]
  BY Zenon, <1>1 DEF ProbesIInv, ProbesTypeOK
<1>4. /\ Allocated' = Allocated \ {sk}
      /\ \A s \in Allocated' : AttemptOf(s)' = AttemptOf(s) /\ sockets'[s].dst = sockets[s].dst
      /\ Connecting' = Connecting \ {sk} /\ Connecting' \subseteq Allocated'
      /\ \A s \in Sockets : Live(s)' => Live(s) /\ s \in Allocated'
      /\ \A s \in Sockets : Live(s)' /\ InState(s, "ESTABLISHED")' => InState(s, "ESTABLISHED")
  BY Zenon, <1>3 DEF Connecting, Live, InState, IsTcp, Allocated, AttemptOf
<1>5. /\ IsMap(connection_id_by_socket', Sockets, Cids)
      /\ \A s \in Connecting \ {sk} : /\ s \in DOMAIN connection_id_by_socket'
                                      /\ connection_id_by_socket'[s] = connection_id_by_socket[s]
      /\ IsMap(active_connections', Cids, Connection)
      /\ DOMAIN active_connections' \subseteq DOMAIN active_connections
      /\ \A c \in DOMAIN active_connections' : active_connections'[c] = active_connections[c]
      /\ \A c \in DOMAIN active_connections :
           \/ sk \in Connecting /\ c = connection_id_by_socket[sk]
           \/ c \in DOMAIN active_connections'
      /\ events' \subseteq Event /\ events \subseteq events'
      /\ \A e \in events' \ events : e.type = "error"
  <2>1. CASE sk \in Connecting
    BY Zenon, <1>2, <2>1, ConnectFailedEffects
  <2>2. CASE sk \notin Connecting
    <3>1. IsMap(connection_id_by_socket', Sockets, Cids)
      BY SMTT(30), <1>2, <2>2, DeleteType DEF ProbesIInv, ProbesTypeOK
    <3>2. \A s \in Connecting \ {sk} :
            /\ s \in DOMAIN connection_id_by_socket'
            /\ connection_id_by_socket'[s] = connection_id_by_socket[s]
      BY Zenon, <1>2, <2>2 DEF ProbesIInv, AttemptsInv, ConnectingOwn, DeleteAll
    <3> QED
      BY Zenon, <1>2, <2>2, <3>1, <3>2 DEF ProbesIInv, ProbesTypeOK
  <2> QED
    BY Zenon, <2>1, <2>2
<1>6. ProbesTypeOK'
  <2>1. sockets' \in [Sockets -> Socket \cup {None}]
    BY Zenon, <1>1 DEF ProbesIInv, ProbesTypeOK
  <2>2. syscall' \in [Threads -> Syscall \cup {None}]
    BY Zenon, <1>1 DEF ProbesIInv, ProbesTypeOK
  <2> QED
    BY Zenon, <1>1, <1>5, <2>1, <2>2 DEF ProbesIInv, ProbesTypeOK
<1>7. KernelInv'
  <2>1. FdsOwn'
    BY Zenon, <1>1, <1>4 DEF ProbesIInv, KernelInv, FdsOwn
  <2>2. \A t \in Threads : \/ syscall'[t] = None /\ InCall(t, "fput")
                           \/ syscall'[t] = syscall[t]
    BY Zenon, <1>1
  <2>3. CallsHold'
    BY Zenon, <1>1, <1>4, <2>2 DEF ProbesIInv, KernelInv, CallsHold, InCall, Holds
  <2>4. ConnectArgsTransient'
    BY Zenon, <1>1, <2>2 DEF ProbesIInv, ProbesTypeOK, IsMap, KernelInv, ConnectArgsTransient, InCall
  <2> QED
    BY Zenon, <2>1, <2>3, <2>4 DEF KernelInv
<1>8. StampsInv'
  BY Zenon, <1>1, <1>5, StampsCalm DEF ProbesIInv
<1>9. AttemptsInv' /\ OwnInv'
  <2>1. clock' \in Nat /\ clock <= clock'
    BY SMTT(30), <1>1 DEF ProbesIInv, ProbesTypeOK
  <2>2. \A s \in Sockets : Undisturbed(s) /\ Live(s)' =>
          /\ CidOf(s) \in DOMAIN active_connections'
          /\ active_connections'[CidOf(s)].timestamp = active_connections[CidOf(s)].timestamp
    BY Zenon, <1>4, <1>5, FailedIsOwn DEF ProbesIInv, OwnInv, OwnEntry
  <2>3. \A s \in Connecting' : /\ sockets'[s].dst = sockets[s].dst
                               /\ s \in DOMAIN connection_id_by_socket'
                               /\ connection_id_by_socket'[s] = connection_id_by_socket[s]
    BY Zenon, <1>4, <1>5
  <2>4. \A e \in events' \ events : e.type # "open"
    BY Zenon, <1>5
  <2> QED
    BY Zenon, <1>1, <1>4, <1>5, <2>1, <2>2, <2>3, <2>4, CalmInv
<1> QED
  BY Zenon, <1>6, <1>7, <1>8, <1>9 DEF ProbesIInv

\* The peer answers a connect: the event joins the addresses of the socket with
\* the entry of its descriptor number.
LEMMA EstablishedInv ==
  ASSUME ProbesIInv, NEW sk \in Sockets, Established(sk)
  PROVE  ProbesIInv'
<1> DEFINE ts == active_connections[connection_id_by_socket[sk]].timestamp
           open == ConnectEvent(sk, "open", ts)
<1>1. /\ InState(sk, "SYN_SENT") /\ Goto(sk, "ESTABLISHED")
      /\ UNCHANGED <<fds, syscall, fd_by_pid_tgid, connection_id_by_socket, active_connections,
                     active_l7_requests, clock, attempts>>
      /\ IF Tracked(sk) THEN events' = events \cup {open} ELSE events' = events
  BY Zenon DEF Established, mapVars
<1>2. sk \in Allocated /\ sk \in Connecting
  BY Zenon, <1>1 DEF InState, Connecting
<1>3. /\ sockets' \in [Sockets -> Socket \cup {None}]
      /\ Allocated' = Allocated
      /\ sockets'[sk].state = "ESTABLISHED"
      /\ \A s \in Allocated : /\ AttemptOf(s)' = AttemptOf(s)
                              /\ sockets'[s].dst = sockets[s].dst
                              /\ s # sk => sockets'[s] = sockets[s]
  BY Zenon, <1>1, <1>2, GotoEffects
<1>4. /\ Connecting' = Connecting \ {sk} /\ Connecting' \subseteq Allocated'
      /\ \A s \in Sockets : Live(s)' => Live(s) /\ s \in Allocated'
      /\ \A s \in Sockets \ {sk} : InState(s, "ESTABLISHED")' => InState(s, "ESTABLISHED")
  BY Zenon, <1>1, <1>2, <1>3 DEF Connecting, Live, InState, IsTcp, Allocated
<1>5. /\ AttemptOf(sk) \in 1..clock /\ connection_id_by_socket[sk] = CidOf(sk)
      /\ sk \in DOMAIN connection_id_by_socket
      /\ sockets[sk].dst = attempts[AttemptOf(sk)].dst
      /\ ~attempts[AttemptOf(sk)].abandoned => fds[CidOf(sk)] = sk
  <2>1. AttemptOf(sk) \in 0..clock /\ AttemptOf(sk) # 0 /\ clock \in Nat
    BY SMTT(30), <1>2, AttemptType DEF ProbesIInv, ProbesTypeOK
  <2>2. AttemptOf(sk) \in 1..clock
    BY SMTT(30), <2>1
  <2> QED
    BY Zenon, <1>2, <2>2 DEF ProbesIInv, AttemptsInv, ConnectingOwn
<1>6. Undisturbed(sk) => Tracked(sk) /\ ts = AttemptOf(sk)
  BY Zenon, <1>5 DEF ProbesIInv, OwnInv, OwnEntry, Tracked
<1>7. Tracked(sk) => open \in Event /\ ts \in 0..MaxTime
  <2>1. Tracked(sk) => ts \in 0..MaxTime /\ connection_id_by_socket[sk] \in Cids
    BY SMTT(30) DEF ProbesIInv, ProbesTypeOK, IsMap, Tracked, Connection
  <2>2. sockets[sk] \in Socket
    BY Zenon, <1>2 DEF ProbesIInv, ProbesTypeOK, Allocated
  <2> QED
    BY Zenon, <2>1, <2>2 DEF ConnectEvent, Event, Socket
<1>8. /\ open.type = "open" /\ open.of = AttemptOf(sk) /\ open.timestamp = ts
      /\ open.cid = connection_id_by_socket[sk] /\ open.dst = sockets[sk].dst
  BY Zenon DEF ConnectEvent, AttemptOf
<1> HIDE DEF ts, open
<1>9. IsOwn(open)
  <2>1. CASE attempts[AttemptOf(sk)].abandoned \/ attempts[AttemptOf(sk)].contended
    BY Zenon, <1>8, <2>1 DEF IsOwn
  <2>2. CASE ~attempts[AttemptOf(sk)].abandoned /\ ~attempts[AttemptOf(sk)].contended
    <3>1. Undisturbed(sk)
      BY Zenon, <1>2, <1>5, <2>2, AttemptType DEF Undisturbed
    <3> QED
      BY Zenon, <1>5, <1>6, <1>8, <3>1 DEF IsOwn, CidOf
  <2> QED
    BY Zenon, <2>1, <2>2
<1>10. /\ events \subseteq events' /\ \A e \in events' \ events : e = open /\ Tracked(sk)
       /\ Tracked(sk) => open \in events'
  BY Zenon, <1>1
<1>11. ProbesTypeOK'
  <2>1. events' \subseteq Event
    BY Zenon, <1>7, <1>10 DEF ProbesIInv, ProbesTypeOK
  <2> QED
    BY Zenon, <1>1, <1>3, <2>1 DEF ProbesIInv, ProbesTypeOK
<1>12. KernelInv'
  BY Zenon, <1>1, <1>3, KernelFrame DEF ProbesIInv
<1>13. StampsInv'
  BY Zenon, <1>1, <1>8, <1>10, StampsCalm DEF ProbesIInv
<1>14. AttemptsInv' /\ OwnInv'
  <2>1. clock' \in Nat /\ clock <= clock'
    BY SMTT(30), <1>1 DEF ProbesIInv, ProbesTypeOK
  <2>2. \A s \in Sockets : Undisturbed(s) /\ Live(s)' =>
          /\ CidOf(s) \in DOMAIN active_connections'
          /\ active_connections'[CidOf(s)].timestamp = active_connections[CidOf(s)].timestamp
    BY Zenon, <1>1 DEF ProbesIInv, OwnInv, OwnEntry
  <2>3. \A s \in Connecting' : /\ sockets'[s].dst = sockets[s].dst
                               /\ s \in DOMAIN connection_id_by_socket'
                               /\ connection_id_by_socket'[s] = connection_id_by_socket[s]
    BY Zenon, <1>1, <1>3, <1>4 DEF ProbesIInv, AttemptsInv, ConnectingOwn
  <2>4. \A s \in Sockets : Undisturbed(s) /\ Live(s)' /\ InState(s, "ESTABLISHED")' =>
          \/ InState(s, "ESTABLISHED")
          \/ \E e \in events' : e.type = "open" /\ e.of = AttemptOf(s) /\ e.timestamp = AttemptOf(s)
    BY Zenon, <1>4, <1>6, <1>8, <1>10
  <2>5. \A e \in events' \ events : e.type = "open" => e.of \in 1..clock /\ IsOwn(e)
    BY Zenon, <1>5, <1>8, <1>9, <1>10
  <2> QED
    BY Zenon, <1>1, <1>3, <1>4, <1>10, <2>1, <2>2, <2>3, <2>4, <2>5, CalmInv
<1> QED
  BY <1>11, <1>12, <1>13, <1>14 DEF ProbesIInv

\* A connect returns: its argument is no longer in the map, and the connection
\* of a socket that never was in SYN_SENT is entered, if the number is free.
LEMMA ExitConnectEffects ==
  ASSUME ProbesIInv, NEW t \in Threads, NEW ret, InCall(t, "connect"), ExitConnect(t, ret),
         UNCHANGED events
  PROVE  /\ IsMap(fd_by_pid_tgid', Threads, Fds) /\ DOMAIN fd_by_pid_tgid' = DOMAIN fd_by_pid_tgid \ {t}
         /\ UNCHANGED connection_id_by_socket
         /\ DOMAIN active_l7_requests' \subseteq DOMAIN active_l7_requests
         /\ IsMap(active_connections', Cids, Connection)
         /\ \A c \in DOMAIN active_connections :
              c \in DOMAIN active_connections' /\ active_connections'[c] = active_connections[c]
         /\ clock' \in 0..MaxTime /\ clock <= clock'
         /\ IsMap(attempts', 1..MaxTime, Attempt) /\ DOMAIN attempts' = 1..clock'
         /\ \A ts \in DOMAIN attempts : attempts'[ts] = attempts[ts]
         /\ StampsInv'
<1>1. /\ IsMap(fd_by_pid_tgid, Threads, Fds) /\ IsMap(active_connections, Cids, Connection)
      /\ clock \in 0..MaxTime /\ clock \in Nat
      /\ IsMap(attempts, 1..MaxTime, Attempt) /\ DOMAIN attempts = 1..clock
      /\ StampsInv
  BY SMTT(30) DEF ProbesIInv, ProbesTypeOK
<1>2. CASE t \notin DOMAIN fd_by_pid_tgid
  <2>1. UNCHANGED <<fd_by_pid_tgid, connection_id_by_socket, active_connections,
                    active_l7_requests, clock, attempts>>
    BY Zenon, <1>2 DEF ExitConnect, mapVars
  <2>2. clock <= clock' /\ clock' \in 0..MaxTime
    BY SMTT(30), <1>1, <2>1
  <2>3. StampsInv'
    BY Zenon, <1>1, <2>1, StampsFrame
  <2> QED
    BY Zenon, <1>1, <1>2, <2>1, <2>2, <2>3
<1>3. CASE t \in DOMAIN fd_by_pid_tgid
  <2> DEFINE cid == Cid(t, fd_by_pid_tgid[t])
             first == [cid |-> cid, dst |-> syscall[t].dst, abandoned |-> FALSE, contended |-> FALSE]
  <2>1. /\ \/ /\ cid \notin DOMAIN active_connections /\ clock < MaxTime /\ clock' = clock + 1
              /\ active_connections' = Update(active_connections, cid, NewConnection(clock + 1))
              /\ attempts' = Update(attempts, clock + 1, first)
           \/ UNCHANGED <<active_connections, clock, attempts>>
        /\ fd_by_pid_tgid' = DeleteAll(fd_by_pid_tgid, {t})
        /\ UNCHANGED connection_id_by_socket
    BY Zenon, <1>3 DEF ExitConnect, Delete
  <2>2. DOMAIN active_l7_requests' \subseteq DOMAIN active_l7_requests
    BY Zenon, <1>3 DEF ExitConnect, DeleteAll
  <2>3. cid \in Cids /\ first \in Attempt
    <3>1. cid \in Cids
      BY Zenon, <1>1, <1>3, CidType DEF IsMap
    <3>2. syscall[t].dst \in Peers
      BY Zenon DEF ProbesIInv, KernelInv, CallsHold
    <3> QED
      BY Zenon, <3>1, <3>2 DEF Attempt
  <2> HIDE DEF cid, first
  <2>4. /\ IsMap(fd_by_pid_tgid', Threads, Fds)
        /\ DOMAIN fd_by_pid_tgid' = DOMAIN fd_by_pid_tgid \ {t}
    BY Zenon, <1>1, <2>1, DeleteType, DeleteProperties
  <2>5. CASE UNCHANGED <<active_connections, clock, attempts>>
    BY SMTT(30), <1>1, <2>1, <2>2, <2>4, <2>5, StampsFrame
  <2>6. CASE /\ cid \notin DOMAIN active_connections /\ clock < MaxTime /\ clock' = clock + 1
             /\ active_connections' = Update(active_connections, cid, NewConnection(clock + 1))
             /\ attempts' = Update(attempts, clock + 1, first)
    <3>1. clock' \in 0..MaxTime /\ clock <= clock' /\ clock + 1 \in 1..MaxTime
      BY SMTT(30), <1>1, <2>6, ProbesAssumption
    <3>2. IsMap(attempts', 1..MaxTime, Attempt)
      BY Zenon, <1>1, <2>3, <2>6, <3>1, UpdateType
    <3>3. DOMAIN attempts' = 1..(clock + 1)
      <4>1. DOMAIN attempts' = (1..clock) \cup {clock + 1}
        BY Zenon, <1>1, <2>6 DEF Update
      <4> QED
        BY SMTT(30), <1>1, <4>1
    <3>4. \A ts \in DOMAIN attempts : attempts'[ts] = attempts[ts]
      <4>1. clock + 1 \notin DOMAIN attempts
        BY SMTT(30), <1>1
      <4> QED
        BY Zenon, <2>6, <4>1 DEF Update
    <3>5. /\ IsMap(active_connections', Cids, Connection)
          /\ DOMAIN active_connections' = DOMAIN active_connections \cup {cid}
          /\ \A c \in DOMAIN active_connections \ {cid} :
               active_connections'[c] = active_connections[c]
          /\ StampsInv'
      BY Zenon, <2>3, <2>6, StampNew
    <3> QED
      BY Zenon, <2>1, <2>2, <2>4, <2>6, <3>1, <3>2, <3>3, <3>4, <3>5
  <2> QED
    BY Zenon, <2>1, <2>5, <2>6
<1> QED
  BY Zenon, <1>2, <1>3

\* A connect returns, and its thread with it.
LEMMA ExitConnectInv ==
  ASSUME ProbesIInv, NEW t \in Threads, NEW ret \in {0, -1}, sys_exit_connect(t, ret)
  PROVE  ProbesIInv'
<1>sk. PICK sk : sk = syscall[t].sk
  BY Zenon
<1> DEFINE fput == [call |-> "fput", sk |-> sk, dst |-> None]
<1>1. /\ InCall(t, "connect") /\ ExitConnect(t, ret)
      /\ UNCHANGED <<fds, events>>
      /\ syscall' = [syscall EXCEPT ![t] = IF HeldByOther(t, sk) THEN None ELSE fput]
  BY Zenon, <1>sk DEF sys_exit_connect, LeaveCall
<1>e. /\ IsMap(fd_by_pid_tgid', Threads, Fds) /\ DOMAIN fd_by_pid_tgid' = DOMAIN fd_by_pid_tgid \ {t}
      /\ UNCHANGED connection_id_by_socket
      /\ DOMAIN active_l7_requests' \subseteq DOMAIN active_l7_requests
      /\ IsMap(active_connections', Cids, Connection)
      /\ \A c \in DOMAIN active_connections :
           c \in DOMAIN active_connections' /\ active_connections'[c] = active_connections[c]
      /\ clock' \in 0..MaxTime /\ clock <= clock'
      /\ IsMap(attempts', 1..MaxTime, Attempt) /\ DOMAIN attempts' = 1..clock'
      /\ \A ts \in DOMAIN attempts : attempts'[ts] = attempts[ts]
      /\ StampsInv'
  BY Zenon, <1>1, ExitConnectEffects
<1>2. \/ UNCHANGED sockets
      \/ /\ ~IsTcp(sk)
         /\ sockets' = [sockets EXCEPT ![sk].state = "ESTABLISHED", ![sk].dst = syscall[t].dst]
  BY Zenon, <1>sk DEF sys_exit_connect
<1>3. sk \in Sockets /\ sk \in Allocated /\ sockets[sk] \in Socket /\ syscall[t].dst \in Peers
  BY Zenon, <1>sk, <1>1 DEF ProbesIInv, ProbesTypeOK, KernelInv, CallsHold, InCall, Syscall, Allocated
<1>4. fput \in Syscall /\ fput # None /\ fput.call = "fput"
  BY SMTT(30), <1>3, ProbesAssumption DEF Syscall
<1>5. /\ sockets' \in [Sockets -> Socket \cup {None}]
      /\ Allocated' = Allocated
      /\ \A s \in Allocated : AttemptOf(s)' = AttemptOf(s)
      /\ Connecting' \subseteq Connecting /\ Connecting' \subseteq Allocated'
      /\ \A s \in Connecting' : sockets'[s].dst = sockets[s].dst
      /\ \A s \in Sockets : Live(s)' => Live(s) /\ s \in Allocated'
      /\ \A s \in Sockets : Live(s)' /\ InState(s, "ESTABLISHED")' => InState(s, "ESTABLISHED")
  <2>1. CASE UNCHANGED sockets
    <3>1. sockets \in [Sockets -> Socket \cup {None}]
      BY Zenon DEF ProbesIInv, ProbesTypeOK
    <3>2. Connecting \subseteq Allocated /\ \A s \in Sockets : Live(s) => s \in Allocated
      BY Zenon DEF Connecting, Live, InState
    <3> QED
      BY Zenon, <2>1, <3>1, <3>2, SocketFrame
  <2>2. CASE /\ ~IsTcp(sk)
             /\ sockets' = [sockets EXCEPT ![sk].state = "ESTABLISHED", ![sk].dst = syscall[t].dst]
    <3>1. sockets \in [Sockets -> Socket \cup {None}]
      BY DEF ProbesIInv, ProbesTypeOK
    <3>2. /\ sockets'[sk] = [sockets[sk] EXCEPT !.state = "ESTABLISHED", !.dst = syscall[t].dst]
          /\ \A s \in Sockets \ {sk} : sockets'[s] = sockets[s]
      BY Zenon, <1>3, <2>2, <3>1
    <3>3. /\ sockets'[sk] \in Socket /\ sockets'[sk].state = "ESTABLISHED"
          /\ sockets'[sk].attempt = sockets[sk].attempt /\ sockets'[sk].proto = sockets[sk].proto
      BY Zenon, <1>3, <3>2 DEF Socket
    <3>4. sockets' \in [Sockets -> Socket \cup {None}]
      <4>1. sockets' = [sockets EXCEPT ![sk] = sockets'[sk]]
        BY Zenon, <1>3, <2>2, <3>1, <3>2
      <4> QED
        BY Zenon, <3>1, <3>3, <4>1
    <3>5. sockets'[sk] # None /\ sockets[sk] # None
      BY Zenon, <1>3, <3>3, ProbesAssumption
    <3>6. Allocated' = Allocated
      BY Zenon, <3>2, <3>5 DEF Allocated
    <3>7. \A s \in Sockets \ {sk} : /\ (Live(s)' <=> Live(s)) /\ AttemptOf(s)' = AttemptOf(s)
                                    /\ s \in Connecting' <=> s \in Connecting
                                    /\ InState(s, "ESTABLISHED")' <=> InState(s, "ESTABLISHED")
      BY Zenon, <3>2, <3>6 DEF Live, InState, IsTcp, AttemptOf, Connecting
    <3>8. ~Live(sk)' /\ sk \notin Connecting' /\ AttemptOf(sk)' = AttemptOf(sk)
      BY Zenon, <2>2, <3>3 DEF Live, InState, IsTcp, AttemptOf, Connecting
    <3>9. Connecting' \subseteq Sockets /\ Connecting' \subseteq Allocated' /\ Allocated \subseteq Sockets
      BY Zenon DEF Connecting, InState, Allocated
    <3>10. \A s \in Sockets : Live(s)' => s \in Allocated'
      BY Zenon DEF Live, InState
    <3> QED
      BY Zenon, <3>2, <3>4, <3>6, <3>7, <3>8, <3>9, <3>10
  <2> QED
    BY Zenon, <1>2, <2>1, <2>2
<1> HIDE DEF fput
<1>6. syscall'[t] \in {None, fput} /\ \A u \in Threads \ {t} : syscall'[u] = syscall[u]
  BY Zenon, <1>1 DEF ProbesIInv, ProbesTypeOK
<1>7. ProbesTypeOK'
  <2>1. syscall' \in [Threads -> Syscall \cup {None}]
    BY Zenon, <1>1, <1>4 DEF ProbesIInv, ProbesTypeOK
  <2>2. /\ fds' \in [Cids -> Sockets \cup {None}] /\ events' \subseteq Event
        /\ IsMap(connection_id_by_socket, Sockets, Cids) /\ DOMAIN active_l7_requests \subseteq RequestKeys
    BY Zenon, <1>1 DEF ProbesIInv, ProbesTypeOK
  <2> QED
    BY Zenon, <1>1, <1>5, <2>1, <2>2, <1>e DEF ProbesTypeOK
<1>8. KernelInv'
  <2>1. FdsOwn'
    BY Zenon, <1>1, <1>5 DEF ProbesIInv, KernelInv, FdsOwn
  <2>2. CallsHold'
    <3> SUFFICES ASSUME NEW u \in Threads
                 PROVE  /\ syscall'[u] # None /\ syscall'[u].call # "fput" => syscall'[u].sk \in Allocated'
                        /\ InCall(u, "connect")' => syscall'[u].dst \in Peers
      BY Zenon DEF CallsHold
    <3>1. CASE u = t
      <4>1. syscall'[u] = None \/ syscall'[u] = fput
        BY Zenon, <1>6, <3>1
      <4>2. fput.call # "connect"
        BY Zenon, <1>4
      <4> QED
        BY Zenon, <1>4, <4>1, <4>2 DEF InCall
    <3>2. CASE u # t
      <4>1. syscall'[u] = syscall[u]
        BY Zenon, <1>6, <3>2
      <4> QED
        BY Zenon, <1>5, <4>1 DEF ProbesIInv, KernelInv, CallsHold, InCall
    <3> QED
      BY Zenon, <3>1, <3>2
  <2>3. ConnectArgsTransient'
    <3>1. DOMAIN fd_by_pid_tgid' = DOMAIN fd_by_pid_tgid \ {t}
      BY Zenon, <1>1, <1>e
    <3>2. DOMAIN fd_by_pid_tgid \subseteq Threads
      BY Zenon DEF ProbesIInv, ProbesTypeOK, IsMap
    <3> QED
      BY Zenon, <1>6, <3>1, <3>2 DEF ProbesIInv, KernelInv, ConnectArgsTransient, InCall
  <2> QED
    BY Zenon, <2>1, <2>2, <2>3 DEF KernelInv
<1>9. AttemptsInv' /\ OwnInv'
  <2>1. clock' \in Nat /\ clock <= clock'
    <3>1. clock' \in 0..MaxTime /\ clock <= clock'
      BY Zenon, <1>e
    <3> QED
      BY SMTT(30), <3>1
  <2>2. \A s \in Sockets : Undisturbed(s) /\ Live(s)' =>
          /\ CidOf(s) \in DOMAIN active_connections'
          /\ active_connections'[CidOf(s)].timestamp = active_connections[CidOf(s)].timestamp
    BY Zenon, <1>1, <1>e DEF ProbesIInv, OwnInv, OwnEntry
  <2>3. \A s \in Connecting' : /\ s \in DOMAIN connection_id_by_socket'
                               /\ connection_id_by_socket'[s] = connection_id_by_socket[s]
    BY Zenon, <1>1, <1>5, <1>e DEF ProbesIInv, AttemptsInv, ConnectingOwn
  <2>4. \A ts \in DOMAIN attempts : attempts'[ts] = attempts[ts]
    BY Zenon, <1>1, <1>e
  <2> QED
    BY Zenon, <1>1, <1>5, <2>1, <2>2, <2>3, <2>4, CalmInv
<1> QED
  BY Zenon, <1>1, <1>7, <1>8, <1>9, <1>e DEF ProbesIInv

-----------------------------------------------------------------------------
(* The invariants of the probes, for every value of the constants          *)

\* Every step of the probes preserves the invariant.
LEMMA ProbesNextInv == ProbesIInv /\ [ProbesNext]_probeVars => ProbesIInv'
<1> SUFFICES ASSUME ProbesIInv, [ProbesNext]_probeVars
             PROVE  ProbesIInv'
  OBVIOUS
<1>1. CASE Connects
  BY Zenon, <1>1, EnterConnectInv DEF Connects
<1>2. CASE OtherCalls
  BY Zenon, <1>2, OpenSocketInv, SynSentInv, ExitConnectInv, CloseInv, CloseReturnsInv, KillInv DEF OtherCalls
<1>3. CASE Kernel
  BY Zenon, <1>3, EstablishedInv, RefusedInv, ReleaseInv, PeerClosesInv DEF Kernel
<1>4. CASE UNCHANGED probeVars
  <2>1. UNCHANGED <<sockets, fds, syscall, fd_by_pid_tgid, connection_id_by_socket,
                    active_connections, active_l7_requests, clock, events, attempts>>
    BY Zenon, <1>4 DEF probeVars, kernelVars, mapVars
  <2>2. ProbesTypeOK'
    BY Zenon, <2>1 DEF ProbesIInv, ProbesTypeOK
  <2> QED
    BY Zenon, <2>1, <2>2, SocketFrame, KernelFrame, StampsFrame, AttemptsFrame, OwnFrame DEF ProbesIInv
<1> QED
  BY Zenon, <1>1, <1>2, <1>3, <1>4 DEF ProbesNext

\* ProbesIInv is an invariant of the probes.
THEOREM ProbesInvariant == ProbesSpec => []ProbesIInv
BY ProbesInitInv, ProbesNextInv, PTL DEF ProbesSpec

\* The maps and the events of state.c have their types.
THEOREM ProbesTypes == ProbesSpec => []ProbesTypeOK
<1>1. ProbesIInv => ProbesTypeOK
  BY Zenon DEF ProbesIInv
<1> QED
  BY <1>1, ProbesInvariant, PTL

\* fd_by_pid_tgid holds the arguments of connects in progress and nothing else.
THEOREM ConnectArgsAlwaysTransient == ProbesSpec => []ConnectArgsTransient
<1>1. ProbesIInv => ConnectArgsTransient
  BY Zenon DEF ProbesIInv, KernelInv
<1> QED
  BY <1>1, ProbesInvariant, PTL

\* A connection is reported closed at most once, and leaves the map with it.
THEOREM AlwaysClosedOnce == ProbesSpec => []ClosedOnce
<1>1. ProbesIInv => ClosedOnce
  BY Zenon DEF ProbesIInv, StampsInv
<1> QED
  BY <1>1, ProbesInvariant, PTL

\* An open event is about one connection, unless its attempt was abandoned or
\* had a rival.
THEOREM OpenAlwaysOwn == ProbesSpec => []OpenIsOwn
<1>1. ProbesIInv => OpenIsOwn
  BY Zenon DEF ProbesIInv, OwnInv
<1> QED
  BY <1>1, ProbesInvariant, PTL

\* A connection whose descriptor is open was reported and is in the map, both
\* under its own timestamp, unless its attempt was abandoned or had a rival.
THEOREM EstablishedAlwaysTracked == ProbesSpec => []EstablishedTracked
<1>1. ASSUME ProbesIInv
      PROVE  EstablishedTracked
  <2> SUFFICES ASSUME NEW c \in Cids, Serving(c), Alone(c)
               PROVE  LET own == sockets[fds[c]].attempt IN
                      /\ c \in DOMAIN active_connections
                      /\ active_connections[c].timestamp = own
                      /\ \E e \in events : e.type = "open" /\ e.of = own /\ e.timestamp = own
    BY Zenon, <1>1 DEF EstablishedTracked
  <2>1. fds[c] \in Sockets /\ Live(fds[c]) /\ InState(fds[c], "ESTABLISHED")
    BY Zenon, <1>1 DEF Serving, Live, ProbesIInv, ProbesTypeOK
  <2>2. fds[c] \in Allocated /\ AttemptOf(fds[c]) # 0
    BY Zenon, <1>1, <2>1, AttemptType
  <2>3. /\ ~attempts[AttemptOf(fds[c])].abandoned
        /\ ~attempts[AttemptOf(fds[c])].contended
    BY Zenon DEF Alone, AttemptOf
  <2>4. c = CidOf(fds[c])
    BY Zenon, <1>1, <2>2, <2>3 DEF ProbesIInv, AttemptsInv, AttemptsOwn
  <2>5. Undisturbed(fds[c])
    BY Zenon, <2>1, <2>3, <2>4 DEF Undisturbed
  <2> QED
    BY Zenon, <1>1, <2>1, <2>4, <2>5 DEF ProbesIInv, OwnInv, OwnEntry, Reported, OpenReported, AttemptOf
<1> QED
  BY <1>1, ProbesInvariant, PTL

-----------------------------------------------------------------------------
(* The tables of a container                                               *)

\* A connection is entered under its own addresses and its own descriptor.
Keyed ==
  /\ \A k \in DOMAIN activeConnections : conns[activeConnections[k]].key = k
  /\ \A c \in DOMAIN connectionsByPidFd : conns[connectionsByPidFd[c]].cid = c

TableIInv == TableTypeOK /\ Keyed /\ OpenIsReachable /\ DestinationsKnown /\ StatsExpire

\* The initial states satisfy the invariant.
LEMMA TableInitInv == TableInit => TableIInv
BY Zenon DEF TableInit, TableIInv, TableTypeOK, Keyed, OpenIsReachable, DestinationsKnown, StatsExpire,
       IsMap, EmptyMap

\* The statistics of a destination, entered or not.
LEMMA StatsType ==
  ASSUME TableTypeOK, NEW dst
  PROVE  StatsOf(dst) \in Stats
BY Zenon DEF TableTypeOK, IsMap, StatsOf, Stats

-----------------------------------------------------------------------------
(* The handlers of the tables                                              *)

\* The invariant is about the tables only.
LEMMA FrameInv ==
  ASSUME TableIInv, UNCHANGED tableVars
  PROVE  TableIInv'
<1>1. UNCHANGED <<processes, conns, activeConnections, connectionsByPidFd, connectionStats,
                  failedConnectionAttempts, lastConnectionAttempts, closing, stray>>
  BY Zenon DEF tableVars, byKeyVars, statVars
<1>2. TableTypeOK'
  BY Zenon, <1>1 DEF TableIInv, TableTypeOK, IsMap
<1>3. Keyed' /\ OpenIsReachable'
  BY Zenon, <1>1 DEF TableIInv, Keyed, OpenIsReachable
<1>4. DestinationsKnown' /\ StatsExpire'
  BY Zenon, <1>1 DEF TableIInv, DestinationsKnown, StatsExpire
<1> QED
  BY Zenon, <1>2, <1>3, <1>4 DEF TableIInv

\* A process that starts or exits leaves the connections alone.
LEMMA ProcessInv ==
  ASSUME TableIInv, NEW pid \in TablePids, onProcessStart(pid) \/ onProcessExit(pid)
  PROVE  TableIInv'
<1>1. /\ UNCHANGED <<conns, activeConnections, connectionsByPidFd, connectionStats,
                     failedConnectionAttempts, lastConnectionAttempts, closing, stray>>
      /\ processes' \subseteq processes \cup {pid}
  BY Zenon DEF onProcessStart, onProcessExit, byKeyVars, statVars
<1>2. TableTypeOK'
  BY Zenon, <1>1 DEF TableIInv, TableTypeOK, IsMap
<1>3. Keyed' /\ OpenIsReachable'
  BY Zenon, <1>1 DEF TableIInv, Keyed, OpenIsReachable
<1>4. DestinationsKnown' /\ StatsExpire'
  BY Zenon, <1>1 DEF TableIInv, DestinationsKnown, StatsExpire
<1> QED
  BY Zenon, <1>2, <1>3, <1>4 DEF TableIInv

\* Entering a connection.
LEMMA EnterInv ==
  ASSUME TableIInv, closing = {}, NEW cid \in TableCids, NEW src \in Addresses, NEW dst \in Remotes,
         NEW ts \in Stamps, NEW id \in Ids, EnterConnection(id, cid, src, dst, ts),
         UNCHANGED <<processes, closing, stray>>
  PROVE  TableIInv'
<1> DEFINE key == [src |-> src, dst |-> dst]
           new == [cid |-> cid, key |-> key, timestamp |-> ts, closed |-> FALSE, sent |-> 0,
                   counted |-> 0]
           prev == ClosePrevious(cid)
<1>1. key \in ConnKeys /\ new \in Conn
  BY Zenon DEF ConnKeys, Conn
<1>2. /\ id \notin DOMAIN conns
      /\ conns' = Update(prev, id, new)
      /\ activeConnections' = Update(activeConnections, key, id)
      /\ connectionsByPidFd' = Update(connectionsByPidFd, cid, id)
      /\ connectionStats' = Update(connectionStats, dst, [StatsOf(dst) EXCEPT !.count = @ + 1])
      /\ lastConnectionAttempts' = lastConnectionAttempts \cup {dst}
      /\ failedConnectionAttempts' = failedConnectionAttempts
  BY Zenon DEF EnterConnection, EnterKey
<1>3. /\ DOMAIN prev = DOMAIN conns
      /\ \A i \in DOMAIN conns :
           /\ prev[i] \in Conn /\ prev[i].key = conns[i].key /\ prev[i].cid = conns[i].cid
           /\ ~prev[i].closed => /\ ~conns[i].closed
                                 /\ cid \in DOMAIN connectionsByPidFd => connectionsByPidFd[cid] # i
  <2>1. \A i \in DOMAIN conns : conns[i] \in Conn
    BY Zenon DEF TableIInv, TableTypeOK, IsMap
  <2>2. \A r \in Conn : LET closed == [r EXCEPT !.closed = TRUE] IN
          closed \in Conn /\ closed.key = r.key /\ closed.cid = r.cid /\ closed.closed
    BY Zenon DEF Conn
  <2> QED
    BY Zenon, <2>1, <2>2 DEF ClosePrevious
<1> HIDE DEF key, new, prev
<1>4. /\ DOMAIN conns' = DOMAIN conns \cup {id}
      /\ conns'[id] = new
      /\ \A i \in DOMAIN conns : conns'[i] = prev[i]
  <2>1. /\ DOMAIN conns' = DOMAIN prev \cup {id}
        /\ conns'[id] = new
        /\ \A i \in DOMAIN prev : i # id => conns'[i] = prev[i]
    BY Zenon, <1>2 DEF Update
  <2> QED
    BY Zenon, <1>2, <1>3, <2>1
<1>5. TableTypeOK'
  <2>1. IsMap(conns', Ids, Conn)
    BY Zenon, <1>1, <1>3, <1>4 DEF TableIInv, TableTypeOK, IsMap
  <2>2. IsMap(activeConnections', ConnKeys, DOMAIN conns')
    BY Zenon, <1>1, <1>2, <1>4, IsMapMonotone, UpdateType DEF TableIInv, TableTypeOK
  <2>3. IsMap(connectionsByPidFd', TableCids, DOMAIN conns')
    BY Zenon, <1>2, <1>4, IsMapMonotone, UpdateType DEF TableIInv, TableTypeOK
  <2>4. IsMap(connectionStats', Remotes, Stats)
    <3>1. [StatsOf(dst) EXCEPT !.count = @ + 1] \in Stats
      BY SMTT(30), StatsType DEF TableIInv, Stats
    <3> QED
      BY Zenon, <1>2, <3>1, UpdateType DEF TableIInv, TableTypeOK
  <2> QED
    BY Zenon, <1>2, <2>1, <2>2, <2>3, <2>4 DEF TableIInv, TableTypeOK
<1>6. /\ DOMAIN activeConnections' = DOMAIN activeConnections \cup {key}
      /\ activeConnections'[key] = id
      /\ \A k \in DOMAIN activeConnections : k # key => activeConnections'[k] = activeConnections[k]
  BY Zenon, <1>2 DEF Update
<1>7. /\ DOMAIN connectionsByPidFd' = DOMAIN connectionsByPidFd \cup {cid}
      /\ connectionsByPidFd'[cid] = id
      /\ \A c \in DOMAIN connectionsByPidFd :
           c # cid => connectionsByPidFd'[c] = connectionsByPidFd[c]
  BY Zenon, <1>2 DEF Update
<1>8. /\ \A k \in DOMAIN activeConnections : activeConnections[k] \in DOMAIN conns
      /\ \A c \in DOMAIN connectionsByPidFd : connectionsByPidFd[c] \in DOMAIN conns
  BY Zenon DEF TableIInv, TableTypeOK, IsMap
<1>9. new.key = key /\ new.cid = cid
  BY Zenon DEF new
<1>10. Keyed'
  <2>1. \A i \in DOMAIN conns : conns'[i].key = conns[i].key /\ conns'[i].cid = conns[i].cid
    BY ZenonT(40), <1>3, <1>4
  <2>2. \A k \in DOMAIN activeConnections' : conns'[activeConnections'[k]].key = k
    BY <1>4, <1>6, <1>8, <1>9, <2>1 DEF TableIInv, Keyed
  <2>3. \A c \in DOMAIN connectionsByPidFd' : conns'[connectionsByPidFd'[c]].cid = c
    BY <1>4, <1>7, <1>8, <1>9, <2>1 DEF TableIInv, Keyed
  <2> QED
    BY Zenon, <2>2, <2>3 DEF Keyed
<1>11. OpenIsReachable'
  <2> SUFFICES ASSUME NEW k \in DOMAIN activeConnections', ~conns'[activeConnections'[k]].closed
               PROVE  /\ conns'[activeConnections'[k]].cid \in DOMAIN connectionsByPidFd'
                      /\ connectionsByPidFd'[conns'[activeConnections'[k]].cid] = activeConnections'[k]
    BY Zenon DEF OpenIsReachable
  <2>1. CASE k = key
    BY Zenon, <1>4, <1>6, <1>7, <1>9, <2>1
  <2>2. CASE k # key
    <3> DEFINE i == activeConnections[k]
    <3>1. k \in DOMAIN activeConnections /\ activeConnections'[k] = i /\ i \in DOMAIN conns
      BY Zenon, <1>6, <1>8, <2>2
    <3>2. /\ conns'[i].cid = conns[i].cid
          /\ ~conns[i].closed
          /\ cid \in DOMAIN connectionsByPidFd => connectionsByPidFd[cid] # i
      BY Zenon, <1>3, <1>4, <3>1
    <3>3. conns[i].cid \in DOMAIN connectionsByPidFd /\ connectionsByPidFd[conns[i].cid] = i
      BY <3>1, <3>2 DEF TableIInv, OpenIsReachable
    <3> HIDE DEF i
    <3> QED
      BY Zenon, <1>7, <3>1, <3>2, <3>3
  <2> QED
    BY Zenon, <2>1, <2>2
<1>12. DestinationsKnown'
  <2>1. key.dst = dst
    BY Zenon DEF key
  <2> QED
    BY Zenon, <1>2, <1>6, <2>1 DEF TableIInv, DestinationsKnown
<1>13. StatsExpire'
  <2>1. DOMAIN connectionStats' = DOMAIN connectionStats \cup {dst}
    BY Zenon, <1>2 DEF Update
  <2> QED
    BY Zenon, <1>2, <2>1 DEF TableIInv, StatsExpire
<1> QED
  BY Zenon, <1>5, <1>10, <1>11, <1>12, <1>13 DEF TableIInv

\* Counting a failed attempt.
LEMMA FailureInv ==
  ASSUME TableIInv, NEW dst \in Remotes, CountFailure(dst), UNCHANGED <<processes, closing, stray>>
  PROVE  TableIInv'
<1>1. /\ UNCHANGED <<conns, activeConnections, connectionsByPidFd, connectionStats>>
      /\ failedConnectionAttempts' = Update(failedConnectionAttempts, dst, FailedOf(dst) + 1)
      /\ lastConnectionAttempts' = lastConnectionAttempts \cup {dst}
  BY Zenon DEF CountFailure, byKeyVars
<1>2. TableTypeOK'
  <2>1. IsMap(failedConnectionAttempts, Remotes, Nat)
    BY Zenon DEF TableIInv, TableTypeOK
  <2>2. FailedOf(dst) + 1 \in Nat
    BY SMTT(30), <2>1 DEF IsMap, FailedOf
  <2>3. IsMap(failedConnectionAttempts', Remotes, Nat)
    BY Zenon, <1>1, <2>1, <2>2, UpdateType
  <2> QED
    BY Zenon, <1>1, <2>3 DEF TableIInv, TableTypeOK, IsMap
<1>3. Keyed' /\ OpenIsReachable'
  BY Zenon, <1>1 DEF TableIInv, Keyed, OpenIsReachable
<1>4. DestinationsKnown'
  BY Zenon, <1>1 DEF TableIInv, DestinationsKnown
<1>5. StatsExpire'
  <2>1. DOMAIN failedConnectionAttempts' = DOMAIN failedConnectionAttempts \cup {dst}
    BY Zenon, <1>1 DEF Update
  <2> QED
    BY Zenon, <1>1, <2>1 DEF TableIInv, StatsExpire
<1> QED
  BY Zenon, <1>2, <1>3, <1>4, <1>5 DEF TableIInv

\* Counting bytes, for a connection in the tables or not, that is not opened
\* again by it.
LEMMA TrafficInv ==
  ASSUME TableIInv, NEW id \in DOMAIN conns, NEW sent \in Nat, NEW closed \in BOOLEAN,
         conns[id].closed => closed, AddTraffic(id, sent, closed), closing' \subseteq closing
  PROVE  TableIInv'
<1> DEFINE more == MoreThan(id, sent)
           new == [conns[id] EXCEPT !.sent = sent, !.closed = closed,
                                    !.counted = conns[id].counted + more]
<1>1. conns[id] \in Conn /\ DOMAIN conns \subseteq Ids /\ \A i \in DOMAIN conns : conns[i] \in Conn
  BY Zenon DEF TableIInv, TableTypeOK, IsMap
<1>2. more \in Nat
  BY SMTT(30), <1>1 DEF MoreThan, Conn
<1>3. /\ UNCHANGED <<processes, activeConnections, connectionsByPidFd, failedConnectionAttempts,
                     lastConnectionAttempts>>
      /\ connectionStats' = Update(connectionStats, Dst(id), [StatsOf(Dst(id)) EXCEPT !.sent = @ + more])
      /\ conns' = Update(conns, id, new)
      /\ stray' = (stray \/ id \notin Rng(activeConnections))
  <2>1. UNCHANGED <<processes, activeConnections, connectionsByPidFd, failedConnectionAttempts,
                    lastConnectionAttempts>>
    BY Zenon DEF AddTraffic, byKeyVars
  <2>2. connectionStats' = Update(connectionStats, Dst(id), [StatsOf(Dst(id)) EXCEPT !.sent = @ + more])
    BY Zenon DEF AddTraffic
  <2>3. conns' = Update(conns, id, new)
    BY Zenon DEF AddTraffic
  <2>4. stray' = (stray \/ id \notin Rng(activeConnections))
    BY Zenon DEF AddTraffic
  <2> QED
    BY Zenon, <2>1, <2>2, <2>3, <2>4
<1> HIDE DEF more
<1>4. new \in Conn /\ new.key = conns[id].key /\ new.cid = conns[id].cid /\ new.closed = closed
  <2>1. conns[id].counted + more \in Nat
    BY SMTT(30), <1>1, <1>2 DEF Conn
  <2>2. \A r \in Conn, n \in Nat :
          LET s == [r EXCEPT !.sent = sent, !.closed = closed, !.counted = n] IN
          s \in Conn /\ s.key = r.key /\ s.cid = r.cid /\ s.closed = closed
    BY Zenon DEF Conn
  <2> QED
    BY Zenon, <1>1, <2>1, <2>2
<1>5. Dst(id) \in Remotes
  BY Zenon, <1>1 DEF Dst, Conn, ConnKeys
<1> HIDE DEF new
<1>6. /\ DOMAIN conns' = DOMAIN conns
      /\ \A i \in DOMAIN conns : /\ conns'[i] \in Conn
                                 /\ conns'[i].key = conns[i].key
                                 /\ conns'[i].cid = conns[i].cid
                                 /\ conns[i].closed => conns'[i].closed
  <2>1. DOMAIN conns' = DOMAIN conns
    BY Zenon, <1>3 DEF Update
  <2>2. conns'[id] = new /\ \A i \in DOMAIN conns : i # id => conns'[i] = conns[i]
    BY Zenon, <1>3 DEF Update
  <2> QED
    BY Zenon, <1>1, <1>4, <2>1, <2>2
<1>7. TableTypeOK'
  <2>1. IsMap(conns', Ids, Conn)
    BY Zenon, <1>1, <1>6 DEF IsMap
  <2>2. IsMap(connectionStats', Remotes, Stats)
    <3>1. [StatsOf(Dst(id)) EXCEPT !.sent = @ + more] \in Stats
      BY SMTT(30), <1>2, StatsType DEF TableIInv, Stats
    <3> QED
      BY Zenon, <1>3, <1>5, <3>1, UpdateType DEF TableIInv, TableTypeOK
  <2>3. /\ IsMap(activeConnections', ConnKeys, DOMAIN conns')
        /\ IsMap(connectionsByPidFd', TableCids, DOMAIN conns')
    BY Zenon, <1>3, <1>6 DEF TableIInv, TableTypeOK
  <2>4. stray' \in BOOLEAN
    BY Zenon, <1>3
  <2>5. \A x \in closing' : x \in Closing /\ x.id \in DOMAIN conns'
    BY Zenon, <1>6 DEF TableIInv, TableTypeOK
  <2> QED
    BY Zenon, <1>3, <2>1, <2>2, <2>3, <2>4, <2>5 DEF TableIInv, TableTypeOK
<1>8. /\ \A k \in DOMAIN activeConnections : activeConnections[k] \in DOMAIN conns
      /\ \A c \in DOMAIN connectionsByPidFd : connectionsByPidFd[c] \in DOMAIN conns
  BY Zenon DEF TableIInv, TableTypeOK, IsMap
<1>9. Keyed'
  BY Zenon, <1>3, <1>6, <1>8 DEF TableIInv, Keyed
<1>10. OpenIsReachable'
  BY <1>3, <1>6, <1>8 DEF TableIInv, OpenIsReachable
<1>11. DestinationsKnown'
  BY Zenon, <1>3 DEF TableIInv, DestinationsKnown
<1>12. StatsExpire'
  <2>1. DOMAIN connectionStats' = DOMAIN connectionStats \cup {Dst(id)}
    BY Zenon, <1>3 DEF Update
  <2>2. id \in Rng(activeConnections) => Dst(id) \in lastConnectionAttempts
    BY Zenon DEF Rng, Dst, TableIInv, Keyed, DestinationsKnown
  <2> QED
    BY Zenon, <1>3, <2>1, <2>2 DEF TableIInv, StatsExpire
<1> QED
  BY Zenon, <1>7, <1>9, <1>10, <1>11, <1>12 DEF TableIInv

\* Looking the connection of a close event up changes no table.
LEMMA CloseConnectionInv ==
  ASSUME TableIInv, NEW cid \in TableCids, NEW ts \in Stamps, NEW sent \in Nat,
         onConnectionClose(cid, ts, sent)
  PROVE  TableIInv'
<1>1. UNCHANGED <<processes, conns, activeConnections, connectionsByPidFd, connectionStats,
                  failedConnectionAttempts, lastConnectionAttempts, stray>>
  BY Zenon DEF onConnectionClose, byKeyVars, statVars
<1>2. \A x \in closing' : x \in Closing /\ x.id \in DOMAIN conns
  <2> SUFFICES ASSUME NEW x \in closing'
               PROVE  x \in Closing /\ x.id \in DOMAIN conns
    BY Zenon
  <2>1. cid \in DOMAIN connectionsByPidFd /\ x = [id |-> connectionsByPidFd[cid], sent |-> sent]
    BY Zenon DEF onConnectionClose, CloseMatches
  <2>2. connectionsByPidFd[cid] \in DOMAIN conns /\ DOMAIN conns \subseteq Ids
    BY Zenon, <2>1 DEF TableIInv, TableTypeOK, IsMap
  <2> QED
    BY Zenon, <2>1, <2>2 DEF Closing
<1>3. TableTypeOK'
  BY Zenon, <1>1, <1>2 DEF TableIInv, TableTypeOK, IsMap
<1>4. Keyed' /\ OpenIsReachable'
  BY Zenon, <1>1 DEF TableIInv, Keyed, OpenIsReachable
<1>5. DestinationsKnown' /\ StatsExpire'
  BY Zenon, <1>1 DEF TableIInv, DestinationsKnown, StatsExpire
<1> QED
  BY Zenon, <1>3, <1>4, <1>5 DEF TableIInv

\* gc deletes a connection from both tables, and a destination from all three,
\* whatever /proc lists and however old they are.
LEMMA GcInv ==
  ASSUME TableIInv, NEW established, NEW old, NEW oldDsts, gc(established, old, oldDsts)
  PROVE  TableIInv'
<1> DEFINE keys == Outdated(established, old)
           dead == Dead(established, oldDsts)
           cids == {c \in DOMAIN connectionsByPidFd :
                      \E k \in keys : connectionsByPidFd[c] = activeConnections[k]}
<1>1. /\ UNCHANGED <<processes, conns, closing, stray>>
      /\ activeConnections' = DeleteAll(activeConnections, keys)
      /\ connectionsByPidFd' = DeleteAll(connectionsByPidFd, cids)
      /\ lastConnectionAttempts' = lastConnectionAttempts \ dead
      /\ failedConnectionAttempts' = DeleteAll(failedConnectionAttempts, dead)
      /\ connectionStats' = DeleteAll(connectionStats, dead)
  BY Zenon DEF gc, DeleteByPidFd, StatsWithout
<1>2. \A k \in DOMAIN activeConnections \ keys : k.dst \notin dead
  BY Zenon DEF Outdated, Dead
<1>3. keys \subseteq DOMAIN activeConnections
  BY Zenon DEF Outdated
<1> HIDE DEF keys, dead, cids
<1>4. TableTypeOK'
  <2>1. IsMap(activeConnections', ConnKeys, DOMAIN conns')
    BY Zenon, <1>1, DeleteType DEF TableIInv, TableTypeOK
  <2>2. IsMap(connectionsByPidFd', TableCids, DOMAIN conns')
    BY Zenon, <1>1, DeleteType DEF TableIInv, TableTypeOK
  <2>3. IsMap(connectionStats', Remotes, Stats) /\ IsMap(failedConnectionAttempts', Remotes, Nat)
    BY Zenon, <1>1, DeleteType DEF TableIInv, TableTypeOK
  <2> QED
    BY Zenon, <1>1, <2>1, <2>2, <2>3 DEF TableIInv, TableTypeOK
<1>5. /\ DOMAIN activeConnections' = DOMAIN activeConnections \ keys
      /\ \A k \in DOMAIN activeConnections \ keys : activeConnections'[k] = activeConnections[k]
  BY Zenon, <1>1, DeleteProperties
<1>6. /\ DOMAIN connectionsByPidFd' = DOMAIN connectionsByPidFd \ cids
      /\ \A c \in DOMAIN connectionsByPidFd \ cids : connectionsByPidFd'[c] = connectionsByPidFd[c]
  BY Zenon, <1>1, DeleteProperties
<1>7. Keyed'
  BY Zenon, <1>1, <1>5, <1>6 DEF TableIInv, Keyed
<1>8. OpenIsReachable'
  <2> SUFFICES ASSUME NEW k \in DOMAIN activeConnections', ~conns'[activeConnections'[k]].closed
               PROVE  /\ conns'[activeConnections'[k]].cid \in DOMAIN connectionsByPidFd'
                      /\ connectionsByPidFd'[conns'[activeConnections'[k]].cid] = activeConnections'[k]
    BY Zenon DEF OpenIsReachable
  <2> DEFINE i == activeConnections[k]
             c == conns[i].cid
  <2>1. k \in DOMAIN activeConnections \ keys /\ activeConnections'[k] = i /\ conns' = conns
    BY Zenon, <1>1, <1>5
  <2>2. c \in DOMAIN connectionsByPidFd /\ connectionsByPidFd[c] = i
    BY Zenon, <2>1 DEF TableIInv, OpenIsReachable
  <2>3. \A k2 \in keys : activeConnections[k2] # i
    BY Zenon, <1>3, <2>1 DEF TableIInv, Keyed
  <2>4. c \notin cids
    BY Zenon, <2>2, <2>3 DEF cids
  <2> QED
    BY Zenon, <1>6, <2>1, <2>2, <2>4
<1>9. DestinationsKnown'
  BY Zenon, <1>1, <1>2, <1>5 DEF TableIInv, DestinationsKnown
<1>10. StatsExpire'
  <2>1. /\ DOMAIN connectionStats' = DOMAIN connectionStats \ dead
        /\ DOMAIN failedConnectionAttempts' = DOMAIN failedConnectionAttempts \ dead
    BY Zenon, <1>1, DeleteProperties
  <2> QED
    BY Zenon, <1>1, <2>1 DEF TableIInv, StatsExpire
<1> QED
  BY Zenon, <1>4, <1>7, <1>8, <1>9, <1>10 DEF TableIInv

-----------------------------------------------------------------------------
(* The theorems                                                            *)

\* Every step keeps the invariant.
LEMMA TableNextInv == TableIInv /\ [TableNext]_tableVars => TableIInv'
<1> SUFFICES ASSUME TableIInv, [TableNext]_tableVars
             PROVE  TableIInv'
  BY Zenon
<1>1. ASSUME NEW pid \in TablePids, onProcessStart(pid) \/ onProcessExit(pid)
      PROVE  TableIInv'
  BY Zenon, <1>1, ProcessInv
<1>2. ASSUME NEW cid \in TableCids, NEW src \in Addresses, NEW dst \in Remotes, NEW ts \in Stamps,
             NEW failed \in BOOLEAN, onConnectionOpen(cid, src, dst, ts, failed)
      PROVE  TableIInv'
  <2>1. closing = {} /\ UNCHANGED <<processes, closing, stray>>
    BY Zenon, <1>2 DEF onConnectionOpen
  <2>2. CASE UNCHANGED <<conns, byKeyVars, statVars>>
    BY Zenon, <2>1, <2>2, FrameInv DEF tableVars
  <2>3. CASE CountFailure(dst)
    BY Zenon, <2>1, <2>3, FailureInv
  <2>4. CASE \E id \in Ids : EnterConnection(id, cid, src, dst, ts)
    BY Zenon, <2>1, <2>4, EnterInv
  <2> QED
    BY Zenon, <1>2, <2>2, <2>3, <2>4 DEF onConnectionOpen
<1>3. ASSUME NEW cid \in TableCids, NEW ts \in Stamps, NEW sent \in 0..MaxSent,
             onConnectionClose(cid, ts, sent)
      PROVE  TableIInv'
  <2>1. sent \in Nat
    BY SMTT(30), TableAssumption
  <2> QED
    BY Zenon, <1>3, <2>1, CloseConnectionInv
<1>4. CASE CloseConnection
  <2>1. PICK x \in closing : AddTraffic(x.id, x.sent, TRUE)
    BY Zenon, <1>4 DEF CloseConnection
  <2>2. x.id \in DOMAIN conns /\ x.sent \in Nat
    BY Zenon DEF TableIInv, TableTypeOK, Closing
  <2>3. closing' \subseteq closing
    BY Zenon, <1>4 DEF CloseConnection
  <2> QED
    BY Zenon, <2>1, <2>2, <2>3, TrafficInv
<1>5. ASSUME NEW cid \in TableCids, NEW sent \in 0..MaxSent, updateTrafficStats(cid, sent)
      PROVE  TableIInv'
  <2>1. sent \in Nat /\ closing' = closing
    BY SMTT(30), <1>5, TableAssumption DEF updateTrafficStats
  <2>2. CASE cid \in DOMAIN connectionsByPidFd
    <3> DEFINE id == connectionsByPidFd[cid]
    <3>1. id \in DOMAIN conns /\ conns[id].closed \in BOOLEAN
      BY Zenon, <2>2 DEF TableIInv, TableTypeOK, IsMap, Conn
    <3>2. AddTraffic(id, sent, conns[id].closed)
      BY Zenon, <1>5, <2>2 DEF updateTrafficStats
    <3> QED
      BY Zenon, <2>1, <3>1, <3>2, TrafficInv
  <2>3. CASE cid \notin DOMAIN connectionsByPidFd
    BY Zenon, <1>5, <2>3, FrameInv DEF updateTrafficStats, tableVars
  <2> QED
    BY Zenon, <2>2, <2>3
<1>6. ASSUME NEW established \in SUBSET ConnKeys, NEW old \in SUBSET DOMAIN conns,
             NEW oldDsts \in SUBSET lastConnectionAttempts, gc(established, old, oldDsts)
      PROVE  TableIInv'
  BY Zenon, <1>6, GcInv
<1>7. CASE UNCHANGED tableVars
  BY Zenon, <1>7, FrameInv
<1> QED
  BY Zenon, <1>1, <1>2, <1>3, <1>4, <1>5, <1>6, <1>7 DEF TableNext

\* TableIInv is an invariant.
THEOREM TableInvariant == TableSpec => []TableIInv
BY TableInitInv, TableNextInv, PTL DEF TableSpec

\* The tables keep their types: no byte count of a connection or a destination
\* is ever negative, and no table leads to a connection that does not exist.
THEOREM TableTypes == TableSpec => []TableTypeOK
<1>1. TableIInv => TableTypeOK
  BY Zenon DEF TableIInv
<1> QED
  BY <1>1, TableInvariant, PTL

\* An open connection is always found through its descriptor.
THEOREM OpenAlwaysReachable == TableSpec => []OpenIsReachable
<1>1. TableIInv => OpenIsReachable
  BY Zenon DEF TableIInv
<1> QED
  BY <1>1, TableInvariant, PTL

\* gc knows the destination of every connection.
THEOREM DestinationsAlwaysKnown == TableSpec => []DestinationsKnown
<1>1. TableIInv => DestinationsKnown
  BY Zenon DEF TableIInv
<1> QED
  BY <1>1, TableInvariant, PTL

\* The statistics of a destination can be deleted, unless bytes were counted for
\* a connection that was not in the table.
THEOREM StatsAlwaysExpire == TableSpec => []StatsExpire
<1>1. TableIInv => StatsExpire
  BY Zenon DEF TableIInv
<1> QED
  BY <1>1, TableInvariant, PTL

\* gc deletes a destination and what is known of it together.
THEOREM StatsAlwaysConsistent == TableSpec => []StatsConsistent
<1>1. TableIInv => StatsConsistent
  BY Zenon DEF TableIInv, StatsConsistent
<1> QED
  BY <1>1, TableInvariant, PTL

=============================================================================
