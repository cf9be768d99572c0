--------------------------- MODULE ProcessTracking ---------------------------
(***************************************************************************)
(* Processes, the programs that report them and the registry together:     *)
(* events wait in the perf buffers, and the registry reads /proc when it   *)
(* handles them, which shows the process that has the id by then.          *)
(***************************************************************************)
EXTENDS ProcessProbes, ProcessRegistry

CONSTANTS
  Scenarios,    \* what may go wrong, see scenario
  MaxConnects   \* bound: connections made

ASSUME TrackingAssumption ==
  /\ RegPids = Pids /\ IsFiniteSet(Pids)
  /\ Cgroups # {} /\ MaxForks <= MaxBegin

VARIABLES
  scenario,     \* what goes wrong, chosen once: a part of
                \* {"loss", "reorder", "wrap", "move", "setup"}, and
                \* "quiet": no connections are made (a bound)
  cgroupOf,     \* the cgroup of each process
  connects,     \* history: connections made so far
  missed,       \* history: live processes that a connection was not counted for
  oomed         \* history: how often the OOM killer picked one of its processes

truthVars == <<scenario, cgroupOf, connects, oomed>>
trackingVars == <<probeVars, registry, truthVars, missed>>

\* proc.ReadCgroup and TaskstatsPID
ReadCgroup(pid) == IF Exists(pid) THEN cgroupOf[pid] ELSE None
TaskstatsPID(pid) == IF Exists(pid) THEN {born[pid]} \cup (IF "setup" \in scenario THEN {None} ELSE {})
                     ELSE {None}
\* Whether a process was ignored a short while ago; whether a set-up succeeds
Fresh(pid) == IF pid \in registry.containersByPidIgnored THEN BOOLEAN ELSE {FALSE}
Ok == IF "setup" \in scenario THEN BOOLEAN ELSE {TRUE}

TrackingInit ==
  /\ ProbesInit
  /\ RegistryInit
  /\ scenario \in Scenarios
  /\ cgroupOf = [p \in Pids |-> CHOOSE cg \in Cgroups : TRUE]
  /\ connects = 0
  /\ missed = {}
  /\ oomed = [id \in ContainerIds |-> 0]

-----------------------------------------------------------------------------
(* The processes                                                           *)

\* A process starts in the cgroup of a container.  Process ids are given out in
\* turn: without "wrap", one comes up again after its events were read.
StartIn(pid, cg) ==
  /\ "wrap" \in scenario \/ \A i \in DOMAIN events : events[i].pid # pid
  /\ Fork(pid)
  /\ cgroupOf' = [cgroupOf EXCEPT ![pid] = cg]
  /\ UNCHANGED <<registry, connects, missed, oomed, scenario>>

Killed(pid) ==
  LET id == IdOf[cgroupOf[pid]] IN
  /\ OomMarkVictim(pid)
  /\ oomed' = IF id # None THEN [oomed EXCEPT ![id] = @ + 1] ELSE oomed
  /\ UNCHANGED <<registry, cgroupOf, connects, missed, scenario>>

\* Threads are not reported: the leader stands for its process.
OtherTask ==
  /\ \E pid \in Pids : Exit(Leader(pid)) \/ Reap(pid)
  /\ UNCHANGED <<registry, truthVars, missed>>

\* A process is put into another cgroup.
Move(pid, cg) ==
  /\ "move" \in scenario
  /\ Leader(pid) \in threads /\ cgroupOf[pid] # cg
  /\ cgroupOf' = [cgroupOf EXCEPT ![pid] = cg]
  /\ UNCHANGED <<probeVars, registry, connects, oomed, missed, scenario>>

\* A process connects: tcp_connect_events
Connect(pid) ==
  /\ connects < MaxConnects /\ "quiet" \notin scenario
  /\ Leader(pid) \in threads /\ pid \notin victims
  /\ connects' = connects + 1
  /\ events' = Append(events, Event("connect", pid, FALSE, born[pid]))
  /\ UNCHANGED <<taskVars, now, attached, oom_info, pythonVars, nodejsVars, registry, cgroupOf,
                 oomed, missed, scenario>>

-----------------------------------------------------------------------------
(* The registry                                                            *)

\* The container of a process has the process.
Entered(r, pid) ==
  /\ pid \in DOMAIN r.containersByPid
  /\ pid \in DOMAIN r.processes[r.containersByPid[pid]]

HandleStart(pid, fresh, ok) ==
  /\ \E begin \in TaskstatsPID(pid) :
       registry' = ProcessStart(registry, pid, ReadCgroup(pid), begin, fresh, ok)
  /\ UNCHANGED missed

HandleExit(pid, oom) ==
  /\ registry' = ProcessExit(registry, pid, oom)
  /\ UNCHANGED missed

\* onConnectionOpen ignores a connection of a process its container has not.
HandleConnect(pid, number, fresh, ok) ==
  /\ registry' = GetOrCreate(registry, pid, ReadCgroup(pid), fresh, ok)
  /\ missed' = IF /\ pid \in DOMAIN registry'.containersByPid
                  /\ ~Entered(registry', pid)
                  /\ Leader(pid) \in threads /\ born[pid] = number
               THEN missed \cup {number} ELSE missed

\* The events but one
Without(s, i) == SubSeq(s, 1, i - 1) \o SubSeq(s, i + 1, Len(s))

\* An event is read, in the order of the buffers or not.
HandleEvent(i) ==
  /\ i \in DOMAIN events
  /\ i = 1 \/ "reorder" \in scenario
  /\ events' = Without(events, i)
  /\ LET e == events[i] IN
     \/ e.type = "exit" /\ HandleExit(e.pid, e.oom)
     \/ \E fresh \in Fresh(e.pid), ok \in Ok :
          \/ e.type = "start" /\ HandleStart(e.pid, fresh, ok)
          \/ e.type = "connect" /\ HandleConnect(e.pid, e.born, fresh, ok)
  /\ UNCHANGED <<taskVars, now, attached, oom_info, pythonVars, nodejsVars, truthVars>>

\* A buffer was full.
Lose(i) ==
  /\ "loss" \in scenario
  /\ i \in DOMAIN events
  /\ events' = Without(events, i)
  /\ UNCHANGED <<taskVars, now, attached, oom_info, pythonVars, nodejsVars, registry, truthVars,
                 missed>>

RunGc(old) ==
  /\ registry' = RegistryGc(registry, [p \in Pids |-> ReadCgroup(p)], old)
  /\ UNCHANGED <<probeVars, truthVars, missed>>

TrackingNext ==
  \/ \E pid \in Pids, cg \in Cgroups : StartIn(pid, cg) \/ Move(pid, cg)
  \/ \E pid \in Pids : Killed(pid) \/ Connect(pid)
  \/ OtherTask
  \/ \E i \in DOMAIN events : HandleEvent(i) \/ Lose(i)
  \/ \E old \in SUBSET Zombies(registry) : RunGc(old)

TrackingSpec == TrackingInit /\ [][TrackingNext]_trackingVars

-----------------------------------------------------------------------------
(* Properties                                                              *)

\* Every cgroup belongs to a container, and to one of its own.
OwnIds == \A c \in Cgroups : IdOf[c] # None /\ \A d \in Cgroups : IdOf[c] = IdOf[d] => c = d

\* A connection of a live process whose container is known is counted: the
\* container has the process.  It takes a taskstats and a container set-up that
\* do not fail, events that come all, in their order, and no container with two
\* cgroups, nor cgroups without a container.
ConnectsCounted == OwnIds /\ scenario \subseteq {"wrap", "quiet"} => missed = {}

\* With every event handled, the processes of the containers are those that run,
\* each with the time it began: process ids that come up again before the events
\* of their earlier process were read, and set-ups that fail, notwithstanding; but
\* events come all, in their order.
ProcessesCurrent ==
  events = <<>> /\ scenario \subseteq {"wrap", "setup", "move", "quiet"} =>
    \A id \in DOMAIN registry.processes : \A pid \in DOMAIN registry.processes[id] :
      Leader(pid) \in threads /\ registry.processes[id][pid] = born[pid]

\* A container is not blamed for more OOM kills than it suffered, if the exit of
\* a process is read before another one gets its id, no event is lost or early,
\* and processes stay in their cgroups.
OomKillsReal ==
  scenario \subseteq {"setup", "quiet"} =>
  \A id \in DOMAIN registry.containersById : registry.containersById[id].oomKills <= oomed[id]

\* No process will run any more.
Ended == forks = MaxForks /\ threads = {} /\ zombies = {}

\* When the processes have ended, their containers are forgotten, although the
\* events that say so may be lost.
ContainersForgotten == <>Ended => <>[](DOMAIN registry.containersById = {})
=============================================================================
