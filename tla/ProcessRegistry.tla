--------------------------- MODULE ProcessRegistry ---------------------------
(***************************************************************************)
(* Which process belongs to which container: the maps of                   *)
(* containers/registry.go and the processes of containers/container.go.    *)
(* Registry.handleEvents is one goroutine, so an operator below, which     *)
(* returns the registry after a handler, is one step.                      *)
(*                                                                         *)
(* What a handler reads from outside is a parameter: the cgroup of a       *)
(* process (None when /proc has no such process), the time it began (None  *)
(* when taskstats has none), and whether a container can be set up.        *)
(* A container stands under its id, as in containersById: a reference to a *)
(* container that was closed is one to an id that is not there.            *)
(***************************************************************************)
EXTENDS BpfMaps

CONSTANTS
  RegPids,       \* process ids
  Cgroups,       \* cgroups, numbered in the order of their creation
  ContainerIds,
  IdOf,          \* the container id of each cgroup: None when it is ignored
  Unpersisted,   \* ignored cgroups that are looked at again: /init.scope
  None,
  MaxBegin,      \* bound: times at which processes begin
  MaxCount       \* bound: restarts and OOM kills counted

ASSUME RegistryAssumption ==
  /\ IdOf \in [Cgroups -> ContainerIds \cup {None}]
  /\ None \notin ContainerIds /\ None \notin Cgroups /\ None \notin 1..MaxBegin
  /\ Cgroups \subseteq Nat /\ MaxBegin \in Nat

VARIABLES
  registry

Begins == 1..MaxBegin

\* startedAt is 0 for the zero time; zombie says that zombieAt is set.
Container == [cgroup : Cgroups, zombie : BOOLEAN, startedAt : 0..MaxBegin,
              restarts : Nat, oomKills : Nat]

\* The registry; processes[id][pid] is StartedAt of the process.
EmptyRegistry == [containersById |-> EmptyMap, processes |-> EmptyMap, containersByPid |-> EmptyMap,
                  containersByCgroupId |-> EmptyMap, containersByPidIgnored |-> {}]

-----------------------------------------------------------------------------
(* The container                                                           *)

\* Mutant: an OOM kill is counted for every exit.
CountOomAlways(c, oom) == [c EXCEPT !.oomKills = @ + 1]

\* onProcessExit, the count
CountOom(c, oom) == IF oom THEN [c EXCEPT !.oomKills = @ + 1] ELSE c

\* delete(containersByPid, pid) and onProcessExit
Drop(r, pid, oom) ==
  LET id   == r.containersByPid[pid]
      left == Delete(r.processes[id], pid)
      c    == CountOom(r.containersById[id], oom)
  IN [r EXCEPT !.containersByPid = Delete(r.containersByPid, pid),
               !.processes = Update(r.processes, id, left),
               !.containersById = Update(r.containersById, id,
                                         IF left = EmptyMap THEN [c EXCEPT !.zombie = TRUE] ELSE c)]

\* The time the oldest process of a container began.
Oldest(processes) ==
  CHOOSE t \in {processes[p] : p \in DOMAIN processes} :
    \A p \in DOMAIN processes : t <= processes[p]

\* A container whose processes are all younger than it has been restarted.
Started(c, oldest) ==
  IF c.startedAt = 0 THEN [c EXCEPT !.startedAt = oldest]
  ELSE IF oldest > c.startedAt THEN [c EXCEPT !.startedAt = oldest, !.restarts = c.restarts + 1]
  ELSE c

\* Mutant: a container that has a process takes no other.
EnterProcessOnce(r, pid, begin) ==
  IF begin = None \/ pid \notin DOMAIN r.containersByPid THEN r
  ELSE LET id == r.containersByPid[pid] IN
       IF r.processes[id] # EmptyMap THEN r
       ELSE [r EXCEPT !.processes = Update(@, id, Update(EmptyMap, pid, begin)),
                      !.containersById = Update(@, id, [@[id] EXCEPT !.zombie = FALSE])]

\* onProcessStart
EnterProcess(r, pid, begin) ==
  IF begin = None \/ pid \notin DOMAIN r.containersByPid THEN r
  ELSE LET id    == r.containersByPid[pid]
           procs == Update(r.processes[id], pid, begin)
           c     == [r.containersById[id] EXCEPT !.zombie = FALSE]
       IN [r EXCEPT !.processes = Update(r.processes, id, procs),
                    !.containersById = Update(r.containersById, id, Started(c, Oldest(procs)))]

-----------------------------------------------------------------------------
(* The registry                                                            *)

Bind(r, pid, cg, id) ==
  [r EXCEPT !.containersByPid = Update(r.containersByPid, pid, id),
            !.containersByCgroupId = Update(r.containersByCgroupId, cg, id)]

\* A container id with two cgroups: the newer one is kept.
Conflict(r, pid, cg, id) ==
  LET c == r.containersById[id] IN
  Bind([r EXCEPT !.containersById = Update(@, id, IF cg > c.cgroup THEN [c EXCEPT !.cgroup = cg] ELSE c)],
       pid, cg, id)

NewContainer(r, pid, cg, id) ==
  Bind([r EXCEPT
          !.containersById = Update(r.containersById, id,
                                    [cgroup |-> cg, zombie |-> FALSE, startedAt |-> 0,
                                     restarts |-> 0, oomKills |-> 0]),
          !.processes = Update(r.processes, id, EmptyMap)],
       pid, cg, id)

Ignore(r, pid, cg) ==
  IF cg \in Unpersisted THEN r ELSE [r EXCEPT !.containersByPidIgnored = @ \cup {pid}]

\* getOrCreateContainer; fresh: the process was ignored less than
\* IgnoredContainersCacheTTL ago; ok: metadata, namespace and registration of a
\* new container succeed.  It finds a container if it leaves pid in containersByPid.
GetOrCreate(r, pid, cg, fresh, ok) ==
  LET seen == [r EXCEPT !.containersByPidIgnored = @ \ {pid}]
      id   == IdOf[cg]
  IN IF pid \in DOMAIN r.containersByPid \/ (pid \in r.containersByPidIgnored /\ fresh) THEN r
     ELSE IF cg = None THEN seen
     ELSE IF cg \in DOMAIN r.containersByCgroupId
          THEN Bind(seen, pid, cg, r.containersByCgroupId[cg])
     ELSE IF ~ok THEN seen
     ELSE IF id = None THEN Ignore(seen, pid, cg)
     ELSE IF id \in DOMAIN r.containersById THEN Conflict(seen, pid, cg, id)
     ELSE NewContainer(seen, pid, cg, id)

\* A process id that is seen again: the exit of the earlier process was missed.
Revalidate(r, pid, cg) ==
  IF pid \in DOMAIN r.containersByPid /\ cg # r.containersById[r.containersByPid[pid]].cgroup
  THEN Drop(r, pid, FALSE) ELSE r

\* EventTypeProcessStart
ProcessStart(r, pid, cg, begin, fresh, ok) ==
  EnterProcess(GetOrCreate(Revalidate(r, pid, cg), pid, cg, fresh, ok), pid, begin)

\* EventTypeProcessExit
ProcessExit(r, pid, oom) == IF pid \in DOMAIN r.containersByPid THEN Drop(r, pid, oom) ELSE r

\* Mutant: a process whose cgroup cannot be read is kept.
GoneUnread(r, cgroupOf) ==
  {pid \in DOMAIN r.containersByPid :
     cgroupOf[pid] \notin {None, r.containersById[r.containersByPid[pid]].cgroup}}

\* gc, the first loop: processes that are gone or have another cgroup.
Gone(r, cgroupOf) ==
  {pid \in DOMAIN r.containersByPid :
     cgroupOf[pid] # r.containersById[r.containersByPid[pid]].cgroup}

\* Mutant: gc forgets the ids of dead processes, not the processes.
DropAllKeeps(r, gone) == [r EXCEPT !.containersByPid = DeleteAll(@, gone)]

DropAll(r, gone) ==
  LET emptied == {r.containersByPid[pid] : pid \in gone}
      left(id) == DeleteAll(r.processes[id], {p \in gone : r.containersByPid[p] = id})
  IN [r EXCEPT !.containersByPid = DeleteAll(r.containersByPid, gone),
               !.processes = [id \in DOMAIN r.processes |-> left(id)],
               !.containersById = [id \in DOMAIN r.containersById |->
                  IF id \in emptied /\ left(id) = EmptyMap
                  THEN [r.containersById[id] EXCEPT !.zombie = TRUE] ELSE r.containersById[id]]]

\* Mutant: a closed container is still found through its cgroup.
CloseAllKeepsCgroup(r, dead) ==
  [r EXCEPT !.containersByPid = DeleteAll(@, {p \in DOMAIN @ : @[p] \in dead}),
            !.containersById = DeleteAll(@, dead),
            !.processes = DeleteAll(@, dead)]

\* gc, the second loop: dead containers are closed and forgotten.
CloseAll(r, dead) ==
  LET byPid == r.containersByPid
      byCgroupId == r.containersByCgroupId
  IN [r EXCEPT !.containersByPid = DeleteAll(byPid, {p \in DOMAIN byPid : byPid[p] \in dead}),
               !.containersByCgroupId = DeleteAll(byCgroupId, {g \in DOMAIN byCgroupId : byCgroupId[g] \in dead}),
               !.containersById = DeleteAll(r.containersById, dead),
               !.processes = DeleteAll(r.processes, dead)]

\* The containers that can be dead: zombies since before this gc.
Zombies(r) == {id \in DOMAIN r.containersById : r.containersById[id].zombie}

\* gc; old: the containers that were zombies for gcInterval; one that loses a
\* process now is a zombie from now on.
RegistryGc(r, cgroupOf, old) ==
  LET gone == Gone(r, cgroupOf) IN
  CloseAll([DropAll(r, gone) EXCEPT !.containersByPidIgnored = {}],
           old \ {r.containersByPid[pid] : pid \in gone})

-----------------------------------------------------------------------------
\* Any event at any time, and whatever /proc and taskstats answer.
RegistryInit == registry = EmptyRegistry

\* The counters are within their bounds.
Counted(r) == \A id \in DOMAIN r.containersById : /\ r.containersById[id].restarts <= MaxCount
                                                  /\ r.containersById[id].oomKills <= MaxCount

OnProcessStart ==
  \E pid \in RegPids, cg \in Cgroups \cup {None}, begin \in Begins \cup {None}, fresh, ok \in BOOLEAN :
    registry' = ProcessStart(registry, pid, cg, begin, fresh, ok) /\ Counted(registry')

OnProcessExit ==
  \E pid \in RegPids, oom \in BOOLEAN :
    registry' = ProcessExit(registry, pid, oom) /\ Counted(registry')

\* Any other event that is about a process
OnEvent ==
  \E pid \in RegPids, cg \in Cgroups \cup {None}, fresh, ok \in BOOLEAN :
    registry' = GetOrCreate(registry, pid, cg, fresh, ok)

OnGc ==
  \E cgroupOf \in [RegPids -> Cgroups \cup {None}], old \in SUBSET Zombies(registry) :
    registry' = RegistryGc(registry, cgroupOf, old)

RegistryNext == OnProcessStart \/ OnProcessExit \/ OnEvent \/ OnGc

RegistrySpec == RegistryInit /\ [][RegistryNext]_registry

-----------------------------------------------------------------------------
(* Properties                                                              *)

\* The types of the maps.
RegistryTypeOK ==
  /\ IsMap(registry.containersById, ContainerIds, Container)
  /\ DOMAIN registry.processes = DOMAIN registry.containersById
  /\ \A id \in DOMAIN registry.processes : IsMap(registry.processes[id], RegPids, Begins)
  /\ IsMap(registry.containersByPid, RegPids, ContainerIds)
  /\ IsMap(registry.containersByCgroupId, Cgroups, ContainerIds)
  /\ registry.containersByPidIgnored \subseteq RegPids

\* No map leads to a container that gc has closed and unregistered: an event for
\* it would go to one that is never collected again, and whose gc has stopped.
NoClosedContainer ==
  /\ \A pid \in DOMAIN registry.containersByPid :
       registry.containersByPid[pid] \in DOMAIN registry.containersById
  /\ \A cg \in DOMAIN registry.containersByCgroupId :
       registry.containersByCgroupId[cg] \in DOMAIN registry.containersById

\* A process of a container is found through its id, so that its exit, or gc,
\* reaches it: a process is never left behind with its probes.
ProcessesOwned ==
  \A id \in DOMAIN registry.processes : \A pid \in DOMAIN registry.processes[id] :
    pid \in DOMAIN registry.containersByPid /\ registry.containersByPid[pid] = id

\* A container is marked for deletion only while it has no process.
ZombiesEmpty ==
  \A id \in DOMAIN registry.containersById :
    registry.containersById[id].zombie => registry.processes[id] = EmptyMap

\* The maps of the registry agree: they lead to containers that are not closed,
\* each with the processes that are found through their ids, and to be deleted
\* only when it has none.
RegistryConsistent == RegistryTypeOK /\ NoClosedContainer /\ ProcessesOwned /\ ZombiesEmpty
=============================================================================
