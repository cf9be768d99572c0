------------------------ MODULE ProcessTrackingProofs ------------------------
(***************************************************************************)
(* Proofs about the registry, and about processes, events and registry     *)
(* together, for every number of processes, cgroups and containers.        *)
(*                                                                         *)
(* 1. The maps of the registry agree with each other whatever events       *)
(*    arrive and whatever /proc and taskstats answer.  The invariant RegOK *)
(*    is stated of the five maps, and each handler is a composition of a   *)
(*    few changes of them that keep it.                                    *)
(* 2. In ProcessTracking the processes of a container are those that run,  *)
(*    no container is blamed for more OOM kills than it suffered, and      *)
(*    connections of a known container are counted.  Every step of the     *)
(*    specification is first shown to be one of a few simple ones          *)
(*    (AnyStep); each property then has an invariant of its own, with one  *)
(*    lemma per step.                                                      *)
(***************************************************************************)
EXTENDS ProcessTracking, FiniteSetTheorems, WellFoundedInduction, TLAPS

-----------------------------------------------------------------------------
(* What the helpers of BpfMaps do, for every map.                          *)

\* An update keeps the type of a map.
LEMMA UpdateType ==
  ASSUME NEW Keys, NEW Values, NEW map, IsMap(map, Keys, Values), NEW key \in Keys, NEW value \in Values
  PROVE  IsMap(Update(map, key, value), Keys, Values)
BY Zenon DEF Update, IsMap

\* A deletion keeps the type of a map.
LEMMA DeleteType ==
  ASSUME NEW Keys, NEW Values, NEW map, IsMap(map, Keys, Values), NEW keys
  PROVE  IsMap(DeleteAll(map, keys), Keys, Values)
BY Zenon DEF DeleteAll, IsMap

\* There is nothing to delete from the empty map.
LEMMA DeleteEmpty ==
  ASSUME NEW keys
  PROVE  DeleteAll(EmptyMap, keys) = EmptyMap
BY Zenon DEF DeleteAll, EmptyMap

\* A map into a set is one into a larger set.
LEMMA IsMapMonotone ==
  ASSUME NEW Keys, NEW S, NEW T, S \subseteq T, NEW map, IsMap(map, Keys, S)
  PROVE  IsMap(map, Keys, T)
BY Zenon DEF IsMap

-----------------------------------------------------------------------------
(* The invariant of the maps                                               *)

\* The maps have their types and agree with each other.
Consistent(byId, procs, byPid, byCgroup, ignored) ==
  /\ IsMap(byId, ContainerIds, Container)
  /\ DOMAIN procs = DOMAIN byId
  /\ \A id \in DOMAIN procs : IsMap(procs[id], RegPids, Begins)
  /\ IsMap(byPid, RegPids, DOMAIN byId)
  /\ IsMap(byCgroup, Cgroups, DOMAIN byId)
  /\ ignored \subseteq RegPids
  /\ \A id \in DOMAIN procs : \A pid \in DOMAIN procs[id] : pid \in DOMAIN byPid /\ byPid[pid] = id
  /\ \A id \in DOMAIN byId : byId[id].zombie => procs[id] = EmptyMap

\* The registry as a record of its maps
Maps(byId, procs, byPid, byCgroup, ignored) ==
  [containersById |-> byId, processes |-> procs, containersByPid |-> byPid,
   containersByCgroupId |-> byCgroup, containersByPidIgnored |-> ignored]

\* The inductive invariant of the registry
RegOK(r) ==
  /\ r = Maps(r.containersById, r.processes, r.containersByPid, r.containersByCgroupId,
              r.containersByPidIgnored)
  /\ Consistent(r.containersById, r.processes, r.containersByPid, r.containersByCgroupId,
                r.containersByPidIgnored)

-----------------------------------------------------------------------------
(* Changes of the maps                                                     *)

\* A process leaves a container.
LEMMA RemoveOK ==
  ASSUME NEW C, NEW P, NEW B, NEW G, NEW I, Consistent(C, P, B, G, I),
         NEW pid \in DOMAIN B, NEW c \in Container,
         c.zombie => Delete(P[B[pid]], pid) = EmptyMap
  PROVE  Consistent(Update(C, B[pid], c), Update(P, B[pid], Delete(P[B[pid]], pid)),
                    Delete(B, pid), G, I)
<1> DEFINE id == B[pid]
           left == Delete(P[id], pid)
           C2 == Update(C, id, c)
           P2 == Update(P, id, left)
           B2 == Delete(B, pid)
<1>1. id \in DOMAIN C /\ id \in ContainerIds /\ id \in DOMAIN P
  BY Zenon DEF Consistent, IsMap
<1>2. DOMAIN C2 = DOMAIN C /\ DOMAIN P2 = DOMAIN P /\ P2[id] = left /\ C2[id] = c
  BY Zenon, <1>1 DEF Update
<1>3. \A k \in DOMAIN P : k # id => P2[k] = P[k]
  BY Zenon DEF Update
<1>4. \A k \in DOMAIN C : k # id => C2[k] = C[k]
  BY Zenon DEF Update
<1>5. DOMAIN B2 = DOMAIN B \ {pid} /\ \A k \in DOMAIN B2 : B2[k] = B[k]
  BY Zenon DEF Delete, DeleteAll
<1>6. DOMAIN left = DOMAIN P[id] \ {pid} /\ \A k \in DOMAIN left : left[k] = P[id][k]
  BY Zenon DEF Delete, DeleteAll
<1>7. IsMap(C2, ContainerIds, Container)
  BY Zenon, <1>1, UpdateType DEF Consistent
<1>8. \A k \in DOMAIN P2 : IsMap(P2[k], RegPids, Begins)
  BY <1>1, <1>2, <1>3, <1>6 DEF Consistent, IsMap
<1>9. IsMap(B2, RegPids, DOMAIN C2)
  BY Zenon, <1>2, <1>5 DEF Consistent, IsMap
<1>10. IsMap(G, Cgroups, DOMAIN C2)
  BY Zenon, <1>2 DEF Consistent
<1>11. \A k \in DOMAIN P2 : \A p \in DOMAIN P2[k] : p \in DOMAIN B2 /\ B2[p] = k
  <2> SUFFICES ASSUME NEW k \in DOMAIN P2, NEW p \in DOMAIN P2[k]
               PROVE  p \in DOMAIN B2 /\ B2[p] = k
    BY Zenon
  <2>1. CASE k = id
    BY <2>1, <1>1, <1>2, <1>5, <1>6 DEF Consistent
  <2>2. CASE k # id
    BY <2>2, <1>2, <1>3, <1>5 DEF Consistent
  <2> QED
    BY Zenon, <2>1, <2>2
<1>12. \A k \in DOMAIN C2 : C2[k].zombie => P2[k] = EmptyMap
  BY <1>2, <1>3, <1>4 DEF Consistent
<1> HIDE DEF C2, P2, B2
<1>13. Consistent(C2, P2, B2, G, I)
  BY Zenon, <1>2, <1>7, <1>8, <1>9, <1>10, <1>11, <1>12 DEF Consistent
<1> QED
  BY Zenon, <1>13 DEF C2, P2, B2

\* A process is entered into its container.
LEMMA AddOK ==
  ASSUME NEW C, NEW P, NEW B, NEW G, NEW I, Consistent(C, P, B, G, I),
         NEW pid \in DOMAIN B, NEW begin \in Begins, NEW c \in Container, ~c.zombie
  PROVE  Consistent(Update(C, B[pid], c), Update(P, B[pid], Update(P[B[pid]], pid, begin)), B, G, I)
<1> DEFINE id == B[pid]
           more == Update(P[id], pid, begin)
           C2 == Update(C, id, c)
           P2 == Update(P, id, more)
<1>1. id \in DOMAIN C /\ id \in ContainerIds /\ id \in DOMAIN P /\ pid \in RegPids
  BY Zenon DEF Consistent, IsMap
<1>2. DOMAIN C2 = DOMAIN C /\ DOMAIN P2 = DOMAIN P /\ P2[id] = more /\ C2[id] = c
  BY Zenon, <1>1 DEF Update
<1>3. \A k \in DOMAIN P : k # id => P2[k] = P[k]
  BY Zenon DEF Update
<1>4. \A k \in DOMAIN C : k # id => C2[k] = C[k]
  BY Zenon DEF Update
<1>5. DOMAIN more = DOMAIN P[id] \cup {pid}
  BY Zenon DEF Update
<1>6. IsMap(more, RegPids, Begins)
  BY Zenon, <1>1, UpdateType DEF Consistent
<1>7. IsMap(C2, ContainerIds, Container)
  BY Zenon, <1>1, UpdateType DEF Consistent
<1> HIDE DEF more, C2, P2
<1>8. \A k \in DOMAIN P2 : IsMap(P2[k], RegPids, Begins)
  BY Zenon, <1>2, <1>3, <1>6 DEF Consistent
<1>9. \A k \in DOMAIN P2 : \A p \in DOMAIN P2[k] : p \in DOMAIN B /\ B[p] = k
  <2> SUFFICES ASSUME NEW k \in DOMAIN P2, NEW p \in DOMAIN P2[k]
               PROVE  p \in DOMAIN B /\ B[p] = k
    BY Zenon
  <2>1. CASE k = id
    BY Zenon, <2>1, <1>1, <1>2, <1>5 DEF Consistent
  <2>2. CASE k # id
    BY Zenon, <2>2, <1>2, <1>3 DEF Consistent
  <2> QED
    BY Zenon, <2>1, <2>2
<1>10. \A k \in DOMAIN C2 : C2[k].zombie => P2[k] = EmptyMap
  BY Zenon, <1>2, <1>3, <1>4 DEF Consistent
<1>11. Consistent(C2, P2, B, G, I)
  BY Zenon, <1>2, <1>7, <1>8, <1>9, <1>10 DEF Consistent
<1> QED
  BY Zenon, <1>11 DEF C2, P2, more

\* A process and its cgroup are bound to a container.
LEMMA BindOK ==
  ASSUME NEW C, NEW P, NEW B, NEW G, NEW I, Consistent(C, P, B, G, I),
         NEW pid \in RegPids \ DOMAIN B, NEW cg \in Cgroups, NEW id \in DOMAIN C
  PROVE  Consistent(C, P, Update(B, pid, id), Update(G, cg, id), I)
<1> DEFINE B2 == Update(B, pid, id)
           G2 == Update(G, cg, id)
<1>1. IsMap(B2, RegPids, DOMAIN C)
  BY Zenon, UpdateType DEF Consistent
<1>2. IsMap(G2, Cgroups, DOMAIN C)
  BY Zenon, UpdateType DEF Consistent
<1>3. \A k \in DOMAIN B : k \in DOMAIN B2 /\ B2[k] = B[k]
  BY Zenon DEF Update
<1> HIDE DEF B2, G2
<1>4. \A k \in DOMAIN P : \A p \in DOMAIN P[k] : p \in DOMAIN B2 /\ B2[p] = k
  BY Zenon, <1>3 DEF Consistent
<1>5. Consistent(C, P, B2, G2, I)
  BY Zenon, <1>1, <1>2, <1>4 DEF Consistent
<1> QED
  BY Zenon, <1>5 DEF B2, G2

\* A container is entered.
LEMMA NewOK ==
  ASSUME NEW C, NEW P, NEW B, NEW G, NEW I, Consistent(C, P, B, G, I),
         NEW id \in ContainerIds \ DOMAIN C, NEW c \in Container
  PROVE  Consistent(Update(C, id, c), Update(P, id, EmptyMap), B, G, I)
<1> DEFINE C2 == Update(C, id, c)
           P2 == Update(P, id, EmptyMap)
<1>1. /\ DOMAIN C2 = DOMAIN C \cup {id} /\ DOMAIN P2 = DOMAIN P \cup {id} /\ P2[id] = EmptyMap
      /\ id \notin DOMAIN P
  BY Zenon DEF Update, Consistent
<1>2. \A k \in DOMAIN P : P2[k] = P[k]
  BY Zenon DEF Update, Consistent
<1>3. \A k \in DOMAIN C : C2[k] = C[k]
  BY Zenon DEF Update
<1>4. IsMap(C2, ContainerIds, Container)
  BY Zenon, UpdateType DEF Consistent
<1> HIDE DEF C2, P2
<1>5. DOMAIN EmptyMap = {}
  BY Zenon DEF EmptyMap
<1>6. IsMap(EmptyMap, RegPids, Begins)
  BY Zenon, <1>5 DEF IsMap
<1>7. \A k \in DOMAIN P2 : IsMap(P2[k], RegPids, Begins)
  BY Zenon, <1>1, <1>2, <1>6 DEF Consistent
<1>8. IsMap(B, RegPids, DOMAIN C2) /\ IsMap(G, Cgroups, DOMAIN C2)
  BY Zenon, <1>1, IsMapMonotone DEF Consistent
<1>9. \A k \in DOMAIN P2 : \A p \in DOMAIN P2[k] : p \in DOMAIN B /\ B[p] = k
  BY Zenon, <1>1, <1>2, <1>5 DEF Consistent
<1>10. \A k \in DOMAIN C2 : C2[k].zombie => P2[k] = EmptyMap
  BY Zenon, <1>1, <1>2, <1>3 DEF Consistent
<1>11. DOMAIN P2 = DOMAIN C2
  BY Zenon, <1>1 DEF Consistent
<1>12. Consistent(C2, P2, B, G, I)
  BY Zenon, <1>4, <1>7, <1>8, <1>9, <1>10, <1>11 DEF Consistent
<1> QED
  BY Zenon, <1>12 DEF C2, P2

\* The cgroup of a container changes.
LEMMA ChangeOK ==
  ASSUME NEW C, NEW P, NEW B, NEW G, NEW I, Consistent(C, P, B, G, I),
         NEW id \in DOMAIN C, NEW c \in Container, c.zombie = C[id].zombie
  PROVE  Consistent(Update(C, id, c), P, B, G, I)
<1> DEFINE C2 == Update(C, id, c)
<1>1. DOMAIN C2 = DOMAIN C /\ C2[id] = c /\ \A k \in DOMAIN C : k # id => C2[k] = C[k]
  BY Zenon DEF Update
<1>2. IsMap(C2, ContainerIds, Container)
  BY Zenon, UpdateType DEF Consistent, IsMap
<1> HIDE DEF C2
<1>3. \A k \in DOMAIN C2 : C2[k].zombie => P[k] = EmptyMap
  BY Zenon, <1>1 DEF Consistent
<1>4. Consistent(C2, P, B, G, I)
  BY Zenon, <1>1, <1>2, <1>3 DEF Consistent
<1> QED
  BY Zenon, <1>4 DEF C2

\* Processes leave their containers: gc, the first loop.
LEMMA RemoveAllOK ==
  ASSUME NEW C, NEW P, NEW B, NEW G, NEW I, Consistent(C, P, B, G, I),
         NEW gone \in SUBSET DOMAIN B, NEW C2, NEW P2,
         IsMap(C2, ContainerIds, Container), DOMAIN C2 = DOMAIN C, DOMAIN P2 = DOMAIN P,
         \A k \in DOMAIN P : P2[k] = DeleteAll(P[k], {p \in gone : B[p] = k}),
         \A k \in DOMAIN C : C2[k].zombie => C[k].zombie \/ P2[k] = EmptyMap
  PROVE  Consistent(C2, P2, DeleteAll(B, gone), G, {})
<1> DEFINE B2 == DeleteAll(B, gone)
<1>1. DOMAIN B2 = DOMAIN B \ gone /\ \A k \in DOMAIN B2 : B2[k] = B[k]
  BY Zenon DEF DeleteAll
<1>2. IsMap(B2, RegPids, DOMAIN C2)
  BY Zenon, DeleteType DEF Consistent
<1>3. ASSUME NEW k \in DOMAIN P2
      PROVE  IsMap(P2[k], RegPids, Begins)
  <2> DEFINE own == {q \in gone : B[q] = k}
  <2>1. P2[k] = DeleteAll(P[k], own) /\ IsMap(P[k], RegPids, Begins)
    BY Zenon DEF Consistent
  <2> HIDE DEF own
  <2> QED
    BY <2>1, DeleteType
<1>4. ASSUME NEW k \in DOMAIN P2, NEW p \in DOMAIN P2[k]
      PROVE  p \in DOMAIN B2 /\ B2[p] = k
  <2> DEFINE own == {q \in gone : B[q] = k}
  <2>1. P2[k] = DeleteAll(P[k], own)
    BY Zenon
  <2>2. p \in DOMAIN P[k] /\ p \notin own
    BY Zenon, <2>1 DEF DeleteAll
  <2>3. p \in DOMAIN B /\ B[p] = k
    BY Zenon, <2>2 DEF Consistent
  <2> QED
    BY Zenon, <2>2, <2>3, <1>1
<1>5. ASSUME NEW k \in DOMAIN C2, C2[k].zombie
      PROVE  P2[k] = EmptyMap
  <2>1. CASE C[k].zombie
    <3>1. P[k] = EmptyMap
      BY Zenon, <2>1 DEF Consistent
    <3>2. k \in DOMAIN P
      BY Zenon DEF Consistent
    <3> DEFINE own == {q \in gone : B[q] = k}
    <3>3. P2[k] = DeleteAll(P[k], own)
      BY Zenon, <3>2
    <3> HIDE DEF own
    <3> QED
      BY Zenon, <3>1, <3>3, DeleteEmpty
  <2> QED
    BY Zenon, <1>5, <2>1
<1> HIDE DEF B2
<1>6. Consistent(C2, P2, B2, G, {})
  BY Zenon, <1>2, <1>3, <1>4, <1>5 DEF Consistent
<1> QED
  BY Zenon, <1>6 DEF B2

\* Containers are closed: gc, the second loop.
LEMMA CloseOK ==
  ASSUME NEW C, NEW P, NEW B, NEW G, NEW I, Consistent(C, P, B, G, I), NEW dead
  PROVE  Consistent(DeleteAll(C, dead), DeleteAll(P, dead),
                    DeleteAll(B, {p \in DOMAIN B : B[p] \in dead}),
                    DeleteAll(G, {g \in DOMAIN G : G[g] \in dead}), I)
<1> DEFINE C2 == DeleteAll(C, dead)
           P2 == DeleteAll(P, dead)
           B2 == DeleteAll(B, {p \in DOMAIN B : B[p] \in dead})
           G2 == DeleteAll(G, {g \in DOMAIN G : G[g] \in dead})
<1>1. DOMAIN C2 = DOMAIN C \ dead /\ \A k \in DOMAIN C2 : C2[k] = C[k]
  BY Zenon DEF DeleteAll
<1>2. DOMAIN P2 = DOMAIN P \ dead /\ \A k \in DOMAIN P2 : P2[k] = P[k]
  BY Zenon DEF DeleteAll
<1>3. DOMAIN B2 = {p \in DOMAIN B : B[p] \notin dead} /\ \A k \in DOMAIN B2 : B2[k] = B[k]
  BY Zenon DEF DeleteAll
<1>4. DOMAIN G2 = {g \in DOMAIN G : G[g] \notin dead} /\ \A k \in DOMAIN G2 : G2[k] = G[k]
  BY Zenon DEF DeleteAll
<1> HIDE DEF C2, P2, B2, G2
<1>5. IsMap(C2, ContainerIds, Container) /\ DOMAIN P2 = DOMAIN C2
  BY Zenon, <1>1, <1>2 DEF Consistent, IsMap
<1>6. \A k \in DOMAIN P2 : IsMap(P2[k], RegPids, Begins)
  BY Zenon, <1>2 DEF Consistent
<1>7. IsMap(B2, RegPids, DOMAIN C2)
  BY Zenon, <1>1, <1>3 DEF Consistent, IsMap
<1>8. IsMap(G2, Cgroups, DOMAIN C2)
  BY Zenon, <1>1, <1>4 DEF Consistent, IsMap
<1>9. \A k \in DOMAIN P2 : \A p \in DOMAIN P2[k] : p \in DOMAIN B2 /\ B2[p] = k
  BY Zenon, <1>2, <1>3 DEF Consistent
<1>10. \A k \in DOMAIN C2 : C2[k].zombie => P2[k] = EmptyMap
  BY Zenon, <1>1, <1>2, <1>5 DEF Consistent
<1>11. Consistent(C2, P2, B2, G2, I)
  BY Zenon, <1>5, <1>6, <1>7, <1>8, <1>9, <1>10 DEF Consistent
<1> QED
  BY Zenon, <1>11 DEF C2, P2, B2, G2

-----------------------------------------------------------------------------
(* The container                                                           *)

\* A set of natural numbers has a least element.
LEMMA LeastExists ==
  ASSUME NEW T, T \subseteq Nat, T # {}
  PROVE  \E x \in T : \A y \in T : x <= y
<1> DEFINE R == OpToRel(<, Nat)
<1>1. IsWellFoundedOn(R, Nat)
  BY Zenon, NatLessThanWellFounded
<1>2. \A x, y \in Nat : y < x => <<y, x>> \in R
  BY Zenon DEF OpToRel
<1> HIDE DEF R
<1>3. PICK x \in T : \A y \in T : ~(<<y, x>> \in R)
  BY Zenon, <1>1, WFMin
<1>4. ASSUME NEW y \in T
      PROVE  x <= y
  <2>1. x \in Nat /\ y \in Nat
    BY Zenon
  <2>2. ~(y < x)
    BY Zenon, <2>1, <1>2, <1>3
  <2> QED
    BY <2>1, <2>2
<1> QED
  BY Zenon, <1>4

\* The oldest process of a container began when one of its processes did.
LEMMA OldestType ==
  ASSUME NEW procs, IsMap(procs, RegPids, Begins), DOMAIN procs # {}
  PROVE  Oldest(procs) \in Begins
<1> DEFINE T == {procs[p] : p \in DOMAIN procs}
<1>1. T \subseteq Begins /\ T # {}
  BY Zenon DEF IsMap
<1>2. T \subseteq Nat
  BY <1>1, RegistryAssumption DEF Begins
<1>3. PICK x \in T : \A y \in T : x <= y
  BY Zenon, <1>1, <1>2, LeastExists
<1>4. \A p \in DOMAIN procs : x <= procs[p]
  BY Zenon, <1>3
<1>5. Oldest(procs) \in T
  BY Zenon, <1>3, <1>4 DEF Oldest
<1> QED
  BY Zenon, <1>1, <1>5

\* Two containers with one cgroup and as many OOM kills
Alike(c, d) == d.cgroup = c.cgroup /\ d.oomKills = c.oomKills

\* Counting a kill keeps the type of a container.
LEMMA CountType ==
  ASSUME NEW c \in Container, NEW oom \in BOOLEAN
  PROVE  /\ CountOom(c, oom) \in Container /\ CountOom(c, oom).zombie = c.zombie
         /\ CountOom(c, oom).cgroup = c.cgroup
         /\ CountOom(c, oom).oomKills = IF oom THEN c.oomKills + 1 ELSE c.oomKills
BY DEF CountOom, Container

\* So does counting a start.
LEMMA StartedType ==
  ASSUME NEW c \in Container, NEW oldest \in Begins
  PROVE  /\ Started(c, oldest) \in Container /\ Started(c, oldest).zombie = c.zombie
         /\ Alike(c, Started(c, oldest))
<1>1. oldest \in 0..MaxBegin
  BY RegistryAssumption DEF Begins
<1> DEFINE d == [c EXCEPT !.startedAt = oldest]
           more == c.restarts + 1
           e == [d EXCEPT !.restarts = more]
<1>2. d \in Container /\ d.zombie = c.zombie /\ d.cgroup = c.cgroup /\ d.oomKills = c.oomKills
  BY Zenon, <1>1 DEF Container
<1>3. more \in Nat
  BY DEF Container
<1>4. Started(c, oldest) \in {c, d, e}
  BY Zenon DEF Started
<1> HIDE DEF d, more
<1>5. e \in Container /\ e.zombie = d.zombie /\ e.cgroup = d.cgroup /\ e.oomKills = d.oomKills
  BY Zenon, <1>2, <1>3 DEF Container
<1> HIDE DEF e
<1> QED
  BY Zenon, <1>2, <1>4, <1>5 DEF Alike

\* And so does marking it, or not, for deletion.
LEMMA MarkType ==
  ASSUME NEW c \in Container, NEW z \in BOOLEAN
  PROVE  /\ [c EXCEPT !.zombie = z] \in Container /\ [c EXCEPT !.zombie = z].zombie = z
         /\ Alike(c, [c EXCEPT !.zombie = z])
BY Zenon DEF Container, Alike

-----------------------------------------------------------------------------
(* The handlers                                                            *)

\* The fields of a registry are the maps it is made of.
LEMMA MapsOK ==
  ASSUME NEW C, NEW P, NEW B, NEW G, NEW I, Consistent(C, P, B, G, I)
  PROVE  RegOK(Maps(C, P, B, G, I))
BY Zenon DEF RegOK, Maps

\* The maps a registry was made of.
LEMMA MapsFields ==
  ASSUME NEW C, NEW P, NEW B, NEW G, NEW I
  PROVE  /\ Maps(C, P, B, G, I).containersById = C /\ Maps(C, P, B, G, I).processes = P
         /\ Maps(C, P, B, G, I).containersByPid = B /\ Maps(C, P, B, G, I).containersByCgroupId = G
         /\ Maps(C, P, B, G, I).containersByPidIgnored = I
BY Zenon DEF Maps

\* The maps of a registry, and what the registry is made of.
Parts(r, C, P, B, G, I) ==
  /\ r = Maps(C, P, B, G, I)
  /\ Consistent(C, P, B, G, I)
  /\ r.containersById = C /\ r.processes = P /\ r.containersByPid = B
  /\ r.containersByCgroupId = G /\ r.containersByPidIgnored = I

\* A registry has its parts.
LEMMA HasParts ==
  ASSUME NEW r, RegOK(r)
  PROVE  \E C, P, B, G, I : Parts(r, C, P, B, G, I)
BY Zenon DEF RegOK, Parts

\* The containers have their cgroups and their OOM kills still.
SameContainers(r, q) ==
  /\ DOMAIN q.containersById = DOMAIN r.containersById
  /\ \A k \in DOMAIN r.containersById : Alike(r.containersById[k], q.containersById[k])

\* q is r without the process pid.
Dropped(r, q, pid, oom) ==
  LET id == r.containersByPid[pid] IN
  /\ q.containersByPid = Delete(r.containersByPid, pid)
  /\ q.processes = Update(r.processes, id, Delete(r.processes[id], pid))
  /\ q.containersByCgroupId = r.containersByCgroupId
  /\ q.containersByPidIgnored = r.containersByPidIgnored
  /\ DOMAIN q.containersById = DOMAIN r.containersById
  /\ \A k \in DOMAIN r.containersById \ {id} : Alike(r.containersById[k], q.containersById[k])
  /\ q.containersById[id].cgroup = r.containersById[id].cgroup
  /\ q.containersById[id].oomKills =
       IF oom THEN r.containersById[id].oomKills + 1 ELSE r.containersById[id].oomKills

\* onProcessExit
LEMMA DropOK ==
  ASSUME NEW r, RegOK(r), NEW pid \in DOMAIN r.containersByPid, NEW oom \in BOOLEAN
  PROVE  RegOK(Drop(r, pid, oom)) /\ Dropped(r, Drop(r, pid, oom), pid, oom)
<1>1. PICK C, P, B, G, I : Parts(r, C, P, B, G, I)
  BY Zenon, HasParts
<1> DEFINE id == B[pid]
           left == Delete(P[id], pid)
           counted == CountOom(C[id], oom)
           c == IF left = EmptyMap THEN [counted EXCEPT !.zombie = TRUE] ELSE counted
           d == Maps(Update(C, id, c), Update(P, id, left), Delete(B, pid), G, I)
<1>2. id \in DOMAIN C /\ id \in DOMAIN P /\ C[id] \in Container
  BY Zenon, <1>1 DEF Parts, Consistent, IsMap
<1>3. /\ counted \in Container /\ counted.zombie = C[id].zombie
      /\ counted.cgroup = C[id].cgroup
      /\ counted.oomKills = IF oom THEN C[id].oomKills + 1 ELSE C[id].oomKills
  BY Zenon, <1>2, CountType
<1>4. C[id].zombie => left = EmptyMap
  BY <1>1, <1>2, DeleteEmpty DEF Parts, Consistent, Delete
<1>5. c \in Container /\ (c.zombie => left = EmptyMap) /\ Alike(counted, c)
  <2> HIDE DEF counted, left
  <2> QED
    BY Zenon, <1>3, <1>4, MarkType DEF Alike
<1>6. Drop(r, pid, oom) = d
  <2> DEFINE x == Delete(B, pid)
             y == Update(P, id, left)
             z == Update(C, id, c)
  <2> HIDE DEF x, y, z
  <2>1. [Maps(C, P, B, G, I) EXCEPT !.containersByPid = x] = Maps(C, P, x, G, I)
    BY DEF Maps
  <2>2. [Maps(C, P, x, G, I) EXCEPT !.processes = y] = Maps(C, y, x, G, I)
    BY DEF Maps
  <2>3. [Maps(C, y, x, G, I) EXCEPT !.containersById = z] = Maps(z, y, x, G, I)
    BY DEF Maps
  <2>4. Drop(r, pid, oom) = [r EXCEPT !.containersByPid = x, !.processes = y, !.containersById = z]
    BY Zenon, <1>1 DEF Parts, Drop, x, y, z
  <2>5. r = Maps(C, P, B, G, I)
    BY Zenon, <1>1 DEF Parts
  <2>6. Drop(r, pid, oom) = Maps(z, y, x, G, I)
    BY Zenon, <2>1, <2>2, <2>3, <2>4, <2>5
  <2> QED
    BY Zenon, <2>6 DEF x, y, z
<1>7. RegOK(d)
  <2>1. Consistent(Update(C, id, c), Update(P, id, left), Delete(B, pid), G, I)
    <3> HIDE DEF counted
    <3> QED
      BY Zenon, <1>1, <1>5, RemoveOK DEF Parts
  <2> QED
    BY Zenon, <2>1, MapsOK
<1>8. Dropped(r, d, pid, oom)
  <2> DEFINE C2 == Update(C, id, c)
  <2>1. DOMAIN C2 = DOMAIN C /\ C2[id] = c /\ \A k \in DOMAIN C \ {id} : C2[k] = C[k]
    BY Zenon, <1>2 DEF Update
  <2> HIDE DEF C2, counted, left, c
  <2>2. /\ d.containersById = C2 /\ d.processes = Update(P, id, left)
        /\ d.containersByPid = Delete(B, pid) /\ d.containersByCgroupId = G
        /\ d.containersByPidIgnored = I
    BY Zenon DEF Maps, C2
  <2>3. /\ r.containersById = C /\ r.processes = P /\ r.containersByPid = B
        /\ r.containersByCgroupId = G /\ r.containersByPidIgnored = I
    BY Zenon, <1>1 DEF Parts
  <2> HIDE DEF d
  <2>4. \A k \in DOMAIN C \ {id} : Alike(C[k], C2[k])
    BY Zenon, <2>1 DEF Alike
  <2>5. C2[id].cgroup = C[id].cgroup /\ C2[id].oomKills = IF oom THEN C[id].oomKills + 1 ELSE C[id].oomKills
    BY Zenon, <1>3, <1>5, <2>1 DEF Alike
  <2>6. r.containersByPid[pid] = id /\ left = Delete(r.processes[id], pid)
    BY Zenon, <2>3 DEF left
  <2> HIDE DEF id
  <2>7. /\ \A k \in DOMAIN r.containersById \ {id} : Alike(r.containersById[k], d.containersById[k])
        /\ d.containersById[id].cgroup = r.containersById[id].cgroup
        /\ d.containersById[id].oomKills =
             IF oom THEN r.containersById[id].oomKills + 1 ELSE r.containersById[id].oomKills
    BY Zenon, <2>2, <2>3, <2>4, <2>5
  <2>8. /\ d.containersByPid = Delete(r.containersByPid, pid)
        /\ d.processes = Update(r.processes, id, Delete(r.processes[id], pid))
        /\ d.containersByCgroupId = r.containersByCgroupId
        /\ d.containersByPidIgnored = r.containersByPidIgnored
        /\ DOMAIN d.containersById = DOMAIN r.containersById
    BY Zenon, <2>1, <2>2, <2>3, <2>6
  <2> QED
    BY Zenon, <2>6, <2>7, <2>8 DEF Dropped
<1> QED
  BY Zenon, <1>6, <1>7, <1>8

\* q is r with the process pid, which began then, in the container of pid.
Entering(r, q, pid, begin) ==
  LET id == r.containersByPid[pid] IN
  /\ q.processes = Update(r.processes, id, Update(r.processes[id], pid, begin))
  /\ q.containersByPid = r.containersByPid
  /\ q.containersByCgroupId = r.containersByCgroupId
  /\ q.containersByPidIgnored = r.containersByPidIgnored
  /\ SameContainers(r, q)

\* onProcessStart
LEMMA EnterOK ==
  ASSUME NEW r, RegOK(r), NEW pid, NEW begin \in Begins \cup {None}
  PROVE  /\ RegOK(EnterProcess(r, pid, begin))
         /\ IF begin = None \/ pid \notin DOMAIN r.containersByPid THEN EnterProcess(r, pid, begin) = r
            ELSE Entering(r, EnterProcess(r, pid, begin), pid, begin)
<1>1. PICK C, P, B, G, I : Parts(r, C, P, B, G, I)
  BY Zenon, HasParts
<1>2. CASE begin = None \/ pid \notin DOMAIN B
  BY Zenon, <1>1, <1>2 DEF Parts, EnterProcess
<1>3. CASE begin # None /\ pid \in DOMAIN B
  <2> DEFINE id == B[pid]
             procs == Update(P[id], pid, begin)
             cleared == [C[id] EXCEPT !.zombie = FALSE]
             c == Started(cleared, Oldest(procs))
             d == Maps(Update(C, id, c), Update(P, id, procs), B, G, I)
  <2>1. begin \in Begins /\ pid \in DOMAIN B /\ pid \in RegPids
    BY Zenon, <1>1, <1>3 DEF Parts, Consistent, IsMap
  <2>2. id \in DOMAIN C /\ id \in DOMAIN P /\ C[id] \in Container /\ IsMap(P[id], RegPids, Begins)
    BY Zenon, <1>1, <2>1 DEF Parts, Consistent, IsMap
  <2>3. IsMap(procs, RegPids, Begins)
    BY Zenon, <2>1, <2>2, UpdateType
  <2>4. DOMAIN procs # {}
    BY Zenon DEF Update
  <2>5. Oldest(procs) \in Begins
    BY Zenon, <2>3, <2>4, OldestType
  <2>6. cleared \in Container /\ ~cleared.zombie /\ Alike(C[id], cleared)
    BY Zenon, <2>2, MarkType
  <2>7. c \in Container /\ ~c.zombie /\ Alike(C[id], c)
    <3> HIDE DEF cleared, procs
    <3> QED
      BY Zenon, <2>5, <2>6, StartedType DEF Alike
  <2>8. EnterProcess(r, pid, begin) = d
    <3> DEFINE y == Update(P, id, procs)
               z == Update(C, id, c)
    <3> HIDE DEF y, z
    <3>1. [Maps(C, P, B, G, I) EXCEPT !.processes = y] = Maps(C, y, B, G, I)
      BY DEF Maps
    <3>2. [Maps(C, y, B, G, I) EXCEPT !.containersById = z] = Maps(z, y, B, G, I)
      BY DEF Maps
    <3>3. EnterProcess(r, pid, begin) = [r EXCEPT !.processes = y, !.containersById = z]
      BY Zenon, <1>1, <1>3 DEF Parts, EnterProcess, y, z
    <3>4. r = Maps(C, P, B, G, I)
      BY Zenon, <1>1 DEF Parts
    <3>5. EnterProcess(r, pid, begin) = Maps(z, y, B, G, I)
      BY Zenon, <3>1, <3>2, <3>3, <3>4
    <3> QED
      BY Zenon, <3>5 DEF y, z
  <2>9. Consistent(Update(C, id, c), Update(P, id, procs), B, G, I)
    <3> HIDE DEF c
    <3> QED
      BY Zenon, <1>1, <2>1, <2>7, AddOK DEF Parts
  <2>10. Entering(r, d, pid, begin)
    <3> DEFINE C2 == Update(C, id, c)
    <3>1. DOMAIN C2 = DOMAIN C /\ C2[id] = c /\ \A k \in DOMAIN C \ {id} : C2[k] = C[k]
      BY Zenon, <2>2 DEF Update
    <3>2. \A k \in DOMAIN C : Alike(C[k], C2[k])
      <4> HIDE DEF C2, c
      <4> QED
        BY Zenon, <2>7, <3>1 DEF Alike
    <3> HIDE DEF C2, c
    <3>3. /\ d.containersById = C2 /\ d.processes = Update(P, id, procs)
          /\ d.containersByPid = B /\ d.containersByCgroupId = G /\ d.containersByPidIgnored = I
      BY Zenon DEF Maps, C2
    <3>4. /\ r.containersById = C /\ r.processes = P /\ r.containersByPid = B
          /\ r.containersByCgroupId = G /\ r.containersByPidIgnored = I
      BY Zenon, <1>1 DEF Parts
    <3> HIDE DEF d
    <3>5. SameContainers(r, d)
      BY Zenon, <3>1, <3>2, <3>3, <3>4 DEF SameContainers
    <3> QED
      BY Zenon, <3>3, <3>4, <3>5 DEF Entering
  <2> HIDE DEF d
  <2>11. pid \in DOMAIN r.containersByPid
    BY Zenon, <1>1, <1>3 DEF Parts
  <2> QED
    BY Zenon, <1>3, <2>8, <2>9, <2>10, <2>11, MapsOK DEF d
<1> QED
  BY Zenon, <1>2, <1>3

\* q is r with pid and its cgroup bound to a container.
Bound(r, q, pid, cg, id) ==
  /\ q.containersByPid = Update(r.containersByPid, pid, id)
  /\ q.containersByCgroupId = Update(r.containersByCgroupId, cg, id)
  /\ q.containersByPidIgnored = r.containersByPidIgnored

\* The containers of q are those of r and id, which may have got the cgroup cg.
Containers(r, q, cg, id) ==
  /\ DOMAIN q.containersById = DOMAIN r.containersById \cup {id}
  /\ \A k \in DOMAIN r.containersById :
       /\ q.containersById[k].oomKills = r.containersById[k].oomKills
       /\ \/ q.containersById[k].cgroup = r.containersById[k].cgroup
          \/ k = id /\ q.containersById[k].cgroup = cg
  /\ id \notin DOMAIN r.containersById =>
       q.containersById[id].cgroup = cg /\ q.containersById[id].oomKills = 0
  /\ q.processes = IF id \in DOMAIN r.containersById THEN r.processes
                   ELSE Update(r.processes, id, EmptyMap)

\* A process and its cgroup are bound to a container.
LEMMA BindReg ==
  ASSUME NEW r, RegOK(r), NEW pid \in RegPids \ DOMAIN r.containersByPid, NEW cg \in Cgroups,
         NEW id \in DOMAIN r.containersById
  PROVE  /\ RegOK(Bind(r, pid, cg, id))
         /\ Bound(r, Bind(r, pid, cg, id), pid, cg, id)
         /\ Bind(r, pid, cg, id).containersById = r.containersById
         /\ Bind(r, pid, cg, id).processes = r.processes
<1>1. PICK C, P, B, G, I : Parts(r, C, P, B, G, I)
  BY Zenon, HasParts
<1> DEFINE x == Update(B, pid, id)
           y == Update(G, cg, id)
<1>2. Consistent(C, P, x, y, I)
  BY Zenon, <1>1, BindOK DEF Parts
<1> HIDE DEF x, y
<1>3. [Maps(C, P, B, G, I) EXCEPT !.containersByPid = x] = Maps(C, P, x, G, I)
  BY DEF Maps
<1>4. [Maps(C, P, x, G, I) EXCEPT !.containersByCgroupId = y] = Maps(C, P, x, y, I)
  BY DEF Maps
<1>5. Bind(r, pid, cg, id) = [r EXCEPT !.containersByPid = x, !.containersByCgroupId = y]
  BY Zenon, <1>1 DEF Parts, Bind, x, y
<1>6. r = Maps(C, P, B, G, I)
  BY Zenon, <1>1 DEF Parts
<1>7. Bind(r, pid, cg, id) = Maps(C, P, x, y, I)
  BY Zenon, <1>3, <1>4, <1>5, <1>6
<1> DEFINE d == Maps(C, P, x, y, I)
<1>8. /\ d.containersById = C /\ d.processes = P /\ d.containersByPid = x
      /\ d.containersByCgroupId = y /\ d.containersByPidIgnored = I
  BY Zenon DEF Maps
<1>9. /\ r.containersById = C /\ r.processes = P /\ r.containersByPid = B
      /\ r.containersByCgroupId = G /\ r.containersByPidIgnored = I
  BY Zenon, <1>1 DEF Parts
<1>10. RegOK(d)
  BY Zenon, <1>2, MapsOK
<1> HIDE DEF d
<1>11. Bound(r, d, pid, cg, id)
  BY Zenon, <1>8, <1>9 DEF Bound, x, y
<1> QED
  BY Zenon, <1>7, <1>8, <1>9, <1>10, <1>11 DEF d

\* A second cgroup of a container.
LEMMA ConflictReg ==
  ASSUME NEW r, RegOK(r), NEW pid \in RegPids \ DOMAIN r.containersByPid, NEW cg \in Cgroups,
         NEW id \in DOMAIN r.containersById
  PROVE  /\ RegOK(Conflict(r, pid, cg, id))
         /\ Bound(r, Conflict(r, pid, cg, id), pid, cg, id)
         /\ Containers(r, Conflict(r, pid, cg, id), cg, id)
<1>1. PICK C, P, B, G, I : Parts(r, C, P, B, G, I)
  BY Zenon, HasParts
<1> DEFINE c == IF cg > C[id].cgroup THEN [C[id] EXCEPT !.cgroup = cg] ELSE C[id]
           x == Update(C, id, c)
           q == Maps(x, P, B, G, I)
<1>2. C[id] \in Container
  BY Zenon, <1>1 DEF Parts, Consistent, IsMap
<1>3. /\ c \in Container /\ c.zombie = C[id].zombie
      /\ c.oomKills = C[id].oomKills /\ c.cgroup \in {C[id].cgroup, cg}
  BY Zenon, <1>2 DEF Container
<1> HIDE DEF c
<1>4. Consistent(x, P, B, G, I)
  BY Zenon, <1>1, <1>3, ChangeOK DEF Parts
<1>p. id \in DOMAIN C
  BY Zenon, <1>1 DEF Parts
<1>5. DOMAIN x = DOMAIN C /\ x[id] = c /\ \A k \in DOMAIN C \ {id} : x[k] = C[k]
  BY Zenon, <1>p DEF Update
<1> HIDE DEF x
<1>6. [Maps(C, P, B, G, I) EXCEPT !.containersById = x] = q
  BY DEF Maps
<1>7. r = Maps(C, P, B, G, I)
  BY <1>1 DEF Parts
<1>8. Conflict(r, pid, cg, id) = Bind([r EXCEPT !.containersById = x], pid, cg, id)
  BY Zenon, <1>1 DEF Parts, Conflict, x, c
<1>9. Conflict(r, pid, cg, id) = Bind(q, pid, cg, id)
  BY Zenon, <1>6, <1>7, <1>8
<1>10. RegOK(q)
  BY Zenon, <1>4, MapsOK
<1>f. /\ r.containersById = C /\ r.processes = P /\ r.containersByPid = B
      /\ r.containersByCgroupId = G /\ r.containersByPidIgnored = I
  BY Zenon, <1>1 DEF Parts
<1>g. /\ q.containersById = x /\ q.processes = P /\ q.containersByPid = B
      /\ q.containersByCgroupId = G /\ q.containersByPidIgnored = I
  BY Zenon DEF Maps
<1>11. pid \notin DOMAIN q.containersByPid /\ id \in DOMAIN q.containersById
  BY Zenon, <1>p, <1>5, <1>f, <1>g
<1> HIDE DEF q
<1> DEFINE d == Bind(q, pid, cg, id)
<1>12. RegOK(d) /\ Bound(q, d, pid, cg, id) /\ d.containersById = x /\ d.processes = P
  BY Zenon, <1>10, <1>11, <1>g, BindReg
<1> HIDE DEF d
<1>13. Bound(r, d, pid, cg, id)
  BY Zenon, <1>12, <1>f, <1>g DEF Bound
<1>14. \A k \in DOMAIN C : /\ x[k].oomKills = C[k].oomKills
                           /\ x[k].cgroup = C[k].cgroup \/ (k = id /\ x[k].cgroup = cg)
  BY Zenon, <1>3, <1>5
<1>15. DOMAIN x = DOMAIN C \cup {id}
  BY Zenon, <1>p, <1>5
<1>16. Containers(r, d, cg, id)
  BY Zenon, <1>p, <1>12, <1>14, <1>15, <1>f DEF Containers
<1> QED
  BY Zenon, <1>9, <1>12, <1>13, <1>16 DEF d

\* A new container.
LEMMA NewReg ==
  ASSUME NEW r, RegOK(r), NEW pid \in RegPids \ DOMAIN r.containersByPid, NEW cg \in Cgroups,
         NEW id \in ContainerIds \ DOMAIN r.containersById
  PROVE  /\ RegOK(NewContainer(r, pid, cg, id))
         /\ Bound(r, NewContainer(r, pid, cg, id), pid, cg, id)
         /\ Containers(r, NewContainer(r, pid, cg, id), cg, id)
<1>1. PICK C, P, B, G, I : Parts(r, C, P, B, G, I)
  BY Zenon, HasParts
<1> DEFINE c == [cgroup |-> cg, zombie |-> FALSE, startedAt |-> 0, restarts |-> 0, oomKills |-> 0]
           x == Update(C, id, c)
           y == Update(P, id, EmptyMap)
           q == Maps(x, y, B, G, I)
<1>2. c \in Container
  BY RegistryAssumption DEF Container
<1>c. c.cgroup = cg /\ c.oomKills = 0
  BY Zenon
<1> HIDE DEF c
<1>3. Consistent(x, y, B, G, I)
  BY Zenon, <1>1, <1>2, NewOK DEF Parts
<1>p. id \notin DOMAIN C
  BY Zenon, <1>1 DEF Parts
<1>4. DOMAIN x = DOMAIN C \cup {id} /\ x[id] = c /\ \A k \in DOMAIN C : x[k] = C[k]
  BY Zenon, <1>p DEF Update
<1> HIDE DEF x, y
<1>5. [Maps(C, P, B, G, I) EXCEPT !.containersById = x] = Maps(x, P, B, G, I)
  BY DEF Maps
<1>6. [Maps(x, P, B, G, I) EXCEPT !.processes = y] = q
  BY DEF Maps
<1>7. r = Maps(C, P, B, G, I)
  BY Zenon, <1>1 DEF Parts
<1>8. NewContainer(r, pid, cg, id)
        = Bind([r EXCEPT !.containersById = x, !.processes = y], pid, cg, id)
  BY Zenon, <1>1 DEF Parts, NewContainer, x, y, c
<1>9. NewContainer(r, pid, cg, id) = Bind(q, pid, cg, id)
  BY Zenon, <1>5, <1>6, <1>7, <1>8
<1>10. RegOK(q)
  BY Zenon, <1>3, MapsOK
<1>f. /\ r.containersById = C /\ r.processes = P /\ r.containersByPid = B
      /\ r.containersByCgroupId = G /\ r.containersByPidIgnored = I
  BY Zenon, <1>1 DEF Parts
<1>g. /\ q.containersById = x /\ q.processes = y /\ q.containersByPid = B
      /\ q.containersByCgroupId = G /\ q.containersByPidIgnored = I
  BY Zenon DEF Maps
<1>11. pid \notin DOMAIN q.containersByPid /\ id \in DOMAIN q.containersById
  BY Zenon, <1>4, <1>f, <1>g
<1> HIDE DEF q
<1> DEFINE d == Bind(q, pid, cg, id)
<1>12. RegOK(d) /\ Bound(q, d, pid, cg, id) /\ d.containersById = x /\ d.processes = y
  BY Zenon, <1>10, <1>11, <1>g, BindReg
<1> HIDE DEF d
<1>13. Bound(r, d, pid, cg, id)
  BY Zenon, <1>12, <1>f, <1>g DEF Bound
<1>14. \A k \in DOMAIN C : x[k].oomKills = C[k].oomKills /\ x[k].cgroup = C[k].cgroup
  BY Zenon, <1>4
<1>15. x[id].cgroup = cg /\ x[id].oomKills = 0
  BY Zenon, <1>4, <1>c
<1>16. Containers(r, d, cg, id)
  BY Zenon, <1>p, <1>4, <1>12, <1>14, <1>15, <1>f DEF Containers, y
<1> QED
  BY Zenon, <1>9, <1>12, <1>13, <1>16 DEF d

\* The ignored processes are another set.
LEMMA IgnoreReg ==
  ASSUME NEW r, RegOK(r), NEW S \in SUBSET RegPids
  PROVE  /\ RegOK([r EXCEPT !.containersByPidIgnored = S])
         /\ [r EXCEPT !.containersByPidIgnored = S].containersByPid = r.containersByPid
         /\ [r EXCEPT !.containersByPidIgnored = S].containersById = r.containersById
         /\ [r EXCEPT !.containersByPidIgnored = S].containersByCgroupId = r.containersByCgroupId
         /\ [r EXCEPT !.containersByPidIgnored = S].processes = r.processes
         /\ [r EXCEPT !.containersByPidIgnored = S].containersByPidIgnored = S
<1>1. PICK C, P, B, G, I : Parts(r, C, P, B, G, I)
  BY Zenon, HasParts
<1>2. [Maps(C, P, B, G, I) EXCEPT !.containersByPidIgnored = S] = Maps(C, P, B, G, S)
  BY DEF Maps
<1>3. Consistent(C, P, B, G, S)
  BY Zenon, <1>1 DEF Parts, Consistent
<1>4. RegOK(Maps(C, P, B, G, S))
  BY Zenon, <1>3, MapsOK
<1>5. r = Maps(C, P, B, G, I)
  BY Zenon, <1>1 DEF Parts
<1>6. [r EXCEPT !.containersByPidIgnored = S] = Maps(C, P, B, G, S)
  BY Zenon, <1>2, <1>5
<1>7. /\ Maps(C, P, B, G, S).containersByPid = B
      /\ Maps(C, P, B, G, S).containersById = C
      /\ Maps(C, P, B, G, S).containersByCgroupId = G
      /\ Maps(C, P, B, G, S).processes = P
      /\ Maps(C, P, B, G, S).containersByPidIgnored = S
  BY Zenon DEF Maps
<1>8. /\ r.containersByPid = B /\ r.containersById = C /\ r.containersByCgroupId = G
      /\ r.processes = P
  BY Zenon, <1>1 DEF Parts
<1> QED
  BY Zenon, <1>4, <1>6, <1>7, <1>8

\* Only the ignored processes differ.
SameMaps(r, q) ==
  /\ q.containersById = r.containersById /\ q.processes = r.processes
  /\ q.containersByPid = r.containersByPid /\ q.containersByCgroupId = r.containersByCgroupId

\* q is r with pid bound to the container of its cgroup.
Found(r, q, pid, cg, id) ==
  /\ pid \notin DOMAIN r.containersByPid /\ cg \in Cgroups
  /\ id = IF cg \in DOMAIN r.containersByCgroupId THEN r.containersByCgroupId[cg] ELSE IdOf[cg]
  /\ q.containersByPid = Update(r.containersByPid, pid, id)
  /\ q.containersByCgroupId = Update(r.containersByCgroupId, cg, id)
  /\ q.containersByPidIgnored \subseteq r.containersByPidIgnored
  /\ Containers(r, q, cg, id)

\* What getOrCreateContainer may do.
Looked(r, q, pid, cg, ok) ==
  /\ SameMaps(r, q) \/ \E id \in ContainerIds : Found(r, q, pid, cg, id)
  /\ cg = None \/ IdOf[cg] # None => q.containersByPidIgnored \subseteq r.containersByPidIgnored
  /\ cg # None /\ IdOf[cg] # None /\ ok /\ pid \notin r.containersByPidIgnored =>
       pid \in DOMAIN q.containersByPid

\* pid, which is not ignored now, has been bound to the container of its cgroup.
Through(r, seen, q, pid, cg, id) ==
  /\ SameMaps(r, seen) /\ seen.containersByPidIgnored = r.containersByPidIgnored \ {pid}
  /\ pid \notin DOMAIN r.containersByPid /\ cg \in Cgroups /\ id \in ContainerIds
  /\ id = IF cg \in DOMAIN r.containersByCgroupId THEN r.containersByCgroupId[cg] ELSE IdOf[cg]
  /\ Bound(seen, q, pid, cg, id) /\ Containers(seen, q, cg, id)

\* That is one of the things getOrCreateContainer may do.
LEMMA FoundThrough ==
  ASSUME NEW r, NEW seen, NEW q, NEW pid, NEW cg, NEW id, Through(r, seen, q, pid, cg, id), NEW ok
  PROVE  Looked(r, q, pid, cg, ok)
<1>1. Containers(r, q, cg, id)
  BY Zenon DEF Through, SameMaps, Containers
<1>2. q.containersByPidIgnored \subseteq r.containersByPidIgnored
  BY Zenon DEF Through, Bound
<1>3. Found(r, q, pid, cg, id)
  BY Zenon, <1>1, <1>2 DEF Through, SameMaps, Bound, Found
<1>4. pid \in DOMAIN q.containersByPid
  BY Zenon DEF Through, Bound, Update
<1> QED
  BY Zenon, <1>2, <1>3, <1>4 DEF Through, Looked

\* getOrCreateContainer
LEMMA GetOrCreateOK ==
  ASSUME NEW r, RegOK(r), NEW pid \in RegPids, NEW cg \in Cgroups \cup {None},
         NEW fresh \in BOOLEAN, NEW ok \in BOOLEAN
  PROVE  /\ RegOK(GetOrCreate(r, pid, cg, fresh, ok))
         /\ Looked(r, GetOrCreate(r, pid, cg, fresh, ok), pid, cg, ok)
<1> DEFINE seen == [r EXCEPT !.containersByPidIgnored = r.containersByPidIgnored \ {pid}]
           id == IdOf[cg]
           q == GetOrCreate(r, pid, cg, fresh, ok)
<1>1. r.containersByPidIgnored \in SUBSET RegPids
  BY Zenon DEF RegOK, Consistent
<1>2. /\ RegOK(seen) /\ SameMaps(r, seen)
      /\ seen.containersByPidIgnored = r.containersByPidIgnored \ {pid}
  BY Zenon, <1>1, IgnoreReg DEF SameMaps
<1>m. /\ seen.containersByPid = r.containersByPid
      /\ seen.containersById = r.containersById
      /\ seen.containersByCgroupId = r.containersByCgroupId
  BY Zenon, <1>2 DEF SameMaps
<1>3. q = IF pid \in DOMAIN r.containersByPid \/ (pid \in r.containersByPidIgnored /\ fresh) THEN r
          ELSE IF cg = None THEN seen
          ELSE IF cg \in DOMAIN r.containersByCgroupId
               THEN Bind(seen, pid, cg, r.containersByCgroupId[cg])
          ELSE IF ~ok THEN seen
          ELSE IF id = None THEN Ignore(seen, pid, cg)
          ELSE IF id \in DOMAIN r.containersById THEN Conflict(seen, pid, cg, id)
          ELSE NewContainer(seen, pid, cg, id)
  BY Zenon DEF GetOrCreate
<1> HIDE DEF seen, q
<1>4. CASE pid \in DOMAIN r.containersByPid \/ (pid \in r.containersByPidIgnored /\ fresh)
  <2>1. q = r
    BY Zenon, <1>3, <1>4
  <2> QED
    BY Zenon, <1>4, <2>1 DEF SameMaps, Looked, q
<1>5. CASE pid \notin DOMAIN r.containersByPid /\ q = seen /\ (cg = None \/ ~ok)
  BY Zenon, <1>2, <1>5 DEF Looked, q
<1>6. CASE /\ pid \notin DOMAIN r.containersByPid /\ cg # None /\ cg \in DOMAIN r.containersByCgroupId
           /\ q = Bind(seen, pid, cg, r.containersByCgroupId[cg])
  <2> DEFINE k == r.containersByCgroupId[cg]
  <2>1. k \in DOMAIN seen.containersById /\ cg \in Cgroups /\ k \in ContainerIds
    BY Zenon, <1>m, <1>6 DEF RegOK, Consistent, IsMap
  <2> HIDE DEF k
  <2>2. RegOK(q) /\ Bound(seen, q, pid, cg, k) /\ q.containersById = seen.containersById /\ q.processes = seen.processes
    <3>1. pid \in RegPids \ DOMAIN seen.containersByPid
      BY Zenon, <1>m, <1>6
    <3>2. /\ RegOK(Bind(seen, pid, cg, k)) /\ Bound(seen, Bind(seen, pid, cg, k), pid, cg, k)
          /\ Bind(seen, pid, cg, k).containersById = seen.containersById
          /\ Bind(seen, pid, cg, k).processes = seen.processes
      BY Zenon, <1>2, <2>1, <3>1, BindReg
    <3> QED
      BY Zenon, <1>6, <3>2 DEF k
  <2>3. Containers(seen, q, cg, k)
    BY Zenon, <2>1, <2>2 DEF Containers
  <2>4. k = IF cg \in DOMAIN r.containersByCgroupId THEN r.containersByCgroupId[cg] ELSE IdOf[cg]
    BY Zenon, <1>6 DEF k
  <2>5. Looked(r, q, pid, cg, ok)
    <3>1. Through(r, seen, q, pid, cg, k)
      BY Zenon, <1>2, <1>6, <2>1, <2>2, <2>3, <2>4 DEF Through
    <3> QED
      BY Zenon, <3>1, FoundThrough
  <2> QED
    BY Zenon, <2>2, <2>5 DEF q
<1>7. CASE id = None /\ cg # None /\ q = Ignore(seen, pid, cg)
  <2>1. seen.containersByPidIgnored \cup {pid} \in SUBSET RegPids
    BY Zenon, <1>2 DEF RegOK, Consistent
  <2>2. RegOK(q) /\ SameMaps(seen, q)
    BY Zenon, <1>2, <1>7, <2>1, IgnoreReg DEF Ignore, SameMaps
  <2>3. SameMaps(r, q)
    BY Zenon, <1>2, <2>2 DEF SameMaps
  <2> QED
    BY Zenon, <1>7, <2>2, <2>3 DEF Looked, q
<1>8. CASE /\ pid \notin DOMAIN r.containersByPid /\ cg # None /\ cg \notin DOMAIN r.containersByCgroupId
           /\ id # None
           /\ IF id \in DOMAIN r.containersById THEN q = Conflict(seen, pid, cg, id)
              ELSE q = NewContainer(seen, pid, cg, id)
  <2>1. cg \in Cgroups /\ id \in ContainerIds
    BY Zenon, <1>8, RegistryAssumption
  <2>2. RegOK(q) /\ Bound(seen, q, pid, cg, id) /\ Containers(seen, q, cg, id)
    <3>1. pid \in RegPids \ DOMAIN seen.containersByPid
      BY Zenon, <1>m, <1>8
    <3>2. CASE id \in DOMAIN r.containersById
      <4>1. id \in DOMAIN seen.containersById /\ q = Conflict(seen, pid, cg, id)
        BY Zenon, <1>m, <1>8, <3>2
      <4> HIDE DEF id
      <4>2. /\ RegOK(Conflict(seen, pid, cg, id)) /\ Bound(seen, Conflict(seen, pid, cg, id), pid, cg, id)
            /\ Containers(seen, Conflict(seen, pid, cg, id), cg, id)
        BY Zenon, <1>2, <2>1, <3>1, <4>1, ConflictReg
      <4> QED
        BY Zenon, <4>1, <4>2
    <3>3. CASE id \notin DOMAIN r.containersById
      <4>1. id \in ContainerIds \ DOMAIN seen.containersById /\ q = NewContainer(seen, pid, cg, id)
        BY Zenon, <1>m, <1>8, <2>1, <3>3
      <4> HIDE DEF id
      <4>2. /\ RegOK(NewContainer(seen, pid, cg, id)) /\ Bound(seen, NewContainer(seen, pid, cg, id), pid, cg, id)
            /\ Containers(seen, NewContainer(seen, pid, cg, id), cg, id)
        BY Zenon, <1>2, <2>1, <3>1, <4>1, NewReg
      <4> QED
        BY Zenon, <4>1, <4>2
    <3> QED
      BY Zenon, <3>2, <3>3
  <2>3. id = IF cg \in DOMAIN r.containersByCgroupId THEN r.containersByCgroupId[cg] ELSE IdOf[cg]
    BY Zenon, <1>8
  <2> HIDE DEF id
  <2>4. Looked(r, q, pid, cg, ok)
    <3>1. Through(r, seen, q, pid, cg, id)
      BY Zenon, <1>2, <1>8, <2>1, <2>2, <2>3 DEF Through
    <3> QED
      BY Zenon, <3>1, FoundThrough
  <2> QED
    BY Zenon, <2>2, <2>4 DEF q
<1> QED
  BY Zenon, <1>3, <1>4, <1>5, <1>6, <1>7, <1>8

\* q is r, unless pid is bound to a container with another cgroup; then it is dropped.
Revalidated(r, q, pid, cg) ==
  \/ /\ q = r
     /\ pid \in DOMAIN r.containersByPid => cg = r.containersById[r.containersByPid[pid]].cgroup
  \/ pid \in DOMAIN r.containersByPid /\ Dropped(r, q, pid, FALSE)

\* What a start event may do: a stale binding is dropped, the container is looked
\* for, and the process is entered.
StartSteps(r, s, pid, cg, begin, ok) ==
  \E q, f : /\ RegOK(q) /\ RegOK(f)
            /\ Revalidated(r, q, pid, cg)
            /\ Looked(q, f, pid, cg, ok)
            /\ IF begin = None \/ pid \notin DOMAIN f.containersByPid THEN s = f
               ELSE Entering(f, s, pid, begin)

\* EventTypeProcessStart
LEMMA StartOK ==
  ASSUME NEW r, RegOK(r), NEW pid \in RegPids, NEW cg \in Cgroups \cup {None},
         NEW begin \in Begins \cup {None}, NEW fresh \in BOOLEAN, NEW ok \in BOOLEAN
  PROVE  /\ RegOK(ProcessStart(r, pid, cg, begin, fresh, ok))
         /\ StartSteps(r, ProcessStart(r, pid, cg, begin, fresh, ok), pid, cg, begin, ok)
<1> DEFINE q == Revalidate(r, pid, cg)
           f == GetOrCreate(q, pid, cg, fresh, ok)
           e == EnterProcess(f, pid, begin)
<1>1. RegOK(q) /\ Revalidated(r, q, pid, cg)
  BY Zenon, DropOK DEF Revalidate, Revalidated
<1> HIDE DEF q
<1>2. RegOK(f) /\ Looked(q, f, pid, cg, ok)
  BY Zenon, <1>1, GetOrCreateOK
<1> HIDE DEF f
<1>3. RegOK(e) /\ IF begin = None \/ pid \notin DOMAIN f.containersByPid THEN e = f ELSE Entering(f, e, pid, begin)
  BY Zenon, <1>2, EnterOK
<1>4. e = ProcessStart(r, pid, cg, begin, fresh, ok)
  BY Zenon DEF ProcessStart, f, q
<1> HIDE DEF e
<1>5. StartSteps(r, e, pid, cg, begin, ok)
  BY Zenon, <1>1, <1>2, <1>3 DEF StartSteps
<1> QED
  BY Zenon, <1>3, <1>4, <1>5

\* EventTypeProcessExit
LEMMA ExitOK ==
  ASSUME NEW r, RegOK(r), NEW pid, NEW oom \in BOOLEAN
  PROVE  RegOK(ProcessExit(r, pid, oom))
BY Zenon, DropOK DEF ProcessExit

\* Nothing is in q that is not in r.
Less(r, q) ==
  /\ \A p \in DOMAIN q.containersByPid :
       p \in DOMAIN r.containersByPid /\ q.containersByPid[p] = r.containersByPid[p]
  /\ \A g \in DOMAIN q.containersByCgroupId :
       g \in DOMAIN r.containersByCgroupId /\ q.containersByCgroupId[g] = r.containersByCgroupId[g]
  /\ \A k \in DOMAIN q.containersById :
       k \in DOMAIN r.containersById /\ Alike(r.containersById[k], q.containersById[k])
  /\ \A k \in DOMAIN q.processes : k \in DOMAIN r.processes /\ \A p \in DOMAIN q.processes[k] :
       p \in DOMAIN r.processes[k] /\ q.processes[k][p] = r.processes[k][p]

\* What gc may do: it keeps the processes it finds in the cgroup of their container.
Collected(r, q, found) ==
  /\ Less(r, q) /\ q.containersByPidIgnored = {}
  /\ \A p \in DOMAIN r.containersByPid :
       LET k == r.containersByPid[p] IN
       p \in DOMAIN r.processes[k] /\ found[p] = r.containersById[k].cgroup =>
         p \in DOMAIN q.containersByPid /\ p \in DOMAIN q.processes[k]

\* gc
LEMMA GcOK ==
  ASSUME NEW r, RegOK(r), NEW found, NEW old \in SUBSET Zombies(r)
  PROVE  RegOK(RegistryGc(r, found, old)) /\ Collected(r, RegistryGc(r, found, old), found)
<1> DEFINE C == r.containersById
           P == r.processes
           B == r.containersByPid
           G == r.containersByCgroupId
           I == r.containersByPidIgnored
<1>0. r = Maps(C, P, B, G, I)
  BY Zenon DEF RegOK
<1>1. Consistent(C, P, B, G, I)
  BY Zenon DEF RegOK
<1> DEFINE gone == Gone(r, found)
           emptied == {B[pid] : pid \in gone}
           left(id) == DeleteAll(P[id], {p \in gone : B[p] = id})
           B2 == DeleteAll(B, gone)
           P2 == [id \in DOMAIN P |-> left(id)]
           C2 == [id \in DOMAIN C |-> IF id \in emptied /\ left(id) = EmptyMap
                                      THEN [C[id] EXCEPT !.zombie = TRUE] ELSE C[id]]
           dead == old \ {r.containersByPid[pid] : pid \in gone}
<1>2. gone \in SUBSET DOMAIN B
  BY Zenon, <1>1 DEF Gone
<1> HIDE DEF gone
<1>3. \A k \in DOMAIN P : P2[k] = left(k)
  BY Zenon
<1>4. ASSUME NEW k \in DOMAIN C
      PROVE  C2[k] \in Container /\ (C2[k].zombie => C[k].zombie \/ P2[k] = EmptyMap)
  <2>1. k \in DOMAIN P /\ C[k] \in Container
    BY Zenon, <1>1 DEF Consistent, IsMap
  <2>2. C2[k] = IF k \in emptied /\ left(k) = EmptyMap THEN [C[k] EXCEPT !.zombie = TRUE] ELSE C[k]
    BY Zenon
  <2>3. P2[k] = left(k)
    BY Zenon, <2>1
  <2>4. [C[k] EXCEPT !.zombie = TRUE] \in Container
    BY Zenon, <2>1, MarkType
  <2> HIDE DEF C2, P2, left, emptied
  <2> QED
    BY Zenon, <2>1, <2>2, <2>3, <2>4
<1>5. DOMAIN C2 = DOMAIN C /\ DOMAIN P2 = DOMAIN P
  BY Zenon
<1>6. DOMAIN C \subseteq ContainerIds
  BY Zenon, <1>1 DEF Consistent, IsMap
<1>7. DropAll(r, gone) = [r EXCEPT !.containersByPid = B2, !.processes = P2, !.containersById = C2]
  BY Zenon DEF DropAll
<1>8. \A k \in DOMAIN P : P2[k] = DeleteAll(P[k], {p \in gone : B[p] = k})
  BY Zenon, <1>3
<1>a. \A k \in DOMAIN C : Alike(C[k], C2[k])
  <2> SUFFICES ASSUME NEW k \in DOMAIN C
               PROVE  Alike(C[k], C2[k])
    BY Zenon
  <2>1. C2[k] \in {C[k], [C[k] EXCEPT !.zombie = TRUE]} /\ C[k] \in Container
    BY Zenon, <1>1 DEF Consistent, IsMap
  <2> HIDE DEF C2
  <2> QED
    BY Zenon, <2>1, MarkType DEF Alike
<1>b. \A p \in DOMAIN B : found[p] = C[B[p]].cgroup => p \notin gone
  BY Zenon DEF Gone, gone
<1>d. \A p \in DOMAIN B : p \in DOMAIN P[B[p]] => B[p] \notin dead
  <2> SUFFICES ASSUME NEW p \in DOMAIN B, p \in DOMAIN P[B[p]], B[p] \in old
               PROVE  FALSE
    BY Zenon
  <2>1. B[p] \in DOMAIN C /\ C[B[p]].zombie
    BY Zenon DEF Zombies
  <2>2. P[B[p]] = EmptyMap
    BY Zenon, <1>1, <2>1 DEF Consistent
  <2>3. DOMAIN EmptyMap = {}
    BY Zenon DEF EmptyMap
  <2> QED
    BY Zenon, <2>2, <2>3
<1> HIDE DEF C2, P2, left
<1>9. IsMap(C2, ContainerIds, Container)
  BY Zenon, <1>4, <1>5, <1>6 DEF IsMap
<1>10. Consistent(C2, P2, B2, G, {})
  BY <1>1, <1>2, <1>4, <1>5, <1>8, <1>9, RemoveAllOK
<1>e. DOMAIN B2 = DOMAIN B \ gone /\ \A p \in DOMAIN B2 : B2[p] = B[p]
  BY Zenon DEF DeleteAll
<1> HIDE DEF B2
<1> HIDE DEF C, P, B, G, I
<1>12. [DropAll(r, gone) EXCEPT !.containersByPidIgnored = {}] = Maps(C2, P2, B2, G, {})
  <2>1. [Maps(C, P, B, G, I) EXCEPT !.containersByPid = B2] = Maps(C, P, B2, G, I)
    BY DEF Maps
  <2>2. [Maps(C, P, B2, G, I) EXCEPT !.processes = P2] = Maps(C, P2, B2, G, I)
    BY DEF Maps
  <2>3. [Maps(C, P2, B2, G, I) EXCEPT !.containersById = C2] = Maps(C2, P2, B2, G, I)
    BY DEF Maps
  <2>4. [Maps(C2, P2, B2, G, I) EXCEPT !.containersByPidIgnored = {}] = Maps(C2, P2, B2, G, {})
    BY DEF Maps
  <2>5. DropAll(r, gone) = Maps(C2, P2, B2, G, I)
    BY Zenon, <1>7, <1>0, <2>1, <2>2, <2>3
  <2> QED
    BY Zenon, <2>4, <2>5
<1> DEFINE B3 == DeleteAll(B2, {p \in DOMAIN B2 : B2[p] \in dead})
           G3 == DeleteAll(G, {g \in DOMAIN G : G[g] \in dead})
           C3 == DeleteAll(C2, dead)
           P3 == DeleteAll(P2, dead)
<1> HIDE DEF dead
<1>13. Consistent(C3, P3, B3, G3, {})
  BY Zenon, <1>10, CloseOK
<1>14. RegistryGc(r, found, old) = CloseAll(Maps(C2, P2, B2, G, {}), dead)
  BY Zenon, <1>12 DEF RegistryGc, gone, dead
<1>15. /\ Maps(C2, P2, B2, G, {}).containersByPid = B2
       /\ Maps(C2, P2, B2, G, {}).containersByCgroupId = G
       /\ Maps(C2, P2, B2, G, {}).containersById = C2
       /\ Maps(C2, P2, B2, G, {}).processes = P2
  BY Zenon DEF Maps
<1>16. CloseAll(Maps(C2, P2, B2, G, {}), dead) =
         [Maps(C2, P2, B2, G, {}) EXCEPT !.containersByPid = B3, !.containersByCgroupId = G3,
                                         !.containersById = C3, !.processes = P3]
  BY Zenon, <1>15 DEF CloseAll
<1> HIDE DEF B3, G3, C3, P3
<1>17. [Maps(C2, P2, B2, G, {}) EXCEPT !.containersByPid = B3, !.containersByCgroupId = G3,
                                       !.containersById = C3, !.processes = P3]
         = Maps(C3, P3, B3, G3, {})
  <2>1. [Maps(C2, P2, B2, G, {}) EXCEPT !.containersByPid = B3] = Maps(C2, P2, B3, G, {})
    BY DEF Maps
  <2>2. [Maps(C2, P2, B3, G, {}) EXCEPT !.containersByCgroupId = G3] = Maps(C2, P2, B3, G3, {})
    BY DEF Maps
  <2>3. [Maps(C2, P2, B3, G3, {}) EXCEPT !.containersById = C3] = Maps(C3, P2, B3, G3, {})
    BY DEF Maps
  <2>4. [Maps(C3, P2, B3, G3, {}) EXCEPT !.processes = P3] = Maps(C3, P3, B3, G3, {})
    BY DEF Maps
  <2> QED
    BY Zenon, <2>1, <2>2, <2>3, <2>4
<1>18. RegOK(Maps(C3, P3, B3, G3, {}))
  BY Zenon, <1>13, MapsOK
<1> DEFINE d == Maps(C3, P3, B3, G3, {})
<1>19. /\ d.containersById = C3 /\ d.processes = P3 /\ d.containersByPid = B3
       /\ d.containersByCgroupId = G3 /\ d.containersByPidIgnored = {}
  BY Zenon DEF Maps
<1>20. /\ DOMAIN B3 = {p \in DOMAIN B2 : B2[p] \notin dead} /\ \A p \in DOMAIN B3 : B3[p] = B2[p]
       /\ DOMAIN G3 \subseteq DOMAIN G /\ \A g \in DOMAIN G3 : G3[g] = G[g]
       /\ DOMAIN C3 = DOMAIN C2 \ dead /\ \A k \in DOMAIN C3 : C3[k] = C2[k]
       /\ DOMAIN P3 = DOMAIN P2 \ dead /\ \A k \in DOMAIN P3 : P3[k] = P2[k]
  BY Zenon DEF DeleteAll, B3, G3, C3, P3
<1>21. \A k \in DOMAIN P : /\ DOMAIN P2[k] = DOMAIN P[k] \ {p \in gone : B[p] = k}
                           /\ \A p \in DOMAIN P2[k] : P2[k][p] = P[k][p]
  BY Zenon, <1>8 DEF DeleteAll
<1>22. Less(r, d)
  <2>1. \A p \in DOMAIN B3 : p \in DOMAIN B /\ B3[p] = B[p]
    BY Zenon, <1>e, <1>20
  <2>2. \A g \in DOMAIN G3 : g \in DOMAIN G /\ G3[g] = G[g]
    BY Zenon, <1>20
  <2>3. \A k \in DOMAIN C3 : k \in DOMAIN C /\ Alike(C[k], C3[k])
    BY Zenon, <1>5, <1>a, <1>20
  <2>4. \A k \in DOMAIN P3 : k \in DOMAIN P /\ \A p \in DOMAIN P3[k] : p \in DOMAIN P[k] /\ P3[k][p] = P[k][p]
    <3> SUFFICES ASSUME NEW k \in DOMAIN P3
                 PROVE  k \in DOMAIN P /\ \A p \in DOMAIN P3[k] : p \in DOMAIN P[k] /\ P3[k][p] = P[k][p]
      BY Zenon
    <3>1. k \in DOMAIN P /\ P3[k] = P2[k]
      BY Zenon, <1>5, <1>20
    <3> QED
      BY Zenon, <1>21, <3>1
  <2> HIDE DEF d
  <2> QED
    BY Zenon, <2>1, <2>2, <2>3, <2>4, <1>19 DEF Less, C, P, B, G
<1>23. ASSUME NEW p \in DOMAIN B, p \in DOMAIN P[B[p]], found[p] = C[B[p]].cgroup
       PROVE  p \in DOMAIN B3 /\ p \in DOMAIN P3[B[p]]
  <2>1. p \notin gone /\ B[p] \notin dead
    BY Zenon, <1>23, <1>b, <1>d
  <2>2. p \in DOMAIN B2 /\ B2[p] = B[p]
    BY Zenon, <1>e, <2>1
  <2>3. B[p] \in DOMAIN P
    BY Zenon, <1>1 DEF Consistent, IsMap
  <2>4. P3[B[p]] = P2[B[p]] /\ p \in DOMAIN P2[B[p]]
    BY Zenon, <1>5, <1>20, <1>21, <1>23, <2>1, <2>3
  <2> QED
    BY Zenon, <1>20, <2>1, <2>2, <2>4
<1>24. Collected(r, d, found)
  <2>1. r.containersByPid = B /\ r.containersById = C /\ r.processes = P
    BY Zenon DEF B, C, P
  <2> HIDE DEF d
  <2>2. \A p \in DOMAIN B : p \in DOMAIN P[B[p]] /\ found[p] = C[B[p]].cgroup =>
          p \in DOMAIN d.containersByPid /\ p \in DOMAIN d.processes[B[p]]
    BY Zenon, <1>19, <1>23
  <2> QED
    BY Zenon, <1>19, <1>22, <2>1, <2>2 DEF Collected
<1> QED
  BY Zenon, <1>14, <1>16, <1>17, <1>18, <1>24

-----------------------------------------------------------------------------
(* The theorems about ProcessRegistry                                      *)

\* The initial registry is consistent.
LEMMA RegistryInitOK == RegistryInit => RegOK(registry)
<1>1. Consistent(EmptyMap, EmptyMap, EmptyMap, EmptyMap, {})
  BY Zenon DEF Consistent, IsMap, EmptyMap
<1>2. EmptyRegistry = Maps(EmptyMap, EmptyMap, EmptyMap, EmptyMap, {})
  BY Zenon DEF EmptyRegistry, Maps
<1> QED
  BY Zenon, <1>1, <1>2, MapsOK DEF RegistryInit

\* Every step keeps the registry consistent.
LEMMA RegistryNextOK ==
  ASSUME RegOK(registry), [RegistryNext]_registry
  PROVE  RegOK(registry')
<1>1. CASE OnProcessStart
  BY <1>1, StartOK DEF OnProcessStart
<1>2. CASE OnProcessExit
  BY Zenon, <1>2, ExitOK DEF OnProcessExit
<1>3. CASE OnEvent
  BY <1>3, GetOrCreateOK DEF OnEvent
<1>4. CASE OnGc
  BY Zenon, <1>4, GcOK DEF OnGc
<1>5. CASE UNCHANGED registry
  BY Zenon, <1>5
<1> QED
  BY Zenon, <1>1, <1>2, <1>3, <1>4, <1>5 DEF RegistryNext

\* The maps of the registry always agree with each other.
THEOREM RegistryInvariant == RegistrySpec => []RegOK(registry)
<1>1. RegOK(registry) /\ [RegistryNext]_registry => RegOK(registry)'
  BY Zenon, RegistryNextOK
<1> QED
  BY <1>1, RegistryInitOK, PTL DEF RegistrySpec

\* What is said of the maps follows from that.
LEMMA RegOKConsistent == RegOK(registry) => RegistryConsistent
<1> SUFFICES ASSUME RegOK(registry) PROVE RegistryConsistent
  BY Zenon
<1>1. RegistryTypeOK
  BY Zenon, IsMapMonotone DEF RegOK, Consistent, RegistryTypeOK, IsMap
<1>2. NoClosedContainer
  BY Zenon DEF RegOK, Consistent, NoClosedContainer, IsMap
<1>3. ProcessesOwned
  BY Zenon DEF RegOK, Consistent, ProcessesOwned
<1>4. ZombiesEmpty
  BY Zenon DEF RegOK, Consistent, ZombiesEmpty
<1> QED
  BY Zenon, <1>1, <1>2, <1>3, <1>4 DEF RegistryConsistent

\* The maps of the registry have their types.
THEOREM RegistryTypes == RegistrySpec => []RegistryTypeOK
<1>1. RegOK(registry) => RegistryTypeOK
  BY Zenon, RegOKConsistent DEF RegistryConsistent
<1> QED
  BY <1>1, RegistryInvariant, PTL

\* No map of the registry ever leads to a container that gc has closed.
THEOREM NeverClosedContainer == RegistrySpec => []NoClosedContainer
<1>1. RegOK(registry) => NoClosedContainer
  BY Zenon, RegOKConsistent DEF RegistryConsistent
<1> QED
  BY <1>1, RegistryInvariant, PTL

\* A process of a container can always be reached through its id.
THEOREM ProcessesAlwaysOwned == RegistrySpec => []ProcessesOwned
<1>1. RegOK(registry) => ProcessesOwned
  BY Zenon, RegOKConsistent DEF RegistryConsistent
<1> QED
  BY <1>1, RegistryInvariant, PTL

\* A container with a process is never marked for deletion.
THEOREM ZombiesAlwaysEmpty == RegistrySpec => []ZombiesEmpty
<1>1. RegOK(registry) => ZombiesEmpty
  BY Zenon, RegOKConsistent DEF RegistryConsistent
<1> QED
  BY <1>1, RegistryInvariant, PTL

\* The maps of the registry always agree.
THEOREM RegistryAlwaysConsistent == RegistrySpec => []RegistryConsistent
<1>1. RegOK(registry) => RegistryConsistent
  BY Zenon, RegOKConsistent
<1> QED
  BY <1>1, RegistryInvariant, PTL

-----------------------------------------------------------------------------
(* What the handlers change                                                *)

\* A process of a container, and when it began
Runs(r, k, p, b) == k \in DOMAIN r.processes /\ p \in DOMAIN r.processes[k] /\ r.processes[k][p] = b

\* A container has the id of its cgroup, and so has one that is found through it.
IdsOf(r) ==
  /\ \A id \in DOMAIN r.containersById : IdOf[r.containersById[id].cgroup] = id
  /\ \A g \in DOMAIN r.containersByCgroupId : r.containersByCgroupId[g] = IdOf[g]

\* The OOM kills counted for a container
Kills(r, id) == IF id \in DOMAIN r.containersById THEN r.containersById[id].oomKills ELSE 0

\* A process is bound to a container in q as it was in r, or to that of its cgroup.
Binds(r, q, pid, cg) ==
  \A p \in DOMAIN q.containersByPid :
    \/ p \in DOMAIN r.containersByPid /\ q.containersByPid[p] = r.containersByPid[p]
    \/ p = pid /\ cg \in Cgroups /\ q.containersByPid[p] = IdOf[cg]

\* The container of a process has it, and has its cgroup.
SettledIn(r, pid, cg) ==
  Entered(r, pid) /\ r.containersById[r.containersByPid[pid]].cgroup = cg

\* What is left of a registry when a process is dropped.
LEMMA DroppedKeeps ==
  ASSUME NEW r, RegOK(r), NEW q, NEW pid \in DOMAIN r.containersByPid, NEW oom, Dropped(r, q, pid, oom)
  PROVE  /\ \A k, p, b : Runs(q, k, p, b) => Runs(r, k, p, b) /\ p # pid
         /\ IdsOf(r) => IdsOf(q)
         /\ \A p \in DOMAIN q.containersByPid :
              p \in DOMAIN r.containersByPid /\ p # pid /\ q.containersByPid[p] = r.containersByPid[p]
         /\ \A p, cg : SettledIn(r, p, cg) /\ p # pid => SettledIn(q, p, cg)
<1> DEFINE id == r.containersByPid[pid]
           left == Delete(r.processes[id], pid)
<1>1. /\ id \in DOMAIN r.processes /\ id \in DOMAIN r.containersById
      /\ DOMAIN r.processes = DOMAIN r.containersById
      /\ \A k \in DOMAIN r.processes : \A p \in DOMAIN r.processes[k] :
           p \in DOMAIN r.containersByPid /\ r.containersByPid[p] = k
  BY Zenon DEF RegOK, Consistent, IsMap
<1>2. DOMAIN left = DOMAIN r.processes[id] \ {pid} /\ \A p \in DOMAIN left : left[p] = r.processes[id][p]
  BY Zenon DEF Delete, DeleteAll
<1>3. q.processes = Update(r.processes, id, left)
  BY Zenon DEF Dropped
<1> HIDE DEF left
<1>4. /\ DOMAIN q.processes = DOMAIN r.processes /\ q.processes[id] = left
      /\ \A k \in DOMAIN r.processes : k # id => q.processes[k] = r.processes[k]
  BY Zenon, <1>1, <1>3 DEF Update
<1>5. ASSUME NEW k, NEW p, NEW b, Runs(q, k, p, b)
      PROVE  Runs(r, k, p, b) /\ p # pid
  <2>1. CASE k = id
    BY Zenon, <1>2, <1>4, <1>5, <2>1 DEF Runs
  <2>2. CASE k # id
    <3>1. Runs(r, k, p, b)
      BY Zenon, <1>4, <1>5, <2>2 DEF Runs
    <3> QED
      BY Zenon, <1>1, <2>2, <3>1 DEF Runs
  <2> QED
    BY Zenon, <2>1, <2>2
<1>6. /\ DOMAIN q.containersById = DOMAIN r.containersById
      /\ \A k \in DOMAIN r.containersById : q.containersById[k].cgroup = r.containersById[k].cgroup
  BY Zenon DEF Dropped, Alike
<1>7. /\ DOMAIN q.containersByPid = DOMAIN r.containersByPid \ {pid}
      /\ \A p \in DOMAIN q.containersByPid : q.containersByPid[p] = r.containersByPid[p]
  BY Zenon DEF Dropped, Delete, DeleteAll
<1>8. IdsOf(r) => IdsOf(q)
  <2>1. q.containersByCgroupId = r.containersByCgroupId
    BY Zenon DEF Dropped
  <2> QED
    BY Zenon, <1>6, <2>1 DEF IdsOf
<1>9. ASSUME NEW p, NEW cg, SettledIn(r, p, cg), p # pid
      PROVE  SettledIn(q, p, cg)
  <2> DEFINE k == r.containersByPid[p]
  <2>1. p \in DOMAIN r.containersByPid /\ p \in DOMAIN r.processes[k] /\ r.containersById[k].cgroup = cg
    BY Zenon, <1>9 DEF SettledIn, Entered
  <2>2. p \in DOMAIN q.containersByPid /\ q.containersByPid[p] = k
    BY Zenon, <1>7, <1>9, <2>1
  <2>3. k \in DOMAIN r.processes /\ k \in DOMAIN r.containersById
    BY Zenon, <2>1 DEF RegOK, Consistent, IsMap
  <2> HIDE DEF k
  <2>4. p \in DOMAIN q.processes[k]
    BY Zenon, <1>2, <1>4, <1>9, <2>1, <2>3
  <2>5. q.containersById[k].cgroup = cg
    BY Zenon, <1>6, <2>1, <2>3
  <2> QED
    BY Zenon, <2>2, <2>4, <2>5 DEF SettledIn, Entered
<1> QED
  BY Zenon, <1>5, <1>7, <1>8, <1>9

\* The kills that are counted when a process is dropped.
LEMMA DroppedKills ==
  ASSUME NEW r, RegOK(r), NEW q, NEW pid \in DOMAIN r.containersByPid, NEW oom, Dropped(r, q, pid, oom)
  PROVE  \A k : /\ oom /\ k = r.containersByPid[pid] => Kills(q, k) = Kills(r, k) + 1
                /\ ~oom \/ k # r.containersByPid[pid] => Kills(q, k) = Kills(r, k)
<1> DEFINE id == r.containersByPid[pid]
<1>1. id \in DOMAIN r.containersById
  BY Zenon DEF RegOK, Consistent, IsMap
<1> TAKE k
<1>2. DOMAIN q.containersById = DOMAIN r.containersById
  BY Zenon DEF Dropped
<1>3. CASE k = id
  <2>1. q.containersById[id].oomKills =
          IF oom THEN r.containersById[id].oomKills + 1 ELSE r.containersById[id].oomKills
    BY Zenon DEF Dropped
  <2> HIDE DEF id
  <2> QED
    BY Zenon, <1>1, <1>2, <1>3, <2>1 DEF Kills, id
<1>4. CASE k # id /\ k \in DOMAIN r.containersById
  <2>1. q.containersById[k].oomKills = r.containersById[k].oomKills
    BY Zenon, <1>4 DEF Dropped, Alike
  <2> QED
    BY Zenon, <1>2, <1>4, <2>1 DEF Kills
<1>5. CASE k # id /\ k \notin DOMAIN r.containersById
  BY Zenon, <1>2, <1>5 DEF Kills
<1> QED
  BY Zenon, <1>3, <1>4, <1>5

\* A process that is entered.
LEMMA EnteringKeeps ==
  ASSUME NEW r, RegOK(r), NEW q, NEW pid \in DOMAIN r.containersByPid, NEW begin, Entering(r, q, pid, begin)
  PROVE  /\ \A k, p, b : Runs(q, k, p, b) => Runs(r, k, p, b) \/ (p = pid /\ b = begin)
         /\ IdsOf(r) => IdsOf(q)
         /\ q.containersByPid = r.containersByPid
         /\ \A k : Kills(q, k) = Kills(r, k)
         /\ \A p, cg : SettledIn(r, p, cg) => SettledIn(q, p, cg)
         /\ SettledIn(q, pid, r.containersById[r.containersByPid[pid]].cgroup)
<1> DEFINE id == r.containersByPid[pid]
           more == Update(r.processes[id], pid, begin)
<1>1. id \in DOMAIN r.processes /\ id \in DOMAIN r.containersById
  BY Zenon DEF RegOK, Consistent, IsMap
<1>2. /\ DOMAIN more = DOMAIN r.processes[id] \cup {pid} /\ more[pid] = begin
      /\ \A p \in DOMAIN r.processes[id] : p # pid => more[p] = r.processes[id][p]
  BY Zenon DEF Update
<1>3. q.processes = Update(r.processes, id, more)
  BY Zenon DEF Entering
<1> HIDE DEF more
<1>4. /\ DOMAIN q.processes = DOMAIN r.processes /\ q.processes[id] = more
      /\ \A k \in DOMAIN r.processes : k # id => q.processes[k] = r.processes[k]
  BY Zenon, <1>1, <1>3 DEF Update
<1>5. ASSUME NEW k, NEW p, NEW b, Runs(q, k, p, b)
      PROVE  Runs(r, k, p, b) \/ (p = pid /\ b = begin)
  <2>1. CASE k = id
    BY Zenon, <1>1, <1>2, <1>4, <1>5, <2>1 DEF Runs
  <2>2. CASE k # id
    BY Zenon, <1>4, <1>5, <2>2 DEF Runs
  <2> QED
    BY Zenon, <2>1, <2>2
<1>6. q.containersByPid = r.containersByPid /\ q.containersByCgroupId = r.containersByCgroupId
  BY Zenon DEF Entering
<1>7. /\ DOMAIN q.containersById = DOMAIN r.containersById
      /\ \A k \in DOMAIN r.containersById : /\ q.containersById[k].cgroup = r.containersById[k].cgroup
                                            /\ q.containersById[k].oomKills = r.containersById[k].oomKills
  BY Zenon DEF Entering, SameContainers, Alike
<1>8. IdsOf(r) => IdsOf(q)
  BY Zenon, <1>6, <1>7 DEF IdsOf
<1>9. \A k : Kills(q, k) = Kills(r, k)
  BY Zenon, <1>7 DEF Kills
<1>10. ASSUME NEW p, NEW cg, SettledIn(r, p, cg)
       PROVE  SettledIn(q, p, cg)
  <2> DEFINE k == r.containersByPid[p]
  <2>1. p \in DOMAIN r.containersByPid /\ p \in DOMAIN r.processes[k] /\ r.containersById[k].cgroup = cg
    BY Zenon, <1>10 DEF SettledIn, Entered
  <2>2. q.containersByPid[p] = k
    BY Zenon, <1>6
  <2>3. k \in DOMAIN r.processes /\ k \in DOMAIN r.containersById
    BY Zenon, <2>1 DEF RegOK, Consistent, IsMap
  <2> HIDE DEF k
  <2>4. p \in DOMAIN q.processes[k]
    BY Zenon, <1>2, <1>4, <2>1, <2>3
  <2>5. q.containersById[k].cgroup = cg
    BY Zenon, <1>7, <2>1, <2>3
  <2> QED
    BY Zenon, <1>6, <2>1, <2>2, <2>4, <2>5 DEF SettledIn, Entered
<1>11. SettledIn(q, pid, r.containersById[id].cgroup)
  <2>1. pid \in DOMAIN q.processes[id] /\ q.containersById[id].cgroup = r.containersById[id].cgroup
    BY Zenon, <1>1, <1>2, <1>4, <1>7
  <2> QED
    BY Zenon, <1>6, <2>1 DEF SettledIn, Entered
<1> QED
  BY Zenon, <1>5, <1>6, <1>8, <1>9, <1>10, <1>11

\* What a look-up changes: a process that had no container may have one.
LEMMA LookedKeeps ==
  ASSUME NEW r, RegOK(r), IdsOf(r), NEW q, NEW pid, NEW cg, NEW ok, Looked(r, q, pid, cg, ok)
  PROVE  /\ \A k, p, b : Runs(q, k, p, b) => Runs(r, k, p, b)
         /\ IdsOf(q) /\ Binds(r, q, pid, cg)
         /\ \A k : Kills(q, k) = Kills(r, k)
         /\ \A p \in DOMAIN r.containersByPid :
              p \in DOMAIN q.containersByPid /\ q.containersByPid[p] = r.containersByPid[p]
         /\ OwnIds => \A p, d : SettledIn(r, p, d) => SettledIn(q, p, d)
<1>1. CASE SameMaps(r, q)
  <2>1. /\ q.containersById = r.containersById /\ q.processes = r.processes
        /\ q.containersByPid = r.containersByPid /\ q.containersByCgroupId = r.containersByCgroupId
    BY Zenon, <1>1 DEF SameMaps
  <2>2. \A k, p, b : Runs(q, k, p, b) => Runs(r, k, p, b)
    BY Zenon, <2>1 DEF Runs
  <2>3. IdsOf(q)
    BY Zenon, <2>1 DEF IdsOf
  <2>4. Binds(r, q, pid, cg)
    BY Zenon, <2>1 DEF Binds
  <2>5. \A k : Kills(q, k) = Kills(r, k)
    BY Zenon, <2>1 DEF Kills
  <2>6. \A p, d : SettledIn(r, p, d) => SettledIn(q, p, d)
    BY Zenon, <2>1 DEF SettledIn, Entered
  <2> QED
    BY Zenon, <2>1, <2>2, <2>3, <2>4, <2>5, <2>6
<1>2. CASE \E id \in ContainerIds : Found(r, q, pid, cg, id)
  <2>1. PICK id \in ContainerIds : Found(r, q, pid, cg, id)
    BY Zenon, <1>2
  <2>2. id = IdOf[cg] /\ cg \in Cgroups /\ pid \notin DOMAIN r.containersByPid
    BY Zenon, <2>1 DEF Found, IdsOf
  <2>3. /\ DOMAIN q.containersByPid = DOMAIN r.containersByPid \cup {pid} /\ q.containersByPid[pid] = id
        /\ \A p \in DOMAIN r.containersByPid : q.containersByPid[p] = r.containersByPid[p]
    <3>1. q.containersByPid = Update(r.containersByPid, pid, id)
      BY Zenon, <2>1 DEF Found
    <3> QED
      BY Zenon, <2>2, <3>1 DEF Update
  <2>4. \A g \in DOMAIN q.containersByCgroupId : q.containersByCgroupId[g] = IdOf[g]
    <3>1. q.containersByCgroupId = Update(r.containersByCgroupId, cg, id)
      BY Zenon, <2>1 DEF Found
    <3> QED
      BY Zenon, <2>2, <3>1 DEF Update, IdsOf
  <2>5. /\ DOMAIN q.containersById = DOMAIN r.containersById \cup {id}
        /\ \A k \in DOMAIN r.containersById :
             /\ q.containersById[k].oomKills = r.containersById[k].oomKills
             /\ \/ q.containersById[k].cgroup = r.containersById[k].cgroup
                \/ k = id /\ q.containersById[k].cgroup = cg
        /\ id \notin DOMAIN r.containersById =>
             q.containersById[id].cgroup = cg /\ q.containersById[id].oomKills = 0
        /\ q.processes = IF id \in DOMAIN r.containersById THEN r.processes
                         ELSE Update(r.processes, id, EmptyMap)
    BY Zenon, <2>1 DEF Found, Containers
  <2>6. DOMAIN r.processes = DOMAIN r.containersById
    BY Zenon DEF RegOK, Consistent
  <2>7. \A k \in DOMAIN r.processes : k \in DOMAIN q.processes /\ q.processes[k] = r.processes[k]
    BY Zenon, <2>5, <2>6 DEF Update
  <2>8. ASSUME NEW k, NEW p, NEW b, Runs(q, k, p, b)
        PROVE  Runs(r, k, p, b)
    <3>1. CASE id \in DOMAIN r.containersById
      BY Zenon, <2>5, <2>8, <3>1 DEF Runs
    <3>2. CASE id \notin DOMAIN r.containersById
      <4>1. /\ DOMAIN q.processes = DOMAIN r.processes \cup {id} /\ q.processes[id] = EmptyMap
            /\ \A j \in DOMAIN r.processes : j # id => q.processes[j] = r.processes[j]
        BY Zenon, <2>5, <3>2 DEF Update
      <4>2. k # id
        <5>1. p \notin DOMAIN EmptyMap
          BY Zenon DEF EmptyMap
        <5> QED
          BY Zenon, <2>8, <4>1, <5>1 DEF Runs
      <4> QED
        BY Zenon, <2>8, <4>1, <4>2 DEF Runs
    <3> QED
      BY Zenon, <3>1, <3>2
  <2>9. IdsOf(q)
    <3>1. \A k \in DOMAIN q.containersById : IdOf[q.containersById[k].cgroup] = k
      BY Zenon, <2>2, <2>5 DEF IdsOf
    <3> QED
      BY Zenon, <2>4, <3>1 DEF IdsOf
  <2>10. Binds(r, q, pid, cg)
    BY Zenon, <2>2, <2>3 DEF Binds
  <2>11. \A k : Kills(q, k) = Kills(r, k)
    BY Zenon, <2>5 DEF Kills
  <2>12. ASSUME OwnIds, NEW p, NEW d, SettledIn(r, p, d)
         PROVE  SettledIn(q, p, d)
    <3> DEFINE k == r.containersByPid[p]
    <3>1. p \in DOMAIN r.containersByPid /\ p \in DOMAIN r.processes[k] /\ r.containersById[k].cgroup = d
      BY Zenon, <2>12 DEF SettledIn, Entered
    <3>2. k \in DOMAIN r.containersById /\ r.containersById[k].cgroup \in Cgroups
      BY Zenon, <3>1 DEF RegOK, Consistent, IsMap, Container
    <3>3. p \in DOMAIN q.containersByPid /\ q.containersByPid[p] = k
      BY Zenon, <2>3, <3>1
    <3> HIDE DEF k
    <3>4. p \in DOMAIN q.processes[k]
      BY Zenon, <2>6, <2>7, <3>1, <3>2
    <3>5. IdOf[r.containersById[k].cgroup] = k
      BY Zenon, <3>2 DEF IdsOf
    <3>6. q.containersById[k].cgroup = d
      BY Zenon, <2>2, <2>5, <2>12, <3>1, <3>2, <3>5 DEF OwnIds
    <3> QED
      BY Zenon, <3>3, <3>4, <3>6 DEF SettledIn, Entered
  <2> QED
    BY Zenon, <2>3, <2>8, <2>9, <2>10, <2>11, <2>12
<1> QED
  BY Zenon, <1>1, <1>2 DEF Looked

\* What gc leaves: nothing that was not there, and what a live process has.
LEMMA CollectedKeeps ==
  ASSUME NEW r, RegOK(r), NEW q, NEW found, Collected(r, q, found)
  PROVE  /\ \A k, p, b : Runs(q, k, p, b) => Runs(r, k, p, b)
         /\ IdsOf(r) => IdsOf(q)
         /\ \A p \in DOMAIN q.containersByPid :
              p \in DOMAIN r.containersByPid /\ q.containersByPid[p] = r.containersByPid[p]
         /\ \A k : Kills(q, k) = Kills(r, k) \/ Kills(q, k) = 0
         /\ \A p : RegOK(q) /\ SettledIn(r, p, found[p]) => SettledIn(q, p, found[p])
<1>1. Less(r, q)
  BY Zenon DEF Collected
<1>2. \A k, p, b : Runs(q, k, p, b) => Runs(r, k, p, b)
  BY Zenon, <1>1 DEF Less, Runs
<1>3. /\ \A p \in DOMAIN q.containersByPid :
           p \in DOMAIN r.containersByPid /\ q.containersByPid[p] = r.containersByPid[p]
      /\ \A g \in DOMAIN q.containersByCgroupId :
           g \in DOMAIN r.containersByCgroupId /\ q.containersByCgroupId[g] = r.containersByCgroupId[g]
      /\ \A k \in DOMAIN q.containersById : /\ k \in DOMAIN r.containersById
                                            /\ q.containersById[k].cgroup = r.containersById[k].cgroup
                                            /\ q.containersById[k].oomKills = r.containersById[k].oomKills
  BY Zenon, <1>1 DEF Less, Alike
<1>4. IdsOf(r) => IdsOf(q)
  BY Zenon, <1>3 DEF IdsOf
<1>5. \A k : Kills(q, k) = Kills(r, k) \/ Kills(q, k) = 0
  BY Zenon, <1>3 DEF Kills
<1>6. ASSUME NEW p, RegOK(q), SettledIn(r, p, found[p])
      PROVE  SettledIn(q, p, found[p])
  <2> DEFINE k == r.containersByPid[p]
  <2>1. p \in DOMAIN r.containersByPid /\ p \in DOMAIN r.processes[k] /\ r.containersById[k].cgroup = found[p]
    BY Zenon, <1>6 DEF SettledIn, Entered
  <2>2. p \in DOMAIN q.containersByPid /\ p \in DOMAIN q.processes[k]
    BY Zenon, <2>1 DEF Collected
  <2>3. q.containersByPid[p] = k
    BY Zenon, <1>3, <2>2
  <2>4. k \in DOMAIN q.containersById
    BY Zenon, <1>6, <2>2, <2>3 DEF RegOK, Consistent, IsMap
  <2> HIDE DEF k
  <2> QED
    BY Zenon, <1>3, <2>1, <2>2, <2>3, <2>4 DEF SettledIn, Entered
<1> QED
  BY Zenon, <1>2, <1>3, <1>4, <1>5, <1>6

\* A process that is entered with the time it began
Begun(p, b, pid, begin) == p = pid /\ b = begin /\ begin # None

\* What the start of a process changes: the process is entered with the time it
\* began, into the container of its cgroup.
LEMMA StartKeeps ==
  ASSUME NEW r, RegOK(r), IdsOf(r), NEW s, NEW pid, NEW cg, NEW begin, NEW ok,
         StartSteps(r, s, pid, cg, begin, ok)
  PROVE  /\ \A k, p, b : Runs(s, k, p, b) => Runs(r, k, p, b) \/ Begun(p, b, pid, begin)
         /\ IdsOf(s) /\ Binds(r, s, pid, cg)
         /\ \A k : Kills(s, k) = Kills(r, k)
         /\ OwnIds => \A p, d : SettledIn(r, p, d) /\ p # pid => SettledIn(s, p, d)
         /\ OwnIds /\ cg \in Cgroups /\ begin # None /\ ok /\ r.containersByPidIgnored = {} =>
              SettledIn(s, pid, cg)
         /\ OwnIds /\ cg \in Cgroups \cup {None} /\ r.containersByPidIgnored = {} =>
              s.containersByPidIgnored = {}
<1>1. PICK q, f : /\ RegOK(q) /\ RegOK(f)
                  /\ Revalidated(r, q, pid, cg)
                  /\ Looked(q, f, pid, cg, ok)
                  /\ IF begin = None \/ pid \notin DOMAIN f.containersByPid THEN s = f
                     ELSE Entering(f, s, pid, begin)
  BY Zenon DEF StartSteps
<1>2. /\ \A k, p, b : Runs(q, k, p, b) => Runs(r, k, p, b)
      /\ IdsOf(q)
      /\ \A p \in DOMAIN q.containersByPid :
           p \in DOMAIN r.containersByPid /\ q.containersByPid[p] = r.containersByPid[p]
      /\ \A k : Kills(q, k) = Kills(r, k)
      /\ \A p, d : SettledIn(r, p, d) /\ p # pid => SettledIn(q, p, d)
      /\ q.containersByPidIgnored = r.containersByPidIgnored
      /\ cg \in Cgroups /\ pid \in DOMAIN q.containersByPid => q.containersByPid[pid] = IdOf[cg]
  <2>1. CASE q = r /\ (pid \in DOMAIN r.containersByPid => cg = r.containersById[r.containersByPid[pid]].cgroup)
    <3>1. pid \in DOMAIN r.containersByPid => r.containersByPid[pid] \in DOMAIN r.containersById
      BY Zenon DEF RegOK, Consistent, IsMap
    <3>2. pid \in DOMAIN r.containersByPid => r.containersByPid[pid] = IdOf[cg]
      BY Zenon, <2>1, <3>1 DEF IdsOf
    <3>3. q = r
      BY Zenon, <2>1
    <3> QED
      BY SMTT(30), <3>2, <3>3
  <2>2. CASE pid \in DOMAIN r.containersByPid /\ Dropped(r, q, pid, FALSE)
    <3>1. q.containersByPidIgnored = r.containersByPidIgnored
      BY Zenon, <2>2 DEF Dropped
    <3>2. \A k : Kills(q, k) = Kills(r, k)
      BY Zenon, <2>2, DroppedKills
    <3>3. /\ \A k, p, b : Runs(q, k, p, b) => Runs(r, k, p, b) /\ p # pid
          /\ IdsOf(r) => IdsOf(q)
          /\ \A p \in DOMAIN q.containersByPid :
               p \in DOMAIN r.containersByPid /\ p # pid /\ q.containersByPid[p] = r.containersByPid[p]
          /\ \A p, d : SettledIn(r, p, d) /\ p # pid => SettledIn(q, p, d)
      BY Zenon, <2>2, DroppedKeeps
    <3> QED
      BY Zenon, <3>1, <3>2, <3>3
  <2> QED
    BY Zenon, <1>1, <2>1, <2>2 DEF Revalidated
<1>3. /\ \A k, p, b : Runs(f, k, p, b) => Runs(q, k, p, b)
      /\ IdsOf(f) /\ Binds(q, f, pid, cg)
      /\ \A k : Kills(f, k) = Kills(q, k)
      /\ OwnIds => \A p, d : SettledIn(q, p, d) => SettledIn(f, p, d)
  BY Zenon, <1>1, <1>2, LookedKeeps
<1>4. /\ \A k, p, b : Runs(s, k, p, b) => Runs(f, k, p, b) \/ Begun(p, b, pid, begin)
      /\ IdsOf(s) /\ s.containersByPid = f.containersByPid
      /\ \A k : Kills(s, k) = Kills(f, k)
      /\ \A p, d : SettledIn(f, p, d) => SettledIn(s, p, d)
      /\ s.containersByPidIgnored = f.containersByPidIgnored
      /\ begin # None /\ pid \in DOMAIN f.containersByPid =>
           SettledIn(s, pid, f.containersById[f.containersByPid[pid]].cgroup)
  <2>1. CASE begin = None \/ pid \notin DOMAIN f.containersByPid
    <3>1. s = f
      BY Zenon, <1>1, <2>1
    <3> QED
      BY Zenon, <1>3, <2>1, <3>1
  <2>2. CASE begin # None /\ pid \in DOMAIN f.containersByPid
    <3>1. Entering(f, s, pid, begin)
      BY Zenon, <1>1, <2>2
    <3>2. s.containersByPidIgnored = f.containersByPidIgnored
      BY Zenon, <3>1 DEF Entering
    <3>3. /\ \A k, p, b : Runs(s, k, p, b) => Runs(f, k, p, b) \/ (p = pid /\ b = begin)
          /\ IdsOf(f) => IdsOf(s)
          /\ s.containersByPid = f.containersByPid
          /\ \A k : Kills(s, k) = Kills(f, k)
          /\ \A p, d : SettledIn(f, p, d) => SettledIn(s, p, d)
          /\ SettledIn(s, pid, f.containersById[f.containersByPid[pid]].cgroup)
      BY Zenon, <1>1, <2>2, <3>1, EnteringKeeps
    <3>4. \A k, p, b : Runs(s, k, p, b) => Runs(f, k, p, b) \/ Begun(p, b, pid, begin)
      BY SMTT(30), <2>2, <3>3 DEF Begun
    <3>5. IdsOf(s)
      BY Zenon, <1>3, <3>3
    <3> QED
      BY Zenon, <3>2, <3>3, <3>4, <3>5
  <2> QED
    BY Zenon, <2>1, <2>2
<1>5. \A k, p, b : Runs(s, k, p, b) => Runs(r, k, p, b) \/ Begun(p, b, pid, begin)
  BY Zenon, <1>2, <1>3, <1>4
<1>6. \A p \in DOMAIN f.containersByPid :
         \/ p \in DOMAIN q.containersByPid /\ f.containersByPid[p] = q.containersByPid[p]
         \/ p = pid /\ cg \in Cgroups /\ f.containersByPid[p] = IdOf[cg]
  BY Zenon, <1>3 DEF Binds
<1>7. Binds(r, s, pid, cg)
  BY Zenon, <1>2, <1>4, <1>6 DEF Binds
<1>8. \A k : Kills(s, k) = Kills(r, k)
  BY Zenon, <1>2, <1>3, <1>4
<1>9. OwnIds => \A p, d : SettledIn(r, p, d) /\ p # pid => SettledIn(s, p, d)
  BY Zenon, <1>2, <1>3, <1>4
<1>10. ASSUME OwnIds, cg \in Cgroups, begin # None, ok, r.containersByPidIgnored = {}
       PROVE  SettledIn(s, pid, cg)
  <2>1. cg # None /\ IdOf[cg] # None
    BY Zenon, <1>10, RegistryAssumption DEF OwnIds
  <2>2. pid \in DOMAIN f.containersByPid
    BY Zenon, <1>1, <1>2, <1>10, <2>1 DEF Looked
  <2>3. f.containersByPid[pid] = IdOf[cg]
    BY Zenon, <1>2, <1>6, <1>10, <2>2
  <2>4. /\ f.containersByPid[pid] \in DOMAIN f.containersById
        /\ f.containersById[f.containersByPid[pid]].cgroup \in Cgroups
    BY Zenon, <1>1, <2>2 DEF RegOK, Consistent, IsMap, Container
  <2>5. IdOf[f.containersById[f.containersByPid[pid]].cgroup] = f.containersByPid[pid]
    BY Zenon, <1>3, <2>4 DEF IdsOf
  <2>6. f.containersById[f.containersByPid[pid]].cgroup = cg
    BY Zenon, <1>10, <2>3, <2>4, <2>5 DEF OwnIds
  <2> QED
    BY Zenon, <1>4, <1>10, <2>2, <2>6
<1>11. ASSUME OwnIds, cg \in Cgroups \cup {None}, r.containersByPidIgnored = {}
       PROVE  s.containersByPidIgnored = {}
  <2>1. cg = None \/ IdOf[cg] # None
    BY Zenon, <1>11 DEF OwnIds
  <2>2. f.containersByPidIgnored \subseteq {}
    BY Zenon, <1>1, <1>2, <1>11, <2>1 DEF Looked
  <2> QED
    BY Zenon, <1>4, <2>2
<1> QED
  BY Zenon, <1>4, <1>5, <1>7, <1>8, <1>9, <1>10, <1>11

\* The processes that the containers have then
LEMMA DroppedRuns ==
  ASSUME NEW r, RegOK(r), NEW q, NEW pid \in DOMAIN r.containersByPid, NEW oom, Dropped(r, q, pid, oom),
         NEW k, NEW p, NEW b, Runs(q, k, p, b)
  PROVE  Runs(r, k, p, b) /\ p # pid
<1>1. \A k1, p1, b1 : Runs(q, k1, p1, b1) => Runs(r, k1, p1, b1) /\ p1 # pid
  BY Zenon, DroppedKeeps
<1> QED
  BY Zenon, <1>1

\* A start event leaves the entries that were there and may add one, for its own process
\* and with the time that taskstats gave.
LEMMA StartRuns ==
  ASSUME NEW r, RegOK(r), IdsOf(r), NEW s, NEW pid, NEW cg, NEW begin, NEW ok,
         StartSteps(r, s, pid, cg, begin, ok), NEW k, NEW p, NEW b, Runs(s, k, p, b)
  PROVE  Runs(r, k, p, b) \/ Begun(p, b, pid, begin)
<1>1. \A k1, p1, b1 : Runs(s, k1, p1, b1) => Runs(r, k1, p1, b1) \/ Begun(p1, b1, pid, begin)
  BY Zenon, StartKeeps
<1> QED
  BY Zenon, <1>1

-----------------------------------------------------------------------------
(* Sequences                                                               *)

\* t is s with an element more, at n.
Appended(s, t, e, n) ==
  /\ DOMAIN t = DOMAIN s \cup {n} /\ n \notin DOMAIN s /\ t[n] = e
  /\ \A i \in DOMAIN s : t[i] = s[i] /\ i < n /\ ~(n < i)
  /\ ~(n < n)

\* Append, in terms of the positions.
LEMMA AppendIs ==
  ASSUME NEW S, NEW s \in Seq(S), NEW e \in S
  PROVE  Append(s, e) \in Seq(S) /\ \E n : Appended(s, Append(s, e), e, n)
<1>1. Append(s, e) \in Seq(S) /\ Len(s) \in Nat
  OBVIOUS
<1>2. /\ DOMAIN Append(s, e) = DOMAIN s \cup {Len(s) + 1} /\ Len(s) + 1 \notin DOMAIN s
      /\ Append(s, e)[Len(s) + 1] = e
      /\ \A i \in DOMAIN s : Append(s, e)[i] = s[i] /\ i < Len(s) + 1 /\ ~(Len(s) + 1 < i)
      /\ ~(Len(s) + 1 < Len(s) + 1)
  BY <1>1
<1> QED
  BY Zenon, <1>1, <1>2 DEF Appended

\* The sequence without one of its elements.
LEMMA WithoutIs ==
  ASSUME NEW S, NEW s \in Seq(S), NEW i \in DOMAIN s
  PROVE  /\ Without(s, i) \in Seq(S) /\ Len(Without(s, i)) = Len(s) - 1
         /\ \A j \in 1..(Len(s) - 1) : Without(s, i)[j] = IF j < i THEN s[j] ELSE s[j + 1]
<1> DEFINE a == SubSeq(s, 1, i - 1)
           b == SubSeq(s, i + 1, Len(s))
<1>1. Len(s) \in Nat /\ i \in 1..Len(s)
  OBVIOUS
<1>2. a \in Seq(S) /\ Len(a) = i - 1 /\ \A j \in 1..(i - 1) : a[j] = s[j]
  BY <1>1
<1>3. b \in Seq(S) /\ Len(b) = Len(s) - i /\ \A j \in 1..(Len(s) - i) : b[j] = s[i + j]
  BY <1>1
<1> HIDE DEF a, b
<1>4. a \o b \in Seq(S) /\ Len(a \o b) = Len(s) - 1
  BY <1>1, <1>2, <1>3
<1>5. \A j \in 1..(Len(s) - 1) : (a \o b)[j] = IF j < i THEN s[j] ELSE s[j + 1]
  <2> SUFFICES ASSUME NEW j \in 1..(Len(s) - 1)
               PROVE  (a \o b)[j] = IF j < i THEN s[j] ELSE s[j + 1]
    BY Zenon
  <2>1. CASE j < i
    BY <1>1, <1>2, <1>3, <2>1
  <2>2. CASE ~(j < i)
    <3>1. (a \o b)[j] = b[j - (i - 1)]
      <4>1. j \in (Len(a) + 1)..(Len(a) + Len(b)) /\ Len(a) \in Nat /\ Len(b) \in Nat
        BY <1>1, <1>2, <1>3, <2>2
      <4>2. a \in Seq(S) /\ b \in Seq(S)
        BY Zenon, <1>2, <1>3
      <4>3. (a \o b)[j] = b[j - Len(a)]
        BY <4>1, <4>2
      <4> QED
        BY Zenon, <1>2, <4>3
    <3>2. b[j - (i - 1)] = s[i + (j - (i - 1))]
      BY <1>1, <1>3, <2>2
    <3>3. i + (j - (i - 1)) = j + 1
      BY <1>1
    <3> QED
      BY Zenon, <2>2, <3>1, <3>2, <3>3
  <2> QED
    BY Zenon, <2>1, <2>2
<1> QED
  BY Zenon, <1>4, <1>5 DEF Without, a, b

\* What is left was there.
LEMMA WithoutFrom ==
  ASSUME NEW S, NEW s \in Seq(S), NEW i \in DOMAIN s
  PROVE  \A j \in DOMAIN Without(s, i) : \E k \in DOMAIN s : Without(s, i)[j] = s[k]
<1> DEFINE t == Without(s, i)
<1>1. t \in Seq(S) /\ Len(t) = Len(s) - 1 /\ \A j \in 1..(Len(s) - 1) : t[j] = IF j < i THEN s[j] ELSE s[j + 1]
  BY Zenon, WithoutIs
<1> HIDE DEF t
<1>2. DOMAIN t = 1..(Len(s) - 1)
  BY <1>1
<1>3. \A j \in 1..(Len(s) - 1) : j \in DOMAIN s /\ j + 1 \in DOMAIN s
  OBVIOUS
<1> QED
  BY Zenon, <1>1, <1>2, <1>3 DEF t

\* t is s without its first element; f[i] is where element i of t was.
Shifted(s, t, f) ==
  /\ \A i \in DOMAIN t : f[i] \in DOMAIN s /\ f[i] # 1 /\ 1 < f[i] /\ ~(f[i] < 1) /\ t[i] = s[f[i]]
  /\ \A k \in DOMAIN s \ {1} : \E i \in DOMAIN t : f[i] = k
  /\ \A i, j \in DOMAIN t : i < j <=> f[i] < f[j]

\* The first element is taken from a sequence: the others keep their order.
LEMMA ShiftIs ==
  ASSUME NEW S, NEW s \in Seq(S), 1 \in DOMAIN s
  PROVE  \E f : Shifted(s, Without(s, 1), f)
<1> DEFINE t == Without(s, 1)
           f == [i \in DOMAIN t |-> i + 1]
<1>1. t \in Seq(S) /\ Len(t) = Len(s) - 1 /\ \A j \in 1..(Len(s) - 1) : t[j] = IF j < 1 THEN s[j] ELSE s[j + 1]
  BY Zenon, WithoutIs
<1> HIDE DEF t
<1>2. DOMAIN t = 1..(Len(s) - 1) /\ DOMAIN s = 1..Len(s) /\ Len(s) \in Nat
  BY <1>1
<1>3. \A i \in DOMAIN t : f[i] = i + 1
  BY Zenon
<1> HIDE DEF f
<1>4. \A i \in DOMAIN t : f[i] \in DOMAIN s /\ f[i] # 1 /\ 1 < f[i] /\ ~(f[i] < 1) /\ t[i] = s[f[i]]
  BY <1>1, <1>2, <1>3
<1>5. \A k \in DOMAIN s \ {1} : k - 1 \in DOMAIN t /\ f[k - 1] = k
  BY <1>2, <1>3
<1>6. \A i, j \in DOMAIN t : i < j <=> f[i] < f[j]
  BY <1>2, <1>3
<1> QED
  BY Zenon, <1>4, <1>5, <1>6 DEF Shifted, t

-----------------------------------------------------------------------------
(* Processes, their events and the registry                                *)

\* A process runs: its leader has not exited.
Alive(pid) == Leader(pid) \in threads

\* An event that has the number of the process it is about
TrackEvent == [type : {"start", "exit", "connect"}, pid : Pids, oom : BOOLEAN, born : 0..MaxForks]

\* The events are about processes that were started.
EventsTyped == events \in Seq(TrackEvent) /\ \A i \in DOMAIN events : events[i].born <= forks

\* The types; only leaders run, and every number was given out.
TrackTypes ==
  /\ threads \subseteq {Leader(p) : p \in Pids}
  /\ zombies \subseteq Pids /\ \A p \in oom_info : p \in Pids /\ Alive(p)
  /\ forks \in 0..MaxForks
  /\ born \in [Pids -> 0..MaxForks]
  /\ \A p \in Pids : born[p] <= forks /\ (Alive(p) \/ p \in zombies => 1 <= born[p])
  /\ cgroupOf \in [Pids -> Cgroups]
  /\ oomed \in [ContainerIds -> Nat]

\* What holds in every scenario
Base == TrackTypes /\ EventsTyped /\ RegOK(registry) /\ IdsOf(registry)

\* A leader stands for one process.
LEMMA LeaderOne == \A p, q : Leader(p) = Leader(q) => p = q
<1> SUFFICES ASSUME NEW p, NEW q, Leader(p) = Leader(q) PROVE p = q
  OBVIOUS
<1>1. Leader(p).pid = p /\ Leader(q).pid = q
  BY DEF Leader
<1> QED
  BY Zenon, <1>1

\* Who is alive after a start, and after an exit
LEMMA AliveAfter ==
  ASSUME NEW p
  PROVE  /\ threads' = threads \cup {Leader(p)} => \A q : Alive(q)' <=> Alive(q) \/ q = p
         /\ threads' = threads \ {Leader(p)} => \A q : Alive(q)' <=> Alive(q) /\ q # p
         /\ threads' = threads => \A q : Alive(q)' <=> Alive(q)
BY Zenon, LeaderOne DEF Alive

\* A process exists while it runs or is not reaped.
LEMMA ExistsIs ==
  ASSUME TrackTypes, NEW p \in Pids
  PROVE  /\ Exists(p) <=> Alive(p) \/ p \in zombies
         /\ ThreadsOf(p) # {} <=> Alive(p)
<1>1. \A q : Leader(q).pid = q
  BY DEF Leader
<1>2. \A t \in threads : \E q \in Pids : t = Leader(q)
  BY Zenon DEF TrackTypes
<1>3. ThreadsOf(p) # {} <=> Alive(p)
  BY Zenon, <1>1, <1>2 DEF ThreadsOf, Alive
<1> QED
  BY Zenon, <1>3 DEF Exists

\* The fields of an event
LEMMA EventType ==
  ASSUME EventsTyped, NEW i \in DOMAIN events
  PROVE  /\ events[i] \in TrackEvent /\ events[i].born <= forks
         /\ events[i].type \in {"start", "exit", "connect"} /\ events[i].pid \in Pids
         /\ events[i].oom \in BOOLEAN /\ events[i].born \in 0..MaxForks
<1>1. events[i] \in TrackEvent
  BY DEF EventsTyped
<1> QED
  BY Zenon, <1>1 DEF TrackEvent, EventsTyped

\* An exit of a process that the programs report
LEMMA ExitIs ==
  ASSUME TrackTypes, NEW p \in Pids, Exit(Leader(p))
  PROVE  /\ Alive(p) /\ threads' = threads \ {Leader(p)} /\ zombies' = zombies \cup {p}
         /\ oom_info' = oom_info \ {p}
         /\ events' = Append(events, Event("exit", p, p \in oom_info, born[p]))
         /\ UNCHANGED <<born, forks>>
<1>1. Leader(p).pid = p /\ Leader(p).n = 1
  BY DEF Leader
<1> QED
  BY Zenon, <1>1 DEF Exit, TakeOomMark, Alive

\* An event is reported ...
LEMMA ReportTyped ==
  ASSUME EventsTyped, TrackTypes, NEW e \in TrackEvent, e.born <= forks', forks <= forks', forks' \in Nat,
         events' = Append(events, e)
  PROVE  EventsTyped' /\ \E n : Appended(events, events', e, n)
<1>1. Append(events, e) \in Seq(TrackEvent) /\ \E n : Appended(events, Append(events, e), e, n)
  BY Zenon, AppendIs DEF EventsTyped
<1>2. PICK n : Appended(events, events', e, n)
  BY Zenon, <1>1
<1>3. \A i \in DOMAIN events : events[i].born <= forks'
  <2> TAKE i \in DOMAIN events
  <2>1. events[i].born \in 0..MaxForks /\ events[i].born <= forks
    BY Zenon, EventType
  <2>2. forks \in 0..MaxForks
    BY Zenon DEF TrackTypes
  <2> QED
    BY SMTT(30), <2>1, <2>2
<1>4. \A i \in DOMAIN events' : events'[i].born <= forks'
  BY Zenon, <1>2, <1>3 DEF Appended
<1> QED
  BY Zenon, <1>1, <1>2, <1>4 DEF EventsTyped

\* ... or taken from the buffer.
LEMMA TakenTyped ==
  ASSUME EventsTyped, NEW i \in DOMAIN events, events' = Without(events, i), forks' = forks
  PROVE  EventsTyped'
<1>0. events \in Seq(TrackEvent)
  BY Zenon DEF EventsTyped
<1>1. \A j \in DOMAIN events' : \E k \in DOMAIN events : events'[j] = events[k]
  <2>1. \A j \in DOMAIN Without(events, i) : \E k \in DOMAIN events : Without(events, i)[j] = events[k]
    BY SMTT(30), <1>0, WithoutFrom
  <2> QED
    BY Zenon, <2>1
<1>2. events' \in Seq(TrackEvent)
  BY Zenon, WithoutIs DEF EventsTyped
<1>3. \A j \in DOMAIN events' : events'[j].born <= forks'
  BY Zenon, <1>1 DEF EventsTyped
<1> QED
  BY Zenon, <1>2, <1>3 DEF EventsTyped

\* What /proc and taskstats answer
LEMMA AnswersType ==
  ASSUME TrackTypes, NEW p \in Pids
  PROVE  /\ ReadCgroup(p) \in Cgroups \cup {None}
         /\ Alive(p) => ReadCgroup(p) = cgroupOf[p] /\ cgroupOf[p] \in Cgroups
         /\ \A begin \in TaskstatsPID(p) :
              /\ begin \in Begins \cup {None}
              /\ begin # None => begin = born[p] /\ (Alive(p) \/ p \in zombies)
              /\ Alive(p) /\ "setup" \notin scenario => begin = born[p] /\ begin # None
<1>1. cgroupOf[p] \in Cgroups
  BY Zenon DEF TrackTypes
<1>2. Exists(p) <=> Alive(p) \/ p \in zombies
  BY Zenon, ExistsIs
<1>3. Exists(p) => born[p] \in Begins /\ born[p] # None
  <2>1. born[p] \in 0..MaxForks
    BY Zenon DEF TrackTypes
  <2>2. Exists(p) => 1 <= born[p]
    BY Zenon, <1>2 DEF TrackTypes
  <2>3. MaxForks \in Nat /\ MaxBegin \in Nat /\ MaxForks <= MaxBegin /\ None \notin 1..MaxBegin
    BY Zenon, ProcessAssumption, RegistryAssumption, TrackingAssumption
  <2>4. Exists(p) => born[p] \in 1..MaxBegin
    BY SMTT(30), <2>1, <2>2, <2>3
  <2> QED
    BY Zenon, <2>3, <2>4 DEF Begins
<1>4. ReadCgroup(p) \in Cgroups \cup {None} /\ (Exists(p) => ReadCgroup(p) = cgroupOf[p])
  BY Zenon, <1>1 DEF ReadCgroup
<1>5. ASSUME NEW begin \in TaskstatsPID(p)
      PROVE  /\ begin \in Begins \cup {None}
             /\ begin # None => begin = born[p] /\ (Alive(p) \/ p \in zombies)
             /\ Alive(p) /\ "setup" \notin scenario => begin = born[p] /\ begin # None
  <2>1. CASE Exists(p)
    <3>1. begin = born[p] \/ ("setup" \in scenario /\ begin = None)
      BY Zenon, <1>5, <2>1 DEF TaskstatsPID
    <3> QED
      BY Zenon, <1>2, <1>3, <2>1, <3>1
  <2>2. CASE ~Exists(p)
    <3>1. begin = None
      BY Zenon, <1>5, <2>2 DEF TaskstatsPID
    <3> QED
      BY Zenon, <1>2, <2>2, <3>1
  <2> QED
    BY Zenon, <2>1, <2>2
<1> QED
  BY Zenon, <1>1, <1>2, <1>4, <1>5

\* An event is read: the exit of a process, its start, or a connection.
ExitRead(e) ==
  /\ e.type = "exit" /\ missed' = missed
  /\ IF e.pid \in DOMAIN registry.containersByPid THEN Dropped(registry, registry', e.pid, e.oom)
     ELSE registry' = registry
\* The start of a process
StartRead(e) ==
  /\ e.type = "start" /\ missed' = missed
  /\ \E begin \in TaskstatsPID(e.pid), ok \in Ok :
       StartSteps(registry, registry', e.pid, ReadCgroup(e.pid), begin, ok)
\* A connection; it is missed if its container does not have the live process.
ConnectRead(e) ==
  /\ e.type = "connect"
  /\ \E ok \in Ok : Looked(registry, registry', e.pid, ReadCgroup(e.pid), ok)
  /\ \/ missed' = missed
     \/ /\ e.pid \in DOMAIN registry'.containersByPid /\ ~Entered(registry', e.pid)
        /\ Alive(e.pid) /\ born[e.pid] = e.born

\* HandleEvent is one of the three, and takes the event from the buffer.
LEMMA HandleIs ==
  ASSUME Base, NEW i \in DOMAIN events, HandleEvent(i)
  PROVE  /\ RegOK(registry') /\ (ExitRead(events[i]) \/ StartRead(events[i]) \/ ConnectRead(events[i]))
         /\ events' = Without(events, i) /\ (i = 1 \/ "reorder" \in scenario)
         /\ UNCHANGED <<threads, zombies, oom_info, born, forks, cgroupOf, oomed, scenario>>
<1> DEFINE e == events[i]
           p == e.pid
           cg == ReadCgroup(p)
<1>1. p \in RegPids /\ p \in Pids /\ e.oom \in BOOLEAN
  BY Zenon, EventType, TrackingAssumption DEF Base
<1>2. RegOK(registry) /\ TrackTypes
  BY Zenon DEF Base
<1>3. cg \in Cgroups \cup {None} /\ \A begin \in TaskstatsPID(p) : begin \in Begins \cup {None}
  BY Zenon, <1>1, <1>2, AnswersType
<1>4. \A fresh \in Fresh(p) : fresh \in BOOLEAN
  BY Zenon DEF Fresh
<1>5. \A ok \in Ok : ok \in BOOLEAN
  BY Zenon DEF Ok
<1>6. \/ e.type = "exit" /\ HandleExit(p, e.oom)
      \/ \E fresh \in Fresh(p), ok \in Ok :
           \/ e.type = "start" /\ HandleStart(p, fresh, ok)
           \/ e.type = "connect" /\ HandleConnect(p, e.born, fresh, ok)
  BY Zenon DEF HandleEvent
<1>7. /\ events' = Without(events, i) /\ (i = 1 \/ "reorder" \in scenario)
      /\ UNCHANGED <<threads, zombies, oom_info, born, forks, cgroupOf, oomed, scenario>>
  BY Zenon DEF HandleEvent, taskVars, truthVars
<1> HIDE DEF e, p, cg
<1>8. CASE e.type = "exit" /\ HandleExit(p, e.oom)
  <2>1. registry' = ProcessExit(registry, p, e.oom) /\ missed' = missed
    BY Zenon, <1>8 DEF HandleExit
  <2>2. RegOK(registry')
    BY Zenon, <1>1, <1>2, <2>1, ExitOK
  <2>3. p \notin DOMAIN registry.containersByPid => registry' = registry
    BY Zenon, <2>1 DEF ProcessExit
  <2>4. p \in DOMAIN registry.containersByPid => Dropped(registry, registry', p, e.oom)
    <3> SUFFICES ASSUME p \in DOMAIN registry.containersByPid PROVE Dropped(registry, registry', p, e.oom)
      BY Zenon
    <3>1. registry' = Drop(registry, p, e.oom)
      BY Zenon, <2>1 DEF ProcessExit
    <3>2. Dropped(registry, Drop(registry, p, e.oom), p, e.oom)
      BY Zenon, <1>1, <1>2, DropOK
    <3> QED
      BY Zenon, <3>1, <3>2
  <2>5. ExitRead(e)
    BY Zenon, <1>8, <2>1, <2>3, <2>4 DEF ExitRead, p
  <2> QED
    BY Zenon, <1>7, <2>2, <2>5 DEF e
<1>9. ASSUME NEW fresh \in Fresh(p), NEW ok \in Ok, e.type = "start", HandleStart(p, fresh, ok)
      PROVE  RegOK(registry') /\ StartRead(e)
  <2>1. PICK begin \in TaskstatsPID(p) : registry' = ProcessStart(registry, p, cg, begin, fresh, ok)
    BY Zenon, <1>9 DEF HandleStart, cg
  <2>2. fresh \in BOOLEAN /\ ok \in BOOLEAN /\ begin \in Begins \cup {None}
    BY Zenon, <1>3, <1>4, <1>5
  <2>3. /\ RegOK(ProcessStart(registry, p, cg, begin, fresh, ok))
        /\ StartSteps(registry, ProcessStart(registry, p, cg, begin, fresh, ok), p, cg, begin, ok)
    BY Zenon, <1>1, <1>2, <1>3, <2>2, StartOK
  <2>4. RegOK(registry') /\ StartSteps(registry, registry', p, cg, begin, ok)
    BY Zenon, <2>1, <2>3
  <2>5. missed' = missed
    BY Zenon, <1>9 DEF HandleStart
  <2> QED
    BY Zenon, <1>9, <2>1, <2>4, <2>5 DEF StartRead, p, cg
<1>10. ASSUME NEW fresh \in Fresh(p), NEW ok \in Ok, e.type = "connect", HandleConnect(p, e.born, fresh, ok)
       PROVE  RegOK(registry') /\ ConnectRead(e)
  <2>1. registry' = GetOrCreate(registry, p, cg, fresh, ok)
    BY Zenon, <1>10 DEF HandleConnect, cg
  <2>2. fresh \in BOOLEAN /\ ok \in BOOLEAN
    BY Zenon, <1>4, <1>5
  <2>3. /\ RegOK(GetOrCreate(registry, p, cg, fresh, ok))
        /\ Looked(registry, GetOrCreate(registry, p, cg, fresh, ok), p, cg, ok)
    BY Zenon, <1>1, <1>2, <1>3, <2>2, GetOrCreateOK
  <2>4. RegOK(registry') /\ Looked(registry, registry', p, cg, ok)
    BY Zenon, <2>1, <2>3
  <2>5. \/ missed' = missed
        \/ /\ p \in DOMAIN registry'.containersByPid /\ ~Entered(registry', p)
           /\ Alive(p) /\ born[p] = e.born
    BY Zenon, <1>10 DEF HandleConnect, Alive
  <2> QED
    BY Zenon, <1>10, <2>4, <2>5 DEF ConnectRead, p, cg
<1> QED
  BY Zenon, <1>6, <1>7, <1>8, <1>9, <1>10 DEF e, p, cg

-----------------------------------------------------------------------------
(* The steps                                                               *)

\* An event is put into the buffer.
Reports(type, p, oom, number) ==
  \E e, n : /\ Appended(events, events', e, n)
            /\ e.type = type /\ e.pid = p /\ e.oom = oom /\ e.born = number

\* A process starts in a cgroup, with a number of its own.
StartStep(p, cg) ==
  /\ ~Alive(p) /\ ("wrap" \in scenario \/ \A i \in DOMAIN events : events[i].pid # p)
  /\ \A q : Alive(q)' <=> Alive(q) \/ q = p
  /\ forks' = forks + 1 /\ born' = [born EXCEPT ![p] = forks']
  /\ cgroupOf' = [cgroupOf EXCEPT ![p] = cg]
  /\ Reports("start", p, FALSE, forks')
  /\ UNCHANGED <<oom_info, registry, missed, oomed, scenario>>

\* A process exits, and its mark goes with it.
ExitStep(p) ==
  /\ Alive(p) /\ \A q : Alive(q)' <=> Alive(q) /\ q # p
  /\ oom_info' = oom_info \ {p}
  /\ Reports("exit", p, p \in oom_info, born[p])
  /\ UNCHANGED <<born, forks, cgroupOf, registry, missed, oomed, scenario>>

\* A process connects.
ConnectStep(p) ==
  /\ Alive(p) /\ \A q : Alive(q)' <=> Alive(q)
  /\ Reports("connect", p, FALSE, born[p])
  /\ UNCHANGED <<oom_info, born, forks, cgroupOf, registry, missed, oomed, scenario>>

\* The steps that only change what a process is, or nothing of it
KillStep(p) ==
  /\ Alive(p) /\ oom_info' = oom_info \cup {p}
  /\ oomed' = IF IdOf[cgroupOf[p]] # None THEN [oomed EXCEPT ![IdOf[cgroupOf[p]]] = @ + 1] ELSE oomed
  /\ cgroupOf' = cgroupOf
\* A process changes its cgroup.
MoveStep(p, cg) ==
  /\ "move" \in scenario /\ cgroupOf' = [cgroupOf EXCEPT ![p] = cg]
  /\ UNCHANGED <<oom_info, oomed>>
\* Nothing is reported: a kill, a move, a zombie that is reaped, or no step at all
TaskStep ==
  /\ \A q : Alive(q)' <=> Alive(q)
  /\ \/ \E p \in Pids : KillStep(p) \/ \E cg \in Cgroups : MoveStep(p, cg)
     \/ UNCHANGED <<oom_info, cgroupOf, oomed>>
  /\ UNCHANGED <<born, forks, events, registry, missed, scenario>>

\* An event is taken from the buffer, or gc runs.
Still == /\ \A q : Alive(q)' <=> Alive(q)
         /\ UNCHANGED <<oom_info, born, forks, cgroupOf, oomed, scenario>>
\* An event is handled.
ReadStep(i) ==
  /\ Still /\ events' = Without(events, i) /\ (i = 1 \/ "reorder" \in scenario)
  /\ ExitRead(events[i]) \/ StartRead(events[i]) \/ ConnectRead(events[i])
\* An event is lost.
LoseStep(i) ==
  /\ Still /\ events' = Without(events, i) /\ "loss" \in scenario
  /\ UNCHANGED <<registry, missed>>
\* Registry.gc runs.
GcStep ==
  /\ Still /\ UNCHANGED <<events, missed>>
  /\ Collected(registry, registry', [p \in Pids |-> ReadCgroup(p)])

\* StartIn is such a step, and keeps the types and the maps.
LEMMA StartStepIs ==
  ASSUME Base, NEW p \in Pids, NEW cg \in Cgroups, StartIn(p, cg)
  PROVE  Base' /\ StartStep(p, cg)
<1> DEFINE e == Event("start", p, FALSE, forks')
<1>0. TrackTypes /\ EventsTyped /\ RegOK(registry) /\ IdsOf(registry)
  BY Zenon DEF Base
<1>1. /\ "wrap" \in scenario \/ \A i \in DOMAIN events : events[i].pid # p
      /\ forks < MaxForks /\ ~Exists(p) /\ threads' = threads \cup {Leader(p)} /\ forks' = forks + 1
      /\ born' = [born EXCEPT ![p] = forks'] /\ events' = Append(events, e)
      /\ cgroupOf' = [cgroupOf EXCEPT ![p] = cg]
      /\ UNCHANGED <<zombies, oom_info, registry, missed, oomed, scenario>>
  BY Zenon DEF StartIn, Fork
<1>2. ~Alive(p)
  BY Zenon, <1>0, <1>1, ExistsIs
<1>3. \A q : Alive(q)' <=> Alive(q) \/ q = p
  BY Zenon, <1>1, AliveAfter
<1>4. forks \in 0..MaxForks /\ MaxForks \in Nat
  BY Zenon, <1>0, ProcessAssumption DEF TrackTypes
<1>5. forks' \in 0..MaxForks /\ forks' \in Nat /\ forks <= forks' /\ forks' <= forks' /\ 1 <= forks'
  BY SMTT(30), <1>1, <1>4
<1>6. e \in TrackEvent /\ e.type = "start" /\ e.pid = p /\ e.oom = FALSE /\ e.born = forks'
  BY SMTT(30), <1>5 DEF Event, TrackEvent
<1> HIDE DEF e
<1>7. EventsTyped' /\ \E n : Appended(events, events', e, n)
  BY Zenon, <1>0, <1>1, <1>5, <1>6, ReportTyped
<1>8. StartStep(p, cg)
  BY Zenon, <1>1, <1>2, <1>3, <1>6, <1>7 DEF StartStep, Reports
<1>9. TrackTypes'
  <2>1. threads' \subseteq {Leader(q) : q \in Pids} /\ zombies' \subseteq Pids
    BY Zenon, <1>0, <1>1 DEF TrackTypes
  <2>2. \A q \in oom_info' : q \in Pids /\ Alive(q)'
    BY Zenon, <1>0, <1>1, <1>3 DEF TrackTypes
  <2>3. /\ born \in [Pids -> 0..MaxForks]
        /\ \A q \in Pids : born[q] <= forks /\ (Alive(q) \/ q \in zombies => 1 <= born[q])
    BY Zenon, <1>0 DEF TrackTypes
  <2>4. born' \in [Pids -> 0..MaxForks] /\ born'[p] = forks' /\ \A q \in Pids : q # p => born'[q] = born[q]
    BY Zenon, <1>1, <1>5, <2>3
  <2>5. ASSUME NEW q \in Pids
        PROVE  born'[q] <= forks' /\ (Alive(q)' \/ q \in zombies' => 1 <= born'[q])
    <3>1. CASE q = p
      BY Zenon, <1>5, <2>4, <3>1
    <3>2. CASE q # p
      <4>1. born[q] \in 0..MaxForks /\ born[q] <= forks
        BY Zenon, <2>3
      <4>2. born[q] <= forks'
        BY SMTT(30), <1>4, <1>5, <4>1
      <4> QED
        BY Zenon, <1>1, <1>3, <2>3, <2>4, <3>2, <4>2
    <3> QED
      BY Zenon, <3>1, <3>2
  <2>6. cgroupOf' \in [Pids -> Cgroups]
    BY Zenon, <1>0, <1>1 DEF TrackTypes
  <2>7. oomed' \in [ContainerIds -> Nat]
    BY Zenon, <1>0, <1>1 DEF TrackTypes
  <2> QED
    BY Zenon, <1>5, <2>1, <2>2, <2>4, <2>5, <2>6, <2>7 DEF TrackTypes
<1>10. RegOK(registry') /\ IdsOf(registry')
  BY Zenon, <1>0, <1>1
<1> QED
  BY Zenon, <1>7, <1>8, <1>9, <1>10 DEF Base

\* So is the exit of a process, ...
LEMMA ExitStepIs ==
  ASSUME Base, NEW p \in Pids, Exit(Leader(p)), UNCHANGED <<registry, truthVars, missed>>
  PROVE  Base' /\ ExitStep(p)
<1> DEFINE e == Event("exit", p, p \in oom_info, born[p])
<1>0. TrackTypes /\ EventsTyped /\ RegOK(registry) /\ IdsOf(registry)
  BY Zenon DEF Base
<1>1. /\ Alive(p) /\ threads' = threads \ {Leader(p)} /\ zombies' = zombies \cup {p}
      /\ oom_info' = oom_info \ {p} /\ events' = Append(events, e)
      /\ UNCHANGED <<born, forks>>
  BY Zenon, <1>0, ExitIs
<1>2. UNCHANGED <<registry, missed, scenario, cgroupOf, oomed>>
  BY Zenon DEF truthVars
<1>3. \A q : Alive(q)' <=> Alive(q) /\ q # p
  BY Zenon, <1>1, AliveAfter
<1>4. forks \in 0..MaxForks /\ MaxForks \in Nat /\ born[p] \in 0..MaxForks /\ born[p] <= forks
  BY Zenon, <1>0, ProcessAssumption DEF TrackTypes
<1>5. e \in TrackEvent /\ e.type = "exit" /\ e.pid = p /\ e.oom = (p \in oom_info) /\ e.born = born[p]
  BY SMTT(30), <1>4 DEF Event, TrackEvent
<1> HIDE DEF e
<1>6. forks' = forks /\ forks' \in Nat /\ forks <= forks' /\ e.born <= forks'
  BY SMTT(30), <1>1, <1>4, <1>5
<1>7. EventsTyped' /\ \E n : Appended(events, events', e, n)
  BY Zenon, <1>0, <1>1, <1>5, <1>6, ReportTyped
<1>8. ExitStep(p)
  BY Zenon, <1>1, <1>2, <1>3, <1>5, <1>7 DEF ExitStep, Reports
<1>9. TrackTypes'
  <2>1. threads' \subseteq {Leader(q) : q \in Pids} /\ zombies' \subseteq Pids
    BY Zenon, <1>0, <1>1 DEF TrackTypes
  <2>2. \A q \in oom_info' : q \in Pids /\ Alive(q)'
    BY Zenon, <1>0, <1>1, <1>3 DEF TrackTypes
  <2>3. \A q \in Pids : born[q] <= forks /\ (Alive(q) \/ q \in zombies => 1 <= born[q])
    BY Zenon, <1>0 DEF TrackTypes
  <2>4. \A q \in Pids : born'[q] <= forks' /\ (Alive(q)' \/ q \in zombies' => 1 <= born'[q])
    BY Zenon, <1>1, <1>3, <2>3
  <2> QED
    BY Zenon, <1>0, <1>1, <1>2, <2>1, <2>2, <2>4 DEF TrackTypes
<1>10. RegOK(registry') /\ IdsOf(registry')
  BY Zenon, <1>0, <1>2
<1> QED
  BY Zenon, <1>7, <1>8, <1>9, <1>10 DEF Base

\* ... so is a connection, ...
LEMMA ConnectStepIs ==
  ASSUME Base, NEW p \in Pids, Connect(p)
  PROVE  Base' /\ ConnectStep(p)
<1> DEFINE e == Event("connect", p, FALSE, born[p])
<1>0. TrackTypes /\ EventsTyped /\ RegOK(registry) /\ IdsOf(registry)
  BY Zenon DEF Base
<1>1. /\ Alive(p) /\ events' = Append(events, e)
      /\ UNCHANGED <<threads, zombies, oom_info, born, forks, cgroupOf, registry, missed, oomed, scenario>>
  BY Zenon DEF Connect, Alive, taskVars
<1>3. \A q : Alive(q)' <=> Alive(q)
  BY Zenon, <1>1, AliveAfter
<1>4. forks \in 0..MaxForks /\ MaxForks \in Nat /\ born[p] \in 0..MaxForks /\ born[p] <= forks
  BY Zenon, <1>0, ProcessAssumption DEF TrackTypes
<1>5. e \in TrackEvent /\ e.type = "connect" /\ e.pid = p /\ e.oom = FALSE /\ e.born = born[p]
  BY SMTT(30), <1>4 DEF Event, TrackEvent
<1> HIDE DEF e
<1>6. forks' = forks /\ forks' \in Nat /\ forks <= forks' /\ e.born <= forks'
  BY SMTT(30), <1>1, <1>4, <1>5
<1>7. EventsTyped' /\ \E n : Appended(events, events', e, n)
  BY Zenon, <1>0, <1>1, <1>5, <1>6, ReportTyped
<1>8. ConnectStep(p)
  BY Zenon, <1>1, <1>3, <1>5, <1>7 DEF ConnectStep, Reports
<1>9. TrackTypes'
  BY Zenon, <1>0, <1>1, <1>3 DEF TrackTypes
<1>10. RegOK(registry') /\ IdsOf(registry')
  BY Zenon, <1>0, <1>1
<1> QED
  BY Zenon, <1>7, <1>8, <1>9, <1>10 DEF Base

\* ... and so are the steps that report nothing.
LEMMA TaskStepIs ==
  ASSUME Base,
         \/ \E p \in Pids : Killed(p) \/ (Reap(p) /\ UNCHANGED <<registry, truthVars, missed>>)
         \/ \E p \in Pids, cg \in Cgroups : Move(p, cg)
         \/ UNCHANGED trackingVars
  PROVE  Base' /\ TaskStep
<1>0. TrackTypes /\ EventsTyped /\ RegOK(registry) /\ IdsOf(registry)
  BY Zenon DEF Base
<1>1. ASSUME threads' = threads, zombies' \subseteq zombies, UNCHANGED <<born, forks, events, registry>>,
             \A p \in oom_info' : p \in Pids /\ Alive(p),
             cgroupOf' \in [Pids -> Cgroups], oomed' \in [ContainerIds -> Nat]
      PROVE  Base'
  <2>1. \A q : Alive(q)' <=> Alive(q)
    BY Zenon, <1>1, AliveAfter
  <2>2. TrackTypes'
    BY Zenon, <1>0, <1>1, <2>1 DEF TrackTypes
  <2>3. EventsTyped'
    BY Zenon, <1>0, <1>1 DEF EventsTyped
  <2> QED
    BY Zenon, <1>0, <1>1, <2>2, <2>3 DEF Base
<1>2. /\ cgroupOf \in [Pids -> Cgroups] /\ oomed \in [ContainerIds -> Nat]
      /\ \A p \in oom_info : p \in Pids /\ Alive(p)
  BY Zenon, <1>0 DEF TrackTypes
<1>3. ASSUME NEW p \in Pids, Killed(p)
      PROVE  Base' /\ TaskStep
  <2>1. /\ ThreadsOf(p) # {} /\ oom_info' = oom_info \cup {p}
        /\ oomed' = IF IdOf[cgroupOf[p]] # None THEN [oomed EXCEPT ![IdOf[cgroupOf[p]]] = @ + 1] ELSE oomed
        /\ UNCHANGED <<threads, zombies, born, forks, events, registry, cgroupOf, missed, scenario>>
    BY Zenon, <1>3 DEF Killed, OomMarkVictim
  <2>2. Alive(p)
    BY Zenon, <1>0, <2>1, ExistsIs
  <2>3. \A q : Alive(q)' <=> Alive(q)
    BY Zenon, <2>1, AliveAfter
  <2>4. oomed' \in [ContainerIds -> Nat]
    <3>1. \A id \in ContainerIds : oomed[id] + 1 \in Nat
      BY SMTT(30), <1>2
    <3>2. CASE IdOf[cgroupOf[p]] # None
      <4>1. IdOf[cgroupOf[p]] \in ContainerIds
        BY Zenon, <1>2, <3>2, RegistryAssumption
      <4> QED
        BY Zenon, <1>2, <2>1, <3>1, <3>2, <4>1
    <3>3. CASE IdOf[cgroupOf[p]] = None
      BY Zenon, <1>2, <2>1, <3>3
    <3> QED
      BY Zenon, <3>2, <3>3
  <2>5. Base'
    BY Zenon, <1>1, <1>2, <2>1, <2>2, <2>4
  <2>6. KillStep(p)
    BY Zenon, <2>1, <2>2 DEF KillStep
  <2> QED
    BY Zenon, <2>1, <2>3, <2>5, <2>6 DEF TaskStep
<1>4. ASSUME NEW p \in Pids, Reap(p), UNCHANGED <<registry, truthVars, missed>>
      PROVE  Base' /\ TaskStep
  <2>1. /\ zombies' = zombies \ {p}
        /\ UNCHANGED <<threads, oom_info, born, forks, events, registry, cgroupOf, oomed, missed, scenario>>
    BY Zenon, <1>4 DEF Reap, truthVars
  <2>2. \A q : Alive(q)' <=> Alive(q)
    BY Zenon, <2>1, AliveAfter
  <2>3. Base'
    BY Zenon, <1>1, <1>2, <2>1
  <2> QED
    BY Zenon, <2>1, <2>2, <2>3 DEF TaskStep
<1>5. ASSUME NEW p \in Pids, NEW cg \in Cgroups, Move(p, cg)
      PROVE  Base' /\ TaskStep
  <2>1. /\ "move" \in scenario /\ cgroupOf' = [cgroupOf EXCEPT ![p] = cg]
        /\ UNCHANGED <<threads, zombies, oom_info, born, forks, events, registry, oomed, missed, scenario>>
    BY Zenon, <1>5 DEF Move, probeVars, taskVars
  <2>2. \A q : Alive(q)' <=> Alive(q)
    BY Zenon, <2>1, AliveAfter
  <2>3. cgroupOf' \in [Pids -> Cgroups]
    BY Zenon, <1>2, <2>1
  <2>4. Base'
    BY Zenon, <1>1, <1>2, <2>1, <2>3
  <2>5. MoveStep(p, cg)
    BY Zenon, <2>1 DEF MoveStep
  <2> QED
    BY Zenon, <2>1, <2>2, <2>4, <2>5 DEF TaskStep
<1>6. CASE UNCHANGED trackingVars
  <2>1. UNCHANGED <<threads, zombies, oom_info, born, forks, events, registry, cgroupOf, oomed, missed, scenario>>
    BY Zenon, <1>6 DEF trackingVars, probeVars, taskVars, truthVars
  <2>2. \A q : Alive(q)' <=> Alive(q)
    BY Zenon, <2>1, AliveAfter
  <2>3. Base'
    BY Zenon, <1>1, <1>2, <2>1
  <2> QED
    BY Zenon, <2>1, <2>2, <2>3 DEF TaskStep
<1> QED
  BY Zenon, <1>3, <1>4, <1>5, <1>6

\* A step of the agent leaves the types as they are.
LEMMA StillTyped ==
  ASSUME TrackTypes, UNCHANGED <<threads, zombies, oom_info, born, forks, cgroupOf, oomed, scenario>>
  PROVE  TrackTypes' /\ Still
<1>1. \A q : Alive(q)' <=> Alive(q)
  BY Zenon, AliveAfter
<1>2. TrackTypes'
  BY Zenon, <1>1 DEF TrackTypes
<1> QED
  BY Zenon, <1>1, <1>2 DEF Still

\* Handling an event keeps the types and the maps, ...
LEMMA ReadStepIs ==
  ASSUME Base, NEW i \in DOMAIN events, HandleEvent(i)
  PROVE  Base' /\ ReadStep(i)
<1> DEFINE e == events[i]
<1>0. TrackTypes /\ EventsTyped /\ RegOK(registry) /\ IdsOf(registry)
  BY Zenon DEF Base
<1>1. /\ RegOK(registry') /\ (ExitRead(e) \/ StartRead(e) \/ ConnectRead(e))
      /\ events' = Without(events, i) /\ (i = 1 \/ "reorder" \in scenario)
      /\ UNCHANGED <<threads, zombies, oom_info, born, forks, cgroupOf, oomed, scenario>>
  BY Zenon, HandleIs
<1>2. TrackTypes' /\ Still
  BY Zenon, <1>0, <1>1, StillTyped
<1>3. EventsTyped'
  BY Zenon, <1>0, <1>1, TakenTyped
<1>4. IdsOf(registry')
  <2>1. ASSUME ExitRead(e) PROVE IdsOf(registry')
    <3>1. CASE e.pid \in DOMAIN registry.containersByPid
      <4>1. PICK p \in DOMAIN registry.containersByPid : p = e.pid
        BY Zenon, <3>1
      <4>2. PICK oom : Dropped(registry, registry', p, oom)
        BY Zenon, <2>1, <3>1, <4>1 DEF ExitRead
      <4>3. IdsOf(registry) => IdsOf(registry')
        BY Zenon, <1>0, <4>2, DroppedKeeps
      <4> QED
        BY Zenon, <1>0, <4>3
    <3>2. CASE e.pid \notin DOMAIN registry.containersByPid
      BY Zenon, <1>0, <2>1, <3>2 DEF ExitRead
    <3> QED
      BY Zenon, <3>1, <3>2
  <2>2. ASSUME StartRead(e) PROVE IdsOf(registry')
    <3>1. PICK p, cg, begin, ok : StartSteps(registry, registry', p, cg, begin, ok)
      BY Zenon, <2>2 DEF StartRead
    <3> QED
      BY Zenon, <1>0, <3>1, StartKeeps
  <2>3. ASSUME ConnectRead(e) PROVE IdsOf(registry')
    <3>1. PICK p, cg, ok : Looked(registry, registry', p, cg, ok)
      BY Zenon, <2>3 DEF ConnectRead
    <3> QED
      BY Zenon, <1>0, <3>1, LookedKeeps
  <2> QED
    BY Zenon, <1>1, <2>1, <2>2, <2>3
<1> QED
  BY Zenon, <1>1, <1>2, <1>3, <1>4 DEF Base, ReadStep

\* ... so does losing one, ...
LEMMA LoseStepIs ==
  ASSUME Base, NEW i \in DOMAIN events, Lose(i)
  PROVE  Base' /\ LoseStep(i)
<1>0. TrackTypes /\ EventsTyped /\ RegOK(registry) /\ IdsOf(registry)
  BY Zenon DEF Base
<1>1. /\ events' = Without(events, i) /\ "loss" \in scenario /\ UNCHANGED <<registry, missed>>
      /\ UNCHANGED <<threads, zombies, oom_info, born, forks, cgroupOf, oomed, scenario>>
  BY Zenon DEF Lose, taskVars, truthVars
<1>2. TrackTypes' /\ Still
  BY Zenon, <1>0, <1>1, StillTyped
<1>3. EventsTyped'
  BY Zenon, <1>0, <1>1, TakenTyped
<1> QED
  BY Zenon, <1>0, <1>1, <1>2, <1>3 DEF Base, LoseStep

\* ... and so does gc.
LEMMA GcStepIs ==
  ASSUME Base, NEW old \in SUBSET Zombies(registry), RunGc(old)
  PROVE  Base' /\ GcStep
<1> DEFINE found == [p \in Pids |-> ReadCgroup(p)]
<1>0. TrackTypes /\ EventsTyped /\ RegOK(registry) /\ IdsOf(registry)
  BY Zenon DEF Base
<1>1. /\ registry' = RegistryGc(registry, found, old) /\ UNCHANGED <<events, missed>>
      /\ UNCHANGED <<threads, zombies, oom_info, born, forks, cgroupOf, oomed, scenario>>
  BY Zenon DEF RunGc, probeVars, taskVars, truthVars
<1> HIDE DEF found
<1>2. RegOK(RegistryGc(registry, found, old)) /\ Collected(registry, RegistryGc(registry, found, old), found)
  BY Zenon, <1>0, GcOK
<1>3. RegOK(registry') /\ Collected(registry, registry', found)
  BY Zenon, <1>1, <1>2
<1>4. IdsOf(registry')
  BY Zenon, <1>0, <1>3, CollectedKeeps
<1>5. TrackTypes' /\ Still
  BY Zenon, <1>0, <1>1, StillTyped
<1>6. EventsTyped'
  BY Zenon, <1>0, <1>1 DEF EventsTyped
<1> QED
  BY Zenon, <1>1, <1>3, <1>4, <1>5, <1>6 DEF Base, GcStep, found

\* The steps of processes, reader, buffers and gc
AnyStep ==
  \/ \E p \in Pids, cg \in Cgroups : StartStep(p, cg)
  \/ \E p \in Pids : ExitStep(p) \/ ConnectStep(p)
  \/ TaskStep
  \/ \E i \in DOMAIN events : ReadStep(i) \/ LoseStep(i)
  \/ GcStep

\* Every step of the specification is one of these, and the maps agree after it.
LEMMA TrackingSteps ==
  ASSUME Base, [TrackingNext]_trackingVars
  PROVE  Base' /\ AnyStep
<1>1. ASSUME NEW p \in Pids, NEW cg \in Cgroups, StartIn(p, cg) PROVE Base' /\ AnyStep
  BY Zenon, <1>1, StartStepIs DEF AnyStep
<1>2. ASSUME NEW p \in Pids, NEW cg \in Cgroups, Move(p, cg) PROVE Base' /\ AnyStep
  BY Zenon, <1>2, TaskStepIs DEF AnyStep
<1>3. ASSUME NEW p \in Pids, Killed(p) PROVE Base' /\ AnyStep
  BY Zenon, <1>3, TaskStepIs DEF AnyStep
<1>4. ASSUME NEW p \in Pids, Connect(p) PROVE Base' /\ AnyStep
  BY Zenon, <1>4, ConnectStepIs DEF AnyStep
<1>5. CASE OtherTask
  <2>1. PICK p \in Pids : Exit(Leader(p)) \/ Reap(p)
    BY Zenon, <1>5 DEF OtherTask
  <2>2. UNCHANGED <<registry, truthVars, missed>>
    BY Zenon, <1>5 DEF OtherTask
  <2>3. CASE Exit(Leader(p))
    BY Zenon, <2>2, <2>3, ExitStepIs DEF AnyStep
  <2>4. CASE Reap(p)
    BY Zenon, <2>2, <2>4, TaskStepIs DEF AnyStep
  <2> QED
    BY Zenon, <2>1, <2>3, <2>4
<1>6. ASSUME NEW i \in DOMAIN events, HandleEvent(i) PROVE Base' /\ AnyStep
  BY Zenon, <1>6, ReadStepIs DEF AnyStep
<1>7. ASSUME NEW i \in DOMAIN events, Lose(i) PROVE Base' /\ AnyStep
  BY Zenon, <1>7, LoseStepIs DEF AnyStep
<1>8. ASSUME NEW old \in SUBSET Zombies(registry), RunGc(old) PROVE Base' /\ AnyStep
  BY Zenon, <1>8, GcStepIs DEF AnyStep
<1>9. CASE UNCHANGED trackingVars
  BY Zenon, <1>9, TaskStepIs DEF AnyStep
<1> QED
  BY Zenon, <1>1, <1>2, <1>3, <1>4, <1>5, <1>6, <1>7, <1>8, <1>9 DEF TrackingNext

-----------------------------------------------------------------------------
(* ProcessesCurrent                                                        *)

\* The exit of a process, still unread
ExitOf(i, pid) == events[i].pid = pid /\ events[i].type = "exit"
\* A process has exited and the registry has not seen it.
Exiting(pid) == \E i \in DOMAIN events : ExitOf(i, pid)

\* What a process did comes before its exit.
Orderly ==
  \A i \in DOMAIN events : events[i].type # "exit" =>
    Alive(events[i].pid) \/ \E j \in DOMAIN events : i < j /\ ExitOf(j, events[i].pid)

\* A process of a container runs, unless its exit is not read yet.
EntriesCurrent ==
  \A k, p, b : Runs(registry, k, p, b) => Exiting(p) \/ (Alive(p) /\ b = born[p])

\* Both hold while events come all, in their order.
CurrentInv == scenario \subseteq {"wrap", "setup", "move", "quiet"} => Orderly /\ EntriesCurrent

\* A new event leaves the exits where they are.
LEMMA ExitingReport ==
  ASSUME NEW type, NEW p, NEW oom, NEW number, Reports(type, p, oom, number)
  PROVE  /\ \A q : Exiting(q) => Exiting(q)'
         /\ type = "exit" => Exiting(p)'
BY Zenon DEF Reports, Appended, Exiting, ExitOf

\* An event that is reported of a live process, or that is its exit, keeps the order.
LEMMA OrderlyReport ==
  ASSUME Orderly, NEW type, NEW p, NEW oom, NEW number, Reports(type, p, oom, number),
         type # "exit" => Alive(p)',
         \A q : Alive(q) => Alive(q)' \/ (q = p /\ type = "exit")
  PROVE  Orderly'
<1>1. PICK e, n : /\ Appended(events, events', e, n) /\ e.type = type /\ e.pid = p
  BY Zenon DEF Reports
<1>2. /\ DOMAIN events' = DOMAIN events \cup {n} /\ events'[n] = e
      /\ \A i \in DOMAIN events : events'[i] = events[i] /\ i < n
  BY Zenon, <1>1 DEF Appended
<1>3. SUFFICES ASSUME NEW i \in DOMAIN events', events'[i].type # "exit", Leader(events'[i].pid) \notin threads'
               PROVE  \E j \in DOMAIN events' :
                        i < j /\ events'[j].pid = events'[i].pid /\ events'[j].type = "exit"
  BY Zenon DEF Orderly, ExitOf, Alive
<1>4. i # n
  BY Zenon, <1>1, <1>2, <1>3 DEF Alive
<1>5. i \in DOMAIN events /\ events'[i] = events[i] /\ i < n
  BY Zenon, <1>2, <1>4
<1>6. CASE Alive(events[i].pid)
  <2>1. events[i].pid = p /\ type = "exit"
    BY Zenon, <1>3, <1>5, <1>6 DEF Alive
  <2>2. n \in DOMAIN events' /\ i < n /\ events'[n].pid = p /\ events'[n].type = "exit"
    BY Zenon, <1>1, <1>2, <1>5, <2>1
  <2> QED
    BY Zenon, <1>5, <2>1, <2>2 DEF ExitOf
<1>7. CASE ~Alive(events[i].pid)
  <2>1. PICK j \in DOMAIN events : i < j /\ ExitOf(j, events[i].pid)
    BY Zenon, <1>3, <1>5, <1>7 DEF Orderly
  <2> QED
    BY Zenon, <1>2, <1>5, <2>1 DEF ExitOf
<1> QED
  BY Zenon, <1>6, <1>7

\* The first event is read: the other ones keep their order, ...
LEMMA FirstRead ==
  ASSUME Base, 1 \in DOMAIN events, events' = Without(events, 1)
  PROVE  \E f : Shifted(events, events', f)
<1>1. events \in Seq(TrackEvent)
  BY Zenon DEF Base, EventsTyped
<1>2. \E f : Shifted(events, Without(events, 1), f)
  BY Zenon, <1>1, ShiftIs
<1> QED
  BY Zenon, <1>2

\* ... and the exits among them are still to be read.
LEMMA ExitingRead ==
  ASSUME NEW f, Shifted(events, events', f), NEW j \in DOMAIN events, NEW q, ExitOf(j, q), ~ExitOf(1, q)
  PROVE  Exiting(q)'
<1>1. j # 1
  BY Zenon
<1>2. PICK i \in DOMAIN events' : f[i] = j
  BY Zenon, <1>1 DEF Shifted
<1>3. events'[i] = events[j]
  BY Zenon, <1>2 DEF Shifted
<1> QED
  BY Zenon, <1>2, <1>3 DEF ExitOf, Exiting

\* Taking the first event from the buffer keeps the order.
LEMMA OrderlyRead ==
  ASSUME Orderly, NEW f, Shifted(events, events', f), \A q : Alive(q)' <=> Alive(q)
  PROVE  Orderly'
<1>1. SUFFICES ASSUME NEW i \in DOMAIN events', events'[i].type # "exit", Leader(events'[i].pid) \notin threads'
               PROVE  \E j \in DOMAIN events' :
                        i < j /\ events'[j].pid = events'[i].pid /\ events'[j].type = "exit"
  BY Zenon DEF Orderly, ExitOf, Alive
<1>2. f[i] \in DOMAIN events /\ events'[i] = events[f[i]] /\ ~(f[i] < 1)
  BY Zenon DEF Shifted
<1>3. PICK k \in DOMAIN events : f[i] < k /\ ExitOf(k, events[f[i]].pid)
  BY Zenon, <1>1, <1>2 DEF Orderly, Alive
<1>4. k # 1
  BY Zenon, <1>2, <1>3
<1>5. PICK j \in DOMAIN events' : f[j] = k
  BY Zenon, <1>4 DEF Shifted
<1>6. events'[j] = events[k] /\ i < j
  BY Zenon, <1>3, <1>5 DEF Shifted
<1> QED
  BY Zenon, <1>2, <1>3, <1>6 DEF ExitOf

\* A process of a container has an id.
LEMMA RunsPid ==
  ASSUME NEW r, RegOK(r), NEW k, NEW p, NEW b, Runs(r, k, p, b)
  PROVE  p \in Pids /\ p \in DOMAIN r.containersByPid
<1>1. DOMAIN r.processes[k] \subseteq RegPids
  BY Zenon DEF RegOK, Consistent, IsMap, Runs
<1>2. p \in DOMAIN r.containersByPid
  BY Zenon DEF RegOK, Consistent, Runs
<1> QED
  BY Zenon, <1>1, <1>2, TrackingAssumption DEF Runs

\* The processes of the containers after the first event was read.
LEMMA EntriesRead ==
  ASSUME Base, Orderly, EntriesCurrent, 1 \in DOMAIN events, ReadStep(1),
         NEW f, Shifted(events, events', f)
  PROVE  EntriesCurrent'
<1> DEFINE e == events[1]
<1>0. /\ RegOK(registry) /\ IdsOf(registry) /\ TrackTypes
      /\ e.pid \in Pids
  BY Zenon, EventType DEF Base
<1>1. (\A q : Alive(q)' <=> Alive(q)) /\ born' = born
  BY Zenon DEF ReadStep, Still
<1>2. ASSUME NEW q, ~ExitOf(1, q), Exiting(q) PROVE Exiting(q)'
  <2>1. PICK j \in DOMAIN events : ExitOf(j, q)
    BY Zenon, <1>2 DEF Exiting
  <2> QED
    BY Zenon, <1>2, <2>1, ExitingRead
<1>3. SUFFICES ASSUME NEW k, NEW q, NEW b, Runs(registry', k, q, b)
               PROVE  Exiting(q)' \/ (Alive(q)' /\ b = born'[q])
  BY Zenon DEF EntriesCurrent
<1>4. ASSUME Runs(registry, k, q, b), ~ExitOf(1, q)
      PROVE  Exiting(q)' \/ (Alive(q)' /\ b = born'[q])
  BY Zenon, <1>1, <1>2, <1>4 DEF EntriesCurrent
<1>5. CASE ExitRead(e)
  <2>1. Runs(registry, k, q, b) /\ q # e.pid
    <3>1. CASE e.pid \in DOMAIN registry.containersByPid
      <4>1. PICK p \in DOMAIN registry.containersByPid : p = e.pid
        BY Zenon, <3>1
      <4>2. PICK oom : Dropped(registry, registry', p, oom)
        BY Zenon, <1>5, <3>1, <4>1 DEF ExitRead
      <4>3. Runs(registry, k, q, b) /\ q # p
        BY Zenon, <1>0, <1>3, <4>2, DroppedRuns
      <4> QED
        BY Zenon, <4>1, <4>3
    <3>2. CASE e.pid \notin DOMAIN registry.containersByPid
      <4>1. Runs(registry, k, q, b)
        BY Zenon, <1>3, <1>5, <3>2 DEF ExitRead
      <4> QED
        BY Zenon, <1>0, <3>2, <4>1, RunsPid
    <3> QED
      BY Zenon, <3>1, <3>2
  <2> QED
    BY Zenon, <1>4, <2>1 DEF ExitOf
<1>6. CASE StartRead(e)
  <2>1. PICK begin \in TaskstatsPID(e.pid), ok \in Ok :
          StartSteps(registry, registry', e.pid, ReadCgroup(e.pid), begin, ok)
    BY Zenon, <1>6 DEF StartRead
  <2>2. PICK p, cg : p = e.pid /\ cg = ReadCgroup(e.pid)
    OBVIOUS
  <2>3. Runs(registry, k, q, b) \/ Begun(q, b, p, begin)
    <3>1. StartSteps(registry, registry', p, cg, begin, ok)
      BY Zenon, <2>1, <2>2
    <3> QED
      BY Zenon, <1>0, <1>3, <3>1, StartRuns
  <2>4. ~ExitOf(1, q) /\ e.type # "exit"
    BY Zenon, <1>6 DEF StartRead, ExitOf
  <2>5. CASE Runs(registry, k, q, b)
    BY Zenon, <1>4, <2>4, <2>5
  <2>6. CASE q = e.pid /\ b = begin /\ begin # None
    <3>1. b = born[q]
      BY Zenon, <1>0, <2>1, <2>6, AnswersType
    <3>2. Alive(q) \/ Exiting(q)
      BY Zenon, <2>4, <2>6 DEF Orderly, Exiting
    <3> QED
      BY Zenon, <1>1, <1>2, <2>4, <3>1, <3>2
  <2> QED
    BY Zenon, <2>2, <2>3, <2>5, <2>6 DEF Begun
<1>7. CASE ConnectRead(e)
  <2>1. PICK p, cg, ok : Looked(registry, registry', p, cg, ok)
    BY Zenon, <1>7 DEF ConnectRead
  <2>2. Runs(registry, k, q, b)
    BY Zenon, <1>0, <1>3, <2>1, LookedKeeps
  <2>3. ~ExitOf(1, q)
    BY Zenon, <1>7 DEF ConnectRead, ExitOf
  <2> QED
    BY Zenon, <1>4, <2>2, <2>3
<1> QED
  BY Zenon, <1>5, <1>6, <1>7 DEF ReadStep

\* A step keeps the processes of the containers up to date.
LEMMA CurrentStep ==
  ASSUME Base, CurrentInv, Base', AnyStep
  PROVE  CurrentInv'
<1>0. RegOK(registry) /\ born \in [Pids -> 0..MaxForks]
  BY Zenon DEF Base, TrackTypes
<1>1. scenario' = scenario
  BY Zenon DEF AnyStep, StartStep, ExitStep, ConnectStep, TaskStep, ReadStep, LoseStep, GcStep, Still
<1>2. SUFFICES ASSUME scenario \subseteq {"wrap", "setup", "move", "quiet"}
               PROVE  Orderly' /\ EntriesCurrent'
  BY Zenon, <1>1 DEF CurrentInv
<1>3. Orderly /\ EntriesCurrent
  BY Zenon, <1>2 DEF CurrentInv
<1>4. "reorder" \notin scenario /\ "loss" \notin scenario
  <2>1. "reorder" \notin {"wrap", "setup", "move", "quiet"} /\ "loss" \notin {"wrap", "setup", "move", "quiet"}
    OBVIOUS
  <2> QED
    BY Zenon, <1>2, <2>1
<1>5. ASSUME NEW p \in Pids, NEW cg \in Cgroups, StartStep(p, cg)
      PROVE  Orderly' /\ EntriesCurrent'
  <2>1. /\ ~Alive(p) /\ (\A q : Alive(q)' <=> Alive(q) \/ q = p) /\ Reports("start", p, FALSE, forks')
        /\ born' = [born EXCEPT ![p] = forks'] /\ registry' = registry
    BY Zenon, <1>5 DEF StartStep
  <2>2. Alive(p)' /\ \A q : Alive(q) => Alive(q)'
    BY Zenon, <2>1
  <2>3. Orderly'
    BY Zenon, <1>3, <2>1, <2>2, OrderlyReport
  <2>4. \A q : Exiting(q) => Exiting(q)'
    BY Zenon, <2>1, ExitingReport
  <2>5. ASSUME NEW k, NEW q, NEW b, Runs(registry', k, q, b)
        PROVE  Exiting(q)' \/ (Alive(q)' /\ b = born'[q])
    <3>1. Runs(registry, k, q, b)
      BY Zenon, <2>1, <2>5
    <3>2. q \in Pids
      BY Zenon, <1>0, <3>1, RunsPid
    <3>3. CASE Exiting(q)
      BY Zenon, <2>4, <3>3
    <3>4. CASE Alive(q) /\ b = born[q]
      <4>1. q # p
        BY Zenon, <2>1, <3>4
      <4>2. born'[q] = born[q]
        BY Zenon, <1>0, <2>1, <3>2, <4>1
      <4> QED
        BY Zenon, <2>2, <3>4, <4>2
    <3> QED
      BY Zenon, <1>3, <3>1, <3>3, <3>4 DEF EntriesCurrent
  <2> QED
    BY Zenon, <2>3, <2>5 DEF EntriesCurrent
<1>6. ASSUME NEW p \in Pids, ExitStep(p)
      PROVE  Orderly' /\ EntriesCurrent'
  <2>1. /\ (\A q : Alive(q)' <=> Alive(q) /\ q # p) /\ Reports("exit", p, p \in oom_info, born[p])
        /\ born' = born /\ registry' = registry
    BY Zenon, <1>6 DEF ExitStep
  <2>2. Orderly'
    BY Zenon, <1>3, <2>1, OrderlyReport
  <2>3. (\A q : Exiting(q) => Exiting(q)') /\ Exiting(p)'
    BY Zenon, <2>1, ExitingReport
  <2> QED
    BY Zenon, <1>3, <2>1, <2>2, <2>3 DEF EntriesCurrent
<1>7. ASSUME NEW p \in Pids, ConnectStep(p)
      PROVE  Orderly' /\ EntriesCurrent'
  <2>1. /\ Alive(p)' /\ (\A q : Alive(q)' <=> Alive(q)) /\ Reports("connect", p, FALSE, born[p])
        /\ born' = born /\ registry' = registry
    BY Zenon, <1>7 DEF ConnectStep
  <2>2. Orderly'
    BY Zenon, <1>3, <2>1, OrderlyReport
  <2>3. \A q : Exiting(q) => Exiting(q)'
    BY Zenon, <2>1, ExitingReport
  <2> QED
    BY Zenon, <1>3, <2>1, <2>2, <2>3 DEF EntriesCurrent
<1>8. ASSUME \A q : Alive(q)' <=> Alive(q), events' = events, born' = born,
             \A k, q, b : Runs(registry', k, q, b) => Runs(registry, k, q, b)
      PROVE  Orderly' /\ EntriesCurrent'
  <2>1. Orderly'
    BY Zenon, <1>3, <1>8 DEF Orderly, ExitOf, Alive
  <2>2. \A q : Exiting(q)' <=> Exiting(q)
    BY Zenon, <1>8 DEF Exiting, ExitOf
  <2> QED
    BY Zenon, <1>3, <1>8, <2>1, <2>2 DEF EntriesCurrent
<1>9. CASE TaskStep
  BY Zenon, <1>8, <1>9 DEF TaskStep
<1>10. ASSUME NEW i \in DOMAIN events, ReadStep(i)
       PROVE  Orderly' /\ EntriesCurrent'
  <2>1. i = 1 /\ ReadStep(1) /\ 1 \in DOMAIN events /\ events' = Without(events, 1)
    BY Zenon, <1>4, <1>10 DEF ReadStep
  <2>2. PICK f : Shifted(events, events', f)
    BY Zenon, <2>1, FirstRead
  <2>3. \A q : Alive(q)' <=> Alive(q)
    BY Zenon, <2>1 DEF ReadStep, Still
  <2>4. Orderly'
    BY Zenon, <1>3, <2>2, <2>3, OrderlyRead
  <2>5. EntriesCurrent'
    BY Zenon, <1>3, <2>1, <2>2, EntriesRead
  <2> QED
    BY Zenon, <2>4, <2>5
<1>11. ASSUME NEW i \in DOMAIN events, LoseStep(i)
       PROVE  Orderly' /\ EntriesCurrent'
  BY Zenon, <1>4, <1>11 DEF LoseStep
<1>12. CASE GcStep
  <2>1. Collected(registry, registry', [p \in Pids |-> ReadCgroup(p)])
    BY Zenon, <1>12 DEF GcStep
  <2>2. \A k, q, b : Runs(registry', k, q, b) => Runs(registry, k, q, b)
    BY Zenon, <1>0, <2>1, CollectedKeeps
  <2> QED
    BY Zenon, <1>8, <1>12, <2>2 DEF GcStep, Still
<1> QED
  BY Zenon, <1>5, <1>6, <1>7, <1>9, <1>10, <1>11, <1>12 DEF AnyStep

-----------------------------------------------------------------------------
(* OomKillsReal                                                            *)

\* The exit of a process is the last event with its id, until the exit is read.
ExitsLast ==
  \A i \in DOMAIN events : events[i].type = "exit" =>
    ~Alive(events[i].pid) /\ \A j \in DOMAIN events : events[j].pid = events[i].pid => ~(i < j)

\* A process is bound to the container of its cgroup until its exit is read.
BoundOwn ==
  \A p \in DOMAIN registry.containersByPid :
    registry.containersByPid[p] = IdOf[cgroupOf[p]] /\ (Alive(p) \/ Exiting(p))

\* The processes of a container that the OOM killer has picked and whose exit has
\* not been read
Marked(p) == p \in oom_info \/ \E i \in DOMAIN events : ExitOf(i, p) /\ events[i].oom
\* The marked processes of a container
Pending(id) == {p \in Pids : IdOf[cgroupOf[p]] = id /\ Marked(p)}

\* They are among the kills that were not counted yet.
KillsCovered == \A id \in ContainerIds : Kills(registry, id) + Cardinality(Pending(id)) <= oomed[id]

\* These hold while an id comes up again after its events, and processes stay where they are.
OomInv == scenario \subseteq {"setup", "quiet"} => ExitsLast /\ BoundOwn /\ KillsCovered

\* The exit of a live process comes last.
LEMMA ExitsLastReport ==
  ASSUME ExitsLast, NEW type, NEW p, NEW oom, NEW number, Reports(type, p, oom, number),
         type = "exit" => ~Alive(p)',
         \A i \in DOMAIN events : events[i].type = "exit" => events[i].pid # p,
         \A q : Alive(q)' => Alive(q) \/ q = p
  PROVE  ExitsLast'
<1>1. PICK e, n : Appended(events, events', e, n) /\ e.type = type /\ e.pid = p
  BY Zenon DEF Reports
<1>2. /\ DOMAIN events' = DOMAIN events \cup {n} /\ events'[n] = e /\ ~(n < n)
      /\ \A i \in DOMAIN events : events'[i] = events[i] /\ ~(n < i)
  BY Zenon, <1>1 DEF Appended
<1>3. SUFFICES ASSUME NEW i \in DOMAIN events', events'[i].type = "exit"
               PROVE  /\ Leader(events'[i].pid) \notin threads'
                      /\ \A j \in DOMAIN events' : events'[j].pid = events'[i].pid => ~(i < j)
  BY Zenon DEF ExitsLast, Alive
<1>4. CASE i = n
  BY Zenon, <1>1, <1>2, <1>3, <1>4 DEF Alive
<1>5. CASE i \in DOMAIN events
  <2>1. events'[i] = events[i] /\ events[i].type = "exit" /\ events[i].pid # p
    BY Zenon, <1>2, <1>3, <1>5
  <2>2. ~Alive(events[i].pid) /\ \A j \in DOMAIN events : events[j].pid = events[i].pid => ~(i < j)
    BY Zenon, <1>5, <2>1 DEF ExitsLast
  <2>3. Leader(events[i].pid) \notin threads'
    BY Zenon, <2>1, <2>2 DEF Alive
  <2> QED
    BY Zenon, <1>1, <1>2, <2>1, <2>2, <2>3
<1> QED
  BY Zenon, <1>2, <1>3, <1>4, <1>5

\* Taking an event from the buffer keeps exits last, ...
LEMMA ExitsLastRead ==
  ASSUME ExitsLast, NEW f, Shifted(events, events', f), \A q : Alive(q)' <=> Alive(q)
  PROVE  ExitsLast'
<1>1. SUFFICES ASSUME NEW i \in DOMAIN events', events'[i].type = "exit"
               PROVE  /\ Leader(events'[i].pid) \notin threads'
                      /\ \A j \in DOMAIN events' : events'[j].pid = events'[i].pid => ~(i < j)
  BY Zenon DEF ExitsLast, Alive
<1>2. f[i] \in DOMAIN events /\ events'[i] = events[f[i]]
  BY Zenon DEF Shifted
<1>3. /\ ~Alive(events[f[i]].pid)
      /\ \A j \in DOMAIN events : events[j].pid = events[f[i]].pid => ~(f[i] < j)
  BY Zenon, <1>1, <1>2 DEF ExitsLast
<1>4. Leader(events'[i].pid) \notin threads'
  BY Zenon, <1>2, <1>3 DEF Alive
<1>5. ASSUME NEW j \in DOMAIN events', events'[j].pid = events'[i].pid PROVE ~(i < j)
  <2>1. f[j] \in DOMAIN events /\ events'[j] = events[f[j]] /\ (i < j <=> f[i] < f[j])
    BY Zenon DEF Shifted
  <2> QED
    BY Zenon, <1>2, <1>3, <1>5, <2>1
<1> QED
  BY Zenon, <1>4, <1>5

\* Who is marked after an event was reported, or read
LEMMA MarkedReport ==
  ASSUME NEW type, NEW p, NEW oom, NEW number, Reports(type, p, oom, number), oom_info' \subseteq oom_info,
         type = "exit" /\ oom => Marked(p)
  PROVE  \A q : Marked(q)' => Marked(q)
<1>1. PICK e, n : Appended(events, events', e, n) /\ e.type = type /\ e.pid = p /\ e.oom = oom
  BY Zenon DEF Reports
<1>2. /\ DOMAIN events' = DOMAIN events \cup {n} /\ events'[n] = e
      /\ \A i \in DOMAIN events : events'[i] = events[i]
  BY Zenon, <1>1 DEF Appended
<1> SUFFICES ASSUME NEW q, Marked(q)' PROVE Marked(q)
  BY Zenon
<1>3. CASE q \in oom_info'
  BY Zenon, <1>3 DEF Marked
<1>4. ASSUME NEW i \in DOMAIN events', events'[i].pid = q, events'[i].type = "exit", events'[i].oom
      PROVE  Marked(q)
  <2>1. CASE i = n
    BY Zenon, <1>1, <1>2, <1>4, <2>1
  <2>2. CASE i \in DOMAIN events
    BY Zenon, <1>2, <1>4, <2>2 DEF Marked, ExitOf
  <2> QED
    BY Zenon, <1>2, <2>1, <2>2
<1> QED
  BY Zenon, <1>3, <1>4 DEF Marked, ExitOf

\* ... and marks nobody.
LEMMA MarkedRead ==
  ASSUME NEW f, Shifted(events, events', f), oom_info' = oom_info
  PROVE  \A q : Marked(q)' => Marked(q)
<1> SUFFICES ASSUME NEW q, Marked(q)' PROVE Marked(q)
  BY Zenon
<1>1. CASE q \in oom_info'
  BY Zenon, <1>1 DEF Marked
<1>2. ASSUME NEW i \in DOMAIN events', events'[i].pid = q, events'[i].type = "exit", events'[i].oom
      PROVE  Marked(q)
  <2>1. f[i] \in DOMAIN events /\ events'[i] = events[f[i]]
    BY Zenon DEF Shifted
  <2> QED
    BY Zenon, <1>2, <2>1 DEF Marked, ExitOf
<1> QED
  BY Zenon, <1>1, <1>2 DEF Marked, ExitOf

\* The processes that are marked are finitely many; the kills are numbers.
LEMMA PendingFinite ==
  ASSUME NEW id
  PROVE  IsFiniteSet(Pending(id)) /\ Cardinality(Pending(id)) \in Nat
<1>1. IsFiniteSet(Pids) /\ Pending(id) \subseteq Pids
  BY Zenon, TrackingAssumption DEF Pending
<1>2. IsFiniteSet(Pending(id))
  BY Zenon, <1>1, FS_Subset
<1> QED
  BY Zenon, <1>2, FS_CardinalityType

\* The OOM kills of a container are a number, also of one that is not known.
LEMMA KillsType ==
  ASSUME NEW r, RegOK(r), NEW id
  PROVE  Kills(r, id) \in Nat
<1>1. CASE id \in DOMAIN r.containersById
  <2>1. r.containersById[id] \in Container
    BY Zenon, <1>1 DEF RegOK, Consistent, IsMap
  <2>2. r.containersById[id].oomKills \in Nat
    BY Zenon, <2>1 DEF Container
  <2> QED
    BY Zenon, <1>1, <2>2 DEF Kills
<1>2. CASE id \notin DOMAIN r.containersById
  BY SMTT(30), <1>2 DEF Kills
<1> QED
  BY Zenon, <1>1, <1>2

\* A step that neither marks a process nor counts a kill
LEMMA CoverKept ==
  ASSUME Base, Base', KillsCovered, oomed' = oomed,
         \A q \in Pids : Marked(q)' => Marked(q) /\ cgroupOf'[q] = cgroupOf[q],
         \A k : Kills(registry', k) = Kills(registry, k) \/ Kills(registry', k) = 0
  PROVE  KillsCovered'
<1> SUFFICES ASSUME NEW id \in ContainerIds
             PROVE  Kills(registry', id) + Cardinality(Pending(id)') <= oomed'[id]
  BY Zenon DEF KillsCovered
<1>1. Pending(id)' \subseteq Pending(id)
  BY Zenon DEF Pending
<1>2. IsFiniteSet(Pending(id)) /\ Cardinality(Pending(id)) \in Nat
  BY Zenon, PendingFinite
<1>3. IsFiniteSet(Pending(id)') /\ Cardinality(Pending(id)') <= Cardinality(Pending(id))
  BY Zenon, <1>1, <1>2, FS_Subset
<1>4. Cardinality(Pending(id)') \in Nat
  BY Zenon, <1>3, FS_CardinalityType
<1>5. Kills(registry, id) \in Nat /\ Kills(registry', id) \in Nat
  BY Zenon, KillsType DEF Base
<1>6. Kills(registry, id) + Cardinality(Pending(id)) <= oomed[id] /\ oomed[id] \in Nat
  BY Zenon DEF KillsCovered, Base, TrackTypes
<1>7. Kills(registry', id) = Kills(registry, id) \/ Kills(registry', id) = 0
  BY Zenon
<1>8. PICK n : n = Cardinality(Pending(id))
  OBVIOUS
<1>9. PICK m : m = Cardinality(Pending(id)')
  OBVIOUS
<1>10. Kills(registry', id) + m <= oomed[id]
  BY SMTT(30), <1>2, <1>3, <1>4, <1>5, <1>6, <1>7, <1>8, <1>9
<1> QED
  BY Zenon, <1>9, <1>10

\* The first event is read and is an exit: a kill moves from those that are
\* pending to those that are counted.
LEMMA CoverExit ==
  ASSUME Base, Base', ExitsLast, BoundOwn, KillsCovered, 1 \in DOMAIN events, ReadStep(1),
         NEW f, Shifted(events, events', f), ExitRead(events[1])
  PROVE  KillsCovered'
<1> DEFINE e == events[1]
<1>0. /\ RegOK(registry) /\ TrackTypes /\ e.pid \in Pids /\ e.oom \in BOOLEAN
  BY Zenon, EventType DEF Base
<1>1. oomed' = oomed /\ cgroupOf' = cgroupOf /\ oom_info' = oom_info
  BY Zenon DEF ReadStep, Still
<1>2. \A q : Marked(q)' => Marked(q)
  BY Zenon, <1>1, MarkedRead
<1>3. CASE e.pid \notin DOMAIN registry.containersByPid
  <2>1. registry' = registry
    BY Zenon, <1>3 DEF ExitRead
  <2>2. \A k : Kills(registry', k) = Kills(registry, k)
    BY Zenon, <2>1
  <2> QED
    BY Zenon, <1>1, <1>2, <2>2, CoverKept
<1>4. CASE e.pid \in DOMAIN registry.containersByPid
  <2>1. PICK p \in DOMAIN registry.containersByPid : p = e.pid
    BY Zenon, <1>4
  <2>2. PICK oom : Dropped(registry, registry', p, oom) /\ oom = e.oom
    BY Zenon, <1>4, <2>1 DEF ExitRead
  <2>3. Dropped(registry, registry', p, oom)
    BY Zenon, <2>2
  <2>4. \A k : /\ oom /\ k = registry.containersByPid[p] => Kills(registry', k) = Kills(registry, k) + 1
               /\ ~oom \/ k # registry.containersByPid[p] => Kills(registry', k) = Kills(registry, k)
    BY Zenon, <1>0, <2>3, DroppedKills
  <2>5. CASE ~oom
    <3>1. \A k : Kills(registry', k) = Kills(registry, k)
      BY Zenon, <2>4, <2>5
    <3> QED
      BY Zenon, <1>1, <1>2, <3>1, CoverKept
  <2>6. CASE oom
    <3>1. registry.containersByPid[p] = IdOf[cgroupOf[p]] /\ p \in Pids
      BY Zenon, <1>0, <2>1 DEF BoundOwn
    <3>2. Marked(p) /\ e.type = "exit"
      BY Zenon, <2>1, <2>2, <2>6 DEF Marked, ExitOf, ExitRead
    <3>3. ~Alive(p) /\ \A j \in DOMAIN events : events[j].pid = p => ~(1 < j)
      BY Zenon, <2>1, <3>2 DEF ExitsLast
    <3>4. ~Marked(p)'
      <4>1. p \notin oom_info'
        BY Zenon, <1>0, <1>1, <3>3 DEF TrackTypes
      <4>2. ASSUME NEW i \in DOMAIN events' PROVE events'[i].pid # p
        <5>1. f[i] \in DOMAIN events /\ events'[i] = events[f[i]] /\ 1 < f[i]
          BY Zenon DEF Shifted
        <5> QED
          BY Zenon, <3>3, <5>1
      <4> QED
        BY Zenon, <4>1, <4>2 DEF Marked, ExitOf
    <3> SUFFICES ASSUME NEW id \in ContainerIds
                 PROVE  Kills(registry', id) + Cardinality(Pending(id)') <= oomed'[id]
      BY Zenon DEF KillsCovered
    <3>5. IsFiniteSet(Pending(id)) /\ Cardinality(Pending(id)) \in Nat
      BY Zenon, PendingFinite
    <3>6. Kills(registry, id) \in Nat
      BY Zenon, <1>0, KillsType
    <3>7. Kills(registry, id) + Cardinality(Pending(id)) <= oomed[id] /\ oomed[id] \in Nat
      BY Zenon, <1>0 DEF KillsCovered, TrackTypes
    <3>8. Pending(id)' \subseteq Pending(id) \ {p}
      BY Zenon, <1>1, <1>2, <3>4 DEF Pending
    <3>9. IsFiniteSet(Pending(id) \ {p})
      BY Zenon, <3>5, FS_RemoveElement
    <3>10. IsFiniteSet(Pending(id)') /\ Cardinality(Pending(id)') <= Cardinality(Pending(id) \ {p})
      BY Zenon, <3>8, <3>9, FS_Subset
    <3>11. Cardinality(Pending(id)') \in Nat /\ Cardinality(Pending(id) \ {p}) \in Nat
      BY Zenon, <3>9, <3>10, FS_CardinalityType
    <3>12. PICK n : n = Cardinality(Pending(id))
      OBVIOUS
    <3>13. PICK m : m = Cardinality(Pending(id)')
      OBVIOUS
    <3>14. PICK d : d = Cardinality(Pending(id) \ {p})
      OBVIOUS
    <3>15. CASE id = registry.containersByPid[p]
      <4>1. p \in Pending(id)
        BY Zenon, <3>1, <3>2, <3>15 DEF Pending
      <4>2. d = n - 1
        BY Zenon, <3>5, <3>12, <3>14, <4>1, FS_RemoveElement
      <4>3. Kills(registry', id) = Kills(registry, id) + 1
        BY Zenon, <2>4, <2>6, <3>15
      <4>4. Kills(registry', id) + m <= oomed[id]
        BY SMTT(30), <3>5, <3>6, <3>7, <3>10, <3>11, <3>12, <3>13, <3>14, <4>2, <4>3
      <4> QED
        BY Zenon, <1>1, <3>13, <4>4
    <3>16. CASE id # registry.containersByPid[p]
      <4>1. Kills(registry', id) = Kills(registry, id)
        BY Zenon, <2>4, <3>16
      <4>2. d = n \/ d = n - 1
        BY Zenon, <3>5, <3>12, <3>14, FS_RemoveElement
      <4>3. Kills(registry', id) + m <= oomed[id]
        BY SMTT(30), <3>5, <3>6, <3>7, <3>10, <3>11, <3>12, <3>13, <3>14, <4>1, <4>2
      <4> QED
        BY Zenon, <1>1, <3>13, <4>3
    <3> QED
      BY Zenon, <3>15, <3>16
  <2> QED
    BY Zenon, <1>0, <2>2, <2>5, <2>6
<1> QED
  BY Zenon, <1>3, <1>4

\* The OOM killer picks a process.
LEMMA CoverKill ==
  ASSUME Base, Base', KillsCovered, NEW p \in Pids, KillStep(p), events' = events, registry' = registry
  PROVE  KillsCovered'
<1> DEFINE own == IdOf[cgroupOf[p]]
<1>0. RegOK(registry) /\ TrackTypes /\ oomed \in [ContainerIds -> Nat] /\ cgroupOf \in [Pids -> Cgroups]
  BY Zenon DEF Base, TrackTypes
<1>1. /\ cgroupOf' = cgroupOf /\ oom_info' = oom_info \cup {p}
      /\ oomed' = IF own # None THEN [oomed EXCEPT ![own] = @ + 1] ELSE oomed
  BY Zenon DEF KillStep
<1>2. own \in ContainerIds \/ own = None
  BY Zenon, <1>0, RegistryAssumption
<1>3. \A q : Marked(q)' => Marked(q) \/ q = p
  BY Zenon, <1>1 DEF Marked, ExitOf
<1> SUFFICES ASSUME NEW id \in ContainerIds
             PROVE  Kills(registry', id) + Cardinality(Pending(id)') <= oomed'[id]
  BY Zenon DEF KillsCovered
<1>4. IsFiniteSet(Pending(id)) /\ Cardinality(Pending(id)) \in Nat
  BY Zenon, PendingFinite
<1>5. Kills(registry', id) \in Nat /\ Kills(registry', id) = Kills(registry, id)
  BY Zenon, <1>0, KillsType
<1>6. Kills(registry, id) + Cardinality(Pending(id)) <= oomed[id] /\ oomed[id] \in Nat
  BY Zenon, <1>0 DEF KillsCovered
<1>7. PICK n : n = Cardinality(Pending(id))
  OBVIOUS
<1>8. PICK m : m = Cardinality(Pending(id)')
  OBVIOUS
<1>9. CASE id = own
  <2>1. Pending(id)' \subseteq Pending(id) \cup {p}
    BY Zenon, <1>1, <1>3 DEF Pending
  <2>2. IsFiniteSet(Pending(id) \cup {p})
    BY Zenon, <1>4, FS_AddElement
  <2>3. IsFiniteSet(Pending(id)') /\ Cardinality(Pending(id)') <= Cardinality(Pending(id) \cup {p})
    BY Zenon, <2>1, <2>2, FS_Subset
  <2>4. PICK d : d = Cardinality(Pending(id) \cup {p})
    OBVIOUS
  <2>5. m \in Nat /\ m <= d /\ d \in Nat
    BY Zenon, <1>8, <2>2, <2>3, <2>4, FS_CardinalityType
  <2>6. d = n \/ d = n + 1
    BY Zenon, <1>4, <1>7, <2>4, FS_AddElement
  <2>7. oomed'[id] = oomed[id] + 1
    BY Zenon, <1>0, <1>1, <1>9, RegistryAssumption
  <2>8. Kills(registry', id) + m <= oomed'[id]
    BY SMTT(30), <1>4, <1>5, <1>6, <1>7, <2>5, <2>6, <2>7
  <2> QED
    BY Zenon, <1>8, <2>8
<1>10. CASE id # own
  <2>1. Pending(id)' \subseteq Pending(id)
    BY Zenon, <1>1, <1>3, <1>10 DEF Pending
  <2>2. IsFiniteSet(Pending(id)') /\ Cardinality(Pending(id)') <= Cardinality(Pending(id))
    BY Zenon, <1>4, <2>1, FS_Subset
  <2>3. m \in Nat /\ m <= n
    BY Zenon, <1>7, <1>8, <2>2, FS_CardinalityType
  <2>4. oomed'[id] = oomed[id]
    BY Zenon, <1>0, <1>1, <1>2, <1>10
  <2>5. Kills(registry', id) + m <= oomed'[id]
    BY SMTT(30), <1>4, <1>5, <1>6, <1>7, <2>3, <2>4
  <2> QED
    BY Zenon, <1>8, <2>5
<1> QED
  BY Zenon, <1>9, <1>10

\* The processes that are bound after the first event was read.
LEMMA BoundRead ==
  ASSUME Base, Orderly, BoundOwn, 1 \in DOMAIN events, ReadStep(1), NEW f, Shifted(events, events', f)
  PROVE  BoundOwn'
<1> DEFINE e == events[1]
<1>0. RegOK(registry) /\ IdsOf(registry) /\ TrackTypes /\ e.pid \in Pids
  BY Zenon, EventType DEF Base
<1>1. (\A q : Alive(q)' <=> Alive(q)) /\ cgroupOf' = cgroupOf
  BY Zenon DEF ReadStep, Still
<1>2. ASSUME NEW q, ~ExitOf(1, q), Alive(q) \/ Exiting(q) PROVE Alive(q)' \/ Exiting(q)'
  <2>1. CASE Alive(q)
    BY Zenon, <1>1, <2>1
  <2>2. CASE Exiting(q)
    <3>1. PICK j \in DOMAIN events : ExitOf(j, q)
      BY Zenon, <2>2 DEF Exiting
    <3>2. Exiting(q)'
      BY Zenon, <1>2, <3>1, ExitingRead
    <3> QED
      BY Zenon, <3>2
  <2> QED
    BY Zenon, <1>2, <2>1, <2>2
<1>3. SUFFICES ASSUME NEW q \in DOMAIN registry'.containersByPid
               PROVE  registry'.containersByPid[q] = IdOf[cgroupOf[q]] /\ (Alive(q)' \/ Exiting(q)')
  BY Zenon, <1>1 DEF BoundOwn
<1>4. ASSUME ~ExitOf(1, q), q \in DOMAIN registry.containersByPid,
             registry'.containersByPid[q] = registry.containersByPid[q]
      PROVE  registry'.containersByPid[q] = IdOf[cgroupOf[q]] /\ (Alive(q)' \/ Exiting(q)')
  BY Zenon, <1>2, <1>4 DEF BoundOwn
<1>5. CASE ExitRead(e)
  <2>1. CASE e.pid \in DOMAIN registry.containersByPid
    <3>1. PICK p \in DOMAIN registry.containersByPid : p = e.pid
      BY Zenon, <2>1
    <3>2. PICK oom : Dropped(registry, registry', p, oom)
      BY Zenon, <1>5, <2>1, <3>1 DEF ExitRead
    <3>3. /\ q \in DOMAIN registry.containersByPid /\ q # p
          /\ registry'.containersByPid[q] = registry.containersByPid[q]
      BY Zenon, <3>2 DEF Dropped, Delete, DeleteAll
    <3> QED
      BY Zenon, <1>4, <3>1, <3>3 DEF ExitOf
  <2>2. CASE e.pid \notin DOMAIN registry.containersByPid
    <3>1. registry' = registry
      BY Zenon, <1>5, <2>2 DEF ExitRead
    <3>2. q # e.pid /\ q \in DOMAIN registry.containersByPid
      BY Zenon, <2>2, <3>1
    <3> QED
      BY Zenon, <1>4, <3>1, <3>2 DEF ExitOf
  <2> QED
    BY Zenon, <2>1, <2>2
<1>6. ASSUME Binds(registry, registry', e.pid, ReadCgroup(e.pid)), e.type # "exit"
      PROVE  registry'.containersByPid[q] = IdOf[cgroupOf[q]] /\ (Alive(q)' \/ Exiting(q)')
  <2>1. ~ExitOf(1, q)
    BY Zenon, <1>6 DEF ExitOf
  <2>2. CASE q \in DOMAIN registry.containersByPid /\ registry'.containersByPid[q] = registry.containersByPid[q]
    BY Zenon, <1>4, <2>1, <2>2
  <2>3. CASE q = e.pid /\ ReadCgroup(e.pid) \in Cgroups /\ registry'.containersByPid[q] = IdOf[ReadCgroup(e.pid)]
    <3>1. ReadCgroup(e.pid) = cgroupOf[e.pid]
      BY Zenon, <2>3, RegistryAssumption DEF ReadCgroup
    <3>2. Alive(q) \/ Exiting(q)
      BY Zenon, <1>6, <2>3 DEF Orderly, Exiting
    <3> QED
      BY Zenon, <1>2, <2>1, <2>3, <3>1, <3>2
  <2> QED
    BY Zenon, <1>6, <2>2, <2>3 DEF Binds
<1>7. CASE StartRead(e)
  <2>1. PICK begin, ok : StartSteps(registry, registry', e.pid, ReadCgroup(e.pid), begin, ok)
    BY Zenon, <1>7 DEF StartRead
  <2>2. PICK p, cg : p = e.pid /\ cg = ReadCgroup(e.pid)
    OBVIOUS
  <2>3. StartSteps(registry, registry', p, cg, begin, ok)
    BY Zenon, <2>1, <2>2
  <2>4. Binds(registry, registry', p, cg)
    BY Zenon, <1>0, <2>3, StartKeeps
  <2>5. e.type # "exit"
    BY Zenon, <1>7 DEF StartRead
  <2> QED
    BY Zenon, <1>6, <2>2, <2>4, <2>5
<1>8. CASE ConnectRead(e)
  <2>1. PICK ok : Looked(registry, registry', e.pid, ReadCgroup(e.pid), ok)
    BY Zenon, <1>8 DEF ConnectRead
  <2>2. PICK p, cg : p = e.pid /\ cg = ReadCgroup(e.pid)
    OBVIOUS
  <2>3. Looked(registry, registry', p, cg, ok)
    BY Zenon, <2>1, <2>2
  <2>4. Binds(registry, registry', p, cg)
    BY Zenon, <1>0, <2>3, LookedKeeps
  <2>5. e.type # "exit"
    BY Zenon, <1>8 DEF ConnectRead
  <2> QED
    BY Zenon, <1>6, <2>2, <2>4, <2>5
<1> QED
  BY Zenon, <1>5, <1>7, <1>8 DEF ReadStep

\* Reading the first event keeps what is said of the kills.
LEMMA CoverRead ==
  ASSUME Base, Base', ExitsLast, BoundOwn, KillsCovered, 1 \in DOMAIN events, ReadStep(1),
         NEW f, Shifted(events, events', f)
  PROVE  KillsCovered'
<1> DEFINE e == events[1]
<1>0. RegOK(registry) /\ IdsOf(registry)
  BY Zenon DEF Base
<1>1. oomed' = oomed /\ cgroupOf' = cgroupOf /\ oom_info' = oom_info
  BY Zenon DEF ReadStep, Still
<1>2. \A q : Marked(q)' => Marked(q)
  BY Zenon, <1>1, MarkedRead
<1>3. CASE ExitRead(e)
  BY Zenon, <1>3, CoverExit
<1>4. CASE StartRead(e)
  <2>1. PICK p, cg, begin, ok : StartSteps(registry, registry', p, cg, begin, ok)
    BY Zenon, <1>4 DEF StartRead
  <2>2. \A k : Kills(registry', k) = Kills(registry, k)
    BY Zenon, <1>0, <2>1, StartKeeps
  <2> QED
    BY Zenon, <1>1, <1>2, <2>2, CoverKept
<1>5. CASE ConnectRead(e)
  <2>1. PICK p, cg, ok : Looked(registry, registry', p, cg, ok)
    BY Zenon, <1>5 DEF ConnectRead
  <2>2. \A k : Kills(registry', k) = Kills(registry, k)
    BY Zenon, <1>0, <2>1, LookedKeeps
  <2> QED
    BY Zenon, <1>1, <1>2, <2>2, CoverKept
<1> QED
  BY Zenon, <1>3, <1>4, <1>5 DEF ReadStep

\* A step keeps what is said of the kills.
LEMMA OomStep ==
  ASSUME Base, CurrentInv, OomInv, Base', AnyStep
  PROVE  OomInv'
<1>0. TrackTypes /\ RegOK(registry) /\ cgroupOf \in [Pids -> Cgroups] /\ \A p \in oom_info : Alive(p)
  BY Zenon DEF Base, TrackTypes
<1>1. scenario' = scenario
  BY Zenon DEF AnyStep, StartStep, ExitStep, ConnectStep, TaskStep, ReadStep, LoseStep, GcStep, Still
<1>2. SUFFICES ASSUME scenario \subseteq {"setup", "quiet"}
               PROVE  ExitsLast' /\ BoundOwn' /\ KillsCovered'
  BY Zenon, <1>1 DEF OomInv
<1>3. ExitsLast /\ BoundOwn /\ KillsCovered
  BY Zenon, <1>2 DEF OomInv
<1>4. Orderly
  BY Zenon, <1>2 DEF CurrentInv
<1>5. "reorder" \notin scenario /\ "loss" \notin scenario /\ "wrap" \notin scenario /\ "move" \notin scenario
  <2>1. /\ "reorder" \notin {"setup", "quiet"} /\ "loss" \notin {"setup", "quiet"}
        /\ "wrap" \notin {"setup", "quiet"} /\ "move" \notin {"setup", "quiet"}
    OBVIOUS
  <2> QED
    BY Zenon, <1>2, <2>1
<1>6. ASSUME NEW p \in Pids, NEW cg \in Cgroups, StartStep(p, cg)
      PROVE  ExitsLast' /\ BoundOwn' /\ KillsCovered'
  <2>1. /\ ~Alive(p) /\ (\A q : Alive(q)' <=> Alive(q) \/ q = p) /\ Reports("start", p, FALSE, forks')
        /\ cgroupOf' = [cgroupOf EXCEPT ![p] = cg]
        /\ oom_info' = oom_info /\ registry' = registry /\ oomed' = oomed
    BY Zenon, <1>6 DEF StartStep
  <2>2. \A i \in DOMAIN events : events[i].pid # p
    BY Zenon, <1>5, <1>6 DEF StartStep
  <2>3. "start" # "exit"
    OBVIOUS
  <2>4. ExitsLast'
    BY Zenon, <1>3, <2>1, <2>2, <2>3, ExitsLastReport
  <2>5. \A q : Marked(q)' => Marked(q)
    BY Zenon, <2>1, <2>3, MarkedReport
  <2>6. ~Marked(p) /\ ~Exiting(p)
    BY Zenon, <1>0, <2>1, <2>2 DEF Marked, Exiting, ExitOf
  <2>7. \A q \in Pids : q # p => cgroupOf'[q] = cgroupOf[q]
    BY Zenon, <1>0, <2>1
  <2>8. \A k : Kills(registry', k) = Kills(registry, k)
    BY Zenon, <2>1
  <2>9. KillsCovered'
    BY Zenon, <1>3, <2>1, <2>5, <2>6, <2>7, <2>8, CoverKept
  <2>10. \A q : Exiting(q) => Exiting(q)'
    BY Zenon, <2>1, ExitingReport
  <2>11. ASSUME NEW q \in DOMAIN registry'.containersByPid
         PROVE  registry'.containersByPid[q] = IdOf[cgroupOf'[q]] /\ (Alive(q)' \/ Exiting(q)')
    <3>1. /\ q \in DOMAIN registry.containersByPid /\ registry'.containersByPid[q] = registry.containersByPid[q]
          /\ registry.containersByPid[q] = IdOf[cgroupOf[q]] /\ (Alive(q) \/ Exiting(q))
      BY Zenon, <1>3, <2>1 DEF BoundOwn
    <3>2. q \in Pids
      BY Zenon, <1>0, <3>1, TrackingAssumption DEF RegOK, Consistent, IsMap
    <3>3. q # p
      BY Zenon, <2>1, <2>6, <3>1
    <3> QED
      BY Zenon, <2>1, <2>7, <2>10, <3>1, <3>2, <3>3
  <2>12. BoundOwn'
    BY Zenon, <2>11 DEF BoundOwn
  <2> QED
    BY Zenon, <2>4, <2>9, <2>12
<1>7. ASSUME NEW p \in Pids, ExitStep(p)
      PROVE  ExitsLast' /\ BoundOwn' /\ KillsCovered'
  <2>1. /\ Alive(p) /\ (\A q : Alive(q)' <=> Alive(q) /\ q # p)
        /\ Reports("exit", p, p \in oom_info, born[p])
        /\ oom_info' = oom_info \ {p} /\ cgroupOf' = cgroupOf /\ registry' = registry /\ oomed' = oomed
    BY Zenon, <1>7 DEF ExitStep
  <2>2. \A i \in DOMAIN events : events[i].type = "exit" => events[i].pid # p
    BY Zenon, <1>3, <2>1 DEF ExitsLast
  <2>3. ExitsLast'
    BY Zenon, <1>3, <2>1, <2>2, ExitsLastReport
  <2>4. p \in oom_info => Marked(p)
    BY Zenon DEF Marked
  <2>5. \A q : Marked(q)' => Marked(q)
    BY Zenon, <2>1, <2>4, MarkedReport
  <2>6. \A k : Kills(registry', k) = Kills(registry, k)
    BY Zenon, <2>1
  <2>7. KillsCovered'
    BY Zenon, <1>3, <2>1, <2>5, <2>6, CoverKept
  <2>8. (\A q : Exiting(q) => Exiting(q)') /\ Exiting(p)'
    BY Zenon, <2>1, ExitingReport
  <2>9. BoundOwn'
    BY Zenon, <1>3, <2>1, <2>8 DEF BoundOwn
  <2> QED
    BY Zenon, <2>3, <2>7, <2>9
<1>8. ASSUME NEW p \in Pids, ConnectStep(p)
      PROVE  ExitsLast' /\ BoundOwn' /\ KillsCovered'
  <2>1. /\ Alive(p) /\ (\A q : Alive(q)' <=> Alive(q)) /\ Reports("connect", p, FALSE, born[p])
        /\ oom_info' = oom_info /\ cgroupOf' = cgroupOf /\ registry' = registry /\ oomed' = oomed
    BY Zenon, <1>8 DEF ConnectStep
  <2>2. "connect" # "exit" /\ \A i \in DOMAIN events : events[i].type = "exit" => events[i].pid # p
    BY Zenon, <1>3, <2>1 DEF ExitsLast
  <2>3. ExitsLast'
    BY Zenon, <1>3, <2>1, <2>2, ExitsLastReport
  <2>4. \A q : Marked(q)' => Marked(q)
    BY Zenon, <2>1, <2>2, MarkedReport
  <2>5. \A k : Kills(registry', k) = Kills(registry, k)
    BY Zenon, <2>1
  <2>6. KillsCovered'
    BY Zenon, <1>3, <2>1, <2>4, <2>5, CoverKept
  <2>7. \A q : Exiting(q) => Exiting(q)'
    BY Zenon, <2>1, ExitingReport
  <2>8. BoundOwn'
    BY Zenon, <1>3, <2>1, <2>7 DEF BoundOwn
  <2> QED
    BY Zenon, <2>3, <2>6, <2>8
<1>9. ASSUME \A q : Alive(q)' <=> Alive(q), events' = events, cgroupOf' = cgroupOf,
             \A q \in DOMAIN registry'.containersByPid :
               /\ q \in DOMAIN registry.containersByPid
               /\ registry'.containersByPid[q] = registry.containersByPid[q]
      PROVE  ExitsLast' /\ BoundOwn'
  <2>1. ExitsLast'
    BY Zenon, <1>3, <1>9 DEF ExitsLast, Alive
  <2>2. \A q : Exiting(q)' <=> Exiting(q)
    BY Zenon, <1>9 DEF Exiting, ExitOf
  <2> QED
    BY Zenon, <1>3, <1>9, <2>1, <2>2 DEF BoundOwn
<1>10. CASE TaskStep
  <2>1. (\A q : Alive(q)' <=> Alive(q)) /\ events' = events /\ registry' = registry
    BY Zenon, <1>10 DEF TaskStep
  <2>2. ASSUME NEW p \in Pids, KillStep(p) PROVE cgroupOf' = cgroupOf /\ KillsCovered'
    <3>1. cgroupOf' = cgroupOf
      BY Zenon, <2>2 DEF KillStep
    <3>2. KillsCovered'
      BY Zenon, <1>3, <2>1, <2>2, CoverKill
    <3> QED
      BY Zenon, <3>1, <3>2
  <2>3. ASSUME UNCHANGED <<oom_info, cgroupOf, oomed>> PROVE cgroupOf' = cgroupOf /\ KillsCovered'
    <3>1. \A q : Marked(q)' => Marked(q)
      BY Zenon, <2>1, <2>3 DEF Marked, ExitOf
    <3>2. \A k : Kills(registry', k) = Kills(registry, k)
      BY Zenon, <2>1
    <3>3. KillsCovered'
      BY Zenon, <1>3, <2>3, <3>1, <3>2, CoverKept
    <3> QED
      BY Zenon, <2>3, <3>3
  <2>4. cgroupOf' = cgroupOf /\ KillsCovered'
    BY Zenon, <1>5, <1>10, <2>2, <2>3 DEF TaskStep, MoveStep
  <2>5. ExitsLast' /\ BoundOwn'
    BY Zenon, <1>9, <2>1, <2>4
  <2> QED
    BY Zenon, <2>4, <2>5
<1>11. ASSUME NEW i \in DOMAIN events, ReadStep(i)
       PROVE  ExitsLast' /\ BoundOwn' /\ KillsCovered'
  <2>1. i = 1 /\ ReadStep(1) /\ 1 \in DOMAIN events /\ events' = Without(events, 1)
    BY Zenon, <1>5, <1>11 DEF ReadStep
  <2>2. PICK f : Shifted(events, events', f)
    BY Zenon, <2>1, FirstRead
  <2>3. \A q : Alive(q)' <=> Alive(q)
    BY Zenon, <2>1 DEF ReadStep, Still
  <2>4. ExitsLast'
    BY Zenon, <1>3, <2>2, <2>3, ExitsLastRead
  <2>5. BoundOwn'
    BY Zenon, <1>3, <1>4, <2>1, <2>2, BoundRead
  <2>6. KillsCovered'
    BY Zenon, <1>3, <2>1, <2>2, CoverRead
  <2> QED
    BY Zenon, <2>4, <2>5, <2>6
<1>12. ASSUME NEW i \in DOMAIN events, LoseStep(i)
       PROVE  ExitsLast' /\ BoundOwn' /\ KillsCovered'
  BY Zenon, <1>5, <1>12 DEF LoseStep
<1>13. CASE GcStep
  <2>1. /\ (\A q : Alive(q)' <=> Alive(q)) /\ events' = events
        /\ cgroupOf' = cgroupOf /\ oomed' = oomed /\ oom_info' = oom_info
    BY Zenon, <1>13 DEF GcStep, Still
  <2>2. PICK found : Collected(registry, registry', found)
    BY Zenon, <1>13 DEF GcStep
  <2>3. /\ \A p \in DOMAIN registry'.containersByPid :
             /\ p \in DOMAIN registry.containersByPid
             /\ registry'.containersByPid[p] = registry.containersByPid[p]
        /\ \A k : Kills(registry', k) = Kills(registry, k) \/ Kills(registry', k) = 0
    BY Zenon, <1>0, <2>2, CollectedKeeps
  <2>4. \A q : Marked(q)' => Marked(q)
    BY Zenon, <2>1 DEF Marked, ExitOf
  <2>5. KillsCovered'
    BY Zenon, <1>3, <2>1, <2>3, <2>4, CoverKept
  <2>6. ExitsLast' /\ BoundOwn'
    BY Zenon, <1>9, <2>1, <2>3
  <2> QED
    BY Zenon, <2>5, <2>6
<1> QED
  BY Zenon, <1>6, <1>7, <1>8, <1>10, <1>11, <1>12, <1>13 DEF AnyStep

-----------------------------------------------------------------------------
(* ConnectsCounted                                                         *)

\* The start of the process that has the id now
StartOf(i, p) == events[i].pid = p /\ events[i].type = "start" /\ events[i].born = born[p]
\* A process runs and its start was read.
Reported(p) == Alive(p) /\ \A i \in DOMAIN events : ~StartOf(i, p)

\* No event of a process comes before its start, ...
StartsFirst ==
  \A i, j \in DOMAIN events :
    j < i /\ events[j].pid = events[i].pid /\ events[i].type = "start" => events[j].born # events[i].born

\* ... and what comes after it is about the process until that exits.
ConnectsLast ==
  \A p \in Pids : Alive(p) => \A i, j \in DOMAIN events :
    StartOf(i, p) /\ i < j /\ events[j].pid = p => events[j].type = "connect"

\* Once its start was read, a process is known to the container of its cgroup.
ReportedSettled ==
  \A p \in Pids : Reported(p) =>
    /\ SettledIn(registry, p, cgroupOf[p])
    /\ \A i \in DOMAIN events : events[i].pid = p => events[i].type = "connect"

\* What the events and the registry say of the processes that run
Reporting == StartsFirst /\ ConnectsLast /\ ReportedSettled

\* It holds while set-ups succeed and events come all, in their order, each cgroup having a
\* container of its own; and then no connection is missed.
ConnectInv ==
  OwnIds /\ scenario \subseteq {"wrap", "quiet"} =>
    Reporting /\ registry.containersByPidIgnored = {} /\ missed = {}

\* A process starts, with a number that no event has.
LEMMA ReportingStart ==
  ASSUME Base, Reporting, NEW p \in Pids, NEW cg, StartStep(p, cg)
  PROVE  Reporting'
<1>0. /\ born \in [Pids -> 0..MaxForks] /\ forks \in 0..MaxForks /\ cgroupOf \in [Pids -> Cgroups]
      /\ EventsTyped /\ StartsFirst /\ ConnectsLast /\ ReportedSettled
  BY Zenon DEF Base, TrackTypes, Reporting
<1>1. /\ ~Alive(p) /\ (\A q : Alive(q)' <=> Alive(q) \/ q = p) /\ Reports("start", p, FALSE, forks')
      /\ forks' = forks + 1 /\ born' = [born EXCEPT ![p] = forks']
      /\ cgroupOf' = [cgroupOf EXCEPT ![p] = cg] /\ registry' = registry
  BY Zenon DEF StartStep
<1>2. PICK e, n : Appended(events, events', e, n) /\ e.type = "start" /\ e.pid = p /\ e.born = forks'
  BY Zenon, <1>1 DEF Reports
<1>3. /\ DOMAIN events' = DOMAIN events \cup {n} /\ events'[n] = e /\ ~(n < n)
      /\ \A i \in DOMAIN events : events'[i] = events[i] /\ ~(n < i)
  BY Zenon, <1>2 DEF Appended
<1>4. \A i \in DOMAIN events : events[i].born # forks'
  <2> SUFFICES ASSUME NEW i \in DOMAIN events PROVE events[i].born # forks'
    BY Zenon
  <2>1. events[i].born \in 0..MaxForks /\ events[i].born <= forks
    BY Zenon, <1>0, EventType
  <2> QED
    BY SMTT(30), <1>0, <1>1, <2>1
<1>5. /\ born'[p] = forks' /\ \A q \in Pids : q # p => born'[q] = born[q] /\ cgroupOf'[q] = cgroupOf[q]
  BY Zenon, <1>0, <1>1
<1>6. StartsFirst'
  <2> SUFFICES ASSUME NEW i \in DOMAIN events', NEW j \in DOMAIN events',
                      j < i, events'[j].pid = events'[i].pid, events'[i].type = "start"
               PROVE  events'[j].born # events'[i].born
    BY Zenon DEF StartsFirst
  <2>1. j \in DOMAIN events
    BY Zenon, <1>3
  <2>2. CASE i = n
    BY Zenon, <1>2, <1>3, <1>4, <2>1, <2>2
  <2>3. CASE i \in DOMAIN events
    BY Zenon, <1>0, <1>3, <2>1, <2>3 DEF StartsFirst
  <2> QED
    BY Zenon, <1>3, <2>2, <2>3
<1>7. ASSUME NEW q \in Pids, q # p, NEW i \in DOMAIN events, StartOf(i, q) PROVE StartOf(i, q)'
  BY Zenon, <1>3, <1>5, <1>7 DEF StartOf
<1>8. ASSUME NEW q \in Pids, q # p, NEW i \in DOMAIN events', StartOf(i, q)'
      PROVE  i \in DOMAIN events /\ StartOf(i, q)
  BY Zenon, <1>2, <1>3, <1>5, <1>8 DEF StartOf
<1>9. StartOf(n, p)' /\ n \in DOMAIN events'
  BY Zenon, <1>2, <1>3, <1>5 DEF StartOf
<1>10. ConnectsLast'
  <2> SUFFICES ASSUME NEW q \in Pids, Alive(q)', NEW i \in DOMAIN events', NEW j \in DOMAIN events',
                      StartOf(i, q)', i < j, events'[j].pid = q
               PROVE  events'[j].type = "connect"
    BY Zenon DEF ConnectsLast
  <2>1. CASE q = p
    <3>1. i = n
      BY Zenon, <1>3, <1>4, <1>5, <2>1 DEF StartOf
    <3> QED
      BY Zenon, <1>3, <3>1
  <2>2. CASE q # p
    <3>1. i \in DOMAIN events /\ StartOf(i, q) /\ Alive(q)
      BY Zenon, <1>1, <1>8, <2>2
    <3>2. j \in DOMAIN events /\ events'[j] = events[j]
      BY Zenon, <1>2, <1>3, <2>2
    <3> QED
      BY Zenon, <1>0, <3>1, <3>2 DEF ConnectsLast
  <2> QED
    BY Zenon, <2>1, <2>2
<1>11. ReportedSettled'
  <2> SUFFICES ASSUME NEW q \in Pids, Reported(q)'
               PROVE  /\ SettledIn(registry', q, cgroupOf'[q])
                      /\ \A i \in DOMAIN events' : events'[i].pid = q => events'[i].type = "connect"
    BY Zenon DEF ReportedSettled
  <2>1. q # p
    BY Zenon, <1>9 DEF Reported
  <2>2. Reported(q)
    BY Zenon, <1>1, <1>3, <1>7, <2>1 DEF Reported
  <2>3. /\ SettledIn(registry, q, cgroupOf[q])
        /\ \A i \in DOMAIN events : events[i].pid = q => events[i].type = "connect"
    BY Zenon, <1>0, <2>2 DEF ReportedSettled
  <2>4. SettledIn(registry', q, cgroupOf'[q])
    BY Zenon, <1>1, <1>5, <2>1, <2>3
  <2>5. \A i \in DOMAIN events' : events'[i].pid = q => events'[i].type = "connect"
    BY Zenon, <1>2, <1>3, <2>1, <2>3
  <2> QED
    BY Zenon, <2>4, <2>5
<1> QED
  BY Zenon, <1>6, <1>10, <1>11 DEF Reporting

\* A process connects or exits.
LEMMA ReportingMore ==
  ASSUME Reporting, NEW p \in Pids, NEW type, NEW oom, NEW number, Reports(type, p, oom, number), type # "start",
         \A q : Alive(q)' => Alive(q) /\ (q # p \/ type = "connect"),
         UNCHANGED <<born, cgroupOf, registry>>
  PROVE  Reporting'
<1>0. StartsFirst /\ ConnectsLast /\ ReportedSettled
  BY Zenon DEF Reporting
<1>2. PICK e, n : Appended(events, events', e, n) /\ e.type = type /\ e.pid = p
  BY Zenon DEF Reports
<1>3. /\ DOMAIN events' = DOMAIN events \cup {n} /\ events'[n] = e /\ ~(n < n)
      /\ \A i \in DOMAIN events : events'[i] = events[i] /\ ~(n < i)
  BY Zenon, <1>2 DEF Appended
<1>6. StartsFirst'
  <2> SUFFICES ASSUME NEW i \in DOMAIN events', NEW j \in DOMAIN events',
                      j < i, events'[j].pid = events'[i].pid, events'[i].type = "start"
               PROVE  events'[j].born # events'[i].born
    BY Zenon DEF StartsFirst
  <2>1. j \in DOMAIN events /\ i \in DOMAIN events
    BY Zenon, <1>2, <1>3
  <2> QED
    BY Zenon, <1>0, <1>3, <2>1 DEF StartsFirst
<1>7. ASSUME NEW q, NEW i \in DOMAIN events, StartOf(i, q) PROVE StartOf(i, q)'
  BY Zenon, <1>3, <1>7 DEF StartOf
<1>8. ASSUME NEW q, NEW i \in DOMAIN events', StartOf(i, q)' PROVE i \in DOMAIN events /\ StartOf(i, q)
  BY Zenon, <1>2, <1>3, <1>8 DEF StartOf
<1>9. ASSUME NEW q, Alive(q)', NEW j \in DOMAIN events', events'[j].pid = q
      PROVE  events'[j].type = "connect" \/ (j \in DOMAIN events /\ events'[j] = events[j])
  BY Zenon, <1>2, <1>3, <1>9
<1>10. ConnectsLast'
  <2> SUFFICES ASSUME NEW q \in Pids, Alive(q)', NEW i \in DOMAIN events', NEW j \in DOMAIN events',
                      StartOf(i, q)', i < j, events'[j].pid = q
               PROVE  events'[j].type = "connect"
    BY Zenon DEF ConnectsLast
  <2>1. i \in DOMAIN events /\ StartOf(i, q) /\ Alive(q)
    BY Zenon, <1>8
  <2>2. CASE j \in DOMAIN events /\ events'[j] = events[j]
    BY Zenon, <1>0, <2>1, <2>2 DEF ConnectsLast
  <2> QED
    BY Zenon, <1>9, <2>2
<1>11. ReportedSettled'
  <2> SUFFICES ASSUME NEW q \in Pids, Reported(q)'
               PROVE  /\ SettledIn(registry', q, cgroupOf'[q])
                      /\ \A i \in DOMAIN events' : events'[i].pid = q => events'[i].type = "connect"
    BY Zenon DEF ReportedSettled
  <2>1. Alive(q)'
    BY Zenon DEF Reported
  <2>2. Reported(q)
    BY Zenon, <1>3, <1>7, <2>1 DEF Reported
  <2>3. /\ SettledIn(registry, q, cgroupOf[q])
        /\ \A i \in DOMAIN events : events[i].pid = q => events[i].type = "connect"
    BY Zenon, <1>0, <2>2 DEF ReportedSettled
  <2>4. SettledIn(registry', q, cgroupOf'[q])
    BY Zenon, <2>3
  <2>5. \A i \in DOMAIN events' : events'[i].pid = q => events'[i].type = "connect"
    BY Zenon, <1>9, <2>1, <2>3
  <2> QED
    BY Zenon, <2>4, <2>5
<1> QED
  BY Zenon, <1>6, <1>10, <1>11 DEF Reporting

\* A live process whose start was read stays settled when the first event is read,
\* and the process whose start this is becomes so.
LEMMA SettledRead ==
  ASSUME Base, OwnIds, "setup" \notin scenario, registry.containersByPidIgnored = {},
         1 \in DOMAIN events, ReadStep(1), NEW q \in Pids, Alive(q),
         \/ /\ SettledIn(registry, q, cgroupOf[q])
            /\ events[1].pid = q => events[1].type = "connect"
         \/ events[1].pid = q /\ events[1].type = "start"
  PROVE  SettledIn(registry', q, cgroupOf[q])
<1> DEFINE e == events[1]
<1>0. RegOK(registry) /\ IdsOf(registry) /\ TrackTypes /\ e.pid \in Pids
  BY Zenon, EventType DEF Base
<1>1. CASE ExitRead(e)
  <2>1. q # e.pid /\ SettledIn(registry, q, cgroupOf[q])
    BY Zenon, <1>1 DEF ExitRead
  <2>2. CASE e.pid \in DOMAIN registry.containersByPid
    <3>1. PICK p \in DOMAIN registry.containersByPid : p = e.pid
      BY Zenon, <2>2
    <3>2. PICK oom : Dropped(registry, registry', p, oom)
      BY Zenon, <1>1, <2>2, <3>1 DEF ExitRead
    <3>3. \A p1, d1 : SettledIn(registry, p1, d1) /\ p1 # p => SettledIn(registry', p1, d1)
      BY Zenon, <1>0, <3>2, DroppedKeeps
    <3> QED
      BY Zenon, <2>1, <3>1, <3>3
  <2>3. CASE e.pid \notin DOMAIN registry.containersByPid
    BY Zenon, <1>1, <2>1, <2>3 DEF ExitRead
  <2> QED
    BY Zenon, <2>2, <2>3
<1>2. CASE StartRead(e)
  <2>1. PICK begin \in TaskstatsPID(e.pid), ok \in Ok :
          StartSteps(registry, registry', e.pid, ReadCgroup(e.pid), begin, ok)
    BY Zenon, <1>2 DEF StartRead
  <2>2. PICK p, cg : p = e.pid /\ cg = ReadCgroup(e.pid)
    OBVIOUS
  <2>3. StartSteps(registry, registry', p, cg, begin, ok)
    BY Zenon, <2>1, <2>2
  <2>4. CASE q # p
    <3>1. SettledIn(registry, q, cgroupOf[q])
      BY Zenon, <2>2, <2>4
    <3>2. OwnIds => \A p1, d1 : SettledIn(registry, p1, d1) /\ p1 # p => SettledIn(registry', p1, d1)
      BY Zenon, <1>0, <2>3, StartKeeps
    <3> QED
      BY Zenon, <2>4, <3>1, <3>2
  <2>5. CASE q = p
    <3>1. cg = cgroupOf[q] /\ cg \in Cgroups /\ begin # None
      BY Zenon, <1>0, <2>1, <2>2, <2>5, AnswersType
    <3>2. ok
      BY Zenon, <2>1 DEF Ok
    <3>3. OwnIds /\ cg \in Cgroups /\ begin # None /\ ok /\ registry.containersByPidIgnored = {} =>
            SettledIn(registry', p, cg)
      BY Zenon, <1>0, <2>3, StartKeeps
    <3>4. SettledIn(registry', p, cg)
      BY Zenon, <3>1, <3>2, <3>3
    <3> QED
      BY Zenon, <2>5, <3>1, <3>4
  <2> QED
    BY Zenon, <2>4, <2>5
<1>3. CASE ConnectRead(e)
  <2>1. PICK p, cg, ok : Looked(registry, registry', p, cg, ok)
    BY Zenon, <1>3 DEF ConnectRead
  <2>2. SettledIn(registry, q, cgroupOf[q])
    BY Zenon, <1>3 DEF ConnectRead
  <2>3. OwnIds => \A p1, d1 : SettledIn(registry, p1, d1) => SettledIn(registry', p1, d1)
    BY Zenon, <1>0, <2>1, LookedKeeps
  <2> QED
    BY Zenon, <2>2, <2>3
<1> QED
  BY Zenon, <1>1, <1>2, <1>3 DEF ReadStep

\* Handling the first event of the buffer keeps this.
LEMMA ReportingRead ==
  ASSUME Base, Reporting, OwnIds, "setup" \notin scenario, registry.containersByPidIgnored = {},
         1 \in DOMAIN events, ReadStep(1), NEW f, Shifted(events, events', f)
  PROVE  Reporting'
<1>0. StartsFirst /\ ConnectsLast /\ ReportedSettled
  BY Zenon DEF Reporting
<1>1. (\A q : Alive(q)' <=> Alive(q)) /\ born' = born /\ cgroupOf' = cgroupOf
  BY Zenon DEF ReadStep, Still
<1>2. /\ \A i \in DOMAIN events' : f[i] \in DOMAIN events /\ events'[i] = events[f[i]] /\ 1 < f[i]
      /\ \A k \in DOMAIN events \ {1} : \E i \in DOMAIN events' : f[i] = k
      /\ \A i, j \in DOMAIN events' : i < j <=> f[i] < f[j]
  BY Zenon DEF Shifted
<1>3. StartsFirst'
  <2> SUFFICES ASSUME NEW i \in DOMAIN events', NEW j \in DOMAIN events',
                      j < i, events'[j].pid = events'[i].pid, events'[i].type = "start"
               PROVE  events'[j].born # events'[i].born
    BY Zenon DEF StartsFirst
  <2>1. /\ f[i] \in DOMAIN events /\ events'[i] = events[f[i]]
        /\ f[j] \in DOMAIN events /\ events'[j] = events[f[j]] /\ f[j] < f[i]
    BY Zenon, <1>2
  <2> QED
    BY Zenon, <1>0, <2>1 DEF StartsFirst
<1>4. ASSUME NEW q, NEW i \in DOMAIN events' PROVE StartOf(i, q)' <=> StartOf(f[i], q)
  BY Zenon, <1>1, <1>2 DEF StartOf
<1>5. ConnectsLast'
  <2> SUFFICES ASSUME NEW q \in Pids, Alive(q)', NEW i \in DOMAIN events', NEW j \in DOMAIN events',
                      StartOf(i, q)', i < j, events'[j].pid = q
               PROVE  events'[j].type = "connect"
    BY Zenon DEF ConnectsLast
  <2>1. /\ f[i] \in DOMAIN events /\ f[j] \in DOMAIN events /\ events'[j] = events[f[j]] /\ f[i] < f[j]
    BY Zenon, <1>2
  <2>2. StartOf(f[i], q) /\ Alive(q)
    BY Zenon, <1>1, <1>4
  <2> QED
    BY Zenon, <1>0, <2>1, <2>2 DEF ConnectsLast
<1>6. ReportedSettled'
  <2> SUFFICES ASSUME NEW q \in Pids, Reported(q)'
               PROVE  /\ SettledIn(registry', q, cgroupOf'[q])
                      /\ \A i \in DOMAIN events' : events'[i].pid = q => events'[i].type = "connect"
    BY Zenon DEF ReportedSettled
  <2>1. Alive(q) /\ \A i \in DOMAIN events' : ~StartOf(i, q)'
    BY Zenon, <1>1 DEF Reported
  <2>2. \A k \in DOMAIN events \ {1} : ~StartOf(k, q)
    BY Zenon, <1>2, <1>4, <2>1
  <2>3. CASE StartOf(1, q)
    <3>1. events[1].pid = q /\ events[1].type = "start"
      BY Zenon, <2>3 DEF StartOf
    <3>2. SettledIn(registry', q, cgroupOf[q])
      BY Zenon, <2>1, <3>1, SettledRead
    <3>3. ASSUME NEW i \in DOMAIN events', events'[i].pid = q PROVE events'[i].type = "connect"
      <4>1. f[i] \in DOMAIN events /\ events'[i] = events[f[i]] /\ 1 < f[i]
        BY Zenon, <1>2
      <4> QED
        BY Zenon, <1>0, <2>1, <2>3, <3>3, <4>1 DEF ConnectsLast
    <3> QED
      BY Zenon, <1>1, <3>2, <3>3
  <2>4. CASE ~StartOf(1, q)
    <3>1. Reported(q)
      BY Zenon, <2>1, <2>2, <2>4 DEF Reported
    <3>2. /\ SettledIn(registry, q, cgroupOf[q])
          /\ \A i \in DOMAIN events : events[i].pid = q => events[i].type = "connect"
      BY Zenon, <1>0, <3>1 DEF ReportedSettled
    <3>3. SettledIn(registry', q, cgroupOf[q])
      BY Zenon, <2>1, <3>2, SettledRead
    <3>4. ASSUME NEW i \in DOMAIN events', events'[i].pid = q PROVE events'[i].type = "connect"
      <4>1. f[i] \in DOMAIN events /\ events'[i] = events[f[i]]
        BY Zenon, <1>2
      <4> QED
        BY Zenon, <3>2, <3>4, <4>1
    <3> QED
      BY Zenon, <1>1, <3>3, <3>4
  <2> QED
    BY Zenon, <2>3, <2>4
<1> QED
  BY Zenon, <1>3, <1>5, <1>6 DEF Reporting

\* No process is ignored, and no connection goes uncounted.
LEMMA CountedRead ==
  ASSUME Base, Reporting, OwnIds, "setup" \notin scenario, registry.containersByPidIgnored = {}, missed = {},
         1 \in DOMAIN events, ReadStep(1), NEW f, Shifted(events, events', f)
  PROVE  registry'.containersByPidIgnored = {} /\ missed' = {}
<1> DEFINE e == events[1]
<1>0. RegOK(registry) /\ IdsOf(registry) /\ TrackTypes /\ e.pid \in Pids
  BY Zenon, EventType DEF Base
<1>1. ReadCgroup(e.pid) \in Cgroups \cup {None}
  BY Zenon, <1>0, AnswersType
<1>2. CASE ExitRead(e)
  <2>1. registry'.containersByPidIgnored = registry.containersByPidIgnored
    BY Zenon, <1>2 DEF ExitRead, Dropped
  <2> QED
    BY Zenon, <1>2, <2>1 DEF ExitRead
<1>3. CASE StartRead(e)
  <2>1. PICK begin, ok : StartSteps(registry, registry', e.pid, ReadCgroup(e.pid), begin, ok)
    BY Zenon, <1>3 DEF StartRead
  <2>2. PICK p, cg : p = e.pid /\ cg = ReadCgroup(e.pid)
    OBVIOUS
  <2>3. StartSteps(registry, registry', p, cg, begin, ok)
    BY Zenon, <2>1, <2>2
  <2>4. OwnIds /\ cg \in Cgroups \cup {None} /\ registry.containersByPidIgnored = {} =>
          registry'.containersByPidIgnored = {}
    BY Zenon, <1>0, <2>3, StartKeeps
  <2> QED
    BY Zenon, <1>1, <1>3, <2>2, <2>4 DEF StartRead
<1>4. CASE ConnectRead(e)
  <2>1. PICK ok : Looked(registry, registry', e.pid, ReadCgroup(e.pid), ok)
    BY Zenon, <1>4 DEF ConnectRead
  <2>2. ReadCgroup(e.pid) = None \/ IdOf[ReadCgroup(e.pid)] # None
    BY Zenon, <1>1 DEF OwnIds
  <2>3. registry'.containersByPidIgnored \subseteq {}
    BY Zenon, <2>1, <2>2 DEF Looked
  <2>4. ASSUME ~Entered(registry', e.pid), Alive(e.pid), born[e.pid] = e.born PROVE FALSE
    <3>1. \A i \in DOMAIN events : ~StartOf(i, e.pid)
      <4> SUFFICES ASSUME NEW i \in DOMAIN events, StartOf(i, e.pid) PROVE FALSE
        BY Zenon
      <4>1. e.type # "start"
        BY Zenon, <1>4 DEF ConnectRead
      <4>2. i # 1
        BY Zenon, <4>1 DEF StartOf
      <4>3. PICK k \in DOMAIN events' : f[k] = i
        BY Zenon, <4>2 DEF Shifted
      <4>4. 1 < i
        BY Zenon, <4>3 DEF Shifted
      <4> QED
        BY Zenon, <2>4, <4>4 DEF StartOf, Reporting, StartsFirst
    <3>2. SettledIn(registry, e.pid, cgroupOf[e.pid])
      BY Zenon, <1>0, <2>4, <3>1 DEF Reporting, ReportedSettled, Reported
    <3>3. e.type = "connect"
      BY Zenon, <1>4 DEF ConnectRead
    <3>4. SettledIn(registry', e.pid, cgroupOf[e.pid])
      BY Zenon, <1>0, <2>4, <3>2, <3>3, SettledRead
    <3> QED
      BY Zenon, <2>4, <3>4 DEF SettledIn
  <2>5. missed' = missed
    BY Zenon, <1>4, <2>4 DEF ConnectRead
  <2> QED
    BY Zenon, <2>3, <2>5
<1> QED
  BY Zenon, <1>2, <1>3, <1>4 DEF ReadStep

\* A step that leaves the events as they are, and the processes settled
LEMMA ReportingKept ==
  ASSUME Reporting, \A q : Alive(q)' <=> Alive(q), UNCHANGED <<events, born>>,
         \A q \in Pids : Alive(q) /\ SettledIn(registry, q, cgroupOf[q]) => SettledIn(registry', q, cgroupOf'[q])
  PROVE  Reporting'
<1>0. StartsFirst /\ ConnectsLast /\ ReportedSettled
  BY Zenon DEF Reporting
<1>1. \A i, q : StartOf(i, q)' <=> StartOf(i, q)
  BY Zenon DEF StartOf
<1>2. StartsFirst'
  BY Zenon, <1>0 DEF StartsFirst
<1>3. ConnectsLast'
  BY Zenon, <1>0, <1>1 DEF ConnectsLast
<1>4. \A q : Reported(q)' <=> Reported(q)
  BY Zenon, <1>1 DEF Reported
<1>5. \A q : Reported(q) => Alive(q)
  BY Zenon DEF Reported
<1>6. ReportedSettled'
  BY Zenon, <1>0, <1>4, <1>5 DEF ReportedSettled
<1> QED
  BY Zenon, <1>2, <1>3, <1>6 DEF Reporting

\* Every step keeps ConnectInv.
LEMMA ConnectStepOK ==
  ASSUME Base, ConnectInv, Base', AnyStep
  PROVE  ConnectInv'
<1>0. RegOK(registry) /\ RegOK(registry') /\ TrackTypes
  BY Zenon DEF Base
<1>1. scenario' = scenario
  BY Zenon DEF AnyStep, StartStep, ExitStep, ConnectStep, TaskStep, ReadStep, LoseStep, GcStep, Still
<1> DEFINE Goal == Reporting' /\ registry'.containersByPidIgnored = {} /\ missed' = {}
<1>2. SUFFICES ASSUME OwnIds, scenario \subseteq {"wrap", "quiet"} PROVE Goal
  BY Zenon, <1>1 DEF ConnectInv
<1>3. Reporting /\ registry.containersByPidIgnored = {} /\ missed = {}
  BY Zenon, <1>2 DEF ConnectInv
<1>4. /\ "reorder" \notin scenario /\ "loss" \notin scenario
      /\ "setup" \notin scenario /\ "move" \notin scenario
  <2>1. /\ "reorder" \notin {"wrap", "quiet"} /\ "loss" \notin {"wrap", "quiet"}
        /\ "setup" \notin {"wrap", "quiet"} /\ "move" \notin {"wrap", "quiet"}
    OBVIOUS
  <2> QED
    BY Zenon, <1>2, <2>1
<1>5. ASSUME NEW p \in Pids, NEW cg \in Cgroups, StartStep(p, cg) PROVE Goal
  <2>1. Reporting'
    BY Zenon, <1>3, <1>5, ReportingStart
  <2> QED
    BY Zenon, <1>3, <1>5, <2>1 DEF StartStep
<1>6. ASSUME NEW p \in Pids, ExitStep(p) PROVE Goal
  <2>1. /\ (\A q : Alive(q)' <=> Alive(q) /\ q # p) /\ Reports("exit", p, p \in oom_info, born[p])
        /\ UNCHANGED <<born, cgroupOf, registry, missed>>
    BY Zenon, <1>6 DEF ExitStep
  <2>2. "exit" # "start"
    OBVIOUS
  <2>3. Reporting'
    BY Zenon, <1>3, <2>1, <2>2, ReportingMore
  <2> QED
    BY Zenon, <1>3, <2>1, <2>3
<1>7. ASSUME NEW p \in Pids, ConnectStep(p) PROVE Goal
  <2>1. /\ (\A q : Alive(q)' <=> Alive(q)) /\ Reports("connect", p, FALSE, born[p])
        /\ UNCHANGED <<born, cgroupOf, registry, missed>>
    BY Zenon, <1>7 DEF ConnectStep
  <2>2. "connect" # "start"
    OBVIOUS
  <2>3. Reporting'
    BY Zenon, <1>3, <2>1, <2>2, ReportingMore
  <2> QED
    BY Zenon, <1>3, <2>1, <2>3
<1>8. CASE TaskStep
  <2>1. (\A q : Alive(q)' <=> Alive(q)) /\ UNCHANGED <<events, born, registry, missed>>
    BY Zenon, <1>8 DEF TaskStep
  <2>2. cgroupOf' = cgroupOf
    BY Zenon, <1>4, <1>8 DEF TaskStep, KillStep, MoveStep
  <2>3. Reporting'
    BY Zenon, <1>3, <2>1, <2>2, ReportingKept
  <2> QED
    BY Zenon, <1>3, <2>1, <2>3
<1>9. ASSUME NEW i \in DOMAIN events, ReadStep(i) PROVE Goal
  <2>1. i = 1 /\ ReadStep(1) /\ 1 \in DOMAIN events /\ events' = Without(events, 1)
    BY Zenon, <1>4, <1>9 DEF ReadStep
  <2>2. PICK f : Shifted(events, events', f)
    BY Zenon, <2>1, FirstRead
  <2>3. Reporting'
    BY Zenon, <1>2, <1>3, <1>4, <2>1, <2>2, ReportingRead
  <2>4. registry'.containersByPidIgnored = {} /\ missed' = {}
    BY Zenon, <1>2, <1>3, <1>4, <2>1, <2>2, CountedRead
  <2> QED
    BY Zenon, <2>3, <2>4
<1>10. ASSUME NEW i \in DOMAIN events, LoseStep(i) PROVE Goal
  BY Zenon, <1>4, <1>10 DEF LoseStep
<1>11. CASE GcStep
  <2>1. /\ (\A q : Alive(q)' <=> Alive(q)) /\ UNCHANGED <<events, born, cgroupOf, missed>>
    BY Zenon, <1>11 DEF GcStep, Still
  <2>2. PICK found : Collected(registry, registry', found) /\ found = [p \in Pids |-> ReadCgroup(p)]
    BY Zenon, <1>11 DEF GcStep
  <2>3. \A p : SettledIn(registry, p, found[p]) => SettledIn(registry', p, found[p])
    <3>1. Collected(registry, registry', found)
      BY Zenon, <2>2
    <3>2. \A p : RegOK(registry') /\ SettledIn(registry, p, found[p]) => SettledIn(registry', p, found[p])
      BY Zenon, <1>0, <3>1, CollectedKeeps
    <3> QED
      BY Zenon, <1>0, <3>2
  <2>4. ASSUME NEW q \in Pids, Alive(q), SettledIn(registry, q, cgroupOf[q])
        PROVE  SettledIn(registry', q, cgroupOf'[q])
    <3>1. found[q] = cgroupOf[q]
      BY Zenon, <1>0, <2>2, <2>4, AnswersType
    <3> QED
      BY Zenon, <2>1, <2>3, <2>4, <3>1
  <2>5. Reporting'
    BY Zenon, <1>3, <2>1, <2>4, ReportingKept
  <2>6. registry'.containersByPidIgnored = {}
    BY Zenon, <2>2 DEF Collected
  <2> QED
    BY Zenon, <1>3, <2>1, <2>5, <2>6
<1> QED
  BY Zenon, <1>5, <1>6, <1>7, <1>8, <1>9, <1>10, <1>11 DEF AnyStep

-----------------------------------------------------------------------------
(* The theorems about ProcessTracking                                      *)

\* The inductive invariant of processes, buffers and registry together
TrackingInv == Base /\ CurrentInv /\ OomInv /\ ConnectInv

\* It holds when the agent starts, before any process is known.
LEMMA TrackingInitOK == TrackingInit => TrackingInv
<1> SUFFICES ASSUME TrackingInit PROVE TrackingInv
  BY Zenon
<1>1. /\ threads = {} /\ zombies = {} /\ oom_info = {} /\ forks = 0 /\ born = [p \in Pids |-> 0] /\ events = <<>>
      /\ registry = EmptyRegistry /\ missed = {}
      /\ cgroupOf = [p \in Pids |-> CHOOSE cg \in Cgroups : TRUE] /\ oomed = [id \in ContainerIds |-> 0]
  BY Zenon DEF TrackingInit, ProbesInit, RegistryInit
<1>2. RegOK(registry)
  BY Zenon, RegistryInitOK DEF TrackingInit
<1>3. /\ DOMAIN registry.processes = {} /\ DOMAIN registry.containersById = {}
      /\ DOMAIN registry.containersByPid = {} /\ DOMAIN registry.containersByCgroupId = {}
      /\ registry.containersByPidIgnored = {}
  BY <1>1 DEF EmptyRegistry, EmptyMap
<1>4. DOMAIN events = {} /\ events \in Seq(TrackEvent)
  BY <1>1
<1>5. 0 \in 0..MaxForks /\ 0 <= 0 /\ 0 \in Nat
  BY ProcessAssumption
<1>6. (CHOOSE cg \in Cgroups : TRUE) \in Cgroups
  BY Zenon, TrackingAssumption
<1>7. \A p : ~Alive(p)
  BY Zenon, <1>1 DEF Alive
<1>8. TrackTypes
  <2>1. born \in [Pids -> 0..MaxForks] /\ \A p \in Pids : born[p] <= forks
    BY Zenon, <1>1, <1>5
  <2>2. cgroupOf \in [Pids -> Cgroups]
    BY Zenon, <1>1, <1>6
  <2>3. oomed \in [ContainerIds -> Nat]
    BY Zenon, <1>1, <1>5
  <2>4. forks \in 0..MaxForks
    BY Zenon, <1>1, <1>5
  <2> QED
    BY Zenon, <1>1, <1>7, <2>1, <2>2, <2>3, <2>4 DEF TrackTypes
<1>9. IdsOf(registry)
  BY Zenon, <1>3 DEF IdsOf
<1>10. Base
  BY Zenon, <1>2, <1>4, <1>8, <1>9 DEF Base, EventsTyped
<1>11. CurrentInv
  BY Zenon, <1>3, <1>4 DEF CurrentInv, Orderly, EntriesCurrent, Runs
<1>12. KillsCovered
  <2> SUFFICES ASSUME NEW id \in ContainerIds PROVE Kills(registry, id) + Cardinality(Pending(id)) <= oomed[id]
    BY Zenon DEF KillsCovered
  <2>1. Pending(id) = {}
    BY Zenon, <1>1, <1>4 DEF Pending, Marked
  <2>2. Cardinality(Pending(id)) = 0
    BY Zenon, <2>1, FS_EmptySet
  <2>3. Kills(registry, id) = 0 /\ oomed[id] = 0
    BY Zenon, <1>1, <1>3 DEF Kills
  <2> QED
    BY SMTT(30), <2>2, <2>3
<1>13. OomInv
  BY Zenon, <1>3, <1>4, <1>12 DEF OomInv, ExitsLast, BoundOwn
<1>14. Reporting
  BY Zenon, <1>4, <1>7 DEF Reporting, StartsFirst, ConnectsLast, ReportedSettled, Reported
<1> QED
  BY Zenon, <1>1, <1>3, <1>10, <1>11, <1>13, <1>14 DEF TrackingInv, ConnectInv

\* The inductive invariant of processes, events and registry, for any number of
\* processes, cgroups and containers and for every scenario.
THEOREM TrackingInvariant == TrackingSpec => []TrackingInv
<1>1. TrackingInv /\ [TrackingNext]_trackingVars => TrackingInv'
  <2> SUFFICES ASSUME TrackingInv, [TrackingNext]_trackingVars PROVE TrackingInv'
    BY Zenon
  <2>1. Base /\ CurrentInv /\ OomInv /\ ConnectInv
    BY Zenon DEF TrackingInv
  <2>2. Base' /\ AnyStep
    BY Zenon, <2>1, TrackingSteps
  <2>3. CurrentInv'
    BY Zenon, <2>1, <2>2, CurrentStep
  <2>4. OomInv'
    BY Zenon, <2>1, <2>2, OomStep
  <2>5. ConnectInv'
    BY Zenon, <2>1, <2>2, ConnectStepOK
  <2> QED
    BY Zenon, <2>2, <2>3, <2>4, <2>5 DEF TrackingInv
<1> QED
  BY <1>1, TrackingInitOK, PTL DEF TrackingSpec

\* With every event handled, the processes of the containers are those that run
\* (handleEvents), whatever process ids come up again and whatever set-ups fail.
THEOREM ProcessesAlwaysCurrent == TrackingSpec => []ProcessesCurrent
<1>1. TrackingInv => ProcessesCurrent
  <2> SUFFICES ASSUME TrackingInv, events = <<>>, scenario \subseteq {"wrap", "setup", "move", "quiet"},
                      NEW id \in DOMAIN registry.processes, NEW pid \in DOMAIN registry.processes[id]
               PROVE  Leader(pid) \in threads /\ registry.processes[id][pid] = born[pid]
    BY Zenon DEF ProcessesCurrent
  <2>1. EntriesCurrent
    BY Zenon DEF TrackingInv, CurrentInv
  <2>2. Runs(registry, id, pid, registry.processes[id][pid])
    BY Zenon DEF Runs
  <2>3. DOMAIN events = {}
    OBVIOUS
  <2>4. ~Exiting(pid)
    BY Zenon, <2>3 DEF Exiting
  <2> QED
    BY Zenon, <2>1, <2>2, <2>4 DEF EntriesCurrent, Alive
<1> QED
  BY <1>1, TrackingInvariant, PTL

\* No container is blamed for more OOM kills than it suffered (onProcessExit), as
\* long as the exit of a process is read before its id comes up again.
THEOREM OomKillsAlwaysReal == TrackingSpec => []OomKillsReal
<1>1. TrackingInv => OomKillsReal
  <2> SUFFICES ASSUME TrackingInv, scenario \subseteq {"setup", "quiet"},
                      NEW id \in DOMAIN registry.containersById
               PROVE  registry.containersById[id].oomKills <= oomed[id]
    BY Zenon DEF OomKillsReal
  <2>1. KillsCovered /\ RegOK(registry) /\ TrackTypes
    BY Zenon DEF TrackingInv, OomInv, Base
  <2>2. id \in ContainerIds
    BY Zenon, <2>1 DEF RegOK, Consistent, IsMap
  <2>3. Kills(registry, id) \in Nat
    BY Zenon, <2>1, KillsType
  <2>4. Cardinality(Pending(id)) \in Nat
    BY Zenon, PendingFinite
  <2>5. PICK n : n = Cardinality(Pending(id))
    OBVIOUS
  <2>6. Kills(registry, id) + n <= oomed[id] /\ oomed[id] \in Nat /\ n \in Nat
    BY Zenon, <2>1, <2>2, <2>4, <2>5 DEF KillsCovered, TrackTypes
  <2>7. Kills(registry, id) <= oomed[id]
    BY SMTT(30), <2>3, <2>6
  <2> QED
    BY Zenon, <2>7 DEF Kills
<1> QED
  BY <1>1, TrackingInvariant, PTL

\* No connection of a live process goes uncounted because its container has not
\* the process (onConnectionOpen), as long as events come all, in their order.
THEOREM ConnectsAlwaysCounted == TrackingSpec => []ConnectsCounted
<1>1. TrackingInv => ConnectsCounted
  BY Zenon DEF TrackingInv, ConnectInv, ConnectsCounted
<1> QED
  BY <1>1, TrackingInvariant, PTL

\* The maps of the registry agree in every scenario: events that are lost, early
\* or late, and process ids that come up again, included.
THEOREM TrackingRegistryConsistent == TrackingSpec => []RegistryConsistent
<1>1. TrackingInv => RegistryConsistent
  BY Zenon, RegOKConsistent DEF TrackingInv, Base
<1> QED
  BY <1>1, TrackingInvariant, PTL
=============================================================================
