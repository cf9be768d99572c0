------------------------- MODULE ProcessProbesProofs -------------------------
(***************************************************************************)
(* Proofs about the programs of proc.c, python.c and nodejs.c, for every   *)
(* number of processes and threads: the mark of the OOM killer and the     *)
(* statistics of the runtimes belong to the process that has the id.       *)
(***************************************************************************)
EXTENDS ProcessProbes, TLAPS

-----------------------------------------------------------------------------
(* What the helpers of BpfMaps do                                          *)

\* An update keeps the type of a map, ...
LEMMA UpdateType ==
  ASSUME NEW Keys, NEW Values, NEW map, IsMap(map, Keys, Values), NEW key \in Keys, NEW value \in Values
  PROVE  IsMap(Update(map, key, value), Keys, Values)
BY DEF Update, IsMap

\* ... and so does a deletion.
LEMMA DeleteType ==
  ASSUME NEW Keys, NEW Values, NEW map, IsMap(map, Keys, Values), NEW keys
  PROVE  IsMap(DeleteAll(map, keys), Keys, Values)
BY DEF DeleteAll, IsMap

-----------------------------------------------------------------------------
(* The processes: who is alive, who was killed, who has a mark             *)

\* What an update and a deletion leave of a map.
LEMMA UpdateIs ==
  ASSUME NEW map, NEW key, NEW value
  PROVE  /\ DOMAIN Update(map, key, value) = DOMAIN map \cup {key}
         /\ Update(map, key, value)[key] = value
         /\ \A k \in DOMAIN map : k # key => Update(map, key, value)[k] = map[k]
BY DEF Update

\* What a deletion leaves of a map
LEMMA DeleteIs ==
  ASSUME NEW map, NEW key
  PROVE  /\ DOMAIN Delete(map, key) = DOMAIN map \ {key}
         /\ \A k \in DOMAIN map : k # key => Delete(map, key)[k] = map[k]
BY DEF Delete, DeleteAll

\* A sequence stays one of its elements' type.
LEMMA AppendType ==
  ASSUME NEW S, NEW s \in Seq(S), NEW e \in S
  PROVE  Append(s, e) \in Seq(S)
OBVIOUS

\* The processes whose leader has not exited.
Alive == {pid \in Pids : Leader(pid) \in threads}

\* The types of the tasks
TaskTypes ==
  /\ threads \subseteq Thread /\ zombies \subseteq Pids /\ victims \subseteq Pids
  /\ attached \subseteq Pids /\ oom_info \subseteq Pids
  /\ forks \in 0 .. MaxForks /\ born \in [Pids -> 0 .. MaxForks]
  /\ \A pid \in Alive : born[pid] # 0

\* A process that was killed has threads left; one that has threads and was not
\* killed has its leader.
TaskInv ==
  /\ \A pid \in victims : ThreadsOf(pid) # {}
  /\ \A t \in threads : t.pid \in victims \/ t.pid \in Alive
  /\ oom_info = victims \cap Alive

\* A thread is its process and its number.
LEMMA ThreadIs ==
  /\ \A t \in Thread : t.pid \in Pids /\ t.n \in Members /\ (t.n = 1 <=> t = Leader(t.pid))
  /\ \A pid \in Pids : Leader(pid) \in Thread /\ Leader(pid).pid = pid /\ Leader(pid).n = 1
BY ProcessAssumption DEF Thread, Leader

\* What a step that changes the threads changes of the processes alive.
LEMMA AliveSteps ==
  ASSUME TaskTypes
  PROVE  /\ \A pid \in Pids : threads' = threads \cup {Leader(pid)} => Alive' = Alive \cup {pid}
         /\ \A t \in Thread : threads' = threads \cup {t} /\ t.n # 1 => Alive' = Alive
         /\ \A t \in Thread : threads' = threads \ {t} /\ t.n # 1 => Alive' = Alive
         /\ \A t \in Thread : threads' = threads \ {t} /\ t.n = 1 => Alive' = Alive \ {t.pid}
<1>1. \A p, q \in Pids : Leader(p) = Leader(q) => p = q
  BY Zenon, ThreadIs
<1>2. ASSUME NEW pid \in Pids, threads' = threads \cup {Leader(pid)}
      PROVE  Alive' = Alive \cup {pid}
  BY Zenon, <1>1, <1>2 DEF Alive
<1>3. ASSUME NEW t \in Thread, t.n # 1
      PROVE  \A p \in Pids : Leader(p) # t
  BY Zenon, <1>3, ThreadIs
<1>4. ASSUME NEW t \in Thread, threads' = threads \cup {t}, t.n # 1
      PROVE  Alive' = Alive
  BY Zenon, <1>3, <1>4 DEF Alive
<1>5. ASSUME NEW t \in Thread, threads' = threads \ {t}, t.n # 1
      PROVE  Alive' = Alive
  BY Zenon, <1>3, <1>5 DEF Alive
<1>6. ASSUME NEW t \in Thread, threads' = threads \ {t}, t.n = 1
      PROVE  Alive' = Alive \ {t.pid}
  <2>1. \A p \in Pids : Leader(p) = t <=> p = t.pid
    BY Zenon, <1>6, ThreadIs
  <2> QED
    BY Zenon, <1>6, <2>1 DEF Alive
<1> QED
  BY Zenon, <1>2, <1>4, <1>5, <1>6

\* A step that leaves the tasks and the marks alone.
LEMMA TaskFrame ==
  ASSUME TaskTypes, TaskInv, UNCHANGED <<taskVars, oom_info>>,
         attached' \subseteq Pids
  PROVE  TaskTypes' /\ TaskInv' /\ Alive' = Alive
<1>1. /\ threads' = threads /\ zombies' = zombies /\ victims' = victims /\ born' = born
      /\ forks' = forks /\ oom_info' = oom_info
  BY Zenon DEF taskVars
<1>2. Alive' = Alive
  BY Zenon, <1>1 DEF Alive
<1>3. \A pid : ThreadsOf(pid)' = ThreadsOf(pid)
  BY Zenon, <1>1 DEF ThreadsOf
<1>4. TaskTypes'
  BY Zenon, <1>1, <1>2 DEF TaskTypes
<1>5. TaskInv'
  BY Zenon, <1>1, <1>2, <1>3 DEF TaskInv
<1> QED
  BY Zenon, <1>2, <1>4, <1>5

\* task_newtask keeps the tasks' invariant: the process that gets an id again was
\* reaped, so that it is no victim.
LEMMA ForkTasks ==
  ASSUME TaskTypes, TaskInv, NEW pid \in Pids, Fork(pid)
  PROVE  TaskTypes' /\ TaskInv' /\ Alive' = Alive \cup {pid} /\ pid \notin Alive
<1>1. /\ threads' = threads \cup {Leader(pid)} /\ forks < MaxForks /\ forks' = forks + 1
      /\ born' = [born EXCEPT ![pid] = forks']
      /\ zombies' = zombies /\ victims' = victims /\ attached' = attached /\ oom_info' = oom_info
  BY Zenon DEF Fork
<1>2. Alive' = Alive \cup {pid}
  BY Zenon, <1>1, AliveSteps
<1>3. ThreadsOf(pid) = {}
  BY Zenon DEF Fork, Exists
<1>4. pid \notin victims
  BY Zenon, <1>3 DEF TaskInv
<1>5. pid \notin Alive
  BY Zenon, <1>3, ThreadIs DEF Alive, ThreadsOf
<1>6. forks' \in 0 .. MaxForks /\ forks' \in 1 .. MaxForks /\ forks' # 0
  BY <1>1, ProcessAssumption DEF TaskTypes
<1>7. /\ born' \in [Pids -> 0 .. MaxForks] /\ born'[pid] = forks'
      /\ \A p \in Pids : p # pid => born'[p] = born[p]
  BY Zenon, <1>1, <1>6 DEF TaskTypes
<1>8. \A p \in Alive' : born'[p] # 0
  BY Zenon, <1>2, <1>6, <1>7 DEF TaskTypes, Alive
<1>9. threads' \subseteq Thread
  BY Zenon, <1>1, ThreadIs DEF TaskTypes
<1>10. TaskTypes'
  BY Zenon, <1>1, <1>6, <1>7, <1>8, <1>9 DEF TaskTypes
<1>11. \A p : ThreadsOf(p) \subseteq ThreadsOf(p)'
  BY Zenon, <1>1 DEF ThreadsOf
<1>12. \A p \in victims' : ThreadsOf(p)' # {}
  BY Zenon, <1>1, <1>11 DEF TaskInv
<1>13. \A t \in threads' : t.pid \in victims' \/ t.pid \in Alive'
  BY Zenon, <1>1, <1>2, ThreadIs DEF TaskInv
<1>14. oom_info' = victims' \cap Alive'
  BY Zenon, <1>1, <1>2, <1>4 DEF TaskInv
<1> QED
  BY Zenon, <1>2, <1>5, <1>10, <1>12, <1>13, <1>14 DEF TaskInv

\* A new thread leaves the processes as they are.
LEMMA CloneTasks ==
  ASSUME TaskTypes, TaskInv, NEW t \in Thread, Clone(t)
  PROVE  TaskTypes' /\ TaskInv' /\ Alive' = Alive
<1>1. /\ threads' = threads \cup {t} /\ t.n # 1 /\ t.pid \notin victims /\ ThreadsOf(t.pid) # {}
      /\ zombies' = zombies /\ victims' = victims /\ born' = born /\ forks' = forks
      /\ attached' = attached /\ oom_info' = oom_info
  BY Zenon DEF Clone
<1>2. Alive' = Alive
  BY Zenon, <1>1, AliveSteps
<1>3. TaskTypes'
  <2>1. threads' \subseteq Thread
    BY Zenon, <1>1 DEF TaskTypes
  <2> QED
    BY Zenon, <1>1, <1>2, <2>1 DEF TaskTypes
<1>4. \A p : ThreadsOf(p) \subseteq ThreadsOf(p)'
  BY Zenon, <1>1 DEF ThreadsOf
<1>5. t.pid \in Alive
  BY Zenon, <1>1 DEF TaskInv, ThreadsOf
<1>6. \A p \in victims' : ThreadsOf(p)' # {}
  BY Zenon, <1>1, <1>4 DEF TaskInv
<1>7. \A u \in threads' : u.pid \in victims' \/ u.pid \in Alive'
  BY Zenon, <1>1, <1>2, <1>5 DEF TaskInv
<1>8. oom_info' = victims' \cap Alive'
  BY Zenon, <1>1, <1>2 DEF TaskInv
<1> QED
  BY Zenon, <1>2, <1>3, <1>6, <1>7, <1>8 DEF TaskInv

\* What an exit leaves of the threads of a process.
LEMMA ExitThreads ==
  ASSUME TaskTypes, TaskInv, NEW t \in threads, threads' = threads \ {t}
  PROVE  /\ \A p : p # t.pid => ThreadsOf(p)' = ThreadsOf(p)
         /\ ThreadsOf(t.pid)' = threads' \cap ThreadsOf(t.pid)
         /\ t.n # 1 /\ threads' \cap ThreadsOf(t.pid) = {} => t.pid \notin Alive
<1>1. \A p : p # t.pid => ThreadsOf(p)' = ThreadsOf(p)
  BY Zenon DEF ThreadsOf
<1>2. ThreadsOf(t.pid)' = threads' \cap ThreadsOf(t.pid)
  BY Zenon DEF ThreadsOf
<1>3. ASSUME t.n # 1, t.pid \in Alive
      PROVE  threads' \cap ThreadsOf(t.pid) # {}
  <2>1. t \in Thread
    BY Zenon DEF TaskTypes
  <2>2. Leader(t.pid) # t /\ Leader(t.pid) \in threads /\ Leader(t.pid).pid = t.pid
    BY Zenon, <1>3, <2>1, ThreadIs DEF Alive
  <2> QED
    BY Zenon, <2>2 DEF ThreadsOf
<1> QED
  BY Zenon, <1>1, <1>2, <1>3

\* sched_process_exit keeps the tasks' invariant: the mark goes with the leader.
LEMMA ExitTasks ==
  ASSUME TaskTypes, TaskInv, NEW t \in Thread, Exit(t)
  PROVE  /\ TaskTypes' /\ TaskInv'
         /\ t.n = 1 => Alive' = Alive \ {t.pid}
         /\ t.n # 1 => Alive' = Alive
<1> DEFINE p == t.pid
<1> DEFINE last == threads' \cap ThreadsOf(t.pid) = {}
<1>1. /\ t \in threads /\ threads' = threads \ {t}
      /\ victims' = IF last THEN victims \ {p} ELSE IF t.n = 1 THEN victims \cup {p} ELSE victims
      /\ attached' = IF last THEN attached \ {p} ELSE attached
      /\ born' = born /\ forks' = forks
  BY Zenon DEF Exit
<1>2. t.n = 1 => zombies' = zombies \cup {p} /\ oom_info' = oom_info \ {p}
  BY Zenon DEF Exit, TakeOomMark
<1>3. t.n # 1 => zombies' = zombies /\ oom_info' = oom_info
  BY Zenon DEF Exit
<1>4. t.n = 1 => Alive' = Alive \ {p}
  BY Zenon, <1>1, AliveSteps
<1>5. t.n # 1 => Alive' = Alive
  BY Zenon, <1>1, AliveSteps
<1>6. /\ \A q : q # p => ThreadsOf(q)' = ThreadsOf(q)
      /\ ThreadsOf(p)' = threads' \cap ThreadsOf(p)
      /\ t.n # 1 /\ last => p \notin Alive
  BY Zenon, <1>1, ExitThreads
<1>7. p \in Pids
  BY Zenon, ThreadIs
<1>8. victims' \subseteq Pids /\ attached' \subseteq Pids /\ zombies' \subseteq Pids /\ oom_info' \subseteq Pids
  <2>1. victims' \subseteq Pids
    BY Zenon, <1>1, <1>7 DEF TaskTypes
  <2>2. attached' \subseteq Pids
    BY Zenon, <1>1, <1>7 DEF TaskTypes
  <2>3. zombies' \subseteq Pids
    BY Zenon, <1>2, <1>3, <1>7 DEF TaskTypes
  <2>4. oom_info' \subseteq Pids
    BY Zenon, <1>2, <1>3, <1>7 DEF TaskTypes
  <2> QED
    BY Zenon, <2>1, <2>2, <2>3, <2>4
<1>9. TaskTypes'
  <2>1. threads' \subseteq Thread
    BY Zenon, <1>1 DEF TaskTypes
  <2>2. \A q \in Alive' : born'[q] # 0
    BY Zenon, <1>1, <1>4, <1>5 DEF TaskTypes
  <2> QED
    BY Zenon, <1>1, <1>8, <2>1, <2>2 DEF TaskTypes
<1>10. \A q \in victims' : ThreadsOf(q)' # {}
  BY Zenon, <1>1, <1>6 DEF TaskInv
<1>11. \A u \in threads' : u.pid \in victims' \/ u.pid \in Alive'
  <2> SUFFICES ASSUME NEW u \in threads'
               PROVE  u.pid \in victims' \/ u.pid \in Alive'
    OBVIOUS
  <2>1. u.pid \in victims \/ u.pid \in Alive
    BY Zenon, <1>1 DEF TaskInv
  <2>2. CASE u.pid # p
    BY Zenon, <1>1, <1>4, <1>5, <2>1, <2>2
  <2>3. CASE u.pid = p
    <3>1. ~last
      BY Zenon, <1>1, <2>3 DEF ThreadsOf
    <3> QED
      BY Zenon, <1>1, <1>5, <2>1, <2>3, <3>1
  <2> QED
    BY Zenon, <2>2, <2>3
<1>12. oom_info' = victims' \cap Alive'
  <2>1. CASE t.n = 1
    <3>1. \A q : q # p => (q \in victims' <=> q \in victims)
      BY Zenon, <1>1
    <3> QED
      BY Zenon, <1>2, <1>4, <2>1, <3>1 DEF TaskInv
  <2>2. CASE t.n # 1
    BY Zenon, <1>1, <1>3, <1>5, <1>6, <2>2 DEF TaskInv
  <2> QED
    BY Zenon, <2>1, <2>2
<1> QED
  BY Zenon, <1>4, <1>5, <1>9, <1>10, <1>11, <1>12 DEF TaskInv

\* A zombie that is reaped was not alive.
LEMMA ReapTasks ==
  ASSUME TaskTypes, TaskInv, NEW pid \in Pids, Reap(pid)
  PROVE  TaskTypes' /\ TaskInv' /\ Alive' = Alive
<1>1. /\ zombies' = zombies \ {pid}
      /\ threads' = threads /\ victims' = victims /\ born' = born /\ forks' = forks
      /\ attached' = attached /\ oom_info' = oom_info
  BY Zenon DEF Reap
<1>2. Alive' = Alive
  BY Zenon, <1>1 DEF Alive
<1>3. \A p : ThreadsOf(p)' = ThreadsOf(p)
  BY Zenon, <1>1 DEF ThreadsOf
<1>4. zombies' \subseteq Pids
  BY Zenon, <1>1 DEF TaskTypes
<1>5. TaskTypes'
  BY Zenon, <1>1, <1>2, <1>4 DEF TaskTypes
<1>6. TaskInv'
  BY Zenon, <1>1, <1>2, <1>3 DEF TaskInv
<1> QED
  BY Zenon, <1>2, <1>5, <1>6

\* oom_mark_victim marks a process whose leader has not exited.
LEMMA OomMarkVictimTasks ==
  ASSUME TaskTypes, TaskInv, NEW pid \in Pids, OomMarkVictim(pid)
  PROVE  TaskTypes' /\ TaskInv' /\ Alive' = Alive
<1>1. /\ ThreadsOf(pid) # {} /\ pid \notin victims
      /\ victims' = victims \cup {pid} /\ oom_info' = oom_info \cup {pid}
      /\ threads' = threads /\ zombies' = zombies /\ born' = born /\ forks' = forks
      /\ attached' = attached
  BY Zenon DEF OomMarkVictim
<1>2. Alive' = Alive
  BY Zenon, <1>1 DEF Alive
<1>3. \A p : ThreadsOf(p)' = ThreadsOf(p)
  BY Zenon, <1>1 DEF ThreadsOf
<1>4. victims' \subseteq Pids /\ oom_info' \subseteq Pids
  BY Zenon, <1>1 DEF TaskTypes
<1>5. TaskTypes'
  BY Zenon, <1>1, <1>2, <1>4 DEF TaskTypes
<1>6. pid \in Alive
  BY Zenon, <1>1 DEF TaskInv, ThreadsOf
<1>7. \A p \in victims' : ThreadsOf(p)' # {}
  BY Zenon, <1>1, <1>3 DEF TaskInv
<1>8. \A u \in threads' : u.pid \in victims' \/ u.pid \in Alive'
  BY Zenon, <1>1, <1>2 DEF TaskInv
<1>9. oom_info' = victims' \cap Alive'
  BY Zenon, <1>1, <1>2, <1>6 DEF TaskInv
<1> QED
  BY Zenon, <1>2, <1>5, <1>7, <1>8, <1>9 DEF TaskInv

\* The programs of proc.c report starts and exits.
LEMMA ForkEvents ==
  ASSUME TaskTypes, events \in Seq(ProcEvent), NEW pid \in Pids, Fork(pid)
  PROVE  events' \in Seq(ProcEvent)
<1>1. /\ forks < MaxForks /\ forks' = forks + 1
      /\ events' = Append(events, Event("start", pid, FALSE, forks'))
  BY Zenon DEF Fork
<1>2. forks' \in 1 .. MaxForks
  BY <1>1, ProcessAssumption DEF TaskTypes
<1>3. Event("start", pid, FALSE, forks') \in ProcEvent
  BY <1>2 DEF Event, ProcEvent
<1> QED
  BY Zenon, <1>1, <1>3, AppendType

\* What sched_process_exit reports has its type.
LEMMA ExitEvents ==
  ASSUME TaskTypes, events \in Seq(ProcEvent), NEW t \in Thread, Exit(t)
  PROVE  events' \in Seq(ProcEvent)
<1> DEFINE p == t.pid
<1>1. t \in threads /\ p \in Pids
  BY Zenon, ThreadIs DEF Exit
<1>2. t.n = 1 => events' = Append(events, Event("exit", p, p \in oom_info, born[p]))
  BY Zenon DEF Exit
<1>3. t.n # 1 => events' = events
  BY Zenon DEF Exit
<1>4. CASE t.n = 1
  <2>1. p \in Alive
    BY Zenon, <1>1, <1>4, ThreadIs DEF Alive
  <2>2. PICK b \in 0 .. MaxForks : b = born[p] /\ b # 0
    BY Zenon, <1>1, <2>1 DEF TaskTypes
  <2>3. b \in 1 .. MaxForks
    BY <2>2, ProcessAssumption
  <2>4. (p \in oom_info) \in BOOLEAN
    OBVIOUS
  <2>5. Event("exit", p, p \in oom_info, b) \in ProcEvent
    BY <1>1, <2>3, <2>4 DEF Event, ProcEvent
  <2>6. Event("exit", p, p \in oom_info, b) = Event("exit", p, p \in oom_info, born[p])
    BY <2>2
  <2>7. PICK e \in ProcEvent : e = Event("exit", p, p \in oom_info, born[p])
    BY <2>5, <2>6
  <2>8. events' = Append(events, e)
    BY <1>2, <1>4, <2>7
  <2> QED
    BY Zenon, <2>8, AppendType
<1>5. CASE t.n # 1
  BY Zenon, <1>3, <1>5
<1> QED
  BY Zenon, <1>4, <1>5

-----------------------------------------------------------------------------
(* The statistics of a runtime                                             *)

\* No entry of a map is from the future.
Past(map) == \A k \in DOMAIN map : map[k] <= now

\* What AddStat adds, and to whom.
LEMMA AddStatIs ==
  ASSUME NEW map, IsMap(map, Pids, Nat), NEW pid \in Pids, NEW d \in Nat
  PROVE  /\ IsMap(AddStat(map, pid, d), Pids, Nat)
         /\ DOMAIN AddStat(map, pid, d) = DOMAIN map \cup {pid}
         /\ Stat(AddStat(map, pid, d), pid) = Stat(map, pid) + d
         /\ \A q : q # pid => Stat(AddStat(map, pid, d), q) = Stat(map, q)
<1>1. Stat(map, pid) \in Nat
  BY DEF Stat, IsMap
<1>2. PICK v \in Nat : v = Stat(map, pid) + d
  BY <1>1
<1>3. AddStat(map, pid, d) = Update(map, pid, v)
  BY Zenon, <1>2 DEF AddStat
<1>4. IsMap(Update(map, pid, v), Pids, Nat)
  BY Zenon, UpdateType
<1>5. /\ DOMAIN Update(map, pid, v) = DOMAIN map \cup {pid}
      /\ Update(map, pid, v)[pid] = v
      /\ \A k \in DOMAIN map : k # pid => Update(map, pid, v)[k] = map[k]
  BY DEF Update
<1>6. Stat(Update(map, pid, v), pid) = v
  BY Zenon, <1>5 DEF Stat
<1>7. \A q : q # pid => Stat(Update(map, pid, v), q) = Stat(map, q)
  BY Zenon, <1>5 DEF Stat
<1> QED
  BY Zenon, <1>2, <1>3, <1>4, <1>5, <1>6, <1>7

\* A deletion leaves the statistics of the other processes.
LEMMA DeleteStat ==
  ASSUME NEW map, NEW pid
  PROVE  \A q : q # pid => Stat(Delete(map, pid), q) = Stat(map, q)
<1>1. /\ DOMAIN Delete(map, pid) = DOMAIN map \ {pid}
      /\ \A k \in DOMAIN map : k # pid => Delete(map, pid)[k] = map[k]
  BY Zenon, DeleteIs
<1> QED
  BY <1>1 DEF Stat

\* The deletion of one key keeps the type of a map.
LEMMA DeleteOneType ==
  ASSUME NEW Keys, NEW Values, NEW map, IsMap(map, Keys, Values), NEW key
  PROVE  IsMap(Delete(map, key), Keys, Values)
BY Zenon, DeleteType DEF Delete

\* The time of a call is a number, and none for a call that was not traced.
LEMMA ElapsedIs ==
  ASSUME now \in Times, NEW since, (since \in Times /\ since <= now) \/ since = Untraced
  PROVE  /\ Elapsed(since) \in Nat
         /\ since = Untraced => Elapsed(since) = 0
         /\ since # Untraced => Elapsed(since) = now - since /\ now - since \in Nat
BY ProcessAssumption DEF Elapsed, Times, Untraced

\* A time is no Untraced.
LEMMA TimesTraced == Untraced \notin Times /\ (\A s \in Since : s # Untraced => s \in Times)
BY ProcessAssumption DEF Since, Times, Untraced

\* What two maps of durations agree on when both add one.
LEMMA AddedAlike ==
  ASSUME NEW f \in [Pids -> Nat], NEW pid \in Pids, NEW d \in Nat
  PROVE  /\ [f EXCEPT ![pid] = @ + d] \in [Pids -> Nat]
         /\ [f EXCEPT ![pid] = @ + d][pid] = f[pid] + d
         /\ \A q \in Pids : q # pid => [f EXCEPT ![pid] = @ + d][q] = f[q]
OBVIOUS

-----------------------------------------------------------------------------
(* Python: the waits of a process                                          *)

\* A wait that was entered with the probes has its entry in python_thread_locks;
\* one that was not is of a process without probes, or of one that is late.
TracedWait(t) ==
  IF waiting[t] = Untraced THEN t.pid \in attached => t.pid \in late
  ELSE /\ t.pid \in attached
       /\ t \in DOMAIN python_thread_locks /\ python_thread_locks[t] = waiting[t]

\* The types of the Python maps
PythonTypes ==
  /\ now \in Times
  /\ IsMap(waiting, Thread, Since) /\ IsMap(python_thread_locks, Thread, Times)
  /\ IsMap(python_stats, Pids, Nat) /\ waited \in [Pids -> Nat]
  /\ Past(python_thread_locks)

\* Threads that wait are live; only a live process has statistics, and they are
\* what it waited.
PythonInv ==
  /\ DOMAIN waiting \subseteq threads
  /\ \A t \in DOMAIN waiting : TracedWait(t)
  /\ DOMAIN python_stats \subseteq Alive
  /\ \A pid \in Alive : pid \notin late => Stat(python_stats, pid) = waited[pid]

\* A step that leaves the waits alone, and of the threads that wait the process
\* and the probes.
LEMMA PythonFrame ==
  ASSUME PythonTypes, PythonInv, UNCHANGED <<now, pythonVars>>,
         \A t \in DOMAIN waiting : t \in threads' /\ (t.pid \in attached' <=> t.pid \in attached),
         Alive' = Alive
  PROVE  PythonTypes' /\ PythonInv'
<1>1. /\ waiting' = waiting /\ python_thread_locks' = python_thread_locks
      /\ python_stats' = python_stats /\ waited' = waited /\ late' = late /\ now' = now
  BY Zenon DEF pythonVars
<1>2. PythonTypes'
  BY Zenon, <1>1 DEF PythonTypes, Past
<1>3. \A t \in DOMAIN waiting : TracedWait(t)'
  BY Zenon, <1>1 DEF PythonInv, TracedWait
<1> QED
  BY Zenon, <1>1, <1>2, <1>3 DEF PythonInv

\* A new process finds no statistics under its id.
LEMMA ForkPython ==
  ASSUME TaskTypes, PythonTypes, PythonInv, NEW pid \in Pids, Fork(pid),
         Alive' = Alive \cup {pid}, pid \notin Alive
  PROVE  PythonTypes' /\ PythonInv'
<1>1. /\ waiting' = waiting /\ python_thread_locks' = python_thread_locks
      /\ python_stats' = python_stats /\ waited' = [waited EXCEPT ![pid] = 0]
      /\ late' = late \ {pid} /\ now' = now /\ attached' = attached
      /\ threads' = threads \cup {Leader(pid)} /\ ThreadsOf(pid) = {}
  BY Zenon DEF Fork, Exists
<1>2. /\ waited' \in [Pids -> Nat] /\ waited'[pid] = 0
      /\ \A q \in Pids : q # pid => waited'[q] = waited[q]
  BY <1>1 DEF PythonTypes
<1>3. PythonTypes'
  BY Zenon, <1>1, <1>2 DEF PythonTypes, Past
<1>4. \A t \in DOMAIN waiting : t \in threads /\ t.pid # pid
  BY Zenon, <1>1 DEF PythonInv, ThreadsOf
<1>5. \A t \in DOMAIN waiting' : TracedWait(t)'
  BY Zenon, <1>1, <1>4 DEF PythonInv, TracedWait
<1>6. Stat(python_stats, pid) = 0
  BY Zenon DEF PythonInv, Stat
<1>7. \A q \in Alive' : q \notin late' => Stat(python_stats', q) = waited'[q]
  BY Zenon, <1>1, <1>2, <1>6 DEF PythonInv, Alive
<1>8. DOMAIN waiting' \subseteq threads' /\ DOMAIN python_stats' \subseteq Alive'
  BY Zenon, <1>1 DEF PythonInv
<1> QED
  BY Zenon, <1>3, <1>5, <1>7, <1>8 DEF PythonInv

\* The exit of a thread ends its wait, that of a leader the statistics; the entry
\* of the thread in python_thread_locks stays behind.
LEMMA ExitPython ==
  ASSUME TaskTypes, PythonTypes, PythonInv, NEW t \in Thread, Exit(t),
         t.n = 1 => Alive' = Alive \ {t.pid},
         t.n # 1 => Alive' = Alive
  PROVE  PythonTypes' /\ PythonInv'
<1>1. /\ t \in threads /\ threads' = threads \ {t} /\ waiting' = Delete(waiting, t)
      /\ python_thread_locks' = python_thread_locks /\ waited' = waited /\ late' = late /\ now' = now
      /\ attached' = IF threads' \cap ThreadsOf(t.pid) = {} THEN attached \ {t.pid} ELSE attached
  BY Zenon DEF Exit
<1>2. /\ t.n = 1 => python_stats' = Delete(python_stats, t.pid)
      /\ t.n # 1 => python_stats' = python_stats
  BY Zenon DEF Exit, ForgetProcess
<1>3. /\ DOMAIN waiting' = DOMAIN waiting \ {t}
      /\ \A u \in DOMAIN waiting : u # t => waiting'[u] = waiting[u]
  BY Zenon, <1>1, DeleteIs
<1>4. IsMap(waiting', Thread, Since)
  BY Zenon, <1>1, DeleteOneType DEF PythonTypes
<1>5. IsMap(python_stats', Pids, Nat)
  <2>1. IsMap(Delete(python_stats, t.pid), Pids, Nat)
    BY Zenon, DeleteOneType DEF PythonTypes
  <2> QED
    BY Zenon, <1>2, <2>1 DEF PythonTypes
<1>6. PythonTypes'
  BY Zenon, <1>1, <1>4, <1>5 DEF PythonTypes, Past
<1>7. DOMAIN waiting' \subseteq threads'
  BY Zenon, <1>1, <1>3 DEF PythonInv
<1>8. \A u \in DOMAIN waiting' : u.pid \in attached' <=> u.pid \in attached
  BY Zenon, <1>1, <1>7 DEF ThreadsOf
<1>9. \A u \in DOMAIN waiting' : TracedWait(u)'
  BY Zenon, <1>1, <1>3, <1>8 DEF PythonInv, TracedWait
<1>10. DOMAIN python_stats' \subseteq Alive'
  <2>1. DOMAIN Delete(python_stats, t.pid) = DOMAIN python_stats \ {t.pid}
    BY Zenon, DeleteIs
  <2> QED
    BY Zenon, <1>2, <2>1 DEF PythonInv
<1>11. \A q \in Alive' : q \notin late' => Stat(python_stats', q) = waited'[q]
  <2>1. \A q : q # t.pid => Stat(Delete(python_stats, t.pid), q) = Stat(python_stats, q)
    BY Zenon, DeleteStat
  <2> QED
    BY Zenon, <1>1, <1>2, <2>1 DEF PythonInv
<1> QED
  BY Zenon, <1>6, <1>7, <1>9, <1>10, <1>11 DEF PythonInv

\* A process whose threads wait when the uprobes come is late.
LEMMA AttachPython ==
  ASSUME PythonTypes, PythonInv, NEW pid \in Pids, Attach(pid), Alive' = Alive
  PROVE  PythonTypes' /\ PythonInv'
<1>1. /\ waiting' = waiting /\ python_thread_locks' = python_thread_locks
      /\ python_stats' = python_stats /\ waited' = waited /\ now' = now /\ threads' = threads
      /\ attached' = attached \cup {pid}
      /\ late' = IF ThreadsOf(pid) \cap DOMAIN waiting # {} THEN late \cup {pid} ELSE late
  BY Zenon DEF Attach, taskVars
<1>2. PythonTypes'
  BY Zenon, <1>1 DEF PythonTypes, Past
<1>3. late \subseteq late'
  BY Zenon, <1>1
<1>4. ASSUME NEW t \in DOMAIN waiting
      PROVE  TracedWait(t)'
  <2>1. TracedWait(t) /\ t \in threads
    BY Zenon DEF PythonInv
  <2>2. t.pid = pid => pid \in late'
    BY Zenon, <1>1, <2>1 DEF ThreadsOf
  <2> QED
    BY Zenon, <1>1, <1>3, <2>1, <2>2 DEF TracedWait
<1>5. \A q \in Alive' : q \notin late' => Stat(python_stats', q) = waited'[q]
  BY Zenon, <1>1, <1>3 DEF PythonInv
<1> QED
  BY Zenon, <1>1, <1>2, <1>4, <1>5 DEF PythonInv

\* A thread that enters pthread_cond_timedwait is noted if the probes are there.
LEMMA TimedwaitEnterPython ==
  ASSUME PythonTypes, PythonInv, NEW t \in Thread, TimedwaitEnter(t), Alive' = Alive
  PROVE  PythonTypes' /\ PythonInv'
<1>1. /\ t \in threads /\ t \notin DOMAIN waiting
      /\ waiting' = Update(waiting, t, EnteredAt(t.pid))
      /\ python_thread_locks' = IF t.pid \in attached THEN Update(python_thread_locks, t, now)
                                ELSE python_thread_locks
      /\ python_stats' = python_stats /\ waited' = waited /\ late' = late /\ now' = now
      /\ threads' = threads /\ attached' = attached
  BY Zenon DEF TimedwaitEnter, taskVars, Running
<1>2. /\ EnteredAt(t.pid) \in Since
      /\ t.pid \in attached => EnteredAt(t.pid) = now
      /\ t.pid \notin attached => EnteredAt(t.pid) = Untraced
  BY Zenon DEF EnteredAt, Since, PythonTypes
<1>3. IsMap(Update(waiting, t, EnteredAt(t.pid)), Thread, Since)
  BY Zenon, <1>2, UpdateType DEF PythonTypes
<1>4. IsMap(Update(python_thread_locks, t, now), Thread, Times)
  BY Zenon, UpdateType DEF PythonTypes
<1>5. /\ DOMAIN waiting' = DOMAIN waiting \cup {t} /\ waiting'[t] = EnteredAt(t.pid)
      /\ \A u \in DOMAIN waiting : u # t => waiting'[u] = waiting[u]
  BY <1>1 DEF Update
<1>6. t.pid \in attached => /\ DOMAIN python_thread_locks' = DOMAIN python_thread_locks \cup {t}
                            /\ python_thread_locks'[t] = now
                            /\ \A u \in DOMAIN python_thread_locks :
                                 u # t => python_thread_locks'[u] = python_thread_locks[u]
  BY <1>1 DEF Update
<1>7. t.pid \notin attached => python_thread_locks' = python_thread_locks
  BY Zenon, <1>1
<1>8. now <= now
  BY ProcessAssumption DEF PythonTypes, Times
<1>9. Past(python_thread_locks)'
  BY Zenon, <1>1, <1>6, <1>7, <1>8 DEF PythonTypes, Past
<1>10. IsMap(waiting', Thread, Since) /\ IsMap(python_thread_locks', Thread, Times)
  <2>1. IsMap(waiting', Thread, Since)
    BY Zenon, <1>1, <1>3
  <2>2. t.pid \in attached => python_thread_locks' = Update(python_thread_locks, t, now)
    BY Zenon, <1>1
  <2>3. IsMap(python_thread_locks', Thread, Times)
    BY Zenon, <1>4, <1>7, <2>2 DEF PythonTypes
  <2> QED
    BY Zenon, <2>1, <2>3
<1>11. PythonTypes'
  BY Zenon, <1>1, <1>9, <1>10 DEF PythonTypes
<1>12. ASSUME NEW u \in DOMAIN waiting'
       PROVE  TracedWait(u)'
  <2>1. CASE u = t
    <3>1. CASE t.pid \in attached
      <4>1. waiting'[t] = now /\ now # Untraced
        BY Zenon, <1>2, <1>5, <3>1, TimesTraced DEF PythonTypes
      <4> QED
        BY Zenon, <1>1, <1>6, <2>1, <3>1, <4>1 DEF TracedWait
    <3>2. CASE t.pid \notin attached
      BY Zenon, <1>1, <1>2, <1>5, <2>1, <3>2 DEF TracedWait
    <3> QED
      BY Zenon, <3>1, <3>2
  <2>2. CASE u # t
    <3>1. TracedWait(u) /\ waiting'[u] = waiting[u]
      BY Zenon, <1>5, <2>2 DEF PythonInv
    <3> QED
      BY Zenon, <1>1, <1>6, <1>7, <2>2, <3>1 DEF TracedWait
  <2> QED
    BY Zenon, <2>1, <2>2
<1>13. DOMAIN waiting' \subseteq threads'
  BY Zenon, <1>1, <1>5 DEF PythonInv
<1> QED
  BY Zenon, <1>1, <1>11, <1>12, <1>13 DEF PythonInv

\* pthread_cond_timedwait_exit adds what the thread waited, unless the process is
\* late.
LEMMA TimedwaitExitPython ==
  ASSUME TaskTypes, TaskInv, PythonTypes, PythonInv, NEW t \in Thread, TimedwaitExit(t), Alive' = Alive
  PROVE  PythonTypes' /\ PythonInv'
<1> DEFINE p == t.pid
<1> DEFINE d == Elapsed(waiting[t])
<1> DEFINE traced == t.pid \in attached /\ t \in DOMAIN python_thread_locks
<1>1. /\ t \in DOMAIN waiting /\ p \notin victims /\ waiting' = Delete(waiting, t)
      /\ waited' = [waited EXCEPT ![p] = @ + d]
      /\ late' = late /\ now' = now /\ threads' = threads /\ attached' = attached
  BY Zenon DEF TimedwaitExit, taskVars
<1>2. /\ traced => /\ python_stats' = AddStat(python_stats, p, now - python_thread_locks[t])
                   /\ python_thread_locks' = Delete(python_thread_locks, t)
      /\ ~traced => python_stats' = python_stats /\ python_thread_locks' = python_thread_locks
  BY Zenon DEF TimedwaitExit
<1>3. p \in Pids /\ p \in Alive /\ TracedWait(t)
  BY Zenon, <1>1, ThreadIs DEF TaskInv, PythonInv
<1>4. t \in DOMAIN python_thread_locks =>
        python_thread_locks[t] \in Times /\ python_thread_locks[t] <= now
  BY Zenon DEF PythonTypes, Past, IsMap
<1>5. now \in Times /\ waiting[t] \in Since
  BY Zenon, <1>1 DEF PythonTypes, IsMap
<1>6. (waiting[t] \in Times /\ waiting[t] <= now) \/ waiting[t] = Untraced
  BY Zenon, <1>3, <1>4 DEF TracedWait
<1>7. /\ d \in Nat /\ (waiting[t] = Untraced => d = 0)
      /\ waiting[t] # Untraced => d = now - waiting[t]
  BY Zenon, <1>5, <1>6, ElapsedIs
<1>8. /\ waited' \in [Pids -> Nat] /\ waited'[p] = waited[p] + d
      /\ \A q \in Pids : q # p => waited'[q] = waited[q]
  <2>1. waited \in [Pids -> Nat]
    BY Zenon DEF PythonTypes
  <2> HIDE DEF d
  <2>2. /\ [waited EXCEPT ![p] = @ + d] \in [Pids -> Nat]
        /\ [waited EXCEPT ![p] = @ + d][p] = waited[p] + d
        /\ \A q \in Pids : q # p => [waited EXCEPT ![p] = @ + d][q] = waited[q]
    BY <1>3, <1>7, <2>1
  <2> QED
    BY Zenon, <1>1, <2>2
<1>9. traced => now - python_thread_locks[t] \in Nat
  <2> SUFFICES ASSUME traced PROVE now - python_thread_locks[t] \in Nat
    BY Zenon
  <2>1. PICK s \in Times : s = python_thread_locks[t] /\ s <= now
    BY Zenon, <1>4
  <2>2. now - s \in Nat
    BY <1>5, <2>1, ProcessAssumption DEF Times
  <2> QED
    BY Zenon, <2>1, <2>2
<1>10. traced => /\ IsMap(python_stats', Pids, Nat)
                 /\ DOMAIN python_stats' = DOMAIN python_stats \cup {p}
                 /\ Stat(python_stats', p) = Stat(python_stats, p) + (now - python_thread_locks[t])
                 /\ \A q : q # p => Stat(python_stats', q) = Stat(python_stats, q)
  <2> SUFFICES ASSUME traced
               PROVE  /\ IsMap(python_stats', Pids, Nat)
                      /\ DOMAIN python_stats' = DOMAIN python_stats \cup {p}
                      /\ Stat(python_stats', p) = Stat(python_stats, p) + (now - python_thread_locks[t])
                      /\ \A q : q # p => Stat(python_stats', q) = Stat(python_stats, q)
    BY Zenon
  <2>1. PICK e \in Nat : e = now - python_thread_locks[t]
    BY Zenon, <1>9
  <2>2. python_stats' = AddStat(python_stats, p, e)
    BY Zenon, <1>2, <2>1
  <2>3. IsMap(python_stats, Pids, Nat)
    BY Zenon DEF PythonTypes
  <2>4. /\ IsMap(AddStat(python_stats, p, e), Pids, Nat)
        /\ DOMAIN AddStat(python_stats, p, e) = DOMAIN python_stats \cup {p}
        /\ Stat(AddStat(python_stats, p, e), p) = Stat(python_stats, p) + e
        /\ \A q : q # p => Stat(AddStat(python_stats, p, e), q) = Stat(python_stats, q)
    BY Zenon, <1>3, <2>3, AddStatIs
  <2> QED
    BY Zenon, <2>1, <2>2, <2>4
<1>11. /\ DOMAIN waiting' = DOMAIN waiting \ {t}
       /\ \A u \in DOMAIN waiting : u # t => waiting'[u] = waiting[u]
  BY Zenon, <1>1, DeleteIs
<1>12. traced => /\ DOMAIN python_thread_locks' = DOMAIN python_thread_locks \ {t}
                 /\ \A u \in DOMAIN python_thread_locks :
                      u # t => python_thread_locks'[u] = python_thread_locks[u]
  <2>1. /\ DOMAIN Delete(python_thread_locks, t) = DOMAIN python_thread_locks \ {t}
        /\ \A u \in DOMAIN python_thread_locks :
             u # t => Delete(python_thread_locks, t)[u] = python_thread_locks[u]
    BY Zenon, DeleteIs
  <2> QED
    BY Zenon, <1>2, <2>1
<1>13. IsMap(waiting', Thread, Since)
  BY Zenon, <1>1, DeleteOneType DEF PythonTypes
<1>14. IsMap(python_thread_locks', Thread, Times)
  <2>1. IsMap(Delete(python_thread_locks, t), Thread, Times)
    BY Zenon, DeleteOneType DEF PythonTypes
  <2> QED
    BY Zenon, <1>2, <2>1 DEF PythonTypes
<1>15. Past(python_thread_locks)'
  BY Zenon, <1>1, <1>2, <1>12 DEF PythonTypes, Past
<1>16. IsMap(python_stats', Pids, Nat)
  BY Zenon, <1>2, <1>10 DEF PythonTypes
<1>17. PythonTypes'
  BY Zenon, <1>1, <1>5, <1>8, <1>13, <1>14, <1>15, <1>16 DEF PythonTypes
<1>18. ASSUME NEW u \in DOMAIN waiting'
       PROVE  TracedWait(u)'
  <2>1. TracedWait(u) /\ waiting'[u] = waiting[u] /\ u # t
    BY Zenon, <1>11 DEF PythonInv
  <2> QED
    BY Zenon, <1>1, <1>2, <1>12, <2>1 DEF TracedWait
<1>19. DOMAIN python_stats' \subseteq Alive'
  BY Zenon, <1>2, <1>3, <1>10 DEF PythonInv
<1>20. ASSUME NEW q \in Alive', q \notin late'
       PROVE  Stat(python_stats', q) = waited'[q]
  <2>1. q \in Pids /\ Stat(python_stats, q) = waited[q]
    BY Zenon, <1>1, <1>20 DEF PythonInv, Alive
  <2>2. CASE q # p
    BY Zenon, <1>2, <1>8, <1>10, <2>1, <2>2
  <2>3. CASE q = p /\ traced
    <3>1. waiting[t] # Untraced /\ python_thread_locks[t] = waiting[t]
      BY Zenon, <1>1, <1>3, <1>20, <2>3 DEF TracedWait
    <3>2. d = now - python_thread_locks[t]
      BY Zenon, <1>7, <3>1
    <3> QED
      BY Zenon, <1>8, <1>10, <2>1, <2>3, <3>2
  <2>4. CASE q = p /\ ~traced
    <3>1. d = 0
      BY Zenon, <1>3, <1>7, <2>4 DEF TracedWait
    <3>2. PICK w \in Nat : w = waited[p]
      BY Zenon, <1>3 DEF PythonTypes
    <3>3. w + 0 = w
      OBVIOUS
    <3>4. waited'[p] = w
      BY Zenon, <1>8, <3>1, <3>2, <3>3
    <3> QED
      BY Zenon, <1>2, <2>1, <2>4, <3>2, <3>4
  <2> QED
    BY Zenon, <2>2, <2>3, <2>4
<1>21. DOMAIN waiting' \subseteq threads'
  BY Zenon, <1>1, <1>11 DEF PythonInv
<1> QED
  BY Zenon, <1>17, <1>18, <1>19, <1>20, <1>21 DEF PythonInv

\* Time passes.
LEMMA TickPython ==
  ASSUME PythonTypes, PythonInv, Tick, Alive' = Alive
  PROVE  PythonTypes' /\ PythonInv'
<1>1. /\ now < MaxNow /\ now' = now + 1
      /\ waiting' = waiting /\ python_thread_locks' = python_thread_locks
      /\ python_stats' = python_stats /\ waited' = waited /\ late' = late
      /\ threads' = threads /\ attached' = attached
  BY Zenon DEF Tick, taskVars, pythonVars
<1>2. now' \in Times /\ \A s \in Times : s <= now => s <= now'
  BY <1>1, ProcessAssumption DEF PythonTypes, Times
<1>3. Past(python_thread_locks)'
  BY Zenon, <1>1, <1>2 DEF PythonTypes, Past, IsMap
<1>4. PythonTypes'
  BY Zenon, <1>1, <1>2, <1>3 DEF PythonTypes
<1>5. \A t \in DOMAIN waiting : TracedWait(t)'
  BY Zenon, <1>1 DEF PythonInv, TracedWait
<1> QED
  BY Zenon, <1>1, <1>4, <1>5 DEF PythonInv

-----------------------------------------------------------------------------
(* Node.js: the blocked time of an event loop                              *)

\* Where an event loop is, and since when, if the probes were there
LoopState == [at : {"run", "poll", "callback"}, since : Since]

\* A map holds the time of an event loop that is at a place, and was traced when
\* it came there.
Recorded(map, lp, att, pid, at) ==
  /\ pid \in DOMAIN map <=> pid \in DOMAIN lp /\ lp[pid].at = at /\ lp[pid].since # Untraced
  /\ pid \in DOMAIN map => map[pid] = lp[pid].since /\ pid \in att

\* An event loop has moved.
Moved(lp, lp2, pid, at, since) ==
  /\ DOMAIN lp2 = DOMAIN lp
  /\ lp2[pid].at = at /\ lp2[pid].since = since
  /\ \A q \in DOMAIN lp : q # pid => lp2[q] = lp[q]

\* What EXCEPT does to the loops
LEMMA MovedIs ==
  ASSUME NEW lp, NEW pid \in DOMAIN lp, NEW at, NEW since
  PROVE  Moved(lp, [lp EXCEPT ![pid] = [at |-> at, since |-> since]], pid, at, since)
BY DEF Moved

\* The loop comes to a place, and its time is noted if it is traced.
LEMMA EntryNoted ==
  ASSUME NEW lp, NEW lp2, NEW map, NEW map2, NEW att, NEW pid, NEW at, NEW since,
         pid \in DOMAIN lp, lp[pid].at # at, Moved(lp, lp2, pid, at, since),
         \A q \in Pids : Recorded(map, lp, att, q, at), pid \in Pids,
         pid \in att => since # Untraced /\ map2 = Update(map, pid, since),
         pid \notin att => since = Untraced /\ map2 = map
  PROVE  \A q \in Pids : Recorded(map2, lp2, att, q, at)
<1>1. pid \notin DOMAIN map
  BY Zenon DEF Recorded
<1>2. CASE pid \in att
  <2>1. /\ DOMAIN map2 = DOMAIN map \cup {pid} /\ map2[pid] = since
        /\ \A k \in DOMAIN map : k # pid => map2[k] = map[k]
    BY <1>2 DEF Update
  <2>2. Recorded(map2, lp2, att, pid, at)
    BY Zenon, <1>2, <2>1 DEF Recorded, Moved
  <2>3. \A q \in Pids : q # pid => Recorded(map2, lp2, att, q, at)
    BY Zenon, <2>1 DEF Recorded, Moved
  <2> QED
    BY Zenon, <2>2, <2>3
<1>3. CASE pid \notin att
  <2>1. map2 = map /\ since = Untraced
    BY Zenon, <1>3
  <2>2. Recorded(map2, lp2, att, pid, at)
    BY Zenon, <1>1, <2>1 DEF Recorded, Moved
  <2>3. \A q \in Pids : q # pid => Recorded(map2, lp2, att, q, at)
    BY Zenon, <2>1 DEF Recorded, Moved
  <2> QED
    BY Zenon, <2>2, <2>3
<1> QED
  BY Zenon, <1>2, <1>3

\* The loop moves between other places.
LEMMA MovedElsewhere ==
  ASSUME NEW lp, NEW lp2, NEW map, NEW att, NEW pid, NEW at, NEW a, NEW since,
         pid \in DOMAIN lp, lp[pid].at # at, a # at, Moved(lp, lp2, pid, a, since),
         \A q \in Pids : Recorded(map, lp, att, q, at), pid \in Pids
  PROVE  \A q \in Pids : Recorded(map, lp2, att, q, at)
<1>1. Recorded(map, lp2, att, pid, at)
  BY Zenon DEF Recorded, Moved
<1>2. \A q \in Pids : q # pid => Recorded(map, lp2, att, q, at)
  BY Zenon DEF Recorded, Moved
<1> QED
  BY Zenon, <1>1, <1>2

\* The loop leaves a place: its time is deleted if there is one.
LEMMA EntryDropped ==
  ASSUME NEW lp, NEW lp2, NEW map, NEW map2, NEW att, NEW pid, NEW at,
         pid \in DOMAIN lp, Moved(lp, lp2, pid, "poll", Untraced),
         \A q \in Pids : Recorded(map, lp, att, q, at), pid \in Pids,
         pid \in att /\ pid \in DOMAIN map => map2 = Delete(map, pid),
         ~(pid \in att /\ pid \in DOMAIN map) => map2 = map
  PROVE  \A q \in Pids : Recorded(map2, lp2, att, q, at)
<1>1. /\ DOMAIN map2 = DOMAIN map \ {pid}
      /\ \A k \in DOMAIN map : k # pid => map2[k] = map[k]
  <2>1. /\ DOMAIN Delete(map, pid) = DOMAIN map \ {pid}
        /\ \A k \in DOMAIN map : k # pid => Delete(map, pid)[k] = map[k]
    BY Zenon, DeleteIs
  <2>2. pid \in DOMAIN map => pid \in att
    BY Zenon DEF Recorded
  <2> QED
    BY Zenon, <2>1, <2>2
<1>2. Recorded(map2, lp2, att, pid, at)
  BY Zenon, <1>1 DEF Recorded, Moved
<1>3. \A q \in Pids : q # pid => Recorded(map2, lp2, att, q, at)
  BY Zenon, <1>1 DEF Recorded, Moved
<1> QED
  BY Zenon, <1>2, <1>3

\* A loop leaves a place: the probe adds the time since the entry to the
\* statistics, the history what the loop spent there.
Leaves(map, stats, stats2, total, total2, lp, att, pid, at) ==
  /\ IsMap(map, Pids, Times) /\ Past(map)
  /\ IsMap(stats, Pids, Nat) /\ total \in [Pids -> Nat] /\ pid \in Pids
  /\ pid \in DOMAIN lp /\ lp[pid].at = at /\ Recorded(map, lp, att, pid, at)
  /\ pid \in att /\ pid \in DOMAIN map => stats2 = AddStat(stats, pid, now - map[pid])
  /\ ~(pid \in att /\ pid \in DOMAIN map) => stats2 = stats
  /\ total2 = [total EXCEPT ![pid] = @ + Elapsed(lp[pid].since)]

\* The two are the same.
LEMMA LeaveCounted ==
  ASSUME now \in Times, NEW map, NEW stats, NEW stats2, NEW total, NEW total2, NEW lp, NEW att,
         NEW pid, NEW at, Leaves(map, stats, stats2, total, total2, lp, att, pid, at)
  PROVE  /\ IsMap(stats2, Pids, Nat) /\ total2 \in [Pids -> Nat]
         /\ DOMAIN stats2 \subseteq DOMAIN stats \cup {pid}
         /\ \A q \in Pids : Stat(stats, q) = total[q] => Stat(stats2, q) = total2[q]
<1> USE DEF Leaves
<1>1. CASE pid \in DOMAIN map
  <2>1. pid \in att /\ map[pid] = lp[pid].since /\ lp[pid].since # Untraced
    BY Zenon, <1>1 DEF Recorded
  <2>2. map[pid] \in Times /\ map[pid] <= now
    BY Zenon, <1>1 DEF IsMap, Past
  <2>3. PICK s \in Times : s = map[pid] /\ s <= now
    BY Zenon, <2>2
  <2>4. PICK d \in Nat : d = now - s
    BY <2>3, ProcessAssumption DEF Times
  <2>5. Elapsed(lp[pid].since) = d
    BY Zenon, <2>1, <2>3, <2>4 DEF Elapsed
  <2>6. stats2 = AddStat(stats, pid, d)
    BY Zenon, <1>1, <2>1, <2>3, <2>4
  <2>7. /\ IsMap(AddStat(stats, pid, d), Pids, Nat)
        /\ DOMAIN AddStat(stats, pid, d) = DOMAIN stats \cup {pid}
        /\ Stat(AddStat(stats, pid, d), pid) = Stat(stats, pid) + d
        /\ \A q : q # pid => Stat(AddStat(stats, pid, d), q) = Stat(stats, q)
    BY Zenon, AddStatIs
  <2>8. /\ [total EXCEPT ![pid] = @ + d] \in [Pids -> Nat]
        /\ [total EXCEPT ![pid] = @ + d][pid] = total[pid] + d
        /\ \A q \in Pids : q # pid => [total EXCEPT ![pid] = @ + d][q] = total[q]
    OBVIOUS
  <2>9. total2 = [total EXCEPT ![pid] = @ + d]
    BY Zenon, <2>5
  <2> QED
    BY Zenon, <2>6, <2>7, <2>8, <2>9
<1>2. CASE pid \notin DOMAIN map
  <2>1. lp[pid].since = Untraced /\ stats2 = stats
    BY Zenon, <1>2 DEF Recorded
  <2>2. Elapsed(lp[pid].since) = 0
    BY Zenon, <2>1 DEF Elapsed
  <2>3. total2 = [total EXCEPT ![pid] = @ + 0]
    BY Zenon, <2>2
  <2>4. [total EXCEPT ![pid] = @ + 0] = total
    OBVIOUS
  <2> QED
    BY Zenon, <2>1, <2>3, <2>4
<1> QED
  BY Zenon, <1>1, <1>2

\* The types of the Node.js maps
NodejsTypes ==
  /\ now \in Times
  /\ IsMap(loop, Pids, LoopState)
  /\ IsMap(nodejs_prev_event_loop_iter, Pids, Times) /\ IsMap(nodejs_current_io_cb, Pids, Times)
  /\ IsMap(nodejs_stats, Pids, Nat) /\ blocked \in [Pids -> Nat]
  /\ Past(nodejs_prev_event_loop_iter) /\ Past(nodejs_current_io_cb)

\* The time of an iteration, or of a callback, is noted for the loops that are
\* there; only a live process has statistics, and they are what it was blocked.
NodejsInv ==
  /\ DOMAIN loop = Alive
  /\ \A pid \in Pids : Recorded(nodejs_prev_event_loop_iter, loop, attached, pid, "run")
  /\ \A pid \in Pids : Recorded(nodejs_current_io_cb, loop, attached, pid, "callback")
  /\ DOMAIN nodejs_stats \subseteq Alive
  /\ \A pid \in Alive : Stat(nodejs_stats, pid) = blocked[pid]

\* A step that leaves the event loops alone, and their probes attached.
LEMMA NodejsFrame ==
  ASSUME NodejsTypes, NodejsInv, UNCHANGED <<now, nodejsVars>>,
         \A pid \in Alive : pid \in attached => pid \in attached',
         Alive' = Alive
  PROVE  NodejsTypes' /\ NodejsInv'
<1>1. /\ loop' = loop /\ nodejs_prev_event_loop_iter' = nodejs_prev_event_loop_iter
      /\ nodejs_current_io_cb' = nodejs_current_io_cb /\ nodejs_stats' = nodejs_stats
      /\ blocked' = blocked /\ now' = now
  BY Zenon DEF nodejsVars
<1>2. NodejsTypes'
  BY Zenon, <1>1 DEF NodejsTypes, Past
<1>3. \A pid \in Pids : Recorded(nodejs_prev_event_loop_iter, loop, attached', pid, "run")
  BY Zenon DEF NodejsInv, Recorded
<1>4. \A pid \in Pids : Recorded(nodejs_current_io_cb, loop, attached', pid, "callback")
  BY Zenon DEF NodejsInv, Recorded
<1> QED
  BY Zenon, <1>1, <1>2, <1>3, <1>4 DEF NodejsInv

\* A new process has an event loop that no map knows.
LEMMA ForkNodejs ==
  ASSUME NodejsTypes, NodejsInv, NEW pid \in Pids, Fork(pid),
         Alive' = Alive \cup {pid}, pid \notin Alive
  PROVE  NodejsTypes' /\ NodejsInv'
<1>1. /\ loop' = Update(loop, pid, [at |-> "run", since |-> Untraced])
      /\ nodejs_prev_event_loop_iter' = nodejs_prev_event_loop_iter
      /\ nodejs_current_io_cb' = nodejs_current_io_cb /\ nodejs_stats' = nodejs_stats
      /\ blocked' = [blocked EXCEPT ![pid] = 0] /\ now' = now /\ attached' = attached
  BY Zenon DEF Fork
<1>2. [at |-> "run", since |-> Untraced] \in LoopState
  BY DEF LoopState, Since
<1>3. IsMap(loop', Pids, LoopState)
  BY Zenon, <1>1, <1>2, UpdateType DEF NodejsTypes
<1>4. /\ DOMAIN loop' = DOMAIN loop \cup {pid} /\ loop'[pid].since = Untraced
      /\ \A q \in DOMAIN loop : q # pid => loop'[q] = loop[q]
  BY <1>1 DEF Update
<1>5. /\ blocked' \in [Pids -> Nat] /\ blocked'[pid] = 0
      /\ \A q \in Pids : q # pid => blocked'[q] = blocked[q]
  BY <1>1 DEF NodejsTypes
<1>6. NodejsTypes'
  BY Zenon, <1>1, <1>3, <1>5 DEF NodejsTypes, Past
<1>7. ASSUME NEW map, NEW at, \A q \in Pids : Recorded(map, loop, attached, q, at)
      PROVE  \A q \in Pids : Recorded(map, loop', attached', q, at)
  <2>1. pid \notin DOMAIN loop
    BY Zenon DEF NodejsInv
  <2>2. Recorded(map, loop', attached', pid, at)
    BY Zenon, <1>4, <1>7, <2>1 DEF Recorded
  <2>3. \A q \in Pids : q # pid => Recorded(map, loop', attached', q, at)
    BY Zenon, <1>1, <1>4, <1>7 DEF Recorded
  <2> QED
    BY Zenon, <2>2, <2>3
<1>8. \A q \in Pids : Recorded(nodejs_prev_event_loop_iter', loop', attached', q, "run")
  BY Zenon, <1>1, <1>7 DEF NodejsInv
<1>9. \A q \in Pids : Recorded(nodejs_current_io_cb', loop', attached', q, "callback")
  BY Zenon, <1>1, <1>7 DEF NodejsInv
<1>10. Stat(nodejs_stats, pid) = 0
  BY Zenon DEF NodejsInv, Stat
<1>11. \A q \in Alive' : Stat(nodejs_stats', q) = blocked'[q]
  BY Zenon, <1>1, <1>5, <1>10 DEF NodejsInv, Alive
<1>12. DOMAIN loop' = Alive' /\ DOMAIN nodejs_stats' \subseteq Alive'
  BY Zenon, <1>1, <1>4 DEF NodejsInv
<1> QED
  BY Zenon, <1>6, <1>8, <1>9, <1>11, <1>12 DEF NodejsInv

\* sched_process_exit of a leader deletes what the programs noted of its loop.
LEMMA ExitLeaderNodejs ==
  ASSUME TaskTypes, NodejsTypes, NodejsInv, NEW t \in Thread, Exit(t), t.n = 1,
         Alive' = Alive \ {t.pid}
  PROVE  NodejsTypes' /\ NodejsInv'
<1>1. /\ loop' = Delete(loop, t.pid)
      /\ nodejs_prev_event_loop_iter' = Delete(nodejs_prev_event_loop_iter, t.pid)
      /\ nodejs_current_io_cb' = Delete(nodejs_current_io_cb, t.pid)
      /\ nodejs_stats' = Delete(nodejs_stats, t.pid)
      /\ blocked' = blocked /\ now' = now
      /\ attached' = IF threads' \cap ThreadsOf(t.pid) = {} THEN attached \ {t.pid} ELSE attached
  BY Zenon DEF Exit, ForgetProcess
<1>2. ASSUME NEW map, NEW Values, IsMap(map, Pids, Values)
      PROVE  /\ IsMap(Delete(map, t.pid), Pids, Values)
             /\ DOMAIN Delete(map, t.pid) = DOMAIN map \ {t.pid}
             /\ \A k \in DOMAIN map : k # t.pid => Delete(map, t.pid)[k] = map[k]
  <2>1. IsMap(Delete(map, t.pid), Pids, Values)
    BY Zenon, <1>2, DeleteOneType
  <2> QED
    BY Zenon, <2>1, DeleteIs
<1>3. /\ IsMap(loop', Pids, LoopState) /\ DOMAIN loop' = DOMAIN loop \ {t.pid}
      /\ \A k \in DOMAIN loop : k # t.pid => loop'[k] = loop[k]
  BY Zenon, <1>1, <1>2 DEF NodejsTypes
<1>4. /\ IsMap(nodejs_stats', Pids, Nat) /\ DOMAIN nodejs_stats' = DOMAIN nodejs_stats \ {t.pid}
  BY Zenon, <1>1, <1>2 DEF NodejsTypes
<1>5. \A q : q # t.pid => Stat(nodejs_stats', q) = Stat(nodejs_stats, q)
  BY Zenon, <1>1, DeleteStat
<1>6. ASSUME NEW map, IsMap(map, Pids, Times), Past(map), NEW at,
             \A q \in Pids : Recorded(map, loop, attached, q, at)
      PROVE  /\ IsMap(Delete(map, t.pid), Pids, Times)
             /\ \A k \in DOMAIN Delete(map, t.pid) : Delete(map, t.pid)[k] <= now
             /\ \A q \in Pids : Recorded(Delete(map, t.pid), loop', attached', q, at)
  <2>1. /\ IsMap(Delete(map, t.pid), Pids, Times)
        /\ DOMAIN Delete(map, t.pid) = DOMAIN map \ {t.pid}
        /\ \A k \in DOMAIN map : k # t.pid => Delete(map, t.pid)[k] = map[k]
    BY Zenon, <1>2, <1>6
  <2>2. Recorded(Delete(map, t.pid), loop', attached', t.pid, at)
    BY Zenon, <1>3, <2>1 DEF Recorded
  <2>3. \A q \in Pids : q # t.pid => (q \in attached' <=> q \in attached)
    BY Zenon, <1>1
  <2>4. \A q \in Pids : q # t.pid => Recorded(Delete(map, t.pid), loop', attached', q, at)
    BY Zenon, <1>3, <1>6, <2>1, <2>3 DEF Recorded
  <2>5. \A k \in DOMAIN Delete(map, t.pid) : Delete(map, t.pid)[k] <= now
    BY Zenon, <1>6, <2>1 DEF Past
  <2> QED
    BY Zenon, <2>1, <2>2, <2>4, <2>5
<1>7. /\ IsMap(nodejs_prev_event_loop_iter', Pids, Times) /\ Past(nodejs_prev_event_loop_iter)'
      /\ \A q \in Pids : Recorded(nodejs_prev_event_loop_iter', loop', attached', q, "run")
  BY Zenon, <1>1, <1>6 DEF NodejsTypes, NodejsInv, Past
<1>8. /\ IsMap(nodejs_current_io_cb', Pids, Times) /\ Past(nodejs_current_io_cb)'
      /\ \A q \in Pids : Recorded(nodejs_current_io_cb', loop', attached', q, "callback")
  BY Zenon, <1>1, <1>6 DEF NodejsTypes, NodejsInv, Past
<1>9. NodejsTypes'
  BY Zenon, <1>1, <1>3, <1>4, <1>7, <1>8 DEF NodejsTypes
<1>10. \A q \in Alive' : Stat(nodejs_stats', q) = blocked'[q]
  BY Zenon, <1>1, <1>5 DEF NodejsInv
<1>11. DOMAIN loop' = Alive' /\ DOMAIN nodejs_stats' \subseteq Alive'
  BY Zenon, <1>3, <1>4 DEF NodejsInv
<1> QED
  BY Zenon, <1>7, <1>8, <1>9, <1>10, <1>11 DEF NodejsInv

\* The exit of another thread may take the uprobes away, with the last of them.
LEMMA ExitNodejs ==
  ASSUME TaskTypes, TaskInv, NodejsTypes, NodejsInv, NEW t \in Thread, Exit(t),
         t.n = 1 => Alive' = Alive \ {t.pid},
         t.n # 1 => Alive' = Alive
  PROVE  NodejsTypes' /\ NodejsInv'
<1>1. CASE t.n = 1
  BY Zenon, <1>1, ExitLeaderNodejs
<1>2. CASE t.n # 1
  <2>1. /\ UNCHANGED <<now, nodejsVars>> /\ t \in threads /\ threads' = threads \ {t}
        /\ attached' = IF threads' \cap ThreadsOf(t.pid) = {} THEN attached \ {t.pid} ELSE attached
    BY Zenon, <1>2 DEF Exit, nodejsVars
  <2>2. threads' \cap ThreadsOf(t.pid) = {} => t.pid \notin Alive
    BY Zenon, <1>2, <2>1, ExitThreads
  <2>3. \A pid \in Alive : pid \in attached => pid \in attached'
    BY Zenon, <2>1, <2>2
  <2> QED
    BY Zenon, <1>2, <2>1, <2>3, NodejsFrame
<1> QED
  BY Zenon, <1>1, <1>2

\* A map whose value for a key it has is replaced; one whose entries are past.
LEMMA ReplaceType ==
  ASSUME NEW Keys, NEW Values, NEW map, IsMap(map, Keys, Values), NEW key \in DOMAIN map,
         NEW value \in Values
  PROVE  IsMap([map EXCEPT ![key] = value], Keys, Values)
BY DEF IsMap

\* A map of times that are past takes the present one.
LEMMA UpdatePast ==
  ASSUME NEW map, NEW key, NEW v, v <= v, \A k \in DOMAIN map : map[k] <= v
  PROVE  \A k \in DOMAIN Update(map, key, v) : Update(map, key, v)[k] <= v
<1>1. /\ DOMAIN Update(map, key, v) = DOMAIN map \cup {key}
      /\ Update(map, key, v)[key] = v
      /\ \A k \in DOMAIN map : k # key => Update(map, key, v)[k] = map[k]
  BY DEF Update
<1> QED
  BY Zenon, <1>1

\* uv_io_poll_exit notes the time its loop came there.
LEMMA UvIoPollExitNodejs ==
  ASSUME NodejsTypes, NodejsInv, NEW pid \in Pids, UvIoPollExit(pid), Alive' = Alive
  PROVE  NodejsTypes' /\ NodejsInv'
<1>1. /\ pid \in DOMAIN loop /\ loop[pid].at = "poll"
      /\ loop' = [loop EXCEPT ![pid] = [at |-> "run", since |-> EnteredAt(pid)]]
      /\ nodejs_prev_event_loop_iter' =
           IF pid \in attached THEN Update(nodejs_prev_event_loop_iter, pid, now)
           ELSE nodejs_prev_event_loop_iter
      /\ nodejs_current_io_cb' = nodejs_current_io_cb
      /\ nodejs_stats' = nodejs_stats /\ blocked' = blocked /\ now' = now /\ attached' = attached
  BY Zenon DEF UvIoPollExit, AtLoop
<1>2. /\ EnteredAt(pid) \in Since
      /\ pid \in attached => EnteredAt(pid) = now /\ EnteredAt(pid) # Untraced
      /\ pid \notin attached => EnteredAt(pid) = Untraced
  BY Zenon, TimesTraced DEF EnteredAt, Since, NodejsTypes
<1>3. Moved(loop, loop', pid, "run", EnteredAt(pid))
  BY Zenon, <1>1, MovedIs
<1>4. IsMap(loop', Pids, LoopState)
  <2>1. [at |-> "run", since |-> EnteredAt(pid)] \in LoopState
    BY <1>2 DEF LoopState
  <2> QED
    BY Zenon, <1>1, <2>1, ReplaceType DEF NodejsTypes
<1>5. /\ pid \in attached => nodejs_prev_event_loop_iter' = Update(nodejs_prev_event_loop_iter, pid, EnteredAt(pid))
      /\ pid \notin attached => nodejs_prev_event_loop_iter' = nodejs_prev_event_loop_iter
  BY Zenon, <1>1, <1>2
<1>6. "poll" # "run" /\ "run" # "callback" /\ "poll" # "callback"
  OBVIOUS
<1>7. \A q \in Pids : Recorded(nodejs_prev_event_loop_iter', loop', attached, q, "run")
  <2>1. \A q \in Pids : Recorded(nodejs_prev_event_loop_iter, loop, attached, q, "run")
    BY Zenon DEF NodejsInv
  <2> QED
    BY Zenon, <1>1, <1>2, <1>3, <1>5, <1>6, <2>1, EntryNoted
<1>8. \A q \in Pids : Recorded(nodejs_current_io_cb, loop', attached, q, "callback")
  <2>1. \A q \in Pids : Recorded(nodejs_current_io_cb, loop, attached, q, "callback")
    BY Zenon DEF NodejsInv
  <2> QED
    BY Zenon, <1>1, <1>3, <1>6, <2>1, MovedElsewhere
<1>9. IsMap(nodejs_prev_event_loop_iter', Pids, Times) /\ Past(nodejs_prev_event_loop_iter)'
  <2>1. PICK v \in Times : v = now /\ v <= v
    BY ProcessAssumption DEF NodejsTypes, Times
  <2>2. IsMap(Update(nodejs_prev_event_loop_iter, pid, v), Pids, Times)
    BY Zenon, UpdateType DEF NodejsTypes
  <2>3. \A k \in DOMAIN Update(nodejs_prev_event_loop_iter, pid, v) :
          Update(nodejs_prev_event_loop_iter, pid, v)[k] <= v
    BY Zenon, <2>1, UpdatePast DEF NodejsTypes, Past
  <2>4. pid \in attached => nodejs_prev_event_loop_iter' = Update(nodejs_prev_event_loop_iter, pid, v)
    BY Zenon, <1>1, <2>1
  <2> QED
    BY Zenon, <1>1, <1>5, <2>1, <2>2, <2>3, <2>4 DEF NodejsTypes, Past
<1>10. NodejsTypes'
  BY Zenon, <1>1, <1>4, <1>9 DEF NodejsTypes, Past
<1>11. DOMAIN loop' = Alive'
  BY Zenon, <1>3 DEF Moved, NodejsInv
<1> QED
  BY Zenon, <1>1, <1>7, <1>8, <1>10, <1>11 DEF NodejsInv

\* uv_io_poll_enter adds what the loop spent there.
LEMMA UvIoPollEnterNodejs ==
  ASSUME NodejsTypes, NodejsInv, NEW pid \in Pids, UvIoPollEnter(pid), Alive' = Alive
  PROVE  NodejsTypes' /\ NodejsInv'
<1> DEFINE traced == pid \in attached /\ pid \in DOMAIN nodejs_prev_event_loop_iter
<1>1. /\ pid \in DOMAIN loop /\ loop[pid].at = "run"
      /\ loop' = [loop EXCEPT ![pid] = [at |-> "poll", since |-> Untraced]]
      /\ blocked' = [blocked EXCEPT ![pid] = @ + Elapsed(loop[pid].since)]
      /\ nodejs_current_io_cb' = nodejs_current_io_cb
      /\ now' = now /\ attached' = attached
  BY Zenon DEF UvIoPollEnter, AtLoop
<1>2. /\ traced => /\ nodejs_stats' = AddStat(nodejs_stats, pid, now - nodejs_prev_event_loop_iter[pid])
                   /\ nodejs_prev_event_loop_iter' = Delete(nodejs_prev_event_loop_iter, pid)
      /\ ~traced => /\ nodejs_stats' = nodejs_stats
                    /\ nodejs_prev_event_loop_iter' = nodejs_prev_event_loop_iter
  BY Zenon DEF UvIoPollEnter
<1>3. Moved(loop, loop', pid, "poll", Untraced)
  BY Zenon, <1>1, MovedIs
<1>4. IsMap(loop', Pids, LoopState)
  <2>1. [at |-> "poll", since |-> Untraced] \in LoopState
    BY DEF LoopState, Since
  <2> QED
    BY Zenon, <1>1, <2>1, ReplaceType DEF NodejsTypes
<1>5. "run" # "callback" /\ "poll" # "callback"
  OBVIOUS
<1>6. /\ \A q \in Pids : Recorded(nodejs_prev_event_loop_iter, loop, attached, q, "run")
      /\ \A q \in Pids : Recorded(nodejs_current_io_cb, loop, attached, q, "callback")
  BY Zenon DEF NodejsInv
<1>7. \A q \in Pids : Recorded(nodejs_prev_event_loop_iter', loop', attached, q, "run")
  <2>1. /\ traced => nodejs_prev_event_loop_iter' = Delete(nodejs_prev_event_loop_iter, pid)
        /\ ~traced => nodejs_prev_event_loop_iter' = nodejs_prev_event_loop_iter
    BY Zenon, <1>2
  <2>2. pid \in DOMAIN loop
    BY Zenon, <1>1
  <2>3. \A q \in Pids : Recorded(nodejs_prev_event_loop_iter, loop, attached, q, "run")
    BY Zenon, <1>6
  <2> QED
    BY Zenon, <1>3, <2>1, <2>2, <2>3, EntryDropped
<1>8. \A q \in Pids : Recorded(nodejs_current_io_cb, loop', attached, q, "callback")
  BY Zenon, <1>1, <1>3, <1>5, <1>6, MovedElsewhere
<1>9. /\ IsMap(nodejs_stats', Pids, Nat) /\ blocked' \in [Pids -> Nat]
      /\ DOMAIN nodejs_stats' \subseteq DOMAIN nodejs_stats \cup {pid}
      /\ \A q \in Pids : Stat(nodejs_stats, q) = blocked[q] => Stat(nodejs_stats', q) = blocked'[q]
  <2>1. /\ now \in Times /\ IsMap(nodejs_prev_event_loop_iter, Pids, Times)
        /\ Past(nodejs_prev_event_loop_iter) /\ IsMap(nodejs_stats, Pids, Nat)
        /\ blocked \in [Pids -> Nat]
    BY Zenon DEF NodejsTypes
  <2>2. Recorded(nodejs_prev_event_loop_iter, loop, attached, pid, "run")
    BY Zenon, <1>6
  <2>3. Leaves(nodejs_prev_event_loop_iter, nodejs_stats, nodejs_stats', blocked, blocked', loop,
               attached, pid, "run")
    BY Zenon, <1>1, <1>2, <2>1, <2>2 DEF Leaves
  <2> QED
    BY <2>1, <2>3, LeaveCounted
<1>10. IsMap(nodejs_prev_event_loop_iter', Pids, Times) /\ Past(nodejs_prev_event_loop_iter)'
  <2>1. IsMap(Delete(nodejs_prev_event_loop_iter, pid), Pids, Times)
    BY Zenon, DeleteOneType DEF NodejsTypes
  <2>2. /\ DOMAIN Delete(nodejs_prev_event_loop_iter, pid) = DOMAIN nodejs_prev_event_loop_iter \ {pid}
        /\ \A k \in DOMAIN nodejs_prev_event_loop_iter :
             k # pid => Delete(nodejs_prev_event_loop_iter, pid)[k] = nodejs_prev_event_loop_iter[k]
    BY Zenon, DeleteIs
  <2>3. Past(Delete(nodejs_prev_event_loop_iter, pid))
    BY Zenon, <2>2 DEF NodejsTypes, Past
  <2>4. traced => IsMap(nodejs_prev_event_loop_iter', Pids, Times) /\ Past(nodejs_prev_event_loop_iter)'
    BY Zenon, <1>1, <1>2, <2>1, <2>3 DEF Past
  <2>5. ~traced => IsMap(nodejs_prev_event_loop_iter', Pids, Times) /\ Past(nodejs_prev_event_loop_iter)'
    BY Zenon, <1>1, <1>2 DEF NodejsTypes, Past
  <2> QED
    BY Zenon, <2>4, <2>5
<1>11. NodejsTypes'
  BY Zenon, <1>1, <1>4, <1>9, <1>10 DEF NodejsTypes, Past
<1>12. DOMAIN loop' = Alive' /\ pid \in Alive
  BY Zenon, <1>1, <1>3 DEF Moved, NodejsInv
<1>13. DOMAIN nodejs_stats' \subseteq Alive'
  BY Zenon, <1>9, <1>12 DEF NodejsInv
<1>14. \A q \in Alive' : Stat(nodejs_stats', q) = blocked'[q]
  BY Zenon, <1>9 DEF NodejsInv, Alive
<1> QED
  BY Zenon, <1>1, <1>7, <1>8, <1>11, <1>12, <1>13, <1>14 DEF NodejsInv

\* uv_io_cb_enter notes the time its loop came there.
LEMMA UvIoCbEnterNodejs ==
  ASSUME NodejsTypes, NodejsInv, NEW pid \in Pids, UvIoCbEnter(pid), Alive' = Alive
  PROVE  NodejsTypes' /\ NodejsInv'
<1>1. /\ pid \in DOMAIN loop /\ loop[pid].at = "poll"
      /\ loop' = [loop EXCEPT ![pid] = [at |-> "callback", since |-> EnteredAt(pid)]]
      /\ nodejs_current_io_cb' =
           IF pid \in attached THEN Update(nodejs_current_io_cb, pid, now)
           ELSE nodejs_current_io_cb
      /\ nodejs_prev_event_loop_iter' = nodejs_prev_event_loop_iter
      /\ nodejs_stats' = nodejs_stats /\ blocked' = blocked /\ now' = now /\ attached' = attached
  BY Zenon DEF UvIoCbEnter, AtLoop
<1>2. /\ EnteredAt(pid) \in Since
      /\ pid \in attached => EnteredAt(pid) = now /\ EnteredAt(pid) # Untraced
      /\ pid \notin attached => EnteredAt(pid) = Untraced
  BY Zenon, TimesTraced DEF EnteredAt, Since, NodejsTypes
<1>3. Moved(loop, loop', pid, "callback", EnteredAt(pid))
  BY Zenon, <1>1, MovedIs
<1>4. IsMap(loop', Pids, LoopState)
  <2>1. [at |-> "callback", since |-> EnteredAt(pid)] \in LoopState
    BY <1>2 DEF LoopState
  <2> QED
    BY Zenon, <1>1, <2>1, ReplaceType DEF NodejsTypes
<1>5. /\ pid \in attached => nodejs_current_io_cb' = Update(nodejs_current_io_cb, pid, EnteredAt(pid))
      /\ pid \notin attached => nodejs_current_io_cb' = nodejs_current_io_cb
  BY Zenon, <1>1, <1>2
<1>6. "poll" # "callback" /\ "callback" # "run" /\ "poll" # "run"
  OBVIOUS
<1>7. \A q \in Pids : Recorded(nodejs_current_io_cb', loop', attached, q, "callback")
  <2>1. \A q \in Pids : Recorded(nodejs_current_io_cb, loop, attached, q, "callback")
    BY Zenon DEF NodejsInv
  <2> QED
    BY Zenon, <1>1, <1>2, <1>3, <1>5, <1>6, <2>1, EntryNoted
<1>8. \A q \in Pids : Recorded(nodejs_prev_event_loop_iter, loop', attached, q, "run")
  <2>1. \A q \in Pids : Recorded(nodejs_prev_event_loop_iter, loop, attached, q, "run")
    BY Zenon DEF NodejsInv
  <2> QED
    BY Zenon, <1>1, <1>3, <1>6, <2>1, MovedElsewhere
<1>9. IsMap(nodejs_current_io_cb', Pids, Times) /\ Past(nodejs_current_io_cb)'
  <2>1. PICK v \in Times : v = now /\ v <= v
    BY ProcessAssumption DEF NodejsTypes, Times
  <2>2. IsMap(Update(nodejs_current_io_cb, pid, v), Pids, Times)
    BY Zenon, UpdateType DEF NodejsTypes
  <2>3. \A k \in DOMAIN Update(nodejs_current_io_cb, pid, v) :
          Update(nodejs_current_io_cb, pid, v)[k] <= v
    BY Zenon, <2>1, UpdatePast DEF NodejsTypes, Past
  <2>4. pid \in attached => nodejs_current_io_cb' = Update(nodejs_current_io_cb, pid, v)
    BY Zenon, <1>1, <2>1
  <2> QED
    BY Zenon, <1>1, <1>5, <2>1, <2>2, <2>3, <2>4 DEF NodejsTypes, Past
<1>10. NodejsTypes'
  BY Zenon, <1>1, <1>4, <1>9 DEF NodejsTypes, Past
<1>11. DOMAIN loop' = Alive'
  BY Zenon, <1>3 DEF Moved, NodejsInv
<1> QED
  BY Zenon, <1>1, <1>7, <1>8, <1>10, <1>11 DEF NodejsInv

\* uv_io_cb_exit adds what the loop spent there.
LEMMA UvIoCbExitNodejs ==
  ASSUME NodejsTypes, NodejsInv, NEW pid \in Pids, UvIoCbExit(pid), Alive' = Alive
  PROVE  NodejsTypes' /\ NodejsInv'
<1> DEFINE traced == pid \in attached /\ pid \in DOMAIN nodejs_current_io_cb
<1>1. /\ pid \in DOMAIN loop /\ loop[pid].at = "callback"
      /\ loop' = [loop EXCEPT ![pid] = [at |-> "poll", since |-> Untraced]]
      /\ blocked' = [blocked EXCEPT ![pid] = @ + Elapsed(loop[pid].since)]
      /\ nodejs_prev_event_loop_iter' = nodejs_prev_event_loop_iter
      /\ now' = now /\ attached' = attached
  BY Zenon DEF UvIoCbExit, AtLoop
<1>2. /\ traced => /\ nodejs_stats' = AddStat(nodejs_stats, pid, now - nodejs_current_io_cb[pid])
                   /\ nodejs_current_io_cb' = Delete(nodejs_current_io_cb, pid)
      /\ ~traced => /\ nodejs_stats' = nodejs_stats
                    /\ nodejs_current_io_cb' = nodejs_current_io_cb
  BY Zenon DEF UvIoCbExit
<1>3. Moved(loop, loop', pid, "poll", Untraced)
  BY Zenon, <1>1, MovedIs
<1>4. IsMap(loop', Pids, LoopState)
  <2>1. [at |-> "poll", since |-> Untraced] \in LoopState
    BY DEF LoopState, Since
  <2> QED
    BY Zenon, <1>1, <2>1, ReplaceType DEF NodejsTypes
<1>5. "callback" # "run" /\ "poll" # "run"
  OBVIOUS
<1>6. /\ \A q \in Pids : Recorded(nodejs_current_io_cb, loop, attached, q, "callback")
      /\ \A q \in Pids : Recorded(nodejs_prev_event_loop_iter, loop, attached, q, "run")
  BY Zenon DEF NodejsInv
<1>7. \A q \in Pids : Recorded(nodejs_current_io_cb', loop', attached, q, "callback")
  <2>1. /\ traced => nodejs_current_io_cb' = Delete(nodejs_current_io_cb, pid)
        /\ ~traced => nodejs_current_io_cb' = nodejs_current_io_cb
    BY Zenon, <1>2
  <2>2. pid \in DOMAIN loop
    BY Zenon, <1>1
  <2>3. \A q \in Pids : Recorded(nodejs_current_io_cb, loop, attached, q, "callback")
    BY Zenon, <1>6
  <2> QED
    BY Zenon, <1>3, <2>1, <2>2, <2>3, EntryDropped
<1>8. \A q \in Pids : Recorded(nodejs_prev_event_loop_iter, loop', attached, q, "run")
  BY Zenon, <1>1, <1>3, <1>5, <1>6, MovedElsewhere
<1>9. /\ IsMap(nodejs_stats', Pids, Nat) /\ blocked' \in [Pids -> Nat]
      /\ DOMAIN nodejs_stats' \subseteq DOMAIN nodejs_stats \cup {pid}
      /\ \A q \in Pids : Stat(nodejs_stats, q) = blocked[q] => Stat(nodejs_stats', q) = blocked'[q]
  <2>1. /\ now \in Times /\ IsMap(nodejs_current_io_cb, Pids, Times)
        /\ Past(nodejs_current_io_cb) /\ IsMap(nodejs_stats, Pids, Nat)
        /\ blocked \in [Pids -> Nat]
    BY Zenon DEF NodejsTypes
  <2>2. Recorded(nodejs_current_io_cb, loop, attached, pid, "callback")
    BY Zenon, <1>6
  <2>3. Leaves(nodejs_current_io_cb, nodejs_stats, nodejs_stats', blocked, blocked', loop,
               attached, pid, "callback")
    BY Zenon, <1>1, <1>2, <2>1, <2>2 DEF Leaves
  <2> QED
    BY <2>1, <2>3, LeaveCounted
<1>10. IsMap(nodejs_current_io_cb', Pids, Times) /\ Past(nodejs_current_io_cb)'
  <2>1. IsMap(Delete(nodejs_current_io_cb, pid), Pids, Times)
    BY Zenon, DeleteOneType DEF NodejsTypes
  <2>2. /\ DOMAIN Delete(nodejs_current_io_cb, pid) = DOMAIN nodejs_current_io_cb \ {pid}
        /\ \A k \in DOMAIN nodejs_current_io_cb :
             k # pid => Delete(nodejs_current_io_cb, pid)[k] = nodejs_current_io_cb[k]
    BY Zenon, DeleteIs
  <2>3. Past(Delete(nodejs_current_io_cb, pid))
    BY Zenon, <2>2 DEF NodejsTypes, Past
  <2>4. traced => IsMap(nodejs_current_io_cb', Pids, Times) /\ Past(nodejs_current_io_cb)'
    BY Zenon, <1>1, <1>2, <2>1, <2>3 DEF Past
  <2>5. ~traced => IsMap(nodejs_current_io_cb', Pids, Times) /\ Past(nodejs_current_io_cb)'
    BY Zenon, <1>1, <1>2 DEF NodejsTypes, Past
  <2> QED
    BY Zenon, <2>4, <2>5
<1>11. NodejsTypes'
  BY Zenon, <1>1, <1>4, <1>9, <1>10 DEF NodejsTypes, Past
<1>12. DOMAIN loop' = Alive' /\ pid \in Alive
  BY Zenon, <1>1, <1>3 DEF Moved, NodejsInv
<1>13. DOMAIN nodejs_stats' \subseteq Alive'
  BY Zenon, <1>9, <1>12 DEF NodejsInv
<1>14. \A q \in Alive' : Stat(nodejs_stats', q) = blocked'[q]
  BY Zenon, <1>9 DEF NodejsInv, Alive
<1> QED
  BY Zenon, <1>1, <1>7, <1>8, <1>11, <1>12, <1>13, <1>14 DEF NodejsInv

\* Time passes.
LEMMA TickNodejs ==
  ASSUME NodejsTypes, NodejsInv, Tick, Alive' = Alive
  PROVE  NodejsTypes' /\ NodejsInv'
<1>1. /\ now < MaxNow /\ now' = now + 1 /\ attached' = attached
      /\ loop' = loop /\ nodejs_prev_event_loop_iter' = nodejs_prev_event_loop_iter
      /\ nodejs_current_io_cb' = nodejs_current_io_cb /\ nodejs_stats' = nodejs_stats
      /\ blocked' = blocked
  BY Zenon DEF Tick, nodejsVars
<1>2. now' \in Times /\ \A s \in Times : s <= now => s <= now'
  BY <1>1, ProcessAssumption DEF NodejsTypes, Times
<1>3. Past(nodejs_prev_event_loop_iter)' /\ Past(nodejs_current_io_cb)'
  BY Zenon, <1>1, <1>2 DEF NodejsTypes, Past, IsMap
<1>4. NodejsTypes'
  BY Zenon, <1>1, <1>2, <1>3 DEF NodejsTypes
<1> QED
  BY Zenon, <1>1, <1>4 DEF NodejsInv

-----------------------------------------------------------------------------
(* The programs together                                                   *)

\* The inductive invariant of the programs of proc.c, python.c and nodejs.c.
ProcessIInv == TaskTypes /\ TaskInv /\ PythonTypes /\ PythonInv /\ NodejsTypes /\ NodejsInv

\* The invariant holds when the programs are loaded.
LEMMA ProcessInit == ProbesInit => ProcessIInv
<1> SUFFICES ASSUME ProbesInit PROVE ProcessIInv
  OBVIOUS
<1>1. Alive = {}
  BY Zenon DEF ProbesInit, Alive
<1>2. TaskTypes
  <2>1. 0 \in 0 .. MaxForks
    BY ProcessAssumption
  <2>2. born \in [Pids -> 0 .. MaxForks]
    BY Zenon, <2>1 DEF ProbesInit
  <2> QED
    BY Zenon, <1>1, <2>1, <2>2 DEF ProbesInit, TaskTypes
<1>3. TaskInv
  BY Zenon, <1>1 DEF ProbesInit, TaskInv
<1>4. \A Keys, Values : IsMap(EmptyMap, Keys, Values) /\ DOMAIN EmptyMap = {}
  BY DEF EmptyMap, IsMap
<1>5. Past(EmptyMap)
  BY Zenon, <1>4 DEF Past
<1>6. now \in Times
  BY ProcessAssumption DEF ProbesInit, Times
<1>7. waited \in [Pids -> Nat] /\ blocked \in [Pids -> Nat]
  BY DEF ProbesInit
<1>8. PythonTypes
  BY Zenon, <1>4, <1>5, <1>6, <1>7 DEF ProbesInit, PythonTypes
<1>9. PythonInv
  BY Zenon, <1>1, <1>4 DEF ProbesInit, PythonInv
<1>10. NodejsTypes
  BY Zenon, <1>4, <1>5, <1>6, <1>7 DEF ProbesInit, NodejsTypes
<1>11. NodejsInv
  BY Zenon, <1>1, <1>4 DEF ProbesInit, NodejsInv, Recorded
<1> QED
  BY Zenon, <1>2, <1>3, <1>8, <1>9, <1>10, <1>11 DEF ProcessIInv

\* A step of the kernel: a start, an exit, a kill.
LEMMA TasksStep ==
  ASSUME ProcessIInv, Tasks
  PROVE  ProcessIInv'
<1> USE DEF ProcessIInv
<1>1. ASSUME NEW pid \in Pids, Fork(pid) PROVE ProcessIInv'
  <2>1. TaskTypes' /\ TaskInv' /\ Alive' = Alive \cup {pid} /\ pid \notin Alive
    BY Zenon, <1>1, ForkTasks
  <2>2. PythonTypes' /\ PythonInv'
    BY Zenon, <1>1, <2>1, ForkPython
  <2>3. NodejsTypes' /\ NodejsInv'
    BY Zenon, <1>1, <2>1, ForkNodejs
  <2> QED
    BY Zenon, <2>1, <2>2, <2>3
<1>2. ASSUME Alive' = Alive, attached' = attached, threads \subseteq threads',
             UNCHANGED <<now, pythonVars, nodejsVars>>
      PROVE  PythonTypes' /\ PythonInv' /\ NodejsTypes' /\ NodejsInv'
  <2>1. UNCHANGED <<now, pythonVars>> /\ UNCHANGED <<now, nodejsVars>>
    BY Zenon, <1>2
  <2>2. \A t \in DOMAIN waiting : t \in threads' /\ (t.pid \in attached' <=> t.pid \in attached)
    BY Zenon, <1>2 DEF PythonInv
  <2>3. PythonTypes' /\ PythonInv'
    BY Zenon, <1>2, <2>1, <2>2, PythonFrame
  <2>4. NodejsTypes' /\ NodejsInv'
    BY Zenon, <1>2, <2>1, NodejsFrame
  <2> QED
    BY Zenon, <2>3, <2>4
<1>3. ASSUME NEW pid \in Pids, Reap(pid) PROVE ProcessIInv'
  <2>1. TaskTypes' /\ TaskInv' /\ Alive' = Alive
    BY Zenon, <1>3, ReapTasks
  <2>2. attached' = attached /\ threads \subseteq threads' /\ UNCHANGED <<now, pythonVars, nodejsVars>>
    BY Zenon, <1>3 DEF Reap
  <2> QED
    BY Zenon, <1>2, <2>1, <2>2
<1>4. ASSUME NEW pid \in Pids, OomMarkVictim(pid) PROVE ProcessIInv'
  <2>1. TaskTypes' /\ TaskInv' /\ Alive' = Alive
    BY Zenon, <1>4, OomMarkVictimTasks
  <2>2. attached' = attached /\ threads \subseteq threads' /\ UNCHANGED <<now, pythonVars, nodejsVars>>
    BY Zenon, <1>4 DEF OomMarkVictim
  <2> QED
    BY Zenon, <1>2, <2>1, <2>2
<1>5. ASSUME NEW t \in Thread, Clone(t) PROVE ProcessIInv'
  <2>1. TaskTypes' /\ TaskInv' /\ Alive' = Alive
    BY Zenon, <1>5, CloneTasks
  <2>2. attached' = attached /\ threads \subseteq threads' /\ UNCHANGED <<now, pythonVars, nodejsVars>>
    BY Zenon, <1>5 DEF Clone
  <2> QED
    BY Zenon, <1>2, <2>1, <2>2
<1>6. ASSUME NEW t \in Thread, Exit(t) PROVE ProcessIInv'
  <2>1. /\ TaskTypes' /\ TaskInv'
        /\ t.n = 1 => Alive' = Alive \ {t.pid}
        /\ t.n # 1 => Alive' = Alive
    BY Zenon, <1>6, ExitTasks
  <2>2. PythonTypes' /\ PythonInv'
    BY Zenon, <1>6, <2>1, ExitPython
  <2>3. NodejsTypes' /\ NodejsInv'
    BY Zenon, <1>6, <2>1, ExitNodejs
  <2> QED
    BY Zenon, <2>1, <2>2, <2>3
<1> QED
  BY Zenon, <1>1, <1>3, <1>4, <1>5, <1>6 DEF Tasks

\* A call of a runtime, with its probe; or the clock.
LEMMA RuntimeStep ==
  ASSUME ProcessIInv, RuntimeCalls
  PROVE  ProcessIInv'
<1> USE DEF ProcessIInv
<1>1. ASSUME UNCHANGED <<taskVars, oom_info>>, attached' \subseteq Pids
      PROVE  TaskTypes' /\ TaskInv' /\ Alive' = Alive /\ threads' = threads
  BY Zenon, <1>1, TaskFrame DEF taskVars
<1>2. attached \subseteq Pids
  BY Zenon DEF TaskTypes
<1>3. ASSUME NEW pid \in Pids, Attach(pid) PROVE ProcessIInv'
  <2>1. /\ UNCHANGED <<taskVars, oom_info>> /\ attached' \subseteq Pids
        /\ attached \subseteq attached' /\ UNCHANGED <<now, nodejsVars>>
    BY Zenon, <1>2, <1>3 DEF Attach
  <2>2. TaskTypes' /\ TaskInv' /\ Alive' = Alive
    BY Zenon, <1>1, <2>1
  <2>3. PythonTypes' /\ PythonInv'
    BY Zenon, <1>3, <2>2, AttachPython
  <2>4. NodejsTypes' /\ NodejsInv'
    BY Zenon, <2>1, <2>2, NodejsFrame
  <2> QED
    BY Zenon, <2>2, <2>3, <2>4
<1>4. ASSUME UNCHANGED <<taskVars, oom_info>>, UNCHANGED attached,
             UNCHANGED <<now, pythonVars>>
      PROVE  TaskTypes' /\ TaskInv' /\ Alive' = Alive /\ PythonTypes' /\ PythonInv'
  <2>1. attached' = attached
    BY Zenon, <1>4
  <2>2. TaskTypes' /\ TaskInv' /\ Alive' = Alive /\ threads' = threads
    BY Zenon, <1>1, <1>2, <1>4, <2>1
  <2>3. \A t \in DOMAIN waiting : t \in threads' /\ (t.pid \in attached' <=> t.pid \in attached)
    BY Zenon, <2>1, <2>2 DEF PythonInv
  <2>4. PythonTypes' /\ PythonInv'
    BY Zenon, <1>4, <2>2, <2>3, PythonFrame
  <2> QED
    BY Zenon, <2>2, <2>4
<1>5. ASSUME NEW pid \in Pids, UvIoPollExit(pid) PROVE ProcessIInv'
  <2>1. TaskTypes' /\ TaskInv' /\ Alive' = Alive /\ PythonTypes' /\ PythonInv'
    BY Zenon, <1>4, <1>5 DEF UvIoPollExit
  <2> QED
    BY Zenon, <1>5, <2>1, UvIoPollExitNodejs
<1>6. ASSUME NEW pid \in Pids, UvIoPollEnter(pid) PROVE ProcessIInv'
  <2>1. TaskTypes' /\ TaskInv' /\ Alive' = Alive /\ PythonTypes' /\ PythonInv'
    BY Zenon, <1>4, <1>6 DEF UvIoPollEnter
  <2> QED
    BY Zenon, <1>6, <2>1, UvIoPollEnterNodejs
<1>7. ASSUME NEW pid \in Pids, UvIoCbEnter(pid) PROVE ProcessIInv'
  <2>1. TaskTypes' /\ TaskInv' /\ Alive' = Alive /\ PythonTypes' /\ PythonInv'
    BY Zenon, <1>4, <1>7 DEF UvIoCbEnter
  <2> QED
    BY Zenon, <1>7, <2>1, UvIoCbEnterNodejs
<1>8. ASSUME NEW pid \in Pids, UvIoCbExit(pid) PROVE ProcessIInv'
  <2>1. TaskTypes' /\ TaskInv' /\ Alive' = Alive /\ PythonTypes' /\ PythonInv'
    BY Zenon, <1>4, <1>8 DEF UvIoCbExit
  <2> QED
    BY Zenon, <1>8, <2>1, UvIoCbExitNodejs
<1>9. ASSUME UNCHANGED <<taskVars, oom_info>>, UNCHANGED attached,
             UNCHANGED <<now, nodejsVars>>
      PROVE  TaskTypes' /\ TaskInv' /\ Alive' = Alive /\ NodejsTypes' /\ NodejsInv'
  <2>1. attached' = attached
    BY Zenon, <1>9
  <2>2. TaskTypes' /\ TaskInv' /\ Alive' = Alive
    BY Zenon, <1>1, <1>2, <1>9, <2>1
  <2>3. NodejsTypes' /\ NodejsInv'
    BY Zenon, <1>9, <2>1, <2>2, NodejsFrame
  <2> QED
    BY Zenon, <2>2, <2>3
<1>10. ASSUME NEW t \in Thread, TimedwaitEnter(t) PROVE ProcessIInv'
  <2>1. TaskTypes' /\ TaskInv' /\ Alive' = Alive /\ NodejsTypes' /\ NodejsInv'
    BY Zenon, <1>9, <1>10 DEF TimedwaitEnter
  <2> QED
    BY Zenon, <1>10, <2>1, TimedwaitEnterPython
<1>11. ASSUME NEW t \in Thread, TimedwaitExit(t) PROVE ProcessIInv'
  <2>1. TaskTypes' /\ TaskInv' /\ Alive' = Alive /\ NodejsTypes' /\ NodejsInv'
    BY Zenon, <1>9, <1>11 DEF TimedwaitExit
  <2> QED
    BY Zenon, <1>11, <2>1, TimedwaitExitPython
<1>12. ASSUME Tick PROVE ProcessIInv'
  <2>1. TaskTypes' /\ TaskInv' /\ Alive' = Alive
    BY Zenon, <1>1, <1>2, <1>12 DEF Tick
  <2> QED
    BY Zenon, <1>12, <2>1, TickPython, TickNodejs
<1> QED
  BY Zenon, <1>3, <1>5, <1>6, <1>7, <1>8, <1>10, <1>11, <1>12 DEF RuntimeCalls

\* Every step keeps the invariant.
LEMMA ProcessNext == ProcessIInv /\ [ProbesNext]_probeVars => ProcessIInv'
<1> SUFFICES ASSUME ProcessIInv, [ProbesNext]_probeVars PROVE ProcessIInv'
  OBVIOUS
<1>1. CASE Tasks
  BY Zenon, <1>1, TasksStep
<1>2. CASE RuntimeCalls
  BY Zenon, <1>2, RuntimeStep
<1>3. CASE UNCHANGED probeVars
  <2> USE DEF ProcessIInv
  <2>1. /\ UNCHANGED <<taskVars, oom_info>> /\ attached' = attached
        /\ UNCHANGED <<now, pythonVars>> /\ UNCHANGED <<now, nodejsVars>>
    BY Zenon, <1>3 DEF probeVars
  <2>2. attached' \subseteq Pids /\ threads' = threads
    BY Zenon, <2>1 DEF TaskTypes, taskVars
  <2>3. TaskTypes' /\ TaskInv' /\ Alive' = Alive
    BY Zenon, <2>1, <2>2, TaskFrame
  <2>4. \A t \in DOMAIN waiting : t \in threads' /\ (t.pid \in attached' <=> t.pid \in attached)
    BY Zenon, <2>1, <2>2 DEF PythonInv
  <2>5. PythonTypes' /\ PythonInv'
    BY Zenon, <2>1, <2>3, <2>4, PythonFrame
  <2>6. NodejsTypes' /\ NodejsInv'
    BY Zenon, <2>1, <2>3, NodejsFrame
  <2> QED
    BY Zenon, <2>3, <2>5, <2>6
<1> QED
  BY Zenon, <1>1, <1>2, <1>3 DEF ProbesNext

\* The events that are reported have their type.
LEMMA ReportsNext ==
  ASSUME TaskTypes, events \in Seq(ProcEvent), [ProbesNext]_probeVars
  PROVE  events' \in Seq(ProcEvent)
<1>1. CASE Tasks
  <2>1. ASSUME NEW pid \in Pids, Fork(pid) PROVE events' \in Seq(ProcEvent)
    BY Zenon, <2>1, ForkEvents
  <2>2. ASSUME NEW t \in Thread, Exit(t) PROVE events' \in Seq(ProcEvent)
    BY Zenon, <2>2, ExitEvents
  <2>3. ASSUME NEW pid \in Pids, Reap(pid) \/ OomMarkVictim(pid) PROVE events' = events
    BY Zenon, <2>3 DEF Reap, OomMarkVictim
  <2>4. ASSUME NEW t \in Thread, Clone(t) PROVE events' = events
    BY Zenon, <2>4 DEF Clone
  <2> QED
    BY Zenon, <1>1, <2>1, <2>2, <2>3, <2>4 DEF Tasks
<1>2. RuntimeCalls => events' = events
  BY Zenon DEF RuntimeCalls, Attach, UvIoPollExit, UvIoPollEnter, UvIoCbEnter, UvIoCbExit,
               TimedwaitEnter, TimedwaitExit, Tick
<1>3. UNCHANGED probeVars => events' = events
  BY Zenon DEF probeVars
<1> QED
  BY Zenon, <1>1, <1>2, <1>3 DEF ProbesNext

\* The invariant holds in every state the programs and the kernel reach.
THEOREM ProcessInvariant == ProbesSpec => [](ProcessIInv /\ events \in Seq(ProcEvent))
<1>1. ProbesInit => ProcessIInv /\ events \in Seq(ProcEvent)
  <2>1. ProbesInit => events \in Seq(ProcEvent)
    BY DEF ProbesInit
  <2> QED
    BY Zenon, <2>1, ProcessInit
<1>2. ProcessIInv /\ events \in Seq(ProcEvent) /\ [ProbesNext]_probeVars
        => (ProcessIInv /\ events \in Seq(ProcEvent))'
  BY Zenon, ProcessNext, ReportsNext DEF ProcessIInv
<1> QED
  BY <1>1, <1>2, PTL DEF ProbesSpec

\* The mark of the OOM killer in oom_info (proc.c) is there for the processes it has
\* picked and that have not exited, and for no other, whatever ids come up again.
THEOREM OomMarkAlwaysOwn == ProbesSpec => []OomMarkOwn
<1>1. ProcessIInv => OomMarkOwn
  BY Zenon DEF ProcessIInv, TaskTypes, TaskInv, Alive, OomMarkOwn
<1> QED
  BY <1>1, ProcessInvariant, PTL

\* What python_stats and nodejs_stats hold for a process is what its own threads
\* waited and its own event loop was blocked, whatever the process that had the id
\* before left behind (proc.c:64-67); and the maps have their types.
THEOREM RuntimesAlwaysOwn == ProbesSpec => []RuntimesOwn
<1>1. ProcessIInv /\ events \in Seq(ProcEvent) => RuntimesOwn
  <2> SUFFICES ASSUME ProcessIInv, events \in Seq(ProcEvent) PROVE RuntimesOwn
    OBVIOUS
  <2>1. \A i \in DOMAIN events : events[i] \in ProcEvent
    OBVIOUS
  <2>2. ProbesTypeOK
    BY Zenon, <2>1 DEF ProcessIInv, TaskTypes, PythonTypes, NodejsTypes, LoopState, ProbesTypeOK
  <2>3. WaitsOwn
    BY Zenon DEF ProcessIInv, PythonInv, Alive, WaitsOwn
  <2>4. BlockedOwn
    BY Zenon DEF ProcessIInv, NodejsInv, Alive, BlockedOwn
  <2> QED
    BY Zenon, <2>2, <2>3, <2>4 DEF RuntimesOwn
<1> QED
  BY <1>1, ProcessInvariant, PTL
=============================================================================
