---------------------------- MODULE ProcessProbes ----------------------------
(***************************************************************************)
(* The programs of ebpftracer/ebpf/proc.c, python.c and nodejs.c: process  *)
(* starts and exits, OOM kills, and the time a Python thread waits for a   *)
(* lock or a Node.js event loop is blocked.  The programs are atomic; what *)
(* the kernel and the traced process do between two of them is not.        *)
(*                                                                         *)
(* A process id is reused once its last thread is gone and its parent has  *)
(* reaped it.  The return probes sit on the ret instructions of a function *)
(* (ebpftracer/elf.go), so they fire for a call that was entered before    *)
(* they were attached.                                                     *)
(***************************************************************************)
EXTENDS BpfMaps, Sequences

CONSTANTS
  Pids,      \* process ids
  Members,   \* numbers of the threads of a process: 1 is its leader
  Runtimes,  \* what the processes run: a part of {"python", "nodejs"}
  MaxForks,  \* bound: processes ever started
  MaxOoms,   \* bound: OOM kills
  MaxNow     \* bound: the clock

ASSUME ProcessAssumption == 1 \in Members /\ MaxForks \in Nat /\ MaxNow \in Nat

VARIABLES
  threads,   \* the live threads
  zombies,   \* processes whose leader has exited and that are not reaped
  victims,   \* the processes that were killed and have only to exit
  ooms,      \* history: OOM kills so far
  born,      \* history: the number of the process that has, or last had, a pid
  forks,     \* history: processes started so far
  now,
  attached,  \* the processes with uprobes
  waiting,   \* threads in pthread_cond_timedwait: since when, if entered with
             \* the probes attached
  loop,      \* where an event loop is, and since when: as in waiting
  oom_info, python_thread_locks, python_stats,
  nodejs_prev_event_loop_iter, nodejs_current_io_cb, nodejs_stats,
  waited,    \* history: the time the present process of a pid waited
  late,      \* history: processes that were waiting when the uprobes came
  blocked,   \* history: the time its event loop was blocked
  events     \* the proc_events buffers: what is not read yet

taskVars == <<threads, zombies, victims, ooms, born, forks>>
pythonVars == <<waiting, python_thread_locks, python_stats, waited, late>>
nodejsVars == <<loop, nodejs_prev_event_loop_iter, nodejs_current_io_cb, nodejs_stats, blocked>>
probeVars == <<taskVars, now, attached, oom_info, pythonVars, nodejsVars, events>>

Thread == [pid : Pids, n : Members]
ProcEvent == [type : {"start", "exit"}, pid : Pids, oom : BOOLEAN, born : 1..MaxForks]

\* No time: the call was entered without probes.
Untraced == -1
Times == 0..MaxNow
Since == Times \cup {Untraced}

Leader(pid) == [pid |-> pid, n |-> 1]
ThreadsOf(pid) == {t \in threads : t.pid = pid}
Exists(pid) == ThreadsOf(pid) # {} \/ pid \in zombies
Stat(map, pid) == IF pid \in DOMAIN map THEN map[pid] ELSE 0

ProbesInit ==
  /\ threads = {} /\ zombies = {} /\ victims = {} /\ ooms = 0
  /\ born = [p \in Pids |-> 0]
  /\ forks = 0
  /\ now = 0
  /\ attached = {}
  /\ waiting = EmptyMap
  /\ loop = EmptyMap
  /\ oom_info = {}
  /\ python_thread_locks = EmptyMap
  /\ python_stats = EmptyMap
  /\ nodejs_prev_event_loop_iter = EmptyMap
  /\ nodejs_current_io_cb = EmptyMap
  /\ nodejs_stats = EmptyMap
  /\ waited = [p \in Pids |-> 0]
  /\ late = {}
  /\ blocked = [p \in Pids |-> 0]
  /\ events = <<>>

Event(type, pid, oom, number) == [type |-> type, pid |-> pid, oom |-> oom, born |-> number]

-----------------------------------------------------------------------------
(* proc.c                                                                  *)

\* task_newtask, without CLONE_THREAD
Fork(pid) ==
  /\ forks < MaxForks
  /\ ~Exists(pid)
  /\ threads' = threads \cup {Leader(pid)}
  /\ forks' = forks + 1
  /\ born' = [born EXCEPT ![pid] = forks']
  /\ waited' = [waited EXCEPT ![pid] = 0]
  /\ late' = late \ {pid}
  /\ blocked' = [blocked EXCEPT ![pid] = 0]
  /\ loop' = Update(loop, pid, [at |-> "run", since |-> Untraced])
  /\ events' = Append(events, Event("start", pid, FALSE, forks'))
  /\ UNCHANGED <<zombies, victims, ooms, now, attached, oom_info, waiting, python_thread_locks,
                 python_stats, nodejs_prev_event_loop_iter, nodejs_current_io_cb, nodejs_stats>>

\* task_newtask, with CLONE_THREAD: not reported
Clone(t) ==
  /\ t \notin threads /\ t.n # 1
  /\ ThreadsOf(t.pid) # {} /\ t.pid \notin victims
  /\ threads' = threads \cup {t}
  /\ UNCHANGED <<zombies, victims, ooms, born, forks, now, attached, oom_info, pythonVars, nodejsVars, events>>

\* Mutant: the start of an event-loop iteration outlives the process.
ForgetProcessKeepsIter(pid) ==
  /\ python_stats' = Delete(python_stats, pid)
  /\ nodejs_stats' = Delete(nodejs_stats, pid)
  /\ nodejs_current_io_cb' = Delete(nodejs_current_io_cb, pid)
  /\ UNCHANGED nodejs_prev_event_loop_iter

\* What sched_process_exit deletes
ForgetProcess(pid) ==
  /\ python_stats' = Delete(python_stats, pid)
  /\ nodejs_stats' = Delete(nodejs_stats, pid)
  /\ nodejs_prev_event_loop_iter' = Delete(nodejs_prev_event_loop_iter, pid)
  /\ nodejs_current_io_cb' = Delete(nodejs_current_io_cb, pid)

\* Mutant: the mark of the OOM killer is not removed.
TakeOomMarkKept(pid) == oom_info

\* oom_info after the exit of a leader
TakeOomMark(pid) == oom_info \ {pid}

\* sched_process_exit: only the exit of a leader is reported.  The exit of a
\* leader ends the process: its other threads are killed and exit later.
Exit(t) ==
  /\ t \in threads
  /\ threads' = threads \ {t}
  /\ waiting' = Delete(waiting, t)
  /\ victims' = IF threads' \cap ThreadsOf(t.pid) = {} THEN victims \ {t.pid}
                ELSE IF t.n = 1 THEN victims \cup {t.pid} ELSE victims
  /\ attached' = IF threads' \cap ThreadsOf(t.pid) = {} THEN attached \ {t.pid} ELSE attached
  /\ IF t.n = 1
     THEN /\ zombies' = zombies \cup {t.pid}
          /\ loop' = Delete(loop, t.pid)
          /\ ForgetProcess(t.pid)
          /\ oom_info' = TakeOomMark(t.pid)
          /\ events' = Append(events, Event("exit", t.pid, t.pid \in oom_info, born[t.pid]))
     ELSE UNCHANGED <<zombies, loop, python_stats, nodejs_stats, nodejs_prev_event_loop_iter,
                      nodejs_current_io_cb, oom_info, events>>
  /\ UNCHANGED <<ooms, born, forks, now, python_thread_locks, waited, late, blocked>>

\* The parent reaps a process.
Reap(pid) ==
  /\ pid \in zombies /\ ThreadsOf(pid) = {}
  /\ zombies' = zombies \ {pid}
  /\ UNCHANGED <<threads, victims, ooms, born, forks, now, attached, oom_info, pythonVars, nodejsVars, events>>

\* oom_mark_victim: all that is left to the process is to exit.
OomMarkVictim(pid) ==
  /\ ThreadsOf(pid) # {} /\ pid \notin victims
  /\ ooms < MaxOoms
  /\ ooms' = ooms + 1
  /\ victims' = victims \cup {pid}
  /\ oom_info' = oom_info \cup {pid}
  /\ UNCHANGED <<threads, zombies, born, forks, now, attached, pythonVars, nodejsVars, events>>

-----------------------------------------------------------------------------
(* python.c                                                                *)

\* A thread that runs, and the time a call it enters is traced from
Running(t) == t \in threads /\ t.pid \notin victims /\ t \notin DOMAIN waiting
EnteredAt(pid) == IF pid \in attached THEN now ELSE Untraced

\* Attaching the uprobes, once per process.
Attach(pid) ==
  /\ ThreadsOf(pid) # {} /\ pid \notin attached
  /\ attached' = attached \cup {pid}
  /\ late' = IF ThreadsOf(pid) \cap DOMAIN waiting # {} THEN late \cup {pid} ELSE late
  /\ UNCHANGED <<taskVars, now, oom_info, waiting, python_thread_locks, python_stats, waited,
                 nodejsVars, events>>

\* pthread_cond_timedwait_enter
TimedwaitEnter(t) ==
  /\ "python" \in Runtimes /\ Running(t)
  /\ waiting' = Update(waiting, t, EnteredAt(t.pid))
  /\ python_thread_locks' = IF t.pid \in attached THEN Update(python_thread_locks, t, now)
                            ELSE python_thread_locks
  /\ UNCHANGED <<taskVars, now, attached, oom_info, python_stats, waited, late, nodejsVars, events>>

\* The time of a call: nothing when it was entered without probes.
Elapsed(since) == IF since = Untraced THEN 0 ELSE now - since

\* The statistics of a process after a duration was added
AddStat(map, pid, duration) == Update(map, pid, Stat(map, pid) + duration)

\* pthread_cond_timedwait_exit
TimedwaitExit(t) ==
  /\ t \in DOMAIN waiting /\ t.pid \notin victims
  /\ waiting' = Delete(waiting, t)
  /\ waited' = [waited EXCEPT ![t.pid] = @ + Elapsed(waiting[t])]
  /\ IF t.pid \in attached /\ t \in DOMAIN python_thread_locks
     THEN /\ python_stats' = AddStat(python_stats, t.pid, now - python_thread_locks[t])
          /\ python_thread_locks' = Delete(python_thread_locks, t)
     ELSE UNCHANGED <<python_stats, python_thread_locks>>
  /\ UNCHANGED <<taskVars, now, attached, oom_info, late, nodejsVars, events>>

-----------------------------------------------------------------------------
(* nodejs.c: the event loop runs in the leader                             *)

AtLoop(pid, at) ==
  /\ "nodejs" \in Runtimes
  /\ pid \in DOMAIN loop /\ pid \notin victims
  /\ loop[pid].at = at

\* uv_io_poll_exit: the loop leaves the kernel; an iteration begins.
UvIoPollExit(pid) ==
  /\ AtLoop(pid, "poll")
  /\ loop' = [loop EXCEPT ![pid] = [at |-> "run", since |-> EnteredAt(pid)]]
  /\ nodejs_prev_event_loop_iter' =
       IF pid \in attached THEN Update(nodejs_prev_event_loop_iter, pid, now)
       ELSE nodejs_prev_event_loop_iter
  /\ UNCHANGED <<taskVars, now, attached, oom_info, pythonVars, nodejs_current_io_cb, nodejs_stats,
                 blocked, events>>

\* uv_io_poll_enter: the iteration ends.
UvIoPollEnter(pid) ==
  /\ AtLoop(pid, "run")
  /\ loop' = [loop EXCEPT ![pid] = [at |-> "poll", since |-> Untraced]]
  /\ blocked' = [blocked EXCEPT ![pid] = @ + Elapsed(loop[pid].since)]
  /\ IF pid \in attached /\ pid \in DOMAIN nodejs_prev_event_loop_iter
     THEN /\ nodejs_stats' = AddStat(nodejs_stats, pid, now - nodejs_prev_event_loop_iter[pid])
          /\ nodejs_prev_event_loop_iter' = Delete(nodejs_prev_event_loop_iter, pid)
     ELSE UNCHANGED <<nodejs_stats, nodejs_prev_event_loop_iter>>
  /\ UNCHANGED <<taskVars, now, attached, oom_info, pythonVars, nodejs_current_io_cb, events>>

\* uv_io_cb_enter: uv__io_poll runs a callback.
UvIoCbEnter(pid) ==
  /\ AtLoop(pid, "poll")
  /\ loop' = [loop EXCEPT ![pid] = [at |-> "callback", since |-> EnteredAt(pid)]]
  /\ nodejs_current_io_cb' = IF pid \in attached THEN Update(nodejs_current_io_cb, pid, now)
                             ELSE nodejs_current_io_cb
  /\ UNCHANGED <<taskVars, now, attached, oom_info, pythonVars, nodejs_prev_event_loop_iter,
                 nodejs_stats, blocked, events>>

\* uv_io_cb_exit
UvIoCbExit(pid) ==
  /\ AtLoop(pid, "callback")
  /\ loop' = [loop EXCEPT ![pid] = [at |-> "poll", since |-> Untraced]]
  /\ blocked' = [blocked EXCEPT ![pid] = @ + Elapsed(loop[pid].since)]
  /\ IF pid \in attached /\ pid \in DOMAIN nodejs_current_io_cb
     THEN /\ nodejs_stats' = AddStat(nodejs_stats, pid, now - nodejs_current_io_cb[pid])
          /\ nodejs_current_io_cb' = Delete(nodejs_current_io_cb, pid)
     ELSE UNCHANGED <<nodejs_stats, nodejs_current_io_cb>>
  /\ UNCHANGED <<taskVars, now, attached, oom_info, pythonVars, nodejs_prev_event_loop_iter, events>>

-----------------------------------------------------------------------------
Tick ==
  /\ now < MaxNow
  /\ now' = now + 1
  /\ UNCHANGED <<taskVars, attached, oom_info, pythonVars, nodejsVars, events>>

Tasks == \/ \E pid \in Pids : Fork(pid) \/ Reap(pid) \/ OomMarkVictim(pid)
         \/ \E t \in Thread : Clone(t) \/ Exit(t)

RuntimeCalls == \/ \E pid \in Pids : \/ Attach(pid)
                                     \/ UvIoPollExit(pid) \/ UvIoPollEnter(pid)
                                     \/ UvIoCbEnter(pid) \/ UvIoCbExit(pid)
                \/ \E t \in Thread : TimedwaitEnter(t) \/ TimedwaitExit(t)
                \/ Tick

ProbesNext == Tasks \/ RuntimeCalls

ProbesSpec == ProbesInit /\ [][ProbesNext]_probeVars

-----------------------------------------------------------------------------
(* Properties                                                              *)

\* The types of the maps and of the buffers.
ProbesTypeOK ==
  /\ threads \subseteq Thread
  /\ zombies \subseteq Pids /\ victims \subseteq Pids /\ attached \subseteq Pids
  /\ oom_info \subseteq Pids
  /\ IsMap(waiting, Thread, Since) /\ IsMap(python_thread_locks, Thread, Times)
  /\ IsMap(loop, Pids, [at : {"run", "poll", "callback"}, since : Since])
  /\ IsMap(nodejs_prev_event_loop_iter, Pids, Times) /\ IsMap(nodejs_current_io_cb, Pids, Times)
  /\ IsMap(python_stats, Pids, Nat) /\ IsMap(nodejs_stats, Pids, Nat)
  /\ \A i \in DOMAIN events : events[i] \in ProcEvent

\* What python_stats holds for a process is the time its own threads waited,
\* whatever the process that had its id before left behind.  A process that was
\* waiting when its uprobes came is left out: its return probe may find the entry
\* of a dead thread in python_thread_locks.
WaitsOwn ==
  \A pid \in Pids \ late :
    Leader(pid) \in threads => Stat(python_stats, pid) = waited[pid]

\* What nodejs_stats holds for a process is the time its own event loop ran
\* callbacks or the rest of an iteration, each counted once.
BlockedOwn ==
  \A pid \in Pids : Leader(pid) \in threads => Stat(nodejs_stats, pid) = blocked[pid]

\* The statistics of the runtimes are those of the process that has the id
\* (proc.c:64-67 forgets the others); and the state has its type.
RuntimesOwn == ProbesTypeOK /\ WaitsOwn /\ BlockedOwn

\* The OOM killer's mark is there for a process it has picked and that has not
\* exited, and for no other: the next process with the id is not blamed for it.
OomMarkOwn ==
  oom_info = {pid \in victims : Leader(pid) \in threads}
=============================================================================
