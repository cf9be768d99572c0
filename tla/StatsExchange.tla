---------------------------- MODULE StatsExchange ----------------------------
(***************************************************************************)
(* How a scrape gets the statistics kept in eBPF maps into the containers: *)
(* Container.Collect (container.go) calls                                  *)
(* updateStatsFromEbpfMapsIfNecessary (registry.go), which iterates over   *)
(* the maps and hands each entry to handleEvents over an unbuffered        *)
(* channel; handleEvents applies it under the container's lock.  Around it *)
(* are the other parties of those locks and channels: the events           *)
(* handleEvents also serves, the container's gc, the profiler's            *)
(* TargetFinder and the registry's own Collect.                            *)
(*                                                                         *)
(* A lock operation and a rendezvous on a channel are one step each.  What *)
(* the statistics and the events do to a container is in ConnectionTable   *)
(* and ProcessRegistry; here an event is the set of containers it locks,   *)
(* one after the other.  handleEvents also takes ip2fqdnLock for reading,  *)
(* in getDomain, but as the only writer it cannot wait there.              *)
(***************************************************************************)
EXTENDS Integers, FiniteSets, Sequences

CONSTANTS
  Containers,
  Collectors,     \* who collects what: pairs of a scrape and a container
  Maps,           \* the entries of the three maps, in the order of iteration
  ContainersOf,   \* the container of an entry's pid, or none: a set
  Profiling       \* whether processInfoCh is not nil

\* The scrapes that run at the same time: of /metrics and of the remote writer.
Gathers == {x[1] : x \in Collectors}

Free == <<"free">>
HandleEvents == <<"handleEvents">>
Gc == <<"gc">>
Profiler == <<"profiler">>
NoEntry == <<"none">>

VARIABLES
  lock,           \* Container.lock: its holder
  statsLock,      \* Registry.ebpfStatsLock: its holder
  fresh,          \* ebpfStatsLastUpdated is within the interval
  collect,        \* Container.Collect of each scrape
  handler,        \* handleEvents
  readers,        \* the scrapes that hold ip2fqdnLock for reading
  finder,         \* the goroutine of TargetFinder.start
  finderLock      \* TargetFinder.lock: its holder

statsVars == <<lock, statsLock, fresh, collect, handler, readers, finder, finderLock>>

Outside == [at |-> "out", map |-> 0, left |-> {}]
At(where, containers) == [at |-> where, todo |-> containers, entry |-> NoEntry]
Select == At("select", {})

StatsInit ==
  /\ lock = [c \in Containers |-> Free]
  /\ statsLock = Free
  /\ fresh = FALSE
  /\ collect = [x \in Collectors |-> Outside]
  /\ handler = Select
  /\ readers = {}
  /\ finder = "receive"
  /\ finderLock = Free

-----------------------------------------------------------------------------
(* Container.Collect; x[2] is its container                                *)

Gather(g) ==
  /\ \A x \in Collectors : x[1] = g => collect[x].at = "out"
  /\ collect' = [x \in Collectors |->
                   IF x[1] = g THEN [Outside EXCEPT !.at = "stats"] ELSE collect[x]]
  /\ UNCHANGED <<lock, statsLock, fresh, handler, readers, finder, finderLock>>

\* Mutant of LockStats: the early return does not unlock.
LockStatsKeeps(x) ==
  /\ collect[x].at = "stats" /\ statsLock = Free
  /\ statsLock' = x
  /\ collect' = [collect EXCEPT ![x] =
                   IF fresh THEN [Outside EXCEPT !.at = "lock"]
                   ELSE [at |-> "send", map |-> 1, left |-> Maps[1]]]
  /\ UNCHANGED <<lock, fresh, handler, readers, finder, finderLock>>

LockStats(x) ==
  /\ collect[x].at = "stats" /\ statsLock = Free
  /\ statsLock' = x
  /\ collect' = [collect EXCEPT ![x] =
                   IF fresh THEN [Outside EXCEPT !.at = "unlock"]
                   ELSE [at |-> "send", map |-> 1, left |-> Maps[1]]]
  /\ UNCHANGED <<lock, fresh, handler, readers, finder, finderLock>>

\* An entry goes to handleEvents, which looks its container up; it ignores the
\* entry when there is none.
SendUpdate(x, e) ==
  /\ collect[x].at = "send" /\ e \in collect[x].left
  /\ handler.at = "select"
  /\ collect' = [collect EXCEPT ![x].left = @ \ {e}]
  /\ handler' = IF ContainersOf[e] = {} THEN Select
                ELSE [At("update", ContainersOf[e]) EXCEPT !.entry = e]
  /\ UNCHANGED <<lock, statsLock, fresh, readers, finder, finderLock>>

\* Mutant of SendNil: the nil that ends a map is not sent.
SendNilSkipped(x) ==
  /\ collect[x].at = "send" /\ collect[x].left = {}
  /\ IF collect[x].map < Len(Maps)
     THEN LET m == collect[x].map + 1
          IN  /\ collect' = [collect EXCEPT ![x] = [at |-> "send", map |-> m, left |-> Maps[m]]]
              /\ UNCHANGED fresh
     ELSE collect' = [collect EXCEPT ![x] = [Outside EXCEPT !.at = "unlock"]] /\ fresh' = TRUE
  /\ UNCHANGED <<lock, statsLock, handler, readers, finder, finderLock>>

\* The nil that ends a map is received once the last entry has been applied.
SendNil(x) ==
  /\ collect[x].at = "send" /\ collect[x].left = {}
  /\ handler.at = "select"
  /\ IF collect[x].map < Len(Maps)
     THEN LET m == collect[x].map + 1
          IN  /\ collect' = [collect EXCEPT ![x] = [at |-> "send", map |-> m, left |-> Maps[m]]]
              /\ UNCHANGED fresh
     ELSE collect' = [collect EXCEPT ![x] = [Outside EXCEPT !.at = "unlock"]] /\ fresh' = TRUE
  /\ UNCHANGED <<lock, statsLock, handler, readers, finder, finderLock>>

UnlockStats(x) ==
  /\ collect[x].at = "unlock"
  /\ statsLock' = Free
  /\ collect' = [collect EXCEPT ![x].at = "lock"]
  /\ UNCHANGED <<lock, fresh, handler, readers, finder, finderLock>>

LockContainer(x) ==
  /\ collect[x].at = "lock" /\ lock[x[2]] = Free
  /\ lock' = [lock EXCEPT ![x[2]] = x]
  /\ collect' = [collect EXCEPT ![x].at = "collect"]
  /\ UNCHANGED <<statsLock, fresh, handler, readers, finder, finderLock>>

CollectReturns(x) ==
  /\ collect[x].at = "collect"
  /\ lock' = [lock EXCEPT ![x[2]] = Free]
  /\ collect' = [collect EXCEPT ![x] = Outside]
  /\ UNCHANGED <<statsLock, fresh, handler, readers, finder, finderLock>>

\* MinTrafficStatsUpdateInterval has passed.
Age ==
  /\ fresh' = FALSE
  /\ UNCHANGED <<lock, statsLock, collect, handler, readers, finder, finderLock>>

\* Registry.Collect; a writer that waits keeps new readers out.
RegistryCollects(g) ==
  /\ \/ g \notin readers /\ handler.at # "domains" /\ readers' = readers \cup {g}
     \/ g \in readers /\ readers' = readers \ {g}
  /\ UNCHANGED <<lock, statsLock, fresh, collect, handler, finder, finderLock>>

-----------------------------------------------------------------------------
(* handleEvents                                                            *)

\* A process start, which may first end an older process in another container;
\* an L7 request; or any other event, the first part of the gc tick included.
Event(kind, containers) ==
  /\ handler.at = "select"
  /\ handler' = At(kind, containers)
  /\ UNCHANGED <<lock, statsLock, fresh, collect, readers, finder, finderLock>>

Locking == {"update", "start", "l7", "tick", "other"}

HandlerLocks(c) ==
  /\ handler.at \in Locking /\ c \in handler.todo
  /\ lock[c] = Free
  /\ \A d \in handler.todo : lock[d] # HandleEvents
  /\ lock' = [lock EXCEPT ![c] = HandleEvents]
  /\ UNCHANGED <<statsLock, fresh, collect, handler, readers, finder, finderLock>>

\* Where handleEvents goes after the last lock; onProcessStart may return nil.
After(kind) ==
  CASE kind = "start" /\ Profiling -> {At("info", {}), Select}
    [] kind = "l7" -> {At("domains", {})}
    [] kind = "tick" -> {At("scan", Containers)}
    [] OTHER -> {Select}

HandlerUnlocks(c) ==
  /\ c \in handler.todo /\ lock[c] = HandleEvents
  /\ lock' = [lock EXCEPT ![c] = Free]
  /\ handler' \in IF handler.todo = {c} THEN After(handler.at)
                  ELSE {[handler EXCEPT !.todo = @ \ {c}]}
  /\ UNCHANGED <<statsLock, fresh, collect, readers, finder, finderLock>>

\* The gc tick goes over lastConnectionAttempts of every container without its
\* lock.
Scan(c) ==
  /\ handler.at = "scan" /\ c \in handler.todo
  /\ handler' = IF handler.todo = {c} THEN At("domains", {})
                ELSE [handler EXCEPT !.todo = @ \ {c}]
  /\ UNCHANGED <<lock, statsLock, fresh, collect, readers, finder, finderLock>>

\* When the container's gc deletes from the map at that moment, the Go runtime
\* may notice and end the process, which is started again.
MapRace(c) ==
  /\ handler.at = "scan" /\ c \in handler.todo /\ lock[c] = Gc
  /\ lock' = [d \in Containers |-> Free]
  /\ statsLock' = Free
  /\ fresh' = FALSE
  /\ collect' = [x \in Collectors |-> Outside]
  /\ handler' = Select
  /\ readers' = {}
  /\ finder' = "receive"
  /\ finderLock' = Free

\* ip2fqdnLock, taken for writing.
HandlerDomains ==
  /\ handler.at = "domains" /\ readers = {}
  /\ handler' = Select
  /\ UNCHANGED <<lock, statsLock, fresh, collect, readers, finder, finderLock>>

\* The rendezvous on processInfoCh.
SendInfo ==
  /\ handler.at = "info" /\ finder = "receive"
  /\ handler' = Select
  /\ finder' = "store"
  /\ UNCHANGED <<lock, statsLock, fresh, collect, readers, finderLock>>

-----------------------------------------------------------------------------
(* The container's gc, TargetFinder.start, and the profiler's FindTarget   *)

GcLocks(c) ==
  /\ lock[c] = Free /\ lock' = [lock EXCEPT ![c] = Gc]
  /\ UNCHANGED <<statsLock, fresh, collect, handler, readers, finder, finderLock>>

GcUnlocks(c) ==
  /\ lock[c] = Gc /\ lock' = [lock EXCEPT ![c] = Free]
  /\ UNCHANGED <<statsLock, fresh, collect, handler, readers, finder, finderLock>>

\* The finder's critical section; its holder does not wait for anybody.
FinderStores ==
  /\ finder = "store" /\ finderLock = Free
  /\ finder' = "receive"
  /\ UNCHANGED <<lock, statsLock, fresh, collect, handler, readers, finderLock>>

FindTarget ==
  /\ finderLock = Free /\ finderLock' = Profiler
  /\ UNCHANGED <<lock, statsLock, fresh, collect, handler, readers, finder>>

TargetFound ==
  /\ finderLock = Profiler /\ finderLock' = Free
  /\ UNCHANGED <<lock, statsLock, fresh, collect, handler, readers, finder>>

-----------------------------------------------------------------------------
CollectSteps(x) ==
  \/ LockStats(x) \/ SendNil(x) \/ UnlockStats(x) \/ LockContainer(x) \/ CollectReturns(x)
  \/ \E e \in UNION {Maps[i] : i \in 1 .. Len(Maps)} : SendUpdate(x, e)

HandlerSteps ==
  \/ HandlerDomains \/ SendInfo
  \/ \E c \in Containers : HandlerLocks(c) \/ HandlerUnlocks(c) \/ Scan(c) \/ MapRace(c)

StatsNext ==
  \/ \E g \in Gathers : Gather(g) \/ RegistryCollects(g)
  \/ \E x \in Collectors : CollectSteps(x)
  \/ Age \/ HandlerSteps
  \/ \E kind \in Locking \ {"update"}, cs \in SUBSET Containers \ {{}} : Event(kind, cs)
  \/ Event("scan", Containers)
  \/ \E c \in Containers : GcLocks(c) \/ GcUnlocks(c)
  \/ FinderStores \/ FindTarget \/ TargetFound

StatsSpec == StatsInit /\ [][StatsNext]_statsVars

\* Goroutines run; a mutex that is released again and again goes to a waiter
\* in the end, and select picks among its ready cases at random.  Nothing is
\* assumed about the arrival of events, scrapes and ticks.
StatsFairness ==
  /\ \A x \in Collectors : SF_statsVars(CollectSteps(x))
  /\ SF_statsVars(HandlerSteps)
  /\ \A g \in Gathers : WF_statsVars(g \in readers /\ RegistryCollects(g))
  /\ \A c \in Containers : WF_statsVars(GcUnlocks(c))
  /\ SF_statsVars(FinderStores) /\ WF_statsVars(TargetFound)

-----------------------------------------------------------------------------
(* When a scrape is past the update, no entry is still on its way into a   *)
(* container unless a later update has begun: the nil after each map is    *)
(* received only after the entries before it (registry.go:427-473,         *)
(* container.go:239-241).                                                  *)
StatsApplied ==
  (\E x \in Collectors : collect[x].at \in {"unlock", "lock", "collect"})
    /\ (\A x \in Collectors : collect[x].at # "send")
    => handler.entry = NoEntry

(* No scrape waits for ever on a lock or a channel, however scrapes,       *)
(* events, gc passes and the profiler interleave (registry.go:412-425).    *)
ScrapesReturn ==
  \A x \in Collectors : []<>(collect[x].at = "out")
=============================================================================
