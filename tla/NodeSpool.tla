------------------------------ MODULE NodeSpool ------------------------------
(***************************************************************************)
(* The node telemetry writer of prom/remote_writer.go: scrapeLoop writes   *)
(* one file per scrape into the spool directory, sendLoop posts the oldest *)
(* file and removes it.  The two goroutines share the directory and no     *)
(* lock; each system call on it is a step.  The process can be killed at   *)
(* any time and started again on the same directory.                       *)
(*                                                                         *)
(* A scrape is known by its timestamp, which names its file; the clock     *)
(* gives every scrape a later one.  main passes no SeriesSource            *)
(* (main.go:184, 274), so scrape has nothing to snapshot or to commit.     *)
(***************************************************************************)
EXTENDS Integers, FiniteSets, FiniteSetsExt

CONSTANTS
  Sizes,          \* the sizes a compressed scrape can have
  MaxSpoolSize,
  MaxScrapes,     \* bound: how many scrapes are started
  MaxErrors,      \* bound: how many file operations fail by themselves
  MaxKills        \* bound: how often the process is killed

\* Snappy encodes even an empty payload as a byte.
ASSUME NodeAssumption ==
  Sizes # {} /\ Sizes \subseteq Nat \ {0} /\ MaxSpoolSize \in Nat

VARIABLES
  files,          \* the .done files: timestamp -> size
  temps,          \* the timestamps of the temporary files
  scraper,        \* scrapeLoop
  sender,         \* sendLoop
  collector,      \* whether the collector accepts what is posted
  spooled,        \* history: the scrapes renamed to a .done file
  delivered,      \* history: the scrapes the collector accepted
  evicted,        \* history: the scrapes removed by truncateSpoolIfNeeded
  budget          \* how many scrapes, errors and kills there have been

nodeVars == <<files, temps, scraper, sender, collector, spooled, delivered, evicted,
              budget>>

\* list is what listSpoolFiles returned, left the part of it without a Stat yet.
Waiting == [at |-> "wait", ts |-> 0, size |-> 0, list |-> {}, left |-> {}, total |-> 0]
Polling == [at |-> "poll", ts |-> 0]

NodeInit ==
  /\ files = <<>>
  /\ temps = {}
  /\ scraper = Waiting
  /\ sender = Polling
  /\ collector \in BOOLEAN
  /\ spooled = {} /\ delivered = {} /\ evicted = {}
  /\ budget = [scrapes |-> 0, errors |-> 0, kills |-> 0]

\* listSpoolFiles: the temporary files do not end in .done.  What it lists is
\* sorted, so the oldest comes first.
ListSpoolFiles == DOMAIN files
OldestFile(list) == Min(list)

Without(ts) == [t \in DOMAIN files \ {ts} |-> files[t]]

Alive == sender.at # "killed"

-----------------------------------------------------------------------------
(* scrape, writeToSpool and truncateSpoolIfNeeded                          *)

\* Gather, encode, and list the directory.
Scrape ==
  /\ Alive
  /\ scraper.at = "wait" /\ budget.scrapes < MaxScrapes
  /\ budget' = [budget EXCEPT !.scrapes = @ + 1]
  /\ \E size \in Sizes :
       scraper' = [Waiting EXCEPT !.at = IF Cardinality(ListSpoolFiles) <= 1 THEN "create" ELSE "stat",
                                  !.ts = budget'.scrapes, !.size = size,
                                  !.list = ListSpoolFiles, !.left = ListSpoolFiles]
  /\ UNCHANGED <<files, temps, sender, collector, spooled, delivered, evicted>>

\* Stat of the next listed file; if it is gone the scrape is given up.
Stat ==
  LET ts == OldestFile(scraper.left)
      total == scraper.total + files[ts]
  IN  /\ scraper.at = "stat"
      /\ scraper' =
           IF ts \notin DOMAIN files THEN Waiting
           ELSE IF scraper.left # {ts}
           THEN [scraper EXCEPT !.left = @ \ {ts}, !.total = total]
           ELSE [scraper EXCEPT !.at = IF total > MaxSpoolSize THEN "evict" ELSE "create"]
      /\ UNCHANGED <<files, temps, sender, collector, spooled, delivered, evicted, budget>>

\* Remove of the oldest listed file; if it is gone the scrape is given up.
Evict ==
  LET ts == OldestFile(scraper.list)
  IN  /\ scraper.at = "evict"
      /\ IF ts \in DOMAIN files
         THEN /\ files' = Without(ts)
              /\ evicted' = evicted \cup {ts}
              /\ scraper' = [scraper EXCEPT !.at = "create"]
         ELSE scraper' = Waiting /\ UNCHANGED <<files, evicted>>
      /\ UNCHANGED <<temps, sender, collector, spooled, delivered, budget>>

\* Mutant of CreateTemp: the payload is written under its final name.
CreateTempDone ==
  /\ scraper.at = "create"
  /\ files' = [t \in DOMAIN files \cup {scraper.ts} |->
                 IF t = scraper.ts THEN scraper.size ELSE files[t]]
  /\ temps' = temps \cup {scraper.ts}
  /\ scraper' = [scraper EXCEPT !.at = "rename"]
  /\ UNCHANGED <<sender, collector, spooled, delivered, evicted, budget>>

\* CreateTemp; Write and Close follow on a file nobody else looks at.
CreateTemp ==
  /\ scraper.at = "create"
  /\ temps' = temps \cup {scraper.ts}
  /\ scraper' = [scraper EXCEPT !.at = "rename"]
  /\ UNCHANGED <<files, sender, collector, spooled, delivered, evicted, budget>>

Rename ==
  /\ scraper.at = "rename"
  /\ temps' = temps \ {scraper.ts}
  /\ files' = [t \in DOMAIN files \cup {scraper.ts} |->
                 IF t = scraper.ts THEN scraper.size ELSE files[t]]
  /\ spooled' = spooled \cup {scraper.ts}
  /\ scraper' = Waiting
  /\ UNCHANGED <<sender, collector, delivered, evicted, budget>>

\* A call of scrape fails by itself; the deferred Remove takes the temporary
\* file away, if there is one.
ScrapeFails ==
  /\ scraper.at \in {"stat", "evict", "create", "rename"}
  /\ budget.errors < MaxErrors
  /\ budget' = [budget EXCEPT !.errors = @ + 1]
  /\ temps' = temps \ {scraper.ts}
  /\ scraper' = Waiting
  /\ UNCHANGED <<files, sender, collector, spooled, delivered, evicted>>

-----------------------------------------------------------------------------
(* sendLoop: after an error, or when there is no file, it sleeps and polls *)

GetOldest ==
  /\ sender.at = "poll" /\ DOMAIN files # {}
  /\ sender' = [at |-> "open", ts |-> OldestFile(ListSpoolFiles)]
  /\ UNCHANGED <<files, temps, scraper, collector, spooled, delivered, evicted, budget>>

\* Mutant of Open: the loop ends when the file is gone.
OpenReturns ==
  /\ sender.at = "open"
  /\ sender' = [sender EXCEPT !.at = IF sender.ts \in DOMAIN files THEN "post" ELSE "returned"]
  /\ UNCHANGED <<files, temps, scraper, collector, spooled, delivered, evicted, budget>>

Open ==
  /\ sender.at = "open"
  /\ sender' = IF sender.ts \in DOMAIN files THEN [sender EXCEPT !.at = "post"] ELSE Polling
  /\ UNCHANGED <<files, temps, scraper, collector, spooled, delivered, evicted, budget>>

\* The open file is posted whether or not it still has its name.
Post ==
  /\ sender.at = "post"
  /\ IF collector
     THEN /\ delivered' = delivered \cup {sender.ts}
          /\ sender' = [sender EXCEPT !.at = "remove"]
     ELSE sender' = Polling /\ UNCHANGED delivered
  /\ UNCHANGED <<files, temps, scraper, collector, spooled, evicted, budget>>

\* The collector took the payload in and the answer is lost.
PostUnanswered ==
  /\ sender.at = "post" /\ collector
  /\ budget.errors < MaxErrors
  /\ budget' = [budget EXCEPT !.errors = @ + 1]
  /\ delivered' = delivered \cup {sender.ts}
  /\ sender' = Polling
  /\ UNCHANGED <<files, temps, scraper, collector, spooled, evicted>>

\* Remove of what was sent; truncateSpoolIfNeeded may have been faster.
RemoveSent ==
  /\ sender.at = "remove"
  /\ files' = Without(sender.ts)
  /\ sender' = Polling
  /\ UNCHANGED <<temps, scraper, collector, spooled, delivered, evicted, budget>>

\* Remove fails by itself: the file will be sent again.
RemoveFails ==
  /\ sender.at = "remove"
  /\ budget.errors < MaxErrors
  /\ budget' = [budget EXCEPT !.errors = @ + 1]
  /\ sender' = Polling
  /\ UNCHANGED <<files, temps, scraper, collector, spooled, delivered, evicted>>

-----------------------------------------------------------------------------
CollectorChanges ==
  /\ collector' = ~collector
  /\ UNCHANGED <<files, temps, scraper, sender, spooled, delivered, evicted, budget>>

Kill ==
  /\ Alive
  /\ budget.kills < MaxKills
  /\ budget' = [budget EXCEPT !.kills = @ + 1]
  /\ scraper' = Waiting
  /\ sender' = [Polling EXCEPT !.at = "killed"]
  /\ UNCHANGED <<files, temps, collector, spooled, delivered, evicted>>

\* StartAgent on the directory as it is.
StartAgent ==
  /\ sender.at = "killed"
  /\ sender' = Polling
  /\ UNCHANGED <<files, temps, scraper, collector, spooled, delivered, evicted, budget>>

ScrapeLoop == Scrape \/ Stat \/ Evict \/ CreateTemp \/ Rename \/ ScrapeFails
SendLoop == GetOldest \/ Open \/ Post \/ PostUnanswered \/ RemoveSent \/ RemoveFails

NodeNext == ScrapeLoop \/ SendLoop \/ CollectorChanges \/ Kill \/ StartAgent

NodeSpec == NodeInit /\ [][NodeNext]_nodeVars

\* sendLoop never stops retrying, and a killed agent is started again.
NodeFairness == WF_nodeVars(SendLoop) /\ WF_nodeVars(StartAgent)

-----------------------------------------------------------------------------
SmallestSize == CHOOSE n \in Sizes : \A m \in Sizes : n <= m

(* Only whole scrapes are posted.  A scrape that was renamed into the      *)
(* spool waits there, or the collector has it, or truncateSpoolIfNeeded    *)
(* removed it, which never happens to the newest one.  Although a scrape   *)
(* removes at most one file before it adds one, and races with sendLoop,   *)
(* the number of files stays bounded; a temporary file outlives its scrape *)
(* only when the process is killed (remote_writer.go:136-164, 266-314).    *)
SpooledAccounted ==
  /\ delivered \subseteq spooled
  /\ \A ts \in spooled : ts \in DOMAIN files \cup delivered \cup evicted
  /\ \A ts \in evicted : \E later \in spooled : later > ts
  /\ Cardinality(DOMAIN files) <= Max({1, MaxSpoolSize \div SmallestSize}) + 1
  /\ Cardinality(temps \ {scraper.ts}) <= budget.kills

(* A scrape leaves the spool unless the collector refuses again, whatever  *)
(* scrapeLoop removes under sendLoop's hands, and across restarts          *)
(* (remote_writer.go:136-164).                                             *)
SpoolDrains ==
  \A ts \in 1 .. MaxScrapes : []<>(ts \notin DOMAIN files \/ ~collector)
=============================================================================
