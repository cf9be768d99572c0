-------------------------- MODULE TelemetryProofs --------------------------
(***************************************************************************)
(* What is proved of the node's own telemetry, for all values of the       *)
(* constants.                                                              *)
(*                                                                         *)
(* NodeSpool: no scrape is lost but by eviction, and the spool directory   *)
(* is bounded.  The argument is what scrapeLoop still knows of a directory *)
(* that sendLoop changes under its hands: the files it listed cover the    *)
(* spool, and their sizes are what it has summed up.                       *)
(*                                                                         *)
(* StatsExchange: a scrape that is past the update of the statistics sees  *)
(* all of it, because the nil after the entries waits for the select.      *)
(***************************************************************************)
EXTENDS NodeSpool, StatsExchange, FiniteSetTheorems, WellFoundedInduction, TLAPS

\* How many files may wait in the spool when a scrape adds one.
MaxFiles == Max({1, MaxSpoolSize \div SmallestSize})

NodeTypes ==
  /\ scraper \in [at : {"wait", "stat", "evict", "create", "rename"}, ts : Nat, size : Nat,
                  list : SUBSET Nat, left : SUBSET Nat, total : Nat]
  /\ sender \in [at : {"poll", "open", "post", "remove", "killed"}, ts : Nat]
  /\ budget \in [scrapes : Nat, errors : Nat, kills : Nat]
  /\ temps \subseteq 1 .. budget.scrapes
  /\ spooled \subseteq 1 .. budget.scrapes
  /\ DOMAIN files \subseteq spooled
  /\ \A t \in DOMAIN files : files[t] \in Sizes

\* What scrapeLoop knows of the directory: sendLoop only takes files away, so
\* what was listed still covers the spool, and every Stat has counted a file.
ScraperInv ==
  /\ IF scraper.at = "wait" THEN scraper.ts = 0
     ELSE scraper.ts = budget.scrapes /\ scraper.size \in Sizes /\ 1 <= budget.scrapes
  /\ scraper.at \in {"stat", "evict"} =>
       /\ DOMAIN files \subseteq scraper.list /\ scraper.list \subseteq spooled
       /\ 2 <= Cardinality(scraper.list)
  /\ scraper.at = "stat" =>
       /\ scraper.left \subseteq scraper.list /\ scraper.left # {}
       /\ Cardinality(scraper.list \ scraper.left) * SmallestSize <= scraper.total
  /\ scraper.at \in {"create", "rename"} => Cardinality(DOMAIN files) <= MaxFiles
  /\ scraper.at \in {"stat", "evict", "create"} => scraper.ts \notin temps

\* What sendLoop has in hand was spooled, and is removed only once delivered.
SenderInv ==
  /\ sender.at \in {"open", "post", "remove"} => sender.ts \in spooled
  /\ sender.at = "remove" => sender.ts \in delivered

NodeIInv == NodeTypes /\ ScraperInv /\ SenderInv /\ SpooledAccounted

-----------------------------------------------------------------------------
\* A set of natural numbers has a least element.
LEMMA LeastExists ==
  ASSUME NEW T, T \subseteq Nat, T # {}
  PROVE  \E x \in T : \A y \in T : x <= y
<1> DEFINE R == OpToRel(<, Nat)
<1>1. IsWellFoundedOn(R, Nat)
  BY Zenon, NatLessThanWellFounded
<1>2. \A x, y \in Nat : y < x => <<y, x>> \in R
  BY DEF OpToRel
<1> HIDE DEF R
<1>3. PICK x \in T : \A y \in T : ~(<<y, x>> \in R)
  BY Zenon, <1>1, WFMin
<1>4. ASSUME NEW y \in T
      PROVE  x <= y
  <2>1. x \in Nat /\ y \in Nat
    BY Zenon
  <2>2. ~(y < x)
    BY Zenon, <2>1, <1>2, <1>3
  <2> QED
    BY <2>1, <2>2
<1> QED
  BY Zenon, <1>4

\* The oldest of the listed files is one of them, and none is older.
LEMMA OldestProperties ==
  ASSUME NEW T, T \subseteq Nat, T # {}
  PROVE  OldestFile(T) \in T /\ \A y \in T : OldestFile(T) <= y
<1>1. PICK x \in T : \A y \in T : x <= y
  BY Zenon, LeastExists
<1> QED
  BY Zenon, <1>1 DEF OldestFile, Min

\* No scrape is smaller than the smallest one.
LEMMA SmallestProperties ==
  /\ SmallestSize \in Sizes /\ SmallestSize \in Nat /\ 1 <= SmallestSize
  /\ \A n \in Sizes : n \in Nat /\ SmallestSize <= n
<1>1. Sizes \subseteq Nat /\ Sizes # {}
  BY Zenon, NodeAssumption
<1>2. PICK x \in Sizes : \A y \in Sizes : x <= y
  BY Zenon, <1>1, LeastExists
<1>3. SmallestSize \in Sizes /\ \A n \in Sizes : SmallestSize <= n
  BY Zenon, <1>2 DEF SmallestSize
<1> QED
  BY <1>3, NodeAssumption

\* The larger of two numbers is one of them and not below the other.
LEMMA MaxOfTwo ==
  ASSUME NEW m \in Nat, NEW n \in Nat
  PROVE  Max({m, n}) \in Nat /\ m <= Max({m, n}) /\ n <= Max({m, n})
<1>1. \E x \in {m, n} : \A y \in {m, n} : x >= y
  BY SMT
<1>2. Max({m, n}) \in {m, n} /\ \A y \in {m, n} : Max({m, n}) >= y
  BY Zenon, <1>1 DEF Max
<1> QED
  BY Zenon, <1>2

\* A number of files whose sizes fit into the spool is within the bound.
LEMMA MaxFilesProperties ==
  /\ MaxFiles \in Nat /\ 1 <= MaxFiles
  /\ \A n \in Nat : n * SmallestSize <= MaxSpoolSize => n <= MaxFiles
<1>1. SmallestSize \in Nat /\ 1 <= SmallestSize /\ MaxSpoolSize \in Nat
  BY Zenon, SmallestProperties, NodeAssumption
<1> DEFINE q == MaxSpoolSize \div SmallestSize
<1>2. q \in Nat
  BY <1>1
<1>3. ASSUME NEW n \in Nat, n * SmallestSize <= MaxSpoolSize
      PROVE  n <= q
  BY <1>1, <1>3
<1> HIDE DEF q
<1>4. Max({1, q}) \in Nat /\ 1 <= Max({1, q}) /\ q <= Max({1, q})
  BY Zenon, <1>2, MaxOfTwo
<1>5. MaxFiles = Max({1, q})
  BY Zenon DEF MaxFiles, q
<1> QED
  BY <1>2, <1>3, <1>4, <1>5

\* One more file of at least the smallest size.
LEMMA OneMoreFile ==
  ASSUME NEW n \in Nat, NEW s \in Nat, NEW t \in Nat, NEW f \in Nat, n * s <= t, s <= f
  PROVE  (n + 1) * s <= t + f
<1>1. (n + 1) * s = n * s + s /\ n * s \in Nat
  OBVIOUS
<1> QED
  BY <1>1

\* Sets of timestamps are finite.
LEMMA TimestampsFinite ==
  ASSUME NodeTypes, NEW T, T \subseteq 1 .. budget.scrapes
  PROVE  IsFiniteSet(T) /\ Cardinality(T) \in Nat /\ T \subseteq Nat
<1>1. budget.scrapes \in Nat
  BY Zenon DEF NodeTypes
<1>2. IsFiniteSet(1 .. budget.scrapes)
  BY <1>1, FS_Interval
<1>3. 1 .. budget.scrapes \subseteq Nat
  BY <1>1
<1> QED
  BY Zenon, <1>2, <1>3, FS_Subset, FS_CardinalityType

\* A part of a finite set has no more elements.
LEMMA SmallerSet ==
  ASSUME NEW S, IsFiniteSet(S), NEW T, T \subseteq S
  PROVE  IsFiniteSet(T) /\ Cardinality(T) \in Nat /\ Cardinality(S) \in Nat
         /\ Cardinality(T) <= Cardinality(S)
BY Zenon, FS_Subset, FS_CardinalityType

-----------------------------------------------------------------------------
\* The empty spool directory.
LEMMA NodeInitInv == NodeInit => NodeIInv
<1> SUFFICES ASSUME NodeInit PROVE NodeIInv
  BY Zenon
<1>1. DOMAIN files = {} /\ IsFiniteSet({}) /\ Cardinality({}) = 0
  BY FS_EmptySet DEF NodeInit
<1>2. NodeTypes
  BY Zenon, <1>1 DEF NodeInit, NodeTypes, Waiting, Polling
<1>3. ScraperInv /\ SenderInv
  BY Zenon DEF NodeInit, ScraperInv, SenderInv, Waiting, Polling
<1>4. temps \ {scraper.ts} = {} /\ budget.kills = 0
  BY Zenon DEF NodeInit
<1>5. Cardinality(DOMAIN files) <= MaxFiles + 1
  BY <1>1, MaxFilesProperties
<1>6. SpooledAccounted
  BY <1>1, <1>4, <1>5 DEF NodeInit, SpooledAccounted, MaxFiles
<1> QED
  BY Zenon, <1>2, <1>3, <1>6 DEF NodeIInv

\* A step of sendLoop, or of the collector, that leaves the directory alone.
LEMMA SenderKeepsInv ==
  ASSUME NodeIInv, SenderInv',
         UNCHANGED <<files, temps, scraper, spooled, evicted>>,
         sender' \in [at : {"poll", "open", "post", "remove", "killed"}, ts : Nat],
         \/ UNCHANGED budget
         \/ budget' = [budget EXCEPT !.errors = @ + 1],
         delivered \subseteq delivered', delivered' \subseteq spooled
  PROVE  NodeIInv'
<1>1. /\ budget' \in [scrapes : Nat, errors : Nat, kills : Nat]
      /\ budget'.scrapes = budget.scrapes /\ budget'.kills = budget.kills
  BY DEF NodeIInv, NodeTypes
<1>2. NodeTypes'
  BY Zenon, <1>1 DEF NodeIInv, NodeTypes
<1>3. ScraperInv'
  BY Zenon, <1>1 DEF NodeIInv, ScraperInv, MaxFiles
<1>4. SpooledAccounted'
  BY Zenon, <1>1 DEF NodeIInv, SpooledAccounted
<1> QED
  BY Zenon, <1>2, <1>3, <1>4 DEF NodeIInv

\* getOldestSpoolFile finds a file that was spooled.
LEMMA GetOldestInv ==
  ASSUME NodeIInv, GetOldest
  PROVE  NodeIInv'
<1>1. DOMAIN files \subseteq spooled /\ spooled \subseteq Nat /\ DOMAIN files # {}
  BY DEF NodeIInv, NodeTypes, GetOldest
<1>2. OldestFile(DOMAIN files) \in DOMAIN files
  BY Zenon, <1>1, OldestProperties
<1>3. sender' = [at |-> "open", ts |-> OldestFile(DOMAIN files)]
  BY Zenon DEF GetOldest, ListSpoolFiles
<1>4. UNCHANGED <<files, temps, scraper, spooled, delivered, evicted, budget>>
  BY Zenon DEF GetOldest
<1>5. /\ SenderInv'
      /\ sender' \in [at : {"poll", "open", "post", "remove", "killed"}, ts : Nat]
  BY Zenon, <1>1, <1>2, <1>3, <1>4 DEF SenderInv
<1>6. delivered \subseteq spooled
  BY Zenon DEF NodeIInv, SpooledAccounted
<1> QED
  BY Zenon, <1>4, <1>5, <1>6, SenderKeepsInv

\* The other steps of sendLoop that remove nothing.
LEMMA SendInv ==
  ASSUME NodeIInv, Open \/ Post \/ PostUnanswered \/ RemoveFails \/ CollectorChanges \/ StartAgent
  PROVE  NodeIInv'
<1>1. /\ sender \in [at : {"poll", "open", "post", "remove", "killed"}, ts : Nat]
      /\ SenderInv /\ delivered \subseteq spooled
  BY Zenon DEF NodeIInv, NodeTypes, SpooledAccounted
<1>2. /\ UNCHANGED <<files, temps, scraper, spooled, evicted>>
      /\ \/ UNCHANGED budget
         \/ budget' = [budget EXCEPT !.errors = @ + 1]
  BY Zenon DEF Open, Post, PostUnanswered, RemoveFails, CollectorChanges, StartAgent
<1>3. \/ delivered' = delivered
      \/ sender.at = "post" /\ delivered' = delivered \cup {sender.ts}
  BY Zenon DEF Open, Post, PostUnanswered, RemoveFails, CollectorChanges, StartAgent
<1>4. /\ delivered \subseteq delivered' /\ delivered' \subseteq spooled
  BY Zenon, <1>1, <1>3 DEF SenderInv
<1>5. \/ sender' = sender \/ sender' = Polling
      \/ sender.at = "open" /\ sender' = [sender EXCEPT !.at = "post"]
      \/ /\ sender.at = "post" /\ sender' = [sender EXCEPT !.at = "remove"]
         /\ sender.ts \in delivered'
  BY Zenon DEF Open, Post, PostUnanswered, RemoveFails, CollectorChanges, StartAgent
<1>6. /\ sender' \in [at : {"poll", "open", "post", "remove", "killed"}, ts : Nat]
      /\ SenderInv'
  BY <1>1, <1>2, <1>4, <1>5 DEF SenderInv, Polling
<1> QED
  BY Zenon, <1>2, <1>4, <1>6, SenderKeepsInv

\* A file leaves the spool that the collector has or that is counted as evicted.
LEMMA WithoutInv ==
  ASSUME NodeIInv, NEW ts, files' = Without(ts),
         UNCHANGED <<temps, spooled, delivered, budget>>,
         ts \in delivered \cup evicted'
  PROVE  /\ DOMAIN files' \subseteq spooled
         /\ DOMAIN files' \subseteq DOMAIN files
         /\ \A t \in DOMAIN files' : files'[t] \in Sizes
         /\ evicted \subseteq evicted' =>
              \A t \in spooled : t \in DOMAIN files' \cup delivered \cup evicted'
         /\ Cardinality(DOMAIN files') \in Nat
         /\ Cardinality(DOMAIN files') <= Cardinality(DOMAIN files)
         /\ ts \in DOMAIN files => Cardinality(DOMAIN files') = Cardinality(DOMAIN files) - 1
<1>1. /\ DOMAIN files \subseteq spooled /\ spooled \subseteq 1 .. budget.scrapes
      /\ \A t \in DOMAIN files : files[t] \in Sizes
      /\ \A t \in spooled : t \in DOMAIN files \cup delivered \cup evicted
      /\ NodeTypes
  BY Zenon DEF NodeIInv, NodeTypes, SpooledAccounted
<1>2. /\ DOMAIN files' = DOMAIN files \ {ts}
      /\ \A t \in DOMAIN files' : files'[t] = files[t]
  BY Zenon DEF Without
<1>3. IsFiniteSet(DOMAIN files) /\ Cardinality(DOMAIN files) \in Nat
  BY Zenon, <1>1, TimestampsFinite
<1>4. /\ IsFiniteSet(DOMAIN files')
      /\ Cardinality(DOMAIN files') =
           IF ts \in DOMAIN files THEN Cardinality(DOMAIN files) - 1 ELSE Cardinality(DOMAIN files)
      /\ Cardinality(DOMAIN files') \in Nat
  BY <1>2, <1>3, FS_RemoveElement, FS_CardinalityType
<1>5. evicted \subseteq evicted' =>
        \A t \in spooled : t \in DOMAIN files' \cup delivered \cup evicted'
  BY Zenon, <1>1, <1>2
<1>6. DOMAIN files' \subseteq spooled /\ DOMAIN files' \subseteq DOMAIN files
  BY Zenon, <1>1, <1>2
<1>7. \A t \in DOMAIN files' : files'[t] \in Sizes
  BY Zenon, <1>1, <1>2
<1> QED
  BY <1>3, <1>4, <1>5, <1>6, <1>7

\* sendLoop removes what was delivered, at any moment of a scrape.
LEMMA RemoveSentInv ==
  ASSUME NodeIInv, RemoveSent
  PROVE  NodeIInv'
<1>1. /\ NodeTypes /\ ScraperInv /\ SenderInv /\ SpooledAccounted
  BY Zenon DEF NodeIInv
<1>2. /\ files' = Without(sender.ts) /\ sender' = Polling
      /\ UNCHANGED <<temps, scraper, spooled, delivered, evicted, budget>>
      /\ sender.ts \in delivered
  BY Zenon, <1>1 DEF RemoveSent, SenderInv
<1>3. /\ DOMAIN files' \subseteq spooled
      /\ DOMAIN files' \subseteq DOMAIN files
      /\ \A t \in DOMAIN files' : files'[t] \in Sizes
      /\ \A t \in spooled : t \in DOMAIN files' \cup delivered \cup evicted
      /\ Cardinality(DOMAIN files') \in Nat
      /\ Cardinality(DOMAIN files') <= Cardinality(DOMAIN files)
  BY Zenon, <1>2, WithoutInv
<1>4. Cardinality(DOMAIN files) \in Nat
  BY Zenon, <1>1, TimestampsFinite DEF NodeTypes
<1>5. NodeTypes'
  BY Zenon, <1>1, <1>2, <1>3 DEF NodeTypes, Polling
<1>6. SenderInv'
  BY Zenon, <1>2 DEF SenderInv, Polling
<1>7. ScraperInv'
  BY <1>1, <1>2, <1>3, <1>4, MaxFilesProperties DEF ScraperInv, MaxFiles
<1>8. Cardinality(DOMAIN files') <= MaxFiles + 1
  BY <1>1, <1>3, <1>4, MaxFilesProperties DEF SpooledAccounted, MaxFiles
<1>9. SpooledAccounted'
  BY Zenon, <1>1, <1>2, <1>3, <1>8 DEF SpooledAccounted, MaxFiles
<1> QED
  BY Zenon, <1>5, <1>6, <1>7, <1>9 DEF NodeIInv

-----------------------------------------------------------------------------
\* A step of scrapeLoop, or the end of the process, that leaves the .done files
\* alone.
LEMMA ScraperKeepsInv ==
  ASSUME NodeIInv, NodeTypes', ScraperInv', SenderInv',
         UNCHANGED <<files, spooled, delivered, evicted>>,
         Cardinality(temps' \ {scraper'.ts}) <= budget'.kills
  PROVE  NodeIInv'
<1>1. SpooledAccounted'
  BY Zenon DEF NodeIInv, SpooledAccounted
<1> QED
  BY Zenon, <1>1 DEF NodeIInv

\* A scrape that is given up before or while it had its temporary file.
LEMMA GivenUpInv ==
  ASSUME NodeIInv, scraper' = Waiting,
         budget' \in [scrapes : Nat, errors : Nat, kills : Nat],
         budget'.scrapes = budget.scrapes, budget'.kills = budget.kills,
         temps' = temps \ {scraper.ts},
         UNCHANGED <<files, sender, spooled, delivered, evicted>>
  PROVE  NodeIInv'
<1>1. NodeTypes /\ SenderInv /\ Cardinality(temps \ {scraper.ts}) <= budget.kills
  BY Zenon DEF NodeIInv, SpooledAccounted
<1>2. NodeTypes'
  BY Zenon, <1>1 DEF NodeTypes, Waiting
<1>3. ScraperInv'
  BY Zenon DEF ScraperInv, Waiting
<1>4. SenderInv'
  BY Zenon, <1>1 DEF SenderInv
<1>5. 0 \notin temps /\ scraper'.ts = 0
  BY <1>1 DEF NodeTypes, Waiting
<1>6. temps' \ {scraper'.ts} = temps \ {scraper.ts}
  BY Zenon, <1>5
<1> QED
  BY Zenon, <1>1, <1>2, <1>3, <1>4, <1>6, ScraperKeepsInv

\* A scrape lists the directory.
LEMMA ScrapeInv ==
  ASSUME NodeIInv, Scrape
  PROVE  NodeIInv'
<1>1. NodeTypes /\ ScraperInv /\ SenderInv /\ Cardinality(temps \ {scraper.ts}) <= budget.kills
  BY Zenon DEF NodeIInv, SpooledAccounted
<1>2. PICK size \in Sizes :
        scraper' = [Waiting EXCEPT !.at = IF Cardinality(DOMAIN files) <= 1 THEN "create" ELSE "stat",
                                   !.ts = budget'.scrapes, !.size = size,
                                   !.list = DOMAIN files, !.left = DOMAIN files]
  BY Zenon DEF Scrape, ListSpoolFiles
<1>3. /\ scraper.at = "wait"
      /\ budget' = [budget EXCEPT !.scrapes = @ + 1]
      /\ UNCHANGED <<files, temps, sender, spooled, delivered, evicted>>
  BY Zenon DEF Scrape
<1>4. /\ budget \in [scrapes : Nat, errors : Nat, kills : Nat]
      /\ temps \subseteq 1 .. budget.scrapes
      /\ spooled \subseteq 1 .. budget.scrapes
      /\ DOMAIN files \subseteq spooled
  BY Zenon, <1>1 DEF NodeTypes
<1>5. /\ budget' \in [scrapes : Nat, errors : Nat, kills : Nat]
      /\ budget'.scrapes = budget.scrapes + 1 /\ budget'.kills = budget.kills
  BY <1>3, <1>4
<1>6. /\ scraper' = [at |-> IF Cardinality(DOMAIN files) <= 1 THEN "create" ELSE "stat",
                     ts |-> budget.scrapes + 1, size |-> size,
                     list |-> DOMAIN files, left |-> DOMAIN files, total |-> 0]
      /\ size \in Nat
  BY Zenon, <1>2, <1>5, SmallestProperties DEF Waiting
<1>7. temps \subseteq 1 .. budget'.scrapes /\ spooled \subseteq 1 .. budget'.scrapes
  BY <1>4, <1>5
<1>8. NodeTypes'
  <2>1. DOMAIN files \subseteq Nat
    BY Zenon, <1>1, <1>4, TimestampsFinite
  <2>2. scraper' \in [at : {"wait", "stat", "evict", "create", "rename"}, ts : Nat, size : Nat,
                      list : SUBSET Nat, left : SUBSET Nat, total : Nat]
    BY <1>4, <1>6, <2>1
  <2>3. DOMAIN files' \subseteq spooled' /\ \A t \in DOMAIN files' : files'[t] \in Sizes
    BY Zenon, <1>1, <1>3 DEF NodeTypes
  <2> QED
    BY Zenon, <1>1, <1>3, <1>5, <1>7, <2>2, <2>3 DEF NodeTypes
<1>9. /\ IsFiniteSet(DOMAIN files) /\ Cardinality(DOMAIN files) \in Nat
      /\ DOMAIN files \ DOMAIN files = {} /\ Cardinality({}) = 0
      /\ Cardinality(DOMAIN files) # 0 => DOMAIN files # {}
  <2>1. IsFiniteSet(DOMAIN files) /\ Cardinality(DOMAIN files) \in Nat
    BY Zenon, <1>1, <1>4, TimestampsFinite
  <2> QED
    BY Zenon, <2>1, FS_EmptySet
<1>10. budget.scrapes + 1 \notin temps
  BY <1>4
<1>11. ScraperInv'
  <2>1. /\ scraper'.at \in {"create", "stat"}
        /\ scraper'.ts = budget'.scrapes /\ scraper'.size \in Sizes /\ 1 <= budget'.scrapes
        /\ scraper'.ts \notin temps'
    BY <1>3, <1>4, <1>5, <1>6, <1>10
  <2>2. CASE scraper'.at = "create"
    <3>1. Cardinality(DOMAIN files') <= MaxFiles
      BY <1>3, <1>6, <1>9, <2>2, MaxFilesProperties
    <3> QED
      BY Zenon, <2>1, <2>2, <3>1 DEF ScraperInv, MaxFiles
  <2>3. CASE scraper'.at = "stat"
    <3>1. /\ scraper'.list = DOMAIN files /\ scraper'.left = DOMAIN files
          /\ scraper'.total = 0
          /\ 2 <= Cardinality(DOMAIN files)
      BY <1>6, <1>9, <2>3
    <3>2. Cardinality(scraper'.list \ scraper'.left) * SmallestSize <= scraper'.total
      <4>1. scraper'.list \ scraper'.left = {}
        BY Zenon, <3>1
      <4>2. Cardinality(scraper'.list \ scraper'.left) = 0
        BY Zenon, <4>1, <1>9
      <4>3. 0 * SmallestSize = 0
        BY SmallestProperties
      <4> QED
        BY <3>1, <4>2, <4>3
    <3>3. scraper'.left # {}
      BY <1>9, <3>1
    <3>4. DOMAIN files' \subseteq scraper'.list /\ scraper'.list \subseteq spooled'
      BY Zenon, <1>3, <1>4, <3>1
    <3> QED
      BY Zenon, <2>1, <2>3, <3>1, <3>2, <3>3, <3>4 DEF ScraperInv
  <2> QED
    BY Zenon, <2>1, <2>2, <2>3
<1>12. SenderInv'
  BY Zenon, <1>1, <1>3 DEF SenderInv
<1>13. Cardinality(temps' \ {scraper'.ts}) <= budget'.kills
  <2>1. scraper.ts = 0
    BY Zenon, <1>1, <1>3 DEF ScraperInv
  <2>2. temps' \ {scraper'.ts} = temps \ {scraper.ts}
    BY <1>3, <1>4, <1>6, <2>1
  <2> QED
    BY Zenon, <1>1, <1>5, <2>2
<1> QED
  BY Zenon, <1>3, <1>8, <1>11, <1>12, <1>13, ScraperKeepsInv

\* The next listed file has its Stat: it is counted, or gone.
LEMMA StatInv ==
  ASSUME NodeIInv, Stat
  PROVE  NodeIInv'
<1>1. NodeTypes /\ ScraperInv /\ SenderInv /\ Cardinality(temps \ {scraper.ts}) <= budget.kills
  BY DEF NodeIInv, SpooledAccounted
<1> PICK ts : ts = OldestFile(scraper.left)
  BY Zenon
<1> PICK total : total = scraper.total + files[ts]
  BY Zenon
<1>2. /\ scraper.at = "stat"
      /\ scraper' =
           IF ts \notin DOMAIN files THEN Waiting
           ELSE IF scraper.left # {ts}
           THEN [scraper EXCEPT !.left = @ \ {ts}, !.total = total]
           ELSE [scraper EXCEPT !.at = IF total > MaxSpoolSize THEN "evict" ELSE "create"]
      /\ UNCHANGED <<files, temps, sender, spooled, delivered, evicted, budget>>
  BY Zenon DEF Stat
<1>3. /\ DOMAIN files \subseteq scraper.list /\ scraper.list \subseteq spooled
      /\ 2 <= Cardinality(scraper.list)
      /\ scraper.left \subseteq scraper.list /\ scraper.left # {}
      /\ Cardinality(scraper.list \ scraper.left) * SmallestSize <= scraper.total
      /\ scraper.ts \notin temps
      /\ scraper.ts = budget.scrapes /\ scraper.size \in Sizes /\ 1 <= budget.scrapes
  BY Zenon, <1>1, <1>2 DEF ScraperInv
<1>4. /\ scraper \in [at : {"wait", "stat", "evict", "create", "rename"}, ts : Nat, size : Nat,
                      list : SUBSET Nat, left : SUBSET Nat, total : Nat]
      /\ spooled \subseteq 1 .. budget.scrapes
      /\ \A t \in DOMAIN files : files[t] \in Sizes
      /\ budget \in [scrapes : Nat, errors : Nat, kills : Nat]
  BY Zenon, <1>1 DEF NodeTypes
<1>5. ts \in scraper.left
  BY Zenon, <1>3, <1>4, OldestProperties
<1>6. SenderInv'
  BY Zenon, <1>1, <1>2 DEF SenderInv
<1>7. CASE ts \notin DOMAIN files
  <2>1. scraper' = Waiting /\ temps' = temps \ {scraper.ts}
    BY Zenon, <1>2, <1>3, <1>7
  <2> QED
    BY Zenon, <1>2, <1>4, <2>1, GivenUpInv
<1>8. CASE ts \in DOMAIN files
  <2>1. files[ts] \in Nat /\ SmallestSize <= files[ts] /\ scraper.total \in Nat /\ SmallestSize \in Nat
    BY Zenon, <1>4, <1>8, SmallestProperties
  <2>2. total \in Nat
    BY <2>1
  <2>3. /\ IsFiniteSet(scraper.list) /\ Cardinality(scraper.list) \in Nat
        /\ IsFiniteSet(scraper.list \ scraper.left)
        /\ Cardinality(scraper.list \ scraper.left) \in Nat
    <3>1. scraper.list \subseteq 1 .. budget.scrapes
      BY Zenon, <1>3, <1>4
    <3>2. scraper.list \ scraper.left \subseteq 1 .. budget.scrapes
      BY Zenon, <3>1
    <3> QED
      BY Zenon, <1>1, <3>1, <3>2, TimestampsFinite
  <2>4. /\ scraper.list \ (scraper.left \ {ts}) = (scraper.list \ scraper.left) \cup {ts}
        /\ ts \notin scraper.list \ scraper.left
    BY Zenon, <1>3, <1>5
  <2>5. Cardinality(scraper.list \ (scraper.left \ {ts})) =
          Cardinality(scraper.list \ scraper.left) + 1
    BY Zenon, <2>3, <2>4, FS_AddElement
  <2>6. Cardinality(scraper.list \ (scraper.left \ {ts})) * SmallestSize <= total
    BY Zenon, <1>3, <2>1, <2>3, <2>5, OneMoreFile
  <2>7. CASE scraper.left # {ts}
    <3>1. scraper' = [scraper EXCEPT !.left = @ \ {ts}, !.total = total]
      BY Zenon, <1>2, <1>8, <2>7
    <3>2. /\ scraper'.at = "stat" /\ scraper'.ts = scraper.ts /\ scraper'.size = scraper.size
          /\ scraper'.list = scraper.list /\ scraper'.left = scraper.left \ {ts}
          /\ scraper'.total = total
          /\ scraper' \in [at : {"wait", "stat", "evict", "create", "rename"}, ts : Nat, size : Nat,
                           list : SUBSET Nat, left : SUBSET Nat, total : Nat]
      <4>1. scraper.at = "stat" /\ scraper.left \ {ts} \in SUBSET Nat
        BY Zenon, <1>2, <1>4
      <4> QED
        BY Zenon, <1>4, <2>2, <3>1, <4>1
    <3>3. NodeTypes'
      BY Zenon, <1>1, <1>2, <3>2 DEF NodeTypes
    <3>4. scraper'.left # {} /\ scraper'.left \subseteq scraper.list
      BY Zenon, <1>3, <1>5, <2>7, <3>2
    <3>5. Cardinality(scraper'.list \ scraper'.left) * SmallestSize <= scraper'.total
      BY Zenon, <2>6, <3>2
    <3>6. ScraperInv'
      BY Zenon, <1>2, <1>3, <3>2, <3>4, <3>5 DEF ScraperInv
    <3>7. Cardinality(temps' \ {scraper'.ts}) <= budget'.kills
      BY Zenon, <1>1, <1>2, <3>2
    <3> QED
      BY Zenon, <1>2, <1>6, <3>3, <3>6, <3>7, ScraperKeepsInv
  <2>8. CASE scraper.left = {ts}
    <3>1. /\ scraper' = [scraper EXCEPT !.at = IF total > MaxSpoolSize THEN "evict" ELSE "create"]
      BY Zenon, <1>2, <1>8, <2>8
    <3>2. /\ scraper'.at = IF total > MaxSpoolSize THEN "evict" ELSE "create"
          /\ scraper'.ts = scraper.ts /\ scraper'.size = scraper.size
          /\ scraper'.list = scraper.list
          /\ scraper' \in [at : {"wait", "stat", "evict", "create", "rename"}, ts : Nat, size : Nat,
                           list : SUBSET Nat, left : SUBSET Nat, total : Nat]
      BY Zenon, <1>4, <3>1
    <3>3. NodeTypes'
      BY Zenon, <1>1, <1>2, <3>2 DEF NodeTypes
    <3>4. scraper.list \ (scraper.left \ {ts}) = scraper.list
      BY Zenon, <2>8
    <3>5. Cardinality(scraper.list) * SmallestSize <= total
      BY Zenon, <2>6, <3>4
    <3>6. ASSUME scraper'.at = "create"
          PROVE  Cardinality(DOMAIN files) <= MaxFiles
      <4>1. ~(total > MaxSpoolSize)
        BY Zenon, <3>2, <3>6
      <4>2. Cardinality(scraper.list) * SmallestSize \in Nat
        BY <2>1, <2>3
      <4>3. Cardinality(scraper.list) * SmallestSize <= MaxSpoolSize
        BY <2>2, <3>5, <4>1, <4>2, NodeAssumption
      <4>4. Cardinality(scraper.list) <= MaxFiles
        BY Zenon, <2>3, <4>3, MaxFilesProperties
      <4>5. Cardinality(DOMAIN files) <= Cardinality(scraper.list) /\ Cardinality(DOMAIN files) \in Nat
        BY Zenon, <1>3, <2>3, SmallerSet
      <4> QED
        BY <2>3, <4>4, <4>5, MaxFilesProperties
    <3>7. ScraperInv'
      BY Zenon, <1>2, <1>3, <3>2, <3>6 DEF ScraperInv, MaxFiles
    <3>8. Cardinality(temps' \ {scraper'.ts}) <= budget'.kills
      BY Zenon, <1>1, <1>2, <3>2
    <3> QED
      BY Zenon, <1>2, <1>6, <3>3, <3>7, <3>8, ScraperKeepsInv
  <2> QED
    BY Zenon, <2>7, <2>8
<1> QED
  BY Zenon, <1>7, <1>8

\* The oldest listed file is evicted, or gone.
LEMMA EvictInv ==
  ASSUME NodeIInv, Evict
  PROVE  NodeIInv'
<1>1. NodeTypes /\ ScraperInv /\ SenderInv /\ SpooledAccounted
  BY Zenon DEF NodeIInv
<1> PICK ts : ts = OldestFile(scraper.list)
  BY Zenon
<1>2. /\ scraper.at = "evict"
      /\ UNCHANGED <<temps, sender, spooled, delivered, budget>>
  BY Zenon DEF Evict
<1>3. /\ DOMAIN files \subseteq scraper.list /\ scraper.list \subseteq spooled
      /\ 2 <= Cardinality(scraper.list)
      /\ scraper.ts \notin temps
      /\ scraper.ts = budget.scrapes /\ scraper.size \in Sizes /\ 1 <= budget.scrapes
  BY Zenon, <1>1, <1>2 DEF ScraperInv
<1>4. /\ scraper \in [at : {"wait", "stat", "evict", "create", "rename"}, ts : Nat, size : Nat,
                      list : SUBSET Nat, left : SUBSET Nat, total : Nat]
      /\ spooled \subseteq 1 .. budget.scrapes /\ DOMAIN files \subseteq spooled
      /\ budget \in [scrapes : Nat, errors : Nat, kills : Nat]
  BY Zenon, <1>1 DEF NodeTypes
<1>5. CASE ts \notin DOMAIN files
  <2>1. scraper' = Waiting /\ temps' = temps \ {scraper.ts} /\ UNCHANGED <<files, evicted>>
    BY Zenon, <1>2, <1>3, <1>5 DEF Evict
  <2> QED
    BY Zenon, <1>2, <1>4, <2>1, GivenUpInv
<1>6. CASE ts \in DOMAIN files
  <2>1. /\ files' = Without(ts)
        /\ evicted' = evicted \cup {ts}
        /\ scraper' = [scraper EXCEPT !.at = "create"]
    BY Zenon, <1>6 DEF Evict
  <2>2. /\ DOMAIN files' \subseteq spooled
        /\ \A t \in DOMAIN files' : files'[t] \in Sizes
        /\ \A t \in spooled : t \in DOMAIN files' \cup delivered \cup evicted'
        /\ Cardinality(DOMAIN files') = Cardinality(DOMAIN files) - 1
    BY Zenon, <1>2, <1>6, <2>1, WithoutInv
  <2>3. Cardinality(DOMAIN files) \in Nat
    BY Zenon, <1>1, TimestampsFinite DEF NodeTypes
  <2>4. Cardinality(DOMAIN files') <= MaxFiles
    BY <1>1, <2>2, <2>3, MaxFilesProperties DEF SpooledAccounted, MaxFiles
  <2>5. /\ scraper'.at = "create" /\ scraper'.ts = scraper.ts /\ scraper'.size = scraper.size
        /\ scraper' \in [at : {"wait", "stat", "evict", "create", "rename"}, ts : Nat, size : Nat,
                         list : SUBSET Nat, left : SUBSET Nat, total : Nat]
    BY Zenon, <1>4, <2>1
  <2>6. NodeTypes'
    BY Zenon, <1>1, <1>2, <2>2, <2>5 DEF NodeTypes
  <2>7. ScraperInv'
    BY Zenon, <1>2, <1>3, <2>4, <2>5 DEF ScraperInv, MaxFiles
  <2>8. SenderInv'
    BY Zenon, <1>1, <1>2 DEF SenderInv
  <2>9. \E later \in spooled : later > ts
    <3>1. scraper.list \subseteq Nat /\ IsFiniteSet(scraper.list)
      <4>1. scraper.list \subseteq 1 .. budget.scrapes
        BY Zenon, <1>3, <1>4
      <4> QED
        BY Zenon, <1>1, <4>1, TimestampsFinite
    <3>2. scraper.list # {ts}
      <4>1. Cardinality({ts}) = 1
        BY Zenon, FS_Singleton
      <4> QED
        BY <1>3, <4>1
    <3>3. ts \in scraper.list /\ \A y \in scraper.list : ts <= y
      BY Zenon, <1>3, <1>6, <3>1, OldestProperties
    <3>4. PICK later \in scraper.list : later # ts
      BY Zenon, <3>2, <3>3
    <3>5. later > ts /\ later \in spooled
      BY <1>3, <3>1, <3>3, <3>4
    <3> QED
      BY Zenon, <3>5
  <2>10. \A t \in evicted' : \E later \in spooled : later > t
    BY Zenon, <1>1, <2>1, <2>9 DEF SpooledAccounted
  <2>11. Cardinality(temps' \ {scraper'.ts}) <= budget'.kills
    BY Zenon, <1>1, <1>2, <2>5 DEF SpooledAccounted
  <2>12. Cardinality(DOMAIN files') <= MaxFiles + 1
    BY <2>2, <2>3, <2>4, MaxFilesProperties
  <2>13. SpooledAccounted'
    BY Zenon, <1>1, <1>2, <2>2, <2>10, <2>11, <2>12 DEF SpooledAccounted, MaxFiles
  <2> QED
    BY Zenon, <2>6, <2>7, <2>8, <2>13 DEF NodeIInv
<1> QED
  BY Zenon, <1>5, <1>6

\* The temporary file.
LEMMA CreateTempInv ==
  ASSUME NodeIInv, CreateTemp
  PROVE  NodeIInv'
<1>1. NodeTypes /\ ScraperInv /\ SenderInv /\ Cardinality(temps \ {scraper.ts}) <= budget.kills
  BY DEF NodeIInv, SpooledAccounted
<1>2. /\ scraper.at = "create"
      /\ temps' = temps \cup {scraper.ts}
      /\ scraper' = [scraper EXCEPT !.at = "rename"]
      /\ UNCHANGED <<files, sender, spooled, delivered, evicted, budget>>
  BY Zenon DEF CreateTemp
<1>3. /\ scraper.ts = budget.scrapes /\ scraper.size \in Sizes /\ 1 <= budget.scrapes
      /\ Cardinality(DOMAIN files) <= MaxFiles
  BY Zenon, <1>1, <1>2 DEF ScraperInv
<1>4. /\ scraper'.at = "rename" /\ scraper'.ts = scraper.ts /\ scraper'.size = scraper.size
      /\ scraper' \in [at : {"wait", "stat", "evict", "create", "rename"}, ts : Nat, size : Nat,
                       list : SUBSET Nat, left : SUBSET Nat, total : Nat]
  BY Zenon, <1>1, <1>2 DEF NodeTypes
<1>5. temps' \subseteq 1 .. budget.scrapes
  BY <1>1, <1>2, <1>3 DEF NodeTypes
<1>6. NodeTypes'
  BY Zenon, <1>1, <1>2, <1>4, <1>5 DEF NodeTypes
<1>7. ScraperInv'
  BY Zenon, <1>2, <1>3, <1>4 DEF ScraperInv, MaxFiles
<1>8. SenderInv'
  BY Zenon, <1>1, <1>2 DEF SenderInv
<1>9. temps' \ {scraper'.ts} = temps \ {scraper.ts}
  BY Zenon, <1>2, <1>4
<1> QED
  BY Zenon, <1>1, <1>2, <1>6, <1>7, <1>8, <1>9, ScraperKeepsInv

\* The scrape enters the spool as one file more.
LEMMA RenameInv ==
  ASSUME NodeIInv, Rename
  PROVE  NodeIInv'
<1>1. NodeTypes /\ ScraperInv /\ SenderInv /\ SpooledAccounted
  BY DEF NodeIInv
<1>2. /\ scraper.at = "rename"
      /\ temps' = temps \ {scraper.ts}
      /\ spooled' = spooled \cup {scraper.ts}
      /\ scraper' = Waiting
      /\ UNCHANGED <<sender, delivered, evicted, budget>>
  BY Zenon DEF Rename
<1>3. /\ DOMAIN files' = DOMAIN files \cup {scraper.ts}
      /\ \A t \in DOMAIN files' : files'[t] = IF t = scraper.ts THEN scraper.size ELSE files[t]
  BY Zenon DEF Rename
<1>4. /\ scraper.ts = budget.scrapes /\ scraper.size \in Sizes /\ 1 <= budget.scrapes
      /\ Cardinality(DOMAIN files) <= MaxFiles
  BY Zenon, <1>1, <1>2 DEF ScraperInv
<1>5. /\ spooled' \subseteq 1 .. budget.scrapes
      /\ temps' \subseteq 1 .. budget.scrapes /\ 0 \notin temps
  <2>1. /\ spooled \subseteq 1 .. budget.scrapes /\ temps \subseteq 1 .. budget.scrapes
        /\ budget.scrapes \in Nat
    BY Zenon, <1>1 DEF NodeTypes
  <2>2. budget.scrapes \in 1 .. budget.scrapes
    BY <2>1, <1>4
  <2>3. spooled' \subseteq 1 .. budget.scrapes /\ temps' \subseteq 1 .. budget.scrapes
    BY Zenon, <1>2, <1>4, <2>1, <2>2
  <2>4. 0 \notin 1 .. budget.scrapes
    OBVIOUS
  <2> QED
    BY Zenon, <2>1, <2>3, <2>4
<1>6. DOMAIN files' \subseteq spooled' /\ \A t \in DOMAIN files' : files'[t] \in Sizes
  BY Zenon, <1>1, <1>2, <1>3, <1>4 DEF NodeTypes
<1>7. NodeTypes'
  BY Zenon, <1>1, <1>2, <1>5, <1>6 DEF NodeTypes, Waiting
<1>8. ScraperInv'
  BY Zenon, <1>2 DEF ScraperInv, Waiting
<1>9. SenderInv'
  BY Zenon, <1>1, <1>2 DEF SenderInv
<1>10. Cardinality(DOMAIN files') <= MaxFiles + 1
  <2>1. IsFiniteSet(DOMAIN files) /\ Cardinality(DOMAIN files) \in Nat
    BY Zenon, <1>1, TimestampsFinite DEF NodeTypes
  <2>2. /\ Cardinality(DOMAIN files') \in Nat
        /\ Cardinality(DOMAIN files') <= Cardinality(DOMAIN files) + 1
    BY <1>3, <2>1, FS_AddElement
  <2> QED
    BY <1>4, <2>1, <2>2, MaxFilesProperties
<1>11. temps' \ {scraper'.ts} = temps \ {scraper.ts}
  BY <1>2, <1>5 DEF Waiting
<1>12. /\ delivered' \subseteq spooled'
       /\ \A t \in spooled' : t \in DOMAIN files' \cup delivered' \cup evicted'
       /\ \A t \in evicted' : \E later \in spooled' : later > t
  BY Zenon, <1>1, <1>2, <1>3 DEF SpooledAccounted
<1>13. Cardinality(temps' \ {scraper'.ts}) <= budget'.kills
  BY Zenon, <1>1, <1>2, <1>11 DEF SpooledAccounted
<1>14. SpooledAccounted'
  BY Zenon, <1>10, <1>12, <1>13 DEF SpooledAccounted, MaxFiles
<1> QED
  BY Zenon, <1>7, <1>8, <1>9, <1>14 DEF NodeIInv

\* A kill may leave the scrape's temporary file behind.
LEMMA KillInv ==
  ASSUME NodeIInv, Kill
  PROVE  NodeIInv'
<1>1. NodeTypes /\ SenderInv /\ Cardinality(temps \ {scraper.ts}) <= budget.kills
  BY Zenon DEF NodeIInv, SpooledAccounted
<1>2. /\ budget' = [budget EXCEPT !.kills = @ + 1]
      /\ scraper' = Waiting
      /\ sender' = [Polling EXCEPT !.at = "killed"]
      /\ UNCHANGED <<files, temps, spooled, delivered, evicted>>
  BY Zenon DEF Kill
<1>3. /\ budget' \in [scrapes : Nat, errors : Nat, kills : Nat]
      /\ budget'.scrapes = budget.scrapes /\ budget'.kills = budget.kills + 1
      /\ budget.kills \in Nat
  BY <1>1, <1>2 DEF NodeTypes
<1>4. /\ sender' \in [at : {"poll", "open", "post", "remove", "killed"}, ts : Nat]
      /\ sender'.at = "killed"
  BY Zenon, <1>2 DEF Polling
<1>5. NodeTypes'
  BY Zenon, <1>1, <1>2, <1>3, <1>4 DEF NodeTypes, Waiting
<1>6. ScraperInv' /\ SenderInv'
  BY Zenon, <1>2, <1>4 DEF ScraperInv, SenderInv, Waiting
<1>7. temps \subseteq 1 .. budget.scrapes /\ temps' \ {scraper'.ts} = temps
  BY <1>1, <1>2 DEF NodeTypes, Waiting
<1>8. IsFiniteSet(temps) /\ Cardinality(temps) \in Nat
  BY Zenon, <1>1, <1>7, TimestampsFinite
<1>9. /\ Cardinality(temps) <= Cardinality(temps \ {scraper.ts}) + 1
      /\ Cardinality(temps \ {scraper.ts}) \in Nat
  <2>1. /\ IsFiniteSet(temps \ {scraper.ts})
        /\ Cardinality(temps \ {scraper.ts}) =
             IF scraper.ts \in temps THEN Cardinality(temps) - 1 ELSE Cardinality(temps)
    BY Zenon, <1>8, FS_RemoveElement
  <2>2. Cardinality(temps \ {scraper.ts}) \in Nat
    BY <2>1, FS_CardinalityType
  <2> QED
    BY <1>8, <2>1, <2>2
<1>10. Cardinality(temps' \ {scraper'.ts}) <= budget'.kills
  BY <1>1, <1>3, <1>7, <1>8, <1>9
<1> QED
  BY Zenon, <1>2, <1>5, <1>6, <1>10, ScraperKeepsInv

\* Every step of the node telemetry writer.
LEMMA NodeNextInv == NodeIInv /\ [NodeNext]_nodeVars => NodeIInv'
<1> SUFFICES ASSUME NodeIInv, [NodeNext]_nodeVars PROVE NodeIInv'
  BY Zenon
<1>1. CASE ScrapeFails
  <2>1. /\ budget' = [budget EXCEPT !.errors = @ + 1]
        /\ temps' = temps \ {scraper.ts}
        /\ scraper' = Waiting
        /\ UNCHANGED <<files, sender, spooled, delivered, evicted>>
    BY Zenon, <1>1 DEF ScrapeFails
  <2>2. /\ budget' \in [scrapes : Nat, errors : Nat, kills : Nat]
        /\ budget'.scrapes = budget.scrapes /\ budget'.kills = budget.kills
    BY <2>1 DEF NodeIInv, NodeTypes
  <2> QED
    BY Zenon, <2>1, <2>2, GivenUpInv
<1>2. CASE UNCHANGED nodeVars
  BY Zenon, <1>2 DEF nodeVars, NodeIInv, NodeTypes, ScraperInv, SenderInv, SpooledAccounted, MaxFiles
<1> QED
  BY Zenon, <1>1, <1>2, ScrapeInv, StatInv, EvictInv, CreateTempInv, RenameInv, GetOldestInv, SendInv,
     RemoveSentInv, KillInv DEF NodeNext, ScrapeLoop, SendLoop

(* The inductive invariant of the node telemetry writer.                   *)
THEOREM NodeInvariant == NodeSpec => []NodeIInv
BY NodeInitInv, NodeNextInv, PTL DEF NodeSpec

(* For any sizes, any spool limit, any number of scrapes and any kills and *)
(* errors: what is delivered was spooled, no spooled scrape is lost but by *)
(* eviction, the newest one is never evicted, and the directory is bounded *)
(* (remote_writer.go:136-164, 266-314).                                    *)
THEOREM SpoolAlwaysAccounted == NodeSpec => []SpooledAccounted
<1>1. NodeIInv => SpooledAccounted
  BY Zenon DEF NodeIInv
<1> QED
  BY <1>1, NodeInvariant, PTL

-----------------------------------------------------------------------------
(* How a scrape collects the containers                                    *)

\* The fields of a Collect and of handleEvents, without which EXCEPT says
\* nothing of them.
IsCollect(r) == r = [at |-> r.at, map |-> r.map, left |-> r.left]
IsHandler(h) == h = [at |-> h.at, todo |-> h.todo, entry |-> h.entry]

\* While handleEvents has an entry in hand, the iteration it comes from is not
\* over: the nil that ends it waits for the select.
StatsIInv ==
  /\ DOMAIN collect = Collectors /\ \A x \in Collectors : IsCollect(collect[x])
  /\ IsHandler(handler)
  /\ handler.entry # NoEntry =>
       handler.at = "update" /\ \E x \in Collectors : collect[x].at = "send"

\* Nobody collects and handleEvents waits for something to do.
LEMMA StatsInitInv == StatsInit => StatsIInv
BY DEF StatsInit, StatsIInv, IsCollect, IsHandler, Outside, Select, At

\* A step after which handleEvents has no entry in hand.
LEMMA NoEntryInv ==
  ASSUME StatsIInv, UNCHANGED collect, IsHandler(handler'), handler'.entry = NoEntry
  PROVE  StatsIInv'
BY Zenon DEF StatsIInv, IsCollect, IsHandler

\* What becomes of one Collect: the others go on as they were.
LEMMA OneCollect ==
  ASSUME StatsIInv, NEW x \in Collectors, NEW r, IsCollect(r),
         collect' = [collect EXCEPT ![x] = r], UNCHANGED handler,
         \/ collect[x].at # "send"
         \/ r.at = "send"
         \/ handler.at = "select"
  PROVE  StatsIInv'
<1>1. /\ DOMAIN collect' = Collectors
      /\ \A y \in Collectors : collect'[y] = IF y = x THEN r ELSE collect[y]
  BY Zenon DEF StatsIInv
<1>2. \A y \in Collectors : IsCollect(collect'[y])
  BY Zenon, <1>1 DEF StatsIInv
<1>3. handler.entry # NoEntry =>
        handler.at = "update" /\ \E y \in Collectors : collect'[y].at = "send"
  BY Zenon, <1>1 DEF StatsIInv
<1> QED
  BY Zenon, <1>1, <1>2, <1>3 DEF StatsIInv, IsCollect, IsHandler

\* The steps of one Collect.
LEMMA CollectInv ==
  ASSUME StatsIInv, NEW x \in Collectors, CollectSteps(x)
  PROVE  StatsIInv'
<1>1. DOMAIN collect = Collectors /\ IsCollect(collect[x]) /\ IsHandler(handler)
  BY Zenon DEF StatsIInv
<1>2. CASE LockStats(x)
  <2> DEFINE r == IF fresh THEN [Outside EXCEPT !.at = "unlock"]
                  ELSE [at |-> "send", map |-> 1, left |-> Maps[1]]
  <2>1. collect' = [collect EXCEPT ![x] = r] /\ collect[x].at # "send" /\ UNCHANGED handler
    BY Zenon, <1>2 DEF LockStats
  <2>2. IsCollect(r)
    BY Zenon DEF IsCollect, Outside
  <2> QED
    BY Zenon, <2>1, <2>2, OneCollect
<1>3. CASE SendNil(x)
  <2>1. handler.at = "select" /\ UNCHANGED handler
    BY Zenon, <1>3 DEF SendNil
  <2>2. CASE collect[x].map < Len(Maps)
    <3> DEFINE r == [at |-> "send", map |-> collect[x].map + 1, left |-> Maps[collect[x].map + 1]]
    <3>1. collect' = [collect EXCEPT ![x] = r]
      BY Zenon, <1>3, <2>2 DEF SendNil
    <3>2. IsCollect(r)
      BY Zenon DEF IsCollect
    <3> QED
      BY Zenon, <2>1, <3>1, <3>2, OneCollect
  <2>3. CASE ~(collect[x].map < Len(Maps))
    <3> DEFINE r == [Outside EXCEPT !.at = "unlock"]
    <3>1. collect' = [collect EXCEPT ![x] = r]
      BY Zenon, <1>3, <2>3 DEF SendNil
    <3>2. IsCollect(r)
      BY DEF IsCollect, Outside
    <3> QED
      BY Zenon, <2>1, <3>1, <3>2, OneCollect
  <2> QED
    BY Zenon, <2>2, <2>3
<1>4. CASE UnlockStats(x) \/ LockContainer(x)
  <2>1. PICK where : /\ collect' = [collect EXCEPT ![x].at = where]
                     /\ collect[x].at # "send" /\ UNCHANGED handler
    BY Zenon, <1>4 DEF UnlockStats, LockContainer
  <2> DEFINE r == [collect[x] EXCEPT !.at = where]
  <2>2. collect' = [collect EXCEPT ![x] = r]
    BY Zenon, <2>1
  <2>3. IsCollect(r)
    BY <1>1 DEF IsCollect
  <2> QED
    BY Zenon, <2>1, <2>2, <2>3, OneCollect
<1>5. CASE CollectReturns(x)
  <2>1. collect' = [collect EXCEPT ![x] = Outside] /\ collect[x].at # "send" /\ UNCHANGED handler
    BY Zenon, <1>5 DEF CollectReturns
  <2>2. IsCollect(Outside)
    BY Zenon DEF IsCollect, Outside
  <2> QED
    BY Zenon, <2>1, <2>2, OneCollect
<1>6. ASSUME NEW e, SendUpdate(x, e)
      PROVE  StatsIInv'
  <2>1. /\ collect' = [collect EXCEPT ![x].left = @ \ {e}]
        /\ collect[x].at = "send"
        /\ handler' = IF ContainersOf[e] = {} THEN Select
                      ELSE [At("update", ContainersOf[e]) EXCEPT !.entry = e]
    BY Zenon, <1>6 DEF SendUpdate
  <2>2. /\ DOMAIN collect' = Collectors
        /\ \A y \in Collectors : y # x => collect'[y] = collect[y]
        /\ collect'[x] = [collect[x] EXCEPT !.left = @ \ {e}]
    BY Zenon, <1>1, <2>1
  <2>3. IsCollect(collect'[x]) /\ collect'[x].at = "send"
    BY Zenon, <1>1, <2>1, <2>2 DEF IsCollect
  <2>4. \A y \in Collectors : IsCollect(collect'[y])
    BY Zenon, <2>2, <2>3 DEF StatsIInv
  <2>5. IsHandler(handler') /\ (handler'.entry # NoEntry => handler'.at = "update")
    BY Zenon, <2>1 DEF IsHandler, At, Select
  <2> QED
    BY Zenon, <2>2, <2>3, <2>4, <2>5 DEF StatsIInv, IsCollect, IsHandler
<1> QED
  BY Zenon, <1>2, <1>3, <1>4, <1>5, <1>6 DEF CollectSteps

\* A new scrape: none of its Collects was sending.
LEMMA GatherInv ==
  ASSUME StatsIInv, NEW g, Gather(g)
  PROVE  StatsIInv'
<1>1. /\ DOMAIN collect' = Collectors
      /\ \A x \in Collectors :
           collect'[x] = IF x[1] = g THEN [Outside EXCEPT !.at = "stats"] ELSE collect[x]
      /\ \A x \in Collectors : x[1] = g => collect[x].at = "out"
      /\ UNCHANGED handler
  BY Zenon DEF Gather
<1>2. \A x \in Collectors : IsCollect(collect'[x])
  BY Zenon, <1>1 DEF StatsIInv, IsCollect, Outside
<1>3. \A x \in Collectors : collect[x].at = "send" => collect'[x] = collect[x]
  BY Zenon, <1>1
<1> QED
  BY Zenon, <1>1, <1>2, <1>3 DEF StatsIInv, IsCollect, IsHandler

\* handleEvents: an entry stays in hand until its container is unlocked.
LEMMA HandlerInv ==
  ASSUME StatsIInv, HandlerSteps
  PROVE  StatsIInv'
<1>1. IsHandler(handler)
  BY Zenon DEF StatsIInv
<1>2. \A kind, cs : IsHandler(At(kind, cs)) /\ At(kind, cs).entry = NoEntry
  BY Zenon DEF IsHandler, At
<1>3. CASE HandlerDomains \/ SendInfo
  <2>1. handler' = At("select", {}) /\ UNCHANGED collect
    BY Zenon, <1>3 DEF HandlerDomains, SendInfo, Select
  <2> QED
    BY Zenon, <1>2, <2>1, NoEntryInv
<1>4. ASSUME NEW c \in Containers, HandlerLocks(c)
      PROVE  StatsIInv'
  BY Zenon, <1>4 DEF HandlerLocks, StatsIInv, IsCollect, IsHandler
<1>5. ASSUME NEW c \in Containers, HandlerUnlocks(c)
      PROVE  StatsIInv'
  <2>1. CASE handler.todo = {c}
    <3>1. handler' \in After(handler.at) /\ UNCHANGED collect
      BY Zenon, <1>5, <2>1 DEF HandlerUnlocks
    <3>2. \E kind, cs : handler' = At(kind, cs)
      BY Zenon, <3>1 DEF After, Select
    <3> QED
      BY Zenon, <1>2, <3>1, <3>2, NoEntryInv
  <2>2. CASE handler.todo # {c}
    <3>1. handler' = [handler EXCEPT !.todo = @ \ {c}] /\ UNCHANGED collect
      BY Zenon, <1>5, <2>2 DEF HandlerUnlocks
    <3>2. IsHandler(handler') /\ handler'.at = handler.at /\ handler'.entry = handler.entry
      BY Zenon, <1>1, <3>1 DEF IsHandler
    <3> QED
      BY Zenon, <3>1, <3>2 DEF StatsIInv, IsCollect, IsHandler
  <2> QED
    BY Zenon, <2>1, <2>2
<1>6. ASSUME NEW c \in Containers, Scan(c)
      PROVE  StatsIInv'
  <2>1. handler.entry = NoEntry /\ UNCHANGED collect
    BY Zenon, <1>6 DEF Scan, StatsIInv
  <2>2. handler' = At("domains", {}) \/ handler' = [handler EXCEPT !.todo = @ \ {c}]
    BY Zenon, <1>6 DEF Scan
  <2>3. IsHandler(handler') /\ handler'.entry = NoEntry
    BY Zenon, <1>1, <1>2, <2>1, <2>2 DEF IsHandler
  <2> QED
    BY Zenon, <2>1, <2>3, NoEntryInv
<1>7. ASSUME NEW c \in Containers, MapRace(c)
      PROVE  StatsIInv'
  BY Zenon, <1>7 DEF MapRace, StatsIInv, IsCollect, IsHandler, Outside, Select, At
<1> QED
  BY Zenon, <1>3, <1>4, <1>5, <1>6, <1>7 DEF HandlerSteps

\* Every step of the exchange.
LEMMA StatsNextInv == StatsIInv /\ [StatsNext]_statsVars => StatsIInv'
<1> SUFFICES ASSUME StatsIInv, [StatsNext]_statsVars PROVE StatsIInv'
  OBVIOUS
<1>1. ASSUME NEW g, RegistryCollects(g)
      PROVE  StatsIInv'
  BY Zenon, <1>1 DEF RegistryCollects, StatsIInv, IsCollect, IsHandler
<1>2. ASSUME NEW kind, NEW cs, Event(kind, cs)
      PROVE  StatsIInv'
  <2>1. handler' = At(kind, cs) /\ UNCHANGED collect
    BY Zenon, <1>2 DEF Event
  <2>2. IsHandler(handler') /\ handler'.entry = NoEntry
    BY Zenon, <2>1 DEF IsHandler, At
  <2> QED
    BY Zenon, <2>1, <2>2, NoEntryInv
<1>3. ASSUME NEW c, GcLocks(c) \/ GcUnlocks(c)
      PROVE  StatsIInv'
  BY Zenon, <1>3 DEF GcLocks, GcUnlocks, StatsIInv, IsCollect, IsHandler
<1>4. CASE Age \/ FinderStores \/ FindTarget \/ TargetFound \/ UNCHANGED statsVars
  BY Zenon, <1>4 DEF Age, FinderStores, FindTarget, TargetFound, statsVars, StatsIInv, IsCollect, IsHandler
<1> QED
  BY Zenon, <1>1, <1>2, <1>3, <1>4, GatherInv, CollectInv, HandlerInv DEF StatsNext

(* For any containers, scrapes, maps and events: what a scrape collects    *)
(* includes every entry of the update that it waited for                   *)
(* (registry.go:427-473, container.go:239-241).                            *)
THEOREM StatsAlwaysApplied == StatsSpec => []StatsApplied
<1>1. StatsIInv => StatsApplied
  BY DEF StatsIInv, StatsApplied
<1> QED
  BY <1>1, StatsInitInv, StatsNextInv, PTL DEF StatsSpec
=============================================================================
