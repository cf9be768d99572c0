-------------------------- MODULE AggregationProofs --------------------------
(***************************************************************************)
(* What is proved of the operations of the limiter and of the aggregator,  *)
(* for any series, any caps and limits and any order of clock readings.    *)
(*                                                                         *)
(* The limiter: Allow changes the map in two ways, and both keep it exact: *)
(* pruning shrinks it, tracking adds one series where there is room.       *)
(*                                                                         *)
(* The aggregator: each operation keeps the three counters equal to what   *)
(* they count, and the window and the baselines within the limit.  The     *)
(* sums are sizes of disjoint unions (Total), so facts about finite sets   *)
(* suffice for them.                                                       *)
(***************************************************************************)
EXTENDS Aggregation, Sequences, FiniteSetTheorems, TLAPS

-----------------------------------------------------------------------------
(* The series limiter                                                      *)

\* The fields of a limiter, without which EXCEPT says nothing of them.
IsLimiter(l) == l = [seen |-> l.seen, total |-> l.total, lastPrune |-> l.lastPrune]

\* The limiter that newSeriesLimiter returns tracks nothing.
LEMMA NewLimiterExact == IsLimiter(NewSeriesLimiter) /\ Exact(NewSeriesLimiter)
<1>1. DOMAIN NewSeriesLimiter.seen = {}
  BY DEF NewSeriesLimiter
<1>2. IsFiniteSet({}) /\ Cardinality({}) = 0
  BY FS_EmptySet
<1> QED
  BY <1>1, <1>2, LimiterAssumption DEF NewSeriesLimiter, IsLimiter, Exact

\* A metric has no more tracked series than the limiter has.
LEMMA TrackedFinite ==
  ASSUME NEW l, IsFiniteSet(DOMAIN l.seen), NEW name
  PROVE  IsFiniteSet(Tracked(l, name))
<1>1. Tracked(l, name) \subseteq DOMAIN l.seen
  BY DEF Tracked
<1> QED
  BY <1>1, FS_Subset

\* pruneExpiredLocked lowers the counter once for every series it deletes.
LEMMA PruneKeepsExact ==
  ASSUME NEW l, IsLimiter(l), Exact(l), NEW now
  PROVE  IsLimiter(PruneExpired(l, now)) /\ Exact(PruneExpired(l, now))
<1> DEFINE p == PruneExpired(l, now)
           old == Expired(l, now)
<1>1. /\ IsLimiter(p)
      /\ DOMAIN p.seen = DOMAIN l.seen \ old
      /\ p.total = l.total - Cardinality(old)
  BY DEF PruneExpired, IsLimiter
<1>2. old \subseteq DOMAIN l.seen
  BY DEF Expired
<1>3. IsFiniteSet(DOMAIN l.seen) /\ l.total = Cardinality(DOMAIN l.seen)
  BY DEF Exact
<1>4. /\ IsFiniteSet(old)
      /\ Cardinality(old) \in Nat
      /\ l.total \in Nat
  BY <1>2, <1>3, FS_Subset, FS_CardinalityType
<1>5. /\ IsFiniteSet(DOMAIN l.seen \ old)
      /\ Cardinality(DOMAIN l.seen \ old) = l.total - Cardinality(DOMAIN l.seen \cap old)
  BY <1>3, FS_Difference
<1>6. DOMAIN l.seen \cap old = old
  BY <1>2
<1>7. p.total = Cardinality(DOMAIN p.seen) /\ IsFiniteSet(DOMAIN p.seen)
  BY <1>1, <1>5, <1>6
<1>8. p.total <= GlobalCap
  BY <1>1, <1>4, LimiterAssumption DEF Exact
<1>9. ASSUME NEW s \in DOMAIN p.seen
      PROVE  Cardinality(Tracked(p, NameOf[s])) <= PerMetricCap
  <2>1. s \in DOMAIN l.seen
    BY <1>1
  <2>2. Tracked(p, NameOf[s]) \subseteq Tracked(l, NameOf[s])
    BY <1>1 DEF Tracked
  <2>3. IsFiniteSet(Tracked(l, NameOf[s]))
    BY <1>3, TrackedFinite
  <2>4. /\ Cardinality(Tracked(p, NameOf[s])) <= Cardinality(Tracked(l, NameOf[s]))
        /\ Cardinality(Tracked(p, NameOf[s])) \in Nat
        /\ Cardinality(Tracked(l, NameOf[s])) \in Nat
    BY <2>2, <2>3, FS_Subset, FS_CardinalityType
  <2>5. Cardinality(Tracked(l, NameOf[s])) <= PerMetricCap
    BY <2>1 DEF Exact
  <2> QED
    BY <2>4, <2>5, LimiterAssumption
<1> QED
  BY <1>1, <1>7, <1>8, <1>9 DEF Exact

\* Allow prunes or it does not.
LEMMA PrunedKeepsExact ==
  ASSUME NEW l, IsLimiter(l), Exact(l), NEW now
  PROVE  IsLimiter(Pruned(l, now)) /\ Exact(Pruned(l, now))
BY PruneKeepsExact DEF Pruned

\* One more series fits where both caps leave room.
LEMMA TrackKeepsExact ==
  ASSUME NEW l, IsLimiter(l), Exact(l), NEW s, s \notin DOMAIN l.seen,
         HasRoom(l, s), NEW now
  PROVE  IsLimiter(Track(l, s, now)) /\ Exact(Track(l, s, now))
<1> DEFINE p == Track(l, s, now)
<1>1. /\ IsLimiter(p)
      /\ DOMAIN p.seen = DOMAIN l.seen \cup {s}
      /\ p.total = l.total + 1
  BY DEF Track, See, IsLimiter
<1>2. IsFiniteSet(DOMAIN l.seen) /\ l.total = Cardinality(DOMAIN l.seen)
  BY DEF Exact
<1>3. /\ IsFiniteSet(DOMAIN p.seen)
      /\ Cardinality(DOMAIN p.seen) = l.total + 1
      /\ l.total \in Nat
  BY <1>1, <1>2, FS_AddElement, FS_CardinalityType
<1>4. p.total <= GlobalCap
  BY <1>1, <1>3, LimiterAssumption DEF HasRoom
<1>5. ASSUME NEW t \in DOMAIN p.seen
      PROVE  Cardinality(Tracked(p, NameOf[t])) <= PerMetricCap
  <2>1. CASE NameOf[t] = NameOf[s]
    <3>1. Tracked(p, NameOf[t]) = Tracked(l, NameOf[s]) \cup {s}
      BY <1>1, <2>1 DEF Tracked
    <3>2. s \notin Tracked(l, NameOf[s]) /\ IsFiniteSet(Tracked(l, NameOf[s]))
      BY Zenon, <1>2, TrackedFinite DEF Tracked
    <3>3. /\ Cardinality(Tracked(p, NameOf[t])) = Cardinality(Tracked(l, NameOf[s])) + 1
          /\ Cardinality(Tracked(l, NameOf[s])) \in Nat
      BY <3>1, <3>2, FS_AddElement, FS_CardinalityType
    <3> QED
      BY <3>3, LimiterAssumption DEF HasRoom
  <2>2. CASE NameOf[t] # NameOf[s]
    <3>1. Tracked(p, NameOf[t]) = Tracked(l, NameOf[t]) /\ t \in DOMAIN l.seen
      BY <1>1, <2>2 DEF Tracked
    <3> QED
      BY <3>1 DEF Exact
  <2> QED
    BY <2>1, <2>2
<1> QED
  BY <1>1, <1>3, <1>4, <1>5 DEF Exact

\* Whatever Allow answers, and whatever time it is given, the caps hold after.
LEMMA AllowKeepsExact ==
  ASSUME NEW l, IsLimiter(l), Exact(l), NEW s, NEW now
  PROVE  IsLimiter(Allow(l, s, now)) /\ Exact(Allow(l, s, now))
<1>1. CASE s \in DOMAIN l.seen
  <2> DEFINE p == Refresh(l, s, now)
  <2>1. Allow(l, s, now) = p
    BY <1>1 DEF Allow
  <2>2. IsLimiter(p) /\ DOMAIN p.seen = DOMAIN l.seen /\ p.total = l.total
    BY <1>1 DEF IsLimiter, Refresh, See
  <2>3. \A name : Tracked(p, name) = Tracked(l, name)
    BY <2>2 DEF Tracked
  <2>4. Exact(p)
    BY <2>2, <2>3 DEF Exact
  <2> QED
    BY <2>1, <2>2, <2>4
<1>2. CASE s \notin DOMAIN l.seen
  <2>1. IsLimiter(Pruned(l, now)) /\ Exact(Pruned(l, now))
    BY PrunedKeepsExact
  <2>2. s \notin DOMAIN Pruned(l, now).seen
    BY <1>2 DEF Pruned, PruneExpired
  <2>3. CASE HasRoom(Pruned(l, now), s)
    BY <1>2, <2>1, <2>2, <2>3, TrackKeepsExact DEF Allow
  <2>4. CASE ~HasRoom(Pruned(l, now), s)
    BY <1>2, <2>1, <2>4 DEF Allow
  <2> QED
    BY <2>3, <2>4
<1> QED
  BY <1>1, <1>2

-----------------------------------------------------------------------------
(* Sums                                                                    *)

\* What Total counts.
Pairs(f) == UNION {{x} \X (1 .. f[x]) : x \in DOMAIN f}

\* They are the pairs of a member of D and a number up to that member's.
PairsOver(f, D) ==
  /\ \A p \in Pairs(f) : \E x \in D : \E k \in 1 .. f[x] : p = <<x, k>>
  /\ \A x \in D : \A k \in 1 .. f[x] : <<x, k>> \in Pairs(f)

\* A function whose numbers have a sum.
Summable(f) == IsFiniteSet(DOMAIN f) /\ \A x \in DOMAIN f : f[x] \in Nat

\* A finite number of natural numbers has a sum.
LEMMA TotalType ==
  ASSUME NEW f, Summable(f)
  PROVE  /\ IsFiniteSet(Pairs(f))
         /\ Total(f) = Cardinality(Pairs(f))
         /\ Total(f) \in Nat
<1> DEFINE part == [x \in DOMAIN f |-> {x} \X (1 .. f[x])]
           D == {{x} \X (1 .. f[x]) : x \in DOMAIN f}
<1>1. IsFiniteSet(DOMAIN f) /\ \A x \in DOMAIN f : f[x] \in Nat
  BY DEF Summable
<1>2. part \in Surjection(DOMAIN f, D)
  BY Zenon DEF Surjection
<1>3. IsFiniteSet(D)
  BY Zenon, <1>1, <1>2, FS_Surjection
<1>4. ASSUME NEW T \in D
      PROVE  IsFiniteSet(T)
  <2>1. PICK x \in DOMAIN f : T = {x} \X (1 .. f[x])
    BY Zenon
  <2>2. f[x] \in Int /\ 1 \in Int
    BY <1>1
  <2>3. IsFiniteSet(1 .. f[x])
    BY Zenon, <2>2, FS_Interval
  <2>4. IsFiniteSet({x})
    BY Zenon, FS_Singleton
  <2> QED
    BY Zenon, <2>1, <2>3, <2>4, FS_Product
<1>5. IsFiniteSet(UNION D)
  BY Zenon, <1>3, <1>4, FS_UNION
<1>6. Pairs(f) = UNION D
  BY Zenon DEF Pairs
<1> QED
  BY Zenon, <1>5, <1>6, FS_CardinalityType DEF Total

\* What is counted for each number.
LEMMA PairsMembers ==
  ASSUME NEW f, NEW D, DOMAIN f = D
  PROVE  PairsOver(f, D)
BY DEF Pairs, PairsOver

\* The sum over two disjoint parts.
LEMMA TotalSplit ==
  ASSUME NEW f, Summable(f), NEW g, NEW h,
         DOMAIN f = DOMAIN g \cup DOMAIN h, DOMAIN g \cap DOMAIN h = {},
         \A x \in DOMAIN g : g[x] = f[x], \A x \in DOMAIN h : h[x] = f[x]
  PROVE  /\ Summable(g) /\ Summable(h)
         /\ Total(f) \in Nat /\ Total(g) \in Nat /\ Total(h) \in Nat
         /\ Total(f) = Total(g) + Total(h)
<1>1. Summable(g) /\ Summable(h)
  <2>1. IsFiniteSet(DOMAIN g) /\ IsFiniteSet(DOMAIN h)
    BY FS_Subset DEF Summable
  <2> QED
    BY <2>1 DEF Summable
<1>2. Pairs(f) = Pairs(g) \cup Pairs(h)
  <2>1. \A p : p \in Pairs(f) <=> \E x \in DOMAIN f : p \in {x} \X (1 .. f[x])
    BY ZenonT(40) DEF Pairs
  <2>2. \A p : p \in Pairs(g) <=> \E x \in DOMAIN g : p \in {x} \X (1 .. g[x])
    BY Zenon DEF Pairs
  <2>3. \A p : p \in Pairs(h) <=> \E x \in DOMAIN h : p \in {x} \X (1 .. h[x])
    BY ZenonT(40) DEF Pairs
  <2> QED
    BY Zenon, <2>1, <2>2, <2>3
<1>3. Pairs(g) \cap Pairs(h) = {}
  BY DEF Pairs
<1>4. /\ IsFiniteSet(Pairs(g)) /\ Total(g) = Cardinality(Pairs(g)) /\ Total(g) \in Nat
      /\ IsFiniteSet(Pairs(h)) /\ Total(h) = Cardinality(Pairs(h)) /\ Total(h) \in Nat
      /\ Total(f) = Cardinality(Pairs(f)) /\ Total(f) \in Nat
  BY Zenon, <1>1, TotalType
<1>5. Cardinality(Pairs(f)) =
        Cardinality(Pairs(g)) + Cardinality(Pairs(h)) - Cardinality(Pairs(g) \cap Pairs(h))
  BY Zenon, <1>2, <1>4, FS_Union
<1>6. Cardinality(Pairs(g) \cap Pairs(h)) = 0
  BY Zenon, <1>3, FS_EmptySet
<1> QED
  BY <1>1, <1>4, <1>5, <1>6

\* The empty sum.
LEMMA TotalEmpty ==
  ASSUME NEW f, DOMAIN f = {}
  PROVE  Summable(f) /\ Total(f) = 0
<1>1. UNION {{x} \X (1 .. f[x]) : x \in DOMAIN f} = {}
  OBVIOUS
<1> QED
  BY Zenon, <1>1, FS_EmptySet DEF Total, Summable

\* The sum of one number.
LEMMA TotalOne ==
  ASSUME NEW f, NEW x, DOMAIN f = {x}, f[x] \in Nat
  PROVE  Summable(f) /\ Total(f) = f[x]
<1>1. UNION {{y} \X (1 .. f[y]) : y \in DOMAIN f} = {x} \X (1 .. f[x])
  OBVIOUS
<1>2. IsFiniteSet({x}) /\ Cardinality({x}) = 1
  BY Zenon, FS_Singleton
<1>3. IsFiniteSet(1 .. f[x]) /\ Cardinality(1 .. f[x]) = f[x]
  BY FS_Interval
<1>4. Cardinality({x} \X (1 .. f[x])) = 1 * f[x]
  <2>1. PICK S : S = 1 .. f[x]
    BY Zenon
  <2>2. Cardinality({x} \X S) = Cardinality({x}) * Cardinality(S)
    BY Zenon, <1>2, <1>3, <2>1, FS_Product
  <2> QED
    BY Zenon, <1>2, <1>3, <2>1, <2>2
<1>5. Total(f) = 1 * f[x]
  BY Zenon, <1>1, <1>4 DEF Total
<1> QED
  BY <1>2, <1>5 DEF Summable

\* One number more.
LEMMA TotalAdd ==
  ASSUME NEW f, Summable(f), NEW g, NEW x, x \notin DOMAIN f,
         DOMAIN g = DOMAIN f \cup {x}, g[x] \in Nat, \A y \in DOMAIN f : g[y] = f[y]
  PROVE  /\ Summable(g)
         /\ Total(f) \in Nat /\ Total(g) \in Nat
         /\ Total(g) = Total(f) + g[x]
<1> DEFINE h == [y \in {x} |-> g[x]]
<1>1. Summable(g)
  <2>1. IsFiniteSet(DOMAIN g)
    BY FS_AddElement DEF Summable
  <2> QED
    BY <2>1 DEF Summable
<1>2. DOMAIN h = {x} /\ h[x] = g[x]
  OBVIOUS
<1>3. Total(h) = g[x]
  BY <1>2, TotalOne
<1>4. /\ DOMAIN g = DOMAIN f \cup DOMAIN h /\ DOMAIN f \cap DOMAIN h = {}
      /\ \A y \in DOMAIN f : f[y] = g[y]
      /\ \A y \in DOMAIN h : h[y] = g[y]
  BY <1>2
<1> HIDE DEF h
<1>5. Total(g) \in Nat /\ Total(f) \in Nat /\ Total(g) = Total(f) + Total(h)
  BY <1>1, <1>4, TotalSplit
<1> QED
  BY <1>1, <1>3, <1>5

\* Functions with the same numbers have the same sum.
LEMMA TotalSame ==
  ASSUME NEW f, NEW g, DOMAIN f = DOMAIN g, \A x \in DOMAIN f : f[x] = g[x]
  PROVE  Total(f) = Total(g)
<1>1. UNION {{x} \X (1 .. f[x]) : x \in DOMAIN f} = UNION {{x} \X (1 .. g[x]) : x \in DOMAIN g}
  OBVIOUS
<1> QED
  BY Zenon, <1>1 DEF Total

\* One number taken away.
LEMMA TotalRemove ==
  ASSUME NEW f, Summable(f), NEW x \in DOMAIN f, NEW g,
         DOMAIN g = DOMAIN f \ {x}, \A y \in DOMAIN g : g[y] = f[y]
  PROVE  /\ Summable(g)
         /\ Total(f) \in Nat /\ Total(g) \in Nat /\ f[x] \in Nat
         /\ Total(f) = Total(g) + f[x]
<1>1. f[x] \in Nat /\ Summable(g)
  <2>1. IsFiniteSet(DOMAIN g)
    BY FS_RemoveElement DEF Summable
  <2> QED
    BY <2>1 DEF Summable
<1>2. /\ x \notin DOMAIN g /\ DOMAIN f = DOMAIN g \cup {x}
      /\ \A y \in DOMAIN g : f[y] = g[y]
  OBVIOUS
<1> QED
  BY ZenonT(40), <1>1, <1>2, TotalAdd

\* One number changed.
LEMMA TotalChange ==
  ASSUME NEW f, Summable(f), NEW x \in DOMAIN f, NEW g,
         DOMAIN g = DOMAIN f, g[x] \in Nat, \A y \in DOMAIN f : y # x => g[y] = f[y]
  PROVE  /\ Summable(g)
         /\ Total(f) \in Nat /\ Total(g) \in Nat /\ f[x] \in Nat
         /\ Total(g) + f[x] = Total(f) + g[x]
<1> DEFINE e == [y \in DOMAIN f \ {x} |-> f[y]]
<1>1. DOMAIN e = DOMAIN f \ {x} /\ \A y \in DOMAIN e : e[y] = f[y]
  OBVIOUS
<1> HIDE DEF e
<1>2. /\ Summable(e) /\ Total(f) \in Nat /\ Total(e) \in Nat /\ f[x] \in Nat
      /\ Total(f) = Total(e) + f[x]
  BY <1>1, TotalRemove
<1>3. /\ x \notin DOMAIN e /\ DOMAIN g = DOMAIN e \cup {x}
      /\ \A y \in DOMAIN e : g[y] = e[y]
  BY <1>1
<1>4. Summable(g) /\ Total(g) \in Nat /\ Total(g) = Total(e) + g[x]
  BY <1>2, <1>3, TotalAdd
<1> QED
  BY <1>2, <1>4

\* The sum without the first of a sequence of numbers.
LEMMA TotalTail ==
  ASSUME NEW n \in Nat, NEW f, DOMAIN f = 1 .. n + 1, \A i \in 1 .. n + 1 : f[i] \in Nat,
         NEW g, DOMAIN g = 1 .. n, \A i \in 1 .. n : g[i] = f[i + 1]
  PROVE  /\ Summable(f) /\ Summable(g)
         /\ Total(f) \in Nat /\ Total(g) \in Nat
         /\ Total(f) = Total(g) + f[1]
<1>1. PICK h : h = [i \in 2 .. n + 1 |-> f[i]]
  BY Zenon
<1>2. DOMAIN h = 2 .. n + 1 /\ \A i \in 2 .. n + 1 : h[i] = f[i]
  BY <1>1
<1> DEFINE shift == [p \in Pairs(g) |-> <<p[1] + 1, p[2]>>]
<1>3. Summable(f) /\ Summable(g)
  <2>1. n + 1 \in Int /\ n \in Int /\ 1 \in Int
    OBVIOUS
  <2>2. IsFiniteSet(1 .. n + 1) /\ IsFiniteSet(1 .. n)
    BY Zenon, <2>1, FS_Interval
  <2>3. \A i \in 1 .. n : i + 1 \in 1 .. n + 1
    OBVIOUS
  <2> QED
    BY <2>2, <2>3 DEF Summable
<1>4. /\ 1 \in DOMAIN f /\ DOMAIN h = DOMAIN f \ {1}
      /\ \A i \in DOMAIN h : h[i] = f[i]
  BY <1>2
<1>5. /\ Summable(h) /\ Total(f) \in Nat /\ Total(h) \in Nat
      /\ Total(f) = Total(h) + f[1]
  BY ZenonT(40), <1>3, <1>4, TotalRemove
<1>6. PairsOver(g, 1 .. n)
  BY PairsMembers
<1>7. PairsOver(h, 2 .. n + 1)
  BY <1>2, PairsMembers
<1>8. shift \in Bijection(Pairs(g), Pairs(h))
  <2>1. ASSUME NEW p \in Pairs(g)
        PROVE  shift[p] \in Pairs(h)
    <3> PICK i \in 1 .. n : \E k \in 1 .. g[i] : p = <<i, k>>
      BY Zenon, <1>6 DEF PairsOver
    <3>1. PICK k \in 1 .. g[i] : p = <<i, k>>
      OBVIOUS
    <3>2. i + 1 \in 2 .. n + 1 /\ h[i + 1] = g[i]
      BY <1>2, <3>1
    <3>3. shift[p] = <<i + 1, k>>
      BY <3>1
    <3> QED
      BY Zenon, <1>7, <3>1, <3>2, <3>3 DEF PairsOver
  <2>2. ASSUME NEW p \in Pairs(g), NEW q \in Pairs(g), shift[p] = shift[q]
        PROVE  p = q
    <3> PICK i \in 1 .. n : \E k \in 1 .. g[i] : p = <<i, k>>
      BY Zenon, <1>6 DEF PairsOver
    <3>1. PICK k \in 1 .. g[i] : p = <<i, k>>
      OBVIOUS
    <3>6. PICK j \in 1 .. n : \E m \in 1 .. g[j] : q = <<j, m>>
      BY Zenon, <1>6 DEF PairsOver
    <3>2. PICK m \in 1 .. g[j] : q = <<j, m>>
      BY <3>6
    <3>3. shift[p] = <<i + 1, k>> /\ shift[q] = <<j + 1, m>>
      BY <3>1, <3>2
    <3>4. i + 1 = j + 1 /\ k = m
      BY Zenon, <2>2, <3>3
    <3>5. i = j
      BY <3>4
    <3> QED
      BY Zenon, <3>1, <3>2, <3>4, <3>5
  <2>3. ASSUME NEW q \in Pairs(h)
        PROVE  \E p \in Pairs(g) : shift[p] = q
    <3> PICK j \in 2 .. n + 1 : \E m \in 1 .. h[j] : q = <<j, m>>
      BY Zenon, <1>7 DEF PairsOver
    <3>1. PICK m \in 1 .. h[j] : q = <<j, m>>
      OBVIOUS
    <3>2. j - 1 \in 1 .. n /\ (j - 1) + 1 = j /\ h[j] = g[j - 1]
      BY <1>2, <3>1
    <3>3. m \in 1 .. g[j - 1]
      BY <3>1, <3>2
    <3>4. <<j - 1, m>> \in Pairs(g)
      BY Zenon, <1>6, <3>2, <3>3 DEF PairsOver
    <3>5. shift[<<j - 1, m>>] = q
      BY <3>1, <3>2, <3>4
    <3> QED
      BY Zenon, <3>4, <3>5
  <2>4. shift \in [Pairs(g) -> Pairs(h)]
    BY Zenon, <2>1
  <2> HIDE DEF shift
  <2> QED
    BY Zenon, <2>2, <2>3, <2>4 DEF Bijection, Injection, Surjection, IsInjective
<1>9. ExistsBijection(Pairs(g), Pairs(h))
  BY Zenon, <1>8 DEF ExistsBijection
<1> HIDE DEF shift
<1>10. /\ IsFiniteSet(Pairs(g)) /\ Total(g) = Cardinality(Pairs(g)) /\ Total(g) \in Nat
      /\ Total(h) = Cardinality(Pairs(h))
  BY Zenon, <1>3, <1>5, TotalType
<1>11. Total(h) = Total(g)
  BY Zenon, <1>9, <1>10, FS_Bijection
<1> QED
  BY <1>3, <1>5, <1>10, <1>11

-----------------------------------------------------------------------------
(* The aggregator                                                          *)

\* A window maps finitely many series to finite sets of values.
GoodWindow(w) ==
  /\ w = [s \in DOMAIN w |-> w[s]]
  /\ IsFiniteSet(DOMAIN w) /\ DOMAIN w \subseteq Series
  /\ \A s \in DOMAIN w : IsFiniteSet(w[s])

\* The numbers that WindowBytes and the gauges' counter add up.
WindowSizes(w) == [s \in DOMAIN w |-> StateBytes[s] + Cardinality(w[s]) * ValueBytes]
GaugeSizes(G) == [s \in G |-> BaselineBytes[s]]
GoodGauges(G) == IsFiniteSet(G) /\ G \subseteq Gauges

\* The record of an aggregator.
Agg(series, active, inflight, reserved, gauges, baselines, prune) ==
  [series |-> series, activeBytes |-> active, inflight |-> inflight,
   inflightBytes |-> reserved, gauges |-> gauges, gaugeBytes |-> baselines,
   lastGaugePrune |-> prune]

IsAgg(a) == a = Agg(a.series, a.activeBytes, a.inflight, a.inflightBytes, a.gauges,
                    a.gaugeBytes, a.lastGaugePrune)

\* An aggregator whose counters are exact and whose window and baselines fit.
AggOK(a) ==
  /\ IsAgg(a)
  /\ GoodWindow(a.series) /\ GoodWindow(a.inflight) /\ GoodGauges(DOMAIN a.gauges)
  /\ a.activeBytes = WindowBytes(a.series)
  /\ a.inflightBytes = WindowBytes(a.inflight)
  /\ a.gaugeBytes = Total(GaugeSizes(DOMAIN a.gauges))
  /\ a.activeBytes + a.gaugeBytes <= MaxBytes

\* A window and a set of gauges have a size.
LEMMA WindowNat ==
  ASSUME NEW w, GoodWindow(w)
  PROVE  /\ Summable(WindowSizes(w)) /\ WindowBytes(w) = Total(WindowSizes(w))
         /\ WindowBytes(w) \in Nat
<1>1. \A s \in DOMAIN w : StateBytes[s] + Cardinality(w[s]) * ValueBytes \in Nat
  <2>1. \A c, d, e \in Nat : c + d * e \in Nat
    OBVIOUS
  <2>2. \A s \in DOMAIN w : StateBytes[s] \in Nat /\ Cardinality(w[s]) \in Nat
    BY FS_CardinalityType, AggregationAssumption DEF GoodWindow
  <2> QED
    BY Zenon, <2>1, <2>2, AggregationAssumption
<1>2. DOMAIN WindowSizes(w) = DOMAIN w
  BY DEF WindowSizes
<1>3. \A s \in DOMAIN w : WindowSizes(w)[s] = StateBytes[s] + Cardinality(w[s]) * ValueBytes
  BY Zenon DEF WindowSizes
<1>4. Summable(WindowSizes(w))
  BY Zenon, <1>1, <1>2, <1>3 DEF Summable, GoodWindow
<1>5. WindowBytes(w) = Total(WindowSizes(w))
  BY Zenon DEF WindowBytes, WindowSizes
<1> QED
  BY Zenon, <1>4, <1>5, TotalType

\* The baselines of finitely many gauges have a size.
LEMMA GaugesNat ==
  ASSUME NEW G, GoodGauges(G)
  PROVE  Summable(GaugeSizes(G)) /\ Total(GaugeSizes(G)) \in Nat
<1>1. DOMAIN GaugeSizes(G) = G /\ \A s \in G : GaugeSizes(G)[s] = BaselineBytes[s]
  BY DEF GaugeSizes
<1>2. \A s \in G : BaselineBytes[s] \in Nat
  BY AggregationAssumption DEF GoodGauges
<1>3. Summable(GaugeSizes(G))
  BY Zenon, <1>1, <1>2 DEF Summable, GoodGauges
<1> QED
  BY Zenon, <1>3, TotalType

\* The empty window, and the empty set of gauges.
LEMMA NothingRetained ==
  /\ GoodWindow(<<>>) /\ WindowBytes(<<>>) = 0
  /\ GoodGauges({}) /\ Total(GaugeSizes({})) = 0
<1>1. DOMAIN <<>> = {} /\ <<>> = [s \in DOMAIN <<>> |-> <<>>[s]]
  OBVIOUS
<1>2. GoodWindow(<<>>)
  BY <1>1, FS_EmptySet DEF GoodWindow
<1>3. DOMAIN WindowSizes(<<>>) = {}
  BY <1>1 DEF WindowSizes
<1>4. WindowBytes(<<>>) = 0
  BY Zenon, <1>2, <1>3, WindowNat, TotalEmpty
<1>5. GoodGauges({})
  BY FS_EmptySet DEF GoodGauges
<1>6. DOMAIN GaugeSizes({}) = {}
  BY DEF GaugeSizes
<1> QED
  BY Zenon, <1>2, <1>4, <1>5, <1>6, TotalEmpty

\* A new state costs its bytes.
LEMMA NewState ==
  ASSUME NEW w, GoodWindow(w), NEW s \in Series, s \notin DOMAIN w
  PROVE  /\ GoodWindow(See(w, s, {}))
         /\ WindowBytes(See(w, s, {})) = WindowBytes(w) + StateBytes[s]
<1>1. PICK u : u = See(w, s, {})
  BY Zenon
<1>2. /\ DOMAIN u = DOMAIN w \cup {s} /\ u = [x \in DOMAIN u |-> u[x]]
      /\ u[s] = {} /\ \A x \in DOMAIN w : u[x] = w[x]
  BY <1>1 DEF See
<1>3. GoodWindow(u)
  <2>1. IsFiniteSet(DOMAIN u)
    BY <1>2, FS_AddElement DEF GoodWindow
  <2>2. \A x \in DOMAIN u : IsFiniteSet(u[x])
    BY <1>2, FS_EmptySet DEF GoodWindow
  <2> QED
    BY <1>2, <2>1, <2>2 DEF GoodWindow
<1>4. PICK f, g : f = WindowSizes(w) /\ g = WindowSizes(u)
  BY Zenon
<1>5. /\ DOMAIN f = DOMAIN w /\ DOMAIN g = DOMAIN u
      /\ \A x \in DOMAIN w : f[x] = StateBytes[x] + Cardinality(w[x]) * ValueBytes
      /\ \A x \in DOMAIN u : g[x] = StateBytes[x] + Cardinality(u[x]) * ValueBytes
  BY <1>4 DEF WindowSizes
<1>6. g[s] = StateBytes[s] /\ g[s] \in Nat
  <2>1. g[s] = StateBytes[s] + 0 * ValueBytes
    BY <1>2, <1>5, FS_EmptySet
  <2>2. StateBytes[s] \in Nat /\ ValueBytes \in Nat
    BY AggregationAssumption
  <2>3. \A c, d \in Nat : c + 0 * d = c
    OBVIOUS
  <2> QED
    BY Zenon, <2>1, <2>2, <2>3
<1>7. \A x \in DOMAIN f : g[x] = f[x]
  BY Zenon, <1>2, <1>5
<1>8. s \notin DOMAIN f /\ DOMAIN g = DOMAIN f \cup {s}
  BY Zenon, <1>2, <1>5
<1>9. Summable(f) /\ WindowBytes(w) = Total(f) /\ WindowBytes(u) = Total(g)
  BY Zenon, <1>3, <1>4, WindowNat
<1>10. Total(g) = Total(f) + g[s]
  <2>1. Summable(f) /\ g[s] \in Nat
    BY Zenon, <1>6, <1>9
  <2> QED
    BY Zenon, <1>7, <1>8, <2>1, TotalAdd
<1> QED
  BY Zenon, <1>1, <1>3, <1>6, <1>9, <1>10

\* A new member of a set costs ValueBytes.
LEMMA NewMember ==
  ASSUME NEW w, GoodWindow(w), NEW s \in DOMAIN w, NEW v, v \notin w[s]
  PROVE  /\ GoodWindow([w EXCEPT ![s] = @ \cup {v}])
         /\ WindowBytes([w EXCEPT ![s] = @ \cup {v}]) = WindowBytes(w) + ValueBytes
<1>1. PICK u : u = [w EXCEPT ![s] = @ \cup {v}]
  BY Zenon
<1>2. /\ DOMAIN u = DOMAIN w /\ u = [x \in DOMAIN u |-> u[x]]
      /\ u[s] = w[s] \cup {v} /\ \A x \in DOMAIN w : x # s => u[x] = w[x]
  BY Zenon, <1>1 DEF GoodWindow
<1>3. IsFiniteSet(w[s]) /\ s \in Series
  BY DEF GoodWindow
<1>4. /\ IsFiniteSet(u[s]) /\ Cardinality(u[s]) = Cardinality(w[s]) + 1
  BY <1>2, <1>3, FS_AddElement
<1>5. GoodWindow(u)
  BY <1>2, <1>4 DEF GoodWindow
<1>6. PICK f, g : f = WindowSizes(w) /\ g = WindowSizes(u)
  BY Zenon
<1>7. /\ DOMAIN f = DOMAIN w /\ DOMAIN g = DOMAIN u
      /\ \A x \in DOMAIN w : f[x] = StateBytes[x] + Cardinality(w[x]) * ValueBytes
      /\ \A x \in DOMAIN u : g[x] = StateBytes[x] + Cardinality(u[x]) * ValueBytes
  BY <1>6 DEF WindowSizes
<1>8. g[s] = f[s] + ValueBytes /\ f[s] \in Nat /\ g[s] \in Nat
  <2>1. StateBytes[s] \in Nat /\ ValueBytes \in Nat /\ Cardinality(w[s]) \in Nat
    BY <1>3, FS_CardinalityType, AggregationAssumption
  <2>2. /\ f[s] = StateBytes[s] + Cardinality(w[s]) * ValueBytes
        /\ g[s] = StateBytes[s] + (Cardinality(w[s]) + 1) * ValueBytes
    BY Zenon, <1>2, <1>4, <1>7
  <2>3. PICK b \in Nat, c \in Nat, d \in Nat :
          b = StateBytes[s] /\ c = Cardinality(w[s]) /\ d = ValueBytes
    BY Zenon, <2>1
  <2>4. /\ b + (c + 1) * d = (b + c * d) + d /\ b + c * d \in Nat /\ (b + c * d) + d \in Nat
    OBVIOUS
  <2>5. f[s] = b + c * d /\ g[s] = b + (c + 1) * d
    BY Zenon, <2>2, <2>3
  <2> QED
    BY Zenon, <2>3, <2>4, <2>5
<1>9. s \in DOMAIN f /\ DOMAIN g = DOMAIN f /\ \A x \in DOMAIN f : x # s => g[x] = f[x]
  BY Zenon, <1>2, <1>7
<1>10. Summable(f) /\ WindowBytes(w) = Total(f) /\ WindowBytes(u) = Total(g)
  BY Zenon, <1>5, <1>6, WindowNat
<1>11. Total(g) + f[s] = Total(f) + g[s] /\ Total(f) \in Nat /\ Total(g) \in Nat
  BY Zenon, <1>8, <1>9, <1>10, TotalChange
<1>12. Total(g) = Total(f) + ValueBytes
  <2>1. PICK b \in Nat, c \in Nat, d \in Nat, e \in Nat :
          b = Total(g) /\ c = f[s] /\ d = Total(f) /\ e = ValueBytes
    BY Zenon, <1>8, <1>11, AggregationAssumption
  <2>2. b + c = d + (c + e)
    BY Zenon, <1>8, <1>11, <2>1
  <2>3. b = d + e
    BY <2>2
  <2> QED
    BY Zenon, <2>1, <2>3
<1> QED
  BY Zenon, <1>1, <1>5, <1>10, <1>12

\* A new baseline costs its bytes.
LEMMA NewBaseline ==
  ASSUME NEW G, GoodGauges(G), NEW s \in Gauges, s \notin G
  PROVE  /\ GoodGauges(G \cup {s})
         /\ Total(GaugeSizes(G \cup {s})) = Total(GaugeSizes(G)) + BaselineBytes[s]
<1>1. GoodGauges(G \cup {s})
  BY FS_AddElement DEF GoodGauges
<1>2. PICK f, g : f = GaugeSizes(G) /\ g = GaugeSizes(G \cup {s})
  BY Zenon
<1>3. /\ DOMAIN f = G /\ DOMAIN g = DOMAIN f \cup {s} /\ s \notin DOMAIN f
      /\ g[s] = BaselineBytes[s] /\ \A x \in DOMAIN f : g[x] = f[x]
  BY <1>2 DEF GaugeSizes
<1>4. Summable(f) /\ g[s] \in Nat
  BY <1>2, <1>3, GaugesNat, AggregationAssumption
<1>5. Total(g) = Total(f) + g[s]
  <2>1. /\ DOMAIN g = DOMAIN f \cup {s} /\ s \notin DOMAIN f
        /\ \A x \in DOMAIN f : g[x] = f[x]
    BY Zenon, <1>3
  <2> QED
    BY Zenon, <1>4, <2>1, TotalAdd
<1> QED
  BY Zenon, <1>1, <1>2, <1>3, <1>5

\* The baselines of pruned gauges give their bytes back.
LEMMA PrunedBaselines ==
  ASSUME NEW G, GoodGauges(G), NEW old \in SUBSET G
  PROVE  /\ GoodGauges(G \ old)
         /\ Total(GaugeSizes(G \ old)) = Total(GaugeSizes(G)) - Total(GaugeSizes(old))
         /\ Total(GaugeSizes(G \ old)) <= Total(GaugeSizes(G))
<1>1. GoodGauges(G \ old)
  BY FS_Subset DEF GoodGauges
<1>2. PICK f, g, h : f = GaugeSizes(G) /\ g = GaugeSizes(G \ old) /\ h = GaugeSizes(old)
  BY Zenon
<1>3. /\ DOMAIN f = G /\ DOMAIN g = G \ old /\ DOMAIN h = old
      /\ \A x \in DOMAIN g : g[x] = f[x]
      /\ \A x \in DOMAIN h : h[x] = f[x]
  BY <1>2 DEF GaugeSizes
<1>4. DOMAIN f = DOMAIN g \cup DOMAIN h /\ DOMAIN g \cap DOMAIN h = {}
  BY <1>3
<1>5. Summable(f)
  BY Zenon, <1>2, GaugesNat
<1>6. /\ Total(f) \in Nat /\ Total(g) \in Nat /\ Total(h) \in Nat /\ Total(f) = Total(g) + Total(h)
  <2>1. /\ \A x \in DOMAIN g : g[x] = f[x]
        /\ \A x \in DOMAIN h : h[x] = f[x]
    BY Zenon, <1>3
  <2> QED
    BY <1>4, <1>5, <2>1, TotalSplit
<1>7. Total(g) = Total(f) - Total(h) /\ Total(g) <= Total(f)
  BY <1>6
<1> QED
  BY Zenon, <1>1, <1>2, <1>7

\* The counters of an aggregator are natural numbers.
LEMMA AggNat ==
  ASSUME NEW a, AggOK(a)
  PROVE  /\ a.activeBytes \in Nat /\ a.inflightBytes \in Nat /\ a.gaugeBytes \in Nat
         /\ MaxBytes \in Nat
BY Zenon, WindowNat, GaugesNat, AggregationAssumption DEF AggOK

\* What fits besides everything retained fits besides the window and the gauges.
LEMMA RoomFor ==
  ASSUME NEW a, AggOK(a), NEW b \in Nat, Fits(a, b)
  PROVE  /\ (a.activeBytes + b) + a.gaugeBytes <= MaxBytes
         /\ a.activeBytes + (a.gaugeBytes + b) <= MaxBytes
<1>1. PICK x \in Nat, y \in Nat, z \in Nat, m \in Nat :
        x = a.activeBytes /\ y = a.inflightBytes /\ z = a.gaugeBytes /\ m = MaxBytes
  BY Zenon, AggNat
<1>2. x + y + z + b <= m
  BY Zenon, <1>1 DEF Fits, TotalBytes
<1>3. (x + b) + z <= m /\ x + (z + b) <= m
  BY <1>2
<1> QED
  BY Zenon, <1>1, <1>3

\* An aggregator with another window or other gauges.
LEMMA RebuiltOK ==
  ASSUME NEW a, AggOK(a), NEW w, GoodWindow(w), NEW G, GoodGauges(DOMAIN G), NEW x, NEW y, NEW p,
         x = WindowBytes(w), y = Total(GaugeSizes(DOMAIN G)), x + y <= MaxBytes
  PROVE  AggOK(Agg(w, x, a.inflight, a.inflightBytes, G, y, p))
<1>1. PICK b : b = Agg(w, x, a.inflight, a.inflightBytes, G, y, p)
  BY Zenon
<1>2. /\ b.series = w /\ b.activeBytes = x /\ b.inflight = a.inflight
      /\ b.inflightBytes = a.inflightBytes /\ b.gauges = G /\ b.gaugeBytes = y
      /\ b.lastGaugePrune = p
  BY <1>1 DEF Agg
<1>3. IsAgg(b)
  BY Zenon, <1>1, <1>2 DEF IsAgg
<1>4. AggOK(b)
  BY Zenon, <1>2, <1>3 DEF AggOK
<1> QED
  BY Zenon, <1>1, <1>4

\* The fields of an aggregator's record, set one after the other.
AggSets(a, x, y, z) ==
  /\ [a EXCEPT !.series = x, !.activeBytes = y]
       = Agg(x, y, a.inflight, a.inflightBytes, a.gauges, a.gaugeBytes, a.lastGaugePrune)
  /\ [a EXCEPT !.inflight = x, !.inflightBytes = y]
       = Agg(a.series, a.activeBytes, x, y, a.gauges, a.gaugeBytes, a.lastGaugePrune)
  /\ [a EXCEPT !.gauges = x]
       = Agg(a.series, a.activeBytes, a.inflight, a.inflightBytes, x, a.gaugeBytes, a.lastGaugePrune)
  /\ [a EXCEPT !.gauges = x, !.gaugeBytes = y]
       = Agg(a.series, a.activeBytes, a.inflight, a.inflightBytes, x, y, a.lastGaugePrune)
  /\ [a EXCEPT !.gauges = x, !.gaugeBytes = y, !.lastGaugePrune = z]
       = Agg(a.series, a.activeBytes, a.inflight, a.inflightBytes, x, y, z)

\* An aggregator's record has the fields that EXCEPT sets.
LEMMA SetAgg ==
  ASSUME NEW a, IsAgg(a), NEW x, NEW y, NEW z
  PROVE  AggSets(a, x, y, z)
<1>1. PICK c, d, e, f, g, h, i :
        /\ c = a.series /\ d = a.activeBytes /\ e = a.inflight /\ f = a.inflightBytes
        /\ g = a.gauges /\ h = a.gaugeBytes /\ i = a.lastGaugePrune
  BY Zenon
<1>2. a = Agg(c, d, e, f, g, h, i)
  BY Zenon, <1>1 DEF IsAgg
<1>3. [a EXCEPT !.series = x, !.activeBytes = y] = Agg(x, y, e, f, g, h, i)
  <2>1. PICK b : b = [a EXCEPT !.series = x]
    BY Zenon
  <2>2. b = Agg(x, d, e, f, g, h, i)
    BY <1>2, <2>1 DEF Agg
  <2>3. [b EXCEPT !.activeBytes = y] = Agg(x, y, e, f, g, h, i)
    BY <2>2 DEF Agg
  <2> QED
    BY Zenon, <2>1, <2>3
<1>4. [a EXCEPT !.inflight = x, !.inflightBytes = y] = Agg(c, d, x, y, g, h, i)
  <2>1. PICK b : b = [a EXCEPT !.inflight = x]
    BY Zenon
  <2>2. b = Agg(c, d, x, f, g, h, i)
    BY <1>2, <2>1 DEF Agg
  <2>3. [b EXCEPT !.inflightBytes = y] = Agg(c, d, x, y, g, h, i)
    BY <2>2 DEF Agg
  <2> QED
    BY Zenon, <2>1, <2>3
<1>5. [a EXCEPT !.gauges = x] = Agg(c, d, e, f, x, h, i)
  BY <1>2 DEF Agg
<1>6. /\ [a EXCEPT !.gauges = x, !.gaugeBytes = y] = Agg(c, d, e, f, x, y, i)
      /\ [a EXCEPT !.gauges = x, !.gaugeBytes = y, !.lastGaugePrune = z]
           = Agg(c, d, e, f, x, y, z)
  <2>1. PICK b : b = [a EXCEPT !.gauges = x]
    BY Zenon
  <2>2. PICK k : k = [b EXCEPT !.gaugeBytes = y]
    BY Zenon
  <2>3. k = Agg(c, d, e, f, x, y, i)
    BY Zenon, <1>5, <2>1, <2>2 DEF Agg
  <2>4. [k EXCEPT !.lastGaugePrune = z] = Agg(c, d, e, f, x, y, z)
    BY <2>3 DEF Agg
  <2> QED
    BY Zenon, <2>1, <2>2, <2>3, <2>4
<1> QED
  BY Zenon, <1>1, <1>3, <1>4, <1>5, <1>6 DEF AggSets

\* b retains the same reserved window as a.
SameReserved(a, b) == b.inflight = a.inflight /\ b.inflightBytes = a.inflightBytes

\* pruneGaugesLocked keeps the counters exact.
LEMMA PruneGaugesOK ==
  ASSUME NEW a, AggOK(a), NEW now
  PROVE  AggOK(PruneGauges(a, now)) /\ SameReserved(a, PruneGauges(a, now))
<1>1. PICK old : old = {s \in DOMAIN a.gauges : a.gauges[s] < now - TTL}
  BY Zenon
<1>2. PICK G : G = [s \in DOMAIN a.gauges \ old |-> a.gauges[s]]
  BY Zenon
<1>3. PICK y : y = a.gaugeBytes - Total(GaugeSizes(old))
  BY Zenon
<1>4. PICK b : b = [a EXCEPT !.gauges = G, !.gaugeBytes = y, !.lastGaugePrune = now]
  BY Zenon
<1>5. PruneGauges(a, now) \in {a, b}
  BY Zenon, <1>1, <1>2, <1>3, <1>4 DEF PruneGauges, GaugeSizes
<1>6. /\ DOMAIN G = DOMAIN a.gauges \ old /\ old \in SUBSET DOMAIN a.gauges
      /\ GoodGauges(DOMAIN a.gauges)
  BY <1>1, <1>2 DEF AggOK
<1>7. /\ GoodGauges(DOMAIN G) /\ y = Total(GaugeSizes(DOMAIN G))
      /\ y <= a.gaugeBytes
  <2>1. /\ GoodGauges(DOMAIN a.gauges \ old)
        /\ Total(GaugeSizes(DOMAIN a.gauges \ old))
             = Total(GaugeSizes(DOMAIN a.gauges)) - Total(GaugeSizes(old))
        /\ Total(GaugeSizes(DOMAIN a.gauges \ old)) <= Total(GaugeSizes(DOMAIN a.gauges))
    BY Zenon, <1>6, PrunedBaselines
  <2>2. a.gaugeBytes = Total(GaugeSizes(DOMAIN a.gauges))
    BY Zenon DEF AggOK
  <2> QED
    BY Zenon, <1>3, <1>6, <2>1, <2>2
<1>8. a.activeBytes + y <= MaxBytes
  <2>1. y \in Nat
    BY Zenon, <1>7, GaugesNat
  <2>2. PICK m \in Nat, c \in Nat, d \in Nat : m = MaxBytes /\ c = a.activeBytes /\ d = a.gaugeBytes
    BY Zenon, AggNat
  <2>3. c + d <= m /\ y <= d
    BY Zenon, <1>7, <2>2 DEF AggOK
  <2>4. c + y <= m
    BY <2>1, <2>3
  <2> QED
    BY Zenon, <2>2, <2>4
<1>9. b = Agg(a.series, a.activeBytes, a.inflight, a.inflightBytes, G, y, now)
  <2>1. AggSets(a, G, y, now)
    BY Zenon, SetAgg DEF AggOK
  <2> QED
    BY Zenon, <1>4, <2>1 DEF AggSets
<1>10. AggOK(b)
  <2>1. GoodWindow(a.series) /\ a.activeBytes = WindowBytes(a.series)
    BY Zenon DEF AggOK
  <2> QED
    BY Zenon, <1>7, <1>8, <1>9, <2>1, RebuiltOK
<1>11. SameReserved(a, a) /\ SameReserved(a, b)
  BY <1>9 DEF SameReserved, Agg
<1> QED
  BY <1>5, <1>10, <1>11

\* A state that fits keeps the counters exact.
LEMMA WithStateOK ==
  ASSUME NEW a, AggOK(a), NEW s \in Series, HasState(a, s)
  PROVE  /\ AggOK(WithState(a, s)) /\ SameReserved(a, WithState(a, s))
         /\ s \in DOMAIN WithState(a, s).series
         /\ WithState(a, s).gauges = a.gauges
<1>1. CASE s \in DOMAIN a.series
  BY <1>1 DEF WithState, SameReserved
<1>2. CASE s \notin DOMAIN a.series
  <2>1. Fits(a, StateBytes[s]) /\ StateBytes[s] \in Nat
    BY <1>2, AggregationAssumption DEF HasState
  <2>2. PICK w, x : w = See(a.series, s, {}) /\ x = a.activeBytes + StateBytes[s]
    BY Zenon
  <2>3. PICK b : b = [a EXCEPT !.series = w, !.activeBytes = x]
    BY Zenon
  <2>4. WithState(a, s) = b
    BY <1>2, <2>2, <2>3 DEF WithState
  <2>5. b = Agg(w, x, a.inflight, a.inflightBytes, a.gauges, a.gaugeBytes, a.lastGaugePrune)
    <3>1. AggSets(a, w, x, 0)
      BY Zenon, SetAgg DEF AggOK
    <3> QED
      BY Zenon, <2>3, <3>1 DEF AggSets
  <2>6. /\ GoodWindow(a.series) /\ a.activeBytes = WindowBytes(a.series)
        /\ GoodGauges(DOMAIN a.gauges) /\ a.gaugeBytes = Total(GaugeSizes(DOMAIN a.gauges))
    BY Zenon DEF AggOK
  <2>7. GoodWindow(w) /\ x = WindowBytes(w)
    BY Zenon, <1>2, <2>2, <2>6, NewState
  <2>8. x + a.gaugeBytes <= MaxBytes
    BY Zenon, <2>1, <2>2, RoomFor
  <2>9. AggOK(b)
    BY Zenon, <2>5, <2>6, <2>7, <2>8, RebuiltOK
  <2>10. b.series = w /\ b.gauges = a.gauges /\ SameReserved(a, b)
    BY <2>5 DEF Agg, SameReserved
  <2>11. s \in DOMAIN w
    BY <2>2 DEF See
  <2> QED
    BY Zenon, <2>4, <2>9, <2>10, <2>11
<1> QED
  BY <1>1, <1>2

\* A gauge is added with its baseline, or not at all.
LEMMA AddGaugeOK ==
  ASSUME NEW a, AggOK(a), NEW s \in Gauges, HasState(a, s), NEW now
  PROVE  AggOK(AddGauge(a, s, now)) /\ SameReserved(a, AddGauge(a, s, now))
<1>1. s \in Series
  BY DEF Gauges
<1>2. PICK b : b = WithState(a, s)
  BY Zenon
<1>3. AggOK(b) /\ SameReserved(a, b) /\ b.gauges = a.gauges
  BY Zenon, <1>1, <1>2, WithStateOK
<1>4. /\ GoodWindow(b.series) /\ b.activeBytes = WindowBytes(b.series)
      /\ GoodGauges(DOMAIN b.gauges) /\ b.gaugeBytes = Total(GaugeSizes(DOMAIN b.gauges))
      /\ b.activeBytes + b.gaugeBytes <= MaxBytes
  BY Zenon, <1>3 DEF AggOK
<1>5. CASE s \in DOMAIN a.gauges
  <2>1. PICK G : G = [b.gauges EXCEPT ![s] = now]
    BY Zenon
  <2>2. PICK c : c = [b EXCEPT !.gauges = G]
    BY Zenon
  <2>3. AddGauge(a, s, now) = c
    BY <1>2, <1>5, <2>1, <2>2 DEF AddGauge
  <2>4. c = Agg(b.series, b.activeBytes, b.inflight, b.inflightBytes, G, b.gaugeBytes,
                b.lastGaugePrune)
    <3>1. AggSets(b, G, 0, 0)
      BY Zenon, <1>3, SetAgg DEF AggOK
    <3> QED
      BY Zenon, <2>2, <3>1 DEF AggSets
  <2>5. DOMAIN G = DOMAIN b.gauges
    BY <2>1
  <2>6. AggOK(c)
    BY Zenon, <1>3, <1>4, <2>4, <2>5, RebuiltOK
  <2>7. SameReserved(b, c)
    BY <2>4 DEF Agg, SameReserved
  <2> QED
    BY Zenon, <1>3, <2>3, <2>6, <2>7 DEF SameReserved
<1>6. CASE s \notin DOMAIN a.gauges /\ Fits(b, BaselineBytes[s])
  <2>1. PICK G, y : G = See(b.gauges, s, now) /\ y = b.gaugeBytes + BaselineBytes[s]
    BY Zenon
  <2>2. PICK c : c = [b EXCEPT !.gauges = G, !.gaugeBytes = y]
    BY Zenon
  <2>3. AddGauge(a, s, now) = c
    BY <1>2, <1>6, <2>1, <2>2 DEF AddGauge
  <2>4. c = Agg(b.series, b.activeBytes, b.inflight, b.inflightBytes, G, y, b.lastGaugePrune)
    <3>1. AggSets(b, G, y, 0)
      BY Zenon, <1>3, SetAgg DEF AggOK
    <3> QED
      BY Zenon, <2>2, <3>1 DEF AggSets
  <2>5. DOMAIN G = DOMAIN b.gauges \cup {s} /\ s \notin DOMAIN b.gauges
    BY <1>3, <1>6, <2>1 DEF See
  <2>6. GoodGauges(DOMAIN G) /\ y = Total(GaugeSizes(DOMAIN G))
    <3>1. /\ GoodGauges(DOMAIN b.gauges \cup {s})
          /\ Total(GaugeSizes(DOMAIN b.gauges \cup {s}))
               = Total(GaugeSizes(DOMAIN b.gauges)) + BaselineBytes[s]
      BY Zenon, <1>4, <2>5, NewBaseline
    <3> QED
      BY Zenon, <1>4, <2>1, <2>5, <3>1
  <2>7. BaselineBytes[s] \in Nat
    BY AggregationAssumption
  <2>8. b.activeBytes + y <= MaxBytes
    BY Zenon, <1>3, <1>6, <2>1, <2>7, RoomFor
  <2>9. AggOK(c)
    BY Zenon, <1>3, <1>4, <2>4, <2>6, <2>8, RebuiltOK
  <2>10. SameReserved(b, c)
    BY <2>4 DEF Agg, SameReserved
  <2> QED
    BY Zenon, <1>3, <2>3, <2>9, <2>10 DEF SameReserved
<1>7. CASE s \notin DOMAIN a.gauges /\ ~Fits(b, BaselineBytes[s])
  BY Zenon, <1>2, <1>7 DEF AddGauge, SameReserved
<1> QED
  BY Zenon, <1>5, <1>6, <1>7

\* A set member is added if it fits; the new state stays.
LEMMA AddSetOK ==
  ASSUME NEW a, AggOK(a), NEW s \in Series, HasState(a, s), NEW v
  PROVE  AggOK(AddSet(a, s, v)) /\ SameReserved(a, AddSet(a, s, v))
<1>1. PICK b : b = WithState(a, s)
  BY Zenon
<1>2. AggOK(b) /\ SameReserved(a, b) /\ s \in DOMAIN b.series
  BY Zenon, <1>1, WithStateOK
<1>3. /\ GoodWindow(b.series) /\ b.activeBytes = WindowBytes(b.series)
      /\ GoodGauges(DOMAIN b.gauges) /\ b.gaugeBytes = Total(GaugeSizes(DOMAIN b.gauges))
  BY Zenon, <1>2 DEF AggOK
<1>4. PICK w, x : w = [b.series EXCEPT ![s] = @ \cup {v}] /\ x = b.activeBytes + ValueBytes
  BY Zenon
<1>5. PICK c : c = [b EXCEPT !.series = w, !.activeBytes = x]
  BY Zenon
<1>6. AddSet(a, s, v) = IF /\ v \notin b.series[s]
                           /\ Cardinality(b.series[s]) < MaxSetValues
                           /\ Fits(b, ValueBytes)
                        THEN c ELSE b
  <2>1. [b EXCEPT !.series[s] = @ \cup {v}, !.activeBytes = @ + ValueBytes] = c
    <3>1. PICK d : d = [b EXCEPT !.series = w]
      BY Zenon
    <3>2. d = [b EXCEPT !.series[s] = @ \cup {v}]
      BY <1>4, <3>1
    <3>3. d.activeBytes = b.activeBytes
      BY <1>2, <3>1 DEF AggOK, IsAgg, Agg
    <3>4. [d EXCEPT !.activeBytes = @ + ValueBytes] = [d EXCEPT !.activeBytes = x]
      BY <1>4, <3>3
    <3> QED
      BY Zenon, <1>5, <3>1, <3>2, <3>4
  <2> QED
    BY Zenon, <1>1, <2>1 DEF AddSet
<1>7. CASE AddSet(a, s, v) = b
  BY Zenon, <1>2, <1>7
<1>8. CASE AddSet(a, s, v) = c /\ v \notin b.series[s] /\ Fits(b, ValueBytes)
  <2>1. c = Agg(w, x, b.inflight, b.inflightBytes, b.gauges, b.gaugeBytes, b.lastGaugePrune)
    <3>1. AggSets(b, w, x, 0)
      BY Zenon, <1>2, SetAgg DEF AggOK
    <3> QED
      BY Zenon, <1>5, <3>1 DEF AggSets
  <2>2. GoodWindow(w) /\ x = WindowBytes(w)
    BY Zenon, <1>2, <1>3, <1>4, <1>8, NewMember
  <2>3. ValueBytes \in Nat
    BY Zenon, AggregationAssumption
  <2>4. x + b.gaugeBytes <= MaxBytes
    BY Zenon, <1>2, <1>4, <1>8, <2>3, RoomFor
  <2>5. AggOK(c)
    BY Zenon, <1>2, <1>3, <2>1, <2>2, <2>4, RebuiltOK
  <2>6. SameReserved(b, c)
    BY <2>1 DEF Agg, SameReserved
  <2> QED
    BY Zenon, <1>2, <1>8, <2>5, <2>6 DEF SameReserved
<1> QED
  BY Zenon, <1>6, <1>7, <1>8

\* Add keeps the counters exact, whatever arrives and whatever the clock says.
LEMMA AddOK ==
  ASSUME NEW a, AggOK(a), NEW s \in Series, NEW v, NEW now
  PROVE  AggOK(Add(a, s, v, now)) /\ SameReserved(a, Add(a, s, v, now))
<1>1. PICK p : p = PruneGauges(a, now)
  BY Zenon
<1>2. AggOK(p) /\ SameReserved(a, p)
  BY Zenon, <1>1, PruneGaugesOK
<1>3. CASE ~HasState(p, s)
  BY <1>1, <1>2, <1>3 DEF Add
<1>4. CASE HasState(p, s) /\ KindOf[s] = "gauge"
  <2>1. Add(a, s, v, now) = AddGauge(p, s, now)
    BY <1>1, <1>4 DEF Add
  <2>2. s \in Gauges
    BY <1>4 DEF Gauges
  <2>3. AggOK(AddGauge(p, s, now)) /\ SameReserved(p, AddGauge(p, s, now))
    BY Zenon, <1>2, <1>4, <2>2, AddGaugeOK
  <2> QED
    BY Zenon, <1>2, <2>1, <2>3 DEF SameReserved
<1>5. CASE HasState(p, s) /\ KindOf[s] = "set"
  <2>1. Add(a, s, v, now) = AddSet(p, s, v)
    BY <1>1, <1>5 DEF Add
  <2>2. AggOK(AddSet(p, s, v)) /\ SameReserved(p, AddSet(p, s, v))
    BY Zenon, <1>2, <1>5, AddSetOK
  <2> QED
    BY Zenon, <1>2, <2>1, <2>2 DEF SameReserved
<1>6. CASE HasState(p, s) /\ KindOf[s] \notin {"gauge", "set"}
  <2>1. Add(a, s, v, now) = WithState(p, s)
    BY <1>1, <1>6 DEF Add
  <2>2. AggOK(WithState(p, s)) /\ SameReserved(p, WithState(p, s))
    BY Zenon, <1>2, <1>6, WithStateOK
  <2> QED
    BY Zenon, <1>2, <2>1, <2>2 DEF SameReserved
<1> QED
  BY <1>3, <1>4, <1>5, <1>6

\* An aggregator with another reserved window.
LEMMA ReservedOK ==
  ASSUME NEW a, AggOK(a), NEW w, GoodWindow(w), NEW x, x = WindowBytes(w)
  PROVE  AggOK(Reserved(a, w, x)) /\ Reserved(a, w, x).inflightBytes = x
<1>1. PICK b : b = Reserved(a, w, x)
  BY Zenon
<1>2. b = Agg(a.series, a.activeBytes, w, x, a.gauges, a.gaugeBytes, a.lastGaugePrune)
  <2>1. AggSets(a, w, x, 0)
    BY Zenon, SetAgg DEF AggOK
  <2> QED
    BY Zenon, <1>1, <2>1 DEF AggSets, Reserved
<1>3. /\ b.series = a.series /\ b.activeBytes = a.activeBytes /\ b.inflight = w
      /\ b.inflightBytes = x /\ b.gauges = a.gauges /\ b.gaugeBytes = a.gaugeBytes
      /\ b.lastGaugePrune = a.lastGaugePrune
  BY <1>2 DEF Agg
<1>4. IsAgg(b)
  BY Zenon, <1>2, <1>3 DEF IsAgg
<1>5. AggOK(b)
  BY Zenon, <1>3, <1>4 DEF AggOK
<1> QED
  BY Zenon, <1>1, <1>3, <1>5

==============================================================================
