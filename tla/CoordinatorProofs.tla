-------------------------- MODULE CoordinatorProofs --------------------------
(***************************************************************************)
(* Proofs about module Coordinator: what the two state files, written one  *)
(* after the other by a process that may stop at any moment, say of each   *)
(* other, and what the next boot makes of them; and what the oracle's      *)
(* median and deviation filter promise for any number of feeds.  And about *)
(* module Vault, whose state the coordinator keeps, for any finite set of  *)
(* holders, any deposits, any least deposit and any sequence of marks,     *)
(* snapshots and restarts: the shares outstanding are the shares held, the *)
(* last share takes all, and nobody is diluted by the rounding of          *)
(* another's trade.                                                        *)
(***************************************************************************)
EXTENDS Coordinator, Vault, SumTheorems

-----------------------------------------------------------------------------
(* The inductive invariant.                                                *)

\* The deposits of the first n blocks, and the seed, are in the accounts
\* once.
EventsIn(accts, n) ==
  \A h \in Heights :
    accts[h] = IF h = 0 THEN IF replay THEN 0 ELSE 1
               ELSE IF replay /\ h <= n /\ h # BadHeight THEN EventsOf(h) ELSE 0

AggregateBy(aggregate, n) ==
  \/ aggregate = NoAggregate
  \/ aggregate.index \in Nat \ {0} /\ aggregate.at \in 0..n

\* A bridge file that can be read.
BridgeFile(b) ==
  /\ b.kind = "snapshot"
  /\ b.height \in Heights /\ b.funded \in 0..b.height
  /\ b.accounts \in [Heights -> Int] /\ EventsIn(b.accounts, b.height)

\* A coordinator file that can be read: nothing in it is later than the
\* height it was written at.
NodeFile(c) ==
  /\ c.kind = "snapshot"
  /\ c.height \in Heights /\ c.last_settled \in 0..c.height
  /\ AggregateBy(c.current, c.height) /\ c.last_refresh = c.current.at

\* The coordinator's file is never of a later run than the bridge's; if
\* both are of one height, and no boot has read files of two runs, they
\* agree on the last settlement.
DiskInv ==
  LET b == disk["bridge"]
      c == disk["coordinator"]
  IN /\ DOMAIN disk = {"bridge", "coordinator"}
     /\ b \in {Absent, Truncated} \/ BridgeFile(b)
     /\ c \in {Absent, Truncated} \/ NodeFile(c)
     /\ b = Absent => c = Absent
     /\ BridgeFile(b) /\ NodeFile(c) =>
          /\ c.height <= b.height
          /\ ~torn /\ c.height = b.height => c.last_settled = b.funded

\* The memory of a process that is up, and the coordinator's file it will
\* replace.
RunInv ==
  LET c == disk["coordinator"]
  IN phase # "down" =>
       /\ funded \in 0..height /\ last_settled \in 0..height
       /\ EventsIn(accounts, height) /\ applied \subseteq 1..height
       /\ AggregateBy(current, height) /\ last_refresh = current.at
       /\ \A f \in Feeds : feeds[f].ts <= height
       /\ ~torn => funded = last_settled
       /\ NodeFile(c) => /\ c.height <= height
                         /\ ~torn /\ c.height = height => c.last_settled = last_settled
       /\ phase = "ingest" =>
            /\ current.at < height /\ funded < height /\ last_settled < height
            /\ NodeFile(c) => c.height < height
       /\ phase \in {"saved1", "save2"} => disk["bridge"] = BridgeSnapshot

\* The types of the state, up or down.
TypeInv ==
  /\ phase \in {"down", "idle", "ingest", "stopping", "save1", "saved1", "save2"}
  /\ replay \in BOOLEAN /\ torn \in BOOLEAN
  /\ height \in Heights /\ accounts \in [Heights -> Int]
  /\ funded \in Heights /\ last_settled \in Heights /\ last_refresh \in Heights \cup {-1}
  /\ turn \in 1..NumFeeds + 1 /\ cell \in Nat
  /\ feeds \in [Feeds -> [price : Nat, ts : Int]]
  /\ \A f \in Feeds :
       feeds[f] = NoRecord \/ (feeds[f].price \in Prices \ {0} /\ feeds[f].ts \in Heights)
  /\ publishers \in [Feeds -> Keys \cup {NoKey}]
  /\ AggregateBy(current, MaxHeight)

CoordInv == TypeInv /\ DiskInv /\ RunInv

-----------------------------------------------------------------------------
(* The oracle's median, for any set of feeds.                              *)

Priced(F) == IsFiniteSet(F) /\ \A f \in F : feeds[f].price \in Nat \ {0}

\* Feeds of F whose price is at most that of g.
AtMost(F, g) == {h \in F : feeds[h].price <= feeds[g].price}

LEMMA MinOfNaturals ==
  ASSUME NEW S, S \subseteq Nat, S # {}
  PROVE  Min(S) \in S /\ \A y \in S : Min(S) <= y
  BY LeastNumber DEF Min

LEMMA CountsOfSubsets ==
  ASSUME NEW F, IsFiniteSet(F), NEW A \in SUBSET F
  PROVE  /\ IsFiniteSet(A) /\ Cardinality(A) \in Nat /\ Cardinality(F) \in Nat
         /\ Cardinality(A) <= Cardinality(F)
  BY FS_Subset, FS_CardinalityType

\* The subset is smaller if it misses an element.
LEMMA CountsOfStrictSubsets ==
  ASSUME NEW F, IsFiniteSet(F), NEW A \in SUBSET F, A # F
  PROVE  Cardinality(A) < Cardinality(F)
  <1>1. Cardinality(A) <= Cardinality(F) /\ Cardinality(A) # Cardinality(F)
    BY FS_Subset
  <1> QED
    BY <1>1, CountsOfSubsets

\* One of finitely many feeds has the greatest price.
LEMMA GreatestPrice ==
  ASSUME NEW F, Priced(F), F # {}
  PROVE  \E g \in F : \A h \in F : feeds[h].price <= feeds[g].price
  <1> DEFINE above == {Cardinality(F) - Cardinality(AtMost(F, g)) : g \in F}
  <1>1. \A g \in F : /\ AtMost(F, g) \in SUBSET F /\ IsFiniteSet(AtMost(F, g))
                     /\ Cardinality(AtMost(F, g)) \in Nat /\ Cardinality(F) \in Nat
                     /\ Cardinality(AtMost(F, g)) <= Cardinality(F)
    <2> SUFFICES ASSUME NEW g \in F
                 PROVE  /\ AtMost(F, g) \in SUBSET F /\ IsFiniteSet(AtMost(F, g))
                        /\ Cardinality(AtMost(F, g)) \in Nat /\ Cardinality(F) \in Nat
                        /\ Cardinality(AtMost(F, g)) <= Cardinality(F)
      OBVIOUS
    <2>1. AtMost(F, g) \in SUBSET F
      BY DEF AtMost
    <2> QED
      BY <2>1, CountsOfSubsets DEF Priced
  <1>2. above \subseteq Nat /\ above # {}
    BY <1>1
  <1>3. PICK x \in above : \A y \in above : x <= y
    BY <1>2, LeastNumber
  <1>4. PICK g \in F : x = Cardinality(F) - Cardinality(AtMost(F, g))
    OBVIOUS
  <1>5. ASSUME NEW h \in F
        PROVE  feeds[h].price <= feeds[g].price
    <2> SUFFICES ASSUME ~ (feeds[h].price <= feeds[g].price)
                 PROVE  FALSE
      OBVIOUS
    <2>1. feeds[g].price < feeds[h].price
      BY DEF Priced
    <2>2. AtMost(F, g) \in SUBSET AtMost(F, h)
      BY <2>1 DEF AtMost, Priced
    <2>3. h \in AtMost(F, h) /\ h \notin AtMost(F, g)
      BY <2>1 DEF AtMost, Priced
    <2>4. AtMost(F, g) # AtMost(F, h)
      BY <2>3
    <2>5. Cardinality(AtMost(F, g)) < Cardinality(AtMost(F, h))
      BY <1>1, <2>2, <2>4, CountsOfStrictSubsets
    <2>6. x <= Cardinality(F) - Cardinality(AtMost(F, h))
      BY <1>3
    <2> QED
      BY <1>1, <1>4, <2>5, <2>6
  <1> QED
    BY <1>5

\* The k-th smallest price is the price of a feed; at least k feeds have at
\* most that price, and fewer than k have less.
LEMMA SmallestRank ==
  ASSUME NEW F, Priced(F), NEW k \in 1..Cardinality(F)
  PROVE  /\ \E g \in F : /\ Smallest(F, k) = feeds[g].price
                         /\ Cardinality(AtMost(F, g)) >= k
         /\ \A h \in F : Cardinality(AtMost(F, h)) >= k => Smallest(F, k) <= feeds[h].price
  <1> DEFINE ranked == {g \in F : Cardinality(AtMost(F, g)) >= k}
             prices == {feeds[f].price : f \in ranked}
  <1>1. Smallest(F, k) = Min(prices)
    BY DEF Smallest, AtMost
  <1>2. F # {}
    <2>1. Cardinality({}) = 0
      BY FS_EmptySet
    <2> QED
      BY <2>1
  <1>3. PICK g \in F : \A h \in F : feeds[h].price <= feeds[g].price
    BY <1>2, GreatestPrice
  <1>4. AtMost(F, g) = F
    BY <1>3 DEF AtMost
  <1>5. g \in ranked
    BY <1>4
  <1>6. prices \subseteq Nat /\ prices # {}
    BY <1>5 DEF Priced
  <1>7. Min(prices) \in prices /\ \A y \in prices : Min(prices) <= y
    BY <1>6, MinOfNaturals
  <1> QED
    BY <1>1, <1>7

\* Of a set with fewer than k of the feeds left out, one has at most the
\* k-th smallest price; of a set with at least k feeds, one has at least it.
LEMMA SmallestBetween ==
  ASSUME NEW F, Priced(F), NEW k \in 1..Cardinality(F), NEW H \in SUBSET F
  PROVE  /\ Cardinality(H) >= k => \E h \in H : Smallest(F, k) <= feeds[h].price
         /\ Cardinality(H) > Cardinality(F) - k => \E h \in H : feeds[h].price <= Smallest(F, k)
  <1>1. PICK g \in F : Smallest(F, k) = feeds[g].price /\ Cardinality(AtMost(F, g)) >= k
    BY SmallestRank
  <1>2. /\ IsFiniteSet(H) /\ Cardinality(H) \in Nat /\ Cardinality(F) \in Nat
    BY CountsOfSubsets DEF Priced
  <1>3. ASSUME Cardinality(H) >= k
        PROVE  \E h \in H : Smallest(F, k) <= feeds[h].price
    <2>1. H # {}
      <3>1. Cardinality({}) = 0
        BY FS_EmptySet
      <3> QED
        BY <1>3, <3>1
    <2>2. Priced(H)
      BY <1>2 DEF Priced
    <2>3. PICK h \in H : \A x \in H : feeds[x].price <= feeds[h].price
      BY <2>1, <2>2, GreatestPrice
    <2>4. H \in SUBSET AtMost(F, h) /\ AtMost(F, h) \in SUBSET F
      BY <2>3 DEF AtMost
    <2>5. IsFiniteSet(AtMost(F, h)) /\ Cardinality(AtMost(F, h)) \in Nat
      BY <2>4, CountsOfSubsets DEF Priced
    <2>6. Cardinality(H) <= Cardinality(AtMost(F, h))
      BY <2>4, <2>5, CountsOfSubsets
    <2>7. Cardinality(AtMost(F, h)) >= k
      BY <1>2, <1>3, <2>5, <2>6
    <2> QED
      BY <2>7, SmallestRank
  <1>4. ASSUME Cardinality(H) > Cardinality(F) - k
        PROVE  \E h \in H : feeds[h].price <= Smallest(F, k)
    <2>1. AtMost(F, g) \in SUBSET F
      BY DEF AtMost
    <2>2. IsFiniteSet(AtMost(F, g)) /\ Cardinality(AtMost(F, g)) \in Nat
      BY <2>1, CountsOfSubsets DEF Priced
    <2>3. H \cap AtMost(F, g) # {}
      <3> SUFFICES ASSUME H \cap AtMost(F, g) = {} PROVE FALSE
        OBVIOUS
      <3>1. Cardinality(H \cup AtMost(F, g))
              = Cardinality(H) + Cardinality(AtMost(F, g)) - Cardinality(H \cap AtMost(F, g))
        BY <1>2, <2>2, FS_Union
      <3>2. Cardinality(H \cap AtMost(F, g)) = 0
        BY FS_EmptySet
      <3>3. H \cup AtMost(F, g) \in SUBSET F
        BY <2>1
      <3>4. /\ Cardinality(H \cup AtMost(F, g)) \in Nat
            /\ Cardinality(H \cup AtMost(F, g)) <= Cardinality(F)
        BY <3>3, CountsOfSubsets DEF Priced
      <3> QED
        BY <1>1, <1>2, <1>4, <2>2, <3>1, <3>2, <3>4
    <2> QED
      BY <1>1, <2>3 DEF AtMost
  <1> QED
    BY <1>3, <1>4

LEMMA SmallestType ==
  ASSUME NEW F, Priced(F), NEW k \in 1..Cardinality(F)
  PROVE  Smallest(F, k) \in Nat \ {0}
  BY SmallestRank DEF Priced

\* The median lies between two prices of any majority of the feeds, whether
\* their number is odd or even.
LEMMA MedianBetween ==
  ASSUME NEW F, Priced(F), F # {}, NEW H \in SUBSET F, 2 * Cardinality(H) > Cardinality(F)
  PROVE  /\ Median(F) \in Nat \ {0}
         /\ \E a \in H : feeds[a].price <= Median(F)
         /\ \E b \in H : Median(F) <= feeds[b].price
  <1> DEFINE n == Cardinality(F)
  <1>1. n \in Nat /\ Cardinality(H) \in Nat
    BY CountsOfSubsets DEF Priced
  <1>2. n # 0
    BY FS_EmptySet DEF Priced
  <1> HIDE DEF n
  <1>3. ASSUME NEW h \in H
        PROVE  feeds[h].price \in Nat
    BY DEF Priced
  <1>4. CASE n % 2 = 1
    <2> DEFINE k == (n \div 2) + 1
    <2>1. k \in 1..n
      BY <1>1, <1>2, <1>4
    <2>2. Cardinality(H) >= k /\ Cardinality(H) > n - k
      BY <1>1, <1>4 DEF n
    <2>3. Median(F) = Smallest(F, k)
      BY <1>4 DEF Median, Middle, n
    <2> HIDE DEF k
    <2>4. Smallest(F, k) \in Nat \ {0}
      BY <2>1, SmallestType DEF n
    <2> QED
      BY <2>1, <2>2, <2>3, <2>4, SmallestBetween DEF n
  <1>5. CASE n % 2 # 1
    <2> DEFINE k == n \div 2
               l == (n \div 2) + 1
    <2>1. k \in 1..n /\ l \in 1..n /\ l = k + 1
      BY <1>1, <1>2, <1>5
    <2>2. Cardinality(H) >= l /\ Cardinality(H) > n - k
      BY <1>1, <1>5 DEF n
    <2>3. Median(F) = (Smallest(F, k) + Smallest(F, l)) \div 2
      BY <1>5 DEF Median, n
    <2> HIDE DEF k, l
    <2>4. Smallest(F, k) \in Nat \ {0} /\ Smallest(F, l) \in Nat \ {0}
      BY <2>1, SmallestType DEF n
    <2>5. PICK g \in F : Smallest(F, l) = feeds[g].price /\ Cardinality(AtMost(F, g)) >= l
      BY <2>1, SmallestRank DEF n
    <2>6. Cardinality(AtMost(F, g)) >= k
      <3>1. AtMost(F, g) \in SUBSET F
        BY DEF AtMost
      <3>2. Cardinality(AtMost(F, g)) \in Nat
        BY <3>1, CountsOfSubsets DEF Priced
      <3> QED
        BY <2>1, <2>5, <3>2
    <2>7. Smallest(F, k) <= Smallest(F, l)
      BY <2>1, <2>5, <2>6, SmallestRank DEF n
    <2>8. /\ Median(F) \in Nat \ {0}
          /\ Smallest(F, k) <= Median(F) /\ Median(F) <= Smallest(F, l)
      BY <2>3, <2>4, <2>7
    <2>9. PICK a \in H : feeds[a].price <= Smallest(F, k)
      BY <2>1, <2>2, SmallestBetween DEF n
    <2>10. PICK b \in H : Smallest(F, l) <= feeds[b].price
      BY <2>1, <2>2, SmallestBetween DEF n
    <2>11. feeds[a].price <= Median(F) /\ Median(F) <= feeds[b].price
      BY <1>3, <2>4, <2>8, <2>9, <2>10
    <2> QED
      BY <2>8, <2>11
  <1> QED
    BY <1>4, <1>5

\* A price between two that deviate little from the reference deviates
\* little.
LEMMA DeviationBetween ==
  ASSUME NEW a \in Nat, NEW p \in Nat, NEW b \in Nat, NEW r \in Nat \ {0},
         a <= p, p <= b,
         DeviationBps(a, r) <= MaxDeviation, DeviationBps(b, r) <= MaxDeviation
  PROVE  DeviationBps(p, r) <= MaxDeviation
  <1> DEFINE d(x) == IF x < r THEN r - x ELSE x - r
  <1>1. \A x \in Nat : d(x) \in Nat /\ DeviationBps(x, r) = (d(x) * DeviationScale) \div r
    BY DEF DeviationBps
  <1>2. d(p) <= d(a) \/ d(p) <= d(b)
    OBVIOUS
  <1>3. \A x, y \in Nat : x <= y => (x * DeviationScale) \div r <= (y * DeviationScale) \div r
    <2> SUFFICES ASSUME NEW x \in Nat, NEW y \in Nat, x <= y
                 PROVE  (x * DeviationScale) \div r <= (y * DeviationScale) \div r
      OBVIOUS
    <2>1. DeviationScale \in Nat
      BY OracleAssumption
    <2>2. x * DeviationScale <= y * DeviationScale
      BY <2>1
    <2>3. \A u, w \in Nat : u <= w => u \div r <= w \div r
      OBVIOUS
    <2> QED
      BY <2>1, <2>2, <2>3
  <1>4. \A x \in Nat : DeviationBps(x, r) \in Nat
    BY <1>1, OracleAssumption, SMTT(60)
  <1>5. d(a) \in Nat /\ d(p) \in Nat /\ d(b) \in Nat
    BY <1>1
  <1>6. DeviationBps(p, r) <= DeviationBps(a, r) \/ DeviationBps(p, r) <= DeviationBps(b, r)
    <2> HIDE DEF d
    <2>1. CASE d(p) <= d(a)
      <3>1. (d(p) * DeviationScale) \div r <= (d(a) * DeviationScale) \div r
        BY <1>3, <1>5, <2>1
      <3> QED
        BY <1>1, <3>1
    <2>2. CASE d(p) <= d(b)
      <3>1. (d(p) * DeviationScale) \div r <= (d(b) * DeviationScale) \div r
        BY <1>3, <1>5, <2>2
      <3> QED
        BY <1>1, <3>1
    <2> QED
      BY <1>2, <2>1, <2>2
  <1>7. /\ DeviationBps(a, r) \in Nat /\ DeviationBps(b, r) \in Nat
        /\ DeviationBps(p, r) \in Nat /\ MaxDeviation \in Nat
    BY <1>4, OracleAssumption
  <1> QED
    BY <1>6, <1>7

\* What aggregate_index gives is within the deviation cap of a price between
\* the prices of any majority of the feeds it was given.
LEMMA AggregateNearMajority ==
  ASSUME NEW F, Priced(F), AggregateIndex(F) # NoPrice
  PROVE  /\ AggregateIndex(F) \in Nat \ {0}
         /\ \A H \in SUBSET F : 2 * Cardinality(H) > Cardinality(F) =>
              LET reported == {feeds[f].price : f \in H}
              IN \E p \in Min(reported)..Max(reported) :
                   DeviationBps(AggregateIndex(F), p) <= MaxDeviation
  <1> DEFINE near == FilterByDeviation(F, Median(F))
  <1>1. AggregateIndex(F) = Median(near) /\ F # {} /\ near # {}
    BY DEF AggregateIndex
  <1>2. near \in SUBSET F
    BY DEF FilterByDeviation
  <1>3. Priced(near)
    BY <1>2, CountsOfSubsets DEF Priced
  <1>4. Cardinality(near) \in Nat \ {0} /\ Cardinality(F) \in Nat \ {0}
    BY <1>1, <1>3, FS_EmptySet, FS_CardinalityType DEF Priced
  <1>5. /\ Median(near) \in Nat \ {0}
        /\ \E a \in near : feeds[a].price <= Median(near)
        /\ \E b \in near : Median(near) <= feeds[b].price
    <2>1. 2 * Cardinality(near) > Cardinality(near)
      BY <1>4
    <2> QED
      BY <1>1, <1>3, <2>1, MedianBetween
  <1>6. Median(F) \in Nat \ {0}
    <2>1. 2 * Cardinality(F) > Cardinality(F)
      BY <1>4
    <2> QED
      BY <1>1, <2>1, MedianBetween
  <1>7. DeviationBps(Median(near), Median(F)) <= MaxDeviation
    <2>1. PICK a \in near : feeds[a].price <= Median(near)
      BY <1>5
    <2>2. PICK b \in near : Median(near) <= feeds[b].price
      BY <1>5
    <2>3. /\ DeviationBps(feeds[a].price, Median(F)) <= MaxDeviation
          /\ DeviationBps(feeds[b].price, Median(F)) <= MaxDeviation
      BY DEF FilterByDeviation
    <2>4. feeds[a].price \in Nat /\ feeds[b].price \in Nat
      BY <1>3 DEF Priced
    <2> HIDE DEF near
    <2> QED
      BY <1>5, <1>6, <2>1, <2>2, <2>3, <2>4, DeviationBetween
  <1> HIDE DEF near
  <1>8. ASSUME NEW H \in SUBSET F, 2 * Cardinality(H) > Cardinality(F)
        PROVE  LET reported == {feeds[f].price : f \in H}
               IN Median(F) \in Min(reported)..Max(reported)
    <2> DEFINE reported == {feeds[f].price : f \in H}
    <2>1. PICK a \in H : feeds[a].price <= Median(F)
      BY <1>1, <1>8, MedianBetween
    <2>2. PICK b \in H : Median(F) <= feeds[b].price
      BY <1>1, <1>8, MedianBetween
    <2>3. Priced(H) /\ H # {}
      BY <2>1, CountsOfSubsets DEF Priced
    <2>4. reported \subseteq Nat /\ reported # {}
          /\ feeds[a].price \in reported /\ feeds[b].price \in reported
      BY <2>3 DEF Priced
    <2>5. Min(reported) \in Nat /\ Min(reported) <= feeds[a].price
      BY <2>4, MinOfNaturals
    <2>6. PICK g \in H : \A h \in H : feeds[h].price <= feeds[g].price
      BY <2>3, GreatestPrice
    <2>7. feeds[g].price \in reported /\ \A y \in reported : feeds[g].price >= y
      BY <2>4, <2>6 DEF Priced
    <2>8. Max(reported) \in reported /\ \A y \in reported : Max(reported) >= y
      BY <2>7 DEF Max
    <2> HIDE DEF reported
    <2>9. Max(reported) \in Nat /\ Max(reported) >= feeds[b].price
      BY <2>4, <2>8
    <2>10. feeds[a].price \in Nat /\ feeds[b].price \in Nat
      BY <2>4
    <2>11. Median(F) \in Min(reported)..Max(reported)
      BY <1>6, <2>1, <2>2, <2>5, <2>9, <2>10
    <2> QED
      BY <2>11 DEF reported
  <1> QED
    BY <1>1, <1>5, <1>7, <1>8

-----------------------------------------------------------------------------
(* The files and the process, step by step.                                *)

\* The feeds that are fresh have prices, and there are finitely many.
LEMMA FreshPriced ==
  ASSUME TypeInv, NEW now
  PROVE  Priced(Fresh(now))
  <1>1. IsFiniteSet(Feeds)
    BY FS_Interval, OracleAssumption DEF Feeds
  <1>2. Fresh(now) \in SUBSET Feeds
    BY DEF Fresh
  <1>3. \A f \in Fresh(now) : feeds[f].price \in Nat \ {0}
    BY OracleAssumption DEF Fresh, TypeInv
  <1> QED
    BY <1>1, <1>2, <1>3, FS_Subset DEF Priced

LEMMA NoFeedsNoPrice ==
  ASSUME \A f \in Feeds : feeds[f] = NoRecord, NEW now
  PROVE  Fresh(now) = {} /\ AggregateIndex(Fresh(now)) = NoPrice
  BY DEF Fresh, AggregateIndex

LEMMA DiskKept ==
  ASSUME DiskInv, UNCHANGED <<disk, torn, replay>>
  PROVE  DiskInv'
  BY DEF DiskInv, BridgeFile, NodeFile, EventsIn, AggregateBy

LEMMA CoordInitInv ==
  ASSUME CoordInit
  PROVE  CoordInv
  <1> USE CoordinatorAssumption, OracleAssumption
  <1>1. TypeInv
    <2>1. replay \in BOOLEAN /\ torn \in BOOLEAN
      BY DEF CoordInit
    <2>2. height \in Heights /\ funded \in Heights /\ last_settled \in Heights
          /\ last_refresh \in Heights \cup {-1} /\ turn \in 1..NumFeeds + 1 /\ cell \in Nat
      BY DEF CoordInit, Heights, NoPrice
    <2>3. accounts \in [Heights -> Int]
      BY DEF CoordInit, EmptyBridge
    <2>4. phase \in {"down", "idle", "ingest", "stopping", "save1", "saved1", "save2"}
      BY DEF CoordInit
    <2>5. feeds = [f \in Feeds |-> NoRecord] /\ publishers = [f \in Feeds |-> NoKey]
          /\ AggregateBy(current, MaxHeight)
      BY DEF CoordInit, OracleInit, AggregateBy
    <2>6. feeds \in [Feeds -> [price : Nat, ts : Int]] /\ \A f \in Feeds : feeds[f] = NoRecord
      BY <2>5 DEF NoRecord
    <2>7. publishers \in [Feeds -> Keys \cup {NoKey}]
      BY <2>5
    <2> QED
      BY <2>1, <2>2, <2>3, <2>4, <2>5, <2>6, <2>7 DEF TypeInv
  <1>2. DiskInv
    BY DEF CoordInit, DiskInv, Absent, NodeFile
  <1>3. RunInv
    BY DEF CoordInit, RunInv
  <1> QED
    BY <1>1, <1>2, <1>3 DEF CoordInv

\* What a boot finds in the bridge's file.
LEMMA BridgeLoaded ==
  ASSUME DiskInv, TypeInv, disk["bridge"] # Truncated
  PROVE  /\ LoadedBridge.height \in Heights
         /\ LoadedBridge.funded \in 0..LoadedBridge.height
         /\ LoadedBridge.accounts \in [Heights -> Int]
         /\ Seeded(LoadedBridge.accounts) \in [Heights -> Int]
         /\ EventsIn(Seeded(LoadedBridge.accounts), LoadedBridge.height)
  <1> USE CoordinatorAssumption
  <1>1. CASE disk["bridge"] = Absent
    <2>1. LoadedBridge = EmptyBridge
      BY <1>1 DEF LoadedBridge
    <2>2. EmptyBridge.height = 0 /\ EmptyBridge.funded = 0
          /\ EmptyBridge.accounts = [h \in Heights |-> 0]
      BY DEF EmptyBridge
    <2>3. Seeded([h \in Heights |-> 0])
            = IF replay THEN [h \in Heights |-> 0]
              ELSE [[h \in Heights |-> 0] EXCEPT ![0] = 1]
      BY DEF Seeded, Heights
    <2>4. EventsIn(Seeded([h \in Heights |-> 0]), 0)
      BY <2>3 DEF EventsIn, Heights
    <2> QED
      BY <2>1, <2>2, <2>3, <2>4 DEF Heights
  <1>2. CASE BridgeFile(disk["bridge"])
    <2> DEFINE b == disk["bridge"]
    <2>1. LoadedBridge = b
      BY <1>2 DEF LoadedBridge, BridgeFile, Absent
    <2>2. b.height \in Heights /\ b.funded \in 0..b.height
          /\ b.accounts \in [Heights -> Int] /\ EventsIn(b.accounts, b.height)
      BY <1>2 DEF BridgeFile
    <2>3. Seeded(b.accounts) = b.accounts
      <3>1. CASE replay
        BY <3>1 DEF Seeded
      <3>2. CASE ~replay
        <4>1. 0 \in Heights /\ b.accounts[0] = 1
          BY <2>2, <3>2 DEF EventsIn, Heights
        <4> QED
          BY <4>1 DEF Seeded
      <3> QED
        BY <3>1, <3>2
    <2> QED
      BY <2>1, <2>2, <2>3
  <1> QED
    BY <1>1, <1>2 DEF DiskInv

\* What a boot finds in the coordinator's file is not later than the
\* bridge's.
LEMMA NodeLoaded ==
  ASSUME DiskInv, TypeInv, disk["bridge"] # Truncated, disk["coordinator"] # Truncated
  PROVE  /\ LoadedCoordinator.height \in 0..LoadedBridge.height
         /\ LoadedCoordinator.last_settled \in 0..LoadedCoordinator.height
         /\ AggregateBy(LoadedCoordinator.current, LoadedCoordinator.height)
         /\ LoadedCoordinator.last_refresh = LoadedCoordinator.current.at
         /\ ~torn /\ LoadedCoordinator.height = LoadedBridge.height
              => LoadedCoordinator.last_settled = LoadedBridge.funded
         /\ NodeFile(disk["coordinator"]) => LoadedCoordinator = disk["coordinator"]
  <1> USE CoordinatorAssumption
  <1>1. CASE disk["coordinator"] = Absent
    <2>1. LoadedCoordinator = NewNode
      BY <1>1 DEF LoadedCoordinator
    <2>2. NewNode.height = 0 /\ NewNode.last_refresh = -1 /\ NewNode.last_settled = 0
          /\ NewNode.current = NoAggregate
      BY DEF NewNode
    <2>3. ~NodeFile(disk["coordinator"])
      BY <1>1 DEF NodeFile, Absent
    <2> QED
      BY <2>1, <2>2, <2>3, BridgeLoaded DEF AggregateBy, NoAggregate, Heights
  <1>2. CASE NodeFile(disk["coordinator"])
    <2> DEFINE b == disk["bridge"]
               c == disk["coordinator"]
    <2>1. LoadedCoordinator = c
      BY <1>2 DEF LoadedCoordinator, NodeFile, Absent
    <2>2. c # Absent
      BY <1>2 DEF NodeFile, Absent
    <2>3. BridgeFile(b)
      BY <2>2 DEF DiskInv
    <2>4. LoadedBridge = b
      BY <2>3 DEF LoadedBridge, BridgeFile, Absent
    <2>5. c.height <= b.height /\ (~torn /\ c.height = b.height => c.last_settled = b.funded)
      BY <1>2, <2>3 DEF DiskInv
    <2>6. c.height \in Heights /\ b.height \in Heights /\ c.last_settled \in 0..c.height
          /\ AggregateBy(c.current, c.height) /\ c.last_refresh = c.current.at
      BY <1>2, <2>3 DEF NodeFile, BridgeFile
    <2> QED
      BY <2>1, <2>4, <2>5, <2>6 DEF Heights
  <1> QED
    BY <1>1, <1>2 DEF DiskInv

\* run_reth_devnet: a boot from files of one run goes on where it stopped.
LEMMA BootInv ==
  ASSUME CoordInv, Boot
  PROVE  CoordInv'
  <1> USE CoordinatorAssumption, OracleAssumption
  <1> USE DEF CoordInv
  <1>0. disk["bridge"] # Truncated /\ disk["coordinator"] # Truncated
    BY DEF Boot, DiskInv
  <1> DEFINE B == LoadedBridge
             C == LoadedCoordinator
  <1>1. /\ B.height \in Heights /\ B.funded \in 0..B.height
        /\ Seeded(B.accounts) \in [Heights -> Int] /\ EventsIn(Seeded(B.accounts), B.height)
    BY <1>0, BridgeLoaded
  <1>2. /\ C.height \in 0..B.height /\ C.last_settled \in 0..C.height
        /\ AggregateBy(C.current, C.height) /\ C.last_refresh = C.current.at
        /\ ~torn /\ C.height = B.height => C.last_settled = B.funded
        /\ NodeFile(disk["coordinator"]) => C = disk["coordinator"]
    BY <1>0, NodeLoaded
  <1>3. /\ height' = B.height /\ accounts' = Seeded(B.accounts) /\ funded' = B.funded
        /\ last_refresh' = C.last_refresh /\ last_settled' = C.last_settled
        /\ current' = C.current /\ cell' = NoPrice /\ applied' = {} /\ turn' = 1
        /\ phase' = "idle" /\ replay' = replay /\ disk' = disk
        /\ feeds' = [f \in Feeds |-> NoRecord]
    BY DEF Boot, ResumedHeight, RestoredClock
  <1>4. torn' = (torn \/ B.height # C.height)
    BY DEF Boot
  <1>5. publishers' \in [Feeds -> Keys]
    BY DEF Boot, RegisterPublishers
  <1> HIDE DEF B, C
  <1>6. AggregateBy(C.current, B.height) /\ C.last_refresh \in Heights \cup {-1}
        /\ AggregateBy(C.current, MaxHeight) /\ C.last_settled \in 0..B.height
    BY <1>1, <1>2 DEF AggregateBy, Heights, NoAggregate
  <1>7. \A f \in Feeds : feeds'[f] = NoRecord
    BY <1>3
  <1>8. feeds' \in [Feeds -> [price : Nat, ts : Int]]
    BY <1>3 DEF NoRecord
  <1>9. TypeInv'
    <2>1. replay' \in BOOLEAN /\ torn' \in BOOLEAN
      BY <1>3, <1>4 DEF TypeInv
    <2>2. height' \in Heights /\ funded' \in Heights /\ last_settled' \in Heights
          /\ last_refresh' \in Heights \cup {-1} /\ turn' \in 1..NumFeeds + 1 /\ cell' \in Nat
      BY <1>1, <1>3, <1>6 DEF Heights, NoPrice
    <2>3. AggregateBy(current', MaxHeight)
      BY <1>3, <1>6
    <2>4. publishers' \in [Feeds -> Keys \cup {NoKey}]
      BY <1>5
    <2> QED
      BY <1>1, <1>3, <1>7, <1>8, <2>1, <2>2, <2>3, <2>4 DEF TypeInv
  <1>10. DiskInv'
    <2>1. ~torn' => ~torn
      BY <1>4
    <2> QED
      BY <1>3, <2>1 DEF DiskInv, BridgeFile, NodeFile, EventsIn, AggregateBy
  <1>11. RunInv'
    <2>1. funded' \in 0..height' /\ last_settled' \in 0..height'
      BY <1>1, <1>3, <1>6
    <2>2. EventsIn(accounts, height)'
      BY <1>1, <1>3 DEF EventsIn
    <2>3. AggregateBy(current, height)' /\ last_refresh' = current'.at
      BY <1>2, <1>3, <1>6 DEF AggregateBy
    <2>4. \A f \in Feeds : feeds'[f].ts <= height'
      BY <1>1, <1>3, <1>7 DEF NoRecord, Heights
    <2>5. ~torn' => funded' = last_settled'
      BY <1>2, <1>3, <1>4
    <2>6. NodeFile(disk["coordinator"])' =>
            /\ disk'["coordinator"].height <= height'
            /\ ~torn' /\ disk'["coordinator"].height = height'
                 => disk'["coordinator"].last_settled = last_settled'
      <3>1. NodeFile(disk["coordinator"])' = NodeFile(disk["coordinator"])
        BY <1>3 DEF NodeFile, AggregateBy
      <3> QED
        BY <1>1, <1>2, <1>3, <3>1 DEF Heights
    <2> QED
      BY <1>3, <2>1, <2>2, <2>3, <2>4, <2>5, <2>6 DEF RunInv
  <1> QED
    BY <1>9, <1>10, <1>11

LEMMA RefuseInv ==
  ASSUME CoordInv, Refuse
  PROVE  CoordInv'
  <1> USE DEF CoordInv
  <1>1. TypeInv'
    <2>1. torn' \in BOOLEAN
      BY DEF Refuse
    <2> QED
      BY <2>1 DEF Refuse, TypeInv, oracleVars, bridgeVars, nodeVars, AggregateBy
  <1>2. DiskInv'
    <2>1. disk' = [file \in {"bridge", "coordinator"} |-> Absent]
      BY DEF Refuse, DiskInv
    <2> QED
      BY <2>1 DEF DiskInv, NodeFile, Absent
  <1>3. RunInv'
    BY DEF Refuse, RunInv
  <1> QED
    BY <1>1, <1>2, <1>3

LEMMA SeedFailsInv ==
  ASSUME CoordInv, SeedFails
  PROVE  CoordInv'
  <1> USE DEF CoordInv
  <1>1. TypeInv'
    BY DEF SeedFails, TypeInv, oracleVars, bridgeVars, nodeVars, AggregateBy
  <1>2. DiskInv'
    BY DiskKept DEF SeedFails
  <1>3. RunInv'
    BY DEF SeedFails, RunInv
  <1> QED
    BY <1>1, <1>2, <1>3

\* A block's events are applied once, at its height.
LEMMA CommitInv ==
  ASSUME CoordInv, Commit
  PROVE  CoordInv'
  <1> USE CoordinatorAssumption
  <1> USE DEF CoordInv
  <1> DEFINE h == height + 1
  <1>1. /\ phase = "idle" /\ height < MaxHeight /\ height' = h
        /\ replay' = replay /\ torn' = torn /\ disk' = disk
        /\ UNCHANGED <<feeds, publishers, current, funded, cell, last_refresh, last_settled, turn>>
        /\ phase' \in {"stopping", "ingest"}
    BY DEF Commit, oracleVars
  <1>2. height \in Heights /\ h \in Heights /\ height \in Nat /\ h = height + 1
    BY <1>1 DEF TypeInv, Heights
  <1>3. /\ accounts' = IF Applies(h) THEN [accounts EXCEPT ![h] = @ + EventsRun(h)] ELSE accounts
        /\ applied' = IF Applies(h) THEN applied \cup {h} ELSE applied
    BY DEF Commit
  <1> HIDE DEF h
  <1>4. accounts \in [Heights -> Int] /\ EventsIn(accounts, height) /\ applied \subseteq 1..height
    BY <1>1 DEF TypeInv, RunInv
  <1>5. accounts[h] = 0 /\ h \notin applied /\ h # 0
    BY <1>2, <1>4 DEF EventsIn
  <1>6. EventsOf(h) \in Int /\ EventsRun(h) \in Int
    BY DEF EventsOf, EventsRun
  <1>7. accounts' \in [Heights -> Int]
    BY <1>2, <1>3, <1>4, <1>6
  <1>8. EventsIn(accounts, height)'
    <2> SUFFICES ASSUME NEW g \in Heights
                 PROVE  accounts'[g] = IF g = 0 THEN IF replay THEN 0 ELSE 1
                                       ELSE IF replay /\ g <= h /\ g # BadHeight
                                            THEN EventsOf(g) ELSE 0
      BY <1>1 DEF EventsIn
    <2>1. accounts[g] = IF g = 0 THEN IF replay THEN 0 ELSE 1
                        ELSE IF replay /\ g <= height /\ g # BadHeight
                             THEN EventsOf(g) ELSE 0
      BY <1>4 DEF EventsIn
    <2>2. CASE g # h
      <3>1. accounts'[g] = accounts[g]
        BY <1>3, <1>4, <2>2
      <3>2. g <= h <=> g <= height
        BY <1>2, <2>2 DEF Heights
      <3> QED
        BY <2>1, <3>1, <3>2
    <2>3. CASE g = h
      <3>1. g # 0 /\ g <= h
        BY <1>2, <1>5, <2>3
      <3>2. CASE Applies(h)
        <4>1. accounts'[g] = EventsRun(h)
          BY <1>3, <1>4, <1>5, <1>6, <2>3, <3>2
        <4>2. EventsRun(h) = IF h # BadHeight THEN EventsOf(h) ELSE 0
          BY DEF EventsRun
        <4>3. replay
          BY <3>2 DEF Applies
        <4> QED
          BY <2>3, <3>1, <4>1, <4>2, <4>3
      <3>3. CASE ~Applies(h)
        <4>1. accounts'[g] = 0
          BY <1>3, <1>5, <2>3, <3>3
        <4>2. ~replay \/ EventsOf(h) = 0
          BY <1>5, <3>3 DEF Applies, EventsOf
        <4> QED
          BY <2>3, <3>1, <4>1, <4>2
      <3> QED
        BY <3>2, <3>3
    <2> QED
      BY <2>2, <2>3
  <1>9. applied' \subseteq 1..height'
    BY <1>1, <1>2, <1>3, <1>4
  <1>10. TypeInv'
    BY <1>1, <1>2, <1>7 DEF TypeInv, AggregateBy
  <1>11. DiskInv'
    BY <1>1, DiskKept
  <1>12. RunInv'
    <2>1. funded \in 0..height /\ last_settled \in 0..height /\ current.at <= height
          /\ current.at \in Int
      BY <1>1, <1>2 DEF RunInv, AggregateBy, NoAggregate
    <2>2. funded' \in 0..height' /\ last_settled' \in 0..height' /\ current'.at < height'
          /\ funded' < height' /\ last_settled' < height'
      BY <1>1, <1>2, <2>1
    <2>3. AggregateBy(current, height)' /\ last_refresh' = current'.at
      BY <1>1, <1>2 DEF RunInv, AggregateBy
    <2>4. \A f \in Feeds : feeds'[f].ts <= height'
      <3>1. \A f \in Feeds : feeds[f].ts \in Int /\ feeds[f].ts <= height
        BY <1>1 DEF RunInv, TypeInv
      <3> QED
        BY <1>1, <1>2, <3>1
    <2>5. ~torn' => funded' = last_settled'
      BY <1>1 DEF RunInv
    <2>6. NodeFile(disk["coordinator"])' => disk'["coordinator"].height < height'
      <3>1. NodeFile(disk["coordinator"])' = NodeFile(disk["coordinator"])
        BY <1>1 DEF NodeFile, AggregateBy
      <3>2. NodeFile(disk["coordinator"]) =>
              disk["coordinator"].height \in Int /\ disk["coordinator"].height <= height
        BY <1>1 DEF RunInv, NodeFile, Heights
      <3> QED
        BY <1>1, <1>2, <3>1, <3>2
    <2>7. NodeFile(disk["coordinator"])' =>
            disk'["coordinator"].height <= height' /\ disk'["coordinator"].height # height'
      BY <1>1, <1>2, <2>6 DEF NodeFile, Heights
    <2>8. phase' \notin {"saved1", "save2"}
      BY <1>1
    <2> QED
      BY <1>8, <1>9, <2>2, <2>3, <2>4, <2>5, <2>6, <2>7, <2>8 DEF RunInv
  <1> QED
    BY <1>10, <1>11, <1>12

\* An observation is stored only if it is not from the future.
LEMMA IngestInv ==
  ASSUME CoordInv, Ingest
  PROVE  CoordInv'
  <1> USE CoordinatorAssumption, OracleAssumption
  <1> USE DEF CoordInv
  <1>1. /\ phase = "ingest" /\ turn \in Feeds /\ turn' = turn + 1
        /\ UNCHANGED <<publishers, current, phase, replay, height, accounts, funded, filled,
                       begun, cell, last_refresh, last_settled, applied, disk, torn>>
    BY DEF Ingest, bridgeVars, nodeVars
  <1>2. PICK obs \in Observations : IngestSigned(obs, height)
    BY DEF Ingest
  <1>3. /\ obs.feed = turn /\ obs.price \in Prices \cup {0}
        /\ obs.ts \in {height - 1, height, height + 1}
    BY <1>2 DEF Observations
  <1>4. height \in Nat /\ height <= MaxHeight /\ height > 0
    <2>1. height \in Heights /\ funded \in Heights /\ funded < height
      BY <1>1 DEF TypeInv, RunInv
    <2> QED
      BY <2>1 DEF Heights
  <1>5. \/ feeds' = feeds
        \/ /\ feeds' = [feeds EXCEPT ![turn] = [price |-> obs.price, ts |-> obs.ts]]
           /\ obs.price \in Prices \ {0} /\ obs.price \in Nat
           /\ obs.ts \in 0..height /\ obs.ts \in Int
    <2>1. CASE Verified(obs) /\ Valid(obs, height)
      <3>1. obs.ts <= height /\ obs.price # 0
        BY <2>1 DEF Valid
      <3>2. obs.ts \in 0..height
        BY <1>3, <1>4, <3>1
      <3>3. feeds' = [feeds EXCEPT ![obs.feed] = [price |-> obs.price, ts |-> obs.ts]]
        BY <1>2, <2>1 DEF IngestSigned
      <3>4. obs.price \in Prices \ {0}
        BY <1>3, <3>1
      <3>5. obs.price \in Nat
        BY <3>4
      <3>6. obs.ts \in Int
        BY <1>4, <3>2
      <3> QED
        BY <1>3, <3>2, <3>3, <3>4, <3>5, <3>6
    <2>2. CASE ~(Verified(obs) /\ Valid(obs, height))
      BY <1>2, <2>2 DEF IngestSigned
    <2> QED
      BY <2>1, <2>2
  <1>6. feeds \in [Feeds -> [price : Nat, ts : Int]]
        /\ \A f \in Feeds : feeds[f] = NoRecord
                             \/ (feeds[f].price \in Prices \ {0} /\ feeds[f].ts \in Heights)
    BY DEF TypeInv
  <1>7. feeds' \in [Feeds -> [price : Nat, ts : Int]]
    BY <1>1, <1>5, <1>6
  <1>8. \A f \in Feeds : feeds'[f] = NoRecord
                          \/ (feeds'[f].price \in Prices \ {0} /\ feeds'[f].ts \in Heights)
    <2> SUFFICES ASSUME NEW f \in Feeds
                 PROVE  feeds'[f] = NoRecord
                         \/ (feeds'[f].price \in Prices \ {0} /\ feeds'[f].ts \in Heights)
      OBVIOUS
    <2>1. CASE feeds'[f] = feeds[f]
      BY <1>6, <2>1
    <2>2. CASE feeds'[f] # feeds[f]
      <3>1. feeds'[f] = [price |-> obs.price, ts |-> obs.ts] /\ obs.ts \in 0..height
            /\ obs.price \in Prices \ {0}
        BY <1>1, <1>5, <1>6, <2>2
      <3> QED
        BY <1>4, <3>1 DEF Heights
    <2> QED
      BY <2>1, <2>2
  <1>9. \A f \in Feeds : feeds'[f].ts <= height
    <2>1. \A f \in Feeds : feeds[f].ts <= height
      BY <1>1 DEF RunInv
    <2> QED
      BY <1>1, <1>4, <1>5, <1>6, <2>1
  <1>10. turn' \in 1..NumFeeds + 1
    BY <1>1 DEF Feeds
  <1>11. TypeInv'
    BY <1>1, <1>7, <1>8, <1>10 DEF TypeInv, AggregateBy
  <1>12. DiskInv'
    BY <1>1, DiskKept
  <1>13. RunInv'
    BY <1>1, <1>9 DEF RunInv, EventsIn, AggregateBy, NodeFile
  <1> QED
    BY <1>11, <1>12, <1>13

\* What a tick leaves: the aggregate is the one before, or a new one of this
\* block; a settlement is of this block.
LEMMA TickParts ==
  ASSUME CoordInv, Tick
  PROVE  /\ phase = "ingest" /\ phase' = "idle" /\ turn' = 1
         /\ UNCHANGED <<feeds, publishers, replay, height, accounts, applied, disk, torn>>
         /\ \/ /\ current' = current /\ last_refresh' = last_refresh
               /\ RefreshDue(height) => AggregateIndex(Fresh(height)) = NoPrice
            \/ /\ AggregateIndex(Fresh(height)) \in Nat \ {0}
               /\ current' = [index |-> AggregateIndex(Fresh(height)), at |-> height]
               /\ last_refresh' = height
         /\ \/ last_settled' = last_settled /\ funded' = funded
            \/ /\ last_settled' = height /\ funded' = height
               /\ height >= last_settled + FundingInterval
         /\ cell' = PriceFreshAt(current', height)
  <1>1. /\ phase = "ingest" /\ phase' = "idle" /\ turn' = 1
        /\ UNCHANGED <<feeds, publishers, replay, height, accounts, applied, disk, torn>>
        /\ cell' = PriceFreshAt(current', height)
    BY DEF Tick, Pushed
  <1>2. \/ last_settled' = last_settled /\ funded' = funded
        \/ /\ last_settled' = height /\ funded' = height
           /\ height >= last_settled + FundingInterval
    BY DEF Tick
  <1>3. CASE ~RefreshDue(height)
    <2>1. current' = current /\ last_refresh' = last_refresh
      BY <1>3 DEF Tick
    <2> QED
      BY <1>1, <1>2, <1>3, <2>1
  <1>4. CASE RefreshDue(height)
    <2>1. current' = Refreshed(height) /\ last_refresh' = RefreshMarker(height)
      BY <1>4 DEF Tick
    <2>2. CASE AggregateIndex(Fresh(height)) = NoPrice
      <3>1. current' = current /\ last_refresh' = last_refresh
        BY <2>1, <2>2 DEF Refreshed, RefreshMarker
      <3> QED
        BY <1>1, <1>2, <2>2, <3>1
    <2>3. CASE AggregateIndex(Fresh(height)) # NoPrice
      <3>1. AggregateIndex(Fresh(height)) \in Nat \ {0}
        BY <2>3, FreshPriced, AggregateNearMajority DEF CoordInv
      <3>2. current' = [index |-> AggregateIndex(Fresh(height)), at |-> height]
            /\ last_refresh' = height
        BY <2>1, <2>3 DEF Refreshed, RefreshMarker
      <3> QED
        BY <1>1, <1>2, <3>1, <3>2
    <2> QED
      BY <2>2, <2>3
  <1> QED
    BY <1>3, <1>4

LEMMA TickInv ==
  ASSUME CoordInv, Tick
  PROVE  CoordInv'
  <1> USE CoordinatorAssumption, OracleAssumption
  <1> USE DEF CoordInv
  <1>1. /\ phase = "ingest" /\ phase' = "idle" /\ turn' = 1
        /\ UNCHANGED <<feeds, publishers, replay, height, accounts, applied, disk, torn>>
        /\ cell' = PriceFreshAt(current', height)
    BY TickParts
  <1>2. height \in Heights /\ height \in Nat /\ height <= MaxHeight
    BY DEF TypeInv, Heights
  <1>3. AggregateBy(current', height) /\ last_refresh' = current'.at
    <2>1. AggregateBy(current, height) /\ last_refresh = current.at
      BY <1>1 DEF RunInv
    <2>2. CASE current' = current /\ last_refresh' = last_refresh
      BY <2>1, <2>2 DEF AggregateBy
    <2>3. CASE /\ AggregateIndex(Fresh(height)) \in Nat \ {0}
               /\ current' = [index |-> AggregateIndex(Fresh(height)), at |-> height]
               /\ last_refresh' = height
      <3>1. current'.index \in Nat \ {0} /\ current'.at = height
        BY <2>3
      <3> QED
        BY <1>2, <2>3, <3>1 DEF AggregateBy
    <2> QED
      BY <2>2, <2>3, TickParts
  <1>4. /\ funded' \in 0..height /\ last_settled' \in 0..height
        /\ ~torn => funded' = last_settled'
    <2>1. /\ funded \in 0..height /\ last_settled \in 0..height
          /\ ~torn => funded = last_settled
      BY <1>1 DEF RunInv
    <2> QED
      BY <1>2, <2>1, TickParts
  <1>5. /\ last_refresh' \in Heights \cup {-1} /\ AggregateBy(current', MaxHeight)
        /\ cell' \in Nat
    BY <1>1, <1>2, <1>3 DEF AggregateBy, NoAggregate, Heights, PriceFreshAt, NoPrice
  <1>6. TypeInv'
    <2>1. funded' \in Heights /\ last_settled' \in Heights /\ turn' \in 1..NumFeeds + 1
      BY <1>1, <1>2, <1>4 DEF Heights
    <2> QED
      BY <1>1, <1>5, <2>1 DEF TypeInv, AggregateBy
  <1>7. DiskInv'
    BY <1>1, DiskKept
  <1>8. RunInv'
    <2>1. NodeFile(disk["coordinator"])' = NodeFile(disk["coordinator"])
      BY <1>1 DEF NodeFile, AggregateBy
    <2>2. NodeFile(disk["coordinator"]) =>
            disk["coordinator"].height \in Int /\ disk["coordinator"].height < height
      BY <1>1 DEF RunInv, NodeFile, Heights
    <2>3. NodeFile(disk["coordinator"])' =>
            disk'["coordinator"].height <= height' /\ disk'["coordinator"].height # height'
      BY <1>1, <1>2, <2>1, <2>2
    <2>4. EventsIn(accounts, height)' /\ applied' \subseteq 1..height'
          /\ \A f \in Feeds : feeds'[f].ts <= height'
      BY <1>1 DEF RunInv, EventsIn
    <2>5. AggregateBy(current, height)' /\ last_refresh' = current'.at
      BY <1>1, <1>3 DEF AggregateBy
    <2>6. phase' \notin {"ingest", "saved1", "save2"}
      BY <1>1
    <2>7. funded' \in 0..height' /\ last_settled' \in 0..height'
          /\ (~torn' => funded' = last_settled')
      BY <1>1, <1>4
    <2> QED
      BY <2>3, <2>4, <2>5, <2>6, <2>7 DEF RunInv
  <1> QED
    BY <1>6, <1>7, <1>8

LEMMA EndRunInv ==
  ASSUME CoordInv, EndRun
  PROVE  CoordInv'
  <1> USE DEF CoordInv
  <1>1. TypeInv'
    BY DEF EndRun, TypeInv, oracleVars, bridgeVars, nodeVars, AggregateBy
  <1>2. DiskInv'
    BY DiskKept DEF EndRun
  <1>3. RunInv'
    BY DEF EndRun, RunInv, oracleVars, bridgeVars, nodeVars, EventsIn, AggregateBy, NodeFile
  <1> QED
    BY <1>1, <1>2, <1>3

\* The memory of a process that has ended.
LEMMA GoneTypes ==
  ASSUME CoordInv, Gone, torn' = torn, replay' = replay
  PROVE  TypeInv' /\ RunInv'
  <1> USE CoordinatorAssumption, OracleAssumption
  <1>1. feeds' = [f \in Feeds |-> NoRecord] /\ publishers' = [f \in Feeds |-> NoKey]
        /\ current' = NoAggregate /\ phase' = "down"
    BY DEF Gone
  <1>2. height' \in Heights /\ funded' \in Heights /\ last_settled' \in Heights
        /\ last_refresh' \in Heights \cup {-1} /\ turn' \in 1..NumFeeds + 1 /\ cell' \in Nat
    BY DEF Gone, Heights, NoPrice
  <1>3. accounts' \in [Heights -> Int]
    BY DEF Gone, EmptyBridge
  <1>4. feeds' \in [Feeds -> [price : Nat, ts : Int]] /\ \A f \in Feeds : feeds'[f] = NoRecord
    BY <1>1 DEF NoRecord
  <1>5. publishers' \in [Feeds -> Keys \cup {NoKey}] /\ AggregateBy(current, MaxHeight)'
    BY <1>1 DEF AggregateBy
  <1>6. torn' \in BOOLEAN /\ replay' \in BOOLEAN
    BY DEF CoordInv, TypeInv
  <1>7. TypeInv'
    BY <1>1, <1>2, <1>3, <1>4, <1>5, <1>6 DEF TypeInv
  <1>8. RunInv'
    BY <1>1 DEF RunInv
  <1> QED
    BY <1>7, <1>8

LEMMA CrashInv ==
  ASSUME CoordInv, Crash
  PROVE  CoordInv'
  <1>1. TypeInv' /\ RunInv'
    BY GoneTypes DEF Crash
  <1>2. DiskInv'
    BY DiskKept DEF Crash, CoordInv
  <1> QED
    BY <1>1, <1>2 DEF CoordInv

\* std::fs::write truncates: a file that is open cannot be read.
LEMMA OpenFileInv ==
  ASSUME CoordInv, NEW n \in 1..2, OpenFile(n)
  PROVE  CoordInv'
  <1> USE DEF CoordInv
  <1> DEFINE file == IF n = 1 THEN "bridge" ELSE "coordinator"
  <1>1. /\ phase = (IF n = 1 THEN "stopping" ELSE "saved1")
        /\ phase' = (IF n = 1 THEN "save1" ELSE "save2")
        /\ UNCHANGED <<feeds, publishers, current, replay, height, accounts, funded, filled,
                       begun, cell, last_refresh, last_settled, applied, turn, torn>>
    BY DEF OpenFile, oracleVars, bridgeVars, nodeVars
  <1>2. disk' = [disk EXCEPT ![file] = Truncated]
    <2>1. SaveOrder[n] = file
      BY DEF SaveOrder
    <2> QED
      BY <2>1 DEF OpenFile
  <1>3. TypeInv'
    BY <1>1 DEF TypeInv, AggregateBy
  <1>4. ~NodeFile(Truncated)' /\ ~BridgeFile(Truncated)' /\ Truncated # Absent
    BY DEF NodeFile, BridgeFile, Truncated, Absent
  <1>5. DOMAIN disk = {"bridge", "coordinator"}
    BY DEF DiskInv
  <1>6. CASE n = 1
    <2>1. disk'["bridge"] = Truncated /\ disk'["coordinator"] = disk["coordinator"]
          /\ DOMAIN disk' = {"bridge", "coordinator"}
      BY <1>2, <1>5, <1>6
    <2>2. NodeFile(disk["coordinator"])' = NodeFile(disk["coordinator"])
      BY <2>1 DEF NodeFile, AggregateBy
    <2>3. DiskInv'
      BY <1>4, <2>1, <2>2 DEF DiskInv
    <2>4. RunInv'
      BY <1>1, <1>6, <2>1, <2>2 DEF RunInv, EventsIn, AggregateBy
    <2> QED
      BY <1>3, <2>3, <2>4
  <1>7. CASE n = 2
    <2>1. disk'["bridge"] = disk["bridge"] /\ disk'["coordinator"] = Truncated
          /\ DOMAIN disk' = {"bridge", "coordinator"}
      BY <1>2, <1>5, <1>7
    <2>2. BridgeFile(disk["bridge"])' = BridgeFile(disk["bridge"])
      BY <1>1, <2>1 DEF BridgeFile, EventsIn
    <2>3. disk["bridge"] = BridgeSnapshot
      BY <1>1, <1>7 DEF RunInv
    <2>4. disk["bridge"] # Absent
      BY <2>3 DEF BridgeSnapshot, Absent
    <2>5. DiskInv'
      BY <1>4, <2>1, <2>2, <2>4 DEF DiskInv
    <2>6. ~NodeFile(disk["coordinator"])'
      BY <2>1 DEF NodeFile, Truncated
    <2>7. BridgeSnapshot' = BridgeSnapshot
      BY <1>1 DEF BridgeSnapshot
    <2>8. RunInv'
      BY <1>1, <1>7, <2>1, <2>3, <2>6, <2>7 DEF RunInv, EventsIn, AggregateBy
    <2> QED
      BY <1>3, <2>5, <2>8
  <1> QED
    BY <1>6, <1>7

\* The files that a run writes.
LEMMA SnapshotsAreFiles ==
  ASSUME CoordInv, phase # "down"
  PROVE  BridgeFile(BridgeSnapshot) /\ NodeFile(CoordinatorSnapshot)
  <1>1. BridgeFile(BridgeSnapshot)
    BY DEF CoordInv, TypeInv, RunInv, BridgeFile, BridgeSnapshot
  <1>2. NodeFile(CoordinatorSnapshot)
    BY DEF CoordInv, TypeInv, RunInv, NodeFile, CoordinatorSnapshot
  <1> QED
    BY <1>1, <1>2

\* The coordinator's file is written after the bridge's, by the same run.
LEMMA WriteFileInv ==
  ASSUME CoordInv, NEW n \in 1..2, WriteFile(n)
  PROVE  CoordInv'
  <1> USE DEF CoordInv
  <1>1. BridgeFile(BridgeSnapshot) /\ NodeFile(CoordinatorSnapshot)
    BY SnapshotsAreFiles DEF WriteFile
  <1>2. DOMAIN disk = {"bridge", "coordinator"}
    BY DEF DiskInv
  <1>3. torn' = torn /\ replay' = replay
    BY DEF WriteFile
  <1>4. ~NodeFile(Truncated) /\ ~BridgeFile(Truncated) /\ Truncated # Absent
        /\ ~NodeFile(Absent) /\ ~BridgeFile(Absent)
    BY DEF NodeFile, BridgeFile, Truncated, Absent
  <1>5. CASE n = 1
    <2>1. /\ phase = "save1" /\ phase' = "saved1"
          /\ UNCHANGED <<feeds, publishers, current, replay, height, accounts, funded, filled,
                         begun, cell, last_refresh, last_settled, applied, turn, torn>>
      BY <1>3, <1>5 DEF WriteFile, oracleVars, bridgeVars, nodeVars
    <2>2. disk'["bridge"] = BridgeSnapshot /\ disk'["coordinator"] = disk["coordinator"]
          /\ DOMAIN disk' = {"bridge", "coordinator"}
      BY <1>2, <1>5 DEF WriteFile, SaveOrder, SnapshotOf
    <2>3. NodeFile(disk["coordinator"])' = NodeFile(disk["coordinator"])
      BY <2>2 DEF NodeFile, AggregateBy
    <2>4. BridgeFile(disk["bridge"])' = BridgeFile(BridgeSnapshot)
      BY <2>1, <2>2 DEF BridgeFile, EventsIn
    <2>5. BridgeSnapshot' = BridgeSnapshot
      BY <2>1 DEF BridgeSnapshot
    <2>6. BridgeSnapshot.height = height /\ BridgeSnapshot.funded = funded
      BY DEF BridgeSnapshot
    <2>7. /\ ~torn => funded = last_settled
          /\ NodeFile(disk["coordinator"]) =>
               /\ disk["coordinator"].height <= height
               /\ ~torn /\ disk["coordinator"].height = height
                    => disk["coordinator"].last_settled = last_settled
      BY <2>1 DEF RunInv
    <2>8. DiskInv'
      <3>1. disk'["bridge"] # Absent
        BY <1>1, <1>4, <2>2
      <3>2. disk'["coordinator"] \in {Absent, Truncated} \/ NodeFile(disk["coordinator"])'
        BY <2>2, <2>3 DEF DiskInv
      <3>3. BridgeFile(disk["bridge"])'
        BY <1>1, <2>4
      <3>4. NodeFile(disk["coordinator"])' =>
              /\ disk'["coordinator"].height <= disk'["bridge"].height
              /\ ~torn' /\ disk'["coordinator"].height = disk'["bridge"].height
                   => disk'["coordinator"].last_settled = disk'["bridge"].funded
        BY <1>3, <2>2, <2>3, <2>6, <2>7
      <3> QED
        BY <2>2, <3>1, <3>2, <3>3, <3>4 DEF DiskInv
    <2>9. RunInv'
      BY <2>1, <2>2, <2>3, <2>5 DEF RunInv, EventsIn, AggregateBy
    <2>10. TypeInv'
      BY <2>1 DEF TypeInv, AggregateBy
    <2> QED
      BY <2>8, <2>9, <2>10
  <1>6. CASE n = 2
    <2>1. phase = "save2" /\ Gone
      BY <1>6 DEF WriteFile
    <2>2. TypeInv' /\ RunInv'
      BY <1>3, <2>1, GoneTypes
    <2>3. disk["bridge"] = BridgeSnapshot
      BY <2>1 DEF RunInv
    <2>4. disk'["bridge"] = BridgeSnapshot /\ disk'["coordinator"] = CoordinatorSnapshot
          /\ DOMAIN disk' = {"bridge", "coordinator"}
      BY <1>2, <1>6, <2>3 DEF WriteFile, SaveOrder, SnapshotOf
    <2>5. BridgeFile(disk["bridge"])'
      BY <1>1, <1>3, <2>4 DEF BridgeFile, EventsIn
    <2>6. NodeFile(disk["coordinator"])'
      BY <1>1, <2>4 DEF NodeFile, AggregateBy
    <2>7. /\ BridgeSnapshot.height = height /\ CoordinatorSnapshot.height = height
          /\ BridgeSnapshot.funded = funded /\ CoordinatorSnapshot.last_settled = last_settled
          /\ height \in Int
      BY DEF BridgeSnapshot, CoordinatorSnapshot, TypeInv, Heights
    <2>8. ~torn => funded = last_settled
      BY <2>1 DEF RunInv
    <2>9. disk'["bridge"] # Absent
      BY <1>1, <1>4, <2>4
    <2>10. /\ disk'["coordinator"].height <= disk'["bridge"].height
           /\ ~torn' => disk'["coordinator"].last_settled = disk'["bridge"].funded
      BY <1>3, <2>4, <2>7, <2>8
    <2>11. DiskInv'
      BY <2>4, <2>5, <2>6, <2>9, <2>10 DEF DiskInv
    <2> QED
      BY <2>2, <2>11
  <1> QED
    BY <1>5, <1>6

LEMMA CoordInvHolds == CoordSpec => []CoordInv
  <1>1. CoordInit => CoordInv
    BY CoordInitInv
  <1>2. CoordInv /\ [CoordNext]_coordVars => CoordInv'
    <2> SUFFICES ASSUME CoordInv, [CoordNext]_coordVars
                 PROVE  CoordInv'
      OBVIOUS
    <2>1. CASE UNCHANGED coordVars
      <3> USE <2>1 DEF CoordInv, coordVars, oracleVars, bridgeVars, nodeVars
      <3>1. TypeInv'
        BY DEF TypeInv, AggregateBy
      <3>2. DiskInv'
        BY DiskKept
      <3>3. RunInv'
        BY DEF RunInv, EventsIn, AggregateBy, NodeFile, BridgeSnapshot
      <3> QED
        BY <3>1, <3>2, <3>3
    <2> QED
      BY <2>1, BootInv, RefuseInv, SeedFailsInv, CommitInv, IngestInv, TickInv, EndRunInv,
         CrashInv, OpenFileInv, WriteFileInv DEF CoordNext
  <1> QED
    BY <1>1, <1>2, PTL DEF CoordSpec

-----------------------------------------------------------------------------
(* The fills, of which the orders of the other side rest in memory only.   *)

\* The fills of the first n blocks, of a chain made by processes that began
\* at the heights of bg.
FillsIn(fl, bg, n) ==
  /\ bg \subseteq 0..n
  /\ \A p \in fl : replay /\ p \in Matches /\ p[2] <= n
  /\ replay => \A p \in Matches :
       p[2] <= n => p \in fl \/ \E r \in bg : p[1] <= r /\ r < p[2]

\* No order that may take the one of block m was made up to block n.
Untaken(m, n) == \A x \in TakerHeights : x <= m \/ x > n

\* What rests: the orders nobody has taken, all of them if none was lost.
OnBook ==
  /\ \A m \in book : replay /\ m \in MakerHeights /\ m <= height /\ Untaken(m, height)
  /\ replay => \A m \in MakerHeights :
       m <= height /\ Untaken(m, height) => m \in book \/ \E r \in begun : m <= r

BookInv ==
  LET b == disk["bridge"]
  IN /\ b.kind = "snapshot" => FillsIn(b.filled, b.begun, b.height)
     /\ phase # "down" => FillsIn(filled, begun, height) /\ OnBook

LEMMA HistoryIsPositive ==
  /\ \A m \in MakerHeights : m \in Nat \ {0}
  /\ \A t \in TakerHeights : t \in Nat \ {0} /\ t \in HistoryHeights /\ t \notin MakerHeights
  /\ \A h \in HistoryHeights : h \in MakerHeights \/ h \in TakerHeights
  BY CoordinatorAssumption DEF TakerHeights

LEMMA MatchesAre ==
  ASSUME NEW p
  PROVE  /\ p \in Matches =>
              /\ p[1] \in MakerHeights /\ p[2] \in TakerHeights /\ p = <<p[1], p[2]>>
              /\ p[1] < p[2] /\ \A x \in TakerHeights : x <= p[1] \/ x >= p[2]
         /\ \A m \in MakerHeights, t \in TakerHeights :
              m < t /\ (\A x \in TakerHeights : x <= m \/ x >= t) => <<m, t>> \in Matches
  BY DEF Matches

\* A boot goes on with the fills of the file and without its orders.
LEMMA BootBook ==
  ASSUME CoordInv, BookInv, Boot
  PROVE  BookInv'
  <1> DEFINE B == LoadedBridge
  <1>1. /\ height' = B.height /\ filled' = B.filled /\ begun' = B.begun \cup {B.height}
        /\ book' = {} /\ replay' = replay /\ disk' = disk
    BY DEF Boot, ResumedHeight
  <1>2. disk["bridge"] # Truncated
    BY DEF Boot, CoordInv, DiskInv
  <1>3. B.height \in Nat
    BY <1>2, BridgeLoaded DEF CoordInv, Heights
  <1>4. FillsIn(B.filled, B.begun, B.height)
    <2>1. CASE disk["bridge"] = Absent
      <3>1. B.height = 0 /\ B.filled = {} /\ B.begun = {}
        BY <2>1 DEF LoadedBridge, EmptyBridge
      <3>2. \A p \in Matches : ~(p[2] <= 0)
        BY HistoryIsPositive, MatchesAre
      <3> QED
        BY <3>1, <3>2 DEF FillsIn
    <2>2. CASE BridgeFile(disk["bridge"])
      <3>1. B = disk["bridge"] /\ disk["bridge"].kind = "snapshot"
        BY <2>2 DEF LoadedBridge, BridgeFile, Absent
      <3> QED
        BY <3>1 DEF BookInv
    <2> QED
      BY <1>2, <2>1, <2>2 DEF CoordInv, DiskInv
  <1> HIDE DEF B
  <1>5. FillsIn(filled, begun, height)'
    BY <1>1, <1>3, <1>4 DEF FillsIn
  <1>6. OnBook'
    BY <1>1, <1>3, HistoryIsPositive DEF OnBook
  <1>7. disk'["bridge"].kind = "snapshot" =>
          FillsIn(disk["bridge"].filled, disk["bridge"].begun, disk["bridge"].height)'
    BY <1>1 DEF BookInv, FillsIn
  <1> QED
    BY <1>5, <1>6, <1>7 DEF BookInv

\* A block's taker takes what rests; what it misses was lost at a boot.
LEMMA CommitBook ==
  ASSUME CoordInv, BookInv, Commit
  PROVE  BookInv'
  <1> DEFINE h == height + 1
  <1>1. /\ phase = "idle" /\ height' = h /\ replay' = replay /\ disk' = disk /\ begun' = begun
        /\ filled' = IF Applies(h) THEN filled \cup FillsOf(h) ELSE filled
        /\ book' = IF Applies(h) THEN BookAfter(h) ELSE book
    BY DEF Commit
  <1>2. height \in Nat /\ h = height + 1
    BY CoordinatorAssumption DEF CoordInv, TypeInv, Heights
  <1>3. FillsIn(filled, begun, height) /\ OnBook
    BY <1>1 DEF BookInv
  <1>4. Applies(h) <=> replay /\ h \in HistoryHeights
    <2>1. applied \subseteq 1..height
      BY <1>1 DEF CoordInv, RunInv
    <2> QED
      BY <1>2, <2>1 DEF Applies, EventsOf
  <1> HIDE DEF h
  <1>5. \A m \in MakerHeights \cup TakerHeights : m \in Nat
    BY HistoryIsPositive
  <1>6. \A r \in begun : r \in Nat /\ r <= height /\ r < h
    BY <1>2, <1>3 DEF FillsIn
  <1>7. begun' \subseteq 0..height'
    BY <1>1, <1>2, <1>6
  <1>8. ASSUME NEW p \in filled'
        PROVE  replay /\ p \in Matches /\ p[2] <= h
    <2>1. CASE p \in filled
      <3>1. replay /\ p \in Matches /\ p[2] <= height
        BY <1>3, <2>1 DEF FillsIn
      <3>2. p[2] \in Nat
        BY <3>1, <1>5, MatchesAre
      <3> QED
        BY <1>2, <3>1, <3>2
    <2>2. CASE p \notin filled
      <3>1. Applies(h) /\ p \in FillsOf(h)
        BY <1>1, <2>2
      <3>2. h \notin MakerHeights
        BY <3>1 DEF FillsOf
      <3>3. PICK m \in book : p = <<m, h>>
        BY <3>1, <3>2 DEF FillsOf
      <3>4. replay /\ m \in MakerHeights /\ m <= height /\ Untaken(m, height)
        BY <1>3 DEF OnBook
      <3>5. h \in TakerHeights
        BY <1>4, <3>1, <3>2, HistoryIsPositive
      <3>6. m < h /\ \A x \in TakerHeights : x <= m \/ x >= h
        BY <1>2, <1>5, <3>4 DEF Untaken
      <3>7. <<m, h>> \in Matches
        BY <3>4, <3>5, <3>6, MatchesAre
      <3> QED
        BY <1>2, <3>3, <3>4, <3>7
    <2> QED
      BY <2>1, <2>2
  <1>9. ASSUME replay, NEW p \in Matches, p[2] <= h
        PROVE  p \in filled' \/ \E r \in begun : p[1] <= r /\ r < p[2]
    <2>1. /\ p[1] \in MakerHeights /\ p[2] \in TakerHeights /\ p = <<p[1], p[2]>>
          /\ p[1] < p[2] /\ \A x \in TakerHeights : x <= p[1] \/ x >= p[2]
      BY MatchesAre
    <2>2. p[1] \in Nat /\ p[2] \in Nat
      BY <1>5, <2>1
    <2>3. CASE p[2] # h
      <3>1. p[2] <= height
        BY <1>2, <1>9, <2>2, <2>3
      <3>2. p \in filled \/ \E r \in begun : p[1] <= r /\ r < p[2]
        BY <1>3, <1>9, <3>1 DEF FillsIn
      <3> QED
        BY <1>1, <3>2
    <2>4. CASE p[2] = h
      <3>1. Applies(h) /\ h \notin MakerHeights
        BY <1>4, <1>9, <2>1, <2>4, HistoryIsPositive
      <3>2. p[1] <= height /\ Untaken(p[1], height)
        BY <1>2, <1>5, <2>1, <2>2, <2>4 DEF Untaken
      <3>3. p[1] \in book \/ \E r \in begun : p[1] <= r
        BY <1>3, <1>9, <2>1, <3>2 DEF OnBook
      <3>4. p[1] \in book => p \in FillsOf(h)
        BY <2>1, <2>4, <3>1 DEF FillsOf
      <3>5. (\E r \in begun : p[1] <= r) => \E r \in begun : p[1] <= r /\ r < p[2]
        BY <1>6, <2>4
      <3> QED
        BY <1>1, <3>1, <3>3, <3>4, <3>5
    <2> QED
      BY <2>3, <2>4
  <1>10. FillsIn(filled, begun, height)'
    <2>1. Matches' = Matches
      BY DEF Matches, TakerHeights
    <2> QED
      BY <1>1, <1>7, <1>8, <1>9, <2>1 DEF FillsIn
  <1>11. ASSUME NEW m \in book'
         PROVE  replay /\ m \in MakerHeights /\ m <= h /\ Untaken(m, h)
    <2>1. CASE m = h /\ Applies(h) /\ h \in MakerHeights
      <3>1. Untaken(h, h) /\ h <= h
        BY <1>2, <1>5 DEF Untaken
      <3> QED
        BY <1>4, <2>1, <3>1
    <2>2. CASE ~(m = h /\ Applies(h) /\ h \in MakerHeights)
      <3>1. m \in book /\ (Applies(h) => h \in MakerHeights)
        BY <1>1, <2>2 DEF BookAfter
      <3>2. replay /\ m \in MakerHeights /\ m <= height /\ Untaken(m, height)
        BY <1>3, <3>1 DEF OnBook
      <3>3. h \notin TakerHeights
        BY <1>4, <3>1, <3>2, HistoryIsPositive
      <3>4. Untaken(m, h)
        BY <1>2, <1>5, <3>2, <3>3 DEF Untaken
      <3> QED
        BY <1>2, <1>5, <3>2, <3>4
    <2> QED
      BY <2>1, <2>2
  <1>12. ASSUME replay, NEW m \in MakerHeights, m <= h, Untaken(m, h)
         PROVE  m \in book' \/ \E r \in begun : m <= r
    <2>1. CASE m = h
      <3>1. Applies(h)
        BY <1>4, <1>12, <2>1, CoordinatorAssumption
      <3> QED
        BY <1>1, <2>1, <3>1 DEF BookAfter
    <2>2. CASE m # h
      <3>1. m <= height
        BY <1>2, <1>5, <1>12, <2>2
      <3>2. Untaken(m, height)
        BY <1>2, <1>5, <1>12 DEF Untaken
      <3>3. h \notin TakerHeights
        BY <1>2, <1>5, <1>12, <3>1 DEF Untaken
      <3>4. m \in book \/ \E r \in begun : m <= r
        BY <1>3, <1>12, <3>1, <3>2 DEF OnBook
      <3>5. Applies(h) => h \in MakerHeights
        BY <1>4, <3>3, HistoryIsPositive
      <3> QED
        BY <1>1, <3>4, <3>5 DEF BookAfter
    <2> QED
      BY <2>1, <2>2
  <1>13. OnBook'
    BY <1>1, <1>11, <1>12 DEF OnBook, Untaken, TakerHeights
  <1>14. disk'["bridge"].kind = "snapshot" =>
           FillsIn(disk["bridge"].filled, disk["bridge"].begun, disk["bridge"].height)'
    BY <1>1 DEF BookInv, FillsIn
  <1> QED
    BY <1>10, <1>13, <1>14 DEF BookInv

\* Steps that leave the chain, the fills and the bridge's file alone.
LEMMA BookKept ==
  ASSUME BookInv, phase # "down" \/ phase' = "down",
         UNCHANGED <<height, filled, book, begun, replay>>,
         disk'["bridge"].kind = "snapshot" => disk'["bridge"] = disk["bridge"]
  PROVE  BookInv'
  BY DEF BookInv, FillsIn, OnBook, Untaken

\* What is written is what the process had.
LEMMA WriteFileBook ==
  ASSUME CoordInv, BookInv, NEW n \in 1..2, WriteFile(n)
  PROVE  BookInv'
  <1>1. phase # "down" /\ replay' = replay /\ DOMAIN disk = {"bridge", "coordinator"}
    BY DEF WriteFile, CoordInv, DiskInv
  <1>2. FillsIn(filled, begun, height) /\ OnBook
    BY <1>1 DEF BookInv
  <1>3. disk'["bridge"] = BridgeSnapshot
    <2>1. CASE n = 1
      BY <1>1, <2>1 DEF WriteFile, SaveOrder, SnapshotOf
    <2>2. CASE n = 2
      <3>1. disk["bridge"] = BridgeSnapshot
        BY <2>2 DEF WriteFile, CoordInv, RunInv
      <3> QED
        BY <1>1, <2>2, <3>1 DEF WriteFile, SaveOrder, SnapshotOf
    <2> QED
      BY <2>1, <2>2
  <1>4. FillsIn(disk["bridge"].filled, disk["bridge"].begun, disk["bridge"].height)'
    <2>1. /\ disk'["bridge"].filled = filled /\ disk'["bridge"].begun = begun
          /\ disk'["bridge"].height = height
      BY <1>3 DEF BridgeSnapshot
    <2> QED
      BY <1>1, <1>2, <2>1 DEF FillsIn
  <1>5. phase' # "down" => FillsIn(filled, begun, height)' /\ OnBook'
    <2>1. phase' # "down" => UNCHANGED <<height, filled, book, begun>>
      BY DEF WriteFile, Gone, bridgeVars
    <2> QED
      BY <1>1, <1>2, <2>1 DEF FillsIn, OnBook, Untaken
  <1> QED
    BY <1>4, <1>5 DEF BookInv

LEMMA BookInvHolds == CoordSpec => []BookInv
  <1>1. CoordInit => BookInv
    BY DEF CoordInit, BookInv, Absent
  <1>2. CoordInv /\ BookInv /\ [CoordNext]_coordVars => BookInv'
    <2> SUFFICES ASSUME CoordInv, BookInv, [CoordNext]_coordVars
                 PROVE  BookInv'
      OBVIOUS
    <2>1. CASE UNCHANGED coordVars
      BY <2>1, BookKept DEF coordVars, bridgeVars
    <2>2. CASE Refuse \/ SeedFails
      BY <2>2, BookKept DEF Refuse, SeedFails, bridgeVars, Absent, CoordInv, DiskInv
    <2>3. CASE Ingest
      BY <2>3, BookKept DEF Ingest, bridgeVars
    <2>4. CASE Tick
      BY <2>4, BookKept DEF Tick
    <2>5. CASE EndRun
      BY <2>5, BookKept DEF EndRun, bridgeVars
    <2>6. CASE Crash
      BY <2>6 DEF Crash, Gone, BookInv, FillsIn
    <2>7. ASSUME NEW n \in 1..2, OpenFile(n) PROVE BookInv'
      <3>1. disk' = [disk EXCEPT ![SaveOrder[n]] = Truncated]
        BY <2>7 DEF OpenFile
      <3>2. disk'["bridge"].kind = "snapshot" => disk'["bridge"] = disk["bridge"]
        BY <3>1 DEF Truncated, CoordInv, DiskInv
      <3>3. UNCHANGED <<height, filled, book, begun, replay>> /\ phase # "down"
        BY <2>7 DEF OpenFile, bridgeVars
      <3> QED
        BY <3>2, <3>3, BookKept
    <2> QED
      BY <2>1, <2>2, <2>3, <2>4, <2>5, <2>6, <2>7, BootBook, CommitBook, WriteFileBook
      DEF CoordNext
  <1> QED
    BY <1>1, <1>2, CoordInvHolds, PTL DEF CoordSpec

-----------------------------------------------------------------------------
(* The properties.                                                         *)

\* No cached price, observation or settlement is later than the chain's
\* head, whatever the process was doing when it stopped, and the state keeps
\* its types: the coordinator's file is never newer than the bridge's
\* (main.rs, load_snapshot).
THEOREM CoordNothingFromTheFuture == CoordSpec => []NothingFromTheFuture
  <1>1. CoordInv => NothingFromTheFuture
    <2> SUFFICES ASSUME CoordInv PROVE NothingFromTheFuture
      OBVIOUS
    <2> USE CoordinatorAssumption DEF CoordInv
    <2>1. CoordTypeOK
      BY DEF CoordTypeOK, TypeInv, AggregateBy, Heights
    <2>2. ASSUME phase \in {"idle", "ingest"}
          PROVE  /\ current.at <= height /\ last_refresh <= height /\ last_settled <= height
                 /\ \A f \in Feeds : feeds[f].ts <= height
      <3>1. height \in Nat
        BY DEF TypeInv, Heights
      <3>2. AggregateBy(current, height) /\ last_refresh = current.at
            /\ last_settled \in 0..height /\ \A f \in Feeds : feeds[f].ts <= height
        BY <2>2 DEF RunInv
      <3> QED
        BY <3>1, <3>2 DEF AggregateBy, NoAggregate
    <2> QED
      BY <2>1, <2>2 DEF NothingFromTheFuture
  <1> QED
    BY <1>1, CoordInvHolds, PTL

\* Through any stops and boots the accounts have the deposits of every block
\* once, except of a block with a malformed trade, and the seed once; they
\* have no fill a run without stops would not make, and lack one only if a
\* process began between the order that rested and the one that takes it
\* (apply_for_height, accounts_already_loaded, BridgeSnapshot).
THEOREM CoordEventsOnce == CoordSpec => []EventsOnce
  <1>1. CoordInv /\ BookInv => EventsOnce
    <2> SUFFICES ASSUME CoordInv, BookInv, phase = "idle"
                 PROVE  EventsOnce
      BY DEF EventsOnce
    <2>1. EventsIn(accounts, height)
      BY DEF CoordInv, RunInv
    <2>2. FillsIn(filled, begun, height)
      BY DEF BookInv
    <2> QED
      BY <2>1, <2>2 DEF EventsIn, FillsIn, EventsOnce, BookLost
  <1> QED
    BY <1>1, CoordInvHolds, BookInvHolds, PTL

\* Settlements on the accounts are at least the funding interval apart,
\* through stops and restarts, unless a boot read files of different runs
\* (FundingClock::tick).
THEOREM CoordSettlementsApart == CoordSpec => SettlementsApart
  <1>1. CoordInv /\ [CoordNext]_coordVars
          => [phase' = "idle" /\ funded' > funded /\ phase = "ingest" /\ ~torn
                => funded' - funded >= FundingInterval]_coordVars
    <2> SUFFICES ASSUME CoordInv, CoordNext, phase' = "idle", funded' > funded,
                        phase = "ingest", ~torn
                 PROVE  funded' - funded >= FundingInterval
      OBVIOUS
    <2>1. Tick
      BY DEF CoordNext, Boot, Refuse, SeedFails, Commit, Ingest, EndRun, Crash, Gone, OpenFile,
             WriteFile
    <2>2. height \in Int /\ funded \in Int /\ last_settled = funded
      BY DEF CoordInv, TypeInv, RunInv, Heights
    <2>3. funded' = height /\ height >= last_settled + FundingInterval
      BY <2>1, <2>2, TickParts
    <2> QED
      BY <2>2, <2>3, CoordinatorAssumption
  <1> QED
    BY <1>1, CoordInvHolds, PTL DEF CoordSpec, SettlementsApart

\* No minority of the feeds sets the price, for any number of feeds and any
\* deviation cap: right after a refresh the index is within the cap of a
\* price between the prices of any strict majority of the fresh feeds
\* (compute_median, aggregate_index).
THEOREM CoordMajorityBoundsIndex == CoordSpec => []MajorityBoundsIndex
  <1> DEFINE Near == \A H \in SUBSET Fresh(height) :
                       2 * Cardinality(H) > Cardinality(Fresh(height)) =>
                         LET reported == {feeds[f].price : f \in H}
                         IN \E p \in Min(reported)..Max(reported) :
                              DeviationBps(current.index, p) <= MaxDeviation
  <1>1. CoordInit => MajorityBoundsIndex
    BY DEF CoordInit, MajorityBoundsIndex
  <1>2. ASSUME CoordInv, MajorityBoundsIndex, [CoordNext]_coordVars
        PROVE  MajorityBoundsIndex'
    <2> SUFFICES ASSUME phase' = "idle", current'.at = height'
                 PROVE  Near'
      BY DEF MajorityBoundsIndex
    <2>1. CASE UNCHANGED <<feeds, current, height, phase>>
      BY <1>2, <2>1 DEF MajorityBoundsIndex, Fresh
    <2>2. CASE Boot
      <3>1. feeds' = [f \in Feeds |-> NoRecord]
        BY <2>2 DEF Boot
      <3>2. Fresh(height)' = {}
        BY <3>1 DEF Fresh
      <3>3. Cardinality({}) = 0
        BY FS_EmptySet
      <3>4. \A H \in SUBSET {} : ~ (2 * Cardinality(H) > Cardinality({}))
        BY <3>3
      <3> QED
        BY <3>2, <3>4
    <2>3. CASE Tick
      <3>1. /\ UNCHANGED <<feeds, height>>
            /\ \/ current' = current
               \/ /\ AggregateIndex(Fresh(height)) \in Nat \ {0}
                  /\ current' = [index |-> AggregateIndex(Fresh(height)), at |-> height]
        BY <1>2, <2>3, TickParts
      <3>2. current.at < height /\ height \in Int
        BY <1>2, <2>3 DEF CoordInv, RunInv, Tick, TypeInv, Heights
      <3>3. current' # current
        BY <3>1, <3>2
      <3>4. current'.index = AggregateIndex(Fresh(height)) /\ AggregateIndex(Fresh(height)) # NoPrice
        BY <3>1, <3>3 DEF NoPrice
      <3>5. Priced(Fresh(height))
        BY <1>2, FreshPriced DEF CoordInv
      <3>6. Fresh(height)' = Fresh(height)
        BY <3>1 DEF Fresh
      <3>7. \A H \in SUBSET Fresh(height) :
              2 * Cardinality(H) > Cardinality(Fresh(height)) =>
                LET reported == {feeds[f].price : f \in H}
                IN \E p \in Min(reported)..Max(reported) :
                     DeviationBps(AggregateIndex(Fresh(height)), p) <= MaxDeviation
        BY <3>4, <3>5, AggregateNearMajority
      <3> QED
        BY <3>1, <3>4, <3>6, <3>7
    <2> QED
      BY <1>2, <2>1, <2>2, <2>3
      DEF CoordNext, Refuse, SeedFails, Commit, Ingest, EndRun, Crash, Gone, OpenFile, WriteFile,
          coordVars, oracleVars, bridgeVars
  <1> QED
    BY <1>1, <1>2, CoordInvHolds, PTL DEF CoordSpec

\* The aggregate is a function of the feeds.
LEMMA AggregateKept ==
  ASSUME feeds' = feeds, height' = height
  PROVE  AggregateIndex(Fresh(height))' = AggregateIndex(Fresh(height))
  <1>1. \A F, k : Smallest(F, k)' = Smallest(F, k)
    BY DEF Smallest
  <1>2. \A F : Median(F)' = Median(F)
    BY <1>1 DEF Median
  <1>3. \A F, r : FilterByDeviation(F, r)' = FilterByDeviation(F, r)
    BY DEF FilterByDeviation
  <1>4. \A F : AggregateIndex(F)' = AggregateIndex(F)
    BY <1>2, <1>3 DEF AggregateIndex
  <1>5. Fresh(height)' = Fresh(height)
    BY DEF Fresh
  <1> QED
    BY <1>4, <1>5

\* Feeds that can be aggregated give a usable price after every block, and
\* after every restart, if a refresh is due before the aggregate is too old:
\* NodeConfig's default interval is 12 s and OracleParams' age 60 s
\* (maybe_refresh_oracle, current_price_fresh_at).
THEOREM CoordHealthyFeedsGiveAPrice ==
  ASSUME RefreshInterval <= AggregateMaxAge + 1
  PROVE  CoordSpec => []HealthyFeedsGiveAPrice
  <1> USE CoordinatorAssumption, OracleAssumption
  <1>1. CoordInit => HealthyFeedsGiveAPrice
    BY DEF CoordInit, HealthyFeedsGiveAPrice
  <1>2. ASSUME CoordInv, HealthyFeedsGiveAPrice, [CoordNext]_coordVars
        PROVE  HealthyFeedsGiveAPrice'
    <2> SUFFICES ASSUME phase' = "idle", (AggregateIndex(Fresh(height)) # NoPrice)'
                 PROVE  (PriceFreshAt(current, height) # NoPrice)'
      BY DEF HealthyFeedsGiveAPrice
    <2>1. CASE UNCHANGED <<feeds, current, height, phase>>
      <3>1. AggregateIndex(Fresh(height)) # NoPrice
        BY <2>1, AggregateKept
      <3> QED
        BY <1>2, <2>1, <3>1 DEF HealthyFeedsGiveAPrice, PriceFreshAt
    <2>2. CASE Boot
      <3>1. feeds' = [f \in Feeds |-> NoRecord]
        BY <2>2 DEF Boot
      <3>2. Fresh(height)' = {}
        BY <3>1 DEF Fresh
      <3> QED
        BY <3>2 DEF AggregateIndex
    <2>3. CASE Tick
      <3>1. /\ UNCHANGED <<feeds, height>>
            /\ \/ /\ current' = current
                  /\ RefreshDue(height) => AggregateIndex(Fresh(height)) = NoPrice
               \/ /\ AggregateIndex(Fresh(height)) \in Nat \ {0}
                  /\ current' = [index |-> AggregateIndex(Fresh(height)), at |-> height]
        BY <1>2, <2>3, TickParts
      <3>2. AggregateIndex(Fresh(height)) # NoPrice
        BY <3>1, AggregateKept
      <3>3. height \in Nat
        BY <1>2 DEF CoordInv, TypeInv, Heights
      <3>4. CASE /\ current' = current
                 /\ RefreshDue(height) => AggregateIndex(Fresh(height)) = NoPrice
        <4>1. ~RefreshDue(height)
          BY <3>2, <3>4
        <4>2. /\ last_refresh = current.at /\ AggregateBy(current, height)
          BY <1>2, <2>3 DEF CoordInv, RunInv, Tick
        <4>3. current # NoAggregate
          BY <4>1, <4>2 DEF RefreshDue, NoAggregate
        <4>4. current.index \in Nat \ {0} /\ current.at \in 0..height
          BY <4>2, <4>3 DEF AggregateBy
        <4>5. SaturatingSub(height, current.at) <= AggregateMaxAge
          BY <3>3, <4>1, <4>2, <4>4 DEF RefreshDue, SaturatingSub
        <4> QED
          BY <3>1, <3>4, <4>3, <4>4, <4>5 DEF PriceFreshAt, NoPrice
      <3>5. CASE /\ AggregateIndex(Fresh(height)) \in Nat \ {0}
                 /\ current' = [index |-> AggregateIndex(Fresh(height)), at |-> height]
        <4>1. current'.index \in Nat \ {0} /\ current'.at = height
          BY <3>5
        <4>2. current' # NoAggregate
          BY <4>1 DEF NoAggregate, NoPrice
        <4>3. SaturatingSub(height, current'.at) <= AggregateMaxAge
          BY <3>3, <4>1 DEF SaturatingSub
        <4> QED
          BY <3>1, <4>1, <4>2, <4>3 DEF PriceFreshAt, NoPrice
      <3> QED
        BY <3>1, <3>4, <3>5
    <2> QED
      BY <1>2, <2>1, <2>2, <2>3
      DEF CoordNext, Refuse, SeedFails, Commit, Ingest, EndRun, Crash, Gone, OpenFile, WriteFile,
          coordVars, oracleVars, bridgeVars
  <1> QED
    BY <1>1, <1>2, CoordInvHolds, PTL DEF CoordSpec

-----------------------------------------------------------------------------
(* The vault: arithmetic.                                                  *)

\* A share of a pool that grows in assets at least as much as in shares is
\* worth no less.
LEMMA ShareOfGrowingPool ==
  ASSUME NEW s \in Nat, NEW assets1 \in Nat, NEW shares1 \in Nat \ {0},
         NEW assets2 \in Nat, NEW shares2 \in Nat \ {0},
         assets1 * shares2 <= assets2 * shares1
  PROVE  (s * assets1) \div shares1 <= (s * assets2) \div shares2
  <1> DEFINE q == (s * assets1) \div shares1
  <1>1. q \in Int /\ q * shares1 <= s * assets1
    BY DivIsFloor
  <1> HIDE DEF q
  <1>2. (q * shares1) * shares2 <= (s * assets1) * shares2
    BY <1>1, TimesMonotonic
  <1>3. (assets1 * shares2) * s <= (assets2 * shares1) * s
    BY TimesMonotonic
  <1>4. /\ (q * shares1) * shares2 = (q * shares2) * shares1
        /\ (s * assets1) * shares2 = (assets1 * shares2) * s
        /\ (assets2 * shares1) * s = (s * assets2) * shares1
    BY <1>1
  <1>5. (q * shares2) * shares1 <= (s * assets2) * shares1
    <2>1. /\ (q * shares2) * shares1 \in Int /\ (assets1 * shares2) * s \in Int
          /\ (s * assets2) * shares1 \in Int
      BY <1>1
    <2> QED
      BY <1>2, <1>3, <1>4, <2>1
  <1>6. q * shares2 <= s * assets2
    BY <1>1, <1>5, TimesCancels
  <1> QED
    BY <1>1, <1>6, DivAtLeast DEF q

-----------------------------------------------------------------------------
(* The vault: the invariant of the totals and, word for word, of those the *)
(* snapshot would restore.                                                 *)

SharesAreHeld(shares, of) ==
  /\ of \in [Holders -> Nat]
  /\ shares = SumOf(of, Holders)

VaultInv ==
  /\ total_shares \in Nat /\ total_assets \in Int /\ seeded \in BOOLEAN
  /\ SharesAreHeld(total_shares, held)
  /\ total_shares = 0 /\ ~seeded => total_assets = 0
  /\ snapshot \in [shares : Nat, assets : Int]
  /\ SharesAreHeld(snapshot.shares, kept)
  /\ snapshot.shares = 0 /\ ~seeded => snapshot.assets = 0

\* No holder has more than there is, and what two holders have they have
\* apart.
LEMMA HeldWithinTotal ==
  ASSUME NEW shares, NEW of, SharesAreHeld(shares, of), NEW h \in Holders
  PROVE  /\ of[h] <= shares
         /\ \A g \in Holders \ {h} : of[g] + of[h] <= shares
  <1>1. IsFiniteSet(Holders) /\ \A g \in Holders : of[g] \in Nat
    BY VaultAssumption DEF SharesAreHeld
  <1>2. of[h] <= shares
    BY <1>1, SumAtLeast DEF SharesAreHeld
  <1>3. ASSUME NEW g \in Holders \ {h}
        PROVE  of[g] + of[h] <= shares
    <2>1. shares = of[h] + SumOf(of, Holders \ {h})
      BY <1>1, SumRemove DEF SharesAreHeld
    <2>2. of[g] <= SumOf(of, Holders \ {h}) /\ SumOf(of, Holders \ {h}) \in Nat
      BY <1>1, SumAtLeast, FS_RemoveElement
    <2> QED
      BY <1>1, <2>1, <2>2
  <1> QED
    BY <1>2, <1>3

\* The shares of one holder and the total move together.
LEMMA SharesMove ==
  ASSUME NEW shares \in Nat, NEW of, SharesAreHeld(shares, of), NEW h \in Holders, NEW n \in Int,
         of[h] + n \in Nat
  PROVE  SharesAreHeld(shares + n, [of EXCEPT ![h] = @ + n])
  <1> DEFINE new == [of EXCEPT ![h] = @ + n]
  <1>1. of \in [Holders -> Nat] /\ IsFiniteSet(Holders)
    BY VaultAssumption DEF SharesAreHeld
  <1>2. new \in [Holders -> Nat] /\ new[h] = of[h] + n /\ \A g \in Holders \ {h} : of[g] = new[g]
    BY <1>1
  <1> HIDE DEF new
  <1>3. \A g \in Holders : of[g] \in Int /\ new[g] \in Int
    BY <1>1, <1>2
  <1>4. SumOf(new, Holders) = SumOf(of, Holders) - of[h] + new[h]
    BY <1>1, <1>2, <1>3, SumUpdate
  <1>5. SumOf(new, Holders) = shares + n
    BY <1>2, <1>3, <1>4 DEF SharesAreHeld
  <1> QED
    BY <1>2, <1>5 DEF SharesAreHeld, new

\* A deposit mints at least a share, and no more than its assets buy.
LEMMA MintedShares ==
  ASSUME VaultInv, NEW a \in Nat \ {0}, Accepts(a)
  PROVE  /\ AssetsToShares(a) \in Nat \ {0}
         /\ total_shares # 0 => /\ total_assets \in Nat \ {0}
                                /\ AssetsToShares(a) * total_assets <= a * total_shares
  <1>1. CASE total_shares = 0
    BY <1>1 DEF AssetsToShares
  <1>2. CASE total_shares # 0
    <2>1. total_assets \in Nat \ {0} /\ a * total_shares \in Nat
      BY <1>2 DEF VaultInv, Accepts, IsInsolvent
    <2>2. AssetsToShares(a) = (a * total_shares) \div total_assets
      BY <1>2 DEF AssetsToShares
    <2> QED
      BY <2>1, <2>2, DivIsFloor, DivNonNegative DEF Accepts
  <1> QED
    BY <1>1, <1>2

\* A withdrawal pays no more than the shares are worth.
LEMMA PaidAssets ==
  ASSUME VaultInv, NEW s \in 1..total_shares, ~IsInsolvent
  PROVE  /\ total_shares \in Nat \ {0} /\ total_assets \in Nat \ {0}
         /\ SharesToAssets(s) \in Nat
         /\ SharesToAssets(s) * total_shares <= s * total_assets
         /\ s = total_shares => SharesToAssets(s) = total_assets
  <1>1. total_shares \in Nat \ {0} /\ total_assets \in Nat \ {0}
    BY DEF VaultInv, IsInsolvent
  <1>2. s * total_assets \in Nat
    BY <1>1
  <1>3. SharesToAssets(s) \in Nat /\ SharesToAssets(s) * total_shares <= s * total_assets
    BY <1>1, <1>2, DivIsFloor, DivNonNegative DEF SharesToAssets
  <1>4. ASSUME s = total_shares
        PROVE  SharesToAssets(s) = total_assets
    <2>1. total_assets * total_shares <= s * total_assets
      BY <1>1, <1>4
    <2>2. total_assets <= SharesToAssets(s)
      BY <1>1, <1>2, <2>1, DivAtLeast DEF SharesToAssets
    <2>3. SharesToAssets(s) * total_shares <= total_assets * total_shares
      BY <1>1, <1>3, <1>4
    <2>4. SharesToAssets(s) <= total_assets
      BY <1>1, <1>3, <2>3, TimesCancels
    <2> QED
      BY <1>1, <1>3, <2>2, <2>4
  <1> QED
    BY <1>1, <1>3, <1>4

-----------------------------------------------------------------------------
(* The vault: the invariant holds.                                         *)

LEMMA DepositInv ==
  ASSUME VaultInv, NEW h \in Holders, NEW a \in Nat \ {0}, Deposit(h, a)
  PROVE  VaultInv'
  <1> DEFINE n == AssetsToShares(a)
  <1>1. n \in Nat \ {0}
    BY MintedShares DEF Deposit
  <1> HIDE DEF n
  <1>2. /\ total_shares' = total_shares + n /\ total_assets' = total_assets + a
        /\ held' = [held EXCEPT ![h] = @ + n] /\ UNCHANGED <<snapshot, kept, seeded>>
    BY DEF Deposit, n
  <1>3. total_shares \in Nat /\ held[h] \in Nat
    BY DEF VaultInv, SharesAreHeld
  <1>4. SharesAreHeld(total_shares, held)'
    <2>1. n \in Int /\ held[h] + n \in Nat /\ total_shares \in Nat
      BY <1>1, <1>3
    <2>2. SharesAreHeld(total_shares + n, [held EXCEPT ![h] = @ + n])
      BY <2>1, SharesMove DEF VaultInv
    <2> QED
      BY <2>2, <1>2
  <1>5. total_shares' \in Nat \ {0} /\ total_assets' \in Int
    BY <1>1, <1>2, <1>3 DEF VaultInv
  <1>6. SharesAreHeld(snapshot.shares, kept)'
    BY <1>2 DEF VaultInv
  <1> QED
    BY <1>2, <1>4, <1>5, <1>6 DEF VaultInv

LEMMA WithdrawInv ==
  ASSUME VaultInv, NEW h \in Holders, NEW s \in Nat \ {0}, Withdraw(h, s)
  PROVE  VaultInv'
  <1> DEFINE n == -s
  <1>1. s \in 1..total_shares /\ s <= held[h] /\ ~IsInsolvent
    BY DEF Withdraw, VaultInv
  <1>2. total_shares \in Nat /\ held \in [Holders -> Nat] /\ held[h] \in Nat
    BY DEF VaultInv, SharesAreHeld
  <1>3. /\ total_shares' = total_shares - s /\ total_assets' = total_assets - SharesToAssets(s)
        /\ held' = [held EXCEPT ![h] = @ - s] /\ UNCHANGED <<snapshot, kept, seeded>>
    BY DEF Withdraw
  <1>4. total_shares - s = total_shares + n /\ [held EXCEPT ![h] = @ - s] = [held EXCEPT ![h] = @ + n]
    BY <1>2
  <1>5. n \in Int /\ held[h] + n \in Nat
    BY <1>1, <1>2
  <1> HIDE DEF n
  <1>6. SharesAreHeld(total_shares, held)'
    <2>1. SharesAreHeld(total_shares + n, [held EXCEPT ![h] = @ + n])
      BY <1>2, <1>5, SharesMove DEF VaultInv
    <2> QED
      BY <2>1, <1>3, <1>4
  <1>7. total_shares' \in Nat /\ total_assets' \in Int
    BY <1>1, <1>2, <1>3, PaidAssets
  <1>8. total_shares' = 0 => total_assets' = 0
    <2> SUFFICES ASSUME total_shares' = 0 PROVE total_assets' = 0
      OBVIOUS
    <2>1. s = total_shares
      BY <1>2, <1>3
    <2> QED
      BY <1>1, <1>3, <2>1, PaidAssets
  <1>9. SharesAreHeld(snapshot.shares, kept)'
    BY <1>3 DEF VaultInv
  <1> QED
    BY <1>3, <1>6, <1>7, <1>8, <1>9 DEF VaultInv

LEMMA VaultInvHolds == VaultSpec => []VaultInv
  <1>1. VaultInit => VaultInv
    <2> SUFFICES ASSUME VaultInit PROVE VaultInv
      OBVIOUS
    <2>1. \A h \in Holders : held[h] = 0
      BY DEF VaultInit
    <2>2. SumOf(held, Holders) = 0
      BY <2>1, VaultAssumption, SumZero
    <2>3. held \in [Holders -> Nat] /\ kept = held
      BY DEF VaultInit
    <2>4. SharesAreHeld(0, held) /\ SharesAreHeld(0, kept)
      BY <2>2, <2>3 DEF SharesAreHeld
    <2>5. /\ total_shares = 0 /\ total_assets = 0
          /\ snapshot \in [shares : Nat, assets : Int]
          /\ snapshot.shares = 0 /\ snapshot.assets = 0
      BY DEF VaultInit, NoShares
    <2>6. seeded \in BOOLEAN
      BY DEF VaultInit
    <2> QED
      BY <2>4, <2>5, <2>6 DEF VaultInv
  <1>2. VaultInv /\ [VaultNext]_vaultVars => VaultInv'
    <2> SUFFICES ASSUME VaultInv, [VaultNext]_vaultVars PROVE VaultInv'
      OBVIOUS
    <2>1. CASE Trade
      <3>1. PICK h \in Holders : \/ \E a \in 1..MaxDeposit : Deposit(h, a)
                                 \/ \E s \in 1..MaxAssets : Withdraw(h, s)
        BY <2>1 DEF Trade
      <3>2. ASSUME NEW a \in 1..MaxDeposit, Deposit(h, a) PROVE VaultInv'
        BY <3>2, DepositInv, VaultAssumption
      <3>3. ASSUME NEW s \in 1..MaxAssets, Withdraw(h, s) PROVE VaultInv'
        BY <3>3, WithdrawInv, VaultAssumption
      <3> QED
        BY <3>1, <3>2, <3>3
    <2>2. ASSUME NEW new \in -1..MaxAssets, MarkToMarket(new)
          PROVE  VaultInv'
      <3>1. /\ total_assets' = new /\ UNCHANGED <<total_shares, snapshot, held, kept>>
            /\ seeded' \in BOOLEAN /\ (~seeded' => ~seeded /\ total_shares # 0)
        BY <2>2 DEF MarkToMarket
      <3>2. new \in Int
        BY VaultAssumption
      <3> QED
        BY <3>1, <3>2 DEF VaultInv, SharesAreHeld
    <2>3. CASE TakeSnapshot
      BY <2>3 DEF TakeSnapshot, VaultInv, SharesAreHeld
    <2>4. CASE Restore
      BY <2>4 DEF Restore, Restored, VaultInv, SharesAreHeld
    <2>5. CASE UNCHANGED vaultVars
      BY <2>5 DEF vaultVars, VaultInv, SharesAreHeld
    <2> QED
      BY <2>1, <2>2, <2>3, <2>4, <2>5 DEF VaultNext
  <1> QED
    BY <1>1, <1>2, PTL DEF VaultSpec

\* Through every rounding, mark, snapshot and restart the shares outstanding
\* are the shares the holders have, and when the last of them is burned
\* nothing is left behind, unless the vault was marked to a value while
\* nobody had shares (deposit, withdraw, mark_to_market, load_snapshot).
THEOREM VaultLastShareTakesAll == VaultSpec => []LastShareTakesAll
  <1>1. VaultInv => LastShareTakesAll
    BY DEF VaultInv, SharesAreHeld, LastShareTakesAll, VaultTypeOK, SumOf
  <1> QED
    BY <1>1, VaultInvHolds, PTL

-----------------------------------------------------------------------------
(* The vault: nobody is diluted.                                           *)

\* What h could take out, of a vault with these totals.
ClaimOn(of, assets, shares) == IF shares = 0 \/ assets <= 0 THEN 0 ELSE (of * assets) \div shares

LEMMA ClaimIsNatural ==
  ASSUME NEW of \in Nat, NEW assets \in Int, NEW shares \in Nat
  PROVE  ClaimOn(of, assets, shares) \in Nat
  <1>1. CASE shares = 0 \/ assets <= 0
    BY <1>1 DEF ClaimOn
  <1>2. CASE ~(shares = 0 \/ assets <= 0)
    <2>1. of * assets \in Nat /\ shares \in Nat \ {0}
      BY <1>2
    <2> QED
      BY <1>2, <2>1, DivNonNegative DEF ClaimOn
  <1> QED
    BY <1>1, <1>2

LEMMA DepositDilutesNobody ==
  ASSUME VaultInv, NEW g \in Holders, NEW a \in Nat \ {0}, Deposit(g, a),
         NEW h \in Holders, held'[h] = held[h]
  PROVE  Claim(h)' >= Claim(h)
  <1> DEFINE n == AssetsToShares(a)
  <1>1. n \in Nat \ {0}
    BY MintedShares DEF Deposit
  <1>2. total_shares' = total_shares + n /\ total_assets' = total_assets + a
    BY DEF Deposit
  <1>3. total_shares \in Nat /\ total_assets \in Int /\ held[h] \in Nat
    BY DEF VaultInv, SharesAreHeld
  <1>4. /\ Claim(h) = ClaimOn(held[h], total_assets, total_shares)
        /\ Claim(h)' = ClaimOn(held[h], total_assets', total_shares')
    BY DEF Claim, ClaimOn, SharesToAssets
  <1>5. Claim(h) \in Nat /\ Claim(h)' \in Nat
    <2>1. total_assets' \in Int /\ total_shares' \in Nat
      BY <1>1, <1>2, <1>3
    <2> QED
      BY <2>1, <1>3, <1>4, ClaimIsNatural
  <1>6. CASE total_shares = 0
    BY <1>4, <1>5, <1>6 DEF ClaimOn
  <1>7. CASE total_shares # 0
    <2>1. total_assets \in Nat \ {0} /\ n * total_assets <= a * total_shares
      BY <1>7, MintedShares DEF Deposit
    <2> HIDE DEF n
    <2>2. total_assets * (total_shares + n) <= (total_assets + a) * total_shares
      <3>1. total_assets * (total_shares + n) = total_assets * total_shares + n * total_assets
        BY <1>1, <1>3
      <3>2. (total_assets + a) * total_shares = total_assets * total_shares + a * total_shares
        BY <1>3
      <3>3. /\ n * total_assets \in Int /\ a * total_shares \in Int
            /\ total_assets * total_shares \in Int
        BY <1>1, <1>3
      <3> QED
        BY <2>1, <3>1, <3>2, <3>3
    <2>3. (held[h] * total_assets) \div total_shares
            <= (held[h] * (total_assets + a)) \div (total_shares + n)
      <3>1. total_assets + a \in Nat /\ total_shares + n \in Nat \ {0}
        BY <1>1, <1>3, <2>1
      <3> QED
        BY <1>3, <1>7, <2>1, <2>2, <3>1, ShareOfGrowingPool
    <2> QED
      BY <1>1, <1>2, <1>3, <1>4, <1>5, <1>7, <2>1, <2>3 DEF ClaimOn
  <1> QED
    BY <1>6, <1>7

LEMMA WithdrawDilutesNobody ==
  ASSUME VaultInv, NEW g \in Holders, NEW s \in Nat \ {0}, Withdraw(g, s),
         NEW h \in Holders, held'[h] = held[h]
  PROVE  Claim(h)' >= Claim(h)
  <1> DEFINE p == SharesToAssets(s)
  <1>1. s \in 1..total_shares /\ s <= held[g] /\ ~IsInsolvent
    BY DEF Withdraw, VaultInv
  <1>2. /\ total_shares \in Nat \ {0} /\ total_assets \in Nat \ {0} /\ p \in Nat
        /\ p * total_shares <= s * total_assets
    BY <1>1, PaidAssets
  <1>3. /\ total_shares' = total_shares - s /\ total_assets' = total_assets - p
        /\ held' = [held EXCEPT ![g] = @ - s]
    BY DEF Withdraw
  <1>4. held \in [Holders -> Nat] /\ held[h] \in Nat /\ held[g] \in Nat
    BY DEF VaultInv, SharesAreHeld
  <1>5. h # g
    BY <1>3, <1>4
  <1>6. held[h] + held[g] <= total_shares
    BY <1>5, HeldWithinTotal DEF VaultInv
  <1>7. /\ Claim(h) = ClaimOn(held[h], total_assets, total_shares)
        /\ Claim(h)' = ClaimOn(held[h], total_assets', total_shares')
    BY DEF Claim, ClaimOn, SharesToAssets
  <1> HIDE DEF p
  <1>8. CASE s = total_shares
    <2>1. held[h] = 0
      BY <1>1, <1>2, <1>4, <1>6, <1>8
    <2>2. (held[h] * total_assets) \div total_shares = 0
      BY <2>1, <1>2
    <2>3. total_shares' = 0
      BY <1>2, <1>3, <1>8
    <2> QED
      BY <1>7, <2>2, <2>3 DEF ClaimOn
  <1>9. CASE s # total_shares
    <2>1. total_shares - s \in Nat \ {0}
      BY <1>1, <1>2, <1>9
    <2>2. total_assets * (total_shares - s) <= (total_assets - p) * total_shares
      <3>1. total_assets * (total_shares - s) = total_assets * total_shares - s * total_assets
        BY <1>2
      <3>2. (total_assets - p) * total_shares = total_assets * total_shares - p * total_shares
        BY <1>2
      <3>3. /\ s * total_assets \in Int /\ p * total_shares \in Int
            /\ total_assets * total_shares \in Int
        BY <1>2
      <3> QED
        BY <1>2, <3>1, <3>2, <3>3
    <2>3. total_assets - p \in Nat \ {0}
      <3>1. 0 < total_assets * (total_shares - s) /\ total_assets * (total_shares - s) \in Int
        BY <1>2, <2>1
      <3>2. CASE total_assets - p <= 0
        <4>1. (total_assets - p) * total_shares <= 0 * total_shares
          BY <1>2, <3>2, TimesMonotonic
        <4>2. 0 * total_shares = 0 /\ (total_assets - p) * total_shares \in Int
          BY <1>2
        <4> QED
          BY <2>2, <3>1, <4>1, <4>2
      <3> QED
        BY <1>2, <3>2
    <2>4. (held[h] * total_assets) \div total_shares
            <= (held[h] * (total_assets - p)) \div (total_shares - s)
      BY <1>2, <1>4, <2>1, <2>2, <2>3, ShareOfGrowingPool
    <2>5. Claim(h) = (held[h] * total_assets) \div total_shares
      BY <1>2, <1>7 DEF ClaimOn
    <2>6. Claim(h)' = (held[h] * (total_assets - p)) \div (total_shares - s)
      BY <1>3, <1>7, <2>1, <2>3 DEF ClaimOn
    <2>7. Claim(h) \in Nat /\ Claim(h)' \in Nat
      <3>1. total_assets' \in Int /\ total_shares' \in Nat
        BY <1>3, <2>1, <2>3
      <3> QED
        BY <3>1, <1>2, <1>4, <1>7, ClaimIsNatural
    <2> QED
      BY <2>4, <2>5, <2>6, <2>7
  <1> QED
    BY <1>8, <1>9

\* Rounding is at the cost of the one who acts: whatever was deposited,
\* withdrawn, marked and restored before, a deposit or a withdrawal of one
\* holder never lowers what another could take out (assets_to_shares and
\* shares_to_assets round down; a vault without assets takes no trade).
THEOREM VaultOthersAreNotDiluted == VaultSpec => OthersAreNotDiluted
  <1>1. VaultInv /\ [VaultNext]_vaultVars
          => [Trade => \A h \in Holders : held'[h] = held[h] => Claim(h)' >= Claim(h)]_vaultVars
    <2> SUFFICES ASSUME VaultInv, Trade, NEW h \in Holders, held'[h] = held[h]
                 PROVE  Claim(h)' >= Claim(h)
      OBVIOUS
    <2>1. PICK g \in Holders : \/ \E a \in 1..MaxDeposit : Deposit(g, a)
                               \/ \E s \in 1..MaxAssets : Withdraw(g, s)
      BY DEF Trade
    <2> QED
      BY <2>1, VaultAssumption, DepositDilutesNobody, WithdrawDilutesNobody
  <1> QED
    BY <1>1, VaultInvHolds, PTL DEF VaultSpec, OthersAreNotDiluted

==============================================================================
