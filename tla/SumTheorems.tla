---------------------------- MODULE SumTheorems -----------------------------
(***************************************************************************)
(* Facts about MapThenSumSet, the sum over a finite set that the           *)
(* invariants of the vault, the validator set, the settlement and the      *)
(* bridge are stated with, also over the positions 1..n of a sequence.     *)
(* They are inductions over the size of the set; the induction is the      *)
(* argument from a least counterexample.  And a few facts about products   *)
(* and quotients.                                                          *)
(***************************************************************************)
EXTENDS Integers, FiniteSets, FiniteSetsExt, TLAPS, WellFoundedInduction, FiniteSetTheorems

\* The sum of f over S.
SumOf(f, S) == MapThenSumSet(LAMBDA x : f[x], S)

Pick(s) == CHOOSE x \in s : TRUE

\* The equation g[s] solves for one s.
SumAt(g, f, s) == g[s] = IF s = {} THEN 0 ELSE f[Pick(s)] + g[s \ {Pick(s)}]

\* g is the sum of f over every subset of S.
SumsUp(g, f, S) ==
  g = [s \in SUBSET S |-> IF s = {} THEN 0 ELSE f[Pick(s)] + g[s \ {Pick(s)}]]

-----------------------------------------------------------------------------
(* Products and quotients.                                                 *)

LEMMA DivIsFloor ==
  ASSUME NEW n \in Int, NEW d \in Nat \ {0}
  PROVE  /\ n \div d \in Int
         /\ (n \div d) * d <= n
         /\ n < ((n \div d) + 1) * d
  OBVIOUS

LEMMA TimesMonotonic ==
  ASSUME NEW a \in Int, NEW b \in Int, NEW c \in Nat, a <= b
  PROVE  a * c <= b * c
  OBVIOUS

LEMMA TimesCancels ==
  ASSUME NEW a \in Int, NEW b \in Int, NEW c \in Nat \ {0}, a * c <= b * c
  PROVE  a <= b
  OBVIOUS

\* The greatest quotient.
LEMMA DivAtLeast ==
  ASSUME NEW q \in Int, NEW n \in Int, NEW d \in Nat \ {0}, q * d <= n
  PROVE  q <= n \div d
  <1> DEFINE r == n \div d
  <1>1. r \in Int /\ n < (r + 1) * d
    BY DivIsFloor
  <1> HIDE DEF r
  <1>2. CASE r + 1 <= q
    <2>1. (r + 1) * d <= q * d
      BY <1>1, <1>2, TimesMonotonic
    <2>2. (r + 1) * d \in Int /\ q * d \in Int
      BY <1>1
    <2> QED
      BY <1>1, <2>1, <2>2
  <1> QED
    BY <1>1, <1>2 DEF r

LEMMA DivNonNegative ==
  ASSUME NEW n \in Nat, NEW d \in Nat \ {0}
  PROVE  n \div d \in Nat
  <1>1. 0 * d <= n
    OBVIOUS
  <1> QED
    BY <1>1, DivAtLeast, DivIsFloor

LEMMA DivMonotonic ==
  ASSUME NEW a \in Int, NEW b \in Int, a <= b, NEW d \in Nat \ {0}
  PROVE  a \div d <= b \div d
  <1> DEFINE q == a \div d
  <1>1. q \in Int /\ q * d <= a
    BY DivIsFloor
  <1> HIDE DEF q
  <1>2. q * d \in Int /\ q * d <= b
    BY <1>1
  <1>3. q <= b \div d
    BY <1>1, <1>2, DivAtLeast
  <1> QED
    BY <1>3 DEF q

\* A product is between the products of the bounds.
LEMMA ProductBounds ==
  ASSUME NEW a \in Int, NEW b \in Int, NEW A \in Nat, NEW B \in Nat,
         -A <= a, a <= A, -B <= b, b <= B
  PROVE  a * b \in -(A * B)..(A * B)
  <1>1. /\ a * b \in Int /\ A * B \in Nat /\ A * b \in Int
        /\ (A - a) * (B - b) >= 0 /\ (A - a) * (B + b) >= 0
        /\ (A + a) * (B - b) >= 0 /\ (A + a) * (B + b) >= 0
    OBVIOUS
  <1>2. /\ (A - a) * (B - b) = A * B - A * b - a * B + a * b
        /\ (A - a) * (B + b) = A * B + A * b - a * B - a * b
        /\ (A + a) * (B - b) = A * B - A * b + a * B - a * b
        /\ (A + a) * (B + b) = A * B + A * b + a * B + a * b
    OBVIOUS
  <1>3. a * B \in Int
    OBVIOUS
  <1> QED
    BY <1>1, <1>2, <1>3

-----------------------------------------------------------------------------
(* Induction over the size of a finite set.                                *)

\* Every non-empty set of naturals has a least element.
LEMMA LeastNumber ==
  ASSUME NEW T, T \subseteq Nat, T # {}
  PROVE  \E x \in T : \A y \in T : x <= y
  <1>1. PICK x \in T : \A y \in T : ~ (<<y, x>> \in OpToRel(<, Nat))
    BY NatLessThanWellFounded, WFMin
  <1>2. ASSUME NEW y \in T
        PROVE  x <= y
    <2>1. x \in Nat /\ y \in Nat
      OBVIOUS
    <2>2. ~ (y < x)
      BY <1>1, <2>1 DEF OpToRel
    <2> QED
      BY <2>1, <2>2
  <1> QED
    BY <1>2

\* A non-empty collection of subsets of a finite set has one none of whose
\* elements can be removed without leaving the collection.
LEMMA SmallestSet ==
  ASSUME NEW S, IsFiniteSet(S), NEW B, B \subseteq SUBSET S, B # {}
  PROVE  \E T \in B : \A x \in T : T \ {x} \notin B
  <1> DEFINE sizes == {Cardinality(T) : T \in B}
  <1>1. ASSUME NEW T \in B
        PROVE  IsFiniteSet(T) /\ Cardinality(T) \in Nat
    BY FS_Subset, FS_CardinalityType
  <1>2. sizes \subseteq Nat /\ sizes # {}
    BY <1>1
  <1>3. PICK n \in sizes : \A m \in sizes : n <= m
    BY <1>2, LeastNumber
  <1>4. PICK T \in B : Cardinality(T) = n
    BY <1>3
  <1>5. ASSUME NEW x \in T, T \ {x} \in B
        PROVE  FALSE
    <2>1. Cardinality(T \ {x}) = Cardinality(T) - 1
      BY <1>1, FS_RemoveElement
    <2>2. Cardinality(T) <= Cardinality(T \ {x})
      BY <1>3, <1>4, <1>5
    <2> QED
      BY <2>1, <2>2, <1>1
  <1> QED
    BY <1>5

LEMMA PickIsElement ==
  ASSUME NEW s, s # {}
  PROVE  Pick(s) \in s
  BY DEF Pick

-----------------------------------------------------------------------------
(* The equation has a solution, and only one.                              *)

LEMMA SumsExist ==
  ASSUME NEW f, NEW S, IsFiniteSet(S)
  PROVE  \E g : SumsUp(g, f, S)
  <1> DEFINE Upto(n, g) == \A s \in SUBSET S : Cardinality(s) <= n => SumAt(g, f, s)
             Bad == {n \in Nat : ~ \E g : Upto(n, g)}
  <1>1. ASSUME NEW s \in SUBSET S
        PROVE  /\ IsFiniteSet(s) /\ Cardinality(s) \in Nat
               /\ Cardinality(s) <= Cardinality(S)
               /\ s # {} => /\ Pick(s) \in s /\ s \ {Pick(s)} \in SUBSET S
                            /\ Cardinality(s \ {Pick(s)}) = Cardinality(s) - 1
    BY FS_Subset, FS_CardinalityType, FS_RemoveElement, PickIsElement
  <1>2. Bad = {}
    <2> SUFFICES ASSUME Bad # {} PROVE FALSE
      OBVIOUS
    <2>1. PICK n \in Bad : \A m \in Bad : n <= m
      BY LeastNumber
    <2>2. CASE n = 0
      <3> DEFINE g == [s \in SUBSET S |-> 0]
      <3>1. ASSUME NEW s \in SUBSET S, Cardinality(s) <= 0
            PROVE  SumAt(g, f, s)
        <4>1. Cardinality(s) \in Nat /\ IsFiniteSet(s)
          BY <1>1
        <4>2. Cardinality(s) = 0
          BY <4>1, <3>1
        <4>3. s = {}
          BY <4>1, <4>2, FS_EmptySet
        <4> QED
          BY <4>3 DEF SumAt
      <3> QED
        BY <2>2, <3>1
    <2>3. CASE n # 0
      <3>1. n - 1 \in Nat /\ n - 1 \notin Bad
        BY <2>1, <2>3
      <3>2. PICK g : Upto(n - 1, g)
        BY <3>1
      <3> DEFINE h == [s \in SUBSET S |-> IF Cardinality(s) <= n - 1 THEN g[s]
                                          ELSE f[Pick(s)] + g[s \ {Pick(s)}]]
      <3>3. ASSUME NEW s \in SUBSET S, Cardinality(s) <= n
            PROVE  SumAt(h, f, s)
        <4>1. CASE s = {}
          <5>1. Cardinality(s) = 0 /\ 0 <= n - 1
            BY <4>1, <3>1, FS_EmptySet
          <5> QED
            BY <4>1, <5>1, <3>2 DEF SumAt
        <4>2. CASE s # {}
          <5> DEFINE t == s \ {Pick(s)}
          <5>1. t \in SUBSET S /\ Cardinality(t) = Cardinality(s) - 1 /\ Cardinality(s) \in Nat
            BY <1>1, <4>2
          <5>2. h[t] = g[t]
            BY <5>1, <3>1, <3>3
          <5>3. h[s] = f[Pick(s)] + g[t]
            BY <3>2, <4>2 DEF SumAt
          <5> QED
            BY <5>2, <5>3, <4>2 DEF SumAt
        <4> QED
          BY <4>1, <4>2
      <3>4. Upto(n, h)
        BY <3>3
      <3> QED
        BY <3>4
    <2> QED
      BY <2>2, <2>3
  <1>3. Cardinality(S) \in Nat
    BY FS_CardinalityType
  <1>4. PICK g : Upto(Cardinality(S), g)
    BY <1>2, <1>3
  <1> DEFINE h == [s \in SUBSET S |-> g[s]]
  <1>5. ASSUME NEW s \in SUBSET S
        PROVE  h[s] = IF s = {} THEN 0 ELSE f[Pick(s)] + h[s \ {Pick(s)}]
    BY <1>1, <1>4 DEF SumAt
  <1>6. SumsUp(h, f, S)
    BY <1>5 DEF SumsUp
  <1> QED
    BY <1>6

\* What SumOf is.
LEMMA SumOfSums ==
  ASSUME NEW f, NEW S, IsFiniteSet(S)
  PROVE  \E g : SumsUp(g, f, S) /\ SumOf(f, S) = g[S]
  <1>1. SumOf(f, S) = (CHOOSE g : SumsUp(g, f, S))[S]
    BY DEF SumOf, MapThenSumSet, MapThenFoldSet, SumsUp, Pick
  <1> QED
    BY <1>1, SumsExist

\* Two solutions agree wherever both are defined and the summands agree.
LEMMA SumsAgree ==
  ASSUME NEW f1, NEW S1, NEW g1, SumsUp(g1, f1, S1),
         NEW f2, NEW S2, NEW g2, SumsUp(g2, f2, S2),
         NEW S, IsFiniteSet(S), S \subseteq S1, S \subseteq S2, \A x \in S : f1[x] = f2[x]
  PROVE  g1[S] = g2[S]
  <1> DEFINE Bad == {T \in SUBSET S : g1[T] # g2[T]}
  <1> SUFFICES ASSUME Bad # {} PROVE FALSE
    OBVIOUS
  <1>1. PICK T \in Bad : \A x \in T : T \ {x} \notin Bad
    BY SmallestSet
  <1>2. /\ g1[T] = IF T = {} THEN 0 ELSE f1[Pick(T)] + g1[T \ {Pick(T)}]
        /\ g2[T] = IF T = {} THEN 0 ELSE f2[Pick(T)] + g2[T \ {Pick(T)}]
    BY DEF SumsUp
  <1>3. CASE T = {}
    BY <1>1, <1>2, <1>3
  <1>4. CASE T # {}
    <2>1. Pick(T) \in T
      BY <1>4, PickIsElement
    <2>2. g1[T \ {Pick(T)}] = g2[T \ {Pick(T)}]
      BY <1>1, <2>1
    <2> QED
      BY <1>1, <1>2, <1>4, <2>1, <2>2
  <1> QED
    BY <1>3, <1>4

-----------------------------------------------------------------------------
(* What the proofs use.                                                    *)

\* A sum depends on the summands only.
LEMMA SumSame ==
  ASSUME NEW S, IsFiniteSet(S), NEW f1, NEW f2, \A x \in S : f1[x] = f2[x]
  PROVE  SumOf(f1, S) = SumOf(f2, S)
  BY SumOfSums, SumsAgree

LEMMA SumEmpty ==
  ASSUME NEW f
  PROVE  SumOf(f, {}) = 0
  <1>1. PICK g : SumsUp(g, f, {}) /\ SumOf(f, {}) = g[{}]
    BY SumOfSums, FS_EmptySet
  <1> QED
    BY <1>1 DEF SumsUp

\* The sums of integers are integers, over any set of subsets.
LEMMA SumsInt ==
  ASSUME NEW f, NEW S, IsFiniteSet(S), \A x \in S : f[x] \in Int,
         NEW g, SumsUp(g, f, S)
  PROVE  \A T \in SUBSET S : g[T] \in Int
  <1> DEFINE Bad == {T \in SUBSET S : g[T] \notin Int}
  <1> SUFFICES ASSUME Bad # {} PROVE FALSE
    OBVIOUS
  <1>1. PICK T \in Bad : \A x \in T : T \ {x} \notin Bad
    BY SmallestSet
  <1>2. g[T] = IF T = {} THEN 0 ELSE f[Pick(T)] + g[T \ {Pick(T)}]
    BY DEF SumsUp
  <1>3. CASE T = {}
    BY <1>1, <1>2, <1>3
  <1>4. CASE T # {}
    <2>1. Pick(T) \in T
      BY <1>4, PickIsElement
    <2>2. g[T \ {Pick(T)}] \in Int /\ f[Pick(T)] \in Int
      BY <1>1, <2>1
    <2> QED
      BY <1>1, <1>2, <1>4, <2>2
  <1> QED
    BY <1>3, <1>4

LEMMA SumInt ==
  ASSUME NEW f, NEW S, IsFiniteSet(S), \A x \in S : f[x] \in Int
  PROVE  SumOf(f, S) \in Int
  <1>1. PICK g : SumsUp(g, f, S) /\ SumOf(f, S) = g[S]
    BY SumOfSums
  <1> QED
    BY <1>1, SumsInt

\* Any element may be taken out first.
LEMMA SumRemove ==
  ASSUME NEW f, NEW S, IsFiniteSet(S), \A x \in S : f[x] \in Int, NEW x \in S
  PROVE  SumOf(f, S) = f[x] + SumOf(f, S \ {x})
  <1>1. PICK g : SumsUp(g, f, S) /\ SumOf(f, S) = g[S]
    BY SumOfSums
  <1>2. \A T \in SUBSET S : g[T] \in Int
    BY <1>1, SumsInt
  <1> DEFINE Bad == {T \in SUBSET S : \E y \in T : g[T] # f[y] + g[T \ {y}]}
  <1>3. Bad = {}
    <2> SUFFICES ASSUME Bad # {} PROVE FALSE
      OBVIOUS
    <2>1. PICK T \in Bad : \A y \in T : T \ {y} \notin Bad
      BY SmallestSet
    <2>2. PICK y \in T : g[T] # f[y] + g[T \ {y}]
      BY <2>1
    <2> DEFINE c == Pick(T)
    <2>3. c \in T /\ g[T] = f[c] + g[T \ {c}]
      BY <2>2, <1>1, PickIsElement DEF SumsUp
    <2> HIDE DEF c
    <2>4. c # y
      BY <2>2, <2>3
    <2>5. g[T \ {c}] = f[y] + g[(T \ {c}) \ {y}]
      BY <2>1, <2>2, <2>3, <2>4
    <2>6. g[T \ {y}] = f[c] + g[(T \ {y}) \ {c}]
      BY <2>1, <2>2, <2>3, <2>4
    <2>7. (T \ {c}) \ {y} = (T \ {y}) \ {c}
      OBVIOUS
    <2>8. f[c] \in Int /\ f[y] \in Int /\ g[(T \ {y}) \ {c}] \in Int
      BY <1>2, <2>2, <2>3
    <2> DEFINE rest == g[(T \ {y}) \ {c}]
    <2>9. g[T] = f[c] + (f[y] + rest) /\ f[y] + g[T \ {y}] = f[y] + (f[c] + rest)
      BY <2>3, <2>5, <2>6, <2>7
    <2> HIDE DEF rest
    <2>10. f[c] + (f[y] + rest) = f[y] + (f[c] + rest)
      BY <2>8 DEF rest
    <2> QED
      BY <2>2, <2>9, <2>10
  <1>4. g[S] = f[x] + g[S \ {x}]
    BY <1>3
  <1>5. IsFiniteSet(S \ {x})
    BY FS_RemoveElement
  <1>6. PICK h : SumsUp(h, f, S \ {x}) /\ SumOf(f, S \ {x}) = h[S \ {x}]
    BY <1>5, SumOfSums
  <1>7. h[S \ {x}] = g[S \ {x}]
    BY <1>1, <1>5, <1>6, SumsAgree
  <1> QED
    BY <1>1, <1>4, <1>6, <1>7

\* Changing one summand changes the sum by as much.
LEMMA SumUpdate ==
  ASSUME NEW S, IsFiniteSet(S), NEW f1, NEW f2, NEW x \in S,
         \A y \in S : f1[y] \in Int /\ f2[y] \in Int,
         \A y \in S \ {x} : f1[y] = f2[y]
  PROVE  SumOf(f2, S) = SumOf(f1, S) - f1[x] + f2[x]
  <1>1. IsFiniteSet(S \ {x})
    BY FS_RemoveElement
  <1>2. SumOf(f1, S \ {x}) = SumOf(f2, S \ {x})
    BY <1>1, SumSame
  <1>3. SumOf(f1, S) = f1[x] + SumOf(f1, S \ {x}) /\ SumOf(f2, S) = f2[x] + SumOf(f2, S \ {x})
    BY SumRemove
  <1>4. SumOf(f1, S \ {x}) \in Int
    BY <1>1, SumInt
  <1> QED
    BY <1>2, <1>3, <1>4

\* A sum that is zero for every summand.
LEMMA SumZero ==
  ASSUME NEW f, NEW S, IsFiniteSet(S), \A x \in S : f[x] = 0
  PROVE  SumOf(f, S) = 0
  <1>1. PICK g : SumsUp(g, f, S) /\ SumOf(f, S) = g[S]
    BY SumOfSums
  <1> DEFINE Bad == {T \in SUBSET S : g[T] # 0}
  <1>2. Bad = {}
    <2> SUFFICES ASSUME Bad # {} PROVE FALSE
      OBVIOUS
    <2>1. PICK T \in Bad : \A y \in T : T \ {y} \notin Bad
      BY SmallestSet
    <2>2. g[T] = IF T = {} THEN 0 ELSE f[Pick(T)] + g[T \ {Pick(T)}]
      BY <1>1 DEF SumsUp
    <2>3. CASE T # {}
      <3>1. Pick(T) \in T
        BY <2>3, PickIsElement
      <3> QED
        BY <2>1, <2>2, <2>3, <3>1
    <2> QED
      BY <2>1, <2>2, <2>3
  <1> QED
    BY <1>1, <1>2

\* Summand by summand, a smaller sum.
LEMMA SumMonotonic ==
  ASSUME NEW S, IsFiniteSet(S), NEW f1, NEW f2,
         \A x \in S : f1[x] \in Int /\ f2[x] \in Int /\ f1[x] <= f2[x]
  PROVE  SumOf(f1, S) <= SumOf(f2, S)
  <1>1. PICK g1 : SumsUp(g1, f1, S) /\ SumOf(f1, S) = g1[S]
    BY SumOfSums
  <1>2. PICK g2 : SumsUp(g2, f2, S) /\ SumOf(f2, S) = g2[S]
    BY SumOfSums
  <1>3. \A T \in SUBSET S : g1[T] \in Int /\ g2[T] \in Int
    BY <1>1, <1>2, SumsInt
  <1> DEFINE Bad == {T \in SUBSET S : ~(g1[T] <= g2[T])}
  <1>4. Bad = {}
    <2> SUFFICES ASSUME Bad # {} PROVE FALSE
      OBVIOUS
    <2>1. PICK T \in Bad : \A y \in T : T \ {y} \notin Bad
      BY SmallestSet
    <2>2. /\ g1[T] = IF T = {} THEN 0 ELSE f1[Pick(T)] + g1[T \ {Pick(T)}]
          /\ g2[T] = IF T = {} THEN 0 ELSE f2[Pick(T)] + g2[T \ {Pick(T)}]
      BY <1>1, <1>2 DEF SumsUp
    <2>3. CASE T = {}
      BY <2>1, <2>2, <2>3
    <2>4. CASE T # {}
      <3> DEFINE c == Pick(T)
      <3>1. c \in T
        BY <2>4, PickIsElement
      <3>2. g1[T \ {c}] <= g2[T \ {c}] /\ g1[T \ {c}] \in Int /\ g2[T \ {c}] \in Int
        BY <2>1, <3>1, <1>3
      <3>3. f1[c] \in Int /\ f2[c] \in Int /\ f1[c] <= f2[c]
        BY <3>1
      <3>4. g1[T] = f1[c] + g1[T \ {c}] /\ g2[T] = f2[c] + g2[T \ {c}]
        BY <2>2, <2>4
      <3> HIDE DEF c
      <3>5. g1[T] <= g2[T]
        BY <3>2, <3>3, <3>4
      <3> QED
        BY <2>1, <3>5
    <2> QED
      BY <2>3, <2>4
  <1> QED
    BY <1>1, <1>2, <1>4

\* A summand of a sum of naturals is at most the sum.
LEMMA SumAtLeast ==
  ASSUME NEW f, NEW S, IsFiniteSet(S), \A x \in S : f[x] \in Nat, NEW x \in S
  PROVE  f[x] <= SumOf(f, S) /\ SumOf(f, S) \in Nat
  <1> DEFINE z == [y \in S |-> 0]
  <1>1. IsFiniteSet(S \ {x})
    BY FS_RemoveElement
  <1>2. SumOf(z, S \ {x}) = 0
    BY <1>1, SumZero
  <1>3. SumOf(z, S \ {x}) <= SumOf(f, S \ {x})
    BY <1>1, SumMonotonic
  <1>4. SumOf(f, S) = f[x] + SumOf(f, S \ {x})
    BY SumRemove
  <1>5. SumOf(f, S \ {x}) \in Int
    BY <1>1, SumInt
  <1> QED
    BY <1>2, <1>3, <1>4, <1>5

\* The sum of linear functions of the summands.
Linear(f1, f2, a, b, S) == \A x \in S : f1[x] \in Int /\ f2[x] = a * f1[x] + b

LEMMA SumLinear ==
  ASSUME NEW S, IsFiniteSet(S), NEW f1, NEW f2, NEW a \in Int, NEW b \in Int,
         Linear(f1, f2, a, b, S)
  PROVE  SumOf(f2, S) = a * SumOf(f1, S) + b * Cardinality(S)
  <1>1. PICK g1 : SumsUp(g1, f1, S) /\ SumOf(f1, S) = g1[S]
    BY SumOfSums
  <1>2. PICK g2 : SumsUp(g2, f2, S) /\ SumOf(f2, S) = g2[S]
    BY SumOfSums
  <1>3. \A T \in SUBSET S : g1[T] \in Int
    BY <1>1, SumsInt DEF Linear
  <1> DEFINE Bad == {T \in SUBSET S : g2[T] # a * g1[T] + b * Cardinality(T)}
  <1>4. Bad = {}
    <2> SUFFICES ASSUME Bad # {} PROVE FALSE
      OBVIOUS
    <2>1. PICK T \in Bad : \A y \in T : T \ {y} \notin Bad
      BY SmallestSet
    <2>2. /\ g1[T] = IF T = {} THEN 0 ELSE f1[Pick(T)] + g1[T \ {Pick(T)}]
          /\ g2[T] = IF T = {} THEN 0 ELSE f2[Pick(T)] + g2[T \ {Pick(T)}]
      BY <1>1, <1>2 DEF SumsUp
    <2>3. CASE T = {}
      <3>1. g1[T] = 0 /\ g2[T] = 0 /\ Cardinality(T) = 0
        BY <2>2, <2>3, FS_EmptySet
      <3>2. a * 0 + b * 0 = 0
        OBVIOUS
      <3> QED
        BY <2>1, <3>1, <3>2
    <2>4. CASE T # {}
      <3> DEFINE c == Pick(T)
                 x == f1[c]
                 y == g1[T \ {c}]
                 n == Cardinality(T \ {c})
      <3>1. c \in T
        BY <2>4, PickIsElement
      <3>2. /\ IsFiniteSet(T \ {c}) /\ Cardinality(T \ {c}) = Cardinality(T) - 1
            /\ n \in Nat /\ Cardinality(T) \in Nat
        BY <3>1, FS_Subset, FS_RemoveElement, FS_CardinalityType
      <3>3. g2[T \ {c}] = a * y + b * n
        BY <2>1, <3>1
      <3>4. x \in Int /\ y \in Int /\ f2[c] = a * x + b
        BY <3>1, <1>3 DEF Linear
      <3>5. g1[T] = x + y /\ g2[T] = (a * x + b) + (a * y + b * n)
        BY <2>2, <2>4, <3>3, <3>4
      <3>6. Cardinality(T) = n + 1
        BY <3>2
      <3> HIDE DEF c, x, y, n
      <3>7. a * (x + y) + b * (n + 1) = (a * x + b) + (a * y + b * n)
        BY <3>2, <3>4
      <3>8. g2[T] = a * g1[T] + b * Cardinality(T)
        BY <3>5, <3>6, <3>7
      <3> QED
        BY <2>1, <3>8
    <2> QED
      BY <2>3, <2>4
  <1> QED
    BY <1>1, <1>2, <1>4

-----------------------------------------------------------------------------
(* Sums over the first numbers.                                            *)

\* The last term of a sum.
LEMMA SumLast ==
  ASSUME NEW f, NEW n \in Nat, n > 0, \A i \in 1..n : f[i] \in Int
  PROVE  SumOf(f, 1..n) = SumOf(f, 1..(n - 1)) + f[n]
  <1>1. IsFiniteSet(1..n) /\ n \in 1..n /\ (1..n) \ {n} = 1..(n - 1)
    BY FS_Interval
  <1>2. SumOf(f, 1..n) = f[n] + SumOf(f, (1..n) \ {n})
    BY <1>1, SumRemove
  <1>3. f[n] \in Int
    BY <1>1
  <1>4. SumOf(f, 1..(n - 1)) \in Int
    <2>1. IsFiniteSet((1..n) \ {n}) /\ \A i \in (1..n) \ {n} : f[i] \in Int
      BY <1>1, FS_RemoveElement
    <2>2. SumOf(f, (1..n) \ {n}) \in Int
      BY <2>1, SumInt
    <2> QED
      BY <1>1, <2>2
  <1>5. SumOf(f, 1..n) = f[n] + SumOf(f, 1..(n - 1))
    BY <1>1, <1>2
  <1> QED
    BY <1>3, <1>4, <1>5

\* A sum of naturals is no less than the sum of its first terms.
LEMMA SumPrefix ==
  ASSUME NEW f, NEW n \in Nat, \A i \in 1..n : f[i] \in Nat, NEW k \in 0..n
  PROVE  /\ SumOf(f, 1..k) \in Nat
         /\ SumOf(f, 1..k) <= SumOf(f, 1..n)
  <1>1. ASSUME NEW j \in 0..n
        PROVE  SumOf(f, 1..j) \in Nat
    <2>1. CASE j = 0
      <3>1. 1..j = {}
        BY <2>1
      <3> QED
        BY <3>1, SumEmpty
    <2>2. CASE j # 0
      <3>1. 1 \in 1..j /\ IsFiniteSet(1..j) /\ \A i \in 1..j : f[i] \in Nat
        BY <2>2, FS_Interval
      <3> QED
        BY <3>1, SumAtLeast
    <2> QED
      BY <2>1, <2>2
  <1> DEFINE Bad == {d \in 0..n : ~ (SumOf(f, 1..(n - d)) <= SumOf(f, 1..n))}
  <1>2. Bad = {}
    <2> SUFFICES ASSUME Bad # {} PROVE FALSE
      OBVIOUS
    <2>1. Bad \subseteq Nat
      OBVIOUS
    <2>2. PICK d \in Bad : \A e \in Bad : d <= e
      BY <2>1, LeastNumber
    <2>3. d \in 0..n /\ ~ (SumOf(f, 1..(n - d)) <= SumOf(f, 1..n))
      BY <2>2
    <2>4. d # 0
      <3>1. SumOf(f, 1..n) \in Nat
        BY <1>1
      <3> QED
        BY <2>3, <3>1
    <2>5. /\ d - 1 \in 0..n /\ n - (d - 1) \in 0..n /\ n - d \in 0..n
          /\ n - (d - 1) > 0 /\ (n - (d - 1)) - 1 = n - d
          /\ d - 1 \notin Bad
      <3>1. d \in Nat /\ d <= n /\ d > 0
        BY <2>3, <2>4
      <3>2. ~ (d <= d - 1)
        BY <3>1
      <3>3. d - 1 \notin Bad
        BY <2>2, <3>2
      <3> HIDE DEF Bad
      <3> QED
        BY <3>1, <3>3
    <2>6. SumOf(f, 1..(n - (d - 1))) <= SumOf(f, 1..n)
      BY <2>5
    <2>7. PICK m \in Nat : m = n - (d - 1) /\ m \in 1..n
      BY <2>5
    <2>8. SumOf(f, 1..m) = SumOf(f, 1..(m - 1)) + f[m]
      BY <2>7, SumLast
    <2>9. f[m] \in Nat /\ SumOf(f, 1..m) \in Nat /\ SumOf(f, 1..(n - d)) \in Nat
          /\ SumOf(f, 1..n) \in Nat /\ m - 1 = n - d
      BY <1>1, <2>5, <2>7
    <2>10. SumOf(f, 1..m) <= SumOf(f, 1..n)
      BY <2>6, <2>7
    <2> QED
      BY <2>3, <2>8, <2>9, <2>10
  <1>3. n - k \in 0..n /\ n - (n - k) = k
    OBVIOUS
  <1>4. n - k \notin Bad
    BY <1>2
  <1> QED
    BY <1>1, <1>3, <1>4

\* h is f, and then g.
Joins(h, f, g, n, m) ==
  /\ \A i \in 1..n : f[i] \in Int /\ h[i] = f[i]
  /\ \A i \in 1..m : g[i] \in Int /\ h[n + i] = g[i]

\* A sum in two parts.
LEMMA SumConcat ==
  ASSUME NEW n \in Nat, NEW m \in Nat, NEW f, NEW g, NEW h, Joins(h, f, g, n, m)
  PROVE  SumOf(h, 1..(n + m)) = SumOf(f, 1..n) + SumOf(g, 1..m)
  <1> USE DEF Joins
  <1>0. SumOf(f, 1..n) \in Int /\ \A j \in 0..m : SumOf(g, 1..j) \in Int
    <2>1. IsFiniteSet(1..n) /\ \A i \in 1..n : f[i] \in Int
      BY FS_Interval
    <2>2. SumOf(f, 1..n) \in Int
      BY <2>1, SumInt
    <2>3. ASSUME NEW j \in 0..m
          PROVE  SumOf(g, 1..j) \in Int
      <3>1. IsFiniteSet(1..j) /\ \A i \in 1..j : g[i] \in Int
        BY FS_Interval
      <3> QED
        BY <3>1, SumInt
    <2> QED
      BY <2>2, <2>3
  <1>1. ASSUME NEW i \in 1..(n + m)
        PROVE  h[i] \in Int
    <2>1. CASE i <= n
      BY <2>1
    <2>2. CASE i > n
      <3>1. i - n \in 1..m /\ n + (i - n) = i
        BY <2>2
      <3> QED
        BY <3>1
    <2> QED
      BY <2>1, <2>2
  <1> DEFINE Bad == {j \in 0..m : SumOf(h, 1..(n + j)) # SumOf(f, 1..n) + SumOf(g, 1..j)}
  <1>2. Bad = {}
    <2> SUFFICES ASSUME Bad # {} PROVE FALSE
      OBVIOUS
    <2>1. Bad \subseteq Nat
      OBVIOUS
    <2>2. PICK j \in Bad : \A e \in Bad : j <= e
      BY <2>1, LeastNumber
    <2>3. j \in 0..m /\ j \in Nat /\ SumOf(h, 1..(n + j)) # SumOf(f, 1..n) + SumOf(g, 1..j)
      BY <2>2
    <2>4. CASE j = 0
      <3>1. n + j = n /\ 1..j = {} /\ IsFiniteSet(1..n)
        BY <2>4, FS_Interval
      <3>2. SumOf(h, 1..n) = SumOf(f, 1..n)
        BY <3>1, SumSame
      <3>3. SumOf(g, 1..j) = 0
        BY <3>1, SumEmpty
      <3> QED
        BY <1>0, <2>3, <3>1, <3>2, <3>3
    <2>5. CASE j # 0
      <3>1. j - 1 \in 0..m /\ j - 1 \notin Bad
        BY <2>2, <2>3, <2>5
      <3>2. SumOf(h, 1..(n + (j - 1))) = SumOf(f, 1..n) + SumOf(g, 1..(j - 1))
        BY <3>1
      <3>3. n + j \in Nat /\ n + j > 0 /\ (n + j) - 1 = n + (j - 1) /\ j > 0 /\ j \in 1..m
            /\ \A i \in 1..(n + j) : i \in 1..(n + m)
        BY <2>3, <2>5
      <3>4. SumOf(h, 1..(n + j)) = SumOf(h, 1..((n + j) - 1)) + h[n + j]
        BY <1>1, <3>3, SumLast
      <3>5. SumOf(g, 1..j) = SumOf(g, 1..(j - 1)) + g[j]
        BY <2>3, <3>3, SumLast
      <3>6. h[n + j] = g[j] /\ g[j] \in Int
        BY <3>3
      <3> QED
        BY <1>0, <2>3, <3>1, <3>2, <3>3, <3>4, <3>5, <3>6, SMTT(60)
    <2> QED
      BY <2>4, <2>5
  <1>3. m \in 0..m /\ m \notin Bad
    BY <1>2
  <1> QED
    BY <1>3

=============================================================================
