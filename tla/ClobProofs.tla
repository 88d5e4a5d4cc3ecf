----------------------------- MODULE ClobProofs -----------------------------
(***************************************************************************)
(* Proofs about Clob, for every MaxPrice, MaxQty, MaxOrders and every set  *)
(* of order ids and accounts.                                              *)
(***************************************************************************)
EXTENDS ClobRefinement, TLAPS, WellFoundedInduction, SequenceTheorems

\* Every non-empty set of naturals has a least element.
LEMMA LeastNat ==
  ASSUME NEW T, T \subseteq Nat, T # {}
  PROVE  \E x \in T : \A y \in T : x <= y
<1>1. PICK x \in T : \A y \in T : ~ (<<y, x>> \in OpToRel(<, Nat))
  BY NatLessThanWellFounded, WFMin
<1>2. ASSUME NEW y \in T
      PROVE  x <= y
  <2>1. x \in Nat /\ y \in Nat
    OBVIOUS
  <2>2. ~ (y < x)
    BY <1>1, <2>1 DEF OpToRel
  <2>3. QED
    BY <2>1, <2>2
<1>3. QED
  BY <1>2

\* A side with any level has a best one: prices are bounded naturals. This
\* is why "the best level does not cross" means "no level crosses".
LEMMA BestExists ==
  ASSUME TypeOK, NEW s \in Sides, levels[s] # {}
  PROVE  \E p \in Prices : IsBest(s, p)
<1> DEFINE L == levels[s]
<1>1. L # {} /\ L \subseteq Nat /\ \A p \in L : p \in Prices /\ p \in Nat
  BY ClobAssumption DEF TypeOK, Prices
<1>3. CASE s = "Sell"
  <2>1. PICK x \in L : \A y \in L : x <= y
    BY <1>1, LeastNat
  <2>2. x \in Prices /\ \A y \in L : ~ (y < x)
    BY <1>1, <2>1
  <2>3. QED
    BY <1>3, <2>1, <2>2 DEF IsBest, Better
<1>4. CASE s = "Buy"
  <2> DEFINE T == {MaxPrice - p : p \in L}
  <2>1. T \subseteq Nat /\ T # {}
    BY <1>1, ClobAssumption DEF Prices
  <2>2. PICK x \in T : \A y \in T : x <= y
    BY <2>1, LeastNat
  <2>3. PICK p \in L : x = MaxPrice - p
    BY <2>2
  <2>4. \A q \in L : MaxPrice - p <= MaxPrice - q
    BY <2>2, <2>3
  <2>5. \A q \in L : ~ (q > p)
    BY <1>1, <2>3, <2>4, ClobAssumption DEF Prices
  <2>6. QED
    BY <1>1, <1>4, <2>3, <2>5 DEF IsBest, Better
<1>5. QED
  BY <1>3, <1>4 DEF Sides

-----------------------------------------------------------------------------
(* Queues: what removing one element leaves behind.                        *)

\* What `queue.remove(pos)` leaves: one order fewer, the others in order.
LEMMA RemoveAtProperties ==
  ASSUME NEW S, NEW q \in Seq(S), NEW i \in 1..Len(q)
  PROVE  /\ RemoveAt(q, i) \in Seq(S)
         /\ Len(RemoveAt(q, i)) = Len(q) - 1
         /\ \A j \in 1..(Len(q) - 1) :
              RemoveAt(q, i)[j] = IF j < i THEN q[j] ELSE q[j + 1]
<1> DEFINE a == SubSeq(q, 1, i - 1)
           b == SubSeq(q, i + 1, Len(q))
<1>1. Len(q) \in Nat /\ i \in Nat /\ 1 <= i /\ i <= Len(q)
  BY LenProperties
<1>2. a \in Seq(S) /\ Len(a) = i - 1 /\ \A j \in 1..(i - 1) : a[j] = q[j]
  BY <1>1, SubSeqProperties
<1>3. b \in Seq(S) /\ Len(b) = Len(q) - i
                   /\ \A j \in 1..(Len(q) - i) : b[j] = q[i + j]
  <2>1. i + 1 \in 1..Len(q) + 1 /\ Len(q) \in i..Len(q)
    BY <1>1
  <2>2. /\ b \in Seq(S)
        /\ Len(b) = IF i + 1 <= Len(q) THEN Len(q) - (i + 1) + 1 ELSE 0
        /\ \A j \in 1..(Len(q) - (i + 1) + 1) : b[j] = q[(i + 1) + j - 1]
    BY <1>1, <2>1, SubSeqProperties
  <2> HIDE DEF b
  <2>3. Len(b) = Len(q) - i
    BY <1>1, <2>2
  <2>4. ASSUME NEW j \in 1..(Len(q) - i)
        PROVE  b[j] = q[i + j]
    <3>1. j \in 1..(Len(q) - (i + 1) + 1) /\ (i + 1) + j - 1 = i + j
      BY <1>1
    <3>2. QED
      BY <2>2, <3>1
  <2>5. QED
    BY <2>2, <2>3, <2>4
<1>4. /\ a \o b \in Seq(S)
      /\ Len(a \o b) = Len(a) + Len(b)
      /\ \A j \in 1..(Len(a) + Len(b)) :
           (a \o b)[j] = IF j <= Len(a) THEN a[j] ELSE b[j - Len(a)]
  BY <1>2, <1>3, ConcatProperties
<1> HIDE DEF a, b
<1>5. Len(a) + Len(b) = Len(q) - 1
  BY <1>1, <1>2, <1>3
<1>6. ASSUME NEW j \in 1..(Len(q) - 1)
      PROVE  (a \o b)[j] = IF j < i THEN q[j] ELSE q[j + 1]
  <2>1. CASE j < i
    BY <1>1, <1>2, <1>4, <1>5, <2>1
  <2>2. CASE ~ (j < i)
    <3>1. (a \o b)[j] = b[j - (i - 1)]
      BY <1>1, <1>2, <1>4, <1>5, <2>2
    <3>2. j - (i - 1) \in 1..(Len(q) - i) /\ i + (j - (i - 1)) = j + 1
      BY <1>1, <2>2
    <3>3. QED
      BY <1>3, <2>2, <3>1, <3>2
  <2>3. QED
    BY <2>1, <2>2
<1>7. RemoveAt(q, i) = a \o b
  BY DEF RemoveAt, a, b
<1>8. QED
  BY <1>4, <1>5, <1>6, <1>7

\* `pop_front` is the removal of the first order.
LEMMA TailIsRemoveAt ==
  ASSUME NEW S, NEW q \in Seq(S), q # <<>>
  PROVE  /\ Len(q) \in Nat /\ Len(q) > 0
         /\ Tail(q) \in Seq(S)
         /\ Len(Tail(q)) = Len(q) - 1
         /\ \A j \in 1..(Len(q) - 1) : Tail(q)[j] = q[j + 1]
BY HeadTailProperties, LenProperties, EmptySeq

-----------------------------------------------------------------------------
(* The inductive invariant, one lemma per action.                          *)

\* The parts of the state every proof below starts from.
LEMMA Basics ==
  ASSUME TypeOK
  PROVE  /\ Len(log) \in Nat
         /\ log # <<>> => Len(log) > 0
         /\ \A n \in 1..Len(log) : /\ log[n].order \in Orders
                                   /\ log[n].filled \in Nat
                                   /\ log[n].closed \in Nat
         /\ \A s \in Sides, p \in Prices :
              /\ book[s][p] \in Seq(RestingOrder)
              /\ Len(book[s][p]) \in Nat
              /\ \A i \in 1..Len(book[s][p]) : book[s][p][i] \in RestingOrder
         /\ Prices \subseteq Nat
<1>1. log \in Seq(LogEntry)
  BY DEF TypeOK
<1>2. Len(log) \in Nat /\ (log # <<>> => Len(log) > 0)
  BY <1>1, LenProperties, EmptySeq
<1>3. \A n \in 1..Len(log) : log[n] \in LogEntry
  BY <1>1, ElementOfSeq
<1>4. ASSUME NEW s \in Sides, NEW p \in Prices
      PROVE  /\ book[s][p] \in Seq(RestingOrder)
             /\ Len(book[s][p]) \in Nat
             /\ \A i \in 1..Len(book[s][p]) : book[s][p][i] \in RestingOrder
  <2>1. book[s][p] \in Seq(RestingOrder)
    BY DEF TypeOK
  <2>2. QED
    BY <2>1, LenProperties, ElementOfSeq
<1>5. Prices \subseteq Nat
  BY ClobAssumption DEF Prices
<1>6. QED
  BY <1>2, <1>3, <1>4, <1>5 DEF LogEntry

\* The fields of an order a caller may submit.
LEMMA OrderFields ==
  ASSUME NEW o \in Orders
  PROVE  /\ o.id \in OrderIds /\ o.account \in Accounts /\ o.side \in Sides
         /\ o.qty \in Nat /\ o.type \in Types /\ o.price \in Prices
         /\ o.price \in Nat
         /\ Opposite(o.side) \in Sides /\ Opposite(o.side) # o.side
BY ClobAssumption DEF Orders, Sides, Opposite, Prices

\* Book::new: an empty book satisfies the invariant.
LEMMA InitIInv == Init => IInv
<1> SUFFICES ASSUME Init PROVE IInv
  OBVIOUS
<1> USE DEF Init
<1>1. book \in [Sides -> [Prices -> Seq(RestingOrder)]]
  OBVIOUS
<1>2. \A s \in Sides, p \in Prices : Len(book[s][p]) = 0
  OBVIOUS
<1>3. TypeOK
  <2>1. levels \in [Sides -> SUBSET Prices]
    OBVIOUS
  <2>2. fills \in Seq(Fill)
    BY EmptySeq
  <2>3. log \in Seq(LogEntry)
    BY EmptySeq
  <2>4. matching \in BOOLEAN /\ remaining \in Nat /\ (matching => log # <<>>)
    OBVIOUS
  <2>5. QED
    BY <1>1, <2>1, <2>2, <2>3, <2>4 DEF TypeOK
<1>4. LevelsMatchQueues /\ NotCrossed /\ TakerAccounted
  BY DEF LevelsMatchQueues, NotCrossed, TakerAccounted, Sides
<1>5. RestingIsUnfilled /\ QueuesInArrivalOrder
  BY <1>2 DEF RestingIsUnfilled, QueuesInArrivalOrder
<1>6. NoOrderLost
  BY DEF NoOrderLost
<1>7. QED
  BY <1>3, <1>4, <1>5, <1>6 DEF IInv

\* Entering Book::submit keeps the invariant.
LEMMA SubmitIInv ==
  ASSUME IInv, NEW o \in Orders, Submit(o)
  PROVE  IInv'
<1> USE DEF Submit
<1> DEFINE e == [order |-> o, filled |-> 0, closed |-> 0]
<1>0. TypeOK /\ ~ matching
  BY DEF IInv
<1>1. /\ log' \in Seq(LogEntry)
      /\ Len(log') = Len(log) + 1
      /\ log'[Len(log')] = e
      /\ \A n \in 1..Len(log) : log'[n] = log[n]
  BY <1>0, AppendProperties DEF TypeOK, LogEntry
<1>2. Len(log) \in Nat /\ Len(log') \in Nat /\ Len(log') > Len(log)
  BY <1>0, <1>1, Basics
<1>3. o.qty \in Nat
  BY OrderFields
<1>4. TypeOK'
  BY <1>0, <1>1, <1>2, <1>3, EmptySeq DEF TypeOK
<1>5. LevelsMatchQueues' /\ NotCrossed' /\ QueuesInArrivalOrder'
  BY DEF IInv, LevelsMatchQueues, NotCrossed, QueuesInArrivalOrder
<1>6. \A s \in Sides, p \in Prices : \A i \in 1..Len(book[s][p]) :
        /\ book[s][p][i].n \in 1..Len(log)
        /\ book[s][p][i].n \in 1..Len(log')
        /\ log'[book[s][p][i].n] = log[book[s][p][i].n]
        /\ book[s][p][i].n # Len(log')
  BY <1>1, <1>2 DEF IInv, RestingIsUnfilled
<1>7. RestingIsUnfilled'
  BY <1>6 DEF IInv, RestingIsUnfilled
<1>9. TakerAccounted'
  BY <1>1, <1>3, <1>6 DEF TakerAccounted, Order
<1>10. NoOrderLost'
  <2> SUFFICES ASSUME NEW n \in 1..Len(log')
               PROVE  \/ n = Len(log') /\ matching'
                            /\ log'[n].filled + remaining' = log'[n].order.qty
                      \/ log'[n].filled + log'[n].closed = log'[n].order.qty
                      \/ log'[n].closed = 0 /\ Rests(n)'
    BY DEF NoOrderLost
  <2>1. CASE n = Len(log')
    BY <1>1, <1>3, <2>1
  <2>2. CASE n # Len(log')
    <3>1. n \in 1..Len(log) /\ log'[n] = log[n]
      BY <1>1, <1>2, <2>2
    <3>2. Rests(n) => Rests(n)'
      BY <3>1 DEF Rests
    <3>3. QED
      BY <1>0, <3>1, <3>2 DEF IInv, NoOrderLost
  <2>3. QED
    BY <2>1, <2>2
<1>11. QED
  BY <1>4, <1>5, <1>7, <1>9, <1>10 DEF IInv

\* Replacing one queue of the book.
LEMMA BookUpdate ==
  ASSUME TypeOK, NEW s \in Sides, NEW p \in Prices, NEW q \in Seq(RestingOrder),
         book' = [book EXCEPT ![s][p] = q]
  PROVE  /\ book' \in [Sides -> [Prices -> Seq(RestingOrder)]]
         /\ book'[s][p] = q
         /\ \A t \in Sides, x \in Prices :
              t # s \/ x # p => book'[t][x] = book[t][x]
BY DEF TypeOK

\* Taking orders out of one queue and dropping its level if it runs empty.
LEMMA LevelsShrink ==
  ASSUME TypeOK, LevelsMatchQueues,
         NEW s \in Sides, NEW p \in Prices, NEW q \in Seq(RestingOrder),
         p \in levels[s],
         book' = [book EXCEPT ![s][p] = q],
         levels' = [levels EXCEPT ![s] = DropIfEmpty(s, p, q)]
  PROVE  /\ levels' \in [Sides -> SUBSET Prices]
         /\ \A t \in Sides : levels'[t] \subseteq levels[t]
         /\ LevelsMatchQueues'
         /\ NotCrossed => NotCrossed'
<1>1. /\ book'[s][p] = q
      /\ \A t \in Sides, x \in Prices :
           t # s \/ x # p => book'[t][x] = book[t][x]
  BY BookUpdate, ZenonT(60)
<1>2. levels' \in [Sides -> SUBSET Prices]
  BY DEF TypeOK, DropIfEmpty
<1>3. \A t \in Sides, x \in Prices :
        x \in levels'[t] <=> IF t = s /\ x = p THEN q # <<>> ELSE x \in levels[t]
  BY DEF TypeOK, DropIfEmpty
<1>4. \A t \in Sides : levels'[t] \subseteq levels[t]
  BY DEF TypeOK, DropIfEmpty
<1>5. LevelsMatchQueues'
  <2> SUFFICES ASSUME NEW t \in Sides, NEW x \in Prices
               PROVE  x \in levels'[t] <=> book'[t][x] # <<>>
    BY DEF LevelsMatchQueues
  <2>1. CASE t = s /\ x = p
    BY <1>1, <1>3, <2>1
  <2>2. CASE t # s \/ x # p
    BY <1>1, <1>3, <2>2 DEF LevelsMatchQueues
  <2>3. QED
    BY <2>1, <2>2
<1>6. NotCrossed => NotCrossed'
  BY <1>4 DEF NotCrossed, Sides
<1>7. QED
  BY <1>2, <1>4, <1>5, <1>6

\* Changing one entry of the order log.
LEMMA LogUpdate ==
  ASSUME NEW l \in Seq(LogEntry), NEW n \in 1..Len(l), NEW e \in LogEntry
  PROVE  /\ [l EXCEPT ![n] = e] \in Seq(LogEntry)
         /\ Len([l EXCEPT ![n] = e]) = Len(l)
         /\ [l EXCEPT ![n] = e][n] = e
         /\ \A m \in 1..Len(l) : m # n => [l EXCEPT ![n] = e][m] = l[m]
BY ExceptSeq, LenProperties

\* Closing an entry of the log leaves its order and its fills alone.
LEMMA CloseEntry ==
  ASSUME TypeOK, NEW n \in 1..Len(log), NEW c \in Nat,
         log' = [log EXCEPT ![n].closed = c]
  PROVE  /\ log' \in Seq(LogEntry)
         /\ Len(log') = Len(log)
         /\ log'[n].filled = log[n].filled
         /\ log'[n].closed = c
         /\ \A m \in 1..Len(log) : log'[m].order = log[m].order
         /\ \A m \in 1..Len(log) : m # n => log'[m] = log[m]
<1> DEFINE e == [log[n] EXCEPT !.closed = c]
<1>1. log \in Seq(LogEntry) /\ log[n] \in LogEntry
  BY ElementOfSeq DEF TypeOK
<1>2. /\ e \in LogEntry
      /\ e.order = log[n].order /\ e.filled = log[n].filled /\ e.closed = c
  BY <1>1 DEF LogEntry
<1>3. log' = [log EXCEPT ![n] = e]
  OBVIOUS
<1> HIDE DEF e
<1>4. QED
  BY <1>1, <1>2, <1>3, LogUpdate

\* A submit that rests nothing keeps the invariant.
LEMMA ReturnIInv ==
  ASSUME IInv, Return
  PROVE  IInv'
<1> USE DEF Return
<1>0. TypeOK /\ matching /\ ~ matching' /\ log # <<>>
  BY DEF IInv, TypeOK
<1>1. Len(log) \in Nat /\ Len(log) \in 1..Len(log)
  BY <1>0, Basics
<1>2. /\ log' \in Seq(LogEntry)
      /\ Len(log') = Len(log)
      /\ log'[Len(log)].filled = log[Len(log)].filled
      /\ log'[Len(log)].closed = remaining
      /\ \A n \in 1..Len(log) : log'[n].order = log[n].order
      /\ \A n \in 1..Len(log) : n # Len(log) => log'[n] = log[n]
  BY <1>0, <1>1, CloseEntry DEF TypeOK
<1>3. TypeOK'
  BY <1>0, <1>2 DEF TypeOK
<1>4. LevelsMatchQueues' /\ NotCrossed' /\ QueuesInArrivalOrder'
  BY DEF IInv, LevelsMatchQueues, NotCrossed, QueuesInArrivalOrder
<1>5. \A s \in Sides, p \in Prices : \A i \in 1..Len(book[s][p]) :
        log'[book[s][p][i].n] = log[book[s][p][i].n]
  BY <1>0, <1>2 DEF IInv, RestingIsUnfilled, TakerAccounted
<1>6. RestingIsUnfilled'
  <2>1. book' = book /\ 1..Len(log') = 1..Len(log)
    BY <1>2
  <2>2. QED
    BY <1>5, <2>1 DEF IInv, RestingIsUnfilled
<1>7. TakerAccounted'
  BY <1>0 DEF TakerAccounted
<1>8. NoOrderLost'
  <2> SUFFICES ASSUME NEW n \in 1..Len(log)
               PROVE  \/ log'[n].filled + log'[n].closed = log'[n].order.qty
                      \/ log'[n].closed = 0 /\ Rests(n)'
    BY <1>2 DEF NoOrderLost
  <2>1. CASE n = Len(log)
    BY <1>0, <1>2, <2>1 DEF IInv, TakerAccounted, Order
  <2>2. CASE n # Len(log)
    <3>1. Rests(n) => Rests(n)'
      BY <1>2, <2>2 DEF Rests
    <3>2. QED
      BY <1>0, <1>2, <2>2, <3>1 DEF IInv, NoOrderLost
  <2>3. QED
    BY <2>1, <2>2
<1>9. QED
  BY <1>3, <1>4, <1>6, <1>7, <1>8 DEF IInv

\* Resting the remainder of a limit order keeps the invariant: the loop
\* has left no opposite level within the limit, so the book is not crossed.
LEMMA RestIInv ==
  ASSUME IInv, Rest
  PROVE  IInv'
<1> USE DEF Rest, RestQty, PushBack
<1> DEFINE s == Order.side
           p == Order.price
           r == [n |-> Len(log), id |-> Order.id, account |-> Order.account,
                 qty |-> remaining]
           q == Append(book[s][p], r)
<1>0. TypeOK /\ matching /\ ~ matching' /\ log # <<>> /\ remaining \in Nat
  BY DEF IInv, TypeOK
<1>1. Len(log) \in Nat /\ Len(log) \in 1..Len(log) /\ Order \in Orders
  BY <1>0, Basics, SMTT(30) DEF Order
<1>2. /\ s \in Sides /\ p \in Prices /\ r \in RestingOrder
      /\ Opposite(s) \in Sides /\ Opposite(s) # s
  BY <1>0, <1>1, OrderFields DEF RestingOrder
<1>3. /\ book[s][p] \in Seq(RestingOrder) /\ Len(book[s][p]) \in Nat
      /\ q \in Seq(RestingOrder) /\ q # <<>>
      /\ Len(q) = Len(book[s][p]) + 1
      /\ q[Len(book[s][p]) + 1] = r
      /\ \A i \in 1..Len(book[s][p]) : q[i] = book[s][p][i]
  <2>1. book[s][p] \in Seq(RestingOrder) /\ Len(book[s][p]) \in Nat
    BY <1>0, <1>2, Basics
  <2>2. /\ q \in Seq(RestingOrder) /\ Len(q) = Len(book[s][p]) + 1
        /\ q[Len(book[s][p]) + 1] = r
        /\ \A i \in 1..Len(book[s][p]) : q[i] = book[s][p][i]
    BY <1>2, <2>1, AppendProperties, SMTT(30)
  <2>3. q # <<>>
    BY <2>1, <2>2, EmptySeq, SMTT(30)
  <2>4. QED
    BY <2>1, <2>2, <2>3
<1>4. /\ book' = [book EXCEPT ![s][p] = q]
      /\ levels' = [levels EXCEPT ![s] = @ \cup {p}]
      /\ log' = log
  OBVIOUS
<1>5. /\ r.n = Len(log) /\ r.qty = remaining /\ remaining > 0
      /\ r.id = Order.id /\ r.account = Order.account
      /\ Order.type = "Limit"
  OBVIOUS
<1>6. \A b \in levels[Opposite(s)] : ~ Crosses(Order, b)
  <2> SUFFICES ASSUME NEW b \in levels[Opposite(s)], Crosses(Order, b)
               PROVE  FALSE
    OBVIOUS
  <2>1. PICK x \in Prices : IsBest(Opposite(s), x)
    BY <1>0, <1>2, BestExists
  <2>2. b \in Nat /\ x \in Nat /\ p \in Nat /\ ~ Better(Opposite(s), b, x)
    BY <1>0, <1>2, <2>1, Basics DEF IsBest, TypeOK
  <2>3. Crosses(Order, x)
    BY <1>2, <1>5, <2>2 DEF Crosses, Better, Opposite, Sides
  <2>4. QED
    BY <1>5, <2>1, <2>3 DEF CanMatch
<1> HIDE DEF s, p, r, q
<1>7. /\ book' \in [Sides -> [Prices -> Seq(RestingOrder)]]
      /\ book'[s][p] = q
      /\ \A t \in Sides, x \in Prices :
           t # s \/ x # p => book'[t][x] = book[t][x]
  BY <1>0, <1>2, <1>3, <1>4, BookUpdate, ZenonT(60)
<1>8. /\ levels' \in [Sides -> SUBSET Prices]
      /\ \A t \in Sides, x \in Prices :
           x \in levels'[t] <=> x \in levels[t] \/ (t = s /\ x = p)
  <2>1. levels \in [Sides -> SUBSET Prices]
    BY <1>0 DEF TypeOK
  <2>2. levels' = [levels EXCEPT ![s] = levels[s] \cup {p}]
    BY <1>4
  <2>3. \A t \in Sides : levels'[t] = IF t = s THEN levels[s] \cup {p} ELSE levels[t]
    BY <1>2, <2>1, <2>2
  <2>4. levels' \in [Sides -> SUBSET Prices]
    <3>1. levels[s] \cup {p} \in SUBSET Prices
      BY <1>2, <2>1
    <3>2. QED
      BY <1>2, <2>1, <2>2, <3>1
  <2>5. QED
    BY <2>3, <2>4
<1>9. TypeOK'
  BY <1>0, <1>4, <1>7, <1>8 DEF TypeOK
<1>10. LevelsMatchQueues'
  <2> SUFFICES ASSUME NEW t \in Sides, NEW x \in Prices
               PROVE  x \in levels'[t] <=> book'[t][x] # <<>>
    BY DEF LevelsMatchQueues
  <2>1. CASE t = s /\ x = p
    BY <1>3, <1>7, <1>8, <2>1
  <2>2. CASE t # s \/ x # p
    <3>1. x \in levels'[t] <=> x \in levels[t]
      BY <1>8, <2>2
    <3>2. book'[t][x] = book[t][x]
      BY <1>7, <2>2
    <3>3. QED
      BY <3>1, <3>2 DEF IInv, LevelsMatchQueues
  <2>3. QED
    BY <2>1, <2>2
<1>11. NotCrossed'
  <2> SUFFICES ASSUME NEW b \in levels'["Buy"], NEW a \in levels'["Sell"]
               PROVE  b < a
    BY DEF NotCrossed
  <2>1. "Buy" \in Sides /\ "Sell" \in Sides /\ a \in Prices /\ b \in Prices
        /\ a \in Nat /\ b \in Nat
    BY <1>0, <1>8, Basics DEF Sides
  <2>2. CASE b \in levels["Buy"] /\ a \in levels["Sell"]
    BY <2>2 DEF IInv, NotCrossed
  <2>3. CASE b \notin levels["Buy"]
    <3>1. s = "Buy" /\ b = p
      BY <1>8, <2>1, <2>3
    <3>2. a \in levels["Sell"] /\ Opposite(s) = "Sell"
      BY <1>8, <2>1, <3>1 DEF Opposite
    <3>3. ~ (a <= p)
      BY <1>6, <3>1, <3>2 DEF Crosses, s, p
    <3>4. QED
      BY <2>1, <3>1, <3>3
  <2>4. CASE a \notin levels["Sell"]
    <3>1. s = "Sell" /\ a = p
      BY <1>8, <2>1, <2>4
    <3>2. b \in levels["Buy"] /\ Opposite(s) = "Buy"
      BY <1>8, <2>1, <3>1 DEF Opposite
    <3>3. ~ (b >= p)
      BY <1>6, <3>1, <3>2 DEF Crosses, s, p
    <3>4. QED
      BY <2>1, <3>1, <3>3
  <2>5. QED
    BY <2>2, <2>3, <2>4
<1>12. IsOpenPart(r, log[Len(log)], s, p)
  BY <1>0, <1>1, <1>5, Basics, SMTT(30) DEF IInv, TakerAccounted, IsOpenPart, Order, s, p
<1>13. RestingIsUnfilled'
  <2> SUFFICES ASSUME NEW t \in Sides, NEW x \in Prices,
                      NEW i \in 1..Len(book'[t][x])
               PROVE  /\ book'[t][x][i].n \in 1..Len(log)
                      /\ IsOpenPart(book'[t][x][i], log[book'[t][x][i].n], t, x)
    BY <1>4 DEF RestingIsUnfilled
  <2>1. CASE t = s /\ x = p /\ i = Len(book[s][p]) + 1
    BY <1>1, <1>3, <1>5, <1>7, <1>12, <2>1
  <2>2. CASE t = s /\ x = p /\ i # Len(book[s][p]) + 1
    <3>1. i \in 1..Len(book[s][p]) /\ book'[t][x][i] = book[s][p][i]
      BY <1>3, <1>7, <2>2
    <3>2. QED
      BY <1>2, <2>2, <3>1 DEF IInv, RestingIsUnfilled
  <2>3. CASE t # s \/ x # p
    BY <1>7, <2>3 DEF IInv, RestingIsUnfilled
  <2>4. QED
    BY <2>1, <2>2, <2>3
<1>14. QueuesInArrivalOrder'
  <2> SUFFICES ASSUME NEW t \in Sides, NEW x \in Prices,
                      NEW i \in 1..Len(book'[t][x]),
                      NEW j \in 1..Len(book'[t][x]), i < j
               PROVE  book'[t][x][i].n < book'[t][x][j].n
    BY DEF QueuesInArrivalOrder
  <2>1. CASE t = s /\ x = p /\ j = Len(book[s][p]) + 1
    <3>1. i \in 1..Len(book[s][p]) /\ book'[t][x][i] = book[s][p][i]
      BY <1>3, <1>7, <2>1
    <3>2. /\ book[s][p][i].n \in 1..Len(log)
          /\ book[s][p][i].n # Len(log)
      BY <1>0, <1>2, <3>1 DEF IInv, RestingIsUnfilled, TakerAccounted
    <3>3. QED
      BY <1>1, <1>3, <1>5, <1>7, <2>1, <3>1, <3>2
  <2>2. CASE t = s /\ x = p /\ j # Len(book[s][p]) + 1
    <3>1. /\ i \in 1..Len(book[s][p]) /\ book'[t][x][i] = book[s][p][i]
          /\ j \in 1..Len(book[s][p]) /\ book'[t][x][j] = book[s][p][j]
      BY <1>3, <1>7, <2>2, SMTT(30)
    <3>2. QED
      BY <1>2, <3>1 DEF IInv, QueuesInArrivalOrder
  <2>3. CASE t # s \/ x # p
    BY <1>7, <2>3 DEF IInv, QueuesInArrivalOrder
  <2>4. QED
    BY <2>1, <2>2, <2>3
<1>15. TakerAccounted'
  BY <1>0 DEF TakerAccounted
<1>16. NoOrderLost'
  <2> SUFFICES ASSUME NEW n \in 1..Len(log)
               PROVE  \/ log[n].filled + log[n].closed = log[n].order.qty
                      \/ log[n].closed = 0 /\ Rests(n)'
    BY <1>4 DEF NoOrderLost
  <2>1. CASE n = Len(log)
    <3>1. Rests(n)'
      <4>1. Len(book[s][p]) + 1 \in 1..Len(book'[s][p])
            /\ book'[s][p][Len(book[s][p]) + 1].n = n
        BY <1>3, <1>5, <1>7, <2>1
      <4>2. log'[n].order.side = s /\ log'[n].order.price = p
        BY <1>4, <2>1 DEF Order, s, p
      <4>3. QED
        BY <4>1, <4>2 DEF Rests
    <3>2. QED
      BY <1>0, <2>1, <3>1 DEF IInv, TakerAccounted
  <2>2. CASE n # Len(log)
    <3>1. ASSUME Rests(n)
          PROVE  Rests(n)'
      <4> DEFINE t == log[n].order.side
                 x == log[n].order.price
      <4>1. PICK i \in 1..Len(book[t][x]) : book[t][x][i].n = n
        BY <3>1 DEF Rests
      <4>2. t \in Sides /\ x \in Prices
        BY <1>0, Basics, OrderFields
      <4>3. i \in 1..Len(book'[t][x]) /\ book'[t][x][i] = book[t][x][i]
        BY <1>3, <1>7, <4>2, SMTT(30)
      <4>4. QED
        BY <1>4, <4>1, <4>3 DEF Rests
    <3>2. QED
      BY <1>0, <2>2, <3>1 DEF IInv, NoOrderLost
  <2>3. QED
    BY <2>1, <2>2
<1>17. QED
  BY <1>9, <1>10, <1>11, <1>13, <1>14, <1>15, <1>16 DEF IInv

\* An order number is on the book at most once.
LEMMA RestingUnique ==
  ASSUME IInv,
         NEW s \in Sides, NEW p \in Prices, NEW i \in 1..Len(book[s][p]),
         NEW t \in Sides, NEW x \in Prices, NEW j \in 1..Len(book[t][x]),
         book[s][p][i].n = book[t][x][j].n
  PROVE  s = t /\ p = x /\ i = j
<1> DEFINE n == book[s][p][i].n
<1>0. /\ IsOpenPart(book[s][p][i], log[n], s, p)
      /\ IsOpenPart(book[t][x][j], log[n], t, x)
  BY DEF IInv, RestingIsUnfilled
<1>1. s = t /\ p = x
  BY <1>0 DEF IsOpenPart
<1>2. i \in Int /\ j \in Int /\ n \in Nat
  <2>1. /\ Len(book[s][p]) \in Nat /\ Len(book[t][x]) \in Nat
        /\ book[s][p][i] \in RestingOrder
    BY Basics DEF IInv
  <2>2. QED
    BY <2>1 DEF RestingOrder
<1>3. ~ (i < j) /\ ~ (j < i)
  BY <1>1, <1>2 DEF IInv, QueuesInArrivalOrder
<1>4. QED
  BY <1>1, <1>2, <1>3

\* Book::cancel keeps the invariant.
LEMMA CancelIInv ==
  ASSUME IInv, NEW id \in OrderIds, Cancel(id)
  PROVE  IInv'
<1> USE DEF QueueAfterCancel
<1>1. PICK s \in Sides, p \in Prices : \E k \in 1..Len(book[s][p]) :
        /\ ~ matching
        /\ FirstWithId(id, s, p, k)
        /\ book' = [book EXCEPT ![s][p] = RemoveAt(book[s][p], k)]
        /\ levels' = [levels EXCEPT ![s] = DropIfEmpty(s, p, RemoveAt(book[s][p], k))]
        /\ log' = [log EXCEPT ![book[s][p][k].n].closed = book[s][p][k].qty]
        /\ UNCHANGED <<matching, remaining, fills>>
  BY DEF Cancel
<1> DEFINE q0 == book[s][p]
<1>2. PICK k \in 1..Len(q0) :
        /\ ~ matching
        /\ FirstWithId(id, s, p, k)
        /\ book' = [book EXCEPT ![s][p] = RemoveAt(q0, k)]
        /\ levels' = [levels EXCEPT ![s] = DropIfEmpty(s, p, RemoveAt(q0, k))]
        /\ log' = [log EXCEPT ![q0[k].n].closed = q0[k].qty]
        /\ UNCHANGED <<matching, remaining, fills>>
  BY <1>1
<1> DEFINE r == q0[k]
           q == RemoveAt(q0, k)
<1>3. TypeOK /\ ~ matching /\ ~ matching' /\ LevelsMatchQueues /\ p \in levels[s]
  BY <1>2 DEF IInv, FirstWithId
<1>4. /\ q0 \in Seq(RestingOrder) /\ Len(q0) \in Nat /\ r \in RestingOrder
      /\ r.qty \in Nat /\ r.n \in 1..Len(log) /\ Len(log) \in Nat
      /\ IsOpenPart(r, log[r.n], s, p)
  BY <1>3, Basics DEF IInv, RestingIsUnfilled, RestingOrder
<1>5. /\ q \in Seq(RestingOrder)
      /\ Len(q) = Len(q0) - 1
      /\ \A j \in 1..(Len(q0) - 1) : q[j] = IF j < k THEN q0[j] ELSE q0[j + 1]
  BY <1>4, RemoveAtProperties
<1>6. /\ log' \in Seq(LogEntry)
      /\ Len(log') = Len(log)
      /\ log'[r.n].filled = log[r.n].filled
      /\ log'[r.n].closed = r.qty
      /\ \A m \in 1..Len(log) : log'[m].order = log[m].order
      /\ \A m \in 1..Len(log) : m # r.n => log'[m] = log[m]
  BY <1>2, <1>3, <1>4, CloseEntry
<1>7. /\ book' = [book EXCEPT ![s][p] = q]
      /\ levels' = [levels EXCEPT ![s] = DropIfEmpty(s, p, q)]
      /\ UNCHANGED <<matching, remaining, fills>>
  BY <1>2
<1> HIDE DEF q, r, q0
<1>8. /\ book' \in [Sides -> [Prices -> Seq(RestingOrder)]]
      /\ book'[s][p] = q
      /\ \A t \in Sides, x \in Prices :
           t # s \/ x # p => book'[t][x] = book[t][x]
  BY <1>3, <1>5, <1>7, BookUpdate, ZenonT(60)
<1>9. /\ levels' \in [Sides -> SUBSET Prices]
      /\ LevelsMatchQueues'
      /\ NotCrossed'
  BY <1>3, <1>5, <1>7, LevelsShrink DEF IInv
<1>10. TypeOK'
  BY <1>3, <1>6, <1>7, <1>8, <1>9 DEF TypeOK
\* Everything that rests afterwards rested before, and is not r.
<1>11. ASSUME NEW t \in Sides, NEW x \in Prices, NEW i \in 1..Len(book'[t][x])
       PROVE  \E j \in 1..Len(book[t][x]) :
                /\ book'[t][x][i] = book[t][x][j]
                /\ j = (IF t = s /\ x = p /\ i >= k THEN i + 1 ELSE i)
                /\ book[t][x][j].n # r.n
  <2>1. CASE t = s /\ x = p
    <3>1. i \in 1..(Len(q0) - 1) /\ k \in Nat
      BY <1>4, <1>5, <1>8, <2>1
    <3> DEFINE j == IF i >= k THEN i + 1 ELSE i
    <3>2. j \in 1..Len(q0) /\ j # k /\ q[i] = q0[j]
      BY <1>4, <1>5, <3>1
    <3>3. q0[j].n # r.n
      BY <3>2, RestingUnique DEF r, q0
    <3>4. QED
      BY <1>8, <2>1, <3>1, <3>2, <3>3 DEF q0
  <2>2. CASE t # s \/ x # p
    <3>1. book'[t][x] = book[t][x] /\ i \in 1..Len(book[t][x])
      BY <1>8, <2>2
    <3>2. book[t][x][i].n # r.n
      BY <2>2, <3>1, RestingUnique DEF r, q0
    <3>3. QED
      BY <2>2, <3>1, <3>2
  <2>3. QED
    BY <2>1, <2>2
<1>12. RestingIsUnfilled'
  <2> SUFFICES ASSUME NEW t \in Sides, NEW x \in Prices,
                      NEW i \in 1..Len(book'[t][x])
               PROVE  /\ book'[t][x][i].n \in 1..Len(log')
                      /\ IsOpenPart(book'[t][x][i], log'[book'[t][x][i].n], t, x)
    BY DEF RestingIsUnfilled
  <2>1. PICK j \in 1..Len(book[t][x]) :
          book'[t][x][i] = book[t][x][j] /\ book[t][x][j].n # r.n
    BY <1>11
  <2>2. /\ book[t][x][j].n \in 1..Len(log)
        /\ IsOpenPart(book[t][x][j], log[book[t][x][j].n], t, x)
    BY DEF IInv, RestingIsUnfilled
  <2>3. QED
    BY <1>6, <2>1, <2>2
<1>13. QueuesInArrivalOrder'
  <2> SUFFICES ASSUME NEW t \in Sides, NEW x \in Prices,
                      NEW i \in 1..Len(book'[t][x]),
                      NEW j \in 1..Len(book'[t][x]), i < j
               PROVE  book'[t][x][i].n < book'[t][x][j].n
    BY DEF QueuesInArrivalOrder
  <2>1. PICK a \in 1..Len(book[t][x]) :
          /\ book'[t][x][i] = book[t][x][a]
          /\ a = (IF t = s /\ x = p /\ i >= k THEN i + 1 ELSE i)
    BY <1>11
  <2>2. PICK b \in 1..Len(book[t][x]) :
          /\ book'[t][x][j] = book[t][x][b]
          /\ b = (IF t = s /\ x = p /\ j >= k THEN j + 1 ELSE j)
    BY <1>11
  <2>3. i \in Int /\ j \in Int /\ k \in Int
    BY <1>4, <1>10, Basics
  <2>4. a < b
    BY <2>1, <2>2, <2>3
  <2>5. QED
    BY <2>1, <2>2, <2>4 DEF IInv, QueuesInArrivalOrder
<1>14. TakerAccounted'
  BY <1>3 DEF TakerAccounted
<1>15. NoOrderLost'
  <2> SUFFICES ASSUME NEW n \in 1..Len(log)
               PROVE  \/ log'[n].filled + log'[n].closed = log'[n].order.qty
                      \/ log'[n].closed = 0 /\ Rests(n)'
    BY <1>6 DEF NoOrderLost
  <2>1. CASE n = r.n
    <3>1. log[n].filled \in Nat /\ r.qty + log[n].filled = log[n].order.qty
      BY <1>3, <1>4, <2>1, Basics DEF IsOpenPart
    <3>2. QED
      BY <1>4, <1>6, <2>1, <3>1
  <2>2. CASE n # r.n
    <3>1. ASSUME Rests(n)
          PROVE  Rests(n)'
      <4> DEFINE t == log[n].order.side
                 x == log[n].order.price
      <4>1. PICK i \in 1..Len(book[t][x]) : book[t][x][i].n = n
        BY <3>1 DEF Rests
      <4>2. t \in Sides /\ x \in Prices /\ Len(book[t][x]) \in Nat
        BY <1>3, Basics, OrderFields
      <4>3. CASE t = s /\ x = p
        <5> DEFINE j == IF i < k THEN i ELSE i - 1
        <5>1. i # k
          BY <2>2, <4>1, <4>3 DEF r, q0
        <5>2. j \in 1..Len(q) /\ q[j] = book[t][x][i]
          BY <1>4, <1>5, <4>2, <4>3, <5>1 DEF q0
        <5>3. log'[n].order.side = s /\ log'[n].order.price = p
          BY <1>6, <4>3
        <5>4. QED
          BY <1>8, <4>1, <5>2, <5>3 DEF Rests
      <4>4. CASE t # s \/ x # p
        <5>1. book'[t][x] = book[t][x]
          BY <1>8, <4>2, <4>4
        <5>2. QED
          BY <1>6, <4>1, <5>1 DEF Rests
      <4>5. QED
        BY <4>3, <4>4
    <3>2. QED
      BY <1>3, <1>6, <2>2, <3>1 DEF IInv, NoOrderLost
  <2>3. QED
    BY <2>1, <2>2
<1>16. QED
  BY <1>9, <1>10, <1>12, <1>13, <1>14, <1>15 DEF IInv

\* Filling an entry of the log leaves its order alone.
LEMMA FilledEntry ==
  ASSUME NEW e \in LogEntry, NEW f \in Nat
  PROVE  /\ [e EXCEPT !.filled = @ + f] \in LogEntry
         /\ [e EXCEPT !.filled = @ + f].order = e.order
         /\ [e EXCEPT !.filled = @ + f].closed = e.closed
         /\ [e EXCEPT !.filled = @ + f].filled = e.filled + f
<1>1. e.filled \in Nat /\ e.filled + f \in Nat
  BY DEF LogEntry
<1> DEFINE g == e.filled + f
<1>2. [e EXCEPT !.filled = @ + f] = [e EXCEPT !.filled = g]
  OBVIOUS
<1>3. g \in Nat
  BY <1>1
<1> HIDE DEF g
<1>4. /\ [e EXCEPT !.filled = g] \in LogEntry
      /\ [e EXCEPT !.filled = g].order = e.order
      /\ [e EXCEPT !.filled = g].closed = e.closed
      /\ [e EXCEPT !.filled = g].filled = g
  BY <1>3 DEF LogEntry
<1>5. QED
  BY <1>2, <1>4 DEF g

\* A fill: two entries of the log, the maker's and the taker's, grow by f.
LEMMA FillEntries ==
  ASSUME TypeOK, NEW m \in 1..Len(log), NEW k \in 1..Len(log), m # k,
         NEW f \in Nat,
         log' = [log EXCEPT ![m].filled = @ + f, ![k].filled = @ + f]
  PROVE  /\ log' \in Seq(LogEntry)
         /\ Len(log') = Len(log)
         /\ log'[m].filled = log[m].filled + f
         /\ log'[k].filled = log[k].filled + f
         /\ \A n \in 1..Len(log) : log'[n].order = log[n].order
         /\ \A n \in 1..Len(log) : log'[n].closed = log[n].closed
         /\ \A n \in 1..Len(log) : n # m /\ n # k => log'[n] = log[n]
<1> DEFINE a == [log[m] EXCEPT !.filled = @ + f]
           b == [log[k] EXCEPT !.filled = @ + f]
           l == [log EXCEPT ![m] = a]
<1>1. log \in Seq(LogEntry) /\ log[m] \in LogEntry /\ log[k] \in LogEntry
  BY ElementOfSeq DEF TypeOK
<1>2. /\ a \in LogEntry /\ a.order = log[m].order
      /\ a.closed = log[m].closed /\ a.filled = log[m].filled + f
  BY <1>1, FilledEntry
<1>3. /\ b \in LogEntry /\ b.order = log[k].order
      /\ b.closed = log[k].closed /\ b.filled = log[k].filled + f
  BY <1>1, FilledEntry
<1>4. /\ l \in Seq(LogEntry) /\ Len(l) = Len(log) /\ l[m] = a
      /\ \A n \in 1..Len(log) : n # m => l[n] = log[n]
  BY <1>1, <1>2, LogUpdate
<1>5. log' = [l EXCEPT ![k] = b]
  OBVIOUS
<1> HIDE DEF a, b, l
<1>6. /\ log' \in Seq(LogEntry) /\ Len(log') = Len(log) /\ log'[k] = b
      /\ \A n \in 1..Len(log) : n # k => log'[n] = l[n]
  <2>1. k \in 1..Len(l)
    BY <1>4
  <2> DEFINE g == [l EXCEPT ![k] = b]
  <2>2. /\ g \in Seq(LogEntry) /\ Len(g) = Len(l) /\ g[k] = b
        /\ \A n \in 1..Len(l) : n # k => g[n] = l[n]
    BY <1>3, <1>4, <2>1, LogUpdate
  <2>3. log' = g
    BY <1>5
  <2> HIDE DEF g
  <2>4. QED
    BY <1>4, <2>2, <2>3
<1>7. QED
  BY <1>2, <1>3, <1>4, <1>6

\* What a fill of f leaves of a queue: without its first order when that one
\* is filled completely, otherwise with a smaller first order.
LEMMA QueueAfterFillProperties ==
  ASSUME NEW q0 \in Seq(RestingOrder), q0 # <<>>, NEW f \in Nat, f <= q0[1].qty
  PROVE  LET q == QueueAfterFill(q0, f)
             shift == IF q0[1].qty = f THEN 1 ELSE 0
         IN /\ q \in Seq(RestingOrder)
            /\ Len(q) = Len(q0) - shift
            /\ \A j \in 1..Len(q) :
                 (q0[1].qty = f \/ j # 1) => q[j] = q0[j + shift]
            /\ q0[1].qty # f => /\ q[1].n = q0[1].n /\ q[1].id = q0[1].id
                                /\ q[1].account = q0[1].account
                                /\ q[1].qty = q0[1].qty - f
<1> USE DEF QueueAfterFill
<1> DEFINE maker == q0[1]
           q == QueueAfterFill(q0, f)
           pop == maker.qty = f
           shift == IF pop THEN 1 ELSE 0
<1>1. /\ Len(q0) \in Nat /\ Len(q0) > 0 /\ 1 \in 1..Len(q0)
      /\ maker \in RestingOrder
  BY TailIsRemoveAt, ElementOfSeq
<1>2. CASE pop
  BY <1>1, <1>2, TailIsRemoveAt
<1>3. CASE ~ pop
  <2> DEFINE e == [maker EXCEPT !.qty = @ - f]
  <2>1. /\ e \in RestingOrder /\ e.n = maker.n /\ e.id = maker.id
        /\ e.account = maker.account /\ e.qty = maker.qty - f
    BY <1>1 DEF RestingOrder
  <2>2. q = [q0 EXCEPT ![1] = e]
    BY <1>3
  <2> HIDE DEF e, q
  <2>3. /\ q \in Seq(RestingOrder) /\ Len(q) = Len(q0) /\ q[1] = e
        /\ \A j \in 1..Len(q0) : j # 1 => q[j] = q0[j]
    BY <1>1, <2>1, <2>2, ExceptSeq
  <2>4. QED
    BY <1>1, <1>3, <2>1, <2>3 DEF q
<1>4. QED
  BY <1>2, <1>3

\* One iteration of the matching loop keeps the invariant.
LEMMA MatchIInv ==
  ASSUME IInv, NEW p \in Prices, MatchAtLevel(p)
  PROVE  IInv'
<1> USE DEF FillQty
<1> DEFINE s == Opposite(Order.side)
           q0 == book[s][p]
           maker == q0[1]
           f == FillQty(maker)
           q == QueueAfterFill(q0, f)
<1>0. /\ TypeOK /\ matching /\ matching' /\ log # <<>> /\ remaining \in Nat
      /\ remaining > 0 /\ p \in levels[s] /\ LevelsMatchQueues
  BY DEF IInv, TypeOK, MatchAtLevel, IsBest
<1>1. Len(log) \in Nat /\ Len(log) \in 1..Len(log) /\ Order \in Orders
  BY <1>0, Basics DEF Order
<1>2. s \in Sides
  BY <1>1, OrderFields
<1>3. /\ book' = [book EXCEPT ![s][p] = q]
      /\ levels' = [levels EXCEPT ![s] = DropIfEmpty(s, p, q)]
      /\ remaining' = remaining - f
      /\ log' = [log EXCEPT ![maker.n].filled = @ + f, ![Len(log)].filled = @ + f]
      /\ fills' = Append(fills, [maker |-> maker, taker |-> Len(log),
                                 price |-> p, qty |-> f, maker_side |-> s])
  BY DEF MatchAtLevel
<1>4. /\ q0 \in Seq(RestingOrder) /\ q0 # <<>> /\ Len(q0) \in Nat /\ Len(q0) > 0
      /\ 1 \in 1..Len(q0)
  BY <1>0, <1>2, Basics, TailIsRemoveAt DEF LevelsMatchQueues
<1>5. /\ maker \in RestingOrder /\ maker.qty \in Nat
      /\ maker.n \in 1..Len(log) /\ maker.n # Len(log)
      /\ IsOpenPart(maker, log[maker.n], s, p)
  <2>1. maker \in RestingOrder /\ maker.qty \in Nat
    BY <1>0, <1>2, <1>4, Basics DEF RestingOrder
  <2>2. QED
    BY <1>0, <1>2, <1>4, <2>1 DEF IInv, RestingIsUnfilled, TakerAccounted
<1>6. f \in Nat /\ f > 0 /\ f <= maker.qty /\ f <= remaining
  BY <1>0, <1>5, SMTT(30) DEF IsOpenPart
<1>7. /\ log' \in Seq(LogEntry)
      /\ Len(log') = Len(log)
      /\ log'[maker.n].filled = log[maker.n].filled + f
      /\ log'[Len(log)].filled = log[Len(log)].filled + f
      /\ \A n \in 1..Len(log) : log'[n].order = log[n].order
      /\ \A n \in 1..Len(log) : log'[n].closed = log[n].closed
      /\ \A n \in 1..Len(log) : n # maker.n /\ n # Len(log) => log'[n] = log[n]
  BY <1>0, <1>1, <1>3, <1>5, <1>6, FillEntries, ZenonT(60)
<1> DEFINE pop == maker.qty = f
           shift == IF pop THEN 1 ELSE 0
<1>8. /\ q \in Seq(RestingOrder)
      /\ Len(q) = Len(q0) - shift
      /\ \A j \in 1..Len(q) : (pop \/ j # 1) => q[j] = q0[j + shift]
      /\ ~ pop => /\ q[1].n = maker.n /\ q[1].id = maker.id
                  /\ q[1].account = maker.account
                  /\ q[1].qty = maker.qty - f
  BY <1>4, <1>6, QueueAfterFillProperties
<1> HIDE DEF s, q0, maker, f, q
<1>9. /\ book' \in [Sides -> [Prices -> Seq(RestingOrder)]]
      /\ book'[s][p] = q
      /\ \A t \in Sides, x \in Prices :
           t # s \/ x # p => book'[t][x] = book[t][x]
  BY <1>0, <1>2, <1>3, <1>8, BookUpdate, ZenonT(60)
<1>10. levels' \in [Sides -> SUBSET Prices] /\ LevelsMatchQueues' /\ NotCrossed'
  BY <1>0, <1>2, <1>3, <1>8, LevelsShrink DEF IInv
<1>11. TypeOK'
  <2>1. fills' \in Seq(Fill)
    <3>1. [maker |-> maker, taker |-> Len(log), price |-> p, qty |-> f,
           maker_side |-> s] \in Fill
      BY <1>1, <1>2, <1>5, <1>6 DEF Fill
    <3>2. QED
      BY <1>0, <1>3, <3>1, AppendProperties DEF TypeOK
  <2>2. remaining' \in Nat
    BY <1>0, <1>3, <1>6
  <2>3. log' # <<>>
    BY <1>1, <1>7, EmptySeq
  <2>4. QED
    BY <1>0, <1>7, <1>9, <1>10, <2>1, <2>2, <2>3 DEF TypeOK
\* What rests afterwards: the maker, smaller by f, and what rested before.
<1>12. ASSUME NEW t \in Sides, NEW x \in Prices, NEW i \in 1..Len(book'[t][x])
       PROVE  \E j \in 1..Len(book[t][x]) :
                /\ j = (IF t = s /\ x = p THEN i + shift ELSE i)
                /\ book'[t][x][i].n = book[t][x][j].n
                /\ \/ /\ book'[t][x][i] = book[t][x][j]
                      /\ book[t][x][j].n # maker.n
                   \/ /\ t = s /\ x = p /\ ~ pop
                      /\ book'[t][x][i].n = maker.n
                      /\ book'[t][x][i].id = maker.id
                      /\ book'[t][x][i].account = maker.account
                      /\ book'[t][x][i].qty = maker.qty - f
  <2>1. CASE t = s /\ x = p
    <3> DEFINE j == i + shift
    <3>1. i \in 1..Len(q) /\ j \in 1..Len(q0) /\ i \in Nat
      BY <1>4, <1>8, <1>9, <2>1
    <3>2. CASE pop \/ i # 1
      <4>1. q[i] = q0[j] /\ j # 1
        BY <1>8, <3>1, <3>2
      <4>2. q0[j].n # maker.n
        BY <1>2, <1>4, <3>1, <4>1, RestingUnique DEF maker, q0
      <4>3. QED
        BY <1>9, <2>1, <3>1, <4>1, <4>2 DEF q0
    <3>3. CASE ~ pop /\ i = 1
      BY <1>8, <1>9, <2>1, <3>1, <3>3 DEF q0, maker
    <3>4. QED
      BY <3>2, <3>3
  <2>2. CASE t # s \/ x # p
    <3>1. book'[t][x] = book[t][x] /\ i \in 1..Len(book[t][x])
      BY <1>9, <2>2
    <3>2. book[t][x][i].n # maker.n
      BY <1>2, <1>4, <2>2, <3>1, RestingUnique DEF maker, q0
    <3>3. QED
      BY <2>2, <3>1, <3>2
  <2>3. QED
    BY <2>1, <2>2
<1>13. RestingIsUnfilled'
  <2> SUFFICES ASSUME NEW t \in Sides, NEW x \in Prices,
                      NEW i \in 1..Len(book'[t][x])
               PROVE  /\ book'[t][x][i].n \in 1..Len(log')
                      /\ IsOpenPart(book'[t][x][i], log'[book'[t][x][i].n], t, x)
    BY DEF RestingIsUnfilled
  <2> DEFINE r == book'[t][x][i]
  <2>1. PICK j \in 1..Len(book[t][x]) :
          \/ r = book[t][x][j] /\ book[t][x][j].n # maker.n
          \/ /\ t = s /\ x = p /\ ~ pop
             /\ r.n = maker.n /\ r.id = maker.id
             /\ r.account = maker.account /\ r.qty = maker.qty - f
    BY <1>12
  <2>2. CASE r = book[t][x][j] /\ book[t][x][j].n # maker.n
    <3>1. /\ r.n \in 1..Len(log) /\ r.n # Len(log)
          /\ IsOpenPart(r, log[r.n], t, x)
      BY <1>0, <2>2 DEF IInv, RestingIsUnfilled, TakerAccounted
    <3>2. log'[r.n] = log[r.n]
      BY <1>7, <2>2, <3>1
    <3>3. QED
      BY <1>7, <3>1, <3>2
  <2>3. CASE /\ t = s /\ x = p /\ ~ pop
             /\ r.n = maker.n /\ r.id = maker.id
             /\ r.account = maker.account /\ r.qty = maker.qty - f
    <3>1. log[maker.n].filled \in Nat
      BY <1>0, <1>5, Basics
    <3> DEFINE e == log[maker.n]
               g == log'[maker.n]
    <3>2. /\ g.order = e.order /\ g.closed = e.closed /\ g.filled = e.filled + f
          /\ IsOpenPart(maker, e, t, x)
      BY <1>5, <1>7, <2>3
    <3> HIDE DEF e, g, r, pop
    <3>3. r.qty > 0 /\ r.qty + g.filled = e.order.qty
      <4>1. maker.qty + e.filled = e.order.qty
        BY <3>2 DEF IsOpenPart
      <4>2. f # maker.qty /\ e.filled \in Nat
        BY <2>3, <3>1 DEF pop, e
      <4>3. r.qty = maker.qty - f /\ g.filled = e.filled + f
        BY <2>3, <3>2
      <4>4. maker.qty - f > 0
        BY <1>5, <1>6, <4>2
      <4>5. (maker.qty - f) + (e.filled + f) = maker.qty + e.filled
        BY <1>5, <1>6, <4>2
      <4>6. QED
        BY <4>1, <4>3, <4>4, <4>5
    <3>4. IsOpenPart(r, g, t, x)
      BY <2>3, <3>2, <3>3 DEF IsOpenPart
    <3>5. QED
      BY <1>5, <1>7, <2>3, <3>4 DEF r, g
  <2>4. QED
    BY <2>1, <2>2, <2>3
<1>14. QueuesInArrivalOrder'
  <2> SUFFICES ASSUME NEW t \in Sides, NEW x \in Prices,
                      NEW i \in 1..Len(book'[t][x]),
                      NEW j \in 1..Len(book'[t][x]), i < j
               PROVE  book'[t][x][i].n < book'[t][x][j].n
    BY DEF QueuesInArrivalOrder
  <2>1. PICK a \in 1..Len(book[t][x]) :
          /\ a = (IF t = s /\ x = p THEN i + shift ELSE i)
          /\ book'[t][x][i].n = book[t][x][a].n
    BY <1>12
  <2>2. PICK b \in 1..Len(book[t][x]) :
          /\ b = (IF t = s /\ x = p THEN j + shift ELSE j)
          /\ book'[t][x][j].n = book[t][x][b].n
    BY <1>12
  <2>3. i \in Int /\ j \in Int
    BY <1>11, Basics
  <2>4. a < b
    BY <2>1, <2>2, <2>3
  <2>5. QED
    BY <2>1, <2>2, <2>4 DEF IInv, QueuesInArrivalOrder
<1>15. TakerAccounted'
  <2>1. log[Len(log)].filled \in Nat /\ Order.qty \in Nat
    BY <1>0, <1>1, Basics, OrderFields
  <2>2. /\ log[Len(log)].filled + remaining = Order.qty
        /\ log[Len(log)].closed = 0
    BY <1>0 DEF IInv, TakerAccounted
  <2>3. log'[Len(log')].filled + remaining' = Order.qty
    BY <1>0, <1>3, <1>6, <1>7, <2>1, <2>2
  <2>4. log'[Len(log')].order = Order /\ log'[Len(log')].closed = 0
    BY <1>1, <1>7, <2>2 DEF Order
  <2>5. ASSUME NEW t \in Sides, NEW x \in Prices, NEW i \in 1..Len(book'[t][x])
        PROVE  book'[t][x][i].n # Len(log')
    <3>1. PICK j \in 1..Len(book[t][x]) : book'[t][x][i].n = book[t][x][j].n
      BY <1>12
    <3>2. book[t][x][j].n # Len(log)
      BY <1>0 DEF IInv, TakerAccounted
    <3>3. QED
      BY <1>7, <3>1, <3>2
  <2>6. QED
    BY <2>3, <2>4, <2>5 DEF TakerAccounted, Order
<1>16. NoOrderLost'
  <2> SUFFICES ASSUME NEW n \in 1..Len(log)
               PROVE  \/ n = Len(log') /\ matching'
                            /\ log'[n].filled + remaining' = log'[n].order.qty
                      \/ log'[n].filled + log'[n].closed = log'[n].order.qty
                      \/ log'[n].closed = 0 /\ Rests(n)'
    BY <1>7 DEF NoOrderLost
  <2>1. CASE n = Len(log)
    BY <1>0, <1>7, <1>15, <2>1 DEF TakerAccounted, Order
  <2>2. CASE n = maker.n /\ pop
    <3>1. /\ log[n].filled \in Nat /\ log[n].closed = 0
          /\ maker.qty + log[n].filled = log[n].order.qty
      BY <1>0, <1>5, <2>2, Basics DEF IsOpenPart
    <3>2. QED
      BY <1>5, <1>6, <1>7, <2>2, <3>1
  <2>3. CASE n = maker.n /\ ~ pop
    <3>1. /\ log'[n].order.side = s /\ log'[n].order.price = p
          /\ log'[n].closed = 0
      BY <1>5, <1>7, <2>3 DEF IsOpenPart
    <3>2. 1 \in 1..Len(book'[s][p]) /\ book'[s][p][1].n = n
      BY <1>4, <1>8, <1>9, <2>3
    <3>3. QED
      BY <3>1, <3>2 DEF Rests
  <2>4. CASE n # Len(log) /\ n # maker.n
    <3>1. ASSUME Rests(n)
          PROVE  Rests(n)'
      <4> DEFINE t == log[n].order.side
                 x == log[n].order.price
      <4>1. PICK i \in 1..Len(book[t][x]) : book[t][x][i].n = n
        BY <3>1 DEF Rests
      <4>2. t \in Sides /\ x \in Prices /\ Len(book[t][x]) \in Nat
        BY <1>0, Basics, OrderFields
      <4>3. CASE t = s /\ x = p
        <5> DEFINE j == i - shift
        <5>1. i # 1
          BY <2>4, <4>1, <4>3 DEF maker, q0
        <5>2. j \in 1..Len(q) /\ (pop \/ j # 1) /\ j + shift = i
          BY <1>4, <1>8, <4>2, <4>3, <5>1 DEF q0
        <5>3. q[j] = book[t][x][i]
          BY <1>8, <4>3, <5>2 DEF q0
        <5>4. log'[n].order.side = s /\ log'[n].order.price = p
          BY <1>7, <4>3
        <5>5. QED
          BY <1>9, <4>1, <5>2, <5>3, <5>4 DEF Rests
      <4>4. CASE t # s \/ x # p
        <5>1. book'[t][x] = book[t][x]
          BY <1>9, <4>2, <4>4
        <5>2. QED
          BY <1>7, <4>1, <5>1 DEF Rests
      <4>5. QED
        BY <4>3, <4>4
    <3>2. QED
      BY <1>7, <2>4, <3>1 DEF IInv, NoOrderLost
  <2>5. QED
    BY <2>1, <2>2, <2>3, <2>4
<1>17. QED
  BY <1>10, <1>11, <1>13, <1>14, <1>15, <1>16 DEF IInv

-----------------------------------------------------------------------------
(* The theorems.                                                           *)

\* Every step of the matching engine keeps the invariant.
LEMMA NextIInv == IInv /\ [Next]_vars => IInv'
<1> SUFFICES ASSUME IInv, [Next]_vars
             PROVE  IInv'
  OBVIOUS
<1>1. CASE \E o \in Orders : Submit(o)
  BY <1>1, SubmitIInv
<1>2. CASE \E p \in Prices : MatchAtLevel(p)
  BY <1>2, MatchIInv
<1>3. CASE Rest
  BY <1>3, RestIInv
<1>4. CASE Return
  BY <1>4, ReturnIInv
<1>5. CASE \E id \in OrderIds : Cancel(id)
  BY <1>5, CancelIInv
<1>6. CASE UNCHANGED vars \/ \E id \in OrderIds : CancelUnknown(id)
  <2>1. UNCHANGED vars
    BY <1>6 DEF CancelUnknown
  <2>2. QED
    BY <2>1 DEF vars, IInv, TypeOK, LevelsMatchQueues, NotCrossed,
                RestingIsUnfilled, QueuesInArrivalOrder, TakerAccounted, Order,
                NoOrderLost, Rests
<1>7. QED
  BY <1>1, <1>2, <1>3, <1>4, <1>5, <1>6 DEF Next

\* The inductive invariant of the matching engine: its state keeps its
\* types, the level keys agree with the queues, the book is not crossed,
\* what rests is what is unfilled, in order of arrival, and no quantity is
\* lost, in every state of every submit and cancel.
THEOREM BookInvariant == Spec => []IInv
<1>1. Init => IInv
  BY InitIInv
<1>2. IInv /\ [Next]_vars => IInv'
  BY NextIInv
<1>3. QED
  BY <1>1, <1>2, PTL DEF Spec

\* Book::submit and Book::cancel keep the types of the book's state.
THEOREM TypeCorrect == Spec => []TypeOK
<1>1. IInv => TypeOK
  BY DEF IInv
<1>2. QED
  BY <1>1, BookInvariant, PTL

\* No submit or cancel leaves an empty level in the map or drops a level
\* that still holds orders: the `expect` in match_at_level cannot fire and
\* best_bid and best_ask quote prices that somebody offers.
THEOREM LevelsMatchQueuesAlways == Spec => []LevelsMatchQueues
<1>1. IInv => LevelsMatchQueues
  BY DEF IInv
<1>2. QED
  BY <1>1, BookInvariant, PTL

\* The best bid is always below the best ask, whatever is submitted.
THEOREM NeverCrossed == Spec => []NotCrossed
<1>1. IInv => NotCrossed
  BY DEF IInv
<1>2. QED
  BY <1>1, BookInvariant, PTL

\* The unfilled part of every order ever submitted is on the book, or was
\* reported back, or cancelled: no quantity is lost or filled twice.
THEOREM QuantityConserved == Spec => [](NoOrderLost /\ RestingIsUnfilled)
<1>1. IInv => NoOrderLost /\ RestingIsUnfilled
  BY DEF IInv
<1>2. QED
  BY <1>1, BookInvariant, PTL

\* A step that adds a fill takes the first order of the other side.
LEMMA StepTakesFirst == IInv /\ [Next]_vars => FillTakesFirst
<1> SUFFICES ASSUME IInv, [Next]_vars, Len(fills') > Len(fills)
             PROVE  LET f == fills'[Len(fills')]
                    IN \A p \in Prices : \A i \in 1..Len(book[f.maker_side][p]) :
                         /\ ~ Better(f.maker_side, p, f.price)
                         /\ p = f.price => f.maker.n <= book[f.maker_side][p][i].n
  BY DEF FillTakesFirst
<1>0. fills \in Seq(Fill) /\ Len(fills) \in Nat /\ TypeOK
  BY LenProperties DEF IInv, TypeOK
<1>1. PICK b \in Prices : MatchAtLevel(b)
  <2>1. ASSUME fills' = fills \/ fills' = <<>>
        PROVE  FALSE
    BY <1>0, <2>1, EmptySeq
  <2>2. QED
    BY <2>1 DEF Next, vars, Submit, Rest, Return, Cancel, CancelUnknown
<1> DEFINE s == Opposite(Order.side)
           maker == book[s][b][1]
           f == [maker |-> maker, taker |-> Len(log), price |-> b,
                 qty |-> FillQty(maker), maker_side |-> s]
<1>2. /\ fills' = Append(fills, f) /\ IsBest(s, b)
  BY <1>1 DEF MatchAtLevel
<1>3. s \in Sides
  <2>1. log # <<>>
    BY <1>0, <1>1 DEF MatchAtLevel, TypeOK
  <2>2. Order \in Orders
    BY <1>0, <2>1, Basics DEF Order
  <2>3. QED
    BY <2>2, OrderFields
<1>4. fills'[Len(fills')] = f
  <2>1. maker \in RestingOrder
    <3>1. book[s][b] # <<>> /\ book[s][b] \in Seq(RestingOrder)
      BY <1>0, <1>2, <1>3, Basics DEF IsBest, IInv, LevelsMatchQueues
    <3>2. 1 \in 1..Len(book[s][b])
      BY <3>1, EmptySeq
    <3>3. QED
      BY <3>1, <3>2, ElementOfSeq
  <2>2. FillQty(maker) \in Nat /\ Len(log) \in Nat
    BY <1>0, <2>1, Basics DEF FillQty, RestingOrder, TypeOK
  <2>3. f \in Fill
    BY <1>3, <2>1, <2>2 DEF Fill
  <2>4. QED
    BY <1>0, <1>2, <2>3, AppendProperties
<1>5. f.maker_side = s /\ f.price = b /\ f.maker = maker
  OBVIOUS
<1>6. ASSUME NEW p \in Prices, NEW i \in 1..Len(book[s][p])
      PROVE  ~ Better(s, p, b) /\ (p = b => maker.n <= book[s][p][i].n)
  <2>1. Len(book[s][p]) \in Nat /\ book[s][p][i] \in RestingOrder
    BY <1>0, <1>3, Basics
  <2>2. p \in levels[s]
    BY <1>3, <2>1, EmptySeq DEF IInv, LevelsMatchQueues
  <2>3. ~ Better(s, p, b)
    BY <1>2, <2>2 DEF IsBest
  <2>4. ASSUME p = b
        PROVE  maker.n <= book[s][p][i].n
    <3>1. 1 \in 1..Len(book[s][p]) /\ i \in Nat /\ book[s][p][1] \in RestingOrder
      BY <1>0, <1>3, <2>1, Basics
    <3>2. CASE i = 1
      BY <2>1, <2>4, <3>2 DEF RestingOrder
    <3>3. CASE i # 1
      <4>1. 1 < i
        BY <3>1, <3>3
      <4>2. book[s][p][1].n < book[s][p][i].n
        BY <1>3, <3>1, <4>1 DEF IInv, QueuesInArrivalOrder
      <4>3. book[s][p][1].n \in Nat /\ book[s][p][i].n \in Nat
        BY <2>1, <3>1 DEF RestingOrder
      <4>4. QED
        BY <2>4, <4>2, <4>3
    <3>4. QED
      BY <3>2, <3>3
  <2>5. QED
    BY <2>3, <2>4
<1> HIDE DEF f, s, maker
<1>7. QED
  BY <1>4, <1>5, <1>6

\* Price-time priority: no submit ever trades with an order while another
\* one of that side has a better price, or the same price and came earlier.
THEOREM PriorityRespected == Spec => PriceTimePriority
<1>1. IInv /\ [Next]_vars => [FillTakesFirst]_vars
  BY StepTakesFirst
<1>2. QED
  BY <1>1, BookInvariant, PTL DEF Spec, PriceTimePriority

-----------------------------------------------------------------------------
(* The step simulation: Clob implements PriceTimeBook.                     *)

\* What the abstract book holds: the views of what the queues hold.
LEMMA RestingMembers ==
  ASSUME NEW v
  PROVE  v \in RestingOrders <=>
           \E s \in Sides, p \in Prices : \E i \in 1..Len(book[s][p]) :
             v = View(book[s][p][i])
<1> DEFINE Q(x) == {View(book[x[1]][x[2]][i]) : i \in 1..Len(book[x[1]][x[2]])}
<1>1. v \in RestingOrders <=> \E x \in Sides \X Prices : v \in Q(x)
  BY DEF RestingOrders
<1>2. \A x : v \in Q(x) <=>
        \E i \in 1..Len(book[x[1]][x[2]]) : v = View(book[x[1]][x[2]][i])
  OBVIOUS
<1>3. \A s \in Sides, p \in Prices :
        /\ <<s, p>> \in Sides \X Prices
        /\ <<s, p>>[1] = s /\ <<s, p>>[2] = p
  OBVIOUS
<1>4. \A x \in Sides \X Prices : x[1] \in Sides /\ x[2] \in Prices
  OBVIOUS
<1> HIDE DEF Q
<1>5. ASSUME v \in RestingOrders
      PROVE  \E s \in Sides, p \in Prices : \E i \in 1..Len(book[s][p]) :
               v = View(book[s][p][i])
  <2>1. PICK x \in Sides \X Prices : v \in Q(x)
    BY <1>1, <1>5
  <2>2. QED
    BY <1>2, <1>4, <2>1
<1>6. ASSUME NEW s \in Sides, NEW p \in Prices, NEW i \in 1..Len(book[s][p]),
             v = View(book[s][p][i])
      PROVE  v \in RestingOrders
  <2>1. v \in Q(<<s, p>>)
    BY <1>2, <1>3, <1>6
  <2>2. QED
    BY <1>1, <1>3, <2>1
<1>7. QED
  BY <1>5, <1>6

\* The same after a step that keeps the submitted orders in the log.
LEMMA RestingMembersAfter ==
  ASSUME NEW v,
         \A n \in 1..Len(log) : log'[n].order = log[n].order,
         \A s \in Sides, p \in Prices : \A i \in 1..Len(book'[s][p]) :
           book'[s][p][i].n \in 1..Len(log)
  PROVE  v \in RestingOrders' <=>
           \E s \in Sides, p \in Prices : \E i \in 1..Len(book'[s][p]) :
             v = View(book'[s][p][i])
<1> DEFINE W(r) == [n |-> r.n, order |-> log'[r.n].order, left |-> r.qty]
<1>1. v \in RestingOrders' <=>
        \E s \in Sides, p \in Prices : \E i \in 1..Len(book'[s][p]) :
          v = W(book'[s][p][i])
  <2> DEFINE Q(x) == {W(book'[x[1]][x[2]][i]) : i \in 1..Len(book'[x[1]][x[2]])}
  <2>1. v \in RestingOrders' <=> \E x \in Sides \X Prices : v \in Q(x)
    BY DEF RestingOrders, View
  <2>2. \A x : v \in Q(x) <=>
          \E i \in 1..Len(book'[x[1]][x[2]]) : v = W(book'[x[1]][x[2]][i])
    OBVIOUS
  <2>3. \A s \in Sides, p \in Prices :
          /\ <<s, p>> \in Sides \X Prices
          /\ <<s, p>>[1] = s /\ <<s, p>>[2] = p
    OBVIOUS
  <2>4. \A x \in Sides \X Prices : x[1] \in Sides /\ x[2] \in Prices
    OBVIOUS
  <2> HIDE DEF Q, W
  <2>5. ASSUME v \in RestingOrders'
        PROVE  \E s \in Sides, p \in Prices : \E i \in 1..Len(book'[s][p]) :
                 v = W(book'[s][p][i])
    <3>1. PICK x \in Sides \X Prices : v \in Q(x)
      BY <2>1, <2>5
    <3>2. QED
      BY <2>2, <2>4, <3>1
  <2>6. ASSUME NEW s \in Sides, NEW p \in Prices, NEW i \in 1..Len(book'[s][p]),
               v = W(book'[s][p][i])
        PROVE  v \in RestingOrders'
    <3>1. v \in Q(<<s, p>>)
      BY <2>2, <2>3, <2>6
    <3>2. QED
      BY <2>1, <2>3, <3>1
  <2>7. QED
    BY <2>5, <2>6
<1>2. \A s \in Sides, p \in Prices : \A i \in 1..Len(book'[s][p]) :
        W(book'[s][p][i]) = View(book'[s][p][i])
  BY DEF View
<1> HIDE DEF W
<1>3. QED
  BY <1>1, <1>2

\* A step that replaces the queue of side s at price p by q: the orders at
\* the positions K leave it, the views D enter it, the others stay, and the
\* log keeps the submitted orders.
ReplacesQueue(s, p, q, K, D) ==
  /\ book'[s][p] = q
  /\ \A t \in Sides, x \in Prices : t # s \/ x # p => book'[t][x] = book[t][x]
  /\ \A n \in 1..Len(log) : log'[n].order = log[n].order
  /\ \A i \in 1..Len(q) :
       /\ q[i].n \in 1..Len(log)
       /\ \/ View(q[i]) \in D
          \/ \E j \in 1..Len(book[s][p]) : j \notin K /\ q[i] = book[s][p][j]
  /\ \A j \in 1..Len(book[s][p]) :
       j \notin K => \E i \in 1..Len(q) : q[i] = book[s][p][j]
  /\ \A d \in D : \E i \in 1..Len(q) : View(q[i]) = d

\* What such a step does to the abstract book.
LEMMA RestingAfter ==
  ASSUME IInv, NEW s \in Sides, NEW p \in Prices, NEW q, NEW K, NEW D,
         K \subseteq 1..Len(book[s][p]),
         ReplacesQueue(s, p, q, K, D)
  PROVE  RestingOrders' =
           (RestingOrders \ {View(book[s][p][j]) : j \in K}) \cup D
<1> USE DEF ReplacesQueue
<1>1. /\ book'[s][p] = q
      /\ \A t \in Sides, x \in Prices :
           t # s \/ x # p => book'[t][x] = book[t][x]
  OBVIOUS
<1> DEFINE G == {View(book[s][p][j]) : j \in K}
<1>2. \A t \in Sides, x \in Prices : \A i \in 1..Len(book'[t][x]) :
        book'[t][x][i].n \in 1..Len(log)
  <2> SUFFICES ASSUME NEW t \in Sides, NEW x \in Prices,
                      NEW i \in 1..Len(book'[t][x])
               PROVE  book'[t][x][i].n \in 1..Len(log)
    OBVIOUS
  <2>1. CASE t = s /\ x = p
    BY <1>1, <2>1
  <2>2. CASE t # s \/ x # p
    BY <1>1, <2>2 DEF IInv, RestingIsUnfilled
  <2>3. QED
    BY <2>1, <2>2
\* An order that stays is not one of those that leave: numbers are unique.
<1>3. ASSUME NEW t \in Sides, NEW x \in Prices, NEW i \in 1..Len(book[t][x]),
             t # s \/ x # p \/ i \notin K
      PROVE  View(book[t][x][i]) \in RestingOrders \ G
  <2>1. View(book[t][x][i]) \in RestingOrders
    BY RestingMembers
  <2>2. ASSUME NEW j \in K, View(book[t][x][i]) = View(book[s][p][j])
        PROVE  FALSE
    <3>1. book[t][x][i].n = book[s][p][j].n
      BY <2>2 DEF View
    <3>2. j \in 1..Len(book[s][p])
      OBVIOUS
    <3>3. t = s /\ x = p /\ i = j
      BY <3>1, <3>2, RestingUnique
    <3>4. QED
      BY <1>3, <3>3
  <2>3. QED
    BY <2>1, <2>2
<1>4. ASSUME NEW v \in RestingOrders'
      PROVE  v \in (RestingOrders \ G) \cup D
  <2>1. PICK t \in Sides, x \in Prices : \E i \in 1..Len(book'[t][x]) :
          v = View(book'[t][x][i])
    BY <1>2, RestingMembersAfter
  <2>2. PICK i \in 1..Len(book'[t][x]) : v = View(book'[t][x][i])
    BY <2>1
  <2>3. CASE t = s /\ x = p
    <3>1. i \in 1..Len(q) /\ v = View(q[i])
      BY <1>1, <2>2, <2>3
    <3>2. CASE View(q[i]) \in D
      BY <3>1, <3>2
    <3>3. CASE \E j \in 1..Len(book[s][p]) : j \notin K /\ q[i] = book[s][p][j]
      BY <1>3, <3>1, <3>3
    <3>4. QED
      BY <3>1, <3>2, <3>3
  <2>4. CASE t # s \/ x # p
    <3>1. book'[t][x] = book[t][x]
      BY <1>1, <2>4
    <3>2. QED
      BY <1>3, <2>2, <2>4, <3>1
  <2>5. QED
    BY <2>3, <2>4
<1>5. ASSUME NEW v \in (RestingOrders \ G) \cup D
      PROVE  v \in RestingOrders'
  <2>1. CASE v \in D
    <3>1. PICK i \in 1..Len(q) : View(q[i]) = v
      BY <2>1
    <3>2. i \in 1..Len(book'[s][p]) /\ v = View(book'[s][p][i])
      BY <1>1, <3>1
    <3>3. QED
      BY <1>2, <3>2, RestingMembersAfter
  <2>2. CASE v \in RestingOrders \ G
    <3>1. PICK t \in Sides, x \in Prices : \E j \in 1..Len(book[t][x]) :
            v = View(book[t][x][j])
      BY <2>2, RestingMembers
    <3>2. PICK j \in 1..Len(book[t][x]) : v = View(book[t][x][j])
      BY <3>1
    <3>3. \E i \in 1..Len(book'[t][x]) : v = View(book'[t][x][i])
      <4>1. CASE t = s /\ x = p
        <5>1. j \notin K
          BY <2>2, <3>2, <4>1
        <5>2. PICK i \in 1..Len(q) : q[i] = book[s][p][j]
          BY <4>1, <5>1
        <5>3. QED
          BY <1>1, <3>2, <4>1, <5>2
      <4>2. CASE t # s \/ x # p
        BY <1>1, <3>2, <4>2
      <4>3. QED
        BY <4>1, <4>2
    <3>4. QED
      BY <1>2, <3>3, RestingMembersAfter
  <2>3. QED
    BY <2>1, <2>2
<1>6. QED
  BY <1>4, <1>5

\* The view of a resting order: its side and its price are those of the
\* queue it is in.
LEMMA ViewFields ==
  ASSUME IInv, NEW s \in Sides, NEW p \in Prices, NEW i \in 1..Len(book[s][p])
  PROVE  LET r == book[s][p][i]
         IN /\ View(r).n = r.n /\ View(r).left = r.qty
            /\ View(r).order = log[r.n].order
            /\ View(r).order.side = s /\ View(r).order.price = p
            /\ r.n \in 1..Len(log) /\ r.n \in Nat /\ r.qty \in Nat /\ r.qty > 0
            /\ p \in levels[s] /\ p \in Nat
<1> DEFINE r == book[s][p][i]
<1>1. r.n \in 1..Len(log) /\ IsOpenPart(r, log[r.n], s, p)
  BY DEF IInv, RestingIsUnfilled
<1>2. TypeOK
  BY DEF IInv
<1>3. r \in RestingOrder /\ Len(book[s][p]) \in Nat /\ p \in Nat
  BY <1>2, Basics
<1>4. r.n \in Nat /\ r.qty \in Nat
  BY <1>3 DEF RestingOrder
<1>5. p \in levels[s]
  BY <1>3, EmptySeq DEF IInv, LevelsMatchQueues
<1>6. View(r).n = r.n /\ View(r).left = r.qty /\ View(r).order = log[r.n].order
  BY DEF View
<1> HIDE DEF r
<1>7. View(r).order.side = s /\ View(r).order.price = p /\ r.qty > 0
  BY <1>1, <1>6 DEF IsOpenPart
<1>8. QED
  BY <1>1, <1>3, <1>4, <1>5, <1>6, <1>7 DEF r

\* The order being matched, as the code and as the abstract book see it.
LEMMA TheTaker ==
  ASSUME IInv, matching
  PROVE  /\ LastOrder = Order /\ Order \in Orders
         /\ Len(log) \in Nat /\ Len(log) \in 1..Len(log)
<1>1. TypeOK /\ log # <<>>
  BY DEF IInv, TypeOK
<1>2. Len(log) \in Nat /\ Len(log) \in 1..Len(log) /\ Order \in Orders
  BY <1>1, Basics DEF Order
<1>3. QED
  BY <1>1, <1>2 DEF LastOrder

\* What the abstract book holds on the other side of the order being
\* matched is in a queue of the other side.
LEMMA OtherSideMembers ==
  ASSUME IInv, matching, NEW v \in Abstract!OtherSide(LastOrder)
  PROVE  \E x \in Prices : \E i \in 1..Len(book[Opposite(Order.side)][x]) :
           v = View(book[Opposite(Order.side)][x][i])
<1>1. v \in RestingOrders /\ v.order.side # Order.side
  BY TheTaker DEF Abstract!OtherSide
<1>2. PICK t \in Sides, x \in Prices : \E i \in 1..Len(book[t][x]) :
        v = View(book[t][x][i])
  BY <1>1, RestingMembers
<1>3. PICK i \in 1..Len(book[t][x]) : v = View(book[t][x][i])
  BY <1>2
<1>4. v.order.side = t
  BY <1>3, ViewFields
<1>5. Order.side \in Sides
  BY TheTaker, OrderFields
<1>6. t = Opposite(Order.side)
  BY <1>1, <1>4, <1>5 DEF Opposite, Sides
<1>7. QED
  BY <1>3, <1>6

\* The order at the front of the best level is the one the abstract book
\* singles out.
LEMMA FrontIsTradable ==
  ASSUME IInv, matching, NEW p \in Prices,
         IsBest(Opposite(Order.side), p), Crosses(Order, p)
  PROVE  LET maker == book[Opposite(Order.side)][p][1]
         IN /\ 1 \in 1..Len(book[Opposite(Order.side)][p])
            /\ View(maker) \in Abstract!Tradable
<1> DEFINE s == Opposite(Order.side)
           maker == book[s][p][1]
<1>1. /\ LastOrder = Order /\ Order.side \in Sides /\ s \in Sides
      /\ s # Order.side /\ TypeOK
  BY TheTaker, OrderFields DEF IInv
<1>2. p \in levels[s]
  BY DEF IsBest
<1>3. 1 \in 1..Len(book[s][p])
  BY <1>1, <1>2, Basics, TailIsRemoveAt DEF IInv, LevelsMatchQueues
<1>4. /\ View(maker).n = maker.n /\ View(maker).order.side = s
      /\ View(maker).order.price = p /\ maker.n \in Nat /\ p \in Nat
  BY <1>1, <1>3, ViewFields
<1>5. View(maker) \in RestingOrders
  BY <1>1, <1>3, RestingMembers
<1>6. View(maker) \in Abstract!OtherSide(LastOrder)
  BY <1>1, <1>4, <1>5 DEF Abstract!OtherSide
<1>7. Abstract!Acceptable(LastOrder, View(maker))
  BY <1>1, <1>4 DEF Abstract!Acceptable, Crosses
<1>8. ASSUME NEW v \in Abstract!OtherSide(LastOrder)
      PROVE  v = View(maker) \/ Abstract!Precedes(View(maker), v)
  <2>1. PICK x \in Prices : \E i \in 1..Len(book[s][x]) : v = View(book[s][x][i])
    BY OtherSideMembers
  <2>2. PICK i \in 1..Len(book[s][x]) : v = View(book[s][x][i])
    BY <2>1
  <2> DEFINE r == book[s][x][i]
  <2>3. /\ v.n = r.n /\ v.order.side = s /\ v.order.price = x
        /\ r.n \in Nat /\ x \in levels[s] /\ x \in Nat
    BY <1>1, <2>2, ViewFields
  <2>4. ~ Better(s, x, p)
    BY <2>3 DEF IsBest
  <2>5. CASE x # p
    <3>1. s = "Buy" \/ s = "Sell"
      BY <1>1 DEF Sides
    <3>2. \/ s = "Buy" /\ p > x
          \/ s = "Sell" /\ p < x
      BY <1>4, <2>3, <2>4, <2>5, <3>1 DEF Better
    <3>3. QED
      BY <1>4, <2>3, <3>2 DEF Abstract!Precedes
  <2>6. CASE x = p /\ i # 1
    <3>1. i \in Nat /\ 1 < i
      BY <1>1, <2>6, Basics
    <3>2. maker.n < r.n
      BY <1>1, <1>3, <2>6, <3>1 DEF IInv, QueuesInArrivalOrder
    <3>3. QED
      BY <1>4, <2>3, <2>6, <3>2 DEF Abstract!Precedes
  <2>7. CASE x = p /\ i = 1
    BY <2>2, <2>7
  <2>8. QED
    BY <2>5, <2>6, <2>7
<1> HIDE DEF maker
<1>9. View(maker) \in Abstract!Tradable
  BY <1>6, <1>7, <1>8 DEF Abstract!Tradable
<1>10. QED
  BY <1>3, <1>9 DEF maker

\* When the loop stops with quantity left, the abstract book has no order
\* the taker may trade with: the best level outside the limit means that
\* every level is.
LEMMA NothingTradable ==
  ASSUME IInv, matching, ~ CanMatch, remaining > 0
  PROVE  Abstract!Tradable = {}
<1> DEFINE s == Opposite(Order.side)
<1> SUFFICES ASSUME NEW v \in Abstract!Tradable
             PROVE  FALSE
  OBVIOUS
<1>1. /\ LastOrder = Order /\ Order \in Orders /\ Order.side \in Sides
      /\ s \in Sides /\ TypeOK
  BY TheTaker, OrderFields DEF IInv
<1>2. v \in Abstract!OtherSide(LastOrder) /\ Abstract!Acceptable(LastOrder, v)
  BY DEF Abstract!Tradable
<1>3. PICK x \in Prices : \E i \in 1..Len(book[s][x]) : v = View(book[s][x][i])
  BY <1>2, OtherSideMembers
<1>4. PICK i \in 1..Len(book[s][x]) : v = View(book[s][x][i])
  BY <1>3
<1>5. v.order.price = x /\ x \in levels[s] /\ x \in Nat
  BY <1>1, <1>4, ViewFields
<1>6. Crosses(Order, x)
  BY <1>1, <1>2, <1>5 DEF Abstract!Acceptable, Crosses
<1>7. PICK b \in Prices : IsBest(s, b)
  BY <1>1, <1>5, BestExists
<1>8. b \in Nat /\ Order.price \in Nat /\ ~ Better(s, x, b)
  BY <1>1, <1>5, <1>7, Basics, OrderFields DEF IsBest
<1>9. Crosses(Order, b)
  BY <1>1, <1>5, <1>6, <1>8 DEF Crosses, Better, Opposite, Sides
<1>10. QED
  BY <1>7, <1>9 DEF CanMatch

\* Entering Book::submit is the abstract Submit.
LEMMA SubmitSimulates ==
  ASSUME IInv, NEW o \in Orders, Submit(o)
  PROVE  Abstract!Submit(o)
<1> USE DEF Submit
<1> DEFINE e == [order |-> o, filled |-> 0, closed |-> 0]
<1>1. TypeOK /\ ~ matching /\ matching' = TRUE /\ remaining' = o.qty
  BY DEF IInv
<1>2. /\ log' \in Seq(LogEntry) /\ Len(log') = Len(log) + 1
      /\ log'[Len(log')] = e /\ Len(log) \in Nat
      /\ \A n \in 1..Len(log) : log'[n] = log[n]
  BY <1>1, AppendProperties, Basics DEF TypeOK, LogEntry
<1>3. LastOrder' = o
  <2>1. log' # <<>>
    BY <1>2, EmptySeq
  <2>2. QED
    BY <1>2, <2>1 DEF LastOrder, Order
<1>4. RestingOrders' = RestingOrders
  <2>1. book' = book
    OBVIOUS
  <2>2. \A s \in Sides, p \in Prices : \A i \in 1..Len(book'[s][p]) :
          book'[s][p][i].n \in 1..Len(log)
    BY <2>1 DEF IInv, RestingIsUnfilled
  <2>3. \A n \in 1..Len(log) : log'[n].order = log[n].order
    BY <1>2
  <2>4. \A v : v \in RestingOrders' <=> v \in RestingOrders
    BY <2>1, <2>2, <2>3, RestingMembers, RestingMembersAfter
  <2>5. QED
    BY <2>4
<1>5. QED
  BY <1>1, <1>2, <1>3, <1>4 DEF Abstract!Submit

\* One iteration of the matching loop is the abstract Trade.
LEMMA MatchSimulates ==
  ASSUME IInv, NEW p \in Prices, MatchAtLevel(p)
  PROVE  Abstract!Trade
<1> DEFINE s == Opposite(Order.side)
           q0 == book[s][p]
           maker == q0[1]
           f == FillQty(maker)
           q == QueueAfterFill(q0, f)
<1>0. /\ TypeOK /\ matching /\ matching' = matching /\ remaining \in Nat
      /\ remaining > 0 /\ IsBest(s, p) /\ Crosses(Order, p)
  BY DEF IInv, TypeOK, MatchAtLevel
<1>1. /\ LastOrder = Order /\ Len(log) \in Nat /\ Len(log) \in 1..Len(log)
      /\ Order \in Orders /\ s \in Sides
  BY <1>0, TheTaker, OrderFields
<1>2. /\ book' = [book EXCEPT ![s][p] = q]
      /\ remaining' = remaining - f
      /\ log' = [log EXCEPT ![maker.n].filled = @ + f, ![Len(log)].filled = @ + f]
  BY DEF MatchAtLevel
<1>3. 1 \in 1..Len(q0) /\ View(maker) \in Abstract!Tradable
  BY <1>0, FrontIsTradable
<1>4. /\ q0 \in Seq(RestingOrder) /\ Len(q0) \in Nat /\ q0 # <<>>
  BY <1>0, <1>1, <1>3, Basics, EmptySeq
<1>5. /\ View(maker).n = maker.n /\ View(maker).left = maker.qty
      /\ View(maker).order = log[maker.n].order
      /\ maker.n \in 1..Len(log) /\ maker.qty \in Nat /\ maker.qty > 0
  BY <1>1, <1>3, ViewFields
<1>6. f \in Nat /\ f > 0 /\ f <= maker.qty /\ f <= remaining
      /\ (f = maker.qty \/ f = remaining)
  BY <1>0, <1>5 DEF FillQty
<1>7. /\ Len(log') = Len(log)
      /\ \A n \in 1..Len(log) : log'[n].order = log[n].order
      /\ log' \in Seq(LogEntry)
  <2>1. maker.n # Len(log)
    BY <1>0, <1>1, <1>3 DEF IInv, TakerAccounted
  <2>2. QED
    BY <1>0, <1>1, <1>2, <1>5, <1>6, <2>1, FillEntries
<1> DEFINE pop == maker.qty = f
           shift == IF pop THEN 1 ELSE 0
           small == [n |-> maker.n, order |-> log[maker.n].order,
                     left |-> maker.qty - f]
           D == IF pop THEN {} ELSE {small}
<1>8. /\ q \in Seq(RestingOrder)
      /\ Len(q) = Len(q0) - shift
      /\ \A j \in 1..Len(q) : (pop \/ j # 1) => q[j] = q0[j + shift]
      /\ ~ pop => q[1].n = maker.n /\ q[1].qty = maker.qty - f
  BY <1>4, <1>6, QueueAfterFillProperties
<1> HIDE DEF s, q0, maker, f, q
<1>9. /\ book'[s][p] = q
      /\ \A t \in Sides, x \in Prices :
           t # s \/ x # p => book'[t][x] = book[t][x]
  BY <1>0, <1>1, <1>2, <1>8, BookUpdate, ZenonT(60)
<1>10. ~ pop => View(q[1]) = small
  BY <1>8 DEF View
<1> HIDE DEF small
<1>11. RestingOrders' = (RestingOrders \ {View(maker)}) \cup D
  <2>1. {1} \subseteq 1..Len(q0)
    BY <1>3
  <2>2. ASSUME NEW i \in 1..Len(q)
        PROVE  /\ q[i].n \in 1..Len(log)
               /\ \/ View(q[i]) \in D
                  \/ \E j \in 1..Len(q0) : j \notin {1} /\ q[i] = q0[j]
    <3>1. i \in Nat /\ i >= 1
      BY <1>4, <1>8
    <3>2. CASE pop \/ i # 1
      <4>1. q[i] = q0[i + shift] /\ i + shift \in 1..Len(q0) /\ i + shift # 1
        BY <1>4, <1>8, <3>1, <3>2
      <4>2. q0[i + shift].n \in 1..Len(log)
        BY <1>1, <4>1 DEF IInv, RestingIsUnfilled, q0
      <4>3. QED
        BY <4>1, <4>2
    <3>3. CASE ~ pop /\ i = 1
      BY <1>5, <1>8, <1>10, <3>3
    <3>4. QED
      BY <3>2, <3>3
  <2>3. ASSUME NEW j \in 1..Len(q0), j \notin {1}
        PROVE  \E i \in 1..Len(q) : q[i] = q0[j]
    <3>1. /\ j - shift \in 1..Len(q) /\ (j - shift) + shift = j
          /\ (pop \/ j - shift # 1)
      BY <1>4, <1>8, <2>3
    <3>2. q[j - shift] = q0[j]
      BY <1>8, <3>1
    <3>3. QED
      BY <3>1, <3>2
  <2>4. ASSUME NEW d \in D
        PROVE  \E i \in 1..Len(q) : View(q[i]) = d
    <3>1. ~ pop /\ d = small
      OBVIOUS
    <3>2. 1 \in 1..Len(q)
      BY <1>3, <1>4, <1>8, <3>1
    <3>3. QED
      BY <1>10, <3>1, <3>2
  <2>5. RestingOrders' = (RestingOrders \ {View(q0[j]) : j \in {1}}) \cup D
    <3> HIDE DEF D
    <3>1. ReplacesQueue(s, p, q, {1}, D)
      BY <1>7, <1>9, <2>2, <2>3, <2>4 DEF ReplacesQueue, q0
    <3>2. QED
      BY <1>1, <2>1, <3>1, RestingAfter DEF q0
  <2>6. {View(q0[j]) : j \in {1}} = {View(maker)}
    BY DEF maker
  <2>7. QED
    BY <2>5, <2>6
<1>12. LastOrder' = Order
  <2>1. log' # <<>>
    BY <1>1, <1>7, EmptySeq
  <2>2. log'[Len(log')].order = Order
    BY <1>1, <1>7 DEF Order
  <2>3. QED
    BY <2>1, <2>2 DEF LastOrder, Order
<1>13. D = IF f = View(maker).left THEN {}
           ELSE {[View(maker) EXCEPT !.left = @ - f]}
  <2>1. View(maker) = [n |-> maker.n, order |-> log[maker.n].order,
                       left |-> maker.qty]
    BY DEF View
  <2>2. [View(maker) EXCEPT !.left = @ - f] = small
    BY <2>1 DEF small
  <2>3. QED
    BY <1>5, <2>2
<1>14. f \in 1..remaining /\ f <= View(maker).left
       /\ (f = View(maker).left \/ f = remaining)
  BY <1>0, <1>5, <1>6
<1>15. UNCHANGED <<LastOrder, matching, Len(log)>>
  BY <1>0, <1>1, <1>7, <1>12
<1> HIDE DEF D
<1> DEFINE m == View(maker)
<1>16. /\ m \in Abstract!Tradable /\ f \in 1..remaining
       /\ f <= m.left /\ (f = m.left \/ f = remaining)
       /\ remaining' = remaining - f
       /\ RestingOrders' = (RestingOrders \ {m}) \cup
            (IF f = m.left THEN {} ELSE {[m EXCEPT !.left = @ - f]})
  BY <1>2, <1>3, <1>11, <1>13, <1>14
<1> HIDE DEF m
<1>17. QED
  BY <1>0, <1>15, <1>16 DEF Abstract!Trade

\* Resting the remainder is the abstract Finish of a limit order.
LEMMA RestSimulates ==
  ASSUME IInv, Rest
  PROVE  Abstract!Finish
<1> USE DEF Rest, RestQty, PushBack
<1> DEFINE s == Order.side
           p == Order.price
           r == [n |-> Len(log), id |-> Order.id, account |-> Order.account,
                 qty |-> remaining]
           q0 == book[s][p]
           q == Append(q0, r)
           new == [n |-> Len(log), order |-> Order, left |-> remaining]
<1>0. TypeOK /\ matching /\ remaining \in Nat
  BY DEF IInv, TypeOK
<1>1. /\ LastOrder = Order /\ Len(log) \in Nat /\ Len(log) \in 1..Len(log)
      /\ Order \in Orders
  BY <1>0, TheTaker
<1>2. s \in Sides /\ p \in Prices /\ r \in RestingOrder
  BY <1>0, <1>1, OrderFields DEF RestingOrder
<1>3. q0 \in Seq(RestingOrder) /\ Len(q0) \in Nat
  BY <1>0, <1>2, Basics
<1>4. /\ q \in Seq(RestingOrder) /\ Len(q) = Len(q0) + 1
      /\ q[Len(q0) + 1] = r
      /\ \A i \in 1..Len(q0) : q[i] = q0[i]
  <2> HIDE DEF r, q0
  <2>1. QED
    BY <1>2, <1>3, AppendProperties
<1>5. /\ book' = [book EXCEPT ![s][p] = q] /\ log' = log
      /\ matching' = FALSE /\ remaining' = 0
      /\ ~ CanMatch /\ remaining > 0 /\ Order.type = "Limit"
  OBVIOUS
<1>6. View(r) = new /\ r.n = Len(log)
  BY DEF View, Order
<1> HIDE DEF Rest, RestQty, PushBack, r, q, q0, s, p
<1>7. /\ book' \in [Sides -> [Prices -> Seq(RestingOrder)]]
      /\ book'[s][p] = q
      /\ \A t \in Sides, x \in Prices :
           t # s \/ x # p => book'[t][x] = book[t][x]
  BY <1>0, <1>2, <1>4, <1>5, BookUpdate, ZenonT(60)
<1>8. RestingOrders' = RestingOrders \cup {new}
  <2>1. {} \subseteq 1..Len(q0)
    OBVIOUS
  <2>2. ASSUME NEW i \in 1..Len(q)
        PROVE  /\ q[i].n \in 1..Len(log)
               /\ \/ View(q[i]) \in {new}
                  \/ \E j \in 1..Len(q0) : j \notin {} /\ q[i] = q0[j]
    <3>1. CASE i = Len(q0) + 1
      BY <1>1, <1>4, <1>6, <3>1
    <3>2. CASE i # Len(q0) + 1
      <4>1. i \in 1..Len(q0) /\ q[i] = q0[i]
        BY <1>3, <1>4, <3>2
      <4>2. q0[i].n \in 1..Len(log)
        BY <1>2, <4>1 DEF IInv, RestingIsUnfilled, q0
      <4>3. QED
        BY <4>1, <4>2
    <3>3. QED
      BY <3>1, <3>2
  <2>3. ASSUME NEW j \in 1..Len(q0), j \notin {}
        PROVE  \E i \in 1..Len(q) : q[i] = q0[j]
    <3>1. j \in 1..Len(q)
      BY <1>3, <1>4
    <3>2. QED
      BY <1>4, <3>1
  <2>4. ASSUME NEW d \in {new}
        PROVE  \E i \in 1..Len(q) : View(q[i]) = d
    <3>1. Len(q0) + 1 \in 1..Len(q)
      BY <1>3, <1>4
    <3>2. QED
      BY <1>4, <1>6, <3>1
  <2> HIDE DEF new
  <2>5. \A n \in 1..Len(log) : log'[n].order = log[n].order
    BY <1>5
  <2>6. RestingOrders' = (RestingOrders \ {View(q0[j]) : j \in {}}) \cup {new}
    <3>1. ReplacesQueue(s, p, q, {}, {new})
      BY <1>7, <2>2, <2>3, <2>4, <2>5 DEF ReplacesQueue, q0
    <3>2. QED
      BY <1>2, <2>1, <3>1, RestingAfter DEF q0
  <2>7. QED
    BY <2>6
<1>9. Abstract!Tradable = {}
  BY <1>0, <1>5, NothingTradable
<1>10. LastOrder' = LastOrder
  BY <1>5 DEF LastOrder, Order
<1>11. QED
  BY <1>0, <1>1, <1>5, <1>8, <1>9, <1>10 DEF Abstract!Finish

\* The end of a submit that rests nothing is the abstract Finish too.
LEMMA ReturnSimulates ==
  ASSUME IInv, Return
  PROVE  Abstract!Finish
<1> USE DEF Return
<1>0. TypeOK /\ matching /\ remaining \in Nat
  BY DEF IInv, TypeOK
<1>1. /\ LastOrder = Order /\ Len(log) \in Nat /\ Len(log) \in 1..Len(log)
      /\ Order \in Orders
  BY <1>0, TheTaker
<1>2. /\ matching' = FALSE /\ remaining' = remaining /\ book' = book
      /\ ~ CanMatch /\ (remaining = 0 \/ Order.type = "Market")
      /\ log' = [log EXCEPT ![Len(log)].closed = remaining]
  BY DEF NothingRests
<1>3. /\ Len(log') = Len(log)
      /\ \A n \in 1..Len(log) : log'[n].order = log[n].order
      /\ log' \in Seq(LogEntry)
  BY <1>0, <1>1, <1>2, CloseEntry
<1>4. RestingOrders' = RestingOrders
  <2>1. \A s \in Sides, p \in Prices : \A i \in 1..Len(book'[s][p]) :
          book'[s][p][i].n \in 1..Len(log)
    BY <1>2 DEF IInv, RestingIsUnfilled
  <2>2. \A v : v \in RestingOrders' <=> v \in RestingOrders
    BY <1>2, <1>3, <2>1, RestingMembers, RestingMembersAfter
  <2>3. QED
    BY <2>2
<1>5. LastOrder' = Order
  <2>1. log' # <<>>
    BY <1>1, <1>3, EmptySeq
  <2>2. log'[Len(log')].order = Order
    BY <1>1, <1>3 DEF Order
  <2>3. QED
    BY <2>1, <2>2 DEF LastOrder, Order
<1>6. remaining = 0 \/ Abstract!Tradable = {}
  BY <1>0, <1>2, NothingTradable
<1>7. ~ (LastOrder.type = "Limit" /\ remaining > 0)
  BY <1>0, <1>1, <1>2
<1>8. QED
  BY <1>0, <1>1, <1>2, <1>3, <1>4, <1>5, <1>6, <1>7 DEF Abstract!Finish

\* Book::cancel takes one order out of the abstract book.
LEMMA CancelSimulates ==
  ASSUME IInv, NEW id \in OrderIds, Cancel(id)
  PROVE  Abstract!Cancel
<1> USE DEF QueueAfterCancel
<1>1. PICK s \in Sides, p \in Prices : \E k \in 1..Len(book[s][p]) :
        /\ ~ matching
        /\ book' = [book EXCEPT ![s][p] = RemoveAt(book[s][p], k)]
        /\ log' = [log EXCEPT ![book[s][p][k].n].closed = book[s][p][k].qty]
        /\ UNCHANGED <<matching, remaining>>
  BY DEF Cancel
<1> DEFINE q0 == book[s][p]
<1>2. PICK k \in 1..Len(q0) :
        /\ ~ matching
        /\ book' = [book EXCEPT ![s][p] = RemoveAt(q0, k)]
        /\ log' = [log EXCEPT ![q0[k].n].closed = q0[k].qty]
        /\ UNCHANGED <<matching, remaining>>
  BY <1>1
<1> DEFINE r == q0[k]
           q == RemoveAt(q0, k)
<1>3. TypeOK /\ ~ matching /\ UNCHANGED <<matching, remaining>>
  BY <1>2 DEF IInv
<1>4. /\ q0 \in Seq(RestingOrder) /\ Len(q0) \in Nat /\ r \in RestingOrder
      /\ r.qty \in Nat /\ r.n \in 1..Len(log) /\ Len(log) \in Nat
  BY <1>3, Basics DEF IInv, RestingIsUnfilled, RestingOrder
<1>5. /\ q \in Seq(RestingOrder)
      /\ Len(q) = Len(q0) - 1
      /\ \A j \in 1..(Len(q0) - 1) : q[j] = IF j < k THEN q0[j] ELSE q0[j + 1]
  BY <1>4, RemoveAtProperties
<1>6. /\ log' \in Seq(LogEntry)
      /\ Len(log') = Len(log)
      /\ \A m \in 1..Len(log) : log'[m].order = log[m].order
  BY <1>2, <1>3, <1>4, CloseEntry
<1>7. book' = [book EXCEPT ![s][p] = q]
  BY <1>2
<1> HIDE DEF q, r, q0
<1>8. /\ book'[s][p] = q
      /\ \A t \in Sides, x \in Prices :
           t # s \/ x # p => book'[t][x] = book[t][x]
  BY <1>3, <1>5, <1>7, BookUpdate, ZenonT(60)
<1>9. RestingOrders' = RestingOrders \ {View(r)}
  <2>1. {k} \subseteq 1..Len(q0) /\ k \in Nat
    BY <1>4
  <2>2. ASSUME NEW i \in 1..Len(q)
        PROVE  /\ q[i].n \in 1..Len(log)
               /\ \/ View(q[i]) \in {}
                  \/ \E j \in 1..Len(q0) : j \notin {k} /\ q[i] = q0[j]
    <3> DEFINE j == IF i < k THEN i ELSE i + 1
    <3>1. j \in 1..Len(q0) /\ j # k /\ q[i] = q0[j]
      BY <1>4, <1>5, <2>1
    <3>2. q0[j].n \in 1..Len(log)
      BY <3>1 DEF IInv, RestingIsUnfilled, q0
    <3> HIDE DEF j
    <3>3. QED
      BY <3>1, <3>2
  <2>3. ASSUME NEW j \in 1..Len(q0), j \notin {k}
        PROVE  \E i \in 1..Len(q) : q[i] = q0[j]
    <3> DEFINE i == IF j < k THEN j ELSE j - 1
    <3>1. i \in 1..Len(q) /\ q[i] = q0[j]
      BY <1>4, <1>5, <2>1, <2>3
    <3> HIDE DEF i
    <3>2. QED
      BY <3>1
  <2>4. \A d \in {} : \E i \in 1..Len(q) : View(q[i]) = d
    OBVIOUS
  <2>5. RestingOrders' = (RestingOrders \ {View(q0[j]) : j \in {k}}) \cup {}
    <3>1. ReplacesQueue(s, p, q, {k}, {})
      BY <1>6, <1>8, <2>2, <2>3, <2>4 DEF ReplacesQueue, q0
    <3>2. QED
      BY <2>1, <3>1, RestingAfter DEF q0
  <2>6. {View(q0[j]) : j \in {k}} = {View(r)}
    BY DEF r
  <2>7. QED
    BY <2>5, <2>6
<1>10. View(r) \in RestingOrders
  BY RestingMembers DEF r, q0
<1>11. LastOrder' = LastOrder
  <2>1. Len(log) \in 1..Len(log) /\ log # <<>> /\ log' # <<>>
    BY <1>4, <1>6, EmptySeq
  <2>2. log'[Len(log')].order = log[Len(log)].order
    BY <1>6, <2>1
  <2>3. QED
    BY <2>1, <2>2 DEF LastOrder, Order
<1>12. QED
  BY <1>3, <1>6, <1>9, <1>10, <1>11 DEF Abstract!Cancel

\* Every step of the code is a step of the abstract book or leaves it alone.
LEMMA StepSimulates == IInv /\ [Next]_vars => [Abstract!Next]_(Abstract!vars)
<1> SUFFICES ASSUME IInv, [Next]_vars
             PROVE  [Abstract!Next]_(Abstract!vars)
  OBVIOUS
<1>1. CASE \E o \in Orders : Submit(o)
  BY <1>1, SubmitSimulates DEF Abstract!Next
<1>2. CASE \E p \in Prices : MatchAtLevel(p)
  BY <1>2, MatchSimulates DEF Abstract!Next
<1>3. CASE Rest
  BY <1>3, RestSimulates DEF Abstract!Next
<1>4. CASE Return
  BY <1>4, ReturnSimulates DEF Abstract!Next
<1>5. CASE \E id \in OrderIds : Cancel(id)
  BY <1>5, CancelSimulates DEF Abstract!Next
<1>6. CASE UNCHANGED vars \/ \E id \in OrderIds : CancelUnknown(id)
  <2>1. UNCHANGED vars
    BY <1>6 DEF CancelUnknown
  <2>2. UNCHANGED <<RestingOrders, LastOrder, remaining, matching, Len(log)>>
    BY <2>1 DEF vars, RestingOrders, View, LastOrder, Order
  <2>3. QED
    BY <2>2 DEF Abstract!vars
<1>7. QED
  BY <1>1, <1>2, <1>3, <1>4, <1>5, <1>6 DEF Next

\* Book::new maps to the empty abstract book.
LEMMA InitSimulates == Init => Abstract!Init
<1> SUFFICES ASSUME Init PROVE Abstract!Init
  OBVIOUS
<1>1. ASSUME NEW v \in RestingOrders
      PROVE  FALSE
  <2>1. PICK s \in Sides, p \in Prices : \E i \in 1..Len(book[s][p]) :
          v = View(book[s][p][i])
    BY <1>1, RestingMembers
  <2>2. Len(book[s][p]) = 0
    BY DEF Init
  <2>3. QED
    BY <2>1, <2>2
<1>2. remaining = 0 /\ matching = FALSE /\ Len(log) = 0
  BY DEF Init
<1>3. QED
  BY <1>1, <1>2 DEF Abstract!Init

\* The matching engine implements the price-time book: the BTreeMaps, the
\* level keys and the queues of Book::submit and Book::cancel can only do
\* what a set of orders with price-time priority can do.
THEOREM BookImplementsPriceTimeBook == Spec => ImplementsPriceTimeBook
<1>1. Init => Abstract!Init
  BY InitSimulates
<1>2. IInv /\ [Next]_vars => [Abstract!Next]_(Abstract!vars)
  BY StepSimulates
<1>3. QED
  BY <1>1, <1>2, BookInvariant, PTL DEF Spec, ImplementsPriceTimeBook, Abstract!Spec

=============================================================================
