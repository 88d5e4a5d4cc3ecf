-------------------------------- MODULE Clob --------------------------------
(***************************************************************************)
(* The central limit order book of crates/clob: price-time priority        *)
(* matching of limit and market orders, resting and cancelling.            *)
(*                                                                         *)
(* `Book::submit` runs under the book's mutex, so no other call sees it    *)
(* half done, but it is a loop, and each iteration reads the book that the *)
(* previous one left behind.  The loop is modelled one iteration per step: *)
(* Submit enters it, MatchAtLevel is one iteration, Rest and Return leave  *)
(* it.  While `matching` holds no other call is enabled.                   *)
(*                                                                         *)
(* `bids` and `asks` are one variable indexed by side: `book[s][p]` is the *)
(* FIFO queue at price p and `levels[s]` the set of keys of the BTreeMap.  *)
(* Keys and queues are kept apart because the code must keep them          *)
(* consistent by hand (it drops a level when its queue runs empty).        *)
(***************************************************************************)
EXTENDS Integers, Sequences, SequencesExt

CONSTANTS
  MaxPrice,     \* greatest Price (u64::MAX in the code)
  MaxQty,       \* greatest Qty of one order (u64::MAX in the code)
  OrderIds,     \* OrderId values; the caller allocates them and may repeat one
  Accounts,     \* AccountId values
  MaxOrders     \* bound: orders submitted in one behaviour

ASSUME ClobAssumption ==
  /\ MaxPrice \in Nat
  /\ MaxQty \in Nat
  /\ MaxOrders \in Nat

VARIABLES
  book,         \* book[s][p]: queue of resting orders of side s at price p
  levels,       \* levels[s]: the price keys present in the side's BTreeMap
  matching,     \* TRUE while a submit is inside its matching loop
  remaining,    \* the loop's `remaining`; after it, FillResult.remaining_qty
  fills,        \* the `fills` of the submit in progress, or of the last one
  log           \* history: every submitted order, with its filled quantity
                \* and the quantity discarded or cancelled

vars == <<book, levels, matching, remaining, fills, log>>

-----------------------------------------------------------------------------
Sides  == {"Buy", "Sell"}
Prices == 0..MaxPrice
Types  == {"Limit", "Market"}

Opposite(s) == IF s = "Buy" THEN "Sell" ELSE "Buy"

\* A market order carries no price; its price field is fixed at 0.
Orders ==
  {o \in [id : OrderIds, account : Accounts, side : Sides, qty : 0..MaxQty,
          type : Types, price : Prices] : o.type = "Market" => o.price = 0}

\* `n` is history: the position of the order in `log`, its time of arrival.
RestingOrder == [n : Nat, id : OrderIds, account : Accounts, qty : Nat]

Fill == [maker : RestingOrder, taker : Nat, price : Prices, qty : Nat,
         maker_side : Sides]

LogEntry == [order : Orders, filled : Nat, closed : Nat]

\* The order that the current (or the last) submit was called with.
Order == log[Len(log)].order

\* The BTreeMap orders asks upwards and bids (Reverse<Price>) downwards.
Better(s, p, q) == IF s = "Sell" THEN p < q ELSE p > q

-----------------------------------------------------------------------------
(* Mutated forms. Each is a plausible bug of the definition it is named    *)
(* after; a property that holds with it would say nothing about the code.  *)

\* Bids kept without the Reverse key: both sides walk upwards.
IsBest_NoReverse(s, p) == p \in levels[s] /\ \A q \in levels[s] : p <= q

\* `>=` for `>` in the loop's break: an order at the limit does not trade.
Crosses_Strict(o, p) ==
  \/ o.type = "Market"
  \/ o.side = "Buy"  /\ p < o.price
  \/ o.side = "Sell" /\ p > o.price

\* A partly filled maker is popped as well.
QueueAfterFill_AlwaysPop(q, f) == Tail(q)

\* push_front for push_back.
PushBack_Front(q, r) == <<r>> \o q

\* The loop without its `remaining == 0` break never ends for a limit order
\* that is filled completely.
NothingRests_MarketOnly == Order.type = "Market"

-----------------------------------------------------------------------------
\* `keys().next()`: p is the first key of side s.
IsBest(s, p) == p \in levels[s] /\ \A q \in levels[s] : ~ Better(s, q, p)

\* The loop goes on while the best opposite level is within the limit.
Crosses(o, p) ==
  \/ o.type = "Market"
  \/ o.side = "Buy"  /\ p <= o.price
  \/ o.side = "Sell" /\ p >= o.price

CanMatch ==
  /\ remaining > 0
  /\ \E p \in Prices : IsBest(Opposite(Order.side), p) /\ Crosses(Order, p)

-----------------------------------------------------------------------------
(* match_at_level: the quantity of a fill and the queue it leaves behind.  *)
FillQty(maker) == IF maker.qty <= remaining THEN maker.qty ELSE remaining

QueueAfterFill(q, f) ==
  IF q[1].qty = f THEN Tail(q) ELSE [q EXCEPT ![1].qty = @ - f]

\* A level whose queue has run empty is removed from the map.
DropIfEmpty(s, p, q) == IF q = <<>> THEN levels[s] \ {p} ELSE levels[s]

\* The quantity a limit order leaves on the book, at the back of its level.
RestQty == remaining

PushBack(q, r) == Append(q, r)

\* A submit that leaves the loop with nothing to rest.
NothingRests == remaining = 0 \/ Order.type = "Market"

\* `queue.remove(pos)` in Book::cancel.
QueueAfterCancel(q, i) == RemoveAt(q, i)

-----------------------------------------------------------------------------
Init ==
  /\ book = [s \in Sides |-> [p \in Prices |-> <<>>]]
  /\ levels = [s \in Sides |-> {}]
  /\ matching = FALSE
  /\ remaining = 0
  /\ fills = <<>>
  /\ log = <<>>

\* Entry of Book::submit. A zero quantity is accepted and matches nothing.
Submit(o) ==
  /\ ~ matching
  /\ Len(log) < MaxOrders
  /\ matching' = TRUE
  /\ remaining' = o.qty
  /\ fills' = <<>>
  /\ log' = Append(log, [order |-> o, filled |-> 0, closed |-> 0])
  /\ UNCHANGED <<book, levels>>

\* One iteration of the loop of submit_limit or submit_market.
MatchAtLevel(p) ==
  LET s == Opposite(Order.side)
      maker == book[s][p][1]
      f == FillQty(maker)
      q == QueueAfterFill(book[s][p], f)
  IN /\ matching
     /\ remaining > 0
     /\ IsBest(s, p)
     /\ Crosses(Order, p)
     /\ book' = [book EXCEPT ![s][p] = q]
     /\ levels' = [levels EXCEPT ![s] = DropIfEmpty(s, p, q)]
     /\ remaining' = remaining - f
     /\ fills' = Append(fills, [maker |-> maker, taker |-> Len(log),
                                price |-> p, qty |-> f, maker_side |-> s])
     /\ log' = [log EXCEPT ![maker.n].filled = @ + f,
                           ![Len(log)].filled = @ + f]
     /\ UNCHANGED matching

\* submit_limit after its loop: the remainder rests at the limit price and
\* the caller is told that nothing remains.
Rest ==
  LET s == Order.side
      p == Order.price
      r == [n |-> Len(log), id |-> Order.id, account |-> Order.account,
            qty |-> RestQty]
  IN /\ matching
     /\ ~ CanMatch
     /\ Order.type = "Limit" /\ remaining > 0
     /\ book' = [book EXCEPT ![s][p] = PushBack(@, r)]
     /\ levels' = [levels EXCEPT ![s] = @ \cup {p}]
     /\ matching' = FALSE
     /\ remaining' = 0
     /\ UNCHANGED <<fills, log>>

\* The end of a submit that rests nothing: the order is filled, or it is a
\* market order and its remainder is discarded and reported.
Return ==
  /\ matching
  /\ ~ CanMatch
  /\ NothingRests
  /\ matching' = FALSE
  /\ log' = [log EXCEPT ![Len(log)].closed = remaining]
  /\ UNCHANGED <<book, levels, remaining, fills>>

\* The order Book::cancel removes: bids are scanned before asks, each side
\* best level first, each queue from its front.
Holds(s, p, id) == \E i \in 1..Len(book[s][p]) : book[s][p][i].id = id

FirstWithId(id, s, p, i) ==
  /\ p \in levels[s]
  /\ i \in 1..Len(book[s][p])
  /\ book[s][p][i].id = id
  /\ \A j \in 1..(i - 1) : book[s][p][j].id # id
  /\ \A q \in levels[s] : Better(s, q, p) => ~ Holds(s, q, id)
  /\ s = "Sell" => \A q \in levels["Buy"] : ~ Holds("Buy", q, id)

\* A cancel that finds the order; the caller gets `true`.
Cancel(id) ==
  \E s \in Sides, p \in Prices : \E i \in 1..Len(book[s][p]) :
    LET r == book[s][p][i]
        q == QueueAfterCancel(book[s][p], i)
    IN /\ ~ matching
       /\ FirstWithId(id, s, p, i)
       /\ book' = [book EXCEPT ![s][p] = q]
       /\ levels' = [levels EXCEPT ![s] = DropIfEmpty(s, p, q)]
       /\ log' = [log EXCEPT ![r.n].closed = r.qty]
       /\ UNCHANGED <<matching, remaining, fills>>

\* A cancel that scans both sides in vain; the caller gets `false`.
CancelUnknown(id) ==
  /\ ~ matching
  /\ \A s \in Sides, p \in Prices : ~ Holds(s, p, id)
  /\ UNCHANGED vars

Next ==
  \/ \E o \in Orders : Submit(o)
  \/ \E p \in Prices : MatchAtLevel(p)
  \/ Rest
  \/ Return
  \/ \E id \in OrderIds : Cancel(id)
  \/ \E id \in OrderIds : CancelUnknown(id)

\* The loop of a submit is sequential code: once entered it keeps running.
Fairness == WF_vars((\E p \in Prices : MatchAtLevel(p)) \/ Rest \/ Return)

Spec == Init /\ [][Next]_vars

FairSpec == Spec /\ Fairness

-----------------------------------------------------------------------------
(* Properties.                                                             *)

\* The types of the book's state, of the fills and of the order log.
TypeOK ==
  /\ book \in [Sides -> [Prices -> Seq(RestingOrder)]]
  /\ levels \in [Sides -> SUBSET Prices]
  /\ matching \in BOOLEAN
  /\ remaining \in Nat
  /\ fills \in Seq(Fill)
  /\ log \in Seq(LogEntry)
  /\ matching => log # <<>>

\* The keys of a side are exactly the prices with a non-empty queue: no
\* path through matching, resting or cancelling leaves an empty level
\* behind, on which `best_ask` would quote a price nobody offers and
\* match_at_level would panic, or loses a level that still holds orders.
LevelsMatchQueues ==
  \A s \in Sides, p \in Prices : p \in levels[s] <=> book[s][p] # <<>>

\* The book is never crossed: every bid is below every ask, also between
\* two iterations of a matching loop.
NotCrossed == \A b \in levels["Buy"], a \in levels["Sell"] : b < a

\* Every resting order is an order that was submitted, on its own side and
\* at its own limit price, and rests with exactly the quantity it has not
\* been filled for, which is never zero.
IsOpenPart(r, e, s, p) ==
  /\ r.qty > 0
  /\ r.qty + e.filled = e.order.qty
  /\ e.closed = 0
  /\ e.order.side = s /\ e.order.type = "Limit" /\ e.order.price = p
  /\ e.order.id = r.id /\ e.order.account = r.account

RestingIsUnfilled ==
  \A s \in Sides, p \in Prices : \A i \in 1..Len(book[s][p]) :
    /\ book[s][p][i].n \in 1..Len(log)
    /\ IsOpenPart(book[s][p][i], log[book[s][p][i].n], s, p)

\* Time priority: a queue is in order of arrival.
QueuesInArrivalOrder ==
  \A s \in Sides, p \in Prices : \A i, j \in 1..Len(book[s][p]) :
    i < j => book[s][p][i].n < book[s][p][j].n

\* No quantity is lost or filled twice: the unfilled part of an order that
\* has left the loop either rests on the book or was discarded (market) or
\* cancelled. Rests(n) is the place the remainder must be at.
Rests(n) ==
  LET o == log[n].order
  IN \E i \in 1..Len(book[o.side][o.price]) : book[o.side][o.price][i].n = n

NoOrderLost ==
  \A n \in 1..Len(log) :
    LET e == log[n]
    IN \/ n = Len(log) /\ matching /\ e.filled + remaining = e.order.qty
       \/ e.filled + e.closed = e.order.qty
       \/ e.closed = 0 /\ Rests(n)

\* What makes the invariants above inductive. The order being matched is
\* the last one submitted, it is not on the book yet, and it has been
\* filled for what `remaining` no longer holds.
TakerAccounted ==
  matching =>
    /\ log[Len(log)].filled + remaining = Order.qty
    /\ log[Len(log)].closed = 0
    /\ \A s \in Sides, p \in Prices : \A i \in 1..Len(book[s][p]) :
         book[s][p][i].n # Len(log)

\* The inductive invariant: keys agree with queues, the book is not crossed,
\* queues are in order of arrival, what rests is the unfilled part of what was
\* submitted, and the order being matched is accounted for (Book::submit and
\* Book::cancel, at every step of the matching loop).
IInv ==
  /\ TypeOK
  /\ LevelsMatchQueues
  /\ NotCrossed
  /\ RestingIsUnfilled
  /\ QueuesInArrivalOrder
  /\ TakerAccounted
  /\ NoOrderLost

\* Price-time priority: a fill always takes the resting order that no other
\* resting order of that side precedes, by price and then by arrival. It is
\* stated over the queues, not over the map keys the code looks at.
FillTakesFirst ==
  Len(fills') > Len(fills) =>
    LET f == fills'[Len(fills')]
    IN \A p \in Prices : \A i \in 1..Len(book[f.maker_side][p]) :
         /\ ~ Better(f.maker_side, p, f.price)
         /\ p = f.price => f.maker.n <= book[f.maker_side][p][i].n

PriceTimePriority == [][FillTakesFirst]_vars

\* Every submitted order leaves the matching loop.
SubmitReturns == matching ~> ~ matching

=============================================================================
