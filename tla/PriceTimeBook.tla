---------------------------- MODULE PriceTimeBook ----------------------------
(***************************************************************************)
(* What an order book promises, with no price levels, queues or maps: a    *)
(* set of resting orders, each with the time it arrived.  A taker trades   *)
(* with the one order that precedes all the others on the other side, for  *)
(* as much as both have left, until it has nothing left or that order is   *)
(* outside its limit; then it rests, or the rest of it is dropped.         *)
(*                                                                         *)
(* Clob implements this specification (module ClobRefinement).             *)
(***************************************************************************)
EXTENDS Integers

CONSTANTS Orders      \* orders a caller may submit

VARIABLES
  resting,            \* set of [n, order, left]
  taker,              \* the order being matched, or the last one
  left,               \* what the taker has not traded yet
  busy,               \* a taker is being matched
  clock               \* number of orders submitted

vars == <<resting, taker, left, busy, clock>>

OtherSide(o) == {r \in resting : r.order.side # o.side}

\* Price priority, then time priority, between two orders of one side.
Precedes(a, b) ==
  \/ a.order.side = "Buy"  /\ a.order.price > b.order.price
  \/ a.order.side = "Sell" /\ a.order.price < b.order.price
  \/ a.order.price = b.order.price /\ a.n < b.n

Acceptable(o, r) ==
  \/ o.type = "Market"
  \/ o.side = "Buy"  /\ r.order.price <= o.price
  \/ o.side = "Sell" /\ r.order.price >= o.price

Tradable == {r \in OtherSide(taker) :
               /\ Acceptable(taker, r)
               /\ \A x \in OtherSide(taker) : x = r \/ Precedes(r, x)}

Init ==
  /\ resting = {}
  /\ left = 0
  /\ busy = FALSE
  /\ clock = 0

Submit(o) ==
  /\ ~ busy
  /\ busy' = TRUE
  /\ taker' = o
  /\ left' = o.qty
  /\ clock' = clock + 1
  /\ UNCHANGED resting

Trade ==
  /\ busy
  /\ \E r \in Tradable, q \in 1..left :
       /\ q <= r.left /\ (q = r.left \/ q = left)
       /\ left' = left - q
       /\ resting' = (resting \ {r}) \cup
            (IF q = r.left THEN {} ELSE {[r EXCEPT !.left = @ - q]})
  /\ UNCHANGED <<taker, busy, clock>>

Finish ==
  /\ busy
  /\ left = 0 \/ Tradable = {}
  /\ busy' = FALSE
  /\ IF taker.type = "Limit" /\ left > 0
     THEN /\ resting' = resting \cup {[n |-> clock, order |-> taker, left |-> left]}
          /\ left' = 0
     ELSE UNCHANGED <<resting, left>>
  /\ UNCHANGED <<taker, clock>>

Cancel ==
  /\ ~ busy
  /\ \E r \in resting : resting' = resting \ {r}
  /\ UNCHANGED <<taker, left, busy, clock>>

Next == (\E o \in Orders : Submit(o)) \/ Trade \/ Finish \/ Cancel

Spec == Init /\ [][Next]_vars
=============================================================================
