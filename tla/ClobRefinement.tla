---------------------------- MODULE ClobRefinement ----------------------------
(***************************************************************************)
(* Clob implements PriceTimeBook: the queues and the level keys of the     *)
(* BTreeMaps hold exactly the orders the abstract book holds, and the loop *)
(* over levels and queue fronts trades with the order the abstract book    *)
(* singles out.                                                            *)
(***************************************************************************)
EXTENDS Clob

View(r) == [n |-> r.n, order |-> log[r.n].order, left |-> r.qty]

RestingOrders ==
  UNION {{View(book[x[1]][x[2]][i]) : i \in 1..Len(book[x[1]][x[2]])} :
           x \in Sides \X Prices}

LastOrder == IF log = <<>> THEN "none" ELSE Order

Abstract == INSTANCE PriceTimeBook WITH
  resting <- RestingOrders, taker <- LastOrder, left <- remaining,
  busy <- matching, clock <- Len(log)

\* Every step of the matching engine is a step of the abstract price-time
\* book, or leaves that book unchanged.
ImplementsPriceTimeBook == Abstract!Spec
=============================================================================
