------------------------------ MODULE Clearing ------------------------------
(***************************************************************************)
(* The arithmetic of crates/clearing: what a fill does to an account, and  *)
(* how much collateral an account may withdraw.  Pure operators, no state. *)
(*                                                                         *)
(* The code computes in i128 and narrows results to i64 by saturation;     *)
(* MaxI64 is the greatest i64.  Every i128 intermediate is a product of at *)
(* most three values of 64 bits or less that the final narrowing would     *)
(* saturate long before i128 does, so i128 is modelled by Int.             *)
(***************************************************************************)
EXTENDS Integers

CONSTANTS
  MaxI64,             \* i64::MAX
  MarginScale,        \* MARGIN_SCALE, 10 000 basis points
  InitialMarginBps    \* initial-margin rate in units of 1 / MarginScale

ASSUME ClearingAssumption ==
  /\ MaxI64 \in Nat \ {0}
  /\ MarginScale \in Nat \ {0}
  /\ InitialMarginBps \in Nat

-----------------------------------------------------------------------------
Account == [size : Int, avg : Nat, collateral : Int]

\* Account::flat
Flat == [size |-> 0, avg |-> 0, collateral |-> 0]

NoMark == -1     \* `None` where the code has Option<MarkPrice>

Saturate(v) ==
  IF v > MaxI64 THEN MaxI64 ELSE IF v < -MaxI64 - 1 THEN -MaxI64 - 1 ELSE v

Abs(v) == IF v < 0 THEN -v ELSE v

Sign(v) == IF v > 0 THEN 1 ELSE IF v < 0 THEN -1 ELSE 0

SideSign(side) == IF side = "Buy" THEN 1 ELSE -1

-----------------------------------------------------------------------------
(* Mutated forms of definitions below.                                     *)

\* A flip keeps the entry price of the position it closed.
NewAvg_KeepOnFlip(acct, price, qty, side) ==
  IF acct.size = 0 THEN price ELSE acct.avg

-----------------------------------------------------------------------------
(* apply_fill                                                              *)

\* Contracts of an opposite position that the fill closes.
Closed(acct, qty, side) ==
  IF Sign(acct.size) = -SideSign(side)
  THEN IF Abs(acct.size) <= qty THEN Abs(acct.size) ELSE qty
  ELSE 0

Realized(acct, price, qty, side) ==
  Saturate(Sign(acct.size) * Closed(acct, qty, side) * (price - acct.avg))

NewSize(acct, qty, side) == acct.size + SideSign(side) * qty

\* The entry price: kept while a position shrinks or closes, the fill price
\* when one opens or flips, the weighted mean rounded down when one grows.
NewAvg(acct, price, qty, side) ==
  LET n == NewSize(acct, qty, side)
  IN IF n = 0 THEN acct.avg
     ELSE IF Sign(acct.size) # Sign(n) THEN price
     ELSE IF Sign(acct.size) = -SideSign(side) THEN acct.avg
     ELSE (Abs(acct.size) * acct.avg + qty * price) \div (Abs(acct.size) + qty)

\* The account after the fill, the realized PnL credited to its collateral
\* as the bridge does.
ApplyFill(acct, price, qty, side) ==
  [size       |-> Saturate(NewSize(acct, qty, side)),
   avg        |-> NewAvg(acct, price, qty, side),
   collateral |-> Saturate(acct.collateral + Realized(acct, price, qty, side))]

-----------------------------------------------------------------------------
(* Margin.                                                                 *)

InitialMarginAt(acct, mark) ==
  Saturate((Abs(acct.size) * mark * InitialMarginBps) \div MarginScale)

UnrealizedPnl(acct, mark) == Saturate((mark - acct.avg) * acct.size)

FreeCollateral(acct, mark) ==
  Saturate(acct.collateral + UnrealizedPnl(acct, mark)
             - InitialMarginAt(acct, mark))

\* withdraw_free_collateral: without a mark, no unrealized PnL counts and
\* the margin is taken at the entry price.
WithdrawFreeCollateral(acct, mark) ==
  IF mark = NoMark
  THEN Saturate(acct.collateral - InitialMarginAt(acct, acct.avg))
  ELSE FreeCollateral(acct, mark)

=============================================================================
