----------------------------- MODULE Settlement -----------------------------
(***************************************************************************)
(* The commit hook of bin/openhl: after every decided block the consensus  *)
(* task snapshots the bridge's accounts, runs OpenHlNode::tick over the    *)
(* snapshot (module Liquidation, then funding), and writes the report back *)
(* into the live accounts, funding first, liquidation and ADL second.      *)
(*                                                                         *)
(* The accounts' mutex is released between the snapshot and each of the    *)
(* two write-backs.  A contract may call the deposit precompile in any of  *)
(* these gaps: EvmDeposit.                                                 *)
(***************************************************************************)
EXTENDS Liquidation

CONSTANTS
  RateScale,      \* RATE_SCALE, 10^9
  Divisor,        \* FundingParams::divisor
  RateCap,        \* FundingParams::rate_cap
  MaxDeposits     \* bound: EVM deposits in one behaviour

ASSUME SettlementAssumption ==
  /\ RateScale \in Nat \ {0}
  /\ Divisor \in Nat
  /\ RateCap \in Nat
  /\ MaxDeposits \in Nat

VARIABLES
  live,       \* the bridge's account map
  stage,      \* the hook: "idle", "tick" (tick and funding), "records"
  deltas,     \* the funding settlements of the tick, 0 where there is none
  arrived,    \* history: deposited since the snapshot, per account
  deposits    \* number of EVM deposits

settlementVars == <<live, stage, deltas, arrived, deposits>>

Zero == [i \in Ids |-> 0]

OpenInterest(accts) == TotalOf([i \in Ids |-> accts[i].size])

-----------------------------------------------------------------------------
(* Funding.                                                                *)

Clamp(v, cap) == IF v > cap THEN cap ELSE IF v < -cap THEN -cap ELSE v

ComputePremium(m, index) ==
  IF index = 0 THEN 0 ELSE Saturate(TruncDiv((m - index) * RateScale, index))

ComputeRate(premium) ==
  IF Divisor = 0 THEN 0 ELSE Clamp(TruncDiv(premium, Divisor), RateCap)

\* FundingClock::tick: without a fresh index, or before its interval is over,
\* there is no settlement; a rate of zero settles nothing either.
FundingRate(m, index, due) ==
  IF due /\ index # NoMark THEN ComputeRate(ComputePremium(m, index)) ELSE 0

\* Scan and ADL prefer the oracle's fresh index, funding compares the two.
ScanMark(m, index) == IF index = NoMark THEN m ELSE index

-----------------------------------------------------------------------------
(* Mutated forms of definitions below.                                     *)

\* The payment does not depend on the direction of the position.
FundingDelta_Unsigned(acct, m, rate) ==
  Saturate(TruncDiv(-(Abs(acct.size) * m * rate), RateScale))

\* The settlement is added to the collateral of the snapshot.
Settled_FromSnapshot(i) ==
  [live[i] EXCEPT !.collateral = Saturate(snap[i].collateral + deltas[i])]

\* An ADL close moves the position the wrong way.
AdlApplied_WrongSide(acct, r) ==
  [acct EXCEPT !.size = Saturate(@ - SideSign(r.close_order.side) * r.close_order.qty),
               !.collateral = Saturate(@ + r.paid)]

-----------------------------------------------------------------------------
\* Longs pay shorts while the rate is positive.
FundingDelta(acct, m, rate) ==
  Saturate(TruncDiv(-(acct.size * m * rate), RateScale))

\* The funding write-back of one account.
Settled(i) == [live[i] EXCEPT !.collateral = Saturate(@ + deltas[i])]

\* The liquidation write-back: the position is set flat and the collateral
\* to what the scan computed from the snapshot.
LiquidationApplied(acct, r) == [acct EXCEPT !.size = 0, !.collateral = r.residual]

\* The ADL write-back: the close order's quantity, the size in the snapshot,
\* is taken off the live position, and what is left of the PnL is paid.
AdlApplied(acct, r) ==
  [acct EXCEPT !.size = Saturate(@ + SideSign(r.close_order.side) * r.close_order.qty),
               !.collateral = Saturate(@ + r.paid)]

\* The write-back of the records rs for account i: none, or its record, of
\* which a scan and an ADL pass make at most one for each account.
HasRecord(rs, i) == \E k \in 1..Len(rs) : rs[k].account = i
RecordOf(rs, i) == rs[CHOOSE k \in 1..Len(rs) : rs[k].account = i]

LiquidationWriteBack(i, acct) ==
  IF HasRecord(report.records, i)
  THEN LiquidationApplied(acct, RecordOf(report.records, i)) ELSE acct
AdlWriteBack(i, acct) ==
  IF HasRecord(adl, i) THEN AdlApplied(acct, RecordOf(adl, i)) ELSE acct

-----------------------------------------------------------------------------
\* Accounts that trading among themselves has led to.
SettlementInit ==
  /\ LiqInit
  /\ live \in {a \in Snapshots : OpenInterest(a) = 0}
  /\ stage = "idle"
  /\ deltas = Zero
  /\ arrived = Zero
  /\ deposits = 0

\* current_mark and accounts_snapshot, and the start of the tick. m is the
\* midpoint of the book (or the hook's stand-in for an empty one), index the
\* oracle's fresh price or NoMark; due says whether the funding clock fires.
TakeSnapshot(m, index, due) ==
  /\ stage = "idle"
  /\ StartScan(live, ScanMark(m, index))
  /\ stage' = "tick"
  /\ deltas' = [i \in Ids |-> FundingDelta(live[i], m, FundingRate(m, index, due))]
  /\ arrived' = Zero
  /\ UNCHANGED <<live, deposits>>

\* The scan and the ADL pass of the tick, on the snapshot.
TickOnSnapshot ==
  /\ stage = "tick"
  /\ TickStep
  /\ UNCHANGED settlementVars

\* The tick is over: with_accounts_mut, for the funding settlements.
ApplyFunding ==
  /\ stage = "tick" /\ phase = "idle"
  /\ live' = [i \in Ids |-> Settled(i)]
  /\ stage' = "records"
  /\ UNCHANGED <<liqVars, deltas, arrived, deposits>>

\* with_accounts_mut again, for the liquidation records, then the ADL ones.
ApplyRecords ==
  /\ stage = "records"
  /\ live' = [i \in Ids |-> AdlWriteBack(i, LiquidationWriteBack(i, live[i]))]
  /\ stage' = "idle"
  /\ UNCHANGED <<liqVars, deltas, arrived, deposits>>

\* The deposit precompile, on the EVM's thread.
EvmDeposit(i, amount) ==
  /\ deposits < MaxDeposits
  /\ live' = [live EXCEPT ![i].collateral = Saturate(@ + amount)]
  /\ arrived' = [arrived EXCEPT ![i] = @ + amount]
  /\ deposits' = deposits + 1
  /\ UNCHANGED <<liqVars, stage, deltas>>

SettlementNext ==
  \/ \E m \in 0..MaxEntry, index \in {NoMark} \cup 1..MaxEntry, due \in BOOLEAN :
       TakeSnapshot(m, index, due)
  \/ TickOnSnapshot
  \/ ApplyFunding
  \/ ApplyRecords
  \/ \E i \in Ids, amount \in {-1, 1} : EvmDeposit(i, amount)

SettlementSpec == SettlementInit /\ [][SettlementNext]_<<liqVars, settlementVars>>

-----------------------------------------------------------------------------
(* Properties.                                                             *)

Liquidated == {report.records[k].account : k \in 1..Len(report.records)}

Deleveraged == {adl[k].account : k \in 1..Len(adl)}

HookDone == stage = "idle" /\ scans > 0

\* The types of the hook's own state; a part of BystandersKeepEveryDelta.
SettlementTypeOK ==
  /\ live \in [Ids -> Account]
  /\ stage \in {"idle", "tick", "records"}
  /\ deltas \in [Ids -> Int] /\ arrived \in [Ids -> Int]
  /\ stage # "tick" => phase = "idle"

\* An account that the tick did not close has lost nothing to the hook's
\* stale snapshot: it has the funding it was due and every deposit made
\* while the hook was running, and its position is untouched.
BystandersKeepEveryDelta ==
  /\ SettlementTypeOK
  /\ HookDone => \A i \in Ids \ (Liquidated \cup Deleveraged) :
       /\ live[i].size = snap[i].size
       /\ live[i].collateral = snap[i].collateral + deltas[i] + arrived[i]

\* A winner that only ADL closed ends flat, with its deposits, its funding
\* and the part of its PnL that ADL left it.
WinnersArePaid ==
  HookDone => \A k \in 1..Len(adl) :
    LET i == adl[k].account
    IN i \notin Liquidated =>
         /\ live[i].size = 0
         /\ live[i].collateral = snap[i].collateral + deltas[i] + arrived[i] + adl[k].paid

\* Funding moves collateral between longs and shorts and creates none: as
\* long as the positions balance, the settlements of a tick sum to zero but
\* for the truncation of each one.
FundingBalances ==
  OpenInterest(snap) = 0 => Abs(TotalOf(deltas)) < N

\* The hook's comment on the write-back: the bridge is the sole source of
\* truth for per-account state, every delta lands there. For an account the
\* scan closes solvently that means its residual, its funding and its
\* deposits.
EveryDeltaLands ==
  HookDone => \A k \in 1..Len(report.records) :
    LET r == report.records[k]
    IN r.solvent /\ r.account \notin Deleveraged =>
         live[r.account].collateral = r.residual + deltas[r.account] + arrived[r.account]
=============================================================================
