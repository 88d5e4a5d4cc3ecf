----------------------------- MODULE Liquidation -----------------------------
(***************************************************************************)
(* The liquidation engine of crates/liquidation: one scan over the account *)
(* snapshots of a block, the insurance fund it feeds and draws on, and the *)
(* auto-deleveraging (ADL) pass that absorbs what the fund cannot pay.     *)
(*                                                                         *)
(* Both passes are loops, one account per step here, because an iteration  *)
(* depends on the fund or the deficit that the earlier ones left.          *)
(***************************************************************************)
EXTENDS Clearing, Sequences, SequencesExt, FiniteSetsExt

CONSTANTS
  N,                       \* accounts, identified by 1..N
  MaintenanceMarginBps,    \* maintenance margin, in units of 1 / MarginScale
  LiquidationFeeBps,       \* liquidation fee, in units of 1 / MarginScale
  RunAdl,                  \* run_adl_on_unfilled_deficit
  MaxSize, MaxEntry, MaxCollateral,   \* bounds of a snapshot's fields
  MaxFund,                 \* bound of the fund's balance at the start
  MaxScans                 \* bound: scans in one behaviour

ASSUME LiquidationAssumption ==
  /\ N \in Nat
  /\ MaintenanceMarginBps \in Nat
  /\ LiquidationFeeBps \in Nat
  /\ RunAdl \in BOOLEAN
  /\ MaxSize \in Nat /\ MaxEntry \in Nat /\ MaxCollateral \in Nat
  /\ MaxFund \in Nat /\ MaxFund <= MaxI64
  /\ MaxScans \in Nat

VARIABLES
  phase,        \* "idle", "scan" or "adl"
  snap,         \* the snapshots being scanned, by account id
  mark,         \* the mark they are scanned at
  next,         \* the account the scan looks at next
  fund,         \* balance of the insurance fund
  before,       \* history: the balance when the scan began
  report,       \* ScanReport: totals and records, in scan order
  adl,          \* AdlReport.records, in rank order
  remaining,    \* the deficit the ADL pass has not absorbed
  scans         \* number of scans begun

liqVars == <<phase, snap, mark, next, fund, before, report, adl, remaining, scans>>

Ids == 1..N

\* The entry price of a flat account plays no part in a scan.
Snapshots ==
  LET flat == [size : {0}, avg : {0}, collateral : (-1)..MaxCollateral]
      open == [size : (-MaxSize..MaxSize) \ {0}, avg : 1..MaxEntry,
               collateral : (-1)..MaxCollateral]
  IN [Ids -> flat \cup open]

\* The sum of a function's values.
TotalOf(f) == MapThenSumSet(LAMBDA x : f[x], DOMAIN f)

EmptyReport == [deposits |-> 0, withdrawals |-> 0, deficit |-> 0, records |-> <<>>]

-----------------------------------------------------------------------------
(* Margin arithmetic. Rust's integer division truncates towards zero.      *)

TruncDiv(n, d) == IF n >= 0 THEN n \div d ELSE -((-n) \div d)

\* Notional is a u64.
NotionalValue(acct, m) ==
  LET v == Abs(acct.size) * m
  IN IF v > 2 * MaxI64 + 1 THEN 2 * MaxI64 + 1 ELSE v

AccountEquity(acct, m) == Saturate(acct.collateral + UnrealizedPnl(acct, m))

MarginRatio(acct, m) ==
  IF NotionalValue(acct, m) = 0 THEN MaxI64
  ELSE Saturate(TruncDiv(AccountEquity(acct, m) * MarginScale, NotionalValue(acct, m)))

MarginHealth(acct, m) ==
  LET r == MarginRatio(acct, m)
  IN IF r < 0 THEN "Underwater"
     ELSE IF r < MaintenanceMarginBps THEN "Liquidatable"
     ELSE IF r < InitialMarginBps THEN "AtRisk"
     ELSE "Safe"

LiquidationFee(acct, m) ==
  Saturate((NotionalValue(acct, m) * LiquidationFeeBps) \div MarginScale)

\* The scan closes liquidatable and underwater accounts, but no flat one.
MustClose(acct, m) ==
  MarginHealth(acct, m) \in {"Liquidatable", "Underwater"} /\ acct.size # 0

\* The market order that would close the account.
CloseOrderSpec(acct) ==
  [side |-> IF acct.size > 0 THEN "Sell" ELSE "Buy", qty |-> Abs(acct.size)]

\* Equity covers the fee: solvent_close_outcome, else the underwater one.
IsSolvent(acct, m) == AccountEquity(acct, m) >= LiquidationFee(acct, m)

\* Covered, PartiallyDrained or Depleted: what the fund paid, and what it
\* leaves to ADL.
WithdrawOutcome(paid, unfilled) == [paid |-> paid, unfilled |-> unfilled]

-----------------------------------------------------------------------------
(* Mutated forms of definitions below.                                     *)

\* A drained fund reports the whole shortfall as unfilled.
WithdrawShortfall_WholeUnfilled(balance, shortfall) ==
  IF balance >= shortfall THEN WithdrawOutcome(shortfall, 0)
  ELSE WithdrawOutcome(balance, shortfall)

\* The ranking is by account id only.
RanksBefore_IdOnly(i, j) == i < j

-----------------------------------------------------------------------------
(* The insurance fund.                                                     *)

\* InsuranceFund::deposit ignores amounts that are not positive.
Credited(balance, fee) == IF fee > 0 THEN Saturate(balance + fee) ELSE balance

\* InsuranceFund::withdraw_shortfall: what it pays and what is left to ADL.
WithdrawShortfall(balance, shortfall) ==
  IF shortfall <= 0 THEN WithdrawOutcome(0, 0)
  ELSE IF balance >= shortfall THEN WithdrawOutcome(shortfall, 0)
  ELSE WithdrawOutcome(balance, shortfall - balance)

\* underwater_close_outcome: positive equity is taken as a partial fee.
PartialFee(acct, m) ==
  IF AccountEquity(acct, m) > 0 THEN AccountEquity(acct, m) ELSE 0

Shortfall(acct, m) == Saturate(LiquidationFee(acct, m) - AccountEquity(acct, m))

\* The record of a solvent close: the whole fee, and what is left returns.
SolventClose(i, m) ==
  [account |-> i, solvent |-> TRUE, fee |-> LiquidationFee(snap[i], m), shortfall |-> 0,
   residual |-> Saturate(AccountEquity(snap[i], m) - LiquidationFee(snap[i], m))]

\* The record of an underwater close: nothing is left.
UnderwaterClose(i, m) ==
  [account |-> i, solvent |-> FALSE, fee |-> PartialFee(snap[i], m),
   shortfall |-> Shortfall(snap[i], m), residual |-> 0]

-----------------------------------------------------------------------------
(* ADL ranking.                                                            *)

\* adl_score is `None` for an account that is not a solvent winner.
Eligible(acct, m) ==
  /\ acct.size # 0
  /\ UnrealizedPnl(acct, m) > 0
  /\ acct.collateral > 0
  /\ AccountEquity(acct, m) > 0

AdlScore(acct, m) ==
  LET pct == (UnrealizedPnl(acct, m) * MarginScale) \div acct.collateral
      leverage == (NotionalValue(acct, m) * MarginScale) \div AccountEquity(acct, m)
  IN Saturate((pct * leverage) \div MarginScale)

RanksBefore(i, j) ==
  \/ AdlScore(snap[i], mark) > AdlScore(snap[j], mark)
  \/ AdlScore(snap[i], mark) = AdlScore(snap[j], mark) /\ i < j

\* Candidates the pass has not reached yet.
Candidates ==
  {i \in Ids : /\ Eligible(snap[i], mark)
               /\ \A k \in 1..Len(adl) : adl[k].account # i}

Haircut(pnl) == IF remaining <= pnl THEN remaining ELSE pnl

\* What ADL records of winner i.
AdlRecord(i) ==
  LET pnl == UnrealizedPnl(snap[i], mark)
  IN [account |-> i, close_order |-> CloseOrderSpec(snap[i]),
      gross |-> pnl, haircut |-> Haircut(pnl), paid |-> pnl - Haircut(pnl)]

-----------------------------------------------------------------------------
LiqInit ==
  /\ phase = "idle"
  /\ snap = [i \in Ids |-> Flat]
  /\ mark = 0
  /\ next = 1
  /\ fund \in 0..MaxFund
  /\ before = fund
  /\ report = EmptyReport
  /\ adl = <<>>
  /\ remaining = 0
  /\ scans = 0

\* LiquidationScanner::scan is called with snapshots s and mark m.
StartScan(s, m) ==
  /\ phase = "idle"
  /\ scans < MaxScans
  /\ phase' = "scan"
  /\ snap' = s /\ mark' = m /\ next' = 1
  /\ before' = fund
  /\ report' = EmptyReport /\ adl' = <<>> /\ remaining' = 0
  /\ scans' = scans + 1
  /\ UNCHANGED fund

Scanning == phase = "scan" /\ next <= N

SkipAccount ==
  /\ Scanning
  /\ ~ MustClose(snap[next], mark)
  /\ next' = next + 1
  /\ UNCHANGED <<phase, snap, mark, fund, before, report, adl, remaining, scans>>

CloseSolvent ==
  LET r == SolventClose(next, mark)
  IN /\ Scanning
     /\ MustClose(snap[next], mark) /\ IsSolvent(snap[next], mark)
     /\ fund' = Credited(fund, r.fee)
     /\ report' = [report EXCEPT !.deposits = Saturate(@ + r.fee),
                                 !.records = Append(@, r)]
     /\ next' = next + 1
     /\ UNCHANGED <<phase, snap, mark, before, adl, remaining, scans>>

\* The partial fee is credited before the shortfall is drawn.
CloseUnderwater ==
  LET r == UnderwaterClose(next, mark)
      w == WithdrawShortfall(Credited(fund, r.fee), r.shortfall)
  IN /\ Scanning
     /\ MustClose(snap[next], mark) /\ ~ IsSolvent(snap[next], mark)
     /\ fund' = Credited(fund, r.fee) - w.paid
     /\ report' = [report EXCEPT !.deposits = Saturate(@ + r.fee),
                                 !.withdrawals = Saturate(@ + w.paid),
                                 !.deficit = Saturate(@ + w.unfilled),
                                 !.records = Append(@, r)]
     /\ next' = next + 1
     /\ UNCHANGED <<phase, snap, mark, before, adl, remaining, scans>>

\* The scan returns; OpenHlNode::tick runs ADL on an unfilled deficit.
EndScan ==
  /\ phase = "scan" /\ next > N
  /\ IF RunAdl /\ report.deficit > 0
     THEN phase' = "adl" /\ remaining' = report.deficit
     ELSE phase' = "idle" /\ UNCHANGED remaining
  /\ UNCHANGED <<snap, mark, next, fund, before, report, adl, scans>>

\* One winner is closed in the bookkeeping and its PnL cut. The candidates
\* are all accounts of the snapshot, the ones just liquidated included.
AdlClose(i) ==
  /\ phase = "adl" /\ remaining > 0
  /\ i \in Candidates
  /\ \A j \in Candidates \ {i} : ~ RanksBefore(j, i)
  /\ adl' = Append(adl, AdlRecord(i))
  /\ remaining' = remaining - AdlRecord(i).haircut
  /\ UNCHANGED <<phase, snap, mark, next, fund, before, report, scans>>

\* execute_adl returns: nothing is left to absorb, or nobody to take it from.
EndAdl ==
  /\ phase = "adl"
  /\ remaining = 0 \/ Candidates = {}
  /\ phase' = "idle"
  /\ UNCHANGED <<snap, mark, next, fund, before, report, adl, remaining, scans>>

TickStep ==
  \/ SkipAccount \/ CloseSolvent \/ CloseUnderwater \/ EndScan
  \/ \E i \in Ids : AdlClose(i)
  \/ EndAdl

-----------------------------------------------------------------------------
(* Properties.                                                             *)

\* The types of the engine's state; the fund's balance is never negative. A
\* part of ShortfallsAccounted.
LiqTypeOK ==
  /\ phase \in {"idle", "scan", "adl"}
  /\ snap \in [Ids -> Account]
  /\ mark \in Nat
  /\ next \in 1..(N + 1)
  /\ fund \in 0..MaxI64
  /\ remaining \in Nat

\* Every shortfall is somebody's: what the closed accounts fall short of is
\* paid by the fund or reported as the deficit, and what ADL has taken of
\* the deficit is what it has cut from the winners. The fund pays no more
\* than it has, and gains and loses what the report says (scan,
\* withdraw_shortfall, execute_adl).
ShortfallsAccounted ==
  /\ LiqTypeOK
  /\ fund = before + report.deposits - report.withdrawals
  /\ TotalOf([k \in 1..Len(report.records) |-> report.records[k].shortfall])
       = report.withdrawals + report.deficit
  /\ phase = "adl" =>
       report.deficit = TotalOf([k \in 1..Len(adl) |-> adl[k].haircut]) + remaining

\* ADL takes the winners by descending score, equal scores by ascending id,
\* and takes no winner while one that deserves it more is spared.
InRankOrder ==
  LET score(i) == AdlScore(snap[i], mark)
  IN \A k \in 1..Len(adl) :
       LET a == adl[k].account
       IN \A i \in Ids \ {adl[l].account : l \in 1..k} :
            Eligible(snap[i], mark) =>
              score(i) < score(a) \/ (score(i) = score(a) /\ i > a)

\* When the pass ends it has absorbed all that the winners could pay, and
\* no more than the deficit: what remains is the deficit less the PnL of
\* all winners. It takes them in rank order, nobody is cut by more than the
\* winner's own PnL, and only the last one cut keeps part of it
\* (execute_adl).
AdlAbsorbsDeficit ==
  LET winners == {i \in Ids : Eligible(snap[i], mark)}
      wealth == TotalOf([i \in winners |-> UnrealizedPnl(snap[i], mark)])
  IN /\ InRankOrder
     /\ phase = "idle" /\ RunAdl =>
          remaining = IF report.deficit > wealth THEN report.deficit - wealth ELSE 0
     /\ \A k \in 1..Len(adl) :
          /\ adl[k].haircut > 0 /\ adl[k].paid >= 0
          /\ adl[k].paid > 0 => k = Len(adl)

=============================================================================
