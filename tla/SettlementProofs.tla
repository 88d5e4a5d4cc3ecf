-------------------------- MODULE SettlementProofs --------------------------
(***************************************************************************)
(* Proofs about modules Liquidation and Settlement, for any number of      *)
(* accounts, blocks and deposits and any margins, fees and rates: every    *)
(* shortfall is somebody's, ADL takes what the winners have and no more,   *)
(* funding creates nothing, and the hook's stale snapshot costs an account *)
(* that the tick did not close nothing.                                    *)
(*                                                                         *)
(* Amounts saturate at the ends of i64, where none of this is true.  The   *)
(* theorems have the hypothesis HaveRoom: the largest amounts that the     *)
(* bounds of a behaviour lead to are i64.                                  *)
(***************************************************************************)
EXTENDS Settlement, SumTheorems, SequenceTheorems

-----------------------------------------------------------------------------
(* The largest amounts.                                                    *)

\* PnL or notional of an account; the fee for closing it; its funding.
PnlMax == MaxSize * MaxEntry
FeeMax == (PnlMax * LiquidationFeeBps) \div MarginScale
DeltaMax == (PnlMax * RateCap) \div RateScale

\* What the write-backs of one block can add to an account's collateral, and
\* how far it can be from zero after s blocks and d deposits.
Growth == 2 * PnlMax + DeltaMax
Reach(s, d) == MaxCollateral + 1 + d + s * Growth

ShortfallMax == FeeMax + PnlMax + Reach(MaxScans, MaxDeposits)

HaveRoom ==
  /\ MaxSize <= MaxI64
  /\ MaxFund + MaxScans * (N * FeeMax) <= MaxI64
  /\ N * ShortfallMax <= MaxI64

-----------------------------------------------------------------------------
(* The inductive invariant.                                                *)

\* The blocks whose write-backs were over when the hook began.
Before == IF scans = 0 THEN 0 ELSE scans - 1

InRange(acct, c) ==
  /\ acct \in Account
  /\ acct.size \in -MaxSize..MaxSize /\ acct.avg \in 0..MaxEntry
  /\ acct.collateral \in -c..c

\* Ranges: of the accounts by what the hook has done.
RangeInv ==
  /\ stage \in {"idle", "tick", "records"} /\ phase \in {"idle", "scan", "adl"}
  /\ stage # "tick" => phase = "idle"
  /\ stage # "idle" => scans # 0
  /\ scans \in 0..MaxScans /\ deposits \in 0..MaxDeposits
  /\ mark \in 0..MaxEntry
  /\ snap \in [Ids -> Account] /\ live \in [Ids -> Account]
  /\ deltas \in [Ids -> (-DeltaMax)..DeltaMax] /\ arrived \in [Ids -> Int]
  /\ \A i \in Ids :
       /\ InRange(snap[i], Reach(Before, deposits))
       /\ InRange(live[i], CASE stage = "tick" -> Reach(Before, deposits)
                             [] stage = "records" -> Reach(Before, deposits) + DeltaMax
                             [] stage = "idle" -> Reach(scans, deposits))

\* The settlements of a tick are the snapshot's sizes times one factor.
FundingInv ==
  \E k \in Int : \A i \in Ids : deltas[i] = TruncDiv(-(snap[i].size * k), RateScale)

\* Until the write-backs an account is the snapshot's but for the deposits.
HookInv ==
  /\ stage = "tick" =>
       \A i \in Ids : /\ live[i].size = snap[i].size
                      /\ live[i].collateral = snap[i].collateral + arrived[i]
  /\ stage = "records" =>
       \A i \in Ids : /\ live[i].size = snap[i].size
                      /\ live[i].collateral = snap[i].collateral + deltas[i] + arrived[i]
  /\ HookDone => \A i \in Ids \ (Liquidated \cup Deleveraged) :
       /\ live[i].size = snap[i].size
       /\ live[i].collateral = snap[i].collateral + deltas[i] + arrived[i]
  /\ WinnersArePaid

Records ==
  [account : Ids, solvent : BOOLEAN, fee : Nat, shortfall : Nat, residual : Nat]

Shortfalls == [k \in 1..Len(report.records) |-> report.records[k].shortfall]

\* The scan: fund and report agree, the records are of different accounts.
ScanInv ==
  /\ next \in 1..(N + 1) /\ (phase # "scan" => next = N + 1 \/ scans = 0)
  /\ scans = 0 => next = 1
  /\ report \in [deposits : Nat, withdrawals : Nat, deficit : Nat, records : Seq(Records)]
  /\ \A k \in 1..Len(report.records) :
       /\ report.records[k].account < next
       /\ report.records[k].residual <= Reach(Before, deposits) + PnlMax
  /\ \A k, l \in 1..Len(report.records) :
       k < l => report.records[k].account < report.records[l].account
  /\ fund \in Nat /\ before \in 0..(MaxFund + Before * (N * FeeMax))
  /\ fund = before + report.deposits - report.withdrawals
  /\ report.deposits <= (next - 1) * FeeMax
  /\ report.withdrawals + report.deficit <= (next - 1) * ShortfallMax
  /\ TotalOf(Shortfalls) = report.withdrawals + report.deficit

AdlRecords ==
  [account : Ids, close_order : [side : {"Buy", "Sell"}, qty : Nat],
   gross : Nat, haircut : Nat, paid : Nat]

Winners == {i \in Ids : Eligible(snap[i], mark)}
Pnls == [i \in Ids |-> UnrealizedPnl(snap[i], mark)]
Haircuts == [k \in 1..Len(adl) |-> adl[k].haircut]
Grosses == [k \in 1..Len(adl) |-> adl[k].gross]

\* The ADL pass: what it has taken and what there is to take.
AdlInv ==
  /\ remaining \in Nat /\ adl \in Seq(AdlRecords)
  /\ phase = "scan" => adl = <<>> /\ remaining = 0
  /\ phase = "adl" => RunAdl /\ report.deficit > 0
  /\ \A k \in 1..Len(adl) :
       /\ adl[k].account \in Winners
       /\ adl[k].close_order = CloseOrderSpec(snap[adl[k].account])
       /\ adl[k].gross = UnrealizedPnl(snap[adl[k].account], mark)
       /\ adl[k].gross = adl[k].haircut + adl[k].paid /\ adl[k].haircut > 0
       /\ adl[k].paid > 0 => k = Len(adl) /\ remaining = 0
  /\ \A k, l \in 1..Len(adl) : adl[k].account = adl[l].account => k = l
  /\ phase # "scan" /\ RunAdl =>
       report.deficit = TotalOf(Haircuts) + remaining
  /\ SumOf(Pnls, Winners) = SumOf(Pnls, Candidates) + TotalOf(Grosses)
  /\ phase = "idle" /\ RunAdl => remaining = 0 \/ Candidates = {}
  /\ InRankOrder

SettlementInv == RangeInv /\ FundingInv /\ HookInv /\ ScanInv /\ AdlInv

-----------------------------------------------------------------------------
(* The amounts are in range.                                               *)

LEMMA Amounts ==
  /\ PnlMax \in Nat /\ FeeMax \in Nat /\ DeltaMax \in Nat /\ Growth \in Nat
  /\ \A s, d \in Nat : Reach(s, d) \in Nat
  /\ ShortfallMax \in Nat
  <1> USE ClearingAssumption, LiquidationAssumption, SettlementAssumption
  <1>1. PnlMax \in Nat
    BY DEF PnlMax
  <1>2. FeeMax \in Nat
    <2>1. PnlMax * LiquidationFeeBps \in Nat
      BY <1>1
    <2> QED
      BY <2>1, DivNonNegative DEF FeeMax
  <1>3. DeltaMax \in Nat
    <2>1. PnlMax * RateCap \in Nat
      BY <1>1
    <2> QED
      BY <2>1, DivNonNegative DEF DeltaMax
  <1>4. Growth \in Nat
    BY <1>1, <1>3 DEF Growth
  <1>5. \A s, d \in Nat : Reach(s, d) \in Nat
    BY <1>4 DEF Reach
  <1> QED
    BY <1>1, <1>2, <1>3, <1>4, <1>5 DEF ShortfallMax

LEMMA ReachGrows ==
  ASSUME NEW s \in Nat, NEW d \in Nat, NEW s1 \in Nat, NEW d1 \in Nat, s <= s1, d <= d1
  PROVE  Reach(s, d) <= Reach(s1, d1)
  <1>1. s * Growth <= s1 * Growth
    BY Amounts, TimesMonotonic
  <1>2. s * Growth \in Nat /\ s1 * Growth \in Nat
    BY Amounts
  <1> QED
    BY <1>1, <1>2, LiquidationAssumption DEF Reach

\* One block more, and one deposit more.
LEMMA ReachNext ==
  ASSUME NEW s \in Nat, NEW d \in Nat
  PROVE  /\ Reach(s + 1, d) = Reach(s, d) + 2 * PnlMax + DeltaMax
         /\ Reach(s, d + 1) = Reach(s, d) + 1
  <1>1. s * Growth \in Nat /\ (s + 1) * Growth = s * Growth + Growth
    BY Amounts
  <1> QED
    BY <1>1, Amounts, LiquidationAssumption DEF Reach, Growth

LEMMA NotSaturated ==
  ASSUME NEW b \in Int, b <= MaxI64, NEW v \in -b..b
  PROVE  Saturate(v) = v
  BY ClearingAssumption DEF Saturate

\* What there is room for, if there is an account.
LEMMA Room ==
  ASSUME HaveRoom, NEW i \in Ids
  PROVE  /\ PnlMax <= MaxI64 /\ FeeMax <= MaxI64 /\ ShortfallMax <= MaxI64
         /\ \A s \in 0..MaxScans, d \in 0..MaxDeposits :
              FeeMax + PnlMax + Reach(s, d) <= ShortfallMax
  <1> USE LiquidationAssumption, SettlementAssumption, ClearingAssumption
  <1>1. N \in Nat \ {0}
    BY DEF Ids
  <1>2. ShortfallMax <= MaxI64
    <2>1. 1 * ShortfallMax <= N * ShortfallMax
      BY <1>1, Amounts, TimesMonotonic
    <2>2. N * ShortfallMax \in Int
      BY <1>1, Amounts
    <2> QED
      BY <2>1, <2>2, Amounts DEF HaveRoom
  <1>3. ASSUME NEW s \in 0..MaxScans, NEW d \in 0..MaxDeposits
        PROVE  FeeMax + PnlMax + Reach(s, d) <= ShortfallMax
    <2>1. Reach(s, d) <= Reach(MaxScans, MaxDeposits)
      BY ReachGrows
    <2> QED
      BY <2>1, Amounts DEF ShortfallMax
  <1>4. Reach(MaxScans, MaxDeposits) \in Nat
    BY Amounts
  <1>5. FeeMax <= ShortfallMax /\ PnlMax <= ShortfallMax
    <2>1. FeeMax \in Nat /\ PnlMax \in Nat
      BY Amounts
    <2> QED
      BY <1>4, <2>1 DEF ShortfallMax
  <1> QED
    BY <1>2, <1>3, <1>5, Amounts

LEMMA PnlInRange ==
  ASSUME PnlMax <= MaxI64, NEW a, NEW c, InRange(a, c), NEW m \in 0..MaxEntry
  PROVE  /\ UnrealizedPnl(a, m) = (m - a.avg) * a.size
         /\ UnrealizedPnl(a, m) \in -PnlMax..PnlMax
  <1> USE LiquidationAssumption, ClearingAssumption
  <1>1. m - a.avg \in Int /\ -MaxEntry <= m - a.avg /\ m - a.avg <= MaxEntry
    BY DEF InRange
  <1>2. a.size \in Int /\ -MaxSize <= a.size /\ a.size <= MaxSize
    BY DEF InRange
  <1> DEFINE p == (m - a.avg) * a.size
  <1>3. p \in -(MaxEntry * MaxSize)..(MaxEntry * MaxSize)
    BY <1>1, <1>2, ProductBounds
  <1>4. MaxEntry * MaxSize = PnlMax
    BY DEF PnlMax
  <1>5. UnrealizedPnl(a, m) = Saturate(p)
    BY DEF UnrealizedPnl
  <1> HIDE DEF p
  <1>6. Saturate(p) = p
    BY <1>3, <1>4, Amounts DEF Saturate
  <1> QED
    BY <1>3, <1>4, <1>5, <1>6 DEF p

LEMMA NotionalInRange ==
  ASSUME NEW a, NEW c, InRange(a, c), NEW m \in 0..MaxEntry
  PROVE  NotionalValue(a, m) \in 0..PnlMax
  <1> USE LiquidationAssumption, ClearingAssumption
  <1>1. Abs(a.size) \in 0..MaxSize
    BY DEF InRange, Abs
  <1> DEFINE v == Abs(a.size) * m
  <1>2. v \in Nat
    BY <1>1
  <1>3. v <= PnlMax
    <2>1. Abs(a.size) * m <= MaxSize * m
      BY <1>1, TimesMonotonic
    <2>2. m * MaxSize <= MaxEntry * MaxSize
      BY TimesMonotonic
    <2>3. MaxSize * m = m * MaxSize /\ MaxSize * MaxEntry = MaxEntry * MaxSize
      OBVIOUS
    <2>4. m * MaxSize \in Nat /\ MaxEntry * MaxSize \in Nat
      OBVIOUS
    <2> QED
      BY <1>2, <2>1, <2>2, <2>3, <2>4 DEF PnlMax
  <1>4. NotionalValue(a, m) = IF v > 2 * MaxI64 + 1 THEN 2 * MaxI64 + 1 ELSE v
    BY DEF NotionalValue
  <1> HIDE DEF v
  <1> QED
    BY <1>2, <1>3, <1>4, Amounts

LEMMA FeeInRange ==
  ASSUME FeeMax <= MaxI64, NEW a, NEW c, InRange(a, c), NEW m \in 0..MaxEntry
  PROVE  LiquidationFee(a, m) \in 0..FeeMax
  <1> USE LiquidationAssumption, ClearingAssumption
  <1> DEFINE v == NotionalValue(a, m)
             f == (v * LiquidationFeeBps) \div MarginScale
  <1>1. v \in 0..PnlMax
    BY NotionalInRange
  <1>2. LiquidationFee(a, m) = Saturate(f)
    BY DEF LiquidationFee
  <1> HIDE DEF v
  <1>3. v * LiquidationFeeBps \in Nat
    BY <1>1
  <1>4. v * LiquidationFeeBps <= PnlMax * LiquidationFeeBps
    BY <1>1, Amounts, TimesMonotonic
  <1>5. PnlMax * LiquidationFeeBps \in Nat
    BY Amounts
  <1>6. f \in Nat /\ f <= FeeMax
    BY <1>3, <1>4, <1>5, DivNonNegative, DivMonotonic DEF FeeMax
  <1> HIDE DEF f
  <1> QED
    BY <1>2, <1>6, Amounts DEF Saturate

LEMMA EquityInRange ==
  ASSUME NEW c \in Nat, c + PnlMax <= MaxI64, NEW a, InRange(a, c), NEW m \in 0..MaxEntry
  PROVE  /\ AccountEquity(a, m) = a.collateral + UnrealizedPnl(a, m)
         /\ AccountEquity(a, m) \in -(c + PnlMax)..(c + PnlMax)
  <1> USE ClearingAssumption
  <1>1. PnlMax \in Nat
    BY Amounts
  <1>2. PnlMax <= MaxI64
    BY <1>1
  <1> DEFINE p == UnrealizedPnl(a, m)
             x == a.collateral
  <1>3. p \in -PnlMax..PnlMax
    BY <1>2, PnlInRange
  <1>4. x \in -c..c
    BY DEF InRange
  <1>5. AccountEquity(a, m) = Saturate(x + p)
    BY DEF AccountEquity
  <1> HIDE DEF p, x
  <1>6. x + p \in -(c + PnlMax)..(c + PnlMax)
    BY <1>1, <1>3, <1>4
  <1>7. Saturate(x + p) = x + p
    BY <1>1, <1>6 DEF Saturate
  <1> QED
    BY <1>5, <1>6, <1>7 DEF p, x

-----------------------------------------------------------------------------
(* Funding.                                                                *)

LEMMA Truncation ==
  ASSUME NEW x \in Int, NEW d \in Nat \ {0}
  PROVE  /\ TruncDiv(x, d) \in Int
         /\ x - (d - 1) <= d * TruncDiv(x, d) /\ d * TruncDiv(x, d) <= x + (d - 1)
  <1> DEFINE p == x \div d
             q == (-x) \div d
  <1>1. p \in Int /\ p * d <= x /\ x < (p + 1) * d
    BY DivIsFloor
  <1>2. q \in Int /\ q * d <= -x /\ -x < (q + 1) * d
    BY DivIsFloor
  <1>3. TruncDiv(x, d) = IF x >= 0 THEN p ELSE -q
    BY DEF TruncDiv
  <1> HIDE DEF p, q
  <1>4. /\ p * d \in Int /\ q * d \in Int /\ d * p = p * d /\ d * (-q) = -(q * d)
        /\ (p + 1) * d = p * d + d /\ (q + 1) * d = q * d + d
    BY <1>1, <1>2
  <1>5. CASE x >= 0
    BY <1>1, <1>3, <1>4, <1>5
  <1>6. CASE ~(x >= 0)
    BY <1>2, <1>3, <1>4, <1>6
  <1> QED
    BY <1>5, <1>6

LEMMA TruncationInRange ==
  ASSUME NEW b \in Nat, NEW x \in -b..b, NEW d \in Nat \ {0}
  PROVE  TruncDiv(x, d) \in -(b \div d)..(b \div d)
  <1>1. b \div d \in Nat
    BY DivNonNegative
  <1>2. CASE x >= 0
    <2>1. x \div d \in Nat /\ x \div d <= b \div d
      BY <1>2, DivNonNegative, DivMonotonic
    <2> QED
      BY <1>1, <1>2, <2>1 DEF TruncDiv
  <1>3. CASE ~(x >= 0)
    <2>1. -x \in Nat /\ -x <= b
      BY <1>3
    <2>2. (-x) \div d \in Nat /\ (-x) \div d <= b \div d
      BY <2>1, DivNonNegative, DivMonotonic
    <2> QED
      BY <1>1, <1>3, <2>2 DEF TruncDiv
  <1> QED
    BY <1>2, <1>3

LEMMA RateInRange ==
  ASSUME NEW m \in 0..MaxEntry, NEW index \in {NoMark} \cup 1..MaxEntry, NEW due
  PROVE  FundingRate(m, index, due) \in -RateCap..RateCap
  <1> USE ClearingAssumption, LiquidationAssumption, SettlementAssumption
  <1>1. ASSUME NEW v \in Int
        PROVE  Clamp(v, RateCap) \in -RateCap..RateCap
    BY DEF Clamp
  <1>2. ASSUME NEW p \in Int
        PROVE  ComputeRate(p) \in -RateCap..RateCap
    <2>1. CASE Divisor = 0
      BY <2>1 DEF ComputeRate
    <2>2. CASE Divisor # 0
      <3>1. TruncDiv(p, Divisor) \in Int
        BY <2>2, Truncation
      <3> QED
        BY <1>1, <2>2, <3>1 DEF ComputeRate
    <2> QED
      BY <2>1, <2>2
  <1>3. CASE due /\ index # NoMark
    <2>1. index \in Nat \ {0}
      BY <1>3 DEF NoMark
    <2> DEFINE x == (m - index) * RateScale
    <2>2. x \in Int
      BY <2>1
    <2> HIDE DEF x
    <2>3. TruncDiv(x, index) \in Int
      BY <2>1, <2>2, Truncation
    <2>4. Saturate(TruncDiv(x, index)) \in Int
      BY <2>3 DEF Saturate
    <2>5. ComputePremium(m, index) \in Int
      BY <2>1, <2>4 DEF ComputePremium, x
    <2> QED
      BY <1>2, <1>3, <2>5 DEF FundingRate
  <1>4. CASE ~(due /\ index # NoMark)
    BY <1>4 DEF FundingRate
  <1> QED
    BY <1>3, <1>4

LEMMA DeltaInRange ==
  ASSUME DeltaMax <= MaxI64, NEW a, NEW c, InRange(a, c), NEW m \in 0..MaxEntry,
         NEW rate \in -RateCap..RateCap
  PROVE  /\ FundingDelta(a, m, rate) = TruncDiv(-(a.size * (m * rate)), RateScale)
         /\ FundingDelta(a, m, rate) \in -DeltaMax..DeltaMax
  <1> USE ClearingAssumption, LiquidationAssumption, SettlementAssumption
  <1> DEFINE s == a.size
  <1>1. s \in Int /\ -MaxSize <= s /\ s <= MaxSize
    BY DEF InRange
  <1> HIDE DEF s
  <1>2. s * m \in -(MaxSize * MaxEntry)..(MaxSize * MaxEntry)
    BY <1>1, ProductBounds
  <1>3. s * m \in Int /\ -PnlMax <= s * m /\ s * m <= PnlMax /\ PnlMax \in Nat
    BY <1>2, Amounts DEF PnlMax
  <1> DEFINE v == s * m
  <1> HIDE DEF v
  <1>4. v * rate \in -(PnlMax * RateCap)..(PnlMax * RateCap)
    BY <1>3, ProductBounds DEF v
  <1>5. PnlMax * RateCap \in Nat
    BY <1>3
  <1> DEFINE b == PnlMax * RateCap
             x == -(v * rate)
  <1>6. b \in Nat /\ x \in -b..b
    BY <1>4, <1>5
  <1> HIDE DEF b, x
  <1>7. TruncDiv(x, RateScale) \in -(b \div RateScale)..(b \div RateScale)
    BY <1>6, TruncationInRange
  <1>8. b \div RateScale = DeltaMax
    BY DEF b, DeltaMax
  <1>9. x = -(a.size * (m * rate)) /\ x = -(a.size * m * rate)
    BY <1>1 DEF x, v, s
  <1>10. Saturate(TruncDiv(x, RateScale)) = TruncDiv(x, RateScale)
    <2>1. DeltaMax \in Int
      BY Amounts
    <2> QED
      BY <1>7, <1>8, <2>1, NotSaturated
  <1>11. FundingDelta(a, m, rate) = Saturate(TruncDiv(x, RateScale))
    BY <1>9 DEF FundingDelta
  <1> QED
    BY <1>7, <1>8, <1>9, <1>10, <1>11

LEMMA IdsFinite == IsFiniteSet(Ids) /\ Cardinality(Ids) = N
  BY LiquidationAssumption, FS_Interval DEF Ids

\* Settlements that are the sizes times one factor, each truncated, sum up to
\* the sum of the sizes times that factor, give or take one for each account.
LEMMA FundingSums ==
  ASSUME RangeInv, FundingInv, N # 0
  PROVE  FundingBalances
  <1> USE LiquidationAssumption, SettlementAssumption
  <1> SUFFICES ASSUME OpenInterest(snap) = 0 PROVE Abs(TotalOf(deltas)) < N
    BY DEF FundingBalances
  <1>1. PICK k \in Int : \A i \in Ids : deltas[i] = TruncDiv(-(snap[i].size * k), RateScale)
    BY DEF FundingInv
  <1> DEFINE sizes == [i \in Ids |-> snap[i].size]
             scaled == [i \in Ids |-> RateScale * deltas[i]]
             low == [i \in Ids |-> (-k) * snap[i].size + (-(RateScale - 1))]
             high == [i \in Ids |-> (-k) * snap[i].size + (RateScale - 1)]
             total == SumOf(deltas, Ids)
  <1>2. \A i \in Ids : snap[i].size \in Int /\ deltas[i] \in Int
    BY Amounts DEF RangeInv, Account
  <1>3. SumOf(sizes, Ids) = 0
    <2>1. TotalOf(sizes) = SumOf(sizes, Ids)
      BY DEF TotalOf, SumOf
    <2> QED
      BY <2>1 DEF OpenInterest
  <1>4. TotalOf(deltas) = total /\ total \in Int
    <2>1. DOMAIN deltas = Ids
      BY DEF RangeInv
    <2>2. TotalOf(deltas) = total
      BY <2>1 DEF TotalOf, SumOf
    <2>3. SumOf(deltas, Ids) \in Int
      BY <1>2, IdsFinite, SumInt
    <2> QED
      BY <2>2, <2>3
  <1>5. SumOf(scaled, Ids) = RateScale * total
    <2>1. \A i \in Ids : deltas[i] \in Int /\ scaled[i] = RateScale * deltas[i] + 0
      BY <1>2
    <2> HIDE DEF scaled
    <2>2. SumOf(scaled, Ids) = RateScale * SumOf(deltas, Ids) + 0 * Cardinality(Ids)
      <3>1. Linear(deltas, scaled, RateScale, 0, Ids)
        BY <2>1 DEF Linear
      <3>2. RateScale \in Int /\ 0 \in Int
        OBVIOUS
      <3> QED
        BY <3>1, <3>2, IdsFinite, SumLinear
    <2>3. RateScale * total \in Int
      BY <1>4
    <2> HIDE DEF total
    <2> QED
      BY <2>2, <2>3, IdsFinite DEF total
  <1>6. SumOf(low, Ids) = -((RateScale - 1) * N)
    <2>1. \A i \in Ids : sizes[i] \in Int /\ low[i] = (-k) * sizes[i] + (-(RateScale - 1))
      BY <1>2
    <2> HIDE DEF low, sizes
    <2>2. SumOf(low, Ids) = (-k) * SumOf(sizes, Ids) + (-(RateScale - 1)) * Cardinality(Ids)
      <3>1. Linear(sizes, low, -k, (-(RateScale - 1)), Ids)
        BY <2>1 DEF Linear
      <3>2. -k \in Int /\ (-(RateScale - 1)) \in Int
        OBVIOUS
      <3> QED
        BY <3>1, <3>2, IdsFinite, SumLinear
    <2> QED
      BY <1>3, <2>2, IdsFinite
  <1>7. SumOf(high, Ids) = (RateScale - 1) * N
    <2>1. \A i \in Ids : sizes[i] \in Int /\ high[i] = (-k) * sizes[i] + (RateScale - 1)
      BY <1>2
    <2> HIDE DEF high, sizes
    <2>2. SumOf(high, Ids) = (-k) * SumOf(sizes, Ids) + (RateScale - 1) * Cardinality(Ids)
      <3>1. Linear(sizes, high, -k, (RateScale - 1), Ids)
        BY <2>1 DEF Linear
      <3>2. -k \in Int /\ (RateScale - 1) \in Int
        OBVIOUS
      <3> QED
        BY <3>1, <3>2, IdsFinite, SumLinear
    <2> QED
      BY <1>3, <2>2, IdsFinite
  <1>8. \A i \in Ids : /\ low[i] \in Int /\ scaled[i] \in Int /\ high[i] \in Int
                       /\ low[i] <= scaled[i] /\ scaled[i] <= high[i]
    <2> SUFFICES ASSUME NEW i \in Ids
                 PROVE  /\ low[i] \in Int /\ scaled[i] \in Int /\ high[i] \in Int
                        /\ low[i] <= scaled[i] /\ scaled[i] <= high[i]
      OBVIOUS
    <2> DEFINE x == -(snap[i].size * k)
               y == RateScale * TruncDiv(x, RateScale)
    <2>1. x \in Int /\ (-k) * snap[i].size = x
      BY <1>2
    <2>2. low[i] = x + (-(RateScale - 1)) /\ high[i] = x + (RateScale - 1) /\ scaled[i] = y
      BY <1>1, <2>1
    <2> HIDE DEF x, low, high, scaled
    <2>3. y \in Int /\ x - (RateScale - 1) <= y /\ y <= x + (RateScale - 1)
      BY <2>1, Truncation
    <2> HIDE DEF y
    <2> QED
      BY <2>1, <2>2, <2>3
  <1> HIDE DEF low, high, scaled
  <1>9. SumOf(low, Ids) <= SumOf(scaled, Ids) /\ SumOf(scaled, Ids) <= SumOf(high, Ids)
    BY <1>8, IdsFinite, SumMonotonic
  <1> HIDE DEF total
  <1>10. /\ -((RateScale - 1) * N) <= RateScale * total
         /\ RateScale * total <= (RateScale - 1) * N
    BY <1>5, <1>6, <1>7, <1>9
  <1>11. N \in Nat \ {0} /\ (RateScale - 1) * N = RateScale * N - N /\ RateScale * N \in Int
    OBVIOUS
  <1>12. total < N
    <2> SUFFICES ASSUME N <= total PROVE FALSE
      BY <1>4
    <2>1. N * RateScale <= total * RateScale
      BY <1>4, TimesMonotonic
    <2>2. N * RateScale = RateScale * N /\ total * RateScale = RateScale * total
      BY <1>4
    <2>3. RateScale * total \in Int
      BY <1>4
    <2> QED
      BY <1>10, <1>11, <2>1, <2>2, <2>3
  <1>13. -N < total
    <2> SUFFICES ASSUME total <= -N PROVE FALSE
      BY <1>4
    <2>1. total * RateScale <= (-N) * RateScale
      BY <1>4, TimesMonotonic
    <2>2. (-N) * RateScale = -(RateScale * N) /\ total * RateScale = RateScale * total
      BY <1>4
    <2>3. RateScale * total \in Int
      BY <1>4
    <2> QED
      BY <1>10, <1>11, <2>1, <2>2, <2>3
  <1> QED
    BY <1>4, <1>12, <1>13 DEF Abs

-----------------------------------------------------------------------------
(* A scan.                                                                 *)

LEMMA TotalAppend ==
  ASSUME NEW n \in Nat, NEW f, NEW g, DOMAIN f = 1..n, DOMAIN g = 1..(n + 1),
         \A k \in 1..n : f[k] \in Int /\ g[k] = f[k], g[n + 1] \in Int
  PROVE  TotalOf(g) = TotalOf(f) + g[n + 1] /\ TotalOf(f) \in Int
  <1>1. TotalOf(g) = SumOf(g, 1..(n + 1)) /\ TotalOf(f) = SumOf(f, 1..n)
    BY DEF TotalOf, SumOf
  <1>2. IsFiniteSet(1..(n + 1)) /\ IsFiniteSet(1..n)
    BY FS_Interval
  <1>3. \A k \in 1..(n + 1) : g[k] \in Int
    OBVIOUS
  <1>4. n + 1 \in 1..(n + 1) /\ (1..(n + 1)) \ {n + 1} = 1..n
    OBVIOUS
  <1>5. SumOf(g, 1..(n + 1)) = g[n + 1] + SumOf(g, 1..n)
    BY <1>2, <1>3, <1>4, SumRemove
  <1>6. SumOf(g, 1..n) = SumOf(f, 1..n)
    BY <1>2, SumSame
  <1>7. SumOf(f, 1..n) \in Int
    BY <1>2, SumInt
  <1> QED
    BY <1>1, <1>5, <1>6, <1>7

\* A tick works on the snapshot: it leaves the hook's state alone.
LEMMA TickFrame ==
  ASSUME RangeInv, FundingInv, HookInv, stage = "tick", UNCHANGED settlementVars,
         UNCHANGED <<snap, mark, scans>>, phase' \in {"idle", "scan", "adl"}
  PROVE  RangeInv' /\ FundingInv' /\ HookInv'
  <1> USE DEF settlementVars
  <1>1. RangeInv'
    BY DEF RangeInv, Before
  <1>2. FundingInv'
    BY DEF FundingInv
  <1>3. HookInv'
    BY DEF HookInv, HookDone, WinnersArePaid
  <1> QED
    BY <1>1, <1>2, <1>3

\* While it scans, ADL has not begun.
LEMMA ScanFrame ==
  ASSUME AdlInv, phase = "scan", UNCHANGED <<phase, snap, mark, adl, remaining>>
  PROVE  AdlInv'
  <1>1. Winners' = Winners /\ Candidates' = Candidates /\ Pnls' = Pnls
        /\ Haircuts' = Haircuts /\ Grosses' = Grosses
    BY DEF Winners, Candidates, Pnls, Haircuts, Grosses
  <1>2. InRankOrder' <=> InRankOrder
    BY DEF InRankOrder, AdlScore
  <1> QED
    BY <1>1, <1>2 DEF AdlInv

\* The numbers a scan works with have room.
LEMMA ScanRoom ==
  ASSUME HaveRoom, RangeInv, ScanInv, Scanning, stage = "tick"
  PROVE  /\ next \in Ids /\ mark \in 0..MaxEntry
         /\ Before \in 0..MaxScans /\ Reach(Before, deposits) \in Nat
         /\ InRange(snap[next], Reach(Before, deposits))
         /\ FeeMax + PnlMax + Reach(Before, deposits) <= ShortfallMax
         /\ ShortfallMax <= MaxI64 /\ PnlMax <= MaxI64 /\ FeeMax <= MaxI64
         /\ \A fee \in 0..FeeMax : /\ Credited(fund, fee) = fund + fee
                                   /\ Saturate(report.deposits + fee) = report.deposits + fee
         /\ \A short \in 0..ShortfallMax :
              report.withdrawals + report.deficit + short <= MaxI64
  <1> USE LiquidationAssumption, SettlementAssumption, ClearingAssumption
  <1>1. next \in Ids
    BY DEF ScanInv, Scanning, Ids
  <1>2. scans \in 1..MaxScans /\ Before = scans - 1 /\ Before \in 0..MaxScans
        /\ deposits \in 0..MaxDeposits /\ mark \in 0..MaxEntry
    BY DEF RangeInv, Before
  <1>3. Reach(Before, deposits) \in Nat
    BY <1>2, Amounts
  <1>4. /\ FeeMax + PnlMax + Reach(Before, deposits) <= ShortfallMax
        /\ ShortfallMax <= MaxI64 /\ PnlMax <= MaxI64 /\ FeeMax <= MaxI64
    BY <1>1, <1>2, Room
  <1>5. FeeMax \in Nat /\ ShortfallMax \in Nat
    BY Amounts
  <1>6. /\ report.deposits \in Nat /\ report.withdrawals \in Nat /\ report.deficit \in Nat
        /\ fund \in Nat /\ before \in Nat
        /\ fund = before + report.deposits - report.withdrawals
    BY DEF ScanInv
  <1>7. next \in Nat /\ next <= N /\ N * FeeMax \in Nat /\ N * ShortfallMax \in Nat
    BY <1>1, <1>5 DEF Ids
  <1>8. report.deposits + FeeMax <= N * FeeMax
    <2>1. report.deposits <= (next - 1) * FeeMax
      BY DEF ScanInv
    <2>2. (next - 1) * FeeMax = next * FeeMax - FeeMax /\ next * FeeMax \in Nat
      BY <1>5, <1>7
    <2>3. next * FeeMax <= N * FeeMax
      BY <1>5, <1>7, TimesMonotonic
    <2> QED
      BY <1>5, <1>6, <1>7, <2>1, <2>2, <2>3
  <1>9. report.withdrawals + report.deficit + ShortfallMax <= N * ShortfallMax
    <2>1. report.withdrawals + report.deficit <= (next - 1) * ShortfallMax
      BY DEF ScanInv
    <2>2. /\ (next - 1) * ShortfallMax = next * ShortfallMax - ShortfallMax
          /\ next * ShortfallMax \in Nat
      BY <1>5, <1>7
    <2>3. next * ShortfallMax <= N * ShortfallMax
      BY <1>5, <1>7, TimesMonotonic
    <2> QED
      BY <1>5, <1>6, <1>7, <2>1, <2>2, <2>3
  <1> DEFINE nf == N * FeeMax
  <1>10. before + nf <= MaxI64 /\ nf <= MaxI64
    <2>1. before <= MaxFund + (scans - 1) * nf
      BY <1>2 DEF ScanInv
    <2> HIDE DEF nf
    <2>2. nf \in Nat /\ (scans - 1) * nf = scans * nf - nf /\ scans * nf \in Nat /\ MaxScans * nf \in Nat
      BY <1>2, <1>7 DEF nf
    <2>3. scans * nf <= MaxScans * nf
      BY <1>2, <2>2, TimesMonotonic
    <2>4. MaxFund + MaxScans * nf <= MaxI64
      BY DEF HaveRoom, nf
    <2> QED
      BY <1>6, <2>1, <2>2, <2>3, <2>4
  <1>11. ASSUME NEW fee \in 0..FeeMax
         PROVE  /\ Credited(fund, fee) = fund + fee
                /\ Saturate(report.deposits + fee) = report.deposits + fee
    <2>1. fund + fee <= MaxI64 /\ report.deposits + fee <= MaxI64
      BY <1>5, <1>6, <1>7, <1>8, <1>10
    <2> QED
      BY <1>5, <1>6, <2>1 DEF Credited, Saturate
  <1>12. ASSUME NEW short \in 0..ShortfallMax
         PROVE  report.withdrawals + report.deficit + short <= MaxI64
    BY <1>5, <1>6, <1>7, <1>9 DEF HaveRoom
  <1>13. InRange(snap[next], Reach(Before, deposits))
    BY <1>1 DEF RangeInv
  <1> QED
    BY <1>1, <1>2, <1>3, <1>4, <1>11, <1>12, <1>13

\* One account is closed: the fund gets a fee and pays part of a shortfall.
Reported(fee, paid, unfilled, r) ==
  report' = [deposits |-> report.deposits + fee,
             withdrawals |-> report.withdrawals + paid,
             deficit |-> report.deficit + unfilled,
             records |-> Append(report.records, r)]

LEMMA CloseStep ==
  ASSUME HaveRoom, RangeInv, ScanInv, Scanning, stage = "tick",
         UNCHANGED <<phase, before, scans, deposits>>, next' = next + 1,
         NEW fee \in 0..FeeMax, NEW short \in 0..ShortfallMax,
         NEW paid \in Nat, NEW unfilled \in Nat,
         paid + unfilled = short, paid <= fund + fee,
         NEW r \in Records, r.account = next, r.shortfall = short,
         r.residual <= Reach(Before, deposits) + PnlMax,
         fund' = fund + fee - paid, Reported(fee, paid, unfilled, r)
  PROVE  ScanInv'
  <1> USE LiquidationAssumption
  <1> DEFINE rs == report.records
             n == Len(rs)
  <1>1. /\ next \in Ids /\ next \in Nat /\ next <= N
        /\ FeeMax \in Nat /\ ShortfallMax \in Nat
    BY ScanRoom, Amounts DEF Ids
  <1>2. /\ report.deposits \in Nat /\ report.withdrawals \in Nat /\ report.deficit \in Nat
        /\ fund \in Nat /\ before \in Nat
        /\ fund = before + report.deposits - report.withdrawals
    BY DEF ScanInv
  <1>14. rs \in Seq(Records)
    BY DEF ScanInv
  <1>15. n \in Nat
    BY <1>14
  <1>3. /\ report'.deposits = report.deposits + fee
        /\ report'.withdrawals = report.withdrawals + paid
        /\ report'.deficit = report.deficit + unfilled
    BY DEF Reported
  <1>19. report'.records = Append(rs, r)
    BY DEF Reported
  <1>4. /\ Append(rs, r) \in Seq(Records) /\ Len(Append(rs, r)) = n + 1
        /\ Append(rs, r)[n + 1] = r
        /\ \A k \in 1..n : Append(rs, r)[k] = rs[k]
    BY <1>14, AppendProperties
  <1>16. \A k \in 1..n : /\ rs[k] \in Records /\ rs[k].account < next
                          /\ rs[k].residual <= Reach(Before, deposits) + PnlMax
    <2>1. \A k \in 1..n : rs[k] \in Records
      BY <1>14
    <2>2. \A k \in 1..n : /\ rs[k].account < next
                           /\ rs[k].residual <= Reach(Before, deposits) + PnlMax
      BY DEF ScanInv
    <2> QED
      BY <2>1, <2>2
  <1>17. \A k, l \in 1..n : k < l => rs[k].account < rs[l].account
    BY DEF ScanInv
  <1>18. Shortfalls = [k \in 1..n |-> rs[k].shortfall]
    BY DEF Shortfalls
  <1> HIDE DEF rs, n
  <1>5. report' \in [deposits : Nat, withdrawals : Nat, deficit : Nat, records : Seq(Records)]
    <2>1. report.deposits + fee \in Nat /\ report.withdrawals + paid \in Nat /\ report.deficit + unfilled \in Nat
      BY <1>1, <1>2
    <2>2. Append(report.records, r) \in Seq(Records)
      BY <1>4 DEF rs
    <2> QED
      BY <2>1, <2>2 DEF Reported
  <1>6. ASSUME NEW k \in 1..(n + 1)
        PROVE  /\ report'.records[k].account < next'
               /\ report'.records[k].residual <= Reach(Before', deposits') + PnlMax
               /\ k <= n => report'.records[k] = rs[k] /\ rs[k].account < next
               /\ k = n + 1 => report'.records[k].account = next
               /\ report'.records[k].account \in Nat /\ report'.records[k].shortfall \in Int
    <2>0. Before' = Before
      BY DEF Before
    <2>1. CASE k \in 1..n
      <3>1. report'.records[k] = rs[k]
        BY <1>19, <1>4, <2>1
      <3>2. rs[k] \in Records /\ rs[k].account < next /\ rs[k].residual <= Reach(Before, deposits) + PnlMax
        BY <1>16, <2>1
      <3>3. rs[k].account \in Nat /\ rs[k].shortfall \in Int
        BY <3>2 DEF Records, Ids
      <3>4. rs[k].account < next' /\ k # n + 1
        BY <1>1, <1>15, <3>2, <3>3, <2>1
      <3> QED
        BY <2>0, <3>1, <3>2, <3>3, <3>4
    <2>2. CASE k \notin 1..n
      <3>1. k = n + 1
        BY <1>15, <2>2
      <3>2. report'.records[k] = r
        BY <1>19, <1>4, <3>1
      <3>3. ~(k <= n) /\ r.account \in Nat /\ r.shortfall \in Int
        BY <1>1, <1>15, <3>1 DEF Records
      <3> QED
        BY <1>1, <2>0, <3>1, <3>2, <3>3
    <2> QED
      BY <2>1, <2>2
  <1>7. ASSUME NEW k \in 1..(n + 1), NEW l \in 1..(n + 1), k < l
        PROVE  report'.records[k].account < report'.records[l].account
    <2>1. k <= n /\ k \in 1..n
      BY <1>15, <1>7
    <2>2. CASE l = n + 1
      BY <1>6, <2>1, <2>2
    <2>3. CASE l # n + 1
      <3>1. l <= n /\ l \in 1..n
        BY <1>15, <2>3
      <3>2. rs[k].account < rs[l].account
        BY <1>7, <1>17, <2>1, <3>1
      <3> QED
        BY <1>6, <2>1, <3>1, <3>2
    <2> QED
      BY <2>2, <2>3
  <1>8. /\ next' \in 1..(N + 1) /\ (phase' # "scan" => next' = N + 1 \/ scans' = 0)
        /\ scans' = 0 => next' = 1
    BY <1>1 DEF Scanning, RangeInv
  <1>9. /\ fund' \in Nat /\ fund' = before' + report'.deposits - report'.withdrawals
        /\ before' \in 0..(MaxFund + Before' * (N * FeeMax))
    <2>1. before \in 0..(MaxFund + Before * (N * FeeMax)) /\ Before' = Before
      BY DEF ScanInv, Before
    <2> QED
      BY <1>1, <1>2, <1>3, <2>1
  <1>10. report'.deposits <= (next' - 1) * FeeMax
    <2>1. report.deposits <= (next - 1) * FeeMax
      BY DEF ScanInv
    <2>2. (next' - 1) * FeeMax = (next - 1) * FeeMax + FeeMax /\ (next - 1) * FeeMax \in Int
      BY <1>1
    <2> QED
      BY <1>1, <1>2, <1>3, <2>1, <2>2
  <1>11. report'.withdrawals + report'.deficit <= (next' - 1) * ShortfallMax
    <2>1. report.withdrawals + report.deficit <= (next - 1) * ShortfallMax
      BY DEF ScanInv
    <2>2. /\ (next' - 1) * ShortfallMax = (next - 1) * ShortfallMax + ShortfallMax
          /\ (next - 1) * ShortfallMax \in Int
      BY <1>1
    <2> QED
      BY <1>1, <1>2, <1>3, <2>1, <2>2
  <1>12. TotalOf(Shortfalls') = report'.withdrawals + report'.deficit
    <2> DEFINE f == Shortfalls
               g == Shortfalls'
    <2>1. g = [k \in 1..(n + 1) |-> report'.records[k].shortfall]
      BY <1>19, <1>4 DEF Shortfalls
    <2>2. f = [k \in 1..n |-> rs[k].shortfall]
      BY <1>18
    <2>3. \A k \in 1..n : f[k] \in Int /\ g[k] = f[k]
      <3> SUFFICES ASSUME NEW k \in 1..n PROVE f[k] \in Int /\ g[k] = f[k]
        OBVIOUS
      <3>1. k \in 1..(n + 1) /\ k <= n
        BY <1>15
      <3>2. g[k] = report'.records[k].shortfall /\ f[k] = rs[k].shortfall
        BY <2>1, <2>2, <3>1
      <3> HIDE DEF f, g
      <3> QED
        BY <1>6, <3>1, <3>2
    <2>4. g[n + 1] = short
      <3>1. n + 1 \in 1..(n + 1)
        BY <1>15
      <3> QED
        BY <1>19, <1>4, <2>1, <3>1
    <2>5. DOMAIN f = 1..n /\ DOMAIN g = 1..(n + 1)
      BY <2>1, <2>2
    <2>6. TotalOf(f) = report.withdrawals + report.deficit
      BY DEF ScanInv
    <2> HIDE DEF f, g
    <2>7. TotalOf(g) = TotalOf(f) + g[n + 1]
      <3>1. g[n + 1] \in Int
        BY <1>1, <2>4
      <3> QED
        BY <1>15, <2>3, <2>5, <3>1, TotalAppend
    <2>8. TotalOf(g) = report'.withdrawals + report'.deficit
      <3>1. TotalOf(g) = report.withdrawals + report.deficit + short
        BY <2>4, <2>6, <2>7
      <3>2. report'.withdrawals + report'.deficit = report.withdrawals + report.deficit + short
        BY <1>2, <1>3
      <3> QED
        BY <3>1, <3>2
    <2> QED
      BY <2>8 DEF g
  <1>13. Len(report'.records) = n + 1
    BY <1>19, <1>4
  <1> QED
    BY <1>5, <1>6, <1>7, <1>8, <1>9, <1>10, <1>11, <1>12, <1>13 DEF ScanInv

LEMMA SolventStep ==
  ASSUME HaveRoom, SettlementInv, stage = "tick", UNCHANGED settlementVars, CloseSolvent
  PROVE  SettlementInv'
  <1> USE LiquidationAssumption, ClearingAssumption
  <1> DEFINE a == snap[next]
             c == Reach(Before, deposits)
             e == AccountEquity(a, mark)
             f == LiquidationFee(a, mark)
             r == SolventClose(next, mark)
  <1>1. /\ Scanning /\ phase = "scan" /\ IsSolvent(a, mark)
        /\ fund' = Credited(fund, r.fee)
        /\ report' = [report EXCEPT !.deposits = Saturate(@ + r.fee), !.records = Append(@, r)]
        /\ next' = next + 1
        /\ UNCHANGED <<phase, snap, mark, before, adl, remaining, scans>>
    BY DEF CloseSolvent, Scanning
  <1>2. UNCHANGED <<deposits, stage>>
    BY DEF settlementVars
  <1>3. RangeInv /\ FundingInv /\ HookInv /\ ScanInv /\ AdlInv
    BY DEF SettlementInv
  <1>4. /\ next \in Ids /\ mark \in 0..MaxEntry /\ c \in Nat /\ InRange(a, c)
        /\ FeeMax + PnlMax + c <= ShortfallMax
        /\ ShortfallMax <= MaxI64 /\ PnlMax <= MaxI64 /\ FeeMax <= MaxI64
        /\ \A fee \in 0..FeeMax : /\ Credited(fund, fee) = fund + fee
                                  /\ Saturate(report.deposits + fee) = report.deposits + fee
    BY <1>1, <1>3, ScanRoom
  <1>5. FeeMax \in Nat /\ PnlMax \in Nat /\ ShortfallMax \in Nat
    BY Amounts
  <1> HIDE DEF a, c
  <1>6. c + PnlMax <= MaxI64
    BY <1>4, <1>5
  <1>7. e \in -(c + PnlMax)..(c + PnlMax) /\ f \in 0..FeeMax
    BY <1>4, <1>6, EquityInRange, FeeInRange
  <1>8. e >= f
    BY <1>1 DEF IsSolvent
  <1>9. /\ r.account = next /\ r.fee = f /\ r.shortfall = 0
        /\ r.residual = Saturate(e - f)
        /\ r = [account |-> next, solvent |-> TRUE, fee |-> f, shortfall |-> 0,
                residual |-> Saturate(e - f)]
    BY DEF SolventClose, a
  <1> HIDE DEF e, f, r
  <1>10. Saturate(e - f) = e - f /\ e - f \in Nat /\ e - f <= c + PnlMax
    BY <1>4, <1>5, <1>6, <1>7, <1>8 DEF Saturate
  <1>11. r \in Records
    BY <1>4, <1>5, <1>7, <1>9, <1>10 DEF Records
  <1>12. fund' = fund + f - 0 /\ 0 <= fund + f
    <2>1. fund \in Nat
      BY <1>3 DEF ScanInv
    <2> QED
      BY <1>1, <1>4, <1>5, <1>7, <1>9, <2>1
  <1>13. Reported(f, 0, 0, r)
    <2>1. report \in [deposits : Nat, withdrawals : Nat, deficit : Nat, records : Seq(Records)]
      BY <1>3 DEF ScanInv
    <2>2. Saturate(report.deposits + f) = report.deposits + f
      BY <1>4, <1>7
    <2>3. report.withdrawals + 0 = report.withdrawals /\ report.deficit + 0 = report.deficit
      BY <2>1
    <2> QED
      BY <1>1, <1>9, <2>1, <2>2, <2>3 DEF Reported
  <1>14. ScanInv'
    <2>1. 0 \in 0..ShortfallMax /\ 0 \in Nat /\ 0 + 0 = 0
      BY <1>5
    <2>2. r.residual <= Reach(Before, deposits) + PnlMax
      BY <1>9, <1>10 DEF c
    <2> QED
      BY <1>1, <1>2, <1>3, <1>7, <1>9, <1>11, <1>12, <1>13, <2>1, <2>2, CloseStep
  <1>15. AdlInv'
    BY <1>1, <1>3, ScanFrame
  <1>16. RangeInv' /\ FundingInv' /\ HookInv'
    BY <1>1, <1>3, TickFrame
  <1> QED
    BY <1>14, <1>15, <1>16 DEF SettlementInv

LEMMA UnderwaterStep ==
  ASSUME HaveRoom, SettlementInv, stage = "tick", UNCHANGED settlementVars, CloseUnderwater
  PROVE  SettlementInv'
  <1> USE LiquidationAssumption, ClearingAssumption
  <1> DEFINE a == snap[next]
             c == Reach(Before, deposits)
             e == AccountEquity(a, mark)
             f == LiquidationFee(a, mark)
             r == UnderwaterClose(next, mark)
             w == WithdrawShortfall(Credited(fund, r.fee), r.shortfall)
             fee == IF e > 0 THEN e ELSE 0
             short == f - e
             balance == fund + fee
             paid == IF balance >= short THEN short ELSE balance
             unfilled == IF balance >= short THEN 0 ELSE short - balance
  <1>1. /\ Scanning /\ phase = "scan" /\ ~ IsSolvent(a, mark)
        /\ fund' = Credited(fund, r.fee) - w.paid
        /\ report' = [report EXCEPT !.deposits = Saturate(@ + r.fee),
                                    !.withdrawals = Saturate(@ + w.paid),
                                    !.deficit = Saturate(@ + w.unfilled),
                                    !.records = Append(@, r)]
        /\ next' = next + 1
        /\ UNCHANGED <<phase, snap, mark, before, adl, remaining, scans>>
    BY DEF CloseUnderwater, Scanning
  <1>2. UNCHANGED <<deposits, stage>>
    BY DEF settlementVars
  <1>3. RangeInv /\ FundingInv /\ HookInv /\ ScanInv /\ AdlInv
    BY DEF SettlementInv
  <1>4. /\ next \in Ids /\ mark \in 0..MaxEntry /\ c \in Nat /\ InRange(a, c)
        /\ FeeMax + PnlMax + c <= ShortfallMax
        /\ ShortfallMax <= MaxI64 /\ PnlMax <= MaxI64 /\ FeeMax <= MaxI64
    BY <1>1, <1>3, ScanRoom
  <1>5. \A x \in 0..FeeMax : /\ Credited(fund, x) = fund + x
                             /\ Saturate(report.deposits + x) = report.deposits + x
    BY <1>1, <1>3, ScanRoom
  <1>6. \A x \in 0..ShortfallMax : report.withdrawals + report.deficit + x <= MaxI64
    BY <1>1, <1>3, ScanRoom
  <1>7. FeeMax \in Nat /\ PnlMax \in Nat /\ ShortfallMax \in Nat
    BY Amounts
  <1> HIDE DEF a, c
  <1>8. c + PnlMax <= MaxI64
    BY <1>4, <1>7
  <1>9. e \in -(c + PnlMax)..(c + PnlMax) /\ f \in 0..FeeMax
    BY <1>4, <1>8, EquityInRange, FeeInRange
  <1>10. e < f
    <2>1. ~(e >= f)
      BY <1>1 DEF IsSolvent
    <2> HIDE DEF e, f
    <2> QED
      BY <1>4, <1>7, <1>9, <2>1
  <1>11. /\ r = [account |-> next, solvent |-> FALSE, fee |-> fee,
                 shortfall |-> Saturate(f - e), residual |-> 0]
         /\ r.account = next /\ r.fee = fee /\ r.shortfall = Saturate(f - e) /\ r.residual = 0
    BY DEF UnderwaterClose, PartialFee, Shortfall, a
  <1> HIDE DEF e, f, r
  <1>12. short \in 1..ShortfallMax /\ Saturate(f - e) = short /\ fee \in 0..FeeMax
    BY <1>4, <1>7, <1>9, <1>10 DEF Saturate
  <1>13. fund \in Nat /\ report.withdrawals \in Nat /\ report.deficit \in Nat
    BY <1>3 DEF ScanInv
  <1>14. r \in Records
    BY <1>4, <1>7, <1>11, <1>12 DEF Records
  <1> HIDE DEF fee, short
  <1>15. Credited(fund, r.fee) = balance /\ balance \in Nat
    BY <1>5, <1>7, <1>11, <1>12, <1>13
  <1>16. w = [paid |-> paid, unfilled |-> unfilled]
    <2>1. w = WithdrawShortfall(balance, short)
      BY <1>11, <1>12, <1>15
    <2>2. ~(short <= 0)
      BY <1>7, <1>12
    <2> HIDE DEF balance
    <2> QED
      BY <2>1, <2>2 DEF WithdrawShortfall, WithdrawOutcome
  <1>17. w.paid = paid /\ w.unfilled = unfilled
    BY <1>16
  <1> HIDE DEF w, balance
  <1>18. /\ paid \in Nat /\ unfilled \in Nat /\ paid + unfilled = short
         /\ paid <= balance /\ paid <= short /\ unfilled <= short
    BY <1>7, <1>12, <1>15
  <1> HIDE DEF paid, unfilled
  <1>19. /\ Saturate(report.withdrawals + paid) = report.withdrawals + paid
         /\ Saturate(report.deficit + unfilled) = report.deficit + unfilled
    <2>1. report.withdrawals + report.deficit + short <= MaxI64
      BY <1>6, <1>7, <1>12
    <2>2. short \in Nat
      BY <1>7, <1>12
    <2> QED
      BY <1>13, <1>18, <2>1, <2>2 DEF Saturate
  <1>20. fund' = fund + fee - paid /\ paid <= fund + fee
    <2>1. fund' = Credited(fund, r.fee) - w.paid
      BY <1>1
    <2>2. balance = fund + fee
      BY DEF balance
    <2>3. fund' = balance - paid
      BY <1>15, <1>17, <2>1
    <2>4. paid <= balance /\ paid \in Int
      BY <1>18
    <2>5. fund \in Int /\ fee \in Int
      BY <1>7, <1>12, <1>13
    <2> QED
      BY <2>2, <2>3, <2>4, <2>5
  <1>21. Reported(fee, paid, unfilled, r)
    <2>1. report \in [deposits : Nat, withdrawals : Nat, deficit : Nat, records : Seq(Records)]
      BY <1>3 DEF ScanInv
    <2>2. Saturate(report.deposits + fee) = report.deposits + fee
      BY <1>5, <1>12
    <2> QED
      BY <1>1, <1>11, <1>17, <1>19, <2>1, <2>2 DEF Reported
  <1>22. ScanInv'
    <2>1. short \in 0..ShortfallMax
      BY <1>7, <1>12
    <2>2. r.residual <= Reach(Before, deposits) + PnlMax
      BY <1>4, <1>7, <1>11 DEF c
    <2>3. r.account = next /\ r.shortfall = short
      BY <1>11, <1>12
    <2> QED
      BY <1>1, <1>2, <1>3, <1>12, <1>14, <1>18, <1>20, <1>21, <2>1, <2>2, <2>3, CloseStep
  <1>23. AdlInv'
    BY <1>1, <1>3, ScanFrame
  <1>24. RangeInv' /\ FundingInv' /\ HookInv'
    BY <1>1, <1>3, TickFrame
  <1> QED
    BY <1>22, <1>23, <1>24 DEF SettlementInv

LEMMA SkipStep ==
  ASSUME HaveRoom, SettlementInv, stage = "tick", UNCHANGED settlementVars, SkipAccount
  PROVE  SettlementInv'
  <1> USE LiquidationAssumption
  <1>1. /\ Scanning /\ phase = "scan" /\ next' = next + 1
        /\ UNCHANGED <<phase, snap, mark, fund, before, report, adl, remaining, scans>>
    BY DEF SkipAccount, Scanning
  <1>2. UNCHANGED deposits /\ Before' = Before /\ Shortfalls' = Shortfalls /\ scans # 0
    BY <1>1 DEF settlementVars, Before, Shortfalls, SettlementInv, RangeInv
  <1>3. RangeInv /\ FundingInv /\ HookInv /\ ScanInv /\ AdlInv
    BY DEF SettlementInv
  <1>4. next \in Nat /\ next >= 1 /\ next <= N
    BY <1>1, <1>3 DEF ScanInv, Scanning
  <1>5. FeeMax \in Nat /\ ShortfallMax \in Nat
    BY Amounts
  <1>6. report.deposits <= (next' - 1) * FeeMax
    <2>1. report.deposits <= (next - 1) * FeeMax /\ report.deposits \in Nat
      BY <1>3 DEF ScanInv
    <2>2. (next' - 1) * FeeMax = (next - 1) * FeeMax + FeeMax /\ (next - 1) * FeeMax \in Int
      BY <1>1, <1>4, <1>5
    <2> QED
      BY <1>5, <2>1, <2>2
  <1>7. report.withdrawals + report.deficit <= (next' - 1) * ShortfallMax
    <2>1. /\ report.withdrawals + report.deficit <= (next - 1) * ShortfallMax
          /\ report.withdrawals \in Nat /\ report.deficit \in Nat
      BY <1>3 DEF ScanInv
    <2>2. /\ (next' - 1) * ShortfallMax = (next - 1) * ShortfallMax + ShortfallMax
          /\ (next - 1) * ShortfallMax \in Int
      BY <1>1, <1>4, <1>5
    <2> QED
      BY <1>5, <2>1, <2>2
  <1>8. \A k \in 1..Len(report.records) :
          /\ report.records[k].account < next'
          /\ report.records[k].residual <= Reach(Before, deposits) + PnlMax
    <2> SUFFICES ASSUME NEW k \in 1..Len(report.records)
                 PROVE  /\ report.records[k].account < next'
                        /\ report.records[k].residual <= Reach(Before, deposits) + PnlMax
      OBVIOUS
    <2>1. report.records \in Seq(Records)
      BY <1>3 DEF ScanInv
    <2>2. report.records[k] \in Records
      BY <2>1
    <2>3. report.records[k].account \in Nat
      BY <2>2 DEF Records, Ids
    <2>4. /\ report.records[k].account < next
          /\ report.records[k].residual <= Reach(Before, deposits) + PnlMax
      BY <1>3 DEF ScanInv
    <2> QED
      BY <1>1, <1>4, <2>3, <2>4
  <1>9. next' \in 1..(N + 1)
    BY <1>1, <1>4
  <1>10. ScanInv'
    BY <1>1, <1>2, <1>3, <1>6, <1>7, <1>8, <1>9 DEF ScanInv
  <1>11. AdlInv'
    BY <1>1, <1>3, ScanFrame
  <1>12. RangeInv' /\ FundingInv' /\ HookInv'
    BY <1>1, <1>3, TickFrame
  <1> QED
    BY <1>10, <1>11, <1>12 DEF SettlementInv

\* Nothing is the total of nothing.
LEMMA TotalEmpty ==
  ASSUME NEW f, DOMAIN f = 1..0
  PROVE  TotalOf(f) = 0
  <1>1. 1..0 = {}
    OBVIOUS
  <1>2. TotalOf(f) = SumOf(f, {})
    BY <1>1 DEF TotalOf, SumOf
  <1> QED
    BY <1>2, SumEmpty

\* The parts of a scan that its end, and ADL, leave alone.
LEMMA ReportFrame ==
  ASSUME ScanInv, UNCHANGED <<fund, before, report, scans, deposits, next>>,
         phase' = "scan" \/ next = N + 1
  PROVE  ScanInv'
  <1>1. Before' = Before /\ Shortfalls' = Shortfalls
    BY DEF Before, Shortfalls
  <1> QED
    BY <1>1 DEF ScanInv

LEMMA EndScanStep ==
  ASSUME SettlementInv, stage = "tick", UNCHANGED settlementVars, EndScan
  PROVE  SettlementInv'
  <1> USE LiquidationAssumption
  <1>1. /\ phase = "scan" /\ next > N
        /\ UNCHANGED <<snap, mark, next, fund, before, report, adl, scans>>
        /\ IF RunAdl /\ report.deficit > 0
           THEN phase' = "adl" /\ remaining' = report.deficit
           ELSE phase' = "idle" /\ remaining' = remaining
    BY DEF EndScan
  <1>2. UNCHANGED deposits
    BY DEF settlementVars
  <1>3. RangeInv /\ FundingInv /\ HookInv /\ ScanInv /\ AdlInv
    BY DEF SettlementInv
  <1>4. ScanInv'
    <2>1. next = N + 1
      BY <1>1, <1>3 DEF ScanInv
    <2> QED
      BY <1>1, <1>2, <1>3, <2>1, ReportFrame
  <1>5. AdlInv'
    <2>1. /\ Winners' = Winners /\ Candidates' = Candidates /\ Pnls' = Pnls
          /\ Haircuts' = Haircuts /\ Grosses' = Grosses
      BY <1>1 DEF Winners, Candidates, Pnls, Haircuts, Grosses
    <2>2. InRankOrder' <=> InRankOrder
      BY <1>1 DEF InRankOrder, AdlScore
    <2>3. adl = <<>> /\ adl' = <<>> /\ remaining = 0
      BY <1>1, <1>3 DEF AdlInv
    <2>4. Len(adl') = 0
      BY <2>3
    <2>5. TotalOf(Haircuts') = 0
      <3>1. DOMAIN Haircuts' = 1..0
        BY <2>4 DEF Haircuts
      <3> QED
        BY <3>1, TotalEmpty
    <2>6. report.deficit \in Nat
      BY <1>3 DEF ScanInv
    <2>7. remaining' \in Nat /\ (RunAdl => report'.deficit = TotalOf(Haircuts') + remaining')
      BY <1>1, <2>3, <2>5, <2>6
    <2>8. phase' = "idle" /\ RunAdl => remaining' = 0
      BY <1>1, <2>3
    <2>9. phase' = "adl" => RunAdl /\ report'.deficit > 0
      BY <1>1
    <2>10. phase' # "scan" /\ adl' \in Seq(AdlRecords)
      BY <1>1, <2>3
    <2>11. SumOf(Pnls', Winners') = SumOf(Pnls', Candidates') + TotalOf(Grosses')
      BY <1>3, <2>1 DEF AdlInv
    <2>12. \A k \in 1..Len(adl') : FALSE
      BY <2>4
    <2> QED
      BY <1>3, <2>2, <2>7, <2>8, <2>9, <2>10, <2>11, <2>12 DEF AdlInv
  <1>6. RangeInv' /\ FundingInv' /\ HookInv'
    BY <1>1, <1>3, TickFrame
  <1> QED
    BY <1>4, <1>5, <1>6 DEF SettlementInv

LEMMA EndAdlStep ==
  ASSUME SettlementInv, stage = "tick", UNCHANGED settlementVars, EndAdl
  PROVE  SettlementInv'
  <1>1. /\ phase = "adl" /\ phase' = "idle" /\ (remaining = 0 \/ Candidates = {})
        /\ UNCHANGED <<snap, mark, next, fund, before, report, adl, remaining, scans>>
    BY DEF EndAdl
  <1>2. UNCHANGED deposits /\ scans # 0
    BY DEF settlementVars, SettlementInv, RangeInv
  <1>3. RangeInv /\ FundingInv /\ HookInv /\ ScanInv /\ AdlInv
    BY DEF SettlementInv
  <1>4. ScanInv'
    <2>1. next = N + 1
      BY <1>1, <1>2, <1>3 DEF ScanInv
    <2> QED
      BY <1>1, <1>2, <1>3, <2>1, ReportFrame
  <1>5. AdlInv'
    <2>1. /\ Winners' = Winners /\ Candidates' = Candidates /\ Pnls' = Pnls
          /\ Haircuts' = Haircuts /\ Grosses' = Grosses
      BY <1>1 DEF Winners, Candidates, Pnls, Haircuts, Grosses
    <2>2. InRankOrder' <=> InRankOrder
      BY <1>1 DEF InRankOrder, AdlScore
    <2> QED
      BY <1>1, <1>3, <2>1, <2>2 DEF AdlInv
  <1>6. RangeInv' /\ FundingInv' /\ HookInv'
    BY <1>1, <1>3, TickFrame
  <1> QED
    BY <1>4, <1>5, <1>6 DEF SettlementInv

-----------------------------------------------------------------------------
(* Auto-deleveraging.                                                      *)

\* What makes an account a candidate makes its score a number.
LEMMA ScoreInt ==
  ASSUME PnlMax <= MaxI64, NEW a, NEW c \in Nat, c + PnlMax <= MaxI64, InRange(a, c),
         NEW m \in 0..MaxEntry, Eligible(a, m)
  PROVE  AdlScore(a, m) \in Int
  <1> USE ClearingAssumption
  <1> DEFINE p == UnrealizedPnl(a, m)
             v == NotionalValue(a, m)
             e == AccountEquity(a, m)
             x == a.collateral
             pct == (p * MarginScale) \div x
             leverage == (v * MarginScale) \div e
             s == (pct * leverage) \div MarginScale
  <1>0. PnlMax \in Nat
    BY Amounts
  <1>1. p \in Int /\ v \in Int
    BY <1>0, PnlInRange, NotionalInRange
  <1>2. e \in Int
    BY <1>0, EquityInRange
  <1>3. x > 0 /\ e > 0 /\ x \in Int
    BY DEF Eligible, InRange, Account
  <1>4. AdlScore(a, m) = Saturate(s)
    BY DEF AdlScore
  <1> HIDE DEF p, v, e, x
  <1>5. pct \in Int
    BY <1>1, <1>3
  <1>6. leverage \in Int
    BY <1>1, <1>2, <1>3
  <1> HIDE DEF pct, leverage
  <1>7. s \in Int
    BY <1>5, <1>6
  <1> HIDE DEF s
  <1> QED
    BY <1>4, <1>7 DEF Saturate

\* What an ADL pass knows of an account of the snapshot.
LEMMA AdlRoom ==
  ASSUME HaveRoom, RangeInv, NEW i \in Ids
  PROVE  /\ mark \in 0..MaxEntry /\ PnlMax <= MaxI64 /\ PnlMax \in Nat
         /\ Reach(Before, deposits) \in Nat /\ Reach(Before, deposits) + PnlMax <= MaxI64
         /\ InRange(snap[i], Reach(Before, deposits))
         /\ UnrealizedPnl(snap[i], mark) \in -PnlMax..PnlMax
         /\ UnrealizedPnl(snap[i], mark) \in Int
         /\ Eligible(snap[i], mark) => AdlScore(snap[i], mark) \in Int
  <1> USE LiquidationAssumption, SettlementAssumption, ClearingAssumption
  <1>1. /\ mark \in 0..MaxEntry /\ scans \in 0..MaxScans /\ deposits \in 0..MaxDeposits
        /\ InRange(snap[i], Reach(Before, deposits))
    BY DEF RangeInv
  <1>2. Before \in 0..MaxScans
    BY <1>1 DEF Before
  <1>3. Reach(Before, deposits) \in Nat /\ PnlMax \in Nat /\ FeeMax \in Nat
    BY <1>1, <1>2, Amounts
  <1>4. /\ FeeMax + PnlMax + Reach(Before, deposits) <= ShortfallMax
        /\ ShortfallMax <= MaxI64 /\ PnlMax <= MaxI64 /\ ShortfallMax \in Nat
    BY <1>1, <1>2, Room, Amounts
  <1>5. Reach(Before, deposits) + PnlMax <= MaxI64
    BY <1>3, <1>4
  <1>6. UnrealizedPnl(snap[i], mark) \in -PnlMax..PnlMax
    BY <1>1, <1>4, PnlInRange
  <1>7. UnrealizedPnl(snap[i], mark) \in Int
    BY <1>3, <1>6
  <1>8. Eligible(snap[i], mark) => AdlScore(snap[i], mark) \in Int
    BY <1>1, <1>3, <1>4, <1>5, ScoreInt
  <1> QED
    BY <1>1, <1>3, <1>4, <1>5, <1>6, <1>7, <1>8

LEMMA AdlCloseStep ==
  ASSUME HaveRoom, SettlementInv, stage = "tick", UNCHANGED settlementVars,
         NEW i \in Ids, AdlClose(i)
  PROVE  SettlementInv'
  <1> USE LiquidationAssumption
  <1> DEFINE r == AdlRecord(i)
             pnl == UnrealizedPnl(snap[i], mark)
             cut == Haircut(pnl)
             n == Len(adl)
  <1>1. /\ phase = "adl" /\ remaining > 0 /\ i \in Candidates
        /\ \A j \in Candidates \ {i} : ~ RanksBefore(j, i)
        /\ adl' = Append(adl, r) /\ remaining' = remaining - r.haircut
        /\ UNCHANGED <<phase, snap, mark, next, fund, before, report, scans>>
    BY DEF AdlClose
  <1>2. UNCHANGED deposits /\ scans # 0
    BY DEF settlementVars, SettlementInv, RangeInv
  <1>3. RangeInv /\ FundingInv /\ HookInv /\ ScanInv /\ AdlInv
    BY DEF SettlementInv
  <1>4. ScanInv'
    <2>1. next = N + 1
      BY <1>1, <1>2, <1>3 DEF ScanInv
    <2> QED
      BY <1>1, <1>2, <1>3, <2>1, ReportFrame
  <1>5. RangeInv' /\ FundingInv' /\ HookInv'
    BY <1>1, <1>3, TickFrame
  <1>6. /\ r.account = i /\ r.close_order = CloseOrderSpec(snap[i])
        /\ r.gross = pnl /\ r.haircut = cut /\ r.paid = pnl - cut
        /\ r = [account |-> i, close_order |-> CloseOrderSpec(snap[i]),
                gross |-> pnl, haircut |-> cut, paid |-> pnl - cut]
    BY DEF AdlRecord
  <1>7. i \in Winners /\ pnl > 0 /\ pnl \in Int
    BY <1>1, <1>3, AdlRoom DEF Candidates, Winners, Eligible
  <1>8. remaining \in Nat /\ remaining > 0
    BY <1>1, <1>3 DEF AdlInv
  <1>9. CloseOrderSpec(snap[i]) \in [side : {"Buy", "Sell"}, qty : Nat]
    <2>1. snap[i].size \in Int
      BY <1>3 DEF RangeInv, Account
    <2>2. Abs(snap[i].size) \in Nat
      BY <2>1 DEF Abs
    <2> QED
      BY <2>2 DEF CloseOrderSpec
  <1>10. adl \in Seq(AdlRecords)
    BY <1>3 DEF AdlInv
  <1>11. n \in Nat
    BY <1>10
  <1> HIDE DEF r, pnl
  <1>12. /\ cut \in Nat /\ cut > 0 /\ cut <= remaining /\ cut <= pnl
         /\ cut # pnl => cut = remaining
    BY <1>7, <1>8 DEF Haircut
  <1> HIDE DEF cut
  <1>13. r \in AdlRecords
    <2>1. pnl \in Nat /\ pnl - cut \in Nat
      BY <1>7, <1>12
    <2> QED
      BY <1>6, <1>9, <1>12, <2>1 DEF AdlRecords
  <1>14. /\ adl' \in Seq(AdlRecords) /\ Len(adl') = n + 1 /\ adl'[n + 1] = r
         /\ \A k \in 1..n : adl'[k] = adl[k]
    BY <1>1, <1>10, <1>13, AppendProperties
  <1>15. \A k \in 1..n : adl[k] \in AdlRecords
    BY <1>10
  <1>16. /\ Winners' = Winners /\ Pnls' = Pnls
    BY <1>1 DEF Winners, Pnls
  <1>17. ASSUME NEW k \in 1..n
         PROVE  /\ adl[k].account \in Winners /\ adl[k].account # i
                /\ adl[k].close_order = CloseOrderSpec(snap[adl[k].account])
                /\ adl[k].gross = UnrealizedPnl(snap[adl[k].account], mark)
                /\ adl[k].gross = adl[k].haircut + adl[k].paid /\ adl[k].haircut > 0
                /\ ~ (adl[k].paid > 0)
    <2>1. adl[k].account # i
      BY <1>1 DEF Candidates
    <2>2. adl[k].paid > 0 => remaining = 0
      BY <1>3 DEF AdlInv
    <2>3. ~ (adl[k].paid > 0)
      BY <1>8, <2>2
    <2> QED
      BY <1>3, <2>1, <2>3 DEF AdlInv
  <1> HIDE DEF n
  <1>18. ASSUME NEW k \in 1..(n + 1)
         PROVE  \/ k \in 1..n /\ adl'[k] = adl[k]
                \/ k = n + 1 /\ adl'[k] = r
    <2>1. k \in 1..n \/ k = n + 1
      BY <1>11
    <2> QED
      BY <1>14, <2>1
  <1>19. 1..n \subseteq 1..(n + 1) /\ n + 1 \in 1..(n + 1) /\ n + 1 \notin 1..n
    BY <1>11
  <1>20. Candidates' = Candidates \ {i}
    <2> DEFINE taken == {adl[k].account : k \in 1..n}
    <2>1. Candidates = {j \in Ids : Eligible(snap[j], mark) /\ j \notin taken}
      BY DEF Candidates, n
    <2>2. Candidates' = {j \in Ids : /\ Eligible(snap[j], mark)
                                     /\ \A k \in 1..(n + 1) : adl'[k].account # j}
      BY <1>1, <1>14 DEF Candidates
    <2>3. \A j \in Ids : (\A k \in 1..(n + 1) : adl'[k].account # j)
                           <=> j \notin taken /\ j # i
      BY <1>6, <1>14, <1>18, <1>19
    <2> HIDE DEF taken
    <2> QED
      BY <2>1, <2>2, <2>3
  <1>21. remaining' \in Nat /\ remaining' = remaining - cut
    BY <1>1, <1>6, <1>8, <1>12
  <1>22. ASSUME NEW k \in 1..(n + 1)
         PROVE  /\ adl'[k].account \in Winners'
                /\ adl'[k].close_order = CloseOrderSpec(snap'[adl'[k].account])
                /\ adl'[k].gross = UnrealizedPnl(snap'[adl'[k].account], mark')
                /\ adl'[k].gross = adl'[k].haircut + adl'[k].paid /\ adl'[k].haircut > 0
                /\ adl'[k].paid > 0 => k = Len(adl') /\ remaining' = 0
    <2>1. CASE k \in 1..n /\ adl'[k] = adl[k]
      BY <1>1, <1>16, <1>17, <2>1
    <2>2. CASE k = n + 1 /\ adl'[k] = r
      <3>1. r.gross = r.haircut + r.paid /\ r.haircut > 0
        BY <1>6, <1>7, <1>12
      <3>2. r.paid > 0 => remaining' = 0
        BY <1>6, <1>7, <1>8, <1>12, <1>21
      <3> QED
        BY <1>1, <1>6, <1>7, <1>14, <1>16, <2>2, <3>1, <3>2 DEF pnl
    <2> QED
      BY <1>18, <2>1, <2>2
  <1>23. \A k, l \in 1..(n + 1) : adl'[k].account = adl'[l].account => k = l
    <2>1. \A k, l \in 1..n : adl[k].account = adl[l].account => k = l
      BY <1>3 DEF AdlInv, n
    <2> QED
      BY <1>6, <1>17, <1>18, <2>1
  <1>24. report'.deficit = TotalOf(Haircuts') + remaining'
    <2> DEFINE f == Haircuts
               g == Haircuts'
    <2>1. f = [k \in 1..n |-> adl[k].haircut] /\ g = [k \in 1..(n + 1) |-> adl'[k].haircut]
      BY <1>14 DEF Haircuts, n
    <2>2. \A k \in 1..n : f[k] \in Int /\ g[k] = f[k]
      <3> SUFFICES ASSUME NEW k \in 1..n PROVE f[k] \in Int /\ g[k] = f[k]
        OBVIOUS
      <3>1. f[k] = adl[k].haircut /\ g[k] = adl'[k].haircut
        BY <1>19, <2>1
      <3>2. adl[k].haircut \in Int
        BY <1>15 DEF AdlRecords
      <3> QED
        BY <1>14, <3>1, <3>2
    <2>3. g[n + 1] = cut
      BY <1>6, <1>14, <1>19, <2>1
    <2>4. DOMAIN f = 1..n /\ DOMAIN g = 1..(n + 1)
      BY <2>1
    <2>5. report.deficit = TotalOf(f) + remaining
      BY <1>1, <1>3 DEF AdlInv
    <2> HIDE DEF f, g
    <2>6. TotalOf(g) = TotalOf(f) + g[n + 1] /\ TotalOf(f) \in Int
      <3>1. g[n + 1] \in Int
        BY <1>12, <2>3
      <3> QED
        BY <1>11, <2>2, <2>4, <3>1, TotalAppend
    <2>7. report'.deficit = TotalOf(g) + remaining'
      <3>1. report'.deficit = report.deficit
        BY <1>1
      <3> QED
        BY <1>8, <1>12, <1>21, <2>3, <2>5, <2>6, <3>1
    <2>8. TotalOf(Haircuts') = TotalOf(g)
      BY DEF g
    <2> QED
      BY <2>7, <2>8
  <1>25. SumOf(Pnls, Winners) = SumOf(Pnls, Candidates \ {i}) + TotalOf(Grosses')
    <2> DEFINE f == Grosses
               g == Grosses'
    <2>1. f = [k \in 1..n |-> adl[k].gross] /\ g = [k \in 1..(n + 1) |-> adl'[k].gross]
      BY <1>14 DEF Grosses, n
    <2>2. \A k \in 1..n : f[k] \in Int /\ g[k] = f[k]
      <3> SUFFICES ASSUME NEW k \in 1..n PROVE f[k] \in Int /\ g[k] = f[k]
        OBVIOUS
      <3>1. f[k] = adl[k].gross /\ g[k] = adl'[k].gross
        BY <1>19, <2>1
      <3>2. adl[k].gross \in Int
        BY <1>15 DEF AdlRecords
      <3> QED
        BY <1>14, <3>1, <3>2
    <2>3. g[n + 1] = pnl
      BY <1>6, <1>14, <1>19, <2>1
    <2>4. DOMAIN f = 1..n /\ DOMAIN g = 1..(n + 1)
      BY <2>1
    <2>5. SumOf(Pnls, Winners) = SumOf(Pnls, Candidates) + TotalOf(f)
      BY <1>3 DEF AdlInv
    <2>9. TotalOf(Grosses') = TotalOf(g)
      BY DEF g
    <2> HIDE DEF f, g
    <2>6. TotalOf(g) = TotalOf(f) + pnl /\ TotalOf(f) \in Int
      <3>1. g[n + 1] \in Int
        BY <1>7, <2>3
      <3>2. TotalOf(g) = TotalOf(f) + g[n + 1] /\ TotalOf(f) \in Int
        BY <1>11, <2>2, <2>4, <3>1, TotalAppend
      <3> QED
        BY <2>3, <3>2
    <2>7. /\ SumOf(Pnls, Candidates) = Pnls[i] + SumOf(Pnls, Candidates \ {i})
          /\ SumOf(Pnls, Candidates \ {i}) \in Int
      <3>1. Candidates \subseteq Ids /\ Candidates \ {i} \subseteq Ids
        BY DEF Candidates
      <3>2. IsFiniteSet(Candidates) /\ IsFiniteSet(Candidates \ {i})
        BY <3>1, IdsFinite, FS_Subset
      <3>3. \A j \in Ids : Pnls[j] \in Int
        BY <1>3, AdlRoom DEF Pnls
      <3> QED
        BY <1>1, <3>1, <3>2, <3>3, SumRemove, SumInt
    <2>8. Pnls[i] = pnl
      BY DEF Pnls, pnl
    <2> QED
      BY <1>7, <2>5, <2>6, <2>7, <2>8, <2>9
  <1>26. InRankOrder'
    <2> SUFFICES ASSUME NEW k \in 1..(n + 1),
                        NEW j \in Ids \ {adl'[l].account : l \in 1..k},
                        Eligible(snap[j], mark)
                 PROVE  LET s == AdlScore(snap[j], mark)
                            t == AdlScore(snap[adl'[k].account], mark)
                        IN s < t \/ (s = t /\ j > adl'[k].account)
      BY <1>1, <1>14 DEF InRankOrder, AdlScore
    <2>1. CASE k \in 1..n /\ adl'[k] = adl[k]
      <3>1. 1..k \subseteq 1..n
        BY <1>11, <2>1
      <3>2. j \in Ids \ {adl[l].account : l \in 1..k}
        BY <1>14, <3>1
      <3> QED
        BY <1>3, <2>1, <3>2 DEF AdlInv, InRankOrder, n
    <2>2. CASE k = n + 1 /\ adl'[k] = r
      <3>1. \A l \in 1..n : adl[l].account # j
        BY <1>14, <1>19, <2>2
      <3>2. j # i
        BY <1>6, <1>19, <2>2
      <3>3. j \in Candidates \ {i}
        BY <3>1, <3>2 DEF Candidates, n
      <3>4. ~ RanksBefore(j, i)
        BY <1>1, <3>3
      <3>5. AdlScore(snap[i], mark) \in Int /\ AdlScore(snap[j], mark) \in Int
        BY <1>3, <1>7, AdlRoom DEF Winners
      <3>6. i \in Int /\ j \in Int
        BY DEF Ids
      <3>7. adl'[k].account = i
        BY <1>6, <2>2
      <3> QED
        BY <3>2, <3>4, <3>5, <3>6, <3>7 DEF RanksBefore
    <2> QED
      BY <1>18, <2>1, <2>2
  <1>27. AdlInv'
    <2>1. phase' = "adl" /\ RunAdl /\ report'.deficit > 0
      BY <1>1, <1>3 DEF AdlInv
    <2> QED
      BY <1>14, <1>16, <1>20, <1>21, <1>22, <1>23, <1>24, <1>25, <1>26, <2>1 DEF AdlInv
  <1> QED
    BY <1>4, <1>5, <1>27 DEF SettlementInv

-----------------------------------------------------------------------------
(* The hook around the tick.                                               *)

\* A block to come leaves room for its funding.
LEMMA DeltaRoom ==
  ASSUME HaveRoom, NEW i \in Ids, MaxScans # 0
  PROVE  DeltaMax <= MaxI64
  <1> USE LiquidationAssumption, SettlementAssumption, ClearingAssumption
  <1>1. 1 \in 0..MaxScans /\ 0 \in 0..MaxDeposits
    OBVIOUS
  <1>2. FeeMax + PnlMax + Reach(1, 0) <= ShortfallMax /\ ShortfallMax <= MaxI64
    BY <1>1, Room
  <1>3. Reach(0 + 1, 0) = Reach(0, 0) + 2 * PnlMax + DeltaMax
    BY ReachNext
  <1>4. /\ FeeMax \in Nat /\ PnlMax \in Nat /\ DeltaMax \in Nat /\ ShortfallMax \in Nat
        /\ Reach(0, 0) \in Nat
    BY Amounts
  <1>5. Reach(1, 0) = Reach(0, 0) + 2 * PnlMax + DeltaMax
    BY <1>3
  <1> QED
    BY <1>2, <1>4, <1>5

\* No block can have added more than every account's fee to the fund.
LEMMA FundBound ==
  ASSUME RangeInv, ScanInv
  PROVE  fund \in 0..(MaxFund + scans * (N * FeeMax))
  <1> USE LiquidationAssumption
  <1> DEFINE nf == N * FeeMax
  <1>1. FeeMax \in Nat /\ nf \in Nat /\ scans \in Nat
    BY Amounts DEF RangeInv
  <1>2. /\ fund \in Nat /\ before \in 0..(MaxFund + Before * nf)
        /\ report.deposits \in Nat /\ report.withdrawals \in Nat
        /\ fund = before + report.deposits - report.withdrawals
        /\ report.deposits <= (next - 1) * FeeMax
        /\ next \in 1..(N + 1) /\ (scans = 0 => next = 1)
    BY DEF ScanInv
  <1>3. CASE scans = 0
    <2>1. (next - 1) * FeeMax = 0 /\ Before * nf = 0 /\ scans * nf = 0
      BY <1>1, <1>2, <1>3 DEF Before
    <2> HIDE DEF nf
    <2>2. fund \in 0..(MaxFund + scans * nf)
      BY <1>1, <1>2, <2>1
    <2> QED
      BY <2>2 DEF nf
  <1>4. CASE scans # 0
    <2>1. (next - 1) * FeeMax <= nf /\ (next - 1) * FeeMax \in Int
      BY <1>1, <1>2, TimesMonotonic
    <2> HIDE DEF nf
    <2>2. Before = scans - 1
      BY <1>4 DEF Before
    <2>3. Before * nf = scans * nf - nf /\ scans * nf \in Nat
      BY <1>1, <2>2
    <2>4. fund \in 0..(MaxFund + scans * nf)
      BY <1>1, <1>2, <2>1, <2>3
    <2> QED
      BY <2>4 DEF nf
  <1> QED
    BY <1>3, <1>4

LEMMA TakeSnapshotStep ==
  ASSUME HaveRoom, SettlementInv, NEW m \in 0..MaxEntry,
         NEW index \in {NoMark} \cup 1..MaxEntry, NEW due \in BOOLEAN,
         TakeSnapshot(m, index, due)
  PROVE  SettlementInv'
  <1> USE LiquidationAssumption, SettlementAssumption, ClearingAssumption
  <1> DEFINE rate == FundingRate(m, index, due)
             c == Reach(scans, deposits)
  <1>1. /\ stage = "idle" /\ phase = "idle" /\ scans < MaxScans
        /\ phase' = "scan" /\ snap' = live /\ mark' = ScanMark(m, index) /\ next' = 1
        /\ before' = fund /\ report' = EmptyReport /\ adl' = <<>> /\ remaining' = 0
        /\ scans' = scans + 1 /\ fund' = fund /\ stage' = "tick"
        /\ arrived' = Zero /\ live' = live /\ deposits' = deposits
    BY DEF TakeSnapshot, StartScan
  <1>2. deltas' = [i \in Ids |-> FundingDelta(live[i], m, rate)]
    BY DEF TakeSnapshot
  <1>3. RangeInv /\ FundingInv /\ HookInv /\ ScanInv /\ AdlInv
    BY DEF SettlementInv
  <1>4. /\ scans \in 0..MaxScans /\ scans \in Nat /\ deposits \in 0..MaxDeposits
        /\ live \in [Ids -> Account] /\ \A i \in Ids : InRange(live[i], c)
    BY <1>1, <1>3, SMTT(60) DEF RangeInv
  <1>5. Before' = scans /\ scans' \in 0..MaxScans /\ scans' # 0 /\ MaxScans # 0
    BY <1>1, <1>4 DEF Before
  <1>6. rate \in -RateCap..RateCap
    BY RateInRange
  <1>7. mark' \in 0..MaxEntry
    BY <1>1 DEF ScanMark
  <1> HIDE DEF rate, c
  <1>8. ASSUME NEW i \in Ids
        PROVE  /\ deltas'[i] = TruncDiv(-(live[i].size * (m * rate)), RateScale)
               /\ deltas'[i] \in -DeltaMax..DeltaMax
    <2>1. DeltaMax <= MaxI64
      BY <1>5, DeltaRoom
    <2>2. InRange(live[i], c)
      BY <1>4
    <2>3. deltas'[i] = FundingDelta(live[i], m, rate)
      BY <1>2
    <2> QED
      BY <1>6, <2>1, <2>2, <2>3, DeltaInRange
  <1>9. RangeInv'
    <2>1. deltas' \in [Ids -> (-DeltaMax)..DeltaMax]
      BY <1>2, <1>8
    <2>2. arrived' \in [Ids -> Int]
      BY <1>1 DEF Zero
    <2> QED
      BY <1>1, <1>4, <1>5, <1>7, <2>1, <2>2 DEF RangeInv, c
  <1>10. FundingInv'
    <2>1. m * rate \in Int
      BY <1>6
    <2> QED
      BY <1>1, <1>8, <2>1 DEF FundingInv
  <1>11. HookInv'
    <2>1. ASSUME NEW i \in Ids
          PROVE  live'[i].collateral = snap'[i].collateral + arrived'[i]
      <3>1. live[i].collateral \in Int
        BY <1>4 DEF Account
      <3>2. arrived'[i] = 0
        BY <1>1 DEF Zero
      <3> QED
        BY <1>1, <3>1, <3>2
    <2> QED
      BY <1>1, <2>1 DEF HookInv, HookDone, WinnersArePaid
  <1>12. ScanInv'
    <2> DEFINE nf == N * FeeMax
    <2>1. FeeMax \in Nat /\ ShortfallMax \in Nat /\ nf \in Nat
      BY Amounts
    <2>2. fund \in 0..(MaxFund + scans * nf)
      BY <1>3, FundBound
    <2> HIDE DEF nf
    <2>3. /\ report' \in [deposits : Nat, withdrawals : Nat, deficit : Nat, records : Seq(Records)]
          /\ report'.deposits = 0 /\ report'.withdrawals = 0 /\ report'.deficit = 0
          /\ report'.records = <<>>
      BY <1>1 DEF EmptyReport
    <2>4. Len(report'.records) = 0
      BY <2>3
    <2>5. TotalOf(Shortfalls') = 0
      <3>1. DOMAIN Shortfalls' = 1..0
        BY <2>4 DEF Shortfalls
      <3> QED
        BY <3>1, TotalEmpty
    <2>6. \A k \in 1..Len(report'.records) : FALSE
      BY <2>4
    <2>7. (next' - 1) * FeeMax = 0 /\ (next' - 1) * ShortfallMax = 0
      BY <1>1, <2>1
    <2>8. fund' = before' + report'.deposits - report'.withdrawals /\ fund' \in Nat
      BY <1>1, <2>1, <2>2, <2>3
    <2>9. before' \in 0..(MaxFund + Before' * (N * FeeMax))
      BY <1>1, <1>5, <2>2 DEF nf
    <2>10. report'.deposits <= (next' - 1) * FeeMax
           /\ report'.withdrawals + report'.deficit <= (next' - 1) * ShortfallMax
           /\ TotalOf(Shortfalls') = report'.withdrawals + report'.deficit
      BY <2>3, <2>5, <2>7
    <2>11. next' \in 1..(N + 1) /\ phase' = "scan" /\ scans' # 0
      BY <1>1, <1>5
    <2> QED
      BY <2>3, <2>6, <2>8, <2>9, <2>10, <2>11 DEF ScanInv
  <1>13. AdlInv'
    <2>1. Len(adl') = 0 /\ adl' \in Seq(AdlRecords)
      BY <1>1
    <2>2. \A k \in 1..Len(adl') : FALSE
      BY <2>1
    <2>3. Winners' = Candidates' /\ Winners' \subseteq Ids
      BY <2>2 DEF Winners, Candidates
    <2>4. InRankOrder'
      BY <2>2 DEF InRankOrder
    <2>5. TotalOf(Grosses') = 0
      <3>1. DOMAIN Grosses' = 1..0
        BY <2>1 DEF Grosses
      <3> QED
        BY <3>1, TotalEmpty
    <2>6. SumOf(Pnls', Winners') \in Int
      <3>1. IsFiniteSet(Winners')
        BY <2>3, IdsFinite, FS_Subset
      <3>2. ASSUME NEW j \in Ids
            PROVE  Pnls'[j] \in Int
        <4>1. PnlMax <= MaxI64 /\ PnlMax \in Nat
          BY Room, Amounts
        <4>2. InRange(live[j], c)
          BY <1>4
        <4>3. UnrealizedPnl(live[j], mark') \in -PnlMax..PnlMax
          BY <1>7, <4>1, <4>2, PnlInRange
        <4>4. Pnls'[j] = UnrealizedPnl(live[j], mark')
          BY <1>1 DEF Pnls
        <4> QED
          BY <4>1, <4>3, <4>4
      <3> QED
        BY <2>3, <3>1, <3>2, SumInt
    <2>7. SumOf(Pnls', Winners') = SumOf(Pnls', Candidates') + TotalOf(Grosses')
      BY <2>3, <2>5, <2>6
    <2> QED
      BY <1>1, <2>1, <2>2, <2>4, <2>7 DEF AdlInv
  <1> QED
    BY <1>9, <1>10, <1>11, <1>12, <1>13 DEF SettlementInv

\* The hook leaves the report alone, and a deposit only adds to the range.
LEMMA HookFrame ==
  ASSUME RangeInv, ScanInv, AdlInv, UNCHANGED liqVars, deposits' \in {deposits, deposits + 1}
  PROVE  ScanInv' /\ AdlInv'
  <1> USE DEF liqVars
  <1>1. Before' = Before /\ Shortfalls' = Shortfalls
    BY DEF Before, Shortfalls
  <1>2. ASSUME NEW k \in 1..Len(report.records)
        PROVE  report.records[k].residual <= Reach(Before, deposits') + PnlMax
    <2>1. deposits \in Nat /\ Before \in Nat
      BY LiquidationAssumption, SettlementAssumption DEF RangeInv, Before
    <2>2. deposits' \in Nat /\ deposits <= deposits'
      BY <2>1
    <2>8. Reach(Before, deposits) <= Reach(Before, deposits')
      <3>1. Before <= Before
        BY <2>1
      <3> QED
        BY <2>1, <2>2, <3>1, ReachGrows
    <2>9. PnlMax \in Nat /\ Reach(Before, deposits) \in Nat /\ Reach(Before, deposits') \in Nat
      BY <2>1, <2>2, Amounts
    <2>3. /\ Reach(Before, deposits) <= Reach(Before, deposits') /\ PnlMax \in Nat
          /\ Reach(Before, deposits) \in Nat /\ Reach(Before, deposits') \in Nat
      BY <2>8, <2>9
    <2>4. report.records \in Seq(Records)
      BY DEF ScanInv
    <2>5. report.records[k] \in Records
      BY <2>4
    <2>6. report.records[k].residual \in Nat
      BY <2>5 DEF Records
    <2>7. report.records[k].residual <= Reach(Before, deposits) + PnlMax
      BY DEF ScanInv
    <2> QED
      BY <2>3, <2>6, <2>7
  <1>3. ScanInv'
    BY <1>1, <1>2 DEF ScanInv
  <1>4. /\ Winners' = Winners /\ Candidates' = Candidates /\ Pnls' = Pnls
        /\ Haircuts' = Haircuts /\ Grosses' = Grosses
    BY DEF Winners, Candidates, Pnls, Haircuts, Grosses
  <1>5. InRankOrder' <=> InRankOrder
    BY DEF InRankOrder, AdlScore
  <1>6. AdlInv'
    BY <1>4, <1>5 DEF AdlInv
  <1> QED
    BY <1>3, <1>6

\* What the write-backs work with has room.
LEMMA HookRoom ==
  ASSUME HaveRoom, RangeInv, scans # 0, NEW i \in Ids
  PROVE  /\ Reach(Before, deposits) \in Nat /\ PnlMax \in Nat /\ DeltaMax \in Nat
         /\ Reach(scans, deposits) = Reach(Before, deposits) + 2 * PnlMax + DeltaMax
         /\ Reach(Before, deposits) + 2 * PnlMax + DeltaMax <= MaxI64
  <1> USE LiquidationAssumption, SettlementAssumption, ClearingAssumption
  <1>1. scans \in 0..MaxScans /\ deposits \in 0..MaxDeposits
    BY DEF RangeInv
  <1>2. Before \in Nat /\ scans = Before + 1 /\ scans \in Nat /\ deposits \in Nat
    BY <1>1 DEF Before
  <1>3. Reach(scans, deposits) = Reach(Before, deposits) + 2 * PnlMax + DeltaMax
    BY <1>1, <1>2, ReachNext
  <1>4. FeeMax + PnlMax + Reach(scans, deposits) <= ShortfallMax /\ ShortfallMax <= MaxI64
    BY <1>1, Room
  <1>5. /\ Reach(Before, deposits) \in Nat /\ PnlMax \in Nat /\ DeltaMax \in Nat
        /\ FeeMax \in Nat /\ ShortfallMax \in Nat /\ Reach(scans, deposits) \in Nat
    BY <1>1, <1>2, Amounts
  <1>6. Reach(scans, deposits) <= MaxI64
    BY <1>4, <1>5
  <1> QED
    BY <1>3, <1>5, <1>6

LEMMA ApplyFundingStep ==
  ASSUME HaveRoom, SettlementInv, ApplyFunding
  PROVE  SettlementInv'
  <1> USE LiquidationAssumption, SettlementAssumption, ClearingAssumption
  <1> DEFINE c == Reach(Before, deposits)
  <1>1. /\ stage = "tick" /\ phase = "idle" /\ stage' = "records"
        /\ live' = [i \in Ids |-> Settled(i)]
        /\ UNCHANGED <<liqVars, deltas, arrived, deposits>>
    BY DEF ApplyFunding
  <1>2. UNCHANGED <<phase, snap, mark, scans>> /\ UNCHANGED <<report, adl>>
    BY <1>1 DEF liqVars
  <1>3. RangeInv /\ FundingInv /\ HookInv /\ ScanInv /\ AdlInv
    BY DEF SettlementInv
  <1>4. scans # 0 /\ Before' = Before
    BY <1>1, <1>2, <1>3 DEF RangeInv, Before
  <1>5. ASSUME NEW i \in Ids
        PROVE  /\ live'[i] \in Account /\ live'[i].size = live[i].size
               /\ live'[i].avg = live[i].avg
               /\ live'[i].collateral = live[i].collateral + deltas[i]
               /\ live[i].collateral \in Int /\ deltas[i] \in Int
               /\ InRange(live'[i], c + DeltaMax)
    <2>1. InRange(live[i], c)
      BY <1>1, <1>3 DEF RangeInv
    <2>2. deltas[i] \in -DeltaMax..DeltaMax
      BY <1>3 DEF RangeInv
    <2>3. c \in Nat /\ DeltaMax \in Nat /\ c + DeltaMax <= MaxI64
      BY <1>3, <1>4, HookRoom
    <2> HIDE DEF c
    <2> DEFINE x == live[i].collateral
               y == deltas[i]
    <2>4. x \in -c..c /\ live[i] \in Account
      BY <2>1 DEF InRange
    <2> HIDE DEF x, y
    <2>5. /\ Saturate(x + y) = x + y /\ x + y \in -(c + DeltaMax)..(c + DeltaMax)
          /\ x \in Int /\ y \in Int
      BY <2>2, <2>3, <2>4 DEF Saturate, y
    <2>6. live'[i] = [live[i] EXCEPT !.collateral = x + y]
      BY <1>1, <2>5 DEF Settled, x, y
    <2>7. /\ live'[i] \in Account /\ live'[i].size = live[i].size
          /\ live'[i].avg = live[i].avg /\ live'[i].collateral = x + y
      BY <2>4, <2>5, <2>6 DEF Account
    <2> QED
      BY <2>1, <2>5, <2>7 DEF InRange, x, y
  <1>6. RangeInv'
    <2>1. live' \in [Ids -> Account]
      BY <1>1, <1>5
    <2> QED
      BY <1>1, <1>2, <1>3, <1>4, <1>5, <2>1 DEF RangeInv
  <1>7. FundingInv'
    BY <1>1, <1>2, <1>3 DEF FundingInv
  <1>8. HookInv'
    <2>1. ASSUME NEW i \in Ids
          PROVE  /\ live'[i].size = snap'[i].size
                 /\ live'[i].collateral = snap'[i].collateral + deltas'[i] + arrived'[i]
      <3>1. live[i].size = snap[i].size /\ live[i].collateral = snap[i].collateral + arrived[i]
        BY <1>1, <1>3 DEF HookInv
      <3>2. snap[i].collateral \in Int /\ arrived[i] \in Int
        BY <1>3 DEF RangeInv, Account
      <3>3. /\ live'[i].size = live[i].size /\ live'[i].collateral = live[i].collateral + deltas[i]
            /\ deltas[i] \in Int
        BY <1>5
      <3> QED
        BY <1>1, <1>2, <3>1, <3>2, <3>3
    <2> QED
      BY <1>1, <2>1 DEF HookInv, HookDone, WinnersArePaid
  <1>9. ScanInv' /\ AdlInv'
    BY <1>1, <1>3, HookFrame
  <1> QED
    BY <1>6, <1>7, <1>8, <1>9 DEF SettlementInv

LEMMA InRangeGrows ==
  ASSUME NEW a, NEW c \in Nat, NEW c1 \in Nat, c <= c1, InRange(a, c)
  PROVE  InRange(a, c1)
  <1> DEFINE x == a.collateral
  <1>1. x \in -c..c
    BY DEF InRange
  <1> HIDE DEF x
  <1>2. x \in -c1..c1
    BY <1>1
  <1> QED
    BY <1>2 DEF InRange, x

\* How far the stage of the hook lets an account's collateral be from zero.
Allowed(d) ==
  CASE stage = "tick" -> Reach(Before, d)
    [] stage = "records" -> Reach(Before, d) + DeltaMax
    [] stage = "idle" -> Reach(scans, d)

LEMMA DepositRoom ==
  ASSUME HaveRoom, RangeInv, NEW i \in Ids, deposits < MaxDeposits
  PROVE  /\ Reach(Before, deposits) \in Nat /\ Reach(Before, deposits + 1) \in Nat
         /\ Reach(Before, deposits) <= Reach(Before, deposits + 1)
         /\ Allowed(deposits) \in Nat /\ Allowed(deposits + 1) = Allowed(deposits) + 1
         /\ Allowed(deposits + 1) <= MaxI64
  <1> USE LiquidationAssumption, SettlementAssumption, ClearingAssumption
  <1>1. /\ scans \in 0..MaxScans /\ deposits \in 0..MaxDeposits
        /\ stage \in {"idle", "tick", "records"} /\ (stage # "idle" => scans # 0)
    BY DEF RangeInv
  <1>2. /\ Before \in 0..MaxScans /\ Before \in Nat /\ scans \in Nat /\ deposits \in Nat
        /\ deposits + 1 \in 0..MaxDeposits /\ deposits + 1 \in Nat
        /\ scans # 0 => scans = Before + 1
    BY <1>1 DEF Before
  <1>3. /\ Reach(Before, deposits) \in Nat /\ Reach(Before, deposits + 1) \in Nat
        /\ Reach(scans, deposits) \in Nat /\ Reach(scans, deposits + 1) \in Nat
        /\ PnlMax \in Nat /\ FeeMax \in Nat /\ DeltaMax \in Nat /\ ShortfallMax \in Nat
    BY <1>2, Amounts
  <1>4. /\ Reach(Before, deposits + 1) = Reach(Before, deposits) + 1
        /\ Reach(scans, deposits + 1) = Reach(scans, deposits) + 1
    BY <1>2, ReachNext
  <1>5. /\ FeeMax + PnlMax + Reach(scans, deposits + 1) <= ShortfallMax
        /\ FeeMax + PnlMax + Reach(Before, deposits + 1) <= ShortfallMax
        /\ ShortfallMax <= MaxI64
    BY <1>1, <1>2, Room
  <1>6. CASE stage = "tick"
    BY <1>3, <1>4, <1>5, <1>6 DEF Allowed
  <1>7. CASE stage = "idle"
    BY <1>3, <1>4, <1>5, <1>7 DEF Allowed
  <1>8. CASE stage = "records"
    <2>1. Reach(scans, deposits + 1) = Reach(Before, deposits + 1) + 2 * PnlMax + DeltaMax
      <3>1. scans = Before + 1
        BY <1>1, <1>2, <1>8
      <3> QED
        BY <1>2, <3>1, ReachNext
    <2> QED
      BY <1>3, <1>4, <1>5, <1>8, <2>1 DEF Allowed
  <1> QED
    BY <1>1, <1>3, <1>4, <1>6, <1>7, <1>8

LEMMA DepositStep ==
  ASSUME HaveRoom, SettlementInv, NEW j \in Ids, NEW amount \in {-1, 1}, EvmDeposit(j, amount)
  PROVE  SettlementInv'
  <1> USE LiquidationAssumption, SettlementAssumption, ClearingAssumption
  <1> DEFINE plus == [i \in Ids |-> IF i = j THEN amount ELSE 0]
  <1>1. /\ deposits < MaxDeposits /\ deposits' = deposits + 1
        /\ live' = [live EXCEPT ![j].collateral = Saturate(@ + amount)]
        /\ arrived' = [arrived EXCEPT ![j] = @ + amount]
        /\ UNCHANGED <<liqVars, stage, deltas>>
    BY DEF EvmDeposit
  <1>2. UNCHANGED <<phase, snap, mark, scans, report, adl>>
    BY <1>1 DEF liqVars
  <1>3. RangeInv /\ FundingInv /\ HookInv /\ ScanInv /\ AdlInv
    BY DEF SettlementInv
  <1>4. /\ Before' = Before /\ deposits' \in 0..MaxDeposits
        /\ live \in [Ids -> Account] /\ arrived \in [Ids -> Int]
        /\ stage \in {"idle", "tick", "records"}
    BY <1>1, <1>2, <1>3 DEF RangeInv, Before
  <1>5. ASSUME NEW i \in Ids
        PROVE  InRange(live[i], Allowed(deposits))
    BY <1>3 DEF RangeInv, Allowed
  <1>6. ASSUME NEW i \in Ids
        PROVE  /\ live'[i] \in Account /\ live'[i].size = live[i].size
               /\ live'[i].collateral = live[i].collateral + plus[i]
               /\ arrived'[i] = arrived[i] + plus[i]
               /\ live[i].collateral \in Int /\ plus[i] \in Int /\ arrived[i] \in Int
               /\ InRange(live'[i], Allowed(deposits + 1))
    <2> DEFINE x == live[i].collateral
               c == Allowed(deposits)
    <2>1. /\ c \in Nat /\ Allowed(deposits + 1) = c + 1 /\ c + 1 <= MaxI64
      BY <1>1, <1>3, DepositRoom
    <2> HIDE DEF c
    <2>2. InRange(live[i], c) /\ live[i] \in Account /\ arrived[i] \in Int
      BY <1>4, <1>5 DEF c
    <2>3. x \in -c..c
      BY <2>2 DEF InRange
    <2> HIDE DEF x
    <2>4. x + amount \in -(c + 1)..(c + 1) /\ Saturate(x + amount) = x + amount /\ x \in Int
      BY <2>1, <2>3 DEF Saturate
    <2>5. CASE i = j
      <3>1. live'[i] = [live[i] EXCEPT !.collateral = x + amount]
        BY <1>1, <1>4, <2>4, <2>5 DEF x
      <3>2. /\ live'[i] \in Account /\ live'[i].size = live[i].size
            /\ live'[i].avg = live[i].avg /\ live'[i].collateral = x + amount
        BY <2>2, <2>4, <3>1 DEF Account
      <3>3. InRange(live'[i], c + 1)
        BY <2>2, <2>4, <3>2 DEF InRange
      <3>4. plus[i] = amount /\ arrived'[i] = arrived[i] + amount
        BY <1>1, <1>4, <2>5
      <3> QED
        BY <2>1, <2>2, <2>4, <3>2, <3>3, <3>4 DEF x
    <2>6. CASE i # j
      <3>1. live'[i] = live[i] /\ arrived'[i] = arrived[i] /\ plus[i] = 0
        BY <1>1, <1>4, <2>6
      <3>2. InRange(live[i], c + 1)
        BY <2>1, <2>2, InRangeGrows
      <3>3. x = x + plus[i] /\ arrived[i] = arrived[i] + plus[i]
        BY <2>2, <2>4, <3>1
      <3> QED
        BY <2>1, <2>2, <2>4, <3>1, <3>2, <3>3 DEF x
    <2> QED
      BY <2>5, <2>6
  <1> HIDE DEF plus
  <1>7. RangeInv'
    <2>1. live' \in [Ids -> Account]
      BY <1>1, <1>4, <1>6
    <2>2. arrived' \in [Ids -> Int]
      BY <1>1, <1>4, <1>6
    <2>3. ASSUME NEW i \in Ids
          PROVE  InRange(snap[i], Reach(Before, deposits + 1))
      <3>1. InRange(snap[i], Reach(Before, deposits))
        BY <1>3 DEF RangeInv
      <3> QED
        BY <1>1, <1>3, <3>1, DepositRoom, InRangeGrows
    <2>4. ASSUME NEW i \in Ids
          PROVE  InRange(live'[i], CASE stage' = "tick" -> Reach(Before', deposits')
                                     [] stage' = "records" -> Reach(Before', deposits') + DeltaMax
                                     [] stage' = "idle" -> Reach(scans', deposits'))
      BY <1>1, <1>2, <1>4, <1>6 DEF Allowed
    <2> QED
      BY <1>1, <1>2, <1>3, <1>4, <2>1, <2>2, <2>3, <2>4 DEF RangeInv
  <1>8. FundingInv'
    BY <1>1, <1>2, <1>3 DEF FundingInv
  <1>9. HookInv'
    <2>0. /\ Liquidated' = Liquidated /\ Deleveraged' = Deleveraged
          /\ (HookDone' <=> HookDone)
      BY <1>1, <1>2 DEF Liquidated, Deleveraged, HookDone
    <2>1. ASSUME NEW i \in Ids, NEW y \in Int,
                 live[i].collateral = y + arrived[i]
          PROVE  live'[i].collateral = y + arrived'[i]
      BY <1>6, <2>1
    <2>2. ASSUME NEW i \in Ids
          PROVE  snap[i].collateral \in Int /\ deltas[i] \in Int
      BY <1>3, Amounts DEF RangeInv, Account
    <2>3. ASSUME stage = "tick", NEW i \in Ids
          PROVE  /\ live'[i].size = snap'[i].size
                 /\ live'[i].collateral = snap'[i].collateral + arrived'[i]
      BY <1>2, <1>3, <1>6, <2>1, <2>2, <2>3 DEF HookInv
    <2>4. ASSUME NEW i \in Ids, live[i].size = snap[i].size,
                 live[i].collateral = snap[i].collateral + deltas[i] + arrived[i]
          PROVE  /\ live'[i].size = snap'[i].size
                 /\ live'[i].collateral = snap'[i].collateral + deltas'[i] + arrived'[i]
      BY <1>1, <1>2, <1>6, <2>1, <2>2, <2>4
    <2>5. WinnersArePaid'
      <3> SUFFICES ASSUME HookDone, NEW k \in 1..Len(adl), adl[k].account \notin Liquidated
                   PROVE  /\ live'[adl[k].account].size = 0
                          /\ live'[adl[k].account].collateral
                               = snap[adl[k].account].collateral + deltas[adl[k].account]
                                 + arrived'[adl[k].account] + adl[k].paid
        BY <1>1, <1>2, <2>0 DEF WinnersArePaid
      <3> DEFINE i == adl[k].account
                 p == adl[k].paid
      <3>1. adl \in Seq(AdlRecords)
        BY <1>3 DEF AdlInv
      <3>2. adl[k] \in AdlRecords
        BY <3>1
      <3>3. i \in Ids /\ p \in Int
        BY <3>2 DEF AdlRecords
      <3>4. live[i].size = 0 /\ live[i].collateral = snap[i].collateral + deltas[i] + arrived[i] + p
        BY <1>3 DEF HookInv, WinnersArePaid
      <3> HIDE DEF i, p
      <3>5. live[i].collateral = (snap[i].collateral + deltas[i] + p) + arrived[i]
        BY <1>6, <2>2, <3>3, <3>4
      <3>6. live'[i].collateral = (snap[i].collateral + deltas[i] + p) + arrived'[i]
        BY <2>1, <2>2, <3>3, <3>5
      <3>7. live'[i].size = 0 /\ arrived'[i] \in Int
        BY <1>6, <3>3, <3>4
      <3>8. live'[i].collateral = snap[i].collateral + deltas[i] + arrived'[i] + p
        BY <2>2, <3>3, <3>6, <3>7
      <3> QED
        BY <3>7, <3>8 DEF i, p
    <2> QED
      BY <1>1, <1>2, <1>3, <2>0, <2>3, <2>4, <2>5 DEF HookInv
  <1>10. ScanInv' /\ AdlInv'
    BY <1>1, <1>3, HookFrame
  <1> QED
    BY <1>7, <1>8, <1>9, <1>10 DEF SettlementInv

\* The records of an account, if it has one.
LEMMA RecordsOf ==
  ASSUME ScanInv, AdlInv, NEW i \in Ids
  PROVE  /\ HasRecord(report.records, i) <=> i \in Liquidated
         /\ HasRecord(adl, i) <=> i \in Deleveraged
         /\ \A k \in 1..Len(report.records) :
              report.records[k].account = i => RecordOf(report.records, i) = report.records[k]
         /\ \A k \in 1..Len(adl) : adl[k].account = i => RecordOf(adl, i) = adl[k]
  <1>1. /\ HasRecord(report.records, i) <=> i \in Liquidated
        /\ HasRecord(adl, i) <=> i \in Deleveraged
    BY DEF HasRecord, Liquidated, Deleveraged
  <1>2. ASSUME NEW k \in 1..Len(adl), adl[k].account = i
        PROVE  RecordOf(adl, i) = adl[k]
    <2> DEFINE l == CHOOSE x \in 1..Len(adl) : adl[x].account = i
    <2>1. l \in 1..Len(adl) /\ adl[l].account = i
      BY <1>2
    <2>2. l = k
      BY <1>2, <2>1 DEF AdlInv
    <2> QED
      BY <2>2 DEF RecordOf
  <1>3. ASSUME NEW k \in 1..Len(report.records), report.records[k].account = i
        PROVE  RecordOf(report.records, i) = report.records[k]
    <2> DEFINE rs == report.records
               l == CHOOSE x \in 1..Len(rs) : rs[x].account = i
    <2>1. l \in 1..Len(rs) /\ rs[l].account = i
      BY <1>3
    <2>2. \A x, y \in 1..Len(rs) : x < y => rs[x].account < rs[y].account
      BY DEF ScanInv
    <2>3. i \in Int /\ rs[k].account = i /\ k \in 1..Len(rs)
      BY <1>3 DEF Ids
    <2> HIDE DEF l, rs
    <2>4. l = k
      BY <2>1, <2>2, <2>3
    <2> QED
      BY <2>4 DEF RecordOf, l, rs
  <1> QED
    BY <1>1, <1>2, <1>3

\* The market order that closes a position moves it to zero.
LEMMA ClosingMoves ==
  ASSUME NEW a, a.size \in Int
  PROVE  SideSign(CloseOrderSpec(a).side) * CloseOrderSpec(a).qty = -a.size
  <1> DEFINE s == a.size
             q == IF s < 0 THEN -s ELSE s
             side == IF s > 0 THEN "Sell" ELSE "Buy"
  <1>1. CloseOrderSpec(a).side = side /\ CloseOrderSpec(a).qty = q
    BY DEF CloseOrderSpec, Abs
  <1> HIDE DEF s
  <1>2. CASE s > 0
    <2>1. SideSign(side) = -1
      BY <1>2 DEF SideSign
    <2>2. q = s
      BY <1>2 DEF s
    <2> HIDE DEF side, q
    <2>3. SideSign(side) * q = -s
      BY <2>1, <2>2 DEF s
    <2> QED
      BY <1>1, <2>3 DEF s
  <1>3. CASE ~(s > 0)
    <2>1. SideSign(side) = 1
      BY <1>3 DEF SideSign
    <2>2. q = -s
      BY <1>3 DEF s
    <2> HIDE DEF side, q
    <2>3. SideSign(side) * q = -s
      BY <2>1, <2>2 DEF s
    <2> QED
      BY <1>1, <2>3 DEF s
  <1> QED
    BY <1>2, <1>3

\* The liquidation write-back of one account.
LEMMA LiquidationWritten ==
  ASSUME HaveRoom, RangeInv, HookInv, ScanInv, AdlInv, stage = "records", NEW i \in Ids
  PROVE  LET b == LiquidationWriteBack(i, live[i])
         IN /\ b \in Account /\ b.avg = live[i].avg
            /\ b.size \in {0, snap[i].size}
            /\ b.collateral \in -(Reach(Before, deposits) + PnlMax + DeltaMax)
                                ..(Reach(Before, deposits) + PnlMax + DeltaMax)
            /\ i \notin Liquidated => b = live[i]
  <1> DEFINE b == LiquidationWriteBack(i, live[i])
             c == Reach(Before, deposits)
             x == live[i].collateral
  <1>1. InRange(live[i], c + DeltaMax) /\ live[i] \in Account /\ scans # 0
    BY DEF RangeInv
  <1>2. c \in Nat /\ PnlMax \in Nat /\ DeltaMax \in Nat
    BY <1>1, HookRoom
  <1>3. live[i].size = snap[i].size
    BY DEF HookInv
  <1>4. CASE i \notin Liquidated
    <2>1. b = live[i]
      BY <1>4, RecordsOf DEF LiquidationWriteBack
    <2>2. x \in -(c + DeltaMax)..(c + DeltaMax)
      BY <1>1 DEF InRange
    <2> HIDE DEF b, c, x
    <2>3. x \in -(c + PnlMax + DeltaMax)..(c + PnlMax + DeltaMax)
      BY <1>2, <2>2
    <2> QED
      BY <1>1, <1>3, <2>1, <2>3 DEF b, c, x
  <1>5. CASE i \in Liquidated
    <2>1. PICK k \in 1..Len(report.records) : report.records[k].account = i
      BY <1>5 DEF Liquidated
    <2> DEFINE r == report.records[k]
    <2>2. b = LiquidationApplied(live[i], r)
      BY <1>5, <2>1, RecordsOf DEF LiquidationWriteBack
    <2>3. report.records \in Seq(Records) /\ r.residual <= c + PnlMax
      BY DEF ScanInv
    <2>4. r \in Records
      BY <2>3
    <2>5. r.residual \in Nat
      BY <2>4 DEF Records
    <2> HIDE DEF b, c, r
    <2>6. b = [live[i] EXCEPT !.size = 0, !.collateral = r.residual]
      BY <2>2 DEF LiquidationApplied
    <2>7. b \in Account /\ b.size = 0 /\ b.avg = live[i].avg /\ b.collateral = r.residual
      <3> DEFINE y == r.residual
                 z == live[i]
      <3>1. y \in Int /\ z \in Account /\ b = [z EXCEPT !.size = 0, !.collateral = y]
        BY <1>1, <2>5, <2>6
      <3> HIDE DEF y, z
      <3>3. b = [size |-> 0, avg |-> z.avg, collateral |-> y] /\ z.avg \in Nat
        BY <3>1 DEF Account
      <3>2. b \in Account /\ b.size = 0 /\ b.avg = z.avg /\ b.collateral = y
        BY <3>1, <3>3 DEF Account
      <3> QED
        BY <3>2 DEF y, z
    <2>8. r.residual \in -(c + PnlMax + DeltaMax)..(c + PnlMax + DeltaMax)
      BY <1>2, <2>3, <2>5
    <2> QED
      BY <1>5, <2>7, <2>8 DEF b, c
  <1> QED
    BY <1>4, <1>5

\* The ADL write-back of one account.
LEMMA AdlWritten ==
  ASSUME HaveRoom, RangeInv, HookInv, ScanInv, AdlInv, stage = "records", NEW i \in Ids
  PROVE  LET b == LiquidationWriteBack(i, live[i])
             a == AdlWriteBack(i, b)
         IN /\ InRange(a, Reach(scans, deposits))
            /\ i \notin Deleveraged => a = b
            /\ \A k \in 1..Len(adl) : adl[k].account = i =>
                 /\ a.collateral = b.collateral + adl[k].paid
                 /\ i \notin Liquidated => a.size = 0
  <1> USE LiquidationAssumption, ClearingAssumption
  <1> DEFINE b == LiquidationWriteBack(i, live[i])
             a == AdlWriteBack(i, b)
             c == Reach(Before, deposits)
             s == snap[i].size
             x == b.collateral
  <1>1. /\ b \in Account /\ b.avg = live[i].avg /\ b.size \in {0, s}
        /\ x \in -(c + PnlMax + DeltaMax)..(c + PnlMax + DeltaMax)
        /\ i \notin Liquidated => b = live[i]
    BY LiquidationWritten
  <1>2. scans # 0 /\ live[i].avg \in 0..MaxEntry
    BY DEF RangeInv, InRange
  <1>3. /\ c \in Nat /\ PnlMax \in Nat /\ DeltaMax \in Nat
        /\ Reach(scans, deposits) = c + 2 * PnlMax + DeltaMax
        /\ c + 2 * PnlMax + DeltaMax <= MaxI64
    BY <1>2, HookRoom
  <1>4. s \in -MaxSize..MaxSize /\ s \in Int
    BY DEF RangeInv, InRange, Account
  <1>5. live[i].size = s
    BY DEF HookInv
  <1> HIDE DEF b, c, s
  <1>6. i \notin Deleveraged => a = b
    BY RecordsOf DEF AdlWriteBack
  <1>7. CASE i \notin Deleveraged
    <2>1. a = b
      BY <1>6, <1>7
    <2>2. x \in -(c + 2 * PnlMax + DeltaMax)..(c + 2 * PnlMax + DeltaMax)
      <3> HIDE DEF x
      <3> QED
        BY <1>1, <1>3
    <2>3. b.size \in -MaxSize..MaxSize
      BY <1>1, <1>4
    <2> HIDE DEF a
    <2>4. InRange(a, Reach(scans, deposits))
      BY <1>1, <1>2, <1>3, <2>1, <2>2, <2>3 DEF InRange
    <2>5. \A k \in 1..Len(adl) : adl[k].account # i
      BY <1>7 DEF Deleveraged
    <2> QED
      BY <1>6, <2>4, <2>5 DEF a, b
  <1>8. CASE i \in Deleveraged
    <2>1. PICK k \in 1..Len(adl) : adl[k].account = i
      BY <1>8 DEF Deleveraged
    <2> DEFINE r == adl[k]
               p == r.paid
               y == b.size
    <2>2. a = AdlApplied(b, r)
      BY <1>8, <2>1, RecordsOf DEF AdlWriteBack
    <2>3. adl \in Seq(AdlRecords)
      BY DEF AdlInv
    <2>4. r \in AdlRecords
      BY <2>3
    <2>5. p \in Nat /\ r.haircut \in Nat
      BY <2>4 DEF AdlRecords
    <2>6. /\ r.close_order = CloseOrderSpec(snap[i])
          /\ r.gross = UnrealizedPnl(snap[i], mark) /\ r.gross = r.haircut + p
      BY <2>1 DEF AdlInv
    <2>7. UnrealizedPnl(snap[i], mark) \in -PnlMax..PnlMax
      BY AdlRoom
    <2>8. SideSign(r.close_order.side) * r.close_order.qty = -s
      BY <1>4, <2>6, ClosingMoves DEF s
    <2>9. p <= PnlMax
      BY <1>3, <2>5, <2>6, <2>7
    <2> HIDE DEF r, p, x, y
    <2>10. x + p \in -(c + 2 * PnlMax + DeltaMax)..(c + 2 * PnlMax + DeltaMax) /\ x + p \in Int
      BY <1>1, <1>3, <2>5, <2>9
    <2>11. Saturate(x + p) = x + p
      BY <1>3, <2>10 DEF Saturate
    <2>12. y \in Int /\ y + -s \in {0, -s} /\ y + -s \in -MaxSize..MaxSize
      BY <1>1, <1>4 DEF y
    <2>13. Saturate(y + -s) = y + -s
      BY <2>12 DEF Saturate, HaveRoom
    <2>14. a = [b EXCEPT !.size = y + -s, !.collateral = x + p]
      BY <2>2, <2>8, <2>11, <2>13 DEF AdlApplied, x, y, p
    <2>15. a \in Account /\ a.size = y + -s /\ a.avg = b.avg /\ a.collateral = x + p
      <3>1. y + -s \in Int
        BY <1>4, <2>12
      <3> QED
        BY <1>1, <2>10, <2>14, <3>1 DEF Account
    <2> HIDE DEF a
    <2>16. InRange(a, Reach(scans, deposits))
      BY <1>1, <1>2, <1>3, <2>10, <2>12, <2>15 DEF InRange
    <2>17. i \notin Liquidated => a.size = 0
      BY <1>1, <1>4, <1>5, <2>15 DEF y
    <2>18. \A l \in 1..Len(adl) : adl[l].account = i => l = k
      BY <2>1 DEF AdlInv
    <2>19. \A l \in 1..Len(adl) : adl[l].account = i =>
             a.collateral = b.collateral + adl[l].paid
      BY <2>15, <2>18 DEF x, p, r
    <2> QED
      BY <1>6, <1>8, <2>16, <2>17, <2>19 DEF a, b
  <1> QED
    BY <1>7, <1>8

LEMMA ApplyRecordsStep ==
  ASSUME HaveRoom, SettlementInv, ApplyRecords
  PROVE  SettlementInv'
  <1> USE LiquidationAssumption, SettlementAssumption
  <1>1. /\ stage = "records" /\ stage' = "idle"
        /\ live' = [i \in Ids |-> AdlWriteBack(i, LiquidationWriteBack(i, live[i]))]
        /\ UNCHANGED <<liqVars, deltas, arrived, deposits>>
    BY DEF ApplyRecords
  <1>2. UNCHANGED <<phase, snap, mark, scans, report, adl>>
    BY <1>1 DEF liqVars
  <1>3. RangeInv /\ FundingInv /\ HookInv /\ ScanInv /\ AdlInv
    BY DEF SettlementInv
  <1>4. /\ Before' = Before /\ phase = "idle"
        /\ Liquidated' = Liquidated /\ Deleveraged' = Deleveraged
    BY <1>1, <1>2, <1>3 DEF RangeInv, Before, Liquidated, Deleveraged
  <1>5. ASSUME NEW i \in Ids
        PROVE  /\ InRange(live'[i], Reach(scans, deposits)) /\ live'[i] \in Account
               /\ i \notin Liquidated \cup Deleveraged => live'[i] = live[i]
               /\ \A k \in 1..Len(adl) : adl[k].account = i /\ i \notin Liquidated =>
                    /\ live'[i].size = 0
                    /\ live'[i].collateral = live[i].collateral + adl[k].paid
    <2> DEFINE b == LiquidationWriteBack(i, live[i])
               a == AdlWriteBack(i, b)
    <2>1. live'[i] = a
      BY <1>1
    <2>2. i \notin Liquidated => b = live[i]
      BY <1>1, <1>3, LiquidationWritten
    <2>3. /\ InRange(a, Reach(scans, deposits))
          /\ i \notin Deleveraged => a = b
          /\ \A k \in 1..Len(adl) : adl[k].account = i =>
               /\ a.collateral = b.collateral + adl[k].paid
               /\ i \notin Liquidated => a.size = 0
      BY <1>1, <1>3, AdlWritten
    <2> HIDE DEF a, b
    <2> QED
      BY <2>1, <2>2, <2>3 DEF InRange
  <1>6. RangeInv'
    <2>1. live' \in [Ids -> Account]
      BY <1>1, <1>5
    <2> QED
      BY <1>1, <1>2, <1>3, <1>4, <1>5, <2>1 DEF RangeInv
  <1>7. FundingInv'
    BY <1>1, <1>2, <1>3 DEF FundingInv
  <1>8. ASSUME NEW i \in Ids
        PROVE  /\ live[i].size = snap[i].size
               /\ live[i].collateral = snap[i].collateral + deltas[i] + arrived[i]
               /\ snap[i].collateral \in Int /\ deltas[i] \in Int /\ arrived[i] \in Int
    <2>1. DeltaMax \in Nat
      BY Amounts
    <2>2. snap[i].collateral \in Int /\ deltas[i] \in Int /\ arrived[i] \in Int
      BY <1>3, <2>1 DEF RangeInv, Account
    <2> QED
      BY <1>1, <1>3, <2>2 DEF HookInv
  <1>9. WinnersArePaid'
    <2> SUFFICES ASSUME NEW k \in 1..Len(adl), adl[k].account \notin Liquidated
                 PROVE  /\ live'[adl[k].account].size = 0
                        /\ live'[adl[k].account].collateral
                             = snap[adl[k].account].collateral + deltas[adl[k].account]
                               + arrived[adl[k].account] + adl[k].paid
      BY <1>1, <1>2, <1>4 DEF WinnersArePaid
    <2>1. adl \in Seq(AdlRecords)
      BY <1>3 DEF AdlInv
    <2>2. adl[k] \in AdlRecords
      BY <2>1
    <2>3. adl[k].account \in Ids
      BY <2>2 DEF AdlRecords
    <2> QED
      BY <1>5, <1>8, <2>3
  <1>10. HookInv'
    <2>1. ASSUME NEW i \in Ids \ (Liquidated \cup Deleveraged)
          PROVE  /\ live'[i].size = snap[i].size
                 /\ live'[i].collateral = snap[i].collateral + deltas[i] + arrived[i]
      <3>1. live'[i] = live[i]
        BY <1>5
      <3> QED
        BY <1>8, <3>1
    <2> QED
      BY <1>1, <1>2, <1>4, <1>9, <2>1 DEF HookInv
  <1>11. ScanInv' /\ AdlInv'
    BY <1>1, <1>3, HookFrame
  <1> QED
    BY <1>6, <1>7, <1>10, <1>11 DEF SettlementInv

LEMMA StutterStep ==
  ASSUME SettlementInv, UNCHANGED <<liqVars, settlementVars>>
  PROVE  SettlementInv'
  <1>1. RangeInv /\ FundingInv /\ HookInv /\ ScanInv /\ AdlInv
    BY DEF SettlementInv
  <1>2. RangeInv'
    BY <1>1 DEF liqVars, settlementVars, RangeInv, Before
  <1>3. FundingInv'
    BY <1>1 DEF liqVars, settlementVars, FundingInv
  <1>4. HookInv'
    <2>1. /\ Liquidated' = Liquidated /\ Deleveraged' = Deleveraged
          /\ (HookDone' <=> HookDone)
      BY DEF liqVars, settlementVars, Liquidated, Deleveraged, HookDone
    <2> QED
      BY <1>1, <2>1 DEF liqVars, settlementVars, HookInv, WinnersArePaid
  <1>5. ScanInv' /\ AdlInv'
    <2>1. UNCHANGED liqVars /\ deposits' = deposits
      BY DEF settlementVars
    <2> QED
      BY <1>1, <2>1, HookFrame
  <1> QED
    BY <1>2, <1>3, <1>4, <1>5 DEF SettlementInv

LEMMA InitStep ==
  ASSUME SettlementInit
  PROVE  SettlementInv
  <1> USE LiquidationAssumption, SettlementAssumption, ClearingAssumption
  <1>1. /\ phase = "idle" /\ snap = [i \in Ids |-> Flat] /\ mark = 0 /\ next = 1
        /\ fund \in 0..MaxFund /\ before = fund /\ report = EmptyReport /\ adl = <<>>
        /\ remaining = 0 /\ scans = 0
    BY DEF SettlementInit, LiqInit
  <1>2. /\ live \in Snapshots /\ stage = "idle" /\ deltas = Zero /\ arrived = Zero /\ deposits = 0
    BY DEF SettlementInit
  <1>3. Before = 0
    BY <1>1 DEF Before
  <1>4. Reach(0, 0) = MaxCollateral + 1
    <2>1. 0 * Growth = 0
      BY Amounts
    <2> QED
      BY <2>1 DEF Reach
  <1>5. RangeInv
    <2>1. DeltaMax \in Nat
      BY Amounts
    <2>2. deltas \in [Ids -> (-DeltaMax)..DeltaMax] /\ arrived \in [Ids -> Int]
      BY <1>2, <2>1 DEF Zero
    <2>3. ASSUME NEW i \in Ids
          PROVE  live[i] \in Account /\ InRange(live[i], Reach(0, 0))
      <3> DEFINE z == live[i]
      <3>1. \/ z \in [size : {0}, avg : {0}, collateral : (-1)..MaxCollateral]
            \/ z \in [size : (-MaxSize..MaxSize) \ {0}, avg : 1..MaxEntry,
                      collateral : (-1)..MaxCollateral]
        BY <1>2 DEF Snapshots
      <3> HIDE DEF z
      <3>2. z \in Account
        BY <3>1 DEF Account
      <3>3. /\ z.size \in -MaxSize..MaxSize /\ z.avg \in 0..MaxEntry
            /\ z.collateral \in (-1)..MaxCollateral
        BY <3>1
      <3>4. z.collateral \in -(MaxCollateral + 1)..(MaxCollateral + 1)
        BY <3>3
      <3> QED
        BY <1>4, <3>2, <3>3, <3>4 DEF InRange, z
    <2>4. live \in [Ids -> Account]
      <3>1. DOMAIN live = Ids /\ live = [i \in Ids |-> live[i]]
        BY <1>2 DEF Snapshots
      <3> QED
        BY <2>3, <3>1
    <2>5. Flat \in Account /\ InRange(Flat, Reach(0, 0))
      BY <1>4 DEF Flat, Account, InRange
    <2> QED
      BY <1>1, <1>2, <1>3, <2>2, <2>3, <2>4, <2>5 DEF RangeInv
  <1>6. FundingInv
    <2>1. ASSUME NEW x \in Int, x = 0
          PROVE  TruncDiv(-(x * 0), RateScale) = 0
      <3> DEFINE y == -(x * 0)
      <3>1. y \in Int /\ y >= 0 /\ y <= 0
        BY <2>1
      <3> HIDE DEF y
      <3>2. y \div RateScale = 0
        BY <3>1
      <3>3. TruncDiv(y, RateScale) = 0
        BY <3>1, <3>2 DEF TruncDiv
      <3> QED
        BY <3>3 DEF y
    <2>2. ASSUME NEW i \in Ids
          PROVE  deltas[i] = TruncDiv(-(snap[i].size * 0), RateScale)
      <3>1. snap[i].size = 0 /\ snap[i].size \in Int /\ deltas[i] = 0
        BY <1>1, <1>2 DEF Flat, Zero
      <3> QED
        BY <2>1, <3>1
    <2> QED
      BY <2>2 DEF FundingInv
  <1>7. HookInv
    BY <1>1, <1>2 DEF HookInv, HookDone, WinnersArePaid
  <1>8. ScanInv
    <2>1. /\ report \in [deposits : Nat, withdrawals : Nat, deficit : Nat, records : Seq(Records)]
          /\ report.deposits = 0 /\ report.withdrawals = 0 /\ report.deficit = 0
          /\ report.records = <<>>
      BY <1>1 DEF EmptyReport
    <2>2. Len(report.records) = 0
      BY <2>1
    <2>3. TotalOf(Shortfalls) = 0
      <3>1. DOMAIN Shortfalls = 1..0
        BY <2>2 DEF Shortfalls
      <3> QED
        BY <3>1, TotalEmpty
    <2>4. \A k \in 1..Len(report.records) : FALSE
      BY <2>2
    <2>5. FeeMax \in Nat /\ ShortfallMax \in Nat
      BY Amounts
    <2>6. (next - 1) * FeeMax = 0 /\ (next - 1) * ShortfallMax = 0 /\ Before * (N * FeeMax) = 0
      BY <1>1, <1>3, <2>5
    <2>7. fund \in Nat /\ before \in 0..(MaxFund + Before * (N * FeeMax))
      BY <1>1, <2>6
    <2>8. fund = before + report.deposits - report.withdrawals
      BY <1>1, <2>1
    <2>9. /\ report.deposits <= (next - 1) * FeeMax
          /\ report.withdrawals + report.deficit <= (next - 1) * ShortfallMax
          /\ TotalOf(Shortfalls) = report.withdrawals + report.deficit
      BY <2>1, <2>3, <2>6
    <2>10. next \in 1..(N + 1) /\ next = 1 /\ scans = 0
      BY <1>1
    <2> QED
      BY <2>1, <2>4, <2>7, <2>8, <2>9, <2>10 DEF ScanInv
  <1>9. AdlInv
    <2>1. Len(adl) = 0 /\ adl \in Seq(AdlRecords)
      BY <1>1
    <2>2. \A k \in 1..Len(adl) : FALSE
      BY <2>1
    <2>3. Winners = {} /\ Candidates = {}
      BY <1>1 DEF Winners, Candidates, Eligible, Flat
    <2>4. InRankOrder
      BY <2>2 DEF InRankOrder
    <2>5. TotalOf(Grosses) = 0 /\ TotalOf(Haircuts) = 0
      <3>1. DOMAIN Grosses = 1..0 /\ DOMAIN Haircuts = 1..0
        BY <2>1 DEF Grosses, Haircuts
      <3> QED
        BY <3>1, TotalEmpty
    <2>6. SumOf(Pnls, Winners) = SumOf(Pnls, Candidates) + TotalOf(Grosses)
      BY <2>3, <2>5, SumEmpty
    <2>7. report.deficit = TotalOf(Haircuts) + remaining
      BY <1>1, <2>5 DEF EmptyReport
    <2> QED
      BY <1>1, <2>1, <2>2, <2>4, <2>6, <2>7 DEF AdlInv
  <1> QED
    BY <1>5, <1>6, <1>7, <1>8, <1>9 DEF SettlementInv

LEMMA NextStep ==
  ASSUME HaveRoom, SettlementInv, [SettlementNext]_<<liqVars, settlementVars>>
  PROVE  SettlementInv'
  <1>1. CASE \E m \in 0..MaxEntry, index \in {NoMark} \cup 1..MaxEntry, due \in BOOLEAN :
               TakeSnapshot(m, index, due)
    BY <1>1, TakeSnapshotStep
  <1>2. CASE TickOnSnapshot
    <2>1. stage = "tick" /\ UNCHANGED settlementVars
      BY <1>2 DEF TickOnSnapshot
    <2>2. CASE SkipAccount
      BY <2>1, <2>2, SkipStep
    <2>3. CASE CloseSolvent
      BY <2>1, <2>3, SolventStep
    <2>4. CASE CloseUnderwater
      BY <2>1, <2>4, UnderwaterStep
    <2>5. CASE EndScan
      BY <2>1, <2>5, EndScanStep
    <2>6. CASE \E i \in Ids : AdlClose(i)
      BY <2>1, <2>6, AdlCloseStep
    <2>7. CASE EndAdl
      BY <2>1, <2>7, EndAdlStep
    <2> QED
      BY <1>2, <2>2, <2>3, <2>4, <2>5, <2>6, <2>7 DEF TickOnSnapshot, TickStep
  <1>3. CASE ApplyFunding
    BY <1>3, ApplyFundingStep
  <1>4. CASE ApplyRecords
    BY <1>4, ApplyRecordsStep
  <1>5. CASE \E i \in Ids, amount \in {-1, 1} : EvmDeposit(i, amount)
    BY <1>5, DepositStep
  <1>6. CASE UNCHANGED <<liqVars, settlementVars>>
    BY <1>6, StutterStep
  <1> QED
    BY <1>1, <1>2, <1>3, <1>4, <1>5, <1>6 DEF SettlementNext

-----------------------------------------------------------------------------
(* Theorems.                                                               *)

\* The invariant holds in every behaviour of the hook whose amounts have room.
THEOREM SettlementInvHolds == HaveRoom => (SettlementSpec => []SettlementInv)
  <1> SUFFICES ASSUME HaveRoom PROVE SettlementSpec => []SettlementInv
    OBVIOUS
  <1>1. SettlementInit => SettlementInv
    BY InitStep
  <1>2. SettlementInv /\ [SettlementNext]_<<liqVars, settlementVars>> => SettlementInv'
    BY NextStep
  <1> QED
    BY <1>1, <1>2, PTL DEF SettlementSpec

\* Every shortfall is paid by the fund, reported as the deficit or cut from a
\* winner, and the fund neither goes below zero nor leaves i64 (the loop of
\* LiquidationScanner::scan, withdraw_shortfall, execute_adl).
THEOREM SettlementShortfallsAccounted ==
  HaveRoom => (SettlementSpec => []ShortfallsAccounted)
  <1> SUFFICES ASSUME HaveRoom PROVE SettlementSpec => []ShortfallsAccounted
    OBVIOUS
  <1> USE LiquidationAssumption, SettlementAssumption, ClearingAssumption
  <1>1. SettlementInv => ShortfallsAccounted
    <2> SUFFICES ASSUME SettlementInv PROVE ShortfallsAccounted
      OBVIOUS
    <2>1. RangeInv /\ ScanInv /\ AdlInv
      BY DEF SettlementInv
    <2>2. fund \in 0..MaxI64
      <3> DEFINE nf == N * FeeMax
      <3>1. fund \in 0..(MaxFund + scans * nf)
        BY <2>1, FundBound
      <3>2. FeeMax \in Nat /\ nf \in Nat /\ scans \in 0..MaxScans
        BY <2>1, Amounts DEF RangeInv
      <3>3. MaxFund + MaxScans * nf <= MaxI64
        BY DEF HaveRoom
      <3> HIDE DEF nf
      <3>4. scans * nf <= MaxScans * nf /\ scans * nf \in Nat /\ MaxScans * nf \in Nat
        BY <3>2, TimesMonotonic
      <3> QED
        BY <3>1, <3>3, <3>4
    <2>3. LiqTypeOK
      BY <2>1, <2>2 DEF RangeInv, ScanInv, AdlInv, LiqTypeOK
    <2>4. /\ fund = before + report.deposits - report.withdrawals
          /\ TotalOf([k \in 1..Len(report.records) |-> report.records[k].shortfall])
               = report.withdrawals + report.deficit
      BY <2>1 DEF ScanInv, Shortfalls
    <2>5. phase = "adl" =>
            report.deficit = TotalOf([k \in 1..Len(adl) |-> adl[k].haircut]) + remaining
      BY <2>1 DEF AdlInv, Haircuts
    <2> QED
      BY <2>3, <2>4, <2>5 DEF ShortfallsAccounted
  <1> QED
    BY <1>1, SettlementInvHolds, PTL

\* What the winners who were not cut have is not negative, and what was cut is
\* no more than what there was.
LEMMA CutsAndGrosses ==
  ASSUME HaveRoom, RangeInv, AdlInv
  PROVE  /\ SumOf(Pnls, Candidates) \in Nat
         /\ TotalOf(Haircuts) \in Int /\ TotalOf(Grosses) \in Int
         /\ TotalOf(Haircuts) <= TotalOf(Grosses)
         /\ remaining # 0 => TotalOf(Haircuts) = TotalOf(Grosses)
  <1> DEFINE n == Len(adl)
             h == Haircuts
             g == Grosses
  <1>1. adl \in Seq(AdlRecords) /\ remaining \in Nat
    BY DEF AdlInv
  <1>2. n \in Nat
    BY <1>1
  <1>3. \A k \in 1..n : adl[k] \in AdlRecords
    BY <1>1
  <1>4. /\ TotalOf(h) = SumOf(h, 1..n) /\ TotalOf(g) = SumOf(g, 1..n)
    BY DEF TotalOf, SumOf, Haircuts, Grosses
  <1>5. ASSUME NEW k \in 1..n
        PROVE  /\ h[k] \in Int /\ g[k] \in Int /\ h[k] <= g[k]
               /\ remaining # 0 => h[k] = g[k]
    <2>1. adl[k].haircut \in Nat /\ adl[k].paid \in Nat
      BY <1>3 DEF AdlRecords
    <2>2. /\ adl[k].gross = adl[k].haircut + adl[k].paid
          /\ adl[k].paid > 0 => remaining = 0
      BY DEF AdlInv
    <2>3. h[k] = adl[k].haircut /\ g[k] = adl[k].gross
      BY DEF Haircuts, Grosses
    <2> HIDE DEF h, g
    <2> QED
      BY <2>1, <2>2, <2>3
  <1> HIDE DEF h, g, n
  <1>6. IsFiniteSet(1..n)
    BY <1>2, FS_Interval
  <1>7. SumOf(h, 1..n) \in Int /\ SumOf(g, 1..n) \in Int /\ SumOf(h, 1..n) <= SumOf(g, 1..n)
    BY <1>5, <1>6, SumInt, SumMonotonic
  <1>8. remaining # 0 => SumOf(h, 1..n) = SumOf(g, 1..n)
    BY <1>5, <1>6, SumSame
  <1>9. SumOf(Pnls, Candidates) \in Nat
    <2> DEFINE z == [j \in Ids |-> 0]
    <2>1. Candidates \subseteq Ids
      BY DEF Candidates
    <2>2. IsFiniteSet(Candidates)
      BY <2>1, IdsFinite, FS_Subset
    <2>3. ASSUME NEW j \in Candidates
          PROVE  z[j] = 0 /\ Pnls[j] \in Int /\ z[j] \in Int /\ z[j] <= Pnls[j]
      <3>1. Pnls[j] = UnrealizedPnl(snap[j], mark) /\ z[j] = 0
        BY <2>1 DEF Pnls
      <3>2. UnrealizedPnl(snap[j], mark) \in Int
        BY <2>1, AdlRoom
      <3>3. UnrealizedPnl(snap[j], mark) > 0
        BY DEF Candidates, Eligible
      <3> HIDE DEF z
      <3> QED
        BY <3>1, <3>2, <3>3
    <2> HIDE DEF z
    <2>4. SumOf(z, Candidates) = 0
      BY <2>2, <2>3, SumZero
    <2>5. SumOf(z, Candidates) <= SumOf(Pnls, Candidates)
      BY <2>2, <2>3, SumMonotonic
    <2>6. SumOf(Pnls, Candidates) \in Int
      BY <2>2, <2>3, SumInt
    <2> QED
      BY <2>4, <2>5, <2>6
  <1> QED
    BY <1>4, <1>7, <1>8, <1>9 DEF h, g

\* ADL takes the winners in rank order, leaves unabsorbed exactly what the
\* deficit exceeds the PnL of all winners by, and only the last winner it cuts
\* keeps a part of its PnL (execute_adl, and the ranking before it).
THEOREM SettlementAdlAbsorbsDeficit ==
  HaveRoom => (SettlementSpec => []AdlAbsorbsDeficit)
  <1> SUFFICES ASSUME HaveRoom PROVE SettlementSpec => []AdlAbsorbsDeficit
    OBVIOUS
  <1>1. SettlementInv => AdlAbsorbsDeficit
    <2> SUFFICES ASSUME SettlementInv PROVE AdlAbsorbsDeficit
      OBVIOUS
    <2> DEFINE wealth == TotalOf([i \in Winners |-> UnrealizedPnl(snap[i], mark)])
    <2>1. RangeInv /\ ScanInv /\ AdlInv
      BY DEF SettlementInv
    <2>2. wealth = SumOf(Pnls, Candidates) + TotalOf(Grosses)
      <3> DEFINE f == [i \in Winners |-> UnrealizedPnl(snap[i], mark)]
      <3>1. Winners \subseteq Ids
        BY DEF Winners
      <3>2. IsFiniteSet(Winners)
        BY <3>1, IdsFinite, FS_Subset
      <3>3. \A i \in Winners : f[i] = Pnls[i]
        BY <3>1 DEF Pnls
      <3>4. wealth = SumOf(f, Winners)
        BY DEF TotalOf, SumOf
      <3> HIDE DEF f, wealth
      <3>5. SumOf(f, Winners) = SumOf(Pnls, Winners)
        BY <3>2, <3>3, SumSame
      <3>6. SumOf(Pnls, Winners) = SumOf(Pnls, Candidates) + TotalOf(Grosses)
        BY <2>1 DEF AdlInv
      <3> QED
        BY <3>4, <3>5, <3>6
    <2> HIDE DEF wealth
    <2>3. ASSUME phase = "idle", RunAdl
          PROVE  remaining = IF report.deficit > wealth THEN report.deficit - wealth ELSE 0
      <3>1. /\ report.deficit = TotalOf(Haircuts) + remaining
            /\ remaining = 0 \/ Candidates = {}
            /\ remaining \in Nat
        BY <2>1, <2>3 DEF AdlInv
      <3>2. /\ SumOf(Pnls, Candidates) \in Nat
            /\ TotalOf(Haircuts) \in Int /\ TotalOf(Grosses) \in Int
            /\ TotalOf(Haircuts) <= TotalOf(Grosses)
            /\ remaining # 0 => TotalOf(Haircuts) = TotalOf(Grosses)
        BY <2>1, CutsAndGrosses
      <3>3. remaining # 0 => SumOf(Pnls, Candidates) = 0
        BY <3>1, SumEmpty
      <3>4. CASE remaining = 0
        <4>1. ~(report.deficit > wealth)
          BY <2>2, <3>1, <3>2, <3>4
        <4> QED
          BY <3>4, <4>1
      <3>5. CASE remaining # 0
        <4>1. report.deficit > wealth /\ remaining = report.deficit - wealth
          BY <2>2, <3>1, <3>2, <3>3, <3>5
        <4> QED
          BY <4>1
      <3> QED
        BY <3>4, <3>5
    <2>4. ASSUME NEW k \in 1..Len(adl)
          PROVE  /\ adl[k].haircut > 0 /\ adl[k].paid >= 0
                 /\ adl[k].paid > 0 => k = Len(adl)
      <3>1. adl \in Seq(AdlRecords)
        BY <2>1 DEF AdlInv
      <3>2. adl[k] \in AdlRecords
        BY <3>1
      <3>3. adl[k].paid \in Nat
        BY <3>2 DEF AdlRecords
      <3>4. adl[k].paid >= 0
        BY <3>3
      <3> QED
        BY <2>1, <3>4 DEF AdlInv
    <2>5. InRankOrder
      BY <2>1 DEF AdlInv
    <2> QED
      BY <2>3, <2>4, <2>5 DEF AdlAbsorbsDeficit, wealth, Winners
  <1> QED
    BY <1>1, SettlementInvHolds, PTL

\* The hook's snapshot is stale when it is written back, but an account that
\* the tick did not close has its funding and every deposit made meanwhile
\* (the commit hook of bin/openhl against the deposit precompile).
THEOREM SettlementBystanders ==
  HaveRoom => (SettlementSpec => []BystandersKeepEveryDelta)
  <1> SUFFICES ASSUME HaveRoom PROVE SettlementSpec => []BystandersKeepEveryDelta
    OBVIOUS
  <1>1. SettlementInv => BystandersKeepEveryDelta
    <2> SUFFICES ASSUME SettlementInv PROVE BystandersKeepEveryDelta
      OBVIOUS
    <2>1. RangeInv /\ HookInv
      BY DEF SettlementInv
    <2>2. SettlementTypeOK
      <3>1. DeltaMax \in Nat
        BY Amounts
      <3>2. deltas \in [Ids -> Int]
        <4>1. deltas \in [Ids -> (-DeltaMax)..DeltaMax]
          BY <2>1 DEF RangeInv
        <4> QED
          BY <3>1, <4>1
      <3> QED
        BY <2>1, <3>2 DEF RangeInv, SettlementTypeOK
    <2> QED
      BY <2>1, <2>2 DEF HookInv, BystandersKeepEveryDelta
  <1> QED
    BY <1>1, SettlementInvHolds, PTL

\* A winner that only ADL closed ends flat, with its deposits, its funding and
\* what ADL left of its PnL (the ADL half of the write-back).
THEOREM SettlementWinnersArePaid ==
  HaveRoom => (SettlementSpec => []WinnersArePaid)
  <1> SUFFICES ASSUME HaveRoom PROVE SettlementSpec => []WinnersArePaid
    OBVIOUS
  <1>1. SettlementInv => WinnersArePaid
    BY DEF SettlementInv, HookInv
  <1> QED
    BY <1>1, SettlementInvHolds, PTL

\* While the positions balance, the funding settlements of a tick sum to zero
\* but for the truncation of each (settle_account over all accounts).
THEOREM SettlementFundingBalances ==
  HaveRoom /\ N # 0 => (SettlementSpec => []FundingBalances)
  <1> SUFFICES ASSUME HaveRoom, N # 0 PROVE SettlementSpec => []FundingBalances
    OBVIOUS
  <1>1. SettlementInv => FundingBalances
    BY FundingSums DEF SettlementInv
  <1> QED
    BY <1>1, SettlementInvHolds, PTL

=============================================================================
