---------------------------- MODULE BridgeProofs ----------------------------
(***************************************************************************)
(* Proofs about Bridge, for every value of its constants.  A step of the   *)
(* bridge is a step of the book or leaves it alone, so that the book's     *)
(* invariant (ClobProofs) holds under the two threads.  CoreInv says who   *)
(* holds which mutex, what a call under way has read and how much of the   *)
(* last order is filled; DeliveryInv where the fills are; LedgerInv what   *)
(* is in the accounts, as long as every amount fits an i64.                *)
(***************************************************************************)
EXTENDS ClobProofs, Bridge, SumTheorems

-----------------------------------------------------------------------------
(* One side of a fill.                                                     *)

LEMMA SaturateInt ==
  ASSUME NEW v \in Int
  PROVE  /\ Saturate(v) \in Int
         /\ Abs(v) <= MaxI64 => Saturate(v) = v
  BY ClearingAssumption DEF Saturate, Abs

LEMMA AbsInt ==
  ASSUME NEW v \in Int
  PROVE  Abs(v) \in Nat /\ v <= Abs(v) /\ -v <= Abs(v) /\ (Abs(v) = v \/ Abs(v) = -v)
  BY DEF Abs

LEMMA ClosedQty ==
  ASSUME NEW acct \in Account, NEW qty \in Nat \ {0}, NEW side \in Sides
  PROVE  /\ Closed(acct, qty, side) \in Nat /\ Closed(acct, qty, side) <= qty
         /\ SideSign(side) \in {1, -1} /\ Sign(acct.size) \in {1, 0, -1}
         /\ Sign(acct.size) * Closed(acct, qty, side) \in Int
         /\ Abs(Sign(acct.size) * Closed(acct, qty, side)) <= qty
<1>1. acct.size \in Int
  BY DEF Account
<1>2. QED
  BY <1>1 DEF Closed, Sign, SideSign, Abs

\* The entry price of the account after the fill, a price.
LEMMA NewAvgPrice ==
  ASSUME NEW acct \in Account, NEW price \in Prices, NEW qty \in Nat \ {0}, NEW side \in Sides
  PROVE  /\ NewAvg(acct, price, qty, side) \in Nat
         /\ acct.avg <= MaxPrice => NewAvg(acct, price, qty, side) <= MaxPrice
<1> DEFINE s == Abs(acct.size)
           num == s * acct.avg + qty * price
           d == s + qty
           r == num \div d
<1>1. acct.size \in Int /\ acct.avg \in Nat /\ s \in Nat
  BY DEF Account, Abs
<1>2. price \in Nat /\ price <= MaxPrice /\ MaxPrice \in Nat
  BY ClobAssumption DEF Prices
<1> HIDE DEF s
<1>3. s * acct.avg \in Nat /\ qty * price \in Nat /\ d \in Nat \ {0}
  BY <1>1, <1>2
<1>4. num \in Nat
  BY <1>3
<1> HIDE DEF num, d
<1>5. r \in Nat /\ r * d <= num
  BY <1>3, <1>4, DivNonNegative, DivIsFloor
<1> HIDE DEF r
<1>6. ASSUME acct.avg <= MaxPrice PROVE r <= MaxPrice
  <2>1. acct.avg * s <= MaxPrice * s /\ price * qty <= MaxPrice * qty
    BY <1>1, <1>2, <1>6, TimesMonotonic
  <2>2. /\ s * acct.avg = acct.avg * s /\ qty * price = price * qty
        /\ MaxPrice * d = MaxPrice * s + MaxPrice * qty
    BY <1>1, <1>2 DEF d
  <2>3. MaxPrice * s \in Int /\ MaxPrice * qty \in Int /\ r * d \in Int /\ MaxPrice * d \in Int
    BY <1>1, <1>2, <1>3, <1>5
  <2>4. num <= MaxPrice * d
    BY <2>1, <2>2, <2>3, <1>3 DEF num
  <2>5. r * d <= MaxPrice * d
    BY <2>3, <2>4, <1>4, <1>5
  <2>6. QED
    BY <2>5, <1>2, <1>3, <1>5, TimesCancels
<1>7. NewAvg(acct, price, qty, side) \in {acct.avg, price, r}
  BY DEF NewAvg, r, num, d, s
<1>8. QED
  BY <1>1, <1>2, <1>5, <1>6, <1>7

LEMMA RealizedInt ==
  ASSUME NEW acct \in Account, NEW price \in Prices, NEW qty \in Nat \ {0}, NEW side \in Sides
  PROVE  /\ Sign(acct.size) * Closed(acct, qty, side) * (price - acct.avg) \in Int
         /\ Realized(acct, price, qty, side) \in Int
         /\ acct.avg <= MaxPrice =>
              Abs(Sign(acct.size) * Closed(acct, qty, side) * (price - acct.avg)) <= qty * MaxPrice
<1> DEFINE c == Sign(acct.size) * Closed(acct, qty, side)
           x == price - acct.avg
<1>1. c \in Int /\ Abs(c) <= qty
  BY ClosedQty
<1>2. acct.avg \in Nat /\ price \in Nat /\ price <= MaxPrice /\ MaxPrice \in Nat
  BY ClobAssumption DEF Prices, Account
<1>3. x \in Int
  BY <1>2
<1> HIDE DEF c
<1>4. c * x \in Int
  BY <1>1, <1>3
<1>5. Realized(acct, price, qty, side) \in Int
  BY <1>4, SaturateInt DEF Realized, c
<1>6. ASSUME acct.avg <= MaxPrice PROVE Abs(c * x) <= qty * MaxPrice
  <2>1. -MaxPrice <= x /\ x <= MaxPrice
    BY <1>2, <1>6
  <2>2. -qty <= c /\ c <= qty
    BY <1>1 DEF Abs
  <2> HIDE DEF x
  <2>3. c * x \in -(qty * MaxPrice)..(qty * MaxPrice)
    BY <1>1, <1>2, <1>3, <2>1, <2>2, ProductBounds
  <2>4. qty * MaxPrice \in Int
    BY <1>2
  <2>5. QED
    BY <2>3, <2>4, <1>4 DEF Abs
<1>7. QED
  BY <1>4, <1>5, <1>6 DEF c

LEMMA FillKeepsType ==
  ASSUME NEW acct \in Account, NEW price \in Prices, NEW qty \in Nat \ {0}, NEW side \in Sides
  PROVE  ApplyFill(acct, price, qty, side) \in Account
<1>1. NewAvg(acct, price, qty, side) \in Nat
  BY NewAvgPrice
<1>2. acct.size \in Int /\ acct.collateral \in Int
  BY DEF Account
<1>3. NewSize(acct, qty, side) \in Int
  BY <1>2 DEF NewSize, SideSign
<1>4. acct.collateral + Realized(acct, price, qty, side) \in Int
  BY <1>2, RealizedInt
<1>5. QED
  BY <1>1, <1>3, <1>4, SaturateInt DEF ApplyFill, Account

\* Within an i64 nothing saturates: the position moves by the quantity, the
\* collateral by the realized PnL.
Fits(acct, B, C) ==
  acct \in Account /\ acct.avg <= MaxPrice /\ Abs(acct.size) <= B /\ Abs(acct.collateral) <= C

LEMMA FillExact ==
  ASSUME NEW acct, NEW price \in Prices, NEW qty \in Nat \ {0}, NEW side \in Sides,
         NEW B \in Nat, NEW C \in Nat, Fits(acct, B, C),
         B + qty <= MaxI64, C + qty * MaxPrice <= MaxI64
  PROVE  LET n == ApplyFill(acct, price, qty, side)
         IN /\ Fits(n, B + qty, C + qty * MaxPrice)
            /\ n.size = acct.size + SideSign(side) * qty
            /\ n.avg = NewAvg(acct, price, qty, side)
            /\ n.collateral = acct.collateral
                 + Sign(acct.size) * Closed(acct, qty, side) * (price - acct.avg)
<1> DEFINE n == ApplyFill(acct, price, qty, side)
           c == Sign(acct.size) * Closed(acct, qty, side) * (price - acct.avg)
           m == qty * MaxPrice
<1>1. /\ acct \in Account /\ acct.avg <= MaxPrice
      /\ Abs(acct.size) <= B /\ Abs(acct.collateral) <= C
      /\ acct.size \in Int /\ acct.collateral \in Int
      /\ MaxI64 \in Nat /\ MaxPrice \in Nat
  BY ClearingAssumption, ClobAssumption DEF Fits, Account
<1>2. c \in Int /\ Abs(c) <= m /\ m \in Nat
  BY <1>1, RealizedInt
<1>3. C + m <= MaxI64
  OBVIOUS
<1>4. n \in Account /\ n.avg = NewAvg(acct, price, qty, side) /\ n.avg <= MaxPrice
  BY <1>1, FillKeepsType, NewAvgPrice DEF ApplyFill
<1>5. n.size = Saturate(acct.size + SideSign(side) * qty)
  BY DEF ApplyFill, NewSize
<1>6. n.collateral = Saturate(acct.collateral + Saturate(c))
  BY DEF ApplyFill, Realized
<1> HIDE DEF n, c, m
<1>7. SideSign(side) = 1 \/ SideSign(side) = -1
  BY DEF SideSign
<1>8. /\ acct.size + SideSign(side) * qty \in Int
      /\ Abs(acct.size + SideSign(side) * qty) <= B + qty
  BY <1>1, <1>7 DEF Abs
<1>9. Abs(acct.size + SideSign(side) * qty) \in Int
  BY <1>8, AbsInt
<1>10. n.size = acct.size + SideSign(side) * qty
  BY <1>1, <1>5, <1>8, <1>9, SaturateInt
<1>11. Abs(c) \in Int /\ Abs(c) <= MaxI64
  BY <1>1, <1>2, <1>3, AbsInt
<1>12. Saturate(c) = c
  BY <1>2, <1>11, SaturateInt
<1>13. acct.collateral + c \in Int /\ Abs(acct.collateral + c) <= C + m
  BY <1>1, <1>2 DEF Abs
<1>14. Abs(acct.collateral + c) \in Int
  BY <1>13, AbsInt
<1>15. n.collateral = acct.collateral + c
  BY <1>1, <1>3, <1>2, <1>6, <1>12, <1>13, <1>14, SaturateInt
<1>16. Fits(n, B + qty, C + m)
  BY <1>4, <1>8, <1>10, <1>13, <1>15 DEF Fits
<1>17. QED
  BY <1>4, <1>10, <1>15, <1>16 DEF n, c, m

\* What the account is worth at its entry price.
Worth(acct) == acct.collateral - acct.avg * acct.size

\* The weighted mean, rounded down, moves the cost of the position by less
\* than its size.
LEMMA MeanRounds ==
  ASSUME NEW s \in Nat, NEW avg \in Nat, NEW qty \in Nat \ {0}, NEW price \in Nat
  PROVE  LET r == (s * avg + qty * price) \div (s + qty)
         IN /\ r \in Int
            /\ r * (s + qty) <= s * avg + qty * price
            /\ s * avg + qty * price - r * (s + qty) <= s + qty - 1
<1> DEFINE num == s * avg + qty * price
           d == s + qty
           r == num \div d
<1>1. s * avg \in Nat /\ qty * price \in Nat
  OBVIOUS
<1>2. num \in Nat /\ d \in Nat \ {0}
  BY <1>1
<1> HIDE DEF num, d
<1>3. r \in Int /\ r * d <= num /\ num < (r + 1) * d
  BY <1>2, DivIsFloor
<1> HIDE DEF r
<1>4. (r + 1) * d = r * d + d /\ r * d \in Int
  BY <1>2, <1>3
<1>5. num - r * d <= d - 1
  BY <1>2, <1>3, <1>4
<1>6. QED
  BY <1>3, <1>5 DEF r, num, d

\* Closing a position at a price realizes what it was worth at that price.
LEMMA ClosingArithmetic ==
  ASSUME NEW s \in Nat, NEW v \in Nat, NEW qty \in Nat, NEW price \in Nat,
         NEW k \in Nat, NEW w \in Nat,
         k = IF s <= qty THEN s ELSE qty,
         w = IF s = qty THEN v ELSE IF s < qty THEN price ELSE v
  PROVE  k * (price - v) - w * (s - qty) + v * s = price * qty
<1>1. CASE s = qty
  <2>1. k = s /\ w = v
    BY <1>1
  <2>2. s * (price - v) - v * (s - s) + v * s = price * s
    OBVIOUS
  <2>3. QED
    BY <1>1, <2>1, <2>2
<1>2. CASE s < qty
  <2>1. k = s /\ w = price
    BY <1>2
  <2>2. s * (price - v) - price * (s - qty) + v * s = price * qty
    OBVIOUS
  <2>3. QED
    BY <2>1, <2>2
<1>3. CASE s > qty
  <2>1. k = qty /\ w = v
    BY <1>3
  <2>2. qty * (price - v) - v * (s - qty) + v * s = price * qty
    OBVIOUS
  <2>3. QED
    BY <2>1, <2>2
<1>4. QED
  BY <1>1, <1>2, <1>3

\* A fill is paid for: what the account is worth changes by what the
\* contracts cost, up to the rounding of its entry price.
LEMMA FillIsPaidFor ==
  ASSUME NEW acct \in Account, NEW price \in Prices, NEW qty \in Nat \ {0}, NEW side \in Sides,
         NEW n \in Account,
         n.size = acct.size + SideSign(side) * qty,
         n.avg = NewAvg(acct, price, qty, side),
         n.collateral = acct.collateral
           + Sign(acct.size) * Closed(acct, qty, side) * (price - acct.avg)
  PROVE  /\ Worth(n) \in Int /\ Worth(acct) \in Int /\ RoundingOf(acct, qty, side) \in Nat
         /\ SideSign(side) * qty * price \in Int
         /\ Abs(Worth(n) - Worth(acct) + SideSign(side) * qty * price)
              <= RoundingOf(acct, qty, side)
<1>1. PICK z \in Int, v \in Nat, c \in Int : z = acct.size /\ v = acct.avg /\ c = acct.collateral
  BY DEF Account
<1>2. price \in Nat
  BY ClobAssumption DEF Prices
<1>3. n.size \in Int /\ n.avg \in Nat /\ n.collateral \in Int
  BY DEF Account
<1>4. n.avg * n.size \in Int /\ v * z \in Int /\ qty * price \in Nat
  BY <1>1, <1>2, <1>3
<1>5. Worth(n) \in Int /\ Worth(acct) \in Int
  BY <1>1, <1>3, <1>4 DEF Worth
<1>6. RoundingOf(acct, qty, side) \in Nat
  BY <1>1 DEF RoundingOf, Sign, SideSign, Abs
<1>7. CASE z = 0
  <2>1. Closed(acct, qty, side) = 0 /\ Sign(acct.size) = 0
    BY <1>1, <1>7 DEF Closed, Sign, SideSign
  <2>2. n.avg = price
    BY <1>1, <1>7 DEF NewAvg, NewSize, Sign, SideSign
  <2>3. n.collateral = c
    BY <1>1, <1>2, <2>1
  <2>4. Worth(acct) = c
    BY <1>1, <1>7 DEF Worth
  <2>5. CASE side = "Buy"
    <3>1. SideSign(side) = 1 /\ n.size = qty
      BY <2>5, <1>1, <1>7 DEF SideSign
    <3>2. Worth(n) = c - price * qty /\ SideSign(side) * qty * price = price * qty
      BY <1>2, <2>2, <2>3, <3>1 DEF Worth
    <3>3. price * qty \in Int
      BY <1>2
    <3>4. Worth(n) - Worth(acct) + SideSign(side) * qty * price = 0
      BY <1>1, <2>4, <3>2, <3>3
    <3>5. QED
      BY <1>5, <1>6, <3>2, <3>3, <3>4 DEF Abs
  <2>6. CASE side = "Sell"
    <3>1. SideSign(side) = -1 /\ n.size = -qty
      BY <2>6, <1>1, <1>7 DEF SideSign
    <3>2. Worth(n) = c + price * qty /\ SideSign(side) * qty * price = -(price * qty)
      BY <1>2, <2>2, <2>3, <3>1 DEF Worth
    <3>3. price * qty \in Int
      BY <1>2
    <3>4. Worth(n) - Worth(acct) + SideSign(side) * qty * price = 0
      BY <1>1, <2>4, <3>2, <3>3
    <3>5. QED
      BY <1>5, <1>6, <3>2, <3>3, <3>4 DEF Abs
  <2>7. QED
    BY <2>5, <2>6 DEF Sides
<1>8. CASE z # 0 /\ Sign(z) = SideSign(side)
  <2> DEFINE s == Abs(z)
             r == (s * v + qty * price) \div (s + qty)
  <2>1. Closed(acct, qty, side) = 0
    BY <1>1, <1>8 DEF Closed, Sign, SideSign
  <2>2. n.collateral = c
    BY <1>1, <1>2, <2>1 DEF Sign
  <2>3. s \in Nat /\ s > 0
    BY <1>1, <1>8 DEF Abs
  <2>4. n.avg = r
    BY <1>1, <1>8 DEF NewAvg, NewSize, Sign, SideSign
  <2> HIDE DEF s
  <2>5. /\ r \in Int /\ r * (s + qty) <= s * v + qty * price
        /\ s * v + qty * price - r * (s + qty) <= s + qty - 1
    BY <1>1, <1>2, <2>3, MeanRounds
  <2> HIDE DEF r
  <2>6. RoundingOf(acct, qty, side) = s + qty - 1
    BY <1>1, <1>8 DEF RoundingOf, s
  <2>7. r * (s + qty) \in Int /\ s * v \in Int
    BY <1>1, <2>3, <2>5
  <2>8. CASE side = "Buy"
    <3>1. SideSign(side) = 1 /\ z = s /\ n.size = s + qty
      BY <2>8, <1>1, <1>8 DEF SideSign, Sign, s, Abs
    <3>2. /\ Worth(n) = c - r * (s + qty) /\ Worth(acct) = c - s * v
          /\ SideSign(side) * qty * price = qty * price
      BY <1>1, <1>2, <2>2, <2>3, <2>4, <2>5, <3>1 DEF Worth
    <3>3. Worth(n) - Worth(acct) + SideSign(side) * qty * price
            = s * v + qty * price - r * (s + qty)
      BY <1>1, <1>4, <2>7, <3>2
    <3>4. Abs(Worth(n) - Worth(acct) + SideSign(side) * qty * price) <= s + qty - 1
      BY <1>4, <2>3, <2>5, <2>7, <3>3 DEF Abs
    <3>5. QED
      BY <1>4, <1>5, <1>6, <2>6, <3>2, <3>4
  <2>9. CASE side = "Sell"
    <3>1. SideSign(side) = -1 /\ z = -s /\ n.size = -(s + qty)
      BY <2>9, <1>1, <1>8 DEF SideSign, Sign, s, Abs
    <3>2. /\ Worth(n) = c + r * (s + qty) /\ Worth(acct) = c + s * v
          /\ SideSign(side) * qty * price = -(qty * price)
      <4>1. r * (-(s + qty)) = -(r * (s + qty)) /\ v * (-s) = -(s * v)
        BY <1>1, <2>3, <2>5
      <4>2. n.avg * n.size = -(r * (s + qty)) /\ acct.avg * acct.size = -(s * v)
        BY <1>1, <2>4, <3>1, <4>1
      <4>3. Worth(n) = c + r * (s + qty) /\ Worth(acct) = c + s * v
        BY <1>1, <2>2, <2>7, <4>2 DEF Worth
      <4>4. QED
        BY <1>2, <3>1, <4>3
    <3>3. Worth(n) - Worth(acct) + SideSign(side) * qty * price
            = -(s * v + qty * price - r * (s + qty))
      BY <1>1, <1>4, <2>7, <3>2
    <3>4. Abs(Worth(n) - Worth(acct) + SideSign(side) * qty * price) <= s + qty - 1
      BY <1>4, <2>3, <2>5, <2>7, <3>3 DEF Abs
    <3>5. QED
      BY <1>4, <1>5, <1>6, <2>6, <3>2, <3>4
  <2>10. QED
    BY <2>8, <2>9 DEF Sides
<1>9. CASE z # 0 /\ Sign(z) # SideSign(side)
  <2>1. Sign(z) = -SideSign(side) /\ Sign(z) \in {1, -1}
    BY <1>1, <1>9 DEF Sign, SideSign
  <2>2. RoundingOf(acct, qty, side) = 0
    BY <1>1, <1>9 DEF RoundingOf
  <2> DEFINE g == Sign(z)
             s == Abs(z)
             k == Closed(acct, qty, side)
  <2>3. s \in Nat /\ s > 0 /\ z = g * s
    BY <1>1, <1>9 DEF Abs, Sign
  <2>4. k = IF s <= qty THEN s ELSE qty
    BY <1>1, <2>1 DEF Closed
  <2>6. n.avg = IF s = qty THEN v ELSE IF s < qty THEN price ELSE v
    BY <1>1, <1>9, <2>1, <2>3 DEF NewAvg, NewSize, Sign, SideSign
  <2>7. n.collateral = c + g * k * (price - v)
    BY <1>1
  <2>8. g = 1 \/ g = -1
    BY <2>1
  <2>9. SideSign(side) = 1 \/ SideSign(side) = -1
    BY DEF SideSign
  <2>10. SideSign(side) = -g
    BY <2>1, <2>8, <2>9
  <2> HIDE DEF g, s, k
  <2>11. k \in Nat
    BY <2>3, <2>4
  <2>12. PICK w \in Nat : w = n.avg
    BY <1>3
  <2>13. k * (price - v) - w * (s - qty) + v * s = price * qty
    BY <1>1, <1>2, <2>3, <2>4, <2>6, <2>11, <2>12, ClosingArithmetic
  <2>14. v * s \in Int /\ price * qty \in Int /\ k * (price - v) \in Int /\ w * (s - qty) \in Int
    BY <1>1, <1>2, <2>3, <2>11
  <2>15. CASE g = 1
    <3>1. z = s /\ SideSign(side) = -1
      BY <2>3, <2>10, <2>15
    <3>2. n.size = s - qty
      BY <1>1, <3>1
    <3>3. n.collateral = c + k * (price - v)
      BY <1>1, <1>2, <2>7, <2>11, <2>15
    <3>4. Worth(n) = c + k * (price - v) - w * (s - qty) /\ Worth(acct) = c - v * s
      <4>1. n.avg * n.size = w * (s - qty) /\ acct.avg * acct.size = v * s
        BY <1>1, <2>12, <3>1, <3>2
      <4>2. QED
        BY <1>1, <2>14, <3>3, <4>1 DEF Worth
    <3>5. SideSign(side) * qty * price = -(price * qty)
      BY <1>2, <3>1
    <3>6. Worth(n) - Worth(acct) + SideSign(side) * qty * price = 0
      BY <1>1, <2>13, <2>14, <3>4, <3>5
    <3>7. QED
      BY <1>5, <1>6, <2>14, <3>5, <3>6 DEF Abs
  <2>16. CASE g = -1
    <3>1. z = -s /\ SideSign(side) = 1
      <4>1. SideSign(side) = 1
        <5>1. \A x \in {1, -1} : x = -(-1) => x = 1
          OBVIOUS
        <5>2. QED
          BY <2>9, <2>10, <2>16, <5>1
      <4>2. (-1) * s = -s
        BY <2>3
      <4>3. QED
        BY <2>3, <2>16, <4>1, <4>2
    <3>2. n.size = -(s - qty)
      BY <1>1, <2>3, <3>1
    <3>3. n.collateral = c - k * (price - v)
      BY <1>1, <1>2, <2>7, <2>11, <2>16
    <3>4. w * (-(s - qty)) = -(w * (s - qty)) /\ v * (-s) = -(v * s)
      <4>1. \A x \in Int, y \in Int : y * (-x) = -(y * x)
        OBVIOUS
      <4>2. s - qty \in Int /\ s \in Int /\ w \in Int /\ v \in Int
        BY <1>1, <2>3, <2>12
      <4>3. QED
        BY <4>1, <4>2
    <3>5. Worth(n) = c - k * (price - v) + w * (s - qty) /\ Worth(acct) = c + v * s
      <4>1. n.avg * n.size = -(w * (s - qty)) /\ acct.avg * acct.size = -(v * s)
        BY <1>1, <2>12, <3>1, <3>2, <3>4
      <4>2. QED
        BY <1>1, <2>14, <3>3, <4>1 DEF Worth
    <3>6. SideSign(side) * qty * price = price * qty
      BY <1>2, <3>1
    <3>7. Worth(n) - Worth(acct) + SideSign(side) * qty * price = 0
      BY <1>1, <2>13, <2>14, <3>5, <3>6
    <3>8. QED
      BY <1>5, <1>6, <2>14, <3>6, <3>7 DEF Abs
  <2>17. QED
    BY <2>8, <2>15, <2>16
<1>10. QED
  BY <1>7, <1>8, <1>9

-----------------------------------------------------------------------------
(* The ledger: accounts with their histories.                              *)

\* A fill as the bridge sees it.
AccountFill ==
  [by : Threads, maker : Accounts, taker : Accounts, price : Prices,
   qty : Nat \ {0}, side : Sides]

Ledgers ==
  [accts : [Accounts -> Account], cash : [Accounts -> Int], slack : [Accounts -> Nat]]

LedgerFits(l, B, C) == l \in Ledgers /\ \A a \in Accounts : Fits(l.accts[a], B, C)

\* Accounting by entry price agrees with the cash.
Balanced(l) == \A a \in Accounts : Abs(Worth(l.accts[a]) - l.cash[a]) <= l.slack[a]

LEMMA OppositeSides ==
  ASSUME NEW side \in Sides
  PROVE  Opposite(side) \in Sides /\ SideSign(Opposite(side)) = -SideSign(side)
         /\ SideSign(side) \in Int
  BY DEF Opposite, Sides, SideSign

LEMMA RoundingNat ==
  ASSUME NEW acct \in Account, NEW qty \in Nat \ {0}, NEW side \in Sides
  PROVE  RoundingOf(acct, qty, side) \in Nat
<1>1. acct.size \in Int
  BY DEF Account
<1>2. QED
  BY <1>1 DEF RoundingOf, Sign, SideSign, Abs

LEMMA LegParts ==
  ASSUME NEW l \in Ledgers, NEW a \in Accounts, NEW f \in AccountFill, NEW side \in Sides
  PROVE  LET m == ApplyLeg(l, a, f, side)
         IN /\ m \in Ledgers
            /\ m.accts[a] = ApplyFill(l.accts[a], f.price, f.qty, side)
            /\ m.cash[a] = l.cash[a] - SideSign(side) * f.qty * f.price
            /\ m.slack[a] = l.slack[a] + RoundingOf(l.accts[a], f.qty, side)
            /\ \A b \in Accounts \ {a} : /\ m.accts[b] = l.accts[b]
                                         /\ m.cash[b] = l.cash[b]
                                         /\ m.slack[b] = l.slack[b]
<1> DEFINE m == ApplyLeg(l, a, f, side)
           x == ApplyFill(l.accts[a], f.price, f.qty, side)
           y == l.cash[a] - SideSign(side) * f.qty * f.price
           z == l.slack[a] + RoundingOf(l.accts[a], f.qty, side)
<1>1. /\ l.accts \in [Accounts -> Account] /\ l.cash \in [Accounts -> Int]
      /\ l.slack \in [Accounts -> Nat]
  BY DEF Ledgers
<1>2. f.price \in Prices /\ f.price \in Nat /\ f.qty \in Nat \ {0}
  BY ClobAssumption DEF AccountFill, Prices
<1>3. x \in Account
  BY <1>1, <1>2, FillKeepsType
<1>4. y \in Int
  <2>1. SideSign(side) * f.qty * f.price \in Int
    BY <1>2 DEF SideSign
  <2>2. l.cash[a] \in Int
    BY <1>1
  <2>3. QED
    BY <2>1, <2>2
<1>5. z \in Nat
  BY <1>1, <1>2, RoundingNat
<1>6. m = [accts |-> [l.accts EXCEPT ![a] = x], cash |-> [l.cash EXCEPT ![a] = y],
           slack |-> [l.slack EXCEPT ![a] = z]]
  BY DEF ApplyLeg
<1> HIDE DEF m, x, y, z
<1>7. /\ m.accts = [l.accts EXCEPT ![a] = x] /\ m.cash = [l.cash EXCEPT ![a] = y]
      /\ m.slack = [l.slack EXCEPT ![a] = z]
  BY <1>6
<1>8. /\ m.accts \in [Accounts -> Account] /\ m.cash \in [Accounts -> Int]
      /\ m.slack \in [Accounts -> Nat]
  BY <1>1, <1>3, <1>4, <1>5, <1>7
<1>9. m \in Ledgers
  BY <1>6, <1>7, <1>8 DEF Ledgers
<1>10. /\ m.accts[a] = x /\ m.cash[a] = y /\ m.slack[a] = z
       /\ \A b \in Accounts \ {a} : /\ m.accts[b] = l.accts[b]
                                    /\ m.cash[b] = l.cash[b]
                                    /\ m.slack[b] = l.slack[b]
  BY <1>1, <1>7
<1>11. QED
  BY <1>9, <1>10 DEF m, x, y, z

LEMMA FitsMore ==
  ASSUME NEW acct, NEW B \in Nat, NEW C \in Nat, NEW D \in Nat, NEW E \in Nat,
         Fits(acct, B, C), B <= D, C <= E
  PROVE  Fits(acct, D, E)
<1>1. acct.size \in Int /\ acct.collateral \in Int
  BY DEF Fits, Account
<1>2. Abs(acct.size) \in Int /\ Abs(acct.collateral) \in Int
  BY <1>1, AbsInt
<1>3. QED
  BY <1>2 DEF Fits

LEMMA LegFits ==
  ASSUME NEW B \in Nat, NEW C \in Nat, NEW l, LedgerFits(l, B, C),
         NEW a \in Accounts, NEW f \in AccountFill, NEW side \in Sides,
         B + f.qty <= MaxI64, C + f.qty * MaxPrice <= MaxI64
  PROVE  LET m == ApplyLeg(l, a, f, side)
         IN /\ LedgerFits(m, B + f.qty, C + f.qty * MaxPrice)
            /\ Balanced(l) => Balanced(m)
            /\ m.accts[a].size = l.accts[a].size + SideSign(side) * f.qty
            /\ \A b \in Accounts \ {a} : m.accts[b].size = l.accts[b].size
<1> DEFINE m == ApplyLeg(l, a, f, side)
           price == f.price
           qty == f.qty
           M == qty * MaxPrice
<1>1. l \in Ledgers /\ \A b \in Accounts : Fits(l.accts[b], B, C)
  BY DEF LedgerFits
<1>2. /\ m \in Ledgers
      /\ m.accts[a] = ApplyFill(l.accts[a], price, qty, side)
      /\ m.cash[a] = l.cash[a] - SideSign(side) * qty * price
      /\ m.slack[a] = l.slack[a] + RoundingOf(l.accts[a], qty, side)
      /\ \A b \in Accounts \ {a} : /\ m.accts[b] = l.accts[b]
                                   /\ m.cash[b] = l.cash[b]
                                   /\ m.slack[b] = l.slack[b]
  BY <1>1, LegParts
<1>3. price \in Prices /\ price \in Nat /\ qty \in Nat \ {0} /\ MaxPrice \in Nat
  BY ClobAssumption DEF AccountFill, Prices
<1>4. M \in Nat
  BY <1>3
<1>5. Fits(l.accts[a], B, C)
  BY <1>1
<1>6. B + qty <= MaxI64 /\ C + qty * MaxPrice <= MaxI64
  OBVIOUS
<1> HIDE DEF m, price, qty
<1>7. /\ Fits(m.accts[a], B + qty, C + qty * MaxPrice)
      /\ m.accts[a].size = l.accts[a].size + SideSign(side) * qty
      /\ m.accts[a].avg = NewAvg(l.accts[a], price, qty, side)
      /\ m.accts[a].collateral = l.accts[a].collateral
           + Sign(l.accts[a].size) * Closed(l.accts[a], qty, side) * (price - l.accts[a].avg)
  BY <1>2, <1>3, <1>5, <1>6, FillExact
<1>8. ASSUME NEW b \in Accounts
      PROVE  Fits(m.accts[b], B + qty, C + M)
  <2>1. CASE b = a
    BY <1>7, <2>1
  <2>2. CASE b # a
    <3>1. m.accts[b] = l.accts[b] /\ Fits(l.accts[b], B, C)
      BY <1>1, <1>2, <2>2
    <3>2. B + qty \in Nat /\ C + M \in Nat /\ B <= B + qty /\ C <= C + M
      BY <1>3, <1>4
    <3> HIDE DEF M
    <3>3. QED
      BY <3>1, <3>2, FitsMore
  <2>3. QED
    BY <2>1, <2>2
<1>9. LedgerFits(m, B + qty, C + M)
  BY <1>2, <1>8 DEF LedgerFits
<1>10. \A b \in Accounts \ {a} : m.accts[b].size = l.accts[b].size
  BY <1>2
<1>11. ASSUME Balanced(l)
       PROVE  Balanced(m)
  <2>1. m.accts[a] \in Account /\ l.accts[a] \in Account
    BY <1>5, <1>7 DEF Fits
  <2>2. /\ Worth(m.accts[a]) \in Int /\ Worth(l.accts[a]) \in Int
        /\ RoundingOf(l.accts[a], qty, side) \in Nat
        /\ SideSign(side) * qty * price \in Int
        /\ Abs(Worth(m.accts[a]) - Worth(l.accts[a]) + SideSign(side) * qty * price)
             <= RoundingOf(l.accts[a], qty, side)
    BY <1>3, <1>7, <2>1, FillIsPaidFor
  <2>3. l.cash[a] \in Int /\ l.slack[a] \in Nat
    BY <1>1 DEF Ledgers
  <2>4. Abs(Worth(l.accts[a]) - l.cash[a]) <= l.slack[a]
    BY <1>11 DEF Balanced
  <2>5. Abs(Worth(m.accts[a]) - m.cash[a]) <= m.slack[a]
    <3>1. \A u, v, w, t \in Int, r, e \in Nat :
            Abs(u - v + w) <= r /\ Abs(v - t) <= e => Abs(u - (t - w)) <= e + r
      BY DEF Abs
    <3>2. QED
      BY <1>2, <2>2, <2>3, <2>4, <3>1, ZenonT(60)
  <2>6. QED
    BY <1>2, <1>11, <2>5 DEF Balanced
<1>12. QED
  BY <1>7, <1>9, <1>10, <1>11 DEF m, price, qty

LEMMA BothKeepType ==
  ASSUME NEW l \in Ledgers, NEW f \in AccountFill
  PROVE  ApplyBoth(l, f) \in Ledgers
<1>1. f.maker \in Accounts /\ f.taker \in Accounts /\ f.side \in Sides /\ Opposite(f.side) \in Sides
  BY OppositeSides DEF AccountFill
<1>2. ApplyLeg(l, f.maker, f, f.side) \in Ledgers
  BY <1>1, LegParts
<1>3. QED
  BY <1>1, <1>2, LegParts DEF ApplyBoth

LEMMA BothFit ==
  ASSUME NEW B \in Nat, NEW C \in Nat, NEW l, LedgerFits(l, B, C), NEW f \in AccountFill,
         B + 2 * f.qty <= MaxI64, C + 2 * (f.qty * MaxPrice) <= MaxI64
  PROVE  LET m == ApplyBoth(l, f)
         IN /\ LedgerFits(m, B + 2 * f.qty, C + 2 * (f.qty * MaxPrice))
            /\ Balanced(l) => Balanced(m)
            /\ \A a \in Accounts : m.accts[a].size = l.accts[a].size + Bought(f, a)
<1> DEFINE k == ApplyLeg(l, f.maker, f, f.side)
           m == ApplyBoth(l, f)
           qty == f.qty
           M == qty * MaxPrice
<1>1. /\ f.maker \in Accounts /\ f.taker \in Accounts /\ f.side \in Sides
      /\ Opposite(f.side) \in Sides /\ SideSign(Opposite(f.side)) = -SideSign(f.side)
      /\ SideSign(f.side) \in Int /\ qty \in Nat \ {0} /\ MaxPrice \in Nat /\ MaxI64 \in Nat
  BY OppositeSides, ClobAssumption, ClearingAssumption DEF AccountFill
<1>2. M \in Nat /\ B + 2 * qty <= MaxI64 /\ C + 2 * M <= MaxI64
  BY <1>1
<1>3. B + qty <= MaxI64 /\ C + M <= MaxI64
  <2> HIDE DEF M, qty
  <2>1. QED
    BY <1>1, <1>2
<1>4. /\ LedgerFits(k, B + qty, C + M)
      /\ Balanced(l) => Balanced(k)
      /\ k.accts[f.maker].size = l.accts[f.maker].size + SideSign(f.side) * qty
      /\ \A b \in Accounts \ {f.maker} : k.accts[b].size = l.accts[b].size
  BY <1>1, <1>3, LegFits, SMTT(30)
<1>5. m = ApplyLeg(k, f.taker, f, Opposite(f.side))
  BY DEF ApplyBoth
<1> HIDE DEF k, m
<1>6. /\ B + qty \in Nat /\ C + M \in Nat
      /\ (B + qty) + qty = B + 2 * qty /\ (C + M) + M = C + 2 * M
  <2> HIDE DEF M, qty
  <2>1. QED
    BY <1>1, <1>2
<1>7. (B + qty) + qty <= MaxI64 /\ (C + M) + M <= MaxI64
  BY <1>2, <1>6
<1>8. /\ LedgerFits(m, (B + qty) + qty, (C + M) + M)
      /\ Balanced(k) => Balanced(m)
      /\ m.accts[f.taker].size = k.accts[f.taker].size + SideSign(Opposite(f.side)) * qty
      /\ \A b \in Accounts \ {f.taker} : m.accts[b].size = k.accts[b].size
  <2>1. PICK D \in Nat, E \in Nat : D = B + qty /\ E = C + M
    BY <1>6
  <2>2. LedgerFits(k, D, E) /\ D + qty <= MaxI64 /\ E + M <= MaxI64
    BY <1>4, <1>7, <2>1
  <2>3. /\ LedgerFits(m, D + qty, E + M)
        /\ Balanced(k) => Balanced(m)
        /\ m.accts[f.taker].size = k.accts[f.taker].size + SideSign(Opposite(f.side)) * qty
        /\ \A b \in Accounts \ {f.taker} : m.accts[b].size = k.accts[b].size
    BY <1>1, <1>5, <2>2, LegFits, SMTT(30)
  <2>4. QED
    BY <2>1, <2>3
<1>9. ASSUME NEW a \in Accounts
      PROVE  m.accts[a].size = l.accts[a].size + Bought(f, a)
  <2>1. l.accts[a].size \in Int
    BY DEF LedgerFits, Ledgers, Account
  <2>2. PICK d \in Int : d = SideSign(f.side) * qty
    BY <1>1
  <2>3. SideSign(Opposite(f.side)) * qty = -d
    BY <1>1, <2>2
  <2>4. k.accts[a].size = l.accts[a].size + (IF f.maker = a THEN d ELSE 0)
    BY <1>4, <2>1, <2>2
  <2>5. m.accts[a].size = k.accts[a].size + (IF f.taker = a THEN -d ELSE 0)
    BY <1>8, <2>1, <2>3, <2>4
  <2>6. Bought(f, a) = (IF f.maker = a THEN d ELSE 0) - (IF f.taker = a THEN d ELSE 0)
    BY <2>2 DEF Bought
  <2>7. QED
    BY <2>1, <2>4, <2>5, <2>6
<1>10. LedgerFits(m, B + 2 * qty, C + 2 * M)
  BY <1>6, <1>8
<1>11. QED
  BY <1>4, <1>8, <1>9, <1>10 DEF m, qty, M

-----------------------------------------------------------------------------
(* The fills of one submit_order, one after the other.                     *)

Iterates(g, l, fs) ==
  g = [i \in 0..Len(fs) |-> IF i = 0 THEN l ELSE ApplyBoth(g[i - 1], fs[i])]

\* apply_fills_to_accounts is the last of its iterations.
LEMMA FillsIterate ==
  ASSUME NEW l, NEW fs, Len(fs) \in Nat
  PROVE  \E g : Iterates(g, l, fs) /\ ApplyFills(l, fs) = g[Len(fs)]
<1> DEFINE N == Len(fs)
           At(g, i) == g[i] = IF i = 0 THEN l ELSE ApplyBoth(g[i - 1], fs[i])
           Bad == {n \in 0..N : ~ \E g : \A i \in 0..n : At(g, i)}
<1>1. Bad = {}
  <2> SUFFICES ASSUME Bad # {} PROVE FALSE
    OBVIOUS
  <2>1. Bad \subseteq Nat
    OBVIOUS
  <2>2. PICK n \in Bad : \A e \in Bad : n <= e
    BY <2>1, LeastNumber
  <2>3. n \in 0..N /\ n \in Nat /\ ~ \E g : \A i \in 0..n : At(g, i)
    BY <2>2
  <2>4. CASE n = 0
    <3> DEFINE g == [i \in {0} |-> l]
    <3>1. \A i \in 0..0 : i = 0
      OBVIOUS
    <3>2. At(g, 0)
      OBVIOUS
    <3> HIDE DEF g, At
    <3>3. QED
      BY <2>3, <2>4, <3>1, <3>2
  <2>5. CASE n # 0
    <3>1. n - 1 \in 0..N /\ ~ (n <= n - 1) /\ n - 1 \in 0..(n - 1)
      BY <2>3, <2>5
    <3>2. n - 1 \notin Bad
      BY <2>2, <3>1
    <3>3. PICK g : \A i \in 0..(n - 1) : At(g, i)
      BY <3>1, <3>2
    <3> DEFINE h == [i \in 0..n |-> IF i = n THEN ApplyBoth(g[n - 1], fs[n]) ELSE g[i]]
    <3>4. ASSUME NEW i \in 0..n
          PROVE  At(h, i)
      <4>1. CASE i = n
        <5>1. h[n] = ApplyBoth(g[n - 1], fs[n]) /\ h[n - 1] = g[n - 1]
          BY <2>3, <3>1
        <5>2. QED
          BY <2>5, <4>1, <5>1
      <4>2. CASE i # n
        <5>1. i \in 0..(n - 1) /\ h[i] = g[i]
          BY <2>3, <4>2
        <5>2. At(g, i)
          BY <3>3, <5>1
        <5>3. CASE i = 0
          BY <5>1, <5>2, <5>3
        <5>4. CASE i # 0
          <6>1. i - 1 \in 0..n /\ i - 1 # n
            BY <2>3, <5>1, <5>4
          <6>2. h[i - 1] = g[i - 1]
            BY <6>1
          <6>3. QED
            BY <5>1, <5>2, <5>4, <6>2
        <5>5. QED
          BY <5>3, <5>4
      <4>3. QED
        BY <4>1, <4>2
    <3>5. QED
      BY <2>3, <3>4
  <2>6. QED
    BY <2>4, <2>5
<1>2. PICK g : \A i \in 0..N : At(g, i)
  <2>1. N \in 0..N /\ N \notin Bad
    BY <1>1
  <2>2. QED
    BY <2>1
<1> DEFINE G == [i \in 0..N |-> g[i]]
<1>3. \A i \in 0..N : G[i] = IF i = 0 THEN l ELSE ApplyBoth(G[i - 1], fs[i])
  <2> SUFFICES ASSUME NEW i \in 0..N
               PROVE  At(G, i)
    OBVIOUS
  <2>1. At(g, i) /\ G[i] = g[i]
    BY <1>2
  <2>2. CASE i = 0
    BY <2>1, <2>2
  <2>3. CASE i # 0
    <3>1. i - 1 \in 0..N
      BY <2>3
    <3>2. G[i - 1] = g[i - 1]
      BY <3>1
    <3>3. QED
      BY <2>1, <2>3, <3>2
  <2>4. QED
    BY <2>2, <2>3
<1>4. Iterates(G, l, fs)
  BY <1>3 DEF Iterates
<1>5. ApplyFills(l, fs) = (CHOOSE h : Iterates(h, l, fs))[Len(fs)]
  BY DEF ApplyFills, Iterates
<1>6. QED
  BY <1>4, <1>5

LEMMA FillsKeepType ==
  ASSUME NEW l \in Ledgers, NEW fs \in Seq(AccountFill)
  PROVE  ApplyFills(l, fs) \in Ledgers
<1>0. Len(fs) \in Nat
  OBVIOUS
<1>1. PICK g : Iterates(g, l, fs) /\ ApplyFills(l, fs) = g[Len(fs)]
  BY <1>0, FillsIterate
<1>2. \A i \in 0..Len(fs) : g[i] = IF i = 0 THEN l ELSE ApplyBoth(g[i - 1], fs[i])
  BY <1>1 DEF Iterates
<1> DEFINE Bad == {n \in 0..Len(fs) : g[n] \notin Ledgers}
<1>3. Bad = {}
  <2> SUFFICES ASSUME Bad # {} PROVE FALSE
    OBVIOUS
  <2>1. Bad \subseteq Nat
    BY <1>0
  <2>2. PICK n \in Bad : \A e \in Bad : n <= e
    BY <2>1, LeastNumber
  <2>3. n \in 0..Len(fs) /\ n \in Nat /\ g[n] \notin Ledgers
    BY <2>2, <1>0
  <2>4. n # 0
    BY <1>2, <2>3
  <2>5. n - 1 \in 0..Len(fs) /\ ~ (n <= n - 1) /\ n \in 1..Len(fs)
    BY <1>0, <2>3, <2>4
  <2>6. g[n - 1] \in Ledgers
    BY <2>2, <2>5
  <2>7. fs[n] \in AccountFill
    BY <2>5
  <2>8. g[n] = ApplyBoth(g[n - 1], fs[n])
    BY <1>2, <2>3, <2>4
  <2>9. QED
    BY <2>3, <2>6, <2>7, <2>8, BothKeepType
<1>4. QED
  BY <1>0, <1>1, <1>3

\* What the fills of submit_order among fs add to the position of a, and what
\* each of them adds.
NodeBought(fs, a) == NetBought(fs, NodeFills(fs), a)

BoughtBy(fs, a) ==
  [i \in 1..Len(fs) |-> IF fs[i].by = "node" THEN Bought(fs[i], a) ELSE 0]

LEMMA BoughtInt ==
  ASSUME NEW f \in AccountFill, NEW a
  PROVE  Bought(f, a) \in Int
<1>1. f.side \in Sides /\ f.qty \in Nat
  BY DEF AccountFill
<1>2. SideSign(f.side) * f.qty \in Int
  BY <1>1 DEF SideSign
<1>3. QED
  BY <1>2 DEF Bought

LEMMA NodeBoughtIsSum ==
  ASSUME NEW fs \in Seq(AccountFill), NEW a
  PROVE  /\ NodeBought(fs, a) = SumOf(BoughtBy(fs, a), 1..Len(fs))
         /\ \A i \in 1..Len(fs) : BoughtBy(fs, a)[i] \in Int
         /\ NodeBought(fs, a) \in Int
<1>1. DOMAIN fs = 1..Len(fs) /\ Len(fs) \in Nat
  OBVIOUS
<1>2. NodeBought(fs, a) = SumOf(BoughtBy(fs, a), 1..Len(fs))
  <2> DEFINE f == [i \in DOMAIN fs |-> IF i \in NodeFills(fs) THEN Bought(fs[i], a) ELSE 0]
  <2>1. NodeBought(fs, a) = SumOf(f, DOMAIN fs)
    BY DEF NodeBought, NetBought, SumOf
  <2>2. f = BoughtBy(fs, a)
    BY <1>1 DEF BoughtBy, NodeFills
  <2> HIDE DEF f
  <2>3. QED
    BY <1>1, <2>1, <2>2
<1>3. \A i \in 1..Len(fs) : BoughtBy(fs, a)[i] \in Int
  <2>1. \A i \in 1..Len(fs) : fs[i] \in AccountFill
    OBVIOUS
  <2>2. QED
    BY <2>1, BoughtInt DEF BoughtBy
<1>4. IsFiniteSet(1..Len(fs))
  BY <1>1, FS_Interval
<1>5. QED
  BY <1>2, <1>3, <1>4, SumInt

LEMMA NodeBoughtConcat ==
  ASSUME NEW fs \in Seq(AccountFill), NEW gs \in Seq(AccountFill), NEW a
  PROVE  NodeBought(fs \o gs, a) = NodeBought(fs, a) + NodeBought(gs, a)
<1> DEFINE hs == fs \o gs
           n == Len(fs)
           m == Len(gs)
<1>1. /\ n \in Nat /\ m \in Nat /\ hs \in Seq(AccountFill) /\ Len(hs) = n + m
      /\ \A i \in 1..n : hs[i] = fs[i]
      /\ \A i \in 1..m : hs[n + i] = gs[i]
  OBVIOUS
<1>2. /\ NodeBought(hs, a) = SumOf(BoughtBy(hs, a), 1..Len(hs))
      /\ NodeBought(fs, a) = SumOf(BoughtBy(fs, a), 1..n)
      /\ NodeBought(gs, a) = SumOf(BoughtBy(gs, a), 1..m)
      /\ \A i \in 1..n : BoughtBy(fs, a)[i] \in Int
      /\ \A i \in 1..m : BoughtBy(gs, a)[i] \in Int
  BY <1>1, NodeBoughtIsSum
<1> HIDE DEF hs, n, m
<1>3. ASSUME NEW i \in 1..n
      PROVE  BoughtBy(hs, a)[i] = BoughtBy(fs, a)[i]
  <2>1. i \in 1..(n + m)
    BY <1>1
  <2>2. QED
    BY <1>1, <2>1 DEF BoughtBy, n
<1>4. ASSUME NEW i \in 1..m
      PROVE  BoughtBy(hs, a)[n + i] = BoughtBy(gs, a)[i]
  <2>1. n + i \in 1..(n + m)
    BY <1>1
  <2>2. QED
    BY <1>1, <2>1 DEF BoughtBy, m
<1>5. SumOf(BoughtBy(hs, a), 1..(n + m)) = SumOf(BoughtBy(fs, a), 1..n) + SumOf(BoughtBy(gs, a), 1..m)
  <2>1. \A i \in 1..n : BoughtBy(fs, a)[i] \in Int /\ BoughtBy(hs, a)[i] = BoughtBy(fs, a)[i]
    BY <1>2, <1>3
  <2>2. \A i \in 1..m : BoughtBy(gs, a)[i] \in Int /\ BoughtBy(hs, a)[n + i] = BoughtBy(gs, a)[i]
    BY <1>2, <1>4
  <2>3. n \in Nat /\ m \in Nat
    BY <1>1
  <2>4. Joins(BoughtBy(hs, a), BoughtBy(fs, a), BoughtBy(gs, a), n, m)
    BY <2>1, <2>2 DEF Joins
  <2>5. QED
    BY <2>3, <2>4, SumConcat
<1>6. QED
  BY <1>1, <1>2, <1>5 DEF hs

LEMMA NodeBoughtNothing ==
  ASSUME NEW a
  PROVE  NodeBought(<<>>, a) = 0
<1>1. <<>> \in Seq(AccountFill) /\ Len(<<>>) = 0 /\ 1..0 = {}
  OBVIOUS
<1>2. QED
  BY <1>1, NodeBoughtIsSum, SumEmpty

\* Fills of the EVM's are in no account's position.
LEMMA NodeBoughtEvm ==
  ASSUME NEW fs \in Seq(AccountFill), NEW a, \A i \in 1..Len(fs) : fs[i].by # "node"
  PROVE  NodeBought(fs, a) = 0
<1>1. IsFiniteSet(1..Len(fs))
  <2>1. Len(fs) \in Nat
    OBVIOUS
  <2>2. QED
    BY <2>1, FS_Interval
<1>2. \A i \in 1..Len(fs) : BoughtBy(fs, a)[i] = 0
  BY DEF BoughtBy
<1>3. SumOf(BoughtBy(fs, a), 1..Len(fs)) = 0
  BY <1>1, <1>2, SumZero
<1>4. QED
  BY <1>3, NodeBoughtIsSum

QtyOf(fs) == [i \in 1..Len(fs) |-> fs[i].qty]

\* Within an i64, the fills of one submit_order move every position by what
\* they bought for it, and keep the books balanced.
LEMMA FillsFit ==
  ASSUME NEW B \in Nat, NEW C \in Nat, NEW l, LedgerFits(l, B, C),
         NEW fs \in Seq(AccountFill), \A i \in 1..Len(fs) : fs[i].by = "node",
         NEW Q \in Nat, SumOf(QtyOf(fs), 1..Len(fs)) <= Q,
         B + 2 * Q <= MaxI64, C + 2 * (Q * MaxPrice) <= MaxI64
  PROVE  LET m == ApplyFills(l, fs)
         IN /\ LedgerFits(m, B + 2 * Q, C + 2 * (Q * MaxPrice))
            /\ Balanced(l) => Balanced(m)
            /\ \A a \in Accounts : m.accts[a].size = l.accts[a].size + NodeBought(fs, a)
<1> DEFINE N == Len(fs)
           q(k) == SumOf(QtyOf(fs), 1..k)
<1>0. N \in Nat /\ MaxPrice \in Nat /\ MaxI64 \in Nat
  BY ClobAssumption, ClearingAssumption
<1>1. PICK g : Iterates(g, l, fs) /\ ApplyFills(l, fs) = g[N]
  BY <1>0, FillsIterate
<1>2. \A i \in 0..N : g[i] = IF i = 0 THEN l ELSE ApplyBoth(g[i - 1], fs[i])
  BY <1>1 DEF Iterates
<1>3. \A i \in 1..N : fs[i] \in AccountFill /\ fs[i].qty \in Nat \ {0} /\ QtyOf(fs)[i] = fs[i].qty
  <2>1. \A i \in 1..N : fs[i] \in AccountFill
    OBVIOUS
  <2>2. \A f \in AccountFill : f.qty \in Nat \ {0}
    BY DEF AccountFill
  <2>3. QED
    BY <2>1, <2>2 DEF QtyOf
<1>4. ASSUME NEW k \in 0..N
      PROVE  q(k) \in Nat /\ q(k) <= Q
  <2>1. q(k) \in Nat /\ q(N) \in Nat /\ q(k) <= q(N)
    BY <1>0, <1>3, SumPrefix
  <2>2. QED
    BY <2>1
<1>5. ASSUME NEW k \in 1..N
      PROVE  q(k) = q(k - 1) + fs[k].qty
  <2>1. k \in Nat /\ k > 0 /\ \A i \in 1..k : i \in 1..N
    BY <1>0
  <2>2. \A i \in 1..k : QtyOf(fs)[i] \in Int
    BY <1>3, <2>1
  <2>3. QED
    BY <1>3, <2>1, <2>2, SumLast
<1> DEFINE part(k, a) == SumOf(BoughtBy(fs, a), 1..k)
<1>6. ASSUME NEW k \in 1..N, NEW a
      PROVE  /\ part(k, a) = part(k - 1, a) + Bought(fs[k], a)
             /\ part(k - 1, a) \in Int /\ Bought(fs[k], a) \in Int
  <2>1. k \in Nat /\ k > 0 /\ k - 1 \in Nat /\ \A i \in 1..k : i \in 1..N
    BY <1>0
  <2>2. \A i \in 1..k : BoughtBy(fs, a)[i] \in Int
    BY <2>1, NodeBoughtIsSum
  <2>3. BoughtBy(fs, a)[k] = Bought(fs[k], a)
    BY DEF BoughtBy
  <2>4. part(k, a) = part(k - 1, a) + BoughtBy(fs, a)[k]
    BY <2>1, <2>2, SumLast
  <2>50. k - 1 \in Int /\ 1 \in Int
    BY <2>1
  <2>51. IsFiniteSet(1..(k - 1))
    BY <2>50, FS_Interval
  <2>52. \A i \in 1..(k - 1) : i \in 1..k
    BY <2>1
  <2>5. IsFiniteSet(1..(k - 1)) /\ \A i \in 1..(k - 1) : i \in 1..k
    BY <2>51, <2>52
  <2>6. part(k - 1, a) \in Int
    BY <2>2, <2>5, SumInt
  <2>7. QED
    BY <1>3, <2>3, <2>4, <2>6, BoughtInt
<1> HIDE DEF q, part
<1> DEFINE Good(k) == /\ LedgerFits(g[k], B + 2 * q(k), C + 2 * (q(k) * MaxPrice))
                      /\ Balanced(l) => Balanced(g[k])
                      /\ \A a \in Accounts : g[k].accts[a].size = l.accts[a].size + part(k, a)
           Bad == {k \in 0..N : ~ Good(k)}
<1>7. \A a \in Accounts : l.accts[a].size \in Int
  BY DEF LedgerFits, Ledgers, Account
<1>8. Good(0)
  <2>1. g[0] = l
    BY <1>0, <1>2
  <2>2. 1..0 = {}
    OBVIOUS
  <2>3. q(0) = 0 /\ \A a \in Accounts : part(0, a) = 0
    BY <2>2, SumEmpty DEF q, part
  <2>4. B + 2 * q(0) = B /\ C + 2 * (q(0) * MaxPrice) = C
    BY <1>0, <2>3
  <2>5. QED
    BY <1>7, <2>1, <2>3, <2>4
<1>9. ASSUME NEW k \in 1..N, Good(k - 1)
      PROVE  Good(k)
  <2> DEFINE f == fs[k]
             c == q(k - 1)
             b == f.qty
  <2>1. k - 1 \in 0..N /\ k \in 0..N /\ k # 0
    BY <1>0
  <2>2. c \in Nat /\ b \in Nat \ {0} /\ q(k) = c + b /\ q(k) \in Nat /\ q(k) <= Q
    BY <1>3, <1>4, <1>5, <2>1
  <2>3. g[k] = ApplyBoth(g[k - 1], f) /\ f \in AccountFill
    BY <1>2, <1>3, <2>1
  <2> HIDE DEF f, b, c
  <2>4. c * MaxPrice \in Nat /\ b * MaxPrice \in Nat /\ Q * MaxPrice \in Nat
    BY <1>0, <2>2
  <2>5. (c + b) * MaxPrice = c * MaxPrice + b * MaxPrice
    BY <1>0, <2>2
  <2>6. (c + b) * MaxPrice <= Q * MaxPrice
    BY <1>0, <2>2, TimesMonotonic
  <2>70. PICK x \in Nat, y \in Nat, z \in Nat, t \in Nat :
           /\ x = c * MaxPrice /\ y = b * MaxPrice /\ z = Q * MaxPrice /\ t = (c + b) * MaxPrice
    BY <2>4, <2>5
  <2>71. B + 2 * c \in Nat /\ C + 2 * x \in Nat
    BY <2>2
  <2>7. PICK D \in Nat, E \in Nat : D = B + 2 * c /\ E = C + 2 * (c * MaxPrice)
    BY <2>70, <2>71
  <2>8. D + 2 * b <= MaxI64 /\ D + 2 * b = B + 2 * (c + b)
    BY <1>0, <2>2, <2>7
  <2>9. /\ E + 2 * (b * MaxPrice) = C + 2 * ((c + b) * MaxPrice)
        /\ E + 2 * (b * MaxPrice) <= MaxI64
    <3>1. t = x + y /\ t <= z /\ E = C + 2 * x /\ C + 2 * z <= MaxI64
      BY <2>5, <2>6, <2>7, <2>70
    <3>2. E + 2 * y = C + 2 * t /\ E + 2 * y <= MaxI64
      BY <1>0, <3>1
    <3>3. QED
      BY <2>70, <3>2
  <2>10. LedgerFits(g[k - 1], D, E)
    BY <1>9, <2>7 DEF c
  <2>11. /\ LedgerFits(g[k], D + 2 * b, E + 2 * (b * MaxPrice))
         /\ Balanced(g[k - 1]) => Balanced(g[k])
         /\ \A a \in Accounts : g[k].accts[a].size = g[k - 1].accts[a].size + Bought(f, a)
    BY <2>3, <2>8, <2>9, <2>10, BothFit, SMTT(30) DEF b
  <2>12. LedgerFits(g[k], B + 2 * q(k), C + 2 * (q(k) * MaxPrice))
    BY <2>2, <2>8, <2>9, <2>11
  <2>13. ASSUME NEW a \in Accounts
         PROVE  g[k].accts[a].size = l.accts[a].size + part(k, a)
    <3>1. g[k - 1].accts[a].size = l.accts[a].size + part(k - 1, a)
      BY <1>9
    <3>2. part(k, a) = part(k - 1, a) + Bought(f, a) /\ part(k - 1, a) \in Int /\ Bought(f, a) \in Int
      BY <1>6 DEF f
    <3>3. QED
      BY <1>7, <2>11, <3>1, <3>2
  <2>14. QED
    BY <1>9, <2>11, <2>12, <2>13
<1> HIDE DEF Good
<1>10. Bad = {}
  <2> SUFFICES ASSUME Bad # {} PROVE FALSE
    OBVIOUS
  <2>1. Bad \subseteq Nat
    BY <1>0
  <2>2. PICK n \in Bad : \A e \in Bad : n <= e
    BY <2>1, LeastNumber
  <2>3. n \in 0..N /\ n \in Nat /\ ~ Good(n)
    BY <2>2, <1>0
  <2>4. n # 0
    BY <1>8, <2>3
  <2>5. n - 1 \in 0..N /\ ~ (n <= n - 1) /\ n \in 1..N
    BY <1>0, <2>3, <2>4
  <2>6. Good(n - 1)
    BY <2>2, <2>5
  <2>7. QED
    BY <1>9, <2>3, <2>5, <2>6
<1>11. Good(N)
  BY <1>0, <1>10
<1>12. \A a \in Accounts : part(N, a) = NodeBought(fs, a)
  BY NodeBoughtIsSum DEF part
<1>13. /\ \A a \in Accounts : g[N].accts[a].size = l.accts[a].size + NodeBought(fs, a)
       /\ Balanced(l) => Balanced(g[N])
       /\ LedgerFits(g[N], B + 2 * q(N), C + 2 * (q(N) * MaxPrice))
  BY <1>11, <1>12 DEF Good
<1>14. LedgerFits(g[N], B + 2 * Q, C + 2 * (Q * MaxPrice))
  <2>1. q(N) \in Nat /\ q(N) <= Q
    BY <1>0, <1>4
  <2>2. q(N) * MaxPrice <= Q * MaxPrice
    BY <1>0, <2>1, TimesMonotonic
  <2>3. q(N) * MaxPrice \in Nat /\ Q * MaxPrice \in Nat
    BY <1>0, <2>1
  <2>4. PICK D \in Nat, E \in Nat : D = B + 2 * q(N) /\ E = C + 2 * (q(N) * MaxPrice)
    BY <2>1, <2>3, SMTT(30)
  <2>50. PICK x \in Nat : x = Q * MaxPrice
    BY <2>3
  <2>51. B + 2 * Q \in Nat /\ C + 2 * x \in Nat
    OBVIOUS
  <2>5. PICK G \in Nat, H \in Nat : G = B + 2 * Q /\ H = C + 2 * (Q * MaxPrice)
    BY <2>50, <2>51
  <2>6. D <= G /\ E <= H
    BY <2>1, <2>2, <2>3, <2>4, <2>5, SMTT(30)
  <2>7. LedgerFits(g[N], D, E)
    BY <1>13, <2>4
  <2>8. LedgerFits(g[N], G, H)
    BY <2>6, <2>7, FitsMore DEF LedgerFits
  <2>9. QED
    BY <2>5, <2>8
<1>15. QED
  BY <1>1, <1>13, <1>14

-----------------------------------------------------------------------------
(* The invariants.                                                         *)

\* The threads and the mutexes: submit_order keeps the book's mutex until the
\* accounts are written, place_order until Book::submit returns, the withdraw
\* precompile the accounts' mutex while it reads its mark; a matching loop
\* runs under the book's mutex.
LockInv ==
  /\ clobLock = "node" <=> pc["node"] \in {"matching", "push", "apply"}
  /\ clobLock = "evm" <=> pc["evm"] = "matching"
  /\ accountsLock = "evm" <=> pc["evm"] = "mark"
  /\ matching <=> pc["node"] = "matching" \/ pc["evm"] = "matching"
  /\ pc["node"] # "mark"
  /\ pc["evm"] \notin {"apply", "debit", "install"}

IsRequest(r) == r.account \in Accounts /\ r.amount \in 1..MaxAmount

\* The arguments of a withdrawal that is under way, and its mark.
RequestInv ==
  /\ DOMAIN request = Threads /\ DOMAIN held = Threads
  /\ pc["evm"] = "mark" => IsRequest(request["evm"])
  /\ pc["node"] = "debit" => IsRequest(request["node"]) /\ held["node"] \in Int

\* Every fill of the last submit is one of the order submitted last, and the
\* fills together are no more than that order.
FilledQty == SumOf([i \in 1..Len(fills) |-> fills[i].qty], 1..Len(fills))

FillsInv ==
  /\ Len(log) >= 2 /\ Len(log) <= MaxOrders
  /\ \A i \in 1..Len(fills) : fills[i].taker = Len(log) /\ fills[i].qty > 0
  /\ FilledQty + (IF matching THEN remaining ELSE 0) <= MaxQty

HistoryTypes == cash \in [Accounts -> Int] /\ slack \in [Accounts -> Nat]

\* The bridge's own state.
CoreInv == BridgeTypeOK /\ HistoryTypes /\ LockInv /\ RequestInv /\ FillsInv

\* Where the fills are: all that were executed are attached, pending, about to
\* be pushed by the EVM, or by submit_order.
DeliveryInv ==
  /\ executed \in Seq(AccountFill) /\ attached \in Seq(AccountFill)
  /\ pending \in Seq(AccountFill) /\ unsent \in Seq(AccountFill)
  /\ pc["evm"] # "push" => unsent = <<>>
  /\ \A f \in AccountFill :
       Occurrences(f, executed) =
         Occurrences(f, attached) + Occurrences(f, pending)
           + Occurrences(f, unsent) + Occurrences(f, InFlight)

\* Orders whose fills are in the accounts, or never will be: all but the one
\* of a submit_order under way.
Settled == IF pc["node"] \in {"matching", "push", "apply"} THEN Len(log) - 1
           ELSE Len(log)

\* Calls whose deposit or withdrawal is in the accounts.
Moved == calls - (IF pc["evm"] = "mark" THEN 1 ELSE 0)
               - (IF pc["node"] = "debit" THEN 1 ELSE 0)

SizeBound(n) == 1 + 2 * MaxQty * n
CollateralBound(n, m) == 2 * MaxQty * MaxPrice * n + MaxAmount * m

\* What the fills of a submit_order under way have still to do.
Outstanding(a) ==
  IF pc["node"] \in {"push", "apply"} THEN NodeBought(BridgeFills("node"), a) ELSE 0

\* No amount a behaviour leads to is beyond an i64: an account may be both
\* sides of every fill.
HaveRoom ==
  /\ SizeBound(MaxOrders) <= MaxI64
  /\ CollateralBound(MaxOrders, MaxCalls) <= MaxI64

-----------------------------------------------------------------------------
(* The bridge and the book: a step of the bridge is a step of the book, or *)
(* leaves it alone.                                                        *)

\* What the code calls on the book is Book::submit, and nothing else.
LEMMA BridgeStepIsBookStep == BridgeNext => [Next]_vars
<1> SUFFICES ASSUME BridgeNext PROVE [Next]_vars
  OBVIOUS
<1>1. CASE \E t \in Threads : MatchStep(t)
  BY <1>1 DEF MatchStep, Next
<1>2. CASE BridgeStep
  <2>1. CASE \E o \in NodeOrders : CallSubmit("node", o)
    BY <2>1 DEF CallSubmit, NodeOrders, Next
  <2>2. CASE \E o \in EvmOrders : CallSubmit("evm", o)
    BY <2>2 DEF CallSubmit, EvmOrders, Next
  <2>3. CASE \E t \in Threads : SubmitDone(t)
    BY <2>3 DEF SubmitDone, Next
  <2>4. CASE UNCHANGED vars
    BY <2>4
  <2>5. QED
    BY <1>2, <2>1, <2>2, <2>3, <2>4 DEF BridgeStep, Health, HealthRead, NodePush,
       NodeApply, EvmPush, Deposit, EvmWithdraw, EvmDebit, NodeWithdraw, NodeDebit,
       SetIndex, InstallIndex, BuildPayload
<1>3. QED
  BY <1>1, <1>2 DEF BridgeNext

\* The two parties of the seeds.
LEMMA PairParties == Pair[1] \in Accounts /\ Pair[2] \in Accounts /\ Pair[1] # Pair[2]
<1>1. PICK a \in Accounts, b \in Accounts : a # b
  BY BridgeAssumption
<1>2. <<a, b>> \in Accounts \X Accounts /\ <<a, b>>[1] # <<a, b>>[2]
  BY <1>1
<1>3. \E x \in Accounts \X Accounts : x[1] # x[2]
  BY <1>2
<1>4. Pair \in Accounts \X Accounts /\ Pair[1] # Pair[2]
  BY <1>3 DEF Pair
<1>5. QED
  BY <1>4

\* The mark orders of the boot are a book that satisfies the invariant.
LEMMA SeedIInv == SeedMarkOrders => IInv
<1> SUFFICES ASSUME SeedMarkOrders PROVE IInv
  OBVIOUS
<1> DEFINE i0 == CHOOSE i \in OrderIds : TRUE
           o1 == [id |-> i0, account |-> Pair[1], side |-> "Buy",
                  qty |-> MaxQty, type |-> "Limit", price |-> 0]
           o2 == [id |-> i0, account |-> Pair[2], side |-> "Sell",
                  qty |-> MaxQty, type |-> "Limit", price |-> MaxPrice]
           r1 == [n |-> 1, id |-> i0, account |-> Pair[1], qty |-> MaxQty]
           r2 == [n |-> 2, id |-> i0, account |-> Pair[2], qty |-> MaxQty]
           q(s, p) == IF s = "Buy" /\ p = 0 THEN <<r1>>
                      ELSE IF s = "Sell" /\ p = MaxPrice THEN <<r2>> ELSE <<>>
           e(o) == [order |-> o, filled |-> 0, closed |-> 0]
<1>1. /\ MaxPrice \in Nat /\ MaxPrice > 0 /\ MaxQty \in Nat /\ MaxQty > 0
      /\ 0 \in Prices /\ MaxPrice \in Prices /\ i0 \in OrderIds
  BY ClobAssumption, BridgeAssumption DEF Prices
<1>a. book = [s \in Sides |-> [p \in Prices |-> q(s, p)]]
  BY DEF SeedMarkOrders
<1>b. log = <<e(o1), e(o2)>>
  BY DEF SeedMarkOrders
<1>2. /\ levels = [s \in Sides |-> IF s = "Buy" THEN {0} ELSE {MaxPrice}]
      /\ matching = FALSE /\ remaining = 0 /\ fills = <<>>
  BY DEF SeedMarkOrders
<1>3. /\ o1 \in Orders /\ o2 \in Orders /\ r1 \in RestingOrder /\ r2 \in RestingOrder
  BY <1>1, PairParties DEF Orders, RestingOrder, Sides, Types
<1>4. e(o1) \in LogEntry /\ e(o2) \in LogEntry
  BY <1>3 DEF LogEntry
<1> HIDE DEF o1, o2, r1, r2, e
<1>6. log \in Seq(LogEntry) /\ Len(log) = 2 /\ log[1] = e(o1) /\ log[2] = e(o2)
  BY <1>4, <1>b
<1>7. \A s \in Sides, p \in Prices : book[s][p] = q(s, p)
  BY <1>a
<1>8. \A s \in Sides, p \in Prices : q(s, p) \in Seq(RestingOrder)
  BY <1>3
<1>9. \A s \in Sides, p \in Prices :
        /\ Len(q(s, p)) \in {0, 1}
        /\ Len(q(s, p)) = 1 => \/ s = "Buy" /\ p = 0 /\ q(s, p)[1] = r1
                               \/ s = "Sell" /\ p = MaxPrice /\ q(s, p)[1] = r2
        /\ q(s, p) # <<>> <=> (s = "Buy" /\ p = 0) \/ (s = "Sell" /\ p = MaxPrice)
  OBVIOUS
<1>91. /\ Len(book["Buy"][0]) = 1 /\ book["Buy"][0][1] = r1
  <2>1. book["Buy"][0] = q("Buy", 0)
    BY <1>1, <1>7 DEF Sides
  <2>2. q("Buy", 0) = <<r1>>
    OBVIOUS
  <2> HIDE DEF q
  <2>3. QED
    BY <2>1, <2>2
<1>92. /\ Len(book["Sell"][MaxPrice]) = 1 /\ book["Sell"][MaxPrice][1] = r2
  BY <1>1, <1>7 DEF Sides
<1>10. book \in [Sides -> [Prices -> Seq(RestingOrder)]]
  BY <1>a, <1>8
<1>11. levels \in [Sides -> SUBSET Prices]
  BY <1>1, <1>2
<1>12. TypeOK
  BY <1>2, <1>6, <1>10, <1>11, EmptySeq DEF TypeOK
<1> HIDE DEF q
<1>13. LevelsMatchQueues
  BY <1>2, <1>7, <1>9 DEF LevelsMatchQueues, Sides
<1>14. NotCrossed
  BY <1>1, <1>2 DEF NotCrossed, Sides
<1>15. ASSUME NEW s \in Sides, NEW p \in Prices, NEW i \in 1..Len(book[s][p])
       PROVE  /\ i = 1
              /\ \/ s = "Buy" /\ p = 0 /\ book[s][p][i] = r1
                 \/ s = "Sell" /\ p = MaxPrice /\ book[s][p][i] = r2
  <2>1. book[s][p] = q(s, p)
    BY <1>7
  <2>2. Len(book[s][p]) \in {0, 1}
    BY <1>9, <2>1
  <2>3. i = 1 /\ Len(book[s][p]) = 1
    <3>1. \A k \in {0, 1} : \A j \in 1..k : j = 1 /\ k = 1
      OBVIOUS
    <3>2. QED
      BY <2>2, <3>1
  <2>4. QED
    BY <1>9, <2>1, <2>3
<1>16. IsOpenPart(r1, e(o1), "Buy", 0) /\ IsOpenPart(r2, e(o2), "Sell", MaxPrice)
  BY <1>1 DEF IsOpenPart, r1, r2, e, o1, o2
<1>17. r1.n = 1 /\ r2.n = 2
  BY DEF r1, r2
<1>18. RestingIsUnfilled
  <2> SUFFICES ASSUME NEW s \in Sides, NEW p \in Prices, NEW i \in 1..Len(book[s][p])
               PROVE  /\ book[s][p][i].n \in 1..Len(log)
                      /\ IsOpenPart(book[s][p][i], log[book[s][p][i].n], s, p)
    BY DEF RestingIsUnfilled
  <2>1. QED
    BY <1>6, <1>15, <1>16, <1>17
<1>19. QueuesInArrivalOrder
  BY <1>15 DEF QueuesInArrivalOrder
<1>20. TakerAccounted
  BY <1>2 DEF TakerAccounted
<1>21. NoOrderLost
  <2> SUFFICES ASSUME NEW n \in 1..Len(log)
               PROVE  log[n].closed = 0 /\ Rests(n)
    BY DEF NoOrderLost
  <2>1. n = 1 \/ n = 2
    BY <1>6
  <2>2. CASE n = 1
    <3>1. 1 \in 1..Len(book["Buy"][0]) /\ book["Buy"][0][1].n = 1
      BY <1>91, <1>17
    <3>2. log[1].closed = 0 /\ log[1].order.side = "Buy" /\ log[1].order.price = 0
      BY <1>6 DEF e, o1
    <3>3. QED
      BY <2>2, <3>1, <3>2 DEF Rests
  <2>3. CASE n = 2
    <3>1. 1 \in 1..Len(book["Sell"][MaxPrice]) /\ book["Sell"][MaxPrice][1].n = 2
      BY <1>92, <1>17
    <3>2. /\ log[2].closed = 0 /\ log[2].order.side = "Sell"
          /\ log[2].order.price = MaxPrice
      BY <1>6 DEF e, o2
    <3>3. QED
      BY <2>3, <3>1, <3>2 DEF Rests
  <2>4. QED
    BY <2>1, <2>2, <2>3
<1>22. QED
  BY <1>12, <1>13, <1>14, <1>18, <1>19, <1>20, <1>21 DEF IInv

\* The book's invariant holds whatever the two threads do with it: the keys
\* agree with the queues, the book is not crossed and no quantity is lost
\* (LiveRethEvmBridge::submit_order and the place_order precompile).
THEOREM BridgeKeepsBook == BridgeSpec => []IInv
<1>1. BridgeInit => IInv
  BY SeedIInv DEF BridgeInit
<1>2. IInv /\ [BridgeNext]_allVars => IInv'
  <2>1. [BridgeNext]_allVars => [Next]_vars
    BY BridgeStepIsBookStep DEF allVars
  <2>2. QED
    BY <2>1, NextIInv
<1>3. QED
  BY <1>1, <1>2, PTL DEF BridgeSpec

-----------------------------------------------------------------------------
(* Who holds which mutex.                                                  *)

\* pc after an assignment to one of its elements.
LEMMA PcUpdate ==
  ASSUME DOMAIN pc = Threads, NEW t \in Threads, NEW x, pc' = [pc EXCEPT ![t] = x]
  PROVE  /\ pc'[t] = x
         /\ \A u \in Threads \ {t} : pc'[u] = pc[u]
         /\ t = "node" => pc'["node"] = x /\ pc'["evm"] = pc["evm"]
         /\ t = "evm" => pc'["evm"] = x /\ pc'["node"] = pc["node"]
  BY DEF Threads

\* A mutex is held by the thread whose call is at a step that needs it, and by
\* no other: the two threads exclude each other.
LEMMA LockStep ==
  ASSUME BridgeTypeOK, LockInv, matching \in BOOLEAN, BridgeNext
  PROVE  LockInv'
<1>1. DOMAIN pc = Threads
  BY DEF BridgeTypeOK
<1>2. ASSUME NEW t \in Threads, NEW o, CallSubmit(t, o)
      PROVE  LockInv'
  <2>1. /\ pc[t] = "idle" /\ clobLock = "free" /\ clobLock' = t /\ matching'
        /\ accountsLock' = accountsLock /\ pc' = [pc EXCEPT ![t] = "matching"]
    BY <1>2 DEF CallSubmit, Submit
  <2>2. QED
    BY <1>1, <2>1, PcUpdate DEF LockInv, Threads
<1>3. ASSUME NEW t \in Threads, MatchStep(t)
      PROVE  LockInv'
  <2>1. UNCHANGED <<clobLock, accountsLock, pc>> /\ matching' = matching
    <3>1. PICK p \in Prices : MatchAtLevel(p)
      BY <1>3 DEF MatchStep
    <3>2. matching' = matching
      BY <3>1 DEF MatchAtLevel
    <3>3. UNCHANGED bridgeVars
      BY <1>3 DEF MatchStep
    <3>4. QED
      BY <3>2, <3>3 DEF bridgeVars, locks
  <2>2. QED
    BY <2>1 DEF LockInv
<1>4. ASSUME NEW t \in Threads, SubmitDone(t)
      PROVE  LockInv'
  <2>1. PICK x \in {"push", "idle"} :
          /\ pc' = [pc EXCEPT ![t] = x]
          /\ clobLock' = IF t = "node" /\ x = "push" THEN "node" ELSE "free"
    BY <1>4 DEF SubmitDone
  <2>2. /\ clobLock = t /\ pc[t] = "matching" /\ ~ matching' /\ matching' \in BOOLEAN
        /\ accountsLock' = accountsLock
    BY <1>4 DEF SubmitDone, Rest, Return
  <2>3. QED
    BY <1>1, <2>1, <2>2, PcUpdate DEF LockInv, Threads
<1>5. ASSUME NEW t \in Threads, NEW x, UNCHANGED <<vars, locks>>, pc' = [pc EXCEPT ![t] = x],
             \/ pc[t] = "idle" /\ x = "health"
             \/ pc[t] = "health" /\ x = "idle"
             \/ t = "node" /\ pc[t] = "push" /\ x = "apply"
             \/ t = "evm" /\ pc[t] = "push" /\ x = "idle"
             \/ t = "node" /\ pc[t] = "idle" /\ x = "debit"
             \/ t = "node" /\ pc[t] = "debit" /\ x = "idle"
             \/ t = "node" /\ pc[t] = "idle" /\ x = "install"
             \/ t = "node" /\ pc[t] = "install" /\ x = "idle"
      PROVE  LockInv'
  <2>1. clobLock' = clobLock /\ accountsLock' = accountsLock /\ matching' = matching
    BY <1>5 DEF vars, locks
  <2>2. QED
    BY <1>1, <1>5, <2>1, PcUpdate DEF LockInv, Threads
<1>6. CASE NodeApply
  <2>1. /\ pc["node"] = "apply" /\ accountsLock = "free" /\ clobLock' = "free"
        /\ pc' = [pc EXCEPT !["node"] = "idle"]
        /\ accountsLock' = accountsLock /\ matching' = matching
    BY <1>6 DEF NodeApply, vars
  <2>2. QED
    BY <1>1, <2>1, PcUpdate DEF LockInv, Threads
<1>7. ASSUME NEW a, NEW amount, EvmWithdraw(a, amount)
      PROVE  LockInv'
  <2>1. /\ pc["evm"] = "idle" /\ accountsLock = "free" /\ accountsLock' = "evm"
        /\ pc' = [pc EXCEPT !["evm"] = "mark"]
        /\ clobLock' = clobLock /\ matching' = matching
    BY <1>7 DEF EvmWithdraw, vars
  <2>2. QED
    BY <1>1, <2>1, PcUpdate DEF LockInv, Threads
<1>8. CASE EvmDebit
  <2>1. /\ pc["evm"] = "mark" /\ accountsLock' = "free"
        /\ pc' = [pc EXCEPT !["evm"] = "idle"]
        /\ clobLock' = clobLock /\ matching' = matching
    BY <1>8 DEF EvmDebit, UnlockAccounts, vars
  <2>2. QED
    BY <1>1, <2>1, PcUpdate DEF LockInv, Threads
<1>9. CASE UNCHANGED <<vars, locks, pc>>
  BY <1>9 DEF LockInv, vars, locks
<1>10. ASSUME NEW t \in Threads, Health(t) \/ HealthRead(t)
       PROVE  LockInv'
  BY <1>5, <1>10 DEF Health, HealthRead
<1>11. ASSUME NodePush \/ EvmPush
       PROVE  LockInv'
  BY <1>5, <1>11 DEF NodePush, EvmPush, Threads
<1>12. ASSUME NEW a, NEW amount, NodeWithdraw(a, amount)
       PROVE  LockInv'
  BY <1>5, <1>12 DEF NodeWithdraw, Threads
<1>13. CASE NodeDebit
  BY <1>5, <1>13 DEF NodeDebit, Threads
<1>14. ASSUME NEW p, SetIndex(p)
       PROVE  LockInv'
  BY <1>5, <1>14 DEF SetIndex, Threads
<1>15. CASE InstallIndex
  BY <1>5, <1>15 DEF InstallIndex, Threads
<1>16. ASSUME NEW t, NEW a, NEW amount, Deposit(t, a, amount)
       PROVE  LockInv'
  BY <1>9, <1>16 DEF Deposit
<1>17. CASE BuildPayload
  BY <1>9, <1>17 DEF BuildPayload
<1>18. QED
  BY <1>2, <1>3, <1>4, <1>6, <1>7, <1>8, <1>10, <1>11, <1>12, <1>13, <1>14, <1>15, <1>16, <1>17
     DEF BridgeNext, BridgeStep, Threads

-----------------------------------------------------------------------------
(* The fills of a submit.                                                  *)

LEMMA MatchFill ==
  ASSUME IInv, NEW p \in Prices, MatchAtLevel(p)
  PROVE  \E f \in Fill : /\ fills' = Append(fills, f)
                         /\ f.taker = Len(log) /\ f.qty > 0 /\ f.qty <= remaining
                         /\ remaining' = remaining - f.qty
                         /\ Len(log') = Len(log) /\ matching /\ matching' = matching
                         /\ \A n \in 1..Len(log) : log'[n].order = log[n].order
<1> USE DEF FillQty
<1> DEFINE s == Opposite(Order.side)
           maker == book[s][p][1]
           q == FillQty(maker)
           f == [maker |-> maker, taker |-> Len(log), price |-> p, qty |-> q, maker_side |-> s]
<1>0. /\ TypeOK /\ matching /\ matching' = matching /\ log # <<>> /\ remaining \in Nat
      /\ remaining > 0 /\ p \in levels[s] /\ LevelsMatchQueues
  BY DEF IInv, TypeOK, MatchAtLevel, IsBest
<1>1. Len(log) \in Nat /\ Len(log) \in 1..Len(log) /\ Order \in Orders
  BY <1>0, Basics DEF Order
<1>2. s \in Sides
  BY <1>1, OrderFields
<1>3. /\ remaining' = remaining - q
      /\ log' = [log EXCEPT ![maker.n].filled = @ + q, ![Len(log)].filled = @ + q]
      /\ fills' = Append(fills, f)
  BY DEF MatchAtLevel
<1>4. /\ book[s][p] \in Seq(RestingOrder) /\ book[s][p] # <<>> /\ 1 \in 1..Len(book[s][p])
  BY <1>0, <1>2, Basics, TailIsRemoveAt DEF LevelsMatchQueues
<1>5. /\ maker \in RestingOrder /\ maker.qty \in Nat
      /\ maker.n \in 1..Len(log) /\ maker.n # Len(log)
      /\ IsOpenPart(maker, log[maker.n], s, p)
  <2>1. maker \in RestingOrder /\ maker.qty \in Nat
    BY <1>0, <1>2, <1>4, Basics DEF RestingOrder
  <2>2. QED
    BY <1>0, <1>2, <1>4, <2>1 DEF IInv, RestingIsUnfilled, TakerAccounted
<1>6. q \in Nat /\ q > 0 /\ q <= remaining
  BY <1>0, <1>5, SMTT(30) DEF IsOpenPart
<1>7. Len(log') = Len(log) /\ \A n \in 1..Len(log) : log'[n].order = log[n].order
  BY <1>0, <1>1, <1>3, <1>5, <1>6, FillEntries
<1>8. f \in Fill
  BY <1>1, <1>2, <1>5, <1>6 DEF Fill
<1>9. f.taker = Len(log) /\ f.qty = q
  OBVIOUS
<1> HIDE DEF s, maker, q, f
<1>10. QED
  BY <1>0, <1>3, <1>6, <1>7, <1>8, <1>9

\* The quantities of the fills, with one more.
LEMMA FilledMore ==
  ASSUME NEW fs \in Seq(Fill), NEW f \in Fill
  PROVE  LET gs == Append(fs, f)
         IN /\ SumOf([i \in 1..Len(fs) |-> fs[i].qty], 1..Len(fs)) \in Nat
            /\ SumOf([i \in 1..Len(gs) |-> gs[i].qty], 1..Len(gs))
                 = SumOf([i \in 1..Len(fs) |-> fs[i].qty], 1..Len(fs)) + f.qty
<1> DEFINE gs == Append(fs, f)
           n == Len(fs)
           F == [i \in 1..Len(fs) |-> fs[i].qty]
           G == [i \in 1..Len(gs) |-> gs[i].qty]
<1>1. /\ n \in Nat /\ Len(gs) = n + 1 /\ gs[n + 1] = f
      /\ \A i \in 1..n : gs[i] = fs[i]
  OBVIOUS
<1>2. \A e \in Fill : e.qty \in Nat
  BY DEF Fill
<1>3. \A i \in 1..n : fs[i].qty \in Nat
  BY <1>2
<1>4. \A i \in 1..n : F[i] \in Nat /\ G[i] = F[i]
  <2>1. \A i \in 1..n : i \in 1..(n + 1)
    BY <1>1
  <2>2. QED
    BY <1>1, <1>3, <2>1
<1>5. G[n + 1] = f.qty /\ f.qty \in Nat
  BY <1>1, <1>2
<1> HIDE DEF F, G, n, gs
<1>6. n + 1 \in Nat /\ n + 1 > 0 /\ (n + 1) - 1 = n /\ \A i \in 1..(n + 1) : i = n + 1 \/ i \in 1..n
  BY <1>1
<1>7. \A i \in 1..(n + 1) : G[i] \in Int
  BY <1>4, <1>5, <1>6
<1>8. SumOf(G, 1..(n + 1)) = SumOf(G, 1..n) + G[n + 1]
  BY <1>6, <1>7, SumLast
<1>9. IsFiniteSet(1..n)
  BY <1>1, FS_Interval
<1>10. SumOf(G, 1..n) = SumOf(F, 1..n)
  BY <1>4, <1>9, SumSame
<1>11. n \in 0..n
  BY <1>1
<1>12. SumOf(F, 1..n) \in Nat
  BY <1>1, <1>4, <1>11, SumPrefix
<1>13. QED
  BY <1>1, <1>5, <1>8, <1>10, <1>12 DEF F, G, n, gs

\* Every fill is one of the order submitted last, and together they are no
\* more than that order.
LEMMA FillsStep ==
  ASSUME IInv, FillsInv, [Next]_vars
  PROVE  FillsInv'
<1>0. TypeOK /\ fills \in Seq(Fill) /\ remaining \in Nat /\ Len(log) \in Nat /\ matching \in BOOLEAN
      /\ MaxQty \in Nat
  BY Basics, ClobAssumption DEF IInv, TypeOK
<1>1. FilledQty \in Nat
  <2>1. Len(fills) \in Nat /\ Len(fills) \in 0..Len(fills)
    BY <1>0
  <2> DEFINE F == [i \in 1..Len(fills) |-> fills[i].qty]
  <2>2. \A e \in Fill : e.qty \in Nat
    BY DEF Fill
  <2>3. \A i \in 1..Len(fills) : fills[i] \in Fill
    BY <1>0
  <2>4. \A i \in 1..Len(fills) : F[i] \in Nat
    BY <2>2, <2>3
  <2> HIDE DEF F
  <2>5. SumOf(F, 1..Len(fills)) \in Nat
    BY <2>1, <2>4, SumPrefix
  <2>6. QED
    BY <2>5 DEF F, FilledQty
<1>2. ASSUME NEW o \in Orders, Submit(o)
      PROVE  FillsInv'
  <2>1. /\ fills' = <<>> /\ remaining' = o.qty /\ Len(log) < MaxOrders
        /\ log' = Append(log, [order |-> o, filled |-> 0, closed |-> 0])
    BY <1>2 DEF Submit
  <2>2. Len(log') = Len(log) + 1
    BY <1>0, <2>1 DEF TypeOK
  <2>3. o.qty \in Nat /\ o.qty <= MaxQty
    BY <1>0 DEF Orders
  <2>4. Len(fills') = 0 /\ 1..0 = {}
    BY <2>1
  <2>5. FilledQty' = 0
    BY <2>4, SumEmpty DEF FilledQty
  <2>6. Len(log') >= 2 /\ Len(log') <= MaxOrders
    BY <1>0, <2>1, <2>2, ClobAssumption DEF FillsInv
  <2>7. FilledQty' + (IF matching' THEN remaining' ELSE 0) <= MaxQty
    BY <1>0, <2>1, <2>3, <2>5
  <2>8. QED
    BY <2>4, <2>6, <2>7 DEF FillsInv
<1>3. ASSUME NEW p \in Prices, MatchAtLevel(p)
      PROVE  FillsInv'
  <2>1. PICK f \in Fill : /\ fills' = Append(fills, f)
                          /\ f.taker = Len(log) /\ f.qty > 0 /\ f.qty <= remaining
                          /\ remaining' = remaining - f.qty
                          /\ Len(log') = Len(log) /\ matching /\ matching' = matching
                          /\ \A n \in 1..Len(log) : log'[n].order = log[n].order
    BY <1>3, MatchFill
  <2>2. f.qty \in Nat
    BY DEF Fill
  <2>3. FilledQty' = FilledQty + f.qty
    <3> DEFINE gs == Append(fills, f)
    <3>1. SumOf([i \in 1..Len(gs) |-> gs[i].qty], 1..Len(gs))
            = SumOf([i \in 1..Len(fills) |-> fills[i].qty], 1..Len(fills)) + f.qty
      BY <1>0, FilledMore
    <3>2. fills' = gs
      BY <2>1
    <3> HIDE DEF gs
    <3>3. QED
      BY <3>1, <3>2 DEF FilledQty
  <2>4. FilledQty + remaining <= MaxQty
    BY <2>1 DEF FillsInv
  <2>5. FilledQty' + (IF matching' THEN remaining' ELSE 0) <= MaxQty
    BY <1>0, <1>1, <2>1, <2>2, <2>3, <2>4
  <2>6. ASSUME NEW i \in 1..Len(fills')
        PROVE  fills'[i].taker = Len(log') /\ fills'[i].qty > 0
    <3>1. Len(fills) \in Nat /\ Len(fills') = Len(fills) + 1
      BY <1>0, <2>1
    <3>2. CASE i \in 1..Len(fills)
      <4>1. fills'[i] = fills[i]
        BY <1>0, <2>1, <3>2
      <4>2. QED
        BY <2>1, <3>2, <4>1 DEF FillsInv
    <3>3. CASE i = Len(fills) + 1
      <4>1. fills'[i] = f
        BY <1>0, <2>1, <3>3
      <4>2. QED
        BY <2>1, <4>1
    <3>4. QED
      BY <3>1, <3>2, <3>3
  <2>7. QED
    BY <2>1, <2>5, <2>6 DEF FillsInv
<1>4. ASSUME UNCHANGED fills, Len(log') = Len(log),
             IF matching' THEN matching /\ remaining' = remaining ELSE TRUE
      PROVE  FillsInv'
  <2>1. FilledQty' = FilledQty
    BY <1>4 DEF FilledQty
  <2>2. FilledQty' + (IF matching' THEN remaining' ELSE 0) <= MaxQty
    BY <1>0, <1>1, <1>4, <2>1 DEF FillsInv
  <2>3. QED
    BY <1>4, <2>2 DEF FillsInv
<1>5. CASE Rest
  BY <1>4, <1>5 DEF Rest
<1>6. CASE Return
  <2>1. Len(log') = Len(log)
    <3>1. log' = [log EXCEPT ![Len(log)].closed = remaining] /\ Len(log) \in 1..Len(log)
      BY <1>0, <1>6, Basics DEF Return, TypeOK
    <3>2. QED
      BY <1>0, <3>1, CloseEntry
  <2>2. QED
    BY <1>4, <1>6, <2>1 DEF Return
<1>7. ASSUME NEW id \in OrderIds, Cancel(id)
      PROVE  FillsInv'
  <2>1. PICK s \in Sides, p \in Prices : \E k \in 1..Len(book[s][p]) :
          LET r == book[s][p][k]
          IN log' = [log EXCEPT ![r.n].closed = r.qty] /\ UNCHANGED <<matching, remaining, fills>>
    BY <1>7 DEF Cancel
  <2>2. PICK k \in 1..Len(book[s][p]) :
          LET r == book[s][p][k]
          IN log' = [log EXCEPT ![r.n].closed = r.qty] /\ UNCHANGED <<matching, remaining, fills>>
    BY <2>1
  <2> DEFINE r == book[s][p][k]
  <2>3. r.n \in 1..Len(log) /\ r.qty \in Nat
    BY <1>0, Basics DEF IInv, RestingIsUnfilled, RestingOrder
  <2>4. Len(log') = Len(log)
    BY <1>0, <2>2, <2>3, CloseEntry
  <2>5. QED
    BY <1>0, <1>4, <2>2, <2>4
<1>8. CASE UNCHANGED vars
  BY <1>0, <1>4, <1>8 DEF vars
<1>9. QED
  BY <1>2, <1>3, <1>5, <1>6, <1>7, <1>8 DEF Next, CancelUnknown

\* The fills of a submit as the bridge sees them.
LEMMA BridgeFillsType ==
  ASSUME IInv, FillsInv, NEW t \in Threads
  PROVE  /\ BridgeFills(t) \in Seq(AccountFill)
         /\ Len(BridgeFills(t)) = Len(fills)
         /\ \A i \in 1..Len(fills) : BridgeFills(t)[i].by = t
         /\ SumOf(QtyOf(BridgeFills(t)), 1..Len(fills)) = FilledQty
<1>0. TypeOK /\ fills \in Seq(Fill) /\ Len(fills) \in Nat /\ Len(log) \in Nat
  BY Basics DEF IInv, TypeOK
<1> DEFINE fs == BridgeFills(t)
<1>1. ASSUME NEW i \in 1..Len(fills)
      PROVE  /\ fs[i] \in AccountFill /\ fs[i].by = t /\ fs[i].qty = fills[i].qty
  <2>1. fs[i] = BridgeFill(t, fills[i])
    BY DEF BridgeFills
  <2>2. fills[i] \in Fill /\ fills[i].taker = Len(log) /\ fills[i].qty > 0
    BY <1>0 DEF FillsInv
  <2>3. PICK f \in Fill : f = fills[i]
    BY <2>2
  <2>4. /\ f.maker \in RestingOrder /\ f.price \in Prices /\ f.qty \in Nat
        /\ f.maker_side \in Sides
    BY DEF Fill
  <2>5. f.maker.account \in Accounts
    BY <2>4 DEF RestingOrder
  <2>6. log[f.taker].order.account \in Accounts
    <3>1. Len(log) >= 2 /\ Len(log) \in 1..Len(log)
      BY <1>0 DEF FillsInv
    <3>2. log[Len(log)].order \in Orders
      BY <1>0, <3>1, Basics
    <3>3. log[Len(log)].order.account \in Accounts
      BY <3>2, OrderFields
    <3>4. QED
      BY <2>2, <2>3, <3>3
  <2>7. f.qty \in Nat \ {0}
    BY <2>2, <2>3, <2>4
  <2>8. fs[i] = [by |-> t, maker |-> f.maker.account, taker |-> log[f.taker].order.account,
                 price |-> f.price, qty |-> f.qty, side |-> f.maker_side]
    BY <2>1, <2>3 DEF BridgeFill
  <2> HIDE DEF fs
  <2>9. QED
    BY <2>3, <2>4, <2>5, <2>6, <2>7, <2>8 DEF AccountFill
<1>2. fs = [i \in 1..Len(fills) |-> fs[i]] /\ DOMAIN fs = 1..Len(fills)
  BY DEF BridgeFills
<1> HIDE DEF fs
<1>3. fs \in [1..Len(fills) -> AccountFill]
  BY <1>1, <1>2
<1>4. fs \in Seq(AccountFill) /\ Len(fs) = Len(fills)
  BY <1>0, <1>2, <1>3
<1>5. IsFiniteSet(1..Len(fills))
  BY <1>0, FS_Interval
<1>6. \A i \in 1..Len(fills) : QtyOf(fs)[i] = [j \in 1..Len(fills) |-> fills[j].qty][i]
  BY <1>1, <1>4 DEF QtyOf
<1>7. SumOf(QtyOf(fs), 1..Len(fills)) = FilledQty
  BY <1>5, <1>6, SumSame DEF FilledQty
<1>8. QED
  BY <1>1, <1>4, <1>7 DEF fs

-----------------------------------------------------------------------------
(* The types of the bridge's state.                                        *)

\* The ledger that apply_fills_to_accounts starts from.
Ledger == [accts |-> accounts, cash |-> cash, slack |-> slack]

\* What apply_fills_to_accounts does to the state.
LEMMA ApplyParts ==
  ASSUME NodeApply
  PROVE  LET m == ApplyFills(Ledger, BridgeFills("node"))
         IN /\ accounts' = m.accts /\ cash' = m.cash /\ slack' = m.slack
            /\ pc["node"] = "apply" /\ pc' = [pc EXCEPT !["node"] = "idle"]
            /\ UNCHANGED <<vars, accountsLock, buffers, queries, oracle, executed, calls>>
  BY DEF NodeApply, Ledger

LEMMA LedgerType ==
  ASSUME BridgeTypeOK, HistoryTypes
  PROVE  Ledger \in Ledgers
  BY DEF BridgeTypeOK, HistoryTypes, Ledger, Ledgers

\* Setting the collateral of one account.
LEMMA CollateralUpdate ==
  ASSUME accounts \in [Accounts -> Account], NEW a \in Accounts, NEW c \in Int,
         accounts' = [accounts EXCEPT ![a].collateral = c]
  PROVE  /\ accounts' \in [Accounts -> Account]
         /\ accounts'[a].collateral = c /\ accounts'[a].size = accounts[a].size
         /\ accounts'[a].avg = accounts[a].avg
         /\ \A b \in Accounts \ {a} : accounts'[b] = accounts[b]
<1> DEFINE x == [accounts[a] EXCEPT !.collateral = c]
<1>1. accounts[a] \in Account
  OBVIOUS
<1>2. x \in Account /\ x.collateral = c /\ x.size = accounts[a].size /\ x.avg = accounts[a].avg
  BY <1>1 DEF Account
<1>3. accounts' = [accounts EXCEPT ![a] = x]
  OBVIOUS
<1> HIDE DEF x
<1>4. QED
  BY <1>2, <1>3

\* A mark is a number.
LEMMA MarkType ==
  ASSUME IInv, BridgeTypeOK, NEW t \in Threads
  PROVE  EffectiveMark(t) \in Int /\ (EffectiveMark(t) = NoMark \/ EffectiveMark(t) \in Nat)
<1>0. TypeOK
  BY DEF IInv
<1>1. CurrentMark = NoMark \/ CurrentMark \in Nat
  <2>1. CASE levels["Buy"] = {} \/ levels["Sell"] = {}
    BY <2>1 DEF CurrentMark
  <2>2. CASE ~ (levels["Buy"] = {} \/ levels["Sell"] = {})
    <3> DEFINE bid == CHOOSE p \in levels["Buy"] : IsBest("Buy", p)
               ask == CHOOSE p \in levels["Sell"] : IsBest("Sell", p)
    <3>1. (\E p \in Prices : IsBest("Buy", p)) /\ (\E p \in Prices : IsBest("Sell", p))
      BY <1>0, <2>2, BestExists DEF Sides
    <3>2. bid \in levels["Buy"] /\ ask \in levels["Sell"]
      BY <3>1 DEF IsBest
    <3>3. bid \in Nat /\ ask \in Nat
      BY <1>0, <3>2 DEF TypeOK, Sides, Prices
    <3>4. CurrentMark = (bid + ask) \div 2
      BY <2>2 DEF CurrentMark
    <3> HIDE DEF bid, ask
    <3>5. QED
      BY <3>3, <3>4
  <2>3. QED
    BY <2>1, <2>2
<1>2. IndexOf(t) = NoMark \/ IndexOf(t) \in Nat
  BY ClobAssumption DEF IndexOf, BridgeTypeOK, Prices
<1>3. NoMark \in Int
  BY DEF NoMark
<1>4. QED
  BY <1>1, <1>2, <1>3 DEF EffectiveMark

\* What a withdrawal takes out is a number, and no more than was asked for.
LEMMA FreeInt ==
  ASSUME NEW acct \in Account, NEW m \in Int
  PROVE  /\ InitialMarginAt(acct, m) \in Int
         /\ UnrealizedPnl(acct, m) \in Int
         /\ WithdrawFreeCollateral(acct, m) \in Int
<1>1. /\ acct.size \in Int /\ acct.avg \in Nat /\ acct.avg \in Int /\ acct.collateral \in Int
      /\ Abs(acct.size) \in Int /\ InitialMarginBps \in Int /\ MarginScale \in Nat \ {0}
  BY ClearingAssumption, AbsInt DEF Account
<1>2. ASSUME NEW k \in Int
      PROVE  InitialMarginAt(acct, k) \in Int
  <2>1. Abs(acct.size) * k * InitialMarginBps \in Int
    BY <1>1
  <2>2. (Abs(acct.size) * k * InitialMarginBps) \div MarginScale \in Int
    BY <1>1, <2>1, DivIsFloor
  <2>3. QED
    BY <2>2, SaturateInt DEF InitialMarginAt
<1>3. UnrealizedPnl(acct, m) \in Int
  <2>1. (m - acct.avg) * acct.size \in Int
    BY <1>1
  <2>2. QED
    BY <2>1, SaturateInt DEF UnrealizedPnl
<1>4. FreeCollateral(acct, m) \in Int
  BY <1>1, <1>2, <1>3, SaturateInt DEF FreeCollateral
<1>5. WithdrawFreeCollateral(acct, m) \in Int
  BY <1>1, <1>2, <1>4, SaturateInt DEF WithdrawFreeCollateral
<1>6. QED
  BY <1>2, <1>3, <1>5

LEMMA PaidAmount ==
  ASSUME NEW amount \in 1..MaxAmount, NEW acct, NEW m
  PROVE  Paid(acct, amount, m) \in 0..MaxAmount
  BY BridgeAssumption DEF Paid

\* The account map changes with a deposit, a withdrawal or the fills of a
\* submit_order, and in no other step.
LEMMA LedgerCases ==
  ASSUME BridgeNext
  PROVE  \/ UNCHANGED <<accounts, known, cash, slack>>
         \/ NodeApply \/ EvmDebit \/ NodeDebit
         \/ \E t \in Threads, a \in Accounts, amount \in Amounts : Deposit(t, a, amount)
<1> USE DEF ledger
<1>1. CASE \E t \in Threads : MatchStep(t)
  BY <1>1 DEF MatchStep, bridgeVars
<1>2. CASE BridgeStep
  BY <1>2 DEF BridgeStep, CallSubmit, SubmitDone, Health, HealthRead, NodePush, EvmPush,
     EvmWithdraw, NodeWithdraw, SetIndex, InstallIndex, BuildPayload
<1>3. QED
  BY <1>1, <1>2 DEF BridgeNext

\* The collateral of account a becomes c, its cash e.
Sets(a, c, e) ==
  /\ a \in Accounts /\ c \in Int /\ e \in Int
  /\ accounts' = [accounts EXCEPT ![a].collateral = c]
  /\ cash' = [cash EXCEPT ![a] = e]
  /\ slack' = slack

\* A withdrawal in numbers.
LEMMA EvmDebitParts ==
  ASSUME IInv, CoreInv, EvmDebit
  PROVE  LET r == request["evm"]
         IN \E paid \in 0..MaxAmount :
              /\ pc["evm"] = "mark" /\ r.account \in Accounts /\ r.amount \in 1..MaxAmount
              /\ paid = Paid(accounts[r.account], r.amount, EffectiveMark("evm"))
              /\ Sets(r.account, accounts[r.account].collateral - paid, cash[r.account] - paid)
              /\ UNCHANGED known
<1> DEFINE r == request["evm"]
           paid == Paid(accounts[r.account], r.amount, EffectiveMark("evm"))
<1>1. pc["evm"] = "mark" /\ r.account \in Accounts /\ r.amount \in 1..MaxAmount
  BY DEF EvmDebit, CoreInv, RequestInv, IsRequest
<1>2. paid \in 0..MaxAmount
  BY <1>1, PaidAmount
<1>a. accounts[r.account].collateral \in Int /\ cash[r.account] \in Int
  BY <1>1 DEF CoreInv, BridgeTypeOK, HistoryTypes, Account
<1>b. DOMAIN accounts = Accounts /\ DOMAIN cash = Accounts
  BY DEF CoreInv, BridgeTypeOK, HistoryTypes
<1>3. /\ accounts' = [accounts EXCEPT ![r.account].collateral = accounts[r.account].collateral - paid]
      /\ cash' = [cash EXCEPT ![r.account] = cash[r.account] - paid]
      /\ UNCHANGED <<known, slack>>
  BY <1>1, <1>b DEF EvmDebit
<1>4. paid = Paid(accounts[r.account], r.amount, EffectiveMark("evm"))
  OBVIOUS
<1> HIDE DEF r, paid
<1>5. Sets(r.account, accounts[r.account].collateral - paid, cash[r.account] - paid)
  BY <1>1, <1>2, <1>3, <1>a DEF Sets
<1>6. QED
  BY <1>1, <1>2, <1>3, <1>4, <1>5 DEF r

LEMMA NodeDebitParts ==
  ASSUME IInv, CoreInv, NodeDebit
  PROVE  LET r == request["node"]
         IN \E paid \in 0..MaxAmount :
              /\ pc["node"] = "debit" /\ r.account \in Accounts /\ r.amount \in 1..MaxAmount
              /\ held["node"] \in Int
              /\ paid \in {Paid(accounts[r.account], r.amount, held["node"]), 0}
              /\ Sets(r.account, accounts[r.account].collateral - paid, cash[r.account] - paid)
              /\ UNCHANGED known
<1> DEFINE r == request["node"]
           paid == IF r.account \in known
                   THEN Paid(accounts[r.account], r.amount, held["node"]) ELSE 0
<1>1. /\ pc["node"] = "debit" /\ r.account \in Accounts /\ r.amount \in 1..MaxAmount
      /\ held["node"] \in Int
  BY DEF NodeDebit, CoreInv, RequestInv, IsRequest
<1>2. paid \in 0..MaxAmount
  <2>1. Paid(accounts[r.account], r.amount, held["node"]) \in 0..MaxAmount
    BY <1>1, PaidAmount
  <2>2. 0 \in 0..MaxAmount
    BY BridgeAssumption
  <2>3. QED
    BY <2>1, <2>2
<1>a. accounts[r.account].collateral \in Int /\ cash[r.account] \in Int
  BY <1>1 DEF CoreInv, BridgeTypeOK, HistoryTypes, Account
<1>b. DOMAIN accounts = Accounts /\ DOMAIN cash = Accounts
  BY DEF CoreInv, BridgeTypeOK, HistoryTypes
<1>3. /\ accounts' = [accounts EXCEPT ![r.account].collateral = accounts[r.account].collateral - paid]
      /\ cash' = [cash EXCEPT ![r.account] = cash[r.account] - paid]
      /\ UNCHANGED <<known, slack>>
  BY <1>1, <1>b DEF NodeDebit, DebitedAccount
<1>4. paid \in {Paid(accounts[r.account], r.amount, held["node"]), 0}
  OBVIOUS
<1> HIDE DEF r, paid
<1>5. Sets(r.account, accounts[r.account].collateral - paid, cash[r.account] - paid)
  BY <1>1, <1>2, <1>3, <1>a DEF Sets
<1>6. QED
  BY <1>1, <1>2, <1>3, <1>4, <1>5 DEF r

LEMMA SetsParts ==
  ASSUME BridgeTypeOK, HistoryTypes, NEW a, NEW c, NEW e, Sets(a, c, e)
  PROVE  /\ accounts' \in [Accounts -> Account] /\ HistoryTypes'
         /\ a \in Accounts
         /\ accounts'[a].collateral = c /\ accounts'[a].size = accounts[a].size
         /\ accounts'[a].avg = accounts[a].avg
         /\ cash'[a] = e /\ slack' = slack
         /\ \A b \in Accounts \ {a} : accounts'[b] = accounts[b] /\ cash'[b] = cash[b]
<1>1. /\ a \in Accounts /\ c \in Int /\ e \in Int /\ accounts \in [Accounts -> Account]
      /\ accounts' = [accounts EXCEPT ![a].collateral = c]
      /\ cash \in [Accounts -> Int] /\ cash' = [cash EXCEPT ![a] = e]
      /\ slack \in [Accounts -> Nat] /\ slack' = slack
  BY DEF Sets, BridgeTypeOK, HistoryTypes
<1>3. /\ accounts' \in [Accounts -> Account]
      /\ accounts'[a].collateral = c /\ accounts'[a].size = accounts[a].size
      /\ accounts'[a].avg = accounts[a].avg
      /\ \A b \in Accounts \ {a} : accounts'[b] = accounts[b]
  BY <1>1, CollateralUpdate
<1>4. /\ cash' \in [Accounts -> Int] /\ cash'[a] = e
      /\ \A b \in Accounts \ {a} : cash'[b] = cash[b]
  BY <1>1
<1>5. QED
  BY <1>1, <1>3, <1>4 DEF HistoryTypes

LEMMA DepositSets ==
  ASSUME BridgeTypeOK, HistoryTypes, NEW t, NEW a \in Accounts, NEW amount \in Amounts,
         Deposit(t, a, amount)
  PROVE  /\ Sets(a, Saturate(accounts[a].collateral + amount), cash[a] + amount)
         /\ amount \in Int /\ Abs(amount) <= MaxAmount
<1>1. amount \in Int /\ Abs(amount) <= MaxAmount
  BY BridgeAssumption DEF Amounts, Abs
<1>2. accounts[a].collateral \in Int /\ cash[a] \in Int
  BY DEF BridgeTypeOK, HistoryTypes, Account
<1>3. Saturate(accounts[a].collateral + amount) \in Int
  BY <1>1, <1>2, SaturateInt
<1>4. /\ accounts' = [accounts EXCEPT ![a].collateral = Saturate(accounts[a].collateral + amount)]
      /\ cash' = [cash EXCEPT ![a] = cash[a] + amount] /\ slack' = slack
  BY DEF Deposit, BridgeTypeOK, HistoryTypes
<1>5. QED
  BY <1>1, <1>2, <1>3, <1>4 DEF Sets

\* The accounts keep their type.
LEMMA AccountsStep ==
  ASSUME IInv, CoreInv, BridgeNext
  PROVE  accounts' \in [Accounts -> Account] /\ HistoryTypes'
<1>0. BridgeTypeOK /\ HistoryTypes /\ FillsInv /\ accounts \in [Accounts -> Account]
  BY DEF CoreInv, BridgeTypeOK
<1>1. CASE UNCHANGED <<accounts, known, cash, slack>>
  BY <1>0, <1>1 DEF HistoryTypes
<1>2. CASE NodeApply
  <2> DEFINE m == ApplyFills(Ledger, BridgeFills("node"))
  <2>1. accounts' = m.accts /\ cash' = m.cash /\ slack' = m.slack
    BY <1>2, ApplyParts
  <2>2. BridgeFills("node") \in Seq(AccountFill)
    BY <1>0, BridgeFillsType DEF Threads
  <2>3. m \in Ledgers
    BY <1>0, <2>2, LedgerType, FillsKeepType
  <2> HIDE DEF m
  <2>4. QED
    BY <2>1, <2>3 DEF Ledgers, HistoryTypes
<1>3. CASE EvmDebit
  BY <1>0, <1>3, EvmDebitParts, SetsParts
<1>4. CASE NodeDebit
  BY <1>0, <1>4, NodeDebitParts, SetsParts
<1>5. CASE \E t \in Threads, a \in Accounts, amount \in Amounts : Deposit(t, a, amount)
  BY <1>0, <1>5, DepositSets, SetsParts
<1>6. QED
  BY <1>1, <1>2, <1>3, <1>4, <1>5, LedgerCases

\* The keys of the account map are accounts.
LEMMA KnownStep ==
  ASSUME IInv, CoreInv, BridgeNext
  PROVE  known' \subseteq Accounts
<1>0. known \subseteq Accounts /\ FillsInv
  BY DEF CoreInv, BridgeTypeOK
<1>1. CASE UNCHANGED <<accounts, known, cash, slack>>
  BY <1>0, <1>1
<1>2. CASE NodeApply
  <2> DEFINE fs == BridgeFills("node")
  <2>1. known' = known \cup UNION {{f.maker, f.taker} : f \in ToSet(fs)}
    BY <1>2 DEF NodeApply
  <2>2. fs \in Seq(AccountFill)
    BY <1>0, BridgeFillsType DEF Threads
  <2> HIDE DEF fs
  <2>3. \A f \in ToSet(fs) : f \in AccountFill
    BY <2>2 DEF ToSet
  <2>4. \A f \in AccountFill : f.maker \in Accounts /\ f.taker \in Accounts
    BY DEF AccountFill
  <2>5. QED
    BY <1>0, <2>1, <2>3, <2>4
<1>3. CASE EvmDebit \/ NodeDebit
  BY <1>0, <1>3 DEF EvmDebit, NodeDebit
<1>4. CASE \E t \in Threads, a \in Accounts, amount \in Amounts : Deposit(t, a, amount)
  BY <1>0, <1>4 DEF Deposit
<1>5. QED
  BY <1>1, <1>2, <1>3, <1>4, LedgerCases

\* Where a call is, which mutex is held and which index is installed.
ControlTypes ==
  /\ clobLock \in Threads \cup {"free"}
  /\ accountsLock \in {"evm", "free"}
  /\ pc \in [Threads -> {"idle", "matching", "push", "apply", "mark", "debit",
                         "health", "install"}]
  /\ {cell, index} \subseteq Prices \cup {NoMark}

LEMMA ControlStep ==
  ASSUME ControlTypes, BridgeNext
  PROVE  ControlTypes'
<1> USE DEF ControlTypes, Threads
<1> USE DEF oracle, locks
<1>1. CASE \E t \in Threads : MatchStep(t)
  <2>1. UNCHANGED bridgeVars
    BY <1>1 DEF MatchStep
  <2>2. QED
    BY <2>1 DEF bridgeVars
<1>2. ASSUME NEW t \in Threads, NEW o, CallSubmit(t, o)
      PROVE  ControlTypes'
  BY <1>2 DEF CallSubmit
<1>3. ASSUME NEW t \in Threads, SubmitDone(t)
      PROVE  ControlTypes'
  BY <1>3 DEF SubmitDone
<1>4. ASSUME NEW t \in Threads, Health(t) \/ HealthRead(t)
      PROVE  ControlTypes'
  BY <1>4 DEF Health, HealthRead
<1>5. CASE NodePush \/ NodeApply \/ EvmPush
  BY <1>5 DEF NodePush, NodeApply, EvmPush
<1>6. ASSUME NEW t, NEW a, NEW amount, Deposit(t, a, amount)
      PROVE  ControlTypes'
  BY <1>6 DEF Deposit
<1>7. ASSUME NEW a, NEW amount, EvmWithdraw(a, amount) \/ NodeWithdraw(a, amount)
      PROVE  ControlTypes'
  BY <1>7 DEF EvmWithdraw, NodeWithdraw
<1>8. CASE EvmDebit
  BY <1>8 DEF EvmDebit, UnlockAccounts
<1>9. CASE NodeDebit
  BY <1>9 DEF NodeDebit
<1>10. ASSUME NEW p \in Prices \cup {NoMark}, SetIndex(p)
       PROVE  ControlTypes'
  BY <1>10 DEF SetIndex
<1>11. CASE InstallIndex
  BY <1>11 DEF InstallIndex
<1>12. CASE BuildPayload
  BY <1>12 DEF BuildPayload
<1>13. QED
  BY <1>1, <1>2, <1>3, <1>4, <1>5, <1>6, <1>7, <1>8, <1>9, <1>10, <1>11, <1>12
     DEF BridgeNext, BridgeStep

\* The arguments of a call under way are those it was made with.
LEMMA RequestStep ==
  ASSUME IInv, CoreInv, BridgeNext
  PROVE  RequestInv'
<1>0. /\ BridgeTypeOK /\ LockInv /\ RequestInv /\ DOMAIN pc = Threads
      /\ DOMAIN request = Threads /\ DOMAIN held = Threads
  BY DEF CoreInv, BridgeTypeOK, RequestInv
<1>1. ASSUME UNCHANGED <<request, held>>,
             pc'["evm"] = "mark" => pc["evm"] = "mark",
             pc'["node"] = "debit" => pc["node"] = "debit"
      PROVE  RequestInv'
  BY <1>0, <1>1 DEF RequestInv, IsRequest
<1>2. ASSUME NEW t \in Threads, NEW x, pc' = [pc EXCEPT ![t] = x], UNCHANGED <<request, held>>,
             x \notin {"mark", "debit"}
      PROVE  RequestInv'
  BY <1>0, <1>1, <1>2, PcUpdate DEF Threads
<1>3. CASE \E t \in Threads : MatchStep(t)
  <2>1. UNCHANGED bridgeVars
    BY <1>3 DEF MatchStep
  <2>2. QED
    BY <1>1, <2>1 DEF bridgeVars, queries
<1>4. ASSUME NEW t \in Threads, NEW o, CallSubmit(t, o)
      PROVE  RequestInv'
  BY <1>2, <1>4 DEF CallSubmit, queries
<1>5. ASSUME NEW t \in Threads, SubmitDone(t)
      PROVE  RequestInv'
  <2>1. PICK x \in {"push", "idle"} : pc' = [pc EXCEPT ![t] = x] /\ UNCHANGED <<request, held>>
    BY <1>5 DEF SubmitDone, queries
  <2>2. QED
    BY <1>2, <2>1
<1>6. ASSUME NEW t \in Threads, Health(t) \/ HealthRead(t)
      PROVE  RequestInv'
  BY <1>2, <1>6 DEF Health, HealthRead, queries
<1>7. CASE NodePush \/ NodeApply \/ EvmPush \/ InstallIndex
  BY <1>2, <1>7 DEF NodePush, NodeApply, EvmPush, InstallIndex, queries, Threads
<1>8. ASSUME NEW t, NEW a, NEW amount, Deposit(t, a, amount)
      PROVE  RequestInv'
  BY <1>1, <1>8 DEF Deposit, queries
<1>9. ASSUME NEW a \in Accounts, NEW amount \in 1..MaxAmount, EvmWithdraw(a, amount)
      PROVE  RequestInv'
  <2>1. /\ request' = [request EXCEPT !["evm"] = Request(a, amount)] /\ held' = held
        /\ pc' = [pc EXCEPT !["evm"] = "mark"]
    BY <1>9 DEF EvmWithdraw
  <2>2. pc'["node"] = pc["node"]
    BY <1>0, <2>1, PcUpdate DEF Threads
  <2>3. IsRequest(Request(a, amount))
    BY DEF IsRequest, Request
  <2>4. /\ DOMAIN request' = Threads /\ request'["evm"] = Request(a, amount)
        /\ request'["node"] = request["node"]
    BY <1>0, <2>1 DEF Threads
  <2>5. QED
    BY <1>0, <2>1, <2>2, <2>3, <2>4 DEF RequestInv, IsRequest
<1>10. ASSUME NEW a \in Accounts, NEW amount \in 1..MaxAmount, NodeWithdraw(a, amount)
       PROVE  RequestInv'
  <2>1. /\ request' = [request EXCEPT !["node"] = Request(a, amount)]
        /\ held' = [held EXCEPT !["node"] = EffectiveMark("node")]
        /\ pc' = [pc EXCEPT !["node"] = "debit"]
    BY <1>10 DEF NodeWithdraw
  <2>2. pc'["evm"] = pc["evm"]
    BY <1>0, <2>1, PcUpdate DEF Threads
  <2>3. IsRequest(Request(a, amount)) /\ EffectiveMark("node") \in Int
    BY <1>0, MarkType DEF IsRequest, Request, Threads
  <2>4. /\ DOMAIN request' = Threads /\ request'["node"] = Request(a, amount)
        /\ request'["evm"] = request["evm"]
        /\ DOMAIN held' = Threads /\ held'["node"] = EffectiveMark("node")
    BY <1>0, <2>1 DEF Threads
  <2>5. QED
    BY <1>0, <2>1, <2>2, <2>3, <2>4 DEF RequestInv, IsRequest
<1>11. CASE EvmDebit
  <2>1. /\ request' = [request EXCEPT !["evm"] = NoRequest] /\ held' = held
        /\ pc' = [pc EXCEPT !["evm"] = "idle"]
    BY <1>11 DEF EvmDebit
  <2>2. pc'["node"] = pc["node"] /\ pc'["evm"] = "idle"
    BY <1>0, <2>1, PcUpdate DEF Threads
  <2>3. DOMAIN request' = Threads /\ request'["node"] = request["node"]
    BY <1>0, <2>1 DEF Threads
  <2>4. QED
    BY <1>0, <2>1, <2>2, <2>3 DEF RequestInv, IsRequest
<1>12. CASE NodeDebit
  <2>1. /\ request' = [request EXCEPT !["node"] = NoRequest]
        /\ held' = [held EXCEPT !["node"] = NoMark]
        /\ pc' = [pc EXCEPT !["node"] = "idle"]
    BY <1>12 DEF NodeDebit
  <2>2. pc'["evm"] = pc["evm"] /\ pc'["node"] = "idle"
    BY <1>0, <2>1, PcUpdate DEF Threads
  <2>3. DOMAIN request' = Threads /\ DOMAIN held' = Threads /\ request'["evm"] = request["evm"]
    BY <1>0, <2>1 DEF Threads
  <2>4. QED
    BY <1>0, <2>1, <2>2, <2>3 DEF RequestInv, IsRequest
<1>13. ASSUME NEW p, SetIndex(p)
       PROVE  RequestInv'
  <2>1. pc' = [pc EXCEPT !["node"] = "install"] /\ UNCHANGED <<request, held>> /\ "node" \in Threads
    BY <1>13 DEF SetIndex, queries, Threads
  <2>2. QED
    BY <1>2, <2>1
<1>14. CASE BuildPayload
  BY <1>1, <1>14 DEF BuildPayload, queries
<1>15. QED
  BY <1>3, <1>4, <1>5, <1>6, <1>7, <1>8, <1>9, <1>10, <1>11, <1>12, <1>13, <1>14
     DEF BridgeNext, BridgeStep, Threads

\* The boot leaves an account map of flat accounts, or of one open pair.
LEMMA InitAccounts ==
  ASSUME BridgeInit
  PROVE  /\ accounts \in [Accounts -> Account]
         /\ \A a \in Accounts : /\ accounts[a].avg \in {0, 1} /\ accounts[a].collateral = 0
                                /\ accounts[a].size \in {-1, 0, 1}
                                /\ cash[a] = -(accounts[a].avg * accounts[a].size)
                                /\ slack[a] = 0
         /\ HistoryTypes
<1>1. Flat \in Account /\ Flat.avg = 0 /\ Flat.size = 0 /\ Flat.collateral = 0
  BY DEF Flat, Account
<1>2. ASSUME NEW a \in Accounts
      PROVE  /\ accounts[a] \in Account /\ accounts[a].avg \in {0, 1}
             /\ accounts[a].collateral = 0 /\ accounts[a].size \in {-1, 0, 1}
  <2>1. CASE accounts = [b \in Accounts |-> Flat]
    BY <1>1, <2>1
  <2>2. CASE accounts = OnePairOpen
    <3>4. accounts[a] \in {Flat, [size |-> 1, avg |-> 1, collateral |-> 0],
                           [size |-> -1, avg |-> 1, collateral |-> 0]}
      BY <2>2 DEF OnePairOpen
    <3>5. QED
      BY <1>1, <3>4 DEF Account
  <2>3. QED
    BY <2>1, <2>2 DEF BridgeInit
<1>3. DOMAIN accounts = Accounts /\ accounts = [a \in Accounts |-> accounts[a]]
  BY DEF BridgeInit, OnePairOpen
<1>4. accounts \in [Accounts -> Account]
  BY <1>2, <1>3
<1>5. /\ cash = [a \in Accounts |-> -(accounts[a].avg * accounts[a].size)]
      /\ slack = [a \in Accounts |-> 0]
  BY DEF BridgeInit
<1>6. ASSUME NEW a \in Accounts
      PROVE  cash[a] \in Int /\ cash[a] = -(accounts[a].avg * accounts[a].size) /\ slack[a] = 0
  <2>1. accounts[a].avg \in Int /\ accounts[a].size \in Int
    BY <1>2
  <2>2. -(accounts[a].avg * accounts[a].size) \in Int
    BY <2>1
  <2>3. QED
    BY <1>5, <2>2
<1>7. HistoryTypes
  BY <1>5, <1>6 DEF HistoryTypes
<1>8. QED
  BY <1>2, <1>4, <1>6, <1>7

LEMMA InitCore == BridgeInit => CoreInv
<1> SUFFICES ASSUME BridgeInit PROVE CoreInv
  OBVIOUS
<1>1. accounts \in [Accounts -> Account] /\ HistoryTypes
  BY InitAccounts
<1>2. /\ cell \in Prices \cup {NoMark} /\ index = cell
      /\ known \subseteq Accounts
  BY ClobAssumption DEF BridgeInit, Prices
<1>3. /\ pc = [t \in Threads |-> "idle"] /\ clobLock = "free" /\ accountsLock = "free"
      /\ request = [t \in Threads |-> NoRequest] /\ held = [t \in Threads |-> NoMark]
      /\ SeedMarkOrders
  BY DEF BridgeInit
<1>4. BridgeTypeOK
  BY <1>1, <1>2, <1>3 DEF BridgeTypeOK
<1>5. matching = FALSE /\ fills = <<>>
  BY <1>3 DEF SeedMarkOrders
<1>6. LockInv
  BY <1>3, <1>5 DEF LockInv, Threads
<1>7. RequestInv
  BY <1>3 DEF RequestInv, Threads
<1>8. FillsInv
  <2>1. Len(fills) = 0 /\ 1..0 = {}
    BY <1>5
  <2>2. FilledQty = 0
    BY <2>1, SumEmpty DEF FilledQty
  <2>3. Len(log) = 2
    BY <1>3 DEF SeedMarkOrders
  <2>4. QED
    BY <1>5, <2>1, <2>2, <2>3, BridgeAssumption, ClobAssumption DEF FillsInv
<1>9. QED
  BY <1>1, <1>4, <1>6, <1>7, <1>8 DEF CoreInv

LEMMA StutterCore ==
  ASSUME CoreInv, UNCHANGED allVars
  PROVE  CoreInv'
<1>1. UNCHANGED <<vars, locks, pc, ledger, buffers, queries, oracle, executed, loaded, calls>>
  BY DEF allVars, bridgeVars
<1>2. /\ UNCHANGED <<book, levels, matching, remaining, fills, log>>
      /\ UNCHANGED <<clobLock, accountsLock, pc, accounts, known, cash, slack, request, held>>
      /\ UNCHANGED <<cell, index>>
  BY <1>1 DEF vars, locks, ledger, queries, oracle
<1>3. BridgeTypeOK' /\ HistoryTypes'
  BY <1>2 DEF CoreInv, BridgeTypeOK, HistoryTypes
<1>4. LockInv' /\ RequestInv'
  BY <1>2 DEF CoreInv, LockInv, RequestInv, IsRequest
<1>5. FillsInv'
  BY <1>2 DEF CoreInv, FillsInv, FilledQty
<1>6. QED
  BY <1>3, <1>4, <1>5 DEF CoreInv

LEMMA CoreStep == IInv /\ CoreInv /\ [BridgeNext]_allVars => CoreInv'
<1> SUFFICES ASSUME IInv, CoreInv, [BridgeNext]_allVars PROVE CoreInv'
  OBVIOUS
<1>1. CASE BridgeNext
  <2>1. matching \in BOOLEAN /\ BridgeTypeOK /\ LockInv /\ FillsInv
    BY DEF IInv, TypeOK, CoreInv
  <2>2. LockInv'
    BY <1>1, <2>1, LockStep
  <2>3. FillsInv'
    BY <1>1, <2>1, BridgeStepIsBookStep, FillsStep
  <2>4. RequestInv'
    BY <1>1, RequestStep
  <2>5. accounts' \in [Accounts -> Account] /\ HistoryTypes' /\ known' \subseteq Accounts
    BY <1>1, AccountsStep, KnownStep
  <2>6. ControlTypes'
    <3>1. ControlTypes
      BY <2>1 DEF BridgeTypeOK, ControlTypes
    <3>2. QED
      BY <1>1, <3>1, ControlStep
  <2>7. BridgeTypeOK'
    BY <2>5, <2>6 DEF ControlTypes, BridgeTypeOK
  <2>8. QED
    BY <2>2, <2>3, <2>4, <2>5, <2>7 DEF CoreInv
<1>2. CASE UNCHANGED allVars
  BY <1>2, StutterCore
<1>3. QED
  BY <1>1, <1>2

\* The bridge's state keeps its types and each mutex has at most one holder,
\* the thread whose call is where it needs it; a matching loop runs under the
\* book's mutex, apply_fills_to_accounts under both (submit_order, place_order
\* and the withdraw precompile).
THEOREM MutexesHeld == BridgeSpec => [](BridgeTypeOK /\ LockInv)
<1>1. BridgeInit => CoreInv
  BY InitCore
<1>2. CoreInv => BridgeTypeOK /\ LockInv
  BY DEF CoreInv
<1>3. QED
  BY <1>1, <1>2, CoreStep, BridgeKeepsBook, PTL DEF BridgeSpec

-----------------------------------------------------------------------------
(* Withdrawals.                                                            *)

\* Only the withdrawal itself takes a thread out of a withdrawal.
LEMMA OnlyDebitLeaves ==
  ASSUME CoreInv, BridgeNext
  PROVE  /\ pc["evm"] = "mark" => pc'["evm"] = "mark" \/ EvmDebit
         /\ pc["node"] = "debit" => pc'["node"] = "debit" \/ NodeDebit
<1> DEFINE Stays == /\ pc["evm"] = "mark" => pc'["evm"] = "mark"
                    /\ pc["node"] = "debit" => pc'["node"] = "debit"
<1>0. DOMAIN pc = Threads /\ LockInv
  BY DEF CoreInv, BridgeTypeOK
<1>1. ASSUME NEW t \in Threads, NEW x, pc' = [pc EXCEPT ![t] = x], pc[t] \notin {"mark", "debit"}
      PROVE  Stays
  BY <1>0, <1>1, PcUpdate DEF Threads
<1>2. CASE \E t \in Threads : MatchStep(t)
  <2>1. UNCHANGED bridgeVars
    BY <1>2 DEF MatchStep
  <2>2. QED
    BY <2>1 DEF bridgeVars
<1>3. ASSUME NEW t \in Threads, NEW o, CallSubmit(t, o)
      PROVE  Stays
  <2>1. pc' = [pc EXCEPT ![t] = "matching"] /\ pc[t] = "idle"
    BY <1>3 DEF CallSubmit
  <2>2. QED
    BY <1>1, <2>1
<1>4. ASSUME NEW t \in Threads, SubmitDone(t)
      PROVE  Stays
  <2>1. PICK x \in {"push", "idle"} : pc' = [pc EXCEPT ![t] = x] /\ pc[t] = "matching"
    BY <1>4 DEF SubmitDone
  <2>2. QED
    BY <1>1, <2>1
<1>5. ASSUME NEW t \in Threads, Health(t) \/ HealthRead(t)
      PROVE  Stays
  <2>1. PICK x \in {"health", "idle"} : pc' = [pc EXCEPT ![t] = x] /\ pc[t] \in {"idle", "health"}
    BY <1>5 DEF Health, HealthRead
  <2>2. QED
    BY <1>1, <2>1
<1>6. CASE NodePush \/ NodeApply \/ InstallIndex
  <2>1. PICK x \in {"apply", "idle"} :
          pc' = [pc EXCEPT !["node"] = x] /\ pc["node"] \in {"push", "apply", "install"}
    BY <1>6 DEF NodePush, NodeApply, InstallIndex
  <2>2. QED
    BY <1>1, <2>1 DEF Threads
<1>7. CASE EvmPush
  <2>1. pc' = [pc EXCEPT !["evm"] = "idle"] /\ pc["evm"] = "push"
    BY <1>7 DEF EvmPush
  <2>2. QED
    BY <1>1, <2>1 DEF Threads
<1>8. ASSUME NEW t, NEW a, NEW amount, Deposit(t, a, amount)
      PROVE  Stays
  BY <1>8 DEF Deposit
<1>9. ASSUME NEW a, NEW amount, EvmWithdraw(a, amount)
      PROVE  Stays
  <2>1. pc' = [pc EXCEPT !["evm"] = "mark"] /\ pc["evm"] = "idle"
    BY <1>9 DEF EvmWithdraw
  <2>2. QED
    BY <1>1, <2>1 DEF Threads
<1>10. ASSUME NEW a, NEW amount, NodeWithdraw(a, amount)
       PROVE  Stays
  <2>1. pc' = [pc EXCEPT !["node"] = "debit"] /\ pc["node"] = "idle"
    BY <1>10 DEF NodeWithdraw
  <2>2. QED
    BY <1>1, <2>1 DEF Threads
<1>11. ASSUME NEW p, SetIndex(p)
       PROVE  Stays
  <2>1. pc' = [pc EXCEPT !["node"] = "install"] /\ pc["node"] = "idle"
    BY <1>11 DEF SetIndex
  <2>2. QED
    BY <1>1, <2>1 DEF Threads
<1>12. CASE EvmDebit
  <2>1. pc' = [pc EXCEPT !["evm"] = "idle"]
    BY <1>12 DEF EvmDebit
  <2>2. QED
    BY <1>0, <1>12, <2>1, PcUpdate DEF Threads
<1>13. CASE NodeDebit
  <2>1. pc' = [pc EXCEPT !["node"] = "idle"]
    BY <1>13 DEF NodeDebit
  <2>2. QED
    BY <1>0, <1>13, <2>1, PcUpdate DEF Threads
<1>14. CASE BuildPayload
  BY <1>14 DEF BuildPayload
<1>15. Stays \/ EvmDebit \/ NodeDebit
  BY <1>2, <1>3, <1>4, <1>5, <1>6, <1>7, <1>8, <1>9, <1>10, <1>11, <1>12, <1>13, <1>14
     DEF BridgeNext, BridgeStep, Threads
<1>16. QED
  BY <1>12, <1>13, <1>15

\* Taking out no more than the free collateral leaves none missing.
LEMMA WithdrawLeaves ==
  ASSUME NEW acct \in Account, NEW after \in Account, NEW amount \in Nat, NEW m \in Int,
         after.size = acct.size, after.avg = acct.avg,
         after.collateral = acct.collateral - amount, amount > 0,
         amount <= WithdrawFreeCollateral(acct, m)
  PROVE  WithdrawFreeCollateral(after, m) >= 0
<1>1. \A k \in Int : InitialMarginAt(after, k) = InitialMarginAt(acct, k)
  BY DEF InitialMarginAt
<1>2. UnrealizedPnl(after, m) = UnrealizedPnl(acct, m)
  BY DEF UnrealizedPnl
<1>3. acct.collateral \in Int /\ acct.avg \in Int /\ after.avg = acct.avg
  BY DEF Account
<1>4. ASSUME NEW v \in Int, amount <= Saturate(v)
      PROVE  Saturate(v - amount) >= 0
  BY <1>4, ClearingAssumption DEF Saturate
<1>5. CASE m = NoMark
  <2> DEFINE k == InitialMarginAt(acct, acct.avg)
             v == acct.collateral - k
  <2>1. k \in Int
    BY <1>3, FreeInt
  <2>2. /\ WithdrawFreeCollateral(acct, m) = Saturate(v)
        /\ WithdrawFreeCollateral(after, m) = Saturate((acct.collateral - amount) - k)
    BY <1>1, <1>3, <1>5 DEF WithdrawFreeCollateral
  <2> HIDE DEF k
  <2>3. v \in Int /\ (acct.collateral - amount) - k = v - amount
    BY <1>3, <2>1
  <2> HIDE DEF v
  <2>4. QED
    BY <1>4, <2>2, <2>3
<1>6. CASE m # NoMark
  <2> DEFINE k == InitialMarginAt(acct, m)
             u == UnrealizedPnl(acct, m)
             v == acct.collateral + u - k
  <2>1. k \in Int /\ u \in Int
    BY FreeInt
  <2>2. /\ WithdrawFreeCollateral(acct, m) = Saturate(v)
        /\ WithdrawFreeCollateral(after, m) = Saturate((acct.collateral - amount) + u - k)
    BY <1>1, <1>2, <1>6 DEF WithdrawFreeCollateral, FreeCollateral
  <2> HIDE DEF k, u
  <2>3. v \in Int /\ (acct.collateral - amount) + u - k = v - amount
    BY <1>3, <2>1
  <2> HIDE DEF v
  <2>4. QED
    BY <1>4, <2>2, <2>3
<1>7. QED
  BY <1>5, <1>6

\* One debit, of what Paid allows.
LEMMA PaidLeaves ==
  ASSUME BridgeTypeOK, HistoryTypes, NEW a, NEW amount \in 1..MaxAmount, NEW m \in Int,
         NEW paid \in {Paid(accounts[a], amount, m), 0},
         Sets(a, accounts[a].collateral - paid, cash[a] - paid),
         accounts'[a].collateral < accounts[a].collateral
  PROVE  WithdrawFreeCollateral(accounts'[a], m) >= 0
<1>1. /\ accounts' \in [Accounts -> Account] /\ a \in Accounts
      /\ accounts'[a].collateral = accounts[a].collateral - paid
      /\ accounts'[a].size = accounts[a].size /\ accounts'[a].avg = accounts[a].avg
  BY SetsParts
<1>2. accounts[a] \in Account /\ accounts'[a] \in Account /\ accounts[a].collateral \in Int
  BY <1>1 DEF BridgeTypeOK, Account
<1>3. amount \in Nat /\ amount > 0
  BY BridgeAssumption
<1>4. paid # 0
  BY <1>1, <1>2
<1>5. paid = amount /\ amount <= WithdrawFreeCollateral(accounts[a], m)
  BY <1>4 DEF Paid
<1>6. PICK x \in Account, y \in Account : x = accounts[a] /\ y = accounts'[a]
  BY <1>2
<1>7. y.size = x.size /\ y.avg = x.avg /\ y.collateral = x.collateral - amount
  BY <1>1, <1>5, <1>6
<1>8. WithdrawFreeCollateral(y, m) >= 0
  BY <1>3, <1>5, <1>6, <1>7, WithdrawLeaves
<1>9. QED
  BY <1>6, <1>8

\* What WithdrawalsLeaveMargin says of one step.
MarginLeft(t) ==
  LET a == request[t].account
      m == IF t = "node" THEN held[t] ELSE EffectiveMark(t)
  IN /\ pc[t] \in {"mark", "debit"} /\ pc'[t] = "idle"
     /\ accounts'[a].collateral < accounts[a].collateral
     => WithdrawFreeCollateral(accounts'[a], m) >= 0

LEMMA StepLeavesMargin ==
  ASSUME IInv, CoreInv, BridgeNext, NEW t \in Threads
  PROVE  MarginLeft(t)
<1>0. BridgeTypeOK /\ HistoryTypes /\ LockInv
  BY DEF CoreInv
<1> SUFFICES ASSUME pc[t] \in {"mark", "debit"}, pc'[t] = "idle",
                    accounts'[request[t].account].collateral
                      < accounts[request[t].account].collateral
             PROVE  WithdrawFreeCollateral(accounts'[request[t].account],
                      IF t = "node" THEN held[t] ELSE EffectiveMark(t)) >= 0
  BY DEF MarginLeft
<1>1. CASE t = "evm"
  <2>1. pc["evm"] = "mark"
    BY <1>0, <1>1 DEF LockInv
  <2>2. EvmDebit
    BY <1>1, <2>1, OnlyDebitLeaves
  <2> DEFINE r == request["evm"]
  <2>3. PICK paid \in 0..MaxAmount :
          /\ r.account \in Accounts /\ r.amount \in 1..MaxAmount
          /\ paid = Paid(accounts[r.account], r.amount, EffectiveMark("evm"))
          /\ Sets(r.account, accounts[r.account].collateral - paid, cash[r.account] - paid)
    BY <2>2, EvmDebitParts
  <2>4. EffectiveMark("evm") \in Int
    BY <1>0, MarkType DEF Threads
  <2>5. paid \in {Paid(accounts[r.account], r.amount, EffectiveMark("evm")), 0}
    BY <2>3
  <2>6. accounts'[r.account].collateral < accounts[r.account].collateral
    BY <1>1
  <2>7. WithdrawFreeCollateral(accounts'[r.account], EffectiveMark("evm")) >= 0
    <3> HIDE DEF r
    <3>1. PICK a \in Accounts, k \in 1..MaxAmount, m \in Int :
            a = r.account /\ k = r.amount /\ m = EffectiveMark("evm")
      BY <2>3, <2>4
    <3>2. QED
      BY <1>0, <2>3, <2>5, <2>6, <3>1, PaidLeaves
  <2>8. QED
    BY <1>1, <2>7
<1>2. CASE t = "node"
  <2>1. pc["node"] = "debit"
    BY <1>0, <1>2 DEF LockInv
  <2>2. NodeDebit
    BY <1>2, <2>1, OnlyDebitLeaves
  <2> DEFINE r == request["node"]
  <2>3. PICK paid \in 0..MaxAmount :
          /\ r.account \in Accounts /\ r.amount \in 1..MaxAmount /\ held["node"] \in Int
          /\ paid \in {Paid(accounts[r.account], r.amount, held["node"]), 0}
          /\ Sets(r.account, accounts[r.account].collateral - paid, cash[r.account] - paid)
    BY <2>2, NodeDebitParts
  <2>4. accounts'[r.account].collateral < accounts[r.account].collateral
    BY <1>2
  <2>5. WithdrawFreeCollateral(accounts'[r.account], held["node"]) >= 0
    <3> HIDE DEF r
    <3>1. PICK a \in Accounts, k \in 1..MaxAmount, m \in Int :
            a = r.account /\ k = r.amount /\ m = held["node"]
      BY <2>3
    <3>2. QED
      BY <1>0, <2>3, <2>4, <3>1, PaidLeaves
  <2>6. QED
    BY <1>2, <2>5
<1>3. QED
  BY <1>1, <1>2 DEF Threads

\* A withdrawal, of the bridge or the precompile, leaves the account its
\* margin at the mark the call has read, whatever the other thread did in
\* between and however the amounts saturate.
THEOREM MarginKept == BridgeSpec => WithdrawalsLeaveMargin
<1>1. IInv /\ CoreInv /\ [BridgeNext]_allVars => [\A t \in Threads : MarginLeft(t)]_allVars
  BY StepLeavesMargin
<1>2. BridgeInit => CoreInv
  BY InitCore
<1>3. BridgeSpec => [][\A t \in Threads : MarginLeft(t)]_allVars
  BY <1>1, <1>2, CoreStep, BridgeKeepsBook, PTL DEF BridgeSpec
<1>4. QED
  BY <1>3 DEF WithdrawalsLeaveMargin, MarginLeft

-----------------------------------------------------------------------------
(* The way of a fill from the book to a payload.                           *)

\* How often f is in two sequences, one after the other.
LEMMA OccurrencesConcat ==
  ASSUME NEW S, NEW fs \in Seq(S), NEW gs \in Seq(S), NEW f
  PROVE  /\ Occurrences(f, fs) \in Nat /\ Occurrences(f, gs) \in Nat
         /\ Occurrences(f, fs \o gs) = Occurrences(f, fs) + Occurrences(f, gs)
<1> DEFINE n == Len(fs)
           m == Len(gs)
           hs == fs \o gs
           A == {i \in 1..n : fs[i] = f}
           B == {i \in 1..m : gs[i] = f}
           C == {i \in 1..Len(hs) : hs[i] = f}
           D == {n + i : i \in B}
           g == [i \in B |-> n + i]
<1>1. /\ n \in Nat /\ m \in Nat /\ Len(hs) = n + m
      /\ \A i \in 1..n : hs[i] = fs[i]
      /\ \A i \in 1..m : hs[n + i] = gs[i]
  OBVIOUS
<1>2. IsFiniteSet(1..n) /\ IsFiniteSet(1..m)
  BY <1>1, FS_Interval
<1>3. IsFiniteSet(A) /\ IsFiniteSet(B) /\ Cardinality(A) \in Nat /\ Cardinality(B) \in Nat
  <2>1. A \in SUBSET (1..n) /\ B \in SUBSET (1..m)
    OBVIOUS
  <2> HIDE DEF A, B
  <2>2. QED
    BY <1>2, <2>1, FS_Subset, FS_CardinalityType
<1> HIDE DEF hs, n, m
<1>4. C = A \cup D
  <2>1. ASSUME NEW i \in C PROVE i \in A \cup D
    <3>1. i \in 1..(n + m) /\ hs[i] = f
      BY <1>1
    <3>2. CASE i \in 1..n
      BY <1>1, <3>1, <3>2
    <3>3. CASE i \notin 1..n
      <4>1. i - n \in 1..m /\ n + (i - n) = i
        BY <1>1, <3>1, <3>3
      <4>2. gs[i - n] = f
        BY <1>1, <3>1, <4>1
      <4>3. i - n \in B
        BY <4>1, <4>2
      <4>4. QED
        BY <4>1, <4>3
    <3>4. QED
      BY <3>2, <3>3
  <2>2. ASSUME NEW i \in A PROVE i \in C
    <3>1. i \in 1..(n + m) /\ hs[i] = f
      BY <1>1
    <3>2. QED
      BY <1>1, <3>1
  <2>3. ASSUME NEW i \in D PROVE i \in C
    <3>1. PICK j \in B : i = n + j
      OBVIOUS
    <3>2. j \in 1..m /\ gs[j] = f
      OBVIOUS
    <3>3. i \in 1..(n + m) /\ hs[i] = f
      BY <1>1, <3>1, <3>2
    <3>4. QED
      BY <1>1, <3>3
  <2> HIDE DEF A, C, D
  <2>4. QED
    BY <2>1, <2>2, <2>3
<1>5. A \cap D = {}
  <2> SUFFICES ASSUME NEW i \in A, i \in D PROVE FALSE
    OBVIOUS
  <2>1. PICK j \in B : i = n + j
    OBVIOUS
  <2>2. j \in 1..m /\ i \in 1..n
    OBVIOUS
  <2>3. QED
    BY <1>1, <2>1, <2>2
<1>6. g \in Bijection(B, D)
  <2>1. g \in [B -> D]
    OBVIOUS
  <2>2. \A i, j \in B : g[i] = g[j] => i = j
    BY <1>1
  <2>3. \A d \in D : \E i \in B : g[i] = d
    OBVIOUS
  <2>4. QED
    BY <2>1, <2>2, <2>3 DEF Bijection, Injection, Surjection, IsInjective
<1>7. ExistsBijection(B, D)
  BY <1>6 DEF ExistsBijection
<1> HIDE DEF A, B, C, D, g
<1>8. IsFiniteSet(D) /\ Cardinality(D) = Cardinality(B)
  BY <1>3, <1>7, FS_Bijection
<1>9. Cardinality(A \cup D) = Cardinality(A) + Cardinality(D) - Cardinality(A \cap D)
  BY <1>3, <1>8, FS_Union
<1>10. Cardinality(A \cap D) = 0
  BY <1>5, FS_EmptySet
<1>11. Cardinality(C) = Cardinality(A) + Cardinality(B)
  BY <1>3, <1>4, <1>8, <1>9, <1>10
<1>12. QED
  BY <1>3, <1>11 DEF A, B, C, hs, n, m, Occurrences

LEMMA OccurrencesNone ==
  ASSUME NEW f
  PROVE  Occurrences(f, <<>>) = 0
<1>1. {i \in 1..Len(<<>>) : <<>>[i] = f} = {}
  OBVIOUS
<1>2. QED
  BY <1>1, FS_EmptySet DEF Occurrences

\* Leaving the matching loop, a submit leaves its fills as they are.
LEMMA FillsKept ==
  ASSUME IInv, FillsInv, NEW t \in Threads, Rest \/ Return
  PROVE  BridgeFills(t)' = BridgeFills(t)
<1>0. TypeOK /\ Len(log) \in Nat /\ matching /\ fills \in Seq(Fill) /\ remaining \in Nat
  BY Basics DEF IInv, TypeOK, Rest, Return
<1>1. fills' = fills
  BY DEF Rest, Return
<1>2. Len(log) \in 1..Len(log)
  BY <1>0 DEF FillsInv
<1>3. log'[Len(log)].order = log[Len(log)].order
  <2>1. CASE Rest
    BY <2>1 DEF Rest
  <2>2. CASE Return
    <3>1. log' = [log EXCEPT ![Len(log)].closed = remaining]
      BY <2>2 DEF Return
    <3>2. \A n \in 1..Len(log) : log'[n].order = log[n].order
      BY <1>0, <1>2, <3>1, CloseEntry
    <3>3. QED
      BY <1>2, <3>2
  <2>3. QED
    BY <2>1, <2>2
<1>4. \A i \in 1..Len(fills) : log'[fills[i].taker].order.account = log[fills[i].taker].order.account
  BY <1>3 DEF FillsInv
<1>5. QED
  BY <1>1, <1>4 DEF BridgeFills, BridgeFill

\* Where an account of the fills can change.
LEMMA DeliveryStep ==
  ASSUME IInv, CoreInv, DeliveryInv, BridgeNext
  PROVE  DeliveryInv'
<1>0. /\ BridgeTypeOK /\ LockInv /\ FillsInv /\ DOMAIN pc = Threads
      /\ executed \in Seq(AccountFill) /\ attached \in Seq(AccountFill)
      /\ pending \in Seq(AccountFill) /\ unsent \in Seq(AccountFill)
      /\ "node" \in Threads /\ "evm" \in Threads
  BY DEF CoreInv, BridgeTypeOK, DeliveryInv, Threads
<1>1. \A t \in Threads : BridgeFills(t) \in Seq(AccountFill)
  BY <1>0, BridgeFillsType
<1>2. InFlight \in Seq(AccountFill) /\ <<>> \in Seq(AccountFill)
  BY <1>0, <1>1 DEF InFlight
<1>3. \A f \in AccountFill :
        /\ Occurrences(f, executed) \in Nat /\ Occurrences(f, attached) \in Nat
        /\ Occurrences(f, pending) \in Nat /\ Occurrences(f, unsent) \in Nat
        /\ Occurrences(f, InFlight) \in Nat
        /\ Occurrences(f, executed) =
             Occurrences(f, attached) + Occurrences(f, pending)
               + Occurrences(f, unsent) + Occurrences(f, InFlight)
  BY <1>0, <1>2, OccurrencesConcat DEF DeliveryInv
<1>4. ASSUME UNCHANGED <<executed, attached, pending, unsent>>, InFlight' = InFlight,
             pc["evm"] = "push" => pc'["evm"] = "push"
      PROVE  DeliveryInv'
  BY <1>4 DEF DeliveryInv
<1>5. ASSUME UNCHANGED <<pending, unsent, attached, executed>>,
             UNCHANGED <<fills, log>>, pc'["node"] = "push" <=> pc["node"] = "push",
             pc["evm"] = "push" => pc'["evm"] = "push"
      PROVE  DeliveryInv'
  <2>1. InFlight' = InFlight
    BY <1>5 DEF InFlight, BridgeFills, BridgeFill
  <2>2. QED
    BY <1>4, <1>5, <2>1
<1>6. ASSUME NEW t \in Threads, NEW x, pc' = [pc EXCEPT ![t] = x],
             pc[t] # "push", x # "push",
             UNCHANGED <<pending, unsent, attached, executed>>, UNCHANGED <<fills, log>>
      PROVE  DeliveryInv'
  BY <1>0, <1>5, <1>6, PcUpdate DEF Threads
<1>7. ASSUME NEW t \in Threads, MatchStep(t)
      PROVE  DeliveryInv'
  <2>1. UNCHANGED bridgeVars /\ clobLock = t
    BY <1>7 DEF MatchStep
  <2>2. UNCHANGED <<executed, attached, pending, unsent, pc>>
    BY <2>1 DEF bridgeVars, buffers
  <2>3. pc["node"] # "push"
    BY <1>0, <1>7, <2>1 DEF LockInv, MatchStep
  <2>4. InFlight' = InFlight
    BY <2>2, <2>3 DEF InFlight
  <2>5. QED
    BY <1>4, <2>2, <2>4
<1>8. ASSUME NEW t \in Threads, NEW o, CallSubmit(t, o)
      PROVE  DeliveryInv'
  <2>1. /\ UNCHANGED <<executed, attached, pending, unsent>> /\ clobLock = "free"
        /\ pc' = [pc EXCEPT ![t] = "matching"] /\ pc[t] = "idle"
    BY <1>8 DEF CallSubmit, buffers
  <2>2. pc["node"] # "push" /\ pc'["node"] # "push" /\ (pc["evm"] = "push" => pc'["evm"] = "push")
    BY <1>0, <2>1, PcUpdate DEF LockInv, Threads
  <2>3. InFlight' = InFlight
    BY <2>2 DEF InFlight
  <2>4. QED
    BY <1>4, <2>1, <2>2, <2>3
<1>9. ASSUME SubmitDone("node")
      PROVE  DeliveryInv'
  <2> DEFINE fs == BridgeFills("node")
  <2>1. /\ executed' = executed \o fs /\ UNCHANGED <<attached, pending, unsent>>
        /\ pc' = [pc EXCEPT !["node"] = IF fills # <<>> THEN "push" ELSE "idle"]
        /\ pc["node"] = "matching" /\ (Rest \/ Return)
    BY <1>9 DEF SubmitDone
  <2>2. BridgeFills("node")' = fs
    BY <1>0, <2>1, FillsKept
  <2>3. fills = <<>> => fs = <<>>
    BY DEF BridgeFills
  <2>4. fs \in Seq(AccountFill)
    BY <1>0, <1>1
  <2> HIDE DEF fs
  <2>5. InFlight' = fs
    <3>1. CASE fills # <<>>
      BY <1>0, <2>1, <2>2, <3>1, PcUpdate DEF InFlight
    <3>2. CASE fills = <<>>
      <4>1. pc'["node"] = "idle"
        BY <1>0, <2>1, <3>2, PcUpdate
      <4>2. QED
        BY <2>3, <3>2, <4>1 DEF InFlight
    <3>3. QED
      BY <3>1, <3>2
  <2>6. InFlight = <<>>
    BY <2>1 DEF InFlight
  <2>7. pc'["evm"] = pc["evm"]
    BY <1>0, <2>1, PcUpdate
  <2>8. executed' \in Seq(AccountFill)
    BY <1>0, <2>1, <2>4
  <2>9. ASSUME NEW f \in AccountFill
        PROVE  Occurrences(f, executed)' =
                 Occurrences(f, attached)' + Occurrences(f, pending)'
                   + Occurrences(f, unsent)' + Occurrences(f, InFlight)'
    <3>1. /\ Occurrences(f, executed \o fs) = Occurrences(f, executed) + Occurrences(f, fs)
          /\ Occurrences(f, fs) \in Nat
      BY <1>0, <2>4, OccurrencesConcat
    <3>2. Occurrences(f, InFlight) = 0
      BY <2>6, OccurrencesNone
    <3>3. /\ Occurrences(f, executed)' = Occurrences(f, executed \o fs)
          /\ Occurrences(f, attached)' = Occurrences(f, attached)
          /\ Occurrences(f, pending)' = Occurrences(f, pending)
          /\ Occurrences(f, unsent)' = Occurrences(f, unsent)
          /\ Occurrences(f, InFlight)' = Occurrences(f, fs)
      BY <2>1, <2>5 DEF Occurrences
    <3>4. QED
      BY <1>3, <3>1, <3>2, <3>3
  <2>10. QED
    BY <1>0, <2>1, <2>7, <2>8, <2>9 DEF DeliveryInv
<1>10. ASSUME SubmitDone("evm")
       PROVE  DeliveryInv'
  <2> DEFINE fs == BridgeFills("evm")
  <2>1. /\ executed' = executed \o fs /\ UNCHANGED <<attached, pending>> /\ unsent' = fs
        /\ pc' = [pc EXCEPT !["evm"] = IF fills # <<>> THEN "push" ELSE "idle"]
        /\ pc["evm"] = "matching" /\ clobLock = "evm"
    BY <1>10 DEF SubmitDone
  <2>3. fills = <<>> => fs = <<>>
    BY DEF BridgeFills
  <2>4. fs \in Seq(AccountFill)
    BY <1>0, <1>1
  <2> HIDE DEF fs
  <2>5. pc'["node"] = pc["node"] /\ pc["node"] # "push"
    BY <1>0, <2>1, PcUpdate DEF LockInv
  <2>6. InFlight = <<>> /\ InFlight' = <<>>
    BY <2>5 DEF InFlight
  <2>7. pc'["evm"] # "push" => unsent' = <<>>
    BY <1>0, <2>1, <2>3, PcUpdate
  <2>8. executed' \in Seq(AccountFill) /\ unsent' \in Seq(AccountFill) /\ unsent = <<>>
    BY <1>0, <2>1, <2>4 DEF DeliveryInv
  <2>9. ASSUME NEW f \in AccountFill
        PROVE  Occurrences(f, executed)' =
                 Occurrences(f, attached)' + Occurrences(f, pending)'
                   + Occurrences(f, unsent)' + Occurrences(f, InFlight)'
    <3>1. /\ Occurrences(f, executed \o fs) = Occurrences(f, executed) + Occurrences(f, fs)
          /\ Occurrences(f, fs) \in Nat
      BY <1>0, <2>4, OccurrencesConcat
    <3>2. Occurrences(f, InFlight) = 0 /\ Occurrences(f, unsent) = 0
      BY <2>6, <2>8, OccurrencesNone
    <3>3. /\ Occurrences(f, executed)' = Occurrences(f, executed \o fs)
          /\ Occurrences(f, attached)' = Occurrences(f, attached)
          /\ Occurrences(f, pending)' = Occurrences(f, pending)
          /\ Occurrences(f, unsent)' = Occurrences(f, fs)
          /\ Occurrences(f, InFlight)' = Occurrences(f, InFlight)
      BY <2>1, <2>6 DEF Occurrences
    <3>4. QED
      BY <1>3, <3>1, <3>2, <3>3
  <2>10. QED
    BY <1>0, <2>1, <2>7, <2>8, <2>9 DEF DeliveryInv
<1>11. CASE NodePush
  <2> DEFINE fs == BridgeFills("node")
  <2>1. /\ pending' = pending \o fs /\ UNCHANGED <<attached, unsent, executed>>
        /\ pc' = [pc EXCEPT !["node"] = "apply"] /\ pc["node"] = "push"
    BY <1>11 DEF NodePush, Extended
  <2>2. fs \in Seq(AccountFill)
    BY <1>0, <1>1
  <2>3. InFlight = fs /\ InFlight' = <<>> /\ pc'["evm"] = pc["evm"]
    BY <1>0, <2>1, PcUpdate DEF InFlight
  <2> HIDE DEF fs
  <2>4. pending' \in Seq(AccountFill)
    BY <1>0, <2>1, <2>2
  <2>5. ASSUME NEW f \in AccountFill
        PROVE  Occurrences(f, executed)' =
                 Occurrences(f, attached)' + Occurrences(f, pending)'
                   + Occurrences(f, unsent)' + Occurrences(f, InFlight)'
    <3>1. Occurrences(f, pending \o fs) = Occurrences(f, pending) + Occurrences(f, fs)
      BY <1>0, <2>2, OccurrencesConcat
    <3>2. Occurrences(f, InFlight) = Occurrences(f, fs) /\ Occurrences(f, <<>>) = 0
      BY <2>3, OccurrencesNone
    <3>3. /\ Occurrences(f, executed)' = Occurrences(f, executed)
          /\ Occurrences(f, attached)' = Occurrences(f, attached)
          /\ Occurrences(f, pending)' = Occurrences(f, pending \o fs)
          /\ Occurrences(f, unsent)' = Occurrences(f, unsent)
          /\ Occurrences(f, InFlight)' = Occurrences(f, <<>>)
      BY <2>1, <2>3 DEF Occurrences
    <3>4. QED
      BY <1>3, <3>1, <3>2, <3>3
  <2>6. QED
    BY <1>0, <2>1, <2>3, <2>4, <2>5 DEF DeliveryInv
<1>12. CASE EvmPush
  <2>1. /\ pending' = pending \o unsent /\ unsent' = <<>> /\ UNCHANGED <<attached, executed>>
        /\ pc' = [pc EXCEPT !["evm"] = "idle"] /\ UNCHANGED <<fills, log>>
    BY <1>12 DEF EvmPush, Extended, vars
  <2>2. pc'["node"] = pc["node"]
    BY <1>0, <2>1, PcUpdate
  <2>3. InFlight' = InFlight
    BY <2>1, <2>2 DEF InFlight, BridgeFills, BridgeFill
  <2>4. pending' \in Seq(AccountFill) /\ unsent' \in Seq(AccountFill)
    BY <1>0, <1>2, <2>1
  <2>5. ASSUME NEW f \in AccountFill
        PROVE  Occurrences(f, executed)' =
                 Occurrences(f, attached)' + Occurrences(f, pending)'
                   + Occurrences(f, unsent)' + Occurrences(f, InFlight)'
    <3>1. Occurrences(f, pending \o unsent) = Occurrences(f, pending) + Occurrences(f, unsent)
      BY <1>0, OccurrencesConcat
    <3>2. Occurrences(f, <<>>) = 0
      BY OccurrencesNone
    <3>3. /\ Occurrences(f, executed)' = Occurrences(f, executed)
          /\ Occurrences(f, attached)' = Occurrences(f, attached)
          /\ Occurrences(f, pending)' = Occurrences(f, pending \o unsent)
          /\ Occurrences(f, unsent)' = Occurrences(f, <<>>)
          /\ Occurrences(f, InFlight)' = Occurrences(f, InFlight)
      BY <2>1, <2>3 DEF Occurrences
    <3>4. QED
      BY <1>3, <3>1, <3>2, <3>3
  <2>6. QED
    BY <1>0, <2>1, <2>4, <2>5 DEF DeliveryInv
<1>13. CASE BuildPayload
  <2>1. /\ attached' = attached \o pending /\ pending' = <<>> /\ UNCHANGED <<unsent, executed, pc>>
        /\ UNCHANGED <<fills, log>>
    BY <1>13 DEF BuildPayload, vars
  <2>3. InFlight' = InFlight
    BY <2>1 DEF InFlight, BridgeFills, BridgeFill
  <2>4. pending' \in Seq(AccountFill) /\ attached' \in Seq(AccountFill)
    BY <1>0, <1>2, <2>1
  <2>5. ASSUME NEW f \in AccountFill
        PROVE  Occurrences(f, executed)' =
                 Occurrences(f, attached)' + Occurrences(f, pending)'
                   + Occurrences(f, unsent)' + Occurrences(f, InFlight)'
    <3>1. Occurrences(f, attached \o pending) = Occurrences(f, attached) + Occurrences(f, pending)
      BY <1>0, OccurrencesConcat
    <3>2. Occurrences(f, <<>>) = 0
      BY OccurrencesNone
    <3>3. /\ Occurrences(f, executed)' = Occurrences(f, executed)
          /\ Occurrences(f, attached)' = Occurrences(f, attached \o pending)
          /\ Occurrences(f, pending)' = Occurrences(f, <<>>)
          /\ Occurrences(f, unsent)' = Occurrences(f, unsent)
          /\ Occurrences(f, InFlight)' = Occurrences(f, InFlight)
      BY <2>1, <2>3 DEF Occurrences
    <3>4. QED
      BY <1>3, <3>1, <3>2, <3>3
  <2>6. QED
    BY <1>0, <2>1, <2>4, <2>5 DEF DeliveryInv
<1> USE DEF buffers, vars
<1>14. ASSUME NEW t \in Threads, Health(t) \/ HealthRead(t)
       PROVE  DeliveryInv'
  <2>1. PICK x \in {"health", "idle"} : pc' = [pc EXCEPT ![t] = x] /\ pc[t] \in {"idle", "health"}
    BY <1>14 DEF Health, HealthRead
  <2>2. UNCHANGED <<pending, unsent, attached, executed>> /\ UNCHANGED <<fills, log>>
    BY <1>14 DEF Health, HealthRead
  <2>3. QED
    BY <1>6, <2>1, <2>2
<1>15. CASE NodeApply \/ InstallIndex \/ NodeDebit
  <2>1. pc' = [pc EXCEPT !["node"] = "idle"] /\ pc["node"] # "push"
    BY <1>15 DEF NodeApply, InstallIndex, NodeDebit
  <2>2. UNCHANGED <<pending, unsent, attached, executed>> /\ UNCHANGED <<fills, log>>
    BY <1>15 DEF NodeApply, InstallIndex, NodeDebit
  <2>3. QED
    BY <1>0, <1>6, <2>1, <2>2
<1>16. ASSUME NEW t, NEW a, NEW amount, Deposit(t, a, amount)
       PROVE  DeliveryInv'
  BY <1>5, <1>16 DEF Deposit
<1>17. ASSUME NEW a, NEW amount, EvmWithdraw(a, amount)
       PROVE  DeliveryInv'
  <2>1. pc' = [pc EXCEPT !["evm"] = "mark"] /\ pc["evm"] = "idle"
    BY <1>17 DEF EvmWithdraw
  <2>2. UNCHANGED <<pending, unsent, attached, executed>> /\ UNCHANGED <<fills, log>>
    BY <1>17 DEF EvmWithdraw
  <2>3. QED
    BY <1>0, <1>6, <2>1, <2>2
<1>18. ASSUME NEW a, NEW amount, NodeWithdraw(a, amount)
       PROVE  DeliveryInv'
  <2>1. pc' = [pc EXCEPT !["node"] = "debit"] /\ pc["node"] = "idle"
    BY <1>18 DEF NodeWithdraw
  <2>2. UNCHANGED <<pending, unsent, attached, executed>> /\ UNCHANGED <<fills, log>>
    BY <1>18 DEF NodeWithdraw
  <2>3. QED
    BY <1>0, <1>6, <2>1, <2>2
<1>19. CASE EvmDebit
  <2>1. pc' = [pc EXCEPT !["evm"] = "idle"] /\ pc["evm"] = "mark"
    BY <1>19 DEF EvmDebit
  <2>2. UNCHANGED <<pending, unsent, attached, executed>> /\ UNCHANGED <<fills, log>>
    BY <1>19 DEF EvmDebit
  <2>3. QED
    BY <1>0, <1>6, <2>1, <2>2
<1>20. ASSUME NEW p, SetIndex(p)
       PROVE  DeliveryInv'
  <2>1. pc' = [pc EXCEPT !["node"] = "install"] /\ pc["node"] = "idle"
    BY <1>20 DEF SetIndex
  <2>2. UNCHANGED <<pending, unsent, attached, executed>> /\ UNCHANGED <<fills, log>>
    BY <1>20 DEF SetIndex
  <2>3. QED
    BY <1>0, <1>6, <2>1, <2>2
<1>21. QED
  BY <1>7, <1>8, <1>9, <1>10, <1>11, <1>12, <1>13, <1>14, <1>15, <1>16, <1>17, <1>18, <1>19, <1>20
     DEF BridgeNext, BridgeStep, Threads

LEMMA InitDelivery == BridgeInit => DeliveryInv
<1> SUFFICES ASSUME BridgeInit PROVE DeliveryInv
  OBVIOUS
<1>1. /\ pending = <<>> /\ unsent = <<>> /\ attached = <<>> /\ executed = <<>>
      /\ pc["node"] = "idle" /\ <<>> \in Seq(AccountFill)
  BY DEF BridgeInit, Threads
<1>2. InFlight = <<>>
  BY <1>1 DEF InFlight
<1>3. \A f \in AccountFill : Occurrences(f, <<>>) = 0
  BY OccurrencesNone
<1>4. QED
  BY <1>1, <1>2, <1>3 DEF DeliveryInv

LEMMA DeliveryUnchanged ==
  ASSUME DeliveryInv, UNCHANGED allVars
  PROVE  DeliveryInv'
<1>1. UNCHANGED <<vars, pc, buffers, executed>>
  BY DEF allVars, bridgeVars
<1>2. UNCHANGED <<fills, log, pc, executed, attached, pending, unsent>>
  BY <1>1 DEF vars, buffers
<1>3. InFlight' = InFlight
  BY <1>2 DEF InFlight, BridgeFills, BridgeFill
<1>4. QED
  BY <1>2, <1>3 DEF DeliveryInv

LEMMA DeliveredOnce == IInv /\ CoreInv /\ DeliveryInv => FillsDeliveredOnce
<1> SUFFICES ASSUME IInv, CoreInv, DeliveryInv, NEW f \in ToSet(executed)
             PROVE  Occurrences(f, executed) =
                      Occurrences(f, attached \o pending \o unsent \o InFlight)
  BY DEF FillsDeliveredOnce
<1>1. /\ executed \in Seq(AccountFill) /\ attached \in Seq(AccountFill)
      /\ pending \in Seq(AccountFill) /\ unsent \in Seq(AccountFill)
  BY DEF DeliveryInv
<1>2. f \in AccountFill
  BY <1>1 DEF ToSet
<1>3. InFlight \in Seq(AccountFill)
  <2>1. BridgeFills("node") \in Seq(AccountFill)
    BY BridgeFillsType DEF CoreInv, Threads
  <2>2. QED
    BY <2>1 DEF InFlight
<1>4. Occurrences(f, executed) =
        Occurrences(f, attached) + Occurrences(f, pending)
          + Occurrences(f, unsent) + Occurrences(f, InFlight)
  BY <1>2 DEF DeliveryInv
<1>5. PICK ab \in Seq(AccountFill) : ab = attached \o pending
  <2>1. attached \o pending \in Seq(AccountFill)
    BY <1>1
  <2>2. QED
    BY <2>1
<1>6. PICK abc \in Seq(AccountFill) : abc = ab \o unsent
  <2>1. ab \o unsent \in Seq(AccountFill)
    BY <1>1
  <2>2. QED
    BY <2>1
<1>7. Occurrences(f, ab) = Occurrences(f, attached) + Occurrences(f, pending)
  BY <1>1, <1>5, OccurrencesConcat
<1>8. Occurrences(f, abc) = Occurrences(f, ab) + Occurrences(f, unsent)
  BY <1>1, <1>6, OccurrencesConcat
<1>9. Occurrences(f, abc \o InFlight) = Occurrences(f, abc) + Occurrences(f, InFlight)
  BY <1>3, OccurrencesConcat
<1>10. attached \o pending \o unsent \o InFlight = abc \o InFlight
  BY <1>5, <1>6
<1>11. QED
  BY <1>4, <1>7, <1>8, <1>9, <1>10

LEMMA BridgeCore == BridgeSpec => [](IInv /\ CoreInv)
<1>1. BridgeInit => CoreInv
  BY InitCore
<1>2. QED
  BY <1>1, CoreStep, BridgeKeepsBook, PTL DEF BridgeSpec

\* Every fill of the book reaches exactly one payload or is on its way to one,
\* although two threads append to the buffer and build_payload drains it
\* (submit_order, place_order and FILL_SINK, build_payload).
THEOREM FillsDelivered == BridgeSpec => []FillsDeliveredOnce
<1>1. BridgeInit => DeliveryInv
  BY InitDelivery
<1>2. IInv /\ CoreInv /\ DeliveryInv /\ [BridgeNext]_allVars => DeliveryInv'
  BY DeliveryStep, DeliveryUnchanged
<1>3. QED
  BY <1>1, <1>2, DeliveredOnce, BridgeCore, PTL DEF BridgeSpec

-----------------------------------------------------------------------------
(* What is in the accounts.                                                *)

CountInv == calls \in Nat /\ calls <= MaxCalls /\ Moved \in Nat

\* Orders are settled and amounts are moved one after the other: a
\* submit_order is settled by its last step, an amount is moved by a deposit
\* or by the second half of a withdrawal.
LEMMA CountStep ==
  ASSUME IInv, CoreInv, CountInv, BridgeNext
  PROVE  /\ CountInv' /\ Settled \in Nat /\ Settled' \in Nat
         /\ Settled <= Settled' /\ Moved <= Moved'
<1>0. /\ LockInv /\ FillsInv /\ DOMAIN pc = Threads /\ "node" \in Threads /\ "evm" \in Threads
      /\ Len(log) \in Nat /\ Len(log) >= 2 /\ TypeOK /\ MaxCalls \in Nat
  BY Basics, BridgeAssumption DEF CoreInv, BridgeTypeOK, Threads, IInv, FillsInv
<1>1. calls \in Nat /\ calls <= MaxCalls /\ Moved \in Nat
  BY DEF CountInv
<1> DEFINE busy == pc["node"] \in {"matching", "push", "apply"}
           Goal == /\ CountInv' /\ Settled \in Nat /\ Settled' \in Nat
                   /\ Settled <= Settled' /\ Moved <= Moved'
<1>2. ASSUME Len(log') = Len(log) \/ Len(log') = Len(log) + 1,
             busy' /\ ~ busy => Len(log') = Len(log) + 1,
             calls' = calls \/ (calls' = calls + 1 /\ calls < MaxCalls),
             (pc'["evm"] = "mark") # (pc["evm"] = "mark") =>
               (IF pc'["evm"] = "mark" THEN calls' = calls + 1 ELSE TRUE),
             (pc'["node"] = "debit") # (pc["node"] = "debit") =>
               (IF pc'["node"] = "debit" THEN calls' = calls + 1 ELSE TRUE),
             (pc'["evm"] = "mark") = (pc["evm"] = "mark")
               \/ (pc'["node"] = "debit") = (pc["node"] = "debit")
      PROVE  Goal
  <2>1. Settled \in Nat /\ Settled' \in Nat /\ Settled <= Settled'
    BY <1>0, <1>2 DEF Settled
  <2>2. Moved' \in Int /\ Moved <= Moved' /\ calls' \in Nat /\ calls' <= MaxCalls
    BY <1>0, <1>1, <1>2 DEF Moved
  <2>3. Moved' \in Nat
    BY <1>1, <2>2
  <2>4. QED
    BY <2>1, <2>2, <2>3 DEF CountInv
<1> HIDE DEF Goal
<1>3. ASSUME UNCHANGED log, calls' = calls \/ (calls' = calls + 1 /\ calls < MaxCalls), pc' = pc
      PROVE  Goal
  BY <1>2, <1>3
<1>4. ASSUME UNCHANGED log, calls' = calls \/ (calls' = calls + 1 /\ calls < MaxCalls),
             NEW t \in Threads, NEW x, pc' = [pc EXCEPT ![t] = x],
             x \in {"push", "apply"} => pc[t] \in {"matching", "push", "apply"},
             x \notin {"matching", "mark", "debit"}
      PROVE  Goal
  <2>1. /\ pc'[t] = x
        /\ t = "node" => pc'["node"] = x /\ pc'["evm"] = pc["evm"]
        /\ t = "evm" => pc'["evm"] = x /\ pc'["node"] = pc["node"]
    BY <1>0, <1>4, PcUpdate
  <2>2. t = "node" \/ t = "evm"
    BY DEF Threads
  <2>3. CASE t = "node"
    BY <1>2, <1>4, <2>1, <2>3
  <2>4. CASE t = "evm"
    BY <1>2, <1>4, <2>1, <2>4
  <2>5. QED
    BY <2>2, <2>3, <2>4
<1>5. ASSUME NEW t \in Threads, MatchStep(t)
      PROVE  Goal
  <2>1. UNCHANGED bridgeVars
    BY <1>5 DEF MatchStep
  <2>2. UNCHANGED <<pc, calls>>
    BY <2>1 DEF bridgeVars
  <2>3. Len(log') = Len(log)
    BY <1>5, MatchFill DEF MatchStep
  <2>4. QED
    BY <1>2, <2>2, <2>3
<1>6. ASSUME NEW t \in Threads, NEW o, CallSubmit(t, o)
      PROVE  Goal
  <2>1. /\ calls < MaxCalls /\ calls' = calls + 1 /\ pc' = [pc EXCEPT ![t] = "matching"]
        /\ log' = Append(log, [order |-> o, filled |-> 0, closed |-> 0])
    BY <1>6 DEF CallSubmit, Count, Submit
  <2>2. Len(log') = Len(log) + 1
    BY <1>0, <2>1 DEF TypeOK
  <2>3. /\ t = "node" => pc'["node"] = "matching" /\ pc'["evm"] = pc["evm"]
        /\ t = "evm" => pc'["evm"] = "matching" /\ pc'["node"] = pc["node"]
    BY <1>0, <2>1, PcUpdate
  <2>4. t = "node" \/ t = "evm"
    BY DEF Threads
  <2>5. QED
    BY <1>2, <2>1, <2>2, <2>3, <2>4
<1>7. ASSUME NEW t \in Threads, SubmitDone(t)
      PROVE  Goal
  <2>1. PICK x \in {"push", "idle"} : pc' = [pc EXCEPT ![t] = x]
    BY <1>7 DEF SubmitDone
  <2>2. calls' = calls /\ pc[t] = "matching"
    BY <1>7 DEF SubmitDone
  <2>3. Len(log') = Len(log)
    <3>1. CASE Rest
      BY <3>1 DEF Rest
    <3>2. CASE Return
      <4>1. log' = [log EXCEPT ![Len(log)].closed = remaining] /\ Len(log) \in 1..Len(log)
            /\ remaining \in Nat
        BY <1>0, <3>2 DEF Return, TypeOK
      <4>2. QED
        BY <1>0, <4>1, CloseEntry
    <3>3. QED
      BY <1>7, <3>1, <3>2 DEF SubmitDone
  <2>4. /\ t = "node" => pc'["node"] = x /\ pc'["evm"] = pc["evm"]
        /\ t = "evm" => pc'["evm"] = x /\ pc'["node"] = pc["node"]
    BY <1>0, <2>1, PcUpdate
  <2>5. t = "node" \/ t = "evm"
    BY DEF Threads
  <2>6. QED
    BY <1>2, <2>1, <2>2, <2>3, <2>4, <2>5
<1> USE DEF Count, vars
<1>8. ASSUME NEW t \in Threads, Health(t) \/ HealthRead(t)
      PROVE  Goal
  BY <1>4, <1>8 DEF Health, HealthRead
<1>9. ASSUME NodePush
      PROVE  Goal
  <2>1. /\ pc' = [pc EXCEPT !["node"] = "apply"] /\ pc["node"] = "push"
        /\ log' = log /\ calls' = calls
    BY <1>9 DEF NodePush
  <2>2. QED
    BY <1>0, <1>4, <2>1
<1>10. ASSUME NodeApply \/ NodeDebit \/ InstallIndex
       PROVE  Goal
  <2>1. pc' = [pc EXCEPT !["node"] = "idle"] /\ log' = log /\ calls' = calls
    BY <1>10 DEF NodeApply, NodeDebit, InstallIndex
  <2>2. QED
    BY <1>0, <1>4, <2>1
<1>11. ASSUME EvmPush \/ EvmDebit
       PROVE  Goal
  <2>1. pc' = [pc EXCEPT !["evm"] = "idle"] /\ log' = log /\ calls' = calls
    BY <1>11 DEF EvmPush, EvmDebit
  <2>2. QED
    BY <1>0, <1>4, <2>1
<1>12. ASSUME NEW t, NEW a, NEW amount, Deposit(t, a, amount)
       PROVE  Goal
  BY <1>3, <1>12 DEF Deposit
<1>13. ASSUME NEW p, SetIndex(p)
       PROVE  Goal
  <2>1. /\ pc' = [pc EXCEPT !["node"] = "install"] /\ log' = log
        /\ calls' = calls + 1 /\ calls < MaxCalls
    BY <1>13 DEF SetIndex
  <2>2. QED
    BY <1>0, <1>4, <2>1
<1>14. ASSUME BuildPayload
       PROVE  Goal
  BY <1>3, <1>14 DEF BuildPayload
<1>15. ASSUME NEW a, NEW amount, EvmWithdraw(a, amount)
       PROVE  Goal
  <2>1. /\ pc' = [pc EXCEPT !["evm"] = "mark"] /\ calls' = calls + 1 /\ calls < MaxCalls
        /\ log' = log
    BY <1>15 DEF EvmWithdraw
  <2>2. pc'["evm"] = "mark" /\ pc'["node"] = pc["node"]
    BY <1>0, <2>1, PcUpdate
  <2>3. QED
    BY <1>2, <2>1, <2>2
<1>16. ASSUME NEW a, NEW amount, NodeWithdraw(a, amount)
       PROVE  Goal
  <2>1. /\ pc' = [pc EXCEPT !["node"] = "debit"] /\ calls' = calls + 1 /\ calls < MaxCalls
        /\ log' = log
    BY <1>16 DEF NodeWithdraw
  <2>2. pc'["node"] = "debit" /\ pc'["evm"] = pc["evm"]
    BY <1>0, <2>1, PcUpdate
  <2>3. QED
    BY <1>2, <2>1, <2>2
<1>17. Goal
  BY <1>5, <1>6, <1>7, <1>8, <1>9, <1>10, <1>11, <1>12, <1>13, <1>14, <1>15, <1>16
     DEF BridgeNext, BridgeStep, Threads
<1>18. QED
  BY <1>17 DEF Goal

LEMMA AppliedIsSettled ==
  ASSUME CoreInv, Len(log) \in Nat, NodeApply
  PROVE  Settled' = Settled + 1
<1>1. pc["node"] = "apply" /\ pc' = [pc EXCEPT !["node"] = "idle"] /\ log' = log
  BY DEF NodeApply, vars
<1>2. pc'["node"] = "idle"
  BY <1>1, PcUpdate DEF CoreInv, BridgeTypeOK, Threads
<1>3. QED
  BY <1>1, <1>2 DEF Settled

LEMMA AmountIsMoved ==
  ASSUME CoreInv, CountInv,
         EvmDebit \/ NodeDebit
           \/ \E t \in Threads, a \in Accounts, amount \in Amounts : Deposit(t, a, amount)
  PROVE  Moved' = Moved + 1
<1>0. DOMAIN pc = Threads /\ "node" \in Threads /\ "evm" \in Threads /\ calls \in Nat
  BY DEF CoreInv, BridgeTypeOK, Threads, CountInv
<1>1. CASE EvmDebit
  <2>1. pc["evm"] = "mark" /\ pc' = [pc EXCEPT !["evm"] = "idle"] /\ calls' = calls
    BY <1>1 DEF EvmDebit
  <2>2. pc'["evm"] = "idle" /\ pc'["node"] = pc["node"]
    BY <1>0, <2>1, PcUpdate
  <2>3. QED
    BY <1>0, <2>1, <2>2 DEF Moved
<1>2. CASE NodeDebit
  <2>1. pc["node"] = "debit" /\ pc' = [pc EXCEPT !["node"] = "idle"] /\ calls' = calls
    BY <1>2 DEF NodeDebit
  <2>2. pc'["node"] = "idle" /\ pc'["evm"] = pc["evm"]
    BY <1>0, <2>1, PcUpdate
  <2>3. QED
    BY <1>0, <2>1, <2>2 DEF Moved
<1>3. CASE \E t \in Threads, a \in Accounts, amount \in Amounts : Deposit(t, a, amount)
  <2>1. pc' = pc /\ calls' = calls + 1
    BY <1>3 DEF Deposit, Count
  <2>2. QED
    BY <1>0, <2>1 DEF Moved
<1>4. QED
  BY <1>1, <1>2, <1>3

\* The bounds of an i64 are those of the last order and the last amount.
LEMMA BoundsGrow ==
  ASSUME NEW n \in Nat, NEW m \in Nat, NEW k \in Nat, NEW j \in Nat, n <= k, m <= j
  PROVE  /\ SizeBound(n) \in Nat /\ CollateralBound(n, m) \in Nat
         /\ SizeBound(n) <= SizeBound(k) /\ CollateralBound(n, m) <= CollateralBound(k, j)
         /\ SizeBound(n + 1) = SizeBound(n) + 2 * MaxQty
         /\ CollateralBound(n + 1, m) = CollateralBound(n, m) + 2 * (MaxQty * MaxPrice)
         /\ CollateralBound(n, m + 1) = CollateralBound(n, m) + MaxAmount
<1>1. MaxQty \in Nat /\ MaxPrice \in Nat /\ MaxAmount \in Nat
  BY ClobAssumption, BridgeAssumption
<1>2. PICK q \in Nat : q = 2 * MaxQty
  BY <1>1
<1>3. PICK c \in Nat : c = 2 * MaxQty * MaxPrice
  BY <1>1, <1>2
<1>4. ASSUME NEW x \in Nat, NEW a \in Nat, NEW b \in Nat, a <= b
      PROVE  x * a \in Nat /\ x * a <= x * b /\ x * (a + 1) = x * a + x
  BY <1>4
<1>5. q * n \in Nat /\ q * n <= q * k /\ q * (n + 1) = q * n + q
  BY <1>4
<1>6. c * n \in Nat /\ c * n <= c * k /\ c * (n + 1) = c * n + c
  BY <1>4
<1>7. MaxAmount * m \in Nat /\ MaxAmount * m <= MaxAmount * j /\ MaxAmount * (m + 1) = MaxAmount * m + MaxAmount
  BY <1>1, <1>4
<1>8. q * k \in Nat /\ c * k \in Nat /\ MaxAmount * j \in Nat
  BY <1>1, <1>4
<1>9. \A x \in Nat : SizeBound(x) = 1 + q * x
  BY <1>2 DEF SizeBound
<1>10. \A x, y \in Nat : CollateralBound(x, y) = c * x + MaxAmount * y
  BY <1>3 DEF CollateralBound
<1>11. 2 * (MaxQty * MaxPrice) = c
  BY <1>1, <1>3
<1>12. /\ SizeBound(n) = 1 + q * n /\ SizeBound(k) = 1 + q * k /\ SizeBound(n + 1) = 1 + q * (n + 1)
       /\ CollateralBound(n, m) = c * n + MaxAmount * m
       /\ CollateralBound(k, j) = c * k + MaxAmount * j
       /\ CollateralBound(n + 1, m) = c * (n + 1) + MaxAmount * m
       /\ CollateralBound(n, m + 1) = c * n + MaxAmount * (m + 1)
  BY <1>9, <1>10
<1>13. QED
  BY <1>1, <1>2, <1>5, <1>6, <1>7, <1>8, <1>11, <1>12

LEMMA BoundsAt ==
  ASSUME NEW n \in Nat, NEW m \in Nat
  PROVE  /\ SizeBound(n) \in Nat /\ CollateralBound(n, m) \in Nat
         /\ SizeBound(n + 1) = SizeBound(n) + 2 * MaxQty
         /\ CollateralBound(n + 1, m) = CollateralBound(n, m) + 2 * (MaxQty * MaxPrice)
         /\ CollateralBound(n, m + 1) = CollateralBound(n, m) + MaxAmount
<1>1. PICK k \in Nat, j \in Nat : n <= k /\ m <= j
  OBVIOUS
<1>2. QED
  BY <1>1, BoundsGrow

LEMMA Room ==
  ASSUME HaveRoom, NEW n \in Nat, NEW m \in Nat, n <= MaxOrders, m <= MaxCalls
  PROVE  SizeBound(n) <= MaxI64 /\ CollateralBound(n, m) <= MaxI64
<1>1. MaxOrders \in Nat /\ MaxCalls \in Nat /\ MaxI64 \in Nat
  BY ClobAssumption, BridgeAssumption, ClearingAssumption
<1>2. /\ SizeBound(n) \in Nat /\ CollateralBound(n, m) \in Nat
      /\ SizeBound(n) <= SizeBound(MaxOrders)
      /\ CollateralBound(n, m) <= CollateralBound(MaxOrders, MaxCalls)
  BY <1>1, BoundsGrow
<1>3. SizeBound(MaxOrders) \in Nat /\ CollateralBound(MaxOrders, MaxCalls) \in Nat
  BY <1>1, BoundsGrow
<1>4. QED
  BY <1>1, <1>2, <1>3 DEF HaveRoom

\* A deposit or a withdrawal moves the collateral and the cash alike.
LEMMA AmountFits ==
  ASSUME BridgeTypeOK, HistoryTypes, NEW B \in Nat, NEW C \in Nat, NEW D \in Nat,
         LedgerFits(Ledger, B, C), NEW a, NEW d \in Int, Abs(d) <= D,
         Sets(a, accounts[a].collateral + d, cash[a] + d)
  PROVE  /\ LedgerFits(Ledger', B, C + D)
         /\ Balanced(Ledger) => Balanced(Ledger')
         /\ \A b \in Accounts : accounts'[b].size = accounts[b].size
<1>0. a \in Accounts /\ accounts \in [Accounts -> Account]
  BY DEF Sets, BridgeTypeOK
<1>1. /\ accounts' \in [Accounts -> Account] /\ HistoryTypes'
      /\ accounts'[a].collateral = accounts[a].collateral + d
      /\ accounts'[a].size = accounts[a].size
      /\ accounts'[a].avg = accounts[a].avg
      /\ cash'[a] = cash[a] + d /\ slack' = slack
      /\ \A b \in Accounts \ {a} : accounts'[b] = accounts[b] /\ cash'[b] = cash[b]
  BY SetsParts
<1>2. Ledger' = [accts |-> accounts', cash |-> cash', slack |-> slack']
  BY DEF Ledger
<1>3. Ledger' \in Ledgers
  BY <1>1, <1>2 DEF HistoryTypes, Ledgers
<1>4. \A b \in Accounts : Fits(accounts[b], B, C)
  BY DEF LedgerFits, Ledger
<1>5. ASSUME NEW b \in Accounts
      PROVE  Fits(accounts'[b], B, C + D)
  <2>1. CASE b = a
    <3>1. /\ accounts[a].collateral \in Int /\ Abs(accounts[a].collateral) <= C
          /\ accounts[a].avg <= MaxPrice /\ Abs(accounts[a].size) <= B
      BY <1>0, <1>4 DEF Fits, Account
    <3>2. Abs(accounts[a].collateral + d) <= C + D
      BY <3>1 DEF Abs
    <3>3. QED
      BY <1>0, <1>1, <2>1, <3>1, <3>2 DEF Fits
  <2>2. CASE b # a
    <3>1. accounts'[b] = accounts[b] /\ Fits(accounts[b], B, C)
      BY <1>1, <1>4, <2>2
    <3>2. C + D \in Nat /\ C <= C + D
      OBVIOUS
    <3>3. QED
      BY <3>1, <3>2, FitsMore
  <2>3. QED
    BY <2>1, <2>2
<1>6. ASSUME Balanced(Ledger), NEW b \in Accounts
      PROVE  Abs(Worth(accounts'[b]) - cash'[b]) <= slack'[b]
  <2>1. Abs(Worth(accounts[b]) - cash[b]) <= slack[b]
    BY <1>6 DEF Balanced, Ledger
  <2>2. CASE b = a
    <3>1. /\ accounts[a].collateral \in Int /\ accounts[a].avg \in Int
          /\ accounts[a].size \in Int /\ cash[a] \in Int
      BY <1>0 DEF Account, HistoryTypes
    <3>2. PICK k \in Int : k = accounts[a].avg * accounts[a].size
      BY <3>1
    <3>3. Worth(accounts'[a]) = accounts[a].collateral + d - k /\ Worth(accounts[a]) = accounts[a].collateral - k
      <4>1. accounts'[a].avg * accounts'[a].size = k
        BY <1>1, <3>2
      <4>2. Worth(accounts'[a]) = accounts'[a].collateral - k
        BY <4>1 DEF Worth
      <4>3. QED
        BY <1>1, <3>1, <3>2, <4>2 DEF Worth
    <3>4. Worth(accounts'[a]) - cash'[a] = Worth(accounts[a]) - cash[a]
      BY <1>1, <3>1, <3>3
    <3>5. QED
      BY <1>1, <2>1, <2>2, <3>4
  <2>3. CASE b # a
    BY <1>1, <2>1, <2>3
  <2>4. QED
    BY <2>2, <2>3
<1>7. LedgerFits(Ledger', B, C + D)
  BY <1>2, <1>3, <1>5 DEF LedgerFits
<1>8. Balanced(Ledger) => Balanced(Ledger')
  BY <1>2, <1>6 DEF Balanced
<1>9. \A b \in Accounts : accounts'[b].size = accounts[b].size
  BY <1>1
<1>10. QED
  BY <1>7, <1>8, <1>9

\* Where the accounts are within their bounds.
FitInv == LedgerFits(Ledger, SizeBound(Settled), CollateralBound(Settled, Moved))

LEMMA FitsStill ==
  ASSUME NEW l, NEW n \in Nat, NEW m \in Nat, NEW k \in Nat, NEW j \in Nat, n <= k, m <= j,
         LedgerFits(l, SizeBound(n), CollateralBound(n, m))
  PROVE  LedgerFits(l, SizeBound(k), CollateralBound(k, j))
<1>1. /\ SizeBound(n) \in Nat /\ CollateralBound(n, m) \in Nat
      /\ SizeBound(n) <= SizeBound(k) /\ CollateralBound(n, m) <= CollateralBound(k, j)
  BY BoundsGrow
<1>2. SizeBound(k) \in Nat /\ CollateralBound(k, j) \in Nat
  BY BoundsAt
<1>3. \A a \in Accounts : Fits(l.accts[a], SizeBound(k), CollateralBound(k, j))
  BY <1>1, <1>2, FitsMore DEF LedgerFits
<1>4. QED
  BY <1>3 DEF LedgerFits

\* A deposit or a withdrawal, within an i64.
LEMMA AmountStep ==
  ASSUME HaveRoom, BridgeTypeOK, HistoryTypes, FitInv,
         Settled \in Nat, Settled <= MaxOrders, Moved \in Nat, Moved + 1 <= MaxCalls,
         EvmDebit \/ NodeDebit
           \/ \E t \in Threads, a \in Accounts, amount \in Amounts : Deposit(t, a, amount),
         IInv, CoreInv
  PROVE  /\ LedgerFits(Ledger', SizeBound(Settled), CollateralBound(Settled, Moved + 1))
         /\ Balanced(Ledger) => Balanced(Ledger')
         /\ \A b \in Accounts : accounts'[b].size = accounts[b].size
<1>1. /\ MaxAmount \in Nat /\ SizeBound(Settled) \in Nat /\ CollateralBound(Settled, Moved) \in Nat
      /\ CollateralBound(Settled, Moved + 1) = CollateralBound(Settled, Moved) + MaxAmount
      /\ CollateralBound(Settled, Moved + 1) <= MaxI64
  <2>1. Moved + 1 \in Nat
    OBVIOUS
  <2>2. QED
    BY <2>1, BridgeAssumption, BoundsAt, Room
<1>2. PICK B \in Nat : B = SizeBound(Settled)
  BY <1>1
<1>3. PICK C \in Nat : C = CollateralBound(Settled, Moved)
  BY <1>1
<1>4. LedgerFits(Ledger, B, C)
  BY <1>2, <1>3 DEF FitInv
<1>5. ASSUME NEW a, NEW d \in Int, Abs(d) <= MaxAmount,
             Sets(a, accounts[a].collateral + d, cash[a] + d)
      PROVE  /\ LedgerFits(Ledger', B, C + MaxAmount)
             /\ Balanced(Ledger) => Balanced(Ledger')
             /\ \A b \in Accounts : accounts'[b].size = accounts[b].size
  BY <1>1, <1>4, <1>5, AmountFits
<1>6. ASSUME NEW a \in Accounts, NEW paid \in 0..MaxAmount,
             Sets(a, accounts[a].collateral - paid, cash[a] - paid)
      PROVE  /\ LedgerFits(Ledger', B, C + MaxAmount)
             /\ Balanced(Ledger) => Balanced(Ledger')
             /\ \A b \in Accounts : accounts'[b].size = accounts[b].size
  <2>1. accounts[a].collateral \in Int /\ cash[a] \in Int /\ paid \in Int
    BY <1>1 DEF BridgeTypeOK, HistoryTypes, Account
  <2>2. PICK d \in Int : d = -paid
    BY <2>1
  <2>3. /\ accounts[a].collateral - paid = accounts[a].collateral + d
        /\ cash[a] - paid = cash[a] + d /\ Abs(d) <= MaxAmount
    BY <1>1, <2>1, <2>2 DEF Abs
  <2>4. Sets(a, accounts[a].collateral + d, cash[a] + d)
    BY <1>6, <2>3
  <2>5. QED
    BY <1>5, <2>3, <2>4
<1>7. /\ LedgerFits(Ledger', B, C + MaxAmount)
      /\ Balanced(Ledger) => Balanced(Ledger')
      /\ \A b \in Accounts : accounts'[b].size = accounts[b].size
  <2>1. CASE EvmDebit
    BY <1>6, <2>1, EvmDebitParts
  <2>2. CASE NodeDebit
    BY <1>6, <2>2, NodeDebitParts
  <2>3. ASSUME NEW t \in Threads, NEW a \in Accounts, NEW amount \in Amounts, Deposit(t, a, amount)
        PROVE  /\ LedgerFits(Ledger', B, C + MaxAmount)
               /\ Balanced(Ledger) => Balanced(Ledger')
               /\ \A b \in Accounts : accounts'[b].size = accounts[b].size
    <3>1. /\ Sets(a, Saturate(accounts[a].collateral + amount), cash[a] + amount)
          /\ amount \in Int /\ Abs(amount) <= MaxAmount
      BY <2>3, DepositSets
    <3>2. accounts[a].collateral \in Int /\ Abs(accounts[a].collateral) <= C
      BY <1>4 DEF LedgerFits, Fits, Ledger, BridgeTypeOK, Account
    <3>3. Abs(accounts[a].collateral + amount) <= C + MaxAmount
      BY <1>1, <3>1, <3>2 DEF Abs
    <3>4. MaxI64 \in Int /\ C + MaxAmount <= MaxI64
      BY <1>1, <1>3, ClearingAssumption
    <3>5. Abs(accounts[a].collateral + amount) <= MaxI64
      <4>1. Abs(accounts[a].collateral + amount) \in Int
        BY <3>1, <3>2 DEF Abs
      <4>2. QED
        BY <1>1, <3>3, <3>4, <4>1
    <3>6. Saturate(accounts[a].collateral + amount) = accounts[a].collateral + amount
      BY <3>1, <3>2, <3>5, SaturateInt
    <3>7. QED
      BY <1>5, <3>1, <3>6
  <2>4. QED
    BY <2>1, <2>2, <2>3
<1>8. C + MaxAmount = CollateralBound(Settled, Moved + 1)
  BY <1>1, <1>3
<1>9. QED
  BY <1>2, <1>7, <1>8

\* The fills of a submit_order, within an i64.
LEMMA ApplyStep ==
  ASSUME HaveRoom, IInv, CoreInv, FitInv, NodeApply,
         Settled \in Nat, Settled + 1 <= MaxOrders, Moved \in Nat, Moved <= MaxCalls
  PROVE  /\ LedgerFits(Ledger', SizeBound(Settled + 1), CollateralBound(Settled + 1, Moved))
         /\ Balanced(Ledger) => Balanced(Ledger')
         /\ \A a \in Accounts :
              accounts'[a].size = accounts[a].size + NodeBought(BridgeFills("node"), a)
<1>0. FillsInv /\ LockInv /\ MaxQty \in Nat /\ MaxPrice \in Nat /\ pc["node"] = "apply"
      /\ matching \in BOOLEAN
  BY ClobAssumption DEF CoreInv, NodeApply, IInv, TypeOK
<1> DEFINE fs == BridgeFills("node")
           m == ApplyFills(Ledger, fs)
<1>1. accounts' = m.accts /\ cash' = m.cash /\ slack' = m.slack
  BY ApplyParts
<1>2. /\ fs \in Seq(AccountFill) /\ Len(fs) = Len(fills)
      /\ \A i \in 1..Len(fs) : fs[i].by = "node"
      /\ SumOf(QtyOf(fs), 1..Len(fs)) = FilledQty
  BY <1>0, BridgeFillsType DEF Threads
<1>3. clobLock = "node" /\ ~ matching
  BY <1>0 DEF LockInv
<1>4. SumOf(QtyOf(fs), 1..Len(fs)) <= MaxQty
  <2>1. \A i \in 1..Len(fs) : QtyOf(fs)[i] \in Nat
    <3>1. \A i \in 1..Len(fs) : fs[i] \in AccountFill
      BY <1>2
    <3>2. QED
      BY <3>1 DEF QtyOf, AccountFill
  <2>2. Len(fs) \in Nat /\ Len(fs) \in 0..Len(fs)
    BY <1>2
  <2>3. FilledQty \in Nat
    BY <1>2, <2>1, <2>2, SumPrefix
  <2>4. FilledQty + 0 <= MaxQty
    BY <1>3 DEF FillsInv, CoreInv
  <2>5. QED
    BY <1>0, <1>2, <2>3, <2>4
<1>5. PICK B \in Nat : B = SizeBound(Settled) /\ SizeBound(Settled + 1) = B + 2 * MaxQty
  BY BoundsAt
<1>6. PICK C \in Nat : /\ C = CollateralBound(Settled, Moved)
                       /\ CollateralBound(Settled + 1, Moved) = C + 2 * (MaxQty * MaxPrice)
  BY BoundsAt
<1>7. B + 2 * MaxQty <= MaxI64 /\ C + 2 * (MaxQty * MaxPrice) <= MaxI64
  <2>1. Settled + 1 \in Nat
    OBVIOUS
  <2>2. QED
    BY <1>5, <1>6, <2>1, Room
<1>8. LedgerFits(Ledger, B, C)
  BY <1>5, <1>6 DEF FitInv
<1> HIDE DEF fs
<1>9. /\ LedgerFits(m, B + 2 * MaxQty, C + 2 * (MaxQty * MaxPrice))
      /\ Balanced(Ledger) => Balanced(m)
      /\ \A a \in Accounts : m.accts[a].size = Ledger.accts[a].size + NodeBought(fs, a)
  BY <1>0, <1>2, <1>4, <1>7, <1>8, FillsFit
<1> HIDE DEF m
<1>10. Ledger' = m
  <2>1. m \in Ledgers
    BY <1>9 DEF LedgerFits
  <2>2. m = [accts |-> m.accts, cash |-> m.cash, slack |-> m.slack]
    BY <2>1 DEF Ledgers
  <2>3. QED
    BY <1>1, <2>2 DEF Ledger
<1>11. Ledger.accts = accounts
  BY DEF Ledger
<1>12. QED
  BY <1>1, <1>5, <1>6, <1>9, <1>10, <1>11 DEF fs

\* Every step keeps the accounts within an i64 and the books balanced, and
\* the positions change only with the fills of a submit_order.
LEMMA FitStep ==
  ASSUME HaveRoom, IInv, CoreInv, CoreInv', CountInv, FitInv, BridgeNext
  PROVE  /\ FitInv'
         /\ Balanced(Ledger) => Balanced(Ledger')
         /\ NodeApply => \A a \in Accounts :
              accounts'[a].size = accounts[a].size + NodeBought(BridgeFills("node"), a)
         /\ ~ NodeApply => \A a \in Accounts : accounts'[a].size = accounts[a].size
<1>0. /\ BridgeTypeOK /\ HistoryTypes /\ Len(log) \in Nat /\ log' \in Seq(LogEntry)
      /\ MaxOrders \in Nat /\ MaxCalls \in Nat /\ Moved \in Nat
  <2>1. IInv'
    BY BridgeStepIsBookStep, NextIInv
  <2>2. QED
    BY <2>1, Basics, ClobAssumption, BridgeAssumption DEF CoreInv, IInv, TypeOK, CountInv
<1>1. /\ CountInv' /\ Settled \in Nat /\ Settled' \in Nat
      /\ Settled <= Settled' /\ Moved <= Moved'
  BY CountStep
<1>2. Settled' <= MaxOrders
  <2>1. Len(log') <= MaxOrders /\ Len(log') \in Nat
    BY <1>0 DEF CoreInv, FillsInv
  <2>2. QED
    BY <1>0, <2>1 DEF Settled
<1>3. Moved' <= MaxCalls /\ Moved' \in Nat
  <2>1. calls' \in Nat /\ calls' <= MaxCalls /\ Moved' \in Nat
    BY <1>1 DEF CountInv
  <2>2. Moved' <= calls'
    <3>1. calls' \in Nat
      BY <2>1
    <3>2. PICK x \in Nat, y \in Nat : Moved' = calls' - x - y
      BY DEF Moved
    <3>3. \A c \in Nat : c - x - y <= c
      BY <3>2
    <3>4. calls' - x - y <= calls'
      BY <3>1, <3>3
    <3>5. QED
      BY <3>2, <3>4
  <2>3. QED
    BY <1>0, <2>1, <2>2
<1>4. PICK k \in Nat : k = Settled'
  BY <1>1
<1>5. PICK j \in Nat : j = Moved'
  BY <1>3
<1>6. ASSUME NEW n \in Nat, NEW m \in Nat, n <= k, m <= j,
             LedgerFits(Ledger', SizeBound(n), CollateralBound(n, m))
      PROVE  FitInv'
  <2>1. LedgerFits(Ledger', SizeBound(k), CollateralBound(k, j))
    BY <1>6, FitsStill
  <2>2. FitInv' = LedgerFits(Ledger', SizeBound(Settled'), CollateralBound(Settled', Moved'))
    BY DEF FitInv, LedgerFits, SizeBound, CollateralBound, Ledgers, Fits
  <2>3. QED
    BY <1>4, <1>5, <2>1, <2>2
<1>7. CASE NodeApply
  <2>1. k = Settled + 1 /\ Settled + 1 \in Nat /\ Settled + 1 <= MaxOrders /\ Moved <= MaxCalls
        /\ Moved <= j
    BY <1>0, <1>1, <1>2, <1>3, <1>4, <1>5, <1>7, AppliedIsSettled
  <2>2. /\ LedgerFits(Ledger', SizeBound(Settled + 1), CollateralBound(Settled + 1, Moved))
        /\ Balanced(Ledger) => Balanced(Ledger')
        /\ \A a \in Accounts :
             accounts'[a].size = accounts[a].size + NodeBought(BridgeFills("node"), a)
    BY <1>0, <1>1, <1>7, <2>1, ApplyStep
  <2>3. FitInv'
    BY <1>0, <1>6, <2>1, <2>2
  <2>4. QED
    BY <1>7, <2>2, <2>3
<1>8. ASSUME EvmDebit \/ NodeDebit
               \/ \E t \in Threads, a \in Accounts, amount \in Amounts : Deposit(t, a, amount)
      PROVE  /\ FitInv' /\ (Balanced(Ledger) => Balanced(Ledger'))
             /\ \A a \in Accounts : accounts'[a].size = accounts[a].size
  <2>1. j = Moved + 1 /\ Moved + 1 \in Nat /\ Moved + 1 <= MaxCalls /\ Settled <= MaxOrders
        /\ Settled <= k
    BY <1>0, <1>1, <1>2, <1>3, <1>4, <1>5, <1>8, AmountIsMoved
  <2>2. /\ LedgerFits(Ledger', SizeBound(Settled), CollateralBound(Settled, Moved + 1))
        /\ Balanced(Ledger) => Balanced(Ledger')
        /\ \A a \in Accounts : accounts'[a].size = accounts[a].size
    BY <1>0, <1>1, <1>8, <2>1, AmountStep
  <2>3. FitInv'
    BY <1>1, <1>6, <2>1, <2>2
  <2>4. QED
    BY <2>2, <2>3
<1>9. ASSUME UNCHANGED <<accounts, known, cash, slack>>
      PROVE  /\ FitInv' /\ (Balanced(Ledger) => Balanced(Ledger'))
             /\ \A a \in Accounts : accounts'[a].size = accounts[a].size
  <2>1. Ledger' = Ledger
    BY <1>9 DEF Ledger
  <2>2. LedgerFits(Ledger', SizeBound(Settled), CollateralBound(Settled, Moved))
    BY <2>1 DEF FitInv
  <2>3. FitInv'
    BY <1>0, <1>1, <1>4, <1>5, <1>6, <2>2
  <2>4. QED
    BY <1>9, <2>1, <2>3
<1>10. QED
  BY <1>7, <1>8, <1>9, LedgerCases

\* A position is what the fills of the submit_orders bought for it; those of
\* the one under way are outstanding until the accounts are written.
BoughtInv ==
  /\ loaded \in [Accounts -> Int]
  /\ \A a \in Accounts :
       accounts[a].size + Outstanding(a) = loaded[a] + NodeBought(executed, a)

LEMMA BoughtStep ==
  ASSUME HaveRoom, IInv, CoreInv, CoreInv', DeliveryInv, CountInv, FitInv, BoughtInv, BridgeNext
  PROVE  BoughtInv'
<1>0. /\ BridgeTypeOK /\ LockInv /\ FillsInv /\ DOMAIN pc = Threads
      /\ "node" \in Threads /\ "evm" \in Threads /\ executed \in Seq(AccountFill)
  BY DEF CoreInv, BridgeTypeOK, DeliveryInv, Threads
<1>1. /\ NodeApply => \A a \in Accounts :
           accounts'[a].size = accounts[a].size + NodeBought(BridgeFills("node"), a)
      /\ ~ NodeApply => \A a \in Accounts : accounts'[a].size = accounts[a].size
  BY FitStep
<1>2. loaded' = loaded /\ loaded \in [Accounts -> Int]
  <2>1. CASE \E t \in Threads : MatchStep(t)
    BY <2>1 DEF MatchStep, bridgeVars, BoughtInv
  <2>2. QED
    BY <2>1 DEF BridgeNext, BoughtInv
<1>3. NodeApply => pc["node"] = "apply" /\ pc'["node"] = "idle"
  <2> SUFFICES ASSUME NodeApply PROVE pc["node"] = "apply" /\ pc'["node"] = "idle"
    OBVIOUS
  <2>1. pc["node"] = "apply" /\ pc' = [pc EXCEPT !["node"] = "idle"]
    BY ApplyParts
  <2>2. QED
    BY <1>0, <2>1, PcUpdate
<1>4. \A t \in Threads : /\ BridgeFills(t) \in Seq(AccountFill)
                         /\ Len(BridgeFills(t)) = Len(fills)
                         /\ \A i \in 1..Len(fills) : BridgeFills(t)[i].by = t
  BY <1>0, BridgeFillsType
<1>5. \A a \in Accounts : /\ accounts[a].size \in Int /\ loaded[a] \in Int
                          /\ NodeBought(executed, a) \in Int
                          /\ NodeBought(BridgeFills("node"), a) \in Int
                          /\ Outstanding(a) \in Int
                          /\ accounts[a].size + Outstanding(a) = loaded[a] + NodeBought(executed, a)
  BY <1>0, <1>4, NodeBoughtIsSum DEF Outstanding, BoughtInv, BridgeTypeOK, Account
<1>6. ASSUME \A a \in Accounts : accounts'[a].size + Outstanding(a)' = loaded[a] + NodeBought(executed', a)
      PROVE  BoughtInv'
  BY <1>2, <1>6 DEF BoughtInv
<1>7. ASSUME pc'["node"] \in {"push", "apply"} <=> pc["node"] \in {"push", "apply"},
             UNCHANGED executed, UNCHANGED <<fills, log>> \/ pc["node"] \notin {"push", "apply"}
      PROVE  BoughtInv'
  <2>1. ~ NodeApply
    BY <1>3, <1>7
  <2>2. \A a \in Accounts : accounts'[a].size = accounts[a].size
    BY <1>1, <2>1
  <2>3. \A a \in Accounts : Outstanding(a)' = Outstanding(a)
    <3>1. CASE pc["node"] \in {"push", "apply"}
      <4>1. UNCHANGED <<fills, log>> /\ pc'["node"] \in {"push", "apply"}
        BY <1>7, <3>1
      <4>2. BridgeFills("node")' = BridgeFills("node")
        BY <4>1 DEF BridgeFills, BridgeFill
      <4>3. ASSUME NEW a \in Accounts
            PROVE  Outstanding(a)' = Outstanding(a)
        <5>1. NodeBought(BridgeFills("node"), a)' = NodeBought(BridgeFills("node"), a)
          BY <4>2
        <5>2. QED
          BY <3>1, <4>1, <5>1 DEF Outstanding
      <4>4. QED
        BY <4>3
    <3>2. CASE pc["node"] \notin {"push", "apply"}
      BY <1>7, <3>2 DEF Outstanding
    <3>3. QED
      BY <3>1, <3>2
  <2>4. QED
    BY <1>5, <1>6, <1>7, <2>2, <2>3
<1>8. ASSUME NEW t \in Threads, NEW x, pc' = [pc EXCEPT ![t] = x],
             t = "node" => pc["node"] \notin {"push", "apply"} /\ x \notin {"push", "apply"},
             UNCHANGED executed, UNCHANGED <<fills, log>> \/ pc["node"] \notin {"push", "apply"}
      PROVE  BoughtInv'
  <2>1. /\ t = "node" => pc'["node"] = x
        /\ t = "evm" => pc'["node"] = pc["node"]
    BY <1>0, <1>8, PcUpdate
  <2>2. t = "node" \/ t = "evm"
    BY DEF Threads
  <2>3. QED
    BY <1>7, <1>8, <2>1, <2>2
<1>9. ASSUME NEW t \in Threads, MatchStep(t)
      PROVE  BoughtInv'
  <2>1. UNCHANGED bridgeVars /\ clobLock = t /\ pc[t] = "matching"
    BY <1>9 DEF MatchStep
  <2>2. pc' = pc /\ executed' = executed
    BY <2>1 DEF bridgeVars
  <2>3. pc["node"] \notin {"push", "apply"}
    BY <1>0, <2>1 DEF LockInv
  <2>4. QED
    BY <1>7, <2>2, <2>3
<1>10. ASSUME NEW t \in Threads, NEW o, CallSubmit(t, o)
       PROVE  BoughtInv'
  <2>1. /\ pc' = [pc EXCEPT ![t] = "matching"] /\ clobLock = "free" /\ executed' = executed
        /\ pc[t] = "idle"
    BY <1>10 DEF CallSubmit
  <2>2. pc["node"] \notin {"push", "apply"}
    BY <1>0, <2>1 DEF LockInv
  <2>3. QED
    BY <1>8, <2>1, <2>2
<1>11. ASSUME SubmitDone("node")
       PROVE  BoughtInv'
  <2> DEFINE fs == BridgeFills("node")
  <2>1. /\ executed' = executed \o fs /\ pc["node"] = "matching" /\ (Rest \/ Return)
        /\ pc' = [pc EXCEPT !["node"] = IF fills # <<>> THEN "push" ELSE "idle"]
    BY <1>11 DEF SubmitDone
  <2>2. pc'["node"] = IF fills # <<>> THEN "push" ELSE "idle"
    BY <1>0, <2>1, PcUpdate
  <2>3. BridgeFills("node")' = fs
    BY <1>0, <2>1, FillsKept
  <2>4. fills = <<>> => fs = <<>>
    BY DEF BridgeFills
  <2>5. fs \in Seq(AccountFill)
    BY <1>0, <1>4
  <2>6. \A a \in Accounts : accounts'[a].size = accounts[a].size
    BY <1>1, <1>3, <2>1
  <2> SUFFICES ASSUME NEW a \in Accounts
               PROVE  accounts'[a].size + Outstanding(a)' = loaded[a] + NodeBought(executed', a)
    BY <1>6
  <2>7. NodeBought(executed', a) = NodeBought(executed, a) + NodeBought(fs, a)
    BY <1>0, <2>1, <2>5, NodeBoughtConcat
  <2>8. Outstanding(a) = 0
    BY <2>1 DEF Outstanding
  <2>9. Outstanding(a)' = NodeBought(fs, a)
    <3>1. NodeBought(BridgeFills("node"), a)' = NodeBought(fs, a)
      BY <2>3
    <3> HIDE DEF fs
    <3>2. CASE fills # <<>>
      BY <2>2, <3>1, <3>2 DEF Outstanding
    <3>3. CASE fills = <<>>
      <4>1. NodeBought(fs, a) = 0
        BY <2>4, <3>3, NodeBoughtNothing
      <4>2. QED
        BY <2>2, <3>3, <4>1 DEF Outstanding
    <3>4. QED
      BY <3>2, <3>3
  <2>10. QED
    BY <1>5, <2>6, <2>7, <2>8, <2>9
<1>12. ASSUME SubmitDone("evm")
       PROVE  BoughtInv'
  <2> DEFINE fs == BridgeFills("evm")
  <2>1. /\ executed' = executed \o fs /\ pc["evm"] = "matching" /\ clobLock = "evm"
        /\ pc' = [pc EXCEPT !["evm"] = IF fills # <<>> THEN "push" ELSE "idle"]
    BY <1>12 DEF SubmitDone
  <2>2. pc'["node"] = pc["node"] /\ pc["node"] \notin {"push", "apply"}
    BY <1>0, <2>1, PcUpdate DEF LockInv
  <2>3. fs \in Seq(AccountFill) /\ \A i \in 1..Len(fs) : fs[i].by # "node"
    BY <1>0, <1>4
  <2>4. \A a \in Accounts : accounts'[a].size = accounts[a].size
    BY <1>1, <1>3, <2>2
  <2> HIDE DEF fs
  <2> SUFFICES ASSUME NEW a \in Accounts
               PROVE  accounts'[a].size + Outstanding(a)' = loaded[a] + NodeBought(executed', a)
    BY <1>6
  <2>5. NodeBought(executed', a) = NodeBought(executed, a) + NodeBought(fs, a)
    BY <1>0, <2>1, <2>3, NodeBoughtConcat
  <2>6. NodeBought(fs, a) = 0
    BY <2>3, NodeBoughtEvm
  <2>7. Outstanding(a) = 0 /\ Outstanding(a)' = 0
    BY <2>2 DEF Outstanding
  <2>8. QED
    BY <1>5, <2>4, <2>5, <2>6, <2>7
<1>13. ASSUME NodeApply
       PROVE  BoughtInv'
  <2>1. executed' = executed
    BY <1>13, ApplyParts
  <2>2. pc["node"] = "apply" /\ pc'["node"] = "idle"
    BY <1>3, <1>13
  <2>3. \A a \in Accounts : /\ Outstanding(a) = NodeBought(BridgeFills("node"), a)
                            /\ Outstanding(a)' = 0
    BY <2>2 DEF Outstanding
  <2>4. QED
    BY <1>1, <1>5, <1>6, <1>13, <2>1, <2>3
<1>14. ASSUME NodePush
       PROVE  BoughtInv'
  <2>1. /\ UNCHANGED <<fills, log>> /\ executed' = executed /\ pc["node"] = "push"
        /\ pc' = [pc EXCEPT !["node"] = "apply"]
    BY <1>14 DEF NodePush, vars
  <2>2. pc'["node"] = "apply"
    BY <1>0, <2>1, PcUpdate
  <2>3. QED
    BY <1>7, <2>1, <2>2
<1>15. ASSUME NEW t \in Threads, Health(t) \/ HealthRead(t)
       PROVE  BoughtInv'
  <2>1. PICK x \in {"health", "idle"} : pc' = [pc EXCEPT ![t] = x] /\ pc[t] \in {"idle", "health"}
    BY <1>15 DEF Health, HealthRead
  <2>2. UNCHANGED <<fills, log>> /\ executed' = executed
    BY <1>15 DEF Health, HealthRead, vars
  <2>3. QED
    BY <1>8, <2>1, <2>2
<1>16. ASSUME EvmPush \/ EvmDebit
       PROVE  BoughtInv'
  <2>1. UNCHANGED <<fills, log>> /\ executed' = executed /\ pc' = [pc EXCEPT !["evm"] = "idle"]
    BY <1>16 DEF EvmPush, EvmDebit, vars
  <2>2. QED
    BY <1>0, <1>8, <2>1
<1>17. ASSUME NodeDebit \/ InstallIndex
       PROVE  BoughtInv'
  <2>1. /\ UNCHANGED <<fills, log>> /\ executed' = executed /\ pc' = [pc EXCEPT !["node"] = "idle"]
        /\ pc["node"] \in {"debit", "install"}
    BY <1>17 DEF NodeDebit, InstallIndex, vars
  <2>2. QED
    BY <1>0, <1>8, <2>1
<1>18. ASSUME NEW t, NEW a, NEW amount, Deposit(t, a, amount)
       PROVE  BoughtInv'
  <2>1. UNCHANGED <<fills, log>> /\ executed' = executed /\ pc' = pc
    BY <1>18 DEF Deposit, vars
  <2>2. QED
    BY <1>7, <2>1
<1>19. ASSUME NEW a, NEW amount, EvmWithdraw(a, amount)
       PROVE  BoughtInv'
  <2>1. UNCHANGED <<fills, log>> /\ executed' = executed /\ pc' = [pc EXCEPT !["evm"] = "mark"]
    BY <1>19 DEF EvmWithdraw, vars
  <2>2. QED
    BY <1>0, <1>8, <2>1
<1>20. ASSUME NEW a, NEW amount, NodeWithdraw(a, amount)
       PROVE  BoughtInv'
  <2>1. /\ UNCHANGED <<fills, log>> /\ executed' = executed /\ pc' = [pc EXCEPT !["node"] = "debit"]
        /\ pc["node"] = "idle"
    BY <1>20 DEF NodeWithdraw, vars
  <2>2. QED
    BY <1>0, <1>8, <2>1
<1>21. ASSUME NEW p, SetIndex(p)
       PROVE  BoughtInv'
  <2>1. /\ UNCHANGED <<fills, log>> /\ executed' = executed /\ pc' = [pc EXCEPT !["node"] = "install"]
        /\ pc["node"] = "idle"
    BY <1>21 DEF SetIndex, vars
  <2>2. QED
    BY <1>0, <1>8, <2>1
<1>22. ASSUME BuildPayload
       PROVE  BoughtInv'
  <2>1. UNCHANGED <<fills, log>> /\ executed' = executed /\ pc' = pc
    BY <1>22 DEF BuildPayload, vars
  <2>2. QED
    BY <1>7, <2>1
<1>23. QED
  BY <1>9, <1>10, <1>11, <1>12, <1>13, <1>14, <1>15, <1>16, <1>17, <1>18, <1>19, <1>20, <1>21, <1>22
     DEF BridgeNext, BridgeStep, Threads

LedgerInv == CountInv /\ FitInv /\ BoughtInv /\ Balanced(Ledger)

LEMMA InitLedger == BridgeInit => LedgerInv
<1> SUFFICES ASSUME BridgeInit PROVE LedgerInv
  OBVIOUS
<1>1. /\ accounts \in [Accounts -> Account]
      /\ \A a \in Accounts : /\ accounts[a].avg \in {0, 1} /\ accounts[a].collateral = 0
                             /\ accounts[a].size \in {-1, 0, 1}
                             /\ cash[a] = -(accounts[a].avg * accounts[a].size)
                             /\ slack[a] = 0
      /\ HistoryTypes
  BY InitAccounts
<1>2. /\ pc["node"] = "idle" /\ pc["evm"] = "idle" /\ calls = 0 /\ executed = <<>>
      /\ loaded = [a \in Accounts |-> accounts[a].size]
  BY DEF BridgeInit, Threads
<1>3. CountInv /\ Moved = 0
  BY <1>2, BridgeAssumption DEF CountInv, Moved
<1>4. Settled \in Nat
  <2>1. IInv
    BY SeedIInv DEF BridgeInit
  <2>2. Len(log) \in Nat
    BY <2>1, Basics DEF IInv
  <2>3. QED
    BY <1>2, <2>2 DEF Settled
<1>5. FitInv
  <2>1. Ledger \in Ledgers /\ Ledger.accts = accounts
    BY <1>1 DEF Ledger, Ledgers, HistoryTypes
  <2>2. PICK B \in Nat : B = SizeBound(Settled) /\ B >= 1
    <3>1. MaxQty \in Nat /\ 2 * MaxQty \in Nat
      BY ClobAssumption
    <3>2. 2 * MaxQty * Settled \in Nat
      BY <1>4, <3>1
    <3>3. QED
      BY <3>2 DEF SizeBound
  <2>3. PICK C \in Nat : C = CollateralBound(Settled, Moved)
    BY <1>3, <1>4, BoundsAt
  <2>4. ASSUME NEW a \in Accounts
        PROVE  Fits(accounts[a], B, C)
    <3>1. accounts[a] \in Account /\ accounts[a].avg <= MaxPrice
      BY <1>1, ClobAssumption, BridgeAssumption
    <3>2. Abs(accounts[a].size) <= B
      BY <1>1, <2>2 DEF Abs
    <3>3. Abs(accounts[a].collateral) <= C
      BY <1>1 DEF Abs
    <3>4. QED
      BY <3>1, <3>2, <3>3 DEF Fits
  <2>5. QED
    BY <2>1, <2>2, <2>3, <2>4 DEF FitInv, LedgerFits
<1>6. BoughtInv
  <2>1. \A a \in Accounts : accounts[a].size \in Int
    BY <1>1
  <2>2. loaded \in [Accounts -> Int] /\ \A a \in Accounts : loaded[a] = accounts[a].size
    BY <1>2, <2>1
  <2>3. \A a \in Accounts : Outstanding(a) = 0 /\ NodeBought(executed, a) = 0
    BY <1>2, NodeBoughtNothing DEF Outstanding
  <2>4. QED
    BY <2>1, <2>2, <2>3 DEF BoughtInv
<1>7. Balanced(Ledger)
  <2> SUFFICES ASSUME NEW a \in Accounts
               PROVE  Abs(Worth(accounts[a]) - cash[a]) <= slack[a]
    BY DEF Balanced, Ledger
  <2>1. accounts[a].avg * accounts[a].size \in Int
    BY <1>1
  <2>2. Worth(accounts[a]) - cash[a] = 0
    BY <1>1, <2>1 DEF Worth
  <2>3. QED
    BY <1>1, <2>2 DEF Abs
<1>8. QED
  BY <1>3, <1>5, <1>6, <1>7 DEF LedgerInv

LEMMA LedgerUnchanged ==
  ASSUME LedgerInv, UNCHANGED allVars
  PROVE  LedgerInv'
<1>1. UNCHANGED <<vars, pc, ledger, executed, loaded, calls>>
  BY DEF allVars, bridgeVars
<1>2. UNCHANGED <<fills, log, pc, executed, accounts, cash, slack, loaded, calls>>
  BY <1>1 DEF vars, ledger
<1>3. Settled' = Settled /\ Moved' = Moved /\ Ledger' = Ledger
  BY <1>2 DEF Settled, Moved, Ledger
<1>4. \A a \in Accounts : Outstanding(a)' = Outstanding(a)
  <2>1. BridgeFills("node")' = BridgeFills("node")
    BY <1>2 DEF BridgeFills, BridgeFill
  <2>2. ASSUME NEW a \in Accounts
        PROVE  NodeBought(BridgeFills("node"), a)' = NodeBought(BridgeFills("node"), a)
    BY <2>1
  <2>3. QED
    BY <1>2, <2>2 DEF Outstanding
<1>5. CountInv'
  BY <1>2, <1>3 DEF LedgerInv, CountInv
<1>6. FitInv'
  <2>1. FitInv' = LedgerFits(Ledger', SizeBound(Settled'), CollateralBound(Settled', Moved'))
    BY DEF FitInv, LedgerFits, SizeBound, CollateralBound, Ledgers, Fits
  <2>2. QED
    BY <1>3, <2>1 DEF LedgerInv, FitInv
<1>7. BoughtInv'
  BY <1>2, <1>4 DEF LedgerInv, BoughtInv
<1>8. Balanced(Ledger)'
  BY <1>3 DEF LedgerInv
<1>9. QED
  BY <1>5, <1>6, <1>7, <1>8 DEF LedgerInv

LEMMA LedgerStep ==
  HaveRoom => (IInv /\ CoreInv /\ DeliveryInv /\ LedgerInv /\ [BridgeNext]_allVars => LedgerInv')
<1> SUFFICES ASSUME HaveRoom, IInv, CoreInv, DeliveryInv, LedgerInv, [BridgeNext]_allVars
             PROVE  LedgerInv'
  OBVIOUS
<1>1. CoreInv'
  BY CoreStep
<1>2. CASE BridgeNext
  <2>1. CountInv /\ FitInv /\ BoughtInv /\ Balanced(Ledger)
    BY DEF LedgerInv
  <2>2. CountInv'
    BY <1>2, <2>1, CountStep
  <2>3. FitInv' /\ Balanced(Ledger')
    BY <1>1, <1>2, <2>1, FitStep
  <2>4. BoughtInv'
    BY <1>1, <1>2, <2>1, BoughtStep
  <2>5. QED
    BY <2>2, <2>3, <2>4 DEF LedgerInv
<1>3. QED
  BY <1>2, LedgerUnchanged

LEMMA BridgeLedger ==
  ASSUME HaveRoom
  PROVE  BridgeSpec => [](CoreInv /\ LedgerInv)
<1>1. BridgeInit => DeliveryInv /\ LedgerInv
  BY InitDelivery, InitLedger
<1>2. IInv /\ CoreInv /\ DeliveryInv /\ [BridgeNext]_allVars => DeliveryInv'
  BY DeliveryStep, DeliveryUnchanged
<1>3. IInv /\ CoreInv /\ DeliveryInv /\ LedgerInv /\ [BridgeNext]_allVars => LedgerInv'
  BY LedgerStep
<1>4. QED
  BY <1>1, <1>2, <1>3, BridgeCore, PTL DEF BridgeSpec

\* Where every amount fits an i64, a fill moves the positions of both its
\* accounts, once, or of neither, and every fill of a submit_order moves them,
\* also when the EVM trades on the same book (submit_order and
\* apply_fills_to_accounts, under the book's mutex).
THEOREM FillsAreApplied ==
  ASSUME HaveRoom
  PROVE  BridgeSpec => []SubmittedFillsApplied
<1>1. CoreInv /\ LedgerInv => SubmittedFillsApplied
  <2> SUFFICES ASSUME CoreInv, LedgerInv PROVE SubmittedFillsApplied
    OBVIOUS
  <2>1. BridgeTypeOK
    BY DEF CoreInv
  <2>2. ASSUME pc["node"] \notin {"push", "apply"}, NEW a \in Accounts
        PROVE  accounts[a].size = loaded[a] + NodeBought(executed, a)
    <3>1. Outstanding(a) = 0
      BY <2>2 DEF Outstanding
    <3>2. accounts[a].size + Outstanding(a) = loaded[a] + NodeBought(executed, a)
      BY DEF LedgerInv, BoughtInv
    <3>3. accounts[a].size \in Int
      BY <2>1 DEF BridgeTypeOK, Account
    <3>4. QED
      BY <3>1, <3>2, <3>3
  <2>3. NodeFills(executed) \in SUBSET DOMAIN executed
    BY DEF NodeFills
  <2>4. QED
    BY <2>1, <2>2, <2>3 DEF SubmittedFillsApplied, NodeBought
<1>2. QED
  BY <1>1, BridgeLedger, PTL

\* Where every amount fits an i64, accounting by average entry price agrees
\* with the cash that changed hands, up to the rounding of the entry prices
\* (Account::apply_fill, deposit and the two withdraws).
THEOREM ValueIsCash ==
  ASSUME HaveRoom
  PROVE  BridgeSpec => []ValueIsCashFlow
<1>1. CoreInv /\ LedgerInv => ValueIsCashFlow
  <2> SUFFICES ASSUME CoreInv, LedgerInv, NEW a \in Accounts
               PROVE  Abs(accounts[a].collateral - accounts[a].avg * accounts[a].size - cash[a])
                        <= slack[a]
    BY DEF ValueIsCashFlow
  <2>1. Abs(Worth(accounts[a]) - cash[a]) <= slack[a]
    BY DEF LedgerInv, Balanced, Ledger
  <2>2. QED
    BY <2>1 DEF Worth
<1>2. QED
  BY <1>1, BridgeLedger, PTL

=============================================================================
