----------------------------- MODULE PricesProofs ------------------------------
(***************************************************************************)
(* Theorems about Prices, for all amounts, quantities, rates, markups and  *)
(* fee tiers and every number of failed refreshes.                         *)
(*                                                                         *)
(* The lemmas on the arithmetic multiply and divide unknowns; each leaf    *)
(* does so once, as the provers handle one product at a time.              *)
(***************************************************************************)
EXTENDS Prices, DataLemmas

-------------------------------------------------------------------------------
(* The arithmetic *)

\* Products grow with their factors.
LEMMA TimesGrows ==
    ASSUME NEW a \in Int, NEW b \in Int, a <= b, NEW d \in Nat
    PROVE  a * d <= b * d
<1>1. (b - a) * d >= 0
  OBVIOUS
<1> QED
  BY <1>1

LEMMA DivisionBounds ==
    ASSUME NEW a \in Nat, NEW b \in Nat \ {0}
    PROVE  /\ a \div b \in Nat
           /\ (a \div b) * b <= a
           /\ a < (a \div b) * b + b
  OBVIOUS

\* The least number of parts of size b that a fits into.
LEMMA CeilDivIsLeast ==
    ASSUME NEW a \in Nat, NEW b \in Nat \ {0}
    PROVE  /\ CeilDiv(a, b) \in Nat
           /\ a <= CeilDiv(a, b) * b
           /\ CeilDiv(a, b) * b < a + b
<1> DEFINE k == CeilDiv(a, b)
<1>1. a + b - 1 \in Nat /\ k = (a + b - 1) \div b
  BY DEF CeilDiv
<1> HIDE DEF k
<1>2. k \in Nat /\ k * b <= a + b - 1 /\ a + b - 1 < k * b + b
  BY <1>1, DivisionBounds
<1>3. k * b \in Nat
  BY <1>2
<1> QED
  BY <1>2, <1>3 DEF k

\* A price of one band is the least multiple of its step that covers n/r.
LEMMA StepIsLeast ==
    ASSUME NEW n \in Nat, NEW r \in Nat \ {0}, NEW g \in Nat \ {0}
    PROVE  /\ g * CeilDiv(n, g * r) \in Nat
           /\ n <= (g * CeilDiv(n, g * r)) * r
           /\ \A j \in Int : j < CeilDiv(n, g * r) => (g * j) * r < n
<1> DEFINE k == CeilDiv(n, g * r)
           b == g * r
<1>1. b \in Nat \ {0}
  OBVIOUS
<1>2. k \in Nat /\ n <= k * b /\ k * b < n + b
  <2> HIDE DEF b
  <2>1. CeilDiv(n, b) \in Nat /\ n <= CeilDiv(n, b) * b /\ CeilDiv(n, b) * b < n + b
    BY <1>1, CeilDivIsLeast
  <2> QED
    BY <2>1 DEF b
<1> HIDE DEF k
<1>3. g * k \in Nat
  BY <1>2
<1>4. (g * k) * r = k * b
  BY <1>2
<1>5. ASSUME NEW j \in Int, j < k PROVE (g * j) * r < n
  <2>1. (g * j) * r = j * b
    BY <1>1
  <2> HIDE DEF b
  <2>2. j * b <= (k - 1) * b
    BY <1>1, <1>2, <1>5, TimesGrows
  <2>3. (k - 1) * b = k * b - b
    BY <1>1, <1>2
  <2>4. k * b \in Int /\ j * b \in Int /\ (k - 1) * b \in Int
    BY <1>1, <1>2, <1>5
  <2>5. j * b < n
    BY <1>1, <1>2, <2>2, <2>3, <2>4
  <2> QED
    BY <2>1, <2>5
<1> QED
  BY <1>2, <1>3, <1>4, <1>5 DEF k

\* A price is on the grid, covers what it stands for, and is the least such.
Grid(p) == p % (IF p < 10000 THEN 50 ELSE 100) = 0

LEMMA PriceIsLeast ==
    ASSUME NEW n \in Nat, NEW r \in Nat \ {0}
    PROVE  /\ RoundPrice(n, r) \in Nat
           /\ Grid(RoundPrice(n, r))
           /\ RoundPrice(n, r) * r >= n
           /\ \A p \in Nat : p < RoundPrice(n, r) /\ Grid(p) => p * r < n
<1> DEFINE k == CeilDiv(n, 50 * r)
           m == CeilDiv(n, 100 * r)
           price == RoundPrice(n, r)
<1>1. /\ 50 * k \in Nat /\ n <= (50 * k) * r
      /\ \A j \in Int : j < k => (50 * j) * r < n
  <2> DEFINE g == 50
  <2>1. g \in Nat \ {0}
    OBVIOUS
  <2> HIDE DEF g
  <2>2. /\ g * CeilDiv(n, g * r) \in Nat /\ n <= (g * CeilDiv(n, g * r)) * r
        /\ \A j \in Int : j < CeilDiv(n, g * r) => (g * j) * r < n
    BY <2>1, StepIsLeast
  <2> QED
    BY <2>2 DEF g
<1>2. /\ 100 * m \in Nat /\ n <= (100 * m) * r
      /\ \A j \in Int : j < m => (100 * j) * r < n
  <2> DEFINE g == 100
  <2>1. g \in Nat \ {0}
    OBVIOUS
  <2> HIDE DEF g
  <2>2. /\ g * CeilDiv(n, g * r) \in Nat /\ n <= (g * CeilDiv(n, g * r)) * r
        /\ \A j \in Int : j < CeilDiv(n, g * r) => (g * j) * r < n
    BY <2>1, StepIsLeast
  <2> QED
    BY <2>2 DEF g
<1>3. k \in Nat /\ m \in Nat
  <2>1. 50 * r \in Nat \ {0} /\ 100 * r \in Nat \ {0}
    OBVIOUS
  <2> QED
    BY <2>1, CeilDivIsLeast
<1>4. ASSUME NEW p \in Nat
      PROVE  /\ p % 50 = 0 => \E j \in Nat : p = 50 * j
             /\ p % 100 = 0 => \E j \in Nat : p = 100 * j
  <2>1. p \div 50 \in Nat /\ p \div 100 \in Nat
    OBVIOUS
  <2>2. p % 50 = 0 => p = 50 * (p \div 50)
    OBVIOUS
  <2>3. p % 100 = 0 => p = 100 * (p \div 100)
    OBVIOUS
  <2> QED
    BY <2>1, <2>2, <2>3
<1>5. CASE n < 10000 * r
  <2>1. price = 50 * k
    BY <1>5 DEF RoundPrice
  <2> HIDE DEF price, k, m
  <2>2. k <= 200
    <3>1. 200 < k => (50 * 200) * r < n
      BY <1>1
    <3> QED
      BY <1>3, <1>5, <3>1
  <2>3. price \in Nat /\ price <= 10000 /\ price % 50 = 0
    BY <1>3, <2>1, <2>2
  <2>4. Grid(price)
    BY <2>3 DEF Grid
  <2>5. ASSUME NEW p \in Nat, p < price, Grid(p) PROVE p * r < n
    <3>1. p % 50 = 0
      BY <2>3, <2>5 DEF Grid
    <3>2. PICK j \in Nat : p = 50 * j
      BY <1>4, <3>1
    <3>3. j < k
      BY <1>3, <2>1, <2>5, <3>2
    <3> QED
      BY <1>1, <3>2, <3>3
  <2>6. price * r >= n
    BY <1>1, <2>1, <2>3
  <2> QED
    BY <2>3, <2>4, <2>5, <2>6 DEF price
<1>6. CASE ~(n < 10000 * r)
  <2>1. price = 100 * m
    BY <1>6 DEF RoundPrice
  <2> HIDE DEF price, k, m
  <2>2. m >= 100
    <3>1. SUFFICES ASSUME m <= 99 PROVE FALSE
      BY <1>3
    <3>2. 100 * m \in Int /\ 9900 \in Int /\ 100 * m <= 9900
      BY <1>3, <3>1
    <3>3. (100 * m) * r <= 9900 * r
      BY <3>2, TimesGrows
    <3> QED
      BY <1>2, <1>6, <3>3
  <2>3. price \in Nat /\ price >= 10000 /\ price % 100 = 0
    BY <1>3, <2>1, <2>2
  <2>4. Grid(price)
    BY <2>3 DEF Grid
  <2>5. ASSUME NEW p \in Nat, p < price, Grid(p) PROVE p * r < n
    <3>1. CASE p < 10000
      <4>1. p * r < 10000 * r
        BY <3>1
      <4> QED
        BY <1>6, <4>1
    <3>2. CASE p >= 10000
      <4>1. p % 100 = 0
        BY <2>5, <3>2 DEF Grid
      <4>2. PICK j \in Nat : p = 100 * j
        BY <1>4, <4>1
      <4>3. j < m
        BY <1>3, <2>1, <2>5, <4>2
      <4> QED
        BY <1>2, <4>2, <4>3
    <3> QED
      BY <3>1, <3>2
  <2>6. price * r >= n
    BY <1>2, <2>1, <2>3
  <2> QED
    BY <2>3, <2>4, <2>5, <2>6 DEF price
<1> QED
  BY <1>5, <1>6

\* The markup never raises the stored rate, and leaves one to divide by.
LEMMA MarkupLowers ==
    ASSUME NEW x \in RawRates
    PROVE  WithMarkup(x) \in Nat \ {0} /\ WithMarkup(x) <= x
<1> DEFINE b == 10000 + MarkupBPS
           a == 20000 * x + 10000 + MarkupBPS
           q == WithMarkup(x)
<1>1. x \in Nat \ {0} /\ MarkupBPS \in Nat /\ x * 10000 >= b
  BY RatesAssumption
<1>2. a \in Nat /\ 2 * b \in Nat \ {0} /\ q = a \div (2 * b) /\ a = 20000 * x + b
  BY <1>1 DEF WithMarkup
<1>3. q \in Nat /\ q * (2 * b) <= a /\ a < q * (2 * b) + 2 * b
  <2> HIDE DEF a, b, q
  <2> QED
    BY <1>2, DivisionBounds
<1>4. b \in Nat /\ b >= 10000
  BY <1>1
<1> HIDE DEF a, b, q
<1>5. q # 0
  BY <1>1, <1>2, <1>3, <1>4
<1>6. q <= x
  <2>1. SUFFICES ASSUME q >= x + 1 PROVE FALSE
    BY <1>1, <1>3
  <2>2. (x + 1) * (2 * b) <= q * (2 * b)
    BY <1>1, <1>2, <1>3, <2>1, TimesGrows
  <2>3. x * (2 * b) >= 20000 * x
    BY <1>1, <1>4
  <2>4. (x + 1) * (2 * b) = x * (2 * b) + 2 * b
    BY <1>1, <1>4
  <2>5. x * (2 * b) \in Nat /\ q * (2 * b) \in Nat
    BY <1>1, <1>3, <1>4
  <2> QED
    BY <1>1, <1>2, <1>3, <1>4, <2>2, <2>3, <2>4, <2>5
<1> QED
  BY <1>3, <1>5, <1>6 DEF q

LEMMA ConvertCovers ==
    ASSUME NEW cny \in Nat, NEW r \in Nat \ {0}, NEW most \in Nat, r <= most
    PROVE  /\ Convert(cny, r) \in Nat
           /\ Convert(cny, r) * most >= cny * RateScale
<1> DEFINE p == Convert(cny, r)
           n == cny * RateScale
<1>1. n \in Nat
  BY RatesAssumption
<1>2. p = RoundPrice(n, r)
  BY DEF Convert
<1> HIDE DEF n, p
<1>3. p \in Nat /\ p * r >= n
  BY <1>1, <1>2, PriceIsLeast
<1>4. p * most >= p * r
  BY <1>3
<1>5. p * most \in Int /\ p * r \in Int
  BY <1>3
<1> QED
  BY <1>1, <1>3, <1>4, <1>5 DEF n, p

LEMMA ConvertZero ==
    ASSUME NEW r \in Nat \ {0}
    PROVE  Convert(0, r) = 0
<1> DEFINE b == 50 * r
<1>1. RoundPrice(0, r) = 50 * CeilDiv(0, b)
  BY DEF RoundPrice
<1>2. b \in Nat \ {0}
  OBVIOUS
<1> HIDE DEF b
<1>3. CeilDiv(0, b) \in Nat /\ CeilDiv(0, b) * b < b
  BY <1>2, CeilDivIsLeast
<1>4. CeilDiv(0, b) = 0
  <2>1. SUFFICES ASSUME CeilDiv(0, b) >= 1 PROVE FALSE
    BY <1>3
  <2>2. 1 * b <= CeilDiv(0, b) * b
    BY <1>2, <1>3, <2>1, TimesGrows
  <2> QED
    BY <1>2, <1>3, <2>2
<1>5. 0 * RateScale = 0
  BY RatesAssumption
<1> QED
  BY <1>1, <1>4, <1>5 DEF Convert

LEMMA CalcFeeType ==
    ASSUME NEW w, Shippable(w)
    PROVE  CalcFee(w) \in Nat
<1> DEFINE S == {m \in DOMAIN Tiers : w <= m}
<1>1. S \subseteq DOMAIN Tiers /\ S # {}
  BY DEF Shippable
<1>2. S \in SUBSET Nat
  BY <1>1, TiersAssumption
<1>3. CalcFee(w) = Tiers[Min(S)]
  BY DEF CalcFee
<1> HIDE DEF S
<1>4. Min(S) \in S
  BY <1>1, <1>2, MinIsLeast
<1> QED
  BY <1>1, <1>3, <1>4, TiersAssumption

-------------------------------------------------------------------------------
(* The inductive invariant *)

\* What the steps of a bill have established so far.
UnitPriced ==
    /\ rate > 0 /\ bill.unit \in Nat
    /\ bill.unit * bill.most >= bill.cny * RateScale
    /\ ~bill.mixed => bill.unit = Convert(bill.cny, rate)
ShippingPriced ==
    /\ bill.ship \in Nat
    /\ bill.ship * bill.most >= bill.fee * RateScale
    /\ ~bill.mixed => bill.ship = Convert(bill.fee, rate)

BillInv ==
    bill # NoBill =>
        /\ raw <= bill.most
        /\ bill.at = "unit" /\ bill.ship = 0 => bill.fee = 0
        /\ bill.at # "unit" => UnitPriced
        /\ bill.at \in {"rate", "stored"} => ShippingPriced
        /\ bill.at = "stored" /\ ~bill.mixed => bill.rate = rate

PriceInv == PriceTypeOK /\ rate <= raw /\ BillInv

LEMMA IdleBill == NoBill.at = "idle" /\ NoBill \notin Bills /\ \A b \in Bills : b.at # "idle"
<1>1. NoBill.at = "idle" /\ \A b \in Bills : b.at # "idle"
  BY DEF NoBill, Bills
<1> QED
  BY <1>1

LEMMA PriceInvInit == PriceInit => PriceInv
<1> SUFFICES ASSUME PriceInit PROVE PriceInv
  OBVIOUS
<1>1. rate = 0 /\ raw = 0 /\ bill = NoBill
  BY DEF PriceInit
<1>2. age \in 0..MaxAge /\ day \in 1..31 /\ hour \in {0, 5, 16} /\ priceFaults \in 0..PriceMaxFaults
  BY PriceMaxFaultsAssumption DEF PriceInit
<1>3. fired \in BOOLEAN /\ fxJobs \in {0, 1}
  BY DEF PriceInit
<1>4. BillInv
  BY <1>1 DEF BillInv
<1> QED
  BY <1>1, <1>2, <1>3, <1>4 DEF PriceInv, PriceTypeOK

\* What only moves the clock or the queue.
LEMMA PriceInvQuiet ==
    ASSUME PriceInv, ScheduleFXRefresh \/ Tick
    PROVE  PriceInv'
<1>1. bill' = bill /\ rate' = rate /\ raw' = raw
  BY DEF ScheduleFXRefresh, Tick
<1>2. PriceTypeOK'
  <2>1. CASE ScheduleFXRefresh
    BY <1>1, <2>1 DEF ScheduleFXRefresh, PriceInv, PriceTypeOK
  <2>2. CASE Tick
    <3>1. age' \in 0..MaxAge
      BY <2>2, PriceMaxFaultsAssumption DEF Tick, PriceInv, PriceTypeOK
    <3>2. day' \in 1..31 /\ hour' \in {0, 5, 16}
      BY <2>2 DEF Tick, PriceInv, PriceTypeOK
    <3> QED
      BY <1>1, <2>2, <3>1, <3>2 DEF Tick, PriceInv, PriceTypeOK
  <2> QED
    BY <2>1, <2>2
<1>3. BillInv'
  BY <1>1 DEF PriceInv, BillInv, UnitPriced, ShippingPriced, NoBill
<1> QED
  BY <1>1, <1>2, <1>3 DEF PriceInv

\* A refresh raises the highest raw rate if anything, and marks a bill whose prices
\* were worked out at another rate.
LEMMA PriceInvRefresh ==
    ASSUME PriceInv, NEW x \in RawRates, Refresh(x)
    PROVE  PriceInv'
<1>0. x \in Nat /\ WithMarkup(x) \in Nat \ {0} /\ WithMarkup(x) <= x
  BY MarkupLowers, RatesAssumption
<1>1. CASE UNCHANGED <<rate, raw, age, fxJobs, bill>>
  <2>1. PriceTypeOK'
    <3>1. priceFaults' \in 0..PriceMaxFaults
      BY PriceMaxFaultsAssumption DEF Refresh, PriceInv, PriceTypeOK
    <3>2. UNCHANGED <<day, hour, fired>>
      BY DEF Refresh
    <3>3. bill' = NoBill \/ bill' \in Bills
      BY <1>1 DEF PriceInv, PriceTypeOK
    <3> QED
      BY <1>1, <3>1, <3>2, <3>3 DEF PriceInv, PriceTypeOK
  <2>2. BillInv'
    BY <1>1 DEF PriceInv, BillInv, UnitPriced, ShippingPriced, NoBill
  <2> QED
    BY <1>1, <2>1, <2>2 DEF PriceInv
<1>2. CASE /\ rate' = WithMarkup(x) /\ raw' = x /\ age' = 0 /\ fxJobs' = 0
           /\ UNCHANGED <<day, hour, fired, priceFaults>>
           /\ bill' = IF bill.at = "idle" THEN bill
                      ELSE [bill EXCEPT !.most = IF x > @ THEN x ELSE @,
                                        !.mixed = @ \/ (bill.at # "unit" /\ WithMarkup(x) # rate)]
  <2>1. bill' = NoBill \/ bill' \in Bills => PriceTypeOK'
    BY <1>0, <1>2, PriceMaxFaultsAssumption DEF PriceInv, PriceTypeOK
  <2>2. CASE bill = NoBill
    <3>1. bill' = NoBill
      BY <1>2, <2>2, IdleBill
    <3>2. BillInv'
      BY <3>1 DEF BillInv, NoBill
    <3> QED
      BY <1>0, <1>2, <2>1, <3>1, <3>2 DEF PriceInv
  <2>3. CASE bill \in Bills
    <3> DEFINE top == IF x > bill.most THEN x ELSE bill.most
               mix == bill.mixed \/ (bill.at # "unit" /\ WithMarkup(x) # rate)
    <3>1. bill' = [bill EXCEPT !.most = top, !.mixed = mix]
      BY <1>2, <2>3, IdleBill
    <3>2. bill.most \in Nat /\ bill.mixed \in BOOLEAN /\ bill # NoBill /\ bill.cny \in Nat /\ bill.fee \in Nat
      BY <2>3, IdleBill DEF Bills
    <3>3. top \in Nat /\ top >= x /\ top >= bill.most
      BY <1>0, <3>2
    <3>4. mix \in BOOLEAN /\ (~mix => ~bill.mixed /\ (bill.at = "unit" \/ rate' = rate))
      BY <1>2, <3>2
    <3> HIDE DEF top, mix
    <3>5. bill' \in Bills /\ bill'.most = top /\ bill'.mixed = mix
          /\ bill'.at = bill.at /\ bill'.cny = bill.cny /\ bill'.fee = bill.fee
          /\ bill'.unit = bill.unit /\ bill'.ship = bill.ship /\ bill'.rate = bill.rate
      BY <2>3, <3>1, <3>3, <3>4 DEF Bills
    <3>6. ASSUME NEW p \in Nat, NEW q \in Int, p * bill.most >= q PROVE p * top >= q
      <4>1. p * bill.most <= p * top
        BY <3>2, <3>3
      <4> QED
        BY <3>2, <3>3, <3>6, <4>1
    <3>7. ASSUME bill.at # "unit" PROVE UnitPriced'
      <4>1. UnitPriced
        BY <3>2, <3>7 DEF PriceInv, BillInv
      <4>2. bill.unit \in Nat /\ bill.cny * RateScale \in Int
            /\ bill.unit * bill.most >= bill.cny * RateScale
        BY <3>2, <4>1, RatesAssumption DEF UnitPriced
      <4>3. bill.unit * top >= bill.cny * RateScale
        BY <3>6, <4>2
      <4>4. ~mix => bill.unit = Convert(bill.cny, rate')
        BY <3>4, <3>7, <4>1 DEF UnitPriced
      <4>5. rate' > 0
        BY <1>0, <1>2
      <4> QED
        BY <3>5, <4>2, <4>3, <4>4, <4>5 DEF UnitPriced, Convert
    <3>8. ASSUME bill.at \in {"rate", "stored"} PROVE ShippingPriced'
      <4>1. ShippingPriced
        BY <3>2, <3>8 DEF PriceInv, BillInv
      <4>2. bill.ship \in Nat /\ bill.fee * RateScale \in Int
            /\ bill.ship * bill.most >= bill.fee * RateScale
        BY <3>2, <4>1, RatesAssumption DEF ShippingPriced
      <4>3. bill.ship * top >= bill.fee * RateScale
        BY <3>6, <4>2
      <4>4. ~mix => bill.ship = Convert(bill.fee, rate')
        BY <3>4, <3>8, <4>1 DEF ShippingPriced
      <4> QED
        BY <3>5, <4>2, <4>3, <4>4 DEF ShippingPriced, Convert
    <3>9. BillInv'
      <4>1. bill.at = "unit" /\ bill.ship = 0 => bill.fee = 0
        BY <3>2 DEF PriceInv, BillInv
      <4>2. bill.at = "stored" /\ ~mix => bill.rate = rate'
        BY <3>2, <3>4 DEF PriceInv, BillInv
      <4>3. raw' <= bill'.most
        BY <1>2, <3>3, <3>5
      <4> QED
        BY <3>5, <3>7, <3>8, <4>1, <4>2, <4>3 DEF BillInv
    <3> QED
      BY <1>0, <1>2, <2>1, <3>5, <3>9 DEF PriceInv
  <2> QED
    BY <2>2, <2>3 DEF PriceInv, PriceTypeOK
<1> QED
  BY <1>1, <1>2 DEF Refresh

\* A new bill has no price yet; a quote has no shipping to price.
LEMMA PriceInvStart ==
    ASSUME PriceInv, UNCHANGED fxVars, NEW b \in Bills, bill' = b,
           b.at = "unit", b.most = raw, b.ship = 0 => b.fee = 0
    PROVE  PriceInv'
<1>1. rate' = rate /\ raw' = raw /\ PriceTypeOK'
  BY DEF fxVars, PriceInv, PriceTypeOK
<1>2. BillInv'
  BY <1>1 DEF BillInv, PriceInv, PriceTypeOK
<1> QED
  BY <1>1, <1>2 DEF PriceInv

LEMMA PriceInvStarts ==
    ASSUME PriceInv,
           \/ \E cny \in Amounts, n \in Quantities, w \in Weights : StartCheckout(cny, n, w)
           \/ \E cny \in Amounts, full \in BOOLEAN : StartQuote(cny, full)
    PROVE  PriceInv'
<1>0. raw \in Nat
  BY DEF PriceInv, PriceTypeOK
<1>1. ASSUME NEW cny \in Amounts, NEW n \in Quantities, NEW w \in Weights, StartCheckout(cny, n, w)
      PROVE  PriceInv'
  <2> DEFINE fee == CalcFee(w)
             b == [Fresh EXCEPT !.cny = cny, !.qty = n, !.fee = fee]
  <2>1. fee \in Nat
    BY <1>1, CalcFeeType DEF StartCheckout
  <2>2. bill' = b /\ UNCHANGED fxVars
    BY <1>1 DEF StartCheckout
  <2> HIDE DEF fee
  <2>3. b \in Bills /\ b.at = "unit" /\ b.most = raw /\ b.ship # 0
    <3>1. Fresh \in Bills /\ Fresh.at = "unit" /\ Fresh.most = raw /\ Fresh.ship = -1
      BY <1>0 DEF Fresh, Bills
    <3>2. cny \in Nat /\ n \in Nat
      BY AmountsAssumption
    <3>3. b \in Bills /\ b.at = Fresh.at /\ b.most = Fresh.most /\ b.ship = Fresh.ship
      BY <2>1, <3>1, <3>2 DEF Bills
    <3> QED
      BY <3>1, <3>3
  <2> QED
    BY <2>2, <2>3, PriceInvStart
<1>2. ASSUME NEW cny \in Amounts, NEW full \in BOOLEAN, StartQuote(cny, full)
      PROVE  PriceInv'
  <2> DEFINE b == [Fresh EXCEPT !.cny = cny, !.qty = 1, !.ship = 0, !.full = full]
  <2>1. bill' = b /\ UNCHANGED fxVars
    BY <1>2 DEF StartQuote
  <2>2. b \in Bills /\ b.at = "unit" /\ b.most = raw /\ b.fee = 0
    BY <1>0, <1>2, AmountsAssumption DEF Fresh, Bills
  <2> QED
    BY <2>1, <2>2, PriceInvStart
<1> QED
  BY <1>1, <1>2

LEMMA PriceInvUnit ==
    ASSUME PriceInv, ConvertUnit
    PROVE  PriceInv'
<1>1. bill.at = "unit" /\ rate' = rate /\ raw' = raw
  BY DEF ConvertUnit, fxVars
<1>2. bill' = NoBill \/ bill' \in Bills => PriceTypeOK'
  BY DEF ConvertUnit, fxVars, PriceInv, PriceTypeOK
<1>3. bill \in Bills /\ bill # NoBill
  BY <1>1, IdleBill DEF PriceInv, PriceTypeOK
<1>4. /\ bill.cny \in Nat /\ bill.most \in Nat /\ raw <= bill.most /\ rate <= raw
      /\ rate \in Nat /\ raw \in Nat /\ (bill.ship = 0 => bill.fee = 0)
  BY <1>1, <1>3 DEF PriceInv, PriceTypeOK, BillInv, Bills
<1>5. CASE rate = 0
  <2>1. bill' = NoBill
    BY <1>5 DEF ConvertUnit
  <2> QED
    BY <1>1, <1>2, <2>1 DEF PriceInv, BillInv, NoBill
<1>6. CASE rate # 0
  <2> DEFINE p == Convert(bill.cny, rate)
             next == IF bill.ship = 0 THEN "rate" ELSE "ship"
  <2>1. rate \in Nat \ {0} /\ rate <= bill.most
    BY <1>4, <1>6
  <2>2. p \in Nat /\ p * bill.most >= bill.cny * RateScale
    BY <1>4, <2>1, ConvertCovers
  <2>3. bill' = [bill EXCEPT !.unit = p, !.at = next]
    BY <1>6 DEF ConvertUnit
  <2>4. next \in {"rate", "ship"} /\ (next = "rate" => bill.ship = 0)
    OBVIOUS
  <2> HIDE DEF p, next
  <2>5. bill' \in Bills /\ bill'.unit = p /\ bill'.at = next
        /\ bill'.cny = bill.cny /\ bill'.fee = bill.fee /\ bill'.ship = bill.ship
        /\ bill'.most = bill.most /\ bill'.mixed = bill.mixed
    BY <1>3, <2>2, <2>3, <2>4 DEF Bills
  <2>6. UnitPriced'
    BY <1>1, <2>1, <2>2, <2>5 DEF UnitPriced, Convert, p
  <2>7. ASSUME next = "rate" PROVE ShippingPriced'
    <3>1. bill'.ship = 0 /\ bill'.fee = 0
      BY <1>4, <2>4, <2>5, <2>7
    <3>2. 0 * bill.most = 0 /\ 0 * RateScale = 0
      BY <1>4, RatesAssumption
    <3>3. Convert(0, rate) = 0
      BY <2>1, ConvertZero
    <3> QED
      BY <1>1, <2>5, <3>1, <3>2, <3>3 DEF ShippingPriced, Convert
  <2>8. BillInv'
    BY <1>1, <1>4, <2>4, <2>5, <2>6, <2>7 DEF BillInv
  <2> QED
    BY <1>1, <1>2, <1>4, <2>5, <2>8 DEF PriceInv
<1> QED
  BY <1>5, <1>6

LEMMA PriceInvShipping ==
    ASSUME PriceInv, ConvertShipping
    PROVE  PriceInv'
<1>1. bill.at = "ship" /\ rate' = rate /\ raw' = raw
  BY DEF ConvertShipping, fxVars
<1>2. bill' \in Bills => PriceTypeOK'
  BY DEF ConvertShipping, fxVars, PriceInv, PriceTypeOK
<1>3. bill \in Bills /\ bill # NoBill
  BY <1>1, IdleBill DEF PriceInv, PriceTypeOK
<1>4. /\ bill.fee \in Nat /\ bill.most \in Nat /\ raw <= bill.most /\ rate <= raw
      /\ rate \in Nat /\ raw \in Nat /\ UnitPriced
  BY <1>1, <1>3 DEF PriceInv, PriceTypeOK, BillInv, Bills
<1> DEFINE p == Convert(bill.fee, rate)
<1>5. rate \in Nat \ {0} /\ rate <= bill.most
  BY <1>4 DEF UnitPriced
<1>6. p \in Nat /\ p * bill.most >= bill.fee * RateScale
  BY <1>4, <1>5, ConvertCovers
<1>7. bill' = [bill EXCEPT !.ship = p, !.at = "rate"]
  BY DEF ConvertShipping
<1> HIDE DEF p
<1>8. bill' \in Bills /\ bill'.ship = p /\ bill'.at = "rate"
      /\ bill'.cny = bill.cny /\ bill'.fee = bill.fee /\ bill'.unit = bill.unit
      /\ bill'.most = bill.most /\ bill'.mixed = bill.mixed
  BY <1>3, <1>6, <1>7 DEF Bills
<1>9. UnitPriced'
  BY <1>1, <1>4, <1>8 DEF UnitPriced, Convert
<1>10. ShippingPriced'
  BY <1>1, <1>6, <1>8 DEF ShippingPriced, Convert, p
<1>11. BillInv'
  BY <1>1, <1>4, <1>8, <1>9, <1>10 DEF BillInv
<1> QED
  BY <1>1, <1>2, <1>4, <1>8, <1>11 DEF PriceInv

LEMMA PriceInvSnapshot ==
    ASSUME PriceInv, SnapshotRate \/ NextRequest
    PROVE  PriceInv'
<1>1. rate' = rate /\ raw' = raw
  BY DEF SnapshotRate, NextRequest, fxVars
<1>2. bill' = NoBill \/ bill' \in Bills => PriceTypeOK'
  BY DEF SnapshotRate, NextRequest, fxVars, PriceInv, PriceTypeOK
<1>3. CASE NextRequest
  <2>1. bill' = NoBill
    BY <1>3 DEF NextRequest
  <2> QED
    BY <1>1, <1>2, <2>1 DEF PriceInv, BillInv, NoBill
<1>4. CASE SnapshotRate
  <2>1. bill.at = "rate" /\ bill' = [bill EXCEPT !.rate = rate, !.at = "stored"]
    BY <1>4 DEF SnapshotRate
  <2>2. bill \in Bills /\ bill # NoBill /\ rate \in Nat
    BY <2>1, IdleBill DEF PriceInv, PriceTypeOK
  <2>3. raw <= bill.most /\ rate <= raw /\ UnitPriced /\ ShippingPriced
    BY <2>1, <2>2 DEF PriceInv, BillInv
  <2>4. bill' \in Bills /\ bill'.rate = rate /\ bill'.at = "stored"
        /\ bill'.cny = bill.cny /\ bill'.fee = bill.fee /\ bill'.unit = bill.unit
        /\ bill'.ship = bill.ship /\ bill'.most = bill.most /\ bill'.mixed = bill.mixed
    BY <2>1, <2>2 DEF Bills
  <2>5. UnitPriced' /\ ShippingPriced'
    BY <1>1, <2>3, <2>4 DEF UnitPriced, ShippingPriced, Convert
  <2>6. BillInv'
    BY <1>1, <2>3, <2>4, <2>5 DEF BillInv
  <2> QED
    BY <1>1, <1>2, <2>3, <2>4, <2>6 DEF PriceInv
<1> QED
  BY <1>3, <1>4

LEMMA PriceInvNext == PriceInv /\ [PriceNext]_priceVars => PriceInv'
<1> SUFFICES ASSUME PriceInv, [PriceNext]_priceVars PROVE PriceInv'
  OBVIOUS
<1>1. CASE UNCHANGED priceVars
  BY <1>1 DEF priceVars, PriceInv, PriceTypeOK, BillInv, UnitPriced, ShippingPriced, NoBill
<1>2. CASE PriceNext
  BY <1>2, PriceInvQuiet, PriceInvRefresh, PriceInvStarts, PriceInvUnit, PriceInvShipping,
     PriceInvSnapshot DEF PriceNext
<1> QED
  BY <1>1, <1>2

LEMMA PricesCorrect == PriceSpec => []PriceInv
  BY PriceInvInit, PriceInvNext, PTL DEF PriceSpec

-------------------------------------------------------------------------------
(* What follows from it *)

\* Every variable of the exchange rate, its schedule and the bill keeps its type.
THEOREM PriceTypeCorrect == PriceSpec => []PriceTypeOK
<1>1. PriceInv => PriceTypeOK
  BY DEF PriceInv
<1> QED
  BY <1>1, PricesCorrect, PTL

\* The price a rate gives for any amount is on the grid, covers it, and is the least
\* such price, at every rate a refresh can store.
THEOREM PricesAreAlwaysLeast == PriceSpec => []PricesAreLeast
<1>1. ASSUME PriceInv PROVE PricesAreLeast
  <2> SUFFICES ASSUME rate > 0, NEW cny \in Amounts
               PROVE  /\ Grid(Convert(cny, rate))
                      /\ Convert(cny, rate) * rate >= cny * RateScale
                      /\ \A p \in (Convert(cny, rate) - 100)..(Convert(cny, rate) - 1) :
                             ~(p >= 0 /\ Grid(p) /\ p * rate >= cny * RateScale)
    BY DEF PricesAreLeast, Grid
  <2> DEFINE n == cny * RateScale
             price == RoundPrice(n, rate)
  <2>1. n \in Nat /\ rate \in Nat \ {0}
    BY <1>1, AmountsAssumption, RatesAssumption DEF PriceInv, PriceTypeOK
  <2>2. Convert(cny, rate) = price
    BY DEF Convert
  <2> HIDE DEF n
  <2>3. /\ price \in Nat /\ Grid(price) /\ price * rate >= n
        /\ \A p \in Nat : p < price /\ Grid(p) => p * rate < n
    BY <2>1, PriceIsLeast
  <2> HIDE DEF price
  <2>4. ASSUME NEW p \in (price - 100)..(price - 1), p >= 0, Grid(p), p * rate >= n
        PROVE  FALSE
    <3>1. p \in Nat /\ p < price
      BY <2>3, <2>4
    <3>2. p * rate < n /\ p * rate \in Nat
      BY <2>1, <2>3, <2>4, <3>1
    <3> QED
      BY <2>1, <2>4, <3>2
  <2> QED
    BY <2>2, <2>3, <2>4 DEF n
<1> QED
  BY <1>1, PricesCorrect, PTL

\* However the refreshes fall between the steps of a checkout or a quote, it covers
\* the price in CNY, and the stored rate explains it unless a refresh came between.
THEOREM BillsHold == PriceSpec => []BillHolds
<1>1. ASSUME PriceInv PROVE BillHolds
  <2> SUFFICES ASSUME bill.at = "stored" PROVE CoversCNY /\ RateExplainsBill
    BY DEF BillHolds, CoversCNY, RateExplainsBill
  <2>1. bill \in Bills /\ bill # NoBill
    BY <1>1, IdleBill DEF PriceInv, PriceTypeOK
  <2>2. UnitPriced /\ ShippingPriced /\ (~bill.mixed => bill.rate = rate)
    BY <1>1, <2>1 DEF PriceInv, BillInv
  <2>3. RateExplainsBill
    BY <2>2 DEF RateExplainsBill, UnitPriced, ShippingPriced
  <2>4. CoversCNY
    <3> DEFINE A == bill.unit * bill.most
               B == bill.cny * RateScale
               C == bill.ship * bill.most
               D == bill.fee * RateScale
               q == bill.qty
    <3>1. /\ bill.unit \in Nat /\ bill.ship \in Nat /\ bill.most \in Nat /\ q \in Nat
          /\ bill.cny \in Nat /\ bill.fee \in Nat /\ RateScale \in Nat
      BY <2>1, <2>2, RatesAssumption DEF UnitPriced, ShippingPriced, Bills
    <3>2. A >= B /\ C >= D
      BY <2>2 DEF UnitPriced, ShippingPriced
    <3>3. A \in Int /\ B \in Int /\ C \in Int /\ D \in Int
      BY <3>1
    <3>4. Total * bill.most = A * q + C
      BY <3>1 DEF Total
    <3>5. (bill.cny * q + bill.fee) * RateScale = B * q + D
      BY <3>1
    <3> HIDE DEF A, B, C, D
    <3>6. B * q <= A * q
      BY <3>1, <3>2, <3>3, TimesGrows
    <3>7. B * q \in Int /\ A * q \in Int
      BY <3>1, <3>3
    <3>8. A * q + C >= B * q + D
      BY <3>2, <3>3, <3>6, <3>7
    <3> QED
      BY <3>4, <3>5, <3>8 DEF CoversCNY
  <2> QED
    BY <2>3, <2>4
<1> QED
  BY <1>1, PricesCorrect, PTL
===============================================================================
