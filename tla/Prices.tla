-------------------------------- MODULE Prices ---------------------------------
(***************************************************************************)
(* What a customer is asked to pay: the stored exchange rate and the job   *)
(* that refreshes it, conversion and rounding, the shipping fee, the bill  *)
(* of an order and the deposit of an itinerary quote.                      *)
(*                                                                         *)
(*   fx.Service          Refresh (worker), Convert, Rate                   *)
(*   order.Service       Checkout: a Convert per line, one for shipping,   *)
(*                       then Rate; each reads the rate anew               *)
(*   itinerary.Service   SendQuote: Convert, then Rate                     *)
(*                                                                         *)
(* Amounts are fen and cents.  There is one currency; its rate, CNY per    *)
(* unit, is rounded to a multiple of 1/RateScale, as the column rounds it  *)
(* to eight digits; the division of decimals is exact.                     *)
(*                                                                         *)
(* A definition whose comment begins with "Mutant" is no part of the model *)
(* (see OrderPayment).                                                     *)
(***************************************************************************)
EXTENDS Integers, FiniteSetsExt

CONSTANTS RateScale,
          RawRates,       \* rates the ECB may publish
          MarkupBPS,      \* basis points, 200 in the code
          Amounts,        \* prices of SKUs and option rates
          Quantities,
          Tiers,          \* shipping: the fee by the weight up to which it holds
          Weights,        \* weights of carts
          MaxAge,         \* bound on the age of a rate, in days
          PriceMaxFaults  \* bound on failed refreshes

ASSUME RatesAssumption ==
    /\ RateScale \in Nat \ {0} /\ RawRates \subseteq Nat \ {0} /\ MarkupBPS \in Nat
    /\ \A raw \in RawRates : raw * 10000 >= 10000 + MarkupBPS
ASSUME AmountsAssumption == Amounts \subseteq Nat /\ Quantities \subseteq Nat
ASSUME TiersAssumption == DOMAIN Tiers \subseteq Nat /\ \A m \in DOMAIN Tiers : Tiers[m] \in Nat
ASSUME PriceMaxFaultsAssumption == MaxAge \in Nat /\ PriceMaxFaults \in Nat

VARIABLES rate,       \* fx_rates.rate_to_cny, 0 without a row
          raw,        \* the rate it was derived from
          age,        \* days since it was fetched
          day, hour,  \* the scheduler's clock
          fired,      \* whether the cron entry has fired this hour
          fxJobs,     \* fx:refresh jobs in the queue
          bill,       \* the checkout or quote that is being worked out
          priceFaults \* faults so far

priceVars == <<rate, raw, age, day, hour, fired, fxJobs, bill, priceFaults>>
fxVars == <<rate, raw, age, day, hour, fired, fxJobs, priceFaults>>

\* `most` is the highest raw rate in force since the bill was begun, `mixed`
\* whether the rate has changed since the first conversion; -1 is what is not known yet.
NoBill == [at |-> "idle"]
Bills == [at : {"unit", "ship", "rate", "stored"}, cny : Nat, qty : Nat, fee : Nat,
          full : BOOLEAN, unit : Nat \cup {-1}, ship : Nat \cup {-1},
          rate : Nat \cup {-1}, most : Nat, mixed : BOOLEAN]

PriceTypeOK ==
    /\ rate \in Nat /\ raw \in Nat /\ age \in 0..MaxAge
    /\ day \in 1..31 /\ hour \in {0, 5, 16}
    /\ fired \in BOOLEAN /\ fxJobs \in {0, 1}
    /\ bill = NoBill \/ bill \in Bills
    /\ priceFaults \in 0..PriceMaxFaults

Fresh == [at |-> "unit", cny |-> 0, qty |-> 0, fee |-> 0, full |-> FALSE, unit |-> -1,
          ship |-> -1, rate |-> -1, most |-> raw, mixed |-> FALSE]

PriceInit ==
    /\ rate = 0 /\ raw = 0 /\ age = 0
    /\ day \in 15..17 /\ hour = 0
    /\ fired = FALSE /\ fxJobs = 0
    /\ bill = NoBill
    /\ priceFaults = 0

-------------------------------------------------------------------------------
(* The arithmetic *)

CeilDiv(a, b) == (a + b - 1) \div b

\* Mutant: whole units in both bands.
RoundToUnits(n, d) == 100 * CeilDiv(n, 100 * d)

\* n/d cents: up to 50 below 100 units of the currency, to 100 from there on.
RoundPrice(n, d) ==
    IF n < 10000 * d THEN 50 * CeilDiv(n, 50 * d) ELSE 100 * CeilDiv(n, 100 * d)

Convert(cny, r) == RoundPrice(cny * RateScale, r)

\* The stored rate: fewer CNY per unit, so that more is paid; rounded half up.
WithMarkup(x) == (20000 * x + 10000 + MarkupBPS) \div (2 * (10000 + MarkupBPS))

roundDeposit(total) == (total * 30 + 50) \div 100

\* The fee of the lightest tier that carries the weight.
Shippable(w) == \E m \in DOMAIN Tiers : w <= m
CalcFee(w) == Tiers[Min({m \in DOMAIN Tiers : w <= m})]

-------------------------------------------------------------------------------
(* The refresh and its schedule *)

\* The cron entry "* 5 16 * *" (UTC): every minute from 05:00 to 05:59 on the
\* 16th of a month.
Due == day = 16 /\ hour = 5

ScheduleFXRefresh ==
    /\ Due /\ fxJobs = 0
    /\ fxJobs' = 1 /\ fired' = TRUE
    /\ UNCHANGED <<rate, raw, age, day, hour, bill, priceFaults>>

\* The job reads the feed; when that fails it is retried.
Refresh(x) ==
    /\ fxJobs > 0
    /\ \/ /\ rate' = WithMarkup(x) /\ raw' = x /\ age' = 0 /\ fxJobs' = 0
          /\ bill' = IF bill.at = "idle" THEN bill
                     ELSE [bill EXCEPT !.most = IF x > @ THEN x ELSE @,
                                       !.mixed = @ \/ (bill.at # "unit" /\ WithMarkup(x) # rate)]
          /\ UNCHANGED priceFaults
       \/ /\ priceFaults < PriceMaxFaults /\ priceFaults' = priceFaults + 1
          /\ UNCHANGED <<rate, raw, age, fxJobs, bill>>
    /\ UNCHANGED <<day, hour, fired>>

\* The clock moves between the hours that matter, and not past a cron entry or a
\* job that waits: scheduler and worker keep up.
Tick ==
    /\ Due => fired
    /\ fxJobs = 0
    /\ fired' = FALSE
    /\ \/ hour = 0 /\ hour' = 5 /\ UNCHANGED <<day, age>>
       \/ hour = 5 /\ hour' = 16 /\ UNCHANGED <<day, age>>
       \/ /\ hour = 16 /\ hour' = 0
          /\ day' = IF day = 31 THEN 1 ELSE day + 1
          /\ age' = IF rate = 0 \/ age = MaxAge THEN age ELSE age + 1
    /\ UNCHANGED <<rate, raw, fxJobs, bill, priceFaults>>

-------------------------------------------------------------------------------
(* Bills *)

\* A line of the cart and its weight; or a quote, which has no shipping.
StartCheckout(cny, n, w) ==
    /\ bill = NoBill /\ Shippable(w)
    /\ bill' = [Fresh EXCEPT !.cny = cny, !.qty = n, !.fee = CalcFee(w)]
    /\ UNCHANGED fxVars

StartQuote(cny, full) ==
    /\ bill = NoBill
    /\ bill' = [Fresh EXCEPT !.cny = cny, !.qty = 1, !.ship = 0, !.full = full]
    /\ UNCHANGED fxVars

\* Without a stored rate the request ends.
ConvertUnit ==
    /\ bill.at = "unit"
    /\ bill' = IF rate = 0 THEN NoBill
               ELSE [bill EXCEPT !.unit = Convert(bill.cny, rate),
                                 !.at = IF bill.ship = 0 THEN "rate" ELSE "ship"]
    /\ UNCHANGED fxVars

ConvertShipping ==
    /\ bill.at = "ship"
    /\ bill' = [bill EXCEPT !.ship = Convert(bill.fee, rate), !.at = "rate"]
    /\ UNCHANGED fxVars

\* Mutant: the rate before the markup is stored.
SnapshotRawRate ==
    /\ bill.at = "rate"
    /\ bill' = [bill EXCEPT !.rate = raw, !.at = "stored"]
    /\ UNCHANGED fxVars

\* fx_rate_used; the order or the quote is stored with it.
SnapshotRate ==
    /\ bill.at = "rate"
    /\ bill' = [bill EXCEPT !.rate = rate, !.at = "stored"]
    /\ UNCHANGED fxVars

NextRequest ==
    /\ bill.at = "stored"
    /\ bill' = NoBill
    /\ UNCHANGED fxVars

Total == bill.unit * bill.qty + bill.ship
Deposit == IF bill.full THEN Total ELSE roundDeposit(Total)

-------------------------------------------------------------------------------
PriceNext ==
    \/ ScheduleFXRefresh \/ Tick \/ \E x \in RawRates : Refresh(x)
    \/ \E cny \in Amounts, n \in Quantities, w \in Weights : StartCheckout(cny, n, w)
    \/ \E cny \in Amounts, full \in BOOLEAN : StartQuote(cny, full)
    \/ ConvertUnit \/ ConvertShipping \/ SnapshotRate \/ NextRequest

PriceSpec == PriceInit /\ [][PriceNext]_priceVars

-------------------------------------------------------------------------------
(* Properties *)

\* A price is on the grid, covers what it stands for at the stored rate, and no
\* lower price on the grid does, also across the step from one band to the other.
PricesAreLeast ==
    rate > 0 =>
        \A cny \in Amounts :
            LET price == Convert(cny, rate)
                grid(p) == p % (IF p < 10000 THEN 50 ELSE 100) = 0
                covers(p) == p * rate >= cny * RateScale
            IN /\ grid(price) /\ covers(price)
               /\ \A p \in (price - 100)..(price - 1) : ~(p >= 0 /\ grid(p) /\ covers(p))

\* Nothing is sold below its price in CNY at the highest raw rate that was in force
\* while the bill was worked out, however the refreshes fall between its steps.
CoversCNY ==
    bill.at = "stored" =>
        Total * bill.most >= (bill.cny * bill.qty + bill.fee) * RateScale

\* The rate on a stored bill explains every price on it, unless a refresh changed
\* the rate after its first conversion.
RateExplainsBill ==
    bill.at = "stored" /\ ~bill.mixed =>
        /\ bill.unit = Convert(bill.cny, bill.rate)
        /\ bill.ship = Convert(bill.fee, bill.rate)

\* What a refresh does to a bill under way neither cheapens it nor makes it
\* inexplicable: both halves together.
BillHolds == CoversCNY /\ RateExplainsBill

\* "fx:refresh daily": a stored rate is of today or yesterday.
RatesAreDaily == age <= 1
===============================================================================
