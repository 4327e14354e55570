--------------------------- MODULE StorefrontProofs ---------------------------
(***************************************************************************)
(* Theorems about Shop, TwoFactor and Accounts, for all sets of customers, *)
(* SKUs, users, links and requests in flight and every number of faults.   *)
(***************************************************************************)
EXTENDS Shop, TwoFactor, Accounts, DataLemmas

-------------------------------------------------------------------------------
(* Shop: type correctness *)

USE CustomersAssumption DEF Lines

LEMMA NoLinesType == NoLines \in Lines
  BY DEF NoLines

LEMMA NoVisitType == NoVisit \in Visits /\ \A u \in Customers : VisitOf(u) \in Visits
<1>1. \A u \in Customers : VisitOf(u) \in Visits
  BY NoLinesType DEF VisitOf, Visits
<1>2. (CHOOSE u \in Customers : TRUE) \in Customers
  OBVIOUS
<1> QED
  BY <1>1, <1>2 DEF NoVisit

LEMMA LeaveType ==
    ASSUME ShopTypeOK, NEW c \in ShopCalls, Leave(c)
    PROVE  shopping' \in [ShopCalls -> Visits]
  BY NoVisitType DEF ShopTypeOK, Leave, Visit

LEMMA VisitType ==
    ASSUME ShopTypeOK, NEW c \in ShopCalls, NEW r \in Visits, Visit(c, r)
    PROVE  shopping' \in [ShopCalls -> Visits]
  BY DEF ShopTypeOK, Visit

LEMMA ShopFaultType == ShopTypeOK /\ (ShopFault \/ UNCHANGED shopFaults) => shopFaults' \in 0..ShopMaxFaults
  BY ShopMaxFaultsAssumption DEF ShopTypeOK, ShopFault

LEMMA PutInType ==
    ASSUME ShopTypeOK, NEW u \in Customers, NEW q \in Lines, PutIn(u, q)
    PROVE  cart' \in [Customers -> Lines] /\ added' \in [Customers -> Lines]
  BY DEF ShopTypeOK, PutIn

LEMMA SetLineType ==
    ASSUME NEW f \in [Customers -> Lines], NEW u \in Customers, NEW s \in Wares, NEW n \in Nat
    PROVE  [f EXCEPT ![u][s] = n] \in [Customers -> Lines]
  OBVIOUS

LEMMA NextItemType ==
    ASSUME ShopTypeOK, NEW c \in ShopCalls, NEW r \in Visits, NextItem(c, r)
    PROVE  shopping' \in [ShopCalls -> Visits]
<1>1. CASE Visit(c, [r EXCEPT !.at = "stock", !.stock = 0])
  <2>1. [r EXCEPT !.at = "stock", !.stock = 0] \in Visits
    BY DEF Visits
  <2> QED
    BY <1>1, <2>1, VisitType
<1>2. CASE Visit(c, [VisitOf(r.user) EXCEPT !.at = "merge", !.lines = r.lines])
  <2>1. r.user \in Customers /\ r.lines \in Lines
    BY DEF Visits
  <2>2. [VisitOf(r.user) EXCEPT !.at = "merge", !.lines = r.lines] \in Visits
    BY <2>1, NoLinesType DEF Visits, VisitOf
  <2> QED
    BY <1>2, <2>2, VisitType
<1>3. CASE Visit(c, NoVisit)
  BY <1>3, NoVisitType, VisitType
<1> QED
  BY <1>1, <1>2, <1>3 DEF NextItem

LEMMA ShopTypeInit == ShopInit => ShopTypeOK
  BY NoLinesType, NoVisitType, ShopMaxFaultsAssumption DEF ShopInit, ShopTypeOK

LEMMA ShopTypeStarts ==
    ASSUME ShopTypeOK, NEW c \in ShopCalls, ShopStarts(c)
    PROVE  ShopTypeOK'
<1>1. ASSUME NEW u \in Customers, NEW shown \in SUBSET Wares, GetCart(c, u, shown)
      PROVE  ShopTypeOK'
  <2> DEFINE q == [s \in Wares |-> IF s \in shown THEN cart[u][s] ELSE 0]
  <2>1. q \in Lines
    BY DEF ShopTypeOK
  <2>2. [VisitOf(u) EXCEPT !.at = "order", !.lines = q] \in Visits
    BY <2>1, NoLinesType DEF Visits, VisitOf
  <2>3. shopping' \in [ShopCalls -> Visits]
    BY <1>1, <2>2, VisitType DEF GetCart
  <2> QED
    BY <1>1, <2>3 DEF GetCart, ShopTypeOK, skuVars
<1>2. ASSUME NEW u \in Customers, NEW q \in [Wares -> 0..MaxQty], StartMerge(c, u, q)
      PROVE  ShopTypeOK'
  <2>0. q \in Lines
    <3>1. \A n \in 0..MaxQty : n \in Nat
      BY MaxQtyAssumption
    <3> QED
      BY <3>1
  <2>1. [VisitOf(u) EXCEPT !.at = "stock", !.merging = TRUE, !.wish = q] \in Visits
    BY <2>0, NoLinesType DEF Visits, VisitOf
  <2>2. shopping' \in [ShopCalls -> Visits]
    BY <1>2, <2>1, VisitType DEF StartMerge
  <2> QED
    BY <1>2, <2>2 DEF StartMerge, ShopTypeOK, skuVars, purchaseVars
<1>3. ASSUME NEW u \in Customers, NEW s \in Wares, NEW n \in 1..MaxQty,
             StartAddItem(c, u, s, n) \/ StartSetItemQty(c, u, s, n)
      PROVE  ShopTypeOK'
  <2>1. [NoLines EXCEPT ![s] = n] \in Lines
    BY NoLinesType, MaxQtyAssumption
  <2>2. /\ [VisitOf(u) EXCEPT !.at = "stock", !.wish = [NoLines EXCEPT ![s] = n]] \in Visits
        /\ [VisitOf(u) EXCEPT !.at = "assign", !.lines = [NoLines EXCEPT ![s] = n]] \in Visits
    BY <2>1, NoLinesType DEF Visits, VisitOf
  <2>3. shopping' \in [ShopCalls -> Visits]
    BY <1>3, <2>2, VisitType DEF StartAddItem, StartSetItemQty
  <2> QED
    BY <1>3, <2>3 DEF StartAddItem, StartSetItemQty, ShopTypeOK, skuVars, purchaseVars
<1> QED
  BY <1>1, <1>2, <1>3 DEF ShopStarts

LEMMA ShopTypeCart ==
    ASSUME ShopTypeOK, NEW c \in ShopCalls,
           SKUStock(c) \/ currentQty(c) \/ AddItem(c) \/ MergeItems(c) \/ SetItemQty(c)
    PROVE  ShopTypeOK'
<1> DEFINE r == shopping[c]
<1>0. r \in Visits
  BY DEF ShopTypeOK
<1>1. CASE SKUStock(c)
  <2>1. ASSUME NEW s \in LinesOf(r.wish)
        PROVE  /\ [r EXCEPT !.at = "current", !.sku = {s}, !.stock = shelf[s]] \in Visits
               /\ [r EXCEPT !.wish[s] = 0] \in Visits
    BY <1>0 DEF Visits, LinesOf, ShopTypeOK
  <2>2. shopping' \in [ShopCalls -> Visits]
    BY <1>1, <2>1, VisitType, NextItemType, LeaveType DEF SKUStock
  <2> QED
    BY <1>1, <2>2 DEF SKUStock, ShopTypeOK, skuVars, purchaseVars
<1>2. CASE currentQty(c)
  <2>1. PICK s \in r.sku :
          LET q == [r EXCEPT !.wish[s] = 0, !.sku = {}]
              wanted == r.wish[s]
              room == q.stock - cart[q.user][s]
          IN IF q.merging
             THEN NextItem(c, [q EXCEPT !.lines[s] =
                      IF room <= 0 THEN 0 ELSE IF wanted > room THEN room ELSE wanted])
             ELSE IF wanted > room
             THEN Leave(c)
             ELSE Visit(c, [q EXCEPT !.at = "add", !.lines[s] = wanted, !.stock = 0])
    BY <1>2 DEF currentQty
  <2> DEFINE q == [r EXCEPT !.wish[s] = 0, !.sku = {}]
             wanted == r.wish[s]
             room == q.stock - cart[q.user][s]
             capped == IF room <= 0 THEN 0 ELSE IF wanted > room THEN room ELSE wanted
  <2>2. s \in Wares
    BY <1>0 DEF Visits
  <2>3. q \in Visits
    BY <1>0, <2>2 DEF Visits
  <2>4. wanted \in Nat /\ room \in Int /\ capped \in Nat
    BY <1>0, <2>2, <2>3 DEF Visits, ShopTypeOK
  <2> HIDE DEF q, wanted, room, capped
  <2>5. /\ [q EXCEPT !.lines[s] = capped] \in Visits
        /\ [q EXCEPT !.at = "add", !.lines[s] = wanted, !.stock = 0] \in Visits
    BY <2>2, <2>3, <2>4 DEF Visits
  <2>6. \/ NextItem(c, [q EXCEPT !.lines[s] = capped])
        \/ Leave(c)
        \/ Visit(c, [q EXCEPT !.at = "add", !.lines[s] = wanted, !.stock = 0])
    BY <2>1 DEF q, wanted, room, capped
  <2>7. shopping' \in [ShopCalls -> Visits]
    BY <2>5, <2>6, VisitType, NextItemType, LeaveType
  <2> QED
    BY <1>2, <2>7 DEF currentQty, ShopTypeOK, skuVars, purchaseVars
<1>3. CASE AddItem(c) \/ MergeItems(c)
  <2>1. r.user \in Customers /\ r.lines \in Lines
    BY <1>0 DEF Visits
  <2>2. shopping' \in [ShopCalls -> Visits]
    BY <1>3, LeaveType DEF AddItem, MergeItems
  <2>3. PutIn(r.user, r.lines) \/ UNCHANGED <<cart, added>>
    BY <1>3 DEF AddItem, MergeItems
  <2>4. cart' \in [Customers -> Lines] /\ added' \in [Customers -> Lines]
    BY <2>1, <2>3, PutInType DEF ShopTypeOK
  <2> QED
    BY <1>3, <2>2, <2>4 DEF AddItem, MergeItems, ShopTypeOK, skuVars, purchaseVars
<1>4. CASE SetItemQty(c)
  <2>1. r.user \in Customers /\ r.lines \in Lines
    BY <1>0 DEF Visits
  <2>2. shopping' \in [ShopCalls -> Visits]
    BY <1>4, LeaveType DEF SetItemQty
  <2>3. cart' \in [Customers -> Lines] /\ added' \in [Customers -> Lines]
    <3>1. PICK s \in LinesOf(r.lines) :
            \/ /\ cart' = [cart EXCEPT ![r.user][s] = r.lines[s]]
               /\ added' = [added EXCEPT ![r.user][s] = @ +
                       (IF r.lines[s] > cart[r.user][s] THEN r.lines[s] - cart[r.user][s] ELSE 0)]
            \/ UNCHANGED <<cart, added>>
      BY <1>4 DEF SetItemQty
    <3>2. s \in Wares /\ r.lines[s] \in Nat /\ cart[r.user][s] \in Nat
      BY <2>1 DEF LinesOf, ShopTypeOK
    <3>3. (IF r.lines[s] > cart[r.user][s] THEN r.lines[s] - cart[r.user][s] ELSE 0) \in Nat
      BY <3>2
    <3> QED
      <4>1. CASE UNCHANGED <<cart, added>>
        BY <4>1 DEF ShopTypeOK
      <4>2. CASE cart' = [cart EXCEPT ![r.user][s] = r.lines[s]]
        <5>1. cart' \in [Customers -> Lines]
          BY <2>1, <3>2, <4>2 DEF ShopTypeOK
        <5> DEFINE more == IF r.lines[s] > cart[r.user][s] THEN r.lines[s] - cart[r.user][s] ELSE 0
        <5>2. more \in Nat
          BY <3>3
        <5>3. added' = [added EXCEPT ![r.user][s] = added[r.user][s] + more] \/ UNCHANGED added
          BY <3>1
        <5>4. added[r.user][s] + more \in Nat
          BY <2>1, <3>2, <5>2 DEF ShopTypeOK
        <5> HIDE DEF more
        <5>5. ASSUME added' = [added EXCEPT ![r.user][s] = added[r.user][s] + more]
              PROVE  added' \in [Customers -> Lines]
          BY <2>1, <3>2, <5>4, <5>5, SetLineType DEF ShopTypeOK
        <5>6. added' \in [Customers -> Lines]
          BY <5>3, <5>5 DEF ShopTypeOK
        <5> QED
          BY <5>1, <5>6
      <4> QED
        BY <3>1, <4>1, <4>2
  <2> QED
    BY <1>4, <2>2, <2>3 DEF SetItemQty, ShopTypeOK, skuVars, purchaseVars
<1> QED
  BY <1>1, <1>2, <1>3, <1>4

LEMMA ShopTypeCheckout ==
    ASSUME ShopTypeOK, NEW c \in ShopCalls, CreateOrderOfCart(c) \/ BulkRemove(c)
    PROVE  ShopTypeOK'
<1> DEFINE r == shopping[c]
<1>0. r \in Visits /\ r.user \in Customers /\ r.lines \in Lines
  BY DEF ShopTypeOK, Visits
<1>1. CASE CreateOrderOfCart(c)
  <2>1. [r EXCEPT !.at = "clear"] \in Visits
    BY <1>0 DEF Visits
  <2>2. shopping' \in [ShopCalls -> Visits]
    BY <1>1, <2>1, VisitType, LeaveType DEF CreateOrderOfCart
  <2>3. CASE Leave(c) /\ UNCHANGED <<purchase, shelf, taken, bought>>
    BY <1>1, <2>2, <2>3 DEF CreateOrderOfCart, ShopTypeOK
  <2>4. CASE /\ \A s \in LinesOf(r.lines) : listing[s] = "live" /\ shelf[s] >= r.lines[s]
             /\ \E o \in Purchases : purchase[o] = NoLines /\ purchase' = [purchase EXCEPT ![o] = r.lines]
             /\ shelf' = [s \in Wares |-> shelf[s] - r.lines[s]]
             /\ taken' = [s \in Wares |-> taken[s] + r.lines[s]]
             /\ bought' = [bought EXCEPT ![r.user] = [s \in Wares |-> @[s] + r.lines[s]]]
    <3>1. ASSUME NEW s \in Wares PROVE shelf[s] - r.lines[s] \in Nat
      <4>1. shelf[s] \in Nat /\ r.lines[s] \in Nat
        BY <1>0 DEF ShopTypeOK, Lines
      <4>2. shelf[s] >= r.lines[s]
        <5>1. CASE r.lines[s] > 0
          BY <2>4, <5>1 DEF LinesOf
        <5>2. CASE ~(r.lines[s] > 0)
          BY <4>1, <5>2
        <5> QED
          BY <5>1, <5>2
      <4> HIDE DEF r
      <4> QED
        BY <4>1, <4>2
    <3>2. shelf' \in [Wares -> Nat] /\ taken' \in [Wares -> Int]
      BY <1>0, <2>4, <3>1 DEF ShopTypeOK
    <3>3. purchase' \in [Purchases -> Lines] /\ bought' \in [Customers -> Lines]
      BY <1>0, <2>4 DEF ShopTypeOK
    <3> QED
      BY <1>1, <2>2, <3>2, <3>3 DEF CreateOrderOfCart, ShopTypeOK
  <2> QED
    BY <1>1, <2>3, <2>4 DEF CreateOrderOfCart
<1>2. CASE BulkRemove(c)
  <2>1. shopping' \in [ShopCalls -> Visits]
    BY <1>2, LeaveType DEF BulkRemove
  <2>2. cart' \in [Customers -> Lines]
    <3>1. [s \in Wares |-> IF s \in LinesOf(r.lines) THEN 0 ELSE cart[r.user][s]] \in Lines
      BY <1>0 DEF ShopTypeOK
    <3> QED
      BY <1>0, <1>2, <3>1 DEF BulkRemove, ShopTypeOK
  <2>3. shopFaults' \in 0..ShopMaxFaults
    BY <1>2, ShopFaultType DEF BulkRemove
  <2> QED
    BY <1>2, <2>1, <2>2, <2>3 DEF BulkRemove, ShopTypeOK, skuVars, purchaseVars
<1> QED
  BY <1>1, <1>2

\* What happens outside the requests keeps the types.
LEMMA ShopTypeRest ==
    ASSUME ShopTypeOK,
           \/ \E u \in Customers, skus \in SUBSET Wares : RemoveItems(u, skus)
           \/ \E o \in Purchases : SetCancelled(o)
           \/ \E s \in Wares : ShopEdits(s)
           \/ ShopCrash
    PROVE  ShopTypeOK'
<1>1. ASSUME NEW u \in Customers, NEW skus \in SUBSET Wares, RemoveItems(u, skus)
      PROVE  ShopTypeOK'
  BY <1>1 DEF RemoveItems, ShopTypeOK, skuVars, purchaseVars
<1>2. ASSUME NEW o \in Purchases, SetCancelled(o)
      PROVE  ShopTypeOK'
  BY <1>2, NoLinesType DEF SetCancelled, ShopTypeOK
<1>3. ASSUME NEW s \in Wares, DeleteSKU(s) PROVE ShopTypeOK'
  BY <1>3 DEF DeleteSKU, ShopTypeOK, purchaseVars
<1>4. ASSUME NEW s \in Wares, NEW n \in Levels, CreateSKU(s, n) \/ UpdateSKU(s, n)
      PROVE  ShopTypeOK'
  <2>1. n \in Nat
    BY LevelsAssumption
  <2>2. /\ shelf' \in [Wares -> Nat] /\ base' \in [Wares -> Nat] /\ taken' \in [Wares -> Int]
        /\ listing' \in [Wares -> {"none", "live", "gone"}]
    <3>1. listing' \in [Wares -> {"none", "live", "gone"}]
      BY <1>4 DEF CreateSKU, UpdateSKU, ShopTypeOK
    <3>2. shelf' \in [Wares -> Nat] /\ base' \in [Wares -> Nat]
      BY <1>4, <2>1 DEF CreateSKU, UpdateSKU, ShopTypeOK
    <3>3. taken' \in [Wares -> Int]
      BY <1>4 DEF CreateSKU, UpdateSKU, ShopTypeOK
    <3> QED
      BY <3>1, <3>2, <3>3
  <2> QED
    BY <1>4, <2>2 DEF CreateSKU, UpdateSKU, ShopTypeOK, purchaseVars
<1>5. CASE ShopCrash
  BY <1>5, NoVisitType, ShopFaultType DEF ShopCrash, ShopTypeOK, skuVars, purchaseVars
<1> QED
  BY <1>1, <1>2, <1>3, <1>4, <1>5 DEF ShopEdits

LEMMA ShopTypeNext == ShopTypeOK /\ [ShopNext]_shopVars => ShopTypeOK'
<1> SUFFICES ASSUME ShopTypeOK, [ShopNext]_shopVars PROVE ShopTypeOK'
  OBVIOUS
<1>1. CASE UNCHANGED shopVars
  BY <1>1 DEF shopVars, ShopTypeOK
<1>2. ASSUME NEW c \in ShopCalls, ShopStarts(c) \/ ShopGoesOn(c) PROVE ShopTypeOK'
  BY <1>2, ShopTypeStarts, ShopTypeCart, ShopTypeCheckout DEF ShopGoesOn
<1> QED
  BY <1>1, <1>2, ShopTypeRest DEF ShopNext

-------------------------------------------------------------------------------
(* Shop: the stock *)

NeverBought(s) == \A u \in Customers : bought[u][s] = 0

\* What makes the account of the stock inductive: a SKU that is not there yet was
\* never bought, and of one that was never bought nothing is owed to the shelf.
Untouched(s) ==
    /\ listing[s] = "none" => NeverBought(s)
    /\ NeverBought(s) => taken[s] = 0 /\ \A o \in Purchases : purchase[o][s] = 0

ShopInv == ShopTypeOK /\ StockAccounted /\ \A s \in Wares : Untouched(s)

LEMMA ShopInvInit == ShopInit => ShopInv
  BY ShopTypeInit DEF ShopInit, ShopInv, StockAccounted, Untouched, NeverBought, NoLines

\* Steps that leave SKUs and orders alone.
LEMMA ShopInvQuiet ==
    ASSUME ShopInv, ShopTypeOK', UNCHANGED <<skuVars, bought, purchase>>
    PROVE  ShopInv'
  BY DEF ShopInv, StockAccounted, Untouched, NeverBought, skuVars

LEMMA ShopInvOrder ==
    ASSUME ShopInv, ShopTypeOK', NEW c \in ShopCalls, CreateOrderOfCart(c)
    PROVE  ShopInv'
<1> DEFINE r == shopping[c]
<1>0. r.user \in Customers /\ r.lines \in Lines
  BY DEF ShopInv, ShopTypeOK, Visits
<1>1. CASE UNCHANGED <<purchase, shelf, taken, bought>>
  BY <1>1, ShopInvQuiet DEF CreateOrderOfCart, skuVars
<1>2. CASE /\ \A s \in LinesOf(r.lines) : listing[s] = "live" /\ shelf[s] >= r.lines[s]
           /\ \E o \in Purchases : purchase[o] = NoLines /\ purchase' = [purchase EXCEPT ![o] = r.lines]
           /\ shelf' = [s \in Wares |-> shelf[s] - r.lines[s]]
           /\ taken' = [s \in Wares |-> taken[s] + r.lines[s]]
           /\ bought' = [bought EXCEPT ![r.user] = [s \in Wares |-> @[s] + r.lines[s]]]
  <2> SUFFICES ASSUME NEW s \in Wares
               PROVE  shelf'[s] >= 0 /\ shelf'[s] = base'[s] - taken'[s] /\ Untouched(s)'
    BY DEF ShopInv, StockAccounted
  <2>1. /\ r.lines[s] \in Nat /\ shelf[s] \in Nat /\ base[s] \in Nat /\ taken[s] \in Int
        /\ shelf[s] = base[s] - taken[s] /\ Untouched(s)
        /\ listing' = listing /\ base' = base
    BY <1>0 DEF ShopInv, ShopTypeOK, StockAccounted, CreateOrderOfCart
  <2>2. shelf'[s] >= 0 /\ shelf'[s] = base'[s] - taken'[s]
    BY <1>2, <2>1 DEF LinesOf
  <2>3. \A u \in Customers :
          bought'[u][s] = IF u = r.user THEN bought[u][s] + r.lines[s] ELSE bought[u][s]
    BY <1>2 DEF ShopInv, ShopTypeOK
  <2>4. \A u \in Customers : bought[u][s] \in Nat
    BY DEF ShopInv, ShopTypeOK
  <2>5. CASE r.lines[s] = 0
    <3>1. NeverBought(s)' <=> NeverBought(s)
      BY <2>3, <2>4, <2>5 DEF NeverBought
    <3>2. taken'[s] = taken[s]
      BY <1>2, <2>1, <2>5
    <3>3. \A o \in Purchases : purchase'[o][s] = purchase[o][s] \/ purchase'[o][s] = 0
      BY <1>2, <2>5 DEF ShopInv, ShopTypeOK
    <3> QED
      BY <2>1, <2>2, <3>1, <3>2, <3>3 DEF Untouched
  <2>6. CASE r.lines[s] > 0
    <3>1. listing[s] = "live"
      BY <1>2, <2>6 DEF LinesOf
    <3>2. bought'[r.user][s] # 0
      BY <1>0, <2>1, <2>3, <2>4, <2>6
    <3>3. ~NeverBought(s)'
      BY <1>0, <3>2 DEF NeverBought
    <3> QED
      BY <2>1, <2>2, <3>1, <3>3 DEF Untouched
  <2> QED
    BY <2>1, <2>5, <2>6
<1> QED
  BY <1>1, <1>2 DEF CreateOrderOfCart

LEMMA ShopInvCancel ==
    ASSUME ShopInv, ShopTypeOK', NEW o \in Purchases, SetCancelled(o)
    PROVE  ShopInv'
<1> SUFFICES ASSUME NEW s \in Wares
             PROVE  shelf'[s] >= 0 /\ shelf'[s] = base'[s] - taken'[s] /\ Untouched(s)'
  BY DEF ShopInv, StockAccounted
<1>1. /\ purchase[o][s] \in Nat /\ shelf[s] \in Nat /\ base[s] \in Nat /\ taken[s] \in Int
      /\ shelf[s] = base[s] - taken[s] /\ Untouched(s)
  BY DEF ShopInv, ShopTypeOK, StockAccounted
<1>2. shelf'[s] >= 0 /\ shelf'[s] = base'[s] - taken'[s]
  BY <1>1 DEF SetCancelled
<1>3. \A p \in Purchases : purchase'[p][s] = purchase[p][s] \/ purchase'[p][s] = 0
  BY DEF SetCancelled, ShopInv, ShopTypeOK, NoLines
<1>4. NeverBought(s) => taken'[s] = 0
  BY <1>1 DEF SetCancelled, Untouched
<1>5. (NeverBought(s)' <=> NeverBought(s)) /\ listing' = listing
  BY DEF SetCancelled, NeverBought
<1> QED
  BY <1>1, <1>2, <1>3, <1>4, <1>5 DEF Untouched

LEMMA ShopInvEdit ==
    ASSUME ShopInv, ShopTypeOK', NEW t \in Wares, ShopEdits(t)
    PROVE  ShopInv'
<1> SUFFICES ASSUME NEW s \in Wares
             PROVE  shelf'[s] >= 0 /\ shelf'[s] = base'[s] - taken'[s] /\ Untouched(s)'
  BY DEF ShopInv, StockAccounted
<1>1. /\ shelf[s] \in Nat /\ base[s] \in Nat /\ taken[s] \in Int
      /\ shelf[s] = base[s] - taken[s] /\ Untouched(s)
  BY DEF ShopInv, ShopTypeOK, StockAccounted
<1>2. ASSUME NEW n \in Levels, CreateSKU(t, n)
      PROVE  shelf'[s] >= 0 /\ shelf'[s] = base'[s] - taken'[s] /\ Untouched(s)'
  <2>1. n \in Nat
    BY LevelsAssumption
  <2>2. s = t => taken[s] = 0
    BY <1>1, <1>2 DEF CreateSKU, Untouched
  <2>3. shelf'[s] >= 0 /\ shelf'[s] = base'[s] - taken'[s]
    BY <1>1, <1>2, <2>1, <2>2 DEF CreateSKU, ShopInv, ShopTypeOK
  <2>4. UNCHANGED <<bought, taken, purchase>> /\ (listing'[s] = "none" => listing[s] = "none")
    BY <1>2 DEF CreateSKU, ShopInv, ShopTypeOK, purchaseVars
  <2> QED
    BY <1>1, <2>3, <2>4 DEF Untouched, NeverBought
<1>3. ASSUME NEW n \in Levels, UpdateSKU(t, n)
      PROVE  shelf'[s] >= 0 /\ shelf'[s] = base'[s] - taken'[s] /\ Untouched(s)'
  <2>1. n \in Nat
    BY LevelsAssumption
  <2>2. shelf'[s] >= 0 /\ shelf'[s] = base'[s] - taken'[s]
    BY <1>1, <1>3, <2>1 DEF UpdateSKU, ShopInv, ShopTypeOK
  <2>3. UNCHANGED <<bought, purchase, listing>> /\ (taken'[s] = taken[s] \/ taken'[s] = 0)
    BY <1>3 DEF UpdateSKU, ShopInv, ShopTypeOK, purchaseVars
  <2> QED
    BY <1>1, <2>2, <2>3 DEF Untouched, NeverBought
<1>4. CASE DeleteSKU(t)
  <2>1. s = t => taken[s] = 0
    BY <1>1, <1>4 DEF DeleteSKU, Untouched, NeverBought
  <2>2. shelf'[s] >= 0 /\ shelf'[s] = base'[s] - taken'[s]
    BY <1>1, <1>4, <2>1 DEF DeleteSKU, ShopInv, ShopTypeOK
  <2>3. UNCHANGED <<bought, taken, purchase>> /\ (listing'[s] = "none" => listing[s] = "none")
    BY <1>4 DEF DeleteSKU, ShopInv, ShopTypeOK, purchaseVars
  <2> QED
    BY <1>1, <2>2, <2>3 DEF Untouched, NeverBought
<1> QED
  BY <1>2, <1>3, <1>4 DEF ShopEdits

LEMMA ShopInvNext == ShopInv /\ [ShopNext]_shopVars => ShopInv'
<1> SUFFICES ASSUME ShopInv, [ShopNext]_shopVars PROVE ShopInv'
  OBVIOUS
<1>0. ShopTypeOK'
  BY ShopTypeNext DEF ShopInv
<1>1. CASE UNCHANGED shopVars
  BY <1>0, <1>1, ShopInvQuiet DEF shopVars, skuVars
<1>2. ASSUME NEW c \in ShopCalls, ShopStarts(c) PROVE ShopInv'
  <2>1. UNCHANGED <<skuVars, bought, purchase>>
    BY <1>2 DEF ShopStarts, GetCart, StartMerge, StartAddItem, StartSetItemQty, purchaseVars
  <2> QED
    BY <1>0, <2>1, ShopInvQuiet
<1>3. ASSUME NEW c \in ShopCalls, ShopGoesOn(c), ~CreateOrderOfCart(c) PROVE ShopInv'
  <2>1. UNCHANGED <<skuVars, bought, purchase>>
    BY <1>3 DEF ShopGoesOn, SKUStock, currentQty, AddItem, MergeItems, SetItemQty, BulkRemove, purchaseVars
  <2> QED
    BY <1>0, <2>1, ShopInvQuiet
<1>4. ASSUME NEW u \in Customers, NEW skus \in SUBSET Wares, RemoveItems(u, skus) PROVE ShopInv'
  BY <1>0, <1>4, ShopInvQuiet DEF RemoveItems, purchaseVars
<1>5. CASE ShopCrash
  BY <1>0, <1>5, ShopInvQuiet DEF ShopCrash, purchaseVars
<1> QED
  BY <1>0, <1>1, <1>2, <1>3, <1>4, <1>5, ShopInvOrder, ShopInvCancel, ShopInvEdit DEF ShopNext

LEMMA ShopCorrect == ShopSpec => []ShopInv
<1> QED
  BY ShopInvInit, ShopInvNext, PTL DEF ShopSpec

\* Every variable of the shop keeps its type: the stock never falls below zero.
THEOREM ShopTypeCorrect == ShopSpec => []ShopTypeOK
<1>1. ShopInv => ShopTypeOK
  BY DEF ShopInv
<1> QED
  BY <1>1, ShopCorrect, PTL

\* The stock is what the editor wrote last less what was taken since, however
\* checkouts, cancellations, edits and crashes interleave (CreateOrderOfCart,
\* SetCancelled and UpdateSKU each decide on a row they have not locked before).
THEOREM StockIsAccounted == ShopSpec => []StockAccounted
<1>1. ShopInv => StockAccounted
  BY DEF ShopInv
<1> QED
  BY <1>1, ShopCorrect, PTL

-------------------------------------------------------------------------------
(* Shop: the customer's purchases *)

InCheckout(c) == shopping[c].at \in {"order", "clear"}

\* What the property speaks of: no two checkouts of the customer overlapped and
\* every cart was cleared.
Orderly(u) == u \notin doubled /\ shopFaults = 0

\* A call of the customer is about to remove the line it has just ordered.
Clears(c, u, s) == Waits(c, "clear") /\ shopping[c].user = u /\ shopping[c].lines[s] > 0

AloneInCheckout ==
    \A c, d \in ShopCalls :
        /\ InCheckout(c) /\ InCheckout(d) /\ shopping[c].user = shopping[d].user
        /\ shopping[c].user \notin doubled
        => c = d

\* The lines of a checkout can still be bought.
OrderedWasAdded ==
    \A c \in ShopCalls, s \in Wares :
        Waits(c, "order") /\ Orderly(shopping[c].user) =>
            bought[shopping[c].user][s] + shopping[c].lines[s] <= added[shopping[c].user][s]

\* What is in the cart and what was bought were both added, except for the units
\* that were ordered and are still in the cart.
CartWasAdded ==
    \A u \in Customers, s \in Wares :
        Orderly(u) => \/ cart[u][s] + bought[u][s] <= added[u][s]
                      \/ \E c \in ShopCalls : Clears(c, u, s)

BoughtInv == AloneInCheckout /\ BoughtWasAdded /\ OrderedWasAdded /\ CartWasAdded

\* A step that does not touch the calls in checkout, and puts no more into a cart
\* than it books as added.
Aside ==
    /\ UNCHANGED <<bought, doubled, shopFaults>>
    /\ \A c \in ShopCalls : InCheckout(c) \/ InCheckout(c)' => shopping'[c] = shopping[c]
    /\ \A u \in Customers, s \in Wares :
           added'[u][s] >= added[u][s] /\ cart'[u][s] + added[u][s] <= cart[u][s] + added'[u][s]

LEMMA BoughtAside ==
    ASSUME ShopTypeOK, ShopTypeOK', BoughtInv, Aside
    PROVE  BoughtInv'
<1>1. AloneInCheckout'
  BY DEF BoughtInv, AloneInCheckout, Aside, InCheckout
<1>2. ASSUME NEW u \in Customers, NEW s \in Wares
      PROVE  /\ bought[u][s] \in Nat /\ added[u][s] \in Nat /\ added'[u][s] \in Nat
             /\ cart[u][s] \in Nat /\ cart'[u][s] \in Nat
             /\ added'[u][s] >= added[u][s]
             /\ cart'[u][s] + added[u][s] <= cart[u][s] + added'[u][s]
  BY DEF ShopTypeOK, Aside
<1>3. UNCHANGED <<bought, doubled, shopFaults>>
  BY DEF Aside
<1>4. BoughtWasAdded'
  BY <1>2, <1>3 DEF BoughtInv, BoughtWasAdded, ShopTypeOK
<1>5. OrderedWasAdded'
  <2> SUFFICES ASSUME NEW c \in ShopCalls, NEW s \in Wares, Waits(c, "order")',
                      Orderly(shopping[c].user)'
               PROVE  bought'[shopping'[c].user][s] + shopping'[c].lines[s]
                          <= added'[shopping'[c].user][s]
    BY DEF OrderedWasAdded
  <2> DEFINE u == shopping[c].user
  <2>1. shopping'[c] = shopping[c]
    BY DEF Aside, InCheckout, Waits
  <2>2. Waits(c, "order") /\ Orderly(u)
    BY <1>3, <2>1 DEF Waits, Orderly
  <2>3. u \in Customers /\ shopping[c].lines[s] \in Nat
    BY DEF ShopTypeOK, Visits
  <2>4. bought[u][s] + shopping[c].lines[s] <= added[u][s]
    BY <2>2 DEF BoughtInv, OrderedWasAdded
  <2> QED
    BY <1>2, <1>3, <2>1, <2>3, <2>4
<1>6. CartWasAdded'
  <2> SUFFICES ASSUME NEW u \in Customers, NEW s \in Wares, Orderly(u)',
                      ~ \E c \in ShopCalls : Clears(c, u, s)'
               PROVE  cart'[u][s] + bought'[u][s] <= added'[u][s]
    BY DEF CartWasAdded
  <2>1. Orderly(u)
    BY <1>3 DEF Orderly
  <2>2. ~ \E c \in ShopCalls : Clears(c, u, s)
    BY DEF Clears, Waits, Aside, InCheckout
  <2>3. cart[u][s] + bought[u][s] <= added[u][s]
    BY <2>1, <2>2 DEF BoughtInv, CartWasAdded
  <2> QED
    BY <1>2, <1>3, <2>3
<1> QED
  BY <1>1, <1>4, <1>5, <1>6 DEF BoughtInv

\* The call was not in checkout and does not come there; no other call moves.
Outside(c) ==
    /\ ~InCheckout(c) /\ ~InCheckout(c)'
    /\ \A d \in ShopCalls : d # c => shopping'[d] = shopping[d]

LEMMA VisitOutside ==
    ASSUME ShopTypeOK, NEW c \in ShopCalls, NEW r, Visit(c, r), ~InCheckout(c),
           r.at \notin {"order", "clear"}
    PROVE  Outside(c)
  BY DEF ShopTypeOK, Visit, Outside, InCheckout

LEMMA LeaveOutside ==
    ASSUME ShopTypeOK, NEW c \in ShopCalls, Leave(c), ~InCheckout(c)
    PROVE  Outside(c)
<1>1. NoVisit.at = "idle"
  BY DEF NoVisit, VisitOf
<1> QED
  BY <1>1, VisitOutside DEF Leave

LEMMA NextItemOutside ==
    ASSUME ShopTypeOK, NEW c \in ShopCalls, NEW r \in Visits, NextItem(c, r), ~InCheckout(c)
    PROVE  Outside(c)
<1>1. [r EXCEPT !.at = "stock", !.stock = 0].at = "stock"
  BY DEF Visits
<1>2. [VisitOf(r.user) EXCEPT !.at = "merge", !.lines = r.lines].at = "merge"
  BY DEF VisitOf
<1>3. NoVisit.at = "idle"
  BY DEF NoVisit, VisitOf
<1> QED
  BY <1>1, <1>2, <1>3, VisitOutside DEF NextItem

\* Filling a cart happens outside of checkout.
LEMMA CartStepOutside ==
    ASSUME ShopTypeOK, NEW c \in ShopCalls,
           \/ SKUStock(c) \/ currentQty(c) \/ AddItem(c) \/ MergeItems(c) \/ SetItemQty(c)
           \/ \E u \in Customers, q \in [Wares -> 0..MaxQty] : StartMerge(c, u, q)
           \/ \E u \in Customers, s \in Wares, n \in 1..MaxQty :
                  StartAddItem(c, u, s, n) \/ StartSetItemQty(c, u, s, n)
    PROVE  Outside(c)
<1> DEFINE r == shopping[c]
<1>0. r \in Visits
  BY DEF ShopTypeOK
<1>1. ~InCheckout(c)
  BY DEF InCheckout, Waits, SKUStock, currentQty, AddItem, MergeItems, SetItemQty,
         StartMerge, StartAddItem, StartSetItemQty
<1>2. CASE SKUStock(c)
  <2>1. PICK s \in LinesOf(r.wish) :
           \/ Visit(c, [r EXCEPT !.at = "current", !.sku = {s}, !.stock = shelf[s]])
           \/ NextItem(c, [r EXCEPT !.wish[s] = 0])
           \/ Leave(c)
    BY <1>2 DEF SKUStock
  <2>2. /\ [r EXCEPT !.at = "current", !.sku = {s}, !.stock = shelf[s]].at = "current"
        /\ [r EXCEPT !.wish[s] = 0] \in Visits
    BY <1>0 DEF Visits, LinesOf
  <2> QED
    BY <1>1, <2>1, <2>2, VisitOutside, NextItemOutside, LeaveOutside
<1>3. CASE currentQty(c)
  <2>1. PICK s \in r.sku :
          LET q == [r EXCEPT !.wish[s] = 0, !.sku = {}]
              wanted == r.wish[s]
              room == q.stock - cart[q.user][s]
          IN IF q.merging
             THEN NextItem(c, [q EXCEPT !.lines[s] =
                      IF room <= 0 THEN 0 ELSE IF wanted > room THEN room ELSE wanted])
             ELSE IF wanted > room
             THEN Leave(c)
             ELSE Visit(c, [q EXCEPT !.at = "add", !.lines[s] = wanted, !.stock = 0])
    BY <1>3 DEF currentQty
  <2> DEFINE q == [r EXCEPT !.wish[s] = 0, !.sku = {}]
             wanted == r.wish[s]
             room == q.stock - cart[q.user][s]
             capped == IF room <= 0 THEN 0 ELSE IF wanted > room THEN room ELSE wanted
  <2>2. s \in Wares
    BY <1>0 DEF Visits
  <2>3. q \in Visits
    BY <1>0, <2>2 DEF Visits
  <2>4. wanted \in Nat /\ room \in Int /\ capped \in Nat
    BY <1>0, <2>2, <2>3 DEF Visits, ShopTypeOK
  <2> HIDE DEF q, wanted, room, capped
  <2>5. /\ [q EXCEPT !.lines[s] = capped] \in Visits
        /\ [q EXCEPT !.at = "add", !.lines[s] = wanted, !.stock = 0].at = "add"
    BY <2>2, <2>3, <2>4 DEF Visits
  <2>6. \/ NextItem(c, [q EXCEPT !.lines[s] = capped])
        \/ Leave(c)
        \/ Visit(c, [q EXCEPT !.at = "add", !.lines[s] = wanted, !.stock = 0])
    BY <2>1 DEF q, wanted, room, capped
  <2> QED
    BY <1>1, <2>5, <2>6, VisitOutside, NextItemOutside, LeaveOutside
<1>4. CASE AddItem(c) \/ MergeItems(c) \/ SetItemQty(c)
  BY <1>1, <1>4, LeaveOutside DEF AddItem, MergeItems, SetItemQty
<1>5. ASSUME NEW u \in Customers, NEW q \in [Wares -> 0..MaxQty], StartMerge(c, u, q)
      PROVE  Outside(c)
  <2>1. [VisitOf(u) EXCEPT !.at = "stock", !.merging = TRUE, !.wish = q].at = "stock"
    BY DEF VisitOf
  <2> QED
    BY <1>1, <1>5, <2>1, VisitOutside DEF StartMerge
<1>6. ASSUME NEW u \in Customers, NEW s \in Wares, NEW n \in 1..MaxQty,
             StartAddItem(c, u, s, n) \/ StartSetItemQty(c, u, s, n)
      PROVE  Outside(c)
  <2>1. /\ [VisitOf(u) EXCEPT !.at = "stock", !.wish = [NoLines EXCEPT ![s] = n]].at = "stock"
        /\ [VisitOf(u) EXCEPT !.at = "assign", !.lines = [NoLines EXCEPT ![s] = n]].at = "assign"
    BY DEF VisitOf
  <2> QED
    BY <1>1, <1>6, <2>1, VisitOutside DEF StartAddItem, StartSetItemQty
<1> QED
  BY <1>2, <1>3, <1>4, <1>5, <1>6

\* Putting lines into a cart books them as added.
LEMMA PutInBooks ==
    ASSUME ShopTypeOK, NEW v \in Customers, NEW q \in Lines, PutIn(v, q),
           NEW u \in Customers, NEW s \in Wares
    PROVE  added'[u][s] >= added[u][s] /\ cart'[u][s] + added[u][s] <= cart[u][s] + added'[u][s]
<1>1. /\ cart[u][s] \in Nat /\ added[u][s] \in Nat /\ q[s] \in Nat
      /\ cart \in [Customers -> Lines] /\ added \in [Customers -> Lines]
  BY DEF ShopTypeOK
<1>2. CASE u = v
  <2>1. cart'[u][s] = cart[u][s] + q[s] /\ added'[u][s] = added[u][s] + q[s]
    BY <1>1, <1>2 DEF PutIn
  <2> QED
    BY <1>1, <2>1
<1>3. CASE u # v
  <2>1. cart'[u] = cart[u] /\ added'[u] = added[u]
    BY <1>1, <1>3 DEF PutIn
  <2> QED
    BY <1>1, <2>1
<1> QED
  BY <1>2, <1>3

\* So does every step that fills a cart.
LEMMA CartStepAside ==
    ASSUME ShopTypeOK, NEW c \in ShopCalls,
           \/ SKUStock(c) \/ currentQty(c) \/ AddItem(c) \/ MergeItems(c) \/ SetItemQty(c)
           \/ \E u \in Customers, q \in [Wares -> 0..MaxQty] : StartMerge(c, u, q)
           \/ \E u \in Customers, s \in Wares, n \in 1..MaxQty :
                  StartAddItem(c, u, s, n) \/ StartSetItemQty(c, u, s, n)
    PROVE  Aside
<1> DEFINE r == shopping[c]
<1>0. r.user \in Customers /\ r.lines \in Lines
  BY DEF ShopTypeOK, Visits
<1>1. UNCHANGED <<bought, doubled, shopFaults>>
  BY DEF SKUStock, currentQty, AddItem, MergeItems, SetItemQty, StartMerge, StartAddItem,
         StartSetItemQty, purchaseVars
<1>2. \A d \in ShopCalls : InCheckout(d) \/ InCheckout(d)' => shopping'[d] = shopping[d]
  BY CartStepOutside DEF Outside
<1>3. ASSUME NEW u \in Customers, NEW s \in Wares
      PROVE  added'[u][s] >= added[u][s] /\ cart'[u][s] + added[u][s] <= cart[u][s] + added'[u][s]
  <2>0. cart[u][s] \in Nat /\ added[u][s] \in Nat
    BY DEF ShopTypeOK
  <2>1. CASE UNCHANGED <<cart, added>>
    BY <2>0, <2>1
  <2>2. CASE PutIn(r.user, r.lines)
    BY <1>0, <2>2, PutInBooks
  <2>3. CASE SetItemQty(c)
    <3>1. CASE UNCHANGED <<cart, added>>
      BY <2>0, <3>1
    <3>2. CASE ~ UNCHANGED <<cart, added>>
      <4>1. PICK t \in LinesOf(r.lines) :
              /\ cart' = [cart EXCEPT ![r.user][t] = r.lines[t]]
              /\ added' = [added EXCEPT ![r.user][t] = @ +
                      (IF r.lines[t] > cart[r.user][t] THEN r.lines[t] - cart[r.user][t] ELSE 0)]
        BY <2>3, <3>2 DEF SetItemQty
      <4> DEFINE more == IF r.lines[t] > cart[r.user][t] THEN r.lines[t] - cart[r.user][t] ELSE 0
      <4>2. t \in Wares /\ r.lines[t] \in Nat /\ cart[r.user][t] \in Nat
        BY <1>0 DEF LinesOf, ShopTypeOK
      <4>3. more \in Nat /\ r.lines[t] <= cart[r.user][t] + more
        BY <4>2
      <4> HIDE DEF more
      <4>4. added' = [added EXCEPT ![r.user][t] = added[r.user][t] + more]
        BY <4>1 DEF more
      <4>5. CASE u = r.user /\ s = t
        <5>1. cart'[u][s] = r.lines[t] /\ added'[u][s] = added[u][s] + more
          BY <1>0, <4>1, <4>2, <4>4, <4>5 DEF ShopTypeOK
        <5> QED
          BY <2>0, <4>2, <4>3, <4>5, <5>1
      <4>6. CASE ~(u = r.user /\ s = t)
        <5>1. cart'[u][s] = cart[u][s] /\ added'[u][s] = added[u][s]
          BY <1>0, <4>1, <4>2, <4>4, <4>6 DEF ShopTypeOK
        <5> QED
          BY <2>0, <5>1
      <4> QED
        BY <4>5, <4>6
    <3> QED
      BY <3>1, <3>2
  <2> QED
    BY <2>1, <2>2, <2>3 DEF SKUStock, currentQty, AddItem, MergeItems, StartMerge, StartAddItem,
         StartSetItemQty
<1> QED
  BY <1>1, <1>2, <1>3 DEF Aside

\* Nothing outside the requests puts anything into a cart.
LEMMA RestAside ==
    ASSUME ShopTypeOK, ShopTypeOK',
           \/ \E u \in Customers, skus \in SUBSET Wares : RemoveItems(u, skus)
           \/ \E o \in Purchases : SetCancelled(o)
           \/ \E s \in Wares : ShopEdits(s)
    PROVE  Aside
<1>0. UNCHANGED <<bought, doubled, shopFaults, shopping, added>>
  BY DEF RemoveItems, SetCancelled, ShopEdits, DeleteSKU, CreateSKU, UpdateSKU, purchaseVars
<1>1. ASSUME NEW u \in Customers, NEW s \in Wares
      PROVE  cart'[u][s] <= cart[u][s]
  <2>0. cart[u][s] \in Nat /\ cart \in [Customers -> Lines]
    BY DEF ShopTypeOK
  <2>1. ASSUME NEW v \in Customers, NEW skus \in SUBSET Wares, RemoveItems(v, skus)
        PROVE  cart'[u][s] <= cart[u][s]
    BY <2>0, <2>1 DEF RemoveItems
  <2>2. ASSUME NEW t \in Wares, DeleteSKU(t)
        PROVE  cart'[u][s] <= cart[u][s]
    BY <2>0, <2>2 DEF DeleteSKU
  <2> QED
    BY <2>0, <2>1, <2>2 DEF SetCancelled, ShopEdits, CreateSKU, UpdateSKU
<1>2. ASSUME NEW u \in Customers, NEW s \in Wares
      PROVE  added'[u][s] >= added[u][s] /\ cart'[u][s] + added[u][s] <= cart[u][s] + added'[u][s]
  <2>1. added[u][s] \in Nat /\ cart[u][s] \in Nat /\ cart'[u][s] \in Nat
    BY DEF ShopTypeOK
  <2>2. cart'[u][s] <= cart[u][s] /\ added'[u][s] = added[u][s]
    BY <1>0, <1>1
  <2> QED
    BY <2>1, <2>2
<1> QED
  BY <1>0, <1>2 DEF Aside, InCheckout

\* A checkout reads the cart: what it is going to buy was added, if no other
\* checkout of the customer is under way.
LEMMA BoughtGetCart ==
    ASSUME ShopTypeOK, ShopTypeOK', BoughtInv, NEW c \in ShopCalls, NEW u \in Customers,
           NEW shown \in SUBSET Wares, GetCart(c, u, shown)
    PROVE  BoughtInv'
<1> DEFINE q == [s \in Wares |-> IF s \in shown THEN cart[u][s] ELSE 0]
<1> DEFINE r == [VisitOf(u) EXCEPT !.at = "order", !.lines = q]
<1>1. r.at = "order" /\ r.user = u /\ r.lines = q
  BY DEF VisitOf
<1>2. /\ shopping'[c] = r /\ ~InCheckout(c)
      /\ \A d \in ShopCalls : d # c => shopping'[d] = shopping[d]
  BY DEF GetCart, Visit, Waits, InCheckout, ShopTypeOK
<1>3. UNCHANGED <<bought, added, cart, shopFaults>>
  BY DEF GetCart
<1>4. /\ doubled \subseteq doubled'
      /\ \A d \in ShopCalls : InCheckout(d) /\ shopping[d].user = u => u \in doubled'
  BY DEF GetCart, InCheckout
<1> HIDE DEF r
<1>5. AloneInCheckout'
  <2> SUFFICES ASSUME NEW d \in ShopCalls, NEW e \in ShopCalls, InCheckout(d)', InCheckout(e)',
                      shopping'[d].user = shopping'[e].user, shopping'[d].user \notin doubled'
               PROVE  d = e
    BY DEF AloneInCheckout
  <2>1. CASE d # c /\ e # c
    BY <1>2, <1>4, <2>1 DEF BoughtInv, AloneInCheckout, InCheckout
  <2>2. CASE d = c /\ e # c
    BY <1>1, <1>2, <1>4, <2>2 DEF InCheckout
  <2>3. CASE d # c /\ e = c
    BY <1>1, <1>2, <1>4, <2>3 DEF InCheckout
  <2> QED
    BY <2>1, <2>2, <2>3
<1>6. BoughtWasAdded'
  BY <1>3, <1>4 DEF BoughtInv, BoughtWasAdded
<1>7. OrderedWasAdded'
  <2> SUFFICES ASSUME NEW d \in ShopCalls, NEW s \in Wares, Waits(d, "order")',
                      Orderly(shopping[d].user)'
               PROVE  bought'[shopping'[d].user][s] + shopping'[d].lines[s]
                          <= added'[shopping'[d].user][s]
    BY DEF OrderedWasAdded
  <2>1. CASE d # c
    <3>1. shopping'[d] = shopping[d] /\ Waits(d, "order") /\ Orderly(shopping[d].user)
      BY <1>2, <1>3, <1>4, <2>1 DEF Waits, Orderly
    <3> QED
      BY <1>3, <3>1 DEF BoughtInv, OrderedWasAdded
  <2>2. CASE d = c
    <3>1. Orderly(u) /\ u \notin doubled' /\ shopping'[d].user = u /\ shopping'[d].lines = q
      BY <1>1, <1>2, <1>3, <1>4, <2>2 DEF Orderly
    <3>2. ~ \E e \in ShopCalls : Clears(e, u, s)
      BY <1>4, <3>1 DEF Clears, InCheckout, Waits
    <3>3. cart[u][s] + bought[u][s] <= added[u][s]
      BY <3>1, <3>2 DEF BoughtInv, CartWasAdded
    <3>4. /\ cart[u][s] \in Nat /\ bought[u][s] \in Nat /\ added[u][s] \in Nat
          /\ q[s] \in Nat /\ q[s] <= cart[u][s]
      BY DEF ShopTypeOK
    <3> HIDE DEF q
    <3> QED
      BY <1>3, <3>1, <3>3, <3>4
  <2> QED
    BY <2>1, <2>2
<1>8. CartWasAdded'
  <2> SUFFICES ASSUME NEW v \in Customers, NEW s \in Wares, Orderly(v)',
                      ~ \E d \in ShopCalls : Clears(d, v, s)'
               PROVE  cart'[v][s] + bought'[v][s] <= added'[v][s]
    BY DEF CartWasAdded
  <2>1. Orderly(v)
    BY <1>3, <1>4 DEF Orderly
  <2>2. ~ \E d \in ShopCalls : Clears(d, v, s)
    BY <1>2 DEF Clears, Waits, InCheckout
  <2> QED
    BY <1>3, <2>1, <2>2 DEF BoughtInv, CartWasAdded
<1> QED
  BY <1>5, <1>6, <1>7, <1>8 DEF BoughtInv

\* Leaving checkout: what the other calls owe stays as it was.
LEMMA BoughtLeave ==
    ASSUME ShopTypeOK, ShopTypeOK', BoughtInv, NEW c \in ShopCalls, Leave(c),
           UNCHANGED <<bought, added, doubled>>, shopFaults' >= shopFaults
    PROVE  AloneInCheckout' /\ BoughtWasAdded' /\ OrderedWasAdded'
<1>1. /\ ~InCheckout(c)' /\ \A d \in ShopCalls : d # c => shopping'[d] = shopping[d]
  BY DEF Leave, Visit, NoVisit, VisitOf, InCheckout, ShopTypeOK
<1>2. (shopFaults' = 0 => shopFaults = 0) /\ (shopFaults > 0 => shopFaults' > 0)
  BY ShopMaxFaultsAssumption DEF ShopTypeOK
<1>3. AloneInCheckout'
  BY <1>1 DEF BoughtInv, AloneInCheckout, InCheckout
<1>4. BoughtWasAdded'
  BY <1>2 DEF BoughtInv, BoughtWasAdded
<1>5. OrderedWasAdded'
  <2> SUFFICES ASSUME NEW d \in ShopCalls, NEW s \in Wares, Waits(d, "order")',
                      Orderly(shopping[d].user)'
               PROVE  bought'[shopping'[d].user][s] + shopping'[d].lines[s]
                          <= added'[shopping'[d].user][s]
    BY DEF OrderedWasAdded
  <2>1. shopping'[d] = shopping[d] /\ Waits(d, "order") /\ Orderly(shopping[d].user)
    BY <1>1, <1>2 DEF Waits, Orderly, InCheckout
  <2> QED
    BY <2>1 DEF BoughtInv, OrderedWasAdded
<1> QED
  BY <1>3, <1>4, <1>5

\* The order transaction: the lines become bought and are still in the cart.
LEMMA BoughtOrder ==
    ASSUME ShopTypeOK, ShopTypeOK', BoughtInv, NEW c \in ShopCalls, CreateOrderOfCart(c)
    PROVE  BoughtInv'
<1> DEFINE r == shopping[c]
<1> DEFINE b == r.user
<1>0. b \in Customers /\ r.lines \in Lines /\ r \in Visits
  BY DEF ShopTypeOK, Visits
<1>1. Waits(c, "order") /\ UNCHANGED <<cart, added, doubled, shopFaults>>
  BY DEF CreateOrderOfCart
<1>2. CASE Leave(c) /\ UNCHANGED <<purchase, shelf, taken, bought>>
  <2>1. AloneInCheckout' /\ BoughtWasAdded' /\ OrderedWasAdded'
    BY <1>1, <1>2, BoughtLeave DEF ShopTypeOK
  <2>2. /\ ~InCheckout(c)' /\ \A d \in ShopCalls : d # c => shopping'[d] = shopping[d]
    BY <1>2 DEF Leave, Visit, NoVisit, VisitOf, InCheckout, ShopTypeOK
  <2>3. \A d \in ShopCalls, u \in Customers, s \in Wares : Clears(d, u, s) => Clears(d, u, s)'
    BY <1>1, <2>2 DEF Clears, Waits
  <2>4. CartWasAdded'
    BY <1>1, <1>2, <2>3 DEF BoughtInv, CartWasAdded, Orderly
  <2> QED
    BY <2>1, <2>4 DEF BoughtInv
<1>3. CASE /\ bought' = [bought EXCEPT ![b] = [s \in Wares |-> @[s] + r.lines[s]]]
           /\ Visit(c, [r EXCEPT !.at = "clear"])
  <2>1. /\ shopping'[c].at = "clear" /\ shopping'[c].user = b /\ shopping'[c].lines = r.lines
        /\ \A d \in ShopCalls : d # c => shopping'[d] = shopping[d]
    BY <1>0, <1>3 DEF Visit, Visits, ShopTypeOK
  <2>2. \A s \in Wares : bought'[b][s] = bought[b][s] + r.lines[s]
    BY <1>0, <1>3 DEF ShopTypeOK
  <2>3. \A u \in Customers : u # b => bought'[u] = bought[u]
    BY <1>3 DEF ShopTypeOK
  <2>4. AloneInCheckout'
    BY <1>1, <2>1 DEF BoughtInv, AloneInCheckout, InCheckout, Waits
  <2>5. BoughtWasAdded'
    <3> SUFFICES ASSUME NEW u \in Customers, NEW s \in Wares, u \notin doubled',
                        ~(shopFaults' > 0)
                 PROVE  bought'[u][s] <= added'[u][s]
      BY DEF BoughtWasAdded
    <3>1. Orderly(u)
      BY <1>1 DEF Orderly, ShopTypeOK
    <3>2. CASE u = b
      BY <1>1, <2>2, <3>1, <3>2 DEF BoughtInv, OrderedWasAdded
    <3>3. CASE u # b
      BY <1>1, <2>3, <3>1, <3>3 DEF BoughtInv, BoughtWasAdded
    <3> QED
      BY <3>2, <3>3
  <2>6. OrderedWasAdded'
    <3> SUFFICES ASSUME NEW d \in ShopCalls, NEW s \in Wares, Waits(d, "order")',
                        Orderly(shopping[d].user)'
                 PROVE  bought'[shopping'[d].user][s] + shopping'[d].lines[s]
                            <= added'[shopping'[d].user][s]
      BY DEF OrderedWasAdded
    <3>1. d # c /\ shopping'[d] = shopping[d] /\ Waits(d, "order") /\ Orderly(shopping[d].user)
      BY <1>1, <2>1 DEF Waits, Orderly
    <3>2. shopping[d].user # b
      BY <1>1, <3>1 DEF BoughtInv, AloneInCheckout, InCheckout, Waits, Orderly
    <3>3. shopping[d].user \in Customers
      BY DEF ShopTypeOK, Visits
    <3> QED
      BY <1>1, <2>3, <3>1, <3>2, <3>3 DEF BoughtInv, OrderedWasAdded
  <2>7. CartWasAdded'
    <3> SUFFICES ASSUME NEW u \in Customers, NEW s \in Wares, Orderly(u)',
                        ~ \E d \in ShopCalls : Clears(d, u, s)'
                 PROVE  cart'[u][s] + bought'[u][s] <= added'[u][s]
      BY DEF CartWasAdded
    <3>1. Orderly(u) /\ u \notin doubled
      BY <1>1 DEF Orderly
    <3>2. ~ \E d \in ShopCalls : Clears(d, u, s)
      BY <1>1, <2>1 DEF Clears, Waits
    <3>3. cart[u][s] + bought[u][s] <= added[u][s]
      BY <3>1, <3>2 DEF BoughtInv, CartWasAdded
    <3>4. bought'[u][s] = bought[u][s]
      <4>1. CASE u = b
        <5>1. ~(r.lines[s] > 0)
          BY <2>1, <4>1 DEF Clears, Waits
        <5>2. r.lines[s] = 0 /\ bought[u][s] \in Nat
          BY <1>0, <5>1 DEF ShopTypeOK
        <5>3. bought'[u][s] = bought[u][s] + r.lines[s]
          BY <2>2, <4>1
        <5> QED
          BY <5>2, <5>3
      <4> QED
        BY <2>3, <4>1
    <3> QED
      BY <1>1, <3>3, <3>4
  <2> QED
    BY <2>4, <2>5, <2>6, <2>7 DEF BoughtInv
<1> QED
  BY <1>2, <1>3 DEF CreateOrderOfCart

\* The cart is cleared of what was bought; if that fails the property says nothing.
LEMMA BoughtClear ==
    ASSUME ShopTypeOK, ShopTypeOK', BoughtInv, NEW c \in ShopCalls, BulkRemove(c)
    PROVE  BoughtInv'
<1> DEFINE r == shopping[c]
<1> DEFINE b == r.user
<1>0. b \in Customers /\ r.lines \in Lines
  BY DEF ShopTypeOK, Visits
<1>1. Waits(c, "clear") /\ Leave(c) /\ UNCHANGED <<bought, added, doubled>>
  BY DEF BulkRemove, purchaseVars
<1>2. shopFaults' >= shopFaults
  BY DEF BulkRemove, ShopFault, ShopTypeOK
<1>3. AloneInCheckout' /\ BoughtWasAdded' /\ OrderedWasAdded'
  BY <1>1, <1>2, BoughtLeave
<1>4. CartWasAdded'
  <2> SUFFICES ASSUME NEW u \in Customers, NEW s \in Wares, Orderly(u)',
                      ~ \E d \in ShopCalls : Clears(d, u, s)'
               PROVE  cart'[u][s] + bought'[u][s] <= added'[u][s]
    BY DEF CartWasAdded
  <2>1. /\ shopFaults' = shopFaults
        /\ cart' = [cart EXCEPT ![b] = [t \in Wares |-> IF t \in LinesOf(r.lines) THEN 0 ELSE @[t]]]
    BY DEF BulkRemove, ShopFault, Orderly, ShopTypeOK
  <2>2. Orderly(u)
    BY <1>1, <2>1 DEF Orderly
  <2>3. /\ cart[u][s] \in Nat /\ bought[u][s] \in Nat /\ added[u][s] \in Nat
    BY DEF ShopTypeOK
  <2>4. \A d \in ShopCalls : d # c => shopping'[d] = shopping[d]
    BY <1>1 DEF Leave, Visit, ShopTypeOK
  <2>5. bought[u][s] <= added[u][s]
    BY <2>2 DEF BoughtInv, BoughtWasAdded, Orderly
  <2>6. CASE u = b /\ r.lines[s] > 0
    <3>1. cart'[u][s] = 0
      BY <1>0, <2>1, <2>6 DEF LinesOf, ShopTypeOK
    <3> QED
      BY <1>1, <2>3, <2>5, <3>1
  <2>7. CASE ~(u = b /\ r.lines[s] > 0)
    <3>1. ~ \E d \in ShopCalls : Clears(d, u, s)
      BY <2>4, <2>7 DEF Clears, Waits
    <3>2. cart[u][s] + bought[u][s] <= added[u][s]
      BY <2>2, <3>1 DEF BoughtInv, CartWasAdded
    <3>3. cart'[u][s] = cart[u][s]
      BY <1>0, <2>1, <2>7 DEF LinesOf, ShopTypeOK
    <3> QED
      BY <1>1, <3>2, <3>3
  <2> QED
    BY <2>6, <2>7
<1> QED
  BY <1>3, <1>4 DEF BoughtInv

\* A crash ends every request; from then on only the number of checkouts matters.
LEMMA BoughtCrash ==
    ASSUME ShopTypeOK, ShopCrash
    PROVE  BoughtInv'
<1>1. shopFaults' > 0
  BY DEF ShopCrash, ShopFault, ShopTypeOK
<1>2. \A c \in ShopCalls : ~InCheckout(c)'
  BY DEF ShopCrash, NoVisit, VisitOf, InCheckout
<1>3. ~(shopFaults' = 0)
  BY <1>1
<1> QED
  BY <1>1, <1>2, <1>3 DEF BoughtInv, AloneInCheckout, BoughtWasAdded, OrderedWasAdded, CartWasAdded, Orderly

LEMMA BoughtNext ==
    ASSUME ShopTypeOK, ShopTypeOK', BoughtInv, [ShopNext]_shopVars
    PROVE  BoughtInv'
<1>1. CASE UNCHANGED shopVars
  <2>1. Aside
    BY <1>1 DEF shopVars, Aside, ShopTypeOK
  <2> QED
    BY <2>1, BoughtAside
<1>2. ASSUME NEW c \in ShopCalls, ShopStarts(c) PROVE BoughtInv'
  BY <1>2, BoughtGetCart, CartStepAside, BoughtAside DEF ShopStarts
<1>3. ASSUME NEW c \in ShopCalls, ShopGoesOn(c) PROVE BoughtInv'
  BY <1>3, BoughtOrder, BoughtClear, CartStepAside, BoughtAside DEF ShopGoesOn
<1> QED
  BY <1>1, <1>2, <1>3, RestAside, BoughtCrash, BoughtAside DEF ShopNext

\* Nobody buys more than they put into the cart, whatever they do to the cart between
\* the reading of it, the order and the clearing (GetCart, CreateOrder and
\* BulkRemove are three transactions).
THEOREM PurchasesWereAdded == ShopSpec => []BoughtWasAdded
<1>1. ShopInit => BoughtInv
  BY DEF ShopInit, BoughtInv, AloneInCheckout, BoughtWasAdded, OrderedWasAdded, CartWasAdded,
         InCheckout, Waits, NoVisit, VisitOf, NoLines
<1>2. ShopTypeOK /\ ShopTypeOK' /\ BoughtInv /\ [ShopNext]_shopVars => BoughtInv'
  BY BoughtNext
<1>3. BoughtInv => BoughtWasAdded
  BY DEF BoughtInv
<1> QED
  BY <1>1, <1>2, <1>3, ShopTypeCorrect, PTL DEF ShopSpec

-------------------------------------------------------------------------------
(* Accounts: type correctness *)

LEMMA AccFaultType == AccTypeOK /\ (AccFault \/ UNCHANGED accFaults) => accFaults' \in 0..AccMaxFaults
  BY AccMaxFaultsAssumption DEF AccTypeOK, AccFault

LEMMA AccMoveType ==
    ASSUME AccTypeOK, NEW c \in AccCalls,
           \/ Finish(c)
           \/ \E step \in Steps : Goto(c, step)
           \/ \E u \in AccUsers, step \in Steps, purpose \in {"activation", "reset"} :
                 Start(c, u, step, purpose)
           \/ \E l \in Links : requests' = [requests EXCEPT ![c].at = "mail", ![c].link = l]
    PROVE  requests' \in [AccCalls -> AccRequests]
<1>0. requests \in [AccCalls -> AccRequests] /\ requests[c] \in AccRequests
  BY DEF AccTypeOK
<1>1. CASE Finish(c)
  <2> DEFINE r == [requests[c] EXCEPT !.at = "idle", !.for = "activation", !.link = NoLink]
  <2>1. r \in AccRequests
    BY <1>0 DEF AccRequests, Steps
  <2>2. requests' = [requests EXCEPT ![c] = r]
    BY <1>0, <1>1 DEF Finish
  <2> HIDE DEF r
  <2> QED
    BY <1>0, <2>1, <2>2
<1>2. ASSUME NEW step \in Steps, Goto(c, step) PROVE requests' \in [AccCalls -> AccRequests]
  BY <1>2 DEF Goto, AccTypeOK, AccRequests
<1>3. ASSUME NEW u \in AccUsers, NEW step \in Steps, NEW purpose \in {"activation", "reset"},
             Start(c, u, step, purpose)
      PROVE  requests' \in [AccCalls -> AccRequests]
  BY <1>3 DEF Start, AccTypeOK, AccRequests
<1>4. ASSUME NEW l \in Links, requests' = [requests EXCEPT ![c].at = "mail", ![c].link = l]
      PROVE  requests' \in [AccCalls -> AccRequests]
  <2> DEFINE r == [requests[c] EXCEPT !.at = "mail", !.link = l]
  <2>1. r \in AccRequests
    BY <1>0 DEF AccRequests, Steps
  <2>2. requests' = [requests EXCEPT ![c] = r]
    BY <1>0, <1>4
  <2> HIDE DEF r
  <2> QED
    BY <1>0, <2>1, <2>2
<1> QED
  BY <1>1, <1>2, <1>3, <1>4

LEMMA AccTypeInit == AccInit => AccTypeOK
  BY AccMaxFaultsAssumption, MaxAccessTokenTTLAssumption DEF AccInit, AccTypeOK, NoRow, AccRows

LEMMA AccTypeStarts ==
    ASSUME AccTypeOK, NEW c \in AccCalls, RequestStarts(c)
    PROVE  AccTypeOK'
<1>1. PICK u \in AccUsers :
        \/ Signup(c, u) \/ Login(c, u) \/ HandleGoogleCallback(c, u)
        \/ ResendActivationEmail(c, u) \/ RequestPasswordReset(c, u)
        \/ UpdateProfile(c, u) \/ DeleteAccount(c, u)
  BY DEF RequestStarts
<1>2. \E step \in Steps, purpose \in {"activation", "reset"} : Start(c, u, step, purpose)
  BY <1>1 DEF Signup, Login, HandleGoogleCallback, ResendActivationEmail, RequestPasswordReset,
              UpdateProfile, DeleteAccount, Steps
<1>3. requests' \in [AccCalls -> AccRequests]
  BY <1>2, AccMoveType
<1>4. accFaults' \in 0..AccMaxFaults
  BY <1>1, AccFaultType DEF Signup, Login, HandleGoogleCallback, ResendActivationEmail,
              RequestPasswordReset, UpdateProfile, DeleteAccount, Authenticated
<1>5. UNCHANGED <<account, inbox, throttleVars, activated, tokenVars>>
  BY <1>1 DEF Signup, Login, HandleGoogleCallback, ResendActivationEmail, RequestPasswordReset,
              UpdateProfile, DeleteAccount
<1> QED
  BY <1>3, <1>4, <1>5 DEF AccTypeOK, throttleVars, tokenVars

\* A request about to send a link has one.
MailHasLink == \A c \in AccCalls : At(c, "mail") => requests[c].link \in Links

LEMMA AccTypeGoesOn ==
    ASSUME AccTypeOK, MailHasLink, NEW c \in AccCalls, RequestGoesOn(c)
    PROVE  AccTypeOK'
<1> DEFINE u == requests[c].user
<1>0. u \in AccUsers /\ requests[c].link \in Links \cup {NoLink} /\ NoRow \in AccRows
  BY DEF AccTypeOK, AccRequests, NoRow, AccRows
<1>1. requests' \in [AccCalls -> AccRequests]
  <2>1. \/ Finish(c)
        \/ \E step \in Steps : Goto(c, step)
        \/ \E l \in Links : requests' = [requests EXCEPT ![c].at = "mail", ![c].link = l]
    BY DEF RequestGoesOn, CreateInactiveUser, CreateOAuthUser, generateAuthResponse, Allow, Expire,
           SaveLink, EnqueueEmailSend, UpdateRow, AnonymizeUser, Revoke, Steps
  <2> QED
    BY <2>1, AccMoveType
<1>2. accFaults' \in 0..AccMaxFaults
  BY AccFaultType DEF RequestGoesOn, CreateInactiveUser, CreateOAuthUser, generateAuthResponse,
           Allow, Expire, SaveLink, EnqueueEmailSend, UpdateRow, AnonymizeUser, Revoke
<1>3. CASE CreateInactiveUser(c) \/ CreateOAuthUser(c) \/ SaveLink(c) \/ UpdateRow(c) \/ AnonymizeUser(c)
  <2>1. account' \in [AccUsers -> AccRows]
    <3>0. account \in [AccUsers -> AccRows]
      BY DEF AccTypeOK
    <3>1. CASE CreateInactiveUser(c)
      <4>1. \A l \in Links : [NoRow EXCEPT !.state = "live", !.password = TRUE,
                                !.personal = TRUE, !.activation = l] \in AccRows
        BY <1>0 DEF AccRows
      <4> QED
        BY <1>0, <3>0, <3>1, <4>1 DEF CreateInactiveUser
    <3>2. CASE CreateOAuthUser(c)
      <4>1. [NoRow EXCEPT !.state = "live", !.active = TRUE, !.personal = TRUE] \in AccRows
        BY <1>0 DEF AccRows
      <4> QED
        BY <1>0, <3>0, <3>2, <4>1 DEF CreateOAuthUser
    <3>3. CASE SaveLink(c)
      <4>1. PICK l \in Links : \/ account' = [account EXCEPT ![u].activation = l]
                               \/ account' = [account EXCEPT ![u].reset = l]
        BY <3>3 DEF SaveLink
      <4> QED
        BY <1>0, <4>1 DEF AccTypeOK, AccRows
    <3>4. CASE UpdateRow(c)
      BY <1>0, <3>4 DEF UpdateRow, AccTypeOK, AccRows
    <3>5. CASE AnonymizeUser(c)
      <4>1. [NoRow EXCEPT !.state = "erased"] \in AccRows
        BY <1>0 DEF AccRows
      <4> QED
        BY <1>0, <3>0, <3>5, <4>1 DEF AnonymizeUser
    <3> QED
      BY <1>3, <3>1, <3>2, <3>3, <3>4, <3>5
  <2>2. UNCHANGED <<inbox, throttleVars, activated, tokenVars>>
    BY <1>3 DEF CreateInactiveUser, CreateOAuthUser, SaveLink, UpdateRow, AnonymizeUser
  <2> QED
    BY <1>1, <1>2, <2>1, <2>2 DEF AccTypeOK, throttleVars, tokenVars
<1>4. CASE generateAuthResponse(c) \/ Revoke(c)
  <2>1. /\ token' \in [AccUsers -> 0..MaxAccessTokenTTL] /\ late' \subseteq AccUsers
        /\ revoked' \in [AccUsers -> 0..MaxAccessTokenTTL]
    <3>1. MaxAccessTokenTTL \in 0..MaxAccessTokenTTL
      BY MaxAccessTokenTTLAssumption
    <3> QED
      BY <1>0, <1>4, <3>1 DEF generateAuthResponse, Revoke, AccTypeOK
  <2>2. UNCHANGED <<account, inbox, throttleVars, activated>>
    BY <1>4 DEF generateAuthResponse, Revoke
  <2> QED
    BY <1>1, <1>2, <2>1, <2>2 DEF AccTypeOK, throttleVars
<1>5. CASE Allow(c) \/ Expire(c)
  <2>1. /\ sends' \in [AccUsers -> Nat] /\ sendsTtl' \in [AccUsers -> BOOLEAN]
        /\ granted' \in [AccUsers -> Nat]
    <3>1. CASE Allow(c)
      BY <1>0, <3>1 DEF Allow, AccTypeOK
    <3>2. CASE Expire(c)
      BY <1>0, <3>2 DEF Expire, AccTypeOK
    <3> QED
      BY <1>5, <3>1, <3>2
  <2>2. UNCHANGED <<account, inbox, activated, tokenVars>>
    BY <1>5 DEF Allow, Expire
  <2> QED
    BY <1>1, <1>2, <2>1, <2>2 DEF AccTypeOK, tokenVars
<1>6. CASE EnqueueEmailSend(c)
  <2>1. At(c, "mail") => requests[c].link \in Links
    BY DEF MailHasLink
  <2> QED
    BY <1>0, <1>1, <1>2, <1>6, <2>1 DEF EnqueueEmailSend, AccTypeOK, throttleVars, tokenVars
<1> QED
  BY <1>3, <1>4, <1>5, <1>6 DEF RequestGoesOn

LEMMA AccTypeNext == AccTypeOK /\ MailHasLink /\ [AccNext]_accVars => AccTypeOK'
<1> SUFFICES ASSUME AccTypeOK, MailHasLink, [AccNext]_accVars PROVE AccTypeOK'
  OBVIOUS
<1>1. CASE UNCHANGED accVars
  BY <1>1 DEF accVars, AccTypeOK
<1>2. ASSUME NEW c \in AccCalls, NEW l \in Links, ActivateUser(c, l) PROVE AccTypeOK'
  <2>1. PICK u \in AccUsers :
          /\ account' = [account EXCEPT ![u].active = TRUE, ![u].activation = NoLink]
          /\ Start(c, u, "mint", "activation") \/ UNCHANGED requests
    BY <1>2 DEF ActivateUser
  <2> DEFINE r == [account[u] EXCEPT !.active = TRUE, !.activation = NoLink]
  <2>2. account \in [AccUsers -> AccRows] /\ r \in AccRows
    BY DEF AccTypeOK, AccRows
  <2>3. account' = [account EXCEPT ![u] = r]
    BY <2>1, <2>2
  <2> HIDE DEF r
  <2>4. account' \in [AccUsers -> AccRows]
    BY <2>2, <2>3
  <2>5. requests' \in [AccCalls -> AccRequests]
    <3>1. "mint" \in Steps
      BY DEF Steps
    <3> QED
      BY <2>1, <3>1, AccMoveType DEF AccTypeOK
  <2> QED
    BY <1>2, <2>4, <2>5 DEF ActivateUser, AccTypeOK, throttleVars, tokenVars
<1>3. CASE AccExpiry
  <2>1. CASE DayPasses
    <3>1. /\ token' \in [AccUsers -> 0..MaxAccessTokenTTL]
          /\ revoked' \in [AccUsers -> 0..MaxAccessTokenTTL]
      BY <2>1, MaxAccessTokenTTLAssumption DEF DayPasses, AccTypeOK
    <3> QED
      BY <2>1, <3>1 DEF DayPasses, AccTypeOK, throttleVars
  <2>2. ASSUME NEW u \in AccUsers, ThrottleExpires(u) PROVE AccTypeOK'
    BY <2>2 DEF ThrottleExpires, AccTypeOK, tokenVars
  <2> QED
    BY <1>3, <2>1, <2>2 DEF AccExpiry
<1>4. CASE AccCrash
  <2>1. requests' \in [AccCalls -> AccRequests]
    <3>1. \A c \in AccCalls : [requests[c] EXCEPT !.at = "idle", !.for = "activation",
                                                   !.link = NoLink] \in AccRequests
      BY DEF AccTypeOK, AccRequests, Steps
    <3> QED
      BY <1>4, <3>1 DEF AccCrash
  <2> QED
    BY <1>4, <2>1, AccFaultType DEF AccCrash, AccTypeOK, throttleVars, tokenVars
<1> QED
  BY <1>1, <1>2, <1>3, <1>4, AccTypeStarts, AccTypeGoesOn DEF AccNext

-------------------------------------------------------------------------------
(* Accounts: links, the throttle, erasure *)

\* No two accounts wait for the same link, and one that was followed was mailed
\* and is in no account any more.
OneOwner(l) == \A u, v \in AccUsers : account[u].activation = l /\ account[v].activation = l => u = v
Followed(l) == l \in inbox /\ \A u \in AccUsers : account[u].activation # l
LinksOnce ==
    \A l \in Links : OneOwner(l) /\ (activated[l] = 0 \/ (activated[l] = 1 /\ Followed(l)))

\* Every e-mail that passed the throttle is in the counter or was let through by a
\* fault, and the counter is no higher than the limit when one passes.
GrantsCounted ==
    \A u \in AccUsers :
        /\ granted[u] <= sends[u] + accFaults
        /\ granted[u] <= MaxSends + accFaults

AccInv == AccTypeOK /\ MailHasLink /\ LinksOnce /\ GrantsCounted /\ ErasedIsLockedOut

USE NoLinkAssumption

LEMMA AccInvInit == AccInit => AccInv
  BY AccTypeInit, MaxSendsAssumption, MaxAccessTokenTTLAssumption
  DEF AccInit, AccInv, MailHasLink, LinksOnce, OneOwner, GrantsCounted, ErasedIsLockedOut, At, NoRow

LEMMA MailNext == AccTypeOK /\ MailHasLink /\ [AccNext]_accVars => MailHasLink'
<1> SUFFICES ASSUME AccTypeOK, MailHasLink, [AccNext]_accVars, NEW d \in AccCalls,
                    requests'[d].at = "mail"
             PROVE  requests'[d].link \in Links
  BY DEF MailHasLink, At
<1>1. CASE requests'[d] = requests[d]
  BY <1>1 DEF MailHasLink, At
<1>2. CASE requests'[d] # requests[d]
  <2>1. ~UNCHANGED requests
    BY <1>2
  <2>2. ~AccCrash
    <3>1. requests[d] \in AccRequests
      BY DEF AccTypeOK
    <3>2. AccCrash => requests'[d] = [requests[d] EXCEPT !.at = "idle", !.for = "activation",
                                                         !.link = NoLink]
      BY DEF AccCrash
    <3> QED
      BY <3>1, <3>2 DEF AccRequests
  <2>3. PICK c \in AccCalls :
          RequestStarts(c) \/ RequestGoesOn(c) \/ \E l \in Links : ActivateUser(c, l)
    BY <2>1, <2>2 DEF AccNext, accVars, AccExpiry, DayPasses, ThrottleExpires
  <2>4. \/ Finish(c)
        \/ \E step \in Steps \ {"mail"} : Goto(c, step)
        \/ \E u \in AccUsers, step \in Steps \ {"mail"}, purpose \in {"activation", "reset"} :
              Start(c, u, step, purpose)
        \/ \E l \in Links : requests' = [requests EXCEPT ![c].at = "mail", ![c].link = l]
    <3>1. CASE RequestStarts(c)
      BY <3>1 DEF RequestStarts, Signup, Login, HandleGoogleCallback, ResendActivationEmail,
           RequestPasswordReset, UpdateProfile, DeleteAccount, Steps
    <3>2. CASE RequestGoesOn(c)
      BY <3>2 DEF RequestGoesOn, CreateInactiveUser, CreateOAuthUser, generateAuthResponse, Allow,
           Expire, SaveLink, EnqueueEmailSend, UpdateRow, AnonymizeUser, Revoke, Steps
    <3>3. ASSUME NEW l \in Links, ActivateUser(c, l)
          PROVE  \E u \in AccUsers : Start(c, u, "mint", "activation")
      BY <2>1, <3>3 DEF ActivateUser
    <3>4. "mint" \in Steps \ {"mail"}
      BY DEF Steps
    <3> QED
      BY <2>3, <3>1, <3>2, <3>3, <3>4
  <2> QED
    BY <1>2, <2>4 DEF Finish, Goto, Start, AccTypeOK, AccRequests
<1> QED
  BY <1>1, <1>2

LEMMA LinksQuiet ==
    ASSUME LinksOnce, activated' = activated, inbox \subseteq inbox',
           \A u \in AccUsers : \/ account'[u].activation = account[u].activation
                              \/ account'[u].activation = NoLink
    PROVE  LinksOnce'
  BY DEF LinksOnce, OneOwner, Followed

LEMMA LinksGiven ==
    ASSUME LinksOnce, NEW u \in AccUsers, NEW l \in Links, FreshLink(l),
           activated' = activated, inbox' = inbox, account'[u].activation = l,
           \A v \in AccUsers \ {u} : account'[v].activation = account[v].activation
    PROVE  LinksOnce'
  BY DEF LinksOnce, OneOwner, Followed, FreshLink

LEMMA LinksFollowed ==
    ASSUME AccTypeOK, LinksOnce, NEW c \in AccCalls, NEW l \in Links, ActivateUser(c, l)
    PROVE  LinksOnce'
<1>1. PICK u \in AccUsers :
        /\ account[u].activation = l
        /\ account' = [account EXCEPT ![u].active = TRUE, ![u].activation = NoLink]
  BY DEF ActivateUser
<1>2. /\ account'[u].activation = NoLink
      /\ \A v \in AccUsers \ {u} : account'[v] = account[v]
  BY <1>1 DEF AccTypeOK, AccRows
<1>3. activated[l] = 0 /\ activated' = [activated EXCEPT ![l] = @ + 1] /\ l \in inbox /\ inbox' = inbox
  BY <1>1 DEF ActivateUser, LinksOnce, Followed
<1>4. ASSUME NEW m \in Links, m # l
      PROVE  OneOwner(m)' /\ (activated'[m] = 0 \/ (activated'[m] = 1 /\ Followed(m)'))
  <2>1. activated'[m] = activated[m]
    BY <1>3, <1>4 DEF AccTypeOK
  <2> QED
    BY <1>2, <1>3, <2>1 DEF LinksOnce, OneOwner, Followed
<1>5. OneOwner(l)' /\ activated'[l] = 1 /\ Followed(l)'
  <2>1. \A v \in AccUsers : account'[v].activation # l
    BY <1>1, <1>2 DEF LinksOnce, OneOwner
  <2> QED
    BY <1>3, <2>1 DEF AccTypeOK, OneOwner, Followed
<1> QED
  BY <1>4, <1>5 DEF LinksOnce

LEMMA LinksNext == AccTypeOK /\ MailHasLink /\ LinksOnce /\ [AccNext]_accVars => LinksOnce'
<1> SUFFICES ASSUME AccTypeOK, MailHasLink, LinksOnce, [AccNext]_accVars PROVE LinksOnce'
  OBVIOUS
<1>1. CASE UNCHANGED accVars
  BY <1>1, LinksQuiet DEF accVars
<1>2. ASSUME NEW c \in AccCalls, RequestStarts(c) PROVE LinksOnce'
  BY <1>2, LinksQuiet DEF RequestStarts, Signup, Login, HandleGoogleCallback,
     ResendActivationEmail, RequestPasswordReset, UpdateProfile, DeleteAccount
<1>3. ASSUME NEW c \in AccCalls, RequestGoesOn(c) PROVE LinksOnce'
  <2> DEFINE u == requests[c].user
  <2>0. u \in AccUsers /\ account \in [AccUsers -> AccRows]
    BY DEF AccTypeOK, AccRequests
  <2>1. CASE CreateInactiveUser(c)
    <3>1. CASE UNCHANGED account
      BY <2>1, <3>1, LinksQuiet DEF CreateInactiveUser
    <3>2. CASE account[u].state = "none"
      <4>1. PICK l \in Links :
              /\ FreshLink(l)
              /\ account' = [account EXCEPT ![u] = [NoRow EXCEPT !.state = "live",
                     !.password = TRUE, !.personal = TRUE, !.activation = l]]
        BY <2>1, <3>2 DEF CreateInactiveUser
      <4>2. account'[u].activation = l
        BY <2>0, <4>1 DEF NoRow
      <4>3. \A v \in AccUsers \ {u} : account'[v].activation = account[v].activation
        BY <2>0, <4>1
      <4> QED
        BY <2>0, <2>1, <4>1, <4>2, <4>3, LinksGiven DEF CreateInactiveUser
    <3> QED
      BY <2>1, <3>1, <3>2 DEF CreateInactiveUser
  <2>2. CASE SaveLink(c)
    <3>1. PICK l \in Links :
            /\ FreshLink(l)
            /\ \/ account' = [account EXCEPT ![u].activation = l]
               \/ account' = [account EXCEPT ![u].reset = l]
      BY <2>2 DEF SaveLink
    <3>2. CASE account' = [account EXCEPT ![u].activation = l]
      <4>1. account'[u].activation = l
        BY <2>0, <3>2 DEF AccRows
      <4>2. \A v \in AccUsers \ {u} : account'[v].activation = account[v].activation
        BY <2>0, <3>2
      <4> QED
        BY <2>0, <2>2, <3>1, <4>1, <4>2, LinksGiven DEF SaveLink
    <3>3. CASE account' = [account EXCEPT ![u].reset = l]
      <4>1. \A v \in AccUsers : account'[v].activation = account[v].activation
        BY <2>0, <3>3 DEF AccRows
      <4> QED
        BY <2>2, <4>1, LinksQuiet DEF SaveLink
    <3> QED
      BY <3>1, <3>2, <3>3
  <2>3. CASE CreateOAuthUser(c) \/ UpdateRow(c) \/ AnonymizeUser(c)
    <3>1. \A v \in AccUsers : \/ account'[v].activation = account[v].activation
                             \/ account'[v].activation = NoLink
      <4>1. CASE CreateOAuthUser(c)
        BY <2>0, <4>1 DEF CreateOAuthUser, NoRow
      <4>2. CASE UpdateRow(c)
        BY <2>0, <4>2 DEF UpdateRow, AccRows
      <4>3. CASE AnonymizeUser(c)
        BY <2>0, <4>3 DEF AnonymizeUser, NoRow
      <4> QED
        BY <2>3, <4>1, <4>2, <4>3
    <3> QED
      BY <2>3, <3>1, LinksQuiet DEF CreateOAuthUser, UpdateRow, AnonymizeUser
  <2>4. CASE \/ generateAuthResponse(c) \/ Allow(c) \/ Expire(c) \/ EnqueueEmailSend(c) \/ Revoke(c)
    BY <2>4, LinksQuiet DEF generateAuthResponse, Allow, Expire, EnqueueEmailSend, Revoke
  <2> QED
    BY <1>3, <2>1, <2>2, <2>3, <2>4 DEF RequestGoesOn
<1>4. CASE AccExpiry \/ AccCrash
  BY <1>4, LinksQuiet DEF AccExpiry, DayPasses, ThrottleExpires, AccCrash
<1> QED
  BY <1>1, <1>2, <1>3, <1>4, LinksFollowed DEF AccNext

LEMMA AccFaultsFrame == [AccNext]_accVars => accFaults' = accFaults \/ AccFault
<1>1. \A c \in AccCalls : RequestStarts(c) => accFaults' = accFaults \/ AccFault
  BY DEF RequestStarts, Signup, Login, HandleGoogleCallback, ResendActivationEmail,
     RequestPasswordReset, UpdateProfile, DeleteAccount, Authenticated
<1>2. \A c \in AccCalls : RequestGoesOn(c) => accFaults' = accFaults \/ AccFault
  BY DEF RequestGoesOn, CreateInactiveUser, CreateOAuthUser, generateAuthResponse, Allow, Expire,
     SaveLink, EnqueueEmailSend, UpdateRow, AnonymizeUser, Revoke
<1> QED
  BY <1>1, <1>2 DEF AccNext, accVars, ActivateUser, AccExpiry, DayPasses, ThrottleExpires, AccCrash

LEMMA GrantsNext == AccTypeOK /\ GrantsCounted /\ [AccNext]_accVars => GrantsCounted'
<1> SUFFICES ASSUME AccTypeOK, GrantsCounted, [AccNext]_accVars PROVE GrantsCounted'
  OBVIOUS
<1>0. /\ accFaults \in Nat /\ accFaults' \in Nat /\ accFaults <= accFaults'
      /\ sends \in [AccUsers -> Nat] /\ granted \in [AccUsers -> Nat] /\ MaxSends \in Nat
  BY AccFaultsFrame, AccMaxFaultsAssumption, MaxSendsAssumption DEF AccTypeOK, AccFault
<1>1. CASE UNCHANGED <<sends, granted>>
  BY <1>0, <1>1 DEF GrantsCounted
<1>2. ASSUME NEW c \in AccCalls, Allow(c) PROVE GrantsCounted'
  <2> DEFINE u == requests[c].user
  <2>1. u \in AccUsers
    BY DEF AccTypeOK, AccRequests
  <2>2. CASE /\ sends' = [sends EXCEPT ![u] = sends[u] + 1] /\ sends[u] + 1 <= MaxSends
             /\ granted' = [granted EXCEPT ![u] = @ + 1]
    BY <1>0, <2>1, <2>2 DEF GrantsCounted
  <2>3. CASE sends' = [sends EXCEPT ![u] = sends[u] + 1] /\ UNCHANGED granted
    BY <1>0, <2>1, <2>3 DEF GrantsCounted
  <2>4. CASE UNCHANGED sends /\ AccFault /\ granted' = [granted EXCEPT ![u] = @ + 1]
    BY <1>0, <2>1, <2>4 DEF GrantsCounted, AccFault
  <2>5. sends[u] + 1 > MaxSends \/ sends[u] + 1 <= MaxSends
    BY <1>0, <2>1
  <2> HIDE DEF u
  <2> QED
    BY <1>2, <2>2, <2>3, <2>4, <2>5 DEF Allow, u
<1>3. ASSUME NEW u \in AccUsers, ThrottleExpires(u) PROVE GrantsCounted'
  BY <1>0, <1>3 DEF ThrottleExpires, GrantsCounted
<1>4. UNCHANGED accVars => UNCHANGED <<sends, granted>>
  BY DEF accVars
<1>5. ASSUME NEW c \in AccCalls, RequestStarts(c) PROVE UNCHANGED <<sends, granted>>
  BY <1>5 DEF RequestStarts, Signup, Login, HandleGoogleCallback, ResendActivationEmail,
     RequestPasswordReset, UpdateProfile, DeleteAccount, throttleVars
<1>6. ASSUME NEW c \in AccCalls, RequestGoesOn(c), ~Allow(c) PROVE UNCHANGED <<sends, granted>>
  BY <1>6 DEF RequestGoesOn, CreateInactiveUser, CreateOAuthUser, generateAuthResponse, Expire,
     SaveLink, EnqueueEmailSend, UpdateRow, AnonymizeUser, Revoke, throttleVars
<1>7. ASSUME NEW c \in AccCalls, NEW l \in Links, ActivateUser(c, l) PROVE UNCHANGED <<sends, granted>>
  BY <1>7 DEF ActivateUser, throttleVars
<1>8. DayPasses \/ AccCrash => UNCHANGED <<sends, granted>>
  BY DEF DayPasses, AccCrash, throttleVars
<1> QED
  BY <1>1, <1>2, <1>3, <1>4, <1>5, <1>6, <1>7, <1>8 DEF AccNext, AccExpiry

\* An account becomes an erased one by AnonymizeUser.
LEMMA WhoErases ==
    ASSUME AccTypeOK, [AccNext]_accVars, NEW u \in AccUsers,
           account[u].state # "erased", account'[u].state = "erased"
    PROVE  \E c \in AccCalls : AnonymizeUser(c) /\ requests[c].user = u
<1>0. account \in [AccUsers -> AccRows] /\ requests \in [AccCalls -> AccRequests]
  BY DEF AccTypeOK
<1>1. \A c \in AccCalls : RequestStarts(c) => UNCHANGED account
  BY DEF RequestStarts, Signup, Login, HandleGoogleCallback, ResendActivationEmail,
     RequestPasswordReset, UpdateProfile, DeleteAccount
<1>2. \A c \in AccCalls : CreateInactiveUser(c) \/ CreateOAuthUser(c) \/ SaveLink(c) \/ UpdateRow(c)
                           => account'[u].state # "erased"
  <2>1. \A c \in AccCalls : requests[c].user \in AccUsers
    BY <1>0 DEF AccRequests
  <2>2. ASSUME NEW c \in AccCalls, CreateInactiveUser(c) PROVE account'[u].state # "erased"
    <3>1. CASE UNCHANGED account
      BY <3>1
    <3>2. ASSUME NEW l \in Links,
                 account' = [account EXCEPT ![requests[c].user] = [NoRow EXCEPT
                     !.state = "live", !.password = TRUE, !.personal = TRUE, !.activation = l]]
          PROVE  account'[u].state # "erased"
      <4>1. CASE u = requests[c].user
        BY <1>0, <3>2, <4>1 DEF NoRow
      <4>2. CASE u # requests[c].user
        BY <1>0, <3>2, <4>2
      <4> QED
        BY <4>1, <4>2
    <3> QED
      BY <2>2, <3>1, <3>2 DEF CreateInactiveUser
  <2>3. \A c \in AccCalls : CreateOAuthUser(c) => account'[u].state # "erased"
    BY <1>0, <2>1 DEF CreateOAuthUser, NoRow
  <2>4. ASSUME NEW c \in AccCalls, SaveLink(c) PROVE account'[u].state # "erased"
    <3>1. PICK l \in Links : \/ account' = [account EXCEPT ![requests[c].user].activation = l]
                             \/ account' = [account EXCEPT ![requests[c].user].reset = l]
      BY <2>4 DEF SaveLink
    <3>2. account'[u].state = account[u].state
      <4>1. CASE account' = [account EXCEPT ![requests[c].user].activation = l]
        BY <1>0, <2>1, <4>1 DEF AccRows
      <4>2. CASE account' = [account EXCEPT ![requests[c].user].reset = l]
        BY <1>0, <2>1, <4>2 DEF AccRows
      <4> QED
        BY <3>1, <4>1, <4>2
    <3> QED
      BY <3>2
  <2>5. \A c \in AccCalls : UpdateRow(c) => account'[u].state # "erased"
    BY <1>0, <2>1 DEF UpdateRow, AccRows
  <2> QED
    BY <2>2, <2>3, <2>4, <2>5
<1>3. \A c \in AccCalls : generateAuthResponse(c) \/ Allow(c) \/ Expire(c)
                            \/ EnqueueEmailSend(c) \/ Revoke(c) => UNCHANGED account
  BY DEF generateAuthResponse, Allow, Expire, EnqueueEmailSend, Revoke
<1>4. \A c \in AccCalls, l \in Links : ActivateUser(c, l) => account'[u].state # "erased"
  BY <1>0 DEF ActivateUser, AccRows
<1>5. AccExpiry \/ AccCrash \/ UNCHANGED accVars => UNCHANGED account
  BY DEF AccExpiry, DayPasses, ThrottleExpires, AccCrash, accVars
<1>6. PICK c \in AccCalls : AnonymizeUser(c)
  BY <1>1, <1>2, <1>3, <1>4, <1>5 DEF AccNext, RequestGoesOn
<1> QED
  BY <1>0, <1>6 DEF AnonymizeUser

\* Without a fault, a request that is about to revoke stays so or revokes.
LEMMA RevokeStays ==
    ASSUME AccTypeOK, [AccNext]_accVars, accFaults' = accFaults,
           NEW d \in AccCalls, At(d, "revoke")
    PROVE  Revoke(d) \/ requests'[d] = requests[d]
<1>0. requests \in [AccCalls -> AccRequests] /\ accFaults \in Nat
  BY AccMaxFaultsAssumption DEF AccTypeOK
<1>1. ASSUME NEW c \in AccCalls, RequestStarts(c) PROVE requests'[d] = requests[d]
  <2>1. c # d
    BY <1>1 DEF RequestStarts, Signup, Login, HandleGoogleCallback, ResendActivationEmail,
       RequestPasswordReset, UpdateProfile, DeleteAccount, Idle, At
  <2> QED
    BY <1>0, <1>1, <2>1 DEF RequestStarts, Signup, Login, HandleGoogleCallback, Start,
       ResendActivationEmail, RequestPasswordReset, UpdateProfile, DeleteAccount
<1>2. ASSUME NEW c \in AccCalls, RequestGoesOn(c), ~Revoke(d) PROVE requests'[d] = requests[d]
  <2>1. c # d
    BY <1>2 DEF RequestGoesOn, CreateInactiveUser, CreateOAuthUser, generateAuthResponse, Allow,
       Expire, SaveLink, EnqueueEmailSend, UpdateRow, AnonymizeUser, At
  <2> QED
    BY <1>0, <1>2, <2>1 DEF RequestGoesOn, CreateInactiveUser, CreateOAuthUser, generateAuthResponse,
       Allow, Expire, SaveLink, EnqueueEmailSend, UpdateRow, AnonymizeUser, Revoke, Finish, Goto
<1>3. ASSUME NEW c \in AccCalls, NEW l \in Links, ActivateUser(c, l) PROVE requests'[d] = requests[d]
  BY <1>0, <1>3 DEF ActivateUser, Start, Idle, At
<1>4. ~AccCrash
  <2>1. ~AccFault
    BY <1>0 DEF AccFault
  <2> QED
    BY <2>1 DEF AccCrash
<1>5. AccExpiry \/ UNCHANGED accVars => requests' = requests
  BY DEF accVars, AccExpiry, DayPasses, ThrottleExpires
<1> QED
  BY <1>1, <1>2, <1>3, <1>4, <1>5 DEF AccNext

\* An erased account that nobody is about to revoke: a new token is a late one, and
\* without one the tokens and the entry age together.
LEMMA TokensAge ==
    ASSUME AccTypeOK, [AccNext]_accVars, NEW u \in AccUsers,
           account[u].state = "erased", ~BeingRevoked(u)
    PROVE  \/ u \in late'
           \/ u \notin late /\ (token'[u] > revoked'[u] => token[u] > revoked[u])
<1> DEFINE Goal == \/ u \in late'
                   \/ u \notin late /\ (token'[u] > revoked'[u] => token[u] > revoked[u])
<1>0. /\ token \in [AccUsers -> 0..MaxAccessTokenTTL] /\ revoked \in [AccUsers -> 0..MaxAccessTokenTTL]
      /\ requests \in [AccCalls -> AccRequests] /\ MaxAccessTokenTTL \in Nat
  BY MaxAccessTokenTTLAssumption DEF AccTypeOK
<1>1. ASSUME UNCHANGED tokenVars PROVE Goal
  BY <1>1 DEF tokenVars
<1>2. ASSUME NEW c \in AccCalls, generateAuthResponse(c) PROVE Goal
  <2>1. CASE requests[c].user = u
    BY <1>2, <2>1 DEF generateAuthResponse
  <2>2. CASE requests[c].user # u
    <3>1. token'[u] = token[u] /\ revoked'[u] = revoked[u]
      BY <1>0, <1>2, <2>2 DEF generateAuthResponse
    <3>2. u \in late => u \in late'
      BY <1>2, <2>2 DEF generateAuthResponse
    <3> QED
      BY <3>1, <3>2
  <2> QED
    BY <2>1, <2>2
<1>3. ASSUME NEW c \in AccCalls, Revoke(c) PROVE Goal
  <2>1. token' = token /\ late' = late
    BY <1>3 DEF Revoke
  <2>2. revoked'[u] = revoked[u] \/ revoked'[u] = MaxAccessTokenTTL
    BY <1>0, <1>3 DEF Revoke
  <2>3. token[u] \in 0..MaxAccessTokenTTL /\ revoked[u] \in 0..MaxAccessTokenTTL
    BY <1>0
  <2> QED
    BY <1>0, <2>1, <2>2, <2>3
<1>4. ASSUME DayPasses PROVE Goal
  <2>1. /\ late' = late
        /\ token'[u] = IF token[u] > 0 THEN token[u] - 1 ELSE 0
        /\ revoked'[u] = IF revoked[u] > 0 THEN revoked[u] - 1 ELSE 0
    BY <1>4 DEF DayPasses
  <2>2. token[u] \in Nat /\ revoked[u] \in Nat
    BY <1>0
  <2> QED
    BY <2>1, <2>2
<1>5. ASSUME NEW c \in AccCalls, RequestStarts(c) PROVE UNCHANGED tokenVars
  BY <1>5 DEF RequestStarts, Signup, Login, HandleGoogleCallback, ResendActivationEmail,
     RequestPasswordReset, UpdateProfile, DeleteAccount, tokenVars
<1>6. ASSUME NEW c \in AccCalls, RequestGoesOn(c), ~generateAuthResponse(c), ~Revoke(c)
      PROVE  UNCHANGED tokenVars
  BY <1>6 DEF RequestGoesOn, CreateInactiveUser, CreateOAuthUser, Allow, Expire,
     SaveLink, EnqueueEmailSend, UpdateRow, AnonymizeUser, tokenVars
<1>7. \/ \E c \in AccCalls, l \in Links : ActivateUser(c, l)
      \/ \E v \in AccUsers : ThrottleExpires(v)
      \/ AccCrash \/ UNCHANGED accVars
      => UNCHANGED tokenVars
  BY DEF ActivateUser, ThrottleExpires, AccCrash, accVars, tokenVars
<1> HIDE DEF Goal
<1>8. Goal
  BY <1>1, <1>2, <1>3, <1>4, <1>5, <1>6, <1>7 DEF AccNext, AccExpiry
<1> QED
  BY <1>8 DEF Goal

\* A request that does not lock its user out goes on doing so unless it fails.
LEMMA ErasedNext == AccTypeOK /\ ErasedIsLockedOut /\ [AccNext]_accVars => ErasedIsLockedOut'
<1> SUFFICES ASSUME AccTypeOK, ErasedIsLockedOut, [AccNext]_accVars, NEW u \in AccUsers,
                    account'[u].state = "erased", token'[u] > revoked'[u], ~(accFaults' > 0)
             PROVE  BeingRevoked(u)' \/ u \in late'
  BY DEF ErasedIsLockedOut
<1>0. /\ account \in [AccUsers -> AccRows] /\ requests \in [AccCalls -> AccRequests]
      /\ token \in [AccUsers -> 0..MaxAccessTokenTTL] /\ revoked \in [AccUsers -> 0..MaxAccessTokenTTL]
      /\ accFaults \in Nat /\ MaxAccessTokenTTL \in Nat
  BY AccMaxFaultsAssumption, MaxAccessTokenTTLAssumption DEF AccTypeOK
<1>1. accFaults' = accFaults /\ ~(accFaults > 0)
  BY <1>0, AccFaultsFrame DEF AccFault
<1>2. CASE account[u].state # "erased"
  <2>1. PICK c \in AccCalls : AnonymizeUser(c) /\ requests[c].user = u
    BY <1>2, WhoErases
  <2>2. requests' = [requests EXCEPT ![c].at = "revoke"]
    BY <1>0, <1>2, <2>1 DEF AnonymizeUser, Goto
  <2> QED
    BY <1>0, <2>1, <2>2 DEF BeingRevoked, At, AccRequests
<1>3. CASE account[u].state = "erased" /\ BeingRevoked(u)
  <2>1. PICK d \in AccCalls : At(d, "revoke") /\ requests[d].user = u
    BY <1>3 DEF BeingRevoked
  <2>2. CASE requests'[d] = requests[d]
    BY <2>1, <2>2 DEF BeingRevoked, At
  <2>3. CASE Revoke(d)
    <3>1. token' = token /\ revoked' = [revoked EXCEPT ![u] = MaxAccessTokenTTL]
      BY <1>0, <1>1, <2>1, <2>3 DEF Revoke, AccFault
    <3>2. token[u] \in 0..MaxAccessTokenTTL /\ revoked'[u] = MaxAccessTokenTTL
      BY <1>0, <3>1
    <3> QED
      BY <1>0, <3>1, <3>2
  <2> QED
    BY <1>1, <2>1, <2>2, <2>3, RevokeStays
<1>4. CASE account[u].state = "erased" /\ ~BeingRevoked(u)
  <2>1. CASE u \in late'
    BY <2>1
  <2>2. CASE u \notin late /\ token[u] > revoked[u]
    BY <1>1, <1>4, <2>2 DEF ErasedIsLockedOut
  <2> QED
    BY <1>4, <2>1, <2>2, TokensAge
<1> QED
  BY <1>2, <1>3, <1>4

LEMMA AccountsCorrect == AccSpec => []AccInv
<1>1. AccInv /\ [AccNext]_accVars => AccInv'
  BY AccTypeNext, MailNext, LinksNext, GrantsNext, ErasedNext DEF AccInv
<1> QED
  BY <1>1, AccInvInit, PTL DEF AccSpec

\* Every variable of the accounts keeps its type.
THEOREM AccTypeCorrect == AccSpec => []AccTypeOK
<1>1. AccInv => AccTypeOK
  BY DEF AccInv
<1> QED
  BY <1>1, AccountsCorrect, PTL

\* A mailed link activates one account once, however often it is followed and
\* whatever signs up, resends or erases meanwhile (ActivateUser is one UPDATE).
THEOREM LinksActivateOnce == AccSpec => []ActivatedOnce
<1>1. AccInv => ActivatedOnce
  BY DEF AccInv, LinksOnce, ActivatedOnce
<1> QED
  BY <1>1, AccountsCorrect, PTL

\* The throttle (Allow) lets no more e-mails through between two expiries than
\* MaxSends and one per failure of Redis, for any number of requests in flight.
THEOREM SendsAreThrottled == AccSpec => []SendsAreBounded
<1>1. AccInv => SendsAreBounded
  BY DEF AccInv, GrantsCounted, SendsAreBounded
<1> QED
  BY <1>1, AccountsCorrect, PTL

\* No token of an erased account outlives its entry on the blocklist, whatever the
\* lifetime of both, unless a fault came in between or a log-in that had read the row
\* minted it after the entry was set (DeleteAccount, generateAuthResponse).
THEOREM ErasedAreLockedOut == AccSpec => []ErasedIsLockedOut
<1>1. AccInv => ErasedIsLockedOut
  BY DEF AccInv
<1> QED
  BY <1>1, AccountsCorrect, PTL

-------------------------------------------------------------------------------
(* Accounts: what lifts the throttle.  That it lifts needs time to pass and  *)
(* is left to TLC; that only a fault can make it last is an invariant.       *)

\* A counter of e-mails that is not zero expires, or a request is about to set
\* its expiry.
ThrottleIsCarried ==
    \A u \in AccUsers :
        sends[u] > 0 =>
            \/ sendsTtl[u]
            \/ \E c \in AccCalls : At(c, "expire") /\ requests[c].user = u
            \/ accFaults > 0

\* Without a fault, a request at EXPIRE stays there or executes it.
LEMMA ExpireStays ==
    ASSUME AccTypeOK, [AccNext]_accVars, accFaults' = accFaults,
           NEW d \in AccCalls, At(d, "expire")
    PROVE  Expire(d) \/ requests'[d] = requests[d]
<1>0. requests \in [AccCalls -> AccRequests] /\ accFaults \in Nat
  BY AccMaxFaultsAssumption DEF AccTypeOK
<1>1. ASSUME NEW c \in AccCalls, RequestStarts(c) PROVE requests'[d] = requests[d]
  <2>1. c # d
    BY <1>1 DEF RequestStarts, Signup, Login, HandleGoogleCallback, ResendActivationEmail,
       RequestPasswordReset, UpdateProfile, DeleteAccount, Idle, At
  <2> QED
    BY <1>0, <1>1, <2>1 DEF RequestStarts, Signup, Login, HandleGoogleCallback, Start,
       ResendActivationEmail, RequestPasswordReset, UpdateProfile, DeleteAccount
<1>2. ASSUME NEW c \in AccCalls, RequestGoesOn(c), ~Expire(d) PROVE requests'[d] = requests[d]
  <2>1. c # d
    BY <1>2 DEF RequestGoesOn, CreateInactiveUser, CreateOAuthUser, generateAuthResponse, Allow,
       SaveLink, EnqueueEmailSend, UpdateRow, AnonymizeUser, Revoke, At
  <2> QED
    BY <1>0, <1>2, <2>1 DEF RequestGoesOn, CreateInactiveUser, CreateOAuthUser, generateAuthResponse,
       Allow, Expire, SaveLink, EnqueueEmailSend, UpdateRow, AnonymizeUser, Revoke, Finish, Goto
<1>3. ASSUME NEW c \in AccCalls, NEW l \in Links, ActivateUser(c, l) PROVE requests'[d] = requests[d]
  BY <1>0, <1>3 DEF ActivateUser, Start, Idle, At
<1>4. ~AccCrash
  <2>1. ~AccFault
    BY <1>0 DEF AccFault
  <2> QED
    BY <2>1 DEF AccCrash
<1>5. AccExpiry \/ UNCHANGED accVars => requests' = requests
  BY DEF accVars, AccExpiry, DayPasses, ThrottleExpires
<1> QED
  BY <1>1, <1>2, <1>3, <1>4, <1>5 DEF AccNext

\* Who touches the counter of u: INCR, and Redis when it expires.
LEMMA ThrottleFrame ==
    ASSUME AccTypeOK, [AccNext]_accVars, NEW u \in AccUsers
    PROVE  \/ sends'[u] = sends[u] /\ (sendsTtl[u] => sendsTtl'[u])
           \/ sends'[u] = 0
           \/ /\ UNCHANGED sendsTtl
              /\ \E c \in AccCalls : Allow(c) /\ requests[c].user = u /\ sends'[u] = sends[u] + 1
<1> DEFINE Goal == \/ sends'[u] = sends[u] /\ (sendsTtl[u] => sendsTtl'[u])
                   \/ sends'[u] = 0
                   \/ /\ UNCHANGED sendsTtl
                      /\ \E c \in AccCalls : Allow(c) /\ requests[c].user = u /\ sends'[u] = sends[u] + 1
<1>0. sends \in [AccUsers -> Nat] /\ sendsTtl \in [AccUsers -> BOOLEAN]
  BY DEF AccTypeOK
<1>1. ASSUME UNCHANGED <<sends, sendsTtl>> PROVE Goal
  BY <1>1
<1>2. ASSUME NEW c \in AccCalls, Allow(c) PROVE Goal
  <2>1. CASE UNCHANGED sends
    BY <1>1, <1>2, <2>1 DEF Allow
  <2>2. CASE sends' = [sends EXCEPT ![requests[c].user] = sends[requests[c].user] + 1]
    <3>1. CASE requests[c].user = u
      BY <1>0, <1>2, <2>2, <3>1 DEF Allow
    <3>2. CASE requests[c].user # u
      BY <1>0, <1>2, <2>2, <3>2 DEF Allow
    <3> QED
      BY <3>1, <3>2
  <2> QED
    BY <1>2, <2>1, <2>2 DEF Allow
<1>3. ASSUME NEW c \in AccCalls, Expire(c) PROVE Goal
  BY <1>0, <1>3 DEF Expire
<1>4. ASSUME NEW v \in AccUsers, ThrottleExpires(v) PROVE Goal
  BY <1>0, <1>4 DEF ThrottleExpires
<1>5. ASSUME NEW c \in AccCalls, RequestStarts(c) PROVE UNCHANGED <<sends, sendsTtl>>
  BY <1>5 DEF RequestStarts, Signup, Login, HandleGoogleCallback, ResendActivationEmail,
     RequestPasswordReset, UpdateProfile, DeleteAccount, throttleVars
<1>6. ASSUME NEW c \in AccCalls, RequestGoesOn(c), ~Allow(c), ~Expire(c)
      PROVE  UNCHANGED <<sends, sendsTtl>>
  BY <1>6 DEF RequestGoesOn, CreateInactiveUser, CreateOAuthUser, generateAuthResponse,
     SaveLink, EnqueueEmailSend, UpdateRow, AnonymizeUser, Revoke, throttleVars
<1>7. \/ \E c \in AccCalls, l \in Links : ActivateUser(c, l)
      \/ DayPasses
      \/ AccCrash \/ UNCHANGED accVars
      => UNCHANGED <<sends, sendsTtl>>
  BY DEF ActivateUser, DayPasses, AccCrash, throttleVars, accVars
<1> HIDE DEF Goal
<1>8. Goal
  BY <1>1, <1>2, <1>3, <1>4, <1>5, <1>6, <1>7 DEF AccNext, AccExpiry
<1> QED
  BY <1>8 DEF Goal

LEMMA ThrottleNext ==
    ASSUME AccTypeOK, ThrottleIsCarried, [AccNext]_accVars
    PROVE  ThrottleIsCarried'
<1> SUFFICES ASSUME NEW u \in AccUsers, sends'[u] > 0, ~sendsTtl'[u], ~(accFaults' > 0)
             PROVE  \E c \in AccCalls : At(c, "expire")' /\ requests'[c].user = u
  BY DEF ThrottleIsCarried
<1>0. /\ requests \in [AccCalls -> AccRequests] /\ sends \in [AccUsers -> Nat]
      /\ accFaults \in Nat /\ sendsTtl \in [AccUsers -> BOOLEAN]
  BY AccMaxFaultsAssumption DEF AccTypeOK
<1>1. accFaults' = accFaults /\ ~(accFaults > 0)
  BY <1>0, AccFaultsFrame DEF AccFault
<1>2. CASE sends[u] = 0
  <2>1. PICK c \in AccCalls : Allow(c) /\ requests[c].user = u /\ sends'[u] = sends[u] + 1
    BY <1>0, <1>2, ThrottleFrame
  <2>2. requests' = [requests EXCEPT ![c].at = "expire"]
    BY <1>0, <1>1, <1>2, <2>1, MaxSendsAssumption DEF Allow, Goto, AccFault
  <2> QED
    BY <1>0, <2>1, <2>2 DEF At, AccRequests
<1>3. CASE sends[u] > 0
  <2>1. ~sendsTtl[u]
    BY <1>0, ThrottleFrame
  <2>2. PICK d \in AccCalls : At(d, "expire") /\ requests[d].user = u
    BY <1>1, <1>3, <2>1 DEF ThrottleIsCarried
  <2>3. ~Expire(d)
    BY <1>0, <1>1, <2>2 DEF Expire, AccFault
  <2>4. requests'[d] = requests[d]
    BY <1>1, <2>2, <2>3, ExpireStays
  <2> QED
    BY <2>2, <2>4 DEF At
<1> QED
  BY <1>0, <1>2, <1>3

\* The safety half of ThrottleLifts: INCR and EXPIRE are two commands, yet between
\* them a request always has the second in hand, so that a counter without an
\* expiry, which would throttle the address for good, is the work of a fault.
THEOREM ThrottleIsNotForever == AccSpec => []ThrottleIsCarried
<1> DEFINE I == AccInv /\ ThrottleIsCarried
<1>1. AccInit => ThrottleIsCarried
  BY DEF AccInit, ThrottleIsCarried
<1>2. I /\ [AccNext]_accVars => I'
  BY ThrottleNext, AccTypeNext, MailNext, LinksNext, GrantsNext, ErasedNext DEF AccInv
<1>3. I => ThrottleIsCarried
  OBVIOUS
<1> HIDE DEF ThrottleIsCarried
<1> QED
  BY <1>1, <1>2, <1>3, AccInvInit, PTL DEF AccSpec

-------------------------------------------------------------------------------
(* TwoFactor: type correctness *)

USE SuperAdminsAssumption, NoSecretAssumption, TfaNumbersAssumption

LEMMA NoRequestType == \A u \in TfaUsers : NoRequest(u) \in TfaRequests
  BY DEF NoRequest, TfaRequests, TfaSteps, Typed

LEMMA BatchType == \A n \in 1..MaxBatches : Batch(n) \subseteq BackupCodes
  BY DEF Batch, BackupCodes

LEMMA KnownType == TfaTypeOK => \A u \in TfaUsers : Known(u) \subseteq Typed
  BY DEF TfaTypeOK, Known, Typed

LEMMA TfaFaultType == TfaTypeOK /\ (TfaFault \/ UNCHANGED tfaFaults) => tfaFaults' \in 0..TfaMaxFaults
  BY DEF TfaTypeOK, TfaFault

LEMMA EnterType ==
    ASSUME TfaTypeOK, NEW c \in TfaCalls, NEW r \in TfaRequests, Enter(c, r)
    PROVE  steps' \in [TfaCalls -> TfaRequests]
  BY DEF TfaTypeOK, Enter

LEMMA EndType ==
    ASSUME TfaTypeOK, NEW c \in TfaCalls, End(c)
    PROVE  steps' \in [TfaCalls -> TfaRequests]
<1>1. steps[c].user \in TfaUsers
  BY DEF TfaTypeOK, TfaRequests
<1> QED
  BY <1>1, NoRequestType DEF TfaTypeOK, End

LEMMA StepType ==
    ASSUME TfaTypeOK, NEW c \in TfaCalls, NEW s \in TfaSteps, Step(c, s) \/ Judged(c, s)
    PROVE  steps' \in [TfaCalls -> TfaRequests]
<1>0. steps \in [TfaCalls -> TfaRequests] /\ steps[c] \in TfaRequests /\ Wrong \in Typed
  BY DEF TfaTypeOK, Typed
<1>1. [steps[c] EXCEPT !.at = s] \in TfaRequests /\ [steps[c] EXCEPT !.at = s, !.code = Wrong] \in TfaRequests
  BY <1>0 DEF TfaRequests
<1>2. CASE Step(c, s)
  <2> DEFINE r == [steps[c] EXCEPT !.at = s]
  <2>1. r \in TfaRequests /\ steps' = [steps EXCEPT ![c] = r]
    BY <1>0, <1>1, <1>2 DEF Step
  <2> HIDE DEF r
  <2> QED
    BY <1>0, <2>1
<1>3. CASE Judged(c, s)
  <2> DEFINE r == [steps[c] EXCEPT !.at = s, !.code = Wrong]
  <2>1. r \in TfaRequests /\ steps' = [steps EXCEPT ![c] = r]
    BY <1>0, <1>1, <1>3 DEF Judged
  <2> HIDE DEF r
  <2> QED
    BY <1>0, <2>1
<1> QED
  BY <1>2, <1>3

LEMMA TfaTypeInit == TfaInit => TfaTypeOK
<1> SUFFICES ASSUME TfaInit PROVE TfaTypeOK
  OBVIOUS
<1>1. steps \in [TfaCalls -> TfaRequests]
  BY NoRequestType DEF TfaInit
<1> QED
  BY <1>1 DEF TfaInit, TfaTypeOK

LEMMA TfaTypeStarts ==
    ASSUME TfaTypeOK, NEW u \in TfaUsers, NEW c \in TfaCalls, TfaStarts(c, u)
    PROVE  TfaTypeOK'
<1>0. NoRequest(u) \in TfaRequests
  BY NoRequestType
<1>1. tfaFaults' \in 0..TfaMaxFaults
  BY TfaFaultType DEF TfaStarts, Complete2FALogin, Confirm, RegenerateBackupCodes, Disable
<1>2. steps' \in [TfaCalls -> TfaRequests]
  <2>1. \E r \in TfaRequests : Enter(c, r)
    <3>1. ASSUME NEW k \in Known(u), Complete2FALogin(c, u, k) PROVE \E r \in TfaRequests : Enter(c, r)
      <4>1. [NoRequest(u) EXCEPT !.at = "verifyTotp", !.code = k] \in TfaRequests
        BY <1>0, KnownType DEF TfaRequests, TfaSteps
      <4> QED
        BY <3>1, <4>1 DEF Complete2FALogin
    <3>2. ASSUME NEW k \in Known(u), NEW login \in BOOLEAN, Confirm(c, u, k, login)
          PROVE  \E r \in TfaRequests : Enter(c, r)
      <4>1. [NoRequest(u) EXCEPT !.at = "enable", !.login = login] \in TfaRequests
        BY <1>0 DEF TfaRequests, TfaSteps
      <4> QED
        BY <3>2, <4>1 DEF Confirm
    <3>3. CASE RegenerateBackupCodes(c, u)
      <4>1. [NoRequest(u) EXCEPT !.at = "replace"] \in TfaRequests
        BY <1>0 DEF TfaRequests, TfaSteps
      <4> QED
        BY <3>3, <4>1 DEF RegenerateBackupCodes
    <3>4. CASE Disable(c, u)
      <4>1. [NoRequest(u) EXCEPT !.at = "dropCodes"] \in TfaRequests
        BY <1>0 DEF TfaRequests, TfaSteps
      <4> QED
        BY <3>4, <4>1 DEF Disable
    <3> QED
      BY <3>1, <3>2, <3>3, <3>4 DEF TfaStarts
  <2> QED
    BY <2>1, EnterType
<1>3. enabled' \in [TfaUsers -> BOOLEAN]
  BY DEF TfaStarts, Complete2FALogin, Confirm, RegenerateBackupCodes, Disable, recordVars, TfaTypeOK
<1>4. UNCHANGED <<secret, codeVars, sessionVars, lockVars>>
  BY DEF TfaStarts, Complete2FALogin, Confirm, RegenerateBackupCodes, Disable, recordVars
<1> QED
  BY <1>1, <1>2, <1>3, <1>4 DEF TfaTypeOK, codeVars, sessionVars, lockVars

LEMMA TfaTypeGoesOn ==
    ASSUME TfaTypeOK, NEW c \in TfaCalls, TfaGoesOn(c)
    PROVE  TfaTypeOK'
<1> DEFINE r == steps[c]
           u == r.user
<1>0. r \in TfaRequests /\ u \in TfaUsers /\ r.n \in Nat /\ r.doomed \subseteq BackupCodes
  BY DEF TfaTypeOK, TfaRequests
<1>1. tfaFaults' \in 0..TfaMaxFaults
  BY TfaFaultType DEF TfaGoesOn, VerifyCode, ConsumeBackupCode, RegisterFailure, ExpireFailures, LockOut,
     ResetAndMint, Enable, DeleteUnused, StoreBackupCodes, DeleteBackupCodes
<1>2. CASE VerifyCode(c) \/ Enable(c)
  <2>1. steps' \in [TfaCalls -> TfaRequests]
    BY <1>2, StepType DEF VerifyCode, Enable, TfaSteps
  <2>2. enabled' \in [TfaUsers -> BOOLEAN] /\ UNCHANGED <<secret, codeVars, sessionVars, lockVars>>
    BY <1>2 DEF VerifyCode, Enable, recordVars, TfaTypeOK
  <2> QED
    BY <1>1, <2>1, <2>2 DEF TfaTypeOK, codeVars, sessionVars, lockVars
<1>3. CASE ConsumeBackupCode(c)
  <2>1. steps' \in [TfaCalls -> TfaRequests]
    BY <1>3, StepType DEF ConsumeBackupCode, TfaSteps
  <2>2. /\ codes' \in [TfaUsers -> SUBSET BackupCodes]
        /\ entered' \in [BackupCodes -> Nat] /\ guesses' \in [TfaUsers -> Nat]
    BY <1>0, <1>3 DEF ConsumeBackupCode, TfaTypeOK
  <2> QED
    BY <1>1, <1>3, <2>1, <2>2 DEF ConsumeBackupCode, TfaTypeOK, recordVars, sessionVars
<1>4. CASE RegisterFailure(c)
  <2>1. steps' \in [TfaCalls -> TfaRequests]
    <3>1. CASE End(c)
      BY <3>1, EndType
    <3>2. CASE ~End(c)
      <4> DEFINE n == fails[u] + 1
                 q == [r EXCEPT !.n = n, !.at = IF n = 1 THEN "expireFails" ELSE "lock"]
      <4>1. n \in Nat
        BY <1>0 DEF TfaTypeOK
      <4> HIDE DEF n
      <4>2. q \in TfaRequests
        BY <1>0, <4>1 DEF TfaRequests, TfaSteps
      <4>3. steps' = [steps EXCEPT ![c] = q]
        BY <1>0, <1>4, <3>2 DEF RegisterFailure, TfaTypeOK, n
      <4> HIDE DEF q
      <4> QED
        BY <4>2, <4>3 DEF TfaTypeOK
    <3> QED
      BY <3>1, <3>2
  <2>2. fails' \in [TfaUsers -> Nat]
    BY <1>0, <1>4 DEF RegisterFailure, TfaTypeOK
  <2> QED
    BY <1>1, <1>4, <2>1, <2>2 DEF RegisterFailure, TfaTypeOK, recordVars, codeVars, sessionVars
<1>5. CASE ExpireFailures(c) \/ LockOut(c) \/ ResetAndMint(c)
  <2>1. steps' \in [TfaCalls -> TfaRequests]
    BY <1>5, StepType, EndType DEF ExpireFailures, LockOut, ResetAndMint, TfaSteps
  <2>2. CASE ExpireFailures(c)
    <3>1. failsTtl' \in [TfaUsers -> BOOLEAN]
      <4>1. (fails[u] > 0) \in BOOLEAN
        OBVIOUS
      <4>2. CASE failsTtl' = failsTtl
        BY <4>2 DEF TfaTypeOK
      <4>3. CASE failsTtl' = [failsTtl EXCEPT ![u] = TRUE]
        BY <1>0, <4>3 DEF TfaTypeOK
      <4>4. CASE failsTtl' = [failsTtl EXCEPT ![u] = FALSE]
        BY <1>0, <4>4 DEF TfaTypeOK
      <4>5. (fails[u] > 0) = TRUE \/ (fails[u] > 0) = FALSE
        BY <4>1
      <4> QED
        BY <2>2, <4>2, <4>3, <4>4, <4>5 DEF ExpireFailures
    <3> QED
      BY <1>1, <2>1, <2>2, <3>1 DEF ExpireFailures, TfaTypeOK, recordVars, codeVars, sessionVars
  <2>3. CASE LockOut(c)
    <3>1. locked' \in [TfaUsers -> BOOLEAN]
      BY <1>0, <2>3 DEF LockOut, TfaTypeOK
    <3>2. UNCHANGED <<recordVars, codeVars, sessionVars, fails, failsTtl, guesses>>
      BY <2>3 DEF LockOut
    <3> QED
      BY <1>1, <2>1, <3>1, <3>2 DEF TfaTypeOK, recordVars, codeVars, sessionVars
  <2>4. CASE ResetAndMint(c)
    <3>1. /\ fails' \in [TfaUsers -> Nat] /\ failsTtl' \in [TfaUsers -> BOOLEAN]
          /\ locked' \in [TfaUsers -> BOOLEAN] /\ guesses' \in [TfaUsers -> Nat]
      <4>1. CASE UNCHANGED lockVars
        BY <4>1 DEF TfaTypeOK, lockVars
      <4>2. CASE /\ fails' = [fails EXCEPT ![u] = 0] /\ failsTtl' = [failsTtl EXCEPT ![u] = FALSE]
                 /\ locked' = [locked EXCEPT ![u] = FALSE] /\ guesses' = [guesses EXCEPT ![u] = 0]
        <5>1. fails' \in [TfaUsers -> Nat] /\ guesses' \in [TfaUsers -> Nat]
          BY <1>0, <4>2 DEF TfaTypeOK
        <5>2. failsTtl' \in [TfaUsers -> BOOLEAN] /\ locked' \in [TfaUsers -> BOOLEAN]
          BY <1>0, <4>2 DEF TfaTypeOK
        <5> QED
          BY <5>1, <5>2
      <4> QED
        BY <2>4, <4>1, <4>2 DEF ResetAndMint
    <3>2. signedIn' \subseteq TfaUsers /\ UNCHANGED <<recordVars, codeVars, pending>>
      BY <1>0, <2>4 DEF ResetAndMint, TfaTypeOK
    <3> QED
      BY <1>1, <2>1, <3>1, <3>2 DEF TfaTypeOK, recordVars, codeVars
  <2> QED
    BY <1>5, <2>2, <2>3, <2>4
<1>6. CASE DeleteUnused(c)
  <2> DEFINE q == [r EXCEPT !.at = "insert", !.doomed = codes[u]]
  <2>1. q \in TfaRequests
    BY <1>0 DEF TfaTypeOK, TfaRequests, TfaSteps
  <2>2. steps' = [steps EXCEPT ![c] = q]
    BY <1>0, <1>6 DEF DeleteUnused, TfaTypeOK
  <2> HIDE DEF q
  <2>3. steps' \in [TfaCalls -> TfaRequests]
    BY <2>1, <2>2 DEF TfaTypeOK
  <2> QED
    BY <1>1, <1>6, <2>3 DEF DeleteUnused, TfaTypeOK, recordVars, codeVars, sessionVars, lockVars
<1>7. CASE StoreBackupCodes(c) \/ DeleteBackupCodes(c)
  <2>1. steps' \in [TfaCalls -> TfaRequests]
    BY <1>7, EndType DEF StoreBackupCodes, DeleteBackupCodes
  <2>2. CASE StoreBackupCodes(c)
    <3>1. batches + 1 \in 1..MaxBatches
      BY <2>2 DEF StoreBackupCodes, TfaTypeOK
    <3>2. codes' \in [TfaUsers -> SUBSET BackupCodes]
      <4> DEFINE left == (codes[u] \ r.doomed) \cup Batch(batches + 1)
      <4>1. left \subseteq BackupCodes
        BY <1>0, <3>1, BatchType DEF TfaTypeOK
      <4>2. codes' = [codes EXCEPT ![u] = left]
        BY <1>0, <2>2 DEF StoreBackupCodes, TfaTypeOK
      <4> HIDE DEF left
      <4> QED
        BY <4>1, <4>2 DEF TfaTypeOK
    <3> QED
      BY <1>0, <1>1, <2>1, <2>2, <3>1, <3>2 DEF StoreBackupCodes, TfaTypeOK, recordVars, lockVars
  <2>3. CASE DeleteBackupCodes(c)
    <3>1. codes' \in [TfaUsers -> SUBSET BackupCodes]
      BY <1>0, <2>3 DEF DeleteBackupCodes, TfaTypeOK
    <3> QED
      BY <1>1, <2>1, <2>3, <3>1 DEF DeleteBackupCodes, TfaTypeOK, recordVars, sessionVars, lockVars
  <2> QED
    BY <1>7, <2>2, <2>3
<1> QED
  BY <1>2, <1>3, <1>4, <1>5, <1>6, <1>7 DEF TfaGoesOn

LEMMA TfaTypeNext == TfaTypeOK /\ [TfaNext]_tfaVars => TfaTypeOK'
<1> SUFFICES ASSUME TfaTypeOK, [TfaNext]_tfaVars PROVE TfaTypeOK'
  OBVIOUS
<1>1. CASE UNCHANGED tfaVars
  BY <1>1 DEF tfaVars, TfaTypeOK
<1>2. ASSUME NEW u \in TfaUsers, challenge2FAOrMint(u) PROVE TfaTypeOK'
  BY <1>2 DEF challenge2FAOrMint, TfaTypeOK, recordVars, codeVars, lockVars
<1>3. ASSUME NEW u \in TfaUsers, FailuresExpire(u) \/ LockExpires(u) PROVE TfaTypeOK'
  <2>1. CASE FailuresExpire(u)
    BY <2>1 DEF FailuresExpire, TfaTypeOK, recordVars, codeVars, sessionVars
  <2>2. CASE LockExpires(u)
    BY <2>2 DEF LockExpires, TfaTypeOK, recordVars, codeVars, sessionVars
  <2> QED
    BY <1>3, <2>1, <2>2
<1>4. ASSUME NEW u \in TfaUsers, NEW s \in Secrets, Enroll(u, s) PROVE TfaTypeOK'
  BY <1>4 DEF Enroll, TfaTypeOK, codeVars, sessionVars, lockVars
<1>5. CASE TfaCrash
  <2>1. steps' \in [TfaCalls -> TfaRequests]
    <3>1. \A c \in TfaCalls : steps[c].user \in TfaUsers
      BY DEF TfaTypeOK, TfaRequests
    <3> QED
      BY <1>5, <3>1, NoRequestType DEF TfaCrash
  <2> QED
    BY <1>5, <2>1, TfaFaultType DEF TfaCrash, TfaTypeOK, recordVars, codeVars, sessionVars, lockVars
<1> QED
  BY <1>1, <1>2, <1>3, <1>4, <1>5, TfaTypeStarts, TfaTypeGoesOn DEF TfaNext

-------------------------------------------------------------------------------
(* TwoFactor: backup codes *)

\* A code that still works was never accepted and belongs to one user; one of a
\* generation to come is nowhere.
CodesAreFresh ==
    \A k \in BackupCodes :
        /\ entered[k] \in {0, 1}
        /\ k[1] > batches => entered[k] = 0
        /\ \A u \in TfaUsers : k \in codes[u] => entered[k] = 0 /\ k[1] <= batches
        /\ \A u, v \in TfaUsers : k \in codes[u] /\ k \in codes[v] => u = v

TfaInv == TfaTypeOK /\ CodesAreFresh

LEMMA TfaInvInit == TfaInit => TfaInv
<1> SUFFICES ASSUME TfaInit PROVE CodesAreFresh
  BY TfaTypeInit DEF TfaInv
<1> QED
  BY DEF TfaInit, CodesAreFresh

LEMMA CodesFewer ==
    ASSUME CodesAreFresh, \A u \in TfaUsers : codes'[u] \subseteq codes[u],
           entered' = entered, batches' = batches
    PROVE  CodesAreFresh'
  BY DEF CodesAreFresh

LEMMA CodesConsumed ==
    ASSUME TfaInv, NEW c \in TfaCalls, ConsumeBackupCode(c)
    PROVE  CodesAreFresh'
<1> DEFINE r == steps[c]
<1>0. r.user \in TfaUsers
  BY DEF TfaInv, TfaTypeOK, TfaRequests
<1>1. CASE r.code \notin codes[r.user]
  BY <1>1, CodesFewer DEF ConsumeBackupCode, TfaInv
<1>2. CASE r.code \in codes[r.user]
  <2>1. r.code \in BackupCodes /\ entered[r.code] = 0 /\ r.code[1] <= batches
    BY <1>0, <1>2 DEF TfaInv, TfaTypeOK, CodesAreFresh
  <2>2. /\ codes' = [codes EXCEPT ![r.user] = @ \ {r.code}]
        /\ entered' = [entered EXCEPT ![r.code] = @ + 1]
        /\ batches' = batches
    BY <1>2 DEF ConsumeBackupCode
  <2>3. entered'[r.code] = 1 /\ \A k \in BackupCodes \ {r.code} : entered'[k] = entered[k]
    BY <2>1, <2>2 DEF TfaInv, TfaTypeOK
  <2>4. \A u \in TfaUsers : codes'[u] \subseteq codes[u] /\ r.code \notin codes'[u]
    <3>1. \A u \in TfaUsers \ {r.user} : r.code \notin codes[u]
      BY <1>0, <1>2, <2>1 DEF TfaInv, CodesAreFresh
    <3> QED
      BY <1>0, <2>2, <3>1 DEF TfaInv, TfaTypeOK
  <2>5. \A k \in BackupCodes : k[1] \in Nat /\ batches \in Nat
    BY DEF TfaInv, TfaTypeOK, BackupCodes
  <2>6. CodesAreFresh
    BY DEF TfaInv
  <2> QED
    BY <2>1, <2>2, <2>3, <2>4, <2>5, <2>6 DEF CodesAreFresh
<1> QED
  BY <1>1, <1>2

LEMMA CodesStored ==
    ASSUME TfaInv, NEW c \in TfaCalls, StoreBackupCodes(c)
    PROVE  CodesAreFresh'
<1> DEFINE r == steps[c]
<1>0. r.user \in TfaUsers
  BY DEF TfaInv, TfaTypeOK, TfaRequests
<1>1. batches \in Nat /\ batches' = batches + 1 /\ entered' = entered
  BY DEF StoreBackupCodes, TfaInv, TfaTypeOK
<1>2. \A u \in TfaUsers : codes'[u] \subseteq codes[u] \cup (IF u = r.user THEN Batch(batches + 1) ELSE {})
  BY <1>0 DEF StoreBackupCodes, TfaInv, TfaTypeOK
<1>3. \A k \in Batch(batches + 1) : k[1] = batches + 1
  BY DEF Batch
<1>4. CodesAreFresh /\ \A k \in BackupCodes : k[1] \in Nat
  BY DEF TfaInv, BackupCodes
<1>5. SUFFICES ASSUME NEW k \in BackupCodes
               PROVE  /\ entered'[k] \in {0, 1}
                      /\ k[1] > batches' => entered'[k] = 0
                      /\ \A u \in TfaUsers : k \in codes'[u] => entered'[k] = 0 /\ k[1] <= batches'
                      /\ \A u, v \in TfaUsers : k \in codes'[u] /\ k \in codes'[v] => u = v
  BY DEF CodesAreFresh
<1>6. CASE k \in Batch(batches + 1)
  <2>1. entered[k] = 0 /\ \A u \in TfaUsers : k \notin codes[u]
    BY <1>1, <1>3, <1>4, <1>6 DEF CodesAreFresh
  <2> QED
    BY <1>1, <1>2, <1>3, <1>6, <2>1
<1>7. CASE k \notin Batch(batches + 1)
  <2>1. \A u \in TfaUsers : k \in codes'[u] => k \in codes[u]
    BY <1>2, <1>7
  <2> QED
    BY <1>1, <1>4, <2>1 DEF CodesAreFresh
<1> QED
  BY <1>6, <1>7

LEMMA TfaInvNext == TfaInv /\ [TfaNext]_tfaVars => TfaInv'
<1> SUFFICES ASSUME TfaInv, [TfaNext]_tfaVars PROVE CodesAreFresh'
  BY TfaTypeNext DEF TfaInv
<1>0. CodesAreFresh
  BY DEF TfaInv
<1>1. CASE UNCHANGED codeVars
  BY <1>0, <1>1, CodesFewer DEF codeVars
<1>2. ASSUME NEW c \in TfaCalls, DeleteBackupCodes(c) PROVE CodesAreFresh'
  <2>1. \A u \in TfaUsers : codes'[u] \subseteq codes[u]
    BY <1>2 DEF DeleteBackupCodes, TfaInv, TfaTypeOK
  <2> QED
    BY <1>0, <1>2, <2>1, CodesFewer DEF DeleteBackupCodes
<1>3. UNCHANGED tfaVars => UNCHANGED codeVars
  BY DEF tfaVars, codeVars
<1>4. ASSUME NEW c \in TfaCalls, NEW u \in TfaUsers, TfaStarts(c, u) PROVE UNCHANGED codeVars
  BY <1>4 DEF TfaStarts, Complete2FALogin, Confirm, RegenerateBackupCodes, Disable
<1>5. ASSUME NEW c \in TfaCalls, TfaGoesOn(c), ~ConsumeBackupCode(c), ~StoreBackupCodes(c),
             ~DeleteBackupCodes(c)
      PROVE  UNCHANGED codeVars
  BY <1>5 DEF TfaGoesOn, VerifyCode, RegisterFailure, ExpireFailures, LockOut, ResetAndMint, Enable,
     DeleteUnused
<1>6. ASSUME NEW u \in TfaUsers,
             \/ challenge2FAOrMint(u) \/ FailuresExpire(u) \/ LockExpires(u)
             \/ \E s \in Secrets : Enroll(u, s)
      PROVE  UNCHANGED codeVars
  BY <1>6 DEF challenge2FAOrMint, FailuresExpire, LockExpires, Enroll
<1>7. TfaCrash => UNCHANGED codeVars
  BY DEF TfaCrash
<1> QED
  BY <1>1, <1>2, <1>3, <1>4, <1>5, <1>6, <1>7, CodesConsumed, CodesStored DEF TfaNext

LEMMA TwoFactorCorrect == TfaSpec => []TfaInv
<1> QED
  BY TfaInvInit, TfaInvNext, PTL DEF TfaSpec

\* Every variable of the second factor keeps its type.
THEOREM TfaTypeCorrect == TfaSpec => []TfaTypeOK
<1>1. TfaInv => TfaTypeOK
  BY DEF TfaInv
<1> QED
  BY <1>1, TwoFactorCorrect, PTL

\* A backup code lets its user in once, for any number of requests, users and
\* generations of codes (ConsumeBackupCode is one UPDATE of an unused row).
THEOREM BackupCodesWorkOnce == TfaSpec => []BackupCodeOnce
<1>1. TfaInv => BackupCodeOnce
  BY DEF TfaInv, CodesAreFresh, BackupCodeOnce
<1> QED
  BY <1>1, TwoFactorCorrect, PTL

-------------------------------------------------------------------------------
(* TwoFactor: guessing *)

\* The log-ins of a user whose code is not judged yet, those whose code was wrong
\* and is not counted yet, and those that counted so many that they will lock.
Guessing(u) ==
    {c \in TfaCalls : steps[c].user = u /\ steps[c].at \in {"verifyTotp", "consume"}}
Guessed(u) == {c \in TfaCalls : steps[c].user = u /\ steps[c].at = "incr"}
Locking(u) ==
    {c \in TfaCalls : /\ steps[c].user = u /\ steps[c].at \in {"expireFails", "lock"}
                      /\ steps[c].n >= MaxFailures}

\* What faults may have lost track of.
Slack == Cardinality(TfaCalls) * tfaFaults

\* A wrong code is counted, or its request is about to count it; as long as the user
\* is not locked, all but MaxFailures - 1 are in requests that will lock; once the
\* user is locked, only the requests that are past the check can still guess.
GuessOf(u) ==
    /\ guesses[u] <= fails[u] + Cardinality(Guessed(u)) + Slack
    /\ ~locked[u] =>
           guesses[u] <= MaxFailures - 1 + Cardinality(Guessed(u)) + Cardinality(Locking(u)) + Slack
    /\ locked[u] =>
           guesses[u] + Cardinality(Guessing(u)) <= MaxFailures - 1 + Cardinality(TfaCalls) + Slack

GuessInv == \A u \in TfaUsers : GuessOf(u)

\* Every request is in one of the three groups of one user at most.
LEMMA GuessCounts ==
    ASSUME TfaTypeOK, NEW u \in TfaUsers
    PROVE  /\ IsFiniteSet(Guessing(u)) /\ IsFiniteSet(Guessed(u)) /\ IsFiniteSet(Locking(u))
           /\ Cardinality(Guessing(u)) \in Nat /\ Cardinality(Guessed(u)) \in Nat
           /\ Cardinality(Locking(u)) \in Nat /\ Cardinality(TfaCalls) \in Nat
           /\ Cardinality(Guessing(u)) + Cardinality(Guessed(u)) + Cardinality(Locking(u))
                  <= Cardinality(TfaCalls)
           /\ Slack \in Nat /\ guesses[u] \in Nat /\ fails[u] \in Nat /\ locked[u] \in BOOLEAN
<1>1. /\ Guessing(u) \in SUBSET TfaCalls /\ Guessed(u) \in SUBSET TfaCalls
      /\ Locking(u) \in SUBSET TfaCalls
      /\ Guessing(u) \cap Guessed(u) = {} /\ Guessing(u) \cap Locking(u) = {}
      /\ Guessed(u) \cap Locking(u) = {}
  BY DEF Guessing, Guessed, Locking
<1>2. /\ IsFiniteSet(Guessing(u)) /\ IsFiniteSet(Guessed(u)) /\ IsFiniteSet(Locking(u))
      /\ Cardinality(Guessing(u)) \in Nat /\ Cardinality(Guessed(u)) \in Nat
      /\ Cardinality(Locking(u)) \in Nat /\ Cardinality(TfaCalls) \in Nat
      /\ Cardinality(Guessing(u)) + Cardinality(Guessed(u)) + Cardinality(Locking(u))
             <= Cardinality(TfaCalls)
  BY <1>1, TfaCallsAssumption, CountThree
<1>3. tfaFaults \in Nat /\ guesses[u] \in Nat /\ fails[u] \in Nat /\ locked[u] \in BOOLEAN
  BY DEF TfaTypeOK
<1>4. Slack \in Nat
  BY <1>2, <1>3 DEF Slack
<1> QED
  BY <1>2, <1>3, <1>4

\* A fault loses track of every request in flight at most.
LEMMA SlackGrows ==
    ASSUME TfaTypeOK
    PROVE  /\ tfaFaults' = tfaFaults => Slack' = Slack
           /\ tfaFaults' = tfaFaults + 1 => Slack' = Slack + Cardinality(TfaCalls)
<1>1. tfaFaults \in Nat /\ Cardinality(TfaCalls) \in Nat
  BY TfaCallsAssumption, FS_CardinalityType DEF TfaTypeOK
<1> QED
  BY <1>1 DEF Slack

\* Steps that concern other users or no guess.
LEMMA GuessKept ==
    ASSUME TfaTypeOK, TfaTypeOK', NEW u \in TfaUsers, GuessOf(u),
           guesses'[u] = guesses[u], fails'[u] = fails[u], locked'[u] = locked[u],
           tfaFaults' = tfaFaults,
           Guessed(u)' = Guessed(u), Locking(u)' = Locking(u), Guessing(u)' \subseteq Guessing(u)
    PROVE  GuessOf(u)'
<1>1. Cardinality(Guessing(u)') <= Cardinality(Guessing(u)) /\ Cardinality(Guessing(u)') \in Nat
  BY GuessCounts, FS_Subset, FS_CardinalityType
<1>2. Slack' = Slack
  BY SlackGrows
<1>3. Cardinality(Guessing(u)) \in Nat /\ Slack \in Nat /\ guesses[u] \in Nat
      /\ Cardinality(TfaCalls) \in Nat
  BY GuessCounts
<1> QED
  BY <1>1, <1>2, <1>3 DEF GuessOf

\* A fault may lose counts, locks and requests, and let one more request in.
LEMMA GuessFault ==
    ASSUME TfaTypeOK, TfaTypeOK', NEW u \in TfaUsers, GuessOf(u), NEW c \in TfaCalls,
           guesses'[u] = guesses[u], fails'[u] = fails[u], locked'[u] = locked[u],
           tfaFaults' = tfaFaults + 1,
           Cardinality(Guessing(u)') <= Cardinality(Guessing(u)) + 1
    PROVE  GuessOf(u)'
<1>1. Slack' = Slack + Cardinality(TfaCalls)
  BY SlackGrows
<1>2. Cardinality(TfaCalls) # 0
  BY TfaCallsAssumption, FS_EmptySet
<1>3. /\ Cardinality(Guessing(u)) \in Nat /\ Cardinality(Guessed(u)) \in Nat
      /\ Cardinality(Locking(u)) \in Nat /\ Cardinality(TfaCalls) \in Nat
      /\ Cardinality(Guessing(u)) + Cardinality(Guessed(u)) + Cardinality(Locking(u))
             <= Cardinality(TfaCalls)
      /\ Slack \in Nat /\ guesses[u] \in Nat /\ fails[u] \in Nat
  BY GuessCounts
<1>4. /\ IsFiniteSet(Guessing(u)') /\ IsFiniteSet(Guessed(u)') /\ IsFiniteSet(Locking(u)')
  <2>1. /\ Guessing(u)' \in SUBSET TfaCalls /\ Guessed(u)' \in SUBSET TfaCalls
        /\ Locking(u)' \in SUBSET TfaCalls
    BY DEF Guessing, Guessed, Locking
  <2> QED
    BY <2>1, TfaCallsAssumption, FS_Subset
<1>5. /\ Cardinality(Guessing(u)') \in Nat /\ Cardinality(Guessed(u)') \in Nat
      /\ Cardinality(Locking(u)') \in Nat
  BY <1>4, FS_CardinalityType
<1>6. Cardinality(TfaCalls) >= 1
  BY <1>2, <1>3
<1>7. MaxFailures \in Nat
  BY TfaNumbersAssumption
<1>8. guesses[u] <= fails[u] + Cardinality(Guessed(u)) + Slack
  BY DEF GuessOf
<1>9. guesses'[u] <= fails'[u] + Cardinality(Guessed(u)') + Slack'
  BY <1>1, <1>3, <1>5, <1>8
<1>10. ASSUME ~locked'[u]
       PROVE  guesses'[u] <= MaxFailures - 1 + Cardinality(Guessed(u)')
                                + Cardinality(Locking(u)') + Slack'
  <2>1. guesses[u] <= MaxFailures - 1 + Cardinality(Guessed(u)) + Cardinality(Locking(u)) + Slack
    BY <1>10 DEF GuessOf
  <2> QED
    BY <1>1, <1>3, <1>5, <1>7, <2>1
<1>11. ASSUME locked'[u]
       PROVE  guesses'[u] + Cardinality(Guessing(u)')
                  <= MaxFailures - 1 + Cardinality(TfaCalls) + Slack'
  <2>1. guesses[u] + Cardinality(Guessing(u)) <= MaxFailures - 1 + Cardinality(TfaCalls) + Slack
    BY <1>11 DEF GuessOf
  <2> QED
    BY <1>1, <1>3, <1>5, <1>6, <1>7, <2>1
<1> QED
  BY <1>9, <1>10, <1>11 DEF GuessOf

\* When a key goes, guessing starts anew.
LEMMA GuessAnew ==
    ASSUME TfaTypeOK', NEW u \in TfaUsers, guesses'[u] = 0
    PROVE  GuessOf(u)'
<1>1. /\ Guessing(u)' \in SUBSET TfaCalls /\ Guessed(u)' \in SUBSET TfaCalls
      /\ Locking(u)' \in SUBSET TfaCalls
  BY DEF Guessing, Guessed, Locking
<1>2. /\ IsFiniteSet(Guessing(u)') /\ IsFiniteSet(Guessed(u)') /\ IsFiniteSet(Locking(u)')
      /\ Cardinality(Guessing(u)') <= Cardinality(TfaCalls)
  BY <1>1, TfaCallsAssumption, FS_Subset
<1>3. /\ Cardinality(Guessing(u)') \in Nat /\ Cardinality(Guessed(u)') \in Nat
      /\ Cardinality(Locking(u)') \in Nat /\ Cardinality(TfaCalls) \in Nat
  BY <1>2, TfaCallsAssumption, FS_CardinalityType
<1>4. tfaFaults' \in Nat /\ fails'[u] \in Nat
  BY DEF TfaTypeOK
<1>5. Slack' \in Nat
  BY <1>3, <1>4 DEF Slack
<1> QED
  BY <1>2, <1>3, <1>4, <1>5 DEF GuessOf

\* The step of one request changes the groups in that request only.
LEMMA OneRequestMoves ==
    ASSUME TfaTypeOK, TfaTypeOK', NEW c \in TfaCalls,
           \A d \in TfaCalls : d # c => steps'[d] = steps[d],
           NEW u \in TfaUsers
    PROVE  /\ Cardinality(Guessing(u)') + (IF c \in Guessing(u) THEN 1 ELSE 0)
                  = Cardinality(Guessing(u)) + (IF c \in Guessing(u)' THEN 1 ELSE 0)
           /\ Cardinality(Guessed(u)') + (IF c \in Guessed(u) THEN 1 ELSE 0)
                  = Cardinality(Guessed(u)) + (IF c \in Guessed(u)' THEN 1 ELSE 0)
           /\ Cardinality(Locking(u)') + (IF c \in Locking(u) THEN 1 ELSE 0)
                  = Cardinality(Locking(u)) + (IF c \in Locking(u)' THEN 1 ELSE 0)
           /\ Cardinality(Guessing(u)') \in Nat /\ Cardinality(Guessed(u)') \in Nat
           /\ Cardinality(Locking(u)') \in Nat
<1>1. /\ Guessing(u) \ {c} = Guessing(u)' \ {c} /\ Guessed(u) \ {c} = Guessed(u)' \ {c}
      /\ Locking(u) \ {c} = Locking(u)' \ {c}
  BY DEF Guessing, Guessed, Locking
<1>2. /\ Guessing(u)' \in SUBSET TfaCalls /\ Guessed(u)' \in SUBSET TfaCalls
      /\ Locking(u)' \in SUBSET TfaCalls
  BY DEF Guessing, Guessed, Locking
<1>3. /\ IsFiniteSet(Guessing(u)') /\ IsFiniteSet(Guessed(u)') /\ IsFiniteSet(Locking(u)')
      /\ IsFiniteSet(Guessing(u)) /\ IsFiniteSet(Guessed(u)) /\ IsFiniteSet(Locking(u))
  BY <1>2, TfaCallsAssumption, FS_Subset, GuessCounts
<1>4. /\ Cardinality(Guessing(u)') + (IF c \in Guessing(u) THEN 1 ELSE 0)
             = Cardinality(Guessing(u)) + (IF c \in Guessing(u)' THEN 1 ELSE 0)
      /\ Cardinality(Guessing(u)') \in Nat
  BY <1>1, <1>3, CountMoves
<1>5. /\ Cardinality(Guessed(u)') + (IF c \in Guessed(u) THEN 1 ELSE 0)
             = Cardinality(Guessed(u)) + (IF c \in Guessed(u)' THEN 1 ELSE 0)
      /\ Cardinality(Guessed(u)') \in Nat
  BY <1>1, <1>3, CountMoves
<1>6. /\ Cardinality(Locking(u)') + (IF c \in Locking(u) THEN 1 ELSE 0)
             = Cardinality(Locking(u)) + (IF c \in Locking(u)' THEN 1 ELSE 0)
      /\ Cardinality(Locking(u)') \in Nat
  BY <1>1, <1>3, CountMoves
<1> QED
  BY <1>4, <1>5, <1>6

\* What the three forms of a request's step leave and change.
LEMMA StepMoves ==
    ASSUME TfaTypeOK, NEW c \in TfaCalls, NEW s \in TfaSteps, Step(c, s) \/ Judged(c, s)
    PROVE  /\ \A d \in TfaCalls : d # c => steps'[d] = steps[d]
           /\ steps'[c].at = s /\ steps'[c].user = steps[c].user /\ steps'[c].n = steps[c].n
<1>1. steps \in [TfaCalls -> TfaRequests] /\ steps[c] \in TfaRequests
  BY DEF TfaTypeOK
<1>2. CASE Step(c, s)
  <2>1. steps'[c] = [steps[c] EXCEPT !.at = s]
    BY <1>1, <1>2 DEF Step
  <2>2. \A d \in TfaCalls : d # c => steps'[d] = steps[d]
    BY <1>1, <1>2 DEF Step
  <2> QED
    BY <1>1, <2>1, <2>2 DEF TfaRequests
<1>3. CASE Judged(c, s)
  <2>1. steps'[c] = [steps[c] EXCEPT !.at = s, !.code = Wrong]
    BY <1>1, <1>3 DEF Judged
  <2>2. \A d \in TfaCalls : d # c => steps'[d] = steps[d]
    BY <1>1, <1>3 DEF Judged
  <2> QED
    BY <1>1, <2>1, <2>2 DEF TfaRequests
<1> QED
  BY <1>2, <1>3

LEMMA EndMoves ==
    ASSUME TfaTypeOK, NEW c \in TfaCalls, End(c)
    PROVE  /\ \A d \in TfaCalls : d # c => steps'[d] = steps[d]
           /\ steps'[c].at = "idle" /\ steps'[c].user = steps[c].user
<1>1. steps \in [TfaCalls -> TfaRequests]
  BY DEF TfaTypeOK
<1>2. steps'[c] = NoRequest(steps[c].user) /\ \A d \in TfaCalls : d # c => steps'[d] = steps[d]
  BY <1>1 DEF End
<1> QED
  BY <1>2 DEF NoRequest

\* A step that counts nothing, takes no request into one of the groups that count
\* and out of none of them.
LEMMA GuessQuiet ==
    ASSUME TfaTypeOK, TfaTypeOK', NEW c \in TfaCalls,
           \A d \in TfaCalls : d # c => steps'[d] = steps[d],
           NEW u \in TfaUsers, GuessOf(u),
           guesses'[u] = guesses[u], fails'[u] = fails[u], locked'[u] = locked[u],
           tfaFaults' = tfaFaults,
           c \in Guessed(u)' <=> c \in Guessed(u), c \in Locking(u)' <=> c \in Locking(u),
           c \in Guessing(u)' => c \in Guessing(u)
    PROVE  GuessOf(u)'
<1>1. Guessed(u)' = Guessed(u)
  BY DEF Guessed
<1>2. Locking(u)' = Locking(u)
  BY DEF Locking
<1>3. Guessing(u)' \subseteq Guessing(u)
  BY DEF Guessing
<1> QED
  BY <1>1, <1>2, <1>3, GuessKept

\* Another user's request.
LEMMA GuessOthers ==
    ASSUME TfaTypeOK, TfaTypeOK', NEW c \in TfaCalls,
           \A d \in TfaCalls : d # c => steps'[d] = steps[d],
           NEW u \in TfaUsers, GuessOf(u), steps[c].user # u, steps'[c].user # u,
           guesses'[u] = guesses[u], fails'[u] = fails[u], locked'[u] = locked[u],
           tfaFaults' = tfaFaults
    PROVE  GuessOf(u)'
<1>1. /\ c \notin Guessed(u)' /\ c \notin Guessed(u) /\ c \notin Locking(u)'
      /\ c \notin Locking(u) /\ c \notin Guessing(u)'
  BY DEF Guessed, Locking, Guessing
<1> QED
  BY <1>1, GuessQuiet

\* A fault in one request.
LEMMA GuessFaultIn ==
    ASSUME TfaTypeOK, TfaTypeOK', NEW c \in TfaCalls,
           \A d \in TfaCalls : d # c => steps'[d] = steps[d],
           NEW u \in TfaUsers, GuessOf(u),
           guesses'[u] = guesses[u], fails'[u] = fails[u], locked'[u] = locked[u],
           tfaFaults' = tfaFaults + 1
    PROVE  GuessOf(u)'
<1>1. Cardinality(Guessing(u)') <= Cardinality(Guessing(u)) + 1
  BY OneRequestMoves, GuessCounts
<1> QED
  BY <1>1, GuessFault

LEMMA GuessStarts ==
    ASSUME TfaTypeOK, TfaTypeOK', NEW c \in TfaCalls, NEW v \in TfaUsers, TfaStarts(c, v),
           NEW u \in TfaUsers, GuessOf(u)
    PROVE  GuessOf(u)'
<1>1. /\ guesses' = guesses /\ fails' = fails /\ locked' = locked /\ steps[c].at = "idle"
  BY DEF TfaStarts, Complete2FALogin, Confirm, RegenerateBackupCodes, Disable, lockVars, Free
<1>2. ASSUME NEW r, Enter(c, r)
      PROVE  steps'[c] = r /\ \A d \in TfaCalls : d # c => steps'[d] = steps[d]
  BY <1>2 DEF Enter, TfaTypeOK
<1>3. c \notin Guessed(u) /\ c \notin Locking(u) /\ c \notin Guessing(u)
  BY <1>1 DEF Guessed, Locking, Guessing
<1>4. ASSUME NEW k \in Known(v), Complete2FALogin(c, v, k) PROVE GuessOf(u)'
  <2> DEFINE r == [NoRequest(v) EXCEPT !.at = "verifyTotp", !.code = k]
  <2>1. r.at = "verifyTotp" /\ r.user = v
    BY DEF NoRequest
  <2>2. Enter(c, r)
    BY <1>4 DEF Complete2FALogin
  <2> HIDE DEF r
  <2>3. steps'[c] = r /\ \A d \in TfaCalls : d # c => steps'[d] = steps[d]
    BY <1>2, <2>2
  <2>4. CASE tfaFaults' = tfaFaults + 1
    BY <1>1, <2>3, <2>4, GuessFaultIn
  <2>5. CASE ~locked[v] /\ tfaFaults' = tfaFaults
    <3>1. CASE u # v
      <4>1. c \notin Guessed(u)' /\ c \notin Locking(u)' /\ c \notin Guessing(u)'
        BY <2>1, <2>3, <3>1 DEF Guessed, Locking, Guessing
      <4> QED
        BY <1>1, <1>3, <2>3, <2>5, <4>1, GuessQuiet
    <3>2. CASE u = v
      <4>1. c \notin Guessed(u)' /\ c \notin Locking(u)'
        BY <2>1, <2>3 DEF Guessed, Locking
      <4>2. /\ Cardinality(Guessed(u)') = Cardinality(Guessed(u))
            /\ Cardinality(Locking(u)') = Cardinality(Locking(u))
        BY <1>3, <2>3, <4>1, OneRequestMoves, GuessCounts
      <4>3. Slack' = Slack
        BY <2>5, SlackGrows
      <4> QED
        BY <1>1, <2>5, <3>2, <4>2, <4>3 DEF GuessOf
    <3> QED
      BY <3>1, <3>2
  <2> QED
    BY <1>4, <2>4, <2>5 DEF Complete2FALogin, TfaFault
<1>5. ASSUME NEW r, Enter(c, r), r.at \in {"enable", "replace", "dropCodes"}, tfaFaults' = tfaFaults
      PROVE  GuessOf(u)'
  <2>1. steps'[c] = r /\ \A d \in TfaCalls : d # c => steps'[d] = steps[d]
    BY <1>2, <1>5
  <2>2. c \notin Guessed(u)' /\ c \notin Locking(u)' /\ c \notin Guessing(u)'
    BY <1>5, <2>1 DEF Guessed, Locking, Guessing
  <2> QED
    BY <1>1, <1>3, <1>5, <2>1, <2>2, GuessQuiet
<1>6. ASSUME NEW k \in Known(v), NEW login \in BOOLEAN, Confirm(c, v, k, login) PROVE GuessOf(u)'
  <2> DEFINE r == [NoRequest(v) EXCEPT !.at = "enable", !.login = login]
  <2>1. r.at = "enable" /\ Enter(c, r) /\ tfaFaults' = tfaFaults
    BY <1>6 DEF Confirm, NoRequest
  <2> HIDE DEF r
  <2> QED
    BY <1>5, <2>1
<1>7. CASE RegenerateBackupCodes(c, v)
  <2> DEFINE r == [NoRequest(v) EXCEPT !.at = "replace"]
  <2>1. r.at = "replace" /\ Enter(c, r) /\ tfaFaults' = tfaFaults
    BY <1>7 DEF RegenerateBackupCodes, NoRequest
  <2> HIDE DEF r
  <2> QED
    BY <1>5, <2>1
<1>8. CASE Disable(c, v)
  <2> DEFINE r == [NoRequest(v) EXCEPT !.at = "dropCodes"]
  <2>1. r.at = "dropCodes" /\ Enter(c, r) /\ tfaFaults' = tfaFaults
    BY <1>8 DEF Disable, NoRequest
  <2> HIDE DEF r
  <2> QED
    BY <1>5, <2>1
<1> QED
  BY <1>4, <1>6, <1>7, <1>8 DEF TfaStarts

\* The steps of a request that judge no wrong code, count none and touch no lock.
LEMMA GuessQuietSteps ==
    ASSUME TfaTypeOK, TfaTypeOK', NEW c \in TfaCalls, NEW u \in TfaUsers, GuessOf(u),
           \/ VerifyCode(c) \/ ExpireFailures(c) \/ Enable(c) \/ DeleteUnused(c)
           \/ StoreBackupCodes(c) \/ DeleteBackupCodes(c)
           \/ ConsumeBackupCode(c) /\ guesses' = guesses
    PROVE  GuessOf(u)'
<1>1. guesses' = guesses /\ fails' = fails /\ locked' = locked
  BY DEF VerifyCode, ExpireFailures, Enable, DeleteUnused, StoreBackupCodes, DeleteBackupCodes,
     ConsumeBackupCode, lockVars
<1>2. steps[c] \in TfaRequests /\ steps[c].user \in TfaUsers /\ guesses \in [TfaUsers -> Nat]
  BY DEF TfaTypeOK, TfaRequests
<1>3. ASSUME \A d \in TfaCalls : d # c => steps'[d] = steps[d],
             steps'[c].user = steps[c].user, tfaFaults' = tfaFaults,
             steps[c].at \notin {"incr", "expireFails", "lock"},
             steps'[c].at \notin {"incr", "expireFails", "lock"},
             steps'[c].at \in {"verifyTotp", "consume"} => steps[c].at \in {"verifyTotp", "consume"}
      PROVE  GuessOf(u)'
  <2>1. /\ c \notin Guessed(u)' /\ c \notin Guessed(u) /\ c \notin Locking(u)' /\ c \notin Locking(u)
        /\ c \in Guessing(u)' => c \in Guessing(u)
    BY <1>3 DEF Guessed, Locking, Guessing
  <2> QED
    BY <1>1, <1>3, <2>1, GuessQuiet
<1>4. CASE VerifyCode(c)
  <2>1. PICK s \in {"reset", "consume"} : Step(c, s) \/ Judged(c, s)
    BY <1>4 DEF VerifyCode
  <2>2. s \in TfaSteps /\ steps[c].at = "verifyTotp" /\ tfaFaults' = tfaFaults
    BY <1>4 DEF VerifyCode, Stands, TfaSteps
  <2> QED
    BY <1>3, <2>1, <2>2, StepMoves
<1>5. CASE Enable(c)
  <2>1. Step(c, "replace") /\ "replace" \in TfaSteps /\ steps[c].at = "enable" /\ tfaFaults' = tfaFaults
    BY <1>5 DEF Enable, Stands, TfaSteps
  <2> QED
    BY <1>3, <2>1, StepMoves
<1>6. CASE DeleteUnused(c)
  <2> DEFINE r == [steps[c] EXCEPT !.at = "insert", !.doomed = codes[steps[c].user]]
  <2>1. r.at = "insert" /\ r.user = steps[c].user
    BY <1>2 DEF TfaRequests
  <2>2. steps' = [steps EXCEPT ![c] = r] /\ steps[c].at = "replace" /\ tfaFaults' = tfaFaults
    BY <1>6 DEF DeleteUnused, Stands, TfaTypeOK
  <2> HIDE DEF r
  <2>3. steps'[c] = r /\ \A d \in TfaCalls : d # c => steps'[d] = steps[d]
    BY <2>2 DEF TfaTypeOK
  <2> QED
    BY <1>3, <2>1, <2>2, <2>3
<1>7. CASE StoreBackupCodes(c) \/ DeleteBackupCodes(c)
  <2>1. End(c) /\ steps[c].at \in {"insert", "dropCodes"} /\ tfaFaults' = tfaFaults
    BY <1>7 DEF StoreBackupCodes, DeleteBackupCodes, Stands
  <2> QED
    BY <1>3, <2>1, EndMoves
<1>8. CASE ConsumeBackupCode(c) /\ guesses' = guesses
  <2>1. guesses[steps[c].user] + 1 # guesses[steps[c].user]
    BY <1>2
  <2>2. Judged(c, "reset") /\ steps[c].at = "consume" /\ tfaFaults' = tfaFaults
    BY <1>2, <1>8, <2>1 DEF ConsumeBackupCode, Stands
  <2>3. "reset" \in TfaSteps
    BY DEF TfaSteps
  <2> QED
    BY <1>3, <2>2, <2>3, StepMoves
<1>9. CASE ExpireFailures(c)
  <2>1. Step(c, "lock") /\ "lock" \in TfaSteps /\ steps[c].at = "expireFails"
    BY <1>9 DEF ExpireFailures, Stands, TfaSteps
  <2>2. /\ \A d \in TfaCalls : d # c => steps'[d] = steps[d]
        /\ steps'[c].at = "lock" /\ steps'[c].user = steps[c].user /\ steps'[c].n = steps[c].n
    BY <2>1, StepMoves
  <2>3. CASE tfaFaults' = tfaFaults + 1
    BY <1>1, <2>2, <2>3, GuessFaultIn
  <2>4. CASE tfaFaults' = tfaFaults
    <3>1. /\ c \notin Guessed(u)' /\ c \notin Guessed(u) /\ (c \in Locking(u)' <=> c \in Locking(u))
          /\ c \notin Guessing(u)'
      BY <2>1, <2>2 DEF Guessed, Locking, Guessing
    <3> QED
      BY <1>1, <2>2, <2>4, <3>1, GuessQuiet
  <2> QED
    BY <1>9, <2>3, <2>4 DEF ExpireFailures, TfaFault
<1> QED
  BY <1>4, <1>5, <1>6, <1>7, <1>8, <1>9

\* A wrong code is judged: the request is about to count it.
LEMMA GuessJudged ==
    ASSUME TfaTypeOK, TfaTypeOK', NEW c \in TfaCalls, NEW u \in TfaUsers, GuessOf(u),
           ConsumeBackupCode(c), guesses' # guesses
    PROVE  GuessOf(u)'
<1>1. /\ guesses' = [guesses EXCEPT ![steps[c].user] = @ + 1] /\ Judged(c, "incr")
      /\ fails' = fails /\ locked' = locked /\ tfaFaults' = tfaFaults /\ steps[c].at = "consume"
  BY DEF ConsumeBackupCode, Stands
<1>2. "incr" \in TfaSteps
  BY DEF TfaSteps
<1>3. /\ \A d \in TfaCalls : d # c => steps'[d] = steps[d]
      /\ steps'[c].at = "incr" /\ steps'[c].user = steps[c].user
  BY <1>1, <1>2, StepMoves
<1>4. CASE steps[c].user # u
  <2>1. guesses'[u] = guesses[u]
    BY <1>1, <1>4 DEF TfaTypeOK
  <2> QED
    BY <1>1, <1>3, <1>4, <2>1, GuessOthers
<1>5. CASE steps[c].user = u
  <2>1. /\ c \in Guessing(u) /\ c \notin Guessing(u)' /\ c \notin Guessed(u) /\ c \in Guessed(u)'
        /\ c \notin Locking(u) /\ c \notin Locking(u)'
    BY <1>1, <1>3, <1>5 DEF Guessing, Guessed, Locking
  <2>2. /\ Cardinality(Guessing(u)') + 1 = Cardinality(Guessing(u))
        /\ Cardinality(Guessed(u)') = Cardinality(Guessed(u)) + 1
        /\ Cardinality(Locking(u)') = Cardinality(Locking(u))
        /\ Cardinality(Guessing(u)') \in Nat
    BY <1>3, <2>1, OneRequestMoves, GuessCounts
  <2>3. Slack' = Slack
    BY <1>1, SlackGrows
  <2>4. guesses'[u] = guesses[u] + 1 /\ guesses[u] \in Nat /\ fails[u] \in Nat
    BY <1>1, <1>5 DEF TfaTypeOK
  <2>5. /\ Cardinality(Guessed(u)) \in Nat /\ Cardinality(Locking(u)) \in Nat
        /\ Cardinality(TfaCalls) \in Nat /\ Slack \in Nat /\ MaxFailures \in Nat
    BY GuessCounts, TfaNumbersAssumption
  <2> QED
    BY <1>1, <2>2, <2>3, <2>4, <2>5 DEF GuessOf
<1> QED
  BY <1>4, <1>5

\* The wrong code is counted, and the request that counts the last allowed one will lock.
LEMMA GuessRegistered ==
    ASSUME TfaTypeOK, TfaTypeOK', NEW c \in TfaCalls, NEW u \in TfaUsers, GuessOf(u),
           RegisterFailure(c)
    PROVE  GuessOf(u)'
<1> DEFINE v == steps[c].user
           n == fails[v] + 1
           at == IF n = 1 THEN "expireFails" ELSE "lock"
           r == [steps[c] EXCEPT !.n = n, !.at = at]
<1>1. guesses' = guesses /\ locked' = locked /\ steps[c].at = "incr" /\ MaxFailures \in Nat \ {0}
  BY TfaNumbersAssumption DEF RegisterFailure, Stands
<1>2. steps[c] \in TfaRequests /\ v \in TfaUsers /\ fails \in [TfaUsers -> Nat] /\ n \in Nat
  BY DEF TfaTypeOK, TfaRequests
<1>3. CASE End(c) /\ TfaFault /\ UNCHANGED fails
  BY <1>1, <1>3, EndMoves, GuessFaultIn DEF TfaFault
<1>4. CASE fails' = [fails EXCEPT ![v] = n] /\ steps' = [steps EXCEPT ![c] = r] /\ tfaFaults' = tfaFaults
  <2>1. r.at = at /\ r.user = v /\ r.n = n
    BY <1>2 DEF TfaRequests
  <2>2. at \in {"expireFails", "lock"}
    OBVIOUS
  <2> HIDE DEF r, at
  <2>3. steps'[c] = r /\ \A d \in TfaCalls : d # c => steps'[d] = steps[d]
    BY <1>4 DEF TfaTypeOK
  <2>4. CASE v # u
    <3>1. fails'[u] = fails[u]
      BY <1>2, <1>4, <2>4
    <3> HIDE DEF v
    <3>2. steps[c].user # u
      BY <2>4 DEF v
    <3> QED
      BY <1>1, <1>4, <2>1, <2>3, <2>4, <3>1, <3>2, GuessOthers
  <2>5. CASE v = u
    <3>1. /\ c \notin Guessing(u) /\ c \notin Guessing(u)' /\ c \in Guessed(u) /\ c \notin Guessed(u)'
          /\ c \notin Locking(u) /\ (c \in Locking(u)' <=> n >= MaxFailures)
      BY <1>1, <2>1, <2>2, <2>3, <2>5 DEF Guessing, Guessed, Locking
    <3> HIDE DEF n
    <3>2. /\ Cardinality(Guessing(u)') = Cardinality(Guessing(u))
          /\ Cardinality(Guessed(u)') + 1 = Cardinality(Guessed(u))
          /\ n >= MaxFailures => Cardinality(Locking(u)') = Cardinality(Locking(u)) + 1
          /\ ~(n >= MaxFailures) => Cardinality(Locking(u)') = Cardinality(Locking(u))
          /\ Cardinality(Guessed(u)') \in Nat
      BY <2>3, <3>1, OneRequestMoves, GuessCounts
    <3>3. Slack' = Slack
      BY <1>4, SlackGrows
    <3>4. fails'[u] = n
      BY <1>2, <1>4, <2>5
    <3>5. n = fails[u] + 1 /\ guesses[u] \in Nat /\ fails[u] \in Nat
      BY <2>5 DEF n, TfaTypeOK
    <3>6. /\ Cardinality(Guessing(u)) \in Nat /\ Cardinality(Locking(u)) \in Nat
          /\ Cardinality(TfaCalls) \in Nat /\ Slack \in Nat
      BY GuessCounts
    <3>7. guesses[u] <= fails[u] + Cardinality(Guessed(u)) + Slack
      BY DEF GuessOf
    <3>8. guesses'[u] <= fails'[u] + Cardinality(Guessed(u)') + Slack'
      BY <1>1, <3>2, <3>3, <3>4, <3>5, <3>6, <3>7
    <3>9. ASSUME ~locked'[u]
          PROVE  guesses'[u] <= MaxFailures - 1 + Cardinality(Guessed(u)')
                                   + Cardinality(Locking(u)') + Slack'
      <4>1. guesses[u] <= MaxFailures - 1 + Cardinality(Guessed(u)) + Cardinality(Locking(u)) + Slack
        BY <1>1, <3>9 DEF GuessOf
      <4>2. CASE n >= MaxFailures
        BY <1>1, <3>2, <3>3, <3>6, <4>1, <4>2
      <4>3. CASE ~(n >= MaxFailures)
        BY <1>1, <3>2, <3>3, <3>4, <3>5, <3>6, <3>8, <4>3
      <4> QED
        BY <4>2, <4>3
    <3>10. ASSUME locked'[u]
           PROVE  guesses'[u] + Cardinality(Guessing(u)')
                      <= MaxFailures - 1 + Cardinality(TfaCalls) + Slack'
      BY <1>1, <3>2, <3>3, <3>10 DEF GuessOf
    <3> QED
      BY <3>8, <3>9, <3>10 DEF GuessOf
  <2> QED
    BY <2>4, <2>5
<1> QED
  <2>1. CASE End(c) /\ TfaFault /\ UNCHANGED fails
    BY <1>3, <2>1
  <2>2. CASE /\ fails' = [fails EXCEPT ![v] = n]
             /\ steps' = [steps EXCEPT ![c].n = n, ![c].at = at]
             /\ tfaFaults' = tfaFaults
    <3>1. steps' = [steps EXCEPT ![c] = r]
      BY <1>2, <2>2 DEF TfaTypeOK
    <3> QED
      BY <1>4, <2>2, <3>1
  <2> QED
    BY <2>1, <2>2 DEF RegisterFailure

\* The lock is set by the request that counted the last allowed failure, or nothing
\* comes of a count that is not the last.
LEMMA GuessLocked ==
    ASSUME TfaTypeOK, TfaTypeOK', NEW c \in TfaCalls, NEW u \in TfaUsers, GuessOf(u), LockOut(c)
    PROVE  GuessOf(u)'
<1> DEFINE r == steps[c]
<1>1. /\ guesses' = guesses /\ fails' = fails /\ steps[c].at = "lock" /\ End(c)
  BY DEF LockOut, Stands
<1>2. /\ \A d \in TfaCalls : d # c => steps'[d] = steps[d]
      /\ steps'[c].at = "idle" /\ steps'[c].user = steps[c].user
  BY <1>1, EndMoves
<1>3. r.user \in TfaUsers /\ r.n \in Nat /\ locked \in [TfaUsers -> BOOLEAN] /\ MaxFailures \in Nat
  BY TfaNumbersAssumption DEF TfaTypeOK, TfaRequests
<1>4. CASE TfaFault /\ UNCHANGED locked
  BY <1>1, <1>2, <1>4, GuessFaultIn DEF TfaFault
<1>5. CASE tfaFaults' = tfaFaults /\ ~(r.n >= MaxFailures) /\ locked' = locked
  <2>1. /\ c \notin Guessed(u)' /\ c \notin Guessed(u) /\ c \notin Locking(u)' /\ c \notin Locking(u)
        /\ c \notin Guessing(u)'
    BY <1>1, <1>2, <1>5 DEF Guessed, Locking, Guessing
  <2> QED
    BY <1>1, <1>2, <1>5, <2>1, GuessQuiet
<1>6. CASE /\ tfaFaults' = tfaFaults /\ r.n >= MaxFailures
           /\ locked' = [locked EXCEPT ![r.user] = TRUE]
  <2>1. CASE r.user # u
    <3>1. locked'[u] = locked[u]
      BY <1>3, <1>6, <2>1
    <3> QED
      BY <1>1, <1>2, <1>6, <2>1, <3>1, GuessOthers
  <2>2. CASE r.user = u
    <3>1. /\ c \notin Guessed(u)' /\ c \notin Guessed(u) /\ c \notin Locking(u)' /\ c \in Locking(u)
          /\ c \notin Guessing(u)' /\ c \notin Guessing(u)
      BY <1>1, <1>2, <1>6, <2>2 DEF Guessed, Locking, Guessing
    <3>2. /\ Cardinality(Guessing(u)') = Cardinality(Guessing(u))
          /\ Cardinality(Guessed(u)') = Cardinality(Guessed(u))
      BY <1>2, <3>1, OneRequestMoves, GuessCounts
    <3>3. Slack' = Slack
      BY <1>6, SlackGrows
    <3>4. locked'[u] = TRUE
      BY <1>3, <1>6, <2>2
    <3>5. /\ Cardinality(Guessing(u)) \in Nat /\ Cardinality(Guessed(u)) \in Nat
          /\ Cardinality(Locking(u)) \in Nat /\ Cardinality(TfaCalls) \in Nat
          /\ Cardinality(Guessing(u)) + Cardinality(Guessed(u)) + Cardinality(Locking(u))
                 <= Cardinality(TfaCalls)
          /\ Slack \in Nat /\ guesses[u] \in Nat /\ fails[u] \in Nat
      BY GuessCounts
    <3>6. guesses[u] <= fails[u] + Cardinality(Guessed(u)) + Slack
      BY DEF GuessOf
    <3>7. guesses[u] + Cardinality(Guessing(u)) <= MaxFailures - 1 + Cardinality(TfaCalls) + Slack
      <4>1. CASE locked[u]
        BY <4>1 DEF GuessOf
      <4>2. CASE ~locked[u]
        <5>1. guesses[u] <= MaxFailures - 1 + Cardinality(Guessed(u)) + Cardinality(Locking(u)) + Slack
          BY <4>2 DEF GuessOf
        <5> QED
          BY <1>3, <3>5, <5>1
      <4> QED
        BY <4>1, <4>2
    <3>8. guesses'[u] <= fails'[u] + Cardinality(Guessed(u)') + Slack'
      BY <1>1, <3>2, <3>3, <3>6
    <3>9. guesses'[u] + Cardinality(Guessing(u)') <= MaxFailures - 1 + Cardinality(TfaCalls) + Slack'
      BY <1>1, <3>2, <3>3, <3>7
    <3> QED
      BY <3>4, <3>8, <3>9 DEF GuessOf
  <2> QED
    BY <2>1, <2>2
<1> QED
  BY <1>4, <1>5, <1>6 DEF LockOut

\* A right code, like a key that expires, lets the user guess anew.
LEMMA GuessReset ==
    ASSUME TfaTypeOK, TfaTypeOK', NEW c \in TfaCalls, NEW u \in TfaUsers, GuessOf(u), ResetAndMint(c)
    PROVE  GuessOf(u)'
<1> DEFINE v == steps[c].user
<1>1. End(c) /\ v \in TfaUsers
  BY DEF ResetAndMint, TfaTypeOK, TfaRequests
<1>2. /\ \A d \in TfaCalls : d # c => steps'[d] = steps[d]
      /\ steps'[c].at = "idle" /\ steps'[c].user = steps[c].user
  BY <1>1, EndMoves
<1>3. CASE TfaFault /\ UNCHANGED lockVars
  BY <1>2, <1>3, GuessFaultIn DEF TfaFault, lockVars
<1>4. CASE /\ fails' = [fails EXCEPT ![v] = 0] /\ locked' = [locked EXCEPT ![v] = FALSE]
           /\ guesses' = [guesses EXCEPT ![v] = 0] /\ tfaFaults' = tfaFaults
  <2>1. CASE v # u
    <3>1. fails'[u] = fails[u] /\ locked'[u] = locked[u] /\ guesses'[u] = guesses[u]
      BY <1>1, <1>4, <2>1 DEF TfaTypeOK
    <3> QED
      BY <1>2, <1>4, <2>1, <3>1, GuessOthers
  <2>2. CASE v = u
    <3>1. guesses'[u] = 0
      BY <1>1, <1>4, <2>2 DEF TfaTypeOK
    <3> QED
      BY <3>1, GuessAnew
  <2> QED
    BY <2>1, <2>2
<1> QED
  BY <1>3, <1>4 DEF ResetAndMint

LEMMA GuessNext ==
    ASSUME TfaTypeOK, TfaTypeOK', GuessInv, [TfaNext]_tfaVars
    PROVE  GuessInv'
<1> SUFFICES ASSUME NEW u \in TfaUsers PROVE GuessOf(u)'
  BY DEF GuessInv
<1>0. GuessOf(u)
  BY DEF GuessInv
<1>1. ASSUME guesses' = guesses, fails' = fails, locked' = locked, steps' = steps, tfaFaults' = tfaFaults
      PROVE  GuessOf(u)'
  <2>1. Guessed(u)' = Guessed(u) /\ Locking(u)' = Locking(u) /\ Guessing(u)' = Guessing(u)
    BY <1>1 DEF Guessed, Locking, Guessing
  <2> QED
    BY <1>0, <1>1, <2>1, GuessKept
<1>2. CASE UNCHANGED tfaVars
  BY <1>1, <1>2 DEF tfaVars
<1>3. ASSUME NEW v \in TfaUsers, challenge2FAOrMint(v) \/ \E s \in Secrets : Enroll(v, s)
      PROVE  GuessOf(u)'
  BY <1>1, <1>3 DEF challenge2FAOrMint, Enroll, lockVars
<1>4. ASSUME NEW v \in TfaUsers, FailuresExpire(v) \/ LockExpires(v)
      PROVE  GuessOf(u)'
  <2>1. CASE v = u
    <3>1. guesses'[u] = 0
      BY <1>4, <2>1 DEF FailuresExpire, LockExpires, TfaTypeOK
    <3> QED
      BY <3>1, GuessAnew
  <2>2. CASE v # u
    <3>1. guesses'[u] = guesses[u] /\ fails'[u] = fails[u] /\ locked'[u] = locked[u]
      BY <1>4, <2>2 DEF FailuresExpire, LockExpires, TfaTypeOK
    <3>2. steps' = steps /\ tfaFaults' = tfaFaults
      BY <1>4 DEF FailuresExpire, LockExpires
    <3>3. Guessed(u)' = Guessed(u) /\ Locking(u)' = Locking(u) /\ Guessing(u)' = Guessing(u)
      BY <3>2 DEF Guessed, Locking, Guessing
    <3> QED
      BY <1>0, <3>1, <3>2, <3>3, GuessKept
  <2> QED
    BY <2>1, <2>2
<1>5. ASSUME NEW v \in TfaUsers, NEW c \in TfaCalls, TfaStarts(c, v) PROVE GuessOf(u)'
  BY <1>0, <1>5, GuessStarts
<1>6. ASSUME NEW c \in TfaCalls, TfaGoesOn(c) PROVE GuessOf(u)'
  BY <1>0, <1>6, GuessQuietSteps, GuessJudged, GuessRegistered, GuessLocked, GuessReset DEF TfaGoesOn
<1>7. CASE TfaCrash
  <2>1. /\ guesses' = guesses /\ fails' = fails /\ locked' = locked /\ tfaFaults' = tfaFaults + 1
        /\ steps' = [c \in TfaCalls |-> NoRequest(steps[c].user)]
        /\ \E c \in TfaCalls : ~Free(c)
    BY <1>7 DEF TfaCrash, TfaFault, lockVars
  <2>2. Guessing(u)' = {}
    BY <2>1 DEF Guessing, NoRequest
  <2>3. Cardinality(Guessing(u)') <= Cardinality(Guessing(u)) + 1
    BY <2>2, FS_EmptySet, GuessCounts
  <2> QED
    BY <1>0, <2>1, <2>3, GuessFault
<1> QED
  BY <1>2, <1>3, <1>4, <1>5, <1>6, <1>7 DEF TfaNext

LEMMA GuessInit == TfaInit => GuessInv
<1> SUFFICES ASSUME TfaInit, NEW u \in TfaUsers PROVE GuessOf(u)
  BY DEF GuessInv
<1>1. TfaTypeOK /\ guesses[u] = 0 /\ fails[u] = 0 /\ locked[u] = FALSE
  BY TfaTypeInit DEF TfaInit
<1>2. /\ Cardinality(Guessed(u)) \in Nat /\ Cardinality(Locking(u)) \in Nat /\ Slack \in Nat
      /\ MaxFailures \in Nat \ {0}
  BY <1>1, GuessCounts, TfaNumbersAssumption
<1> QED
  BY <1>1, <1>2 DEF GuessOf

\* Between two expiries no more wrong codes are judged than the counter allows and
\* requests in flight can add: the count, the requests that are about to count and
\* those that are about to lock account for every guess.
THEOREM GuessingIsBounded == TfaSpec => []GuessesAreBounded
<1>1. ASSUME TfaTypeOK, GuessInv PROVE GuessesAreBounded
  <2> SUFFICES ASSUME NEW u \in TfaUsers
               PROVE  guesses[u] <= MaxFailures + (Cardinality(TfaCalls) - 1) + Slack
    BY DEF GuessesAreBounded, Slack
  <2>1. GuessOf(u)
    BY <1>1 DEF GuessInv
  <2>2. /\ Cardinality(Guessing(u)) \in Nat /\ Cardinality(Guessed(u)) \in Nat
        /\ Cardinality(Locking(u)) \in Nat /\ Cardinality(TfaCalls) \in Nat
        /\ Cardinality(Guessing(u)) + Cardinality(Guessed(u)) + Cardinality(Locking(u))
               <= Cardinality(TfaCalls)
        /\ Slack \in Nat /\ guesses[u] \in Nat /\ locked[u] \in BOOLEAN
    BY <1>1, GuessCounts
  <2>3. MaxFailures \in Nat
    BY TfaNumbersAssumption
  <2>4. CASE ~locked[u]
    <3>1. guesses[u] <= MaxFailures - 1 + Cardinality(Guessed(u)) + Cardinality(Locking(u)) + Slack
      BY <2>1, <2>4 DEF GuessOf
    <3> QED
      BY <2>2, <2>3, <3>1
  <2>5. CASE locked[u]
    <3>1. guesses[u] + Cardinality(Guessing(u)) <= MaxFailures - 1 + Cardinality(TfaCalls) + Slack
      BY <2>1, <2>5 DEF GuessOf
    <3> QED
      BY <2>2, <2>3, <3>1
  <2> QED
    BY <2>4, <2>5
<1>2. GuessInv /\ TfaTypeOK /\ TfaTypeOK' /\ [TfaNext]_tfaVars => GuessInv'
  BY GuessNext
<1> QED
  BY <1>1, <1>2, GuessInit, TfaTypeCorrect, PTL DEF TfaSpec
===============================================================================
