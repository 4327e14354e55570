--------------------------------- MODULE Shop ---------------------------------
(***************************************************************************)
(* The cart, the stock of SKUs and the half of checkout that turns a cart  *)
(* into an order (what follows is OrderPayment).                           *)
(*                                                                         *)
(*   cart.Service       AddItem, SetItemQty, RemoveItem, BulkRemove, Merge *)
(*   order.Service      Checkout, Cancel                                   *)
(*   product.Service    the SKU editor and the CSV import                  *)
(*                                                                         *)
(* A request is a sequence of SQL statements or transactions, and others   *)
(* run between them.  Addresses, prices and shipping are left out.         *)
(*                                                                         *)
(* A definition whose comment begins with "Mutant" is no part of the model *)
(* (see OrderPayment).                                                     *)
(***************************************************************************)
EXTENDS Integers, FiniteSets

CONSTANTS Customers,
          Wares,         \* SKUs
          ShopCalls,     \* requests that can be in flight at once
          MaxQty,        \* bound on a quantity typed by a customer
          Levels,        \* stock levels the editor types
          Purchases,     \* bound on orders
          MaxAdded,      \* bound on the units put into a cart
          ShopMaxFaults  \* bound on crashes and failed clears

ASSUME CustomersAssumption == Customers # {}
ASSUME MaxQtyAssumption == MaxQty \in Nat \ {0}
ASSUME LevelsAssumption == Levels \subseteq Nat
ASSUME MaxAddedAssumption == MaxAdded \in Nat
ASSUME ShopMaxFaultsAssumption == ShopMaxFaults \in Nat

VARIABLES cart,      \* cart_items: units by customer and SKU, 0 without a row
          listing,   \* whether the row in skus is not there yet, live or gone
          shelf,     \* skus.stock
          base,      \* the last stock level the editor wrote
          taken,     \* units sold and not returned since then
          bought,    \* units in orders, by customer and SKU
          added,     \* units put into the cart, by customer and SKU
          doubled,   \* customers who had two checkouts in flight at once
          purchase,  \* the lines of every order that is not cancelled
          shopping,  \* requests in flight
          shopFaults \* faults so far

shopVars == <<cart, listing, shelf, base, taken, bought, added, doubled,
              purchase, shopping, shopFaults>>
skuVars == <<listing, shelf, base, taken>>
purchaseVars == <<bought, doubled, purchase>>

Lines == [Wares -> Nat]
NoLines == [s \in Wares |-> 0]
LinesOf(q) == {s \in Wares : q[s] > 0}

\* `wish` is what is still to be put into the cart, `lines` what was worked out,
\* `sku` and `stock` what was read last.
Visits == [at : {"idle", "stock", "current", "add", "assign", "merge", "order", "clear"},
           user : Customers, merging : BOOLEAN, wish : Lines, lines : Lines,
           sku : SUBSET Wares, stock : Nat]
VisitOf(u) == [at |-> "idle", user |-> u, merging |-> FALSE, wish |-> NoLines,
               lines |-> NoLines, sku |-> {}, stock |-> 0]
NoVisit == VisitOf(CHOOSE u \in Customers : TRUE)

ShopTypeOK ==
    /\ cart \in [Customers -> Lines]
    /\ listing \in [Wares -> {"none", "live", "gone"}]
    /\ shelf \in [Wares -> Nat]
    /\ base \in [Wares -> Nat]
    /\ taken \in [Wares -> Int]
    /\ bought \in [Customers -> Lines]
    /\ added \in [Customers -> Lines]
    /\ doubled \subseteq Customers
    /\ purchase \in [Purchases -> Lines]
    /\ shopping \in [ShopCalls -> Visits]
    /\ shopFaults \in 0..ShopMaxFaults

ShopInit ==
    /\ cart = [u \in Customers |-> NoLines]
    /\ listing = [s \in Wares |-> "none"]
    /\ shelf = [s \in Wares |-> 0]
    /\ base = [s \in Wares |-> 0]
    /\ taken = [s \in Wares |-> 0]
    /\ bought = [u \in Customers |-> NoLines]
    /\ added = [u \in Customers |-> NoLines]
    /\ doubled = {}
    /\ purchase = [o \in Purchases |-> NoLines]
    /\ shopping = [c \in ShopCalls |-> NoVisit]
    /\ shopFaults = 0

ShopFault == shopFaults < ShopMaxFaults /\ shopFaults' = shopFaults + 1

Waits(c, step) == shopping[c].at = step
Visit(c, r) == shopping' = [shopping EXCEPT ![c] = r]
Leave(c) == Visit(c, NoVisit)

\* `u` puts the lines q into the cart.
PutIn(u, q) ==
    /\ cart' = [cart EXCEPT ![u] = [s \in Wares |-> @[s] + q[s]]]
    /\ added' = [added EXCEPT ![u] = [s \in Wares |-> @[s] + q[s]]]
    /\ \A s \in Wares : added'[u][s] <= MaxAdded

-------------------------------------------------------------------------------
(* The cart *)

StartAddItem(c, u, s, n) ==
    /\ Waits(c, "idle") /\ n >= 1
    /\ Visit(c, [VisitOf(u) EXCEPT !.at = "stock", !.wish = [NoLines EXCEPT ![s] = n]])
    /\ UNCHANGED <<cart, skuVars, added, purchaseVars, shopFaults>>

\* The guest's cart is sent after the log-in.
StartMerge(c, u, q) ==
    /\ Waits(c, "idle") /\ q # NoLines
    /\ Visit(c, [VisitOf(u) EXCEPT !.at = "stock", !.merging = TRUE, !.wish = q])
    /\ UNCHANGED <<cart, skuVars, added, purchaseVars, shopFaults>>

\* A merge goes on with the next item, and with its transaction after the last.
NextItem(c, r) ==
    IF LinesOf(r.wish) # {} THEN Visit(c, [r EXCEPT !.at = "stock", !.stock = 0])
    ELSE IF r.lines # NoLines THEN Visit(c, [VisitOf(r.user) EXCEPT !.at = "merge", !.lines = r.lines])
    ELSE Visit(c, NoVisit)

\* The stock is read.  An unknown SKU ends AddItem and is skipped by Merge.
SKUStock(c) ==
    LET r == shopping[c] IN
    /\ Waits(c, "stock")
    /\ \E s \in LinesOf(r.wish) :
         IF listing[s] = "live"
         THEN Visit(c, [r EXCEPT !.at = "current", !.sku = {s}, !.stock = shelf[s]])
         ELSE IF r.merging
         THEN NextItem(c, [r EXCEPT !.wish[s] = 0])
         ELSE Leave(c)
    /\ UNCHANGED <<cart, skuVars, added, purchaseVars, shopFaults>>

\* Then the quantity in the cart.  Too much is a conflict for AddItem; Merge caps.
currentQty(c) ==
    /\ Waits(c, "current")
    /\ \E s \in shopping[c].sku :
         LET r == [shopping[c] EXCEPT !.wish[s] = 0, !.sku = {}]
             wanted == shopping[c].wish[s]
             room == r.stock - cart[r.user][s]
         IN IF r.merging
            THEN NextItem(c, [r EXCEPT !.lines[s] =
                     IF room <= 0 THEN 0 ELSE IF wanted > room THEN room ELSE wanted])
            ELSE IF wanted > room
            THEN Leave(c)
            ELSE Visit(c, [r EXCEPT !.at = "add", !.lines[s] = wanted, !.stock = 0])
    /\ UNCHANGED <<cart, skuVars, added, purchaseVars, shopFaults>>

\* INSERT ... ON CONFLICT adds to the row; the foreign key refuses a deleted SKU.
AddItem(c) ==
    LET r == shopping[c] IN
    /\ Waits(c, "add") /\ Leave(c)
    /\ IF \A s \in LinesOf(r.lines) : listing[s] = "live"
       THEN PutIn(r.user, r.lines) ELSE UNCHANGED <<cart, added>>
    /\ UNCHANGED <<skuVars, purchaseVars, shopFaults>>

\* All the items in one transaction, or none.
MergeItems(c) ==
    LET r == shopping[c] IN
    /\ Waits(c, "merge") /\ Leave(c)
    /\ IF \A s \in LinesOf(r.lines) : listing[s] = "live"
       THEN PutIn(r.user, r.lines) ELSE UNCHANGED <<cart, added>>
    /\ UNCHANGED <<skuVars, purchaseVars, shopFaults>>

\* The stock is read first; too much is a conflict.
StartSetItemQty(c, u, s, n) ==
    /\ Waits(c, "idle") /\ n >= 1 /\ listing[s] = "live" /\ n <= shelf[s]
    /\ Visit(c, [VisitOf(u) EXCEPT !.at = "assign", !.lines = [NoLines EXCEPT ![s] = n]])
    /\ UNCHANGED <<cart, skuVars, added, purchaseVars, shopFaults>>

\* UPDATE of the row, if there is one.
SetItemQty(c) ==
    LET r == shopping[c]
        more(s) == IF r.lines[s] > cart[r.user][s] THEN r.lines[s] - cart[r.user][s] ELSE 0
    IN
    /\ Waits(c, "assign") /\ Leave(c)
    /\ \E s \in LinesOf(r.lines) :
         IF cart[r.user][s] > 0
         THEN /\ cart' = [cart EXCEPT ![r.user][s] = r.lines[s]]
              /\ added' = [added EXCEPT ![r.user][s] = @ + more(s)]
              /\ added'[r.user][s] <= MaxAdded
         ELSE UNCHANGED <<cart, added>>
    /\ UNCHANGED <<skuVars, purchaseVars, shopFaults>>

\* The customer deletes one line or several.
RemoveItems(u, skus) ==
    /\ \E s \in skus : cart[u][s] > 0
    /\ cart' = [cart EXCEPT ![u] = [s \in Wares |-> IF s \in skus THEN 0 ELSE @[s]]]
    /\ UNCHANGED <<skuVars, added, purchaseVars, shopping, shopFaults>>

-------------------------------------------------------------------------------
(* Checkout *)

\* The lines whose product is published in the locale (see Publishing; any set
\* of them may be); an empty cart ends the request.
GetCart(c, u, shown) ==
    LET q == [s \in Wares |-> IF s \in shown THEN cart[u][s] ELSE 0] IN
    /\ Waits(c, "idle") /\ q # NoLines
    /\ Visit(c, [VisitOf(u) EXCEPT !.at = "order", !.lines = q])
    /\ doubled' = IF \E d \in ShopCalls : shopping[d].at \in {"order", "clear"} /\ shopping[d].user = u
                  THEN doubled \cup {u} ELSE doubled
    /\ UNCHANGED <<cart, skuVars, added, bought, purchase, shopFaults>>

\* Mutant: the transaction does not look at the lines it cannot serve.
CreatePartialOrder(c) ==
    LET r == shopping[c]
        served == [s \in Wares |-> IF shelf[s] >= r.lines[s] THEN r.lines[s] ELSE 0]
    IN
    /\ Waits(c, "order")
    /\ \E o \in Purchases : purchase[o] = NoLines /\ purchase' = [purchase EXCEPT ![o] = r.lines]
    /\ shelf' = [s \in Wares |-> shelf[s] - served[s]]
    /\ taken' = [s \in Wares |-> taken[s] + r.lines[s]]
    /\ bought' = [bought EXCEPT ![r.user] = [s \in Wares |-> @[s] + r.lines[s]]]
    /\ Visit(c, [r EXCEPT !.at = "clear"])
    /\ UNCHANGED <<cart, listing, base, added, doubled, shopFaults>>

\* One transaction: every line decrements the stock, or nothing is ordered.
CreateOrderOfCart(c) ==
    LET r == shopping[c] IN
    /\ Waits(c, "order")
    /\ IF \A s \in LinesOf(r.lines) : listing[s] = "live" /\ shelf[s] >= r.lines[s]
       THEN /\ \E o \in Purchases : purchase[o] = NoLines /\ purchase' = [purchase EXCEPT ![o] = r.lines]
            /\ shelf' = [s \in Wares |-> shelf[s] - r.lines[s]]
            /\ taken' = [s \in Wares |-> taken[s] + r.lines[s]]
            /\ bought' = [bought EXCEPT ![r.user] = [s \in Wares |-> @[s] + r.lines[s]]]
            /\ Visit(c, [r EXCEPT !.at = "clear"])
       ELSE Leave(c) /\ UNCHANGED <<purchase, shelf, taken, bought>>
    /\ UNCHANGED <<cart, listing, base, added, doubled, shopFaults>>

\* Mutant: the ordered lines stay in the cart.
KeepCart(c) ==
    /\ Waits(c, "clear") /\ Leave(c)
    /\ UNCHANGED <<cart, skuVars, added, purchaseVars, shopFaults>>

\* The rows of the ordered SKUs go, whatever they hold by now; an error is logged.
BulkRemove(c) ==
    LET r == shopping[c] IN
    /\ Waits(c, "clear") /\ Leave(c)
    /\ \/ /\ cart' = [cart EXCEPT ![r.user] =
                  [s \in Wares |-> IF s \in LinesOf(r.lines) THEN 0 ELSE @[s]]]
          /\ UNCHANGED shopFaults
       \/ ShopFault /\ UNCHANGED cart
    /\ UNCHANGED <<skuVars, added, purchaseVars>>

\* A cancelled order returns its units, once.
SetCancelled(o) ==
    /\ purchase[o] # NoLines
    /\ purchase' = [purchase EXCEPT ![o] = NoLines]
    /\ shelf' = [s \in Wares |-> shelf[s] + purchase[o][s]]
    /\ taken' = [s \in Wares |-> taken[s] - purchase[o][s]]
    /\ UNCHANGED <<cart, listing, base, bought, added, doubled, shopping, shopFaults>>

-------------------------------------------------------------------------------
(* The product editor *)

\* From the SKU form or a line of the CSV import.
CreateSKU(s, n) ==
    /\ listing[s] = "none"
    /\ listing' = [listing EXCEPT ![s] = "live"]
    /\ shelf' = [shelf EXCEPT ![s] = n]
    /\ base' = [base EXCEPT ![s] = n]
    /\ UNCHANGED <<cart, taken, added, purchaseVars, shopping, shopFaults>>

\* The editor's stock level replaces what orders left, without looking at it.
UpdateSKU(s, n) ==
    /\ listing[s] = "live"
    /\ shelf' = [shelf EXCEPT ![s] = n]
    /\ base' = [base EXCEPT ![s] = n]
    /\ taken' = [taken EXCEPT ![s] = 0]
    /\ UNCHANGED <<cart, listing, added, purchaseVars, shopping, shopFaults>>

\* The lines in carts go with the SKU; an order item keeps it.
DeleteSKU(s) ==
    /\ listing[s] = "live" /\ \A u \in Customers : bought[u][s] = 0
    /\ listing' = [listing EXCEPT ![s] = "gone"]
    /\ cart' = [u \in Customers |-> [cart[u] EXCEPT ![s] = 0]]
    /\ shelf' = [shelf EXCEPT ![s] = 0]
    /\ base' = [base EXCEPT ![s] = 0]
    /\ UNCHANGED <<taken, added, purchaseVars, shopping, shopFaults>>

ShopCrash ==
    /\ \E c \in ShopCalls : ~Waits(c, "idle")
    /\ shopping' = [c \in ShopCalls |-> NoVisit]
    /\ ShopFault
    /\ UNCHANGED <<cart, skuVars, added, purchaseVars>>

-------------------------------------------------------------------------------
ShopStarts(c) ==
    \E u \in Customers :
        \/ \E shown \in SUBSET Wares : GetCart(c, u, shown)
        \/ \E q \in [Wares -> 0..MaxQty] : StartMerge(c, u, q)
        \/ \E s \in Wares, n \in 1..MaxQty : StartAddItem(c, u, s, n) \/ StartSetItemQty(c, u, s, n)
ShopGoesOn(c) ==
    \/ SKUStock(c) \/ currentQty(c) \/ AddItem(c) \/ MergeItems(c) \/ SetItemQty(c)
    \/ CreateOrderOfCart(c) \/ BulkRemove(c)
ShopEdits(s) ==
    \/ DeleteSKU(s)
    \/ \E n \in Levels : CreateSKU(s, n) \/ UpdateSKU(s, n)

ShopNext ==
    \/ \E c \in ShopCalls : ShopStarts(c) \/ ShopGoesOn(c)
    \/ \E u \in Customers, skus \in SUBSET Wares : RemoveItems(u, skus)
    \/ \E o \in Purchases : SetCancelled(o)
    \/ \E s \in Wares : ShopEdits(s)
    \/ ShopCrash

ShopSpec == ShopInit /\ [][ShopNext]_shopVars

-------------------------------------------------------------------------------
(* Properties *)

\* Whatever is ordered, cancelled and edited in whatever order, the stock is what
\* the editor wrote last less the units taken since, and so never negative.
StockAccounted == \A s \in Wares : shelf[s] >= 0 /\ shelf[s] = base[s] - taken[s]

\* Nobody buys more than was put into the cart, unless two checkouts of the same
\* cart overlap or a cart could not be cleared.
BoughtWasAdded ==
    \A u \in Customers, s \in Wares :
        bought[u][s] <= added[u][s] \/ u \in doubled \/ shopFaults > 0
===============================================================================
