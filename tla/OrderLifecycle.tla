---------------------------- MODULE OrderLifecycle ----------------------------
(***************************************************************************)
(* What the order module promises, without any of the machinery that keeps *)
(* the promise: an order is placed, paid, shipped, completed, cancelled or *)
(* refunded in one indivisible step, stock is taken when it is placed and  *)
(* given back only when it is cancelled.                                   *)
(*                                                                         *)
(* The edges are those of the compare-and-set statements of                *)
(* order_repository.go (CreateOrder, TransitionStatus, SetShipped,         *)
(* SetCancelled) and of the lifecycle comment of models/order.go.          *)
(***************************************************************************)
EXTENDS Naturals

CONSTANTS Orders,    \* order ids
          Skus,      \* stock-keeping units
          Baskets,   \* the [Skus -> Nat] an order may ask for
          InitStock  \* in [Skus -> Nat], units before the first order

VARIABLES status,  \* [Orders -> Statuses], "none" before the row exists
          items,   \* [Orders -> Baskets], the order's immutable snapshot
          stock    \* [Skus -> Nat], the stock column of skus

lifecycleVars == <<status, items, stock>>

Statuses == {"none", "created", "paid", "shipped", "completed",
             "cancelled", "refunded"}

NoItems == [s \in Skus |-> 0]

Init ==
    /\ status = [o \in Orders |-> "none"]
    /\ items = [o \in Orders |-> NoItems]
    /\ stock = InitStock

Place(o, b) ==
    /\ status[o] = "none"
    /\ \A s \in Skus : stock[s] >= b[s]
    /\ status' = [status EXCEPT ![o] = "created"]
    /\ items' = [items EXCEPT ![o] = b]
    /\ stock' = [s \in Skus |-> stock[s] - b[s]]

Move(o, from, to) ==
    /\ status[o] = from
    /\ status' = [status EXCEPT ![o] = to]
    /\ UNCHANGED <<items, stock>>

Pay(o) == Move(o, "created", "paid")
Ship(o) == Move(o, "paid", "shipped")
Complete(o) == Move(o, "shipped", "completed")
Refund(o) == \E from \in {"paid", "shipped"} : Move(o, from, "refunded")

Cancel(o) ==
    /\ status[o] = "created"
    /\ status' = [status EXCEPT ![o] = "cancelled"]
    /\ stock' = [s \in Skus |-> stock[s] + items[o][s]]
    /\ UNCHANGED items

Next ==
    \E o \in Orders :
        \/ \E b \in Baskets : Place(o, b)
        \/ Pay(o)
        \/ Ship(o)
        \/ Complete(o)
        \/ Refund(o)
        \/ Cancel(o)

Spec == Init /\ [][Next]_lifecycleVars
===============================================================================
