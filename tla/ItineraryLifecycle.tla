-------------------------- MODULE ItineraryLifecycle --------------------------
(***************************************************************************)
(* What the itinerary module promises of a request and its deposit: the    *)
(* request moves along the planner's pipeline in indivisible steps, it is  *)
(* booked only on money that was taken, money is taken only for a request  *)
(* that was quoted, and a booked request is cancelled only after the money *)
(* went back.                                                              *)
(*                                                                         *)
(* The edges are those of the compare-and-set statements of                *)
(* itinerary_repository.go.                                                *)
(***************************************************************************)
CONSTANT Requests

VARIABLES status,  \* [Requests -> Statuses], "none" before the row exists
          funds    \* [Requests -> {"unpaid", "taken", "returned"}]

lifecycleVars == <<status, funds>>

Statuses == {"none", "pending", "processing", "quoted", "deposit_paid",
             "confirmed", "cancelled", "closed"}

Init ==
    /\ status = [r \in Requests |-> "none"]
    /\ funds = [r \in Requests |-> "unpaid"]

Move(r, from, to) ==
    /\ status[r] = from
    /\ status' = [status EXCEPT ![r] = to]
    /\ UNCHANGED funds

Submit(r) == Move(r, "none", "pending")
Open(r) == Move(r, "pending", "processing")
Quote(r) == Move(r, "processing", "quoted")
Book(r) == funds[r] # "unpaid" /\ Move(r, "quoted", "deposit_paid")
Confirm(r) == Move(r, "deposit_paid", "confirmed")
Drop(r) == \E from \in {"pending", "processing"}, to \in {"cancelled", "closed"} :
             Move(r, from, to)
Unbook(r) == funds[r] = "returned" /\ Move(r, "deposit_paid", "cancelled")

\* Whatever became of a request that was once quoted.
Offered == {"quoted", "deposit_paid", "confirmed", "cancelled"}

Fund(r, from, to) ==
    /\ status[r] \in Offered
    /\ funds[r] = from
    /\ funds' = [funds EXCEPT ![r] = to]
    /\ UNCHANGED status

Take(r) == Fund(r, "unpaid", "taken")
GiveBack(r) == Fund(r, "taken", "returned")

Next ==
    \E r \in Requests :
        \/ Submit(r) \/ Open(r) \/ Quote(r) \/ Book(r) \/ Confirm(r)
        \/ Drop(r) \/ Unbook(r) \/ Take(r) \/ GiveBack(r)

Spec == Init /\ [][Next]_lifecycleVars
===============================================================================
