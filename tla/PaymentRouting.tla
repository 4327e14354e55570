---------------------------- MODULE PaymentRouting -----------------------------
(***************************************************************************)
(* How the one webhook endpoint tells payments of orders from deposits on  *)
(* itinerary quotes.  OrderPayment and ItineraryDeposit follow one kind    *)
(* each, and take for granted that an event reaches its owner; here both   *)
(* kinds and both gateways meet, and the rest is one step per handler.     *)
(*                                                                         *)
(*   Airwallex  returns the number it was given as merchant_order_id, be   *)
(*              it an order's or a quote's                                 *)
(*   PayPal     returns its own reference, of which the adapter reads the  *)
(*              leading digits as an order's number; 0 without any         *)
(*                                                                         *)
(* Orders and quotes are numbered by their own tables from 1, so the same  *)
(* numbers name both.  Only events of success are modelled: no other is    *)
(* routed.                                                                 *)
(*                                                                         *)
(* A definition whose comment begins with "Mutant" is no part of the model *)
(* (see OrderPayment).                                                     *)
(***************************************************************************)
EXTENDS Naturals

CONSTANTS Numbers,  \* ids of orders, and of quotes
          Refs      \* references of the gateways

ASSUME NumbersAssumption == Numbers \subseteq Nat \ {0}

VARIABLES orderRow,   \* orders.status, as far as the routing matters
          quoteRow,   \* itinerary_quotes.status, likewise
          charge,     \* the intents of the gateways
          newest,     \* owner of the newest row of payments with the reference
          told,       \* references whose event was recorded and acknowledged
          finalizing  \* payment:finalize tasks

routeVars == <<orderRow, quoteRow, charge, newest, told, finalizing>>

Owners == [kind : {"order", "quote"}, nr : Numbers]
NoOwner == [kind |-> "none", nr |-> 0]
\* `carries` is the order's number that events of the intent hold, 0 without one.
Charges == [state : {"none", "open", "captured"}, owner : Owners \cup {NoOwner},
            carries : Numbers \cup {0}]
NoCharge == [state |-> "none", owner |-> NoOwner, carries |-> 0]

RouteTypeOK ==
    /\ orderRow \in [Numbers -> {"none", "created", "paid"}]
    /\ quoteRow \in [Numbers -> {"none", "sent", "deposit_paid"}]
    /\ charge \in [Refs -> Charges]
    /\ newest \in [Refs -> Owners \cup {NoOwner}]
    /\ told \subseteq Refs
    /\ finalizing \subseteq [owner : Owners, ref : Refs]

RouteInit ==
    /\ orderRow = [n \in Numbers |-> "none"]
    /\ quoteRow = [n \in Numbers |-> "none"]
    /\ charge = [r \in Refs |-> NoCharge]
    /\ newest = [r \in Refs |-> NoOwner]
    /\ told = {}
    /\ finalizing = {}

-------------------------------------------------------------------------------
PlaceOrder(n) ==
    /\ orderRow[n] = "none"
    /\ orderRow' = [orderRow EXCEPT ![n] = "created"]
    /\ UNCHANGED <<quoteRow, charge, newest, told, finalizing>>

PlaceQuote(n) ==
    /\ quoteRow[n] = "none"
    /\ quoteRow' = [quoteRow EXCEPT ![n] = "sent"]
    /\ UNCHANGED <<orderRow, charge, newest, told, finalizing>>

\* What the events of an intent will carry as the order's number.
CarriedBy(gateway, owner) ==
    IF gateway = "airwallex" THEN {owner.nr} ELSE Numbers \cup {0}

\* CreateIntent for an order, once, and CreateQuoteIntent, as often as the customer
\* asks: the intent at the gateway and the pending row of its owner.
OpenIntent(r, gateway, owner) ==
    /\ charge[r] = NoCharge
    /\ IF owner.kind = "order"
       THEN orderRow[owner.nr] = "created" /\ \A q \in Refs : charge[q].owner # owner
       ELSE quoteRow[owner.nr] = "sent"
    /\ \E n \in CarriedBy(gateway, owner) :
         charge' = [charge EXCEPT ![r] = [state |-> "open", owner |-> owner, carries |-> n]]
    /\ newest' = [newest EXCEPT ![r] = owner]
    /\ UNCHANGED <<orderRow, quoteRow, told, finalizing>>

Capture(r) ==
    /\ charge[r].state = "open"
    /\ charge' = [charge EXCEPT ![r].state = "captured"]
    /\ UNCHANGED <<orderRow, quoteRow, newest, told, finalizing>>

\* Mutant: the payment found by the reference is taken for an order's.
ResolveAsOrder(r) ==
    [kind |-> "order", nr |-> IF charge[r].carries # 0 THEN charge[r].carries ELSE newest[r].nr]

\* A number in the event is an order's.  Without one the newest payment with the
\* reference tells the owner.
Resolve(r) ==
    IF charge[r].carries # 0 THEN [kind |-> "order", nr |-> charge[r].carries] ELSE newest[r]

\* The event's row is inserted under the owner, and the task enqueued.  The foreign
\* key refuses an order that does not exist; the gateway delivers again.
HandleWebhook(r) ==
    LET owner == Resolve(r) IN
    /\ charge[r].state = "captured" /\ r \notin told
    /\ owner.kind = "order" => orderRow[owner.nr] # "none"
    /\ newest' = [newest EXCEPT ![r] = owner]
    /\ told' = told \cup {r}
    /\ finalizing' = finalizing \cup {[owner |-> owner, ref |-> r]}
    /\ UNCHANGED <<orderRow, quoteRow, charge>>

\* MarkPaid or MarkDepositPaid; whoever was paid before is left alone.
PaymentFinalize(t) ==
    LET n == t.owner.nr IN
    /\ t \in finalizing /\ finalizing' = finalizing \ {t}
    /\ IF t.owner.kind = "order"
       THEN /\ orderRow' = IF orderRow[n] = "created" THEN [orderRow EXCEPT ![n] = "paid"] ELSE orderRow
            /\ UNCHANGED quoteRow
       ELSE /\ quoteRow' = IF quoteRow[n] = "sent" THEN [quoteRow EXCEPT ![n] = "deposit_paid"] ELSE quoteRow
            /\ UNCHANGED orderRow
    /\ UNCHANGED <<charge, newest, told>>

-------------------------------------------------------------------------------
RouteNext ==
    \/ \E n \in Numbers : PlaceOrder(n) \/ PlaceQuote(n)
    \/ \E r \in Refs, o \in Owners, gateway \in {"airwallex", "paypal"} : OpenIntent(r, gateway, o)
    \/ \E r \in Refs : Capture(r) \/ HandleWebhook(r)
    \/ \E t \in finalizing : PaymentFinalize(t)

\* Gateways deliver until they are answered, and workers run what is queued.
RouteFairness ==
    /\ \A r \in Refs : WF_routeVars(HandleWebhook(r))
    /\ \A o \in Owners, r \in Refs : WF_routeVars(PaymentFinalize([owner |-> o, ref |-> r]))

RouteSpec == RouteInit /\ [][RouteNext]_routeVars /\ RouteFairness

-------------------------------------------------------------------------------
(* Properties *)

\* What an intent's events carry does not lead astray.
Clear(r) ==
    charge[r].carries = 0 \/ charge[r].owner = [kind |-> "order", nr |-> charge[r].carries]

Settled(owner) ==
    IF owner.kind = "order" THEN orderRow[owner.nr] = "paid" ELSE quoteRow[owner.nr] = "deposit_paid"

\* An order is paid, or a deposit, because the gateway took money for it, or for
\* something else in an event that carries the order's number.
PaidByEvent ==
    /\ \A n \in Numbers : orderRow[n] = "paid" =>
         \E r \in told : /\ charge[r].state = "captured"
                         /\ \/ charge[r].owner = [kind |-> "order", nr |-> n]
                            \/ ~Clear(r) /\ charge[r].carries = n
    /\ \A n \in Numbers : quoteRow[n] = "deposit_paid" =>
         \E r \in told : /\ charge[r].state = "captured" /\ Clear(r)
                         /\ charge[r].owner = [kind |-> "quote", nr |-> n]

\* Money that was taken under a reference that does not lead astray settles what it
\* was taken for.
ClearIsSettled ==
    \A r \in Refs :
        (charge[r].state = "captured" /\ Clear(r))
          ~> (charge[r].state = "captured" /\ Settled(charge[r].owner))

\* "The payment service re-derives the order id from the payments row": an order is
\* paid only by money taken for it.
PaidForItself ==
    \A n \in Numbers : orderRow[n] = "paid" =>
        \E r \in Refs : charge[r].state = "captured" /\ charge[r].owner = [kind |-> "order", nr |-> n]
===============================================================================
