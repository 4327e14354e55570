----------------------------- MODULE OrderPayment -----------------------------
(***************************************************************************)
(* An order from the moment checkout commits it to the moment its money is *)
(* settled, at the granularity of the code's database statements, gateway  *)
(* calls and queue operations.  Between two of them any other handler may  *)
(* run, and the process may die.                                           *)
(*                                                                         *)
(*   order.Service      Checkout after CreateOrder, MarkPaid, Ship,        *)
(*                      Complete, Cancel, Refund                           *)
(*   payment.Service    CreateIntent, HandleWebhook, Refund                *)
(*   worker             payment:finalize tasks                             *)
(*   gateway            external: hosted payment page, webhooks, refunds   *)
(*                                                                         *)
(* A gateway intent belongs to one order, so the gateway's and the         *)
(* payments table's state are indexed by order.                            *)
(*                                                                         *)
(* A definition whose comment begins with "Mutant" is no part of the       *)
(* model: it is the operator after it with a bug the code might have had,  *)
(* and shows that a property notices that bug.                             *)
(***************************************************************************)
EXTENDS Naturals, Sequences, FiniteSets, FiniteSetsExt

CONSTANTS Orders, Skus, Baskets, InitStock,
          Events,     \* gateway event ids an intent may emit
          Refunders,  \* operators who may have a refund request in flight
          Mode,       \* cfg.PaymentsMode: "mock" or "live" (sandbox is "live")
          MaxFaults   \* bound on crashes, lost replies and failed enqueues

ASSUME BasketsAssumption == Baskets \subseteq [Skus -> Nat]
ASSUME InitStockAssumption == InitStock \in [Skus -> Nat]
ASSUME ModeAssumption == Mode \in {"mock", "live"}
ASSUME MaxFaultsAssumption == MaxFaults \in Nat
ASSUME EventsAssumption == "intent" \notin Events /\ "mock" \notin Events

VARIABLES status,    \* orders.status, "none" before the row exists
          items,     \* order_items, written once
          stock,     \* skus.stock
          checkout,  \* where the Checkout call that placed the order stands
          intent,    \* the gateway's view of the order's payment intent
          unacked,   \* webhook events the gateway has not seen acknowledged
          payments,  \* rows of the payments table, in id order
          handling,  \* webhook handlers between UpsertWebhook and enqueue
          tasks,     \* payment:finalize tasks, by the event that enqueued them
          sold,      \* how often a `sold` provenance append ran for the order
          checked,   \* how often stock:check was enqueued for the order
          refunds,   \* operator refund requests in flight
          faults     \* faults so far

vars == <<status, items, stock, checkout, intent, unacked, payments, handling,
          tasks, sold, checked, refunds, faults>>

orderVars == <<status, items, stock>>
gatewayVars == <<intent, unacked>>
workerVars == <<tasks, sold, checked>>

Statuses == {"none", "created", "paid", "shipped", "completed",
             "cancelled", "refunded"}
\* Every status an order can only have after MarkPaid moved it.
PaidOnwards == {"paid", "shipped", "completed", "refunded"}
CheckoutSteps == {"none", "placed", "intent", "done", "failed"}
IntentStatuses == {"none", "open", "captured", "returned"}
TaskStatuses == {"none", "queued", "sale", "check", "done", "archived"}
RowStatuses == {"pending", "succeeded", "failed", "refunded"}

\* idempotency_key of a payments row: ref:intent, or ref:<event id>.
RowKeys == Events \cup {"intent"}
\* What enqueued a finalize task: a webhook event, or checkout in mock mode.
TaskKeys == Events \cup {"mock"}
Messages == [order : Orders, event : Events, ok : BOOLEAN]
Rows == [key : RowKeys, status : RowStatuses]
RefundCalls == [by : Refunders, order : Orders, seen : {"paid", "shipped"},
                pc : {"find", "call", "mark", "transition"}, row : Nat]

NoItems == [s \in Skus |-> 0]

TypeOK ==
    /\ status \in [Orders -> Statuses]
    /\ items \in [Orders -> [Skus -> Nat]]
    /\ stock \in [Skus -> Nat]
    /\ checkout \in [Orders -> CheckoutSteps]
    /\ intent \in [Orders -> IntentStatuses]
    /\ unacked \subseteq Messages
    /\ payments \in [Orders -> Seq(Rows)]
    /\ handling \subseteq Messages
    /\ tasks \in [Orders -> [TaskKeys -> TaskStatuses]]
    /\ sold \in [Orders -> Nat]
    /\ checked \in [Orders -> Nat]
    /\ refunds \subseteq RefundCalls
    /\ faults \in 0..MaxFaults

Init ==
    /\ status = [o \in Orders |-> "none"]
    /\ items = [o \in Orders |-> NoItems]
    /\ stock = InitStock
    /\ checkout = [o \in Orders |-> "none"]
    /\ intent = [o \in Orders |-> "none"]
    /\ unacked = {}
    /\ payments = [o \in Orders |-> << >>]
    /\ handling = {}
    /\ tasks = [o \in Orders |-> [k \in TaskKeys |-> "none"]]
    /\ sold = [o \in Orders |-> 0]
    /\ checked = [o \in Orders |-> 0]
    /\ refunds = {}
    /\ faults = 0

Fault == faults < MaxFaults /\ faults' = faults + 1

-------------------------------------------------------------------------------
(* Checkout *)

\* The CreateOrder transaction.  With too little of any SKU it rolls back and
\* leaves nothing behind, so only the successful case is a step.
CreateOrder(o, b) ==
    /\ status[o] = "none"
    /\ \A s \in Skus : stock[s] >= b[s]
    /\ status' = [status EXCEPT ![o] = "created"]
    /\ items' = [items EXCEPT ![o] = b]
    /\ stock' = [s \in Skus |-> stock[s] - b[s]]
    /\ checkout' = [checkout EXCEPT ![o] = "placed"]
    /\ UNCHANGED <<gatewayVars, payments, handling, workerVars, refunds, faults>>

\* Mutant: checkout leaves the enqueue to a webhook that never comes.
MockFinalizeByWebhook(o) ==
    /\ Mode = "mock"
    /\ checkout[o] = "placed"
    /\ checkout' = [checkout EXCEPT ![o] = "done"]
    /\ UNCHANGED <<orderVars, gatewayVars, payments, handling, workerVars,
                   refunds, faults>>

\* Mock mode: checkout itself enqueues the finalize task.  A failed enqueue is
\* logged and the order is returned to the customer all the same.
MockFinalize(o) ==
    /\ Mode = "mock"
    /\ checkout[o] = "placed"
    /\ checkout' = [checkout EXCEPT ![o] = "done"]
    /\ \/ /\ tasks' = [tasks EXCEPT ![o]["mock"] = "queued"]
          /\ UNCHANGED faults
       \/ Fault /\ UNCHANGED tasks
    /\ UNCHANGED <<orderVars, gatewayVars, payments, handling, sold, checked, refunds>>

\* Live mode: the gateway opens an intent, or the call fails and the order is
\* left `created` for the customer to cancel.
CreateIntent(o) ==
    /\ Mode = "live"
    /\ checkout[o] = "placed"
    /\ \/ /\ intent' = [intent EXCEPT ![o] = "open"]
          /\ checkout' = [checkout EXCEPT ![o] = "intent"]
       \/ /\ checkout' = [checkout EXCEPT ![o] = "failed"]
          /\ UNCHANGED intent
    /\ UNCHANGED <<orderVars, unacked, payments, handling, workerVars, refunds, faults>>

\* The pending payments row; the URL of the hosted page is meant to be handed
\* over in Checkout's answer, after it.
RecordIntent(o) ==
    /\ checkout[o] = "intent"
    /\ \/ /\ payments' = [payments EXCEPT ![o] =
                            Append(@, [key |-> "intent", status |-> "pending"])]
          /\ checkout' = [checkout EXCEPT ![o] = "done"]
       \/ /\ checkout' = [checkout EXCEPT ![o] = "failed"]
          /\ UNCHANGED payments
    /\ UNCHANGED <<orderVars, gatewayVars, handling, workerVars, refunds, faults>>

-------------------------------------------------------------------------------
(* The gateway (external) *)

HasRow(o, k) == \E i \in DOMAIN payments[o] : payments[o][i].key = k

\* Event ids are unique: one that was sent is never used for another event.
Unsent(o, e) ==
    /\ \A m \in unacked \cup handling : <<m.order, m.event>> # <<o, e>>
    /\ ~HasRow(o, e)

Emit(o, e, ok) ==
    /\ Unsent(o, e)
    /\ unacked' = unacked \cup {[order |-> o, event |-> e, ok |-> ok]}

\* The customer pays on the hosted page.  The intent is never withdrawn, so
\* this can happen after the order was cancelled.
CustomerPays(o, e) ==
    /\ checkout[o] = "done"
    /\ intent[o] = "open"
    /\ intent' = [intent EXCEPT ![o] = "captured"]
    /\ Emit(o, e, TRUE)
    /\ UNCHANGED <<orderVars, checkout, payments, handling, workerVars, refunds, faults>>

\* A declined attempt on an open intent, or one more success event for a
\* captured one (PayPal sends APPROVED and CAPTURE.COMPLETED).
GatewayNotifies(o, e) ==
    /\ \/ checkout[o] = "done" /\ intent[o] = "open" /\ Emit(o, e, FALSE)
       \/ intent[o] = "captured" /\ Emit(o, e, TRUE)
    /\ UNCHANGED <<orderVars, checkout, intent, payments, handling, workerVars,
                   refunds, faults>>

-------------------------------------------------------------------------------
(* Webhooks.  The gateway redelivers an event until it sees a 200. *)

EventStatus(m) == IF m.ok THEN "succeeded" ELSE "failed"

WithStatus(row, st) == [key |-> row.key, status |-> st]

\* Mutant: only the intent's pending row follows, no row of the event's own.
WithPendingRowOnly(rows, m) ==
    [i \in DOMAIN rows |->
        IF rows[i].status = "pending" THEN WithStatus(rows[i], EventStatus(m))
        ELSE rows[i]]

\* UpsertWebhook on a new key: the event's own row is appended and the pending
\* row of the same intent follows the event.
WithEventRow(rows, m) ==
    Append([i \in DOMAIN rows |->
                IF rows[i].status = "pending"
                THEN WithStatus(rows[i], EventStatus(m))
                ELSE rows[i]],
           [key |-> m.event, status |-> EventStatus(m)])

\* A 200 that may be lost on its way to the gateway.
Acknowledge(m) == unacked' = unacked \ {m} \/ UNCHANGED unacked

\* Mutant: every recorded event is finalized, declined ones too.
UpsertWebhookAnyStatus(m) ==
    /\ m \in unacked
    /\ ~HasRow(m.order, m.event)
    /\ payments' = [payments EXCEPT ![m.order] = WithEventRow(@, m)]
    /\ handling' = handling \cup {m}
    /\ UNCHANGED <<orderVars, checkout, gatewayVars, workerVars, refunds, faults>>

\* Mutant: only an event that moves a pending row is finalized.
UpsertWebhookPendingOnly(m) ==
    /\ m \in unacked
    /\ ~HasRow(m.order, m.event)
    /\ payments' = [payments EXCEPT ![m.order] = WithEventRow(@, m)]
    /\ IF m.ok /\ \E i \in DOMAIN payments[m.order] :
                     payments[m.order][i].status = "pending"
       THEN handling' = handling \cup {m} /\ UNCHANGED unacked
       ELSE Acknowledge(m) /\ UNCHANGED handling
    /\ UNCHANGED <<orderVars, checkout, intent, workerVars, refunds, faults>>

\* HandleWebhook up to the commit of UpsertWebhook, for an event seen first.
UpsertWebhook(m) ==
    /\ m \in unacked
    /\ ~HasRow(m.order, m.event)
    /\ payments' = [payments EXCEPT ![m.order] = WithEventRow(@, m)]
    /\ IF m.ok
       THEN handling' = handling \cup {m} /\ UNCHANGED unacked
       ELSE Acknowledge(m) /\ UNCHANGED handling
    /\ UNCHANGED <<orderVars, checkout, intent, workerVars, refunds, faults>>

\* HandleWebhook for a replayed event: nothing but the 200.
ReplayWebhook(m) ==
    /\ m \in unacked
    /\ HasRow(m.order, m.event)
    /\ unacked' = unacked \ {m}
    /\ UNCHANGED <<orderVars, checkout, intent, payments, handling, workerVars,
                   refunds, faults>>

\* The rest of HandleWebhook.  A failed enqueue is logged and the event is
\* acknowledged like any other.
EnqueueFinalize(m) ==
    /\ m \in handling
    /\ handling' = handling \ {m}
    /\ \/ /\ tasks' = [tasks EXCEPT ![m.order][m.event] = "queued"]
          /\ UNCHANGED faults
       \/ Fault /\ UNCHANGED tasks
    /\ Acknowledge(m)
    /\ UNCHANGED <<orderVars, checkout, intent, payments, sold, checked, refunds>>

-------------------------------------------------------------------------------
(* The worker *)

\* Mutant: a conflict on the compare-and-set goes on to the side effects.
MarkPaidOnConflict(o, k) ==
    /\ tasks[o][k] = "queued"
    /\ status' = IF status[o] = "created" THEN [status EXCEPT ![o] = "paid"]
                 ELSE status
    /\ tasks' = [tasks EXCEPT ![o][k] = "sale"]
    /\ UNCHANGED <<items, stock, checkout, gatewayVars, payments, handling,
                   sold, checked, refunds, faults>>

\* MarkPaid's compare-and-set.  A conflict is taken for a replay and ends the
\* task successfully.
MarkPaid(o, k) ==
    /\ tasks[o][k] = "queued"
    /\ IF status[o] = "created"
       THEN /\ status' = [status EXCEPT ![o] = "paid"]
            /\ tasks' = [tasks EXCEPT ![o][k] = "sale"]
       ELSE /\ tasks' = [tasks EXCEPT ![o][k] = "done"]
            /\ UNCHANGED status
    /\ UNCHANGED <<items, stock, checkout, gatewayVars, payments, handling,
                   sold, checked, refunds, faults>>

\* Best effort: an error is logged and MarkPaid goes on.
RecordSale(o, k) ==
    /\ tasks[o][k] = "sale"
    /\ tasks' = [tasks EXCEPT ![o][k] = "check"]
    /\ \/ sold' = [sold EXCEPT ![o] = @ + 1] /\ UNCHANGED faults
       \/ Fault /\ UNCHANGED sold
    /\ UNCHANGED <<orderVars, checkout, gatewayVars, payments, handling,
                   checked, refunds>>

\* Best effort as well; MarkPaid then returns nil and the task is complete.
EnqueueStockCheck(o, k) ==
    /\ tasks[o][k] = "check"
    /\ tasks' = [tasks EXCEPT ![o][k] = "done"]
    /\ \/ checked' = [checked EXCEPT ![o] = @ + 1] /\ UNCHANGED faults
       \/ Fault /\ UNCHANGED checked
    /\ UNCHANGED <<orderVars, checkout, gatewayVars, payments, handling,
                   sold, refunds>>

\* Database errors on the compare-and-set put the task back until MaxRetry(5)
\* is spent and it is archived.
ExhaustRetries(o, k) ==
    /\ tasks[o][k] = "queued"
    /\ Fault
    /\ tasks' = [tasks EXCEPT ![o][k] = "archived"]
    /\ UNCHANGED <<orderVars, checkout, gatewayVars, payments, handling,
                   sold, checked, refunds>>

-------------------------------------------------------------------------------
(* Customer and operator requests on an order *)

\* Mutant: SetCancelled restores stock without comparing the status.
CancelTwice(o) ==
    /\ status[o] \in {"created", "cancelled"}
    /\ status' = [status EXCEPT ![o] = "cancelled"]
    /\ stock' = [s \in Skus |-> stock[s] + items[o][s]]
    /\ UNCHANGED <<items, checkout, gatewayVars, payments, handling, workerVars,
                   refunds, faults>>

\* Cancel reads the order for its items, which never change, so the
\* SetCancelled transaction alone decides.
Cancel(o) ==
    /\ status[o] = "created"
    /\ status' = [status EXCEPT ![o] = "cancelled"]
    /\ stock' = [s \in Skus |-> stock[s] + items[o][s]]
    /\ UNCHANGED <<items, checkout, gatewayVars, payments, handling, workerVars,
                   refunds, faults>>

Transition(o, from, to) ==
    /\ status[o] = from
    /\ status' = [status EXCEPT ![o] = to]
    /\ UNCHANGED <<items, stock, checkout, gatewayVars, payments, handling,
                   workerVars, refunds, faults>>

Ship(o) == Transition(o, "paid", "shipped")
Complete(o) == Transition(o, "shipped", "completed")

\* order.Service.Refund: the status is read here and used at the very end.
RefundRead(r, o) ==
    /\ \A h \in refunds : h.by # r
    /\ status[o] \in {"paid", "shipped"}
    /\ refunds' = refunds \cup {[by |-> r, order |-> o, seen |-> status[o],
                                 pc |-> "find", row |-> 0]}
    /\ UNCHANGED <<orderVars, checkout, gatewayVars, payments, handling,
                   workerVars, faults>>

Succeeded(o) == {i \in DOMAIN payments[o] : payments[o][i].status = "succeeded"}
Resume(h, pc) == (refunds \ {h}) \cup {[h EXCEPT !.pc = pc]}
Return(h) == refunds \ {h}

\* GetSucceededByOrderID takes the newest row; none is ErrPaymentNotSucceeded.
RefundFind(h) ==
    /\ h \in refunds /\ h.pc = "find"
    /\ refunds' = IF Succeeded(h.order) = {} THEN Return(h)
                  ELSE Return(h) \cup {[h EXCEPT !.pc = "call",
                                                 !.row = Max(Succeeded(h.order))]}
    /\ UNCHANGED <<orderVars, checkout, gatewayVars, payments, handling,
                   workerVars, faults>>

\* Mutant: the gateway's refusal is ignored.
RefundCallUnchecked(h) ==
    /\ h \in refunds /\ h.pc = "call"
    /\ intent' = [intent EXCEPT ![h.order] = "returned"] \/ UNCHANGED intent
    /\ refunds' = Resume(h, "mark")
    /\ UNCHANGED <<orderVars, checkout, unacked, payments, handling, workerVars,
                   faults>>

\* The gateway returns a captured charge once; asked again it either repeats
\* its answer (Airwallex, by request_id) or refuses.  A refusal ends the
\* request, and so does a reply lost after the money went back.
RefundCall(h) ==
    /\ h \in refunds /\ h.pc = "call"
    /\ \/ /\ intent' = [intent EXCEPT ![h.order] = "returned"]
          /\ refunds' = Resume(h, "mark")
          /\ UNCHANGED faults
       \/ /\ intent' = [intent EXCEPT ![h.order] = "returned"]
          /\ refunds' = Return(h)
          /\ Fault
       \/ refunds' = Return(h) /\ UNCHANGED <<intent, faults>>
    /\ UNCHANGED <<orderVars, checkout, unacked, payments, handling, workerVars>>

\* SetRefunded's compare-and-set on the row that was found; a conflict is an
\* error and the order keeps its status.
RefundMark(h) ==
    /\ h \in refunds /\ h.pc = "mark"
    /\ IF payments[h.order][h.row].status = "succeeded"
       THEN /\ payments' = [payments EXCEPT ![h.order][h.row] = WithStatus(@, "refunded")]
            /\ refunds' = Resume(h, "transition")
       ELSE refunds' = Return(h) /\ UNCHANGED payments
    /\ UNCHANGED <<orderVars, checkout, gatewayVars, handling, workerVars, faults>>

\* Mutant: the order is moved without comparing its status.
RefundTransitionBlind(h) ==
    /\ h \in refunds /\ h.pc = "transition"
    /\ status' = [status EXCEPT ![h.order] = "refunded"]
    /\ refunds' = Return(h)
    /\ UNCHANGED <<items, stock, checkout, gatewayVars, payments, handling,
                   workerVars, faults>>

\* The order's compare-and-set from the status read at the beginning.
RefundTransition(h) ==
    /\ h \in refunds /\ h.pc = "transition"
    /\ status' = IF status[h.order] = h.seen
                 THEN [status EXCEPT ![h.order] = "refunded"]
                 ELSE status
    /\ refunds' = Return(h)
    /\ UNCHANGED <<items, stock, checkout, gatewayVars, payments, handling,
                   workerVars, faults>>

-------------------------------------------------------------------------------
(* Crashes *)

\* Every request handler of the serve process is lost.
ServeCrash ==
    /\ Fault
    /\ checkout' = [o \in Orders |-> IF checkout[o] \in {"placed", "intent"}
                                     THEN "failed" ELSE checkout[o]]
    /\ handling' = {}
    /\ refunds' = {}
    /\ UNCHANGED <<orderVars, gatewayVars, payments, workerVars>>

\* Asynq recovers the tasks of a dead worker and runs them from the start.
WorkerCrash ==
    /\ Fault
    /\ tasks' = [o \in Orders |-> [k \in TaskKeys |->
                    IF tasks[o][k] \in {"sale", "check"} THEN "queued"
                    ELSE tasks[o][k]]]
    /\ UNCHANGED <<orderVars, checkout, gatewayVars, payments, handling, sold,
                   checked, refunds>>

-------------------------------------------------------------------------------

CheckoutStep(o) ==
    \/ \E b \in Baskets : CreateOrder(o, b)
    \/ MockFinalize(o)
    \/ CreateIntent(o)
    \/ RecordIntent(o)

GatewayStep(o) == \E e \in Events : CustomerPays(o, e) \/ GatewayNotifies(o, e)

WebhookStep(m) == UpsertWebhook(m) \/ ReplayWebhook(m) \/ EnqueueFinalize(m)

WorkerStep(o, k) ==
    \/ MarkPaid(o, k)
    \/ RecordSale(o, k)
    \/ EnqueueStockCheck(o, k)
    \/ ExhaustRetries(o, k)

RequestStep(o) ==
    \/ Cancel(o)
    \/ Ship(o)
    \/ Complete(o)
    \/ \E r \in Refunders : RefundRead(r, o)

RefundStep(h) ==
    RefundFind(h) \/ RefundCall(h) \/ RefundMark(h) \/ RefundTransition(h)

Next ==
    \/ \E o \in Orders : CheckoutStep(o) \/ GatewayStep(o) \/ RequestStep(o)
    \/ \E o \in Orders, k \in TaskKeys : WorkerStep(o, k)
    \/ \E m \in unacked \cup handling : WebhookStep(m)
    \/ \E h \in refunds : RefundStep(h)
    \/ ServeCrash
    \/ WorkerCrash

Spec == Init /\ [][Next]_vars

\* The gateway redelivers until acknowledged, a handler that runs finishes, and
\* asynq runs what is queued.  Nothing is assumed of customers and operators.
Fairness ==
    /\ \A m \in Messages :
        /\ WF_vars(UpsertWebhook(m) \/ ReplayWebhook(m))
        /\ WF_vars(EnqueueFinalize(m))
    /\ \A o \in Orders, k \in TaskKeys :
        WF_vars(MarkPaid(o, k) \/ RecordSale(o, k) \/ EnqueueStockCheck(o, k))

FairSpec == Spec /\ Fairness

-------------------------------------------------------------------------------
(* Safety *)

\* The units of a SKU that are in orders, each with its order.
HeldBy(o, s) == {o} \X (1..items[o][s])
HeldUnits(s) ==
    UNION {HeldBy(o, s) : o \in {p \in Orders : status[p] \notin {"none", "cancelled"}}}
Held(s) == Cardinality(HeldUnits(s))

\* Whatever races with whatever, the units on the shelf and the units held by
\* orders that were not cancelled add up to the initial stock: nothing is
\* oversold by CreateOrder and SetCancelled gives each unit back exactly once.
StockConserved == \A s \in Skus : stock[s] + Held(s) = InitStock[s]

\* In live mode an order is never moved past `created` unless the gateway has
\* captured its money: no declined event, replay or retried task fulfils it.
PaidIsCaptured ==
    Mode = "live" =>
        \A o \in Orders :
            status[o] \in PaidOnwards => intent[o] \in {"captured", "returned"}

\* A row of payments that reads `succeeded` stands for money the gateway took.
SucceededIsCaptured ==
    \A o \in Orders :
        Succeeded(o) # {} => intent[o] \in {"captured", "returned"}

\* Refund is fail-closed: an order or a payment row reads `refunded` only after
\* the gateway has returned the money.
RefundedIsReturned ==
    \A o \in Orders :
        \/ status[o] = "refunded"
        \/ \E i \in DOMAIN payments[o] : payments[o][i].status = "refunded"
        => intent[o] = "returned"

\* Money is returned only for an order that had been paid: never for one that
\* is still `created` or was cancelled, even when Cancel races with Refund.
ReturnedWasPaid ==
    \A o \in Orders : intent[o] = "returned" => status[o] \in PaidOnwards

\* A captured payment of a paid order can be found by Refund until the money is
\* back: GetSucceededByOrderID never reports ErrPaymentNotSucceeded for it.
PaidIsRefundable ==
    Mode = "live" =>
        \A o \in Orders :
            status[o] \in PaidOnwards /\ intent[o] = "captured"
                => Succeeded(o) # {}

\* TDD section 11, quoted by MarkPaid: replays, several success events, retried
\* tasks and worker crashes together cause each side effect at most once.
SideEffectsAtMostOnce == \A o \in Orders : sold[o] <= 1 /\ checked[o] <= 1

\* The side effects of the transition belong to orders that made it.
SideEffectsOnlyIfPaid ==
    \A o \in Orders : sold[o] + checked[o] > 0 => status[o] \in PaidOnwards

\* The table of payments, the orders and the gateway tell the same story: what is
\* recorded as received or returned was, and only of orders that were paid.
BooksAreTrue == SucceededIsCaptured /\ RefundedIsReturned /\ ReturnedWasPaid

\* Side effects follow payments: at most one of each, and none without.
SideEffectsFollowPayment == SideEffectsAtMostOnce /\ SideEffectsOnlyIfPaid

\* The handlers together do nothing to orders and stock that the indivisible
\* lifecycle does not allow, although Refund acts on a status read long before.
Lifecycle == INSTANCE OrderLifecycle WITH status <- status, items <- items, stock <- stock
ImplementsLifecycle == Lifecycle!Spec

-------------------------------------------------------------------------------
(* Liveness *)

\* Captured money is noticed: the order does not stay `created` (it is paid,
\* unless the customer had cancelled it), as long as nothing crashes.
CaptureIsNoticed ==
    \A o \in Orders :
        intent[o] = "captured" ~> status[o] # "created" \/ faults > 0

\* Mock mode has no gateway, yet without faults checkout's own task settles the
\* order.
MockCheckoutSettles ==
    \A o \in Orders : checkout[o] = "done" ~> status[o] # "created"

-------------------------------------------------------------------------------
(* What the documentation says and the code does not do; each is refuted by  *)
(* a run of its own.                                                         *)

\* MarkPaid reads a conflict as "Already paid (replayed webhook)": a finalize
\* task that completed would leave its order paid.
FinalizedIsPaid ==
    \A o \in Orders, k \in TaskKeys :
        tasks[o][k] = "done" => status[o] \in PaidOnwards

\* payment_handler.go: errors are answered with 500 so that no event is silently
\* lost.  So captured money is noticed even if handlers crash.
EventIsNotLost == \A o \in Orders : intent[o] = "captured" ~> status[o] # "created"
===============================================================================
