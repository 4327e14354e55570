--------------------------- MODULE ItineraryDeposit ---------------------------
(***************************************************************************)
(* A travel request from its submission to its confirmation, with the      *)
(* quote, the deposit and the refund of the deposit, at the granularity of *)
(* database statements and gateway calls.                                  *)
(*                                                                         *)
(*   itinerary.Service  Submit, Open, Close, Cancel, CancelByStaff,        *)
(*                      SendQuote, PayDeposit, MarkDepositPaid, Confirm,   *)
(*                      RefundDeposit                                      *)
(*   payment.Service    CreateQuoteIntent, HandleWebhook, RefundQuote      *)
(*   worker             payment:finalize tasks of deposits                 *)
(*   gateway            external: hosted payment page, webhooks, refunds   *)
(*                                                                         *)
(* A request has one quote, so the quote is indexed by its request; every  *)
(* pay-deposit call opens a gateway intent of its own.  Payments run       *)
(* against a gateway, and webhooks find the quote by the intent's          *)
(* reference.  The webhook machinery with its declined and replayed events *)
(* is the one of OrderPayment, so here an intent has one success event.    *)
(*                                                                         *)
(* "Mutant" definitions are explained in OrderPayment.                     *)
(***************************************************************************)
EXTENDS Naturals, Sequences, FiniteSets, FiniteSetsExt

CONSTANTS Requests,
          Intents,    \* gateway intents a request may have
          Prices,     \* deposits a planner may ask for
          Planners,   \* planners who may have a SendQuote in flight
          Refunders,  \* planners who may have a RefundDeposit in flight
          MaxFaults   \* bound on crashes, database errors and lost replies

ASSUME PricesAssumption == "none" \notin Prices
ASSUME MaxFaultsAssumption == MaxFaults \in Nat

VARIABLES status,    \* itinerary_requests.status, "none" before the row exists
          quote,     \* itinerary_quotes.status, "none" before the row exists
          price,     \* itinerary_quotes.deposit_minor
          quoting,   \* SendQuote calls in flight
          intent,    \* per request and intent: the PayDeposit call that opens
                     \* it, then the gateway's view of it
          asked,     \* the amount the intent was opened with
          payments,  \* the quote's rows of the payments table, in id order
          tasks,     \* payment:finalize task of each intent
          refunds,   \* RefundDeposit calls in flight
          faults     \* faults so far

requestVars == <<status, quote, price>>
gatewayVars == <<intent, asked>>
vars == <<status, quote, price, quoting, intent, asked, payments, tasks,
          refunds, faults>>

Statuses == {"none", "pending", "processing", "quoted", "deposit_paid",
             "confirmed", "cancelled", "closed"}
\* "paid" is deposit_paid or fully_paid, which no condition tells apart.
QuoteStatuses == {"none", "sent", "paid", "cancelled"}
Amounts == Prices \cup {"none"}
IntentStates == {"none", "checked", "opened", "payable", "captured", "returned"}
TaskStatuses == {"none", "queued", "request", "done", "archived"}
Rows == [intent : Intents, key : {"intent", "event"},
         status : {"pending", "succeeded", "refunded"}]
QuoteCalls == [by : Planners, request : Requests, price : Prices,
               seen : {"processing", "quoted"}, pc : {"create", "transition"}]
RefundCalls == [by : Refunders, request : Requests, row : Nat,
                pc : {"find", "call", "mark", "cancel", "transition"}]

TypeOK ==
    /\ status \in [Requests -> Statuses]
    /\ quote \in [Requests -> QuoteStatuses]
    /\ price \in [Requests -> Amounts]
    /\ quoting \subseteq QuoteCalls
    /\ intent \in [Requests -> [Intents -> IntentStates]]
    /\ asked \in [Requests -> [Intents -> Amounts]]
    /\ payments \in [Requests -> Seq(Rows)]
    /\ tasks \in [Requests -> [Intents -> TaskStatuses]]
    /\ refunds \subseteq RefundCalls
    /\ faults \in 0..MaxFaults

Init ==
    /\ status = [r \in Requests |-> "none"]
    /\ quote = [r \in Requests |-> "none"]
    /\ price = [r \in Requests |-> "none"]
    /\ quoting = {}
    /\ intent = [r \in Requests |-> [i \in Intents |-> "none"]]
    /\ asked = [r \in Requests |-> [i \in Intents |-> "none"]]
    /\ payments = [r \in Requests |-> << >>]
    /\ tasks = [r \in Requests |-> [i \in Intents |-> "none"]]
    /\ refunds = {}
    /\ faults = 0

Fault == faults < MaxFaults /\ faults' = faults + 1

-------------------------------------------------------------------------------
(* The request pipeline: one compare-and-set each *)

Transition(r, from, to) ==
    /\ status[r] = from
    /\ status' = [status EXCEPT ![r] = to]
    /\ UNCHANGED <<quote, price, quoting, gatewayVars, payments, tasks, refunds, faults>>

Submit(r) == Transition(r, "none", "pending")
Open(r) == Transition(r, "pending", "processing")
Cancel(r) == Transition(r, "pending", "cancelled")
CancelByStaff(r) == \E from \in {"pending", "processing"} : Transition(r, from, "cancelled")
Confirm(r) == Transition(r, "deposit_paid", "confirmed")

\* Two compare-and-sets, from pending and, that failing, from processing: no
\* request goes back to pending, so they act like one.
Close(r) == \E from \in {"pending", "processing"} : Transition(r, from, "closed")

-------------------------------------------------------------------------------
(* SendQuote *)

\* Mutant: the request is moved before its quote is written.
SendQuoteMovesFirst(p, r, x) ==
    /\ \A c \in quoting : c.by # p
    /\ status[r] \in {"processing", "quoted"}
    /\ quoting' = quoting \cup {[by |-> p, request |-> r, price |-> x,
                                 seen |-> "quoted", pc |-> "create"]}
    /\ status' = [status EXCEPT ![r] = "quoted"]
    /\ UNCHANGED <<quote, price, gatewayVars, payments, tasks, refunds, faults>>

\* The request's status is read here and used after the quote was written.
SendQuoteRead(p, r, x) ==
    /\ \A c \in quoting : c.by # p
    /\ status[r] \in {"processing", "quoted"}
    /\ quoting' = quoting \cup {[by |-> p, request |-> r, price |-> x,
                                 seen |-> status[r], pc |-> "create"]}
    /\ UNCHANGED <<requestVars, gatewayVars, payments, tasks, refunds, faults>>

\* CreateQuote inserts the request's quote or replaces it whatever its status.
\* A re-quote is then complete: only the first quote moves the request.
CreateQuote(c) ==
    /\ c \in quoting /\ c.pc = "create"
    /\ quote' = [quote EXCEPT ![c.request] = "sent"]
    /\ price' = [price EXCEPT ![c.request] = c.price]
    /\ quoting' = (quoting \ {c}) \cup
                    (IF c.seen = "processing" THEN {[c EXCEPT !.pc = "transition"]} ELSE {})
    /\ UNCHANGED <<status, gatewayVars, payments, tasks, refunds, faults>>

\* Mutant: the request is moved without comparing its status.
QuoteTransitionBlind(c) ==
    /\ c \in quoting /\ c.pc = "transition"
    /\ status' = [status EXCEPT ![c.request] = "quoted"]
    /\ quoting' = quoting \ {c}
    /\ UNCHANGED <<quote, price, gatewayVars, payments, tasks, refunds, faults>>

\* processing -> quoted; on a conflict the planner gets an error and the quote
\* stays as it was written.
QuoteTransition(c) ==
    /\ c \in quoting /\ c.pc = "transition"
    /\ status' = IF status[c.request] = "processing"
                 THEN [status EXCEPT ![c.request] = "quoted"] ELSE status
    /\ quoting' = quoting \ {c}
    /\ UNCHANGED <<quote, price, gatewayVars, payments, tasks, refunds, faults>>

-------------------------------------------------------------------------------
(* PayDeposit *)

\* The request has to be quoted ...
PayDepositCheck(r, i) ==
    /\ intent[r][i] = "none"
    /\ status[r] = "quoted"
    /\ intent' = [intent EXCEPT ![r][i] = "checked"]
    /\ UNCHANGED <<requestVars, quoting, asked, payments, tasks, refunds, faults>>

\* ... and its quote `sent`, or the call ends in an error.  The gateway opens an
\* intent over the deposit read with the quote; a failed call leaves nothing.
PayDepositOpen(r, i) ==
    /\ intent[r][i] = "checked"
    /\ \/ /\ quote[r] = "sent"
          /\ intent' = [intent EXCEPT ![r][i] = "opened"]
          /\ asked' = [asked EXCEPT ![r][i] = price[r]]
       \/ /\ intent' = [intent EXCEPT ![r][i] = "none"]
          /\ UNCHANGED asked
    /\ UNCHANGED <<requestVars, quoting, payments, tasks, refunds, faults>>

\* The pending row.  Only after it does the customer get the hosted page's URL;
\* if it fails nobody can pay the intent.
RecordIntent(r, i) ==
    /\ intent[r][i] = "opened"
    /\ \/ /\ payments' = [payments EXCEPT ![r] =
                Append(@, [intent |-> i, key |-> "intent", status |-> "pending"])]
          /\ intent' = [intent EXCEPT ![r][i] = "payable"]
          /\ UNCHANGED asked
       \/ /\ intent' = [intent EXCEPT ![r][i] = "none"]
          /\ asked' = [asked EXCEPT ![r][i] = "none"]
          /\ UNCHANGED payments
    /\ UNCHANGED <<requestVars, quoting, tasks, refunds, faults>>

\* External: the customer pays, whatever became of the quote meanwhile.
CustomerPays(r, i) ==
    /\ intent[r][i] = "payable"
    /\ intent' = [intent EXCEPT ![r][i] = "captured"]
    /\ UNCHANGED <<requestVars, quoting, asked, payments, tasks, refunds, faults>>

-------------------------------------------------------------------------------
(* The deposit webhook *)

HasEvent(r, i) == \E n \in DOMAIN payments[r] :
                    payments[r][n].intent = i /\ payments[r][n].key = "event"

\* The pending row of the intent becomes `succeeded`.
MarkSucceeded(rows, i) ==
    [n \in DOMAIN rows |->
        IF rows[n].intent = i /\ rows[n].status = "pending"
        THEN [rows[n] EXCEPT !.status = "succeeded"] ELSE rows[n]]

\* Mutant: any event about an intent is taken for its success.
WebhookOfAnyEvent(r, i) ==
    /\ intent[r][i] \in {"payable", "captured", "returned"}
    /\ ~HasEvent(r, i)
    /\ payments' = [payments EXCEPT ![r] =
            Append(MarkSucceeded(@, i),
                   [intent |-> i, key |-> "event", status |-> "succeeded"])]
    /\ \/ tasks' = [tasks EXCEPT ![r][i] = "queued"] /\ UNCHANGED faults
       \/ Fault /\ UNCHANGED tasks
    /\ UNCHANGED <<requestVars, quoting, gatewayVars, refunds>>

\* HandleWebhook of the success event: the event's own row, the intent's row,
\* the finalize task.  A handler that dies before the enqueue, or whose enqueue
\* fails, leaves the rows and no task; a redelivery changes nothing.
Webhook(r, i) ==
    /\ intent[r][i] \in {"captured", "returned"}
    /\ ~HasEvent(r, i)
    /\ payments' = [payments EXCEPT ![r] =
            Append(MarkSucceeded(@, i),
                   [intent |-> i, key |-> "event", status |-> "succeeded"])]
    /\ \/ tasks' = [tasks EXCEPT ![r][i] = "queued"] /\ UNCHANGED faults
       \/ Fault /\ UNCHANGED tasks
    /\ UNCHANGED <<requestVars, quoting, gatewayVars, refunds>>

-------------------------------------------------------------------------------
(* The worker: MarkSucceededByGatewayRef, then MarkDepositPaid *)

\* The quote's compare-and-set; losing it ends the task.
FinalizeQuote(r, i) ==
    /\ tasks[r][i] = "queued"
    /\ payments' = [payments EXCEPT ![r] = MarkSucceeded(@, i)]
    /\ IF quote[r] = "sent"
       THEN /\ quote' = [quote EXCEPT ![r] = "paid"]
            /\ tasks' = [tasks EXCEPT ![r][i] = "request"]
       ELSE /\ tasks' = [tasks EXCEPT ![r][i] = "done"]
            /\ UNCHANGED quote
    /\ UNCHANGED <<status, price, quoting, gatewayVars, refunds, faults>>

\* Mutant: the request is expected in the status before the quote.
FinalizeRequestFromProcessing(r, i) ==
    /\ tasks[r][i] = "request"
    /\ tasks' = [tasks EXCEPT ![r][i] = "done"]
    /\ status' = IF status[r] = "processing"
                 THEN [status EXCEPT ![r] = "deposit_paid"] ELSE status
    /\ UNCHANGED <<quote, price, quoting, gatewayVars, payments, refunds, faults>>

\* The request's compare-and-set; any error is logged and the task is done.
FinalizeRequest(r, i) ==
    /\ tasks[r][i] = "request"
    /\ tasks' = [tasks EXCEPT ![r][i] = "done"]
    /\ \/ /\ status' = IF status[r] = "quoted"
                       THEN [status EXCEPT ![r] = "deposit_paid"] ELSE status
          /\ UNCHANGED faults
       \/ Fault /\ UNCHANGED status
    /\ UNCHANGED <<quote, price, quoting, gatewayVars, payments, refunds>>

\* Database errors put the task back until MaxRetry(5) is spent.
ExhaustRetries(r, i) ==
    /\ tasks[r][i] = "queued"
    /\ Fault
    /\ tasks' = [tasks EXCEPT ![r][i] = "archived"]
    /\ UNCHANGED <<requestVars, quoting, gatewayVars, payments, refunds>>

-------------------------------------------------------------------------------
(* RefundDeposit *)

RefundRead(p, r) ==
    /\ \A h \in refunds : h.by # p
    /\ quote[r] = "paid"
    /\ refunds' = refunds \cup {[by |-> p, request |-> r, row |-> 0, pc |-> "find"]}
    /\ UNCHANGED <<requestVars, quoting, gatewayVars, payments, tasks, faults>>

Succeeded(r) == {n \in DOMAIN payments[r] : payments[r][n].status = "succeeded"}
Resume(h, pc) == (refunds \ {h}) \cup {[h EXCEPT !.pc = pc]}
Return(h) == refunds \ {h}

\* GetSucceededByItineraryQuoteID takes the newest row; none is an error.
RefundFind(h) ==
    /\ h \in refunds /\ h.pc = "find"
    /\ refunds' = IF Succeeded(h.request) = {} THEN Return(h)
                  ELSE Return(h) \cup {[h EXCEPT !.pc = "call",
                                                 !.row = Max(Succeeded(h.request))]}
    /\ UNCHANGED <<requestVars, quoting, gatewayVars, payments, tasks, faults>>

\* Mutant: the gateway's refusal is ignored.
RefundCallUnchecked(h) ==
    LET i == payments[h.request][h.row].intent IN
    /\ h \in refunds /\ h.pc = "call"
    /\ intent' = [intent EXCEPT ![h.request][i] = "returned"] \/ UNCHANGED intent
    /\ refunds' = Resume(h, "mark")
    /\ UNCHANGED <<requestVars, quoting, asked, payments, tasks, faults>>

\* As in OrderPayment: the gateway returns a charge once, then it repeats its
\* answer or refuses; a lost reply is a fault.
RefundCall(h) ==
    LET i == payments[h.request][h.row].intent IN
    /\ h \in refunds /\ h.pc = "call"
    /\ \/ /\ intent' = [intent EXCEPT ![h.request][i] = "returned"]
          /\ refunds' = Resume(h, "mark")
          /\ UNCHANGED faults
       \/ /\ intent' = [intent EXCEPT ![h.request][i] = "returned"]
          /\ refunds' = Return(h)
          /\ Fault
       \/ refunds' = Return(h) /\ UNCHANGED <<intent, faults>>
    /\ UNCHANGED <<requestVars, quoting, asked, payments, tasks>>

\* SetRefunded on the row that was found; a conflict is an error.
RefundMark(h) ==
    /\ h \in refunds /\ h.pc = "mark"
    /\ IF payments[h.request][h.row].status = "succeeded"
       THEN /\ payments' = [payments EXCEPT ![h.request][h.row].status = "refunded"]
            /\ refunds' = Resume(h, "cancel")
       ELSE refunds' = Return(h) /\ UNCHANGED payments
    /\ UNCHANGED <<requestVars, quoting, gatewayVars, tasks, faults>>

\* CancelQuote accepts a quote that is `sent` again; cancelled is a conflict.
CancelQuote(h) ==
    /\ h \in refunds /\ h.pc = "cancel"
    /\ IF quote[h.request] \in {"sent", "paid"}
       THEN /\ quote' = [quote EXCEPT ![h.request] = "cancelled"]
            /\ refunds' = Resume(h, "transition")
       ELSE refunds' = Return(h) /\ UNCHANGED quote
    /\ UNCHANGED <<status, price, quoting, gatewayVars, payments, tasks, faults>>

\* deposit_paid -> cancelled; a conflict is logged.
RefundTransition(h) ==
    /\ h \in refunds /\ h.pc = "transition"
    /\ status' = IF status[h.request] = "deposit_paid"
                 THEN [status EXCEPT ![h.request] = "cancelled"] ELSE status
    /\ refunds' = Return(h)
    /\ UNCHANGED <<quote, price, quoting, gatewayVars, payments, tasks, faults>>

-------------------------------------------------------------------------------
(* Crashes *)

\* Every request handler is lost; an intent without a row cannot be paid.
ServeCrash ==
    /\ Fault
    /\ quoting' = {} /\ refunds' = {}
    /\ intent' = [r \in Requests |-> [i \in Intents |->
                    IF intent[r][i] \in {"checked", "opened"} THEN "none"
                    ELSE intent[r][i]]]
    /\ asked' = [r \in Requests |-> [i \in Intents |->
                    IF intent[r][i] = "opened" THEN "none" ELSE asked[r][i]]]
    /\ UNCHANGED <<requestVars, payments, tasks>>

\* A dead worker's tasks are run again from the start.
WorkerCrash ==
    /\ Fault
    /\ tasks' = [r \in Requests |-> [i \in Intents |->
                    IF tasks[r][i] = "request" THEN "queued" ELSE tasks[r][i]]]
    /\ UNCHANGED <<requestVars, quoting, gatewayVars, payments, refunds>>

-------------------------------------------------------------------------------

PipelineStep(r) ==
    \/ Submit(r) \/ Open(r) \/ Cancel(r) \/ CancelByStaff(r) \/ Confirm(r) \/ Close(r)

QuoteStep(c) == CreateQuote(c) \/ QuoteTransition(c)

DepositStep(r, i) ==
    \/ PayDepositCheck(r, i) \/ PayDepositOpen(r, i) \/ RecordIntent(r, i)
    \/ CustomerPays(r, i)
    \/ Webhook(r, i)
    \/ FinalizeQuote(r, i) \/ FinalizeRequest(r, i) \/ ExhaustRetries(r, i)

RefundStep(h) ==
    \/ RefundFind(h) \/ RefundCall(h) \/ RefundMark(h)
    \/ CancelQuote(h) \/ RefundTransition(h)

Next ==
    \/ \E r \in Requests :
        \/ PipelineStep(r)
        \/ \E p \in Planners, x \in Prices : SendQuoteRead(p, r, x)
        \/ \E i \in Intents : DepositStep(r, i)
        \/ \E p \in Refunders : RefundRead(p, r)
    \/ \E c \in quoting : QuoteStep(c)
    \/ \E h \in refunds : RefundStep(h)
    \/ ServeCrash
    \/ WorkerCrash

Spec == Init /\ [][Next]_vars

\* The gateway delivers its events and asynq runs what is queued.  Nothing is
\* assumed of customers and planners.
Fairness ==
    \A r \in Requests, i \in Intents :
        /\ WF_vars(Webhook(r, i))
        /\ WF_vars(FinalizeQuote(r, i) \/ FinalizeRequest(r, i))

FairSpec == Spec /\ Fairness

-------------------------------------------------------------------------------
(* Safety *)

Taken(r, i) == intent[r][i] \in {"captured", "returned"}

\* A quote that counts as paid rests on money the gateway took for this request,
\* whatever was re-quoted, retried or refunded around the payment.
PaidQuoteIsTaken == \A r \in Requests : quote[r] = "paid" => \E i \in Intents : Taken(r, i)

\* RefundDeposit is fail-closed: the quote is cancelled and a payment row reads
\* refunded only after the gateway gave back a payment of this request.
CancelledQuoteIsReturned ==
    \A r \in Requests :
        \/ quote[r] = "cancelled"
        \/ \E n \in DOMAIN payments[r] : payments[r][n].status = "refunded"
        => \E i \in Intents : intent[r][i] = "returned"

\* A request that reached `quoted` has a quote to show and to pay, although the
\* two are written one after the other and the handler may die in between.
QuotedHasQuote ==
    \A r \in Requests :
        status[r] \in {"quoted", "deposit_paid", "confirmed"} => quote[r] # "none"

\* A deposit that is paid can be refunded: while the quote is paid and no money
\* went back, RefundDeposit finds a succeeded payment.
PaidQuoteIsRefundable ==
    \A r \in Requests :
        quote[r] = "paid" /\ (\A i \in Intents : intent[r][i] # "returned")
            => Succeeded(r) # {}

\* A paid quote has money behind it and a payment that can be refunded.
PaidQuoteIsBacked == PaidQuoteIsTaken /\ PaidQuoteIsRefundable

\* The request and its money follow the indivisible lifecycle: booked only on
\* money taken, unbooked only on money returned, charged only once quoted.
funds ==
    [r \in Requests |->
        IF \E i \in Intents : intent[r][i] = "returned" THEN "returned"
        ELSE IF \E i \in Intents : intent[r][i] = "captured" THEN "taken"
        ELSE "unpaid"]
Lifecycle == INSTANCE ItineraryLifecycle WITH status <- status, funds <- funds
ImplementsLifecycle == Lifecycle!Spec

-------------------------------------------------------------------------------
(* Liveness *)

\* A deposit the gateway took does not leave the request waiting in `quoted`,
\* even when planners re-quote while the webhook is on its way, as long as
\* nothing crashes.
DepositIsNoticed ==
    \A r \in Requests, i \in Intents :
        intent[r][i] = "captured" ~> status[r] # "quoted" \/ faults > 0

-------------------------------------------------------------------------------
(* What comments and documents say and the code does not do *)

\* PRD 3.3.2: a cancellation in time refunds all amounts paid.
RefundReturnsAll ==
    refunds = {} =>
        \A r \in Requests :
            status[r] = "cancelled" => \A i \in Intents : intent[r][i] # "captured"
===============================================================================
