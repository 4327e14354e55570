-------------------------- MODULE OrderPaymentProofs --------------------------
(***************************************************************************)
(* Theorems about OrderPayment, for all sets of orders, SKUs, events and   *)
(* refund requests, every basket and every number of faults.               *)
(*                                                                         *)
(* The safety theorems rest on frame lemmas, which say, variable by        *)
(* variable, what a step may do to it; the conjuncts of the inductive      *)
(* invariants then follow from the frames, without looking at the actions  *)
(* again.                                                                  *)
(***************************************************************************)
EXTENDS OrderPayment, DataLemmas, SequenceTheorems, TLAPS

-------------------------------------------------------------------------------
(* Lemmas on rows *)

LEMMA WithStatusType ==
    ASSUME NEW row \in Rows, NEW st \in RowStatuses
    PROVE  WithStatus(row, st) \in Rows
  BY DEF Rows, WithStatus

\* Appending an event row keeps the table well typed.
LEMMA WithEventRowType ==
    ASSUME NEW rows \in Seq(Rows), NEW m \in Messages
    PROVE  WithEventRow(rows, m) \in Seq(Rows)
<1> DEFINE followed == [i \in DOMAIN rows |->
                          IF rows[i].status = "pending"
                          THEN WithStatus(rows[i], EventStatus(m))
                          ELSE rows[i]]
           row == [key |-> m.event, status |-> EventStatus(m)]
<1>1. EventStatus(m) \in RowStatuses
  BY DEF EventStatus, RowStatuses
<1>2. followed \in Seq(Rows)
  <2>1. \A i \in DOMAIN rows : rows[i] \in Rows
    BY ElementOfSeq
  <2>2. followed \in [1..Len(rows) -> Rows] /\ Len(rows) \in Nat
    BY <1>1, <2>1, WithStatusType
  <2> QED
    BY <2>2, SeqDef
<1>3. row \in Rows
  BY <1>1 DEF Rows, RowKeys, Messages
<1> QED
  BY <1>2, <1>3, AppendProperties DEF WithEventRow

\* Overwriting a row's status keeps the table well typed.
LEMMA MarkRowType ==
    ASSUME NEW rows \in Seq(Rows), NEW i \in Nat, NEW st \in RowStatuses
    PROVE  [rows EXCEPT ![i] = WithStatus(@, st)] \in Seq(Rows)
<1>1. CASE i \in DOMAIN rows
  <2>1. WithStatus(rows[i], st) \in Rows
    BY <1>1, ElementOfSeq, WithStatusType
  <2> QED
    BY <1>1, <2>1, ExceptSeq
<1>2. CASE i \notin DOMAIN rows
  <2>1. [rows EXCEPT ![i] = WithStatus(@, st)] = rows
    BY <1>2
  <2> QED
    BY <2>1
<1> QED
  BY <1>1, <1>2

-------------------------------------------------------------------------------
(* Type correctness *)

LEMMA TypeInit == Init => TypeOK
  BY InitStockAssumption, MaxFaultsAssumption, EmptySeq
  DEF Init, TypeOK, NoItems, Statuses, CheckoutSteps, IntentStatuses, TaskStatuses

\* Moving one task on keeps the queue well typed.
LEMMA SetTaskType ==
    ASSUME TypeOK, NEW o \in Orders, NEW k \in TaskKeys, NEW st \in TaskStatuses
    PROVE  [tasks EXCEPT ![o][k] = st] \in [Orders -> [TaskKeys -> TaskStatuses]]
  BY DEF TypeOK

LEMMA FaultType == TypeOK /\ Fault => faults' \in 0..MaxFaults
  BY MaxFaultsAssumption DEF TypeOK, Fault

LEMMA TypeCheckout ==
    ASSUME TypeOK, NEW o \in Orders, CheckoutStep(o)
    PROVE  TypeOK'
<1>1. ASSUME NEW b \in Baskets, CreateOrder(o, b) PROVE TypeOK'
  <2>1. b \in [Skus -> Nat]
    BY BasketsAssumption
  <2>2. stock' \in [Skus -> Nat]
    BY <1>1, <2>1 DEF CreateOrder, TypeOK
  <2> QED
    BY <1>1, <2>1, <2>2 DEF CreateOrder, TypeOK, Statuses, CheckoutSteps, gatewayVars, workerVars
<1>2. MockFinalize(o) => TypeOK'
  <2>1. [tasks EXCEPT ![o]["mock"] = "queued"] \in [Orders -> [TaskKeys -> TaskStatuses]]
    BY SetTaskType DEF TaskKeys, TaskStatuses
  <2> QED
    BY <2>1, FaultType DEF MockFinalize, TypeOK, CheckoutSteps, gatewayVars, orderVars
<1>3. CreateIntent(o) => TypeOK'
  BY DEF CreateIntent, TypeOK, CheckoutSteps, IntentStatuses, orderVars, workerVars
<1>4. RecordIntent(o) => TypeOK'
  <2>1. [key |-> "intent", status |-> "pending"] \in Rows
    BY DEF Rows, RowKeys, RowStatuses
  <2>2. Append(payments[o], [key |-> "intent", status |-> "pending"]) \in Seq(Rows)
    BY <2>1, AppendProperties DEF TypeOK
  <2>3. RecordIntent(o) => payments' \in [Orders -> Seq(Rows)]
    BY <2>2 DEF RecordIntent, TypeOK
  <2> QED
    BY <2>3 DEF RecordIntent, TypeOK, CheckoutSteps, orderVars, gatewayVars, workerVars
<1> QED
  BY <1>1, <1>2, <1>3, <1>4 DEF CheckoutStep

LEMMA TypeGateway ==
    ASSUME TypeOK, NEW o \in Orders, GatewayStep(o)
    PROVE  TypeOK'
<1>1. PICK e \in Events : CustomerPays(o, e) \/ GatewayNotifies(o, e)
  BY DEF GatewayStep
<1>2. \A ok \in BOOLEAN : [order |-> o, event |-> e, ok |-> ok] \in Messages
  BY DEF Messages
<1>3. CASE CustomerPays(o, e)
  BY <1>2, <1>3 DEF CustomerPays, Emit, TypeOK, IntentStatuses, orderVars, workerVars
<1>4. CASE GatewayNotifies(o, e)
  BY <1>2, <1>4 DEF GatewayNotifies, Emit, TypeOK, orderVars, workerVars
<1> QED
  BY <1>1, <1>3, <1>4

LEMMA TypeWebhook ==
    ASSUME TypeOK, NEW m \in Messages, WebhookStep(m)
    PROVE  TypeOK'
<1>1. UpsertWebhook(m) => TypeOK'
  <2> SUFFICES ASSUME UpsertWebhook(m) PROVE TypeOK'
    OBVIOUS
  <2>1. m.order \in Orders /\ payments[m.order] \in Seq(Rows)
    BY DEF TypeOK, Messages
  <2>2. payments' \in [Orders -> Seq(Rows)]
    BY <2>1, WithEventRowType DEF UpsertWebhook, TypeOK
  <2>3. unacked' \subseteq Messages /\ handling' \subseteq Messages
    BY DEF UpsertWebhook, Acknowledge, TypeOK
  <2> QED
    BY <2>2, <2>3 DEF UpsertWebhook, TypeOK, orderVars, workerVars
<1>2. ReplayWebhook(m) => TypeOK'
  BY DEF ReplayWebhook, TypeOK, orderVars, workerVars
<1>3. EnqueueFinalize(m) => TypeOK'
  <2>1. m.order \in Orders /\ m.event \in TaskKeys
    BY DEF Messages, TaskKeys
  <2>2. [tasks EXCEPT ![m.order][m.event] = "queued"] \in [Orders -> [TaskKeys -> TaskStatuses]]
    BY <2>1, SetTaskType DEF TaskStatuses
  <2> QED
    BY <2>2, FaultType DEF EnqueueFinalize, Acknowledge, TypeOK, orderVars
<1> QED
  BY <1>1, <1>2, <1>3 DEF WebhookStep

LEMMA TypeWorker ==
    ASSUME TypeOK, NEW o \in Orders, NEW k \in TaskKeys, WorkerStep(o, k)
    PROVE  TypeOK'
<1>1. \A st \in TaskStatuses :
        [tasks EXCEPT ![o][k] = st] \in [Orders -> [TaskKeys -> TaskStatuses]]
  BY SetTaskType
<1>2. MarkPaid(o, k) => TypeOK'
  BY <1>1 DEF MarkPaid, TypeOK, TaskStatuses, Statuses, gatewayVars
<1>3. RecordSale(o, k) => TypeOK'
  <2> SUFFICES ASSUME RecordSale(o, k) PROVE TypeOK'
    OBVIOUS
  <2>1. tasks' \in [Orders -> [TaskKeys -> TaskStatuses]]
    BY <1>1 DEF RecordSale, TaskStatuses
  <2>2. sold' \in [Orders -> Nat]
    BY DEF RecordSale, TypeOK
  <2>3. Fault \/ UNCHANGED faults
    BY DEF RecordSale
  <2>4. faults' \in 0..MaxFaults
    BY <2>3, FaultType DEF TypeOK
  <2> QED
    BY <2>1, <2>2, <2>4 DEF RecordSale, TypeOK, gatewayVars, orderVars
<1>4. EnqueueStockCheck(o, k) => TypeOK'
  <2> SUFFICES ASSUME EnqueueStockCheck(o, k) PROVE TypeOK'
    OBVIOUS
  <2>1. tasks' \in [Orders -> [TaskKeys -> TaskStatuses]]
    BY <1>1 DEF EnqueueStockCheck, TaskStatuses
  <2>2. checked' \in [Orders -> Nat]
    BY DEF EnqueueStockCheck, TypeOK
  <2>3. Fault \/ UNCHANGED faults
    BY DEF EnqueueStockCheck
  <2>4. faults' \in 0..MaxFaults
    BY <2>3, FaultType DEF TypeOK
  <2> QED
    BY <2>1, <2>2, <2>4 DEF EnqueueStockCheck, TypeOK, gatewayVars, orderVars
<1>5. ExhaustRetries(o, k) => TypeOK'
  BY <1>1, FaultType DEF ExhaustRetries, TypeOK, TaskStatuses, gatewayVars, orderVars
<1> QED
  BY <1>2, <1>3, <1>4, <1>5 DEF WorkerStep

LEMMA TypeRequest ==
    ASSUME TypeOK, NEW o \in Orders, RequestStep(o)
    PROVE  TypeOK'
<1>1. Cancel(o) => TypeOK'
  BY DEF Cancel, TypeOK, Statuses, gatewayVars, workerVars
<1>2. Ship(o) \/ Complete(o) => TypeOK'
  BY DEF Ship, Complete, Transition, TypeOK, Statuses, gatewayVars, workerVars
<1>3. ASSUME NEW r \in Refunders, RefundRead(r, o) PROVE TypeOK'
  BY <1>3 DEF RefundRead, TypeOK, RefundCalls, gatewayVars, workerVars, orderVars
<1> QED
  BY <1>1, <1>2, <1>3 DEF RequestStep

\* Any step of a request in flight, however it changes, stays well typed.
LEMMA ResumeType ==
    ASSUME TypeOK, NEW h \in refunds,
           NEW pc \in {"find", "call", "mark", "transition"}
    PROVE  Resume(h, pc) \subseteq RefundCalls /\ Return(h) \subseteq RefundCalls
  BY DEF Resume, Return, TypeOK, RefundCalls

LEMMA NewestRow ==
    ASSUME TypeOK, NEW o \in Orders, Succeeded(o) # {}
    PROVE  Max(Succeeded(o)) \in Succeeded(o) /\ Max(Succeeded(o)) \in Nat
<1>1. payments[o] \in Seq(Rows)
  BY DEF TypeOK
<1>2. Len(payments[o]) \in Nat /\ Succeeded(o) \subseteq 1..Len(payments[o])
  BY <1>1 DEF Succeeded
<1>3. Max(Succeeded(o)) \in Succeeded(o)
  <2> DEFINE n == Len(payments[o])
             S == Succeeded(o)
  <2>1. n \in Nat /\ S \in SUBSET (1..n) /\ S # {}
    BY <1>2
  <2> HIDE DEF n, S
  <2>2. Max(S) \in S
    BY <2>1, MaxOfBounded
  <2> QED
    BY <2>2 DEF S
<1> QED
  BY <1>2, <1>3

LEMMA TypeRefund ==
    ASSUME TypeOK, NEW h \in refunds, RefundStep(h)
    PROVE  TypeOK'
<1>1. h \in RefundCalls /\ h.order \in Orders
  BY DEF TypeOK, RefundCalls
<1>2. RefundFind(h) => TypeOK'
  <2> SUFFICES ASSUME RefundFind(h) PROVE refunds' \subseteq RefundCalls
    BY DEF RefundFind, TypeOK, orderVars, gatewayVars, workerVars
  <2>1. CASE Succeeded(h.order) = {}
    BY <2>1, ResumeType DEF RefundFind
  <2>2. CASE Succeeded(h.order) # {}
    <3>1. Max(Succeeded(h.order)) \in Nat
      BY <1>1, <2>2, NewestRow
    <3>2. [h EXCEPT !.pc = "call", !.row = Max(Succeeded(h.order))] \in RefundCalls
      BY <1>1, <3>1 DEF RefundCalls
    <3> QED
      BY <2>2, <3>2, ResumeType DEF RefundFind
  <2> QED
    BY <2>1, <2>2
<1>3. RefundCall(h) => TypeOK'
  BY <1>1, ResumeType, FaultType
  DEF RefundCall, TypeOK, IntentStatuses, orderVars, workerVars
<1>4. RefundMark(h) => TypeOK'
  <2> DEFINE marked == [payments[h.order] EXCEPT ![h.row] = WithStatus(@, "refunded")]
  <2> SUFFICES ASSUME RefundMark(h) PROVE TypeOK'
    OBVIOUS
  <2>1. marked \in Seq(Rows)
    BY <1>1, MarkRowType DEF TypeOK, RowStatuses, RefundCalls
  <2>2. payments' = [payments EXCEPT ![h.order] = marked] \/ payments' = payments
    BY DEF RefundMark
  <2> HIDE DEF marked
  <2>3. payments' \in [Orders -> Seq(Rows)]
    BY <1>1, <2>1, <2>2 DEF TypeOK
  <2>4. refunds' \subseteq RefundCalls
    BY ResumeType DEF RefundMark
  <2> QED
    BY <2>3, <2>4 DEF RefundMark, TypeOK, orderVars, gatewayVars, workerVars
<1>5. RefundTransition(h) => TypeOK'
  BY <1>1, ResumeType DEF RefundTransition, TypeOK, Statuses, gatewayVars, workerVars
<1> QED
  BY <1>2, <1>3, <1>4, <1>5 DEF RefundStep

LEMMA TypeCrash ==
    ASSUME TypeOK
    PROVE  ServeCrash \/ WorkerCrash => TypeOK'
<1>1. ServeCrash => TypeOK'
  BY FaultType DEF ServeCrash, TypeOK, CheckoutSteps, orderVars, gatewayVars, workerVars
<1>2. WorkerCrash => TypeOK'
  BY FaultType DEF WorkerCrash, TypeOK, TaskStatuses, orderVars, gatewayVars
<1> QED
  BY <1>1, <1>2

LEMMA TypeStep == TypeOK /\ [Next]_vars => TypeOK'
<1> SUFFICES ASSUME TypeOK, [Next]_vars PROVE TypeOK'
  OBVIOUS
<1>1. unacked \subseteq Messages /\ handling \subseteq Messages
  BY DEF TypeOK
<1>2. CASE UNCHANGED vars
  BY <1>2 DEF vars, TypeOK
<1>3. CASE Next
  BY <1>1, <1>3, TypeCheckout, TypeGateway, TypeWebhook, TypeWorker, TypeRequest,
     TypeRefund, TypeCrash
  DEF Next
<1> QED
  BY <1>2, <1>3

\* Every variable keeps its type.  In particular stock stays in Nat: for any
\* number of orders, baskets and interleavings, CreateOrder's guarded decrement
\* never takes a unit that is not there.
THEOREM TypeCorrect == Spec => []TypeOK
<1>1. Init => TypeOK
  BY TypeInit
<1>2. TypeOK /\ [Next]_vars => TypeOK'
  BY TypeStep
<1> QED
  BY <1>1, <1>2, PTL DEF Spec

-------------------------------------------------------------------------------
(* Safety: money, rows and side effects *)


\* The gateway has taken the order's money, whether or not it gave it back.
Captured(o) == intent[o] \in {"captured", "returned"}

\* The payments table shows the capture, or the money is already back.
Settled(o) == Succeeded(o) # {} \/ intent[o] = "returned"

-------------------------------------------------------------------------------
(* What a step may do to each variable *)

\* An order's status moves along the edges of the lifecycle only: to paid by a
\* queued task that goes on to its side effects, to refunded by a request at
\* its last step.
StatusMoves(o) ==
    \/ status'[o] = status[o]
    \/ status[o] = "none" /\ status'[o] = "created" /\ checkout'[o] = "placed"
    \/ /\ \E k \in TaskKeys : tasks[o][k] = "queued" /\ tasks'[o][k] = "sale"
       /\ status[o] = "created" /\ status'[o] = "paid"
    \/ status[o] = "created" /\ status'[o] = "cancelled"
    \/ status[o] = "paid" /\ status'[o] = "shipped"
    \/ status[o] = "shipped" /\ status'[o] = "completed"
    \/ /\ \E h \in refunds : h.order = o /\ h.pc = "transition"
       /\ status[o] \in {"paid", "shipped"} /\ status'[o] = "refunded"

LEMMA StatusFrame ==
    ASSUME TypeOK, [Next]_vars, NEW o \in Orders
    PROVE  StatusMoves(o)
<1>1. ASSUME NEW p \in Orders, CheckoutStep(p) PROVE StatusMoves(o)
  BY <1>1 DEF StatusMoves, CheckoutStep, CreateOrder, MockFinalize, CreateIntent, RecordIntent, orderVars, TypeOK
<1>2. ASSUME NEW p \in Orders, GatewayStep(p) PROVE StatusMoves(o)
  BY <1>2 DEF StatusMoves, GatewayStep, CustomerPays, GatewayNotifies, orderVars
<1>3. ASSUME NEW p \in Orders, RequestStep(p) PROVE StatusMoves(o)
  BY <1>3 DEF StatusMoves, RequestStep, Cancel, Ship, Complete, Transition, RefundRead, orderVars, TypeOK
<1>4. ASSUME NEW p \in Orders, NEW k \in TaskKeys, WorkerStep(p, k) PROVE StatusMoves(o)
  <2>1. CASE MarkPaid(p, k)
    BY <2>1 DEF StatusMoves, MarkPaid, TypeOK
  <2> QED
    BY <1>4, <2>1 DEF StatusMoves, WorkerStep, RecordSale, EnqueueStockCheck, ExhaustRetries, orderVars
<1>5. ASSUME NEW m \in unacked \cup handling, WebhookStep(m) PROVE StatusMoves(o)
  BY <1>5 DEF StatusMoves, WebhookStep, UpsertWebhook, ReplayWebhook, EnqueueFinalize, orderVars
<1>6. ASSUME NEW h \in refunds, RefundStep(h) PROVE StatusMoves(o)
  BY <1>6 DEF StatusMoves, RefundStep, RefundFind, RefundCall, RefundMark, RefundTransition, orderVars, TypeOK, RefundCalls
<1>7. CASE ServeCrash \/ WorkerCrash \/ UNCHANGED vars
  BY <1>7 DEF StatusMoves, ServeCrash, WorkerCrash, orderVars, vars
<1> QED
  BY <1>1, <1>2, <1>3, <1>4, <1>5, <1>6, <1>7 DEF Next

\* The gateway's view of the money only moves forward.
IntentMoves(o) ==
    \/ intent'[o] = intent[o]
    \/ /\ checkout[o] = "placed" /\ checkout'[o] = "intent"
       /\ intent'[o] = "open"
    \/ intent[o] = "open" /\ intent'[o] = "captured"
    \/ /\ \E h \in refunds : h.order = o /\ h.pc = "call"
       /\ intent'[o] = "returned" /\ UNCHANGED status

LEMMA IntentFrame ==
    ASSUME TypeOK, [Next]_vars, NEW o \in Orders
    PROVE  IntentMoves(o)
<1>1. ASSUME NEW p \in Orders, CheckoutStep(p) PROVE IntentMoves(o)
  BY <1>1 DEF IntentMoves, CheckoutStep, CreateOrder, MockFinalize, CreateIntent, RecordIntent, gatewayVars, TypeOK
<1>2. ASSUME NEW p \in Orders, GatewayStep(p) PROVE IntentMoves(o)
  BY <1>2 DEF IntentMoves, GatewayStep, CustomerPays, GatewayNotifies, TypeOK
<1>3. ASSUME NEW p \in Orders, RequestStep(p) PROVE IntentMoves(o)
  BY <1>3 DEF IntentMoves, RequestStep, Cancel, Ship, Complete, Transition, RefundRead, gatewayVars
<1>4. ASSUME NEW p \in Orders, NEW k \in TaskKeys, WorkerStep(p, k) PROVE IntentMoves(o)
  BY <1>4 DEF IntentMoves, WorkerStep, MarkPaid, RecordSale, EnqueueStockCheck, ExhaustRetries, gatewayVars
<1>5. ASSUME NEW m \in unacked \cup handling, WebhookStep(m) PROVE IntentMoves(o)
  BY <1>5 DEF IntentMoves, WebhookStep, UpsertWebhook, ReplayWebhook, EnqueueFinalize
<1>6. ASSUME NEW h \in refunds, RefundStep(h) PROVE IntentMoves(o)
  <2>1. CASE RefundCall(h)
    BY <2>1 DEF IntentMoves, RefundCall, orderVars, TypeOK, RefundCalls
  <2> QED
    BY <1>6, <2>1 DEF IntentMoves, RefundStep, RefundFind, RefundMark, RefundTransition, gatewayVars
<1>7. CASE ServeCrash \/ WorkerCrash \/ UNCHANGED vars
  BY <1>7 DEF IntentMoves, ServeCrash, WorkerCrash, gatewayVars, vars
<1> QED
  BY <1>1, <1>2, <1>3, <1>4, <1>5, <1>6, <1>7 DEF Next

\* Checkout starts with the order row and never starts again.
CheckoutMoves(o) ==
    \/ checkout'[o] = checkout[o]
    \/ status[o] = "none" /\ status'[o] # "none" /\ UNCHANGED intent
    \/ checkout[o] # "none" /\ checkout'[o] \notin {"none", "placed"}

LEMMA CheckoutFrame ==
    ASSUME TypeOK, [Next]_vars, NEW o \in Orders
    PROVE  CheckoutMoves(o)
<1>1. ASSUME NEW p \in Orders, CheckoutStep(p) PROVE CheckoutMoves(o)
  BY <1>1 DEF CheckoutMoves, CheckoutStep, CreateOrder, MockFinalize, CreateIntent, RecordIntent, gatewayVars, TypeOK
<1>2. ASSUME NEW p \in Orders, GatewayStep(p) PROVE CheckoutMoves(o)
  BY <1>2 DEF CheckoutMoves, GatewayStep, CustomerPays, GatewayNotifies
<1>3. ASSUME NEW p \in Orders, RequestStep(p) PROVE CheckoutMoves(o)
  BY <1>3 DEF CheckoutMoves, RequestStep, Cancel, Ship, Complete, Transition, RefundRead
<1>4. ASSUME NEW p \in Orders, NEW k \in TaskKeys, WorkerStep(p, k) PROVE CheckoutMoves(o)
  BY <1>4 DEF CheckoutMoves, WorkerStep, MarkPaid, RecordSale, EnqueueStockCheck, ExhaustRetries
<1>5. ASSUME NEW m \in unacked \cup handling, WebhookStep(m) PROVE CheckoutMoves(o)
  BY <1>5 DEF CheckoutMoves, WebhookStep, UpsertWebhook, ReplayWebhook, EnqueueFinalize
<1>6. ASSUME NEW h \in refunds, RefundStep(h) PROVE CheckoutMoves(o)
  BY <1>6 DEF CheckoutMoves, RefundStep, RefundFind, RefundCall, RefundMark, RefundTransition
<1>7. CASE ServeCrash \/ WorkerCrash \/ UNCHANGED vars
  BY <1>7 DEF CheckoutMoves, ServeCrash, WorkerCrash, vars
<1> QED
  BY <1>1, <1>2, <1>3, <1>4, <1>5, <1>6, <1>7 DEF Next
\* The payments of an order change by the four statements of the code.
RowsMove(o) ==
    \/ payments'[o] = payments[o]
    \/ payments'[o] = Append(payments[o], [key |-> "intent", status |-> "pending"])
    \/ \E m \in unacked :
        m.order = o /\ payments'[o] = WithEventRow(payments[o], m)
    \/ \E h \in refunds :
        /\ h.order = o /\ h.pc = "mark"
        /\ payments'[o] = [payments[o] EXCEPT ![h.row] = WithStatus(@, "refunded")]

LEMMA RowsFrame ==
    ASSUME TypeOK, [Next]_vars, NEW o \in Orders
    PROVE  RowsMove(o)
<1>1. ASSUME NEW p \in Orders, CheckoutStep(p) PROVE RowsMove(o)
  BY <1>1 DEF RowsMove, CheckoutStep, CreateOrder, MockFinalize, CreateIntent, RecordIntent, TypeOK
<1>2. ASSUME NEW p \in Orders, GatewayStep(p) PROVE RowsMove(o)
  BY <1>2 DEF RowsMove, GatewayStep, CustomerPays, GatewayNotifies
<1>3. ASSUME NEW p \in Orders, RequestStep(p) PROVE RowsMove(o)
  BY <1>3 DEF RowsMove, RequestStep, Cancel, Ship, Complete, Transition, RefundRead
<1>4. ASSUME NEW p \in Orders, NEW k \in TaskKeys, WorkerStep(p, k) PROVE RowsMove(o)
  BY <1>4 DEF RowsMove, WorkerStep, MarkPaid, RecordSale, EnqueueStockCheck, ExhaustRetries
<1>5. ASSUME NEW m \in unacked \cup handling, WebhookStep(m) PROVE RowsMove(o)
  BY <1>5 DEF RowsMove, WebhookStep, UpsertWebhook, ReplayWebhook, EnqueueFinalize, TypeOK, Messages
<1>6. ASSUME NEW h \in refunds, RefundStep(h) PROVE RowsMove(o)
  <2>1. CASE RefundMark(h)
    BY <2>1 DEF RowsMove, RefundMark, TypeOK, RefundCalls
  <2> QED
    BY <1>6, <2>1 DEF RowsMove, RefundStep, RefundFind, RefundCall, RefundTransition
<1>7. CASE ServeCrash \/ WorkerCrash \/ UNCHANGED vars
  BY <1>7 DEF RowsMove, ServeCrash, WorkerCrash, vars
<1> QED
  BY <1>1, <1>2, <1>3, <1>4, <1>5, <1>6, <1>7 DEF Next

\* A success event is emitted for captured money, and is handed to the rest of
\* its handler only together with its row.
MessageMoves(m) ==
    /\ \/ m \notin unacked'
       \/ m \in unacked
       \/ m.ok => intent'[m.order] = "captured"
    /\ \/ m \notin handling'
       \/ m \in handling
       \/ /\ m \in unacked /\ m.ok
          /\ payments'[m.order] = WithEventRow(payments[m.order], m)

LEMMA MessageFrame ==
    ASSUME TypeOK, [Next]_vars, NEW m \in Messages
    PROVE  MessageMoves(m)
<1>1. ASSUME NEW p \in Orders, CheckoutStep(p) PROVE MessageMoves(m)
  BY <1>1 DEF MessageMoves, CheckoutStep, CreateOrder, MockFinalize, CreateIntent, RecordIntent, gatewayVars
<1>2. ASSUME NEW p \in Orders, GatewayStep(p) PROVE MessageMoves(m)
  BY <1>2 DEF MessageMoves, GatewayStep, CustomerPays, GatewayNotifies, Emit, TypeOK
<1>3. ASSUME NEW p \in Orders, RequestStep(p) PROVE MessageMoves(m)
  BY <1>3 DEF MessageMoves, RequestStep, Cancel, Ship, Complete, Transition, RefundRead, gatewayVars
<1>4. ASSUME NEW p \in Orders, NEW k \in TaskKeys, WorkerStep(p, k) PROVE MessageMoves(m)
  BY <1>4 DEF MessageMoves, WorkerStep, MarkPaid, RecordSale, EnqueueStockCheck, ExhaustRetries, gatewayVars
<1>5. ASSUME NEW n \in unacked \cup handling, WebhookStep(n) PROVE MessageMoves(m)
  BY <1>5 DEF MessageMoves, WebhookStep, UpsertWebhook, ReplayWebhook, EnqueueFinalize, Acknowledge, TypeOK, Messages
<1>6. ASSUME NEW h \in refunds, RefundStep(h) PROVE MessageMoves(m)
  BY <1>6 DEF MessageMoves, RefundStep, RefundFind, RefundCall, RefundMark, RefundTransition, gatewayVars
<1>7. CASE ServeCrash \/ WorkerCrash \/ UNCHANGED vars
  BY <1>7 DEF MessageMoves, ServeCrash, WorkerCrash, gatewayVars, vars
<1> QED
  BY <1>1, <1>2, <1>3, <1>4, <1>5, <1>6, <1>7 DEF Next

\* A task is created by checkout in mock mode or by the handler of its event,
\* and from `queued` only MarkPaid on a created order starts its side effects.
TaskMoves(o, k) ==
    \/ tasks'[o][k] = tasks[o][k]
    \/ /\ tasks'[o][k] = "queued"
       /\ \/ tasks[o][k] # "none"
          \/ k = "mock" /\ Mode = "mock"
          \/ \E m \in handling : m.order = o /\ m.event = k
    \/ tasks[o][k] = "queued" /\ tasks'[o][k] \in {"done", "archived"}
    \/ /\ tasks[o][k] = "queued" /\ tasks'[o][k] = "sale"
       /\ status[o] = "created" /\ status'[o] = "paid"
       /\ \A l \in TaskKeys : l # k => tasks'[o][l] = tasks[o][l]
    \/ tasks[o][k] = "sale" /\ tasks'[o][k] = "check"
    \/ tasks[o][k] = "check" /\ tasks'[o][k] = "done"

LEMMA TaskFrame ==
    ASSUME TypeOK, [Next]_vars, NEW o \in Orders, NEW k \in TaskKeys
    PROVE  TaskMoves(o, k)
<1>1. ASSUME NEW p \in Orders, CheckoutStep(p) PROVE TaskMoves(o, k)
  <2>1. CASE MockFinalize(p)
    <3>1. CASE tasks' = tasks
      BY <3>1 DEF TaskMoves
    <3>2. CASE tasks' = [tasks EXCEPT ![p]["mock"] = "queued"]
      <4>1. tasks'[o][k] = IF o = p /\ k = "mock" THEN "queued" ELSE tasks[o][k]
        BY <3>2 DEF TypeOK, TaskKeys
      <4> QED
        BY <2>1, <4>1 DEF TaskMoves, MockFinalize
    <3> QED
      BY <2>1, <3>1, <3>2 DEF MockFinalize
  <2> QED
    BY <1>1, <2>1 DEF TaskMoves, CheckoutStep, CreateOrder, CreateIntent, RecordIntent, workerVars
<1>2. ASSUME NEW p \in Orders, GatewayStep(p) PROVE TaskMoves(o, k)
  BY <1>2 DEF TaskMoves, GatewayStep, CustomerPays, GatewayNotifies, workerVars
<1>3. ASSUME NEW p \in Orders, RequestStep(p) PROVE TaskMoves(o, k)
  BY <1>3 DEF TaskMoves, RequestStep, Cancel, Ship, Complete, Transition, RefundRead, workerVars
<1>4. ASSUME NEW p \in Orders, NEW l \in TaskKeys, WorkerStep(p, l) PROVE TaskMoves(o, k)
  <2>1. CASE MarkPaid(p, l)
    <3>1. CASE status[p] = "created"
      <4>1. tasks' = [tasks EXCEPT ![p][l] = "sale"] /\ tasks[p][l] = "queued"
        BY <2>1, <3>1 DEF MarkPaid
      <4>2. \A j \in TaskKeys : tasks'[o][j] =
                IF o = p /\ j = l THEN "sale" ELSE tasks[o][j]
        BY <4>1 DEF TypeOK
      <4>3. status'[p] = "paid"
        BY <2>1, <3>1 DEF MarkPaid, TypeOK
      <4> QED
        BY <3>1, <4>1, <4>2, <4>3 DEF TaskMoves
    <3>2. CASE status[p] # "created"
      <4>1. tasks' = [tasks EXCEPT ![p][l] = "done"] /\ tasks[p][l] = "queued"
        BY <2>1, <3>2 DEF MarkPaid
      <4>2. tasks'[o][k] = IF o = p /\ k = l THEN "done" ELSE tasks[o][k]
        BY <4>1 DEF TypeOK
      <4> QED
        BY <4>1, <4>2 DEF TaskMoves
    <3> QED
      BY <3>1, <3>2
  <2>2. CASE RecordSale(p, l)
    BY <2>2 DEF TaskMoves, RecordSale, TypeOK
  <2>3. CASE EnqueueStockCheck(p, l)
    BY <2>3 DEF TaskMoves, EnqueueStockCheck, TypeOK
  <2>4. CASE ExhaustRetries(p, l)
    BY <2>4 DEF TaskMoves, ExhaustRetries, TypeOK
  <2> QED
    BY <1>4, <2>1, <2>2, <2>3, <2>4 DEF WorkerStep
<1>5. ASSUME NEW m \in unacked \cup handling, WebhookStep(m) PROVE TaskMoves(o, k)
  <2>1. CASE EnqueueFinalize(m)
    <3>1. m \in handling /\ m.order \in Orders /\ m.event \in TaskKeys
      BY <2>1 DEF EnqueueFinalize, TypeOK, Messages, TaskKeys
    <3>2. CASE tasks' = tasks
      BY <3>2 DEF TaskMoves
    <3>3. CASE tasks' = [tasks EXCEPT ![m.order][m.event] = "queued"]
      <4>1. tasks'[o][k] = IF o = m.order /\ k = m.event THEN "queued" ELSE tasks[o][k]
        BY <3>1, <3>3 DEF TypeOK
      <4> QED
        BY <3>1, <4>1 DEF TaskMoves
    <3> QED
      BY <2>1, <3>2, <3>3 DEF EnqueueFinalize
  <2> QED
    BY <1>5, <2>1 DEF TaskMoves, WebhookStep, UpsertWebhook, ReplayWebhook, workerVars
<1>6. ASSUME NEW h \in refunds, RefundStep(h) PROVE TaskMoves(o, k)
  BY <1>6 DEF TaskMoves, RefundStep, RefundFind, RefundCall, RefundMark, RefundTransition, workerVars
<1>7. CASE WorkerCrash
  <2>1. tasks'[o][k] = IF tasks[o][k] \in {"sale", "check"} THEN "queued"
                       ELSE tasks[o][k]
    BY <1>7 DEF WorkerCrash
  <2> QED
    BY <2>1 DEF TaskMoves
<1>8. CASE ServeCrash \/ UNCHANGED vars
  BY <1>8 DEF TaskMoves, ServeCrash, workerVars, vars
<1> QED
  BY <1>1, <1>2, <1>3, <1>4, <1>5, <1>6, <1>7, <1>8 DEF Next

\* A side effect happens only as its task moves past it.
SideEffectMoves(o) ==
    \/ sold'[o] = sold[o] /\ checked'[o] = checked[o]
    \/ /\ \E k \in TaskKeys : tasks[o][k] = "sale" /\ tasks'[o][k] = "check"
       /\ sold'[o] = sold[o] + 1 /\ checked'[o] = checked[o]
    \/ /\ \E k \in TaskKeys : tasks[o][k] = "check" /\ tasks'[o][k] = "done"
       /\ sold'[o] = sold[o] /\ checked'[o] = checked[o] + 1

LEMMA SideEffectFrame ==
    ASSUME TypeOK, [Next]_vars, NEW o \in Orders
    PROVE  SideEffectMoves(o)
<1>1. ASSUME NEW p \in Orders, CheckoutStep(p) PROVE SideEffectMoves(o)
  BY <1>1 DEF SideEffectMoves, CheckoutStep, CreateOrder, MockFinalize, CreateIntent, RecordIntent, workerVars
<1>2. ASSUME NEW p \in Orders, GatewayStep(p) PROVE SideEffectMoves(o)
  BY <1>2 DEF SideEffectMoves, GatewayStep, CustomerPays, GatewayNotifies, workerVars
<1>3. ASSUME NEW p \in Orders, RequestStep(p) PROVE SideEffectMoves(o)
  BY <1>3 DEF SideEffectMoves, RequestStep, Cancel, Ship, Complete, Transition, RefundRead, workerVars
<1>4. ASSUME NEW p \in Orders, NEW l \in TaskKeys, WorkerStep(p, l) PROVE SideEffectMoves(o)
  <2>1. CASE RecordSale(p, l)
    BY <2>1 DEF SideEffectMoves, RecordSale, TypeOK
  <2>2. CASE EnqueueStockCheck(p, l)
    BY <2>2 DEF SideEffectMoves, EnqueueStockCheck, TypeOK
  <2> QED
    BY <1>4, <2>1, <2>2 DEF SideEffectMoves, WorkerStep, MarkPaid, ExhaustRetries
<1>5. ASSUME NEW m \in unacked \cup handling, WebhookStep(m) PROVE SideEffectMoves(o)
  BY <1>5 DEF SideEffectMoves, WebhookStep, UpsertWebhook, ReplayWebhook, EnqueueFinalize, workerVars
<1>6. ASSUME NEW h \in refunds, RefundStep(h) PROVE SideEffectMoves(o)
  BY <1>6 DEF SideEffectMoves, RefundStep, RefundFind, RefundCall, RefundMark, RefundTransition, workerVars
<1>7. CASE ServeCrash \/ WorkerCrash \/ UNCHANGED vars
  BY <1>7 DEF SideEffectMoves, ServeCrash, WorkerCrash, workerVars, vars
<1> QED
  BY <1>1, <1>2, <1>3, <1>4, <1>5, <1>6, <1>7 DEF Next

\* Requests in flight start on a paid order and reach `mark` only through the
\* gateway call.
RefundMoves(h) ==
    \/ h \notin refunds'
    \/ h \in refunds
    \/ h.pc = "find" /\ status[h.order] \in {"paid", "shipped"} /\ UNCHANGED status
    \/ \E g \in refunds :
        /\ g.order = h.order
        /\ \/ h.pc = "call" /\ Succeeded(h.order) # {}
           \/ h.pc = "mark" /\ intent'[h.order] = "returned"
           \/ h.pc = "transition" /\ g.pc = "mark"

LEMMA RefundFrame ==
    ASSUME TypeOK, [Next]_vars, NEW h \in RefundCalls
    PROVE  RefundMoves(h)
<1>1. ASSUME NEW p \in Orders, CheckoutStep(p) PROVE RefundMoves(h)
  BY <1>1 DEF RefundMoves, CheckoutStep, CreateOrder, MockFinalize, CreateIntent, RecordIntent
<1>2. ASSUME NEW p \in Orders, GatewayStep(p) PROVE RefundMoves(h)
  BY <1>2 DEF RefundMoves, GatewayStep, CustomerPays, GatewayNotifies
<1>3. ASSUME NEW p \in Orders, RequestStep(p) PROVE RefundMoves(h)
  BY <1>3 DEF RefundMoves, RequestStep, Cancel, Ship, Complete, Transition, RefundRead, orderVars
<1>4. ASSUME NEW p \in Orders, NEW k \in TaskKeys, WorkerStep(p, k) PROVE RefundMoves(h)
  BY <1>4 DEF RefundMoves, WorkerStep, MarkPaid, RecordSale, EnqueueStockCheck, ExhaustRetries
<1>5. ASSUME NEW m \in unacked \cup handling, WebhookStep(m) PROVE RefundMoves(h)
  BY <1>5 DEF RefundMoves, WebhookStep, UpsertWebhook, ReplayWebhook, EnqueueFinalize
<1>6. ASSUME NEW g \in refunds, RefundStep(g) PROVE RefundMoves(h)
  <2> USE DEF RefundMoves, Resume, Return
  <2>1. g \in RefundCalls
    BY DEF TypeOK
  <2>2. CASE RefundFind(g)
    <3> DEFINE r == Max(Succeeded(g.order))
    <3>1. \/ refunds' \subseteq refunds
          \/ /\ refunds' \subseteq refunds \cup {[g EXCEPT !.pc = "call", !.row = r]}
             /\ Succeeded(g.order) # {}
      BY <2>2 DEF RefundFind
    <3>2. [g EXCEPT !.pc = "call", !.row = r].order = g.order
      BY <2>1 DEF RefundCalls
    <3>3. [g EXCEPT !.pc = "call", !.row = r].pc = "call"
      BY <2>1 DEF RefundCalls
    <3> QED
      BY <3>1, <3>2, <3>3
  <2>3. CASE RefundCall(g)
    <3>1. \/ refunds' \subseteq refunds
          \/ /\ refunds' \subseteq refunds \cup {[g EXCEPT !.pc = "mark"]}
             /\ intent' = [intent EXCEPT ![g.order] = "returned"]
      BY <2>3 DEF RefundCall
    <3>2. /\ [g EXCEPT !.pc = "mark"].order = g.order
          /\ [g EXCEPT !.pc = "mark"].pc = "mark"
      BY <2>1 DEF RefundCalls
    <3>3. [intent EXCEPT ![g.order] = "returned"][g.order] = "returned"
      BY <2>1 DEF RefundCalls, TypeOK
    <3> QED
      BY <3>1, <3>2, <3>3
  <2>4. CASE RefundMark(g)
    BY <2>1, <2>4 DEF RefundMark, RefundCalls
  <2>5. CASE RefundTransition(g)
    BY <2>5 DEF RefundTransition
  <2> QED
    BY <1>6, <2>2, <2>3, <2>4, <2>5 DEF RefundStep
<1>7. CASE ServeCrash \/ WorkerCrash \/ UNCHANGED vars
  BY <1>7 DEF RefundMoves, ServeCrash, WorkerCrash, vars
<1> QED
  BY <1>1, <1>2, <1>3, <1>4, <1>5, <1>6, <1>7 DEF Next
-------------------------------------------------------------------------------
(* Side effects *)

InFlight(o) == {k \in TaskKeys : tasks[o][k] \in {"sale", "check"}}

\* At most one task of an order is between its side effects, only after the
\* order was paid, and what it is still to do has not been done before.
SideEffectsInv ==
    \A o \in Orders :
        /\ status[o] \notin PaidOnwards =>
            sold[o] = 0 /\ checked[o] = 0 /\ InFlight(o) = {}
        /\ \A k, l \in InFlight(o) : k = l
        /\ \A k \in TaskKeys :
            /\ tasks[o][k] = "sale" => sold[o] = 0 /\ checked[o] = 0
            /\ tasks[o][k] = "check" => checked[o] = 0
        /\ sold[o] <= 1 /\ checked[o] <= 1

\* No step takes an order out of the statuses behind `paid`.
LEMMA PaidIsStable ==
    ASSUME TypeOK, [Next]_vars, NEW o \in Orders, status[o] \in PaidOnwards
    PROVE  status'[o] \in PaidOnwards
  BY StatusFrame DEF StatusMoves, PaidOnwards

LEMMA SideEffectsInit == Init => SideEffectsInv
  BY DEF Init, SideEffectsInv, InFlight

LEMMA SideEffectsStep ==
    ASSUME TypeOK, SideEffectsInv, [Next]_vars
    PROVE  SideEffectsInv'
<1> SUFFICES ASSUME NEW o \in Orders
             PROVE
        /\ status'[o] \notin PaidOnwards =>
            sold'[o] = 0 /\ checked'[o] = 0 /\ InFlight(o)' = {}
        /\ \A k, l \in InFlight(o)' : k = l
        /\ \A k \in TaskKeys :
            /\ tasks'[o][k] = "sale" => sold'[o] = 0 /\ checked'[o] = 0
            /\ tasks'[o][k] = "check" => checked'[o] = 0
        /\ sold'[o] <= 1 /\ checked'[o] <= 1
  BY DEF SideEffectsInv
<1>1. \A k \in TaskKeys : TaskMoves(o, k)
  BY TaskFrame
<1>2. SideEffectMoves(o) /\ StatusMoves(o)
  BY SideEffectFrame, StatusFrame
<1>3. sold[o] \in Nat /\ checked[o] \in Nat
  BY DEF TypeOK
<1> DEFINE fresh == \E k \in TaskKeys : /\ tasks[o][k] = "queued" /\ tasks'[o][k] = "sale"
<1>4. CASE fresh
  <2>1. PICK k \in TaskKeys : tasks[o][k] = "queued" /\ tasks'[o][k] = "sale"
    BY <1>4
  <2>2. /\ status[o] = "created" /\ status'[o] = "paid"
        /\ \A l \in TaskKeys : l # k => tasks'[o][l] = tasks[o][l]
    BY <1>1, <2>1 DEF TaskMoves
  <2>3. sold[o] = 0 /\ checked[o] = 0 /\ InFlight(o) = {}
    BY <2>2 DEF SideEffectsInv, PaidOnwards
  <2>4. InFlight(o)' = {k}
    BY <2>1, <2>2, <2>3 DEF InFlight
  <2>5. sold'[o] = 0 /\ checked'[o] = 0
    BY <1>2, <2>3 DEF SideEffectMoves, InFlight
  <2> QED
    BY <2>1, <2>2, <2>4, <2>5 DEF PaidOnwards, InFlight
<1>5. CASE ~fresh
  <2>1. InFlight(o)' \subseteq InFlight(o)
    BY <1>1, <1>5 DEF TaskMoves, InFlight
  <2>2. status'[o] \notin PaidOnwards => status[o] \notin PaidOnwards
    BY PaidIsStable
  <2>3. \A k, l \in InFlight(o)' : k = l
    BY <2>1 DEF SideEffectsInv
  <2>4. ASSUME NEW k \in TaskKeys
        PROVE  /\ tasks'[o][k] = "sale" => tasks[o][k] = "sale"
               /\ tasks'[o][k] = "check" => tasks[o][k] \in {"sale", "check"}
    BY <1>1, <1>5 DEF TaskMoves
  <2>5. CASE sold'[o] = sold[o] /\ checked'[o] = checked[o]
    BY <2>1, <2>2, <2>3, <2>4, <2>5 DEF SideEffectsInv
  <2>6. CASE sold'[o] # sold[o] \/ checked'[o] # checked[o]
    <3>1. PICK k \in TaskKeys :
            \/ /\ tasks[o][k] = "sale" /\ tasks'[o][k] = "check"
               /\ sold'[o] = sold[o] + 1 /\ checked'[o] = checked[o]
            \/ /\ tasks[o][k] = "check" /\ tasks'[o][k] = "done"
               /\ sold'[o] = sold[o] /\ checked'[o] = checked[o] + 1
      BY <1>2, <2>6 DEF SideEffectMoves
    <3>2. k \in InFlight(o) /\ status[o] \in PaidOnwards
      BY <3>1 DEF InFlight, SideEffectsInv
    <3>3. \A l \in TaskKeys : tasks'[o][l] \in {"sale", "check"} => l = k
      BY <2>1, <3>2 DEF InFlight, SideEffectsInv
    <3>4. sold'[o] <= 1 /\ checked'[o] <= 1
      BY <1>3, <3>1 DEF SideEffectsInv
    <3>5. \A l \in TaskKeys : /\ tasks'[o][l] # "sale"
                              /\ tasks'[o][l] = "check" => checked'[o] = 0
      BY <3>1, <3>3 DEF SideEffectsInv
    <3> QED
      BY <2>2, <2>3, <3>2, <3>4, <3>5
  <2> QED
    BY <2>5, <2>6
<1> QED
  BY <1>4, <1>5

\* MarkPaid promises that replayed events are "never double-processed": for any
\* number of success events, retries and worker crashes an order's sale is
\* recorded and its stock check enqueued at most once.
THEOREM SideEffectsOnce == Spec => []SideEffectsAtMostOnce
<1>1. Init => TypeOK /\ SideEffectsInv
  BY TypeInit, SideEffectsInit
<1>2. TypeOK /\ SideEffectsInv /\ [Next]_vars => TypeOK' /\ SideEffectsInv'
  BY TypeStep, SideEffectsStep
<1>3. SideEffectsInv => SideEffectsAtMostOnce
  BY DEF SideEffectsInv, SideEffectsAtMostOnce
<1> QED
  BY <1>1, <1>2, <1>3, PTL DEF Spec

\* The same invariant gives that only orders that were paid have side effects.
THEOREM SideEffectsPaid == Spec => []SideEffectsOnlyIfPaid
<1>1. Init => TypeOK /\ SideEffectsInv
  BY TypeInit, SideEffectsInit
<1>2. TypeOK /\ SideEffectsInv /\ [Next]_vars => TypeOK' /\ SideEffectsInv'
  BY TypeStep, SideEffectsStep
<1>3. SideEffectsInv => SideEffectsOnlyIfPaid
  BY DEF SideEffectsInv, SideEffectsOnlyIfPaid
<1> QED
  BY <1>1, <1>2, <1>3, PTL DEF Spec

\* Both at once: side effects follow payments.
THEOREM SideEffectsAreRight == Spec => []SideEffectsFollowPayment
  BY SideEffectsOnce, SideEffectsPaid, PTL DEF SideEffectsFollowPayment
-------------------------------------------------------------------------------
(* Money *)

Refunded(o) == {i \in DOMAIN payments[o] : payments[o][i].status = "refunded"}

\* The intent is opened once, for a placed order.
OpenedOnce ==
    \A o \in Orders :
        /\ status[o] = "none" => checkout[o] = "none"
        /\ checkout[o] \in {"none", "placed"} => intent[o] = "none"

\* Success events stand for captured money; past UpsertWebhook its row shows it.
GenuineEvents ==
    /\ \A m \in unacked : m.ok => Captured(m.order)
    /\ \A m \in handling : Settled(m.order)

\* So does every finalize task, except the one of mock mode.
GenuineTasks ==
    \A o \in Orders, k \in TaskKeys :
        tasks[o][k] # "none" =>
            IF k = "mock" THEN Mode = "mock" ELSE Settled(o)

PaidIsSettled ==
    Mode = "live" => \A o \in Orders : status[o] \in PaidOnwards => Settled(o)

\* Refund requests work on orders that were paid, and are past the gateway's
\* answer when they touch the database again.
RefundsInOrder ==
    \A h \in refunds :
        /\ status[h.order] \in PaidOnwards
        /\ h.pc # "find" => Captured(h.order)
        /\ h.pc \in {"mark", "transition"} => intent[h.order] = "returned"

MoneyInv ==
    /\ OpenedOnce
    /\ GenuineEvents
    /\ GenuineTasks
    /\ PaidIsSettled
    /\ SucceededIsCaptured
    /\ RefundsInOrder
    /\ RefundedIsReturned
    /\ ReturnedWasPaid

LEMMA MoneyInit == Init => MoneyInv
  BY DEF Init, MoneyInv, OpenedOnce, GenuineEvents, GenuineTasks, PaidIsSettled,
         SucceededIsCaptured, RefundsInOrder, RefundedIsReturned, ReturnedWasPaid,
         Succeeded, PaidOnwards

\* Money that was captured stays captured, money that was returned is gone.
LEMMA CapturedIsStable ==
    ASSUME TypeOK, OpenedOnce, [Next]_vars, NEW o \in Orders
    PROVE  /\ Captured(o) => Captured(o)'
           /\ intent[o] = "returned" => intent'[o] = "returned"
<1>1. IntentMoves(o)
  BY IntentFrame
<1> QED
  BY <1>1 DEF IntentMoves, OpenedOnce, Captured

LEMMA OpenedOnceStep ==
    ASSUME TypeOK, OpenedOnce, RefundsInOrder, [Next]_vars
    PROVE  OpenedOnce'
<1> SUFFICES ASSUME NEW o \in Orders
             PROVE  /\ status'[o] = "none" => checkout'[o] = "none"
                    /\ checkout'[o] \in {"none", "placed"} => intent'[o] = "none"
  BY DEF OpenedOnce
<1>1. StatusMoves(o) /\ CheckoutMoves(o) /\ IntentMoves(o)
  BY StatusFrame, CheckoutFrame, IntentFrame
<1>2. /\ status[o] = "none" => checkout[o] = "none"
      /\ checkout[o] \in {"none", "placed"} => intent[o] = "none"
  BY DEF OpenedOnce
<1>3. \A h \in refunds : h.order = o /\ h.pc = "call" => intent[o] # "none"
  BY DEF RefundsInOrder, Captured
<1>4. checkout'[o] \in {"none", "placed"} => intent'[o] = "none"
  BY <1>1, <1>2, <1>3 DEF CheckoutMoves, IntentMoves
<1>5. status'[o] = "none" => checkout'[o] = "none"
  BY <1>1, <1>2 DEF CheckoutMoves, StatusMoves
<1> QED
  BY <1>4, <1>5

\* What UpsertWebhook and SetRefunded do to the rows that can be refunded: a
\* success event adds one, only SetRefunded removes one, at its last step.
LEMMA RowsOfEvent ==
    ASSUME NEW rows \in Seq(Rows), NEW m \in Messages
    PROVE  LET new == WithEventRow(rows, m) IN
           /\ DOMAIN rows \subseteq DOMAIN new
           /\ Len(rows) + 1 \in DOMAIN new
           /\ new[Len(rows) + 1].status = EventStatus(m)
           /\ \A i \in DOMAIN new :
                \/ i \in DOMAIN rows /\ new[i] = rows[i]
                \/ new[i].status = EventStatus(m)
           /\ \A i \in DOMAIN rows :
                rows[i].status # "pending" => new[i] = rows[i]
<1> DEFINE followed == [i \in DOMAIN rows |->
                          IF rows[i].status = "pending"
                          THEN WithStatus(rows[i], EventStatus(m))
                          ELSE rows[i]]
           row == [key |-> m.event, status |-> EventStatus(m)]
<1>1. EventStatus(m) \in RowStatuses
  BY DEF EventStatus, RowStatuses
<1>2. \A i \in DOMAIN rows : rows[i] \in Rows
  BY ElementOfSeq
<1>3. followed \in [1..Len(rows) -> Rows] /\ Len(rows) \in Nat
  BY <1>1, <1>2, WithStatusType
<1>4. followed \in Seq(Rows) /\ Len(followed) = Len(rows)
  BY <1>3, SeqDef, LenProperties
<1>5. row \in Rows
  BY <1>1 DEF Rows, RowKeys, Messages
<1>6. \A i \in DOMAIN rows : rows[i].status = "pending" => followed[i].status = EventStatus(m)
  BY DEF WithStatus
<1>7. \A i \in DOMAIN rows : rows[i].status # "pending" => followed[i] = rows[i]
  OBVIOUS
<1>8. DOMAIN followed = 1..Len(rows) /\ DOMAIN rows = 1..Len(rows)
  BY <1>3, LenProperties
<1>9. WithEventRow(rows, m) = Append(followed, row)
  BY DEF WithEventRow
<1> HIDE DEF followed
<1>10. /\ Len(Append(followed, row)) = Len(rows) + 1
       /\ \A i \in 1..Len(rows) : Append(followed, row)[i] = followed[i]
       /\ Append(followed, row)[Len(rows) + 1] = row
       /\ DOMAIN Append(followed, row) = 1..(Len(rows) + 1)
  BY <1>4, <1>5, AppendProperties, LenProperties
<1>11. row.status = EventStatus(m)
  OBVIOUS
<1> HIDE DEF row
<1> QED
  BY <1>3, <1>6, <1>7, <1>8, <1>9, <1>10, <1>11
LEMMA RowsStep ==
    ASSUME TypeOK, [Next]_vars, NEW o \in Orders
    PROVE  /\ Succeeded(o)' # {} =>
                \/ Succeeded(o) # {}
                \/ \E m \in unacked : m.order = o /\ m.ok
           /\ Succeeded(o) # {} =>
                \/ Succeeded(o)' # {}
                \/ \E h \in refunds : h.order = o /\ h.pc = "mark"
           /\ Refunded(o)' # {} =>
                \/ Refunded(o) # {}
                \/ \E h \in refunds : h.order = o /\ h.pc = "mark"
<1> DEFINE old == payments[o]
           new == payments'[o]
<1>1. old \in Seq(Rows) /\ Len(old) \in Nat /\ DOMAIN old = 1..Len(old)
  BY LenProperties DEF TypeOK
<1>2. RowsMove(o)
  BY RowsFrame
<1>3. CASE new = old
  BY <1>3 DEF Succeeded, Refunded
<1>4. CASE new = Append(old, [key |-> "intent", status |-> "pending"])
  <2> DEFINE row == [key |-> "intent", status |-> "pending"]
  <2>1. row \in Rows /\ row.status = "pending"
    BY DEF Rows, RowKeys, RowStatuses
  <2> HIDE DEF row
  <2>2. /\ DOMAIN Append(old, row) = 1..(Len(old) + 1)
        /\ \A i \in 1..Len(old) : Append(old, row)[i] = old[i]
        /\ Append(old, row)[Len(old) + 1] = row
    BY <1>1, <2>1, AppendProperties, LenProperties
  <2>3. new = Append(old, row)
    BY <1>4 DEF row
  <2>4. \A i \in DOMAIN new : \/ i \in DOMAIN old /\ new[i] = old[i]
                              \/ new[i].status = "pending"
    BY <1>1, <2>1, <2>2, <2>3
  <2>5. \A i \in DOMAIN old : i \in DOMAIN new /\ new[i] = old[i]
    BY <1>1, <2>2, <2>3
  <2> QED
    BY <2>4, <2>5 DEF Succeeded, Refunded
<1>5. ASSUME NEW m \in unacked, m.order = o, new = WithEventRow(old, m)
      PROVE  /\ Succeeded(o)' # {} => Succeeded(o) # {} \/ m.ok
             /\ Succeeded(o) # {} => Succeeded(o)' # {}
             /\ Refunded(o)' # {} => Refunded(o) # {}
  <2>1. m \in Messages
    BY DEF TypeOK
  <2>2. /\ DOMAIN old \subseteq DOMAIN new
        /\ \A i \in DOMAIN new : \/ i \in DOMAIN old /\ new[i] = old[i]
                                 \/ new[i].status = EventStatus(m)
        /\ \A i \in DOMAIN old : old[i].status # "pending" => new[i] = old[i]
    BY <1>1, <1>5, <2>1, RowsOfEvent
  <2>3. EventStatus(m) \in {"succeeded", "failed"}
        /\ (EventStatus(m) = "succeeded" => m.ok)
    BY DEF EventStatus
  <2> QED
    BY <2>2, <2>3 DEF Succeeded, Refunded
<1>6. ASSUME NEW h \in refunds, h.order = o, h.pc = "mark",
             new = [old EXCEPT ![h.row] = WithStatus(@, "refunded")]
      PROVE  Succeeded(o)' # {} => Succeeded(o) # {}
  <2>1. \A i \in DOMAIN old : new[i] = old[i] \/ new[i].status = "refunded"
    BY <1>6 DEF WithStatus
  <2>2. DOMAIN new = DOMAIN old
    BY <1>6
  <2> QED
    BY <2>1, <2>2 DEF Succeeded
<1> QED
  BY <1>2, <1>3, <1>4, <1>5, <1>6 DEF RowsMove

\* Once settled, an order stays settled: SetRefunded takes the last succeeded
\* row away only after the gateway has returned the money.
LEMMA SettledIsStable ==
    ASSUME TypeOK, MoneyInv, [Next]_vars, NEW o \in Orders, Settled(o)
    PROVE  Settled(o)'
<1>1. intent[o] = "returned" => intent'[o] = "returned"
  BY CapturedIsStable DEF MoneyInv
<1>2. Succeeded(o) # {} => Succeeded(o)' # {} \/ intent[o] = "returned"
  BY RowsStep DEF MoneyInv, RefundsInOrder
<1> QED
  BY <1>1, <1>2 DEF Settled

LEMMA GenuineEventsStep ==
    ASSUME TypeOK, MoneyInv, [Next]_vars
    PROVE  GenuineEvents'
<1>1. ASSUME NEW m \in unacked', m.ok PROVE Captured(m.order)'
  <2>1. m \in Messages /\ m.order \in Orders
    BY TypeStep DEF TypeOK, Messages
  <2>2. MessageMoves(m)
    BY <2>1, MessageFrame
  <2>3. CASE m \in unacked
    BY <1>1, <2>1, <2>3, CapturedIsStable DEF MoneyInv, GenuineEvents
  <2> QED
    BY <1>1, <2>2, <2>3 DEF MessageMoves, Captured
<1>2. ASSUME NEW m \in handling' PROVE Settled(m.order)'
  <2>1. m \in Messages /\ m.order \in Orders
    BY TypeStep DEF TypeOK, Messages
  <2>2. CASE m \in handling
    BY <2>1, <2>2, SettledIsStable DEF MoneyInv, GenuineEvents
  <2>3. CASE m \in unacked /\ m.ok /\ payments'[m.order] = WithEventRow(payments[m.order], m)
    <3>1. payments[m.order] \in Seq(Rows)
      BY <2>1 DEF TypeOK
    <3>2. payments'[m.order][Len(payments[m.order]) + 1].status = "succeeded"
          /\ Len(payments[m.order]) + 1 \in DOMAIN payments'[m.order]
      BY <2>1, <2>3, <3>1, RowsOfEvent DEF EventStatus
    <3> QED
      BY <3>2 DEF Settled, Succeeded
  <2> QED
    BY <2>1, <2>2, <2>3, MessageFrame DEF MessageMoves
<1> QED
  BY <1>1, <1>2 DEF GenuineEvents

LEMMA GenuineTasksStep ==
    ASSUME TypeOK, MoneyInv, [Next]_vars
    PROVE  GenuineTasks'
<1> SUFFICES ASSUME NEW o \in Orders, NEW k \in TaskKeys, tasks'[o][k] # "none"
             PROVE  IF k = "mock" THEN Mode = "mock" ELSE Settled(o)'
  BY DEF GenuineTasks
<1>1. TaskMoves(o, k)
  BY TaskFrame
<1>2. CASE tasks[o][k] # "none"
  BY <1>2, SettledIsStable DEF MoneyInv, GenuineTasks
<1>3. CASE k = "mock" /\ Mode = "mock"
  BY <1>3
<1>4. ASSUME NEW m \in handling, m.order = o, m.event = k
      PROVE  k # "mock" /\ Settled(o)'
  <2>1. m \in Messages
    BY DEF TypeOK
  <2>2. k # "mock"
    BY <1>4, <2>1, EventsAssumption DEF Messages
  <2>3. Settled(o)
    BY <1>4 DEF MoneyInv, GenuineEvents
  <2> QED
    BY <2>2, <2>3, SettledIsStable
<1> QED
  BY <1>1, <1>2, <1>3, <1>4 DEF TaskMoves

LEMMA PaidIsSettledStep ==
    ASSUME TypeOK, MoneyInv, [Next]_vars
    PROVE  PaidIsSettled'
<1> SUFFICES ASSUME Mode = "live", NEW o \in Orders, status'[o] \in PaidOnwards
             PROVE  Settled(o)'
  BY DEF PaidIsSettled
<1>1. CASE status[o] \in PaidOnwards
  BY <1>1, SettledIsStable DEF MoneyInv, PaidIsSettled
<1>2. CASE status[o] \notin PaidOnwards
  <2>1. PICK k \in TaskKeys : tasks[o][k] = "queued"
    BY <1>2, StatusFrame DEF StatusMoves, PaidOnwards
  <2>2. Settled(o)
    BY <2>1 DEF MoneyInv, GenuineTasks
  <2> QED
    BY <2>2, SettledIsStable
<1> QED
  BY <1>1, <1>2

LEMMA SucceededStep ==
    ASSUME TypeOK, MoneyInv, [Next]_vars
    PROVE  SucceededIsCaptured'
<1> SUFFICES ASSUME NEW o \in Orders, Succeeded(o)' # {}
             PROVE  Captured(o)'
  BY DEF SucceededIsCaptured, Captured
<1>1. Succeeded(o) # {} => Captured(o)
  BY DEF MoneyInv, SucceededIsCaptured, Captured
<1>2. \A m \in unacked : m.order = o /\ m.ok => Captured(o)
  BY DEF MoneyInv, GenuineEvents
<1>3. Captured(o)
  BY <1>1, <1>2, RowsStep
<1> QED
  BY <1>3, CapturedIsStable DEF MoneyInv

LEMMA RefundsInOrderStep ==
    ASSUME TypeOK, MoneyInv, [Next]_vars
    PROVE  RefundsInOrder'
<1> SUFFICES ASSUME NEW h \in refunds'
             PROVE  /\ status'[h.order] \in PaidOnwards
                    /\ h.pc # "find" => Captured(h.order)'
                    /\ h.pc \in {"mark", "transition"} => intent'[h.order] = "returned"
  BY DEF RefundsInOrder
<1>1. h \in RefundCalls /\ h.order \in Orders
  BY TypeStep DEF TypeOK, RefundCalls
<1>2. RefundMoves(h)
  BY <1>1, RefundFrame
<1>3. \A g \in refunds : g.order = h.order => status'[h.order] \in PaidOnwards
  BY <1>1, PaidIsStable DEF MoneyInv, RefundsInOrder
<1>4. CASE h \in refunds
  BY <1>1, <1>3, <1>4, CapturedIsStable DEF MoneyInv, RefundsInOrder
<1>5. CASE h.pc = "find" /\ status[h.order] \in {"paid", "shipped"} /\ UNCHANGED status
  BY <1>5 DEF PaidOnwards
<1>6. ASSUME NEW g \in refunds, g.order = h.order,
             \/ h.pc = "call" /\ Succeeded(h.order) # {}
             \/ h.pc = "mark" /\ intent'[h.order] = "returned"
             \/ h.pc = "transition" /\ g.pc = "mark"
      PROVE  /\ Captured(h.order)'
             /\ h.pc \in {"mark", "transition"} => intent'[h.order] = "returned"
  <2>1. Succeeded(h.order) # {} => Captured(h.order)
    BY <1>1 DEF MoneyInv, SucceededIsCaptured, Captured
  <2>2. g.pc = "mark" => intent[h.order] = "returned"
    BY <1>6 DEF MoneyInv, RefundsInOrder
  <2> QED
    BY <1>1, <1>6, <2>1, <2>2, CapturedIsStable DEF MoneyInv, Captured
<1> QED
  BY <1>2, <1>3, <1>4, <1>5, <1>6 DEF RefundMoves

LEMMA RefundedStep ==
    ASSUME TypeOK, MoneyInv, [Next]_vars
    PROVE  RefundedIsReturned'
<1> SUFFICES ASSUME NEW o \in Orders, status'[o] = "refunded" \/ Refunded(o)' # {}
             PROVE  intent'[o] = "returned"
  BY DEF RefundedIsReturned, Refunded
<1>1. status[o] = "refunded" \/ Refunded(o) # {} => intent[o] = "returned"
  BY DEF MoneyInv, RefundedIsReturned, Refunded
<1>2. \A h \in refunds :
        h.order = o /\ h.pc \in {"mark", "transition"} => intent[o] = "returned"
  BY DEF MoneyInv, RefundsInOrder
<1>3. Refunded(o)' # {} => intent[o] = "returned"
  BY <1>1, <1>2, RowsStep
<1>4. status'[o] = "refunded" => intent[o] = "returned"
  BY <1>1, <1>2, StatusFrame DEF StatusMoves
<1> QED
  BY <1>3, <1>4, CapturedIsStable DEF MoneyInv

LEMMA ReturnedStep ==
    ASSUME TypeOK, MoneyInv, [Next]_vars
    PROVE  ReturnedWasPaid'
<1> SUFFICES ASSUME NEW o \in Orders, intent'[o] = "returned"
             PROVE  status'[o] \in PaidOnwards
  BY DEF ReturnedWasPaid
<1>1. intent[o] = "returned" => status[o] \in PaidOnwards
  BY DEF MoneyInv, ReturnedWasPaid
<1>2. \A h \in refunds : h.order = o => status[o] \in PaidOnwards
  BY DEF MoneyInv, RefundsInOrder
<1>3. status[o] \in PaidOnwards
  BY <1>1, <1>2, IntentFrame DEF IntentMoves
<1> QED
  BY <1>3, PaidIsStable

LEMMA MoneyStep ==
    ASSUME TypeOK, MoneyInv, [Next]_vars
    PROVE  MoneyInv'
<1>1. OpenedOnce'
  BY OpenedOnceStep DEF MoneyInv
<1> QED
  BY <1>1, GenuineEventsStep, GenuineTasksStep, PaidIsSettledStep, SucceededStep,
     RefundsInOrderStep, RefundedStep, ReturnedStep
  DEF MoneyInv

\* The inductive invariant of the money.
LEMMA MoneyCorrect == Spec => [](TypeOK /\ MoneyInv)
<1>1. Init => TypeOK /\ MoneyInv
  BY TypeInit, MoneyInit
<1>2. TypeOK /\ MoneyInv /\ [Next]_vars => TypeOK' /\ MoneyInv'
  BY TypeStep, MoneyStep
<1> QED
  BY <1>1, <1>2, PTL DEF Spec

\* No order is fulfilled without its money: in live mode an order past
\* `created` was captured by the gateway, for any number of orders, events,
\* retries, refund requests and faults.
THEOREM PaidOrdersAreCaptured == Spec => []PaidIsCaptured
<1>1. MoneyInv => PaidIsCaptured
  BY DEF MoneyInv, PaidIsSettled, Settled, SucceededIsCaptured, PaidIsCaptured
<1> QED
  BY <1>1, MoneyCorrect, PTL

\* A succeeded row of the payments table stands for captured money.
THEOREM SucceededRowsAreCaptured == Spec => []SucceededIsCaptured
<1>1. MoneyInv => SucceededIsCaptured
  BY DEF MoneyInv
<1> QED
  BY <1>1, MoneyCorrect, PTL

\* Refund is fail-closed: nothing reads `refunded` before the money is back.
THEOREM RefundIsFailClosed == Spec => []RefundedIsReturned
<1>1. MoneyInv => RefundedIsReturned
  BY DEF MoneyInv
<1> QED
  BY <1>1, MoneyCorrect, PTL

\* Only orders that had been paid get money back, whatever races with Refund.
THEOREM OnlyPaidOrdersAreReturned == Spec => []ReturnedWasPaid
<1>1. MoneyInv => ReturnedWasPaid
  BY DEF MoneyInv
<1> QED
  BY <1>1, MoneyCorrect, PTL

\* A paid order whose money has not gone back always has a row Refund can find.
THEOREM PaidOrdersAreRefundable == Spec => []PaidIsRefundable
<1>1. MoneyInv => PaidIsRefundable
  BY DEF MoneyInv, PaidIsSettled, Settled, PaidIsRefundable
<1> QED
  BY <1>1, MoneyCorrect, PTL

\* Together: the payments table, the orders and the gateway agree.
THEOREM TheBooksAreTrue == Spec => []BooksAreTrue
<1>1. MoneyInv => BooksAreTrue
  BY DEF MoneyInv, BooksAreTrue
<1> QED
  BY <1>1, MoneyCorrect, PTL

-------------------------------------------------------------------------------
(* What liveness rests on.  That captured money is noticed in the end needs  *)
(* fairness and is left to TLC; that it is never forgotten is an invariant:  *)
(* at every moment somebody has the event or the task in hand.               *)

HasKey(rows, k) == \E i \in DOMAIN rows : rows[i].key = k

LEMMA KeysAppend ==
    ASSUME NEW rows \in Seq(Rows), NEW row \in Rows, NEW k
    PROVE  HasKey(Append(rows, row), k) => HasKey(rows, k) \/ row.key = k
<1>1. /\ DOMAIN Append(rows, row) = 1..(Len(rows) + 1) /\ DOMAIN rows = 1..Len(rows)
      /\ \A i \in 1..Len(rows) : Append(rows, row)[i] = rows[i]
      /\ Append(rows, row)[Len(rows) + 1] = row /\ Len(rows) \in Nat
  BY AppendProperties, LenProperties
<1> QED
  BY <1>1 DEF HasKey

LEMMA KeysOfEvent ==
    ASSUME NEW rows \in Seq(Rows), NEW m \in Messages, NEW k
    PROVE  HasKey(WithEventRow(rows, m), k) => HasKey(rows, k) \/ m.event = k
<1> DEFINE followed == [i \in DOMAIN rows |->
                          IF rows[i].status = "pending"
                          THEN WithStatus(rows[i], EventStatus(m))
                          ELSE rows[i]]
           row == [key |-> m.event, status |-> EventStatus(m)]
<1>1. EventStatus(m) \in RowStatuses
  BY DEF EventStatus, RowStatuses
<1>2. \A i \in DOMAIN rows : rows[i] \in Rows
  BY ElementOfSeq
<1>3. followed \in [1..Len(rows) -> Rows] /\ Len(rows) \in Nat /\ DOMAIN rows = 1..Len(rows)
  BY <1>1, <1>2, WithStatusType
<1>4. followed \in Seq(Rows)
  BY <1>3, SeqDef
<1>5. row \in Rows /\ row.key = m.event
  BY <1>1 DEF Rows, RowKeys, Messages
<1>6. \A i \in DOMAIN rows : followed[i].key = rows[i].key
  BY DEF WithStatus
<1>7. DOMAIN followed = DOMAIN rows
  OBVIOUS
<1>8. WithEventRow(rows, m) = Append(followed, row)
  BY DEF WithEventRow
<1>9. HasKey(followed, k) => HasKey(rows, k)
  BY <1>6, <1>7 DEF HasKey
<1> HIDE DEF followed, row
<1> QED
  BY <1>4, <1>5, <1>8, <1>9, KeysAppend

\* Statements other than UpsertWebhook add no row of an event.
LEMMA RowsStay ==
    ASSUME TypeOK, NEW o \in Orders, NEW e \in Events, ~HasRow(o, e),
           \/ payments'[o] = payments[o]
           \/ payments'[o] = Append(payments[o], [key |-> "intent", status |-> "pending"])
           \/ \E h \in refunds :
                payments'[o] = [payments[o] EXCEPT ![h.row] = WithStatus(@, "refunded")]
    PROVE  ~HasRow(o, e)'
<1> DEFINE old == payments[o]
           new == payments'[o]
<1>1. old \in Seq(Rows) /\ ~HasKey(old, e)
  BY DEF TypeOK, HasRow, HasKey
<1>2. ~HasKey(new, e) => ~HasRow(o, e)'
  BY DEF HasRow, HasKey
<1>3. CASE new = old
  BY <1>1, <1>2, <1>3
<1>4. CASE new = Append(old, [key |-> "intent", status |-> "pending"])
  <2> DEFINE row == [key |-> "intent", status |-> "pending"]
  <2>1. row \in Rows /\ row.key = "intent"
    BY DEF Rows, RowKeys, RowStatuses
  <2>2. new = Append(old, row) /\ e # "intent"
    BY <1>4, EventsAssumption
  <2> HIDE DEF row, old, new
  <2> QED
    BY <1>1, <1>2, <2>1, <2>2, KeysAppend
<1>5. ASSUME NEW h \in refunds, new = [old EXCEPT ![h.row] = WithStatus(@, "refunded")]
      PROVE  ~HasRow(o, e)'
  <2>1. DOMAIN new = DOMAIN old /\ \A i \in DOMAIN old : new[i].key = old[i].key
    BY <1>5 DEF WithStatus
  <2> QED
    BY <1>1, <1>2, <2>1 DEF HasKey
<1> QED
  BY <1>3, <1>4, <1>5

\* The gateway uses an event id once.
OneOfEach == \A m, n \in unacked : m.order = n.order /\ m.event = n.event => m = n

\* An event of captured money that will be recorded when it is delivered next.
Undelivered(o) == \E m \in unacked : m.order = o /\ m.ok /\ ~HasRow(o, m.event)

\* Captured money of an order that is still `created` is in an event the gateway will
\* deliver again, in a handler's hands or in a queued task, unless there was a fault.
Carried(o) ==
    \/ Undelivered(o)
    \/ \E m \in handling : m.order = o
    \/ \E k \in TaskKeys : tasks[o][k] = "queued"
CaptureIsCarried ==
    \A o \in Orders :
        intent[o] = "captured" /\ status[o] = "created" => Carried(o) \/ faults > 0

LEMMA OneOfEachStep == TypeOK /\ OneOfEach /\ [Next]_vars => OneOfEach'
<1> SUFFICES ASSUME TypeOK, OneOfEach, [Next]_vars PROVE OneOfEach'
  OBVIOUS
<1>1. unacked' \subseteq unacked => OneOfEach'
  BY DEF OneOfEach
<1>2. ASSUME NEW p \in Orders, GatewayStep(p) PROVE OneOfEach'
  <2>1. PICK e \in Events, ok \in BOOLEAN : Emit(p, e, ok)
    BY <1>2 DEF GatewayStep, CustomerPays, GatewayNotifies
  <2> DEFINE new == [order |-> p, event |-> e, ok |-> ok]
  <2>2. new.order = p /\ new.event = e /\ unacked' = unacked \cup {new}
        /\ \A m \in unacked : ~(m.order = p /\ m.event = e)
    BY <2>1 DEF Emit, Unsent
  <2> HIDE DEF new
  <2> QED
    BY <2>2 DEF OneOfEach
<1>3. ASSUME NEW p \in Orders, CheckoutStep(p) \/ RequestStep(p) PROVE OneOfEach'
  BY <1>1, <1>3 DEF CheckoutStep, CreateOrder, MockFinalize, CreateIntent, RecordIntent,
     RequestStep, Cancel, Ship, Complete, Transition, RefundRead, gatewayVars
<1>4. ASSUME NEW p \in Orders, NEW k \in TaskKeys, WorkerStep(p, k) PROVE OneOfEach'
  BY <1>1, <1>4 DEF WorkerStep, MarkPaid, RecordSale, EnqueueStockCheck, ExhaustRetries, gatewayVars
<1>5. ASSUME NEW m \in unacked \cup handling, WebhookStep(m) PROVE OneOfEach'
  BY <1>1, <1>5 DEF WebhookStep, UpsertWebhook, ReplayWebhook, EnqueueFinalize, Acknowledge
<1>6. ASSUME NEW h \in refunds, RefundStep(h) PROVE OneOfEach'
  BY <1>1, <1>6 DEF RefundStep, RefundFind, RefundCall, RefundMark, RefundTransition, gatewayVars
<1>7. CASE ServeCrash \/ WorkerCrash \/ UNCHANGED vars
  BY <1>1, <1>7 DEF ServeCrash, WorkerCrash, gatewayVars, vars
<1> QED
  BY <1>2, <1>3, <1>4, <1>5, <1>6, <1>7 DEF Next

\* Without a fault, the gateway's side keeps what is not recorded yet.
LEMMA UndeliveredStays ==
    ASSUME TypeOK, OneOfEach, [Next]_vars, faults' = faults,
           NEW o \in Orders, NEW w \in unacked, w.order = o, w.ok, ~HasRow(o, w.event)
    PROVE  Carried(o)'
<1>1. w \in Messages /\ w.event \in Events /\ w.event \in TaskKeys
  BY DEF TypeOK, Messages, TaskKeys
<1>3. payments' = payments => ~HasRow(o, w.event)'
  BY DEF HasRow
<1>4. w \in unacked' /\ ~HasRow(o, w.event)' => Carried(o)'
  BY DEF Carried, Undelivered
<1>5. w \in unacked' /\ payments' = payments => Carried(o)'
  BY <1>3, <1>4
<1>6. CASE \E m \in unacked \cup handling : WebhookStep(m)
  <2>1. PICK m \in unacked \cup handling : WebhookStep(m)
    BY <1>6
  <2>2. m \in Messages
    BY DEF TypeOK
  <2>3. CASE UpsertWebhook(m)
    <3>1. CASE m = w
      <4>1. w \in handling'
        BY <2>3, <3>1 DEF UpsertWebhook
      <4> QED
        BY <4>1 DEF Carried
    <3>2. CASE m # w
      <4>1. w \in unacked'
        BY <2>3, <3>2 DEF UpsertWebhook, Acknowledge
      <4>2. m \in unacked
        BY <2>3 DEF UpsertWebhook
      <4>3. m.order # o \/ m.event # w.event
        BY <3>2, <4>2 DEF OneOfEach
      <4>4. ~HasRow(o, w.event)'
        <5>1. CASE m.order # o
          <6>1. payments'[o] = payments[o]
            BY <2>2, <2>3, <5>1 DEF UpsertWebhook, TypeOK, Messages
          <6> QED
            BY <6>1 DEF HasRow
        <5>2. CASE m.order = o
          <6>1. payments'[o] = WithEventRow(payments[o], m) /\ payments[o] \in Seq(Rows)
            BY <2>3, <5>2 DEF UpsertWebhook, TypeOK
          <6>2. ~HasKey(payments[o], w.event)
            BY DEF HasRow, HasKey
          <6>3. ~HasKey(payments'[o], w.event)
            BY <2>2, <4>3, <5>2, <6>1, <6>2, KeysOfEvent
          <6> QED
            BY <6>3 DEF HasRow, HasKey
        <5> QED
          BY <5>1, <5>2
      <4> QED
        BY <1>4, <4>1, <4>4
    <3> QED
      BY <3>1, <3>2
  <2>4. CASE ReplayWebhook(m)
    <3>1. m # w
      BY <2>4 DEF ReplayWebhook
    <3> QED
      BY <1>5, <2>4, <3>1 DEF ReplayWebhook
  <2>5. CASE EnqueueFinalize(m)
    <3>1. CASE m = w
      <4>1. tasks' = [tasks EXCEPT ![o][w.event] = "queued"]
        BY <2>5, <3>1 DEF EnqueueFinalize, Fault, TypeOK
      <4>2. tasks'[o][w.event] = "queued"
        BY <1>1, <4>1 DEF TypeOK
      <4> QED
        BY <1>1, <4>2 DEF Carried
    <3>2. CASE m # w
      BY <1>5, <2>5, <3>2 DEF EnqueueFinalize, Acknowledge
    <3> QED
      BY <3>1, <3>2
  <2> QED
    BY <2>1, <2>3, <2>4, <2>5 DEF WebhookStep
<1>7. CASE ~\E m \in unacked \cup handling : WebhookStep(m)
  <2>1. w \in unacked'
    BY <1>7 DEF Next, vars, CheckoutStep, CreateOrder, MockFinalize, CreateIntent, RecordIntent,
       GatewayStep, CustomerPays, GatewayNotifies, Emit, RequestStep, Cancel, Ship, Complete,
       Transition, RefundRead, WorkerStep, MarkPaid, RecordSale, EnqueueStockCheck, ExhaustRetries,
       RefundStep, RefundFind, RefundCall, RefundMark, RefundTransition, ServeCrash, WorkerCrash,
       gatewayVars
  <2> DEFINE Rest == \/ payments'[o] = payments[o]
                     \/ payments'[o] = Append(payments[o], [key |-> "intent", status |-> "pending"])
                     \/ \E h \in refunds :
                          payments'[o] = [payments[o] EXCEPT ![h.row] = WithStatus(@, "refunded")]
  <2>2. ASSUME NEW p \in Orders, CheckoutStep(p) PROVE Rest
    BY <2>2 DEF CheckoutStep, CreateOrder, MockFinalize, CreateIntent, RecordIntent, TypeOK
  <2>3. ASSUME NEW h \in refunds, RefundStep(h) PROVE Rest
    <3>1. CASE RefundMark(h)
      BY <3>1 DEF RefundMark, TypeOK, RefundCalls
    <3> QED
      BY <2>3, <3>1 DEF RefundStep, RefundFind, RefundCall, RefundTransition
  <2>4. ASSUME payments' = payments PROVE Rest
    <3>1. payments'[o] = payments[o]
      BY <2>4
    <3> QED
      BY <3>1
  <2>5. \/ \E p \in Orders : CheckoutStep(p)
        \/ \E h \in refunds : RefundStep(h)
        \/ payments' = payments
    BY <1>7 DEF Next, vars, GatewayStep, CustomerPays, GatewayNotifies, RequestStep, Cancel, Ship,
       Complete, Transition, RefundRead, WorkerStep, MarkPaid, RecordSale, EnqueueStockCheck,
       ExhaustRetries, ServeCrash, WorkerCrash
  <2>6. Rest
    BY <2>2, <2>3, <2>4, <2>5
  <2>7. ~HasRow(o, w.event)'
    BY <1>1, <2>6, RowsStay
  <2> QED
    BY <1>4, <2>1, <2>7
<1> QED
  BY <1>6, <1>7

LEMMA TaskSet ==
    ASSUME TypeOK, NEW p \in Orders, NEW l \in TaskKeys, NEW st,
           tasks' = [tasks EXCEPT ![p][l] = st]
    PROVE  \A o \in Orders, k \in TaskKeys :
               tasks'[o][k] = IF o = p /\ k = l THEN st ELSE tasks[o][k]
<1>1. tasks \in [Orders -> [TaskKeys -> TaskStatuses]]
  BY DEF TypeOK
<1> QED
  BY <1>1

\* Without a fault, a handler ends with its task queued.
LEMMA HandlingStays ==
    ASSUME TypeOK, [Next]_vars, faults' = faults,
           NEW o \in Orders, NEW w \in handling, w.order = o
    PROVE  Carried(o)'
<1>1. w \in Messages /\ w.event \in TaskKeys
  BY DEF TypeOK, Messages, TaskKeys
<1>2. w \in handling' => Carried(o)'
  BY DEF Carried
<1>3. CASE EnqueueFinalize(w)
  <2>1. tasks' = [tasks EXCEPT ![o][w.event] = "queued"]
    BY <1>3 DEF EnqueueFinalize, Fault, TypeOK
  <2>2. tasks'[o][w.event] = "queued"
    BY <1>1, <2>1 DEF TypeOK
  <2> QED
    BY <1>1, <2>2 DEF Carried
<1>4. CASE ~EnqueueFinalize(w)
  <2>1. ASSUME NEW m \in unacked \cup handling, WebhookStep(m) PROVE w \in handling'
    BY <1>4, <2>1 DEF WebhookStep, UpsertWebhook, ReplayWebhook, EnqueueFinalize
  <2>2. ~ServeCrash
    BY DEF ServeCrash, Fault, TypeOK
  <2>3. \/ \E m \in unacked \cup handling : WebhookStep(m)
        \/ handling' = handling
    BY <2>2 DEF Next, vars, CheckoutStep, CreateOrder, MockFinalize, CreateIntent, RecordIntent,
       GatewayStep, CustomerPays, GatewayNotifies, RequestStep, Cancel, Ship, Complete,
       Transition, RefundRead, WorkerStep, MarkPaid, RecordSale, EnqueueStockCheck, ExhaustRetries,
       RefundStep, RefundFind, RefundCall, RefundMark, RefundTransition, WorkerCrash
  <2> QED
    BY <1>2, <2>1, <2>3
<1> QED
  BY <1>3, <1>4

\* Without a fault, a queued task ends by moving the order from `created`.
LEMMA TaskStays ==
    ASSUME TypeOK, [Next]_vars, faults' = faults, NEW o \in Orders, NEW k \in TaskKeys,
           tasks[o][k] = "queued", status'[o] = "created"
    PROVE  tasks'[o][k] = "queued"
<1>1. ASSUME NEW p \in Orders, CheckoutStep(p) PROVE tasks'[o][k] = "queued"
  <2>1. CASE MockFinalize(p)
    <3>1. tasks' = [tasks EXCEPT ![p]["mock"] = "queued"] \/ tasks' = tasks
      BY <2>1 DEF MockFinalize
    <3>2. "mock" \in TaskKeys
      BY DEF TaskKeys
    <3> DEFINE mock == "mock"
    <3>3. CASE tasks' = [tasks EXCEPT ![p][mock] = "queued"]
      <4> HIDE DEF mock
      <4> QED
        BY <3>2, <3>3, TaskSet
    <3> QED
      BY <3>1, <3>3
  <2> QED
    BY <1>1, <2>1 DEF CheckoutStep, CreateOrder, CreateIntent, RecordIntent, workerVars
<1>2. ASSUME NEW p \in Orders, GatewayStep(p) \/ RequestStep(p) PROVE tasks'[o][k] = "queued"
  BY <1>2 DEF GatewayStep, CustomerPays, GatewayNotifies, RequestStep, Cancel, Ship, Complete,
     Transition, RefundRead, workerVars
<1>3. ASSUME NEW p \in Orders, NEW l \in TaskKeys, WorkerStep(p, l) PROVE tasks'[o][k] = "queued"
  <2>1. CASE MarkPaid(p, l)
    <3>1. ~(p = o /\ l = k)
      BY <2>1 DEF MarkPaid, TypeOK, Statuses
    <3>2. tasks' = [tasks EXCEPT ![p][l] = "sale"] \/ tasks' = [tasks EXCEPT ![p][l] = "done"]
      BY <2>1 DEF MarkPaid
    <3>3. tasks'[o][k] = tasks[o][k]
      BY <3>1, <3>2, TaskSet
    <3> QED
      BY <3>3
  <2>2. CASE RecordSale(p, l) \/ EnqueueStockCheck(p, l)
    <3>1. ~(p = o /\ l = k)
      BY <2>2 DEF RecordSale, EnqueueStockCheck
    <3>2. tasks' = [tasks EXCEPT ![p][l] = "check"] \/ tasks' = [tasks EXCEPT ![p][l] = "done"]
      BY <2>2 DEF RecordSale, EnqueueStockCheck
    <3>3. tasks'[o][k] = tasks[o][k]
      BY <3>1, <3>2, TaskSet
    <3> QED
      BY <3>3
  <2>3. CASE ExhaustRetries(p, l)
    BY <2>3 DEF ExhaustRetries, Fault, TypeOK
  <2> QED
    BY <1>3, <2>1, <2>2, <2>3 DEF WorkerStep
<1>4. ASSUME NEW m \in unacked \cup handling, WebhookStep(m) PROVE tasks'[o][k] = "queued"
  <2>1. CASE EnqueueFinalize(m)
    <3>1. m.order \in Orders /\ m.event \in TaskKeys
      BY DEF TypeOK, Messages, TaskKeys
    <3>2. tasks' = [tasks EXCEPT ![m.order][m.event] = "queued"] \/ tasks' = tasks
      BY <2>1 DEF EnqueueFinalize
    <3>3. CASE tasks' = [tasks EXCEPT ![m.order][m.event] = "queued"]
      <4>1. tasks'[o][k] = IF o = m.order /\ k = m.event THEN "queued" ELSE tasks[o][k]
        BY <3>1, <3>3 DEF TypeOK
      <4> QED
        BY <4>1
    <3> QED
      BY <3>2, <3>3
  <2> QED
    BY <1>4, <2>1 DEF WebhookStep, UpsertWebhook, ReplayWebhook, workerVars
<1>5. ASSUME NEW h \in refunds, RefundStep(h) PROVE tasks'[o][k] = "queued"
  BY <1>5 DEF RefundStep, RefundFind, RefundCall, RefundMark, RefundTransition, workerVars
<1>6. CASE ServeCrash \/ WorkerCrash \/ UNCHANGED vars
  BY <1>6 DEF ServeCrash, WorkerCrash, Fault, workerVars, vars, TypeOK
<1> QED
  BY <1>1, <1>2, <1>3, <1>4, <1>5, <1>6 DEF Next

LEMMA FaultsFrame == TypeOK /\ [Next]_vars => faults' = faults \/ faults' = faults + 1
  BY DEF Next, vars, CheckoutStep, CreateOrder, MockFinalize, CreateIntent, RecordIntent,
     GatewayStep, CustomerPays, GatewayNotifies, RequestStep, Cancel, Ship, Complete,
     Transition, RefundRead, WorkerStep, MarkPaid, RecordSale, EnqueueStockCheck, ExhaustRetries,
     WebhookStep, UpsertWebhook, ReplayWebhook, EnqueueFinalize,
     RefundStep, RefundFind, RefundCall, RefundMark, RefundTransition, ServeCrash, WorkerCrash,
     Fault

\* Money is captured together with the first event that says so.
LEMMA CaptureIsEmitted ==
    ASSUME TypeOK, [Next]_vars, NEW o \in Orders, intent[o] = "open", intent'[o] = "captured"
    PROVE  Undelivered(o)'
<1>1. PICK e \in Events : CustomerPays(o, e)
  BY DEF Next, vars, CheckoutStep, CreateOrder, MockFinalize, CreateIntent, RecordIntent,
     GatewayStep, CustomerPays, GatewayNotifies, RequestStep, Cancel, Ship, Complete,
     Transition, RefundRead, WorkerStep, MarkPaid, RecordSale, EnqueueStockCheck, ExhaustRetries,
     WebhookStep, UpsertWebhook, ReplayWebhook, EnqueueFinalize,
     RefundStep, RefundFind, RefundCall, RefundMark, RefundTransition, ServeCrash, WorkerCrash,
     gatewayVars, TypeOK
<1> DEFINE new == [order |-> o, event |-> e, ok |-> TRUE]
<1>2. new \in unacked' /\ new.order = o /\ new.event = e /\ new.ok
  BY <1>1 DEF CustomerPays, Emit
<1>3. ~HasRow(o, e)'
  BY <1>1 DEF CustomerPays, Emit, Unsent, HasRow
<1> HIDE DEF new
<1> QED
  BY <1>2, <1>3 DEF Undelivered

LEMMA CarriedStep ==
    ASSUME TypeOK, MoneyInv, OneOfEach, CaptureIsCarried, [Next]_vars
    PROVE  CaptureIsCarried'
<1> SUFFICES ASSUME NEW o \in Orders, intent'[o] = "captured", status'[o] = "created",
                    ~(faults' > 0)
             PROVE  Carried(o)'
  BY DEF CaptureIsCarried, Carried, Undelivered, HasRow
<1>1. faults' = faults /\ faults = 0
  BY FaultsFrame DEF TypeOK
<1>2. /\ status[o] = "none" => checkout[o] = "none"
      /\ checkout[o] \in {"none", "placed"} => intent[o] = "none"
  BY DEF MoneyInv, OpenedOnce
<1>3. IntentMoves(o) /\ StatusMoves(o)
  BY IntentFrame, StatusFrame
<1>4. CASE intent[o] = "open"
  <2>1. Undelivered(o)'
    BY <1>4, CaptureIsEmitted
  <2> QED
    BY <2>1 DEF Carried
<1>5. CASE intent[o] = "captured"
  <2>1. status[o] = "created"
    BY <1>2, <1>3, <1>5 DEF StatusMoves
  <2>2. Carried(o)
    BY <1>1, <1>5, <2>1 DEF CaptureIsCarried
  <2>3. CASE Undelivered(o)
    BY <1>1, <2>3, UndeliveredStays DEF Undelivered
  <2>4. CASE \E m \in handling : m.order = o
    BY <1>1, <2>4, HandlingStays
  <2>5. CASE \E k \in TaskKeys : tasks[o][k] = "queued"
    <3>1. \E k \in TaskKeys : tasks'[o][k] = "queued"
      BY <1>1, <2>5, TaskStays
    <3> QED
      BY <3>1 DEF Carried
  <2> QED
    BY <2>2, <2>3, <2>4, <2>5 DEF Carried
<1> QED
  BY <1>3, <1>4, <1>5 DEF IntentMoves

\* The safety half of CaptureIsNoticed, which says that captured money is noticed
\* in the end: at no moment, in no interleaving, is it in nobody's hands.  While
\* the order is still `created` and nothing has failed, the gateway will deliver
\* an event that is not recorded yet, or a handler is on its way to the queue,
\* or a finalize task is queued.
THEOREM CapturedMoneyIsCarried == Spec => []CaptureIsCarried
<1> DEFINE I == TypeOK /\ MoneyInv /\ OneOfEach /\ CaptureIsCarried
<1>1. Init => I
  <2>1. Init => OneOfEach /\ CaptureIsCarried
    BY DEF Init, OneOfEach, CaptureIsCarried
  <2> QED
    BY <2>1, TypeInit, MoneyInit
<1>2. I /\ [Next]_vars => I'
  BY TypeStep, MoneyStep, OneOfEachStep, CarriedStep
<1>3. I => CaptureIsCarried
  OBVIOUS
<1> HIDE DEF I
<1> QED
  BY <1>1, <1>2, <1>3, PTL DEF Spec

\* In mock mode no checkout waits for a gateway, and one that is done has left a
\* task for its order, unless there was a fault.
MockIsCarried ==
    Mode = "mock" =>
        \A o \in Orders :
            /\ checkout[o] # "intent"
            /\ checkout[o] = "done" /\ status[o] = "created"
                => faults > 0 \/ tasks[o]["mock"] = "queued"

\* How a checkout gets done in mock mode.
LEMMA MockCheckoutMoves ==
    ASSUME TypeOK, MockIsCarried, Mode = "mock", [Next]_vars, NEW o \in Orders
    PROVE  /\ checkout'[o] # "intent"
           /\ checkout'[o] = "done" =>
                \/ checkout[o] = "done"
                \/ tasks'[o]["mock"] = "queued"
                \/ faults' = faults + 1
<1> DEFINE Goal == /\ checkout'[o] # "intent"
                   /\ checkout'[o] = "done" =>
                        \/ checkout[o] = "done"
                        \/ tasks'[o]["mock"] = "queued"
                        \/ faults' = faults + 1
<1>1. checkout[o] # "intent"
  BY DEF MockIsCarried
<1>2. ASSUME checkout'[o] = checkout[o] PROVE Goal
  BY <1>1, <1>2
<1>3. ASSUME NEW p \in Orders, CheckoutStep(p) PROVE Goal
  <2>1. ~CreateIntent(p) /\ ~RecordIntent(p)
    BY DEF CreateIntent, RecordIntent, MockIsCarried
  <2>2. ASSUME MockFinalize(p) PROVE Goal
    <3>1. "mock" \in TaskKeys
      BY DEF TaskKeys
    <3>2. CASE p # o
      BY <1>2, <2>2, <3>2 DEF MockFinalize, TypeOK
    <3>3. CASE p = o
      <4>1. checkout'[o] = "done"
        BY <2>2, <3>3 DEF MockFinalize, TypeOK
      <4>2. CASE tasks' = [tasks EXCEPT ![o]["mock"] = "queued"]
        <5>1. tasks'[o]["mock"] = "queued"
          BY <3>1, <4>2 DEF TypeOK
        <5> QED
          BY <4>1, <5>1
      <4>3. CASE faults' = faults + 1
        BY <4>1, <4>3
      <4> QED
        BY <2>2, <3>3, <4>2, <4>3 DEF MockFinalize, Fault
    <3> QED
      BY <3>2, <3>3
  <2>3. ASSUME NEW b \in Baskets, CreateOrder(p, b) PROVE Goal
    BY <1>1, <2>3 DEF CreateOrder, TypeOK
  <2> QED
    BY <1>3, <2>1, <2>2, <2>3 DEF CheckoutStep
<1>4. CASE ServeCrash
  BY <1>1, <1>4 DEF ServeCrash, TypeOK
<1>5. \/ \E p \in Orders : CheckoutStep(p)
      \/ ServeCrash
      \/ checkout' = checkout
  BY DEF Next, vars, GatewayStep, CustomerPays, GatewayNotifies, RequestStep, Cancel, Ship,
     Complete, Transition, RefundRead, WorkerStep, MarkPaid, RecordSale, EnqueueStockCheck,
     ExhaustRetries, WebhookStep, UpsertWebhook, ReplayWebhook, EnqueueFinalize,
     RefundStep, RefundFind, RefundCall, RefundMark, RefundTransition, WorkerCrash
<1>6. Goal
  BY <1>2, <1>3, <1>4, <1>5
<1> QED
  BY <1>6

LEMMA MockCarriedStep ==
    ASSUME TypeOK, MoneyInv, MockIsCarried, [Next]_vars
    PROVE  MockIsCarried'
<1> SUFFICES ASSUME Mode = "mock", NEW o \in Orders
             PROVE  /\ checkout'[o] # "intent"
                    /\ checkout'[o] = "done" /\ status'[o] = "created"
                        => faults' > 0 \/ tasks'[o]["mock"] = "queued"
  BY DEF MockIsCarried
<1>1. checkout'[o] # "intent"
  BY MockCheckoutMoves
<1>2. ASSUME checkout'[o] = "done", status'[o] = "created", ~(faults' > 0)
      PROVE  tasks'[o]["mock"] = "queued"
  <2>1. faults' = faults /\ faults = 0
    BY <1>2, FaultsFrame DEF TypeOK
  <2>2. CASE checkout[o] = "done"
    <3>1. status[o] = "created"
      BY <1>2, <2>2, StatusFrame DEF StatusMoves, MoneyInv, OpenedOnce
    <3>2. tasks[o]["mock"] = "queued" /\ "mock" \in TaskKeys
      BY <2>1, <2>2, <3>1 DEF MockIsCarried, TaskKeys
    <3> QED
      BY <1>2, <2>1, <3>2, TaskStays
  <2>3. CASE checkout[o] # "done"
    BY <1>2, <2>1, <2>3, MockCheckoutMoves
  <2> QED
    BY <2>2, <2>3
<1> QED
  BY <1>1, <1>2

\* The safety half of MockCheckoutSettles: in mock mode an order whose checkout
\* answered is settled, or its own task is in the queue, unless a fault lost it.
THEOREM MockOrdersAreCarried == Spec => []MockIsCarried
<1> DEFINE I == TypeOK /\ MoneyInv /\ MockIsCarried
<1>1. Init => I
  <2>1. Init => MockIsCarried
    BY DEF Init, MockIsCarried
  <2> QED
    BY <2>1, TypeInit, MoneyInit
<1>2. I /\ [Next]_vars => I'
  BY TypeStep, MoneyStep, MockCarriedStep
<1>3. I => MockIsCarried
  OBVIOUS
<1> HIDE DEF I
<1> QED
  BY <1>1, <1>2, <1>3, PTL DEF Spec
===============================================================================
