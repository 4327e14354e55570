------------------------ MODULE ItineraryDepositProofs ------------------------
(***************************************************************************)
(* Theorems about ItineraryDeposit, for all sets of requests, intents,     *)
(* deposits and planners and every number of faults.                       *)
(*                                                                         *)
(* The frame lemmas say, variable by variable, what a step may do to it;   *)
(* the inductive invariant and the refinement follow from the frames.      *)
(***************************************************************************)
EXTENDS ItineraryDeposit, DataLemmas, SequenceTheorems, TLAPS

-------------------------------------------------------------------------------
(* Lemmas on rows *)

LEMMA MarkSucceededRows ==
    ASSUME NEW rows \in Seq(Rows), NEW i \in Intents
    PROVE  /\ MarkSucceeded(rows, i) \in Seq(Rows)
           /\ Len(MarkSucceeded(rows, i)) = Len(rows)
           /\ DOMAIN MarkSucceeded(rows, i) = DOMAIN rows
<1>1. \A n \in DOMAIN rows : rows[n] \in Rows
  BY ElementOfSeq
<1>2. \A n \in DOMAIN rows : [rows[n] EXCEPT !.status = "succeeded"] \in Rows
  BY <1>1 DEF Rows
<1>3. MarkSucceeded(rows, i) \in [1..Len(rows) -> Rows] /\ Len(rows) \in Nat
  BY <1>1, <1>2 DEF MarkSucceeded
<1>4. MarkSucceeded(rows, i) \in Seq(Rows)
  BY <1>3, SeqDef
<1>5. DOMAIN MarkSucceeded(rows, i) = 1..Len(rows)
  BY <1>3
<1> QED
  BY <1>3, <1>4, <1>5, LenProperties

IntentRow(i) == [intent |-> i, key |-> "intent", status |-> "pending"]
EventRow(i) == [intent |-> i, key |-> "event", status |-> "succeeded"]
WithEvent(rows, i) == Append(MarkSucceeded(rows, i), EventRow(i))

LEMMA NewRows ==
    ASSUME NEW rows \in Seq(Rows), NEW i \in Intents
    PROVE  Append(rows, IntentRow(i)) \in Seq(Rows) /\ WithEvent(rows, i) \in Seq(Rows)
<1>1. IntentRow(i) \in Rows /\ EventRow(i) \in Rows
  BY DEF IntentRow, EventRow, Rows
<1> QED
  BY <1>1, MarkSucceededRows, AppendProperties DEF WithEvent

\* What the rows of the new table are, one by one.
LEMMA WithEventRows ==
    ASSUME NEW rows \in Seq(Rows), NEW i \in Intents
    PROVE  /\ DOMAIN WithEvent(rows, i) = 1..(Len(rows) + 1)
           /\ \A n \in DOMAIN rows : WithEvent(rows, i)[n] = MarkSucceeded(rows, i)[n]
           /\ WithEvent(rows, i)[Len(rows) + 1] = EventRow(i)
<1>1. EventRow(i) \in Rows
  BY DEF EventRow, Rows
<1> QED
  BY <1>1, MarkSucceededRows, AppendProperties DEF WithEvent

LEMMA MarkRefundedRows ==
    ASSUME NEW rows \in Seq(Rows), NEW n \in Nat
    PROVE  [rows EXCEPT ![n].status = "refunded"] \in Seq(Rows)
<1>1. CASE n \in DOMAIN rows
  <2>1. rows[n] \in Rows
    BY <1>1, ElementOfSeq
  <2>2. [rows[n] EXCEPT !.status = "refunded"] \in Rows
    BY <2>1 DEF Rows
  <2>3. [rows EXCEPT ![n] = [rows[n] EXCEPT !.status = "refunded"]] \in Seq(Rows)
    BY <1>1, <2>2, ExceptSeq
  <2> QED
    BY <2>3
<1>2. CASE n \notin DOMAIN rows
  <2>1. [rows EXCEPT ![n].status = "refunded"] = rows
    BY <1>2
  <2> QED
    BY <2>1
<1> QED
  BY <1>1, <1>2

-------------------------------------------------------------------------------
(* Type correctness *)

LEMMA TypeInit == Init => TypeOK
  BY MaxFaultsAssumption, EmptySeq
  DEF Init, TypeOK, Statuses, QuoteStatuses, Amounts, IntentStates, TaskStatuses

LEMMA FaultType == TypeOK /\ Fault => faults' \in 0..MaxFaults
  BY MaxFaultsAssumption DEF TypeOK, Fault

LEMMA SetIntentType ==
    ASSUME TypeOK, NEW r \in Requests, NEW i \in Intents, NEW st \in IntentStates
    PROVE  [intent EXCEPT ![r][i] = st] \in [Requests -> [Intents -> IntentStates]]
  BY DEF TypeOK

LEMMA SetTaskType ==
    ASSUME TypeOK, NEW r \in Requests, NEW i \in Intents, NEW st \in TaskStatuses
    PROVE  [tasks EXCEPT ![r][i] = st] \in [Requests -> [Intents -> TaskStatuses]]
  BY DEF TypeOK

LEMMA SetAskedType ==
    ASSUME TypeOK, NEW r \in Requests, NEW i \in Intents, NEW x \in Amounts
    PROVE  [asked EXCEPT ![r][i] = x] \in [Requests -> [Intents -> Amounts]]
  BY DEF TypeOK

LEMMA TypePipeline ==
    ASSUME TypeOK, NEW r \in Requests, PipelineStep(r)
    PROVE  TypeOK'
  BY DEF PipelineStep, Submit, Open, Cancel, CancelByStaff, Confirm, Close, Transition,
         TypeOK, Statuses, gatewayVars

LEMMA TypeQuote ==
    ASSUME TypeOK
    PROVE  /\ \A p \in Planners, r \in Requests, x \in Prices : SendQuoteRead(p, r, x) => TypeOK'
           /\ \A c \in quoting : QuoteStep(c) => TypeOK'
<1>1. ASSUME NEW p \in Planners, NEW r \in Requests, NEW x \in Prices, SendQuoteRead(p, r, x)
      PROVE  TypeOK'
  BY <1>1 DEF SendQuoteRead, TypeOK, QuoteCalls, requestVars, gatewayVars
<1>2. ASSUME NEW c \in quoting, QuoteStep(c) PROVE TypeOK'
  <2>1. c \in QuoteCalls /\ [c EXCEPT !.pc = "transition"] \in QuoteCalls
    BY DEF TypeOK, QuoteCalls
  <2>2. CASE CreateQuote(c)
    <3>1. quoting' \subseteq QuoteCalls
      BY <2>1, <2>2 DEF CreateQuote, TypeOK
    <3>2. quote' \in [Requests -> QuoteStatuses] /\ price' \in [Requests -> Amounts]
      BY <2>1, <2>2 DEF CreateQuote, TypeOK, QuoteStatuses, QuoteCalls, Amounts
    <3> QED
      BY <2>2, <3>1, <3>2 DEF CreateQuote, TypeOK, gatewayVars
  <2>3. CASE QuoteTransition(c)
    BY <2>3 DEF QuoteTransition, TypeOK, Statuses, gatewayVars
  <2> QED
    BY <1>2, <2>2, <2>3 DEF QuoteStep
<1> QED
  BY <1>1, <1>2

LEMMA TypeDeposit ==
    ASSUME TypeOK, NEW r \in Requests, NEW i \in Intents, DepositStep(r, i)
    PROVE  TypeOK'
<1> USE DEF requestVars, gatewayVars
<1>1. \A st \in IntentStates :
        [intent EXCEPT ![r][i] = st] \in [Requests -> [Intents -> IntentStates]]
  BY SetIntentType
<1>2. \A st \in TaskStatuses :
        [tasks EXCEPT ![r][i] = st] \in [Requests -> [Intents -> TaskStatuses]]
  BY SetTaskType
<1>3. \A x \in Amounts : [asked EXCEPT ![r][i] = x] \in [Requests -> [Intents -> Amounts]]
  BY SetAskedType
<1>4. payments[r] \in Seq(Rows)
  BY DEF TypeOK
<1>5. \A rows \in Seq(Rows) : [payments EXCEPT ![r] = rows] \in [Requests -> Seq(Rows)]
  BY DEF TypeOK
<1>6. PayDepositCheck(r, i) \/ CustomerPays(r, i) => TypeOK'
  <2> SUFFICES ASSUME PayDepositCheck(r, i) \/ CustomerPays(r, i) PROVE TypeOK'
    OBVIOUS
  <2>1. intent' \in [Requests -> [Intents -> IntentStates]]
    BY <1>1 DEF PayDepositCheck, CustomerPays, IntentStates
  <2> QED
    BY <2>1 DEF PayDepositCheck, CustomerPays, TypeOK
<1>7. PayDepositOpen(r, i) => TypeOK'
  <2> SUFFICES ASSUME PayDepositOpen(r, i) PROVE TypeOK'
    OBVIOUS
  <2>1. intent' \in [Requests -> [Intents -> IntentStates]]
    BY <1>1 DEF PayDepositOpen, IntentStates
  <2>2. asked' \in [Requests -> [Intents -> Amounts]]
    <3>1. price[r] \in Amounts /\ asked \in [Requests -> [Intents -> Amounts]]
      BY DEF TypeOK
    <3> QED
      BY <1>3, <3>1 DEF PayDepositOpen
  <2> QED
    BY <2>1, <2>2 DEF PayDepositOpen, TypeOK
<1>8. RecordIntent(r, i) => TypeOK'
  <2> SUFFICES ASSUME RecordIntent(r, i) PROVE TypeOK'
    OBVIOUS
  <2>1. payments' \in [Requests -> Seq(Rows)]
    <3>1. payments' = [payments EXCEPT ![r] = Append(payments[r], IntentRow(i))]
            \/ payments' = payments
      BY DEF RecordIntent, IntentRow
    <3>2. payments \in [Requests -> Seq(Rows)]
      BY DEF TypeOK
    <3> QED
      BY <1>4, <1>5, <3>1, <3>2, NewRows
  <2>2. intent' \in [Requests -> [Intents -> IntentStates]]
    BY <1>1 DEF RecordIntent, IntentStates
  <2>3. asked' \in [Requests -> [Intents -> Amounts]]
    <3>1. "none" \in Amounts /\ asked \in [Requests -> [Intents -> Amounts]]
      BY DEF TypeOK, Amounts
    <3> QED
      BY <1>3, <3>1 DEF RecordIntent
  <2> QED
    BY <2>1, <2>2, <2>3 DEF RecordIntent, TypeOK
<1>9. Webhook(r, i) => TypeOK'
  <2> SUFFICES ASSUME Webhook(r, i) PROVE TypeOK'
    OBVIOUS
  <2>1. payments' = [payments EXCEPT ![r] = WithEvent(payments[r], i)]
    BY DEF Webhook, WithEvent, EventRow
  <2>2. payments' \in [Requests -> Seq(Rows)]
    BY <1>4, <1>5, <2>1, NewRows
  <2>3. tasks' \in [Requests -> [Intents -> TaskStatuses]] /\ faults' \in 0..MaxFaults
    BY <1>2, FaultType DEF Webhook, TypeOK, TaskStatuses
  <2> QED
    BY <2>2, <2>3 DEF Webhook, TypeOK
<1>10. FinalizeQuote(r, i) => TypeOK'
  <2> SUFFICES ASSUME FinalizeQuote(r, i) PROVE TypeOK'
    OBVIOUS
  <2>1. payments' = [payments EXCEPT ![r] = MarkSucceeded(payments[r], i)]
    BY DEF FinalizeQuote
  <2>2. payments' \in [Requests -> Seq(Rows)]
    BY <1>4, <1>5, <2>1, MarkSucceededRows
  <2>3. tasks' \in [Requests -> [Intents -> TaskStatuses]]
    BY <1>2 DEF FinalizeQuote, TaskStatuses
  <2>4. quote' \in [Requests -> QuoteStatuses]
    BY DEF FinalizeQuote, TypeOK, QuoteStatuses
  <2> QED
    BY <2>2, <2>3, <2>4 DEF FinalizeQuote, TypeOK
<1>11. FinalizeRequest(r, i) => TypeOK'
  <2> SUFFICES ASSUME FinalizeRequest(r, i) PROVE TypeOK'
    OBVIOUS
  <2>1. tasks' \in [Requests -> [Intents -> TaskStatuses]]
    BY <1>2 DEF FinalizeRequest, TaskStatuses
  <2>2. status' \in [Requests -> Statuses]
    BY DEF FinalizeRequest, TypeOK, Statuses
  <2>3. faults' \in 0..MaxFaults
    BY FaultType DEF FinalizeRequest, TypeOK
  <2> QED
    BY <2>1, <2>2, <2>3 DEF FinalizeRequest, TypeOK
<1>12. ExhaustRetries(r, i) => TypeOK'
  BY <1>2, FaultType DEF ExhaustRetries, TypeOK, TaskStatuses
<1> QED
  BY <1>6, <1>7, <1>8, <1>9, <1>10, <1>11, <1>12 DEF DepositStep

LEMMA ResumeType ==
    ASSUME TypeOK, NEW h \in refunds,
           NEW pc \in {"find", "call", "mark", "cancel", "transition"}
    PROVE  Resume(h, pc) \subseteq RefundCalls /\ Return(h) \subseteq RefundCalls
  BY DEF Resume, Return, TypeOK, RefundCalls

LEMMA NewestSucceeded ==
    ASSUME TypeOK, NEW r \in Requests, Succeeded(r) # {}
    PROVE  Max(Succeeded(r)) \in Succeeded(r) /\ Max(Succeeded(r)) \in Nat
<1>1. payments[r] \in Seq(Rows)
  BY DEF TypeOK
<1> DEFINE n == Len(payments[r])
           S == Succeeded(r)
<1>2. n \in Nat /\ S \in SUBSET (1..n) /\ S # {}
  BY <1>1 DEF Succeeded
<1> HIDE DEF n, S
<1>3. Max(S) \in S
  BY <1>2, MaxOfBounded
<1>4. Max(S) \in Nat
  <2>1. Max(S) \in 1..n
    BY <1>2, <1>3
  <2> HIDE DEF S
  <2> QED
    BY <1>2, <2>1
<1> QED
  BY <1>3, <1>4 DEF S

LEMMA TypeRefund ==
    ASSUME TypeOK
    PROVE  /\ \A p \in Refunders, r \in Requests : RefundRead(p, r) => TypeOK'
           /\ \A h \in refunds : RefundStep(h) => TypeOK'
<1> USE DEF requestVars, gatewayVars
<1>1. ASSUME NEW p \in Refunders, NEW r \in Requests, RefundRead(p, r) PROVE TypeOK'
  <2>1. [by |-> p, request |-> r, row |-> 0, pc |-> "find"] \in RefundCalls
    BY DEF RefundCalls
  <2>2. refunds' \subseteq RefundCalls
    BY <1>1, <2>1 DEF RefundRead, TypeOK
  <2> QED
    BY <1>1, <2>2 DEF RefundRead, TypeOK
<1>2. ASSUME NEW h \in refunds, RefundStep(h) PROVE TypeOK'
  <2>1. h \in RefundCalls /\ h.request \in Requests /\ h.row \in Nat
    BY DEF TypeOK, RefundCalls
  <2>2. CASE RefundFind(h)
    <3> DEFINE new == [h EXCEPT !.pc = "call", !.row = Max(Succeeded(h.request))]
    <3>1. Succeeded(h.request) # {} => new \in RefundCalls
      BY <2>1, NewestSucceeded DEF RefundCalls
    <3>2. refunds' \subseteq RefundCalls
      BY <2>2, <3>1, ResumeType DEF RefundFind
    <3> QED
      BY <2>2, <3>2 DEF RefundFind, TypeOK
  <2>3. CASE RefundCall(h)
    <3> DEFINE i == payments[h.request][h.row].intent
    <3>1. refunds' \subseteq RefundCalls
      BY <2>3, ResumeType DEF RefundCall
    <3>2. intent' = [intent EXCEPT ![h.request][i] = "returned"] \/ intent' = intent
      BY <2>3 DEF RefundCall
    <3>3. intent' \in [Requests -> [Intents -> IntentStates]]
      <4> HIDE DEF i
      <4>1. intent \in [Requests -> [Intents -> IntentStates]]
        BY DEF TypeOK
      <4>2. [intent[h.request] EXCEPT ![i] = "returned"] \in [Intents -> IntentStates]
        BY <2>1, <4>1 DEF IntentStates
      <4>3. [intent EXCEPT ![h.request][i] = "returned"] \in [Requests -> [Intents -> IntentStates]]
        BY <2>1, <4>1, <4>2
      <4> QED
        BY <3>2, <4>1, <4>3
    <3>4. faults' \in 0..MaxFaults
      BY <2>3, FaultType DEF RefundCall, TypeOK
    <3> QED
      BY <2>3, <3>1, <3>3, <3>4 DEF RefundCall, TypeOK
  <2>4. CASE RefundMark(h)
    <3> DEFINE marked == [payments[h.request] EXCEPT ![h.row].status = "refunded"]
    <3>1. marked \in Seq(Rows)
      BY <2>1, MarkRefundedRows DEF TypeOK
    <3>2. payments' = [payments EXCEPT ![h.request] = marked] \/ payments' = payments
      BY <2>4 DEF RefundMark
    <3> HIDE DEF marked
    <3>3. payments' \in [Requests -> Seq(Rows)]
      BY <2>1, <3>1, <3>2 DEF TypeOK
    <3>4. refunds' \subseteq RefundCalls
      BY <2>4, ResumeType DEF RefundMark
    <3> QED
      BY <2>4, <3>3, <3>4 DEF RefundMark, TypeOK
  <2>5. CASE CancelQuote(h)
    <3>1. refunds' \subseteq RefundCalls
      BY <2>5, ResumeType DEF CancelQuote
    <3>2. quote' = [quote EXCEPT ![h.request] = "cancelled"] \/ quote' = quote
      BY <2>5 DEF CancelQuote
    <3>3. quote' \in [Requests -> QuoteStatuses]
      BY <2>1, <3>2 DEF TypeOK, QuoteStatuses
    <3> QED
      BY <2>5, <3>1, <3>3 DEF CancelQuote, TypeOK
  <2>6. CASE RefundTransition(h)
    BY <2>1, <2>6, ResumeType DEF RefundTransition, TypeOK, Statuses
  <2> QED
    BY <1>2, <2>2, <2>3, <2>4, <2>5, <2>6 DEF RefundStep
<1> QED
  BY <1>1, <1>2

LEMMA TypeCrash ==
    ASSUME TypeOK
    PROVE  ServeCrash \/ WorkerCrash => TypeOK'
<1>1. ServeCrash => TypeOK'
  <2> SUFFICES ASSUME ServeCrash PROVE TypeOK'
    OBVIOUS
  <2>1. intent' \in [Requests -> [Intents -> IntentStates]]
    BY DEF ServeCrash, TypeOK, IntentStates
  <2>2. "none" \in Amounts /\ asked \in [Requests -> [Intents -> Amounts]]
    BY DEF TypeOK, Amounts
  <2>3. asked' \in [Requests -> [Intents -> Amounts]]
    BY <2>2 DEF ServeCrash
  <2>4. quoting' \subseteq QuoteCalls /\ refunds' \subseteq RefundCalls
    BY DEF ServeCrash
  <2> QED
    BY <2>1, <2>3, <2>4, FaultType DEF ServeCrash, TypeOK, requestVars
<1>2. WorkerCrash => TypeOK'
  BY FaultType DEF WorkerCrash, TypeOK, TaskStatuses, requestVars, gatewayVars
<1> QED
  BY <1>1, <1>2

LEMMA TypeStep == TypeOK /\ [Next]_vars => TypeOK'
<1> SUFFICES ASSUME TypeOK, [Next]_vars PROVE TypeOK'
  OBVIOUS
<1>1. CASE UNCHANGED vars
  BY <1>1 DEF vars, TypeOK
<1>2. CASE Next
  <2>1. ASSUME NEW r \in Requests, PipelineStep(r) PROVE TypeOK'
    BY <2>1, TypePipeline
  <2>2. ASSUME NEW r \in Requests, NEW i \in Intents, DepositStep(r, i) PROVE TypeOK'
    BY <2>2, TypeDeposit
  <2>3. ASSUME NEW p \in Planners, NEW r \in Requests, NEW x \in Prices, SendQuoteRead(p, r, x)
        PROVE  TypeOK'
    BY <2>3, TypeQuote
  <2>4. ASSUME NEW c \in quoting, QuoteStep(c) PROVE TypeOK'
    BY <2>4, TypeQuote
  <2>5. ASSUME NEW p \in Refunders, NEW r \in Requests, RefundRead(p, r) PROVE TypeOK'
    BY <2>5, TypeRefund
  <2>6. ASSUME NEW h \in refunds, RefundStep(h) PROVE TypeOK'
    BY <2>6, TypeRefund
  <2>7. CASE ServeCrash \/ WorkerCrash
    BY <2>7, TypeCrash
  <2> QED
    BY <1>2, <2>1, <2>2, <2>3, <2>4, <2>5, <2>6, <2>7 DEF Next
<1> QED
  BY <1>1, <1>2

\* Every variable keeps its type: the pipeline, the quote and the payment rows
\* never leave the statuses the tables' CHECK constraints allow.
THEOREM TypeCorrect == Spec => []TypeOK
<1>1. Init => TypeOK
  BY TypeInit
<1>2. TypeOK /\ [Next]_vars => TypeOK'
  BY TypeStep
<1> QED
  BY <1>1, <1>2, PTL DEF Spec

-------------------------------------------------------------------------------
(* The inductive invariant *)

\* The ledger claims no money the gateway did not take, and none back that the
\* gateway did not return.
GenuineRows ==
    \A r \in Requests : \A n \in DOMAIN payments[r] :
        /\ payments[r][n].status # "pending" => Taken(r, payments[r][n].intent)
        /\ payments[r][n].status = "refunded" => \E i \in Intents : intent[r][i] = "returned"

\* A finalize task exists for money taken that the ledger shows.
GenuineTasks ==
    \A r \in Requests, i \in Intents :
        tasks[r][i] # "none" =>
            /\ Taken(r, i)
            /\ \E n \in DOMAIN payments[r] : payments[r][n].status # "pending"

\* A quote is paid by a task and cancelled by a refund.
GenuineQuotes ==
    \A r \in Requests :
        /\ quote[r] = "paid" => \E i \in Intents : tasks[r][i] # "none"
        /\ quote[r] = "cancelled" => \E i \in Intents : intent[r][i] = "returned"

\* A refund in flight holds a row of the ledger, and goes past the gateway only
\* with money back.
RefundsInOrder ==
    \A h \in refunds :
        /\ h.pc # "find" => /\ h.row \in DOMAIN payments[h.request]
                            /\ payments[h.request][h.row].status # "pending"
        /\ h.pc \notin {"find", "call"} =>
                \E i \in Intents : intent[h.request][i] = "returned"

\* The quote is written before the request is moved.
QuotesInOrder ==
    /\ QuotedHasQuote
    /\ \A c \in quoting : c.pc = "transition" => quote[c.request] # "none"

\* Intents exist for requests that were quoted.
OfferedHasIntents ==
    \A r \in Requests, i \in Intents :
        intent[r][i] # "none" => status[r] \in Lifecycle!Offered

DepositInv ==
    /\ GenuineRows
    /\ GenuineTasks
    /\ GenuineQuotes
    /\ RefundsInOrder
    /\ QuotesInOrder
    /\ OfferedHasIntents

LEMMA DepositInit == Init => DepositInv
  BY DEF Init, DepositInv, GenuineRows, GenuineTasks, GenuineQuotes, RefundsInOrder,
         QuotesInOrder, QuotedHasQuote, OfferedHasIntents

-------------------------------------------------------------------------------
(* What a step may do to each variable *)

IntentMoves(r, i) ==
    \/ intent'[r][i] = intent[r][i]
    \/ intent[r][i] = "none" /\ status[r] = "quoted" /\ UNCHANGED status
    \/ intent[r][i] \in {"checked", "opened"} /\ ~Taken(r, i)' /\ UNCHANGED status
    \/ intent[r][i] = "payable" /\ intent'[r][i] = "captured" /\ UNCHANGED status
    \/ /\ intent'[r][i] = "returned" /\ UNCHANGED status
       /\ \E h \in refunds : h.request = r /\ h.pc = "call"
                            /\ payments[r][h.row].intent = i

LEMMA IntentFrame ==
    ASSUME TypeOK, [Next]_vars, NEW r \in Requests, NEW i \in Intents
    PROVE  IntentMoves(r, i)
<1> USE DEF gatewayVars, requestVars
<1>1. ASSUME NEW q \in Requests, PipelineStep(q) PROVE IntentMoves(r, i)
  BY <1>1 DEF IntentMoves, PipelineStep, Submit, Open, Cancel, CancelByStaff, Confirm, Close, Transition
<1>2. ASSUME NEW c, QuoteStep(c) PROVE IntentMoves(r, i)
  BY <1>2 DEF IntentMoves, QuoteStep, CreateQuote, QuoteTransition
<1>3. ASSUME NEW q \in Requests, NEW j \in Intents, DepositStep(q, j) PROVE IntentMoves(r, i)
  <2>1. intent[q][j] \in IntentStates /\ intent \in [Requests -> [Intents -> IntentStates]]
    BY DEF TypeOK
  <2>2. ASSUME NEW st, intent' = [intent EXCEPT ![q][j] = st]
        PROVE  intent'[r][i] = IF r = q /\ i = j THEN st ELSE intent[r][i]
    BY <2>1, <2>2
  <2>3. CASE PayDepositCheck(q, j)
    BY <2>2, <2>3 DEF IntentMoves, PayDepositCheck
  <2>4. CASE PayDepositOpen(q, j) \/ RecordIntent(q, j)
    <3>1. intent[q][j] \in {"checked", "opened"} /\ UNCHANGED status
      BY <2>4 DEF PayDepositOpen, RecordIntent
    <3>2. PICK st \in {"none", "opened", "payable"} : intent' = [intent EXCEPT ![q][j] = st]
      BY <2>4 DEF PayDepositOpen, RecordIntent
    <3>3. intent'[r][i] = IF r = q /\ i = j THEN st ELSE intent[r][i]
      BY <2>2, <3>2
    <3> QED
      BY <3>1, <3>2, <3>3 DEF IntentMoves, Taken
  <2>6. CASE CustomerPays(q, j)
    BY <2>2, <2>6 DEF IntentMoves, CustomerPays
  <2> QED
    BY <1>3, <2>3, <2>4, <2>6
    DEF IntentMoves, DepositStep, Webhook, FinalizeQuote, FinalizeRequest, ExhaustRetries
<1>4. ASSUME NEW h \in refunds, RefundStep(h) PROVE IntentMoves(r, i)
  <2>1. CASE RefundCall(h)
    <3>1. h.request \in Requests
      BY DEF TypeOK, RefundCalls
    <3>2. CASE intent' = [intent EXCEPT ![h.request][payments[h.request][h.row].intent] = "returned"]
      <4>1. intent'[r][i] = IF r = h.request /\ i = payments[h.request][h.row].intent
                            THEN "returned" ELSE intent[r][i]
        BY <3>1, <3>2 DEF TypeOK
      <4> QED
        BY <2>1, <4>1 DEF IntentMoves, RefundCall
    <3> QED
      BY <2>1, <3>2 DEF IntentMoves, RefundCall
  <2> QED
    BY <1>4, <2>1 DEF IntentMoves, RefundStep, RefundFind, RefundMark, CancelQuote, RefundTransition
<1>5. CASE ServeCrash
  <2>1. intent'[r][i] = IF intent[r][i] \in {"checked", "opened"} THEN "none" ELSE intent[r][i]
    BY <1>5 DEF ServeCrash
  <2> QED
    BY <1>5, <2>1 DEF IntentMoves, ServeCrash, Taken
<1>6. CASE WorkerCrash \/ UNCHANGED vars
  BY <1>6 DEF IntentMoves, WorkerCrash, vars
<1>7. ASSUME NEW q \in Requests,
             \/ \E p \in Planners, x \in Prices : SendQuoteRead(p, q, x)
             \/ \E p \in Refunders : RefundRead(p, q)
      PROVE  IntentMoves(r, i)
  BY <1>7 DEF IntentMoves, SendQuoteRead, RefundRead
<1> QED
  BY <1>1, <1>2, <1>3, <1>4, <1>5, <1>6, <1>7 DEF Next

LEMMA TakenIsStable ==
    ASSUME TypeOK, [Next]_vars, NEW r \in Requests, NEW i \in Intents
    PROVE  /\ Taken(r, i) => Taken(r, i)'
           /\ intent[r][i] = "returned" => intent'[r][i] = "returned"
  BY IntentFrame DEF IntentMoves, Taken

RowsMove(r) ==
    \/ payments'[r] = payments[r]
    \/ \E i \in Intents : payments'[r] = Append(payments[r], IntentRow(i))
    \/ \E i \in Intents :
        /\ Taken(r, i)
        /\ payments'[r] = WithEvent(payments[r], i)
        /\ tasks'[r][i] = "queued" \/ faults' = faults + 1
    \/ \E i \in Intents : tasks[r][i] = "queued" /\ payments'[r] = MarkSucceeded(payments[r], i)
    \/ \E h \in refunds :
        /\ h.request = r /\ h.pc = "mark"
        /\ payments[r][h.row].status = "succeeded"
        /\ payments'[r] = [payments[r] EXCEPT ![h.row].status = "refunded"]

LEMMA RowsFrame ==
    ASSUME TypeOK, [Next]_vars, NEW r \in Requests
    PROVE  RowsMove(r)
<1> USE DEF gatewayVars, requestVars
<1>1. ASSUME NEW q \in Requests, PipelineStep(q) PROVE RowsMove(r)
  BY <1>1 DEF RowsMove, PipelineStep, Submit, Open, Cancel, CancelByStaff, Confirm, Close, Transition
<1>2. ASSUME NEW c, QuoteStep(c) PROVE RowsMove(r)
  BY <1>2 DEF RowsMove, QuoteStep, CreateQuote, QuoteTransition
<1>3. ASSUME NEW q \in Requests, NEW j \in Intents, DepositStep(q, j) PROVE RowsMove(r)
  <2>1. CASE RecordIntent(q, j)
    BY <2>1 DEF RowsMove, RecordIntent, IntentRow, TypeOK
  <2>2. CASE Webhook(q, j)
    <3>1. payments' = [payments EXCEPT ![q] = WithEvent(payments[q], j)] /\ Taken(q, j)
      BY <2>2 DEF Webhook, WithEvent, EventRow, Taken
    <3>2. payments'[r] = IF r = q THEN WithEvent(payments[r], j) ELSE payments[r]
      BY <3>1 DEF TypeOK
    <3>3. tasks'[q][j] = "queued" \/ faults' = faults + 1
      BY <2>2 DEF Webhook, Fault, TypeOK
    <3> QED
      BY <3>1, <3>2, <3>3 DEF RowsMove
  <2>3. CASE FinalizeQuote(q, j)
    BY <2>3 DEF RowsMove, FinalizeQuote, TypeOK
  <2> QED
    BY <1>3, <2>1, <2>2, <2>3
    DEF RowsMove, DepositStep, PayDepositCheck, PayDepositOpen, CustomerPays, FinalizeRequest, ExhaustRetries
<1>4. ASSUME NEW h \in refunds, RefundStep(h) PROVE RowsMove(r)
  <2>1. CASE RefundMark(h)
    BY <2>1 DEF RowsMove, RefundMark, TypeOK, RefundCalls
  <2> QED
    BY <1>4, <2>1 DEF RowsMove, RefundStep, RefundFind, RefundCall, CancelQuote, RefundTransition
<1>5. CASE ServeCrash \/ WorkerCrash \/ UNCHANGED vars
  BY <1>5 DEF RowsMove, ServeCrash, WorkerCrash, vars
<1>6. ASSUME NEW q \in Requests,
             \/ \E p \in Planners, x \in Prices : SendQuoteRead(p, q, x)
             \/ \E p \in Refunders : RefundRead(p, q)
      PROVE  RowsMove(r)
  BY <1>6 DEF RowsMove, SendQuoteRead, RefundRead
<1> QED
  BY <1>1, <1>2, <1>3, <1>4, <1>5, <1>6 DEF Next

\* Rows are never dropped, never change their intent, never become pending
\* again.
Stays(r, n) ==
    /\ n \in DOMAIN payments'[r]
    /\ payments'[r][n].intent = payments[r][n].intent
    /\ payments[r][n].status # "pending" => payments'[r][n].status # "pending"

LEMMA RowsStay ==
    ASSUME TypeOK, [Next]_vars, NEW r \in Requests, NEW n \in DOMAIN payments[r]
    PROVE  Stays(r, n)
<1>1. /\ payments[r] \in Seq(Rows) /\ Len(payments[r]) \in Nat
      /\ n \in 1..Len(payments[r]) /\ payments[r][n] \in Rows
  BY ElementOfSeq DEF TypeOK
<1>2. CASE payments'[r] = payments[r]
  BY <1>2 DEF Stays
<1>3. ASSUME NEW i \in Intents, payments'[r] = Append(payments[r], IntentRow(i))
      PROVE  Stays(r, n)
  <2>1. IntentRow(i) \in Rows
    BY DEF IntentRow, Rows
  <2> QED
    BY <1>1, <1>3, <2>1, AppendProperties DEF Stays
<1>4. ASSUME NEW i \in Intents
      PROVE  /\ n \in DOMAIN MarkSucceeded(payments[r], i)
             /\ MarkSucceeded(payments[r], i)[n].intent = payments[r][n].intent
             /\ payments[r][n].status # "pending" =>
                    MarkSucceeded(payments[r], i)[n].status = payments[r][n].status
  BY <1>1 DEF MarkSucceeded, Rows
<1>5. ASSUME NEW i \in Intents, payments'[r] = WithEvent(payments[r], i)
      PROVE  Stays(r, n)
  <2>1. n \in DOMAIN payments'[r] /\ payments'[r][n] = MarkSucceeded(payments[r], i)[n]
    BY <1>1, <1>5, WithEventRows
  <2> QED
    BY <1>4, <2>1 DEF Stays
<1>6. ASSUME NEW i \in Intents, payments'[r] = MarkSucceeded(payments[r], i)
      PROVE  Stays(r, n)
  BY <1>4, <1>6 DEF Stays
<1>7. ASSUME NEW h \in refunds, payments'[r] = [payments[r] EXCEPT ![h.row].status = "refunded"]
      PROVE  Stays(r, n)
  <2>1. payments'[r][n] = IF n = h.row THEN [payments[r][n] EXCEPT !.status = "refunded"]
                          ELSE payments[r][n]
    BY <1>1, <1>7
  <2>2. DOMAIN payments'[r] = DOMAIN payments[r]
    BY <1>7
  <2> QED
    BY <1>1, <2>1, <2>2 DEF Rows, Stays
<1>8. RowsMove(r)
  BY RowsFrame
<1> QED
  BY <1>2, <1>3, <1>5, <1>6, <1>7, <1>8, Zenon DEF RowsMove

\* A row that is not pending was so before, or stands for money taken, or is
\* refunded by a refund at that step.
RowMoves(r, n) ==
    \/ payments'[r][n].status = "pending"
    \/ n \in DOMAIN payments[r] /\ payments'[r][n].status = payments[r][n].status
    \/ /\ payments'[r][n].status = "succeeded"
       /\ \E i \in Intents : /\ payments'[r][n].intent = i
                             /\ Taken(r, i) \/ tasks[r][i] # "none"
    \/ /\ n \in DOMAIN payments[r] /\ payments[r][n].status = "succeeded"
       /\ \E h \in refunds : h.request = r /\ h.pc = "mark"

LEMMA RowOrigin ==
    ASSUME TypeOK, [Next]_vars, NEW r \in Requests, NEW n \in DOMAIN payments'[r]
    PROVE  RowMoves(r, n)
<1>1. payments[r] \in Seq(Rows) /\ Len(payments[r]) \in Nat
  BY DEF TypeOK
<1>2. CASE payments'[r] = payments[r]
  BY <1>2 DEF RowMoves
<1>3. ASSUME NEW i \in Intents, payments'[r] = Append(payments[r], IntentRow(i))
      PROVE  RowMoves(r, n)
  <2>1. IntentRow(i) \in Rows
    BY DEF IntentRow, Rows
  <2>2. n \in 1..(Len(payments[r]) + 1)
    BY <1>1, <1>3, <2>1, AppendProperties
  <2>3. CASE n \in DOMAIN payments[r]
    BY <1>1, <1>3, <2>1, <2>3, AppendProperties DEF RowMoves
  <2>4. CASE n = Len(payments[r]) + 1
    BY <1>1, <1>3, <2>1, <2>4, AppendProperties DEF RowMoves, IntentRow
  <2> QED
    BY <1>1, <2>2, <2>3, <2>4
<1>4. ASSUME NEW i \in Intents, NEW k \in DOMAIN payments[r]
      PROVE  LET row == MarkSucceeded(payments[r], i)[k] IN
             \/ row = payments[r][k]
             \/ row.status = "succeeded" /\ row.intent = i
  <2>1. payments[r][k] \in Rows
    BY <1>1, ElementOfSeq
  <2> QED
    BY <2>1 DEF MarkSucceeded, Rows
<1>5. ASSUME NEW i \in Intents, Taken(r, i), payments'[r] = WithEvent(payments[r], i)
      PROVE  RowMoves(r, n)
  <2>1. n \in 1..(Len(payments[r]) + 1)
    BY <1>1, <1>5, WithEventRows
  <2>2. CASE n \in DOMAIN payments[r]
    <3>1. payments'[r][n] = MarkSucceeded(payments[r], i)[n]
      BY <1>1, <1>5, <2>2, WithEventRows
    <3> QED
      BY <1>4, <1>5, <2>2, <3>1 DEF RowMoves
  <2>3. CASE n = Len(payments[r]) + 1
    <3>1. payments'[r][n] = EventRow(i)
      BY <1>1, <1>5, <2>3, WithEventRows
    <3> QED
      BY <1>5, <3>1 DEF RowMoves, EventRow
  <2> QED
    BY <1>1, <2>1, <2>2, <2>3
<1>6. ASSUME NEW i \in Intents, tasks[r][i] = "queued", payments'[r] = MarkSucceeded(payments[r], i)
      PROVE  RowMoves(r, n)
  <2>1. n \in DOMAIN payments[r]
    BY <1>1, <1>6, MarkSucceededRows
  <2> QED
    BY <1>4, <1>6, <2>1 DEF RowMoves
<1>7. ASSUME NEW h \in refunds, h.request = r, h.pc = "mark",
             payments[r][h.row].status = "succeeded",
             payments'[r] = [payments[r] EXCEPT ![h.row].status = "refunded"]
      PROVE  RowMoves(r, n)
  BY <1>1, <1>7 DEF RowMoves
<1> QED
  BY <1>2, <1>3, <1>5, <1>6, <1>7, RowsFrame DEF RowsMove

TaskMoves(r, i) ==
    \/ tasks'[r][i] = tasks[r][i]
    \/ tasks[r][i] # "none" /\ tasks'[r][i] # "none"
    \/ Taken(r, i) /\ tasks'[r][i] = "queued" /\ payments'[r] = WithEvent(payments[r], i)

LEMMA TaskFrame ==
    ASSUME TypeOK, [Next]_vars, NEW r \in Requests, NEW i \in Intents
    PROVE  TaskMoves(r, i)
<1>1. ASSUME NEW q \in Requests, PipelineStep(q) PROVE TaskMoves(r, i)
  BY <1>1 DEF TaskMoves, PipelineStep, Submit, Open, Cancel, CancelByStaff, Confirm, Close, Transition
<1>2. ASSUME NEW c, QuoteStep(c) PROVE TaskMoves(r, i)
  BY <1>2 DEF TaskMoves, QuoteStep, CreateQuote, QuoteTransition
<1>3. ASSUME NEW q \in Requests, NEW j \in Intents, DepositStep(q, j) PROVE TaskMoves(r, i)
  <2>1. CASE Webhook(q, j)
    <3>1. payments' = [payments EXCEPT ![q] = WithEvent(payments[q], j)] /\ Taken(q, j)
      BY <2>1 DEF Webhook, WithEvent, EventRow, Taken
    <3>2. payments'[q] = WithEvent(payments[q], j)
      BY <3>1 DEF TypeOK
    <3>3. CASE tasks' = [tasks EXCEPT ![q][j] = "queued"]
      <4>1. tasks'[r][i] = IF r = q /\ i = j THEN "queued" ELSE tasks[r][i]
        BY <3>3 DEF TypeOK
      <4> QED
        BY <3>1, <3>2, <4>1 DEF TaskMoves
    <3>4. CASE tasks' = tasks
      BY <3>4 DEF TaskMoves
    <3> QED
      BY <2>1, <3>3, <3>4 DEF Webhook
  <2>2. CASE FinalizeQuote(q, j) \/ FinalizeRequest(q, j) \/ ExhaustRetries(q, j)
    <3>1. PICK st \in TaskStatuses \ {"none"} : tasks' = [tasks EXCEPT ![q][j] = st]
      BY <2>2 DEF FinalizeQuote, FinalizeRequest, ExhaustRetries, TaskStatuses
    <3>2. tasks[q][j] # "none"
      BY <2>2 DEF FinalizeQuote, FinalizeRequest, ExhaustRetries
    <3>3. tasks'[r][i] = IF r = q /\ i = j THEN st ELSE tasks[r][i]
      BY <3>1 DEF TypeOK
    <3> QED
      BY <3>1, <3>2, <3>3 DEF TaskMoves
  <2> QED
    BY <1>3, <2>1, <2>2
    DEF TaskMoves, DepositStep, PayDepositCheck, PayDepositOpen, RecordIntent, CustomerPays
<1>4. ASSUME NEW h \in refunds, RefundStep(h) PROVE TaskMoves(r, i)
  BY <1>4 DEF TaskMoves, RefundStep, RefundFind, RefundCall, RefundMark, CancelQuote, RefundTransition
<1>5. CASE WorkerCrash
  <2>1. tasks'[r][i] = IF tasks[r][i] = "request" THEN "queued" ELSE tasks[r][i]
    BY <1>5 DEF WorkerCrash
  <2> QED
    BY <2>1 DEF TaskMoves
<1>6. CASE ServeCrash \/ UNCHANGED vars
  BY <1>6 DEF TaskMoves, ServeCrash, vars
<1>7. ASSUME NEW q \in Requests,
             \/ \E p \in Planners, x \in Prices : SendQuoteRead(p, q, x)
             \/ \E p \in Refunders : RefundRead(p, q)
      PROVE  TaskMoves(r, i)
  BY <1>7 DEF TaskMoves, SendQuoteRead, RefundRead
<1> QED
  BY <1>1, <1>2, <1>3, <1>4, <1>5, <1>6, <1>7 DEF Next

QuoteMoves(r) ==
    \/ quote'[r] = quote[r]
    \/ quote'[r] = "sent"
    \/ quote'[r] = "paid" /\ \E i \in Intents : tasks'[r][i] # "none"
    \/ /\ quote'[r] = "cancelled"
       /\ \E h \in refunds : h.request = r /\ h.pc = "cancel"

LEMMA QuoteFrame ==
    ASSUME TypeOK, [Next]_vars, NEW r \in Requests
    PROVE  QuoteMoves(r)
<1> USE DEF requestVars
<1>1. ASSUME NEW q \in Requests, PipelineStep(q) PROVE QuoteMoves(r)
  BY <1>1 DEF QuoteMoves, PipelineStep, Submit, Open, Cancel, CancelByStaff, Confirm, Close, Transition
<1>2. ASSUME NEW c \in quoting, QuoteStep(c) PROVE QuoteMoves(r)
  BY <1>2 DEF QuoteMoves, QuoteStep, CreateQuote, QuoteTransition, TypeOK, QuoteCalls
<1>3. ASSUME NEW q \in Requests, NEW j \in Intents, DepositStep(q, j) PROVE QuoteMoves(r)
  <2>1. CASE FinalizeQuote(q, j) /\ quote[q] = "sent"
    <3>1. quote'[r] = (IF r = q THEN "paid" ELSE quote[r]) /\ tasks'[q][j] = "request"
      BY <2>1 DEF FinalizeQuote, TypeOK
    <3> QED
      BY <3>1 DEF QuoteMoves
  <2>2. CASE FinalizeQuote(q, j) /\ quote[q] # "sent"
    BY <2>2 DEF QuoteMoves, FinalizeQuote
  <2> QED
    BY <1>3, <2>1, <2>2
    DEF QuoteMoves, DepositStep, PayDepositCheck, PayDepositOpen, RecordIntent, CustomerPays,
        Webhook, FinalizeRequest, ExhaustRetries
<1>4. ASSUME NEW h \in refunds, RefundStep(h) PROVE QuoteMoves(r)
  <2>1. CASE CancelQuote(h)
    BY <2>1 DEF QuoteMoves, CancelQuote, TypeOK, RefundCalls
  <2> QED
    BY <1>4, <2>1 DEF QuoteMoves, RefundStep, RefundFind, RefundCall, RefundMark, RefundTransition
<1>5. CASE ServeCrash \/ WorkerCrash \/ UNCHANGED vars
  BY <1>5 DEF QuoteMoves, ServeCrash, WorkerCrash, vars
<1>6. ASSUME NEW q \in Requests,
             \/ \E p \in Planners, x \in Prices : SendQuoteRead(p, q, x)
             \/ \E p \in Refunders : RefundRead(p, q)
      PROVE  QuoteMoves(r)
  BY <1>6 DEF QuoteMoves, SendQuoteRead, RefundRead
<1> QED
  BY <1>1, <1>2, <1>3, <1>4, <1>5, <1>6 DEF Next

StatusMoves(r) ==
    \/ status'[r] = status[r]
    \/ /\ status[r] = "processing" /\ status'[r] = "quoted"
       /\ \E c \in quoting : c.request = r /\ c.pc = "transition"
    \/ status[r] = "quoted" /\ status'[r] = "deposit_paid"
    \/ status[r] = "deposit_paid" /\ status'[r] \in {"confirmed", "cancelled"}
    \/ /\ status[r] \in {"none", "pending", "processing"}
       /\ status'[r] \in {"pending", "processing", "cancelled", "closed"}

LEMMA StatusFrame ==
    ASSUME TypeOK, [Next]_vars, NEW r \in Requests
    PROVE  StatusMoves(r)
<1> USE DEF requestVars
<1>1. ASSUME NEW q \in Requests, PipelineStep(q) PROVE StatusMoves(r)
  <2>1. ASSUME NEW from, NEW to, Transition(q, from, to)
        PROVE  status'[r] = status[r] \/ (status[r] = from /\ status'[r] = to)
    BY <2>1 DEF Transition, TypeOK
  <2>2. ASSUME NEW from \in {"none", "pending", "processing"},
               NEW to \in {"pending", "processing", "cancelled", "closed"},
               Transition(q, from, to)
        PROVE  StatusMoves(r)
    BY <2>1, <2>2 DEF StatusMoves
  <2>3. CASE Confirm(q)
    BY <2>1, <2>3 DEF StatusMoves, Confirm
  <2> QED
    BY <1>1, <2>2, <2>3 DEF PipelineStep, Submit, Open, Cancel, CancelByStaff, Close
<1>2. ASSUME NEW c \in quoting, QuoteStep(c) PROVE StatusMoves(r)
  BY <1>2 DEF StatusMoves, QuoteStep, CreateQuote, QuoteTransition, TypeOK, QuoteCalls
<1>3. ASSUME NEW q \in Requests, NEW j \in Intents, DepositStep(q, j) PROVE StatusMoves(r)
  BY <1>3
  DEF StatusMoves, DepositStep, PayDepositCheck, PayDepositOpen, RecordIntent, CustomerPays,
      Webhook, FinalizeQuote, FinalizeRequest, ExhaustRetries, TypeOK
<1>4. ASSUME NEW h \in refunds, RefundStep(h) PROVE StatusMoves(r)
  BY <1>4
  DEF StatusMoves, RefundStep, RefundFind, RefundCall, RefundMark, CancelQuote, RefundTransition,
      TypeOK, RefundCalls
<1>5. CASE ServeCrash \/ WorkerCrash \/ UNCHANGED vars
  BY <1>5 DEF StatusMoves, ServeCrash, WorkerCrash, vars
<1>6. ASSUME NEW q \in Requests,
             \/ \E p \in Planners, x \in Prices : SendQuoteRead(p, q, x)
             \/ \E p \in Refunders : RefundRead(p, q)
      PROVE  StatusMoves(r)
  BY <1>6 DEF StatusMoves, SendQuoteRead, RefundRead
<1> QED
  BY <1>1, <1>2, <1>3, <1>4, <1>5, <1>6 DEF Next

\* Where a SendQuote in flight comes from.
QuoteCallOrigin(c) ==
    c \in quoting \/ c.pc = "create" \/ quote'[c.request] = "sent"

LEMMA QuoteCallFrame ==
    ASSUME TypeOK, [Next]_vars, NEW c \in quoting'
    PROVE  QuoteCallOrigin(c)
<1>1. ASSUME NEW q \in Requests, PipelineStep(q) PROVE QuoteCallOrigin(c)
  BY <1>1 DEF QuoteCallOrigin, PipelineStep, Submit, Open, Cancel, CancelByStaff, Confirm, Close, Transition
<1>2. ASSUME NEW d \in quoting, QuoteStep(d) PROVE QuoteCallOrigin(c)
  <2>1. d \in QuoteCalls
    BY DEF TypeOK
  <2>2. CASE c = [d EXCEPT !.pc = "transition"] /\ CreateQuote(d)
    <3>1. c.request = d.request /\ d.request \in Requests
      BY <2>1, <2>2 DEF QuoteCalls
    <3>2. quote'[d.request] = "sent"
      BY <2>2, <3>1 DEF CreateQuote, TypeOK
    <3> QED
      BY <3>1, <3>2 DEF QuoteCallOrigin
  <2>3. c \in quoting \/ (c = [d EXCEPT !.pc = "transition"] /\ CreateQuote(d))
    BY <1>2 DEF QuoteStep, CreateQuote, QuoteTransition
  <2> QED
    BY <2>2, <2>3 DEF QuoteCallOrigin
<1>3. ASSUME NEW q \in Requests, NEW j \in Intents, DepositStep(q, j) PROVE QuoteCallOrigin(c)
  BY <1>3
  DEF QuoteCallOrigin, DepositStep, PayDepositCheck, PayDepositOpen, RecordIntent, CustomerPays,
      Webhook, FinalizeQuote, FinalizeRequest, ExhaustRetries
<1>4. ASSUME NEW h \in refunds, RefundStep(h) PROVE QuoteCallOrigin(c)
  BY <1>4
  DEF QuoteCallOrigin, RefundStep, RefundFind, RefundCall, RefundMark, CancelQuote, RefundTransition
<1>5. CASE ServeCrash \/ WorkerCrash \/ UNCHANGED vars
  BY <1>5 DEF QuoteCallOrigin, ServeCrash, WorkerCrash, vars
<1>6. ASSUME NEW q \in Requests,
             \/ \E p \in Planners, x \in Prices : SendQuoteRead(p, q, x)
             \/ \E p \in Refunders : RefundRead(p, q)
      PROVE  QuoteCallOrigin(c)
  BY <1>6 DEF QuoteCallOrigin, SendQuoteRead, RefundRead
<1> QED
  BY <1>1, <1>2, <1>3, <1>4, <1>5, <1>6 DEF Next

\* Where a RefundDeposit in flight comes from: a step of a call in flight keeps
\* its row.
RefundOrigin(h) ==
    \/ h \in refunds
    \/ h.pc = "find"
    \/ h.pc = "call" /\ h.request \in Requests /\ UNCHANGED payments
       /\ h.row \in Succeeded(h.request)
    \/ \E g \in refunds :
        /\ g.request = h.request /\ g.row = h.row
        /\ \/ /\ g.pc = "call" /\ h.pc = "mark"
              /\ intent' = [intent EXCEPT ![h.request][payments[h.request][h.row].intent] = "returned"]
           \/ g.pc \in {"mark", "cancel"} /\ h.pc \notin {"find", "call"}

LEMMA RefundFrame ==
    ASSUME TypeOK, [Next]_vars, NEW h \in refunds'
    PROVE  RefundOrigin(h)
<1>1. ASSUME NEW q \in Requests, PipelineStep(q) PROVE RefundOrigin(h)
  BY <1>1 DEF RefundOrigin, PipelineStep, Submit, Open, Cancel, CancelByStaff, Confirm, Close, Transition
<1>2. ASSUME NEW c \in quoting, QuoteStep(c) PROVE RefundOrigin(h)
  BY <1>2 DEF RefundOrigin, QuoteStep, CreateQuote, QuoteTransition
<1>3. ASSUME NEW q \in Requests, NEW j \in Intents, DepositStep(q, j) PROVE RefundOrigin(h)
  BY <1>3
  DEF RefundOrigin, DepositStep, PayDepositCheck, PayDepositOpen, RecordIntent, CustomerPays,
      Webhook, FinalizeQuote, FinalizeRequest, ExhaustRetries
<1>4. ASSUME NEW g \in refunds, RefundStep(g) PROVE RefundOrigin(h)
  <2>1. g \in RefundCalls
    BY DEF TypeOK
  <2>2. CASE RefundFind(g)
    <3>1. CASE /\ h = [g EXCEPT !.pc = "call", !.row = Max(Succeeded(g.request))]
               /\ Succeeded(g.request) # {}
      <4>1. g.request \in Requests
        BY <2>1 DEF RefundCalls
      <4>2. Max(Succeeded(g.request)) \in Succeeded(g.request)
        BY <3>1, <4>1, NewestSucceeded
      <4>3. h.pc = "call" /\ h.request = g.request /\ h.row = Max(Succeeded(g.request))
        BY <2>1, <3>1 DEF RefundCalls
      <4> QED
        BY <2>2, <4>1, <4>2, <4>3 DEF RefundOrigin, RefundFind
    <3>2. \/ h \in refunds
          \/ /\ h = [g EXCEPT !.pc = "call", !.row = Max(Succeeded(g.request))]
             /\ Succeeded(g.request) # {}
      BY <2>2 DEF RefundFind, Return
    <3> QED
      BY <3>1, <3>2 DEF RefundOrigin
  <2>3. ASSUME NEW pc, h = [g EXCEPT !.pc = pc]
        PROVE  h.pc = pc /\ h.request = g.request /\ h.row = g.row
    BY <2>1, <2>3 DEF RefundCalls
  <2>4. CASE RefundCall(g)
    <3>1. h \in refunds \/
            /\ h = [g EXCEPT !.pc = "mark"] /\ g.pc = "call"
            /\ intent' = [intent EXCEPT ![g.request][payments[g.request][g.row].intent] = "returned"]
      BY <2>4 DEF RefundCall, Resume, Return
    <3> QED
      BY <2>3, <3>1 DEF RefundOrigin
  <2>5. CASE RefundMark(g) \/ CancelQuote(g)
    <3>1. g.pc \in {"mark", "cancel"}
      BY <2>5 DEF RefundMark, CancelQuote
    <3>2. h \in refunds \/ \E pc \in {"cancel", "transition"} : h = [g EXCEPT !.pc = pc]
      BY <2>5 DEF RefundMark, CancelQuote, Resume, Return
    <3>3. ASSUME NEW pc \in {"cancel", "transition"}, h = [g EXCEPT !.pc = pc]
          PROVE  RefundOrigin(h)
      BY <2>3, <3>1, <3>3 DEF RefundOrigin
    <3> QED
      BY <3>2, <3>3 DEF RefundOrigin
  <2>6. CASE RefundTransition(g)
    BY <2>6 DEF RefundOrigin, RefundTransition, Return
  <2> QED
    BY <1>4, <2>2, <2>4, <2>5, <2>6 DEF RefundStep
<1>5. CASE ServeCrash \/ WorkerCrash \/ UNCHANGED vars
  BY <1>5 DEF RefundOrigin, ServeCrash, WorkerCrash, vars
<1>6. ASSUME NEW q \in Requests,
             \/ \E p \in Planners, x \in Prices : SendQuoteRead(p, q, x)
             \/ \E p \in Refunders : RefundRead(p, q)
      PROVE  RefundOrigin(h)
  BY <1>6 DEF RefundOrigin, SendQuoteRead, RefundRead
<1> QED
  BY <1>1, <1>2, <1>3, <1>4, <1>5, <1>6 DEF Next

-------------------------------------------------------------------------------
(* Every step preserves the invariant *)

LEMMA ReturnedIsStable ==
    ASSUME TypeOK, [Next]_vars, NEW r \in Requests,
           \E i \in Intents : intent[r][i] = "returned"
    PROVE  \E i \in Intents : intent'[r][i] = "returned"
  BY TakenIsStable

LEMMA TasksAreStable ==
    ASSUME TypeOK, [Next]_vars, NEW r \in Requests, NEW i \in Intents, tasks[r][i] # "none"
    PROVE  tasks'[r][i] # "none"
  BY TaskFrame DEF TaskMoves

\* The money of an intent after the step.
Funded(r, i) == intent'[r][i] \in {"captured", "returned"}

LEMMA GenuineRowsStep == TypeOK /\ DepositInv /\ [Next]_vars => GenuineRows'
<1> SUFFICES ASSUME TypeOK, DepositInv, [Next]_vars,
                    NEW r \in Requests, NEW n \in DOMAIN payments'[r]
             PROVE  /\ payments'[r][n].status # "pending" => Funded(r, payments'[r][n].intent)
                    /\ payments'[r][n].status = "refunded" =>
                            \E i \in Intents : intent'[r][i] = "returned"
  BY DEF GenuineRows, Taken, Funded
<1>1. RowMoves(r, n)
  BY RowOrigin
<1>2. ASSUME NEW k \in DOMAIN payments[r] PROVE payments[r][k].intent \in Intents
  <2>1. payments[r] \in Seq(Rows)
    BY DEF TypeOK
  <2>2. payments[r][k] \in Rows
    BY <2>1, ElementOfSeq
  <2> QED
    BY <2>2 DEF Rows
<1>3. ASSUME NEW k \in DOMAIN payments[r], payments[r][k].status # "pending"
      PROVE  Funded(r, payments'[r][k].intent)
  <2>1. Taken(r, payments[r][k].intent)
    BY <1>3 DEF DepositInv, GenuineRows
  <2>2. Funded(r, payments[r][k].intent)
    BY <1>2, <2>1, TakenIsStable DEF Taken, Funded
  <2>3. payments'[r][k].intent = payments[r][k].intent
    BY RowsStay DEF Stays
  <2> QED
    BY <2>2, <2>3
<1>4. CASE n \in DOMAIN payments[r] /\ payments'[r][n].status = payments[r][n].status
  BY <1>3, <1>4, ReturnedIsStable DEF DepositInv, GenuineRows
<1>5. CASE /\ payments'[r][n].status = "succeeded"
           /\ \E i \in Intents : /\ payments'[r][n].intent = i
                                 /\ Taken(r, i) \/ tasks[r][i] # "none"
  <2>1. PICK i \in Intents : payments'[r][n].intent = i /\ (Taken(r, i) \/ tasks[r][i] # "none")
    BY <1>5
  <2>2. Taken(r, i)
    BY <2>1 DEF DepositInv, GenuineTasks
  <2>3. Funded(r, i)
    BY <2>2, TakenIsStable DEF Taken, Funded
  <2> QED
    BY <1>5, <2>1, <2>3
<1>6. CASE /\ n \in DOMAIN payments[r] /\ payments[r][n].status = "succeeded"
           /\ \E h \in refunds : h.request = r /\ h.pc = "mark"
  <2>1. \E i \in Intents : intent[r][i] = "returned"
    BY <1>6 DEF DepositInv, RefundsInOrder
  <2> QED
    BY <1>3, <1>6, <2>1, ReturnedIsStable
<1> QED
  BY <1>1, <1>4, <1>5, <1>6 DEF RowMoves

LEMMA GenuineTasksStep == TypeOK /\ DepositInv /\ [Next]_vars => GenuineTasks'
<1> SUFFICES ASSUME TypeOK, DepositInv, [Next]_vars,
                    NEW r \in Requests, NEW i \in Intents, tasks'[r][i] # "none"
             PROVE  /\ Taken(r, i)'
                    /\ \E n \in DOMAIN payments'[r] : payments'[r][n].status # "pending"
  BY DEF GenuineTasks
<1>1. CASE tasks[r][i] # "none"
  <2>1. Taken(r, i)
    BY <1>1 DEF DepositInv, GenuineTasks
  <2>2. PICK n \in DOMAIN payments[r] : payments[r][n].status # "pending"
    BY <1>1 DEF DepositInv, GenuineTasks
  <2> QED
    BY <2>1, <2>2, TakenIsStable, RowsStay DEF Stays
<1>2. CASE Taken(r, i) /\ payments'[r] = WithEvent(payments[r], i)
  <2>1. payments[r] \in Seq(Rows) /\ Len(payments[r]) \in Nat
    BY DEF TypeOK
  <2>2. /\ Len(payments[r]) + 1 \in DOMAIN payments'[r]
        /\ payments'[r][Len(payments[r]) + 1] = EventRow(i)
    BY <1>2, <2>1, WithEventRows
  <2> QED
    BY <1>2, <2>2, TakenIsStable DEF EventRow
<1> QED
  BY <1>1, <1>2, TaskFrame DEF TaskMoves

LEMMA GenuineQuotesStep == TypeOK /\ DepositInv /\ [Next]_vars => GenuineQuotes'
<1> SUFFICES ASSUME TypeOK, DepositInv, [Next]_vars, NEW r \in Requests
             PROVE  /\ quote'[r] = "paid" => \E i \in Intents : tasks'[r][i] # "none"
                    /\ quote'[r] = "cancelled" => \E i \in Intents : intent'[r][i] = "returned"
  BY DEF GenuineQuotes
<1>1. CASE quote'[r] = quote[r]
  BY <1>1, ReturnedIsStable, TasksAreStable DEF DepositInv, GenuineQuotes
<1>2. CASE /\ quote'[r] = "cancelled"
           /\ \E h \in refunds : h.request = r /\ h.pc = "cancel"
  <2>1. \E i \in Intents : intent[r][i] = "returned"
    BY <1>2 DEF DepositInv, RefundsInOrder
  <2> QED
    BY <1>2, <2>1, ReturnedIsStable
<1> QED
  BY <1>1, <1>2, QuoteFrame DEF QuoteMoves

LEMMA RefundsInOrderStep == TypeOK /\ DepositInv /\ [Next]_vars => RefundsInOrder'
<1> SUFFICES ASSUME TypeOK, DepositInv, [Next]_vars, NEW h \in refunds'
             PROVE  /\ h.pc # "find" => /\ h.row \in DOMAIN payments'[h.request]
                                        /\ payments'[h.request][h.row].status # "pending"
                    /\ h.pc \notin {"find", "call"} =>
                            \E i \in Intents : intent'[h.request][i] = "returned"
  BY DEF RefundsInOrder
<1>1. ASSUME NEW g \in refunds, g.pc # "find"
      PROVE  /\ g.row \in DOMAIN payments'[g.request]
             /\ payments'[g.request][g.row].status # "pending"
             /\ g.pc # "call" => \E i \in Intents : intent'[g.request][i] = "returned"
  <2>1. g.request \in Requests
    BY DEF TypeOK, RefundCalls
  <2>2. /\ g.row \in DOMAIN payments[g.request]
        /\ payments[g.request][g.row].status # "pending"
        /\ g.pc # "call" => \E i \in Intents : intent[g.request][i] = "returned"
    BY <1>1 DEF DepositInv, RefundsInOrder
  <2> QED
    BY <2>1, <2>2, RowsStay, ReturnedIsStable DEF Stays
<1>2. CASE h \in refunds
  BY <1>1, <1>2
<1>3. CASE /\ h.pc = "call" /\ h.request \in Requests /\ UNCHANGED payments
           /\ h.row \in Succeeded(h.request)
  BY <1>3 DEF Succeeded
<1>4. ASSUME NEW g \in refunds, g.request = h.request, g.row = h.row,
             g.pc = "call", h.pc = "mark",
             intent' = [intent EXCEPT ![h.request][payments[h.request][h.row].intent] = "returned"]
      PROVE  \E i \in Intents : intent'[h.request][i] = "returned"
  <2>1. h.request \in Requests /\ h.row \in DOMAIN payments[h.request]
    BY <1>4 DEF TypeOK, RefundCalls, DepositInv, RefundsInOrder
  <2>2. payments[h.request][h.row].intent \in Intents
    <3>1. payments[h.request] \in Seq(Rows)
      BY <2>1 DEF TypeOK
    <3>2. payments[h.request][h.row] \in Rows
      BY <2>1, <3>1, ElementOfSeq
    <3> QED
      BY <3>2 DEF Rows
  <2>3. intent'[h.request][payments[h.request][h.row].intent] = "returned"
    BY <1>4, <2>1, <2>2 DEF TypeOK
  <2> QED
    BY <2>2, <2>3
<1>5. ASSUME NEW g \in refunds, g.request = h.request, g.row = h.row, g.pc = "call", h.pc = "mark",
             intent' = [intent EXCEPT ![h.request][payments[h.request][h.row].intent] = "returned"]
      PROVE  /\ h.row \in DOMAIN payments'[h.request]
             /\ payments'[h.request][h.row].status # "pending"
  BY <1>1, <1>5
<1>6. ASSUME NEW g \in refunds, g.request = h.request, g.row = h.row,
             g.pc \in {"mark", "cancel"}, h.pc \notin {"find", "call"}
      PROVE  /\ h.row \in DOMAIN payments'[h.request]
             /\ payments'[h.request][h.row].status # "pending"
             /\ \E i \in Intents : intent'[h.request][i] = "returned"
  BY <1>1, <1>6
<1>7. RefundOrigin(h)
  BY RefundFrame
<1> QED
  BY <1>2, <1>3, <1>4, <1>5, <1>6, <1>7 DEF RefundOrigin

LEMMA QuotesInOrderStep == TypeOK /\ DepositInv /\ [Next]_vars => QuotesInOrder'
<1> SUFFICES ASSUME TypeOK, DepositInv, [Next]_vars PROVE QuotesInOrder'
  OBVIOUS
<1>1. ASSUME NEW r \in Requests, quote[r] # "none" PROVE quote'[r] # "none"
  BY <1>1, QuoteFrame DEF QuoteMoves
<1>2. ASSUME NEW r \in Requests, status'[r] \in {"quoted", "deposit_paid", "confirmed"}
      PROVE  quote'[r] # "none"
  <2>1. quote[r] # "none"
    BY <1>2, StatusFrame DEF StatusMoves, DepositInv, QuotesInOrder, QuotedHasQuote
  <2> QED
    BY <1>1, <2>1
<1>3. ASSUME NEW c \in quoting', c.pc = "transition" PROVE quote'[c.request] # "none"
  <2>1. CASE c \in quoting
    <3>1. c.request \in Requests /\ quote[c.request] # "none"
      BY <1>3, <2>1 DEF TypeOK, QuoteCalls, DepositInv, QuotesInOrder
    <3> QED
      BY <1>1, <3>1
  <2> QED
    BY <1>3, <2>1, QuoteCallFrame DEF QuoteCallOrigin
<1> QED
  BY <1>2, <1>3 DEF QuotesInOrder, QuotedHasQuote

LEMMA OfferedHasIntentsStep == TypeOK /\ DepositInv /\ [Next]_vars => OfferedHasIntents'
<1> SUFFICES ASSUME TypeOK, DepositInv, [Next]_vars,
                    NEW r \in Requests, NEW i \in Intents, intent'[r][i] # "none"
             PROVE  status'[r] \in Lifecycle!Offered
  BY DEF OfferedHasIntents
<1>1. status[r] \in Lifecycle!Offered => status'[r] \in Lifecycle!Offered
  BY StatusFrame DEF StatusMoves, Lifecycle!Offered
<1>2. CASE intent[r][i] # "none"
  BY <1>1, <1>2 DEF DepositInv, OfferedHasIntents
<1>3. CASE intent[r][i] = "none"
  <2>1. \/ status[r] = "quoted"
        \/ \E h \in refunds : h.request = r /\ h.pc = "call" /\ payments[r][h.row].intent = i
    BY <1>3, IntentFrame DEF IntentMoves
  <2>2. ASSUME NEW h \in refunds, h.request = r, h.pc = "call", payments[r][h.row].intent = i
        PROVE  FALSE
    BY <1>3, <2>2 DEF DepositInv, RefundsInOrder, GenuineRows, Taken
  <2> QED
    BY <1>1, <2>1, <2>2 DEF Lifecycle!Offered
<1> QED
  BY <1>2, <1>3

LEMMA DepositInvStep == TypeOK /\ DepositInv /\ [Next]_vars => DepositInv'
  BY GenuineRowsStep, GenuineTasksStep, GenuineQuotesStep, RefundsInOrderStep,
     QuotesInOrderStep, OfferedHasIntentsStep
  DEF DepositInv

\* The inductive invariant of the deposit.
LEMMA DepositCorrect == Spec => [](TypeOK /\ DepositInv)
<1>1. Init => TypeOK /\ DepositInv
  BY TypeInit, DepositInit
<1>2. TypeOK /\ DepositInv /\ [Next]_vars => TypeOK' /\ DepositInv'
  BY TypeStep, DepositInvStep
<1> QED
  BY <1>1, <1>2, PTL DEF Spec

\* A paid quote rests on money the gateway took, for any number of intents,
\* planners, re-quotes, retries, refunds and faults.
THEOREM PaidQuotesAreTaken == Spec => []PaidQuoteIsTaken
<1>1. DepositInv => PaidQuoteIsTaken
  BY DEF DepositInv, GenuineQuotes, GenuineTasks, PaidQuoteIsTaken
<1> QED
  BY <1>1, DepositCorrect, PTL

\* RefundDeposit is fail-closed: nothing is cancelled or marked refunded before
\* the gateway gave money back.
THEOREM CancelledQuotesAreReturned == Spec => []CancelledQuoteIsReturned
<1>1. DepositInv => CancelledQuoteIsReturned
  BY DEF DepositInv, GenuineQuotes, GenuineRows, CancelledQuoteIsReturned
<1> QED
  BY <1>1, DepositCorrect, PTL

\* A request never shows as quoted without a quote, wherever SendQuote dies.
THEOREM QuotedRequestsHaveQuotes == Spec => []QuotedHasQuote
<1>1. DepositInv => QuotedHasQuote
  BY DEF DepositInv, QuotesInOrder
<1> QED
  BY <1>1, DepositCorrect, PTL

\* RefundDeposit finds the payment of every paid quote whose money is not back.
THEOREM PaidQuotesAreRefundable == Spec => []PaidQuoteIsRefundable
<1>1. TypeOK /\ DepositInv => PaidQuoteIsRefundable
  <2> SUFFICES ASSUME TypeOK, DepositInv, NEW r \in Requests, quote[r] = "paid",
                      \A i \in Intents : intent[r][i] # "returned"
               PROVE  Succeeded(r) # {}
    BY DEF PaidQuoteIsRefundable
  <2>1. PICK n \in DOMAIN payments[r] : payments[r][n].status # "pending"
    BY DEF DepositInv, GenuineQuotes, GenuineTasks
  <2>2. payments[r][n] \in Rows
    BY ElementOfSeq DEF TypeOK
  <2>3. payments[r][n].status = "succeeded"
    BY <2>1, <2>2 DEF Rows, DepositInv, GenuineRows
  <2> QED
    BY <2>3 DEF Succeeded
<1> QED
  BY <1>1, DepositCorrect, PTL

\* Together: behind a paid quote there is money, and a payment to refund.
THEOREM PaidQuotesAreBacked == Spec => []PaidQuoteIsBacked
  BY PaidQuotesAreTaken, PaidQuotesAreRefundable, PTL DEF PaidQuoteIsBacked

-------------------------------------------------------------------------------
(* Refinement *)

\* A step of the lifecycle, or one it does not see.
Seen == [Lifecycle!Next]_(Lifecycle!lifecycleVars)

\* The money the gateway holds or returned is the same after the step.
SameMoney ==
    \A r \in Requests, i \in Intents :
        /\ intent'[r][i] = "captured" <=> intent[r][i] = "captured"
        /\ intent'[r][i] = "returned" <=> intent[r][i] = "returned"

LEMMA SameFunds == SameMoney => UNCHANGED funds
  BY DEF SameMoney, funds

LEMMA Unseen == SameMoney /\ UNCHANGED status => Seen
  BY SameFunds DEF Seen, Lifecycle!lifecycleVars

\* What funds shows of one request.
LEMMA FundsShow ==
    ASSUME NEW r \in Requests
    PROVE  /\ funds[r] = "returned" <=> \E i \in Intents : intent[r][i] = "returned"
           /\ funds[r] = "unpaid" <=> \A i \in Intents : ~Taken(r, i)
  BY DEF funds, Taken

LEMMA PipelineIsSeen ==
    ASSUME NEW r \in Requests, PipelineStep(r)
    PROVE  Seen
<1>1. UNCHANGED intent
  BY DEF PipelineStep, Submit, Open, Cancel, CancelByStaff, Confirm, Close, Transition, gatewayVars
<1>2. UNCHANGED funds
  BY <1>1, SameFunds DEF SameMoney
<1>3. ASSUME NEW from, NEW to, Transition(r, from, to) PROVE Lifecycle!Move(r, from, to)
  BY <1>2, <1>3 DEF Transition, Lifecycle!Move
<1>4. Cancel(r) \/ CancelByStaff(r) \/ Close(r) => Lifecycle!Drop(r)
  BY <1>3 DEF Cancel, CancelByStaff, Close, Lifecycle!Drop
<1>5. Submit(r) => Lifecycle!Submit(r)
  BY <1>3 DEF Submit, Lifecycle!Submit
<1>6. Open(r) => Lifecycle!Open(r)
  BY <1>3 DEF Open, Lifecycle!Open
<1>7. Confirm(r) => Lifecycle!Confirm(r)
  BY <1>3 DEF Confirm, Lifecycle!Confirm
<1> QED
  BY <1>4, <1>5, <1>6, <1>7 DEF PipelineStep, Seen, Lifecycle!Next

LEMMA QuoteIsSeen ==
    ASSUME TypeOK, NEW c \in quoting, QuoteStep(c)
    PROVE  Seen
<1>1. c.request \in Requests
  BY DEF TypeOK, QuoteCalls
<1>2. UNCHANGED intent
  BY DEF QuoteStep, CreateQuote, QuoteTransition, gatewayVars
<1>3. SameMoney /\ UNCHANGED funds
  BY <1>2, SameFunds DEF SameMoney
<1>4. CASE QuoteTransition(c) /\ status[c.request] = "processing"
  <2>1. Lifecycle!Quote(c.request)
    BY <1>3, <1>4 DEF QuoteTransition, Lifecycle!Quote, Lifecycle!Move
  <2> QED
    BY <1>1, <2>1 DEF Seen, Lifecycle!Next
<1> QED
  BY <1>3, <1>4, Unseen DEF QuoteStep, CreateQuote, QuoteTransition

LEMMA PaymentIsSeen ==
    ASSUME TypeOK, DepositInv, NEW r \in Requests, NEW i \in Intents, CustomerPays(r, i)
    PROVE  Seen
<1>1. \A q \in Requests, j \in Intents :
        intent'[q][j] = IF q = r /\ j = i THEN "captured" ELSE intent[q][j]
  BY DEF CustomerPays, TypeOK
<1>2. intent[r][i] = "payable" /\ UNCHANGED status
  BY DEF CustomerPays, requestVars
<1>3. CASE \E j \in Intents : Taken(r, j)
  <2>1. funds' = funds
    BY <1>1, <1>2, <1>3 DEF funds, Taken
  <2> QED
    BY <1>2, <2>1 DEF Seen, Lifecycle!lifecycleVars
<1>4. CASE \A j \in Intents : ~Taken(r, j)
  <2>1. funds' = [funds EXCEPT ![r] = "taken"]
    <3>1. \A q \in Requests :
            (\E j \in Intents : intent'[q][j] = "returned") <=>
            (\E j \in Intents : intent[q][j] = "returned")
      BY <1>1, <1>2
    <3>2. \A q \in Requests : q # r =>
            ((\E j \in Intents : intent'[q][j] = "captured") <=>
             (\E j \in Intents : intent[q][j] = "captured"))
      BY <1>1
    <3>3. /\ \E j \in Intents : intent'[r][j] = "captured"
          /\ \A j \in Intents : intent[r][j] # "returned"
      BY <1>1, <1>4 DEF Taken
    <3>4. \A q \in Requests : funds'[q] = IF q = r THEN "taken" ELSE funds[q]
      BY <3>1, <3>2, <3>3 DEF funds
    <3>5. funds' = [q \in Requests |-> funds'[q]] /\ funds = [q \in Requests |-> funds[q]]
      BY DEF funds
    <3> QED
      BY <3>4, <3>5
  <2>2. funds[r] = "unpaid"
    BY <1>4, FundsShow
  <2>3. status[r] \in Lifecycle!Offered
    BY <1>2 DEF DepositInv, OfferedHasIntents
  <2>4. Lifecycle!Take(r)
    BY <1>2, <2>1, <2>2, <2>3 DEF Lifecycle!Take, Lifecycle!Fund
  <2> QED
    BY <2>4 DEF Seen, Lifecycle!Next
<1> QED
  BY <1>3, <1>4

LEMMA DepositIsSeen ==
    ASSUME TypeOK, DepositInv, NEW r \in Requests, NEW i \in Intents, DepositStep(r, i)
    PROVE  Seen
<1>1. CASE CustomerPays(r, i)
  BY <1>1, PaymentIsSeen
<1>2. CASE FinalizeRequest(r, i) /\ status'[r] # status[r]
  <2>1. UNCHANGED intent
    BY <1>2 DEF FinalizeRequest, gatewayVars
  <2>2. UNCHANGED funds
    BY <2>1, SameFunds DEF SameMoney
  <2>3. Taken(r, i)
    BY <1>2 DEF FinalizeRequest, DepositInv, GenuineTasks
  <2>4. funds[r] # "unpaid"
    BY <2>3, FundsShow
  <2>5. Lifecycle!Book(r)
    BY <1>2, <2>2, <2>4 DEF FinalizeRequest, Lifecycle!Book, Lifecycle!Move
  <2> QED
    BY <2>5 DEF Seen, Lifecycle!Next
<1>3. CASE FinalizeRequest(r, i) /\ status'[r] = status[r]
  BY <1>3, Unseen DEF FinalizeRequest, SameMoney, gatewayVars, TypeOK
<1>4. CASE PayDepositCheck(r, i) \/ PayDepositOpen(r, i) \/ RecordIntent(r, i)
  <2>1. PICK st \in {"none", "checked", "opened", "payable"} : intent' = [intent EXCEPT ![r][i] = st]
    BY <1>4 DEF PayDepositCheck, PayDepositOpen, RecordIntent
  <2>2. intent[r][i] \in {"none", "checked", "opened"} /\ UNCHANGED status
    BY <1>4 DEF PayDepositCheck, PayDepositOpen, RecordIntent, requestVars
  <2>3. \A q \in Requests, j \in Intents :
          intent'[q][j] = IF q = r /\ j = i THEN st ELSE intent[q][j]
    BY <2>1 DEF TypeOK
  <2>4. SameMoney
    BY <2>2, <2>3 DEF SameMoney
  <2> QED
    BY <2>2, <2>4, Unseen
<1>5. CASE Webhook(r, i) \/ FinalizeQuote(r, i) \/ ExhaustRetries(r, i)
  BY <1>5, Unseen DEF Webhook, FinalizeQuote, ExhaustRetries, SameMoney, gatewayVars, requestVars
<1> QED
  BY <1>1, <1>2, <1>3, <1>4, <1>5 DEF DepositStep

LEMMA RefundIsSeen ==
    ASSUME TypeOK, DepositInv, NEW h \in refunds, RefundStep(h)
    PROVE  Seen
<1> DEFINE r == h.request
           i == payments[r][h.row].intent
<1>1. r \in Requests
  BY DEF TypeOK, RefundCalls
<1>2. CASE RefundCall(h) /\ intent' = [intent EXCEPT ![r][i] = "returned"]
  <2>1. i \in Intents /\ Taken(r, i)
    <3>1. h.row \in DOMAIN payments[r] /\ payments[r][h.row].status # "pending"
      BY <1>2 DEF RefundCall, DepositInv, RefundsInOrder
    <3>2. payments[r] \in Seq(Rows)
      BY <1>1 DEF TypeOK
    <3>3. payments[r][h.row] \in Rows
      BY <3>1, <3>2, ElementOfSeq
    <3> QED
      BY <1>1, <3>1, <3>3 DEF Rows, DepositInv, GenuineRows
  <2>2. UNCHANGED status
    BY <1>2 DEF RefundCall, requestVars
  <2> HIDE DEF r, i
  <2>3. \A q \in Requests, j \in Intents :
          intent'[q][j] = IF q = r /\ j = i THEN "returned" ELSE intent[q][j]
    BY <1>1, <1>2, <2>1 DEF TypeOK
  <2>4. CASE \E j \in Intents : intent[r][j] = "returned"
    <3>1. funds' = funds
      BY <1>1, <2>1, <2>3, <2>4 DEF funds
    <3> QED
      BY <2>2, <3>1 DEF Seen, Lifecycle!lifecycleVars
  <2>5. CASE \A j \in Intents : intent[r][j] # "returned"
    <3>1. funds[r] = "taken"
      BY <1>1, <2>1, <2>5 DEF funds, Taken
    <3>2. funds' = [funds EXCEPT ![r] = "returned"]
      BY <1>1, <2>1, <2>3 DEF funds
    <3>3. status[r] \in Lifecycle!Offered
      BY <1>1, <2>1 DEF Taken, DepositInv, OfferedHasIntents
    <3>4. Lifecycle!GiveBack(r)
      BY <2>2, <3>1, <3>2, <3>3 DEF Lifecycle!GiveBack, Lifecycle!Fund
    <3> QED
      BY <1>1, <3>4 DEF Seen, Lifecycle!Next
  <2> QED
    BY <2>4, <2>5
<1>3. CASE RefundCall(h) /\ UNCHANGED intent
  BY <1>3, Unseen DEF RefundCall, SameMoney, requestVars
<1>4. CASE RefundTransition(h) /\ status[r] = "deposit_paid"
  <2>1. UNCHANGED funds
    BY <1>4, SameFunds DEF RefundTransition, SameMoney, gatewayVars
  <2>2. funds[r] = "returned"
    BY <1>1, <1>4, FundsShow DEF RefundTransition, DepositInv, RefundsInOrder
  <2>3. Lifecycle!Unbook(r)
    BY <1>4, <2>1, <2>2 DEF RefundTransition, Lifecycle!Unbook, Lifecycle!Move
  <2> QED
    BY <1>1, <2>3 DEF Seen, Lifecycle!Next
<1>5. CASE RefundTransition(h) /\ status[r] # "deposit_paid"
  BY <1>5, Unseen DEF RefundTransition, SameMoney, gatewayVars
<1>6. CASE RefundFind(h) \/ RefundMark(h) \/ CancelQuote(h)
  BY <1>6, Unseen DEF RefundFind, RefundMark, CancelQuote, SameMoney, gatewayVars, requestVars
<1> QED
  BY <1>2, <1>3, <1>4, <1>5, <1>6 DEF RefundStep, RefundCall

LEMMA StepIsSeen == TypeOK /\ DepositInv /\ [Next]_vars => Seen
<1> SUFFICES ASSUME TypeOK, DepositInv, [Next]_vars PROVE Seen
  OBVIOUS
<1>1. CASE ServeCrash
  <2>1. \A r \in Requests, i \in Intents :
          intent'[r][i] = IF intent[r][i] \in {"checked", "opened"} THEN "none" ELSE intent[r][i]
    BY <1>1 DEF ServeCrash
  <2>2. SameMoney
    BY <2>1 DEF SameMoney
  <2> QED
    BY <1>1, <2>2, Unseen DEF ServeCrash, requestVars
<1>2. CASE WorkerCrash \/ UNCHANGED vars
  BY <1>2, Unseen DEF WorkerCrash, vars, SameMoney, requestVars, gatewayVars
<1>3. ASSUME NEW q \in Requests,
             \/ \E p \in Planners, x \in Prices : SendQuoteRead(p, q, x)
             \/ \E p \in Refunders : RefundRead(p, q)
      PROVE  Seen
  BY <1>3, Unseen DEF SendQuoteRead, RefundRead, SameMoney, requestVars, gatewayVars
<1> QED
  BY <1>1, <1>2, <1>3, PipelineIsSeen, QuoteIsSeen, DepositIsSeen, RefundIsSeen DEF Next

\* The handlers, interleaved in any way and crashing at any point, do nothing to
\* a request and its money that the indivisible lifecycle does not allow.
THEOREM RequestsFollowTheLifecycle == Spec => ImplementsLifecycle
<1>1. Init => Lifecycle!Init
  BY DEF Init, Lifecycle!Init, funds
<1>2. TypeOK /\ DepositInv /\ [Next]_vars => [Lifecycle!Next]_(Lifecycle!lifecycleVars)
  BY StepIsSeen DEF Seen
<1> QED
  BY <1>1, <1>2, DepositCorrect, PTL DEF Spec, ImplementsLifecycle, Lifecycle!Spec

-------------------------------------------------------------------------------
(* What liveness rests on.  DepositIsNoticed needs fairness and is left to   *)
(* TLC; that no re-quote, refund or second payment makes the system forget   *)
(* the deposit is an invariant.                                              *)

\* A task has won the quote and is about to move the request.
Moving(r) == \E i \in Intents : tasks[r][i] = "request"

\* Some payment of the request went past its quote.
Counted(r) ==
    \/ quote[r] \in {"paid", "cancelled"}
    \/ \E i \in Intents : tasks[r][i] \in {"request", "done", "archived"}
    \/ \E h \in refunds : h.request = r

CountedIsMoving ==
    \A r \in Requests :
        Counted(r) => /\ status[r] \in Lifecycle!Offered
                      /\ status[r] = "quoted" => Moving(r) \/ faults > 0

RecordedHasTask ==
    \A r \in Requests, i \in Intents :
        /\ HasEvent(r, i) => tasks[r][i] # "none" \/ faults > 0
        /\ tasks[r][i] # "none" => HasEvent(r, i)

\* A captured deposit of a request that is still `quoted` is in an event that will be
\* delivered, in a queued task or in a task that moves the request.
DepositIsCarried ==
    \A r \in Requests, i \in Intents :
        intent[r][i] = "captured" /\ status[r] = "quoted" =>
            \/ ~HasEvent(r, i)
            \/ tasks[r][i] = "queued"
            \/ Moving(r)
            \/ faults > 0

LEMMA FaultsFrame == [Next]_vars => faults' = faults \/ faults' = faults + 1
<1> DEFINE Goal == faults' = faults \/ faults' = faults + 1
<1> SUFFICES ASSUME [Next]_vars PROVE Goal
  OBVIOUS
<1>1. ASSUME NEW q \in Requests, PipelineStep(q) PROVE Goal
  BY <1>1 DEF PipelineStep, Submit, Open, Cancel, CancelByStaff, Confirm, Close, Transition
<1>2. ASSUME NEW c \in quoting, QuoteStep(c) PROVE Goal
  BY <1>2 DEF QuoteStep, CreateQuote, QuoteTransition
<1>3. ASSUME NEW q \in Requests, NEW j \in Intents, DepositStep(q, j) PROVE Goal
  BY <1>3 DEF DepositStep, PayDepositCheck, PayDepositOpen, RecordIntent, CustomerPays, Webhook,
     FinalizeQuote, FinalizeRequest, ExhaustRetries, Fault
<1>4. ASSUME NEW h \in refunds, RefundStep(h) PROVE Goal
  BY <1>4 DEF RefundStep, RefundFind, RefundCall, RefundMark, CancelQuote, RefundTransition, Fault
<1>5. CASE ServeCrash \/ WorkerCrash \/ UNCHANGED vars
  BY <1>5 DEF ServeCrash, WorkerCrash, vars, Fault
<1>6. ASSUME NEW q \in Requests,
             \/ \E p \in Planners, x \in Prices : SendQuoteRead(p, q, x)
             \/ \E p \in Refunders : RefundRead(p, q)
      PROVE  Goal
  BY <1>6 DEF SendQuoteRead, RefundRead
<1> QED
  BY <1>1, <1>2, <1>3, <1>4, <1>5, <1>6 DEF Next

LEMMA TaskSet ==
    ASSUME TypeOK, NEW q \in Requests, NEW j \in Intents, NEW st,
           tasks' = [tasks EXCEPT ![q][j] = st]
    PROVE  \A r \in Requests, i \in Intents :
               tasks'[r][i] = IF r = q /\ i = j THEN st ELSE tasks[r][i]
<1>1. tasks \in [Requests -> [Intents -> TaskStatuses]]
  BY DEF TypeOK
<1> QED
  BY <1>1

\* The events in a table of payments, and what the code's statements do to them.
EventIn(rows, i) == \E n \in DOMAIN rows : rows[n].intent = i /\ rows[n].key = "event"

LEMMA EventsOfIntentRow ==
    ASSUME NEW rows \in Seq(Rows), NEW i \in Intents, NEW j \in Intents
    PROVE  EventIn(Append(rows, IntentRow(j)), i) <=> EventIn(rows, i)
<1> DEFINE row == IntentRow(j)
<1>1. row \in Rows /\ row.key # "event"
  BY DEF IntentRow, Rows
<1> HIDE DEF row
<1>2. /\ DOMAIN Append(rows, row) = 1..(Len(rows) + 1) /\ DOMAIN rows = 1..Len(rows)
      /\ \A n \in 1..Len(rows) : Append(rows, row)[n] = rows[n]
      /\ Append(rows, row)[Len(rows) + 1] = row /\ Len(rows) \in Nat
  BY <1>1, AppendProperties, LenProperties
<1>3. EventIn(Append(rows, row), i) <=> EventIn(rows, i)
  BY <1>1, <1>2 DEF EventIn
<1> QED
  BY <1>3 DEF row

LEMMA EventsOfMark ==
    ASSUME NEW rows \in Seq(Rows), NEW i \in Intents, NEW j \in Intents
    PROVE  EventIn(MarkSucceeded(rows, j), i) <=> EventIn(rows, i)
<1>1. DOMAIN MarkSucceeded(rows, j) = DOMAIN rows
  BY MarkSucceededRows
<1>2. ASSUME NEW n \in DOMAIN rows
      PROVE  /\ MarkSucceeded(rows, j)[n].intent = rows[n].intent
             /\ MarkSucceeded(rows, j)[n].key = rows[n].key
  <2>1. rows[n] \in Rows
    BY ElementOfSeq
  <2> QED
    BY <2>1 DEF MarkSucceeded, Rows
<1> QED
  BY <1>1, <1>2 DEF EventIn

LEMMA EventsOfEvent ==
    ASSUME NEW rows \in Seq(Rows), NEW i \in Intents, NEW j \in Intents
    PROVE  EventIn(WithEvent(rows, j), i) <=> EventIn(rows, i) \/ i = j
<1> DEFINE new == WithEvent(rows, j)
           marked == MarkSucceeded(rows, j)
<1>1. /\ DOMAIN new = 1..(Len(rows) + 1) /\ DOMAIN rows = 1..Len(rows) /\ Len(rows) \in Nat
      /\ \A n \in DOMAIN rows : new[n] = marked[n]
      /\ new[Len(rows) + 1] = EventRow(j)
  BY WithEventRows, LenProperties
<1>2. DOMAIN marked = DOMAIN rows
  BY MarkSucceededRows
<1>3. EventIn(marked, i) <=> EventIn(rows, i)
  BY EventsOfMark
<1>4. EventRow(j).key = "event" /\ EventRow(j).intent = j
  BY DEF EventRow
<1> HIDE DEF new, marked
<1>5. EventIn(new, i) <=> EventIn(marked, i) \/ i = j
  BY <1>1, <1>2, <1>4 DEF EventIn
<1> QED
  BY <1>3, <1>5 DEF new

LEMMA EventsOfRefund ==
    ASSUME NEW rows \in Seq(Rows), NEW i \in Intents, NEW k \in Nat
    PROVE  EventIn([rows EXCEPT ![k].status = "refunded"], i) <=> EventIn(rows, i)
<1> DEFINE new == [rows EXCEPT ![k].status = "refunded"]
<1>1. DOMAIN new = DOMAIN rows
  OBVIOUS
<1>2. ASSUME NEW n \in DOMAIN rows
      PROVE  new[n].intent = rows[n].intent /\ new[n].key = rows[n].key
  <2>1. rows[n] \in Rows
    BY ElementOfSeq
  <2> QED
    BY <2>1 DEF Rows
<1> QED
  BY <1>1, <1>2 DEF EventIn

\* An event is recorded by its webhook only, with a task unless there is a fault,
\* and stays recorded.
LEMMA EventFrame ==
    ASSUME TypeOK, [Next]_vars, NEW r \in Requests, NEW i \in Intents
    PROVE  /\ HasEvent(r, i) => HasEvent(r, i)'
           /\ HasEvent(r, i)' => \/ HasEvent(r, i)
                                 \/ tasks'[r][i] = "queued"
                                 \/ faults' = faults + 1
<1> DEFINE old == payments[r]
           new == payments'[r]
           Goal == /\ EventIn(old, i) => EventIn(new, i)
                   /\ EventIn(new, i) => \/ EventIn(old, i)
                                         \/ tasks'[r][i] = "queued"
                                         \/ faults' = faults + 1
<1>1. old \in Seq(Rows)
  BY DEF TypeOK
<1>2. ASSUME new = old PROVE Goal
  BY <1>2
<1>3. ASSUME NEW j \in Intents, new = Append(old, IntentRow(j)) PROVE Goal
  BY <1>1, <1>3, EventsOfIntentRow
<1>4. ASSUME NEW j \in Intents, new = WithEvent(old, j),
             tasks'[r][j] = "queued" \/ faults' = faults + 1
      PROVE  Goal
  BY <1>1, <1>4, EventsOfEvent
<1>5. ASSUME NEW j \in Intents, new = MarkSucceeded(old, j) PROVE Goal
  BY <1>1, <1>5, EventsOfMark
<1>6. ASSUME NEW h \in refunds, new = [old EXCEPT ![h.row].status = "refunded"] PROVE Goal
  <2>1. h.row \in Nat
    BY DEF TypeOK, RefundCalls
  <2> QED
    BY <1>1, <1>6, <2>1, EventsOfRefund
<1>7. RowsMove(r)
  BY RowsFrame
<1>8. Goal
  <2> HIDE DEF Goal
  <2> QED
    BY <1>2, <1>3, <1>4, <1>5, <1>6, <1>7, Zenon DEF RowsMove
<1> QED
  BY <1>8 DEF HasEvent, EventIn

\* The webhook of an event comes once, so it does not restart its task.
LEMMA WebhookIsFirst ==
    ASSUME RecordedHasTask, NEW r \in Requests, NEW i \in Intents, Webhook(r, i)
    PROVE  tasks[r][i] = "none"
  BY DEF RecordedHasTask, Webhook

\* Without a fault, a task that won the quote ends by moving the request, ...
LEMMA RequestTaskStays ==
    ASSUME TypeOK, RecordedHasTask, [Next]_vars, faults' = faults,
           NEW r \in Requests, NEW i \in Intents,
           tasks[r][i] = "request", status'[r] = "quoted"
    PROVE  tasks'[r][i] = "request"
<1>1. ASSUME NEW q \in Requests, NEW j \in Intents, DepositStep(q, j)
      PROVE  tasks'[r][i] = "request"
  <2>1. ASSUME NEW st, tasks' = [tasks EXCEPT ![q][j] = st], ~(q = r /\ j = i)
        PROVE  tasks'[r][i] = "request"
    BY <2>1, TaskSet
  <2>2. CASE Webhook(q, j)
    <3>1. ~(q = r /\ j = i)
      BY <2>2, WebhookIsFirst
    <3> QED
      BY <2>1, <2>2, <3>1 DEF Webhook
  <2>3. CASE FinalizeQuote(q, j)
    <3>1. ~(q = r /\ j = i)
      BY <2>3 DEF FinalizeQuote
    <3> QED
      BY <2>1, <2>3, <3>1 DEF FinalizeQuote
  <2>4. CASE FinalizeRequest(q, j)
    <3>1. ~(q = r /\ j = i)
      BY <2>4 DEF FinalizeRequest, Fault, TypeOK
    <3> QED
      BY <2>1, <2>4, <3>1 DEF FinalizeRequest
  <2> QED
    BY <1>1, <2>2, <2>3, <2>4
    DEF DepositStep, PayDepositCheck, PayDepositOpen, RecordIntent, CustomerPays, ExhaustRetries,
        Fault, TypeOK
<1>2. ~ServeCrash /\ ~WorkerCrash
  BY DEF ServeCrash, WorkerCrash, Fault, TypeOK
<1>3. \/ \E q \in Requests, j \in Intents : DepositStep(q, j)
      \/ tasks' = tasks
  BY <1>2 DEF Next, vars, PipelineStep, Submit, Open, Cancel, CancelByStaff, Confirm, Close, Transition,
     SendQuoteRead, QuoteStep, CreateQuote, QuoteTransition, RefundRead, RefundStep, RefundFind,
     RefundCall, RefundMark, CancelQuote, RefundTransition
<1> QED
  BY <1>1, <1>3

LEMMA MovingStays ==
    ASSUME TypeOK, RecordedHasTask, [Next]_vars, faults' = faults,
           NEW r \in Requests, Moving(r), status'[r] = "quoted"
    PROVE  Moving(r)'
  BY RequestTaskStays DEF Moving

LEMMA RecordedHasTaskStep ==
    ASSUME TypeOK, RecordedHasTask, [Next]_vars PROVE RecordedHasTask'
<1> SUFFICES ASSUME NEW r \in Requests, NEW i \in Intents
             PROVE  /\ HasEvent(r, i)' => tasks'[r][i] # "none" \/ faults' > 0
                    /\ tasks'[r][i] # "none" => HasEvent(r, i)'
  BY DEF RecordedHasTask, HasEvent
<1>1. /\ HasEvent(r, i) => tasks[r][i] # "none" \/ faults > 0
      /\ tasks[r][i] # "none" => HasEvent(r, i)
  BY DEF RecordedHasTask
<1>2. /\ HasEvent(r, i) => HasEvent(r, i)'
      /\ HasEvent(r, i)' => HasEvent(r, i) \/ tasks'[r][i] = "queued" \/ faults' = faults + 1
  BY EventFrame
<1>3. faults \in Nat /\ (faults' = faults \/ faults' = faults + 1)
  BY FaultsFrame DEF TypeOK
<1>4. HasEvent(r, i)' => tasks'[r][i] # "none" \/ faults' > 0
  BY <1>1, <1>2, <1>3, TasksAreStable
<1>5. ASSUME tasks'[r][i] # "none", tasks[r][i] = "none" PROVE HasEvent(r, i)'
  <2>1. payments'[r] = WithEvent(payments[r], i) /\ payments[r] \in Seq(Rows)
    BY <1>5, TaskFrame DEF TaskMoves, TypeOK
  <2>2. EventIn(payments'[r], i)
    BY <2>1, EventsOfEvent
  <2> QED
    BY <2>2 DEF HasEvent, EventIn
<1> QED
  BY <1>1, <1>2, <1>4, <1>5

\* What makes a payment count: a task that wins or loses the quote, unless
\* somebody else's was there before.
LEMMA CountedOrigin ==
    ASSUME TypeOK, DepositInv, [Next]_vars, NEW r \in Requests, Counted(r)'
    PROVE  \/ Counted(r)
           \/ /\ status[r] \in Lifecycle!Offered
              /\ Moving(r)' \/ status'[r] # "quoted" \/ faults' = faults + 1
<1> DEFINE Goal == \/ Counted(r)
                   \/ /\ status[r] \in Lifecycle!Offered
                      /\ Moving(r)' \/ status'[r] # "quoted" \/ faults' = faults + 1
<1>1. ASSUME \/ quote'[r] = quote[r]
             \/ quote'[r] = "sent",
             tasks' = tasks, \A h \in refunds' : h.request = r => \E g \in refunds : g.request = r
      PROVE  Goal
  BY <1>1 DEF Counted
<1>2. ASSUME NEW q \in Requests, PipelineStep(q) PROVE Goal
  BY <1>2, <1>1 DEF PipelineStep, Submit, Open, Cancel, CancelByStaff, Confirm, Close, Transition
<1>3. ASSUME NEW c \in quoting, QuoteStep(c) PROVE Goal
  BY <1>3, <1>1 DEF QuoteStep, CreateQuote, QuoteTransition, TypeOK, QuoteCalls
<1>4. ASSUME NEW q \in Requests, NEW j \in Intents, DepositStep(q, j) PROVE Goal
  <2>1. CASE FinalizeQuote(q, j) /\ q = r
    <3>1. status[r] \in Lifecycle!Offered
      BY <2>1 DEF FinalizeQuote, DepositInv, GenuineTasks, OfferedHasIntents, Taken
    <3>2. CASE quote[r] = "sent"
      <4>1. tasks' = [tasks EXCEPT ![r][j] = "request"]
        BY <2>1, <3>2 DEF FinalizeQuote
      <4>2. tasks'[r][j] = "request"
        BY <4>1 DEF TypeOK
      <4> QED
        BY <3>1, <4>2 DEF Moving
    <3>3. CASE quote[r] \in {"paid", "cancelled"}
      BY <3>3 DEF Counted
    <3>4. CASE quote[r] = "none"
      <4>1. status[r] # "quoted" /\ status' = status
        BY <2>1, <3>4 DEF FinalizeQuote, DepositInv, QuotesInOrder, QuotedHasQuote
      <4> QED
        BY <3>1, <4>1
    <3> QED
      BY <3>2, <3>3, <3>4 DEF TypeOK, QuoteStatuses
  <2>2. CASE FinalizeRequest(q, j) /\ q = r
    BY <2>2 DEF FinalizeRequest, Counted
  <2>3. ASSUME NEW st, tasks' = [tasks EXCEPT ![q][j] = st], q # r \/ st = "queued",
               quote'[r] = quote[r], refunds' = refunds
        PROVE  Goal
    <3>1. tasks \in [Requests -> [Intents -> TaskStatuses]]
      BY DEF TypeOK
    <3>2. \A i \in Intents : tasks'[r][i] = IF r = q /\ i = j THEN st ELSE tasks[r][i]
      BY <2>3, <3>1
    <3>3. \A i \in Intents : tasks'[r][i] = "queued" \/ tasks'[r][i] = tasks[r][i]
      BY <2>3, <3>2
    <3>4. Counted(r)
      BY <2>3, <3>3 DEF Counted
    <3> QED
      BY <3>4
  <2>4. CASE Webhook(q, j)
    BY <1>1, <2>3, <2>4 DEF Webhook, requestVars
  <2>5. CASE FinalizeQuote(q, j) /\ q # r
    <3>1. quote'[r] = quote[r] /\ refunds' = refunds
      BY <2>5 DEF FinalizeQuote, TypeOK
    <3>2. \E st : tasks' = [tasks EXCEPT ![q][j] = st]
      BY <2>5 DEF FinalizeQuote
    <3> QED
      BY <2>3, <2>5, <3>1, <3>2
  <2>6. CASE FinalizeRequest(q, j) /\ q # r
    BY <2>3, <2>6 DEF FinalizeRequest
  <2>7. CASE ExhaustRetries(q, j)
    <3>1. CASE q = r
      <4>1. status[r] \in Lifecycle!Offered
        BY <2>7, <3>1 DEF ExhaustRetries, DepositInv, GenuineTasks, OfferedHasIntents, Taken
      <4> QED
        BY <2>7, <4>1 DEF ExhaustRetries, Fault
    <3>2. CASE q # r
      BY <2>3, <2>7, <3>2 DEF ExhaustRetries, requestVars
    <3> QED
      BY <3>1, <3>2
  <2> QED
    BY <1>1, <1>4, <2>1, <2>2, <2>4, <2>5, <2>6, <2>7
    DEF DepositStep, PayDepositCheck, PayDepositOpen, RecordIntent, CustomerPays, requestVars
<1>5. ASSUME NEW h \in refunds, RefundStep(h) PROVE Goal
  <2>1. CASE h.request = r
    BY <2>1 DEF Counted
  <2>2. CASE h.request # r
    <3>1. tasks' = tasks
      BY <1>5 DEF RefundStep, RefundFind, RefundCall, RefundMark, CancelQuote, RefundTransition
    <3>2. quote' = quote \/ quote' = [quote EXCEPT ![h.request] = "cancelled"]
      BY <1>5 DEF RefundStep, RefundFind, RefundCall, RefundMark, CancelQuote, RefundTransition,
         requestVars
    <3>3. quote'[r] = quote[r]
      BY <2>2, <3>2 DEF TypeOK
    <3>4. h \in RefundCalls
      BY DEF TypeOK
    <3>5. \A g \in Resume(h, "mark") \cup Resume(h, "cancel") \cup Resume(h, "transition") :
             g \in refunds \/ g.request = h.request
      BY <3>4 DEF RefundCalls, Resume
    <3>6. \A n : [h EXCEPT !.pc = "call", !.row = n].request = h.request
      BY <3>4 DEF RefundCalls
    <3>7. \A g \in refunds' : g \in refunds \/ g.request = h.request
      <4>1. CASE RefundFind(h)
        <5> DEFINE newest == Max(Succeeded(h.request))
        <5>1. refunds' \subseteq refunds \cup {[h EXCEPT !.pc = "call", !.row = newest]}
          BY <4>1 DEF RefundFind, Return
        <5> HIDE DEF newest
        <5> QED
          BY <3>6, <5>1
      <4>2. ASSUME RefundStep(h), ~RefundFind(h)
            PROVE  \/ refunds' \in {Resume(h, "mark"), Resume(h, "cancel"), Resume(h, "transition")}
                   \/ refunds' = Return(h)
        BY <4>2 DEF RefundStep, RefundCall, RefundMark, CancelQuote, RefundTransition
      <4> QED
        BY <1>5, <3>5, <4>1, <4>2 DEF Return
    <3> QED
      BY <1>1, <2>2, <3>1, <3>3, <3>7
  <2> QED
    BY <2>1, <2>2
<1>6. ASSUME NEW q \in Requests, NEW p \in Refunders, RefundRead(p, q) PROVE Goal
  <2>1. CASE q = r
    BY <1>6, <2>1 DEF RefundRead, Counted
  <2>2. CASE q # r
    BY <1>1, <1>6, <2>2 DEF RefundRead, requestVars
  <2> QED
    BY <2>1, <2>2
<1>7. ASSUME NEW q \in Requests, NEW p \in Planners, NEW x \in Prices, SendQuoteRead(p, q, x)
      PROVE  Goal
  BY <1>1, <1>7 DEF SendQuoteRead, requestVars
<1>8. CASE ServeCrash
  BY <1>1, <1>8 DEF ServeCrash, requestVars
<1>9. CASE WorkerCrash
  <2>1. \A i \in Intents : tasks'[r][i] = "queued" \/ tasks'[r][i] = tasks[r][i]
    BY <1>9 DEF WorkerCrash
  <2>2. quote' = quote /\ refunds' = refunds
    BY <1>9 DEF WorkerCrash, requestVars
  <2>3. Counted(r)
    BY <2>1, <2>2 DEF Counted
  <2> QED
    BY <2>3
<1>10. CASE UNCHANGED vars
  BY <1>1, <1>10 DEF vars
<1> QED
  BY <1>2, <1>3, <1>4, <1>5, <1>6, <1>7, <1>8, <1>9, <1>10 DEF Next

LEMMA CountedStep ==
    ASSUME TypeOK, DepositInv, RecordedHasTask, CountedIsMoving, [Next]_vars
    PROVE  CountedIsMoving'
<1> SUFFICES ASSUME NEW r \in Requests, Counted(r)'
             PROVE  /\ status'[r] \in Lifecycle!Offered
                    /\ status'[r] = "quoted" => Moving(r)' \/ faults' > 0
  BY DEF CountedIsMoving, Counted, Moving
<1>1. faults \in Nat /\ (faults' = faults \/ faults' = faults + 1)
  BY FaultsFrame DEF TypeOK
<1>2. status[r] \in Lifecycle!Offered => status'[r] \in Lifecycle!Offered
  BY StatusFrame DEF StatusMoves, Lifecycle!Offered
<1>3. Counted(r) => status[r] \in Lifecycle!Offered /\ (status[r] = "quoted" => Moving(r) \/ faults > 0)
  BY DEF CountedIsMoving
<1>4. status'[r] \in Lifecycle!Offered
  BY <1>2, <1>3, CountedOrigin
<1>5. CASE faults' = faults
  <2>1. status[r] \in Lifecycle!Offered
    BY <1>3, CountedOrigin
  <2>2. ASSUME status'[r] = "quoted", Counted(r) PROVE Moving(r)' \/ faults' > 0
    <3>1. status[r] = "quoted"
      BY <2>1, <2>2, StatusFrame DEF StatusMoves, Lifecycle!Offered
    <3>2. Moving(r) \/ faults > 0
      BY <1>3, <2>2, <3>1
    <3>3. Moving(r) => Moving(r)'
      BY <1>5, <2>2, MovingStays
    <3> QED
      BY <1>5, <3>2, <3>3
  <2>3. ASSUME status'[r] = "quoted", ~Counted(r) PROVE Moving(r)'
    BY <1>1, <1>5, <2>3, CountedOrigin
  <2> QED
    BY <1>4, <2>2, <2>3
<1>6. CASE faults' = faults + 1
  BY <1>1, <1>4, <1>6
<1> QED
  BY <1>1, <1>5, <1>6

\* The safety half of DepositIsNoticed: while the request is still `quoted` and
\* nothing has failed, a deposit the gateway took is in an event that is not
\* recorded yet, in a queued task, or some task has won the quote and is about
\* to move the request; whatever planners re-quote and refund meanwhile.
THEOREM TakenDepositsAreCarried == Spec => []DepositIsCarried
<1> DEFINE I == TypeOK /\ DepositInv /\ RecordedHasTask /\ CountedIsMoving
<1>1. Init => I
  <2>1. Init => RecordedHasTask /\ CountedIsMoving
    BY DEF Init, RecordedHasTask, CountedIsMoving, HasEvent, Counted
  <2> QED
    BY <2>1, TypeInit, DepositInit
<1>2. I /\ [Next]_vars => I'
  BY TypeStep, DepositInvStep, RecordedHasTaskStep, CountedStep
<1>3. I => DepositIsCarried
  <2> SUFFICES ASSUME I, NEW r \in Requests, NEW i \in Intents,
                      status[r] = "quoted", HasEvent(r, i), tasks[r][i] # "queued"
               PROVE  Moving(r) \/ faults > 0
    BY DEF DepositIsCarried
  <2>1. tasks[r][i] # "none" => Counted(r)
    BY DEF Counted, TypeOK, TaskStatuses
  <2> QED
    BY <2>1 DEF RecordedHasTask, CountedIsMoving
<1> HIDE DEF I
<1> QED
  BY <1>1, <1>2, <1>3, PTL DEF Spec
===============================================================================
