-------------------------------- MODULE Alerts --------------------------------
(***************************************************************************)
(* The two jobs of the worker that alert the staff.                        *)
(*                                                                         *)
(*   sla:check    (every 15 minutes) tells every travel planner of a       *)
(*                request that is past its 24 hours, once: the flag is set *)
(*                by compare-and-set before anybody is told                *)
(*   stock:check  (after an order is paid) tells every operator of the     *)
(*                order's SKUs that are low on stock                       *)
(*                                                                         *)
(* A job that fails or whose worker stops runs again.  What is told is a   *)
(* row of notifications; the e-mail beside it goes the same way, and the   *)
(* push to open tabs is WsHub.                                             *)
(*                                                                         *)
(* A definition whose comment begins with "Mutant" is no part of the model *)
(* (see OrderPayment).                                                     *)
(***************************************************************************)
EXTENDS Naturals, FiniteSets

CONSTANTS Tickets,        \* itinerary requests
          Goods,          \* SKUs
          Planners,       \* travel planners
          Operators,      \* e-commerce operators
          Clerks,         \* worker goroutines
          Threshold,      \* low_stock_threshold
          MaxLevel,       \* bound on a stock level
          MaxQueued,      \* bound on the jobs of a kind in the queue
          AlertMaxFaults  \* bound on crashes and failed statements

ASSUME ThresholdAssumption == Threshold \in Nat /\ MaxLevel \in Nat /\ Threshold < MaxLevel
ASSUME ClerksAssumption == IsFiniteSet(Clerks)
ASSUME MaxQueuedAssumption == MaxQueued \in Nat \ {0}
ASSUME AlertMaxFaultsAssumption == AlertMaxFaults \in Nat

VARIABLES ticket,      \* status of the request, as far as sla:check looks at it
          overdue,     \* requests past sla_deadline
          flagged,     \* requests with sla_notified_at
          alerted,     \* notifications by request and planner
          level,       \* skus.stock
          warned,      \* operators told of a SKU since it was last well stocked
          ticks,       \* sla:check jobs in the queue
          checks,      \* stock:check jobs in the queue, by the SKUs they name
          clerk,       \* jobs that run
          untold,      \* requests and SKUs an alert about which was lost
          alertFaults  \* faults so far

alertVars == <<ticket, overdue, flagged, alerted, level, warned, ticks, checks, clerk,
               untold, alertFaults>>
slaVars == <<ticket, overdue, flagged, alerted, ticks>>
stockVars == <<level, warned, checks>>

SkuSets == SUBSET Goods \ {{}}

\* `todo` is what the job found, `about` the one it alerts about, `left` who is
\* still to be told, `skus` what a stock:check names.
Free == [job |-> "none", todo |-> {}, about |-> {}, left |-> {}, skus |-> {}]
SLAJob == [Free EXCEPT !.job = "sla"]
StockJob(S) == [Free EXCEPT !.job = "stock", !.skus = S]
Things == Tickets \cup Goods
Jobs ==
    [job : {"none", "stock"}, todo : SUBSET Goods, about : SUBSET Goods, left : SUBSET Operators,
     skus : SUBSET Goods] \cup
    [job : {"sla"}, todo : SUBSET Tickets, about : SUBSET Tickets, left : SUBSET Planners, skus : {{}}]

AlertTypeOK ==
    /\ ticket \in [Tickets -> {"none", "pending", "processing", "closed"}]
    /\ overdue \subseteq Tickets
    /\ flagged \subseteq Tickets
    /\ alerted \in [Tickets -> [Planners -> 0..2]]
    /\ level \in [Goods -> 0..MaxLevel]
    /\ warned \in [Goods -> SUBSET Operators]
    /\ ticks \in 0..MaxQueued
    /\ checks \in [SkuSets -> 0..MaxQueued]
    /\ clerk \in [Clerks -> Jobs]
    /\ untold \subseteq Things
    /\ alertFaults \in 0..AlertMaxFaults

AlertInit ==
    /\ ticket = [q \in Tickets |-> "none"]
    /\ overdue = {}
    /\ flagged = {}
    /\ alerted = [q \in Tickets |-> [p \in Planners |-> 0]]
    /\ level = [s \in Goods |-> MaxLevel]
    /\ warned = [s \in Goods |-> {}]
    /\ ticks = 0
    /\ checks = [S \in SkuSets |-> 0]
    /\ clerk = [w \in Clerks |-> Free]
    /\ untold = {}
    /\ alertFaults = 0

AlertFault == alertFaults < AlertMaxFaults /\ alertFaults' = alertFaults + 1
Low(s) == level[s] <= Threshold
Open(q) == ticket[q] \in {"pending", "processing"}

\* The job turns to x, with people to tell; p has been told.
Begun(r, x, people) == [r EXCEPT !.todo = @ \ {x}, !.about = {x}, !.left = people]
Told(r, p) == [r EXCEPT !.left = @ \ {p}]

\* The job goes on as r; one with nothing left to do is over.
GoOn(w, r) ==
    clerk' = [clerk EXCEPT ![w] = IF r.todo = {} /\ r.left = {} THEN Free
                                  ELSE IF r.left = {} THEN [r EXCEPT !.about = {}] ELSE r]

-------------------------------------------------------------------------------
(* What happens around the jobs *)

\* The customer submits, a planner takes it up, it is quoted or cancelled.
TicketMoves(q, s) ==
    /\ <<ticket[q], s>> \in {<<"none", "pending">>, <<"pending", "processing">>,
                             <<"pending", "closed">>, <<"processing", "closed">>}
    /\ ticket' = [ticket EXCEPT ![q] = s]
    /\ UNCHANGED <<overdue, flagged, alerted, stockVars, ticks, clerk, untold, alertFaults>>

DeadlinePasses(q) ==
    /\ Open(q) /\ q \notin overdue
    /\ overdue' = overdue \cup {q}
    /\ UNCHANGED <<ticket, flagged, alerted, stockVars, ticks, clerk, untold, alertFaults>>

\* An order takes a unit; the editor restocks.
LevelChanges(s, n) ==
    /\ n = level[s] - 1 \/ n = MaxLevel
    /\ level[s] > 0 /\ n # level[s]
    /\ level' = [level EXCEPT ![s] = n]
    /\ warned' = [warned EXCEPT ![s] = IF n <= Threshold THEN @ ELSE {}]
    /\ UNCHANGED <<slaVars, checks, clerk, untold, alertFaults>>

\* An order of these SKUs is paid (MarkPaid, see OrderPayment).
StockCheckIsDue(S) ==
    /\ checks[S] < MaxQueued
    /\ checks' = [checks EXCEPT ![S] = @ + 1]
    /\ UNCHANGED <<slaVars, level, warned, clerk, untold, alertFaults>>

\* The scheduler's cron entry.
ScheduleSLACheck ==
    /\ ticks < MaxQueued
    /\ ticks' = ticks + 1
    /\ UNCHANGED <<ticket, overdue, flagged, alerted, stockVars, clerk, untold, alertFaults>>

-------------------------------------------------------------------------------
(* The jobs *)

\* A failed query sends the job back to the queue, at the start of either.
QueryFails(w) ==
    /\ clerk[w] = Free /\ (ticks > 0 \/ \E S \in SkuSets : checks[S] > 0)
    /\ AlertFault
    /\ UNCHANGED <<slaVars, stockVars, clerk, untold>>

\* Mutant: requests a planner has taken up are not looked at.
BreachedPending == {q \in overdue : ticket[q] = "pending" /\ q \notin flagged}

\* Open requests past the deadline that are not flagged.
Breached == {q \in overdue : Open(q) /\ q \notin flagged}

ListBreached(w) ==
    /\ clerk[w] = Free /\ ticks > 0
    /\ ticks' = ticks - 1
    /\ GoOn(w, [SLAJob EXCEPT !.todo = Breached])
    /\ UNCHANGED <<ticket, overdue, flagged, alerted, stockVars, untold, alertFaults>>

\* Mutant: whoever has found the request tells of it.
SetSLANotifiedBlind(w) ==
    LET r == clerk[w] IN
    /\ r.job = "sla" /\ r.left = {}
    /\ \E q \in r.todo :
         /\ flagged' = flagged \cup {q}
         /\ GoOn(w, Begun(r, q, Planners))
    /\ UNCHANGED <<ticket, overdue, alerted, ticks, stockVars, untold, alertFaults>>

\* The flag is set if it is not; who finds it set, or fails, tells nobody.
SetSLANotified(w) ==
    LET r == clerk[w] IN
    /\ r.job = "sla" /\ r.left = {}
    /\ \E q \in r.todo :
         \/ /\ q \notin flagged
            /\ flagged' = flagged \cup {q}
            /\ GoOn(w, Begun(r, q, Planners))
            /\ UNCHANGED alertFaults
         \/ /\ GoOn(w, [r EXCEPT !.todo = @ \ {q}])
            /\ (q \notin flagged /\ AlertFault) \/ (q \in flagged /\ UNCHANGED alertFaults)
            /\ UNCHANGED flagged
    /\ UNCHANGED <<ticket, overdue, alerted, ticks, stockVars, untold>>

\* A row for one of the planners; an error is logged and the next is told.
NotifyPlanner(w) ==
    LET r == clerk[w] IN
    /\ r.job = "sla"
    /\ \E p \in r.left :
         /\ GoOn(w, Told(r, p))
         /\ \/ /\ alerted' = [q \in Tickets |-> IF q \in r.about /\ alerted[q][p] < 2
                                 THEN [alerted[q] EXCEPT ![p] = @ + 1] ELSE alerted[q]]
               /\ UNCHANGED <<untold, alertFaults>>
            \/ AlertFault /\ untold' = untold \cup r.about /\ UNCHANGED alerted
    /\ UNCHANGED <<ticket, overdue, flagged, ticks, stockVars>>

\* Mutant: a level at the threshold is not low.
FindLowerStock(w, S) ==
    /\ clerk[w] = Free /\ checks[S] > 0
    /\ checks' = [checks EXCEPT ![S] = @ - 1]
    /\ GoOn(w, [StockJob(S) EXCEPT !.todo = {s \in S : level[s] < Threshold}])
    /\ UNCHANGED <<slaVars, level, warned, untold, alertFaults>>

\* The SKUs the job names that are low now.
FindLowStock(w, S) ==
    /\ clerk[w] = Free /\ checks[S] > 0
    /\ checks' = [checks EXCEPT ![S] = @ - 1]
    /\ GoOn(w, [StockJob(S) EXCEPT !.todo = {s \in S : Low(s)}])
    /\ UNCHANGED <<slaVars, level, warned, untold, alertFaults>>

NextLowSKU(w) ==
    LET r == clerk[w] IN
    /\ r.job = "stock" /\ r.left = {}
    /\ \E s \in r.todo : GoOn(w, Begun(r, s, Operators))
    /\ UNCHANGED <<slaVars, stockVars, untold, alertFaults>>

NotifyOperator(w) ==
    LET r == clerk[w] IN
    /\ r.job = "stock"
    /\ \E o \in r.left :
         /\ GoOn(w, Told(r, o))
         /\ \/ /\ warned' = [s \in Goods |-> IF s \in r.about THEN warned[s] \cup {o} ELSE warned[s]]
               /\ UNCHANGED <<untold, alertFaults>>
            \/ AlertFault /\ untold' = untold \cup r.about /\ UNCHANGED warned
    /\ UNCHANGED <<slaVars, level, checks>>

\* The worker stops; what ran is run again from its start.  A request that was
\* flagged is not found again.
AlertCrash ==
    /\ \E w \in Clerks : clerk[w] # Free
    /\ clerk' = [w \in Clerks |-> Free]
    /\ LET back(j) == {w \in Clerks : clerk[w].job = j} IN
       /\ ticks' = IF ticks + Cardinality(back("sla")) > MaxQueued THEN MaxQueued
                   ELSE ticks + Cardinality(back("sla"))
       /\ checks' = [S \in SkuSets |->
             LET n == checks[S] + Cardinality({w \in back("stock") : clerk[w].skus = S})
             IN IF n > MaxQueued THEN MaxQueued ELSE n]
       /\ untold' = untold \cup UNION {clerk[w].about : w \in back("sla")}
    /\ AlertFault
    /\ UNCHANGED <<ticket, overdue, flagged, alerted, level, warned>>

-------------------------------------------------------------------------------
ClerkWorks(w) ==
    \/ ListBreached(w) \/ SetSLANotified(w) \/ NotifyPlanner(w)
    \/ NextLowSKU(w) \/ NotifyOperator(w)
    \/ \E S \in SkuSets : FindLowStock(w, S)

AlertNext ==
    \/ \E q \in Tickets : DeadlinePasses(q) \/ \E s \in {"pending", "processing", "closed"} : TicketMoves(q, s)
    \/ \E s \in Goods, n \in 0..MaxLevel : LevelChanges(s, n)
    \/ \E S \in SkuSets : StockCheckIsDue(S)
    \/ ScheduleSLACheck
    \/ \E w \in Clerks : ClerkWorks(w) \/ QueryFails(w)
    \/ AlertCrash

\* asynq hands every queued job to a worker in the end, of either type, and the
\* scheduler keeps ticking.
AlertFairness ==
    /\ WF_alertVars(ScheduleSLACheck)
    /\ \A w \in Clerks :
         WF_alertVars(SetSLANotified(w) \/ NotifyPlanner(w) \/ NextLowSKU(w) \/ NotifyOperator(w))
    /\ SF_alertVars(\E w \in Clerks : ListBreached(w))
    /\ \A S \in SkuSets : SF_alertVars(\E w \in Clerks : FindLowStock(w, S))

AlertSpec == AlertInit /\ [][AlertNext]_alertVars /\ AlertFairness

-------------------------------------------------------------------------------
(* Properties *)

\* However many ticks overlap, fail or run again, no planner is told twice of the
\* same request.
AlertedOnce == \A q \in Tickets, p \in Planners : alerted[q][p] <= 1

\* A request that is past its deadline is closed, or every planner is told of it,
\* unless the alert was lost after the flag was set.
LateIsNoticed ==
    \A q \in Tickets :
        (Open(q) /\ q \in overdue)
          ~> (~Open(q) \/ q \in untold \/ \A p \in Planners : alerted[q][p] > 0)

\* If a SKU is low when a check that names it is due, every operator is told of it
\* or it is restocked: a crash of the worker does not lose the alert.
LowStockIsNoticed ==
    \A s \in Goods :
        (Low(s) /\ \E S \in SkuSets : s \in S /\ checks[S] > 0)
          ~> (~Low(s) \/ s \in untold \/ warned[s] = Operators)
===============================================================================
