------------------------------- MODULE MCWorker --------------------------------
(***************************************************************************)
(* What the worker owes, for TLC: the events of the gateways               *)
(* (OrderPayment, PaymentRouting) become paid orders and deposits,         *)
(* breaches and low stock become alerts (Alerts), and documents become     *)
(* PDFs (Documents; there is nothing to do unless PDF_MODE is chromedp).   *)
(* They share no variable; every behaviour is one of the part the run      *)
(* begins with.                                                            *)
(***************************************************************************)
EXTENDS MCOrderPayment, Alerts, Documents, PaymentRouting

VARIABLE part

dutyVars == <<vars, alertVars, docVars, routeVars, part>>

OrderPart(A) == part = "order" /\ A /\ UNCHANGED <<alertVars, docVars, routeVars, part>>
AlertPart(A) == part = "alerts" /\ A /\ UNCHANGED <<vars, docVars, routeVars, part>>
DocPart(A) == part = "documents" /\ A /\ UNCHANGED <<vars, alertVars, routeVars, part>>
RoutePart(A) == part = "routing" /\ A /\ UNCHANGED <<vars, alertVars, docVars, part>>

WorkerInit ==
    /\ Init /\ AlertInit /\ DocInit /\ RouteInit
    /\ part \in {"order", "alerts", "documents", "routing"}
    /\ pdf_mode = "chromedp"
WorkerNext ==
    OrderPart(Next) \/ AlertPart(AlertNext) \/ DocPart(DocNext) \/ RoutePart(RouteNext)

\* Fairness of OrderPayment, AlertFairness and RouteFairness; a worker goes
\* on with a PDF it has in hand, and asynq hands every queued job to one in the end.
WorkerFairness ==
    /\ \A m \in Messages :
        /\ WF_dutyVars(OrderPart(UpsertWebhook(m) \/ ReplayWebhook(m)))
        /\ WF_dutyVars(OrderPart(EnqueueFinalize(m)))
    /\ \A o \in Orders, k \in TaskKeys :
        WF_dutyVars(OrderPart(MarkPaid(o, k) \/ RecordSale(o, k) \/ EnqueueStockCheck(o, k)))
    /\ WF_dutyVars(AlertPart(ScheduleSLACheck))
    /\ \A w \in Clerks :
        WF_dutyVars(AlertPart(SetSLANotified(w) \/ NotifyPlanner(w) \/ NextLowSKU(w) \/ NotifyOperator(w)))
    /\ SF_dutyVars(AlertPart(\E w \in Clerks : ListBreached(w)))
    /\ \A S \in SkuSets : SF_dutyVars(AlertPart(\E w \in Clerks : FindLowStock(w, S)))
    /\ \A w \in Presses : WF_dutyVars(DocPart(PressWorks(w)))
    /\ \A d \in Docs : SF_dutyVars(DocPart(\E w \in Presses : GetByID(w, d)))
    /\ \A r \in Refs : WF_dutyVars(RoutePart(HandleWebhook(r)))
    /\ \A o \in Owners, r \in Refs : WF_dutyVars(RoutePart(PaymentFinalize([owner |-> o, ref |-> r])))

WorkerSpec == WorkerInit /\ [][WorkerNext]_dutyVars /\ WorkerFairness
===============================================================================
