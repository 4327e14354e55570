------------------------------ MODULE MCAccounts ------------------------------
(***************************************************************************)
(* Three parts of what a customer deals with, for TLC: a checkout in mock  *)
(* mode (OrderPayment) and the throttle on e-mails (Accounts), which must  *)
(* come to an end, and what a bill says (Prices).  They share no variable; *)
(* every behaviour is one of the part the run begins with.                 *)
(***************************************************************************)
EXTENDS MCOrderPayment, Accounts, MCPrices

VARIABLE part

settleVars == <<vars, accVars, priceVars, part>>

OrderPart(A) == part = "order" /\ A /\ UNCHANGED <<accVars, priceVars, part>>
AccountPart(A) == part = "accounts" /\ A /\ UNCHANGED <<vars, priceVars, part>>
PricePart(A) == part = "prices" /\ A /\ UNCHANGED <<vars, accVars, part>>

SettleInit ==
    /\ Init /\ AccInit /\ PriceInit
    /\ part \in {"order", "accounts", "prices"}
    /\ part # "prices" => day = 15
SettleNext == OrderPart(Next) \/ AccountPart(AccNext) \/ PricePart(PriceNext)

\* The workers run what is queued; a request that runs finishes, and Redis drops
\* what has an expiry.
SettleSpec ==
    /\ SettleInit /\ [][SettleNext]_settleVars
    /\ \A o \in Orders, k \in TaskKeys :
         WF_settleVars(OrderPart(MarkPaid(o, k) \/ RecordSale(o, k) \/ EnqueueStockCheck(o, k)))
    /\ \A c \in AccCalls : WF_settleVars(AccountPart(RequestGoesOn(c)))
    /\ \A u \in AccUsers : WF_settleVars(AccountPart(ThrottleExpires(u)))
===============================================================================
