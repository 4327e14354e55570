------------------------ MODULE OrderPaymentRefinement ------------------------
(***************************************************************************)
(* OrderPayment implements OrderLifecycle: what the handlers do to orders  *)
(* and stock, statement by statement, is what the indivisible lifecycle    *)
(* allows.                                                                 *)
(***************************************************************************)
EXTENDS OrderPaymentProofs

\* A step of the lifecycle, or one it does not see.
Seen == [Lifecycle!Next]_(Lifecycle!lifecycleVars)

LEMMA Unseen == UNCHANGED orderVars => Seen
  BY DEF orderVars, Seen, Lifecycle!lifecycleVars

LEMMA CheckoutIsSeen ==
    ASSUME NEW o \in Orders, CheckoutStep(o)
    PROVE  Seen
<1>1. ASSUME NEW b \in Baskets, CreateOrder(o, b) PROVE Lifecycle!Place(o, b)
  BY <1>1 DEF CreateOrder, Lifecycle!Place
<1>2. MockFinalize(o) \/ CreateIntent(o) \/ RecordIntent(o) => UNCHANGED orderVars
  BY DEF MockFinalize, CreateIntent, RecordIntent
<1> QED
  BY <1>1, <1>2, Unseen DEF CheckoutStep, Seen, Lifecycle!Next

LEMMA GatewayIsUnseen ==
    ASSUME NEW o \in Orders, GatewayStep(o)
    PROVE  Seen
<1>1. UNCHANGED orderVars
  BY DEF GatewayStep, CustomerPays, GatewayNotifies
<1> QED
  BY <1>1, Unseen

LEMMA WebhookIsUnseen ==
    ASSUME NEW m, WebhookStep(m)
    PROVE  Seen
<1>1. UNCHANGED orderVars
  BY DEF WebhookStep, UpsertWebhook, ReplayWebhook, EnqueueFinalize
<1> QED
  BY <1>1, Unseen

\* MarkPaid is Pay on a created order; a conflict and all side effects are
\* not seen.
LEMMA WorkerIsSeen ==
    ASSUME NEW o \in Orders, NEW k \in TaskKeys, WorkerStep(o, k)
    PROVE  Seen
<1>1. CASE MarkPaid(o, k) /\ status[o] = "created"
  <2>1. Lifecycle!Pay(o)
    BY <1>1 DEF MarkPaid, Lifecycle!Pay, Lifecycle!Move
  <2> QED
    BY <2>1 DEF Seen, Lifecycle!Next
<1>2. CASE MarkPaid(o, k) /\ status[o] # "created"
  BY <1>2, Unseen DEF MarkPaid, orderVars
<1>3. CASE RecordSale(o, k) \/ EnqueueStockCheck(o, k) \/ ExhaustRetries(o, k)
  BY <1>3, Unseen DEF RecordSale, EnqueueStockCheck, ExhaustRetries
<1> QED
  BY <1>1, <1>2, <1>3 DEF WorkerStep

LEMMA RequestIsSeen ==
    ASSUME NEW o \in Orders, RequestStep(o)
    PROVE  Seen
<1>1. Cancel(o) => Lifecycle!Cancel(o)
  BY DEF Cancel, Lifecycle!Cancel
<1>2. Ship(o) => Lifecycle!Ship(o)
  BY DEF Ship, Transition, Lifecycle!Ship, Lifecycle!Move
<1>3. Complete(o) => Lifecycle!Complete(o)
  BY DEF Complete, Transition, Lifecycle!Complete, Lifecycle!Move
<1>4. ASSUME NEW r \in Refunders, RefundRead(r, o) PROVE Seen
  BY <1>4, Unseen DEF RefundRead
<1> QED
  BY <1>1, <1>2, <1>3, <1>4 DEF RequestStep, Seen, Lifecycle!Next

\* The status Refund read at its beginning is paid or shipped, and its last
\* step moves the order only from there.
LEMMA RefundIsSeen ==
    ASSUME TypeOK, NEW h \in refunds, RefundStep(h)
    PROVE  Seen
<1>1. h.order \in Orders /\ h.seen \in {"paid", "shipped"}
  BY DEF TypeOK, RefundCalls
<1>2. CASE RefundTransition(h) /\ status[h.order] = h.seen
  <2>1. Lifecycle!Move(h.order, h.seen, "refunded")
    BY <1>2 DEF RefundTransition, Lifecycle!Move
  <2>2. Lifecycle!Refund(h.order)
    BY <1>1, <2>1 DEF Lifecycle!Refund
  <2> QED
    BY <1>1, <2>2 DEF Seen, Lifecycle!Next
<1>3. CASE RefundTransition(h) /\ status[h.order] # h.seen
  BY <1>3, Unseen DEF RefundTransition, orderVars
<1>4. CASE RefundFind(h) \/ RefundCall(h) \/ RefundMark(h)
  BY <1>4, Unseen DEF RefundFind, RefundCall, RefundMark
<1> QED
  BY <1>2, <1>3, <1>4 DEF RefundStep

LEMMA StepIsSeen == TypeOK /\ [Next]_vars => Seen
<1> SUFFICES ASSUME TypeOK, [Next]_vars PROVE Seen
  OBVIOUS
<1>1. CASE UNCHANGED vars
  BY <1>1, Unseen DEF vars, orderVars
<1>2. CASE ServeCrash \/ WorkerCrash
  BY <1>2, Unseen DEF ServeCrash, WorkerCrash
<1> QED
  BY <1>1, <1>2, CheckoutIsSeen, GatewayIsUnseen, WebhookIsUnseen, WorkerIsSeen,
     RequestIsSeen, RefundIsSeen
  DEF Next

\* The handlers, interleaved in any way and crashing at any point, do nothing
\* to orders and stock that the indivisible lifecycle does not allow.
THEOREM OrdersFollowTheLifecycle == Spec => ImplementsLifecycle
<1>1. Init => Lifecycle!Init
  BY DEF Init, Lifecycle!Init, NoItems, Lifecycle!NoItems
<1>2. TypeOK /\ [Next]_vars => [Lifecycle!Next]_(Lifecycle!lifecycleVars)
  BY StepIsSeen DEF Seen
<1> QED
  BY <1>1, <1>2, TypeCorrect, PTL DEF Spec, ImplementsLifecycle, Lifecycle!Spec

-------------------------------------------------------------------------------
(* What the lifecycle conserves, the handlers conserve                     *)

\* The units in orders are finitely many, so that they can be counted.
StockInv ==
    /\ StockConserved
    /\ \A s \in Skus : IsFiniteSet(HeldUnits(s))

\* An order holds as many units as its item says.
LEMMA HeldByCount ==
    ASSUME NEW o, NEW n \in Nat
    PROVE  IsFiniteSet({o} \X (1..n)) /\ Cardinality({o} \X (1..n)) = n
<1>1. IsFiniteSet(1..n) /\ Cardinality(1..n) = n
  BY FS_Interval
<1>2. IsFiniteSet({o}) /\ Cardinality({o}) = 1
  BY FS_Singleton
<1>3. /\ IsFiniteSet({o} \X (1..n))
      /\ Cardinality({o} \X (1..n)) = 1 * n
  BY <1>1, <1>2, FS_Product
<1> QED
  BY <1>3

\* A placed order adds its units, and no order held any of them before.
LEMMA PlaceConserves ==
    ASSUME TypeOK, StockInv, NEW o \in Orders, NEW b \in Baskets, Lifecycle!Place(o, b)
    PROVE  StockInv'
<1> SUFFICES ASSUME NEW s \in Skus
             PROVE  /\ stock'[s] + Held(s)' = InitStock[s]
                    /\ IsFiniteSet(HeldUnits(s)')
  BY DEF StockInv, StockConserved
<1> DEFINE U == {o} \X (1..b[s])
<1>1. /\ b \in [Skus -> Nat] /\ stock[s] \in Nat /\ stock'[s] = stock[s] - b[s]
      /\ b[s] \in Nat
  BY BasketsAssumption DEF Lifecycle!Place, TypeOK
<1>2. HeldUnits(s)' = HeldUnits(s) \cup U
  <2>1. items'[o] = b /\ \A p \in Orders : p # o => items'[p] = items[p]
    BY DEF Lifecycle!Place, TypeOK
  <2>2. /\ status[o] = "none" /\ status'[o] = "created"
        /\ \A p \in Orders : p # o => status'[p] = status[p]
    BY DEF Lifecycle!Place, TypeOK
  <2> QED
    BY <2>1, <2>2 DEF HeldUnits, HeldBy
<1>3. HeldUnits(s) \cap U = {}
  BY DEF Lifecycle!Place, HeldUnits, HeldBy
<1>4. IsFiniteSet(HeldUnits(s)) /\ stock[s] + Cardinality(HeldUnits(s)) = InitStock[s]
  BY DEF StockInv, StockConserved, Held
<1>5. IsFiniteSet(U) /\ Cardinality(U) = b[s]
  BY <1>1, HeldByCount
<1>6. Cardinality(HeldUnits(s)) \in Nat
  BY <1>4, FS_CardinalityType
<1>7. /\ IsFiniteSet(HeldUnits(s)')
      /\ Cardinality(HeldUnits(s)') = Cardinality(HeldUnits(s)) + b[s] - 0
  <2> HIDE DEF U
  <2> QED
    BY <1>2, <1>3, <1>4, <1>5, FS_Union, FS_EmptySet
<1> QED
  BY <1>1, <1>4, <1>6, <1>7 DEF Held

\* A cancelled order takes exactly its own units away.
LEMMA CancelConserves ==
    ASSUME TypeOK, StockInv, NEW o \in Orders, Lifecycle!Cancel(o)
    PROVE  StockInv'
<1> SUFFICES ASSUME NEW s \in Skus
             PROVE  /\ stock'[s] + Held(s)' = InitStock[s]
                    /\ IsFiniteSet(HeldUnits(s)')
  BY DEF StockInv, StockConserved
<1> DEFINE U == {o} \X (1..items[o][s])
<1>1. /\ items[o][s] \in Nat /\ stock[s] \in Nat /\ stock'[s] = stock[s] + items[o][s]
  BY DEF Lifecycle!Cancel, TypeOK
<1>2. HeldUnits(s)' = HeldUnits(s) \ U /\ U \subseteq HeldUnits(s)
  <2>1. items' = items
    BY DEF Lifecycle!Cancel
  <2>2. /\ status[o] = "created" /\ status'[o] = "cancelled"
        /\ \A p \in Orders : p # o => status'[p] = status[p]
    BY DEF Lifecycle!Cancel, TypeOK
  <2> QED
    BY <2>1, <2>2 DEF HeldUnits, HeldBy
<1>3. HeldUnits(s) \cap U = U
  BY <1>2
<1>4. IsFiniteSet(HeldUnits(s)) /\ stock[s] + Cardinality(HeldUnits(s)) = InitStock[s]
  BY DEF StockInv, StockConserved, Held
<1>5. Cardinality(U) = items[o][s]
  BY <1>1, HeldByCount
<1>6. Cardinality(HeldUnits(s)) \in Nat
  BY <1>4, FS_CardinalityType
<1>7. /\ IsFiniteSet(HeldUnits(s)')
      /\ Cardinality(HeldUnits(s)') = Cardinality(HeldUnits(s)) - items[o][s]
  <2> HIDE DEF U
  <2> QED
    BY <1>2, <1>3, <1>4, <1>5, FS_Difference
<1> QED
  BY <1>1, <1>4, <1>6, <1>7 DEF Held

\* Every other step keeps the set of orders that hold units.
LEMMA MoveConserves ==
    ASSUME TypeOK, StockInv, NEW o \in Orders, NEW from \in {"created", "paid", "shipped"},
           NEW to \in {"paid", "shipped", "completed", "refunded"},
           Lifecycle!Move(o, from, to)
    PROVE  StockInv'
<1>1. UNCHANGED <<items, stock>>
  BY DEF Lifecycle!Move
<1>2. \A p \in Orders : status[p] \in {"none", "cancelled"} <=> status'[p] \in {"none", "cancelled"}
  BY DEF Lifecycle!Move, TypeOK
<1>3. \A s \in Skus : HeldUnits(s)' = HeldUnits(s)
  BY <1>1, <1>2 DEF HeldUnits, HeldBy
<1> QED
  BY <1>1, <1>3 DEF StockInv, StockConserved, Held

\* So every step of the lifecycle conserves the units.
LEMMA LifecycleConserves == TypeOK /\ StockInv /\ Seen => StockInv'
<1> SUFFICES ASSUME TypeOK, StockInv, Seen PROVE StockInv'
  OBVIOUS
<1>1. CASE UNCHANGED Lifecycle!lifecycleVars
  BY <1>1 DEF Lifecycle!lifecycleVars, StockInv, StockConserved, Held, HeldUnits, HeldBy
<1>2. ASSUME NEW o \in Orders,
             Lifecycle!Pay(o) \/ Lifecycle!Ship(o) \/ Lifecycle!Complete(o)
                 \/ Lifecycle!Refund(o)
      PROVE  StockInv'
  BY <1>2, MoveConserves
  DEF Lifecycle!Pay, Lifecycle!Ship, Lifecycle!Complete, Lifecycle!Refund
<1> QED
  BY <1>1, <1>2, PlaceConserves, CancelConserves DEF Seen, Lifecycle!Next

\* Whatever races with whatever, no unit is sold twice and none is lost: what is on
\* the shelf and what orders hold always add up to the initial stock.
THEOREM StockIsConserved == Spec => []StockConserved
<1>1. Init => StockInv
  <2> SUFFICES ASSUME Init, NEW s \in Skus
               PROVE  stock[s] + Held(s) = InitStock[s] /\ IsFiniteSet(HeldUnits(s))
    BY DEF StockInv, StockConserved
  <2>1. HeldUnits(s) = {}
    BY DEF Init, HeldUnits
  <2>2. stock[s] = InitStock[s] /\ InitStock[s] \in Nat
    BY InitStockAssumption DEF Init
  <2> QED
    BY <2>1, <2>2, FS_EmptySet DEF Held
<1>2. TypeOK /\ StockInv /\ [Next]_vars => StockInv'
  BY StepIsSeen, LifecycleConserves
<1>3. StockInv => StockConserved
  BY DEF StockInv
<1> QED
  BY <1>1, <1>2, <1>3, TypeCorrect, PTL DEF Spec
===============================================================================
