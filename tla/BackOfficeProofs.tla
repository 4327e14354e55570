--------------------------- MODULE BackOfficeProofs ---------------------------
(***************************************************************************)
(* Theorems about what the staff and the worker do: PaymentRouting,        *)
(* Publishing, Documents, MediaLibrary, Alerts and Visitors, for all       *)
(* values of their constants.                                              *)
(***************************************************************************)
EXTENDS PaymentRouting, Publishing, Documents, MediaLibrary, Alerts, Visitors, DataLemmas, FiniteSetTheorems, TLAPS

-------------------------------------------------------------------------------
(* PaymentRouting *)

USE NumbersAssumption

\* What the webhook makes of the event of an intent.
OwnerByEvent(r) ==
    IF charge[r].carries # 0 THEN [kind |-> "order", nr |-> charge[r].carries] ELSE charge[r].owner

\* Until the event is recorded the newest payment is the intent's own; what is to be
\* finalized or was paid goes back to a recorded event of captured money.
OwnersKnown ==
    /\ \A r \in Refs : charge[r] = NoCharge => r \notin told /\ newest[r] = NoOwner
    /\ \A r \in Refs : charge[r] # NoCharge =>
          charge[r].owner \in Owners /\ (r \notin told => newest[r] = charge[r].owner)
    /\ \A r \in told : charge[r].state = "captured"
TasksKnown == \A t \in finalizing : t.ref \in told /\ t.owner = OwnerByEvent(t.ref)
PaidKnown ==
    /\ \A n \in Numbers : orderRow[n] = "paid" =>
          \E r \in told : OwnerByEvent(r) = [kind |-> "order", nr |-> n]
    /\ \A n \in Numbers : quoteRow[n] = "deposit_paid" =>
          \E r \in told : OwnerByEvent(r) = [kind |-> "quote", nr |-> n]

RouteInv == RouteTypeOK /\ OwnersKnown /\ TasksKnown /\ PaidKnown

LEMMA RouteInvInit == RouteInit => RouteInv
  BY DEF RouteInit, RouteInv, RouteTypeOK, OwnersKnown, TasksKnown, PaidKnown, NoCharge, NoOwner, Charges

LEMMA RouteQuiet ==
    ASSUME RouteInv, UNCHANGED <<charge, newest, told, finalizing>>,
           orderRow' \in [Numbers -> {"none", "created", "paid"}],
           quoteRow' \in [Numbers -> {"none", "sent", "deposit_paid"}],
           \A n \in Numbers : orderRow'[n] = "paid" => orderRow[n] = "paid",
           \A n \in Numbers : quoteRow'[n] = "deposit_paid" => quoteRow[n] = "deposit_paid"
    PROVE  RouteInv'
<1>1. RouteTypeOK' /\ OwnersKnown'
  BY DEF RouteInv, RouteTypeOK, OwnersKnown
<1>2. \A r : OwnerByEvent(r)' = OwnerByEvent(r)
  BY DEF OwnerByEvent
<1>3. TasksKnown' /\ PaidKnown'
  BY <1>2 DEF RouteInv, TasksKnown, PaidKnown
<1> QED
  BY <1>1, <1>3 DEF RouteInv

LEMMA RouteOpens ==
    ASSUME RouteInv, NEW r \in Refs, NEW owner \in Owners, NEW gateway, OpenIntent(r, gateway, owner)
    PROVE  RouteInv'
<1>1. PICK n \in CarriedBy(gateway, owner) :
        charge' = [charge EXCEPT ![r] = [state |-> "open", owner |-> owner, carries |-> n]]
  BY DEF OpenIntent
<1>2. n \in Numbers \cup {0}
  BY <1>1 DEF CarriedBy, Owners
<1>3. /\ charge[r] = NoCharge /\ newest' = [newest EXCEPT ![r] = owner]
      /\ UNCHANGED <<orderRow, quoteRow, told, finalizing>>
  BY DEF OpenIntent
<1>4. r \notin told
  BY <1>3 DEF RouteInv, OwnersKnown
<1>5. RouteTypeOK'
  BY <1>1, <1>2, <1>3 DEF RouteInv, RouteTypeOK, Charges
<1>6. charge'[r].owner = owner /\ newest'[r] = owner /\ charge'[r] # NoCharge
  BY <1>1, <1>3 DEF RouteInv, RouteTypeOK, NoCharge
<1>7. \A q \in Refs \ {r} : charge'[q] = charge[q] /\ newest'[q] = newest[q]
  BY <1>1, <1>3 DEF RouteInv, RouteTypeOK
<1>8. OwnersKnown'
  BY <1>3, <1>4, <1>6, <1>7 DEF RouteInv, RouteTypeOK, OwnersKnown
<1>9. \A q \in told : q \in Refs /\ OwnerByEvent(q)' = OwnerByEvent(q)
  BY <1>4, <1>7 DEF RouteInv, RouteTypeOK, OwnerByEvent
<1>10. TasksKnown' /\ PaidKnown'
  BY <1>3, <1>9 DEF RouteInv, TasksKnown, PaidKnown
<1> QED
  BY <1>5, <1>8, <1>10 DEF RouteInv

LEMMA RouteCaptures ==
    ASSUME RouteInv, NEW r \in Refs, Capture(r)
    PROVE  RouteInv'
<1>1. /\ charge[r].state = "open" /\ charge' = [charge EXCEPT ![r].state = "captured"]
      /\ UNCHANGED <<orderRow, quoteRow, newest, told, finalizing>>
  BY DEF Capture
<1>2. charge \in [Refs -> Charges] /\ charge[r] \in Charges
  BY DEF RouteInv, RouteTypeOK
<1>3. /\ charge'[r] = [charge[r] EXCEPT !.state = "captured"]
      /\ \A q \in Refs \ {r} : charge'[q] = charge[q]
  BY <1>1, <1>2
<1>4. charge'[r].owner = charge[r].owner /\ charge'[r].carries = charge[r].carries
      /\ charge'[r].state = "captured" /\ charge'[r] \in Charges
  BY <1>2, <1>3 DEF Charges
<1>5. charge[r] # NoCharge /\ charge'[r] # NoCharge
  BY <1>1, <1>4 DEF NoCharge
<1>6. RouteTypeOK'
  BY <1>1, <1>2, <1>4 DEF RouteInv, RouteTypeOK
<1>7. OwnersKnown'
  BY <1>1, <1>3, <1>4, <1>5 DEF RouteInv, RouteTypeOK, OwnersKnown
<1>8. \A q \in Refs : OwnerByEvent(q)' = OwnerByEvent(q)
  BY <1>3, <1>4 DEF OwnerByEvent
<1>9. TasksKnown' /\ PaidKnown'
  BY <1>1, <1>8 DEF RouteInv, RouteTypeOK, TasksKnown, PaidKnown
<1> QED
  BY <1>6, <1>7, <1>9 DEF RouteInv

LEMMA RouteHears ==
    ASSUME RouteInv, NEW r \in Refs, HandleWebhook(r)
    PROVE  RouteInv'
<1> DEFINE owner == Resolve(r)
<1>1. /\ charge[r].state = "captured" /\ r \notin told
      /\ newest' = [newest EXCEPT ![r] = owner] /\ told' = told \cup {r}
      /\ finalizing' = finalizing \cup {[owner |-> owner, ref |-> r]}
      /\ UNCHANGED <<orderRow, quoteRow, charge>>
  BY DEF HandleWebhook
<1>2. charge[r] # NoCharge /\ charge[r] \in Charges
  BY <1>1 DEF RouteInv, RouteTypeOK, NoCharge
<1>3. owner = OwnerByEvent(r) /\ owner \in Owners
  BY <1>1, <1>2 DEF RouteInv, OwnersKnown, Resolve, OwnerByEvent, Owners, Charges
<1> HIDE DEF owner
<1>4. RouteTypeOK'
  BY <1>1, <1>3 DEF RouteInv, RouteTypeOK
<1>5. OwnersKnown'
  <2>1. \A q \in Refs \ {r} : newest'[q] = newest[q]
    BY <1>1 DEF RouteInv, RouteTypeOK
  <2> QED
    BY <1>1, <1>2, <2>1 DEF RouteInv, OwnersKnown
<1>6. \A q \in Refs : OwnerByEvent(q)' = OwnerByEvent(q)
  BY <1>1 DEF OwnerByEvent
<1>7. TasksKnown' /\ PaidKnown'
  BY <1>1, <1>3, <1>6 DEF RouteInv, RouteTypeOK, TasksKnown, PaidKnown
<1> QED
  BY <1>4, <1>5, <1>7 DEF RouteInv

LEMMA RoutePays ==
    ASSUME RouteInv, NEW t \in finalizing, PaymentFinalize(t)
    PROVE  RouteInv'
<1> DEFINE n == t.owner.nr
<1>1. t.owner \in Owners /\ n \in Numbers /\ t.ref \in told /\ t.owner = OwnerByEvent(t.ref)
  BY DEF RouteInv, RouteTypeOK, TasksKnown, Owners
<1>2. /\ UNCHANGED <<charge, newest, told>> /\ finalizing' = finalizing \ {t}
      /\ \/ /\ t.owner = [kind |-> "order", nr |-> n] /\ UNCHANGED quoteRow
            /\ orderRow' = [orderRow EXCEPT ![n] = "paid"] \/ orderRow' = orderRow
         \/ /\ t.owner = [kind |-> "quote", nr |-> n] /\ UNCHANGED orderRow
            /\ quoteRow' = [quoteRow EXCEPT ![n] = "deposit_paid"] \/ quoteRow' = quoteRow
  BY <1>1 DEF PaymentFinalize, Owners
<1>3. RouteTypeOK'
  BY <1>1, <1>2 DEF RouteInv, RouteTypeOK
<1>0. \A q : OwnerByEvent(q)' = OwnerByEvent(q)
  BY <1>2 DEF OwnerByEvent
<1>4. OwnersKnown' /\ TasksKnown'
  BY <1>0, <1>2 DEF RouteInv, OwnersKnown, TasksKnown
<1>5. PaidKnown'
  <2>1. \A q \in told : OwnerByEvent(q)' = OwnerByEvent(q)
    BY <1>0
  <2>2. \A m \in Numbers : orderRow'[m] = "paid" =>
           orderRow[m] = "paid" \/ t.owner = [kind |-> "order", nr |-> m]
    BY <1>1, <1>2 DEF RouteInv, RouteTypeOK
  <2>3. \A m \in Numbers : quoteRow'[m] = "deposit_paid" =>
           quoteRow[m] = "deposit_paid" \/ t.owner = [kind |-> "quote", nr |-> m]
    BY <1>1, <1>2 DEF RouteInv, RouteTypeOK
  <2>4. told' = told /\ PaidKnown
    BY <1>2 DEF RouteInv
  <2>5. ASSUME NEW m \in Numbers, orderRow'[m] = "paid"
        PROVE  \E r \in told : OwnerByEvent(r) = [kind |-> "order", nr |-> m]
    BY <1>1, <2>2, <2>4, <2>5 DEF PaidKnown
  <2>6. ASSUME NEW m \in Numbers, quoteRow'[m] = "deposit_paid"
        PROVE  \E r \in told : OwnerByEvent(r) = [kind |-> "quote", nr |-> m]
    BY <1>1, <2>3, <2>4, <2>6 DEF PaidKnown
  <2> QED
    BY <1>0, <2>4, <2>5, <2>6 DEF PaidKnown
<1> QED
  BY <1>3, <1>4, <1>5 DEF RouteInv

LEMMA RouteInvNext == RouteInv /\ [RouteNext]_routeVars => RouteInv'
<1> SUFFICES ASSUME RouteInv, [RouteNext]_routeVars PROVE RouteInv'
  OBVIOUS
<1>1. CASE UNCHANGED routeVars
  BY <1>1, RouteQuiet DEF routeVars, RouteInv, RouteTypeOK
<1>2. ASSUME NEW n \in Numbers, PlaceOrder(n) \/ PlaceQuote(n) PROVE RouteInv'
  <2>1. /\ orderRow' \in [Numbers -> {"none", "created", "paid"}]
        /\ quoteRow' \in [Numbers -> {"none", "sent", "deposit_paid"}]
        /\ \A m \in Numbers : orderRow'[m] = "paid" => orderRow[m] = "paid"
        /\ \A m \in Numbers : quoteRow'[m] = "deposit_paid" => quoteRow[m] = "deposit_paid"
    BY <1>2 DEF PlaceOrder, PlaceQuote, RouteInv, RouteTypeOK
  <2> QED
    BY <1>2, <2>1, RouteQuiet DEF PlaceOrder, PlaceQuote
<1> QED
  BY <1>1, <1>2, RouteOpens, RouteCaptures, RouteHears, RoutePays DEF RouteNext

LEMMA RoutingCorrect == RouteSpec => []RouteInv
<1> QED
  BY RouteInvInit, RouteInvNext, PTL DEF RouteSpec

\* What HandleWebhook and payment:finalize mark as paid goes back to captured money
\* for it, or to an event that carries the order's number, for any number of orders,
\* quotes and intents of either gateway.
THEOREM PaymentsComeFromEvents == RouteSpec => []PaidByEvent
<1>1. RouteInv => PaidByEvent
  <2> SUFFICES ASSUME RouteInv PROVE PaidByEvent
    OBVIOUS
  <2>1. \A r \in told : r \in Refs /\ charge[r].state = "captured"
    BY DEF RouteInv, RouteTypeOK, OwnersKnown
  <2>2. ASSUME NEW r \in told, NEW n \in Numbers, OwnerByEvent(r) = [kind |-> "order", nr |-> n]
        PROVE  charge[r].owner = [kind |-> "order", nr |-> n] \/ (~Clear(r) /\ charge[r].carries = n)
    BY <2>2 DEF OwnerByEvent, Clear
  <2>3. ASSUME NEW r \in told, NEW n \in Numbers, OwnerByEvent(r) = [kind |-> "quote", nr |-> n]
        PROVE  Clear(r) /\ charge[r].owner = [kind |-> "quote", nr |-> n]
    BY <2>3 DEF OwnerByEvent, Clear
  <2> QED
    BY <2>1, <2>2, <2>3 DEF RouteInv, PaidKnown, PaidByEvent
<1> QED
  BY <1>1, RoutingCorrect, PTL

\* What money is asked for is there.
RowExists(owner) ==
    IF owner.kind = "order" THEN orderRow[owner.nr] # "none" ELSE quoteRow[owner.nr] # "none"
\* Money of a recorded event that does not lead astray is on its way to its owner.
ToldIsCarried ==
    \A r \in told : Clear(r) =>
        [owner |-> charge[r].owner, ref |-> r] \in finalizing \/ Settled(charge[r].owner)
RouteCarried ==
    /\ \A r \in Refs : charge[r] # NoCharge => RowExists(charge[r].owner)
    /\ ToldIsCarried

\* Captured money whose event does not lead astray is never forgotten: the event can
\* still be heard, and is then taken for the owner's, or the owner's task is queued, or
\* the owner is settled.
ClearIsCarried ==
    \A r \in Refs : charge[r].state = "captured" /\ Clear(r) =>
        \/ r \notin told /\ Resolve(r) = charge[r].owner /\ RowExists(charge[r].owner)
        \/ [owner |-> charge[r].owner, ref |-> r] \in finalizing
        \/ Settled(charge[r].owner)

LEMMA RouteCarriedNext == RouteInv /\ RouteCarried /\ [RouteNext]_routeVars => RouteCarried'
<1> SUFFICES ASSUME RouteInv, RouteCarried, [RouteNext]_routeVars PROVE RouteCarried'
  OBVIOUS
<1>0. /\ orderRow \in [Numbers -> {"none", "created", "paid"}]
      /\ quoteRow \in [Numbers -> {"none", "sent", "deposit_paid"}]
      /\ charge \in [Refs -> Charges] /\ told \subseteq Refs
      /\ \A r \in Refs : charge[r] # NoCharge => charge[r].owner \in Owners
      /\ \A r \in told : charge[r].state = "captured"
  BY DEF RouteInv, RouteTypeOK, OwnersKnown
<1>1. \A o \in Owners : o.nr \in Numbers /\ o.kind \in {"order", "quote"}
  BY DEF Owners
<1>2. \A r \in told : r \in Refs /\ charge[r] # NoCharge
  BY <1>0 DEF NoCharge
<1>3. CASE UNCHANGED routeVars
  BY <1>3 DEF routeVars, RouteCarried, ToldIsCarried, RowExists, Clear, Settled
<1>4. ASSUME NEW n \in Numbers, PlaceOrder(n) \/ PlaceQuote(n) PROVE RouteCarried'
  <2>1. /\ \A m \in Numbers : /\ orderRow[m] # "none" => orderRow'[m] = orderRow[m]
                              /\ quoteRow[m] # "none" => quoteRow'[m] = quoteRow[m]
        /\ UNCHANGED <<charge, told, finalizing>>
    BY <1>0, <1>4 DEF PlaceOrder, PlaceQuote
  <2>2. \A o \in Owners : (RowExists(o) => RowExists(o)') /\ (Settled(o) => Settled(o)')
    BY <1>1, <2>1 DEF RowExists, Settled
  <2>3. \A r \in Refs : Clear(r)' = Clear(r)
    BY <2>1 DEF Clear
  <2>4. \A r \in Refs : charge'[r] # NoCharge => RowExists(charge[r].owner)'
    BY <1>0, <2>1, <2>2 DEF RouteCarried
  <2>5. ToldIsCarried'
    BY <1>0, <1>2, <2>1, <2>2, <2>3 DEF RouteCarried, ToldIsCarried
  <2> QED
    BY <2>1, <2>4, <2>5 DEF RouteCarried, RowExists
<1>5. ASSUME NEW r \in Refs, NEW o \in Owners, NEW gateway, OpenIntent(r, gateway, o) PROVE RouteCarried'
  <2>1. PICK n \in CarriedBy(gateway, o) :
          charge' = [charge EXCEPT ![r] = [state |-> "open", owner |-> o, carries |-> n]]
    BY <1>5 DEF OpenIntent
  <2>2. charge[r] = NoCharge /\ RowExists(o) /\ UNCHANGED <<orderRow, quoteRow, told, finalizing>>
    BY <1>5 DEF OpenIntent, RowExists
  <2>3. charge'[r].owner = o /\ \A q \in Refs \ {r} : charge'[q] = charge[q]
    BY <1>0, <2>1
  <2>4. \A q \in told : q \in Refs \ {r}
    BY <1>2, <2>2
  <2>5. \A q \in Refs : charge'[q] # NoCharge => RowExists(charge'[q].owner)
    BY <2>2, <2>3 DEF RouteCarried
  <2>6. ToldIsCarried'
    BY <2>2, <2>3, <2>4 DEF RouteCarried, ToldIsCarried, Clear, Settled
  <2> QED
    BY <2>2, <2>5, <2>6 DEF RouteCarried, RowExists
<1>6. ASSUME NEW r \in Refs, Capture(r) PROVE RouteCarried'
  <2>1. /\ charge[r].state = "open" /\ charge' = [charge EXCEPT ![r].state = "captured"]
        /\ UNCHANGED <<orderRow, quoteRow, told, finalizing>>
    BY <1>6 DEF Capture
  <2>2. /\ charge'[r] = [charge[r] EXCEPT !.state = "captured"]
        /\ \A q \in Refs \ {r} : charge'[q] = charge[q]
    BY <1>0, <2>1
  <2>3. charge'[r].owner = charge[r].owner /\ charge[r] # NoCharge
    BY <1>0, <2>1, <2>2 DEF Charges, NoCharge
  <2>4. r \notin told
    BY <1>0, <2>1
  <2>5. \A q \in Refs : charge'[q] # NoCharge => RowExists(charge'[q].owner)
    BY <2>2, <2>3 DEF RouteCarried
  <2>6. ToldIsCarried'
    BY <1>2, <2>1, <2>2, <2>4 DEF RouteCarried, ToldIsCarried, Clear, Settled
  <2> QED
    BY <2>1, <2>5, <2>6 DEF RouteCarried, RowExists
<1>7. ASSUME NEW r \in Refs, HandleWebhook(r) PROVE RouteCarried'
  <2>1. /\ charge[r].state = "captured" /\ r \notin told /\ told' = told \cup {r}
        /\ finalizing' = finalizing \cup {[owner |-> Resolve(r), ref |-> r]}
        /\ UNCHANGED <<orderRow, quoteRow, charge>>
    BY <1>7 DEF HandleWebhook
  <2>2. charge[r] # NoCharge
    BY <2>1 DEF NoCharge
  <2>3. Clear(r) => Resolve(r) = charge[r].owner
    BY <2>1, <2>2 DEF Clear, Resolve, RouteInv, OwnersKnown
  <2> QED
    BY <2>1, <2>3 DEF RouteCarried, ToldIsCarried, RowExists, Clear, Settled
<1>8. ASSUME NEW t \in finalizing, PaymentFinalize(t) PROVE RouteCarried'
  <2> DEFINE n == t.owner.nr
  <2>1. /\ UNCHANGED <<charge, newest, told>> /\ finalizing' = finalizing \ {t}
        /\ IF t.owner.kind = "order"
           THEN /\ orderRow' = IF orderRow[n] = "created" THEN [orderRow EXCEPT ![n] = "paid"] ELSE orderRow
                /\ UNCHANGED quoteRow
           ELSE /\ quoteRow' = IF quoteRow[n] = "sent" THEN [quoteRow EXCEPT ![n] = "deposit_paid"] ELSE quoteRow
                /\ UNCHANGED orderRow
    BY <1>8 DEF PaymentFinalize
  <2>2. t.owner \in Owners /\ n \in Numbers
    BY <1>1 DEF RouteInv, RouteTypeOK
  <2>0. /\ \A m \in Numbers : orderRow'[m] = orderRow[m] \/ (orderRow[m] = "created" /\ orderRow'[m] = "paid")
        /\ \A m \in Numbers : quoteRow'[m] = quoteRow[m] \/ (quoteRow[m] = "sent" /\ quoteRow'[m] = "deposit_paid")
    <3> HIDE DEF n
    <3>1. CASE t.owner.kind = "order"
      BY <1>0, <2>1, <2>2, <3>1
    <3>2. CASE t.owner.kind # "order"
      BY <1>0, <2>1, <2>2, <3>2
    <3> QED
      BY <3>1, <3>2
  <2>3. \A o \in Owners : (RowExists(o) => RowExists(o)') /\ (Settled(o) => Settled(o)')
    BY <1>1, <2>0 DEF RowExists, Settled
  <2>4. RowExists(t.owner) => Settled(t.owner)'
    <3>1. CASE t.owner.kind = "order"
      <4>1. orderRow[n] # "none" => orderRow'[n] = "paid"
        <5> HIDE DEF n
        <5> QED
          BY <1>0, <2>1, <2>2, <3>1
      <4> QED
        BY <3>1, <4>1 DEF RowExists, Settled
    <3>2. CASE t.owner.kind # "order"
      <4>1. quoteRow[n] # "none" => quoteRow'[n] = "deposit_paid"
        <5> HIDE DEF n
        <5> QED
          BY <1>0, <2>1, <2>2, <3>2
      <4> QED
        BY <3>2, <4>1 DEF RowExists, Settled
    <3> QED
      BY <3>1, <3>2
  <2>5. \A r \in Refs : Clear(r)' = Clear(r)
    BY <2>1 DEF Clear
  <2>6. \A q \in Refs : charge[q] # NoCharge => \E o \in Owners : o = charge[q].owner /\ RowExists(o)
    BY <1>0 DEF RouteCarried
  <2>7. \A q \in Refs : charge'[q] # NoCharge => RowExists(charge[q].owner)'
    BY <2>1, <2>3, <2>6
  <2>8. ASSUME NEW r \in told, Clear(r)
        PROVE  \E o \in Owners : /\ o = charge[r].owner
                                 /\ [owner |-> o, ref |-> r] \in finalizing' \/ Settled(o)'
    <3>1. PICK o \in Owners : o = charge[r].owner /\ RowExists(o)
      BY <1>2, <2>6
    <3>2. CASE Settled(o)
      BY <2>3, <3>1, <3>2
    <3>3. CASE [owner |-> o, ref |-> r] \in finalizing
      <4>1. CASE t = [owner |-> o, ref |-> r]
        BY <2>4, <3>1, <4>1
      <4>2. CASE t # [owner |-> o, ref |-> r]
        BY <2>1, <3>1, <3>3, <4>2
      <4> QED
        BY <4>1, <4>2
    <3> QED
      BY <2>8, <3>1, <3>2, <3>3 DEF RouteCarried, ToldIsCarried
  <2>9. ToldIsCarried'
    BY <2>1, <2>5, <2>8, <1>2 DEF ToldIsCarried
  <2> QED
    BY <2>7, <2>9 DEF RouteCarried
<1> QED
  BY <1>3, <1>4, <1>5, <1>6, <1>7, <1>8 DEF RouteNext

\* However orders, quotes, intents and events interleave, HandleWebhook and
\* payment:finalize leave no captured money behind whose event does not lead astray.
THEOREM ClearMoneyIsCarried == RouteSpec => []ClearIsCarried
<1>1. RouteInit => RouteCarried
  BY DEF RouteInit, RouteCarried, ToldIsCarried
<1>2. RouteInv /\ RouteCarried => ClearIsCarried
  <2> SUFFICES ASSUME RouteInv, RouteCarried, NEW r \in Refs, charge[r].state = "captured", Clear(r)
               PROVE  \/ r \notin told /\ Resolve(r) = charge[r].owner /\ RowExists(charge[r].owner)
                      \/ [owner |-> charge[r].owner, ref |-> r] \in finalizing
                      \/ Settled(charge[r].owner)
    BY DEF ClearIsCarried
  <2>1. charge[r] # NoCharge
    BY DEF NoCharge
  <2>2. r \notin told => Resolve(r) = charge[r].owner
    BY <2>1 DEF Clear, Resolve, RouteInv, OwnersKnown
  <2> QED
    BY <2>1, <2>2 DEF RouteCarried, ToldIsCarried
<1> QED
  BY <1>1, <1>2, RoutingCorrect, RouteCarriedNext, PTL DEF RouteSpec

-------------------------------------------------------------------------------
(* Publishing *)

USE MaxEditsAssumption, MaxRebuildsAssumption, PubMaxFaultsAssumption

LEMMA PubFaultType == PubTypeOK /\ (PubFault \/ UNCHANGED pubFaults) => pubFaults' \in 0..PubMaxFaults
  BY DEF PubTypeOK, PubFault

LEMMA PubTypeInit == PubInit => PubTypeOK
<1>1. IdleDesk \in DeskStates /\ IdleBuilder \in [at : {"idle", "put"}, read : SUBSET Addresses, passed : BOOLEAN]
  BY DEF DeskStates, IdleBuilder
<1> SUFFICES ASSUME PubInit PROVE PubTypeOK
  OBVIOUS
<1>2. /\ desk \in [Desks -> DeskStates]
      /\ builder \in [Builders -> [at : {"idle", "put"}, read : SUBSET Addresses, passed : BOOLEAN]]
  BY <1>1 DEF PubInit
<1>3. /\ page \in [Pages -> ContentStatus \cup {"none", "gone"}] /\ wording \in [Pages -> 0..MaxEdits]
      /\ slug \in [Pages -> 0..MaxEdits]
      /\ rebuilds \in 0..MaxRebuilds /\ pubFaults \in 0..PubMaxFaults
  BY DEF PubInit
<1>4. sitemap \subseteq Addresses /\ slipped \in BOOLEAN
  BY DEF PubInit
<1> QED
  BY <1>2, <1>3, <1>4 DEF PubTypeOK

LEMMA DeskType ==
    ASSUME PubTypeOK, NEW d \in Desks, desk[d].at \in {"write", "edit"}
    PROVE  /\ desk[d].page \in Pages /\ desk[d].seen \in ContentStatus
           /\ desk[d].at = "write" => desk[d].to \in ContentStatus
           /\ desk[d].actor \in Actors /\ desk[d].passed \in BOOLEAN
           /\ [desk[d] EXCEPT !.passed = TRUE] \in DeskStates
           /\ [desk[d] EXCEPT !.passed = TRUE].at = desk[d].at
           /\ [desk[d] EXCEPT !.passed = TRUE].passed
<1> DEFINE Writes == [at : {"write"}, page : Pages, actor : Actors, seen : ContentStatus,
                      to : ContentStatus, passed : BOOLEAN]
           Edits == [at : {"edit"}, page : Pages, actor : Actors, seen : ContentStatus,
                     to : {"text"}, passed : BOOLEAN]
<1>1. desk[d] \in DeskStates
  BY DEF PubTypeOK
<1>2. desk[d] \in Writes \/ desk[d] \in Edits
  BY <1>1 DEF DeskStates, IdleDesk
<1>3. Writes \subseteq DeskStates /\ Edits \subseteq DeskStates
  BY DEF DeskStates
<1>4. CASE desk[d] \in Writes
  <2>1. [desk[d] EXCEPT !.passed = TRUE] \in Writes
    BY <1>4
  <2> QED
    BY <1>3, <1>4, <2>1
<1>5. CASE desk[d] \in Edits
  <2>1. [desk[d] EXCEPT !.passed = TRUE] \in Edits
    BY <1>5
  <2> QED
    BY <1>3, <1>5, <2>1
<1> QED
  BY <1>2, <1>4, <1>5

LEMMA PubTypeNext == PubTypeOK /\ [PubNext]_pubVars => PubTypeOK'
<1> SUFFICES ASSUME PubTypeOK, [PubNext]_pubVars PROVE PubTypeOK'
  OBVIOUS
<1>0. IdleDesk \in DeskStates /\ [at |-> "notify"] \in DeskStates
  BY DEF DeskStates
<1>1. CASE UNCHANGED pubVars
  BY <1>1 DEF pubVars, PubTypeOK
<1>2. ASSUME NEW p \in Pages, CreateWithTranslation(p) \/ Delete(p) PROVE PubTypeOK'
  BY <1>2 DEF CreateWithTranslation, Delete, PubTypeOK, ContentStatus
<1>3. ASSUME NEW d \in Desks, NEW p \in Pages, NEW a \in Actors, NEW to \in ContentStatus \cup {"text"},
             GetTranslationStatus(d, p, a, to)
      PROVE  PubTypeOK'
  <2> DEFINE r == [at |-> IF to = "text" THEN "edit" ELSE "write", page |-> p,
                   actor |-> a, seen |-> page[p], to |-> to, passed |-> FALSE]
  <2>1. page[p] \in ContentStatus
    BY <1>3 DEF GetTranslationStatus, Row, PubTypeOK
  <2>2. r \in DeskStates
    BY <2>1 DEF DeskStates
  <2>3. desk' = [desk EXCEPT ![d] = r]
    BY <1>3 DEF GetTranslationStatus
  <2> HIDE DEF r
  <2> QED
    BY <1>3, <2>2, <2>3 DEF GetTranslationStatus, PubTypeOK
<1>4. ASSUME NEW d \in Desks, DeskGoesOn(d) PROVE PubTypeOK'
  <2>1. CASE UpdateTranslationStatus(d)
    <3>1. desk[d].page \in Pages /\ desk[d].to \in ContentStatus
      BY <2>1, DeskType DEF UpdateTranslationStatus
    <3>2. ASSUME NEW p \in Pages, NEW r \in DeskStates, desk' = Overtaken(d, p, r)
          PROVE  desk' \in [Desks -> DeskStates]
      BY <3>2, DeskType DEF Overtaken, PubTypeOK
    <3>3. desk' \in [Desks -> DeskStates]
      BY <1>0, <2>1, <3>1, <3>2 DEF UpdateTranslationStatus, PubTypeOK
    <3>4. page' \in [Pages -> ContentStatus \cup {"none", "gone"}]
      BY <2>1, <3>1 DEF UpdateTranslationStatus, PubTypeOK
    <3>5. slipped' \in BOOLEAN
      BY <2>1 DEF UpdateTranslationStatus, TakesDownUnseen, PubTypeOK
    <3> QED
      BY <2>1, <3>3, <3>4, <3>5 DEF UpdateTranslationStatus, PubTypeOK
  <2>2. CASE EnqueueSitemapRebuild(d)
    <3>1. rebuilds' \in 0..MaxRebuilds
      BY <2>2 DEF EnqueueSitemapRebuild, PubTypeOK
    <3>2. slipped' \in BOOLEAN
      BY <2>2 DEF EnqueueSitemapRebuild, PubTypeOK
    <3>3. desk' \in [Desks -> DeskStates]
      BY <1>0, <2>2 DEF EnqueueSitemapRebuild, PubTypeOK
    <3> QED
      BY <2>2, <3>1, <3>2, <3>3, PubFaultType DEF EnqueueSitemapRebuild, PubTypeOK
  <2>3. CASE UpdateTranslation(d)
    <3>1. desk[d].page \in Pages
      BY <2>3, DeskType DEF UpdateTranslation
    <3>2. desk' \in [Desks -> DeskStates]
      BY <1>0, <2>3 DEF UpdateTranslation, PubTypeOK
    <3>3. wording' \in [Pages -> 0..MaxEdits]
      BY <2>3, <3>1 DEF UpdateTranslation, PubTypeOK
    <3> DEFINE p == desk[d].page
    <3>4. \/ slug' = slug /\ slipped' = slipped
          \/ /\ slug[p] < MaxEdits /\ slug' = [slug EXCEPT ![p] = @ + 1]
             /\ slipped' = (slipped \/ page[p] = "published")
      BY <2>3 DEF UpdateTranslation
    <3>5. slug' \in [Pages -> 0..MaxEdits]
      <4>1. CASE slug' = slug
        BY <4>1 DEF PubTypeOK
      <4>2. CASE slug[p] < MaxEdits /\ slug' = [slug EXCEPT ![p] = @ + 1]
        BY <3>1, <4>2, MaxEditsAssumption DEF PubTypeOK
      <4> QED
        BY <3>4, <4>1, <4>2
    <3>7. slipped' \in BOOLEAN
      BY <3>4 DEF PubTypeOK
    <3> QED
      BY <2>3, <3>2, <3>3, <3>5, <3>7 DEF UpdateTranslation, PubTypeOK
  <2> QED
    BY <1>4, <2>1, <2>2, <2>3 DEF DeskGoesOn
<1>5. ASSUME NEW w \in Builders, BuildXML(w) \/ Rebuild(w) \/ RebuildFails(w) PROVE PubTypeOK'
  <2>1. Published \subseteq Addresses /\ builder[w].read \subseteq Addresses
    BY DEF Published, PubTypeOK
  <2>2. slipped' \in BOOLEAN
    BY <1>5 DEF BuildXML, Rebuild, RebuildFails, PubTypeOK
  <2>3. builder' \in [Builders -> [at : {"idle", "put"}, read : SUBSET Addresses, passed : BOOLEAN]]
    <3>1. CASE BuildXML(w)
      BY <2>1, <3>1 DEF BuildXML, PubTypeOK
    <3>2. CASE Rebuild(w)
      <4>1. ASSUME NEW v \in Builders
            PROVE  [builder[v] EXCEPT !.passed = (builder[v].at = "put")]
                       \in [at : {"idle", "put"}, read : SUBSET Addresses, passed : BOOLEAN]
        BY DEF PubTypeOK
      <4> QED
        BY <3>2, <4>1 DEF Rebuild, IdleBuilder
    <3>3. CASE RebuildFails(w)
      BY <3>3 DEF RebuildFails, PubTypeOK, IdleBuilder
    <3> QED
      BY <1>5, <3>1, <3>2, <3>3
  <2>4. rebuilds' \in 0..MaxRebuilds /\ sitemap' \subseteq Addresses
    BY <1>5, <2>1 DEF BuildXML, Rebuild, RebuildFails, PubTypeOK
  <2> QED
    BY <1>5, <2>2, <2>3, <2>4, PubFaultType DEF BuildXML, Rebuild, RebuildFails, PubTypeOK
<1>6. CASE CMSCrash
  BY <1>0, <1>6, PubFaultType DEF CMSCrash, PubTypeOK
<1> QED
  BY <1>1, <1>2, <1>3, <1>4, <1>5, <1>6 DEF PubNext

\* A request goes by a status that was there; only a super admin's that found the
\* page in review is on its way to publish it.
DesksKnow ==
    \A d \in Desks : desk[d].at \in {"write", "edit"} =>
        /\ page[desk[d].page] # "none"
        /\ desk[d].passed \/ page[desk[d].page] \in {desk[d].seen, "gone"}
        /\ desk[d].at = "write" /\ desk[d].to = "published" =>
               desk[d].seen = "in_review" /\ desk[d].actor = "super_admin"
        /\ desk[d].at = "edit" => desk[d].actor = "super_admin" \/ desk[d].seen \in {"draft", "rejected"}

Busy(w) == builder[w].at = "put"
\* A rebuild that will see, or has seen, what is published now is on its way.
Pending ==
    \/ rebuilds > 0
    \/ \E d \in Desks : desk[d].at = "notify"
    \/ \E w \in Builders : Busy(w) /\ builder[w].read = Published
\* While nothing slipped the sitemap is right or will be; once it is right, only a
\* rebuild that another has overtaken can still spoil it.
SitemapFollows ==
    \/ slipped
    \/ Pending
    \/ /\ sitemap = Published
       /\ \A w \in Builders : Busy(w) => builder[w].passed \/ builder[w].read = Published

PubInv == PubTypeOK /\ DesksKnow /\ SitemapFollows

LEMMA PubInvInit == PubInit => PubInv
<1> SUFFICES ASSUME PubInit PROVE DesksKnow /\ SitemapFollows
  BY PubTypeInit DEF PubInv
<1>1. DesksKnow
  BY DEF PubInit, DesksKnow, IdleDesk
<1>2. sitemap = Published
  <2>1. \A a \in Addresses : page[a[1]] = "none"
    BY DEF PubInit, Addresses
  <2> QED
    BY <2>1, Zenon DEF PubInit, Published
<1>3. \A w \in Builders : ~Busy(w)
  BY DEF PubInit, IdleBuilder, Busy
<1> QED
  BY <1>1, <1>2, <1>3 DEF SitemapFollows

LEMMA DesksStay ==
    ASSUME DesksKnow, page' = page,
           \A d \in Desks : desk'[d] = desk[d] \/ desk'[d].at \in {"idle", "notify"}
    PROVE  DesksKnow'
  BY DEF DesksKnow

LEMMA DesksNext == PubTypeOK /\ DesksKnow /\ [PubNext]_pubVars => DesksKnow'
<1> SUFFICES ASSUME PubTypeOK, DesksKnow, [PubNext]_pubVars PROVE DesksKnow'
  OBVIOUS
<1>0. desk \in [Desks -> DeskStates] /\ page \in [Pages -> ContentStatus \cup {"none", "gone"}]
  BY DEF PubTypeOK
<1>1. CASE UNCHANGED pubVars
  BY <1>1, DesksStay DEF pubVars
<1>2. ASSUME NEW p \in Pages, CreateWithTranslation(p) PROVE DesksKnow'
  BY <1>0, <1>2 DEF CreateWithTranslation, DesksKnow
<1>3. ASSUME NEW p \in Pages, Delete(p) PROVE DesksKnow'
  BY <1>0, <1>3, DeskType DEF Delete, DesksKnow
<1>4. ASSUME NEW d \in Desks, NEW p \in Pages, NEW a \in Actors, NEW to \in ContentStatus \cup {"text"},
             GetTranslationStatus(d, p, a, to)
      PROVE  DesksKnow'
  <2> DEFINE r == [at |-> IF to = "text" THEN "edit" ELSE "write", page |-> p,
                   actor |-> a, seen |-> page[p], to |-> to, passed |-> FALSE]
  <2>1. desk' = [desk EXCEPT ![d] = r] /\ page' = page /\ page[p] # "none"
    BY <1>4 DEF GetTranslationStatus, Row
  <2>2. /\ r.page = p /\ r.seen = page[p] /\ r.actor = a /\ r.to = to
        /\ r.at = "write" /\ to = "published" => page[p] = "in_review" /\ a = "super_admin"
        /\ r.at = "edit" => a = "super_admin" \/ page[p] \in {"draft", "rejected"}
    BY <1>4 DEF GetTranslationStatus, allowed, CanEdit
  <2> HIDE DEF r
  <2>3. desk'[d] = r /\ \A e \in Desks \ {d} : desk'[e] = desk[e]
    BY <1>0, <2>1
  <2> QED
    BY <2>1, <2>2, <2>3 DEF DesksKnow
<1>5. ASSUME NEW d \in Desks, UpdateTranslationStatus(d) PROVE DesksKnow'
  <2> DEFINE p == desk[d].page
  <2>1. desk[d].at = "write" /\ p \in Pages /\ desk[d].to \in ContentStatus
    BY <1>5, DeskType DEF UpdateTranslationStatus
  <2>2. CASE Row(p)
    <3>1. PICK r \in {IdleDesk, [at |-> "notify"]} : desk' = Overtaken(d, p, r)
      BY <1>5, <2>2 DEF UpdateTranslationStatus
    <3>2. page' = [page EXCEPT ![p] = desk[d].to]
      BY <1>5, <2>2 DEF UpdateTranslationStatus
    <3>3. r.at \in {"idle", "notify"} /\ desk'[d] = r
      BY <3>1 DEF Overtaken, IdleDesk
    <3>4. ASSUME NEW e \in Desks \ {d}
          PROVE  \/ desk'[e] = desk[e] /\ ~(desk[e].at \in {"write", "edit"} /\ desk[e].page = p)
                 \/ /\ desk[e].at \in {"write", "edit"} /\ desk[e].page = p
                    /\ desk'[e] = [desk[e] EXCEPT !.passed = TRUE]
      BY <3>1 DEF Overtaken
    <3>5. SUFFICES ASSUME NEW e \in Desks, desk'[e].at \in {"write", "edit"}
                   PROVE  /\ page'[desk'[e].page] # "none"
                          /\ desk'[e].passed \/ page'[desk'[e].page] \in {desk'[e].seen, "gone"}
                          /\ desk'[e].at = "write" /\ desk'[e].to = "published" =>
                                 desk'[e].seen = "in_review" /\ desk'[e].actor = "super_admin"
                          /\ desk'[e].at = "edit" =>
                                 desk'[e].actor = "super_admin" \/ desk'[e].seen \in {"draft", "rejected"}
      BY DEF DesksKnow
    <3>6. e # d
      BY <3>3, <3>5
    <3>7. CASE desk'[e] = desk[e] /\ ~(desk[e].at \in {"write", "edit"} /\ desk[e].page = p)
      BY <1>0, <3>2, <3>5, <3>7 DEF DesksKnow
    <3>8. CASE /\ desk[e].at \in {"write", "edit"} /\ desk[e].page = p
               /\ desk'[e] = [desk[e] EXCEPT !.passed = TRUE]
      <4>1. /\ desk'[e].page = p /\ desk'[e].passed /\ desk'[e].seen = desk[e].seen
            /\ desk'[e].at = desk[e].at /\ desk'[e].to = desk[e].to /\ desk'[e].actor = desk[e].actor
        BY <3>8, DeskType
      <4>2. page'[p] # "none"
        BY <1>0, <2>1, <3>2 DEF ContentStatus
      <4> QED
        BY <3>8, <4>1, <4>2 DEF DesksKnow
    <3> QED
      BY <3>4, <3>6, <3>7, <3>8
  <2>3. CASE ~Row(p)
    BY <1>0, <1>5, <2>3, DesksStay DEF UpdateTranslationStatus, IdleDesk
  <2> QED
    BY <2>2, <2>3
<1>6. ASSUME NEW d \in Desks, EnqueueSitemapRebuild(d) \/ UpdateTranslation(d) PROVE DesksKnow'
  BY <1>0, <1>6, DesksStay DEF EnqueueSitemapRebuild, UpdateTranslation, IdleDesk
<1>7. ASSUME NEW w \in Builders, BuildXML(w) \/ Rebuild(w) \/ RebuildFails(w) PROVE DesksKnow'
  BY <1>7, DesksStay DEF BuildXML, Rebuild, RebuildFails
<1>8. CASE CMSCrash
  BY <1>8, DesksStay DEF CMSCrash, IdleDesk
<1> QED
  BY <1>1, <1>2, <1>3, <1>4, <1>5, <1>6, <1>7, <1>8 DEF PubNext, DeskGoesOn

LEMMA SitemapStays ==
    ASSUME SitemapFollows, Published' = Published, UNCHANGED <<rebuilds, builder, sitemap>>,
           slipped => slipped', \A d \in Desks : desk[d].at = "notify" => desk'[d].at = "notify"
    PROVE  SitemapFollows'
  BY DEF SitemapFollows, Pending, Busy

\* What the site shows depends on the status and the slug alone.
LEMMA PublishedStays == UNCHANGED <<page, slug>> => Published' = Published
  BY DEF Published

LEMMA SitemapMoves ==
    ASSUME PubInv, NEW d \in Desks, UpdateTranslationStatus(d)
    PROVE  SitemapFollows'
<1> DEFINE r == desk[d]
<1>0. /\ desk \in [Desks -> DeskStates] /\ page \in [Pages -> ContentStatus \cup {"none", "gone"}]
      /\ SitemapFollows /\ slipped \in BOOLEAN
  BY DEF PubInv, PubTypeOK
<1>1. /\ r.at = "write" /\ r.page \in Pages /\ r.to \in ContentStatus
      /\ UNCHANGED <<slug, rebuilds, builder, sitemap>>
  BY DeskType DEF PubInv, UpdateTranslationStatus
<1>2. CASE ~Row(r.page)
  <2>1. UNCHANGED <<page, slipped>> /\ desk' = [desk EXCEPT ![d] = IdleDesk]
    BY <1>2 DEF UpdateTranslationStatus
  <2>2. \A e \in Desks : desk[e].at = "notify" => desk'[e].at = "notify"
    BY <1>0, <1>1, <2>1
  <2> QED
    BY <1>0, <1>1, <2>1, <2>2, PublishedStays, SitemapStays
<1>3. CASE Row(r.page)
  <2>1. /\ page' = [page EXCEPT ![r.page] = r.to] /\ slipped' = (slipped \/ TakesDownUnseen(r))
        /\ desk' = Overtaken(d, r.page,
               IF "published" \in {r.seen, r.to} THEN [at |-> "notify"] ELSE IdleDesk)
    BY <1>3 DEF UpdateTranslationStatus
  <2>2. CASE slipped \/ TakesDownUnseen(r)
    <3>1. slipped'
      BY <2>1, <2>2
    <3> QED
      BY <3>1 DEF SitemapFollows
  <2>3. CASE "published" \in {r.seen, r.to}
    <3>1. desk'[d].at = "notify"
      BY <2>1, <2>3 DEF Overtaken
    <3> QED
      BY <3>1 DEF SitemapFollows, Pending
  <2>4. CASE "published" \notin {r.seen, r.to} /\ ~TakesDownUnseen(r)
    <3>1. page[r.page] # "published" /\ r.to # "published"
      BY <2>4 DEF TakesDownUnseen
    <3>2. \A p \in Pages : page'[p] = "published" <=> page[p] = "published"
      BY <1>0, <1>1, <2>1, <3>1
    <3>3. Published' = Published
      BY <1>1, <3>2 DEF Published, Addresses
    <3>4. ASSUME NEW e \in Desks, desk[e].at = "notify" PROVE desk'[e].at = "notify"
      BY <1>1, <2>1, <3>4 DEF Overtaken
    <3> QED
      BY <1>0, <1>1, <2>1, <3>3, <3>4, SitemapStays
  <2> QED
    BY <2>2, <2>3, <2>4
<1> QED
  BY <1>2, <1>3

LEMMA SitemapBuilds ==
    ASSUME PubInv, NEW w \in Builders, BuildXML(w) \/ Rebuild(w) \/ RebuildFails(w)
    PROVE  SitemapFollows'
<1>0. /\ builder \in [Builders -> [at : {"idle", "put"}, read : SUBSET Addresses, passed : BOOLEAN]]
      /\ rebuilds \in Nat /\ SitemapFollows /\ slipped \in BOOLEAN
  BY DEF PubInv, PubTypeOK
<1>1. Published' = Published /\ desk' = desk
  BY PublishedStays DEF BuildXML, Rebuild, RebuildFails
<1>2. CASE BuildXML(w)
  <2>1. Busy(w)' /\ builder'[w].read = Published
    BY <1>0, <1>2 DEF BuildXML, Busy
  <2> QED
    BY <1>1, <2>1 DEF SitemapFollows, Pending
<1>3. CASE Rebuild(w)
  <2>1. /\ Busy(w) /\ sitemap' = builder[w].read /\ rebuilds' = rebuilds
        /\ slipped' = (builder[w].read # Published /\ (slipped \/ builder[w].passed))
    BY <1>3 DEF Rebuild, Busy
  <2>2. ~Busy(w)'
    BY <1>0, <1>3 DEF Rebuild, Busy, IdleBuilder
  <2>3. ASSUME NEW v \in Builders \ {w}
        PROVE  /\ Busy(v)' <=> Busy(v)
               /\ builder'[v].read = builder[v].read
               /\ builder'[v].passed = Busy(v)
    <3>1. builder'[v] = [builder[v] EXCEPT !.passed = (builder[v].at = "put")]
      BY <1>3 DEF Rebuild
    <3> QED
      BY <1>0, <3>1 DEF Busy
  <2>4. CASE builder[w].read = Published
    <3>1. \A v \in Builders : Busy(v)' => builder'[v].passed
      BY <2>2, <2>3
    <3> QED
      BY <1>1, <2>1, <2>4, <3>1 DEF SitemapFollows
  <2>5. CASE slipped'
    BY <2>5 DEF SitemapFollows
  <2>6. CASE builder[w].read # Published /\ ~slipped'
    <3>1. ~slipped /\ ~builder[w].passed
      BY <2>1, <2>6
    <3>2. Pending
      BY <1>0, <2>1, <2>6, <3>1 DEF SitemapFollows
    <3>3. CASE rebuilds > 0 \/ \E d \in Desks : desk[d].at = "notify"
      BY <1>1, <2>1, <3>3 DEF SitemapFollows, Pending
    <3>4. CASE \E v \in Builders : Busy(v) /\ builder[v].read = Published
      <4>1. PICK v \in Builders \ {w} : Busy(v) /\ builder[v].read = Published
        BY <2>6, <3>4
      <4>2. Busy(v)' /\ builder'[v].read = Published'
        BY <1>1, <2>3, <4>1
      <4> QED
        BY <4>2 DEF SitemapFollows, Pending
    <3> QED
      BY <3>2, <3>3, <3>4 DEF Pending
  <2> QED
    BY <2>4, <2>5, <2>6
<1>4. CASE RebuildFails(w)
  <2>1. slipped' \/ rebuilds' = rebuilds + 1
    BY <1>4 DEF RebuildFails
  <2> QED
    BY <1>0, <2>1 DEF SitemapFollows, Pending
<1> QED
  BY <1>2, <1>3, <1>4

LEMMA SitemapNext == PubInv /\ [PubNext]_pubVars => SitemapFollows'
<1> SUFFICES ASSUME PubInv, [PubNext]_pubVars PROVE SitemapFollows'
  OBVIOUS
<1>0. /\ desk \in [Desks -> DeskStates] /\ page \in [Pages -> ContentStatus \cup {"none", "gone"}]
      /\ slug \in [Pages -> 0..MaxEdits]
      /\ SitemapFollows /\ slipped \in BOOLEAN /\ rebuilds \in Nat
  BY DEF PubInv, PubTypeOK
<1>1. CASE UNCHANGED pubVars
  BY <1>0, <1>1, PublishedStays, SitemapStays DEF pubVars
<1>2. ASSUME NEW p \in Pages, CreateWithTranslation(p) PROVE SitemapFollows'
  <2>1. \A q \in Pages : page'[q] = "published" <=> page[q] = "published"
    BY <1>0, <1>2 DEF CreateWithTranslation
  <2>2. Published' = Published
    BY <1>2, <2>1 DEF CreateWithTranslation, Published, Addresses
  <2> QED
    BY <1>0, <1>2, <2>2, SitemapStays DEF CreateWithTranslation
<1>3. ASSUME NEW p \in Pages, Delete(p) PROVE SitemapFollows'
  <2>1. CASE slipped'
    BY <2>1 DEF SitemapFollows
  <2>2. CASE ~slipped'
    <3>1. page[p] # "published" /\ ~slipped
      BY <1>3, <2>2 DEF Delete
    <3>2. \A q \in Pages : page'[q] = "published" <=> page[q] = "published"
      BY <1>0, <1>3, <3>1 DEF Delete
    <3>3. Published' = Published
      BY <1>3, <3>2 DEF Delete, Published, Addresses
    <3> QED
      BY <1>0, <1>3, <3>1, <3>3, SitemapStays DEF Delete
  <2> QED
    BY <2>1, <2>2
<1>4. ASSUME NEW d \in Desks, NEW p \in Pages, NEW a \in Actors, NEW to \in ContentStatus \cup {"text"},
             GetTranslationStatus(d, p, a, to)
      PROVE  SitemapFollows'
  <2>1. desk[d].at = "idle" /\ \A e \in Desks \ {d} : desk'[e] = desk[e]
    BY <1>0, <1>4 DEF GetTranslationStatus, IdleDesk
  <2> QED
    BY <1>0, <1>4, <2>1, PublishedStays, SitemapStays DEF GetTranslationStatus
<1>5. ASSUME NEW d \in Desks, EnqueueSitemapRebuild(d) PROVE SitemapFollows'
  <2>1. slipped' \/ rebuilds' = rebuilds + 1
    BY <1>5 DEF EnqueueSitemapRebuild
  <2> QED
    BY <1>0, <2>1 DEF SitemapFollows, Pending
<1>6. ASSUME NEW d \in Desks, UpdateTranslation(d) PROVE SitemapFollows'
  <2>1. \A e \in Desks : desk[e].at = "notify" => desk'[e].at = "notify"
    BY <1>0, <1>6 DEF UpdateTranslation
  <2>2. UNCHANGED <<page, rebuilds, builder, sitemap>>
    BY <1>6 DEF UpdateTranslation
  <2>3. CASE UNCHANGED <<slug, slipped>>
    BY <1>0, <2>1, <2>2, <2>3, PublishedStays, SitemapStays
  <2>4. CASE /\ slug' = [slug EXCEPT ![desk[d].page] = @ + 1]
             /\ slipped' = (slipped \/ page[desk[d].page] = "published")
    <3>1. CASE slipped'
      BY <3>1 DEF SitemapFollows
    <3>2. CASE ~slipped'
      <4>1. page[desk[d].page] # "published" /\ ~slipped
        BY <2>4, <3>2
      <4>2. \A q \in Pages : page[q] = "published" => slug'[q] = slug[q]
        BY <1>0, <2>4, <4>1
      <4>3. Published' = Published
        BY <2>2, <4>2 DEF Published, Addresses
      <4> QED
        BY <1>0, <2>1, <2>2, <4>1, <4>3, SitemapStays
    <3> QED
      BY <3>1, <3>2
  <2> QED
    BY <1>6, <2>3, <2>4 DEF UpdateTranslation
<1>7. CASE CMSCrash
  <2>1. CASE \E d \in Desks : desk[d].at = "notify"
    BY <1>7, <2>1 DEF CMSCrash, SitemapFollows
  <2>2. CASE \A d \in Desks : desk[d].at # "notify"
    BY <1>0, <1>7, <2>2, PublishedStays, SitemapStays DEF CMSCrash
  <2> QED
    BY <2>1, <2>2
<1> QED
  BY <1>1, <1>2, <1>3, <1>4, <1>5, <1>6, <1>7, SitemapMoves, SitemapBuilds DEF PubNext, DeskGoesOn

LEMMA PubInvNext == PubInv /\ [PubNext]_pubVars => PubInv'
  BY PubTypeNext, DesksNext, SitemapNext DEF PubInv

LEMMA PublishingCorrect == PubSpec => []PubInv
<1> QED
  BY PubInvInit, PubInvNext, PTL DEF PubSpec

\* At rest the sitemap lists the addresses of what is published, unless one of the
\* causes SitemapIsFresh names left it stale, for any number of pages, requests and
\* rebuilds (EnqueueSitemapRebuild after the commit).
THEOREM SitemapIsRight == PubSpec => []SitemapIsFresh
<1>1. PubInv => SitemapIsFresh
  BY DEF PubInv, PubTypeOK, SitemapFollows, Pending, SitemapIsFresh, Busy
<1> QED
  BY <1>1, PublishingCorrect, PTL

\* A page goes live only out of review and by a super admin's request, unless its
\* status changed after that request had judged the move (UpdateTranslationStatus
\* does not look again), however many requests race.
THEOREM LiveIsReviewed == PubSpec => OnlyReviewedGoesLive
<1> DEFINE Reviewed ==
      \A p \in Pages : page[p] # "published" /\ page'[p] = "published" =>
         \E d \in Desks : /\ desk[d].at = "write" /\ desk'[d].at = "notify"
                          /\ desk[d].page = p /\ desk[d].actor = "super_admin"
                          /\ page[p] = "in_review" \/ desk[d].passed
<1>1. PubInv /\ [PubNext]_pubVars => [Reviewed]_pubVars
  <2> SUFFICES ASSUME PubInv, PubNext, NEW p \in Pages, page[p] # "published", page'[p] = "published"
               PROVE  \E d \in Desks : /\ desk[d].at = "write" /\ desk'[d].at = "notify"
                                       /\ desk[d].page = p /\ desk[d].actor = "super_admin"
                                       /\ page[p] = "in_review" \/ desk[d].passed
    OBVIOUS
  <2>0. page \in [Pages -> ContentStatus \cup {"none", "gone"}] /\ DesksKnow
    BY DEF PubInv, PubTypeOK
  <2>1. PICK d \in Desks : UpdateTranslationStatus(d)
    BY <2>0 DEF PubNext, CreateWithTranslation, Delete, GetTranslationStatus, DeskGoesOn,
       EnqueueSitemapRebuild, UpdateTranslation, BuildXML, Rebuild, RebuildFails, CMSCrash
  <2>2. /\ desk[d].at = "write" /\ Row(desk[d].page)
        /\ page' = [page EXCEPT ![desk[d].page] = desk[d].to]
        /\ desk' = Overtaken(d, desk[d].page,
               IF "published" \in {desk[d].seen, desk[d].to} THEN [at |-> "notify"] ELSE IdleDesk)
    BY <2>1 DEF UpdateTranslationStatus
  <2>3. desk[d].page = p /\ desk[d].to = "published"
    BY <2>0, <2>2
  <2>4. page[p] = "in_review" \/ desk[d].passed
    BY <2>0, <2>2, <2>3 DEF DesksKnow, Row
  <2> QED
    BY <2>0, <2>2, <2>3, <2>4 DEF DesksKnow, Overtaken
<1> QED
  BY <1>1, PublishingCorrect, PTL DEF PubSpec, OnlyReviewedGoesLive

\* The text of a page in review or live is an editor's only when its status changed
\* under the editor's request (CanEdit judges what was read).
THEOREM LiveTextIsLeftAlone == PubSpec => EditorsLeaveLiveTextAlone
<1> DEFINE LeftAlone ==
      \A p \in Pages : wording'[p] # wording[p] =>
         \E d \in Desks : /\ desk[d].at = "edit" /\ desk[d].page = p /\ desk'[d] = IdleDesk
                          /\ \/ desk[d].actor = "super_admin"
                             \/ page[p] \in {"draft", "rejected"}
                             \/ desk[d].passed
<1>1. PubInv /\ [PubNext]_pubVars => [LeftAlone]_pubVars
  <2> SUFFICES ASSUME PubInv, PubNext, NEW p \in Pages, wording'[p] # wording[p]
               PROVE  \E d \in Desks : /\ desk[d].at = "edit" /\ desk[d].page = p /\ desk'[d] = IdleDesk
                                       /\ \/ desk[d].actor = "super_admin"
                                          \/ page[p] \in {"draft", "rejected"}
                                          \/ desk[d].passed
    OBVIOUS
  <2>0. /\ desk \in [Desks -> DeskStates] /\ wording \in [Pages -> 0..MaxEdits] /\ DesksKnow
    BY DEF PubInv, PubTypeOK
  <2>1. PICK d \in Desks : UpdateTranslation(d)
    BY DEF PubNext, CreateWithTranslation, Delete, GetTranslationStatus, DeskGoesOn,
       EnqueueSitemapRebuild, UpdateTranslationStatus, BuildXML, Rebuild, RebuildFails, CMSCrash
  <2>2. desk[d].at = "edit" /\ desk'[d] = IdleDesk /\ Row(desk[d].page) /\ desk[d].page = p
    BY <2>0, <2>1 DEF UpdateTranslation
  <2> QED
    BY <2>0, <2>2 DEF DesksKnow, Row
<1> QED
  BY <1>1, PublishingCorrect, PTL DEF PubSpec, EditorsLeaveLiveTextAlone

-------------------------------------------------------------------------------
(* Documents *)

USE DocumentsAssumption, MaxVersionsAssumption

Versions == 1..MaxVersions

LEMMA KeyFacts ==
    /\ \A d \in Docs, n \in Versions :
          /\ Key(d, n) \in Keys /\ Key(d, n).doc = d /\ Key(d, n) # NoKey
          /\ d \in Certs => Key(d, n).nr = n
    /\ \A d \in Quotes, n, m \in Versions : Key(d, n) = Key(d, m)
    /\ \A d, e \in Docs, n, m \in Versions : Key(d, n) = Key(e, m) => d = e /\ (d \in Certs => n = m)
<1>1. \A d \in Docs, n \in Versions :
        /\ Key(d, n).doc = d /\ Key(d, n) # NoKey
        /\ d \in Certs => Key(d, n).nr = n
  BY DEF Key, NoKey, Docs, Versions
<1>2. \A d \in Docs, n \in Versions : Key(d, n) \in Keys
  BY DEF Keys, Versions
<1>3. \A d \in Quotes, n, m \in Versions : Key(d, n) = Key(d, m)
  BY DEF Key
<1>4. \A d, e \in Docs, n, m \in Versions : Key(d, n) = Key(e, m) => d = e /\ (d \in Certs => n = m)
  BY <1>1
<1> QED
  BY <1>1, <1>2, <1>3, <1>4

\* What a job holds.
JobHolds(w) ==
    \/ press[w] = Idle
    \/ /\ press[w].doc \in Docs /\ press[w].read \in 1..version[press[w].doc]
       /\ \/ press[w].at = "display" /\ press[w].doc \in Certs
          \/ press[w].at = "put" /\ press[w].shows = press[w].read
          \/ press[w].at = "name" /\ file[Key(press[w].doc, press[w].read)] # 0
\* The key of a document is its own, and what is to be printed exists.
KeyHolds(d) ==
    /\ \/ pdf_key[d] = NoKey
       \/ \E n \in Versions : pdf_key[d] = Key(d, n) /\ file[Key(d, n)] # 0
    /\ d \in owed \/ prints[d] > 0 => version[d] > 0
\* The jobs of a document that was not overtaken hold its version.
HandsHold(d) ==
    d \in overtaken
      \/ /\ \A w \in Presses : press[w].doc = d =>
               /\ press[w].read = version[d]
               /\ press[w].at = "name" => file[Key(d, version[d])] = version[d]
         /\ d \in Quotes /\ pdf_key[d] # NoKey => file[pdf_key[d]] = version[d]
\* The PDF of a document is right or on its way.
OnItsWay(d) ==
    \/ pdf_mode = "local" \/ d \in overtaken \cup lost \cup unasked \cup owed \/ version[d] = 0 \/ prints[d] > 0 \/ InHand(d)
    \/ pdf_key[d] = Key(d, version[d]) /\ file[Key(d, version[d])] = version[d]

DocInv ==
    /\ DocTypeOK
    /\ CertificateFilesAreTrue
    /\ \A w \in Presses : JobHolds(w)
    /\ \A d \in Docs : KeyHolds(d) /\ HandsHold(d) /\ OnItsWay(d)

PressStates == [at : {"idle", "display", "put", "name"}, doc : Docs \cup {"none"},
                read : 0..MaxVersions, shows : 0..MaxVersions]

LEMMA IdleFacts == Idle \in PressStates /\ Idle.at = "idle" /\ Idle.doc = "none" /\ "none" \notin Docs
  BY DEF Idle, PressStates, Docs

LEMMA DocInvInit == DocInit => DocInv
<1> SUFFICES ASSUME DocInit PROVE DocInv
  OBVIOUS
<1>1. DocTypeOK
  BY IdleFacts DEF DocInit, DocTypeOK, PressStates
<1>2. CertificateFilesAreTrue
  BY DEF DocInit, CertificateFilesAreTrue
<1>3. \A w \in Presses : JobHolds(w) /\ press[w].doc = "none"
  BY IdleFacts DEF DocInit, JobHolds
<1>4. \A d \in Docs : KeyHolds(d) /\ HandsHold(d) /\ OnItsWay(d)
  BY <1>3, IdleFacts DEF DocInit, KeyHolds, HandsHold, OnItsWay
<1> QED
  BY <1>1, <1>2, <1>3, <1>4 DEF DocInv

LEMMA DocFacts ==
    ASSUME DocTypeOK
    PROVE  /\ version \in [Docs -> 0..MaxVersions] /\ pdf_key \in [Docs -> Keys \cup {NoKey}]
           /\ file \in [Keys -> 0..MaxVersions] /\ prints \in [Docs -> Nat]
           /\ press \in [Presses -> PressStates] /\ docFaults \in 0..DocMaxFaults
           /\ owed \subseteq Docs /\ overtaken \subseteq Docs /\ lost \subseteq Docs
           /\ unasked \subseteq Quotes /\ pdf_mode \in {"local", "chromedp"}
  BY DEF DocTypeOK, PressStates

LEMMA DocTypeFold ==
    ASSUME version' \in [Docs -> 0..MaxVersions], pdf_key' \in [Docs -> Keys \cup {NoKey}],
           file' \in [Keys -> 0..MaxVersions], prints' \in [Docs -> Nat],
           press' \in [Presses -> PressStates], docFaults' \in 0..DocMaxFaults,
           owed' \subseteq Docs, overtaken' \subseteq Docs, lost' \subseteq Docs,
           unasked' \subseteq Quotes, pdf_mode' \in {"local", "chromedp"}
    PROVE  DocTypeOK'
  BY DEF DocTypeOK, PressStates

LEMMA DocCommits ==
    ASSUME DocInv, NEW d \in Docs, NEW key \in {NoKey, pdf_key[d]}, Commit(d, key),
           d \in Quotes => key = NoKey
    PROVE  DocInv'
<1>0. DocTypeOK
  BY DEF DocInv
<1>1. /\ version[d] < MaxVersions /\ version' = [version EXCEPT ![d] = @ + 1]
      /\ pdf_key' = [pdf_key EXCEPT ![d] = key] /\ owed' = owed \cup {d}
      /\ overtaken' = IF InHand(d) THEN overtaken \cup {d} ELSE overtaken
      /\ UNCHANGED <<file, prints, press, lost, unasked, pdf_mode, docFaults>>
  BY DEF Commit
<1>2. /\ version'[d] = version[d] + 1 /\ pdf_key'[d] = key
      /\ \A e \in Docs \ {d} : version'[e] = version[e] /\ pdf_key'[e] = pdf_key[e]
      /\ version[d] \in Nat /\ version'[d] \in 1..MaxVersions
  BY <1>0, <1>1, DocFacts
<1>3. DocTypeOK'
  BY <1>0, <1>1, DocFacts, DocTypeFold
<1>4. CertificateFilesAreTrue'
  BY <1>1 DEF DocInv, CertificateFilesAreTrue
<1>5. ASSUME NEW w \in Presses PROVE JobHolds(w)'
  <2>1. JobHolds(w) /\ press'[w] = press[w] /\ file' = file
    BY <1>1 DEF DocInv
  <2>2. press[w].doc \in Docs => version'[press[w].doc] \in Nat /\ version[press[w].doc] \in Nat
            /\ version'[press[w].doc] >= version[press[w].doc]
    BY <1>0, <1>2, DocFacts
  <2> QED
    BY <2>1, <2>2 DEF JobHolds
<1>6. ASSUME NEW e \in Docs PROVE KeyHolds(e)' /\ HandsHold(e)' /\ OnItsWay(e)'
  <2>1. KeyHolds(e) /\ HandsHold(e) /\ OnItsWay(e)
    BY DEF DocInv
  <2>2. CASE e = d
    <3>1. KeyHolds(e)'
      BY <1>1, <1>2, <2>1, <2>2 DEF KeyHolds
    <3>2. HandsHold(e)'
      BY <1>1, <1>2, <2>1, <2>2 DEF HandsHold, InHand
    <3>3. OnItsWay(e)'
      BY <1>1, <2>2 DEF OnItsWay
    <3> QED
      BY <3>1, <3>2, <3>3
  <2>3. CASE e # d
    <3>1. /\ version'[e] = version[e] /\ pdf_key'[e] = pdf_key[e]
          /\ (e \in owed' <=> e \in owed) /\ (e \in overtaken' <=> e \in overtaken)
      BY <1>1, <1>2, <2>3
    <3>2. KeyHolds(e)' /\ HandsHold(e)'
      BY <1>1, <2>1, <3>1 DEF KeyHolds, HandsHold
    <3>3. OnItsWay(e)'
      BY <1>1, <2>1, <3>1 DEF OnItsWay, InHand
    <3> QED
      BY <3>2, <3>3
  <2> QED
    BY <2>2, <2>3
<1> QED
  BY <1>3, <1>4, <1>5, <1>6 DEF DocInv

LEMMA DocEnqueues ==
    ASSUME DocInv, NEW d \in Docs, EnqueuePDFGenerate(d)
    PROVE  DocInv'
<1>0. DocTypeOK
  BY DEF DocInv
<1>1. /\ d \in owed /\ owed' = owed \ {d} /\ UNCHANGED <<version, pdf_key, file, press, overtaken, unasked, pdf_mode>>
      /\ \/ prints' = [prints EXCEPT ![d] = @ + 1] /\ UNCHANGED <<lost, docFaults>>
         \/ DocFault /\ lost' = lost \cup {d} /\ UNCHANGED prints
  BY DEF EnqueuePDFGenerate
<1>2. DocTypeOK'
  <2>1. prints' \in [Docs -> Nat] /\ lost' \subseteq Docs /\ docFaults' \in 0..DocMaxFaults
    BY <1>0, <1>1, DocFacts DEF DocFault
  <2> QED
    BY <1>0, <1>1, <2>1, DocFacts, DocTypeFold
<1>3. CertificateFilesAreTrue' /\ \A w \in Presses : JobHolds(w)'
  BY <1>1 DEF DocInv, CertificateFilesAreTrue, JobHolds
<1>4. ASSUME NEW e \in Docs PROVE KeyHolds(e)' /\ HandsHold(e)' /\ OnItsWay(e)'
  <2>1. KeyHolds(e) /\ HandsHold(e) /\ OnItsWay(e)
    BY DEF DocInv
  <2>2. /\ e = d => prints'[e] > 0 \/ e \in lost'
        /\ prints'[e] = prints[e] \/ e = d
        /\ e \in lost => e \in lost'
        /\ e # d /\ e \in owed => e \in owed'
    BY <1>0, <1>1, DocFacts
  <2>3. KeyHolds(e)' /\ HandsHold(e)'
    BY <1>1, <2>1, <2>2 DEF KeyHolds, HandsHold
  <2>4. OnItsWay(e)'
    BY <1>1, <2>1, <2>2 DEF OnItsWay, InHand
  <2> QED
    BY <2>3, <2>4
<1> QED
  BY <1>2, <1>3, <1>4 DEF DocInv

\* A quote whose request met a conflict is excused.
LEMMA DocConflicts ==
    ASSUME DocInv, NEW d \in Docs, SendQuoteConflicts(d)
    PROVE  DocInv'
<1>0. DocTypeOK
  BY DEF DocInv
<1>1. /\ d \in Quotes /\ owed' = owed \ {d} /\ unasked' = unasked \cup {d}
      /\ UNCHANGED <<version, pdf_key, file, prints, press, overtaken, lost, pdf_mode, docFaults>>
  BY DEF SendQuoteConflicts
<1>2. DocTypeOK'
  BY <1>0, <1>1, DocFacts, DocTypeFold
<1>3. CertificateFilesAreTrue' /\ \A w \in Presses : JobHolds(w)'
  BY <1>1 DEF DocInv, CertificateFilesAreTrue, JobHolds
<1>4. ASSUME NEW e \in Docs PROVE KeyHolds(e)' /\ HandsHold(e)' /\ OnItsWay(e)'
  <2>1. KeyHolds(e) /\ HandsHold(e) /\ OnItsWay(e)
    BY DEF DocInv
  <2>2. KeyHolds(e)' /\ HandsHold(e)'
    BY <1>1, <2>1 DEF KeyHolds, HandsHold
  <2>3. OnItsWay(e)'
    BY <1>1, <2>1 DEF OnItsWay, InHand
  <2> QED
    BY <2>2, <2>3
<1> QED
  BY <1>2, <1>3, <1>4 DEF DocInv

\* A job that is under way is one on a document's version.
LEMMA JobFacts ==
    ASSUME DocInv, NEW w \in Presses, press[w].at # "idle"
    PROVE  /\ press[w].doc \in Docs /\ press[w].read \in Versions /\ version[press[w].doc] \in Versions
           /\ press[w].read <= version[press[w].doc]
           /\ press[w].at = "display" => press[w].doc \in Certs
           /\ press[w].at = "put" => press[w].shows = press[w].read
           /\ press[w].at = "name" => file[Key(press[w].doc, press[w].read)] # 0
<1>1. JobHolds(w) /\ press[w] # Idle
  BY IdleFacts DEF DocInv
<1>2. press[w].doc \in Docs /\ version[press[w].doc] \in 0..MaxVersions
  BY <1>1, DocFacts DEF DocInv, JobHolds
<1> QED
  BY <1>1, <1>2 DEF JobHolds, Versions

LEMMA DocReads ==
    ASSUME DocInv, NEW w \in Presses, NEW d \in Docs, GetByID(w, d)
    PROVE  DocInv'
<1> DEFINE r == [at |-> IF d \in Certs THEN "display" ELSE "put", doc |-> d, read |-> version[d],
                 shows |-> IF d \in Certs THEN 0 ELSE version[d]]
<1>0. DocTypeOK /\ KeyHolds(d)
  BY DEF DocInv
<1>1. /\ press[w] = Idle /\ prints[d] > 0 /\ prints' = [prints EXCEPT ![d] = @ - 1]
      /\ press' = [press EXCEPT ![w] = r]
      /\ UNCHANGED <<version, pdf_key, file, owed, overtaken, lost, unasked, pdf_mode, docFaults>>
  BY DEF GetByID
<1>2. version[d] \in Versions
  BY <1>0, <1>1, DocFacts DEF KeyHolds, Versions
<1>3. /\ r \in PressStates /\ r.doc = d /\ r.read = version[d] /\ r.at # "name"
      /\ \/ r.at = "display" /\ d \in Certs
         \/ r.at = "put" /\ r.shows = r.read
  BY <1>2 DEF PressStates, Versions
<1> HIDE DEF r
<1>4. /\ press'[w] = r /\ \A v \in Presses \ {w} : press'[v] = press[v]
      /\ \A e \in Docs \ {d} : prints'[e] = prints[e]
  BY <1>0, <1>1, DocFacts
<1>5. DocTypeOK'
  <2>1. prints' \in [Docs -> Nat] /\ press' \in [Presses -> PressStates]
    BY <1>0, <1>1, <1>3, DocFacts
  <2> QED
    BY <1>0, <1>1, <2>1, DocFacts, DocTypeFold
<1>6. CertificateFilesAreTrue' /\ \A v \in Presses : JobHolds(v)'
  BY <1>1, <1>2, <1>3, <1>4 DEF DocInv, CertificateFilesAreTrue, JobHolds, Versions
<1>7. ASSUME NEW e \in Docs PROVE KeyHolds(e)' /\ HandsHold(e)' /\ OnItsWay(e)'
  <2>1. KeyHolds(e) /\ HandsHold(e) /\ OnItsWay(e)
    BY DEF DocInv
  <2>2. KeyHolds(e)'
    BY <1>0, <1>1, <1>2, <1>4, <2>1, DocFacts DEF KeyHolds, Versions
  <2>3. HandsHold(e)'
    BY <1>1, <1>3, <1>4, <2>1 DEF HandsHold
  <2>4. InHand(e) => InHand(e)'
    BY <1>1, <1>4, IdleFacts DEF InHand
  <2>5. OnItsWay(e)'
    BY <1>1, <1>3, <1>4, <2>1, <2>4 DEF OnItsWay, InHand
  <2> QED
    BY <2>2, <2>3, <2>5
<1> QED
  BY <1>5, <1>6, <1>7 DEF DocInv

\* A job that goes back to the queue, or is lost, harms nothing.
LEMMA DocGivesBack ==
    ASSUME DocInv, NEW w \in Presses, press[w].at # "idle", press' = [press EXCEPT ![w] = Idle],
           \/ prints' = [prints EXCEPT ![press[w].doc] = @ + 1] /\ UNCHANGED lost
           \/ lost' = lost \cup {press[w].doc} /\ UNCHANGED prints,
           docFaults' \in 0..DocMaxFaults,
           UNCHANGED <<version, pdf_key, file, owed, overtaken, unasked, pdf_mode>>
    PROVE  DocInv'
<1> DEFINE d == press[w].doc
<1>0. DocTypeOK /\ d \in Docs /\ version[d] \in Versions
  BY JobFacts DEF DocInv
<1>1. press'[w] = Idle /\ \A v \in Presses \ {w} : press'[v] = press[v]
  BY <1>0, DocFacts
<1>2. /\ prints'[d] > 0 \/ d \in lost'
      /\ \A e \in Docs \ {d} : prints'[e] = prints[e]
      /\ lost \subseteq lost'
  BY <1>0, DocFacts
<1>3. DocTypeOK'
  <2>1. prints' \in [Docs -> Nat] /\ press' \in [Presses -> PressStates] /\ lost' \subseteq Docs
    BY <1>0, DocFacts, IdleFacts
  <2> QED
    BY <1>0, <2>1, DocFacts, DocTypeFold
<1>4. CertificateFilesAreTrue' /\ \A v \in Presses : JobHolds(v)'
  BY <1>1 DEF DocInv, CertificateFilesAreTrue, JobHolds
<1>5. ASSUME NEW e \in Docs PROVE KeyHolds(e)' /\ HandsHold(e)' /\ OnItsWay(e)'
  <2>1. KeyHolds(e) /\ HandsHold(e) /\ OnItsWay(e)
    BY DEF DocInv
  <2>2. KeyHolds(e)'
    BY <1>0, <1>2, <2>1 DEF KeyHolds, Versions
  <2>3. HandsHold(e)'
    BY <1>1, <2>1, IdleFacts DEF HandsHold
  <2>4. e # d /\ InHand(e) => InHand(e)'
    BY <1>1 DEF InHand
  <2>5. OnItsWay(e)'
    BY <1>2, <2>1, <2>4 DEF OnItsWay
  <2> QED
    BY <2>2, <2>3, <2>5
<1> QED
  BY <1>3, <1>4, <1>5 DEF DocInv

\* Where nothing renders, a job ends and leaves nothing.
LEMMA DocSkips ==
    ASSUME DocInv, NEW w \in Presses, RenderUnavailable(w)
    PROVE  DocInv'
<1>0. DocTypeOK
  BY DEF DocInv
<1>1. /\ pdf_mode = "local" /\ press' = [press EXCEPT ![w] = Idle]
      /\ UNCHANGED <<version, pdf_key, file, owed, prints, overtaken, lost, unasked, pdf_mode, docFaults>>
  BY DEF RenderUnavailable
<1>2. press'[w] = Idle /\ \A v \in Presses \ {w} : press'[v] = press[v]
  BY <1>0, <1>1, DocFacts
<1>3. DocTypeOK'
  <2>1. press' \in [Presses -> PressStates]
    BY <1>0, <1>1, DocFacts, IdleFacts
  <2> QED
    BY <1>0, <1>1, <2>1, DocFacts, DocTypeFold
<1>4. CertificateFilesAreTrue' /\ \A v \in Presses : JobHolds(v)'
  BY <1>1, <1>2 DEF DocInv, CertificateFilesAreTrue, JobHolds
<1>5. ASSUME NEW e \in Docs PROVE KeyHolds(e)' /\ HandsHold(e)' /\ OnItsWay(e)'
  <2>1. KeyHolds(e) /\ HandsHold(e)
    BY DEF DocInv
  <2>2. KeyHolds(e)'
    BY <1>1, <2>1 DEF KeyHolds
  <2>3. HandsHold(e)'
    BY <1>1, <1>2, <2>1, IdleFacts DEF HandsHold
  <2> QED
    BY <1>1, <2>2, <2>3 DEF OnItsWay
<1> QED
  BY <1>3, <1>4, <1>5 DEF DocInv

LEMMA DocDisplays ==
    ASSUME DocInv, NEW w \in Presses, GetByCode(w)
    PROVE  DocInv'
<1> DEFINE d == press[w].doc
           r == [press[w] EXCEPT !.at = "put", !.shows = version[d]]
<1>0. DocTypeOK /\ d \in Docs /\ version[d] \in Versions /\ press[w].at = "display"
  BY JobFacts DEF DocInv, GetByCode
<1>1. CASE press[w].read # version[d]
  <2>1. /\ press' = [press EXCEPT ![w] = Idle] /\ prints' = [prints EXCEPT ![d] = @ + 1]
        /\ UNCHANGED <<version, pdf_key, file, owed, overtaken, lost, unasked, pdf_mode, docFaults>>
    BY <1>1 DEF GetByCode
  <2>2. docFaults' \in 0..DocMaxFaults
    BY <1>0, <2>1, DocFacts
  <2> QED
    BY <1>0, <2>1, <2>2, DocGivesBack
<1>2. CASE press[w].read = version[d]
  <2>1. /\ press' = [press EXCEPT ![w] = r]
        /\ UNCHANGED <<version, pdf_key, file, owed, overtaken, lost, unasked, pdf_mode, docFaults, prints>>
    BY <1>0, <1>2, DocFacts DEF GetByCode
  <2>2. /\ r \in PressStates /\ r.doc = d /\ r.read = version[d] /\ r.at = "put" /\ r.shows = r.read
    BY <1>0, <1>2, DocFacts DEF PressStates, Versions
  <2> HIDE DEF r
  <2>3. press'[w] = r /\ \A v \in Presses \ {w} : press'[v] = press[v]
    BY <1>0, <2>1, DocFacts
  <2>4. DocTypeOK'
    <3>1. press' \in [Presses -> PressStates]
      BY <1>0, <2>1, <2>2, DocFacts
    <3> QED
      BY <1>0, <2>1, <3>1, DocFacts, DocTypeFold
  <2>5. CertificateFilesAreTrue' /\ \A v \in Presses : JobHolds(v)'
    BY <1>0, <2>1, <2>2, <2>3 DEF DocInv, CertificateFilesAreTrue, JobHolds, Versions
  <2>6. \A v \in Presses : press'[v].doc = press[v].doc
    BY <2>2, <2>3
  <2>7. ASSUME NEW e \in Docs PROVE KeyHolds(e)' /\ HandsHold(e)' /\ OnItsWay(e)'
    <3>1. KeyHolds(e) /\ HandsHold(e) /\ OnItsWay(e)
      BY DEF DocInv
    <3>2. KeyHolds(e)'
      BY <2>1, <3>1 DEF KeyHolds
    <3>3. HandsHold(e)'
      BY <2>1, <2>2, <2>3, <3>1 DEF HandsHold
    <3>4. OnItsWay(e)'
      BY <2>1, <2>6, <3>1 DEF OnItsWay, InHand
    <3> QED
      BY <3>2, <3>3, <3>4
  <2> QED
    BY <2>4, <2>5, <2>7 DEF DocInv
<1> QED
  BY <1>1, <1>2

LEMMA DocStores ==
    ASSUME DocInv, NEW w \in Presses, Put(w)
    PROVE  DocInv'
<1> DEFINE d == press[w].doc
           n == press[w].read
           r == [press[w] EXCEPT !.at = "name"]
<1>0. DocTypeOK /\ d \in Docs /\ n \in Versions /\ press[w].at = "put" /\ press[w].shows = n
  BY JobFacts DEF DocInv, Put
<1>1. /\ press' = [press EXCEPT ![w] = r] /\ file' = [file EXCEPT ![Key(d, n)] = n]
      /\ UNCHANGED <<version, pdf_key, owed, prints, overtaken, lost, unasked, pdf_mode, docFaults>>
  BY <1>0, DocFacts DEF Put
<1>2. r \in PressStates /\ r.doc = d /\ r.read = n /\ r.at = "name"
  BY <1>0, DocFacts DEF PressStates
<1> HIDE DEF r
<1>3. press'[w] = r /\ \A v \in Presses \ {w} : press'[v] = press[v]
  BY <1>0, <1>1, DocFacts
<1>4. /\ Key(d, n) \in Keys /\ file'[Key(d, n)] = n /\ n # 0
      /\ \A k \in Keys \ {Key(d, n)} : file'[k] = file[k]
  BY <1>0, <1>1, KeyFacts, DocFacts DEF Versions
<1>5. DocTypeOK'
  <2>1. press' \in [Presses -> PressStates] /\ file' \in [Keys -> 0..MaxVersions]
    BY <1>0, <1>1, <1>2, <1>4, DocFacts DEF Versions
  <2> QED
    BY <1>0, <1>1, <2>1, DocFacts, DocTypeFold
<1>6. CertificateFilesAreTrue'
  <2>1. Key(d, n).doc \in Certs => Key(d, n).nr = n
    BY <1>0, KeyFacts
  <2> QED
    BY <1>4, <2>1 DEF DocInv, CertificateFilesAreTrue
<1>7. ASSUME NEW v \in Presses PROVE JobHolds(v)'
  <2>1. CASE v = w
    <3>1. n \in 1..version[d]
      BY <1>0, JobFacts DEF Versions
    <3> QED
      BY <1>0, <1>1, <1>2, <1>3, <1>4, <2>1, <3>1 DEF JobHolds
  <2>2. CASE v # w
    <3>1. JobHolds(v) /\ press'[v] = press[v]
      BY <1>3, <2>2 DEF DocInv
    <3>2. CASE press[v] = Idle
      BY <3>1, <3>2 DEF JobHolds
    <3>3. CASE press[v] # Idle
      <4>1. press[v].doc \in Docs /\ press[v].read \in 1..version[press[v].doc]
        BY <3>1, <3>3 DEF JobHolds
      <4>2. version[press[v].doc] \in 0..MaxVersions
        BY <1>0, <4>1, DocFacts
      <4>3. press[v].read \in Versions
        BY <4>1, <4>2 DEF Versions
      <4>4. Key(press[v].doc, press[v].read) \in Keys
        BY <4>1, <4>3, KeyFacts
      <4> QED
        BY <1>1, <1>4, <3>1, <3>3, <4>1, <4>4 DEF JobHolds
    <3> QED
      BY <3>2, <3>3
  <2> QED
    BY <2>1, <2>2
<1>8. ASSUME NEW e \in Docs PROVE KeyHolds(e)' /\ HandsHold(e)' /\ OnItsWay(e)'
  <2>1. KeyHolds(e) /\ HandsHold(e) /\ OnItsWay(e)
    BY DEF DocInv
  <2>2. \A m \in Versions : Key(e, m) \in Keys /\ Key(e, m) # NoKey
    BY KeyFacts
  <2>3. KeyHolds(e)'
    BY <1>1, <1>4, <2>1, <2>2 DEF KeyHolds
  <2>4. version[e] \in 0..MaxVersions
    BY <1>0, DocFacts
  <2>5. CASE e = d
    <3>1. InHand(e)'
      BY <1>2, <1>3, <2>5 DEF InHand
    <3>2. HandsHold(e)'
      <4>1. CASE e \in overtaken
        BY <1>1, <4>1 DEF HandsHold
      <4>2. CASE e \notin overtaken
        <5>1. n = version[e]
          BY <2>1, <2>5, <4>2 DEF HandsHold
        <5>2. file'[Key(e, version[e])] = version[e]
          BY <1>4, <2>5, <5>1
        <5>3. \A v \in Presses : press'[v].doc = e => press'[v].read = version[e]
          BY <1>2, <1>3, <2>1, <4>2, <5>1 DEF HandsHold
        <5>4. e \in Quotes /\ pdf_key[e] # NoKey => pdf_key[e] = Key(e, n)
          BY <1>0, <2>1, KeyFacts DEF KeyHolds
        <5> QED
          BY <1>1, <5>1, <5>2, <5>3, <5>4 DEF HandsHold
      <4> QED
        BY <4>1, <4>2
    <3>3. OnItsWay(e)'
      BY <3>1 DEF OnItsWay
    <3> QED
      BY <2>3, <3>2, <3>3
  <2>6. CASE e # d
    <3>1. \A m \in Versions : file'[Key(e, m)] = file[Key(e, m)]
      BY <1>0, <1>4, <2>2, <2>6, KeyFacts
    <3>2. \A v \in Presses : press'[v].doc = e => v # w /\ press'[v] = press[v]
      BY <1>2, <1>3, <2>6
    <3>3. InHand(e) => InHand(e)'
      BY <1>3, <2>6 DEF InHand
    <3>4. \A v \in Presses : press'[v].doc = e /\ press'[v].at = "name" => version[e] \in Versions
      BY <3>2, JobFacts
    <3>5. HandsHold(e)'
      <4>1. e \in Quotes /\ pdf_key[e] # NoKey => file'[pdf_key[e]] = file[pdf_key[e]]
        BY <2>1, <3>1 DEF KeyHolds
      <4> QED
        BY <1>1, <2>1, <3>1, <3>2, <3>4, <4>1 DEF HandsHold
    <3>6. OnItsWay(e)'
      <4>1. version[e] = 0 \/ version[e] \in Versions
        BY <2>4 DEF Versions
      <4> QED
        BY <1>1, <2>1, <3>1, <3>3, <4>1 DEF OnItsWay
    <3> QED
      BY <2>3, <3>5, <3>6
  <2> QED
    BY <2>5, <2>6
<1> QED
  BY <1>5, <1>6, <1>7, <1>8 DEF DocInv

LEMMA DocNames ==
    ASSUME DocInv, NEW w \in Presses, SetPDFKey(w)
    PROVE  DocInv'
<1> DEFINE d == press[w].doc
           n == press[w].read
           right == /\ n = version[d] /\ file[Key(d, version[d])] = version[d]
                    /\ \A v \in Presses \ {w} : press[v].doc # d
<1>0. /\ DocTypeOK /\ d \in Docs /\ n \in Versions /\ version[d] \in Versions /\ press[w].at = "name"
      /\ file[Key(d, n)] # 0
  BY JobFacts DEF DocInv, SetPDFKey
<1>1. /\ pdf_key' = [pdf_key EXCEPT ![d] = Key(d, n)] /\ press' = [press EXCEPT ![w] = Idle]
      /\ overtaken' = IF right THEN overtaken \ {d} ELSE overtaken
      /\ lost' = IF right THEN lost \ {d} ELSE lost
      /\ unasked' = IF right THEN unasked \ {d} ELSE unasked
      /\ UNCHANGED <<version, file, owed, prints, pdf_mode, docFaults>>
  BY DEF SetPDFKey
<1>2. /\ press'[w] = Idle /\ \A v \in Presses \ {w} : press'[v] = press[v]
      /\ pdf_key'[d] = Key(d, n) /\ \A e \in Docs \ {d} : pdf_key'[e] = pdf_key[e]
  BY <1>0, <1>1, DocFacts
<1>3. DocTypeOK'
  <2>1. /\ press' \in [Presses -> PressStates] /\ pdf_key' \in [Docs -> Keys \cup {NoKey}]
        /\ overtaken' \subseteq Docs /\ lost' \subseteq Docs /\ unasked' \subseteq Quotes
    BY <1>0, <1>1, DocFacts, IdleFacts, KeyFacts
  <2> QED
    BY <1>0, <1>1, <2>1, DocFacts, DocTypeFold
<1>4. CertificateFilesAreTrue' /\ \A v \in Presses : JobHolds(v)'
  BY <1>1, <1>2 DEF DocInv, CertificateFilesAreTrue, JobHolds
<1>5. ASSUME NEW e \in Docs PROVE KeyHolds(e)' /\ HandsHold(e)' /\ OnItsWay(e)'
  <2>1. KeyHolds(e) /\ HandsHold(e) /\ OnItsWay(e)
    BY DEF DocInv
  <2>2. KeyHolds(e)'
    BY <1>0, <1>1, <1>2, <2>1 DEF KeyHolds
  <2>3. CASE e = d
    <3>1. e \notin overtaken \/ right => n = version[e] /\ file[Key(e, version[e])] = version[e]
      BY <1>0, <2>1, <2>3 DEF HandsHold
    <3>2. e \in overtaken' \/ e \notin overtaken \/ right
      BY <1>1
    <3>3. OnItsWay(e)'
      BY <1>1, <1>2, <2>3, <3>1, <3>2 DEF OnItsWay
    <3>4. \A v \in Presses : press'[v].doc = e => v # w /\ press'[v] = press[v]
      BY <1>0, <1>2, <2>3, IdleFacts
    <3>5. HandsHold(e)'
      BY <1>1, <1>2, <2>1, <2>3, <3>1, <3>2, <3>4 DEF HandsHold
    <3> QED
      BY <2>2, <3>3, <3>5
  <2>4. CASE e # d
    <3>1. /\ (e \in overtaken' <=> e \in overtaken) /\ (e \in lost' <=> e \in lost)
          /\ (e \in unasked' <=> e \in unasked)
          /\ pdf_key'[e] = pdf_key[e]
      BY <1>1, <1>2, <2>4
    <3>2. \A v \in Presses : press'[v].doc = e => v # w /\ press'[v] = press[v]
      BY <1>2, <2>4, IdleFacts
    <3>3. InHand(e) => InHand(e)'
      BY <1>2, <2>4 DEF InHand
    <3>4. HandsHold(e)'
      BY <1>1, <2>1, <3>1, <3>2 DEF HandsHold
    <3>5. OnItsWay(e)'
      BY <1>1, <2>1, <3>1, <3>3 DEF OnItsWay
    <3> QED
      BY <2>2, <3>4, <3>5
  <2> QED
    BY <2>3, <2>4
<1> QED
  BY <1>3, <1>4, <1>5 DEF DocInv

LEMMA DocInvNext == DocInv /\ [DocNext]_docVars => DocInv'
<1> SUFFICES ASSUME DocInv, [DocNext]_docVars PROVE DocInv'
  OBVIOUS
<1>1. CASE UNCHANGED docVars
  BY <1>1 DEF docVars, DocInv, DocTypeOK, CertificateFilesAreTrue, JobHolds, KeyHolds, HandsHold,
     OnItsWay, InHand
<1>2. ASSUME NEW d \in Docs, Issue(d) \/ RegenerateCode(d) \/ CreateQuote(d) PROVE DocInv'
  BY <1>2, DocCommits DEF Issue, RegenerateCode, CreateQuote
<1>3. ASSUME NEW w \in Presses, PrintFails(w) PROVE DocInv'
  <2>1. docFaults' \in 0..DocMaxFaults
    BY <1>3, DocFacts DEF PrintFails, DocFault, DocInv
  <2> QED
    BY <1>3, <2>1, DocGivesBack DEF PrintFails
<1> QED
  BY <1>1, <1>2, <1>3, DocEnqueues, DocConflicts, DocReads, DocSkips, DocDisplays, DocStores, DocNames
     DEF DocNext, PressWorks

LEMMA DocumentsCorrect == DocSpec => []DocInv
<1> QED
  BY DocInvInit, DocInvNext, PTL DEF DocSpec

\* What a key leads to exists, is of the certificate's code it is named for and asks
\* the quote's current price, whatever jobs overlap, fail or run again (pdf:generate
\* reads, renders and names in separate steps).
THEOREM FilesAreRight == DocSpec => []FilesAreTrue
<1>1. DocInv => FilesAreTrue
  <2> SUFFICES ASSUME DocInv PROVE FilesAreTrue
    OBVIOUS
  <2>1. KeyLeadsToFile
    BY DEF DocInv, KeyHolds, KeyLeadsToFile
  <2>2. QuoteShowsCurrentPrice
    BY DEF DocInv, HandsHold, QuoteShowsCurrentPrice, Docs
  <2> QED
    BY <2>1, <2>2 DEF DocInv, FilesAreTrue
<1> QED
  BY <1>1, DocumentsCorrect, PTL

\* Where PDFs are rendered, at rest the row names the PDF of the current version,
\* unless a job was lost or overtaken, or SendQuote met a conflict after it had
\* committed the quote.
THEOREM PdfsAreCurrent == DocSpec => []PdfIsCurrent
<1>1. DocInv => PdfIsCurrent
  <2> SUFFICES ASSUME DocInv, NEW d \in Docs, pdf_mode = "chromedp", version[d] > 0,
                      d \notin owed \cup overtaken \cup lost \cup unasked,
                      prints[d] = 0, ~InHand(d)
               PROVE  pdf_key[d] = Key(d, version[d]) /\ file[pdf_key[d]] = version[d]
    BY DEF PdfIsCurrent
  <2>1. OnItsWay(d)
    BY DEF DocInv
  <2> QED
    BY <2>1 DEF OnItsWay
<1> QED
  BY <1>1, DocumentsCorrect, PTL

-------------------------------------------------------------------------------
(* MediaLibrary *)

USE MaxOrderAssumption

BeingDeleted(f) == \E c \in Curators : curator[c].at = "row" /\ curator[c].file = f
RowsHaveFiles == \A f \in Files : asset[f] = "row" => f \in object \cup half \cup bare \/ BeingDeleted(f)
ShownHaveRows == \A g \in Galleries, f \in Files : place[g][f] >= 0 => asset[f] = "row"
\* What a request deletes had a row.
DeletedHadRows == \A c \in Curators :
    curator[c].at \in {"object", "row"} => asset[curator[c].file] \in {"row", "gone"}
\* What an attach has read is still the most, unless it was passed.
LastIsLast == \A c \in Curators :
    curator[c].at = "attach" /\ ~curator[c].passed =>
        \A f \in Files : place[curator[c].gallery][f] <= curator[c].last

MediaInv == /\ MediaTypeOK /\ RowsHaveFiles /\ ShownHaveRows
            /\ DeletedHadRows /\ LastIsLast

LEMMA MediaInvInit == MediaInit => MediaInv
<1> SUFFICES ASSUME MediaInit PROVE MediaInv
  OBVIOUS
<1>1. Resting \in CuratorStates /\ -1 \in -1..MaxOrder
  BY DEF CuratorStates
<1>2. curator \in [Curators -> CuratorStates] /\ \A c \in Curators : curator[c].at = "idle"
  BY <1>1 DEF MediaInit, Resting
<1>3. MediaTypeOK
  BY <1>1, <1>2 DEF MediaInit, MediaTypeOK
<1>4. /\ RowsHaveFiles /\ ShownHaveRows /\ DeletedHadRows /\ LastIsLast
  BY <1>2 DEF MediaInit, RowsHaveFiles, ShownHaveRows, DeletedHadRows, LastIsLast
<1> QED
  BY <1>3, <1>4 DEF MediaInv

\* The states of a request, one kind at a time.
LEMMA CuratorType ==
    ASSUME MediaTypeOK, NEW c \in Curators
    PROVE  /\ curator[c] \in CuratorStates
           /\ curator[c].at \in {"idle", "object", "row", "attach"}
           /\ curator[c].at = "idle" <=> curator[c] = Resting
           /\ curator[c].at # "idle" => curator[c].file \in Files
           /\ curator[c].at = "attach" =>
                /\ curator[c].gallery \in Galleries /\ curator[c].last \in -1..MaxOrder
                /\ curator[c].passed \in BOOLEAN
                /\ [curator[c] EXCEPT !.passed = TRUE] \in CuratorStates
                /\ [curator[c] EXCEPT !.passed = TRUE].at = "attach"
                /\ [curator[c] EXCEPT !.passed = TRUE].passed
           /\ curator[c].at = "object" =>
                /\ [curator[c] EXCEPT !.at = "row"] \in CuratorStates
                /\ [curator[c] EXCEPT !.at = "row"].at = "row"
                /\ [curator[c] EXCEPT !.at = "row"].file = curator[c].file
<1> DEFINE Attaches == [at : {"attach"}, gallery : Galleries, file : Files, last : -1..MaxOrder,
                        passed : BOOLEAN]
           Deletes == [at : {"object", "row"}, file : Files]
<1>1. curator[c] \in CuratorStates
  BY DEF MediaTypeOK
<1>2. Attaches \subseteq CuratorStates /\ Deletes \subseteq CuratorStates
  BY DEF CuratorStates
<1>3. CASE curator[c] = Resting
  BY <1>1, <1>3 DEF Resting
<1>4. CASE curator[c] \in Attaches
  <2>1. [curator[c] EXCEPT !.passed = TRUE] \in Attaches
    BY <1>4
  <2> QED
    BY <1>1, <1>2, <1>4, <2>1 DEF Resting
<1>5. CASE curator[c] \in Deletes
  <2>1. [curator[c] EXCEPT !.at = "row"] \in Deletes
    BY <1>5
  <2> QED
    BY <1>1, <1>2, <1>5, <2>1 DEF Resting
<1> QED
  BY <1>1, <1>3, <1>4, <1>5 DEF CuratorStates

\* Passed marks the attaches to a gallery and changes nothing else of a request.
LEMMA PassedFacts ==
    ASSUME MediaTypeOK, NEW g \in Galleries, NEW c \in Curators
    PROVE  /\ Passed(g)[c] \in CuratorStates
           /\ Passed(g)[c].at = curator[c].at
           /\ curator[c].at # "attach" => Passed(g)[c] = curator[c]
           /\ curator[c].at = "attach" /\ curator[c].gallery # g => Passed(g)[c] = curator[c]
           /\ curator[c].at = "attach" /\ curator[c].gallery = g => Passed(g)[c].passed
<1>1. Passed(g)[c] = IF curator[c].at = "attach" /\ curator[c].gallery = g
                     THEN [curator[c] EXCEPT !.passed = TRUE] ELSE curator[c]
  BY DEF Passed
<1>2. CASE curator[c].at = "attach" /\ curator[c].gallery = g
  <2>1. Passed(g)[c] = [curator[c] EXCEPT !.passed = TRUE]
    BY <1>1, <1>2
  <2> QED
    BY <1>2, <2>1, CuratorType
<1>3. CASE ~(curator[c].at = "attach" /\ curator[c].gallery = g)
  <2>1. Passed(g)[c] = curator[c]
    BY <1>1, <1>3
  <2> QED
    BY <1>3, <2>1, CuratorType
<1> QED
  BY <1>2, <1>3

\* A gallery changes under Passed: other requests keep what they know.
LEMMA LastIsLastKept ==
    ASSUME MediaInv, NEW g \in Galleries,
           place' \in [Galleries -> [Files -> -1..MaxOrder]],
           \A h \in Galleries \ {g} : place'[h] = place[h],
           \A c \in Curators : curator'[c] = Passed(g)[c] \/ curator'[c] = Resting
    PROVE  LastIsLast'
<1> SUFFICES ASSUME NEW c \in Curators, curator'[c].at = "attach", ~curator'[c].passed, NEW f \in Files
             PROVE  place'[curator'[c].gallery][f] <= curator'[c].last
  BY DEF LastIsLast
<1>1. curator'[c] = Passed(g)[c]
  BY DEF Resting
<1>2. curator'[c] = curator[c] /\ curator[c].gallery # g /\ curator[c].at = "attach"
  BY <1>1, PassedFacts DEF MediaInv
<1>3. place'[curator[c].gallery] = place[curator[c].gallery]
  BY <1>2, CuratorType DEF MediaInv
<1> QED
  BY <1>2, <1>3 DEF MediaInv, LastIsLast

LEMMA MediaUploads ==
    ASSUME MediaInv, NEW f \in Files, Upload(f) \/ RegisterAsset(f)
    PROVE  MediaInv'
<1>1. UNCHANGED <<place, curator, half, mediaFaults>> /\ object \subseteq object'
  BY DEF Upload, RegisterAsset
<1>2. /\ \A e \in Files \ {f} : asset'[e] = asset[e]
      /\ asset'[f] = asset[f] \/ (asset[f] = "none" /\ asset'[f] = "row")
  BY DEF Upload, RegisterAsset, MediaInv, MediaTypeOK
<1>3. /\ \A e \in Files \ {f} : e \in bare => e \in bare'
      /\ (f \in bare \/ asset'[f] # asset[f]) => f \in object' \cup bare'
  BY DEF Upload, RegisterAsset
<1>4. MediaTypeOK'
  BY <1>1 DEF Upload, RegisterAsset, MediaInv, MediaTypeOK
<1>5. \A e \in Files : BeingDeleted(e)' = BeingDeleted(e)
  BY <1>1 DEF BeingDeleted
<1>6. RowsHaveFiles'
  <2> SUFFICES ASSUME NEW e \in Files, asset'[e] = "row"
               PROVE  e \in object' \cup half' \cup bare' \/ BeingDeleted(e)
    BY <1>5 DEF RowsHaveFiles
  <2>1. CASE asset'[e] # asset[e]
    BY <1>2, <1>3, <2>1
  <2>2. CASE asset'[e] = asset[e]
    <3>1. e \in object \cup half \cup bare \/ BeingDeleted(e)
      BY <2>2 DEF MediaInv, RowsHaveFiles
    <3> QED
      BY <1>1, <1>3, <3>1
  <2> QED
    BY <2>1, <2>2
<1>7. ShownHaveRows' /\ LastIsLast'
  BY <1>1, <1>2 DEF MediaInv, ShownHaveRows, LastIsLast
<1>8. DeletedHadRows'
  BY <1>1, <1>2, CuratorType DEF MediaInv, DeletedHadRows
<1> QED
  BY <1>4, <1>6, <1>7, <1>8 DEF MediaInv

\* A request begins: it reads the gallery or the row.
LEMMA MediaBegins ==
    ASSUME MediaInv, NEW c \in Curators, NEW r \in CuratorStates, curator[c] = Resting,
           curator' = [curator EXCEPT ![c] = r],
           UNCHANGED <<asset, object, place, half, bare, mediaFaults>>,
           \/ r.at = "object" /\ asset[r.file] = "row"
           \/ r.at = "attach" /\ \A f \in Files : place[r.gallery][f] <= r.last
    PROVE  MediaInv'
<1>1. curator'[c] = r /\ \A d \in Curators \ {c} : curator'[d] = curator[d]
  BY DEF MediaInv, MediaTypeOK
<1>2. MediaTypeOK'
  BY DEF MediaInv, MediaTypeOK
<1>3. ShownHaveRows'
  BY DEF MediaInv, ShownHaveRows
<1>4. RowsHaveFiles'
  <2>1. \A f \in Files : BeingDeleted(f) => BeingDeleted(f)'
    BY <1>1 DEF BeingDeleted, Resting
  <2> QED
    BY <2>1 DEF MediaInv, RowsHaveFiles
<1>5. DeletedHadRows' /\ LastIsLast'
  BY <1>1 DEF MediaInv, DeletedHadRows, LastIsLast
<1> QED
  BY <1>2, <1>3, <1>4, <1>5 DEF MediaInv

LEMMA MediaReads ==
    ASSUME MediaInv, NEW c \in Curators, NEW f \in Files,
           GetAsset(c, f) \/ \E g \in Galleries : MaxSortOrder(c, g, f)
    PROVE  MediaInv'
<1>1. CASE GetAsset(c, f)
  <2>1. [at |-> "object", file |-> f] \in CuratorStates
    BY DEF CuratorStates
  <2> QED
    BY <1>1, <2>1, MediaBegins DEF GetAsset, Registered
<1>2. ASSUME NEW g \in Galleries, MaxSortOrder(c, g, f) PROVE MediaInv'
  <2> DEFINE S == {place[g][e] : e \in Files}
             r == [at |-> "attach", gallery |-> g, file |-> f, passed |-> FALSE, last |-> Max(S)]
  <2>1. place[g] \in [Files -> -1..MaxOrder]
    BY DEF MediaInv, MediaTypeOK
  <2>2. S \subseteq -1..MaxOrder /\ S # {}
    BY <2>1
  <2>3. Max(S) \in S /\ \A y \in S : Max(S) >= y
    <3> HIDE DEF S
    <3>1. MaxOrder \in Int /\ S \in SUBSET Int /\ \A x \in S : x <= MaxOrder
      BY <2>2
    <3> QED
      BY <2>2, <3>1, MaxIsLargest
  <2>4. r \in CuratorStates
    <3> HIDE DEF S
    <3>1. Max(S) \in -1..MaxOrder
      BY <2>2, <2>3
    <3> QED
      BY <3>1 DEF CuratorStates
  <2>5. r.at = "attach" /\ r.gallery = g /\ r.last = Max(S)
    OBVIOUS
  <2>6. \A e \in Files : place[g][e] <= Max(S)
    <3> SUFFICES ASSUME NEW e \in Files PROVE place[g][e] <= Max(S)
      OBVIOUS
    <3>1. place[g][e] \in S /\ place[g][e] \in Int
      BY <2>1
    <3> HIDE DEF S
    <3>2. Max(S) \in -1..MaxOrder
      BY <2>2, <2>3
    <3> QED
      BY <2>3, <3>1, <3>2
  <2>7. /\ curator[c] = Resting /\ curator' = [curator EXCEPT ![c] = r]
        /\ UNCHANGED <<asset, object, place, half, bare, mediaFaults>>
    BY <1>2 DEF MaxSortOrder
  <2> HIDE DEF r, S
  <2> QED
    BY <2>4, <2>5, <2>6, <2>7, MediaBegins
<1> QED
  BY <1>1, <1>2

\* A gallery shows only registered files and other galleries stay: what a request
\* that attaches, detaches or reorders leaves behind.
LEMMA GalleryChanges ==
    ASSUME MediaInv, NEW g \in Galleries, UNCHANGED <<asset, object, half, bare, mediaFaults>>,
           place' \in [Galleries -> [Files -> -1..MaxOrder]],
           \A h \in Galleries \ {g} : place'[h] = place[h],
           \A f \in Files : place'[g][f] >= 0 => asset[f] = "row",
           curator' \in [Curators -> CuratorStates],
           \A c \in Curators :
              curator'[c] = Passed(g)[c] \/ (curator[c].at = "attach" /\ curator'[c] = Resting)
    PROVE  MediaInv'
<1>1. MediaTypeOK'
  BY DEF MediaInv, MediaTypeOK
<1>2. \A c \in Curators : curator'[c].at \in {"object", "row"} => curator'[c] = curator[c]
  BY PassedFacts DEF MediaInv, Resting
<1>3. \A c \in Curators : curator[c].at = "row" => curator'[c] = curator[c]
  BY PassedFacts DEF MediaInv
<1>4. \A f \in Files : BeingDeleted(f) => BeingDeleted(f)'
  BY <1>3 DEF BeingDeleted
<1>5. RowsHaveFiles' /\ ShownHaveRows'
  BY <1>4 DEF MediaInv, RowsHaveFiles, ShownHaveRows
<1>6. DeletedHadRows'
  BY <1>2 DEF MediaInv, DeletedHadRows
<1>7. LastIsLast'
  BY LastIsLastKept
<1> QED
  BY <1>1, <1>5, <1>6, <1>7 DEF MediaInv

LEMMA MediaAttaches ==
    ASSUME MediaInv, NEW c \in Curators, Attach(c)
    PROVE  MediaInv'
<1> DEFINE r == curator[c]
           g == r.gallery
           f == r.file
           n == r.last + 1
<1>0. MediaTypeOK /\ Resting \in CuratorStates /\ r.at = "attach"
  BY DEF MediaInv, CuratorStates, Attach
<1>1. f \in Files /\ g \in Galleries /\ r.last \in -1..MaxOrder
  BY <1>0, CuratorType
<1>2. CASE f \in Registered
  <2>1. n \in 0..MaxOrder
    BY <1>1, <1>2 DEF Attach
  <2>2. /\ place' = [place EXCEPT ![g][f] = n] /\ curator' = [Passed(g) EXCEPT ![c] = Resting]
        /\ UNCHANGED <<asset, object, half, bare, mediaFaults>>
    BY <1>2 DEF Attach
  <2> HIDE DEF n, r, g, f
  <2>3. place' \in [Galleries -> [Files -> -1..MaxOrder]]
    BY <1>0, <1>1, <2>1, <2>2 DEF MediaTypeOK
  <2>4. \A h \in Galleries \ {g} : place'[h] = place[h]
    BY <1>0, <2>2 DEF MediaTypeOK
  <2>5. \A e \in Files : place'[g][e] >= 0 => asset[e] = "row"
    <3>1. \A e \in Files \ {f} : place'[g][e] = place[g][e]
      BY <1>0, <1>1, <2>2 DEF MediaTypeOK
    <3> QED
      BY <1>1, <1>2, <3>1 DEF MediaInv, ShownHaveRows, Registered
  <2>6. Passed(g) \in [Curators -> CuratorStates]
    <3>1. \A d \in Curators : Passed(g)[d] \in CuratorStates
      BY <1>0, <1>1, PassedFacts
    <3> QED
      BY <3>1 DEF Passed
  <2>7. /\ curator' \in [Curators -> CuratorStates] /\ curator'[c] = Resting
        /\ \A d \in Curators \ {c} : curator'[d] = Passed(g)[d]
    BY <1>0, <2>2, <2>6
  <2>8. \A d \in Curators : curator'[d] = Passed(g)[d] \/ (curator[d].at = "attach" /\ curator'[d] = Resting)
    <3>1. curator[c].at = "attach"
      BY <1>0 DEF r
    <3> QED
      BY <2>7, <3>1
  <2> QED
    BY <1>1, <2>2, <2>3, <2>4, <2>5, <2>7, <2>8, GalleryChanges
<1>3. CASE f \notin Registered
  <2>1. curator' = [curator EXCEPT ![c] = Resting] /\ UNCHANGED <<asset, object, place, half, bare, mediaFaults>>
    BY <1>3 DEF Attach
  <2> HIDE DEF n, r, g, f
  <2>2. /\ curator' \in [Curators -> CuratorStates] /\ curator'[c] = Resting
        /\ \A d \in Curators \ {c} : curator'[d] = curator[d]
    BY <1>0, <2>1 DEF MediaTypeOK
  <2>3. MediaTypeOK' /\ ShownHaveRows'
    BY <2>1, <2>2 DEF MediaInv, MediaTypeOK, ShownHaveRows
  <2>4. \A e \in Files : BeingDeleted(e) => BeingDeleted(e)'
    BY <1>0, <2>2 DEF BeingDeleted, r
  <2>5. RowsHaveFiles'
    BY <2>1, <2>4 DEF MediaInv, RowsHaveFiles
  <2>6. DeletedHadRows' /\ LastIsLast'
    BY <2>1, <2>2 DEF MediaInv, DeletedHadRows, LastIsLast, Resting
  <2> QED
    BY <2>3, <2>5, <2>6 DEF MediaInv
<1> QED
  BY <1>2, <1>3

LEMMA MediaArranges ==
    ASSUME MediaInv, NEW g \in Galleries,
           \/ \E f \in Files, n \in 0..MaxOrder : AttachAt(g, f, n)
           \/ \E S \in SUBSET Files : \E orders \in [S -> 0..MaxOrder] : Reorder(g, orders)
    PROVE  MediaInv'
<1>0. MediaTypeOK
  BY DEF MediaInv
<1>1. UNCHANGED <<asset, object, half, bare, mediaFaults>> /\ curator' = Passed(g)
  BY DEF AttachAt, Reorder
<1>2. curator' \in [Curators -> CuratorStates]
  <2>1. \A d \in Curators : Passed(g)[d] \in CuratorStates
    BY <1>0, PassedFacts
  <2> QED
    BY <1>1, <2>1 DEF Passed
<1> DEFINE Arranged == /\ place' \in [Galleries -> [Files -> -1..MaxOrder]]
                       /\ \A h \in Galleries \ {g} : place'[h] = place[h]
                       /\ \A e \in Files : place'[g][e] >= 0 => asset[e] = "row"
<1>3. Arranged
  <2>1. ASSUME NEW f \in Files, NEW n \in 0..MaxOrder, AttachAt(g, f, n)
        PROVE  Arranged
    <3>1. place' = [place EXCEPT ![g][f] = n] /\ asset[f] = "row"
      BY <2>1 DEF AttachAt, Registered
    <3>2. /\ place' \in [Galleries -> [Files -> -1..MaxOrder]]
          /\ \A h \in Galleries \ {g} : place'[h] = place[h]
          /\ \A e \in Files \ {f} : place'[g][e] = place[g][e]
      BY <1>0, <3>1 DEF MediaTypeOK
    <3> QED
      BY <3>1, <3>2 DEF MediaInv, ShownHaveRows
  <2>2. ASSUME NEW S \in SUBSET Files, NEW orders \in [S -> 0..MaxOrder], Reorder(g, orders)
        PROVE  Arranged
    <3> DEFINE row == [f \in Files |-> IF f \in Shown(g) \cap DOMAIN orders THEN orders[f] ELSE place[g][f]]
    <3>1. place' = [place EXCEPT ![g] = row]
      BY <2>2 DEF Reorder
    <3>2. row \in [Files -> -1..MaxOrder]
      BY <1>0 DEF MediaTypeOK
    <3>3. \A e \in Files : row[e] >= 0 => asset[e] = "row"
      BY <1>0 DEF MediaInv, MediaTypeOK, ShownHaveRows, Shown
    <3> HIDE DEF row
    <3>4. /\ place' \in [Galleries -> [Files -> -1..MaxOrder]]
          /\ \A h \in Galleries \ {g} : place'[h] = place[h]
          /\ place'[g] = row
      BY <1>0, <3>1, <3>2 DEF MediaTypeOK
    <3> QED
      BY <3>3, <3>4
  <2> QED
    BY <2>1, <2>2
<1>4. \A c \in Curators : curator'[c] = Passed(g)[c]
  BY <1>1
<1> QED
  BY <1>1, <1>2, <1>3, <1>4, GalleryChanges

\* Fewer files are shown, and requests stay: a detach.
LEMMA MediaDetaches ==
    ASSUME MediaInv, NEW g \in Galleries, NEW f \in Files, Detach(g, f)
    PROVE  MediaInv'
<1>1. place' = [place EXCEPT ![g][f] = -1] /\ UNCHANGED <<asset, object, curator, half, bare, mediaFaults>>
  BY DEF Detach
<1>2. MediaTypeOK' /\ DeletedHadRows'
  BY <1>1 DEF MediaInv, MediaTypeOK, DeletedHadRows
<1>3. \A h \in Galleries, e \in Files : place'[h][e] = place[h][e] \/ place'[h][e] = -1
  BY <1>1 DEF MediaInv, MediaTypeOK
<1>4. ShownHaveRows'
  BY <1>1, <1>3 DEF MediaInv, ShownHaveRows
<1>5. RowsHaveFiles'
  BY <1>1 DEF MediaInv, RowsHaveFiles, BeingDeleted
<1>6. LastIsLast'
  <2> SUFFICES ASSUME NEW c \in Curators, curator[c].at = "attach", ~curator[c].passed, NEW e \in Files
               PROVE  place'[curator[c].gallery][e] <= curator[c].last
    BY <1>1 DEF LastIsLast
  <2>1. curator[c].gallery \in Galleries /\ curator[c].last \in -1..MaxOrder
    BY CuratorType DEF MediaInv
  <2>2. place[curator[c].gallery][e] <= curator[c].last
    BY DEF MediaInv, LastIsLast
  <2> QED
    BY <1>3, <2>1, <2>2
<1> QED
  BY <1>2, <1>4, <1>5, <1>6 DEF MediaInv

LEMMA MediaDeletes ==
    ASSUME MediaInv, NEW c \in Curators, DeleteObject(c) \/ DeleteAsset(c) \/ DeleteStops(c)
    PROVE  MediaInv'
<1> DEFINE f == curator[c].file
<1>0. /\ MediaTypeOK /\ f \in Files /\ curator[c].at \in {"object", "row"} /\ Resting \in CuratorStates
      /\ asset[f] \in {"row", "gone"}
  BY CuratorType DEF MediaInv, DeletedHadRows, CuratorStates, DeleteObject, DeleteAsset, DeleteStops
<1>f. mediaFaults' \in 0..MediaMaxFaults
  BY <1>0 DEF DeleteObject, DeleteAsset, DeleteStops, MediaFault, MediaTypeOK
<1>1. CASE DeleteObject(c)
  <2> DEFINE r == [curator[c] EXCEPT !.at = "row"]
  <2>1. curator' = [curator EXCEPT ![c] = r] /\ UNCHANGED <<asset, place, half, bare>> /\ object \ {f} \subseteq object'
        /\ object' \subseteq object /\ curator[c].at = "object"
    BY <1>1 DEF DeleteObject
  <2>2. r \in CuratorStates /\ r.at = "row" /\ r.file = f
    BY <1>0, <2>1, CuratorType
  <2> HIDE DEF r
  <2>3. /\ curator' \in [Curators -> CuratorStates] /\ curator'[c] = r
        /\ \A d \in Curators \ {c} : curator'[d] = curator[d]
    BY <1>0, <2>1, <2>2 DEF MediaTypeOK
  <2>4. MediaTypeOK' /\ ShownHaveRows'
    BY <1>f, <1>0, <2>1, <2>3 DEF MediaInv, MediaTypeOK, ShownHaveRows
  <2>6. \A e \in Files : e = f \/ BeingDeleted(e) => BeingDeleted(e)'
    BY <2>1, <2>2, <2>3 DEF BeingDeleted
  <2>7. RowsHaveFiles'
    <3> SUFFICES ASSUME NEW e \in Files, asset[e] = "row" PROVE e \in object' \cup half' \cup bare' \/ BeingDeleted(e)'
      BY <2>1 DEF RowsHaveFiles
    <3>1. e \in object \cup half \cup bare \/ BeingDeleted(e)
      BY DEF MediaInv, RowsHaveFiles
    <3>2. CASE e = f
      BY <2>6, <3>2
    <3>3. CASE e # f
      BY <2>1, <2>6, <3>1, <3>3
    <3> QED
      BY <3>2, <3>3
  <2>8. DeletedHadRows' /\ LastIsLast'
    BY <1>0, <2>1, <2>2, <2>3 DEF MediaInv, DeletedHadRows, LastIsLast
  <2> QED
    BY <2>4, <2>7, <2>8 DEF MediaInv
<1>2. CASE DeleteAsset(c)
  <2>1. /\ curator' = [curator EXCEPT ![c] = Resting] /\ asset' = [asset EXCEPT ![f] = "gone"]
        /\ place' = [g \in Galleries |-> [place[g] EXCEPT ![f] = -1]]
        /\ half' = half \ {f} /\ UNCHANGED <<object, bare, mediaFaults>>
    BY <1>2 DEF DeleteAsset
  <2> HIDE DEF f
  <2>2. /\ curator' \in [Curators -> CuratorStates] /\ curator'[c] = Resting
        /\ \A d \in Curators \ {c} : curator'[d] = curator[d]
    BY <1>0, <2>1 DEF MediaTypeOK
  <2>3. place' \in [Galleries -> [Files -> -1..MaxOrder]]
    BY <1>0, <2>1 DEF MediaTypeOK
  <2>4. \A g \in Galleries : place'[g][f] = -1 /\ \A e \in Files \ {f} : place'[g][e] = place[g][e]
    BY <1>0, <2>1 DEF MediaTypeOK
  <2>5. asset'[f] = "gone" /\ \A e \in Files \ {f} : asset'[e] = asset[e]
    BY <1>0, <2>1 DEF MediaTypeOK
  <2>6. MediaTypeOK'
    BY <1>0, <1>f, <2>1, <2>2, <2>3 DEF MediaTypeOK
  <2>7. ShownHaveRows'
    BY <2>1, <2>4, <2>5 DEF MediaInv, ShownHaveRows
  <2>8. \A e \in Files \ {f} : BeingDeleted(e) => BeingDeleted(e)'
    BY <2>2 DEF BeingDeleted, f
  <2>9. RowsHaveFiles'
    BY <2>1, <2>5, <2>8 DEF MediaInv, RowsHaveFiles
  <2>10. DeletedHadRows'
    <3> SUFFICES ASSUME NEW d \in Curators, curator'[d].at \in {"object", "row"}
                 PROVE  asset'[curator'[d].file] \in {"row", "gone"}
      BY DEF DeletedHadRows
    <3>1. d # c /\ curator'[d] = curator[d]
      BY <2>2 DEF Resting
    <3>2. curator[d].file \in Files /\ asset[curator[d].file] \in {"row", "gone"}
      BY <1>0, <3>1, CuratorType DEF MediaInv, DeletedHadRows
    <3> QED
      BY <2>5, <3>1, <3>2
  <2>11. LastIsLast'
    <3> SUFFICES ASSUME NEW d \in Curators, curator'[d].at = "attach", ~curator'[d].passed, NEW e \in Files
                 PROVE  place'[curator'[d].gallery][e] <= curator'[d].last
      BY DEF LastIsLast
    <3>1. curator'[d] = curator[d]
      BY <2>2 DEF Resting
    <3>2. curator[d].gallery \in Galleries /\ curator[d].last \in -1..MaxOrder
      BY <1>0, <3>1, CuratorType
    <3>3. place[curator[d].gallery][e] <= curator[d].last
      BY <3>1 DEF MediaInv, LastIsLast
    <3> QED
      BY <2>4, <3>1, <3>2, <3>3
  <2> QED
    BY <2>6, <2>7, <2>9, <2>10, <2>11 DEF MediaInv
<1>3. CASE DeleteStops(c)
  <2>1. /\ curator' = [curator EXCEPT ![c] = Resting] /\ half' = half \cup ({f} \cap Registered)
        /\ UNCHANGED <<asset, object, place, bare>>
    BY <1>3 DEF DeleteStops
  <2> HIDE DEF f
  <2>2. /\ curator' \in [Curators -> CuratorStates] /\ curator'[c] = Resting
        /\ \A d \in Curators \ {c} : curator'[d] = curator[d]
    BY <1>0, <2>1 DEF MediaTypeOK
  <2>3. MediaTypeOK' /\ ShownHaveRows'
    BY <1>0, <1>f, <2>1, <2>2 DEF MediaInv, MediaTypeOK, ShownHaveRows
  <2>4. \A e \in Files \ {f} : BeingDeleted(e) => BeingDeleted(e)'
    BY <2>2 DEF BeingDeleted, f
  <2>5. RowsHaveFiles'
    BY <2>1, <2>4 DEF MediaInv, RowsHaveFiles, Registered
  <2>6. DeletedHadRows' /\ LastIsLast'
    BY <2>1, <2>2 DEF MediaInv, DeletedHadRows, LastIsLast, Resting
  <2> QED
    BY <2>3, <2>5, <2>6 DEF MediaInv
<1> QED
  BY <1>1, <1>2, <1>3

LEMMA MediaInvNext == MediaInv /\ [MediaNext]_mediaVars => MediaInv'
<1> SUFFICES ASSUME MediaInv, [MediaNext]_mediaVars PROVE MediaInv'
  OBVIOUS
<1>1. CASE UNCHANGED mediaVars
  BY <1>1 DEF mediaVars, MediaInv, MediaTypeOK, RowsHaveFiles, BeingDeleted,
     ShownHaveRows, DeletedHadRows, LastIsLast
<1> QED
  BY <1>1, MediaUploads, MediaReads, MediaAttaches, MediaArranges, MediaDetaches, MediaDeletes
     DEF MediaNext, CuratorWorks

LEMMA MediaCorrect == MediaSpec => []MediaInv
<1> QED
  BY MediaInvInit, MediaInvNext, PTL DEF MediaSpec

\* What a gallery shows is an asset with a file behind it, but for a deletion between
\* the store and the row (DeleteAsset of media_service.go deletes the object first) and
\* for a key that was registered and never had a file (RegisterAsset does not look).
THEOREM ShownAreThere == MediaSpec => []ShownFilesExist
<1>1. MediaInv => ShownFilesExist
  BY DEF MediaInv, ShownHaveRows, RowsHaveFiles, BeingDeleted, ShownFilesExist, Shown, Registered
<1> QED
  BY <1>1, MediaCorrect, PTL

\* An append that nothing has passed puts its file after every other of the gallery,
\* however many are shown (MAX(sort_order) is read in a statement of its own).
THEOREM AppendsComeLast == MediaSpec => AppendComesLast
<1> DEFINE Last == \A c \in Curators :
          curator[c].at = "attach" /\ curator'[c] = Resting /\ ~curator[c].passed /\ place' # place
            => LET g == curator[c].gallery IN
               \A f \in Shown(g) \ {curator[c].file} : place'[g][f] < place'[g][curator[c].file]
<1>1. MediaInv /\ [MediaNext]_mediaVars => [Last]_mediaVars
  <2> SUFFICES ASSUME MediaInv, MediaNext, NEW c \in Curators, curator[c].at = "attach",
                      curator'[c] = Resting, ~curator[c].passed, place' # place,
                      NEW f \in Shown(curator[c].gallery) \ {curator[c].file}
               PROVE  place'[curator[c].gallery][f] < place'[curator[c].gallery][curator[c].file]
    OBVIOUS
  <2> DEFINE g == curator[c].gallery
             e == curator[c].file
             n == curator[c].last
  <2>1. MediaTypeOK /\ e \in Files /\ g \in Galleries /\ n \in -1..MaxOrder
    BY CuratorType DEF MediaInv
  <2>2. curator[c] # Resting
    BY DEF Resting
  <2>3. \A h \in Galleries : Passed(h)[c] # Resting
    BY <2>1, PassedFacts DEF Resting
  <2>4. Attach(c)
    <3>1. ASSUME NEW d \in Curators, d # c, CuratorWorks(d) PROVE FALSE
      <4>1. Attach(d) => curator[d].at = "attach" /\ curator[d].gallery \in Galleries
        BY <2>1, CuratorType DEF Attach
      <4>2. curator'[c] # Resting
        <5>1. curator \in [Curators -> CuratorStates]
          BY <2>1 DEF MediaTypeOK
        <5>2. CASE Attach(d)
          <6>1. \/ curator' = [Passed(curator[d].gallery) EXCEPT ![d] = Resting]
                \/ curator' = [curator EXCEPT ![d] = Resting]
            BY <5>2 DEF Attach
          <6>2. curator'[c] = Passed(curator[d].gallery)[c] \/ curator'[c] = curator[c]
            BY <3>1, <5>1, <6>1 DEF Passed
          <6> QED
            BY <2>2, <2>3, <4>1, <5>2, <6>2
        <5>3. CASE DeleteObject(d) \/ DeleteAsset(d) \/ DeleteStops(d)
          <6>1. \E r : curator' = [curator EXCEPT ![d] = r]
            BY <5>3 DEF DeleteObject, DeleteAsset, DeleteStops
          <6>2. curator'[c] = curator[c]
            BY <3>1, <5>1, <6>1
          <6> QED
            BY <2>2, <6>2
        <5> QED
          BY <3>1, <5>2, <5>3 DEF CuratorWorks
      <4> QED
        BY <4>2
    <3>2. ~DeleteObject(c) /\ ~DeleteAsset(c) /\ ~DeleteStops(c)
      BY DEF DeleteObject, DeleteAsset, DeleteStops
    <3>3. \E d \in Curators : CuratorWorks(d)
      <4>1. \A x \in Files : ~Upload(x) /\ ~RegisterAsset(x)
        BY <2>2 DEF Upload, RegisterAsset
      <4>2. \A d \in Curators, x \in Files, h \in Galleries : ~GetAsset(d, x) /\ ~MaxSortOrder(d, x, h)
        BY DEF GetAsset, MaxSortOrder
      <4>3. \A h \in Galleries, x \in Files : ~Detach(h, x) /\ \A m \in 0..MaxOrder : ~AttachAt(h, x, m)
        BY <2>2, <2>3 DEF Detach, AttachAt
      <4>4. \A h \in Galleries, S \in SUBSET Files : \A orders \in [S -> 0..MaxOrder] : ~Reorder(h, orders)
        BY <2>3 DEF Reorder
      <4> QED
        BY <4>1, <4>2, <4>3, <4>4 DEF MediaNext, GetAsset, MaxSortOrder
    <3> QED
      BY <3>1, <3>2, <3>3 DEF CuratorWorks
  <2>5. place' = [place EXCEPT ![g][e] = n + 1]
    BY <2>4 DEF Attach
  <2>6. f \in Files /\ f # e /\ place[g][f] <= n /\ place[g][f] \in -1..MaxOrder
    BY <2>1 DEF MediaInv, MediaTypeOK, LastIsLast, Shown
  <2> HIDE DEF g, e, n
  <2>7. place'[g][f] = place[g][f] /\ place'[g][e] = n + 1
    BY <2>1, <2>5, <2>6 DEF MediaTypeOK
  <2>8. place'[g][f] < place'[g][e]
    BY <2>1, <2>6, <2>7
  <2> QED
    BY <2>8 DEF g, e
<1> QED
  BY <1>1, MediaCorrect, PTL DEF MediaSpec, AppendComesLast

-------------------------------------------------------------------------------
(* Alerts *)

USE ThresholdAssumption, ClerksAssumption, MaxQueuedAssumption, AlertMaxFaultsAssumption

LEMMA JobTypes ==
    /\ Free \in Jobs /\ Free.job = "none" /\ Free.left = {}
    /\ SLAJob \in Jobs /\ SLAJob.job = "sla" /\ SLAJob.left = {}
    /\ \A S \in SUBSET Goods : StockJob(S) \in Jobs /\ StockJob(S).job = "stock" /\ StockJob(S).left = {}
<1> DEFINE StockJobs == [job : {"none", "stock"}, todo : SUBSET Goods, about : SUBSET Goods,
                         left : SUBSET Operators, skus : SUBSET Goods]
           SLAJobs == [job : {"sla"}, todo : SUBSET Tickets, about : SUBSET Tickets,
                       left : SUBSET Planners, skus : {{}}]
<1>0. StockJobs \subseteq Jobs /\ SLAJobs \subseteq Jobs
  BY DEF Jobs
<1>1. Free \in StockJobs /\ Free.job = "none" /\ Free.left = {}
  BY DEF Free
<1>2. SLAJob \in SLAJobs /\ SLAJob.job = "sla" /\ SLAJob.left = {}
  BY DEF Free, SLAJob
<1>3. ASSUME NEW S \in SUBSET Goods
      PROVE  StockJob(S) \in StockJobs /\ StockJob(S).job = "stock" /\ StockJob(S).left = {}
  BY DEF Free, StockJob
<1> QED
  BY <1>0, <1>1, <1>2, <1>3

\* What a job holds, by its kind.
StockJobs == [job : {"none", "stock"}, todo : SUBSET Goods, about : SUBSET Goods,
              left : SUBSET Operators, skus : SUBSET Goods]
SLAJobs == [job : {"sla"}, todo : SUBSET Tickets, about : SUBSET Tickets,
            left : SUBSET Planners, skus : {{}}]

LEMMA JobKinds ==
    /\ \A r \in Jobs : \/ r \in SLAJobs /\ r.job = "sla"
                       \/ r \in StockJobs /\ r.job \in {"none", "stock"}
    /\ StockJobs \subseteq Jobs /\ SLAJobs \subseteq Jobs
  BY DEF Jobs, StockJobs, SLAJobs

LEMMA JobHas ==
    ASSUME NEW r \in Jobs
    PROVE  /\ r.todo \subseteq Things /\ r.about \subseteq Things
           /\ r.job = "sla" => r.todo \subseteq Tickets /\ r.left \subseteq Planners
           /\ r.job = "stock" => r.todo \subseteq Goods /\ r.left \subseteq Operators
<1>1. CASE r \in SLAJobs /\ r.job = "sla"
  BY <1>1 DEF SLAJobs, Things
<1>2. CASE r \in StockJobs /\ r.job \in {"none", "stock"}
  BY <1>2 DEF StockJobs, Things
<1> QED
  BY <1>1, <1>2, JobKinds

\* A job whose alerts are over is still a job.
LEMMA JobRests ==
    ASSUME NEW r \in Jobs
    PROVE  /\ [r EXCEPT !.about = {}] \in Jobs
           /\ [r EXCEPT !.about = {}].left = r.left /\ [r EXCEPT !.about = {}].todo = r.todo
           /\ [r EXCEPT !.about = {}].job = r.job
<1>1. CASE r \in SLAJobs
  <2>1. /\ [r EXCEPT !.about = {}] \in SLAJobs
        /\ [r EXCEPT !.about = {}].left = r.left /\ [r EXCEPT !.about = {}].todo = r.todo
        /\ [r EXCEPT !.about = {}].job = r.job
    BY <1>1 DEF SLAJobs
  <2> QED
    BY <2>1, JobKinds
<1>2. CASE r \in StockJobs
  <2>1. /\ [r EXCEPT !.about = {}] \in StockJobs
        /\ [r EXCEPT !.about = {}].left = r.left /\ [r EXCEPT !.about = {}].todo = r.todo
        /\ [r EXCEPT !.about = {}].job = r.job
    BY <1>2 DEF StockJobs
  <2> QED
    BY <2>1, JobKinds
<1> QED
  BY <1>1, <1>2, JobKinds

LEMMA JobBegins ==
    ASSUME NEW r \in Jobs, NEW x \in r.todo, NEW people,
           \/ r.job = "sla" /\ people \subseteq Planners
           \/ r.job = "stock" /\ people \subseteq Operators
    PROVE  /\ Begun(r, x, people) \in Jobs /\ Begun(r, x, people).job = r.job
           /\ Begun(r, x, people).about = {x} /\ Begun(r, x, people).left = people
<1>1. CASE r.job = "sla" /\ people \subseteq Planners
  <2>1. r \in SLAJobs
    BY <1>1, JobKinds
  <2>2. Begun(r, x, people) \in SLAJobs
    BY <1>1, <2>1 DEF SLAJobs, Begun
  <2> QED
    BY <2>1, <2>2, JobKinds DEF SLAJobs, Begun
<1>2. CASE r.job = "stock" /\ people \subseteq Operators
  <2>1. r \in StockJobs
    BY <1>2, JobKinds
  <2>2. Begun(r, x, people) \in StockJobs
    BY <1>2, <2>1 DEF StockJobs, Begun
  <2> QED
    BY <2>1, <2>2, JobKinds DEF StockJobs, Begun
<1> QED
  BY <1>1, <1>2

LEMMA JobTells ==
    ASSUME NEW r \in Jobs, NEW p \in r.left
    PROVE  /\ Told(r, p) \in Jobs /\ Told(r, p).job = r.job
           /\ Told(r, p).about = r.about /\ Told(r, p).left = r.left \ {p}
<1>1. CASE r \in SLAJobs
  <2>1. Told(r, p) \in SLAJobs
    BY <1>1 DEF SLAJobs, Told
  <2> QED
    BY <1>1, <2>1, JobKinds DEF SLAJobs, Told
<1>2. CASE r \in StockJobs
  <2>1. Told(r, p) \in StockJobs
    BY <1>2 DEF StockJobs, Told
  <2> QED
    BY <1>2, <2>1, JobKinds DEF StockJobs, Told
<1> QED
  BY <1>1, <1>2, JobKinds

\* A job that goes on is the one it goes on as, or it has nobody left to tell.
LEMMA GoOnFacts ==
    ASSUME AlertTypeOK, NEW w \in Clerks, NEW r \in Jobs, GoOn(w, r)
    PROVE  /\ clerk' \in [Clerks -> Jobs]
           /\ \A v \in Clerks \ {w} : clerk'[v] = clerk[v]
           /\ r.left # {} => clerk'[w] = r
           /\ r.left = {} => clerk'[w].left = {} /\ clerk'[w].todo \subseteq r.todo
           /\ clerk'[w].job \in {"none", r.job}
<1> DEFINE n == IF r.todo = {} /\ r.left = {} THEN Free
                ELSE IF r.left = {} THEN [r EXCEPT !.about = {}] ELSE r
<1>1. clerk' = [clerk EXCEPT ![w] = n] /\ clerk \in [Clerks -> Jobs]
  BY DEF GoOn, AlertTypeOK, Jobs
<1>2. /\ n \in Jobs /\ n.job \in {"none", r.job} /\ (r.left # {} => n = r)
      /\ r.left = {} => n.left = {} /\ n.todo \subseteq r.todo
  <2>1. CASE r.todo = {} /\ r.left = {}
    BY <2>1, JobTypes DEF Free
  <2>2. CASE r.todo # {} /\ r.left = {}
    <3>1. n = [r EXCEPT !.about = {}]
      BY <2>2
    <3> HIDE DEF n
    <3> QED
      BY <2>2, <3>1, JobRests
  <2>3. CASE r.left # {}
    BY <2>3
  <2> QED
    BY <2>1, <2>2, <2>3
<1> HIDE DEF n
<1> QED
  BY <1>1, <1>2

LEMMA AlertTypeFold ==
    ASSUME AlertTypeOK,
           UNCHANGED <<ticket, overdue, level>>,
           flagged' \subseteq Tickets,
           alerted' \in [Tickets -> [Planners -> 0..2]],
           warned' \in [Goods -> SUBSET Operators],
           ticks' \in 0..MaxQueued,
           checks' \in [SkuSets -> 0..MaxQueued],
           clerk' \in [Clerks -> Jobs],
           untold' \subseteq Things,
           alertFaults' = alertFaults \/ AlertFault
    PROVE  AlertTypeOK'
<1>1. alertFaults' \in 0..AlertMaxFaults
  BY DEF AlertFault, AlertTypeOK
<1> QED
  BY <1>1 DEF AlertTypeOK, Jobs

LEMMA AlertTypeAround ==
    ASSUME AlertTypeOK,
           \/ \E q \in Tickets : DeadlinePasses(q) \/ \E s \in {"pending", "processing", "closed"} : TicketMoves(q, s)
           \/ \E s \in Goods, n \in 0..MaxLevel : LevelChanges(s, n)
           \/ \E S \in SkuSets : StockCheckIsDue(S)
           \/ ScheduleSLACheck
           \/ \E w \in Clerks : QueryFails(w)
    PROVE  AlertTypeOK' /\ UNCHANGED <<clerk, flagged, alerted>>
<1>0. /\ clerk \in [Clerks -> Jobs] /\ ticks \in 0..MaxQueued /\ checks \in [SkuSets -> 0..MaxQueued]
      /\ untold \subseteq Things
  BY DEF AlertTypeOK, Jobs
<1>1. ASSUME NEW q \in Tickets, NEW s \in {"pending", "processing", "closed"}, TicketMoves(q, s)
      PROVE  AlertTypeOK' /\ UNCHANGED <<clerk, flagged, alerted>>
  BY <1>1 DEF TicketMoves, AlertTypeOK, stockVars
<1>2. ASSUME NEW q \in Tickets, DeadlinePasses(q)
      PROVE  AlertTypeOK' /\ UNCHANGED <<clerk, flagged, alerted>>
  BY <1>2 DEF DeadlinePasses, AlertTypeOK, stockVars
<1>3. ASSUME NEW s \in Goods, NEW n \in 0..MaxLevel, LevelChanges(s, n)
      PROVE  AlertTypeOK' /\ UNCHANGED <<clerk, flagged, alerted>>
  <2>1. level' \in [Goods -> 0..MaxLevel] /\ warned' \in [Goods -> SUBSET Operators]
    BY <1>3 DEF LevelChanges, AlertTypeOK
  <2> QED
    BY <1>0, <1>3, <2>1 DEF LevelChanges, AlertTypeOK, slaVars
<1>4. ASSUME NEW S \in SkuSets, StockCheckIsDue(S)
      PROVE  AlertTypeOK' /\ UNCHANGED <<clerk, flagged, alerted>>
  <2>1. checks' \in [SkuSets -> 0..MaxQueued]
    BY <1>0, <1>4 DEF StockCheckIsDue
  <2> QED
    BY <1>4, <2>1 DEF StockCheckIsDue, AlertTypeOK, slaVars
<1>5. CASE ScheduleSLACheck
  <2>1. ticks' \in 0..MaxQueued
    BY <1>0, <1>5 DEF ScheduleSLACheck
  <2> QED
    BY <1>5, <2>1 DEF ScheduleSLACheck, AlertTypeOK, stockVars
<1>6. ASSUME NEW w \in Clerks, QueryFails(w)
      PROVE  AlertTypeOK' /\ UNCHANGED <<clerk, flagged, alerted>>
  <2>1. alertFaults' \in 0..AlertMaxFaults
    BY <1>6 DEF QueryFails, AlertFault, AlertTypeOK
  <2> QED
    BY <1>6, <2>1 DEF QueryFails, AlertTypeOK, slaVars, stockVars
<1> QED
  BY <1>1, <1>2, <1>3, <1>4, <1>5, <1>6

LEMMA AlertTypeCrash ==
    ASSUME AlertTypeOK, AlertCrash
    PROVE  AlertTypeOK'
<1>1. \A S \in SUBSET Clerks : Cardinality(S) \in Nat
  BY FS_Subset, FS_CardinalityType
<1>2. ticks' \in 0..MaxQueued
  <2> DEFINE k == Cardinality({w \in Clerks : clerk[w].job = "sla"})
  <2>1. k \in Nat /\ ticks \in 0..MaxQueued
    BY <1>1 DEF AlertTypeOK
  <2>2. ticks' = IF ticks + k > MaxQueued THEN MaxQueued ELSE ticks + k
    BY DEF AlertCrash
  <2> HIDE DEF k
  <2> QED
    BY <2>1, <2>2
<1>3. checks' \in [SkuSets -> 0..MaxQueued]
  <2> DEFINE k(S) == Cardinality({w \in {v \in Clerks : clerk[v].job = "stock"} : clerk[w].skus = S})
             n(S) == IF checks[S] + k(S) > MaxQueued THEN MaxQueued ELSE checks[S] + k(S)
  <2>1. checks' = [S \in SkuSets |-> n(S)]
    BY DEF AlertCrash
  <2>2. ASSUME NEW S \in SkuSets PROVE n(S) \in 0..MaxQueued
    <3>1. k(S) \in Nat /\ checks[S] \in 0..MaxQueued
      BY <1>1 DEF AlertTypeOK
    <3> HIDE DEF k
    <3> QED
      BY <3>1
  <2> HIDE DEF n
  <2> QED
    BY <2>1, <2>2
<1>4. clerk' \in [Clerks -> Jobs]
  BY JobTypes DEF AlertCrash
<1>5. untold' \subseteq Things
  <2>1. \A w \in Clerks : clerk[w].about \subseteq Things
    BY JobHas DEF AlertTypeOK
  <2> QED
    BY <2>1 DEF AlertCrash, AlertTypeOK
<1>6. /\ UNCHANGED <<ticket, overdue, level>> /\ flagged' \subseteq Tickets
      /\ alerted' \in [Tickets -> [Planners -> 0..2]] /\ warned' \in [Goods -> SUBSET Operators]
      /\ AlertFault
  BY DEF AlertCrash, AlertTypeOK
<1> QED
  BY <1>2, <1>3, <1>4, <1>5, <1>6, AlertTypeFold

\* Nobody is told twice, and only of a request that is flagged.
ToldOnce == \A q \in Tickets, p \in Planners : alerted[q][p] \in {0, 1} /\ (alerted[q][p] # 0 => q \in flagged)
Telling(w) == clerk[w].job = "sla" /\ clerk[w].left # {}
\* Who tells of a request tells of one that is flagged, and those who have not been told.
WorkIsSound(w) ==
    Telling(w) =>
        \E q \in flagged : clerk[w].about = {q} /\ \A p \in clerk[w].left : alerted[q][p] = 0
\* No two tell of the same request.
Apart == \A v, w \in Clerks : v # w /\ Telling(v) /\ Telling(w) => clerk[v].about # clerk[w].about

AlertInv == AlertTypeOK /\ ToldOnce /\ (\A w \in Clerks : WorkIsSound(w)) /\ Apart

LEMMA AlertTypeInit == AlertInit => AlertTypeOK
<1> SUFFICES ASSUME AlertInit PROVE AlertTypeOK
  OBVIOUS
<1>1. clerk \in [Clerks -> Jobs]
  BY JobTypes DEF AlertInit
<1> QED
  BY <1>1 DEF AlertInit, AlertTypeOK

LEMMA AlertInvInit == AlertInit => AlertInv
<1> SUFFICES ASSUME AlertInit PROVE AlertInv
  OBVIOUS
<1>1. \A w \in Clerks : clerk[w].job = "none"
  BY DEF AlertInit, Free
<1> QED
  BY <1>1, AlertTypeInit DEF AlertInit, AlertInv, ToldOnce, WorkIsSound, Apart, Telling

\* A job of stock:check, or one that tells nobody, harms nothing.
LEMMA TellersKept ==
    ASSUME AlertInv, AlertTypeOK', UNCHANGED <<flagged, alerted>>,
           \A w \in Clerks :
              clerk'[w] = clerk[w] \/ clerk'[w].job # "sla" \/ clerk'[w].left = {}
    PROVE  AlertInv'
<1>1. \A w \in Clerks : Telling(w)' => clerk'[w] = clerk[w] /\ Telling(w)
  BY DEF Telling
<1>2. Apart'
  BY <1>1 DEF AlertInv, Apart
<1>3. ToldOnce'
  BY DEF AlertInv, ToldOnce
<1>4. ASSUME NEW w \in Clerks PROVE WorkIsSound(w)'
  BY <1>1 DEF AlertInv, WorkIsSound
<1> QED
  BY <1>2, <1>3, <1>4 DEF AlertInv

\* What the types say of a clerk.
LEMMA ClerkFacts ==
    ASSUME AlertInv, NEW w \in Clerks
    PROVE  /\ AlertTypeOK
           /\ clerk \in [Clerks -> Jobs] /\ clerk[w] \in Jobs /\ ticks \in 0..MaxQueued
           /\ checks \in [SkuSets -> 0..MaxQueued] /\ untold \subseteq Things
           /\ flagged \subseteq Tickets /\ overdue \subseteq Tickets
           /\ alerted \in [Tickets -> [Planners -> 0..2]] /\ warned \in [Goods -> SUBSET Operators]
  BY DEF AlertInv, AlertTypeOK, Jobs

LEMMA AlertLists ==
    ASSUME AlertInv, NEW w \in Clerks, ListBreached(w)
    PROVE  AlertInv'
<1> DEFINE r == [SLAJob EXCEPT !.todo = Breached]
<1>1. Breached \subseteq Tickets
  BY ClerkFacts DEF Breached
<1>2. r \in Jobs /\ r.left = {}
  <2>1. SLAJob \in SLAJobs
    BY JobTypes, JobKinds
  <2>2. r \in SLAJobs
    BY <1>1, <2>1 DEF SLAJobs
  <2>3. r.left = {}
    BY DEF SLAJob, Free
  <2> QED
    BY <2>2, <2>3, JobKinds
<1>3. GoOn(w, r)
  BY DEF ListBreached
<1> HIDE DEF r
<1>4. /\ clerk' \in [Clerks -> Jobs] /\ clerk'[w].left = {}
      /\ \A v \in Clerks \ {w} : clerk'[v] = clerk[v]
  BY <1>2, <1>3, GoOnFacts, ClerkFacts
<1>5. /\ UNCHANGED <<ticket, overdue, level, flagged, alerted, warned, checks, untold, alertFaults>>
      /\ ticks' \in 0..MaxQueued
  BY ClerkFacts DEF ListBreached, stockVars
<1>6. AlertTypeOK'
  BY <1>4, <1>5, ClerkFacts, AlertTypeFold
<1> QED
  BY <1>4, <1>5, <1>6, TellersKept

\* The clerk goes on with a job of stock:check.
LEMMA AlertStockGoesOn ==
    ASSUME AlertInv, NEW w \in Clerks, NEW r \in Jobs, r.job = "stock", GoOn(w, r),
           UNCHANGED <<ticket, overdue, level, flagged, alerted, ticks>>,
           checks' \in [SkuSets -> 0..MaxQueued], warned' \in [Goods -> SUBSET Operators],
           untold' \subseteq Things, alertFaults' = alertFaults \/ AlertFault
    PROVE  AlertInv'
<1>1. /\ clerk' \in [Clerks -> Jobs] /\ clerk'[w].job # "sla"
      /\ \A v \in Clerks \ {w} : clerk'[v] = clerk[v]
  BY GoOnFacts, ClerkFacts
<1>2. AlertTypeOK'
  BY <1>1, ClerkFacts, AlertTypeFold
<1> QED
  BY <1>1, <1>2, TellersKept

LEMMA AlertStockWork ==
    ASSUME AlertInv, NEW w \in Clerks,
           NextLowSKU(w) \/ NotifyOperator(w) \/ \E S \in SkuSets : FindLowStock(w, S)
    PROVE  AlertInv'
<1>1. ASSUME NEW S \in SkuSets, FindLowStock(w, S) PROVE AlertInv'
  <2> DEFINE r == [StockJob(S) EXCEPT !.todo = {s \in S : Low(s)}]
  <2>1. S \subseteq Goods /\ {s \in S : Low(s)} \subseteq Goods
    BY DEF SkuSets
  <2>0. StockJob(S) \in StockJobs
    BY <2>1, JobTypes, JobKinds
  <2>2. r \in Jobs /\ r.job = "stock"
    <3>1. r \in StockJobs
      BY <2>0, <2>1 DEF StockJobs
    <3>2. r.job = "stock"
      BY DEF StockJob, Free
    <3> QED
      BY <3>1, <3>2, JobKinds
  <2>3. GoOn(w, r) /\ UNCHANGED <<ticket, overdue, level, flagged, alerted, ticks, warned, untold, alertFaults>>
        /\ checks' \in [SkuSets -> 0..MaxQueued]
    BY <1>1, ClerkFacts DEF FindLowStock, slaVars
  <2> HIDE DEF r
  <2> QED
    BY <2>2, <2>3, ClerkFacts, AlertStockGoesOn
<1>2. CASE NextLowSKU(w)
  <2>1. PICK s \in clerk[w].todo : GoOn(w, Begun(clerk[w], s, Operators))
    BY <1>2 DEF NextLowSKU
  <2>2. clerk[w].job = "stock" /\ clerk[w] \in Jobs
    BY <1>2, ClerkFacts DEF NextLowSKU
  <2>3. Begun(clerk[w], s, Operators) \in Jobs /\ Begun(clerk[w], s, Operators).job = "stock"
    BY <2>2, JobBegins
  <2>4. UNCHANGED <<ticket, overdue, level, flagged, alerted, ticks, warned, checks, untold, alertFaults>>
    BY <1>2 DEF NextLowSKU, slaVars, stockVars
  <2> QED
    BY <2>1, <2>3, <2>4, ClerkFacts, AlertStockGoesOn
<1>3. CASE NotifyOperator(w)
  <2>1. PICK o \in clerk[w].left :
          /\ GoOn(w, Told(clerk[w], o))
          /\ \/ /\ warned' = [s \in Goods |-> IF s \in clerk[w].about THEN warned[s] \cup {o} ELSE warned[s]]
                /\ UNCHANGED <<untold, alertFaults>>
             \/ AlertFault /\ untold' = untold \cup clerk[w].about /\ UNCHANGED warned
    BY <1>3 DEF NotifyOperator
  <2>2. clerk[w].job = "stock" /\ clerk[w] \in Jobs
    BY <1>3, ClerkFacts DEF NotifyOperator
  <2>3. o \in Operators /\ clerk[w].about \subseteq Things
    BY <2>2, JobHas
  <2>4. Told(clerk[w], o) \in Jobs /\ Told(clerk[w], o).job = "stock"
    BY <2>2, JobTells
  <2>5. UNCHANGED <<ticket, overdue, level, flagged, alerted, ticks, checks>>
    BY <1>3 DEF NotifyOperator, slaVars
  <2>6. /\ warned' \in [Goods -> SUBSET Operators] /\ untold' \subseteq Things
        /\ alertFaults' = alertFaults \/ AlertFault
    BY <2>1, <2>3, ClerkFacts
  <2> QED
    BY <2>1, <2>4, <2>5, <2>6, ClerkFacts, AlertStockGoesOn
<1> QED
  BY <1>1, <1>2, <1>3

LEMMA AlertFlags ==
    ASSUME AlertInv, NEW w \in Clerks, SetSLANotified(w)
    PROVE  AlertInv'
<1> DEFINE job == clerk[w]
<1>0. AlertTypeOK /\ job \in Jobs /\ job.job = "sla" /\ job.left = {} /\ job.todo \subseteq Tickets
  BY ClerkFacts, JobHas DEF SetSLANotified
<1>1. UNCHANGED <<ticket, overdue, level, alerted, ticks, warned, checks, untold>>
  BY DEF SetSLANotified, stockVars
<1> DEFINE u(q) == [job EXCEPT !.todo = @ \ {q}]
<1>2. PICK q \in job.todo :
        \/ /\ q \notin flagged /\ flagged' = flagged \cup {q} /\ UNCHANGED alertFaults
           /\ GoOn(w, Begun(job, q, Planners))
        \/ /\ GoOn(w, u(q)) /\ UNCHANGED flagged
           /\ alertFaults' = alertFaults \/ AlertFault
  BY DEF SetSLANotified
<1> DEFINE r == Begun(job, q, Planners)
<1>3. q \in Tickets
  BY <1>0
<1>4. r \in Jobs /\ r.job = "sla" /\ r.about = {q} /\ r.left = Planners
  BY <1>0, JobBegins
<1>5. u(q) \in Jobs /\ u(q).left = {}
  <2>1. job \in SLAJobs
    BY <1>0, JobKinds
  <2>2. u(q) \in SLAJobs /\ u(q).left = {}
    BY <1>0, <2>1 DEF SLAJobs
  <2> QED
    BY <2>2, JobKinds
<1> HIDE DEF r, u, job
<1>6. CASE q \notin flagged /\ flagged' = flagged \cup {q} /\ UNCHANGED alertFaults /\ GoOn(w, r)
  <2>1. /\ clerk' \in [Clerks -> Jobs] /\ \A v \in Clerks \ {w} : clerk'[v] = clerk[v]
        /\ Planners # {} => clerk'[w] = r
        /\ Planners = {} => clerk'[w].left = {}
    BY <1>0, <1>4, <1>6, GoOnFacts
  <2>2. AlertTypeOK'
    BY <1>0, <1>1, <1>3, <1>6, <2>1, ClerkFacts, AlertTypeFold
  <2>3. ToldOnce' /\ \A p \in Planners : alerted[q][p] = 0
    BY <1>1, <1>3, <1>6 DEF AlertInv, ToldOnce
  <2>4. ASSUME NEW v \in Clerks, v # w PROVE WorkIsSound(v)' /\ (Telling(v)' => clerk'[v].about # {q})
    <3>1. WorkIsSound(v) /\ clerk'[v] = clerk[v]
      BY <2>1, <2>4 DEF AlertInv
    <3> QED
      BY <1>1, <1>6, <3>1 DEF WorkIsSound, Telling
  <2>5. WorkIsSound(w)' /\ (Telling(w)' => clerk'[w].about = {q})
    BY <1>1, <1>4, <1>6, <2>1, <2>3 DEF WorkIsSound, Telling
  <2>6. Apart'
    <3>1. ASSUME NEW v \in Clerks, NEW x \in Clerks, v # x, v # w, x # w, Telling(v)', Telling(x)'
          PROVE  clerk'[v].about # clerk'[x].about
      BY <2>1, <3>1 DEF AlertInv, Apart, Telling
    <3> QED
      BY <2>4, <2>5, <3>1 DEF Apart
  <2> QED
    BY <2>2, <2>3, <2>4, <2>5, <2>6 DEF AlertInv
<1>7. CASE GoOn(w, u(q)) /\ (alertFaults' = alertFaults \/ AlertFault) /\ UNCHANGED flagged
  <2>1. /\ clerk' \in [Clerks -> Jobs] /\ \A v \in Clerks \ {w} : clerk'[v] = clerk[v]
        /\ clerk'[w].left = {}
    BY <1>0, <1>4, <1>5, <1>7, GoOnFacts
  <2>2. AlertTypeOK'
    BY <1>0, <1>1, <1>7, <2>1, ClerkFacts, AlertTypeFold
  <2> QED
    BY <1>1, <1>7, <2>1, <2>2, TellersKept
<1> QED
  BY <1>2, <1>6, <1>7 DEF r

LEMMA AlertTells ==
    ASSUME AlertInv, NEW w \in Clerks, NotifyPlanner(w)
    PROVE  AlertInv'
<1> DEFINE job == clerk[w]
<1>0. AlertTypeOK /\ job \in Jobs /\ job.job = "sla" /\ job.left \subseteq Planners /\ job.about \subseteq Things
  BY ClerkFacts, JobHas DEF NotifyPlanner
<1>1. UNCHANGED <<ticket, overdue, level, flagged, ticks, warned, checks>>
  BY DEF NotifyPlanner, stockVars
<1>2. PICK p \in job.left :
        /\ GoOn(w, Told(job, p))
        /\ \/ /\ alerted' = [q \in Tickets |-> IF q \in job.about /\ alerted[q][p] < 2
                                THEN [alerted[q] EXCEPT ![p] = @ + 1] ELSE alerted[q]]
              /\ UNCHANGED <<untold, alertFaults>>
           \/ AlertFault /\ untold' = untold \cup job.about /\ UNCHANGED alerted
  BY DEF NotifyPlanner
<1>3. PICK q \in flagged : job.about = {q} /\ \A x \in job.left : alerted[q][x] = 0
  BY <1>0, <1>2 DEF AlertInv, WorkIsSound, Telling
<1>4. q \in Tickets /\ p \in Planners
  BY <1>0, <1>2, <1>3, ClerkFacts
<1> DEFINE l == job.left \ {p}
           r == Told(job, p)
<1>5. r \in Jobs
  BY <1>0, JobTells
<1>6. r.job = "sla" /\ r.about = {q} /\ r.left = l /\ GoOn(w, r)
  BY <1>0, <1>2, <1>3, JobTells
<1> HIDE DEF r
<1>7. /\ clerk' \in [Clerks -> Jobs] /\ \A v \in Clerks \ {w} : clerk'[v] = clerk[v]
      /\ l # {} => clerk'[w] = r
      /\ l = {} => clerk'[w].left = {}
  BY <1>0, <1>5, <1>6, GoOnFacts
<1>8. /\ \A x \in Tickets, y \in Planners : x # q \/ y # p => alerted'[x][y] = alerted[x][y]
      /\ alerted'[q][p] \in {0, 1} /\ alerted' \in [Tickets -> [Planners -> 0..2]]
  <2>1. alerted \in [Tickets -> [Planners -> 0..2]] /\ alerted[q][p] = 0
    BY <1>2, <1>3, ClerkFacts
  <2>2. CASE UNCHANGED alerted
    BY <1>4, <2>1, <2>2
  <2>3. CASE alerted' = [x \in Tickets |-> IF x \in job.about /\ alerted[x][p] < 2
                            THEN [alerted[x] EXCEPT ![p] = @ + 1] ELSE alerted[x]]
    <3>1. alerted'[q] = [alerted[q] EXCEPT ![p] = 1]
      <4>1. q \in job.about /\ alerted[q][p] < 2
        BY <1>3, <2>1
      <4>2. alerted'[q] = [alerted[q] EXCEPT ![p] = @ + 1]
        BY <1>4, <2>3, <4>1
      <4> QED
        BY <1>4, <2>1, <4>2
    <3>2. \A x \in Tickets \ {q} : alerted'[x] = alerted[x]
      BY <1>3, <2>3
    <3>3. [alerted[q] EXCEPT ![p] = 1] \in [Planners -> 0..2]
      BY <1>4, <2>1
    <3>4. \A x \in Tickets : alerted'[x] \in [Planners -> 0..2]
      BY <2>1, <3>1, <3>2, <3>3
    <3>5. alerted' \in [Tickets -> [Planners -> 0..2]]
      BY <2>3, <3>4
    <3> QED
      BY <1>4, <2>1, <3>1, <3>2, <3>5
  <2> QED
    BY <1>2, <2>2, <2>3
<1>9. untold' \subseteq Things /\ (alertFaults' = alertFaults \/ AlertFault)
  BY <1>0, <1>2, ClerkFacts
<1>10. AlertTypeOK'
  BY <1>0, <1>1, <1>7, <1>8, <1>9, ClerkFacts, AlertTypeFold
<1>11. ToldOnce'
  BY <1>1, <1>3, <1>8 DEF AlertInv, ToldOnce
<1>12. ASSUME NEW v \in Clerks, v # w PROVE WorkIsSound(v)' /\ (Telling(v)' => clerk'[v].about # {q})
  <2>1. WorkIsSound(v) /\ clerk'[v] = clerk[v] /\ Telling(w)
    BY <1>0, <1>2, <1>7, <1>12 DEF AlertInv, Telling
  <2>2. Telling(v) => clerk[v].about # {q}
    BY <1>3, <1>12, <2>1 DEF AlertInv, Apart
  <2>3. Telling(v) => clerk[v].left \subseteq Planners
    BY ClerkFacts, JobHas DEF Telling
  <2> QED
    BY <1>1, <1>8, <2>1, <2>2, <2>3, ClerkFacts DEF WorkIsSound, Telling
<1>13. WorkIsSound(w)' /\ (Telling(w)' => clerk'[w].about = {q})
  BY <1>0, <1>1, <1>3, <1>4, <1>6, <1>7, <1>8 DEF WorkIsSound, Telling
<1>14. Apart'
  <2>1. ASSUME NEW v \in Clerks, NEW x \in Clerks, v # x, v # w, x # w, Telling(v)', Telling(x)'
        PROVE  clerk'[v].about # clerk'[x].about
    BY <1>7, <2>1 DEF AlertInv, Apart, Telling
  <2> QED
    BY <1>12, <1>13, <2>1 DEF Apart
<1> QED
  BY <1>10, <1>11, <1>12, <1>13, <1>14 DEF AlertInv

LEMMA AlertInvNext == AlertInv /\ [AlertNext]_alertVars => AlertInv'
<1> SUFFICES ASSUME AlertInv, [AlertNext]_alertVars PROVE AlertInv'
  OBVIOUS
<1>0. AlertTypeOK
  BY DEF AlertInv
<1>1. CASE UNCHANGED alertVars
  <2>1. AlertTypeOK' /\ UNCHANGED <<flagged, alerted, clerk>>
    BY <1>0, <1>1 DEF alertVars, AlertTypeOK
  <2> QED
    BY <2>1, TellersKept
<1>2. CASE AlertCrash
  <2>1. AlertTypeOK' /\ UNCHANGED <<flagged, alerted>> /\ \A w \in Clerks : clerk'[w].left = {}
    BY <1>0, <1>2, AlertTypeCrash, JobTypes DEF AlertCrash
  <2> QED
    BY <2>1, TellersKept
<1>3. CASE \/ \E q \in Tickets : DeadlinePasses(q) \/ \E s \in {"pending", "processing", "closed"} : TicketMoves(q, s)
           \/ \E s \in Goods, n \in 0..MaxLevel : LevelChanges(s, n)
           \/ \E S \in SkuSets : StockCheckIsDue(S)
           \/ ScheduleSLACheck
           \/ \E w \in Clerks : QueryFails(w)
  <2>1. AlertTypeOK' /\ UNCHANGED <<clerk, flagged, alerted>>
    BY <1>0, <1>3, AlertTypeAround
  <2> QED
    BY <2>1, TellersKept
<1>4. ASSUME NEW w \in Clerks, ClerkWorks(w) PROVE AlertInv'
  BY <1>4, AlertLists, AlertFlags, AlertTells, AlertStockWork DEF ClerkWorks
<1> QED
  BY <1>1, <1>2, <1>3, <1>4 DEF AlertNext

LEMMA AlertsCorrect == AlertSpec => []AlertInv
<1> QED
  BY AlertInvInit, AlertInvNext, PTL DEF AlertSpec

\* However many sla:check jobs overlap, fail or run again, no planner is told twice of
\* a request: the flag is set by compare-and-set before anybody is told.
THEOREM PlannersAreToldOnce == AlertSpec => []AlertedOnce
<1>1. AlertInv => AlertedOnce
  BY DEF AlertInv, ToldOnce, AlertedOnce
<1> QED
  BY <1>1, AlertsCorrect, PTL

\* Whoever is to be told of a flagged request has been told, is on a clerk's list, or
\* the alert was lost.
AlertIsCarried ==
    \A q \in flagged, p \in Planners :
        \/ q \in untold \/ alerted[q][p] > 0
        \/ \E w \in Clerks : clerk[w].job = "sla" /\ clerk[w].about = {q} /\ p \in clerk[w].left

\* Nothing is taken from a list, and nothing else flagged.
LEMMA AlertStaysCarried ==
    ASSUME AlertIsCarried, UNCHANGED <<flagged, alerted>>, untold \subseteq untold',
           \A w \in Clerks : clerk[w].job = "sla" /\ clerk[w].left # {} =>
              clerk'[w] = clerk[w] \/ clerk[w].about \subseteq untold'
    PROVE  AlertIsCarried'
<1> SUFFICES ASSUME NEW q \in flagged, NEW p \in Planners, q \notin untold', ~(alerted[q][p] > 0)
             PROVE  \E w \in Clerks : clerk'[w].job = "sla" /\ clerk'[w].about = {q} /\ p \in clerk'[w].left
  BY DEF AlertIsCarried
<1>1. PICK w \in Clerks : \/ alerted[q][p] > 0
                          \/ clerk[w].job = "sla" /\ clerk[w].about = {q} /\ p \in clerk[w].left
  BY DEF AlertIsCarried
<1> QED
  BY <1>1

LEMMA AlertIsCarriedNext == AlertInv /\ AlertIsCarried /\ [AlertNext]_alertVars => AlertIsCarried'
<1> SUFFICES ASSUME AlertInv, AlertIsCarried, [AlertNext]_alertVars PROVE AlertIsCarried'
  OBVIOUS
<1>0. AlertTypeOK
  BY DEF AlertInv
<1>1. CASE UNCHANGED alertVars
  BY <1>1, AlertStaysCarried DEF alertVars
<1>2. CASE AlertCrash
  <2>1. UNCHANGED <<flagged, alerted>>
        /\ untold' = untold \cup UNION {clerk[w].about : w \in {v \in Clerks : clerk[v].job = "sla"}}
    BY <1>2 DEF AlertCrash
  <2>2. \A w \in Clerks : clerk[w].job = "sla" => clerk[w].about \subseteq untold'
    BY <2>1
  <2> QED
    BY <2>1, <2>2, AlertStaysCarried
<1>3. CASE \/ \E q \in Tickets : DeadlinePasses(q) \/ \E s \in {"pending", "processing", "closed"} : TicketMoves(q, s)
           \/ \E s \in Goods, n \in 0..MaxLevel : LevelChanges(s, n)
           \/ \E S \in SkuSets : StockCheckIsDue(S)
           \/ ScheduleSLACheck
           \/ \E w \in Clerks : QueryFails(w)
  <2>1. UNCHANGED <<flagged, alerted, clerk, untold>>
    BY <1>3 DEF DeadlinePasses, TicketMoves, LevelChanges, StockCheckIsDue, ScheduleSLACheck, QueryFails, slaVars
  <2> QED
    BY <2>1, AlertStaysCarried
<1>4. ASSUME NEW w \in Clerks, \/ ListBreached(w) \/ NextLowSKU(w) \/ NotifyOperator(w)
                              \/ \E S \in SkuSets : FindLowStock(w, S)
      PROVE  AlertIsCarried'
  <2>1. UNCHANGED <<flagged, alerted>> /\ untold \subseteq untold' /\ \A v \in Clerks \ {w} : clerk'[v] = clerk[v]
    <3>1. \A r : GoOn(w, r) => \A v \in Clerks \ {w} : clerk'[v] = clerk[v]
      BY <1>0 DEF GoOn, AlertTypeOK
    <3> QED
      BY <1>4, <3>1 DEF ListBreached, NextLowSKU, NotifyOperator, FindLowStock, slaVars, stockVars
  <2>2. clerk[w].job # "sla"
    <3>1. ListBreached(w) \/ (\E S \in SkuSets : FindLowStock(w, S)) => clerk[w] = Free
      BY DEF ListBreached, FindLowStock
    <3>2. NextLowSKU(w) \/ NotifyOperator(w) => clerk[w].job = "stock"
      BY DEF NextLowSKU, NotifyOperator
    <3> QED
      BY <1>4, <3>1, <3>2 DEF Free
  <2> QED
    BY <2>1, <2>2, AlertStaysCarried
<1>5. ASSUME NEW w \in Clerks, SetSLANotified(w) PROVE AlertIsCarried'
  <2> DEFINE job == clerk[w]
             u(q) == [job EXCEPT !.todo = @ \ {q}]
  <2>1. /\ job \in Jobs /\ job.job = "sla" /\ job.left = {} /\ UNCHANGED <<alerted, untold>>
        /\ \A v \in Clerks \ {w} : clerk'[v] = clerk[v]
    BY <1>5, ClerkFacts DEF SetSLANotified, GoOn
  <2>2. PICK q \in job.todo :
          \/ flagged' = flagged \cup {q} /\ GoOn(w, Begun(job, q, Planners))
          \/ GoOn(w, u(q)) /\ UNCHANGED flagged
    BY <1>5 DEF SetSLANotified
  <2> DEFINE r == Begun(job, q, Planners)
  <2>3. r \in Jobs /\ r.job = "sla" /\ r.about = {q} /\ r.left = Planners
    BY <2>1, JobBegins
  <2> HIDE DEF r, u
  <2>4. ASSUME GoOn(w, u(q)), UNCHANGED flagged PROVE AlertIsCarried'
    BY <2>1, <2>4, AlertStaysCarried
  <2>5. ASSUME flagged' = flagged \cup {q}, GoOn(w, r) PROVE AlertIsCarried'
    <3>1. Planners # {} => clerk'[w] = r
      BY <1>0, <2>3, <2>5, GoOnFacts
    <3>2. ASSUME NEW p \in Planners
          PROVE  clerk'[w].job = "sla" /\ clerk'[w].about = {q} /\ p \in clerk'[w].left
      BY <2>3, <3>1
    <3>3. ASSUME NEW x \in flagged, NEW p \in Planners
          PROVE  \/ x \in untold \/ alerted[x][p] > 0
                 \/ \E v \in Clerks : clerk'[v].job = "sla" /\ clerk'[v].about = {x} /\ p \in clerk'[v].left
      BY <2>1 DEF AlertIsCarried
    <3> QED
      BY <2>1, <2>5, <3>2, <3>3 DEF AlertIsCarried
  <2> QED
    BY <2>2, <2>4, <2>5 DEF r
<1>6. ASSUME NEW w \in Clerks, NotifyPlanner(w) PROVE AlertIsCarried'
  <2> DEFINE job == clerk[w]
  <2>1. /\ job \in Jobs /\ job.job = "sla" /\ job.left \subseteq Planners /\ UNCHANGED flagged
        /\ alerted \in [Tickets -> [Planners -> 0..2]] /\ flagged \subseteq Tickets
    BY <1>6, ClerkFacts, JobHas DEF NotifyPlanner
  <2>2. PICK p \in job.left :
          /\ GoOn(w, Told(job, p))
          /\ \/ /\ alerted' = [q \in Tickets |-> IF q \in job.about /\ alerted[q][p] < 2
                                  THEN [alerted[q] EXCEPT ![p] = @ + 1] ELSE alerted[q]]
                /\ UNCHANGED untold
             \/ untold' = untold \cup job.about /\ UNCHANGED alerted
    BY <1>6 DEF NotifyPlanner
  <2>3. p \in Planners
    BY <2>1
  <2> DEFINE r == Told(job, p)
  <2>4. r \in Jobs /\ r.job = "sla" /\ r.about = job.about /\ r.left = job.left \ {p}
    BY <2>1, JobTells
  <2> HIDE DEF r
  <2>5. /\ \A v \in Clerks \ {w} : clerk'[v] = clerk[v]
        /\ job.left \ {p} # {} => clerk'[w] = r
    BY <1>0, <2>2, <2>4, GoOnFacts DEF r
  <2>6. ASSUME NEW q \in flagged, NEW x \in Planners, alerted[q][x] > 0 PROVE alerted'[q][x] > 0
    <3>1. q \in Tickets /\ alerted[q] \in [Planners -> 0..2]
      BY <2>1
    <3>2. CASE alerted' = alerted
      BY <2>6, <3>2
    <3>3. CASE alerted' = [y \in Tickets |-> IF y \in job.about /\ alerted[y][p] < 2
                              THEN [alerted[y] EXCEPT ![p] = @ + 1] ELSE alerted[y]]
      <4>1. alerted'[q] = alerted[q] \/ alerted'[q] = [alerted[q] EXCEPT ![p] = @ + 1]
        BY <3>1, <3>3
      <4> QED
        BY <2>3, <2>6, <3>1, <4>1
    <3> QED
      BY <2>2, <3>2, <3>3
  <2>7. ASSUME NEW q \in flagged, job.about = {q} PROVE q \in untold' \/ alerted'[q][p] > 0
    <3>1. q \in Tickets /\ alerted[q] \in [Planners -> 0..2] /\ alerted[q][p] \in 0..2
      BY <2>1, <2>3
    <3>2. CASE untold' = untold \cup job.about
      BY <2>7, <3>2
    <3>3. CASE alerted' = [y \in Tickets |-> IF y \in job.about /\ alerted[y][p] < 2
                              THEN [alerted[y] EXCEPT ![p] = @ + 1] ELSE alerted[y]]
      <4>1. alerted'[q] = IF alerted[q][p] < 2 THEN [alerted[q] EXCEPT ![p] = @ + 1] ELSE alerted[q]
        BY <2>7, <3>1, <3>3
      <4> QED
        BY <2>3, <3>1, <4>1
    <3> QED
      BY <2>2, <3>2, <3>3
  <2>8. untold \subseteq untold'
    BY <2>2
  <2>9. ASSUME NEW q \in flagged, NEW x \in Planners
        PROVE  \/ q \in untold' \/ alerted'[q][x] > 0
               \/ \E v \in Clerks : clerk'[v].job = "sla" /\ clerk'[v].about = {q} /\ x \in clerk'[v].left
    <3>1. CASE q \in untold \/ alerted[q][x] > 0
      BY <2>6, <2>8, <3>1
    <3>2. ASSUME NEW v \in Clerks, clerk[v].job = "sla", clerk[v].about = {q}, x \in clerk[v].left
          PROVE  \/ q \in untold' \/ alerted'[q][x] > 0
                 \/ \E y \in Clerks : clerk'[y].job = "sla" /\ clerk'[y].about = {q} /\ x \in clerk'[y].left
      <4>1. CASE v # w
        BY <2>5, <3>2, <4>1
      <4>2. CASE v = w /\ x = p
        BY <2>7, <3>2, <4>2
      <4>3. CASE v = w /\ x # p
        <5>1. clerk'[w] = r /\ x \in r.left
          BY <2>4, <2>5, <3>2, <4>3
        <5> QED
          BY <2>4, <3>2, <4>3, <5>1
      <4> QED
        BY <4>1, <4>2, <4>3
    <3> QED
      BY <3>1, <3>2 DEF AlertIsCarried
  <2> QED
    BY <2>1, <2>9 DEF AlertIsCarried
<1> QED
  BY <1>1, <1>2, <1>3, <1>4, <1>5, <1>6 DEF AlertNext, ClerkWorks

\* Whatever jobs overlap, fail or stop, no planner is forgotten about a request whose
\* flag is set, although the flag keeps later ticks from finding the request again: the
\* rest is told, on the list of a clerk, or lost to an error or a crash.
THEOREM FlaggedAreCarried == AlertSpec => []AlertIsCarried
<1>1. AlertInit => AlertIsCarried
  BY DEF AlertInit, AlertIsCarried
<1> QED
  BY <1>1, AlertsCorrect, AlertIsCarriedNext, PTL DEF AlertSpec

-------------------------------------------------------------------------------
(* Visitors *)

USE DaysAssumption, MaxAnswersAssumption

\* A request that will record an event was let through by the visitor's consent.
ConsentHeld == \A h \in Hits :
    hit[h].at \in {"stamp", "insert"} /\ ~hit[h].passed => consent[hit[h].by] = "granted"

\* A rollup counts a day that is over.
RollupsArePast ==
    /\ rollups > 0 => today > 1
    /\ \A w \in Crunchers : cruncher[w].at # "idle" => cruncher[w].day < today

VisitInv == VisTypeOK /\ ConsentHeld /\ RollupsArePast

\* The states of a request, one kind at a time.
LEMMA HitFacts ==
    ASSUME VisTypeOK, NEW h \in Hits
    PROVE  /\ hit[h] \in {NotYet, Over} => hit[h].at \in {"new", "over"}
           /\ hit[h] \notin {NotYet, Over} =>
                /\ hit[h].at \in {"stamp", "insert"} /\ hit[h].by \in People
                /\ hit[h].passed \in BOOLEAN
                /\ hit[h].at = "insert" => hit[h].day \in 1..Days
                /\ [hit[h] EXCEPT !.passed = TRUE] \in HitStates
                /\ [hit[h] EXCEPT !.passed = TRUE].at = hit[h].at
                /\ [hit[h] EXCEPT !.passed = TRUE].by = hit[h].by
                /\ [hit[h] EXCEPT !.passed = TRUE].passed
<1> DEFINE Stamps == [at : {"stamp"}, by : People, passed : BOOLEAN]
           Inserts == [at : {"insert"}, by : People, passed : BOOLEAN, day : 1..Days]
<1>1. hit[h] \in HitStates /\ Stamps \subseteq HitStates /\ Inserts \subseteq HitStates
  BY DEF VisTypeOK, HitStates
<1>2. CASE hit[h] \in {NotYet, Over}
  BY <1>2 DEF NotYet, Over
<1>3. CASE hit[h] \in Stamps
  <2>1. [hit[h] EXCEPT !.passed = TRUE] \in Stamps
    BY <1>3
  <2> QED
    BY <1>1, <1>3, <2>1 DEF NotYet, Over
<1>4. CASE hit[h] \in Inserts
  <2>1. [hit[h] EXCEPT !.passed = TRUE] \in Inserts
    BY <1>4
  <2> QED
    BY <1>1, <1>4, <2>1 DEF NotYet, Over
<1> QED
  BY <1>1, <1>2, <1>3, <1>4 DEF HitStates

LEMMA CruncherFacts ==
    ASSUME VisitInv, NEW w \in Crunchers
    PROVE  /\ VisTypeOK /\ cruncher \in [Crunchers -> Runs \cup {FreeCruncher}]
           /\ cruncher[w].at = "idle" <=> cruncher[w] = FreeCruncher
           /\ cruncher[w].at # "idle" =>
                /\ cruncher[w].at \in Metrics /\ cruncher[w].day \in 1..Days
                /\ cruncher[w].day < today /\ cruncher[w] \in Runs
<1>1. VisTypeOK /\ cruncher \in [Crunchers -> Runs \cup {FreeCruncher}]
  BY DEF VisitInv, VisTypeOK
<1>2. CASE cruncher[w] = FreeCruncher
  BY <1>1, <1>2 DEF FreeCruncher
<1>3. CASE cruncher[w] \in Runs
  BY <1>1, <1>3 DEF Runs, Metrics, FreeCruncher, VisitInv, RollupsArePast
<1> QED
  BY <1>1, <1>2, <1>3

LEMMA CountIsNat ==
    ASSUME VisTypeOK, NEW d, NEW m \in Metrics
    PROVE  Count(d, m) \in Nat
<1>1. IsFiniteSet(events)
  BY DEF VisTypeOK
<1>2. \A kind : Cardinality(Of(d, kind)) \in Nat
  <2> SUFFICES ASSUME NEW kind PROVE Cardinality(Of(d, kind)) \in Nat
    OBVIOUS
  <2>1. Of(d, kind) \subseteq events
    BY DEF Of
  <2> QED
    BY <1>1, <2>1, FS_Subset, FS_CardinalityType
<1>3. Cardinality({e.by : e \in {x \in events : x.day = d}}) \in Nat
  <2> DEFINE S == {x \in events : x.day = d}
             T == {e.by : e \in S}
             f == [e \in S |-> e.by]
  <2>1. IsFiniteSet(S)
    BY <1>1, FS_Subset
  <2>2. f \in Surjection(S, T)
    BY DEF Surjection
  <2> HIDE DEF S, T, f
  <2>3. IsFiniteSet(T)
    BY <2>1, <2>2, FS_Surjection
  <2>4. Cardinality(T) \in Nat
    BY <2>3, FS_CardinalityType
  <2> QED
    BY <2>4 DEF T, S
<1>4. m = "pageviews" \/ m = "events" \/ m = "visitors"
  BY DEF Metrics
<1> QED
  BY <1>2, <1>3, <1>4 DEF Count

LEMMA VisitInvInit == VisInit => VisitInv
<1> SUFFICES ASSUME VisInit PROVE VisitInv
  OBVIOUS
<1>1. hit \in [Hits -> HitStates] /\ \A h \in Hits : hit[h].at = "new"
  BY DEF VisInit, HitStates, NotYet
<1>2. IsFiniteSet(events) /\ events \subseteq Event
  BY FS_EmptySet DEF VisInit
<1>3. VisTypeOK
  BY <1>1, <1>2 DEF VisInit, VisTypeOK
<1>4. ConsentHeld
  BY <1>1 DEF ConsentHeld
<1>5. RollupsArePast
  BY DEF VisInit, RollupsArePast, FreeCruncher
<1> QED
  BY <1>3, <1>4, <1>5 DEF VisitInv

LEMMA VisitHits ==
    ASSUME VisitInv,
           \/ \E v \in People, a \in Answers : RecordConsent(v, a)
           \/ \E h \in Hits, v \in People : CheckConsent(h, v)
           \/ \E h \in Hits : Stamp(h) \/ \E kind \in {"pageview", "event"} : Insert(h, kind)
    PROVE  VisitInv'
<1>0. VisTypeOK /\ NotYet \in HitStates /\ Over \in HitStates /\ ConsentHeld /\ RollupsArePast
  BY DEF VisitInv, HitStates
<1>1. ASSUME NEW v \in People, NEW a \in Answers, RecordConsent(v, a) PROVE VisitInv'
  <2>1. hit' \in [Hits -> HitStates]
    <3>1. \A h \in Hits : hit[h] \in HitStates
      BY <1>0 DEF VisTypeOK
    <3> QED
      BY <1>0, <1>1, <3>1, HitFacts DEF RecordConsent
  <2>2. VisTypeOK'
    <3>1. UNCHANGED <<events, today, rollups, cruncher, daily, begun, missed, visFaults>>
      BY <1>1 DEF RecordConsent, rollupVars
    <3>2. consent' \in [People -> Answers \cup {"none"}] /\ answers' \in [People -> 0..MaxAnswers]
      <4>1. consent \in [People -> Answers \cup {"none"}] /\ answers \in [People -> 0..MaxAnswers]
        BY <1>0 DEF VisTypeOK
      <4>2. /\ consent' = [consent EXCEPT ![v] = a]
            /\ answers' = [answers EXCEPT ![v] = @ + 1] /\ answers[v] < MaxAnswers
        BY <1>1 DEF RecordConsent
      <4>3. consent' \in [People -> Answers \cup {"none"}]
        BY <4>1, <4>2
      <4>4. answers' \in [People -> 0..MaxAnswers]
        <5>1. answers[v] + 1 \in 0..MaxAnswers
          BY <4>1, <4>2
        <5> QED
          BY <4>1, <4>2, <5>1
      <4> QED
        BY <4>3, <4>4
    <3> QED
      BY <1>0, <2>1, <3>1, <3>2 DEF VisTypeOK
  <2>3. ConsentHeld'
    <3> SUFFICES ASSUME NEW h \in Hits, hit'[h].at \in {"stamp", "insert"}, ~hit'[h].passed
                 PROVE  consent'[hit'[h].by] = "granted"
      BY DEF ConsentHeld
    <3>1. hit[h] \notin {NotYet, Over} /\ hit'[h] = hit[h] /\ hit[h].by # v
      BY <1>0, <1>1, HitFacts DEF RecordConsent
    <3> QED
      BY <1>0, <1>1, <3>1, HitFacts DEF RecordConsent, ConsentHeld, VisTypeOK
  <2>4. RollupsArePast'
    BY <1>0, <1>1 DEF RecordConsent, RollupsArePast, rollupVars
  <2> QED
    BY <2>2, <2>3, <2>4 DEF VisitInv
<1>2. ASSUME NEW h \in Hits, NEW r \in HitStates, hit' = [hit EXCEPT ![h] = r],
             \/ r = Over
             \/ r.at = "stamp" /\ r.by \in People /\ consent[r.by] = "granted"
             \/ /\ r.at = "insert" /\ hit[h].at = "stamp"
                /\ r.by = hit[h].by /\ r.passed = hit[h].passed,
             UNCHANGED <<consent, answers, rollupVars>>,
             events' \subseteq Event, IsFiniteSet(events'), missed' \subseteq 0..Days,
             visFaults' \in 0..VisMaxFaults
      PROVE  VisitInv'
  <2>1. hit' \in [Hits -> HitStates] /\ hit'[h] = r /\ \A x \in Hits \ {h} : hit'[x] = hit[x]
    BY <1>0, <1>2 DEF VisTypeOK
  <2>2. VisTypeOK'
    BY <1>0, <1>2, <2>1 DEF VisTypeOK, rollupVars
  <2>3. ConsentHeld'
    <3>1. r.at \in {"stamp", "insert"} /\ ~r.passed => consent[r.by] = "granted"
      BY <1>0, <1>2 DEF ConsentHeld, Over
    <3> QED
      BY <1>0, <1>2, <2>1, <3>1 DEF ConsentHeld
  <2>4. RollupsArePast'
    BY <1>0, <1>2 DEF RollupsArePast, rollupVars
  <2> QED
    BY <2>2, <2>3, <2>4 DEF VisitInv
<1>3. ASSUME NEW h \in Hits, NEW v \in People, CheckConsent(h, v) PROVE VisitInv'
  <2> DEFINE r == IF consent[v] = "granted" THEN [at |-> "stamp", by |-> v, passed |-> FALSE] ELSE Over
  <2>1. r \in HitStates /\ (r = Over \/ (r.at = "stamp" /\ r.by \in People /\ consent[r.by] = "granted"))
    BY <1>0 DEF HitStates
  <2>2. hit' = [hit EXCEPT ![h] = r]
    BY <1>3 DEF CheckConsent
  <2>3. /\ UNCHANGED <<consent, answers, rollupVars>>
        /\ events' \subseteq Event /\ IsFiniteSet(events') /\ missed' \subseteq 0..Days
        /\ visFaults' \in 0..VisMaxFaults
    BY <1>0, <1>3 DEF CheckConsent, VisTypeOK
  <2> HIDE DEF r
  <2> QED
    BY <1>2, <2>1, <2>2, <2>3
<1>4. ASSUME NEW h \in Hits, Stamp(h) PROVE VisitInv'
  <2> DEFINE r == [at |-> "insert", by |-> hit[h].by, passed |-> hit[h].passed, day |-> today]
  <2>1. hit[h].at = "stamp" /\ hit[h].by \in People /\ hit[h].passed \in BOOLEAN /\ today \in 1..Days
    <3>1. hit[h].at = "stamp" /\ hit[h] \notin {NotYet, Over}
      BY <1>4 DEF Stamp, NotYet, Over
    <3> QED
      BY <1>0, <3>1, HitFacts DEF VisTypeOK
  <2>2. r \in HitStates
    BY <2>1 DEF HitStates
  <2>3. r.at = "insert" /\ r.by = hit[h].by /\ r.passed = hit[h].passed
    OBVIOUS
  <2>4. hit' = [hit EXCEPT ![h] = r]
    BY <1>4 DEF Stamp
  <2>5. /\ UNCHANGED <<consent, answers, rollupVars>>
        /\ events' \subseteq Event /\ IsFiniteSet(events') /\ missed' \subseteq 0..Days
        /\ visFaults' \in 0..VisMaxFaults
    BY <1>0, <1>4 DEF Stamp, VisTypeOK
  <2> HIDE DEF r
  <2> QED
    BY <1>2, <2>1, <2>2, <2>3, <2>4, <2>5
<1>5. ASSUME NEW h \in Hits, NEW kind \in {"pageview", "event"}, Insert(h, kind) PROVE VisitInv'
  <2> DEFINE r == hit[h]
             e == [hit |-> h, by |-> r.by, kind |-> kind, day |-> r.day]
  <2>1. r.by \in People /\ r.day \in 1..Days
    <3>1. r.at = "insert" /\ r \notin {NotYet, Over}
      BY <1>5 DEF Insert, NotYet, Over
    <3> QED
      BY <1>0, <3>1, HitFacts
  <2>2. e \in Event
    BY <2>1 DEF Event
  <2>3. /\ hit' = [hit EXCEPT ![h] = Over] /\ UNCHANGED <<consent, answers, rollupVars>>
        /\ events' = events \/ events' = events \cup {e}
        /\ missed' = missed \/ missed' = missed \cup {r.day}
        /\ visFaults' = visFaults \/ VisFault
    BY <1>5 DEF Insert
  <2> HIDE DEF e, r
  <2>0. events \subseteq Event /\ missed \subseteq 0..Days /\ IsFiniteSet(events)
    BY <1>0 DEF VisTypeOK
  <2>4. events' \subseteq Event /\ missed' \subseteq 0..Days
    <3>1. r.day \in 0..Days
      BY <2>1
    <3> QED
      BY <2>0, <2>2, <2>3, <3>1
  <2>5. IsFiniteSet(events')
    <3>1. IsFiniteSet(events \cup {e})
      BY <2>0, FS_AddElement
    <3> QED
      BY <2>0, <2>3, <3>1
  <2>6. visFaults' \in 0..VisMaxFaults
    BY <1>0, <2>3 DEF VisTypeOK, VisFault
  <2> QED
    BY <1>0, <1>2, <2>3, <2>4, <2>5, <2>6
<1> QED
  BY <1>1, <1>3, <1>4, <1>5

\* What the rollup does leaves the requests and the events alone.
LEMMA VisitQuiet ==
    ASSUME VisitInv, UNCHANGED <<consent, answers, hit, events>>, today' \in 1..Days, rollups' \in Nat,
           cruncher' \in [Crunchers -> Runs \cup {FreeCruncher}],
           daily' \in [1..Days -> [Metrics -> Nat]],
           begun' \subseteq 1..Days, missed' \subseteq 0..Days, visFaults' \in 0..VisMaxFaults,
           RollupsArePast'
    PROVE  VisitInv'
  BY DEF VisitInv, VisTypeOK, ConsentHeld

LEMMA VisitDays ==
    ASSUME VisitInv, NextDay
    PROVE  VisitInv'
<1>0. VisTypeOK /\ RollupsArePast /\ today \in 1..Days /\ rollups \in Nat
  BY DEF VisitInv, VisTypeOK
<1>1. /\ UNCHANGED <<consent, answers, hit, events, cruncher, daily, begun>> /\ today' = today + 1
      /\ today < Days /\ rollups' \in Nat
  BY <1>0 DEF NextDay
<1>2. missed' \subseteq 0..Days
  <2>1. today - 1 \in 0..Days /\ today \in 0..Days /\ missed \subseteq 0..Days
    BY <1>0 DEF VisTypeOK
  <2> QED
    BY <2>1 DEF NextDay
<1>3. visFaults' \in 0..VisMaxFaults
  BY <1>0 DEF NextDay, VisFault, VisTypeOK
<1>4. RollupsArePast'
  <2>1. \A w \in Crunchers : cruncher[w].at # "idle" => cruncher[w].day \in 1..Days /\ cruncher[w].day < today
    BY CruncherFacts
  <2> QED
    BY <1>0, <1>1, <2>1 DEF RollupsArePast
<1> QED
  BY <1>0, <1>1, <1>2, <1>3, <1>4, VisitQuiet DEF VisTypeOK

LEMMA VisitRolls ==
    ASSUME VisitInv, NEW w \in Crunchers, RollupDaily(w) \/ rollup(w) \/ RollupFails(w)
    PROVE  VisitInv'
<1>0. /\ VisTypeOK /\ RollupsArePast /\ today \in 1..Days /\ rollups \in Nat /\ missed \subseteq 0..Days
      /\ cruncher \in [Crunchers -> Runs \cup {FreeCruncher}] /\ begun \subseteq 1..Days
      /\ daily \in [1..Days -> [Metrics -> Nat]] /\ visFaults \in 0..VisMaxFaults
  BY DEF VisitInv, VisTypeOK
<1>1. CASE RollupDaily(w)
  <2> DEFINE r == [at |-> "pageviews", day |-> today - 1]
  <2>1. rollups > 0 /\ today > 1 /\ rollups' = rollups - 1 /\ cruncher' = [cruncher EXCEPT ![w] = r]
    BY <1>0, <1>1 DEF RollupDaily, RollupsArePast
  <2>2. r \in Runs /\ r.day < today
    BY <1>0, <2>1 DEF Runs, Metrics
  <2> HIDE DEF r
  <2>3. /\ cruncher' \in [Crunchers -> Runs \cup {FreeCruncher}] /\ cruncher'[w] = r
        /\ \A v \in Crunchers \ {w} : cruncher'[v] = cruncher[v]
    BY <1>0, <2>1, <2>2
  <2>4. UNCHANGED <<consent, answers, hit, events, today, daily, begun, missed, visFaults>>
    BY <1>1 DEF RollupDaily
  <2>5. RollupsArePast'
    BY <1>0, <2>1, <2>2, <2>3, <2>4 DEF RollupsArePast
  <2>6. rollups' \in Nat
    BY <1>0, <2>1
  <2> QED
    BY <1>0, <2>3, <2>4, <2>5, <2>6, VisitQuiet
<1>2. CASE rollup(w)
  <2> DEFINE r == cruncher[w]
             n == Count(r.day, r.at)
             s == [r EXCEPT !.at = After(r.at)]
  <2>1. r.at \in Metrics /\ r.day \in 1..Days /\ r.day < today /\ r \in Runs /\ n \in Nat
    <3>1. r.at # "idle"
      BY <1>2 DEF rollup
    <3>2. r.at \in Metrics /\ r.day \in 1..Days /\ r.day < today /\ r \in Runs
      BY <3>1, CruncherFacts
    <3> QED
      BY <1>0, <3>2, CountIsNat
  <2>2. /\ daily' = [daily EXCEPT ![r.day][r.at] = n] /\ begun' = begun \cup {r.day}
        /\ cruncher' = [cruncher EXCEPT ![w] = IF r.at = "visitors" THEN FreeCruncher ELSE s]
        /\ UNCHANGED <<consent, answers, hit, events, today, rollups, missed, visFaults>>
    BY <1>2 DEF rollup
  <2>3. r.at # "visitors" => s \in Runs /\ s.day = r.day /\ s.at = After(r.at) /\ s.at # "idle"
    BY <2>1 DEF After, Metrics, Runs
  <2> HIDE DEF r, n, s
  <2>4. daily' \in [1..Days -> [Metrics -> Nat]] /\ begun' \subseteq 1..Days
    BY <1>0, <2>1, <2>2
  <2>5. /\ cruncher' \in [Crunchers -> Runs \cup {FreeCruncher}]
        /\ \A v \in Crunchers \ {w} : cruncher'[v] = cruncher[v]
        /\ cruncher'[w] = IF r.at = "visitors" THEN FreeCruncher ELSE s
    BY <1>0, <2>2, <2>3
  <2>6. RollupsArePast'
    BY <1>0, <2>1, <2>2, <2>3, <2>5 DEF RollupsArePast, FreeCruncher
  <2> QED
    BY <1>0, <2>2, <2>4, <2>5, <2>6, VisitQuiet
<1>3. CASE RollupFails(w)
  <2>1. cruncher[w].at # "idle" /\ cruncher[w].day \in 1..Days /\ cruncher[w].day < today
    BY <1>3, CruncherFacts DEF RollupFails
  <2>2. /\ cruncher' = [cruncher EXCEPT ![w] = FreeCruncher]
        /\ rollups' = rollups \/ rollups' = rollups + 1
        /\ missed' = missed \/ missed' = missed \cup {cruncher[w].day}
        /\ UNCHANGED <<consent, answers, hit, events, today, daily, begun>>
        /\ VisFault
    BY <1>3 DEF RollupFails
  <2>3. /\ cruncher' \in [Crunchers -> Runs \cup {FreeCruncher}] /\ cruncher'[w] = FreeCruncher
        /\ \A v \in Crunchers \ {w} : cruncher'[v] = cruncher[v]
    BY <1>0, <2>2
  <2>4. today > 1 /\ rollups' \in Nat
    BY <1>0, <2>1, <2>2
  <2>5. RollupsArePast'
    BY <1>0, <2>2, <2>3, <2>4 DEF RollupsArePast, FreeCruncher
  <2>6. missed' \subseteq 0..Days
    <3>1. cruncher[w].day \in 0..Days
      BY <2>1
    <3> QED
      BY <1>0, <2>2, <3>1
  <2>7. visFaults' \in 0..VisMaxFaults
    BY <1>0, <2>2 DEF VisFault
  <2> QED
    BY <1>0, <2>2, <2>3, <2>4, <2>5, <2>6, <2>7, VisitQuiet
<1> QED
  BY <1>1, <1>2, <1>3

LEMMA VisitInvNext == VisitInv /\ [VisNext]_visVars => VisitInv'
<1> SUFFICES ASSUME VisitInv, [VisNext]_visVars PROVE VisitInv'
  OBVIOUS
<1>1. CASE UNCHANGED visVars
  BY <1>1 DEF visVars, VisitInv, VisTypeOK, ConsentHeld, RollupsArePast
<1> QED
  BY <1>1, VisitHits, VisitDays, VisitRolls DEF VisNext

LEMMA VisitsCorrect == VisSpec => []VisitInv
<1> QED
  BY VisitInvInit, VisitInvNext, PTL DEF VisSpec

\* An event is recorded only of a visitor who consents, or who answered anew while the
\* request ran: analytics.Service.Record reads the consent before it inserts.
THEOREM EventsHaveConsent == VisSpec => RecordedWithConsent
<1> DEFINE Consented == \A e \in events' \ events : consent[e.by] = "granted" \/ hit[e.hit].passed
<1>1. VisitInv /\ [VisNext]_visVars => [Consented]_visVars
  <2> SUFFICES ASSUME VisitInv, VisNext, NEW e \in events' \ events
               PROVE  consent[e.by] = "granted" \/ hit[e.hit].passed
    OBVIOUS
  <2>1. \E h \in Hits, kind \in {"pageview", "event"} : Insert(h, kind)
    BY DEF VisNext, RecordConsent, CheckConsent, Stamp, NextDay, RollupDaily, rollup, RollupFails
  <2>2. PICK h \in Hits, kind \in {"pageview", "event"} : Insert(h, kind)
    BY <2>1
  <2>3. hit[h].at = "insert" /\ e = [hit |-> h, by |-> hit[h].by, kind |-> kind, day |-> hit[h].day]
    BY <2>2 DEF Insert
  <2> QED
    BY <2>3 DEF VisitInv, ConsentHeld
<1> QED
  BY <1>1, VisitsCorrect, PTL DEF VisSpec, RecordedWithConsent

\* Of a day that is over: its figures are right, or a rollup that has not counted them
\* yet runs or waits.
Right(d, m) == daily[d][m] = Count(d, m)
Waits(d) == d = today - 1 /\ rollups > 0
Counts(w, d) ==
    /\ cruncher[w].day = d
    /\ \/ cruncher[w].at = "pageviews"
       \/ cruncher[w].at = "events" /\ d \in begun /\ Right(d, "pageviews")
       \/ cruncher[w].at = "visitors" /\ d \in begun /\ Right(d, "pageviews") /\ Right(d, "events")
Counted(d) == d \in begun /\ Right(d, "pageviews") /\ Right(d, "events") /\ Right(d, "visitors")
DayHolds(d) == d \in missed \/ Waits(d) \/ (\E w \in Crunchers : Counts(w, d)) \/ Counted(d)
DaysHold == \A d \in 1..(today - 1) : DayHolds(d)

LEMMA DaysInsert ==
    ASSUME VisitInv, DaysHold, NEW h \in Hits, NEW kind \in {"pageview", "event"}, Insert(h, kind)
    PROVE  DaysHold'
<1> DEFINE e == [hit |-> h, by |-> hit[h].by, kind |-> kind, day |-> hit[h].day]
<1>1. /\ UNCHANGED <<today, rollups, cruncher, daily, begun>> /\ missed \subseteq missed'
      /\ \/ events' = events
         \/ events' = events \cup {e} /\ (e.day \in begun => e.day \in missed')
  BY DEF Insert, rollupVars
<1> SUFFICES ASSUME NEW d \in 1..(today - 1) PROVE DayHolds(d)'
  BY <1>1 DEF DaysHold
<1>2. DayHolds(d)
  BY DEF DaysHold
<1> HIDE DEF e
<1>3. CASE d = e.day /\ d \in begun /\ events' # events
  BY <1>1, <1>3 DEF DayHolds
<1>4. CASE d = e.day /\ d \notin begun
  <2>1. d \in missed \/ Waits(d) \/ \E w \in Crunchers : cruncher[w].day = d /\ cruncher[w].at = "pageviews"
    BY <1>2, <1>4 DEF DayHolds, Counts, Counted
  <2> QED
    BY <1>1, <2>1 DEF DayHolds, Waits, Counts
<1>5. CASE d # e.day \/ events' = events
  <2>1. \A k : Of(d, k)' = Of(d, k)
    <3> SUFFICES ASSUME NEW k PROVE {x \in events' : x.day = d /\ x.kind = k} = {x \in events : x.day = d /\ x.kind = k}
      BY DEF Of
    <3> QED
      BY <1>1, <1>5
  <2>2. {x \in events' : x.day = d} = {x \in events : x.day = d}
    BY <1>1, <1>5
  <2>3. \A m \in Metrics : Count(d, m)' = Count(d, m)
    BY <2>1, <2>2 DEF Count, Metrics
  <2>4. \A m \in Metrics : Right(d, m)' <=> Right(d, m)
    BY <1>1, <2>3 DEF Right
  <2>5. /\ Counted(d)' <=> Counted(d)
        /\ \A w \in Crunchers : Counts(w, d)' <=> Counts(w, d)
    BY <1>1, <2>4 DEF Counted, Counts, Metrics
  <2> QED
    BY <1>1, <1>2, <2>5 DEF DayHolds, Waits
<1> QED
  BY <1>3, <1>4, <1>5

LEMMA DaysPass ==
    ASSUME VisitInv, DaysHold, NextDay
    PROVE  DaysHold'
<1>0. today \in 1..Days /\ rollups \in Nat
  BY DEF VisitInv, VisTypeOK
<1>1. /\ UNCHANGED <<events, cruncher, daily, begun>> /\ today' = today + 1
      /\ \/ rollups' = rollups + 1 /\ missed' = IF rollups > 0 THEN missed \cup {today - 1} ELSE missed
         \/ missed' = missed \cup {today, today - 1} /\ rollups' = rollups
  BY DEF NextDay
<1> SUFFICES ASSUME NEW d \in 1..today PROVE DayHolds(d)'
  <2>1. 1..(today' - 1) = 1..today
    BY <1>0, <1>1
  <2> QED
    BY <2>1 DEF DaysHold
<1>2. CASE d = today
  <2>1. Waits(d)' \/ d \in missed'
    BY <1>0, <1>1, <1>2 DEF Waits
  <2> QED
    BY <2>1 DEF DayHolds
<1>3. CASE d # today
  <2>1. d \in 1..(today - 1)
    BY <1>0, <1>3
  <2>2. DayHolds(d)
    BY <2>1 DEF DaysHold
  <2>3. Waits(d) => d \in missed'
    BY <1>0, <1>1 DEF Waits
  <2>4. \A m : Right(d, m)' <=> Right(d, m)
    BY <1>1 DEF Right, Count, Of
  <2>5. /\ Counted(d) => Counted(d)'
        /\ \A w \in Crunchers : Counts(w, d) => Counts(w, d)'
    BY <1>1, <2>4 DEF Counted, Counts
  <2>6. missed \subseteq missed'
    BY <1>1
  <2> QED
    BY <2>2, <2>3, <2>5, <2>6 DEF DayHolds
<1> QED
  BY <1>2, <1>3

LEMMA DaysRollup ==
    ASSUME VisitInv, DaysHold, NEW w \in Crunchers, RollupDaily(w)
    PROVE  DaysHold'
<1>1. /\ UNCHANGED <<events, today, daily, begun, missed>> /\ cruncher[w] = FreeCruncher
      /\ rollups > 0 /\ rollups' = rollups - 1
      /\ cruncher' = [cruncher EXCEPT ![w] = [at |-> "pageviews", day |-> today - 1]]
  BY DEF RollupDaily
<1>2. /\ cruncher'[w].at = "pageviews" /\ cruncher'[w].day = today - 1
      /\ \A v \in Crunchers \ {w} : cruncher'[v] = cruncher[v]
  BY <1>1, CruncherFacts
<1> SUFFICES ASSUME NEW d \in 1..(today - 1) PROVE DayHolds(d)'
  BY <1>1 DEF DaysHold
<1>3. DayHolds(d)
  BY DEF DaysHold
<1>4. Waits(d) => Counts(w, d)'
  BY <1>2 DEF Waits, Counts
<1>5. \A m : Right(d, m)' <=> Right(d, m)
  BY <1>1 DEF Right, Count, Of
<1>6. \A v \in Crunchers : Counts(v, d) => v # w /\ Counts(v, d)'
  BY <1>1, <1>2, <1>5 DEF Counts, FreeCruncher
<1>7. Counted(d) => Counted(d)'
  BY <1>1, <1>5 DEF Counted
<1> QED
  BY <1>1, <1>3, <1>4, <1>6, <1>7 DEF DayHolds

LEMMA DaysCount ==
    ASSUME VisitInv, DaysHold, NEW w \in Crunchers, rollup(w)
    PROVE  DaysHold'
<1>w. /\ cruncher[w].at \in Metrics /\ cruncher[w].day \in 1..Days /\ cruncher[w] \in Runs
      /\ daily \in [1..Days -> [Metrics -> Nat]] /\ cruncher \in [Crunchers -> Runs \cup {FreeCruncher}]
  BY CruncherFacts DEF rollup, VisTypeOK
<1>0. PICK e \in 1..Days, k \in Metrics : e = cruncher[w].day /\ k = cruncher[w].at
  BY <1>w
<1>1. /\ UNCHANGED <<events, today, rollups, missed>>
      /\ daily' = [daily EXCEPT ![e][k] = Count(e, k)] /\ begun' = begun \cup {e}
      /\ cruncher' = [cruncher EXCEPT ![w] = IF k = "visitors" THEN FreeCruncher
                                             ELSE [cruncher[w] EXCEPT !.at = After(k)]]
  BY <1>0 DEF rollup
<1>2. /\ \A v \in Crunchers \ {w} : cruncher'[v] = cruncher[v]
      /\ k # "visitors" => cruncher'[w].at = After(k) /\ cruncher'[w].day = e
  BY <1>w, <1>0, <1>1 DEF Runs
<1>3. \A d, m : Count(d, m)' = Count(d, m)
  BY <1>1 DEF Count, Of
<1>4. /\ Right(e, k)'
      /\ \A d \in 1..Days, m \in Metrics : Right(d, m) => Right(d, m)'
  <2>1. daily'[e][k] = Count(e, k)
    BY <1>w, <1>1
  <2>2. \A d \in 1..Days, m \in Metrics : d # e \/ m # k => daily'[d][m] = daily[d][m]
    BY <1>w, <1>1
  <2>3. Right(e, k)'
    BY <1>3, <2>1 DEF Right
  <2>4. ASSUME NEW d \in 1..Days, NEW m \in Metrics, Right(d, m) PROVE Right(d, m)'
    <3>1. CASE d = e /\ m = k
      BY <2>3, <3>1
    <3>2. CASE d # e \/ m # k
      <4>1. daily'[d][m] = daily[d][m] /\ Count(d, m)' = Count(d, m)
        BY <1>3, <2>2, <3>2
      <4> QED
        BY <2>4, <4>1 DEF Right
    <3> QED
      BY <3>1, <3>2
  <2> QED
    BY <2>3, <2>4
<1> SUFFICES ASSUME NEW d \in 1..(today - 1) PROVE DayHolds(d)'
  BY <1>1 DEF DaysHold
<1>5. d \in 1..Days /\ DayHolds(d) /\ {"pageviews", "events", "visitors"} \subseteq Metrics
  BY DEF DaysHold, VisitInv, VisTypeOK, Metrics
<1>6. \A v \in Crunchers \ {w} : Counts(v, d) => Counts(v, d)'
  BY <1>1, <1>2, <1>4, <1>5 DEF Counts
<1>7. Counted(d) => Counted(d)'
  BY <1>1, <1>4, <1>5 DEF Counted
<1>8. Counts(w, d) => Counts(w, d)' \/ Counted(d)'
  <2> SUFFICES ASSUME Counts(w, d) PROVE Counts(w, d)' \/ Counted(d)'
    OBVIOUS
  <2>1. d = e /\ d \in begun'
    BY <1>0, <1>1 DEF Counts
  <2>2. CASE k = "pageviews"
    BY <1>2, <1>4, <2>1, <2>2 DEF Counts, After
  <2>3. CASE k = "events"
    <3>1. Right(d, "pageviews")' /\ Right(d, "events")'
      BY <1>0, <1>4, <1>5, <2>1, <2>3 DEF Counts
    <3>2. cruncher'[w].at = "visitors" /\ cruncher'[w].day = d
      BY <1>2, <2>1, <2>3 DEF After
    <3> QED
      BY <2>1, <3>1, <3>2 DEF Counts
  <2>4. CASE k = "visitors"
    <3>1. Right(d, "pageviews")' /\ Right(d, "events")' /\ Right(d, "visitors")'
      BY <1>0, <1>4, <1>5, <2>1, <2>4 DEF Counts
    <3> QED
      BY <2>1, <3>1 DEF Counted
  <2> QED
    BY <2>2, <2>3, <2>4 DEF Metrics
<1>9. Waits(d) => Waits(d)'
  BY <1>1 DEF Waits
<1> QED
  BY <1>1, <1>5, <1>6, <1>7, <1>8, <1>9 DEF DayHolds

LEMMA DaysFail ==
    ASSUME VisitInv, DaysHold, NEW w \in Crunchers, RollupFails(w)
    PROVE  DaysHold'
<1>0. rollups \in Nat /\ today \in 1..Days /\ cruncher[w].day \in 1..Days
  BY CruncherFacts DEF VisitInv, VisTypeOK, RollupFails
<1>1. /\ UNCHANGED <<events, today, daily, begun>> /\ cruncher' = [cruncher EXCEPT ![w] = FreeCruncher]
      /\ missed \subseteq missed'
      /\ \/ cruncher[w].day \in missed' /\ rollups' \in {rollups, rollups + 1}
         \/ cruncher[w].day = today - 1 /\ rollups' = rollups + 1
  BY DEF RollupFails
<1>2. \A v \in Crunchers \ {w} : cruncher'[v] = cruncher[v]
  BY <1>1, CruncherFacts
<1> SUFFICES ASSUME NEW d \in 1..(today - 1) PROVE DayHolds(d)'
  BY <1>1 DEF DaysHold
<1>3. DayHolds(d)
  BY DEF DaysHold
<1>4. \A m : Right(d, m)' <=> Right(d, m)
  BY <1>1 DEF Right, Count, Of
<1>5. Counted(d) => Counted(d)'
  BY <1>1, <1>4 DEF Counted
<1>6. \A v \in Crunchers \ {w} : Counts(v, d) => Counts(v, d)'
  BY <1>1, <1>2, <1>4 DEF Counts
<1>7. Counts(w, d) => d \in missed' \/ Waits(d)'
  BY <1>0, <1>1 DEF Counts, Waits
<1>8. Waits(d) => Waits(d)'
  BY <1>0, <1>1 DEF Waits
<1> QED
  BY <1>1, <1>3, <1>5, <1>6, <1>7, <1>8 DEF DayHolds

LEMMA DaysHoldNext == VisitInv /\ DaysHold /\ [VisNext]_visVars => DaysHold'
<1> SUFFICES ASSUME VisitInv, DaysHold, [VisNext]_visVars PROVE DaysHold'
  OBVIOUS
<1>1. ASSUME UNCHANGED <<events, today, rollups, cruncher, daily, begun, missed>> PROVE DaysHold'
  <2>1. \A d, m : Right(d, m)' <=> Right(d, m)
    BY <1>1 DEF Right, Count, Of
  <2>2. \A d : DayHolds(d)' <=> DayHolds(d)
    BY <1>1, <2>1 DEF DayHolds, Waits, Counts, Counted
  <2> QED
    BY <1>1, <2>2 DEF DaysHold
<1>2. CASE UNCHANGED visVars
  BY <1>1, <1>2 DEF visVars
<1>3. ASSUME NEW v \in People, NEW a \in Answers, RecordConsent(v, a) PROVE DaysHold'
  BY <1>1, <1>3 DEF RecordConsent, rollupVars
<1>4. ASSUME NEW h \in Hits, NEW v \in People, CheckConsent(h, v) PROVE DaysHold'
  BY <1>1, <1>4 DEF CheckConsent, rollupVars
<1>5. ASSUME NEW h \in Hits, Stamp(h) PROVE DaysHold'
  BY <1>1, <1>5 DEF Stamp, rollupVars
<1> QED
  BY <1>2, <1>3, <1>4, <1>5, DaysInsert, DaysPass, DaysRollup, DaysCount, DaysFail DEF VisNext

\* When no rollup waits or runs, the figures of a past day are what its events add up
\* to, for any number of events, days and workers, unless its job was lost or late.
THEOREM PastFiguresAreRight == VisSpec => []PastDaysAreCounted
<1>1. VisInit => DaysHold
  BY DEF VisInit, DaysHold
<1>2. VisSpec => []DaysHold
  BY <1>1, DaysHoldNext, VisitsCorrect, PTL DEF VisSpec
<1>3. VisitInv /\ DaysHold => PastDaysAreCounted
  <2> SUFFICES ASSUME VisitInv, DaysHold, rollups = 0, \A w \in Crunchers : cruncher[w].at = "idle",
                      NEW d \in 1..(today - 1), d \notin missed
               PROVE  \A m \in Metrics : daily[d][m] = Count(d, m)
    BY DEF PastDaysAreCounted
  <2>1. DayHolds(d)
    BY DEF DaysHold
  <2>2. Counted(d)
    BY <2>1 DEF DayHolds, Waits, Counts
  <2> QED
    BY <2>2 DEF Counted, Right, Metrics
<1> QED
  BY <1>2, <1>3, VisitsCorrect, PTL
===============================================================================
