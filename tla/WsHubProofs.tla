----------------------------- MODULE WsHubProofs -----------------------------
(***************************************************************************)
(* Theorems about WsHub, for any number of instances, users, connections   *)
(* and notifications.                                                      *)
(*                                                                         *)
(* A panic needs a closed channel that is closed or sent to again.  Only   *)
(* channels in a hub's map, and the channel of a connection that leaves,   *)
(* are ever touched.  So the invariant says of the first that they are     *)
(* open (Routes), and of a closed one that its connection has left or its  *)
(* loop has ended (ClosedIsOver).                                          *)
(***************************************************************************)
EXTENDS WsHub, DataLemmas

-------------------------------------------------------------------------------
(* Types *)

\* Delivering keeps the channels' type and their capacity.
LEMMA DeliverLocalType ==
    ASSUME HubTypeOK, NEW h \in Hubs, NEW n \in Notes, DeliverLocal(h, n)
    PROVE  /\ send' \in [Conns -> Seq(Notes)]
           /\ \A e \in Conns : Len(send'[e]) <= Capacity
           /\ panicked' \in BOOLEAN
<1> DEFINE d == clients[h][Recipient[n]]
<1>1. d \in Conns \cup {Nobody}
  BY NotesAssumption DEF HubTypeOK
<1>2. CASE d = Nobody
  BY <1>2 DEF DeliverLocal, HubTypeOK
<1>3. CASE d # Nobody
  <2>1. d \in Conns
    BY <1>1, <1>3
  <2>2. panicked' = (panicked \/ closed[d])
    BY <1>3 DEF DeliverLocal
  <2>3. panicked' \in BOOLEAN
    BY <2>1, <2>2, ZenonT(30) DEF HubTypeOK
  <2>4. send' = IF Len(send[d]) < Capacity
                THEN [send EXCEPT ![d] = Append(@, n)] ELSE send
    BY <1>3 DEF DeliverLocal
  <2>5. send' \in [Conns -> Seq(Notes)] /\ \A e \in Conns : Len(send'[e]) <= Capacity
    BY <2>1, <2>4, CapacityAssumption DEF HubTypeOK
  <2> QED
    BY <2>3, <2>5
<1> QED
  BY <1>2, <1>3

\* What Redis appends are notifications.
LEMMA FanoutType ==
    ASSUME HubTypeOK, NEW n \in Notes, Fanout(n)
    PROVE  bus' \in [Hubs -> Seq(Notes)]
<1>1. PICK S \in SUBSET {h \in Hubs : subscriber[h] = "live"} :
          bus' = [h \in Hubs |-> IF h \in S THEN Append(bus[h], n) ELSE bus[h]]
  BY DEF Fanout
<1>2. \A h \in Hubs : bus[h] \in Seq(Notes) /\ Append(bus[h], n) \in Seq(Notes)
  BY DEF HubTypeOK
<1> QED
  BY <1>1, <1>2

\* The steps of a connection keep every type.
LEMMA ConnStepType ==
    ASSUME HubTypeOK, NEW c \in Conns, ConnStep(c)
    PROVE  HubTypeOK'
<1>0. HubOf[c] \in Hubs /\ UserOf[c] \in Users
  BY ConnsAssumption
<1>9. /\ clients \in [Hubs -> [Users -> Conns \cup {Nobody}]]
      /\ writer \in [Conns -> {"none", "writing", "ended"}]
      /\ shown \in [Conns -> Seq(Notes)]
  BY DEF HubTypeOK
<1>1. CASE Upgrade(c)
  BY <1>1 DEF Upgrade, HubTypeOK
<1>2. CASE Register(c)
  BY <1>2, <1>0 DEF Register, HubTypeOK
<1>3. CASE SocketLost(c)
  BY <1>3 DEF SocketLost, HubTypeOK
<1>4. CASE ReadEnds(c)
  BY <1>4 DEF ReadEnds, HubTypeOK
<1>5. CASE Unregister(c)
  <2>1. panicked' \in BOOLEAN
    BY <1>5, ZenonT(30) DEF Unregister, HubTypeOK
  <2>2. closed' \in [Conns -> BOOLEAN]
    BY <1>5 DEF Unregister, HubTypeOK
  <2>3. clients' \in [Hubs -> [Users -> Conns \cup {Nobody}]]
    <3>1. \/ clients' = clients
          \/ clients' = [clients EXCEPT ![HubOf[c]][UserOf[c]] = Nobody]
      BY <1>5 DEF Unregister
    <3> QED
      <4>1. [clients[HubOf[c]] EXCEPT ![UserOf[c]] = Nobody] \in [Users -> Conns \cup {Nobody}]
        BY <1>0, <1>9
      <4> QED
        BY <1>0, <1>9, <3>1, <4>1
  <2>4. /\ reader' \in [Conns -> {"none", "registering", "reading", "leaving", "gone"}]
        /\ socket' \in [Conns -> {"up", "down"}]
    BY <1>5 DEF Unregister, HubTypeOK
  <2>5. UNCHANGED <<loop, subscriber, writer, send, shown, bus, push>>
    BY <1>5 DEF Unregister
  <2> QED
    BY <2>1, <2>2, <2>3, <2>4, <2>5 DEF HubTypeOK
<1>6. CASE WriteMessage(c)
  <2>1. send[c] \in Seq(Notes) /\ send[c] # << >>
    BY <1>6 DEF WriteMessage, HubTypeOK
  <2>2. /\ Head(send[c]) \in Notes /\ Tail(send[c]) \in Seq(Notes)
        /\ Len(Tail(send[c])) <= Len(send[c])
    BY <2>1
  <2>3. send' \in [Conns -> Seq(Notes)] /\ \A e \in Conns : Len(send'[e]) <= Capacity
    BY <1>6, <2>1, <2>2, CapacityAssumption DEF WriteMessage, HubTypeOK
  <2>4. shown' \in [Conns -> Seq(Notes)]
    <3> DEFINE more == Append(shown[c], Head(send[c]))
    <3>1. shown' = shown \/ shown' = [shown EXCEPT ![c] = more]
      BY <1>6 DEF WriteMessage
    <3>2. more \in Seq(Notes)
      BY <1>9, <2>2
    <3> HIDE DEF more
    <3> QED
      BY <1>9, <3>1, <3>2
  <2>5. writer' \in [Conns -> {"none", "writing", "ended"}]
    <3>1. writer' = writer \/ writer' = [writer EXCEPT ![c] = "ended"]
      BY <1>6 DEF WriteMessage
    <3> QED
      BY <1>9, <3>1
  <2>6. UNCHANGED <<loop, subscriber, clients, reader, socket, closed, bus, push,
                    panicked>>
    BY <1>6 DEF WriteMessage
  <2> QED
    BY <2>3, <2>4, <2>5, <2>6 DEF HubTypeOK
<1>7. CASE WriterSeesClose(c)
  BY <1>7 DEF WriterSeesClose, HubTypeOK
<1>8. CASE Ping(c)
  BY <1>8 DEF Ping, HubTypeOK
<1> QED
  BY <1>1, <1>2, <1>3, <1>4, <1>5, <1>6, <1>7, <1>8 DEF ConnStep

\* So do the steps of a notification.
LEMMA NoteStepType ==
    ASSUME HubTypeOK, NEW n \in Notes, NoteStep(n)
    PROVE  HubTypeOK'
<1>1. CASE Store(n)
  BY <1>1 DEF Store, HubTypeOK
<1>2. CASE PushLocal(n)
  <2>1. /\ send' \in [Conns -> Seq(Notes)]
        /\ \A e \in Conns : Len(send'[e]) <= Capacity
        /\ panicked' \in BOOLEAN
    <3>1. CASE SentBy[n] \in Hubs
      <4>1. DeliverLocal(SentBy[n], n)
        BY <1>2, <3>1 DEF PushLocal
      <4> QED
        BY <3>1, <4>1, DeliverLocalType
    <3>2. CASE SentBy[n] \notin Hubs
      BY <1>2, <3>2 DEF PushLocal, HubTypeOK
    <3> QED
      BY <3>1, <3>2
  <2> QED
    BY <1>2, <2>1 DEF PushLocal, HubTypeOK
<1>3. CASE Publish(n)
  <2>1. bus' \in [Hubs -> Seq(Notes)]
    BY <1>3, FanoutType DEF Publish
  <2> QED
    BY <1>3, <2>1 DEF Publish, HubTypeOK
<1> QED
  BY <1>1, <1>2, <1>3 DEF NoteStep

\* And those of a hub.
LEMMA HubStepType ==
    ASSUME HubTypeOK, NEW h \in Hubs, HubStep(h)
    PROVE  HubTypeOK'
<1>1. CASE Receive(h)
  <2>1. bus[h] \in Seq(Notes) /\ bus[h] # << >>
    BY <1>1 DEF Receive, HubTypeOK
  <2>2. Head(bus[h]) \in Notes /\ Tail(bus[h]) \in Seq(Notes)
    BY <2>1
  <2>3. DeliverLocal(h, Head(bus[h]))
    BY <1>1 DEF Receive
  <2>4. /\ send' \in [Conns -> Seq(Notes)]
        /\ \A e \in Conns : Len(send'[e]) <= Capacity
        /\ panicked' \in BOOLEAN
    BY <2>2, <2>3, DeliverLocalType
  <2> QED
    BY <1>1, <2>2, <2>4 DEF Receive, HubTypeOK
<1>2. CASE Subscribe(h)
  BY <1>2 DEF Subscribe, HubTypeOK
<1>3. CASE SubscriberEnds(h)
  BY <1>3 DEF SubscriberEnds, HubTypeOK
<1>4. CASE HubCancel(h)
  BY <1>4 DEF HubCancel, HubTypeOK
<1>5. CASE LoopStops(h)
  <2>1. panicked' \in BOOLEAN
    BY <1>5, ZenonT(30) DEF LoopStops, HubTypeOK
  <2>2. closed' \in [Conns -> BOOLEAN]
    BY <1>5, ZenonT(30) DEF LoopStops, HubTypeOK
  <2> QED
    BY <1>5, <2>1, <2>2 DEF LoopStops, HubTypeOK
<1> QED
  BY <1>1, <1>2, <1>3, <1>4, <1>5 DEF HubStep

\* Every step keeps the types.
LEMMA HubTypeStep == HubTypeOK /\ [HubNext]_hubVars => HubTypeOK'
<1> SUFFICES ASSUME HubTypeOK, [HubNext]_hubVars PROVE HubTypeOK'
  OBVIOUS
<1>1. CASE UNCHANGED hubVars
  BY <1>1 DEF hubVars, HubTypeOK
<1>2. CASE HubNext
  BY <1>2, ConnStepType, NoteStepType, HubStepType DEF HubNext
<1> QED
  BY <1>1, <1>2

\* The initial states have the types.
LEMMA HubTypeInit == HubInit => HubTypeOK
<1> SUFFICES ASSUME HubInit PROVE HubTypeOK
  OBVIOUS
<1>1. << >> \in Seq(Notes) /\ Len(<< >>) <= Capacity
  BY CapacityAssumption
<1>2. \A c \in Conns : Len(send[c]) <= Capacity
  BY <1>1 DEF HubInit
<1> QED
  BY <1>1, <1>2 DEF HubInit, HubTypeOK

\* The hub's variables keep their types; a send channel never holds more than its
\* capacity.
THEOREM HubTypeCorrect == HubSpec => []HubTypeOK
  BY HubTypeInit, HubTypeStep, PTL DEF HubSpec

-------------------------------------------------------------------------------
(* Channels *)

\* What a hub routes to is open, its own, and yet to be unregistered.
Routes ==
    \A h \in Hubs, u \in Users :
        LET c == clients[h][u] IN
        c # Nobody => /\ HubOf[c] = h /\ UserOf[c] = u
                      /\ reader[c] \in {"reading", "leaving"}
                      /\ ~closed[c]

\* A channel is closed when its connection has left or its loop has ended.
ClosedIsOver ==
    \A c \in Conns : closed[c] => reader[c] = "gone" \/ loop[HubOf[c]] = "stopped"

HubInv == HubTypeOK /\ Routes /\ ClosedIsOver /\ NoPanic

\* Delivering to a map whose channels are open does not panic.
LEMMA DeliverLocalSafe ==
    ASSUME HubInv, NEW h \in Hubs, NEW n \in Notes, DeliverLocal(h, n)
    PROVE  NoPanic'
<1> DEFINE d == clients[h][Recipient[n]]
<1>1. Recipient[n] \in Users
  BY NotesAssumption
<1>2. d # Nobody => ~closed[d]
  BY <1>1 DEF HubInv, Routes
<1>3. CASE d = Nobody
  BY <1>3 DEF DeliverLocal, HubInv, NoPanic
<1>4. CASE d # Nobody
  <2>1. panicked' = (panicked \/ closed[d])
    BY <1>4 DEF DeliverLocal
  <2> QED
    BY <1>2, <1>4, <2>1, ZenonT(30) DEF HubInv, NoPanic
<1> QED
  BY <1>3, <1>4

\* Steps that touch neither the map nor readers, loops and closed channels keep
\* the routes.
LEMMA RoutesFrame ==
    ASSUME HubInv, UNCHANGED <<clients, reader, loop, closed>>
    PROVE  Routes' /\ ClosedIsOver'
BY DEF HubInv, Routes, ClosedIsOver

\* A connection's steps.
LEMMA ConnStepSafe ==
    ASSUME HubInv, NEW c \in Conns, ConnStep(c)
    PROVE  Routes' /\ ClosedIsOver' /\ NoPanic'
<1>0. /\ HubOf[c] \in Hubs /\ UserOf[c] \in Users
      /\ HubTypeOK /\ Routes /\ ClosedIsOver /\ NoPanic
      /\ c # Nobody
  BY ConnsAssumption, NobodyAssumption DEF HubInv
<1>1. CASE Upgrade(c)
  <2>1. Routes' /\ ClosedIsOver'
    BY <1>0, <1>1 DEF Upgrade, Routes, ClosedIsOver, HubTypeOK
  <2> QED
    BY <1>0, <1>1, <2>1 DEF Upgrade, NoPanic
<1>2. CASE Register(c)
  <2>1. ~closed[c]
    BY <1>0, <1>2 DEF Register, ClosedIsOver
  <2>2. Routes'
    BY <1>0, <1>2, <2>1 DEF Register, Routes, HubTypeOK
  <2>3. ClosedIsOver'
    BY <1>0, <1>2, <2>1 DEF Register, ClosedIsOver, HubTypeOK
  <2> QED
    BY <1>0, <1>2, <2>2, <2>3 DEF Register, NoPanic
<1>3. CASE SocketLost(c)
  BY <1>0, <1>3, RoutesFrame DEF SocketLost, NoPanic
<1>4. CASE ReadEnds(c)
  <2>1. Routes' /\ ClosedIsOver'
    BY <1>0, <1>4 DEF ReadEnds, Routes, ClosedIsOver, HubTypeOK
  <2> QED
    BY <1>0, <1>4, <2>1 DEF ReadEnds, NoPanic
<1>5. CASE Unregister(c)
  <2>1. ~closed[c]
    BY <1>0, <1>5 DEF Unregister, ClosedIsOver
  <2>2. NoPanic'
    BY <1>0, <1>5, <2>1, ZenonT(30) DEF Unregister, NoPanic
  <2>3. ClosedIsOver'
    BY <1>0, <1>5 DEF Unregister, ClosedIsOver, HubTypeOK
  <2>4. CASE clients[HubOf[c]][UserOf[c]] = Nobody
    <3>1. \A h \in Hubs, u \in Users : clients[h][u] # c
      BY <1>0, <2>4 DEF Routes
    <3> QED
      BY <1>0, <1>5, <2>2, <2>3, <2>4, <3>1 DEF Unregister, Routes, HubTypeOK
  <2>5. CASE clients[HubOf[c]][UserOf[c]] # Nobody
    <3>1. \A h \in Hubs, u \in Users : clients'[h][u] # Nobody =>
              clients'[h][u] = clients[h][u] /\ clients[h][u] # c
      BY <1>0, <1>5, <2>5 DEF Unregister, Routes, HubTypeOK
    <3>2. \A d \in Conns : d # c => reader'[d] = reader[d] /\ closed'[d] = closed[d]
      BY <1>0, <1>5 DEF Unregister, HubTypeOK
    <3>3. \A h \in Hubs, u \in Users : clients[h][u] # Nobody => clients[h][u] \in Conns
      BY <1>0 DEF HubTypeOK
    <3>4. Routes'
      BY <1>0, <3>1, <3>2, <3>3 DEF Routes
    <3> QED
      BY <2>2, <2>3, <3>4
  <2> QED
    BY <2>4, <2>5
<1>6. CASE WriteMessage(c)
  BY <1>0, <1>6, RoutesFrame DEF WriteMessage, NoPanic
<1>7. CASE WriterSeesClose(c)
  BY <1>0, <1>7, RoutesFrame DEF WriterSeesClose, NoPanic
<1>8. CASE Ping(c)
  BY <1>0, <1>8, RoutesFrame DEF Ping, NoPanic
<1> QED
  BY <1>1, <1>2, <1>3, <1>4, <1>5, <1>6, <1>7, <1>8 DEF ConnStep

\* A notification's steps.
LEMMA NoteStepSafe ==
    ASSUME HubInv, NEW n \in Notes, NoteStep(n)
    PROVE  Routes' /\ ClosedIsOver' /\ NoPanic'
<1>1. CASE Store(n)
  BY <1>1, RoutesFrame DEF Store, HubInv, NoPanic
<1>2. CASE PushLocal(n)
  <2>1. NoPanic'
    <3>1. CASE SentBy[n] \in Hubs
      BY <1>2, <3>1, DeliverLocalSafe DEF PushLocal
    <3>2. CASE SentBy[n] \notin Hubs
      BY <1>2, <3>2 DEF PushLocal, HubInv, NoPanic
    <3> QED
      BY <3>1, <3>2
  <2> QED
    BY <1>2, <2>1, RoutesFrame DEF PushLocal
<1>3. CASE Publish(n)
  BY <1>3, RoutesFrame DEF Publish, HubInv, NoPanic
<1> QED
  BY <1>1, <1>2, <1>3 DEF NoteStep

\* A hub's steps.
LEMMA HubStepSafe ==
    ASSUME HubInv, NEW h \in Hubs, HubStep(h)
    PROVE  Routes' /\ ClosedIsOver' /\ NoPanic'
<1>1. CASE Receive(h)
  <2>1. bus[h] \in Seq(Notes) /\ bus[h] # << >>
    BY <1>1 DEF Receive, HubInv, HubTypeOK
  <2>2. Head(bus[h]) \in Notes
    BY <2>1
  <2>3. NoPanic'
    BY <1>1, <2>2, DeliverLocalSafe DEF Receive
  <2> QED
    BY <1>1, <2>3, RoutesFrame DEF Receive
<1>2. CASE Subscribe(h)
  BY <1>2, RoutesFrame DEF Subscribe, HubInv, NoPanic
<1>3. CASE SubscriberEnds(h)
  BY <1>3, RoutesFrame DEF SubscriberEnds, HubInv, NoPanic
<1>4. CASE HubCancel(h)
  BY <1>4 DEF HubCancel, HubInv, HubTypeOK, Routes, ClosedIsOver, NoPanic
<1>5. CASE LoopStops(h)
  <2>0. /\ HubTypeOK /\ Routes /\ ClosedIsOver /\ NoPanic
        /\ \A c \in Conns : c # Nobody /\ HubOf[c] \in Hubs
    BY ConnsAssumption, NobodyAssumption DEF HubInv
  <2>1. \A c \in Registered(h) : c \in Conns /\ HubOf[c] = h /\ ~closed[c]
    BY <2>0 DEF Registered, Routes, HubTypeOK
  <2>2. NoPanic'
    BY <1>5, <2>0, <2>1, ZenonT(30) DEF LoopStops, NoPanic
  <2>3. \A c \in Conns : closed'[c] = (closed[c] \/ c \in Registered(h))
    BY <1>5, ZenonT(30) DEF LoopStops
  <2>4. \A g \in Hubs : loop'[g] = IF g = h THEN "stopped" ELSE loop[g]
    BY <1>5, <2>0 DEF LoopStops, HubTypeOK
  <2>5. UNCHANGED reader
    BY <1>5 DEF LoopStops
  <2>6. ClosedIsOver'
    <3> SUFFICES ASSUME NEW c \in Conns, closed'[c]
                 PROVE  reader'[c] = "gone" \/ loop'[HubOf[c]] = "stopped"
      BY DEF ClosedIsOver
    <3>1. closed[c] \/ c \in Registered(h)
      BY <2>3, ZenonT(30)
    <3>2. CASE closed[c]
      BY <2>0, <2>4, <2>5, <3>2 DEF ClosedIsOver
    <3>3. CASE c \in Registered(h)
      BY <2>0, <2>1, <2>4, <3>3
    <3> QED
      BY <3>1, <3>2, <3>3
  <2>7. Routes'
    <3> SUFFICES ASSUME NEW g \in Hubs, NEW u \in Users, clients'[g][u] # Nobody
                 PROVE  LET c == clients'[g][u] IN
                        /\ HubOf[c] = g /\ UserOf[c] = u
                        /\ reader'[c] \in {"reading", "leaving"} /\ ~closed'[c]
      BY DEF Routes
    <3>1. g # h /\ clients'[g][u] = clients[g][u]
      BY <1>5, <2>0 DEF LoopStops, HubTypeOK
    <3>2. clients[g][u] \in Conns /\ HubOf[clients[g][u]] = g
      BY <2>0, <3>1 DEF Routes, HubTypeOK
    <3>3. clients[g][u] \notin Registered(h)
      BY <2>1, <3>1, <3>2
    <3>4. ~closed'[clients[g][u]]
      BY <2>0, <2>3, <3>1, <3>2, <3>3, ZenonT(30) DEF Routes
    <3> QED
      BY <2>0, <2>5, <3>1, <3>4 DEF Routes
  <2> QED
    BY <2>2, <2>6, <2>7
<1> QED
  BY <1>1, <1>2, <1>3, <1>4, <1>5 DEF HubStep

\* HubInv is inductive.
LEMMA HubInvInductive == HubSpec => []HubInv
<1>1. HubInit => HubInv
  <2> SUFFICES ASSUME HubInit PROVE HubInv
    OBVIOUS
  <2>1. HubTypeOK
    BY HubTypeInit
  <2> QED
    BY <2>1 DEF HubInit, HubInv, Routes, ClosedIsOver, NoPanic
<1>2. HubInv /\ [HubNext]_hubVars => HubInv'
  <2> SUFFICES ASSUME HubInv, [HubNext]_hubVars PROVE HubInv'
    OBVIOUS
  <2>1. HubTypeOK'
    BY HubTypeStep DEF HubInv
  <2>2. CASE UNCHANGED hubVars
    BY <2>1, <2>2, RoutesFrame DEF hubVars, HubInv, NoPanic
  <2>3. CASE HubNext
    BY <2>1, <2>3, ConnStepSafe, NoteStepSafe, HubStepSafe DEF HubNext, HubInv
  <2> QED
    BY <2>2, <2>3
<1> QED
  BY <1>1, <1>2, PTL DEF HubSpec

\* No channel is ever closed twice or sent to after it was closed, so the hub
\* never panics.
THEOREM HubNeverPanics == HubSpec => []NoPanic
<1>1. HubInv => NoPanic
  BY DEF HubInv
<1> QED
  BY <1>1, HubInvInductive, PTL

\* A hub routes only to connections whose handler is still there.
THEOREM RoutesAreLive == HubSpec => []NoStaleClient
<1>1. HubInv => NoStaleClient
  BY DEF HubInv, Routes, NoStaleClient
<1> QED
  BY <1>1, HubInvInductive, PTL

-------------------------------------------------------------------------------
(* Copies *)

\* What a connection has seen of a notification and will still see of it from its
\* channel.
Seen(c, n) == Occurs(shown[c], n) + Occurs(send[c], n)

\* The ways on which a copy can still come to the connections of hub h: the fast
\* path of the hub that sends it, and the publication.
WaysLeft(h, n) ==
    (IF SentBy[n] = h /\ push[n] \in {"none", "stored"} THEN 1 ELSE 0)
        + (IF push[n] # "published" THEN 1 ELSE 0)

\* A copy that is seen, one that waits in the subscription of the connection's hub
\* and a way that is left are three forms of the same allowance.
Allowance ==
    \A c \in Conns, n \in Notes :
        Seen(c, n) + Occurs(bus[HubOf[c]], n) + WaysLeft(HubOf[c], n)
            <= (IF SentBy[n] = HubOf[c] THEN 2 ELSE 1)

CopyInv == HubInv /\ Allowance

\* The counts are numbers.
LEMMA SeenType ==
    ASSUME HubTypeOK, NEW c \in Conns, NEW n \in Notes
    PROVE  /\ Occurs(shown[c], n) \in Nat /\ Occurs(send[c], n) \in Nat
           /\ Occurs(bus[HubOf[c]], n) \in Nat /\ HubOf[c] \in Hubs
           /\ WaysLeft(HubOf[c], n) \in Nat
<1>1. /\ shown[c] \in Seq(Notes) /\ send[c] \in Seq(Notes)
      /\ HubOf[c] \in Hubs /\ bus[HubOf[c]] \in Seq(Notes)
  BY ConnsAssumption DEF HubTypeOK
<1> QED
  BY <1>1, OccursType DEF WaysLeft

\* Delivering hands a copy to connections of that hub only.
LEMMA DeliverLocalSeen ==
    ASSUME HubInv, NEW h \in Hubs, NEW n \in Notes, DeliverLocal(h, n),
           NEW c \in Conns, NEW m \in Notes
    PROVE  Occurs(send'[c], m)
               <= Occurs(send[c], m) + (IF HubOf[c] = h /\ m = n THEN 1 ELSE 0)
<1> DEFINE d == clients[h][Recipient[n]]
<1>0. send[c] \in Seq(Notes) /\ Occurs(send[c], m) \in Nat
  BY SeenType DEF HubInv, HubTypeOK
<1>1. CASE send'[c] = send[c]
  BY <1>0, <1>1
<1>2. CASE send'[c] # send[c]
  <2>1. d # Nobody /\ d = c /\ send'[c] = Append(send[c], n)
    BY <1>2 DEF DeliverLocal, HubInv, HubTypeOK
  <2>2. HubOf[c] = h
    BY <2>1, NotesAssumption DEF HubInv, Routes
  <2>3. Occurs(send'[c], m) = Occurs(send[c], m) + (IF n = m THEN 1 ELSE 0)
    BY <1>0, <2>1, OccursAppend
  <2> QED
    BY <1>0, <2>2, <2>3
<1> QED
  BY <1>1, <1>2

\* A connection's own steps show what its channel holds, or lose it.
LEMMA ConnStepSeen ==
    ASSUME HubInv, NEW d \in Conns, ConnStep(d), NEW c \in Conns, NEW n \in Notes
    PROVE  Seen(c, n)' <= Seen(c, n) /\ UNCHANGED <<bus, push>>
<1>0. /\ shown[c] \in Seq(Notes) /\ send[c] \in Seq(Notes)
      /\ shown \in [Conns -> Seq(Notes)] /\ send \in [Conns -> Seq(Notes)]
      /\ Occurs(shown[c], n) \in Nat /\ Occurs(send[c], n) \in Nat
  BY SeenType DEF HubInv, HubTypeOK
<1>1. CASE UNCHANGED <<shown, send, bus, push>>
  BY <1>0, <1>1 DEF Seen
<1>2. CASE WriteMessage(d)
  <2>1. CASE c # d
    BY <1>0, <1>2, <2>1 DEF WriteMessage, Seen
  <2>2. CASE c = d
    <3>1. send[c] # << >> /\ send'[c] = Tail(send[c])
      BY <1>0, <1>2, <2>2 DEF WriteMessage
    <3>2. Head(send[c]) \in Notes /\ Tail(send[c]) \in Seq(Notes)
      BY <1>0, <3>1
    <3>3. /\ Occurs(send[c], n) = Occurs(send'[c], n) + (IF Head(send[c]) = n THEN 1 ELSE 0)
          /\ Occurs(send'[c], n) \in Nat
      BY <1>0, <3>1, <3>2, OccursTail, OccursType
    <3>4. Occurs(shown'[c], n) <= Occurs(shown[c], n) + (IF Head(send[c]) = n THEN 1 ELSE 0)
      <4>1. CASE shown'[c] = shown[c]
        BY <1>0, <4>1
      <4>2. CASE shown'[c] = Append(shown[c], Head(send[c]))
        BY <1>0, <3>2, <4>2, OccursAppend
      <4> QED
        BY <1>0, <1>2, <2>2, <4>1, <4>2 DEF WriteMessage
    <3>5. Occurs(shown'[c], n) \in Nat
      <4>1. HubTypeOK'
        BY ConnStepType DEF HubInv
      <4>2. shown'[c] \in Seq(Notes)
        BY <4>1 DEF HubTypeOK
      <4> QED
        BY <4>2, OccursType
    <3> QED
      BY <1>0, <1>2, <3>3, <3>4, <3>5 DEF WriteMessage, Seen
  <2> QED
    BY <2>1, <2>2
<1> QED
  BY <1>1, <1>2 DEF ConnStep, Upgrade, Register, SocketLost, ReadEnds, Unregister,
                    WriterSeesClose, Ping

\* What a step adds to the copies it takes from the ways that are left.
LEMMA NoteStepSeen ==
    ASSUME HubInv, NEW m \in Notes, NoteStep(m), NEW c \in Conns, NEW n \in Notes
    PROVE  Seen(c, n)' + Occurs(bus'[HubOf[c]], n) + WaysLeft(HubOf[c], n)'
               <= Seen(c, n) + Occurs(bus[HubOf[c]], n) + WaysLeft(HubOf[c], n)
<1> DEFINE h == HubOf[c]
<1>0. /\ Occurs(shown[c], n) \in Nat /\ Occurs(send[c], n) \in Nat
      /\ Occurs(bus[h], n) \in Nat /\ h \in Hubs
      /\ push \in [Notes -> {"none", "stored", "local", "published"}]
      /\ bus[h] \in Seq(Notes)
  BY SeenType DEF HubInv, HubTypeOK
<1>9. HubTypeOK'
  BY NoteStepType DEF HubInv
<1>8. Occurs(send'[c], n) \in Nat /\ Occurs(bus'[h], n) \in Nat
  BY <1>0, <1>9, OccursType DEF HubTypeOK
<1>1. CASE Store(m)
  <2>1. /\ push[m] = "none" /\ push' = [push EXCEPT ![m] = "stored"]
        /\ shown' = shown /\ send' = send /\ bus' = bus
    BY <1>1 DEF Store
  <2>2. WaysLeft(h, n)' = WaysLeft(h, n) /\ WaysLeft(h, n) \in Nat
    BY <1>0, <2>1 DEF WaysLeft
  <2>3. Seen(c, n)' = Seen(c, n) /\ Seen(c, n) \in Nat
    BY <1>0, <2>1 DEF Seen
  <2> QED
    BY <1>0, <2>1, <2>2, <2>3
<1>2. CASE PushLocal(m)
  <2>1. /\ push[m] = "stored" /\ push' = [push EXCEPT ![m] = "local"]
        /\ bus' = bus /\ shown' = shown
    BY <1>2 DEF PushLocal
  <2>2. Occurs(send'[c], n)
            <= Occurs(send[c], n) + (IF SentBy[m] = h /\ n = m THEN 1 ELSE 0)
    <3>1. CASE SentBy[m] \in Hubs
      <4>1. DeliverLocal(SentBy[m], m)
        BY <1>2, <3>1 DEF PushLocal
      <4> QED
        BY <1>0, <3>1, <4>1, DeliverLocalSeen
    <3>2. CASE SentBy[m] \notin Hubs
      <4>1. send' = send
        BY <1>2, <3>2 DEF PushLocal
      <4> QED
        BY <1>0, <3>2, <4>1
    <3> QED
      BY <3>1, <3>2
  <2>3. WaysLeft(h, n)' + (IF SentBy[m] = h /\ n = m THEN 1 ELSE 0) = WaysLeft(h, n)
    BY <1>0, <2>1 DEF WaysLeft
  <2>4. WaysLeft(h, n) \in Nat /\ WaysLeft(h, n)' \in Nat
    BY DEF WaysLeft
  <2>5. Seen(c, n)' <= Seen(c, n) + (IF SentBy[m] = h /\ n = m THEN 1 ELSE 0)
    BY <1>0, <1>8, <2>1, <2>2 DEF Seen
  <2>6. Seen(c, n) \in Nat /\ Seen(c, n)' \in Nat
    BY <1>0, <1>8, <2>1 DEF Seen
  <2> QED
    BY <1>0, <2>1, <2>3, <2>4, <2>5, <2>6
<1>3. CASE Publish(m)
  <2>1. /\ push[m] = "local" /\ push' = [push EXCEPT ![m] = "published"]
        /\ send' = send /\ shown' = shown
    BY <1>3 DEF Publish
  <2>2. Occurs(bus'[h], n) <= Occurs(bus[h], n) + (IF n = m THEN 1 ELSE 0)
    <3> DEFINE longer == Append(bus[h], m)
    <3>1. bus'[h] = bus[h] \/ bus'[h] = longer
      BY <1>0, <1>3 DEF Publish, Fanout
    <3>2. Occurs(longer, n) = Occurs(bus[h], n) + (IF m = n THEN 1 ELSE 0)
      BY <1>0, OccursAppend
    <3> HIDE DEF longer
    <3> QED
      BY <1>0, <3>1, <3>2
  <2>3. WaysLeft(h, n)' + (IF n = m THEN 1 ELSE 0) = WaysLeft(h, n)
    BY <1>0, <2>1 DEF WaysLeft
  <2>4. WaysLeft(h, n) \in Nat /\ WaysLeft(h, n)' \in Nat
    BY DEF WaysLeft
  <2>5. Seen(c, n)' = Seen(c, n) /\ Seen(c, n) \in Nat
    BY <1>0, <2>1 DEF Seen
  <2> QED
    BY <1>0, <1>8, <2>2, <2>3, <2>4, <2>5
<1> QED
  BY <1>1, <1>2, <1>3 DEF NoteStep

\* A subscriber turns a copy that waits into one that is in a channel.
LEMMA HubStepSeen ==
    ASSUME HubInv, NEW g \in Hubs, HubStep(g), NEW c \in Conns, NEW n \in Notes
    PROVE  /\ Seen(c, n)' + Occurs(bus'[HubOf[c]], n)
                  <= Seen(c, n) + Occurs(bus[HubOf[c]], n)
           /\ UNCHANGED push
<1> DEFINE h == HubOf[c]
<1>0. /\ Occurs(shown[c], n) \in Nat /\ Occurs(send[c], n) \in Nat
      /\ Occurs(bus[h], n) \in Nat /\ h \in Hubs
      /\ bus \in [Hubs -> Seq(Notes)]
  BY SeenType DEF HubInv, HubTypeOK
<1>9. HubTypeOK'
  BY HubStepType DEF HubInv
<1>8. Occurs(send'[c], n) \in Nat /\ Occurs(bus'[h], n) \in Nat
  BY <1>0, <1>9, OccursType DEF HubTypeOK
<1>1. CASE UNCHANGED <<shown, send, bus, push>>
  BY <1>0, <1>1 DEF Seen
<1>2. CASE Receive(g)
  <2>1. /\ bus[g] # << >> /\ bus' = [bus EXCEPT ![g] = Tail(@)]
        /\ DeliverLocal(g, Head(bus[g])) /\ shown' = shown /\ push' = push
    BY <1>2 DEF Receive
  <2>2. bus[g] \in Seq(Notes) /\ Head(bus[g]) \in Notes
    BY <1>0, <2>1
  <2>3. Occurs(send'[c], n)
            <= Occurs(send[c], n) + (IF h = g /\ n = Head(bus[g]) THEN 1 ELSE 0)
    BY <2>1, <2>2, DeliverLocalSeen
  <2>4. CASE h = g
    <3>1. Occurs(bus[h], n) = Occurs(bus'[h], n) + (IF Head(bus[g]) = n THEN 1 ELSE 0)
      BY <1>0, <2>1, <2>2, <2>4, OccursTail
    <3>2. Seen(c, n)' <= Seen(c, n) + (IF Head(bus[g]) = n THEN 1 ELSE 0)
      BY <1>0, <1>8, <2>1, <2>3, <2>4 DEF Seen
    <3>3. Seen(c, n) \in Nat /\ Seen(c, n)' \in Nat
      BY <1>0, <1>8, <2>1 DEF Seen
    <3> QED
      BY <1>0, <1>8, <2>1, <3>1, <3>2, <3>3
  <2>5. CASE h # g
    BY <1>0, <1>8, <2>1, <2>3, <2>5 DEF Seen
  <2> QED
    BY <2>4, <2>5
<1> QED
  BY <1>1, <1>2 DEF HubStep, Subscribe, SubscriberEnds, HubCancel, LoopStops

\* No step raises what a connection has and is to have of a notification.
LEMMA AllowanceStep == HubInv /\ HubInv' /\ Allowance /\ [HubNext]_hubVars => Allowance'
<1> SUFFICES ASSUME HubInv, HubInv', Allowance, [HubNext]_hubVars,
                    NEW c \in Conns, NEW n \in Notes
             PROVE  Seen(c, n)' + Occurs(bus'[HubOf[c]], n) + WaysLeft(HubOf[c], n)'
                        <= (IF SentBy[n] = HubOf[c] THEN 2 ELSE 1)
  BY DEF Allowance
<1> DEFINE h == HubOf[c]
<1>0. /\ Seen(c, n) \in Nat /\ Occurs(bus[h], n) \in Nat /\ WaysLeft(h, n) \in Nat
      /\ Seen(c, n) + Occurs(bus[h], n) + WaysLeft(h, n)
             <= (IF SentBy[n] = h THEN 2 ELSE 1)
  BY SeenType DEF HubInv, Seen, Allowance
<1>9. /\ Seen(c, n)' \in Nat /\ Occurs(bus'[h], n) \in Nat /\ WaysLeft(h, n)' \in Nat
  <2>1. HubTypeOK' /\ h \in Hubs
    BY ConnsAssumption DEF HubInv
  <2>2. shown'[c] \in Seq(Notes) /\ send'[c] \in Seq(Notes) /\ bus'[h] \in Seq(Notes)
    BY <2>1 DEF HubTypeOK
  <2>3. /\ Occurs(shown'[c], n) \in Nat /\ Occurs(send'[c], n) \in Nat
        /\ Occurs(bus'[h], n) \in Nat
    BY <2>2, OccursType
  <2>4. WaysLeft(h, n)' \in Nat
    BY DEF WaysLeft
  <2> QED
    BY <2>3, <2>4 DEF Seen
<1>1. CASE UNCHANGED hubVars
  BY <1>0, <1>1 DEF hubVars, Seen, WaysLeft
<1>2. ASSUME NEW d \in Conns, ConnStep(d)
      PROVE  Seen(c, n)' + Occurs(bus'[h], n) + WaysLeft(h, n)'
                 <= (IF SentBy[n] = h THEN 2 ELSE 1)
  <2>1. Seen(c, n)' <= Seen(c, n) /\ bus' = bus /\ WaysLeft(h, n)' = WaysLeft(h, n)
    BY <1>2, ConnStepSeen DEF WaysLeft
  <2> QED
    BY <1>0, <1>9, <2>1
<1>3. ASSUME NEW m \in Notes, NoteStep(m)
      PROVE  Seen(c, n)' + Occurs(bus'[h], n) + WaysLeft(h, n)'
                 <= (IF SentBy[n] = h THEN 2 ELSE 1)
  BY <1>0, <1>3, <1>9, NoteStepSeen
<1>4. ASSUME NEW g \in Hubs, HubStep(g)
      PROVE  Seen(c, n)' + Occurs(bus'[h], n) + WaysLeft(h, n)'
                 <= (IF SentBy[n] = h THEN 2 ELSE 1)
  <2>1. /\ Seen(c, n)' + Occurs(bus'[h], n) <= Seen(c, n) + Occurs(bus[h], n)
        /\ WaysLeft(h, n)' = WaysLeft(h, n)
    BY <1>4, HubStepSeen DEF WaysLeft
  <2> QED
    BY <1>0, <1>9, <2>1
<1> QED
  BY <1>1, <1>2, <1>3, <1>4 DEF HubNext

\* At the start there are only ways.
LEMMA AllowanceInit == HubInit => Allowance
<1> SUFFICES ASSUME HubInit, NEW c \in Conns, NEW n \in Notes
             PROVE  Seen(c, n) + Occurs(bus[HubOf[c]], n) + WaysLeft(HubOf[c], n)
                        <= (IF SentBy[n] = HubOf[c] THEN 2 ELSE 1)
  BY DEF Allowance
<1>1. HubOf[c] \in Hubs
  BY ConnsAssumption
<1>2. shown[c] = << >> /\ send[c] = << >> /\ bus[HubOf[c]] = << >> /\ push[n] = "none"
  BY <1>1 DEF HubInit
<1>3. Occurs(shown[c], n) = 0 /\ Occurs(send[c], n) = 0 /\ Occurs(bus[HubOf[c]], n) = 0
  BY <1>2, OccursEmpty
<1> QED
  BY <1>2, <1>3 DEF Seen, WaysLeft

\* A notification reaches a connection at most once on each way it is sent on:
\* twice from the instance that also publishes it, once from anyone else, however
\* connections come and go and however slowly the channels drain.
THEOREM NotificationAtMostTwice == HubSpec => []ShownAtMostTwice
<1>1. CopyInv => ShownAtMostTwice
  <2> SUFFICES ASSUME HubInv, Allowance, NEW c \in Conns, NEW n \in Notes
               PROVE  Copies(c, n) <= (IF SentBy[n] = HubOf[c] THEN 2 ELSE 1)
    BY DEF CopyInv, ShownAtMostTwice
  <2> DEFINE s == shown[c] \o send[c]
  <2>1. shown[c] \in Seq(Notes) /\ send[c] \in Seq(Notes) /\ s \in Seq(Notes)
    BY DEF HubInv, HubTypeOK
  <2>2. Copies(c, n) = Occurs(s, n)
    <3>1. DOMAIN s = 1..Len(s)
      BY <2>1
    <3> QED
      BY <3>1 DEF Copies, Occurs, Positions
  <2>3. Copies(c, n) = Seen(c, n)
    BY <2>1, <2>2, OccursConcat DEF Seen
  <2>4. /\ Occurs(bus[HubOf[c]], n) \in Nat /\ WaysLeft(HubOf[c], n) \in Nat
        /\ Seen(c, n) \in Nat
    BY SeenType DEF HubInv, Seen
  <2>5. Seen(c, n) + Occurs(bus[HubOf[c]], n) + WaysLeft(HubOf[c], n)
            <= (IF SentBy[n] = HubOf[c] THEN 2 ELSE 1)
    BY DEF Allowance
  <2> QED
    BY <2>3, <2>4, <2>5
<1>2. HubSpec => []Allowance
  BY HubInvInductive, AllowanceInit, AllowanceStep, PTL DEF HubSpec
<1> QED
  BY <1>1, <1>2, HubInvInductive, PTL DEF CopyInv
===============================================================================
