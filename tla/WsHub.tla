-------------------------------- MODULE WsHub --------------------------------
(***************************************************************************)
(* Pushing notifications to browsers: a notification is stored, published  *)
(* on Redis pub/sub, received by the hubs of the serve instances and put   *)
(* into the send channel of the recipient's connection, whose writePump    *)
(* writes it to the socket.                                                *)
(*                                                                         *)
(* One hub is a Run loop, a subscriber and, for each connection, a         *)
(* readPump and a writePump, all of them goroutines.  Register and         *)
(* Unregister are the loop's receives on its unbuffered channels.          *)
(*                                                                         *)
(* A definition whose comment begins with "Mutant" is no part of the model *)
(* (see OrderPayment).  The names are prefixed so that a module can extend *)
(* this one together with others.                                          *)
(***************************************************************************)
EXTENDS Naturals, Sequences, FiniteSets, SequencesExt

CONSTANTS Hubs,      \* serve instances
          Users, Conns, Notes,
          HubOf,     \* the instance a connection is made to
          UserOf,    \* the user whose token the connection was upgraded with
          Recipient, \* the user a notification is for
          SentBy,    \* the process that calls SendToUser: a hub or "worker"
          Capacity,  \* of a send channel, 256 in the code
          Nobody     \* no entry in a hub's map

ASSUME ConnsAssumption == HubOf \in [Conns -> Hubs] /\ UserOf \in [Conns -> Users]
ASSUME NotesAssumption ==
    Recipient \in [Notes -> Users] /\ SentBy \in [Notes -> Hubs \cup {"worker"}]
ASSUME CapacityAssumption == Capacity \in Nat
ASSUME NobodyAssumption == Nobody \notin Conns

VARIABLES loop,       \* a hub's Run loop
          subscriber, \* a hub's runSubscriber
          clients,    \* a hub's map from users to connections
          reader,     \* a connection's handler and readPump
          writer,     \* a connection's writePump
          socket,     \* whether the connection's socket can still be used
          send,       \* a connection's send channel
          closed,     \* whether that channel is closed
          shown,      \* what was written to the socket
          bus,        \* what Redis has delivered to a hub's subscription
          push,       \* how far CreateNotification is with a notification
          panicked    \* a closed channel was closed again or sent to

hubVars == <<loop, subscriber, clients, reader, writer, socket, send, closed,
             shown, bus, push, panicked>>

HubTypeOK ==
    /\ loop \in [Hubs -> {"running", "cancelled", "stopped"}]
    /\ subscriber \in [Hubs -> {"starting", "live", "ended"}]
    /\ clients \in [Hubs -> [Users -> Conns \cup {Nobody}]]
    /\ reader \in [Conns -> {"none", "registering", "reading", "leaving", "gone"}]
    /\ writer \in [Conns -> {"none", "writing", "ended"}]
    /\ socket \in [Conns -> {"up", "down"}]
    /\ send \in [Conns -> Seq(Notes)]
    /\ \A c \in Conns : Len(send[c]) <= Capacity
    /\ closed \in [Conns -> BOOLEAN]
    /\ shown \in [Conns -> Seq(Notes)]
    /\ bus \in [Hubs -> Seq(Notes)]
    /\ push \in [Notes -> {"none", "stored", "local", "published"}]
    /\ panicked \in BOOLEAN

HubInit ==
    /\ loop = [h \in Hubs |-> "running"]
    /\ subscriber = [h \in Hubs |-> "starting"]
    /\ clients = [h \in Hubs |-> [u \in Users |-> Nobody]]
    /\ reader = [c \in Conns |-> "none"]
    /\ writer = [c \in Conns |-> "none"]
    /\ socket = [c \in Conns |-> "up"]
    /\ send = [c \in Conns |-> << >>]
    /\ closed = [c \in Conns |-> FALSE]
    /\ shown = [c \in Conns |-> << >>]
    /\ bus = [h \in Hubs |-> << >>]
    /\ push = [n \in Notes |-> "none"]
    /\ panicked = FALSE

-------------------------------------------------------------------------------
(* A connection *)

\* UpgradeConnection up to its send on the register channel.
Upgrade(c) ==
    /\ reader[c] = "none"
    /\ reader' = [reader EXCEPT ![c] = "registering"]
    /\ UNCHANGED <<loop, subscriber, clients, writer, socket, send, closed, shown,
                   bus, push, panicked>>

\* The loop receives the connection and overwrites the user's entry, whatever
\* it was; the handler starts both pumps.
Register(c) ==
    /\ reader[c] = "registering" /\ loop[HubOf[c]] # "stopped"
    /\ clients' = [clients EXCEPT ![HubOf[c]][UserOf[c]] = c]
    /\ reader' = [reader EXCEPT ![c] = "reading"]
    /\ writer' = [writer EXCEPT ![c] = "writing"]
    /\ UNCHANGED <<loop, subscriber, socket, send, closed, shown, bus, push, panicked>>

\* The browser leaves, or the pong deadline passes.
SocketLost(c) ==
    /\ reader[c] \in {"registering", "reading"} /\ socket[c] = "up"
    /\ socket' = [socket EXCEPT ![c] = "down"]
    /\ UNCHANGED <<loop, subscriber, clients, reader, writer, send, closed, shown,
                   bus, push, panicked>>

\* ReadMessage fails and the readPump goes on to its send on unregister.
ReadEnds(c) ==
    /\ reader[c] = "reading" /\ socket[c] = "down"
    /\ reader' = [reader EXCEPT ![c] = "leaving"]
    /\ UNCHANGED <<loop, subscriber, clients, writer, socket, send, closed, shown,
                   bus, push, panicked>>

\* Mutant: the channel is closed and the entry stays.
UnregisterKeepsEntry(c) ==
    /\ reader[c] = "leaving" /\ loop[HubOf[c]] # "stopped"
    /\ IF clients[HubOf[c]][UserOf[c]] # Nobody
       THEN closed' = [closed EXCEPT ![c] = TRUE] /\ panicked' = (panicked \/ closed[c])
       ELSE UNCHANGED <<closed, panicked>>
    /\ reader' = [reader EXCEPT ![c] = "gone"]
    /\ socket' = [socket EXCEPT ![c] = "down"]
    /\ UNCHANGED <<loop, subscriber, clients, writer, send, shown, bus, push>>

\* The loop looks for an entry of the user, whichever connection it holds,
\* deletes it and closes the channel of the connection that leaves.
Unregister(c) ==
    /\ reader[c] = "leaving" /\ loop[HubOf[c]] # "stopped"
    /\ IF clients[HubOf[c]][UserOf[c]] # Nobody
       THEN /\ clients' = [clients EXCEPT ![HubOf[c]][UserOf[c]] = Nobody]
            /\ closed' = [closed EXCEPT ![c] = TRUE]
            /\ panicked' = (panicked \/ closed[c])
       ELSE UNCHANGED <<clients, closed, panicked>>
    /\ reader' = [reader EXCEPT ![c] = "gone"]
    /\ socket' = [socket EXCEPT ![c] = "down"]
    /\ UNCHANGED <<loop, subscriber, writer, send, shown, bus, push>>

\* The writePump takes a message; writing it to a dead socket ends the pump.
WriteMessage(c) ==
    /\ writer[c] = "writing" /\ send[c] # << >>
    /\ send' = [send EXCEPT ![c] = Tail(@)]
    /\ IF socket[c] = "up"
       THEN shown' = [shown EXCEPT ![c] = Append(@, Head(send[c]))] /\ UNCHANGED writer
       ELSE writer' = [writer EXCEPT ![c] = "ended"] /\ UNCHANGED shown
    /\ UNCHANGED <<loop, subscriber, clients, reader, socket, closed, bus, push,
                   panicked>>

\* A closed channel is drained before the pump sees that it is closed.
WriterSeesClose(c) ==
    /\ writer[c] = "writing" /\ closed[c] /\ send[c] = << >>
    /\ writer' = [writer EXCEPT ![c] = "ended"]
    /\ socket' = [socket EXCEPT ![c] = "down"]
    /\ UNCHANGED <<loop, subscriber, clients, reader, send, closed, shown, bus, push,
                   panicked>>

\* Mutant: the result of the ping is ignored.
PingIgnored(c) ==
    /\ writer[c] = "writing" /\ socket[c] = "down"
    /\ UNCHANGED hubVars

\* The ticker's ping fails on a dead socket.
Ping(c) ==
    /\ writer[c] = "writing" /\ socket[c] = "down"
    /\ writer' = [writer EXCEPT ![c] = "ended"]
    /\ UNCHANGED <<loop, subscriber, clients, reader, socket, send, closed, shown,
                   bus, push, panicked>>

-------------------------------------------------------------------------------
(* Notifications *)

\* deliverLocal: to the connection in the map; a full channel drops the message.
DeliverLocal(h, n) ==
    LET c == clients[h][Recipient[n]] IN
    IF c = Nobody
    THEN UNCHANGED <<send, panicked>>
    ELSE /\ panicked' = (panicked \/ closed[c])
         /\ send' = IF Len(send[c]) < Capacity
                    THEN [send EXCEPT ![c] = Append(@, n)] ELSE send

\* CreateNotification inserts the row before anything is pushed.
Store(n) ==
    /\ push[n] = "none"
    /\ push' = [push EXCEPT ![n] = "stored"]
    /\ UNCHANGED <<loop, subscriber, clients, reader, writer, socket, send, closed,
                   shown, bus, panicked>>

\* SendToUser's fast path; the worker's hub has no connections.
PushLocal(n) ==
    /\ push[n] = "stored"
    /\ push' = [push EXCEPT ![n] = "local"]
    /\ IF SentBy[n] \in Hubs THEN DeliverLocal(SentBy[n], n)
       ELSE UNCHANGED <<send, panicked>>
    /\ UNCHANGED <<loop, subscriber, clients, reader, writer, socket, closed, shown, bus>>

\* Redis delivers to the live subscriptions, or loses the message on the way to
\* some of them, at most once.
Fanout(n) ==
    \E S \in SUBSET {h \in Hubs : subscriber[h] = "live"} :
        bus' = [h \in Hubs |-> IF h \in S THEN Append(bus[h], n) ELSE bus[h]]

\* Mutant: publishing is tried again after an error reply.
PublishRetried(n) ==
    /\ push[n] = "local"
    /\ \/ push' = [push EXCEPT ![n] = "published"]
       \/ (\A h \in Hubs : bus[h] = << >>) /\ UNCHANGED push
    /\ Fanout(n)
    /\ UNCHANGED <<loop, subscriber, clients, reader, writer, socket, send, closed,
                   shown, panicked>>

\* The rest of SendToUser.  An error is only logged.
Publish(n) ==
    /\ push[n] = "local"
    /\ push' = [push EXCEPT ![n] = "published"]
    /\ Fanout(n)
    /\ UNCHANGED <<loop, subscriber, clients, reader, writer, socket, send, closed,
                   shown, panicked>>

\* The subscriber takes the next message to the hub's own connections.
Receive(h) ==
    /\ subscriber[h] = "live" /\ bus[h] # << >>
    /\ bus' = [bus EXCEPT ![h] = Tail(@)]
    /\ DeliverLocal(h, Head(bus[h]))
    /\ UNCHANGED <<loop, subscriber, clients, reader, writer, socket, closed, shown, push>>

-------------------------------------------------------------------------------
(* Start and stop of a hub *)

\* The subscription is confirmed; before that nothing is received.
Subscribe(h) ==
    /\ subscriber[h] = "starting"
    /\ subscriber' = [subscriber EXCEPT ![h] = "live"]
    /\ UNCHANGED <<loop, clients, reader, writer, socket, send, closed, shown, bus,
                   push, panicked>>

\* The confirmation fails and is not tried again, or the context is cancelled.
SubscriberEnds(h) ==
    /\ \/ subscriber[h] = "starting"
       \/ subscriber[h] = "live" /\ loop[h] # "running"
    /\ subscriber' = [subscriber EXCEPT ![h] = "ended"]
    /\ UNCHANGED <<loop, clients, reader, writer, socket, send, closed, shown, bus,
                   push, panicked>>

\* The process shuts down: hubCancel.
HubCancel(h) ==
    /\ loop[h] = "running"
    /\ loop' = [loop EXCEPT ![h] = "cancelled"]
    /\ UNCHANGED <<subscriber, clients, reader, writer, socket, send, closed, shown,
                   bus, push, panicked>>

Registered(h) == {clients[h][u] : u \in Users} \ {Nobody}

\* The loop sees the cancellation, which it may do only after more receives:
\* the select picks any case that is ready.
LoopStops(h) ==
    /\ loop[h] = "cancelled"
    /\ loop' = [loop EXCEPT ![h] = "stopped"]
    /\ closed' = [c \in Conns |-> closed[c] \/ c \in Registered(h)]
    /\ panicked' = (panicked \/ \E c \in Registered(h) : closed[c])
    /\ clients' = [clients EXCEPT ![h] = [u \in Users |-> Nobody]]
    /\ UNCHANGED <<subscriber, reader, writer, socket, send, shown, bus, push>>

-------------------------------------------------------------------------------

ConnStep(c) ==
    \/ Upgrade(c) \/ Register(c) \/ SocketLost(c) \/ ReadEnds(c) \/ Unregister(c)
    \/ WriteMessage(c) \/ WriterSeesClose(c) \/ Ping(c)

NoteStep(n) == Store(n) \/ PushLocal(n) \/ Publish(n)

HubStep(h) ==
    \/ Receive(h) \/ Subscribe(h) \/ SubscriberEnds(h) \/ HubCancel(h) \/ LoopStops(h)

HubNext ==
    \/ \E c \in Conns : ConnStep(c)
    \/ \E n \in Notes : NoteStep(n)
    \/ \E h \in Hubs : HubStep(h)

HubSpec == HubInit /\ [][HubNext]_hubVars

\* Goroutines that can go on do: pumps, the loop and the subscriber.
HubFairness ==
    /\ \A c \in Conns :
        /\ WF_hubVars(Register(c)) /\ WF_hubVars(ReadEnds(c)) /\ WF_hubVars(Unregister(c))
        /\ WF_hubVars(WriteMessage(c)) /\ WF_hubVars(WriterSeesClose(c))
        /\ WF_hubVars(Ping(c))
    /\ \A h \in Hubs : WF_hubVars(Receive(h)) /\ WF_hubVars(LoopStops(h))

HubFairSpec == HubSpec /\ HubFairness

-------------------------------------------------------------------------------
(* Properties *)

\* deliverLocal's comment: a close cannot race with a send.  No channel is closed
\* twice or sent to when closed, in whichever order connections of one user
\* come and go, messages arrive and the hub stops: any of it ends the process.
NoPanic == ~panicked

\* A connection a hub routes to has a handler that has yet to unregister it.
NoStaleClient ==
    \A h \in Hubs, u \in Users :
        clients[h][u] # Nobody => reader[clients[h][u]] \in {"reading", "leaving"}

Copies(c, n) == Cardinality({i \in DOMAIN (shown[c] \o send[c]) : (shown[c] \o send[c])[i] = n})

\* A connection sees a notification at most twice: by the fast path and by the
\* subscription of the same instance; once if another process sent it.
ShownAtMostTwice ==
    \A c \in Conns, n \in Notes : Copies(c, n) <= (IF SentBy[n] = HubOf[c] THEN 2 ELSE 1)

\* No writePump outlives its connection, although Unregister closes no channel
\* when another connection of the user has taken the entry away before.
WriterEnds == \A c \in Conns : reader[c] = "gone" ~> writer[c] = "ended"

\* IsUserOnline: a user is online while a connection of theirs is active on this
\* instance.
OnlineWhileConnected ==
    \A c \in Conns :
        reader[c] = "reading" /\ socket[c] = "up" /\ loop[HubOf[c]] = "running"
            => clients[HubOf[c]][UserOf[c]] # Nobody
===============================================================================
