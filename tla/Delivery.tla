------------------------------ MODULE Delivery ------------------------------
(***************************************************************************)
(* A text message from SendText on one device to the history of another:   *)
(* the sender's outbox and run loop, the relay's handlers and queue, and   *)
(* the connections between them.  All devices are enrolled and active.     *)
(*                                                                         *)
(* Processes: on each device the run loop (dial, handshake, flush, read    *)
(* loop) and one SendText call per message; on the relay one goroutine per *)
(* connection.  A step is one access to shared state: an SQL statement, a  *)
(* socket write, a look at s.conns.  Where two such accesses are one step, *)
(* the comment says which other step stands for a failure between them.    *)
(*                                                                         *)
(* A connection carries frames in order until it goes down; what is then   *)
(* in flight is cut off at any point, and either end finds out later.      *)
(***************************************************************************)
EXTENDS Naturals, FiniteSets, SequencesExt

CONSTANTS
    Device, Msg, None,
    From, To,          \* who composes each message, and for whom
    MaxQueuePerDevice, \* the relay's cap on waiting messages per recipient
    MaxFaults          \* bound: connections cut and processes killed

ASSUME DeliveryAssumption ==
    /\ None \notin Msg
    /\ From \in [Msg -> Device] /\ To \in [Msg -> Device]
    /\ \A m \in Msg : From[m] # To[m]
    /\ MaxQueuePerDevice \in Nat \ {0} /\ MaxFaults \in Nat

VARIABLES
    \* on the devices
    app,      \* where the SendText call for each message is
    out,      \* messages.state of the sender's row, "none" before there is one
    outbox,   \* the outbox table of each device
    history,  \* messages stored with state "received"
    dropped,  \* messages of an unknown sender: discarded and acked
    peers,    \* the peers table of each device
    cli,      \* where the run loop of each device is
    todo,     \* flushOutbox's rows still to send
    \* on the relay
    srv,      \* where the goroutine of the device's registered connection is
    hold,     \* the message its handleMsg found no connection for
    stray,    \* the same, for connections that were replaced meanwhile
    queue,    \* the queue table, per recipient
    \* the network
    link,     \* the device's newest connection
    up, down, \* frames in flight to the relay and to the device
    lost,     \* history: messages of which the network, a kill or the cap
              \* took a copy, or the relay refused one
    faults

devVars == <<app, out, outbox, history, dropped, peers, cli, todo>>
srvVars == <<srv, hold, stray, queue>>
netVars == <<link, up, down, lost, faults>>
vars == <<devVars, srvVars, netVars>>

\* The states of the run loop in which currentConn() is set and State() is
\* StateReady.
Ready == {"list", "flush", "delete", "mark", "serve"}

MsgFrame(m) == <<"msg", m>>
AckFrame(m) == <<"ack", m>>
ReadyFrame == <<"ready", None>>
SnapFrame == <<"snapshot", None>>

MsgsIn(s) == {m \in Msg : \E i \in DOMAIN s : s[i] = MsgFrame(m)}

\* DELETE of the row of a message in the outbox or the queue: the message's id
\* is the key of both tables.
DeleteRow(rows, m) ==
    IF m \in Range(rows) THEN RemoveAt(rows, CHOOSE i \in DOMAIN rows : rows[i] = m) ELSE rows

\* A device that enrolled before its peer did does not know it yet.
Init ==
    /\ app = [m \in Msg |-> "new"]
    /\ out = [m \in Msg |-> "none"]
    /\ outbox = [d \in Device |-> <<>>]
    /\ history = {} /\ dropped = {}
    /\ peers \in {p \in [Device -> SUBSET Device] : \A d \in Device : d \notin p[d]}
    /\ cli = [d \in Device |-> "off"]
    /\ todo = [d \in Device |-> <<>>]
    /\ srv = [d \in Device |-> "none"]
    /\ hold = [d \in Device |-> None]
    /\ stray = {}
    /\ queue = [d \in Device |-> <<>>]
    /\ link = [d \in Device |-> "down"]
    /\ up = [d \in Device |-> <<>>]
    /\ down = [d \in Device |-> <<>>]
    /\ lost = {}
    /\ faults = 0

\* A write to the socket: a frame for a connection that is down is swallowed
\* by the kernel or fails, which the caller may or may not learn.
WriteUp(d, f) == up' = IF link[d] = "up" THEN [up EXCEPT ![d] = Append(@, f)] ELSE up

\* conn.trySend to the registered connection of d.
TrySend(d, f) ==
    down' = IF link[d] = "up" THEN [down EXCEPT ![d] = Append(@, f)] ELSE down

-----------------------------------------------------------------------------
(* SendText *)

\* getPeer, currentConn, and the write of the frame if the client is ready.
SendLive(m) ==
    LET d == From[m] IN
    /\ app[m] = "new" /\ To[m] \in peers[d]
    /\ cli[d] \in Ready
    /\ WriteUp(d, MsgFrame(m))
    /\ lost' = IF link[d] = "up" THEN lost ELSE lost \cup {m}
    /\ app' = [app EXCEPT ![m] = "sent"]
    /\ UNCHANGED <<out, outbox, history, dropped, peers, cli, todo, srvVars, link, down, faults>>

\* No connection, or the write failed.
SendFails(m) ==
    /\ app[m] = "new" /\ To[m] \in peers[From[m]]
    /\ cli[From[m]] \notin Ready \/ link[From[m]] # "up"
    /\ app' = [app EXCEPT ![m] = "unsent"]
    /\ UNCHANGED <<out, outbox, history, dropped, peers, cli, todo, srvVars, netVars>>

EnqueueOutbox(m) ==
    /\ app[m] = "unsent"
    /\ outbox' = [outbox EXCEPT ![From[m]] = Append(DeleteRow(@, m), m)]
    /\ app' = [app EXCEPT ![m] = "queued"]
    /\ UNCHANGED <<out, history, dropped, peers, cli, todo, srvVars, netVars>>

\* insertMessage, INSERT OR IGNORE, with the state SendText decided on.
InsertMessage(m) ==
    /\ app[m] \in {"sent", "queued"}
    /\ out' = [out EXCEPT ![m] = IF @ = "none" THEN app[m] ELSE @]
    /\ app' = [app EXCEPT ![m] = "done"]
    /\ UNCHANGED <<outbox, history, dropped, peers, cli, todo, srvVars, netVars>>

-----------------------------------------------------------------------------
(* The run loop of device d *)

\* connectAndServe: dial, hello and the challenge.
Dial(d) ==
    /\ cli[d] = "off"
    /\ cli' = [cli EXCEPT ![d] = "handshake"]
    /\ link' = [link EXCEPT ![d] = "dialed"]
    /\ UNCHANGED <<app, out, outbox, history, dropped, peers, todo, srvVars, up, down, lost, faults>>

\* setMessageState: UPDATE changes nothing when there is no row.
SetMessageState(m, st) ==
    out' = [out EXCEPT ![m] = IF @ = "none" THEN @ ELSE st]

\* A frame is read by the handshake or by the read loop; both dispatch it.
Read(d, f) ==
    /\ cli[d] \in {"handshake", "serve"}
    /\ down[d] # <<>> /\ Head(down[d]) = f
    /\ down' = [down EXCEPT ![d] = Tail(@)]

\* The handshake ends, the connection is published and the flush begins.
NoFlushMutant(d) ==
    /\ Read(d, ReadyFrame)
    /\ cli' = [cli EXCEPT ![d] = "serve"]
    /\ UNCHANGED <<app, out, outbox, history, dropped, peers, todo, srvVars, link, up, lost, faults>>
HandleReady(d) ==
    /\ Read(d, ReadyFrame)
    /\ cli' = [cli EXCEPT ![d] = "list"]
    /\ UNCHANGED <<app, out, outbox, history, dropped, peers, todo, srvVars, link, up, lost, faults>>

HandleSnapshot(d) ==
    /\ Read(d, SnapFrame)
    /\ peers' = [peers EXCEPT ![d] = Device \ {d}]
    /\ UNCHANGED <<app, out, outbox, history, dropped, cli, todo, srvVars, link, up, lost, faults>>

\* The message is stored, or discarded when the sender is unknown, and acked.
\* A failure between the two is a cut that takes the ack.
HandleIncomingMsg(d, m) ==
    /\ Read(d, MsgFrame(m))
    /\ IF From[m] \in peers[d]
       THEN history' = history \cup {m} /\ UNCHANGED dropped
       ELSE dropped' = dropped \cup {m} /\ UNCHANGED history
    /\ WriteUp(d, AckFrame(m))
    /\ UNCHANGED <<app, out, outbox, peers, cli, todo, srvVars, link, lost, faults>>

\* deleteOutbox "in case an ack races the outbox flush", then the state.
KeepOutboxMutant(d, m) ==
    /\ Read(d, AckFrame(m))
    /\ SetMessageState(m, "delivered")
    /\ UNCHANGED <<app, outbox, history, dropped, peers, cli, todo, srvVars, link, up, lost, faults>>
HandleAck(d, m) ==
    /\ Read(d, AckFrame(m))
    /\ outbox' = [outbox EXCEPT ![d] = DeleteRow(@, m)]
    /\ SetMessageState(m, "delivered")
    /\ UNCHANGED <<app, history, dropped, peers, cli, todo, srvVars, link, up, lost, faults>>

\* flushOutbox: listOutbox, then send, delete and mark each row.
ListOutbox(d) ==
    /\ cli[d] = "list"
    /\ todo' = [todo EXCEPT ![d] = outbox[d]]
    /\ cli' = [cli EXCEPT ![d] = IF outbox[d] = <<>> THEN "serve" ELSE "flush"]
    /\ UNCHANGED <<app, out, outbox, history, dropped, peers, srvVars, netVars>>

FlushSend(d) ==
    /\ cli[d] = "flush"
    /\ WriteUp(d, MsgFrame(Head(todo[d])))
    /\ lost' = IF link[d] = "up" THEN lost ELSE lost \cup {Head(todo[d])}
    /\ cli' = [cli EXCEPT ![d] = "delete"]
    /\ UNCHANGED <<app, out, outbox, history, dropped, peers, todo, srvVars, link, down, faults>>

\* A write that fails ends the flush; the rows stay for the next connection.
DeleteUnsentMutant(d) ==
    /\ cli[d] = "flush" /\ link[d] # "up"
    /\ outbox' = [outbox EXCEPT ![d] = DeleteRow(@, Head(todo[d]))]
    /\ cli' = [cli EXCEPT ![d] = "serve"]
    /\ todo' = [todo EXCEPT ![d] = <<>>]
    /\ UNCHANGED <<app, out, history, dropped, peers, srvVars, netVars>>
FlushFails(d) ==
    /\ cli[d] = "flush" /\ link[d] # "up"
    /\ cli' = [cli EXCEPT ![d] = "serve"]
    /\ todo' = [todo EXCEPT ![d] = <<>>]
    /\ UNCHANGED <<app, out, outbox, history, dropped, peers, srvVars, netVars>>

DeleteOutbox(d) ==
    /\ cli[d] = "delete"
    /\ outbox' = [outbox EXCEPT ![d] = DeleteRow(@, Head(todo[d]))]
    /\ cli' = [cli EXCEPT ![d] = "mark"]
    /\ UNCHANGED <<app, out, history, dropped, peers, todo, srvVars, netVars>>

MarkDeliveredMutant(d) ==
    /\ cli[d] = "mark"
    /\ SetMessageState(Head(todo[d]), "delivered")
    /\ todo' = [todo EXCEPT ![d] = Tail(@)]
    /\ cli' = [cli EXCEPT ![d] = IF Len(todo[d]) = 1 THEN "serve" ELSE "flush"]
    /\ UNCHANGED <<app, outbox, history, dropped, peers, srvVars, netVars>>
FlushPastEndMutant(d) ==
    /\ cli[d] = "mark"
    /\ SetMessageState(Head(todo[d]), "sent")
    /\ todo' = [todo EXCEPT ![d] = Tail(@)]
    /\ cli' = [cli EXCEPT ![d] = "flush"]
    /\ UNCHANGED <<app, outbox, history, dropped, peers, srvVars, netVars>>
MarkSent(d) ==
    /\ cli[d] = "mark"
    /\ SetMessageState(Head(todo[d]), "sent")
    /\ todo' = [todo EXCEPT ![d] = Tail(@)]
    /\ cli' = [cli EXCEPT ![d] = IF Len(todo[d]) = 1 THEN "serve" ELSE "flush"]
    /\ UNCHANGED <<app, outbox, history, dropped, peers, srvVars, netVars>>

\* The read fails; connectAndServe returns and the connection is closed.
Disconnected(d) ==
    /\ cli[d] \in {"handshake", "serve"} /\ link[d] = "down" /\ down[d] = <<>>
    /\ cli' = [cli EXCEPT ![d] = "off"]
    /\ UNCHANGED <<app, out, outbox, history, dropped, peers, todo, srvVars, netVars>>

-----------------------------------------------------------------------------
(* The relay, on the goroutine of d's connection *)

\* addConn replaces and closes the connection the registry still had, with
\* what was in flight on it; a handler of that connection runs on.
Register(d) ==
    /\ link[d] = "dialed"
    /\ link' = [link EXCEPT ![d] = "up"]
    /\ srv' = [srv EXCEPT ![d] = "greet"]
    /\ stray' = stray \cup ({hold[d]} \ {None})
    /\ hold' = [hold EXCEPT ![d] = None]
    /\ lost' = lost \cup MsgsIn(up[d])
    /\ up' = [up EXCEPT ![d] = <<>>]
    /\ down' = [down EXCEPT ![d] = <<>>]
    /\ UNCHANGED <<devVars, queue, faults>>

\* afterReady: the ready frame, the directory snapshot, the queue.
Greet(d) ==
    /\ srv[d] = "greet"
    /\ TrySend(d, ReadyFrame)
    /\ srv' = [srv EXCEPT ![d] = "snapshot"]
    /\ UNCHANGED <<devVars, hold, stray, queue, link, up, lost, faults>>

SendSnapshot(d) ==
    /\ srv[d] = "snapshot"
    /\ TrySend(d, SnapFrame)
    /\ srv' = [srv EXCEPT ![d] = "drain"]
    /\ UNCHANGED <<devVars, hold, stray, queue, link, up, lost, faults>>

\* The rows stay until they are acked.  A cut while they are sent is a cut
\* that takes the last of them.
DrainDeletesMutant(d) ==
    /\ srv[d] = "drain"
    /\ down' = IF link[d] = "up"
               THEN [down EXCEPT ![d] = @ \o [i \in DOMAIN queue[d] |-> MsgFrame(queue[d][i])]]
               ELSE down
    /\ queue' = [queue EXCEPT ![d] = <<>>]
    /\ srv' = [srv EXCEPT ![d] = "serve"]
    /\ UNCHANGED <<devVars, hold, stray, link, up, lost, faults>>
SkipDrainMutant(d) ==
    /\ srv[d] = "drain"
    /\ srv' = [srv EXCEPT ![d] = "serve"]
    /\ UNCHANGED <<devVars, hold, stray, queue, netVars>>
Drain(d) ==
    /\ srv[d] = "drain"
    /\ down' = IF link[d] = "up"
               THEN [down EXCEPT ![d] = @ \o [i \in DOMAIN queue[d] |-> MsgFrame(queue[d][i])]]
               ELSE down
    /\ srv' = [srv EXCEPT ![d] = "serve"]
    /\ UNCHANGED <<devVars, hold, stray, queue, link, up, lost, faults>>

Receive(d, f) ==
    /\ srv[d] = "serve" /\ hold[d] = None
    /\ up[d] # <<>> /\ Head(up[d]) = f
    /\ up' = [up EXCEPT ![d] = Tail(@)]

\* dispatch and handleMsg.  The frame is refused when it is over the device's
\* frame limit or too large, or the recipient is no longer active; how full the
\* window of the limit is, is left open.  The error frame that answers it is
\* waited for by nobody: the flush that wrote the frame deletes its row.  A
\* registered recipient is sent the frame and nothing is queued, whether or not
\* the frame gets through.
RefuseMsg(m) ==
    /\ lost' = lost \cup {m}
    /\ UNCHANGED <<hold, down>>
HandleMsg(d, m) ==
    /\ Receive(d, MsgFrame(m))
    /\ \/ RefuseMsg(m)
       \/ /\ srv[To[m]] # "none"
          /\ TrySend(To[m], MsgFrame(m))
          /\ lost' = IF link[To[m]] = "up" THEN lost ELSE lost \cup {m}
          /\ UNCHANGED hold
       \/ /\ srv[To[m]] = "none"
          /\ hold' = [hold EXCEPT ![d] = m]
          /\ UNCHANGED <<down, lost>>
    /\ UNCHANGED <<devVars, srv, stray, queue, link, faults>>

\* enqueue: trim to make room, INSERT OR IGNORE.
Trimmed(q) == IF Len(q) < MaxQueuePerDevice THEN q
              ELSE SubSeq(q, Len(q) - MaxQueuePerDevice + 2, Len(q))
Enqueue(m) ==
    LET q == queue[To[m]]
        kept == Trimmed(q)
    IN /\ queue' = [queue EXCEPT ![To[m]] =
                        IF m \in Range(kept) THEN kept ELSE Append(kept, m)]
       /\ lost' = lost \cup (Range(q) \ Range(kept))

\* The rest of handleMsg, by the connection's goroutine or by one that was
\* replaced.
EnqueueHeld(d) ==
    /\ hold[d] # None
    /\ Enqueue(hold[d])
    /\ hold' = [hold EXCEPT ![d] = None]
    /\ UNCHANGED <<devVars, srv, stray, link, up, down, faults>>

EnqueueStray(m) ==
    /\ m \in stray
    /\ Enqueue(m)
    /\ stray' = stray \ {m}
    /\ UNCHANGED <<devVars, srv, hold, link, up, down, faults>>

\* ackQueued, then the ack goes to the sender's connection if it has one.  An
\* ack over the frame limit is refused: the row stays and the sender hears
\* nothing.
HandleMsgAck(d, m) ==
    /\ Receive(d, AckFrame(m))
    /\ \/ UNCHANGED <<queue, down>>
       \/ /\ queue' = [queue EXCEPT ![d] = DeleteRow(@, m)]
          /\ IF srv[From[m]] # "none" THEN TrySend(From[m], AckFrame(m)) ELSE UNCHANGED down
    /\ UNCHANGED <<devVars, srv, hold, stray, link, lost, faults>>

\* readLoop ends: a read error, a missed pong; removeConn.
RemoveConn(d) ==
    /\ srv[d] = "serve" /\ hold[d] = None /\ link[d] # "up" /\ up[d] = <<>>
    /\ srv' = [srv EXCEPT ![d] = "none"]
    /\ UNCHANGED <<devVars, hold, stray, queue, netVars>>

-----------------------------------------------------------------------------
(* Faults *)

Fault == faults < MaxFaults /\ faults' = faults + 1

\* The connection goes down: a machine falls asleep, a cable is pulled.
Cut(d) ==
    /\ Fault
    /\ link[d] # "down"
    /\ link' = [link EXCEPT ![d] = "down"]
    /\ \E u \in Prefixes(up[d]), w \in Prefixes(down[d]) :
         /\ up' = [up EXCEPT ![d] = u]
         /\ down' = [down EXCEPT ![d] = w]
         /\ lost' = lost \cup (MsgsIn(up[d]) \ MsgsIn(u)) \cup (MsgsIn(down[d]) \ MsgsIn(w))
    /\ UNCHANGED <<devVars, srvVars>>

\* The client process dies: its two tables survive, SendText calls do not.
KillClient(d) ==
    /\ Fault
    /\ cli' = [cli EXCEPT ![d] = "off"]
    /\ todo' = [todo EXCEPT ![d] = <<>>]
    /\ app' = [m \in Msg |-> IF From[m] = d /\ app[m] # "new" THEN "done" ELSE app[m]]
    /\ link' = [link EXCEPT ![d] = "down"]
    /\ down' = [down EXCEPT ![d] = <<>>]
    /\ \E u \in Prefixes(up[d]) :
         /\ up' = [up EXCEPT ![d] = u]
         /\ lost' = lost \cup (MsgsIn(up[d]) \ MsgsIn(u)) \cup MsgsIn(down[d])
                         \cup {m \in Msg : From[m] = d /\ app[m] = "unsent"}
    /\ UNCHANGED <<out, outbox, history, dropped, peers, srvVars>>

\* The relay dies and starts again: the queue survives.
KillRelay ==
    /\ Fault
    /\ srv' = [d \in Device |-> "none"]
    /\ hold' = [d \in Device |-> None]
    /\ stray' = {}
    /\ link' = [d \in Device |-> "down"]
    /\ up' = [d \in Device |-> <<>>]
    /\ \E kept \in SUBSET Device :
         /\ down' = [d \in Device |-> IF d \in kept THEN down[d] ELSE <<>>]
         /\ lost' = lost \cup stray \cup ({hold[d] : d \in Device} \ {None})
                         \cup (UNION {MsgsIn(up[d]) : d \in Device})
                         \cup (UNION {MsgsIn(down[d]) : d \in Device \ kept})
    /\ UNCHANGED <<devVars, queue>>

-----------------------------------------------------------------------------
ClientStep(d) ==
    \/ Dial(d) \/ HandleReady(d) \/ HandleSnapshot(d)
    \/ \E m \in Msg : HandleIncomingMsg(d, m) \/ HandleAck(d, m)
    \/ ListOutbox(d) \/ FlushSend(d) \/ FlushFails(d) \/ DeleteOutbox(d) \/ MarkSent(d)
    \/ Disconnected(d)

ConnStep(d) ==
    \/ Register(d) \/ Greet(d) \/ SendSnapshot(d) \/ Drain(d)
    \/ \E m \in Msg : HandleMsg(d, m) \/ HandleMsgAck(d, m)
    \/ EnqueueHeld(d) \/ RemoveConn(d)

SendStep(m) == SendLive(m) \/ SendFails(m) \/ EnqueueOutbox(m) \/ InsertMessage(m)

Next ==
    \/ \E d \in Device : ClientStep(d) \/ ConnStep(d) \/ Cut(d) \/ KillClient(d)
    \/ \E m \in Msg : SendStep(m) \/ EnqueueStray(m)
    \/ KillRelay

\* Fairness: run loops, relay goroutines and a SendText call that has begun
\* are scheduled; the run loop redials for ever.  Nobody has to compose a
\* message, and nothing is assumed of the network.
Fairness ==
    /\ \A d \in Device : WF_vars(ClientStep(d)) /\ WF_vars(ConnStep(d))
    /\ \A m \in Msg : WF_vars(EnqueueOutbox(m) \/ InsertMessage(m)) /\ WF_vars(EnqueueStray(m))

Spec == Init /\ [][Next]_vars /\ Fairness

-----------------------------------------------------------------------------
(* Properties *)

Frame == {"msg", "ack"} \X Msg \cup {ReadyFrame, SnapFrame}

\* On the devices: a flush has rows to send exactly while it runs, and no
\* message is twice in an outbox.
DeviceTypeOK ==
    /\ app \in [Msg -> {"new", "unsent", "queued", "sent", "done"}]
    /\ out \in [Msg -> {"none", "queued", "sent", "delivered"}]
    /\ outbox \in [Device -> Seq(Msg)]
    /\ \A d \in Device : IsInjective(outbox[d])
    /\ history \subseteq Msg /\ dropped \subseteq Msg
    /\ peers \in [Device -> SUBSET Device]
    /\ cli \in [Device -> {"off", "handshake"} \cup Ready]
    /\ todo \in [Device -> Seq(Msg)]
    /\ \A d \in Device : todo[d] # <<>> <=> cli[d] \in {"flush", "delete", "mark"}

\* On the relay: no message is twice in a queue.
RelayTypeOK ==
    /\ srv \in [Device -> {"none", "greet", "snapshot", "drain", "serve"}]
    /\ hold \in [Device -> Msg \cup {None}]
    /\ stray \subseteq Msg
    /\ queue \in [Device -> Seq(Msg)]
    /\ \A d \in Device : IsInjective(queue[d])

NetTypeOK ==
    /\ link \in [Device -> {"down", "dialed", "up"}]
    /\ up \in [Device -> Seq(Frame)] /\ down \in [Device -> Seq(Frame)]
    /\ lost \subseteq Msg
    /\ faults \in 0 .. MaxFaults

TypeOK == DeviceTypeOK /\ RelayTypeOK /\ NetTypeOK

\* Where a message that its recipient has not dealt with can still be.
Underway(m) ==
    \/ app[m] = "unsent"
    \/ m \in Range(outbox[From[m]])
    \/ m \in MsgsIn(up[From[m]])
    \/ m \in stray \/ \E d \in Device : hold[d] = m
    \/ m \in Range(queue[To[m]])
    \/ m \in MsgsIn(down[To[m]])

\* A message that was composed and is neither stored nor discarded is on its
\* way, unless the network, a kill or the queue's cap took a copy of it or the
\* relay refused one: outbox, flush, handlers, replaced connections and queue
\* lose none between them.
NoSilentLoss ==
    \A m \in Msg :
        app[m] = "new" \/ m \in history \/ m \in dropped \/ m \in lost \/ Underway(m)

\* "Delivered" is never shown for a message its recipient has not dealt with.
DeliveredIsTrue == \A m \in Msg : out[m] = "delivered" => m \in history \cup dropped

AcksIn(s) == {m \in Msg : \E i \in DOMAIN s : s[i] = AckFrame(m)}

\* An ack on its way is of a message its recipient has dealt with, and the
\* relay sends it to nobody but the one who composed the message.
AcksAreEarned ==
    \A d \in Device :
      /\ AcksIn(up[d]) \cup AcksIn(down[d]) \subseteq history \cup dropped
      /\ \A m \in AcksIn(down[d]) : From[m] = d

\* The state is well formed, and what the sender's history shows as delivered
\* was dealt with, also once the acks under way arrive.
HistoryIsTrue == TypeOK /\ DeliveredIsTrue /\ AcksAreEarned

\* A row leaves the relay's queue only when its recipient has dealt with the
\* message, or when newer messages fill the queue.
QueueKeepsUntilDealtWith ==
    [][\A m \in Msg :
         (m \in Range(queue[To[m]]) /\ m \notin Range(queue'[To[m]]))
            => \/ m \in history \cup dropped
               \/ /\ Len(queue[To[m]]) >= MaxQueuePerDevice
                  /\ \E k \in Msg : To[k] = To[m] /\ Enqueue(k)]_vars

\* What the user was shown as delivered never goes back, although the flush
\* marks a row as sent long after it read it from the outbox and an ack for an
\* earlier copy may arrive at any time.
DeliveredIsFinal ==
    [][\A m \in Msg : out[m] = "delivered" => out'[m] = "delivered"]_vars

\* A message that waits in the queue when its recipient connects reaches it,
\* unless the connection goes down again or the cap takes it.
QueuedReachReconnecting ==
    \A m \in Msg :
        (m \in Range(queue[To[m]]) /\ srv[To[m]] = "greet" /\ link[To[m]] = "up")
            ~> (m \in history \cup dropped \cup lost \/ link[To[m]] # "up")

\* A message in the outbox when its sender reconnects leaves it, unless the
\* connection goes down again.
OutboxIsFlushed ==
    \A m \in Msg :
        (m \in Range(outbox[From[m]]) /\ cli[From[m]] = "handshake" /\ link[From[m]] = "up")
            ~> (m \notin Range(outbox[From[m]]) \/ link[From[m]] # "up")
=============================================================================
