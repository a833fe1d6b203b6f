------------------------------ MODULE Desktop ------------------------------
(***************************************************************************)
(* The desktop client around the client core: one conversation, the tray   *)
(* and the window, desktop notifications and the panel of pending devices. *)
(*                                                                         *)
(* Five goroutines meet here.  The client core stores and emits events;    *)
(* the pump moves them to the UI goroutine's queue (fyne.Do); the UI       *)
(* goroutine runs one function after the other, the user's clicks among    *)
(* them; a watcher follows the X11 window; another the clicks on           *)
(* notifications.  A function is the sequence of its steps on shared state *)
(* and other goroutines run between two of them.  The window manager and   *)
(* the notification server are external and may do anything at any time.   *)
(***************************************************************************)
EXTENDS Naturals, Sequences, FiniteSets, FiniteSetsExt, SequencesExt

CONSTANTS
    In,        \* messages of the peer
    Out,       \* messages of the user
    Cap,       \* capacity of Client.events (256)
    MaxActs,   \* bound: actions of the user and events of the window manager
    None

Msg == In \union Out

\* The states a message can have; nothing in the client sets StateFailed.
Mark == {"received", "queued", "sent", "delivered"}

ASSUME DesktopAssumption ==
    /\ In \cap Out = {} /\ Cap \in Nat \ {0} /\ MaxActs \in Nat
    /\ None \notin Msg \union Mark

VARIABLES
    log,        \* the messages table, oldest first
    state,      \* its state column
    outbox,     \* messages written while offline
    wire,       \* messages sent and not acknowledged
    recv,       \* the event the receive goroutine is about to emit, if any
    events,     \* Client.events
    uiq,        \* functions waiting for the UI goroutine
    ui,         \* steps left of the one it runs
    watcher,    \* steps left of what minimizeToTrayLoop does
    open,       \* the peer's conversation is in the right pane
    rows,       \* its labels: message and delivery mark
    trayHidden, hasUnread,
    shown,      \* the window, as Fyne has it
    icon,       \* of the tray
    bubbles,    \* notifications on the screen, by message
    notifyPendingIDs,
    signals,    \* D-Bus signals: a notification was clicked or closed
    watching,   \* watchNotifyClicks: not started, not subscribed, subscribed
    panel,      \* the panel of pending devices is open
    reply,      \* of the relay to ListPending: "none", "due", "here"
    late,       \* replies the relay may still send to calls that timed out
    acts,
    \* history
    astray,     \* messages an event of which was dropped, or emitted in another
                \* order than the store was written
    again,      \* messages in the history read while their event was under way
    overlap,    \* two goroutines worked on the tray state at once
    unseen,     \* a message came while the window was hidden to the tray
    early,      \* notifications gone before their id was recorded or anyone listened
    answered    \* notifications whose click has shown the window

coreVars == <<log, state, outbox, wire>>
queueVars == <<uiq, ui>>
viewVars == <<open, rows>>
trayVars == <<trayHidden, hasUnread, shown, icon>>
noteVars == <<bubbles, notifyPendingIDs, signals, watching>>
panelVars == <<panel, reply, late>>
histVars == <<astray, again, overlap, unseen, early, answered>>
vars == <<coreVars, recv, events, queueVars, watcher, viewVars, trayVars, noteVars, panelVars, acts, histVars>>

\* main, with or without -start-minimized.
Init ==
    /\ log = <<>> /\ state = [m \in Msg |-> None] /\ outbox = {} /\ wire = {}
    /\ recv = <<>> /\ events = <<>> /\ uiq = <<>> /\ ui = <<>> /\ watcher = <<>>
    /\ open = FALSE /\ rows = <<>>
    /\ trayHidden \in BOOLEAN /\ shown = ~trayHidden
    /\ hasUnread = FALSE /\ icon = "plain"
    /\ bubbles = {} /\ notifyPendingIDs = {} /\ signals = <<>> /\ watching = "no"
    /\ panel = FALSE /\ reply = "none" /\ late = 0
    /\ acts = 0
    /\ astray = {} /\ again = {} /\ overlap = FALSE /\ unseen = FALSE
    /\ early = {} /\ answered = {}

-----------------------------------------------------------------------------
(* Functions of the UI goroutine, as their steps <<step, message, mark>>.  *)

Step(s) == <<s, None, None>>
Hide == <<Step("hide")>>
Show == <<Step("show")>>
Close == <<Step("storeTrue"), Step("hide")>>
TrayShow == <<Step("storeFalse"), Step("show"), Step("swapFalse")>>
Reload == <<Step("reload"), Step("await")>>

\* onMessage: the row, the badge of a hidden window, the notification.
\* shouldNotify is the user's status and preference.
OnMessage(m, st, notify) ==
    << <<"row", m, st>> >>
    \o (IF m \in In THEN << <<"check", m, None>> >> ELSE <<>>)
    \o (IF m \in In /\ notify THEN << <<"notify", m, None>>, <<"register", m, None>> >> ELSE <<>>)

\* handleEvent and the functions other goroutines pass to fyne.Do.
Body(f, notify) ==
    CASE f[1] = "hide" -> Hide
      [] f[1] = "show" -> Show
      [] f[1] = "click" -> TrayShow \o << <<"clicked", f[2], None>> >>
      [] f[1] = "reload" -> Reload
      [] f[1] = "message" -> OnMessage(f[2], f[3], notify)
      [] f[1] = "state" -> << <<"mark", f[2], f[3]>> >>
      [] f[1] = "pending" -> IF panel THEN <<Step("doReload")>> ELSE <<>>

Do(f) == uiq' = Append(uiq, f)

-----------------------------------------------------------------------------
(* The client core and the pump.  The receive goroutine writes the store   *)
(* and then emits; SendText, on the UI goroutine, does the same, and either *)
(* may run between the other's two steps.                                  *)

\* SendText has not emitted the message yet.
SendingText(m) == \E i \in 1 .. Len(ui) : ui[i][1] \in {"insert", "emit"} /\ ui[i][2] = m

\* History: a change of state is emitted before the message although it was
\* written after it, or the other way round.
Crosses(e) == e[1] = "state" /\ (state[e[2]] = e[3] <=> SendingText(e[2]))

\* emit drops the event when the buffer is full.
Emit(e) ==
    /\ events' = IF Len(events) < Cap THEN Append(events, e) ELSE events
    /\ astray' = IF Len(events) < Cap /\ ~Crosses(e) THEN astray ELSE astray \union {e[2]}

\* handleIncomingMsg, a text: the row, then the ack, ...
Incoming(m) ==
    /\ recv = <<>> /\ m \in In /\ state[m] = None
    /\ log' = Append(log, m) /\ state' = [state EXCEPT ![m] = "received"]
    /\ recv' = << <<"message", m, "received">> >>
    /\ UNCHANGED <<outbox, wire, events, queueVars, watcher, viewVars, trayVars, noteVars, panelVars,
                   acts, histVars>>

\* setMessageState changes nothing when there is no row yet.
SetState(m, st) == state' = IF state[m] = None THEN state ELSE [state EXCEPT ![m] = st]

\* flushOutbox.
Flush(m) ==
    /\ recv = <<>> /\ m \in outbox
    /\ wire' = wire \union {m} /\ outbox' = outbox \ {m}
    /\ SetState(m, "sent") /\ recv' = << <<"state", m, "sent">> >>
    /\ UNCHANGED <<log, events, queueVars, watcher, viewVars, trayVars, noteVars, panelVars, acts,
                   histVars>>

\* handleAck.
Ack(m) ==
    /\ recv = <<>> /\ m \in wire
    /\ wire' = wire \ {m} /\ outbox' = outbox \ {m}
    /\ SetState(m, "delivered") /\ recv' = << <<"state", m, "delivered">> >>
    /\ UNCHANGED <<log, events, queueVars, watcher, viewVars, trayVars, noteVars, panelVars, acts,
                   histVars>>

\* dispatch of admin_pending_list: the waiting call gets it, if there is one
\* still, and an event says that the list has changed.
PendingList ==
    /\ recv = <<>>
    /\ \/ reply = "due" /\ reply' = "here" /\ UNCHANGED late
       \/ late > 0 /\ late' = late - 1 /\ UNCHANGED reply
    /\ recv' = << <<"pending", None, None>> >>
    /\ UNCHANGED <<coreVars, events, queueVars, watcher, viewVars, trayVars, noteVars, panel, acts,
                   histVars>>

\* ... and the event of each of them.
EmitReceived ==
    /\ recv # <<>>
    /\ Emit(recv[1]) /\ recv' = <<>>
    /\ UNCHANGED <<coreVars, queueVars, watcher, viewVars, trayVars, noteVars, panelVars, acts,
                   again, overlap, unseen, early, answered>>

PumpEvents ==
    /\ events # <<>>
    /\ events' = Tail(events) /\ Do(Head(events))
    /\ UNCHANGED <<coreVars, recv, ui, watcher, viewVars, trayVars, noteVars, panelVars, acts, histVars>>

-----------------------------------------------------------------------------
(* The user, on the UI goroutine between two functions.                    *)

Idle == ui = <<>>
Act == Idle /\ acts < MaxActs /\ acts' = acts + 1

CloseWindow ==
    /\ Act /\ shown
    /\ ui' = Close
    /\ UNCHANGED <<coreVars, recv, events, uiq, watcher, viewVars, trayVars, noteVars, panelVars, histVars>>

ClickTray ==
    /\ Act
    /\ ui' = TrayShow
    /\ UNCHANGED <<coreVars, recv, events, uiq, watcher, viewVars, trayVars, noteVars, panelVars, histVars>>

\* An event of m, of one of these kinds, is on its way to the UI goroutine.
UnderWay(m, kinds) == \E q \in {recv, events, uiq} :
    \E i \in 1 .. Len(q) : q[i][1] \in kinds /\ q[i][2] = m

\* A bug: setPeer keeps the labels that are there.
KeepRowsMutant ==
    /\ Act /\ shown
    /\ open' = TRUE
    /\ rows' = rows \o [i \in 1 .. Len(log) |-> <<log[i], state[log[i]]>>]
    /\ again' = again \union {m \in Msg : state[m] # None /\ UnderWay(m, {"message"})}
    /\ UNCHANGED <<coreVars, recv, events, queueVars, watcher, trayVars, noteVars, panelVars, astray,
                   overlap, unseen, early, answered>>

\* selectPeer and setPeer.
SelectPeer ==
    /\ Act /\ shown
    /\ open' = TRUE
    /\ rows' = [i \in 1 .. Len(log) |-> <<log[i], state[log[i]]>>]
    /\ again' = again \union {m \in Msg : state[m] # None /\ UnderWay(m, {"message"})}
    /\ astray' = {m \in astray : UnderWay(m, {"message", "state"})}
    /\ UNCHANGED <<coreVars, recv, events, queueVars, watcher, trayVars, noteVars, panelVars, overlap,
                   unseen, early, answered>>

\* SendText sends the frame or puts it into the outbox, ...
Send(m) ==
    /\ Act /\ open /\ m \in Out /\ state[m] = None
    /\ \/ wire' = wire \union {m} /\ UNCHANGED outbox
          /\ ui' = << <<"insert", m, "sent">>, <<"emit", m, "sent">> >>
       \/ outbox' = outbox \union {m} /\ UNCHANGED wire
          /\ ui' = << <<"insert", m, "queued">>, <<"emit", m, "queued">> >>
    /\ UNCHANGED <<log, state, recv, events, uiq, watcher, viewVars, trayVars, noteVars, panelVars,
                   histVars>>

ShowAdminPanel ==
    /\ Act /\ shown /\ ~panel
    /\ panel' = TRUE /\ ui' = Reload
    /\ UNCHANGED <<coreVars, recv, events, uiq, watcher, viewVars, trayVars, noteVars, reply, late, histVars>>

CloseAdminPanel ==
    /\ Idle /\ panel
    /\ panel' = FALSE
    /\ UNCHANGED <<coreVars, recv, events, queueVars, watcher, viewVars, trayVars, noteVars, reply, late,
                   acts, histVars>>

-----------------------------------------------------------------------------
(* Steps of the UI goroutine.                                              *)

Take ==
    /\ Idle /\ uiq # <<>>
    /\ uiq' = Tail(uiq)
    /\ \E notify \in BOOLEAN : ui' = Body(Head(uiq), notify)
    /\ UNCHANGED <<coreVars, recv, events, watcher, viewVars, trayVars, noteVars, panelVars, acts, histVars>>

At(s) == ui # <<>> /\ Head(ui)[1] = s
The == Head(ui)[2]
ItsMark == Head(ui)[3]

\* ... inserts the row ...
Insert ==
    /\ At("insert")
    /\ log' = Append(log, The) /\ state' = [state EXCEPT ![The] = ItsMark]
    /\ ui' = Tail(ui)
    /\ UNCHANGED <<outbox, wire, recv, events, uiq, watcher, viewVars, trayVars, noteVars, panelVars,
                   acts, histVars>>

\* ... and emits the message as it was then.
EmitSent ==
    /\ At("emit")
    /\ Emit(<<"message", The, ItsMark>>)
    /\ ui' = Tail(ui)
    /\ UNCHANGED <<coreVars, recv, uiq, watcher, viewVars, trayVars, noteVars, panelVars, acts, again,
                   overlap, unseen, early, answered>>

\* appendMessage, in the conversation that is open.
AppendMessage ==
    /\ At("row")
    /\ rows' = IF open THEN Append(rows, <<The, ItsMark>>) ELSE rows
    /\ ui' = Tail(ui)
    /\ UNCHANGED <<coreVars, recv, events, uiq, watcher, open, trayVars, noteVars, panelVars, acts, histVars>>

\* A bug: a change of state does not reach the label.
NoMarkMutant ==
    /\ At("mark")
    /\ ui' = Tail(ui)
    /\ UNCHANGED <<coreVars, recv, events, uiq, watcher, viewVars, trayVars, noteVars, panelVars, acts, histVars>>

\* markState: c.rows has the last label made for the message.
MarkState == LET I == {i \in 1 .. Len(rows) : rows[i][1] = The} IN
    /\ At("mark")
    /\ rows' = IF I = {} THEN rows ELSE [rows EXCEPT ![Max(I)] = <<The, ItsMark>>]
    /\ ui' = Tail(ui)
    /\ UNCHANGED <<coreVars, recv, events, uiq, watcher, open, trayVars, noteVars, panelVars, acts, histVars>>

\* The watcher is inside one of its functions, or one it queued has not run.
Entangled == watcher # <<>> \/ \E i \in 1 .. Len(uiq) : uiq[i][1] \in {"hide", "show"}

\* trayHidden.Load() before markUnread.
CheckHidden ==
    /\ At("check")
    /\ ui' = (IF trayHidden THEN <<Step("swapTrue")>> ELSE <<>>) \o Tail(ui)
    /\ unseen' = (unseen \/ trayHidden)
    /\ overlap' = (overlap \/ (trayHidden /\ Entangled))
    /\ UNCHANGED <<coreVars, recv, events, uiq, watcher, viewVars, trayVars, noteVars, panelVars, acts,
                   astray, again, early, answered>>

\* The steps on the tray and the window; both goroutines take them.
Flip(s) ==
    CASE s = "storeTrue" -> trayHidden' = TRUE /\ UNCHANGED <<hasUnread, shown, icon, unseen>>
      [] s = "storeFalse" -> trayHidden' = FALSE /\ UNCHANGED <<hasUnread, shown, icon, unseen>>
      [] s = "swapTrue" -> hasUnread' = TRUE /\ UNCHANGED <<trayHidden, shown, icon, unseen>>
      [] s = "swapFalse" -> hasUnread' = FALSE /\ UNCHANGED <<trayHidden, shown, icon, unseen>>
      [] s = "hide" -> shown' = FALSE /\ UNCHANGED <<trayHidden, hasUnread, icon, unseen>>
      [] s = "show" -> shown' = TRUE /\ unseen' = FALSE /\ UNCHANGED <<trayHidden, hasUnread, icon>>
      [] s = "badge" -> icon' = "badged" /\ UNCHANGED <<trayHidden, hasUnread, shown, unseen>>
      [] s = "plain" -> icon' = "plain" /\ UNCHANGED <<trayHidden, hasUnread, shown, unseen>>

\* A bug: clearUnread leaves the icon.
NoIconMutant(s) == IF s = "swapTrue" /\ ~hasUnread THEN <<Step("badge")>> ELSE <<>>

\* markUnread and clearUnread set the icon when Swap changed hasUnread.
Icon(s) == IF s = "swapTrue" /\ ~hasUnread THEN <<Step("badge")>>
           ELSE IF s = "swapFalse" /\ hasUnread THEN <<Step("plain")>>
           ELSE <<>>

TraySteps == {"storeTrue", "storeFalse", "swapTrue", "swapFalse", "hide", "show", "badge", "plain"}

Tray ==
    /\ ui # <<>> /\ Head(ui)[1] \in TraySteps
    /\ Flip(Head(ui)[1])
    /\ ui' = Icon(Head(ui)[1]) \o Tail(ui)
    /\ overlap' = (overlap \/ Entangled)
    /\ UNCHANGED <<acts, coreVars, recv, events, uiq, watcher, viewVars, noteVars, panelVars, astray,
                   again, early, answered>>

\* sendNotification: the first one starts the watcher of clicks; the server shows
\* the bubble, ...
Notify ==
    /\ At("notify")
    /\ bubbles' = bubbles \union {The}
    /\ watching' = IF watching = "no" THEN "starting" ELSE watching
    /\ ui' = Tail(ui)
    /\ UNCHANGED <<coreVars, recv, events, uiq, watcher, viewVars, trayVars, notifyPendingIDs, signals,
                   panelVars, acts, histVars>>

\* ... and its answer is recorded.
Register ==
    /\ At("register")
    /\ notifyPendingIDs' = notifyPendingIDs \union {The}
    /\ ui' = Tail(ui)
    /\ UNCHANGED <<coreVars, recv, events, uiq, watcher, viewVars, trayVars, bubbles, signals, watching,
                   panelVars, acts, histVars>>

\* The function of a click on a notification has run.
Clicked ==
    /\ At("clicked")
    /\ answered' = answered \union {The}
    /\ ui' = Tail(ui)
    /\ UNCHANGED <<coreVars, recv, events, uiq, watcher, viewVars, trayVars, noteVars, panelVars, acts,
                   astray, again, overlap, unseen, early>>

\* reload: ListPending asks the relay, or fails at once when not connected.
AskPending ==
    /\ At("reload")
    /\ \/ reply' = "due" /\ ui' = Tail(ui)
       \/ UNCHANGED reply /\ ui' = Tail(Tail(ui))
    /\ UNCHANGED <<coreVars, recv, events, uiq, watcher, viewVars, trayVars, noteVars, panel, late, acts,
                   histVars>>

\* A bug: the wait for the list has no end of its own.
NoTimeoutMutant ==
    /\ At("await") /\ reply = "here"
    /\ reply' = "none" /\ ui' = Tail(ui)
    /\ UNCHANGED <<coreVars, recv, events, uiq, watcher, viewVars, trayVars, noteVars, panel, late, acts,
                   histVars>>

\* The UI goroutine waits for the list, eight seconds at most.  The relay may
\* still answer after that; an error frame ends no wait.
AwaitPending ==
    /\ At("await")
    /\ late' = IF reply = "due" THEN late + 1 ELSE late
    /\ reply' = "none" /\ ui' = Tail(ui)
    /\ UNCHANGED <<coreVars, recv, events, uiq, watcher, viewVars, trayVars, noteVars, panel, acts,
                   histVars>>

\* adminReload: fyne.Do(reload).
AdminReload ==
    /\ At("doReload")
    /\ Do(Step("reload"))
    /\ ui' = Tail(ui)
    /\ UNCHANGED <<coreVars, recv, events, watcher, viewVars, trayVars, noteVars, panelVars, acts, histVars>>

-----------------------------------------------------------------------------
(* The watcher of the X11 window.                                          *)

\* The UI goroutine is inside a function that touches the tray.
UIBusy == \E i \in 1 .. Len(ui) : ui[i][1] \in TraySteps

\* WM_STATE or _NET_WM_STATE says the window is minimized.
Minimized ==
    /\ watcher = <<>> /\ acts < MaxActs
    /\ ~trayHidden
    /\ watcher' = <<Step("storeTrue"), Step("doHide")>>
    /\ acts' = acts + 1 /\ overlap' = (overlap \/ UIBusy)
    /\ UNCHANGED <<coreVars, recv, events, queueVars, viewVars, trayVars, noteVars, panelVars, astray,
                   again, unseen, early, answered>>

\* A bug: the flag is cleared and Fyne is not told to show the window.
NoShowMutant ==
    /\ watcher = <<>> /\ acts < MaxActs
    /\ trayHidden' = FALSE
    /\ watcher' = IF trayHidden THEN <<Step("swapFalse")>> ELSE <<>>
    /\ acts' = acts + 1 /\ overlap' = (overlap \/ UIBusy)
    /\ UNCHANGED <<coreVars, recv, events, queueVars, viewVars, hasUnread, shown, icon, noteVars, panelVars,
                   astray, again, unseen, early, answered>>

\* It got the focus, or is not minimized: restoreIfHidden.
RestoreIfHidden ==
    /\ watcher = <<>> /\ acts < MaxActs
    /\ trayHidden' = FALSE
    /\ watcher' = IF trayHidden THEN <<Step("doShow"), Step("swapFalse")>> ELSE <<>>
    /\ acts' = acts + 1 /\ overlap' = (overlap \/ UIBusy)
    /\ UNCHANGED <<coreVars, recv, events, queueVars, viewVars, hasUnread, shown, icon, noteVars, panelVars,
                   astray, again, unseen, early, answered>>

\* fyne.Do(g.win.Hide), fyne.Do(g.win.Show).
WatcherDo ==
    /\ watcher # <<>> /\ Head(watcher)[1] \in {"doHide", "doShow"}
    /\ Do(Step(IF Head(watcher)[1] = "doHide" THEN "hide" ELSE "show"))
    /\ watcher' = Tail(watcher)
    /\ UNCHANGED <<coreVars, recv, events, ui, viewVars, trayVars, noteVars, panelVars, acts, histVars>>

WatcherTray ==
    /\ watcher # <<>> /\ Head(watcher)[1] \in TraySteps
    /\ Flip(Head(watcher)[1])
    /\ watcher' = Icon(Head(watcher)[1]) \o Tail(watcher)
    /\ overlap' = (overlap \/ UIBusy)
    /\ UNCHANGED <<acts, coreVars, recv, events, queueVars, viewVars, noteVars, panelVars, astray,
                   again, early, answered>>

-----------------------------------------------------------------------------
(* The notification server and watchNotifyClicks.                          *)

\* AddMatchSignal and conn.Signal.  A watcher that fails to subscribe ends: no
\* such step is ever taken, and nobody listens.
Subscribe ==
    /\ watching = "starting" /\ watching' = "on"
    /\ UNCHANGED <<coreVars, recv, events, queueVars, watcher, viewVars, trayVars, bubbles,
                   notifyPendingIDs, signals, panelVars, acts, histVars>>

\* Signals reach the watcher once it has subscribed.
Signal(m, names) ==
    /\ signals' = IF watching = "on" THEN signals \o [i \in DOMAIN names |-> <<names[i], m>>]
                                     ELSE signals
    /\ early' = IF watching = "on" /\ m \in notifyPendingIDs THEN early ELSE early \union {m}

\* A click invokes the action and closes the bubble.
ClickBubble(m) ==
    /\ m \in bubbles
    /\ bubbles' = bubbles \ {m}
    /\ Signal(m, <<"invoked", "closed">>)
    /\ UNCHANGED <<coreVars, recv, events, queueVars, watcher, viewVars, trayVars, notifyPendingIDs,
                   watching, panelVars, acts, astray, again, overlap, unseen, answered>>

DismissBubble(m) ==
    /\ m \in bubbles
    /\ bubbles' = bubbles \ {m}
    /\ Signal(m, <<"closed">>)
    /\ UNCHANGED <<coreVars, recv, events, queueVars, watcher, viewVars, trayVars, notifyPendingIDs,
                   watching, panelVars, acts, astray, again, overlap, unseen, answered>>

\* A bug: a click is not told from a dismissal.
ForgetOnlyMutant == LET s == Head(signals) IN
    /\ signals # <<>>
    /\ signals' = Tail(signals)
    /\ notifyPendingIDs' = notifyPendingIDs \ {s[2]}
    /\ UNCHANGED <<uiq, coreVars, recv, events, ui, watcher, viewVars, trayVars, bubbles, watching,
                   panelVars, acts, histVars>>
\* A bug: only a click ends the tracking of an id.
InvokedOnlyMutant == LET s == Head(signals) IN
    /\ signals # <<>>
    /\ signals' = Tail(signals)
    /\ IF s[1] = "invoked" /\ s[2] \in notifyPendingIDs
       THEN Do(<<"click", s[2], None>>) /\ notifyPendingIDs' = notifyPendingIDs \ {s[2]}
       ELSE UNCHANGED <<uiq, notifyPendingIDs>>
    /\ UNCHANGED <<coreVars, recv, events, ui, watcher, viewVars, trayVars, bubbles, watching,
                   panelVars, acts, histVars>>

\* forgetNotifyID, and for a click on one of ours the window.
WatchNotifyClicks == LET s == Head(signals) IN
    /\ signals # <<>>
    /\ signals' = Tail(signals)
    /\ notifyPendingIDs' = notifyPendingIDs \ {s[2]}
    /\ IF s[1] = "invoked" /\ s[2] \in notifyPendingIDs
       THEN Do(<<"click", s[2], None>>) ELSE UNCHANGED uiq
    /\ UNCHANGED <<coreVars, recv, events, ui, watcher, viewVars, trayVars, bubbles, watching,
                   panelVars, acts, histVars>>

-----------------------------------------------------------------------------
Core == PendingList \/ \E m \in Msg : Incoming(m) \/ Flush(m) \/ Ack(m)
User == \/ CloseWindow \/ ClickTray \/ SelectPeer \/ ShowAdminPanel \/ CloseAdminPanel
        \/ \E m \in Msg : Send(m) \/ ClickBubble(m) \/ DismissBubble(m)
UI == \/ Take \/ Insert \/ EmitSent \/ AppendMessage \/ MarkState \/ CheckHidden \/ Tray
      \/ Notify \/ Register \/ Clicked \/ AskPending \/ AwaitPending \/ AdminReload
Watch == WatcherDo \/ WatcherTray
XEvent == Minimized \/ RestoreIfHidden

Next == Core \/ EmitReceived \/ User \/ UI \/ PumpEvents \/ Watch \/ XEvent \/ Subscribe \/ WatchNotifyClicks

\* The goroutines run; the user, the window manager, the peer and the relay need
\* not.  The wait for the pending list ends by its timeout.
Fairness ==
    /\ WF_vars(EmitReceived) /\ WF_vars(PumpEvents) /\ WF_vars(UI) /\ WF_vars(WatchNotifyClicks)

Spec == Init /\ [][Next]_vars /\ Fairness

-----------------------------------------------------------------------------
(* Properties.                                                             *)

\* Nothing is under way between the goroutines.
Quiet == recv = <<>> /\ events = <<>> /\ uiq = <<>> /\ ui = <<>> /\ watcher = <<>> /\ signals = <<>>

\* The buffer of the client's events keeps to its size, marks and icons are
\* of their kinds, and an answer is under way only while the UI waits for one.
TypeOK ==
    /\ state \in [Msg -> Mark \union {None}]
    /\ Len(events) <= Cap /\ outbox \subseteq Out /\ wire \subseteq Out
    /\ trayHidden \in BOOLEAN /\ hasUnread \in BOOLEAN /\ shown \in BOOLEAN
    /\ icon \in {"plain", "badged"}
    /\ bubbles \subseteq In /\ notifyPendingIDs \subseteq In
    /\ watching \in {"no", "starting", "on"}
    /\ reply \in {"none", "due", "here"} /\ (reply # "none" => At("await")) /\ late \in Nat

\* The flag that decides about badges agrees with the window once the
\* goroutines are at rest, unless they worked on the tray state at once.
HiddenAgrees == Quiet /\ ~overlap => (trayHidden <=> ~shown)

\* The tray shows the badge exactly while a message is unseen.
BadgeAgrees == Quiet /\ ~overlap => (unseen <=> hasUnread) /\ (hasUnread <=> icon = "badged")

\* The open conversation has every message of the store with its present mark,
\* unless an event of it was dropped since the conversation was opened, or
\* SendText and the receive goroutine emitted in another order than they wrote.
ConversationIsCurrent ==
    Quiet /\ open => \A m \in Msg \ astray : state[m] # None =>
        \E i \in 1 .. Len(rows) :
            /\ rows[i] = <<m, state[m]>>
            /\ \A j \in (i + 1) .. Len(rows) : rows[j][1] # m

\* A message is there twice only if the conversation was opened while the
\* event of the message was under way or yet to be emitted.
NoDoubleRow ==
    \A i, j \in 1 .. Len(rows) : i # j /\ rows[i][1] = rows[j][1] => rows[i][1] \in again

\* An id is tracked only while its notification can still be clicked, unless
\* that was gone before the server's answer was recorded or with nobody listening.
TrackedIsShown == Quiet => notifyPendingIDs \subseteq bubbles \union early

\* Window, tray and notifications agree with the flags that stand for them.
TrayIsRight == TypeOK /\ HiddenAgrees /\ BadgeAgrees /\ TrackedIsShown

\* The open conversation shows what the store has, each message once.
ConversationIsRight == ConversationIsCurrent /\ NoDoubleRow

\* A click on a notification shows the window, unless it came before the id was
\* recorded or while the watcher was not subscribed: it starts with the first
\* notification without waiting for it, and may fail to subscribe for good.
ClickIsAnswered ==
    \A m \in In : (\E i \in 1 .. Len(signals) : signals[i] = <<"invoked", m>>) /\ m \notin early
                    ~> m \in answered

\* A stored message that was not dropped gets through to the UI, also while
\* the panel of pending devices keeps reloading itself.
EventsAreHandled ==
    \A m \in In : UnderWay(m, {"message"}) ~> ~UnderWay(m, {"message"})
=============================================================================
