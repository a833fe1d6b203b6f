------------------------------- MODULE Roster -------------------------------
(***************************************************************************)
(* Presence and the directory: how one device (the subject) becomes        *)
(* visible in the roster of another (the viewer).                          *)
(*                                                                         *)
(* On the relay every connection has a goroutine; an admin's goroutine     *)
(* promotes a pending connection of the subject while that connection's    *)
(* own goroutine reads frames.  An update is computed, then the ready      *)
(* connections are listed, then it is sent to each: other goroutines run   *)
(* between these steps.  On the subject's device SetStatus runs beside     *)
(* the run loop.  Frames of one connection stay in order.                  *)
(***************************************************************************)
EXTENDS Naturals, FiniteSets, Sequences

CONSTANTS
    MaxConns,    \* bound: connections of the subject
    MaxViewer,   \* bound: connections of the viewer
    MaxSets,     \* bound: calls of SetStatus
    MaxBreaks,   \* bound: broken connections, of either
    None

Conn == 1 .. MaxConns
Status == {"available", "invisible"}

ASSUME RosterAssumption ==
    /\ MaxConns \in Nat /\ MaxViewer \in Nat /\ MaxSets \in Nat /\ MaxBreaks \in Nat
    /\ None \notin Nat \union BOOLEAN \union Status \union {"pending", "active"}

Admin == 0                    \* the goroutine of the approving admin
Goroutine == Conn \union {Admin}

VARIABLES
    \* the subject's client
    desired,   \* Client.desired
    dialled,   \* connections made so far; the last one is Client.conn
    clientUp,  \* the last one is up, as far as the client knows
    cstate,    \* the handshake's result, then Client.state
    rl,        \* where the run loop is
    captured,  \* desired as the run loop read it
    user,      \* the status SetStatus is about to send, or None
    sets,
    \* the wire of the subject
    up,        \* presence_set frames, by connection
    readied,   \* a ready frame is on its way to the client
    \* the relay
    device,    \* state of the subject's row: "pending" or "active"
    stored,    \* its row in the presence table
    at,        \* where each goroutine is
    for,       \* the connection a goroutine works for
    upd,       \* the update it has computed: online or not
    to,        \* the viewer's connection in its list, or None
    andThen,   \* what follows the update
    ready, open, status,   \* per connection of the subject
    conns,     \* Server.conns[subject]
    \* the viewer
    vconn,     \* its connections so far
    vlink,     \* the last one: "none", "up", or "dead" until the relay notices
    vat,       \* where its goroutine on the relay is
    vread,     \* the subject's state in the directory that goroutine has read
    vlist,     \* the subject's connection in its list of ready ones
    peers,     \* the subject is in its peers table
    cache,     \* Client.peerPresence: online or not, None if never heard of
    breaks,
    \* history
    crossed,   \* two updates were under way at once, or one was about a removed connection
    ghost,     \* a connection was torn down after its successor had connected
    missed,    \* the subject left while the viewer was away
    outrun,    \* the run loop published a status SetStatus had replaced
    staleDir,  \* a snapshot was sent that the table had left behind
    refused    \* the relay refused the last presence_set it read, by connection

clientVars == <<desired, dialled, clientUp, cstate, rl, captured, user, sets>>
wireVars == <<up, readied>>
rowVars == <<device, stored>>
bcastVars == <<upd, to, andThen>>
connVars == <<ready, open, status, conns>>
viewVars == <<vconn, vlink, vat, vread, vlist>>
shownVars == <<peers, cache>>
flagVars == <<crossed, ghost, missed, outrun, staleDir, refused>>
vars == <<clientVars, wireVars, rowVars, at, for, bcastVars, connVars, viewVars, shownVars, breaks, flagVars>>

\* The device is new, or was approved before.  Bound: two of the approval,
\* changes of status and broken connections happen in a behaviour, not all.
Init ==
    /\ desired = "available" /\ dialled = 0 /\ clientUp = FALSE /\ cstate = "down"
    /\ rl = "dial" /\ captured = None /\ user = None
    /\ up = [c \in Conn |-> <<>>] /\ readied = FALSE
    /\ \/ device = "active" /\ sets = 0 /\ breaks = 0
       \/ device = "pending" /\ sets = MaxSets /\ breaks = 0
       \/ device = "pending" /\ sets = 0 /\ breaks = MaxBreaks
    /\ stored = "available"
    /\ at = [g \in Goroutine |-> "none"] /\ for = [g \in Goroutine |-> g]
    /\ upd = [g \in Goroutine |-> FALSE] /\ to = [g \in Goroutine |-> None]
    /\ andThen = [g \in Goroutine |-> "none"]
    /\ ready = [c \in Conn |-> FALSE] /\ open = [c \in Conn |-> FALSE]
    /\ status = [c \in Conn |-> "available"] /\ conns = None
    /\ vconn = 0 /\ vlink = "none" /\ vat = "none" /\ vread = None /\ vlist = None
    /\ peers = FALSE /\ cache = None
    /\ crossed = FALSE /\ ghost = FALSE /\ missed = FALSE /\ outrun = FALSE /\ staleDir = FALSE
    /\ refused = [c \in Conn |-> FALSE]

Goto(g, s) == at' = [at EXCEPT ![g] = s]

\* A presence_set on the client's connection; nobody reads it once the relay
\* has closed its end.
Put(s) == up' = IF open[dialled] THEN [up EXCEPT ![dialled] = Append(@, s)] ELSE up
Shut(K) == /\ open' = [k \in Conn |-> open[k] /\ k \notin K]
           /\ up' = [k \in Conn |-> IF k \in K THEN <<>> ELSE up[k]]

-----------------------------------------------------------------------------
(* The subject's client.                                                   *)

\* dial and handshake.  On the relay an active device is marked ready with
\* the status its presence row has.
Connect == LET c == dialled + 1 IN
    /\ rl = "dial" /\ c \in Conn
    /\ dialled' = c /\ clientUp' = TRUE /\ rl' = "capture"
    /\ cstate' = IF device = "active" THEN "admitted" ELSE "waiting"
    /\ Goto(c, "add")
    /\ open' = [open EXCEPT ![c] = TRUE]
    /\ ready' = [ready EXCEPT ![c] = (device = "active")]
    /\ status' = [status EXCEPT ![c] = stored]
    /\ UNCHANGED <<breaks, desired, captured, user, sets, wireVars, rowVars, for, bcastVars, conns, viewVars,
                   shownVars, flagVars>>

\* connectAndServe, or handleReady after an approval: read desired, ...
Capture ==
    /\ \/ rl = "capture"
       \/ rl = "serve" /\ readied
    /\ captured' = desired
    /\ rl' = "announce" /\ readied' = (readied /\ rl = "capture")
    /\ cstate' = IF rl = "serve" THEN "admitted" ELSE cstate
    /\ UNCHANGED <<breaks, desired, dialled, clientUp, user, sets, up, rowVars, at, for, bcastVars,
                   connVars, viewVars, shownVars, flagVars>>

\* ... emitConnState, ...
Announce ==
    /\ rl = "announce"
    /\ IF cstate = "admitted"
       THEN cstate' = "ready" /\ rl' = "publish" /\ UNCHANGED captured
       ELSE cstate' = "pending" /\ rl' = "serve" /\ captured' = None
    /\ UNCHANGED <<breaks, desired, dialled, clientUp, user, sets, wireVars, rowVars, at, for,
                   bcastVars, connVars, viewVars, shownVars, flagVars>>

\* A bug: a reconnect does not publish the status again.
NoPublishMutant ==
    /\ rl = "publish"
    /\ rl' = "serve" /\ captured' = None
    /\ UNCHANGED <<breaks, desired, dialled, clientUp, cstate, user, sets, wireVars, rowVars, at, for,
                   bcastVars, connVars, viewVars, shownVars, flagVars>>

\* ... and send the status read before.
Publish ==
    /\ rl = "publish"
    /\ rl' = "serve" /\ captured' = None
    /\ IF clientUp THEN Put(captured) ELSE UNCHANGED up
    /\ outrun' = (outrun \/ captured # desired)
    /\ UNCHANGED <<breaks, desired, dialled, clientUp, cstate, user, sets, readied, rowVars, at, for,
                   bcastVars, connVars, viewVars, shownVars, crossed, ghost, missed,
                   staleDir, refused>>

SetStatus(s) ==
    /\ user = None /\ sets < MaxSets /\ s # desired
    /\ desired' = s /\ user' = s /\ sets' = sets + 1
    /\ UNCHANGED <<breaks, dialled, clientUp, cstate, rl, captured, wireVars, rowVars, at, for, bcastVars,
                   connVars, viewVars, shownVars, flagVars>>

\* SetStatus sends only on a ready connection; otherwise the next connect
\* publishes what it stored.
SendStatus ==
    /\ user # None
    /\ IF clientUp /\ cstate = "ready" THEN Put(user) ELSE UNCHANGED up
    /\ user' = None
    /\ UNCHANGED <<breaks, desired, dialled, clientUp, cstate, rl, captured, sets, readied, rowVars, at, for,
                   bcastVars, connVars, viewVars, shownVars, flagVars>>

\* The connection breaks: the client sees it now, the relay later.
Break ==
    /\ clientUp /\ rl = "serve" /\ breaks < MaxBreaks
    /\ breaks' = breaks + 1
    /\ clientUp' = FALSE /\ cstate' = "down" /\ rl' = "dial" /\ readied' = FALSE
    /\ UNCHANGED <<desired, dialled, captured, user, sets, up, rowVars, at, for, bcastVars, connVars,
                   viewVars, shownVars, flagVars>>

-----------------------------------------------------------------------------
(* The relay: one update told to the others.                               *)

\* broadcastPresence computes the update, ...
Compute(g) == LET c == for[g] IN
    /\ at[g] = "compute"
    /\ upd' = [upd EXCEPT ![g] = andThen[g] # "persist" /\ status[c] # "invisible"]
    /\ crossed' = \/ crossed
                  \/ \E h \in Goroutine \ {g} : at[h] \in {"list", "tell"}
                  \/ andThen[g] # "persist" /\ conns # c
    /\ ghost' = (ghost \/ (andThen[g] = "persist" /\ dialled # c))
    /\ Goto(g, "list")
    /\ UNCHANGED <<breaks, clientVars, wireVars, rowVars, for, to, andThen, connVars, viewVars, shownVars,
                   missed, outrun, staleDir, refused>>

\* ... lists the ready connections, ...
ReadyConns(g) ==
    /\ at[g] = "list"
    /\ to' = [to EXCEPT ![g] = IF vlink = "none" THEN None ELSE vconn]
    /\ Goto(g, "tell")
    /\ UNCHANGED <<breaks, clientVars, wireVars, rowVars, for, upd, andThen, connVars, viewVars, shownVars,
                   flagVars>>

\* trySend to the viewer's connection k.  It reads its frames in order, so the
\* time they take makes no difference: handleSnapshot, handleDirUpdate and
\* handlePresence replace what was there.
Arrives(k) == k = vconn /\ vlink = "up"
TellPeer(k, there) == peers' = (IF Arrives(k) THEN there ELSE peers) /\ UNCHANGED cache
TellOnline(k, online) == cache' = (IF Arrives(k) THEN online ELSE cache) /\ UNCHANGED peers

\* ... and sends it.
Tell(g) ==
    /\ at[g] = "tell"
    /\ TellOnline(to[g], upd[g])
    /\ missed' = (missed \/ (andThen[g] = "persist" /\ ~Arrives(to[g])))
    /\ upd' = [upd EXCEPT ![g] = FALSE] /\ to' = [to EXCEPT ![g] = None]
    /\ andThen' = [andThen EXCEPT ![g] = IF @ = "dirTell" /\ g # Admin THEN "loop" ELSE "none"]
    /\ Goto(g, andThen[g])
    /\ UNCHANGED <<breaks, clientVars, wireVars, rowVars, for, connVars, viewVars, crossed, ghost, outrun,
                   staleDir, refused>>

\* A bug: nobody is told of the entry.
NoDirMutant(g) ==
    /\ at[g] = "dirTell"
    /\ Goto(g, andThen[g]) /\ andThen' = [andThen EXCEPT ![g] = "none"]
    /\ UNCHANGED <<breaks, clientVars, wireVars, rowVars, for, upd, to, connVars, viewVars, shownVars, flagVars>>

\* broadcastDirectoryUpdate.
DirTell(g) ==
    /\ at[g] = "dirTell"
    /\ TellPeer(vconn, TRUE)
    /\ Goto(g, andThen[g]) /\ andThen' = [andThen EXCEPT ![g] = "none"]
    /\ UNCHANGED <<breaks, clientVars, wireVars, rowVars, for, upd, to, connVars, viewVars, flagVars>>

-----------------------------------------------------------------------------
(* The relay: the subject's connections and the admin.                     *)

AddConn(c) ==
    /\ at[c] = "add"
    /\ conns' = c
    /\ Shut({conns})
    /\ Goto(c, IF ready[c] THEN "greet" ELSE "loop")
    /\ UNCHANGED <<breaks, clientVars, readied, rowVars, for, bcastVars, ready, status, viewVars, shownVars, flagVars>>

\* afterReady, run by the connection's own goroutine or by the admin's: the
\* sends to the subject come first, of which the ready frame matters here.
Greet(g) ==
    /\ at[g] = "greet"
    /\ readied' = IF g = Admin /\ clientUp /\ for[g] = dialled THEN TRUE ELSE readied
    /\ andThen' = [andThen EXCEPT ![g] = "dirTell"]
    /\ Goto(g, "compute")
    /\ UNCHANGED <<breaks, clientVars, up, rowVars, for, upd, to, connVars, viewVars, shownVars, flagVars>>

\* A bug: the status is stored and not told to anyone.
QuietSetMutant(c) ==
    /\ at[c] = "loop" /\ open[c] /\ ready[c] /\ up[c] # <<>>
    /\ up' = [up EXCEPT ![c] = Tail(@)]
    /\ status' = [status EXCEPT ![c] = Head(up[c])]
    /\ stored' = Head(up[c])
    /\ refused' = [refused EXCEPT ![c] = FALSE]
    /\ UNCHANGED <<breaks, clientVars, readied, device, at, for, bcastVars, ready, open, conns, viewVars,
                   shownVars, crossed, ghost, missed, outrun, staleDir>>
\* A bug: the status is told and not stored.
NotStoredMutant(c) ==
    /\ at[c] = "loop" /\ open[c] /\ ready[c] /\ up[c] # <<>>
    /\ up' = [up EXCEPT ![c] = Tail(@)]
    /\ status' = [status EXCEPT ![c] = Head(up[c])]
    /\ andThen' = [andThen EXCEPT ![c] = "loop"]
    /\ Goto(c, "compute")
    /\ refused' = [refused EXCEPT ![c] = FALSE]
    /\ UNCHANGED <<breaks, clientVars, readied, rowVars, for, upd, to, ready, open, conns, viewVars,
                   shownVars, crossed, ghost, missed, outrun, staleDir>>

HandlePresenceSet(c) ==
    /\ at[c] = "loop" /\ open[c] /\ ready[c] /\ up[c] # <<>>
    /\ up' = [up EXCEPT ![c] = Tail(@)]
    /\ status' = [status EXCEPT ![c] = Head(up[c])]
    /\ stored' = Head(up[c])
    /\ andThen' = [andThen EXCEPT ![c] = "loop"]
    /\ Goto(c, "compute")
    /\ refused' = [refused EXCEPT ![c] = FALSE]
    /\ UNCHANGED <<breaks, clientVars, readied, device, for, upd, to, ready, open, conns, viewVars,
                   shownVars, crossed, ghost, missed, outrun, staleDir>>

\* dispatch: the frame limiter, which all frames of the device share, answers
\* with an error that the client does not act on.
RefusePresenceSet(c) ==
    /\ at[c] = "loop" /\ open[c] /\ ready[c] /\ up[c] # <<>>
    /\ up' = [up EXCEPT ![c] = Tail(@)]
    /\ refused' = [refused EXCEPT ![c] = TRUE]
    /\ UNCHANGED <<breaks, clientVars, readied, rowVars, at, for, bcastVars, connVars, viewVars, shownVars,
                   crossed, ghost, missed, outrun, staleDir>>

\* The relay notices that the client's end is gone.
Notice(c) ==
    /\ open[c] /\ c <= dialled /\ (c < dialled \/ ~clientUp)
    /\ Shut({c})
    /\ UNCHANGED <<breaks, clientVars, readied, rowVars, at, for, bcastVars, ready, status, conns, viewVars,
                   shownVars, flagVars>>

\* The connection was replaced: the client's read fails.
Replaced ==
    /\ clientUp /\ rl = "serve" /\ ~open[dialled] /\ at[dialled] \notin {"none", "add"}
    /\ clientUp' = FALSE /\ cstate' = "down" /\ rl' = "dial" /\ readied' = FALSE
    /\ UNCHANGED <<breaks, desired, dialled, captured, user, sets, up, rowVars, at, for, bcastVars, connVars,
                   viewVars, shownVars, flagVars>>

\* A bug: removeConn does not look whose entry it deletes.
BlindRemoveMutant(c) ==
    /\ at[c] = "loop" /\ ~open[c]
    /\ conns' = None
    /\ IF ready[c]
       THEN /\ Goto(c, "compute")
            /\ andThen' = [andThen EXCEPT ![c] = "persist"]
       ELSE Goto(c, "gone") /\ UNCHANGED andThen
    /\ UNCHANGED <<breaks, clientVars, wireVars, rowVars, for, upd, to, ready, open, status, viewVars,
                   shownVars, flagVars>>

\* handleWS returns: removeConn, and a ready device is announced offline,
\* whether or not this connection was still the registered one.
Teardown(c) ==
    /\ at[c] = "loop" /\ ~open[c]
    /\ conns' = IF conns = c THEN None ELSE conns
    /\ IF ready[c]
       THEN /\ Goto(c, "compute")
            /\ andThen' = [andThen EXCEPT ![c] = "persist"]
       ELSE Goto(c, "gone") /\ UNCHANGED andThen
    /\ UNCHANGED <<breaks, clientVars, wireVars, rowVars, for, upd, to, ready, open, status, viewVars,
                   shownVars, flagVars>>

Persist(c) ==
    /\ at[c] = "persist"
    /\ stored' = status[c]
    /\ ghost' = (ghost \/ dialled # c)
    /\ Goto(c, "gone")
    /\ UNCHANGED <<breaks, clientVars, wireVars, device, for, bcastVars, connVars, viewVars, shownVars, crossed, missed,
                   outrun, staleDir, refused>>

\* handleAdminAction, approve: the row, the directory update, the promotion.
Approve ==
    /\ at[Admin] = "none" /\ device = "pending"
    /\ device' = "active"
    /\ andThen' = [andThen EXCEPT ![Admin] = "promote"]
    /\ Goto(Admin, "dirTell")
    /\ UNCHANGED <<breaks, clientVars, wireVars, stored, for, upd, to, connVars, viewVars, shownVars, flagVars>>

Promote ==
    /\ at[Admin] = "promote"
    /\ IF conns # None /\ ~ready[conns]
       THEN /\ for' = [for EXCEPT ![Admin] = conns]
            /\ ready' = [ready EXCEPT ![conns] = TRUE]
            /\ status' = [status EXCEPT ![conns] = stored]
            /\ Goto(Admin, "greet")
       ELSE Goto(Admin, "none") /\ UNCHANGED <<for, ready, status>>
    /\ UNCHANGED <<breaks, clientVars, wireVars, rowVars, bcastVars, open, conns, viewVars, shownVars, flagVars>>

-----------------------------------------------------------------------------
(* The viewer, and the goroutine of its connection on the relay.           *)

\* Handshake and addConn.
ViewerConnects ==
    /\ vlink # "up" /\ vat = "none" /\ vconn < MaxViewer
    /\ vconn' = vconn + 1 /\ vlink' = "up" /\ vat' = "dirRead"
    /\ UNCHANGED <<breaks, clientVars, wireVars, rowVars, at, for, bcastVars, connVars, vread, vlist,
                   shownVars, flagVars>>

\* afterReady: listDevicesByState, ...
ReadDirectory ==
    /\ vat = "dirRead"
    /\ vread' = device /\ vat' = "dirSend"
    /\ UNCHANGED <<breaks, clientVars, wireVars, rowVars, at, for, bcastVars, connVars, vconn, vlink,
                   vlist, shownVars, flagVars>>

\* ... the snapshot, readyConns, ...
SendDirectory ==
    /\ vat = "dirSend"
    /\ TellPeer(vconn, vread = "active")
    /\ staleDir' = (staleDir \/ vread # device)
    /\ vread' = None /\ vlist' = IF conns # None /\ ready[conns] THEN conns ELSE None
    /\ vat' = "tell"
    /\ UNCHANGED <<breaks, clientVars, wireVars, rowVars, at, for, bcastVars, connVars, vconn, vlink,
                   crossed, ghost, missed, outrun, refused>>

\* ... and the presence of each.
TellPresence ==
    /\ vat = "tell"
    /\ IF vlist # None
       THEN /\ TellOnline(vconn, status[vlist] # "invisible")
            /\ crossed' = (crossed \/ conns # vlist)
       ELSE UNCHANGED <<shownVars, crossed>>
    /\ vlist' = None /\ vat' = "up"
    /\ UNCHANGED <<breaks, clientVars, wireVars, rowVars, at, for, bcastVars, connVars, vconn, vlink, vread,
                   ghost, missed, outrun, staleDir, refused>>

\* The viewer's connection breaks.  Its peers and its presence cache stay,
\* and what the relay sends until it notices is lost.
ViewerBreaks ==
    /\ vlink = "up" /\ vat = "up" /\ vconn < MaxViewer /\ breaks < MaxBreaks
    /\ breaks' = breaks + 1
    /\ vlink' = "dead" /\ vat' = "none"
    /\ UNCHANGED <<clientVars, wireVars, rowVars, at, for, bcastVars, connVars, vconn, vread, vlist,
                   shownVars, flagVars>>

\* removeConn.
ViewerGone ==
    /\ vlink = "dead"
    /\ vlink' = "none"
    /\ UNCHANGED <<breaks, clientVars, wireVars, rowVars, at, for, bcastVars, connVars, vconn, vat, vread,
                   vlist, shownVars, flagVars>>

-----------------------------------------------------------------------------
RunLoop == Connect \/ Capture \/ Announce \/ Publish \/ Replaced
Broadcast(g) == Compute(g) \/ ReadyConns(g) \/ Tell(g) \/ DirTell(g) \/ Greet(g)
Serve(c) == AddConn(c) \/ HandlePresenceSet(c) \/ RefusePresenceSet(c) \/ Teardown(c) \/ Persist(c)
Viewer == ViewerConnects \/ ReadDirectory \/ SendDirectory \/ TellPresence

Next ==
    \/ RunLoop \/ SendStatus \/ Break
    \/ \E s \in Status : SetStatus(s)
    \/ \E g \in Goroutine : Broadcast(g)
    \/ \E c \in Conn : Serve(c) \/ Notice(c)
    \/ Approve \/ Promote
    \/ Viewer \/ ViewerGone \/ ViewerBreaks

Fairness ==
    /\ WF_vars(RunLoop) /\ WF_vars(SendStatus) /\ WF_vars(Promote)
    /\ \A g \in Goroutine : WF_vars(Broadcast(g))
    /\ \A c \in Conn : WF_vars(Serve(c)) /\ WF_vars(Notice(c))
    /\ WF_vars(Viewer) /\ WF_vars(ViewerGone)

Spec == Init /\ [][Next]_vars /\ Fairness

-----------------------------------------------------------------------------
(* Properties.                                                             *)

\* Goroutines are at one of their steps, and an open connection that is
\* being served is the registered one.
TypeOK ==
    /\ desired \in Status /\ stored \in Status /\ user \in Status \union {None}
    /\ cstate \in {"down", "admitted", "waiting", "pending", "ready"}
    /\ rl \in {"dial", "capture", "announce", "publish", "serve"}
    /\ captured \in Status \union {None}
    /\ at \in [Goroutine -> {"none", "add", "greet", "compute", "list", "tell", "dirTell",
                             "loop", "persist", "gone", "promote"}]
    /\ andThen \in [Goroutine -> {"none", "dirTell", "loop", "persist", "promote"}]
    /\ status \in [Conn -> Status] /\ ready \in [Conn -> BOOLEAN] /\ refused \in [Conn -> BOOLEAN]
    /\ conns \in Conn \union {None}
    /\ vat \in {"none", "dirRead", "dirSend", "tell", "up"}
    /\ cache \in BOOLEAN \union {None} /\ peers \in BOOLEAN
    /\ \A c \in Conn : up[c] # <<>> => open[c]
    /\ \A c \in Conn : at[c] = "loop" /\ open[c] => conns = c

\* Nothing is under way: no frame, no goroutine between two of its steps.
Quiet ==
    /\ user = None /\ rl \in {"serve", "dial"} /\ ~readied
    /\ vat = "up"
    /\ at[Admin] = "none" /\ (clientUp => open[dialled])
    /\ \A c \in Conn :
         \/ at[c] \in {"none", "gone"}
         \/ at[c] = "loop" /\ open[c] /\ c = dialled /\ clientUp /\ up[c] = <<>>

Connected == clientUp /\ ready[dialled]
Shown == peers /\ cache = TRUE

\* When nothing is under way the roster shows the subject online exactly if
\* it is connected and not invisible.  The exceptions are what the code does
\* not order: two updates at once, a teardown that comes after the next
\* connection, a departure while the viewer was away, a late snapshot.
RosterIsRight ==
    Quiet /\ ~crossed /\ ~ghost /\ ~missed /\ ~staleDir
      => (Shown <=> Connected /\ status[dialled] # "invisible")

\* An approved device is in the roster of everyone connected, without a
\* reconnect, unless a snapshot read before the approval was sent after it.
DirectoryIsRight == Quiet /\ ~staleDir => (peers <=> device = "active")

\* SetStatus reaches the relay, now or with the next connection, unless the
\* run loop published the status it had read before, or the relay's frame
\* limiter refused the last status it was sent: nobody sends it again.
StatusIsPublished == Quiet /\ Connected => status[dialled] = desired \/ outrun \/ refused[dialled]

\* The presence row, which the next connection starts from, holds the status
\* of the present one unless an earlier connection wrote after it.
StoredIsCurrent == Quiet /\ Connected => stored = status[dialled] \/ ghost

\* The state is well formed; the status a user chose is the one the relay has
\* and the one in its row.
StatusIsRight == TypeOK /\ StatusIsPublished /\ StoredIsCurrent

=============================================================================
