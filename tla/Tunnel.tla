------------------------------- MODULE Tunnel -------------------------------
(***************************************************************************)
(* The cloud tunnel.  The home relay dials the hub (runTunnel), proves it  *)
(* knows the secret, and both ends multiplex streams over the connection.  *)
(* The first stream is the control stream; every public connection gets a  *)
(* data stream of its own, announced by a StreamPreamble on the control    *)
(* stream.                                                                 *)
(*                                                                         *)
(* handleBackend runs on a goroutine per dialled connection, handlePublic  *)
(* on one per public connection, readControl beside Accept.  A session is  *)
(* numbered by its dial.  A data stream is named by the public connection  *)
(* it was opened for: the multiplexer's stream ids are unique.             *)
(***************************************************************************)
EXTENDS Naturals, FiniteSets, Sequences

CONSTANTS
    Public,     \* public connections
    Literal,    \* those whose address net.ParseIP accepts (no IPv6 zone)
    MaxFaults,  \* bound: cuts, failed handshakes, failed dials, failed writes
    None

ASSUME TunnelAssumption ==
    /\ Literal \subseteq Public /\ MaxFaults \in Nat
    /\ None \notin Public /\ None \notin Nat

\* A fault costs at most two dials: the session it ends, and the one a late
\* handleBackend of that session replaces.
Session == 1 .. (2 * MaxFaults + 1)

VARIABLES
    \* the hub
    hub,       \* where handleBackend is, by session
    link,      \* Hub.link
    old,       \* handleBackend's local old, by session
    hubOpen,   \* sessions whose connection the hub has not closed
    ctrlMu,    \* backendLink.ctrlMu: who holds it, by session
    pub,       \* where handlePublic is, by public connection
    plink,     \* handlePublic's local link
    \* the wire
    hs,        \* last handshake frame written, by session
    streams,   \* streams opened and not accepted, by session
    ctrl,      \* control stream, by session: halves of frames
    \* the relay
    relay,     \* where runTunnel is
    sess,      \* the session it dialled last
    relayOpen, \* sessions whose connection the relay has not closed
    reader,    \* readControl of the current listener
    pending,   \* SessionListener.pending: stream to address
    waiting,   \* the stream Accept waits for
    stream,    \* a data stream at the relay
    seen,      \* the RemoteAddr its HTTP server sees
    \* history
    cut,       \* sessions the network cut
    broken,    \* sessions with half a frame on the control stream
    faults

hubVars == <<hub, link, old, hubOpen, ctrlMu>>
pubVars == <<pub, plink>>
wireVars == <<hs, streams, ctrl>>
listenVars == <<reader, pending, waiting, stream, seen>>
relayVars == <<relay, sess, relayOpen>>
historyVars == <<cut, broken, faults>>
vars == <<hubVars, pubVars, wireVars, relayVars, listenVars, historyVars>>

Init ==
    /\ hub = [s \in Session |-> "none"] /\ old = [s \in Session |-> None]
    /\ link = None /\ hubOpen = {} /\ ctrlMu = [s \in Session |-> None]
    /\ pub = [p \in Public |-> "new"] /\ plink = [p \in Public |-> None]
    /\ hs = [s \in Session |-> "none"]
    /\ streams = [s \in Session |-> <<>>] /\ ctrl = [s \in Session |-> <<>>]
    /\ relay = "dial" /\ sess = 0 /\ relayOpen = {}
    /\ reader = "idle" /\ pending = [p \in Public |-> None] /\ waiting = None
    /\ stream = [p \in Public |-> "none"] /\ seen = [p \in Public |-> None]
    /\ cut = {} /\ broken = {} /\ faults = 0

Fault == faults < MaxFaults /\ faults' = faults + 1

-----------------------------------------------------------------------------
(* runTunnel and dialTunnel, on the relay.                                 *)

\* dialTunnelConn succeeds, the hub's AcceptBackends starts handleBackend and
\* AuthenticateAsBackend writes its Hello.
Dial ==
    /\ relay = "dial" /\ sess + 1 \in Session
    /\ sess' = sess + 1 /\ relay' = "challenge"
    /\ relayOpen' = relayOpen \union {sess'}
    /\ hubOpen' = hubOpen \union {sess'}
    /\ hub' = [hub EXCEPT ![sess'] = "hello"]
    /\ hs' = [hs EXCEPT ![sess'] = "hello"]
    /\ UNCHANGED <<link, old, ctrlMu, pubVars, streams, ctrl, listenVars, historyVars>>

DialFails ==
    /\ relay = "dial" /\ Fault
    /\ relay' = "backoff"
    /\ UNCHANGED <<hubVars, pubVars, wireVars, sess, relayOpen, listenVars, cut, broken>>

Respond ==
    /\ relay = "challenge" /\ hs[sess] = "challenge" /\ sess \in relayOpen
    /\ relay' = "result"
    /\ hs' = [hs EXCEPT ![sess] = "response"]
    /\ UNCHANGED <<hubVars, pubVars, streams, ctrl, sess, relayOpen, listenVars, historyVars>>

\* The result says OK: serveHTTP starts on a fresh SessionListener.
ReadResult ==
    /\ relay = "result" /\ hs[sess] = "ok" /\ sess \in relayOpen
    /\ relay' = "serve"
    /\ reader' = "idle" /\ waiting' = None
    /\ pending' = [p \in Public |-> None]
    /\ UNCHANGED <<hubVars, pubVars, wireVars, sess, relayOpen, stream, seen, historyVars>>

HandshakeLost ==
    /\ relay \in {"challenge", "result"} /\ sess \notin relayOpen
    /\ relay' = "backoff"
    /\ UNCHANGED <<hubVars, pubVars, wireVars, sess, relayOpen, listenVars, historyVars>>

\* Accept fails, serveHTTP returns, the connections it served are closed.
ServeEnds ==
    /\ relay = "serve" /\ sess \notin relayOpen /\ waiting = None
    /\ relay' = "backoff" /\ reader' = "end"
    /\ stream' = [p \in Public |-> IF stream[p] = "served" THEN "shut" ELSE stream[p]]
    /\ UNCHANGED <<hubVars, pubVars, wireVars, sess, relayOpen, pending, waiting, seen,
                   historyVars>>

\* A bug: the wait for the next attempt is never over.
NoRetryMutant ==
    /\ relay = "backoff" /\ UNCHANGED vars

Backoff ==
    /\ relay = "backoff" /\ relay' = "dial"
    /\ UNCHANGED <<hubVars, pubVars, wireVars, sess, relayOpen, listenVars, historyVars>>

-----------------------------------------------------------------------------
(* handleBackend, on the hub.                                              *)

Challenge(s) ==
    /\ hub[s] = "hello" /\ hs[s] = "hello" /\ s \in hubOpen
    /\ hub' = [hub EXCEPT ![s] = "response"]
    /\ hs' = [hs EXCEPT ![s] = "challenge"]
    /\ UNCHANGED <<link, old, hubOpen, ctrlMu, pubVars, streams, ctrl, relayVars, listenVars,
                   historyVars>>

CheckResponse(s) ==
    /\ hub[s] = "response" /\ hs[s] = "response" /\ s \in hubOpen
    /\ hub' = [hub EXCEPT ![s] = "control"]
    /\ hs' = [hs EXCEPT ![s] = "ok"]
    /\ UNCHANGED <<link, old, hubOpen, ctrlMu, pubVars, streams, ctrl, relayVars, listenVars,
                   historyVars>>

\* handshakeTimeout passes, or a frame is malformed or rejected.
HandshakeFails(s) ==
    /\ hub[s] \in {"hello", "response"} /\ s \in hubOpen /\ Fault
    /\ hub' = [hub EXCEPT ![s] = "done"]
    /\ hubOpen' = hubOpen \ {s}
    /\ UNCHANGED <<link, old, ctrlMu, pubVars, wireVars, relayVars, listenVars, cut, broken>>

\* The control stream is the first stream of the session.
OpenControl(s) ==
    /\ hub[s] = "control"
    /\ \/ /\ s \in hubOpen
          /\ streams' = [streams EXCEPT ![s] = <<"control">>]
          /\ hub' = [hub EXCEPT ![s] = "link"]
       \/ /\ s \notin hubOpen
          /\ hub' = [hub EXCEPT ![s] = "done"]
          /\ UNCHANGED streams
    /\ UNCHANGED <<link, old, hubOpen, ctrlMu, pubVars, hs, ctrl, relayVars, listenVars,
                   historyVars>>

Link(s) ==
    /\ hub[s] = "link"
    /\ hub' = [hub EXCEPT ![s] = "close"]
    /\ old' = [old EXCEPT ![s] = link]
    /\ link' = s
    /\ UNCHANGED <<hubOpen, ctrlMu, pubVars, wireVars, relayVars, listenVars, historyVars>>

\* A bug: the session that was replaced is left open.
KeepOldMutant(s) ==
    /\ hub[s] = "close"
    /\ hub' = [hub EXCEPT ![s] = "done"]
    /\ UNCHANGED <<link, old, hubOpen, ctrlMu, pubVars, wireVars, relayVars, listenVars,
                   historyVars>>

CloseOld(s) ==
    /\ hub[s] = "close"
    /\ hub' = [hub EXCEPT ![s] = "done"]
    /\ hubOpen' = hubOpen \ {old[s]}
    /\ UNCHANGED <<link, old, ctrlMu, pubVars, wireVars, relayVars, listenVars, historyVars>>

-----------------------------------------------------------------------------
(* The connection under a session.                                         *)

Cut(s) ==
    /\ s \in (hubOpen \union relayOpen) \ cut /\ Fault
    /\ cut' = cut \union {s}
    /\ UNCHANGED <<hubVars, pubVars, wireVars, relayVars, listenVars, broken>>

\* A keepalive or a read fails; the handshake's frame reads fail likewise.
HubNotices(s) ==
    /\ s \in hubOpen /\ (s \in cut \/ s \notin relayOpen)
    /\ hubOpen' = hubOpen \ {s}
    /\ hub' = [hub EXCEPT ![s] = IF @ \in {"hello", "response"} THEN "done" ELSE @]
    /\ UNCHANGED <<link, old, ctrlMu, pubVars, wireVars, relayVars, listenVars, historyVars>>

RelayNotices(s) ==
    /\ s \in relayOpen /\ (s \in cut \/ s \notin hubOpen)
    /\ relayOpen' = relayOpen \ {s}
    /\ UNCHANGED <<hubVars, pubVars, wireVars, relay, sess, listenVars, historyVars>>

-----------------------------------------------------------------------------
(* handlePublic, on the hub.                                               *)

\* The limiter refuses the host.
RefusePublic(p) ==
    /\ pub[p] = "new"
    /\ pub' = [pub EXCEPT ![p] = "closed"]
    /\ UNCHANGED <<hubVars, plink, wireVars, relayVars, listenVars, historyVars>>

ReadLink(p) ==
    /\ pub[p] = "new"
    /\ plink' = [plink EXCEPT ![p] = link]
    /\ pub' = [pub EXCEPT ![p] = IF link = None THEN "closed" ELSE "open"]
    /\ UNCHANGED <<hubVars, wireVars, relayVars, listenVars, historyVars>>

OpenStream(p) == LET s == plink[p] IN
    /\ pub[p] = "open"
    /\ \/ /\ s \in hubOpen
          /\ streams' = [streams EXCEPT ![s] = Append(@, p)]
          /\ pub' = [pub EXCEPT ![p] = "header"]
       \/ /\ s \notin hubOpen
          /\ pub' = [pub EXCEPT ![p] = "closed"]
          /\ UNCHANGED streams
    /\ UNCHANGED <<hubVars, plink, hs, ctrl, relayVars, listenVars, historyVars>>

\* A bug: the preamble is written without ctrlMu.
NoLockMutant(p) == LET s == plink[p] IN
    /\ pub[p] = "header"
    /\ \/ /\ s \in hubOpen
          /\ ctrl' = [ctrl EXCEPT ![s] = Append(@, <<"header", p>>)]
          /\ pub' = [pub EXCEPT ![p] = "body"]
       \/ /\ s \notin hubOpen
          /\ pub' = [pub EXCEPT ![p] = "closed"]
          /\ UNCHANGED ctrl
    /\ UNCHANGED <<hubVars, plink, hs, streams, relayVars, listenVars, historyVars>>

\* WriteFrame writes the length, then the body, under ctrlMu.
WriteHeader(p) == LET s == plink[p] IN
    /\ pub[p] = "header" /\ ctrlMu[s] = None
    /\ \/ /\ s \in hubOpen
          /\ ctrlMu' = [ctrlMu EXCEPT ![s] = p]
          /\ ctrl' = [ctrl EXCEPT ![s] = Append(@, <<"header", p>>)]
          /\ pub' = [pub EXCEPT ![p] = "body"]
       \/ /\ s \notin hubOpen
          /\ pub' = [pub EXCEPT ![p] = "closed"]
          /\ UNCHANGED <<ctrlMu, ctrl>>
    /\ UNCHANGED <<hub, link, old, hubOpen, plink, hs, streams, relayVars, listenVars,
                   historyVars>>

\* A bug: the error path returns with ctrlMu held.
KeepLockMutant(p) == LET s == plink[p] IN
    /\ pub[p] = "body"
    /\ \/ /\ s \in hubOpen
          /\ ctrlMu' = [ctrlMu EXCEPT ![s] = None]
          /\ ctrl' = [ctrl EXCEPT ![s] = Append(@, <<"body", p>>)]
          /\ pub' = [pub EXCEPT ![p] = "pump"]
       \/ /\ s \notin hubOpen
          /\ pub' = [pub EXCEPT ![p] = "closed"]
          /\ UNCHANGED <<ctrlMu, ctrl>>
    /\ UNCHANGED <<hub, link, old, hubOpen, plink, hs, streams, relayVars, listenVars,
                   historyVars>>

WriteBody(p) == LET s == plink[p] IN
    /\ pub[p] = "body"
    /\ ctrlMu' = [ctrlMu EXCEPT ![s] = None]
    /\ \/ /\ s \in hubOpen
          /\ ctrl' = [ctrl EXCEPT ![s] = Append(@, <<"body", p>>)]
          /\ pub' = [pub EXCEPT ![p] = "pump"]
       \/ /\ s \notin hubOpen
          /\ pub' = [pub EXCEPT ![p] = "closed"]
          /\ UNCHANGED ctrl
    /\ UNCHANGED <<hub, link, old, hubOpen, plink, hs, streams, relayVars, listenVars,
                   historyVars>>

\* The multiplexer gives up a write on a stalled connection and keeps the
\* session; after the length was written, half a frame stays behind.
WriteFails(p) == LET s == plink[p] IN
    /\ \/ pub[p] = "header" /\ ctrlMu[s] = None /\ UNCHANGED <<ctrlMu, broken>>
       \/ /\ pub[p] = "body"
          /\ ctrlMu' = [ctrlMu EXCEPT ![s] = None]
          /\ broken' = broken \union {s}
    /\ s \in hubOpen /\ Fault
    /\ pub' = [pub EXCEPT ![p] = "closed"]
    /\ UNCHANGED <<hub, link, old, hubOpen, plink, wireVars, relayVars, listenVars, cut>>

\* pump returns when either copy does: the stream is gone, or the client is.
PumpEnds(p) ==
    /\ pub[p] = "pump" /\ (plink[p] \notin hubOpen \/ stream[p] = "shut")
    /\ pub' = [pub EXCEPT ![p] = "closed"]
    /\ UNCHANGED <<hubVars, plink, wireVars, relayVars, listenVars, historyVars>>

ClientLeaves(p) ==
    /\ pub[p] = "pump"
    /\ pub' = [pub EXCEPT ![p] = "closed"]
    /\ UNCHANGED <<hubVars, plink, wireVars, relayVars, listenVars, historyVars>>

-----------------------------------------------------------------------------
(* SessionListener, on the relay.                                          *)

\* ensureControlStream: the first stream accepted is taken for the control
\* stream.
AcceptControl ==
    /\ relay = "serve" /\ reader = "idle" /\ sess \in relayOpen
    /\ streams[sess] # <<>>
    /\ streams' = [streams EXCEPT ![sess] = Tail(@)]
    /\ reader' = "run"
    /\ UNCHANGED <<hubVars, pubVars, hs, ctrl, relayVars, pending, waiting, stream, seen,
                   historyVars>>

\* A bug: an address is taken for the stream Accept waits for, whichever that is.
InOrderMutant(p) ==
    /\ pending' = IF waiting # None THEN [pending EXCEPT ![waiting] = p]
                                    ELSE [pending EXCEPT ![p] = p]
    /\ UNCHANGED reader

\* What a whole frame on the control stream does.
Announce(p) ==
    /\ pending' = IF p \in Literal THEN [pending EXCEPT ![p] = p] ELSE pending
    /\ UNCHANGED reader

\* ReadFrame: a length followed by anything but its body does not decode, and
\* readControl returns for good.
ReadControl ==
    /\ reader = "run" /\ Len(ctrl[sess]) >= 2
    /\ LET h == ctrl[sess][1]
           b == ctrl[sess][2]
       IN IF h[1] = "header" /\ b = <<"body", h[2]>>
          THEN Announce(h[2])
          ELSE reader' = "end" /\ UNCHANGED pending
    /\ ctrl' = [ctrl EXCEPT ![sess] = SubSeq(@, 3, Len(@))]
    /\ UNCHANGED <<hubVars, pubVars, hs, streams, relayVars, waiting, stream, seen, historyVars>>

AcceptStream ==
    /\ relay = "serve" /\ reader # "idle" /\ waiting = None /\ sess \in relayOpen
    /\ streams[sess] # <<>>
    /\ waiting' = Head(streams[sess])
    /\ streams' = [streams EXCEPT ![sess] = Tail(@)]
    /\ UNCHANGED <<hubVars, pubVars, hs, ctrl, relayVars, reader, pending, stream, seen,
                   historyVars>>

\* waitForAddr finds the preamble and Accept returns the connection.
Accept ==
    /\ waiting # None /\ pending[waiting] # None
    /\ seen' = [seen EXCEPT ![waiting] = pending[waiting]]
    /\ pending' = [pending EXCEPT ![waiting] = None]
    /\ stream' = [stream EXCEPT ![waiting] = "served"]
    /\ waiting' = None
    /\ UNCHANGED <<hubVars, pubVars, wireVars, relayVars, reader, historyVars>>

\* A bug: the stream is dropped from Accept but not closed.
NotClosedMutant ==
    /\ waiting # None /\ pending[waiting] = None
    /\ waiting' = None
    /\ UNCHANGED <<hubVars, pubVars, wireVars, relayVars, reader, pending, stream, seen,
                   historyVars>>

\* preambleTimeout passes; the stream is closed and Accept goes on.
PreambleTimeout ==
    /\ waiting # None /\ pending[waiting] = None
    /\ stream' = [stream EXCEPT ![waiting] = "shut"]
    /\ waiting' = None
    /\ UNCHANGED <<hubVars, pubVars, wireVars, relayVars, reader, pending, seen, historyVars>>

\* The HTTP server reads the end of a stream whose other end was closed.
StreamEnds(p) ==
    /\ stream[p] = "served" /\ (pub[p] = "closed" \/ sess \notin relayOpen)
    /\ stream' = [stream EXCEPT ![p] = "shut"]
    /\ UNCHANGED <<hubVars, pubVars, wireVars, relayVars, reader, pending, waiting, seen,
                   historyVars>>

-----------------------------------------------------------------------------
Relay == Dial \/ Respond \/ ReadResult \/ HandshakeLost \/ ServeEnds \/ Backoff
Backend(s) == Challenge(s) \/ CheckResponse(s) \/ OpenControl(s) \/ Link(s) \/ CloseOld(s)
Detect(s) == HubNotices(s) \/ RelayNotices(s)
HandlePublic(p) ==
    ReadLink(p) \/ OpenStream(p) \/ WriteHeader(p) \/ WriteBody(p) \/ PumpEnds(p)
Listen == AcceptControl \/ AcceptStream \/ Accept \/ PreambleTimeout

Next ==
    \/ Relay \/ DialFails \/ Listen \/ ReadControl
    \/ \E s \in Session : Backend(s) \/ HandshakeFails(s) \/ Cut(s) \/ Detect(s)
    \/ \E p \in Public :
         HandlePublic(p) \/ RefusePublic(p) \/ WriteFails(p) \/ ClientLeaves(p) \/ StreamEnds(p)

Fairness ==
    /\ WF_vars(Relay) /\ WF_vars(Listen) /\ WF_vars(ReadControl)
    /\ \A s \in Session :
         WF_vars(Backend(s)) /\ WF_vars(HubNotices(s)) /\ WF_vars(RelayNotices(s))
    /\ \A p \in Public : WF_vars(HandlePublic(p)) /\ WF_vars(StreamEnds(p))

Spec == Init /\ [][Next]_vars /\ Fairness

-----------------------------------------------------------------------------
(* Properties.                                                             *)

HubTypeOK ==
    /\ hub \in [Session -> {"none", "hello", "response", "control", "link", "close", "done"}]
    /\ link \in Session \union {None} /\ old \in [Session -> Session \union {None}]
    /\ hubOpen \subseteq 1 .. sess
    /\ ctrlMu \in [Session -> Public \union {None}]
    /\ pub \in [Public -> {"new", "open", "header", "body", "pump", "closed"}]
    /\ plink \in [Public -> Session \union {None}]
    /\ \A p \in Public : pub[p] \in {"open", "header", "body", "pump"} => plink[p] # None

RelayTypeOK ==
    /\ relay \in {"dial", "challenge", "result", "serve", "backoff"}
    /\ sess \in 0 .. 2 * MaxFaults + 1 /\ relayOpen \subseteq 1 .. sess
    /\ relay \in {"challenge", "result", "serve"} => sess \in Session
    /\ reader \in {"idle", "run", "end"} /\ waiting \in Public \union {None}
    /\ reader = "run" => relay = "serve"
    /\ pending \in [Public -> Public \union {None}]
    /\ seen \in [Public -> Public \union {None}]
    /\ stream \in [Public -> {"none", "served", "shut"}]

WireTypeOK ==
    /\ hs \in [Session -> {"none", "hello", "challenge", "response", "ok"}]
    /\ streams \in [Session -> Seq(Public \union {"control"})]
    /\ ctrl \in [Session -> Seq({"header", "body"} \X Public)]
    /\ cut \subseteq Session /\ broken \subseteq Session /\ faults \in 0 .. MaxFaults

\* Every goroutine is at one of its steps, with the locals that step needs.
TypeOK == HubTypeOK /\ RelayTypeOK /\ WireTypeOK

\* AcceptBackends: one authenticated backend at a time, a new one replaces
\* and closes the one before.  A session that was linked and is not any more
\* is closed, or the handler that replaced it is about to close it.
OneBackend ==
    \A s \in Session :
      hub[s] \in {"close", "done"} /\ s # link /\ s \in hubOpen
        => \E t \in Session : hub[t] = "close" /\ old[t] = s

\* readControl outlives every public connection: on a session that is up it
\* ends only after a failed write left half a frame on the control stream.
ControlInStep ==
    relay = "serve" /\ reader = "end" /\ sess \in relayOpen => sess \in broken

\* The relay's rate limits and logs see each tunnelled connection under the
\* address of the client it came from, whatever was refused, timed out or
\* announced late before it.
AddressIsTheClients == \A p \in Public : seen[p] \in {None, p}

\* Only a session that was linked carries public connections: none that was
\* not authenticated is ever the link, and one not yet dialled has no traffic.
LinkedAreBackends ==
    /\ link # None => hub[link] \in {"close", "done"}
    /\ \A p \in Public : plink[p] # None => hub[plink[p]] \in {"close", "done"}
    /\ \A s \in Session : s > sess => hub[s] = "none" /\ ctrl[s] = <<>>

Opening == {"none", "hello", "response", "control"}

\* The listener takes the first stream for the control stream: no data stream
\* comes before it, and Accept is never handed the control stream.
ControlComesFirst ==
    /\ \A s \in Session : hub[s] \in Opening => streams[s] = <<>>
    /\ \A s \in Session : streams[s] # <<>> => Tail(streams[s]) \in Seq(Public)
    /\ relay = "serve" /\ reader # "idle" =>
         hub[sess] \notin Opening /\ streams[sess] \in Seq(Public)

\* ctrlMu is held by whoever has written half a frame, and by nobody else.
LockedWhileWriting ==
    /\ \A s \in Session :
         ctrlMu[s] # None => pub[ctrlMu[s]] = "body" /\ plink[ctrlMu[s]] = s
    /\ \A p \in Public : pub[p] = "body" => ctrlMu[plink[p]] = p

\* A control stream on which no write failed is a sequence of whole frames,
\* each length followed by its own body, but for the one being written.
WholeFrames(c) ==
    \A k \in 0 .. Len(c) :
      /\ 2 * k + 1 <= Len(c) => c[2 * k + 1][1] = "header"
      /\ 2 * k + 2 <= Len(c) => c[2 * k + 2] = <<"body", c[2 * k + 1][2]>>
FramesAreWhole ==
    \A s \in Session \ broken :
      /\ WholeFrames(ctrl[s])
      /\ IF ctrlMu[s] = None
         THEN s \in hubOpen => \E k \in 0 .. Len(ctrl[s]) : Len(ctrl[s]) = 2 * k
         ELSE /\ \E k \in 0 .. Len(ctrl[s]) : Len(ctrl[s]) = 2 * k + 1
              /\ ctrl[s][Len(ctrl[s])] = <<"header", ctrlMu[s]>>

\* Announced addresses are those of the streams they were announced for.
PendingIsTheClients == \A p \in Public : pending[p] \in {None, p}

\* Sessions and streams stay in step: one backend, a control stream that can be
\* read, and every connection under its own client's address.
StreamsInStep ==
    /\ TypeOK /\ OneBackend /\ ControlInStep /\ AddressIsTheClients
    /\ LinkedAreBackends /\ ControlComesFirst
    /\ LockedWhileWriting /\ FramesAreWhole /\ PendingIsTheClients

\* A public connection is never left hanging: it is handed to the relay's
\* HTTP server or closed, also when its preamble is lost, the control reader
\* is gone or the session ends under it.
Answered ==
    \A p \in Public : pub[p] # "new" ~> stream[p] = "served" \/ pub[p] = "closed"

\* Once the network behaves, the hub's link is the session the relay serves,
\* even if a handler of a dead session linked it after its successor.
Recovers ==
    <>[](/\ relay = "serve" /\ link = sess
         /\ sess \in hubOpen /\ sess \in relayOpen)
=============================================================================
