------------------------------ MODULE Session ------------------------------
(***************************************************************************)
(* The client's session with the relay: Start, the run loop with its       *)
(* backoff, the codes that end it for good, Stop, and the requests an      *)
(* admin's device waits for.  The clients share an address, so all their   *)
(* attempts pass the relay's limiter of new connections.                   *)
(*                                                                         *)
(* A step of the clock stands for one second; timers and the limiter go    *)
(* by it, the rest takes no time unless the limiter's lock is busy.        *)
(***************************************************************************)
EXTENDS RateLimiter

CONSTANTS
    Admin,       \* the client whose user asks for the pending devices
    Call,        \* calls of ListPending
    MaxBackoff,  \* maxBackoff (30)
    MaxEvents,   \* bound: breaks, outages, changes of standing, Stops and requests
    None

ASSUME SessionAssumption ==
    /\ Admin \in Caller /\ MaxBackoff \in Nat \ {0} /\ MaxEvents \in Nat
    /\ None \notin Call \union {"unreachable", "too_many", "closed", "rejected", "not_found"}

Client == Caller

VARIABLES
    phase,      \* where the run loop is
    err,        \* what connectAndServe returned
    backoff, timer,
    cancelled,  \* the context of the run loop, by Stop
    standing,   \* how the relay would answer the handshake
    relayUp,
    call,       \* where each ListPending is
    pending,    \* Client.pending
    channel,    \* the answer in a call's channel
    wire,       \* requests and replies between the admin and the relay
    events,     \* how many of MaxEvents have happened
    rejected    \* history: clients told that they need not come back

loopVars == <<phase, err, backoff, timer, cancelled>>
relayVars == <<standing, relayUp, events>>
callVars == <<call, pending, channel, wire>>
vars == <<limiterVars, loopVars, relayVars, callVars, rejected>>

\* "rejected" stands for the codes that end the run loop: auth_failed,
\* forbidden, client_too_old.  An unknown device gets not_found.
Standing == {"ready", "pending", "rejected", "not_found"}

Init ==
    /\ LimiterInit
    /\ phase = [c \in Client |-> "idle"] /\ err = [c \in Client |-> None]
    /\ backoff = [c \in Client |-> 1] /\ timer = [c \in Client |-> 0]
    /\ cancelled = [c \in Client |-> FALSE]
    /\ standing = [c \in Client |-> IF c = Admin THEN "ready" ELSE "pending"] /\ relayUp = TRUE /\ events = 0
    /\ call = [q \in Call |-> "none"] /\ pending = {} /\ channel = [q \in Call |-> None]
    /\ wire = {} /\ rejected = {}

Goto(c, l) == phase' = [phase EXCEPT ![c] = l]

\* The bound on what users, the relay's operator and the network do.
Event == events < MaxEvents /\ events' = events + 1

-----------------------------------------------------------------------------
(* Start, the run loop, Stop.                                              *)

Start(c) ==
    /\ phase[c] = "idle"
    /\ Goto(c, "top")
    /\ UNCHANGED <<limiterVars, err, backoff, timer, cancelled, relayVars, callVars, rejected>>

\* The top of the loop: end if cancelled, else dial.  A relay that is there
\* asks its limiter.
Dial(c) ==
    /\ phase[c] = "top" /\ ~cancelled[c]
    /\ IF relayUp
       THEN ReadClock(c) /\ Goto(c, "asking") /\ UNCHANGED err
       ELSE UNCHANGED asking /\ Goto(c, "returned") /\ err' = [err EXCEPT ![c] = "unreachable"]
    /\ UNCHANGED <<hits, admitted, backoff, timer, cancelled, relayVars, callVars, rejected>>

\* handleWS: a refused attempt is an HTTP error to the client.
Accepted(c) ==
    /\ phase[c] = "asking"
    /\ \/ Allow(c) /\ Goto(c, "handshake") /\ UNCHANGED err
       \/ Refuse(c) /\ Goto(c, "returned") /\ err' = [err EXCEPT ![c] = "too_many"]
    /\ UNCHANGED <<backoff, timer, cancelled, relayVars, callVars, rejected>>

Live(c) == relayUp /\ ~cancelled[c]

\* handshake.
Handshake(c) ==
    /\ phase[c] = "handshake" /\ Live(c)
    /\ IF standing[c] \in {"ready", "pending"}
       THEN Goto(c, standing[c]) /\ UNCHANGED <<err, rejected>>
       ELSE /\ Goto(c, "returned") /\ err' = [err EXCEPT ![c] = standing[c]]
            /\ rejected' = IF standing[c] = "rejected" THEN rejected \union {c} ELSE rejected
    /\ UNCHANGED <<limiterVars, backoff, timer, cancelled, relayVars, callVars>>

\* handleReady, after the approval.
HandleReady(c) ==
    /\ phase[c] = "pending" /\ Live(c) /\ standing[c] = "ready"
    /\ Goto(c, "ready")
    /\ UNCHANGED <<limiterVars, err, backoff, timer, cancelled, relayVars, callVars, rejected>>

\* A bug: a cancelled context does not end a read.
DeafReadMutant(c) ==
    /\ phase[c] \in {"handshake", "pending", "ready"} /\ ~relayUp
    /\ Goto(c, "returned") /\ err' = [err EXCEPT ![c] = "closed"]
    /\ UNCHANGED <<limiterVars, backoff, timer, cancelled, relayVars, callVars, rejected>>

\* A read fails: the relay is gone, or the context is cancelled.
ReadFails(c) ==
    /\ phase[c] \in {"handshake", "pending", "ready"} /\ ~Live(c)
    /\ Goto(c, "returned") /\ err' = [err EXCEPT ![c] = "closed"]
    /\ UNCHANGED <<limiterVars, backoff, timer, cancelled, relayVars, callVars, rejected>>

\* A call that has taken the connection and not yet sent will find it closed.
LoseConn(c) ==
    call' = [q \in Call |-> IF c = Admin /\ call[q] = "send" THEN "late" ELSE call[q]]

\* A bug: a refused connection counts as a rejection.
AnyErrorMutant(c) ==
    /\ phase[c] = "returned"
    /\ err' = [err EXCEPT ![c] = None]
    /\ IF cancelled[c] \/ err[c] \in {"rejected", "too_many"} THEN Goto(c, "ended") /\ UNCHANGED timer
       ELSE Goto(c, "wait") /\ timer' = [timer EXCEPT ![c] = backoff[c]]
    /\ LoseConn(c)
    /\ UNCHANGED <<limiterVars, backoff, cancelled, relayVars, pending, channel, wire, rejected>>
\* A bug: the codes are not looked at.
RetryAllMutant(c) ==
    /\ phase[c] = "returned"
    /\ err' = [err EXCEPT ![c] = None]
    /\ IF cancelled[c] THEN Goto(c, "ended") /\ UNCHANGED timer
       ELSE Goto(c, "wait") /\ timer' = [timer EXCEPT ![c] = backoff[c]]
    /\ LoseConn(c)
    /\ UNCHANGED <<limiterVars, backoff, cancelled, relayVars, pending, channel, wire, rejected>>

\* connectAndServe has returned: setConn(nil), and the loop ends or waits.
Returned(c) ==
    /\ phase[c] = "returned"
    /\ err' = [err EXCEPT ![c] = None]
    /\ IF cancelled[c] \/ err[c] = "rejected" THEN Goto(c, "ended") /\ UNCHANGED timer
       ELSE Goto(c, "wait") /\ timer' = [timer EXCEPT ![c] = backoff[c]]
    /\ LoseConn(c)
    /\ UNCHANGED <<limiterVars, backoff, cancelled, relayVars, pending, channel, wire, rejected>>

\* A bug: the wait doubles without end.
DoubleMutant(c) ==
    /\ phase[c] = "wait" /\ timer[c] = 0
    /\ Goto(c, "top")
    /\ backoff' = [backoff EXCEPT ![c] = IF @ <= 2 * MaxBackoff THEN 2 * @ ELSE @]
    /\ UNCHANGED <<limiterVars, err, timer, cancelled, relayVars, callVars, rejected>>

\* The wait is over; the next one is twice as long, up to the first value that
\* is not below maxBackoff.  Nothing makes it short again.
Elapsed(c) ==
    /\ phase[c] = "wait" /\ timer[c] = 0
    /\ Goto(c, "top")
    /\ backoff' = [backoff EXCEPT ![c] = IF @ < MaxBackoff THEN 2 * @ ELSE @]
    /\ UNCHANGED <<limiterVars, err, timer, cancelled, relayVars, callVars, rejected>>

\* Stop: cancel, then wg.Wait.
Stop(c) ==
    /\ Event /\ phase[c] # "idle" /\ ~cancelled[c]
    /\ cancelled' = [cancelled EXCEPT ![c] = TRUE]
    /\ UNCHANGED <<limiterVars, phase, err, backoff, timer, standing, relayUp, callVars, rejected>>

\* ctx.Done at the top of the loop and in the wait.
Done(c) ==
    /\ phase[c] \in {"top", "wait"} /\ cancelled[c]
    /\ Goto(c, "ended") /\ timer' = [timer EXCEPT ![c] = 0]
    /\ UNCHANGED <<limiterVars, err, backoff, cancelled, relayVars, callVars, rejected>>

-----------------------------------------------------------------------------
(* ListPending.                                                            *)

\* newPending.
NewPending(q) ==
    /\ Event /\ call[q] = "none" /\ phase[Admin] = "ready"
    /\ call' = [call EXCEPT ![q] = "send"] /\ pending' = pending \union {q}
    /\ UNCHANGED <<limiterVars, loopVars, standing, relayUp, channel, wire, rejected>>

\* The request leaves, or the send fails and with it the call.
SendRequest(q) ==
    /\ call[q] \in {"send", "late"}
    /\ IF call[q] = "send" /\ phase[Admin] = "ready"
       THEN wire' = wire \union {<<"list", q>>} /\ call' = [call EXCEPT ![q] = "await"]
       ELSE UNCHANGED wire /\ call' = [call EXCEPT ![q] = "return"]
    /\ UNCHANGED <<limiterVars, loopVars, relayVars, pending, channel, rejected>>

\* handleAdminListPending; over the frame limit it is an error frame.
Answer(q) ==
    /\ <<"list", q>> \in wire
    /\ \E r \in {"reply", "error"} : wire' = (wire \ {<<"list", q>>}) \union {<<r, q>>}
    /\ UNCHANGED <<limiterVars, loopVars, relayVars, call, pending, channel, rejected>>

\* routeReply, and of an error frame only an event.
RouteReply(q) ==
    /\ phase[Admin] = "ready"
    /\ \/ /\ <<"reply", q>> \in wire
          /\ wire' = wire \ {<<"reply", q>>}
          /\ channel' = IF q \in pending THEN [channel EXCEPT ![q] = q] ELSE channel
          /\ pending' = pending \ {q}
       \/ /\ <<"error", q>> \in wire
          /\ wire' = wire \ {<<"error", q>>}
          /\ UNCHANGED <<channel, pending>>
    /\ UNCHANGED <<limiterVars, loopVars, relayVars, call, rejected>>

Answered(q) ==
    /\ call[q] = "await" /\ channel[q] # None
    /\ call' = [call EXCEPT ![q] = "return"]
    /\ UNCHANGED <<limiterVars, loopVars, relayVars, pending, channel, wire, rejected>>

\* A bug: the wait ends only when the connection is down.
OnlyDownMutant(q) ==
    /\ call[q] = "await" /\ phase[Admin] # "ready"
    /\ call' = [call EXCEPT ![q] = "return"]
    /\ UNCHANGED <<limiterVars, loopVars, relayVars, pending, channel, wire, rejected>>

\* adminReplyTimeout, or the deadline of the caller.
TimeOut(q) ==
    /\ call[q] = "await"
    /\ call' = [call EXCEPT ![q] = "return"]
    /\ UNCHANGED <<limiterVars, loopVars, relayVars, pending, channel, wire, rejected>>

\* cancelPending, deferred.
CancelPending(q) ==
    /\ call[q] = "return"
    /\ pending' = pending \ {q}
    /\ call' = [call EXCEPT ![q] = "done"] /\ channel' = [channel EXCEPT ![q] = None]
    /\ UNCHANGED <<limiterVars, loopVars, relayVars, wire, rejected>>

-----------------------------------------------------------------------------
(* The relay and the network.                                              *)

\* The relay stops: every connection ends and its limiter is empty again.
RelayDown ==
    /\ Event /\ relayUp
    /\ relayUp' = FALSE /\ wire' = {}
    /\ hits' = Nothing /\ admitted' = Nothing /\ asking' = Nothing
    /\ phase' = [c \in Client |-> IF phase[c] = "asking" THEN "returned" ELSE phase[c]]
    /\ err' = [c \in Client |-> IF phase[c] = "asking" THEN "closed" ELSE err[c]]
    /\ UNCHANGED <<backoff, timer, cancelled, standing, call, pending, channel, rejected>>

RelayBack ==
    /\ ~relayUp
    /\ relayUp' = TRUE
    /\ UNCHANGED <<limiterVars, loopVars, standing, events, callVars, rejected>>

\* One connection breaks.
Break(c) ==
    /\ Event /\ phase[c] \in {"handshake", "pending", "ready"}
    /\ Goto(c, "returned") /\ err' = [err EXCEPT ![c] = "closed"]
    /\ wire' = IF c = Admin THEN {} ELSE wire
    /\ UNCHANGED <<limiterVars, backoff, timer, cancelled, standing, relayUp, call, pending, channel,
                   rejected>>

\* The admin decides, the passphrase is changed, the minimum version raised.
\* A denied device is cut off.
NewStanding(c) ==
    /\ Event
    /\ \E s \in Standing \ {"pending"} : standing' = [standing EXCEPT ![c] = s]
    /\ IF standing'[c] = "rejected" /\ phase[c] \in {"handshake", "pending"}
       THEN Goto(c, "returned") /\ err' = [err EXCEPT ![c] = "closed"]
       ELSE UNCHANGED <<phase, err>>
    /\ UNCHANGED <<limiterVars, backoff, timer, cancelled, relayUp, callVars, rejected>>

\* A second passes, in no client's time before its timer has gone off.
Tick ==
    /\ \A c \in Client : phase[c] = "wait" => timer[c] > 0
    /\ LimiterTick
    /\ timer' = [c \in Client |-> IF phase[c] = "wait" THEN timer[c] - 1 ELSE timer[c]]
    /\ UNCHANGED <<phase, err, backoff, cancelled, relayVars, callVars, rejected>>

Collect == hits # Recent(hits, 0) /\ GC /\ UNCHANGED <<loopVars, relayVars, callVars, rejected>>

-----------------------------------------------------------------------------
Loop(c) == \/ Dial(c) \/ Accepted(c) \/ Handshake(c) \/ HandleReady(c) \/ ReadFails(c)
           \/ Returned(c) \/ Elapsed(c) \/ Done(c)
ListPending(q) == SendRequest(q) \/ Answered(q) \/ CancelPending(q)

Next ==
    \/ \E c \in Client : Start(c) \/ Loop(c) \/ Stop(c) \/ Break(c) \/ NewStanding(c)
    \/ \E q \in Call : NewPending(q) \/ ListPending(q) \/ TimeOut(q) \/ Answer(q) \/ RouteReply(q)
    \/ RelayDown \/ RelayBack \/ Tick \/ Collect

\* The goroutines run, time passes, timers go off, and the relay's operator
\* brings it back.
Fairness ==
    /\ \A c \in Client : WF_vars(Loop(c))
    /\ \A q \in Call : WF_vars(ListPending(q)) /\ WF_vars(TimeOut(q))
    /\ WF_vars(Tick) /\ WF_vars(RelayBack)

Spec == Init /\ [][Next]_vars /\ Fairness

-----------------------------------------------------------------------------
(* Properties.                                                             *)

Phase == {"idle", "top", "asking", "handshake", "pending", "ready", "returned", "wait", "ended"}

Reason == {"unreachable", "too_many", "closed", "rejected", "not_found"}

\* A goroutine of the relay is in Allow exactly for the clients that wait for
\* it, and the backoff stays below twice its maximum.
LoopTypeOK ==
    /\ phase \in [Client -> Phase] /\ err \in [Client -> Reason \union {None}]
    /\ DOMAIN asking = {c \in Client : phase[c] = "asking"}
    /\ backoff \in [Client -> 1 .. (2 * MaxBackoff - 1)]
    /\ timer \in [Client -> Nat] /\ \A c \in Client : timer[c] <= backoff[c]
    /\ cancelled \in [Client -> BOOLEAN]

RelayTypeOK ==
    /\ standing \in [Client -> Standing] /\ relayUp \in BOOLEAN /\ events \in Nat
    /\ rejected \subseteq Client

\* A pending entry belongs to a call that has not returned, and an answer in a
\* channel to the call that waits on it.
CallTypeOK ==
    /\ call \in [Call -> {"none", "send", "late", "await", "return", "done"}]
    /\ pending \subseteq {q \in Call : call[q] \in {"send", "late", "await", "return"}}
    /\ channel \in [Call -> Call \union {None}]
    /\ \A q \in Call : channel[q] # None => channel[q] = q /\ call[q] \in {"await", "return"}
    /\ wire \subseteq {"list", "reply", "error"} \X Call
    /\ \A f \in wire : call[f[2]] \in {"await", "return", "done"}

TypeOK == LimiterOK /\ LoopTypeOK /\ RelayTypeOK /\ CallTypeOK

\* The run loop ends by itself only on a code that says coming back is no use.
EndsForAReason == \A c \in Client : phase[c] = "ended" => cancelled[c] \/ c \in rejected

\* The state is well formed, the relay's limit holds, and no client gives up
\* without a reason.
SessionIsSound == TypeOK /\ LimitHolds /\ EndsForAReason

\* A client the relay has rejected does not come back.
RejectedStaysAway == [][\A c \in Client : c \in rejected => phase'[c] # "asking"]_vars

\* Once started, a client the relay would let in gets in, through outages and
\* the limiter of connections that all clients of an address share, unless it
\* is stopped or loses its standing.
Reconnects ==
    \A c \in Client :
        phase[c] \notin {"idle", "ended"} ~> \/ phase[c] \in {"pending", "ready", "ended"}
                                             \/ standing[c] = "not_found"

\* Stop returns.
StopReturns == \A c \in Client : cancelled[c] ~> phase[c] = "ended"

\* Every call of ListPending returns, an error frame or a lost reply
\* notwithstanding.
CallReturns == \A q \in Call : call[q] # "none" ~> call[q] = "done"

\* What a user or a program waits for comes back: Stop and ListPending.
CallsReturn == StopReturns /\ CallReturns
=============================================================================
