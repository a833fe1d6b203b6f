---------------------------- MODULE RosterProofs ----------------------------
(***************************************************************************)
(* Presence and the directory are right at rest, for any number of         *)
(* connections, changes of status and broken links.                        *)
(*                                                                         *)
(* The runs' invariants speak of states in which nothing is under way.     *)
(* The inductive ones below say what holds on the way there: where each    *)
(* goroutine is, what a connection still owes, and which update will put   *)
(* a wrong entry right.                                                    *)
(***************************************************************************)
EXTENDS Roster, SequenceTheorems, TLAPS

-----------------------------------------------------------------------------
(* The inductive invariant: where everyone is.                             *)

ClientTypeOK ==
    /\ desired \in Status /\ user \in {desired, None} /\ captured \in Status \union {None}
    /\ dialled \in 0 .. MaxConns /\ clientUp \in BOOLEAN /\ readied \in BOOLEAN
    /\ up \in [Conn -> Seq(Status)] /\ outrun \in BOOLEAN /\ refused \in [Conn -> BOOLEAN]

ViewTypeOK ==
    /\ vconn \in Nat /\ vlink \in {"none", "up", "dead"}
    /\ vat \in {"none", "dirRead", "dirSend", "tell", "up"}
    /\ vread \in {"pending", "active", None} /\ vlist \in Conn \union {None}
    /\ peers \in BOOLEAN /\ cache \in BOOLEAN \union {None}
    /\ crossed \in BOOLEAN /\ ghost \in BOOLEAN /\ missed \in BOOLEAN /\ staleDir \in BOOLEAN

RelayTypeOK ==
    /\ device \in {"pending", "active"} /\ stored \in Status
    /\ ready \in [Conn -> BOOLEAN] /\ open \in [Conn -> BOOLEAN] /\ status \in [Conn -> Status]
    /\ conns \in Conn \union {None}
    /\ at \in [Goroutine -> {"none", "add", "greet", "compute", "list", "tell", "dirTell",
                             "loop", "persist", "gone", "promote"}]
    /\ andThen \in [Goroutine -> {"none", "dirTell", "loop", "persist", "promote"}]
    /\ for \in [Goroutine -> Goroutine]
    /\ upd \in [Goroutine -> BOOLEAN] /\ to \in [Goroutine -> Nat \union {None}]

\* The run loop: a client that knows it was admitted has a ready connection,
\* and one that does not know yet has a ready frame on its way.
RunLoopOK ==
    /\ clientUp => dialled > 0
    /\ \/ rl = "dial" /\ cstate = "down" /\ ~clientUp
       \/ rl = "capture" /\ cstate \in {"admitted", "waiting"} /\ clientUp
       \/ rl = "announce" /\ cstate \in {"admitted", "waiting"} /\ clientUp /\ captured \in Status
       \/ rl = "publish" /\ cstate = "ready" /\ clientUp /\ captured \in Status
       \/ rl = "serve" /\ cstate \in {"pending", "ready"} /\ clientUp
    /\ readied => cstate \in {"waiting", "pending"} /\ ready[dialled]
    /\ clientUp /\ at[Admin] = "greet" /\ for[Admin] = dialled
         => cstate \in {"waiting", "pending"} /\ ~readied
    /\ cstate \in {"admitted", "ready"} => ready[dialled]
    /\ clientUp /\ ready[dialled] =>
         \/ cstate \in {"admitted", "ready"} \/ readied
         \/ at[Admin] = "greet" /\ for[Admin] = dialled

\* The admin's goroutine is at a step of an approval.
AdminOK ==
    /\ at[Admin] \in {"none", "dirTell", "promote", "greet", "compute", "list", "tell"}
    /\ at[Admin] \in {"compute", "list", "tell"} => andThen[Admin] = "dirTell"
    /\ at[Admin] = "dirTell" => andThen[Admin] \in {"promote", "none"}
    /\ at[Admin] \in {"greet", "compute", "list", "tell"} => for[Admin] \in Conn /\ ready[for[Admin]]
    /\ at[Admin] # "none" => device = "active"

\* A connection's goroutine broadcasts only for a ready connection, and leaves
\* only when it is closed.
ConnOK ==
    \A c \in Conn :
      /\ for[c] = c /\ at[c] # "promote"
      /\ at[c] \in {"greet", "compute", "list", "tell", "dirTell", "persist"} => ready[c]
      /\ at[c] \in {"compute", "list", "tell"} => andThen[c] \in {"dirTell", "loop", "persist"}
      /\ at[c] = "dirTell" => andThen[c] = "loop"
      /\ andThen[c] = "persist" => ~open[c] /\ at[c] \in {"compute", "list", "tell"}
      /\ at[c] \in {"gone", "persist"} => ~open[c]
      /\ at[c] = "none" => ~open[c] /\ ~ready[c]
      /\ (at[c] = "none") <=> (c > dialled)
      /\ ready[c] => device = "active"
      /\ up[c] # <<>> => open[c]

\* Between addConn and removeConn.
Served == {"greet", "compute", "list", "tell", "dirTell", "loop"}

\* Server.conns has the one connection that is open and served.
RegisteredOK ==
    /\ \A c \in Conn : at[c] \in Served /\ open[c] => conns = c
    /\ conns # None => at[conns] \in Served /\ andThen[conns] # "persist"

\* The viewer: what is not in its peers table after its snapshot is about to
\* be told by the approving admin.
ViewerOK ==
    /\ vat # "none" => vlink = "up"
    /\ vat = "dirSend" => vread # None
    /\ vread = "active" => device = "active"
    /\ vlist # None => ready[vlist]
    /\ peers => device = "active"
    /\ device = "active" /\ vat \in {"tell", "up"} /\ ~staleDir => peers \/ at[Admin] = "dirTell"

BaseInv ==
    /\ ClientTypeOK /\ ViewTypeOK /\ RelayTypeOK
    /\ RunLoopOK /\ AdminOK /\ ConnOK /\ RegisteredOK /\ ViewerOK

-----------------------------------------------------------------------------
(* The inductive invariant: what is still owed.                            *)

\* The status a connection will have when its frames are handled.
LastStatus(c) == IF up[c] = <<>> THEN status[c] ELSE up[c][Len(up[c])]

\* With nothing left to send, the last frame carries the status chosen, or it
\* did and was refused.
PublishOK ==
    rl = "serve" /\ cstate = "ready" /\ open[dialled] /\ user = None /\ ~outrun
    /\ ~(refused[dialled] /\ up[dialled] = <<>>)
      => LastStatus(dialled) = desired

\* An earlier connection was ready and is not gone: its teardown will come
\* after the connection of its successor.
Doomed == \E c \in Conn : c < dialled /\ ready[c] /\ at[c] \notin {"none", "gone"}

\* The row holds the status of the present connection.
StoredOK == dialled > 0 /\ ready[dialled] => stored = status[dialled] \/ ghost \/ Doomed

\* What excuses a wrong entry, now or by the time everything is at rest.
Excused == crossed \/ ghost \/ missed \/ Doomed

\* What the relay would answer now: a ready connection, a visible one.
Present == conns # None /\ ready[conns]
Visible == conns # None /\ ready[conns] /\ status[conns] # "invisible"

\* The last connection is closed and will be announced offline.
Leaving == dialled > 0 /\ ready[dialled] /\ ~open[dialled] /\ at[dialled] \in Served

\* A goroutine will compute an update.
Owed == \E h \in Goroutine : at[h] \in {"greet", "compute"}

\* Unless two cross, one update is told at a time, and it is true or another
\* one follows.
OneTells == \A g, h \in Goroutine : at[g] \in {"list", "tell"} /\ at[h] \in {"list", "tell"} => g = h
UpdateOK ==
    \A g \in Goroutine : at[g] \in {"list", "tell"} =>
      IF andThen[g] = "persist" THEN ~Present /\ ~upd[g]
      ELSE (Present \/ Leaving) /\ ((upd[g] <=> Visible) \/ Leaving \/ Owed)

\* A connection about to be announced offline is not the registered one.
LeftOK == \A c \in Conn : at[c] = "compute" /\ andThen[c] = "persist" => ~Present

\* The viewer believes the subject online only while it is there or leaving.
CacheOK == cache = TRUE => Present \/ Leaving

\* Once the viewer has been told what there is, its entry is true or an update
\* is on its way.
WillTell(g) == at[g] = "list" \/ (at[g] = "tell" /\ to[g] = vconn)
ShownOK ==
    vat = "up" \/ (vat = "tell" /\ vlist = None) =>
      \/ (cache = TRUE) <=> Visible
      \/ Leaving \/ Owed
      \/ \E g \in Goroutine : WillTell(g)

Truthful == OneTells /\ UpdateOK /\ LeftOK /\ CacheOK /\ ShownOK
PresenceOK == Excused \/ Truthful

-----------------------------------------------------------------------------
(* Facts about the constants and about frames                              *)

\* The admin is not a connection, and None is no value.
LEMMA ConnFacts ==
    /\ Admin \in Goroutine /\ Admin \notin Conn /\ Conn \subseteq Goroutine
    /\ \A g \in Goroutine : g = Admin \/ g \in Conn
    /\ \A c \in Conn : c \in Nat /\ c > 0 /\ c <= MaxConns
    /\ \A n \in 0 .. MaxConns : n \in Nat /\ (n > 0 <=> n \in Conn)
    /\ None \notin Conn /\ None \notin BOOLEAN /\ None \notin Nat /\ None \notin Status
    /\ None \notin {"pending", "active"}
  BY RosterAssumption DEF Admin, Goroutine, Conn

\* What Put does to the frames of a connection.
LEMMA AppendFacts ==
    ASSUME NEW s \in Seq(Status), NEW x \in Status
    PROVE  /\ Append(s, x) \in Seq(Status) /\ Append(s, x) # <<>>
           /\ Append(s, x)[Len(Append(s, x))] = x
  OBVIOUS

\* What handling the first frame does.
LEMMA TailFacts ==
    ASSUME NEW s \in Seq(Status), s # <<>>
    PROVE  /\ Head(s) \in Status /\ Tail(s) \in Seq(Status)
           /\ Tail(s) = <<>> => Head(s) = s[Len(s)]
           /\ Tail(s) # <<>> => Tail(s)[Len(Tail(s))] = s[Len(s)]
<1>1. Head(s) \in Status /\ Tail(s) \in Seq(Status) /\ Len(s) \in Nat
      /\ Len(Tail(s)) = Len(s) - 1 /\ \A i \in 1 .. Len(Tail(s)) : Tail(s)[i] = s[i + 1]
  BY HeadTailProperties, LenProperties
<1>2. Tail(s) = <<>> => Len(s) = 1
  <2>1. Len(<<>>) = 0  OBVIOUS
  <2> QED  BY <1>1, <2>1
<1>3. Tail(s) # <<>> => Len(Tail(s)) \in 1 .. Len(Tail(s))  BY <1>1, EmptySeq
<1>4. Head(s) = s[1]  OBVIOUS
<1> QED  BY <1>1, <1>2, <1>3, <1>4

-----------------------------------------------------------------------------
(* Every step keeps everyone where they may be                             *)

\* A new connection starts at addConn; nobody else has its number.
LEMMA ConnectBase == ASSUME BaseInv, Connect PROVE BaseInv'
<1>1. ClientTypeOK'
  BY ConnFacts DEF BaseInv, ClientTypeOK, Connect, wireVars, flagVars
<1>2. RelayTypeOK'
  BY ConnFacts DEF BaseInv, RelayTypeOK, ClientTypeOK, ConnOK, AdminOK, Connect, Goto, rowVars,
     bcastVars
<1>3. RunLoopOK'
  <2>1. dialled' = dialled + 1 /\ dialled' \in Conn /\ dialled' > 0 /\ clientUp' /\ rl' = "capture"
        /\ ~readied'
    BY ConnFacts DEF BaseInv, RunLoopOK, ClientTypeOK, Connect, wireVars
  <2>2. cstate' = IF device = "active" THEN "admitted" ELSE "waiting"
    BY DEF Connect
  <2>3. ready'[dialled'] <=> device = "active"
    BY <2>1 DEF BaseInv, RelayTypeOK, Connect
  <2>4. ~(at'[Admin] = "greet" /\ for'[Admin] = dialled')
    BY <2>1, ConnFacts DEF BaseInv, ClientTypeOK, RelayTypeOK, AdminOK, ConnOK, Connect, Goto
  <2> QED  BY <2>1, <2>2, <2>3, <2>4 DEF RunLoopOK
<1>4. AdminOK'
  BY ConnFacts DEF BaseInv, AdminOK, RelayTypeOK, ConnOK, Connect, Goto, rowVars, bcastVars
<1>5. ConnOK'
  <2> DEFINE d == dialled + 1
  <2>1. d \in Conn /\ dialled' = d /\ d \in Nat /\ dialled \in Nat
        /\ at' = [at EXCEPT ![d] = "add"] /\ open' = [open EXCEPT ![d] = TRUE]
        /\ ready' = [ready EXCEPT ![d] = (device = "active")]
        /\ UNCHANGED <<for, andThen, device, up>>
    BY ConnFacts DEF BaseInv, ClientTypeOK, Connect, Goto, wireVars, rowVars, bcastVars
  <2>2. at[d] = "none"
    BY <2>1, ConnFacts DEF BaseInv, ConnOK
  <2> SUFFICES ASSUME NEW k \in Conn PROVE ConnOK!(k)'
    BY DEF ConnOK
  <2>3. CASE k = d
    BY <2>1, <2>2, <2>3, ConnFacts DEF BaseInv, ConnOK, RelayTypeOK
  <2>4. CASE k # d
    <3>1. at'[k] = at[k] /\ open'[k] = open[k] /\ ready'[k] = ready[k]
      BY <2>1, <2>4, ConnFacts DEF BaseInv, RelayTypeOK
    <3>2. k > d <=> k > dialled
      BY <2>1, <2>4, ConnFacts
    <3> QED  BY <2>1, <3>1, <3>2, ConnFacts DEF BaseInv, ConnOK
  <2> QED  BY <2>3, <2>4
<1>6. RegisteredOK'
  <2> DEFINE d == dialled + 1
  <2>1. d \in Conn /\ at[d] = "none" /\ at' = [at EXCEPT ![d] = "add"]
        /\ open' = [open EXCEPT ![d] = TRUE] /\ UNCHANGED <<andThen, conns>>
    BY ConnFacts DEF BaseInv, ClientTypeOK, ConnOK, Connect, Goto, bcastVars
  <2>2. conns # d
    BY <2>1, ConnFacts DEF BaseInv, RegisteredOK, Served
  <2> QED  BY <2>1, <2>2, ConnFacts DEF BaseInv, RegisteredOK, RelayTypeOK, Served
<1>7. ViewerOK'
  BY ConnFacts DEF BaseInv, ViewerOK, ViewTypeOK, RelayTypeOK, AdminOK, ConnOK, Connect, Goto,
     wireVars, rowVars, viewVars, shownVars, flagVars
<1>8. ViewTypeOK'
  BY DEF BaseInv, ViewTypeOK, Connect, wireVars, viewVars, shownVars, flagVars
<1> QED  BY <1>1, <1>2, <1>3, <1>4, <1>5, <1>6, <1>7, <1>8 DEF BaseInv

\* Reading desired follows a connect or a ready frame.
LEMMA CaptureBase == ASSUME BaseInv, Capture PROVE BaseInv'
<1>1. ClientTypeOK'
  BY ConnFacts DEF BaseInv, ClientTypeOK, Capture, flagVars
<1>2. RunLoopOK'
  BY ConnFacts DEF BaseInv, RunLoopOK, ClientTypeOK, RelayTypeOK, Capture, connVars
<1>3. ViewTypeOK' /\ RelayTypeOK' /\ AdminOK' /\ ConnOK' /\ RegisteredOK' /\ ViewerOK'
  BY DEF BaseInv, ViewTypeOK, RelayTypeOK, AdminOK, ConnOK, RegisteredOK, ViewerOK, Served,
     Capture, rowVars, bcastVars, connVars, viewVars, shownVars, flagVars
<1> QED  BY <1>1, <1>2, <1>3 DEF BaseInv

\* Announcing the state decides whether there is something to publish.
LEMMA AnnounceBase == ASSUME BaseInv, Announce PROVE BaseInv'
<1>1. ClientTypeOK'
  BY ConnFacts DEF BaseInv, ClientTypeOK, Announce, wireVars, flagVars
<1>2. RunLoopOK'
  BY ConnFacts DEF BaseInv, RunLoopOK, ClientTypeOK, RelayTypeOK, AdminOK, ConnOK, Announce,
     wireVars, connVars
<1>3. ViewTypeOK' /\ RelayTypeOK' /\ AdminOK' /\ ConnOK' /\ RegisteredOK' /\ ViewerOK'
  BY DEF BaseInv, ViewTypeOK, RelayTypeOK, AdminOK, ConnOK, RegisteredOK, ViewerOK, Served,
     Announce, wireVars, rowVars, bcastVars, connVars, viewVars, shownVars, flagVars
<1> QED  BY <1>1, <1>2, <1>3 DEF BaseInv

\* Publishing appends a frame to the open connection.
LEMMA PublishBase == ASSUME BaseInv, Publish PROVE BaseInv'
<1>1. ClientTypeOK'
  <2>1. up' \in [Conn -> Seq(Status)]
    <3>1. CASE UNCHANGED up  BY <3>1 DEF BaseInv, ClientTypeOK
    <3>2. CASE clientUp /\ Put(captured)
      <4>1. dialled \in Conn /\ captured \in Status
        BY <3>2, ConnFacts DEF BaseInv, ClientTypeOK, RunLoopOK, Publish
      <4>2. Append(up[dialled], captured) \in Seq(Status)
        BY <4>1, AppendFacts DEF BaseInv, ClientTypeOK
      <4> QED  BY <3>2, <4>1, <4>2 DEF Put, BaseInv, ClientTypeOK
    <3> QED  BY <3>1, <3>2 DEF Publish
  <2> QED  BY <2>1 DEF BaseInv, ClientTypeOK, RelayTypeOK, Publish
<1>2. ViewTypeOK'
  BY ConnFacts DEF BaseInv, ViewTypeOK, Publish, Put, viewVars, shownVars
<1>3. RunLoopOK'
  BY ConnFacts DEF BaseInv, RunLoopOK, ClientTypeOK, RelayTypeOK, AdminOK, ConnOK, Publish,
     connVars
<1>4. ConnOK'
  BY ConnFacts DEF BaseInv, ConnOK, ClientTypeOK, RelayTypeOK, AdminOK, Publish, Put, rowVars,
     bcastVars, connVars
<1>5. ViewerOK'
  BY ConnFacts DEF BaseInv, ViewerOK, ViewTypeOK, RelayTypeOK, AdminOK, ConnOK, Publish, Put,
     rowVars, connVars, viewVars, shownVars
<1>6. RelayTypeOK' /\ AdminOK' /\ RegisteredOK'
  BY DEF BaseInv, RelayTypeOK, AdminOK, RegisteredOK, Served, Publish, rowVars, bcastVars,
     connVars
<1> QED  BY <1>1, <1>2, <1>3, <1>4, <1>5, <1>6 DEF BaseInv

\* SetStatus leaves the status it has stored to be sent.
LEMMA SetStatusBase == ASSUME BaseInv, NEW s \in Status, SetStatus(s) PROVE BaseInv'
<1>1. ClientTypeOK'
  BY ConnFacts DEF BaseInv, ClientTypeOK, SetStatus, wireVars, flagVars
<1>2. ViewTypeOK' /\ RelayTypeOK' /\ RunLoopOK' /\ AdminOK' /\ ConnOK' /\ RegisteredOK' /\ ViewerOK'
  BY DEF BaseInv, ViewTypeOK, RelayTypeOK, RunLoopOK, AdminOK, ConnOK, RegisteredOK, ViewerOK,
     Served, SetStatus, wireVars, rowVars, bcastVars, connVars, viewVars, shownVars, flagVars
<1> QED  BY <1>1, <1>2 DEF BaseInv

\* SetStatus sends on the present connection or on none.
LEMMA SendStatusBase == ASSUME BaseInv, SendStatus PROVE BaseInv'
<1>1. ClientTypeOK'
  <2>1. up' \in [Conn -> Seq(Status)]
    <3>1. CASE UNCHANGED up  BY <3>1 DEF BaseInv, ClientTypeOK
    <3>2. CASE clientUp /\ Put(user)
      <4>1. dialled \in Conn /\ user \in Status
        BY <3>2, ConnFacts DEF BaseInv, ClientTypeOK, RunLoopOK, SendStatus
      <4>2. Append(up[dialled], user) \in Seq(Status)
        BY <4>1, AppendFacts DEF BaseInv, ClientTypeOK
      <4> QED  BY <3>2, <4>1, <4>2 DEF Put, BaseInv, ClientTypeOK
    <3> QED  BY <3>1, <3>2 DEF SendStatus
  <2> QED  BY <2>1 DEF BaseInv, ClientTypeOK, RelayTypeOK, SendStatus, flagVars
<1>2. ViewTypeOK'
  BY ConnFacts DEF BaseInv, ViewTypeOK, SendStatus, Put, viewVars, shownVars, flagVars
<1>3. ConnOK'
  BY ConnFacts DEF BaseInv, ConnOK, ClientTypeOK, RelayTypeOK, AdminOK, SendStatus, Put, rowVars,
     bcastVars, connVars
<1>4. ViewerOK'
  BY ConnFacts DEF BaseInv, ViewerOK, ViewTypeOK, RelayTypeOK, AdminOK, ConnOK, SendStatus, Put,
     rowVars, connVars, viewVars, shownVars, flagVars
<1>5. RelayTypeOK' /\ RunLoopOK' /\ AdminOK' /\ RegisteredOK'
  BY DEF BaseInv, RelayTypeOK, RunLoopOK, AdminOK, RegisteredOK, Served, SendStatus, rowVars,
     bcastVars, connVars
<1> QED  BY <1>1, <1>2, <1>3, <1>4, <1>5 DEF BaseInv

\* A break takes the client back to dialling.
LEMMA BreakBase == ASSUME BaseInv, Break PROVE BaseInv'
<1>1. ClientTypeOK'
  BY ConnFacts DEF BaseInv, ClientTypeOK, Break, flagVars
<1>2. RunLoopOK'
  BY ConnFacts DEF BaseInv, RunLoopOK, ClientTypeOK, RelayTypeOK, AdminOK, ConnOK, Break, connVars
<1>3. ViewTypeOK' /\ RelayTypeOK' /\ AdminOK' /\ ConnOK' /\ RegisteredOK' /\ ViewerOK'
  BY DEF BaseInv, ViewTypeOK, RelayTypeOK, AdminOK, ConnOK, RegisteredOK, ViewerOK, Served, Break,
     rowVars, bcastVars, connVars, viewVars, shownVars, flagVars
<1> QED  BY <1>1, <1>2, <1>3 DEF BaseInv

\* So does a connection the relay has closed.
LEMMA ReplacedBase == ASSUME BaseInv, Replaced PROVE BaseInv'
<1>1. ClientTypeOK'
  BY ConnFacts DEF BaseInv, ClientTypeOK, Replaced, flagVars
<1>2. RunLoopOK'
  BY ConnFacts DEF BaseInv, RunLoopOK, ClientTypeOK, RelayTypeOK, AdminOK, ConnOK, Replaced,
     connVars
<1>3. ViewTypeOK' /\ RelayTypeOK' /\ AdminOK' /\ ConnOK' /\ RegisteredOK' /\ ViewerOK'
  BY DEF BaseInv, ViewTypeOK, RelayTypeOK, AdminOK, ConnOK, RegisteredOK, ViewerOK, Served,
     Replaced, rowVars, bcastVars, connVars, viewVars, shownVars, flagVars
<1> QED  BY <1>1, <1>2, <1>3 DEF BaseInv

\* Computing an update moves its goroutine on and nobody else.
LEMMA ComputeBase == ASSUME BaseInv, NEW g \in Goroutine, Compute(g) PROVE BaseInv'
<1>1. ViewTypeOK'
  BY ConnFacts DEF BaseInv, ViewTypeOK, Compute, wireVars, viewVars, shownVars
<1>2. RelayTypeOK'
  BY ConnFacts DEF BaseInv, RelayTypeOK, ViewTypeOK, ConnOK, AdminOK, Compute, Goto, rowVars,
     connVars
<1>3. RunLoopOK'
  BY ConnFacts DEF BaseInv, RunLoopOK, ClientTypeOK, RelayTypeOK, AdminOK, ConnOK, Compute, Goto,
     clientVars, wireVars, connVars
<1>4. AdminOK'
  BY ConnFacts DEF BaseInv, AdminOK, RelayTypeOK, ConnOK, Compute, Goto, rowVars, connVars
<1>5. ConnOK'
  BY ConnFacts DEF BaseInv, ConnOK, ClientTypeOK, RelayTypeOK, AdminOK, Compute, Goto, clientVars,
     wireVars, rowVars, connVars
<1>6. RegisteredOK'
  BY ConnFacts DEF BaseInv, RegisteredOK, RelayTypeOK, ConnOK, AdminOK, Served, Compute, Goto,
     connVars
<1>7. ViewerOK'
  BY ConnFacts DEF BaseInv, ViewerOK, ViewTypeOK, RelayTypeOK, AdminOK, ConnOK, Compute, Goto,
     wireVars, rowVars, connVars, viewVars, shownVars
<1>8. ClientTypeOK'
  BY DEF BaseInv, ClientTypeOK, Compute, clientVars, wireVars
<1> QED  BY <1>1, <1>2, <1>3, <1>4, <1>5, <1>6, <1>7, <1>8 DEF BaseInv

\* So does listing the connections to tell.
LEMMA ReadyConnsBase == ASSUME BaseInv, NEW g \in Goroutine, ReadyConns(g) PROVE BaseInv'
<1>1. RelayTypeOK'
  BY ConnFacts DEF BaseInv, RelayTypeOK, ViewTypeOK, ReadyConns, Goto, rowVars, connVars
<1>2. RunLoopOK'
  BY ConnFacts DEF BaseInv, RunLoopOK, ClientTypeOK, RelayTypeOK, AdminOK, ConnOK, ReadyConns, Goto,
     clientVars, wireVars, connVars
<1>3. AdminOK'
  BY ConnFacts DEF BaseInv, AdminOK, RelayTypeOK, ConnOK, ReadyConns, Goto, rowVars, connVars
<1>4. ConnOK'
  BY ConnFacts DEF BaseInv, ConnOK, ClientTypeOK, RelayTypeOK, AdminOK, ReadyConns, Goto, clientVars,
     wireVars, rowVars, connVars
<1>5. RegisteredOK'
  BY ConnFacts DEF BaseInv, RegisteredOK, RelayTypeOK, ConnOK, AdminOK, Served, ReadyConns, Goto,
     connVars
<1>6. ViewerOK'
  BY ConnFacts DEF BaseInv, ViewerOK, ViewTypeOK, RelayTypeOK, AdminOK, ConnOK, ReadyConns, Goto,
     wireVars, rowVars, connVars, viewVars, shownVars, flagVars
<1>7. ClientTypeOK' /\ ViewTypeOK'
  BY DEF BaseInv, ClientTypeOK, ViewTypeOK, ReadyConns, clientVars, wireVars, viewVars, shownVars,
     flagVars
<1> QED  BY <1>1, <1>2, <1>3, <1>4, <1>5, <1>6, <1>7 DEF BaseInv

\* After an update its goroutine goes where it said.
LEMMA TellBase == ASSUME BaseInv, NEW g \in Goroutine, Tell(g) PROVE BaseInv'
<1>1. ViewTypeOK'
  BY ConnFacts DEF BaseInv, ViewTypeOK, RelayTypeOK, Tell, TellOnline, Arrives, wireVars, viewVars
<1>2. RelayTypeOK'
  BY ConnFacts DEF BaseInv, RelayTypeOK, ClientTypeOK, ConnOK, AdminOK, Tell, Goto, rowVars,
     connVars
<1>3. RunLoopOK'
  BY ConnFacts DEF BaseInv, RunLoopOK, ClientTypeOK, RelayTypeOK, AdminOK, ConnOK, Tell, Goto,
     clientVars, wireVars, connVars
<1>4. AdminOK'
  BY ConnFacts DEF BaseInv, AdminOK, RelayTypeOK, ConnOK, Tell, Goto, rowVars, connVars
<1>5. ConnOK'
  BY ConnFacts DEF BaseInv, ConnOK, ClientTypeOK, RelayTypeOK, AdminOK, Tell, Goto, clientVars,
     wireVars, rowVars, connVars
<1>6. RegisteredOK'
  BY ConnFacts DEF BaseInv, RegisteredOK, RelayTypeOK, ConnOK, AdminOK, Served, Tell, Goto,
     connVars
<1>7. ViewerOK'
  BY ConnFacts DEF BaseInv, ViewerOK, ViewTypeOK, RelayTypeOK, AdminOK, ConnOK, Tell, Goto,
     TellOnline, Arrives, wireVars, rowVars, connVars, viewVars
<1>8. ClientTypeOK'
  BY DEF BaseInv, ClientTypeOK, Tell, clientVars, wireVars
<1> QED  BY <1>1, <1>2, <1>3, <1>4, <1>5, <1>6, <1>7, <1>8 DEF BaseInv

\* A directory update is about an approved device.
LEMMA DirTellBase == ASSUME BaseInv, NEW g \in Goroutine, DirTell(g) PROVE BaseInv'
<1>1. ViewTypeOK'
  <2>1. peers' \in BOOLEAN  BY DEF BaseInv, ViewTypeOK, DirTell, TellPeer
  <2>2. UNCHANGED <<viewVars, cache, flagVars>>  BY DEF DirTell, TellPeer
  <2> QED  BY <2>1, <2>2 DEF BaseInv, ViewTypeOK, viewVars, flagVars
<1>2. RelayTypeOK'
  BY ConnFacts DEF BaseInv, RelayTypeOK, ClientTypeOK, ConnOK, AdminOK, DirTell, Goto, rowVars,
     connVars
<1>3. RunLoopOK'
  BY ConnFacts DEF BaseInv, RunLoopOK, ClientTypeOK, RelayTypeOK, AdminOK, ConnOK, DirTell, Goto,
     clientVars, wireVars, connVars
<1>4. AdminOK'
  BY ConnFacts DEF BaseInv, AdminOK, RelayTypeOK, ConnOK, DirTell, Goto, rowVars, connVars
<1>5. ConnOK'
  BY ConnFacts DEF BaseInv, ConnOK, ClientTypeOK, RelayTypeOK, AdminOK, DirTell, Goto, clientVars,
     wireVars, rowVars, connVars
<1>6. RegisteredOK'
  BY ConnFacts DEF BaseInv, RegisteredOK, RelayTypeOK, ConnOK, AdminOK, Served, DirTell, Goto,
     connVars
<1>7. ViewerOK'
  BY ConnFacts DEF BaseInv, ViewerOK, ViewTypeOK, RelayTypeOK, AdminOK, ConnOK, DirTell, Goto,
     TellPeer, Arrives, wireVars, rowVars, connVars, viewVars, flagVars
<1>8. ClientTypeOK'
  BY DEF BaseInv, ClientTypeOK, DirTell, clientVars, wireVars, flagVars
<1> QED  BY <1>1, <1>2, <1>3, <1>4, <1>5, <1>6, <1>7, <1>8 DEF BaseInv

\* The admin greets the client it promoted: its ready frame is on its way.
LEMMA GreetBase == ASSUME BaseInv, NEW g \in Goroutine, Greet(g) PROVE BaseInv'
<1>1. ClientTypeOK'
  BY ConnFacts DEF BaseInv, ClientTypeOK, Greet, clientVars, flagVars
<1>2. RelayTypeOK'
  BY ConnFacts DEF BaseInv, RelayTypeOK, ClientTypeOK, ConnOK, AdminOK, Greet, Goto, rowVars,
     connVars
<1>3. RunLoopOK'
  <2>1. CASE g = Admin
    BY <2>1, ConnFacts DEF BaseInv, RunLoopOK, AdminOK, RelayTypeOK, ClientTypeOK, Greet, Goto,
       clientVars, connVars
  <2>2. CASE g # Admin
    BY <2>2, ConnFacts DEF BaseInv, RunLoopOK, RelayTypeOK, Greet, Goto, clientVars, connVars
  <2> QED  BY <2>1, <2>2
<1>4. AdminOK'
  BY ConnFacts DEF BaseInv, AdminOK, RelayTypeOK, ConnOK, Greet, Goto, rowVars, connVars
<1>5. ConnOK'
  BY ConnFacts DEF BaseInv, ConnOK, ClientTypeOK, RelayTypeOK, AdminOK, Greet, Goto, clientVars,
     rowVars, connVars
<1>6. RegisteredOK'
  BY ConnFacts DEF BaseInv, RegisteredOK, RelayTypeOK, ConnOK, AdminOK, Served, Greet, Goto,
     connVars
<1>7. ViewerOK'
  BY ConnFacts DEF BaseInv, ViewerOK, ViewTypeOK, RelayTypeOK, AdminOK, ConnOK, Greet, Goto,
     Arrives, rowVars, connVars, viewVars, shownVars, flagVars
<1>8. ViewTypeOK'
  BY DEF BaseInv, ViewTypeOK, Greet, viewVars, shownVars, flagVars
<1> QED  BY <1>1, <1>2, <1>3, <1>4, <1>5, <1>6, <1>7, <1>8 DEF BaseInv

\* addConn registers a connection and closes the one it replaces.
LEMMA AddConnBase == ASSUME BaseInv, NEW c \in Conn, AddConn(c) PROVE BaseInv'
<1>1. ClientTypeOK'
  BY ConnFacts DEF BaseInv, ClientTypeOK, AddConn, Shut, clientVars, flagVars
<1>2. ViewTypeOK'
  BY ConnFacts DEF BaseInv, ViewTypeOK, AddConn, Shut, viewVars, shownVars, flagVars
<1>3. RelayTypeOK'
  BY ConnFacts DEF BaseInv, RelayTypeOK, ClientTypeOK, ConnOK, AdminOK, AddConn, Goto, Shut,
     rowVars, bcastVars
<1>4. RunLoopOK'
  BY ConnFacts DEF BaseInv, RunLoopOK, ClientTypeOK, RelayTypeOK, AdminOK, ConnOK, AddConn, Goto,
     clientVars
<1>5. AdminOK'
  BY ConnFacts DEF BaseInv, AdminOK, RelayTypeOK, ConnOK, AddConn, Goto, rowVars, bcastVars
<1>6. ConnOK'
  BY ConnFacts DEF BaseInv, ConnOK, ClientTypeOK, RelayTypeOK, AdminOK, AddConn, Goto, Shut,
     clientVars, rowVars, bcastVars
<1>7. RegisteredOK'
  <2>1. conns' = c /\ at'[c] \in Served /\ andThen'[c] # "persist"
    BY ConnFacts DEF BaseInv, RelayTypeOK, ConnOK, AddConn, Goto, Served, bcastVars
  <2>2. ASSUME NEW k \in Conn, at'[k] \in Served, open'[k], k # c  PROVE FALSE
    <3>1. at[k] \in Served /\ open[k] /\ k # conns
      BY <2>2, ConnFacts DEF BaseInv, RelayTypeOK, AddConn, Goto, Shut
    <3> QED  BY <3>1 DEF BaseInv, RegisteredOK
  <2> QED  BY <2>1, <2>2 DEF RegisteredOK
<1>8. ViewerOK'
  BY ConnFacts DEF BaseInv, ViewerOK, ViewTypeOK, RelayTypeOK, AdminOK, ConnOK, AddConn, Goto,
     Shut, rowVars, viewVars, shownVars, flagVars
<1> QED  BY <1>1, <1>2, <1>3, <1>4, <1>5, <1>6, <1>7, <1>8 DEF BaseInv

\* A presence_set is handled on the registered connection.
LEMMA HandlePresenceSetBase == ASSUME BaseInv, NEW c \in Conn, HandlePresenceSet(c) PROVE BaseInv'
<1>1. ClientTypeOK'
  BY ConnFacts DEF BaseInv, ClientTypeOK, HandlePresenceSet, clientVars, flagVars
<1>2. ViewTypeOK'
  BY ConnFacts DEF BaseInv, ViewTypeOK, HandlePresenceSet, viewVars, shownVars, flagVars
<1>3. RelayTypeOK'
  BY ConnFacts DEF BaseInv, RelayTypeOK, ClientTypeOK, ConnOK, AdminOK, HandlePresenceSet, Goto
<1>4. RunLoopOK'
  BY ConnFacts DEF BaseInv, RunLoopOK, ClientTypeOK, RelayTypeOK, AdminOK, ConnOK,
     HandlePresenceSet, Goto, clientVars
<1>5. AdminOK'
  BY ConnFacts DEF BaseInv, AdminOK, RelayTypeOK, ConnOK, HandlePresenceSet, Goto
<1>6. ConnOK'
  BY ConnFacts DEF BaseInv, ConnOK, ClientTypeOK, RelayTypeOK, AdminOK, HandlePresenceSet, Goto,
     clientVars
<1>7. RegisteredOK'
  BY ConnFacts DEF BaseInv, RegisteredOK, RelayTypeOK, ConnOK, AdminOK, Served, HandlePresenceSet,
     Goto
<1>8. ViewerOK'
  BY ConnFacts DEF BaseInv, ViewerOK, ViewTypeOK, RelayTypeOK, AdminOK, ConnOK, HandlePresenceSet,
     Goto, viewVars, shownVars, flagVars
<1> QED  BY <1>1, <1>2, <1>3, <1>4, <1>5, <1>6, <1>7, <1>8 DEF BaseInv

\* A refused frame is only taken from the wire.
LEMMA RefusePresenceSetBase == ASSUME BaseInv, NEW c \in Conn, RefusePresenceSet(c) PROVE BaseInv'
<1>1. up' \in [Conn -> Seq(Status)]
  <2>1. up[c] \in Seq(Status) /\ up[c] # <<>>  BY DEF BaseInv, ClientTypeOK, RefusePresenceSet
  <2>2. Tail(up[c]) \in Seq(Status)  BY <2>1, TailFacts
  <2> QED  BY <2>2 DEF BaseInv, ClientTypeOK, RefusePresenceSet
<1>2. refused' \in [Conn -> BOOLEAN]
  BY DEF BaseInv, ClientTypeOK, RefusePresenceSet
<1>3. ClientTypeOK' /\ ViewTypeOK'
  BY <1>1, <1>2 DEF BaseInv, ClientTypeOK, ViewTypeOK, RefusePresenceSet, clientVars, viewVars, shownVars
<1>4. ConnOK'
  BY DEF BaseInv, ConnOK, ClientTypeOK, RefusePresenceSet, clientVars, rowVars, bcastVars, connVars
<1>5. RelayTypeOK' /\ RunLoopOK' /\ AdminOK' /\ RegisteredOK' /\ ViewerOK'
  BY DEF BaseInv, RelayTypeOK, RunLoopOK, AdminOK, RegisteredOK, ViewerOK, Served, RefusePresenceSet,
     clientVars, rowVars, bcastVars, connVars, viewVars, shownVars
<1> QED  BY <1>3, <1>4, <1>5 DEF BaseInv

\* A closed connection loses its frames.
LEMMA NoticeBase == ASSUME BaseInv, NEW c \in Conn, Notice(c) PROVE BaseInv'
<1>1. ClientTypeOK'
  BY ConnFacts DEF BaseInv, ClientTypeOK, Notice, Shut, clientVars, flagVars
<1>2. ViewTypeOK'
  BY ConnFacts DEF BaseInv, ViewTypeOK, Notice, Shut, viewVars, shownVars, flagVars
<1>3. RelayTypeOK'
  BY ConnFacts DEF BaseInv, RelayTypeOK, ClientTypeOK, ConnOK, AdminOK, Notice, Shut, rowVars,
     bcastVars
<1>4. ConnOK'
  BY ConnFacts DEF BaseInv, ConnOK, ClientTypeOK, RelayTypeOK, AdminOK, Notice, Shut, clientVars,
     rowVars, bcastVars
<1>5. RegisteredOK'
  BY ConnFacts DEF BaseInv, RegisteredOK, RelayTypeOK, ConnOK, AdminOK, Served, Notice, Shut,
     bcastVars
<1>6. ViewerOK'
  BY ConnFacts DEF BaseInv, ViewerOK, ViewTypeOK, RelayTypeOK, AdminOK, ConnOK, Notice, Shut,
     rowVars, viewVars, shownVars, flagVars
<1>7. RunLoopOK' /\ AdminOK'
  BY DEF BaseInv, RunLoopOK, AdminOK, Notice, clientVars, rowVars, bcastVars
<1> QED  BY <1>1, <1>2, <1>3, <1>4, <1>5, <1>6, <1>7 DEF BaseInv

\* A connection that leaves is no longer registered.
LEMMA TeardownBase == ASSUME BaseInv, NEW c \in Conn, Teardown(c) PROVE BaseInv'
<1>1. RelayTypeOK'
  BY ConnFacts DEF BaseInv, RelayTypeOK, Teardown, Goto, rowVars
<1>2. RunLoopOK'
  BY ConnFacts DEF BaseInv, RunLoopOK, ClientTypeOK, RelayTypeOK, AdminOK, ConnOK, Teardown, Goto,
     clientVars, wireVars
<1>3. AdminOK'
  BY ConnFacts DEF BaseInv, AdminOK, RelayTypeOK, ConnOK, Teardown, Goto, rowVars
<1>4. ConnOK'
  BY ConnFacts DEF BaseInv, ConnOK, ClientTypeOK, RelayTypeOK, AdminOK, Teardown, Goto,
     clientVars, wireVars, rowVars
<1>5. RegisteredOK'
  BY ConnFacts DEF BaseInv, RegisteredOK, RelayTypeOK, ConnOK, AdminOK, Served, Teardown, Goto
<1>6. ViewerOK'
  BY ConnFacts DEF BaseInv, ViewerOK, ViewTypeOK, RelayTypeOK, AdminOK, ConnOK, Teardown, Goto,
     wireVars, rowVars, viewVars, shownVars, flagVars
<1>7. ClientTypeOK' /\ ViewTypeOK'
  BY DEF BaseInv, ClientTypeOK, ViewTypeOK, Teardown, clientVars, wireVars, viewVars, shownVars,
     flagVars
<1> QED  BY <1>1, <1>2, <1>3, <1>4, <1>5, <1>6, <1>7 DEF BaseInv

\* A connection that has written its row is gone.
LEMMA PersistBase == ASSUME BaseInv, NEW c \in Conn, Persist(c) PROVE BaseInv'
<1>1. ViewTypeOK'
  BY ConnFacts DEF BaseInv, ViewTypeOK, Persist, wireVars, viewVars, shownVars
<1>2. RelayTypeOK'
  BY ConnFacts DEF BaseInv, RelayTypeOK, ClientTypeOK, ConnOK, AdminOK, Persist, Goto, bcastVars,
     connVars
<1>3. RunLoopOK'
  BY ConnFacts DEF BaseInv, RunLoopOK, ClientTypeOK, RelayTypeOK, AdminOK, ConnOK, Persist, Goto,
     clientVars, wireVars, connVars
<1>4. AdminOK'
  BY ConnFacts DEF BaseInv, AdminOK, RelayTypeOK, ConnOK, Persist, Goto, bcastVars, connVars
<1>5. ConnOK'
  BY ConnFacts DEF BaseInv, ConnOK, ClientTypeOK, RelayTypeOK, AdminOK, Persist, Goto, clientVars,
     wireVars, bcastVars, connVars
<1>6. RegisteredOK'
  BY ConnFacts DEF BaseInv, RegisteredOK, RelayTypeOK, ConnOK, AdminOK, Served, Persist, Goto,
     bcastVars, connVars
<1>7. ViewerOK'
  BY ConnFacts DEF BaseInv, ViewerOK, ViewTypeOK, RelayTypeOK, AdminOK, ConnOK, Persist, Goto,
     wireVars, connVars, viewVars, shownVars
<1>8. ClientTypeOK'
  BY DEF BaseInv, ClientTypeOK, Persist, clientVars, wireVars
<1> QED  BY <1>1, <1>2, <1>3, <1>4, <1>5, <1>6, <1>7, <1>8 DEF BaseInv

\* The approval starts from a pending device.
LEMMA ApproveBase == ASSUME BaseInv, Approve PROVE BaseInv'
<1>1. RelayTypeOK'
  BY ConnFacts DEF BaseInv, RelayTypeOK, ClientTypeOK, ConnOK, AdminOK, Approve, Goto, connVars
<1>2. RunLoopOK'
  BY ConnFacts DEF BaseInv, RunLoopOK, ClientTypeOK, RelayTypeOK, AdminOK, ConnOK, Approve, Goto,
     clientVars, wireVars, connVars
<1>3. AdminOK'
  BY ConnFacts DEF BaseInv, AdminOK, RelayTypeOK, ConnOK, Approve, Goto, connVars
<1>4. ConnOK'
  BY ConnFacts DEF BaseInv, ConnOK, ClientTypeOK, RelayTypeOK, AdminOK, Approve, Goto, clientVars,
     wireVars, connVars
<1>5. RegisteredOK'
  BY ConnFacts DEF BaseInv, RegisteredOK, RelayTypeOK, ConnOK, AdminOK, Served, Approve, Goto,
     connVars
<1>6. ViewerOK'
  BY ConnFacts DEF BaseInv, ViewerOK, ViewTypeOK, RelayTypeOK, AdminOK, ConnOK, Approve, Goto,
     Arrives, wireVars, connVars, viewVars, shownVars, flagVars
<1>7. ClientTypeOK' /\ ViewTypeOK'
  BY DEF BaseInv, ClientTypeOK, ViewTypeOK, Approve, clientVars, wireVars, viewVars, shownVars,
     flagVars
<1> QED  BY <1>1, <1>2, <1>3, <1>4, <1>5, <1>6, <1>7 DEF BaseInv

\* A promoted connection is registered, and its client has been waiting.
LEMMA PromoteBase == ASSUME BaseInv, Promote PROVE BaseInv'
<1>1. RelayTypeOK'
  <2>1. CASE conns # None /\ ~ready[conns]
    <3>1. conns \in Conn /\ conns \in Goroutine
      BY <2>1, ConnFacts DEF BaseInv, RelayTypeOK
    <3>2. ready' = [ready EXCEPT ![conns] = TRUE] /\ status' = [status EXCEPT ![conns] = stored]
          /\ for' = [for EXCEPT ![Admin] = conns] /\ at' = [at EXCEPT ![Admin] = "greet"]
          /\ UNCHANGED <<device, stored, open, conns, andThen, upd, to>>
      BY <2>1 DEF Promote, Goto, rowVars, bcastVars
    <3> QED  BY <3>1, <3>2 DEF BaseInv, RelayTypeOK
  <2>2. CASE ~(conns # None /\ ~ready[conns])
    BY <2>2, ConnFacts DEF BaseInv, RelayTypeOK, Promote, Goto, rowVars, bcastVars
  <2> QED  BY <2>1, <2>2
<1>2. RunLoopOK'
  <2>1. CASE conns # None /\ ~ready[conns]
    <3>1. conns \in Conn /\ at'[Admin] = "greet" /\ for'[Admin] = conns
          /\ ready' = [ready EXCEPT ![conns] = TRUE] /\ UNCHANGED <<clientVars, readied>>
      BY <2>1, ConnFacts DEF BaseInv, RelayTypeOK, Promote, Goto, wireVars
    <3>2. at[Admin] = "promote"  BY DEF Promote
    <3>3. clientUp => dialled \in Conn  BY ConnFacts DEF BaseInv, RunLoopOK, ClientTypeOK
    <3> QED  BY <2>1, <3>1, <3>2, <3>3 DEF BaseInv, RunLoopOK, RelayTypeOK, clientVars
  <2>2. CASE ~(conns # None /\ ~ready[conns])
    BY <2>2, ConnFacts DEF BaseInv, RelayTypeOK, RunLoopOK, Promote, Goto, clientVars, wireVars
  <2> QED  BY <2>1, <2>2
<1>3. AdminOK'
  BY ConnFacts DEF BaseInv, AdminOK, RelayTypeOK, ConnOK, Promote, Goto, rowVars, bcastVars
<1>4. ConnOK'
  <2>1. UNCHANGED <<dialled, up, device, andThen, open>>
    BY DEF Promote, clientVars, wireVars, rowVars, bcastVars
  <2>2. \A k \in Conn : at'[k] = at[k] /\ for'[k] = for[k]
    BY ConnFacts DEF BaseInv, RelayTypeOK, Promote, Goto
  <2>3. \A k \in Conn : ready'[k] => ready[k] \/ (k = conns /\ device = "active" /\ at[k] # "none")
    BY ConnFacts DEF BaseInv, RelayTypeOK, RegisteredOK, Served, AdminOK, Promote
  <2>4. \A k \in Conn : ready[k] => ready'[k]
    BY ConnFacts DEF BaseInv, RelayTypeOK, Promote
  <2> QED  BY <2>1, <2>2, <2>3, <2>4 DEF BaseInv, ConnOK
<1>5. RegisteredOK'
  BY ConnFacts DEF BaseInv, RegisteredOK, RelayTypeOK, ConnOK, AdminOK, Served, Promote, Goto,
     bcastVars
<1>6. ViewerOK'
  <2>1. at[Admin] = "promote" /\ UNCHANGED <<vat, vlink, vread, vlist, peers, device, staleDir>>
    BY DEF Promote, rowVars, viewVars, shownVars, flagVars
  <2>2. vlist # None => (ready[vlist] => ready'[vlist])
    BY ConnFacts DEF BaseInv, RelayTypeOK, ViewTypeOK, Promote
  <2> QED  BY <2>1, <2>2 DEF BaseInv, ViewerOK
<1>7. ClientTypeOK' /\ ViewTypeOK'
  BY DEF BaseInv, ClientTypeOK, ViewTypeOK, Promote, clientVars, wireVars, viewVars, shownVars,
     flagVars
<1> QED  BY <1>1, <1>2, <1>3, <1>4, <1>5, <1>6, <1>7 DEF BaseInv

\* The viewer connects and will be sent a snapshot.
LEMMA ViewerConnectsBase == ASSUME BaseInv, ViewerConnects PROVE BaseInv'
<1>1. ViewTypeOK'
  BY ConnFacts DEF BaseInv, ViewTypeOK, ViewerConnects, wireVars, shownVars, flagVars
<1>2. ViewerOK'
  BY ConnFacts DEF BaseInv, ViewerOK, ViewTypeOK, RelayTypeOK, AdminOK, ConnOK, ViewerConnects,
     wireVars, rowVars, connVars, shownVars, flagVars
<1>3. ClientTypeOK' /\ RelayTypeOK' /\ RunLoopOK' /\ AdminOK' /\ ConnOK' /\ RegisteredOK'
  BY DEF BaseInv, ClientTypeOK, RelayTypeOK, RunLoopOK, AdminOK, ConnOK, RegisteredOK, Served,
     ViewerConnects, clientVars, wireVars, rowVars, bcastVars, connVars, flagVars
<1> QED  BY <1>1, <1>2, <1>3 DEF BaseInv

\* What is read from the directory is its state.
LEMMA ReadDirectoryBase == ASSUME BaseInv, ReadDirectory PROVE BaseInv'
<1>1. ViewTypeOK'
  BY ConnFacts DEF BaseInv, ViewTypeOK, RelayTypeOK, ReadDirectory, wireVars, shownVars, flagVars
<1>2. ViewerOK'
  BY ConnFacts DEF BaseInv, ViewerOK, ViewTypeOK, RelayTypeOK, AdminOK, ConnOK, ReadDirectory,
     wireVars, rowVars, connVars, shownVars, flagVars
<1>3. ClientTypeOK' /\ RelayTypeOK' /\ RunLoopOK' /\ AdminOK' /\ ConnOK' /\ RegisteredOK'
  BY DEF BaseInv, ClientTypeOK, RelayTypeOK, RunLoopOK, AdminOK, ConnOK, RegisteredOK, Served,
     ReadDirectory, clientVars, wireVars, rowVars, bcastVars, connVars, flagVars
<1> QED  BY <1>1, <1>2, <1>3 DEF BaseInv

\* A snapshot leaves the peers table right or is late.
LEMMA SendDirectoryBase == ASSUME BaseInv, SendDirectory PROVE BaseInv'
<1>1. ViewTypeOK'
  BY ConnFacts DEF BaseInv, ViewTypeOK, RelayTypeOK, SendDirectory, TellPeer, Arrives, wireVars
<1>2. ViewerOK'
  BY ConnFacts DEF BaseInv, ViewerOK, ViewTypeOK, RelayTypeOK, AdminOK, ConnOK, SendDirectory,
     TellPeer, Arrives, wireVars, rowVars, connVars
<1>3. ClientTypeOK' /\ RelayTypeOK' /\ RunLoopOK' /\ AdminOK' /\ ConnOK' /\ RegisteredOK'
  BY DEF BaseInv, ClientTypeOK, RelayTypeOK, RunLoopOK, AdminOK, ConnOK, RegisteredOK, Served,
     SendDirectory, clientVars, wireVars, rowVars, bcastVars, connVars
<1> QED  BY <1>1, <1>2, <1>3 DEF BaseInv

\* The viewer is told of a ready connection.
LEMMA TellPresenceBase == ASSUME BaseInv, TellPresence PROVE BaseInv'
<1>1. ViewTypeOK'
  BY ConnFacts DEF BaseInv, ViewTypeOK, TellPresence, TellOnline, Arrives, wireVars, shownVars
<1>2. ViewerOK'
  BY ConnFacts DEF BaseInv, ViewerOK, ViewTypeOK, RelayTypeOK, AdminOK, ConnOK, TellPresence,
     TellOnline, Arrives, wireVars, rowVars, connVars, shownVars
<1>3. ClientTypeOK' /\ RelayTypeOK' /\ RunLoopOK' /\ AdminOK' /\ ConnOK' /\ RegisteredOK'
  BY DEF BaseInv, ClientTypeOK, RelayTypeOK, RunLoopOK, AdminOK, ConnOK, RegisteredOK, Served,
     TellPresence, clientVars, wireVars, rowVars, bcastVars, connVars
<1> QED  BY <1>1, <1>2, <1>3 DEF BaseInv

\* The viewer goes.
LEMMA ViewerBreaksBase == ASSUME BaseInv, ViewerBreaks PROVE BaseInv'
<1>1. ViewTypeOK'
  BY ConnFacts DEF BaseInv, ViewTypeOK, ViewerBreaks, wireVars, shownVars, flagVars
<1>2. ViewerOK'
  BY ConnFacts DEF BaseInv, ViewerOK, ViewTypeOK, RelayTypeOK, AdminOK, ConnOK, ViewerBreaks,
     wireVars, rowVars, connVars, shownVars, flagVars
<1>3. ClientTypeOK' /\ RelayTypeOK' /\ RunLoopOK' /\ AdminOK' /\ ConnOK' /\ RegisteredOK'
  BY DEF BaseInv, ClientTypeOK, RelayTypeOK, RunLoopOK, AdminOK, ConnOK, RegisteredOK, Served,
     ViewerBreaks, clientVars, wireVars, rowVars, bcastVars, connVars, flagVars
<1> QED  BY <1>1, <1>2, <1>3 DEF BaseInv

\* The relay forgets the viewer.
LEMMA ViewerGoneBase == ASSUME BaseInv, ViewerGone PROVE BaseInv'
<1>1. ViewTypeOK'
  BY ConnFacts DEF BaseInv, ViewTypeOK, ViewerGone, wireVars, shownVars, flagVars
<1>2. ViewerOK'
  BY ConnFacts DEF BaseInv, ViewerOK, ViewTypeOK, RelayTypeOK, AdminOK, ConnOK, ViewerGone,
     wireVars, rowVars, connVars, shownVars, flagVars
<1>3. ClientTypeOK' /\ RelayTypeOK' /\ RunLoopOK' /\ AdminOK' /\ ConnOK' /\ RegisteredOK'
  BY DEF BaseInv, ClientTypeOK, RelayTypeOK, RunLoopOK, AdminOK, ConnOK, RegisteredOK, Served,
     ViewerGone, clientVars, wireVars, rowVars, bcastVars, connVars, flagVars
<1> QED  BY <1>1, <1>2, <1>3 DEF BaseInv

\* The initial states have everyone where they start.
LEMMA InitBase == Init => BaseInv
<1> SUFFICES ASSUME Init PROVE BaseInv  OBVIOUS
<1>1. ClientTypeOK /\ ViewTypeOK /\ RelayTypeOK
  <2>1. up \in [Conn -> Seq(Status)]
    <3>1. <<>> \in Seq(Status)  OBVIOUS
    <3> QED  BY <3>1 DEF Init
  <2>2. desired \in Status /\ dialled \in 0 .. MaxConns
    BY RosterAssumption DEF Init, Status
  <2>3. ViewTypeOK  BY DEF Init, ViewTypeOK
  <2>4. RelayTypeOK  BY ConnFacts DEF Init, RelayTypeOK, Status
  <2>5. ClientTypeOK
    BY <2>1, <2>2 DEF Init, ClientTypeOK
  <2> QED  BY <2>3, <2>4, <2>5
<1>2. RunLoopOK /\ AdminOK /\ ConnOK
  BY ConnFacts DEF Init, RunLoopOK, AdminOK, ConnOK
<1>3. RegisteredOK /\ ViewerOK
  BY ConnFacts DEF Init, RegisteredOK, ViewerOK, Served
<1> QED  BY <1>1, <1>2, <1>3 DEF BaseInv

\* No step takes anyone where they may not be.
LEMMA NextBase == BaseInv /\ [Next]_vars => BaseInv'
<1> SUFFICES ASSUME BaseInv, [Next]_vars PROVE BaseInv'  OBVIOUS
<1>1. CASE UNCHANGED vars
  BY <1>1 DEF vars, clientVars, wireVars, rowVars, bcastVars, connVars, viewVars, shownVars, flagVars,
     BaseInv, ClientTypeOK, ViewTypeOK, RelayTypeOK, RunLoopOK, AdminOK, ConnOK, RegisteredOK,
     Served, ViewerOK
<1>2. CASE RunLoop
  BY <1>2, ConnectBase, CaptureBase, AnnounceBase, PublishBase, ReplacedBase DEF RunLoop
<1>3. CASE SendStatus \/ Break \/ \E s \in Status : SetStatus(s)
  BY <1>3, SendStatusBase, BreakBase, SetStatusBase
<1>4. CASE \E g \in Goroutine : Broadcast(g)
  BY <1>4, ComputeBase, ReadyConnsBase, TellBase, DirTellBase, GreetBase DEF Broadcast
<1>5. CASE \E c \in Conn : Serve(c) \/ Notice(c)
  BY <1>5, AddConnBase, HandlePresenceSetBase, RefusePresenceSetBase, TeardownBase, PersistBase,
     NoticeBase DEF Serve
<1>6. CASE Approve \/ Promote
  BY <1>6, ApproveBase, PromoteBase
<1>7. CASE Viewer \/ ViewerGone \/ ViewerBreaks
  BY <1>7, ViewerConnectsBase, ReadDirectoryBase, SendDirectoryBase, TellPresenceBase,
     ViewerGoneBase, ViewerBreaksBase DEF Viewer
<1> QED  BY <1>1, <1>2, <1>3, <1>4, <1>5, <1>6, <1>7 DEF Next

-----------------------------------------------------------------------------
(* The directory                                                           *)

\* Where everyone is implies that the state is well formed, and that the
\* peers table is right at rest.
LEMMA BaseIsRight == BaseInv => TypeOK /\ DirectoryIsRight
<1> SUFFICES ASSUME BaseInv PROVE TypeOK /\ DirectoryIsRight  OBVIOUS
<1>1. TypeOK
  BY ConnFacts DEF BaseInv, ClientTypeOK, ViewTypeOK, RelayTypeOK, RunLoopOK, ConnOK, RegisteredOK,
     Served, TypeOK
<1>2. DirectoryIsRight
  BY DEF BaseInv, ViewTypeOK, RelayTypeOK, ViewerOK, DirectoryIsRight, Quiet
<1> QED  BY <1>1, <1>2

\* Everyone is always where they may be.
LEMMA AlwaysBase == Spec => []BaseInv
  BY InitBase, NextBase, PTL DEF Spec

\* At rest the peers table of a connected viewer has exactly the approved
\* device, unless a snapshot read before the approval was sent after it.
THEOREM DirectoryRight == Spec => []DirectoryIsRight
  BY AlwaysBase, BaseIsRight, PTL

-----------------------------------------------------------------------------
(* The status a user chose                                                 *)

\* A frame sent on the open connection is the last one.
LEMMA PutIsLast ==
    ASSUME BaseInv, clientUp, open[dialled], NEW s \in Status, Put(s)
    PROVE  up'[dialled] # <<>> /\ up'[dialled][Len(up'[dialled])] = s
<1>1. dialled \in Conn /\ up[dialled] \in Seq(Status)
  BY ConnFacts DEF BaseInv, ClientTypeOK, RunLoopOK
<1>2. up'[dialled] = Append(up[dialled], s)
  BY <1>1 DEF BaseInv, ClientTypeOK, Put
<1> QED  BY <1>1, <1>2, AppendFacts

\* The last frame carries the status chosen, whatever happens to the connection.
LEMMA PublishKept ==
    ASSUME BaseInv, BaseInv', PublishOK, [Next]_vars  PROVE PublishOK'
<1> SUFFICES ASSUME rl' = "serve", cstate' = "ready", open'[dialled'], user' = None, ~outrun',
                    ~(refused'[dialled'] /\ up'[dialled'] = <<>>)
             PROVE  LastStatus(dialled)' = desired'
  BY DEF PublishOK
<1> DEFINE Same == UNCHANGED <<desired, dialled, cstate, rl, user, up, open, status, outrun, refused>>
<1>0. dialled' \in Conn
  BY ConnFacts DEF BaseInv, RunLoopOK, ClientTypeOK
<1>1. CASE Same
  BY <1>1 DEF PublishOK, LastStatus
<1>2. CASE Connect \/ Capture \/ Announce \/ Break \/ Replaced
  BY <1>2 DEF Connect, Capture, Announce, Break, Replaced
<1>3. CASE Publish
  <2>1. captured = desired /\ captured \in Status /\ clientUp /\ UNCHANGED <<dialled, desired>>
    BY <1>3 DEF BaseInv, RunLoopOK, Publish
  <2>2. open[dialled] /\ Put(captured)
    BY <1>3, <2>1 DEF Publish, connVars
  <2>3. up'[dialled] # <<>> /\ up'[dialled][Len(up'[dialled])] = captured
    BY <2>1, <2>2, PutIsLast
  <2> QED  BY <2>1, <2>3 DEF LastStatus
<1>4. CASE SendStatus
  <2>1. user = desired /\ user \in Status /\ clientUp /\ UNCHANGED <<dialled, desired>>
    BY <1>4 DEF BaseInv, ClientTypeOK, RunLoopOK, SendStatus
  <2>2. open[dialled] /\ Put(user)
    BY <1>4, <2>1 DEF SendStatus, connVars
  <2>3. up'[dialled] # <<>> /\ up'[dialled][Len(up'[dialled])] = user
    BY <2>1, <2>2, PutIsLast
  <2> QED  BY <2>1, <2>3 DEF LastStatus
<1>5. CASE \E s \in Status : SetStatus(s)
  BY <1>5, ConnFacts DEF SetStatus
<1>6. CASE \E c \in Conn : AddConn(c) \/ Notice(c)
  <2> PICK c \in Conn : AddConn(c) \/ Notice(c)  BY <1>6
  <2>1. UNCHANGED <<desired, dialled, cstate, rl, user, status, outrun, refused>>
    BY DEF AddConn, Notice, clientVars, flagVars
  <2>2. open[dialled] /\ up'[dialled] = up[dialled]
    BY <1>0, <2>1 DEF AddConn, Notice, Shut
  <2> QED  BY <2>1, <2>2 DEF PublishOK, LastStatus
<1>7. CASE \E c \in Conn : HandlePresenceSet(c)
  <2> PICK c \in Conn : HandlePresenceSet(c)  BY <1>7
  <2>1. /\ UNCHANGED <<desired, dialled, cstate, rl, user, open, outrun>>
        /\ up' = [up EXCEPT ![c] = Tail(@)] /\ status' = [status EXCEPT ![c] = Head(up[c])]
        /\ up[c] # <<>> /\ up[c] \in Seq(Status) /\ refused' = [refused EXCEPT ![c] = FALSE]
    BY DEF BaseInv, ClientTypeOK, HandlePresenceSet, clientVars
  <2>2. CASE c = dialled
    <3>1. up'[c] = Tail(up[c]) /\ status'[c] = Head(up[c])
      BY <2>1 DEF BaseInv, ClientTypeOK, RelayTypeOK
    <3> QED  BY <2>1, <2>2, <3>1, TailFacts DEF PublishOK, LastStatus
  <2>3. CASE c # dialled
    <3>1. up'[dialled] = up[dialled] /\ status'[dialled] = status[dialled]
          /\ refused'[dialled] = refused[dialled]
      BY <1>0, <2>1, <2>3 DEF BaseInv, ClientTypeOK, RelayTypeOK
    <3> QED  BY <2>1, <3>1 DEF PublishOK, LastStatus
  <2> QED  BY <2>2, <2>3
<1>13. CASE \E c \in Conn : RefusePresenceSet(c)
  <2> PICK c \in Conn : RefusePresenceSet(c)  BY <1>13
  <2>1. /\ UNCHANGED <<desired, dialled, cstate, rl, user, open, status, outrun>>
        /\ up' = [up EXCEPT ![c] = Tail(@)] /\ refused' = [refused EXCEPT ![c] = TRUE]
        /\ up[c] # <<>> /\ up[c] \in Seq(Status)
    BY DEF BaseInv, ClientTypeOK, RefusePresenceSet, clientVars, connVars
  <2>2. CASE c = dialled
    <3>1. up'[c] = Tail(up[c]) /\ refused'[c]
      BY <2>1 DEF BaseInv, ClientTypeOK
    <3>2. up'[c] # <<>>  BY <2>1, <2>2, <3>1
    <3> QED  BY <2>1, <2>2, <3>1, <3>2, TailFacts DEF PublishOK, LastStatus
  <2>3. CASE c # dialled
    <3>1. up'[dialled] = up[dialled] /\ refused'[dialled] = refused[dialled]
      BY <1>0, <2>1, <2>3 DEF BaseInv, ClientTypeOK
    <3> QED  BY <2>1, <3>1 DEF PublishOK, LastStatus
  <2> QED  BY <2>2, <2>3
<1>8. CASE Promote
  <2>1. UNCHANGED <<desired, dialled, cstate, rl, user, up, open, outrun, refused>>
    BY <1>8 DEF Promote, clientVars, wireVars, flagVars
  <2>2. ready[dialled]
    BY <2>1 DEF BaseInv, RunLoopOK
  <2>3. status'[dialled] = status[dialled]
    BY <1>0, <1>8, <2>1, <2>2 DEF BaseInv, RelayTypeOK, Promote
  <2> QED  BY <2>1, <2>3 DEF PublishOK, LastStatus
<1>9. CASE \E g \in Goroutine : Broadcast(g)
  <2>1. Same
    BY <1>9 DEF Broadcast, Compute, ReadyConns, Tell, DirTell, Greet, clientVars, wireVars, connVars, flagVars
  <2> QED  BY <1>1, <2>1
<1>10. CASE \E c \in Conn : Teardown(c) \/ Persist(c)
  <2>1. Same
    BY <1>10 DEF Teardown, Persist, clientVars, wireVars, connVars, flagVars
  <2> QED  BY <1>1, <2>1
<1>11. CASE Approve \/ Viewer \/ ViewerGone \/ ViewerBreaks
  <2>1. Same
    BY <1>11 DEF Approve, Viewer, ViewerConnects, ReadDirectory, SendDirectory, TellPresence,
       ViewerGone, ViewerBreaks, clientVars, wireVars, connVars, flagVars
  <2> QED  BY <1>1, <2>1
<1>12. CASE UNCHANGED vars
  <2>1. Same
    BY <1>12 DEF vars, clientVars, wireVars, connVars, flagVars
  <2> QED  BY <1>1, <2>1
<1> QED
  BY <1>2, <1>3, <1>4, <1>5, <1>6, <1>7, <1>8, <1>9, <1>10, <1>11, <1>12, <1>13
     DEF Next, RunLoop, Serve

-----------------------------------------------------------------------------
(* What only grows                                                         *)

\* Connections are made in order and stay ready, what went wrong stays known,
\* and an earlier connection that was ready does not go unnoticed.
Grows ==
    /\ dialled' >= dialled
    /\ \A c \in Conn : ready[c] => ready'[c]
    /\ ghost => ghost'
    /\ crossed => crossed'
    /\ missed => missed'
    /\ \A c \in Conn : c < dialled /\ ready[c] /\ at[c] \notin {"none", "gone"}
                         => at'[c] \notin {"none", "gone"} \/ ghost'

\* Every step is of this kind.
LEMMA StepGrows ==
    ASSUME BaseInv, [Next]_vars  PROVE Grows
<1> DEFINE Same == UNCHANGED <<dialled, ready, ghost, crossed, missed, at>>
<1>0. dialled \in Nat  BY ConnFacts DEF BaseInv, ClientTypeOK
<1>1. CASE Same
  BY <1>0, <1>1 DEF Grows
<1>2. CASE Connect
  <2>1. dialled' = dialled + 1 /\ dialled' \in Conn /\ UNCHANGED <<ghost, crossed, missed>>
    BY <1>2, ConnFacts DEF BaseInv, ClientTypeOK, Connect, flagVars
  <2>2. at[dialled'] = "none" /\ ~ready[dialled']
    BY <1>0, <2>1 DEF BaseInv, ConnOK
  <2>3. \A c \in Conn : c # dialled' => at'[c] = at[c] /\ ready'[c] = ready[c]
    BY <1>2, <2>1, ConnFacts DEF BaseInv, RelayTypeOK, Connect, Goto
  <2>4. \A c \in Conn : ready[c] => c # dialled' /\ ready'[c] /\ at'[c] = at[c]
    BY <2>1, <2>2, <2>3
  <2>5. dialled' >= dialled  BY <1>0, <2>1
  <2> QED  BY <2>1, <2>4, <2>5 DEF Grows
<1>3. CASE Capture \/ Announce \/ Publish \/ Replaced \/ SendStatus \/ Break
           \/ (\E s \in Status : SetStatus(s)) \/ Viewer \/ ViewerGone \/ ViewerBreaks
           \/ (\E c \in Conn : Notice(c))
  <2>1. UNCHANGED <<dialled, ready, ghost, missed, at>> /\ (crossed => crossed')
    BY <1>3 DEF BaseInv, ViewTypeOK, Capture, Announce, Publish, Replaced, SendStatus, Break,
       SetStatus, Viewer, ViewerConnects, ReadDirectory, SendDirectory, TellPresence, ViewerGone,
       ViewerBreaks, Notice, clientVars, connVars, flagVars
  <2> QED  BY <1>0, <2>1 DEF Grows
<1>4. CASE \E g \in Goroutine : Broadcast(g)
  <2> PICK g \in Goroutine : Broadcast(g)  BY <1>4
  <2>1. UNCHANGED <<dialled, ready>> /\ (ghost => ghost') /\ (crossed => crossed')
        /\ (missed => missed')
    BY DEF BaseInv, ViewTypeOK, Broadcast, Compute, ReadyConns, Tell, DirTell, Greet,
       clientVars, connVars, flagVars
  <2>2. \A c \in Conn : c # g => at'[c] = at[c]
    BY ConnFacts DEF BaseInv, RelayTypeOK, Broadcast, Compute, ReadyConns, Tell, DirTell, Greet, Goto
  <2>3. g \in Conn => at'[g] \notin {"none", "gone"}
    <3> HAVE g \in Conn
    <3>1. at'[g] \in {"list", "tell", "compute"} \/ (at[g] \in {"tell", "dirTell"} /\ at'[g] = andThen[g])
      BY DEF BaseInv, RelayTypeOK, Broadcast, Compute, ReadyConns, Tell, DirTell, Greet, Goto
    <3> QED  BY <3>1 DEF BaseInv, ConnOK
  <2> QED  BY <1>0, <2>1, <2>2, <2>3 DEF Grows
<1>5. CASE \E c \in Conn : Serve(c)
  <2> PICK c \in Conn : Serve(c)  BY <1>5
  <2>1. UNCHANGED <<dialled, ready, crossed, missed>> /\ (ghost => ghost')
    BY DEF BaseInv, ViewTypeOK, Serve, AddConn, HandlePresenceSet, RefusePresenceSet, Teardown, Persist,
       clientVars, connVars, flagVars
  <2>2. \A k \in Conn : k # c => at'[k] = at[k]
    BY ConnFacts DEF BaseInv, RelayTypeOK, Serve, AddConn, HandlePresenceSet, RefusePresenceSet, Teardown, Persist,
       Goto
  <2>3. at'[c] \notin {"none", "gone"} \/ ~ready[c] \/ (Persist(c) /\ (ghost' \/ dialled = c))
    BY ConnFacts DEF BaseInv, RelayTypeOK, Serve, AddConn, HandlePresenceSet, RefusePresenceSet, Teardown, Persist,
       Goto
  <2> QED  BY <1>0, <2>1, <2>2, <2>3 DEF Grows
<1>6. CASE Approve \/ Promote
  <2>1. UNCHANGED <<dialled, ghost, crossed, missed>>
    BY <1>6 DEF Approve, Promote, clientVars, flagVars
  <2>2. \A c \in Conn : at'[c] = at[c] /\ (ready[c] => ready'[c])
    BY <1>6, ConnFacts DEF BaseInv, RelayTypeOK, Approve, Promote, Goto, connVars
  <2> QED  BY <1>0, <2>1, <2>2 DEF Grows
<1>7. CASE UNCHANGED vars
  BY <1>1, <1>7 DEF vars, clientVars, connVars, flagVars
<1> QED  BY <1>2, <1>3, <1>4, <1>5, <1>6, <1>7 DEF Next, RunLoop

\* What excuses a wrong entry does not go away.
LEMMA ExcusedStays ==
    ASSUME BaseInv, BaseInv', Grows
    PROVE  /\ Doomed => Doomed' \/ ghost'
           /\ Excused => Excused'
<1>1. Doomed => Doomed' \/ ghost'
  <2> SUFFICES ASSUME Doomed, ~ghost' PROVE Doomed'  OBVIOUS
  <2> PICK c \in Conn : c < dialled /\ ready[c] /\ at[c] \notin {"none", "gone"}  BY DEF Doomed
  <2>1. dialled \in Nat /\ dialled' \in Nat /\ c \in Nat
    BY ConnFacts DEF BaseInv, ClientTypeOK
  <2>2. c < dialled' /\ ready'[c] /\ at'[c] \notin {"none", "gone"}
    BY <2>1 DEF Grows
  <2> QED  BY <2>2 DEF Doomed
<1> QED  BY <1>1 DEF Excused, Grows

-----------------------------------------------------------------------------
(* The row in the presence table                                           *)

\* The row follows the last connection, unless an earlier one is still to leave.
LEMMA StoredKept ==
    ASSUME BaseInv, BaseInv', StoredOK, [Next]_vars  PROVE StoredOK'
<1> SUFFICES ASSUME dialled' > 0, ready'[dialled'], ~ghost', ~Doomed'
             PROVE  stored' = status'[dialled']
  BY DEF StoredOK
<1> DEFINE Same == UNCHANGED <<stored, status, dialled, ready>>
<1>1. ~ghost /\ ~Doomed /\ dialled' \in Conn
  BY StepGrows, ExcusedStays, ConnFacts DEF Grows, BaseInv, ClientTypeOK
<1>2. CASE Same
  BY <1>1, <1>2 DEF StoredOK
<1>3. CASE Connect
  BY <1>1, <1>3 DEF BaseInv, RelayTypeOK, Connect, rowVars
<1>4. CASE \E c \in Conn : HandlePresenceSet(c)
  <2> PICK c \in Conn : HandlePresenceSet(c)  BY <1>4
  <2>1. UNCHANGED <<dialled, ready>> /\ ready[c] /\ at'[c] = "compute" /\ c <= dialled
    BY ConnFacts DEF BaseInv, ClientTypeOK, RelayTypeOK, ConnOK, HandlePresenceSet, Goto, clientVars
  <2>2. c = dialled
    BY <1>1, <2>1, ConnFacts DEF Doomed
  <2> QED  BY <2>1, <2>2 DEF BaseInv, RelayTypeOK, HandlePresenceSet
<1>5. CASE \E c \in Conn : Persist(c)
  <2> PICK c \in Conn : Persist(c)  BY <1>5
  <2> QED  BY DEF Persist, connVars, clientVars
<1>6. CASE Promote
  <2>1. CASE conns # None /\ ~ready[conns] /\ conns = dialled
    BY <1>1, <1>6, <2>1, ConnFacts DEF BaseInv, RelayTypeOK, Promote, clientVars, rowVars
  <2>2. CASE ~(conns # None /\ ~ready[conns] /\ conns = dialled)
    <3>1. UNCHANGED <<dialled, stored>> /\ ready'[dialled] = ready[dialled]
          /\ status'[dialled] = status[dialled]
      BY <1>1, <1>6, <2>2, ConnFacts DEF BaseInv, RelayTypeOK, Promote, clientVars, rowVars
    <3> QED  BY <1>1, <3>1 DEF StoredOK
  <2> QED  BY <2>1, <2>2
<1>7. CASE Capture \/ Announce \/ Publish \/ Replaced \/ SendStatus \/ Break
           \/ (\E s \in Status : SetStatus(s)) \/ Viewer \/ ViewerGone \/ ViewerBreaks
  <2>1. Same
    BY <1>7 DEF Capture, Announce, Publish, Replaced, SendStatus, Break, SetStatus, Viewer,
       ViewerConnects, ReadDirectory, SendDirectory, TellPresence, ViewerGone, ViewerBreaks,
       clientVars, rowVars, connVars
  <2> QED  BY <1>2, <2>1
<1>8. CASE Approve \/ (\E g \in Goroutine : Broadcast(g))
           \/ \E c \in Conn : AddConn(c) \/ RefusePresenceSet(c) \/ Teardown(c) \/ Notice(c)
  <2>1. Same
    BY <1>8 DEF Approve, Broadcast, Compute, ReadyConns, Tell, DirTell, Greet, AddConn,
       RefusePresenceSet, Teardown, Notice,
       clientVars, rowVars, connVars
  <2> QED  BY <1>2, <2>1
<1>9. CASE UNCHANGED vars
  <2>1. Same  BY <1>9 DEF vars, clientVars, rowVars, connVars
  <2> QED  BY <1>2, <2>1
<1> QED  BY <1>3, <1>4, <1>5, <1>6, <1>7, <1>8, <1>9 DEF Next, RunLoop, Serve

\* At rest a connected client's goroutine waits for frames and has none.
LEMMA AtRest ==
    ASSUME BaseInv, Quiet, clientUp
    PROVE  /\ dialled \in Conn /\ dialled > 0 /\ at[dialled] = "loop" /\ open[dialled]
           /\ up[dialled] = <<>> /\ conns = dialled
           /\ ~Doomed
<1>1. dialled \in Conn /\ dialled > 0 /\ dialled \in Nat
  BY ConnFacts DEF BaseInv, RunLoopOK, ClientTypeOK
<1>2. at[dialled] = "loop" /\ open[dialled] /\ up[dialled] = <<>>
  BY <1>1 DEF BaseInv, ConnOK, Quiet
<1>3. conns = dialled
  BY <1>1, <1>2 DEF BaseInv, RegisteredOK, Served
<1>4. ~Doomed
  BY <1>1, ConnFacts DEF Doomed, Quiet
<1> QED  BY <1>1, <1>2, <1>3, <1>4

\* These three hold always.
LEMMA StatusInv == Spec => [](BaseInv /\ PublishOK /\ StoredOK)
<1>1. Init => PublishOK /\ StoredOK
  BY DEF Init, PublishOK, StoredOK
<1>2. BaseInv /\ PublishOK /\ StoredOK /\ [Next]_vars => (BaseInv /\ PublishOK /\ StoredOK)'
  BY NextBase, PublishKept, StoredKept
<1> QED  BY <1>1, <1>2, InitBase, PTL DEF Spec

\* At rest nothing is left to send, to handle or to write.
LEMMA InvIsRight == BaseInv /\ PublishOK /\ StoredOK => StatusIsRight
<1> SUFFICES ASSUME BaseInv, PublishOK, StoredOK PROVE StatusIsRight  OBVIOUS
<1>1. TypeOK  BY BaseIsRight
<1>2. ASSUME Quiet, Connected, ~outrun, ~refused[dialled]  PROVE status[dialled] = desired
  <2>1. rl = "serve" /\ cstate = "ready"
    BY <1>2 DEF BaseInv, RunLoopOK, Quiet, Connected
  <2> QED  BY <1>2, <2>1, AtRest DEF PublishOK, LastStatus, Quiet, Connected
<1>3. ASSUME Quiet, Connected, ~ghost  PROVE stored = status[dialled]
  BY <1>3, AtRest DEF StoredOK, Connected
<1> QED  BY <1>1, <1>2, <1>3 DEF StatusIsRight, StatusIsPublished, StoredIsCurrent

\* At rest the relay has the status the user chose last, in memory and in its
\* row, unless the run loop published an older one, the relay refused the last
\* one, or an earlier connection was torn down later.
THEOREM StatusRight == Spec => []StatusIsRight
  BY StatusInv, InvIsRight, PTL

-----------------------------------------------------------------------------
(* Presence                                                                *)

\* Without an earlier connection left, whoever is ready and not gone is the
\* last connection.
LEMMA Alone ==
    ASSUME BaseInv, ~Doomed
    PROVE  /\ \A c \in Conn : ready[c] /\ at[c] \notin {"none", "gone"} => c = dialled
           /\ \A c \in Conn : at[c] \in {"greet", "compute", "list", "tell", "dirTell", "persist"}
                                => c = dialled
           /\ Present => conns = dialled /\ dialled \in Conn /\ dialled > 0 /\ ready[dialled]
           /\ Leaving => dialled \in Conn
<1>1. dialled \in Nat  BY ConnFacts DEF BaseInv, ClientTypeOK
<1>2. \A c \in Conn : ready[c] /\ at[c] \notin {"none", "gone"} => c = dialled
  BY <1>1, ConnFacts DEF BaseInv, ConnOK, Doomed
<1>3. \A c \in Conn : at[c] \in {"greet", "compute", "list", "tell", "dirTell", "persist"} => c = dialled
  BY <1>2 DEF BaseInv, ConnOK
<1>4. Present => conns = dialled /\ dialled \in Conn /\ dialled > 0 /\ ready[dialled]
  BY <1>2, ConnFacts DEF BaseInv, RelayTypeOK, RegisteredOK, Served, Present
<1>5. Leaving => dialled \in Conn
  BY ConnFacts DEF BaseInv, ClientTypeOK, Leaving
<1> QED  BY <1>2, <1>3, <1>4, <1>5

\* What Truthful is about, but for the viewer's own variables.
relayVars == <<at, andThen, upd, to, conns, ready, status, open, dialled>>

\* Steps of the client alone tell nobody anything.
LEMMA ClientTruthful ==
    ASSUME Truthful, UNCHANGED <<relayVars, cache, vat, vlist, vconn>>  PROVE Truthful'
  BY DEF Truthful, OneTells, UpdateOK, LeftOK, CacheOK, ShownOK, WillTell, Present, Visible, Leaving, Owed,
     Served, relayVars

\* When a new connection starts, the last one is gone or never was ready.
LEMMA ConnectTruthful ==
    ASSUME BaseInv, ~Doomed', Truthful, Connect  PROVE Truthful'
<1> DEFINE d == dialled + 1
<1>1. d \in Conn /\ dialled' = d /\ dialled \in Nat /\ at[d] = "none" /\ ~ready[d]
      /\ at' = [at EXCEPT ![d] = "add"] /\ open' = [open EXCEPT ![d] = TRUE]
      /\ ready' = [ready EXCEPT ![d] = (device = "active")]
      /\ status' = [status EXCEPT ![d] = stored]
      /\ UNCHANGED <<andThen, upd, to, conns, cache, vat, vlist, vconn>>
  BY ConnFacts DEF BaseInv, ClientTypeOK, ConnOK, Connect, Goto, bcastVars, viewVars, shownVars
<1>2. \A c \in Conn : c # d => at'[c] = at[c] /\ open'[c] = open[c] /\ ready'[c] = ready[c]
                                 /\ status'[c] = status[c]
  BY <1>1, ConnFacts DEF BaseInv, RelayTypeOK
<1>3. \A g \in Goroutine : at'[g] = IF g = d THEN "add" ELSE at[g]
  BY <1>1, ConnFacts DEF BaseInv, RelayTypeOK
<1>4. \A c \in Conn : ~(ready[c] /\ at[c] \notin {"none", "gone"})
  <2> SUFFICES ASSUME NEW c \in Conn, ready[c], at[c] \notin {"none", "gone"} PROVE FALSE
    OBVIOUS
  <2>1. c # d /\ c <= dialled /\ c \in Nat
    BY <1>1, ConnFacts DEF BaseInv, ConnOK
  <2>2. c < dialled' /\ ready'[c] /\ at'[c] \notin {"none", "gone"}
    BY <1>1, <1>2, <2>1
  <2> QED  BY <2>2 DEF Doomed
<1>5. ~Present /\ ~Present' /\ ~Leaving /\ ~Visible /\ ~Visible'
  <2>1. ~Present
    BY <1>4, ConnFacts DEF Present, BaseInv, RelayTypeOK, RegisteredOK, Served
  <2>2. conns # d
    BY <1>1, ConnFacts DEF BaseInv, RegisteredOK, Served
  <2>3. ~Present'
    BY <1>1, <1>2, <2>1, <2>2 DEF Present, BaseInv, RelayTypeOK
  <2>4. ~Leaving
    BY <1>4, ConnFacts DEF Leaving, BaseInv, ClientTypeOK, Served
  <2> QED  BY <2>1, <2>3, <2>4 DEF Visible, Present
<1>6. \A g \in Goroutine : at[g] \notin {"list", "tell"}
  BY <1>4, <1>5, ConnFacts DEF Truthful, UpdateOK, BaseInv, ConnOK, AdminOK
<1>7. OneTells' /\ UpdateOK'
  BY <1>3, <1>6 DEF OneTells, UpdateOK
<1>8. LeftOK' /\ CacheOK'
  BY <1>1, <1>5 DEF LeftOK, CacheOK, Truthful
<1>9. Owed => Owed'
  BY <1>1, <1>3 DEF Owed
<1>10. ShownOK'
  BY <1>1, <1>5, <1>6, <1>9 DEF ShownOK, WillTell, Truthful
<1> QED  BY <1>7, <1>8, <1>10 DEF Truthful

\* An update is true when it is computed.
LEMMA ComputeTruthful ==
    ASSUME BaseInv, ~crossed', Truthful, NEW g \in Goroutine, Compute(g)  PROVE Truthful'
<1>1. at[g] = "compute" /\ at' = [at EXCEPT ![g] = "list"]
      /\ UNCHANGED <<andThen, conns, ready, status, open, dialled, cache, vat, vlist, vconn>>
  BY DEF Compute, Goto, clientVars, connVars, viewVars, shownVars
<1>2. \A h \in Goroutine : at'[h] = IF h = g THEN "list" ELSE at[h]
  BY <1>1 DEF BaseInv, RelayTypeOK
<1>3. (\A h \in Goroutine : h # g => at[h] \notin {"list", "tell"}) /\ (andThen[g] # "persist" => conns = for[g])
  BY DEF Compute
<1>4. upd'[g] <=> andThen[g] # "persist" /\ status[for[g]] # "invisible"
  BY DEF BaseInv, RelayTypeOK, Compute
<1>5. for[g] \in Conn /\ ready[for[g]]
  BY <1>1, ConnFacts DEF BaseInv, AdminOK, ConnOK
<1>6. (Present' <=> Present) /\ (Visible' <=> Visible) /\ Leaving' = Leaving
  <2>1. dialled > 0 => dialled \in Conn /\ dialled \in Goroutine
    BY ConnFacts DEF BaseInv, ClientTypeOK
  <2>2. Leaving' = Leaving
    BY <1>1, <1>2, <2>1 DEF Leaving, Served
  <2> QED  BY <1>1, <2>2 DEF Present, Visible
<1>7. OneTells'  BY <1>2, <1>3 DEF OneTells
<1>8. UpdateOK'
  <2> SUFFICES ASSUME NEW h \in Goroutine, at'[h] \in {"list", "tell"}
               PROVE  IF andThen'[h] = "persist" THEN ~Present' /\ ~upd'[h]
                      ELSE (Present' \/ Leaving')
                             /\ ((upd'[h] <=> Visible') \/ Leaving' \/ Owed')
    BY DEF UpdateOK
  <2>1. h = g  BY <1>2, <1>3
  <2>2. CASE andThen[g] = "persist"
    <3>1. g \in Conn  BY <1>1, <2>2, ConnFacts DEF BaseInv, AdminOK
    <3>2. ~Present  BY <1>1, <2>2, <3>1 DEF Truthful, LeftOK
    <3> QED  BY <1>1, <1>4, <1>6, <2>1, <2>2, <3>2
  <2>3. CASE andThen[g] # "persist"
    <3>1. Present /\ (upd'[g] <=> Visible)
      BY <1>3, <1>4, <1>5, <2>3, ConnFacts DEF Present, Visible
    <3> QED  BY <1>1, <1>6, <2>1, <2>3, <3>1
  <2> QED  BY <2>2, <2>3
<1>9. LeftOK' /\ CacheOK'
  BY <1>1, <1>2, <1>6, ConnFacts DEF Truthful, LeftOK, CacheOK
<1>10. ShownOK'
  BY <1>1, <1>2 DEF ShownOK, WillTell
<1> QED  BY <1>7, <1>8, <1>9, <1>10 DEF Truthful

\* Listing the connections includes the viewer's.
LEMMA ReadyConnsTruthful ==
    ASSUME BaseInv, ~Doomed, Truthful, NEW g \in Goroutine, ReadyConns(g)  PROVE Truthful'
<1>1. at[g] = "list" /\ at' = [at EXCEPT ![g] = "tell"]
      /\ UNCHANGED <<andThen, upd, conns, ready, status, open, dialled, cache, vat, vlist, vconn>>
  BY DEF ReadyConns, Goto, clientVars, connVars, viewVars, shownVars
<1>2. \A h \in Goroutine : at'[h] = IF h = g THEN "tell" ELSE at[h]
  BY <1>1 DEF BaseInv, RelayTypeOK
<1>3. vat \in {"up", "tell"} => to'[g] = vconn
  BY DEF BaseInv, RelayTypeOK, ViewerOK, ReadyConns
<1>4. (Present' <=> Present) /\ (Visible' <=> Visible) /\ (Owed' <=> Owed)
  BY <1>1, <1>2 DEF Present, Visible, Owed
<1>5. Leaving => Leaving'
  BY <1>1, <1>2, Alone, ConnFacts DEF Leaving, Served
<1>6. OneTells' /\ UpdateOK'
  BY <1>1, <1>2, <1>4, <1>5 DEF Truthful, OneTells, UpdateOK
<1>7. LeftOK' /\ CacheOK'
  BY <1>1, <1>2, <1>4, <1>5, ConnFacts DEF Truthful, LeftOK, CacheOK
<1>8. ShownOK'
  BY <1>1, <1>2, <1>3 DEF ShownOK, WillTell
<1> QED  BY <1>6, <1>7, <1>8 DEF Truthful

\* An update that arrives makes the entry true, or another one follows.
LEMMA TellTruthful ==
    ASSUME BaseInv, ~Doomed, ~missed', Truthful, NEW g \in Goroutine, Tell(g)  PROVE Truthful'
<1>1. at[g] = "tell" /\ at' = [at EXCEPT ![g] = andThen[g]]
      /\ UNCHANGED <<conns, ready, status, open, dialled, vat, vlist, vconn, vlink>>
  BY DEF Tell, Goto, clientVars, connVars, viewVars
<1>2. /\ \A h \in Goroutine : at'[h] = IF h = g THEN andThen[g] ELSE at[h]
      /\ \A h \in Goroutine : h # g => upd'[h] = upd[h] /\ to'[h] = to[h] /\ andThen'[h] = andThen[h]
      /\ andThen[g] \in {"dirTell", "loop", "persist"}
  BY <1>1, ConnFacts DEF BaseInv, RelayTypeOK, AdminOK, ConnOK, Tell
<1>3. \A h \in Goroutine : at'[h] \notin {"list", "tell"}
  BY <1>1, <1>2 DEF Truthful, OneTells
<1>4. (Present' <=> Present) /\ (Visible' <=> Visible)
  BY <1>1 DEF Present, Visible
<1>5. Owed => Owed'
  BY <1>1, <1>2 DEF Owed
<1>6. CASE andThen[g] = "persist"
  <2>1. ~Present /\ ~upd[g] /\ upd[g] = FALSE
    BY <1>1, <1>6 DEF Truthful, UpdateOK, BaseInv, RelayTypeOK
  <2>2. cache' = FALSE
    BY <1>6, <2>1 DEF Tell, TellOnline
  <2>3. ~Visible'  BY <1>4, <2>1 DEF Visible, Present
  <2> QED
    <3>1. OneTells' /\ UpdateOK'  BY <1>3 DEF OneTells, UpdateOK
    <3>2. LeftOK'  BY <1>4, <2>1 DEF LeftOK
    <3>3. CacheOK' /\ ShownOK'  BY <2>2, <2>3 DEF CacheOK, ShownOK, WillTell
    <3> QED  BY <3>1, <3>2, <3>3 DEF Truthful
<1>7. CASE andThen[g] # "persist"
  <2>1. Leaving => Leaving'
    <3> SUFFICES ASSUME Leaving PROVE Leaving'  OBVIOUS
    <3>1. dialled \in Conn /\ dialled \in Goroutine  BY Alone, ConnFacts
    <3> QED  BY <1>1, <1>2, <1>7, <3>1 DEF Leaving, Served
  <2>2. (Present \/ Leaving) /\ ((upd[g] <=> Visible) \/ Leaving \/ Owed)
    BY <1>1, <1>7 DEF Truthful, UpdateOK
  <2>3. OneTells' /\ UpdateOK'  BY <1>3 DEF OneTells, UpdateOK
  <2>4. LeftOK'
    BY <1>2, <1>4, ConnFacts DEF Truthful, LeftOK
  <2>5. cache' = upd[g] \/ cache' = cache
    BY DEF Tell, TellOnline
  <2>6. CacheOK'
    BY <1>4, <2>1, <2>2, <2>5 DEF Truthful, CacheOK
  <2>7. ShownOK'
    <3> SUFFICES ASSUME vat = "up" \/ (vat = "tell" /\ vlist = None)
                 PROVE  ((cache' = TRUE) <=> Visible') \/ Leaving' \/ Owed'
      BY <1>1 DEF ShownOK, WillTell
    <3>1. vlink = "up"  BY DEF BaseInv, ViewerOK
    <3>2. CASE to[g] = vconn
      <4>1. cache' = upd[g]  BY <3>1, <3>2 DEF Tell, TellOnline, Arrives
      <4>2. (cache' = TRUE) <=> upd[g]  BY <4>1 DEF BaseInv, RelayTypeOK
      <4> QED  BY <1>4, <1>5, <2>1, <2>2, <4>2
    <3>3. CASE to[g] # vconn
      <4>1. cache' = cache  BY <3>3 DEF Tell, TellOnline, Arrives
      <4>2. ~\E h \in Goroutine : WillTell(h)
        BY <1>1, <3>3 DEF Truthful, OneTells, WillTell
      <4>3. ((cache = TRUE) <=> Visible) \/ Leaving \/ Owed
        BY <4>2 DEF Truthful, ShownOK, WillTell
      <4> QED  BY <1>4, <1>5, <2>1, <4>1, <4>3
    <3> QED  BY <3>2, <3>3
  <2> QED  BY <2>3, <2>4, <2>6, <2>7 DEF Truthful
<1> QED  BY <1>6, <1>7

\* What a step leaves when nobody starts or ends telling an update.
LEMMA QuietTruthful ==
    ASSUME Truthful, UNCHANGED <<upd, to, cache, vat, vlist, vconn>>,
           \A g \in Goroutine : at'[g] \in {"list", "tell"} \/ at[g] \in {"list", "tell"}
                                   => at'[g] = at[g],
           \A g \in Goroutine : at[g] \in {"list", "tell"} => andThen'[g] = andThen[g],
           \A c \in Conn : at'[c] = "compute" /\ andThen'[c] = "persist"
                             => at[c] = "compute" /\ andThen[c] = "persist",
           Present' <=> Present, Visible' <=> Visible, Leaving => Leaving', Owed => Owed'
    PROVE  Truthful'
<1>1. OneTells' /\ UpdateOK' /\ LeftOK'
  BY DEF Truthful, OneTells, UpdateOK, LeftOK
<1>2. CacheOK' /\ ShownOK'
  BY DEF Truthful, CacheOK, ShownOK, WillTell
<1> QED  BY <1>1, <1>2 DEF Truthful

\* A directory update tells nothing about presence.
LEMMA DirTellTruthful ==
    ASSUME BaseInv, ~Doomed, Truthful, NEW g \in Goroutine, DirTell(g)  PROVE Truthful'
<1>1. at[g] = "dirTell" /\ at' = [at EXCEPT ![g] = andThen[g]]
      /\ andThen' = [andThen EXCEPT ![g] = "none"]
      /\ UNCHANGED <<upd, to, conns, ready, status, open, dialled, cache, vat, vlist, vconn>>
  BY DEF DirTell, TellPeer, Goto, clientVars, connVars, viewVars
<1>2. \A h \in Goroutine : /\ at'[h] = IF h = g THEN andThen[g] ELSE at[h]
                           /\ h # g => andThen'[h] = andThen[h]
  BY <1>1 DEF BaseInv, RelayTypeOK
<1>3. andThen[g] \in {"loop", "promote", "none"} /\ (g \in Conn => andThen[g] = "loop")
  BY <1>1, ConnFacts DEF BaseInv, AdminOK, ConnOK
<1>4. Leaving => Leaving'
  BY <1>1, <1>2, <1>3, Alone, ConnFacts DEF Leaving, Served
<1>5. (Present' <=> Present) /\ (Visible' <=> Visible) /\ (Owed => Owed')
  BY <1>1, <1>2 DEF Present, Visible, Owed
<1> QED  BY <1>1, <1>2, <1>3, <1>4, <1>5, ConnFacts, QuietTruthful

\* Whoever greets will compute an update.
LEMMA GreetTruthful ==
    ASSUME BaseInv, ~Doomed, Truthful, NEW g \in Goroutine, Greet(g)  PROVE Truthful'
<1>1. at[g] = "greet" /\ at' = [at EXCEPT ![g] = "compute"]
      /\ andThen' = [andThen EXCEPT ![g] = "dirTell"]
      /\ UNCHANGED <<upd, to, conns, ready, status, open, dialled, cache, vat, vlist, vconn>>
  BY DEF Greet, Goto, clientVars, connVars, viewVars, shownVars
<1>2. \A h \in Goroutine : /\ at'[h] = IF h = g THEN "compute" ELSE at[h]
                           /\ andThen'[h] = IF h = g THEN "dirTell" ELSE andThen[h]
  BY <1>1 DEF BaseInv, RelayTypeOK
<1>3. Leaving => Leaving'
  BY <1>1, <1>2, Alone, ConnFacts DEF Leaving, Served
<1>4. (Present' <=> Present) /\ (Visible' <=> Visible) /\ Owed'
  BY <1>1, <1>2 DEF Present, Visible, Owed
<1> QED  BY <1>1, <1>2, <1>3, <1>4, ConnFacts, QuietTruthful

\* The registered connection is replaced: the new one greets or the old one leaves.
LEMMA AddConnTruthful ==
    ASSUME BaseInv, ~Doomed, Truthful, NEW c \in Conn, AddConn(c)  PROVE Truthful'
<1>1. at[c] = "add" /\ conns' = c /\ open' = [k \in Conn |-> open[k] /\ k # conns]
      /\ UNCHANGED <<upd, to, andThen, ready, status, dialled, cache, vat, vlist, vconn>>
  BY DEF AddConn, Shut, clientVars, bcastVars, viewVars, shownVars
<1>2. \A h \in Goroutine : at'[h] = IF h = c THEN (IF ready[c] THEN "greet" ELSE "loop") ELSE at[h]
  BY ConnFacts DEF BaseInv, RelayTypeOK, AddConn, Goto
<1>3. conns # c
  BY <1>1, ConnFacts DEF BaseInv, RegisteredOK, Served
<1>4. CASE ready[c]
  <2>1. c = dialled  BY <1>1, <1>4, Alone
  <2>2. \A k \in Conn : at[k] \notin {"compute", "list", "tell"}
    BY <1>1, <2>1, Alone
  <2>3. Present' /\ Owed'
    BY <1>1, <1>2, <1>4, ConnFacts DEF Present, Owed
  <2>4. OneTells' /\ UpdateOK'
    BY <1>1, <1>2, <2>2, <2>3, ConnFacts DEF Truthful, OneTells, UpdateOK, BaseInv, AdminOK
  <2>5. LeftOK' /\ CacheOK' /\ ShownOK'
    BY <1>1, <1>2, <2>2, <2>3, ConnFacts DEF LeftOK, CacheOK, ShownOK, WillTell
  <2> QED  BY <2>4, <2>5 DEF Truthful
<1>5. CASE ~ready[c]
  <2>1. ~Present' /\ ~Visible'
    BY <1>1, <1>5 DEF Present, Visible
  <2>2. Present \/ Leaving => Leaving'
    <3> SUFFICES ASSUME Present \/ Leaving PROVE Leaving'  OBVIOUS
    <3>1. dialled \in Conn /\ dialled > 0 /\ ready[dialled] /\ dialled # c
      BY <1>5, Alone DEF Leaving
    <3>2. at'[dialled] = at[dialled] /\ at[dialled] \in Served
      BY <1>2, <3>1, Alone, ConnFacts DEF Leaving, Present, BaseInv, RegisteredOK
    <3>3. ~open'[dialled]
      BY <1>1, <3>1, Alone DEF Leaving
    <3> QED  BY <1>1, <3>1, <3>2, <3>3 DEF Leaving
  <2>3. Owed => Owed'
    BY <1>1, <1>2, <1>5 DEF Owed
  <2>4. Visible => Present  BY DEF Visible, Present
  <2>5. OneTells' /\ UpdateOK'
    BY <1>1, <1>2, <1>5, <2>1, <2>2 DEF Truthful, OneTells, UpdateOK
  <2>6. LeftOK' /\ CacheOK'
    BY <1>1, <2>1, <2>2 DEF Truthful, LeftOK, CacheOK
  <2>7. ShownOK'
    BY <1>1, <1>2, <1>5, <2>1, <2>2, <2>3, <2>4 DEF Truthful, ShownOK, WillTell
  <2> QED  BY <2>5, <2>6, <2>7 DEF Truthful
<1> QED  BY <1>4, <1>5

\* A changed status is told.
LEMMA HandlePresenceSetTruthful ==
    ASSUME BaseInv, ~Doomed, Truthful, NEW c \in Conn, HandlePresenceSet(c)  PROVE Truthful'
<1>1. at[c] = "loop" /\ ready[c] /\ open[c] /\ andThen' = [andThen EXCEPT ![c] = "loop"]
      /\ UNCHANGED <<upd, to, conns, ready, open, dialled, cache, vat, vlist, vconn>>
  BY DEF HandlePresenceSet, clientVars, viewVars, shownVars
<1>2. \A h \in Goroutine : /\ at'[h] = IF h = c THEN "compute" ELSE at[h]
                           /\ andThen'[h] = IF h = c THEN "loop" ELSE andThen[h]
  BY <1>1, ConnFacts DEF BaseInv, RelayTypeOK, HandlePresenceSet, Goto
<1>3. c = dialled /\ conns = c
  BY <1>1, Alone DEF BaseInv, RegisteredOK, Served
<1>4. Present' /\ Owed'
  BY <1>1, <1>2, <1>3, ConnFacts DEF Present, Owed
<1>5. \A k \in Conn : at[k] \notin {"compute", "list", "tell"}
  BY <1>1, <1>3, Alone
<1>6. OneTells' /\ UpdateOK'
  BY <1>2, <1>4, <1>5, ConnFacts DEF Truthful, OneTells, UpdateOK, BaseInv, AdminOK
<1>7. LeftOK' /\ CacheOK' /\ ShownOK'
  BY <1>2, <1>4, <1>5, ConnFacts DEF LeftOK, CacheOK, ShownOK, WillTell
<1> QED  BY <1>6, <1>7 DEF Truthful

\* A connection found closed will leave.
LEMMA NoticeTruthful ==
    ASSUME BaseInv, ~Doomed, Truthful, NEW c \in Conn, Notice(c)  PROVE Truthful'
<1>1. open' = [k \in Conn |-> open[k] /\ k # c]
      /\ UNCHANGED <<at, andThen, upd, to, conns, ready, status, dialled, cache, vat, vlist, vconn>>
  BY DEF Notice, Shut, clientVars, bcastVars, viewVars, shownVars
<1>2. Leaving => Leaving'
  BY <1>1, Alone DEF Leaving
<1>3. (Present' <=> Present) /\ (Visible' <=> Visible) /\ (Owed => Owed')
  BY <1>1 DEF Present, Visible, Owed
<1> QED  BY <1>1, <1>2, <1>3, QuietTruthful

\* A connection that leaves tells so.
LEMMA TeardownTruthful ==
    ASSUME BaseInv, ~Doomed, Truthful, NEW c \in Conn, Teardown(c)  PROVE Truthful'
<1>1. at[c] = "loop" /\ ~open[c] /\ conns' = (IF conns = c THEN None ELSE conns)
      /\ UNCHANGED <<upd, to, ready, status, open, dialled, cache, vat, vlist, vconn>>
  BY DEF Teardown, clientVars, viewVars, shownVars
<1>2. \A h \in Goroutine : h # c => at'[h] = at[h] /\ andThen'[h] = andThen[h]
  BY ConnFacts DEF BaseInv, RelayTypeOK, Teardown, Goto
<1>3. CASE ready[c]
  <2>1. c = dialled /\ c > 0  BY <1>1, <1>3, Alone, ConnFacts
  <2>2. at'[c] = "compute"
    BY <1>3, ConnFacts DEF BaseInv, RelayTypeOK, Teardown, Goto
  <2>3. Leaving'
    BY <1>1, <1>3, <2>1, <2>2 DEF Leaving, Served
  <2>4. ~Present'
    BY <1>1, <2>1, Alone, ConnFacts DEF Present
  <2>5. \A h \in Goroutine : (at'[h] \in {"list", "tell"}) => at[h] \in {"list", "tell"} /\ h = Admin
    BY <1>1, <1>2, <2>1, <2>2, Alone, ConnFacts
  <2>6. OneTells' /\ UpdateOK'
    BY <1>2, <2>3, <2>5, ConnFacts DEF OneTells, UpdateOK, BaseInv, AdminOK
  <2>7. LeftOK' /\ CacheOK' /\ ShownOK'
    BY <2>3, <2>4 DEF LeftOK, CacheOK, ShownOK, WillTell
  <2> QED  BY <2>6, <2>7 DEF Truthful
<1>4. CASE ~ready[c]
  <2>1. at'[c] = "gone" /\ andThen' = andThen
    BY <1>4, ConnFacts DEF BaseInv, RelayTypeOK, Teardown, Goto
  <2>2. Leaving => Leaving'
    BY <1>1, <1>2, <1>4, Alone, ConnFacts DEF Leaving
  <2>3. (Present' <=> Present) /\ (Visible' <=> Visible)
    BY <1>1, <1>4 DEF Present, Visible
  <2>4. Owed => Owed'
    BY <1>1, <1>2, <2>1 DEF Owed
  <2> QED  BY <1>1, <1>2, <2>1, <2>2, <2>3, <2>4, ConnFacts, QuietTruthful
<1> QED  BY <1>3, <1>4

\* By the time it writes its row it has told so.
LEMMA PersistTruthful ==
    ASSUME BaseInv, ~Doomed, Truthful, NEW c \in Conn, Persist(c)  PROVE Truthful'
<1>1. at[c] = "persist" /\ at' = [at EXCEPT ![c] = "gone"]
      /\ UNCHANGED <<andThen, upd, to, conns, ready, status, open, dialled, cache, vat, vlist, vconn>>
  BY DEF Persist, Goto, clientVars, bcastVars, connVars, viewVars, shownVars
<1>2. \A h \in Goroutine : at'[h] = IF h = c THEN "gone" ELSE at[h]
  BY <1>1 DEF BaseInv, RelayTypeOK
<1>3. Leaving => Leaving'
  BY <1>1, <1>2, Alone, ConnFacts DEF Leaving, Served
<1>4. (Present' <=> Present) /\ (Visible' <=> Visible) /\ (Owed => Owed')
  BY <1>1, <1>2 DEF Present, Visible, Owed
<1> QED  BY <1>1, <1>2, <1>3, <1>4, ConnFacts, QuietTruthful

\* An approval alone changes nobody's presence.
LEMMA ApproveTruthful ==
    ASSUME BaseInv, ~Doomed, Truthful, Approve  PROVE Truthful'
<1>1. at[Admin] = "none" /\ at' = [at EXCEPT ![Admin] = "dirTell"]
      /\ andThen' = [andThen EXCEPT ![Admin] = "promote"]
      /\ UNCHANGED <<upd, to, conns, ready, status, open, dialled, cache, vat, vlist, vconn>>
  BY DEF Approve, Goto, clientVars, connVars, viewVars, shownVars
<1>2. \A h \in Goroutine : /\ at'[h] = IF h = Admin THEN "dirTell" ELSE at[h]
                           /\ andThen'[h] = IF h = Admin THEN "promote" ELSE andThen[h]
  BY <1>1 DEF BaseInv, RelayTypeOK
<1>3. Leaving => Leaving'
  BY <1>1, <1>2, Alone, ConnFacts DEF Leaving
<1>4. (Present' <=> Present) /\ (Visible' <=> Visible) /\ (Owed => Owed')
  BY <1>1, <1>2 DEF Present, Visible, Owed
<1> QED  BY <1>1, <1>2, <1>3, <1>4, ConnFacts, QuietTruthful

\* A promoted connection is greeted.
LEMMA PromoteTruthful ==
    ASSUME BaseInv, ~Doomed, ~Doomed', Truthful, Promote  PROVE Truthful'
<1>1. at[Admin] = "promote"
      /\ UNCHANGED <<andThen, upd, to, conns, open, dialled, cache, vat, vlist, vconn>>
  BY DEF Promote, clientVars, bcastVars, viewVars, shownVars
<1>2. \A c \in Conn : at'[c] = at[c]
  BY ConnFacts DEF BaseInv, RelayTypeOK, Promote, Goto
<1>3. CASE conns # None /\ ~ready[conns]
  <2>1. conns \in Conn /\ at'[Admin] = "greet" /\ ready' = [ready EXCEPT ![conns] = TRUE]
    BY <1>3, ConnFacts DEF BaseInv, RelayTypeOK, Promote, Goto
  <2>2. Present' /\ Owed'
    BY <1>1, <1>3, <2>1, ConnFacts DEF Present, Owed, BaseInv, RelayTypeOK
  <2>3. conns = dialled
    <3>1. at[conns] \notin {"none", "gone"} /\ conns <= dialled /\ dialled \in Nat
      BY <1>3, <2>1, ConnFacts DEF BaseInv, ClientTypeOK, RegisteredOK, Served, ConnOK
    <3>2. ready'[conns]  BY <2>1 DEF BaseInv, RelayTypeOK
    <3> QED  BY <1>1, <1>2, <2>1, <3>1, <3>2, ConnFacts DEF Doomed
  <2>4. \A c \in Conn : at[c] \notin {"compute", "list", "tell"}
    BY <1>3, <2>3, Alone DEF BaseInv, ConnOK
  <2>5. \A g \in Goroutine : at'[g] \notin {"list", "tell"}
    BY <1>2, <2>1, <2>4, ConnFacts
  <2>6. OneTells' /\ UpdateOK'  BY <2>5 DEF OneTells, UpdateOK
  <2>7. LeftOK' /\ CacheOK' /\ ShownOK'
    BY <1>2, <2>2, <2>4 DEF LeftOK, CacheOK, ShownOK, WillTell
  <2> QED  BY <2>6, <2>7 DEF Truthful
<1>4. CASE ~(conns # None /\ ~ready[conns])
  <2>1. at'[Admin] = "none" /\ UNCHANGED <<ready, status>>
    BY <1>4, ConnFacts DEF BaseInv, RelayTypeOK, Promote, Goto
  <2>2. Leaving => Leaving'
    BY <1>1, <1>2, <2>1, Alone DEF Leaving
  <2>3. (Present' <=> Present) /\ (Visible' <=> Visible)
    BY <1>1, <2>1 DEF Present, Visible
  <2>4. Owed => Owed'
    BY <1>1, <1>2, <2>1, ConnFacts DEF Owed
  <2> QED  BY <1>1, <1>2, <2>1, <2>2, <2>3, <2>4, ConnFacts, QuietTruthful
<1> QED  BY <1>3, <1>4


\* The viewer is told what there is when it connects.
LEMMA ViewerTruthful ==
    ASSUME BaseInv, ~Doomed, ~crossed', Truthful, Viewer \/ ViewerGone \/ ViewerBreaks
    PROVE  Truthful'
<1>1. UNCHANGED relayVars
  BY DEF Viewer, ViewerConnects, ReadDirectory, SendDirectory, TellPresence, ViewerGone, ViewerBreaks,
     clientVars, bcastVars, connVars, relayVars
<1>2. /\ (Present' <=> Present) /\ (Visible' <=> Visible)
      /\ (Leaving' <=> Leaving) /\ (Owed' <=> Owed)
  BY <1>1 DEF Present, Visible, Leaving, Owed, relayVars
<1>3. OneTells' /\ UpdateOK' /\ LeftOK'
  BY <1>1, <1>2 DEF Truthful, OneTells, UpdateOK, LeftOK, relayVars
<1>4. CacheOK' /\ ShownOK'
  <2>1. CASE ViewerConnects \/ ReadDirectory \/ ViewerBreaks
    <3>1. cache' = cache /\ vat' \notin {"up", "tell"}
      BY <2>1 DEF ViewerConnects, ReadDirectory, ViewerBreaks, shownVars
    <3> QED  BY <1>2, <3>1 DEF Truthful, CacheOK, ShownOK, WillTell
  <2>2. CASE ViewerGone
    <3>1. UNCHANGED <<cache, vat, vlist, vconn>>  BY <2>2 DEF ViewerGone, shownVars
    <3> QED  BY <1>1, <1>2, <3>1 DEF Truthful, CacheOK, ShownOK, WillTell, relayVars
  <2>3. CASE SendDirectory
    <3>1. cache' = cache /\ vat' = "tell" /\ (vlist' = None => ~Present)
      BY <2>3, ConnFacts DEF SendDirectory, TellPeer, Present, BaseInv, RelayTypeOK
    <3>2. Visible => Present  BY DEF Visible, Present
    <3> QED  BY <1>2, <3>1, <3>2 DEF Truthful, CacheOK, ShownOK, WillTell
  <2>4. CASE TellPresence /\ vlist = None
    <3>1. UNCHANGED <<cache, vconn>> /\ vat = "tell"
      BY <2>4 DEF TellPresence, shownVars
    <3> QED  BY <1>1, <1>2, <2>4, <3>1 DEF Truthful, CacheOK, ShownOK, WillTell, relayVars
  <2>5. CASE TellPresence /\ vlist # None
    <3>1. conns = vlist /\ ready[vlist] /\ vlink = "up"
      BY <2>5 DEF TellPresence, BaseInv, ViewerOK
    <3>2. cache' = (status[vlist] # "invisible")
      BY <2>5, <3>1 DEF TellPresence, TellOnline, Arrives
    <3>3. Present /\ ((cache' = TRUE) <=> Visible)
      BY <2>5, <3>1, <3>2 DEF Present, Visible
    <3> QED  BY <1>2, <3>3 DEF CacheOK, ShownOK, WillTell
  <2> QED  BY <2>1, <2>2, <2>3, <2>4, <2>5 DEF Viewer
<1> QED  BY <1>3, <1>4 DEF Truthful

\* An entry is true or on its way to be, after every step, unless excused.
LEMMA PresenceKept ==
    ASSUME BaseInv, BaseInv', PresenceOK, [Next]_vars  PROVE PresenceOK'
<1> SUFFICES ASSUME ~Excused' PROVE Truthful'  BY DEF PresenceOK
<1>0. ~Excused /\ ~Doomed /\ ~Doomed' /\ ~crossed' /\ ~missed' /\ Truthful
  BY StepGrows, ExcusedStays DEF Excused, PresenceOK
<1>1. CASE Connect
  BY <1>0, <1>1, ConnectTruthful
<1>2. CASE Capture \/ Announce \/ Publish \/ Replaced \/ SendStatus \/ Break
           \/ \E s \in Status : SetStatus(s)
  <2>1. UNCHANGED <<relayVars, cache, vat, vlist, vconn>>
    BY <1>2 DEF Capture, Announce, Publish, Replaced, SendStatus, Break, SetStatus, bcastVars,
       connVars, viewVars, shownVars, relayVars
  <2> QED  BY <1>0, <2>1, ClientTruthful
<1>3. CASE \E g \in Goroutine : Broadcast(g)
  BY <1>0, <1>3, ComputeTruthful, ReadyConnsTruthful, TellTruthful, DirTellTruthful, GreetTruthful
     DEF Broadcast
<1>8. CASE \E c \in Conn : RefusePresenceSet(c)
  <2>1. UNCHANGED <<relayVars, cache, vat, vlist, vconn>>
    BY <1>8 DEF RefusePresenceSet, clientVars, bcastVars, connVars, viewVars, shownVars, relayVars
  <2> QED  BY <1>0, <2>1, ClientTruthful
<1>4. CASE \E c \in Conn : Serve(c) \/ Notice(c)
  BY <1>0, <1>4, <1>8, AddConnTruthful, HandlePresenceSetTruthful, TeardownTruthful, PersistTruthful,
     NoticeTruthful DEF Serve
<1>5. CASE Approve \/ Promote
  BY <1>0, <1>5, ApproveTruthful, PromoteTruthful
<1>6. CASE Viewer \/ ViewerGone \/ ViewerBreaks
  BY <1>0, <1>6, ViewerTruthful
<1>7. CASE UNCHANGED vars
  <2>1. UNCHANGED <<relayVars, cache, vat, vlist, vconn>>
    BY <1>7 DEF vars, clientVars, bcastVars, connVars, viewVars, shownVars, relayVars
  <2> QED  BY <1>0, <2>1, ClientTruthful
<1> QED  BY <1>1, <1>2, <1>3, <1>4, <1>5, <1>6, <1>7 DEF Next, RunLoop

\* At first nobody is known of.
LEMMA InitPresence == ASSUME Init PROVE PresenceOK
<1>1. \A g \in Goroutine : at[g] = "none"  BY DEF Init
<1>2. cache = None /\ conns = None /\ vat = "none"  BY DEF Init
<1>3. OneTells /\ UpdateOK  BY <1>1 DEF OneTells, UpdateOK
<1>4. LeftOK  BY <1>1, ConnFacts DEF LeftOK
<1>5. CacheOK /\ ShownOK  BY <1>2, ConnFacts DEF CacheOK, ShownOK, WillTell
<1> QED  BY <1>3, <1>4, <1>5 DEF PresenceOK, Truthful

\* At rest no update is on its way, so the entry is true.
LEMMA PresenceIsRight == ASSUME BaseInv, PresenceOK PROVE RosterIsRight
<1> SUFFICES ASSUME Quiet, ~crossed, ~ghost, ~missed, ~staleDir
             PROVE  Shown <=> Connected /\ status[dialled] # "invisible"
  BY DEF RosterIsRight
<1>1. \A g \in Goroutine : at[g] \in {"none", "gone", "loop"}
  BY ConnFacts DEF Quiet
<1>2. \A c \in Conn : at[c] = "loop" => open[c] /\ c = dialled /\ clientUp
  BY DEF Quiet
<1>3. ~Doomed
  BY <1>1, <1>2, ConnFacts DEF Doomed, BaseInv, ClientTypeOK
<1>4. ~Leaving /\ ~Owed /\ ~\E g \in Goroutine : WillTell(g)
  <2>1. ~Leaving
    BY <1>1, <1>2, <1>3, Alone, ConnFacts DEF Leaving, Served
  <2> QED  BY <1>1, <2>1 DEF Owed, WillTell
<1>5. (cache = TRUE) <=> Visible
  BY <1>3, <1>4 DEF PresenceOK, Excused, Truthful, ShownOK, WillTell, Quiet
<1>6. Visible <=> Connected /\ status[dialled] # "invisible"
  <2>1. ASSUME Visible PROVE Connected /\ status[dialled] # "invisible"
    <3>1. Present /\ conns = dialled /\ ready[dialled] /\ dialled \in Conn
      BY <1>3, <2>1, Alone DEF Present, Visible
    <3>2. at[dialled] = "loop"
      BY <1>1, <3>1, ConnFacts DEF Present, BaseInv, RegisteredOK, Served
    <3> QED  BY <1>2, <2>1, <3>1, <3>2 DEF Connected, Visible
  <2>2. ASSUME Connected, status[dialled] # "invisible" PROVE Visible
    BY <2>2, AtRest, ConnFacts DEF Connected, Visible
  <2> QED  BY <2>1, <2>2
<1>7. Visible => peers
  BY ConnFacts, BaseIsRight
     DEF Visible, BaseInv, RelayTypeOK, ConnOK, DirectoryIsRight
<1> QED  BY <1>5, <1>6, <1>7 DEF Shown

\* At rest the roster of a connected viewer shows the subject online exactly
\* if it is connected and visible, unless two updates crossed, an earlier
\* connection was torn down later, the subject left while the viewer was away,
\* or a snapshot came late.
THEOREM RosterRight == Spec => []RosterIsRight
<1>1. BaseInv /\ PresenceOK /\ [Next]_vars => (BaseInv /\ PresenceOK)'
  BY NextBase, PresenceKept
<1>2. Init => BaseInv /\ PresenceOK
  BY InitBase, InitPresence
<1>3. BaseInv /\ PresenceOK => RosterIsRight
  BY PresenceIsRight
<1> QED  BY <1>1, <1>2, <1>3, PTL DEF Spec

=============================================================================
