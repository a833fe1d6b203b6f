--------------------------- MODULE SessionProofs ---------------------------
(***************************************************************************)
(* For any clients, limit, window, delays and backoff: the limiter limits, *)
(* a run loop ends only for a reason, and a client that the relay rejected *)
(* stays away.                                                             *)
(***************************************************************************)
EXTENDS Session, FiniteSetTheorems, TLAPS

\* A recorded time is at most MaxStall older than the moment it stands for, and
\* what was let through is recorded as long as it may count.
HitsAreKept ==
    MaxHits > 0 => \A e \in DOMAIN admitted :
        admitted[e] + MaxStall < Window => e \in DOMAIN hits /\ hits[e] <= admitted[e] + MaxStall

LimiterInv == LimiterOK /\ HitsAreKept /\ LimitHolds

\* A rejection is in err from the handshake to the end of the run loop.
RejectedIsOver ==
    \A c \in Client :
      /\ err[c] = "rejected" => c \in rejected
      /\ c \in rejected => \/ phase[c] = "ended"
                           \/ phase[c] = "returned" /\ err[c] = "rejected"

SessionInv == SessionIsSound /\ HitsAreKept /\ RejectedIsOver

-----------------------------------------------------------------------------
(* The limiter                                                             *)

\* Ages of finitely many events.
IsTimes(f) == IsFiniteSet(DOMAIN f) /\ DOMAIN f \subseteq Nat /\ f \in [DOMAIN f -> 0 .. Oldest]

\* recent keeps what it keeps as it was.
LEMMA RecentIsPart ==
    ASSUME NEW f, IsTimes(f), NEW n \in 0 .. MaxStall
    PROVE  /\ IsTimes(Recent(f, n))
           /\ DOMAIN Recent(f, n) = {e \in DOMAIN f : f[e] < Window + n}
           /\ \A e \in DOMAIN Recent(f, n) : Recent(f, n)[e] = f[e]
<1> DEFINE S == {e \in DOMAIN f : f[e] < Window + n}
<1>1. Recent(f, n) = [e \in S |-> f[e]]  BY DEF Recent, Restrict
<1>2. IsFiniteSet(S)  BY FS_Subset DEF IsTimes
<1> QED  BY <1>1, <1>2 DEF IsTimes

\* There is a number left for a new event.
LEMMA NewEventIsNew ==
    ASSUME NEW f, IsTimes(f), IsTimes(admitted)
    PROVE  NewEvent(f) \in Nat /\ NewEvent(f) \notin DOMAIN f \union DOMAIN admitted
<1> DEFINE used == DOMAIN f \union DOMAIN admitted
<1>1. IsFiniteSet(used) /\ Cardinality(used) \in Nat
  BY FS_Union, FS_CardinalityType DEF IsTimes
<1>2. \E e \in 0 .. Cardinality(used) : e \notin used
  <2> SUFFICES ASSUME 0 .. Cardinality(used) \subseteq used  PROVE FALSE
    OBVIOUS
  <2>1. Cardinality(0 .. Cardinality(used)) = Cardinality(used) + 1
    BY <1>1, FS_Interval
  <2>2. Cardinality(0 .. Cardinality(used)) <= Cardinality(used)
    BY <1>1, FS_Subset
  <2> QED  BY <1>1, <2>1, <2>2
<1>3. NewEvent(f) = CHOOSE e \in 0 .. Cardinality(used) : e \notin used
  BY DEF NewEvent
<1>4. NewEvent(f) \in 0 .. Cardinality(used) /\ NewEvent(f) \notin used
  BY <1>2, <1>3
<1> QED  BY <1>1, <1>4

\* Recording one event.
LEMMA RecordOne ==
    ASSUME NEW f, IsTimes(f), NEW e \in Nat, e \notin DOMAIN f, NEW t \in 0 .. Oldest
    PROVE  /\ IsTimes(Record(f, e, t))
           /\ DOMAIN Record(f, e, t) = DOMAIN f \union {e}
           /\ Record(f, e, t)[e] = t
           /\ \A x \in DOMAIN f : Record(f, e, t)[x] = f[x]
<1>1. IsFiniteSet(DOMAIN f \union {e})  BY FS_AddElement DEF IsTimes
<1> QED  BY <1>1 DEF Record, IsTimes

\* The events that may count are a finite set.
Counted(f) == {e \in DOMAIN f : f[e] + MaxStall < Window}

LEMMA CountedIsFinite ==
    ASSUME NEW f, IsTimes(f)
    PROVE  IsFiniteSet(Counted(f)) /\ Cardinality(Counted(f)) \in Nat
  BY FS_Subset, FS_CardinalityType DEF IsTimes, Counted

\* Nothing recorded, nothing let through.
LEMMA EmptyLimiter ==
    ASSUME hits' = Nothing, asking' = Nothing, admitted' = Nothing
    PROVE  LimiterInv'
<1>1. IsFiniteSet({}) /\ Cardinality({}) = 0  BY FS_EmptySet
<1>2. DOMAIN Nothing = {} /\ Counted(Nothing) = {}  BY DEF Nothing, Counted
<1>3. IsTimes(Nothing)  BY <1>1, <1>2 DEF Nothing, IsTimes
<1>4. asking' \in [DOMAIN asking' -> 0 .. MaxStall]  BY DEF Nothing
<1> QED
  BY <1>1, <1>2, <1>3, <1>4, LimiterAssumption
  DEF LimiterInv, LimiterOK, HitsAreKept, LimitHolds, Counted, IsTimes

\* The same hits and events, and callers whose clocks are typed.
LEMMA SameHits ==
    ASSUME LimiterInv, UNCHANGED <<hits, admitted>>,
           DOMAIN asking' \subseteq Caller, asking' \in [DOMAIN asking' -> 0 .. MaxStall]
    PROVE  LimiterInv'
  BY DEF LimiterInv, LimiterOK, HitsAreKept, LimitHolds

\* A caller enters and leaves Allow.
LEMMA EnterAndLeave ==
    ASSUME LimiterOK, NEW c \in Caller
    PROVE  /\ ReadClock(c) => /\ DOMAIN asking' = DOMAIN asking \union {c}
                              /\ DOMAIN asking' \subseteq Caller
                              /\ asking' \in [DOMAIN asking' -> 0 .. MaxStall]
           /\ Leave(c) => /\ DOMAIN asking' = DOMAIN asking \ {c}
                          /\ DOMAIN asking' \subseteq Caller
                          /\ asking' \in [DOMAIN asking' -> 0 .. MaxStall]
  BY LimiterAssumption DEF LimiterOK, ReadClock, Record, Leave, Restrict

\* What filtering by any caller's clock leaves is what may count.
LEMMA FilterKeeps ==
    ASSUME LimiterInv, NEW n \in 0 .. MaxStall, hits' = Recent(hits, n), UNCHANGED admitted,
           DOMAIN asking' \subseteq Caller, asking' \in [DOMAIN asking' -> 0 .. MaxStall]
    PROVE  LimiterInv'
<1>1. IsTimes(hits) /\ IsTimes(admitted)  BY DEF LimiterInv, LimiterOK, IsTimes
<1>2. IsTimes(hits') /\ DOMAIN hits' = {e \in DOMAIN hits : hits[e] < Window + n}
      /\ \A e \in DOMAIN hits' : hits'[e] = hits[e]
  BY <1>1, RecentIsPart
<1>3. HitsAreKept'
  BY <1>1, <1>2, LimiterAssumption DEF LimiterInv, HitsAreKept, IsTimes, Oldest
<1>4. LimiterOK' /\ LimitHolds'
  BY <1>1, <1>2 DEF LimiterInv, LimiterOK, LimitHolds, IsTimes
<1> QED  BY <1>3, <1>4 DEF LimiterInv

\* An event is let through when fewer than max are recorded, and those are all
\* that may count.
LEMMA AllowKeeps ==
    ASSUME LimiterInv, NEW c \in Caller, Allow(c)
    PROVE  LimiterInv'
<1> DEFINE n == asking[c]
           kept == Recent(hits, n)
           e == NewEvent(kept)
<1>1. IsTimes(hits) /\ IsTimes(admitted) /\ n \in 0 .. MaxStall /\ n \in 0 .. Oldest /\ 0 \in 0 .. Oldest
  BY LimiterAssumption DEF LimiterInv, LimiterOK, IsTimes, Allow, Oldest
<1>2. /\ IsTimes(kept)
      /\ DOMAIN kept = {x \in DOMAIN hits : hits[x] < Window + n}
      /\ \A x \in DOMAIN kept : kept[x] = hits[x]
  BY <1>1, RecentIsPart
<1>3. e \in Nat /\ e \notin DOMAIN kept \union DOMAIN admitted
  BY <1>1, <1>2, NewEventIsNew
<1> HIDE DEF e, kept, n
<1>4. /\ hits' = IF MaxHits = 0 THEN hits ELSE Record(kept, e, n)
      /\ admitted' = Record(admitted, e, 0)
      /\ Leave(c) /\ Room(c)
  BY DEF Allow, e, kept, n
<1>5. /\ IsTimes(admitted') /\ DOMAIN admitted' = DOMAIN admitted \union {e}
      /\ admitted'[e] = 0 /\ \A x \in DOMAIN admitted : admitted'[x] = admitted[x]
  <2> DEFINE r == Record(admitted, e, 0)
  <2>1. IsTimes(r)  BY <1>1, <1>3, RecordOne
  <2>2. DOMAIN r = DOMAIN admitted \union {e}  BY <1>1, <1>3, RecordOne
  <2>3. r[e] = 0  BY DEF Record
  <2>4. \A x \in DOMAIN admitted : r[x] = admitted[x]  BY ZenonT(60), <1>1, <1>3, RecordOne
  <2> QED  BY <1>4, <2>1, <2>2, <2>3, <2>4
<1>6. LimiterOK'
  <2>1. IsTimes(hits')
    BY <1>1, <1>2, <1>3, <1>4, RecordOne
  <2> QED  BY <1>4, <1>5, <2>1, EnterAndLeave DEF LimiterInv, LimiterOK, IsTimes
<1>7. ASSUME MaxHits > 0
      PROVE  /\ DOMAIN hits' = DOMAIN kept \union {e} /\ hits'[e] = n
             /\ \A x \in DOMAIN kept : hits'[x] = hits[x]
             /\ Cardinality(DOMAIN kept) < MaxHits
             /\ Counted(admitted) \subseteq DOMAIN kept
  <2>1. hits' = Record(kept, e, n)  BY <1>4, <1>7, LimiterAssumption
  <2>2. Cardinality(DOMAIN kept) < MaxHits
    BY <1>4, <1>7, LimiterAssumption DEF Room, kept, n
  <2>3. Counted(admitted) \subseteq DOMAIN kept
    BY <1>1, <1>2, <1>7, LimiterAssumption DEF LimiterInv, HitsAreKept, Counted, IsTimes, Oldest
  <2>4. /\ DOMAIN hits' = DOMAIN kept \union {e} /\ hits'[e] = n
        /\ \A x \in DOMAIN kept : hits'[x] = kept[x]
    <3> DEFINE r == Record(kept, e, n)
    <3>1. DOMAIN r = DOMAIN kept \union {e}  BY <1>1, <1>2, <1>3, RecordOne
    <3>2. r[e] = n  BY ZenonT(60), <1>1, <1>2, <1>3, RecordOne
    <3>3. \A x \in DOMAIN kept : r[x] = kept[x]  BY ZenonT(60), <1>1, <1>2, <1>3, RecordOne
    <3> QED  BY <2>1, <3>1, <3>2, <3>3
  <2> QED  BY <1>2, <2>2, <2>3, <2>4
<1>8. HitsAreKept'
  <2> SUFFICES ASSUME MaxHits > 0, NEW x \in DOMAIN admitted', admitted'[x] + MaxStall < Window
               PROVE  x \in DOMAIN hits' /\ hits'[x] <= admitted'[x] + MaxStall
    BY DEF HitsAreKept
  <2>1. CASE x = e
    BY <1>1, <1>5, <1>7, <2>1, LimiterAssumption
  <2>2. CASE x # e
    <3>1. x \in DOMAIN admitted /\ admitted'[x] = admitted[x]  BY <1>5, <2>2
    <3>2. x \in DOMAIN kept  BY <1>7, <3>1 DEF Counted
    <3> QED  BY <1>7, <3>1, <3>2 DEF LimiterInv, HitsAreKept
  <2> QED  BY <2>1, <2>2
<1>9. LimitHolds'
  <2> SUFFICES ASSUME MaxHits > 0  PROVE Cardinality(Counted(admitted')) <= MaxHits
    BY DEF LimitHolds, Counted
  <2>1. Counted(admitted') \subseteq Counted(admitted) \union {e}
    BY <1>5 DEF Counted
  <2>2. IsFiniteSet(DOMAIN kept) /\ Cardinality(DOMAIN kept) \in Nat
    BY <1>2, FS_CardinalityType DEF IsTimes
  <2>3. IsFiniteSet(DOMAIN kept \union {e}) /\ Cardinality(DOMAIN kept \union {e}) = Cardinality(DOMAIN kept) + 1
    BY <1>3, <2>2, FS_AddElement
  <2>4. Counted(admitted') \subseteq DOMAIN kept \union {e}
    BY <1>7, <2>1
  <2>5. Cardinality(Counted(admitted')) <= Cardinality(DOMAIN kept) + 1
    BY <2>3, <2>4, FS_Subset
  <2>6. Cardinality(Counted(admitted')) \in Nat  BY <1>5, CountedIsFinite
  <2> QED  BY <1>7, <2>2, <2>5, <2>6, LimiterAssumption
<1> QED  BY <1>6, <1>8, <1>9 DEF LimiterInv

\* Time passes.
LEMMA TickKeeps ==
    ASSUME LimiterInv, LimiterTick
    PROVE  LimiterInv'
<1>1. IsTimes(hits) /\ IsTimes(admitted)  BY DEF LimiterInv, LimiterOK, IsTimes
<1>2. \A a \in 0 .. Oldest : Older(a) \in 0 .. Oldest /\ Older(a) <= a + 1
  BY LimiterAssumption DEF Older, Oldest
<1>3. IsTimes(hits') /\ DOMAIN hits' = DOMAIN hits /\ \A e \in DOMAIN hits : hits'[e] = Older(hits[e])
  BY <1>1, <1>2 DEF LimiterTick, IsTimes
<1>4. Fresh \subseteq DOMAIN admitted /\ IsFiniteSet(Fresh)
  BY <1>1, FS_Subset DEF Fresh, IsTimes
<1>5. IsTimes(admitted') /\ DOMAIN admitted' = Fresh /\ \A e \in Fresh : admitted'[e] = admitted[e] + 1
  BY <1>1, <1>4, LimiterAssumption DEF LimiterTick, IsTimes, Fresh, Oldest
<1>6. LimiterOK'
  <2>1. DOMAIN asking' \subseteq Caller /\ asking' \in [DOMAIN asking' -> 0 .. MaxStall]
    BY LimiterAssumption DEF LimiterInv, LimiterOK, LimiterTick
  <2> QED  BY <1>3, <1>5, <2>1 DEF LimiterOK, IsTimes
<1>7. HitsAreKept'
  <2> SUFFICES ASSUME MaxHits > 0, NEW e \in Fresh
               PROVE  e \in DOMAIN hits' /\ hits'[e] <= admitted'[e] + MaxStall
    BY <1>5 DEF HitsAreKept
  <2>1. admitted[e] \in Nat /\ admitted[e] + MaxStall < Window
    BY <1>1, <1>4, LimiterAssumption DEF Fresh, IsTimes, Oldest
  <2>2. e \in DOMAIN hits /\ hits[e] <= admitted[e] + MaxStall
    BY <1>4, <2>1 DEF LimiterInv, HitsAreKept
  <2>3. hits[e] \in 0 .. Oldest  BY <1>1, <2>2 DEF IsTimes
  <2> QED  BY <1>2, <1>3, <1>5, <2>1, <2>2, <2>3, LimiterAssumption DEF Oldest
<1>8. LimitHolds'
  <2> SUFFICES ASSUME MaxHits > 0  PROVE Cardinality(Counted(admitted')) <= MaxHits
    BY DEF LimitHolds, Counted
  <2>1. Counted(admitted') \subseteq Counted(admitted)
    BY <1>1, <1>4, <1>5, LimiterAssumption DEF Counted, Fresh, IsTimes, Oldest
  <2>2. Cardinality(Counted(admitted')) <= Cardinality(Counted(admitted))
    BY <1>1, <2>1, CountedIsFinite, FS_Subset
  <2>3. Cardinality(Counted(admitted)) <= MaxHits
    BY DEF LimiterInv, LimitHolds, Counted
  <2>4. Cardinality(Counted(admitted)) \in Nat /\ Cardinality(Counted(admitted')) \in Nat
    BY <1>1, <1>5, CountedIsFinite
  <2> QED  BY <2>2, <2>3, <2>4, LimiterAssumption
<1> QED  BY <1>6, <1>7, <1>8 DEF LimiterInv

-----------------------------------------------------------------------------
(* The run loops and the calls                                             *)

LEMMA InitInv == Init => SessionInv
<1> SUFFICES ASSUME Init  PROVE SessionInv
  OBVIOUS
<1>1. LimiterInv
  <2>1. IsFiniteSet({}) /\ Cardinality({}) = 0  BY FS_EmptySet
  <2>2. DOMAIN Nothing = {} /\ Counted(Nothing) = {}  BY DEF Nothing, Counted
  <2>3. IsTimes(Nothing)  BY <2>1, <2>2 DEF Nothing, IsTimes
  <2>4. asking \in [DOMAIN asking -> 0 .. MaxStall]  BY DEF Init, LimiterInit, Nothing
  <2> QED
    BY <2>1, <2>2, <2>3, <2>4, LimiterAssumption
    DEF Init, LimiterInit, LimiterInv, LimiterOK, HitsAreKept, LimitHolds, Counted, IsTimes
<1>2. LoopTypeOK
  BY SessionAssumption DEF Init, LimiterInit, Nothing, LoopTypeOK, Phase, Client
<1>3. RelayTypeOK /\ CallTypeOK
  BY SessionAssumption DEF Init, RelayTypeOK, CallTypeOK, Standing
<1>4. EndsForAReason /\ RejectedIsOver
  BY SessionAssumption DEF Init, EndsForAReason, RejectedIsOver
<1> QED
  BY <1>1, <1>2, <1>3, <1>4 DEF SessionInv, SessionIsSound, TypeOK, LimiterInv

\* The limiter's part of every step.
LEMMA LimiterKept ==
    ASSUME SessionInv, [Next]_vars
    PROVE  LimiterInv'
<1> USE DEF Client
<1>0. LimiterInv /\ LimiterOK  BY DEF SessionInv, SessionIsSound, TypeOK, LimiterInv
<1>1. ASSUME UNCHANGED limiterVars  PROVE LimiterInv'
  BY <1>0, <1>1 DEF limiterVars, LimiterInv, LimiterOK, HitsAreKept, LimitHolds
<1>2. ASSUME NEW c \in Client, Dial(c)  PROVE LimiterInv'
  <2>1. CASE relayUp
    BY <1>0, <1>2, <2>1, EnterAndLeave, SameHits DEF Dial
  <2>2. CASE ~relayUp
    BY <1>1, <1>2, <2>2 DEF Dial, limiterVars
  <2> QED  BY <2>1, <2>2
<1>3. ASSUME NEW c \in Client, Accepted(c)  PROVE LimiterInv'
  <2>1. CASE Allow(c)  BY <1>0, <2>1, AllowKeeps
  <2>2. CASE Refuse(c)
    <3>1. asking[c] \in 0 .. MaxStall  BY <1>0, <2>2 DEF LimiterOK, Refuse
    <3> QED  BY <1>0, <2>2, <3>1, EnterAndLeave, FilterKeeps DEF Refuse
  <2> QED  BY <1>3, <2>1, <2>2 DEF Accepted
<1>4. CASE RelayDown  BY <1>4, EmptyLimiter DEF RelayDown
<1>5. CASE Tick  BY <1>0, <1>5, TickKeeps DEF Tick
<1>6. CASE Collect
  <2>1. 0 \in 0 .. MaxStall  BY LimiterAssumption
  <2> QED  BY <1>0, <1>6, <2>1, FilterKeeps DEF Collect, GC, LimiterOK
<1>7. ASSUME NEW c \in Client,
             \/ Start(c) \/ Handshake(c) \/ HandleReady(c) \/ ReadFails(c) \/ Returned(c)
             \/ Elapsed(c) \/ Done(c) \/ Stop(c) \/ Break(c) \/ NewStanding(c)
      PROVE  LimiterInv'
  BY <1>1, <1>7
  DEF Start, Handshake, HandleReady, ReadFails, Returned, Elapsed, Done, Stop, Break, NewStanding
<1>8. ASSUME NEW q \in Call,
             \/ NewPending(q) \/ SendRequest(q) \/ Answered(q) \/ CancelPending(q) \/ TimeOut(q)
             \/ Answer(q) \/ RouteReply(q)
      PROVE  LimiterInv'
  BY <1>1, <1>8
  DEF NewPending, SendRequest, Answered, CancelPending, TimeOut, Answer, RouteReply
<1>9. CASE RelayBack  BY <1>1, <1>9 DEF RelayBack
<1>10. CASE UNCHANGED vars  BY <1>1, <1>10 DEF vars
<1> QED
  BY <1>2, <1>3, <1>4, <1>5, <1>6, <1>7, <1>8, <1>9, <1>10 DEF Next, Loop, ListPending

\* The loop's types, the clients in Allow, and the backoff.
LEMMA LoopTypes ==
    ASSUME SessionInv, [Next]_vars
    PROVE  LoopTypeOK'
<1> USE DEF Client
<1>0. LoopTypeOK /\ RelayTypeOK /\ LimiterOK  BY DEF SessionInv, SessionIsSound, TypeOK
<1> USE SessionAssumption DEF LoopTypeOK, RelayTypeOK, Phase, Reason, Standing, Goto, limiterVars,
        loopVars
<1>1. ASSUME NEW c \in Client, Start(c)  PROVE LoopTypeOK'
  BY <1>0, <1>1 DEF Start
<1>2. ASSUME NEW c \in Client, Dial(c)  PROVE LoopTypeOK'
  <2>1. CASE relayUp
    <3>1. DOMAIN asking' = DOMAIN asking \union {c}
      BY <1>0, <1>2, <2>1, EnterAndLeave DEF Dial
    <3> QED  BY <1>0, <1>2, <2>1, <3>1 DEF Dial
  <2>2. CASE ~relayUp  BY <1>0, <1>2, <2>2 DEF Dial
  <2> QED  BY <2>1, <2>2
<1>3. ASSUME NEW c \in Client, Accepted(c)  PROVE LoopTypeOK'
  <2>1. DOMAIN asking' = DOMAIN asking \ {c}
    BY <1>0, <1>3, EnterAndLeave DEF Accepted, Allow, Refuse
  <2> QED  BY <1>0, <1>3, <2>1 DEF Accepted
<1>4. ASSUME NEW c \in Client, Handshake(c)  PROVE LoopTypeOK'
  BY <1>0, <1>4 DEF Handshake
<1>5. ASSUME NEW c \in Client, HandleReady(c) \/ ReadFails(c)  PROVE LoopTypeOK'
  BY ZenonT(60), <1>0, <1>5 DEF HandleReady, ReadFails
<1>6. ASSUME NEW c \in Client, Returned(c)  PROVE LoopTypeOK'
  BY <1>0, <1>6 DEF Returned
<1>7. ASSUME NEW c \in Client, Elapsed(c)  PROVE LoopTypeOK'
  BY <1>0, <1>7 DEF Elapsed
<1>8. ASSUME NEW c \in Client, Done(c) \/ Stop(c)  PROVE LoopTypeOK'
  <2>1. CASE Done(c)  BY <1>0, <2>1 DEF Done
  <2>2. CASE Stop(c)
    <3>1. cancelled' \in [Client -> BOOLEAN]
      <4>1. cancelled \in [Client -> BOOLEAN]  BY <1>0
      <4> QED  BY <2>2, <4>1, Zenon DEF Stop
    <3> QED  BY <1>0, <2>2, <3>1 DEF Stop
  <2> QED  BY <1>8, <2>1, <2>2
<1>9. ASSUME NEW c \in Client, Break(c) \/ NewStanding(c)  PROVE LoopTypeOK'
  BY SMTT(40), <1>0, <1>9 DEF Break, NewStanding
<1>10. CASE RelayDown
  <2>1. DOMAIN asking' = {}  BY <1>10 DEF RelayDown, Nothing
  <2> QED  BY <1>0, <1>10, <2>1 DEF RelayDown
<1>11. CASE Tick
  <2>1. DOMAIN asking' = DOMAIN asking  BY <1>11 DEF Tick, LimiterTick
  <2> QED  BY <1>0, <1>11, <2>1 DEF Tick
<1>12. CASE RelayBack \/ Collect  BY <1>0, <1>12 DEF RelayBack, Collect, GC
<1>13. ASSUME NEW q \in Call,
              \/ NewPending(q) \/ SendRequest(q) \/ Answered(q) \/ CancelPending(q) \/ TimeOut(q)
              \/ Answer(q) \/ RouteReply(q)
       PROVE  LoopTypeOK'
  BY <1>0, <1>13
  DEF NewPending, SendRequest, Answered, CancelPending, TimeOut, Answer, RouteReply
<1>14. CASE UNCHANGED vars  BY <1>0, <1>14 DEF vars
<1> QED
  BY <1>1, <1>2, <1>3, <1>4, <1>5, <1>6, <1>7, <1>8, <1>9, <1>10, <1>11, <1>12, <1>13, <1>14
  DEF Next, Loop, ListPending

\* The relay's side, and what a step does to the history.
LEMMA RelayTypes ==
    ASSUME SessionInv, [Next]_vars
    PROVE  RelayTypeOK'
<1> USE DEF Client
<1>0. RelayTypeOK  BY DEF SessionInv, SessionIsSound, TypeOK
<1> USE DEF RelayTypeOK, relayVars, Event
<1>1. ASSUME NEW c \in Client, Handshake(c)  PROVE RelayTypeOK'
  BY <1>0, <1>1 DEF Handshake
<1>2. ASSUME NEW c \in Client, Stop(c) \/ Break(c) \/ NewStanding(c)  PROVE RelayTypeOK'
  BY <1>0, <1>2 DEF Stop, Break, NewStanding
<1>3. ASSUME NEW c \in Client,
             \/ Start(c) \/ Dial(c) \/ Accepted(c) \/ HandleReady(c) \/ ReadFails(c) \/ Returned(c)
             \/ Elapsed(c) \/ Done(c)
      PROVE  RelayTypeOK'
  BY <1>0, <1>3 DEF Start, Dial, Accepted, HandleReady, ReadFails, Returned, Elapsed, Done
<1>4. ASSUME NEW q \in Call,
             \/ NewPending(q) \/ SendRequest(q) \/ Answered(q) \/ CancelPending(q) \/ TimeOut(q)
             \/ Answer(q) \/ RouteReply(q)
      PROVE  RelayTypeOK'
  BY <1>0, <1>4
  DEF NewPending, SendRequest, Answered, CancelPending, TimeOut, Answer, RouteReply
<1>5. CASE RelayDown \/ RelayBack \/ Tick \/ Collect
  <2>1. CASE RelayDown
    <3>1. events' \in Nat /\ relayUp' = FALSE  BY <1>0, <2>1, SMT DEF RelayDown
    <3>2. UNCHANGED <<standing, rejected>>  BY <2>1 DEF RelayDown
    <3> QED  BY <1>0, <3>1, <3>2, Zenon
  <2>2. CASE RelayBack  BY <1>0, <2>2, Zenon DEF RelayBack
  <2>3. CASE Tick \/ Collect  BY <1>0, <2>3, Zenon DEF Tick, Collect
  <2> QED  BY <1>5, <2>1, <2>2, <2>3
<1>6. CASE UNCHANGED vars  BY <1>0, <1>6 DEF vars
<1> QED  BY <1>1, <1>2, <1>3, <1>4, <1>5, <1>6 DEF Next, Loop, ListPending

\* The calls of ListPending.
LEMMA CallTypes ==
    ASSUME SessionInv, [Next]_vars
    PROVE  CallTypeOK'
<1>0. CallTypeOK  BY DEF SessionInv, SessionIsSound, TypeOK
<1> USE SessionAssumption DEF CallTypeOK, callVars
<1>1. ASSUME NEW c \in Client, Returned(c)  PROVE CallTypeOK'
  BY <1>0, <1>1 DEF Returned, LoseConn
<1>2. ASSUME NEW c \in Client, Break(c)  PROVE CallTypeOK'
  BY <1>0, <1>2 DEF Break
<1>3. ASSUME NEW c \in Client,
             \/ Start(c) \/ Dial(c) \/ Accepted(c) \/ Handshake(c) \/ HandleReady(c) \/ ReadFails(c)
             \/ Elapsed(c) \/ Done(c) \/ Stop(c) \/ NewStanding(c)
      PROVE  CallTypeOK'
  BY <1>0, <1>3
  DEF Start, Dial, Accepted, Handshake, HandleReady, ReadFails, Elapsed, Done, Stop, NewStanding
<1>4. ASSUME NEW q \in Call, NewPending(q)  PROVE CallTypeOK'
  BY <1>0, <1>4 DEF NewPending
<1>5. ASSUME NEW q \in Call, SendRequest(q)  PROVE CallTypeOK'
  BY <1>0, <1>5 DEF SendRequest
<1>6. ASSUME NEW q \in Call, Answered(q) \/ TimeOut(q)  PROVE CallTypeOK'
  BY <1>0, <1>6 DEF Answered, TimeOut
<1>7. ASSUME NEW q \in Call, CancelPending(q)  PROVE CallTypeOK'
  BY <1>0, <1>7 DEF CancelPending
<1>8. ASSUME NEW q \in Call, Answer(q)  PROVE CallTypeOK'
  BY <1>0, <1>8 DEF Answer
<1>9. ASSUME NEW q \in Call, RouteReply(q)  PROVE CallTypeOK'
  <2>1. pending' \subseteq pending /\ wire' \subseteq wire /\ call' = call
    BY <1>9 DEF RouteReply
  <2>2. \/ channel' = channel
        \/ q \in pending /\ <<"reply", q>> \in wire /\ channel' = [channel EXCEPT ![q] = q]
    BY <1>9 DEF RouteReply
  <2>3. CASE channel' = channel  BY <1>0, <2>1, <2>3
  <2>4. CASE q \in pending /\ <<"reply", q>> \in wire /\ channel' = [channel EXCEPT ![q] = q]
    <3>1. call[q] \in {"await", "return"}  BY <1>0, <2>4
    <3> QED  BY <1>0, <2>1, <2>4, <3>1
  <2> QED  BY <2>2, <2>3, <2>4
<1>10. CASE RelayDown \/ RelayBack \/ Tick \/ Collect
  BY <1>0, <1>10 DEF RelayDown, RelayBack, Tick, Collect
<1>11. CASE UNCHANGED vars  BY <1>0, <1>11 DEF vars
<1> QED
  BY <1>1, <1>2, <1>3, <1>4, <1>5, <1>6, <1>7, <1>8, <1>9, <1>10, <1>11 DEF Next, Loop, ListPending

\* How loops end.
LEMMA EndsKept ==
    ASSUME SessionInv, [Next]_vars
    PROVE  EndsForAReason' /\ RejectedIsOver'
<1> USE DEF Client
<1>0. LoopTypeOK /\ RelayTypeOK /\ EndsForAReason /\ RejectedIsOver
  BY DEF SessionInv, SessionIsSound, TypeOK
<1> USE SessionAssumption DEF EndsForAReason, RejectedIsOver, LoopTypeOK, RelayTypeOK, Goto
<1> DEFINE Goal == EndsForAReason' /\ RejectedIsOver'
<1>1. ASSUME NEW c \in Client, Start(c) \/ Dial(c)  PROVE Goal
  BY <1>0, <1>1 DEF Start, Dial
<1>2. ASSUME NEW c \in Client, Accepted(c)  PROVE Goal
  BY <1>0, <1>2 DEF Accepted
<1>3. ASSUME NEW c \in Client, Handshake(c)  PROVE Goal
  BY <1>0, <1>3 DEF Handshake
<1>4. ASSUME NEW c \in Client, HandleReady(c) \/ ReadFails(c)  PROVE Goal
  BY <1>0, <1>4 DEF HandleReady, ReadFails
<1>5. ASSUME NEW c \in Client, Returned(c)  PROVE Goal
  BY <1>0, <1>5 DEF Returned
<1>6. ASSUME NEW c \in Client, Elapsed(c) \/ Done(c) \/ Stop(c)  PROVE Goal
  BY <1>0, <1>6 DEF Elapsed, Done, Stop
<1>7. ASSUME NEW c \in Client, Break(c) \/ NewStanding(c)  PROVE Goal
  BY <1>0, <1>7 DEF Break, NewStanding
<1>8. CASE RelayDown  BY <1>0, <1>8 DEF RelayDown
<1>9. CASE RelayBack \/ Tick \/ Collect
  BY <1>0, <1>9 DEF RelayBack, Tick, Collect, loopVars
<1>10. ASSUME NEW q \in Call,
              \/ NewPending(q) \/ SendRequest(q) \/ Answered(q) \/ CancelPending(q) \/ TimeOut(q)
              \/ Answer(q) \/ RouteReply(q)
       PROVE  Goal
  BY <1>0, <1>10
  DEF NewPending, SendRequest, Answered, CancelPending, TimeOut, Answer, RouteReply, loopVars
<1>11. CASE UNCHANGED vars  BY <1>0, <1>11 DEF vars, loopVars
<1> QED
  BY <1>1, <1>2, <1>3, <1>4, <1>5, <1>6, <1>7, <1>8, <1>9, <1>10, <1>11 DEF Next, Loop, ListPending

LEMMA SessionInvariant == Spec => []SessionInv
<1>1. SessionInv /\ [Next]_vars => SessionInv'
  BY LimiterKept, LoopTypes, RelayTypes, CallTypes, EndsKept
  DEF SessionInv, SessionIsSound, TypeOK, LimiterInv
<1> QED  BY InitInv, <1>1, PTL DEF Spec

\* connLimiter lets no more than max connections through in a window shorter by
\* the longest time a goroutine of Allow waits for the lock; the run loop ends
\* by itself only after a code that says so; the backoff and the table of
\* pending requests stay within bounds.
THEOREM SessionSound == Spec => []SessionIsSound
<1>1. SessionInv => SessionIsSound  BY DEF SessionInv
<1> QED  BY <1>1, SessionInvariant, PTL

\* After auth_failed, forbidden or client_too_old runLoop never dials again.
THEOREM NeverBack == Spec => RejectedStaysAway
<1>1. SessionInv /\ [Next]_vars => [\A c \in Client : c \in rejected => phase'[c] # "asking"]_vars
  <2> SUFFICES ASSUME SessionInv, [Next]_vars, NEW c \in Client, c \in rejected
               PROVE  phase'[c] # "asking"
    OBVIOUS
  <2>1. RejectedIsOver'  BY EndsKept
  <2>2. rejected \subseteq rejected'
    BY DEF Next, Loop, ListPending, Start, Dial, Accepted, Handshake, HandleReady, ReadFails, Returned,
           Elapsed, Done, Stop, Break, NewStanding, NewPending, SendRequest, Answered, CancelPending,
           TimeOut, Answer, RouteReply, RelayDown, RelayBack, Tick, Collect, vars
  <2> QED  BY <2>1, <2>2 DEF RejectedIsOver
<1> QED  BY <1>1, SessionInvariant, PTL DEF Spec, RejectedStaysAway
=============================================================================
