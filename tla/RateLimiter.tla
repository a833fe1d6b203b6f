---------------------------- MODULE RateLimiter ----------------------------
(***************************************************************************)
(* ratelimit.Limiter for one key: the relay's limiter of new connections,  *)
(* the key being the address several clients share.  Each caller is a      *)
(* goroutine in Allow: it reads the clock and only then takes the lock, so *)
(* that callers get in in another order than their clocks say.             *)
(*                                                                         *)
(* Time is discrete; a moment is kept as its age.  A moment older than a   *)
(* window and the longest delay is outside for every caller, and ages stop *)
(* there.  recent does not look at the order of the recorded times, so     *)
(* they are kept under a number of the event and not in a list.            *)
(***************************************************************************)
EXTENDS Integers, FiniteSets, Functions

CONSTANTS
    Caller,
    MaxHits,    \* max
    Window,     \* window
    MaxStall    \* the longest time between reading the clock and the lock

ASSUME LimiterAssumption == MaxHits \in Nat /\ Window \in Nat \ {0} /\ MaxStall \in Nat

VARIABLES
    hits,      \* hits[key]: for each event, the age of the time recorded for it
    asking,    \* ages of the clocks read by the callers now in Allow
    admitted   \* history: for each event, the age of the moment it was let through

limiterVars == <<hits, asking, admitted>>

Oldest == Window + MaxStall
Older(a) == IF a = Oldest THEN a ELSE a + 1

\* No times.
Nothing == [x \in {} |-> 0]

LimiterInit == hits = Nothing /\ asking = Nothing /\ admitted = Nothing

\* A bug: nothing ever leaves the window.
KeepAllMutant(times, now) == times

\* recent: the times after the cutoff of a clock read now ticks ago.
Recent(times, now) == Restrict(times, {e \in DOMAIN times : times[e] < Window + now})

\* times and one more.
Record(times, e, t) == [x \in DOMAIN times \union {e} |-> IF x = e THEN t ELSE times[x]]

\* A number no event of interest has.
NewEvent(kept) ==
    LET used == DOMAIN kept \union DOMAIN admitted
    IN  CHOOSE e \in 0 .. Cardinality(used) : e \notin used

\* Allow reads the clock, ...
ReadClock(c) == asking' = Record(asking, c, 0)

Room(c) == MaxHits = 0 \/ Cardinality(DOMAIN Recent(hits, asking[c])) < MaxHits

Leave(c) == asking' = Restrict(asking, DOMAIN asking \ {c})

\* A bug: the limit is compared after the event is counted in.
OneMoreMutant(c) ==
    /\ c \in DOMAIN asking
    /\ Cardinality(DOMAIN Recent(hits, asking[c])) <= MaxHits
    /\ LET kept == Recent(hits, asking[c])
           e == NewEvent(kept)
       IN  hits' = Record(kept, e, asking[c]) /\ admitted' = Record(admitted, e, 0)
    /\ Leave(c)

\* ... and under the lock lets the event through and records it, ...
Allow(c) ==
    /\ c \in DOMAIN asking /\ Room(c)
    /\ LET kept == Recent(hits, asking[c])
           e == NewEvent(kept)
       IN  /\ hits' = IF MaxHits = 0 THEN hits ELSE Record(kept, e, asking[c])
           /\ admitted' = Record(admitted, e, 0)
    /\ Leave(c)

\* ... or refuses it and records nothing.
Refuse(c) ==
    /\ c \in DOMAIN asking /\ ~Room(c)
    /\ hits' = Recent(hits, asking[c])
    /\ Leave(c) /\ UNCHANGED admitted

\* GC, from rateLimitGCLoop.
GC == hits' = Recent(hits, 0) /\ UNCHANGED <<asking, admitted>>

\* What was let through longer ago is of no interest to LimitHolds.
Fresh == {e \in DOMAIN admitted : admitted[e] + 1 + MaxStall < Window}

\* Time passes; no caller waits for the lock longer than MaxStall.
LimiterTick ==
    /\ \A c \in DOMAIN asking : asking[c] < MaxStall
    /\ hits' = [e \in DOMAIN hits |-> Older(hits[e])]
    /\ admitted' = [e \in Fresh |-> admitted[e] + 1]
    /\ asking' = [c \in DOMAIN asking |-> asking[c] + 1]

LimiterOK ==
    /\ \A times \in {hits, admitted} :
         /\ IsFiniteSet(DOMAIN times) /\ DOMAIN times \subseteq Nat
         /\ times \in [DOMAIN times -> 0 .. Oldest]
    /\ DOMAIN asking \subseteq Caller /\ asking \in [DOMAIN asking -> 0 .. MaxStall]

\* "Limiter allows up to Max events per key within a sliding time Window":
\* true of every window that is shorter by the longest delay of a caller.
LimitHolds ==
    MaxHits > 0 => Cardinality({e \in DOMAIN admitted : admitted[e] + MaxStall < Window}) <= MaxHits
=============================================================================
