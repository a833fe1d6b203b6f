--------------------------- MODULE DesktopProofs ---------------------------
(***************************************************************************)
(* TrayIsRight and ConversationIsRight hold of Desktop for any messages,   *)
(* capacity of the event buffer and number of clicks.                      *)
(*                                                                         *)
(* Both speak of rest, so the invariant says what is still to come: which  *)
(* steps the UI goroutine can have left, that the event of a message is    *)
(* under way once, that the last event of a message has the mark of the    *)
(* store once nobody is about to emit another, what a goroutine between    *)
(* its write and its emit still has to say, and for every place the two    *)
(* goroutines of the window can be in what window, flag and icon will be.  *)
(***************************************************************************)
EXTENDS Desktop, SequenceTheorems, TLAPS

-----------------------------------------------------------------------------
(* The invariant.                                                          *)

Kind == {"message", "state", "pending", "hide", "show", "reload", "click", "await", "doReload",
         "storeTrue", "storeFalse", "swapTrue", "swapFalse", "badge", "plain",
         "row", "check", "notify", "register", "clicked", "mark", "insert", "emit"}
Triple == Kind \X (Msg \union {None}) \X (Mark \union {None})

\* What the pump and the other goroutines give to the UI goroutine.
Func == {f \in Triple :
    /\ f[1] \in {"message", "state", "pending", "hide", "show", "reload", "click"}
    /\ f[1] \in {"message", "state"} => f[2] \in Msg /\ f[3] \in Mark
    /\ f[1] = "click" => f[2] \in In}

\* From place k on, u has the rest of a function that may notify about m, ...
NoteFrom(u, k, m) ==
    \/ Len(u) = k - 1
    \/ Len(u) = k + 1 /\ u[k] = <<"notify", m, None>> /\ u[k + 1] = <<"register", m, None>>

\* ... or of one that a click on a notification may have started.
ClickFrom(u, k) ==
    \/ Len(u) = k - 1
    \/ Len(u) = k /\ u[k][1] = "clicked" /\ u[k][2] \in In

\* The steps that can be left of a function of the UI goroutine, by the first.
Shape(u) == u # <<>> =>
    \/ Len(u) = 2 /\ u[1][1] = "storeTrue" /\ u[2][1] = "hide"
    \/ Len(u) = 1 /\ u[1][1] \in {"hide", "show", "await", "doReload"}
    \/ Len(u) = 1 /\ u[1][1] \in {"register", "clicked"} /\ u[1][2] \in In
    \/ Len(u) = 1 /\ u[1][1] = "mark" /\ u[1][2] \in Msg /\ u[1][3] \in Mark
    \/ Len(u) = 1 /\ u[1][1] \in {"row", "emit"} /\ u[1][2] \in Out /\ u[1][3] \in Mark
    \/ /\ Len(u) = 2 /\ u[1][1] = "insert" /\ u[1][2] \in Out /\ u[1][3] \in Mark
       /\ u[2] = <<"emit", u[1][2], u[1][3]>>
    \/ Len(u) = 2 /\ u[1][1] = "reload" /\ u[2][1] = "await"
    \/ /\ Len(u) >= 3 /\ u[1][1] = "storeFalse" /\ u[2][1] = "show" /\ u[3][1] = "swapFalse"
       /\ ClickFrom(u, 4)
    \/ Len(u) >= 2 /\ u[1][1] = "show" /\ u[2][1] = "swapFalse" /\ ClickFrom(u, 3)
    \/ u[1][1] \in {"swapFalse", "plain"} /\ ClickFrom(u, 2)
    \/ /\ Len(u) >= 2 /\ u[1][1] = "row" /\ u[1][2] \in In /\ u[1][3] \in Mark
       /\ u[2] = <<"check", u[1][2], None>> /\ NoteFrom(u, 3, u[1][2])
    \/ u[1][1] = "check" /\ u[1][2] \in In /\ NoteFrom(u, 2, u[1][2])
    \/ u[1][1] \in {"swapTrue", "badge"} /\ \E m \in In : NoteFrom(u, 2, m)
    \/ /\ Len(u) = 2 /\ u[1][1] = "notify" /\ u[1][2] \in In
       /\ u[2] = <<"register", u[1][2], None>>

\* The steps of minimizeToTrayLoop.
Hiding == <<Step("storeTrue"), Step("doHide")>>
AboutToHide == <<Step("doHide")>>
AboutToShow == <<Step("doShow"), Step("swapFalse")>>
Clearing == <<Step("swapFalse")>>
Plain == <<Step("plain")>>

QueuesOK ==
    /\ events \in Seq(Func) /\ uiq \in Seq(Func) /\ ui \in Seq(Triple) /\ Shape(ui)
    /\ watcher \in {<<>>, Hiding, AboutToHide, AboutToShow, Clearing, Plain}
    /\ signals \in Seq({"invoked", "closed"} \X In)
    /\ \A i \in 1 .. Len(events) : events[i][1] \in {"message", "state", "pending"}
    /\ recv \in Seq(Func) /\ Len(recv) \in {0, 1}
    /\ recv # <<>> => /\ recv[1][1] \in {"message", "state", "pending"}
                     /\ (recv[1][1] = "pending" => recv[1][2] = None)
    /\ overlap \in BOOLEAN /\ unseen \in BOOLEAN

\* A member of q is of one of these kinds (and about m).
Of(q, kinds) == \E i \in 1 .. Len(q) : q[i][1] \in kinds
About(q, kinds, m) == \E i \in 1 .. Len(q) : q[i][1] \in kinds /\ q[i][2] = m

Note == {"row", "check", "notify", "register"}

\* Each message has its event once.
Once(q) == \A i, j \in 1 .. Len(q) :
    q[i][1] = "message" /\ q[j][1] = "message" /\ q[i][2] = q[j][2] => i = j

EventOnce ==
    /\ Once(events) /\ Once(uiq)
    /\ \A m \in Msg :
        /\ About(events, {"message"}, m) => ~About(uiq, {"message"}, m)
        /\ About(events, {"message"}, m) \/ About(uiq, {"message"}, m) => ~About(ui, Note, m)
        /\ \/ About(events, {"message"}, m) \/ About(uiq, {"message"}, m) \/ About(ui, Note, m)
           => state[m] # None /\ m \notin notifyPendingIDs
        /\ About(ui, {"insert"}, m) => state[m] = None
        /\ m \in notifyPendingIDs => state[m] # None

\* A tracked notification can be clicked, or its end is to be heard of.
Tracked ==
    /\ \A m \in notifyPendingIDs :
        m \in bubbles \union early \/ \E i \in 1 .. Len(signals) : signals[i] = <<"closed", m>>
    /\ At("register") => The \in bubbles \union early

-----------------------------------------------------------------------------
(* The tray.                                                               *)

Window == {"hide", "show"}
TwoWindows(q) == \E i, j \in 1 .. Len(q) : i # j /\ q[i][1] \in Window /\ q[j][1] \in Window

\* Two functions on the window are under way, or will be.
TwoPending == \/ TwoWindows(uiq)
              \/ Of(uiq, Window) /\ watcher \in {Hiding, AboutToHide, AboutToShow}

\* The goroutines work on the tray state at once, or are bound to.
Doomed == overlap \/ (UIBusy /\ Entangled) \/ TwoPending

HidePending == Of(uiq, {"hide"}) \/ At("hide") \/ watcher = AboutToHide
ShowPending == Of(uiq, {"show"}) \/ At("show") \/ watcher = AboutToShow

HiddenOK == /\ HidePending => trayHidden
            /\ ShowPending => ~trayHidden
            /\ ~HidePending /\ ~ShowPending => (trayHidden <=> ~shown)

IconOK == IF At("badge") THEN hasUnread
          ELSE IF At("plain") \/ watcher = Plain THEN ~hasUnread
          ELSE hasUnread <=> icon = "badged"

UnseenOK == IF At("swapTrue") THEN unseen
            ELSE IF At("swapFalse") THEN ~unseen
            ELSE IF Of(uiq, {"show"}) \/ (At("show") /\ Len(ui) = 1)
                 THEN watcher # Clearing => ~hasUnread
            ELSE watcher # AboutToShow => (unseen <=> hasUnread)

WatcherOK == watcher \in {Clearing, Plain} => Of(uiq, {"show"})

TrayOK == Doomed \/ (HiddenOK /\ IconOK /\ UnseenOK /\ WatcherOK)

-----------------------------------------------------------------------------
(* The conversation.                                                       *)

\* The store has each message once.
LogOK ==
    /\ log \in Seq(Msg)
    /\ \A i, j \in 1 .. Len(log) : log[i] = log[j] => i = j
    /\ \A m \in Msg : state[m] # None <=> \E i \in 1 .. Len(log) : log[i] = m

\* The last member of q about m, of these kinds, has mark st.
Latest(q, kinds, m, st) == \E i \in 1 .. Len(q) :
    /\ q[i][1] \in kinds /\ q[i][2] = m /\ q[i][3] = st
    /\ \A j \in (i + 1) .. Len(q) : ~(q[j][1] \in kinds /\ q[j][2] = m)

\* The last label of m is the one with mark st.
Labelled(m, st) == \E i \in 1 .. Len(rows) :
    /\ rows[i] = <<m, st>>
    /\ \A j \in (i + 1) .. Len(rows) : rows[j][1] # m
HasLabel(m) == \E i \in 1 .. Len(rows) : rows[i][1] = m

RowsOK ==
    /\ rows \in Seq(Msg \X Mark) /\ open \in BOOLEAN
    /\ ~open => rows = <<>>
    /\ \A m \in Msg : HasLabel(m) =>
        /\ state[m] # None /\ \E st \in Mark : Labelled(m, st)
        /\ m \notin again => /\ ~About(events, {"message"}, m) /\ ~About(uiq, {"message"}, m)
                             /\ ~About(ui, {"row"}, m)

Event == {"message", "state"}
Label == {"row", "mark"}

\* A goroutine has stored m, or changed its mark, and is yet to emit that: SendText
\* on the UI goroutine, or the receive goroutine.
Sending(m) == ui # <<>> /\ ui[1][1] = "emit" /\ ui[1][2] = m
Coming(m, kinds) == recv # <<>> /\ recv[1][1] \in kinds /\ recv[1][2] = m
Unsent(m) == Sending(m) \/ Coming(m, {"message"})
Unsettled(m) == Sending(m) \/ Coming(m, Event)

\* The event of m has been emitted, or the history read shows m.
Elsewhere(m) ==
    \/ About(events, {"message"}, m) \/ About(uiq, {"message"}, m) \/ About(ui, Note, m)
    \/ m \in notifyPendingIDs
    \/ HasLabel(m) /\ m \notin again

UnsentOK == \A m \in Msg :
    /\ Unsent(m) => ~Elsewhere(m) /\ state[m] # None
    /\ Coming(m, {"message"}) => recv[1][3] = state[m] /\ ~Sending(m)
    /\ Sending(m) /\ m \notin astray =>
        ui[1][3] = state[m] \/ (Coming(m, {"state"}) /\ recv[1][3] = state[m])

\* The label of m has, or will get, the mark of the store.
MarkRight(m) ==
    /\ About(events, Event, m) => Latest(events, Event, m, state[m])
    /\ ~About(events, Event, m) /\ About(uiq, Event, m) => Latest(uiq, Event, m, state[m])
    /\ ~About(events, Event, m) /\ ~About(uiq, Event, m) =>
        /\ About(ui, Label, m) => Latest(ui, Label, m, state[m])
        /\ ~About(ui, Label, m) /\ open => Labelled(m, state[m])

\* m has a label, or will get one.
Present(m) == \/ HasLabel(m) \/ About(events, {"message"}, m) \/ About(uiq, {"message"}, m)
              \/ About(ui, {"row"}, m)

\* The last word on a message none of whose events went astray is the store's.
MarksOK == \A m \in Msg \ astray : state[m] # None =>
    /\ ~Unsettled(m) => MarkRight(m)
    /\ open => Present(m) \/ Unsent(m)

ConversationOK == LogOK /\ RowsOK /\ UnsentOK /\ MarksOK /\ NoDoubleRow

Base == TypeOK /\ QueuesOK /\ EventOnce
TrayInv == Base /\ Tracked /\ TrayOK
DesktopInv == TrayInv /\ ConversationOK


-----------------------------------------------------------------------------
(* Sequences.                                                              *)

\* The first member of a queue and the rest.
LEMMA TailFacts ==
    ASSUME NEW S, NEW q \in Seq(S), q # <<>>
    PROVE  /\ Head(q) = q[1] /\ q[1] \in S /\ Tail(q) \in Seq(S)
           /\ Len(q) \in Nat \ {0} /\ Len(Tail(q)) = Len(q) - 1
           /\ \A i \in 1 .. (Len(q) - 1) : Tail(q)[i] = q[i + 1]
<1>1. Tail(q) \in Seq(S) /\ Len(Tail(q)) = Len(q) - 1
      /\ \A i \in 1 .. Len(Tail(q)) : Tail(q)[i] = q[i + 1]
  BY HeadTailProperties
<1>2. Len(q) \in Nat \ {0}
  BY EmptySeq
<1>3. Head(q) = q[1] /\ q[1] \in S
  BY <1>2
<1> QED BY <1>1, <1>2, <1>3

LEMMA AppendFacts ==
    ASSUME NEW S, NEW q \in Seq(S), NEW e \in S
    PROVE  /\ Append(q, e) \in Seq(S) /\ Len(q) \in Nat /\ Len(Append(q, e)) = Len(q) + 1
           /\ \A i \in 1 .. Len(q) : Append(q, e)[i] = q[i]
           /\ Append(q, e)[Len(q) + 1] = e
  BY AppendProperties, LenProperties

\* A step in front of the others.
LEMMA FrontFacts ==
    ASSUME NEW S, NEW q \in Seq(S), NEW e \in S
    PROVE  /\ <<e>> \o q \in Seq(S) /\ <<e>> \o q # <<>> /\ Len(q) \in Nat
           /\ Len(<<e>> \o q) = Len(q) + 1 /\ (<<e>> \o q)[1] = e
           /\ \A i \in 1 .. Len(q) : (<<e>> \o q)[i + 1] = q[i]
<1>1. <<e>> \in Seq(S) /\ Len(<<e>>) = 1 /\ <<e>>[1] = e /\ Len(q) \in Nat
  OBVIOUS
<1>2. /\ <<e>> \o q \in Seq(S) /\ Len(<<e>> \o q) = Len(q) + 1
      /\ \A i \in 1 .. (Len(q) + 1) : (<<e>> \o q)[i] = IF i <= 1 THEN <<e>>[i] ELSE q[i - 1]
  BY <1>1, ConcatProperties
<1>3. <<e>> \o q # <<>>
  BY <1>1, <1>2
<1>4. ASSUME NEW i \in 1 .. Len(q) PROVE (<<e>> \o q)[i + 1] = q[i]
  <2>1. i + 1 \in 1 .. (Len(q) + 1) /\ ~(i + 1 <= 1) /\ (i + 1) - 1 = i
    BY <1>1
  <2> QED BY <1>2, <2>1
<1> QED BY <1>1, <1>2, <1>3, <1>4

LEMMA OfAppend ==
    ASSUME NEW S, NEW q \in Seq(S), NEW e \in S, NEW ks
    PROVE  Of(Append(q, e), ks) <=> Of(q, ks) \/ e[1] \in ks
<1> DEFINE r == Append(q, e)
           n == Len(q)
<1>1. n \in Nat /\ Len(r) = n + 1 /\ r[n + 1] = e /\ \A i \in 1 .. n : r[i] = q[i]
  BY AppendFacts
<1> HIDE DEF r, n
<1>2. Of(r, ks) <=> (\E i \in 1 .. n : q[i][1] \in ks) \/ e[1] \in ks
  BY <1>1 DEF Of
<1> QED BY <1>2 DEF Of, r, n

LEMMA AboutAppend ==
    ASSUME NEW S, NEW q \in Seq(S), NEW e \in S, NEW ks, NEW m
    PROVE  About(Append(q, e), ks, m) <=> About(q, ks, m) \/ (e[1] \in ks /\ e[2] = m)
<1> DEFINE r == Append(q, e)
           n == Len(q)
<1>1. n \in Nat /\ Len(r) = n + 1 /\ r[n + 1] = e /\ \A i \in 1 .. n : r[i] = q[i]
  BY AppendFacts
<1> HIDE DEF r, n
<1>2. About(r, ks, m) <=> (\E i \in 1 .. n : q[i][1] \in ks /\ q[i][2] = m) \/ (e[1] \in ks /\ e[2] = m)
  BY <1>1 DEF About
<1> QED BY <1>2 DEF About, r, n

\* The places of a queue whose head is taken.
LEMMA TailPlaces ==
    ASSUME NEW S, NEW q \in Seq(S), q # <<>>
    PROVE  /\ Len(q) \in Nat \ {0} /\ Len(Tail(q)) = Len(q) - 1 /\ 1 \in 1 .. Len(q)
           /\ \A i \in 1 .. (Len(q) - 1) : i + 1 \in 1 .. Len(q) /\ Tail(q)[i] = q[i + 1]
           /\ \A i \in 1 .. Len(q) : i = 1 \/ (i - 1 \in 1 .. (Len(q) - 1) /\ Tail(q)[i - 1] = q[i])
<1> DEFINE r == Tail(q)
           n == Len(q)
<1>1. n \in Nat \ {0} /\ Len(r) = n - 1 /\ \A i \in 1 .. (n - 1) : r[i] = q[i + 1]
  BY TailFacts
<1> HIDE DEF r, n
<1>2. ASSUME NEW i \in 1 .. n PROVE i = 1 \/ (i - 1 \in 1 .. (n - 1) /\ r[i - 1] = q[i])
  <2>1. i = 1 \/ (i - 1 \in 1 .. (n - 1) /\ (i - 1) + 1 = i)
    BY <1>1
  <2> QED BY <1>1, <2>1
<1>3. \A i \in 1 .. (n - 1) : i + 1 \in 1 .. n
  BY <1>1
<1>4. 1 \in 1 .. n
  BY <1>1
<1> QED BY <1>1, <1>2, <1>3, <1>4 DEF r, n

LEMMA OfTail ==
    ASSUME NEW S, NEW q \in Seq(S), q # <<>>, NEW ks
    PROVE  Of(q, ks) <=> Of(Tail(q), ks) \/ q[1][1] \in ks
<1> DEFINE r == Tail(q)
           n == Len(q)
<1>1. /\ n \in Nat \ {0} /\ Len(r) = n - 1 /\ 1 \in 1 .. n
      /\ \A i \in 1 .. (n - 1) : i + 1 \in 1 .. n /\ r[i] = q[i + 1]
      /\ \A i \in 1 .. n : i = 1 \/ (i - 1 \in 1 .. (n - 1) /\ r[i - 1] = q[i])
  BY TailPlaces
<1> HIDE DEF r, n
<1>2. Of(r, ks) <=> \E i \in 1 .. (n - 1) : r[i][1] \in ks
  BY <1>1 DEF Of
<1>3. Of(q, ks) <=> \E i \in 1 .. n : q[i][1] \in ks
  BY DEF Of, n
<1> QED BY <1>1, <1>2, <1>3 DEF r

LEMMA AboutTail ==
    ASSUME NEW S, NEW q \in Seq(S), q # <<>>, NEW ks, NEW m
    PROVE  About(q, ks, m) <=> About(Tail(q), ks, m) \/ (q[1][1] \in ks /\ q[1][2] = m)
<1> DEFINE r == Tail(q)
           n == Len(q)
<1>1. /\ n \in Nat \ {0} /\ Len(r) = n - 1 /\ 1 \in 1 .. n
      /\ \A i \in 1 .. (n - 1) : i + 1 \in 1 .. n /\ r[i] = q[i + 1]
      /\ \A i \in 1 .. n : i = 1 \/ (i - 1 \in 1 .. (n - 1) /\ r[i - 1] = q[i])
  BY TailPlaces
<1> HIDE DEF r, n
<1>2. About(r, ks, m) <=> \E i \in 1 .. (n - 1) : r[i][1] \in ks /\ r[i][2] = m
  BY <1>1 DEF About
<1>3. About(q, ks, m) <=> \E i \in 1 .. n : q[i][1] \in ks /\ q[i][2] = m
  BY DEF About, n
<1> QED BY <1>1, <1>2, <1>3 DEF r

LEMMA OnceAppend ==
    ASSUME NEW S, NEW q \in Seq(S), NEW e \in S, Once(q),
           e[1] = "message" => ~About(q, {"message"}, e[2])
    PROVE  Once(Append(q, e))
<1> DEFINE r == Append(q, e)
           n == Len(q)
<1>1. n \in Nat /\ Len(r) = n + 1 /\ r[n + 1] = e /\ \A i \in 1 .. n : r[i] = q[i]
  BY AppendFacts
<1>2. \A i, j \in 1 .. n : q[i][1] = "message" /\ q[j][1] = "message" /\ q[i][2] = q[j][2] => i = j
  BY DEF Once
<1>3. e[1] = "message" => \A i \in 1 .. n : q[i][1] = "message" => q[i][2] # e[2]
  BY DEF About
<1> HIDE DEF r, n
<1>4. ASSUME NEW i \in 1 .. (n + 1), NEW j \in 1 .. (n + 1),
             r[i][1] = "message", r[j][1] = "message", r[i][2] = r[j][2]
      PROVE  i = j
  <2>1. i \in 1 .. n \/ i = n + 1
    BY <1>1
  <2>2. j \in 1 .. n \/ j = n + 1
    BY <1>1
  <2> QED BY <1>1, <1>2, <1>3, <1>4, <2>1, <2>2
<1>5. Once(r)
  BY <1>1, <1>4 DEF Once
<1> QED BY <1>5 DEF r

LEMMA OnceTail ==
    ASSUME NEW S, NEW q \in Seq(S), q # <<>>, Once(q)
    PROVE  /\ Once(Tail(q))
           /\ q[1][1] = "message" => ~About(Tail(q), {"message"}, q[1][2])
<1> DEFINE r == Tail(q)
           n == Len(q)
<1>1. /\ n \in Nat \ {0} /\ Len(r) = n - 1 /\ 1 \in 1 .. n
      /\ \A i \in 1 .. (n - 1) : i + 1 \in 1 .. n /\ r[i] = q[i + 1]
  BY TailPlaces
<1>2. \A i, j \in 1 .. n : q[i][1] = "message" /\ q[j][1] = "message" /\ q[i][2] = q[j][2] => i = j
  BY DEF Once
<1> HIDE DEF r, n
<1>3. ASSUME NEW i \in 1 .. (n - 1), NEW j \in 1 .. (n - 1),
             r[i][1] = "message", r[j][1] = "message", r[i][2] = r[j][2]
      PROVE  i = j
  <2>1. i + 1 \in 1 .. n /\ j + 1 \in 1 .. n /\ r[i] = q[i + 1] /\ r[j] = q[j + 1]
    BY <1>1
  <2>2. i + 1 = j + 1
    BY <1>2, <1>3, <2>1
  <2> QED BY <2>2
<1>4. ASSUME NEW i \in 1 .. (n - 1), q[1][1] = "message", r[i][1] = "message", r[i][2] = q[1][2]
      PROVE  FALSE
  <2>1. i + 1 = 1
    BY <1>1, <1>2, <1>4
  <2> QED BY <2>1
<1>5. Once(r) /\ (q[1][1] = "message" => ~About(r, {"message"}, q[1][2]))
  BY <1>1, <1>3, <1>4 DEF Once, About
<1> QED BY <1>5 DEF r

LEMMA TwoAppend ==
    ASSUME NEW S, NEW q \in Seq(S), NEW e \in S
    PROVE  TwoWindows(Append(q, e)) <=> TwoWindows(q) \/ (Of(q, Window) /\ e[1] \in Window)
<1> DEFINE r == Append(q, e)
           n == Len(q)
<1>1. n \in Nat /\ Len(r) = n + 1 /\ r[n + 1] = e /\ \A i \in 1 .. n : r[i] = q[i]
  BY AppendFacts
<1>2. /\ Of(q, Window) <=> \E i \in 1 .. n : q[i][1] \in Window
      /\ TwoWindows(q) <=> \E i, j \in 1 .. n : i # j /\ q[i][1] \in Window /\ q[j][1] \in Window
  BY DEF Of, TwoWindows
<1> HIDE DEF r, n
<1>3. ASSUME TwoWindows(r) PROVE TwoWindows(q) \/ (Of(q, Window) /\ e[1] \in Window)
  <2>1. PICK i, j \in 1 .. (n + 1) : i # j /\ r[i][1] \in Window /\ r[j][1] \in Window
    BY <1>1, <1>3 DEF TwoWindows
  <2>2. i \in 1 .. n \/ i = n + 1
    BY <1>1
  <2>3. j \in 1 .. n \/ j = n + 1
    BY <1>1
  <2> QED BY <1>1, <1>2, <2>1, <2>2, <2>3
<1>4. ASSUME TwoWindows(q) PROVE TwoWindows(r)
  <2>1. PICK i, j \in 1 .. n : i # j /\ q[i][1] \in Window /\ q[j][1] \in Window
    BY <1>2, <1>4
  <2>2. i \in 1 .. Len(r) /\ j \in 1 .. Len(r)
    BY <1>1
  <2> QED BY <1>1, <2>1, <2>2 DEF TwoWindows
<1>5. ASSUME Of(q, Window), e[1] \in Window PROVE TwoWindows(r)
  <2>1. PICK i \in 1 .. n : q[i][1] \in Window
    BY <1>2, <1>5
  <2>2. i \in 1 .. Len(r) /\ n + 1 \in 1 .. Len(r) /\ i # n + 1
    BY <1>1
  <2> QED BY <1>1, <1>5, <2>1, <2>2 DEF TwoWindows
<1> QED BY <1>3, <1>4, <1>5 DEF r

LEMMA TwoTail ==
    ASSUME NEW S, NEW q \in Seq(S), q # <<>>
    PROVE  TwoWindows(q) <=> TwoWindows(Tail(q)) \/ (Of(Tail(q), Window) /\ q[1][1] \in Window)
<1> DEFINE r == Tail(q)
           n == Len(q)
<1>1. /\ n \in Nat \ {0} /\ Len(r) = n - 1 /\ 1 \in 1 .. n
      /\ \A i \in 1 .. (n - 1) : i + 1 \in 1 .. n /\ r[i] = q[i + 1]
      /\ \A i \in 1 .. n : i = 1 \/ (i - 1 \in 1 .. (n - 1) /\ r[i - 1] = q[i])
  BY TailPlaces
<1>2. TwoWindows(q) <=> \E i, j \in 1 .. n : i # j /\ q[i][1] \in Window /\ q[j][1] \in Window
  BY DEF TwoWindows
<1> HIDE DEF r, n
<1>3. ASSUME TwoWindows(q) PROVE TwoWindows(r) \/ (Of(r, Window) /\ q[1][1] \in Window)
  <2>1. PICK i, j \in 1 .. n : i # j /\ q[i][1] \in Window /\ q[j][1] \in Window
    BY <1>2, <1>3
  <2>2. i = 1 \/ (i - 1 \in 1 .. (n - 1) /\ r[i - 1][1] \in Window)
    BY <1>1, <2>1
  <2>3. j = 1 \/ (j - 1 \in 1 .. (n - 1) /\ r[j - 1][1] \in Window)
    BY <1>1, <2>1
  <2>4. i - 1 # j - 1
    BY <2>1
  <2> QED BY <1>1, <2>1, <2>2, <2>3, <2>4 DEF TwoWindows, Of
<1>4. ASSUME TwoWindows(r) PROVE TwoWindows(q)
  <2>1. PICK i, j \in 1 .. (n - 1) : i # j /\ r[i][1] \in Window /\ r[j][1] \in Window
    BY <1>1, <1>4 DEF TwoWindows
  <2>2. i + 1 # j + 1
    BY <2>1
  <2> QED BY <1>1, <1>2, <2>1, <2>2
<1>5. ASSUME Of(r, Window), q[1][1] \in Window PROVE TwoWindows(q)
  <2>1. PICK i \in 1 .. (n - 1) : r[i][1] \in Window
    BY <1>1, <1>5 DEF Of
  <2>2. i + 1 # 1
    BY <2>1
  <2> QED BY <1>1, <1>2, <1>5, <2>1, <2>2
<1> QED BY <1>3, <1>4, <1>5 DEF r

\* The last word of a queue,
LEMMA LatestAppend ==
    ASSUME NEW S, NEW q \in Seq(S), NEW e \in S, NEW ks, NEW m, NEW st
    PROVE  /\ e[1] \in ks /\ e[2] = m /\ e[3] = st => Latest(Append(q, e), ks, m, st)
           /\ ~(e[1] \in ks /\ e[2] = m) /\ Latest(q, ks, m, st) => Latest(Append(q, e), ks, m, st)
<1> DEFINE r == Append(q, e)
           n == Len(q)
<1>1. n \in Nat /\ Len(r) = n + 1 /\ r[n + 1] = e /\ \A i \in 1 .. n : r[i] = q[i]
  BY AppendFacts
<1>2. Latest(q, ks, m, st) <=> \E i \in 1 .. n :
        /\ q[i][1] \in ks /\ q[i][2] = m /\ q[i][3] = st
        /\ \A j \in (i + 1) .. n : ~(q[j][1] \in ks /\ q[j][2] = m)
  BY DEF Latest
<1> HIDE DEF r, n
<1>3. ASSUME e[1] \in ks, e[2] = m, e[3] = st PROVE Latest(r, ks, m, st)
  <2>1. n + 1 \in 1 .. Len(r) /\ \A j \in ((n + 1) + 1) .. Len(r) : FALSE
    BY <1>1
  <2> QED BY <1>1, <1>3, <2>1 DEF Latest
<1>4. ASSUME ~(e[1] \in ks /\ e[2] = m), Latest(q, ks, m, st) PROVE Latest(r, ks, m, st)
  <2>1. PICK i \in 1 .. n : /\ q[i][1] \in ks /\ q[i][2] = m /\ q[i][3] = st
                            /\ \A j \in (i + 1) .. n : ~(q[j][1] \in ks /\ q[j][2] = m)
    BY <1>2, <1>4
  <2>2. i \in 1 .. Len(r) /\ r[i] = q[i]
    BY <1>1
  <2>3. ASSUME NEW j \in (i + 1) .. Len(r) PROVE ~(r[j][1] \in ks /\ r[j][2] = m)
    <3>1. j = n + 1 \/ (j \in (i + 1) .. n /\ j \in 1 .. n)
      BY <1>1
    <3> QED BY <1>1, <1>4, <2>1, <3>1
  <2> QED BY <2>1, <2>2, <2>3 DEF Latest
<1> QED BY <1>3, <1>4 DEF r

LEMMA LatestTail ==
    ASSUME NEW S, NEW q \in Seq(S), q # <<>>, NEW ks, NEW m, NEW st, Latest(q, ks, m, st)
    PROVE  IF About(Tail(q), ks, m) THEN Latest(Tail(q), ks, m, st)
           ELSE q[1][1] \in ks /\ q[1][2] = m /\ q[1][3] = st
<1> DEFINE r == Tail(q)
           n == Len(q)
<1>1. /\ n \in Nat \ {0} /\ Len(r) = n - 1 /\ 1 \in 1 .. n
      /\ \A i \in 1 .. (n - 1) : i + 1 \in 1 .. n /\ r[i] = q[i + 1]
      /\ \A i \in 1 .. n : i = 1 \/ (i - 1 \in 1 .. (n - 1) /\ r[i - 1] = q[i])
  BY TailPlaces
<1>2. PICK i \in 1 .. n : /\ q[i][1] \in ks /\ q[i][2] = m /\ q[i][3] = st
                          /\ \A j \in (i + 1) .. n : ~(q[j][1] \in ks /\ q[j][2] = m)
  BY DEF Latest
<1> HIDE DEF r, n
<1>3. CASE i = 1
  <2>1. ASSUME NEW j \in 1 .. (n - 1) PROVE ~(r[j][1] \in ks /\ r[j][2] = m)
    <3>1. j + 1 \in (i + 1) .. n
      BY <1>1, <1>3
    <3> QED BY <1>1, <1>2, <3>1
  <2>2. ~About(r, ks, m)
    BY <1>1, <2>1 DEF About
  <2> QED BY <1>2, <1>3, <2>2 DEF r
<1>4. CASE i # 1
  <2>1. i - 1 \in 1 .. (n - 1) /\ r[i - 1] = q[i]
    BY <1>1, <1>4
  <2>2. ASSUME NEW j \in ((i - 1) + 1) .. (n - 1) PROVE ~(r[j][1] \in ks /\ r[j][2] = m)
    <3>1. j + 1 \in (i + 1) .. n /\ j \in 1 .. (n - 1)
      BY <1>1
    <3> QED BY <1>1, <1>2, <3>1
  <2>3. Latest(r, ks, m, st) /\ About(r, ks, m)
    BY <1>1, <1>2, <2>1, <2>2 DEF Latest, About
  <2> QED BY <2>3 DEF r
<1> QED BY <1>3, <1>4

-----------------------------------------------------------------------------
(* The steps of a function.                                                *)

\* The members of Tail(u), u at most four steps long.
LEMMA Behind ==
    ASSUME NEW u \in Seq(Triple), u # <<>>
    PROVE  /\ Head(u) = u[1] /\ u[1] \in Triple /\ Tail(u) \in Seq(Triple)
           /\ Len(u) \in Nat \ {0} /\ Len(Tail(u)) = Len(u) - 1 /\ (Tail(u) = <<>> <=> Len(u) = 1)
           /\ Len(u) >= 2 => Tail(u)[1] = u[2]
           /\ Len(u) >= 3 => Tail(u)[2] = u[3]
           /\ Len(u) >= 4 => Tail(u)[3] = u[4]
<1>1. /\ Head(u) = u[1] /\ u[1] \in Triple /\ Tail(u) \in Seq(Triple)
      /\ Len(u) \in Nat \ {0} /\ Len(Tail(u)) = Len(u) - 1
      /\ \A i \in 1 .. (Len(u) - 1) : Tail(u)[i] = u[i + 1]
  BY TailFacts
<1>2. Tail(u) = <<>> <=> Len(Tail(u)) = 0
  BY <1>1, EmptySeq
<1>3. Tail(u) = <<>> <=> Len(u) = 1
  BY <1>1, <1>2
<1>4. /\ Len(u) >= 2 => 1 \in 1 .. (Len(u) - 1)
      /\ Len(u) >= 3 => 2 \in 1 .. (Len(u) - 1)
      /\ Len(u) >= 4 => 3 \in 1 .. (Len(u) - 1)
  BY <1>1
<1>5. 1 + 1 = 2 /\ 2 + 1 = 3 /\ 3 + 1 = 4
  OBVIOUS
<1> QED BY <1>1, <1>3, <1>4, <1>5

\* What follows a step, by its kind.
LEMMA ShapeTail ==
    ASSUME NEW u \in Seq(Triple), Shape(u), u # <<>>
    PROVE  /\ Shape(Tail(u))
           /\ u[1][1] \in {"hide", "await", "doReload", "mark", "emit", "register", "clicked"}
                => Tail(u) = <<>>
           /\ u[1][1] = "insert" => Tail(u) # <<>> /\ Tail(u)[1] = <<"emit", u[1][2], u[1][3]>>
           /\ u[1][1] # "insert" /\ Tail(u) # <<>> => Tail(u)[1][1] # "emit"
           /\ u[1][1] = "reload" => Len(u) = 2 /\ Tail(u) # <<>> /\ Tail(u)[1][1] = "await"
           /\ u[1][1] = "storeTrue" => Tail(u) # <<>> /\ Tail(u)[1][1] = "hide"
           /\ u[1][1] = "storeFalse" => Len(u) >= 3 /\ Tail(u) # <<>> /\ Tail(u)[1][1] = "show"
           /\ u[1][1] = "show" /\ Len(u) # 1 => Tail(u) # <<>> /\ Tail(u)[1][1] = "swapFalse"
           /\ u[1][1] \in {"swapFalse", "plain"} /\ Tail(u) # <<>> => Tail(u)[1][1] = "clicked"
           /\ u[1][1] \in {"swapTrue", "badge", "check"} /\ Tail(u) # <<>> => Tail(u)[1][1] = "notify"
           /\ u[1][1] = "row" /\ Tail(u) # <<>> => Tail(u)[1][1] = "check"
           /\ u[1][1] = "notify" => Tail(u) # <<>> /\ Tail(u)[1] = <<"register", u[1][2], None>>
<1> DEFINE r == Tail(u)
           n == Len(u)
<1>1. /\ n \in Nat \ {0} /\ Len(r) = n - 1 /\ (r = <<>> <=> n = 1)
      /\ n >= 2 => r[1] = u[2]
      /\ n >= 3 => r[2] = u[3]
      /\ n >= 4 => r[3] = u[4]
  BY Behind
<1>2. \A m : <<"check", m, None>>[1] = "check" /\ <<"check", m, None>>[2] = m
  OBVIOUS
<1>3. \A m : /\ <<"notify", m, None>>[1] = "notify" /\ <<"notify", m, None>>[2] = m
             /\ <<"register", m, None>>[1] = "register" /\ <<"register", m, None>>[2] = m
  OBVIOUS
<1> HIDE DEF r, n
<1> USE DEF n
<1>4. CASE u[1][1] \in {"hide", "await", "doReload", "mark", "emit", "register", "clicked"}
  BY <1>1, <1>4 DEF Shape, r
<1>5. CASE u[1][1] \in {"reload", "storeTrue"}
  BY <1>1, <1>5 DEF Shape, r
<1>6. CASE u[1][1] = "storeFalse"
  BY <1>1, <1>6 DEF Shape, ClickFrom, r
<1>7. CASE u[1][1] = "show"
  BY <1>1, <1>7 DEF Shape, ClickFrom, r
<1>8. CASE u[1][1] \in {"swapFalse", "plain"}
  BY <1>1, <1>8 DEF Shape, ClickFrom, r
<1>9. CASE u[1][1] \in {"swapTrue", "badge"}
  BY <1>1, <1>3, <1>9 DEF Shape, NoteFrom, r
<1>10. CASE u[1][1] = "check"
  BY <1>1, <1>3, <1>10 DEF Shape, NoteFrom, r
<1>11. CASE u[1][1] = "row"
  BY <1>1, <1>2, <1>11 DEF Shape, NoteFrom, r
<1>12. CASE u[1][1] = "notify"
  BY <1>1, <1>3, <1>12 DEF Shape, r
<1>13. CASE u[1][1] = "insert"
  <2>1. n = 2 /\ u[1][2] \in Out /\ u[1][3] \in Mark /\ u[2] = <<"emit", u[1][2], u[1][3]>>
    BY <1>13 DEF Shape
  <2>2. r # <<>> /\ Len(r) = 1 /\ r[1] = <<"emit", u[1][2], u[1][3]>>
    BY <1>1, <2>1
  <2>3. r[1][1] = "emit" /\ r[1][2] \in Out /\ r[1][3] \in Mark
    BY <2>1, <2>2
  <2>4. Shape(r)
    BY <2>2, <2>3 DEF Shape
  <2> QED BY <1>13, <2>2, <2>4 DEF r
<1>14. u[1][1] \in {"hide", "await", "doReload", "mark", "emit", "register", "clicked", "reload",
          "insert", "storeTrue", "storeFalse", "show", "swapFalse", "plain", "swapTrue", "badge", "check",
          "row", "notify"}
  BY DEF Shape
<1> QED BY <1>4, <1>5, <1>6, <1>7, <1>8, <1>9, <1>10, <1>11, <1>12, <1>13, <1>14

LEMMA Four ==
    ASSUME NEW n \in 0 .. 4
    PROVE  /\ \A i \in 1 .. n : i = 1 \/ (i = 2 /\ n >= 2) \/ (i = 3 /\ n >= 3) \/ (i = 4 /\ n >= 4)
           /\ \A i \in 2 .. n : (i = 2 /\ n >= 2) \/ (i = 3 /\ n >= 3) \/ (i = 4 /\ n >= 4)
  OBVIOUS

\* Only the first step makes or changes a label, stores a message, or is the
\* first of those on the tray.
LEMMA FirstOnly ==
    ASSUME NEW u \in Seq(Triple), Shape(u)
    PROVE  /\ \A i \in 2 .. Len(u) : u[i][1] \notin {"row", "mark", "insert"}
           /\ \A i \in 1 .. Len(u) : u[i][1] \in TraySteps => u[1][1] \in TraySteps
           /\ Of(u, TraySteps) <=> u # <<>> /\ u[1][1] \in TraySteps
<1> DEFINE n == Len(u)
<1>1. n \in Nat /\ (u = <<>> <=> n = 0)
  BY EmptySeq
<1>2. \A m : /\ <<"check", m, None>>[1] = "check" /\ <<"notify", m, None>>[1] = "notify"
             /\ <<"register", m, None>>[1] = "register"
  OBVIOUS
<1>2a. \A m, st : <<"emit", m, st>>[1] = "emit"
  OBVIOUS
<1>3. n \in 0 .. 4
  <2>1. CASE u = <<>>
    BY <1>1, <2>1
  <2>2. CASE u # <<>>
    <3>1. n \in {1, 2} \/ ClickFrom(u, 4) \/ ClickFrom(u, 3) \/ ClickFrom(u, 2)
            \/ (\E m : NoteFrom(u, 2, m)) \/ (\E m : NoteFrom(u, 3, m))
      BY <2>2 DEF Shape
    <3>2. ClickFrom(u, 4) \/ ClickFrom(u, 3) \/ ClickFrom(u, 2) => n \in {1, 2, 3, 4}
      BY DEF ClickFrom
    <3>3. \A m : NoteFrom(u, 2, m) \/ NoteFrom(u, 3, m) => n \in {1, 2, 3, 4}
      BY DEF NoteFrom
    <3>4. n \in {1, 2, 3, 4}
      BY <3>1, <3>2, <3>3
    <3> QED BY <3>4
  <2> QED BY <2>1, <2>2
<1>4. /\ n >= 2 => u[2][1] \notin {"row", "mark", "insert"}
      /\ n >= 3 => u[3][1] \notin {"row", "mark", "insert"}
      /\ n >= 4 => u[4][1] \notin {"row", "mark", "insert"}
  BY <1>1, <1>2, <1>2a DEF Shape, ClickFrom, NoteFrom
<1>5. u # <<>> /\ u[1][1] \notin TraySteps =>
      /\ n >= 2 => u[2][1] \notin TraySteps
      /\ n >= 3 => u[3][1] \notin TraySteps
      /\ n >= 4 => u[4][1] \notin TraySteps
  BY <1>1, <1>2, <1>2a DEF Shape, ClickFrom, NoteFrom, TraySteps
<1>6. \A i \in 1 .. n : i = 1 \/ (i = 2 /\ n >= 2) \/ (i = 3 /\ n >= 3) \/ (i = 4 /\ n >= 4)
  BY <1>3, Four
<1>7. \A i \in 2 .. n : (i = 2 /\ n >= 2) \/ (i = 3 /\ n >= 3) \/ (i = 4 /\ n >= 4)
  BY <1>3, Four
<1>8. u # <<>> => 1 \in 1 .. n
  BY <1>1
<1>9. \A i \in 1 .. n : u[i][1] \in TraySteps => u # <<>> /\ u[1][1] \in TraySteps
  <2> SUFFICES ASSUME NEW i \in 1 .. n, u[i][1] \in TraySteps PROVE u # <<>> /\ u[1][1] \in TraySteps
    OBVIOUS
  <2>1. u # <<>>
    BY <1>1
  <2> QED BY <1>5, <1>6, <2>1
<1>10. \A i \in 2 .. n : u[i][1] \notin {"row", "mark", "insert"}
  BY <1>4, <1>7
<1> QED BY <1>8, <1>9, <1>10 DEF Of

\* SendText emits last, after it has inserted the row.
LEMMA EmitFirst ==
    ASSUME NEW u \in Seq(Triple), Shape(u), u # <<>>, u[1][1] # "insert"
    PROVE  \A i \in 2 .. Len(u) : u[i][1] # "emit"
<1> DEFINE n == Len(u)
<1>1. n \in Nat \ {0}
  BY EmptySeq
<1>2. \A m : /\ <<"check", m, None>>[1] = "check" /\ <<"notify", m, None>>[1] = "notify"
             /\ <<"register", m, None>>[1] = "register"
  OBVIOUS
<1>3. n \in 0 .. 4
  <2>1. n \in {1, 2} \/ ClickFrom(u, 4) \/ ClickFrom(u, 3) \/ ClickFrom(u, 2)
          \/ (\E m : NoteFrom(u, 2, m)) \/ (\E m : NoteFrom(u, 3, m))
    BY DEF Shape
  <2>2. ClickFrom(u, 4) \/ ClickFrom(u, 3) \/ ClickFrom(u, 2) => n \in {1, 2, 3, 4}
    BY DEF ClickFrom
  <2>3. \A m : NoteFrom(u, 2, m) \/ NoteFrom(u, 3, m) => n \in {1, 2, 3, 4}
    BY DEF NoteFrom
  <2>4. n \in {1, 2, 3, 4}
    BY <2>1, <2>2, <2>3
  <2> QED BY <2>4
<1>4. /\ n >= 2 => u[2][1] # "emit"
      /\ n >= 3 => u[3][1] # "emit"
      /\ n >= 4 => u[4][1] # "emit"
  BY <1>1, <1>2 DEF Shape, ClickFrom, NoteFrom
<1>5. \A i \in 2 .. n : (i = 2 /\ n >= 2) \/ (i = 3 /\ n >= 3) \/ (i = 4 /\ n >= 4)
  BY <1>3, Four
<1> QED BY <1>4, <1>5

LEMMA HeadOnly ==
    ASSUME NEW u \in Seq(Triple), Shape(u), NEW ks \in SUBSET {"row", "mark", "insert"}, NEW m
    PROVE  About(u, ks, m) <=> u # <<>> /\ u[1][1] \in ks /\ u[1][2] = m
<1>1. Len(u) \in Nat /\ (u = <<>> <=> Len(u) = 0)
  BY EmptySeq
<1>2. \A i \in 1 .. Len(u) : i = 1 \/ i \in 2 .. Len(u)
  BY <1>1
<1>3. u # <<>> => 1 \in 1 .. Len(u)
  BY <1>1
<1>4. \A i \in 1 .. Len(u) : u[i][1] \in ks => i = 1 /\ u # <<>>
  <2>1. \A i \in 2 .. Len(u) : u[i][1] \notin ks
    BY FirstOnly
  <2> QED BY <1>1, <1>2, <2>1
<1> QED BY <1>3, <1>4 DEF About

LEMMA StepIsTriple ==
    ASSUME NEW k \in Kind
    PROVE  Step(k) \in Triple /\ Step(k)[1] = k /\ Step(k)[2] = None /\ Step(k)[3] = None
  BY DEF Step, Triple

\* Two steps that come in front of the rest: markUnread after the check of the
\* flag, and the icon after Swap.
LEMMA ShapeFront ==
    ASSUME NEW u \in Seq(Triple), Shape(u), u # <<>>, NEW k \in {"swapTrue", "badge", "plain"},
           k = "plain" <=> u[1][1] = "swapFalse", k = "badge" <=> u[1][1] = "swapTrue",
           k = "swapTrue" <=> u[1][1] = "check"
    PROVE  LET v == <<Step(k)>> \o Tail(u) IN
           /\ v \in Seq(Triple) /\ Shape(v) /\ v # <<>> /\ v[1][1] = k /\ v[1][2] = None
           /\ Len(v) = Len(u) /\ \A ks, m : m # None => (About(v, ks, m) <=> About(Tail(u), ks, m))
<1> DEFINE r == Tail(u)
           e == Step(k)
           v == <<e>> \o r
           n == Len(u)
<1>1. /\ r \in Seq(Triple) /\ n \in Nat \ {0} /\ Len(r) = n - 1
      /\ n >= 2 => r[1] = u[2]
      /\ n >= 3 => r[2] = u[3]
  BY Behind
<1>2. e \in Triple /\ e[1] = k /\ e[2] = None
  BY StepIsTriple DEF Kind
<1>3. /\ v \in Seq(Triple) /\ v # <<>> /\ Len(v) = n /\ v[1] = e
      /\ \A i \in 1 .. (n - 1) : v[i + 1] = r[i]
  <2> HIDE DEF e, r, n
  <2>1. Len(r) = n - 1 /\ Len(v) = Len(r) + 1 /\ v[1] = e /\ v \in Seq(Triple) /\ v # <<>>
        /\ \A i \in 1 .. Len(r) : v[i + 1] = r[i]
    BY <1>1, <1>2, FrontFacts
  <2> QED BY <1>1, <2>1
<1>4. /\ n >= 2 => v[2] = u[2]
      /\ n >= 3 => v[3] = u[3]
  <2> HIDE DEF v, r, n
  <2>1. /\ n >= 2 => 1 \in 1 .. (n - 1)
        /\ n >= 3 => 2 \in 1 .. (n - 1)
    BY <1>1
  <2>2. 1 + 1 = 2 /\ 2 + 1 = 3
    OBVIOUS
  <2> QED BY <1>1, <1>3, <2>1, <2>2
<1>5. Shape(v)
  <2> HIDE DEF v, e, r
  <2>1. CASE k = "plain"
    <3>1. ClickFrom(u, 2)
      BY <2>1 DEF Shape
    <3>2. ClickFrom(v, 2)
      BY <1>1, <1>3, <1>4, <3>1 DEF ClickFrom
    <3> QED BY <1>2, <1>3, <2>1, <3>2 DEF Shape
  <2>2. CASE k # "plain"
    <3>1. \E m \in In : NoteFrom(u, 2, m)
      BY <2>2 DEF Shape
    <3>2. \E m \in In : NoteFrom(v, 2, m)
      BY <1>1, <1>3, <1>4, <3>1 DEF NoteFrom
    <3> QED BY <1>2, <1>3, <2>2, <3>2 DEF Shape
  <2> QED BY <2>1, <2>2
<1>6. ASSUME NEW ks, NEW m, m # None PROVE About(v, ks, m) <=> About(r, ks, m)
  <2> HIDE DEF v, e, r, n
  <2>1. ASSUME NEW i \in 1 .. n, v[i][2] = m PROVE i - 1 \in 1 .. (n - 1) /\ v[i] = r[i - 1]
    <3>1. i # 1
      BY <1>2, <1>3, <1>6, <2>1
    <3>2. i - 1 \in 1 .. (n - 1) /\ (i - 1) + 1 = i
      BY <1>1, <3>1
    <3> QED BY <1>3, <3>2
  <2>2. \A i \in 1 .. (n - 1) : i + 1 \in 1 .. n
    BY <1>1
  <2>3. /\ About(v, ks, m) <=> \E i \in 1 .. n : v[i][1] \in ks /\ v[i][2] = m
        /\ About(r, ks, m) <=> \E i \in 1 .. (n - 1) : r[i][1] \in ks /\ r[i][2] = m
    BY <1>1, <1>3 DEF About
  <2> QED BY <1>3, <2>1, <2>2, <2>3
<1> QED BY <1>2, <1>3, <1>5, <1>6

\* The steps b of the UI goroutine for a function f of its queue.
Handles(f, b) ==
    /\ b \in Seq(Triple) /\ Shape(b)
    /\ f[1] = "hide" => b # <<>> /\ b[1][1] = "hide"
    /\ f[1] = "show" => b # <<>> /\ b[1][1] = "show" /\ Len(b) = 1
    /\ f[1] = "click" => b # <<>> /\ b[1][1] = "storeFalse"
    /\ f[1] = "reload" => b # <<>> /\ b[1][1] = "reload"
    /\ f[1] = "message" => b # <<>> /\ b[1] = <<"row", f[2], f[3]>>
    /\ f[1] = "state" => b # <<>> /\ b[1] = <<"mark", f[2], f[3]>>
    /\ f[1] = "pending" /\ b # <<>> => b[1][1] = "doReload"
    /\ \A m \in Msg : About(b, Note, m) => f[1] = "message" /\ f[2] = m

LEMMA Concat ==
    ASSUME NEW S, NEW p \in Seq(S), NEW q \in Seq(S)
    PROVE  /\ p \o q \in Seq(S) /\ Len(p \o q) = Len(p) + Len(q) /\ Len(p) \in Nat /\ Len(q) \in Nat
           /\ \A i \in 1 .. Len(p) : (p \o q)[i] = p[i]
           /\ \A i \in 1 .. Len(q) : (p \o q)[Len(p) + i] = q[i]
<1>1. /\ p \o q \in Seq(S) /\ Len(p \o q) = Len(p) + Len(q) /\ Len(p) \in Nat /\ Len(q) \in Nat
      /\ \A i \in 1 .. (Len(p) + Len(q)) : (p \o q)[i] = IF i <= Len(p) THEN p[i] ELSE q[i - Len(p)]
  BY ConcatProperties
<1>2. ASSUME NEW i \in 1 .. Len(p) PROVE (p \o q)[i] = p[i]
  <2>1. i \in 1 .. (Len(p) + Len(q)) /\ i <= Len(p)
    BY <1>1
  <2> QED BY <1>1, <2>1
<1>3. ASSUME NEW i \in 1 .. Len(q) PROVE (p \o q)[Len(p) + i] = q[i]
  <2>1. Len(p) + i \in 1 .. (Len(p) + Len(q)) /\ ~(Len(p) + i <= Len(p)) /\ (Len(p) + i) - Len(p) = i
    BY <1>1
  <2> QED BY <1>1, <2>1
<1> QED BY <1>1, <1>2, <1>3

LEMMA ConcatTwo ==
    ASSUME NEW S, NEW q \in Seq(S), NEW d \in S, NEW c \in S
    PROVE  /\ q \o <<d, c>> \in Seq(S) /\ Len(q \o <<d, c>>) = Len(q) + 2 /\ Len(q) \in Nat
           /\ \A i \in 1 .. Len(q) : (q \o <<d, c>>)[i] = q[i]
           /\ (q \o <<d, c>>)[Len(q) + 2] = c
<1> DEFINE two == <<d, c>>
<1>1. two \in Seq(S) /\ Len(two) = 2 /\ two[2] = c
  OBVIOUS
<1> HIDE DEF two
<1>2. /\ q \o two \in Seq(S) /\ Len(q \o two) = Len(q) + Len(two) /\ Len(q) \in Nat
      /\ \A i \in 1 .. Len(q) : (q \o two)[i] = q[i]
      /\ \A i \in 1 .. Len(two) : (q \o two)[Len(q) + i] = two[i]
  BY <1>1, Concat
<1>3. 2 \in 1 .. Len(two)
  BY <1>1
<1> QED BY <1>1, <1>2, <1>3 DEF two

LEMMA BodyFacts ==
    ASSUME NEW f \in Func, NEW notify \in BOOLEAN
    PROVE  Handles(f, Body(f, notify))
<1> DEFINE b == Body(f, notify)
<1> SUFFICES Handles(f, b)
  OBVIOUS
<1>1. ASSUME NEW k \in Kind PROVE Step(k) \in Triple /\ Step(k)[1] = k /\ Step(k)[2] = None
  BY StepIsTriple
<1>2. ASSUME NEW m \in Msg, NEW k \in Kind
      PROVE  /\ <<k, m, None>> \in Triple /\ <<k, m, None>>[1] = k /\ <<k, m, None>>[2] = m
  BY DEF Triple
<1>3. CASE f[1] = "hide"
  <2>1. b = <<Step("hide")>>
    BY <1>3 DEF Body, Hide
  <2>2. b \in Seq(Triple) /\ Len(b) = 1 /\ b[1] = Step("hide") /\ b # <<>>
    BY <1>1, <2>1 DEF Kind
  <2>3. b[1][1] = "hide"
    BY <1>1, <2>2 DEF Kind
  <2> HIDE DEF b
  <2> QED BY <1>3, <2>2, <2>3 DEF Handles, Shape, About, Note
<1>4. CASE f[1] = "show"
  <2>1. b = <<Step("show")>>
    BY <1>4 DEF Body, Show
  <2>2. b \in Seq(Triple) /\ Len(b) = 1 /\ b[1] = Step("show") /\ b # <<>>
    BY <1>1, <2>1 DEF Kind
  <2>3. b[1][1] = "show"
    BY <1>1, <2>2 DEF Kind
  <2> HIDE DEF b
  <2> QED BY <1>4, <2>2, <2>3 DEF Handles, Shape, About, Note
<1>5. CASE f[1] = "click"
  <2>1. b = TrayShow \o << <<"clicked", f[2], None>> >>
    BY <1>5 DEF Body
  <2>2. f[2] \in In /\ f[2] \in Msg
    BY <1>5 DEF Func, Msg
  <2>3. /\ TrayShow \in Seq(Triple) /\ Len(TrayShow) = 3
        /\ TrayShow[1] = Step("storeFalse") /\ TrayShow[2] = Step("show")
        /\ TrayShow[3] = Step("swapFalse")
    BY <1>1 DEF Kind, TrayShow
  <2>4. <<"clicked", f[2], None>> \in Triple
    BY <1>2, <2>2 DEF Kind
  <2> DEFINE c == <<"clicked", f[2], None>>
  <2>5. <<c>> \in Seq(Triple) /\ Len(<<c>>) = 1 /\ <<c>>[1] = c /\ c[1] = "clicked" /\ c[2] = f[2]
    BY <2>4
  <2> HIDE DEF b, c
  <2>6. /\ b \in Seq(Triple) /\ Len(b) = 3 + 1
        /\ \A i \in 1 .. 3 : b[i] = TrayShow[i]
        /\ \A i \in 1 .. 1 : b[3 + i] = <<c>>[i]
    <3>1. b = TrayShow \o <<c>>
      BY <2>1 DEF c
    <3> DEFINE r == TrayShow \o <<c>>
    <3> HIDE DEF TrayShow
    <3>2. TrayShow \in Seq(Triple) /\ <<c>> \in Seq(Triple)
      BY <2>3, <2>5
    <3>3. /\ r \in Seq(Triple) /\ Len(r) = Len(TrayShow) + Len(<<c>>)
          /\ \A i \in 1 .. Len(TrayShow) : r[i] = TrayShow[i]
          /\ \A i \in 1 .. Len(<<c>>) : r[Len(TrayShow) + i] = <<c>>[i]
      BY <3>2, Concat
    <3>4. b = r
      BY <3>1
    <3> HIDE DEF r
    <3> QED BY <2>3, <2>5, <3>3, <3>4
  <2>7. b[1] = Step("storeFalse") /\ b[2] = Step("show") /\ b[3] = Step("swapFalse") /\ b[4] = c
    BY <2>3, <2>5, <2>6
  <2>8. b[1][1] = "storeFalse" /\ b[2][1] = "show" /\ b[3][1] = "swapFalse" /\ b[4][1] = "clicked"
        /\ b[4][2] \in In
    BY <1>1, <2>2, <2>5, <2>7 DEF Kind
  <2>9. b # <<>>
    <3>1. Len(b) = 4
      BY <2>6
    <3> QED BY <3>1
  <2>10. Shape(b)
    BY <2>6, <2>8 DEF Shape, ClickFrom
  <2>11. ~Of(b, Note)
    BY <2>6, <2>8 DEF Of, Note
  <2> QED BY <1>5, <2>6, <2>8, <2>9, <2>10, <2>11 DEF Handles, Of, About
<1>6. CASE f[1] = "reload"
  <2>1. b = <<Step("reload"), Step("await")>>
    BY <1>6 DEF Body, Reload
  <2>2. b \in Seq(Triple) /\ Len(b) = 2 /\ b[1] = Step("reload") /\ b[2] = Step("await") /\ b # <<>>
    BY <1>1, <2>1 DEF Kind
  <2>3. b[1][1] = "reload" /\ b[2][1] = "await"
    BY <1>1, <2>2 DEF Kind
  <2> HIDE DEF b
  <2>4. Shape(b) /\ ~Of(b, Note)
    BY <2>2, <2>3 DEF Shape, Of, Note
  <2> QED BY <1>6, <2>2, <2>3, <2>4 DEF Handles, Of, About
<1>7. CASE f[1] = "state"
  <2>1. b = << <<"mark", f[2], f[3]>> >>
    BY <1>7 DEF Body
  <2>2. f[2] \in Msg /\ f[3] \in Mark
    BY <1>7 DEF Func
  <2>3. <<"mark", f[2], f[3]>> \in Triple
    BY <2>2 DEF Triple, Kind
  <2>4. b \in Seq(Triple) /\ Len(b) = 1 /\ b[1] = <<"mark", f[2], f[3]>> /\ b # <<>>
    BY <2>1, <2>3
  <2>5. b[1][1] = "mark" /\ b[1][2] \in Msg /\ b[1][3] \in Mark
    BY <2>2, <2>4
  <2> HIDE DEF b
  <2>6. Shape(b) /\ ~Of(b, Note)
    BY <2>4, <2>5 DEF Shape, Of, Note
  <2> QED BY <1>7, <2>4, <2>6 DEF Handles, Of, About
<1>8. CASE f[1] = "pending"
  <2>1. b = <<Step("doReload")>> \/ b = <<>>
    BY <1>8 DEF Body
  <2>2. CASE b = <<>>
    <3>1. b \in Seq(Triple) /\ Len(b) = 0
      BY <2>2
    <3> HIDE DEF b
    <3> QED BY <1>8, <2>2, <3>1 DEF Handles, Shape, About
  <2>3. CASE b = <<Step("doReload")>>
    <3>1. b \in Seq(Triple) /\ Len(b) = 1 /\ b[1] = Step("doReload") /\ b # <<>>
      BY <1>1, <2>3 DEF Kind
    <3>2. b[1][1] = "doReload"
      BY <1>1, <3>1 DEF Kind
    <3> HIDE DEF b
    <3> QED BY <1>8, <3>1, <3>2 DEF Handles, Shape, About, Note
  <2> QED BY <2>1, <2>2, <2>3
<1>9. CASE f[1] = "message"
  <2>1. b = OnMessage(f[2], f[3], notify)
    BY <1>9 DEF Body
  <2>2. f[2] \in Msg /\ f[3] \in Mark
    BY <1>9 DEF Func
  <2> DEFINE m == f[2]
             r == <<"row", m, f[3]>>
             c == <<"check", m, None>>
             n == <<"notify", m, None>>
             g == <<"register", m, None>>
  <2>3. /\ r \in Triple /\ c \in Triple /\ n \in Triple /\ g \in Triple
        /\ r[1] = "row" /\ r[2] = m /\ r[3] = f[3] /\ c[1] = "check" /\ c[2] = m
        /\ n[1] = "notify" /\ n[2] = m /\ g[1] = "register" /\ g[2] = m
    BY <2>2 DEF Triple, Kind
  <2>4. <<>> \in Seq(Triple) /\ Len(<<>>) = 0
    OBVIOUS
  <2>5. /\ b \in Seq(Triple) /\ b # <<>> /\ b[1] = r
        /\ \/ Len(b) = 1 /\ m \in Out
           \/ Len(b) = 2 /\ b[2] = c /\ m \in In
           \/ Len(b) = 4 /\ b[2] = c /\ b[3] = n /\ b[4] = g /\ m \in In
    <3> DEFINE x == IF m \in In THEN <<c>> ELSE <<>>
               z == IF m \in In /\ notify THEN <<n, g>> ELSE <<>>
               y == <<r>> \o x
    <3>1. b = y \o z
      BY <2>1 DEF OnMessage
    <3> HIDE DEF b, r, c, n, g
    <3>2. /\ <<r>> \in Seq(Triple) /\ Len(<<r>>) = 1 /\ <<r>>[1] = r
          /\ <<c>> \in Seq(Triple) /\ Len(<<c>>) = 1 /\ <<c>>[1] = c
          /\ <<n, g>> \in Seq(Triple) /\ Len(<<n, g>>) = 2 /\ <<n, g>>[1] = n /\ <<n, g>>[2] = g
      BY <2>3
    <3>3. /\ x \in Seq(Triple) /\ z \in Seq(Triple)
          /\ m \in In => Len(x) = 1 /\ x[1] = c
          /\ m \notin In => Len(x) = 0 /\ Len(z) = 0
          /\ m \in In => Len(z) = 0 \/ (Len(z) = 2 /\ z[1] = n /\ z[2] = g)
      BY <2>4, <3>2
    <3> HIDE DEF x, z
    <3>4. y \in Seq(Triple) /\ Len(y) = 1 + Len(x) /\ y[1] = r /\ (m \in In => y[2] = c)
      <4>1. /\ y \in Seq(Triple) /\ Len(y) = 1 + Len(x)
            /\ \A i \in 1 .. 1 : y[i] = <<r>>[i]
            /\ \A i \in 1 .. Len(x) : y[1 + i] = x[i]
        BY <3>2, <3>3, Concat
      <4> HIDE DEF y
      <4> QED BY <3>2, <3>3, <4>1
    <3> HIDE DEF y
    <3>5. /\ b \in Seq(Triple) /\ Len(b) = Len(y) + Len(z)
          /\ \A i \in 1 .. Len(y) : b[i] = y[i]
          /\ \A i \in 1 .. Len(z) : b[Len(y) + i] = z[i]
      <4>1. y \in Seq(Triple) /\ z \in Seq(Triple)
        BY <3>3, <3>4
      <4> QED BY <3>1, <4>1, Concat
    <3>6. CASE m \in In
      <4>1. Len(y) = 2 /\ b[1] = r /\ b[2] = c
        <5>1. Len(x) = 1 /\ Len(y) = 1 + Len(x)
          BY <3>3, <3>4, <3>6
        <5>2. Len(y) = 2 /\ 1 \in 1 .. 2 /\ 2 \in 1 .. 2
          BY <5>1
        <5> QED BY <3>4, <3>5, <3>6, <5>2
      <4>2. Len(z) = 2 => b[3] = n /\ b[4] = g
        BY <3>3, <3>5, <3>6, <4>1
      <4>3. b # <<>>
        BY <3>3, <3>5, <3>6, <4>1
      <4> QED BY <3>3, <3>5, <3>6, <4>1, <4>2, <4>3
    <3>7. CASE m \notin In
      <4>1. Len(y) = 1 /\ Len(b) = 1 /\ b[1] = r /\ m \in Out
        BY <2>2, <3>3, <3>4, <3>5, <3>7 DEF Msg
      <4>2. b # <<>>
        BY <4>1, EmptySeq
      <4> QED BY <3>5, <4>1, <4>2
    <3> QED BY <3>6, <3>7
  <2>6. \A i \in 1 .. Len(b) : b[i][2] = m
    <3> HIDE DEF b, r, c, n, g, m
    <3> QED BY <2>3, <2>5
  <2>7. Shape(b)
    <3>1. b[1][1] = "row" /\ b[1][2] = m /\ b[1][3] \in Mark
      BY <2>2, <2>3, <2>5
    <3> HIDE DEF b
    <3>2. CASE Len(b) = 1
      BY <2>5, <3>1, <3>2 DEF Shape
    <3>3. CASE Len(b) = 2
      BY <2>5, <3>1, <3>3 DEF Shape, NoteFrom
    <3>4. CASE Len(b) = 4
      BY <2>5, <3>1, <3>4 DEF Shape, NoteFrom
    <3> QED BY <2>5, <3>2, <3>3, <3>4
  <2> HIDE DEF b
  <2> QED BY <1>9, <2>5, <2>6, <2>7 DEF Handles, About, r
<1>10. f[1] \in {"message", "state", "pending", "hide", "show", "reload", "click"}
  BY DEF Func
<1> QED BY <1>3, <1>4, <1>5, <1>6, <1>7, <1>8, <1>9, <1>10

-----------------------------------------------------------------------------
(* The conversation, step by step.                                         *)

ConvVars == <<log, state, rows, open, again, astray, recv>>

\* SendText is not about to emit.
NoEmit(u) == u # <<>> => u[1][1] # "emit"

\* What is yet to be emitted stays so.
LEMMA SameSending ==
    ASSUME UNCHANGED recv, ui' = ui \/ (NoEmit(ui) /\ NoEmit(ui')), NEW m
    PROVE  /\ Sending(m)' <=> Sending(m)
           /\ \A ks : Coming(m, ks)' <=> Coming(m, ks)
           /\ Unsent(m)' <=> Unsent(m)
           /\ Unsettled(m)' <=> Unsettled(m)
<1>1. Sending(m)' <=> Sending(m)
  BY DEF Sending, NoEmit
<1>2. \A ks : Coming(m, ks)' <=> Coming(m, ks)
  BY DEF Coming
<1> QED BY <1>1, <1>2 DEF Unsent, Unsettled

LEMMA FrameUnsent ==
    ASSUME UnsentOK, UNCHANGED <<recv, state>>, ui' = ui \/ NoEmit(ui'),
           \A m \in Msg : Sending(m)' /\ m \in astray => m \in astray',
           \A m \in Msg : Unsent(m) /\ ~Elsewhere(m) => ~Elsewhere(m)'
    PROVE  UnsentOK'
<1>1. SUFFICES ASSUME NEW m \in Msg
               PROVE  /\ Unsent(m)' => ~Elsewhere(m)' /\ state'[m] # None
                      /\ Coming(m, {"message"})' => recv'[1][3] = state'[m] /\ ~Sending(m)'
                      /\ Sending(m)' /\ m \notin astray' =>
                          ui'[1][3] = state'[m] \/ (Coming(m, {"state"})' /\ recv'[1][3] = state'[m])
  BY DEF UnsentOK
<1>2. Sending(m)' => Sending(m) /\ ui' = ui
  BY DEF Sending, NoEmit
<1>3. (Coming(m, {"message"})' <=> Coming(m, {"message"})) /\ (Coming(m, {"state"})' <=> Coming(m, {"state"}))
  BY DEF Coming
<1>4. Unsent(m)' => Unsent(m)
  BY <1>2, <1>3 DEF Unsent
<1>5. /\ Unsent(m) => ~Elsewhere(m) /\ state[m] # None
      /\ Coming(m, {"message"}) => recv[1][3] = state[m] /\ ~Sending(m)
      /\ Sending(m) /\ m \notin astray =>
          ui[1][3] = state[m] \/ (Coming(m, {"state"}) /\ recv[1][3] = state[m])
  BY DEF UnsentOK
<1> QED BY <1>2, <1>3, <1>4, <1>5

\* Nothing is emitted or shown.
LEMMA KeepUnsent ==
    ASSUME UnsentOK, UNCHANGED <<recv, state, astray, rows, again, events>>, ui' = ui \/ NoEmit(ui'),
           \A m \in Msg : /\ m \in notifyPendingIDs' => m \in notifyPendingIDs \/ About(ui, Note, m)
                          /\ About(uiq', {"message"}, m) => About(uiq, {"message"}, m)
                          /\ About(ui', Note, m) => About(ui, Note, m)
    PROVE  UnsentOK'
<1>1. \A m : /\ HasLabel(m)' <=> HasLabel(m)
             /\ About(events, {"message"}, m)' <=> About(events, {"message"}, m)
  BY DEF HasLabel, About
<1>2. \A m \in Msg : ~Elsewhere(m) => ~Elsewhere(m)'
  BY <1>1 DEF Elsewhere
<1> QED BY <1>2, FrameUnsent

LEMMA SameConversation ==
    ASSUME ConversationOK, UNCHANGED <<ConvVars, events, uiq, ui>>,
           notifyPendingIDs' \subseteq notifyPendingIDs
    PROVE  ConversationOK'
<1>1. LogOK' /\ NoDoubleRow'
  BY DEF ConvVars, ConversationOK, LogOK, NoDoubleRow
<1>2. \A m, st : (HasLabel(m)' <=> HasLabel(m)) /\ (Labelled(m, st)' <=> Labelled(m, st))
  BY DEF ConvVars, HasLabel, Labelled
<1>3. \A m, ks : /\ About(events, ks, m)' <=> About(events, ks, m)
                 /\ About(uiq, ks, m)' <=> About(uiq, ks, m)
                 /\ About(ui, ks, m)' <=> About(ui, ks, m)
  BY DEF About
<1>4. \A m, st : /\ Latest(events, Event, m, st)' <=> Latest(events, Event, m, st)
                 /\ Latest(uiq, Event, m, st)' <=> Latest(uiq, Event, m, st)
                 /\ Latest(ui, Label, m, st)' <=> Latest(ui, Label, m, st)
  BY DEF Latest
<1>5. RowsOK'
  BY <1>2, <1>3 DEF ConvVars, ConversationOK, RowsOK
<1>6. UnsentOK'
  BY <1>3, KeepUnsent DEF ConvVars, ConversationOK
<1>7. MarksOK'
  <2>1. \A m : (Unsent(m)' <=> Unsent(m)) /\ (Unsettled(m)' <=> Unsettled(m))
    BY SameSending DEF ConvVars
  <2>2. \A m : (MarkRight(m)' <=> MarkRight(m)) /\ (Present(m)' <=> Present(m))
    BY <1>2, <1>3, <1>4 DEF ConvVars, MarkRight, Present
  <2> QED BY <2>1, <2>2 DEF ConvVars, ConversationOK, MarksOK
<1> QED BY <1>1, <1>5, <1>6, <1>7 DEF ConversationOK

LEMMA SameOnce ==
    ASSUME EventOnce, UNCHANGED <<events, uiq, ui, state, notifyPendingIDs>>
    PROVE  EventOnce'
  BY DEF EventOnce, Once, About

\* The first step neither makes a label nor emits.
Unlabelled(u) == u # <<>> => u[1][1] \notin Label \union {"emit"}

LEMMA UnlabelledFacts ==
    ASSUME NEW u \in Seq(Triple), Shape(u), Unlabelled(u), NEW m
    PROVE  ~About(u, Label, m) /\ ~About(u, {"row"}, m) /\ NoEmit(u)
<1>1. Label \in SUBSET {"row", "mark", "insert"} /\ {"row"} \in SUBSET {"row", "mark", "insert"}
  BY DEF Label
<1>2. /\ About(u, Label, m) <=> u # <<>> /\ u[1][1] \in Label /\ u[1][2] = m
      /\ About(u, {"row"}, m) <=> u # <<>> /\ u[1][1] \in {"row"} /\ u[1][2] = m
  BY <1>1, HeadOnly
<1> QED BY <1>2 DEF Unlabelled, Label, NoEmit

\* Steps of the UI goroutine that have nothing to do with labels.
LEMMA UnlabelledStep ==
    ASSUME ConversationOK, QueuesOK, ui' \in Seq(Triple), Shape(ui'), Unlabelled(ui), Unlabelled(ui'),
           UNCHANGED <<ConvVars, events, uiq>>,
           \A m \in Msg : /\ m \in notifyPendingIDs' => m \in notifyPendingIDs \/ About(ui, Note, m)
                          /\ About(ui', Note, m) => About(ui, Note, m)
    PROVE  ConversationOK'
<1>1. \A m : ~About(ui, Label, m) /\ ~About(ui, {"row"}, m) /\ NoEmit(ui)
  BY UnlabelledFacts DEF QueuesOK
<1>2. \A m : ~About(ui', Label, m) /\ ~About(ui', {"row"}, m) /\ NoEmit(ui')
  BY UnlabelledFacts
<1>3. LogOK' /\ NoDoubleRow'
  BY DEF ConvVars, ConversationOK, LogOK, NoDoubleRow
<1>4. \A m, st : (HasLabel(m)' <=> HasLabel(m)) /\ (Labelled(m, st)' <=> Labelled(m, st))
  BY DEF ConvVars, HasLabel, Labelled
<1>5. \A m, ks : /\ About(events, ks, m)' <=> About(events, ks, m)
                 /\ About(uiq, ks, m)' <=> About(uiq, ks, m)
  BY DEF About
<1>6. \A m, st : /\ Latest(events, Event, m, st)' <=> Latest(events, Event, m, st)
                 /\ Latest(uiq, Event, m, st)' <=> Latest(uiq, Event, m, st)
  BY DEF Latest
<1>7. RowsOK'
  BY <1>2, <1>4, <1>5 DEF ConvVars, ConversationOK, RowsOK
<1>8. UnsentOK'
  BY <1>2, <1>5, KeepUnsent DEF ConvVars, ConversationOK
<1>9. MarksOK'
  <2>1. \A m : (Unsent(m)' <=> Unsent(m)) /\ (Unsettled(m)' <=> Unsettled(m))
    BY <1>1, <1>2, SameSending DEF ConvVars
  <2>2. \A m : (MarkRight(m) => MarkRight(m)') /\ (Present(m) => Present(m)')
    BY <1>1, <1>2, <1>4, <1>5, <1>6 DEF ConvVars, MarkRight, Present
  <2> QED BY <2>1, <2>2 DEF ConvVars, ConversationOK, MarksOK
<1> QED BY <1>3, <1>7, <1>8, <1>9 DEF ConversationOK

\* emit, for the event e: it is the last in the buffer, or its message astray.
LEMMA Emitted ==
    ASSUME events \in Seq(Func), NEW e \in Func, Emit(e)
    PROVE  /\ events' \in Seq(Func)
           /\ Len(events) <= Cap => Len(events') <= Cap
           /\ events' = Append(events, e) \/ (events' = events /\ e[2] \in astray')
           /\ astray' = astray \/ astray' = astray \union {e[2]}
           /\ e[2] \notin astray' => ~Crosses(e)
           /\ Len(events) \in Nat
<1>1. Len(events) \in Nat /\ Cap \in Nat
  BY DesktopAssumption
<1>2. /\ astray' = astray \/ astray' = astray \union {e[2]}
      /\ e[2] \notin astray' => Len(events) < Cap /\ ~Crosses(e)
  BY DEF Emit
<1>3. CASE Len(events) < Cap
  <2>1. events' = Append(events, e)
    BY <1>3 DEF Emit
  <2>2. events' \in Seq(Func) /\ Len(events') = Len(events) + 1
    BY <2>1, AppendFacts
  <2> QED BY <1>1, <1>2, <1>3, <2>1, <2>2
<1>4. CASE ~(Len(events) < Cap)
  <2>1. events' = events
    BY <1>4 DEF Emit
  <2> QED BY <1>1, <1>2, <1>4, <2>1
<1> QED BY <1>3, <1>4

LEMMA EmittedKinds ==
    ASSUME QueuesOK, NEW e \in Func, e[1] \in {"message", "state", "pending"}, Emit(e)
    PROVE  \A i \in 1 .. Len(events') : events'[i][1] \in {"message", "state", "pending"}
<1>1. CASE events' = Append(events, e)
  <2>1. /\ Len(events) \in Nat /\ Len(events') = Len(events) + 1
        /\ \A i \in 1 .. Len(events) : events'[i] = events[i]
        /\ events'[Len(events) + 1] = e
    BY <1>1, AppendFacts DEF QueuesOK
  <2> QED BY <2>1 DEF QueuesOK
<1>2. CASE events' = events
  BY <1>2 DEF QueuesOK
<1> QED BY <1>1, <1>2, Emitted DEF QueuesOK

\* What the buffer has about a message after emit.
LEMMA EmittedAbout ==
    ASSUME events \in Seq(Func), NEW e \in Func, Emit(e), NEW x
    PROVE  /\ About(events', {"message"}, x) =>
                About(events, {"message"}, x) \/ (e[1] = "message" /\ x = e[2])
           /\ About(events, {"message"}, x) => About(events', {"message"}, x)
           /\ x # e[2] => (About(events', Event, x) <=> About(events, Event, x))
           /\ x # e[2] => \A st : Latest(events, Event, x, st) => Latest(events', Event, x, st)
           /\ x \notin astray' => x \notin astray
           /\ e[1] \in Event /\ x = e[2] /\ x \notin astray' =>
                /\ About(events', Event, x) /\ Latest(events', Event, x, e[3])
                /\ e[1] = "message" => About(events', {"message"}, x)
<1>1. x \notin astray' => x \notin astray
  BY Emitted
<1>2. CASE events' = Append(events, e)
  <2>1. /\ About(events', {"message"}, x) <=> About(events, {"message"}, x) \/ (e[1] \in {"message"} /\ e[2] = x)
        /\ About(events', Event, x) <=> About(events, Event, x) \/ (e[1] \in Event /\ e[2] = x)
    BY <1>2, AboutAppend
  <2>2. \A st : /\ e[1] \in Event /\ e[2] = x /\ e[3] = st => Latest(events', Event, x, st)
                /\ ~(e[1] \in Event /\ e[2] = x) /\ Latest(events, Event, x, st) => Latest(events', Event, x, st)
    BY <1>2, LatestAppend
  <2> QED BY <1>1, <2>1, <2>2
<1>3. CASE events' = events /\ e[2] \in astray'
  BY <1>1, <1>3
<1> QED BY <1>2, <1>3, Emitted

\* Each message still has its event once, if this one's is its first.
LEMMA EmittedOnce ==
    ASSUME events \in Seq(Func), NEW e \in Func, Emit(e), Once(events),
           e[1] = "message" => ~About(events, {"message"}, e[2])
    PROVE  Once(events')
<1>1. CASE events' = Append(events, e)
  BY <1>1, OnceAppend
<1>2. CASE events' = events
  BY <1>2
<1> QED BY <1>1, <1>2, Emitted

\* An event is emitted that has the mark of the store, or another is to follow.
LEMMA EmittedMarks ==
    ASSUME MarksOK, QueuesOK, NEW e \in Func, e[2] \in Msg => e[1] \in Event, Emit(e),
           UNCHANGED <<state, rows, open, uiq>>,
           \A x \in Msg : x # e[2] => (Unsettled(x)' <=> Unsettled(x)) /\ (Unsent(x)' <=> Unsent(x)),
           e[2] \in Msg /\ e[2] \notin astray' /\ ~Unsettled(e[2])' /\ state[e[2]] # None
             => e[3] = state[e[2]],
           e[2] \in Msg /\ Unsent(e[2]) => e[1] = "message" \/ Unsent(e[2])',
           \A x \in Msg : \A st : /\ About(ui', Label, x) <=> About(ui, Label, x)
                                  /\ About(ui', {"row"}, x) <=> About(ui, {"row"}, x)
                                  /\ Latest(ui', Label, x, st) <=> Latest(ui, Label, x, st)
    PROVE  MarksOK'
<1>1. events \in Seq(Func)
  BY DEF QueuesOK
<1>2. \A m, st : (HasLabel(m)' <=> HasLabel(m)) /\ (Labelled(m, st)' <=> Labelled(m, st))
  BY DEF HasLabel, Labelled
<1>3. \A m, ks : About(uiq, ks, m)' <=> About(uiq, ks, m)
  BY DEF About
<1>4. \A m, st : Latest(uiq, Event, m, st)' <=> Latest(uiq, Event, m, st)
  BY DEF Latest
<1>5. ASSUME NEW m \in Msg, m \notin astray', state[m] # None
      PROVE  (~Unsettled(m)' => MarkRight(m)') /\ (open' => Present(m)' \/ Unsent(m)')
  <2>1. /\ About(events, {"message"}, m) => About(events', {"message"}, m)
        /\ m # e[2] => (About(events', Event, m) <=> About(events, Event, m))
        /\ m # e[2] => \A st : Latest(events, Event, m, st) => Latest(events', Event, m, st)
        /\ m \notin astray
        /\ m = e[2] => /\ About(events', Event, m) /\ Latest(events', Event, m, e[3])
                       /\ e[1] = "message" => About(events', {"message"}, m)
    BY <1>1, <1>5, EmittedAbout
  <2>2. (~Unsettled(m) => MarkRight(m)) /\ (open => Present(m) \/ Unsent(m))
    BY <1>5, <2>1 DEF MarksOK
  <2>3. Present(m) => Present(m)'
    BY <1>2, <1>3, <2>1 DEF Present
  <2>4. CASE m = e[2]
    <3>1. ~Unsettled(m)' => e[3] = state'[m]
      BY <1>5, <2>4
    <3>2. ~Unsettled(m)' => MarkRight(m)'
      BY <2>1, <2>4, <3>1 DEF MarkRight
    <3>3. e[1] = "message" => Present(m)'
      BY <2>1, <2>4 DEF Present
    <3> QED BY <2>2, <2>3, <2>4, <3>2, <3>3
  <2>5. CASE m # e[2]
    <3>1. Labelled(m, state[m])' <=> Labelled(m, state[m])
      BY DEF Labelled
    <3>2. MarkRight(m) => MarkRight(m)'
      BY <1>3, <1>4, <2>1, <2>5, <3>1 DEF MarkRight
    <3> QED BY <2>2, <2>3, <2>5, <3>2
  <2> QED BY <2>4, <2>5
<1> QED BY <1>5 DEF MarksOK

\* Labels are made of stored messages, and this one has none that counts.
LEMMA EmittedRows ==
    ASSUME RowsOK, QueuesOK, NEW e \in Func, Emit(e),
           e[1] = "message" /\ HasLabel(e[2]) => e[2] \in again,
           UNCHANGED <<state, rows, open, again, uiq>>,
           \A x \in Msg : About(ui', {"row"}, x) => About(ui, {"row"}, x)
    PROVE  RowsOK'
<1>1. events \in Seq(Func)
  BY DEF QueuesOK
<1>2. \A m, st : (HasLabel(m)' <=> HasLabel(m)) /\ (Labelled(m, st)' <=> Labelled(m, st))
  BY DEF HasLabel, Labelled
<1>3. \A m, ks : About(uiq, ks, m)' <=> About(uiq, ks, m)
  BY DEF About
<1>4. ASSUME NEW m \in Msg, HasLabel(m)'
      PROVE  /\ state'[m] # None /\ \E st \in Mark : Labelled(m, st)'
             /\ m \notin again' => /\ ~About(events', {"message"}, m) /\ ~About(uiq', {"message"}, m)
                                   /\ ~About(ui', {"row"}, m)
  <2>1. /\ HasLabel(m) /\ state[m] # None /\ \E st \in Mark : Labelled(m, st)
        /\ m \notin again => /\ ~About(events, {"message"}, m) /\ ~About(uiq, {"message"}, m)
                             /\ ~About(ui, {"row"}, m)
    BY <1>2, <1>4 DEF RowsOK
  <2>2. About(events', {"message"}, m) => About(events, {"message"}, m) \/ (e[1] = "message" /\ m = e[2])
    BY <1>1, EmittedAbout
  <2> QED BY <1>2, <1>3, <2>1, <2>2
<1> QED BY <1>4 DEF RowsOK

LEMMA LogAppend ==
    ASSUME LogOK, state \in [Msg -> Mark \union {None}], NEW m \in Msg, state[m] = None, NEW st \in Mark,
           log' = Append(log, m), state' = [state EXCEPT ![m] = st]
    PROVE  LogOK'
<1> DEFINE n == Len(log)
<1>1. /\ log' \in Seq(Msg) /\ n \in Nat /\ Len(log') = n + 1
      /\ (\A i \in 1 .. n : log'[i] = log[i]) /\ log'[n + 1] = m
  BY AppendFacts DEF LogOK
<1>2. state'[m] # None /\ \A x \in Msg : x # m => state'[x] = state[x]
  BY DesktopAssumption
<1>3. /\ \A i, j \in 1 .. n : log[i] = log[j] => i = j
      /\ \A x \in Msg : state[x] # None <=> \E i \in 1 .. n : log[i] = x
  BY DEF LogOK
<1> HIDE DEF n
<1>4. \A i \in 1 .. (n + 1) : i \in 1 .. n \/ i = n + 1
  BY <1>1
<1>5. \A i \in 1 .. n : i \in 1 .. (n + 1)
  BY <1>1
<1>6. n + 1 \in 1 .. (n + 1)
  BY <1>1
<1>7. \A i, j \in 1 .. (n + 1) : log'[i] = log'[j] => i = j
  BY <1>1, <1>3, <1>4
<1>8. ASSUME NEW x \in Msg PROVE state'[x] # None <=> \E i \in 1 .. (n + 1) : log'[i] = x
  BY <1>1, <1>2, <1>3, <1>4, <1>5, <1>6
<1> QED BY <1>1, <1>7, <1>8 DEF LogOK

LEMMA LogMark ==
    ASSUME LogOK, UNCHANGED log, \A x \in Msg : state'[x] # None <=> state[x] # None
    PROVE  LogOK'
  BY DEF LogOK

\* The receive goroutine has written the store and has an event to emit.
LEMMA Receives ==
    ASSUME RowsOK, MarksOK, NEW e \in Func, recv = <<>>, recv' = <<e>>,
           UNCHANGED <<rows, open, again, astray, events, uiq, ui>>,
           \A x \in Msg : x # e[2] => state'[x] = state[x],
           \A x \in Msg : state[x] # None => state'[x] # None,
           e[2] \in Msg => e[1] \in Event,
           e[2] \in Msg /\ state'[e[2]] # None => e[1] = "message" \/ state[e[2]] # None
    PROVE  RowsOK' /\ MarksOK'
<1>1. \A m, st : (HasLabel(m)' <=> HasLabel(m)) /\ (Labelled(m, st)' <=> Labelled(m, st))
  BY DEF HasLabel, Labelled
<1>2. \A m, ks : /\ About(events, ks, m)' <=> About(events, ks, m)
                 /\ About(uiq, ks, m)' <=> About(uiq, ks, m)
                 /\ About(ui, ks, m)' <=> About(ui, ks, m)
  BY DEF About
<1>3. \A m, ks, st : /\ Latest(events, ks, m, st)' <=> Latest(events, ks, m, st)
                     /\ Latest(uiq, ks, m, st)' <=> Latest(uiq, ks, m, st)
                     /\ Latest(ui, ks, m, st)' <=> Latest(ui, ks, m, st)
  BY DEF Latest
<1>4. RowsOK'
  BY <1>1, <1>2 DEF RowsOK
<1>5. ASSUME NEW m \in Msg, m \notin astray, state'[m] # None
      PROVE  (~Unsettled(m)' => MarkRight(m)') /\ (open => Present(m)' \/ Unsent(m)')
  <2>1. (Sending(m)' <=> Sending(m)) /\ (\A ks : ~Coming(m, ks)) /\ (Present(m) => Present(m)')
    BY <1>1, <1>2 DEF Sending, Coming, Present
  <2>2. \A ks : Coming(m, ks)' <=> e[1] \in ks /\ e[2] = m
    BY DEF Coming
  <2>3. state[m] # None =>
          (~Sending(m) => MarkRight(m)) /\ (open => Present(m) \/ Sending(m))
    BY <1>5, <2>1 DEF MarksOK, Unsettled, Unsent
  <2>4. CASE m = e[2]
    <3>1. Unsettled(m)'
      BY <2>2, <2>4 DEF Unsettled
    <3>2. e[1] = "message" => Unsent(m)'
      BY <2>2, <2>4 DEF Unsent
    <3>3. Sending(m) => Unsent(m)'
      BY <2>1 DEF Unsent
    <3> QED BY <1>5, <2>1, <2>3, <2>4, <3>1, <3>2, <3>3
  <2>5. CASE m # e[2]
    <3>1. state'[m] = state[m]
      BY <2>5
    <3>2. Labelled(m, state[m])' <=> Labelled(m, state[m])
      BY <3>1 DEF Labelled
    <3>3. MarkRight(m) => MarkRight(m)'
      BY <1>2, <1>3, <3>1, <3>2 DEF MarkRight
    <3>4. (Unsettled(m)' <=> Sending(m)) /\ (Unsent(m)' <=> Sending(m))
      BY <2>1, <2>2, <2>5 DEF Unsettled, Unsent
    <3> QED BY <1>5, <2>1, <2>3, <3>1, <3>3, <3>4
  <2> QED BY <2>4, <2>5
<1>6. MarksOK'
  BY <1>5 DEF MarksOK
<1> QED BY <1>4, <1>6

\* A message that is not stored is nowhere.
LEMMA Unstored ==
    ASSUME EventOnce, RowsOK, NEW m \in Msg, state[m] = None
    PROVE  ~Elsewhere(m)
  BY DEF EventOnce, RowsOK, Elsewhere

\* handleIncomingMsg.
LEMMA IncomingConversation ==
    ASSUME DesktopInv, NEW m \in Msg, Incoming(m)
    PROVE  ConversationOK'
<1> DEFINE e == <<"message", m, "received">>
<1>1. e \in Func /\ e[1] = "message" /\ e[2] = m /\ e[3] = "received"
  BY DEF Func, Triple, Kind, Mark
<1>2. /\ state[m] = None /\ log' = Append(log, m) /\ state' = [state EXCEPT ![m] = "received"]
      /\ recv = <<>> /\ recv' = <<e>>
      /\ UNCHANGED <<rows, open, again, astray, events, uiq, ui, notifyPendingIDs>>
  BY DEF Incoming, queueVars, viewVars, noteVars, histVars
<1>3. /\ state \in [Msg -> Mark \union {None}] /\ QueuesOK /\ EventOnce /\ LogOK /\ RowsOK /\ UnsentOK
      /\ MarksOK /\ NoDoubleRow
  BY DEF DesktopInv, TrayInv, Base, TypeOK, ConversationOK
<1> HIDE DEF e
<1>4. LogOK'
  BY <1>2, <1>3, LogAppend DEF Mark
<1>5. /\ state'[m] = "received" /\ state'[m] # None
      /\ \A x \in Msg : x # m => state'[x] = state[x]
      /\ \A x \in Msg : state[x] # None => state'[x] # None
  BY <1>2, <1>3, DesktopAssumption DEF Mark
<1>6. RowsOK' /\ MarksOK'
  <2>1. e[1] \in Event
    BY <1>1 DEF Event
  <2> QED BY <1>1, <1>2, <1>3, <1>5, <2>1, Receives
<1>7. UnsentOK'
  <2>1. SUFFICES ASSUME NEW x \in Msg
                 PROVE  /\ Unsent(x)' => ~Elsewhere(x)' /\ state'[x] # None
                        /\ Coming(x, {"message"})' => recv'[1][3] = state'[x] /\ ~Sending(x)'
                        /\ Sending(x)' /\ x \notin astray' =>
                            ui'[1][3] = state'[x] \/ (Coming(x, {"state"})' /\ recv'[1][3] = state'[x])
    BY DEF UnsentOK
  <2>2. (Elsewhere(x)' <=> Elsewhere(x)) /\ (Sending(x)' <=> Sending(x))
    BY <1>2 DEF Elsewhere, HasLabel, About, Sending
  <2>3. recv'[1] = e /\ (Coming(x, {"message"})' <=> x = m) /\ ~Coming(x, {"state"})
    BY <1>1, <1>2 DEF Coming
  <2>4. /\ Sending(x) => ~Elsewhere(x) /\ state[x] # None
        /\ Sending(x) /\ x \notin astray => ui[1][3] = state[x]
    BY <1>3, <2>3 DEF UnsentOK, Unsent
  <2>5. x = m => ~Elsewhere(x) /\ ~Sending(x)
    BY <1>2, <1>3, <2>4, Unstored
  <2> QED BY <1>1, <1>2, <1>5, <2>2, <2>3, <2>4, <2>5 DEF Unsent
<1>8. NoDoubleRow'
  BY <1>2, <1>3 DEF NoDoubleRow
<1> QED BY <1>4, <1>6, <1>7, <1>8 DEF ConversationOK

\* flushOutbox and handleAck.
LEMMA MarkConversation ==
    ASSUME DesktopInv, NEW m \in Msg, Flush(m) \/ Ack(m)
    PROVE  ConversationOK'
<1>1. PICK st \in {"sent", "delivered"} :
        /\ SetState(m, st) /\ recv = <<>> /\ recv' = << <<"state", m, st>> >>
        /\ UNCHANGED <<log, rows, open, again, astray, events, uiq, ui, notifyPendingIDs>>
  BY DEF Flush, Ack, queueVars, viewVars, noteVars, histVars
<1> DEFINE e == <<"state", m, st>>
<1>2. e \in Func /\ e[1] = "state" /\ e[2] = m /\ e[3] = st
  BY DEF Func, Triple, Kind, Mark
<1>3. /\ state \in [Msg -> Mark \union {None}] /\ QueuesOK /\ EventOnce /\ LogOK /\ RowsOK /\ UnsentOK
      /\ MarksOK /\ NoDoubleRow
  BY DEF DesktopInv, TrayInv, Base, TypeOK, ConversationOK
<1>4. recv' = <<e>>
  BY <1>1
<1> HIDE DEF e
<1>5. /\ \A x \in Msg : x # m => state'[x] = state[x]
      /\ \A x \in Msg : state'[x] # None <=> state[x] # None
      /\ state'[m] # None => state'[m] = st
  BY <1>1, <1>3, DesktopAssumption DEF SetState, Mark
<1>6. LogOK'
  BY <1>1, <1>3, <1>5, LogMark
<1>7. RowsOK' /\ MarksOK'
  <2>1. e[1] \in Event
    BY <1>2 DEF Event
  <2> QED BY <1>1, <1>2, <1>3, <1>4, <1>5, <2>1, Receives
<1>8. UnsentOK'
  <2>1. SUFFICES ASSUME NEW x \in Msg
                 PROVE  /\ Unsent(x)' => ~Elsewhere(x)' /\ state'[x] # None
                        /\ Coming(x, {"message"})' => recv'[1][3] = state'[x] /\ ~Sending(x)'
                        /\ Sending(x)' /\ x \notin astray' =>
                            ui'[1][3] = state'[x] \/ (Coming(x, {"state"})' /\ recv'[1][3] = state'[x])
    BY DEF UnsentOK
  <2>2. (Elsewhere(x)' <=> Elsewhere(x)) /\ (Sending(x)' <=> Sending(x))
    BY <1>1 DEF Elsewhere, HasLabel, About, Sending
  <2>3. /\ recv'[1] = e /\ ~Coming(x, {"message"})' /\ (Coming(x, {"state"})' <=> x = m)
        /\ ~Coming(x, {"state"})
    BY <1>1, <1>2, <1>4 DEF Coming
  <2>4. /\ Sending(x) => ~Elsewhere(x) /\ state[x] # None
        /\ Sending(x) /\ x \notin astray => ui[1][3] = state[x]
    BY <1>3, <2>3 DEF UnsentOK, Unsent
  <2> QED BY <1>1, <1>2, <1>5, <2>2, <2>3, <2>4 DEF Unsent
<1>9. NoDoubleRow'
  BY <1>1, <1>3 DEF NoDoubleRow
<1> QED BY <1>6, <1>7, <1>8, <1>9 DEF ConversationOK

\* dispatch of admin_pending_list.
LEMMA PendingConversation ==
    ASSUME DesktopInv, PendingList
    PROVE  ConversationOK'
<1> DEFINE e == <<"pending", None, None>>
<1>1. e \in Func /\ e[1] = "pending" /\ e[2] = None /\ e[2] \notin Msg
  BY DesktopAssumption DEF Func, Triple, Kind
<1>2. /\ recv = <<>> /\ recv' = <<e>>
      /\ UNCHANGED <<log, state, rows, open, again, astray, events, uiq, ui, notifyPendingIDs>>
  BY DEF PendingList, coreVars, queueVars, viewVars, noteVars, histVars
<1>3. LogOK /\ RowsOK /\ UnsentOK /\ MarksOK /\ NoDoubleRow
  BY DEF DesktopInv, ConversationOK
<1> HIDE DEF e
<1>4. LogOK'
  BY <1>2, <1>3, LogMark
<1>5. RowsOK' /\ MarksOK'
  BY <1>1, <1>2, <1>3, Receives
<1>6. UnsentOK'
  <2>1. ASSUME NEW x \in Msg
        PROVE  /\ (Elsewhere(x)' <=> Elsewhere(x)) /\ (Sending(x)' <=> Sending(x))
               /\ \A ks : ~Coming(x, ks) /\ ~Coming(x, ks)'
    BY <1>1, <1>2 DEF Elsewhere, HasLabel, About, Sending, Coming
  <2> QED BY <1>2, <1>3, <2>1 DEF UnsentOK, Unsent
<1>7. NoDoubleRow'
  BY <1>2, <1>3 DEF NoDoubleRow
<1> QED BY <1>4, <1>5, <1>6, <1>7 DEF ConversationOK

\* Who sends a stored message has inserted it.
LEMMA SendingStored ==
    ASSUME QueuesOK, EventOnce, NEW m \in Msg, state[m] # None
    PROVE  SendingText(m) <=> Sending(m)
<1>1. ui \in Seq(Triple) /\ Shape(ui) /\ Len(ui) \in Nat /\ (ui = <<>> <=> Len(ui) = 0)
  BY EmptySeq DEF QueuesOK
<1>2. ~About(ui, {"insert"}, m)
  BY DEF EventOnce
<1>3. ASSUME SendingText(m) PROVE Sending(m)
  <2>1. PICK i \in 1 .. Len(ui) : ui[i][1] \in {"insert", "emit"} /\ ui[i][2] = m
    BY <1>3 DEF SendingText
  <2>2. ui[i][1] = "emit"
    BY <1>2, <2>1 DEF About
  <2>3. ui # <<>> /\ 1 \in 1 .. Len(ui)
    BY <1>1, <2>1
  <2>4. CASE i = 1
    BY <2>1, <2>2, <2>3, <2>4 DEF Sending
  <2>5. CASE i # 1
    <3>1. Len(ui) # 1
      BY <1>1, <2>1, <2>5
    <3>2. ~(ui[1][1] = "insert" /\ ui[2] = <<"emit", ui[1][2], ui[1][3]>>)
      <4>1. SUFFICES ASSUME ui[1][1] = "insert", Len(ui) = 2, ui[2] = <<"emit", ui[1][2], ui[1][3]>>
                     PROVE  FALSE
        BY <1>1, <2>3 DEF Shape
      <4>2. i = 2
        BY <2>1, <2>5, <4>1
      <4>3. ui[1][2] = m
        BY <2>1, <4>1, <4>2
      <4> QED BY <1>2, <2>3, <4>1, <4>3 DEF About
    <3>3. i \in 2 .. Len(ui)
      BY <1>1, <2>1, <2>5
    <3>4. ui[1][1] # "insert"
      BY <1>1, <2>3, <3>2 DEF Shape
    <3> QED BY <1>1, <2>2, <2>3, <3>3, <3>4, EmitFirst
  <2> QED BY <2>4, <2>5
<1>4. ASSUME Sending(m) PROVE SendingText(m)
  <2>1. 1 \in 1 .. Len(ui)
    BY <1>1, <1>4 DEF Sending
  <2> QED BY <1>4, <2>1 DEF Sending, SendingText
<1> QED BY <1>3, <1>4

\* The event the receive goroutine is about to emit.
LEMMA ReceivedFacts ==
    ASSUME QueuesOK, recv # <<>>
    PROVE  /\ recv[1] \in Func /\ recv[1][1] \in {"message", "state", "pending"}
           /\ recv[1][2] \in Msg => recv[1][1] \in Event
<1>1. recv \in Seq(Func) /\ recv[1][1] \in {"message", "state", "pending"}
      /\ (recv[1][1] = "pending" => recv[1][2] = None)
  BY DEF QueuesOK
<1>2. recv[1] \in Func
  BY <1>1, TailFacts
<1>3. None \notin Msg
  BY DesktopAssumption
<1> QED BY <1>1, <1>2, <1>3 DEF Event

\* The receive goroutine emits.
LEMMA EmitConversation ==
    ASSUME DesktopInv, EmitReceived
    PROVE  ConversationOK'
<1>1. /\ recv # <<>> /\ Emit(recv[1]) /\ recv' = <<>>
      /\ UNCHANGED <<log, state, rows, open, again, uiq, ui, notifyPendingIDs>>
  BY DEF EmitReceived, coreVars, queueVars, viewVars, noteVars
<1>0. ui' = ui
  BY <1>1
<1>2. /\ state \in [Msg -> Mark \union {None}] /\ QueuesOK /\ EventOnce /\ LogOK /\ RowsOK /\ UnsentOK
      /\ MarksOK /\ NoDoubleRow /\ events \in Seq(Func)
  BY DEF DesktopInv, TrayInv, Base, TypeOK, ConversationOK, QueuesOK
<1>3. PICK e \in Func : e = recv[1] /\ e[1] \in {"message", "state", "pending"} /\ Emit(e)
  BY <1>1, <1>2, ReceivedFacts
<1>4. e[2] \in Msg => e[1] \in Event
  BY <1>1, <1>2, <1>3, ReceivedFacts
<1>5. \A x : /\ Sending(x)' <=> Sending(x)
             /\ \A ks : ~Coming(x, ks)' /\ (Coming(x, ks) <=> e[1] \in ks /\ e[2] = x)
  BY <1>1, <1>3 DEF Sending, Coming
<1>6. /\ astray' = astray \/ astray' = astray \union {e[2]}
      /\ e[2] \notin astray' => ~Crosses(e)
  BY <1>1, <1>2, <1>3, Emitted
<1>7. \A x \in Msg : /\ Unsent(x) => ~Elsewhere(x) /\ state[x] # None
                     /\ e[1] = "message" /\ e[2] = x => e[3] = state[x] /\ ~Sending(x) /\ Unsent(x)
                     /\ Sending(x) /\ x \notin astray =>
                         ui[1][3] = state[x] \/ (e[1] = "state" /\ e[2] = x /\ e[3] = state[x])
  BY <1>2, <1>3, <1>5 DEF UnsentOK, Unsent
<1>8. ASSUME NEW x \in Msg, x = e[2], x \notin astray', e[1] = "state", state[x] # None
      PROVE  ~(state[x] = e[3] <=> Sending(x))
  BY <1>2, <1>6, <1>8, SendingStored DEF Crosses
<1>9. RowsOK'
  <2>1. e[1] = "message" => e[2] \in Msg
    BY <1>3 DEF Func
  <2>2. e[1] = "message" /\ HasLabel(e[2]) => e[2] \in again
    BY <1>7, <2>1 DEF Elsewhere
  <2>3. \A x \in Msg : About(ui', {"row"}, x) => About(ui, {"row"}, x)
    BY <1>1
  <2> QED BY <1>1, <1>2, <1>3, <2>2, <2>3, EmittedRows
<1>10. UnsentOK'
  <2>1. ASSUME NEW x \in Msg, Sending(x)
        PROVE  /\ ~Elsewhere(x)' /\ state'[x] # None
               /\ x \notin astray' => ui'[1][3] = state'[x]
    <3>1. ~Elsewhere(x) /\ state[x] # None /\ ~(e[1] = "message" /\ e[2] = x)
      BY <1>7, <2>1 DEF Unsent
    <3>2. About(events', {"message"}, x) => About(events, {"message"}, x)
      BY <1>1, <1>2, <1>3, <3>1, EmittedAbout
    <3>3. ~Elsewhere(x)'
      BY <1>1, <3>1, <3>2 DEF Elsewhere, About, HasLabel
    <3>4. x \notin astray' => ui[1][3] = state[x]
      BY <1>6, <1>7, <1>8, <2>1, <3>1
    <3> QED BY <1>1, <3>1, <3>3, <3>4
  <2> QED BY <1>5, <2>1 DEF UnsentOK, Unsent
<1>11. MarksOK'
  <2>1. \A x \in Msg : x # e[2] => (Unsettled(x)' <=> Unsettled(x)) /\ (Unsent(x)' <=> Unsent(x))
    BY <1>5 DEF Unsettled, Unsent
  <2>2. e[2] \in Msg /\ e[2] \notin astray' /\ ~Unsettled(e[2])' /\ state[e[2]] # None
          => e[3] = state[e[2]]
    BY <1>3, <1>4, <1>5, <1>7, <1>8 DEF Unsettled, Event
  <2>3. e[2] \in Msg /\ Unsent(e[2]) => e[1] = "message" \/ Unsent(e[2])'
    BY <1>5 DEF Unsent
  <2>4. \A x \in Msg : \A st : /\ About(ui', Label, x) <=> About(ui, Label, x)
                               /\ About(ui', {"row"}, x) <=> About(ui, {"row"}, x)
                               /\ Latest(ui', Label, x, st) <=> Latest(ui, Label, x, st)
    BY <1>0
  <2> QED BY <1>1, <1>2, <1>3, <1>4, <2>1, <2>2, <2>3, <2>4, EmittedMarks
<1>12. LogOK' /\ NoDoubleRow'
  BY <1>1, <1>2 DEF LogOK, NoDoubleRow
<1> QED BY <1>9, <1>10, <1>11, <1>12 DEF ConversationOK

\* The step the UI goroutine is at, and what is left after it.
LEMMA Popped ==
    ASSUME QueuesOK, ui # <<>>
    PROVE  /\ Head(ui) = ui[1] /\ The = ui[1][2] /\ ItsMark = ui[1][3] /\ ui[1] \in Triple
           /\ Tail(ui) \in Seq(Triple) /\ Shape(Tail(ui))
           /\ \A k : At(k) <=> ui[1][1] = k
           /\ \A m, ks : About(Tail(ui), ks, m) => About(ui, ks, m)
           /\ ui[1][1] # "insert" => Unlabelled(Tail(ui))
<1>1. ui \in Seq(Triple) /\ Shape(ui)
  BY DEF QueuesOK
<1>2. Head(ui) = ui[1] /\ ui[1] \in Triple /\ Tail(ui) \in Seq(Triple)
  BY <1>1, TailFacts
<1>3. Shape(Tail(ui))
  BY <1>1, ShapeTail
<1>4. \A m, ks : About(Tail(ui), ks, m) => About(ui, ks, m)
  BY <1>1, AboutTail
<1>5. ui[1][1] # "insert" => Unlabelled(Tail(ui))
  <2>1. SUFFICES ASSUME ui[1][1] # "insert", Tail(ui) # <<>>
                 PROVE  Tail(ui)[1][1] \notin Label /\ Tail(ui)[1][1] # "emit"
    BY DEF Unlabelled
  <2>2. Len(ui) \in Nat \ {0} /\ Len(ui) >= 2 /\ Tail(ui)[1] = ui[2]
    BY <1>1, <2>1, Behind
  <2>3. 2 \in 2 .. Len(ui)
    BY <2>2
  <2>4. ui[2][1] \notin {"row", "mark", "insert"}
    BY <1>1, <2>3, FirstOnly
  <2>5. Tail(ui)[1][1] # "emit"
    BY <1>1, <2>1, ShapeTail
  <2> QED BY <2>2, <2>4, <2>5 DEF Label
<1> QED BY <1>2, <1>3, <1>4, <1>5 DEF The, ItsMark, At

\* What the first step is about, by its kind.
LEMMA StepTypes ==
    ASSUME QueuesOK, ui # <<>>
    PROVE  /\ ui[1][1] \in {"insert", "emit"} => The \in Out /\ ItsMark \in Mark
           /\ ui[1][1] = "row" => The \in Msg /\ ItsMark \in Mark
           /\ ui[1][1] = "mark" => The \in Msg /\ ItsMark \in Mark
           /\ ui[1][1] \in {"check", "notify", "register", "clicked"} => The \in In
           /\ In \subseteq Msg /\ Out \subseteq Msg
<1>1. The = ui[1][2] /\ ItsMark = ui[1][3]
  BY Popped
<1>2. In \subseteq Msg /\ Out \subseteq Msg
  BY DEF Msg
<1> QED BY <1>1, <1>2 DEF QueuesOK, Shape

LEMMA EmptyFacts ==
    ASSUME NEW q, q = <<>>
    PROVE  Len(q) = 0 /\ (\A ks, m : ~About(q, ks, m)) /\ (\A ks : ~Of(q, ks)) /\ ~TwoWindows(q) /\ Once(q)
<1>1. Len(q) = 0
  OBVIOUS
<1> QED BY <1>1 DEF About, Of, TwoWindows, Once

\* SendText inserts the row.
LEMMA InsertConversation ==
    ASSUME DesktopInv, Insert
    PROVE  ConversationOK'
<1>1. /\ At("insert") /\ log' = Append(log, The) /\ state' = [state EXCEPT ![The] = ItsMark]
      /\ ui' = Tail(ui) /\ ui # <<>>
      /\ UNCHANGED <<rows, open, again, astray, recv, events, uiq, notifyPendingIDs>>
  BY DEF Insert, At, viewVars, noteVars, histVars
<1>2. /\ state \in [Msg -> Mark \union {None}] /\ QueuesOK /\ EventOnce
      /\ LogOK /\ RowsOK /\ UnsentOK /\ MarksOK /\ NoDoubleRow /\ ui \in Seq(Triple) /\ Shape(ui)
  BY DEF DesktopInv, TrayInv, Base, TypeOK, ConversationOK, QueuesOK
<1>3. PICK m \in Msg, st \in Mark :
        /\ The = m /\ ItsMark = st /\ ui[1][1] = "insert" /\ ui[1][2] = m /\ ui[1][3] = st
        /\ ui' \in Seq(Triple) /\ Shape(ui') /\ ui' # <<>> /\ ui'[1] = <<"emit", m, st>>
        /\ \A x : About(ui', Note, x) => About(ui, Note, x)
  <2>1. /\ The = ui[1][2] /\ ItsMark = ui[1][3] /\ ui[1][1] = "insert"
        /\ \A x : About(ui', Note, x) => About(ui, Note, x)
    BY <1>1, <1>2, Popped
  <2>2. The \in Msg /\ ItsMark \in Mark /\ ui' \in Seq(Triple) /\ Shape(ui')
    BY <1>1, <1>2, <2>1, Popped, StepTypes
  <2>3. ui' # <<>> /\ ui'[1] = <<"emit", ui[1][2], ui[1][3]>>
    BY <1>1, <1>2, <2>1, ShapeTail
  <2> QED BY <2>1, <2>2, <2>3
<1>4. ui'[1][1] = "emit" /\ ui'[1][2] = m /\ ui'[1][3] = st
  BY <1>3
<1>5. state[m] = None
  <2>1. {"insert"} \in SUBSET {"row", "mark", "insert"}
    OBVIOUS
  <2>2. About(ui, {"insert"}, m)
    BY <1>1, <1>2, <1>3, <2>1, HeadOnly
  <2> QED BY <1>2, <2>2 DEF EventOnce
<1>6. \A x : /\ ~About(ui, Label, x) /\ ~About(ui, {"row"}, x)
             /\ ~About(ui', Label, x) /\ ~About(ui', {"row"}, x)
  <2>1. Label \in SUBSET {"row", "mark", "insert"} /\ {"row"} \in SUBSET {"row", "mark", "insert"}
    BY DEF Label
  <2>2. \A x : /\ About(ui, Label, x) <=> ui # <<>> /\ ui[1][1] \in Label /\ ui[1][2] = x
               /\ About(ui, {"row"}, x) <=> ui # <<>> /\ ui[1][1] \in {"row"} /\ ui[1][2] = x
    BY <1>2, <2>1, HeadOnly
  <2>3. \A x : /\ About(ui', Label, x) <=> ui' # <<>> /\ ui'[1][1] \in Label /\ ui'[1][2] = x
               /\ About(ui', {"row"}, x) <=> ui' # <<>> /\ ui'[1][1] \in {"row"} /\ ui'[1][2] = x
    BY <1>3, <2>1, HeadOnly
  <2> QED BY <1>3, <1>4, <2>2, <2>3 DEF Label
<1>7. /\ state'[m] = st /\ state'[m] # None
      /\ \A x \in Msg : x # m => state'[x] = state[x]
  BY <1>1, <1>2, <1>3, DesktopAssumption
<1>8. \A x : (Sending(x)' <=> x = m) /\ ~Sending(x) /\ \A ks : Coming(x, ks)' <=> Coming(x, ks)
  BY <1>1, <1>3, <1>4 DEF Sending, Coming
<1>9. LogOK'
  BY <1>1, <1>2, <1>3, <1>5, LogAppend
<1>10. \A x, s : (HasLabel(x)' <=> HasLabel(x)) /\ (Labelled(x, s)' <=> Labelled(x, s))
  BY <1>1 DEF HasLabel, Labelled
<1>11. \A x, ks, s : /\ About(events, ks, x)' <=> About(events, ks, x)
                     /\ About(uiq, ks, x)' <=> About(uiq, ks, x)
                     /\ Latest(events, ks, x, s)' <=> Latest(events, ks, x, s)
                     /\ Latest(uiq, ks, x, s)' <=> Latest(uiq, ks, x, s)
  BY <1>1 DEF About, Latest
<1>12. RowsOK'
  BY <1>1, <1>2, <1>6, <1>7, <1>10, <1>11 DEF RowsOK
<1>13. UnsentOK'
  <2>1. \A x \in Msg : ~Elsewhere(x) => ~Elsewhere(x)'
    BY <1>1, <1>3, <1>10, <1>11 DEF Elsewhere
  <2>2. ~Elsewhere(m) /\ ~Coming(m, {"message"})
    BY <1>2, <1>5, Unstored DEF UnsentOK, Unsent
  <2>3. \A x \in Msg : Coming(x, {"message"}) => ~Elsewhere(x) /\ state[x] # None /\ recv[1][3] = state[x]
    BY <1>2 DEF UnsentOK, Unsent
  <2>4. recv' = recv /\ ui'[1][3] = state'[m]
    BY <1>1, <1>4, <1>7
  <2> QED BY <1>7, <1>8, <2>1, <2>2, <2>3, <2>4 DEF UnsentOK, Unsent
<1>14. MarksOK'
  <2>1. ASSUME NEW x \in Msg, x # m, x \notin astray, state[x] # None
        PROVE  (~Unsettled(x)' => MarkRight(x)') /\ (open => Present(x)' \/ Unsent(x)')
    <3>1. (~Unsettled(x) => MarkRight(x)) /\ (open => Present(x) \/ Unsent(x))
      BY <1>2, <2>1 DEF MarksOK
    <3>2. (Unsettled(x)' <=> Unsettled(x)) /\ (Unsent(x)' <=> Unsent(x))
      BY <1>8, <2>1 DEF Unsettled, Unsent
    <3>3. state'[x] = state[x]
      BY <1>7, <2>1
    <3>4. Labelled(x, state[x])' <=> Labelled(x, state[x])
      BY <1>1, <3>3 DEF Labelled
    <3>5. (MarkRight(x) => MarkRight(x)') /\ (Present(x) => Present(x)')
      BY <1>1, <1>6, <1>10, <1>11, <3>3, <3>4 DEF MarkRight, Present
    <3> QED BY <3>1, <3>2, <3>5
  <2>2. Unsettled(m)' /\ Unsent(m)'
    BY <1>8 DEF Unsettled, Unsent
  <2> QED BY <1>1, <1>7, <2>1, <2>2 DEF MarksOK
<1>15. NoDoubleRow'
  BY <1>1, <1>2 DEF NoDoubleRow
<1> QED BY <1>9, <1>12, <1>13, <1>14, <1>15 DEF ConversationOK

\* SendText emits the message.
LEMMA SentConversation ==
    ASSUME DesktopInv, EmitSent
    PROVE  ConversationOK'
<1>1. /\ At("emit") /\ Emit(<<"message", The, ItsMark>>) /\ ui' = Tail(ui) /\ ui # <<>>
      /\ UNCHANGED <<log, state, rows, open, again, recv, uiq, notifyPendingIDs>>
  BY DEF EmitSent, At, coreVars, viewVars, noteVars
<1>2. /\ state \in [Msg -> Mark \union {None}] /\ QueuesOK /\ EventOnce
      /\ LogOK /\ RowsOK /\ UnsentOK /\ MarksOK /\ NoDoubleRow /\ ui \in Seq(Triple) /\ Shape(ui)
      /\ events \in Seq(Func)
  BY DEF DesktopInv, TrayInv, Base, TypeOK, ConversationOK, QueuesOK
<1>3. PICK m \in Msg, st \in Mark :
        The = m /\ ItsMark = st /\ ui[1][1] = "emit" /\ ui[1][2] = m /\ ui[1][3] = st
  BY <1>1, <1>2, Popped, StepTypes
<1>4. ui' = <<>>
  BY <1>1, <1>2, <1>3, ShapeTail
<1> DEFINE e == <<"message", m, st>>
<1>5. e \in Func /\ e[1] = "message" /\ e[2] = m /\ e[3] = st /\ e[1] \in Event
  BY DEF Func, Triple, Kind, Event
<1>6. Emit(e)
  BY <1>1, <1>3
<1> HIDE DEF e
<1>7. \A x : (Sending(x) <=> x = m) /\ ~Sending(x)' /\ \A ks : Coming(x, ks)' <=> Coming(x, ks)
  BY <1>1, <1>3, <1>4 DEF Sending, Coming
<1>8. /\ ~Elsewhere(m) /\ state[m] # None /\ ~Coming(m, {"message"})
      /\ m \notin astray => st = state[m] \/ Coming(m, {"state"})
  BY <1>2, <1>3, <1>7 DEF UnsentOK, Unsent
<1>9. \A x : /\ ~About(ui, Label, x) /\ ~About(ui, {"row"}, x)
             /\ ~About(ui', Label, x) /\ ~About(ui', {"row"}, x) /\ ~About(ui', Note, x)
  <2>1. Label \in SUBSET {"row", "mark", "insert"} /\ {"row"} \in SUBSET {"row", "mark", "insert"}
    BY DEF Label
  <2>2. \A x : /\ About(ui, Label, x) <=> ui # <<>> /\ ui[1][1] \in Label /\ ui[1][2] = x
               /\ About(ui, {"row"}, x) <=> ui # <<>> /\ ui[1][1] \in {"row"} /\ ui[1][2] = x
    BY <1>2, <2>1, HeadOnly
  <2>3. \A x, ks : ~About(ui', ks, x)
    BY <1>4, EmptyFacts
  <2> QED BY <1>3, <2>2, <2>3 DEF Label
<1>10. \A x, s : ~Latest(ui, Label, x, s) /\ ~Latest(ui', Label, x, s)
  BY <1>9 DEF Latest, About
<1>11. RowsOK'
  <2>1. HasLabel(m) => m \in again
    BY <1>8 DEF Elsewhere
  <2> QED BY <1>1, <1>2, <1>5, <1>6, <1>9, <2>1, EmittedRows
<1>12. UnsentOK'
  <2>1. ASSUME NEW x \in Msg, Coming(x, {"message"})
        PROVE  ~Elsewhere(x)' /\ state'[x] # None /\ recv'[1][3] = state'[x]
    <3>1. ~Elsewhere(x) /\ state[x] # None /\ recv[1][3] = state[x] /\ x # m
      BY <1>2, <1>8, <2>1 DEF UnsentOK, Unsent
    <3>2. About(events', {"message"}, x) => About(events, {"message"}, x)
      BY <1>2, <1>5, <1>6, <3>1, EmittedAbout
    <3>3. ~Elsewhere(x)'
      BY <1>1, <1>9, <3>1, <3>2 DEF Elsewhere, About, HasLabel
    <3> QED BY <1>1, <3>1, <3>3
  <2> QED BY <1>7, <2>1 DEF UnsentOK, Unsent
<1>13. MarksOK'
  <2>1. \A x \in Msg : x # m => (Unsettled(x)' <=> Unsettled(x)) /\ (Unsent(x)' <=> Unsent(x))
    BY <1>7 DEF Unsettled, Unsent
  <2>2. m \notin astray' => m \notin astray
    BY <1>2, <1>5, <1>6, EmittedAbout
  <2>3. "state" \in Event
    BY DEF Event
  <2>4. Coming(m, {"state"}) => Unsettled(m)'
    BY <1>7, <2>3 DEF Unsettled, Coming
  <2>5. m \notin astray' /\ ~Unsettled(m)' => st = state[m]
    BY <1>8, <2>2, <2>4
  <2> QED BY <1>1, <1>2, <1>5, <1>6, <1>9, <1>10, <2>1, <2>5, EmittedMarks
<1>14. LogOK' /\ NoDoubleRow'
  BY <1>1, <1>2 DEF LogOK, NoDoubleRow
<1> QED BY <1>11, <1>12, <1>13, <1>14 DEF ConversationOK

\* The pump: the first event goes behind the functions that wait.
LEMMA PumpConversation ==
    ASSUME DesktopInv, PumpEvents
    PROVE  ConversationOK'
<1> DEFINE e == events[1]
<1>1. /\ QueuesOK /\ EventOnce /\ LogOK /\ RowsOK /\ UnsentOK /\ MarksOK /\ NoDoubleRow
      /\ events \in Seq(Func) /\ uiq \in Seq(Func)
  BY DEF DesktopInv, TrayInv, Base, ConversationOK, QueuesOK
<1>2. events # <<>> /\ UNCHANGED <<log, state, rows, open, again, astray, recv, ui, notifyPendingIDs>>
  BY DEF PumpEvents, coreVars, viewVars, noteVars, histVars
<1>3. e \in Func /\ events' = Tail(events) /\ uiq' = Append(uiq, e)
  BY <1>1, <1>2, TailFacts DEF PumpEvents, Do
<1>4. ASSUME NEW m, NEW ks
      PROVE  /\ About(events, ks, m) <=> About(events', ks, m) \/ (e[1] \in ks /\ e[2] = m)
             /\ About(uiq', ks, m) <=> About(uiq, ks, m) \/ (e[1] \in ks /\ e[2] = m)
  BY <1>1, <1>2, <1>3, AboutTail, AboutAppend
<1>5. \A m, st : (HasLabel(m)' <=> HasLabel(m)) /\ (Labelled(m, st)' <=> Labelled(m, st))
  BY <1>2 DEF HasLabel, Labelled
<1>6. LogOK' /\ NoDoubleRow'
  BY <1>1, <1>2 DEF LogOK, NoDoubleRow
<1>7. \A m, ks, st : /\ About(ui, ks, m)' <=> About(ui, ks, m)
                     /\ Latest(ui, ks, m, st)' <=> Latest(ui, ks, m, st)
  BY <1>2 DEF About, Latest
<1>8. RowsOK'
  BY <1>1, <1>2, <1>4, <1>5, <1>7 DEF RowsOK
<1>9. ASSUME NEW m \in Msg, MarkRight(m)
      PROVE  /\ About(events', Event, m) => Latest(events', Event, m, state[m])
             /\ ~About(events', Event, m) /\ About(uiq', Event, m) => Latest(uiq', Event, m, state[m])
  <2>1. /\ About(events, Event, m) => Latest(events, Event, m, state[m])
        /\ ~About(events, Event, m) /\ About(uiq, Event, m) => Latest(uiq, Event, m, state[m])
    BY <1>9 DEF MarkRight
  <2>2. Latest(events, Event, m, state[m]) =>
          IF About(events', Event, m) THEN Latest(events', Event, m, state[m])
          ELSE e[1] \in Event /\ e[2] = m /\ e[3] = state[m]
    BY <1>1, <1>2, <1>3, LatestTail
  <2>3. /\ e[1] \in Event /\ e[2] = m /\ e[3] = state[m] => Latest(uiq', Event, m, state[m])
        /\ ~(e[1] \in Event /\ e[2] = m) /\ Latest(uiq, Event, m, state[m])
             => Latest(uiq', Event, m, state[m])
    BY <1>1, <1>3, LatestAppend
  <2> QED BY <1>4, <2>1, <2>2, <2>3
<1>10. MarksOK'
  <2>1. \A m : (Unsent(m)' <=> Unsent(m)) /\ (Unsettled(m)' <=> Unsettled(m))
    BY <1>2, SameSending
  <2>2. \A m \in Msg : (MarkRight(m) => MarkRight(m)') /\ (Present(m) => Present(m)')
    <3> HIDE DEF e
    <3>1. \A m \in Msg : Present(m) => Present(m)'
      BY <1>4, <1>5, <1>7 DEF Present
    <3>2. ASSUME NEW m \in Msg, MarkRight(m) PROVE MarkRight(m)'
      <4>1. Labelled(m, state[m])' <=> Labelled(m, state[m])
        BY <1>2 DEF Labelled
      <4>2. ~About(events', Event, m) /\ ~About(uiq', Event, m) =>
              ~About(events, Event, m) /\ ~About(uiq, Event, m)
        BY <1>4
      <4> QED BY <1>2, <1>7, <1>9, <3>2, <4>1, <4>2 DEF MarkRight
    <3> QED BY <3>1, <3>2
  <2> QED BY <1>1, <1>2, <2>1, <2>2 DEF MarksOK
<1>11. UnsentOK'
  <2>1. ASSUME NEW m \in Msg PROVE ~Elsewhere(m) => ~Elsewhere(m)'
    <3> HIDE DEF e
    <3> QED BY <1>2, <1>4, <1>5, <1>7 DEF Elsewhere
  <2> QED BY <1>1, <1>2, <2>1, FrameUnsent
<1> QED BY <1>6, <1>8, <1>10, <1>11 DEF ConversationOK

LEMMA HeadLatest ==
    ASSUME NEW u \in Seq(Triple), Shape(u), u # <<>>, u[1][1] \in Label
    PROVE  /\ Latest(u, Label, u[1][2], u[1][3])
           /\ \A m, st : Latest(u, Label, m, st) => u[1][2] = m /\ u[1][3] = st
<1>1. Len(u) \in Nat \ {0}
  BY EmptySeq
<1>2. 1 \in 1 .. Len(u) /\ (\A i \in 1 .. Len(u) : i = 1 \/ i \in 2 .. Len(u)) /\ 1 + 1 = 2
  BY <1>1
<1>3. \A i \in 2 .. Len(u) : u[i][1] \notin Label
  BY FirstOnly DEF Label
<1> QED BY <1>2, <1>3 DEF Latest

\* The UI goroutine takes a function: the event becomes the steps for it.
LEMMA TakeConversation ==
    ASSUME DesktopInv, Take
    PROVE  ConversationOK'
<1> DEFINE f == uiq[1]
<1>1. /\ QueuesOK /\ EventOnce /\ LogOK /\ RowsOK /\ UnsentOK /\ MarksOK /\ NoDoubleRow
      /\ uiq \in Seq(Func)
  BY DEF DesktopInv, TrayInv, Base, ConversationOK, QueuesOK
<1>2. /\ ui = <<>> /\ uiq # <<>> /\ uiq' = Tail(uiq)
      /\ UNCHANGED <<log, state, rows, open, again, astray, recv, events, notifyPendingIDs>>
  BY DEF Take, Idle, coreVars, viewVars, noteVars, histVars
<1>3. f \in Func /\ Head(uiq) = f
  BY <1>1, <1>2, TailFacts
<1>4. Handles(f, ui')
  BY <1>3, BodyFacts DEF Take
<1>5. ui' \in Seq(Triple) /\ Shape(ui')
  BY <1>4 DEF Handles
<1>6. \A m, ks : ~About(ui, ks, m)
  BY <1>2, EmptyFacts
<1>7. ASSUME NEW m, NEW ks
      PROVE  About(uiq, ks, m) <=> About(uiq', ks, m) \/ (f[1] \in ks /\ f[2] = m)
  BY <1>1, <1>2, AboutTail
<1>8. /\ f[1] \in Event => /\ ui' # <<>> /\ ui'[1][1] \in Label /\ ui'[1][2] = f[2] /\ ui'[1][3] = f[3]
                           /\ ui'[1][1] = "row" <=> f[1] = "message"
      /\ f[1] \notin Event => (ui' # <<>> => ui'[1][1] \notin Label)
      /\ NoEmit(ui')
  <2>1. /\ <<"row", f[2], f[3]>>[1] = "row" /\ <<"row", f[2], f[3]>>[2] = f[2]
        /\ <<"row", f[2], f[3]>>[3] = f[3]
        /\ <<"mark", f[2], f[3]>>[1] = "mark" /\ <<"mark", f[2], f[3]>>[2] = f[2]
        /\ <<"mark", f[2], f[3]>>[3] = f[3]
    OBVIOUS
  <2>2. f[1] \in {"message", "state", "pending", "hide", "show", "reload", "click"}
    BY <1>3 DEF Func
  <2> QED BY <1>4, <2>1, <2>2 DEF Handles, Event, Label, NoEmit
<1>9. ASSUME NEW m
      PROVE  /\ About(ui', Label, m) <=> f[1] \in Event /\ f[2] = m
             /\ About(ui', {"row"}, m) <=> f[1] = "message" /\ f[2] = m
  <2>1. Label \in SUBSET {"row", "mark", "insert"} /\ {"row"} \in SUBSET {"row", "mark", "insert"}
    BY DEF Label
  <2>2. /\ About(ui', Label, m) <=> ui' # <<>> /\ ui'[1][1] \in Label /\ ui'[1][2] = m
        /\ About(ui', {"row"}, m) <=> ui' # <<>> /\ ui'[1][1] \in {"row"} /\ ui'[1][2] = m
    BY <1>5, <2>1, HeadOnly
  <2>3. "message" \in Event /\ "row" \in Label
    BY DEF Event, Label
  <2> QED BY <1>8, <2>2, <2>3
<1>10. f[1] \in Event => Latest(ui', Label, f[2], f[3])
  BY <1>5, <1>8, HeadLatest
<1>11. \A m, st : (HasLabel(m)' <=> HasLabel(m)) /\ (Labelled(m, st)' <=> Labelled(m, st))
  BY <1>2 DEF HasLabel, Labelled
<1>12. LogOK' /\ NoDoubleRow'
  BY <1>1, <1>2 DEF LogOK, NoDoubleRow
<1>13. RowsOK'
  BY <1>1, <1>2, <1>7, <1>9, <1>11 DEF RowsOK
<1>14. ASSUME NEW m \in Msg, MarkRight(m) PROVE MarkRight(m)'
  <2>1. /\ About(events, Event, m) => Latest(events, Event, m, state[m])
        /\ ~About(events, Event, m) /\ About(uiq, Event, m) => Latest(uiq, Event, m, state[m])
        /\ ~About(events, Event, m) /\ ~About(uiq, Event, m) /\ open => Labelled(m, state[m])
    BY <1>6, <1>14 DEF MarkRight
  <2>2. Latest(uiq, Event, m, state[m]) =>
          IF About(uiq', Event, m) THEN Latest(uiq', Event, m, state[m])
          ELSE f[1] \in Event /\ f[2] = m /\ f[3] = state[m]
    BY <1>1, <1>2, LatestTail
  <2>3. ~About(events, Event, m) =>
          /\ About(uiq', Event, m) => Latest(uiq', Event, m, state[m])
          /\ ~About(uiq', Event, m) => /\ About(ui', Label, m) => Latest(ui', Label, m, state[m])
                                       /\ ~About(ui', Label, m) /\ open => Labelled(m, state[m])
    BY <1>7, <1>9, <1>10, <2>1, <2>2
  <2>4. Labelled(m, state[m])' <=> Labelled(m, state[m])
    BY <1>2 DEF Labelled
  <2> HIDE DEF f
  <2> QED BY <1>2, <2>1, <2>3, <2>4 DEF MarkRight
<1>15. ASSUME NEW m \in Msg, Present(m) PROVE Present(m)'
  <2>1. HasLabel(m) \/ About(events, {"message"}, m) \/ About(uiq, {"message"}, m)
    BY <1>6, <1>15 DEF Present
  <2>2. About(uiq, {"message"}, m) => About(uiq', {"message"}, m) \/ About(ui', {"row"}, m)
    BY <1>7, <1>9
  <2>3. About(events', {"message"}, m) <=> About(events, {"message"}, m)
    BY <1>2
  <2> HIDE DEF f
  <2> QED BY <1>11, <2>1, <2>2, <2>3 DEF Present
<1>16. NoEmit(ui) /\ NoEmit(ui')
  BY <1>2, <1>8 DEF NoEmit
<1>17. MarksOK'
  <2>1. \A m : (Unsent(m)' <=> Unsent(m)) /\ (Unsettled(m)' <=> Unsettled(m))
    BY <1>2, <1>16, SameSending
  <2> HIDE DEF f
  <2> QED BY <1>1, <1>2, <1>14, <1>15, <2>1 DEF MarksOK
<1>18. UnsentOK'
  <2>1. ASSUME NEW m \in Msg, ~Elsewhere(m) PROVE ~Elsewhere(m)'
    <3>1. About(ui', Note, m) => About(uiq, {"message"}, m)
      BY <1>4, <1>7 DEF Handles
    <3>2. About(uiq', {"message"}, m) => About(uiq, {"message"}, m)
      BY <1>7
    <3>3. About(events', {"message"}, m) <=> About(events, {"message"}, m)
      BY <1>2
    <3> HIDE DEF f
    <3> QED BY <1>2, <1>11, <2>1, <3>1, <3>2, <3>3 DEF Elsewhere
  <2> QED BY <1>1, <1>2, <1>16, <2>1, FrameUnsent
<1> QED BY <1>12, <1>13, <1>17, <1>18 DEF ConversationOK

\* A function that is no event of a message goes to the UI goroutine.
LEMMA QueuedConversation ==
    ASSUME ConversationOK, QueuesOK, NEW f \in Func, f[1] \notin Event, uiq' = Append(uiq, f),
           UNCHANGED <<ConvVars, events>>, notifyPendingIDs' \subseteq notifyPendingIDs,
           \A m \in Msg : About(ui', Note, m) => About(ui, Note, m),
           \/ UNCHANGED ui
           \/ ui' \in Seq(Triple) /\ Shape(ui') /\ Unlabelled(ui) /\ Unlabelled(ui')
    PROVE  ConversationOK'
<1>1. uiq \in Seq(Func) /\ ui \in Seq(Triple) /\ Shape(ui)
  BY DEF QueuesOK
<1>2. UNCHANGED <<log, state, rows, open, again, astray, recv, events>>
  BY DEF ConvVars
<1>3. \A m, st : (HasLabel(m)' <=> HasLabel(m)) /\ (Labelled(m, st)' <=> Labelled(m, st))
  BY <1>2 DEF HasLabel, Labelled
<1>4. LogOK' /\ NoDoubleRow'
  BY <1>2 DEF LogOK, NoDoubleRow, ConversationOK
<1>5. ASSUME NEW m
      PROVE  /\ About(uiq', Event, m) <=> About(uiq, Event, m)
             /\ About(uiq', {"message"}, m) <=> About(uiq, {"message"}, m)
  <2>1. "message" \in Event
    BY DEF Event
  <2> QED BY <1>1, <2>1, AboutAppend
<1>6. \A m, st : Latest(uiq, Event, m, st) => Latest(uiq', Event, m, st)
  BY <1>1, LatestAppend
<1>7. \A m, st : /\ About(ui', Label, m) <=> About(ui, Label, m)
                 /\ About(ui', {"row"}, m) <=> About(ui, {"row"}, m)
                 /\ About(ui, Label, m) => (Latest(ui', Label, m, st) <=> Latest(ui, Label, m, st))
                 /\ ui' = ui \/ (NoEmit(ui) /\ NoEmit(ui'))
  <2>1. CASE UNCHANGED ui
    BY <2>1
  <2>2. CASE ui' \in Seq(Triple) /\ Shape(ui') /\ Unlabelled(ui) /\ Unlabelled(ui')
    BY <1>1, <2>2, UnlabelledFacts
  <2> QED BY <2>1, <2>2
<1>8. RowsOK'
  BY <1>2, <1>3, <1>5, <1>7 DEF RowsOK, ConversationOK
<1>9. MarksOK'
  <2>1. \A m : (Unsent(m)' <=> Unsent(m)) /\ (Unsettled(m)' <=> Unsettled(m))
    BY <1>2, <1>7, SameSending
  <2>2. ASSUME NEW m PROVE (MarkRight(m) => MarkRight(m)') /\ (Present(m) => Present(m)')
    <3>1. Labelled(m, state[m])' <=> Labelled(m, state[m])
      BY <1>2 DEF Labelled
    <3>2. /\ \A ks : About(events', ks, m) <=> About(events, ks, m)
          /\ \A st : Latest(events', Event, m, st) <=> Latest(events, Event, m, st)
      BY <1>2
    <3>3. MarkRight(m) => MarkRight(m)'
      BY <1>2, <1>5, <1>6, <1>7, <3>1, <3>2 DEF MarkRight
    <3>4. Present(m) => Present(m)'
      BY <1>3, <1>5, <1>7, <3>2 DEF Present
    <3> QED BY <3>3, <3>4
  <2> QED BY <1>2, <2>1, <2>2 DEF MarksOK, ConversationOK
<1>10. UnsentOK'
  BY <1>2, <1>5, <1>7, KeepUnsent DEF ConversationOK
<1> QED BY <1>4, <1>8, <1>9, <1>10 DEF ConversationOK

\* A new label.
LEMMA RowsAppend ==
    ASSUME rows \in Seq(Msg \X Mark), NEW m \in Msg, NEW st \in Mark, rows' = Append(rows, <<m, st>>)
    PROVE  /\ rows' \in Seq(Msg \X Mark) /\ Labelled(m, st)'
           /\ \A x : HasLabel(x)' <=> HasLabel(x) \/ x = m
           /\ \A x, s : x # m /\ Labelled(x, s) => Labelled(x, s)'
<1> DEFINE e == <<m, st>>
           n == Len(rows)
<1>1. e \in Msg \X Mark /\ e[1] = m
  OBVIOUS
<1>2. /\ rows' \in Seq(Msg \X Mark) /\ n \in Nat /\ Len(rows') = n + 1 /\ rows'[n + 1] = e
      /\ \A i \in 1 .. n : rows'[i] = rows[i]
  BY <1>1, AppendFacts
<1> HIDE DEF e, n
<1>3. /\ \A i \in 1 .. (n + 1) : i \in 1 .. n \/ i = n + 1
      /\ \A i \in 1 .. n : i \in 1 .. (n + 1)
      /\ n + 1 \in 1 .. (n + 1) /\ \A j \in ((n + 1) + 1) .. (n + 1) : FALSE
  BY <1>2
<1>4. ASSUME NEW x PROVE HasLabel(x)' <=> HasLabel(x) \/ x = m
  <2>1. HasLabel(x)' <=> \E i \in 1 .. (n + 1) : rows'[i][1] = x
    BY <1>2 DEF HasLabel
  <2>2. HasLabel(x) <=> \E i \in 1 .. n : rows[i][1] = x
    BY DEF HasLabel, n
  <2> QED BY <1>1, <1>2, <1>3, <2>1, <2>2
<1>5. Labelled(m, st)'
  <2>1. Labelled(m, st)' <=> \E i \in 1 .. (n + 1) :
          rows'[i] = <<m, st>> /\ \A j \in (i + 1) .. (n + 1) : rows'[j][1] # m
    BY <1>2 DEF Labelled
  <2> QED BY <1>2, <1>3, <2>1 DEF e
<1>6. ASSUME NEW x, NEW s, x # m, Labelled(x, s) PROVE Labelled(x, s)'
  <2>1. PICK i \in 1 .. n : rows[i] = <<x, s>> /\ \A j \in (i + 1) .. n : rows[j][1] # x
    BY <1>6 DEF Labelled, n
  <2>2. i \in 1 .. (n + 1) /\ rows'[i] = <<x, s>>
    BY <1>2, <1>3, <2>1
  <2>3. ASSUME NEW j \in (i + 1) .. (n + 1) PROVE rows'[j][1] # x
    <3>1. (j \in (i + 1) .. n /\ j \in 1 .. n) \/ j = n + 1
      BY <1>2
    <3> QED BY <1>1, <1>2, <1>6, <2>1, <3>1
  <2>4. Labelled(x, s)' <=> \E k \in 1 .. (n + 1) :
          rows'[k] = <<x, s>> /\ \A j \in (k + 1) .. (n + 1) : rows'[j][1] # x
    BY <1>2 DEF Labelled
  <2> QED BY <2>2, <2>3, <2>4
<1> QED BY <1>2, <1>4, <1>5, <1>6

\* markState changes the last label of the message.
LEMMA RowsMark ==
    ASSUME rows \in Seq(Msg \X Mark), NEW m \in Msg, NEW st \in Mark, NEW st0 \in Mark, Labelled(m, st0),
           rows' = [rows EXCEPT ![Max({i \in 1 .. Len(rows) : rows[i][1] = m})] = <<m, st>>]
    PROVE  /\ rows' \in Seq(Msg \X Mark) /\ Labelled(m, st)' /\ Len(rows') = Len(rows)
           /\ \A i \in 1 .. Len(rows) : rows'[i][1] = rows[i][1]
           /\ \A x : HasLabel(x)' <=> HasLabel(x)
           /\ \A x, s : x # m /\ Labelled(x, s) => Labelled(x, s)'
<1> DEFINE n == Len(rows)
           I == {i \in 1 .. n : rows[i][1] = m}
<1>1. PICK k \in 1 .. n : rows[k] = <<m, st0>> /\ \A j \in (k + 1) .. n : rows[j][1] # m
  BY DEF Labelled
<1>2. n \in Nat /\ k \in Nat /\ k <= n
  BY LenProperties
<1>3. Max(I) = k
  <2>1. k \in I
    BY <1>1
  <2>2. \A y \in I : k >= y /\ y \in Nat
    <3>1. SUFFICES ASSUME NEW y \in I PROVE k >= y /\ y \in Nat
      OBVIOUS
    <3>2. y \in 1 .. n /\ rows[y][1] = m
      OBVIOUS
    <3>3. y \notin (k + 1) .. n
      BY <1>1, <3>2
    <3> QED BY <1>2, <3>2, <3>3
  <2> HIDE DEF I
  <2>3. \A x \in I : (\A y \in I : x >= y) => x = k
    BY <1>2, <2>1, <2>2
  <2> QED BY <2>1, <2>2, <2>3 DEF Max
<1>4. rows' = [rows EXCEPT ![k] = <<m, st>>]
  BY <1>3
<1> HIDE DEF n, I
<1>5. /\ rows' \in Seq(Msg \X Mark) /\ Len(rows') = n /\ rows'[k] = <<m, st>>
      /\ \A i \in 1 .. n : i # k => rows'[i] = rows[i]
  <2>1. /\ <<m, st>> \in Msg \X Mark /\ DOMAIN rows = 1 .. n /\ n \in Nat
        /\ rows \in [1 .. n -> Msg \X Mark]
    BY LenProperties DEF n
  <2>2. rows' \in [1 .. n -> Msg \X Mark] /\ rows'[k] = <<m, st>> /\ \A i \in 1 .. n : i # k => rows'[i] = rows[i]
    BY <1>4, <2>1
  <2>3. rows' \in Seq(Msg \X Mark)
    BY <2>1, <2>2, IsASeq
  <2>4. DOMAIN rows' = 1 .. n
    BY <2>2
  <2>5. Len(rows') = n
    BY <2>1, <2>3, <2>4, LenProperties
  <2> QED BY <2>2, <2>3, <2>5
<1>6. /\ \A i \in 1 .. n : rows'[i][1] = rows[i][1]
      /\ rows[k][1] = m
  <2>1. rows[k][1] = m /\ rows'[k][1] = m
    BY <1>1, <1>5
  <2> QED BY <1>5, <2>1
<1>7. \A x : HasLabel(x)' <=> HasLabel(x)
  <2>1. \A x : /\ HasLabel(x)' <=> \E i \in 1 .. n : rows'[i][1] = x
               /\ HasLabel(x) <=> \E i \in 1 .. n : rows[i][1] = x
    BY <1>5 DEF HasLabel, n
  <2> QED BY <1>6, <2>1
<1>8. \A x, s : /\ Labelled(x, s)' <=> \E i \in 1 .. n :
                      rows'[i] = <<x, s>> /\ \A j \in (i + 1) .. n : rows'[j][1] # x
                /\ Labelled(x, s) <=> \E i \in 1 .. n :
                      rows[i] = <<x, s>> /\ \A j \in (i + 1) .. n : rows[j][1] # x
  BY <1>5 DEF Labelled, n
<1>9. \A i \in 1 .. n : \A j \in (i + 1) .. n : j \in 1 .. n
  BY <1>2 DEF n
<1>10. Labelled(m, st)'
  <2>1. k \in 1 .. n /\ \A j \in (k + 1) .. n : rows[j][1] # m
    BY <1>1 DEF n
  <2>2. \A j \in (k + 1) .. n : rows'[j][1] # m
    BY <1>6, <1>9, <2>1
  <2>3. Labelled(m, st)' <=> \E i \in 1 .. n :
          rows'[i] = <<m, st>> /\ \A j \in (i + 1) .. n : rows'[j][1] # m
    BY <1>8
  <2> QED BY <1>5, <2>1, <2>2, <2>3
<1>11. ASSUME NEW x, NEW s, x # m, Labelled(x, s) PROVE Labelled(x, s)'
  <2>1. PICK i \in 1 .. n : rows[i] = <<x, s>> /\ \A j \in (i + 1) .. n : rows[j][1] # x
    BY <1>8, <1>11
  <2>2. rows[i][1] = x
    BY <2>1
  <2>3. i # k
    BY <1>6, <1>11, <2>2
  <2>4. rows'[i] = <<x, s>> /\ \A j \in (i + 1) .. n : rows'[j][1] # x
    BY <1>5, <1>6, <1>9, <2>1, <2>3
  <2> QED BY <1>8, <2>4
<1> QED BY <1>5, <1>6, <1>7, <1>10, <1>11 DEF n

\* appendMessage.
LEMMA AppendConversation ==
    ASSUME DesktopInv, AppendMessage
    PROVE  ConversationOK'
<1>1. /\ QueuesOK /\ EventOnce /\ LogOK /\ RowsOK /\ UnsentOK /\ MarksOK /\ NoDoubleRow
      /\ ui \in Seq(Triple) /\ Shape(ui)
  BY DEF DesktopInv, TrayInv, Base, ConversationOK, QueuesOK
<1>2. /\ ui # <<>> /\ ui' = Tail(ui) /\ At("row")
      /\ UNCHANGED <<log, state, open, again, astray, recv, events, uiq, notifyPendingIDs>>
  BY DEF AppendMessage, At, coreVars, noteVars, histVars
<1>3. PICK m \in Msg, st \in Mark :
        /\ ui[1][1] = "row" /\ The = m /\ ItsMark = st /\ ui[1][2] = m /\ ui[1][3] = st
        /\ ui' \in Seq(Triple) /\ Shape(ui') /\ Unlabelled(ui')
        /\ \A x : About(ui', Note, x) => About(ui, Note, x)
  BY <1>1, <1>2, Popped, StepTypes
<1>4. rows' = IF open THEN Append(rows, <<m, st>>) ELSE rows
  BY <1>3 DEF AppendMessage
<1>5. \A x : ~About(ui', Label, x) /\ ~About(ui', {"row"}, x)
  BY <1>3, UnlabelledFacts
<1>6. /\ \A x : About(ui, Label, x) <=> x = m
      /\ About(ui, {"row"}, m) /\ About(ui, Note, m)
      /\ \A x, s : Latest(ui, Label, x, s) => s = st
  <2>1. Label \in SUBSET {"row", "mark", "insert"} /\ "row" \in Label /\ "row" \in Note
    BY DEF Label, Note
  <2>2. \A x : About(ui, Label, x) <=> ui # <<>> /\ ui[1][1] \in Label /\ ui[1][2] = x
    BY <1>1, <2>1, HeadOnly
  <2>3. 1 \in 1 .. Len(ui)
    BY <1>1, <1>2, EmptySeq
  <2>4. About(ui, {"row"}, m) /\ About(ui, Note, m)
    BY <1>3, <2>1, <2>3 DEF About
  <2>5. \A x, s : Latest(ui, Label, x, s) => s = st
    BY <1>1, <1>2, <1>3, <2>1, HeadLatest
  <2> QED BY <1>2, <1>3, <2>1, <2>2, <2>4, <2>5
<1>7. state[m] # None /\ ~About(events, {"message"}, m) /\ ~About(uiq, {"message"}, m)
  BY <1>1, <1>3, <1>6 DEF EventOnce
<1>8. LogOK'
  BY <1>1, <1>2 DEF LogOK
<1>9. \A x, ks, s : /\ About(events, ks, x)' <=> About(events, ks, x)
                    /\ About(uiq, ks, x)' <=> About(uiq, ks, x)
                    /\ Latest(events, ks, x, s)' <=> Latest(events, ks, x, s)
                    /\ Latest(uiq, ks, x, s)' <=> Latest(uiq, ks, x, s)
  BY <1>2 DEF About, Latest
<1>10a. NoEmit(ui) /\ NoEmit(ui')
  BY <1>3, UnlabelledFacts DEF NoEmit
<1>10b. \A x : (Unsent(x)' <=> Unsent(x)) /\ (Unsettled(x)' <=> Unsettled(x))
  BY <1>2, <1>10a, SameSending
<1>10c. UnsentOK'
  <2>1. ASSUME NEW x \in Msg, ~Elsewhere(x) PROVE ~Elsewhere(x)'
    <3>1. x # m
      BY <1>6, <2>1 DEF Elsewhere
    <3>2. HasLabel(x)' <=> HasLabel(x)
      <4>1. CASE open
        <5>1. rows \in Seq(Msg \X Mark) /\ rows' = Append(rows, <<m, st>>)
          BY <1>1, <1>4, <4>1 DEF RowsOK
        <5> QED BY <1>3, <3>1, <5>1, RowsAppend
      <4>2. CASE ~open
        BY <1>4, <4>2 DEF HasLabel
      <4> QED BY <4>1, <4>2
    <3> QED BY <1>2, <1>3, <1>9, <2>1, <3>2 DEF Elsewhere
  <2> QED BY <1>1, <1>2, <1>10a, <2>1, FrameUnsent
<1>10. CASE open
  <2>0. rows \in Seq(Msg \X Mark) /\ rows' = Append(rows, <<m, st>>)
    BY <1>1, <1>4, <1>10 DEF RowsOK
  <2>1. /\ rows' \in Seq(Msg \X Mark) /\ Labelled(m, st)'
        /\ \A x : HasLabel(x)' <=> HasLabel(x) \/ x = m
        /\ \A x, s : x # m /\ Labelled(x, s) => Labelled(x, s)'
    BY <1>3, <2>0, RowsAppend
  <2>2. HasLabel(m) => m \in again
    BY <1>1, <1>3, <1>6 DEF RowsOK
  <2>3. NoDoubleRow'
    <3> DEFINE n == Len(rows)
    <3>1. /\ n \in Nat /\ Len(rows') = n + 1 /\ rows'[n + 1] = <<m, st>>
          /\ \A i \in 1 .. n : rows'[i] = rows[i]
      BY <1>3, <2>0, AppendFacts
    <3>2. \A i, j \in 1 .. n : i # j /\ rows[i][1] = rows[j][1] => rows[i][1] \in again
      BY <1>1 DEF NoDoubleRow
    <3>3. \A i \in 1 .. n : rows[i][1] = m => m \in again
      BY <2>2 DEF HasLabel
    <3> HIDE DEF n
    <3>4. \A i \in 1 .. (n + 1) : i \in 1 .. n \/ i = n + 1
      BY <3>1
    <3>5. rows'[n + 1][1] = m
      BY <3>1
    <3>6. \A i, j \in 1 .. (n + 1) : i # j /\ rows'[i][1] = rows'[j][1] => rows'[i][1] \in again
      BY <3>1, <3>2, <3>3, <3>4, <3>5
    <3> QED BY <1>2, <3>1, <3>6 DEF NoDoubleRow
  <2>4. RowsOK'
    <3>1. ASSUME NEW x \in Msg, HasLabel(x)'
          PROVE  /\ state[x] # None /\ \E s \in Mark : Labelled(x, s)'
                 /\ x \notin again => ~About(events, {"message"}, x) /\ ~About(uiq, {"message"}, x)
      <4>1. CASE x = m
        BY <1>3, <1>7, <2>1, <4>1
      <4>2. CASE x # m
        BY <1>1, <2>1, <3>1, <4>2 DEF RowsOK
      <4> QED BY <4>1, <4>2
    <3> QED BY <1>1, <1>2, <1>5, <1>9, <1>10, <2>1, <3>1 DEF RowsOK
  <2>5. ASSUME NEW x \in Msg
        PROVE  (MarkRight(x) => MarkRight(x)') /\ (Present(x) => Present(x)')
    <3>1. MarkRight(x) =>
          /\ About(events, Event, x) => Latest(events, Event, x, state[x])
          /\ ~About(events, Event, x) /\ About(uiq, Event, x) => Latest(uiq, Event, x, state[x])
          /\ ~About(events, Event, x) /\ ~About(uiq, Event, x) =>
              /\ About(ui, Label, x) => Latest(ui, Label, x, state[x])
              /\ ~About(ui, Label, x) => Labelled(x, state[x])
      BY <1>10 DEF MarkRight
    <3>2. About(ui, {"row"}, x) => x = m
      BY <1>6 DEF About, Label
    <3>3. Present(x) => Present(x)'
      BY <1>9, <2>1, <3>2 DEF Present
    <3>4. CASE x = m
      <4>1. MarkRight(x) /\ ~About(events, Event, x) /\ ~About(uiq, Event, x) => state[x] = st
        BY <1>6, <3>1, <3>4
      <4>2. state[x] = st => Labelled(x, state[x])'
        BY <1>2, <2>1, <3>4 DEF Labelled
      <4>3. MarkRight(x) => MarkRight(x)'
        BY <1>2, <1>5, <1>9, <3>1, <4>1, <4>2 DEF MarkRight
      <4> QED BY <3>3, <4>3
    <3>5. CASE x # m
      <4>1. Labelled(x, state[x]) => Labelled(x, state[x])'
        BY <1>2, <2>1, <3>5 DEF Labelled
      <4>2. ~About(ui, Label, x)
        BY <1>6, <3>5
      <4>3. MarkRight(x) => MarkRight(x)'
        BY <1>2, <1>5, <1>9, <3>1, <4>1, <4>2 DEF MarkRight
      <4> QED BY <3>3, <4>3
    <3> QED BY <3>4, <3>5
  <2>6. MarksOK'
    BY <1>1, <1>2, <1>10b, <2>5 DEF MarksOK
  <2> QED BY <1>8, <1>10c, <2>3, <2>4, <2>6 DEF ConversationOK
<1>11. CASE ~open
  <2>1. UNCHANGED rows
    BY <1>4, <1>11
  <2>2. \A x, s : (HasLabel(x)' <=> HasLabel(x)) /\ (Labelled(x, s)' <=> Labelled(x, s))
    BY <2>1 DEF HasLabel, Labelled
  <2>3. NoDoubleRow'
    BY <1>1, <1>2, <2>1 DEF NoDoubleRow
  <2>4. RowsOK'
    BY <1>1, <1>2, <1>5, <1>9, <2>1, <2>2 DEF RowsOK
  <2>5. MarksOK'
    <3>1. ASSUME NEW x \in Msg, MarkRight(x) PROVE MarkRight(x)'
      BY <1>2, <1>5, <1>9, <1>11, <3>1 DEF MarkRight
    <3> QED BY <1>1, <1>2, <1>10b, <1>11, <3>1 DEF MarksOK
  <2> QED BY <1>8, <1>10c, <2>3, <2>4, <2>5 DEF ConversationOK
<1>12. open \in BOOLEAN
  BY <1>1 DEF RowsOK
<1> QED BY <1>10, <1>11

\* markState.
LEMMA MarkStateConversation ==
    ASSUME DesktopInv, MarkState
    PROVE  ConversationOK'
<1>1. /\ QueuesOK /\ EventOnce /\ LogOK /\ RowsOK /\ UnsentOK /\ MarksOK /\ NoDoubleRow
      /\ ui \in Seq(Triple) /\ Shape(ui) /\ rows \in Seq(Msg \X Mark)
  BY DEF DesktopInv, TrayInv, Base, ConversationOK, QueuesOK, RowsOK
<1>2. /\ ui # <<>> /\ ui' = Tail(ui) /\ At("mark")
      /\ UNCHANGED <<log, state, open, again, astray, recv, events, uiq, notifyPendingIDs>>
  BY DEF MarkState, At, coreVars, noteVars, histVars
<1>3. PICK m \in Msg, st \in Mark :
        /\ ui[1][1] = "mark" /\ The = m /\ ItsMark = st /\ ui[1][2] = m /\ ui[1][3] = st
        /\ ui' \in Seq(Triple) /\ Shape(ui') /\ Unlabelled(ui')
        /\ \A x : About(ui', Note, x) => About(ui, Note, x)
  BY <1>1, <1>2, Popped, StepTypes
<1>4. \A x : ~About(ui', Label, x) /\ ~About(ui', {"row"}, x)
  BY <1>3, UnlabelledFacts
<1>5. /\ \A x : (About(ui, Label, x) <=> x = m) /\ ~About(ui, {"row"}, x)
      /\ \A x, s : Latest(ui, Label, x, s) => s = st
  <2>1. /\ Label \in SUBSET {"row", "mark", "insert"} /\ "mark" \in Label
        /\ {"row"} \in SUBSET {"row", "mark", "insert"}
    BY DEF Label
  <2>2. \A x : /\ About(ui, Label, x) <=> ui # <<>> /\ ui[1][1] \in Label /\ ui[1][2] = x
               /\ About(ui, {"row"}, x) <=> ui # <<>> /\ ui[1][1] \in {"row"} /\ ui[1][2] = x
    BY <1>1, <2>1, HeadOnly
  <2>3. \A x, s : Latest(ui, Label, x, s) => s = st
    BY <1>1, <1>2, <1>3, <2>1, HeadLatest
  <2> QED BY <1>2, <1>3, <2>1, <2>2, <2>3
<1>6. LogOK'
  BY <1>1, <1>2 DEF LogOK
<1>7. \A x, ks, s : /\ About(events, ks, x)' <=> About(events, ks, x)
                    /\ About(uiq, ks, x)' <=> About(uiq, ks, x)
                    /\ Latest(events, ks, x, s)' <=> Latest(events, ks, x, s)
                    /\ Latest(uiq, ks, x, s)' <=> Latest(uiq, ks, x, s)
  BY <1>2 DEF About, Latest
<1>8. \A x : About(events, {"message"}, x) => About(events, Event, x)
  BY DEF About, Event
<1>9. \A x : About(uiq, {"message"}, x) => About(uiq, Event, x)
  BY DEF About, Event
<1>10a. NoEmit(ui) /\ NoEmit(ui')
  BY <1>3, UnlabelledFacts DEF NoEmit
<1>10b. \A x : (Unsent(x)' <=> Unsent(x)) /\ (Unsettled(x)' <=> Unsettled(x))
  BY <1>2, <1>10a, SameSending
<1>10c. ASSUME \A x : HasLabel(x)' <=> HasLabel(x) PROVE UnsentOK'
  <2>1. \A x \in Msg : ~Elsewhere(x) => ~Elsewhere(x)'
    BY <1>2, <1>3, <1>7, <1>10c DEF Elsewhere
  <2> QED BY <1>1, <1>2, <1>10a, <2>1, FrameUnsent
<1>10. CASE HasLabel(m)
  <2>1. PICK st0 \in Mark : Labelled(m, st0)
    BY <1>1, <1>3, <1>10 DEF RowsOK
  <2>2. rows' = [rows EXCEPT ![Max({i \in 1 .. Len(rows) : rows[i][1] = m})] = <<m, st>>]
    BY <1>3, <1>10 DEF MarkState, HasLabel
  <2>3. /\ rows' \in Seq(Msg \X Mark) /\ Labelled(m, st)' /\ Len(rows') = Len(rows)
        /\ \A i \in 1 .. Len(rows) : rows'[i][1] = rows[i][1]
        /\ \A x : HasLabel(x)' <=> HasLabel(x)
        /\ \A x, s : x # m /\ Labelled(x, s) => Labelled(x, s)'
    BY <1>1, <1>3, <2>1, <2>2, RowsMark
  <2>4. NoDoubleRow'
    BY <1>1, <1>2, <2>3 DEF NoDoubleRow
  <2>5. open
    <3>1. ~open => rows = <<>>
      BY <1>1 DEF RowsOK
    <3>2. rows # <<>>
      BY <1>10 DEF HasLabel
    <3> QED BY <3>1, <3>2
  <2>6. RowsOK'
    <3>1. ASSUME NEW x \in Msg, HasLabel(x)'
          PROVE  /\ state[x] # None /\ \E s \in Mark : Labelled(x, s)'
                 /\ x \notin again => ~About(events, {"message"}, x) /\ ~About(uiq, {"message"}, x)
      <4>1. /\ state[x] # None /\ \E s \in Mark : Labelled(x, s)
            /\ x \notin again => ~About(events, {"message"}, x) /\ ~About(uiq, {"message"}, x)
        BY <1>1, <2>3, <3>1 DEF RowsOK
      <4> QED BY <1>3, <2>3, <4>1
    <3>2. open' \in BOOLEAN /\ open'
      BY <1>1, <1>2, <2>5 DEF RowsOK
    <3> QED BY <1>2, <1>4, <1>7, <2>3, <3>1, <3>2 DEF RowsOK
  <2>7. ASSUME NEW x \in Msg
        PROVE  (MarkRight(x) => MarkRight(x)') /\ (Present(x) => Present(x)')
    <3>1. MarkRight(x) =>
          /\ About(events, Event, x) => Latest(events, Event, x, state[x])
          /\ ~About(events, Event, x) /\ About(uiq, Event, x) => Latest(uiq, Event, x, state[x])
          /\ ~About(events, Event, x) /\ ~About(uiq, Event, x) =>
              /\ About(ui, Label, x) => Latest(ui, Label, x, state[x])
              /\ ~About(ui, Label, x) => Labelled(x, state[x])
      BY <2>5 DEF MarkRight
    <3>2. Present(x) => Present(x)'
      BY <1>5, <1>7, <2>3 DEF Present
    <3>3. CASE x = m
      <4>1. MarkRight(x) /\ ~About(events, Event, x) /\ ~About(uiq, Event, x) => state[x] = st
        BY <1>5, <3>1, <3>3
      <4>2. state[x] = st => Labelled(x, state[x])'
        BY <1>2, <2>3, <3>3 DEF Labelled
      <4>3. MarkRight(x) => MarkRight(x)'
        BY <1>2, <1>4, <1>7, <3>1, <4>1, <4>2 DEF MarkRight
      <4> QED BY <3>2, <4>3
    <3>4. CASE x # m
      <4>1. Labelled(x, state[x]) => Labelled(x, state[x])'
        BY <1>2, <2>3, <3>4 DEF Labelled
      <4>2. ~About(ui, Label, x)
        BY <1>5, <3>4
      <4>3. MarkRight(x) => MarkRight(x)'
        BY <1>2, <1>4, <1>7, <3>1, <4>1, <4>2 DEF MarkRight
      <4> QED BY <3>2, <4>3
    <3> QED BY <3>3, <3>4
  <2>8. MarksOK'
    BY <1>1, <1>2, <1>10b, <2>7 DEF MarksOK
  <2>9. UnsentOK'
    BY <1>10c, <2>3
  <2> QED BY <1>6, <2>4, <2>6, <2>8, <2>9 DEF ConversationOK
<1>11. CASE ~HasLabel(m)
  <2>1. UNCHANGED rows
    BY <1>3, <1>11 DEF MarkState, HasLabel
  <2>2. \A x, s : (HasLabel(x)' <=> HasLabel(x)) /\ (Labelled(x, s)' <=> Labelled(x, s))
    BY <2>1 DEF HasLabel, Labelled
  <2>3. NoDoubleRow'
    BY <1>1, <1>2, <2>1 DEF NoDoubleRow
  <2>4. RowsOK'
    BY <1>1, <1>2, <1>4, <1>7, <2>1, <2>2 DEF RowsOK
  <2>5. ASSUME NEW x \in Msg, x \notin astray, state[x] # None
        PROVE  (~Unsettled(x) => MarkRight(x)') /\ (open => Present(x)' \/ Unsent(x))
    <3>1. (~Unsettled(x) => MarkRight(x)) /\ (open => Present(x) \/ Unsent(x))
      BY <1>1, <2>5 DEF MarksOK
    <3>2. Present(x) => Present(x)'
      BY <1>5, <1>7, <2>2 DEF Present
    <3>3. Labelled(x, state[x])' <=> Labelled(x, state[x])
      BY <1>2, <2>1 DEF Labelled
    <3>4. CASE x = m
      <4>1. Present(x) => About(events, Event, x) \/ About(uiq, Event, x)
        BY <1>5, <1>8, <1>9, <1>11, <3>4 DEF Present
      <4>2. Unsent(x) => Unsettled(x)
        BY DEF Unsent, Unsettled, Coming, Event
      <4>3. ~Unsettled(x) /\ open => About(events, Event, x) \/ About(uiq, Event, x)
        BY <3>1, <4>1, <4>2
      <4>4. ~Unsettled(x) => MarkRight(x)'
        BY <1>2, <1>4, <1>7, <3>1, <4>3 DEF MarkRight
      <4> QED BY <3>1, <3>2, <4>4
    <3>5. CASE x # m
      <4>1. ~About(ui, Label, x)
        BY <1>5, <3>5
      <4>2. MarkRight(x) => MarkRight(x)'
        BY <1>2, <1>4, <1>7, <3>3, <4>1 DEF MarkRight
      <4> QED BY <3>1, <3>2, <4>2
    <3> QED BY <3>4, <3>5
  <2>6. MarksOK'
    BY <1>2, <1>10b, <2>5 DEF MarksOK
  <2>7. UnsentOK'
    BY <1>10c, <2>2
  <2> QED BY <1>6, <2>3, <2>4, <2>6, <2>7 DEF ConversationOK
<1> QED BY <1>10, <1>11

LEMMA UnderWayFacts ==
    ASSUME QueuesOK, NEW m, NEW ks
    PROVE  UnderWay(m, ks) <=> Coming(m, ks) \/ About(events, ks, m) \/ About(uiq, ks, m)
<1>1. About(recv, ks, m) <=> Coming(m, ks)
  <2>1. recv \in Seq(Func) /\ Len(recv) \in {0, 1} /\ (recv = <<>> <=> Len(recv) = 0)
    BY EmptySeq DEF QueuesOK
  <2>2. CASE recv = <<>>
    BY <2>2, EmptyFacts DEF Coming
  <2>3. CASE recv # <<>>
    <3>0. Len(recv) = 1
      BY <2>1, <2>3
    <3>1. 1 .. Len(recv) = {1}
      BY <3>0
    <3> QED BY <2>3, <3>1 DEF About, Coming
  <2> QED BY <2>2, <2>3
<1>2. UnderWay(m, ks) <=> About(recv, ks, m) \/ About(events, ks, m) \/ About(uiq, ks, m)
  BY DEF UnderWay, About
<1> QED BY <1>1, <1>2

\* selectPeer and setPeer.
LEMMA SelectConversation ==
    ASSUME DesktopInv, SelectPeer
    PROVE  ConversationOK'
<1> DEFINE n == Len(log)
<1>1. /\ QueuesOK /\ EventOnce /\ LogOK /\ RowsOK /\ UnsentOK /\ MarksOK
      /\ state \in [Msg -> Mark \union {None}]
  BY DEF DesktopInv, TrayInv, Base, ConversationOK, TypeOK
<1>2. /\ ui = <<>> /\ open' = TRUE /\ UNCHANGED <<log, state, recv, events, uiq, ui, notifyPendingIDs>>
      /\ rows' = [i \in 1 .. n |-> <<log[i], state[log[i]]>>]
      /\ again' = again \union {m \in Msg : state[m] # None /\ UnderWay(m, {"message"})}
      /\ astray' = {m \in astray : UnderWay(m, {"message", "state"})}
  BY DEF SelectPeer, Act, Idle, coreVars, queueVars, noteVars
<1>3. /\ log \in Seq(Msg) /\ n \in Nat /\ DOMAIN log = 1 .. n
      /\ \A i, j \in 1 .. n : log[i] = log[j] => i = j
      /\ \A m \in Msg : state[m] # None <=> \E i \in 1 .. n : log[i] = m
  BY <1>1, LenProperties DEF LogOK
<1>4. \A i \in 1 .. n : log[i] \in Msg /\ state[log[i]] \in Mark
  <2>1. \A i \in 1 .. n : log[i] \in Msg
    BY <1>3
  <2> QED BY <1>1, <1>3, <2>1
<1> HIDE DEF n
<1>5. /\ rows' \in Seq(Msg \X Mark) /\ Len(rows') = n
      /\ \A i \in 1 .. n : rows'[i] = <<log[i], state[log[i]]>> /\ rows'[i][1] = log[i]
  <2>1. rows' \in [1 .. n -> Msg \X Mark] /\ \A i \in 1 .. n : rows'[i] = <<log[i], state[log[i]]>>
    BY <1>2, <1>4
  <2>2. rows' \in Seq(Msg \X Mark)
    BY <1>3, <2>1, IsASeq
  <2>3. DOMAIN rows' = 1 .. n
    BY <2>1
  <2>4. Len(rows') = n
    BY <1>3, <2>2, <2>3, LenProperties
  <2> QED BY <2>1, <2>2, <2>4
<1>6. \A m, ks : ~About(ui', ks, m)
  BY <1>2, EmptyFacts
<1>7. \A m, ks, s : /\ About(events, ks, m)' <=> About(events, ks, m)
                    /\ About(uiq, ks, m)' <=> About(uiq, ks, m)
                    /\ Latest(events, ks, m, s)' <=> Latest(events, ks, m, s)
                    /\ Latest(uiq, ks, m, s)' <=> Latest(uiq, ks, m, s)
  BY <1>2 DEF About, Latest
<1>8. \A m, ks : UnderWay(m, ks) <=> Coming(m, ks) \/ About(events, ks, m) \/ About(uiq, ks, m)
  BY <1>1, UnderWayFacts
<1>9. LogOK'
  BY <1>1, <1>2 DEF LogOK
<1>10. NoDoubleRow'
  BY <1>3, <1>5 DEF NoDoubleRow
<1>11. ASSUME NEW m \in Msg
       PROVE  /\ HasLabel(m)' <=> state[m] # None
              /\ state[m] # None => Labelled(m, state[m])'
  <2>1. HasLabel(m)' <=> \E i \in 1 .. n : rows'[i][1] = m
    BY <1>5 DEF HasLabel
  <2>2. HasLabel(m)' <=> state[m] # None
    BY <1>3, <1>5, <2>1
  <2>3. ASSUME state[m] # None PROVE Labelled(m, state[m])'
    <3>1. PICK i \in 1 .. n : log[i] = m
      BY <1>3, <2>3
    <3>2. rows'[i] = <<m, state'[m]>>
      BY <1>2, <1>5, <3>1
    <3>3. ASSUME NEW j \in (i + 1) .. n PROVE rows'[j][1] # m
      <4>1. j \in 1 .. n /\ j # i
        BY <1>3
      <4> QED BY <1>3, <1>5, <3>1, <4>1
    <3> QED BY <1>5, <3>2, <3>3 DEF Labelled
  <2> QED BY <2>2, <2>3
<1>12. RowsOK'
  <2>1. ASSUME NEW m \in Msg, HasLabel(m)'
        PROVE  /\ state'[m] # None /\ \E s \in Mark : Labelled(m, s)'
               /\ m \notin again' => ~About(events, {"message"}, m) /\ ~About(uiq, {"message"}, m)
    <3>1. state[m] # None /\ state[m] \in Mark /\ Labelled(m, state[m])' /\ state' = state
      BY <1>1, <1>2, <1>11, <2>1
    <3>2. \E s \in Mark : Labelled(m, s)'
      <4>1. PICK s \in Mark : s = state[m]
        BY <3>1
      <4>2. Labelled(m, s)'
        BY <3>1, <4>1 DEF Labelled
      <4> QED BY <4>2
    <3> QED BY <1>2, <1>8, <3>1, <3>2
  <2> QED BY <1>2, <1>5, <1>6, <1>7, <2>1 DEF RowsOK
<1>13. \A m : (Unsent(m)' <=> Coming(m, {"message"})) /\ (Unsettled(m)' <=> Coming(m, Event)) /\ ~Sending(m)'
  BY <1>2 DEF Unsent, Unsettled, Sending, Coming
<1>14. ASSUME NEW m \in Msg, m \notin astray', state[m] # None, ~Unsettled(m)' PROVE MarkRight(m)'
  <2>1. m \notin astray \/ (~About(events, Event, m) /\ ~About(uiq, Event, m))
    BY <1>2, <1>8, <1>14 DEF Event
  <2>2. ~Unsettled(m)
    BY <1>2, <1>13, <1>14 DEF Unsettled, Sending
  <2>3. m \notin astray => MarkRight(m)
    BY <1>1, <1>14, <2>2 DEF MarksOK
  <2>4. /\ About(events, Event, m) => Latest(events, Event, m, state[m])
        /\ ~About(events, Event, m) /\ About(uiq, Event, m) => Latest(uiq, Event, m, state[m])
    BY <2>1, <2>3 DEF MarkRight
  <2>5. Labelled(m, state[m])'
    BY <1>11, <1>14
  <2> QED BY <1>2, <1>6, <1>7, <2>4, <2>5 DEF MarkRight
<1>15. MarksOK'
  <2>1. \A m \in Msg : state[m] # None => Present(m)'
    BY <1>11 DEF Present
  <2> QED BY <1>2, <1>14, <2>1 DEF MarksOK
<1>16. UnsentOK'
  <2>1. ASSUME NEW m \in Msg, Coming(m, {"message"})
        PROVE  ~Elsewhere(m)' /\ state[m] # None /\ recv[1][3] = state[m]
    <3>1. ~Elsewhere(m) /\ state[m] # None /\ recv[1][3] = state[m]
      BY <1>1, <2>1 DEF UnsentOK, Unsent
    <3>2. m \in again'
      BY <1>2, <1>8, <2>1, <3>1
    <3> QED BY <1>2, <1>6, <1>7, <3>1, <3>2 DEF Elsewhere
  <2>2. \A m, ks : Coming(m, ks)' <=> Coming(m, ks)
    BY <1>2 DEF Coming
  <2> QED BY <1>2, <1>13, <2>1, <2>2 DEF UnsentOK
<1> QED BY <1>9, <1>10, <1>12, <1>15, <1>16 DEF ConversationOK

-----------------------------------------------------------------------------
(* Each message has its event once.                                        *)

\* Steps of the UI goroutine that begin no function of a message.
LEMMA UiOnce ==
    ASSUME EventOnce, UNCHANGED <<events, uiq, state, notifyPendingIDs>>,
           \A m \in Msg : /\ About(ui', Note, m) => About(ui, Note, m)
                          /\ About(ui', {"insert"}, m) => state[m] = None
    PROVE  EventOnce'
<1>1. \A m, ks : /\ About(events, ks, m)' <=> About(events, ks, m)
                 /\ About(uiq, ks, m)' <=> About(uiq, ks, m)
  BY DEF About
<1> QED BY <1>1 DEF EventOnce, Once

\* A function that is no message goes to the UI goroutine.
LEMMA QueuedOnce ==
    ASSUME EventOnce, QueuesOK, NEW f \in Func, f[1] # "message", uiq' = Append(uiq, f),
           UNCHANGED <<events, state>>, notifyPendingIDs' \subseteq notifyPendingIDs,
           \A m \in Msg : /\ About(ui', Note, m) => About(ui, Note, m)
                          /\ About(ui', {"insert"}, m) => state[m] = None
    PROVE  EventOnce'
<1>1. uiq \in Seq(Func)
  BY DEF QueuesOK
<1>2. \A m : About(uiq', {"message"}, m) <=> About(uiq, {"message"}, m)
  BY <1>1, AboutAppend
<1>3. Once(uiq')
  BY <1>1, OnceAppend DEF EventOnce
<1>4. \A m, ks : About(events, ks, m)' <=> About(events, ks, m)
  BY DEF About
<1> QED BY <1>2, <1>3, <1>4 DEF EventOnce, Once

\* An event is emitted, of a message the first.
LEMMA EmittedEventOnce ==
    ASSUME EventOnce, QueuesOK, NEW e \in Func, Emit(e),
           e[1] = "message" => ~Elsewhere(e[2]) /\ state[e[2]] # None,
           UNCHANGED <<state, uiq, notifyPendingIDs>>,
           \A m \in Msg : /\ About(ui', Note, m) => About(ui, Note, m)
                          /\ About(ui', {"insert"}, m) => About(ui, {"insert"}, m)
    PROVE  EventOnce'
<1>1. events \in Seq(Func)
  BY DEF QueuesOK
<1>2. \A x : About(events', {"message"}, x) =>
         About(events, {"message"}, x) \/ (e[1] = "message" /\ x = e[2])
  BY <1>1, EmittedAbout
<1>3. Once(events')
  <2>1. e[1] = "message" => ~About(events, {"message"}, e[2])
    BY DEF Elsewhere
  <2> QED BY <1>1, <2>1, EmittedOnce DEF EventOnce
<1>4. Once(uiq')
  BY DEF EventOnce, Once
<1>5. \A m, ks : About(uiq, ks, m)' <=> About(uiq, ks, m)
  BY DEF About
<1>6. ASSUME NEW m \in Msg
      PROVE  /\ About(events', {"message"}, m) => ~About(uiq', {"message"}, m)
             /\ About(events', {"message"}, m) \/ About(uiq', {"message"}, m) => ~About(ui', Note, m)
             /\ \/ About(events', {"message"}, m) \/ About(uiq', {"message"}, m) \/ About(ui', Note, m)
                => state'[m] # None /\ m \notin notifyPendingIDs'
             /\ About(ui', {"insert"}, m) => state'[m] = None
             /\ m \in notifyPendingIDs' => state'[m] # None
  <2>1. /\ About(events, {"message"}, m) => ~About(uiq, {"message"}, m)
        /\ About(events, {"message"}, m) \/ About(uiq, {"message"}, m) => ~About(ui, Note, m)
        /\ \/ About(events, {"message"}, m) \/ About(uiq, {"message"}, m) \/ About(ui, Note, m)
           => state[m] # None /\ m \notin notifyPendingIDs
        /\ About(ui, {"insert"}, m) => state[m] = None
        /\ m \in notifyPendingIDs => state[m] # None
    BY DEF EventOnce
  <2>2. e[1] = "message" /\ m = e[2] =>
          /\ ~About(uiq, {"message"}, m) /\ ~About(ui, Note, m) /\ m \notin notifyPendingIDs
          /\ state[m] # None
    BY DEF Elsewhere
  <2> QED BY <1>2, <1>5, <2>1, <2>2
<1> QED BY <1>3, <1>4, <1>6 DEF EventOnce

\* A message is stored, or its mark changes, and its event is yet to come.
LEMMA StoredOnce ==
    ASSUME EventOnce, UNCHANGED <<events, uiq, notifyPendingIDs>>,
           \A x \in Msg : state[x] # None => state'[x] # None,
           \A x \in Msg : /\ About(ui', Note, x) => About(ui, Note, x)
                          /\ About(ui', {"insert"}, x) => About(ui, {"insert"}, x) /\ state'[x] = None
    PROVE  EventOnce'
<1>1. \A m, ks : /\ About(events, ks, m)' <=> About(events, ks, m)
                 /\ About(uiq, ks, m)' <=> About(uiq, ks, m)
  BY DEF About
<1>2. Once(events') /\ Once(uiq')
  BY DEF EventOnce, Once
<1> QED BY <1>1, <1>2 DEF EventOnce

LEMMA PumpOnce ==
    ASSUME DesktopInv, PumpEvents
    PROVE  EventOnce'
<1> DEFINE e == events[1]
<1>1. EventOnce /\ events \in Seq(Func) /\ uiq \in Seq(Func)
  BY DEF DesktopInv, TrayInv, Base, QueuesOK
<1>2. events # <<>> /\ UNCHANGED <<state, ui, notifyPendingIDs>>
  BY DEF PumpEvents, coreVars, noteVars
<1>3. e \in Func /\ events' = Tail(events) /\ uiq' = Append(uiq, e)
  BY <1>1, <1>2, TailFacts DEF PumpEvents, Do
<1>4. ASSUME NEW m
      PROVE  /\ About(events, {"message"}, m) <=> About(events', {"message"}, m) \/ (e[1] \in {"message"} /\ e[2] = m)
             /\ About(uiq', {"message"}, m) <=> About(uiq, {"message"}, m) \/ (e[1] \in {"message"} /\ e[2] = m)
  BY <1>1, <1>2, <1>3, AboutTail, AboutAppend
<1>5. Once(events') /\ (e[1] = "message" => ~About(events', {"message"}, e[2]))
  BY <1>1, <1>2, <1>3, OnceTail DEF EventOnce
<1>6. e[1] = "message" => e[2] \in Msg
  BY <1>3 DEF Func
<1>7. Once(uiq')
  <2>1. e[1] = "message" => ~About(uiq, {"message"}, e[2])
    BY <1>1, <1>4, <1>6 DEF EventOnce
  <2> QED BY <1>1, <1>3, <2>1, OnceAppend DEF EventOnce
<1>8. \A m, ks : About(ui, ks, m)' <=> About(ui, ks, m)
  BY <1>2 DEF About
<1> HIDE DEF e
<1> QED BY <1>1, <1>2, <1>4, <1>5, <1>7, <1>8 DEF EventOnce

LEMMA TakeOnce ==
    ASSUME DesktopInv, Take
    PROVE  EventOnce'
<1> DEFINE f == uiq[1]
<1>1. EventOnce /\ QueuesOK /\ uiq \in Seq(Func)
  BY DEF DesktopInv, TrayInv, Base, QueuesOK
<1>2. ui = <<>> /\ uiq # <<>> /\ uiq' = Tail(uiq) /\ UNCHANGED <<state, events, notifyPendingIDs>>
  BY DEF Take, Idle, coreVars, noteVars
<1>3. f \in Func /\ Head(uiq) = f
  BY <1>1, <1>2, TailFacts
<1>4. Handles(f, ui')
  BY <1>3, BodyFacts DEF Take
<1>5. ASSUME NEW m
      PROVE  About(uiq, {"message"}, m) <=> About(uiq', {"message"}, m) \/ (f[1] \in {"message"} /\ f[2] = m)
  BY <1>1, <1>2, AboutTail
<1>6. Once(uiq') /\ (f[1] = "message" => ~About(uiq', {"message"}, f[2]))
  BY <1>1, <1>2, OnceTail DEF EventOnce
<1>7. \A m \in Msg : About(ui', Note, m) => f[1] = "message" /\ f[2] = m
  BY <1>4 DEF Handles
<1>8. \A m : ~About(ui', {"insert"}, m)
  <2>1. ui' \in Seq(Triple) /\ Shape(ui') /\ {"insert"} \in SUBSET {"row", "mark", "insert"}
    BY <1>4 DEF Handles
  <2>2. ui' # <<>> => ui'[1][1] # "insert"
    <3>1. <<"row", f[2], f[3]>>[1] = "row" /\ <<"mark", f[2], f[3]>>[1] = "mark"
      OBVIOUS
    <3>2. f[1] \in {"message", "state", "pending", "hide", "show", "reload", "click"}
      BY <1>3 DEF Func
    <3> QED BY <1>4, <3>1, <3>2 DEF Handles
  <2> QED BY <2>1, <2>2, HeadOnly
<1>9. \A m, ks : About(events, ks, m)' <=> About(events, ks, m)
  BY <1>2 DEF About
<1>10. Once(events')
  BY <1>1, <1>2 DEF EventOnce, Once
<1> HIDE DEF f
<1> QED BY <1>1, <1>2, <1>5, <1>6, <1>7, <1>8, <1>9, <1>10 DEF EventOnce

LEMMA RegisterOnce ==
    ASSUME DesktopInv, Register
    PROVE  EventOnce'
<1>1. EventOnce /\ QueuesOK /\ ui \in Seq(Triple) /\ Shape(ui)
  BY DEF DesktopInv, TrayInv, Base, QueuesOK
<1>2. /\ ui # <<>> /\ At("register") /\ ui' = Tail(ui) /\ UNCHANGED <<state, events, uiq>>
      /\ notifyPendingIDs' = notifyPendingIDs \union {The}
  BY DEF Register, At, coreVars
<1>3. ui[1][1] = "register" /\ The = ui[1][2] /\ The \in Msg
  BY <1>1, <1>2, Popped, StepTypes
<1>4. ui' = <<>>
  BY <1>1, <1>2, <1>3, ShapeTail
<1>5. \A m, ks : ~About(ui', ks, m)
  BY <1>4, EmptyFacts
<1>6. About(ui, Note, The)
  <2>1. 1 \in 1 .. Len(ui) /\ "register" \in Note
    BY <1>1, <1>2, EmptySeq DEF Note
  <2> QED BY <1>3, <2>1 DEF About
<1>7. \A m, ks : /\ About(events, ks, m)' <=> About(events, ks, m)
                 /\ About(uiq, ks, m)' <=> About(uiq, ks, m)
  BY <1>2 DEF About
<1>8. Once(events') /\ Once(uiq')
  BY <1>1, <1>2 DEF EventOnce, Once
<1> QED BY <1>1, <1>2, <1>3, <1>5, <1>6, <1>7, <1>8 DEF EventOnce

-----------------------------------------------------------------------------
(* The tray, step by step.                                                 *)

\* The watcher's places are different ones, and follow each other.
LEMMA WatcherFacts ==
    /\ Hiding # <<>> /\ AboutToHide # <<>> /\ AboutToShow # <<>> /\ Clearing # <<>> /\ Plain # <<>>
    /\ Hiding \notin {AboutToHide, AboutToShow, Clearing, Plain}
    /\ AboutToHide \notin {AboutToShow, Clearing, Plain}
    /\ AboutToShow \notin {Clearing, Plain} /\ Clearing # Plain
    /\ Head(Hiding)[1] = "storeTrue" /\ Head(AboutToHide)[1] = "doHide"
    /\ Head(AboutToShow)[1] = "doShow" /\ Head(Clearing)[1] = "swapFalse" /\ Head(Plain)[1] = "plain"
    /\ Tail(Hiding) = AboutToHide /\ Tail(AboutToHide) = <<>> /\ Tail(AboutToShow) = Clearing
    /\ Tail(Clearing) = <<>> /\ Tail(Plain) = <<>>
<1>1. \A k : Step(k)[1] = k
  BY DEF Step
<1>2. /\ Head(Hiding) = Step("storeTrue") /\ Head(AboutToHide) = Step("doHide")
      /\ Head(AboutToShow) = Step("doShow") /\ Head(Clearing) = Step("swapFalse")
      /\ Head(Plain) = Step("plain")
  BY DEF Hiding, AboutToHide, AboutToShow, Clearing, Plain
<1>3. /\ Head(Hiding)[1] = "storeTrue" /\ Head(AboutToHide)[1] = "doHide"
      /\ Head(AboutToShow)[1] = "doShow" /\ Head(Clearing)[1] = "swapFalse" /\ Head(Plain)[1] = "plain"
  BY <1>1, <1>2
<1>4. /\ Hiding # <<>> /\ AboutToHide # <<>> /\ AboutToShow # <<>> /\ Clearing # <<>> /\ Plain # <<>>
  BY DEF Hiding, AboutToHide, AboutToShow, Clearing, Plain
<1>5. /\ Tail(Hiding) = AboutToHide /\ Tail(AboutToHide) = <<>> /\ Tail(AboutToShow) = Clearing
      /\ Tail(Clearing) = <<>> /\ Tail(Plain) = <<>>
  BY DEF Hiding, AboutToHide, AboutToShow, Clearing, Plain
<1> QED BY <1>3, <1>4, <1>5

\* What the invariant asks about the UI goroutine is about its first step.
LEMMA UiNames ==
    ASSUME QueuesOK
    PROVE  /\ UIBusy <=> ui # <<>> /\ ui[1][1] \in TraySteps
           /\ Entangled <=> watcher # <<>> \/ Of(uiq, Window)
           /\ \A k : At(k) <=> ui # <<>> /\ ui[1][1] = k
<1>1. UIBusy <=> Of(ui, TraySteps)
  BY DEF UIBusy, Of
<1>2. Of(ui, TraySteps) <=> ui # <<>> /\ ui[1][1] \in TraySteps
  BY FirstOnly DEF QueuesOK
<1>3. Entangled <=> watcher # <<>> \/ Of(uiq, Window)
  BY DEF Entangled, Of, Window
<1>4. \A k : At(k) <=> ui # <<>> /\ ui[1][1] = k
  BY Popped DEF At
<1> QED BY <1>1, <1>2, <1>3, <1>4

LEMMA UiNamesNext ==
    ASSUME QueuesOK'
    PROVE  /\ UIBusy' <=> ui' # <<>> /\ ui'[1][1] \in TraySteps
           /\ Entangled' <=> watcher' # <<>> \/ Of(uiq', Window)
           /\ \A k : At(k)' <=> ui' # <<>> /\ ui'[1][1] = k
<1>1. UIBusy' <=> Of(ui', TraySteps)
  BY DEF UIBusy, Of
<1>2. Of(ui', TraySteps) <=> ui' # <<>> /\ ui'[1][1] \in TraySteps
  BY FirstOnly DEF QueuesOK
<1>3. Entangled' <=> watcher' # <<>> \/ Of(uiq', Window)
  BY DEF Entangled, Of, Window
<1>4. ui' # <<>> => Head(ui') = ui'[1]
  BY TailFacts DEF QueuesOK
<1>5. \A k : At(k)' <=> ui' # <<>> /\ ui'[1][1] = k
  BY <1>4 DEF At
<1> QED BY <1>1, <1>2, <1>3, <1>5

\* The queue has the same functions on the window.
SameWindows(q, r) ==
    /\ \A ks \in SUBSET Window : Of(r, ks) <=> Of(q, ks)
    /\ TwoWindows(r) <=> TwoWindows(q)

LEMMA WindowsAppend ==
    ASSUME NEW q \in Seq(Func), NEW f \in Func, f[1] \notin Window
    PROVE  SameWindows(q, Append(q, f))
  BY OfAppend, TwoAppend DEF SameWindows

LEMMA WindowsTail ==
    ASSUME NEW q \in Seq(Func), q # <<>>, q[1][1] \notin Window
    PROVE  SameWindows(q, Tail(q))
  BY OfTail, TwoTail DEF SameWindows

LEMMA WindowsOf ==
    ASSUME NEW q
    PROVE  Of(q, Window) <=> Of(q, {"hide"}) \/ Of(q, {"show"})
  BY DEF Of, Window

\* The first step of the UI goroutine is none on the tray.
Aside(u) == u # <<>> => u[1][1] \notin TraySteps

\* Steps beside the tray.
LEMMA TrayFrame ==
    ASSUME TrayOK, QueuesOK, QueuesOK', SameWindows(uiq, uiq'),
           UNCHANGED ui \/ (Aside(ui) /\ Aside(ui')),
           UNCHANGED <<watcher, trayHidden, hasUnread, shown, icon, overlap, unseen>>
    PROVE  TrayOK'
<1>1. /\ Of(uiq', Window) <=> Of(uiq, Window)
      /\ Of(uiq', {"hide"}) <=> Of(uiq, {"hide"})
      /\ Of(uiq', {"show"}) <=> Of(uiq, {"show"})
      /\ TwoWindows(uiq') <=> TwoWindows(uiq)
  <2>1. Window \in SUBSET Window /\ {"hide"} \in SUBSET Window /\ {"show"} \in SUBSET Window
    BY DEF Window
  <2> QED BY <2>1 DEF SameWindows
<1>2. /\ UIBusy' <=> UIBusy
      /\ \A k \in TraySteps : At(k)' <=> At(k)
      /\ At("show") => Len(ui') = Len(ui)
  <2>1. "show" \in TraySteps
    BY DEF TraySteps
  <2> QED BY <2>1, UiNames, UiNamesNext DEF Aside
<1>3. Entangled' <=> Entangled
  BY <1>1, UiNames, UiNamesNext
<1>4. TwoPending' <=> TwoPending
  BY <1>1 DEF TwoPending
<1>5. Doomed' <=> Doomed
  BY <1>2, <1>3, <1>4 DEF Doomed
<1>6. {"hide", "show", "badge", "plain", "swapTrue", "swapFalse"} \subseteq TraySteps
  BY DEF TraySteps
<1>7. HiddenOK => HiddenOK'
  <2>1. (HidePending' <=> HidePending) /\ (ShowPending' <=> ShowPending)
    BY <1>1, <1>2, <1>6 DEF HidePending, ShowPending
  <2> QED BY <2>1 DEF HiddenOK
<1>8. IconOK => IconOK'
  BY <1>2, <1>6 DEF IconOK
<1>9. UnseenOK => UnseenOK'
  BY <1>1, <1>2, <1>6 DEF UnseenOK
<1>10. WatcherOK => WatcherOK'
  BY <1>1 DEF WatcherOK
<1> QED BY <1>5, <1>7, <1>8, <1>9, <1>10 DEF TrayOK

\* Steps in which the UI goroutine begins a function on the tray.
LEMMA BeginTray ==
    ASSUME TrayOK, QueuesOK, QueuesOK', SameWindows(uiq, uiq'), ui = <<>>, ui' # <<>>,
           ui'[1][1] \in {"storeTrue", "storeFalse"},
           UNCHANGED <<watcher, trayHidden, hasUnread, shown, icon, overlap, unseen>>
    PROVE  TrayOK'
<1>1. /\ Of(uiq', Window) <=> Of(uiq, Window)
      /\ Of(uiq', {"hide"}) <=> Of(uiq, {"hide"})
      /\ Of(uiq', {"show"}) <=> Of(uiq, {"show"})
      /\ TwoWindows(uiq') <=> TwoWindows(uiq)
  <2>1. Window \in SUBSET Window /\ {"hide"} \in SUBSET Window /\ {"show"} \in SUBSET Window
    BY DEF Window
  <2> QED BY <2>1 DEF SameWindows
<1>2. ~UIBusy /\ \A k : ~At(k)
  BY UiNames
<1>3. \A k \in {"hide", "show", "badge", "plain", "swapTrue", "swapFalse"} : ~At(k)'
  BY UiNamesNext
<1>4. Doomed => Doomed'
  BY <1>1, <1>2 DEF Doomed, TwoPending
<1>5. HiddenOK => HiddenOK'
  BY <1>1, <1>2, <1>3 DEF HiddenOK, HidePending, ShowPending
<1>6. IconOK => IconOK'
  BY <1>2, <1>3 DEF IconOK
<1>7. UnseenOK => UnseenOK'
  BY <1>1, <1>2, <1>3 DEF UnseenOK
<1>8. WatcherOK => WatcherOK'
  BY <1>1 DEF WatcherOK
<1> QED BY <1>4, <1>5, <1>6, <1>7, <1>8 DEF TrayOK

\* The UI goroutine takes a function.
LEMMA TakeTray ==
    ASSUME DesktopInv, QueuesOK', Take
    PROVE  TrayOK'
<1> DEFINE f == uiq[1]
<1>1. TrayOK /\ QueuesOK /\ uiq \in Seq(Func)
  BY DEF DesktopInv, TrayInv, Base, QueuesOK
<1>2. /\ ui = <<>> /\ uiq # <<>> /\ uiq' = Tail(uiq)
      /\ UNCHANGED <<watcher, trayHidden, hasUnread, shown, icon, overlap, unseen>>
  BY DEF Take, Idle, trayVars, histVars
<1>3. f \in Func /\ Head(uiq) = f
  BY <1>1, <1>2, TailFacts
<1>4. Handles(f, ui')
  BY <1>3, BodyFacts DEF Take
<1>5. ~UIBusy /\ \A k : ~At(k)
  BY <1>1, <1>2, UiNames
<1>6. CASE f[1] \in Window
  <2>1. ui' # <<>> /\ ui'[1][1] = f[1] /\ (f[1] = "show" => Len(ui') = 1)
    BY <1>4, <1>6 DEF Handles, Window
  <2>2. /\ UIBusy' /\ (Entangled' <=> watcher # <<>> \/ Of(uiq', Window))
        /\ \A k : At(k)' <=> f[1] = k
    BY <1>2, <1>6, <2>1, UiNamesNext DEF TraySteps, Window
  <2>3. /\ TwoWindows(uiq) <=> TwoWindows(uiq') \/ Of(uiq', Window)
        /\ \A ks : Of(uiq, ks) <=> Of(uiq', ks) \/ f[1] \in ks
    BY <1>1, <1>2, <1>6, OfTail, TwoTail
  <2>4. Doomed => Doomed'
    BY <1>2, <1>5, <2>2, <2>3, WatcherFacts DEF Doomed, TwoPending
  <2>5. ASSUME ~Doomed', HiddenOK, IconOK, UnseenOK
        PROVE  HiddenOK' /\ IconOK' /\ UnseenOK' /\ WatcherOK'
    <3>1. watcher' = <<>> /\ watcher = <<>> /\ ~Of(uiq', Window)
      BY <1>2, <2>2, <2>5 DEF Doomed
    <3>2. ~Of(uiq', {"hide"}) /\ ~Of(uiq', {"show"})
      BY <3>1, WindowsOf
    <3>3. (Of(uiq, {"hide"}) <=> f[1] = "hide") /\ (Of(uiq, {"show"}) <=> f[1] = "show")
      BY <2>3, <3>2
    <3>4. f[1] = "hide" \/ f[1] = "show"
      BY <1>6 DEF Window
    <3> HIDE DEF f
    <3>5. HiddenOK'
      <4>1. (HidePending' <=> f[1] = "hide") /\ (ShowPending' <=> f[1] = "show")
        BY <2>2, <3>1, <3>2, WatcherFacts DEF HidePending, ShowPending
      <4> QED BY <1>2, <2>5, <3>3, <3>4, <4>1 DEF HiddenOK, HidePending, ShowPending
    <3>6. IconOK'
      BY <1>2, <1>5, <2>2, <2>5, <3>1, <3>4 DEF IconOK
    <3>7. UnseenOK'
      BY <1>2, <1>5, <2>1, <2>2, <2>5, <3>1, <3>2, <3>3, <3>4, WatcherFacts DEF UnseenOK
    <3>8. WatcherOK'
      BY <3>1, WatcherFacts DEF WatcherOK
    <3> QED BY <3>5, <3>6, <3>7, <3>8
  <2> QED BY <1>1, <2>4, <2>5 DEF TrayOK
<1>7. CASE f[1] \notin Window
  <2>1. SameWindows(uiq, uiq')
    BY <1>1, <1>2, <1>7, WindowsTail
  <2>2. CASE f[1] = "click"
    <3>1. ui' # <<>> /\ ui'[1][1] = "storeFalse"
      BY <1>4, <2>2 DEF Handles
    <3> QED BY <1>1, <1>2, <2>1, <3>1, BeginTray
  <2>3. CASE f[1] # "click"
    <3>1. Aside(ui')
      <4>1. f[1] \in {"message", "state", "pending", "reload"}
        BY <1>3, <1>7, <2>3 DEF Func, Window
      <4>2. <<"row", f[2], f[3]>>[1] = "row" /\ <<"mark", f[2], f[3]>>[1] = "mark"
        OBVIOUS
      <4> QED BY <1>4, <4>1, <4>2 DEF Handles, Aside, TraySteps
    <3>2. Aside(ui)
      BY <1>2 DEF Aside
    <3> QED BY <1>1, <1>2, <2>1, <3>1, <3>2, TrayFrame
  <2> QED BY <2>2, <2>3
<1> QED BY <1>6, <1>7

\* Nothing in front of the others.
LEMMA FrontNothing ==
    ASSUME NEW S, NEW q \in Seq(S)
    PROVE  <<>> \o q = q
  BY ConcatEmptySeq

\* The UI goroutine works on the tray: alone, or the goroutines overlap.
LEMMA Alone ==
    ASSUME QueuesOK, QueuesOK', overlap' = (overlap \/ Entangled), UNCHANGED <<uiq, watcher>>, ~Doomed'
    PROVE  /\ ~Doomed /\ watcher = <<>> /\ watcher' = <<>>
           /\ ~Of(uiq, {"hide"}) /\ ~Of(uiq, {"show"}) /\ ~Of(uiq', {"hide"}) /\ ~Of(uiq', {"show"})
<1>1. ~overlap /\ ~Entangled
  BY DEF Doomed
<1>2. watcher = <<>> /\ ~Of(uiq, Window)
  BY <1>1, UiNames
<1>3. ~TwoPending
  BY <1>2 DEF TwoPending, TwoWindows, Of
<1>4. ~Doomed
  BY <1>1, <1>3 DEF Doomed
<1>5. ~Of(uiq, {"hide"}) /\ ~Of(uiq, {"show"})
  BY <1>2, WindowsOf
<1> QED BY <1>2, <1>4, <1>5

\* What the invariant says when the watcher is at rest.
LEMMA AloneOK ==
    ASSUME QueuesOK, watcher = <<>>, ~Of(uiq, {"hide"}), ~Of(uiq, {"show"})
    PROVE  /\ HiddenOK <=> /\ At("hide") => trayHidden
                           /\ At("show") => ~trayHidden
                           /\ ~At("hide") /\ ~At("show") => (trayHidden <=> ~shown)
           /\ IconOK <=> IF At("badge") THEN hasUnread
                         ELSE IF At("plain") THEN ~hasUnread
                         ELSE hasUnread <=> icon = "badged"
           /\ UnseenOK <=> IF At("swapTrue") THEN unseen
                           ELSE IF At("swapFalse") THEN ~unseen
                           ELSE IF At("show") /\ Len(ui) = 1 THEN ~hasUnread
                           ELSE unseen <=> hasUnread
           /\ WatcherOK
<1>1. watcher \notin {Hiding, AboutToHide, AboutToShow, Clearing, Plain}
  BY WatcherFacts
<1>2. (HidePending <=> At("hide")) /\ (ShowPending <=> At("show"))
  BY <1>1 DEF HidePending, ShowPending
<1>3. HiddenOK <=> /\ At("hide") => trayHidden
                   /\ At("show") => ~trayHidden
                   /\ ~At("hide") /\ ~At("show") => (trayHidden <=> ~shown)
  BY <1>2 DEF HiddenOK
<1>4. IconOK <=> IF At("badge") THEN hasUnread
                 ELSE IF At("plain") THEN ~hasUnread
                 ELSE hasUnread <=> icon = "badged"
  BY <1>1 DEF IconOK
<1>5. UnseenOK <=> IF At("swapTrue") THEN unseen
                   ELSE IF At("swapFalse") THEN ~unseen
                   ELSE IF At("show") /\ Len(ui) = 1 THEN ~hasUnread
                   ELSE unseen <=> hasUnread
  BY <1>1 DEF UnseenOK
<1>6. WatcherOK
  BY <1>1 DEF WatcherOK
<1> QED BY <1>3, <1>4, <1>5, <1>6

LEMMA AloneOKNext ==
    ASSUME QueuesOK', watcher' = <<>>, ~Of(uiq', {"hide"}), ~Of(uiq', {"show"})
    PROVE  /\ HiddenOK' <=> /\ At("hide")' => trayHidden'
                            /\ At("show")' => ~trayHidden'
                            /\ ~At("hide")' /\ ~At("show")' => (trayHidden' <=> ~shown')
           /\ IconOK' <=> IF At("badge")' THEN hasUnread'
                          ELSE IF At("plain")' THEN ~hasUnread'
                          ELSE hasUnread' <=> icon' = "badged"
           /\ UnseenOK' <=> IF At("swapTrue")' THEN unseen'
                            ELSE IF At("swapFalse")' THEN ~unseen'
                            ELSE IF At("show")' /\ Len(ui') = 1 THEN ~hasUnread'
                            ELSE unseen' <=> hasUnread'
           /\ WatcherOK'
<1>1. watcher' \notin {Hiding, AboutToHide, AboutToShow, Clearing, Plain}
  BY WatcherFacts
<1>2. (HidePending' <=> At("hide")') /\ (ShowPending' <=> At("show")')
  BY <1>1 DEF HidePending, ShowPending
<1>3. HiddenOK' <=> /\ At("hide")' => trayHidden'
                    /\ At("show")' => ~trayHidden'
                    /\ ~At("hide")' /\ ~At("show")' => (trayHidden' <=> ~shown')
  BY <1>2 DEF HiddenOK
<1>4. IconOK' <=> IF At("badge")' THEN hasUnread'
                  ELSE IF At("plain")' THEN ~hasUnread'
                  ELSE hasUnread' <=> icon' = "badged"
  BY <1>1 DEF IconOK
<1>5. UnseenOK' <=> IF At("swapTrue")' THEN unseen'
                    ELSE IF At("swapFalse")' THEN ~unseen'
                    ELSE IF At("show")' /\ Len(ui') = 1 THEN ~hasUnread'
                    ELSE unseen' <=> hasUnread'
  BY <1>1 DEF UnseenOK
<1>6. WatcherOK'
  BY <1>1 DEF WatcherOK
<1> QED BY <1>3, <1>4, <1>5, <1>6

\* The kind of the UI goroutine's first step, of those the invariant tells apart.
LEMMA AtOne ==
    ASSUME QueuesOK, NEW k, At(k)
    PROVE  ui # <<>> /\ ui[1][1] = k /\ \A x : At(x) <=> x = k
  BY UiNames

LEMMA AtNext ==
    ASSUME QueuesOK'
    PROVE  /\ ui' = <<>> => \A x : ~At(x)'
           /\ ui' # <<>> => \A x : At(x)' <=> x = ui'[1][1]
  BY UiNamesNext

\* What the UI goroutine has left after a step on the tray.
LEMMA TrayUi ==
    ASSUME QueuesOK, TypeOK, Tray
    PROVE  /\ ui # <<>> /\ ui[1][1] \in TraySteps /\ ui' \in Seq(Triple) /\ Shape(ui')
           /\ \A ks, m : m \in Msg => (About(ui', ks, m) => About(ui, ks, m))
           /\ ui[1][1] = "storeTrue" => ui' # <<>> /\ ui'[1][1] = "hide"
           /\ ui[1][1] = "storeFalse" => ui' # <<>> /\ ui'[1][1] = "show" /\ Len(ui') # 1
           /\ ui[1][1] = "hide" \/ (ui[1][1] = "show" /\ Len(ui) = 1) => ui' = <<>>
           /\ ui[1][1] = "show" /\ Len(ui) # 1 => ui' # <<>> /\ ui'[1][1] = "swapFalse"
           /\ ui[1][1] = "swapTrue" /\ ~hasUnread => ui' # <<>> /\ ui'[1][1] = "badge"
           /\ ui[1][1] = "swapFalse" /\ hasUnread => ui' # <<>> /\ ui'[1][1] = "plain"
           /\ \/ ui[1][1] = "swapTrue" /\ hasUnread
              \/ ui[1][1] = "swapFalse" /\ ~hasUnread
              \/ ui[1][1] \in {"badge", "plain"}
              => (ui' # <<>> => ui'[1][1] \in {"notify", "clicked"})
<1> DEFINE s == ui[1][1]
<1>1. ui # <<>> /\ Head(ui)[1] \in TraySteps /\ ui' = Icon(Head(ui)[1]) \o Tail(ui)
  BY DEF Tray
<1>2. ui \in Seq(Triple) /\ Shape(ui) /\ None \notin Msg
  BY DesktopAssumption DEF QueuesOK
<1>3. Head(ui) = ui[1] /\ Tail(ui) \in Seq(Triple) /\ \A m, ks : About(Tail(ui), ks, m) => About(ui, ks, m)
  BY <1>1, Popped
<1>4. s \in TraySteps /\ ui' = Icon(s) \o Tail(ui)
  BY <1>1, <1>3
<1>5. CASE Icon(s) = <<>>
  <2>1. ui' = Tail(ui)
    BY <1>3, <1>4, <1>5, FrontNothing
  <2>2. s = "swapTrue" => hasUnread
    BY <1>5 DEF Icon
  <2>3. s = "swapFalse" => ~hasUnread
    BY <1>5 DEF Icon
  <2>4. s = "storeFalse" => Len(Tail(ui)) # 1
    <3> DEFINE n == Len(ui)
               t == Tail(ui)
    <3>1. n \in Nat /\ Len(t) = n - 1
      BY <1>1, <1>2, Behind
    <3>2. s = "storeFalse" => n >= 3
      BY <1>1, <1>2, ShapeTail
    <3> HIDE DEF n, t, s
    <3>3. s = "storeFalse" => Len(t) # 1
      BY <3>1, <3>2
    <3> QED BY <3>3 DEF t
  <2>5. s = "show" /\ Len(ui) = 1 => Tail(ui) = <<>>
    BY <1>1, <1>2, Behind
  <2>6. /\ Shape(Tail(ui))
        /\ s = "hide" => Tail(ui) = <<>>
        /\ s = "storeTrue" => Tail(ui) # <<>> /\ Tail(ui)[1][1] = "hide"
        /\ s = "storeFalse" => Tail(ui) # <<>> /\ Tail(ui)[1][1] = "show"
        /\ s = "show" /\ Len(ui) # 1 => Tail(ui) # <<>> /\ Tail(ui)[1][1] = "swapFalse"
        /\ s \in {"swapFalse", "plain"} /\ Tail(ui) # <<>> => Tail(ui)[1][1] = "clicked"
        /\ s \in {"swapTrue", "badge"} /\ Tail(ui) # <<>> => Tail(ui)[1][1] = "notify"
    BY <1>1, <1>2, ShapeTail
  <2> HIDE DEF s
  <2>7. /\ ui' \in Seq(Triple) /\ Shape(ui')
        /\ \A ks, m : m \in Msg => (About(ui', ks, m) => About(ui, ks, m))
    BY <1>3, <2>1, <2>6
  <2>8. /\ s = "storeTrue" => ui' # <<>> /\ ui'[1][1] = "hide"
        /\ s = "storeFalse" => ui' # <<>> /\ ui'[1][1] = "show" /\ Len(ui') # 1
        /\ s = "hide" \/ (s = "show" /\ Len(ui) = 1) => ui' = <<>>
        /\ s = "show" /\ Len(ui) # 1 => ui' # <<>> /\ ui'[1][1] = "swapFalse"
    BY <2>1, <2>4, <2>5, <2>6
  <2>9. s \in {"swapTrue", "swapFalse", "badge", "plain"} /\ ui' # <<>> => ui'[1][1] \in {"notify", "clicked"}
    BY <2>1, <2>6
  <2> QED BY <1>1, <1>4, <2>2, <2>3, <2>7, <2>8, <2>9 DEF s
<1>6. CASE Icon(s) # <<>>
  <2>1. PICK k \in {"badge", "plain"} : /\ Icon(s) = <<Step(k)>>
                                        /\ k = "badge" => s = "swapTrue" /\ ~hasUnread
                                        /\ k = "plain" => s = "swapFalse" /\ hasUnread
    BY <1>6 DEF Icon
  <2>2. k \in {"swapTrue", "badge", "plain"} /\ (k = "plain" <=> s = "swapFalse")
        /\ (k = "badge" <=> s = "swapTrue") /\ (k = "swapTrue" <=> s = "check")
    BY <2>1
  <2>3. /\ ui' \in Seq(Triple) /\ Shape(ui') /\ ui' # <<>> /\ ui'[1][1] = k
        /\ \A ks, m : m # None => (About(ui', ks, m) <=> About(Tail(ui), ks, m))
    <3> DEFINE v == <<Step(k)>> \o Tail(ui)
    <3>1. ui' = v
      BY <1>4, <2>1
    <3>2. /\ v \in Seq(Triple) /\ Shape(v) /\ v # <<>> /\ v[1][1] = k
          /\ \A ks, m : m # None => (About(v, ks, m) <=> About(Tail(ui), ks, m))
      BY <1>1, <1>2, <2>2, ShapeFront
    <3> HIDE DEF v
    <3> QED BY <3>1, <3>2
  <2>4. \A ks, m : m \in Msg => (About(ui', ks, m) => About(ui, ks, m))
    BY <1>2, <1>3, <2>3
  <2> HIDE DEF s
  <2> QED BY <1>1, <1>4, <2>1, <2>3, <2>4 DEF s
<1> QED BY <1>5, <1>6

\* The same after the check of the flag.
LEMMA CheckUi ==
    ASSUME QueuesOK, CheckHidden
    PROVE  /\ ui # <<>> /\ ui[1][1] = "check" /\ ui' \in Seq(Triple) /\ Shape(ui')
           /\ \A ks, m : m \in Msg => (About(ui', ks, m) => About(ui, ks, m))
           /\ trayHidden => ui' # <<>> /\ ui'[1][1] = "swapTrue"
           /\ ~trayHidden => (ui' # <<>> => ui'[1][1] = "notify")
<1>1. /\ ui # <<>> /\ At("check")
      /\ ui' = (IF trayHidden THEN <<Step("swapTrue")>> ELSE <<>>) \o Tail(ui)
  BY DEF CheckHidden, At
<1>2. ui \in Seq(Triple) /\ Shape(ui) /\ None \notin Msg
  BY DesktopAssumption DEF QueuesOK
<1>3. /\ ui[1][1] = "check" /\ Tail(ui) \in Seq(Triple) /\ Shape(Tail(ui))
      /\ \A m, ks : About(Tail(ui), ks, m) => About(ui, ks, m)
  BY <1>1, Popped
<1>4. CASE ~trayHidden
  <2>1. ui' = Tail(ui)
    BY <1>1, <1>3, <1>4, FrontNothing
  <2>2. Tail(ui) # <<>> => Tail(ui)[1][1] = "notify"
    BY <1>1, <1>2, <1>3, ShapeTail
  <2> QED BY <1>1, <1>3, <1>4, <2>1, <2>2
<1>5. CASE trayHidden
  <2>1. ui' = <<Step("swapTrue")>> \o Tail(ui)
    BY <1>1, <1>5
  <2>2. /\ ui' \in Seq(Triple) /\ Shape(ui') /\ ui' # <<>> /\ ui'[1][1] = "swapTrue"
        /\ \A ks, m : m # None => (About(ui', ks, m) <=> About(Tail(ui), ks, m))
    BY <1>1, <1>2, <1>3, <2>1, ShapeFront
  <2> QED BY <1>1, <1>2, <1>3, <1>5, <2>2
<1> QED BY <1>4, <1>5

LEMMA CheckHiddenTray ==
    ASSUME DesktopInv, QueuesOK', CheckHidden
    PROVE  TrayOK'
<1>1. TrayOK /\ QueuesOK
  BY DEF DesktopInv, TrayInv, Base
<1>2. /\ ui # <<>> /\ ui[1][1] = "check"
      /\ trayHidden => ui' # <<>> /\ ui'[1][1] = "swapTrue"
      /\ ~trayHidden => (ui' # <<>> => ui'[1][1] = "notify")
  BY <1>1, CheckUi
<1>3. /\ UNCHANGED <<uiq, watcher, trayHidden, hasUnread, shown, icon>>
      /\ unseen' = (unseen \/ trayHidden) /\ overlap' = (overlap \/ (trayHidden /\ Entangled))
  BY DEF CheckHidden, trayVars
<1>4. CASE ~trayHidden
  <2>1. Aside(ui) /\ Aside(ui')
    BY <1>2, <1>4 DEF Aside, TraySteps
  <2>2. UNCHANGED <<unseen, overlap>>
    BY <1>1, <1>3, <1>4 DEF QueuesOK
  <2>3. SameWindows(uiq, uiq')
    BY <1>3 DEF SameWindows
  <2> QED BY <1>1, <1>3, <2>1, <2>2, <2>3, TrayFrame
<1>5. CASE trayHidden
  <2>1. SUFFICES ASSUME ~Doomed' PROVE HiddenOK' /\ IconOK' /\ UnseenOK' /\ WatcherOK'
    BY DEF TrayOK
  <2>2. overlap' = (overlap \/ Entangled)
    BY <1>3, <1>5
  <2>3. /\ ~Doomed /\ watcher = <<>> /\ watcher' = <<>>
        /\ ~Of(uiq, {"hide"}) /\ ~Of(uiq, {"show"}) /\ ~Of(uiq', {"hide"}) /\ ~Of(uiq', {"show"})
    BY <1>1, <1>3, <2>1, <2>2, Alone
  <2>4. HiddenOK /\ IconOK
    BY <1>1, <2>3 DEF TrayOK
  <2>5. \A x : (At(x) <=> x = "check") /\ (At(x)' <=> x = "swapTrue")
    BY <1>1, <1>2, <1>5, UiNames, UiNamesNext
  <2>6. (trayHidden <=> ~shown) /\ (hasUnread <=> icon = "badged")
    BY <1>1, <2>3, <2>4, <2>5, AloneOK
  <2>7. unseen'
    BY <1>3, <1>5
  <2> QED BY <1>1, <1>3, <2>3, <2>5, <2>6, <2>7, AloneOKNext
<1> QED BY <1>4, <1>5

LEMMA TrayTray ==
    ASSUME DesktopInv, QueuesOK', Tray
    PROVE  TrayOK'
<1> DEFINE s == ui[1][1]
<1>1. TrayOK /\ QueuesOK /\ TypeOK
  BY DEF DesktopInv, TrayInv, Base
<1>2. SUFFICES ASSUME ~Doomed' PROVE HiddenOK' /\ IconOK' /\ UnseenOK' /\ WatcherOK'
  BY DEF TrayOK
<1>3. UNCHANGED <<uiq, watcher>> /\ overlap' = (overlap \/ Entangled)
  BY DEF Tray
<1>4. /\ ~Doomed /\ watcher = <<>> /\ watcher' = <<>>
      /\ ~Of(uiq, {"hide"}) /\ ~Of(uiq, {"show"}) /\ ~Of(uiq', {"hide"}) /\ ~Of(uiq', {"show"})
  BY <1>1, <1>2, <1>3, Alone
<1>5. HiddenOK /\ IconOK /\ UnseenOK
  BY <1>1, <1>4 DEF TrayOK
<1>6. /\ ui # <<>> /\ s \in TraySteps
      /\ s = "storeTrue" => ui' # <<>> /\ ui'[1][1] = "hide"
      /\ s = "storeFalse" => ui' # <<>> /\ ui'[1][1] = "show" /\ Len(ui') # 1
      /\ s = "hide" \/ (s = "show" /\ Len(ui) = 1) => ui' = <<>>
      /\ s = "show" /\ Len(ui) # 1 => ui' # <<>> /\ ui'[1][1] = "swapFalse"
      /\ s = "swapTrue" /\ ~hasUnread => ui' # <<>> /\ ui'[1][1] = "badge"
      /\ s = "swapFalse" /\ hasUnread => ui' # <<>> /\ ui'[1][1] = "plain"
      /\ \/ s = "swapTrue" /\ hasUnread
         \/ s = "swapFalse" /\ ~hasUnread
         \/ s \in {"badge", "plain"}
         => (ui' # <<>> => ui'[1][1] \in {"notify", "clicked"})
  BY <1>1, TrayUi
<1>7. \A x : At(x) <=> x = s
  BY <1>1, <1>6, UiNames
<1>8. /\ ui' = <<>> => \A x : ~At(x)'
      /\ ui' # <<>> => \A x : At(x)' <=> x = ui'[1][1]
  BY UiNamesNext
<1>9. Flip(s)
  BY <1>1, <1>6, Popped DEF Tray
<1>10. /\ s = "hide" => trayHidden
       /\ s = "show" => ~trayHidden
       /\ s \notin {"hide", "show"} => (trayHidden <=> ~shown)
       /\ s = "badge" => hasUnread
       /\ s = "plain" => ~hasUnread
       /\ s \notin {"badge", "plain"} => (hasUnread <=> icon = "badged")
       /\ s = "swapTrue" => unseen
       /\ s = "swapFalse" => ~unseen
       /\ s = "show" /\ Len(ui) = 1 => ~hasUnread
       /\ s \notin {"swapTrue", "swapFalse"} /\ ~(s = "show" /\ Len(ui) = 1) => (unseen <=> hasUnread)
  BY <1>1, <1>4, <1>5, <1>7, AloneOK
<1> SUFFICES /\ /\ At("hide")' => trayHidden'
                /\ At("show")' => ~trayHidden'
                /\ ~At("hide")' /\ ~At("show")' => (trayHidden' <=> ~shown')
             /\ IF At("badge")' THEN hasUnread'
                ELSE IF At("plain")' THEN ~hasUnread'
                ELSE hasUnread' <=> icon' = "badged"
             /\ IF At("swapTrue")' THEN unseen'
                ELSE IF At("swapFalse")' THEN ~unseen'
                ELSE IF At("show")' /\ Len(ui') = 1 THEN ~hasUnread'
                ELSE unseen' <=> hasUnread'
  BY <1>4, AloneOKNext
<1>11. trayHidden \in BOOLEAN /\ hasUnread \in BOOLEAN /\ shown \in BOOLEAN /\ unseen \in BOOLEAN
  BY <1>1 DEF TypeOK, QueuesOK
<1> HIDE DEF s
<1>12. CASE s = "storeTrue"
  <2>1. trayHidden' = TRUE /\ UNCHANGED <<hasUnread, shown, icon, unseen>>
    BY <1>9, <1>12 DEF Flip
  <2>2. \A x : At(x)' <=> x = "hide"
    BY <1>6, <1>8, <1>12
  <2> QED BY <1>10, <1>12, <2>1, <2>2
<1>13. CASE s = "storeFalse"
  <2>1. trayHidden' = FALSE /\ UNCHANGED <<hasUnread, shown, icon, unseen>>
    BY <1>9, <1>13 DEF Flip
  <2>2. (\A x : At(x)' <=> x = "show") /\ Len(ui') # 1
    BY <1>6, <1>8, <1>13
  <2> QED BY <1>10, <1>13, <2>1, <2>2
<1>14. CASE s = "hide"
  <2>1. shown' = FALSE /\ UNCHANGED <<trayHidden, hasUnread, icon, unseen>>
    BY <1>9, <1>14 DEF Flip
  <2>2. \A x : ~At(x)'
    BY <1>6, <1>8, <1>14
  <2> QED BY <1>10, <1>14, <2>1, <2>2
<1>15. CASE s = "show" /\ Len(ui) = 1
  <2>1. shown' = TRUE /\ unseen' = FALSE /\ UNCHANGED <<trayHidden, hasUnread, icon>>
    BY <1>9, <1>15 DEF Flip
  <2>2. \A x : ~At(x)'
    BY <1>6, <1>8, <1>15
  <2> QED BY <1>10, <1>15, <2>1, <2>2
<1>16. CASE s = "show" /\ Len(ui) # 1
  <2>1. shown' = TRUE /\ unseen' = FALSE /\ UNCHANGED <<trayHidden, hasUnread, icon>>
    BY <1>9, <1>16 DEF Flip
  <2>2. \A x : At(x)' <=> x = "swapFalse"
    BY <1>6, <1>8, <1>16
  <2> QED BY <1>10, <1>16, <2>1, <2>2
<1>17. CASE s = "swapTrue"
  <2>1. hasUnread' = TRUE /\ UNCHANGED <<trayHidden, shown, icon, unseen>>
    BY <1>9, <1>17 DEF Flip
  <2>2. CASE hasUnread
    <3>1. \A x \in TraySteps : ~At(x)'
      BY <1>6, <1>8, <1>17, <2>2 DEF TraySteps
    <3> QED BY <1>10, <1>17, <2>1, <2>2, <3>1 DEF TraySteps
  <2>3. CASE ~hasUnread
    <3>1. \A x : At(x)' <=> x = "badge"
      BY <1>6, <1>8, <1>17, <2>3
    <3> QED BY <1>10, <1>17, <2>1, <2>3, <3>1
  <2> QED BY <2>2, <2>3
<1>18. CASE s = "swapFalse"
  <2>1. hasUnread' = FALSE /\ UNCHANGED <<trayHidden, shown, icon, unseen>>
    BY <1>9, <1>18 DEF Flip
  <2>2. CASE ~hasUnread
    <3>1. \A x \in TraySteps : ~At(x)'
      BY <1>6, <1>8, <1>18, <2>2 DEF TraySteps
    <3> QED BY <1>10, <1>18, <2>1, <2>2, <3>1 DEF TraySteps
  <2>3. CASE hasUnread
    <3>1. \A x : At(x)' <=> x = "plain"
      BY <1>6, <1>8, <1>18, <2>3
    <3> QED BY <1>10, <1>18, <2>1, <2>3, <3>1
  <2> QED BY <2>2, <2>3
<1>19. CASE s \in {"badge", "plain"}
  <2>1. /\ icon' = (IF s = "badge" THEN "badged" ELSE "plain")
        /\ UNCHANGED <<trayHidden, hasUnread, shown, unseen>>
    BY <1>9, <1>19 DEF Flip
  <2>2. \A x \in TraySteps : ~At(x)'
    BY <1>6, <1>8, <1>19 DEF TraySteps
  <2> QED BY <1>10, <1>19, <2>1, <2>2 DEF TraySteps
<1> QED BY <1>6, <1>12, <1>13, <1>14, <1>15, <1>16, <1>17, <1>18, <1>19 DEF TraySteps

\* The UI goroutine is at no step on the tray.
LEMMA NotBusy ==
    ASSUME QueuesOK, QueuesOK', ~UIBusy, UNCHANGED ui
    PROVE  \A k \in {"hide", "show", "badge", "plain", "swapTrue", "swapFalse"} : ~At(k) /\ ~At(k)'
<1>1. \A k \in TraySteps : ~At(k)
  BY UiNames
<1>2. \A k : At(k)' <=> At(k)
  BY DEF At
<1> QED BY <1>1, <1>2 DEF TraySteps

\* The window is minimized, or shown again.
LEMMA XEventTray ==
    ASSUME DesktopInv, QueuesOK', Minimized \/ RestoreIfHidden
    PROVE  TrayOK'
<1>1. TrayOK /\ QueuesOK /\ trayHidden \in BOOLEAN
  BY DEF DesktopInv, TrayInv, Base, TypeOK
<1>2. /\ watcher = <<>> /\ overlap' = (overlap \/ UIBusy)
      /\ UNCHANGED <<ui, uiq, hasUnread, shown, icon, unseen>>
  BY DEF Minimized, RestoreIfHidden, queueVars, trayVars
<1>3. watcher \notin {Hiding, AboutToHide, AboutToShow, Clearing, Plain}
  BY <1>2, WatcherFacts
<1>4. SUFFICES ASSUME ~Doomed' PROVE HiddenOK' /\ IconOK' /\ UnseenOK' /\ WatcherOK'
  BY DEF TrayOK
<1>5. ~overlap /\ ~UIBusy /\ ~overlap' /\ ~TwoPending' /\ ~TwoWindows(uiq)
  <2>1. ~overlap' /\ ~TwoPending'
    BY <1>4 DEF Doomed
  <2> QED BY <1>2, <2>1 DEF TwoPending
<1>6. HiddenOK /\ IconOK /\ UnseenOK
  <2>1. ~TwoPending
    BY <1>3, <1>5 DEF TwoPending
  <2> QED BY <1>1, <1>5, <2>1 DEF TrayOK, Doomed
<1>7. \A k \in {"hide", "show", "badge", "plain", "swapTrue", "swapFalse"} : ~At(k) /\ ~At(k)'
  BY <1>1, <1>2, <1>5, NotBusy
<1>8. CASE watcher' \in {Hiding, AboutToShow}
  <2>1. ~Of(uiq, Window)
    BY <1>2, <1>5, <1>8 DEF TwoPending
  <2>2. ~Of(uiq, {"hide"}) /\ ~Of(uiq, {"show"}) /\ ~Of(uiq', {"hide"}) /\ ~Of(uiq', {"show"})
    BY <1>2, <2>1, WindowsOf
  <2>3. /\ trayHidden <=> ~shown
        /\ hasUnread <=> icon = "badged"
        /\ unseen <=> hasUnread
    BY <1>3, <1>6, <1>7, <2>2 DEF HiddenOK, HidePending, ShowPending, IconOK, UnseenOK
  <2>4. /\ watcher' = Hiding => UNCHANGED trayHidden
        /\ watcher' = AboutToShow => ~trayHidden'
    BY <1>3, <1>8, WatcherFacts DEF Minimized, RestoreIfHidden, trayVars, Hiding, AboutToShow
  <2>5. HiddenOK'
    BY <1>2, <1>7, <1>8, <2>2, <2>3, <2>4, WatcherFacts DEF HiddenOK, HidePending, ShowPending
  <2>6. IconOK'
    BY <1>2, <1>7, <1>8, <2>3, WatcherFacts DEF IconOK
  <2>7. UnseenOK'
    BY <1>2, <1>7, <1>8, <2>2, <2>3, WatcherFacts DEF UnseenOK
  <2>8. WatcherOK'
    BY <1>8, WatcherFacts DEF WatcherOK
  <2> QED BY <2>5, <2>6, <2>7, <2>8
<1>9. CASE watcher' \notin {Hiding, AboutToShow}
  <2>1. ~trayHidden /\ watcher' = <<>> /\ trayHidden' = FALSE
    BY <1>1, <1>9 DEF Minimized, RestoreIfHidden, Hiding, AboutToShow
  <2>2. UNCHANGED <<watcher, trayHidden, overlap>>
    <3>1. overlap \in BOOLEAN
      BY <1>1 DEF QueuesOK
    <3> QED BY <1>1, <1>2, <1>5, <2>1, <3>1
  <2>3. SameWindows(uiq, uiq')
    BY <1>2 DEF SameWindows
  <2>4. TrayOK'
    BY <1>1, <1>2, <2>2, <2>3, TrayFrame
  <2> QED BY <1>4, <2>4 DEF TrayOK
<1> QED BY <1>8, <1>9

\* fyne.Do(g.win.Hide) and fyne.Do(g.win.Show).
LEMMA WatcherQueues ==
    ASSUME QueuesOK, WatcherDo
    PROVE  \/ watcher = AboutToHide /\ uiq' = Append(uiq, Step("hide")) /\ watcher' = <<>>
           \/ watcher = AboutToShow /\ uiq' = Append(uiq, Step("show")) /\ watcher' = Clearing
<1>1. watcher \in {Hiding, AboutToHide, AboutToShow, Clearing, Plain}
  BY DEF QueuesOK, WatcherDo
<1>2. watcher \in {AboutToHide, AboutToShow}
  BY <1>1, WatcherFacts DEF WatcherDo
<1> QED BY <1>2, WatcherFacts DEF WatcherDo, Do

LEMMA WindowFuncs ==
    ASSUME NEW k \in {"hide", "show", "reload"}
    PROVE  Step(k) \in Func /\ Step(k)[1] = k /\ Step(k)[2] = None
<1>1. k \in Kind
  BY DEF Kind
<1>2. Step(k) \in Triple /\ Step(k)[1] = k /\ Step(k)[2] = None
  BY <1>1, StepIsTriple
<1> HIDE DEF Step
<1> QED BY <1>2 DEF Func

LEMMA WatcherDoTray ==
    ASSUME DesktopInv, QueuesOK', WatcherDo
    PROVE  TrayOK'
<1>1. TrayOK /\ QueuesOK /\ uiq \in Seq(Func)
  BY DEF DesktopInv, TrayInv, Base, QueuesOK
<1>2. UNCHANGED <<ui, trayHidden, hasUnread, shown, icon, unseen, overlap>>
  BY DEF WatcherDo, trayVars, histVars
<1>3. PICK k \in Window : /\ uiq' = Append(uiq, Step(k))
                          /\ k = "hide" => watcher = AboutToHide /\ watcher' = <<>>
                          /\ k = "show" => watcher = AboutToShow /\ watcher' = Clearing
  BY <1>1, WatcherQueues DEF Window
<1>4. Step(k) \in Func /\ Step(k)[1] = k
  BY WindowFuncs DEF Window
<1>5. /\ TwoWindows(uiq') <=> TwoWindows(uiq) \/ Of(uiq, Window)
      /\ \A ks : Of(uiq', ks) <=> Of(uiq, ks) \/ k \in ks
  BY <1>1, <1>3, <1>4, OfAppend, TwoAppend
<1>6. SUFFICES ASSUME ~Doomed' PROVE HiddenOK' /\ IconOK' /\ UnseenOK' /\ WatcherOK'
  BY DEF TrayOK
<1>7. ~overlap /\ ~UIBusy /\ ~Of(uiq, Window) /\ ~TwoWindows(uiq)
  <2>1. ~overlap' /\ ~(UIBusy' /\ Entangled') /\ ~TwoWindows(uiq')
    BY <1>6 DEF Doomed, TwoPending
  <2>2. Entangled'
    BY <1>5, UiNamesNext
  <2>3. UIBusy' <=> UIBusy
    BY <1>2 DEF UIBusy
  <2> QED BY <1>2, <1>5, <2>1, <2>2, <2>3
<1>8. HiddenOK /\ IconOK /\ UnseenOK
  BY <1>1, <1>7 DEF TrayOK, Doomed, TwoPending
<1>9. \A x \in {"hide", "show", "badge", "plain", "swapTrue", "swapFalse"} : ~At(x) /\ ~At(x)'
  BY <1>1, <1>2, <1>7, NotBusy
<1>10. /\ ~Of(uiq, {"hide"}) /\ ~Of(uiq, {"show"})
       /\ Of(uiq', {"hide"}) <=> k = "hide"
       /\ Of(uiq', {"show"}) <=> k = "show"
  <2>1. ~Of(uiq, {"hide"}) /\ ~Of(uiq, {"show"})
    BY <1>7, WindowsOf
  <2> QED BY <1>5, <2>1
<1>11. k = "hide" \/ k = "show"
  BY DEF Window
<1>12. HiddenOK'
  <2>1. (k = "hide" => trayHidden) /\ (k = "show" => ~trayHidden)
    BY <1>3, <1>8 DEF HiddenOK, HidePending, ShowPending
  <2>2. (HidePending' <=> k = "hide") /\ (ShowPending' <=> k = "show")
    BY <1>3, <1>9, <1>10, <1>11, WatcherFacts DEF HidePending, ShowPending
  <2> QED BY <1>2, <1>11, <2>1, <2>2 DEF HiddenOK
<1>13. IconOK'
  <2>1. watcher # Plain /\ watcher' # Plain
    BY <1>3, <1>11, WatcherFacts
  <2> QED BY <1>2, <1>8, <1>9, <2>1 DEF IconOK
<1>14. UnseenOK'
  BY <1>2, <1>3, <1>8, <1>9, <1>10, <1>11, WatcherFacts DEF UnseenOK
<1>15. WatcherOK'
  BY <1>3, <1>10, <1>11, WatcherFacts DEF WatcherOK
<1> QED BY <1>12, <1>13, <1>14, <1>15

\* The steps of the watcher on the tray.
LEMMA WatcherFlips ==
    ASSUME QueuesOK, WatcherTray
    PROVE  \/ /\ watcher = Hiding /\ watcher' = AboutToHide /\ trayHidden' = TRUE
              /\ UNCHANGED <<hasUnread, shown, icon, unseen>>
           \/ /\ watcher = Clearing /\ watcher' = (IF hasUnread THEN Plain ELSE <<>>) /\ hasUnread' = FALSE
              /\ UNCHANGED <<trayHidden, shown, icon, unseen>>
           \/ /\ watcher = Plain /\ watcher' = <<>> /\ icon' = "plain"
              /\ UNCHANGED <<trayHidden, hasUnread, shown, unseen>>
<1>1. watcher \in {Hiding, AboutToHide, AboutToShow, Clearing, Plain}
  BY DEF QueuesOK, WatcherTray
<1>2. watcher \in {Hiding, Clearing, Plain}
  BY <1>1, WatcherFacts DEF WatcherTray, TraySteps
<1>3. AboutToHide \in Seq({Step("doHide")}) /\ Plain \in Seq({Step("plain")})
  BY DEF AboutToHide, Plain
<1>4. <<>> \o AboutToHide = AboutToHide /\ <<>> \o <<>> = <<>> /\ Plain \o <<>> = Plain
  BY <1>3, ConcatEmptySeq
<1>5. Flip(Head(watcher)[1]) /\ watcher' = Icon(Head(watcher)[1]) \o Tail(watcher)
  BY DEF WatcherTray
<1>6. CASE watcher = Hiding
  <2>1. Flip("storeTrue") /\ watcher' = Icon("storeTrue") \o AboutToHide
    BY <1>5, <1>6, WatcherFacts
  <2>2. Icon("storeTrue") = <<>>
    BY DEF Icon
  <2> QED BY <1>4, <1>6, <2>1, <2>2 DEF Flip
<1>7. CASE watcher = Clearing
  <2>1. Flip("swapFalse") /\ watcher' = Icon("swapFalse") \o <<>>
    BY <1>5, <1>7, WatcherFacts
  <2>2. Icon("swapFalse") = IF hasUnread THEN Plain ELSE <<>>
    BY DEF Icon, Plain
  <2>3. watcher' = IF hasUnread THEN Plain ELSE <<>>
    BY <1>4, <2>1, <2>2
  <2> QED BY <1>7, <2>1, <2>3 DEF Flip
<1>8. CASE watcher = Plain
  <2>1. Flip("plain") /\ watcher' = Icon("plain") \o <<>>
    BY <1>5, <1>8, WatcherFacts
  <2>2. Icon("plain") = <<>>
    BY DEF Icon
  <2> QED BY <1>4, <1>8, <2>1, <2>2 DEF Flip
<1> QED BY <1>2, <1>6, <1>7, <1>8

LEMMA WatcherTrayTray ==
    ASSUME DesktopInv, QueuesOK', WatcherTray
    PROVE  TrayOK'
<1>1. TrayOK /\ QueuesOK /\ hasUnread \in BOOLEAN
  BY DEF DesktopInv, TrayInv, Base, TypeOK
<1>2. UNCHANGED <<ui, uiq>> /\ overlap' = (overlap \/ UIBusy)
  BY DEF WatcherTray, queueVars
<1>3. SUFFICES ASSUME ~Doomed' PROVE HiddenOK' /\ IconOK' /\ UnseenOK' /\ WatcherOK'
  BY DEF TrayOK
<1>4. ~overlap /\ ~UIBusy /\ ~TwoWindows(uiq) /\ ~TwoPending'
  BY <1>2, <1>3 DEF Doomed, TwoPending
<1>5. \A x \in {"hide", "show", "badge", "plain", "swapTrue", "swapFalse"} : ~At(x) /\ ~At(x)'
  BY <1>1, <1>2, <1>4, NotBusy
<1>6. \A ks : Of(uiq', ks) <=> Of(uiq, ks)
  BY <1>2
<1>7. CASE watcher = Hiding
  <2>1. watcher' = AboutToHide /\ trayHidden' = TRUE /\ UNCHANGED <<hasUnread, shown, icon, unseen>>
    BY <1>1, <1>7, WatcherFlips, WatcherFacts
  <2>2. ~Of(uiq, Window)
    BY <1>4, <1>6, <2>1 DEF TwoPending
  <2>3. ~Of(uiq, {"hide"}) /\ ~Of(uiq, {"show"}) /\ ~Of(uiq', {"hide"}) /\ ~Of(uiq', {"show"})
    BY <1>6, <2>2, WindowsOf
  <2>4. HiddenOK /\ IconOK /\ UnseenOK
    BY <1>1, <1>4, <2>2 DEF TrayOK, Doomed, TwoPending
  <2>5. HiddenOK'
    BY <1>5, <2>1, <2>3, WatcherFacts DEF HiddenOK, HidePending, ShowPending
  <2>6. IconOK'
    BY <1>5, <1>7, <2>1, <2>4, WatcherFacts DEF IconOK
  <2>7. UnseenOK'
    BY <1>5, <1>7, <2>1, <2>3, <2>4, WatcherFacts DEF UnseenOK
  <2>8. WatcherOK'
    BY <2>1, WatcherFacts DEF WatcherOK
  <2> QED BY <2>5, <2>6, <2>7, <2>8
<1>8. CASE watcher \in {Clearing, Plain}
  <2>1. /\ watcher = Clearing =>
            /\ watcher' = (IF hasUnread THEN Plain ELSE <<>>) /\ hasUnread' = FALSE /\ UNCHANGED icon
        /\ watcher = Plain => watcher' = <<>> /\ icon' = "plain" /\ UNCHANGED hasUnread
        /\ UNCHANGED <<trayHidden, shown, unseen>>
    BY <1>1, <1>8, WatcherFlips, WatcherFacts
  <2>2. ~Doomed
    BY <1>4, <1>8, WatcherFacts DEF Doomed, TwoPending
  <2>3. HiddenOK /\ IconOK /\ UnseenOK /\ Of(uiq, {"show"}) /\ Of(uiq', {"show"})
    BY <1>1, <1>6, <1>8, <2>2 DEF TrayOK, WatcherOK
  <2>4. watcher' \in {Plain, <<>>} /\ ~hasUnread'
    <3>1. watcher = Plain => ~hasUnread
      BY <1>5, <2>3 DEF IconOK
    <3> QED BY <1>1, <1>8, <2>1, <3>1
  <2>5. HiddenOK'
    <3>1. (HidePending' <=> HidePending) /\ (ShowPending' <=> ShowPending)
      BY <1>5, <1>6, <1>8, <2>4, WatcherFacts DEF HidePending, ShowPending
    <3> QED BY <2>1, <2>3, <3>1 DEF HiddenOK
  <2>6. IconOK'
    <3>1. CASE watcher = Clearing
      <4>1. hasUnread <=> icon = "badged"
        BY <1>5, <2>3, <3>1, WatcherFacts DEF IconOK
      <4>2. watcher' # Plain => icon' # "badged"
        BY <1>1, <2>1, <3>1, <4>1
      <4> QED BY <1>5, <2>4, <4>2 DEF IconOK
    <3>2. CASE watcher = Plain
      BY <1>5, <2>1, <2>4, <3>2 DEF IconOK
    <3> QED BY <1>8, <3>1, <3>2
  <2>7. UnseenOK'
    BY <1>5, <2>3, <2>4 DEF UnseenOK
  <2>8. WatcherOK'
    BY <2>3 DEF WatcherOK
  <2> QED BY <2>5, <2>6, <2>7, <2>8
<1> QED BY <1>1, <1>7, <1>8, WatcherFlips

-----------------------------------------------------------------------------
(* What a step leaves alone.                                               *)

LEMMA Parts ==
    ASSUME DesktopInv
    PROVE  /\ TypeOK /\ QueuesOK /\ EventOnce /\ Tracked /\ TrayOK /\ ConversationOK
           /\ ui \in Seq(Triple) /\ Shape(ui) /\ uiq \in Seq(Func) /\ events \in Seq(Func)
           /\ state \in [Msg -> Mark \union {None}]
  BY DEF DesktopInv, TrayInv, Base, QueuesOK, TypeOK

LEMMA Whole ==
    ASSUME TypeOK', QueuesOK', EventOnce', Tracked', TrayOK', ConversationOK'
    PROVE  DesktopInv'
  BY DEF DesktopInv, TrayInv, Base

LEMMA SameTray ==
    ASSUME TrayOK, QueuesOK, QueuesOK',
           UNCHANGED <<uiq, watcher, trayHidden, hasUnread, shown, icon, overlap, unseen>>,
           UNCHANGED ui \/ (Aside(ui) /\ Aside(ui'))
    PROVE  TrayOK'
<1>1. SameWindows(uiq, uiq')
  BY DEF SameWindows
<1> QED BY <1>1, TrayFrame

LEMMA SameTracked ==
    ASSUME Tracked, QueuesOK', UNCHANGED <<notifyPendingIDs, bubbles, early, signals>>,
           UNCHANGED ui \/ (ui' # <<>> => ui'[1][1] # "register")
    PROVE  Tracked'
<1>1. \A m \in notifyPendingIDs' :
        m \in bubbles' \union early' \/ \E i \in 1 .. Len(signals') : signals'[i] = <<"closed", m>>
  BY DEF Tracked
<1>2. At("register")' => The' \in bubbles' \union early'
  <2>1. CASE UNCHANGED ui
    BY <2>1 DEF Tracked, At, The
  <2>2. CASE ui' # <<>> => ui'[1][1] # "register"
    BY <2>2, UiNamesNext
  <2> QED BY <2>1, <2>2
<1> QED BY <1>1, <1>2 DEF Tracked

\* The wait for the pending list.
LEMMA SameWait ==
    ASSUME TypeOK, UNCHANGED reply, UNCHANGED ui \/ ~At("await")
    PROVE  reply' \in {"none", "due", "here"} /\ (reply' # "none" => At("await")')
<1>1. CASE UNCHANGED ui
  BY <1>1 DEF TypeOK, At
<1>2. CASE ~At("await")
  BY <1>2 DEF TypeOK
<1> QED BY <1>1, <1>2

-----------------------------------------------------------------------------
(* One step of each goroutine.                                             *)

LEMMA EmittedQueues ==
    ASSUME DesktopInv, NEW e \in Func, e[1] \in {"message", "state", "pending"}, Emit(e),
           UNCHANGED recv \/ recv' = <<>>,
           UNCHANGED <<uiq, watcher, signals, overlap, unseen>>, ui' \in Seq(Triple), Shape(ui')
    PROVE  QueuesOK' /\ Len(events') <= Cap
<1>1. QueuesOK /\ events \in Seq(Func) /\ Len(events) <= Cap
  BY DEF DesktopInv, TrayInv, Base, QueuesOK, TypeOK
<1>2. events' \in Seq(Func) /\ Len(events') <= Cap
  BY <1>1, Emitted
<1>3. \A i \in 1 .. Len(events') : events'[i][1] \in {"message", "state", "pending"}
  BY <1>1, EmittedKinds
<1>4. /\ recv' \in Seq(Func) /\ Len(recv') \in {0, 1}
      /\ recv' # <<>> => /\ recv'[1][1] \in {"message", "state", "pending"}
                         /\ (recv'[1][1] = "pending" => recv'[1][2] = None)
  <2>1. CASE UNCHANGED recv
    BY <1>1, <2>1 DEF QueuesOK
  <2>2. CASE recv' = <<>>
    BY <2>2
  <2> QED BY <2>1, <2>2
<1> QED BY <1>1, <1>2, <1>3, <1>4 DEF QueuesOK

\* The receive goroutine has an event to emit.
LEMMA ReceivedQueues ==
    ASSUME DesktopInv, NEW e \in Func, e[1] \in {"message", "state", "pending"},
           e[1] = "pending" => e[2] = None, recv' = <<e>>,
           UNCHANGED <<events, uiq, ui, watcher, signals, overlap, unseen>>
    PROVE  QueuesOK'
<1>1. QueuesOK
  BY Parts
<1>2. recv' \in Seq(Func) /\ Len(recv') = 1 /\ recv'[1] = e
  OBVIOUS
<1> QED BY <1>1, <1>2 DEF QueuesOK

LEMMA IncomingStep ==
    ASSUME DesktopInv, NEW m \in Msg, Incoming(m)
    PROVE  DesktopInv'
<1> DEFINE e == <<"message", m, "received">>
<1>1. e \in Func /\ e[1] = "message" /\ e[2] = m
  BY DEF Func, Triple, Kind, Mark
<1>2. /\ state[m] = None /\ state' = [state EXCEPT ![m] = "received"] /\ recv' = <<e>>
      /\ UNCHANGED <<outbox, wire, events, uiq, ui, watcher, trayHidden, hasUnread, shown, icon,
                     bubbles, notifyPendingIDs, signals, reply, late, watching, overlap, unseen,
                     early>>
  BY DEF Incoming, queueVars, trayVars, noteVars, panelVars, histVars
<1>3. /\ TypeOK /\ QueuesOK /\ EventOnce /\ Tracked /\ TrayOK
      /\ ui \in Seq(Triple) /\ Shape(ui) /\ state \in [Msg -> Mark \union {None}]
  BY Parts
<1> HIDE DEF e
<1>4. QueuesOK'
  BY <1>1, <1>2, ReceivedQueues
<1>5. /\ state' \in [Msg -> Mark \union {None}] /\ state'[m] # None
      /\ \A x \in Msg : x # m => state'[x] = state[x]
  BY <1>2, <1>3, DesktopAssumption DEF Mark
<1>6. TypeOK'
  <2>1. reply' \in {"none", "due", "here"} /\ (reply' # "none" => At("await")')
    BY <1>2, <1>3, SameWait
  <2> QED BY <1>2, <1>3, <1>5, <2>1 DEF TypeOK
<1>7. EventOnce'
  <2>1. \A x \in Msg : /\ About(ui', Note, x) => About(ui, Note, x)
                       /\ About(ui', {"insert"}, x) => About(ui, {"insert"}, x)
    BY <1>2
  <2>2. ~About(ui', {"insert"}, m)
    <3>1. m \in Out => FALSE
      BY DesktopAssumption DEF Incoming
    <3>2. ASSUME About(ui', {"insert"}, m) PROVE FALSE
      <4>1. {"insert"} \in SUBSET {"row", "mark", "insert"}
        OBVIOUS
      <4>2. ui # <<>> /\ ui[1][1] = "insert" /\ ui[1][2] = m
        BY <1>2, <1>3, <3>2, <4>1, HeadOnly
      <4>3. m \in Out
        BY <1>3, <4>2, Popped, StepTypes
      <4> QED BY <3>1, <4>3
    <3> QED BY <3>2
  <2>3. \A x \in Msg : state[x] # None => state'[x] # None
    BY <1>5
  <2>4. \A x \in Msg : About(ui', {"insert"}, x) => About(ui, {"insert"}, x) /\ state'[x] = None
    BY <1>3, <1>5, <2>1, <2>2 DEF EventOnce
  <2> QED BY <1>2, <1>3, <2>1, <2>3, <2>4, StoredOnce
<1>8. Tracked' /\ TrayOK'
  BY <1>2, <1>3, <1>4, SameTracked, SameTray
<1>9. ConversationOK'
  BY IncomingConversation
<1> QED BY <1>4, <1>6, <1>7, <1>8, <1>9, Whole

LEMMA MarkStep ==
    ASSUME DesktopInv, NEW m \in Msg, Flush(m) \/ Ack(m)
    PROVE  DesktopInv'
<1>1. PICK st \in {"sent", "delivered"} :
        /\ SetState(m, st) /\ recv' = << <<"state", m, st>> >>
        /\ wire' \in {wire \union {m}, wire \ {m}} /\ outbox' = outbox \ {m}
        /\ m \in outbox \/ m \in wire
        /\ UNCHANGED <<events, uiq, ui, watcher, trayHidden, hasUnread, shown, icon, bubbles,
                       notifyPendingIDs, signals, reply, late, watching, overlap, unseen, early>>
  BY DEF Flush, Ack, queueVars, trayVars, noteVars, panelVars, histVars
<1> DEFINE e == <<"state", m, st>>
<1>2. e \in Func /\ e[1] = "state"
  BY DEF Func, Triple, Kind, Mark
<1>3. recv' = <<e>>
  BY <1>1
<1>4. /\ TypeOK /\ QueuesOK /\ EventOnce /\ Tracked /\ TrayOK
      /\ ui \in Seq(Triple) /\ Shape(ui) /\ state \in [Msg -> Mark \union {None}]
  BY Parts
<1> HIDE DEF e
<1>5. QueuesOK'
  BY <1>1, <1>2, <1>3, ReceivedQueues
<1>6. /\ state' \in [Msg -> Mark \union {None}]
      /\ \A x \in Msg : state'[x] # None <=> state[x] # None
  BY <1>1, <1>4, DesktopAssumption DEF SetState, Mark
<1>7. TypeOK'
  <2>1. reply' \in {"none", "due", "here"} /\ (reply' # "none" => At("await")')
    BY <1>1, <1>4, SameWait
  <2>2. wire' \subseteq Out /\ outbox' \subseteq Out
    BY <1>1, <1>4 DEF TypeOK
  <2> QED BY <1>1, <1>4, <1>6, <2>1, <2>2 DEF TypeOK
<1>8. EventOnce'
  <2>1. \A x \in Msg : /\ About(ui', Note, x) => About(ui, Note, x)
                       /\ About(ui', {"insert"}, x) => About(ui, {"insert"}, x) /\ state'[x] = None
    BY <1>1, <1>4, <1>6 DEF EventOnce
  <2>2. \A x \in Msg : state[x] # None => state'[x] # None
    BY <1>6
  <2> QED BY <1>1, <1>4, <2>1, <2>2, StoredOnce
<1>9. Tracked' /\ TrayOK'
  BY <1>1, <1>4, <1>5, SameTracked, SameTray
<1>10. ConversationOK'
  BY MarkConversation
<1> QED BY <1>5, <1>7, <1>8, <1>9, <1>10, Whole

LEMMA PendingStep ==
    ASSUME DesktopInv, PendingList
    PROVE  DesktopInv'
<1> DEFINE e == <<"pending", None, None>>
<1>1. e \in Func /\ e[1] = "pending" /\ e[2] = None
  BY DEF Func, Triple, Kind
<1>2. /\ recv' = <<e>>
      /\ \/ reply = "due" /\ reply' = "here" /\ UNCHANGED late
         \/ late > 0 /\ late' = late - 1 /\ UNCHANGED reply
      /\ UNCHANGED <<state, outbox, wire, events, uiq, ui, watcher, trayHidden, hasUnread, shown, icon,
                     bubbles, notifyPendingIDs, signals, watching, overlap, unseen, early>>
  BY DEF PendingList, coreVars, queueVars, trayVars, noteVars, histVars
<1>3. /\ TypeOK /\ QueuesOK /\ EventOnce /\ Tracked /\ TrayOK
  BY Parts
<1> HIDE DEF e
<1>4. QueuesOK'
  BY <1>1, <1>2, ReceivedQueues
<1>5. TypeOK'
  <2>1. late' \in Nat
    BY <1>2, <1>3 DEF TypeOK
  <2>2. reply' \in {"none", "due", "here"} /\ (reply' # "none" => At("await")')
    BY <1>2, <1>3 DEF TypeOK, At
  <2> QED BY <1>2, <1>3, <2>1, <2>2 DEF TypeOK
<1>6. EventOnce' /\ Tracked' /\ TrayOK'
  BY <1>2, <1>3, <1>4, SameOnce, SameTracked, SameTray
<1>7. ConversationOK'
  BY PendingConversation
<1> QED BY <1>4, <1>5, <1>6, <1>7, Whole

\* The receive goroutine emits what it has stored.
LEMMA EmitReceivedStep ==
    ASSUME DesktopInv, EmitReceived
    PROVE  DesktopInv'
<1>1. /\ recv # <<>> /\ recv' = <<>> /\ Emit(recv[1])
      /\ UNCHANGED <<state, outbox, wire, uiq, ui, watcher, trayHidden, hasUnread, shown, icon,
                     bubbles, notifyPendingIDs, signals, reply, late, watching, overlap, unseen,
                     early>>
  BY DEF EmitReceived, coreVars, queueVars, trayVars, noteVars, panelVars
<1>2. /\ TypeOK /\ QueuesOK /\ EventOnce /\ Tracked /\ TrayOK /\ ConversationOK
      /\ ui \in Seq(Triple) /\ Shape(ui)
  BY Parts
<1>3. PICK e \in Func : e = recv[1] /\ e[1] \in {"message", "state", "pending"} /\ Emit(e)
  BY <1>1, <1>2, ReceivedFacts
<1>4. QueuesOK' /\ Len(events') <= Cap
  BY <1>1, <1>2, <1>3, EmittedQueues
<1>5. TypeOK'
  <2>1. reply' \in {"none", "due", "here"} /\ (reply' # "none" => At("await")')
    BY <1>1, <1>2, SameWait
  <2> QED BY <1>1, <1>2, <1>4, <2>1 DEF TypeOK
<1>6. EventOnce'
  <2>1. e[1] = "message" => ~Elsewhere(e[2]) /\ state[e[2]] # None
    <3>1. SUFFICES ASSUME e[1] = "message" PROVE ~Elsewhere(e[2]) /\ state[e[2]] # None
      OBVIOUS
    <3>2. e[2] \in Msg
      BY <3>1 DEF Func
    <3>3. Unsent(e[2])
      BY <1>1, <1>3, <3>1 DEF Unsent, Coming
    <3> QED BY <1>2, <3>2, <3>3 DEF ConversationOK, UnsentOK
  <2>2. \A x \in Msg : /\ About(ui', Note, x) => About(ui, Note, x)
                       /\ About(ui', {"insert"}, x) => About(ui, {"insert"}, x)
    BY <1>1
  <2> QED BY <1>1, <1>2, <1>3, <2>1, <2>2, EmittedEventOnce
<1>7. Tracked' /\ TrayOK'
  BY <1>1, <1>2, <1>4, SameTracked, SameTray
<1>8. ConversationOK'
  BY EmitConversation
<1> QED BY <1>4, <1>5, <1>6, <1>7, <1>8, Whole

LEMMA InsertStep ==
    ASSUME DesktopInv, Insert
    PROVE  DesktopInv'
<1>1. /\ ui # <<>> /\ At("insert") /\ state' = [state EXCEPT ![The] = ItsMark] /\ ui' = Tail(ui)
      /\ UNCHANGED <<outbox, wire, recv, events, uiq, watcher, trayHidden, hasUnread, shown, icon,
                     bubbles, notifyPendingIDs, signals, reply, late, watching, overlap, unseen,
                     early>>
  BY DEF Insert, At, trayVars, noteVars, panelVars, histVars
<1>2. /\ TypeOK /\ QueuesOK /\ EventOnce /\ Tracked /\ TrayOK
      /\ ui \in Seq(Triple) /\ Shape(ui) /\ state \in [Msg -> Mark \union {None}]
  BY Parts
<1>3. ui[1][1] = "insert" /\ The = ui[1][2] /\ The \in Msg /\ ItsMark \in Mark
  BY <1>1, <1>2, Popped, StepTypes
<1>4. /\ ui' \in Seq(Triple) /\ Shape(ui') /\ ui' # <<>> /\ ui'[1][1] = "emit"
      /\ \A m, ks : About(ui', ks, m) => About(ui, ks, m)
  <2>1. ui' # <<>> /\ ui'[1] = <<"emit", ui[1][2], ui[1][3]>>
    BY <1>1, <1>2, <1>3, ShapeTail
  <2> QED BY <1>1, <1>2, <2>1, Popped
<1>5. QueuesOK'
  BY <1>1, <1>2, <1>4 DEF QueuesOK
<1>6. /\ state' \in [Msg -> Mark \union {None}] /\ state'[The] # None
      /\ \A x \in Msg : x # The => state'[x] = state[x]
  BY <1>1, <1>2, <1>3, DesktopAssumption
<1>7. TypeOK'
  <2>1. ~At("await")
    BY <1>1, <1>2, <1>3, Popped
  <2>2. reply' \in {"none", "due", "here"} /\ (reply' # "none" => At("await")')
    BY <1>1, <1>2, <2>1, SameWait
  <2> QED BY <1>1, <1>2, <1>6, <2>2 DEF TypeOK
<1>8. EventOnce'
  <2>1. \A x \in Msg : state[x] # None => state'[x] # None
    BY <1>6
  <2>2. \A x : ~About(ui', {"insert"}, x)
    <3>1. {"insert"} \in SUBSET {"row", "mark", "insert"}
      OBVIOUS
    <3>2. \A x : About(ui', {"insert"}, x) => ui'[1][1] \in {"insert"}
      BY <1>4, <3>1, HeadOnly
    <3> QED BY <1>4, <3>2
  <2> QED BY <1>1, <1>2, <1>4, <2>1, <2>2, StoredOnce
<1>9. Tracked'
  BY <1>1, <1>2, <1>4, <1>5, SameTracked
<1>10. TrayOK'
  <2>1. Aside(ui) /\ Aside(ui')
    BY <1>3, <1>4 DEF Aside, TraySteps
  <2> QED BY <1>1, <1>2, <1>5, <2>1, SameTray
<1>11. ConversationOK'
  BY InsertConversation
<1> QED BY <1>5, <1>7, <1>8, <1>9, <1>10, <1>11, Whole

LEMMA EmitSentStep ==
    ASSUME DesktopInv, EmitSent
    PROVE  DesktopInv'
<1>1. /\ ui # <<>> /\ At("emit") /\ Emit(<<"message", The, ItsMark>>) /\ ui' = Tail(ui)
      /\ UNCHANGED <<state, outbox, wire, recv, uiq, watcher, trayHidden, hasUnread, shown, icon,
                     bubbles, notifyPendingIDs, signals, reply, late, watching, overlap, unseen,
                     early>>
  BY DEF EmitSent, At, coreVars, trayVars, noteVars, panelVars
<1>2. /\ TypeOK /\ QueuesOK /\ EventOnce /\ Tracked /\ TrayOK /\ ConversationOK
      /\ ui \in Seq(Triple) /\ Shape(ui)
  BY Parts
<1>3. ui[1][1] = "emit" /\ The = ui[1][2] /\ The \in Msg /\ ItsMark \in Mark
  BY <1>1, <1>2, Popped, StepTypes
<1>4. PICK e \in Func : e = <<"message", The, ItsMark>>
  BY <1>3 DEF Func, Triple, Kind
<1>5. e[1] = "message" /\ e[2] = The /\ Emit(e)
  BY <1>1, <1>4
<1>6. ui' = <<>> /\ ui' \in Seq(Triple) /\ Shape(ui') /\ \A m, ks : ~About(ui', ks, m)
  <2>1. ui' = <<>>
    BY <1>1, <1>2, <1>3, ShapeTail
  <2> QED BY <1>1, <1>2, <2>1, Popped, EmptyFacts
<1>7. QueuesOK' /\ Len(events') <= Cap
  BY <1>1, <1>5, <1>6, EmittedQueues
<1>8. TypeOK'
  <2>1. ~At("await")
    BY <1>1, <1>2, <1>3, Popped
  <2>2. reply' \in {"none", "due", "here"} /\ (reply' # "none" => At("await")')
    BY <1>1, <1>2, <2>1, SameWait
  <2> QED BY <1>1, <1>2, <1>7, <2>2 DEF TypeOK
<1>9. EventOnce'
  <2>1. Unsent(The)
    BY <1>1, <1>3 DEF Unsent, Sending
  <2>2. ~Elsewhere(The) /\ state[The] # None
    BY <1>2, <1>3, <2>1 DEF ConversationOK, UnsentOK
  <2>3. ~Elsewhere(e[2]) /\ state[e[2]] # None
    BY <1>5, <2>2
  <2> QED BY <1>1, <1>2, <1>5, <1>6, <2>3, EmittedEventOnce
<1>10. Tracked'
  BY <1>1, <1>2, <1>6, <1>7, SameTracked
<1>11. TrayOK'
  <2>1. Aside(ui) /\ Aside(ui')
    BY <1>3, <1>6 DEF Aside, TraySteps
  <2> QED BY <1>1, <1>2, <1>7, <2>1, SameTray
<1>12. ConversationOK'
  BY SentConversation
<1> QED BY <1>7, <1>8, <1>9, <1>10, <1>11, <1>12, Whole

\* The panel is closed, and the watcher of clicks subscribes.
LEMMA AsideStep ==
    ASSUME DesktopInv, CloseAdminPanel \/ Subscribe
    PROVE  DesktopInv'
<1>1. /\ UNCHANGED <<log, state, outbox, wire, recv, events, uiq, ui, watcher, open, rows, trayHidden,
                     hasUnread, shown, icon, bubbles, notifyPendingIDs, signals, reply, late, astray,
                     again, overlap, unseen, early>>
      /\ UNCHANGED watching \/ watching' = "on"
  BY DEF Subscribe, CloseAdminPanel, coreVars, queueVars, viewVars, trayVars, noteVars, panelVars,
         histVars
<1>2. TypeOK /\ QueuesOK /\ EventOnce /\ Tracked /\ TrayOK /\ ConversationOK
  BY Parts
<1>3. QueuesOK'
  BY <1>1, <1>2 DEF QueuesOK
<1>4. TypeOK'
  BY <1>1, <1>2 DEF TypeOK, At
<1>5. EventOnce' /\ Tracked' /\ TrayOK'
  BY <1>1, <1>2, <1>3, SameOnce, SameTracked, SameTray
<1>6. ConversationOK'
  BY <1>1, <1>2, SameConversation DEF ConvVars
<1> QED BY <1>3, <1>4, <1>5, <1>6, Whole

LEMMA PumpStep ==
    ASSUME DesktopInv, PumpEvents
    PROVE  DesktopInv'
<1> DEFINE e == events[1]
<1>1. /\ events # <<>> /\ events' = Tail(events) /\ uiq' = Append(uiq, Head(events))
      /\ UNCHANGED <<state, outbox, wire, recv, ui, watcher, trayHidden, hasUnread, shown, icon,
                     bubbles, notifyPendingIDs, signals, reply, late, watching, overlap, unseen,
                     early>>
  BY DEF PumpEvents, Do, coreVars, trayVars, noteVars, panelVars, histVars
<1>2. TypeOK /\ QueuesOK /\ Tracked /\ TrayOK /\ events \in Seq(Func) /\ uiq \in Seq(Func)
  BY Parts
<1>3. /\ Head(events) = e /\ e \in Func /\ events' \in Seq(Func)
      /\ Len(events) \in Nat \ {0} /\ Len(events') = Len(events) - 1
      /\ \A i \in 1 .. (Len(events) - 1) : events'[i] = events[i + 1]
  BY <1>1, <1>2, TailFacts
<1>4. e[1] \in {"message", "state", "pending"}
  BY <1>2, <1>3 DEF QueuesOK
<1>5. \A i \in 1 .. Len(events') : events'[i][1] \in {"message", "state", "pending"}
  <2>1. ASSUME NEW i \in 1 .. Len(events') PROVE i \in 1 .. (Len(events) - 1) /\ i + 1 \in 1 .. Len(events)
    BY <1>3
  <2> QED BY <1>2, <1>3, <2>1 DEF QueuesOK
<1>6. uiq' = Append(uiq, e) /\ uiq' \in Seq(Func)
  BY <1>1, <1>2, <1>3, AppendFacts
<1> HIDE DEF e
<1>7. QueuesOK'
  BY <1>1, <1>2, <1>3, <1>5, <1>6 DEF QueuesOK
<1>8. TypeOK'
  <2>1. reply' \in {"none", "due", "here"} /\ (reply' # "none" => At("await")')
    BY <1>1, <1>2, SameWait
  <2>2. Len(events') <= Cap
    BY <1>2, <1>3, DesktopAssumption DEF TypeOK
  <2> QED BY <1>1, <1>2, <2>1, <2>2 DEF TypeOK
<1>9. EventOnce' /\ ConversationOK'
  BY PumpOnce, PumpConversation
<1>10. Tracked'
  BY <1>1, <1>2, <1>7, SameTracked
<1>11. TrayOK'
  <2>1. SameWindows(uiq, uiq')
    BY <1>2, <1>3, <1>4, <1>6, WindowsAppend DEF Window
  <2> QED BY <1>1, <1>2, <1>7, <2>1, TrayFrame
<1> QED BY <1>7, <1>8, <1>9, <1>10, <1>11, Whole

\* The user begins a function of the UI goroutine.
LEMMA UserStep ==
    ASSUME DesktopInv, ui = <<>>, ui' \in Seq(Triple), Shape(ui'), ui' # <<>>,
           ui'[1][1] \in {"storeTrue", "storeFalse", "reload", "insert"}, wire' \subseteq Out,
           outbox' \subseteq Out,
           \A m \in Msg : ~About(ui', Note, m) /\ (About(ui', {"insert"}, m) => state[m] = None),
           UNCHANGED <<log, state, recv, events, uiq, watcher, open, rows, trayHidden, hasUnread, shown,
                       icon, bubbles, notifyPendingIDs, signals, reply, late, watching, astray,
                       again, overlap, unseen, early>>
    PROVE  DesktopInv'
<1>1. TypeOK /\ QueuesOK /\ EventOnce /\ Tracked /\ TrayOK /\ ConversationOK
  BY Parts
<1>2. QueuesOK'
  BY <1>1 DEF QueuesOK
<1>3. TypeOK'
  <2>1. ~At("await")
    BY DEF At
  <2>2. reply' \in {"none", "due", "here"} /\ (reply' # "none" => At("await")')
    BY <1>1, <2>1, SameWait
  <2> QED BY <1>1, <2>2 DEF TypeOK
<1>4. EventOnce'
  BY <1>1, UiOnce
<1>5. Tracked'
  BY <1>1, <1>2, SameTracked
<1>6. TrayOK'
  <2>1. SameWindows(uiq, uiq')
    BY DEF SameWindows
  <2>2. CASE ui'[1][1] \in {"storeTrue", "storeFalse"}
    BY <1>1, <1>2, <2>1, <2>2, BeginTray
  <2>3. CASE ui'[1][1] \in {"reload", "insert"}
    <3>1. Aside(ui) /\ Aside(ui')
      BY <2>3 DEF Aside, TraySteps
    <3> QED BY <1>1, <1>2, <2>1, <3>1, TrayFrame
  <2> QED BY <2>2, <2>3
<1>7. ConversationOK'
  <2>1. Unlabelled(ui) /\ Unlabelled(ui')
    BY DEF Unlabelled, Label
  <2>2. UNCHANGED <<ConvVars, events, uiq>>
    BY DEF ConvVars
  <2>3. \A m \in Msg : /\ m \in notifyPendingIDs' => m \in notifyPendingIDs \/ About(ui, Note, m)
                       /\ About(ui', Note, m) => About(ui, Note, m)
    OBVIOUS
  <2> QED BY <1>1, <2>1, <2>2, <2>3, UnlabelledStep
<1> QED BY <1>2, <1>3, <1>4, <1>5, <1>6, <1>7, Whole

\* The functions the user begins.
LEMMA Begins ==
    ASSUME NEW u \in {Close, TrayShow, Reload}
    PROVE  /\ u \in Seq(Triple) /\ Shape(u) /\ u # <<>>
           /\ u[1][1] \in {"storeTrue", "storeFalse", "reload"}
           /\ \A m : ~About(u, Note, m) /\ ~About(u, {"insert"}, m)
<1>1. ASSUME NEW k \in Kind PROVE Step(k) \in Triple /\ Step(k)[1] = k
  BY StepIsTriple
<1>2. CASE u = Close
  <2>1. u \in Seq(Triple) /\ Len(u) = 2 /\ u[1] = Step("storeTrue") /\ u[2] = Step("hide")
    BY <1>1, <1>2 DEF Close, Kind
  <2>2. u[1][1] = "storeTrue" /\ u[2][1] = "hide"
    BY <1>1, <2>1 DEF Kind
  <2>3. \A i \in 1 .. Len(u) : i = 1 \/ i = 2
    BY <2>1
  <2>4. u # <<>>
    BY <2>1
  <2> QED BY <2>1, <2>2, <2>3, <2>4 DEF Shape, About, Note
<1>3. CASE u = TrayShow
  <2>1. /\ u \in Seq(Triple) /\ Len(u) = 3 /\ u[1] = Step("storeFalse") /\ u[2] = Step("show")
        /\ u[3] = Step("swapFalse")
    BY <1>1, <1>3 DEF TrayShow, Kind
  <2>2. u[1][1] = "storeFalse" /\ u[2][1] = "show" /\ u[3][1] = "swapFalse"
    BY <1>1, <2>1 DEF Kind
  <2>3. \A i \in 1 .. Len(u) : i = 1 \/ i = 2 \/ i = 3
    BY <2>1
  <2>4. u # <<>>
    BY <2>1
  <2>5. ClickFrom(u, 4) /\ Len(u) >= 3
    BY <2>1 DEF ClickFrom
  <2>6. Shape(u)
    BY <2>2, <2>5 DEF Shape
  <2> QED BY <2>1, <2>2, <2>3, <2>4, <2>6 DEF About, Note
<1>4. CASE u = Reload
  <2>1. u \in Seq(Triple) /\ Len(u) = 2 /\ u[1] = Step("reload") /\ u[2] = Step("await")
    BY <1>1, <1>4 DEF Reload, Kind
  <2>2. u[1][1] = "reload" /\ u[2][1] = "await"
    BY <1>1, <2>1 DEF Kind
  <2>3. \A i \in 1 .. Len(u) : i = 1 \/ i = 2
    BY <2>1
  <2>4. u # <<>>
    BY <2>1
  <2> QED BY <2>1, <2>2, <2>3, <2>4 DEF Shape, About, Note
<1> QED BY <1>2, <1>3, <1>4

LEMMA ClickStep ==
    ASSUME DesktopInv, CloseWindow \/ ClickTray \/ ShowAdminPanel
    PROVE  DesktopInv'
<1>1. /\ ui = <<>> /\ ui' \in {Close, TrayShow, Reload}
      /\ UNCHANGED <<log, state, outbox, wire, recv, events, uiq, watcher, open, rows, trayHidden,
                     hasUnread, shown, icon, bubbles, notifyPendingIDs, signals, reply, late,
                     watching, astray, again, overlap, unseen, early>>
  BY DEF CloseWindow, ClickTray, ShowAdminPanel, Act, Idle, coreVars, viewVars, trayVars, noteVars,
         panelVars, histVars
<1>2. /\ ui' \in Seq(Triple) /\ Shape(ui') /\ ui' # <<>>
      /\ ui'[1][1] \in {"storeTrue", "storeFalse", "reload"}
      /\ \A m : ~About(ui', Note, m) /\ ~About(ui', {"insert"}, m)
  BY <1>1, Begins
<1>3. wire' \subseteq Out /\ outbox' \subseteq Out
  BY <1>1, Parts DEF TypeOK
<1> QED BY <1>1, <1>2, <1>3, UserStep

LEMMA SendStep ==
    ASSUME DesktopInv, NEW m \in Msg, Send(m)
    PROVE  DesktopInv'
<1>1. /\ ui = <<>> /\ m \in Out /\ state[m] = None
      /\ wire' \in {wire, wire \union {m}} /\ outbox' \in {outbox, outbox \union {m}}
      /\ \E st \in {"sent", "queued"} : ui' = << <<"insert", m, st>>, <<"emit", m, st>> >>
      /\ UNCHANGED <<log, state, recv, events, uiq, watcher, open, rows, trayHidden, hasUnread,
                     shown, icon, bubbles, notifyPendingIDs, signals, reply, late, watching, astray,
                     again, overlap, unseen, early>>
  BY DEF Send, Act, Idle, viewVars, trayVars, noteVars, panelVars, histVars
<1>2. PICK st \in {"sent", "queued"} : ui' = << <<"insert", m, st>>, <<"emit", m, st>> >>
  BY <1>1
<1> DEFINE t == <<"insert", m, st>>
           r == <<"emit", m, st>>
<1>3. t \in Triple /\ t[1] = "insert" /\ t[2] = m /\ t[3] \in Mark
  BY DEF Triple, Kind, Mark
<1>4. r \in Triple /\ r[1] = "emit" /\ r = <<"emit", t[2], t[3]>>
  BY DEF Triple, Kind, Mark
<1>5. ui' = <<t, r>>
  BY <1>2
<1> HIDE DEF t, r
<1>6. ui' \in Seq(Triple) /\ Len(ui') = 2 /\ ui'[1] = t /\ ui'[2] = r /\ ui' # <<>>
  BY <1>3, <1>4, <1>5
<1>7. Shape(ui')
  BY <1>1, <1>3, <1>4, <1>6 DEF Shape
<1>8. \A i \in 1 .. Len(ui') : i = 1 \/ i = 2
  BY <1>6
<1>9. \A x : ~About(ui', Note, x) /\ (About(ui', {"insert"}, x) => x = m)
  BY <1>3, <1>4, <1>6, <1>8 DEF About, Note
<1>10. wire' \subseteq Out /\ outbox' \subseteq Out
  BY <1>1, Parts DEF TypeOK
<1> QED BY <1>1, <1>3, <1>6, <1>7, <1>9, <1>10, UserStep

LEMMA SelectStep ==
    ASSUME DesktopInv, SelectPeer
    PROVE  DesktopInv'
<1>1. UNCHANGED <<state, outbox, wire, recv, events, uiq, ui, watcher, trayHidden, hasUnread,
                  shown, icon, bubbles, notifyPendingIDs, signals, reply, late, watching, overlap,
                  unseen, early>>
  BY DEF SelectPeer, coreVars, queueVars, trayVars, noteVars, panelVars
<1>2. TypeOK /\ QueuesOK /\ EventOnce /\ Tracked /\ TrayOK
  BY Parts
<1>3. QueuesOK'
  BY <1>1, <1>2 DEF QueuesOK
<1>4. TypeOK'
  BY <1>1, <1>2 DEF TypeOK, At
<1>5. EventOnce' /\ Tracked' /\ TrayOK'
  BY <1>1, <1>2, <1>3, SameOnce, SameTracked, SameTray
<1> QED BY <1>3, <1>4, <1>5, SelectConversation, Whole

LEMMA TakeStep ==
    ASSUME DesktopInv, Take
    PROVE  DesktopInv'
<1> DEFINE f == uiq[1]
<1>1. /\ ui = <<>> /\ uiq # <<>> /\ uiq' = Tail(uiq)
      /\ UNCHANGED <<state, outbox, wire, recv, events, watcher, trayHidden, hasUnread, shown,
                     icon, bubbles, notifyPendingIDs, signals, reply, late, watching, overlap,
                     unseen, early>>
  BY DEF Take, Idle, coreVars, trayVars, noteVars, panelVars, histVars
<1>2. TypeOK /\ QueuesOK /\ Tracked /\ uiq \in Seq(Func)
  BY Parts
<1>3. f \in Func /\ Head(uiq) = f /\ uiq' \in Seq(Func)
  BY <1>1, <1>2, TailFacts
<1>4. Handles(f, ui')
  BY <1>3, BodyFacts DEF Take
<1>5. ui' \in Seq(Triple) /\ Shape(ui')
  BY <1>4 DEF Handles
<1>6. QueuesOK'
  BY <1>1, <1>2, <1>3, <1>5 DEF QueuesOK
<1>7. TypeOK'
  <2>1. ~At("await")
    BY <1>1 DEF At
  <2>2. reply' \in {"none", "due", "here"} /\ (reply' # "none" => At("await")')
    BY <1>1, <1>2, <2>1, SameWait
  <2> QED BY <1>1, <1>2, <2>2 DEF TypeOK
<1>8. Tracked'
  <2>1. <<"row", f[2], f[3]>>[1] = "row" /\ <<"mark", f[2], f[3]>>[1] = "mark"
    OBVIOUS
  <2>2. f[1] \in {"message", "state", "pending", "hide", "show", "reload", "click"}
    BY <1>3 DEF Func
  <2>3. ui' # <<>> => ui'[1][1] # "register"
    BY <1>4, <2>1, <2>2 DEF Handles
  <2> QED BY <1>1, <1>2, <1>6, <2>3, SameTracked
<1> QED BY <1>6, <1>7, <1>8, TakeOnce, TakeTray, TakeConversation, Whole

\* The UI goroutine ends a step that is none on the tray.
LEMMA PopQueues ==
    ASSUME DesktopInv, ui # <<>>, ui' = Tail(ui), ui[1][1] \notin TraySteps,
           ui[1][1] # "insert", UNCHANGED recv,
           UNCHANGED <<events, uiq, watcher, trayHidden, hasUnread, shown, icon, signals, overlap,
                       unseen>>
    PROVE  QueuesOK' /\ Aside(ui) /\ Aside(ui') /\ Unlabelled(ui') /\ TrayOK'
<1>1. QueuesOK /\ TrayOK /\ ui \in Seq(Triple) /\ Shape(ui)
  BY Parts
<1>2. ui' \in Seq(Triple) /\ Shape(ui') /\ Unlabelled(ui')
  BY <1>1, Popped
<1>3. QueuesOK'
  BY <1>1, <1>2 DEF QueuesOK
<1>4. Aside(ui)
  BY DEF Aside
<1>5. Aside(ui')
  <2>1. SUFFICES ASSUME Tail(ui) # <<>> PROVE Tail(ui)[1][1] \notin TraySteps
    BY DEF Aside
  <2>2. Len(ui) \in Nat \ {0} /\ Len(ui) >= 2 /\ Tail(ui)[1] = ui[2]
    BY <1>1, <2>1, Behind
  <2>3. 2 \in 1 .. Len(ui)
    BY <2>2
  <2>4. ui[2][1] \notin TraySteps
    BY <1>1, <2>3, FirstOnly
  <2> QED BY <2>2, <2>4
<1>6. TrayOK'
  BY <1>1, <1>3, <1>4, <1>5, SameTray
<1> QED BY <1>2, <1>3, <1>4, <1>5, <1>6

LEMMA PopOnce ==
    ASSUME EventOnce, QueuesOK, ui # <<>>, ui' = Tail(ui), UNCHANGED <<events, uiq, state,
                                                                       notifyPendingIDs>>
    PROVE  EventOnce'
<1>1. \A m, ks : About(ui', ks, m) => About(ui, ks, m)
  BY Popped
<1>2. \A m \in Msg : /\ About(ui', Note, m) => About(ui, Note, m)
                     /\ About(ui', {"insert"}, m) => state[m] = None
  BY <1>1 DEF EventOnce
<1> QED BY <1>2, UiOnce

LEMMA LabelStep ==
    ASSUME DesktopInv, AppendMessage \/ MarkState
    PROVE  DesktopInv'
<1>1. /\ At("row") \/ At("mark")
      /\ ui' = Tail(ui)
      /\ UNCHANGED <<state, outbox, wire, recv, events, uiq, watcher, trayHidden, hasUnread,
                     shown, icon, bubbles, notifyPendingIDs, signals, reply, late, watching,
                     overlap, unseen, early>>
  BY DEF AppendMessage, MarkState, At, coreVars, trayVars, noteVars, panelVars, histVars
<1>2. TypeOK /\ QueuesOK /\ EventOnce /\ Tracked /\ ui \in Seq(Triple) /\ Shape(ui)
  BY Parts
<1>3. ui # <<>> /\ ui[1][1] \in {"row", "mark"}
  <2>1. ui # <<>>
    BY <1>1 DEF At
  <2> QED BY <1>1, <1>2, <2>1, Popped
<1>4. QueuesOK' /\ TrayOK'
  <2>1. ui[1][1] \notin TraySteps /\ ui[1][1] # "insert"
    BY <1>3 DEF TraySteps
  <2> QED BY <1>1, <1>3, <2>1, PopQueues
<1>5. TypeOK'
  <2>1. ~At("await")
    BY <1>2, <1>3, Popped
  <2>2. reply' \in {"none", "due", "here"} /\ (reply' # "none" => At("await")')
    BY <1>1, <1>2, <2>1, SameWait
  <2> QED BY <1>1, <1>2, <2>2 DEF TypeOK
<1>6. EventOnce'
  BY <1>1, <1>2, <1>3, PopOnce
<1>7. Tracked'
  <2>1. ui' # <<>> => ui'[1][1] # "register"
    BY <1>1, <1>2, <1>3, ShapeTail
  <2> QED BY <1>1, <1>2, <1>4, <2>1, SameTracked
<1>8. ConversationOK'
  BY AppendConversation, MarkStateConversation
<1> QED BY <1>4, <1>5, <1>6, <1>7, <1>8, Whole

LEMMA NotifyStep ==
    ASSUME DesktopInv, Notify
    PROVE  DesktopInv'
<1>1. /\ ui # <<>> /\ At("notify") /\ bubbles' = bubbles \union {The} /\ ui' = Tail(ui)
      /\ UNCHANGED <<log, state, outbox, wire, recv, events, uiq, watcher, open, rows, trayHidden,
                     hasUnread, shown, icon, notifyPendingIDs, signals, reply, late,
                     astray, again, overlap, unseen, early>>
      /\ UNCHANGED watching \/ watching' = "starting"
  BY DEF Notify, At, coreVars, viewVars, trayVars, panelVars, histVars
<1>2. TypeOK /\ QueuesOK /\ EventOnce /\ Tracked /\ ConversationOK /\ ui \in Seq(Triple) /\ Shape(ui)
  BY Parts
<1>3. ui[1][1] = "notify" /\ The = ui[1][2] /\ The \in In
  BY <1>1, <1>2, Popped, StepTypes
<1>4. QueuesOK' /\ TrayOK' /\ Unlabelled(ui')
  <2>1. ui[1][1] \notin TraySteps /\ ui[1][1] # "insert"
    BY <1>3 DEF TraySteps
  <2> QED BY <1>1, <2>1, PopQueues
<1>5. TypeOK'
  <2>1. ~At("await")
    BY <1>1, <1>2, <1>3, Popped
  <2>2. reply' \in {"none", "due", "here"} /\ (reply' # "none" => At("await")')
    BY <1>1, <1>2, <2>1, SameWait
  <2> QED BY <1>1, <1>2, <1>3, <2>2 DEF TypeOK
<1>6. EventOnce'
  BY <1>1, <1>2, PopOnce
<1>7. Tracked'
  <2>1. \A m \in notifyPendingIDs' :
          m \in bubbles' \union early' \/ \E i \in 1 .. Len(signals') : signals'[i] = <<"closed", m>>
    BY <1>1, <1>2 DEF Tracked
  <2>2. ui' # <<>> /\ ui'[1] = <<"register", ui[1][2], None>>
    BY <1>1, <1>2, <1>3, ShapeTail
  <2>3. The' = ui'[1][2]
    <3>1. Head(ui') = ui'[1]
      BY <1>4, <2>2, TailFacts DEF QueuesOK
    <3> QED BY <3>1 DEF The
  <2>4. The' \in bubbles'
    BY <1>1, <1>3, <2>2, <2>3
  <2> QED BY <2>1, <2>4 DEF Tracked
<1>8. ConversationOK'
  <2>1. Unlabelled(ui) /\ ui' \in Seq(Triple) /\ Shape(ui')
    BY <1>3, <1>4 DEF Unlabelled, Label, QueuesOK
  <2>2. \A m \in Msg : /\ m \in notifyPendingIDs' => m \in notifyPendingIDs \/ About(ui, Note, m)
                       /\ About(ui', Note, m) => About(ui, Note, m)
    BY <1>1, <1>2, Popped
  <2> QED BY <1>1, <1>2, <1>4, <2>1, <2>2, UnlabelledStep DEF ConvVars
<1> QED BY <1>4, <1>5, <1>6, <1>7, <1>8, Whole

LEMMA RegisterStep ==
    ASSUME DesktopInv, Register
    PROVE  DesktopInv'
<1>1. /\ ui # <<>> /\ At("register") /\ notifyPendingIDs' = notifyPendingIDs \union {The} /\ ui' = Tail(ui)
      /\ UNCHANGED <<log, state, outbox, wire, recv, events, uiq, watcher, open, rows, trayHidden,
                     hasUnread, shown, icon, bubbles, signals, reply, late, watching, astray,
                     again, overlap, unseen, early>>
  BY DEF Register, At, coreVars, viewVars, trayVars, panelVars, histVars
<1>2. TypeOK /\ QueuesOK /\ Tracked /\ ConversationOK /\ ui \in Seq(Triple) /\ Shape(ui)
  BY Parts
<1>3. ui[1][1] = "register" /\ The = ui[1][2] /\ The \in In
  BY <1>1, <1>2, Popped, StepTypes
<1>4. QueuesOK' /\ TrayOK' /\ Unlabelled(ui')
  <2>1. ui[1][1] \notin TraySteps /\ ui[1][1] # "insert"
    BY <1>3 DEF TraySteps
  <2> QED BY <1>1, <2>1, PopQueues
<1>5. TypeOK'
  <2>1. ~At("await")
    BY <1>1, <1>2, <1>3, Popped
  <2>2. reply' \in {"none", "due", "here"} /\ (reply' # "none" => At("await")')
    BY <1>1, <1>2, <2>1, SameWait
  <2> QED BY <1>1, <1>2, <1>3, <2>2 DEF TypeOK
<1>6. Tracked'
  <2>1. ui' = <<>>
    BY <1>1, <1>2, <1>3, ShapeTail
  <2>2. The \in bubbles \union early
    BY <1>1, <1>2 DEF Tracked
  <2>3. ~At("register")'
    BY <2>1 DEF At
  <2>4. \A m \in notifyPendingIDs' :
          m \in bubbles' \union early' \/ \E i \in 1 .. Len(signals') : signals'[i] = <<"closed", m>>
    BY <1>1, <1>2, <2>2 DEF Tracked
  <2> QED BY <2>3, <2>4 DEF Tracked
<1>7. ConversationOK'
  <2>1. Unlabelled(ui) /\ ui' \in Seq(Triple) /\ Shape(ui')
    BY <1>3, <1>4 DEF Unlabelled, Label, QueuesOK
  <2>2. About(ui, Note, The)
    <3>1. 1 \in 1 .. Len(ui) /\ "register" \in Note
      BY <1>1, <1>2, EmptySeq DEF Note
    <3> QED BY <1>3, <3>1 DEF About
  <2>3. \A m \in Msg : /\ m \in notifyPendingIDs' => m \in notifyPendingIDs \/ About(ui, Note, m)
                       /\ About(ui', Note, m) => About(ui, Note, m)
    BY <1>1, <1>2, <2>2, Popped
  <2> QED BY <1>1, <1>2, <1>4, <2>1, <2>3, UnlabelledStep DEF ConvVars
<1> QED BY <1>4, <1>5, <1>6, <1>7, RegisterOnce, Whole

\* The click has run, and the list of pending devices is there.
LEMMA AwaitStep ==
    ASSUME DesktopInv, Clicked \/ AwaitPending
    PROVE  DesktopInv'
<1>1. /\ At("clicked") \/ At("await")
      /\ ui' = Tail(ui) /\ (UNCHANGED reply \/ reply' = "none") /\ (At("await") => reply' = "none")
      /\ late' \in {late, late + 1}
      /\ UNCHANGED <<log, state, outbox, wire, recv, events, uiq, watcher, open, rows, trayHidden,
                     hasUnread, shown, icon, bubbles, notifyPendingIDs, signals, watching, astray, again,
                     overlap, unseen, early>>
  <2>1. Clicked => ~At("await")
    BY DEF Clicked, At
  <2> QED BY <2>1 DEF Clicked, AwaitPending, coreVars, viewVars, trayVars, noteVars, panelVars, histVars
<1>2. TypeOK /\ QueuesOK /\ EventOnce /\ Tracked /\ ConversationOK /\ ui \in Seq(Triple) /\ Shape(ui)
  BY Parts
<1>3. ui # <<>> /\ ui[1][1] \in {"clicked", "await"}
  <2>1. ui # <<>>
    BY <1>1 DEF At
  <2> QED BY <1>1, <1>2, <2>1, Popped
<1>4. QueuesOK' /\ TrayOK' /\ Unlabelled(ui')
  <2>1. ui[1][1] \notin TraySteps /\ ui[1][1] # "insert"
    BY <1>3 DEF TraySteps
  <2> QED BY <1>1, <1>3, <2>1, PopQueues
<1>5. TypeOK'
  <2>1. reply' = "none"
    BY <1>1, <1>2 DEF TypeOK
  <2>2. late' \in Nat
    BY <1>1, <1>2 DEF TypeOK
  <2> QED BY <1>1, <1>2, <2>1, <2>2 DEF TypeOK
<1>6. EventOnce'
  BY <1>1, <1>2, <1>3, PopOnce
<1>7. Tracked'
  <2>1. ui' = <<>>
    BY <1>1, <1>2, <1>3, ShapeTail
  <2> QED BY <1>1, <1>2, <1>4, <2>1, SameTracked
<1>8. ConversationOK'
  <2>1. Unlabelled(ui) /\ ui' \in Seq(Triple) /\ Shape(ui')
    BY <1>3, <1>4 DEF Unlabelled, Label, QueuesOK
  <2>2. \A m \in Msg : /\ m \in notifyPendingIDs' => m \in notifyPendingIDs \/ About(ui, Note, m)
                       /\ About(ui', Note, m) => About(ui, Note, m)
    BY <1>1, <1>2, <1>3, Popped
  <2> QED BY <1>1, <1>2, <1>4, <2>1, <2>2, UnlabelledStep DEF ConvVars
<1> QED BY <1>4, <1>5, <1>6, <1>7, <1>8, Whole

LEMMA AskStep ==
    ASSUME DesktopInv, AskPending
    PROVE  DesktopInv'
<1>1. /\ ui # <<>> /\ At("reload")
      /\ (reply' = "due" /\ ui' = Tail(ui)) \/ (UNCHANGED reply /\ ui' = Tail(Tail(ui)))
      /\ UNCHANGED <<log, state, outbox, wire, recv, events, uiq, watcher, open, rows, trayHidden,
                     hasUnread, shown, icon, bubbles, notifyPendingIDs, signals, late, watching, astray, again,
                     overlap, unseen, early>>
  BY DEF AskPending, At, coreVars, viewVars, trayVars, noteVars, histVars
<1>2. /\ TypeOK /\ QueuesOK /\ EventOnce /\ Tracked /\ TrayOK /\ ConversationOK
      /\ ui \in Seq(Triple) /\ Shape(ui)
  BY Parts
<1>3. ui[1][1] = "reload" /\ ~At("await")
  BY <1>1, <1>2, Popped
<1>4. reply = "none"
  BY <1>2, <1>3 DEF TypeOK
<1> DEFINE t == Tail(ui)
<1>5. /\ t \in Seq(Triple) /\ Shape(t) /\ t # <<>> /\ t[1][1] = "await"
      /\ \A m, ks : About(t, ks, m) => About(ui, ks, m)
  BY <1>1, <1>2, <1>3, ShapeTail, Popped
<1> HIDE DEF t
<1>6. Tail(t) = <<>>
  BY <1>5, ShapeTail
<1>7. (reply' = "due" /\ ui' = t) \/ (reply' = "none" /\ ui' = <<>>)
  BY <1>1, <1>4, <1>6 DEF t
<1>8. /\ ui' \in Seq(Triple) /\ Shape(ui') /\ (ui' # <<>> => ui'[1][1] = "await")
      /\ \A m, ks : About(ui', ks, m) => About(ui, ks, m)
  <2>1. CASE ui' = t
    BY <1>5, <2>1
  <2>2. CASE ui' = <<>>
    <3>1. <<>> \in Seq(Triple) /\ Shape(<<>>)
      BY DEF Shape
    <3> QED BY <2>2, <3>1, EmptyFacts
  <2> QED BY <1>7, <2>1, <2>2
<1>9. QueuesOK'
  BY <1>1, <1>2, <1>8 DEF QueuesOK
<1>10. TypeOK'
  <2>1. reply' # "none" => At("await")'
    BY <1>5, <1>7, <1>9, UiNamesNext
  <2> QED BY <1>1, <1>2, <1>7, <2>1 DEF TypeOK
<1>11. EventOnce'
  BY <1>1, <1>2, <1>8, UiOnce DEF EventOnce
<1>12. Tracked'
  BY <1>1, <1>2, <1>8, <1>9, SameTracked
<1>13. TrayOK'
  <2>1. Aside(ui) /\ Aside(ui')
    BY <1>3, <1>8 DEF Aside, TraySteps
  <2> QED BY <1>1, <1>2, <1>9, <2>1, SameTray
<1>14. ConversationOK'
  <2>1. Unlabelled(ui) /\ Unlabelled(ui')
    BY <1>3, <1>8 DEF Unlabelled, Label
  <2>2. \A m \in Msg : /\ m \in notifyPendingIDs' => m \in notifyPendingIDs \/ About(ui, Note, m)
                       /\ About(ui', Note, m) => About(ui, Note, m)
    BY <1>1, <1>8
  <2> QED BY <1>1, <1>2, <1>8, <2>1, <2>2, UnlabelledStep DEF ConvVars
<1> QED BY <1>9, <1>10, <1>11, <1>12, <1>13, <1>14, Whole

LEMMA AdminReloadStep ==
    ASSUME DesktopInv, AdminReload
    PROVE  DesktopInv'
<1>1. /\ ui # <<>> /\ At("doReload") /\ ui' = Tail(ui) /\ uiq' = Append(uiq, Step("reload"))
      /\ UNCHANGED <<log, state, outbox, wire, recv, events, watcher, open, rows, trayHidden,
                     hasUnread, shown, icon, bubbles, notifyPendingIDs, signals, reply, late,
                     watching, astray, again, overlap, unseen, early>>
  BY DEF AdminReload, Do, At, coreVars, viewVars, trayVars, noteVars, panelVars, histVars
<1>2. /\ TypeOK /\ QueuesOK /\ EventOnce /\ Tracked /\ TrayOK /\ ConversationOK
      /\ ui \in Seq(Triple) /\ Shape(ui) /\ uiq \in Seq(Func)
  BY Parts
<1>3. ui[1][1] = "doReload" /\ ~At("await")
  BY <1>1, <1>2, Popped
<1>4. ui' = <<>> /\ ui' \in Seq(Triple) /\ Shape(ui')
  BY <1>1, <1>2, <1>3, ShapeTail, Popped
<1>5. Step("reload") \in Func /\ Step("reload")[1] = "reload"
  BY WindowFuncs
<1>6. QueuesOK'
  <2>1. uiq' \in Seq(Func)
    BY <1>1, <1>2, <1>5, AppendFacts
  <2> QED BY <1>1, <1>2, <1>4, <2>1 DEF QueuesOK
<1>7. TypeOK'
  <2>1. reply' \in {"none", "due", "here"} /\ (reply' # "none" => At("await")')
    BY <1>1, <1>2, <1>3, SameWait
  <2> QED BY <1>1, <1>2, <2>1 DEF TypeOK
<1>8. EventOnce'
  <2>1. \A m, ks : ~About(ui', ks, m)
    BY <1>4, EmptyFacts
  <2> QED BY <1>1, <1>2, <1>5, <2>1, QueuedOnce
<1>9. Tracked'
  BY <1>1, <1>2, <1>4, <1>6, SameTracked
<1>10. TrayOK'
  <2>1. SameWindows(uiq, uiq')
    BY <1>1, <1>2, <1>5, WindowsAppend DEF Window
  <2>2. Aside(ui) /\ Aside(ui')
    BY <1>3, <1>4 DEF Aside, TraySteps
  <2> QED BY <1>1, <1>2, <1>6, <2>1, <2>2, TrayFrame
<1>11. ConversationOK'
  <2>1. Unlabelled(ui) /\ Unlabelled(ui') /\ "reload" \notin Event
    BY <1>3, <1>4 DEF Unlabelled, Label, Event
  <2>2. \A m \in Msg : About(ui', Note, m) => About(ui, Note, m)
    BY <1>4, EmptyFacts
  <2> QED BY <1>1, <1>2, <1>4, <1>5, <2>1, <2>2, QueuedConversation DEF ConvVars
<1> QED BY <1>6, <1>7, <1>8, <1>9, <1>10, <1>11, Whole

LEMMA CheckHiddenStep ==
    ASSUME DesktopInv, CheckHidden
    PROVE  DesktopInv'
<1>1. /\ unseen' = (unseen \/ trayHidden) /\ overlap' = (overlap \/ (trayHidden /\ Entangled))
      /\ UNCHANGED <<log, state, outbox, wire, recv, events, uiq, watcher, open, rows, trayHidden,
                     hasUnread, shown, icon, bubbles, notifyPendingIDs, signals, reply, late,
                     watching, astray, again, early>>
  BY DEF CheckHidden, coreVars, viewVars, trayVars, noteVars, panelVars
<1>2. TypeOK /\ QueuesOK /\ EventOnce /\ Tracked /\ TrayOK /\ ConversationOK
  BY Parts
<1>3. /\ ui # <<>> /\ ui[1][1] = "check" /\ ui' \in Seq(Triple) /\ Shape(ui')
      /\ \A ks, m : m \in Msg => (About(ui', ks, m) => About(ui, ks, m))
      /\ ui' # <<>> => ui'[1][1] \in {"swapTrue", "notify"}
  BY <1>2, CheckUi DEF TypeOK
<1>4. QueuesOK'
  <2>1. unseen' \in BOOLEAN /\ overlap' \in BOOLEAN
    BY <1>1
  <2> QED BY <1>1, <1>2, <1>3, <2>1 DEF QueuesOK
<1>5. TypeOK'
  <2>1. ~At("await")
    BY <1>2, <1>3, Popped
  <2>2. reply' \in {"none", "due", "here"} /\ (reply' # "none" => At("await")')
    BY <1>1, <1>2, <2>1, SameWait
  <2> QED BY <1>1, <1>2, <2>2 DEF TypeOK
<1>6. EventOnce'
  <2>1. \A m \in Msg : /\ About(ui', Note, m) => About(ui, Note, m)
                       /\ About(ui', {"insert"}, m) => state[m] = None
    BY <1>2, <1>3 DEF EventOnce
  <2> QED BY <1>1, <1>2, <2>1, UiOnce
<1>7. Tracked'
  BY <1>1, <1>2, <1>3, <1>4, SameTracked
<1>8. ConversationOK'
  <2>1. Unlabelled(ui) /\ Unlabelled(ui')
    BY <1>3 DEF Unlabelled, Label
  <2>2. \A m \in Msg : /\ m \in notifyPendingIDs' => m \in notifyPendingIDs \/ About(ui, Note, m)
                       /\ About(ui', Note, m) => About(ui, Note, m)
    BY <1>1, <1>3
  <2> QED BY <1>1, <1>2, <1>3, <2>1, <2>2, UnlabelledStep DEF ConvVars
<1> QED BY <1>4, <1>5, <1>6, <1>7, <1>8, CheckHiddenTray, Whole

\* The steps on the tray keep the flags flags.
LEMMA FlipTypes ==
    ASSUME TypeOK, QueuesOK, NEW s \in TraySteps, Flip(s)
    PROVE  /\ trayHidden' \in BOOLEAN /\ hasUnread' \in BOOLEAN /\ shown' \in BOOLEAN
           /\ unseen' \in BOOLEAN /\ icon' \in {"plain", "badged"}
<1>1. /\ trayHidden \in BOOLEAN /\ hasUnread \in BOOLEAN /\ shown \in BOOLEAN
      /\ unseen \in BOOLEAN /\ icon \in {"plain", "badged"}
  BY DEF TypeOK, QueuesOK
<1>2. CASE s \in {"storeTrue", "storeFalse"}
  BY <1>1, <1>2 DEF Flip
<1>3. CASE s \in {"swapTrue", "swapFalse"}
  BY <1>1, <1>3 DEF Flip
<1>4. CASE s \in {"hide", "show"}
  BY <1>1, <1>4 DEF Flip
<1>5. CASE s \in {"badge", "plain"}
  BY <1>1, <1>5 DEF Flip
<1> QED BY <1>2, <1>3, <1>4, <1>5 DEF TraySteps

LEMMA TrayStep ==
    ASSUME DesktopInv, Tray
    PROVE  DesktopInv'
<1>1. /\ Flip(Head(ui)[1]) /\ overlap' = (overlap \/ Entangled)
      /\ UNCHANGED <<log, state, outbox, wire, recv, events, uiq, watcher, open, rows, bubbles,
                     notifyPendingIDs, signals, reply, late, watching, astray, again, early>>
  BY DEF Tray, coreVars, viewVars, noteVars, panelVars
<1>2. TypeOK /\ QueuesOK /\ EventOnce /\ Tracked /\ ConversationOK
  BY Parts
<1>3. /\ ui # <<>> /\ ui[1][1] \in TraySteps /\ ui' \in Seq(Triple) /\ Shape(ui')
      /\ \A ks, m : m \in Msg => (About(ui', ks, m) => About(ui, ks, m))
  BY <1>2, TrayUi
<1>4. ui' # <<>> => ui'[1][1] \in {"hide", "show", "swapFalse", "badge", "plain", "notify", "clicked"}
  <2>1. hasUnread \in BOOLEAN
    BY <1>2 DEF TypeOK
  <2> QED BY <1>2, <2>1, TrayUi DEF TraySteps
<1>5. /\ trayHidden' \in BOOLEAN /\ hasUnread' \in BOOLEAN /\ shown' \in BOOLEAN
      /\ unseen' \in BOOLEAN /\ icon' \in {"plain", "badged"}
  <2>1. Flip(ui[1][1])
    BY <1>1, <1>2, <1>3, Popped
  <2> QED BY <1>2, <1>3, <2>1, FlipTypes
<1>6. QueuesOK'
  <2>1. overlap' \in BOOLEAN
    BY <1>1
  <2> QED BY <1>1, <1>2, <1>3, <1>5, <2>1 DEF QueuesOK
<1>7. TypeOK'
  <2>1. ~At("await")
    BY <1>2, <1>3, Popped DEF TraySteps
  <2>2. reply' \in {"none", "due", "here"} /\ (reply' # "none" => At("await")')
    BY <1>1, <1>2, <2>1, SameWait
  <2> QED BY <1>1, <1>2, <1>5, <2>2 DEF TypeOK
<1>8. EventOnce'
  <2>1. \A m \in Msg : /\ About(ui', Note, m) => About(ui, Note, m)
                       /\ About(ui', {"insert"}, m) => state[m] = None
    BY <1>2, <1>3 DEF EventOnce
  <2> QED BY <1>1, <1>2, <2>1, UiOnce
<1>9. Tracked'
  BY <1>1, <1>2, <1>4, <1>6, SameTracked
<1>10. ConversationOK'
  <2>1. Unlabelled(ui) /\ Unlabelled(ui')
    BY <1>3, <1>4 DEF Unlabelled, Label, TraySteps
  <2>2. \A m \in Msg : /\ m \in notifyPendingIDs' => m \in notifyPendingIDs \/ About(ui, Note, m)
                       /\ About(ui', Note, m) => About(ui, Note, m)
    BY <1>1, <1>3
  <2> QED BY <1>1, <1>2, <1>3, <2>1, <2>2, UnlabelledStep DEF ConvVars
<1> QED BY <1>6, <1>7, <1>8, <1>9, <1>10, TrayTray, Whole

\* Minimized, RestoreIfHidden and WatcherTray leave the UI goroutine alone.
LEMMA WatchStep ==
    ASSUME DesktopInv, Minimized \/ RestoreIfHidden \/ WatcherTray
    PROVE  DesktopInv'
<1>1. /\ overlap' = (overlap \/ UIBusy)
      /\ UNCHANGED <<log, state, outbox, wire, recv, events, uiq, ui, open, rows, bubbles,
                     notifyPendingIDs, signals, reply, late, watching, astray, again, early>>
  BY DEF Minimized, RestoreIfHidden, WatcherTray, coreVars, queueVars, viewVars, noteVars, panelVars
<1>2. TypeOK /\ QueuesOK /\ EventOnce /\ Tracked /\ ConversationOK
  BY Parts
<1>3. /\ trayHidden' \in BOOLEAN /\ hasUnread' \in BOOLEAN /\ shown' \in BOOLEAN
      /\ unseen' \in BOOLEAN /\ icon' \in {"plain", "badged"}
  <2>1. /\ trayHidden \in BOOLEAN /\ hasUnread \in BOOLEAN /\ shown \in BOOLEAN
        /\ unseen \in BOOLEAN /\ icon \in {"plain", "badged"}
    BY <1>2 DEF TypeOK, QueuesOK
  <2>2. CASE Minimized \/ RestoreIfHidden
    BY <2>1, <2>2 DEF Minimized, RestoreIfHidden, trayVars
  <2>3. CASE WatcherTray
    BY <1>2, <2>3, FlipTypes DEF WatcherTray
  <2> QED BY <2>2, <2>3
<1>4. watcher' \in {<<>>, Hiding, AboutToHide, AboutToShow, Clearing, Plain}
  <2>1. CASE Minimized
    BY <2>1 DEF Minimized, Hiding
  <2>2. CASE RestoreIfHidden
    BY <2>2 DEF RestoreIfHidden, AboutToShow
  <2>3. CASE WatcherTray
    BY <1>2, <2>3, WatcherFlips
  <2> QED BY <2>1, <2>2, <2>3
<1>5. QueuesOK'
  <2>1. overlap' \in BOOLEAN
    BY <1>1
  <2> QED BY <1>1, <1>2, <1>3, <1>4, <2>1 DEF QueuesOK
<1>6. TypeOK'
  <2>1. reply' \in {"none", "due", "here"} /\ (reply' # "none" => At("await")')
    BY <1>1, <1>2, SameWait
  <2> QED BY <1>1, <1>2, <1>3, <2>1 DEF TypeOK
<1>7. EventOnce' /\ Tracked'
  BY <1>1, <1>2, <1>5, SameOnce, SameTracked
<1>8. TrayOK'
  BY <1>5, XEventTray, WatcherTrayTray
<1>9. ConversationOK'
  BY <1>1, <1>2, SameConversation DEF ConvVars
<1> QED BY <1>5, <1>6, <1>7, <1>8, <1>9, Whole

LEMMA WatcherDoStep ==
    ASSUME DesktopInv, WatcherDo
    PROVE  DesktopInv'
<1>1. UNCHANGED <<log, state, outbox, wire, recv, events, ui, open, rows, trayHidden, hasUnread,
                  shown, icon, bubbles, notifyPendingIDs, signals, reply, late, watching, astray,
                  again, overlap, unseen, early>>
  BY DEF WatcherDo, coreVars, viewVars, trayVars, noteVars, panelVars, histVars
<1>2. TypeOK /\ QueuesOK /\ EventOnce /\ Tracked /\ ConversationOK /\ uiq \in Seq(Func)
  BY Parts
<1>3. PICK k \in {"hide", "show"} : uiq' = Append(uiq, Step(k)) /\ watcher' \in {<<>>, Clearing}
  BY <1>2, WatcherQueues
<1>4. Step(k) \in Func /\ Step(k)[1] = k
  BY WindowFuncs
<1>5. QueuesOK'
  <2>1. uiq' \in Seq(Func)
    BY <1>2, <1>3, <1>4, AppendFacts
  <2> QED BY <1>1, <1>2, <1>3, <2>1 DEF QueuesOK
<1>6. TypeOK'
  <2>1. reply' \in {"none", "due", "here"} /\ (reply' # "none" => At("await")')
    BY <1>1, <1>2, SameWait
  <2> QED BY <1>1, <1>2, <2>1 DEF TypeOK
<1>7. EventOnce'
  <2>1. \A m \in Msg : /\ About(ui', Note, m) => About(ui, Note, m)
                       /\ About(ui', {"insert"}, m) => state[m] = None
    BY <1>1, <1>2 DEF EventOnce
  <2> QED BY <1>1, <1>2, <1>3, <1>4, <2>1, QueuedOnce
<1>8. Tracked'
  BY <1>1, <1>2, <1>5, SameTracked
<1>9. TrayOK'
  BY <1>5, WatcherDoTray
<1>10. ConversationOK'
  <2>1. k \notin Event
    BY DEF Event
  <2>2. \A m \in Msg : About(ui', Note, m) => About(ui, Note, m)
    BY <1>1
  <2> QED BY <1>1, <1>2, <1>3, <1>4, <2>1, <2>2, QueuedConversation DEF ConvVars
<1> QED BY <1>5, <1>6, <1>7, <1>8, <1>9, <1>10, Whole

\* The end of a notification is signalled.
LEMMA BubbleStep ==
    ASSUME DesktopInv, NEW m \in Msg, ClickBubble(m) \/ DismissBubble(m)
    PROVE  DesktopInv'
<1> DEFINE S == {"invoked", "closed"} \X In
<1>1. /\ m \in bubbles /\ bubbles' = bubbles \ {m}
      /\ early' = IF watching = "on" /\ m \in notifyPendingIDs THEN early ELSE early \union {m}
      /\ UNCHANGED <<log, state, outbox, wire, recv, events, uiq, ui, watcher, open, rows,
                     trayHidden, hasUnread, shown, icon, notifyPendingIDs, reply, late, watching,
                     astray, again, overlap, unseen>>
  BY DEF ClickBubble, DismissBubble, Signal, coreVars, queueVars, viewVars, trayVars, panelVars
<1>2. /\ TypeOK /\ QueuesOK /\ EventOnce /\ Tracked /\ TrayOK /\ ConversationOK
      /\ ui \in Seq(Triple) /\ Shape(ui)
  BY Parts
<1>3. m \in In /\ signals \in Seq(S)
  BY <1>1, <1>2 DEF TypeOK, QueuesOK
<1>4. <<"invoked", m>> \in S /\ <<"closed", m>> \in S
  BY <1>3
<1>5. /\ signals' \in Seq(S)
      /\ \A i \in 1 .. Len(signals) : i \in 1 .. Len(signals') /\ signals'[i] = signals[i]
      /\ watching = "on" => \E i \in 1 .. Len(signals') : signals'[i] = <<"closed", m>>
  <2> DEFINE c == <<"closed", m>>
             d == <<"invoked", m>>
  <2>1. CASE watching # "on"
    <3>1. signals' = signals
      BY <2>1 DEF ClickBubble, DismissBubble, Signal
    <3> QED BY <1>3, <2>1, <3>1
  <2>2. CASE watching = "on" /\ ClickBubble(m)
    <3> DEFINE n == <<"invoked", "closed">>
               a == [i \in DOMAIN n |-> <<n[i], m>>]
    <3>1. signals' = signals \o a
      BY <2>2 DEF ClickBubble, Signal
    <3>2. a = <<d, c>>
      <4>1. DOMAIN n = 1 .. 2 /\ n[1] = "invoked" /\ n[2] = "closed"
        OBVIOUS
      <4>2. DOMAIN a = 1 .. 2 /\ a[1] = d /\ a[2] = c
        BY <4>1
      <4>3. a = [i \in 1 .. 2 |-> a[i]] /\ <<d, c>> = [i \in 1 .. 2 |-> IF i = 1 THEN d ELSE c]
        BY <4>1
      <4> HIDE DEF a, c, d
      <4>4. \A i \in 1 .. 2 : a[i] = IF i = 1 THEN d ELSE c
        BY <4>2
      <4> QED BY <4>3, <4>4
    <3>3. signals' = signals \o <<d, c>>
      BY <3>1, <3>2
    <3>4. d \in S /\ c \in S
      BY <1>4
    <3> HIDE DEF S, c, d, n, a
    <3>5. signals \in Seq(S)
      BY <1>3
    <3>6. /\ signals' \in Seq(S) /\ Len(signals') = Len(signals) + 2 /\ Len(signals) \in Nat
          /\ \A i \in 1 .. Len(signals) : signals'[i] = signals[i]
          /\ signals'[Len(signals) + 2] = c
      BY <3>3, <3>4, <3>5, ConcatTwo
    <3>7. \A i \in 1 .. Len(signals) : i \in 1 .. Len(signals')
      BY <3>6
    <3>8. Len(signals) + 2 \in 1 .. Len(signals') /\ signals'[Len(signals) + 2] = c
      BY <3>6
    <3>9. \E i \in 1 .. Len(signals') : signals'[i] = c
      BY <3>8
    <3> QED BY <3>6, <3>7, <3>9 DEF c
  <2>3. CASE watching = "on" /\ DismissBubble(m)
    <3> DEFINE n == <<"closed">>
               a == [i \in DOMAIN n |-> <<n[i], m>>]
    <3>1. signals' = signals \o a
      BY <2>3 DEF DismissBubble, Signal
    <3>2. a = <<c>>
      <4>1. DOMAIN n = 1 .. 1 /\ n[1] = "closed"
        OBVIOUS
      <4>2. a[1] = c
        BY <4>1
      <4>3. a = [i \in 1 .. 1 |-> a[i]] /\ <<c>> = [i \in 1 .. 1 |-> c]
        BY <4>1
      <4> HIDE DEF a, c
      <4>4. \A i \in 1 .. 1 : a[i] = c
        BY <4>2
      <4> QED BY <4>3, <4>4
    <3>3. c \in S
      BY <1>4
    <3> HIDE DEF S, c, n, a
    <3>4. signals' = Append(signals, c)
      <4>1. signals \in Seq(S)
        BY <1>3
      <4> QED BY <3>1, <3>2, <3>3, <4>1
    <3>5. /\ signals' \in Seq(S) /\ Len(signals') = Len(signals) + 1 /\ Len(signals) \in Nat
          /\ \A i \in 1 .. Len(signals) : signals'[i] = signals[i]
          /\ signals'[Len(signals) + 1] = c
      BY <1>3, <3>3, <3>4, AppendFacts
    <3>6. /\ \A i \in 1 .. Len(signals) : i \in 1 .. Len(signals')
          /\ Len(signals) + 1 \in 1 .. Len(signals')
      BY <3>5
    <3>7. \E i \in 1 .. Len(signals') : signals'[i] = c
      BY <3>5, <3>6
    <3> QED BY <3>5, <3>6, <3>7 DEF c
  <2> QED BY <2>1, <2>2, <2>3
<1>6. QueuesOK'
  BY <1>1, <1>2, <1>5 DEF QueuesOK
<1>7. TypeOK'
  <2>1. reply' \in {"none", "due", "here"} /\ (reply' # "none" => At("await")')
    BY <1>1, <1>2, SameWait
  <2> QED BY <1>1, <1>2, <2>1 DEF TypeOK
<1>8. EventOnce' /\ TrayOK'
  BY <1>1, <1>2, <1>6, SameOnce, SameTray
<1>9. Tracked'
  <2>1. ASSUME NEW x \in notifyPendingIDs'
        PROVE  x \in bubbles' \union early' \/ \E i \in 1 .. Len(signals') : signals'[i] = <<"closed", x>>
    <3>1. \/ x \in bubbles \union early
          \/ \E i \in 1 .. Len(signals) : signals[i] = <<"closed", x>>
      BY <1>1, <1>2, <2>1 DEF Tracked
    <3>2. CASE x = m
      BY <1>1, <1>5, <3>2
    <3>3. CASE x # m /\ x \in bubbles \union early
      BY <1>1, <3>3
    <3>4. CASE \E i \in 1 .. Len(signals) : signals[i] = <<"closed", x>>
      BY <1>5, <3>4
    <3> QED BY <3>1, <3>2, <3>3, <3>4
  <2>2. ASSUME At("register")' PROVE The' \in bubbles' \union early'
    <3>1. At("register") /\ The' = The
      BY <1>1, <2>2 DEF At, The
    <3>2. The \in bubbles \union early
      BY <1>2, <3>1 DEF Tracked
    <3>3. The \notin notifyPendingIDs
      <4>1. ui # <<>>
        BY <3>1 DEF At
      <4>2. ui[1][1] = "register" /\ The = ui[1][2] /\ The \in Msg
        BY <1>2, <3>1, <4>1, Popped, StepTypes
      <4>3. 1 \in 1 .. Len(ui) /\ "register" \in Note
        BY <1>2, <4>1, EmptySeq DEF Note
      <4>4. About(ui, Note, The)
        BY <4>2, <4>3 DEF About
      <4> QED BY <1>2, <4>2, <4>4 DEF EventOnce
    <3> QED BY <1>1, <3>1, <3>2, <3>3
  <2> QED BY <2>1, <2>2 DEF Tracked
<1>10. ConversationOK'
  BY <1>1, <1>2, SameConversation DEF ConvVars
<1> QED BY <1>6, <1>7, <1>8, <1>9, <1>10, Whole

LEMMA WatchClicksStep ==
    ASSUME DesktopInv, WatchNotifyClicks
    PROVE  DesktopInv'
<1> DEFINE S == {"invoked", "closed"} \X In
           s == signals[1]
           f == <<"click", s[2], None>>
<1>1. /\ signals # <<>> /\ signals' = Tail(signals)
      /\ notifyPendingIDs' = notifyPendingIDs \ {Head(signals)[2]}
      /\ uiq' = Append(uiq, <<"click", Head(signals)[2], None>>) \/ UNCHANGED uiq
      /\ UNCHANGED <<log, state, outbox, wire, recv, events, ui, watcher, open, rows, trayHidden,
                     hasUnread, shown, icon, bubbles, reply, late, watching, astray, again,
                     overlap, unseen, early>>
  BY DEF WatchNotifyClicks, Do, coreVars, viewVars, trayVars, panelVars, histVars
<1>2. /\ TypeOK /\ QueuesOK /\ EventOnce /\ Tracked /\ TrayOK /\ ConversationOK
      /\ ui \in Seq(Triple) /\ Shape(ui) /\ uiq \in Seq(Func)
  BY Parts
<1>3. signals \in Seq(S)
  BY <1>2 DEF QueuesOK
<1>4. /\ Head(signals) = s /\ s \in S /\ signals' \in Seq(S)
      /\ Len(signals) \in Nat \ {0} /\ Len(signals') = Len(signals) - 1
      /\ \A i \in 1 .. Len(signals) :
            i = 1 \/ (i - 1 \in 1 .. (Len(signals) - 1) /\ signals'[i - 1] = signals[i])
  <2> HIDE DEF S
  <2> QED BY <1>1, <1>3, TailFacts, TailPlaces
<1>5. s[2] \in In
  BY <1>4
<1>6. f \in Func /\ f[1] = "click"
  <2>1. s[2] \in Msg
    BY <1>5 DEF Msg
  <2> HIDE DEF s
  <2> QED BY <1>5, <2>1 DEF Func, Triple, Kind
<1>7. /\ notifyPendingIDs' = notifyPendingIDs \ {s[2]}
      /\ uiq' = Append(uiq, f) \/ UNCHANGED uiq
  BY <1>1, <1>4
<1> HIDE DEF f
<1>8. QueuesOK'
  <2>1. uiq' \in Seq(Func)
    BY <1>2, <1>6, <1>7, AppendFacts
  <2> QED BY <1>1, <1>2, <1>4, <2>1 DEF QueuesOK
<1> HIDE DEF S, s
<1>9. TypeOK'
  <2>1. reply' \in {"none", "due", "here"} /\ (reply' # "none" => At("await")')
    BY <1>1, <1>2, SameWait
  <2> QED BY <1>1, <1>2, <1>7, <2>1 DEF TypeOK
<1>10. EventOnce'
  <2>1. CASE uiq' = Append(uiq, f)
    <3>1. \A m \in Msg : /\ About(ui', Note, m) => About(ui, Note, m)
                         /\ About(ui', {"insert"}, m) => state[m] = None
      BY <1>1, <1>2 DEF EventOnce
    <3>2. notifyPendingIDs' \subseteq notifyPendingIDs
      BY <1>7
    <3> QED BY <1>1, <1>2, <1>6, <2>1, <3>1, <3>2, QueuedOnce
  <2>2. CASE UNCHANGED uiq
    <3>1. \A m, ks : /\ About(events, ks, m)' <=> About(events, ks, m)
                     /\ About(uiq, ks, m)' <=> About(uiq, ks, m)
                     /\ About(ui, ks, m)' <=> About(ui, ks, m)
      BY <1>1, <2>2 DEF About
    <3>2. Once(events') /\ Once(uiq')
      BY <1>1, <1>2, <2>2 DEF EventOnce
    <3> QED BY <1>1, <1>2, <1>7, <3>1, <3>2 DEF EventOnce
  <2> QED BY <1>7, <2>1, <2>2
<1>11. Tracked'
  <2>1. ASSUME NEW x \in notifyPendingIDs'
        PROVE  x \in bubbles' \union early' \/ \E i \in 1 .. Len(signals') : signals'[i] = <<"closed", x>>
    <3>1. x \in notifyPendingIDs /\ x # s[2]
      BY <1>7, <2>1
    <3>2. CASE x \in bubbles \union early
      BY <1>1, <3>2
    <3>3. CASE \E i \in 1 .. Len(signals) : signals[i] = <<"closed", x>>
      <4>1. PICK i \in 1 .. Len(signals) : signals[i] = <<"closed", x>>
        BY <3>3
      <4>2. i # 1
        BY <3>1, <4>1 DEF s
      <4>3. i - 1 \in 1 .. Len(signals') /\ signals'[i - 1] = <<"closed", x>>
        BY <1>4, <4>1, <4>2
      <4> QED BY <4>3
    <3> QED BY <1>2, <3>1, <3>2, <3>3 DEF Tracked
  <2>2. At("register")' => The' \in bubbles' \union early'
    BY <1>1, <1>2 DEF Tracked, At, The
  <2> QED BY <2>1, <2>2 DEF Tracked
<1>12. TrayOK'
  <2>1. SameWindows(uiq, uiq')
    <3>1. CASE uiq' = Append(uiq, f)
      BY <1>2, <1>6, <3>1, WindowsAppend DEF Window
    <3>2. CASE UNCHANGED uiq
      BY <3>2 DEF SameWindows
    <3> QED BY <1>7, <3>1, <3>2
  <2> QED BY <1>1, <1>2, <1>8, <2>1, TrayFrame
<1>13. ConversationOK'
  <2>1. CASE uiq' = Append(uiq, f)
    <3>1. f[1] \notin Event
      BY <1>6 DEF Event
    <3>2. notifyPendingIDs' \subseteq notifyPendingIDs
      BY <1>7
    <3>3. \A m \in Msg : About(ui', Note, m) => About(ui, Note, m)
      BY <1>1
    <3> QED BY <1>1, <1>2, <1>6, <2>1, <3>1, <3>2, <3>3, QueuedConversation DEF ConvVars
  <2>2. CASE UNCHANGED uiq
    BY <1>1, <1>2, <1>7, <2>2, SameConversation DEF ConvVars
  <2> QED BY <1>7, <2>1, <2>2
<1> QED BY <1>8, <1>9, <1>10, <1>11, <1>12, <1>13, Whole

-----------------------------------------------------------------------------
(* The theorems.                                                           *)

LEMMA DesktopStart ==
    ASSUME Init
    PROVE  DesktopInv
<1>1. ui = <<>> /\ recv = <<>> /\ uiq = <<>> /\ events = <<>> /\ watcher = <<>> /\ signals = <<>>
  BY DEF Init
<1>2. /\ \A m, ks : ~About(ui, ks, m) /\ ~About(uiq, ks, m) /\ ~About(events, ks, m)
      /\ \A ks : ~Of(uiq, ks)
      /\ Once(events) /\ Once(uiq) /\ ~TwoWindows(uiq) /\ Len(events) = 0 /\ Len(ui) = 0
  BY <1>1, EmptyFacts
<1>3. \A k : ~At(k)
  BY <1>1 DEF At
<1>4. TypeOK
  <2>1. state \in [Msg -> Mark \union {None}]
    BY DEF Init
  <2>2. Len(events) <= Cap
    BY <1>2, DesktopAssumption
  <2>3. trayHidden \in BOOLEAN /\ hasUnread \in BOOLEAN /\ shown \in BOOLEAN
    BY DEF Init
  <2>4. /\ wire \subseteq Out /\ icon \in {"plain", "badged"} /\ bubbles \subseteq In
        /\ notifyPendingIDs \subseteq In /\ reply = "none"
        /\ outbox \subseteq Out /\ watching \in {"no", "starting", "on"} /\ late \in Nat
    BY DEF Init
  <2> QED BY <2>1, <2>2, <2>3, <2>4 DEF TypeOK
<1>5. QueuesOK
  <2>1. events \in Seq(Func) /\ uiq \in Seq(Func) /\ ui \in Seq(Triple)
        /\ signals \in Seq({"invoked", "closed"} \X In)
    BY <1>1
  <2>2. Shape(ui)
    BY <1>1 DEF Shape
  <2>3. overlap \in BOOLEAN /\ unseen \in BOOLEAN
    BY DEF Init
  <2>4. recv \in Seq(Func) /\ Len(recv) = 0
    BY <1>1
  <2> QED BY <1>1, <1>2, <2>1, <2>2, <2>3, <2>4 DEF QueuesOK
<1>6. EventOnce
  BY <1>2 DEF Init, EventOnce
<1>7. Tracked
  BY <1>3 DEF Init, Tracked
<1>8. TrayOK
  <2>1. HiddenOK /\ IconOK /\ UnseenOK /\ WatcherOK
    BY <1>1, <1>2, <1>3, <1>5, AloneOK DEF Init
  <2> QED BY <2>1 DEF TrayOK
<1>9. ConversationOK
  <2>1. log = <<>> /\ rows = <<>> /\ open = FALSE /\ \A m \in Msg : state[m] = None
    BY DEF Init
  <2>2. LogOK
    BY <2>1 DEF LogOK
  <2>3. \A m : ~HasLabel(m)
    BY <2>1 DEF HasLabel
  <2>4. RowsOK
    <3>1. rows \in Seq(Msg \X Mark)
      BY <2>1
    <3>2. open \in BOOLEAN
      BY DEF Init
    <3> QED BY <2>1, <2>3, <3>1, <3>2 DEF RowsOK
  <2>5. MarksOK
    BY <2>1 DEF MarksOK
  <2>6. NoDoubleRow
    BY <2>1 DEF NoDoubleRow
  <2>7. UnsentOK
    BY <1>1 DEF UnsentOK, Unsent, Sending, Coming
  <2> QED BY <2>2, <2>4, <2>5, <2>6, <2>7 DEF ConversationOK
<1> QED BY <1>4, <1>5, <1>6, <1>7, <1>8, <1>9 DEF DesktopInv, TrayInv, Base

LEMMA DesktopStutter ==
    ASSUME DesktopInv, UNCHANGED vars
    PROVE  DesktopInv'
<1>1. UNCHANGED <<log, state, outbox, wire, recv, events, uiq, ui, watcher, open, rows,
                  trayHidden, hasUnread, shown, icon, bubbles, notifyPendingIDs, signals, reply,
                  late, watching, astray, again, overlap, unseen, early>>
  BY DEF vars, coreVars, queueVars, viewVars, trayVars, noteVars, panelVars, histVars
<1>2. TypeOK /\ QueuesOK /\ EventOnce /\ Tracked /\ TrayOK /\ ConversationOK
  BY Parts
<1>3. QueuesOK'
  BY <1>1, <1>2 DEF QueuesOK
<1>4. TypeOK'
  BY <1>1, <1>2 DEF TypeOK, At
<1>5. EventOnce' /\ Tracked' /\ TrayOK'
  BY <1>1, <1>2, <1>3, SameOnce, SameTracked, SameTray
<1>6. ConversationOK'
  BY <1>1, <1>2, SameConversation DEF ConvVars
<1> QED BY <1>3, <1>4, <1>5, <1>6, Whole

LEMMA DesktopStep ==
    ASSUME DesktopInv, [Next]_vars
    PROVE  DesktopInv'
<1>1. CASE Core
  BY <1>1, PendingStep, IncomingStep, MarkStep DEF Core
<1>2. CASE User
  <2>1. CASE CloseWindow \/ ClickTray \/ ShowAdminPanel
    BY <2>1, ClickStep
  <2>2. CASE SelectPeer
    BY <2>2, SelectStep
  <2>3. CASE CloseAdminPanel
    BY <2>3, AsideStep
  <2>4. CASE \E m \in Msg : Send(m) \/ ClickBubble(m) \/ DismissBubble(m)
    BY <2>4, SendStep, BubbleStep
  <2> QED BY <1>2, <2>1, <2>2, <2>3, <2>4 DEF User
<1>3. CASE EmitReceived
  BY <1>3, EmitReceivedStep
<1>4. CASE UI
  <2>1. CASE Take
    BY <2>1, TakeStep
  <2>2. CASE Insert \/ EmitSent
    BY <2>2, InsertStep, EmitSentStep
  <2>3. CASE AppendMessage \/ MarkState
    BY <2>3, LabelStep
  <2>4. CASE CheckHidden
    BY <2>4, CheckHiddenStep
  <2>5. CASE Tray
    BY <2>5, TrayStep
  <2>6. CASE Notify \/ Register
    BY <2>6, NotifyStep, RegisterStep
  <2>7. CASE Clicked \/ AwaitPending
    BY <2>7, AwaitStep
  <2>8. CASE AskPending
    BY <2>8, AskStep
  <2>9. CASE AdminReload
    BY <2>9, AdminReloadStep
  <2> QED BY <1>4, <2>1, <2>2, <2>3, <2>4, <2>5, <2>6, <2>7, <2>8, <2>9 DEF UI
<1>5. CASE PumpEvents
  BY <1>5, PumpStep
<1>6. CASE Watch \/ XEvent
  BY <1>6, WatchStep, WatcherDoStep DEF Watch, XEvent
<1>7. CASE Subscribe \/ WatchNotifyClicks
  BY <1>7, AsideStep, WatchClicksStep
<1>8. CASE UNCHANGED vars
  BY <1>8, DesktopStutter
<1> QED BY <1>1, <1>2, <1>3, <1>4, <1>5, <1>6, <1>7, <1>8 DEF Next

\* At rest nothing is to come, and the invariant says what is.
LEMMA AtRest ==
    ASSUME DesktopInv, Quiet
    PROVE  /\ \A k : ~At(k)
           /\ \A m, ks : ~About(ui, ks, m) /\ ~About(uiq, ks, m) /\ ~About(events, ks, m)
           /\ \A m : ~Unsent(m) /\ ~Unsettled(m)
           /\ ~overlap => HiddenOK /\ IconOK /\ UnseenOK
<1>1. ui = <<>> /\ uiq = <<>> /\ events = <<>> /\ watcher = <<>>
  BY DEF Quiet
<1>2. /\ \A m, ks : ~About(ui, ks, m) /\ ~About(uiq, ks, m) /\ ~About(events, ks, m)
      /\ (\A ks : ~Of(uiq, ks)) /\ ~TwoWindows(uiq) /\ Len(ui) = 0
  BY <1>1, EmptyFacts
<1>3. \A k : ~At(k)
  BY <1>1 DEF At
<1>4. ~overlap => ~Doomed
  BY <1>2 DEF Doomed, TwoPending, UIBusy
<1>5. \A m : ~Unsent(m) /\ ~Unsettled(m)
  BY <1>1 DEF Quiet, Unsent, Unsettled, Sending, Coming
<1> QED BY <1>2, <1>3, <1>4, <1>5, Parts DEF TrayOK

LEMMA DesktopInvTray ==
    ASSUME DesktopInv
    PROVE  TrayIsRight
<1>1. TypeOK /\ QueuesOK /\ Tracked
  BY Parts
<1>2. ASSUME Quiet, ~overlap
      PROVE  (trayHidden <=> ~shown) /\ (unseen <=> hasUnread) /\ (hasUnread <=> icon = "badged")
  <2>1. watcher = <<>> /\ ~Of(uiq, {"hide"}) /\ ~Of(uiq, {"show"})
    BY <1>2, EmptyFacts DEF Quiet
  <2>2. HiddenOK /\ IconOK /\ UnseenOK /\ \A k : ~At(k)
    BY <1>2, AtRest
  <2> QED BY <1>1, <2>1, <2>2, AloneOK
<1>3. TrackedIsShown
  <2>1. signals = <<>> => Len(signals) = 0
    OBVIOUS
  <2> QED BY <1>1, <2>1 DEF TrackedIsShown, Tracked, Quiet
<1> QED BY <1>1, <1>2, <1>3 DEF TrayIsRight, HiddenAgrees, BadgeAgrees

LEMMA DesktopInvConversation ==
    ASSUME DesktopInv
    PROVE  ConversationIsRight
<1>1. MarksOK /\ NoDoubleRow
  BY Parts DEF ConversationOK
<1>2. ASSUME Quiet, open, NEW m \in Msg \ astray, state[m] # None
      PROVE  Labelled(m, state[m])
  <2>1. ~About(events, Event, m) /\ ~About(uiq, Event, m) /\ ~About(ui, Label, m)
    BY <1>2, AtRest
  <2>2. ~Unsettled(m)
    BY <1>2, AtRest
  <2>3. MarkRight(m)
    BY <1>1, <1>2, <2>2 DEF MarksOK
  <2> QED BY <1>2, <2>1, <2>3 DEF MarkRight
<1>3. ConversationIsCurrent
  BY <1>2 DEF ConversationIsCurrent, Labelled
<1> QED BY <1>1, <1>3 DEF ConversationIsRight

\* At rest, and unless the two goroutines have worked on the tray at once, the
\* flag trayHidden says whether the window is hidden and the tray has its badge
\* exactly while a message is unseen; a tracked notification can still be clicked,
\* unless it was gone before its id was recorded or while the watcher of clicks
\* was not subscribed; the event buffer keeps to its size.
THEOREM TrayRight == Spec => []TrayIsRight
<1>1. Init => DesktopInv
  BY DesktopStart
<1>2. DesktopInv /\ [Next]_vars => DesktopInv'
  BY DesktopStep
<1>3. DesktopInv => TrayIsRight
  BY DesktopInvTray
<1> QED BY <1>1, <1>2, <1>3, PTL DEF Spec

\* At rest the open conversation has every message of the store with its mark,
\* unless since it was opened an event of the message was dropped, or SendText and
\* the receive goroutine emitted two in another order than they wrote the store; a
\* message is there twice only when the history was read while the event of it was
\* under way or yet to be emitted.
THEOREM ConversationRight == Spec => []ConversationIsRight
<1>1. Init => DesktopInv
  BY DesktopStart
<1>2. DesktopInv /\ [Next]_vars => DesktopInv'
  BY DesktopStep
<1>3. DesktopInv => ConversationIsRight
  BY DesktopInvConversation
<1> QED BY <1>1, <1>2, <1>3, PTL DEF Spec
=============================================================================
