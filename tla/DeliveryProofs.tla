--------------------------- MODULE DeliveryProofs ---------------------------
(***************************************************************************)
(* For any devices, messages and number of faults: what a sender's history *)
(* shows is true and stays so, and a message is lost only to the network,  *)
(* a kill, the cap of the queue or a refusal of the relay.                 *)
(***************************************************************************)
EXTENDS Delivery, SequenceTheorems, TLAPS

\* The outbox and the rows of a flush are of messages composed here.
OwnRows ==
    \A d \in Device : \A m \in Range(outbox[d]) \cup Range(todo[d]) : From[m] = d

\* SendText's row is still to come, and a row that waits for a flush, or that
\* a flush has in hand, is not of a message shown as delivered.
NotYetDelivered ==
    \A m \in Msg :
      /\ app[m] # "done" => out[m] = "none"
      /\ m \in Range(outbox[From[m]]) \cup Range(todo[From[m]]) => out[m] # "delivered"

\* Nothing is in flight to a device that has no connection, or one that the
\* relay does not know yet.
IdleIsEmpty ==
    \A d \in Device :
      /\ cli[d] = "off" => link[d] = "down" /\ down[d] = <<>>
      /\ link[d] = "dialed" => down[d] = <<>>

\* The message is in hands other than its sender's.
Beyond(m) ==
    \/ m \in history \/ m \in dropped \/ m \in lost
    \/ m \in MsgsIn(up[From[m]])
    \/ m \in stray \/ \E d \in Device : hold[d] = m
    \/ m \in Range(queue[To[m]])
    \/ m \in MsgsIn(down[To[m]])

\* A row is deleted by the flush only after it was handed on.
DeletedIsBeyond == \A d \in Device : cli[d] = "delete" => Beyond(Head(todo[d]))

\* A composed message is with its sender or beyond it.
Accounted ==
    \A m \in Msg : app[m] \in {"new", "unsent"} \/ m \in Range(outbox[From[m]]) \/ Beyond(m)

DeliveryInv ==
    /\ TypeOK /\ AcksAreEarned /\ DeliveredIsTrue
    /\ OwnRows /\ NotYetDelivered /\ IdleIsEmpty /\ DeletedIsBeyond /\ Accounted

-----------------------------------------------------------------------------
(* Rows of a table: sequences of messages, none twice.                     *)

LEMMA RowsOfTable ==
    ASSUME NEW S, NEW s \in Seq(S)
    PROVE  /\ Range(s) \subseteq S
           /\ \A i \in 1 .. Len(s) : s[i] \in Range(s)
           /\ \A x \in Range(s) : \E i \in 1 .. Len(s) : s[i] = x
<1>1. DOMAIN s = 1 .. Len(s)
    BY LenProperties
<1>2. \A i \in 1 .. Len(s) : s[i] \in S
    BY ElementOfSeq
<1> QED
    BY <1>1, <1>2 DEF Range

\* A row is added at the end of the table,
LEMMA AppendRow ==
    ASSUME NEW S, NEW s \in Seq(S), NEW x \in S
    PROVE  /\ Append(s, x) \in Seq(S)
           /\ Range(Append(s, x)) = Range(s) \cup {x}
           /\ IsInjective(s) /\ x \notin Range(s) => IsInjective(Append(s, x))
<1> DEFINE t == Append(s, x)
<1>1. /\ t \in Seq(S) /\ Len(t) = Len(s) + 1 /\ Len(s) \in Nat
      /\ t[Len(s) + 1] = x /\ \A i \in 1 .. Len(s) : t[i] = s[i]
    BY AppendProperties, LenProperties
<1>2. DOMAIN t = 1 .. Len(t) /\ DOMAIN s = 1 .. Len(s)
    BY <1>1, LenProperties
<1> HIDE DEF t
<1>3. \A i \in 1 .. Len(t) : i \in 1 .. Len(s) \/ i = Len(s) + 1
    BY <1>1
<1>4. \A y : y \in Range(t) <=> y \in Range(s) \/ y = x
  <2>1. ASSUME NEW y, y \in Range(t) PROVE y \in Range(s) \/ y = x
      BY <2>1, <1>1, <1>3, RowsOfTable
  <2>2. ASSUME NEW y, y \in Range(s) PROVE y \in Range(t)
    <3>1. PICK i \in 1 .. Len(s) : s[i] = y
        BY <2>2, RowsOfTable
    <3>2. i \in 1 .. Len(t) /\ t[i] = y
        BY <3>1, <1>1
    <3> QED
        BY <3>2, <1>1, RowsOfTable
  <2>3. x \in Range(t)
    <3>1. Len(s) + 1 \in 1 .. Len(t)
        BY <1>1
    <3> QED
        BY <3>1, <1>1, RowsOfTable
  <2> QED
      BY <2>1, <2>2, <2>3
<1>5. ASSUME IsInjective(s), x \notin Range(s) PROVE IsInjective(t)
  <2>1. \A i \in 1 .. Len(s) : s[i] # x
      BY <1>5, RowsOfTable
  <2>2. \A i, j \in 1 .. Len(s) : s[i] = s[j] => i = j
      BY <1>5, <1>2 DEF IsInjective
  <2>3. \A i, j \in 1 .. Len(t) : t[i] = t[j] => i = j
      BY <2>1, <2>2, <1>1, <1>3
  <2> QED
      BY <2>3, <1>2 DEF IsInjective
<1> QED
    BY <1>1, <1>4, <1>5 DEF t

\* a part of a table is a table,
LEMMA SubTable ==
    ASSUME NEW S, NEW s \in Seq(S), NEW a \in 1 .. (Len(s) + 1), NEW b \in 0 .. Len(s)
    PROVE  /\ SubSeq(s, a, b) \in Seq(S)
           /\ Range(SubSeq(s, a, b)) \subseteq Range(s)
           /\ IsInjective(s) => IsInjective(SubSeq(s, a, b))
<1> DEFINE t == SubSeq(s, a, b)
<1>0. Len(s) \in Nat /\ a \in Int /\ b \in Int
    BY LenProperties
<1>1. \A i \in a .. b : i \in 1 .. Len(s) /\ s[i] \in S
    BY <1>0, LenProperties
<1>2. /\ t \in Seq(S) /\ Len(t) = IF a <= b THEN b - a + 1 ELSE 0
      /\ \A i \in 1 .. b - a + 1 : t[i] = s[a + i - 1]
    BY <1>0, <1>1, SubSeqProperties
<1>3. DOMAIN t = 1 .. Len(t) /\ DOMAIN s = 1 .. Len(s)
    BY <1>2, LenProperties
<1> HIDE DEF t
<1>4. \A i \in 1 .. Len(t) : a + i - 1 \in 1 .. Len(s) /\ t[i] = s[a + i - 1]
    BY <1>0, <1>2
<1>5. ASSUME NEW y \in Range(t) PROVE y \in Range(s)
  <2>1. PICK i \in 1 .. Len(t) : t[i] = y
      BY <1>2, RowsOfTable
  <2> QED
      BY <2>1, <1>4, RowsOfTable
<1>6. ASSUME IsInjective(s) PROVE IsInjective(t)
  <2>1. ASSUME NEW i \in 1 .. Len(t), NEW j \in 1 .. Len(t), t[i] = t[j] PROVE i = j
    <3>1. a + i - 1 = a + j - 1
        BY <2>1, <1>3, <1>4, <1>6 DEF IsInjective
    <3> QED
        BY <3>1, <1>0
  <2> QED
      BY <2>1, <1>3 DEF IsInjective
<1> QED
    BY <1>2, <1>5, <1>6 DEF t

\* and so is the table without the row of a message.
LEMMA DeleteRowProperties ==
    ASSUME NEW S, NEW s \in Seq(S), IsInjective(s), NEW x
    PROVE  /\ DeleteRow(s, x) \in Seq(S)
           /\ Range(DeleteRow(s, x)) = Range(s) \ {x}
           /\ IsInjective(DeleteRow(s, x))
<1>1. CASE x \notin Range(s)
    BY <1>1 DEF DeleteRow
<1>2. CASE x \in Range(s)
  <2> DEFINE k == CHOOSE i \in DOMAIN s : s[i] = x
             t == RemoveAt(s, k)
             n == Len(s)
             p == SubSeq(s, 1, k - 1)
             q == SubSeq(s, k + 1, n)
  <2>0. n \in Nat /\ DOMAIN s = 1 .. n
      BY LenProperties
  <2>1. k \in 1 .. n /\ s[k] = x
    <3>1. \E i \in 1 .. n : s[i] = x
        BY <1>2, RowsOfTable
    <3> QED
        BY <3>1, <2>0
  <2> HIDE DEF k, n
  <2>2. p \in Seq(S) /\ Len(p) = k - 1 /\ \A i \in 1 .. k - 1 : p[i] = s[i]
    <3>1. 1 \in Int /\ k - 1 \in Int /\ \A i \in 1 .. k - 1 : i \in 1 .. n /\ s[i] \in S
        BY <2>0, <2>1, ElementOfSeq DEF n
    <3>2. /\ p \in Seq(S) /\ Len(p) = IF 1 <= k - 1 THEN (k - 1) - 1 + 1 ELSE 0
          /\ \A i \in 1 .. (k - 1) - 1 + 1 : p[i] = s[1 + i - 1]
        BY <3>1, SubSeqProperties
    <3> HIDE DEF p
    <3> QED
        BY <3>2, <2>1, <2>0
  <2>3. q \in Seq(S) /\ Len(q) = n - k /\ \A i \in 1 .. n - k : q[i] = s[k + i]
    <3>1. k + 1 \in Int /\ n \in Int /\ \A i \in k + 1 .. n : i \in 1 .. n /\ s[i] \in S
        BY <2>0, <2>1, ElementOfSeq DEF n
    <3>2. /\ q \in Seq(S) /\ Len(q) = IF k + 1 <= n THEN n - (k + 1) + 1 ELSE 0
          /\ \A i \in 1 .. n - (k + 1) + 1 : q[i] = s[k + 1 + i - 1]
        BY <3>1, SubSeqProperties
    <3> HIDE DEF q
    <3>3. Len(q) = n - k
        BY <3>2, <2>1, <2>0
    <3>4. ASSUME NEW i \in 1 .. n - k PROVE q[i] = s[k + i]
      <4>1. i \in 1 .. n - (k + 1) + 1 /\ k + 1 + i - 1 = k + i
          BY <2>1, <2>0
      <4> QED
          BY <4>1, <3>2
    <3> QED
        BY <3>2, <3>3, <3>4
  <2>4. t = p \o q /\ DeleteRow(s, x) = t
      BY <1>2 DEF RemoveAt, DeleteRow, n, k
  <2> HIDE DEF p, q, t
  <2>5. /\ t \in Seq(S) /\ Len(t) = n - 1
        /\ \A i \in 1 .. n - 1 : t[i] = IF i < k THEN s[i] ELSE s[i + 1]
    <3>1. /\ t \in Seq(S) /\ Len(t) = (k - 1) + (n - k)
          /\ \A i \in 1 .. (k - 1) + (n - k) : t[i] = IF i <= k - 1 THEN p[i] ELSE q[i - (k - 1)]
        BY <2>2, <2>3, <2>4, ConcatProperties
    <3>2. (k - 1) + (n - k) = n - 1
        BY <2>0, <2>1
    <3>3. ASSUME NEW i \in 1 .. n - 1 PROVE t[i] = IF i < k THEN s[i] ELSE s[i + 1]
      <4>1. CASE i < k
        <5>1. i \in 1 .. k - 1 /\ i <= k - 1
            BY <4>1, <2>0, <2>1
        <5> QED
            BY <4>1, <5>1, <3>1, <3>2, <2>2
      <4>2. CASE ~ (i < k)
        <5>1. i - (k - 1) \in 1 .. n - k /\ ~ (i <= k - 1) /\ k + (i - (k - 1)) = i + 1
            BY <4>2, <2>0, <2>1
        <5>2. t[i] = q[i - (k - 1)] /\ q[i - (k - 1)] = s[k + (i - (k - 1))]
            BY <5>1, <3>1, <3>2, <2>3
        <5> QED
            BY <4>2, <5>1, <5>2
      <4> QED
          BY <4>1, <4>2
    <3> QED
        BY <3>1, <3>2, <3>3
  <2>6. \A i, j \in 1 .. n : s[i] = s[j] => i = j
      BY <2>0 DEF IsInjective
  <2>7. \A y : y \in Range(t) <=> y \in Range(s) /\ y # x
    <3>1. ASSUME NEW y, y \in Range(t) PROVE y \in Range(s) /\ y # x
      <4>1. PICK i \in 1 .. n - 1 : t[i] = y
          BY <3>1, <2>5, RowsOfTable
      <4>2. PICK j \in 1 .. n : s[j] = y /\ j # k
        <5>1. CASE i < k
            BY <5>1, <4>1, <2>5, <2>0, <2>1
        <5>2. CASE ~ (i < k)
          <6>1. i + 1 \in 1 .. n /\ i + 1 # k
              BY <5>2, <2>0, <2>1
          <6> QED
              BY <6>1, <5>2, <4>1, <2>5
        <5> QED
            BY <5>1, <5>2
      <4> QED
          BY <4>2, <2>1, <2>6, RowsOfTable DEF n
    <3>2. ASSUME NEW y, y \in Range(s), y # x PROVE y \in Range(t)
      <4>1. PICK j \in 1 .. n : s[j] = y
          BY <3>2, RowsOfTable DEF n
      <4>2. j # k
          BY <4>1, <3>2, <2>1
      <4>3. CASE j < k
        <5>1. j \in 1 .. n - 1
            BY <4>3, <2>0, <2>1
        <5>2. t[j] = y /\ j \in 1 .. Len(t)
            BY <5>1, <4>1, <4>3, <2>5
        <5> QED
            BY <5>2, <2>5, RowsOfTable
      <4>4. CASE j > k
        <5>1. j - 1 \in 1 .. n - 1 /\ ~ (j - 1 < k) /\ (j - 1) + 1 = j
            BY <4>4, <2>0, <2>1
        <5>2. t[j - 1] = s[(j - 1) + 1] /\ j - 1 \in 1 .. Len(t)
            BY <5>1, <2>5
        <5>3. t[j - 1] = y
            BY <5>1, <5>2, <4>1
        <5> QED
            BY <5>2, <5>3, <2>5, RowsOfTable
      <4> QED
          BY <4>2, <4>3, <4>4, <2>0, <2>1
    <3> QED
        BY <3>1, <3>2
  <2>8. IsInjective(t)
    <3>1. DOMAIN t = 1 .. n - 1
        BY <2>5, LenProperties
    <3>2. ASSUME NEW i \in 1 .. n - 1, NEW j \in 1 .. n - 1, t[i] = t[j] PROVE i = j
      <4> DEFINE a(l) == IF l < k THEN l ELSE l + 1
      <4>1. a(i) \in 1 .. n /\ a(j) \in 1 .. n
          BY <2>0, <2>1
      <4>2. t[i] = s[a(i)] /\ t[j] = s[a(j)]
          BY <2>5
      <4>3. a(i) = a(j)
          BY <4>1, <4>2, <3>2, <2>6
      <4> QED
          BY <4>3, <2>0, <2>1
    <3> QED
        BY <3>1, <3>2 DEF IsInjective
  <2> QED
      BY <2>4, <2>5, <2>7, <2>8
<1> QED
    BY <1>1, <1>2

-----------------------------------------------------------------------------
(* Frames on a connection: what is in flight, as sets of messages and acks. *)

LEMMA FrameFacts ==
    ASSUME NEW m \in Msg
    PROVE  /\ MsgFrame(m) \in Frame /\ AckFrame(m) \in Frame
           /\ \A k \in Msg : MsgFrame(m) = MsgFrame(k) => m = k
           /\ \A k \in Msg : AckFrame(m) = AckFrame(k) => m = k
           /\ \A k \in Msg : MsgFrame(m) # AckFrame(k)
           /\ MsgFrame(m) # ReadyFrame /\ MsgFrame(m) # SnapFrame
           /\ AckFrame(m) # ReadyFrame /\ AckFrame(m) # SnapFrame
           /\ ReadyFrame \in Frame /\ SnapFrame \in Frame
BY DEF MsgFrame, AckFrame, ReadyFrame, SnapFrame, Frame

LEMMA GreetingFrames == ReadyFrame \in Frame /\ SnapFrame \in Frame
BY DEF Frame

LEMMA InFlight ==
    ASSUME NEW s \in Seq(Frame), NEW m \in Msg
    PROVE  /\ m \in MsgsIn(s) <=> \E i \in 1 .. Len(s) : s[i] = MsgFrame(m)
           /\ m \in AcksIn(s) <=> \E i \in 1 .. Len(s) : s[i] = AckFrame(m)
<1>1. DOMAIN s = 1 .. Len(s)
    BY LenProperties
<1> QED
    BY <1>1 DEF MsgsIn, AcksIn

LEMMA NothingInFlight == MsgsIn(<<>>) = {} /\ AcksIn(<<>>) = {}
BY DEF MsgsIn, AcksIn

LEMMA AppendFrame ==
    ASSUME NEW s \in Seq(Frame), NEW f \in Frame, NEW m \in Msg
    PROVE  /\ Append(s, f) \in Seq(Frame)
           /\ m \in MsgsIn(Append(s, f)) <=> m \in MsgsIn(s) \/ f = MsgFrame(m)
           /\ m \in AcksIn(Append(s, f)) <=> m \in AcksIn(s) \/ f = AckFrame(m)
<1> DEFINE t == Append(s, f)
<1>1. /\ t \in Seq(Frame) /\ Len(t) = Len(s) + 1 /\ Len(s) \in Nat
      /\ t[Len(s) + 1] = f /\ \A i \in 1 .. Len(s) : t[i] = s[i]
    BY AppendProperties, LenProperties
<1> HIDE DEF t
<1>2. /\ 1 .. Len(t) = 1 .. Len(s) \cup {Len(s) + 1}
    BY <1>1
<1>3. ASSUME NEW g
      PROVE  (\E i \in 1 .. Len(t) : t[i] = g) <=> (\E i \in 1 .. Len(s) : s[i] = g) \/ f = g
    BY <1>1, <1>2
<1>4. m \in MsgsIn(t) <=> m \in MsgsIn(s) \/ f = MsgFrame(m)
    BY <1>1, <1>3, InFlight
<1>5. m \in AcksIn(t) <=> m \in AcksIn(s) \/ f = AckFrame(m)
    BY <1>1, <1>3, InFlight
<1> QED
    BY <1>1, <1>4, <1>5 DEF t

LEMMA TailFrames ==
    ASSUME NEW s \in Seq(Frame), s # <<>>, NEW m \in Msg
    PROVE  /\ Head(s) \in Frame /\ Tail(s) \in Seq(Frame)
           /\ m \in MsgsIn(s) <=> m \in MsgsIn(Tail(s)) \/ Head(s) = MsgFrame(m)
           /\ m \in AcksIn(s) <=> m \in AcksIn(Tail(s)) \/ Head(s) = AckFrame(m)
<1> DEFINE t == Tail(s)
<1>1. /\ Head(s) \in Frame /\ t \in Seq(Frame) /\ Len(t) = Len(s) - 1
      /\ \A i \in 1 .. Len(t) : t[i] = s[i + 1]
    BY HeadTailProperties
<1>2. Len(s) \in Nat \ {0} /\ Head(s) = s[1]
    BY EmptySeq
<1> HIDE DEF t
<1>3. ASSUME NEW g
      PROVE  (\E i \in 1 .. Len(s) : s[i] = g) <=> (\E i \in 1 .. Len(t) : t[i] = g) \/ s[1] = g
  <2>1. ASSUME NEW i \in 1 .. Len(s), s[i] = g, s[1] # g PROVE \E j \in 1 .. Len(t) : t[j] = g
    <3>1. i - 1 \in 1 .. Len(t) /\ (i - 1) + 1 = i
        BY <2>1, <1>1, <1>2
    <3>2. t[i - 1] = s[(i - 1) + 1]
        BY <3>1, <1>1
    <3> QED
        BY <3>1, <3>2, <2>1
  <2>2. ASSUME NEW i \in 1 .. Len(t), t[i] = g PROVE \E j \in 1 .. Len(s) : s[j] = g
    <3>1. i + 1 \in 1 .. Len(s) /\ s[i + 1] = g
        BY <2>2, <1>1, <1>2
    <3> QED
        BY <3>1
  <2>3. 1 \in 1 .. Len(s)
      BY <1>2
  <2> QED
      BY <2>1, <2>2, <2>3
<1>4. m \in MsgsIn(s) <=> m \in MsgsIn(t) \/ Head(s) = MsgFrame(m)
    BY <1>1, <1>2, <1>3, InFlight
<1>5. m \in AcksIn(s) <=> m \in AcksIn(t) \/ Head(s) = AckFrame(m)
    BY <1>1, <1>2, <1>3, InFlight
<1> QED
    BY <1>1, <1>4, <1>5 DEF t

\* What a cut leaves of a connection.
LEMMA PrefixFrames ==
    ASSUME NEW s \in Seq(Frame), NEW u \in Prefixes(s)
    PROVE  u \in Seq(Frame) /\ AcksIn(u) \subseteq AcksIn(s) /\ (s = <<>> => u = <<>>)
<1>1. PICK l \in 0 .. Len(s) : u = SubSeq(s, 1, l)
    BY DEF Prefixes
<1>2. Len(s) \in Nat
    BY LenProperties
<1>3. \A i \in 1 .. l : i \in 1 .. Len(s) /\ s[i] \in Frame
    BY <1>2, ElementOfSeq
<1>4. u \in Seq(Frame) /\ Len(u) = l /\ \A i \in 1 .. l : u[i] = s[i]
  <2>1. /\ u \in Seq(Frame) /\ Len(u) = IF 1 <= l THEN l - 1 + 1 ELSE 0
        /\ \A i \in 1 .. l - 1 + 1 : u[i] = s[1 + i - 1]
      BY <1>1, <1>2, <1>3, SubSeqProperties
  <2> QED
      BY <2>1, <1>1, <1>2
<1>5. AcksIn(u) \subseteq AcksIn(s)
  <2>1. ASSUME NEW m \in AcksIn(u) PROVE m \in AcksIn(s)
    <3>1. m \in Msg
        BY DEF AcksIn
    <3>2. PICK i \in 1 .. l : u[i] = AckFrame(m)
        BY <3>1, <1>4, InFlight
    <3> QED
        BY <3>1, <3>2, <1>3, <1>4, InFlight
  <2> QED
      BY <2>1
<1>6. ASSUME s = <<>> PROVE u = <<>>
  <2>1. Len(u) = 0
      BY <1>6, <1>1, <1>4, EmptySeq
  <2> QED
      BY <2>1, <1>4, EmptySeq
<1> QED
    BY <1>4, <1>5, <1>6

\* Frames of messages put on a connection at once.
LEMMA ConcatFrames ==
    ASSUME NEW s \in Seq(Frame), NEW q \in Seq(Msg), NEW m \in Msg
    PROVE  LET t == s \o [i \in DOMAIN q |-> MsgFrame(q[i])] IN
           /\ t \in Seq(Frame)
           /\ m \in MsgsIn(s) => m \in MsgsIn(t)
           /\ m \in AcksIn(t) => m \in AcksIn(s)
<1> DEFINE r == [i \in DOMAIN q |-> MsgFrame(q[i])]
           t == s \o r
<1>1. Len(q) \in Nat /\ DOMAIN q = 1 .. Len(q) /\ Len(s) \in Nat /\ \A i \in 1 .. Len(q) : q[i] \in Msg
    BY LenProperties
<1>2. r \in Seq(Frame) /\ Len(r) = Len(q) /\ \A i \in 1 .. Len(q) : r[i] = MsgFrame(q[i])
  <2>1. r \in [1 .. Len(q) -> Frame]
      BY <1>1, FrameFacts
  <2> QED
      BY <2>1, <1>1
<1> HIDE DEF r
<1>3. /\ t \in Seq(Frame) /\ Len(t) = Len(s) + Len(q)
      /\ \A i \in 1 .. Len(s) + Len(q) : t[i] = IF i <= Len(s) THEN s[i] ELSE r[i - Len(s)]
  <2>1. /\ t \in Seq(Frame) /\ Len(t) = Len(s) + Len(r)
        /\ \A i \in 1 .. Len(s) + Len(r) : t[i] = IF i <= Len(s) THEN s[i] ELSE r[i - Len(s)]
      BY <1>2, ConcatProperties
  <2> HIDE DEF t
  <2> QED
      BY <2>1, <1>2
<1> HIDE DEF t
<1>4. \A i \in 1 .. Len(s) : i \in 1 .. Len(t) /\ t[i] = s[i]
    BY <1>1, <1>3
<1>5. m \in MsgsIn(s) => m \in MsgsIn(t)
    BY <1>3, <1>4, InFlight
<1>6. ASSUME m \in AcksIn(t) PROVE m \in AcksIn(s)
  <2>1. PICK i \in 1 .. Len(t) : t[i] = AckFrame(m)
      BY <1>3, <1>6, InFlight
  <2>2. i <= Len(s)
    <3>1. SUFFICES ASSUME ~ (i <= Len(s)) PROVE FALSE
        OBVIOUS
    <3>2. i - Len(s) \in 1 .. Len(q) /\ t[i] = r[i - Len(s)]
        BY <3>1, <1>1, <1>3
    <3>3. t[i] = MsgFrame(q[i - Len(s)]) /\ q[i - Len(s)] \in Msg
        BY <3>2, <1>1, <1>2
    <3> QED
        BY <3>3, <2>1, FrameFacts
  <2>3. i \in 1 .. Len(s) /\ s[i] = AckFrame(m)
      BY <2>1, <2>2, <1>1, <1>3
  <2> QED
      BY <2>3, InFlight
<1> QED
    BY <1>3, <1>5, <1>6 DEF t, r

-----------------------------------------------------------------------------
(* What the steps on a connection, a queue and an outbox do to these sets.  *)

\* A frame written to the socket.
LEMMA WriteUpEffect ==
    ASSUME NetTypeOK, NEW d \in Device, NEW f \in Frame, WriteUp(d, f)
    PROVE  /\ up' \in [Device -> Seq(Frame)]
           /\ \A e \in Device : \A m \in Msg :
                /\ m \in MsgsIn(up[e]) => m \in MsgsIn(up'[e])
                /\ m \in AcksIn(up'[e]) => m \in AcksIn(up[e]) \/ f = AckFrame(m)
           /\ \A m \in Msg : link[d] = "up" /\ f = MsgFrame(m) => m \in MsgsIn(up'[d])
<1>1. CASE link[d] = "up"
  <2> DEFINE t == Append(up[d], f)
  <2>1. up[d] \in Seq(Frame) /\ up \in [Device -> Seq(Frame)]
      BY DEF NetTypeOK
  <2>2. t \in Seq(Frame)
      BY <2>1, AppendProperties
  <2>3. /\ up' = [up EXCEPT ![d] = t]
        /\ \A m \in Msg : m \in MsgsIn(t) <=> m \in MsgsIn(up[d]) \/ f = MsgFrame(m)
        /\ \A m \in Msg : m \in AcksIn(t) <=> m \in AcksIn(up[d]) \/ f = AckFrame(m)
      BY <1>1, <2>1, AppendFrame DEF WriteUp
  <2> HIDE DEF t
  <2>4. up'[d] = t /\ \A e \in Device \ {d} : up'[e] = up[e]
      BY <2>1, <2>3
  <2>5. up' \in [Device -> Seq(Frame)]
      BY <2>1, <2>2, <2>3
  <2> QED
      BY <2>3, <2>4, <2>5
<1>2. CASE link[d] # "up"
    BY <1>2 DEF WriteUp, NetTypeOK
<1> QED
    BY <1>1, <1>2

\* A frame the relay puts on the connection of d.
LEMMA TrySendEffect ==
    ASSUME NetTypeOK, NEW d \in Device, NEW f \in Frame, TrySend(d, f)
    PROVE  /\ down' \in [Device -> Seq(Frame)]
           /\ \A e \in Device : \A m \in Msg :
                /\ m \in MsgsIn(down[e]) => m \in MsgsIn(down'[e])
                /\ m \in AcksIn(down'[e]) => m \in AcksIn(down[e]) \/ (f = AckFrame(m) /\ e = d)
           /\ \A m \in Msg : link[d] = "up" /\ f = MsgFrame(m) => m \in MsgsIn(down'[d])
           /\ \A e \in Device : link[e] # "up" => down'[e] = down[e]
<1>1. CASE link[d] = "up"
  <2> DEFINE t == Append(down[d], f)
  <2>1. down[d] \in Seq(Frame) /\ down \in [Device -> Seq(Frame)]
      BY DEF NetTypeOK
  <2>2. t \in Seq(Frame)
      BY <2>1, AppendProperties
  <2>3. /\ down' = [down EXCEPT ![d] = t]
        /\ \A m \in Msg : m \in MsgsIn(t) <=> m \in MsgsIn(down[d]) \/ f = MsgFrame(m)
        /\ \A m \in Msg : m \in AcksIn(t) <=> m \in AcksIn(down[d]) \/ f = AckFrame(m)
      BY <1>1, <2>1, AppendFrame DEF TrySend
  <2> HIDE DEF t
  <2>4. down'[d] = t /\ \A e \in Device \ {d} : down'[e] = down[e]
      BY <2>1, <2>3
  <2>5. down' \in [Device -> Seq(Frame)]
      BY <2>1, <2>2, <2>3
  <2> QED
      BY <1>1, <2>3, <2>4, <2>5
<1>2. CASE link[d] # "up"
    BY <1>2 DEF TrySend, NetTypeOK
<1> QED
    BY <1>1, <1>2

\* A frame the client reads.
LEMMA ReadEffect ==
    ASSUME NetTypeOK, NEW d \in Device, NEW f, Read(d, f)
    PROVE  /\ cli[d] \in {"handshake", "serve"} /\ f \in Frame
           /\ down' \in [Device -> Seq(Frame)]
           /\ \A e \in Device : \A m \in Msg :
                /\ m \in MsgsIn(down[e]) => m \in MsgsIn(down'[e]) \/ (f = MsgFrame(m) /\ e = d)
                /\ m \in AcksIn(down'[e]) => m \in AcksIn(down[e])
           /\ \A m \in Msg : f = AckFrame(m) => m \in AcksIn(down[d])
           /\ \A e \in Device : down[e] = <<>> => down'[e] = <<>>
<1> DEFINE t == Tail(down[d])
<1>1. /\ down[d] \in Seq(Frame) /\ down \in [Device -> Seq(Frame)] /\ down[d] # <<>> /\ Head(down[d]) = f
      /\ down' = [down EXCEPT ![d] = t] /\ cli[d] \in {"handshake", "serve"}
    BY DEF NetTypeOK, Read
<1>2. f \in Frame /\ t \in Seq(Frame)
    BY <1>1, HeadTailProperties
<1>3. /\ \A m \in Msg : m \in MsgsIn(down[d]) <=> m \in MsgsIn(t) \/ f = MsgFrame(m)
      /\ \A m \in Msg : m \in AcksIn(down[d]) <=> m \in AcksIn(t) \/ f = AckFrame(m)
    BY <1>1, TailFrames
<1> HIDE DEF t
<1>4. down'[d] = t /\ \A e \in Device \ {d} : down'[e] = down[e]
    BY <1>1
<1>5. down' \in [Device -> Seq(Frame)]
    BY <1>1, <1>2
<1> QED
    BY <1>1, <1>2, <1>3, <1>4, <1>5

\* A frame the relay reads.
LEMMA ReceiveEffect ==
    ASSUME NetTypeOK, NEW d \in Device, NEW f, Receive(d, f)
    PROVE  /\ f \in Frame /\ hold[d] = None
           /\ up' \in [Device -> Seq(Frame)]
           /\ \A e \in Device : \A m \in Msg :
                /\ m \in MsgsIn(up[e]) => m \in MsgsIn(up'[e]) \/ (f = MsgFrame(m) /\ e = d)
                /\ m \in AcksIn(up'[e]) => m \in AcksIn(up[e])
           /\ \A m \in Msg : f = AckFrame(m) => m \in AcksIn(up[d])
<1> DEFINE t == Tail(up[d])
<1>1. /\ up[d] \in Seq(Frame) /\ up \in [Device -> Seq(Frame)] /\ up[d] # <<>> /\ Head(up[d]) = f
      /\ up' = [up EXCEPT ![d] = t] /\ hold[d] = None
    BY DEF NetTypeOK, Receive
<1>2. f \in Frame /\ t \in Seq(Frame)
    BY <1>1, HeadTailProperties
<1>3. /\ \A m \in Msg : m \in MsgsIn(up[d]) <=> m \in MsgsIn(t) \/ f = MsgFrame(m)
      /\ \A m \in Msg : m \in AcksIn(up[d]) <=> m \in AcksIn(t) \/ f = AckFrame(m)
    BY <1>1, TailFrames
<1> HIDE DEF t
<1>4. up'[d] = t /\ \A e \in Device \ {d} : up'[e] = up[e]
    BY <1>1
<1>5. up' \in [Device -> Seq(Frame)]
    BY <1>1, <1>2
<1> QED
    BY <1>1, <1>2, <1>3, <1>4, <1>5

\* The queue, sent at once.
LEMMA DrainEffect ==
    ASSUME TypeOK, NEW d \in Device, Drain(d)
    PROVE  /\ down' \in [Device -> Seq(Frame)]
           /\ \A e \in Device : \A m \in Msg :
                /\ m \in MsgsIn(down[e]) => m \in MsgsIn(down'[e])
                /\ m \in AcksIn(down'[e]) => m \in AcksIn(down[e])
           /\ \A e \in Device : link[e] # "up" => down'[e] = down[e]
<1>1. CASE link[d] = "up"
  <2> DEFINE t == down[d] \o [i \in DOMAIN queue[d] |-> MsgFrame(queue[d][i])]
  <2>1. down[d] \in Seq(Frame) /\ down \in [Device -> Seq(Frame)] /\ queue[d] \in Seq(Msg)
      BY DEF TypeOK, NetTypeOK, RelayTypeOK
  <2>2. down' = [down EXCEPT ![d] = t]
      BY <1>1 DEF Drain
  <2>3. \A m \in Msg : /\ t \in Seq(Frame)
                       /\ m \in MsgsIn(down[d]) => m \in MsgsIn(t)
                       /\ m \in AcksIn(t) => m \in AcksIn(down[d])
      BY <2>1, ConcatFrames
  <2>4. t \in Seq(Frame)
    <3>1. CASE Msg = {}
      <4>1. Len(queue[d]) = 0 /\ DOMAIN queue[d] = 1 .. Len(queue[d]) /\ \A i \in 1 .. Len(queue[d]) : queue[d][i] \in Msg
          BY <2>1, <3>1, LenProperties
      <4>2. [i \in DOMAIN queue[d] |-> MsgFrame(queue[d][i])] = <<>>
          BY <4>1
      <4> QED
          BY <4>2, <2>1, ConcatEmptySeq
    <3>2. CASE Msg # {}
        BY <3>2, <2>3
    <3> QED
        BY <3>1, <3>2
  <2> HIDE DEF t
  <2>5. down'[d] = t /\ \A e \in Device \ {d} : down'[e] = down[e]
      BY <2>1, <2>2
  <2>6. down' \in [Device -> Seq(Frame)]
      BY <2>1, <2>2, <2>4
  <2> QED
      BY <1>1, <2>3, <2>5, <2>6
<1>2. CASE link[d] # "up"
    BY <1>2 DEF Drain, TypeOK, NetTypeOK
<1> QED
    BY <1>1, <1>2

\* A message goes into the queue of its recipient, and what makes room for it
\* is accounted for.
LEMMA EnqueueEffect ==
    ASSUME TypeOK, NEW m \in Msg, Enqueue(m)
    PROVE  /\ queue' \in [Device -> Seq(Msg)] /\ \A d \in Device : IsInjective(queue'[d])
           /\ lost' \subseteq Msg /\ lost \subseteq lost'
           /\ m \in Range(queue'[To[m]])
           /\ \A d \in Device : \A k \in Range(queue[d]) :
                k \notin Range(queue'[d]) =>
                    k \in lost' /\ d = To[m] /\ Len(queue[d]) >= MaxQueuePerDevice
<1> DEFINE d == To[m]
           q == queue[d]
           kept == Trimmed(q)
           r == IF m \in Range(kept) THEN kept ELSE Append(kept, m)
<1>1. /\ d \in Device /\ q \in Seq(Msg) /\ IsInjective(q) /\ queue \in [Device -> Seq(Msg)]
      /\ lost \subseteq Msg /\ \A e \in Device : IsInjective(queue[e])
      /\ MaxQueuePerDevice \in Nat \ {0} /\ Len(q) \in Nat
    BY DeliveryAssumption, LenProperties DEF TypeOK, RelayTypeOK, NetTypeOK
<1>2. queue' = [queue EXCEPT ![d] = r] /\ lost' = lost \cup (Range(q) \ Range(kept))
    BY DEF Enqueue
<1> HIDE DEF d, q
<1>3. kept \in Seq(Msg) /\ IsInjective(kept) /\ Range(kept) \subseteq Range(q)
      /\ (Len(q) < MaxQueuePerDevice => kept = q)
  <2>1. CASE Len(q) < MaxQueuePerDevice
      BY <1>1, <2>1 DEF Trimmed
  <2>2. CASE ~ (Len(q) < MaxQueuePerDevice)
    <3>1. Len(q) - MaxQueuePerDevice + 2 \in 1 .. (Len(q) + 1) /\ Len(q) \in 0 .. Len(q)
        BY <1>1, <2>2
    <3> QED
        BY <1>1, <2>2, <3>1, SubTable DEF Trimmed
  <2> QED
      BY <2>1, <2>2
<1> HIDE DEF kept
<1>4. r \in Seq(Msg) /\ IsInjective(r) /\ Range(r) = Range(kept) \cup {m}
  <2>1. CASE m \in Range(kept)
      BY <2>1, <1>3
  <2>2. CASE m \notin Range(kept)
      BY <2>2, <1>3, AppendRow
  <2> QED
      BY <2>1, <2>2
<1> HIDE DEF r
<1>5. Range(q) \subseteq Msg
    BY <1>1, RowsOfTable
<1>6. queue'[d] = r /\ \A e \in Device \ {d} : queue'[e] = queue[e]
    BY <1>1, <1>2
<1>7. queue' \in [Device -> Seq(Msg)] /\ \A e \in Device : IsInjective(queue'[e])
    BY <1>1, <1>2, <1>4, <1>6
<1>8. ASSUME NEW e \in Device, NEW k \in Range(queue[e]), k \notin Range(queue'[e])
      PROVE  k \in lost' /\ e = To[m] /\ Len(queue[e]) >= MaxQueuePerDevice
  <2>1. e = d
      BY <1>6, <1>8
  <2>2. queue[e] = q
      BY <2>1 DEF q
  <2>3. k \in Range(q) /\ k \notin Range(kept)
      BY <2>1, <2>2, <1>4, <1>6, <1>8
  <2>4. ~ (Len(q) < MaxQueuePerDevice)
      BY <2>3, <1>3
  <2> QED
      BY <2>1, <2>2, <2>3, <2>4, <1>1, <1>2 DEF d
<1>9. lost' \subseteq Msg /\ lost \subseteq lost'
    BY <1>1, <1>2, <1>5
<1>10. m \in Range(queue'[To[m]])
    BY <1>4, <1>6 DEF d
<1> QED
    BY <1>7, <1>8, <1>9, <1>10

-----------------------------------------------------------------------------
(* Which steps change what.                                                *)

LEMMA OutboxChanges ==
    ASSUME [Next]_vars, outbox' # outbox
    PROVE  \/ \E m \in Msg : EnqueueOutbox(m)
           \/ \E d \in Device : DeleteOutbox(d) \/ \E m \in Msg : HandleAck(d, m)
BY ZenonT(60) DEF Next, vars, devVars, srvVars, netVars, ClientStep, ConnStep, SendStep, SendLive,
    SendFails, InsertMessage, Dial, HandleReady, HandleSnapshot, HandleIncomingMsg,
    ListOutbox, FlushSend, FlushFails, MarkSent, Disconnected, Register, Greet, SendSnapshot,
    Drain, HandleMsg, HandleMsgAck, EnqueueHeld, RemoveConn, Cut, KillClient, EnqueueStray,
    KillRelay

LEMMA TodoChanges ==
    ASSUME [Next]_vars, todo' # todo
    PROVE  \E d \in Device : ListOutbox(d) \/ FlushFails(d) \/ MarkSent(d) \/ KillClient(d)
BY ZenonT(60) DEF Next, vars, devVars, srvVars, netVars, ClientStep, ConnStep, SendStep, SendLive,
    SendFails, EnqueueOutbox, InsertMessage, Dial, HandleReady, HandleSnapshot,
    HandleIncomingMsg, HandleAck, FlushSend, DeleteOutbox, Disconnected, Register, Greet,
    SendSnapshot, Drain, HandleMsg, HandleMsgAck, EnqueueHeld, RemoveConn, Cut, EnqueueStray,
    KillRelay

LEMMA OutChanges ==
    ASSUME [Next]_vars, out' # out
    PROVE  \/ \E m \in Msg : InsertMessage(m)
           \/ \E d \in Device : MarkSent(d) \/ \E m \in Msg : HandleAck(d, m)
BY ZenonT(60) DEF Next, vars, devVars, srvVars, netVars, ClientStep, ConnStep, SendStep, SendLive,
    SendFails, EnqueueOutbox, Dial, HandleReady, HandleSnapshot, HandleIncomingMsg,
    ListOutbox, FlushSend, FlushFails, DeleteOutbox, Disconnected, Register, Greet,
    SendSnapshot, Drain, HandleMsg, HandleMsgAck, EnqueueHeld, RemoveConn, Cut, KillClient,
    EnqueueStray, KillRelay

LEMMA AppChanges ==
    ASSUME [Next]_vars, app' # app
    PROVE  \/ \E m \in Msg : SendLive(m) \/ SendFails(m) \/ EnqueueOutbox(m) \/ InsertMessage(m)
           \/ \E d \in Device : KillClient(d)
BY ZenonT(60) DEF Next, vars, devVars, srvVars, netVars, ClientStep, ConnStep, SendStep, Dial, HandleReady,
    HandleSnapshot, HandleIncomingMsg, HandleAck, ListOutbox, FlushSend, FlushFails,
    DeleteOutbox, MarkSent, Disconnected, Register, Greet, SendSnapshot, Drain, HandleMsg,
    HandleMsgAck, EnqueueHeld, RemoveConn, Cut, EnqueueStray, KillRelay

LEMMA CliChanges ==
    ASSUME [Next]_vars, cli' # cli
    PROVE  \E d \in Device :
                 \/ Dial(d) \/ HandleReady(d) \/ ListOutbox(d) \/ FlushSend(d) \/ FlushFails(d)
                 \/ DeleteOutbox(d) \/ MarkSent(d) \/ Disconnected(d) \/ KillClient(d)
BY DEF Next, vars, devVars, srvVars, netVars, ClientStep, ConnStep, SendStep, SendLive,
    SendFails, EnqueueOutbox, InsertMessage, HandleSnapshot, HandleIncomingMsg, HandleAck,
    Register, Greet, SendSnapshot, Drain, HandleMsg, HandleMsgAck, EnqueueHeld, RemoveConn,
    Cut, EnqueueStray, KillRelay

LEMMA UpChanges ==
    ASSUME [Next]_vars, up' # up
    PROVE  \/ \E m \in Msg : SendLive(m)
           \/ \E d \in Device :
                 \/ FlushSend(d) \/ Register(d) \/ Cut(d) \/ KillClient(d)
                 \/ \E m \in Msg : HandleIncomingMsg(d, m) \/ HandleMsg(d, m) \/ HandleMsgAck(d, m)
           \/ KillRelay
BY DEF Next, vars, devVars, srvVars, netVars, ClientStep, ConnStep, SendStep, SendFails,
    EnqueueOutbox, InsertMessage, Dial, HandleReady, HandleSnapshot, HandleAck, ListOutbox,
    FlushFails, DeleteOutbox, MarkSent, Disconnected, Greet, SendSnapshot, Drain, EnqueueHeld,
    RemoveConn, EnqueueStray

LEMMA DownChanges ==
    ASSUME [Next]_vars, down' # down
    PROVE  \/ \E d \in Device :
                 \/ HandleReady(d) \/ HandleSnapshot(d) \/ Register(d) \/ Greet(d)
                 \/ SendSnapshot(d) \/ Drain(d) \/ Cut(d) \/ KillClient(d)
                 \/ \E m \in Msg : HandleIncomingMsg(d, m) \/ HandleAck(d, m) \/ HandleMsg(d, m) \/ HandleMsgAck(d, m)
           \/ KillRelay
BY DEF Next, vars, devVars, srvVars, netVars, ClientStep, ConnStep, SendStep, SendLive,
    SendFails, EnqueueOutbox, InsertMessage, Dial, ListOutbox, FlushSend, FlushFails,
    DeleteOutbox, MarkSent, Disconnected, EnqueueHeld, RemoveConn, EnqueueStray

LEMMA QueueChanges ==
    ASSUME [Next]_vars, queue' # queue
    PROVE  \/ \E m \in Msg : EnqueueStray(m)
           \/ \E d \in Device : EnqueueHeld(d) \/ \E m \in Msg : HandleMsgAck(d, m)
BY ZenonT(60) DEF Next, vars, devVars, srvVars, netVars, ClientStep, ConnStep, SendStep, SendLive,
    SendFails, EnqueueOutbox, InsertMessage, Dial, HandleReady, HandleSnapshot,
    HandleIncomingMsg, HandleAck, ListOutbox, FlushSend, FlushFails, DeleteOutbox, MarkSent,
    Disconnected, Register, Greet, SendSnapshot, Drain, HandleMsg, RemoveConn, Cut,
    KillClient, KillRelay

LEMMA LinkChanges ==
    ASSUME [Next]_vars, link' # link
    PROVE  \/ \E d \in Device : Dial(d) \/ Register(d) \/ Cut(d) \/ KillClient(d)
           \/ KillRelay
BY ZenonT(60) DEF Next, vars, devVars, srvVars, netVars, ClientStep, ConnStep, SendStep, SendLive,
    SendFails, EnqueueOutbox, InsertMessage, HandleReady, HandleSnapshot, HandleIncomingMsg,
    HandleAck, ListOutbox, FlushSend, FlushFails, DeleteOutbox, MarkSent, Disconnected, Greet,
    SendSnapshot, Drain, HandleMsg, HandleMsgAck, EnqueueHeld, RemoveConn, EnqueueStray

LEMMA SrvChanges ==
    ASSUME [Next]_vars, srv' # srv
    PROVE  \/ \E d \in Device :
                 \/ Register(d) \/ Greet(d) \/ SendSnapshot(d) \/ Drain(d) \/ RemoveConn(d)
           \/ KillRelay
BY DEF Next, vars, devVars, srvVars, netVars, ClientStep, ConnStep, SendStep, SendLive,
    SendFails, EnqueueOutbox, InsertMessage, Dial, HandleReady, HandleSnapshot,
    HandleIncomingMsg, HandleAck, ListOutbox, FlushSend, FlushFails, DeleteOutbox, MarkSent,
    Disconnected, HandleMsg, HandleMsgAck, EnqueueHeld, Cut, KillClient, EnqueueStray

LEMMA HoldChanges ==
    ASSUME [Next]_vars, hold' # hold
    PROVE  \/ \E d \in Device : Register(d) \/ EnqueueHeld(d) \/ \E m \in Msg : HandleMsg(d, m)
           \/ KillRelay
BY ZenonT(60) DEF Next, vars, devVars, srvVars, netVars, ClientStep, ConnStep, SendStep, SendLive,
    SendFails, EnqueueOutbox, InsertMessage, Dial, HandleReady, HandleSnapshot,
    HandleIncomingMsg, HandleAck, ListOutbox, FlushSend, FlushFails, DeleteOutbox, MarkSent,
    Disconnected, Greet, SendSnapshot, Drain, HandleMsgAck, RemoveConn, Cut, KillClient,
    EnqueueStray

LEMMA StrayChanges ==
    ASSUME [Next]_vars, stray' # stray
    PROVE  \/ \E m \in Msg : EnqueueStray(m)
           \/ \E d \in Device : Register(d)
           \/ KillRelay
BY ZenonT(60) DEF Next, vars, devVars, srvVars, netVars, ClientStep, ConnStep, SendStep, SendLive,
    SendFails, EnqueueOutbox, InsertMessage, Dial, HandleReady, HandleSnapshot,
    HandleIncomingMsg, HandleAck, ListOutbox, FlushSend, FlushFails, DeleteOutbox, MarkSent,
    Disconnected, Greet, SendSnapshot, Drain, HandleMsg, HandleMsgAck, EnqueueHeld,
    RemoveConn, Cut, KillClient

LEMMA LostChanges ==
    ASSUME [Next]_vars, lost' # lost
    PROVE  \/ \E m \in Msg : SendLive(m) \/ EnqueueStray(m)
           \/ \E d \in Device :
                 \/ FlushSend(d) \/ Register(d) \/ EnqueueHeld(d) \/ Cut(d) \/ KillClient(d)
                 \/ \E m \in Msg : HandleMsg(d, m)
           \/ KillRelay
BY ZenonT(60) DEF Next, vars, devVars, srvVars, netVars, ClientStep, ConnStep, SendStep, SendFails,
    EnqueueOutbox, InsertMessage, Dial, HandleReady, HandleSnapshot, HandleIncomingMsg,
    HandleAck, ListOutbox, FlushFails, DeleteOutbox, MarkSent, Disconnected, Greet,
    SendSnapshot, Drain, HandleMsgAck, RemoveConn

LEMMA RecordChanges ==
    ASSUME [Next]_vars, ~ UNCHANGED <<history, dropped, peers>>
    PROVE  \E d \in Device : HandleSnapshot(d) \/ \E m \in Msg : HandleIncomingMsg(d, m)
BY ZenonT(60) DEF Next, vars, devVars, srvVars, netVars, ClientStep, ConnStep, SendStep, SendLive,
    SendFails, EnqueueOutbox, InsertMessage, Dial, HandleReady, HandleAck, ListOutbox,
    FlushSend, FlushFails, DeleteOutbox, MarkSent, Disconnected, Register, Greet,
    SendSnapshot, Drain, HandleMsg, HandleMsgAck, EnqueueHeld, RemoveConn, Cut, KillClient,
    EnqueueStray, KillRelay

LEMMA FaultsChange ==
    ASSUME [Next]_vars, faults' # faults
    PROVE  faults < MaxFaults /\ faults' = faults + 1
BY ZenonT(60) DEF Next, vars, devVars, srvVars, netVars, ClientStep, ConnStep, SendStep, SendLive,
    SendFails, EnqueueOutbox, InsertMessage, Dial, HandleReady, HandleSnapshot,
    HandleIncomingMsg, HandleAck, ListOutbox, FlushSend, FlushFails, DeleteOutbox, MarkSent,
    Disconnected, Register, Greet, SendSnapshot, Drain, HandleMsg, HandleMsgAck, EnqueueHeld,
    RemoveConn, EnqueueStray,
    Cut, KillClient, KillRelay, Fault

\* What a recipient has stored or discarded, it keeps.
LEMMA DealtWithStays ==
    ASSUME [Next]_vars
    PROVE  history \subseteq history' /\ dropped \subseteq dropped'
BY ZenonT(60) DEF Next, vars, devVars, srvVars, netVars, ClientStep, ConnStep, SendStep, SendLive,
    SendFails, EnqueueOutbox, InsertMessage, Dial, HandleReady, HandleSnapshot,
    HandleIncomingMsg, HandleAck, ListOutbox, FlushSend, FlushFails, DeleteOutbox, MarkSent,
    Disconnected, Register, Greet, SendSnapshot, Drain, HandleMsg, HandleMsgAck, EnqueueHeld,
    RemoveConn, Cut, KillClient, EnqueueStray, KillRelay

-----------------------------------------------------------------------------
(* Types.                                                                  *)

LEMMA OutboxDelete ==
    ASSUME DeviceTypeOK, NEW d \in Device, NEW m, outbox' = [outbox EXCEPT ![d] = DeleteRow(@, m)]
    PROVE  /\ outbox' \in [Device -> Seq(Msg)] /\ \A e \in Device : IsInjective(outbox'[e])
           /\ Range(outbox'[d]) = Range(outbox[d]) \ {m}
           /\ \A e \in Device \ {d} : outbox'[e] = outbox[e]
<1> DEFINE t == DeleteRow(outbox[d], m)
<1>1. /\ outbox \in [Device -> Seq(Msg)] /\ \A e \in Device : IsInjective(outbox[e])
      /\ outbox' = [outbox EXCEPT ![d] = t]
    BY DEF DeviceTypeOK
<1>2. t \in Seq(Msg) /\ IsInjective(t) /\ Range(t) = Range(outbox[d]) \ {m}
    BY <1>1, DeleteRowProperties
<1> HIDE DEF t
<1>3. outbox'[d] = t /\ \A e \in Device \ {d} : outbox'[e] = outbox[e]
    BY <1>1
<1> QED
    BY <1>1, <1>2, <1>3

LEMMA QueueDelete ==
    ASSUME RelayTypeOK, NEW d \in Device, NEW m, queue' = [queue EXCEPT ![d] = DeleteRow(@, m)]
    PROVE  /\ queue' \in [Device -> Seq(Msg)] /\ \A e \in Device : IsInjective(queue'[e])
           /\ Range(queue'[d]) = Range(queue[d]) \ {m}
           /\ \A e \in Device \ {d} : queue'[e] = queue[e]
<1> DEFINE t == DeleteRow(queue[d], m)
<1>1. /\ queue \in [Device -> Seq(Msg)] /\ \A e \in Device : IsInjective(queue[e])
      /\ queue' = [queue EXCEPT ![d] = t]
    BY DEF RelayTypeOK
<1>2. t \in Seq(Msg) /\ IsInjective(t) /\ Range(t) = Range(queue[d]) \ {m}
    BY <1>1, DeleteRowProperties
<1> HIDE DEF t
<1>3. queue'[d] = t /\ \A e \in Device \ {d} : queue'[e] = queue[e]
    BY <1>1
<1> QED
    BY <1>1, <1>2, <1>3

\* The rows of an outbox are still unique when SendText adds one.
LEMMA OutboxEnqueue ==
    ASSUME DeviceTypeOK, NEW m \in Msg, EnqueueOutbox(m)
    PROVE  /\ outbox' \in [Device -> Seq(Msg)] /\ \A e \in Device : IsInjective(outbox'[e])
           /\ Range(outbox'[From[m]]) = Range(outbox[From[m]]) \cup {m}
           /\ \A e \in Device \ {From[m]} : outbox'[e] = outbox[e]
<1> DEFINE d == From[m]
           t == DeleteRow(outbox[d], m)
           r == Append(t, m)
<1>1. /\ outbox \in [Device -> Seq(Msg)] /\ \A e \in Device : IsInjective(outbox[e])
      /\ outbox' = [outbox EXCEPT ![d] = r] /\ d \in Device
    BY DeliveryAssumption DEF DeviceTypeOK, EnqueueOutbox
<1> HIDE DEF d
<1>2. t \in Seq(Msg) /\ IsInjective(t) /\ Range(t) = Range(outbox[d]) \ {m}
    BY <1>1, DeleteRowProperties
<1> HIDE DEF t
<1>3. r \in Seq(Msg) /\ IsInjective(r) /\ Range(r) = Range(t) \cup {m}
    BY <1>2, AppendRow
<1> HIDE DEF r
<1>4. outbox'[d] = r /\ \A e \in Device \ {d} : outbox'[e] = outbox[e]
    BY <1>1
<1> QED
    BY <1>1, <1>2, <1>3, <1>4 DEF d

\* What the run loop has left to flush.
LEMMA TodoStep ==
    ASSUME DeviceTypeOK, [Next]_vars
    PROVE  /\ todo' \in [Device -> Seq(Msg)]
           /\ \A d \in Device :
                \/ todo'[d] = todo[d] \/ todo'[d] = <<>>
                \/ ListOutbox(d) /\ todo'[d] = outbox[d]
                \/ MarkSent(d) /\ todo[d] # <<>> /\ todo'[d] = Tail(todo[d])
<1>1. todo \in [Device -> Seq(Msg)] /\ outbox \in [Device -> Seq(Msg)]
    BY DEF DeviceTypeOK
<1>2. CASE todo' = todo
    BY <1>1, <1>2
<1>3. CASE todo' # todo
  <2>1. PICK e \in Device : ListOutbox(e) \/ FlushFails(e) \/ MarkSent(e) \/ KillClient(e)
      BY <1>3, TodoChanges
  <2>2. CASE ListOutbox(e)
    <3>1. todo' = [todo EXCEPT ![e] = outbox[e]] /\ outbox[e] \in Seq(Msg)
        BY <1>1, <2>2 DEF ListOutbox
    <3> QED
        BY <1>1, <2>2, <3>1
  <2>3. CASE FlushFails(e) \/ KillClient(e)
    <3>1. todo' = [todo EXCEPT ![e] = <<>>] /\ <<>> \in Seq(Msg)
        BY <2>3, EmptySeq DEF FlushFails, KillClient
    <3> QED
        BY <1>1, <3>1
  <2>4. CASE MarkSent(e)
    <3>1. todo' = [todo EXCEPT ![e] = Tail(todo[e])] /\ cli[e] = "mark"
        BY <2>4 DEF MarkSent
    <3>2. todo[e] # <<>>
        BY <3>1 DEF DeviceTypeOK
    <3>3. Tail(todo[e]) \in Seq(Msg)
        BY <1>1, <3>2, HeadTailProperties
    <3> QED
        BY <1>1, <2>4, <3>1, <3>2, <3>3
  <2> QED
      BY <2>1, <2>2, <2>3, <2>4
<1> QED
    BY <1>2, <1>3

\* A flush has rows left exactly while it runs.
LEMMA FlushStep ==
    ASSUME DeviceTypeOK, [Next]_vars
    PROVE  /\ cli' \in [Device -> {"off", "handshake"} \cup Ready]
           /\ \A d \in Device : todo'[d] # <<>> <=> cli'[d] \in {"flush", "delete", "mark"}
<1> DEFINE Flushing == {"flush", "delete", "mark"}
<1>1. /\ cli \in [Device -> {"off", "handshake"} \cup Ready] /\ todo \in [Device -> Seq(Msg)]
      /\ outbox \in [Device -> Seq(Msg)]
      /\ \A d \in Device : todo[d] # <<>> <=> cli[d] \in Flushing
    BY DEF DeviceTypeOK
<1>2. CASE UNCHANGED <<cli, todo>>
    BY <1>1, <1>2
<1>3. CASE ~ UNCHANGED <<cli, todo>>
  <2>1. PICK d \in Device :
            \/ Dial(d) \/ HandleReady(d) \/ ListOutbox(d) \/ FlushSend(d) \/ FlushFails(d)
            \/ DeleteOutbox(d) \/ MarkSent(d) \/ Disconnected(d) \/ KillClient(d)
      BY <1>3, CliChanges, TodoChanges
  <2>2. SUFFICES \E c \in {"off", "handshake"} \cup Ready, t \in Seq(Msg) :
                    /\ cli' = [cli EXCEPT ![d] = c] /\ todo' = [todo EXCEPT ![d] = t]
                    /\ t # <<>> <=> c \in Flushing
      BY <1>1, <2>2
  <2>3. CASE Dial(d) \/ HandleReady(d) \/ FlushSend(d) \/ DeleteOutbox(d) \/ Disconnected(d)
    <3>1. todo' = [todo EXCEPT ![d] = todo[d]] /\ todo[d] \in Seq(Msg)
        BY <1>1, <2>3 DEF Dial, HandleReady, FlushSend, DeleteOutbox, Disconnected
    <3>2. \E c \in {"off", "handshake"} \cup Ready :
            cli' = [cli EXCEPT ![d] = c] /\ (cli[d] \in Flushing <=> c \in Flushing)
        BY <2>3 DEF Dial, HandleReady, FlushSend, DeleteOutbox, Disconnected, Read, Ready
    <3> QED
        BY <1>1, <3>1, <3>2
  <2>4. CASE ListOutbox(d)
      BY <1>1, <2>4 DEF ListOutbox, Ready
  <2>5. CASE FlushFails(d) \/ KillClient(d)
    <3>1. <<>> \in Seq(Msg)
        BY EmptySeq
    <3> QED
        BY <2>5, <3>1 DEF FlushFails, KillClient, Ready
  <2>6. CASE MarkSent(d)
    <3>1. /\ todo' = [todo EXCEPT ![d] = Tail(todo[d])] /\ todo[d] # <<>>
          /\ cli' = [cli EXCEPT ![d] = IF Len(todo[d]) = 1 THEN "serve" ELSE "flush"]
        BY <1>1, <2>6 DEF MarkSent
    <3>2. Tail(todo[d]) \in Seq(Msg) /\ Len(Tail(todo[d])) = Len(todo[d]) - 1 /\ Len(todo[d]) \in Nat
        BY <1>1, <3>1, HeadTailProperties, LenProperties
    <3>3. Tail(todo[d]) # <<>> <=> Len(todo[d]) # 1
      <4> DEFINE t == Tail(todo[d])
      <4>1. t \in Seq(Msg) /\ Len(t) = Len(todo[d]) - 1
          BY <3>2
      <4> HIDE DEF t
      <4>2. t # <<>> <=> Len(t) # 0
          BY <4>1, EmptySeq
      <4>3. t # <<>> <=> Len(todo[d]) # 1
          BY <3>2, <4>1, <4>2
      <4> QED
          BY <4>3 DEF t
    <3> QED
        BY <3>1, <3>2, <3>3 DEF Ready
  <2> QED
      BY <2>1, <2>3, <2>4, <2>5, <2>6
<1> QED
    BY <1>2, <1>3

LEMMA DeviceTypes ==
    ASSUME TypeOK, [Next]_vars
    PROVE  DeviceTypeOK'
<1>1. DeviceTypeOK
    BY DEF TypeOK
<1>2. todo' \in [Device -> Seq(Msg)]
    BY <1>1, TodoStep
<1>3. /\ cli' \in [Device -> {"off", "handshake"} \cup Ready]
      /\ \A d \in Device : todo'[d] # <<>> <=> cli'[d] \in {"flush", "delete", "mark"}
    BY <1>1, FlushStep
<1>4. outbox' \in [Device -> Seq(Msg)] /\ \A d \in Device : IsInjective(outbox'[d])
  <2>1. CASE outbox' = outbox
      BY <1>1, <2>1 DEF DeviceTypeOK
  <2>2. ASSUME NEW m \in Msg, EnqueueOutbox(m)
        PROVE  outbox' \in [Device -> Seq(Msg)] /\ \A d \in Device : IsInjective(outbox'[d])
      BY <1>1, <2>2, OutboxEnqueue
  <2>3. ASSUME NEW e \in Device, DeleteOutbox(e) \/ \E m \in Msg : HandleAck(e, m)
        PROVE  outbox' \in [Device -> Seq(Msg)] /\ \A d \in Device : IsInjective(outbox'[d])
      BY <1>1, <2>3, OutboxDelete DEF DeleteOutbox, HandleAck
  <2> QED
      BY <2>1, <2>2, <2>3, OutboxChanges
<1>5. app' \in [Msg -> {"new", "unsent", "queued", "sent", "done"}]
  <2>1. CASE app' = app
      BY <1>1, <2>1 DEF DeviceTypeOK
  <2>2. ASSUME NEW m \in Msg, SendLive(m) \/ SendFails(m) \/ EnqueueOutbox(m) \/ InsertMessage(m)
        PROVE  app' \in [Msg -> {"new", "unsent", "queued", "sent", "done"}]
      BY <1>1, <2>2 DEF DeviceTypeOK, SendLive, SendFails, EnqueueOutbox, InsertMessage
  <2>3. ASSUME NEW d \in Device, KillClient(d)
        PROVE  app' \in [Msg -> {"new", "unsent", "queued", "sent", "done"}]
      BY <1>1, <2>3 DEF DeviceTypeOK, KillClient
  <2> QED
      BY <2>1, <2>2, <2>3, AppChanges
<1>6. out' \in [Msg -> {"none", "queued", "sent", "delivered"}]
  <2>1. CASE out' = out
      BY <1>1, <2>1 DEF DeviceTypeOK
  <2>2. ASSUME NEW m \in Msg, InsertMessage(m)
        PROVE  out' \in [Msg -> {"none", "queued", "sent", "delivered"}]
      BY <1>1, <2>2 DEF DeviceTypeOK, InsertMessage
  <2>3. ASSUME NEW d \in Device, MarkSent(d) \/ \E m \in Msg : HandleAck(d, m)
        PROVE  out' \in [Msg -> {"none", "queued", "sent", "delivered"}]
      BY <1>1, <2>3 DEF DeviceTypeOK, MarkSent, HandleAck, SetMessageState
  <2> QED
      BY <2>1, <2>2, <2>3, OutChanges
<1>7. history' \subseteq Msg /\ dropped' \subseteq Msg /\ peers' \in [Device -> SUBSET Device]
  <2>1. CASE UNCHANGED <<history, dropped, peers>>
      BY <1>1, <2>1 DEF DeviceTypeOK
  <2>2. CASE ~ UNCHANGED <<history, dropped, peers>>
    <3>1. PICK d \in Device : HandleSnapshot(d) \/ \E m \in Msg : HandleIncomingMsg(d, m)
        BY <2>2, RecordChanges
    <3>2. CASE HandleSnapshot(d)
        BY <1>1, <3>2 DEF DeviceTypeOK, HandleSnapshot
    <3>3. ASSUME NEW m \in Msg, HandleIncomingMsg(d, m)
          PROVE  history' \subseteq Msg /\ dropped' \subseteq Msg /\ peers' = peers
        BY <1>1, <3>3 DEF DeviceTypeOK, HandleIncomingMsg
    <3> QED
        BY <1>1, <3>1, <3>2, <3>3 DEF DeviceTypeOK
  <2> QED
      BY <2>1, <2>2
<1> QED
    BY <1>2, <1>3, <1>4, <1>5, <1>6, <1>7 DEF DeviceTypeOK

LEMMA RelayTypes ==
    ASSUME TypeOK, [Next]_vars
    PROVE  RelayTypeOK'
<1>1. RelayTypeOK
    BY DEF TypeOK
<1>2. srv' \in [Device -> {"none", "greet", "snapshot", "drain", "serve"}]
  <2>1. CASE srv' = srv
      BY <1>1, <2>1 DEF RelayTypeOK
  <2>2. ASSUME NEW d \in Device,
               \/ Register(d) \/ Greet(d) \/ SendSnapshot(d) \/ Drain(d) \/ RemoveConn(d)
        PROVE  srv' \in [Device -> {"none", "greet", "snapshot", "drain", "serve"}]
      BY <1>1, <2>2 DEF RelayTypeOK, Register, Greet, SendSnapshot, Drain, RemoveConn
  <2>3. CASE KillRelay
      BY <2>3 DEF KillRelay
  <2> QED
      BY <2>1, <2>2, <2>3, SrvChanges
<1>3. hold' \in [Device -> Msg \cup {None}]
  <2>1. CASE hold' = hold
      BY <1>1, <2>1 DEF RelayTypeOK
  <2>2. ASSUME NEW d \in Device,
               Register(d) \/ EnqueueHeld(d) \/ \E m \in Msg : HandleMsg(d, m)
        PROVE  hold' \in [Device -> Msg \cup {None}]
      BY <1>1, <2>2 DEF RelayTypeOK, Register, EnqueueHeld, HandleMsg, RefuseMsg
  <2>3. CASE KillRelay
      BY <2>3 DEF KillRelay
  <2> QED
      BY <2>1, <2>2, <2>3, HoldChanges
<1>4. stray' \subseteq Msg
  <2>1. CASE stray' = stray
      BY <1>1, <2>1 DEF RelayTypeOK
  <2>2. ASSUME NEW d \in Device, Register(d) PROVE stray' \subseteq Msg
      BY <1>1, <2>2 DEF RelayTypeOK, Register
  <2>3. ASSUME NEW m \in Msg, EnqueueStray(m) PROVE stray' \subseteq Msg
      BY <1>1, <2>3 DEF RelayTypeOK, EnqueueStray
  <2>4. CASE KillRelay
      BY <2>4 DEF KillRelay
  <2> QED
      BY <2>1, <2>2, <2>3, <2>4, StrayChanges
<1>5. queue' \in [Device -> Seq(Msg)] /\ \A d \in Device : IsInjective(queue'[d])
  <2>1. CASE queue' = queue
      BY <1>1, <2>1 DEF RelayTypeOK
  <2>2. ASSUME NEW m \in Msg, EnqueueStray(m)
        PROVE  queue' \in [Device -> Seq(Msg)] /\ \A d \in Device : IsInjective(queue'[d])
      BY <2>2, EnqueueEffect DEF EnqueueStray
  <2>3. ASSUME NEW e \in Device, EnqueueHeld(e)
        PROVE  queue' \in [Device -> Seq(Msg)] /\ \A d \in Device : IsInjective(queue'[d])
    <3>1. hold[e] \in Msg /\ Enqueue(hold[e])
        BY <1>1, <2>3 DEF RelayTypeOK, EnqueueHeld
    <3> QED
        BY <3>1, EnqueueEffect
  <2>4. ASSUME NEW e \in Device, NEW m \in Msg, HandleMsgAck(e, m)
        PROVE  queue' \in [Device -> Seq(Msg)] /\ \A d \in Device : IsInjective(queue'[d])
    <3>1. CASE queue' = queue
        BY <1>1, <3>1 DEF RelayTypeOK
    <3>2. CASE queue' # queue
        BY <1>1, <2>4, <3>2, QueueDelete DEF HandleMsgAck
    <3> QED
        BY <3>1, <3>2
  <2> QED
      BY <2>1, <2>2, <2>3, <2>4, QueueChanges
<1> QED
    BY <1>2, <1>3, <1>4, <1>5 DEF RelayTypeOK

\* The frames to the relay: an ack is put there by the one who dealt with the
\* message, and everything else takes frames away.
LEMMA UpStep ==
    ASSUME TypeOK, [Next]_vars
    PROVE  /\ up' \in [Device -> Seq(Frame)]
           /\ \A d \in Device, m \in Msg :
                m \in AcksIn(up'[d]) => m \in AcksIn(up[d]) \/ m \in history' \cup dropped'
<1> DEFINE P == /\ up' \in [Device -> Seq(Frame)]
                /\ \A d \in Device, m \in Msg :
                     m \in AcksIn(up'[d]) => m \in AcksIn(up[d]) \/ m \in history' \cup dropped'
<1>1. NetTypeOK /\ up \in [Device -> Seq(Frame)]
    BY DEF TypeOK, NetTypeOK
<1>2. CASE up' = up
    BY <1>1, <1>2
<1>3. ASSUME NEW m \in Msg, SendLive(m) PROVE P
  <2>1. WriteUp(From[m], MsgFrame(m)) /\ From[m] \in Device
      BY <1>3, DeliveryAssumption DEF SendLive
  <2> QED
      BY <1>1, <2>1, WriteUpEffect, FrameFacts
<1>4. ASSUME NEW e \in Device, FlushSend(e) PROVE P
  <2>1. WriteUp(e, MsgFrame(Head(todo[e]))) /\ todo[e] # <<>> /\ todo[e] \in Seq(Msg)
      BY <1>4 DEF FlushSend, TypeOK, DeviceTypeOK
  <2>2. Head(todo[e]) \in Msg
      BY <2>1, HeadTailProperties
  <2> QED
      BY <1>1, <2>1, <2>2, WriteUpEffect, FrameFacts
<1>5. ASSUME NEW e \in Device, NEW m \in Msg, HandleIncomingMsg(e, m) PROVE P
  <2>1. WriteUp(e, AckFrame(m)) /\ m \in history' \cup dropped'
      BY <1>5 DEF HandleIncomingMsg
  <2> QED
      BY <1>1, <2>1, WriteUpEffect, FrameFacts
<1>6. ASSUME NEW e \in Device, NEW f, Receive(e, f) PROVE P
    BY <1>1, <1>6, ReceiveEffect
<1>7. ASSUME NEW e \in Device, NEW u \in Seq(Frame), AcksIn(u) \subseteq AcksIn(up[e]),
             up' = [up EXCEPT ![e] = u]
      PROVE  P
  <2>1. up'[e] = u /\ \A d \in Device \ {e} : up'[d] = up[d]
      BY <1>1, <1>7
  <2> QED
      BY <1>1, <1>7, <2>1
<1>8. ASSUME NEW e \in Device, Register(e) PROVE P
  <2>1. up' = [up EXCEPT ![e] = <<>>] /\ <<>> \in Seq(Frame) /\ AcksIn(<<>>) \subseteq AcksIn(up[e])
      BY <1>8, EmptySeq, NothingInFlight DEF Register
  <2> QED
      BY <2>1, <1>7
<1>9. ASSUME NEW e \in Device, Cut(e) \/ KillClient(e) PROVE P
  <2>1. PICK u \in Prefixes(up[e]) : up' = [up EXCEPT ![e] = u]
      BY <1>9 DEF Cut, KillClient
  <2> QED
      BY <1>1, <2>1, <1>7, PrefixFrames
<1>10. ASSUME KillRelay PROVE P
  <2>1. up' = [d \in Device |-> <<>>]
      BY <1>10 DEF KillRelay
  <2>2. <<>> \in Seq(Frame)
      BY EmptySeq
  <2> QED
      BY <2>1, <2>2, NothingInFlight
<1>11. ASSUME NEW e \in Device, NEW m \in Msg, HandleMsg(e, m) \/ HandleMsgAck(e, m) PROVE P
    BY <1>6, <1>11 DEF HandleMsg, HandleMsgAck
<1> HIDE DEF P
<1>12. ASSUME up' # up PROVE P
  <2>1. CASE \E m \in Msg : SendLive(m)
      BY <2>1, <1>3
  <2>2. CASE KillRelay
      BY <2>2, <1>10
  <2>3. ASSUME NEW e \in Device,
               \/ FlushSend(e) \/ Register(e) \/ Cut(e) \/ KillClient(e)
               \/ \E m \in Msg : HandleIncomingMsg(e, m) \/ HandleMsg(e, m) \/ HandleMsgAck(e, m)
        PROVE  P
      BY <2>3, <1>4, <1>5, <1>8, <1>9, <1>11
  <2> QED
      BY <1>12, <2>1, <2>2, <2>3, UpChanges
<1> QED
    BY <1>2, <1>12 DEF P

\* The frames to the devices: an ack is put there by the relay, which has just
\* read it, for the one who composed the message.
LEMMA DownStep ==
    ASSUME TypeOK, [Next]_vars
    PROVE  /\ down' \in [Device -> Seq(Frame)]
           /\ \A d \in Device, m \in Msg :
                m \in AcksIn(down'[d]) =>
                    \/ m \in AcksIn(down[d])
                    \/ From[m] = d /\ \E e \in Device : m \in AcksIn(up[e])
           /\ \A d \in Device : link[d] # "up" /\ down[d] = <<>> => down'[d] = <<>>
<1> DEFINE P == /\ down' \in [Device -> Seq(Frame)]
                /\ \A d \in Device, m \in Msg :
                     m \in AcksIn(down'[d]) =>
                         \/ m \in AcksIn(down[d])
                         \/ From[m] = d /\ \E e \in Device : m \in AcksIn(up[e])
                /\ \A d \in Device : link[d] # "up" /\ down[d] = <<>> => down'[d] = <<>>
<1>1. NetTypeOK /\ down \in [Device -> Seq(Frame)]
    BY DEF TypeOK, NetTypeOK
<1>2. CASE down' = down
    BY <1>1, <1>2
<1>3. ASSUME NEW e \in Device, NEW f, Read(e, f) PROVE P
    BY <1>1, <1>3, ReadEffect
<1>4. ASSUME NEW e \in Device, Greet(e) \/ SendSnapshot(e) PROVE P
  <2>1. PICK f \in {ReadyFrame, SnapFrame} : TrySend(e, f)
      BY <1>4 DEF Greet, SendSnapshot
  <2>2. f \in Frame /\ \A m \in Msg : f # AckFrame(m)
      BY GreetingFrames, FrameFacts
  <2> QED
      BY <1>1, <2>1, <2>2, TrySendEffect
<1>5. ASSUME NEW e \in Device, Drain(e) PROVE P
    BY <1>5, DrainEffect
<1>6. ASSUME NEW e \in Device, NEW m \in Msg, HandleMsg(e, m), down' # down PROVE P
  <2>1. TrySend(To[m], MsgFrame(m)) /\ To[m] \in Device
      BY <1>6, DeliveryAssumption DEF HandleMsg, RefuseMsg
  <2> QED
      BY <1>1, <2>1, TrySendEffect, FrameFacts
<1>7. ASSUME NEW e \in Device, NEW m \in Msg, HandleMsgAck(e, m), down' # down PROVE P
  <2>1. TrySend(From[m], AckFrame(m)) /\ From[m] \in Device /\ Receive(e, AckFrame(m))
      BY <1>7, DeliveryAssumption DEF HandleMsgAck
  <2>2. m \in AcksIn(up[e])
      BY <1>1, <2>1, ReceiveEffect
  <2>3. \A k \in Msg : AckFrame(m) = AckFrame(k) => m = k
      BY FrameFacts
  <2>4. AckFrame(m) \in Frame
      BY FrameFacts
  <2> QED
      BY <1>1, <2>1, <2>2, <2>3, <2>4, TrySendEffect
<1>8. ASSUME NEW e \in Device, NEW u \in Seq(Frame), AcksIn(u) \subseteq AcksIn(down[e]),
             down[e] = <<>> => u = <<>>, down' = [down EXCEPT ![e] = u]
      PROVE  P
  <2>1. down'[e] = u /\ \A d \in Device \ {e} : down'[d] = down[d]
      BY <1>1, <1>8
  <2> QED
      BY <1>1, <1>8, <2>1
<1>9. ASSUME NEW e \in Device, Register(e) \/ KillClient(e) PROVE P
  <2>1. down' = [down EXCEPT ![e] = <<>>] /\ <<>> \in Seq(Frame) /\ AcksIn(<<>>) \subseteq AcksIn(down[e])
      BY <1>9, EmptySeq, NothingInFlight DEF Register, KillClient
  <2> QED
      BY <2>1, <1>8
<1>10. ASSUME NEW e \in Device, Cut(e) PROVE P
  <2>1. PICK u \in Prefixes(down[e]) : down' = [down EXCEPT ![e] = u]
      BY <1>10 DEF Cut
  <2> QED
      BY <1>1, <2>1, <1>8, PrefixFrames
<1>11. ASSUME KillRelay PROVE P
  <2>1. PICK kept \in SUBSET Device : down' = [d \in Device |-> IF d \in kept THEN down[d] ELSE <<>>]
      BY <1>11 DEF KillRelay
  <2>2. <<>> \in Seq(Frame)
      BY EmptySeq
  <2> QED
      BY <1>1, <2>1, <2>2, NothingInFlight
<1>12. ASSUME NEW e \in Device,
              \/ HandleReady(e) \/ HandleSnapshot(e)
              \/ \E m \in Msg : HandleIncomingMsg(e, m) \/ HandleAck(e, m)
       PROVE  P
  <2>1. \E f : Read(e, f)
      BY <1>12 DEF HandleReady, HandleSnapshot, HandleIncomingMsg, HandleAck
  <2> QED
      BY <2>1, <1>3
<1> HIDE DEF P
<1>13. ASSUME down' # down PROVE P
  <2>1. CASE KillRelay
      BY <2>1, <1>11
  <2>2. ASSUME NEW e \in Device,
               \/ Register(e) \/ Greet(e) \/ SendSnapshot(e) \/ Drain(e) \/ Cut(e) \/ KillClient(e)
               \/ \E m \in Msg : HandleMsg(e, m) \/ HandleMsgAck(e, m)
        PROVE  P
      BY <2>2, <1>13, <1>4, <1>5, <1>6, <1>7, <1>9, <1>10
  <2>3. ASSUME NEW e \in Device,
               \/ HandleReady(e) \/ HandleSnapshot(e)
               \/ \E m \in Msg : HandleIncomingMsg(e, m) \/ HandleAck(e, m)
        PROVE  P
      BY <2>3, <1>12
  <2> QED
      BY <1>13, <2>1, <2>2, <2>3, DownChanges
<1> QED
    BY <1>2, <1>13 DEF P

LEMMA NetTypes ==
    ASSUME TypeOK, [Next]_vars
    PROVE  NetTypeOK'
<1>1. NetTypeOK /\ RelayTypeOK /\ DeviceTypeOK
    BY DEF TypeOK
<1>2. up' \in [Device -> Seq(Frame)] /\ down' \in [Device -> Seq(Frame)]
    BY UpStep, DownStep
<1>3. link' \in [Device -> {"down", "dialed", "up"}]
  <2>1. CASE link' = link
      BY <1>1, <2>1 DEF NetTypeOK
  <2>2. ASSUME NEW d \in Device, Dial(d) \/ Register(d) \/ Cut(d) \/ KillClient(d)
        PROVE  link' \in [Device -> {"down", "dialed", "up"}]
      BY <1>1, <2>2 DEF NetTypeOK, Dial, Register, Cut, KillClient
  <2>3. CASE KillRelay
      BY <2>3 DEF KillRelay
  <2> QED
      BY <2>1, <2>2, <2>3, LinkChanges
<1>4. \A s : MsgsIn(s) \subseteq Msg
    BY DEF MsgsIn
<1>5. lost' \subseteq Msg
  <2>0. lost \subseteq Msg
      BY <1>1 DEF NetTypeOK
  <2>1. CASE lost' = lost
      BY <2>0, <2>1
  <2>2. ASSUME NEW m \in Msg, SendLive(m) PROVE lost' \subseteq Msg
      BY <2>0, <2>2 DEF SendLive
  <2>3. ASSUME NEW m \in Msg, EnqueueStray(m) PROVE lost' \subseteq Msg
      BY <2>3, EnqueueEffect DEF EnqueueStray
  <2>4. ASSUME NEW d \in Device, EnqueueHeld(d) PROVE lost' \subseteq Msg
    <3>1. hold[d] \in Msg /\ Enqueue(hold[d])
        BY <1>1, <2>4 DEF RelayTypeOK, EnqueueHeld
    <3> QED
        BY <3>1, EnqueueEffect
  <2>5. ASSUME NEW d \in Device, FlushSend(d) PROVE lost' \subseteq Msg
    <3>1. todo[d] # <<>> /\ todo[d] \in Seq(Msg)
        BY <1>1, <2>5 DEF FlushSend, DeviceTypeOK
    <3>2. Head(todo[d]) \in Msg
        BY <3>1, HeadTailProperties
    <3> QED
        BY <2>0, <2>5, <3>2 DEF FlushSend
  <2>6. ASSUME NEW d \in Device, NEW m \in Msg, HandleMsg(d, m) PROVE lost' \subseteq Msg
      BY <2>0, <2>6 DEF HandleMsg, RefuseMsg
  <2>7. ASSUME NEW d \in Device, Register(d) \/ Cut(d) \/ KillClient(d) PROVE lost' \subseteq Msg
      BY <2>0, <2>7, <1>4 DEF Register, Cut, KillClient
  <2>8. CASE KillRelay
    <3>1. /\ stray \subseteq Msg /\ \A d \in Device : hold[d] \in Msg \cup {None}
        BY <1>1 DEF RelayTypeOK
    <3>2. ASSUME NEW k \in lost'
          PROVE  \/ k \in lost \/ k \in stray \/ \E d \in Device : k = hold[d] /\ k # None
                 \/ \E d \in Device : k \in MsgsIn(up[d]) \/ k \in MsgsIn(down[d])
        BY <2>8 DEF KillRelay
    <3> QED
        BY <2>0, <3>1, <3>2, <1>4
  <2> QED
      BY <2>1, <2>2, <2>3, <2>4, <2>5, <2>6, <2>7, <2>8, LostChanges
<1>6. faults' \in 0 .. MaxFaults
  <2>1. CASE faults' = faults
      BY <1>1, <2>1 DEF NetTypeOK
  <2>2. CASE faults < MaxFaults /\ faults' = faults + 1
      BY <1>1, <2>2, DeliveryAssumption DEF NetTypeOK
  <2> QED
      BY <2>1, <2>2, FaultsChange
<1> QED
    BY <1>2, <1>3, <1>5, <1>6 DEF NetTypeOK

LEMMA Types ==
    ASSUME TypeOK, [Next]_vars
    PROVE  TypeOK'
BY DeviceTypes, RelayTypes, NetTypes DEF TypeOK

-----------------------------------------------------------------------------
(* Acks are earned, and "delivered" is true and final.                      *)

LEMMA FrontRow ==
    ASSUME NEW S, NEW s \in Seq(S), s # <<>>
    PROVE  Head(s) \in Range(s) /\ Head(s) \in S /\ Range(Tail(s)) \subseteq Range(s)
<1> DEFINE t == Tail(s)
<1>1. /\ Head(s) \in S /\ t \in Seq(S) /\ Len(t) = Len(s) - 1 /\ Len(s) \in Nat \ {0} /\ Head(s) = s[1]
      /\ \A i \in 1 .. Len(t) : t[i] = s[i + 1]
    BY HeadTailProperties, EmptySeq
<1> HIDE DEF t
<1>2. 1 \in 1 .. Len(s) /\ \A i \in 1 .. Len(t) : i + 1 \in 1 .. Len(s)
    BY <1>1
<1>3. Head(s) \in Range(s)
    BY <1>1, <1>2, RowsOfTable
<1>4. ASSUME NEW x \in Range(t) PROVE x \in Range(s)
  <2>1. PICK i \in 1 .. Len(t) : t[i] = x
      BY <1>1, RowsOfTable
  <2> QED
      BY <2>1, <1>1, <1>2, RowsOfTable
<1> QED
    BY <1>1, <1>3, <1>4 DEF t

LEMMA NoRows == Range(<<>>) = {}
BY DEF Range

\* The row a flush has in hand is its device's own.
LEMMA InHand ==
    ASSUME TypeOK, OwnRows, NEW d \in Device, cli[d] \in {"flush", "delete", "mark"}
    PROVE  /\ Head(todo[d]) \in Msg /\ From[Head(todo[d])] = d /\ todo[d] # <<>>
           /\ Head(todo[d]) \in Range(todo[d])
<1>1. todo[d] \in Seq(Msg) /\ todo[d] # <<>>
    BY DEF TypeOK, DeviceTypeOK
<1>2. Head(todo[d]) \in Msg /\ Head(todo[d]) \in Range(todo[d])
    BY <1>1, FrontRow
<1> QED
    BY <1>1, <1>2 DEF OwnRows

\* Rows come into an outbox through SendText only,
LEMMA OutboxRows ==
    ASSUME TypeOK, [Next]_vars, NEW d \in Device, NEW m \in Msg, m \in Range(outbox'[d])
    PROVE  m \in Range(outbox[d]) \/ (EnqueueOutbox(m) /\ From[m] = d)
<1>1. DeviceTypeOK
    BY DEF TypeOK
<1>2. CASE outbox' = outbox
    BY <1>2
<1>3. ASSUME NEW k \in Msg, EnqueueOutbox(k) PROVE m \in Range(outbox[d]) \/ (EnqueueOutbox(m) /\ From[m] = d)
  <2>1. CASE From[k] = d
    <3>1. m \in Range(outbox[d]) \/ m = k
        BY <1>1, <1>3, <2>1, OutboxEnqueue
    <3> QED
        BY <1>3, <2>1, <3>1
  <2>2. CASE From[k] # d
      BY <1>1, <1>3, <2>2, OutboxEnqueue
  <2> QED
      BY <2>1, <2>2
<1>4. ASSUME NEW e \in Device, DeleteOutbox(e) \/ \E k \in Msg : HandleAck(e, k) PROVE m \in Range(outbox[d])
  <2>1. PICK k : outbox' = [outbox EXCEPT ![e] = DeleteRow(@, k)]
      BY <1>4 DEF DeleteOutbox, HandleAck
  <2>2. /\ Range(outbox'[e]) = Range(outbox[e]) \ {k}
        /\ \A c \in Device \ {e} : outbox'[c] = outbox[c]
      BY <1>1, <2>1, OutboxDelete
  <2> QED
      BY <2>2
<1> QED
    BY <1>2, <1>3, <1>4, OutboxChanges

\* and into a flush from the outbox.
LEMMA TodoRows ==
    ASSUME TypeOK, [Next]_vars, NEW d \in Device, NEW m \in Msg, m \in Range(todo'[d])
    PROVE  m \in Range(todo[d]) \/ m \in Range(outbox[d])
<1>1. DeviceTypeOK /\ todo[d] \in Seq(Msg)
    BY DEF TypeOK, DeviceTypeOK
<1>2. \/ todo'[d] = todo[d] \/ todo'[d] = <<>> \/ todo'[d] = outbox[d]
      \/ todo[d] # <<>> /\ todo'[d] = Tail(todo[d])
    BY <1>1, TodoStep
<1> QED
    BY <1>1, <1>2, NoRows, FrontRow

LEMMA OwnRowsStep ==
    ASSUME TypeOK, OwnRows, [Next]_vars
    PROVE  OwnRows'
<1>1. SUFFICES ASSUME NEW d \in Device, NEW m \in Range(outbox'[d]) \cup Range(todo'[d])
               PROVE  From[m] = d
    BY DEF OwnRows
<1>2. m \in Msg
  <2>1. outbox'[d] \in Seq(Msg) /\ todo'[d] \in Seq(Msg)
      BY Types DEF TypeOK, DeviceTypeOK
  <2> QED
      BY <2>1, RowsOfTable
<1> QED
    BY <1>1, <1>2, OutboxRows, TodoRows DEF OwnRows

LEMMA AcksStep ==
    ASSUME TypeOK, AcksAreEarned, [Next]_vars
    PROVE  AcksAreEarned'
<1>1. SUFFICES ASSUME NEW d \in Device, NEW m \in Msg
               PROVE  /\ m \in AcksIn(up'[d]) => m \in history' \cup dropped'
                      /\ m \in AcksIn(down'[d]) => m \in history' \cup dropped' /\ From[m] = d
  <2>1. \A d \in Device : AcksIn(up'[d]) \subseteq Msg /\ AcksIn(down'[d]) \subseteq Msg
      BY DEF AcksIn
  <2> QED
      BY <1>1, <2>1 DEF AcksAreEarned
<1>2. \A e \in Device : /\ AcksIn(up[e]) \subseteq history \cup dropped
                        /\ AcksIn(down[e]) \subseteq history \cup dropped
                        /\ \A k \in AcksIn(down[e]) : From[k] = e
    BY DEF AcksAreEarned
<1>3. history \subseteq history' /\ dropped \subseteq dropped'
    BY DealtWithStays
<1>4. m \in AcksIn(up'[d]) => m \in history' \cup dropped'
    BY <1>2, <1>3, UpStep
<1>5. m \in AcksIn(down'[d]) => m \in history' \cup dropped' /\ From[m] = d
    BY <1>2, <1>3, DownStep
<1> QED
    BY <1>4, <1>5

\* What may happen to the state a message's row shows.
LEMMA OutStep ==
    ASSUME TypeOK, [Next]_vars, NEW m \in Msg
    PROVE  \/ out'[m] = out[m]
           \/ InsertMessage(m) /\ out[m] = "none" /\ out'[m] \in {"sent", "queued"}
           \/ out[m] # "none" /\ out'[m] = "delivered" /\ \E d \in Device : HandleAck(d, m)
           \/ \E d \in Device : MarkSent(d) /\ m = Head(todo[d]) /\ out[m] # "none" /\ out'[m] = "sent"
<1>1. out \in [Msg -> {"none", "queued", "sent", "delivered"}]
    BY DEF TypeOK, DeviceTypeOK
<1>2. CASE out' = out
    BY <1>2
<1>3. ASSUME NEW k \in Msg, InsertMessage(k)
      PROVE  \/ out'[m] = out[m]
             \/ InsertMessage(m) /\ out[m] = "none" /\ out'[m] \in {"sent", "queued"}
  <2>1. app[k] \in {"sent", "queued"} /\ out' = [out EXCEPT ![k] = IF @ = "none" THEN app[k] ELSE @]
      BY <1>3 DEF InsertMessage
  <2> QED
      BY <1>1, <1>3, <2>1
<1>4. ASSUME NEW d \in Device, NEW k \in Msg, HandleAck(d, k)
      PROVE  \/ out'[m] = out[m]
             \/ out[m] # "none" /\ out'[m] = "delivered" /\ HandleAck(d, m)
  <2>1. out' = [out EXCEPT ![k] = IF @ = "none" THEN @ ELSE "delivered"]
      BY <1>4 DEF HandleAck, SetMessageState
  <2> QED
      BY <1>1, <1>4, <2>1
<1>5. ASSUME NEW d \in Device, MarkSent(d)
      PROVE  \/ out'[m] = out[m]
             \/ m = Head(todo[d]) /\ out[m] # "none" /\ out'[m] = "sent"
  <2>1. out' = [out EXCEPT ![Head(todo[d])] = IF @ = "none" THEN @ ELSE "sent"]
      BY <1>5 DEF MarkSent, SetMessageState
  <2> QED
      BY <1>1, <2>1
<1> QED
    BY <1>2, <1>3, <1>4, <1>5, OutChanges

\* An ack the client reads was earned by a message it composed.
LEMMA AckRead ==
    ASSUME TypeOK, AcksAreEarned, NEW d \in Device, NEW m \in Msg, HandleAck(d, m)
    PROVE  m \in history \cup dropped /\ From[m] = d /\ cli[d] \in {"handshake", "serve"} /\ todo[d] = <<>>
<1>1. NetTypeOK /\ Read(d, AckFrame(m))
    BY DEF TypeOK, HandleAck
<1>2. cli[d] \in {"handshake", "serve"} /\ m \in AcksIn(down[d])
    BY <1>1, ReadEffect
<1>3. todo[d] = <<>>
    BY <1>2 DEF TypeOK, DeviceTypeOK
<1> QED
    BY <1>2, <1>3 DEF AcksAreEarned

LEMMA DeliveredStep ==
    ASSUME TypeOK, AcksAreEarned, DeliveredIsTrue, [Next]_vars
    PROVE  DeliveredIsTrue'
<1>1. SUFFICES ASSUME NEW m \in Msg, out'[m] = "delivered"
               PROVE  m \in history' \cup dropped'
    BY DEF DeliveredIsTrue
<1>2. out[m] = "delivered" \/ \E d \in Device : HandleAck(d, m)
    BY <1>1, OutStep
<1>3. m \in history \cup dropped
    BY <1>2, AckRead DEF DeliveredIsTrue
<1> QED
    BY <1>3, DealtWithStays

LEMMA AppStep ==
    ASSUME TypeOK, [Next]_vars, NEW m \in Msg
    PROVE  /\ app[m] = "done" => app'[m] = "done"
           /\ InsertMessage(m) => app'[m] = "done"
<1>1. app \in [Msg -> {"new", "unsent", "queued", "sent", "done"}]
    BY DEF TypeOK, DeviceTypeOK
<1>2. ASSUME InsertMessage(m) PROVE app'[m] = "done"
    BY <1>1, <1>2 DEF InsertMessage
<1>3. ASSUME app[m] = "done" PROVE app'[m] = "done"
  <2>1. CASE app' = app
      BY <1>3, <2>1
  <2>2. ASSUME NEW k \in Msg, SendLive(k) \/ SendFails(k) \/ EnqueueOutbox(k) \/ InsertMessage(k)
        PROVE  app'[m] = "done"
      BY <1>1, <1>3, <2>2 DEF SendLive, SendFails, EnqueueOutbox, InsertMessage
  <2>3. ASSUME NEW d \in Device, KillClient(d) PROVE app'[m] = "done"
      BY <1>1, <1>3, <2>3 DEF KillClient
  <2> QED
      BY <2>1, <2>2, <2>3, AppChanges
<1> QED
    BY <1>2, <1>3

LEMMA NotYetStep ==
    ASSUME TypeOK, AcksAreEarned, NotYetDelivered, [Next]_vars
    PROVE  NotYetDelivered'
<1>1. SUFFICES ASSUME NEW m \in Msg
               PROVE  /\ app'[m] # "done" => out'[m] = "none"
                      /\ m \in Range(outbox'[From[m]]) \cup Range(todo'[From[m]]) => out'[m] # "delivered"
    BY DEF NotYetDelivered
<1>2. /\ app[m] # "done" => out[m] = "none"
      /\ m \in Range(outbox[From[m]]) \cup Range(todo[From[m]]) => out[m] # "delivered"
    BY DEF NotYetDelivered
<1>3. ASSUME app'[m] # "done" PROVE out'[m] = "none"
  <2>1. out[m] = "none" /\ ~ InsertMessage(m)
      BY <1>2, <1>3, AppStep
  <2> QED
      BY <2>1, OutStep
<1>4. ASSUME m \in Range(outbox'[From[m]]) \cup Range(todo'[From[m]]) PROVE out'[m] # "delivered"
  <2>0. From[m] \in Device /\ DeviceTypeOK
      BY DeliveryAssumption DEF TypeOK
  <2>1. CASE out[m] = "delivered"
    <3>1. app[m] = "done" /\ ~ EnqueueOutbox(m)
        BY <1>2, <2>1 DEF EnqueueOutbox
    <3> QED
        BY <1>2, <1>4, <2>0, <2>1, <3>1, OutboxRows, TodoRows
  <2>2. ASSUME NEW d \in Device, HandleAck(d, m) PROVE FALSE
    <3>1. From[m] = d /\ todo[d] = <<>>
        BY <2>2, AckRead
    <3>2. outbox' = [outbox EXCEPT ![d] = DeleteRow(@, m)] /\ todo' = todo
        BY <2>2 DEF HandleAck
    <3>3. Range(outbox'[d]) = Range(outbox[d]) \ {m}
        BY <2>0, <3>2, OutboxDelete
    <3> QED
        BY <1>4, <3>1, <3>2, <3>3, NoRows
  <2> QED
      BY <2>1, <2>2, OutStep
<1> QED
    BY <1>3, <1>4

-----------------------------------------------------------------------------
(* Nothing is lost on the way.                                             *)

LEMMA IdleStep ==
    ASSUME TypeOK, IdleIsEmpty, [Next]_vars
    PROVE  IdleIsEmpty'
<1>1. SUFFICES ASSUME NEW d \in Device
               PROVE  /\ cli'[d] = "off" => link'[d] = "down" /\ down'[d] = <<>>
                      /\ link'[d] = "dialed" => down'[d] = <<>>
    BY DEF IdleIsEmpty
<1>2. /\ cli \in [Device -> {"off", "handshake"} \cup Ready] /\ link \in [Device -> {"down", "dialed", "up"}]
      /\ down \in [Device -> Seq(Frame)]
    BY DEF TypeOK, DeviceTypeOK, NetTypeOK
<1>3. /\ cli[d] = "off" => link[d] = "down" /\ down[d] = <<>>
      /\ link[d] = "dialed" => down[d] = <<>>
    BY DEF IdleIsEmpty
<1>4. link[d] # "up" /\ down[d] = <<>> => down'[d] = <<>>
    BY DownStep
<1>5. link'[d] = link[d] \/ Dial(d) \/ Register(d) \/ link'[d] = "down"
  <2>1. ASSUME NEW e \in Device, Dial(e) \/ Register(e) \/ Cut(e) \/ KillClient(e)
        PROVE  link'[d] = link[d] \/ Dial(d) \/ Register(d) \/ link'[d] = "down"
      BY <1>2, <2>1 DEF Dial, Register, Cut, KillClient
  <2>2. KillRelay => link'[d] = "down"
      BY DEF KillRelay
  <2> QED
      BY <2>1, <2>2, LinkChanges
<1>6. cli'[d] = "off" => cli[d] = "off" \/ Disconnected(d) \/ KillClient(d)
  <2>1. ASSUME NEW e \in Device,
               \/ Dial(e) \/ HandleReady(e) \/ ListOutbox(e) \/ FlushSend(e) \/ FlushFails(e)
               \/ DeleteOutbox(e) \/ MarkSent(e)
        PROVE  cli'[d] = "off" => cli[d] = "off"
    <3>1. \E c : c # "off" /\ cli' = [cli EXCEPT ![e] = c]
        BY <2>1 DEF Dial, HandleReady, ListOutbox, FlushSend, FlushFails, DeleteOutbox, MarkSent
    <3> QED
        BY <1>2, <3>1
  <2>2. ASSUME NEW e \in Device, Disconnected(e) \/ KillClient(e)
        PROVE  cli'[d] = "off" => cli[d] = "off" \/ Disconnected(d) \/ KillClient(d)
    <3>1. cli' = [cli EXCEPT ![e] = "off"]
        BY <2>2 DEF Disconnected, KillClient
    <3> QED
        BY <1>2, <2>2, <3>1
  <2> QED
      BY <2>1, <2>2, CliChanges
<1>7. CASE Dial(d)
  <2>1. cli'[d] = "handshake" /\ down' = down /\ cli[d] = "off"
      BY <1>2, <1>7 DEF Dial
  <2> QED
      BY <1>3, <2>1
<1>8. CASE Register(d)
  <2>1. link[d] = "dialed" /\ link'[d] = "up" /\ cli' = cli
      BY <1>2, <1>8 DEF Register, devVars
  <2> QED
      BY <1>3, <2>1
<1>9. CASE Disconnected(d) \/ KillClient(d)
  <2>1. link'[d] = "down" /\ down'[d] = <<>>
      BY <1>2, <1>9 DEF Disconnected, KillClient, netVars
  <2> QED
      BY <2>1
<1> QED
    BY <1>3, <1>4, <1>5, <1>6, <1>7, <1>8, <1>9

\* Once a copy was taken, it is remembered.
LEMMA LostStays ==
    ASSUME TypeOK, [Next]_vars
    PROVE  lost \subseteq lost'
<1>1. ASSUME NEW m \in Msg, SendLive(m) PROVE lost \subseteq lost'
    BY <1>1 DEF SendLive
<1>2. ASSUME NEW m \in Msg, EnqueueStray(m) PROVE lost \subseteq lost'
    BY <1>2 DEF EnqueueStray, Enqueue
<1>3. ASSUME NEW d \in Device, FlushSend(d) PROVE lost \subseteq lost'
    BY <1>3 DEF FlushSend
<1>4. ASSUME NEW d \in Device, NEW m \in Msg, HandleMsg(d, m) PROVE lost \subseteq lost'
    BY <1>4 DEF HandleMsg, RefuseMsg
<1>5. ASSUME NEW d \in Device, Register(d) \/ EnqueueHeld(d) \/ Cut(d) \/ KillClient(d) PROVE lost \subseteq lost'
    BY <1>5 DEF Register, EnqueueHeld, Enqueue, Cut, KillClient
<1>6. CASE KillRelay
    BY <1>6 DEF KillRelay
<1> QED
    BY <1>1, <1>2, <1>3, <1>4, <1>5, <1>6, LostChanges

\* A message a sender put on its connection is with the relay or beyond it.
LEMMA UpLeaves ==
    ASSUME TypeOK, [Next]_vars, NEW m \in Msg, m \in MsgsIn(up[From[m]])
    PROVE  Beyond(m)'
<1> DEFINE s == From[m]
<1>0. NetTypeOK /\ s \in Device /\ To[m] \in Device /\ up \in [Device -> Seq(Frame)] /\ hold \in [Device -> Msg \cup {None}]
    BY DeliveryAssumption DEF TypeOK, NetTypeOK, RelayTypeOK
<1>1. SUFFICES m \in MsgsIn(up'[s]) \/ m \in lost' \/ m \in MsgsIn(down'[To[m]]) \/ \E d \in Device : hold'[d] = m
    BY DEF Beyond
<1> HIDE DEF s
<1>s. m \in MsgsIn(up[s])
    BY DEF s
<1>2. CASE up' = up
    BY <1>s, <1>2
<1>3. ASSUME NEW e \in Device, NEW f \in Frame, WriteUp(e, f) PROVE m \in MsgsIn(up'[s])
    BY <1>0, <1>s, <1>3, WriteUpEffect
<1>4. ASSUME NEW k \in Msg, SendLive(k) PROVE m \in MsgsIn(up'[s])
  <2>1. WriteUp(From[k], MsgFrame(k)) /\ From[k] \in Device /\ MsgFrame(k) \in Frame
      BY <1>4, DeliveryAssumption, FrameFacts DEF SendLive
  <2> QED
      BY <1>3, <2>1
<1>5. ASSUME NEW e \in Device, FlushSend(e) PROVE m \in MsgsIn(up'[s])
  <2>1. WriteUp(e, MsgFrame(Head(todo[e]))) /\ todo[e] # <<>> /\ todo[e] \in Seq(Msg)
      BY <1>5 DEF FlushSend, TypeOK, DeviceTypeOK
  <2>2. MsgFrame(Head(todo[e])) \in Frame
      BY <2>1, HeadTailProperties, FrameFacts
  <2> QED
      BY <1>3, <2>1, <2>2
<1>6. ASSUME NEW e \in Device, NEW k \in Msg, HandleIncomingMsg(e, k) PROVE m \in MsgsIn(up'[s])
  <2>1. WriteUp(e, AckFrame(k)) /\ AckFrame(k) \in Frame
      BY <1>6, FrameFacts DEF HandleIncomingMsg
  <2> QED
      BY <1>3, <2>1
<1>7. ASSUME NEW e \in Device, NEW k \in Msg, HandleMsg(e, k)
      PROVE  m \in MsgsIn(up'[s]) \/ m \in lost' \/ m \in MsgsIn(down'[To[m]]) \/ \E d \in Device : hold'[d] = m
  <2>1. Receive(e, MsgFrame(k))
      BY <1>7 DEF HandleMsg
  <2>2. m \in MsgsIn(up'[s]) \/ MsgFrame(k) = MsgFrame(m)
      BY <1>0, <1>s, <2>1, ReceiveEffect
  <2>3. CASE k = m
    <3>0. CASE m \in lost'
        BY <3>0
    <3>1. CASE m \notin lost' /\ srv[To[m]] = "none"
      <4>1. hold' = [hold EXCEPT ![e] = m]
          BY <1>7, <2>3, <3>1 DEF HandleMsg, RefuseMsg
      <4> QED
          BY <1>0, <4>1
    <3>2. CASE m \notin lost' /\ srv[To[m]] # "none"
      <4>1. /\ TrySend(To[m], MsgFrame(m)) /\ MsgFrame(m) \in Frame
            /\ lost' = IF link[To[m]] = "up" THEN lost ELSE lost \cup {m}
          BY <1>7, <2>3, <3>2, FrameFacts DEF HandleMsg, RefuseMsg
      <4>2. link[To[m]] = "up" => m \in MsgsIn(down'[To[m]])
          BY <1>0, <4>1, TrySendEffect
      <4> QED
          BY <4>1, <4>2
    <3> QED
        BY <3>0, <3>1, <3>2
  <2>4. CASE k # m
      BY <2>2, <2>4, FrameFacts
  <2> QED
      BY <2>3, <2>4
<1>8. ASSUME NEW e \in Device, NEW k \in Msg, HandleMsgAck(e, k) PROVE m \in MsgsIn(up'[s])
  <2>1. Receive(e, AckFrame(k)) /\ AckFrame(k) # MsgFrame(m)
      BY <1>8, FrameFacts DEF HandleMsgAck
  <2> QED
      BY <1>0, <1>s, <2>1, ReceiveEffect
<1>9. ASSUME NEW e \in Device, Register(e) \/ Cut(e) \/ KillClient(e) PROVE m \in MsgsIn(up'[s]) \/ m \in lost'
  <2>1. PICK u : up' = [up EXCEPT ![e] = u] /\ MsgsIn(up[e]) \ MsgsIn(u) \subseteq lost'
    <3>1. CASE Register(e)
        BY <3>1, NothingInFlight DEF Register
    <3>2. CASE Cut(e) \/ KillClient(e)
        BY <3>2 DEF Cut, KillClient
    <3> QED
        BY <1>9, <3>1, <3>2
  <2>2. CASE e = s
    <3>1. up'[s] = u
        BY <1>0, <2>1, <2>2
    <3> QED
        BY <1>s, <2>1, <2>2, <3>1
  <2>3. CASE e # s
    <3>1. up'[s] = up[s]
        BY <1>0, <2>1, <2>3
    <3> QED
        BY <1>s, <3>1
  <2> QED
      BY <2>2, <2>3
<1>10. CASE KillRelay
  <2>1. m \in lost'
      BY <1>0, <1>s, <1>10 DEF KillRelay
  <2> QED
      BY <2>1
<1> QED
    BY <1>2, <1>4, <1>5, <1>6, <1>7, <1>8, <1>9, <1>10, UpChanges

\* A message the relay has found no connection for is queued, whatever becomes
\* of the connection it came from.
LEMMA HeldLeaves ==
    ASSUME TypeOK, [Next]_vars, NEW m \in Msg, m \in stray \/ \E d \in Device : hold[d] = m
    PROVE  Beyond(m)'
<1>0. m # None /\ hold \in [Device -> Msg \cup {None}] /\ To[m] \in Device
    BY DeliveryAssumption DEF TypeOK, RelayTypeOK
<1>1. SUFFICES \/ m \in stray' \/ m \in lost' \/ m \in Range(queue'[To[m]])
               \/ \E d \in Device : hold'[d] = m
    BY DEF Beyond
<1>2. CASE UNCHANGED <<hold, stray>>
    BY <1>2
<1>3. ASSUME NEW e \in Device, Register(e) PROVE m \in stray' \/ \E d \in Device : hold'[d] = m
  <2>1. hold' = [hold EXCEPT ![e] = None] /\ stray' = stray \cup ({hold[e]} \ {None})
      BY <1>3 DEF Register
  <2> QED
      BY <1>0, <2>1
<1>4. ASSUME NEW k \in Msg, EnqueueStray(k)
      PROVE  m \in stray' \/ m \in Range(queue'[To[m]]) \/ \E d \in Device : hold'[d] = m
  <2>1. Enqueue(k) /\ stray' = stray \ {k} /\ hold' = hold
      BY <1>4 DEF EnqueueStray
  <2>2. k \in Range(queue'[To[k]])
      BY <2>1, EnqueueEffect
  <2> QED
      BY <2>1, <2>2
<1>5. ASSUME NEW e \in Device, EnqueueHeld(e)
      PROVE  m \in stray' \/ m \in Range(queue'[To[m]]) \/ \E d \in Device : hold'[d] = m
  <2>1. Enqueue(hold[e]) /\ hold[e] \in Msg /\ stray' = stray /\ hold' = [hold EXCEPT ![e] = None]
      BY <1>0, <1>5 DEF EnqueueHeld
  <2>2. hold[e] \in Range(queue'[To[hold[e]]])
      BY <2>1, EnqueueEffect
  <2>3. CASE m = hold[e]
      BY <2>2, <2>3
  <2>4. CASE m # hold[e]
      BY <1>0, <2>1, <2>4
  <2> QED
      BY <2>3, <2>4
<1>6. ASSUME NEW e \in Device, NEW k \in Msg, HandleMsg(e, k) PROVE m \in stray' \/ \E d \in Device : hold'[d] = m
  <2>1. hold[e] = None /\ stray' = stray /\ (hold' = hold \/ hold' = [hold EXCEPT ![e] = k])
      BY <1>6 DEF HandleMsg, RefuseMsg, Receive
  <2> QED
      BY <1>0, <2>1
<1>7. CASE KillRelay
  <2>1. m \in lost'
      BY <1>0, <1>7 DEF KillRelay
  <2> QED
      BY <2>1
<1> QED
    BY <1>2, <1>3, <1>4, <1>5, <1>6, <1>7, HoldChanges, StrayChanges

\* What may happen to a row of the queue.
LEMMA QueueRows ==
    ASSUME TypeOK, AcksAreEarned, [Next]_vars, NEW d \in Device, NEW m \in Range(queue[d]),
           m \notin Range(queue'[d])
    PROVE  \/ m \in history \cup dropped
           \/ /\ m \in lost' /\ Len(queue[d]) >= MaxQueuePerDevice
              /\ \E k \in Msg : To[k] = d /\ Enqueue(k)
<1>1. RelayTypeOK /\ NetTypeOK
    BY DEF TypeOK
<1>2. ASSUME NEW k \in Msg, Enqueue(k)
      PROVE  /\ m \in lost' /\ Len(queue[d]) >= MaxQueuePerDevice
             /\ \E j \in Msg : To[j] = d /\ Enqueue(j)
  <2>1. m \in lost' /\ d = To[k] /\ Len(queue[d]) >= MaxQueuePerDevice
      BY <1>2, EnqueueEffect
  <2> QED
      BY <1>2, <2>1
<1>3. ASSUME NEW k \in Msg, EnqueueStray(k) PROVE Enqueue(k)
    BY <1>3 DEF EnqueueStray
<1>4. ASSUME NEW e \in Device, EnqueueHeld(e) PROVE Enqueue(hold[e]) /\ hold[e] \in Msg
    BY <1>1, <1>4 DEF EnqueueHeld, RelayTypeOK
<1>5. ASSUME NEW e \in Device, NEW k \in Msg, HandleMsgAck(e, k) PROVE m \in history \cup dropped
  <2>1. Receive(e, AckFrame(k)) /\ queue' = [queue EXCEPT ![e] = DeleteRow(@, k)]
      BY <1>5 DEF HandleMsgAck
  <2>2. /\ Range(queue'[e]) = Range(queue[e]) \ {k}
        /\ \A c \in Device \ {e} : queue'[c] = queue[c]
      BY <1>1, <2>1, QueueDelete
  <2>3. m = k
      BY <2>2
  <2>4. k \in AcksIn(up[e])
      BY <1>1, <2>1, ReceiveEffect
  <2> QED
      BY <2>3, <2>4 DEF AcksAreEarned
<1>6. queue' # queue
    OBVIOUS
<1>7. CASE \E k \in Msg : EnqueueStray(k)
    BY <1>2, <1>3, <1>7
<1>8. CASE \E e \in Device : EnqueueHeld(e)
    BY <1>2, <1>4, <1>8
<1>9. CASE \E e \in Device, k \in Msg : HandleMsgAck(e, k)
    BY <1>5, <1>9
<1> QED
    BY <1>6, <1>7, <1>8, <1>9, QueueChanges

\* A message on the connection to its recipient is dealt with, or the network
\* takes it: a connection that replaces another finds nothing in flight.
LEMMA DownLeaves ==
    ASSUME TypeOK, IdleIsEmpty, [Next]_vars, NEW m \in Msg, m \in MsgsIn(down[To[m]])
    PROVE  Beyond(m)'
<1> DEFINE r == To[m]
           Q == m \in MsgsIn(down'[r]) \/ m \in lost' \/ m \in history' \/ m \in dropped'
<1>0. NetTypeOK /\ r \in Device /\ down \in [Device -> Seq(Frame)]
    BY DeliveryAssumption DEF TypeOK, NetTypeOK
<1>1. SUFFICES Q
    BY DEF Beyond
<1> HIDE DEF r
<1>r. m \in MsgsIn(down[r])
    BY DEF r
<1>2. CASE down' = down
    BY <1>r, <1>2
<1>3. ASSUME NEW e \in Device, NEW f \in Frame, TrySend(e, f) PROVE Q
    BY <1>0, <1>r, <1>3, TrySendEffect
<1>4. ASSUME NEW e \in Device, NEW f, Read(e, f), f # MsgFrame(m) PROVE Q
    BY <1>0, <1>r, <1>4, ReadEffect
<1>5. ASSUME NEW e \in Device, HandleReady(e) \/ HandleSnapshot(e) \/ \E k \in Msg : HandleAck(e, k) PROVE Q
  <2>1. \E f : Read(e, f) /\ f # MsgFrame(m)
      BY <1>5, FrameFacts DEF HandleReady, HandleSnapshot, HandleAck
  <2> QED
      BY <1>4, <2>1
<1>6. ASSUME NEW e \in Device, NEW k \in Msg, HandleIncomingMsg(e, k) PROVE Q
  <2>1. Read(e, MsgFrame(k)) /\ (k \in history' \/ k \in dropped')
      BY <1>6 DEF HandleIncomingMsg
  <2>2. CASE k = m
      BY <2>1, <2>2
  <2>3. CASE k # m
    <3>1. MsgFrame(k) # MsgFrame(m)
        BY <2>3, FrameFacts
    <3> QED
        BY <1>4, <2>1, <3>1
  <2> QED
      BY <2>2, <2>3
<1>7. ASSUME NEW e \in Device, Greet(e) \/ SendSnapshot(e) PROVE Q
    BY <1>3, <1>7, GreetingFrames DEF Greet, SendSnapshot
<1>8. ASSUME NEW e \in Device, Drain(e) PROVE Q
    BY <1>0, <1>r, <1>8, DrainEffect
<1>9. ASSUME NEW e \in Device, NEW k \in Msg, HandleMsg(e, k) \/ HandleMsgAck(e, k) PROVE Q
  <2>1. \/ down' = down \/ TrySend(To[k], MsgFrame(k)) \/ TrySend(From[k], AckFrame(k))
      BY <1>9 DEF HandleMsg, RefuseMsg, HandleMsgAck
  <2>2. MsgFrame(k) \in Frame /\ AckFrame(k) \in Frame /\ To[k] \in Device /\ From[k] \in Device
      BY FrameFacts, DeliveryAssumption
  <2> QED
      BY <1>r, <1>3, <2>1, <2>2
<1>10. ASSUME NEW e \in Device, Register(e) \/ Cut(e) \/ KillClient(e) PROVE Q
  <2>1. PICK w : down' = [down EXCEPT ![e] = w] /\ MsgsIn(down[e]) \ MsgsIn(w) \subseteq lost'
    <3>1. CASE Register(e)
      <4>1. down' = [down EXCEPT ![e] = <<>>] /\ link[e] = "dialed"
          BY <3>1 DEF Register
      <4>2. down[e] = <<>>
          BY <4>1 DEF IdleIsEmpty
      <4>3. MsgsIn(down[e]) \ MsgsIn(<<>>) \subseteq lost'
          BY <4>2, NothingInFlight
      <4> QED
          BY <4>1, <4>3
    <3>2. CASE Cut(e)
        BY <3>2 DEF Cut
    <3>3. CASE KillClient(e)
      <4>1. down' = [down EXCEPT ![e] = <<>>] /\ MsgsIn(down[e]) \subseteq lost'
          BY <3>3 DEF KillClient
      <4> QED
          BY <4>1
    <3> QED
        BY <1>10, <3>1, <3>2, <3>3
  <2>2. CASE e = r
    <3>1. down'[r] = w
        BY <1>0, <2>1, <2>2
    <3> QED
        BY <1>r, <2>1, <2>2, <3>1
  <2>3. CASE e # r
    <3>1. down'[r] = down[r]
        BY <1>0, <2>1, <2>3
    <3> QED
        BY <1>r, <3>1
  <2> QED
      BY <2>2, <2>3
<1>11. ASSUME KillRelay PROVE Q
  <2>1. PICK kept \in SUBSET Device :
          /\ down' = [d \in Device |-> IF d \in kept THEN down[d] ELSE <<>>]
          /\ UNION {MsgsIn(down[d]) : d \in Device \ kept} \subseteq lost'
      BY <1>11 DEF KillRelay
  <2>2. r \notin kept => m \in lost'
      BY <1>0, <1>r, <2>1
  <2> QED
      BY <1>0, <1>r, <2>1, <2>2
<1> HIDE DEF Q
<1>12. CASE \E e \in Device :
               \/ HandleReady(e) \/ HandleSnapshot(e) \/ Register(e) \/ Greet(e) \/ SendSnapshot(e)
               \/ Drain(e) \/ Cut(e) \/ KillClient(e)
    BY <1>12, <1>5, <1>7, <1>8, <1>10
<1>13. CASE \E e \in Device, k \in Msg :
               HandleIncomingMsg(e, k) \/ HandleAck(e, k) \/ HandleMsg(e, k) \/ HandleMsgAck(e, k)
    BY <1>13, <1>5, <1>6, <1>9
<1>14. CASE KillRelay
    BY <1>14, <1>11
<1> QED
    BY <1>2, <1>12, <1>13, <1>14, DownChanges

\* A message that is beyond its sender stays so.
LEMMA BeyondStep ==
    ASSUME TypeOK, AcksAreEarned, IdleIsEmpty, [Next]_vars, NEW m \in Msg, Beyond(m)
    PROVE  Beyond(m)'
<1>0. To[m] \in Device
    BY DeliveryAssumption
<1>1. CASE m \in history \/ m \in dropped
    BY <1>1, DealtWithStays DEF Beyond
<1>2. CASE m \in lost
    BY <1>2, LostStays DEF Beyond
<1>3. CASE m \in MsgsIn(up[From[m]])
    BY <1>3, UpLeaves
<1>4. CASE m \in stray \/ \E d \in Device : hold[d] = m
    BY <1>4, HeldLeaves
<1>5. CASE m \in Range(queue[To[m]])
  <2>1. m \in Range(queue'[To[m]]) \/ m \in history \cup dropped \/ m \in lost'
      BY <1>0, <1>5, QueueRows
  <2>2. m \in Range(queue'[To[m]]) \/ m \in history' \/ m \in dropped' \/ m \in lost'
      BY <2>1, DealtWithStays
  <2> QED
      BY <2>2 DEF Beyond
<1>6. CASE m \in MsgsIn(down[To[m]])
    BY <1>6, DownLeaves
<1> QED
    BY <1>1, <1>2, <1>3, <1>4, <1>5, <1>6 DEF Beyond

\* A row is deleted by the flush when the frame was written, or the write was
\* swallowed by a connection that is down.
LEMMA DeletedStep ==
    ASSUME TypeOK, AcksAreEarned, OwnRows, IdleIsEmpty, DeletedIsBeyond, [Next]_vars
    PROVE  DeletedIsBeyond'
<1>0. /\ DeviceTypeOK /\ NetTypeOK /\ cli \in [Device -> {"off", "handshake"} \cup Ready]
      /\ todo \in [Device -> Seq(Msg)] /\ link \in [Device -> {"down", "dialed", "up"}]
    BY DEF TypeOK, DeviceTypeOK, NetTypeOK
<1>1. SUFFICES ASSUME NEW d \in Device, cli'[d] = "delete"
               PROVE  \E m \in Msg : Head(todo'[d]) = m /\ Beyond(m)'
    BY DEF DeletedIsBeyond, Beyond
<1>2. cli[d] = "delete" \/ FlushSend(d)
  <2>1. ASSUME NEW e \in Device,
               \/ Dial(e) \/ HandleReady(e) \/ ListOutbox(e) \/ FlushFails(e) \/ DeleteOutbox(e)
               \/ MarkSent(e) \/ Disconnected(e) \/ KillClient(e)
        PROVE  cli[d] = "delete"
    <3>1. \E c : c # "delete" /\ cli' = [cli EXCEPT ![e] = c]
        BY <2>1 DEF Dial, HandleReady, ListOutbox, FlushFails, DeleteOutbox, MarkSent, Disconnected, KillClient
    <3> QED
        BY <1>0, <1>1, <3>1
  <2>2. ASSUME NEW e \in Device, FlushSend(e) PROVE cli[d] = "delete" \/ FlushSend(d)
    <3>1. cli' = [cli EXCEPT ![e] = "delete"]
        BY <2>2 DEF FlushSend
    <3> QED
        BY <1>0, <1>1, <2>2, <3>1
  <2> QED
      BY <1>1, <2>1, <2>2, CliChanges
<1>3. PICK m \in Msg : m = Head(todo[d]) /\ todo'[d] = todo[d] /\ From[m] = d
  <2>1. cli[d] \in {"flush", "delete", "mark"} /\ cli[d] # "list" /\ cli[d] # "mark"
      BY <1>2 DEF FlushSend
  <2>2. Head(todo[d]) \in Msg /\ From[Head(todo[d])] = d
      BY <2>1, InHand
  <2>3. todo'[d] # <<>>
      BY <1>0, <1>1, FlushStep
  <2>4. ~ ListOutbox(d) /\ ~ MarkSent(d)
      BY <2>1 DEF ListOutbox, MarkSent
  <2> QED
      BY <1>0, <2>2, <2>3, <2>4, TodoStep
<1>4. Beyond(m)'
  <2>1. CASE cli[d] = "delete"
    <3>1. Beyond(m)
        BY <1>3, <2>1 DEF DeletedIsBeyond
    <3> QED
        BY <1>3, <3>1, BeyondStep
  <2>2. CASE FlushSend(d)
    <3>1. /\ WriteUp(d, MsgFrame(m)) /\ MsgFrame(m) \in Frame
          /\ lost' = IF link[d] = "up" THEN lost ELSE lost \cup {m}
        BY <1>3, <2>2, FrameFacts DEF FlushSend
    <3>2. link[d] = "up" => m \in MsgsIn(up'[d])
        BY <1>0, <1>3, <3>1, WriteUpEffect
    <3>3. m \in MsgsIn(up'[From[m]]) \/ m \in lost'
        BY <1>3, <3>1, <3>2
    <3> QED
        BY <3>3 DEF Beyond
  <2> QED
      BY <1>2, <2>1, <2>2
<1> QED
    BY <1>3, <1>4

LEMMA AccountedStep ==
    ASSUME TypeOK, AcksAreEarned, OwnRows, IdleIsEmpty, DeletedIsBeyond, Accounted, [Next]_vars
    PROVE  Accounted'
<1>0. DeviceTypeOK /\ NetTypeOK /\ app \in [Msg -> {"new", "unsent", "queued", "sent", "done"}]
    BY DEF TypeOK, DeviceTypeOK
<1>1. SUFFICES ASSUME NEW m \in Msg
               PROVE  app'[m] \in {"new", "unsent"} \/ m \in Range(outbox'[From[m]]) \/ Beyond(m)'
    BY DEF Accounted
<1>2. From[m] \in Device
    BY DeliveryAssumption
<1>3. CASE Beyond(m)
    BY <1>3, BeyondStep
<1>4. CASE m \in Range(outbox[From[m]]) /\ m \notin Range(outbox'[From[m]])
  <2> DEFINE s == From[m]
  <2>1. ASSUME NEW k \in Msg, EnqueueOutbox(k) PROVE FALSE
      BY <1>0, <1>2, <1>4, <2>1, OutboxEnqueue
  <2>2. ASSUME NEW e \in Device, NEW k, outbox' = [outbox EXCEPT ![e] = DeleteRow(@, k)]
        PROVE  e = s /\ k = m
    <3>1. /\ Range(outbox'[e]) = Range(outbox[e]) \ {k}
          /\ \A c \in Device \ {e} : outbox'[c] = outbox[c]
        BY <1>0, <2>2, OutboxDelete
    <3> QED
        BY <1>2, <1>4, <3>1
  <2>3. ASSUME NEW e \in Device, DeleteOutbox(e) PROVE Beyond(m)
    <3>1. cli[e] = "delete" /\ outbox' = [outbox EXCEPT ![e] = DeleteRow(@, Head(todo[e]))]
        BY <2>3 DEF DeleteOutbox
    <3>2. Head(todo[e]) = m
        BY <2>2, <3>1
    <3> QED
        BY <3>1, <3>2 DEF DeletedIsBeyond
  <2>4. ASSUME NEW e \in Device, NEW k \in Msg, HandleAck(e, k) PROVE Beyond(m)
    <3>1. outbox' = [outbox EXCEPT ![e] = DeleteRow(@, k)] /\ k \in history \cup dropped
        BY <2>4, AckRead DEF HandleAck
    <3>2. k = m
        BY <2>2, <3>1
    <3> QED
        BY <3>1, <3>2 DEF Beyond
  <2>5. Beyond(m)
      BY <1>4, <2>1, <2>3, <2>4, OutboxChanges
  <2> QED
      BY <2>5, BeyondStep
<1>5. CASE app[m] \in {"new", "unsent"} /\ app'[m] \notin {"new", "unsent"}
  <2>1. ASSUME NEW k \in Msg, SendLive(k) PROVE Beyond(m)'
    <3>1. app' = [app EXCEPT ![k] = "sent"]
        BY <2>1 DEF SendLive
    <3>2. k = m
        BY <1>0, <1>5, <3>1
    <3>3. /\ WriteUp(From[m], MsgFrame(m)) /\ MsgFrame(m) \in Frame
          /\ lost' = IF link[From[m]] = "up" THEN lost ELSE lost \cup {m}
        BY <2>1, <3>2, FrameFacts DEF SendLive
    <3>4. link[From[m]] = "up" => m \in MsgsIn(up'[From[m]])
        BY <1>0, <1>2, <3>3, WriteUpEffect
    <3>5. m \in MsgsIn(up'[From[m]]) \/ m \in lost'
        BY <3>3, <3>4
    <3> QED
        BY <3>5 DEF Beyond
  <2>2. ASSUME NEW k \in Msg, SendFails(k) \/ InsertMessage(k) PROVE FALSE
      BY <1>0, <1>5, <2>2 DEF SendFails, InsertMessage
  <2>3. ASSUME NEW k \in Msg, EnqueueOutbox(k) PROVE m \in Range(outbox'[From[m]])
    <3>1. app' = [app EXCEPT ![k] = "queued"]
        BY <2>3 DEF EnqueueOutbox
    <3>2. k = m
        BY <1>0, <1>5, <3>1
    <3>3. Range(outbox'[From[k]]) = Range(outbox[From[k]]) \cup {k}
        BY <1>0, <2>3, OutboxEnqueue
    <3> QED
        BY <3>2, <3>3
  <2>4. ASSUME NEW d \in Device, KillClient(d) PROVE Beyond(m)'
    <3>1. app' = [k \in Msg |-> IF From[k] = d /\ app[k] # "new" THEN "done" ELSE app[k]]
        BY <2>4 DEF KillClient
    <3>2. From[m] = d /\ app[m] = "unsent"
        BY <1>5, <3>1
    <3>3. {k \in Msg : From[k] = d /\ app[k] = "unsent"} \subseteq lost'
        BY <2>4 DEF KillClient
    <3>4. m \in lost'
        BY <3>2, <3>3
    <3> QED
        BY <3>4 DEF Beyond
  <2>5. app' # app
      BY <1>5
  <2> QED
      BY <2>1, <2>2, <2>3, <2>4, <2>5, AppChanges
<1>6. app[m] \in {"new", "unsent"} \/ m \in Range(outbox[From[m]]) \/ Beyond(m)
    BY DEF Accounted
<1> QED
    BY <1>3, <1>4, <1>5, <1>6

-----------------------------------------------------------------------------
LEMMA InitInv ==
    ASSUME Init
    PROVE  DeliveryInv
<1>1. <<>> \in Seq(Msg) /\ <<>> \in Seq(Frame) /\ IsInjective(<<>>) /\ Range(<<>>) = {}
    BY EmptySeq, NoRows DEF IsInjective
<1>2. DeviceTypeOK
    BY <1>1 DEF Init, DeviceTypeOK, Ready
<1>3. RelayTypeOK
    BY <1>1 DEF Init, RelayTypeOK
<1>4. NetTypeOK
    BY <1>1, DeliveryAssumption DEF Init, NetTypeOK
<1>5. AcksAreEarned
    BY NothingInFlight DEF Init, AcksAreEarned
<1>6. DeliveredIsTrue
    BY DEF Init, DeliveredIsTrue
<1>7. OwnRows
    BY <1>1 DEF Init, OwnRows
<1>8. NotYetDelivered
    BY <1>1 DEF Init, NotYetDelivered
<1>9. IdleIsEmpty
    BY DEF Init, IdleIsEmpty
<1>10. DeletedIsBeyond
    BY DEF Init, DeletedIsBeyond
<1>11. Accounted
    BY DEF Init, Accounted
<1> QED
    BY <1>2, <1>3, <1>4, <1>5, <1>6, <1>7, <1>8, <1>9, <1>10, <1>11 DEF DeliveryInv, TypeOK

LEMMA NextInv ==
    ASSUME DeliveryInv, [Next]_vars
    PROVE  DeliveryInv'
<1>1. /\ TypeOK /\ AcksAreEarned /\ DeliveredIsTrue
      /\ OwnRows /\ NotYetDelivered /\ IdleIsEmpty /\ DeletedIsBeyond /\ Accounted
    BY DEF DeliveryInv
<1>2. TypeOK'
    BY <1>1, Types
<1>3. AcksAreEarned' /\ DeliveredIsTrue'
    BY <1>1, AcksStep, DeliveredStep
<1>4. OwnRows' /\ NotYetDelivered'
    BY <1>1, OwnRowsStep, NotYetStep
<1>5. IdleIsEmpty' /\ DeletedIsBeyond' /\ Accounted'
    BY <1>1, IdleStep, DeletedStep, AccountedStep
<1> QED
    BY <1>2, <1>3, <1>4, <1>5 DEF DeliveryInv

LEMMA Invariance == Spec => []DeliveryInv
BY InitInv, NextInv, PTL DEF Spec

\* HistoryIsTrue: the state is well formed, "delivered" is shown only for what
\* the recipient has stored or discarded (handleAck, msgAckHandler), and every
\* ack under way was earned by its message.
THEOREM HistoryTrue == Spec => []HistoryIsTrue
<1>1. DeliveryInv => HistoryIsTrue
    BY DEF DeliveryInv, HistoryIsTrue
<1> QED
    BY <1>1, Invariance, PTL

\* NoSilentLoss: from SendText to the recipient's history, a message is always
\* somewhere, unless the network, a kill or the queue's cap took a copy or the
\* relay refused one.
THEOREM NothingIsLost == Spec => []NoSilentLoss
<1>1. DeliveryInv => NoSilentLoss
    BY DEF DeliveryInv, Accounted, NoSilentLoss, Underway, Beyond
<1> QED
    BY <1>1, Invariance, PTL

\* DeliveredIsFinal: neither the flush, which marks rows it read long before,
\* nor SendText's late insert takes "delivered" back.
THEOREM DeliveredStays == Spec => DeliveredIsFinal
<1>1. ASSUME DeliveryInv, [Next]_vars
      PROVE  [\A m \in Msg : out[m] = "delivered" => out'[m] = "delivered"]_vars
  <2>1. SUFFICES ASSUME NEW m \in Msg, out[m] = "delivered" PROVE out'[m] = "delivered"
      OBVIOUS
  <2>2. TypeOK /\ OwnRows /\ NotYetDelivered
      BY <1>1 DEF DeliveryInv
  <2>3. ASSUME NEW d \in Device, MarkSent(d), m = Head(todo[d]) PROVE FALSE
    <3>1. cli[d] \in {"flush", "delete", "mark"}
        BY <2>3 DEF MarkSent
    <3>2. From[m] = d /\ m \in Range(todo[d])
        BY <2>2, <2>3, <3>1, InHand
    <3> QED
        BY <2>1, <2>2, <3>2 DEF NotYetDelivered
  <2> QED
      BY <1>1, <2>1, <2>2, <2>3, OutStep
<1> QED
    BY <1>1, Invariance, PTL DEF Spec, DeliveredIsFinal

\* QueueKeepsUntilDealtWith: a row of the relay's queue goes when its recipient
\* has dealt with the message, or when newer ones fill the queue (enqueue).
THEOREM QueueKeeps == Spec => QueueKeepsUntilDealtWith
<1> DEFINE Kept == \A m \in Msg :
                     (m \in Range(queue[To[m]]) /\ m \notin Range(queue'[To[m]]))
                        => \/ m \in history \cup dropped
                           \/ /\ Len(queue[To[m]]) >= MaxQueuePerDevice
                              /\ \E k \in Msg : To[k] = To[m] /\ Enqueue(k)
<1>1. ASSUME DeliveryInv, [Next]_vars PROVE [Kept]_vars
  <2>1. SUFFICES ASSUME NEW m \in Msg, m \in Range(queue[To[m]]), m \notin Range(queue'[To[m]])
                 PROVE  \/ m \in history \cup dropped
                        \/ /\ Len(queue[To[m]]) >= MaxQueuePerDevice
                           /\ \E k \in Msg : To[k] = To[m] /\ Enqueue(k)
      OBVIOUS
  <2>2. To[m] \in Device /\ TypeOK /\ AcksAreEarned
      BY <1>1, DeliveryAssumption DEF DeliveryInv
  <2> QED
      BY <1>1, <2>1, <2>2, QueueRows
<1> QED
    BY <1>1, Invariance, PTL DEF Spec, QueueKeepsUntilDealtWith
=============================================================================
