---------------------------- MODULE TunnelProofs ----------------------------
(***************************************************************************)
(* StreamsInStep holds of Tunnel for any number of public connections and  *)
(* of faults.  It is inductive as it stands; the proof takes its parts one *)
(* at a time, and for each the steps that change what it is about.         *)
(*                                                                         *)
(* The second half is about the connections the tunnel hands to its        *)
(* server: bufferedConn is a byte stream, for every buffer size, channel   *)
(* capacity and number of bytes.                                           *)
(***************************************************************************)
EXTENDS Tunnel, BufferedConn, SequenceTheorems, TLAPS

LEMMA SessionType == Session \subseteq Nat /\ \A s \in Session : s > 0
BY TunnelAssumption DEF Session

\* A write of handlePublic goes to the session it read from the link.
LEMMA WriterHasSession ==
    ASSUME HubTypeOK, NEW p \in Public, pub[p] \in {"open", "header", "body", "pump"}
    PROVE  plink[p] \in Session /\ plink[p] # None
BY DEF HubTypeOK

(* Frames on a control stream.                                             *)

Half == {"header", "body"} \X Public

\* A length may be written after whole frames,
LEMMA AppendHeader ==
    ASSUME NEW c \in Seq(Half), WholeFrames(c), NEW n \in Nat, Len(c) = 2 * n, NEW p \in Public
    PROVE  WholeFrames(Append(c, <<"header", p>>))
<1> DEFINE h == <<"header", p>>
           d == Append(c, h)
<1>1. h \in Half /\ h[1] = "header"
    BY DEF Half
<1>2. d \in Seq(Half) /\ Len(d) = 2 * n + 1 /\ d[2 * n + 1] = h /\ \A i \in 1 .. 2 * n : d[i] = c[i]
    BY <1>1, AppendProperties
<1> HIDE DEF h, d
<1> SUFFICES ASSUME NEW k \in 0 .. Len(d)
             PROVE  /\ 2 * k + 1 <= Len(d) => d[2 * k + 1][1] = "header"
                    /\ 2 * k + 2 <= Len(d) => d[2 * k + 2] = <<"body", d[2 * k + 1][2]>>
    BY DEF WholeFrames, d, h
<1>3. CASE k = n
    BY <1>1, <1>2, <1>3
<1>4. CASE k < n
  <2>1. k \in 0 .. Len(c) /\ 2 * k + 1 \in 1 .. 2 * n /\ 2 * k + 2 \in 1 .. 2 * n
      BY <1>4
  <2>2. 2 * k + 1 <= Len(c) /\ 2 * k + 2 <= Len(c)
      BY <2>1
  <2>3. c[2 * k + 1][1] = "header" /\ c[2 * k + 2] = <<"body", c[2 * k + 1][2]>>
      BY <2>1, <2>2 DEF WholeFrames
  <2> QED
      BY <2>1, <2>3, <1>2
<1>5. CASE k > n
  <2>1. ~ (2 * k + 1 <= Len(d)) /\ ~ (2 * k + 2 <= Len(d))
      BY <1>2, <1>5
  <2> QED
      BY <2>1
<1> QED
    BY <1>3, <1>4, <1>5, <1>2

\* a body after its length,
LEMMA AppendBody ==
    ASSUME NEW c \in Seq(Half), WholeFrames(c), NEW n \in Nat, Len(c) = 2 * n + 1, NEW p \in Public,
           c[Len(c)] = <<"header", p>>
    PROVE  WholeFrames(Append(c, <<"body", p>>))
<1> DEFINE b == <<"body", p>>
           d == Append(c, b)
<1>1. b \in Half
    BY DEF Half
<1>2. /\ d \in Seq(Half) /\ Len(d) = 2 * n + 2 /\ d[2 * n + 2] = b
      /\ \A i \in 1 .. (2 * n + 1) : d[i] = c[i]
    BY <1>1, AppendProperties
<1>3. d[2 * n + 1] = <<"header", p>> /\ d[2 * n + 1][1] = "header" /\ d[2 * n + 1][2] = p
    BY <1>2
<1> HIDE DEF d
<1> SUFFICES ASSUME NEW k \in 0 .. Len(d)
             PROVE  /\ 2 * k + 1 <= Len(d) => d[2 * k + 1][1] = "header"
                    /\ 2 * k + 2 <= Len(d) => d[2 * k + 2] = <<"body", d[2 * k + 1][2]>>
    BY DEF WholeFrames, d
<1>4. CASE k = n
    BY <1>2, <1>3, <1>4
<1>5. CASE k < n
  <2>1. k \in 0 .. Len(c) /\ 2 * k + 1 \in 1 .. (2 * n + 1) /\ 2 * k + 2 \in 1 .. (2 * n + 1)
      BY <1>5
  <2>2. 2 * k + 1 <= Len(c) /\ 2 * k + 2 <= Len(c)
      BY <2>1
  <2>3. c[2 * k + 1][1] = "header" /\ c[2 * k + 2] = <<"body", c[2 * k + 1][2]>>
      BY <2>1, <2>2 DEF WholeFrames
  <2> QED
      BY <2>1, <2>3, <1>2
<1>6. CASE k > n
  <2>1. ~ (2 * k + 1 <= Len(d)) /\ ~ (2 * k + 2 <= Len(d))
      BY <1>2, <1>6
  <2> QED
      BY <2>1
<1> QED
    BY <1>4, <1>5, <1>6, <1>2

\* and a frame may be read.
LEMMA DropFrame ==
    ASSUME NEW c \in Seq(Half), WholeFrames(c), Len(c) >= 2
    PROVE  /\ WholeFrames(SubSeq(c, 3, Len(c))) /\ Len(SubSeq(c, 3, Len(c))) = Len(c) - 2
           /\ \A i \in 1 .. (Len(c) - 2) : SubSeq(c, 3, Len(c))[i] = c[i + 2]
<1> DEFINE d == SubSeq(c, 3, Len(c))
<1>0. Len(c) \in Nat
    OBVIOUS
<1>1. Len(d) = Len(c) - 2 /\ \A i \in 1 .. (Len(c) - 2) : d[i] = c[i + 2]
  <2>1. Len(d) = Len(c) - 2
    <3>1. CASE Len(c) >= 3
        BY <3>1
    <3>2. CASE Len(c) = 2
      <4>1. Len(d) = 0
          BY <3>2
      <4> QED
          BY <3>2, <4>1
    <3> QED
        BY <1>0, <3>1, <3>2
  <2>2. ASSUME NEW i \in 1 .. (Len(c) - 2) PROVE d[i] = c[i + 2]
    <3>1. 3 + i - 1 = i + 2
        OBVIOUS
    <3> QED
        BY <1>0, <3>1
  <2> QED
      BY <2>1, <2>2
<1> HIDE DEF d
<1>2. SUFFICES ASSUME NEW k \in 0 .. Len(d)
               PROVE  /\ 2 * k + 1 <= Len(d) => d[2 * k + 1][1] = "header"
                      /\ 2 * k + 2 <= Len(d) => d[2 * k + 2] = <<"body", d[2 * k + 1][2]>>
    BY <1>1 DEF WholeFrames, d
<1>3. 2 * (k + 1) + 1 = 2 * k + 1 + 2 /\ 2 * (k + 1) + 2 = 2 * k + 2 + 2
    BY <1>0, <1>1
<1>4. ASSUME 2 * k + 1 <= Len(d) PROVE d[2 * k + 1][1] = "header" /\ d[2 * k + 1] = c[2 * (k + 1) + 1]
  <2>1. /\ 2 * k + 1 \in 1 .. (Len(c) - 2) /\ k + 1 \in 0 .. Len(c) /\ 2 * (k + 1) + 1 <= Len(c)
      BY <1>0, <1>1, <1>3, <1>4
  <2> QED
      BY <2>1, <1>1, <1>3 DEF WholeFrames
<1>5. ASSUME 2 * k + 2 <= Len(d) PROVE d[2 * k + 2] = <<"body", d[2 * k + 1][2]>>
  <2>1. /\ 2 * k + 2 \in 1 .. (Len(c) - 2) /\ k + 1 \in 0 .. Len(c) /\ 2 * (k + 1) + 2 <= Len(c)
        /\ 2 * k + 1 <= Len(d)
      BY <1>0, <1>1, <1>3, <1>5
  <2>2. c[2 * (k + 1) + 2] = <<"body", c[2 * (k + 1) + 1][2]>>
      BY <2>1 DEF WholeFrames
  <2> QED
      BY <2>1, <2>2, <1>1, <1>3, <1>4
<1> QED
    BY <1>4, <1>5

LEMMA HubTypeOKKept ==
    ASSUME StreamsInStep, [Next]_vars
    PROVE  HubTypeOK'
<1> USE TunnelAssumption 
    DEF StreamsInStep, TypeOK, Session, hubVars, pubVars, wireVars, relayVars, listenVars, historyVars
<1>1. CASE Dial
    BY <1>1 DEF HubTypeOK, RelayTypeOK, Dial
<1>2. ASSUME NEW s \in Session, Challenge(s) PROVE HubTypeOK'
    BY <1>2 DEF HubTypeOK, RelayTypeOK, Challenge
<1>3. ASSUME NEW s \in Session, CheckResponse(s) PROVE HubTypeOK'
    BY <1>3 DEF HubTypeOK, RelayTypeOK, CheckResponse
<1>4. ASSUME NEW s \in Session, HandshakeFails(s) PROVE HubTypeOK'
    BY <1>4 DEF HubTypeOK, RelayTypeOK, HandshakeFails, Fault
<1>5. ASSUME NEW s \in Session, OpenControl(s) PROVE HubTypeOK'
    BY <1>5 DEF HubTypeOK, RelayTypeOK, OpenControl
<1>6. ASSUME NEW s \in Session, Link(s) PROVE HubTypeOK'
    BY <1>6 DEF HubTypeOK, RelayTypeOK, Link
<1>7. ASSUME NEW s \in Session, CloseOld(s) PROVE HubTypeOK'
    BY <1>7 DEF HubTypeOK, RelayTypeOK, CloseOld
<1>8. ASSUME NEW s \in Session, HubNotices(s) PROVE HubTypeOK'
    BY <1>8 DEF HubTypeOK, RelayTypeOK, HubNotices
<1>9. ASSUME NEW p \in Public, RefusePublic(p) PROVE HubTypeOK'
    BY <1>9 DEF HubTypeOK, RelayTypeOK, RefusePublic
<1>10. ASSUME NEW p \in Public, ReadLink(p) PROVE HubTypeOK'
    BY <1>10 DEF HubTypeOK, RelayTypeOK, ReadLink
<1>11. ASSUME NEW p \in Public, OpenStream(p) PROVE HubTypeOK'
    BY <1>11 DEF HubTypeOK, RelayTypeOK, OpenStream
<1>12. ASSUME NEW p \in Public, WriteHeader(p) PROVE HubTypeOK'
    BY <1>12 DEF HubTypeOK, RelayTypeOK, WriteHeader
<1>13. ASSUME NEW p \in Public, WriteBody(p) PROVE HubTypeOK'
  <2>1. plink[p] \in Session /\ ctrlMu' = [ctrlMu EXCEPT ![plink[p]] = None]
      BY <1>13, WriterHasSession DEF WriteBody
  <2>2. ctrlMu' \in [Session -> Public \union {None}]
      BY <2>1 DEF HubTypeOK
  <2>3. pub' = [pub EXCEPT ![p] = "pump"] \/ pub' = [pub EXCEPT ![p] = "closed"]
      BY <1>13 DEF WriteBody
  <2> QED
      BY <1>13, <2>2, <2>3 DEF HubTypeOK, WriteBody
<1>14. ASSUME NEW p \in Public, WriteFails(p) PROVE HubTypeOK'
    BY <1>14 DEF HubTypeOK, RelayTypeOK, WriteFails, Fault
<1>15. ASSUME NEW p \in Public, PumpEnds(p) PROVE HubTypeOK'
    BY <1>15 DEF HubTypeOK, RelayTypeOK, PumpEnds
<1>16. ASSUME NEW p \in Public, ClientLeaves(p) PROVE HubTypeOK'
    BY <1>16 DEF HubTypeOK, RelayTypeOK, ClientLeaves
<1>17. CASE \/ UNCHANGED vars
           \/ DialFails \/ Respond \/ ReadResult \/ HandshakeLost \/ ServeEnds \/ Backoff
              \/ AcceptControl \/ ReadControl \/ AcceptStream \/ Accept \/ PreambleTimeout
           \/ \E s \in Session :
                   Cut(s) \/ RelayNotices(s)
           \/ \E p \in Public :
                   StreamEnds(p)
    BY <1>17 DEF HubTypeOK, vars, DialFails, Respond, ReadResult, HandshakeLost, ServeEnds,
       Backoff, AcceptControl, ReadControl, AcceptStream, Accept, PreambleTimeout, Cut,
       RelayNotices, StreamEnds
<1> QED
    BY <1>1, <1>2, <1>3, <1>4, <1>5, <1>6, <1>7, <1>8, <1>9, <1>10, <1>11, <1>12, <1>13,
       <1>14, <1>15, <1>16, <1>17
    DEF Next, Relay, Backend, Detect, HandlePublic, Listen

LEMMA RelayTypeOKKept ==
    ASSUME StreamsInStep, [Next]_vars
    PROVE  RelayTypeOK'
<1> USE TunnelAssumption 
    DEF StreamsInStep, TypeOK, Session, hubVars, pubVars, wireVars, relayVars, listenVars, historyVars
<1>1. CASE Dial
    BY <1>1 DEF RelayTypeOK, Dial
<1>2. CASE DialFails
    BY <1>2 DEF RelayTypeOK, DialFails, Fault
<1>3. CASE Respond
    BY <1>3 DEF RelayTypeOK, Respond
<1>4. CASE ReadResult
    BY <1>4 DEF RelayTypeOK, ReadResult
<1>5. CASE HandshakeLost
    BY <1>5 DEF RelayTypeOK, HandshakeLost
<1>6. CASE ServeEnds
    BY <1>6 DEF RelayTypeOK, ServeEnds
<1>7. CASE Backoff
    BY <1>7 DEF RelayTypeOK, Backoff
<1>8. CASE AcceptControl
    BY <1>8 DEF RelayTypeOK, AcceptControl
<1>9. CASE ReadControl
    BY <1>9 DEF RelayTypeOK, ReadControl, Announce
<1>10. CASE AcceptStream
  <2>1. streams[sess] \in Seq(Public) /\ streams[sess] # <<>>
      BY <1>10 DEF AcceptStream, ControlComesFirst
  <2>2. waiting' \in Public
      BY <1>10, <2>1, HeadTailProperties DEF AcceptStream
  <2> QED
      BY <1>10, <2>2 DEF RelayTypeOK, AcceptStream
<1>11. CASE Accept
    BY <1>11 DEF RelayTypeOK, Accept
<1>12. CASE PreambleTimeout
    BY <1>12 DEF RelayTypeOK, PreambleTimeout
<1>13. ASSUME NEW s \in Session, RelayNotices(s) PROVE RelayTypeOK'
    BY <1>13 DEF RelayTypeOK, RelayNotices
<1>14. ASSUME NEW p \in Public, StreamEnds(p) PROVE RelayTypeOK'
    BY <1>14 DEF RelayTypeOK, StreamEnds
<1>15. CASE \/ UNCHANGED vars
           \/ \E s \in Session :
                   Challenge(s) \/ CheckResponse(s) \/ HandshakeFails(s) \/ OpenControl(s)
                \/ Link(s) \/ CloseOld(s) \/ Cut(s) \/ HubNotices(s)
           \/ \E p \in Public :
                   RefusePublic(p) \/ ReadLink(p) \/ OpenStream(p) \/ WriteHeader(p)
                \/ WriteBody(p) \/ WriteFails(p) \/ PumpEnds(p) \/ ClientLeaves(p)
  <2>1. UNCHANGED <<relay, sess, relayOpen, reader, waiting, pending, seen, stream>>
      BY <1>15 DEF vars, Challenge, CheckResponse, HandshakeFails, OpenControl, Link, CloseOld, Cut,
         HubNotices, RefusePublic, ReadLink, OpenStream, WriteHeader, WriteBody, WriteFails, PumpEnds,
         ClientLeaves
  <2> QED
      BY <2>1 DEF RelayTypeOK
<1> QED
    BY <1>1, <1>2, <1>3, <1>4, <1>5, <1>6, <1>7, <1>8, <1>9, <1>10, <1>11, <1>12, <1>13,
       <1>14, <1>15
    DEF Next, Relay, Backend, Detect, HandlePublic, Listen

LEMMA WireTypeOKKept ==
    ASSUME StreamsInStep, [Next]_vars
    PROVE  WireTypeOK'
<1> USE TunnelAssumption 
    DEF StreamsInStep, TypeOK, Session, hubVars, pubVars, wireVars, relayVars, listenVars, historyVars
<1>1. CASE Dial
    BY <1>1 DEF WireTypeOK, RelayTypeOK, HubTypeOK, Dial
<1>2. CASE DialFails
    BY <1>2 DEF WireTypeOK, RelayTypeOK, HubTypeOK, DialFails, Fault
<1>3. CASE Respond
    BY <1>3 DEF WireTypeOK, RelayTypeOK, HubTypeOK, Respond
<1>4. CASE AcceptControl
    BY <1>4 DEF WireTypeOK, RelayTypeOK, HubTypeOK, AcceptControl
<1>5. CASE ReadControl
  <2>1. sess \in Session
      BY <1>5 DEF RelayTypeOK, ReadControl
  <2> DEFINE c == ctrl[sess]
  <2>2. c \in Seq({"header", "body"} \X Public)
      BY <2>1 DEF WireTypeOK
  <2>3. SubSeq(c, 3, Len(c)) \in Seq({"header", "body"} \X Public)
      BY <2>2, LenProperties, SubSeqProperties
  <2>4. ctrl' = [ctrl EXCEPT ![sess] = SubSeq(c, 3, Len(c))]
      BY <1>5 DEF ReadControl
  <2> HIDE DEF c
  <2> QED
      BY <1>5, <2>1, <2>3, <2>4 DEF WireTypeOK, ReadControl
<1>6. CASE AcceptStream
    BY <1>6 DEF WireTypeOK, RelayTypeOK, HubTypeOK, AcceptStream
<1>7. ASSUME NEW s \in Session, Challenge(s) PROVE WireTypeOK'
    BY <1>7 DEF WireTypeOK, RelayTypeOK, HubTypeOK, Challenge
<1>8. ASSUME NEW s \in Session, CheckResponse(s) PROVE WireTypeOK'
    BY <1>8 DEF WireTypeOK, RelayTypeOK, HubTypeOK, CheckResponse
<1>9. ASSUME NEW s \in Session, HandshakeFails(s) PROVE WireTypeOK'
    BY SMTT(40), <1>9 DEF WireTypeOK, RelayTypeOK, HubTypeOK, HandshakeFails, Fault
<1>10. ASSUME NEW s \in Session, OpenControl(s) PROVE WireTypeOK'
  <2>1. <<"control">> \in Seq(Public \union {"control"})
      OBVIOUS
  <2>2. streams' \in [Session -> Seq(Public \union {"control"})]
      BY <1>10, <2>1 DEF OpenControl, WireTypeOK
  <2> QED
      BY <1>10, <2>2 DEF WireTypeOK, OpenControl
<1>11. ASSUME NEW s \in Session, Cut(s) PROVE WireTypeOK'
    BY <1>11 DEF WireTypeOK, RelayTypeOK, HubTypeOK, Cut, Fault
<1>12. ASSUME NEW p \in Public, OpenStream(p) PROVE WireTypeOK'
  <2>1. plink[p] \in Session
      BY <1>12, WriterHasSession DEF OpenStream
  <2>2. Append(streams[plink[p]], p) \in Seq(Public \union {"control"})
      BY <2>1, AppendProperties DEF WireTypeOK
  <2>3. streams' \in [Session -> Seq(Public \union {"control"})]
      BY <1>12, <2>1, <2>2 DEF OpenStream, WireTypeOK
  <2> QED
      BY <1>12, <2>3 DEF WireTypeOK, OpenStream
<1>13. ASSUME NEW p \in Public, WriteHeader(p) PROVE WireTypeOK'
  <2>1. plink[p] \in Session
      BY <1>13, WriterHasSession DEF WriteHeader
  <2>2. <<"header", p>> \in {"header", "body"} \X Public
      OBVIOUS
  <2>3. Append(ctrl[plink[p]], <<"header", p>>) \in Seq({"header", "body"} \X Public)
      BY <2>1, <2>2, AppendProperties DEF WireTypeOK
  <2>4. ctrl' \in [Session -> Seq({"header", "body"} \X Public)]
      BY <1>13, <2>1, <2>3 DEF WriteHeader, WireTypeOK
  <2> QED
      BY <1>13, <2>4 DEF WireTypeOK, WriteHeader
<1>14. ASSUME NEW p \in Public, WriteBody(p) PROVE WireTypeOK'
  <2>1. plink[p] \in Session
      BY <1>14, WriterHasSession DEF WriteBody
  <2>2. <<"body", p>> \in {"header", "body"} \X Public
      OBVIOUS
  <2>3. Append(ctrl[plink[p]], <<"body", p>>) \in Seq({"header", "body"} \X Public)
      BY <2>1, <2>2, AppendProperties DEF WireTypeOK
  <2>4. ctrl' \in [Session -> Seq({"header", "body"} \X Public)]
      BY <1>14, <2>1, <2>3 DEF WriteBody, WireTypeOK
  <2> QED
      BY <1>14, <2>4 DEF WireTypeOK, WriteBody
<1>15. ASSUME NEW p \in Public, WriteFails(p) PROVE WireTypeOK'
  <2>1. plink[p] \in Session
      BY <1>15, WriterHasSession DEF WriteFails
  <2>2. broken' \subseteq Session
      BY <1>15, <2>1 DEF WriteFails, WireTypeOK
  <2>3. faults' \in 0 .. MaxFaults
      BY <1>15 DEF WriteFails, Fault, WireTypeOK
  <2> QED
      BY <1>15, <2>2, <2>3 DEF WireTypeOK, WriteFails
<1>16. CASE \/ UNCHANGED vars
           \/ ReadResult \/ HandshakeLost \/ ServeEnds \/ Backoff \/ Accept \/ PreambleTimeout
           \/ \E s \in Session :
                   Link(s) \/ CloseOld(s) \/ HubNotices(s) \/ RelayNotices(s)
           \/ \E p \in Public :
                   RefusePublic(p) \/ ReadLink(p) \/ PumpEnds(p) \/ ClientLeaves(p)
                \/ StreamEnds(p)
    BY <1>16 DEF WireTypeOK, vars, ReadResult, HandshakeLost, ServeEnds, Backoff, Accept,
       PreambleTimeout, Link, CloseOld, HubNotices, RelayNotices, RefusePublic, ReadLink,
       PumpEnds, ClientLeaves, StreamEnds
<1> QED
    BY <1>1, <1>2, <1>3, <1>4, <1>5, <1>6, <1>7, <1>8, <1>9, <1>10, <1>11, <1>12, <1>13,
       <1>14, <1>15, <1>16
    DEF Next, Relay, Backend, Detect, HandlePublic, Listen

LEMMA OneBackendKept ==
    ASSUME StreamsInStep, [Next]_vars
    PROVE  OneBackend'
<1> USE TunnelAssumption 
    DEF StreamsInStep, TypeOK, Session, hubVars, pubVars, wireVars, relayVars, listenVars, historyVars
<1>1. CASE Dial
    BY <1>1 DEF OneBackend, HubTypeOK, RelayTypeOK, LinkedAreBackends, Dial
<1>2. ASSUME NEW s \in Session, Challenge(s) PROVE OneBackend'
    BY <1>2 DEF OneBackend, HubTypeOK, RelayTypeOK, LinkedAreBackends, Challenge
<1>3. ASSUME NEW s \in Session, CheckResponse(s) PROVE OneBackend'
    BY <1>3 DEF OneBackend, HubTypeOK, RelayTypeOK, LinkedAreBackends, CheckResponse
<1>4. ASSUME NEW s \in Session, HandshakeFails(s) PROVE OneBackend'
    BY <1>4 DEF OneBackend, HubTypeOK, RelayTypeOK, LinkedAreBackends, HandshakeFails, Fault
<1>5. ASSUME NEW s \in Session, OpenControl(s) PROVE OneBackend'
  <2>1. /\ hub'[s] = "link" \/ s \notin hubOpen
        /\ \A t \in Session \ {s} : hub'[t] = hub[t]
        /\ hub[s] = "control" /\ UNCHANGED <<link, old, hubOpen>>
      BY <1>5 DEF HubTypeOK, OpenControl
  <2> QED
      BY <2>1 DEF OneBackend
<1>6. ASSUME NEW s \in Session, Link(s) PROVE OneBackend'
    BY <1>6 DEF OneBackend, HubTypeOK, RelayTypeOK, LinkedAreBackends, Link
<1>7. ASSUME NEW s \in Session, CloseOld(s) PROVE OneBackend'
    BY <1>7 DEF OneBackend, HubTypeOK, RelayTypeOK, LinkedAreBackends, CloseOld
<1>8. ASSUME NEW s \in Session, HubNotices(s) PROVE OneBackend'
    BY <1>8 DEF OneBackend, HubTypeOK, RelayTypeOK, LinkedAreBackends, HubNotices
<1>9. CASE \/ UNCHANGED vars
           \/ DialFails \/ Respond \/ ReadResult \/ HandshakeLost \/ ServeEnds \/ Backoff
              \/ AcceptControl \/ ReadControl \/ AcceptStream \/ Accept \/ PreambleTimeout
           \/ \E s \in Session :
                   Cut(s) \/ RelayNotices(s)
           \/ \E p \in Public :
                   RefusePublic(p) \/ ReadLink(p) \/ OpenStream(p) \/ WriteHeader(p)
                \/ WriteBody(p) \/ WriteFails(p) \/ PumpEnds(p) \/ ClientLeaves(p)
                \/ StreamEnds(p)
    BY <1>9 DEF OneBackend, vars, DialFails, Respond, ReadResult, HandshakeLost, ServeEnds,
       Backoff, AcceptControl, ReadControl, AcceptStream, Accept, PreambleTimeout, Cut,
       RelayNotices, RefusePublic, ReadLink, OpenStream, WriteHeader, WriteBody, WriteFails,
       PumpEnds, ClientLeaves, StreamEnds
<1> QED
    BY <1>1, <1>2, <1>3, <1>4, <1>5, <1>6, <1>7, <1>8, <1>9
    DEF Next, Relay, Backend, Detect, HandlePublic, Listen

LEMMA ControlInStepKept ==
    ASSUME StreamsInStep, [Next]_vars
    PROVE  ControlInStep'
<1> USE TunnelAssumption 
    DEF StreamsInStep, TypeOK, Session, hubVars, pubVars, wireVars, relayVars, listenVars, historyVars
<1>1. CASE Dial
    BY <1>1 DEF ControlInStep, RelayTypeOK, WireTypeOK, FramesAreWhole, WholeFrames, Dial
<1>2. CASE DialFails
    BY <1>2 DEF ControlInStep, RelayTypeOK, WireTypeOK, FramesAreWhole, WholeFrames, DialFails,
       Fault
<1>3. CASE Respond
    BY <1>3 DEF ControlInStep, RelayTypeOK, WireTypeOK, FramesAreWhole, WholeFrames, Respond
<1>4. CASE ReadResult
    BY <1>4 DEF ControlInStep, RelayTypeOK, WireTypeOK, FramesAreWhole, WholeFrames, ReadResult
<1>5. CASE HandshakeLost
    BY <1>5 DEF ControlInStep, RelayTypeOK, WireTypeOK, FramesAreWhole, WholeFrames,
       HandshakeLost
<1>6. CASE ServeEnds
    BY <1>6 DEF ControlInStep, RelayTypeOK, WireTypeOK, FramesAreWhole, WholeFrames, ServeEnds
<1>7. CASE Backoff
    BY <1>7 DEF ControlInStep, RelayTypeOK, WireTypeOK, FramesAreWhole, WholeFrames, Backoff
<1>8. CASE AcceptControl
    BY <1>8 DEF ControlInStep, RelayTypeOK, WireTypeOK, FramesAreWhole, WholeFrames,
       AcceptControl
<1>9. CASE ReadControl
  <2>1. sess \in Session /\ Len(ctrl[sess]) >= 2
      BY <1>9 DEF RelayTypeOK, ReadControl
  <2> DEFINE c == ctrl[sess]
  <2>2. c \in Seq({"header", "body"} \X Public) /\ Len(c) \in Nat
      BY <2>1 DEF WireTypeOK
  <2>3. ASSUME sess \notin broken PROVE c[1][1] = "header" /\ c[2] = <<"body", c[1][2]>>
    <3>1. WholeFrames(c)
        BY <2>1, <2>3 DEF FramesAreWhole
    <3>2. 0 \in 0 .. Len(c) /\ 2 * 0 + 1 = 1 /\ 2 * 0 + 2 = 2
        BY <2>2
    <3> QED
        BY <2>1, <2>2, <3>1, <3>2 DEF WholeFrames
  <2>4. sess \notin broken => UNCHANGED reader
      BY <1>9, <2>3 DEF ReadControl, Announce
  <2> HIDE DEF c
  <2> QED
      BY <1>9, <2>4 DEF ControlInStep, ReadControl, RelayTypeOK
<1>10. ASSUME NEW s \in Session, RelayNotices(s) PROVE ControlInStep'
    BY <1>10 DEF ControlInStep, RelayTypeOK, WireTypeOK, FramesAreWhole, WholeFrames,
       RelayNotices
<1>11. ASSUME NEW p \in Public, WriteFails(p) PROVE ControlInStep'
    BY <1>11 DEF ControlInStep, RelayTypeOK, WireTypeOK, FramesAreWhole, WholeFrames, WriteFails,
       Fault
<1>12. CASE UNCHANGED vars \/ AcceptStream \/ Accept \/ PreambleTimeout
    BY SMTT(40), <1>12 DEF ControlInStep, vars, AcceptStream, Accept, PreambleTimeout
<1>13. CASE \E s \in Session :
                  Challenge(s) \/ CheckResponse(s) \/ HandshakeFails(s) \/ OpenControl(s)
               \/ Link(s) \/ CloseOld(s) \/ Cut(s) \/ HubNotices(s)
    BY SMTT(40), <1>13 DEF ControlInStep, Challenge, CheckResponse, HandshakeFails, OpenControl, Link,
       CloseOld, Cut, HubNotices
<1>14. CASE \E p \in Public :
                  RefusePublic(p) \/ ReadLink(p) \/ OpenStream(p) \/ WriteHeader(p)
               \/ WriteBody(p) \/ PumpEnds(p) \/ ClientLeaves(p) \/ StreamEnds(p)
    BY SMTT(40), <1>14 DEF ControlInStep, RefusePublic, ReadLink, OpenStream, WriteHeader, WriteBody,
       PumpEnds, ClientLeaves, StreamEnds
<1> QED
    BY <1>1, <1>2, <1>3, <1>4, <1>5, <1>6, <1>7, <1>8, <1>9, <1>10, <1>11, <1>12, <1>13,
       <1>14
    DEF Next, Relay, Backend, Detect, HandlePublic, Listen

LEMMA AddressIsTheClientsKept ==
    ASSUME StreamsInStep, [Next]_vars
    PROVE  AddressIsTheClients'
<1> USE TunnelAssumption 
    DEF StreamsInStep, TypeOK, Session, hubVars, pubVars, wireVars, relayVars, listenVars, historyVars
<1>1. CASE Accept
    BY <1>1 DEF AddressIsTheClients, PendingIsTheClients, RelayTypeOK, Accept
<1>2. CASE \/ UNCHANGED vars
           \/ Dial \/ DialFails \/ Respond \/ ReadResult \/ HandshakeLost \/ ServeEnds \/ Backoff
              \/ AcceptControl \/ ReadControl \/ AcceptStream \/ PreambleTimeout
           \/ \E s \in Session :
                   Challenge(s) \/ CheckResponse(s) \/ HandshakeFails(s) \/ OpenControl(s)
                \/ Link(s) \/ CloseOld(s) \/ Cut(s) \/ HubNotices(s) \/ RelayNotices(s)
           \/ \E p \in Public :
                   RefusePublic(p) \/ ReadLink(p) \/ OpenStream(p) \/ WriteHeader(p)
                \/ WriteBody(p) \/ WriteFails(p) \/ PumpEnds(p) \/ ClientLeaves(p)
                \/ StreamEnds(p)
    BY <1>2 DEF AddressIsTheClients, vars, Dial, DialFails, Respond, ReadResult, HandshakeLost,
       ServeEnds, Backoff, AcceptControl, ReadControl, AcceptStream, PreambleTimeout, Challenge,
       CheckResponse, HandshakeFails, OpenControl, Link, CloseOld, Cut, HubNotices, RelayNotices,
       RefusePublic, ReadLink, OpenStream, WriteHeader, WriteBody, WriteFails, PumpEnds,
       ClientLeaves, StreamEnds
<1> QED
    BY <1>1, <1>2
    DEF Next, Relay, Backend, Detect, HandlePublic, Listen

LEMMA PendingIsTheClientsKept ==
    ASSUME StreamsInStep, [Next]_vars
    PROVE  PendingIsTheClients'
<1> USE TunnelAssumption 
    DEF StreamsInStep, TypeOK, Session, hubVars, pubVars, wireVars, relayVars, listenVars, historyVars
<1>1. CASE ReadResult
    BY <1>1 DEF PendingIsTheClients, RelayTypeOK, ReadResult
<1>2. CASE ReadControl
    BY <1>2 DEF PendingIsTheClients, RelayTypeOK, ReadControl, Announce
<1>3. CASE Accept
    BY <1>3 DEF PendingIsTheClients, RelayTypeOK, Accept
<1>4. CASE \/ UNCHANGED vars
           \/ Dial \/ DialFails \/ Respond \/ HandshakeLost \/ ServeEnds \/ Backoff
              \/ AcceptControl \/ AcceptStream \/ PreambleTimeout
           \/ \E s \in Session :
                   Challenge(s) \/ CheckResponse(s) \/ HandshakeFails(s) \/ OpenControl(s)
                \/ Link(s) \/ CloseOld(s) \/ Cut(s) \/ HubNotices(s) \/ RelayNotices(s)
           \/ \E p \in Public :
                   RefusePublic(p) \/ ReadLink(p) \/ OpenStream(p) \/ WriteHeader(p)
                \/ WriteBody(p) \/ WriteFails(p) \/ PumpEnds(p) \/ ClientLeaves(p)
                \/ StreamEnds(p)
    BY <1>4 DEF PendingIsTheClients, vars, Dial, DialFails, Respond, HandshakeLost, ServeEnds,
       Backoff, AcceptControl, AcceptStream, PreambleTimeout, Challenge, CheckResponse,
       HandshakeFails, OpenControl, Link, CloseOld, Cut, HubNotices, RelayNotices, RefusePublic,
       ReadLink, OpenStream, WriteHeader, WriteBody, WriteFails, PumpEnds, ClientLeaves,
       StreamEnds
<1> QED
    BY <1>1, <1>2, <1>3, <1>4
    DEF Next, Relay, Backend, Detect, HandlePublic, Listen

LEMMA LinkedAreBackendsKept ==
    ASSUME StreamsInStep, [Next]_vars
    PROVE  LinkedAreBackends'
<1> USE TunnelAssumption 
    DEF StreamsInStep, TypeOK, Session, hubVars, pubVars, wireVars, relayVars, listenVars, historyVars
<1>1. CASE Dial
  <2>1. sess \in Nat /\ sess' = sess + 1 /\ sess' \in Session /\ sess' > sess
      BY <1>1 DEF Dial, RelayTypeOK
  <2>2. hub[sess'] = "none"
      BY <2>1 DEF LinkedAreBackends
  <2>3. hub' = [hub EXCEPT ![sess'] = "hello"] /\ UNCHANGED <<link, plink, ctrl>>
      BY <1>1 DEF Dial
  <2>4. \A s \in Session : s # sess' => hub'[s] = hub[s]
      BY <2>3 DEF HubTypeOK
  <2>5. \A s \in Session : s > sess' => s > sess /\ s # sess'
      BY <2>1, SessionType
  <2> HIDE DEF Session
  <2> QED
      BY <2>2, <2>3, <2>4, <2>5 DEF LinkedAreBackends, HubTypeOK
<1>2. CASE ReadControl
    BY <1>2 DEF LinkedAreBackends, HubTypeOK, ReadControl, Announce
<1>3. ASSUME NEW s \in Session, Challenge(s) PROVE LinkedAreBackends'
    BY <1>3 DEF LinkedAreBackends, HubTypeOK, Challenge
<1>4. ASSUME NEW s \in Session, CheckResponse(s) PROVE LinkedAreBackends'
    BY <1>4 DEF LinkedAreBackends, HubTypeOK, CheckResponse
<1>5. ASSUME NEW s \in Session, HandshakeFails(s) PROVE LinkedAreBackends'
    BY <1>5 DEF LinkedAreBackends, HubTypeOK, HandshakeFails, Fault
<1>6. ASSUME NEW s \in Session, OpenControl(s) PROVE LinkedAreBackends'
    BY <1>6 DEF LinkedAreBackends, HubTypeOK, OpenControl
<1>7. ASSUME NEW s \in Session, Link(s) PROVE LinkedAreBackends'
    BY <1>7 DEF LinkedAreBackends, HubTypeOK, Link
<1>8. ASSUME NEW s \in Session, CloseOld(s) PROVE LinkedAreBackends'
    BY <1>8 DEF LinkedAreBackends, HubTypeOK, CloseOld
<1>9. ASSUME NEW s \in Session, HubNotices(s) PROVE LinkedAreBackends'
    BY <1>9 DEF LinkedAreBackends, HubTypeOK, HubNotices
<1>10. ASSUME NEW p \in Public, ReadLink(p) PROVE LinkedAreBackends'
    BY <1>10 DEF LinkedAreBackends, HubTypeOK, ReadLink
<1>11. ASSUME NEW p \in Public, WriteHeader(p) PROVE LinkedAreBackends'
  <2>1. plink[p] \in Session
      BY <1>11, WriterHasSession DEF WriteHeader
  <2>2. \A s \in Session : s > sess => s \notin hubOpen
      BY DEF HubTypeOK, RelayTypeOK
  <2>3. \A s \in Session : s \notin hubOpen => ctrl'[s] = ctrl[s]
      BY <1>11, <2>1 DEF WriteHeader, WireTypeOK
  <2>4. UNCHANGED <<hub, link, plink, sess>>
      BY <1>11 DEF WriteHeader
  <2> QED
      BY <2>2, <2>3, <2>4 DEF LinkedAreBackends
<1>12. ASSUME NEW p \in Public, WriteBody(p) PROVE LinkedAreBackends'
  <2>1. plink[p] \in Session
      BY <1>12, WriterHasSession DEF WriteBody
  <2>2. \A s \in Session : s > sess => s \notin hubOpen
      BY DEF HubTypeOK, RelayTypeOK
  <2>3. \A s \in Session : s \notin hubOpen => ctrl'[s] = ctrl[s]
      BY <1>12, <2>1 DEF WriteBody, WireTypeOK
  <2>4. UNCHANGED <<hub, link, plink, sess>>
      BY <1>12 DEF WriteBody
  <2> QED
      BY <2>2, <2>3, <2>4 DEF LinkedAreBackends
<1>13. CASE \/ UNCHANGED vars
           \/ DialFails \/ Respond \/ ReadResult \/ HandshakeLost \/ ServeEnds \/ Backoff
              \/ AcceptControl \/ AcceptStream \/ Accept \/ PreambleTimeout
           \/ \E s \in Session :
                   Cut(s) \/ RelayNotices(s)
           \/ \E p \in Public :
                   RefusePublic(p) \/ OpenStream(p) \/ WriteFails(p) \/ PumpEnds(p)
                \/ ClientLeaves(p) \/ StreamEnds(p)
    BY <1>13 DEF LinkedAreBackends, vars, DialFails, Respond, ReadResult, HandshakeLost,
       ServeEnds, Backoff, AcceptControl, AcceptStream, Accept, PreambleTimeout, Cut,
       RelayNotices, RefusePublic, OpenStream, WriteFails, PumpEnds, ClientLeaves, StreamEnds
<1> QED
    BY <1>1, <1>2, <1>3, <1>4, <1>5, <1>6, <1>7, <1>8, <1>9, <1>10, <1>11, <1>12, <1>13
    DEF Next, Relay, Backend, Detect, HandlePublic, Listen

LEMMA ControlComesFirstKept ==
    ASSUME StreamsInStep, [Next]_vars
    PROVE  ControlComesFirst'
<1> USE TunnelAssumption 
    DEF StreamsInStep, TypeOK, Session, hubVars, pubVars, wireVars, relayVars, listenVars, historyVars
<1>1. CASE Dial
    BY <1>1 DEF ControlComesFirst, Opening, HubTypeOK, RelayTypeOK, WireTypeOK,
       LinkedAreBackends, Dial
<1>2. CASE DialFails
    BY <1>2 DEF ControlComesFirst, Opening, HubTypeOK, RelayTypeOK, WireTypeOK,
       LinkedAreBackends, DialFails, Fault
<1>3. CASE Respond
    BY <1>3 DEF ControlComesFirst, Opening, HubTypeOK, RelayTypeOK, WireTypeOK,
       LinkedAreBackends, Respond
<1>4. CASE ReadResult
    BY <1>4 DEF ControlComesFirst, Opening, HubTypeOK, RelayTypeOK, WireTypeOK,
       LinkedAreBackends, ReadResult
<1>5. CASE HandshakeLost
    BY <1>5 DEF ControlComesFirst, Opening, HubTypeOK, RelayTypeOK, WireTypeOK,
       LinkedAreBackends, HandshakeLost
<1>6. CASE ServeEnds
    BY <1>6 DEF ControlComesFirst, Opening, HubTypeOK, RelayTypeOK, WireTypeOK,
       LinkedAreBackends, ServeEnds
<1>7. CASE Backoff
    BY <1>7 DEF ControlComesFirst, Opening, HubTypeOK, RelayTypeOK, WireTypeOK,
       LinkedAreBackends, Backoff
<1>8. CASE AcceptControl
    BY <1>8 DEF ControlComesFirst, Opening, HubTypeOK, RelayTypeOK, WireTypeOK,
       LinkedAreBackends, AcceptControl
<1>9. CASE ReadControl
    BY <1>9 DEF ControlComesFirst, Opening, HubTypeOK, RelayTypeOK, WireTypeOK,
       LinkedAreBackends, ReadControl, Announce
<1>10. CASE AcceptStream
    BY <1>10 DEF ControlComesFirst, Opening, HubTypeOK, RelayTypeOK, WireTypeOK,
       LinkedAreBackends, AcceptStream
<1>11. ASSUME NEW s \in Session, Challenge(s) PROVE ControlComesFirst'
    BY <1>11 DEF ControlComesFirst, Opening, HubTypeOK, RelayTypeOK, WireTypeOK,
       LinkedAreBackends, Challenge
<1>12. ASSUME NEW s \in Session, CheckResponse(s) PROVE ControlComesFirst'
    BY <1>12 DEF ControlComesFirst, Opening, HubTypeOK, RelayTypeOK, WireTypeOK,
       LinkedAreBackends, CheckResponse
<1>13. ASSUME NEW s \in Session, HandshakeFails(s) PROVE ControlComesFirst'
    BY <1>13 DEF ControlComesFirst, Opening, HubTypeOK, RelayTypeOK, WireTypeOK,
       LinkedAreBackends, HandshakeFails, Fault
<1>14. ASSUME NEW s \in Session, OpenControl(s) PROVE ControlComesFirst'
  <2>1. /\ hub[s] = "control" /\ UNCHANGED <<relay, reader, sess>>
        /\ \A t \in Session \ {s} : hub'[t] = hub[t] /\ streams'[t] = streams[t]
        /\ hub'[s] \notin Opening
        /\ streams'[s] = <<"control">> \/ streams'[s] = <<>>
      BY <1>14 DEF OpenControl, HubTypeOK, WireTypeOK, ControlComesFirst, Opening
  <2>2. Tail(<<"control">>) = <<>> /\ <<>> \in Seq(Public)
      OBVIOUS
  <2>3. relay = "serve" => sess \in Session
      BY DEF RelayTypeOK
  <2> HIDE DEF Session
  <2> QED
      BY <2>1, <2>2, <2>3 DEF ControlComesFirst, Opening
<1>15. ASSUME NEW s \in Session, Link(s) PROVE ControlComesFirst'
    BY <1>15 DEF ControlComesFirst, Opening, HubTypeOK, RelayTypeOK, WireTypeOK,
       LinkedAreBackends, Link
<1>16. ASSUME NEW s \in Session, CloseOld(s) PROVE ControlComesFirst'
    BY <1>16 DEF ControlComesFirst, Opening, HubTypeOK, RelayTypeOK, WireTypeOK,
       LinkedAreBackends, CloseOld
<1>17. ASSUME NEW s \in Session, HubNotices(s) PROVE ControlComesFirst'
    BY <1>17 DEF ControlComesFirst, Opening, HubTypeOK, RelayTypeOK, WireTypeOK,
       LinkedAreBackends, HubNotices
<1>18. ASSUME NEW p \in Public, OpenStream(p) PROVE ControlComesFirst'
  <2> DEFINE s == plink[p]
             q == streams[s]
  <2>1. s \in Session /\ hub[s] \in {"close", "done"}
      BY <1>18, WriterHasSession DEF OpenStream, LinkedAreBackends
  <2>2. /\ \A t \in Session \ {s} : streams'[t] = streams[t]
        /\ streams'[s] = q \/ streams'[s] = Append(q, p)
        /\ UNCHANGED <<hub, relay, reader, sess>>
      BY <1>18, <2>1 DEF OpenStream, WireTypeOK
  <2>3. q \in Seq(Public \union {"control"})
      BY <2>1 DEF WireTypeOK
  <2> HIDE DEF q, s
  <2>4. q \in Seq(Public) => Append(q, p) \in Seq(Public)
      BY AppendProperties
  <2>5. (q # <<>> => Tail(q) \in Seq(Public)) => Tail(Append(q, p)) \in Seq(Public)
      BY <2>3
  <2>6. (q # <<>> => Tail(q) \in Seq(Public))
      BY <2>1 DEF ControlComesFirst, q
  <2>7. \A t \in Session : streams'[t] # <<>> => Tail(streams'[t]) \in Seq(Public)
      BY <2>2, <2>5, <2>6 DEF ControlComesFirst, q
  <2>8. \A t \in Session : hub[t] \in Opening => streams'[t] = <<>>
      BY <2>1, <2>2 DEF ControlComesFirst, Opening
  <2>9. relay = "serve" => sess \in Session
      BY DEF RelayTypeOK
  <2> HIDE DEF Session
  <2> QED
      BY <2>2, <2>4, <2>7, <2>8, <2>9 DEF ControlComesFirst, q
<1>19. CASE \/ UNCHANGED vars
           \/ Accept \/ PreambleTimeout
           \/ \E s \in Session :
                   Cut(s) \/ RelayNotices(s)
           \/ \E p \in Public :
                   RefusePublic(p) \/ ReadLink(p) \/ WriteHeader(p) \/ WriteBody(p)
                \/ WriteFails(p) \/ PumpEnds(p) \/ ClientLeaves(p) \/ StreamEnds(p)
    BY <1>19 DEF ControlComesFirst, Opening, vars, Accept, PreambleTimeout, Cut, RelayNotices,
       RefusePublic, ReadLink, WriteHeader, WriteBody, WriteFails, PumpEnds, ClientLeaves,
       StreamEnds
<1> QED
    BY <1>1, <1>2, <1>3, <1>4, <1>5, <1>6, <1>7, <1>8, <1>9, <1>10, <1>11, <1>12, <1>13,
       <1>14, <1>15, <1>16, <1>17, <1>18, <1>19
    DEF Next, Relay, Backend, Detect, HandlePublic, Listen

LEMMA LockedWhileWritingKept ==
    ASSUME StreamsInStep, [Next]_vars
    PROVE  LockedWhileWriting'
<1> USE TunnelAssumption 
    DEF StreamsInStep, TypeOK, Session, hubVars, pubVars, wireVars, relayVars, listenVars, historyVars
<1>1. ASSUME NEW p \in Public, RefusePublic(p) PROVE LockedWhileWriting'
    BY <1>1 DEF LockedWhileWriting, HubTypeOK, RefusePublic
<1>2. ASSUME NEW p \in Public, ReadLink(p) PROVE LockedWhileWriting'
    BY <1>2 DEF LockedWhileWriting, HubTypeOK, ReadLink
<1>3. ASSUME NEW p \in Public, OpenStream(p) PROVE LockedWhileWriting'
    BY <1>3 DEF LockedWhileWriting, HubTypeOK, OpenStream
<1>4. ASSUME NEW p \in Public, WriteHeader(p) PROVE LockedWhileWriting'
  <2>1. plink[p] \in Session /\ pub[p] = "header" /\ ctrlMu[plink[p]] = None /\ UNCHANGED plink
      BY <1>4, WriterHasSession DEF WriteHeader
  <2>2. \A q \in Public \ {p} : pub'[q] = pub[q]
      BY <1>4 DEF WriteHeader, HubTypeOK
  <2>3. CASE ctrlMu' = [ctrlMu EXCEPT ![plink[p]] = p] /\ pub' = [pub EXCEPT ![p] = "body"]
    <3>1. /\ ctrlMu'[plink[p]] = p /\ pub'[p] = "body"
          /\ \A s \in Session \ {plink[p]} : ctrlMu'[s] = ctrlMu[s]
        BY <2>1, <2>3 DEF HubTypeOK
    <3>2. \A q \in Public : pub[q] = "body" => plink[q] # plink[p] /\ plink[q] \in Session
        BY <2>1, WriterHasSession DEF LockedWhileWriting
    <3> HIDE DEF Session
    <3> QED
        BY <2>1, <2>2, <3>1, <3>2 DEF LockedWhileWriting, HubTypeOK
  <2>4. CASE pub' = [pub EXCEPT ![p] = "closed"] /\ UNCHANGED ctrlMu
    <3>1. pub'[p] = "closed"
        BY <2>4 DEF HubTypeOK
    <3> QED
        BY <2>1, <2>2, <2>4, <3>1 DEF LockedWhileWriting
  <2> QED
      BY <1>4, <2>3, <2>4 DEF WriteHeader
<1>5. ASSUME NEW p \in Public, WriteBody(p) PROVE LockedWhileWriting'
    BY <1>5 DEF LockedWhileWriting, HubTypeOK, WriteBody
<1>6. ASSUME NEW p \in Public, WriteFails(p) PROVE LockedWhileWriting'
    BY SMTT(40), <1>6 DEF LockedWhileWriting, HubTypeOK, WriteFails, Fault
<1>7. ASSUME NEW p \in Public, PumpEnds(p) PROVE LockedWhileWriting'
    BY <1>7 DEF LockedWhileWriting, HubTypeOK, PumpEnds
<1>8. ASSUME NEW p \in Public, ClientLeaves(p) PROVE LockedWhileWriting'
    BY <1>8 DEF LockedWhileWriting, HubTypeOK, ClientLeaves
<1>9. CASE \/ UNCHANGED vars
           \/ Dial \/ DialFails \/ Respond \/ ReadResult \/ HandshakeLost \/ ServeEnds \/ Backoff
              \/ AcceptControl \/ ReadControl \/ AcceptStream \/ Accept \/ PreambleTimeout
           \/ \E s \in Session :
                   Challenge(s) \/ CheckResponse(s) \/ HandshakeFails(s) \/ OpenControl(s)
                \/ Link(s) \/ CloseOld(s) \/ Cut(s) \/ HubNotices(s) \/ RelayNotices(s)
           \/ \E p \in Public :
                   StreamEnds(p)
    BY <1>9 DEF LockedWhileWriting, vars, Dial, DialFails, Respond, ReadResult, HandshakeLost,
       ServeEnds, Backoff, AcceptControl, ReadControl, AcceptStream, Accept, PreambleTimeout,
       Challenge, CheckResponse, HandshakeFails, OpenControl, Link, CloseOld, Cut, HubNotices,
       RelayNotices, StreamEnds
<1> QED
    BY <1>1, <1>2, <1>3, <1>4, <1>5, <1>6, <1>7, <1>8, <1>9
    DEF Next, Relay, Backend, Detect, HandlePublic, Listen

LEMMA FramesAreWholeKept ==
    ASSUME StreamsInStep, [Next]_vars
    PROVE  FramesAreWhole'
<1> USE TunnelAssumption 
    DEF StreamsInStep, TypeOK, Session, hubVars, pubVars, wireVars, relayVars, listenVars, historyVars
<1>1. CASE Dial
  <2>1. sess \in Nat /\ sess' = sess + 1 /\ sess' \in Session /\ sess' > sess
      BY <1>1 DEF Dial, RelayTypeOK
  <2>2. ctrl[sess'] = <<>>
      BY <2>1 DEF LinkedAreBackends
  <2>3. Len(<<>>) = 2 * 0 /\ 0 \in 0 .. Len(<<>>)
      OBVIOUS
  <2>4. hubOpen' = hubOpen \union {sess'} /\ UNCHANGED <<ctrl, ctrlMu, broken>>
      BY <1>1 DEF Dial
  <2> HIDE DEF Session
  <2> QED
      BY <2>2, <2>3, <2>4 DEF FramesAreWhole, WholeFrames
<1>2. CASE ReadControl
  <2> DEFINE c == ctrl[sess]
             d == SubSeq(c, 3, Len(c))
  <2>1. sess \in Session /\ Len(c) >= 2 /\ c \in Seq(Half) /\ Len(c) \in Nat
      BY <1>2 DEF RelayTypeOK, ReadControl, WireTypeOK, Half
  <2>2. /\ ctrl'[sess] = d /\ \A s \in Session \ {sess} : ctrl'[s] = ctrl[s]
        /\ UNCHANGED <<ctrlMu, broken, hubOpen>>
      BY <1>2, <2>1 DEF ReadControl, WireTypeOK
  <2>3. ASSUME sess \notin broken
        PROVE  /\ WholeFrames(d)
               /\ IF ctrlMu[sess] = None
                  THEN sess \in hubOpen => \E k \in 0 .. Len(d) : Len(d) = 2 * k
                  ELSE /\ \E k \in 0 .. Len(d) : Len(d) = 2 * k + 1
                       /\ d[Len(d)] = <<"header", ctrlMu[sess]>>
    <3>1. /\ WholeFrames(c)
          /\ IF ctrlMu[sess] = None
             THEN sess \in hubOpen => \E k \in 0 .. Len(c) : Len(c) = 2 * k
             ELSE /\ \E k \in 0 .. Len(c) : Len(c) = 2 * k + 1
                  /\ c[Len(c)] = <<"header", ctrlMu[sess]>>
        BY <2>1, <2>3 DEF FramesAreWhole
    <3>2. WholeFrames(d) /\ Len(d) = Len(c) - 2 /\ \A i \in 1 .. (Len(c) - 2) : d[i] = c[i + 2]
        BY <2>1, <3>1, DropFrame
    <3> HIDE DEF c, d
    <3>3. ASSUME NEW k \in 0 .. Len(c), Len(c) = 2 * k PROVE \E j \in 0 .. Len(d) : Len(d) = 2 * j
      <4>1. k - 1 \in 0 .. Len(d) /\ Len(d) = 2 * (k - 1)
          BY <2>1, <3>2, <3>3
      <4> QED
          BY <4>1
    <3>4. ASSUME NEW k \in 0 .. Len(c), Len(c) = 2 * k + 1
          PROVE  (\E j \in 0 .. Len(d) : Len(d) = 2 * j + 1) /\ d[Len(d)] = c[Len(c)]
      <4>1. k - 1 \in 0 .. Len(d) /\ Len(d) = 2 * (k - 1) + 1 /\ Len(d) \in 1 .. (Len(c) - 2)
            /\ Len(d) + 2 = Len(c)
          BY <2>1, <3>2, <3>4
      <4> QED
          BY <4>1, <3>2
    <3> QED
        BY <3>1, <3>2, <3>3, <3>4
  <2> HIDE DEF Session, c, d
  <2> QED
      BY <2>2, <2>3 DEF FramesAreWhole
<1>3. ASSUME NEW s \in Session, HandshakeFails(s) PROVE FramesAreWhole'
    BY SMTT(40), <1>3 DEF FramesAreWhole, LockedWhileWriting, HubTypeOK, WireTypeOK, HandshakeFails, Fault
<1>4. ASSUME NEW s \in Session, CloseOld(s) PROVE FramesAreWhole'
    BY <1>4 DEF FramesAreWhole, LockedWhileWriting, HubTypeOK, WireTypeOK, CloseOld
<1>5. ASSUME NEW s \in Session, HubNotices(s) PROVE FramesAreWhole'
    BY <1>5 DEF FramesAreWhole, LockedWhileWriting, HubTypeOK, WireTypeOK, HubNotices
<1>6. ASSUME NEW p \in Public, WriteHeader(p) PROVE FramesAreWhole'
  <2> DEFINE s == plink[p]
             c == ctrl[s]
             d == Append(c, <<"header", p>>)
  <2>1. s \in Session /\ c \in Seq(Half) /\ Len(c) \in Nat /\ ctrlMu[s] = None
      BY <1>6, WriterHasSession DEF WriteHeader, WireTypeOK, Half
  <2>2. CASE s \notin hubOpen
      BY <1>6, <2>2 DEF FramesAreWhole, WriteHeader
  <2>3. CASE s \in hubOpen
    <3>1. /\ ctrl'[s] = d /\ ctrlMu'[s] = p /\ UNCHANGED <<broken, hubOpen>>
          /\ \A t \in Session \ {s} : ctrl'[t] = ctrl[t] /\ ctrlMu'[t] = ctrlMu[t]
        BY <1>6, <2>1, <2>3 DEF WriteHeader, WireTypeOK, HubTypeOK
    <3>2. ASSUME s \notin broken
          PROVE  /\ WholeFrames(d) /\ \E k \in 0 .. Len(d) : Len(d) = 2 * k + 1
                 /\ d[Len(d)] = <<"header", p>>
      <4>1. WholeFrames(c)
          BY <2>1, <3>2 DEF FramesAreWhole
      <4>2. PICK k \in 0 .. Len(c) : Len(c) = 2 * k
          BY <2>1, <2>3, <3>2 DEF FramesAreWhole
      <4>3. <<"header", p>> \in Half
          BY DEF Half
      <4>4. Len(d) = Len(c) + 1 /\ d[Len(d)] = <<"header", p>>
          BY <2>1, <4>3, AppendProperties
      <4>5. WholeFrames(d)
          BY <2>1, <4>1, <4>2, AppendHeader
      <4> HIDE DEF c, d
      <4>6. k \in 0 .. Len(d) /\ Len(d) = 2 * k + 1
          BY <2>1, <4>2, <4>4
      <4> QED
          BY <4>4, <4>5, <4>6
    <3> HIDE DEF Session, c, d, s
    <3> QED
        BY <3>1, <3>2 DEF FramesAreWhole
  <2> QED
      BY <2>2, <2>3
<1>7. ASSUME NEW p \in Public, WriteBody(p) PROVE FramesAreWhole'
  <2> DEFINE s == plink[p]
             c == ctrl[s]
             d == Append(c, <<"body", p>>)
  <2>1. s \in Session /\ c \in Seq(Half) /\ Len(c) \in Nat /\ ctrlMu[s] = p
      BY <1>7, WriterHasSession DEF WriteBody, WireTypeOK, Half, LockedWhileWriting
  <2>2. /\ ctrlMu'[s] = None /\ UNCHANGED <<broken, hubOpen>>
        /\ \A t \in Session \ {s} : ctrl'[t] = ctrl[t] /\ ctrlMu'[t] = ctrlMu[t]
        /\ ctrl'[s] = IF s \in hubOpen THEN d ELSE c
      BY <1>7, <2>1 DEF WriteBody, WireTypeOK, HubTypeOK
  <2>3. ASSUME s \notin broken
        PROVE  WholeFrames(c) /\ WholeFrames(d) /\ \E k \in 0 .. Len(d) : Len(d) = 2 * k
    <3>1. WholeFrames(c) /\ c[Len(c)] = <<"header", p>>
        BY <2>1, <2>3 DEF FramesAreWhole
    <3>2. PICK k \in 0 .. Len(c) : Len(c) = 2 * k + 1
        BY <2>1, <2>3 DEF FramesAreWhole
    <3>3. <<"body", p>> \in Half
        BY DEF Half
    <3>4. Len(d) = Len(c) + 1
        BY <2>1, <3>3, AppendProperties
    <3>5. WholeFrames(d)
        BY <2>1, <3>1, <3>2, AppendBody
    <3> HIDE DEF c, d
    <3>6. k + 1 \in 0 .. Len(d) /\ Len(d) = 2 * (k + 1)
        BY <2>1, <3>2, <3>4
    <3> QED
        BY <3>1, <3>5, <3>6
  <2> HIDE DEF Session, c, d, s
  <2> QED
      BY <2>2, <2>3 DEF FramesAreWhole
<1>8. ASSUME NEW p \in Public, WriteFails(p) PROVE FramesAreWhole'
  <2>1. plink[p] \in Session
      BY <1>8, WriterHasSession DEF WriteFails
  <2>2. UNCHANGED <<ctrl, hubOpen>>
      BY <1>8 DEF WriteFails
  <2>3. \/ UNCHANGED <<ctrlMu, broken>>
        \/ /\ broken' = broken \union {plink[p]}
           /\ \A t \in Session \ {plink[p]} : ctrlMu'[t] = ctrlMu[t]
      BY <1>8, <2>1 DEF WriteFails, HubTypeOK
  <2> HIDE DEF Session
  <2> QED
      BY <2>2, <2>3 DEF FramesAreWhole
<1>9. CASE \/ UNCHANGED vars
           \/ DialFails \/ Respond \/ ReadResult \/ HandshakeLost \/ ServeEnds \/ Backoff
              \/ AcceptControl \/ AcceptStream \/ Accept \/ PreambleTimeout
           \/ \E s \in Session :
                   Challenge(s) \/ CheckResponse(s) \/ OpenControl(s) \/ Link(s) \/ Cut(s)
                \/ RelayNotices(s)
           \/ \E p \in Public :
                   RefusePublic(p) \/ ReadLink(p) \/ OpenStream(p) \/ PumpEnds(p)
                \/ ClientLeaves(p) \/ StreamEnds(p)
    BY <1>9 DEF FramesAreWhole, vars, DialFails, Respond, ReadResult, HandshakeLost, ServeEnds,
       Backoff, AcceptControl, AcceptStream, Accept, PreambleTimeout, Challenge, CheckResponse,
       OpenControl, Link, Cut, RelayNotices, RefusePublic, ReadLink, OpenStream, PumpEnds,
       ClientLeaves, StreamEnds
<1> QED
    BY <1>1, <1>2, <1>3, <1>4, <1>5, <1>6, <1>7, <1>8, <1>9
    DEF Next, Relay, Backend, Detect, HandlePublic, Listen

-----------------------------------------------------------------------------
(* The theorem.                                                            *)

LEMMA InitInStep == Init => StreamsInStep
<1> SUFFICES ASSUME Init PROVE StreamsInStep
    OBVIOUS
<1> USE TunnelAssumption DEF Init, Session
<1>1. <<>> \in Seq(Public \union {"control"}) /\ <<>> \in Seq({"header", "body"} \X Public)
    OBVIOUS
<1>2. TypeOK
    BY <1>1 DEF TypeOK, HubTypeOK, RelayTypeOK, WireTypeOK
<1>3. OneBackend /\ ControlInStep /\ AddressIsTheClients /\ LinkedAreBackends /\ ControlComesFirst
    BY DEF OneBackend, ControlInStep, AddressIsTheClients, LinkedAreBackends, ControlComesFirst
<1>4. LockedWhileWriting /\ PendingIsTheClients
    BY DEF LockedWhileWriting, PendingIsTheClients
<1>5. FramesAreWhole
    BY DEF FramesAreWhole, WholeFrames
<1> QED
    BY <1>2, <1>3, <1>4, <1>5 DEF StreamsInStep

\* For any public connections and any number of cuts, failed writes and
\* redials: one backend is linked and the others are being closed, readControl
\* meets only whole frames unless a write failed half way, Accept is never
\* handed the control stream, and each connection is seen under the address of
\* its own client.
THEOREM InStep == Spec => []StreamsInStep
<1>1. StreamsInStep /\ [Next]_vars => StreamsInStep'
    BY HubTypeOKKept, RelayTypeOKKept, WireTypeOKKept, OneBackendKept, ControlInStepKept,
       AddressIsTheClientsKept, PendingIsTheClientsKept, LinkedAreBackendsKept,
       ControlComesFirstKept, LockedWhileWritingKept, FramesAreWholeKept
    DEF StreamsInStep, TypeOK
<1> QED
    BY InitInStep, <1>1, PTL DEF Spec

-----------------------------------------------------------------------------
(* Chunks and the channel *)

\* A chunk has at least one byte.
LEMMA ChunkBounds ==
    ASSUME NEW c \in Chunk
    PROVE  /\ c[1] \in 1 .. MaxBytes /\ c[2] \in 1 .. MaxBytes /\ c[1] <= c[2]
           /\ c = <<c[1], c[2]>> /\ Length(c) \in Nat \ {0} /\ c # NoChunk
  BY BufferAssumption DEF Chunk, Length

\* A pair of bytes in order is a chunk.
LEMMA MakeChunk ==
    ASSUME NEW a \in 1 .. MaxBytes, NEW b \in 1 .. MaxBytes, a <= b
    PROVE  <<a, b>> \in Chunk /\ <<a, b>>[1] = a /\ <<a, b>>[2] = b
  BY DEF Chunk

\* What FillPush does to the channel.
LEMMA PushChunk ==
    ASSUME NEW ch \in Seq(Chunk), NEW c \in Chunk
    PROVE  /\ Append(ch, c) \in Seq(Chunk) /\ Append(ch, c) # <<>>
           /\ Len(Append(ch, c)) = Len(ch) + 1 /\ Len(ch) \in Nat
           /\ \A i \in 1 .. Len(ch) : Append(ch, c)[i] = ch[i]
           /\ Append(ch, c)[Len(ch) + 1] = c
           /\ ch = <<>> <=> Len(ch) = 0
  BY AppendProperties, LenProperties, EmptySeq

\* What SelectChunk does to it.
LEMMA TakeChunk ==
    ASSUME NEW ch \in Seq(Chunk), ch # <<>>
    PROVE  /\ Tail(ch) \in Seq(Chunk) /\ Head(ch) = ch[1] /\ Head(ch) \in Chunk
           /\ Len(ch) \in Nat \ {0} /\ Len(Tail(ch)) = Len(ch) - 1
           /\ \A i \in 1 .. (Len(ch) - 1) : Tail(ch)[i] = ch[i + 1]
           /\ Tail(ch) = <<>> <=> Len(ch) = 1
<1>1. /\ Tail(ch) \in Seq(Chunk) /\ Head(ch) \in Chunk
      /\ Len(Tail(ch)) = Len(ch) - 1
      /\ \A i \in 1 .. Len(Tail(ch)) : Tail(ch)[i] = ch[i + 1]
  BY HeadTailProperties
<1>2. Head(ch) = ch[1]
  OBVIOUS
<1>3. Len(ch) \in Nat \ {0} /\ Len(<<>>) = 0
  BY EmptySeq
<1>4. Tail(ch) # <<>> => Len(Tail(ch)) # 0
  BY <1>1, EmptySeq
<1>5. \A i \in 1 .. (Len(ch) - 1) : Tail(ch)[i] = ch[i + 1]
  BY <1>1
<1>6. Tail(ch) = <<>> => Len(Tail(ch)) = 0
  BY <1>3
<1>7. Tail(ch) = <<>> <=> Len(ch) = 1
  BY <1>1, <1>3, <1>4, <1>6
<1> QED BY <1>1, <1>2, <1>3, <1>5, <1>7

-----------------------------------------------------------------------------
(* The invariant *)

LEMMA InitSound == BufferInit => BufferIsSound
<1> SUFFICES ASSUME BufferInit PROVE BufferIsSound
  OBVIOUS
<1>1. <<>> \in Seq(Chunk) /\ Len(<<>>) = 0
  BY EmptySeq
<1>2. BufferTypeOK
  <2>1. chunkCh \in Seq(Chunk) /\ Len(chunkCh) <= Cap
    BY <1>1, BufferAssumption DEF BufferInit
  <2>2. /\ sent \in 0 .. MaxBytes /\ filled \in 0 .. sent /\ got \in 0 .. filled
        /\ size \in 0 .. MaxRead
    BY BufferAssumption DEF BufferInit
  <2> QED BY <2>1, <2>2 DEF BufferInit, BufferTypeOK
<1>3. BytesInOrder
  BY <1>1 DEF BufferInit, BytesInOrder, Queued, Taken
<1> QED BY <1>2, <1>3 DEF BufferInit, BufferIsSound, WaitsForAReason

\* Delivering a chunk that starts with the next byte: what is returned and what
\* is left over are together the chunk.
LEMMA DeliverSplits ==
    ASSUME BufferIsSound, NEW c \in Chunk, c[1] = got + 1, c[2] <= filled, size > 0, Deliver(c)
    PROVE  \E n \in 1 .. size :
             /\ n <= filled - got /\ got' = got + n /\ last' = <<got + 1, n>>
             /\ leftover' \in Chunk \union {NoChunk}
             /\ leftover' # NoChunk => leftover'[1] = got' + 1 /\ leftover'[2] = c[2]
             /\ leftover' = NoChunk => got' = c[2]
             /\ Taken' = c[2]
<1> DEFINE n == IF size < Length(c) THEN size ELSE Length(c)
<1>1. size \in Nat /\ got \in Nat /\ filled \in Nat
  BY BufferAssumption DEF BufferIsSound, BufferTypeOK
<1>2. /\ c[2] \in 1 .. MaxBytes /\ c[2] \in Nat /\ c[1] <= c[2] /\ MaxBytes \in Nat
      /\ Length(c) = c[2] - got /\ Length(c) \in Nat \ {0}
  BY <1>1, BufferAssumption, ChunkBounds DEF Length
<1>3. n \in 1 .. size /\ n <= Length(c)
  BY <1>1, <1>2
<1>4. last' = <<c[1], n>> /\ got' = got + n
  BY DEF Deliver
<1>5. n <= filled - got
  BY <1>1, <1>2, <1>3
<1>6. CASE n < Length(c)
  <2>1. leftover' = <<c[1] + n, c[2]>>
    BY <1>6 DEF Deliver
  <2>2. c[1] + n \in 1 .. MaxBytes /\ c[1] + n <= c[2]
    BY <1>1, <1>2, <1>3, <1>6
  <2>3. leftover' \in Chunk /\ leftover'[1] = got + n + 1 /\ leftover'[2] = c[2]
    BY <1>1, <1>2, <1>3, <2>1, <2>2, MakeChunk
  <2>4. Taken' = c[2] /\ leftover' # NoChunk
    BY <2>3, ChunkBounds DEF Taken
  <2> QED BY <1>3, <1>4, <1>5, <2>3, <2>4
<1>7. CASE ~(n < Length(c))
  <2>1. leftover' = NoChunk /\ n = Length(c)
    BY <1>1, <1>2, <1>3, <1>7 DEF Deliver
  <2>2. got' = c[2]
    BY <1>1, <1>2, <1>4, <2>1
  <2> QED BY <1>3, <1>4, <1>5, <2>1, <2>2 DEF Taken
<1> QED BY <1>6, <1>7

\* Steps that move no byte leave the bytes in order.
LEMMA BytesStay ==
    ASSUME BytesInOrder, UNCHANGED <<filled, hand, chunkCh, leftover, got>>
    PROVE  BytesInOrder'
  BY DEF BytesInOrder, Queued, Taken

\* The same for the types of what holds bytes.
BytesOK ==
    /\ hand \in Chunk \union {NoChunk} /\ leftover \in Chunk \union {NoChunk}
    /\ chunkCh \in Seq(Chunk) /\ Len(chunkCh) <= Cap

LEMMA BytesOKStay ==
    ASSUME BufferTypeOK, UNCHANGED <<hand, chunkCh, leftover>>
    PROVE  BytesOK'
  BY DEF BufferTypeOK, BytesOK

\* Peer, deadlines, the end of fill, and every step of Read that takes nothing.
LEMMA QuietSound ==
    ASSUME BufferIsSound,
           \/ \E n \in 1 .. MaxBytes : Send(n)
           \/ \E how \in {"eof", "reset"} : PeerShut(how)
           \/ Close \/ FillEnd \/ CaptureDeadline \/ SelectDone \/ SelectTimeout
           \/ \E m \in 1 .. MaxRead : Call(m)
           \/ \E t \in {"none", "future", "past"} : SetReadDeadline(t)
    PROVE  BufferIsSound'
<1> DEFINE Rest ==
      /\ sent \in 0 .. MaxBytes /\ filled \in 0 .. sent /\ got \in 0 .. filled
      /\ closed \in {"open", "eof", "reset"}
      /\ done \in BOOLEAN /\ left \in BOOLEAN /\ armed \in BOOLEAN
      /\ pc \in {"idle", "read", "select"}
      /\ size \in 0 .. MaxRead /\ (size = 0 <=> pc = "idle")
      /\ deadline \in {"none", "future", "past"} /\ dl \in {"none", "future"}
      /\ outcome \in {"none", "bytes", "timeout", "end"}
<1>1. Rest /\ WaitsForAReason /\ MaxBytes \in Nat /\ MaxRead \in Nat
  BY BufferAssumption DEF BufferIsSound, BufferTypeOK
<1>r. ASSUME NEW how \in {"timeout", "end"}, Return(how),
             UNCHANGED <<sent, closed, filled, hand, done, chunkCh, leftover, deadline, got, left>>
      PROVE  Rest' /\ WaitsForAReason'
  <2>1. /\ pc' = "idle" /\ size' = 0 /\ armed' = FALSE /\ dl' = "none"
        /\ outcome' \in {"timeout", "end"}
    BY <1>r DEF Return
  <2>2. Rest'
    <3>1. size' \in 0 .. MaxRead /\ (size' = 0 <=> pc' = "idle") /\ pc' \in {"idle", "read", "select"}
      BY <1>1, <2>1
    <3>2. armed' \in BOOLEAN /\ dl' \in {"none", "future"} /\ outcome' \in {"none", "bytes", "timeout", "end"}
      BY <2>1
    <3>3. /\ sent' \in 0 .. MaxBytes /\ filled' \in 0 .. sent' /\ got' \in 0 .. filled'
          /\ closed' \in {"open", "eof", "reset"} /\ done' \in BOOLEAN /\ left' \in BOOLEAN
          /\ deadline' \in {"none", "future", "past"}
      BY <1>1, <1>r
    <3> QED BY <3>1, <3>2, <3>3
  <2>3. WaitsForAReason'
    BY <1>1, <1>r, <2>1 DEF WaitsForAReason
  <2> QED BY <2>2, <2>3
<1>2. Rest' /\ WaitsForAReason' /\ UNCHANGED <<filled, hand, chunkCh, leftover, got>>
  <2> USE DEF WaitsForAReason, callVars, fillVars
  <2>1. ASSUME NEW n \in 1 .. MaxBytes, Send(n)
        PROVE  Rest' /\ WaitsForAReason' /\ UNCHANGED <<filled, hand, chunkCh, leftover, got>>
    BY <1>1, <2>1 DEF Send
  <2>2. ASSUME NEW how \in {"eof", "reset"}, PeerShut(how)
        PROVE  Rest' /\ WaitsForAReason' /\ UNCHANGED <<filled, hand, chunkCh, leftover, got>>
    BY <1>1, <2>2 DEF PeerShut
  <2>3. ASSUME Close
        PROVE  Rest' /\ WaitsForAReason' /\ UNCHANGED <<filled, hand, chunkCh, leftover, got>>
    BY <1>1, <2>3 DEF Close
  <2>4. ASSUME FillEnd
        PROVE  Rest' /\ WaitsForAReason' /\ UNCHANGED <<filled, hand, chunkCh, leftover, got>>
    BY <1>1, <2>4 DEF FillEnd
  <2>5. ASSUME CaptureDeadline
        PROVE  Rest' /\ WaitsForAReason' /\ UNCHANGED <<filled, hand, chunkCh, leftover, got>>
    <3>0. UNCHANGED <<sent, closed, filled, hand, done, chunkCh, leftover, deadline, got, left>>
      BY <2>5 DEF CaptureDeadline
    <3>1. CASE Return("timeout")
      BY <1>r, <3>0, <3>1
    <3>2. CASE pc' = "select" /\ dl' = deadline /\ UNCHANGED <<size, armed, outcome>>
      <4>1. pc = "read" /\ leftover = NoChunk /\ deadline # "past"
        BY <2>5, <3>2 DEF CaptureDeadline, Return
      <4> QED BY <1>1, <3>0, <3>2, <4>1
    <3> QED BY <2>5, <3>1, <3>2 DEF CaptureDeadline
  <2>6. ASSUME SelectDone \/ SelectTimeout
        PROVE  Rest' /\ WaitsForAReason' /\ UNCHANGED <<filled, hand, chunkCh, leftover, got>>
    <3>1. /\ UNCHANGED <<sent, closed, filled, hand, done, chunkCh, leftover, deadline, got, left>>
          /\ \E how \in {"timeout", "end"} : Return(how)
      BY <2>6 DEF SelectDone, SelectTimeout
    <3> QED BY <1>r, <3>1
  <2>7. ASSUME NEW m \in 1 .. MaxRead, Call(m)
        PROVE  Rest' /\ WaitsForAReason' /\ UNCHANGED <<filled, hand, chunkCh, leftover, got>>
    <3>1. m \in Nat \ {0} /\ m <= MaxRead
      BY <1>1
    <3>2. Rest' /\ UNCHANGED <<filled, hand, chunkCh, leftover, got>>
      BY <1>1, <2>7, <3>1 DEF Call
    <3>3. WaitsForAReason'
      BY <1>1, <2>7 DEF Call
    <3> QED BY <3>2, <3>3
  <2>8. ASSUME NEW t \in {"none", "future", "past"}, SetReadDeadline(t)
        PROVE  Rest' /\ WaitsForAReason' /\ UNCHANGED <<filled, hand, chunkCh, leftover, got>>
    BY <1>1, <2>8 DEF SetReadDeadline
  <2> QED BY <2>1, <2>2, <2>3, <2>4, <2>5, <2>6, <2>7, <2>8
<1>3. BytesInOrder' /\ BytesOK'
  BY <1>2, BytesStay, BytesOKStay DEF BufferIsSound
<1> QED BY <1>2, <1>3 DEF BufferIsSound, BufferTypeOK, BytesOK

\* The numbers an argument about bytes needs.
LEMMA Numbers ==
    ASSUME BufferTypeOK
    PROVE  /\ sent \in Nat /\ filled \in Nat /\ got \in Nat /\ size \in Nat /\ Len(chunkCh) \in Nat
           /\ filled <= sent /\ got <= filled /\ sent <= MaxBytes
           /\ MaxBytes \in Nat /\ MaxRead \in Nat /\ Cap \in Nat
  BY BufferAssumption, LenProperties DEF BufferTypeOK

\* fill reads n bytes: they follow what it has put into the channel.
LEMMA FillReadSound ==
    ASSUME BufferIsSound, NEW n \in 1 .. MaxChunk, FillRead(n)
    PROVE  BufferIsSound'
<1>1. /\ hand = NoChunk /\ ~done /\ filled + n <= sent
      /\ hand' = <<filled + 1, filled + n>> /\ filled' = filled + n
      /\ UNCHANGED <<sent, closed, done, chunkCh, leftover, pc, dl, deadline, size, armed, got,
                     last, outcome, left>>
  BY DEF FillRead, callVars
<1>2. BufferTypeOK /\ BytesInOrder /\ WaitsForAReason
  BY DEF BufferIsSound
<1>3. /\ n \in Nat \ {0} /\ filled \in Nat /\ got \in Nat /\ sent \in Nat
      /\ filled + n <= MaxBytes /\ MaxBytes \in Nat /\ got <= filled
  BY <1>1, <1>2, Numbers, BufferAssumption
<1>4. hand' \in Chunk
  <2>1. filled + 1 \in 1 .. MaxBytes /\ filled + n \in 1 .. MaxBytes /\ filled + 1 <= filled + n
    BY <1>3
  <2> QED BY <1>1, <2>1, MakeChunk
<1>5. BufferTypeOK'
  <2>1. filled' \in 0 .. sent' /\ got' \in 0 .. filled'
    BY <1>1, <1>3
  <2> QED BY <1>1, <1>2, <1>4, <2>1 DEF BufferTypeOK
<1>6. BytesInOrder'
  <2>1. Queued' = Queued /\ Taken' = Taken /\ filled = Queued
    BY <1>1, <1>2 DEF BytesInOrder, Queued, Taken
  <2>2. hand' # NoChunk /\ hand' = <<Queued' + 1, filled'>>
    BY <1>1, <1>4, <2>1, ChunkBounds
  <2>3. leftover' # NoChunk => leftover'[1] = got' + 1 /\ leftover'[2] <= filled'
    <3>1. leftover # NoChunk => leftover[2] \in Nat
      BY <1>2, <1>3, ChunkBounds DEF BufferTypeOK
    <3> QED BY <1>1, <1>2, <1>3, <3>1 DEF BytesInOrder
  <2>4. \A i \in 1 .. Len(chunkCh) : chunkCh[i][2] <= filled + n
    <3>1. ASSUME NEW i \in 1 .. Len(chunkCh) PROVE chunkCh[i][2] <= filled + n
      <4>1. chunkCh[i] \in Chunk
        BY <1>2, ElementOfSeq DEF BufferTypeOK
      <4>2. chunkCh[i][2] \in Nat
        BY <1>3, <4>1, ChunkBounds
      <4>3. chunkCh[i][2] <= filled
        BY <1>2 DEF BytesInOrder
      <4> QED BY <1>3, <4>2, <4>3
    <3> QED BY <3>1
  <2> QED BY <1>1, <1>2, <2>1, <2>2, <2>3, <2>4 DEF BytesInOrder
<1>7. WaitsForAReason'
  BY <1>1, <1>2 DEF WaitsForAReason
<1> QED BY <1>5, <1>6, <1>7 DEF BufferIsSound

\* fill puts its chunk into the channel.
LEMMA FillPushSound ==
    ASSUME BufferIsSound, FillPush
    PROVE  BufferIsSound'
<1>1. /\ hand # NoChunk /\ Len(chunkCh) < Cap
      /\ chunkCh' = Append(chunkCh, hand) /\ hand' = NoChunk
      /\ UNCHANGED <<sent, closed, filled, done, leftover, pc, dl, deadline, size, armed, got,
                     last, outcome, left>>
  BY DEF FillPush, callVars
<1>2. BufferTypeOK /\ BytesInOrder /\ WaitsForAReason
  BY DEF BufferIsSound
<1> DEFINE k == Len(chunkCh)
<1>3. /\ hand \in Chunk /\ chunkCh \in Seq(Chunk) /\ hand = <<Queued + 1, filled>>
      /\ k \in Nat /\ Cap \in Nat
  BY <1>1, <1>2, Numbers DEF BufferTypeOK, BytesInOrder
<1>4. /\ chunkCh' \in Seq(Chunk) /\ chunkCh' # <<>> /\ Len(chunkCh') = k + 1
      /\ \A i \in 1 .. k : chunkCh'[i] = chunkCh[i]
      /\ chunkCh'[k + 1] = hand
      /\ chunkCh = <<>> <=> k = 0
  BY <1>1, <1>3, PushChunk
<1>5. hand[1] = Queued + 1 /\ hand[2] = filled /\ filled \in Nat
  BY <1>2, <1>3, Numbers
<1>6. BufferTypeOK'
  <2>1. Len(chunkCh') <= Cap
    BY <1>1, <1>3, <1>4
  <2> QED BY <1>1, <1>2, <1>4, <2>1 DEF BufferTypeOK
<1>7. BytesInOrder'
  <2>1. Taken' = Taken
    BY <1>1 DEF Taken
  <2>2. Queued' = filled
    BY <1>4, <1>5 DEF Queued
  <2>3. chunkCh'[1][1] = Taken + 1
    <3>1. CASE k = 0
      BY <1>4, <1>5, <3>1 DEF Queued
    <3>2. CASE k # 0
      BY <1>2, <1>3, <1>4, <3>2 DEF BytesInOrder
    <3> QED BY <3>1, <3>2
  <2>4. ASSUME NEW i \in 1 .. (Len(chunkCh') - 1) PROVE chunkCh'[i + 1][1] = chunkCh'[i][2] + 1
    <3>1. i \in 1 .. k
      BY <1>3, <1>4
    <3>2. CASE i = k
      <4>1. chunkCh # <<>> /\ Queued = chunkCh[k][2]
        BY <1>3, <1>4, <3>1, <3>2 DEF Queued
      <4> QED BY <1>4, <1>5, <3>1, <3>2, <4>1
    <3>3. CASE i # k
      <4>1. i \in 1 .. (k - 1) /\ i + 1 \in 1 .. k
        BY <1>3, <3>1, <3>3
      <4>2. chunkCh[i + 1][1] = chunkCh[i][2] + 1
        BY <1>2, <4>1 DEF BytesInOrder
      <4> QED BY <1>4, <3>1, <4>1, <4>2
    <3> QED BY <3>2, <3>3
  <2>5. ASSUME NEW i \in 1 .. Len(chunkCh') PROVE chunkCh'[i][2] <= filled
    <3>1. i \in 1 .. k \/ i = k + 1
      BY <1>3, <1>4
    <3> QED BY <1>2, <1>4, <1>5, <3>1 DEF BytesInOrder
  <2> QED BY <1>1, <1>2, <1>4, <2>1, <2>2, <2>3, <2>4, <2>5 DEF BytesInOrder
<1>8. WaitsForAReason'
  BY <1>1, <1>2 DEF WaitsForAReason
<1> QED BY <1>6, <1>7, <1>8 DEF BufferIsSound

\* A Read that returned bytes is idle, and its deadline forgotten.
LEMMA ReturnSound ==
    ASSUME BufferTypeOK, WaitsForAReason, NEW n \in 1 .. size, n <= filled - got, got' = got + n,
           Return("bytes"), leftover' \in Chunk \union {NoChunk},
           chunkCh' \in Seq(Chunk), Len(chunkCh') <= Cap,
           UNCHANGED <<sent, closed, filled, hand, done, deadline, left>>
    PROVE  BufferTypeOK' /\ WaitsForAReason'
<1>1. /\ pc' = "idle" /\ size' = 0 /\ armed' = FALSE /\ dl' = "none" /\ outcome' = "bytes"
  BY DEF Return
<1>2. got' \in 0 .. filled' /\ size' \in 0 .. MaxRead
  BY <1>1, Numbers
<1>3. WaitsForAReason'
  BY <1>1 DEF WaitsForAReason
<1>4. (size' = 0 <=> pc' = "idle") /\ armed' \in BOOLEAN
  BY <1>1
<1>5. pc' \in {"idle", "read", "select"} /\ dl' \in {"none", "future"}
      /\ outcome' \in {"none", "bytes", "timeout", "end"}
  BY <1>1
<1> QED BY <1>2, <1>3, <1>4, <1>5 DEF BufferTypeOK

\* Read returns from the leftover.
LEMMA ReadLeftoverSound ==
    ASSUME BufferIsSound, ReadLeftover
    PROVE  /\ BufferIsSound'
           /\ \E n \in 1 .. size : n <= sent - got /\ got' = got + n /\ last' = <<got + 1, n>>
<1>1. /\ pc = "read" /\ leftover # NoChunk /\ Deliver(leftover)
      /\ UNCHANGED <<sent, closed, filled, hand, done, chunkCh, deadline, left>>
  BY DEF ReadLeftover, fillVars
<1>2. BufferTypeOK /\ BytesInOrder /\ WaitsForAReason
  BY DEF BufferIsSound
<1>3. leftover \in Chunk /\ leftover[1] = got + 1 /\ leftover[2] <= filled
  BY <1>1, <1>2 DEF BufferTypeOK, BytesInOrder
<1>4. size > 0
  BY <1>1, <1>2, Numbers DEF BufferTypeOK
<1>5. PICK n \in 1 .. size :
        /\ n <= filled - got /\ got' = got + n /\ last' = <<got + 1, n>>
        /\ leftover' \in Chunk \union {NoChunk}
        /\ leftover' # NoChunk => leftover'[1] = got' + 1 /\ leftover'[2] = leftover[2]
        /\ leftover' = NoChunk => got' = leftover[2]
        /\ Taken' = leftover[2]
  BY <1>1, <1>3, <1>4, DeliverSplits
<1>6. BufferTypeOK' /\ WaitsForAReason'
  <2>1. Return("bytes") /\ chunkCh' \in Seq(Chunk) /\ Len(chunkCh') <= Cap
    BY <1>1, <1>2 DEF Deliver, BufferTypeOK
  <2> QED BY <1>1, <1>2, <1>5, <2>1, ReturnSound
<1>7. BytesInOrder'
  <2>1. Taken' = Taken
    BY <1>1, <1>5 DEF Taken
  <2>2. Queued' = Queued
    BY <1>1, <2>1 DEF Queued
  <2> QED BY <1>1, <1>2, <1>3, <1>5, <2>1, <2>2 DEF BytesInOrder
<1>8. n <= sent - got
  BY <1>2, <1>5, Numbers
<1> QED BY <1>5, <1>6, <1>7, <1>8 DEF BufferIsSound

\* Read returns from the channel.
LEMMA SelectChunkSound ==
    ASSUME BufferIsSound, SelectChunk
    PROVE  /\ BufferIsSound'
           /\ \E n \in 1 .. size : n <= sent - got /\ got' = got + n /\ last' = <<got + 1, n>>
<1> DEFINE c == chunkCh[1]
           k == Len(chunkCh)
<1>1. /\ pc = "select" /\ chunkCh # <<>> /\ Deliver(Head(chunkCh)) /\ chunkCh' = Tail(chunkCh)
      /\ UNCHANGED <<sent, closed, filled, hand, done, deadline, left>>
  BY DEF SelectChunk, fillVars
<1>2. BufferTypeOK /\ BytesInOrder /\ WaitsForAReason
  BY DEF BufferIsSound
<1>3. /\ chunkCh' \in Seq(Chunk) /\ Head(chunkCh) = c /\ c \in Chunk
      /\ k \in Nat \ {0} /\ Len(chunkCh') = k - 1
      /\ \A i \in 1 .. (k - 1) : chunkCh'[i] = chunkCh[i + 1]
      /\ chunkCh' = <<>> <=> k = 1
  BY <1>1, <1>2, TakeChunk DEF BufferTypeOK
<1>4. leftover = NoChunk /\ Taken = got
  BY <1>1, <1>2 DEF WaitsForAReason, Taken
<1>5. c[1] = got + 1 /\ c[2] <= filled
  BY <1>1, <1>2, <1>3, <1>4 DEF BytesInOrder
<1>6. size > 0
  BY <1>1, <1>2, Numbers DEF BufferTypeOK
<1>7. PICK n \in 1 .. size :
        /\ n <= filled - got /\ got' = got + n /\ last' = <<got + 1, n>>
        /\ leftover' \in Chunk \union {NoChunk}
        /\ leftover' # NoChunk => leftover'[1] = got' + 1 /\ leftover'[2] = c[2]
        /\ leftover' = NoChunk => got' = c[2]
        /\ Taken' = c[2]
  BY <1>1, <1>3, <1>5, <1>6, DeliverSplits
<1>8. BufferTypeOK' /\ WaitsForAReason'
  <2>1. Return("bytes")
    BY <1>1 DEF Deliver
  <2>2. Len(chunkCh') <= Cap
    BY <1>2, <1>3, BufferAssumption DEF BufferTypeOK
  <2> QED BY <1>1, <1>2, <1>3, <1>7, <2>1, <2>2, ReturnSound
<1>9. BytesInOrder'
  <2>1. Queued' = Queued
    <3>1. CASE k = 1
      BY <1>1, <1>3, <1>7, <3>1 DEF Queued
    <3>2. CASE k # 1
      <4>1. k - 1 \in 1 .. (k - 1) /\ (k - 1) + 1 = k
        BY <1>3, <3>2
      <4>2. chunkCh'[k - 1] = chunkCh[k]
        BY <1>3, <4>1
      <4> QED BY <1>1, <1>3, <3>2, <4>2 DEF Queued
    <3> QED BY <3>1, <3>2
  <2>2. chunkCh' # <<>> => chunkCh'[1][1] = Taken' + 1
    <3>1. SUFFICES ASSUME k # 1 PROVE chunkCh'[1][1] = Taken' + 1
      BY <1>3
    <3>2. 1 \in 1 .. (k - 1)
      BY <1>3, <3>1
    <3>3. chunkCh'[1] = chunkCh[2] /\ chunkCh[2][1] = c[2] + 1
      BY <1>2, <1>3, <3>2 DEF BytesInOrder
    <3> QED BY <1>7, <3>3
  <2>3. ASSUME NEW i \in 1 .. (Len(chunkCh') - 1) PROVE chunkCh'[i + 1][1] = chunkCh'[i][2] + 1
    <3>1. i \in 1 .. (k - 1) /\ i + 1 \in 1 .. (k - 1)
      BY <1>3
    <3>2. chunkCh'[i] = chunkCh[i + 1] /\ chunkCh'[i + 1] = chunkCh[(i + 1) + 1]
      BY <1>3, <3>1
    <3>3. chunkCh[(i + 1) + 1][1] = chunkCh[i + 1][2] + 1
      BY <1>2, <3>1 DEF BytesInOrder
    <3> QED BY <3>2, <3>3
  <2>4. ASSUME NEW i \in 1 .. Len(chunkCh') PROVE chunkCh'[i][2] <= filled
    <3>1. i \in 1 .. (k - 1) /\ i + 1 \in 1 .. k
      BY <1>3
    <3> QED BY <1>2, <1>3, <3>1 DEF BytesInOrder
  <2>5. leftover' # NoChunk => leftover'[1] = got' + 1 /\ leftover'[2] <= filled'
    BY <1>1, <1>5, <1>7
  <2>6. IF hand' = NoChunk THEN filled' = Queued' ELSE hand' = <<Queued' + 1, filled'>>
    BY <1>1, <1>2, <2>1 DEF BytesInOrder
  <2> QED BY <1>1, <2>2, <2>3, <2>4, <2>5, <2>6 DEF BytesInOrder
<1>10. n <= sent - got
  BY <1>2, <1>7, Numbers
<1> QED BY <1>7, <1>8, <1>9, <1>10 DEF BufferIsSound

\* Every step keeps the bytes in order.
LEMMA NextSound == BufferIsSound /\ [BufferNext]_bufferVars => BufferIsSound'
<1> SUFFICES ASSUME BufferIsSound, [BufferNext]_bufferVars PROVE BufferIsSound'
  OBVIOUS
<1>1. CASE UNCHANGED bufferVars
  <2>1. UNCHANGED <<filled, hand, chunkCh, leftover, got>>
    BY <1>1 DEF bufferVars, fillVars, callVars
  <2>2. BytesInOrder' /\ BytesOK'
    BY <2>1, BytesStay, BytesOKStay DEF BufferIsSound
  <2> QED BY <1>1, <2>2
          DEF BufferIsSound, BufferTypeOK, BytesOK, WaitsForAReason, bufferVars, fillVars, callVars
<1>2. CASE BufferNext
  BY <1>2, QuietSound, FillReadSound, FillPushSound, ReadLeftoverSound, SelectChunkSound
  DEF BufferNext, Fill, Read, Peer
<1> QED BY <1>1, <1>2

\* For every capacity and every size of buffer: no byte waits out of its place,
\* the channel stays within its capacity, a Read that can time out has had a
\* deadline, and doneCh is closed only after the last byte or a reset.
THEOREM BufferSound == BufferSpec => []BufferIsSound
  BY InitSound, NextSound, PTL DEF BufferSpec

-----------------------------------------------------------------------------
(* The refinement *)

\* A step that returns no byte does what ByteStream allows, or nothing it sees.
LEMMA QuietRefines ==
    ASSUME BufferIsSound,
           \/ \E n \in 1 .. MaxBytes : Send(n)
           \/ \E how \in {"eof", "reset"} : PeerShut(how)
           \/ Close \/ FillEnd \/ FillPush \/ CaptureDeadline \/ SelectDone \/ SelectTimeout
           \/ \E n \in 1 .. MaxChunk : FillRead(n)
           \/ \E m \in 1 .. MaxRead : Call(m)
           \/ \E t \in {"none", "future", "past"} : SetReadDeadline(t)
    PROVE  [Stream!Next]_Stream!vars
<1>1. BufferTypeOK /\ BytesInOrder /\ WaitsForAReason
  BY DEF BufferIsSound
<1>2. /\ sent \in Nat /\ size \in Nat /\ MaxBytes \in Nat
      /\ pc \in {"idle", "read", "select"} /\ (size = 0 <=> pc = "idle")
  BY <1>1, Numbers DEF BufferTypeOK
<1> USE DEF Stream!Next, Stream!vars, fillVars, callVars
<1>3. ASSUME NEW n \in 1 .. MaxBytes, Send(n) PROVE Stream!Send(n)
  <2>1. n \in 1 .. (MaxBytes - sent)
    BY <1>2, <1>3 DEF Send
  <2> QED BY <1>3, <2>1 DEF Send, Stream!Send
<1>4. ASSUME NEW how \in {"eof", "reset"}, PeerShut(how) PROVE Stream!Shut(how)
  BY <1>4 DEF PeerShut, Stream!Shut
<1>5. ASSUME Close PROVE Stream!Shut("reset") \/ UNCHANGED Stream!vars
  BY <1>5 DEF Close, Stream!Shut
<1>6. ASSUME NEW n \in 1 .. MaxChunk, FillEnd \/ FillPush \/ FillRead(n)
      PROVE  UNCHANGED Stream!vars
  BY <1>6 DEF FillEnd, FillPush, FillRead
<1>7. ASSUME NEW how \in {"timeout"}, Return(how), pc # "idle", armed,
             UNCHANGED <<sent, closed, deadline, got, last>>
      PROVE  Stream!TimeOut
  BY <1>2, <1>7 DEF Return, Stream!TimeOut
<1>8. ASSUME CaptureDeadline PROVE Stream!TimeOut \/ UNCHANGED Stream!vars
  <2>1. CASE Return("timeout") /\ deadline # "none"
    <3>1. armed /\ pc # "idle" /\ UNCHANGED <<sent, closed, deadline, got, last>>
      BY <1>1, <1>8, <2>1 DEF CaptureDeadline, WaitsForAReason
    <3> QED BY <1>7, <2>1, <3>1
  <2>2. CASE UNCHANGED <<size, armed, outcome>>
    BY <1>8, <2>2 DEF CaptureDeadline
  <2> QED BY <1>8, <2>1, <2>2 DEF CaptureDeadline
<1>9. ASSUME SelectTimeout PROVE Stream!TimeOut
  <2>1. /\ armed /\ pc # "idle" /\ Return("timeout")
        /\ UNCHANGED <<sent, closed, deadline, got, last>>
    BY <1>1, <1>9 DEF SelectTimeout, WaitsForAReason
  <2> QED BY <1>7, <2>1
<1>10. ASSUME SelectDone PROVE Stream!End
  <2>1. /\ pc = "select" /\ done /\ chunkCh = <<>> /\ Return("end")
        /\ UNCHANGED <<sent, closed, deadline, got, last>>
    BY <1>10 DEF SelectDone
  <2>2. leftover = NoChunk /\ hand = NoChunk /\ closed # "open" /\ (closed = "eof" => filled = sent)
    BY <1>1, <2>1 DEF WaitsForAReason
  <2>3. got = filled
    BY <1>1, <2>1, <2>2 DEF BytesInOrder, Queued, Taken
  <2>4. size > 0
    BY <1>2, <2>1
  <2> QED BY <2>1, <2>2, <2>3, <2>4 DEF Return, Stream!End
<1>11. ASSUME NEW m \in 1 .. MaxRead, Call(m) PROVE Stream!Call(m)
  BY <1>2, <1>11 DEF Call, Stream!Call
<1>12. ASSUME NEW t \in {"none", "future", "past"}, SetReadDeadline(t)
       PROVE  Stream!SetReadDeadline(t)
  <2>1. size > 0 <=> pc # "idle"
    BY <1>2
  <2> QED BY <1>12, <2>1 DEF SetReadDeadline, Stream!SetReadDeadline
<1> QED BY <1>3, <1>4, <1>5, <1>6, <1>8, <1>9, <1>10, <1>11, <1>12, BufferAssumption

\* A step that returns bytes returns the next ones.
LEMMA DeliveryRefines ==
    ASSUME BufferIsSound, ReadLeftover \/ SelectChunk
    PROVE  Stream!Next
<1>1. PICK n \in 1 .. size : n <= sent - got /\ got' = got + n /\ last' = <<got + 1, n>>
  BY ReadLeftoverSound, SelectChunkSound
<1>2. Return("bytes") /\ UNCHANGED <<sent, closed, deadline>>
  BY DEF ReadLeftover, SelectChunk, Deliver
<1>3. size \in Nat /\ n \in 1 .. MaxRead /\ size > 0
  BY <1>1, Numbers DEF BufferIsSound, BufferTypeOK
<1>4. Stream!Deliver(n)
  BY <1>1, <1>2, <1>3 DEF Return, Stream!Deliver
<1> QED BY <1>3, <1>4 DEF Stream!Next

\* bufferedConn implements ByteStream: under every interleaving of fill, Read,
\* deadlines and Close, for every size of buffer and channel, the caller gets
\* the bytes the peer wrote, once and in order, timeouts take none, and the end
\* comes after the last of them.
THEOREM BufferImplementsStream == BufferSpec => ImplementsStream
<1>1. BufferInit => Stream!Init
  BY DEF BufferInit, Stream!Init
<1>2. BufferIsSound /\ [BufferNext]_bufferVars => [Stream!Next]_Stream!vars
  <2> SUFFICES ASSUME BufferIsSound, [BufferNext]_bufferVars PROVE [Stream!Next]_Stream!vars
    OBVIOUS
  <2>1. CASE UNCHANGED bufferVars
    BY <2>1 DEF bufferVars, callVars, Stream!vars
  <2>2. CASE BufferNext
    BY <2>2, QuietRefines, DeliveryRefines DEF BufferNext, Fill, Read, Peer
  <2> QED BY <2>1, <2>2
<1> QED BY <1>1, <1>2, BufferSound, PTL DEF BufferSpec, ImplementsStream, Stream!Spec
=============================================================================
