------------------------- MODULE FileTransferProofs -------------------------
(***************************************************************************)
(* For any files, names, sizes and number of faults: what a receiver shows *)
(* as received is on its disk, intact, and is never replaced, but for      *)
(* names that a .part file and a download had at once; a transfer that     *)
(* meets no trouble does not fail.                                         *)
(***************************************************************************)
EXTENDS FileTransfer, SequenceTheorems, TLAPS

\* A frame waiting or in flight is of a file that was hashed, and an offer
\* carries that hash.
IsSent(f) == sent[f[1]] # None /\ (f[2] = 0 => f[3] = sum[f[1]])
FramesAreSent ==
    /\ \A f \in Range(queue) \cup Range(todo) \cup Range(down) : IsSent(f)
    /\ \A t \in Transfer : hold[t] # None => IsSent(hold[t])

\* An open transfer has the hash it was offered, and a name no earlier
\* candidate of which has become free.
Clear == ~ crashed /\ ~ NamesMeet
OpenIsSound ==
    \A t \in Transfer : Opened(t) =>
      /\ sent[t] # None /\ tr[t].sum = sum[t]
      /\ \E k \in 1 .. MaxCopies :
           /\ tr[t].path = Copy[name[t]][k]
           /\ Clear => \A j \in 1 .. (k - 1) : Copy[name[t]][j] \in done

\* The names in the directory come from the files sent.
NamesAreKnown ==
    /\ \A p \in done : \E t \in Transfer, k \in 1 .. MaxCopies :
         sent[t] # None /\ p = Copy[name[t]][k]
    /\ mixed # {} => NamesMeet

\* Two transfers with one name are counted as shared, and a name that is a .part
\* file's and a download's is counted as mixed.
NamesAreMarked ==
    \A t, u \in Transfer : Opened(t) /\ Opened(u) /\ t # u =>
      /\ tr[t].path = tr[u].path => t \in shared
      /\ tr[t].path = PartOf[tr[u].path] => tr[t].path \in mixed
PartsAreMarked ==
    \A t \in Transfer : Opened(t) /\ PartOf[tr[t].path] \in done => PartOf[tr[t].path] \in mixed

\* A finished download is there, and no transfer is about to be renamed over it.
DoneIsKept ==
    \A p \in done : Apart(p) =>
      /\ dir[p] # None
      /\ \A t \in Transfer : Opened(t) /\ tr[t].path = p => dir[PartOf[p]] = None

\* A file has one name, and a file handle is of the .part file or of a download
\* the .part file has become.
InodesAreOwn ==
    /\ \A f, g \in File : dir[f] # None /\ dir[f] = dir[g] => f = g
    /\ \A t \in Transfer, f \in File :
         Opened(t) /\ tr[t].file = dir[f] => f = PartOf[tr[t].path] \/ f \in done

\* A transfer that shares its name with none has its .part file to itself, and
\* what it hashed is what the file holds.
Owns(t) ==
    /\ dir[PartOf[tr[t].path]] = tr[t].file
    /\ \A u \in Transfer : Opened(u) /\ tr[u].file = tr[t].file => u = t
    /\ \A i \in 1 .. (tr[t].next - 1) : inode[tr[t].file][i] = tr[t].hasher[i]
OwnsItsPart ==
    \A t \in Transfer : Opened(t) /\ t \notin shared /\ PartOf[tr[t].path] \notin mixed => Owns(t)

\* A received file is intact and no transfer has it open.
ReceivedIsKept ==
    \A t \in Transfer : row[t].status = "received" =>
      /\ row[t].path \in done /\ sent[t] # None
      /\ t \notin shared /\ Apart(row[t].path) =>
           Intact(t) /\ \A u \in Transfer : Opened(u) => tr[u].file # dir[row[t].path]

DiskInv ==
    /\ FramesAreSent /\ OpenIsSound /\ NamesAreKnown /\ NamesAreMarked /\ PartsAreMarked
    /\ DoneIsKept /\ InodesAreOwn /\ OwnsItsPart /\ ReceivedIsKept /\ NoOrphanPart

\* The frames of t in s are the ones from n up to m - 1, of version v, in order.
Flow(s, t, n, m, v) ==
    /\ \A i, j \in 1 .. Len(s) : i < j /\ s[i][1] = t /\ s[j][1] = t => s[i][2] < s[j][2]
    /\ \A i \in 1 .. Len(s) : s[i][1] = t => n <= s[i][2] /\ s[i][2] < m /\ s[i][3] = v
    /\ \A k \in n .. (m - 1) : \E i \in 1 .. Len(s) : s[i][1] = t /\ s[i][2] = k

\* The frame a transfer waits for, and the one that the relay has yet to pass on.
NextFrame(t) ==
    IF Opened(t) THEN tr[t].next ELSE IF row[t].status = "none" THEN 0 ELSE Chunks + 1
Upto(t) == IF sent[t] = None THEN 0 ELSE IF hold[t] = None THEN sent[t] ELSE sent[t] - 1

\* The frames in flight are the ones that are waited for, up to m, and the rows
\* still to be sent go on from there.
Joined(t, m) ==
    /\ NextFrame(t) <= m /\ m <= Upto(t)
    /\ Flow(down, t, NextFrame(t), m, sum[t])
    /\ Flow(Rest, t, m, Upto(t), sum[t])

\* The frames still to come of a transfer are all the ones it waits for, in
\* order, and what it has hashed is the file.
OnCourse(t) ==
    /\ Opened(t) => row[t].status = "receiving"
    /\ ~ Opened(t) => \/ row[t].status \in {"none", "received"}
                      \/ row[t].status = "failed" /\ ~ Apart(row[t].path)
    /\ sent[t] # None => version[t] = sum[t]
    /\ hold[t] # None => sent[t] # None /\ hold[t] = <<t, sent[t] - 1, sum[t]>>
    /\ Opened(t) => \A i \in 1 .. (tr[t].next - 1) : tr[t].hasher[i] = <<t, i, sum[t]>>
    /\ \E m \in Nat : Joined(t, m)

\* While nothing went wrong, a transfer is on course.
Straight == Transfer \ (hurt \cup overtaken \cup shared \cup edited)
InOrder == faults = 0 => \A t \in Straight : OnCourse(t)

TransferInv == TypeOK /\ DiskInv /\ InOrder

-----------------------------------------------------------------------------
(* Frames in a sequence.                                                   *)

LEMMA RowsOfTable ==
    ASSUME NEW S, NEW s \in Seq(S)
    PROVE  /\ Len(s) \in Nat /\ DOMAIN s = 1 .. Len(s)
           /\ Range(s) \subseteq S
           /\ \A i \in 1 .. Len(s) : s[i] \in Range(s)
           /\ \A x \in Range(s) : \E i \in 1 .. Len(s) : s[i] = x
<1>1. Len(s) \in Nat /\ DOMAIN s = 1 .. Len(s)
    BY LenProperties
<1>2. \A i \in 1 .. Len(s) : s[i] \in S
    BY ElementOfSeq
<1> QED
    BY <1>1, <1>2 DEF Range

LEMMA AppendRow ==
    ASSUME NEW S, NEW s \in Seq(S), NEW x \in S
    PROVE  /\ Append(s, x) \in Seq(S)
           /\ Range(Append(s, x)) = Range(s) \cup {x}
           /\ Len(Append(s, x)) = Len(s) + 1 /\ Append(s, x)[Len(s) + 1] = x
           /\ \A i \in 1 .. Len(s) : Append(s, x)[i] = s[i]
<1> DEFINE t == Append(s, x)
<1>1. /\ t \in Seq(S) /\ Len(t) = Len(s) + 1 /\ Len(s) \in Nat
      /\ t[Len(s) + 1] = x /\ \A i \in 1 .. Len(s) : t[i] = s[i]
    BY AppendProperties, LenProperties
<1> HIDE DEF t
<1>3. \A i \in 1 .. Len(t) : i \in 1 .. Len(s) \/ i = Len(s) + 1
    BY <1>1
<1>4. ASSUME NEW y, y \in Range(t) PROVE y \in Range(s) \/ y = x
    BY <1>4, <1>1, <1>3, RowsOfTable
<1>5. ASSUME NEW y, y \in Range(s) PROVE y \in Range(t)
  <2>1. PICK i \in 1 .. Len(s) : s[i] = y
      BY <1>5, RowsOfTable
  <2>2. i \in 1 .. Len(t) /\ t[i] = y
      BY <2>1, <1>1
  <2> QED
      BY <2>2, <1>1, RowsOfTable
<1>6. x \in Range(t)
  <2>1. Len(s) + 1 \in 1 .. Len(t)
      BY <1>1
  <2> QED
      BY <2>1, <1>1, RowsOfTable
<1>7. Range(t) = Range(s) \cup {x}
    BY <1>4, <1>5, <1>6
<1> QED
    BY <1>1, <1>7 DEF t

LEMMA SubTable ==
    ASSUME NEW S, NEW s \in Seq(S), NEW a \in 1 .. (Len(s) + 1), NEW b \in 0 .. Len(s)
    PROVE  /\ SubSeq(s, a, b) \in Seq(S)
           /\ Range(SubSeq(s, a, b)) \subseteq Range(s)
<1> DEFINE t == SubSeq(s, a, b)
<1>0. Len(s) \in Nat /\ a \in Int /\ b \in Int
    BY LenProperties
<1>1. \A i \in a .. b : i \in 1 .. Len(s) /\ s[i] \in S
    BY <1>0, LenProperties
<1>2. /\ t \in Seq(S) /\ Len(t) = IF a <= b THEN b - a + 1 ELSE 0
      /\ \A i \in 1 .. b - a + 1 : t[i] = s[a + i - 1]
    BY <1>0, <1>1, SubSeqProperties
<1> HIDE DEF t
<1>4. \A i \in 1 .. Len(t) : a + i - 1 \in 1 .. Len(s) /\ t[i] = s[a + i - 1]
    BY <1>0, <1>2
<1>5. ASSUME NEW y \in Range(t) PROVE y \in Range(s)
  <2>1. PICK i \in 1 .. Len(t) : t[i] = y
      BY <1>2, RowsOfTable
  <2> QED
      BY <2>1, <1>4, RowsOfTable
<1> QED
    BY <1>2, <1>5 DEF t

LEMMA HeadTail ==
    ASSUME NEW S, NEW s \in Seq(S), s # <<>>
    PROVE  /\ Len(s) \in Nat \ {0} /\ Head(s) = s[1] /\ Head(s) \in Range(s)
           /\ Tail(s) \in Seq(S) /\ Range(Tail(s)) \subseteq Range(s)
           /\ Len(Tail(s)) = Len(s) - 1
           /\ \A i \in 1 .. (Len(s) - 1) : Tail(s)[i] = s[i + 1]
<1> DEFINE t == Tail(s)
<1>1. Len(s) \in Nat \ {0} /\ Head(s) = s[1]
    BY LenProperties, EmptySeq, HeadTailProperties
<1>2. Head(s) \in Range(s)
  <2>1. 1 \in 1 .. Len(s)
      BY <1>1
  <2> QED
      BY <1>1, <2>1, RowsOfTable
<1>3. t \in Seq(S) /\ Len(t) = Len(s) - 1 /\ \A i \in 1 .. Len(t) : t[i] = s[i + 1]
    BY <1>1, HeadTailProperties
<1> HIDE DEF t
<1>4. ASSUME NEW y \in Range(t) PROVE y \in Range(s)
  <2>1. PICK i \in 1 .. Len(t) : t[i] = y
      BY <1>3, RowsOfTable
  <2>2. i + 1 \in 1 .. Len(s) /\ s[i + 1] = y
      BY <2>1, <1>1, <1>3
  <2> QED
      BY <2>2, RowsOfTable
<1>5. \A i \in 1 .. (Len(s) - 1) : t[i] = s[i + 1]
    BY <1>3
<1> QED
    BY <1>1, <1>2, <1>3, <1>4, <1>5 DEF t

LEMMA ConcatRows ==
    ASSUME NEW S, NEW p \in Seq(S), NEW q \in Seq(S)
    PROVE  p \o q \in Seq(S) /\ Range(p \o q) \subseteq Range(p) \cup Range(q)
<1> DEFINE t == p \o q
<1>1. /\ t \in Seq(S) /\ Len(t) = Len(p) + Len(q) /\ Len(p) \in Nat /\ Len(q) \in Nat
      /\ \A i \in 1 .. Len(p) + Len(q) : t[i] = IF i <= Len(p) THEN p[i] ELSE q[i - Len(p)]
    BY ConcatProperties, LenProperties
<1> HIDE DEF t
<1>2. ASSUME NEW y \in Range(t) PROVE y \in Range(p) \cup Range(q)
  <2>1. PICK i \in 1 .. Len(p) + Len(q) : t[i] = y
      BY <1>1, RowsOfTable
  <2>2. CASE i <= Len(p)
    <3>1. i \in 1 .. Len(p) /\ p[i] = y
        BY <2>1, <2>2, <1>1
    <3> QED
        BY <3>1, RowsOfTable
  <2>3. CASE ~ (i <= Len(p))
    <3>1. i - Len(p) \in 1 .. Len(q) /\ q[i - Len(p)] = y
        BY <2>1, <2>3, <1>1
    <3> QED
        BY <3>1, RowsOfTable
  <2> QED
      BY <2>2, <2>3
<1> QED
    BY <1>1, <1>2 DEF t

LEMMA DeleteRowProperties ==
    ASSUME NEW S, NEW s \in Seq(S), NEW x
    PROVE  DeleteRow(s, x) \in Seq(S) /\ Range(DeleteRow(s, x)) \subseteq Range(s)
<1>1. CASE x \notin Range(s)
    BY <1>1 DEF DeleteRow
<1>2. CASE x \in Range(s)
  <2> DEFINE k == CHOOSE i \in DOMAIN s : s[i] = x
             n == Len(s)
             p == SubSeq(s, 1, k - 1)
             q == SubSeq(s, k + 1, n)
  <2>1. n \in Nat /\ DOMAIN s = 1 .. n /\ \E i \in 1 .. n : s[i] = x
      BY <1>2, RowsOfTable
  <2>2. k \in 1 .. n
      BY <2>1
  <2>3. DeleteRow(s, x) = p \o q
      BY <1>2 DEF RemoveAt, DeleteRow
  <2> HIDE DEF k
  <2>4. 1 \in 1 .. (Len(s) + 1) /\ k - 1 \in 0 .. Len(s) /\ k + 1 \in 1 .. (Len(s) + 1) /\ n \in 0 .. Len(s)
      BY <2>1, <2>2
  <2> HIDE DEF n
  <2>5. p \in Seq(S) /\ Range(p) \subseteq Range(s) /\ q \in Seq(S) /\ Range(q) \subseteq Range(s)
      BY <2>4, SubTable
  <2> HIDE DEF p, q
  <2>6. p \o q \in Seq(S) /\ Range(p \o q) \subseteq Range(p) \cup Range(q)
      BY <2>5, ConcatRows
  <2> QED
      BY <2>3, <2>5, <2>6
<1> QED
    BY <1>1, <1>2

-----------------------------------------------------------------------------
(* The flow of a transfer's frames.                                        *)

\* The frame at the head of a flow is the one that is waited for.
LEMMA HeadIsNext ==
    ASSUME NEW s \in Seq(Frame), s # <<>>, NEW t \in Transfer,
           NEW n \in Nat, NEW m \in Nat, NEW v, Flow(s, t, n, m, v), Head(s)[1] = t
    PROVE  Head(s)[2] = n /\ Head(s)[3] = v
<1>1. /\ Len(s) \in Nat /\ 1 \in 1 .. Len(s) /\ Head(s) = s[1]
      /\ \A i \in 1 .. Len(s) : s[i][2] \in Nat
  <2>1. Len(s) \in Nat \ {0} /\ Head(s) = s[1]
      BY HeadTail
  <2>2. \A i \in 1 .. Len(s) : s[i] \in Frame
      BY ElementOfSeq
  <2> QED
      BY <2>1, <2>2, TransferAssumption DEF Frame
<1>2. n <= s[1][2] /\ s[1][2] < m /\ s[1][3] = v
    BY <1>1 DEF Flow
<1>3. ASSUME n < s[1][2] PROVE FALSE
  <2>1. n \in n .. (m - 1)
      BY <1>1, <1>2, <1>3
  <2>2. PICK i \in 1 .. Len(s) : s[i][1] = t /\ s[i][2] = n
      BY <2>1 DEF Flow
  <2>3. 1 < i
      BY <1>1, <1>3, <2>2
  <2> QED
      BY <1>1, <1>3, <2>2, <2>3 DEF Flow
<1> QED
    BY <1>1, <1>2, <1>3

\* Once it is read, the next one is.
LEMMA FlowReadOwn ==
    ASSUME NEW s \in Seq(Frame), s # <<>>, NEW t \in Transfer,
           NEW n \in Nat, NEW m \in Nat, NEW v, Flow(s, t, n, m, v), Head(s)[1] = t
    PROVE  Flow(Tail(s), t, n + 1, m, v)
<1> DEFINE r == Tail(s)
<1>1. /\ Len(s) \in Nat \ {0} /\ Head(s) = s[1] /\ Len(r) = Len(s) - 1
      /\ \A i \in 1 .. (Len(s) - 1) : r[i] = s[i + 1]
    BY HeadTail
<1>2. \A i \in 1 .. Len(s) : s[i][2] \in Nat
  <2>1. \A i \in 1 .. Len(s) : s[i] \in Frame
      BY ElementOfSeq
  <2> QED
      BY <2>1, TransferAssumption DEF Frame
<1>3. s[1][2] = n
    BY <1>1, HeadIsNext
<1> HIDE DEF r
<1>4. \A i \in 1 .. Len(r) : i + 1 \in 1 .. Len(s) /\ r[i] = s[i + 1]
    BY <1>1
<1>5. ASSUME NEW i \in 1 .. Len(r), NEW j \in 1 .. Len(r), i < j, r[i][1] = t, r[j][1] = t
      PROVE  r[i][2] < r[j][2]
  <2>1. i + 1 < j + 1
      BY <1>1, <1>5
  <2> QED
      BY <2>1, <1>4, <1>5 DEF Flow
<1>6. ASSUME NEW i \in 1 .. Len(r), r[i][1] = t PROVE n + 1 <= r[i][2] /\ r[i][2] < m /\ r[i][3] = v
  <2>1. 1 < i + 1 /\ 1 \in 1 .. Len(s)
      BY <1>1
  <2>2. s[1][2] < s[i + 1][2] /\ s[i + 1][2] < m /\ s[i + 1][3] = v
      BY <2>1, <1>1, <1>4, <1>6 DEF Flow
  <2> QED
      BY <2>2, <1>2, <1>3, <1>4
<1>7. ASSUME NEW k \in (n + 1) .. (m - 1) PROVE \E i \in 1 .. Len(r) : r[i][1] = t /\ r[i][2] = k
  <2>1. PICK i \in 1 .. Len(s) : s[i][1] = t /\ s[i][2] = k
    <3>1. k \in n .. (m - 1)
        OBVIOUS
    <3> QED
        BY <3>1 DEF Flow
  <2>2. i # 1
      BY <2>1, <1>3
  <2>3. i - 1 \in 1 .. Len(r) /\ (i - 1) + 1 = i
      BY <2>2, <1>1
  <2>4. r[i - 1] = s[i]
      BY <2>3, <1>4
  <2> QED
      BY <2>1, <2>3, <2>4
<1> QED
    BY <1>5, <1>6, <1>7 DEF Flow, r

\* The flow of another transfer is as it was.
LEMMA FlowReadOther ==
    ASSUME NEW s \in Seq(Frame), s # <<>>, NEW t \in Transfer,
           NEW n \in Nat, NEW m \in Nat, NEW v, Flow(s, t, n, m, v), Head(s)[1] # t
    PROVE  Flow(Tail(s), t, n, m, v)
<1> DEFINE r == Tail(s)
<1>1. /\ Len(s) \in Nat \ {0} /\ Head(s) = s[1] /\ Len(r) = Len(s) - 1
      /\ \A i \in 1 .. (Len(s) - 1) : r[i] = s[i + 1]
    BY HeadTail
<1> HIDE DEF r
<1>4. \A i \in 1 .. Len(r) : i + 1 \in 1 .. Len(s) /\ r[i] = s[i + 1]
    BY <1>1
<1>5. ASSUME NEW i \in 1 .. Len(r), NEW j \in 1 .. Len(r), i < j, r[i][1] = t, r[j][1] = t
      PROVE  r[i][2] < r[j][2]
  <2>1. i + 1 < j + 1
      BY <1>1, <1>5
  <2> QED
      BY SMTT(40), <2>1, <1>4, <1>5 DEF Flow
<1>6. ASSUME NEW i \in 1 .. Len(r), r[i][1] = t PROVE n <= r[i][2] /\ r[i][2] < m /\ r[i][3] = v
    BY <1>4, <1>6 DEF Flow
<1>7. ASSUME NEW k \in n .. (m - 1) PROVE \E i \in 1 .. Len(r) : r[i][1] = t /\ r[i][2] = k
  <2>1. PICK i \in 1 .. Len(s) : s[i][1] = t /\ s[i][2] = k
      BY DEF Flow
  <2>2. i # 1
      BY <2>1, <1>1
  <2>3. i - 1 \in 1 .. Len(r) /\ (i - 1) + 1 = i
      BY <2>2, <1>1
  <2>4. r[i - 1] = s[i]
      BY <2>3, <1>4
  <2> QED
      BY <2>1, <2>3, <2>4
<1> QED
    BY <1>5, <1>6, <1>7 DEF Flow, r

\* A frame that is sent is the last of its flow and of no other.
LEMMA FlowSent ==
    ASSUME NEW s \in Seq(Frame), NEW f \in Frame, NEW t \in Transfer,
           NEW n \in Nat, NEW m \in Nat, NEW v, Flow(s, t, n, m, v)
    PROVE  /\ f[1] # t => Flow(Append(s, f), t, n, m, v)
           /\ f[1] = t /\ f[2] = m /\ f[3] = v /\ n <= m => Flow(Append(s, f), t, n, m + 1, v)
<1> DEFINE r == Append(s, f)
<1>1. /\ Len(r) = Len(s) + 1 /\ r[Len(s) + 1] = f /\ Len(s) \in Nat
      /\ \A i \in 1 .. Len(s) : r[i] = s[i]
    BY AppendRow, RowsOfTable
<1> HIDE DEF r
<1>2. \A i \in 1 .. Len(r) : i \in 1 .. Len(s) \/ i = Len(s) + 1
    BY <1>1
<1>3. \A i \in 1 .. Len(s) : i \in 1 .. Len(r)
    BY <1>1
<1>0. /\ \A i, j \in 1 .. Len(s) : i < j /\ s[i][1] = t /\ s[j][1] = t => s[i][2] < s[j][2]
      /\ \A i \in 1 .. Len(s) : s[i][1] = t => n <= s[i][2] /\ s[i][2] < m /\ s[i][3] = v
      /\ \A k \in n .. (m - 1) : \E i \in 1 .. Len(s) : s[i][1] = t /\ s[i][2] = k
    BY DEF Flow
<1>9. \A i \in 1 .. Len(s) : s[i][2] \in Nat
  <2>1. \A i \in 1 .. Len(s) : s[i] \in Frame
      BY ElementOfSeq
  <2> QED
      BY <2>1, TransferAssumption DEF Frame
<1>4. ASSUME f[1] # t PROVE Flow(r, t, n, m, v)
  <2>1. \A i \in 1 .. Len(r) : r[i][1] = t => i \in 1 .. Len(s) /\ r[i] = s[i]
      BY <1>1, <1>2, <1>4
  <2>2. \A k \in n .. (m - 1) : \E i \in 1 .. Len(r) : r[i][1] = t /\ r[i][2] = k
    <3> TAKE k \in n .. (m - 1)
    <3>1. PICK i \in 1 .. Len(s) : s[i][1] = t /\ s[i][2] = k
        BY <1>0
    <3> QED
        BY <3>1, <1>1, <1>3
  <2>3. \A i, j \in 1 .. Len(r) : i < j /\ r[i][1] = t /\ r[j][1] = t => r[i][2] < r[j][2]
      BY <2>1, <1>0
  <2>4. \A i \in 1 .. Len(r) : r[i][1] = t => n <= r[i][2] /\ r[i][2] < m /\ r[i][3] = v
      BY <2>1, <1>0
  <2> QED
      BY <2>2, <2>3, <2>4 DEF Flow
<1>5. ASSUME f[1] = t, f[2] = m, f[3] = v, n <= m PROVE Flow(r, t, n, m + 1, v)
  <2>2. \A k \in n .. (m + 1 - 1) : \E i \in 1 .. Len(r) : r[i][1] = t /\ r[i][2] = k
    <3> TAKE k \in n .. (m + 1 - 1)
    <3>1. CASE k = m
        BY <3>1, <1>1, <1>5
    <3>2. CASE k # m
      <4>1. k \in n .. (m - 1)
          BY <3>2
      <4>2. PICK i \in 1 .. Len(s) : s[i][1] = t /\ s[i][2] = k
          BY <1>0, <4>1
      <4> QED
          BY <4>2, <1>1, <1>3
    <3> QED
        BY <3>1, <3>2
  <2>3. ASSUME NEW i \in 1 .. Len(r), NEW j \in 1 .. Len(r), i < j, r[i][1] = t, r[j][1] = t
        PROVE  r[i][2] < r[j][2]
    <3>1. i \in 1 .. Len(s) /\ r[i] = s[i]
        BY <2>3, <1>1, <1>2
    <3>2. CASE j = Len(s) + 1
        BY <3>1, <3>2, <1>0, <1>1, <1>5, <2>3
    <3>3. CASE j \in 1 .. Len(s)
        BY <3>1, <3>3, <1>0, <1>1, <2>3
    <3> QED
        BY <3>2, <3>3, <1>2
  <2>4. ASSUME NEW i \in 1 .. Len(r), r[i][1] = t PROVE n <= r[i][2] /\ r[i][2] < m + 1 /\ r[i][3] = v
    <3>1. CASE i = Len(s) + 1
        BY <3>1, <1>1, <1>5
    <3>2. CASE i \in 1 .. Len(s)
        BY <3>2, <1>0, <1>1, <1>9, <2>4
    <3> QED
        BY <3>1, <3>2, <1>2
  <2> QED
      BY <2>2, <2>3, <2>4 DEF Flow
<1> QED
    BY <1>4, <1>5 DEF r

-----------------------------------------------------------------------------
(* Types.                                                                  *)

LEMMA InitTypes == Init => TypeOK
<1> SUFFICES ASSUME Init PROVE TypeOK
    OBVIOUS
<1>1. SenderTypeOK
    BY TransferAssumption DEF Init, SenderTypeOK
<1>2. RelayTypeOK
    BY DEF Init, RelayTypeOK
<1>3. NoTransfer \in Inbound
    BY TransferAssumption DEF NoTransfer, Inbound
<1>4. \A t \in Transfer : tr[t] = NoTransfer /\ tr[t].next = None
    BY DEF Init, NoTransfer
<1>5. inode = <<>> /\ inode \in Seq([1 .. Chunks -> Piece \cup {None}])
    BY DEF Init
<1>6. tr \in [Transfer -> Inbound] /\ \A t \in Transfer : ~ Opened(t)
    BY <1>3, <1>4 DEF Init, Opened
<1>7. /\ row \in [Transfer -> [status : Status, path : Path \cup {None}]]
      /\ dir \in [File -> DOMAIN inode \cup {None}]
      /\ done \subseteq Path /\ mixed \subseteq File /\ crashed \in BOOLEAN
    BY DEF Init, Status
<1>8. ReceiverTypeOK
    BY <1>5, <1>6, <1>7 DEF ReceiverTypeOK
<1> QED
    BY <1>1, <1>2, <1>8 DEF TypeOK

\* The candidates are paths, and .part files are files.
LEMMA NameFacts ==
    /\ \A t \in Transfer : \A n \in Names[t] : n \in Name
    /\ \A n \in Name, k \in 1 .. MaxCopies : Copy[n][k] \in Path
    /\ \A p \in Path : p \in File /\ PartOf[p] \in File /\ PartOf[p] # p
    /\ \A p, q \in Path : PartOf[p] = PartOf[q] => p = q
<1>1. \A t \in Transfer : \A n \in Names[t] : n \in Name
    BY DEF Name
<1>2. \A n \in Name, k \in 1 .. MaxCopies : Copy[n][k] \in Path
    BY DEF Path
<1> QED
    BY <1>1, <1>2, NamesAssumption

\* The sender's side; only SendFile and Edit touch the file or its hash.
LEMMA SenderTypes == TypeOK /\ [Next]_vars => SenderTypeOK'
<1> SUFFICES ASSUME SenderTypeOK, RelayTypeOK, [Next]_vars PROVE SenderTypeOK'
    BY DEF TypeOK
<1> USE TransferAssumption DEF SenderTypeOK
<1>1. ASSUME NEW t \in Transfer, SendFile(t) PROVE SenderTypeOK'
  <2>1. PICK n \in Names[t] : name' = [name EXCEPT ![t] = n]
      BY <1>1 DEF SendFile
  <2>2. n \in Name
      BY NameFacts
  <2> QED
      BY <1>1, <2>1, <2>2 DEF SendFile, relayVars, receiverVars, historyVars, frameVars, nameVars
<1>2. ASSUME NEW t \in Transfer, SendFrame(t) PROVE SenderTypeOK'
  <2>1. hurt' \subseteq Transfer /\ overtaken' \subseteq Transfer
    <3>1. PICK f : f[1] = t /\ (Relay(f) \/ Refuse(f))
        BY <1>2 DEF SendFrame
    <3> QED
        BY <3>1 DEF Relay, Refuse
  <2>2. /\ Written(t)
        /\ UNCHANGED <<w, version, sum, name, shared, edited, crashed, faults>>
      BY <1>2 DEF SendFrame, receiverVars, nameVars
  <2> QED
      BY <2>1, <2>2 DEF Written
<1>3. ASSUME NEW t \in Transfer, SendLost(t) PROVE SenderTypeOK'
    BY <1>3 DEF SendLost, Written, relayVars, receiverVars, nameVars
<1>4. ASSUME NEW t \in Transfer, SendFails(t) PROVE SenderTypeOK'
    BY <1>4 DEF SendFails, Fault, relayVars, receiverVars, nameVars
<1>5. ASSUME NEW t \in Transfer, EnqueueHeld(t) PROVE SenderTypeOK'
  <2>1. Len(queue) \in Nat /\ (~ (Len(queue) < MaxQueuePerDevice) => queue # <<>>)
      BY LenProperties, EmptySeq DEF RelayTypeOK
  <2>2. ASSUME queue # <<>> PROVE Head(queue)[1] \in Transfer
    <3>1. Head(queue) \in Range(queue) /\ Range(queue) \subseteq Frame
        BY <2>2, HeadTail, RowsOfTable DEF RelayTypeOK
    <3> QED
        BY <3>1 DEF Frame
  <2>3. hurt' \subseteq Transfer /\ overtaken' \subseteq Transfer
      BY <1>5, <2>1, <2>2 DEF EnqueueHeld
  <2> QED
      BY <1>5, <2>3 DEF EnqueueHeld, senderVars, nameVars
<1>6. ASSUME NEW t \in Transfer, Edit(t) PROVE SenderTypeOK'
    BY <1>6 DEF Edit, Fault, relayVars, receiverVars, frameVars, nameVars
<1>7. ASSUME NEW t \in Transfer, NEW v \in 0 .. MaxFaults, HandleFileOffer(t, v) PROVE SenderTypeOK'
  <2>1. shared' \subseteq Transfer
      BY <1>7 DEF HandleFileOffer
  <2> QED
      BY <1>7, <2>1 DEF HandleFileOffer, Read, senderVars, frameVars
<1>8. ASSUME NEW t \in Transfer, NEW v \in 0 .. MaxFaults, DeclineOffer(t, v) PROVE SenderTypeOK'
    BY <1>8 DEF DeclineOffer, Read, senderVars, frameVars, nameVars, Fault
<1>9. ASSUME NEW t \in Transfer, NEW v \in 0 .. MaxFaults, HandleFileChunk(t, v) PROVE SenderTypeOK'
    BY <1>9 DEF HandleFileChunk, Read, senderVars, frameVars, nameVars
<1>10. ASSUME NEW t \in Transfer, NEW v \in 0 .. MaxFaults, FinalizeTransfer(t, v) PROVE SenderTypeOK'
  <2>1. /\ UNCHANGED <<senderVars, frameVars, shared, edited>>
        /\ faults' = faults \/ Fault
      BY <1>10 DEF FinalizeTransfer, Read
  <2> QED
      BY <2>1 DEF senderVars, frameVars, Fault
<1>11. ASSUME NEW t \in Transfer, NEW v \in 0 .. MaxFaults, NEW i \in 1 .. Chunks, UnknownChunk(t, i, v)
       PROVE  SenderTypeOK'
    BY <1>11 DEF UnknownChunk, Read, senderVars, frameVars, nameVars
<1>12. ASSUME NEW t \in Transfer, NEW v \in 0 .. MaxFaults, NEW i \in 1 .. Chunks, AbortInbound(t, i, v)
       PROVE  SenderTypeOK'
    BY <1>12 DEF AbortInbound, Read, senderVars, frameVars, Fault
<1>13. ASSUME CutReceiver \/ KillReceiver PROVE SenderTypeOK'
  <2>1. Range(down) \subseteq Frame
      BY RowsOfTable DEF RelayTypeOK
  <2>2. Lose(down) \subseteq Transfer
      BY <2>1 DEF Lose, Frame
  <2> QED
      BY <1>13, <2>2 DEF CutReceiver, KillReceiver, Fault, senderVars, nameVars
<1>14. ASSUME RemoveConn \/ AddConn \/ AfterReady \/ UNCHANGED vars PROVE SenderTypeOK'
    BY <1>14 DEF RemoveConn, AddConn, AfterReady, ReadQueue, SendRow, senderVars, historyVars,
                 frameVars, nameVars, vars
<1>15. ASSUME CutSender PROVE SenderTypeOK'
    BY <1>15 DEF CutSender, historyVars, frameVars, nameVars, Fault
<1> QED
    BY <1>1, <1>2, <1>3, <1>4, <1>5, <1>6, <1>7, <1>8, <1>9, <1>10, <1>11, <1>12, <1>13, <1>14, <1>15
       DEF Next, Step, Sending, Receiving

\* The frames: what is sent is a frame, and reading or acking adds none.
LEMMA ReadFrames ==
    ASSUME NEW f, Read(f), RelayTypeOK
    PROVE  /\ queue' \in Seq(Frame) /\ down' \in Seq(Frame)
           /\ Range(queue') \subseteq Range(queue) /\ Range(down') \subseteq Range(down)
           /\ f \in Range(down) /\ f \in Frame /\ f = Head(down) /\ down # <<>> /\ down' = Tail(down)
           /\ conn \in {"greet", "up"} /\ (conn # "up" => queue' = queue)
           /\ UNCHANGED <<conn, todo, hold, senderVars, frameVars>>
<1>1. /\ conn \in {"greet", "up"} /\ down # <<>> /\ f = Head(down) /\ down' = Tail(down)
      /\ UNCHANGED <<conn, todo, hold, senderVars, frameVars>>
      /\ queue' \in {DeleteRow(queue, f), queue} /\ (conn # "up" => queue' = queue)
    BY DEF Read
<1>2. f \in Range(down) /\ Tail(down) \in Seq(Frame) /\ Range(Tail(down)) \subseteq Range(down)
    BY <1>1, HeadTail DEF RelayTypeOK
<1>3. f \in Frame
    BY <1>2, RowsOfTable DEF RelayTypeOK
<1>4. DeleteRow(queue, f) \in Seq(Frame) /\ Range(DeleteRow(queue, f)) \subseteq Range(queue)
    BY DeleteRowProperties DEF RelayTypeOK
<1>5. queue' \in Seq(Frame) /\ Range(queue') \subseteq Range(queue)
    BY <1>1, <1>4 DEF RelayTypeOK
<1> QED
    BY <1>1, <1>2, <1>3, <1>5

\* What becomes of a frame: it is sent to a registered connection, dropped or held.
LEMMA SentFrame ==
    ASSUME TypeOK, NEW t \in Transfer, SendFrame(t)
    PROVE  LET f == <<t, sent[t], IF sent[t] = 0 THEN sum[t] ELSE version[t]>>
           IN /\ f \in Frame /\ sent[t] \in 0 .. Chunks /\ hold[t] = None
              /\ \/ /\ conn \in {"greet", "up"} /\ down' = Append(down, f) /\ UNCHANGED <<hold, hurt>>
                    /\ overtaken' = IF Waiting(t) THEN overtaken \cup {t} ELSE overtaken
                 \/ hurt' = hurt \cup {t} /\ UNCHANGED <<hold, down, overtaken>>
                 \/ hold' = [hold EXCEPT ![t] = f] /\ UNCHANGED <<down, hurt, overtaken>>
<1> DEFINE f == <<t, sent[t], IF sent[t] = 0 THEN sum[t] ELSE version[t]>>
<1>1. sent[t] \in 0 .. Chunks /\ hold[t] = None
    BY TransferAssumption DEF TypeOK, SenderTypeOK, SendFrame, Written
<1>2. sum[t] \in 0 .. MaxFaults /\ version[t] \in 0 .. MaxFaults
    BY TransferAssumption DEF TypeOK, SenderTypeOK
<1>3. f \in Frame
    BY <1>1, <1>2 DEF Frame
<1>4. f[1] = t
    OBVIOUS
<1>5. Relay(f) \/ Refuse(f)
    BY DEF SendFrame
<1> HIDE DEF f
<1>6. \/ /\ conn \in {"greet", "up"} /\ down' = Append(down, f) /\ UNCHANGED <<hold, hurt>>
         /\ overtaken' = IF Waiting(t) THEN overtaken \cup {t} ELSE overtaken
      \/ hurt' = hurt \cup {t} /\ UNCHANGED <<hold, down, overtaken>>
      \/ hold' = [hold EXCEPT ![t] = f] /\ UNCHANGED <<down, hurt, overtaken>>
    BY <1>4, <1>5 DEF Relay, Refuse
<1> QED
    BY <1>1, <1>3, <1>6 DEF f

\* A held frame is queued, perhaps in the place of the oldest row.
LEMMA QueuedFrame ==
    ASSUME TypeOK, NEW t \in Transfer, EnqueueHeld(t)
    PROVE  /\ hold[t] \in Frame /\ hold[t][1] = t
           /\ \/ queue' = Append(queue, hold[t]) /\ UNCHANGED hurt
              \/ /\ queue # <<>> /\ Tail(queue) \in Seq(Frame)
                 /\ queue' = Append(Tail(queue), hold[t]) /\ hurt' = hurt \cup {Head(queue)[1]}
           /\ queue' \in Seq(Frame) /\ Range(queue') \subseteq Range(queue) \cup {hold[t]}
           /\ overtaken' = IF conn = "up" THEN overtaken \cup {t} ELSE overtaken
           /\ hold' = [hold EXCEPT ![t] = None]
           /\ UNCHANGED <<senderVars, conn, todo, down>>
<1>1. /\ hold[t] \in Frame /\ hold[t][1] = t /\ queue \in Seq(Frame)
      /\ overtaken' = IF conn = "up" THEN overtaken \cup {t} ELSE overtaken
      /\ hold' = [hold EXCEPT ![t] = None]
      /\ UNCHANGED <<senderVars, conn, todo, down>>
    BY DEF EnqueueHeld, TypeOK, RelayTypeOK
<1>2. Len(queue) \in Nat /\ (~ (Len(queue) < MaxQueuePerDevice) => queue # <<>>)
    BY <1>1, LenProperties, EmptySeq, TransferAssumption
<1>3. CASE Len(queue) < MaxQueuePerDevice
  <2>1. queue' = Append(queue, hold[t]) /\ UNCHANGED hurt
      BY <1>3 DEF EnqueueHeld
  <2>2. Append(queue, hold[t]) \in Seq(Frame) /\ Range(Append(queue, hold[t])) = Range(queue) \cup {hold[t]}
      BY <1>1, AppendRow
  <2> QED
      BY <1>1, <2>1, <2>2
<1>4. CASE ~ (Len(queue) < MaxQueuePerDevice)
  <2>1. queue' = Append(Tail(queue), hold[t]) /\ hurt' = hurt \cup {Head(queue)[1]} /\ queue # <<>>
      BY <1>2, <1>4 DEF EnqueueHeld
  <2>2. Tail(queue) \in Seq(Frame) /\ Range(Tail(queue)) \subseteq Range(queue)
      BY <1>1, <2>1, HeadTail
  <2>3. /\ Append(Tail(queue), hold[t]) \in Seq(Frame)
        /\ Range(Append(Tail(queue), hold[t])) = Range(Tail(queue)) \cup {hold[t]}
    <3> DEFINE r == Tail(queue)
    <3>1. r \in Seq(Frame)
        BY <2>2
    <3> HIDE DEF r
    <3>2. Append(r, hold[t]) \in Seq(Frame) /\ Range(Append(r, hold[t])) = Range(r) \cup {hold[t]}
        BY <1>1, <3>1, AppendRow
    <3> QED
        BY <3>2 DEF r
  <2>4. Range(queue') \subseteq Range(queue) \cup {hold[t]}
      BY <2>1, <2>2, <2>3
  <2> QED
      BY <1>1, <2>1, <2>2, <2>3, <2>4
<1> QED
    BY <1>3, <1>4

\* A row goes from the drain to the receiver.
LEMMA SentRow ==
    ASSUME TypeOK, SendRow
    PROVE  /\ conn = "up" /\ todo # <<>> /\ Head(todo) \in Range(todo) /\ Head(todo) \in Frame
           /\ todo' = Tail(todo) /\ down' = Append(down, Head(todo))
           /\ todo' \in Seq(Frame) /\ Range(todo') \subseteq Range(todo)
           /\ down' \in Seq(Frame) /\ Range(down') = Range(down) \cup {Head(todo)}
           /\ UNCHANGED <<senderVars, conn, queue, hold>>
<1>1. /\ conn = "up" /\ todo # <<>> /\ todo \in Seq(Frame) /\ down \in Seq(Frame)
      /\ todo' = Tail(todo) /\ down' = Append(down, Head(todo))
      /\ UNCHANGED <<senderVars, conn, queue, hold>>
    BY DEF SendRow, TypeOK, RelayTypeOK
<1>2. Head(todo) \in Range(todo) /\ Tail(todo) \in Seq(Frame) /\ Range(Tail(todo)) \subseteq Range(todo)
    BY <1>1, HeadTail
<1>3. Head(todo) \in Frame
    BY <1>1, <1>2, RowsOfTable
<1>4. Append(down, Head(todo)) \in Seq(Frame) /\ Range(Append(down, Head(todo))) = Range(down) \cup {Head(todo)}
    BY <1>1, <1>3, AppendRow
<1> QED
    BY <1>1, <1>2, <1>3, <1>4

\* The steps that touch the relay's state.
LEMMA RelaySteps ==
    ASSUME [Next]_vars
    PROVE  \/ \E t \in Transfer : SendFrame(t) \/ EnqueueHeld(t)
           \/ \E f : Read(f)
           \/ UNCHANGED relayVars
           \/ CutReceiver \/ RemoveConn \/ AddConn \/ ReadQueue \/ SendRow \/ KillReceiver
BY ZenonT(60) DEF Next, Step, Sending, Receiving, AfterReady, SendFile, SendLost, SendFails, Edit, CutSender, vars,
       HandleFileOffer, DeclineOffer, HandleFileChunk, FinalizeTransfer, UnknownChunk, AbortInbound

LEMMA RelayTypes == TypeOK /\ [Next]_vars => RelayTypeOK'
<1> SUFFICES ASSUME TypeOK, [Next]_vars PROVE RelayTypeOK'
    OBVIOUS
<1>0. /\ conn \in {"none", "greet", "up", "dead"}
      /\ queue \in Seq(Frame) /\ todo \in Seq(Frame) /\ down \in Seq(Frame)
      /\ DOMAIN hold = Transfer
      /\ \A t \in Transfer : hold[t] # None => hold[t] \in Frame /\ hold[t][1] = t
    BY DEF RelayTypeOK, TypeOK
<1>1. ASSUME NEW t \in Transfer, SendFrame(t) PROVE RelayTypeOK'
  <2> DEFINE f == <<t, sent[t], IF sent[t] = 0 THEN sum[t] ELSE version[t]>>
  <2>1. /\ f \in Frame
        /\ \/ down' = Append(down, f) /\ UNCHANGED hold
           \/ UNCHANGED <<hold, down>>
           \/ hold' = [hold EXCEPT ![t] = f] /\ UNCHANGED down
      BY <1>1, SentFrame
  <2>2. f[1] = t
      OBVIOUS
  <2> HIDE DEF f
  <2>3. down' \in Seq(Frame)
      BY <2>1, <1>0, AppendRow
  <2>4. DOMAIN hold' = Transfer /\ \A u \in Transfer : hold'[u] # None => hold'[u] \in Frame /\ hold'[u][1] = u
      BY <2>1, <2>2, <1>0
  <2>5. UNCHANGED <<conn, queue, todo>>
      BY <1>1 DEF SendFrame
  <2> QED
      BY <2>3, <2>4, <2>5, <1>0 DEF RelayTypeOK
<1>2. ASSUME NEW f, Read(f) PROVE RelayTypeOK'
  <2>1. queue' \in Seq(Frame) /\ down' \in Seq(Frame) /\ UNCHANGED <<conn, todo, hold>>
      BY <1>2, ReadFrames DEF TypeOK
  <2> QED
      BY <2>1, <1>0 DEF RelayTypeOK
<1>3. CASE UNCHANGED relayVars
    BY <1>0, <1>3 DEF relayVars, RelayTypeOK
<1>4. CASE CutReceiver \/ KillReceiver
  <2>1. conn' \in {"dead", "none"} /\ down' = <<>> /\ todo' = <<>> /\ UNCHANGED <<queue, hold>>
      BY <1>4 DEF CutReceiver, KillReceiver
  <2> QED
      BY <2>1, <1>0 DEF RelayTypeOK
<1>5. CASE RemoveConn \/ AddConn
    BY <1>0, <1>5 DEF RemoveConn, AddConn, RelayTypeOK
<1>6. CASE ReadQueue
    BY <1>0, <1>6 DEF ReadQueue, RelayTypeOK
<1>7. CASE SendRow
  <2>1. todo' \in Seq(Frame) /\ down' \in Seq(Frame) /\ UNCHANGED <<conn, queue, hold>>
      BY <1>7, SentRow
  <2> QED
      BY <2>1, <1>0 DEF RelayTypeOK
<1>8. ASSUME NEW t \in Transfer, EnqueueHeld(t) PROVE RelayTypeOK'
  <2>1. queue' \in Seq(Frame) /\ hold' = [hold EXCEPT ![t] = None] /\ UNCHANGED <<conn, todo, down>>
      BY <1>8, QueuedFrame
  <2> QED
      BY <2>1, <1>0 DEF RelayTypeOK
<1> QED
    BY <1>1, <1>2, <1>3, <1>4, <1>5, <1>6, <1>7, <1>8, RelaySteps

-----------------------------------------------------------------------------
(* What a step does to the receiver's disk.                                *)

\* The last chunk of a file that verified: the .part file is renamed.
Renames(t, v) ==
    /\ Opened(t) /\ tr[t].next = Chunks /\ Write(t, v) /\ Verified(t, v)
    /\ HasPart(t) /\ Rename(t) /\ Finish(t, "received")
    /\ UNCHANGED <<shared, mixed, crashed>>

\* Every way a transfer fails.  A .part file is left over only by a disk error.
Closes(t, v) ==
    /\ Opened(t) /\ Finish(t, "failed")
    /\ UNCHANGED inode \/ Write(t, v)
    /\ RemovePart(t) \/ (UNCHANGED dir /\ (crashed' \/ ~ HasPart(t)))
    /\ crashed => crashed'
    /\ crashed' \in BOOLEAN
    /\ UNCHANGED <<done, shared, mixed>>

\* What a receiver step does to the disk and the history.
LEMMA ReceiverSteps ==
    ASSUME TypeOK, [Next]_vars
    PROVE  \/ UNCHANGED <<tr, row, dir, inode, shared, done, mixed, crashed>>
           \/ KillReceiver
           \/ \E t \in Transfer, v \in 0 .. MaxFaults :
                \/ HandleFileOffer(t, v) \/ HandleFileChunk(t, v)
                \/ Renames(t, v) \/ Closes(t, v)
<1>0. crashed \in BOOLEAN
    BY DEF TypeOK, ReceiverTypeOK
<1>1. ASSUME NEW t \in Transfer, NEW v \in 0 .. MaxFaults, NEW i \in 1 .. Chunks, AbortInbound(t, i, v)
      PROVE  Closes(t, v)
  <2>1. /\ Opened(t) /\ Finish(t, "failed") /\ RemovePart(t) /\ UNCHANGED <<inode, shared, mixed>>
        /\ crashed' = crashed \/ crashed' = TRUE
      BY <1>1 DEF AbortInbound
  <2>2. UNCHANGED done
      BY <2>1 DEF RemovePart
  <2>3. crashed' \in BOOLEAN /\ (crashed => crashed')
    <3>1. CASE crashed' = crashed
        BY <3>1, <1>0
    <3>2. CASE crashed' = TRUE
        BY <3>2
    <3> QED
        BY <3>1, <3>2, <2>1
  <2> QED
      BY <2>1, <2>2, <2>3 DEF Closes
<1>2. ASSUME NEW t \in Transfer, NEW v \in 0 .. MaxFaults, FinalizeTransfer(t, v)
      PROVE  Closes(t, v) \/ Renames(t, v)
  <2>1. /\ Opened(t) /\ tr[t].next = Chunks /\ Write(t, v) /\ UNCHANGED <<shared, mixed>>
        /\ \/ RemovePart(t) /\ Finish(t, "failed") /\ UNCHANGED crashed
           \/ Verified(t, v) /\ HasPart(t) /\ Rename(t) /\ Finish(t, "received") /\ UNCHANGED crashed
           \/ ~ HasPart(t) /\ Finish(t, "failed") /\ UNCHANGED <<dir, done, crashed>>
           \/ Finish(t, "failed") /\ UNCHANGED <<dir, done>> /\ crashed' = TRUE
      BY <1>2 DEF FinalizeTransfer
  <2>2. CASE RemovePart(t) /\ Finish(t, "failed") /\ UNCHANGED crashed
      BY <1>0, <2>1, <2>2 DEF Closes, RemovePart
  <2>3. CASE Verified(t, v) /\ HasPart(t) /\ Rename(t) /\ Finish(t, "received") /\ UNCHANGED crashed
      BY <2>1, <2>3 DEF Renames
  <2>4. CASE ~ HasPart(t) /\ Finish(t, "failed") /\ UNCHANGED <<dir, done, crashed>>
      BY <1>0, <2>1, <2>4 DEF Closes
  <2>5. CASE Finish(t, "failed") /\ UNCHANGED <<dir, done>> /\ crashed' = TRUE
      BY <2>1, <2>5 DEF Closes
  <2> QED
      BY <2>1, <2>2, <2>3, <2>4, <2>5
<1>3. ASSUME NEW t \in Transfer, NEW v \in 0 .. MaxFaults, NEW i \in 1 .. Chunks,
             DeclineOffer(t, v) \/ UnknownChunk(t, i, v)
      PROVE  UNCHANGED <<tr, row, dir, inode, shared, done, mixed, crashed>>
    BY <1>3 DEF DeclineOffer, UnknownChunk, receiverVars, diskVars, nameVars
<1>4. ASSUME NEW t \in Transfer, SendFile(t) \/ Sending(t) \/ EnqueueHeld(t) \/ Edit(t)
      PROVE  UNCHANGED <<tr, row, dir, inode, shared, done, mixed, crashed>>
    BY <1>4 DEF SendFile, Sending, SendFrame, SendLost, SendFails, EnqueueHeld, Edit,
                receiverVars, diskVars, nameVars, historyVars
<1>5. ASSUME CutReceiver \/ RemoveConn \/ AddConn \/ AfterReady \/ CutSender \/ UNCHANGED vars
      PROVE  UNCHANGED <<tr, row, dir, inode, shared, done, mixed, crashed>>
    BY <1>5 DEF CutReceiver, RemoveConn, AddConn, AfterReady, ReadQueue, SendRow, CutSender, vars,
                receiverVars, diskVars, nameVars, historyVars
<1>6. 1 \in 1 .. Chunks
    BY TransferAssumption
<1> QED
    BY <1>1, <1>2, <1>3, <1>4, <1>5, <1>6 DEF Next, Step, Receiving

\* The disk in usable form.
LEMMA DiskFacts ==
    ASSUME TypeOK
    PROVE  /\ Len(inode) \in Nat /\ DOMAIN inode = 1 .. Len(inode)
           /\ \A n \in 1 .. Len(inode) : inode[n] \in [1 .. Chunks -> Piece \cup {None}]
           /\ \A f \in File : dir[f] \in (1 .. Len(inode)) \cup {None}
           /\ \A t \in Transfer :
                /\ tr[t] \in Inbound /\ tr[t].hasher \in Seq(Piece)
                /\ Opened(t) => /\ tr[t].next \in 1 .. Chunks /\ tr[t].path \in Path
                                /\ tr[t].file \in 1 .. Len(inode)
                                /\ Len(tr[t].hasher) = tr[t].next - 1
           /\ None \notin Nat
<1>1. Len(inode) \in Nat /\ DOMAIN inode = 1 .. Len(inode)
    BY LenProperties DEF TypeOK, ReceiverTypeOK
<1>2. \A n \in 1 .. Len(inode) : inode[n] \in [1 .. Chunks -> Piece \cup {None}]
    BY ElementOfSeq DEF TypeOK, ReceiverTypeOK
<1>3. \A t \in Transfer : tr[t] \in Inbound /\ tr[t].hasher \in Seq(Piece)
                          /\ tr[t].next \in 1 .. Chunks \cup {None}
    BY DEF TypeOK, ReceiverTypeOK, Inbound
<1> QED
    BY <1>1, <1>2, <1>3, TransferAssumption DEF TypeOK, ReceiverTypeOK, Opened

\* A transfer that ends is forgotten, the others are as they were.
LEMMA FinishTransfer ==
    ASSUME TypeOK, NEW t \in Transfer, NEW st \in Status, Opened(t), Finish(t, st)
    PROVE  /\ tr' \in [Transfer -> Inbound]
           /\ ~ Opened(t)' /\ \A u \in Transfer \ {t} : tr'[u] = tr[u] /\ Opened(u)' = Opened(u)
           /\ row' \in [Transfer -> [status : Status, path : Path \cup {None}]]
           /\ row'[t] = [status |-> st, path |-> tr[t].path]
           /\ \A u \in Transfer \ {t} : row'[u] = row[u]
<1>1. NoTransfer \in Inbound /\ NoTransfer.next = None
    BY TransferAssumption DEF NoTransfer, Inbound
<1>2. tr[t].path \in Path
    BY DiskFacts
<1> QED
    BY <1>1, <1>2 DEF Finish, Opened, TypeOK, ReceiverTypeOK

\* A chunk is written into the transfer's own inode.
LEMMA WriteChunk ==
    ASSUME TypeOK, NEW t \in Transfer, NEW v \in 0 .. MaxFaults, Opened(t), Write(t, v)
    PROVE  /\ inode' \in Seq([1 .. Chunks -> Piece \cup {None}]) /\ DOMAIN inode' = DOMAIN inode
           /\ Len(inode') = Len(inode)
           /\ \A n \in 1 .. Len(inode) : n # tr[t].file => inode'[n] = inode[n]
           /\ inode'[tr[t].file] = [inode[tr[t].file] EXCEPT ![tr[t].next] = <<t, tr[t].next, v>>]
<1> DEFINE S == [1 .. Chunks -> Piece \cup {None}]
           g == [inode[tr[t].file] EXCEPT ![tr[t].next] = <<t, tr[t].next, v>>]
           n == tr[t].file
<1>1. /\ n \in 1 .. Len(inode) /\ tr[t].next \in 1 .. Chunks /\ Len(inode) \in Nat
      /\ DOMAIN inode = 1 .. Len(inode) /\ inode[n] \in S
    BY DiskFacts
<1>2. <<t, tr[t].next, v>> \in Piece
    BY <1>1 DEF Piece
<1>3. g \in S
    BY <1>1, <1>2
<1>4. inode' = [inode EXCEPT ![n] = g]
    BY DEF Write
<1>5. inode \in Seq(S)
    BY DEF TypeOK, ReceiverTypeOK
<1> HIDE DEF g, S, n
<1>6. [inode EXCEPT ![n] = g] \in Seq(S) /\ Len([inode EXCEPT ![n] = g]) = Len(inode)
    BY <1>1, <1>3, <1>5, ExceptSeq
<1>7. \A k \in 1 .. Len(inode) : inode'[k] = IF k = n THEN g ELSE inode[k]
    BY <1>1, <1>4
<1>8. DOMAIN inode' = DOMAIN inode
    BY <1>4
<1>9. inode'[n] = g
    BY <1>1, <1>7
<1> QED
    BY <1>4, <1>6, <1>7, <1>8, <1>9 DEF S, g, n

\* The .part file has gone.
LEMMA RemovedPart ==
    ASSUME TypeOK, NEW t \in Transfer, Opened(t), RemovePart(t)
    PROVE  /\ dir' \in [File -> DOMAIN inode \cup {None}]
           /\ dir'[PartOf[tr[t].path]] = None
           /\ \A f \in File : f # PartOf[tr[t].path] => dir'[f] = dir[f]
<1>1. PartOf[tr[t].path] \in File
    BY DiskFacts, NameFacts
<1> QED
    BY <1>1 DEF RemovePart, TypeOK, ReceiverTypeOK

\* The .part file has the download's name.
LEMMA Renamed ==
    ASSUME TypeOK, NEW t \in Transfer, Opened(t), Rename(t)
    PROVE  /\ dir' \in [File -> DOMAIN inode \cup {None}]
           /\ tr[t].path \in Path /\ tr[t].path \in File
           /\ PartOf[tr[t].path] \in File /\ PartOf[tr[t].path] # tr[t].path
           /\ dir'[PartOf[tr[t].path]] = None /\ dir'[tr[t].path] = dir[PartOf[tr[t].path]]
           /\ \A f \in File : f \notin {tr[t].path, PartOf[tr[t].path]} => dir'[f] = dir[f]
           /\ done' = done \cup {tr[t].path}
<1> DEFINE p == tr[t].path
           g == PartOf[p]
<1>1. p \in Path /\ p \in File /\ g \in File /\ g # p
    BY DiskFacts, NameFacts
<1>2. dir' = [dir EXCEPT ![p] = dir[g], ![g] = None] /\ done' = done \cup {p}
    BY DEF Rename
<1>3. dir \in [File -> DOMAIN inode \cup {None}]
    BY DEF TypeOK, ReceiverTypeOK
<1> HIDE DEF p, g
<1>4. /\ dir' \in [File -> DOMAIN inode \cup {None}] /\ dir'[g] = None /\ dir'[p] = dir[g]
      /\ \A f \in File : f \notin {p, g} => dir'[f] = dir[f]
    BY <1>1, <1>2, <1>3
<1> QED
    BY <1>1, <1>2, <1>4 DEF p, g

\* An offer is given the first free name, and whoever has it open shares it.
Offers(t, v, k, p) ==
    /\ sent[t] # None /\ p = Copy[name[t]][k] /\ dir[p] = None
    /\ \A j \in 1 .. (k - 1) : Copy[name[t]][j] \in Path /\ dir[Copy[name[t]][j]] # None
    /\ Create(PartOf[p]) /\ done' = done /\ crashed' = crashed
    /\ tr' = [tr EXCEPT ![t] = [next |-> 1, path |-> p, file |-> dir'[PartOf[p]],
                                hasher |-> <<>>, sum |-> v]]
    /\ row' = [row EXCEPT ![t] = IF row[t].status = "none"
                                 THEN [status |-> "receiving", path |-> p] ELSE row[t]]
    /\ shared \subseteq shared'
    /\ \A u \in Transfer \ {t} : Opened(u) /\ tr[u].path = p => u \in shared' /\ t \in shared'
    /\ mixed' = mixed \cup Mixes(t, p)
    /\ <<t, 0, v>> \in Range(down)

LEMMA Offered ==
    ASSUME TypeOK, FramesAreSent, NEW t \in Transfer, NEW v \in 0 .. MaxFaults, HandleFileOffer(t, v)
    PROVE  \E k \in 1 .. MaxCopies, p \in Path : Offers(t, v, k, p)
<1> DEFINE k == CHOOSE k \in 1 .. MaxCopies : FirstFree(t, k)
           p == Copy[name[t]][k]
<1>1. k \in 1 .. MaxCopies /\ FirstFree(t, k)
    BY DEF HandleFileOffer, HasFreeName
<1>2. /\ p = UniquePath(t)
      /\ dir[p] = None /\ \A j \in 1 .. k - 1 : dir[Copy[name[t]][j]] # None
    BY <1>1 DEF UniquePath, FirstFree
<1> HIDE DEF k
<1>5. <<t, 0, v>> \in Range(down)
    BY ReadFrames DEF HandleFileOffer, TypeOK
<1>7. sent[t] # None /\ name[t] \in Name
  <2>1. IsSent(<<t, 0, v>>)
      BY <1>5 DEF FramesAreSent
  <2> QED
      BY <2>1 DEF IsSent, TypeOK, SenderTypeOK
<1>3. p \in Path /\ \A j \in 1 .. (k - 1) : Copy[name[t]][j] \in Path
  <2>1. \A j \in 1 .. (k - 1) : j \in 1 .. MaxCopies
      BY <1>1, TransferAssumption
  <2> QED
      BY <1>1, <1>7, <2>1, NameFacts
<1>4. /\ Create(PartOf[p]) /\ done' = done /\ crashed' = crashed
      /\ tr' = [tr EXCEPT ![t] = [next |-> 1, path |-> p, file |-> dir'[PartOf[p]],
                                  hasher |-> <<>>, sum |-> v]]
      /\ row' = [row EXCEPT ![t] = IF row[t].status = "none"
                                   THEN [status |-> "receiving", path |-> p] ELSE row[t]]
      /\ shared' = IF {u \in Transfer \ {t} : Opened(u) /\ tr[u].path = p} = {} THEN shared
                   ELSE shared \cup {u \in Transfer \ {t} : Opened(u) /\ tr[u].path = p} \cup {t}
      /\ mixed' = mixed \cup Mixes(t, p)
    BY <1>2 DEF HandleFileOffer, TypeOK, ReceiverTypeOK
<1> HIDE DEF p
<1>6. /\ shared \subseteq shared'
      /\ \A u \in Transfer \ {t} : Opened(u) /\ tr[u].path = p => u \in shared' /\ t \in shared'
    BY <1>4
<1>8. p = Copy[name[t]][k]
    BY DEF p
<1>9. Offers(t, v, k, p)
    BY <1>2, <1>3, <1>4, <1>5, <1>6, <1>7, <1>8 DEF Offers
<1> QED
    BY <1>1, <1>3, <1>9

\* os.Create leaves every other file as it is.
LEMMA CreatedPart ==
    ASSUME TypeOK, NEW p \in File, Create(p)
    PROVE  /\ dir' \in [File -> DOMAIN inode' \cup {None}] /\ dir'[p] \in DOMAIN inode'
           /\ inode' \in Seq([1 .. Chunks -> Piece \cup {None}])
           /\ DOMAIN inode \subseteq DOMAIN inode'
           /\ dir[p] \in {None, dir'[p]}
           /\ dir[p] = None => dir'[p] \notin DOMAIN inode
           /\ \A q \in File : q # p => dir'[q] = dir[q]
           /\ \A n \in DOMAIN inode : n # dir[p] => inode'[n] = inode[n]
<1> DEFINE S == [1 .. Chunks -> Piece \cup {None}]
<1>1. /\ Len(inode) \in Nat /\ DOMAIN inode = 1 .. Len(inode) /\ None \notin Nat
      /\ dir[p] \in (1 .. Len(inode)) \cup {None} /\ inode \in Seq(S)
      /\ dir \in [File -> DOMAIN inode \cup {None}]
    BY DiskFacts DEF TypeOK, ReceiverTypeOK
<1>2. Blank \in S
    BY DEF Blank
<1> HIDE DEF S
<1>3. CASE dir[p] = None
  <2>1. inode' = Append(inode, Blank) /\ dir' = [dir EXCEPT ![p] = Len(inode) + 1]
      BY <1>3 DEF Create
  <2>2. /\ inode' \in Seq(S) /\ Len(inode') = Len(inode) + 1
        /\ \A i \in 1 .. Len(inode) : inode'[i] = inode[i]
      BY <2>1, <1>1, <1>2, AppendRow
  <2>3. DOMAIN inode' = 1 .. (Len(inode) + 1)
      BY <2>2, LenProperties
  <2>4. dir'[p] = Len(inode) + 1 /\ \A q \in File : q # p => dir'[q] = dir[q]
      BY <2>1, <1>1
  <2>5. DOMAIN inode \subseteq DOMAIN inode' /\ Len(inode) + 1 \in DOMAIN inode' /\ Len(inode) + 1 \notin DOMAIN inode
      BY <2>3, <1>1
  <2>6. dir' \in [File -> DOMAIN inode' \cup {None}]
      BY <2>1, <2>5, <1>1
  <2> QED
      BY <2>2, <2>4, <2>5, <2>6, <1>1, <1>3 DEF S
<1>4. CASE dir[p] # None
  <2>1. inode' = [inode EXCEPT ![dir[p]] = Blank] /\ dir' = dir
      BY <1>4 DEF Create
  <2>2. inode' \in Seq(S)
      BY <2>1, <1>1, <1>2, <1>4, ExceptSeq
  <2>3. DOMAIN inode' = DOMAIN inode /\ \A n \in DOMAIN inode : n # dir[p] => inode'[n] = inode[n]
      BY <2>1
  <2> QED
      BY <2>1, <2>2, <2>3, <1>1, <1>4 DEF S
<1> QED
    BY <1>3, <1>4

LEMMA ReceiverTypes == TypeOK /\ FramesAreSent /\ [Next]_vars => ReceiverTypeOK'
<1> SUFFICES ASSUME TypeOK, FramesAreSent, [Next]_vars PROVE ReceiverTypeOK'
    OBVIOUS
<1>0. ReceiverTypeOK
    BY DEF TypeOK
<1>1. CASE UNCHANGED <<tr, row, dir, inode, shared, done, mixed, crashed>>
    BY <1>0, <1>1 DEF ReceiverTypeOK, Opened
<1>2. CASE KillReceiver
  <2>1. NoTransfer \in Inbound /\ NoTransfer.next = None
      BY TransferAssumption DEF NoTransfer, Inbound
  <2>2. /\ tr' = [t \in Transfer |-> NoTransfer] /\ crashed' = TRUE
        /\ UNCHANGED <<row, dir, inode, done, mixed>>
      BY <1>2 DEF KillReceiver, diskVars, nameVars
  <2>3. tr' \in [Transfer -> Inbound] /\ \A t \in Transfer : ~ Opened(t)'
      BY <2>1, <2>2 DEF Opened
  <2> QED
      BY <2>2, <2>3, <1>0 DEF ReceiverTypeOK
<1>3. ASSUME NEW t \in Transfer, NEW v \in 0 .. MaxFaults, HandleFileOffer(t, v) PROVE ReceiverTypeOK'
  <2>0. PICK k \in 1 .. MaxCopies, p \in Path : Offers(t, v, k, p)
      BY <1>3, Offered
  <2>a. PartOf[p] \in File /\ p \in File
      BY NameFacts
  <2>1. /\ Create(PartOf[p]) /\ done' = done /\ crashed' = crashed /\ mixed' = mixed \cup Mixes(t, p)
        /\ tr' = [tr EXCEPT ![t] = [next |-> 1, path |-> p, file |-> dir'[PartOf[p]],
                                    hasher |-> <<>>, sum |-> v]]
        /\ row' = [row EXCEPT ![t] = IF row[t].status = "none"
                                     THEN [status |-> "receiving", path |-> p] ELSE row[t]]
      BY <2>0 DEF Offers
  <2>2. /\ dir' \in [File -> DOMAIN inode' \cup {None}] /\ dir'[PartOf[p]] \in DOMAIN inode'
        /\ inode' \in Seq([1 .. Chunks -> Piece \cup {None}])
        /\ DOMAIN inode \subseteq DOMAIN inode'
      BY <2>a, <2>1, CreatedPart
  <2>3. DOMAIN inode' \subseteq Nat
      BY <2>2, LenProperties
  <2> DEFINE new == [next |-> 1, path |-> p, file |-> dir'[PartOf[p]], hasher |-> <<>>, sum |-> v]
  <2>4. new \in Inbound
      BY <2>2, <2>3, TransferAssumption DEF Inbound
  <2>5. tr' \in [Transfer -> Inbound] /\ tr'[t] = new /\ \A u \in Transfer \ {t} : tr'[u] = tr[u]
      BY <2>1, <2>4, <1>0 DEF ReceiverTypeOK
  <2>6. Len(<<>>) = 1 - 1
      BY EmptySeq
  <2>7. \A u \in Transfer : Opened(u)' => /\ tr'[u].path \in Path
                                          /\ tr'[u].file \in DOMAIN inode'
                                          /\ Len(tr'[u].hasher) = tr'[u].next - 1
    <3>1. /\ tr'[t].path \in Path /\ tr'[t].file \in DOMAIN inode'
          /\ Len(tr'[t].hasher) = tr'[t].next - 1
        BY <2>2, <2>5, <2>6
    <3>2. ASSUME NEW u \in Transfer \ {t}, Opened(u)'
          PROVE  tr'[u].path \in Path /\ tr'[u].file \in DOMAIN inode' /\ Len(tr'[u].hasher) = tr'[u].next - 1
      <4>1. tr'[u] = tr[u] /\ Opened(u)
          BY <2>5, <3>2 DEF Opened
      <4> QED
          BY <4>1, <2>2, <1>0 DEF ReceiverTypeOK
    <3> QED
        BY <3>1, <3>2
  <2>8. row' \in [Transfer -> [status : Status, path : Path \cup {None}]]
      BY <2>1, <1>0 DEF ReceiverTypeOK, Status
  <2>9. done' \subseteq Path /\ mixed' \subseteq File /\ crashed' \in BOOLEAN
      BY <2>a, <2>1, <1>0 DEF ReceiverTypeOK, Mixes
  <2> HIDE DEF new
  <2> QED
      BY <2>2, <2>5, <2>7, <2>8, <2>9 DEF ReceiverTypeOK
<1>4. ASSUME NEW t \in Transfer, NEW v \in 0 .. MaxFaults, HandleFileChunk(t, v) PROVE ReceiverTypeOK'
  <2>1. /\ Opened(t) /\ tr[t].next < Chunks /\ Write(t, v) /\ UNCHANGED <<row, dir, done, mixed, crashed>>
        /\ tr' = [tr EXCEPT ![t].next = @ + 1, ![t].hasher = Append(@, <<t, tr[t].next, v>>)]
      BY <1>4 DEF HandleFileChunk, nameVars
  <2>2. inode' \in Seq([1 .. Chunks -> Piece \cup {None}]) /\ DOMAIN inode' = DOMAIN inode
      BY <2>1, WriteChunk
  <2>3. /\ tr[t] \in Inbound /\ tr[t].hasher \in Seq(Piece) /\ tr[t].next \in 1 .. Chunks
        /\ Len(tr[t].hasher) = tr[t].next - 1
      BY <2>1, DiskFacts
  <2> DEFINE h == Append(tr[t].hasher, <<t, tr[t].next, v>>)
  <2>4. h \in Seq(Piece) /\ Len(h) = tr[t].next + 1 - 1
    <3>1. <<t, tr[t].next, v>> \in Piece
        BY <2>3 DEF Piece
    <3> QED
        BY <2>3, <3>1, AppendRow
  <2>5. /\ tr' \in [Transfer -> Inbound] /\ \A u \in Transfer \ {t} : tr'[u] = tr[u]
        /\ tr'[t].next = tr[t].next + 1 /\ tr'[t].path = tr[t].path /\ tr'[t].file = tr[t].file
        /\ tr'[t].hasher = h
    <3>1. tr[t].next + 1 \in 1 .. Chunks
        BY <2>1, <2>3, TransferAssumption
    <3>2. tr' = [tr EXCEPT ![t] = [tr[t] EXCEPT !.next = tr[t].next + 1, !.hasher = h]]
        BY <2>1, <1>0 DEF ReceiverTypeOK, Inbound
    <3> HIDE DEF h
    <3>3. [tr[t] EXCEPT !.next = tr[t].next + 1, !.hasher = h] \in Inbound
        BY <2>3, <2>4, <3>1 DEF Inbound
    <3> QED
        BY <3>2, <3>3, <2>3, <1>0 DEF ReceiverTypeOK, Inbound
  <2> HIDE DEF h
  <2>6. \A u \in Transfer : Opened(u)' => /\ tr'[u].path \in Path
                                          /\ tr'[u].file \in DOMAIN inode'
                                          /\ Len(tr'[u].hasher) = tr'[u].next - 1
    <3>1. /\ tr'[t].path \in Path /\ tr'[t].file \in DOMAIN inode'
          /\ Len(tr'[t].hasher) = tr'[t].next - 1
      <4>1. tr[t].path \in Path /\ tr[t].file \in DOMAIN inode
          BY <2>1, <1>0 DEF ReceiverTypeOK
      <4>2. tr'[t].next - 1 = tr[t].next + 1 - 1
          BY <2>3, <2>5
      <4> QED
          BY <4>1, <4>2, <2>2, <2>4, <2>5
    <3>2. ASSUME NEW u \in Transfer \ {t}, Opened(u)'
          PROVE  tr'[u].path \in Path /\ tr'[u].file \in DOMAIN inode' /\ Len(tr'[u].hasher) = tr'[u].next - 1
      <4>1. tr'[u] = tr[u] /\ Opened(u)
          BY <2>5, <3>2 DEF Opened
      <4> QED
          BY <4>1, <2>2, <1>0 DEF ReceiverTypeOK
    <3> QED
        BY <3>1, <3>2
  <2> QED
      BY <2>1, <2>2, <2>5, <2>6, <1>0 DEF ReceiverTypeOK
<1>5. ASSUME NEW t \in Transfer, NEW v \in 0 .. MaxFaults, Renames(t, v) \/ Closes(t, v) PROVE ReceiverTypeOK'
  <2>1. PICK st \in Status : Opened(t) /\ Finish(t, st)
      BY <1>5 DEF Renames, Closes, Status
  <2>2. /\ tr' \in [Transfer -> Inbound]
        /\ ~ Opened(t)' /\ \A u \in Transfer \ {t} : tr'[u] = tr[u] /\ Opened(u)' = Opened(u)
        /\ row' \in [Transfer -> [status : Status, path : Path \cup {None}]]
      BY <2>1, FinishTransfer
  <2>3. inode' \in Seq([1 .. Chunks -> Piece \cup {None}]) /\ DOMAIN inode' = DOMAIN inode
    <3>1. UNCHANGED inode \/ Write(t, v)
        BY <1>5 DEF Renames, Closes
    <3> QED
        BY <3>1, <2>1, WriteChunk, <1>0 DEF ReceiverTypeOK
  <2>4. dir' \in [File -> DOMAIN inode \cup {None}] /\ done' \subseteq Path
    <3>1. RemovePart(t) \/ UNCHANGED <<dir, done>> \/ Rename(t)
        BY <1>5 DEF Renames, Closes
    <3>2. CASE RemovePart(t)
        BY <3>2, <2>1, RemovedPart, <1>0 DEF ReceiverTypeOK, RemovePart
    <3>3. CASE UNCHANGED <<dir, done>>
        BY <3>3, <1>0 DEF ReceiverTypeOK
    <3>4. CASE Rename(t)
        BY <3>4, <2>1, Renamed, <1>0 DEF ReceiverTypeOK
    <3> QED
        BY <3>1, <3>2, <3>3, <3>4
  <2>5. crashed' \in BOOLEAN /\ mixed' \subseteq File
    <3>1. crashed' = crashed \/ crashed' \in BOOLEAN
        BY <1>5 DEF Renames, Closes
    <3>2. UNCHANGED mixed
        BY <1>5 DEF Renames, Closes
    <3> QED
        BY <3>1, <3>2, <1>0 DEF ReceiverTypeOK
  <2>6. \A u \in Transfer : Opened(u)' => /\ tr'[u].path \in Path
                                          /\ tr'[u].file \in DOMAIN inode'
                                          /\ Len(tr'[u].hasher) = tr'[u].next - 1
      BY <2>2, <2>3, <1>0 DEF ReceiverTypeOK
  <2> QED
      BY <2>2, <2>3, <2>4, <2>5, <2>6 DEF ReceiverTypeOK
<1> QED
    BY <1>1, <1>2, <1>3, <1>4, <1>5, ReceiverSteps

\* Types are kept.
LEMMA TypesKept == TypeOK /\ FramesAreSent /\ [Next]_vars => TypeOK'
BY SenderTypes, RelayTypes, ReceiverTypes DEF TypeOK

-----------------------------------------------------------------------------
(* The disk.                                                               *)

LEMMA InitDisk == Init => DiskInv
<1> SUFFICES ASSUME Init PROVE DiskInv
    OBVIOUS
<1>1. \A t \in Transfer : ~ Opened(t) /\ row[t].status = "none" /\ hold[t] = None
    BY DEF Init, Opened, NoTransfer
<1>2. (\A f \in File : dir[f] = None) /\ done = {} /\ mixed = {}
    BY DEF Init
<1>3. Range(queue) = {} /\ Range(todo) = {} /\ Range(down) = {}
    BY DEF Init, Range
<1>4. FramesAreSent
    BY <1>1, <1>3 DEF FramesAreSent
<1>5. OpenIsSound /\ NamesAreKnown /\ NamesAreMarked /\ PartsAreMarked /\ DoneIsKept
    BY <1>1, <1>2 DEF OpenIsSound, NamesAreKnown, NamesAreMarked, PartsAreMarked, DoneIsKept
<1>6. InodesAreOwn /\ OwnsItsPart /\ ReceivedIsKept /\ NoOrphanPart
    BY <1>1, <1>2 DEF InodesAreOwn, OwnsItsPart, ReceivedIsKept, NoOrphanPart
<1> QED
    BY <1>4, <1>5, <1>6 DEF DiskInv

\* A file is named and hashed once, before anything of it is sent.
LEMMA HashedOnce ==
    ASSUME TypeOK, [Next]_vars, NEW t \in Transfer, sent[t] # None
    PROVE  sent'[t] # None /\ sum'[t] = sum[t] /\ name'[t] = name[t]
<1> DEFINE G == sent'[t] # None /\ sum'[t] = sum[t] /\ name'[t] = name[t]
<1>0. \A u \in Transfer : sent[u] # None => sent[u] + 1 # None
    BY TransferAssumption DEF TypeOK, SenderTypeOK
<1>1. ASSUME NEW u \in Transfer, SendFile(u) PROVE G
  <2>1. u # t
      BY <1>1 DEF SendFile
  <2> QED
      BY <1>1, <2>1 DEF SendFile, TypeOK, SenderTypeOK
<1>2. ASSUME NEW u \in Transfer, SendFrame(u) \/ SendLost(u) PROVE G
    BY <1>2, <1>0 DEF SendFrame, SendLost, Written, TypeOK, SenderTypeOK
<1>3. ASSUME UNCHANGED <<sent, sum, name>> PROVE G
    BY <1>3
<1>4. ASSUME Receiving PROVE UNCHANGED <<sent, sum, name>>
  <2>1. \E f : Read(f)
      BY ZenonT(60), <1>4 DEF Receiving, HandleFileOffer, DeclineOffer, HandleFileChunk, FinalizeTransfer,
                  UnknownChunk, AbortInbound
  <2> QED
      BY <2>1 DEF Read, senderVars
<1>5. ASSUME CutReceiver \/ RemoveConn \/ AddConn \/ AfterReady \/ CutSender \/ KillReceiver \/ UNCHANGED vars
      PROVE  UNCHANGED <<sent, sum, name>>
    BY <1>5 DEF CutReceiver, RemoveConn, AddConn, AfterReady, ReadQueue, SendRow, CutSender, KillReceiver,
                vars, senderVars
<1>6. ASSUME NEW u \in Transfer, SendFails(u) \/ EnqueueHeld(u) \/ Edit(u) PROVE UNCHANGED <<sent, sum, name>>
    BY <1>6 DEF SendFails, EnqueueHeld, Edit, senderVars
<1> HIDE DEF G
<1>7. G
    BY <1>1, <1>2, <1>3, <1>4, <1>5, <1>6 DEF Next, Step, Sending
<1> QED
    BY <1>7 DEF G

\* Names that have met have met for good.
LEMMA MeetKept ==
    ASSUME TypeOK, [Next]_vars, NamesMeet
    PROVE  NamesMeet'
<1>1. PICK t \in Transfer, u \in Transfer, j \in 1 .. MaxCopies, k \in 1 .. MaxCopies :
        sent[t] # None /\ sent[u] # None /\ Copy[name[t]][j] = PartOf[Copy[name[u]][k]]
    BY DEF NamesMeet
<1>2. /\ sent'[t] # None /\ name'[t] = name[t]
      /\ sent'[u] # None /\ name'[u] = name[u]
    BY <1>1, HashedOnce
<1>3. Copy[name'[t]][j] = PartOf[Copy[name'[u]][k]]
    BY <1>1, <1>2
<1> QED
    BY <1>2, <1>3 DEF NamesMeet

\* What is marked stays marked.
LEMMA MarksKept ==
    ASSUME TypeOK, FramesAreSent, [Next]_vars
    PROVE  /\ shared \subseteq shared' /\ mixed \subseteq mixed' /\ done \subseteq done'
           /\ crashed => crashed'
           /\ Clear' => Clear
           /\ \A p \in Path : Apart(p)' => Apart(p)
<1>1. shared \subseteq shared' /\ mixed \subseteq mixed' /\ done \subseteq done' /\ (crashed => crashed')
  <2>1. CASE UNCHANGED <<tr, row, dir, inode, shared, done, mixed, crashed>>
      BY <2>1
  <2>2. CASE KillReceiver
      BY <2>2 DEF KillReceiver, nameVars
  <2>3. ASSUME NEW t \in Transfer, NEW v \in 0 .. MaxFaults, HandleFileOffer(t, v)
        PROVE  shared \subseteq shared' /\ mixed \subseteq mixed' /\ done \subseteq done' /\ (crashed => crashed')
    <3>1. PICK k \in 1 .. MaxCopies, p \in Path : Offers(t, v, k, p)
        BY <2>3, Offered
    <3> QED
        BY <3>1 DEF Offers
  <2>4. ASSUME NEW t \in Transfer, NEW v \in 0 .. MaxFaults, HandleFileChunk(t, v)
        PROVE  UNCHANGED <<shared, mixed, done, crashed>>
      BY <2>4 DEF HandleFileChunk, nameVars
  <2>5. ASSUME NEW t \in Transfer, NEW v \in 0 .. MaxFaults, Renames(t, v)
        PROVE  UNCHANGED <<shared, mixed, crashed>> /\ done \subseteq done'
      BY <2>5 DEF Renames, Rename
  <2>6. ASSUME NEW t \in Transfer, NEW v \in 0 .. MaxFaults, Closes(t, v)
        PROVE  UNCHANGED <<shared, mixed, done>> /\ (crashed => crashed')
      BY <2>6 DEF Closes
  <2> QED
      BY <2>1, <2>2, <2>3, <2>4, <2>5, <2>6, ReceiverSteps
<1>2. Clear' => Clear
  <2>1. Clear' => ~ crashed' /\ ~ NamesMeet'
      BY DEF Clear
  <2> QED
      BY <1>1, <2>1, MeetKept DEF Clear
<1>3. \A p \in Path : Apart(p)' => Apart(p)
    BY <1>1 DEF Apart
<1> QED
    BY <1>1, <1>2, <1>3

LEMMA FramesKept == TypeOK /\ FramesAreSent /\ [Next]_vars => FramesAreSent'
<1> SUFFICES ASSUME TypeOK, FramesAreSent, [Next]_vars PROVE FramesAreSent'
    OBVIOUS
<1>0. /\ queue \in Seq(Frame) /\ todo \in Seq(Frame) /\ down \in Seq(Frame)
      /\ \A f \in Range(queue) \cup Range(todo) \cup Range(down) : f[1] \in Transfer
      /\ \A t \in Transfer : hold[t] # None => hold[t][1] = t
      /\ DOMAIN hold = Transfer
  <2>1. /\ queue \in Seq(Frame) /\ todo \in Seq(Frame) /\ down \in Seq(Frame)
        /\ \A t \in Transfer : hold[t] # None => hold[t][1] = t
        /\ DOMAIN hold = Transfer
      BY DEF TypeOK, RelayTypeOK
  <2>2. Range(queue) \subseteq Frame /\ Range(todo) \subseteq Frame /\ Range(down) \subseteq Frame
      BY <2>1, RowsOfTable
  <2> QED
      BY <2>1, <2>2 DEF Frame
<1>1. ASSUME NEW f, f[1] \in Transfer, IsSent(f) PROVE IsSent(f)'
    BY <1>1, HashedOnce DEF IsSent
<1>2. /\ \A f \in Range(queue) \cup Range(todo) \cup Range(down) : IsSent(f)'
      /\ \A t \in Transfer : hold[t] # None => IsSent(hold[t]) /\ hold[t][1] \in Transfer
    BY <1>0, <1>1 DEF FramesAreSent
<1>3. ASSUME NEW t \in Transfer, hold[t] # None
      PROVE  sent'[hold[t][1]] # None /\ (hold[t][2] = 0 => hold[t][3] = sum'[hold[t][1]])
    BY <1>2, <1>3, HashedOnce DEF IsSent
<1>4. ASSUME Range(queue') \cup Range(todo') \cup Range(down') \subseteq Range(queue) \cup Range(todo) \cup Range(down),
             hold' = hold
      PROVE  FramesAreSent'
  <2>1. \A f \in Range(queue') \cup Range(todo') \cup Range(down') : IsSent(f)'
      BY <1>2, <1>4
  <2>2. \A t \in Transfer : hold'[t] # None => IsSent(hold[t])'
      BY <1>3, <1>4 DEF IsSent
  <2> QED
      BY <2>1, <2>2 DEF FramesAreSent
<1>5. ASSUME NEW t \in Transfer, SendFrame(t) PROVE FramesAreSent'
  <2> DEFINE f == <<t, sent[t], IF sent[t] = 0 THEN sum[t] ELSE version[t]>>
  <2>1. /\ f \in Frame /\ sent[t] \in 0 .. Chunks
        /\ \/ down' = Append(down, f) /\ UNCHANGED hold
           \/ UNCHANGED <<hold, down>>
           \/ hold' = [hold EXCEPT ![t] = f] /\ UNCHANGED down
      BY <1>5, SentFrame
  <2>a. UNCHANGED <<queue, todo>>
      BY <1>5 DEF SendFrame
  <2>2. sent[t] # None
      BY <2>1, TransferAssumption
  <2>3. f[1] = t /\ (f[2] = 0 => f[3] = sum[t])
      OBVIOUS
  <2> HIDE DEF f
  <2>4. Range(Append(down, f)) = Range(down) \cup {f}
      BY <2>1, <1>0, AppendRow
  <2>5. Range(queue') \cup Range(todo') \cup Range(down') \subseteq Range(queue) \cup Range(todo) \cup Range(down) \cup {f}
      BY <2>1, <2>4, <2>a
  <2>6. sent'[f[1]] # None /\ (f[2] = 0 => f[3] = sum'[f[1]])
      BY <2>2, <2>3, HashedOnce
  <2>7. \A g \in Range(queue') \cup Range(todo') \cup Range(down') : IsSent(g)'
      BY <2>5, <2>6, <1>2 DEF IsSent
  <2>8. \A u \in Transfer : hold'[u] # None => IsSent(hold[u])'
    <3> SUFFICES ASSUME NEW u \in Transfer, hold'[u] # None
                 PROVE  sent'[hold'[u][1]] # None /\ (hold'[u][2] = 0 => hold'[u][3] = sum'[hold'[u][1]])
        BY DEF IsSent
    <3>1. hold'[u] = hold[u] \/ hold'[u] = f
        BY <2>1, <1>0
    <3> QED
        BY <3>1, <2>6, <1>3
  <2> QED
      BY <2>7, <2>8 DEF FramesAreSent
<1>6. ASSUME NEW f, Read(f) PROVE FramesAreSent'
  <2>1. Range(queue') \subseteq Range(queue) /\ Range(down') \subseteq Range(down) /\ UNCHANGED <<todo, hold>>
      BY <1>6, ReadFrames DEF TypeOK
  <2> QED
      BY <2>1, <1>4
<1>7. CASE UNCHANGED relayVars
    BY <1>7, <1>4 DEF relayVars
<1>8. CASE CutReceiver \/ KillReceiver
  <2>1. Range(<<>>) = {}
      BY DEF Range
  <2>2. down' = <<>> /\ todo' = <<>> /\ queue' = queue /\ hold' = hold
      BY <1>8 DEF CutReceiver, KillReceiver
  <2> QED
      BY <2>1, <2>2, <1>4
<1>9. CASE RemoveConn \/ AddConn \/ ReadQueue
    BY <1>9, <1>4 DEF RemoveConn, AddConn, ReadQueue
<1>10. CASE SendRow
  <2>1. /\ Head(todo) \in Range(todo) /\ Range(todo') \subseteq Range(todo)
        /\ Range(down') = Range(down) \cup {Head(todo)} /\ UNCHANGED <<queue, hold>>
      BY <1>10, SentRow
  <2> QED
      BY <2>1, <1>4
<1>11. ASSUME NEW t \in Transfer, EnqueueHeld(t) PROVE FramesAreSent'
  <2>1. /\ Range(queue') \subseteq Range(queue) \cup {hold[t]} /\ hold' = [hold EXCEPT ![t] = None]
        /\ UNCHANGED <<todo, down>> /\ hold[t] # None
      BY <1>11, QueuedFrame DEF EnqueueHeld
  <2>2. \A g \in Range(queue') \cup Range(todo') \cup Range(down') : IsSent(g)'
      BY <2>1, <1>2, <1>3 DEF IsSent
  <2>3. \A u \in Transfer : hold'[u] # None => IsSent(hold[u])'
    <3> SUFFICES ASSUME NEW u \in Transfer, hold'[u] # None
                 PROVE  sent'[hold'[u][1]] # None /\ (hold'[u][2] = 0 => hold'[u][3] = sum'[hold'[u][1]])
        BY DEF IsSent
    <3>1. hold'[u] = hold[u]
        BY <2>1, <1>0
    <3> QED
        BY <3>1, <1>3
  <2> QED
      BY <2>2, <2>3 DEF FramesAreSent
<1> QED
    BY <1>5, <1>6, <1>7, <1>8, <1>9, <1>10, <1>11, RelaySteps

\* What is known of an open transfer, and of the names in the directory, stays
\* true while it is open.
LEMMA OpenStays ==
    ASSUME TypeOK, DiskInv, [Next]_vars, NEW u \in Transfer, Opened(u)
    PROVE  /\ sent'[u] # None /\ tr[u].sum = sum'[u]
           /\ \E k \in 1 .. MaxCopies :
                /\ tr[u].path = Copy[name'[u]][k]
                /\ Clear' => \A j \in 1 .. (k - 1) : Copy[name'[u]][j] \in done'
<1>1. PICK k \in 1 .. MaxCopies :
        /\ sent[u] # None /\ tr[u].sum = sum[u] /\ tr[u].path = Copy[name[u]][k]
        /\ Clear => \A j \in 1 .. (k - 1) : Copy[name[u]][j] \in done
    BY DEF DiskInv, OpenIsSound
<1>2. sent'[u] # None /\ sum'[u] = sum[u] /\ name'[u] = name[u]
    BY <1>1, HashedOnce
<1>3. done \subseteq done' /\ (Clear' => Clear)
    BY MarksKept DEF DiskInv
<1>4. Clear' => \A j \in 1 .. (k - 1) : Copy[name'[u]][j] \in done'
    BY <1>1, <1>2, <1>3
<1> QED
    BY <1>1, <1>2, <1>4

LEMMA NamesStay ==
    ASSUME TypeOK, DiskInv, [Next]_vars
    PROVE  /\ \A p \in done : \E t \in Transfer, k \in 1 .. MaxCopies :
                sent'[t] # None /\ p = Copy[name'[t]][k]
           /\ mixed # {} => NamesMeet'
<1>1. ASSUME NEW p \in done
      PROVE  \E t \in Transfer, k \in 1 .. MaxCopies : sent'[t] # None /\ p = Copy[name'[t]][k]
  <2>1. PICK t \in Transfer, k \in 1 .. MaxCopies : sent[t] # None /\ p = Copy[name[t]][k]
      BY DEF DiskInv, NamesAreKnown
  <2>2. sent'[t] # None /\ name'[t] = name[t]
      BY <2>1, HashedOnce
  <2> QED
      BY <2>1, <2>2
<1>2. mixed # {} => NamesMeet'
    BY MeetKept DEF DiskInv, NamesAreKnown
<1> QED
    BY <1>1, <1>2

\* A row that says received is of a file that was sent, for good.
LEMMA ReceivedStays ==
    ASSUME TypeOK, DiskInv, [Next]_vars, NEW u \in Transfer, row[u].status = "received"
    PROVE  row[u].path \in done /\ row[u].path \in done' /\ sent'[u] # None /\ sum'[u] = sum[u]
<1>1. row[u].path \in done /\ sent[u] # None
    BY DEF DiskInv, ReceivedIsKept
<1> QED
    BY <1>1, HashedOnce, MarksKept DEF DiskInv

\* A received file stays intact when its name and its inode do.
LEMMA IntactStays ==
    ASSUME TypeOK, NEW u \in Transfer, Intact(u), row'[u] = row[u], sum'[u] = sum[u],
           dir'[row[u].path] = dir[row[u].path],
           inode'[dir[row[u].path]] = inode[dir[row[u].path]]
    PROVE  Intact(u)'
<1>1. PICK q \in Path : q = row[u].path /\ dir[q] # None /\ inode[dir[q]] = Whole(u, sum[u])
    BY DEF Intact
<1>2. q = row'[u].path /\ dir'[q] # None /\ inode'[dir'[q]] = Whole(u, sum'[u])
    BY <1>1
<1> QED
    BY <1>2 DEF Intact, Whole

\* Steps that leave the disk and the transfers alone.
LEMMA DiskUntouched ==
    ASSUME TypeOK, DiskInv, [Next]_vars, UNCHANGED <<tr, row, dir, inode, shared, done, mixed, crashed>>
    PROVE  DiskInv'
<1>0. \A t \in Transfer : Opened(t)' = Opened(t)
    BY DEF Opened
<1>00. \A p \in Path : Apart(p)' = Apart(p)
    BY DEF Apart
<1>000. done \subseteq Path
    BY DEF TypeOK, ReceiverTypeOK
<1>1. FramesAreSent'
    BY FramesKept DEF DiskInv
<1>2. OpenIsSound'
    BY <1>0, OpenStays DEF OpenIsSound
<1>3. NamesAreKnown'
    BY NamesStay DEF NamesAreKnown
<1>4. NamesAreMarked' /\ PartsAreMarked' /\ InodesAreOwn'
    BY <1>0 DEF DiskInv, NamesAreMarked, PartsAreMarked, InodesAreOwn
<1>5. DoneIsKept'
    BY <1>0, <1>00, <1>000 DEF DiskInv, DoneIsKept
<1>6. OwnsItsPart'
    BY <1>0 DEF DiskInv, OwnsItsPart, Owns
<1>7. ReceivedIsKept'
  <2> SUFFICES ASSUME NEW u \in Transfer, row'[u].status = "received"
               PROVE  /\ row'[u].path \in done' /\ sent'[u] # None
                      /\ u \notin shared' /\ Apart(row[u].path)' =>
                           Intact(u)' /\ \A x \in Transfer : Opened(x)' => tr'[x].file # dir'[row'[u].path]
      BY DEF ReceivedIsKept
  <2>1. row[u].path \in done /\ row[u].path \in done' /\ sent'[u] # None /\ sum'[u] = sum[u]
      BY ReceivedStays
  <2>2. ASSUME u \notin shared', Apart(row[u].path)'
        PROVE  Intact(u) /\ \A x \in Transfer : Opened(x) => tr[x].file # dir[row[u].path]
      BY <2>1, <2>2, <1>00, <1>000 DEF DiskInv, ReceivedIsKept
  <2>3. ASSUME Intact(u) PROVE Intact(u)'
      BY <2>1, <2>3, IntactStays
  <2> QED
      BY <2>1, <2>2, <2>3, <1>0
<1>8. NoOrphanPart'
    BY ZenonT(60), <1>0, MeetKept DEF DiskInv, NoOrphanPart
<1> QED
    BY <1>1, <1>2, <1>3, <1>4, <1>5, <1>6, <1>7, <1>8 DEF DiskInv

LEMMA DiskAfterKill ==
    ASSUME TypeOK, DiskInv, [Next]_vars, KillReceiver
    PROVE  DiskInv'
<1>0. \A t \in Transfer : ~ Opened(t)'
  <2>1. NoTransfer.next = None
      BY DEF NoTransfer
  <2> QED
      BY <2>1 DEF KillReceiver, Opened
<1>00. UNCHANGED <<row, dir, inode, shared, done, mixed>> /\ crashed'
    BY DEF KillReceiver, diskVars, nameVars
<1>000. (\A p \in Path : Apart(p)' = Apart(p)) /\ done \subseteq Path
    BY <1>00 DEF Apart, TypeOK, ReceiverTypeOK
<1>1. FramesAreSent'
    BY FramesKept DEF DiskInv
<1>2. OpenIsSound' /\ NamesAreMarked' /\ PartsAreMarked' /\ OwnsItsPart'
    BY <1>0 DEF OpenIsSound, NamesAreMarked, PartsAreMarked, OwnsItsPart
<1>3. NamesAreKnown'
    BY <1>00, NamesStay DEF NamesAreKnown
<1>4. InodesAreOwn' /\ DoneIsKept'
    BY <1>0, <1>00, <1>000 DEF DiskInv, InodesAreOwn, DoneIsKept
<1>5. ReceivedIsKept'
  <2> SUFFICES ASSUME NEW u \in Transfer, row'[u].status = "received"
               PROVE  /\ row'[u].path \in done' /\ sent'[u] # None
                      /\ u \notin shared' /\ Apart(row[u].path)' => Intact(u)'
      BY <1>0 DEF ReceivedIsKept
  <2>1. row[u].path \in done /\ row[u].path \in done' /\ sent'[u] # None /\ sum'[u] = sum[u]
      BY <1>00, ReceivedStays
  <2>2. ASSUME u \notin shared', Apart(row[u].path)' PROVE Intact(u)
      BY <2>1, <2>2, <1>00, <1>000 DEF DiskInv, ReceivedIsKept
  <2>3. ASSUME Intact(u) PROVE Intact(u)'
      BY <2>1, <2>3, <1>00, IntactStays
  <2> QED
      BY <2>1, <2>2, <2>3, <1>00
<1>6. NoOrphanPart'
    BY <1>00 DEF NoOrphanPart
<1> QED
    BY <1>1, <1>2, <1>3, <1>4, <1>5, <1>6 DEF DiskInv

\* A write through one transfer's handle changes no file that another one has
\* to itself, and none that was received.
LEMMA WriteSpares ==
    ASSUME TypeOK, DiskInv, NEW t \in Transfer, NEW v \in 0 .. MaxFaults, Opened(t),
           UNCHANGED inode \/ Write(t, v)
    PROVE  /\ \A u \in Transfer \ {t} :
                Opened(u) /\ u \notin shared /\ PartOf[tr[u].path] \notin mixed =>
                  inode'[tr[u].file] = inode[tr[u].file] /\ tr[u].path # tr[t].path
           /\ \A u \in Transfer :
                row[u].status = "received" /\ u \notin shared /\ Apart(row[u].path) =>
                  inode'[dir[row[u].path]] = inode[dir[row[u].path]]
<1>1. \A n \in DOMAIN inode : n # tr[t].file => inode'[n] = inode[n]
    BY WriteChunk, DiskFacts
<1>2. /\ \A f \in File : dir[f] \in DOMAIN inode \cup {None}
      /\ \A u \in Transfer : Opened(u) => tr[u].file \in DOMAIN inode /\ tr[u].path \in Path
    BY DEF TypeOK, ReceiverTypeOK
<1>3. ASSUME NEW u \in Transfer \ {t}, Opened(u), u \notin shared, PartOf[tr[u].path] \notin mixed
      PROVE  inode'[tr[u].file] = inode[tr[u].file] /\ tr[u].path # tr[t].path
  <2>1. tr[u].path # tr[t].path
      BY <1>3 DEF DiskInv, NamesAreMarked
  <2>2. tr[u].file # tr[t].file
      BY <1>3 DEF DiskInv, OwnsItsPart, Owns
  <2> QED
      BY <2>1, <2>2, <1>1, <1>2, <1>3
<1>4. ASSUME NEW u \in Transfer, row[u].status = "received", u \notin shared, Apart(row[u].path)
      PROVE  inode'[dir[row[u].path]] = inode[dir[row[u].path]]
  <2>1. Intact(u) /\ tr[t].file # dir[row[u].path]
      BY <1>4 DEF DiskInv, ReceivedIsKept
  <2>2. dir[row[u].path] \in DOMAIN inode
      BY <2>1, <1>2, NameFacts DEF Intact
  <2> QED
      BY <2>1, <2>2, <1>1
<1> QED
    BY <1>3, <1>4

\* A chunk: the file and the hash go on together.
LEMMA DiskAfterChunk ==
    ASSUME TypeOK, DiskInv, [Next]_vars,
           NEW t \in Transfer, NEW v \in 0 .. MaxFaults, HandleFileChunk(t, v)
    PROVE  DiskInv'
<1>1. /\ Opened(t) /\ tr[t].next < Chunks /\ Write(t, v)
      /\ UNCHANGED <<row, dir, crashed, shared, done, mixed>>
      /\ tr' = [tr EXCEPT ![t].next = @ + 1, ![t].hasher = Append(@, <<t, tr[t].next, v>>)]
    BY DEF HandleFileChunk, nameVars
<1> DEFINE x == <<t, tr[t].next, v>>
           h == Append(tr[t].hasher, x)
<1>2. /\ tr[t] \in Inbound /\ tr[t].hasher \in Seq(Piece) /\ tr[t].next \in 1 .. Chunks
      /\ Len(tr[t].hasher) = tr[t].next - 1 /\ tr[t].file \in 1 .. Len(inode)
      /\ inode[tr[t].file] \in [1 .. Chunks -> Piece \cup {None}] /\ tr[t].next # None
    BY <1>1, DiskFacts DEF Opened
<1>3. x \in Piece
    BY <1>2 DEF Piece
<1>4. /\ \A u \in Transfer \ {t} : tr'[u] = tr[u]
      /\ tr'[t].next = tr[t].next + 1 /\ tr'[t].path = tr[t].path /\ tr'[t].file = tr[t].file
      /\ tr'[t].sum = tr[t].sum /\ tr'[t].hasher = h
  <2>1. tr' = [tr EXCEPT ![t] = [tr[t] EXCEPT !.next = tr[t].next + 1, !.hasher = h]]
      BY <1>1 DEF TypeOK, ReceiverTypeOK, Inbound
  <2> HIDE DEF h
  <2> QED
      BY <2>1, <1>2 DEF TypeOK, ReceiverTypeOK, Inbound
<1>5. h[tr[t].next] = x /\ \A i \in 1 .. (tr[t].next - 1) : h[i] = tr[t].hasher[i]
  <2> HIDE DEF x
  <2>1. /\ h[Len(tr[t].hasher) + 1] = x
        /\ \A i \in 1 .. Len(tr[t].hasher) : h[i] = tr[t].hasher[i]
      BY <1>2, <1>3, AppendRow
  <2>2. Len(tr[t].hasher) + 1 = tr[t].next
      BY <1>2
  <2> QED
      BY <2>1, <2>2, <1>2
<1> HIDE DEF h, x
<1>6. \A u \in Transfer : Opened(u)' = Opened(u) /\ tr'[u].path = tr[u].path
                          /\ tr'[u].file = tr[u].file /\ tr'[u].sum = tr[u].sum
  <2>1. Opened(t)' /\ Opened(t)
      BY <1>1, <1>2, <1>4, TransferAssumption DEF Opened
  <2>2. \A u \in Transfer \ {t} : Opened(u)' = Opened(u)
      BY <1>4 DEF Opened
  <2>3. Opened(t)' = Opened(t)
      BY <2>1 DEF Opened
  <2> QED
      BY <2>2, <2>3, <1>4
<1>7. (\A p \in Path : Apart(p)' = Apart(p)) /\ done \subseteq Path
    BY <1>1 DEF Apart, TypeOK, ReceiverTypeOK
<1>10. FramesAreSent'
    BY FramesKept DEF DiskInv
<1>11. OpenIsSound'
    BY <1>6, OpenStays DEF OpenIsSound
<1>12. NamesAreKnown'
    BY <1>1, NamesStay DEF NamesAreKnown
<1>13. NamesAreMarked' /\ PartsAreMarked'
  <2>1. \A a \in Transfer : (Opened(a)' => Opened(a)) /\ tr'[a].path = tr[a].path
      BY <1>6
  <2>4. UNCHANGED <<shared, done, mixed>>
      BY <1>1
  <2>2. NamesAreMarked'
      BY <2>1, <2>4 DEF DiskInv, NamesAreMarked
  <2>3. PartsAreMarked'
      BY <2>1, <2>4 DEF DiskInv, PartsAreMarked
  <2> QED
      BY <2>2, <2>3
<1>14. DoneIsKept'
    BY <1>1, <1>6, <1>7 DEF DiskInv, DoneIsKept
<1>15. InodesAreOwn'
    BY <1>1, <1>6 DEF DiskInv, InodesAreOwn
<1>16. OwnsItsPart'
  <2>1. ASSUME t \notin shared, PartOf[tr[t].path] \notin mixed
        PROVE  Owns(t)'
    <3>1. Owns(t)
        BY <2>1, <1>1 DEF DiskInv, OwnsItsPart
    <3>2. inode'[tr[t].file] = [inode[tr[t].file] EXCEPT ![tr[t].next] = x]
        BY <1>1, WriteChunk DEF x
    <3>3. ASSUME NEW i \in 1 .. (tr'[t].next - 1) PROVE inode'[tr[t].file][i] = h[i]
      <4>1. CASE i = tr[t].next
          BY <4>1, <3>2, <1>2, <1>5
      <4>2. CASE i # tr[t].next
        <5>1. i \in 1 .. (tr[t].next - 1) /\ i \in 1 .. Chunks
            BY <4>2, <1>2, <1>4, TransferAssumption
        <5>2. inode[tr[t].file][i] = tr[t].hasher[i]
            BY <5>1, <3>1 DEF Owns
        <5> QED
            BY <5>1, <5>2, <4>2, <3>2, <1>2, <1>5
      <4> QED
          BY <4>1, <4>2
    <3>4. dir'[PartOf[tr'[t].path]] = tr'[t].file
        BY <3>1, <1>1, <1>4 DEF Owns
    <3>5. \A u \in Transfer : Opened(u)' /\ tr'[u].file = tr'[t].file => u = t
        BY <3>1, <1>6 DEF Owns
    <3> QED
        BY <3>3, <3>4, <3>5, <1>4 DEF Owns
  <2>2. ASSUME NEW u \in Transfer \ {t}, Opened(u), u \notin shared, PartOf[tr[u].path] \notin mixed
        PROVE  Owns(u)'
    <3>1. inode'[tr[u].file] = inode[tr[u].file]
        BY <2>2, <1>1, WriteSpares
    <3>2. Owns(u)
        BY <2>2 DEF DiskInv, OwnsItsPart
    <3>3. tr'[u] = tr[u] /\ dir' = dir
        BY <1>1, <1>4
    <3>4. \A y \in Transfer : Opened(y)' /\ tr'[y].file = tr'[u].file => y = u
        BY <3>2, <1>6 DEF Owns
    <3> QED
        BY <3>1, <3>2, <3>3, <3>4 DEF Owns
  <2> QED
      BY <2>1, <2>2, <1>1, <1>6 DEF OwnsItsPart
<1>17. ReceivedIsKept'
  <2> SUFFICES ASSUME NEW u \in Transfer, row'[u].status = "received"
               PROVE  /\ row'[u].path \in done' /\ sent'[u] # None
                      /\ u \notin shared' /\ Apart(row[u].path)' =>
                           Intact(u)' /\ \A y \in Transfer : Opened(y)' => tr'[y].file # dir'[row'[u].path]
      BY DEF ReceivedIsKept
  <2>1. row[u].path \in done /\ row[u].path \in done' /\ sent'[u] # None /\ sum'[u] = sum[u]
      BY <1>1, ReceivedStays
  <2>2. ASSUME u \notin shared', Apart(row[u].path)'
        PROVE  /\ Intact(u) /\ \A y \in Transfer : Opened(y) => tr[y].file # dir[row[u].path]
               /\ inode'[dir[row[u].path]] = inode[dir[row[u].path]]
    <3>1. row[u].status = "received" /\ u \notin shared /\ Apart(row[u].path)
        BY <2>1, <2>2, <1>1, <1>7
    <3>2. Intact(u) /\ \A y \in Transfer : Opened(y) => tr[y].file # dir[row[u].path]
        BY <3>1 DEF DiskInv, ReceivedIsKept
    <3> QED
        BY <3>1, <3>2, <1>1, WriteSpares
  <2>3. ASSUME Intact(u), inode'[dir[row[u].path]] = inode[dir[row[u].path]] PROVE Intact(u)'
      BY <2>1, <2>3, <1>1, IntactStays
  <2> QED
      BY <2>1, <2>2, <2>3, <1>1, <1>6
<1>18. NoOrphanPart'
  <2>1. ASSUME NEW f \in File, dir'[f] # None, ~ crashed', ~ NamesMeet'
        PROVE  f \in done' \/ \E u \in Transfer : Opened(u)' /\ PartOf[tr'[u].path] = f
    <3>1. f \in done \/ \E u \in Transfer : Opened(u) /\ PartOf[tr[u].path] = f
        BY <2>1, <1>1, MeetKept DEF DiskInv, NoOrphanPart
    <3> QED
        BY <3>1, <1>1, <1>6
  <2> QED
      BY <2>1 DEF NoOrphanPart
<1> QED
    BY <1>10, <1>11, <1>12, <1>13, <1>14, <1>15, <1>16, <1>17, <1>18 DEF DiskInv

\* A transfer that fails leaves the others and their files alone, and no .part
\* file but after a disk error.
LEMMA DiskAfterClose ==
    ASSUME TypeOK, DiskInv, [Next]_vars,
           NEW t \in Transfer, NEW v \in 0 .. MaxFaults, Closes(t, v)
    PROVE  DiskInv'
<1> DEFINE g == PartOf[tr[t].path]
<1>1. /\ Opened(t) /\ Finish(t, "failed") /\ UNCHANGED <<shared, done, mixed>>
      /\ UNCHANGED inode \/ Write(t, v)
      /\ RemovePart(t) \/ (UNCHANGED dir /\ (crashed' \/ dir[g] = None))
      /\ crashed => crashed'
    BY DEF Closes, HasPart
<1>2. /\ ~ Opened(t)' /\ \A u \in Transfer \ {t} : tr'[u] = tr[u] /\ Opened(u)' = Opened(u)
      /\ row'[t] = [status |-> "failed", path |-> tr[t].path]
      /\ \A u \in Transfer \ {t} : row'[u] = row[u]
  <2>1. "failed" \in Status
      BY DEF Status
  <2> QED
      BY <1>1, <2>1, FinishTransfer
<1>3. /\ \A f \in File : f # g => dir'[f] = dir[f]
      /\ \A f \in File : dir'[f] # None => dir'[f] = dir[f]
      /\ dir'[g] = None \/ crashed'
    BY <1>1, RemovedPart
<1>4. (\A p \in Path : Apart(p)' = Apart(p)) /\ done \subseteq Path
    BY <1>1 DEF Apart, TypeOK, ReceiverTypeOK
<1>5. tr[t].path \in Path /\ g \in File /\ (g \in done => g \in mixed)
    BY <1>1, DiskFacts, NameFacts DEF DiskInv, PartsAreMarked
<1> HIDE DEF g
<1>6. ASSUME NEW q \in done, Apart(q) PROVE dir'[q] = dir[q] /\ q \in File
    BY <1>3, <1>4, <1>5, <1>6, NameFacts DEF Apart
<1>10. FramesAreSent'
    BY FramesKept DEF DiskInv
<1>11. OpenIsSound'
    BY <1>2, OpenStays DEF OpenIsSound
<1>12. NamesAreKnown'
    BY <1>1, NamesStay DEF NamesAreKnown
<1>13. NamesAreMarked' /\ PartsAreMarked'
    BY <1>1, <1>2 DEF DiskInv, NamesAreMarked, PartsAreMarked
<1>14. DoneIsKept'
  <2> SUFFICES ASSUME NEW q \in done, Apart(q)
               PROVE  /\ dir'[q] # None
                      /\ \A u \in Transfer : Opened(u)' /\ tr'[u].path = q => dir'[PartOf[q]] = None
      BY <1>1, <1>4 DEF DoneIsKept
  <2>1. /\ dir[q] # None
        /\ \A u \in Transfer : Opened(u) /\ tr[u].path = q => dir[PartOf[q]] = None
      BY DEF DiskInv, DoneIsKept
  <2>2. PartOf[q] \in File
      BY <1>4, NameFacts
  <2>3. \A u \in Transfer : Opened(u)' /\ tr'[u].path = q => dir[PartOf[q]] = None
      BY <2>1, <1>2
  <2> QED
      BY <2>1, <2>2, <2>3, <1>3, <1>6
<1>15. InodesAreOwn'
  <2>0. \A u \in Transfer : Opened(u) => tr[u].file # None
      BY DiskFacts
  <2>1. ASSUME NEW a \in File, NEW b \in File, dir'[a] # None, dir'[a] = dir'[b] PROVE a = b
      BY <2>1, <1>3 DEF DiskInv, InodesAreOwn
  <2>2. ASSUME NEW u \in Transfer, NEW f \in File, Opened(u)', tr'[u].file = dir'[f]
        PROVE  f = PartOf[tr'[u].path] \/ f \in done'
    <3>1. u # t /\ Opened(u) /\ tr'[u] = tr[u]
        BY <2>2, <1>2
    <3>2. tr[u].file = dir[f]
        BY <3>1, <2>0, <2>2, <1>3
    <3> QED
        BY <3>1, <3>2, <1>1 DEF DiskInv, InodesAreOwn
  <2> QED
      BY <2>1, <2>2 DEF InodesAreOwn
<1>16. OwnsItsPart'
  <2>1. ASSUME NEW u \in Transfer \ {t}, Opened(u), u \notin shared, PartOf[tr[u].path] \notin mixed
        PROVE  Owns(u)'
    <3>1. inode'[tr[u].file] = inode[tr[u].file] /\ tr[u].path # tr[t].path
        BY <2>1, <1>1, WriteSpares
    <3>2. Owns(u)
        BY <2>1 DEF DiskInv, OwnsItsPart
    <3>3. PartOf[tr[u].path] \in File /\ PartOf[tr[u].path] # g
        BY <2>1, <3>1, <1>5, DiskFacts, NameFacts DEF g
    <3>4. dir'[PartOf[tr[u].path]] = dir[PartOf[tr[u].path]]
        BY <3>3, <1>3
    <3> QED
        BY <3>1, <3>2, <3>4, <1>2 DEF Owns
  <2> QED
      BY <2>1, <1>1, <1>2 DEF OwnsItsPart
<1>17. ReceivedIsKept'
  <2> SUFFICES ASSUME NEW u \in Transfer, row'[u].status = "received"
               PROVE  /\ row'[u].path \in done' /\ sent'[u] # None
                      /\ u \notin shared' /\ Apart(row[u].path)' =>
                           Intact(u)' /\ \A y \in Transfer : Opened(y)' => tr'[y].file # dir'[row'[u].path]
      BY DEF ReceivedIsKept
  <2>0. u # t /\ row'[u] = row[u] /\ row[u].status = "received"
      BY <1>2
  <2>1. row[u].path \in done /\ row[u].path \in done' /\ sent'[u] # None /\ sum'[u] = sum[u]
      BY <2>0, ReceivedStays
  <2>2. ASSUME u \notin shared', Apart(row[u].path)
        PROVE  /\ Intact(u) /\ \A y \in Transfer : Opened(y) => tr[y].file # dir[row[u].path]
               /\ inode'[dir[row[u].path]] = inode[dir[row[u].path]]
               /\ dir'[row[u].path] = dir[row[u].path]
    <3>1. row[u].status = "received" /\ u \notin shared
        BY <2>0, <2>2, <1>1
    <3>2. Intact(u) /\ \A y \in Transfer : Opened(y) => tr[y].file # dir[row[u].path]
        BY <3>1, <2>2 DEF DiskInv, ReceivedIsKept
    <3> QED
        BY <3>1, <3>2, <2>1, <2>2, <1>1, <1>6, WriteSpares
  <2>3. ASSUME Intact(u), inode'[dir[row[u].path]] = inode[dir[row[u].path]],
               dir'[row[u].path] = dir[row[u].path]
        PROVE  Intact(u)'
      BY <2>0, <2>1, <2>3, IntactStays
  <2>4. Apart(row[u].path)' = Apart(row[u].path) /\ row'[u].path = row[u].path
      BY <2>0, <2>1, <1>1 DEF Apart
  <2>5. \A y \in Transfer : Opened(y)' => Opened(y) /\ tr'[y] = tr[y]
      BY <1>2
  <2> QED
      BY <2>1, <2>2, <2>3, <2>4, <2>5
<1>18. NoOrphanPart'
  <2>1. ASSUME NEW f \in File, dir'[f] # None, ~ crashed', ~ NamesMeet'
        PROVE  f \in done' \/ \E u \in Transfer : Opened(u)' /\ PartOf[tr'[u].path] = f
    <3>0. ~ crashed /\ ~ NamesMeet /\ dir[f] # None /\ f # g
        BY <2>1, <1>1, <1>3, MeetKept
    <3>1. f \in done \/ \E u \in Transfer : Opened(u) /\ PartOf[tr[u].path] = f
        BY <3>0 DEF DiskInv, NoOrphanPart
    <3>2. CASE f \in done
        BY <3>2, <1>1
    <3>3. ASSUME NEW u \in Transfer, Opened(u), PartOf[tr[u].path] = f
          PROVE  Opened(u)' /\ PartOf[tr'[u].path] = f
        BY <3>0, <3>3, <1>2 DEF g
    <3> QED
        BY <3>1, <3>2, <3>3
  <2> QED
      BY <2>1 DEF NoOrphanPart
<1> QED
    BY <1>10, <1>11, <1>12, <1>13, <1>14, <1>15, <1>16, <1>17, <1>18 DEF DiskInv

\* The rename: no finished file has the name, and the file renamed is the one
\* that was hashed - unless the name was shared or mixed up.
LEMMA DiskAfterRename ==
    ASSUME TypeOK, DiskInv, [Next]_vars,
           NEW t \in Transfer, NEW v \in 0 .. MaxFaults, Renames(t, v)
    PROVE  DiskInv'
<1> DEFINE p == tr[t].path
           g == PartOf[p]
<1>1. /\ Opened(t) /\ Finish(t, "received") /\ UNCHANGED <<shared, mixed, crashed>>
      /\ tr[t].next = Chunks /\ Write(t, v) /\ Verified(t, v) /\ dir[g] # None /\ Rename(t)
    BY DEF Renames, HasPart
<1>2. /\ ~ Opened(t)' /\ \A u \in Transfer \ {t} : tr'[u] = tr[u] /\ Opened(u)' = Opened(u)
      /\ row'[t] = [status |-> "received", path |-> p]
      /\ \A u \in Transfer \ {t} : row'[u] = row[u]
  <2>1. "received" \in Status
      BY DEF Status
  <2> QED
      BY <1>1, <2>1, FinishTransfer
<1>3. /\ p \in Path /\ p \in File /\ g \in File /\ g # p
      /\ dir'[g] = None /\ dir'[p] = dir[g]
      /\ \A f \in File : f \notin {p, g} => dir'[f] = dir[f]
      /\ done' = done \cup {p}
    BY <1>1, Renamed
<1>4. (\A q \in Path : Apart(q)' = Apart(q)) /\ done \subseteq Path
    BY <1>1 DEF Apart, TypeOK, ReceiverTypeOK
<1>5. /\ g \in done => g \in mixed
      /\ p \in done => ~ Apart(p)
    BY <1>1 DEF DiskInv, PartsAreMarked, DoneIsKept
<1>6. \A u \in Transfer \ {t} : Opened(u) /\ PartOf[tr[u].path] = p => p \in mixed
    BY <1>1 DEF DiskInv, NamesAreMarked
<1>7. \A u \in Transfer \ {t} : Opened(u) /\ PartOf[tr[u].path] = g => u \in shared
  <2>1. \A u \in Transfer \ {t} : Opened(u) /\ PartOf[tr[u].path] = g => tr[u].path = p
      BY <1>3, DiskFacts, NameFacts
  <2> QED
      BY <2>1, <1>1 DEF DiskInv, NamesAreMarked
<1> HIDE DEF p, g
<1>8. ASSUME NEW q \in done, Apart(q) PROVE q \notin {p, g} /\ dir'[q] = dir[q] /\ q \in File
  <2>1. q \notin {p, g} /\ q \in File
      BY <1>4, <1>5, <1>8, NameFacts DEF Apart
  <2> QED
      BY <2>1, <1>3
<1>10. FramesAreSent'
    BY FramesKept DEF DiskInv
<1>11. OpenIsSound'
    BY <1>2, OpenStays DEF OpenIsSound
<1>12. NamesAreKnown'
  <2>1. \E u \in Transfer, k \in 1 .. MaxCopies : sent'[u] # None /\ p = Copy[name'[u]][k]
      BY <1>1, OpenStays DEF p
  <2> QED
      BY <2>1, <1>1, <1>3, NamesStay DEF NamesAreKnown
<1>13. NamesAreMarked' /\ PartsAreMarked'
  <2>1. NamesAreMarked'
      BY <1>1, <1>2 DEF DiskInv, NamesAreMarked
  <2>2. ASSUME NEW u \in Transfer \ {t}, Opened(u), PartOf[tr[u].path] \in done'
        PROVE  PartOf[tr[u].path] \in mixed
      BY <2>2, <1>3, <1>6 DEF DiskInv, PartsAreMarked
  <2> QED
      BY <2>1, <2>2, <1>1, <1>2 DEF PartsAreMarked
<1>14. DoneIsKept'
  <2> SUFFICES ASSUME NEW q \in done \cup {p}, Apart(q)
               PROVE  /\ dir'[q] # None
                      /\ \A u \in Transfer : Opened(u)' /\ tr'[u].path = q => dir'[PartOf[q]] = None
      BY <1>3, <1>4 DEF DoneIsKept
  <2>1. CASE q = p
      BY <2>1, <1>1, <1>3 DEF g
  <2>2. CASE q # p
    <3>0. q \in done /\ q \in Path /\ PartOf[q] \in File
        BY <2>2, <1>4, NameFacts
    <3>1. /\ dir[q] # None
          /\ \A u \in Transfer : Opened(u) /\ tr[u].path = q => dir[PartOf[q]] = None
        BY <3>0 DEF DiskInv, DoneIsKept
    <3>2. ASSUME NEW u \in Transfer, Opened(u)', tr'[u].path = q PROVE dir'[PartOf[q]] = None
      <4>1. u # t /\ Opened(u) /\ tr[u].path = q
          BY <3>2, <1>2
      <4>2. PartOf[q] # p
          BY <4>1, <1>6 DEF Apart
      <4> QED
          BY <4>1, <4>2, <3>0, <3>1, <1>3
    <3> QED
        BY <3>0, <3>1, <3>2, <1>8
  <2> QED
      BY <2>1, <2>2
<1>15. InodesAreOwn'
  <2>0. \A u \in Transfer : Opened(u) => tr[u].file # None
      BY DiskFacts
  <2>1. ASSUME NEW a \in File, NEW b \in File, dir'[a] # None, dir'[a] = dir'[b] PROVE a = b
    <3>1. \A f, h \in File : dir[f] # None /\ dir[f] = dir[h] => f = h
        BY DEF DiskInv, InodesAreOwn
    <3>2. a # g /\ b # g
        BY <2>1, <1>3
    <3>3. CASE a = p
        BY <2>1, <3>1, <3>2, <3>3, <1>1, <1>3
    <3>4. CASE a # p
        BY <2>1, <3>1, <3>2, <3>4, <1>1, <1>3
    <3> QED
        BY <3>3, <3>4
  <2>2. ASSUME NEW u \in Transfer, NEW f \in File, Opened(u)', tr'[u].file = dir'[f]
        PROVE  f = PartOf[tr'[u].path] \/ f \in done'
    <3>1. u # t /\ Opened(u) /\ tr'[u] = tr[u] /\ f # g
        BY <2>0, <2>2, <1>2, <1>3
    <3>2. CASE f = p
        BY <3>2, <1>3
    <3>3. CASE f # p
      <4>1. tr[u].file = dir[f]
          BY <3>1, <3>3, <2>2, <1>3
      <4> QED
          BY <3>1, <4>1, <1>3 DEF DiskInv, InodesAreOwn
    <3> QED
        BY <3>2, <3>3
  <2> QED
      BY <2>1, <2>2 DEF InodesAreOwn
<1>16. OwnsItsPart'
  <2>1. ASSUME NEW u \in Transfer \ {t}, Opened(u), u \notin shared, PartOf[tr[u].path] \notin mixed
        PROVE  Owns(u)'
    <3>1. inode'[tr[u].file] = inode[tr[u].file]
        BY <2>1, <1>1, WriteSpares
    <3>2. Owns(u)
        BY <2>1 DEF DiskInv, OwnsItsPart
    <3>3. PartOf[tr[u].path] \in File /\ PartOf[tr[u].path] \notin {p, g}
        BY <2>1, <1>6, <1>7, DiskFacts, NameFacts
    <3>4. dir'[PartOf[tr[u].path]] = dir[PartOf[tr[u].path]]
        BY <3>3, <1>3
    <3> QED
        BY <3>1, <3>2, <3>4, <1>2 DEF Owns
  <2> QED
      BY <2>1, <1>1, <1>2 DEF OwnsItsPart
<1>17. ReceivedIsKept'
  <2>1. ASSUME NEW u \in Transfer \ {t}, row[u].status = "received"
        PROVE  /\ row[u].path \in done' /\ sent'[u] # None
               /\ u \notin shared /\ Apart(row[u].path) =>
                    Intact(u)' /\ \A y \in Transfer : Opened(y)' => tr'[y].file # dir'[row[u].path]
    <3>1. row[u].path \in done /\ row[u].path \in done' /\ sent'[u] # None /\ sum'[u] = sum[u]
        BY <2>1, ReceivedStays
    <3>2. ASSUME u \notin shared, Apart(row[u].path)
          PROVE  /\ Intact(u)' /\ dir'[row[u].path] = dir[row[u].path]
                 /\ \A y \in Transfer : Opened(y) => tr[y].file # dir[row[u].path]
      <4>1. Intact(u) /\ \A y \in Transfer : Opened(y) => tr[y].file # dir[row[u].path]
          BY <2>1, <3>2 DEF DiskInv, ReceivedIsKept
      <4>2. inode'[dir[row[u].path]] = inode[dir[row[u].path]]
          BY <2>1, <3>2, <1>1, WriteSpares
      <4>3. dir'[row[u].path] = dir[row[u].path]
          BY <3>1, <3>2, <1>8
      <4>4. row'[u] = row[u]
          BY <1>2
      <4> QED
          BY <4>1, <4>2, <4>3, <4>4, <3>1, IntactStays
    <3>3. \A y \in Transfer : Opened(y)' => Opened(y) /\ tr'[y] = tr[y]
        BY <1>2
    <3> QED
        BY <3>1, <3>2, <3>3
  <2>2. sent[t] # None /\ tr[t].sum = sum[t]
      BY <1>1 DEF DiskInv, OpenIsSound
  <2>3. sent'[t] # None /\ sum'[t] = sum[t]
      BY <2>2, HashedOnce
  <2>4. ASSUME t \notin shared, Apart(p)
        PROVE  /\ Intact(t)'
               /\ \A y \in Transfer : Opened(y)' => tr'[y].file # dir'[p]
    <3>0. Owns(t)
        BY <2>4, <1>1 DEF DiskInv, OwnsItsPart, Apart, p
    <3>4. /\ dir[g] = tr[t].file
          /\ \A y \in Transfer : Opened(y) /\ tr[y].file = tr[t].file => y = t
          /\ \A i \in 1 .. (Chunks - 1) : inode[tr[t].file][i] = tr[t].hasher[i]
        BY <3>0, <1>1 DEF Owns, g, p
    <3>3. \A y \in Transfer : Opened(y)' => tr'[y].file # dir'[p]
        BY <3>4, <1>2, <1>3
    <3> DEFINE x == <<t, Chunks, v>>
               h == Append(tr[t].hasher, x)
    <3>5. inode'[dir[g]] = [inode[tr[t].file] EXCEPT ![Chunks] = x]
      <4>1. inode'[tr[t].file] = [inode[tr[t].file] EXCEPT ![tr[t].next] = <<t, tr[t].next, v>>]
          BY <1>1, WriteChunk
      <4> QED
          BY <4>1, <3>4, <1>1
    <3>6. /\ tr[t].hasher \in Seq(Piece) /\ Len(tr[t].hasher) = Chunks - 1
          /\ inode[tr[t].file] \in [1 .. Chunks -> Piece \cup {None}]
        BY <1>1, DiskFacts
    <3>7. h = Whole(t, sum[t])
        BY <2>2, <1>1 DEF Verified, Whole
    <3>8. x \in Piece
        BY TransferAssumption DEF Piece
    <3> HIDE DEF x
    <3>9. h[Chunks] = x /\ \A i \in 1 .. (Chunks - 1) : h[i] = tr[t].hasher[i]
      <4>1. /\ h[Len(tr[t].hasher) + 1] = x
            /\ \A i \in 1 .. Len(tr[t].hasher) : h[i] = tr[t].hasher[i]
          BY <3>6, <3>8, AppendRow
      <4>2. Len(tr[t].hasher) + 1 = Chunks
          BY <3>6, TransferAssumption
      <4> QED
          BY <4>1, <4>2, <3>6
    <3> HIDE DEF h
    <3>10. \A i \in 1 .. Chunks : inode'[dir[g]][i] = h[i]
      <4> TAKE i \in 1 .. Chunks
      <4>1. CASE i = Chunks
          BY <4>1, <3>5, <3>6, <3>9
      <4>2. CASE i # Chunks
        <5>1. i \in 1 .. (Chunks - 1)
            BY <4>2, TransferAssumption
        <5> QED
            BY <5>1, <4>2, <3>4, <3>5, <3>6, <3>9
      <4> QED
          BY <4>1, <4>2
    <3>11. inode'[dir[g]] = Whole(t, sum[t])
      <4>1. inode'[dir[g]] = [i \in 1 .. Chunks |-> inode'[dir[g]][i]]
          BY <3>5, <3>6
      <4>2. \A i \in 1 .. Chunks : inode'[dir[g]][i] = <<t, i, sum[t]>>
          BY <3>7, <3>10 DEF Whole
      <4> QED
          BY <4>1, <4>2 DEF Whole
    <3>12. Intact(t)'
      <4>1. p = row'[t].path /\ dir'[p] # None /\ inode'[dir'[p]] = Whole(t, sum'[t])
          BY <2>3, <3>11, <1>1, <1>2, <1>3
      <4> QED
          BY <4>1, <1>3 DEF Intact, Whole
    <3> QED
        BY <3>3, <3>12
  <2>5. ASSUME NEW u \in Transfer, row'[u].status = "received"
        PROVE  /\ row'[u].path \in done' /\ sent'[u] # None
               /\ u \notin shared' /\ Apart(row[u].path)' =>
                    Intact(u)' /\ \A y \in Transfer : Opened(y)' => tr'[y].file # dir'[row'[u].path]
    <3>1. CASE u = t
      <4>1. row'[t].path = p /\ p \in done' /\ shared' = shared
          BY <1>1, <1>2, <1>3
      <4>2. Apart(row[t].path)' => Apart(p)
          BY <4>1, <1>1 DEF Apart
      <4> QED
          BY <3>1, <4>1, <4>2, <2>3, <2>4
    <3>2. CASE u # t
      <4>1. row'[u] = row[u] /\ row[u].status = "received" /\ shared' = shared
          BY <3>2, <2>5, <1>1, <1>2
      <4>2. Apart(row[u].path)' => Apart(row[u].path)
          BY <4>1, <1>1 DEF Apart
      <4> QED
          BY <3>2, <4>1, <4>2, <2>1
    <3> QED
        BY <3>1, <3>2
  <2> QED
      BY <2>5 DEF ReceivedIsKept
<1>18. NoOrphanPart'
  <2>1. ASSUME NEW f \in File, dir'[f] # None, ~ crashed', ~ NamesMeet'
        PROVE  f \in done' \/ \E u \in Transfer : Opened(u)' /\ PartOf[tr'[u].path] = f
    <3>1. CASE f = p
        BY <3>1, <1>3
    <3>2. CASE f # p
      <4>1. ~ crashed /\ ~ NamesMeet /\ dir[f] # None /\ f # g
          BY <2>1, <3>2, <1>1, <1>3, MeetKept
      <4>2. f \in done \/ \E u \in Transfer : Opened(u) /\ PartOf[tr[u].path] = f
          BY <4>1 DEF DiskInv, NoOrphanPart
      <4>3. ASSUME NEW u \in Transfer, Opened(u), PartOf[tr[u].path] = f
            PROVE  Opened(u)' /\ PartOf[tr'[u].path] = f
          BY <4>1, <4>3, <1>2 DEF g, p
      <4> QED
          BY <4>2, <4>3, <1>3
    <3> QED
        BY <3>1, <3>2
  <2> QED
      BY <2>1 DEF NoOrphanPart
<1> QED
    BY <1>10, <1>11, <1>12, <1>13, <1>14, <1>15, <1>16, <1>17, <1>18 DEF DiskInv

\* Whatever is in the directory under a name some transfer may have is a finished
\* download, while nothing was left over and no names met.
LEMMA TakenIsDone ==
    ASSUME TypeOK, DiskInv, Clear, NEW t \in Transfer, sent[t] # None, NEW k \in 1 .. MaxCopies,
           Copy[name[t]][k] \in Path, dir[Copy[name[t]][k]] # None
    PROVE  Copy[name[t]][k] \in done /\ Apart(Copy[name[t]][k])
<1> DEFINE p == Copy[name[t]][k]
<1>1. p \in File /\ mixed = {}
    BY NameFacts DEF Clear, DiskInv, NamesAreKnown
<1>2. p \in done \/ \E u \in Transfer : Opened(u) /\ PartOf[tr[u].path] = p
    BY <1>1 DEF Clear, DiskInv, NoOrphanPart
<1>3. ASSUME NEW u \in Transfer, Opened(u), PartOf[tr[u].path] = p PROVE FALSE
  <2>1. PICK j \in 1 .. MaxCopies : tr[u].path = Copy[name[u]][j] /\ sent[u] # None
      BY <1>3 DEF DiskInv, OpenIsSound
  <2>2. Copy[name[t]][k] = PartOf[Copy[name[u]][j]]
      BY <1>3, <2>1
  <2>3. NamesMeet
      BY <2>1, <2>2 DEF NamesMeet
  <2> QED
      BY <2>3 DEF Clear
<1> QED
    BY <1>1, <1>2, <1>3 DEF Apart

\* An offer that mixes names up is of names that meet.
LEMMA MixesMeet ==
    ASSUME TypeOK, DiskInv, NEW t \in Transfer, NEW k \in 1 .. MaxCopies, NEW p \in Path,
           sent[t] # None, p = Copy[name[t]][k], Mixes(t, p) # {}
    PROVE  NamesMeet
<1>1. \/ PartOf[p] \in done
      \/ \E u \in Transfer : Opened(u) /\ tr[u].path = PartOf[p]
      \/ \E u \in Transfer : Opened(u) /\ PartOf[tr[u].path] = p
    BY DEF Mixes
<1>2. ASSUME NEW u \in Transfer, NEW j \in 1 .. MaxCopies, sent[u] # None, Copy[name[u]][j] = PartOf[p]
      PROVE  NamesMeet
    BY <1>2 DEF NamesMeet
<1>3. CASE PartOf[p] \in done
  <2>1. PICK u \in Transfer, j \in 1 .. MaxCopies : sent[u] # None /\ PartOf[p] = Copy[name[u]][j]
      BY <1>3 DEF DiskInv, NamesAreKnown
  <2> QED
      BY <1>2, <2>1
<1>4. ASSUME NEW u \in Transfer, Opened(u), tr[u].path = PartOf[p] PROVE NamesMeet
  <2>1. PICK j \in 1 .. MaxCopies : tr[u].path = Copy[name[u]][j] /\ sent[u] # None
      BY <1>4 DEF DiskInv, OpenIsSound
  <2> QED
      BY <1>2, <1>4, <2>1
<1>5. ASSUME NEW u \in Transfer, Opened(u), PartOf[tr[u].path] = p PROVE NamesMeet
  <2>1. PICK j \in 1 .. MaxCopies : tr[u].path = Copy[name[u]][j] /\ sent[u] # None
      BY <1>5 DEF DiskInv, OpenIsSound
  <2>2. Copy[name[t]][k] = PartOf[Copy[name[u]][j]]
      BY <1>5, <2>1
  <2> QED
      BY <2>1, <2>2 DEF NamesMeet
<1> QED
    BY <1>1, <1>3, <1>4, <1>5

\* An offer: the name is free, so nothing that was received is touched, unless
\* the .part name is that of a download; the .part file is new, or it is
\* truncated under the transfers that share it.
LEMMA DiskAfterOffer ==
    ASSUME TypeOK, DiskInv, [Next]_vars,
           NEW t \in Transfer, NEW v \in 0 .. MaxFaults, HandleFileOffer(t, v)
    PROVE  DiskInv'
<1>0. PICK k \in 1 .. MaxCopies, p \in Path : Offers(t, v, k, p)
    BY Offered DEF DiskInv
<1> DEFINE g == PartOf[p]
<1>1. /\ sent[t] # None /\ p = Copy[name[t]][k] /\ dir[p] = None
      /\ \A j \in 1 .. (k - 1) : Copy[name[t]][j] \in Path /\ dir[Copy[name[t]][j]] # None
      /\ done' = done /\ crashed' = crashed /\ shared \subseteq shared'
      /\ \A u \in Transfer \ {t} : Opened(u) /\ tr[u].path = p => u \in shared' /\ t \in shared'
      /\ mixed' = mixed \cup Mixes(t, p)
      /\ <<t, 0, v>> \in Range(down)
    BY <1>0 DEF Offers
<1>a. p \in File /\ g \in File /\ g # p
    BY NameFacts
<1>2. /\ dir'[g] \in DOMAIN inode' /\ DOMAIN inode \subseteq DOMAIN inode'
      /\ dir[g] \in {None, dir'[g]}
      /\ dir[g] = None => dir'[g] \notin DOMAIN inode
      /\ \A f \in File : f # g => dir'[f] = dir[f]
      /\ \A n \in DOMAIN inode : n # dir[g] => inode'[n] = inode[n]
      /\ inode' \in Seq([1 .. Chunks -> Piece \cup {None}])
    BY <1>0, <1>a, CreatedPart DEF Offers
<1>3. /\ tr'[t].next = 1 /\ tr'[t].path = p /\ tr'[t].file = dir'[g] /\ tr'[t].sum = v
      /\ Opened(t)' /\ \A u \in Transfer \ {t} : tr'[u] = tr[u] /\ Opened(u)' = Opened(u)
    BY <1>0, TransferAssumption DEF Offers, TypeOK, ReceiverTypeOK, Opened
<1>4. \A u \in Transfer : row'[u].status = "received" => row'[u] = row[u]
    BY <1>0 DEF Offers, TypeOK, ReceiverTypeOK
<1>5. /\ \A f \in File : dir[f] \in DOMAIN inode \cup {None}
      /\ \A u \in Transfer : Opened(u) => tr[u].file \in DOMAIN inode /\ tr[u].path \in Path
      /\ done \subseteq Path
    BY DEF TypeOK, ReceiverTypeOK
<1>6. None \notin DOMAIN inode' /\ dir'[g] # None
    BY <1>2, LenProperties, TransferAssumption
<1>7. /\ \A f \in File : dir[f] # None => dir'[f] = dir[f]
      /\ \A f \in File : dir'[f] = dir'[g] => f = g
      /\ \A f \in File : dir[f] # None /\ dir[f] = dir[g] => f = g
  <2>1. \A f, h \in File : dir[f] # None /\ dir[f] = dir[h] => f = h
      BY DEF DiskInv, InodesAreOwn
  <2>2. \A f \in File : dir[f] # None => dir'[f] = dir[f]
      BY <1>2, <1>a
  <2>3. ASSUME NEW f \in File, dir'[f] = dir'[g] PROVE f = g
      BY <2>1, <2>3, <1>2, <1>5, <1>6, <1>a
  <2> QED
      BY <2>1, <2>2, <2>3, <1>a
<1>8. /\ g \in done => g \in mixed'
      /\ \A u \in Transfer \ {t} : Opened(u) /\ tr[u].path = g => g \in mixed'
      /\ \A u \in Transfer \ {t} : Opened(u) /\ PartOf[tr[u].path] = p => p \in mixed'
    BY <1>1 DEF Mixes
<1>9. \A u \in Transfer : Opened(u) /\ PartOf[tr[u].path] = g => tr[u].path = p
    BY <1>5, NameFacts
<1>b. (\A q \in Path : Apart(q)' => Apart(q)) /\ (Clear' => Clear)
    BY MarksKept DEF DiskInv
<1>c. p \in done => ~ Apart(p)
    BY <1>1 DEF DiskInv, DoneIsKept
<1> HIDE DEF g
<1>10. FramesAreSent'
    BY FramesKept DEF DiskInv
<1>11. OpenIsSound'
  <2>1. v = sum[t]
    <3>1. IsSent(<<t, 0, v>>)
        BY <1>1 DEF DiskInv, FramesAreSent
    <3> QED
        BY <3>1 DEF IsSent
  <2>2. sent'[t] # None /\ sum'[t] = v /\ name'[t] = name[t]
      BY <1>1, <2>1, HashedOnce
  <2>3. ASSUME Clear', NEW j \in 1 .. (k - 1) PROVE Copy[name[t]][j] \in done
    <3>1. j \in 1 .. MaxCopies
        BY TransferAssumption
    <3> QED
        BY <2>3, <3>1, <1>1, <1>b, TakenIsDone
  <2>4. /\ sent'[t] # None /\ tr'[t].sum = sum'[t]
        /\ \E l \in 1 .. MaxCopies :
             /\ tr'[t].path = Copy[name'[t]][l]
             /\ Clear' => \A j \in 1 .. (l - 1) : Copy[name'[t]][j] \in done'
      BY <2>2, <2>3, <1>1, <1>3
  <2>5. ASSUME NEW u \in Transfer \ {t}, Opened(u)'
        PROVE  /\ sent'[u] # None /\ tr'[u].sum = sum'[u]
               /\ \E l \in 1 .. MaxCopies :
                    /\ tr'[u].path = Copy[name'[u]][l]
                    /\ Clear' => \A j \in 1 .. (l - 1) : Copy[name'[u]][j] \in done'
    <3>1. Opened(u) /\ tr'[u] = tr[u]
        BY <2>5, <1>3
    <3> QED
        BY <3>1, OpenStays
  <2> QED
      BY <2>4, <2>5 DEF OpenIsSound
<1>12. NamesAreKnown'
  <2>1. mixed' # {} => NamesMeet'
    <3>1. CASE Mixes(t, p) # {}
        BY <3>1, <1>1, MixesMeet, MeetKept
    <3>2. CASE Mixes(t, p) = {}
        BY <3>2, <1>1, NamesStay
    <3> QED
        BY <3>1, <3>2
  <2> QED
      BY <2>1, <1>1, NamesStay DEF NamesAreKnown
<1>13. NamesAreMarked'
  <2> SUFFICES ASSUME NEW a \in Transfer, NEW u \in Transfer, Opened(a)', Opened(u)', a # u
               PROVE  /\ tr'[a].path = tr'[u].path => a \in shared'
                      /\ tr'[a].path = PartOf[tr'[u].path] => tr'[a].path \in mixed'
      BY DEF NamesAreMarked
  <2>1. CASE a = t
    <3>1. Opened(u) /\ tr'[u] = tr[u] /\ tr'[a].path = p /\ u \in Transfer \ {t}
        BY <2>1, <1>3
    <3> QED
        BY <2>1, <3>1, <1>1, <1>8
  <2>2. CASE u = t
    <3>1. Opened(a) /\ tr'[a] = tr[a] /\ tr'[u].path = p /\ a \in Transfer \ {t}
        BY <2>2, <1>3
    <3> QED
        BY <2>2, <3>1, <1>1, <1>8 DEF g
  <2>3. CASE a # t /\ u # t
    <3>1. Opened(a) /\ tr'[a] = tr[a] /\ Opened(u) /\ tr'[u] = tr[u]
        BY <2>3, <1>3
    <3> QED
        BY <3>1, <1>1 DEF DiskInv, NamesAreMarked
  <2> QED
      BY <2>1, <2>2, <2>3
<1>14. PartsAreMarked'
  <2>1. PartOf[tr'[t].path] \in done' => PartOf[tr'[t].path] \in mixed'
      BY <1>1, <1>3, <1>8 DEF g
  <2>2. ASSUME NEW u \in Transfer \ {t}, Opened(u)', PartOf[tr'[u].path] \in done'
        PROVE  PartOf[tr'[u].path] \in mixed'
      BY <2>2, <1>1, <1>3 DEF DiskInv, PartsAreMarked
  <2> QED
      BY <2>1, <2>2 DEF PartsAreMarked
<1>15. DoneIsKept'
  <2> SUFFICES ASSUME NEW q \in done, Apart(q)'
               PROVE  /\ dir'[q] # None
                      /\ \A u \in Transfer : Opened(u)' /\ tr'[u].path = q => dir'[PartOf[q]] = None
      BY <1>1 DEF DoneIsKept
  <2>1. q \in Path /\ Apart(q) /\ q # p /\ q \in File /\ PartOf[q] \in File /\ PartOf[q] # g
      BY <1>5, <1>b, <1>c, NameFacts DEF g
  <2>2. /\ dir[q] # None
        /\ \A u \in Transfer : Opened(u) /\ tr[u].path = q => dir[PartOf[q]] = None
      BY <2>1 DEF DiskInv, DoneIsKept
  <2>3. ASSUME NEW u \in Transfer, Opened(u)', tr'[u].path = q PROVE dir'[PartOf[q]] = None
    <3>1. u # t /\ Opened(u) /\ tr[u].path = q
        BY <2>1, <2>3, <1>3
    <3> QED
        BY <3>1, <2>1, <2>2, <1>2
  <2> QED
      BY <2>1, <2>2, <2>3, <1>7
<1>16. InodesAreOwn'
  <2>1. ASSUME NEW a \in File, NEW b \in File, dir'[a] # None, dir'[a] = dir'[b] PROVE a = b
    <3>1. CASE a = g \/ b = g
        BY <2>1, <3>1, <1>7
    <3>2. CASE a # g /\ b # g
        BY <2>1, <3>2, <1>2 DEF DiskInv, InodesAreOwn
    <3> QED
        BY <3>1, <3>2
  <2>2. ASSUME NEW u \in Transfer, NEW f \in File, Opened(u)', tr'[u].file = dir'[f]
        PROVE  f = PartOf[tr'[u].path] \/ f \in done'
    <3>1. CASE u = t
        BY <2>2, <3>1, <1>3, <1>7 DEF g
    <3>2. CASE u # t
      <4>1. Opened(u) /\ tr'[u] = tr[u] /\ tr[u].file \in DOMAIN inode
          BY <2>2, <3>2, <1>3, <1>5
      <4>2. tr[u].file = dir[f]
          BY <4>1, <2>2, <1>2, <1>a
      <4> QED
          BY <4>1, <4>2, <1>1 DEF DiskInv, InodesAreOwn
    <3> QED
        BY <3>1, <3>2
  <2> QED
      BY <2>1, <2>2 DEF InodesAreOwn
<1>17. OwnsItsPart'
  <2>1. ASSUME NEW u \in Transfer \ {t}, Opened(u), u \notin shared', PartOf[tr[u].path] \notin mixed'
        PROVE  Owns(u)'
    <3> DEFINE h == PartOf[tr[u].path]
    <3>1. Owns(u) /\ h # g /\ h \in File
      <4>1. u \notin shared /\ h \notin mixed /\ tr[u].path # p
          BY <2>1, <1>1
      <4>2. h # g /\ h \in File
          BY <4>1, <2>1, <1>5, <1>9, NameFacts
      <4> QED
          BY <4>1, <4>2, <2>1 DEF DiskInv, OwnsItsPart
    <3>2. dir[h] = tr[u].file /\ tr[u].file \in DOMAIN inode /\ tr[u].file # None
        BY <2>1, <3>1, <1>2, <1>5, <1>6 DEF Owns
    <3> HIDE DEF h
    <3>3. dir'[h] = tr[u].file /\ tr[u].file # dir[g] /\ tr[u].file # dir'[g]
        BY <3>1, <3>2, <1>7, <1>a
    <3>4. inode'[tr[u].file] = inode[tr[u].file]
        BY <3>2, <3>3, <1>2
    <3>5. \A y \in Transfer : Opened(y)' /\ tr'[y].file = tr'[u].file => y = u
        BY <3>1, <3>3, <1>3 DEF Owns
    <3>6. tr'[u] = tr[u]
        BY <1>3
    <3> QED
        BY <3>1, <3>3, <3>4, <3>5, <3>6 DEF Owns, h
  <2>2. ASSUME t \notin shared', g \notin mixed' PROVE Owns(t)'
    <3>1. ASSUME NEW y \in Transfer \ {t}, Opened(y), tr[y].file = dir'[g] PROVE FALSE
      <4>1. dir[g] = dir'[g]
          BY <3>1, <1>2, <1>5
      <4>2. g = PartOf[tr[y].path] \/ g \in done
          BY <3>1, <4>1, <1>a DEF DiskInv, InodesAreOwn
      <4> QED
          BY <2>2, <3>1, <4>2, <1>1, <1>8, <1>9
    <3>2. dir'[PartOf[tr'[t].path]] = tr'[t].file /\ \A i \in 1 .. (tr'[t].next - 1) : FALSE
        BY <1>3 DEF g
    <3>3. \A y \in Transfer : Opened(y)' /\ tr'[y].file = tr'[t].file => y = t
        BY <3>1, <1>3
    <3> QED
        BY <3>2, <3>3 DEF Owns
  <2>3. ASSUME NEW u \in Transfer, Opened(u)', u \notin shared', PartOf[tr'[u].path] \notin mixed'
        PROVE  Owns(u)'
    <3>1. CASE u = t
        BY <2>2, <2>3, <3>1, <1>3 DEF g
    <3>2. CASE u # t
      <4>1. Opened(u) /\ tr'[u] = tr[u] /\ u \in Transfer \ {t}
          BY <2>3, <3>2, <1>3
      <4> QED
          BY <4>1, <2>1, <2>3
    <3> QED
        BY <3>1, <3>2
  <2> QED
      BY <2>3 DEF OwnsItsPart
<1>18. ReceivedIsKept'
  <2> SUFFICES ASSUME NEW u \in Transfer, row'[u].status = "received"
               PROVE  /\ row'[u].path \in done' /\ sent'[u] # None
                      /\ u \notin shared' /\ Apart(row[u].path)' =>
                           Intact(u)' /\ \A y \in Transfer : Opened(y)' => tr'[y].file # dir'[row'[u].path]
      BY DEF ReceivedIsKept
  <2> DEFINE q == row[u].path
  <2>0. row'[u] = row[u] /\ row[u].status = "received"
      BY <1>4
  <2>1. q \in done /\ q \in done' /\ sent'[u] # None /\ sum'[u] = sum[u]
      BY <2>0, ReceivedStays
  <2>2. ASSUME u \notin shared', Apart(row[u].path)'
        PROVE  Intact(u)' /\ \A y \in Transfer : Opened(y)' => tr'[y].file # dir'[q]
    <3>1. u \notin shared /\ q \notin mixed' /\ PartOf[q] \notin mixed' /\ Apart(q)
        BY <2>0, <2>2, <1>1 DEF Apart
    <3>2. Intact(u) /\ \A y \in Transfer : Opened(y) => tr[y].file # dir[q]
        BY <2>0, <3>1 DEF DiskInv, ReceivedIsKept
    <3>3. q # g /\ q \in File
        BY <2>1, <3>1, <1>5, <1>8, NameFacts
    <3>4. dir[q] # None
        BY <3>2 DEF Intact
    <3> HIDE DEF q
    <3>5. dir[q] \in DOMAIN inode /\ dir'[q] = dir[q] /\ dir[q] # dir[g] /\ dir'[q] # dir'[g]
        BY <3>3, <3>4, <1>5, <1>7, <1>a
    <3>6. inode'[dir[q]] = inode[dir[q]]
        BY <3>5, <1>2
    <3>7. Intact(u)'
        BY <2>0, <2>1, <3>2, <3>5, <3>6, IntactStays DEF q
    <3>8. \A y \in Transfer : Opened(y)' => tr'[y].file # dir'[q]
        BY <3>2, <3>5, <1>3
    <3> QED
        BY <3>7, <3>8
  <2> QED
      BY <2>0, <2>1, <2>2
<1>19. NoOrphanPart'
  <2>1. ASSUME NEW f \in File, dir'[f] # None, ~ crashed', ~ NamesMeet'
        PROVE  f \in done' \/ \E u \in Transfer : Opened(u)' /\ PartOf[tr'[u].path] = f
    <3>1. CASE f = g
        BY <3>1, <1>3 DEF g
    <3>2. CASE f # g
      <4>0. Clear
          BY <2>1, <1>b DEF Clear
      <4>1. ~ crashed /\ ~ NamesMeet /\ dir[f] # None
          BY <2>1, <3>2, <4>0, <1>2 DEF Clear
      <4>2. f \in done \/ \E u \in Transfer : Opened(u) /\ PartOf[tr[u].path] = f
          BY <4>1 DEF DiskInv, NoOrphanPart
      <4>3. ASSUME Opened(t), PartOf[tr[t].path] = f PROVE FALSE
        <5> DEFINE q == tr[t].path
        <5>1. PICK l \in 1 .. MaxCopies : /\ q = Copy[name[t]][l]
                                          /\ \A j \in 1 .. (l - 1) : Copy[name[t]][j] \in done
            BY <4>0, <4>3 DEF DiskInv, OpenIsSound
        <5>2. q \in Path /\ mixed = {}
            BY <4>1, <4>3, <1>5 DEF DiskInv, NamesAreKnown
        <5>3. ~ (l < k)
          <6>1. SUFFICES ASSUME l < k PROVE FALSE
              OBVIOUS
          <6>2. l \in 1 .. (k - 1)
              BY <6>1, TransferAssumption
          <6>3. q \in done /\ Apart(q)
              BY <4>0, <5>1, <6>2, <1>1, TakenIsDone
          <6> QED
              BY <4>1, <4>3, <6>3 DEF DiskInv, DoneIsKept
        <5>4. ~ (k < l)
          <6>1. SUFFICES ASSUME k < l PROVE FALSE
              OBVIOUS
          <6>2. k \in 1 .. (l - 1)
              BY <6>1, TransferAssumption
          <6>3. p \in done /\ Apart(p)
              BY <5>1, <5>2, <6>2, <1>1 DEF Apart
          <6> QED
              BY <6>3, <1>c
        <5>5. k = l
            BY <5>3, <5>4, TransferAssumption
        <5> QED
            BY <5>1, <5>5, <3>2, <4>3, <1>1 DEF g
      <4> QED
          BY <4>2, <4>3, <1>1, <1>3
    <3> QED
        BY <3>1, <3>2
  <2> QED
      BY <2>1 DEF NoOrphanPart
<1> QED
    BY <1>10, <1>11, <1>12, <1>13, <1>14, <1>15, <1>16, <1>17, <1>18, <1>19 DEF DiskInv

LEMMA DiskKept == TypeOK /\ DiskInv /\ [Next]_vars => DiskInv'
BY ReceiverSteps, DiskUntouched, DiskAfterKill, DiskAfterOffer, DiskAfterChunk, DiskAfterClose,
   DiskAfterRename

\* No step replaces, removes or renames away a finished download whose names are
\* its own.
LEMMA DoneUntouched ==
    ASSUME TypeOK, DiskInv, [Next]_vars, NEW p \in done, Apart(p)'
    PROVE  dir'[p] = dir[p]
<1>0. p \in Path /\ p \in File /\ Apart(p) /\ dir[p] # None
  <2>1. p \in Path /\ p \in File
      BY NameFacts DEF TypeOK, ReceiverTypeOK
  <2>2. Apart(p)
      BY <2>1, MarksKept DEF DiskInv
  <2> QED
      BY <2>1, <2>2 DEF DiskInv, DoneIsKept
<1>1. ASSUME NEW t \in Transfer, NEW v \in 0 .. MaxFaults, HandleFileOffer(t, v) PROVE dir'[p] = dir[p]
  <2>1. PICK k \in 1 .. MaxCopies, q \in Path : Offers(t, v, k, q)
      BY <1>1, Offered DEF DiskInv
  <2>2. Create(PartOf[q]) /\ PartOf[q] \in File
      BY <2>1, NameFacts DEF Offers
  <2> QED
      BY <2>2, <1>0, CreatedPart
<1>2. ASSUME NEW t \in Transfer, NEW v \in 0 .. MaxFaults, HandleFileChunk(t, v) PROVE dir'[p] = dir[p]
    BY <1>2 DEF HandleFileChunk
<1>3. ASSUME NEW t \in Transfer, NEW v \in 0 .. MaxFaults, Closes(t, v) PROVE dir'[p] = dir[p]
  <2>1. Opened(t) /\ (RemovePart(t) \/ UNCHANGED dir)
      BY <1>3 DEF Closes
  <2>2. PartOf[tr[t].path] # p
      BY <2>1, <1>0 DEF DiskInv, PartsAreMarked, Apart
  <2> QED
      BY <2>1, <2>2, <1>0, RemovedPart
<1>4. ASSUME NEW t \in Transfer, NEW v \in 0 .. MaxFaults, Renames(t, v) PROVE dir'[p] = dir[p]
  <2>1. Opened(t) /\ Rename(t) /\ dir[PartOf[tr[t].path]] # None
      BY <1>4 DEF Renames, HasPart
  <2>2. PartOf[tr[t].path] # p
      BY <2>1, <1>0 DEF DiskInv, PartsAreMarked, Apart
  <2>3. tr[t].path # p
      BY <2>1, <1>0 DEF DiskInv, DoneIsKept
  <2> QED
      BY <2>1, <2>2, <2>3, <1>0, Renamed
<1>5. CASE KillReceiver
    BY <1>5 DEF KillReceiver, diskVars
<1> QED
    BY <1>1, <1>2, <1>3, <1>4, <1>5, ReceiverSteps

-----------------------------------------------------------------------------
(* The order of the frames.                                                *)

LEMMA CourseFacts ==
    ASSUME TypeOK, NEW t \in Transfer, OnCourse(t)
    PROVE  /\ NextFrame(t) \in Nat /\ Upto(t) \in Nat
           /\ Rest \in Seq(Frame) /\ down \in Seq(Frame) /\ queue \in Seq(Frame) /\ todo \in Seq(Frame)
           /\ Upto(t) = IF sent[t] = None THEN 0 ELSE IF hold[t] = None THEN sent[t] ELSE sent[t] - 1
<1>1. Opened(t) => tr[t].next \in 1 .. Chunks
    BY DiskFacts
<1>2. sent[t] \in (0 .. (Chunks + 1)) \cup {None}
    BY DEF TypeOK, SenderTypeOK
<1>3. hold[t] # None => sent[t] # None /\ sent[t] - 1 \in 0 .. Chunks
  <2>1. hold[t] # None => hold[t] \in Frame /\ hold[t] = <<t, sent[t] - 1, sum[t]>> /\ sent[t] # None
      BY DEF OnCourse, TypeOK, RelayTypeOK
  <2> QED
      BY <2>1 DEF Frame
<1>4. NextFrame(t) \in Nat
    BY <1>1, TransferAssumption DEF NextFrame
<1>5. Upto(t) \in Nat
    BY <1>2, <1>3, TransferAssumption DEF Upto
<1>6. /\ Rest \in Seq(Frame) /\ down \in Seq(Frame) /\ queue \in Seq(Frame) /\ todo \in Seq(Frame)
    BY DEF Rest, TypeOK, RelayTypeOK
<1> QED
    BY <1>4, <1>5, <1>6 DEF Upto

\* A transfer that waits for nothing has no frames in flight.
LEMMA NoFlow ==
    ASSUME NEW s \in Seq(Frame), NEW t \in Transfer, NEW n \in Nat, NEW v, NEW x
    PROVE  /\ Flow(s, t, n, n, v) => Flow(s, t, n, n, x) /\ \A i \in 1 .. Len(s) : s[i][1] # t
           /\ (\A i \in 1 .. Len(s) : s[i][1] # t) => Flow(s, t, n, n, v)
<1>1. \A k \in n .. (n - 1) : FALSE
    OBVIOUS
<1>2. ASSUME \A i \in 1 .. Len(s) : s[i][1] # t, NEW y PROVE Flow(s, t, n, n, y)
    BY <1>1, <1>2 DEF Flow
<1>3. ASSUME Flow(s, t, n, n, v) PROVE \A i \in 1 .. Len(s) : s[i][1] # t
  <2>1. \A i \in 1 .. Len(s) : s[i][1] = t => n <= s[i][2] /\ s[i][2] < n
      BY <1>3 DEF Flow
  <2>2. \A i \in 1 .. Len(s) : s[i][2] \in Nat
    <3>1. \A i \in 1 .. Len(s) : s[i] \in Frame
        BY ElementOfSeq
    <3> QED
        BY <3>1, TransferAssumption DEF Frame
  <2> QED
      BY <2>1, <2>2
<1> QED
    BY <1>2, <1>3

LEMMA InitOrder == Init => InOrder
<1> SUFFICES ASSUME Init, NEW t \in Transfer PROVE OnCourse(t)
    BY DEF InOrder, Straight
<1>1. ~ Opened(t) /\ row[t].status = "none" /\ sent[t] = None /\ hold[t] = None
    BY DEF Init, Opened, NoTransfer
<1>2. NextFrame(t) = 0 /\ Upto(t) = 0 /\ down = <<>> /\ Rest = <<>>
    BY <1>1 DEF NextFrame, Upto, Rest, Init
<1>3. Len(<<>>) = 0 /\ <<>> \in Seq(Frame)
    BY EmptySeq
<1>4. \A i \in 1 .. Len(<<>>) : <<>>[i][1] # t
    BY <1>3
<1>5. Flow(<<>>, t, 0, 0, sum[t])
    BY <1>3, <1>4, NoFlow
<1>6. Joined(t, 0)
    BY <1>2, <1>5 DEF Joined
<1> QED
    BY <1>1, <1>6 DEF OnCourse

\* A transfer of which nothing changed but the frames around its own.
LEMMA CourseKept ==
    ASSUME NEW u \in Transfer, OnCourse(u), tr'[u] = tr[u], row'[u] = row[u],
           sent'[u] = sent[u], sum'[u] = sum[u], version'[u] = version[u], hold'[u] = hold[u],
           mixed \subseteq mixed',
           NEW m \in Nat, NextFrame(u) <= m, m <= Upto(u),
           Flow(down', u, NextFrame(u), m, sum[u]), Flow(Rest', u, m, Upto(u), sum[u])
    PROVE  OnCourse(u)'
<1>1. Opened(u)' = Opened(u)
    BY DEF Opened
<1>2. NextFrame(u)' = NextFrame(u) /\ Upto(u)' = Upto(u)
    BY <1>1 DEF NextFrame, Upto
<1>3. Joined(u, m)'
    BY <1>2 DEF Joined
<1>4. ~ Apart(row[u].path) => ~ Apart(row[u].path)'
    BY DEF Apart
<1>5. \E n \in Nat : Joined(u, n)'
    BY <1>3
<1>6. ~ Opened(u)' => \/ row'[u].status \in {"none", "received"}
                      \/ row'[u].status = "failed" /\ ~ Apart(row[u].path)'
    BY <1>1, <1>4 DEF OnCourse
<1>7. /\ Opened(u)' => row'[u].status = "receiving"
      /\ sent'[u] # None => version'[u] = sum'[u]
      /\ hold'[u] # None => sent'[u] # None /\ hold'[u] = <<u, sent'[u] - 1, sum'[u]>>
      /\ Opened(u)' => \A i \in 1 .. (tr'[u].next - 1) : tr'[u].hasher[i] = <<u, i, sum'[u]>>
    BY <1>1 DEF OnCourse
<1> QED
    BY <1>5, <1>6, <1>7 DEF OnCourse

\* The sender's own steps, and a frame on its way through the relay.
LEMMA SenderOnCourse ==
    ASSUME TypeOK, DiskInv, [Next]_vars, NEW t \in Transfer, SendFile(t) \/ Sending(t),
           NEW u \in Straight', OnCourse(u)
    PROVE  OnCourse(u)'
<1>0. /\ UNCHANGED <<conn, queue, todo, tr, row, version, mixed>>
      /\ \A x \in Transfer \ {t} : sent'[x] = sent[x] /\ sum'[x] = sum[x]
      /\ u \in Transfer /\ u \notin hurt' \cup overtaken'
  <2>0. u \in Transfer /\ u \notin hurt' \cup overtaken'
      BY DEF Straight
  <2>1. CASE SendFile(t)
      BY <2>0, <2>1 DEF SendFile, relayVars, receiverVars, historyVars, nameVars, TypeOK, SenderTypeOK
  <2>2. CASE SendFrame(t)
      BY <2>0, <2>2 DEF SendFrame, Written, receiverVars, nameVars, TypeOK, SenderTypeOK
  <2>3. CASE SendLost(t) \/ SendFails(t)
      BY <2>0, <2>3 DEF SendLost, SendFails, Written, relayVars, receiverVars, nameVars, TypeOK, SenderTypeOK
  <2> QED
      BY <2>1, <2>2, <2>3 DEF Sending
<1>1. Rest' = Rest
    BY <1>0 DEF Rest
<1>2. /\ NextFrame(u) \in Nat /\ Upto(u) \in Nat /\ Rest \in Seq(Frame) /\ down \in Seq(Frame)
      /\ Upto(u) = IF sent[u] = None THEN 0 ELSE IF hold[u] = None THEN sent[u] ELSE sent[u] - 1
    BY <1>0, CourseFacts
<1>3. PICK m \in Nat : /\ NextFrame(u) <= m /\ m <= Upto(u)
                       /\ Flow(down, u, NextFrame(u), m, sum[u]) /\ Flow(Rest, u, m, Upto(u), sum[u])
    BY DEF OnCourse, Joined
<1>4. Opened(u)' = Opened(u) /\ NextFrame(u)' = NextFrame(u)
    BY <1>0 DEF Opened, NextFrame
<1>5. ASSUME down' = down, hold'[u] = hold[u], u # t PROVE OnCourse(u)'
  <2>1. sent'[u] = sent[u] /\ sum'[u] = sum[u]
      BY <1>0, <1>5
  <2> QED
      BY <1>0, <1>1, <1>3, <1>5, <2>1, CourseKept
<1>6. CASE SendFile(t)
  <2>1. down' = down /\ hold' = hold
      BY <1>6 DEF SendFile, relayVars
  <2>2. CASE u = t
    <3>1. sent[t] = None /\ sent'[t] = 0 /\ sum'[t] = version[t] /\ version'[t] = version[t] /\ 0 # None
        BY <1>6, TransferAssumption DEF SendFile, TypeOK, SenderTypeOK
    <3>2. hold[t] = None
        BY <2>2, <3>1 DEF OnCourse
    <3>3. Upto(t) = 0 /\ Upto(t)' = 0 /\ NextFrame(t) = 0 /\ m = 0
        BY <3>1, <3>2, <2>1, <2>2, <1>2, <1>3 DEF Upto
    <3>4. ~ Opened(t)
        BY <3>3, DiskFacts DEF NextFrame
    <3>5. Flow(down, t, 0, 0, sum[t]) /\ Flow(Rest, t, 0, 0, sum[t])
        BY <3>3, <2>2, <1>3
    <3>6. Flow(down, t, 0, 0, version[t]) /\ Flow(Rest, t, 0, 0, version[t])
        BY <3>5, <1>2, NoFlow
    <3>7. Joined(t, 0)'
        BY <3>1, <3>3, <3>6, <2>1, <2>2, <1>1, <1>4 DEF Joined
    <3>8. ~ Opened(t)' /\ hold'[t] = None /\ row'[t].status = "none"
        BY <3>2, <3>3, <3>4, <2>1, <2>2, <1>0, <1>4, TransferAssumption DEF NextFrame
    <3> QED
        BY <3>1, <3>7, <3>8, <2>2 DEF OnCourse
  <2> QED
      BY <2>1, <2>2, <1>5
<1>7. CASE SendFrame(t)
  <2> DEFINE f == <<t, sent[t], IF sent[t] = 0 THEN sum[t] ELSE version[t]>>
  <2>1. /\ f \in Frame /\ sent[t] \in 0 .. Chunks /\ hold[t] = None
        /\ \/ /\ down' = Append(down, f) /\ UNCHANGED hold
              /\ overtaken' = IF Waiting(t) THEN overtaken \cup {t} ELSE overtaken
           \/ hurt' = hurt \cup {t} /\ UNCHANGED <<hold, down>>
           \/ hold' = [hold EXCEPT ![t] = f] /\ UNCHANGED down
      BY <1>7, SentFrame
  <2>2. sent'[t] = sent[t] + 1 /\ sum' = sum /\ sent[t] # None /\ sent'[t] # None
    <3>1. sent'[t] = sent[t] + 1 /\ sum' = sum
        BY <1>7 DEF SendFrame, Written, TypeOK, SenderTypeOK
    <3> QED
        BY <3>1, <2>1, TransferAssumption
  <2>3. f[1] = t /\ f[2] = sent[t]
      OBVIOUS
  <2>4. u = t => f[3] = sum[t] /\ f = <<t, sent[t], sum[t]>> /\ Upto(t) = sent[t] /\ version'[t] = sum'[t]
      BY <2>1, <2>2, <1>0, <1>2 DEF OnCourse
  <2> HIDE DEF f
  <2>5. CASE /\ down' = Append(down, f) /\ UNCHANGED hold
             /\ overtaken' = IF Waiting(t) THEN overtaken \cup {t} ELSE overtaken
    <3>1. CASE u = t
      <4>1. \A i \in 1 .. Len(Rest) : Rest[i][1] # t
        <5>1. ~ Waiting(t)
            BY <3>1, <2>5, <1>0
        <5> QED
            BY <5>1, <1>2, RowsOfTable DEF Waiting
      <4>2. m = Upto(t)
        <5>1. SUFFICES ASSUME m < Upto(t) PROVE FALSE
            BY <3>1, <1>2, <1>3
        <5>2. m \in m .. (Upto(t) - 1)
            BY <5>1, <3>1, <1>2
        <5> QED
            BY <5>2, <4>1, <3>1, <1>3 DEF Flow
      <4>3. Flow(down', t, NextFrame(t), m + 1, sum[t])
          BY <4>2, <3>1, <2>1, <2>3, <2>4, <2>5, <1>2, <1>3, FlowSent
      <4>4. Flow(Rest', t, m + 1, m + 1, sum[t])
          BY <4>1, <1>1, <1>2, NoFlow
      <4>5. Upto(t)' = m + 1
          BY <4>2, <3>1, <2>1, <2>2, <2>4, <2>5 DEF Upto
      <4>6. NextFrame(t)' <= m + 1 /\ m + 1 \in Nat
          BY <3>1, <1>2, <1>3, <1>4
      <4>7. Joined(t, m + 1)'
          BY <4>3, <4>4, <4>5, <4>6, <3>1, <2>2, <1>4 DEF Joined
      <4>8. /\ Opened(t)' => row'[t].status = "receiving"
            /\ ~ Opened(t)' => \/ row'[t].status \in {"none", "received"}
                               \/ row'[t].status = "failed" /\ ~ Apart(row[t].path)'
            /\ Opened(t)' => \A i \in 1 .. (tr'[t].next - 1) : tr'[t].hasher[i] = <<t, i, sum'[t]>>
        <5>1. Apart(row[t].path)' = Apart(row[t].path)
            BY <1>0 DEF Apart
        <5> QED
            BY <5>1, <3>1, <2>2, <1>0, <1>4 DEF OnCourse
      <4>9. hold'[t] = None
          BY <2>1, <2>5
      <4> QED
          BY <4>6, <4>7, <4>8, <4>9, <3>1, <2>2, <2>4 DEF OnCourse
    <3>2. CASE u # t
      <4>0. f \in Frame /\ f[1] # u /\ u \in Transfer
          BY <3>2, <2>1, <2>3, <1>0
      <4>3. Flow(Append(down, f), u, NextFrame(u), m, sum[u])
          BY <4>0, <1>2, <1>3, FlowSent
      <4>1. Flow(down', u, NextFrame(u), m, sum[u])
          BY <4>3, <2>5
      <4>2. sent'[u] = sent[u] /\ sum'[u] = sum[u] /\ hold'[u] = hold[u]
          BY <3>2, <2>5, <1>0
      <4> QED
          BY <4>1, <4>2, <1>0, <1>1, <1>3, CourseKept
    <3> QED
        BY <3>1, <3>2
  <2>6. CASE hurt' = hurt \cup {t} /\ UNCHANGED <<hold, down>>
      BY <2>6, <1>0, <1>5
  <2>7. CASE hold' = [hold EXCEPT ![t] = f] /\ UNCHANGED down
    <3>0. DOMAIN hold = Transfer
        BY DEF TypeOK, RelayTypeOK
    <3>1. CASE u = t
      <4>1. hold'[t] = f /\ f = <<t, sent[t], sum[t]>> /\ hold'[t] # None
          BY <3>0, <3>1, <2>1, <2>4, <2>7, TransferAssumption DEF Frame
      <4>2. sent'[t] - 1 = sent[t] /\ sum'[t] = sum[t]
          BY <2>1, <2>2
      <4>3. Upto(t)' = Upto(t)
          BY <3>1, <4>1, <4>2, <2>2, <2>4 DEF Upto
      <4>4. Joined(t, m)'
          BY <4>2, <4>3, <3>1, <2>7, <1>1, <1>3, <1>4 DEF Joined
      <4>5. /\ Opened(t)' => row'[t].status = "receiving"
            /\ ~ Opened(t)' => \/ row'[t].status \in {"none", "received"}
                               \/ row'[t].status = "failed" /\ ~ Apart(row[t].path)'
            /\ Opened(t)' => \A i \in 1 .. (tr'[t].next - 1) : tr'[t].hasher[i] = <<t, i, sum'[t]>>
        <5>1. Apart(row[t].path)' = Apart(row[t].path)
            BY <1>0 DEF Apart
        <5> QED
            BY <5>1, <3>1, <2>2, <1>0, <1>4 DEF OnCourse
      <4>6. hold'[t] = <<t, sent'[t] - 1, sum'[t]>>
          BY <4>1, <4>2
      <4> QED
          BY <4>4, <4>5, <4>6, <3>1, <2>2, <2>4 DEF OnCourse
    <3>2. CASE u # t
      <4>1. hold'[u] = hold[u] /\ down' = down
          BY <3>0, <3>2, <2>7, <1>0
      <4> QED
          BY <4>1, <3>2, <1>5
    <3> QED
        BY <3>1, <3>2
  <2> QED
      BY <2>1, <2>5, <2>6, <2>7
<1>8. CASE SendLost(t) \/ SendFails(t)
  <2>1. t \in hurt' /\ down' = down /\ hold' = hold
      BY <1>8 DEF SendLost, SendFails, relayVars
  <2> QED
      BY <2>1, <1>0, <1>5
<1> QED
    BY <1>6, <1>7, <1>8 DEF Sending


\* A frame that was held goes to the end of the queue; the receiver's next
\* connection will be sent it after the others.
LEMMA EnqueuedOnCourse ==
    ASSUME TypeOK, NEW t \in Transfer, EnqueueHeld(t), NEW u \in Straight', OnCourse(u)
    PROVE  OnCourse(u)'
<1> DEFINE f == hold[t]
<1>0. /\ u \in Transfer /\ u \notin hurt' \cup overtaken'
      /\ UNCHANGED <<tr, row, mixed>>
    BY DEF Straight, EnqueueHeld, receiverVars, nameVars
<1>1. /\ f \in Frame /\ f[1] = t /\ f # None
      /\ \/ queue' = Append(queue, f)
         \/ /\ queue # <<>> /\ Tail(queue) \in Seq(Frame)
            /\ queue' = Append(Tail(queue), f) /\ hurt' = hurt \cup {Head(queue)[1]}
      /\ overtaken' = IF conn = "up" THEN overtaken \cup {t} ELSE overtaken
      /\ hold' = [hold EXCEPT ![t] = None] /\ DOMAIN hold = Transfer
      /\ UNCHANGED <<sent, sum, version, conn, todo, down>>
    BY QueuedFrame DEF EnqueueHeld, senderVars, TypeOK, RelayTypeOK
<1>2. /\ NextFrame(u) \in Nat /\ Upto(u) \in Nat /\ queue \in Seq(Frame)
      /\ Upto(u) = IF sent[u] = None THEN 0 ELSE IF hold[u] = None THEN sent[u] ELSE sent[u] - 1
    BY <1>0, CourseFacts
<1>3. PICK m \in Nat : /\ NextFrame(u) <= m /\ m <= Upto(u)
                       /\ Flow(down, u, NextFrame(u), m, sum[u]) /\ Flow(Rest, u, m, Upto(u), sum[u])
    BY DEF OnCourse, Joined
<1>4. CASE conn = "up"
  <2>1. u # t /\ Rest' = Rest /\ down' = down
      BY <1>0, <1>1, <1>4 DEF Rest
  <2>2. hold'[u] = hold[u]
      BY <2>1, <1>0, <1>1
  <2> QED
      BY <2>1, <2>2, <1>0, <1>1, <1>3, CourseKept
<1>5. CASE conn # "up"
  <2>1. Rest = queue /\ Rest' = queue'
      BY <1>1, <1>5 DEF Rest
  <2>2. PICK q \in Seq(Frame) : queue' = Append(q, f) /\ Flow(q, u, m, Upto(u), sum[u])
    <3>1. CASE queue' = Append(queue, f)
        BY <3>1, <2>1, <1>2, <1>3
    <3>2. CASE /\ queue # <<>> /\ Tail(queue) \in Seq(Frame)
               /\ queue' = Append(Tail(queue), f) /\ hurt' = hurt \cup {Head(queue)[1]}
      <4>1. Head(queue)[1] # u
          BY <3>2, <1>0
      <4>2. Flow(queue, u, m, Upto(u), sum[u])
          BY <2>1, <1>3
      <4>3. Flow(Tail(queue), u, m, Upto(u), sum[u])
          BY <4>1, <4>2, <3>2, <1>0, <1>2, FlowReadOther
      <4> QED
          BY <4>3, <3>2
    <3> QED
        BY <3>1, <3>2, <1>1
  <2> HIDE DEF f
  <2>3. CASE u # t
    <3>1. f[1] # u
        BY <2>3, <1>1
    <3>2. Flow(Append(q, f), u, m, Upto(u), sum[u])
        BY <3>1, <2>2, <1>0, <1>1, <1>2, FlowSent
    <3>3. Flow(Rest', u, m, Upto(u), sum[u])
        BY <3>2, <2>1, <2>2
    <3>4. hold'[u] = hold[u] /\ down' = down
        BY <2>3, <1>0, <1>1
    <3> QED
        BY <3>3, <3>4, <1>0, <1>1, <1>3, CourseKept
  <2>4. CASE u = t
    <3>1. sent[t] # None /\ f = <<t, sent[t] - 1, sum[t]>> /\ Upto(t) = sent[t] - 1
        BY <2>4, <1>1, <1>2 DEF OnCourse, f
    <3>2. f[2] = Upto(t) /\ f[3] = sum[t]
        BY <3>1
    <3>3. Flow(Append(q, f), t, m, Upto(t) + 1, sum[t])
        BY <3>2, <2>2, <2>4, <1>1, <1>2, <1>3, FlowSent
    <3>4. hold'[t] = None /\ sent'[t] = sent[t] /\ sum'[t] = sum[t] /\ version'[t] = version[t] /\ down' = down
        BY <1>1
    <3>5. Upto(t)' = Upto(t) + 1
      <4>1. sent[t] \in (0 .. (Chunks + 1)) \cup {None}
          BY DEF TypeOK, SenderTypeOK
      <4>2. Upto(t)' = sent[t]
          BY <3>1, <3>4 DEF Upto
      <4> QED
          BY <4>1, <4>2, <3>1, TransferAssumption
    <3>6. Opened(t)' = Opened(t) /\ NextFrame(t)' = NextFrame(t)
        BY <1>0 DEF Opened, NextFrame
    <3>7. Flow(Rest, t, m, Upto(t), sum[t])'
        BY <3>3, <3>4, <3>5, <2>1, <2>2
    <3>8. m <= Upto(t)'
        BY <3>5, <2>4, <1>2, <1>3
    <3>9. Joined(t, m)'
        BY <3>4, <3>6, <3>7, <3>8, <2>4, <1>3 DEF Joined
    <3>10. Apart(row[t].path)' = Apart(row[t].path)
        BY <1>0 DEF Apart
    <3>11. /\ Opened(t)' => row'[t].status = "receiving"
           /\ ~ Opened(t)' => \/ row'[t].status \in {"none", "received"}
                              \/ row'[t].status = "failed" /\ ~ Apart(row[t].path)'
           /\ sent'[t] # None => version'[t] = sum'[t]
           /\ Opened(t)' => \A i \in 1 .. (tr'[t].next - 1) : tr'[t].hasher[i] = <<t, i, sum'[t]>>
        BY <3>4, <3>6, <3>10, <2>4, <1>0 DEF OnCourse
    <3> QED
        BY <3>4, <3>9, <3>11, <2>4 DEF OnCourse
  <2> QED
      BY <2>3, <2>4
<1> QED
    BY <1>4, <1>5

\* The rows that the drain sends follow the frames in flight.
LEMMA RelayOnCourse ==
    ASSUME TypeOK, RemoveConn \/ AddConn \/ ReadQueue \/ SendRow \/ UNCHANGED vars,
           NEW u \in Transfer, OnCourse(u)
    PROVE  OnCourse(u)'
<1>1. UNCHANGED <<sent, sum, version, hold, tr, row, mixed>>
    BY DEF RemoveConn, AddConn, ReadQueue, SendRow, vars, senderVars, relayVars, receiverVars,
           historyVars, nameVars
<1>2. NextFrame(u) \in Nat /\ Upto(u) \in Nat /\ down \in Seq(Frame) /\ todo \in Seq(Frame)
    BY CourseFacts
<1>3. PICK m \in Nat : /\ NextFrame(u) <= m /\ m <= Upto(u)
                       /\ Flow(down, u, NextFrame(u), m, sum[u]) /\ Flow(Rest, u, m, Upto(u), sum[u])
    BY DEF OnCourse, Joined
<1>4. ASSUME NEW n \in Nat, NextFrame(u) <= n, n <= Upto(u),
             Flow(down', u, NextFrame(u), n, sum[u]), Flow(Rest', u, n, Upto(u), sum[u])
      PROVE  OnCourse(u)'
    BY <1>1, <1>4, CourseKept
<1>5. CASE RemoveConn \/ AddConn \/ ReadQueue \/ UNCHANGED vars
  <2>1. down' = down
      BY <1>5 DEF RemoveConn, AddConn, ReadQueue, vars, relayVars
  <2>2. Rest' = Rest
      BY <1>5 DEF RemoveConn, AddConn, ReadQueue, vars, relayVars, Rest
  <2> QED
      BY <2>1, <2>2, <1>3, <1>4
<1>6. CASE SendRow
  <2> DEFINE f == Head(todo)
  <2>1. /\ conn = "up" /\ conn' = "up" /\ todo # <<>> /\ f \in Frame
        /\ todo' = Tail(todo) /\ down' = Append(down, f)
      BY <1>6, SentRow
  <2>2. Rest = todo /\ Rest' = Tail(todo)
      BY <2>1 DEF Rest
  <2>3. Flow(todo, u, m, Upto(u), sum[u])
      BY <2>2, <1>3
  <2>4. CASE f[1] = u
    <3>1. f[2] = m /\ f[3] = sum[u] /\ Flow(Tail(todo), u, m + 1, Upto(u), sum[u])
        BY <2>1, <2>3, <2>4, <1>2, HeadIsNext, FlowReadOwn
    <3>2. m < Upto(u)
      <4>1. 1 \in 1 .. Len(todo) /\ todo[1] = f
          BY <2>1, <1>2, HeadTail
      <4>2. todo[1][2] < Upto(u)
          BY <4>1, <2>3, <2>4 DEF Flow
      <4> QED
          BY <4>1, <4>2, <3>1
    <3> HIDE DEF f
    <3>3. Flow(Append(down, f), u, NextFrame(u), m + 1, sum[u])
        BY <3>1, <2>1, <2>4, <1>2, <1>3, FlowSent
    <3>4. m + 1 \in Nat /\ NextFrame(u) <= m + 1 /\ m + 1 <= Upto(u)
        BY <3>2, <1>2, <1>3
    <3>5. Flow(down', u, NextFrame(u), m + 1, sum[u]) /\ Flow(Rest', u, m + 1, Upto(u), sum[u])
        BY <3>1, <3>3, <2>1, <2>2
    <3> QED
        BY <3>4, <3>5, <1>4
  <2>5. CASE f[1] # u
    <3>1. Flow(Tail(todo), u, m, Upto(u), sum[u])
        BY <2>1, <2>3, <2>5, <1>2, FlowReadOther
    <3> HIDE DEF f
    <3>2. Flow(Append(down, f), u, NextFrame(u), m, sum[u])
        BY <2>1, <2>5, <1>2, <1>3, FlowSent
    <3>3. Flow(down', u, NextFrame(u), m, sum[u]) /\ Flow(Rest', u, m, Upto(u), sum[u])
        BY <3>1, <3>2, <2>1, <2>2
    <3> QED
        BY <3>3, <1>3, <1>4
  <2> QED
      BY <2>4, <2>5
<1> QED
    BY <1>5, <1>6

\* A frame of one transfer is read: the others are still on course.
LEMMA OthersOnCourse ==
    ASSUME TypeOK, NEW f, Read(f), NEW u \in Transfer, OnCourse(u), f[1] # u,
           tr'[u] = tr[u], row'[u] = row[u], mixed \subseteq mixed'
    PROVE  OnCourse(u)'
<1>1. /\ f = Head(down) /\ down # <<>> /\ down' = Tail(down)
      /\ (conn # "up" => queue' = queue)
      /\ UNCHANGED <<conn, todo, hold, sent, sum, version>>
    BY ReadFrames DEF TypeOK, senderVars
<1>2. Rest' = Rest
    BY <1>1 DEF Rest
<1>3. NextFrame(u) \in Nat /\ Upto(u) \in Nat /\ down \in Seq(Frame)
    BY CourseFacts
<1>4. PICK m \in Nat : /\ NextFrame(u) <= m /\ m <= Upto(u)
                       /\ Flow(down, u, NextFrame(u), m, sum[u]) /\ Flow(Rest, u, m, Upto(u), sum[u])
    BY DEF OnCourse, Joined
<1>5. Flow(Tail(down), u, NextFrame(u), m, sum[u])
    BY <1>1, <1>3, <1>4, FlowReadOther
<1>6. Flow(down', u, NextFrame(u), m, sum[u]) /\ Flow(Rest', u, m, Upto(u), sum[u])
    BY <1>1, <1>2, <1>4, <1>5
<1> QED
    BY <1>1, <1>4, <1>6, CourseKept

\* A frame of a transfer on course is the one it waits for, and of the file
\* that was hashed; then the next one is.
LEMMA ReadOnCourse ==
    ASSUME TypeOK, NEW t \in Transfer, NEW k \in 0 .. Chunks, NEW v \in 0 .. MaxFaults,
           Read(<<t, k, v>>), OnCourse(t)
    PROVE  /\ k = NextFrame(t) /\ v = sum[t] /\ k < Upto(t)
           /\ \E m \in Nat : /\ k + 1 <= m /\ m <= Upto(t)
                             /\ Flow(down', t, k + 1, m, sum[t]) /\ Flow(Rest', t, m, Upto(t), sum[t])
           /\ Upto(t)' = Upto(t) /\ sum'[t] = sum[t] /\ hold'[t] = hold[t]
           /\ sent'[t] = sent[t] /\ version'[t] = version[t]
<1> DEFINE f == <<t, k, v>>
<1>1. /\ f = Head(down) /\ down # <<>> /\ down' = Tail(down)
      /\ (conn # "up" => queue' = queue)
      /\ UNCHANGED <<conn, todo, hold, sent, sum, version>>
    BY ReadFrames DEF TypeOK, senderVars
<1>2. Rest' = Rest /\ Upto(t)' = Upto(t)
    BY <1>1 DEF Rest, Upto
<1>3. NextFrame(t) \in Nat /\ Upto(t) \in Nat /\ down \in Seq(Frame)
    BY CourseFacts
<1>8. PICK m \in Nat : /\ NextFrame(t) <= m /\ m <= Upto(t)
                       /\ Flow(down, t, NextFrame(t), m, sum[t]) /\ Flow(Rest, t, m, Upto(t), sum[t])
    BY DEF OnCourse, Joined
<1>4. f[1] = t /\ f[2] = k /\ f[3] = v
    OBVIOUS
<1> HIDE DEF f
<1>5. f[2] = NextFrame(t) /\ f[3] = sum[t]
    BY <1>1, <1>3, <1>4, <1>8, HeadIsNext
<1>6. Flow(Tail(down), t, NextFrame(t) + 1, m, sum[t])
    BY <1>1, <1>3, <1>4, <1>8, FlowReadOwn
<1>7. f[2] < m
  <2>1. 1 \in 1 .. Len(down) /\ down[1] = f
      BY <1>1, <1>3, HeadTail
  <2> QED
      BY <2>1, <1>3, <1>4, <1>8 DEF Flow
<1>9. k + 1 <= m /\ k < Upto(t)
    BY <1>3, <1>4, <1>7, <1>8
<1>10. Flow(down', t, k + 1, m, sum[t]) /\ Flow(Rest', t, m, Upto(t), sum[t])
    BY <1>1, <1>2, <1>4, <1>5, <1>6, <1>8
<1> QED
    BY <1>1, <1>2, <1>4, <1>5, <1>8, <1>9, <1>10

\* A transfer whose frame was read is on course when it waits for the next one.
LEMMA NextOnCourse ==
    ASSUME TypeOK, NEW t \in Transfer, NEW k \in 0 .. Chunks, NEW v \in 0 .. MaxFaults,
           Read(<<t, k, v>>), OnCourse(t), NextFrame(t)' = k + 1,
           Opened(t)' => row'[t].status = "receiving",
           ~ Opened(t)' => \/ row'[t].status \in {"none", "received"}
                           \/ row'[t].status = "failed" /\ ~ Apart(row[t].path)',
           Opened(t)' => \A i \in 1 .. (tr'[t].next - 1) : tr'[t].hasher[i] = <<t, i, sum[t]>>
    PROVE  OnCourse(t)'
<1>1. /\ \E m \in Nat : /\ k + 1 <= m /\ m <= Upto(t)
                        /\ Flow(down', t, k + 1, m, sum[t]) /\ Flow(Rest', t, m, Upto(t), sum[t])
      /\ Upto(t)' = Upto(t) /\ sum'[t] = sum[t] /\ hold'[t] = hold[t]
      /\ sent'[t] = sent[t] /\ version'[t] = version[t]
    BY ReadOnCourse
<1>2. \E m \in Nat : Joined(t, m)'
    BY <1>1 DEF Joined
<1>3. /\ sent'[t] # None => version'[t] = sum'[t]
      /\ hold'[t] # None => sent'[t] # None /\ hold'[t] = <<t, sent'[t] - 1, sum'[t]>>
      /\ Opened(t)' => \A i \in 1 .. (tr'[t].next - 1) : tr'[t].hasher[i] = <<t, i, sum'[t]>>
    BY <1>1 DEF OnCourse
<1> QED
    BY <1>2, <1>3 DEF OnCourse

\* The receiver on course, while nothing goes wrong.
LEMMA ReceiverOnCourse ==
    ASSUME TypeOK, DiskInv, InOrder, faults = 0, faults' = 0, Receiving, [Next]_vars,
           NEW u \in Straight', OnCourse(u)
    PROVE  OnCourse(u)'
<1>0. PICK t \in Transfer, v \in 0 .. MaxFaults :
        \/ HandleFileOffer(t, v) \/ DeclineOffer(t, v)
        \/ HandleFileChunk(t, v) \/ FinalizeTransfer(t, v)
        \/ \E i \in 1 .. Chunks : UnknownChunk(t, i, v) \/ AbortInbound(t, i, v)
    BY DEF Receiving
<1>00. ~ Fault
    BY DEF Fault
<1>01. u \in Transfer /\ u \notin shared'
    BY DEF Straight
<1>02. mixed \subseteq mixed' /\ shared \subseteq shared'
    BY MarksKept DEF DiskInv
<1>1. ASSUME OnCourse(t), HandleFileOffer(t, v) PROVE OnCourse(t)'
  <2>1. Read(<<t, 0, v>>) /\ 0 \in 0 .. Chunks
      BY <1>1, TransferAssumption DEF HandleFileOffer
  <2>2. 0 = NextFrame(t)
      BY <2>1, <1>1, ReadOnCourse
  <2>3. PICK k \in 1 .. MaxCopies, p \in Path : Offers(t, v, k, p)
      BY <1>1, Offered DEF DiskInv
  <2>4. ~ Opened(t) /\ row[t].status = "none"
      BY <2>2, DiskFacts, TransferAssumption DEF NextFrame
  <2>5. tr'[t].next = 1 /\ row'[t].status = "receiving" /\ Opened(t)'
      BY <2>3, <2>4, TransferAssumption DEF Offers, Opened, TypeOK, ReceiverTypeOK
  <2>6. NextFrame(t)' = 0 + 1 /\ \A i \in 1 .. (1 - 1) : FALSE
      BY <2>5 DEF NextFrame
  <2> QED
      BY <2>1, <2>5, <2>6, <1>1, NextOnCourse
<1>2. ASSUME OnCourse(t), HandleFileChunk(t, v) PROVE OnCourse(t)'
  <2> DEFINE k == tr[t].next
  <2>1. /\ Opened(t) /\ k < Chunks /\ Read(<<t, k, v>>) /\ UNCHANGED row
        /\ tr' = [tr EXCEPT ![t].next = @ + 1, ![t].hasher = Append(@, <<t, tr[t].next, v>>)]
      BY <1>2 DEF HandleFileChunk
  <2>2. /\ k \in 1 .. Chunks /\ k \in 0 .. Chunks /\ tr[t].hasher \in Seq(Piece) /\ Len(tr[t].hasher) = k - 1
        /\ tr[t] \in Inbound
      BY <2>1, DiskFacts
  <2>3. v = sum[t]
      BY <2>1, <2>2, <1>2, ReadOnCourse
  <2> DEFINE x == <<t, k, v>>
             h == Append(tr[t].hasher, x)
  <2>4. tr'[t].next = k + 1 /\ tr'[t].hasher = h
    <3>1. tr' = [tr EXCEPT ![t] = [tr[t] EXCEPT !.next = k + 1, !.hasher = h]]
        BY <2>1 DEF TypeOK, ReceiverTypeOK, Inbound
    <3> HIDE DEF h
    <3> QED
        BY <3>1, <2>2 DEF TypeOK, ReceiverTypeOK, Inbound
  <2>5. x \in Piece
      BY <2>2 DEF Piece
  <2>6. h[k] = x /\ \A i \in 1 .. (k - 1) : h[i] = tr[t].hasher[i]
    <3> HIDE DEF x
    <3>1. /\ h[Len(tr[t].hasher) + 1] = x
          /\ \A i \in 1 .. Len(tr[t].hasher) : h[i] = tr[t].hasher[i]
        BY <2>2, <2>5, AppendRow
    <3>2. Len(tr[t].hasher) + 1 = k
        BY <2>2
    <3> QED
        BY <3>1, <3>2, <2>2
  <2>7. \A i \in 1 .. (k - 1) : tr[t].hasher[i] = <<t, i, sum[t]>>
      BY <2>1, <1>2 DEF OnCourse
  <2> HIDE DEF h
  <2>8. \A i \in 1 .. k : h[i] = <<t, i, sum[t]>>
    <3> TAKE i \in 1 .. k
    <3>1. CASE i = k
        BY <3>1, <2>3, <2>6
    <3>2. CASE i # k
      <4>1. i \in 1 .. (k - 1)
          BY <3>2, <2>2
      <4> QED
          BY <4>1, <2>6, <2>7
    <3> QED
        BY <3>1, <3>2
  <2> HIDE DEF k
  <2>9. Opened(t)' /\ NextFrame(t)' = k + 1 /\ tr'[t].next - 1 = k
      BY <2>2, <2>4, TransferAssumption DEF Opened, NextFrame
  <2>12. row'[t].status = "receiving"
      BY <2>1, <1>2 DEF OnCourse
  <2>13. \A i \in 1 .. (tr'[t].next - 1) : tr'[t].hasher[i] = <<t, i, sum[t]>>
      BY <2>4, <2>8, <2>9
  <2> QED
      BY <2>1, <2>2, <2>9, <2>12, <2>13, <1>2, NextOnCourse
<1>3. ASSUME OnCourse(t), FinalizeTransfer(t, v), t \notin shared PROVE OnCourse(t)'
  <2>1. /\ Opened(t) /\ tr[t].next = Chunks /\ Read(<<t, Chunks, v>>) /\ mixed' = mixed
        /\ Chunks \in 0 .. Chunks
      BY <1>3, TransferAssumption DEF FinalizeTransfer
  <2>2. /\ tr[t].hasher \in Seq(Piece) /\ Len(tr[t].hasher) = Chunks - 1
        /\ tr[t].file # None /\ tr[t].path \in Path
      BY <2>1, DiskFacts
  <2>3. v = sum[t]
      BY <2>1, <1>3, ReadOnCourse
  <2>4. Verified(t, v)
    <3> DEFINE x == <<t, Chunks, v>>
               h == Append(tr[t].hasher, x)
    <3>1. x \in Piece
        BY TransferAssumption DEF Piece
    <3>2. /\ h \in Seq(Piece) /\ Len(h) = Chunks
          /\ h[Chunks] = x /\ \A i \in 1 .. (Chunks - 1) : h[i] = tr[t].hasher[i]
      <4> HIDE DEF x
      <4>1. /\ h \in Seq(Piece) /\ Len(h) = Len(tr[t].hasher) + 1 /\ h[Len(tr[t].hasher) + 1] = x
            /\ \A i \in 1 .. Len(tr[t].hasher) : h[i] = tr[t].hasher[i]
          BY <2>2, <3>1, AppendRow
      <4>2. Len(tr[t].hasher) + 1 = Chunks
          BY <2>2, TransferAssumption
      <4> QED
          BY <4>1, <4>2, <2>2
    <3>3. \A i \in 1 .. (Chunks - 1) : tr[t].hasher[i] = <<t, i, sum[t]>>
        BY <2>1, <1>3 DEF OnCourse
    <3> HIDE DEF h
    <3>4. \A i \in 1 .. Chunks : h[i] = <<t, i, sum[t]>>
      <4> TAKE i \in 1 .. Chunks
      <4>1. CASE i = Chunks
          BY <4>1, <2>3, <3>2
      <4>2. CASE i # Chunks
        <5>1. i \in 1 .. (Chunks - 1)
            BY <4>2, TransferAssumption
        <5> QED
            BY <5>1, <3>2, <3>3
      <4> QED
          BY <4>1, <4>2
    <3>5. h = [i \in 1 .. Chunks |-> h[i]]
        BY <3>2, LenProperties
    <3>6. h = [i \in 1 .. Chunks |-> <<t, i, sum[t]>>]
        BY <3>4, <3>5
    <3>7. tr[t].sum = sum[t]
        BY <2>1 DEF DiskInv, OpenIsSound
    <3> QED
        BY <3>6, <3>7, <2>1 DEF Verified, h
  <2>5. ~ HasPart(t) => PartOf[tr[t].path] \in mixed
    <3>1. PartOf[tr[t].path] \notin mixed => Owns(t)
        BY <2>1, <1>3 DEF DiskInv, OwnsItsPart
    <3> QED
        BY <3>1, <2>2 DEF Owns, HasPart
  <2>6. PICK st \in {"received", "failed"} : Finish(t, st) /\ (st = "failed" => ~ HasPart(t))
      BY <2>4, <1>3, <1>00 DEF FinalizeTransfer
  <2>7. ~ Opened(t)' /\ row'[t].status = st /\ row'[t].path = tr[t].path
    <3>1. st \in Status
        BY DEF Status
    <3>2. ~ Opened(t)' /\ row'[t] = [status |-> st, path |-> tr[t].path]
        BY <2>1, <2>6, <3>1, FinishTransfer
    <3> QED
        BY <3>2
  <2>8. NextFrame(t)' = Chunks + 1
      BY <2>7 DEF NextFrame
  <2>9. st = "failed" => ~ Apart(row[t].path)'
      BY <2>1, <2>5, <2>6, <2>7 DEF Apart
  <2>10. ~ Opened(t)' => \/ row'[t].status \in {"none", "received"}
                         \/ row'[t].status = "failed" /\ ~ Apart(row[t].path)'
      BY <2>7, <2>9
  <2> QED
      BY <2>1, <2>7, <2>8, <2>10, <1>3, NextOnCourse
<1>4. ASSUME NEW i \in 1 .. Chunks, OnCourse(t), UnknownChunk(t, i, v) \/ AbortInbound(t, i, v) PROVE FALSE
  <2>1. Read(<<t, i, v>>) /\ i > 0 /\ i \in 0 .. Chunks /\ (~ Opened(t) \/ (Opened(t) /\ i # tr[t].next))
      BY <1>4, <1>00, TransferAssumption DEF UnknownChunk, AbortInbound
  <2>2. i = NextFrame(t)
      BY <2>1, <1>4, ReadOnCourse
  <2> QED
      BY <2>1, <2>2, TransferAssumption DEF NextFrame
<1>5. ~ DeclineOffer(t, v)
    BY <1>00 DEF DeclineOffer
<1>6. /\ \E f : Read(f) /\ f[1] = t
      /\ \A x \in Transfer \ {t} : tr'[x] = tr[x] /\ row'[x] = row[x]
  <2>1. CASE HandleFileOffer(t, v)
    <3>1. PICK k \in 1 .. MaxCopies, p \in Path : Offers(t, v, k, p)
        BY <2>1, Offered DEF DiskInv
    <3>2. \A x \in Transfer \ {t} : tr'[x] = tr[x] /\ row'[x] = row[x]
        BY <3>1 DEF Offers, TypeOK, ReceiverTypeOK
    <3>3. Read(<<t, 0, v>>) /\ <<t, 0, v>>[1] = t
        BY <2>1 DEF HandleFileOffer
    <3> QED
        BY <3>2, <3>3
  <2>2. CASE HandleFileChunk(t, v)
    <3>1. Read(<<t, tr[t].next, v>>) /\ <<t, tr[t].next, v>>[1] = t /\ UNCHANGED row
        BY <2>2 DEF HandleFileChunk
    <3>2. \A x \in Transfer \ {t} : tr'[x] = tr[x]
        BY <2>2 DEF HandleFileChunk, TypeOK, ReceiverTypeOK
    <3> QED
        BY <3>1, <3>2
  <2>3. CASE FinalizeTransfer(t, v)
    <3>1. Read(<<t, Chunks, v>>) /\ <<t, Chunks, v>>[1] = t
        BY <2>3 DEF FinalizeTransfer
    <3>2. \A x \in Transfer \ {t} : tr'[x] = tr[x] /\ row'[x] = row[x]
        BY <2>3 DEF FinalizeTransfer, Finish, TypeOK, ReceiverTypeOK
    <3> QED
        BY <3>1, <3>2
  <2>4. ASSUME NEW i \in 1 .. Chunks, UnknownChunk(t, i, v) \/ AbortInbound(t, i, v)
        PROVE  /\ \E f : Read(f) /\ f[1] = t
               /\ \A x \in Transfer \ {t} : tr'[x] = tr[x] /\ row'[x] = row[x]
    <3>1. Read(<<t, i, v>>) /\ <<t, i, v>>[1] = t
        BY <2>4 DEF UnknownChunk, AbortInbound
    <3>2. \A x \in Transfer \ {t} : tr'[x] = tr[x] /\ row'[x] = row[x]
        BY <2>4 DEF UnknownChunk, AbortInbound, Finish, receiverVars, TypeOK, ReceiverTypeOK
    <3> QED
        BY <3>1, <3>2
  <2> QED
      BY <2>1, <2>2, <2>3, <2>4, <1>0, <1>5
<1>8. CASE u = t
  <2>1. t \notin shared
      BY <1>01, <1>02, <1>8
  <2> QED
      BY <2>1, <1>0, <1>1, <1>2, <1>3, <1>4, <1>5, <1>8
<1>9. CASE u # t
  <2>1. PICK f : Read(f) /\ f[1] = t
      BY <1>6
  <2> QED
      BY <2>1, <1>01, <1>02, <1>6, <1>9, OthersOnCourse
<1> QED
    BY <1>8, <1>9

\* A reason to fail stays one, and what was not a fault is none.
LEMMA ReasonsKept ==
    ASSUME TypeOK, FramesAreSent, [Next]_vars, faults' = 0
    PROVE  ~ Fault /\ faults = 0 /\ Straight' \subseteq Straight
<1>1. ~ Fault
  <2>1. faults \in Nat
      BY TransferAssumption DEF TypeOK, SenderTypeOK
  <2> QED
      BY <2>1 DEF Fault
<1>2. shared \subseteq shared'
    BY MarksKept
<1>3. faults' = faults /\ hurt \subseteq hurt' /\ overtaken \subseteq overtaken' /\ edited \subseteq edited'
  <2>1. ASSUME NEW t \in Transfer, SendFile(t)
        PROVE  faults' = faults /\ UNCHANGED <<hurt, overtaken, edited>>
      BY <2>1 DEF SendFile, historyVars, frameVars
  <2>2. ASSUME NEW t \in Transfer, SendFrame(t)
        PROVE  faults' = faults /\ hurt \subseteq hurt' /\ overtaken \subseteq overtaken' /\ edited' = edited
      BY <2>2, SentFrame DEF SendFrame
  <2>3. ASSUME NEW t \in Transfer, EnqueueHeld(t)
        PROVE  faults' = faults /\ hurt \subseteq hurt' /\ overtaken \subseteq overtaken' /\ edited' = edited
      BY <2>3, QueuedFrame DEF EnqueueHeld
  <2>4. ASSUME NEW t \in Transfer, SendLost(t) \/ SendFails(t)
        PROVE  faults' = faults /\ hurt \subseteq hurt' /\ UNCHANGED <<overtaken, edited>>
      BY <2>4, <1>1 DEF SendLost, SendFails
  <2>5. ASSUME Receiving PROVE faults' = faults /\ UNCHANGED <<hurt, overtaken, edited>>
    <3>1. PICK t \in Transfer, v \in 0 .. MaxFaults :
            \/ HandleFileOffer(t, v) \/ HandleFileChunk(t, v) \/ FinalizeTransfer(t, v)
            \/ \E i \in 1 .. Chunks : UnknownChunk(t, i, v) \/ AbortInbound(t, i, v)
        BY <2>5, <1>1 DEF Receiving, DeclineOffer
    <3>2. faults' = faults /\ edited' = edited
        BY <3>1, <1>1 DEF HandleFileOffer, HandleFileChunk, FinalizeTransfer, UnknownChunk, AbortInbound
    <3>3. \E f : Read(f)
        BY <3>1 DEF HandleFileOffer, HandleFileChunk, FinalizeTransfer, UnknownChunk, AbortInbound
    <3> QED
        BY <3>2, <3>3 DEF Read, frameVars
  <2>6. ASSUME RemoveConn \/ AddConn \/ AfterReady \/ UNCHANGED vars
        PROVE  faults' = faults /\ UNCHANGED <<hurt, overtaken, edited>>
      BY <2>6 DEF RemoveConn, AddConn, AfterReady, ReadQueue, SendRow, vars, historyVars, frameVars
  <2> QED
      BY <2>1, <2>2, <2>3, <2>4, <2>5, <2>6, <1>1
         DEF Next, Step, Sending, Edit, CutReceiver, CutSender, KillReceiver
<1> QED
    BY <1>1, <1>2, <1>3 DEF Straight

LEMMA OrderKept == TypeOK /\ DiskInv /\ InOrder /\ [Next]_vars => InOrder'
<1> SUFFICES ASSUME TypeOK, DiskInv, InOrder, [Next]_vars, faults' = 0, NEW u \in Straight'
             PROVE  OnCourse(u)'
    BY DEF InOrder
<1>0. ~ Fault /\ faults = 0 /\ u \in Straight
    BY ReasonsKept DEF DiskInv
<1>1. OnCourse(u) /\ u \in Transfer
    BY <1>0 DEF InOrder, Straight
<1>2. ASSUME NEW t \in Transfer, SendFile(t) \/ Sending(t) PROVE OnCourse(u)'
    BY <1>1, <1>2, SenderOnCourse
<1>3. ASSUME NEW t \in Transfer, EnqueueHeld(t) PROVE OnCourse(u)'
    BY <1>1, <1>3, EnqueuedOnCourse
<1>4. CASE Receiving
    BY <1>0, <1>1, <1>4, ReceiverOnCourse
<1>5. CASE RemoveConn \/ AddConn \/ AfterReady \/ UNCHANGED vars
    BY <1>1, <1>5, RelayOnCourse DEF AfterReady
<1> QED
    BY <1>0, <1>2, <1>3, <1>4, <1>5 DEF Next, Step, Edit, CutReceiver, CutSender, KillReceiver

-----------------------------------------------------------------------------
LEMMA TransferInvKept == Spec => []TransferInv
<1>1. Init => TransferInv
    BY InitTypes, InitDisk, InitOrder DEF TransferInv
<1>2. TransferInv /\ [Next]_vars => TransferInv'
    BY TypesKept, DiskKept, OrderKept DEF TransferInv, DiskInv
<1> QED
    BY <1>1, <1>2, PTL DEF Spec

\* What handleFileChunk and finalizeTransfer write into the history is what is
\* on the disk: a file shown as received is there and is, byte for byte, the
\* one that was hashed for its offer, unless two transfers had its .part file
\* open or its name was one that a .part file and a download had at once
\* (os.Create of "x.part" truncates the download of that name); and no .part
\* file is left without a transfer while no two names sent meet that way.
THEOREM DiskTrue == Spec => []DiskAgrees
<1>1. TransferInv => DiskAgrees
  <2> SUFFICES ASSUME TransferInv PROVE DiskAgrees
      OBVIOUS
  <2>0. TypeOK /\ ReceivedIsKept /\ DoneIsKept /\ NoOrphanPart
      BY DEF TransferInv, DiskInv
  <2>1. IntactUnlessShared
      BY <2>0 DEF IntactUnlessShared, ReceivedIsKept
  <2>2. ReceivedFileExists
    <3> SUFFICES ASSUME NEW t \in Transfer, row[t].status = "received"
                 PROVE  row[t].path \in Path /\ (Apart(row[t].path) => dir[row[t].path] # None)
        BY DEF ReceivedFileExists
    <3>1. row[t].path \in done /\ done \subseteq Path
        BY <2>0 DEF ReceivedIsKept, TypeOK, ReceiverTypeOK
    <3> QED
        BY <3>1, <2>0 DEF DoneIsKept
  <2> QED
      BY <2>0, <2>1, <2>2 DEF DiskAgrees
<1> QED
    BY <1>1, TransferInvKept, PTL

\* A transfer shown as failed has a reason: a frame refused, lost or trimmed by
\* the relay, a live frame that overtook queued ones (afterReady drains the queue
\* after the connection is registered), a file that changed, names that met or a
\* fault.  Without these the relay keeps a transfer's frames in order, which is
\* what handleFileChunk counts on.
THEOREM FailureHasAReason == Spec => []FailsForAReason
<1>1. TransferInv => FailsForAReason
  <2> SUFFICES ASSUME TransferInv, NEW t \in Transfer, row[t].status = "failed",
                      t \notin hurt \cup overtaken \cup shared \cup edited, ~ (faults > 0),
                      Apart(row[t].path)
               PROVE  FALSE
      BY DEF FailsForAReason
  <2>1. faults = 0
      BY TransferAssumption DEF TransferInv, TypeOK, SenderTypeOK
  <2>2. OnCourse(t)
      BY <2>1 DEF TransferInv, InOrder, Straight
  <2> QED
      BY <2>2 DEF OnCourse
<1> QED
    BY <1>1, TransferInvKept, PTL

\* No rename, removal or os.Create takes a finished download from its name,
\* although uniquePath looked for a free name many frames before - unless the
\* name, or its .part name, was mixed up with another's.
THEOREM DownloadsAreKept == Spec => NeverOverwritten
<1>1. TransferInv /\ [Next]_vars => [\A p \in done : Apart(p)' => dir'[p] = dir[p]]_vars
    BY DoneUntouched DEF TransferInv
<1> QED
    BY <1>1, TransferInvKept, PTL DEF Spec, NeverOverwritten
=============================================================================
