----------------------------- MODULE RelayProofs -----------------------------
(***************************************************************************)
(* The relay's own state: the offline queue, for every set of recipients   *)
(* and messages, every cap and retention, and unbounded ids and time; then *)
(* the registry, for every set of devices, every number of connections and *)
(* every history of restarts and configuration changes.                    *)
(***************************************************************************)
EXTENDS RelayRegistry, OfflineQueue, FiniteSetTheorems, WellFoundedInduction, TLAPS

-----------------------------------------------------------------------------
(* The offline queue: its inductive invariant                              *)

\* Only finitely many rows are ever in the table, so COUNT(*) is a number.
FiniteQueue == IsFiniteSet(queue)

QueueInv == RowsOK /\ FiniteQueue /\ NoDuplicateRows /\ QueueWithinCap

-----------------------------------------------------------------------------
(* The operators *)

\* The limits in force are integers.
LEMMA LimitsAreInts == Retention \in Int /\ MaxPerDevice \in Int
  BY QueueAssumption DEF Retention, MaxPerDevice

\* A finite set of rows is counted, and so is every part of it.
LEMMA RowsOfFinite ==
    ASSUME NEW q, IsFiniteSet(q), NEW r
    PROVE  /\ IsFiniteSet(RowsOf(q, r))
           /\ Cardinality(RowsOf(q, r)) \in Nat
  BY FS_Subset, FS_CardinalityType DEF RowsOf

\* A finite, nonempty set of rows has a row with the smallest id.
LEMMA MinRow ==
    ASSUME NEW rows, rows # {}, \A x \in rows : x.id \in Nat
    PROVE  \E m \in rows : \A y \in rows : ~(y.id < m.id)
<1> DEFINE ids == {x.id : x \in rows}
<1>1. ids \subseteq Nat /\ ids # {}
  OBVIOUS
<1>2. PICK n \in ids : \A k \in ids : ~(<<k, n>> \in OpToRel(<, Nat))
  BY <1>1, NatLessThanWellFounded, WFMin
<1>3. \A k \in ids : ~(k < n)
  BY <1>1, <1>2 DEF OpToRel
<1> QED BY <1>3

\* LIMIT 1 is not empty: at the cap, room is really made.
LEMMA OldestOne ==
    ASSUME NEW rows, IsFiniteSet(rows), rows # {}, \A x \in rows : x.id \in Nat
    PROVE  \E m \in rows : m \in Oldest(rows, 1)
<1>1. PICK m \in rows : \A y \in rows : ~(y.id < m.id)
  BY MinRow
<1>2. {y \in rows : y.id < m.id} = {}
  BY <1>1
<1> DEFINE Older(x) == Cardinality({y \in rows : y.id < x.id})
<1>3. Older(m) = 0
  BY <1>2, FS_EmptySet
<1>4. Oldest(rows, 1) = {x \in rows : Older(x) < 1}
  BY DEF Oldest
<1> HIDE DEF Older
<1> QED BY <1>3, <1>4

\* What is left after the trim leaves room for one more row.
LEMMA TrimMakesRoom ==
    ASSUME NEW q, IsFiniteSet(q), \A x \in q : x.id \in Nat, NEW r,
           MaxPerDevice > 0, Cardinality(RowsOf(q, r)) <= MaxPerDevice
    PROVE  Cardinality(RowsOf(q \ Trimmed(q, r), r)) < MaxPerDevice
<1> DEFINE rows == RowsOf(q, r)
           kept == RowsOf(q \ Trimmed(q, r), r)
<1>1. IsFiniteSet(rows) /\ Cardinality(rows) \in Nat /\ MaxPerDevice \in Int
  BY RowsOfFinite, LimitsAreInts
<1>2. kept \subseteq rows /\ \A x \in rows : x.id \in Nat
  BY DEF RowsOf
<1>3. CASE Cardinality(rows) < MaxPerDevice
  <2>1. Cardinality(kept) \in Nat /\ Cardinality(kept) <= Cardinality(rows)
    BY <1>1, <1>2, FS_Subset, FS_CardinalityType
  <2> QED BY <1>1, <1>3, <2>1
<1>4. CASE Cardinality(rows) = MaxPerDevice
  <2>1. Trimmed(q, r) = Oldest(rows, 1)
    BY <1>1, <1>4 DEF Trimmed
  <2>2. rows # {}
    BY <1>4, FS_EmptySet
  <2>3. PICK m \in rows : m \in Oldest(rows, 1)
    BY <1>1, <1>2, <2>2, OldestOne
  <2>4. kept \subseteq rows \ {m}
    BY <1>2, <2>1, <2>3 DEF RowsOf
  <2>5. IsFiniteSet(rows \ {m}) /\ Cardinality(rows \ {m}) = Cardinality(rows) - 1
    BY <1>1, <2>3, FS_RemoveElement
  <2>6. Cardinality(kept) \in Nat /\ Cardinality(kept) <= Cardinality(rows \ {m})
    BY <2>4, <2>5, FS_Subset, FS_CardinalityType
  <2> QED BY <1>1, <1>4, <2>5, <2>6
<1> QED BY <1>1, <1>3, <1>4

-----------------------------------------------------------------------------
(* The inductive invariant *)

\* What enqueue leaves of the other rows.
LEMMA TrimTakesOwnRows == \A q, r : Trimmed(q, r) \subseteq RowsOf(q, r)
  BY DEF Trimmed, Oldest

\* A part of the table satisfies what the table does.
LEMMA SubsetKeeps ==
    ASSUME QueueInv, NEW q, q \subseteq queue
    PROVE  /\ IsFiniteSet(q)
           /\ q \subseteq QueueRow /\ \A x \in q : x.id < nextId /\ x.enqueuedAt <= now
           /\ \A x, y \in q :
                (x.id = y.id \/ (x.recipient = y.recipient /\ x.msg = y.msg)) => x = y
           /\ MaxPerDevice > 0 => \A r \in Recipient :
                Cardinality(RowsOf(q, r)) <= MaxPerDevice
<1>1. IsFiniteSet(q)
  BY FS_Subset DEF QueueInv, FiniteQueue
<1>2. ASSUME MaxPerDevice > 0, NEW r \in Recipient
      PROVE  Cardinality(RowsOf(q, r)) <= MaxPerDevice
  <2>1. RowsOf(q, r) \subseteq RowsOf(queue, r)
    BY DEF RowsOf
  <2>2. /\ IsFiniteSet(RowsOf(queue, r))
        /\ Cardinality(RowsOf(queue, r)) \in Nat
        /\ Cardinality(RowsOf(queue, r)) <= MaxPerDevice
    BY <1>2, RowsOfFinite DEF QueueInv, FiniteQueue, QueueWithinCap
  <2>3. /\ Cardinality(RowsOf(q, r)) \in Nat
        /\ Cardinality(RowsOf(q, r)) <= Cardinality(RowsOf(queue, r))
    BY <2>1, <2>2, FS_Subset, FS_CardinalityType
  <2> QED BY <2>2, <2>3, LimitsAreInts
<1> QED BY <1>1, <1>2 DEF QueueInv, RowsOK, NoDuplicateRows

\* Removing rows, by ack or by purge, keeps the invariant.
LEMMA RemovalKeeps ==
    ASSUME QueueInv, queue' \subseteq queue, UNCHANGED <<nextId, now>>
    PROVE  QueueInv'
  BY SubsetKeeps
  DEF QueueInv, RowsOK, FiniteQueue, NoDuplicateRows, QueueWithinCap

\* So does queueing a message: the trim makes the room the insert takes.
LEMMA EnqueueKeeps ==
    ASSUME QueueInv, NEW r \in Recipient, NEW m \in Msg, enqueue(r, m)
    PROVE  QueueInv'
<1> DEFINE kept == queue \ Trimmed(queue, r)
           new == NewRow(r, m)
<1>1. kept \subseteq queue
  OBVIOUS
<1>2. now' = now /\ nextId \in Nat \ {0} /\ now \in Nat
  BY DEF enqueue, QueueInv, RowsOK
<1>3. CASE queue' = kept /\ nextId' = nextId
  BY <1>1, <1>2, <1>3, RemovalKeeps
<1>4. CASE /\ queue' = kept \cup {new} /\ nextId' = nextId + 1
           /\ ~ \E x \in RowsOf(kept, r) : x.msg = m
  <2>1. new \in QueueRow /\ new.id = nextId /\ new.recipient = r /\ new.msg = m
                    /\ new.enqueuedAt = now
    BY <1>2 DEF NewRow, QueueRow
  <2>2. /\ IsFiniteSet(kept) /\ kept \subseteq QueueRow
        /\ \A x \in kept : x.id < nextId /\ x.enqueuedAt <= now
        /\ \A x, y \in kept :
             (x.id = y.id \/ (x.recipient = y.recipient /\ x.msg = y.msg)) => x = y
        /\ MaxPerDevice > 0 => \A k \in Recipient :
             Cardinality(RowsOf(kept, k)) <= MaxPerDevice
    BY <1>1, SubsetKeeps
  <2>3. RowsOK'
    BY <1>2, <1>4, <2>1, <2>2 DEF QueueInv, RowsOK, QueueRow
  <2>4. FiniteQueue'
    BY <1>4, <2>2, FS_AddElement DEF FiniteQueue
  <2>5. \A x \in kept : x.id # new.id /\ ~(x.recipient = r /\ x.msg = m)
    BY <1>2, <1>4, <2>1, <2>2 DEF RowsOf, QueueRow
  <2>6. NoDuplicateRows'
    BY <1>4, <2>1, <2>2, <2>5 DEF NoDuplicateRows
  <2>7. ASSUME MaxPerDevice > 0, NEW k \in Recipient
        PROVE  Cardinality(RowsOf(queue', k)) <= MaxPerDevice
    <3>1. CASE k # r
      <4>1. RowsOf(queue', k) = RowsOf(kept, k)
        BY <1>4, <2>1, <3>1 DEF RowsOf
      <4> QED BY <2>2, <2>7, <4>1
    <3>2. CASE k = r
      <4>1. RowsOf(queue', k) = RowsOf(kept, r) \cup {new}
        BY <1>4, <2>1, <3>2 DEF RowsOf
      <4>2. /\ IsFiniteSet(RowsOf(kept, r)) /\ new \notin RowsOf(kept, r)
            /\ Cardinality(RowsOf(kept, r)) \in Nat
        BY <2>2, <2>5, RowsOfFinite DEF RowsOf
      <4>3. Cardinality(RowsOf(queue', k)) = Cardinality(RowsOf(kept, r)) + 1
        BY <4>1, <4>2, FS_AddElement
      <4>4. /\ IsFiniteSet(queue) /\ \A x \in queue : x.id \in Nat
            /\ Cardinality(RowsOf(queue, r)) <= MaxPerDevice
        BY <2>7 DEF QueueInv, FiniteQueue, QueueWithinCap, RowsOK, QueueRow
      <4>5. Cardinality(RowsOf(kept, r)) < MaxPerDevice
        BY <2>7, <4>4, TrimMakesRoom
      <4> QED BY <4>2, <4>3, <4>5, LimitsAreInts
    <3> QED BY <3>1, <3>2
  <2>8. QueueWithinCap'
    BY <2>7 DEF QueueWithinCap, MaxPerDevice
  <2> QED BY <2>3, <2>4, <2>6, <2>8 DEF QueueInv
<1> QED BY <1>3, <1>4 DEF enqueue

-----------------------------------------------------------------------------
(* Theorems *)

\* Every step keeps the invariant.
LEMMA NextKeeps ==
    ASSUME QueueInv, [QueueNext]_queueVars
    PROVE  QueueInv'
<1>1. ASSUME NEW r \in Recipient, NEW m \in Msg, enqueue(r, m)
      PROVE  QueueInv'
  BY <1>1, EnqueueKeeps
<1>2. ASSUME NEW r \in Recipient, drain(r)
      PROVE  QueueInv'
  BY <1>2, RemovalKeeps DEF drain
<1>3. ASSUME NEW r \in Recipient, NEW m \in Msg, ackQueued(r, m)
      PROVE  QueueInv'
  BY <1>3, RemovalKeeps DEF ackQueued
<1>4. ASSUME purgeExpired
      PROVE  QueueInv'
  BY <1>4, RemovalKeeps DEF purgeExpired
<1>5. ASSUME Tick
      PROVE  QueueInv'
  <2>1. RowsOK'
    BY <1>5 DEF Tick, QueueInv, RowsOK, QueueRow
  <2> QED BY <1>5, <2>1
      DEF Tick, QueueInv, FiniteQueue, NoDuplicateRows, QueueWithinCap, RowsOf
<1>6. ASSUME UNCHANGED queueVars
      PROVE  QueueInv'
  BY <1>6, RemovalKeeps DEF queueVars
<1> QED BY <1>1, <1>2, <1>3, <1>4, <1>5, <1>6 DEF QueueNext

\* The empty table satisfies it.
LEMMA InitKeeps == QueueInit => QueueInv
<1> SUFFICES ASSUME QueueInit PROVE QueueInv
  OBVIOUS
<1>1. RowsOK /\ NoDuplicateRows
  BY DEF QueueInit, RowsOK, NoDuplicateRows
<1>2. FiniteQueue
  BY FS_EmptySet DEF QueueInit, FiniteQueue
<1>3. ASSUME NEW r \in Recipient PROVE Cardinality(RowsOf(queue, r)) = 0
  <2>1. RowsOf(queue, r) = {}
    BY DEF QueueInit, RowsOf
  <2> QED BY <2>1, FS_EmptySet
<1>4. QueueWithinCap
  BY <1>3, LimitsAreInts DEF QueueWithinCap
<1> QED BY <1>1, <1>2, <1>4 DEF QueueInv

\* The table never holds more than the cap for a recipient, and never the same
\* message or the same id twice, whatever the limits and however many messages
\* are queued, acked and purged.
THEOREM QueueBounded == QueueSpec => [](QueueWithinCap /\ NoDuplicateRows)
<1>1. QueueInit => QueueInv
  BY InitKeeps
<1>2. QueueInv /\ [QueueNext]_queueVars => QueueInv'
  BY NextKeeps
<1>3. QueueInv => QueueWithinCap /\ NoDuplicateRows
  BY DEF QueueInv
<1> QED BY <1>1, <1>2, <1>3, PTL DEF QueueSpec

\* A row the trim takes is older than every row of the recipient that stays.
LEMMA TrimTakesOldest ==
    ASSUME QueueInv, NEW r \in Recipient, NEW x \in Trimmed(queue, r),
           NEW y \in RowsOf(queue, r), y \notin Trimmed(queue, r)
    PROVE  x.id < y.id
<1> DEFINE rows == RowsOf(queue, r)
           Older(z) == {w \in rows : w.id < z.id}
           k == Cardinality(rows) - MaxPerDevice + 1
<1>1. Trimmed(queue, r) = Oldest(rows, k)
  BY DEF Trimmed
<1>2. x \in rows /\ x.id \in Nat /\ y.id \in Nat
  BY TrimTakesOwnRows DEF RowsOf, QueueInv, RowsOK, QueueRow
<1>3. IsFiniteSet(rows) /\ k \in Int
  BY RowsOfFinite, LimitsAreInts DEF QueueInv, FiniteQueue
<1>4. \A z \in rows : IsFiniteSet(Older(z)) /\ Cardinality(Older(z)) \in Nat
  BY <1>3, FS_Subset, FS_CardinalityType
<1>5. Cardinality(Older(x)) < k /\ ~(Cardinality(Older(y)) < k)
  BY <1>1, <1>2 DEF Oldest
<1>6. ~(Older(y) \subseteq Older(x))
  <2>1. SUFFICES ASSUME Older(y) \subseteq Older(x) PROVE FALSE
    OBVIOUS
  <2>2. Cardinality(Older(y)) <= Cardinality(Older(x))
    BY <1>2, <1>4, <2>1, FS_Subset
  <2>3. Cardinality(Older(x)) \in Nat /\ Cardinality(Older(y)) \in Nat
    BY <1>2, <1>4
  <2> HIDE DEF Older, k
  <2> QED BY <1>3, <1>5, <2>2, <2>3
<1>7. PICK w \in rows : w.id < y.id /\ ~(w.id < x.id)
  BY <1>6
<1>8. w.id \in Nat
  BY DEF RowsOf, QueueInv, RowsOK, QueueRow
<1> QED BY <1>2, <1>7, <1>8

\* Rows leave the table by an ack, by age, or oldest first under the cap.
THEOREM OldestEvicted == QueueSpec => EvictionIsOldestFirst
<1> DEFINE Fair(x) ==
        \/ \E r \in Recipient, m \in Msg :
             ackQueued(r, m) /\ x.recipient = r /\ x.msg = m
        \/ Expired(x)
        \/ \A y \in RowsOf(queue', x.recipient) : x.id < y.id
<1>1. ASSUME QueueInv, [QueueNext]_queueVars, NEW x \in queue \ queue'
      PROVE  Fair(x)
  <2>1. ASSUME NEW r \in Recipient, NEW m \in Msg, enqueue(r, m)
        PROVE  Fair(x)
    <3> DEFINE kept == queue \ Trimmed(queue, r)
    <3>1. queue' \subseteq kept \cup {NewRow(r, m)} /\ kept \subseteq queue'
      BY <2>1 DEF enqueue
    <3>2. x \in Trimmed(queue, r) /\ x.recipient = r /\ x.id < nextId
      BY <1>1, <3>1, TrimTakesOwnRows DEF RowsOf, QueueInv, RowsOK
    <3>3. NewRow(r, m).id = nextId
      BY DEF NewRow
    <3>4. ASSUME NEW y \in RowsOf(queue', r) PROVE x.id < y.id
      <4>1. CASE y \in kept
        <5>1. y \in RowsOf(queue, r) /\ y \notin Trimmed(queue, r)
          BY <4>1 DEF RowsOf
        <5> QED BY <1>1, <3>2, <5>1, TrimTakesOldest
      <4>2. CASE y = NewRow(r, m)
        BY <3>2, <3>3, <4>2
      <4> QED BY <3>1, <4>1, <4>2 DEF RowsOf
    <3> QED BY <3>2, <3>4
  <2>2. ASSUME NEW r \in Recipient, NEW m \in Msg, ackQueued(r, m)
        PROVE  Fair(x)
    <3>1. x.recipient = r /\ x.msg = m
      BY <1>1, <2>2 DEF ackQueued
    <3> QED BY <2>2, <3>1
  <2>3. ASSUME purgeExpired
        PROVE  Fair(x)
    BY <1>1, <2>3 DEF purgeExpired
  <2>4. ASSUME queue' = queue
        PROVE  Fair(x)
    BY <1>1, <2>4
  <2> QED BY <1>1, <2>1, <2>2, <2>3, <2>4 DEF QueueNext, drain, Tick, queueVars
<1>2. QueueInv /\ [QueueNext]_queueVars =>
        [\A x \in queue \ queue' :
         \/ \E r \in Recipient, m \in Msg :
              ackQueued(r, m) /\ x.recipient = r /\ x.msg = m
         \/ Expired(x)
         \/ \A y \in RowsOf(queue', x.recipient) : x.id < y.id]_queueVars
  BY <1>1
<1>3. QueueInit => QueueInv
  BY InitKeeps
<1>4. QueueInv /\ [QueueNext]_queueVars => QueueInv'
  BY NextKeeps
<1> QED BY <1>2, <1>3, <1>4, PTL DEF QueueSpec, EvictionIsOldestFirst

-----------------------------------------------------------------------------
(* The order of a drain *)

\* Rows are as old as their ids say.
AgeFollowsId == \A x, y \in queue : x.id < y.id => x.enqueuedAt <= y.enqueuedAt

Ordered(s, n) == \A i, j \in 1 .. n : i < j => s[i].id < s[j].id

\* ORDER BY id has an answer: finitely many rows with ids of their own can be
\* listed in the order of their ids.  A smallest set for which they could not
\* has a row with the smallest id, which goes in front of a list of the others.
LEMMA RowsCanBeOrdered ==
    ASSUME NEW rows, IsFiniteSet(rows), \A x \in rows : x.id \in Nat,
           \A x, y \in rows : x.id = y.id => x = y
    PROVE  \E s \in [1 .. Cardinality(rows) -> rows] : Ordered(s, Cardinality(rows))
<1> DEFINE Listed(q) == \E s \in [1 .. Cardinality(q) -> q] : Ordered(s, Cardinality(q))
           bad == {Cardinality(q) : q \in {p \in SUBSET rows : ~ Listed(p)}}
<1>1. \A q \in SUBSET rows : IsFiniteSet(q) /\ Cardinality(q) \in Nat
  BY FS_Subset, FS_CardinalityType
<1>2. bad \subseteq Nat
  BY <1>1
<1>3. ASSUME bad # {} PROVE FALSE
  <2>1. PICK n \in bad : \A k \in bad : ~(<<k, n>> \in OpToRel(<, Nat))
    BY <1>2, <1>3, NatLessThanWellFounded, WFMin
  <2>2. \A k \in bad : ~(k < n)
    BY <1>2, <2>1 DEF OpToRel
  <2>3. PICK q \in SUBSET rows : ~ Listed(q) /\ n = Cardinality(q)
    OBVIOUS
  <2>4. IsFiniteSet(q) /\ n \in Nat
    BY <1>1, <2>3
  <2>5. CASE q = {}
    <3>1. n = 0
      BY <2>3, <2>5, FS_EmptySet
    <3>2. [i \in 1 .. 0 |-> i] \in [1 .. 0 -> q] /\ Ordered([i \in 1 .. 0 |-> i], 0)
      BY DEF Ordered
    <3> QED BY <2>3, <3>1, <3>2
  <2>6. CASE q # {}
    <3>1. PICK m \in q : \A y \in q : ~(y.id < m.id)
      BY <2>6, MinRow
    <3> DEFINE p == q \ {m}
    <3>2. IsFiniteSet(p) /\ Cardinality(p) = n - 1 /\ n - 1 \in Nat
      <4>1. IsFiniteSet(p) /\ Cardinality(p) = n - 1
        BY <2>3, <2>4, <3>1, FS_RemoveElement
      <4>2. Cardinality(p) \in Nat
        BY <4>1, FS_CardinalityType
      <4> QED BY <4>1, <4>2
    <3>3. Listed(p)
      <4>1. p \in SUBSET rows
        OBVIOUS
      <4>2. ASSUME ~ Listed(p) PROVE FALSE
        <5>1. n - 1 \in bad
          BY <3>2, <4>1, <4>2
        <5> QED BY <2>2, <2>4, <5>1
      <4> QED BY <4>2
    <3>4. PICK s \in [1 .. (n - 1) -> p] : Ordered(s, n - 1)
      BY <3>2, <3>3
    <3> DEFINE r == [i \in 1 .. n |-> IF i = 1 THEN m ELSE s[i - 1]]
    <3>5. ASSUME NEW i \in 1 .. n, i # 1 PROVE i - 1 \in 1 .. (n - 1) /\ r[i] = s[i - 1] /\ s[i - 1] \in p
      <4>1. i - 1 \in 1 .. (n - 1)
        BY <2>4, <3>5
      <4> QED BY <3>4, <3>5, <4>1
    <3>6. r \in [1 .. n -> q]
      BY <3>1, <3>5
    <3>7. ASSUME NEW i \in 1 .. n, NEW j \in 1 .. n, i < j PROVE r[i].id < r[j].id
      <4>1. j # 1 /\ r[j] = s[j - 1] /\ s[j - 1] \in p /\ j - 1 \in 1 .. (n - 1)
        BY <2>4, <3>5, <3>7
      <4>2. CASE i = 1
        <5>1. r[i] = m
          BY <4>2
        <5>2. s[j - 1].id \in Nat /\ m.id \in Nat /\ s[j - 1].id # m.id /\ ~(s[j - 1].id < m.id)
          BY <2>3, <3>1, <4>1
        <5> QED BY <4>1, <5>1, <5>2
      <4>3. CASE i # 1
        <5>1. r[i] = s[i - 1] /\ i - 1 \in 1 .. (n - 1)
          BY <3>5, <4>3
        <5>2. i - 1 < j - 1
          BY <2>4, <3>7
        <5> HIDE DEF r
        <5> QED BY <3>4, <4>1, <5>1, <5>2 DEF Ordered
      <4> QED BY <4>2, <4>3
    <3>8. Ordered(r, n)
      BY <3>7 DEF Ordered
    <3> HIDE DEF r
    <3> QED BY <2>3, <3>6, <3>8
  <2> QED BY <2>5, <2>6
<1>4. Listed(rows)
  BY <1>3
<1> QED BY <1>4

\* A drain is a sequence of rows in the order of their ids, and so of their age.
LEMMA DrainIsOrdered ==
    ASSUME QueueInv, AgeFollowsId, NEW r \in Recipient, drain(r)
    PROVE  drained' \in Seq(QueueRow) /\ DrainedOldestFirst'
<1> DEFINE rows == RowsOf(queue, r)
           n == Cardinality(rows)
<1>1. /\ rows \subseteq queue /\ queue \subseteq QueueRow /\ IsFiniteSet(rows) /\ n \in Nat
      /\ \A x \in rows : x.id \in Nat
      /\ \A x, y \in rows : x.id = y.id => x = y
  BY RowsOfFinite DEF QueueInv, RowsOK, FiniteQueue, NoDuplicateRows, RowsOf, QueueRow
<1> HIDE DEF rows
<1>2. \E s \in [1 .. n -> rows] : \A i, j \in 1 .. n : i < j => s[i].id < s[j].id
  BY <1>1, RowsCanBeOrdered DEF Ordered
<1>3. drained' = CHOOSE s \in [1 .. n -> rows] : \A i, j \in 1 .. n : i < j => s[i].id < s[j].id
  BY DEF drain, InIdOrder, rows
<1> HIDE DEF n
<1>4. drained' \in [1 .. n -> rows] /\ \A i, j \in 1 .. n : i < j => drained'[i].id < drained'[j].id
  BY <1>2, <1>3
<1>5. drained' \in Seq(QueueRow) /\ Len(drained') = n
  BY <1>1, <1>4
<1>6. \A i \in 1 .. n : drained'[i] \in queue
  BY <1>1, <1>4
<1>7. \A i, j \in 1 .. n : i < j => drained'[i].enqueuedAt <= drained'[j].enqueuedAt
  BY <1>4, <1>6 DEF AgeFollowsId
<1> QED BY <1>4, <1>5, <1>7 DEF DrainedOldestFirst

\* A new row has the largest id and the latest time.
LEMMA AgeKept ==
    ASSUME QueueInv, AgeFollowsId, [QueueNext]_queueVars
    PROVE  AgeFollowsId'
<1>1. ASSUME NEW r \in Recipient, NEW m \in Msg, enqueue(r, m) PROVE AgeFollowsId'
  <2>1. queue' \subseteq queue \cup {NewRow(r, m)}
    BY <1>1 DEF enqueue
  <2>2. NewRow(r, m).id = nextId /\ NewRow(r, m).enqueuedAt = now /\ nextId \in Nat /\ now \in Nat
    BY DEF NewRow, QueueInv, RowsOK
  <2>3. \A x \in queue : x.id \in Nat /\ x.id < nextId /\ x.enqueuedAt <= now
    BY DEF QueueInv, RowsOK, QueueRow
  <2> QED BY <2>1, <2>2, <2>3 DEF AgeFollowsId
<1>2. ASSUME queue' \subseteq queue PROVE AgeFollowsId'
  BY <1>2 DEF AgeFollowsId
<1>3. \/ \E r \in Recipient, m \in Msg : enqueue(r, m)
      \/ queue' \subseteq queue
  BY DEF QueueNext, drain, ackQueued, purgeExpired, Tick, queueVars
<1> QED BY <1>1, <1>2, <1>3

\* The table is well formed whatever is queued, acked, trimmed and purged, and
\* a drain lists what waits in the order it was queued: drainQueue's ORDER BY
\* id is the order of time.
THEOREM QueueSound == QueueSpec => []QueueIsSound
<1> DEFINE Inv == QueueInv /\ AgeFollowsId /\ drained \in Seq(QueueRow) /\ DrainedOldestFirst
<1>1. QueueInit => Inv
  <2> SUFFICES ASSUME QueueInit PROVE AgeFollowsId /\ drained \in Seq(QueueRow) /\ DrainedOldestFirst
    BY InitKeeps
  <2>1. drained = <<>> /\ queue = {}
    BY DEF QueueInit
  <2>2. \A i \in 1 .. Len(<<>>) : FALSE
    OBVIOUS
  <2> QED BY <2>1, <2>2 DEF AgeFollowsId, DrainedOldestFirst
<1>2. Inv /\ [QueueNext]_queueVars => Inv'
  <2> SUFFICES ASSUME Inv, [QueueNext]_queueVars PROVE (drained \in Seq(QueueRow) /\ DrainedOldestFirst)'
    BY NextKeeps, AgeKept
  <2>1. ASSUME NEW r \in Recipient, drain(r) PROVE (drained \in Seq(QueueRow) /\ DrainedOldestFirst)'
    BY <2>1, DrainIsOrdered
  <2>2. CASE UNCHANGED drained
    BY <2>2 DEF DrainedOldestFirst
  <2>3. (\E r \in Recipient : drain(r)) \/ UNCHANGED drained
    BY DEF QueueNext, enqueue, ackQueued, purgeExpired, Tick, queueVars
  <2> QED BY <2>1, <2>2, <2>3
<1>3. Inv => QueueIsSound
  BY DEF QueueInv, QueueIsSound, QueueTypeOK
<1> QED BY <1>1, <1>2, <1>3, PTL DEF QueueSpec

-----------------------------------------------------------------------------
(* The registry                                                            *)

USE DEF Handshake, AdminSteps, Serving

-----------------------------------------------------------------------------
(* Type correctness *)

\* What the model writes into job and entry is well formed.
LEMMA EmptyRecords == NoEntry \in Entry /\ NoJob \in Job
  BY DEF NoEntry, NoJob, Entry, Job

\* Assigning one field of a job leaves the others.
LEMMA JobUpdates ==
    ASSUME NEW j \in Job
    PROVE  /\ \A e \in Entry : /\ [j EXCEPT !.updated = e] \in Job
                               /\ [j EXCEPT !.updated = e].target = j.target
                               /\ [j EXCEPT !.updated = e].tc = j.tc
           /\ \A k \in Conn \cup {None} : /\ [j EXCEPT !.tc = k] \in Job
                                          /\ [j EXCEPT !.tc = k].target = j.target
                                          /\ [j EXCEPT !.tc = k].tc = k
  BY DEF Job

\* The initial state is well typed.
LEMMA InitTyped == Init => TypeOK
  BY RegistryAssumption, EmptyRecords
  DEF Init, TypeOK, TablesOK, ConnsOK, JobsOK, NoJob

\* Every step of every goroutine, of the network and of the process keeps it.
LEMMA NextTyped == TypeOK /\ [Next]_vars => TypeOK'
<1> SUFFICES ASSUME TypeOK PROVE [Next]_vars => TypeOK'
  OBVIOUS
<1> USE RegistryAssumption, EmptyRecords
    DEF TypeOK, TablesOK, ConnsOK, JobsOK, Goto, durable
<1>1. ASSUME NEW c \in Conn, NEW d \in Device, NEW l \in {"resume", "enroll"}, Connect(c, d, l) PROVE TypeOK'
  BY <1>1 DEF Connect
<1>2. ASSUME NEW c \in Conn, AbortHandshake(c) PROVE TypeOK'
  BY <1>2 DEF AbortHandshake, Reset, NoJob
<1>3. ASSUME NEW c \in Conn, ResumeRead(c) PROVE TypeOK'
  <2>1. Row(deviceID[c]) \in Entry
    BY <1>3 DEF ResumeRead, Row, Entry
  <2> QED BY <1>3, <2>1 DEF ResumeRead
<1>4. ASSUME NEW c \in Conn, EnrollCount(c) PROVE TypeOK'
  BY <1>4 DEF EnrollCount
<1>5. ASSUME NEW c \in Conn, EnrollUpsert(c) PROVE TypeOK'
  <2>1. /\ Computed(c) \in Entry /\ Computed(c).state \in {"pending", "active"}
        /\ Computed(c).admin \in BOOLEAN
    BY DEF Computed, Entry
  <2>2. TablesOK'
    BY SMTT(40), <1>5, <2>1 DEF EnrollUpsert
  <2>3. ConnsOK' /\ JobsOK'
    BY <1>5, <2>1 DEF EnrollUpsert
  <2> QED BY <2>2, <2>3
<1>6. ASSUME NEW c \in Conn, EnrollAddAdmin(c) PROVE TypeOK'
  BY <1>6 DEF EnrollAddAdmin
<1>7. ASSUME NEW c \in Conn, Admit(c) PROVE TypeOK'
  <2>1. (deviceID[c] \in admins \/ entry[c].admin) \in BOOLEAN
    OBVIOUS
  <2>2. CASE entry[c].state = "active"
    <3>1. admin' \in [Conn -> BOOLEAN]
      BY <1>7, <2>1, <2>2 DEF Admit, MarkReady
    <3>2. ready' \in [Conn -> BOOLEAN]
      BY <1>7, <2>2 DEF Admit, MarkReady
    <3>3. entry' \in [Conn -> Entry]
      BY <1>7, <2>2 DEF Admit, MarkReady
    <3> QED BY <1>7, <3>1, <3>2, <3>3 DEF Admit
  <2>3. CASE entry[c].state # "active"
    BY <1>7, <2>3 DEF Admit
  <2> QED BY <2>2, <2>3
<1>8. ASSUME NEW c \in Conn, AddConn(c) PROVE TypeOK'
  BY <1>8 DEF AddConn
<1>9. ASSUME NEW c \in Conn, CheckReady(c) PROVE TypeOK'
  BY <1>9 DEF CheckReady
<1>10. ASSUME NEW c \in Conn, Greet(c) PROVE TypeOK'
  BY <1>10 DEF Greet
<1>11. ASSUME NEW c \in Conn, RemoveConn(c) PROVE TypeOK'
  BY <1>11 DEF RemoveConn
<1>12. ASSUME NEW c \in Conn, Drop(c) PROVE TypeOK'
  BY <1>12 DEF Drop
<1>13. ASSUME NEW c \in Conn, Recycle(c) PROVE TypeOK'
  BY <1>13 DEF Recycle, Reset, NoJob
<1>14. ASSUME NEW a \in Conn, NEW d \in Device, NEW action \in {"approve", "deny"}, AdminBegin(a, action, d) PROVE TypeOK'
  <2>1. [NoJob EXCEPT !.action = action, !.target = d] \in Job
    BY DEF NoJob, NoEntry, Entry, Job
  <2>2. JobsOK'
    BY <1>14, <2>1 DEF AdminBegin, NoJob
  <2>3. TablesOK' /\ ConnsOK'
    BY <1>14 DEF AdminBegin
  <2> QED BY <2>2, <2>3
<1>15. ASSUME NEW a \in Conn, AdminDecide(a) PROVE TypeOK'
  <2>1. job[a].target \in Device
    BY <1>15 DEF AdminDecide, Job
  <2>2. JobsOK'
    BY <1>15 DEF AdminDecide
  <2>3. TablesOK' /\ ConnsOK'
    BY <1>15, <2>1 DEF AdminDecide
  <2> QED BY <2>2, <2>3
<1>16. ASSUME NEW a \in Conn, AdminReload(a) PROVE TypeOK'
  <2>1. Row(job[a].target) \in Entry
    BY <1>16 DEF AdminReload, Row, Entry, Job
  <2>2. job'[a] = [job[a] EXCEPT !.updated = Row(job[a].target)]
    BY <1>16 DEF AdminReload
  <2>3. job'[a] \in Job /\ job'[a].target = job[a].target /\ job'[a].tc = job[a].tc
    BY <2>1, <2>2, JobUpdates
  <2>4. JobsOK'
    BY <1>16, <2>3 DEF AdminReload
  <2>5. TablesOK' /\ ConnsOK'
    BY <1>16 DEF AdminReload
  <2> QED BY <2>4, <2>5
<1>17. ASSUME NEW a \in Conn, AdminLookup(a) PROVE TypeOK'
  <2> DEFINE tc == conns[job[a].target]
  <2>1. tc \in Conn \cup {None}
    BY <1>17 DEF AdminLookup, Job
  <2>2. [job[a] EXCEPT !.tc = tc] \in Job
    BY <2>1, JobUpdates
  <2>3. TablesOK' /\ ConnsOK'
    BY <1>17 DEF AdminLookup, EndJob
  <2>4. CASE EndJob(a)
    BY <1>17, <2>3, <2>4 DEF AdminLookup, EndJob, NoJob
  <2>5. CASE tc # None /\ job' = [job EXCEPT ![a].tc = tc] /\ Goto(a, "mark")
    <3>1. job' \in [Conn -> Job]
      BY <2>2, <2>5
    <3>2. job'[a].tc # None /\ job'[a].target = job[a].target
      BY <2>1, <2>5, JobUpdates
    <3>3. JobsOK'
      BY <1>17, <2>5, <3>1, <3>2 DEF AdminLookup
    <3> QED BY <2>3, <3>3
  <2> QED BY <1>17, <2>4, <2>5 DEF AdminLookup
<1>18. ASSUME NEW a \in Conn, AdminMark(a) PROVE TypeOK'
  <2>1. job[a].tc \in Conn /\ job[a].updated \in Entry
    BY <1>18 DEF AdminMark, Job
  <2>2. (deviceID[job[a].tc] \in admins \/ job[a].updated.admin) \in BOOLEAN
    BY <2>1
  <2> QED BY <1>18, <2>1, <2>2 DEF AdminMark, MarkReady
<1>19. ASSUME NEW a \in Conn, AdminWelcome(a) PROVE TypeOK'
  BY <1>19 DEF AdminWelcome, EndJob, NoJob
<1>20. ASSUME NEW a \in Conn, DenyLookup(a) PROVE TypeOK'
  <2> DEFINE tc == conns[job[a].target]
  <2>1. tc \in Conn \cup {None}
    BY <1>20 DEF DenyLookup, Job
  <2>2. [job[a] EXCEPT !.tc = tc] \in Job
    BY <2>1, JobUpdates
  <2>3. TablesOK' /\ ConnsOK'
    BY <1>20 DEF DenyLookup, EndJob
  <2>4. CASE EndJob(a)
    BY <1>20, <2>3, <2>4 DEF DenyLookup, EndJob, NoJob
  <2>5. CASE tc # None /\ job' = [job EXCEPT ![a].tc = tc] /\ Goto(a, "close")
    <3>1. job' \in [Conn -> Job]
      BY <2>2, <2>5
    <3>2. job'[a].tc # None /\ job'[a].target = job[a].target
      BY <2>1, <2>5, JobUpdates
    <3>3. JobsOK'
      BY <1>20, <2>5, <3>1, <3>2 DEF DenyLookup
    <3> QED BY <2>3, <3>3
  <2> QED BY <1>20, <2>4, <2>5 DEF DenyLookup
<1>21. ASSUME NEW a \in Conn, DenyClose(a) PROVE TypeOK'
  BY <1>21 DEF DenyClose, EndJob, NoJob
<1>22. ASSUME Restart PROVE TypeOK'
  BY <1>22 DEF Restart, NoJob
<1>23. ASSUME UNCHANGED vars PROVE TypeOK'
  BY <1>23 DEF vars
<1> QED BY <1>1, <1>2, <1>3, <1>4, <1>5, <1>6, <1>7, <1>8, <1>9, <1>10, <1>11, <1>12, <1>13, <1>14, <1>15, <1>16, <1>17, <1>18, <1>19, <1>20, <1>21, <1>22, <1>23
     DEF Next, Step

\* Every state of the relay is well typed: at each label a goroutine has the
\* identity, the admin job and the connection that its next statement uses.
THEOREM TypeCorrect == Spec => []TypeOK
  BY InitTyped, NextTyped, PTL DEF Spec

-----------------------------------------------------------------------------
(* The registry *)

\* Logins, teardowns, promotions and closes keep the registry exact.
LEMMA NextExact == TypeOK /\ RegistryExact /\ [Next]_vars => RegistryExact'
<1> SUFFICES ASSUME TypeOK, RegistryExact PROVE [Next]_vars => RegistryExact'
  OBVIOUS
<1> USE RegistryAssumption DEF TypeOK, TablesOK, ConnsOK, RegistryExact, Goto
<1>1. ASSUME NEW c \in Conn, NEW d \in Device, NEW l \in {"resume", "enroll"}, Connect(c, d, l) PROVE RegistryExact'
  BY <1>1 DEF Connect
<1>2. ASSUME NEW c \in Conn, AbortHandshake(c) PROVE RegistryExact'
  BY <1>2 DEF AbortHandshake, Reset
<1>3. ASSUME NEW c \in Conn, ResumeRead(c) PROVE RegistryExact'
  BY <1>3 DEF ResumeRead
<1>4. ASSUME NEW c \in Conn, EnrollCount(c) PROVE RegistryExact'
  BY <1>4 DEF EnrollCount
<1>5. ASSUME NEW c \in Conn, EnrollUpsert(c) PROVE RegistryExact'
  BY <1>5 DEF EnrollUpsert
<1>6. ASSUME NEW c \in Conn, EnrollAddAdmin(c) PROVE RegistryExact'
  BY <1>6 DEF EnrollAddAdmin
<1>7. ASSUME NEW c \in Conn, Admit(c) PROVE RegistryExact'
  BY <1>7 DEF Admit, MarkReady
<1>8. ASSUME NEW c \in Conn, AddConn(c) PROVE RegistryExact'
  <2> DEFINE d == deviceID[c]
  <2>1. d \in Device /\ conns'[d] = c /\ conns[d] # c
    BY <1>8 DEF AddConn
  <2>2. ASSUME NEW k \in Conn, at'[k] \in Serving, open'[k]
        PROVE  conns'[deviceID'[k]] = k
    <3>1. CASE k = c
      BY <1>8, <2>1, <3>1 DEF AddConn
    <3>2. CASE k # c
      <4>1. open'[k] = (open[k] /\ k # conns[d])
        BY <1>8 DEF AddConn
      <4>2. open[k] /\ k # conns[d]
        BY <2>2, <4>1
      <4>3. at[k] \in Serving /\ open[k] /\ k # conns[d] /\ deviceID'[k] = deviceID[k]
        BY <1>8, <2>2, <3>2, <4>2 DEF AddConn
      <4>4. conns[deviceID[k]] = k /\ deviceID[k] \in Device \ {d}
        BY <4>3
      <4> QED BY <1>8, <4>3, <4>4 DEF AddConn
    <3> QED BY <3>1, <3>2
  <2>3. ASSUME NEW e \in Device, conns'[e] # None
        PROVE  deviceID'[conns'[e]] = e /\ at'[conns'[e]] \in Serving
    BY <1>8, <2>1, <2>3 DEF AddConn
  <2> QED BY <2>2, <2>3
<1>9. ASSUME NEW c \in Conn, CheckReady(c) PROVE RegistryExact'
  BY <1>9 DEF CheckReady
<1>10. ASSUME NEW c \in Conn, Greet(c) PROVE RegistryExact'
  BY <1>10 DEF Greet
<1>11. ASSUME NEW c \in Conn, RemoveConn(c) PROVE RegistryExact'
  BY <1>11 DEF RemoveConn
<1>12. ASSUME NEW c \in Conn, Drop(c) PROVE RegistryExact'
  BY <1>12 DEF Drop
<1>13. ASSUME NEW c \in Conn, Recycle(c) PROVE RegistryExact'
  BY <1>13 DEF Recycle, Reset
<1>14. ASSUME NEW a \in Conn, NEW d \in Device, NEW action \in {"approve", "deny"}, AdminBegin(a, action, d) PROVE RegistryExact'
  BY <1>14 DEF AdminBegin
<1>15. ASSUME NEW a \in Conn, AdminDecide(a) PROVE RegistryExact'
  BY <1>15 DEF AdminDecide
<1>16. ASSUME NEW a \in Conn, AdminReload(a) PROVE RegistryExact'
  BY <1>16 DEF AdminReload
<1>17. ASSUME NEW a \in Conn, AdminLookup(a) PROVE RegistryExact'
  BY <1>17 DEF AdminLookup, EndJob
<1>18. ASSUME NEW a \in Conn, AdminMark(a) PROVE RegistryExact'
  BY <1>18 DEF AdminMark, MarkReady
<1>19. ASSUME NEW a \in Conn, AdminWelcome(a) PROVE RegistryExact'
  BY <1>19 DEF AdminWelcome, EndJob
<1>20. ASSUME NEW a \in Conn, DenyLookup(a) PROVE RegistryExact'
  BY <1>20 DEF DenyLookup, EndJob
<1>21. ASSUME NEW a \in Conn, DenyClose(a) PROVE RegistryExact'
  BY <1>21 DEF DenyClose, EndJob
<1>22. ASSUME Restart PROVE RegistryExact'
  BY <1>22 DEF Restart
<1>23. ASSUME UNCHANGED vars PROVE RegistryExact'
  BY <1>23 DEF vars
<1> QED BY <1>1, <1>2, <1>3, <1>4, <1>5, <1>6, <1>7, <1>8, <1>9, <1>10, <1>11, <1>12, <1>13, <1>14, <1>15, <1>16, <1>17, <1>18, <1>19, <1>20, <1>21, <1>22, <1>23
     DEF Next, Step

\* An exact registry has one open connection per device.
LEMMA ExactIsSingle == TypeOK /\ RegistryExact => OneLiveConnection
  BY DEF TypeOK, ConnsOK, RegistryExact, OneLiveConnection

\* However many clients log in as the same device, and whenever, at most one
\* of its connections is open, and it is the one messages are routed to.
THEOREM SingleConnection == Spec => [](OneLiveConnection /\ RegistryExact)
<1>1. Init => TypeOK /\ RegistryExact
  BY InitTyped DEF Init, RegistryExact
<1>2. TypeOK /\ RegistryExact /\ [Next]_vars => (TypeOK /\ RegistryExact)'
  BY NextTyped, NextExact
<1> QED BY <1>1, <1>2, ExactIsSingle, PTL DEF Spec

-----------------------------------------------------------------------------
(* The first admin *)

\* No race with the first enrolment, no decision and no crash loses it.
LEMMA NextBootstrapped == TypeOK /\ Bootstrapped /\ [Next]_vars => Bootstrapped'
<1> SUFFICES ASSUME TypeOK, Bootstrapped PROVE [Next]_vars => Bootstrapped'
  OBVIOUS
<1> USE RegistryAssumption DEF TypeOK, TablesOK, ConnsOK, JobsOK, Bootstrapped, NoLockout, Goto, durable
<1>1. ASSUME NEW c \in Conn, NEW d \in Device, NEW l \in {"resume", "enroll"}, Connect(c, d, l) PROVE Bootstrapped'
  BY <1>1 DEF Connect
<1>2. ASSUME NEW c \in Conn, AbortHandshake(c) PROVE Bootstrapped'
  BY <1>2 DEF AbortHandshake, Reset
<1>3. ASSUME NEW c \in Conn, ResumeRead(c) PROVE Bootstrapped'
  BY <1>3 DEF ResumeRead
<1>4. ASSUME NEW c \in Conn, EnrollCount(c) PROVE Bootstrapped'
  BY <1>4 DEF EnrollCount
<1>5. ASSUME NEW c \in Conn, EnrollUpsert(c) PROVE Bootstrapped'
  <2> DEFINE d == deviceID[c]
  <2>1. d \in Device
    BY <1>5 DEF EnrollUpsert
  <2>2. /\ \A e \in Device \ {d} : state'[e] = state[e] /\ isAdmin'[e] = isAdmin[e]
        /\ state[d] # "absent" => state'[d] = state[d] /\ isAdmin'[d] = isAdmin[d]
        /\ state[d] = "absent" => /\ state'[d] = Computed(c).state
                                 /\ isAdmin'[d] = Computed(c).admin
    BY <1>5, <2>1 DEF EnrollUpsert
  <2>3. /\ Computed(c).admin = first[c]
        /\ first[c] => Computed(c).state = "active"
        /\ Computed(c).state # "absent"
    BY DEF Computed
  <2>4. state'[d] # "absent"
    BY <2>1, <2>2, <2>3
  <2>5. NoLockout'
    <3>1. CASE \E e \in Device : state[e] # "absent"
      BY <2>1, <2>2, <3>1
    <3>2. CASE \A e \in Device : state[e] = "absent"
      <4>1. first[c]
        BY <1>5, <3>2 DEF EnrollUpsert
      <4> QED BY ZenonT(60), <2>1, <2>2, <2>3, <3>2, <4>1
    <3> QED BY <3>1, <3>2
  <2>6. \A k \in Conn : at'[k] = "counted" /\ ~first'[k]
            => \E e \in Device : state'[e] # "absent"
    BY <2>1, <2>4
  <2>7. \A e \in Device : isAdmin'[e] => state'[e] = "active"
    BY <2>1, <2>2, <2>3
  <2>8. ASSUME NEW a \in Conn, at'[a] = "decide"
        PROVE  state'[job'[a].target] # "absent" /\ ~isAdmin'[job'[a].target]
    <3>1. at[a] = "decide" /\ job'[a] = job[a] /\ job[a].target \in Device
      BY <1>5, <2>8 DEF EnrollUpsert, Job
    <3> QED BY <2>2, <3>1
  <2> QED BY <2>5, <2>6, <2>7, <2>8
<1>6. ASSUME NEW c \in Conn, EnrollAddAdmin(c) PROVE Bootstrapped'
  BY <1>6 DEF EnrollAddAdmin
<1>7. ASSUME NEW c \in Conn, Admit(c) PROVE Bootstrapped'
  BY <1>7 DEF Admit, MarkReady
<1>8. ASSUME NEW c \in Conn, AddConn(c) PROVE Bootstrapped'
  BY <1>8 DEF AddConn
<1>9. ASSUME NEW c \in Conn, CheckReady(c) PROVE Bootstrapped'
  BY <1>9 DEF CheckReady
<1>10. ASSUME NEW c \in Conn, Greet(c) PROVE Bootstrapped'
  BY <1>10 DEF Greet
<1>11. ASSUME NEW c \in Conn, RemoveConn(c) PROVE Bootstrapped'
  BY <1>11 DEF RemoveConn
<1>12. ASSUME NEW c \in Conn, Drop(c) PROVE Bootstrapped'
  BY <1>12 DEF Drop
<1>13. ASSUME NEW c \in Conn, Recycle(c) PROVE Bootstrapped'
  BY <1>13 DEF Recycle, Reset
<1>14. ASSUME NEW a \in Conn, NEW d \in Device, NEW action \in {"approve", "deny"}, AdminBegin(a, action, d) PROVE Bootstrapped'
  BY <1>14 DEF AdminBegin
<1>15. ASSUME NEW a \in Conn, AdminDecide(a) PROVE Bootstrapped'
  <2> DEFINE d == job[a].target
  <2>1. d \in Device /\ ~isAdmin[d]
    BY <1>15 DEF AdminDecide, Job
  <2>2. /\ \A e \in Device \ {d} : state'[e] = state[e]
        /\ state'[d] # "absent" /\ isAdmin' = isAdmin
    BY <1>15, <2>1 DEF AdminDecide
  <2>3. NoLockout'
    BY <1>15, <2>1, <2>2 DEF AdminDecide
  <2>4. \A k \in Conn : at'[k] = "counted" /\ ~first'[k]
            => \E e \in Device : state'[e] # "absent"
    BY <2>1, <2>2
  <2>5. \A e \in Device : isAdmin'[e] => state'[e] = "active"
    BY <2>1, <2>2
  <2>6. ASSUME NEW k \in Conn, at'[k] = "decide"
        PROVE  state'[job'[k].target] # "absent" /\ ~isAdmin'[job'[k].target]
    <3>1. at[k] = "decide" /\ job'[k] = job[k] /\ job[k].target \in Device
      BY <1>15, <2>6 DEF AdminDecide, Job
    <3> QED BY <2>2, <3>1
  <2> QED BY <2>3, <2>4, <2>5, <2>6
<1>16. ASSUME NEW a \in Conn, AdminReload(a) PROVE Bootstrapped'
  BY <1>16 DEF AdminReload
<1>17. ASSUME NEW a \in Conn, AdminLookup(a) PROVE Bootstrapped'
  BY <1>17 DEF AdminLookup, EndJob
<1>18. ASSUME NEW a \in Conn, AdminMark(a) PROVE Bootstrapped'
  BY <1>18 DEF AdminMark, MarkReady
<1>19. ASSUME NEW a \in Conn, AdminWelcome(a) PROVE Bootstrapped'
  BY <1>19 DEF AdminWelcome, EndJob
<1>20. ASSUME NEW a \in Conn, DenyLookup(a) PROVE Bootstrapped'
  BY <1>20 DEF DenyLookup, EndJob
<1>21. ASSUME NEW a \in Conn, DenyClose(a) PROVE Bootstrapped'
  BY <1>21 DEF DenyClose, EndJob
<1>22. ASSUME Restart PROVE Bootstrapped'
  BY <1>22 DEF Restart
<1>23. ASSUME UNCHANGED vars PROVE Bootstrapped'
  BY <1>23 DEF vars
<1> QED BY <1>1, <1>2, <1>3, <1>4, <1>5, <1>6, <1>7, <1>8, <1>9, <1>10, <1>11, <1>12, <1>13, <1>14, <1>15, <1>16, <1>17, <1>18, <1>19, <1>20, <1>21, <1>22, <1>23
     DEF Next, Step

\* Once a device is enrolled the household always has an active admin, whatever
\* enrolments, decisions and restarts follow.
THEOREM NeverLockedOut == Spec => []NoLockout
<1>1. Init => TypeOK /\ Bootstrapped
  BY InitTyped DEF Init, Bootstrapped, NoLockout
<1>2. TypeOK /\ Bootstrapped /\ [Next]_vars => (TypeOK /\ Bootstrapped)'
  BY NextTyped, NextBootstrapped
<1>3. Bootstrapped => NoLockout
  BY DEF Bootstrapped
<1> QED BY <1>1, <1>2, <1>3, PTL DEF Spec

-----------------------------------------------------------------------------
(* Admin rights *)

\* Rows are added and never taken back, the admin list only grows, and an admin
\* row stays one.
LEMMA RecordsGrow ==
    TypeOK /\ Bootstrapped /\ [Next]_vars
      => /\ admins \subseteq admins'
         /\ \A d \in Device : isAdmin[d] => isAdmin'[d]
<1> SUFFICES ASSUME TypeOK, Bootstrapped, [Next]_vars
             PROVE  /\ admins \subseteq admins'
                    /\ \A d \in Device : isAdmin[d] => isAdmin'[d]
  OBVIOUS
<1> USE DEF TypeOK, TablesOK, ConnsOK, Bootstrapped
<1>1. ASSUME NEW c \in Conn, EnrollUpsert(c) PROVE \A d \in Device : isAdmin[d] => isAdmin'[d]
  BY <1>1 DEF EnrollUpsert
<1>2. ASSUME NEW c \in Conn, EnrollUpsert(c) PROVE admins' = admins
  BY <1>2 DEF EnrollUpsert
<1>3. ASSUME NEW c \in Conn, EnrollAddAdmin(c) PROVE admins \subseteq admins' /\ isAdmin' = isAdmin
  BY <1>3 DEF EnrollAddAdmin
<1>4. \/ UNCHANGED <<isAdmin, admins>>
      \/ \E c \in Conn : EnrollUpsert(c) \/ EnrollAddAdmin(c)
  BY DEF Next, Step, vars, durable, Connect, AbortHandshake, ResumeRead, EnrollCount,
         Admit, AddConn, CheckReady, Greet, RemoveConn, Recycle, Drop, AdminBegin, AdminDecide,
         AdminReload, AdminLookup, AdminMark, AdminWelcome, DenyLookup, DenyClose, Restart
<1> QED BY <1>1, <1>2, <1>3, <1>4

\* Wherever an admin flag waits to be copied it is recorded already, although an
\* enrolling goroutine writes table, list and flag in three steps.
LEMMA NextRecorded ==
    TypeOK /\ RegistryExact /\ Bootstrapped /\ AdminsRecorded /\ [Next]_vars => AdminsRecorded'
<1> SUFFICES ASSUME TypeOK, RegistryExact, Bootstrapped, AdminsRecorded, [Next]_vars
             PROVE  AdminsRecorded'
  OBVIOUS
<1>0. /\ admins \subseteq admins'
      /\ \A d \in Device : isAdmin[d] => isAdmin'[d]
  BY RecordsGrow
<1> USE RegistryAssumption, <1>0
    DEF TypeOK, TablesOK, ConnsOK, JobsOK, RegistryExact, AdminsRecorded, AdminIsDurable, Goto, durable
<1>1. ASSUME NEW c \in Conn, NEW d \in Device, NEW l \in {"resume", "enroll"}, Connect(c, d, l) PROVE AdminsRecorded'
  BY <1>1 DEF Connect
<1>2. ASSUME NEW c \in Conn, AbortHandshake(c) PROVE AdminsRecorded'
  BY <1>2 DEF AbortHandshake, Reset, NoJob
<1>3. ASSUME NEW c \in Conn, ResumeRead(c) PROVE AdminsRecorded'
  BY <1>3 DEF ResumeRead, Row
<1>4. ASSUME NEW c \in Conn, EnrollCount(c) PROVE AdminsRecorded'
  BY <1>4 DEF EnrollCount
<1>5. ASSUME NEW c \in Conn, EnrollUpsert(c) PROVE AdminsRecorded'
  <2>1. /\ at' = [at EXCEPT ![c] = IF first[c] THEN "addAdmin" ELSE "admit"]
        /\ entry' = [entry EXCEPT ![c] = Computed(c)]
        /\ UNCHANGED <<admins, deviceID, admin, job>>
    BY <1>5 DEF EnrollUpsert
  <2>2. Computed(c).admin = first[c]
    BY DEF Computed
  <2>3. AdminIsDurable'
    BY <2>1
  <2>4. \A k \in Conn : at'[k] = "admit" /\ entry'[k].admin
            => deviceID'[k] \in admins' \/ isAdmin'[deviceID'[k]]
    BY <2>1, <2>2
  <2>5. \A a \in Conn : at'[a] \in {"promote", "mark"} /\ job'[a].updated.admin
            => isAdmin'[job'[a].target]
    BY <2>1 DEF Job
  <2>6. \A a \in Conn : job'[a].tc # None =>
            /\ deviceID'[job'[a].tc] = job'[a].target
            /\ at'[job'[a].tc] \in Serving \cup {"done"}
    BY <1>5, <2>1 DEF EnrollUpsert
  <2> QED BY <1>5, <2>1, <2>3, <2>4, <2>5, <2>6 DEF EnrollUpsert
<1>6. ASSUME NEW c \in Conn, EnrollAddAdmin(c) PROVE AdminsRecorded'
  BY <1>6 DEF EnrollAddAdmin
<1>7. ASSUME NEW c \in Conn, Admit(c) PROVE AdminsRecorded'
  BY <1>7 DEF Admit, MarkReady
<1>8. ASSUME NEW c \in Conn, AddConn(c) PROVE AdminsRecorded'
  BY <1>8 DEF AddConn
<1>9. ASSUME NEW c \in Conn, CheckReady(c) PROVE AdminsRecorded'
  BY <1>9 DEF CheckReady
<1>10. ASSUME NEW c \in Conn, Greet(c) PROVE AdminsRecorded'
  BY <1>10 DEF Greet
<1>11. ASSUME NEW c \in Conn, RemoveConn(c) PROVE AdminsRecorded'
  BY <1>11 DEF RemoveConn
<1>12. ASSUME NEW c \in Conn, Drop(c) PROVE AdminsRecorded'
  BY <1>12 DEF Drop
<1>13. ASSUME NEW c \in Conn, Recycle(c) PROVE AdminsRecorded'
  BY <1>13 DEF Recycle, Reset, NoJob
<1>14. ASSUME NEW a \in Conn, NEW d \in Device, NEW action \in {"approve", "deny"}, AdminBegin(a, action, d) PROVE AdminsRecorded'
  BY <1>14 DEF AdminBegin, NoJob
<1>15. ASSUME NEW a \in Conn, AdminDecide(a) PROVE AdminsRecorded'
  <2>1. /\ at' = [at EXCEPT ![a] = "reload"] \/ at' = [at EXCEPT ![a] = "kick"]
        /\ UNCHANGED <<isAdmin, admins, deviceID, entry, admin, job>>
    BY <1>15 DEF AdminDecide
  <2>2. at[a] = "decide" /\ at'[a] \in {"reload", "kick"} /\ \A k \in Conn \ {a} : at'[k] = at[k]
    BY <1>15, <2>1 DEF AdminDecide
  <2>3. \A k \in Conn : job'[k].tc # None =>
            /\ deviceID'[job'[k].tc] = job'[k].target
            /\ at'[job'[k].tc] \in Serving \cup {"done"}
    BY SMTT(40), <2>1, <2>2 DEF Job
  <2> QED BY <2>1, <2>2, <2>3
<1>16. ASSUME NEW a \in Conn, AdminReload(a) PROVE AdminsRecorded'
  BY <1>16 DEF AdminReload, Row
<1>17. ASSUME NEW a \in Conn, AdminLookup(a) PROVE AdminsRecorded'
  <2> DEFINE tc == conns[job[a].target]
  <2>1. tc \in Conn \cup {None} /\ job[a].target \in Device
    BY <1>17 DEF AdminLookup, Job
  <2>2. CASE EndJob(a)
    BY <1>17, <2>2 DEF AdminLookup, EndJob, NoJob
  <2>3. CASE tc # None /\ job' = [job EXCEPT ![a].tc = tc] /\ Goto(a, "mark")
    <3>1. /\ job'[a].tc = tc /\ job'[a].target = job[a].target
          /\ job'[a].updated = job[a].updated
      BY <2>3 DEF Job
    <3>2. \A k \in Conn \ {a} : job'[k] = job[k] /\ at'[k] = at[k]
      BY <2>3
    <3>3. at[a] = "promote" /\ at'[a] = "mark" /\ UNCHANGED <<admins, isAdmin, deviceID, entry, admin>>
      BY <1>17, <2>3 DEF AdminLookup
    <3>4. deviceID[tc] = job[a].target /\ at[tc] \in Serving
      BY <2>1, <2>3
    <3>5. \A k \in Conn : job'[k].tc # None =>
              /\ deviceID'[job'[k].tc] = job'[k].target
              /\ at'[job'[k].tc] \in Serving \cup {"done"}
      BY <2>1, <2>3, <3>1, <3>2, <3>3, <3>4 DEF Job
    <3>6. \A k \in Conn : at'[k] \in {"promote", "mark"} /\ job'[k].updated.admin
              => isAdmin'[job'[k].target]
      BY <3>1, <3>2, <3>3
    <3> QED BY <3>2, <3>3, <3>5, <3>6
  <2> QED BY <1>17, <2>2, <2>3 DEF AdminLookup
<1>18. ASSUME NEW a \in Conn, AdminMark(a) PROVE AdminsRecorded'
  BY <1>18 DEF AdminMark, MarkReady
<1>19. ASSUME NEW a \in Conn, AdminWelcome(a) PROVE AdminsRecorded'
  BY <1>19 DEF AdminWelcome, EndJob, NoJob
<1>20. ASSUME NEW a \in Conn, DenyLookup(a) PROVE AdminsRecorded'
  <2> DEFINE tc == conns[job[a].target]
  <2>1. tc \in Conn \cup {None} /\ job[a].target \in Device
    BY <1>20 DEF DenyLookup, Job
  <2>2. CASE EndJob(a)
    BY <1>20, <2>2 DEF DenyLookup, EndJob, NoJob
  <2>3. CASE tc # None /\ job' = [job EXCEPT ![a].tc = tc] /\ Goto(a, "close")
    <3>1. /\ job'[a].tc = tc /\ job'[a].target = job[a].target
          /\ job'[a].updated = job[a].updated
      BY <2>3 DEF Job
    <3>2. \A k \in Conn \ {a} : job'[k] = job[k] /\ at'[k] = at[k]
      BY <2>3
    <3>3. at[a] = "kick" /\ at'[a] = "close" /\ UNCHANGED <<admins, isAdmin, deviceID, entry, admin>>
      BY <1>20, <2>3 DEF DenyLookup
    <3>4. deviceID[tc] = job[a].target /\ at[tc] \in Serving
      BY <2>1, <2>3
    <3>5. \A k \in Conn : job'[k].tc # None =>
              /\ deviceID'[job'[k].tc] = job'[k].target
              /\ at'[job'[k].tc] \in Serving \cup {"done"}
      BY <2>1, <2>3, <3>1, <3>2, <3>3, <3>4 DEF Job
    <3>6. \A k \in Conn : at'[k] \in {"promote", "mark"} /\ job'[k].updated.admin
              => isAdmin'[job'[k].target]
      BY <3>1, <3>2, <3>3
    <3> QED BY <3>2, <3>3, <3>5, <3>6
  <2> QED BY <1>20, <2>2, <2>3 DEF DenyLookup
<1>21. ASSUME NEW a \in Conn, DenyClose(a) PROVE AdminsRecorded'
  BY <1>21 DEF DenyClose, EndJob, NoJob
<1>22. ASSUME Restart PROVE AdminsRecorded'
  BY <1>22 DEF Restart, NoJob
<1>23. ASSUME UNCHANGED vars PROVE AdminsRecorded'
  BY <1>23 DEF vars
<1> HIDE RegistryAssumption, <1>0
    DEF TypeOK, TablesOK, ConnsOK, JobsOK, RegistryExact, AdminsRecorded, AdminIsDurable, Goto, durable
<1> QED BY <1>1, <1>2, <1>3, <1>4, <1>5, <1>6, <1>7, <1>8, <1>9, <1>10, <1>11, <1>12, <1>13, <1>14, <1>15, <1>16, <1>17, <1>18, <1>19, <1>20, <1>21, <1>22, <1>23
     DEF Next, Step

\* A decision about a device is not undone by a later enrolment: the upsert
\* leaves an existing row as it is.
LEMMA NextDecided ==
    ASSUME TypeOK, [Next]_vars, NEW d \in Device, state[d] \in {"active", "denied"}
    PROVE  state'[d] \in {"active", "denied"}
<1> USE DEF TypeOK, TablesOK, ConnsOK, JobsOK
<1>1. ASSUME NEW c \in Conn, EnrollUpsert(c) PROVE state'[d] = state[d]
  BY <1>1 DEF EnrollUpsert
<1>2. ASSUME NEW a \in Conn, AdminDecide(a) PROVE state'[d] \in {state[d], "active", "denied"}
  BY <1>2 DEF AdminDecide
<1>3. \/ UNCHANGED state
      \/ \E c \in Conn : EnrollUpsert(c) \/ AdminDecide(c)
  BY DEF Next, Step, vars, durable, Connect, AbortHandshake, ResumeRead, EnrollCount,
         EnrollAddAdmin, Admit, AddConn, CheckReady, Greet, RemoveConn, Recycle, Drop, AdminBegin,
         AdminReload, AdminLookup, AdminMark, AdminWelcome, DenyLookup, DenyClose, Restart
<1> QED BY <1>1, <1>2, <1>3

\* The invariant that the theorems below share.
RegistryInv == TypeOK /\ RegistryExact /\ Bootstrapped /\ AdminsRecorded

LEMMA RegistryInvariant == Spec => []RegistryInv
<1>1. Init => RegistryInv
  BY InitTyped DEF Init, RegistryInv, RegistryExact, Bootstrapped, NoLockout, AdminsRecorded,
                   AdminIsDurable, NoJob
<1>2. RegistryInv /\ [Next]_vars => RegistryInv'
  BY NextTyped, NextExact, NextBootstrapped, NextRecorded DEF RegistryInv
<1> QED BY <1>1, <1>2, PTL DEF Spec

\* Goroutines hold what their next statement needs, the registry names exactly
\* the open connections, and every admin right a connection has, or is about to
\* get, is in the devices table or the saved configuration: a restart at any
\* moment takes nothing back.
THEOREM RegistrySound == Spec => []RegistryIsSound
<1>1. RegistryInv => RegistryIsSound
  BY DEF RegistryInv, RegistryIsSound
<1> QED BY <1>1, RegistryInvariant, PTL

\* An approved or denied device never goes back to pending or to unknown, in
\* whatever order enrolments, decisions and restarts come.
THEOREM DecisionsStand == Spec => NeverUndecided
<1>1. RegistryInv /\ [Next]_vars
        => [\A d \in Device : state[d] \in {"active", "denied"}
                                => state'[d] \in {"active", "denied"}]_vars
  BY NextDecided DEF RegistryInv
<1> QED BY <1>1, RegistryInvariant, PTL DEF Spec, NeverUndecided
=============================================================================
