---------------------------- MODULE OfflineQueue ----------------------------
(***************************************************************************)
(* The relay's offline queue: the SQLite table "queue" and the five        *)
(* operations of serverStore on it, with the hourly purge loop and the     *)
(* configuration defaults that decide its two limits.                      *)
(*                                                                         *)
(* The database handle is opened with one connection, so every statement,  *)
(* and the transaction in enqueue, is one atomic step.  The clock counts   *)
(* hours, the unit of QueueRetentionHours and of the purge ticker.         *)
(***************************************************************************)
EXTENDS Integers, FiniteSets, Sequences

CONSTANTS
    Recipient,         \* device ids a message can wait for
    Msg,               \* (sender, msg_id) pairs: what the UNIQUE key tells apart
    QueueRetentionHours, MaxQueuePerDevice,      \* as written in server.toml
    DefaultRetentionHours, DefaultMaxQueue,      \* the constants of config.go
    MaxHours, MaxRows  \* bounds: clock and AUTOINCREMENT counter

ASSUME QueueAssumption ==
    /\ QueueRetentionHours \in Int /\ MaxQueuePerDevice \in Int
    /\ DefaultRetentionHours \in Nat \ {0} /\ DefaultMaxQueue \in Nat \ {0}
    /\ MaxHours \in Nat /\ MaxRows \in Nat

VARIABLES
    queue,    \* the rows of the table
    nextId,   \* AUTOINCREMENT: the id of the next row
    now,      \* the server clock
    drained   \* what the last drain returned

queueVars == <<queue, nextId, now, drained>>

QueueRow == [id : Nat, recipient : Recipient, msg : Msg, enqueuedAt : Nat]

\* Config.applyDefaults: a limit left at zero becomes the default; only a
\* negative one is left to switch the limit off.
Retention == IF QueueRetentionHours = 0 THEN DefaultRetentionHours
                                        ELSE QueueRetentionHours
MaxPerDevice == IF MaxQueuePerDevice = 0 THEN DefaultMaxQueue
                                         ELSE MaxQueuePerDevice

RowsOf(q, r) == {x \in q : x.recipient = r}

\* SELECT id ... ORDER BY id LIMIT k
NewestMutant(rows, k) ==
    {x \in rows : Cardinality({y \in rows : y.id > x.id}) < k}
Oldest(rows, k) == {x \in rows : Cardinality({y \in rows : y.id < x.id}) < k}

\* The rows that make room for one more: none below the cap.
LateTrimMutant(q, r) ==
    LET n == Cardinality(RowsOf(q, r)) IN
    IF MaxPerDevice > 0 /\ n > MaxPerDevice
    THEN Oldest(RowsOf(q, r), n - MaxPerDevice + 1) ELSE {}
Trimmed(q, r) ==
    LET n == Cardinality(RowsOf(q, r)) IN
    IF MaxPerDevice > 0 /\ n >= MaxPerDevice
    THEN Oldest(RowsOf(q, r), n - MaxPerDevice + 1) ELSE {}

QueueInit ==
    /\ queue = {}
    /\ nextId = 1
    /\ now = 0
    /\ drained = <<>>

AheadIdMutant(r, m) ==
    [id |-> nextId + 1, recipient |-> r, msg |-> m, enqueuedAt |-> now]
NewRow(r, m) == [id |-> nextId, recipient |-> r, msg |-> m, enqueuedAt |-> now]

\* One transaction: trim to make room, then INSERT OR IGNORE.
PlainInsertMutant(r, m) ==
    /\ nextId <= MaxRows
    /\ queue' = (queue \ Trimmed(queue, r)) \cup {NewRow(r, m)}
    /\ nextId' = nextId + 1
    /\ UNCHANGED <<now, drained>>
enqueue(r, m) ==
    /\ nextId <= MaxRows
    /\ LET kept == queue \ Trimmed(queue, r) IN
       IF \E x \in RowsOf(kept, r) : x.msg = m
       THEN queue' = kept /\ nextId' = nextId
       ELSE queue' = kept \cup {NewRow(r, m)} /\ nextId' = nextId + 1
    /\ UNCHANGED <<now, drained>>

\* ORDER BY id
NewestFirstMutant(rows) ==
    CHOOSE s \in [1 .. Cardinality(rows) -> rows] :
        \A i, j \in 1 .. Cardinality(rows) : i < j => s[i].id > s[j].id
InIdOrder(rows) ==
    CHOOSE s \in [1 .. Cardinality(rows) -> rows] :
        \A i, j \in 1 .. Cardinality(rows) : i < j => s[i].id < s[j].id

drain(r) ==
    /\ drained' = InIdOrder(RowsOf(queue, r))
    /\ UNCHANGED <<queue, nextId, now>>

\* The recipient acks a message it was sent, from a drain or live: an ack for
\* a message that is not queued deletes nothing.
ackQueued(r, m) ==
    /\ queue' = {x \in queue : ~(x.recipient = r /\ x.msg = m)}
    /\ UNCHANGED <<nextId, now, drained>>

\* enqueued_at < cutoff
Expired(x) == x.enqueuedAt + Retention < now

\* purgeLoop: a ticker that runs for as long as the relay does.
ReversedCutoffMutant ==
    /\ Retention > 0
    /\ queue' = {x \in queue : Expired(x)}
    /\ UNCHANGED <<nextId, now, drained>>
purgeExpired ==
    /\ Retention > 0
    /\ queue' = {x \in queue : ~Expired(x)}
    /\ UNCHANGED <<nextId, now, drained>>

Tick ==
    /\ now < MaxHours
    /\ now' = now + 1
    /\ UNCHANGED <<queue, nextId, drained>>

QueueNext ==
    \/ \E r \in Recipient, m \in Msg : enqueue(r, m)
    \/ \E r \in Recipient : drain(r)
    \/ \E r \in Recipient, m \in Msg : ackQueued(r, m)
    \/ purgeExpired
    \/ Tick

\* Fairness: the purge ticker keeps firing while the relay runs.
QueueSpec == QueueInit /\ [][QueueNext]_queueVars /\ WF_queueVars(purgeExpired)

-----------------------------------------------------------------------------
(* Properties *)

RowsOK ==
    /\ queue \subseteq QueueRow
    /\ nextId \in Nat \ {0}
    /\ now \in Nat
    /\ \A x \in queue : x.id < nextId /\ x.enqueuedAt <= now

\* Types; the id counter is ahead of every row (AUTOINCREMENT never reuses).
QueueTypeOK == RowsOK /\ drained \in Seq(QueueRow)

\* No recipient ever has more than the cap waiting, although enqueue counts,
\* trims and inserts in three statements.
QueueWithinCap ==
    MaxPerDevice > 0 =>
        \A r \in Recipient : Cardinality(RowsOf(queue, r)) <= MaxPerDevice

\* UNIQUE(recipient, sender, msg_id) and the primary key both hold.
NoDuplicateRows ==
    \A x, y \in queue :
        (x.id = y.id \/ (x.recipient = y.recipient /\ x.msg = y.msg)) => x = y

\* Rows never overtake each other: what a drain returned is in the order the
\* messages were queued, whatever was trimmed, acked, purged or queued again.
DrainedOldestFirst ==
    \A i, j \in 1 .. Len(drained) :
        i < j => /\ drained[i].id < drained[j].id
                 /\ drained[i].enqueuedAt <= drained[j].enqueuedAt

\* The table is well formed after any sequence of operations: rows have their
\* types, both keys are unique, and a drain is in the order of queueing.
QueueIsSound == QueueTypeOK /\ NoDuplicateRows /\ DrainedOldestFirst

\* A message loses its place only to an ack, to old age, or to newer messages
\* of the same recipient: every row that stays is newer than one that a cap or
\* a purge removes.
EvictionIsOldestFirst ==
    [][\A x \in queue \ queue' :
         \/ \E r \in Recipient, m \in Msg :
              ackQueued(r, m) /\ x.recipient = r /\ x.msg = m
         \/ Expired(x)
         \/ \A y \in RowsOf(queue', x.recipient) : x.id < y.id]_queueVars

\* A message that outlives the retention window does not stay for ever.
ExpiredAreEventuallyPurged ==
    \A r \in Recipient, m \in Msg :
        (\E x \in queue : x.recipient = r /\ x.msg = m /\ Expired(x))
            ~> ~(\E x \in queue : x.recipient = r /\ x.msg = m /\ Expired(x))
=============================================================================
