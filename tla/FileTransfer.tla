---------------------------- MODULE FileTransfer ----------------------------
(***************************************************************************)
(* Files sent from one device to another: an offer, then the chunks, each  *)
(* a relayed message of its own.  SendFile runs on a goroutine per file,   *)
(* the receiver's read loop handles one frame at a time.                   *)
(*                                                                         *)
(* The relay is what Delivery shows it to be: frames for a registered      *)
(* connection are sent and forgotten, frames for an offline device are     *)
(* queued and sent again at every connect until they are acked, frames     *)
(* over the device's rate limit are refused.  The receiver knows the       *)
(* sender.                                                                 *)
(*                                                                         *)
(* The disk is modelled to the inode: a .part file that two transfers      *)
(* opened is one file with two write offsets.  The downloads directory has *)
(* one name space: the .part file of "x" is what a download named "x.part" *)
(* is called.                                                              *)
(***************************************************************************)
EXTENDS Naturals, FiniteSets, SequencesExt

CONSTANTS
    Transfer,            \* transfer ids
    Names,               \* the names a transfer's file may have, after sanitizeName
    File,                \* names in the downloads directory
    Copy,                \* Copy[n][k]: the k-th candidate of uniquePath, "name (k)"
    PartOf,              \* the name with ".part" after it
    Chunks,              \* chunks per file
    MaxFramesPerWindow,  \* the relay's rate limit per device
    MaxQueuePerDevice,   \* the relay's queue
    MaxCopies,           \* bound: candidates per name
    MaxFaults,           \* bound: cuts, kills, I/O errors, edits of a file while
                         \* it is sent, offers the receiver declines
    None

Name == UNION {Names[t] : t \in Transfer}
Path == {Copy[n][k] : n \in Name, k \in 1 .. MaxCopies}

ASSUME TransferAssumption ==
    /\ Chunks \in Nat \ {0} /\ MaxFramesPerWindow \in Nat \ {0}
    /\ MaxQueuePerDevice \in Nat \ {0}
    /\ MaxCopies \in Nat \ {0} /\ MaxFaults \in Nat
    /\ None \notin Nat /\ None \notin File /\ None \notin Transfer \X Nat \X Nat

\* Names that differ still differ with ".part" after them.
ASSUME NamesAssumption ==
    /\ Path \subseteq File
    /\ PartOf \in [Path -> File]
    /\ \A p, q \in Path : PartOf[p] # p /\ (PartOf[p] = PartOf[q] => p = q)

VARIABLES
    \* the sender
    sent,     \* frames SendFile has sent, None before the call
    w,        \* the connection each SendFile captured is still up
    outRow,   \* FileMeta.Status of the sender's history row
    version,  \* what the file holds now
    sum,      \* what it held when it was hashed
    name,     \* its name
    \* the relay and the network
    conn,     \* the receiver's connection: none, registered and not yet sent its
              \* queue, registered, dead but registered
    queue,    \* rows waiting for the receiver
    todo,     \* rows afterReady has read and has yet to send
    hold,     \* a frame of the transfer between lookupConn and enqueue, or None
    down,     \* frames in flight to the receiver
    \* the receiver
    tr,       \* Client.transfers
    row,      \* its history rows: status and path
    dir,      \* the downloads directory: the inode of each name or None
    inode,    \* contents of every inode created
    \* history
    hurt,     \* transfers of which a frame was refused, lost, trimmed or never sent
    overtaken, \* transfers of which a frame passed one that was queued before it,
              \* or was queued behind the drain
    shared,   \* transfers whose .part was open twice
    done,     \* names of finished downloads
    mixed,    \* names that were a .part file's and a download's at once
    edited,   \* transfers whose file changed after it was hashed
    crashed,  \* the receiver was killed, or its disk failed
    faults

senderVars == <<sent, w, outRow, version, sum, name>>
relayVars == <<conn, queue, todo, hold, down>>
diskVars == <<dir, inode>>
receiverVars == <<tr, row, diskVars>>
frameVars == <<hurt, overtaken>>
nameVars == <<shared, done, mixed>>
historyVars == <<frameVars, nameVars, edited, crashed>>
vars == <<senderVars, relayVars, receiverVars, historyVars, faults>>

\* A frame is the transfer, its place in it (0 is the offer) and the version
\* of the file: hashed for the offer, read for a chunk.
Frame == Transfer \X (0 .. Chunks) \X (0 .. MaxFaults)
Piece == Transfer \X (1 .. Chunks) \X (0 .. MaxFaults)
Blank == [i \in 1 .. Chunks |-> None]

\* inboundTransfer; the hasher is the sequence of pieces it was fed.
NoTransfer == [next |-> None, path |-> None, file |-> None, hasher |-> <<>>, sum |-> None]
Opened(t) == tr[t].next # None

Init ==
    /\ sent = [t \in Transfer |-> None]
    /\ w = [t \in Transfer |-> FALSE]
    /\ outRow = [t \in Transfer |-> "none"]
    /\ version = [t \in Transfer |-> 0]
    /\ sum = [t \in Transfer |-> 0]
    /\ name = [t \in Transfer |-> None]
    /\ conn = "none"
    /\ queue = <<>> /\ todo = <<>> /\ down = <<>>
    /\ hold = [t \in Transfer |-> None]
    /\ tr = [t \in Transfer |-> NoTransfer]
    /\ row = [t \in Transfer |-> [status |-> "none", path |-> None]]
    /\ dir = [f \in File |-> None]
    /\ inode = <<>>
    /\ hurt = {} /\ overtaken = {} /\ shared = {} /\ done = {} /\ mixed = {}
    /\ edited = {} /\ crashed = FALSE
    /\ faults = 0

Fault == faults < MaxFaults /\ faults' = faults + 1

-----------------------------------------------------------------------------
(* The sender *)

\* SendFile up to the history row: the peer is known, the client is ready, the
\* file is hashed.
SendFile(t) ==
    /\ sent[t] = None
    /\ sent' = [sent EXCEPT ![t] = 0]
    /\ w' = [w EXCEPT ![t] = TRUE]
    /\ sum' = [sum EXCEPT ![t] = version[t]]
    /\ \E n \in Names[t] : name' = [name EXCEPT ![t] = n]
    /\ outRow' = [outRow EXCEPT ![t] = "sending"]
    /\ UNCHANGED <<version, relayVars, receiverVars, historyVars, faults>>

\* Frames the sender has sent; the next one can be over the limit only when
\* there were that many before it.  How long the window is, is left open.
FramesSent == MapThenSumSet(LAMBDA t : IF sent[t] = None THEN 0 ELSE sent[t], Transfer)

\* The relay's dispatch for a frame it reads.
Refuse(f) ==
    /\ FramesSent >= MaxFramesPerWindow
    /\ hurt' = hurt \cup {f[1]}
    /\ UNCHANGED <<hold, down, overtaken>>

\* Rows that the receiver's connection, or its next one, is still to be sent.
Rest == IF conn = "up" THEN todo ELSE queue
Waiting(t) == \E f \in Range(Rest) : f[1] = t

\* handleMsg: lookupConn finds a registered connection, whether or not it has
\* been sent its queue, and the frame is sent; or there is none.
Relay(f) ==
    \/ /\ conn \in {"greet", "up"}
       /\ down' = Append(down, f)
       /\ overtaken' = IF Waiting(f[1]) THEN overtaken \cup {f[1]} ELSE overtaken
       /\ UNCHANGED <<hold, hurt>>
    \/ conn = "dead" /\ hurt' = hurt \cup {f[1]} /\ UNCHANGED <<hold, down, overtaken>>
    \/ conn = "none" /\ hold' = [hold EXCEPT ![f[1]] = f] /\ UNCHANGED <<down, hurt, overtaken>>

\* A frame is written; after the last one the sender's row says received.
Written(t) ==
    /\ outRow[t] = "sending"
    /\ sent' = [sent EXCEPT ![t] = @ + 1]
    /\ outRow' = IF sent[t] = Chunks THEN [outRow EXCEPT ![t] = "received"] ELSE outRow

\* The offer, then every chunk as the file reads at that moment.  The goroutine
\* of the sender's connection handles one frame at a time.
SendFrame(t) ==
    /\ Written(t) /\ w[t]
    /\ \A u \in Transfer : w[u] => hold[u] = None
    /\ LET f == <<t, sent[t], IF sent[t] = 0 THEN sum[t] ELSE version[t]>>
       IN Relay(f) \/ Refuse(f)
    /\ UNCHANGED <<w, version, sum, name, conn, queue, todo, receiverVars,
                   nameVars, edited, crashed, faults>>

\* enqueue: trim to make room, insert.  The receiver may have connected since,
\* and its queue may have been read.
EnqueueHeld(t) ==
    /\ hold[t] # None
    /\ IF Len(queue) < MaxQueuePerDevice
       THEN queue' = Append(queue, hold[t]) /\ UNCHANGED hurt
       ELSE queue' = Append(Tail(queue), hold[t]) /\ hurt' = hurt \cup {Head(queue)[1]}
    /\ overtaken' = IF conn = "up" THEN overtaken \cup {t} ELSE overtaken
    /\ hold' = [hold EXCEPT ![t] = None]
    /\ UNCHANGED <<senderVars, conn, todo, down, receiverVars, nameVars, edited, crashed, faults>>

\* The write succeeds on a connection that has just gone down.
SendLost(t) ==
    /\ Written(t) /\ ~w[t]
    /\ hurt' = hurt \cup {t}
    /\ UNCHANGED <<w, version, sum, name, relayVars, receiverVars,
                   overtaken, nameVars, edited, crashed, faults>>

\* failOutboundTransfer: the write fails, or the file cannot be opened or read
\* after the offer.  The receiver is told nothing.
SendFails(t) ==
    /\ outRow[t] = "sending"
    /\ \/ ~w[t] /\ UNCHANGED faults
       \/ sent[t] > 0 /\ Fault
    /\ outRow' = [outRow EXCEPT ![t] = "failed"]
    /\ hurt' = hurt \cup {t}
    /\ UNCHANGED <<sent, w, version, sum, name, relayVars, receiverVars,
                   overtaken, nameVars, edited, crashed>>

\* Someone writes to the file.
Edit(t) ==
    /\ Fault /\ outRow[t] = "sending"
    /\ version' = [version EXCEPT ![t] = @ + 1]
    /\ edited' = edited \cup {t}
    /\ UNCHANGED <<sent, w, outRow, sum, name, relayVars, receiverVars, frameVars, nameVars, crashed>>

-----------------------------------------------------------------------------
(* The receiver *)

\* DELETE of the queue's row of a frame, whose id is the key.
DeleteRow(rows, f) ==
    IF f \in Range(rows) THEN RemoveAt(rows, CHOOSE i \in DOMAIN rows : rows[i] = f) ELSE rows

\* The next frame is read and acked.  The ack deletes the queue's row; one that
\* the relay refuses, or that goes down with the connection, leaves it, which
\* matters when another connect, after a fault still to come, sends it again.
\* The relay reads no acks before it has read the queue.
Read(f) ==
    /\ conn \in {"greet", "up"} /\ down # <<>> /\ f = Head(down)
    /\ down' = Tail(down)
    /\ \/ conn = "up" /\ queue' = DeleteRow(queue, f)
       \/ (conn = "greet" \/ faults < MaxFaults) /\ UNCHANGED queue
    /\ UNCHANGED <<conn, todo, hold, senderVars, frameVars>>

\* uniquePath: the first candidate that is not in the directory; the code has no
\* last candidate, here there are MaxCopies.
FirstFree(t, k) ==
    /\ dir[Copy[name[t]][k]] = None
    /\ \A j \in 1 .. k - 1 : dir[Copy[name[t]][j]] # None
HasFreeName(t) == \E k \in 1 .. MaxCopies : FirstFree(t, k)
NoCheckMutant(t) == Copy[name[t]][1]
UniquePath(t) == Copy[name[t]][CHOOSE k \in 1 .. MaxCopies : FirstFree(t, k)]

\* os.Create: an existing file is truncated, a missing one gets a new inode.
Create(f) ==
    IF dir[f] = None
    THEN inode' = Append(inode, Blank) /\ dir' = [dir EXCEPT ![f] = Len(inode) + 1]
    ELSE inode' = [inode EXCEPT ![dir[f]] = Blank] /\ UNCHANGED dir

\* History: the offer's .part name is that of a download, finished or to come,
\* or its own name is the .part name of a transfer in progress.
Mixes(t, p) ==
    {f \in {PartOf[p]} : f \in done \/ \E u \in Transfer \ {t} : Opened(u) /\ tr[u].path = f}
        \cup {f \in {p} : \E u \in Transfer \ {t} : Opened(u) /\ PartOf[tr[u].path] = f}

\* A transfer that is offered again starts again; its row stays as it is.
HandleFileOffer(t, v) ==
    /\ Read(<<t, 0, v>>) /\ HasFreeName(t)
    /\ LET p == UniquePath(t)
           others == {u \in Transfer \ {t} : Opened(u) /\ tr[u].path = p}
       IN /\ Create(PartOf[p])
          /\ tr' = [tr EXCEPT ![t] = [next |-> 1, path |-> p, file |-> dir'[PartOf[p]],
                                      hasher |-> <<>>, sum |-> v]]
          /\ row' = [row EXCEPT ![t] = IF @.status = "none"
                                       THEN [status |-> "receiving", path |-> p] ELSE @]
          /\ shared' = IF others = {} THEN shared ELSE shared \cup others \cup {t}
          /\ mixed' = mixed \cup Mixes(t, p)
    /\ UNCHANGED <<done, edited, crashed, faults>>

\* The file is over the receiver's limit, or the .part file cannot be created.
DeclineOffer(t, v) ==
    /\ Read(<<t, 0, v>>) /\ Fault
    /\ UNCHANGED <<receiverVars, nameVars, edited, crashed>>

\* The transfer is forgotten and its row rewritten with the outcome.
KeepRowMutant(t, status) ==
    /\ tr' = [tr EXCEPT ![t] = NoTransfer]
    /\ row' = row
Finish(t, status) ==
    /\ tr' = [tr EXCEPT ![t] = NoTransfer]
    /\ row' = [row EXCEPT ![t] = [status |-> status, path |-> tr[t].path]]

\* os.Remove(partPath): whatever file has the name.
RemovePart(t) == dir' = [dir EXCEPT ![PartOf[tr[t].path]] = None] /\ UNCHANGED done

\* os.Rename(partPath, finalPath): whatever file has the name, over any other.
Rename(t) ==
    /\ dir' = [dir EXCEPT ![tr[t].path] = dir[PartOf[tr[t].path]], ![PartOf[tr[t].path]] = None]
    /\ done' = done \cup {tr[t].path}

\* A chunk of a transfer that is not open: reported, nothing else.
UnknownChunk(t, i, v) ==
    /\ i > 0 /\ ~Opened(t) /\ Read(<<t, i, v>>)
    /\ UNCHANGED <<receiverVars, nameVars, edited, crashed, faults>>

\* abortInbound: a chunk out of order, or a failed write.
KeepPartMutant(t, i, v) ==
    /\ i > 0 /\ Opened(t) /\ Read(<<t, i, v>>)
    /\ i # tr[t].next
    /\ Finish(t, "failed")
    /\ UNCHANGED <<diskVars, nameVars, edited, crashed, faults>>
AbortInbound(t, i, v) ==
    /\ i > 0 /\ Opened(t) /\ Read(<<t, i, v>>)
    /\ \/ i # tr[t].next /\ UNCHANGED <<crashed, faults>>
       \/ i = tr[t].next /\ Fault /\ crashed' = TRUE
    /\ RemovePart(t) /\ Finish(t, "failed")
    /\ UNCHANGED <<inode, shared, mixed, edited>>

\* The chunk in order: written at the transfer's own offset, and hashed.
Write(t, v) ==
    inode' = [inode EXCEPT ![tr[t].file] = [@ EXCEPT ![tr[t].next] = <<t, tr[t].next, v>>]]

NotHashedMutant(t, v) ==
    /\ Opened(t) /\ tr[t].next < Chunks
    /\ Read(<<t, tr[t].next, v>>)
    /\ Write(t, v)
    /\ tr' = [tr EXCEPT ![t].next = @ + 1]
    /\ UNCHANGED <<row, dir, nameVars, edited, crashed, faults>>
HandleFileChunk(t, v) ==
    /\ Opened(t) /\ tr[t].next < Chunks
    /\ Read(<<t, tr[t].next, v>>)
    /\ Write(t, v)
    /\ tr' = [tr EXCEPT ![t].next = @ + 1,
                        ![t].hasher = Append(@, <<t, tr[t].next, v>>)]
    /\ UNCHANGED <<row, dir, nameVars, edited, crashed, faults>>

LastUnhashedMutant(t, v) == tr[t].hasher = [i \in 1 .. Chunks |-> <<t, i, tr[t].sum>>]
Verified(t, v) ==
    Append(tr[t].hasher, <<t, tr[t].next, v>>) = [i \in 1 .. Chunks |-> <<t, i, tr[t].sum>>]

\* The last chunk: close, compare the hash, rename.
HasPart(t) == dir[PartOf[tr[t].path]] # None
SkipHashMutant(t, v) ==
    /\ Opened(t) /\ tr[t].next = Chunks
    /\ Read(<<t, Chunks, v>>)
    /\ Write(t, v)
    /\ HasPart(t) /\ Rename(t) /\ Finish(t, "received")
    /\ UNCHANGED <<shared, mixed, edited, crashed, faults>>
RowBeforeRenameMutant(t, v) ==
    /\ Opened(t) /\ tr[t].next = Chunks
    /\ Read(<<t, Chunks, v>>)
    /\ Write(t, v)
    /\ IF HasPart(t) THEN Rename(t) ELSE UNCHANGED <<dir, done>>
    /\ Finish(t, IF Verified(t, v) THEN "received" ELSE "failed")
    /\ UNCHANGED <<shared, mixed, edited, crashed, faults>>
FinalizeTransfer(t, v) ==
    /\ Opened(t) /\ tr[t].next = Chunks
    /\ Read(<<t, Chunks, v>>)
    /\ Write(t, v)
    /\ \/ /\ ~Verified(t, v)
          /\ RemovePart(t) /\ Finish(t, "failed") /\ UNCHANGED <<crashed, faults>>
       \/ /\ Verified(t, v) /\ HasPart(t)
          /\ Rename(t) /\ Finish(t, "received") /\ UNCHANGED <<crashed, faults>>
       \/ /\ Verified(t, v) /\ ~HasPart(t)
          /\ Finish(t, "failed") /\ UNCHANGED <<dir, done, crashed, faults>>
       \/ /\ Verified(t, v) /\ HasPart(t) /\ Fault /\ crashed' = TRUE
          /\ Finish(t, "failed") /\ UNCHANGED <<dir, done>>
    /\ UNCHANGED <<shared, mixed, edited>>

-----------------------------------------------------------------------------
(* The relay and the network *)

Lose(frames) == {f[1] : f \in Range(frames) \ Range(queue)}

\* The receiver's connection goes down with what is in flight.
CutReceiver ==
    /\ conn \in {"greet", "up"} /\ Fault
    /\ conn' = "dead"
    /\ down' = <<>> /\ todo' = <<>>
    /\ hurt' = hurt \cup Lose(down)
    /\ UNCHANGED <<senderVars, queue, hold, receiverVars, overtaken, nameVars, edited, crashed>>

\* The relay notices.
RemoveConn ==
    /\ conn = "dead"
    /\ conn' = "none"
    /\ UNCHANGED <<senderVars, queue, todo, hold, down, receiverVars, historyVars, faults>>

\* The receiver connects again; addConn.  Then afterReady, which reads the queue
\* after its other frames and sends it row by row.
AddConn ==
    /\ conn \in {"dead", "none"}
    /\ conn' = "greet"
    /\ UNCHANGED <<senderVars, queue, todo, hold, down, receiverVars, historyVars, faults>>

ReadQueue ==
    /\ conn = "greet"
    /\ conn' = "up"
    /\ todo' = queue
    /\ UNCHANGED <<senderVars, queue, hold, down, receiverVars, historyVars, faults>>

SendRow ==
    /\ conn = "up" /\ todo # <<>>
    /\ down' = Append(down, Head(todo))
    /\ todo' = Tail(todo)
    /\ UNCHANGED <<senderVars, conn, queue, hold, receiverVars, historyVars, faults>>

CutSender ==
    /\ \E t \in Transfer : w[t] /\ outRow[t] = "sending"
    /\ Fault
    /\ w' = [t \in Transfer |-> FALSE]
    /\ UNCHANGED <<sent, outRow, version, sum, name, relayVars, receiverVars, historyVars>>

\* The receiving client is killed: its transfers map and file handles are gone.
KillReceiver ==
    /\ Fault
    /\ \E t \in Transfer : Opened(t)
    /\ conn' = IF conn = "none" THEN "none" ELSE "dead"
    /\ down' = <<>> /\ todo' = <<>>
    /\ hurt' = hurt \cup Lose(down)
    /\ tr' = [t \in Transfer |-> NoTransfer]
    /\ crashed' = TRUE
    /\ UNCHANGED <<senderVars, queue, hold, row, diskVars, overtaken, nameVars, edited>>

-----------------------------------------------------------------------------
Sending(t) == SendFrame(t) \/ SendLost(t) \/ SendFails(t)

Receiving ==
    \E t \in Transfer, v \in 0 .. MaxFaults :
        \/ HandleFileOffer(t, v) \/ DeclineOffer(t, v)
        \/ HandleFileChunk(t, v) \/ FinalizeTransfer(t, v)
        \/ \E i \in 1 .. Chunks : UnknownChunk(t, i, v) \/ AbortInbound(t, i, v)

AfterReady == ReadQueue \/ SendRow

Step ==
    \/ \E t \in Transfer : Sending(t) \/ EnqueueHeld(t)
    \/ AddConn \/ AfterReady \/ Receiving

Next ==
    \/ Step
    \/ \E t \in Transfer : SendFile(t) \/ Edit(t)
    \/ CutReceiver \/ RemoveConn \/ CutSender \/ KillReceiver

\* Fairness: a SendFile call in progress, the relay's handlers, the receiver's
\* run loop and its read loop go on.  None of them has infinitely many steps
\* between two faults, so one condition serves for all.  Nobody has to send a file.
Spec == Init /\ [][Next]_vars /\ WF_vars(Step)

-----------------------------------------------------------------------------
(* Properties *)

Status == {"none", "receiving", "received", "failed"}

Inbound ==
    [next : 1 .. Chunks \cup {None}, path : Path \cup {None}, file : Nat \cup {None},
     hasher : Seq(Piece), sum : 0 .. MaxFaults \cup {None}]

SenderTypeOK ==
    /\ sent \in [Transfer -> (0 .. (Chunks + 1)) \cup {None}]
    /\ w \in [Transfer -> BOOLEAN]
    /\ outRow \in [Transfer -> {"none", "sending", "received", "failed"}]
    /\ version \in [Transfer -> Nat] /\ sum \in [Transfer -> 0 .. MaxFaults]
    /\ DOMAIN name = Transfer
    /\ \A t \in Transfer : /\ version[t] <= faults
                           /\ outRow[t] = "sending" => sent[t] \in 0 .. Chunks
                           /\ sent[t] # None => name[t] \in Name
    /\ faults \in 0 .. MaxFaults
    /\ hurt \subseteq Transfer /\ overtaken \subseteq Transfer
    /\ shared \subseteq Transfer /\ edited \subseteq Transfer

RelayTypeOK ==
    /\ conn \in {"none", "greet", "up", "dead"}
    /\ queue \in Seq(Frame) /\ todo \in Seq(Frame) /\ down \in Seq(Frame)
    /\ DOMAIN hold = Transfer
    /\ \A t \in Transfer : hold[t] # None => hold[t] \in Frame /\ hold[t][1] = t

ReceiverTypeOK ==
    /\ tr \in [Transfer -> Inbound]
    /\ \A t \in Transfer : Opened(t) => /\ tr[t].path \in Path
                                        /\ tr[t].file \in DOMAIN inode
                                        /\ Len(tr[t].hasher) = tr[t].next - 1
    /\ row \in [Transfer -> [status : Status, path : Path \cup {None}]]
    /\ dir \in [File -> DOMAIN inode \cup {None}]
    /\ inode \in Seq([1 .. Chunks -> Piece \cup {None}])
    /\ done \subseteq Path /\ mixed \subseteq File
    /\ crashed \in BOOLEAN

\* Types; an open transfer has a path and an inode to write to.
TypeOK == SenderTypeOK /\ RelayTypeOK /\ ReceiverTypeOK

Whole(t, v) == [i \in 1 .. Chunks |-> <<t, i, v>>]
Intact(t) == \E p \in Path :
    p = row[t].path /\ dir[p] # None /\ inode[dir[p]] = Whole(t, sum[t])

\* Neither the name nor its .part name was a .part file's and a download's at
\* once.
Apart(p) == p \notin mixed /\ PartOf[p] \notin mixed

\* A file shown as received is the file that was hashed for the offer, on
\* disk, to the last byte, although the hash is taken of the frames and not of
\* the disk - unless two transfers had the same .part file open, or the .part
\* name of one was the name of another's download.
IntactUnlessShared ==
    \A t \in Transfer :
        row[t].status = "received" /\ t \notin shared /\ Apart(row[t].path) => Intact(t)

\* A finished download is never replaced, renamed away or removed, unless its
\* name or its .part name was mixed up with another's: uniquePath looks at the
\* directory when the offer arrives, the rename happens many frames later.
NeverOverwritten ==
    [][\A p \in done : Apart(p)' => dir'[p] = dir[p]]_vars

\* A row that says received names a file that is there, with the same exception.
ReceivedFileExists ==
    \A t \in Transfer :
        row[t].status = "received" =>
            row[t].path \in Path /\ (Apart(row[t].path) => dir[row[t].path] # None)

\* One file sent is named like the .part file of another.
NamesMeet ==
    \E t, u \in Transfer : /\ sent[t] # None /\ sent[u] # None
                          /\ \E j, k \in 1 .. MaxCopies :
                               Copy[name[t]][j] = PartOf[Copy[name[u]][k]]

\* Every file in the directory is a finished download or the .part file of a
\* transfer in progress, unless the client was killed, its disk failed or a file
\* was named like a .part file: aborts, restarted offers and shared names leave
\* none behind.
NoOrphanPart ==
    \/ crashed \/ NamesMeet
    \/ \A f \in File : dir[f] # None =>
         f \in done \/ \E t \in Transfer : Opened(t) /\ PartOf[tr[t].path] = f

\* History and disk agree: what shows as received is there and intact, and no
\* .part file is left over.
DiskAgrees == TypeOK /\ IntactUnlessShared /\ ReceivedFileExists /\ NoOrphanPart

\* A transfer fails only because a frame of it was refused, lost or trimmed, one
\* frame overtook another in the relay, its file changed, names met, or there
\* was a fault (a cut that takes acks makes the relay send chunks again, which
\* aborts the transfer).
FailsForAReason ==
    \A t \in Transfer :
        row[t].status = "failed" =>
            \/ t \in hurt \cup overtaken \cup shared \cup edited
            \/ faults > 0 \/ ~Apart(row[t].path)

\* No transfer shows as receiving for ever, unless frames of it were lost or
\* overtaken, the sender gave up or the client was killed: nothing times out.
TransferEnds ==
    []<>(\A t \in Transfer :
           row[t].status # "receiving" \/ t \in hurt \cup overtaken \/ crashed)
=============================================================================
