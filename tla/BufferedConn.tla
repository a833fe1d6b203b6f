---------------------------- MODULE BufferedConn ----------------------------
(***************************************************************************)
(* bufferedConn: a goroutine (fill) drains a multiplexed stream into a     *)
(* channel of chunks, and Read takes from the channel, so that a deadline  *)
(* never interrupts a read of the stream itself.  One Read runs at a time  *)
(* (net/http waits for its probe before it hands the connection on);       *)
(* SetReadDeadline is called beside it.                                    *)
(*                                                                         *)
(* Bytes are numbered in the order the peer wrote them; a chunk is the     *)
(* pair of its first and its last byte.                                    *)
(***************************************************************************)
EXTENDS Naturals, Sequences

CONSTANTS
    MaxBytes,  \* bound: bytes the peer writes
    MaxRead,   \* bound: largest buffer passed to Read
    MaxChunk,  \* fill's buffer
    Cap,       \* capacity of chunkCh
    NoChunk

ASSUME BufferAssumption ==
    /\ MaxBytes \in Nat \ {0} /\ MaxRead \in Nat \ {0}
    /\ MaxChunk \in Nat \ {0} /\ Cap \in Nat \ {0}
    /\ NoChunk \notin Nat \X Nat

VARIABLES
    sent, closed,     \* the stream: bytes written, and how it ended
    filled,           \* bytes fill has read from it
    hand,             \* the chunk fill is about to send, or NoChunk
    chunkCh,          \* the channel
    done,             \* doneCh is closed
    leftover,         \* rest of a chunk, or NoChunk
    pc, size, dl,     \* Read: where it is, len(p), the deadline it captured
    deadline,
    armed, got, last, outcome,  \* history: see ByteStream
    left              \* the server has closed the connection and gone

fillVars == <<filled, hand, done>>
callVars == <<size, armed, got, last, outcome>>
bufferVars == <<sent, closed, fillVars, chunkCh, leftover, pc, dl, deadline, callVars, left>>

Chunk == {c \in (1 .. MaxBytes) \X (1 .. MaxBytes) : c[1] <= c[2]}
Length(c) == c[2] + 1 - c[1]

BufferInit ==
    /\ sent = 0 /\ closed = "open"
    /\ filled = 0 /\ hand = NoChunk /\ done = FALSE /\ chunkCh = <<>>
    /\ leftover = NoChunk /\ pc = "idle" /\ size = 0 /\ dl = "none"
    /\ deadline = "none" /\ armed = FALSE
    /\ got = 0 /\ last = <<1, 0>> /\ outcome = "none" /\ left = FALSE

-----------------------------------------------------------------------------
(* The stream under the connection, and its two users.                     *)

Send(n) ==
    /\ closed = "open" /\ sent + n <= MaxBytes
    /\ sent' = sent + n
    /\ UNCHANGED <<closed, fillVars, chunkCh, leftover, pc, dl, deadline, callVars, left>>

\* The peer closes its end, or the session under the stream is lost.
PeerShut(how) ==
    /\ closed = "open"
    /\ closed' = how
    /\ UNCHANGED <<sent, fillVars, chunkCh, leftover, pc, dl, deadline, callVars, left>>

\* The server is done with the connection; Close passes through.
Close ==
    /\ ~left
    /\ left' = TRUE
    /\ closed' = IF closed = "open" THEN "reset" ELSE closed
    /\ UNCHANGED <<sent, fillVars, chunkCh, leftover, pc, dl, deadline, callVars>>

SetReadDeadline(t) ==
    /\ ~left
    /\ deadline' = t
    /\ armed' = (armed \/ (pc # "idle" /\ t # "none"))
    /\ UNCHANGED <<sent, closed, fillVars, chunkCh, leftover, pc, dl, size, got, last, outcome,
                   left>>

-----------------------------------------------------------------------------
(* fill.                                                                   *)

FillRead(n) ==
    /\ ~done /\ hand = NoChunk /\ filled + n <= sent
    /\ hand' = <<filled + 1, filled + n>>
    /\ filled' = filled + n
    /\ UNCHANGED <<sent, closed, done, chunkCh, leftover, pc, dl, deadline, callVars, left>>

FillPush ==
    /\ hand # NoChunk /\ Len(chunkCh) < Cap
    /\ chunkCh' = Append(chunkCh, hand)
    /\ hand' = NoChunk
    /\ UNCHANGED <<sent, closed, filled, done, leftover, pc, dl, deadline, callVars, left>>

\* A bug: only the end of the stream ends fill, an error does not.
EofOnlyMutant ==
    /\ ~done /\ hand = NoChunk /\ closed = "eof" /\ filled = sent
    /\ done' = TRUE
    /\ UNCHANGED <<sent, closed, filled, hand, chunkCh, leftover, pc, dl, deadline, callVars, left>>

\* The stream reports its end once it is drained, or a reset at once.
FillEnd ==
    /\ ~done /\ hand = NoChunk /\ closed # "open"
    /\ closed = "eof" => filled = sent
    /\ done' = TRUE
    /\ UNCHANGED <<sent, closed, filled, hand, chunkCh, leftover, pc, dl, deadline, callVars, left>>

-----------------------------------------------------------------------------
(* Read.                                                                   *)

Call(m) ==
    /\ pc = "idle" /\ ~left
    /\ pc' = "read" /\ size' = m /\ armed' = (deadline # "none")
    /\ UNCHANGED <<sent, closed, fillVars, chunkCh, leftover, dl, deadline, got, last, outcome,
                   left>>

\* Read returns.
Return(how) ==
    /\ pc' = "idle" /\ size' = 0 /\ armed' = FALSE /\ dl' = "none"
    /\ outcome' = how

\* A bug: the leftover is the whole chunk.
WholeChunkMutant(c) == LET n == IF size < Length(c) THEN size ELSE Length(c) IN
    /\ last' = <<c[1], n>> /\ got' = got + n
    /\ leftover' = IF n < Length(c) THEN c ELSE NoChunk
    /\ Return("bytes")

\* deliver: what fits of chunk c is copied, the rest becomes the leftover.
Deliver(c) == LET n == IF size < Length(c) THEN size ELSE Length(c) IN
    /\ last' = <<c[1], n>> /\ got' = got + n
    /\ leftover' = IF n < Length(c) THEN <<c[1] + n, c[2]>> ELSE NoChunk
    /\ Return("bytes")

ReadLeftover ==
    /\ pc = "read" /\ leftover # NoChunk
    /\ Deliver(leftover)
    /\ UNCHANGED <<sent, closed, fillVars, chunkCh, deadline, left>>

\* A deadline in the future may have passed by now.
CaptureDeadline ==
    /\ pc = "read" /\ leftover = NoChunk
    /\ \/ /\ deadline # "none"
          /\ Return("timeout")
       \/ /\ deadline # "past"
          /\ pc' = "select" /\ dl' = deadline
          /\ UNCHANGED <<size, armed, outcome>>
    /\ UNCHANGED <<sent, closed, fillVars, chunkCh, leftover, deadline, got, last, left>>

\* The first case of the select, and the second one's drain.
SelectChunk ==
    /\ pc = "select" /\ chunkCh # <<>>
    /\ Deliver(Head(chunkCh))
    /\ chunkCh' = Tail(chunkCh)
    /\ UNCHANGED <<sent, closed, fillVars, deadline, left>>

\* A bug: doneCh ends the Read with chunks still in the channel.
NoDrainMutant ==
    /\ pc = "select" /\ done
    /\ Return("end")
    /\ UNCHANGED <<sent, closed, fillVars, chunkCh, leftover, deadline, got, last, left>>

SelectDone ==
    /\ pc = "select" /\ done /\ chunkCh = <<>>
    /\ Return("end")
    /\ UNCHANGED <<sent, closed, fillVars, chunkCh, leftover, deadline, got, last, left>>

SelectTimeout ==
    /\ pc = "select" /\ dl # "none"
    /\ Return("timeout")
    /\ UNCHANGED <<sent, closed, fillVars, chunkCh, leftover, deadline, got, last, left>>

-----------------------------------------------------------------------------
Fill == FillPush \/ FillEnd \/ \E n \in 1 .. MaxChunk : FillRead(n)
Read == ReadLeftover \/ CaptureDeadline \/ SelectChunk \/ SelectDone
Peer == (\E n \in 1 .. MaxBytes : Send(n)) \/ (\E how \in {"eof", "reset"} : PeerShut(how))

BufferNext ==
    \/ Fill \/ Read \/ SelectTimeout \/ Peer \/ Close
    \/ \E m \in 1 .. MaxRead : Call(m)
    \/ \E t \in {"none", "future", "past"} : SetReadDeadline(t)

\* The goroutines run, and the peer speaks or goes: a client starts its
\* handshake as soon as the connection is up and pings or closes after that.
BufferFairness == WF_bufferVars(Fill) /\ WF_bufferVars(Read) /\ WF_bufferVars(Peer)

BufferSpec == BufferInit /\ [][BufferNext]_bufferVars /\ BufferFairness

-----------------------------------------------------------------------------
(* Properties.                                                             *)

\* No more bytes are returned than fill has read, and none of them waits in
\* a channel over its capacity.
BufferTypeOK ==
    /\ sent \in 0 .. MaxBytes /\ filled \in 0 .. sent /\ got \in 0 .. filled
    /\ closed \in {"open", "eof", "reset"}
    /\ hand \in Chunk \union {NoChunk} /\ leftover \in Chunk \union {NoChunk}
    /\ chunkCh \in Seq(Chunk) /\ Len(chunkCh) <= Cap
    /\ done \in BOOLEAN /\ left \in BOOLEAN /\ armed \in BOOLEAN
    /\ pc \in {"idle", "read", "select"}
    /\ size \in 0 .. MaxRead /\ (size = 0 <=> pc = "idle")
    /\ deadline \in {"none", "future", "past"} /\ dl \in {"none", "future"}
    /\ outcome \in {"none", "bytes", "timeout", "end"}

\* The last byte Read has taken from the channel, and the last one fill has put
\* into it.
Taken == IF leftover = NoChunk THEN got ELSE leftover[2]
Queued == IF chunkCh = <<>> THEN Taken ELSE chunkCh[Len(chunkCh)][2]

\* What was returned, the leftover, the channel and fill's hand hold the bytes
\* read from the stream, each once and in order, wherever Read and fill are.
BytesInOrder ==
    /\ leftover # NoChunk => leftover[1] = got + 1 /\ leftover[2] <= filled
    /\ chunkCh # <<>> => chunkCh[1][1] = Taken + 1
    /\ \A i \in 1 .. (Len(chunkCh) - 1) : chunkCh[i + 1][1] = chunkCh[i][2] + 1
    /\ \A i \in 1 .. Len(chunkCh) : chunkCh[i][2] <= filled
    /\ IF hand = NoChunk THEN filled = Queued ELSE hand = <<Queued + 1, filled>>

\* A Read waits only with the leftover used up, and can time out only if a
\* deadline was set; doneCh is closed only when the stream is drained or reset.
WaitsForAReason ==
    /\ IF pc = "select" THEN leftover = NoChunk ELSE dl = "none"
    /\ pc # "idle" /\ (deadline # "none" \/ dl # "none") => armed
    /\ done => hand = NoChunk /\ closed # "open" /\ (closed = "eof" => filled = sent)

\* The state of a connection: types and bounds, the bytes in order, and what
\* Read may conclude from the channels it selects on.
BufferIsSound == BufferTypeOK /\ BytesInOrder /\ WaitsForAReason

\* The variables of ByteStream are kept under the same names.
Stream == INSTANCE ByteStream
          WITH sent <- sent, closed <- closed, size <- size, deadline <- deadline,
               armed <- armed, got <- got, last <- last, outcome <- outcome

\* bufferedConn is a connection net/http and crypto/tls can read from: no
\* byte is lost, repeated or reordered, a timeout takes none, and the end
\* comes last although doneCh and the channel are selected on together.
ImplementsStream == Stream!Spec

\* A Read ends, the probe net/http aborts before a hijack too: the deadline
\* that is to abort it does not wake it, the client's next byte or its
\* leaving does.
ReadReturns == pc # "idle" ~> pc = "idle"

\* fill waits with a chunk for a place in the full channel, and no Read runs.
FillWaits == hand # NoChunk /\ Len(chunkCh) = Cap /\ pc = "idle"

\* After Close the fill goroutine ends or is left waiting for a Read that
\* will not come: it selects on nothing but the channel, so the code leaks it
\* when the server goes with more unread chunks than the channel holds.
FillEnds == left ~> done \/ FillWaits

\* As long as the server goes on to Read and its deadlines have been cleared,
\* fill ends after the stream has: it waits for the reader, never for ever.
ServerReads == []<>(pc = "select") /\ <>[](deadline = "none")
FillFollows == ServerReads => (closed # "open" ~> done)

\* Every Read returns; the fill goroutine ends after a stream that is read to
\* its end, and after Close it ends or is leaked with a full channel.
ReadAndFillEnd == ReadReturns /\ FillEnds /\ FillFollows
=============================================================================
