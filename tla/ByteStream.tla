----------------------------- MODULE ByteStream -----------------------------
(***************************************************************************)
(* What net/http and crypto/tls ask of a connection they read from: bytes  *)
(* come once and in order, a read that times out takes none, a read times  *)
(* out only if a deadline was set while it ran, and the end is reported    *)
(* after the last byte, unless the connection was reset.                   *)
(***************************************************************************)
EXTENDS Naturals

CONSTANTS MaxBytes, MaxRead

VARIABLES
    sent,      \* bytes the peer wrote
    closed,    \* "open", "eof" after the peer's last byte, or "reset"
    size,      \* buffer of the Read in progress, 0 for none
    deadline,  \* the read deadline: "none", "future" or "past"
    armed,     \* a deadline was set at some time during the Read in progress
    got,       \* bytes returned so far
    last,      \* first byte and number of bytes of the last return
    outcome    \* of the last Read

vars == <<sent, closed, size, deadline, armed, got, last, outcome>>

Init ==
    /\ sent = 0 /\ closed = "open" /\ size = 0
    /\ deadline = "none" /\ armed = FALSE
    /\ got = 0 /\ last = <<1, 0>> /\ outcome = "none"

Send(n) ==
    /\ closed = "open" /\ n \in 1 .. (MaxBytes - sent)
    /\ sent' = sent + n
    /\ UNCHANGED <<closed, size, deadline, armed, got, last, outcome>>

Shut(how) ==
    /\ closed = "open" /\ how \in {"eof", "reset"}
    /\ closed' = how
    /\ UNCHANGED <<sent, size, deadline, armed, got, last, outcome>>

SetReadDeadline(t) ==
    /\ t \in {"none", "future", "past"}
    /\ deadline' = t
    /\ armed' = (armed \/ (size > 0 /\ t # "none"))
    /\ UNCHANGED <<sent, closed, size, got, last, outcome>>

Call(m) ==
    /\ size = 0 /\ m \in 1 .. MaxRead
    /\ size' = m /\ armed' = (deadline # "none")
    /\ UNCHANGED <<sent, closed, deadline, got, last, outcome>>

Deliver(n) ==
    /\ size > 0 /\ n \in 1 .. size /\ n <= sent - got
    /\ last' = <<got + 1, n>> /\ got' = got + n
    /\ size' = 0 /\ armed' = FALSE /\ outcome' = "bytes"
    /\ UNCHANGED <<sent, closed, deadline>>

TimeOut ==
    /\ size > 0 /\ armed
    /\ size' = 0 /\ armed' = FALSE /\ outcome' = "timeout"
    /\ UNCHANGED <<sent, closed, deadline, got, last>>

End ==
    /\ size > 0 /\ closed # "open" /\ (closed = "eof" => got = sent)
    /\ size' = 0 /\ armed' = FALSE /\ outcome' = "end"
    /\ UNCHANGED <<sent, closed, deadline, got, last>>

Next ==
    \/ \E n \in 1 .. MaxBytes : Send(n)
    \/ \E how \in {"eof", "reset"} : Shut(how)
    \/ \E t \in {"none", "future", "past"} : SetReadDeadline(t)
    \/ \E m \in 1 .. MaxRead : Call(m) \/ Deliver(m)
    \/ TimeOut \/ End

Spec == Init /\ [][Next]_vars
=============================================================================
