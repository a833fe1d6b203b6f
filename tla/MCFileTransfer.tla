--------------------------- MODULE MCFileTransfer ---------------------------
(* Model checking FileTransfer: a file "x" and one of the same name or "x.part". *)
EXTENDS FileTransfer

CONSTANTS t1, t2

MCNames == [t \in Transfer |-> IF t = t1 THEN {0} ELSE {0, 1}]

\* <<k, s>> is "x (k)" with ".part" s times after it.
MCFile == (1 .. MaxCopies) \X (0 .. 2)
MCCopy == [s \in 0 .. 1 |-> [k \in 1 .. MaxCopies |-> <<k, s>>]]
MCPartOf == [p \in (1 .. MaxCopies) \X (0 .. 1) |-> <<p[1], p[2] + 1>>]
=============================================================================
