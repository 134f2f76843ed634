------------------------------ MODULE ByteFifo ------------------------------
(***************************************************************************)
(* What a ring buffer of source/sosal/ring.c promises its callers: a       *)
(* bounded first-in first-out stream of bytes.  A write is all or nothing; *)
(* a read delivers as many of the oldest bytes as there are, up to the     *)
(* length asked for; both may be asked for nothing.  Ring implements this. *)
(***************************************************************************)
EXTENDS Naturals, Sequences

CONSTANTS Capacity,   \* number of bytes the stream can hold
          Bytes,      \* byte values
          MaxLen      \* longest transfer a caller asks for

VARIABLES fifo,       \* the bytes written and not yet read, oldest first
          result      \* what the last call returned to its caller

Transfers == UNION {[1..n -> Bytes] : n \in 0..MaxLen}

Init == /\ fifo = << >>
        /\ result = << >>

Write(b) ==
    /\ IF Len(b) <= Capacity - Len(fifo)
         THEN fifo' = fifo \o b /\ result' = b
         ELSE fifo' = fifo /\ result' = << >>

Read(len) ==
    LET n == IF len < Len(fifo) THEN len ELSE Len(fifo)
    IN  /\ result' = SubSeq(fifo, 1, n)
        /\ fifo' = SubSeq(fifo, n + 1, Len(fifo))

Next == \/ \E b \in Transfers : Write(b)
        \/ \E len \in 0..MaxLen : Read(len)

Spec == Init /\ [][Next]_<<fifo, result>>
=============================================================================
