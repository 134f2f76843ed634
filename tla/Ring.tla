-------------------------------- MODULE Ring --------------------------------
(***************************************************************************)
(* The byte ring of source/sosal/ring.c.  The pointers start, end, front   *)
(* and back are offsets into the buffer: start is 0 and end, one past the  *)
(* last byte, is TotalNumBytes.  front = back means full or empty; only    *)
(* the two byte counts tell which.                                         *)
(***************************************************************************)
EXTENDS Integers, Sequences

CONSTANTS TotalNumBytes,  \* size given to ring_create
          Bytes,          \* byte values
          Zero,           \* the byte calloc fills the buffer with
          MaxLen          \* bound: longest transfer a caller asks for

ASSUME RingAssumption == /\ TotalNumBytes \in Nat \ {0}
                         /\ MaxLen \in Nat \ {0}
                         /\ Zero \in Bytes

VARIABLES buf,            \* the bytes at offsets 0 .. TotalNumBytes - 1
          front,          \* offset of the next byte to read
          back,           \* offset of the next byte to write
          numBytesFree,
          numBytesUsed,
          result          \* bytes the last call transferred (<< >> for none)

vars == <<buf, front, back, numBytesFree, numBytesUsed, result>>

Offsets == 0 .. TotalNumBytes - 1

\* The data of a call; ring_write and ring_read do not test for length 0.
Transfers == UNION {[1..n -> Bytes] : n \in 0..MaxLen}

\* memcpy of the sequence b into the buffer m at offset at.
Copy(m, at, b) ==
    [i \in Offsets |-> IF at <= i /\ i < at + Len(b) THEN b[i - at + 1] ELSE m[i]]

\* The n bytes of the buffer from offset at on.
Fetch(at, n) == [i \in 1..n |-> buf[at + i - 1]]

-----------------------------------------------------------------------------
ring_create ==
    /\ buf = [i \in Offsets |-> Zero]
    /\ front = 0
    /\ back = 0
    /\ numBytesFree = TotalNumBytes
    /\ numBytesUsed = 0
    /\ result = << >>

\* Mutant: the space test is off by one.
WriteRefusedLoosely(len) == len > numBytesFree + 1

\* The first test of ring_write: data that does not fit is not written at all.
WriteRefused(len) == len > numBytesFree

\* The write that may run past the end: one byte, a ring that has not wrapped,
\* or an empty one.
WriteMayWrap(len) ==
    len = 1 \/ back > front \/ (back = front /\ numBytesUsed = 0)

\* The write into the gap of a wrapped ring, between back and front.
WriteInGap(len) ==
    /\ len # 1
    /\ front > back
    /\ len <= front - back

\* Neither of the two copies applies: one of ring_write's asserts fails.  The
\* program ends there, or, built with NDEBUG, the call returns 0.
WriteAssertFails(len) == ~WriteMayWrap(len) /\ ~WriteInGap(len)

\* Mutant: the wrap is missed when the data ends exactly at the end.
NoWrapAtEnd(b) ==
    LET end_to_back == TotalNumBytes - back
    IN  IF Len(b) <= end_to_back
          THEN /\ buf' = Copy(buf, back, b)
               /\ back' = back + Len(b)
          ELSE /\ buf' = Copy(Copy(buf, back, SubSeq(b, 1, end_to_back)),
                              0, SubSeq(b, end_to_back + 1, Len(b)))
               /\ back' = Len(b) - end_to_back

CopyWrapped(b) ==
    LET end_to_back == TotalNumBytes - back
    IN  IF Len(b) < end_to_back
          THEN /\ buf' = Copy(buf, back, b)
               /\ back' = back + Len(b)
          ELSE /\ buf' = Copy(Copy(buf, back, SubSeq(b, 1, end_to_back)),
                              0, SubSeq(b, end_to_back + 1, Len(b)))
               /\ back' = Len(b) - end_to_back

CountWritten(b) ==
    /\ numBytesFree' = numBytesFree - Len(b)
    /\ numBytesUsed' = numBytesUsed + Len(b)
    /\ result' = b

ring_write(b) ==
    \/ /\ WriteRefused(Len(b))
       /\ result' = << >>
       /\ UNCHANGED <<buf, front, back, numBytesFree, numBytesUsed>>
    \/ /\ ~WriteRefused(Len(b))
       /\ WriteMayWrap(Len(b))
       /\ CopyWrapped(b)
       /\ CountWritten(b)
       /\ UNCHANGED front
    \/ /\ ~WriteRefused(Len(b))
       /\ ~WriteMayWrap(Len(b))
       /\ WriteInGap(Len(b))
       /\ buf' = Copy(buf, back, b)
       /\ back' = back + Len(b)
       /\ CountWritten(b)
       /\ UNCHANGED front
    \/ /\ ~WriteRefused(Len(b))
       /\ WriteAssertFails(Len(b))
       /\ result' = << >>
       /\ UNCHANGED <<buf, front, back, numBytesFree, numBytesUsed>>

-----------------------------------------------------------------------------
\* The read of a ring that has not wrapped: front cannot pass back.
ReadIsContiguous(len) == len # 1 /\ back > front

\* The read that may run past the end: one byte, a wrapped ring, a full one.
ReadMayWrap(len) == len = 1 \/ front > back \/ (front = back /\ numBytesFree = 0)

ReadAssertFails(len) ==
    numBytesUsed # 0 /\ ~ReadIsContiguous(len) /\ ~ReadMayWrap(len)

\* Mutant: a read gives the space back but still counts the bytes as used.
CountReadHalf(n) ==
    /\ numBytesFree' = numBytesFree + n
    /\ numBytesUsed' = numBytesUsed

CountRead(n) ==
    /\ numBytesFree' = numBytesFree + n
    /\ numBytesUsed' = numBytesUsed - n

\* Mutant: the tail of a wrapped read is not cut at back.
LeftOverUncut(len) ==
    LET end_to_front == TotalNumBytes - front IN len - end_to_front

\* How much of a read that reaches the end is taken from the start again.
LeftOver(len) ==
    LET left_over == len - (TotalNumBytes - front)
    IN  IF left_over <= back THEN left_over ELSE back

FetchWrapped(len) ==
    LET end_to_front == TotalNumBytes - front
    IN  IF len < end_to_front
          THEN /\ result' = Fetch(front, len)
               /\ front' = front + len
               /\ CountRead(len)
          ELSE /\ result' = Fetch(front, end_to_front) \o Fetch(0, LeftOver(len))
               /\ front' = LeftOver(len)
               /\ CountRead(end_to_front + LeftOver(len))

\* The one-byte read: front wraps when it meets the end.
FetchOne ==
    /\ result' = <<buf[front]>>
    /\ front' = IF front + 1 = TotalNumBytes THEN 0 ELSE front + 1
    /\ CountRead(1)

ring_read(len) ==
    \/ /\ numBytesUsed = 0
       /\ result' = << >>
       /\ UNCHANGED <<buf, front, back, numBytesFree, numBytesUsed>>
    \/ /\ numBytesUsed # 0
       /\ len = 1
       /\ FetchOne
       /\ UNCHANGED <<buf, back>>
    \/ /\ numBytesUsed # 0
       /\ ReadIsContiguous(len)
       /\ LET n == IF len < back - front THEN len ELSE back - front
          IN  /\ result' = Fetch(front, n)
              /\ front' = front + n
              /\ CountRead(n)
       /\ UNCHANGED <<buf, back>>
    \/ /\ numBytesUsed # 0
       /\ len # 1
       /\ ~ReadIsContiguous(len)
       /\ ReadMayWrap(len)
       /\ FetchWrapped(len)
       /\ UNCHANGED <<buf, back>>

-----------------------------------------------------------------------------
Init == ring_create

Next == \/ \E b \in Transfers : ring_write(b)
        \/ \E len \in 0..MaxLen : ring_read(len)

Spec == Init /\ [][Next]_vars

-----------------------------------------------------------------------------
\* Type invariant: the pointers stay inside the buffer.
TypeOK == /\ buf \in [Offsets -> Bytes]
          /\ front \in Offsets
          /\ back \in Offsets
          /\ numBytesFree \in 0..TotalNumBytes
          /\ numBytesUsed \in 0..TotalNumBytes
          /\ result \in Transfers

\* The offset an unwrapped position stands for.
Wrap(x) == IF x < TotalNumBytes THEN x ELSE x - TotalNumBytes

\* The pointers and the two counts of ring_t describe the same contents: the
\* counts add up to the size and back lies numBytesUsed bytes after front.
PointersAgree ==
    /\ numBytesFree + numBytesUsed = TotalNumBytes
    /\ back = Wrap(front + numBytesUsed)

\* The asserts on the code paths ring.c calls impossible (lines 128, 136, 146,
\* 186, 315, 321) never fail, whatever length the next caller passes, with one
\* exception: a write of length 0 passes the space test of a full ring and
\* fails the assert of line 136.
AssertionsHold ==
    \A len \in 0..MaxLen :
        /\ (~WriteRefused(len) /\ WriteAssertFails(len)) <=> (len = 0 /\ numBytesFree = 0)
        /\ ~ReadAssertFails(len)

\* The bytes between front and back, unrolled.
Contents ==
    [i \in 1..numBytesUsed |-> buf[Wrap(front + i - 1)]]

Fifo == INSTANCE ByteFifo WITH fifo <- Contents, Capacity <- TotalNumBytes

\* The ring implements the byte stream: no byte is lost, repeated or
\* overwritten before it is read, across wraps, exact fits and partial reads.
ImplementsFifo == Fifo!Spec
=============================================================================
