----------------------------- MODULE RingProofs -----------------------------
(***************************************************************************)
(* Proofs about the byte ring: for every size of the buffer and every      *)
(* length of a transfer the pointers stay inside the buffer, agree with the*)
(* two counts, the one assertion of ring.c that can fail is that of a      *)
(* zero-length write on a full ring, and the buffer is a byte stream.      *)
(***************************************************************************)
EXTENDS Ring, SequenceTheorems, TLAPS

\* What the proofs need to know of the data a caller passes.
LEMMA TransferFacts ==
    ASSUME NEW b \in Transfers
    PROVE  b \in Seq(Bytes) /\ Len(b) \in 0..MaxLen
<1>1. PICK n \in 0..MaxLen : b \in [1..n -> Bytes]
      BY DEF Transfers
<1>2. n \in Nat
      BY RingAssumption
<1>3. b \in Seq(Bytes) /\ Len(b) = n
      BY <1>1, <1>2
<1> QED
      BY <1>1, <1>3

\* A sequence of the right length is a transfer.
LEMMA MakeTransfer ==
    ASSUME NEW s \in Seq(Bytes), Len(s) \in 0..MaxLen
    PROVE  s \in Transfers
<1>1. s \in [1..Len(s) -> Bytes]
      OBVIOUS
<1> QED
      BY <1>1 DEF Transfers

\* A call that transfers nothing.
LEMMA EmptyTransfer == << >> \in Transfers
<1>1. << >> \in Seq(Bytes) /\ Len(<< >>) = 0 /\ 0 \in 0..MaxLen
      BY RingAssumption
<1> QED
      BY <1>1, MakeTransfer

\* memcpy leaves a buffer of bytes.
LEMMA CopyType ==
    ASSUME NEW m \in [Offsets -> Bytes], NEW at \in Nat, NEW b \in Seq(Bytes)
    PROVE  Copy(m, at, b) \in [Offsets -> Bytes]
<1>1. ASSUME NEW i \in Offsets, at <= i, i < at + Len(b)
      PROVE  b[i - at + 1] \in Bytes
  <2>1. i - at + 1 \in 1..Len(b)
        BY <1>1, RingAssumption DEF Offsets
  <2> QED
        BY <2>1
<1> QED
      BY <1>1 DEF Copy

\* A copy out of the buffer yields a sequence of bytes.
LEMMA FetchType ==
    ASSUME TypeOK, NEW at \in Nat, NEW n \in Nat, at + n <= TotalNumBytes
    PROVE  Fetch(at, n) \in Seq(Bytes) /\ Len(Fetch(at, n)) = n
<1>1. ASSUME NEW i \in 1..n
      PROVE  buf[at + i - 1] \in Bytes
  <2>1. at + i - 1 \in Offsets
        BY <1>1, RingAssumption DEF Offsets
  <2> QED
        BY <2>1 DEF TypeOK
<1>2. Fetch(at, n) \in [1..n -> Bytes]
      BY <1>1 DEF Fetch
<1> QED
      BY <1>2

-----------------------------------------------------------------------------
\* Moving a wrapped offset on by l is the same as wrapping the sum.
LEMMA Advance ==
    ASSUME NEW N \in Nat \ {0}, NEW f \in 0..N - 1, NEW u \in Nat, NEW l \in Nat,
           u + l <= N,
           NEW b \in Nat, b = IF f + u < N THEN f + u ELSE f + u - N
    PROVE  (IF b + l < N THEN b + l ELSE b + l - N)
             = (IF f + (u + l) < N THEN f + (u + l) ELSE f + (u + l) - N)
OBVIOUS

\* The inductive invariant: neither half is inductive alone.  Where the copies
\* land depends on the counts, and what the counts become on where they land.
IInv == TypeOK /\ PointersAgree

\* ring_create establishes the invariant.
LEMMA InitIInv == Init => IInv
<1> SUFFICES ASSUME Init
             PROVE  IInv
    OBVIOUS
<1> USE RingAssumption
<1>1. TypeOK
      BY EmptyTransfer DEF Init, ring_create, TypeOK, Offsets
<1>2. PointersAgree
      BY DEF Init, ring_create, PointersAgree, Wrap
<1> QED
      BY <1>1, <1>2 DEF IInv

\* The wrapping copy keeps back inside the buffer and moves it on by the length
\* of the data, modulo the size of the ring.
LEMMA CopyWrappedFacts ==
    ASSUME IInv, NEW b \in Transfers, Len(b) <= numBytesFree, CopyWrapped(b)
    PROVE  /\ buf' \in [Offsets -> Bytes]
           /\ back' \in Offsets
           /\ back' = IF back + Len(b) < TotalNumBytes
                        THEN back + Len(b) ELSE back + Len(b) - TotalNumBytes
<1> DEFINE e == TotalNumBytes - back
<1> USE RingAssumption
<1>1. b \in Seq(Bytes) /\ Len(b) \in Nat
      BY TransferFacts
<1>2. back \in Offsets /\ back \in Nat /\ e \in Nat \ {0}
      BY DEF IInv, TypeOK, Offsets
<1>3. Len(b) <= TotalNumBytes
      BY <1>1 DEF IInv, TypeOK
<1>4. CASE Len(b) < e
  <2>1. buf' = Copy(buf, back, b) /\ back' = back + Len(b)
        BY <1>4 DEF CopyWrapped
  <2>2. buf' \in [Offsets -> Bytes]
        BY <2>1, <1>1, <1>2, CopyType DEF IInv, TypeOK
  <2> QED
        BY <2>1, <2>2, <1>1, <1>2, <1>4 DEF Offsets
<1>5. CASE ~(Len(b) < e)
  <2> DEFINE m == Copy(buf, back, SubSeq(b, 1, e))
             r == SubSeq(b, e + 1, Len(b))
  <2>1. buf' = Copy(m, 0, r) /\ back' = Len(b) - e
        BY <1>5 DEF CopyWrapped
  <2>2. SubSeq(b, 1, e) \in Seq(Bytes) /\ r \in Seq(Bytes)
        BY <1>1, <1>2, <1>5
  <2>3. m \in [Offsets -> Bytes]
        BY <2>2, <1>2, CopyType DEF IInv, TypeOK
  <2> HIDE DEF m, r
  <2>4. buf' \in [Offsets -> Bytes]
        BY <2>1, <2>2, <2>3, CopyType
  <2> QED
        BY <2>1, <2>4, <1>1, <1>2, <1>3, <1>5 DEF Offsets
<1> QED
      BY <1>4, <1>5

\* ring_write, each of its four outcomes, keeps the invariant.
LEMMA WriteIInv ==
    ASSUME IInv, NEW b \in Transfers, ring_write(b)
    PROVE  IInv'
<1> USE RingAssumption
<1>1. b \in Seq(Bytes) /\ Len(b) \in Nat
      BY TransferFacts
<1>2. CASE WriteRefused(Len(b)) /\ result' = << >>
           /\ UNCHANGED <<buf, front, back, numBytesFree, numBytesUsed>>
      BY <1>2, EmptyTransfer DEF IInv, TypeOK, PointersAgree, Wrap
<1>3. CASE ~WriteRefused(Len(b)) /\ WriteMayWrap(Len(b)) /\ CopyWrapped(b)
           /\ CountWritten(b) /\ UNCHANGED front
  <2>1. Len(b) <= numBytesFree
        BY <1>1, <1>3 DEF WriteRefused, IInv, TypeOK
  <2>2. /\ buf' \in [Offsets -> Bytes]
        /\ back' \in Offsets
        /\ back' = IF back + Len(b) < TotalNumBytes
                     THEN back + Len(b) ELSE back + Len(b) - TotalNumBytes
        BY <1>3, <2>1, CopyWrappedFacts
  <2>3. TypeOK'
        BY <1>1, <1>3, <2>1, <2>2 DEF CountWritten, IInv, TypeOK, PointersAgree, Wrap
  <2>4. numBytesUsed + Len(b) <= TotalNumBytes /\ numBytesUsed \in Nat /\ back \in Nat
        BY <1>1, <2>1 DEF IInv, TypeOK, PointersAgree, Wrap, Offsets
  <2>5. back' = IF front + (numBytesUsed + Len(b)) < TotalNumBytes
                  THEN front + (numBytesUsed + Len(b))
                  ELSE front + (numBytesUsed + Len(b)) - TotalNumBytes
        BY <1>1, <2>2, <2>4, Advance DEF IInv, TypeOK, PointersAgree, Wrap, Offsets
  <2>6. front' = front /\ numBytesUsed' = numBytesUsed + Len(b)
        /\ numBytesFree' = numBytesFree - Len(b)
        BY <1>3 DEF CountWritten
  <2>7. PointersAgree'
        BY <1>1, <2>5, <2>6 DEF IInv, TypeOK, PointersAgree, Wrap
  <2> QED
        BY <2>3, <2>7 DEF IInv
<1>4. CASE ~WriteRefused(Len(b)) /\ ~WriteMayWrap(Len(b)) /\ WriteInGap(Len(b))
           /\ buf' = Copy(buf, back, b) /\ back' = back + Len(b)
           /\ CountWritten(b) /\ UNCHANGED front
  <2>1. Len(b) <= numBytesFree /\ Len(b) <= front - back
        BY <1>1, <1>4 DEF WriteRefused, WriteInGap, IInv, TypeOK, Offsets
  <2>2. back \in Nat
        BY DEF IInv, TypeOK, Offsets
  <2>3. buf' \in [Offsets -> Bytes]
        BY <1>1, <1>4, <2>2, CopyType DEF IInv, TypeOK
  <2>4. TypeOK'
        BY <1>1, <1>4, <2>1, <2>3 DEF CountWritten, IInv, TypeOK, PointersAgree, Wrap, Offsets
  <2>5. PointersAgree'
        BY <1>1, <1>4, <2>1 DEF CountWritten, IInv, TypeOK, PointersAgree, Wrap, Offsets
  <2> QED
        BY <2>4, <2>5 DEF IInv
<1>5. CASE ~WriteRefused(Len(b)) /\ WriteAssertFails(Len(b)) /\ result' = << >>
           /\ UNCHANGED <<buf, front, back, numBytesFree, numBytesUsed>>
      BY <1>5, EmptyTransfer DEF IInv, TypeOK, PointersAgree, Wrap
<1> QED
      BY <1>2, <1>3, <1>4, <1>5 DEF ring_write

-----------------------------------------------------------------------------
\* What a read of n bytes, n at most numBytesUsed, does to the invariant.
LEMMA TakeIInv ==
    ASSUME IInv, NEW n \in Nat, n <= numBytesUsed,
           buf' = buf, back' = back, result' \in Transfers,
           front' = IF front + n < TotalNumBytes
                      THEN front + n ELSE front + n - TotalNumBytes,
           CountRead(n)
    PROVE  IInv'
<1> USE RingAssumption
<1>1. front \in 0..TotalNumBytes - 1 /\ numBytesUsed \in 0..TotalNumBytes
      /\ numBytesFree \in 0..TotalNumBytes
      BY DEF IInv, TypeOK, Offsets
<1>2. numBytesFree + numBytesUsed = TotalNumBytes
      BY DEF IInv, PointersAgree, Wrap
<1>3. numBytesFree' = numBytesFree + n /\ numBytesUsed' = numBytesUsed - n
      BY DEF CountRead
<1>4. front' \in Offsets /\ numBytesFree' \in 0..TotalNumBytes
      /\ numBytesUsed' \in 0..TotalNumBytes
      BY <1>1, <1>2, <1>3 DEF Offsets
<1>5. TypeOK'
      BY <1>4 DEF IInv, TypeOK
<1>6. PointersAgree'
      BY <1>1, <1>2, <1>3 DEF IInv, PointersAgree, Wrap
<1> QED
      BY <1>5, <1>6 DEF IInv

\* ring_read, each of its four outcomes, keeps the invariant.
LEMMA ReadIInv ==
    ASSUME IInv, NEW len \in 0..MaxLen, ring_read(len)
    PROVE  IInv'
<1> USE RingAssumption
<1>1. /\ front \in Nat /\ front < TotalNumBytes
      /\ back \in Nat /\ back < TotalNumBytes
      /\ numBytesUsed \in Nat /\ numBytesFree \in Nat
      /\ len \in Nat
      /\ numBytesFree + numBytesUsed = TotalNumBytes
      BY DEF IInv, TypeOK, PointersAgree, Wrap, Offsets
<1>2. CASE numBytesUsed = 0 /\ result' = << >>
           /\ UNCHANGED <<buf, front, back, numBytesFree, numBytesUsed>>
      BY <1>2, EmptyTransfer DEF IInv, TypeOK, PointersAgree, Wrap
<1>3. CASE numBytesUsed # 0 /\ len = 1 /\ FetchOne /\ UNCHANGED <<buf, back>>
  <2>1. buf[front] \in Bytes
        BY DEF IInv, TypeOK
  <2>2. result' \in Transfers
    <3>1. <<buf[front]>> \in Seq(Bytes) /\ Len(<<buf[front]>>) = 1
          BY <2>1
    <3> QED
          BY <3>1, <1>3, MakeTransfer DEF FetchOne
  <2>3. front' = IF front + 1 < TotalNumBytes THEN front + 1 ELSE front + 1 - TotalNumBytes
        BY <1>1, <1>3 DEF FetchOne
  <2> QED
        BY <1>1, <1>3, <2>2, <2>3, TakeIInv DEF FetchOne
<1>4. CASE numBytesUsed # 0 /\ ReadIsContiguous(len) /\ UNCHANGED <<buf, back>>
           /\ LET n == IF len < back - front THEN len ELSE back - front
              IN  /\ result' = Fetch(front, n)
                  /\ front' = front + n
                  /\ CountRead(n)
  <2> DEFINE n == IF len < back - front THEN len ELSE back - front
  <2>1. back > front /\ numBytesUsed = back - front
        BY <1>1, <1>4 DEF ReadIsContiguous, IInv, PointersAgree, Wrap
  <2>2. n \in Nat /\ n <= numBytesUsed /\ front + n <= back /\ n <= len
        BY <1>1, <2>1
  <2>3. result' = Fetch(front, n) /\ front' = front + n /\ CountRead(n)
        BY <1>4
  <2> HIDE DEF n
  <2>4. Fetch(front, n) \in Seq(Bytes) /\ Len(Fetch(front, n)) = n
        BY <1>1, <2>2, FetchType DEF IInv
  <2>5. n \in 0..MaxLen
        BY <1>1, <2>2
  <2>6. result' \in Transfers
        BY <2>3, <2>4, <2>5, MakeTransfer
  <2>7. front' = IF front + n < TotalNumBytes THEN front + n ELSE front + n - TotalNumBytes
        BY <1>1, <2>2, <2>3
  <2> QED
        BY <1>4, <2>2, <2>3, <2>6, <2>7, TakeIInv
<1>5. CASE numBytesUsed # 0 /\ len # 1 /\ ~ReadIsContiguous(len) /\ ReadMayWrap(len)
           /\ FetchWrapped(len) /\ UNCHANGED <<buf, back>>
  <2> DEFINE e == TotalNumBytes - front
  <2>1. e \in Nat \ {0} /\ numBytesUsed = e + back
        BY <1>1, <1>5 DEF ReadIsContiguous, ReadMayWrap, IInv, PointersAgree, Wrap
  <2>2. CASE len < e
    <3>1. result' = Fetch(front, len) /\ front' = front + len /\ CountRead(len)
          BY <1>5, <2>2 DEF FetchWrapped
    <3>2. Fetch(front, len) \in Seq(Bytes) /\ Len(Fetch(front, len)) = len
          BY <1>1, <2>1, <2>2, FetchType DEF IInv
    <3>3. result' \in Transfers
          BY <3>1, <3>2, MakeTransfer
    <3>4. front' = IF front + len < TotalNumBytes
                     THEN front + len ELSE front + len - TotalNumBytes
          BY <1>1, <2>1, <2>2, <3>1
    <3>5. len \in Nat /\ len <= numBytesUsed
          BY <1>1, <2>1, <2>2
    <3> QED
          BY <1>5, <3>1, <3>3, <3>4, <3>5, TakeIInv
  <2>3. CASE ~(len < e)
    <3> DEFINE l == LeftOver(len)
    <3>1. l \in Nat /\ l <= back /\ e + l <= len
          BY <1>1, <2>1, <2>3 DEF LeftOver
    <3>2. result' = Fetch(front, e) \o Fetch(0, l) /\ front' = l /\ CountRead(e + l)
          BY <1>5, <2>3 DEF FetchWrapped
    <3>a. front + e <= TotalNumBytes
          BY <1>1
    <3> HIDE DEF l, e
    <3>3. Fetch(front, e) \in Seq(Bytes) /\ Len(Fetch(front, e)) = e
          BY <1>1, <2>1, <3>a, FetchType DEF IInv
    <3>4. Fetch(0, l) \in Seq(Bytes) /\ Len(Fetch(0, l)) = l
          BY <1>1, <3>1, FetchType DEF IInv
    <3>5. result' \in Seq(Bytes) /\ Len(result') = e + l
          BY <3>2, <3>3, <3>4, <2>1, <3>1, ConcatProperties
    <3>6. e + l \in 0..MaxLen
          BY <1>1, <2>1, <3>1
    <3>7. result' \in Transfers
          BY <3>5, <3>6, MakeTransfer
    <3>8. front' = IF front + (e + l) < TotalNumBytes
                     THEN front + (e + l) ELSE front + (e + l) - TotalNumBytes
          BY <1>1, <2>1, <3>1, <3>2 DEF e
    <3>9. e + l \in Nat /\ e + l <= numBytesUsed
          BY <1>1, <2>1, <3>1
    <3> QED
          BY <1>5, <3>2, <3>7, <3>8, <3>9, TakeIInv
  <2> QED
        BY <2>2, <2>3
<1> QED
      BY <1>2, <1>3, <1>4, <1>5 DEF ring_read

-----------------------------------------------------------------------------
\* In every reachable state the pointers lie inside the buffer and agree with
\* numBytesFree and numBytesUsed, for every buffer size and transfer length.
THEOREM RingInvariant == Spec => []IInv
<1>1. IInv /\ [Next]_vars => IInv'
  <2> SUFFICES ASSUME IInv, [Next]_vars
               PROVE  IInv'
      OBVIOUS
  <2>1. ASSUME NEW b \in Transfers, ring_write(b)
        PROVE  IInv'
        BY <2>1, WriteIInv
  <2>2. ASSUME NEW len \in 0..MaxLen, ring_read(len)
        PROVE  IInv'
        BY <2>2, ReadIInv
  <2>3. CASE UNCHANGED vars
        BY <2>3 DEF vars, IInv, TypeOK, PointersAgree, Wrap
  <2> QED
        BY <2>1, <2>2, <2>3 DEF Next
<1> QED
      BY InitIInv, <1>1, PTL DEF Spec

\* The buffer is never accessed outside its bounds: TypeOK holds for every size.
THEOREM RingTypeOK == Spec => []TypeOK
<1>1. IInv => TypeOK
      BY DEF IInv
<1> QED
      BY RingInvariant, <1>1, PTL

\* The two counts and the two pointers never disagree.
THEOREM RingPointersAgree == Spec => []PointersAgree
<1>1. IInv => PointersAgree
      BY DEF IInv
<1> QED
      BY RingInvariant, <1>1, PTL

\* The one write that reaches an assert of ring.c and fails it: nothing to
\* write and no byte free.
LEMMA AssertFailure ==
    ASSUME IInv, NEW len \in 0..MaxLen
    PROVE  (~WriteRefused(len) /\ WriteAssertFails(len)) <=> (len = 0 /\ numBytesFree = 0)
<1> USE RingAssumption
<1>1. /\ front \in Nat /\ front < TotalNumBytes
      /\ back \in Nat /\ back < TotalNumBytes
      /\ numBytesUsed \in Nat /\ numBytesFree \in Nat
      /\ len \in Nat
      BY DEF IInv, TypeOK, Offsets
<1>2. /\ numBytesFree + numBytesUsed = TotalNumBytes
      /\ back = Wrap(front + numBytesUsed)
      BY DEF IInv, PointersAgree
<1>3. ASSUME ~WriteRefused(len), WriteAssertFails(len)
      PROVE  len = 0 /\ numBytesFree = 0
      BY <1>1, <1>2, <1>3 DEF WriteRefused, WriteAssertFails, WriteMayWrap, WriteInGap, Wrap
<1>4. ASSUME len = 0, numBytesFree = 0
      PROVE  ~WriteRefused(len) /\ WriteAssertFails(len)
  <2>1. numBytesUsed = TotalNumBytes /\ back = front
        BY <1>1, <1>2, <1>4 DEF Wrap
  <2> QED
        BY <1>1, <1>4, <2>1 DEF WriteRefused, WriteAssertFails, WriteMayWrap, WriteInGap
<1> QED
      BY <1>3, <1>4

\* The code paths ring.c calls impossible are impossible for every length of a
\* transfer, but for a zero-length write on a full ring, which fails an assert.
THEOREM RingAssertionsHold == Spec => []AssertionsHold
<1>1. IInv => AssertionsHold
  <2> SUFFICES ASSUME IInv, NEW len \in 0..MaxLen
               PROVE  ~ReadAssertFails(len)
      BY AssertFailure DEF AssertionsHold
  <2> USE RingAssumption
  <2>1. /\ front \in Nat /\ front < TotalNumBytes
        /\ back \in Nat /\ back < TotalNumBytes
        /\ numBytesUsed \in Nat /\ numBytesFree \in Nat
        /\ len \in Nat
        BY DEF IInv, TypeOK, Offsets
  <2> QED
        BY <2>1 DEF ReadAssertFails, ReadIsContiguous, ReadMayWrap, IInv, PointersAgree, Wrap
<1> QED
      BY RingInvariant, <1>1, PTL

-----------------------------------------------------------------------------
(* The ring buffer implements the byte stream ByteFifo: every step of Ring,*)
(* seen through Contents, is a step of the stream or changes nothing.      *)

\* Contents is a sequence of numBytesUsed bytes.
LEMMA ContentsType ==
    ASSUME IInv
    PROVE  /\ Contents \in Seq(Bytes)
           /\ Len(Contents) = numBytesUsed
           /\ \A i \in 1..numBytesUsed : Contents[i] = buf[Wrap(front + i - 1)]
<1> USE RingAssumption
<1>1. numBytesUsed \in Nat /\ numBytesUsed <= TotalNumBytes
      /\ front \in Nat /\ front < TotalNumBytes
      BY DEF IInv, TypeOK, Offsets
<1>2. ASSUME NEW i \in 1..numBytesUsed
      PROVE  buf[Wrap(front + i - 1)] \in Bytes
  <2>1. Wrap(front + i - 1) \in Offsets
        BY <1>1 DEF Offsets, Wrap
  <2> QED
        BY <2>1 DEF IInv, TypeOK
<1>3. Contents \in [1..numBytesUsed -> Bytes]
      BY <1>2 DEF Contents
<1>4. Contents \in Seq(Bytes) /\ Len(Contents) = numBytesUsed
      BY <1>1, <1>3
<1>5. \A i \in 1..numBytesUsed : Contents[i] = buf[Wrap(front + i - 1)]
      BY DEF Contents
<1> QED
      BY <1>4, <1>5

\* After the copies of a write that fits, the data lies at the Len(b) offsets
\* from back on, wrapped, and every other offset keeps its byte.
Written(b) ==
    /\ \A k \in 1..Len(b) : buf'[Wrap(back + k - 1)] = b[k]
    /\ \A j \in Offsets : (\A k \in 1..Len(b) : j # Wrap(back + k - 1)) => buf'[j] = buf[j]

\* A copy that does not reach the end of the buffer.
LEMMA CopyWritten ==
    ASSUME IInv, NEW b \in Seq(Bytes), back + Len(b) <= TotalNumBytes,
           buf' = Copy(buf, back, b)
    PROVE  Written(b)
<1> USE RingAssumption
<1>1. back \in Nat /\ back < TotalNumBytes /\ Len(b) \in Nat
      BY DEF IInv, TypeOK, Offsets
<1>2. ASSUME NEW k \in 1..Len(b)
      PROVE  buf'[Wrap(back + k - 1)] = b[k]
  <2>1. Wrap(back + k - 1) = back + k - 1 /\ back + k - 1 \in Offsets
        BY <1>1 DEF Wrap, Offsets
  <2>2. /\ back <= back + k - 1 /\ back + k - 1 < back + Len(b)
        /\ (back + k - 1) - back + 1 = k
        BY <1>1
  <2> QED
        BY <2>1, <2>2 DEF Copy
<1>3. ASSUME NEW j \in Offsets, \A k \in 1..Len(b) : j # Wrap(back + k - 1)
      PROVE  buf'[j] = buf[j]
  <2>1. j \in Nat
        BY DEF Offsets
  <2>2. ~(back <= j /\ j < back + Len(b))
    <3>1. SUFFICES ASSUME back <= j, j < back + Len(b)
                   PROVE  FALSE
          OBVIOUS
    <3>2. j - back + 1 \in 1..Len(b) /\ back + (j - back + 1) - 1 = j
          BY <1>1, <2>1, <3>1
    <3>3. Wrap(j) = j
          BY <1>1, <2>1, <3>1 DEF Wrap
    <3> QED
          BY <1>3, <3>2, <3>3
  <2> QED
        BY <2>2 DEF Copy
<1> QED
      BY <1>2, <1>3 DEF Written

\* The copy that may be split in two at the end of the buffer.
LEMMA CopyWrappedWritten ==
    ASSUME IInv, NEW b \in Transfers, Len(b) <= numBytesFree, CopyWrapped(b)
    PROVE  Written(b)
<1> DEFINE e == TotalNumBytes - back
<1> USE RingAssumption
<1>1. b \in Seq(Bytes) /\ Len(b) \in Nat
      BY TransferFacts
<1>2. back \in Nat /\ back < TotalNumBytes /\ e \in Nat \ {0} /\ Len(b) <= TotalNumBytes
      BY <1>1 DEF IInv, TypeOK, Offsets
<1>3. CASE Len(b) < e
  <2>1. buf' = Copy(buf, back, b)
        BY <1>3 DEF CopyWrapped
  <2>2. back + Len(b) <= TotalNumBytes
        BY <1>1, <1>2, <1>3
  <2> QED
        BY <1>1, <2>1, <2>2, CopyWritten
<1>4. CASE ~(Len(b) < e)
  <2> DEFINE p == SubSeq(b, 1, e)
             m == Copy(buf, back, p)
             r == SubSeq(b, e + 1, Len(b))
  <2>1. buf' = Copy(m, 0, r)
        BY <1>4 DEF CopyWrapped
  <2>2. p \in Seq(Bytes) /\ Len(p) = e /\ \A i \in 1..e : p[i] = b[i]
        BY <1>1, <1>2, <1>4, SubSeqProperties
  <2>3. r \in Seq(Bytes) /\ Len(r) = Len(b) - e
        /\ \A i \in 1..(Len(b) - e) : r[i] = b[e + i]
        BY <1>1, <1>2, <1>4, SubSeqProperties
  <2>4. \A j \in Offsets : m[j] = IF back <= j /\ j < back + e THEN p[j - back + 1] ELSE buf[j]
        BY <2>2 DEF Copy
  <2> HIDE DEF m, r, p
  <2>5. \A j \in Offsets : buf'[j] = IF j < Len(b) - e THEN r[j + 1] ELSE m[j]
    <3> SUFFICES ASSUME NEW j \in Offsets
                 PROVE  buf'[j] = IF j < Len(b) - e THEN r[j + 1] ELSE m[j]
        OBVIOUS
    <3>1. j \in Nat
          BY DEF Offsets
    <3>2. j - 0 + 1 = j + 1 /\ 0 <= j /\ 0 + Len(r) = Len(b) - e
          BY <3>1, <2>3, <1>1, <1>2
    <3> QED
          BY <2>1, <3>1, <3>2 DEF Copy
  <2>6. ASSUME NEW k \in 1..Len(b)
        PROVE  buf'[Wrap(back + k - 1)] = b[k]
    <3>1. CASE k <= e
      <4>1. Wrap(back + k - 1) = back + k - 1 /\ back + k - 1 \in Offsets
            BY <1>1, <1>2, <3>1 DEF Wrap, Offsets
      <4>2. ~(back + k - 1 < Len(b) - e)
            BY <1>1, <1>2, <1>4
      <4>3. back <= back + k - 1 /\ back + k - 1 < back + e /\ (back + k - 1) - back + 1 = k
            BY <1>1, <1>2, <3>1
      <4>4. m[back + k - 1] = p[k]
            BY <2>4, <4>1, <4>3
      <4>5. k \in 1..e
            BY <1>1, <1>2, <3>1
      <4> QED
            BY <2>2, <2>5, <4>1, <4>2, <4>4, <4>5
    <3>2. CASE ~(k <= e)
      <4>1. Wrap(back + k - 1) = k - e - 1 /\ k - e - 1 \in Offsets
            BY <1>1, <1>2, <3>2 DEF Wrap, Offsets
      <4>2. k - e - 1 < Len(b) - e /\ (k - e - 1) + 1 = k - e /\ k - e \in 1..(Len(b) - e)
            /\ e + (k - e) = k
            BY <1>1, <1>2, <3>2
      <4> QED
            BY <2>3, <2>5, <4>1, <4>2
    <3> QED
          BY <3>1, <3>2
  <2>7. ASSUME NEW j \in Offsets, \A k \in 1..Len(b) : j # Wrap(back + k - 1)
        PROVE  buf'[j] = buf[j]
    <3>1. j \in Nat /\ j < TotalNumBytes
          BY DEF Offsets
    <3>2. j < back
      <4>1. SUFFICES ASSUME back <= j
                     PROVE  FALSE
            BY <3>1, <1>2
      <4>2. j - back + 1 \in 1..Len(b) /\ back + (j - back + 1) - 1 = j
            BY <1>1, <1>2, <1>4, <3>1, <4>1
      <4>3. Wrap(j) = j
            BY <3>1 DEF Wrap
      <4> QED
            BY <2>7, <4>2, <4>3
    <3>3. ~(j < Len(b) - e)
      <4>1. SUFFICES ASSUME j < Len(b) - e
                     PROVE  FALSE
            OBVIOUS
      <4>2. e + j + 1 \in 1..Len(b) /\ back + (e + j + 1) - 1 = TotalNumBytes + j
            BY <1>1, <1>2, <3>1, <4>1
      <4>3. Wrap(TotalNumBytes + j) = j
            BY <3>1 DEF Wrap
      <4> QED
            BY <2>7, <4>2, <4>3
    <3> QED
          BY <2>4, <2>5, <3>1, <3>2, <3>3, <1>2
  <2> QED
        BY <2>6, <2>7 DEF Written
<1> QED
      BY <1>3, <1>4

-----------------------------------------------------------------------------
\* A write of b appends b to the contents.
LEMMA WriteAppends ==
    ASSUME IInv, IInv', NEW b \in Seq(Bytes), Len(b) <= numBytesFree, Written(b),
           front' = front, numBytesUsed' = numBytesUsed + Len(b)
    PROVE  Contents' = Contents \o b
<1> USE RingAssumption
<1> DEFINE u == numBytesUsed
<1>1. /\ front \in Nat /\ front < TotalNumBytes /\ u \in Nat /\ Len(b) \in Nat
      /\ u + Len(b) <= TotalNumBytes
      /\ back = Wrap(front + u)
      BY DEF IInv, TypeOK, PointersAgree, Offsets, Wrap
<1>2. /\ Contents \in Seq(Bytes) /\ Len(Contents) = u
      /\ \A i \in 1..u : Contents[i] = buf[Wrap(front + i - 1)]
      BY ContentsType
<1>3. /\ Contents' \in Seq(Bytes) /\ Len(Contents') = u + Len(b)
      /\ \A i \in 1..(u + Len(b)) : Contents'[i] = buf'[Wrap(front + i - 1)]
  <2>1. (/\ Contents \in Seq(Bytes)
         /\ Len(Contents) = numBytesUsed
         /\ \A i \in 1..numBytesUsed : Contents[i] = buf[Wrap(front + i - 1)])'
        BY ContentsType, PTL
  <2> QED
        BY <2>1 DEF Wrap
<1>4. /\ Contents \o b \in Seq(Bytes) /\ Len(Contents \o b) = u + Len(b)
      /\ \A i \in 1..(u + Len(b)) :
            (Contents \o b)[i] = IF i <= u THEN Contents[i] ELSE b[i - u]
      BY <1>1, <1>2, ConcatProperties
<1> HIDE DEF u
<1>5. ASSUME NEW i \in 1..(u + Len(b))
      PROVE  Contents'[i] = (Contents \o b)[i]
  <2>1. CASE i <= u
    <3>1. Wrap(front + i - 1) \in Offsets
          BY <1>1, <2>1 DEF Wrap, Offsets
    <3>2. \A k \in 1..Len(b) : Wrap(front + i - 1) # Wrap(back + k - 1)
          BY <1>1, <2>1 DEF Wrap
    <3>3. buf'[Wrap(front + i - 1)] = buf[Wrap(front + i - 1)]
          BY <3>1, <3>2 DEF Written
    <3>4. i \in 1..u
          BY <1>1, <2>1
    <3> QED
          BY <1>2, <1>3, <1>4, <2>1, <3>3, <3>4
  <2>2. CASE ~(i <= u)
    <3>1. i - u \in 1..Len(b) /\ Wrap(front + i - 1) = Wrap(back + (i - u) - 1)
          BY <1>1, <2>2 DEF Wrap
    <3> QED
          BY <1>3, <1>4, <2>2, <3>1 DEF Written
  <2> QED
        BY <2>1, <2>2
<1> QED
      BY <1>3, <1>4, <1>5, SeqEqual

\* Every ring_write is a Write of the stream.
LEMMA WriteRefines ==
    ASSUME IInv, IInv', NEW b \in Transfers, ring_write(b)
    PROVE  Fifo!Write(b)
<1> USE RingAssumption
<1>1. b \in Seq(Bytes) /\ Len(b) \in Nat
      BY TransferFacts
<1>2. Len(Contents) = numBytesUsed
      BY ContentsType
<1>3. numBytesFree = TotalNumBytes - numBytesUsed /\ numBytesFree \in Nat
      BY DEF IInv, TypeOK, PointersAgree
<1>4. CASE WriteRefused(Len(b)) /\ result' = << >>
           /\ UNCHANGED <<buf, front, back, numBytesFree, numBytesUsed>>
  <2>1. Contents' = Contents
        BY <1>4 DEF Contents
  <2>2. ~(Len(b) <= TotalNumBytes - Len(Contents))
        BY <1>1, <1>2, <1>3, <1>4 DEF WriteRefused
  <2> QED
        BY <1>4, <2>1, <2>2 DEF Fifo!Write
<1>5. ASSUME ~WriteRefused(Len(b)), Written(b), CountWritten(b), front' = front
      PROVE  Fifo!Write(b)
  <2>1. Len(b) <= numBytesFree
        BY <1>1, <1>3, <1>5 DEF WriteRefused
  <2>2. Contents' = Contents \o b /\ result' = b
        BY <1>1, <1>5, <2>1, WriteAppends DEF CountWritten
  <2>3. Len(b) <= TotalNumBytes - Len(Contents)
        BY <1>2, <1>3, <2>1
  <2> QED
        BY <2>2, <2>3 DEF Fifo!Write
<1>6. CASE ~WriteRefused(Len(b)) /\ WriteMayWrap(Len(b)) /\ CopyWrapped(b)
           /\ CountWritten(b) /\ UNCHANGED front
  <2>1. Len(b) <= numBytesFree
        BY <1>1, <1>3, <1>6 DEF WriteRefused
  <2> QED
        BY <1>5, <1>6, <2>1, CopyWrappedWritten
<1>7. CASE ~WriteRefused(Len(b)) /\ ~WriteMayWrap(Len(b)) /\ WriteInGap(Len(b))
           /\ buf' = Copy(buf, back, b) /\ back' = back + Len(b)
           /\ CountWritten(b) /\ UNCHANGED front
  <2>1. back + Len(b) <= TotalNumBytes
        BY <1>1, <1>7 DEF WriteInGap, IInv, TypeOK, Offsets
  <2> QED
        BY <1>1, <1>5, <1>7, <2>1, CopyWritten
<1>8. CASE ~WriteRefused(Len(b)) /\ WriteAssertFails(Len(b)) /\ result' = << >>
           /\ UNCHANGED <<buf, front, back, numBytesFree, numBytesUsed>>
  <2>1. Len(b) = 0
        BY <1>8, TransferFacts, AssertFailure
  <2>2. b = << >>
        BY <1>1, <2>1
  <2>3. Contents' = Contents /\ result' = b
        BY <1>8, <2>2 DEF Contents
  <2>4. Contents \o b = Contents
        BY <2>2, ContentsType, ConcatEmptySeq
  <2>5. Len(b) <= TotalNumBytes - Len(Contents)
        BY <1>2, <1>3, <2>1
  <2> QED
        BY <2>3, <2>4, <2>5 DEF Fifo!Write
<1> QED
      BY <1>4, <1>6, <1>7, <1>8 DEF ring_write

-----------------------------------------------------------------------------
\* A read of n bytes removes the n oldest bytes.
LEMMA ReadRemoves ==
    ASSUME IInv, IInv', NEW n \in Nat, n <= numBytesUsed,
           buf' = buf, front' = Wrap(front + n), numBytesUsed' = numBytesUsed - n
    PROVE  Contents' = SubSeq(Contents, n + 1, Len(Contents))
<1> USE RingAssumption
<1> DEFINE u == numBytesUsed
           rest == SubSeq(Contents, n + 1, u)
<1>1. /\ front \in Nat /\ front < TotalNumBytes /\ u \in Nat /\ u <= TotalNumBytes
      BY DEF IInv, TypeOK, PointersAgree, Offsets
<1>2. /\ Contents \in Seq(Bytes) /\ Len(Contents) = u
      /\ \A i \in 1..u : Contents[i] = buf[Wrap(front + i - 1)]
      BY ContentsType
<1>3. /\ Contents' \in Seq(Bytes) /\ Len(Contents') = u - n
      /\ \A i \in 1..(u - n) : Contents'[i] = buf[Wrap(Wrap(front + n) + i - 1)]
  <2>1. (/\ Contents \in Seq(Bytes)
         /\ Len(Contents) = numBytesUsed
         /\ \A i \in 1..numBytesUsed : Contents[i] = buf[Wrap(front + i - 1)])'
        BY ContentsType, PTL
  <2> QED
        BY <2>1 DEF Wrap
<1>4. /\ rest \in Seq(Bytes) /\ Len(rest) = u - n
      /\ \A i \in 1..(u - n) : rest[i] = Contents[n + i]
  <2>1. \A i \in (n + 1)..u : Contents[i] \in Bytes
        BY <1>1, <1>2
  <2>2. /\ rest \in Seq(Bytes)
        /\ Len(rest) = IF n + 1 <= u THEN u - (n + 1) + 1 ELSE 0
        /\ \A i \in 1..(u - (n + 1) + 1) : rest[i] = Contents[(n + 1) + i - 1]
        BY <1>1, <2>1, SubSeqProperties
  <2>3. u - (n + 1) + 1 = u - n /\ \A i \in 1..(u - n) : (n + 1) + i - 1 = n + i
        BY <1>1
  <2> QED
        BY <1>1, <2>2, <2>3
<1> HIDE DEF rest, u
<1>5. ASSUME NEW i \in 1..(u - n)
      PROVE  Contents'[i] = rest[i]
  <2>1. n + i \in 1..u /\ Wrap(front + (n + i) - 1) = Wrap(Wrap(front + n) + i - 1)
        BY <1>1 DEF Wrap
  <2>2. Contents[n + i] = buf[Wrap(front + (n + i) - 1)]
        BY <1>2, <2>1
  <2> QED
        BY <1>3, <1>4, <2>1, <2>2
<1>6. Contents' = rest
      BY <1>3, <1>4, <1>5, SeqEqual
<1> QED
      BY <1>2, <1>6 DEF rest, u

\* What a read delivers, given byte by byte, is the oldest part of the contents.
LEMMA ReadDelivers ==
    ASSUME IInv, NEW n \in Nat, n <= numBytesUsed,
           NEW s \in Seq(Bytes), Len(s) = n,
           \A i \in 1..n : s[i] = buf[Wrap(front + i - 1)]
    PROVE  s = SubSeq(Contents, 1, n)
<1> USE RingAssumption
<1>1. numBytesUsed \in Nat
      BY DEF IInv, TypeOK
<1>2. /\ Contents \in Seq(Bytes) /\ Len(Contents) = numBytesUsed
      /\ \A i \in 1..numBytesUsed : Contents[i] = buf[Wrap(front + i - 1)]
      BY ContentsType
<1>3. \A i \in 1..n : Contents[i] \in Bytes /\ i \in 1..numBytesUsed
      BY <1>1, <1>2
<1>4. /\ SubSeq(Contents, 1, n) \in Seq(Bytes)
      /\ Len(SubSeq(Contents, 1, n)) = IF 1 <= n THEN n - 1 + 1 ELSE 0
      /\ \A i \in 1..(n - 1 + 1) : SubSeq(Contents, 1, n)[i] = Contents[1 + i - 1]
      BY <1>3, SubSeqProperties
<1>5. Len(SubSeq(Contents, 1, n)) = n
      /\ \A i \in 1..n : SubSeq(Contents, 1, n)[i] = Contents[i]
      BY <1>4
<1> QED
      BY <1>2, <1>3, <1>4, <1>5, SeqEqual

\* A read of n = min(len, numBytesUsed) bytes is a Read of the stream.
LEMMA TakeRefines ==
    ASSUME IInv, IInv', NEW len \in Nat, NEW n \in Nat,
           n = IF len < numBytesUsed THEN len ELSE numBytesUsed,
           buf' = buf, front' = Wrap(front + n), CountRead(n),
           result' \in Seq(Bytes), Len(result') = n,
           \A i \in 1..n : result'[i] = buf[Wrap(front + i - 1)]
    PROVE  Fifo!Read(len)
<1>1. numBytesUsed \in Nat
      BY RingAssumption DEF IInv, TypeOK
<1>2. n <= numBytesUsed
      BY <1>1
<1>3. result' = SubSeq(Contents, 1, n)
      BY <1>2, ReadDelivers
<1>4. Contents' = SubSeq(Contents, n + 1, Len(Contents))
      BY <1>2, ReadRemoves DEF CountRead
<1>5. Len(Contents) = numBytesUsed
      BY ContentsType
<1> QED
      BY <1>3, <1>4, <1>5 DEF Fifo!Read

\* Every ring_read is a Read of the stream: in particular a read is cut short
\* only when the ring runs empty, also across the end of the buffer.
LEMMA ReadRefines ==
    ASSUME IInv, IInv', NEW len \in 0..MaxLen, ring_read(len)
    PROVE  Fifo!Read(len)
<1> USE RingAssumption
<1>1. /\ front \in Nat /\ front < TotalNumBytes
      /\ back \in Nat /\ back < TotalNumBytes
      /\ numBytesUsed \in Nat /\ numBytesFree \in Nat
      /\ len \in Nat
      /\ numBytesFree + numBytesUsed = TotalNumBytes
      BY DEF IInv, TypeOK, PointersAgree, Offsets
<1>2. CASE numBytesUsed = 0 /\ result' = << >>
           /\ UNCHANGED <<buf, front, back, numBytesFree, numBytesUsed>>
  <2>1. Contents \in Seq(Bytes) /\ Len(Contents) = 0
        BY <1>2, ContentsType
  <2>2. Contents' = Contents
        BY <1>2 DEF Contents
  <2>3. Contents = << >>
        BY <2>1
  <2>4. SubSeq(Contents, 1, 0) = << >> /\ SubSeq(Contents, 0 + 1, 0) = << >>
        BY SubSeqEmpty
  <2> QED
        BY <1>1, <1>2, <2>1, <2>2, <2>3, <2>4 DEF Fifo!Read
<1>3. CASE numBytesUsed # 0 /\ len = 1 /\ FetchOne /\ UNCHANGED <<buf, back>>
  <2>1. buf[front] \in Bytes
        BY DEF IInv, TypeOK
  <2>2. front' = Wrap(front + 1) /\ Wrap(front + 1 - 1) = front
        BY <1>1, <1>3 DEF FetchOne, Wrap
  <2>3. result' = <<buf[front]>> /\ CountRead(1)
        BY <1>3 DEF FetchOne
  <2>4. result' \in Seq(Bytes) /\ Len(result') = 1 /\ result'[1] = buf[front]
        BY <2>1, <2>3
  <2>5. \A i \in 1..1 : result'[i] = buf[Wrap(front + i - 1)]
        BY <2>2, <2>4
  <2>6. 1 = IF len < numBytesUsed THEN len ELSE numBytesUsed
        BY <1>1, <1>3
  <2> QED
        BY <1>1, <1>3, <2>2, <2>3, <2>4, <2>5, <2>6, TakeRefines
<1>4. CASE numBytesUsed # 0 /\ ReadIsContiguous(len) /\ UNCHANGED <<buf, back>>
           /\ LET n == IF len < back - front THEN len ELSE back - front
              IN  /\ result' = Fetch(front, n)
                  /\ front' = front + n
                  /\ CountRead(n)
  <2> DEFINE n == IF len < back - front THEN len ELSE back - front
  <2>1. back > front /\ numBytesUsed = back - front
        BY <1>1, <1>4 DEF ReadIsContiguous, IInv, PointersAgree, Wrap
  <2>2. n \in Nat /\ n = (IF len < numBytesUsed THEN len ELSE numBytesUsed)
        /\ front + n <= back
        BY <1>1, <2>1
  <2>3. result' = Fetch(front, n) /\ front' = front + n /\ CountRead(n)
        BY <1>4
  <2> HIDE DEF n
  <2>4. Fetch(front, n) \in Seq(Bytes) /\ Len(Fetch(front, n)) = n
        BY <1>1, <2>2, FetchType DEF IInv
  <2>5. \A i \in 1..n : Fetch(front, n)[i] = buf[front + i - 1]
        BY DEF Fetch
  <2>6. \A i \in 1..n : Wrap(front + i - 1) = front + i - 1
        BY <1>1, <2>2 DEF Wrap
  <2>7. front' = Wrap(front + n)
        BY <1>1, <2>2, <2>3 DEF Wrap
  <2> QED
        BY <1>1, <1>4, <2>2, <2>3, <2>4, <2>5, <2>6, <2>7, TakeRefines
<1>5. CASE numBytesUsed # 0 /\ len # 1 /\ ~ReadIsContiguous(len) /\ ReadMayWrap(len)
           /\ FetchWrapped(len) /\ UNCHANGED <<buf, back>>
  <2> DEFINE e == TotalNumBytes - front
  <2>1. e \in Nat \ {0} /\ numBytesUsed = e + back
        BY <1>1, <1>5 DEF ReadIsContiguous, ReadMayWrap, IInv, PointersAgree, Wrap
  <2>2. CASE len < e
    <3>1. result' = Fetch(front, len) /\ front' = front + len /\ CountRead(len)
          BY <1>5, <2>2 DEF FetchWrapped
    <3>2. Fetch(front, len) \in Seq(Bytes) /\ Len(Fetch(front, len)) = len
          BY <1>1, <2>1, <2>2, FetchType DEF IInv
    <3>3. \A i \in 1..len : Fetch(front, len)[i] = buf[front + i - 1]
          BY DEF Fetch
    <3>4. \A i \in 1..len : Wrap(front + i - 1) = front + i - 1
          BY <1>1, <2>1, <2>2 DEF Wrap
    <3>5. front' = Wrap(front + len)
          BY <1>1, <2>1, <2>2, <3>1 DEF Wrap
    <3>6. len = IF len < numBytesUsed THEN len ELSE numBytesUsed
          BY <1>1, <2>1, <2>2
    <3> QED
          BY <1>1, <1>5, <3>1, <3>2, <3>3, <3>4, <3>5, <3>6, TakeRefines
  <2>3. CASE ~(len < e)
    <3> DEFINE l == LeftOver(len)
               a == Fetch(front, e)
               c == Fetch(0, l)
    <3>1. l \in Nat /\ l <= back /\ e + l = IF len < numBytesUsed THEN len ELSE numBytesUsed
          BY <1>1, <2>1, <2>3 DEF LeftOver
    <3>2. result' = a \o c /\ front' = l /\ CountRead(e + l)
          BY <1>5, <2>3 DEF FetchWrapped
    <3>3. front + e = TotalNumBytes
          BY <1>1
    <3> HIDE DEF l, e
    <3>4. a \in Seq(Bytes) /\ Len(a) = e
          BY <1>1, <2>1, <3>3, FetchType DEF IInv
    <3>5. c \in Seq(Bytes) /\ Len(c) = l
          BY <1>1, <3>1, FetchType DEF IInv
    <3>6. /\ \A i \in 1..e : a[i] = buf[front + i - 1]
          /\ \A i \in 1..l : c[i] = buf[0 + i - 1]
          BY DEF Fetch
    <3> HIDE DEF a, c
    <3>7. /\ result' \in Seq(Bytes) /\ Len(result') = e + l
          /\ \A i \in 1..(e + l) : result'[i] = IF i <= e THEN a[i] ELSE c[i - e]
          BY <3>2, <3>4, <3>5, ConcatProperties
    <3>8. ASSUME NEW i \in 1..(e + l)
          PROVE  result'[i] = buf[Wrap(front + i - 1)]
      <4>1. CASE i <= e
        <5>1. i \in 1..e /\ Wrap(front + i - 1) = front + i - 1
              BY <1>1, <2>1, <3>1, <3>3, <4>1 DEF Wrap
        <5> QED
              BY <3>6, <3>7, <4>1, <5>1
      <4>2. CASE ~(i <= e)
        <5>1. i - e \in 1..l /\ Wrap(front + i - 1) = 0 + (i - e) - 1
              BY <1>1, <2>1, <3>1, <3>3, <4>2 DEF Wrap
        <5>2. c[i - e] = buf[0 + (i - e) - 1]
              BY <3>6, <5>1
        <5> QED
              BY <3>7, <4>2, <5>1, <5>2
      <4> QED
            BY <4>1, <4>2
    <3>9. front' = Wrap(front + (e + l)) /\ e + l \in Nat
          BY <1>1, <2>1, <3>1, <3>2, <3>3 DEF Wrap
    <3> QED
          BY <1>1, <1>5, <3>1, <3>2, <3>7, <3>8, <3>9, TakeRefines
  <2> QED
        BY <2>2, <2>3
<1> QED
      BY <1>2, <1>3, <1>4, <1>5 DEF ring_read

-----------------------------------------------------------------------------
\* For every buffer size, set of bytes and transfer length the ring of ring.c is
\* a first-in first-out byte stream with all-or-nothing writes.
THEOREM RingImplementsFifo == Spec => ImplementsFifo
<1>1. Init => Fifo!Init
  <2> SUFFICES ASSUME Init
               PROVE  Fifo!Init
      OBVIOUS
  <2>1. Contents \in Seq(Bytes) /\ Len(Contents) = 0 /\ result = << >>
        BY InitIInv, ContentsType DEF Init, ring_create
  <2>2. Contents = << >>
        BY <2>1
  <2> QED
        BY <2>1, <2>2 DEF Fifo!Init
<1>2. IInv /\ IInv' /\ [Next]_vars => [Fifo!Next]_<<Contents, result>>
  <2> SUFFICES ASSUME IInv, IInv', [Next]_vars
               PROVE  [Fifo!Next]_<<Contents, result>>
      OBVIOUS
  <2>1. ASSUME NEW b \in Transfers, ring_write(b)
        PROVE  Fifo!Next
        BY <2>1, WriteRefines DEF Fifo!Next, Fifo!Transfers, Transfers
  <2>2. ASSUME NEW len \in 0..MaxLen, ring_read(len)
        PROVE  Fifo!Next
        BY <2>2, ReadRefines DEF Fifo!Next
  <2>3. CASE UNCHANGED vars
        BY <2>3 DEF vars, Contents
  <2> QED
        BY <2>1, <2>2, <2>3 DEF Next
<1> QED
      BY RingInvariant, <1>1, <1>2, PTL DEF Spec, ImplementsFifo, Fifo!Spec
=============================================================================
