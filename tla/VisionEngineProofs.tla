------------------------- MODULE VisionEngineProofs -------------------------
(***************************************************************************)
(* Proofs about the vision engine and the file camera, for any depth of the*)
(* frame queue, any number of buffers, frames and calls of Startup.        *)
(*                                                                         *)
(* The inductive invariant relates the three threads: which of them can    *)
(* exist together, who has the frames the camera handed out, and what the  *)
(* engine may rely on when it has passed the queue's read event.           *)
(***************************************************************************)
EXTENDS VisionEngine, FiniteSetTheorems, SequenceTheorems, WellFoundedInduction, TLAPS

\* The engine's frame loop, and the places in it where it has a frame in hand.
InLoop == {"setup", "unlock", "loop", "length", "dropWait", "dropRead", "dropReturn", "test",
           "wait", "read", "got", "process", "count", "return", "quit", "teardown"}
EngineHas == {"dropReturn", "got", "process", "count", "return"}
CameraHas == {"receive", "write", "full"}

Epcs == InLoop \cup {"none", "joinCam", "free", "signal", "exited", "crashed"}
Cpcs == CameraHas \cup {"none", "start", "sleep", "shutdown", "pop", "lockedShutdown",
                        "lockedPop", "exited"}

One(condition) == IF condition THEN 1 ELSE 0
InHand == One(epc \in EngineHas) + One(cpc \in CameraHas)

\* A frame queue that nobody disables.  Unless it was popped, its read event is
\* set exactly when it has data.
GoodQueue(q) ==
    /\ q \in QueueOf({Frame}) /\ Len(q.ring) <= QueueDepth
    /\ q.active = TRUE
    /\ ~q.popped => (q.readEvent <=> HasData(q.ring))

\* The type invariant, but for the numbers of frames.
Types ==
    /\ upc \in {"idle", "pop", "stop", "join", "wait", "woken"} /\ starts \in 0..MaxStarts
    /\ m_running \in BOOLEAN /\ m_handle \in BOOLEAN
    /\ GoodQueue(m_framequeue)
    /\ m_numFrames \in 0..NumFrames
    /\ lock \in {"free", "engine", "camera"}
    /\ epc \in Epcs /\ cpc \in Cpcs
    /\ cameraFrame \in BOOLEAN /\ status \in BOOLEAN
    /\ m_pCam \in BOOLEAN /\ camRunning \in BOOLEAN
    /\ used \in [Buffers -> BOOLEAN] /\ m_lastIdx \in Buffers /\ mLength \in BOOLEAN
    /\ overwritten \in BOOLEAN
    /\ m_wait \in BOOLEAN /\ staleWait \in BOOLEAN /\ interrupted \in BOOLEAN

\* CThreaded and the camera: no handle, no engine; no camera before GraphSetup
\* and after CameraDeinit; no camera thread without a camera.
Lifetimes ==
    /\ ~m_handle => epc \in {"none", "exited"}
    /\ epc \in {"none", "setup", "free", "signal", "exited"} => ~m_pCam
    /\ ~m_pCam => cpc = "none"
    /\ ~m_pCam /\ epc \in InLoop => m_framequeue.ring = << >> /\ epc \notin EngineHas

\* Every frame in the queue or in hand is one the camera is owed, whether or not
\* the engine runs, and there is a used buffer for every frame owed.
UsedBuffers == {b \in Buffers : used[b]}

Owed ==
    /\ owed \in Nat /\ thrown \in Nat /\ thrown <= owed
    /\ owed <= Cardinality(UsedBuffers)
    /\ m_pCam => Len(m_framequeue.ring) + thrown + InHand <= owed

\* If the camera was never early it is owed one frame at most, that of its buffer.
OneFrame == m_pCam /\ ~overwritten => owed <= 1

\* What the frame dropper relies on.
Uninterrupted ==
    ~interrupted => /\ ~m_framequeue.popped
                    /\ epc = "dropRead" => HasData(m_framequeue.ring)
                    /\ epc # "crashed"

\* The event of RunThread, unless it is left over from an earlier run.
Finished == m_wait /\ ~staleWait => epc = "exited"

EngineInv == /\ Types /\ Lifetimes /\ Owed /\ FramesConserved /\ OneFrame /\ ReturnedBeforeNext
             /\ Uninterrupted /\ Finished

-----------------------------------------------------------------------------
\* The frame queue.
LEMMA TestsBoolean == \A r : HasData(r) \in BOOLEAN /\ HasSpace(r) \in BOOLEAN
BY DEF HasData, HasSpace

LEMMA GoodParts ==
    ASSUME NEW q, GoodQueue(q)
    PROVE  /\ q \in QueueOf({Frame}) /\ q.ring \in Seq({Frame}) /\ Len(q.ring) \in Nat
           /\ Len(q.ring) <= QueueDepth /\ q.msgCount \in Int /\ q.active = TRUE
           /\ q.popped \in BOOLEAN /\ q.readEvent \in BOOLEAN /\ q.writeEvent \in BOOLEAN
           /\ HasData(q.ring) <=> Len(q.ring) > 0
BY DEF GoodQueue, QueueOf, HasData

LEMMA WriteFacts ==
    ASSUME NEW q, GoodQueue(q)
    PROVE  LET w == queue_write(q, Frame)
           IN  /\ GoodQueue(w) /\ w.popped = q.popped
               /\ Writes(q) => Len(w.ring) = Len(q.ring) + 1
               /\ ~Writes(q) => Len(w.ring) = Len(q.ring)
<1> USE QueueAssumption
<1> DEFINE r == IF Writes(q) THEN Append(q.ring, Frame) ELSE q.ring
           c == IF Writes(q) THEN q.msgCount + 1 ELSE q.msgCount
           we == HasSpace(r)
           re == q.readEvent \/ HasData(r)
           w == [q EXCEPT !.ring = r, !.msgCount = c, !.writeEvent = we, !.readEvent = re]
<1>1. /\ q.ring \in Seq({Frame}) /\ Len(q.ring) \in Nat /\ Len(q.ring) <= QueueDepth
      /\ q.msgCount \in Int
      BY GoodParts
<1>2. /\ r \in Seq({Frame}) /\ Len(r) \in Nat /\ Len(r) <= QueueDepth
      /\ Len(q.ring) <= Len(r)
      /\ Writes(q) => Len(r) = Len(q.ring) + 1
      /\ ~Writes(q) => Len(r) = Len(q.ring)
      <2>1. CASE Writes(q)
            <3>1. /\ Append(q.ring, Frame) \in Seq({Frame})
                  /\ Len(Append(q.ring, Frame)) = Len(q.ring) + 1
                  BY <1>1
            <3>2. Len(q.ring) < QueueDepth
                  BY <2>1 DEF Writes, HasSpace
            <3> QED
                  BY <1>1, <2>1, <3>1, <3>2
      <2>2. CASE ~Writes(q)
            BY <1>1, <2>2
      <2> QED
            BY <2>1, <2>2
<1>3. CASE ~Usable(q)
      <2>1. queue_write(q, Frame) = q /\ ~Writes(q)
            BY <1>3 DEF queue_write, Writes
      <2> QED
            BY <2>1
<1>4. CASE Usable(q)
      <2>1. queue_write(q, Frame) = w
            BY <1>4 DEF queue_write
      <2>2. c \in Int /\ we \in BOOLEAN /\ re \in BOOLEAN
            BY <1>1, TestsBoolean
      <2>3. HasData(q.ring) => HasData(r)
            BY <1>1, <1>2 DEF HasData
      <2>4. ~q.popped => (q.readEvent <=> HasData(q.ring))
            BY DEF GoodQueue
      <2>5. ~q.popped => (re <=> HasData(r))
            BY <2>3, <2>4
      <2> HIDE DEF r, c, we, re
      <2>6. GoodQueue(w) /\ w.ring = r /\ w.popped = q.popped
            <3>1. q \in QueueOf({Frame}) /\ q.active = TRUE
                  BY GoodParts
            <3>2. w \in QueueOf({Frame})
                  BY <1>2, <2>2, <3>1 DEF QueueOf
            <3>3. w.ring = r /\ w.active = TRUE /\ w.popped = q.popped /\ w.readEvent = re
                  BY <3>1 DEF QueueOf
            <3> HIDE DEF w
            <3> QED
                  BY <1>2, <2>5, <3>2, <3>3 DEF GoodQueue
      <2> HIDE DEF w
      <2> QED
            BY <1>2, <2>1, <2>6
<1> QED
      BY <1>3, <1>4

LEMMA ReadFacts ==
    ASSUME NEW q, GoodQueue(q)
    PROVE  LET w == queue_read(q)
           IN  /\ GoodQueue(w) /\ w.popped = q.popped
               /\ Reads(q) => Len(q.ring) > 0 /\ Len(w.ring) = Len(q.ring) - 1
               /\ ~Reads(q) => w.ring = q.ring
               /\ Reads(q) <=> ~q.popped /\ HasData(q.ring)
<1> USE QueueAssumption
<1> DEFINE r == IF Reads(q) THEN Tail(q.ring) ELSE q.ring
           c == IF Reads(q) THEN q.msgCount - 1 ELSE q.msgCount
           we == q.writeEvent \/ HasSpace(r)
           re == HasData(r)
           w == [q EXCEPT !.ring = r, !.msgCount = c, !.writeEvent = we, !.readEvent = re]
<1>1. /\ q.ring \in Seq({Frame}) /\ Len(q.ring) \in Nat /\ Len(q.ring) <= QueueDepth
      /\ q.msgCount \in Int /\ q.active = TRUE
      BY GoodParts
<1>2. Reads(q) <=> ~q.popped /\ HasData(q.ring)
      BY <1>1 DEF Reads, Usable
<1>3. /\ r \in Seq({Frame}) /\ Len(r) \in Nat /\ Len(r) <= QueueDepth
      /\ Reads(q) => Len(q.ring) > 0 /\ Len(r) = Len(q.ring) - 1
      /\ ~Reads(q) => r = q.ring
      <2>1. CASE Reads(q)
            <3>1. q.ring # << >> /\ Len(q.ring) > 0
                  BY <1>1, <2>1 DEF Reads, HasData
            <3>2. Tail(q.ring) \in Seq({Frame}) /\ Len(Tail(q.ring)) = Len(q.ring) - 1
                  BY <1>1, <3>1
            <3> QED
                  BY <1>1, <2>1, <3>1, <3>2
      <2>2. CASE ~Reads(q)
            BY <1>1, <2>2
      <2> QED
            BY <2>1, <2>2
<1>4. CASE ~Usable(q)
      <2>1. queue_read(q) = q /\ ~Reads(q)
            BY <1>4 DEF queue_read, Reads
      <2> QED
            BY <1>2, <2>1
<1>5. CASE Usable(q)
      <2>1. queue_read(q) = w
            BY <1>5 DEF queue_read
      <2>2. c \in Int /\ we \in BOOLEAN /\ re \in BOOLEAN
            BY <1>1, TestsBoolean
      <2>3. re <=> HasData(r)
            OBVIOUS
      <2> HIDE DEF r, c, we, re
      <2>4. GoodQueue(w) /\ w.ring = r /\ w.popped = q.popped
            <3>1. q \in QueueOf({Frame}) /\ q.active = TRUE
                  BY GoodParts
            <3>2. w \in QueueOf({Frame})
                  BY <1>3, <2>2, <3>1 DEF QueueOf
            <3>3. w.ring = r /\ w.active = TRUE /\ w.popped = q.popped /\ w.readEvent = re
                  BY <3>1 DEF QueueOf
            <3> HIDE DEF w
            <3> QED
                  BY <1>3, <2>3, <3>2, <3>3 DEF GoodQueue
      <2> HIDE DEF w
      <2> QED
            BY <1>2, <1>3, <2>1, <2>4
<1> QED
      BY <1>4, <1>5

LEMMA PopFacts ==
    ASSUME NEW q, GoodQueue(q)
    PROVE  LET w == queue_pop(q) IN GoodQueue(w) /\ w.ring = q.ring /\ w.popped = TRUE
BY DEF GoodQueue, QueueOf, queue_pop

LEMMA ResetFacts ==
    ASSUME NEW q, GoodQueue(q)
    PROVE  LET w == queue_reset(q)
           IN  GoodQueue(w) /\ w.ring = << >> /\ Len(w.ring) = 0 /\ w.popped = FALSE
<1> DEFINE w == queue_reset(q)
<1>1. /\ << >> \in Seq({Frame}) /\ Len(<< >>) = 0
      /\ q \in QueueOf({Frame})
      <2>1. << >> \in Seq({Frame}) /\ Len(<< >>) = 0
            OBVIOUS
      <2>2. q \in QueueOf({Frame})
            BY GoodParts
      <2> QED
            BY <2>1, <2>2
<1>2. /\ w \in QueueOf({Frame}) /\ w.ring = << >> /\ w.active = TRUE
      /\ w.popped = FALSE /\ w.readEvent = FALSE
      BY <1>1 DEF QueueOf, queue_reset
<1>3. ~HasData(<< >>) /\ 0 <= QueueDepth
      BY <1>1, QueueAssumption DEF HasData
<1> HIDE DEF w
<1>4. GoodQueue(w)
      BY <1>1, <1>2, <1>3 DEF GoodQueue
<1> QED
      BY <1>1, <1>2, <1>4 DEF w

-----------------------------------------------------------------------------
\* The buffers of the camera.
LEMMA MinIn ==
    ASSUME NEW S \in SUBSET Nat, S # {}
    PROVE  Min(S) \in S
<1> DEFINE R == OpToRel(<, Nat)
<1>1. IsWellFoundedOn(R, Nat)
      BY NatLessThanWellFounded
<1>2. \A x, y \in Nat : y < x => <<y, x>> \in R
      <2> SUFFICES ASSUME NEW x \in Nat, NEW y \in Nat, y < x
                   PROVE  <<y, x>> \in {ss \in Nat \X Nat : ss[1] < ss[2]}
            BY Zenon DEF OpToRel
      <2> QED
            OBVIOUS
<1> HIDE DEF R
<1>3. PICK x \in S : \A y \in S : ~(<<y, x>> \in R)
      BY <1>1, WFMin
<1>4. \A y \in S : x <= y
      <2> SUFFICES ASSUME NEW y \in S, ~(x <= y)
                   PROVE  FALSE
            OBVIOUS
      <2>1. x \in Nat /\ y \in Nat /\ y < x
            OBVIOUS
      <2> QED
            BY <1>2, <1>3, <2>1
<1> QED
      BY <1>4 DEF Min

\* Counting round the array from one buffer reaches every other.
LEMMA RoundTheArray ==
    ASSUME NEW a \in Buffers
    PROVE  /\ \A b \in Buffers : \E k \in 1..NumBuffers : (a + k) % NumBuffers = b
           /\ \A k \in 1..NumBuffers : (a + k) % NumBuffers \in Buffers
<1> USE EngineAssumption DEF Buffers
<1>1. a \in Nat /\ a < NumBuffers /\ NumBuffers \in Nat /\ NumBuffers > 0
      OBVIOUS
<1>2. ASSUME NEW b \in Buffers
      PROVE  \E k \in 1..NumBuffers : (a + k) % NumBuffers = b
      <2>1. b \in Nat /\ b < NumBuffers
            OBVIOUS
      <2>2. CASE b > a
            <3>1. b - a \in 1..NumBuffers /\ a + (b - a) = b
                  BY <1>1, <2>1, <2>2
            <3>2. b % NumBuffers = b
                  BY <1>1, <2>1
            <3> QED
                  BY <3>1, <3>2
      <2>3. CASE ~(b > a)
            <3>1. b - a + NumBuffers \in 1..NumBuffers /\ a + (b - a + NumBuffers) = b + NumBuffers
                  BY <1>1, <2>1, <2>3
            <3>2. (b + NumBuffers) % NumBuffers = b
                  BY <1>1, <2>1
            <3> QED
                  BY <3>1, <3>2
      <2> QED
            BY <2>2, <2>3
<1>3. ASSUME NEW k \in 1..NumBuffers
      PROVE  (a + k) % NumBuffers \in Buffers
      BY <1>1
<1> QED
      BY <1>2, <1>3

\* getNextFreeBuffer finds a buffer that is not in use, if there is one.
LEMMA NextFree ==
    ASSUME used \in [Buffers -> BOOLEAN], m_lastIdx \in Buffers, \E b \in Buffers : ~used[b]
    PROVE  getNextFreeBuffer \in Buffers /\ ~used[getNextFreeBuffer]
<1> DEFINE S == {k \in 1..NumBuffers : IsFree(k)}
<1>1. S \in SUBSET Nat
      BY EngineAssumption
<1>2. S # {}
      <2>1. PICK b \in Buffers : ~used[b]
            OBVIOUS
      <2>2. PICK k \in 1..NumBuffers : (m_lastIdx + k) % NumBuffers = b
            BY RoundTheArray
      <2> QED
            BY <2>1, <2>2 DEF IsFree
<1>3. Min(S) \in S
      BY <1>1, <1>2, MinIn
<1>4. Min(S) \in 1..NumBuffers /\ IsFree(Min(S))
      BY <1>3
<1>5. getNextFreeBuffer = (m_lastIdx + Min(S)) % NumBuffers
      BY DEF getNextFreeBuffer
<1> HIDE DEF S
<1> QED
      BY <1>4, <1>5, RoundTheArray DEF IsFree

\* The buffers in use, when one is taken or given back.
LEMMA UsedFacts ==
    ASSUME used \in [Buffers -> BOOLEAN], NEW b \in Buffers, NEW v \in BOOLEAN,
           used' = [used EXCEPT ![b] = v]
    PROVE  /\ used' \in [Buffers -> BOOLEAN]
           /\ Cardinality(UsedBuffers) \in Nat /\ Cardinality(UsedBuffers') \in Nat
           /\ v = TRUE => UsedBuffers' = UsedBuffers \cup {b}
           /\ v = FALSE => UsedBuffers' = UsedBuffers \ {b}
           /\ v = TRUE /\ ~used[b] => Cardinality(UsedBuffers') = Cardinality(UsedBuffers) + 1
           /\ v = FALSE => Cardinality(UsedBuffers) - 1 <= Cardinality(UsedBuffers')
<1>1. used' \in [Buffers -> BOOLEAN] /\ used'[b] = v /\ \A c \in Buffers : c # b => used'[c] = used[c]
      OBVIOUS
<1>2. UsedBuffers \in SUBSET Buffers /\ UsedBuffers' \in SUBSET Buffers
      BY DEF UsedBuffers
<1>3. IsFiniteSet(Buffers)
      <2>1. 0 \in Int /\ NumBuffers - 1 \in Int
            BY EngineAssumption
      <2> QED
            BY <2>1, FS_Interval DEF Buffers
<1>4. IsFiniteSet(UsedBuffers) /\ IsFiniteSet(UsedBuffers')
      BY <1>2, <1>3, FS_Subset
<1>5. Cardinality(UsedBuffers) \in Nat /\ Cardinality(UsedBuffers') \in Nat
      BY <1>4, FS_CardinalityType
<1>6. v = TRUE => UsedBuffers' = UsedBuffers \cup {b}
      BY <1>1 DEF UsedBuffers
<1>7. v = FALSE => UsedBuffers' = UsedBuffers \ {b}
      BY <1>1 DEF UsedBuffers
<1>8. ~used[b] => b \notin UsedBuffers
      BY DEF UsedBuffers
<1> HIDE DEF UsedBuffers
<1>9. Cardinality(UsedBuffers \cup {b}) =
          IF b \in UsedBuffers THEN Cardinality(UsedBuffers) ELSE Cardinality(UsedBuffers) + 1
      BY <1>4, FS_AddElement
<1>10. Cardinality(UsedBuffers \ {b}) =
          IF b \in UsedBuffers THEN Cardinality(UsedBuffers) - 1 ELSE Cardinality(UsedBuffers)
      BY <1>4, FS_RemoveElement
<1>11. v = TRUE /\ ~used[b] => Cardinality(UsedBuffers') = Cardinality(UsedBuffers) + 1
      BY <1>6, <1>8, <1>9
<1>12. v = FALSE => Cardinality(UsedBuffers) - 1 <= Cardinality(UsedBuffers')
      BY <1>5, <1>7, <1>10
<1> QED
      BY <1>1, <1>5, <1>6, <1>7, <1>11, <1>12

\* There are no more of them than buffers.
LEMMA UsedBound == Cardinality(UsedBuffers) \in 0..NumBuffers
<1>1. 0 \in Int /\ NumBuffers - 1 \in Int /\ NumBuffers \in Nat \ {0}
      BY EngineAssumption
<1>2. IsFiniteSet(Buffers) /\ Cardinality(Buffers) = NumBuffers
      <2>1. /\ IsFiniteSet(0 .. (NumBuffers - 1))
            /\ Cardinality(0 .. (NumBuffers - 1)) =
                  IF 0 > NumBuffers - 1 THEN 0 ELSE (NumBuffers - 1) - 0 + 1
            BY <1>1, FS_Interval
      <2> QED
            BY <1>1, <2>1 DEF Buffers
<1>3. UsedBuffers \in SUBSET Buffers
      BY DEF UsedBuffers
<1>4. Cardinality(UsedBuffers) <= NumBuffers /\ Cardinality(UsedBuffers) \in Nat
      BY <1>2, <1>3, FS_Subset, FS_CardinalityType
<1> QED
      BY <1>1, <1>4

-----------------------------------------------------------------------------
\* What nothing but the camera's frames and the queue depend on.
kept == <<m_framequeue, m_pCam, used, m_lastIdx, mLength, owed, thrown, overwritten, interrupted>>

\* A step that neither touches the queue nor takes or returns a frame: the engine
\* and the camera's thread move, and the engine may let go of a frame on its way
\* out, as may a camera that finds the engine stopped.
LEMMA Shift ==
    ASSUME EngineInv, UNCHANGED kept,
           upc' \in {"idle", "pop", "stop", "join", "wait", "woken"}, starts' \in 0..MaxStarts,
           m_running' \in BOOLEAN, m_running' => m_running, m_handle' \in BOOLEAN,
           m_numFrames' \in 0..NumFrames, lock' \in {"free", "engine", "camera"},
           epc' \in Epcs, cpc' \in Cpcs, cameraFrame' \in BOOLEAN, status' \in BOOLEAN,
           camRunning' \in BOOLEAN, m_wait' \in BOOLEAN, staleWait' \in BOOLEAN,
           ~m_handle' => epc' \in {"none", "exited"},
           m_wait' /\ ~staleWait' => epc' = "exited",
           epc' # epc =>
               /\ epc' \in InLoop => epc \in InLoop
               /\ epc' \notin {"none", "setup", "crashed"}
               /\ epc' \in {"free", "signal", "exited"} => ~m_pCam
               /\ epc' \in EngineHas => epc \in EngineHas
               /\ epc \in EngineHas => epc' \in EngineHas \cup {"quit"}
               /\ epc' = "dropRead" => m_framequeue.readEvent
               /\ epc = "quit" => ~m_running',
           cpc' # cpc =>
               /\ cpc # "none" /\ cpc' # "none"
               /\ cpc' \in CameraHas => cpc \in CameraHas
               /\ cpc \in CameraHas => cpc' \in CameraHas \/ ~m_running
    PROVE  EngineInv'
<1>1. UNCHANGED <<m_framequeue, m_pCam, used, m_lastIdx, mLength, owed, thrown, overwritten,
                  interrupted>>
      BY DEF kept
<1>2. Types /\ Lifetimes /\ Owed /\ OneFrame /\ ReturnedBeforeNext /\ Uninterrupted
      BY DEF EngineInv
<1>3. Types'
      BY <1>1, <1>2 DEF Types
<1>4. Lifetimes'
      <2>1. epc' \in {"none", "setup", "free", "signal", "exited"} => ~m_pCam
            BY <1>2 DEF Lifetimes
      <2>2. ~m_pCam => cpc' = "none"
            BY <1>2 DEF Lifetimes
      <2>3. ~m_pCam /\ epc' \in InLoop => m_framequeue.ring = << >> /\ epc' \notin EngineHas
            BY <1>2 DEF Lifetimes
      <2> QED
            BY <1>1, <2>1, <2>2, <2>3 DEF Lifetimes
<1>5. /\ Len(m_framequeue.ring) \in Nat /\ owed \in Nat /\ thrown \in Nat
      BY <1>2, GoodParts DEF Types, Owed
<1>6. InHand \in Nat /\ InHand' \in Nat /\ InHand' <= InHand
      <2>1. One(epc \in EngineHas)' <= One(epc \in EngineHas)
            BY DEF One
      <2>2. One(cpc \in CameraHas)' <= One(cpc \in CameraHas)
            BY DEF One
      <2> QED
            BY <2>1, <2>2 DEF InHand, One
<1>7. Owed'
      <2>1. UsedBuffers' = UsedBuffers
            BY <1>1 DEF UsedBuffers
      <2>2. m_pCam => Len(m_framequeue.ring) + thrown + InHand' <= owed
            BY <1>2, <1>5, <1>6 DEF Owed
      <2> QED
            BY <1>1, <1>2, <2>1, <2>2 DEF Owed
<1>8. FramesConserved'
      <2> SUFFICES ASSUME m_running', m_pCam', epc' # "quit"
                   PROVE  owed' = Len(m_framequeue'.ring) + thrown'
                              + (IF epc' \in {"dropReturn", "got", "process", "count", "return"}
                                   THEN 1 ELSE 0)
                              + (IF cpc' \in {"receive", "write", "full"} THEN 1 ELSE 0)
            BY DEF FramesConserved
      <2>1. m_running /\ m_pCam /\ epc # "quit"
            BY <1>1
      <2>2. epc' \in EngineHas <=> epc \in EngineHas
            OBVIOUS
      <2>3. cpc' \in CameraHas <=> cpc \in CameraHas
            BY <2>1
      <2> QED
            BY <1>1, <2>1, <2>2, <2>3 DEF EngineInv, FramesConserved, EngineHas, CameraHas
<1>9. OneFrame' /\ ReturnedBeforeNext'
      BY <1>1, <1>2 DEF OneFrame, ReturnedBeforeNext
<1>10. Uninterrupted'
      <2>1. ~interrupted /\ m_framequeue.readEvent => HasData(m_framequeue.ring)
            BY <1>2 DEF Uninterrupted, Types, GoodQueue
      <2> QED
            BY <1>1, <1>2, <2>1 DEF Uninterrupted
<1>11. Finished'
      BY DEF Finished
<1> QED
      BY <1>3, <1>4, <1>7, <1>8, <1>9, <1>10, <1>11 DEF EngineInv

\* Steps of the application that leave the queue alone.
LEMMA UserShift ==
    ASSUME EngineInv,
           Shutdown \/ StopThread \/ Joined \/ WaitForCompletion \/ WaitGivesUp \/ WaitReturns
    PROVE  EngineInv'
<1> USE DEF OnlyUserMoves, engine, camera, frames, completion
<1>1. UNCHANGED <<epc, cpc, kept, starts, m_numFrames, lock, cameraFrame, status, camRunning>>
      BY DEF Shutdown, StopThread, Joined, WaitForCompletion, WaitGivesUp, WaitReturns, kept
<1>2. Types /\ Lifetimes /\ Finished
      BY DEF EngineInv
<1>3. upc' \in {"idle", "pop", "stop", "join", "wait", "woken"}
      BY DEF Shutdown, StopThread, Joined, WaitForCompletion, WaitGivesUp, WaitReturns
<1>4. m_running' \in BOOLEAN /\ (m_running' => m_running)
      <2>1. m_running' = FALSE \/ m_running' = m_running
            BY DEF Shutdown, StopThread, Joined, WaitForCompletion, WaitGivesUp, WaitReturns
      <2>2. m_running \in BOOLEAN
            BY <1>2 DEF Types
      <2>3. m_running' => m_running
            BY <2>1, Zenon
      <2>4. m_running' \in BOOLEAN
            BY <2>1, <2>2
      <2> QED
            BY <2>3, <2>4
<1>5. m_handle' \in BOOLEAN /\ (~m_handle' => epc \in {"none", "exited"})
      BY <1>2 DEF Types, Lifetimes, Shutdown, StopThread, Joined, WaitForCompletion, WaitGivesUp,
                  WaitReturns
<1>6. m_wait' \in BOOLEAN /\ staleWait' \in BOOLEAN /\ (m_wait' /\ ~staleWait' => epc = "exited")
      <2>1. CASE WaitReturns
            BY <1>2, <2>1 DEF WaitReturns, Types
      <2>2. CASE Shutdown \/ StopThread \/ Joined \/ WaitForCompletion \/ WaitGivesUp
            <3>1. UNCHANGED <<m_wait, staleWait>>
                  BY <2>2 DEF Shutdown, StopThread, Joined, WaitForCompletion, WaitGivesUp
            <3> QED
                  BY <1>2, <3>1 DEF Types, Finished
      <2> QED
            BY <2>1, <2>2
<1> QED
      BY <1>1, <1>2, <1>3, <1>4, <1>5, <1>6, Shift DEF Types

\* Steps of the engine that leave the queue and the camera's buffers alone.
LEMMA EngineShift ==
    ASSUME EngineInv,
           \/ SetupDone \/ EngineLoop \/ MoreThanOne \/ ReadEventSet \/ TestRunning \/ GotFrame
           \/ Quit \/ ProcessImage \/ CountFrame \/ Teardown \/ FreeAll \/ EngineExits
    PROVE  EngineInv'
<1> USE DEF OnlyEngineMoves, user, camera, frames, completion, Go
<1>1. UNCHANGED <<kept, m_handle, cpc, starts, staleWait>>
      BY DEF SetupDone, EngineLoop, MoreThanOne, ReadEventSet, TestRunning, GotFrame, Quit,
             ProcessImage, CountFrame, Teardown, FreeAll, EngineExits, kept
<1>2. Types /\ Lifetimes /\ Finished
      BY DEF EngineInv
<1>3. upc' \in {"idle", "pop", "stop", "join", "wait", "woken"}
      BY <1>2 DEF SetupDone, EngineLoop, MoreThanOne, ReadEventSet, TestRunning, GotFrame, Quit,
                  ProcessImage, CountFrame, Teardown, FreeAll, EngineExits, Types
<1>4. m_running' \in BOOLEAN /\ (m_running' => m_running)
      <2>1. \/ m_running' = FALSE \/ m_running' = m_running
            \/ m_running' = (m_running /\ m_numFrames # 1)
            BY DEF SetupDone, EngineLoop, MoreThanOne, ReadEventSet, TestRunning, GotFrame, Quit,
                   ProcessImage, CountFrame, Teardown, FreeAll, EngineExits
      <2>2. m_running \in BOOLEAN
            BY <1>2 DEF Types
      <2>3. m_running' => m_running
            BY <2>1, Zenon
      <2>4. m_running' \in BOOLEAN
            BY <2>1, <2>2
      <2> QED
            BY <2>3, <2>4
<1>5. m_numFrames' \in 0..NumFrames
      <2>1. m_numFrames \in 0..NumFrames /\ NumFrames \in Nat
            BY <1>2, EngineAssumption DEF Types
      <2>2. \/ m_numFrames' = m_numFrames
            \/ m_numFrames' = IF m_numFrames > 0 THEN m_numFrames - 1 ELSE 0
            BY DEF SetupDone, EngineLoop, MoreThanOne, ReadEventSet, TestRunning, GotFrame, Quit,
                   ProcessImage, CountFrame, Teardown, FreeAll, EngineExits
      <2> QED
            BY <2>1, <2>2
<1>6. lock' \in {"free", "engine", "camera"}
      BY <1>2 DEF SetupDone, EngineLoop, MoreThanOne, ReadEventSet, TestRunning, GotFrame, Quit,
                  ProcessImage, CountFrame, Teardown, FreeAll, EngineExits, Types
<1>7. cameraFrame' \in BOOLEAN /\ camRunning' \in BOOLEAN
      <2>1. /\ cameraFrame' = FALSE \/ cameraFrame' = cameraFrame
            /\ camRunning' = FALSE \/ camRunning' = camRunning
            BY DEF SetupDone, EngineLoop, MoreThanOne, ReadEventSet, TestRunning, GotFrame, Quit,
                   ProcessImage, CountFrame, Teardown, FreeAll, EngineExits
      <2> QED
            BY <1>2, <2>1 DEF Types
<1>8. status' \in BOOLEAN
      <2>1. status' = FALSE \/ status' = status \/ status' = m_running
            BY DEF SetupDone, EngineLoop, MoreThanOne, ReadEventSet, TestRunning, GotFrame, Quit,
                   ProcessImage, CountFrame, Teardown, FreeAll, EngineExits
      <2> QED
            BY <1>2, <2>1 DEF Types
<1>9. m_wait' \in BOOLEAN /\ (m_wait' => m_wait \/ epc' = "exited")
      <2>1. CASE EngineExits
            BY <2>1 DEF EngineExits
      <2>2. CASE ~EngineExits
            <3>1. m_wait' = m_wait
                  BY <2>2 DEF SetupDone, EngineLoop, MoreThanOne, ReadEventSet, TestRunning,
                              GotFrame, Quit, ProcessImage, CountFrame, Teardown, FreeAll
            <3> QED
                  BY <1>2, <3>1 DEF Types
      <2> QED
            BY <2>1, <2>2
\* The moves of the program counter.
<1>10. /\ epc' \in Epcs /\ epc \in InLoop \cup {"joinCam", "free", "signal"} /\ epc # "setup"
       /\ epc' \in InLoop => epc \in InLoop
       /\ epc' \notin {"none", "setup", "crashed"}
       /\ epc' \in {"free", "signal", "exited"} => ~m_pCam
       /\ epc' \in EngineHas => epc \in EngineHas
       /\ epc \in EngineHas => epc' \in EngineHas \cup {"quit"}
       /\ epc' = "dropRead" => m_framequeue.readEvent
       /\ epc = "quit" => ~m_running'
      <2> USE DEF InLoop, EngineHas, Epcs
      <2>1. CASE SetupDone
            BY <2>1 DEF SetupDone
      <2>2. CASE EngineLoop
            BY <2>2 DEF EngineLoop
      <2>3. CASE MoreThanOne
            BY <2>3 DEF MoreThanOne
      <2>4. CASE ReadEventSet
            BY <2>4 DEF ReadEventSet
      <2>5. CASE TestRunning
            BY <2>5 DEF TestRunning
      <2>6. CASE GotFrame
            BY <2>6 DEF GotFrame
      <2>7. CASE Quit
            BY <2>7 DEF Quit
      <2>8. CASE ProcessImage
            BY <2>8 DEF ProcessImage
      <2>9. CASE CountFrame
            BY <2>9 DEF CountFrame
      <2>10. CASE Teardown
            BY <2>10 DEF Teardown
      <2>11. CASE FreeAll
            BY <1>2, <2>11 DEF FreeAll, Lifetimes
      <2>12. CASE EngineExits
            BY <1>2, <2>12 DEF EngineExits, Lifetimes
      <2> QED
            BY <2>1, <2>2, <2>3, <2>4, <2>5, <2>6, <2>7, <2>8, <2>9, <2>10, <2>11, <2>12
<1>11. ~m_handle' => epc' \in {"none", "exited"}
      BY <1>1, <1>2, <1>10 DEF Lifetimes, InLoop
<1>12. m_wait' /\ ~staleWait' => epc' = "exited"
      BY <1>1, <1>2, <1>9, <1>10 DEF Finished, InLoop
<1>13. /\ starts' \in 0..MaxStarts /\ m_handle' \in BOOLEAN /\ cpc' \in Cpcs
       /\ staleWait' \in BOOLEAN
      BY <1>1, <1>2 DEF Types
<1> QED
      BY <1>1, <1>3, <1>4, <1>5, <1>6, <1>7, <1>8, <1>9, <1>10, <1>11, <1>12, <1>13, Shift

\* Steps of the camera that leave the queue and the buffers alone.
LEMMA CameraShift ==
    ASSUME EngineInv, CameraStarts \/ CameraExits \/ ReceiveImage \/ CameraShutdown
    PROVE  EngineInv'
<1> USE DEF OnlyCameraMoves, user, engine, frames, completion, Cam
<1>1. UNCHANGED <<kept, upc, starts, m_handle, m_numFrames, lock, epc, cameraFrame, status,
                  camRunning, m_wait, staleWait>>
      BY DEF CameraStarts, CameraExits, ReceiveImage, CameraShutdown, kept
<1>2. Types /\ Lifetimes /\ Finished
      BY DEF EngineInv
<1>3. m_running' \in BOOLEAN /\ (m_running' => m_running)
      <2>1. m_running' = FALSE \/ m_running' = m_running
            BY DEF CameraStarts, CameraExits, ReceiveImage, CameraShutdown
      <2>2. m_running' => m_running
            BY <2>1, Zenon
      <2>3. m_running' \in BOOLEAN
            BY <1>2, <2>1 DEF Types
      <2> QED
            BY <2>2, <2>3
<1>4. /\ cpc' \in Cpcs /\ cpc # "none" /\ cpc' # "none"
      /\ cpc' \in CameraHas => cpc \in CameraHas
      /\ cpc \in CameraHas => cpc' \in CameraHas \/ ~m_running
      <2> USE DEF Cpcs, CameraHas
      <2>1. CASE CameraStarts
            BY <2>1 DEF CameraStarts
      <2>2. CASE CameraExits
            BY <2>2 DEF CameraExits
      <2>3. CASE ReceiveImage
            BY <2>3 DEF ReceiveImage
      <2>4. CASE CameraShutdown
            BY <2>4 DEF CameraShutdown
      <2> QED
            BY <2>1, <2>2, <2>3, <2>4
<1>5. /\ upc' \in {"idle", "pop", "stop", "join", "wait", "woken"} /\ starts' \in 0..MaxStarts
      /\ m_handle' \in BOOLEAN /\ m_numFrames' \in 0..NumFrames
      /\ lock' \in {"free", "engine", "camera"} /\ epc' \in Epcs /\ cameraFrame' \in BOOLEAN
      /\ status' \in BOOLEAN /\ camRunning' \in BOOLEAN
      /\ m_wait' \in BOOLEAN /\ staleWait' \in BOOLEAN
      BY <1>1, <1>2 DEF Types
<1>6. /\ ~m_handle' => epc' \in {"none", "exited"}
      /\ m_wait' /\ ~staleWait' => epc' = "exited"
      BY <1>1, <1>2 DEF Lifetimes, Finished
<1> QED
      BY <1>1, <1>3, <1>4, <1>5, <1>6, Shift

-----------------------------------------------------------------------------
\* The frames in the queue, in hand or thrown away.
Total == Len(m_framequeue.ring) + thrown + InHand

\* The sum of FramesConserved.
Accounted(l, t, e, c) ==
    l + t + (IF e \in {"dropReturn", "got", "process", "count", "return"} THEN 1 ELSE 0)
          + (IF c \in {"receive", "write", "full"} THEN 1 ELSE 0)

LEMMA SumOfHands ==
    ASSUME NEW e, NEW c, NEW l \in Nat, NEW t \in Nat
    PROVE  Accounted(l, t, e, c) = l + t + (One(e \in EngineHas) + One(c \in CameraHas))
<1> DEFINE x == IF e \in {"dropReturn", "got", "process", "count", "return"} THEN 1 ELSE 0
           y == IF c \in {"receive", "write", "full"} THEN 1 ELSE 0
<1>1. x = One(e \in EngineHas) /\ y = One(c \in CameraHas)
      BY DEF One, EngineHas, CameraHas
<1>2. x \in Nat /\ y \in Nat
      OBVIOUS
<1>3. Accounted(l, t, e, c) = l + t + x + y
      BY DEF Accounted
<1> HIDE DEF x, y
<1>4. l + t + x + y = l + t + (x + y)
      BY <1>2
<1> QED
      BY <1>1, <1>3, <1>4

LEMMA TotalFacts ==
    ASSUME EngineInv
    PROVE  /\ Len(m_framequeue.ring) \in Nat /\ thrown \in Nat /\ owed \in Nat
           /\ InHand \in 0..2 /\ Total \in Nat /\ thrown + InHand <= Total
           /\ m_pCam => Total <= owed
           /\ m_running /\ m_pCam /\ epc # "quit" => owed = Total
<1>1. Len(m_framequeue.ring) \in Nat /\ thrown \in Nat /\ owed \in Nat
      BY GoodParts DEF EngineInv, Types, Owed
<1>2. InHand \in 0..2
      BY DEF InHand, One
<1>3. Total \in Nat /\ thrown + InHand <= Total
      BY <1>1, <1>2 DEF Total
<1>4. m_pCam => Total <= owed
      BY DEF EngineInv, Owed, Total
<1>5. m_running /\ m_pCam /\ epc # "quit" => owed = Total
      <2>1. Accounted(Len(m_framequeue.ring), thrown, epc, cpc)
             = Len(m_framequeue.ring) + thrown + (One(epc \in EngineHas) + One(cpc \in CameraHas))
            BY <1>1, SumOfHands
      <2>2. Accounted(Len(m_framequeue.ring), thrown, epc, cpc) = Total
            BY <2>1, Zenon DEF Total, InHand
      <2>3. FramesConserved
            BY DEF EngineInv
      <2> QED
            BY <2>2, <2>3, Zenon DEF FramesConserved, Accounted
<1> QED
      BY <1>1, <1>2, <1>3, <1>4, <1>5

LEMMA SumOfHandsNext ==
    ASSUME Len(m_framequeue'.ring) \in Nat, thrown' \in Nat
    PROVE  Accounted(Len(m_framequeue'.ring), thrown', epc', cpc') = Total'
<1>1. Accounted(Len(m_framequeue'.ring), thrown', epc', cpc')
       = Len(m_framequeue'.ring) + thrown'
         + (One(epc' \in EngineHas) + One(cpc' \in CameraHas))
      BY SumOfHands
<1> QED
      BY <1>1, Zenon DEF Total, InHand, One, EngineHas, CameraHas

\* A step that moves frames, or one frame into or out of the hands of the client:
\* what is owed changes by as much as what is accounted for.
LEMMA Transfer ==
    ASSUME EngineInv,
           UNCHANGED <<upc, starts, m_handle, m_pCam, camRunning, thrown, m_wait, staleWait,
                       interrupted>>,
           GoodQueue(m_framequeue'), m_framequeue'.popped = m_framequeue.popped,
           m_running' \in BOOLEAN, m_running' => m_running, m_numFrames' \in 0..NumFrames,
           lock' \in {"free", "engine", "camera"}, cameraFrame' \in BOOLEAN, status' \in BOOLEAN,
           used' \in [Buffers -> BOOLEAN], m_lastIdx' \in Buffers, mLength' \in BOOLEAN,
           overwritten' \in BOOLEAN,
           epc' \in Epcs, cpc' \in Cpcs, epc = "quit" => epc' = "quit",
           epc' # epc => epc \in InLoop /\ epc' \in (InLoop \cup {"crashed"}) \ {"setup"},
           cpc' # cpc => cpc # "none" /\ cpc' # "none",
           ~m_pCam /\ epc' \in InLoop => m_framequeue'.ring = << >> /\ epc' \notin EngineHas,
           NEW d \in Int, owed' = owed + d, Total' = Total + d, thrown <= owed',
           owed' <= Cardinality(UsedBuffers'),
           OneFrame', ReturnedBeforeNext',
           ~interrupted => /\ epc' = "dropRead" => HasData(m_framequeue'.ring)
                           /\ epc' # "crashed"
    PROVE  EngineInv'
<1>1. /\ Types /\ Lifetimes /\ Uninterrupted /\ Finished
      BY DEF EngineInv
<1>2. Types'
      BY <1>1 DEF Types
<1>3. Lifetimes'
      <2>1. ~m_handle => epc' \in {"none", "exited"}
            BY <1>1 DEF Lifetimes, InLoop
      <2>2. epc' \in {"none", "setup", "free", "signal", "exited"} => ~m_pCam
            BY <1>1 DEF Lifetimes, InLoop
      <2>3. ~m_pCam => cpc' = "none"
            BY <1>1 DEF Lifetimes
      <2> QED
            BY <2>1, <2>2, <2>3 DEF Lifetimes
<1>4. /\ Len(m_framequeue.ring) \in Nat /\ thrown \in Nat /\ owed \in Nat /\ Total \in Nat
      /\ m_pCam => Total <= owed
      /\ m_running /\ m_pCam /\ epc # "quit" => owed = Total
      BY TotalFacts
<1>5. Owed'
      <2>1. m_pCam => Total' <= owed'
            BY <1>4
      <2>2. owed' \in Nat /\ thrown' \in Nat /\ thrown' <= owed'
            BY <1>4
      <2> QED
            BY <2>1, <2>2 DEF Owed, Total
<1>6. FramesConserved'
      <2>1. m_running' /\ m_pCam' /\ epc' # "quit" => owed' = Total'
            BY <1>4
      <2>2. Len(m_framequeue'.ring) \in Nat
            BY GoodParts
      <2>3. thrown' \in Nat
            BY <1>4
      <2> QED
            <3>1. Accounted(Len(m_framequeue'.ring), thrown', epc', cpc') = Total'
                  BY <2>2, <2>3, SumOfHandsNext
            <3> QED
                  BY <2>1, <3>1, Zenon DEF FramesConserved, Accounted
<1>7. Uninterrupted'
      BY <1>1 DEF Uninterrupted
<1>8. Finished'
      BY <1>1 DEF Finished, InLoop
<1> QED
      BY <1>2, <1>3, <1>5, <1>6, <1>7, <1>8 DEF EngineInv

\* CameraEmulator::returnFrame by somebody who has a frame.
LEMMA ReturnFacts ==
    ASSUME EngineInv, returnFrame, UNCHANGED <<m_pCam, m_lastIdx, overwritten, thrown>>,
           m_pCam, InHand >= 1
    PROVE  /\ used' \in [Buffers -> BOOLEAN] /\ owed' = owed - 1 /\ thrown <= owed'
           /\ owed' <= Cardinality(UsedBuffers') /\ OneFrame' /\ ReturnedBeforeNext'
<1>1. /\ used \in [Buffers -> BOOLEAN] /\ m_lastIdx \in Buffers
      /\ used' = [used EXCEPT ![m_lastIdx] = FALSE] /\ owed' = owed - 1
      BY DEF EngineInv, Types, returnFrame
<1>2. /\ used' \in [Buffers -> BOOLEAN]
      /\ Cardinality(UsedBuffers) \in Nat /\ Cardinality(UsedBuffers') \in Nat
      /\ UsedBuffers' = UsedBuffers \ {m_lastIdx}
      /\ Cardinality(UsedBuffers) - 1 <= Cardinality(UsedBuffers')
      BY <1>1, UsedFacts
<1>3. /\ thrown \in Nat /\ owed \in Nat /\ InHand \in 0..2 /\ Total \in Nat
      /\ thrown + InHand <= Total /\ Total <= owed
      BY TotalFacts
<1>4. thrown <= owed' /\ owed >= 1
      BY <1>1, <1>3
<1>5. owed <= Cardinality(UsedBuffers)
      BY DEF EngineInv, Owed
<1>6. owed' <= Cardinality(UsedBuffers')
      BY <1>1, <1>2, <1>3, <1>5
<1>7. ~overwritten => owed = 1 /\ owed' = 0
      BY <1>1, <1>3, <1>4 DEF EngineInv, OneFrame
<1>8. ~overwritten => UsedBuffers = {m_lastIdx}
      BY <1>7 DEF EngineInv, ReturnedBeforeNext, UsedBuffers
<1>9. OneFrame'
      BY <1>7 DEF OneFrame
<1>10. ReturnedBeforeNext'
      <2>1. ~overwritten => UsedBuffers' = {}
            BY <1>2, <1>8
      <2> QED
            BY <1>7, <2>1 DEF ReturnedBeforeNext, UsedBuffers
<1> QED
      BY <1>1, <1>2, <1>4, <1>6, <1>9, <1>10

\* A step that leaves the buffers alone leaves these alone.
LEMMA SameBuffers ==
    ASSUME EngineInv, UNCHANGED <<m_pCam, used, m_lastIdx, owed, thrown, overwritten>>
    PROVE  /\ used' \in [Buffers -> BOOLEAN] /\ m_lastIdx' \in Buffers
           /\ overwritten' \in BOOLEAN
           /\ thrown <= owed' /\ owed' <= Cardinality(UsedBuffers')
           /\ OneFrame' /\ ReturnedBeforeNext'
<1>1. UsedBuffers' = UsedBuffers
      BY DEF UsedBuffers
<1> QED
      BY <1>1 DEF EngineInv, Types, Owed, OneFrame, ReturnedBeforeNext

-----------------------------------------------------------------------------
\* queue_read by the engine: the frame goes from the queue into its hands.
LEMMA ReadTotal ==
    ASSUME EngineInv, m_framequeue' = queue_read(m_framequeue), UNCHANGED <<thrown, cpc>>,
           epc \notin EngineHas, epc' \in EngineHas <=> Reads(m_framequeue)
    PROVE  Total' = Total + 0
<1>1. /\ Len(m_framequeue.ring) \in Nat /\ thrown \in Nat
      /\ GoodQueue(m_framequeue)
      BY TotalFacts DEF EngineInv, Types
<1>2. /\ Reads(m_framequeue) => /\ Len(m_framequeue.ring) > 0
                                /\ Len(m_framequeue'.ring) = Len(m_framequeue.ring) - 1
      /\ ~Reads(m_framequeue) => m_framequeue'.ring = m_framequeue.ring
      BY <1>1, ReadFacts
<1>3. One(epc \in EngineHas) = 0
      BY DEF One
<1>4. One(epc' \in EngineHas) = IF Reads(m_framequeue) THEN 1 ELSE 0
      BY DEF One
<1>5. One(cpc' \in CameraHas) = One(cpc \in CameraHas) /\ One(cpc \in CameraHas) \in Nat
      BY DEF One
<1>6. Total' = Len(m_framequeue'.ring) + thrown'
                 + (One(epc' \in EngineHas) + One(cpc' \in CameraHas))
      BY DEF Total, InHand, One, EngineHas, CameraHas
<1>7. Total = Len(m_framequeue.ring) + thrown
                 + (One(epc \in EngineHas) + One(cpc \in CameraHas))
      BY DEF Total, InHand
<1>8. CASE Reads(m_framequeue)
      BY <1>1, <1>2, <1>3, <1>4, <1>5, <1>6, <1>7, <1>8
<1>9. CASE ~Reads(m_framequeue)
      BY <1>1, <1>2, <1>3, <1>4, <1>5, <1>6, <1>7, <1>9
<1> QED
      BY <1>8, <1>9

LEMMA KeepsDropRead ==
    ASSUME EngineInv, DropRead
    PROVE  EngineInv'
<1> USE DEF user, camera, frames, completion, Go
<1>1. /\ UNCHANGED <<upc, starts, m_handle, m_numFrames, lock, status, m_pCam, camRunning, cpc,
                     used, m_lastIdx, mLength, owed, thrown, overwritten, m_wait, staleWait,
                     interrupted>>
      /\ m_framequeue' = queue_read(m_framequeue) /\ epc = "dropRead"
      BY DEF DropRead
<1>2. Types /\ Lifetimes /\ Uninterrupted /\ GoodQueue(m_framequeue)
      BY DEF EngineInv, Types
<1>3. GoodQueue(m_framequeue') /\ m_framequeue'.popped = m_framequeue.popped
      BY <1>1, <1>2, ReadFacts
<1>4. m_running' \in BOOLEAN /\ (m_running' => m_running)
      <2>1. m_running' = FALSE \/ m_running' = m_running
            BY DEF DropRead
      <2>2. m_running' => m_running
            BY <2>1, Zenon
      <2>3. m_running' \in BOOLEAN
            BY <1>2, <2>1 DEF Types
      <2> QED
            BY <2>2, <2>3
<1>5. cameraFrame' \in BOOLEAN
      <2>1. cameraFrame' = (cameraFrame \/ Reads(m_framequeue))
            BY DEF DropRead
      <2> QED
            BY <2>1
<1>6. /\ epc' \in {"dropReturn", "test", "crashed"}
      /\ epc' = "dropReturn" <=> Reads(m_framequeue)
      BY DEF DropRead
<1>7. Total' = Total + 0
      BY <1>1, <1>6, ReadTotal DEF EngineHas
<1>8. ~interrupted => epc' = "dropReturn"
      <2>1. ~interrupted => Reads(m_framequeue)
            BY <1>1, <1>2, ReadFacts DEF Uninterrupted
      <2> QED
            BY <1>6, <2>1
<1>9. ~m_pCam => m_framequeue'.ring = << >> /\ epc' \notin EngineHas
      <2> SUFFICES ASSUME ~m_pCam
                   PROVE  m_framequeue'.ring = << >> /\ epc' \notin EngineHas
            OBVIOUS
      <2>1. m_framequeue.ring = << >>
            BY <1>1, <1>2 DEF Lifetimes, InLoop
      <2>2. ~Reads(m_framequeue)
            BY <2>1 DEF Reads, HasData
      <2>3. m_framequeue'.ring = m_framequeue.ring
            BY <1>1, <1>2, <2>2, ReadFacts
      <2> QED
            BY <1>6, <2>1, <2>2, <2>3 DEF EngineHas
<1>10. /\ m_numFrames' \in 0..NumFrames /\ lock' \in {"free", "engine", "camera"}
       /\ status' \in BOOLEAN /\ mLength' \in BOOLEAN /\ cpc' \in Cpcs
      BY <1>1, <1>2 DEF Types
<1>11. /\ epc' \in Epcs /\ epc \in InLoop /\ epc # "quit"
       /\ epc' \in (InLoop \cup {"crashed"}) \ {"setup"}
      BY <1>1, <1>6 DEF Epcs, InLoop
<1>12. owed' = owed + 0
      BY <1>1, TotalFacts
<1>13. /\ used' \in [Buffers -> BOOLEAN] /\ m_lastIdx' \in Buffers
       /\ overwritten' \in BOOLEAN
       /\ thrown <= owed' /\ owed' <= Cardinality(UsedBuffers')
       /\ OneFrame' /\ ReturnedBeforeNext'
      BY <1>1, SameBuffers
<1>14. ~interrupted => /\ epc' = "dropRead" => HasData(m_framequeue'.ring)
                       /\ epc' # "crashed"
      BY <1>8
<1> QED
      BY <1>1, <1>3, <1>4, <1>5, <1>7, <1>9, <1>10, <1>11, <1>12, <1>13, <1>14, Transfer

LEMMA KeepsDequeueRead ==
    ASSUME EngineInv, DequeueRead
    PROVE  EngineInv'
<1> USE DEF user, camera, frames, completion, Go
<1>1. /\ UNCHANGED <<upc, starts, m_running, m_handle, m_numFrames, lock, cameraFrame, status,
                     m_pCam, camRunning, cpc, used, m_lastIdx, mLength, owed, thrown, overwritten,
                     m_wait, staleWait, interrupted>>
      /\ m_framequeue' = queue_read(m_framequeue) /\ epc = "read"
      /\ epc' = IF Reads(m_framequeue) THEN "got" ELSE "quit"
      BY DEF DequeueRead
<1>2. Types /\ Lifetimes /\ Uninterrupted /\ GoodQueue(m_framequeue)
      BY DEF EngineInv, Types
<1>3. GoodQueue(m_framequeue') /\ m_framequeue'.popped = m_framequeue.popped
      BY <1>1, <1>2, ReadFacts
<1>4. m_running' \in BOOLEAN /\ (m_running' => m_running)
      BY <1>1, <1>2 DEF Types
<1>5. epc' \in {"got", "quit"} /\ (epc' = "got" <=> Reads(m_framequeue))
      BY <1>1
<1>6. Total' = Total + 0
      BY <1>1, <1>5, ReadTotal DEF EngineHas
<1>7. ~m_pCam => m_framequeue'.ring = << >> /\ epc' \notin EngineHas
      <2> SUFFICES ASSUME ~m_pCam
                   PROVE  m_framequeue'.ring = << >> /\ epc' \notin EngineHas
            OBVIOUS
      <2>1. m_framequeue.ring = << >>
            BY <1>1, <1>2 DEF Lifetimes, InLoop
      <2>2. ~Reads(m_framequeue)
            BY <2>1 DEF Reads, HasData
      <2>3. m_framequeue'.ring = m_framequeue.ring
            BY <1>1, <1>2, <2>2, ReadFacts
      <2> QED
            BY <1>5, <2>1, <2>2, <2>3 DEF EngineHas
<1>8. /\ m_numFrames' \in 0..NumFrames /\ lock' \in {"free", "engine", "camera"}
      /\ status' \in BOOLEAN /\ mLength' \in BOOLEAN /\ cpc' \in Cpcs /\ cameraFrame' \in BOOLEAN
      BY <1>1, <1>2 DEF Types
<1>9. /\ epc' \in Epcs /\ epc \in InLoop /\ epc # "quit"
      /\ epc' \in (InLoop \cup {"crashed"}) \ {"setup"}
      BY <1>1, <1>5 DEF Epcs, InLoop
<1>10. owed' = owed + 0
      BY <1>1, TotalFacts
<1>11. /\ used' \in [Buffers -> BOOLEAN] /\ m_lastIdx' \in Buffers
       /\ overwritten' \in BOOLEAN
       /\ thrown <= owed' /\ owed' <= Cardinality(UsedBuffers')
       /\ OneFrame' /\ ReturnedBeforeNext'
      BY <1>1, SameBuffers
<1>12. ~interrupted => /\ epc' = "dropRead" => HasData(m_framequeue'.ring)
                       /\ epc' # "crashed"
      BY <1>5
<1> QED
      BY <1>1, <1>3, <1>4, <1>6, <1>7, <1>8, <1>9, <1>10, <1>11, <1>12, Transfer

\* queue_write by the camera's thread: the frame goes from its hands into the queue.
LEMMA KeepsReceiveWrites ==
    ASSUME EngineInv, ReceiveWrites
    PROVE  EngineInv'
<1> USE DEF user, engine, frames, completion, Cam
<1>1. /\ UNCHANGED <<upc, starts, m_running, m_handle, m_numFrames, lock, epc, cameraFrame, status,
                     m_pCam, camRunning, used, m_lastIdx, mLength, owed, thrown, overwritten,
                     m_wait, staleWait, interrupted>>
      /\ m_framequeue' = queue_write(m_framequeue, Frame) /\ cpc = "write"
      /\ cpc' = IF Writes(m_framequeue) THEN "sleep" ELSE "full"
      BY DEF ReceiveWrites
<1>2. Types /\ Lifetimes /\ Uninterrupted /\ GoodQueue(m_framequeue)
      BY DEF EngineInv, Types
<1>3. /\ GoodQueue(m_framequeue') /\ m_framequeue'.popped = m_framequeue.popped
      /\ Writes(m_framequeue) => Len(m_framequeue'.ring) = Len(m_framequeue.ring) + 1
      /\ ~Writes(m_framequeue) => Len(m_framequeue'.ring) = Len(m_framequeue.ring)
      BY <1>1, <1>2, WriteFacts
<1>4. Len(m_framequeue.ring) \in Nat /\ thrown \in Nat /\ owed \in Nat
      BY TotalFacts
<1>5. m_pCam
      BY <1>1, <1>2 DEF Lifetimes
<1>6. Total' = Total + 0
      <2>1. One(cpc \in CameraHas) = 1
            BY <1>1 DEF One, CameraHas
      <2>2. One(cpc' \in CameraHas) = IF Writes(m_framequeue) THEN 0 ELSE 1
            BY <1>1 DEF One, CameraHas
      <2>3. One(epc' \in EngineHas) = One(epc \in EngineHas) /\ One(epc \in EngineHas) \in Nat
            BY <1>1 DEF One
      <2>4. Total' = Len(m_framequeue'.ring) + thrown'
                       + (One(epc' \in EngineHas) + One(cpc' \in CameraHas))
            BY DEF Total, InHand, One, EngineHas, CameraHas
      <2>5. Total = Len(m_framequeue.ring) + thrown
                       + (One(epc \in EngineHas) + One(cpc \in CameraHas))
            BY DEF Total, InHand
      <2>6. CASE Writes(m_framequeue)
            BY <1>1, <1>3, <1>4, <2>1, <2>2, <2>3, <2>4, <2>5, <2>6
      <2>7. CASE ~Writes(m_framequeue)
            BY <1>1, <1>3, <1>4, <2>1, <2>2, <2>3, <2>4, <2>5, <2>7
      <2> QED
            BY <2>6, <2>7
<1>7. HasData(m_framequeue.ring) => HasData(m_framequeue'.ring)
      BY <1>3, <1>4 DEF HasData
<1>8. ~interrupted => /\ epc' = "dropRead" => HasData(m_framequeue'.ring)
                      /\ epc' # "crashed"
      BY <1>1, <1>2, <1>7 DEF Uninterrupted
<1>9. /\ m_numFrames' \in 0..NumFrames /\ lock' \in {"free", "engine", "camera"}
      /\ status' \in BOOLEAN /\ mLength' \in BOOLEAN /\ cameraFrame' \in BOOLEAN
      /\ m_running' \in BOOLEAN /\ epc' \in Epcs /\ epc' = epc
      BY <1>1, <1>2 DEF Types
<1>10. cpc' \in Cpcs /\ cpc # "none" /\ cpc' # "none"
      BY <1>1 DEF Cpcs, CameraHas
<1>11. owed' = owed + 0
      BY <1>1, <1>4
<1>12. /\ used' \in [Buffers -> BOOLEAN] /\ m_lastIdx' \in Buffers
       /\ overwritten' \in BOOLEAN
       /\ thrown <= owed' /\ owed' <= Cardinality(UsedBuffers')
       /\ OneFrame' /\ ReturnedBeforeNext'
      BY <1>1, SameBuffers
<1>13. m_running' => m_running
      BY <1>1, Zenon
<1> QED
      BY <1>1, <1>3, <1>5, <1>6, <1>8, <1>9, <1>10, <1>11, <1>12, <1>13, Transfer

\* The engine gives back a frame it dropped or has processed.
LEMMA KeepsEngineReturn ==
    ASSUME EngineInv, DropReturn \/ ReturnCameraFrame
    PROVE  EngineInv'
<1> USE DEF user, camera, completion, Go
<1>1. /\ UNCHANGED <<upc, starts, m_running, m_handle, m_numFrames, lock, cameraFrame, status,
                     m_pCam, camRunning, cpc, m_framequeue, m_lastIdx, mLength, thrown,
                     overwritten, m_wait, staleWait, interrupted>>
      /\ returnFrame /\ epc \in {"dropReturn", "return"} /\ epc' \in {"length", "loop"}
      BY DEF DropReturn, ReturnCameraFrame
<1>2. Types /\ Lifetimes /\ Uninterrupted /\ GoodQueue(m_framequeue)
      BY DEF EngineInv, Types
<1>3. epc \in EngineHas /\ epc \in InLoop
      BY <1>1 DEF EngineHas, InLoop
<1>4. m_pCam
      BY <1>2, <1>3 DEF Lifetimes
<1>5. Len(m_framequeue.ring) \in Nat /\ thrown \in Nat /\ owed \in Nat
      BY TotalFacts
<1>6. One(epc \in EngineHas) = 1 /\ One(cpc \in CameraHas) \in Nat
      BY <1>3 DEF One
<1>7. InHand >= 1
      BY <1>6 DEF InHand
<1>8. /\ used' \in [Buffers -> BOOLEAN] /\ owed' = owed - 1 /\ thrown <= owed'
      /\ owed' <= Cardinality(UsedBuffers') /\ OneFrame' /\ ReturnedBeforeNext'
      BY <1>1, <1>4, <1>7, ReturnFacts
<1>9. Total' = Total + (-1)
      <2>1. One(epc' \in EngineHas) = 0
            BY <1>1 DEF One, EngineHas
      <2>2. One(cpc' \in CameraHas) = One(cpc \in CameraHas)
            BY <1>1
      <2>3. Total' = Len(m_framequeue'.ring) + thrown'
                       + (One(epc' \in EngineHas) + One(cpc' \in CameraHas))
            BY DEF Total, InHand, One, EngineHas, CameraHas
      <2>4. Total = Len(m_framequeue.ring) + thrown
                       + (One(epc \in EngineHas) + One(cpc \in CameraHas))
            BY DEF Total, InHand
      <2> QED
            BY <1>1, <1>5, <1>6, <2>1, <2>2, <2>3, <2>4
<1>10. owed' = owed + (-1) /\ -1 \in Int
      BY <1>5, <1>8
<1>11. /\ m_numFrames' \in 0..NumFrames /\ lock' \in {"free", "engine", "camera"}
       /\ status' \in BOOLEAN /\ mLength' \in BOOLEAN /\ cameraFrame' \in BOOLEAN
       /\ m_running' \in BOOLEAN /\ cpc' \in Cpcs /\ m_lastIdx' \in Buffers
       /\ overwritten' \in BOOLEAN
      BY <1>1, <1>2 DEF Types
<1>12. /\ epc' \in Epcs /\ epc # "quit" /\ epc' # "dropRead" /\ epc' # "crashed"
       /\ epc' \in (InLoop \cup {"crashed"}) \ {"setup"}
      BY <1>1 DEF Epcs, InLoop
<1>13. m_running' => m_running
      BY <1>1, Zenon
<1>14. GoodQueue(m_framequeue') /\ m_framequeue'.popped = m_framequeue.popped
      BY <1>1, <1>2
<1>15. UNCHANGED <<upc, starts, m_handle, m_pCam, camRunning, thrown, m_wait, staleWait,
                   interrupted>> /\ cpc' = cpc
      BY <1>1
<1> QED
      BY <1>3, <1>4, <1>8, <1>9, <1>10, <1>11, <1>12, <1>13, <1>14, <1>15, Transfer

\* The camera's thread takes back a frame that found no place in the queue.
LEMMA KeepsReceiveDrops ==
    ASSUME EngineInv, ReceiveDrops
    PROVE  EngineInv'
<1> USE DEF user, engine, completion, Cam
<1>1. /\ UNCHANGED <<upc, starts, m_running, m_handle, epc, cameraFrame, status,
                     m_pCam, camRunning, m_framequeue, m_lastIdx, mLength, thrown,
                     overwritten, m_wait, staleWait, interrupted>>
      /\ returnFrame /\ cpc = "full" /\ cpc' \in {"lockedShutdown", "sleep"}
      /\ lock' \in {"free", "engine", "camera"}
      /\ m_numFrames' = IF m_numFrames > 0 THEN m_numFrames - 1 ELSE 0
      BY DEF ReceiveDrops
<1>2. Types /\ Lifetimes /\ Uninterrupted /\ GoodQueue(m_framequeue)
      BY DEF EngineInv, Types
<1>3. m_pCam
      BY <1>1, <1>2 DEF Lifetimes
<1>4. Len(m_framequeue.ring) \in Nat /\ thrown \in Nat /\ owed \in Nat
      BY TotalFacts
<1>5. One(cpc \in CameraHas) = 1 /\ One(epc \in EngineHas) \in Nat
      BY <1>1 DEF One, CameraHas
<1>6. InHand >= 1
      BY <1>5 DEF InHand
<1>7. /\ used' \in [Buffers -> BOOLEAN] /\ owed' = owed - 1 /\ thrown <= owed'
      /\ owed' <= Cardinality(UsedBuffers') /\ OneFrame' /\ ReturnedBeforeNext'
      BY <1>1, <1>3, <1>6, ReturnFacts
<1>8. Total' = Total + (-1)
      <2>1. One(cpc' \in CameraHas) = 0
            BY <1>1 DEF One, CameraHas
      <2>2. One(epc' \in EngineHas) = One(epc \in EngineHas)
            BY <1>1
      <2>3. Total' = Len(m_framequeue'.ring) + thrown'
                       + (One(epc' \in EngineHas) + One(cpc' \in CameraHas))
            BY DEF Total, InHand, One, EngineHas, CameraHas
      <2>4. Total = Len(m_framequeue.ring) + thrown
                       + (One(epc \in EngineHas) + One(cpc \in CameraHas))
            BY DEF Total, InHand
      <2> QED
            BY <1>1, <1>4, <1>5, <2>1, <2>2, <2>3, <2>4
<1>9. owed' = owed + (-1) /\ -1 \in Int
      BY <1>4, <1>7
<1>10. m_numFrames' \in 0..NumFrames
      <2>1. m_numFrames \in 0..NumFrames /\ NumFrames \in Nat
            BY <1>2, EngineAssumption DEF Types
      <2> QED
            BY <1>1, <2>1
<1>11. /\ status' \in BOOLEAN /\ mLength' \in BOOLEAN /\ cameraFrame' \in BOOLEAN
       /\ m_running' \in BOOLEAN /\ epc' \in Epcs /\ epc' = epc /\ m_lastIdx' \in Buffers
       /\ overwritten' \in BOOLEAN
      BY <1>1, <1>2 DEF Types
<1>12. cpc' \in Cpcs /\ cpc # "none" /\ cpc' # "none"
      BY <1>1 DEF Cpcs
<1>13. m_running' => m_running
      BY <1>1, Zenon
<1>14. /\ GoodQueue(m_framequeue') /\ m_framequeue'.popped = m_framequeue.popped
       /\ ~interrupted => /\ epc' = "dropRead" => HasData(m_framequeue'.ring)
                          /\ epc' # "crashed"
      BY <1>1, <1>2 DEF Uninterrupted
<1>15. UNCHANGED <<upc, starts, m_handle, m_pCam, camRunning, thrown, m_wait, staleWait,
                   interrupted>> /\ lock' \in {"free", "engine", "camera"}
      BY <1>1
<1> QED
      BY <1>3, <1>7, <1>8, <1>9, <1>10, <1>11, <1>12, <1>13, <1>14, <1>15, Transfer

\* The camera hands out a frame.
LEMMA KeepsCameraFills ==
    ASSUME EngineInv, CameraFills
    PROVE  EngineInv'
<1> DEFINE b == getNextFreeBuffer
<1> USE DEF user, engine, completion, Cam
<1>1. /\ UNCHANGED <<upc, starts, m_running, m_handle, m_numFrames, lock, epc, cameraFrame, status,
                     m_pCam, camRunning, m_framequeue, thrown, m_wait, staleWait, interrupted>>
      /\ cpc = "sleep" /\ cpc' = "receive"
      /\ m_lastIdx' = b /\ used' = [used EXCEPT ![b] = TRUE] /\ mLength' \in BOOLEAN
      /\ owed' = owed + 1
      BY DEF CameraFills
<1>2. Types /\ Lifetimes /\ Uninterrupted /\ GoodQueue(m_framequeue)
      BY DEF EngineInv, Types
<1>3. used \in [Buffers -> BOOLEAN] /\ m_lastIdx \in Buffers /\ \E c \in Buffers : ~used[c]
      BY <1>2 DEF Types, CameraFills
<1>4. b \in Buffers /\ ~used[b]
      BY <1>3, NextFree
<1>5. m_pCam
      BY <1>1, <1>2 DEF Lifetimes
<1>6. Len(m_framequeue.ring) \in Nat /\ thrown \in Nat /\ owed \in Nat
      BY TotalFacts
<1>7. overwritten' \in BOOLEAN /\ (~overwritten' => ~overwritten /\ owed = 0)
      <2>1. overwritten' = (overwritten \/ owed > 0)
            BY DEF CameraFills
      <2>2. overwritten' \in BOOLEAN
            BY <2>1
      <2>3. ~overwritten' => ~overwritten /\ ~(owed > 0)
            BY <2>1
      <2>4. ~(owed > 0) => owed = 0
            BY <1>6
      <2> QED
            BY <2>2, <2>3, <2>4
<1> HIDE DEF b
<1>8. /\ used' \in [Buffers -> BOOLEAN] /\ UsedBuffers' = UsedBuffers \cup {b}
      /\ Cardinality(UsedBuffers) \in Nat /\ Cardinality(UsedBuffers') = Cardinality(UsedBuffers) + 1
      BY <1>1, <1>3, <1>4, UsedFacts
<1>9. owed <= Cardinality(UsedBuffers) /\ thrown <= owed
      BY DEF EngineInv, Owed
<1>10. thrown <= owed' /\ owed' <= Cardinality(UsedBuffers')
      BY <1>1, <1>6, <1>8, <1>9
<1>11. OneFrame'
      <2>1. ~overwritten' => owed' <= 1
            BY <1>1, <1>7
      <2> QED
            BY <2>1 DEF OneFrame
<1>12. ReturnedBeforeNext'
      <2> SUFFICES ASSUME ~overwritten'
                   PROVE  UsedBuffers' = (IF owed' = 0 THEN {} ELSE {m_lastIdx'})
            BY DEF ReturnedBeforeNext, UsedBuffers
      <2>1. UsedBuffers = {}
            BY <1>5, <1>7 DEF EngineInv, ReturnedBeforeNext, UsedBuffers
      <2>2. owed' # 0
            BY <1>1, <1>6
      <2> QED
            BY <1>1, <1>8, <2>1, <2>2
<1>13. Total' = Total + 1
      <2>1. One(cpc \in CameraHas) = 0 /\ One(cpc' \in CameraHas) = 1
            BY <1>1 DEF One, CameraHas
      <2>2. One(epc' \in EngineHas) = One(epc \in EngineHas) /\ One(epc \in EngineHas) \in Nat
            BY <1>1 DEF One
      <2>3. Total' = Len(m_framequeue'.ring) + thrown'
                       + (One(epc' \in EngineHas) + One(cpc' \in CameraHas))
            BY DEF Total, InHand, One, EngineHas, CameraHas
      <2>4. Total = Len(m_framequeue.ring) + thrown
                       + (One(epc \in EngineHas) + One(cpc \in CameraHas))
            BY DEF Total, InHand
      <2> QED
            BY <1>1, <1>6, <2>1, <2>2, <2>3, <2>4
<1>14. /\ status' \in BOOLEAN /\ mLength' \in BOOLEAN /\ cameraFrame' \in BOOLEAN
       /\ m_running' \in BOOLEAN /\ epc' \in Epcs /\ epc' = epc /\ m_lastIdx' \in Buffers
       /\ m_numFrames' \in 0..NumFrames /\ lock' \in {"free", "engine", "camera"}
      BY <1>1, <1>2, <1>4 DEF Types
<1>15. cpc' \in Cpcs /\ cpc # "none" /\ cpc' # "none"
      BY <1>1 DEF Cpcs, CameraHas
<1>16. m_running' => m_running
      BY <1>1, Zenon
<1>17. /\ GoodQueue(m_framequeue') /\ m_framequeue'.popped = m_framequeue.popped
       /\ ~interrupted => /\ epc' = "dropRead" => HasData(m_framequeue'.ring)
                          /\ epc' # "crashed"
      BY <1>1, <1>2 DEF Uninterrupted
<1>18. UNCHANGED <<upc, starts, m_handle, m_pCam, camRunning, thrown, m_wait, staleWait,
                   interrupted>>
      BY <1>1
<1>19. owed' = owed + 1 /\ 1 \in Int /\ overwritten' \in BOOLEAN
      BY <1>1, <1>7
<1> QED
      BY <1>5, <1>8, <1>10, <1>11, <1>12, <1>13, <1>14, <1>15, <1>16, <1>17, <1>18, <1>19, Transfer

-----------------------------------------------------------------------------
\* The queue is popped or reset under the engine: frames may be thrown away, and
\* from here on the engine can rely on nothing it saw in the queue.
LEMMA Interrupt ==
    ASSUME EngineInv, interrupted' = TRUE,
           UNCHANGED <<m_running, m_handle, m_numFrames, epc, cameraFrame, m_pCam, camRunning,
                       used, m_lastIdx, mLength, owed, overwritten, m_wait, staleWait>>,
           GoodQueue(m_framequeue'), status' \in BOOLEAN,
           upc' \in {"idle", "pop", "stop", "join", "wait", "woken"}, starts' \in 0..MaxStarts,
           lock' \in {"free", "engine", "camera"},
           cpc' \in Cpcs, cpc' # cpc => cpc # "none" /\ cpc' # "none",
           cpc' \in CameraHas <=> cpc \in CameraHas,
           m_framequeue.ring = << >> => m_framequeue'.ring = << >>,
           thrown' \in Nat, thrown' <= owed,
           m_pCam => Len(m_framequeue'.ring) + thrown' = Len(m_framequeue.ring) + thrown
    PROVE  EngineInv'
<1>1. /\ Types /\ Lifetimes /\ Owed /\ OneFrame /\ ReturnedBeforeNext /\ Finished
      BY DEF EngineInv
<1>2. Types'
      BY <1>1 DEF Types
<1>3. Lifetimes'
      <2>1. ~m_pCam => cpc' = "none"
            BY <1>1 DEF Lifetimes
      <2> QED
            BY <1>1, <2>1 DEF Lifetimes
<1>4. /\ Len(m_framequeue.ring) \in Nat /\ thrown \in Nat /\ owed \in Nat
      /\ Len(m_framequeue'.ring) \in Nat
      BY TotalFacts, GoodParts
<1>5. m_pCam => Total' = Total
      <2>1. One(cpc' \in CameraHas) = One(cpc \in CameraHas) /\ One(cpc \in CameraHas) \in Nat
            BY DEF One
      <2>2. One(epc' \in EngineHas) = One(epc \in EngineHas) /\ One(epc \in EngineHas) \in Nat
            BY DEF One
      <2>3. Total' = Len(m_framequeue'.ring) + thrown'
                       + (One(epc' \in EngineHas) + One(cpc' \in CameraHas))
            BY DEF Total, InHand, One, EngineHas, CameraHas
      <2>4. Total = Len(m_framequeue.ring) + thrown
                       + (One(epc \in EngineHas) + One(cpc \in CameraHas))
            BY DEF Total, InHand
      <2> QED
            BY <2>1, <2>2, <2>3, <2>4
<1>6. UsedBuffers' = UsedBuffers
      BY DEF UsedBuffers
<1>7. Owed'
      <2>1. m_pCam => Total' <= owed
            BY <1>5, TotalFacts
      <2>2. owed \in Nat /\ owed <= Cardinality(UsedBuffers)
            BY <1>1 DEF Owed
      <2> QED
            BY <1>6, <2>1, <2>2 DEF Owed, Total
<1>8. FramesConserved'
      <2>1. m_running' /\ m_pCam' /\ epc' # "quit" => owed' = Total'
            BY <1>5, TotalFacts
      <2>3. Accounted(Len(m_framequeue'.ring), thrown', epc', cpc') = Total'
            BY <1>4, SumOfHandsNext
      <2> QED
            BY <2>1, <2>3, Zenon DEF FramesConserved, Accounted
<1>9. OneFrame' /\ ReturnedBeforeNext'
      BY <1>1 DEF OneFrame, ReturnedBeforeNext
<1>10. Uninterrupted'
      BY DEF Uninterrupted
<1>11. Finished'
      BY <1>1 DEF Finished
<1> QED
      BY <1>2, <1>3, <1>7, <1>8, <1>9, <1>10, <1>11 DEF EngineInv

LEMMA KeepsPops ==
    ASSUME EngineInv, ShutdownPops \/ CameraPops
    PROVE  EngineInv'
<1> USE DEF user, engine, camera, frames, Cam
<1>1. /\ UNCHANGED <<starts, m_running, m_handle, m_numFrames, epc, cameraFrame, status, m_pCam,
                     camRunning, used, m_lastIdx, mLength, owed, thrown, overwritten, m_wait,
                     staleWait>>
      /\ interrupted' = TRUE /\ m_framequeue' = queue_pop(m_framequeue)
      BY DEF ShutdownPops, CameraPops
<1>2. Types /\ GoodQueue(m_framequeue)
      BY DEF EngineInv, Types
<1>3. GoodQueue(m_framequeue') /\ m_framequeue'.ring = m_framequeue.ring
      BY <1>1, <1>2, PopFacts
<1>4. upc' \in {"idle", "pop", "stop", "join", "wait", "woken"} /\ lock' \in {"free", "engine", "camera"}
      BY <1>2 DEF ShutdownPops, CameraPops, Types
<1>5. cpc' = cpc \/ (cpc \in {"pop", "lockedPop"} /\ cpc' = "sleep")
      BY DEF ShutdownPops, CameraPops
<1>6. /\ cpc' \in Cpcs /\ (cpc' # cpc => cpc # "none" /\ cpc' # "none")
      /\ cpc' \in CameraHas <=> cpc \in CameraHas
      BY <1>2, <1>5 DEF Cpcs, CameraHas, Types
<1>7. thrown' \in Nat /\ thrown' <= owed
      BY <1>1 DEF EngineInv, Owed
<1>8. status' \in BOOLEAN /\ starts' \in 0..MaxStarts
      BY <1>1, <1>2 DEF Types
<1>9. UNCHANGED <<m_running, m_handle, m_numFrames, epc, cameraFrame, m_pCam, camRunning,
                  used, m_lastIdx, mLength, owed, overwritten, m_wait, staleWait>>
      BY <1>1
<1>10. Len(m_framequeue'.ring) + thrown' = Len(m_framequeue.ring) + thrown
      BY <1>1, <1>3
<1> QED
      BY <1>1, <1>3, <1>4, <1>6, <1>7, <1>8, <1>9, <1>10, Interrupt

\* Startup resets the queue, whether or not it finds the engine running.
LEMMA KeepsStartup ==
    ASSUME EngineInv, Startup
    PROVE  EngineInv'
<1> DEFINE create == ~m_handle /\ ~m_running
<1> USE DEF camera
<1>1. /\ UNCHANGED <<upc, m_numFrames, lock, cameraFrame, m_pCam, camRunning, cpc, used, m_lastIdx,
                     mLength, owed, overwritten, m_wait>>
      /\ starts < MaxStarts /\ starts' = starts + 1
      /\ m_framequeue' = queue_reset(m_framequeue)
      /\ thrown' = IF m_pCam THEN thrown + Len(m_framequeue.ring) ELSE thrown
      BY DEF Startup
<1>2. /\ m_running' = (m_running \/ create) /\ m_handle' = (m_handle \/ create)
      /\ epc' = (IF create THEN "setup" ELSE epc) /\ status' = (status \/ create)
      /\ staleWait' = (staleWait \/ (create /\ m_wait)) /\ interrupted' = ~create
      BY DEF Startup, StartThread
<1>3. /\ Types /\ Lifetimes /\ GoodQueue(m_framequeue)
      BY DEF EngineInv, Types
<1>4. /\ GoodQueue(m_framequeue') /\ m_framequeue'.ring = << >> /\ Len(m_framequeue'.ring) = 0
      /\ m_framequeue'.popped = FALSE
      BY <1>1, <1>3, ResetFacts
<1>5. /\ Len(m_framequeue.ring) \in Nat /\ thrown \in Nat /\ owed \in Nat /\ thrown <= owed
      /\ owed <= Cardinality(UsedBuffers) /\ InHand \in 0..2
      /\ m_pCam => Len(m_framequeue.ring) + thrown + InHand <= owed
      BY TotalFacts DEF EngineInv, Owed
<1>6. starts' \in 0..MaxStarts
      <2>1. starts \in 0..MaxStarts /\ MaxStarts \in Nat
            BY <1>3, EngineAssumption DEF Types
      <2> QED
            BY <1>1, <2>1
<1>7. status' \in BOOLEAN /\ m_running' \in BOOLEAN /\ m_handle' \in BOOLEAN
      /\ staleWait' \in BOOLEAN /\ interrupted' \in BOOLEAN
      BY <1>2
<1>8. CASE create
      <2>1. /\ m_running' = TRUE /\ m_handle' = TRUE /\ epc' = "setup" /\ interrupted' = FALSE
            BY <1>2, <1>8
      <2>2. ~m_pCam /\ cpc = "none"
            BY <1>3, <1>8 DEF Lifetimes
      <2>3. m_wait => staleWait'
            BY <1>2, <1>8
      <2>4. thrown' = thrown
            BY <1>1, <2>2
      <2>5. Types'
            <3>1. epc' \in Epcs
                  BY <2>1 DEF Epcs, InLoop
            <3> QED
                  BY <1>1, <1>3, <1>4, <1>6, <1>7, <3>1 DEF Types
      <2>6. Lifetimes'
            BY <1>1, <1>4, <2>1, <2>2 DEF Lifetimes, EngineHas
      <2>7. Owed'
            <3>1. UsedBuffers' = UsedBuffers
                  BY <1>1 DEF UsedBuffers
            <3> QED
                  BY <1>1, <1>5, <2>2, <2>4, <3>1 DEF Owed
      <2>8. FramesConserved' /\ OneFrame' /\ ReturnedBeforeNext'
            BY <1>1, <2>2 DEF FramesConserved, OneFrame, ReturnedBeforeNext
      <2>9. Uninterrupted'
            BY <1>4, <2>1 DEF Uninterrupted
      <2>10. Finished'
            BY <1>1, <2>3 DEF Finished
      <2> QED
            BY <2>5, <2>6, <2>7, <2>8, <2>9, <2>10 DEF EngineInv
<1>9. CASE ~create
      <2>1. /\ m_running' = m_running /\ m_handle' = m_handle /\ epc' = epc /\ interrupted' = TRUE
            /\ staleWait' = staleWait
            BY <1>2, <1>3, <1>9 DEF Types
      <2>2. thrown' \in Nat /\ thrown' <= owed
            BY <1>1, <1>5
      <2>3. m_pCam => Len(m_framequeue'.ring) + thrown' = Len(m_framequeue.ring) + thrown
            BY <1>1, <1>4, <1>5
      <2>4. UNCHANGED <<m_running, m_handle, m_numFrames, epc, cameraFrame, m_pCam, camRunning,
                        used, m_lastIdx, mLength, owed, overwritten, m_wait, staleWait>>
            BY <1>1, <2>1
      <2>5. /\ upc' \in {"idle", "pop", "stop", "join", "wait", "woken"}
            /\ lock' \in {"free", "engine", "camera"} /\ cpc' \in Cpcs /\ cpc' = cpc
            BY <1>1, <1>3 DEF Types
      <2> QED
            BY <1>4, <1>6, <1>7, <2>1, <2>2, <2>3, <2>4, <2>5, Interrupt
<1> QED
      BY <1>8, <1>9

-----------------------------------------------------------------------------
\* The camera is made and deleted.
LEMMA NoBuffersUsed ==
    ASSUME used' = [b \in Buffers |-> FALSE]
    PROVE  used' \in [Buffers -> BOOLEAN] /\ UsedBuffers' = {} /\ Cardinality(UsedBuffers') = 0
<1>1. used' \in [Buffers -> BOOLEAN] /\ UsedBuffers' = {}
      BY DEF UsedBuffers
<1> QED
      BY <1>1, FS_EmptySet

LEMMA KeepsGraphSetup ==
    ASSUME EngineInv, GraphSetup
    PROVE  EngineInv'
<1> USE DEF user, camera, frames, completion, Go
<1>1. /\ UNCHANGED <<upc, starts, m_running, m_handle, m_framequeue, m_numFrames, cameraFrame,
                     m_wait, staleWait, interrupted>>
      /\ epc = "setup" /\ epc' = "unlock" /\ lock' = "engine"
      BY DEF GraphSetup
<1>2. Types /\ Lifetimes /\ Uninterrupted /\ Finished /\ GoodQueue(m_framequeue)
      BY DEF EngineInv, Types
<1>3. /\ ~m_pCam /\ cpc = "none" /\ m_framequeue.ring = << >> /\ Len(m_framequeue.ring) = 0
      /\ m_handle
      BY <1>1, <1>2 DEF Lifetimes, InLoop
<1>4. ~(m_wait /\ ~staleWait)
      BY <1>1, <1>2 DEF Finished
<1>5. /\ upc' \in {"idle", "pop", "stop", "join", "wait", "woken"} /\ starts' \in 0..MaxStarts
      /\ m_running' \in BOOLEAN /\ m_handle' \in BOOLEAN /\ m_numFrames' \in 0..NumFrames
      /\ cameraFrame' \in BOOLEAN /\ m_wait' \in BOOLEAN /\ staleWait' \in BOOLEAN
      /\ interrupted' \in BOOLEAN /\ GoodQueue(m_framequeue')
      BY <1>1, <1>2 DEF Types
<1>6. m_running' => m_running
      BY <1>1, Zenon
<1>7. epc' \in Epcs /\ epc \in InLoop /\ epc \notin EngineHas /\ epc' \notin EngineHas
      BY <1>1 DEF Epcs, InLoop, EngineHas
<1>8. CASE status' \in BOOLEAN /\ UNCHANGED <<camera, frames>>
      <2>1. UNCHANGED kept
            BY <1>1, <1>8 DEF kept
      <2>2. cpc' \in Cpcs /\ camRunning' \in BOOLEAN /\ cpc' = cpc
            BY <1>2, <1>8 DEF Types
      <2> QED
            BY <1>1, <1>3, <1>4, <1>5, <1>6, <1>7, <1>8, <2>1, <2>2, Shift
<1>9. CASE /\ m_pCam' = TRUE
           /\ PreviewStart
           /\ status' = camRunning'
           /\ used' = [b \in Buffers |-> FALSE]
           /\ m_lastIdx' = NumBuffers - 1
           /\ mLength' = TRUE /\ owed' = 0 /\ thrown' = 0 /\ overwritten' = FALSE
      <2>1. /\ m_pCam' \in BOOLEAN /\ camRunning' \in BOOLEAN /\ cpc' \in {"start", "none"}
            /\ status' \in BOOLEAN /\ mLength' \in BOOLEAN /\ overwritten' \in BOOLEAN
            BY <1>9 DEF PreviewStart
      <2>2. m_lastIdx' \in Buffers
            BY <1>9, EngineAssumption DEF Buffers
      <2>3. used' \in [Buffers -> BOOLEAN] /\ UsedBuffers' = {} /\ Cardinality(UsedBuffers') = 0
            BY <1>9, NoBuffersUsed
      <2>4. cpc' \in Cpcs /\ cpc' \notin CameraHas
            BY <2>1 DEF Cpcs, CameraHas
      <2>5. Types'
            BY <1>1, <1>5, <1>7, <2>1, <2>2, <2>3, <2>4 DEF Types
      <2>6. Lifetimes'
            BY <1>1, <1>3, <1>9 DEF Lifetimes
      <2>7. Len(m_framequeue'.ring) = 0 /\ InHand' = 0
            BY <1>1, <1>3, <1>7, <2>4 DEF InHand, One
      <2>8. Owed'
            BY <1>9, <2>3, <2>7 DEF Owed
      <2>9. FramesConserved'
            BY <1>9, <1>7, <2>4, <2>7 DEF FramesConserved, EngineHas, CameraHas
      <2>10. OneFrame' /\ ReturnedBeforeNext'
            BY <1>9, <2>3 DEF OneFrame, ReturnedBeforeNext, UsedBuffers
      <2>11. Uninterrupted' /\ Finished'
            BY <1>1, <1>2, <1>4 DEF Uninterrupted, Finished
      <2> QED
            BY <2>5, <2>6, <2>8, <2>9, <2>10, <2>11 DEF EngineInv
<1> QED
      BY <1>8, <1>9 DEF GraphSetup

LEMMA KeepsCameraDeinit ==
    ASSUME EngineInv, CameraDeinit
    PROVE  EngineInv'
<1> USE DEF user, frames, completion, Go
<1>1. /\ UNCHANGED <<upc, starts, m_running, m_handle, m_framequeue, m_numFrames, lock,
                     cameraFrame, status, camRunning, used, m_lastIdx, mLength, owed, thrown,
                     overwritten, m_wait, staleWait, interrupted>>
      /\ epc = "joinCam" /\ epc' = "free" /\ m_pCam' = FALSE /\ cpc' = "none"
      BY DEF CameraDeinit
<1>2. Types /\ Lifetimes /\ Owed /\ Uninterrupted /\ Finished
      BY DEF EngineInv
<1>3. Types'
      <2>1. epc' \in Epcs /\ cpc' \in Cpcs /\ m_pCam' \in BOOLEAN
            BY <1>1 DEF Epcs, Cpcs
      <2> QED
            BY <1>1, <1>2, <2>1 DEF Types
<1>4. Lifetimes'
      BY <1>1, <1>2 DEF Lifetimes, InLoop
<1>5. Owed'
      <2>1. UsedBuffers' = UsedBuffers
            BY <1>1 DEF UsedBuffers
      <2> QED
            BY <1>1, <1>2, <2>1 DEF Owed
<1>6. FramesConserved' /\ OneFrame' /\ ReturnedBeforeNext'
      BY <1>1 DEF FramesConserved, OneFrame, ReturnedBeforeNext
<1>7. Uninterrupted' /\ Finished'
      BY <1>1, <1>2 DEF Uninterrupted, Finished
<1> QED
      BY <1>3, <1>4, <1>5, <1>6, <1>7 DEF EngineInv

-----------------------------------------------------------------------------
LEMMA InitEngine == Init => EngineInv
<1> SUFFICES ASSUME Init
             PROVE  EngineInv
      OBVIOUS
<1> USE DEF Init
<1>1. GoodQueue(queue_create) /\ queue_create.ring = << >> /\ queue_create.popped = FALSE
      <2>1. << >> \in Seq({Frame}) /\ Len(<< >>) = 0
            OBVIOUS
      <2>2. ~HasData(<< >>) /\ 0 <= QueueDepth
            BY <2>1, QueueAssumption DEF HasData
      <2>3. /\ queue_create \in QueueOf({Frame}) /\ queue_create.ring = << >>
            /\ queue_create.active = TRUE /\ queue_create.popped = FALSE
            /\ queue_create.readEvent = FALSE
            BY <2>1 DEF queue_create, QueueOf
      <2> QED
            BY <2>1, <2>2, <2>3 DEF GoodQueue
<1>2. used \in [Buffers -> BOOLEAN] /\ UsedBuffers = {} /\ Cardinality(UsedBuffers) = 0
      <2>1. used \in [Buffers -> BOOLEAN] /\ UsedBuffers = {}
            BY DEF UsedBuffers
      <2> QED
            BY <2>1, FS_EmptySet
<1>3. Types
      <2>1. starts \in 0..MaxStarts /\ m_lastIdx \in Buffers
            BY EngineAssumption DEF Buffers
      <2>2. epc \in Epcs /\ cpc \in Cpcs
            BY DEF Epcs, Cpcs
      <2> QED
            BY <1>1, <1>2, <2>1, <2>2 DEF Types
<1>4. Lifetimes
      BY DEF Lifetimes, InLoop
<1>5. Owed
      BY <1>2 DEF Owed
<1>6. FramesConserved /\ OneFrame /\ ReturnedBeforeNext
      BY DEF FramesConserved, OneFrame, ReturnedBeforeNext
<1>7. Uninterrupted /\ Finished
      BY <1>1 DEF Uninterrupted, Finished
<1> QED
      BY <1>3, <1>4, <1>5, <1>6, <1>7 DEF EngineInv

LEMMA StutterEngine ==
    ASSUME EngineInv, UNCHANGED vars
    PROVE  EngineInv'
<1>1. UNCHANGED <<kept, upc, starts, m_running, m_handle, m_numFrames, lock, epc, cpc, cameraFrame,
                  status, camRunning, m_wait, staleWait>>
      BY DEF vars, user, engine, camera, frames, completion, kept
<1>2. Types /\ Lifetimes /\ Finished
      BY DEF EngineInv
<1>3. m_running' => m_running
      BY <1>1, Zenon
<1>4. /\ ~m_handle' => epc' \in {"none", "exited"}
      /\ m_wait' /\ ~staleWait' => epc' = "exited"
      BY <1>1, <1>2 DEF Lifetimes, Finished
<1> QED
      BY <1>1, <1>2, <1>3, <1>4, Shift DEF Types

LEMMA StepEngine ==
    ASSUME EngineInv, [Next]_vars
    PROVE  EngineInv'
<1>1. CASE UserStep
      BY <1>1, KeepsStartup, UserShift, KeepsPops DEF UserStep
<1>2. CASE EngineStep
      BY <1>2, KeepsGraphSetup, EngineShift, KeepsDropRead, KeepsEngineReturn, KeepsDequeueRead,
         KeepsCameraDeinit DEF EngineStep
<1>3. CASE CameraStep
      BY <1>3, CameraShift, KeepsCameraFills, KeepsReceiveWrites, KeepsReceiveDrops, KeepsPops
         DEF CameraStep
<1>4. CASE UNCHANGED vars
      BY <1>4, StutterEngine
<1> QED
      BY <1>1, <1>2, <1>3, <1>4 DEF Next

\* The three threads keep the invariant: who can exist together, who has the
\* frames, and what the engine may rely on.
THEOREM EngineInvariant == Spec => []EngineInv
<1>1. Init => EngineInv
      BY InitEngine
<1>2. EngineInv /\ [Next]_vars => EngineInv'
      BY StepEngine
<1> QED
      BY <1>1, <1>2, PTL DEF Spec

\* Type correctness; in particular the camera is never owed more frames than it
\* has buffers, whatever Startup throws away.
THEOREM EngineTypeOK == Spec => []TypeOK
<1>1. EngineInv => TypeOK
      <2> SUFFICES ASSUME EngineInv
                   PROVE  TypeOK
            OBVIOUS
      <2>1. Types /\ Owed
            BY DEF EngineInv
      <2>2. owed \in 0..NumBuffers /\ thrown \in 0..NumBuffers
            BY <2>1, UsedBound, EngineAssumption DEF Owed
      <2>3. m_framequeue \in QueueOf({Frame}) /\ Len(m_framequeue.ring) <= QueueDepth
            BY <2>1 DEF Types, GoodQueue
      <2> QED
            BY <2>1, <2>2, <2>3 DEF Types, TypeOK, Epcs, InLoop, Cpcs, CameraHas
<1> QED
      BY <1>1, EngineInvariant, PTL

\* No frame of VisionEngine is lost or returned twice while the engine runs, and
\* DequeueImage dereferences NULL only if the queue was popped or reset under it.
THEOREM FramesAccountedForHolds == Spec => []FramesAccountedFor
<1>1. EngineInv => FramesAccountedFor
      BY DEF EngineInv, Uninterrupted, FramesAccountedFor, NullOnlyWhenInterrupted
<1> QED
      BY <1>1, EngineInvariant, PTL

\* As long as every frame came back before the next timer of the file camera, its
\* buffers in use are those of the frame that is out.
THEOREM ReturnedBeforeNextHolds == Spec => []ReturnedBeforeNext
<1>1. EngineInv => ReturnedBeforeNext
      BY DEF EngineInv
<1> QED
      BY <1>1, EngineInvariant, PTL

\* WaitForCompletion returns true only after RunThread has ended and its camera is
\* gone, unless the event was left over from an earlier run.
THEOREM CompletionMeansDoneHolds == Spec => CompletionMeansDone
<1>1. EngineInv => ((upc = "woken" /\ upc' = "idle" /\ m_wait /\ ~staleWait)
                       => (epc = "exited" /\ ~m_pCam /\ cpc = "none"))
      BY DEF EngineInv, Finished, Lifetimes
<1> QED
      BY <1>1, EngineInvariant, PTL DEF CompletionMeansDone
=============================================================================
