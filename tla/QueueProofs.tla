----------------------------- MODULE QueueProofs -----------------------------
(***************************************************************************)
(* Proofs about the message queue and its clients, for any depth, any      *)
(* readers and writers and any number of messages.                         *)
(***************************************************************************)
EXTENDS QueueClients, SequenceTheorems, TLAPS

\* A queue that stays within its depth.
Bounded(queue) == queue \in QueueOf(Msgs) /\ Len(queue.ring) <= QueueDepth

\* EventsTrackRing for a given queue.
EventsOK(queue) ==
    /\ Usable(queue) => /\ (queue.readEvent <=> HasData(queue.ring))
                        /\ (queue.writeEvent <=> HasSpace(queue.ring))
    /\ ~queue.popped => /\ queue.readEvent => HasData(queue.ring)
                        /\ queue.writeEvent => HasSpace(queue.ring)

\* The two tests are Boolean values, which the provers have to be told.
LEMMA TestsBoolean == \A r : HasData(r) \in BOOLEAN /\ HasSpace(r) \in BOOLEAN
BY DEF HasData, HasSpace

\* A queue record with new contents, flags and events is a queue record.
LEMMA UpdateType ==
    ASSUME NEW queue \in QueueOf(Msgs), NEW r \in Seq(Msgs), NEW c \in Int,
           NEW a \in BOOLEAN, NEW p \in BOOLEAN, NEW re \in BOOLEAN, NEW we \in BOOLEAN
    PROVE  /\ [queue EXCEPT !.ring = r, !.msgCount = c, !.writeEvent = we,
                            !.readEvent = re] \in QueueOf(Msgs)
           /\ [queue EXCEPT !.active = a, !.readEvent = re, !.writeEvent = we]
                 \in QueueOf(Msgs)
           /\ [queue EXCEPT !.active = a, !.writeEvent = we, !.readEvent = re]
                 \in QueueOf(Msgs)
           /\ [queue EXCEPT !.popped = p, !.readEvent = re, !.writeEvent = we]
                 \in QueueOf(Msgs)
           /\ [queue EXCEPT !.popped = p, !.writeEvent = we, !.readEvent = re]
                 \in QueueOf(Msgs)
           /\ [queue EXCEPT !.active = a, !.popped = p, !.ring = r, !.writeEvent = we,
                            !.readEvent = re] \in QueueOf(Msgs)
BY DEF QueueOf

\* queue_create returns an empty queue with its events right.
LEMMA CreateFacts == Bounded(queue_create) /\ EventsOK(queue_create)
<1> USE QueueAssumption
<1>1. << >> \in Seq(Msgs) /\ Len(<< >>) = 0
      OBVIOUS
<1>2. Bounded(queue_create)
      BY <1>1 DEF Bounded, QueueOf, queue_create
<1>3. ~HasData(<< >>) /\ HasSpace(<< >>)
      BY <1>1 DEF HasData, HasSpace
<1>4. EventsOK(queue_create)
      BY <1>3 DEF EventsOK, queue_create
<1> QED
      BY <1>2, <1>4

\* What queue_write does to a queue.
LEMMA WriteFacts ==
    ASSUME NEW queue, Bounded(queue), EventsOK(queue), NEW m \in Msgs
    PROVE  Bounded(queue_write(queue, m)) /\ EventsOK(queue_write(queue, m))
<1> USE QueueAssumption
<1> DEFINE r == IF Writes(queue) THEN Append(queue.ring, m) ELSE queue.ring
           c == IF Writes(queue) THEN queue.msgCount + 1 ELSE queue.msgCount
           we == HasSpace(r)
           re == queue.readEvent \/ HasData(r)
           w == [queue EXCEPT !.ring = r, !.msgCount = c, !.writeEvent = we, !.readEvent = re]
<1>1. /\ queue \in QueueOf(Msgs) /\ queue.ring \in Seq(Msgs) /\ Len(queue.ring) \in Nat
      /\ queue.msgCount \in Int
      BY DEF Bounded, QueueOf
<1>2. r \in Seq(Msgs) /\ Len(r) \in Nat /\ Len(r) <= QueueDepth /\ Len(queue.ring) <= Len(r)
  <2>1. CASE Writes(queue)
    <3>1. Append(queue.ring, m) \in Seq(Msgs)
          /\ Len(Append(queue.ring, m)) = Len(queue.ring) + 1
          BY <1>1
    <3> QED
          BY <1>1, <2>1, <3>1 DEF Writes, HasSpace
  <2>2. CASE ~Writes(queue)
        BY <1>1, <2>2 DEF Bounded
  <2> QED
        BY <2>1, <2>2
<1>3. CASE ~Usable(queue)
      BY <1>3 DEF queue_write
<1>4. CASE Usable(queue)
  <2>1. queue_write(queue, m) = w
        BY <1>4 DEF queue_write
  <2>2. c \in Int /\ we \in BOOLEAN /\ re \in BOOLEAN
        BY <1>1, TestsBoolean
  <2>3. HasData(queue.ring) => HasData(r)
        BY <1>1, <1>2 DEF HasData
  <2> HIDE DEF r, c
  <2>4. w \in QueueOf(Msgs)
    <3> HIDE DEF we, re
    <3> QED
        BY <1>1, <1>2, <2>2, UpdateType
  <2>5. /\ w.ring = r /\ w.active = queue.active /\ w.popped = queue.popped
        /\ w.writeEvent = we /\ w.readEvent = re
        BY <1>1 DEF QueueOf
  <2>6. Bounded(w)
        BY <1>2, <2>4, <2>5 DEF Bounded
  <2>7. queue.readEvent <=> HasData(queue.ring)
        BY <1>4 DEF EventsOK
  <2>8. EventsOK(w)
        BY <2>3, <2>5, <2>7 DEF EventsOK
  <2> QED
        BY <2>1, <2>6, <2>8
<1> QED
      BY <1>3, <1>4

\* What queue_read does to a queue.
LEMMA ReadFacts ==
    ASSUME NEW queue, Bounded(queue), EventsOK(queue)
    PROVE  Bounded(queue_read(queue)) /\ EventsOK(queue_read(queue))
<1> USE QueueAssumption
<1> DEFINE r == IF Reads(queue) THEN Tail(queue.ring) ELSE queue.ring
           c == IF Reads(queue) THEN queue.msgCount - 1 ELSE queue.msgCount
           we == queue.writeEvent \/ HasSpace(r)
           re == HasData(r)
           w == [queue EXCEPT !.ring = r, !.msgCount = c, !.writeEvent = we, !.readEvent = re]
<1>1. /\ queue \in QueueOf(Msgs) /\ queue.ring \in Seq(Msgs) /\ Len(queue.ring) \in Nat
      /\ queue.msgCount \in Int /\ Len(queue.ring) <= QueueDepth
      BY DEF Bounded, QueueOf
<1>2. r \in Seq(Msgs) /\ Len(r) \in Nat /\ Len(r) <= Len(queue.ring)
  <2>1. CASE Reads(queue)
    <3>1. queue.ring # << >>
          BY <1>1, <2>1 DEF Reads, HasData
    <3>2. Tail(queue.ring) \in Seq(Msgs) /\ Len(Tail(queue.ring)) = Len(queue.ring) - 1
          BY <1>1, <3>1
    <3> QED
          BY <1>1, <2>1, <3>2
  <2>2. CASE ~Reads(queue)
        BY <1>1, <2>2
  <2> QED
        BY <2>1, <2>2
<1>3. CASE ~Usable(queue)
      BY <1>3 DEF queue_read
<1>4. CASE Usable(queue)
  <2>1. queue_read(queue) = w
        BY <1>4 DEF queue_read
  <2>2. c \in Int /\ we \in BOOLEAN /\ re \in BOOLEAN
        BY <1>1, TestsBoolean
  <2>3. HasSpace(queue.ring) => HasSpace(r)
        BY <1>1, <1>2 DEF HasSpace
  <2> HIDE DEF r, c
  <2>4. w \in QueueOf(Msgs)
    <3> HIDE DEF we, re
    <3> QED
        BY <1>1, <1>2, <2>2, UpdateType
  <2>5. /\ w.ring = r /\ w.active = queue.active /\ w.popped = queue.popped
        /\ w.writeEvent = we /\ w.readEvent = re
        BY <1>1 DEF QueueOf
  <2>6. Len(r) <= QueueDepth
        BY <1>1, <1>2
  <2>7. Bounded(w)
        BY <2>4, <2>5, <2>6 DEF Bounded
  <2>8. queue.writeEvent <=> HasSpace(queue.ring)
        BY <1>4 DEF EventsOK
  <2>9. EventsOK(w)
        BY <2>3, <2>5, <2>8 DEF EventsOK
  <2> QED
        BY <2>1, <2>7, <2>9
<1> QED
      BY <1>3, <1>4

\* queue_enable raises the events that the contents justify.
LEMMA EnableFacts ==
    ASSUME NEW queue, Bounded(queue), EventsOK(queue)
    PROVE  Bounded(queue_enable(queue)) /\ EventsOK(queue_enable(queue))
<1> DEFINE we == queue.writeEvent \/ HasSpace(queue.ring)
           re == queue.readEvent \/ HasData(queue.ring)
           w == [queue EXCEPT !.active = TRUE, !.writeEvent = we, !.readEvent = re]
<1>1. queue \in QueueOf(Msgs) /\ queue.ring \in Seq(Msgs) /\ queue.msgCount \in Int
      /\ queue.popped \in BOOLEAN /\ we \in BOOLEAN /\ re \in BOOLEAN
      BY TestsBoolean DEF Bounded, QueueOf
<1>2. w \in QueueOf(Msgs)
  <2> HIDE DEF we, re
  <2> QED
      BY <1>1, UpdateType
<1>3. /\ w.ring = queue.ring /\ w.active = TRUE /\ w.popped = queue.popped
      /\ w.writeEvent = we /\ w.readEvent = re
      BY <1>1 DEF QueueOf
<1>4. Bounded(w)
      BY <1>2, <1>3 DEF Bounded
<1>5. EventsOK(w)
      BY <1>3 DEF EventsOK, Usable
<1> QED
      BY <1>4, <1>5 DEF queue_enable

\* queue_disable lowers both events.
LEMMA DisableFacts ==
    ASSUME NEW queue, Bounded(queue), EventsOK(queue)
    PROVE  Bounded(queue_disable(queue)) /\ EventsOK(queue_disable(queue))
BY DEF queue_disable, Bounded, EventsOK, QueueOf, Usable

\* queue_pop raises both; a popped queue promises nothing about its events.
LEMMA PopFacts ==
    ASSUME NEW queue, Bounded(queue)
    PROVE  Bounded(queue_pop(queue)) /\ EventsOK(queue_pop(queue))
BY DEF queue_pop, Bounded, EventsOK, QueueOf, Usable

\* queue_unpop computes both events anew.
LEMMA UnpopFacts ==
    ASSUME NEW queue, Bounded(queue)
    PROVE  Bounded(queue_unpop(queue)) /\ EventsOK(queue_unpop(queue))
<1> DEFINE we == HasSpace(queue.ring)
           re == HasData(queue.ring)
           w == [queue EXCEPT !.popped = FALSE, !.writeEvent = we, !.readEvent = re]
<1>1. queue \in QueueOf(Msgs) /\ queue.ring \in Seq(Msgs) /\ queue.msgCount \in Int
      /\ queue.active \in BOOLEAN /\ we \in BOOLEAN /\ re \in BOOLEAN
      BY TestsBoolean DEF Bounded, QueueOf
<1>2. w \in QueueOf(Msgs)
  <2> HIDE DEF we, re
  <2> QED
      BY <1>1, UpdateType
<1>3. /\ w.ring = queue.ring /\ w.active = queue.active /\ w.popped = FALSE
      /\ w.writeEvent = we /\ w.readEvent = re
      BY <1>1 DEF QueueOf
<1>4. Bounded(w)
      BY <1>2, <1>3 DEF Bounded
<1>5. EventsOK(w)
      BY <1>3 DEF EventsOK
<1> QED
      BY <1>4, <1>5 DEF queue_unpop

\* queue_reset leaves an empty, usable queue.
LEMMA ResetFacts ==
    ASSUME NEW queue, Bounded(queue)
    PROVE  Bounded(queue_reset(queue)) /\ EventsOK(queue_reset(queue))
<1> USE QueueAssumption
<1> DEFINE w == queue_reset(queue)
<1>1. << >> \in Seq(Msgs) /\ Len(<< >>) = 0
      OBVIOUS
<1>2. w \in QueueOf(Msgs) /\ w.ring = << >> /\ w.writeEvent = TRUE /\ w.readEvent = FALSE
      BY <1>1 DEF Bounded, QueueOf, queue_reset
<1>3. ~HasData(<< >>) /\ HasSpace(<< >>)
      BY <1>1 DEF HasData, HasSpace
<1> QED
      BY <1>1, <1>2, <1>3 DEF Bounded, EventsOK

-----------------------------------------------------------------------------
\* A writer inside a call carries a message.
CallsCarry == \A t \in Writers : pc[t] # "idle" => call[t].msg \in Msgs

\* The inductive invariant for types and events: what a locked write puts into
\* the ring comes from the call, and how full the ring gets depends on HasSpace.
IInv == TypeOK /\ EventsTrackRing /\ CallsCarry

\* The two readings of the invariant's parts that concern the queue.
LEMMA QueuePart ==
    ASSUME TypeOK, EventsTrackRing
    PROVE  Bounded(q) /\ EventsOK(q)
BY DEF TypeOK, EventsTrackRing, Bounded, EventsOK

\* The initial state satisfies the invariant.
LEMMA InitIInv == Init => IInv
<1> SUFFICES ASSUME Init
             PROVE  IInv
    OBVIOUS
<1>1. Bounded(q) /\ EventsOK(q)
      BY CreateFacts DEF Init
<1>2. TypeOK
  <2>1. None \in [blocking : BOOLEAN, msg : 0..MaxMsgs]
        BY ClientsAssumption DEF None
  <2>2. /\ pc \in [Threads -> {"idle", "wait", "lock"}]
        /\ call \in [Threads -> [blocking : BOOLEAN, msg : 0..MaxMsgs]]
        BY <2>1 DEF Init
  <2>3. sent \in 0..MaxMsgs
        BY ClientsAssumption DEF Init
  <2>4. /\ accepted \subseteq Msgs /\ received \subseteq Msgs /\ dropped \subseteq Msgs
        /\ phantom \in BOOLEAN /\ disabledOnce \in BOOLEAN
        BY DEF Init
  <2> QED
        BY <1>1, <2>2, <2>3, <2>4 DEF TypeOK, Bounded
<1>3. EventsTrackRing
      BY <1>1 DEF EventsTrackRing, EventsOK
<1>4. CallsCarry
      BY DEF Init, CallsCarry, Threads
<1> QED
      BY <1>2, <1>3, <1>4 DEF IInv

\* The steps outside the mutex leave the queue alone.
LEMMA OutsideIInv ==
    ASSUME IInv, NEW t \in Threads,
           \/ \E blocking \in BOOLEAN : StartRead(t, blocking) \/ StartWrite(t, blocking)
           \/ EventPassed(t)
    PROVE  IInv'
<1> USE ClientsAssumption
<1>1. EventsTrackRing' /\ q' = q
      BY DEF IInv, EventsTrackRing, StartRead, StartWrite, EventPassed
<1>2. ASSUME NEW blocking \in BOOLEAN, StartRead(t, blocking)
      PROVE  TypeOK' /\ CallsCarry'
  <2>1. TypeOK'
        BY <1>2 DEF IInv, TypeOK, StartRead, history
  <2>2. CallsCarry'
        BY <1>2 DEF IInv, TypeOK, CallsCarry, StartRead
  <2> QED
        BY <2>1, <2>2
<1>3. ASSUME NEW blocking \in BOOLEAN, StartWrite(t, blocking)
      PROVE  TypeOK' /\ CallsCarry'
  <2>1. sent + 1 \in Msgs
        BY <1>3 DEF IInv, TypeOK, StartWrite, Msgs
  <2>2. TypeOK'
        BY <1>3, <2>1 DEF IInv, TypeOK, StartWrite, history, Msgs
  <2>3. CallsCarry'
        BY <1>3, <2>1 DEF IInv, TypeOK, CallsCarry, StartWrite, Threads
  <2> QED
        BY <2>2, <2>3
<1>4. ASSUME EventPassed(t)
      PROVE  TypeOK' /\ CallsCarry'
  <2>1. TypeOK'
        BY <1>4 DEF IInv, TypeOK, EventPassed, history
  <2>2. CallsCarry'
        BY <1>4 DEF IInv, TypeOK, CallsCarry, EventPassed, Threads
  <2> QED
        BY <2>1, <2>2
<1> QED
      BY <1>1, <1>2, <1>3, <1>4 DEF IInv

\* A thread returns from the part under the mutex.
LEMMA ReturnIInv ==
    ASSUME IInv, NEW t \in Threads,
           pc' = [pc EXCEPT ![t] = "idle"], call' = [call EXCEPT ![t] = None]
    PROVE  /\ pc' \in [Threads -> {"idle", "wait", "lock"}]
           /\ call' \in [Threads -> [blocking : BOOLEAN, msg : 0..MaxMsgs]]
           /\ CallsCarry'
<1>1. None \in [blocking : BOOLEAN, msg : 0..MaxMsgs]
      BY ClientsAssumption DEF None
<1>2. /\ pc' \in [Threads -> {"idle", "wait", "lock"}]
      /\ call' \in [Threads -> [blocking : BOOLEAN, msg : 0..MaxMsgs]]
      BY <1>1 DEF IInv, TypeOK
<1>3. CallsCarry'
      BY DEF IInv, TypeOK, CallsCarry, Threads
<1> QED
      BY <1>2, <1>3

\* The part of queue_read and queue_write under the mutex.
LEMMA LockedIInv ==
    ASSUME IInv, NEW t \in Threads, LockedRead(t) \/ LockedWrite(t)
    PROVE  IInv'
<1> USE ClientsAssumption
<1>1. Bounded(q) /\ EventsOK(q)
      BY QueuePart DEF IInv
<1>2. /\ pc' \in [Threads -> {"idle", "wait", "lock"}]
      /\ call' \in [Threads -> [blocking : BOOLEAN, msg : 0..MaxMsgs]]
      /\ CallsCarry'
      BY ReturnIInv DEF LockedRead, LockedWrite
<1>3. CASE LockedRead(t)
  <2>1. q' = queue_read(q)
        BY <1>3 DEF LockedRead
  <2>2. Bounded(q') /\ EventsOK(q')
        BY <1>1, <2>1, ReadFacts
  <2>3. received' \subseteq Msgs
    <3>1. CASE Reads(q)
      <4>1. q.ring \in Seq(Msgs) /\ q.ring # << >>
            BY <1>1, <3>1 DEF Bounded, QueueOf, Reads, HasData
      <4>2. Head(q.ring) \in Msgs
            BY <4>1
      <4>3. received' = received \cup {Head(q.ring)}
            BY <1>3, <3>1 DEF LockedRead
      <4> QED
            BY <4>2, <4>3 DEF IInv, TypeOK
    <3>2. CASE ~Reads(q)
          BY <1>3, <3>2 DEF LockedRead, IInv, TypeOK
    <3> QED
          BY <3>1, <3>2
  <2>4. phantom' \in BOOLEAN
        BY <1>3 DEF LockedRead
  <2>5. UNCHANGED <<sent, accepted, dropped, disabledOnce>>
        BY <1>3 DEF LockedRead
  <2>6. TypeOK'
        BY <1>2, <2>2, <2>3, <2>4, <2>5 DEF IInv, TypeOK, Bounded
  <2>7. EventsTrackRing'
        BY <2>2 DEF EventsTrackRing, EventsOK
  <2> QED
        BY <1>2, <2>6, <2>7 DEF IInv
<1>4. CASE LockedWrite(t)
  <2>1. q' = queue_write(q, call[t].msg) /\ call[t].msg \in Msgs
        BY <1>4 DEF LockedWrite, IInv, CallsCarry
  <2>2. Bounded(q') /\ EventsOK(q')
        BY <1>1, <2>1, WriteFacts
  <2>3. accepted' \subseteq Msgs
        BY <1>4, <2>1 DEF LockedWrite, IInv, TypeOK
  <2>4. UNCHANGED <<sent, received, phantom, dropped, disabledOnce>>
        BY <1>4 DEF LockedWrite
  <2>5. TypeOK'
        BY <1>2, <2>2, <2>3, <2>4 DEF IInv, TypeOK, Bounded
  <2>6. EventsTrackRing'
        BY <2>2 DEF EventsTrackRing, EventsOK
  <2> QED
        BY <1>2, <2>5, <2>6 DEF IInv
<1> QED
      BY <1>3, <1>4

\* The thread that controls the queue.
LEMMA ControlIInv ==
    ASSUME IInv, Control
    PROVE  IInv'
<1>1. Bounded(q) /\ EventsOK(q)
      BY QueuePart DEF IInv
<1>2. Bounded(q') /\ EventsOK(q')
      BY <1>1, EnableFacts, DisableFacts, PopFacts, UnpopFacts, ResetFacts
      DEF Control, Enable, Disable, Pop, Unpop, Reset
<1>3. UNCHANGED <<pc, call, sent, accepted, received, phantom>>
      BY DEF Control, Enable, Disable, Pop, Unpop, Reset, history
<1>4. Range(q.ring) \subseteq Msgs
      BY <1>1 DEF Bounded, QueueOf, Range
<1>5. dropped' \subseteq Msgs /\ disabledOnce' \in BOOLEAN
      BY <1>4 DEF IInv, TypeOK, Control, Enable, Disable, Pop, Unpop, Reset, history
<1>6. TypeOK'
      BY <1>2, <1>3, <1>5 DEF IInv, TypeOK, Bounded
<1>7. EventsTrackRing'
      BY <1>2 DEF EventsTrackRing, EventsOK
<1>8. CallsCarry'
      BY <1>3 DEF IInv, CallsCarry
<1> QED
      BY <1>6, <1>7, <1>8 DEF IInv

\* The state keeps its types, the ring its depth and the events their meaning in
\* every behaviour, whoever pops, unpops, disables, enables or resets the queue.
THEOREM QueueInvariant == Spec => []IInv
<1>1. IInv /\ [Next]_vars => IInv'
  <2> SUFFICES ASSUME IInv, [Next]_vars
               PROVE  IInv'
      OBVIOUS
  <2>1. ASSUME NEW t \in Threads, NEW blocking \in BOOLEAN,
               StartRead(t, blocking) \/ StartWrite(t, blocking)
        PROVE  IInv'
        BY <2>1, OutsideIInv
  <2>2. ASSUME NEW t \in Threads, EventPassed(t)
        PROVE  IInv'
        BY <2>2, OutsideIInv
  <2>3. ASSUME NEW t \in Threads, LockedRead(t) \/ LockedWrite(t)
        PROVE  IInv'
        BY <2>3, LockedIInv
  <2>4. CASE Control
        BY <2>4, ControlIInv
  <2>5. CASE UNCHANGED vars
        BY <2>5 DEF vars, history, IInv, TypeOK, EventsTrackRing, CallsCarry
  <2> QED
        BY <2>1, <2>2, <2>3, <2>4, <2>5 DEF Next
<1> QED
      BY InitIInv, <1>1, PTL DEF Spec

\* Type correctness; in particular the ring never holds more than its depth.
THEOREM QueueTypeOK == Spec => []TypeOK
<1>1. IInv => TypeOK
      BY DEF IInv
<1> QED
      BY QueueInvariant, <1>1, PTL

\* The events of queue.c always say whether a read or a write can succeed.
THEOREM QueueEventsTrackRing == Spec => []EventsTrackRing
<1>1. IInv => EventsTrackRing
      BY DEF IInv
<1> QED
      BY QueueInvariant, <1>1, PTL

-----------------------------------------------------------------------------
\* What the transfer property needs on top: a queue nobody has disabled is
\* active, so a call that finds it unusable finds it popped and returns false_e.
TInv == IInv /\ (~disabledOnce => q.active /\ TrueMeansTransferred)

\* Appending, removing and dropping, as sets of messages.
LEMMA RangeFacts ==
    /\ \A s \in Seq(Msgs), m \in Msgs : Range(Append(s, m)) = Range(s) \cup {m}
    /\ \A s \in Seq(Msgs) : s # << >> => Range(s) = {Head(s)} \cup Range(Tail(s))
    /\ Range(<< >>) = {}
<1>1. ASSUME NEW s \in Seq(Msgs), NEW m \in Msgs
      PROVE  Range(Append(s, m)) = Range(s) \cup {m}
  <2>1. /\ Append(s, m) \in Seq(Msgs) /\ Len(Append(s, m)) = Len(s) + 1
        /\ \A i \in 1..Len(s) : Append(s, m)[i] = s[i]
        /\ Append(s, m)[Len(s) + 1] = m
        BY AppendProperties
  <2>2. DOMAIN Append(s, m) = 1..(Len(s) + 1) /\ DOMAIN s = 1..Len(s) /\ Len(s) \in Nat
        BY <2>1
  <2>3. \A i \in 1..(Len(s) + 1) : i \in 1..Len(s) \/ i = Len(s) + 1
        BY <2>2
  <2>4. \A i \in 1..Len(s) : i \in 1..(Len(s) + 1)
        BY <2>2
  <2>5. Len(s) + 1 \in 1..(Len(s) + 1)
        BY <2>2
  <2>6. ASSUME NEW x \in Range(Append(s, m))
        PROVE  x \in Range(s) \cup {m}
        BY <2>1, <2>2, <2>3 DEF Range
  <2>7. ASSUME NEW x \in Range(s) \cup {m}
        PROVE  x \in Range(Append(s, m))
        BY <2>1, <2>2, <2>4, <2>5 DEF Range
  <2> QED
        BY <2>6, <2>7
<1>2. ASSUME NEW s \in Seq(Msgs), s # << >>
      PROVE  Range(s) = {Head(s)} \cup Range(Tail(s))
  <2>1. /\ Len(s) \in Nat \ {0} /\ Head(s) = s[1]
        /\ Tail(s) \in Seq(Msgs) /\ Len(Tail(s)) = Len(s) - 1
        /\ \A i \in 1..(Len(s) - 1) : Tail(s)[i] = s[i + 1]
        BY <1>2, HeadTailProperties
  <2>2. DOMAIN s = 1..Len(s) /\ DOMAIN Tail(s) = 1..(Len(s) - 1)
        BY <2>1
  <2>3. ASSUME NEW x \in Range(s)
        PROVE  x \in {Head(s)} \cup Range(Tail(s))
    <3>1. PICK i \in 1..Len(s) : x = s[i]
          BY <2>2 DEF Range
    <3>2. CASE i = 1
          BY <2>1, <3>1, <3>2
    <3>3. CASE i # 1
      <4>1. i - 1 \in 1..(Len(s) - 1) /\ (i - 1) + 1 = i
            BY <2>1, <3>1, <3>3
      <4>2. x = Tail(s)[i - 1]
            BY <2>1, <3>1, <4>1
      <4> QED
            BY <2>2, <4>1, <4>2 DEF Range
    <3> QED
          BY <3>2, <3>3
  <2>4. ASSUME NEW x \in Range(Tail(s))
        PROVE  x \in Range(s)
    <3>1. PICK i \in 1..(Len(s) - 1) : x = Tail(s)[i]
          BY <2>2 DEF Range
    <3>2. i + 1 \in 1..Len(s)
          BY <2>1
    <3> QED
          BY <2>1, <2>2, <3>1, <3>2 DEF Range
  <2>5. Head(s) \in Range(s)
    <3>1. 1 \in 1..Len(s)
          BY <2>1
    <3> QED
          BY <2>1, <2>2, <3>1 DEF Range
  <2> QED
        BY <2>3, <2>4, <2>5
<1>3. Range(<< >>) = {}
      BY DEF Range
<1> QED
      BY <1>1, <1>2, <1>3

\* true_e from queue_write or queue_read means that a message was transferred,
\* across every pop, unpop, enable and reset, until somebody calls queue_disable.
THEOREM QueueTransfers == Spec => []TransferredUnlessDisabled
<1>1. Init => TInv
  <2> SUFFICES ASSUME Init
               PROVE  TInv
      OBVIOUS
  <2>1. q.ring = << >> /\ q.active
        BY DEF Init, queue_create
  <2>2. TrueMeansTransferred
        BY <2>1, RangeFacts DEF Init, TrueMeansTransferred
  <2> QED
        BY <2>1, <2>2, InitIInv DEF TInv
<1>2. TInv /\ IInv' /\ [Next]_vars => TInv'
  <2> SUFFICES ASSUME TInv, IInv', [Next]_vars, ~disabledOnce'
               PROVE  q'.active /\ TrueMeansTransferred'
      BY DEF TInv
  <2>1. /\ IInv /\ q \in QueueOf(Msgs) /\ q.ring \in Seq(Msgs)
        BY DEF TInv, IInv, TypeOK, QueueOf
  <2>2. ASSUME q' = q, UNCHANGED history
        PROVE  q'.active /\ TrueMeansTransferred'
        BY <2>2 DEF TInv, history, TrueMeansTransferred
  <2>3. ASSUME NEW t \in Threads, LockedRead(t)
        PROVE  q'.active /\ TrueMeansTransferred'
    <3>1. /\ q.active /\ TrueMeansTransferred
          /\ UNCHANGED <<accepted, dropped>> /\ q' = queue_read(q)
          BY <2>3 DEF LockedRead, TInv
    <3>2. CASE Reads(q)
      <4>1. q.ring # << >>
            BY <2>1, <3>2 DEF Reads, HasData
      <4>2. Usable(q) /\ q'.ring = Tail(q.ring) /\ q'.active = q.active
            BY <2>1, <3>1, <3>2 DEF queue_read, Reads, QueueOf
      <4>3. received' = received \cup {Head(q.ring)} /\ ~phantom'
            BY <2>3, <3>1, <3>2 DEF LockedRead, TrueMeansTransferred
      <4>4. Range(q.ring) = {Head(q.ring)} \cup Range(Tail(q.ring))
            BY <2>1, <4>1, RangeFacts
      <4>5. accepted = Range(q.ring) \cup received \cup dropped
            BY <3>1 DEF TrueMeansTransferred
      <4>6. accepted' = Range(q'.ring) \cup received' \cup dropped'
            BY <3>1, <4>2, <4>3, <4>4, <4>5
      <4> QED
            BY <3>1, <4>2, <4>3, <4>6 DEF TrueMeansTransferred
    <3>3. CASE ~Reads(q)
      <4>1. ~ReadReturns(q, call[t].blocking)
            BY <3>1, <3>3 DEF ReadReturns, Usable
      <4>2. received' = received /\ ~phantom'
            BY <2>3, <3>1, <3>3, <4>1 DEF LockedRead, TrueMeansTransferred
      <4>3. q'.ring = q.ring /\ q'.active = q.active
            BY <2>1, <3>1, <3>3 DEF queue_read, QueueOf
      <4> QED
            BY <3>1, <4>2, <4>3 DEF TrueMeansTransferred
    <3> QED
          BY <3>2, <3>3
  <2>4. ASSUME NEW t \in Threads, LockedWrite(t)
        PROVE  q'.active /\ TrueMeansTransferred'
    <3> DEFINE m == call[t].msg
    <3>1. /\ q.active /\ TrueMeansTransferred /\ m \in Msgs
          /\ UNCHANGED <<received, phantom, dropped>> /\ q' = queue_write(q, m)
          BY <2>1, <2>4 DEF LockedWrite, TInv, IInv, CallsCarry
    <3>2. accepted' = IF WriteReturns(q, call[t].blocking)
                        THEN accepted \cup {m} ELSE accepted
          BY <2>4 DEF LockedWrite
    <3> HIDE DEF m
    <3>3. accepted = Range(q.ring) \cup received \cup dropped /\ ~phantom
          BY <3>1 DEF TrueMeansTransferred
    <3>4. CASE Writes(q)
      <4>1. Usable(q) /\ q'.ring = Append(q.ring, m) /\ q'.active = q.active
            BY <2>1, <3>1, <3>4 DEF queue_write, Writes, QueueOf
      <4>2. accepted' = accepted \cup {m}
            BY <3>2, <3>4, <4>1 DEF WriteReturns
      <4>3. Range(q'.ring) = Range(q.ring) \cup {m}
            BY <2>1, <3>1, <4>1, RangeFacts
      <4>4. accepted' = Range(q'.ring) \cup received' \cup dropped'
            BY <3>1, <3>3, <4>2, <4>3
      <4> QED
            BY <3>1, <3>3, <4>1, <4>4 DEF TrueMeansTransferred
    <3>5. CASE ~Writes(q)
      <4>1. accepted' = accepted
            BY <3>1, <3>2, <3>5 DEF WriteReturns, Usable
      <4>2. q'.ring = q.ring /\ q'.active = q.active
            BY <2>1, <3>1, <3>5 DEF queue_write, QueueOf
      <4> QED
            BY <3>1, <3>3, <4>1, <4>2 DEF TrueMeansTransferred
    <3> QED
          BY <3>4, <3>5
  <2>5. CASE Enable \/ Pop \/ Unpop
    <3>1. q'.ring = q.ring /\ (q.active => q'.active)
          BY <2>1, <2>5
          DEF Enable, Pop, Unpop, queue_enable, queue_pop, queue_unpop, QueueOf
    <3> QED
          BY <2>5, <3>1 DEF Enable, Pop, Unpop, TInv, history, TrueMeansTransferred
  <2>6. CASE Disable
        BY <2>6 DEF Disable
  <2>7. CASE Reset
    <3>1. q'.ring = << >> /\ q'.active
          BY <2>1, <2>7 DEF Reset, queue_reset, QueueOf
    <3>2. dropped' = dropped \cup Range(q.ring)
          /\ UNCHANGED <<accepted, received, phantom, disabledOnce>>
          BY <2>7 DEF Reset
    <3>3. accepted = Range(q.ring) \cup received \cup dropped /\ ~phantom
          BY <3>2 DEF TInv, TrueMeansTransferred
    <3>4. Range(q'.ring) = {}
          BY <3>1, RangeFacts
    <3> QED
          BY <3>1, <3>2, <3>3, <3>4 DEF TrueMeansTransferred
  <2>8. CASE \/ UNCHANGED vars
             \/ \E t \in Threads, blocking \in BOOLEAN :
                   StartRead(t, blocking) \/ StartWrite(t, blocking)
             \/ \E t \in Threads : EventPassed(t)
        BY <2>2, <2>8 DEF vars, StartRead, StartWrite, EventPassed
  <2> QED
        BY <2>3, <2>4, <2>5, <2>6, <2>7, <2>8 DEF Next, Control
<1>3. TInv => TransferredUnlessDisabled
      BY DEF TInv, TransferredUnlessDisabled
<1> QED
      BY QueueInvariant, <1>1, <1>2, <1>3, PTL DEF Spec
=============================================================================
