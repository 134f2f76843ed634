-------------------------- MODULE OmxCameraProofs --------------------------
(***************************************************************************)
(* Proofs about the OMX camera, for any number of ports and buffers, any   *)
(* requests of the client and any number of starts.                        *)
(*                                                                         *)
(* Calls: the control thread has one command under way at most.  The       *)
(* inductive invariant AgreeInv says, for each of its waits, which command *)
(* and semaphore that is, and what has become of the port or the state by  *)
(* the time it passes.  Besides, the node of the wait before may still be  *)
(* on the list, about to be extracted, and a node may have been lost.  It  *)
(* holds until OMX_UseBuffer refuses a buffer.                             *)
(*                                                                         *)
(* Types and owners: CameraInv holds after a refusal too.  Each buffer has *)
(* one owner as long as no stale message was taken.                        *)
(*                                                                         *)
(* Streams: with one set of ports, and both invariants, no buffer of an    *)
(* active port is lost.                                                    *)
(***************************************************************************)
EXTENDS OmxCamera, FiniteSetTheorems, SequenceTheorems, WellFoundedInduction, TLAPS

\* Where the control thread has no command under way; where it works on a port.
QuietPcs == {"idle", "startLock", "enable", "flush", "disable", "join", "gone"}
PortPcs == {"enableWait", "flushWait", "free", "disableWait"}
Pcs == QuietPcs \cup PortPcs \cup {"toIdle", "toExecuting", "toLoaded"}

Cur == Min(todo)           \* the port it works on

AgreeTypes ==
    /\ pc \in Pcs /\ req \subseteq Ports /\ todo \subseteq Ports /\ starts \in Nat
    /\ mIsActive \in [Ports -> BOOLEAN] /\ bEnabled \in [Ports -> BOOLEAN]
    /\ mBufferHeader \in [Ports -> [Bufs -> Nat]]
    /\ pc \in PortPcs => todo # {}

\* What is on the list q, whose node e is being extracted: that node at most; besides
\* it the node n, unless a registration was lost.  A semaphore that was posted.
Rest(q, e) == (e = 0 /\ q = << >>) \/ (e = 1 /\ q = <<q[1]>>)
Pending(q, e, lost, n) ==
    \/ e = 0 /\ q = <<n>>
    \/ e = 1 /\ q = <<q[1], n>>
    \/ lost /\ Rest(q, e)
Posted(lost, count) == count = 1 \/ (lost /\ count = 0)

\* Nothing is left over; one command is under way; its event has come.
Quiet == cmds = {} /\ Rest(mEventSignalQ, extracting) /\ mGreLocalSem = 0 /\ sem = 0
Sent(c, s) ==
    /\ cmds = {c} /\ Pending(mEventSignalQ, extracting, lostNode, <<c, s>>)
    /\ mGreLocalSem = 0 /\ sem = 0
StackPosted ==
    /\ cmds = {} /\ Rest(mEventSignalQ, extracting)
    /\ mGreLocalSem = 0 /\ Posted(lostNode, sem)
PortPosted ==
    /\ cmds = {} /\ Rest(mEventSignalQ, extracting)
    /\ Posted(lostNode, mGreLocalSem) /\ sem = 0

StateWait(target) ==
    Sent(<<"state", target>>, "sem") \/ (StackPosted /\ state = target)

Waits ==
    /\ pc \in QuietPcs => Quiet
    /\ pc = "toIdle" => StateWait("Idle")
    /\ pc = "toExecuting" => StateWait("Executing")
    /\ pc = "toLoaded" => StateWait("Loaded")
    /\ pc = "flushWait" => Sent(<<"flush", Cur>>, "sem") \/ StackPosted
    /\ pc = "enableWait" => \/ Sent(<<"enable", Cur>>, "mGreLocalSem") /\ ~bEnabled[Cur]
                            \/ PortPosted /\ bEnabled[Cur]
    /\ pc = "free" => Sent(<<"disable", Cur>>, "mGreLocalSem") /\ bEnabled[Cur]
    /\ pc = "disableWait" => \/ Sent(<<"disable", Cur>>, "mGreLocalSem") /\ bEnabled[Cur]
                             \/ PortPosted /\ ~bEnabled[Cur]

\* A port is active, enabled and populated, or none of these, but for the one
\* that is being changed.
Populated(p) == \A b \in Bufs : mBufferHeader[p][b] # 0
Cleared(p) == \A b \in Bufs : mBufferHeader[p][b] = 0
Settled(p) ==
    /\ mIsActive[p] = bEnabled[p]
    /\ mIsActive[p] => Populated(p)
    /\ ~mIsActive[p] => Cleared(p)

PortsAgree ==
    /\ \A p \in Ports : Settled(p) \/ (pc \in {"enableWait", "disableWait"} /\ p = Cur)
    /\ pc = "enableWait" => Populated(Cur)
    /\ pc = "disableWait" => Cleared(Cur)

\* The component executes from the first started port to the last stopped one.
StateAgrees ==
    /\ pc = "idle" => ((state = "Executing") <=> \E p \in Ports : mIsActive[p])
    /\ pc \in {"toIdle", "toLoaded"} => \A p \in Ports : ~mIsActive[p]
    /\ pc \in {"toExecuting", "startLock", "enable", "enableWait"} =>
          req # {} /\ starts > 0 /\ \A p \in req \ todo : mIsActive[p]
    /\ pc \in {"startLock", "enable", "enableWait", "flush", "flushWait", "disable", "free",
               "disableWait"} => state = "Executing"

Proto == AgreeTypes /\ Waits /\ PortsAgree /\ StateAgrees /\ ~passedEarly

AgreeInv == ~refused => Proto

-----------------------------------------------------------------------------
\* A nonempty set of numbers, or of ports, has a least one.
LEMMA LeastIn ==
    ASSUME NEW S \in SUBSET Nat, S # {}
    PROVE  Min(S) \in S
<1> DEFINE R == OpToRel(<, Nat)
<1>1. IsWellFoundedOn(R, Nat)
      BY NatLessThanWellFounded
<1>2. \A x, y \in Nat : y < x => <<y, x>> \in R
      <2> SUFFICES ASSUME NEW x \in Nat, NEW y \in Nat, y < x
                   PROVE  <<y, x>> \in {ss \in Nat \X Nat : ss[1] < ss[2]}
            BY Zenon DEF OpToRel
      <2> QED
            OBVIOUS
<1> HIDE DEF R
<1>3. PICK x \in S : \A y \in S : ~(<<y, x>> \in R)
      BY <1>1, WFMin
<1>4. \A y \in S : x <= y
      <2> SUFFICES ASSUME NEW y \in S, ~(x <= y)
                   PROVE  FALSE
            OBVIOUS
      <2>1. x \in Nat /\ y \in Nat /\ y < x
            OBVIOUS
      <2> QED
            BY <1>2, <1>3, <2>1
<1> QED
      BY <1>4 DEF Min

LEMMA CurIn ==
    ASSUME todo \subseteq Ports, todo # {}
    PROVE  Cur \in todo /\ Cur \in Ports
<1>1. todo \in SUBSET Nat
      BY CameraAssumption DEF Ports
<1> QED
      BY <1>1, LeastIn DEF Cur

\* What the client asks for.
LEMMA RequestPorts ==
    \A r \in Requests : r \subseteq Ports /\ r # {}
<1> SUFFICES ASSUME NEW r \in Requests
             PROVE  r \subseteq Ports /\ r # {}
      OBVIOUS
<1> QED
      BY CameraAssumption

\* Taking a node out of a queue.
LEMMA RemoveAtFacts ==
    ASSUME NEW S, NEW q \in Seq(S), NEW i \in DOMAIN q
    PROVE  /\ RemoveAt(q, i) \in Seq(S) /\ Len(RemoveAt(q, i)) = Len(q) - 1
           /\ \A j \in DOMAIN RemoveAt(q, i) :
                 RemoveAt(q, i)[j] = q[IF j < i THEN j ELSE j + 1]
<1>1. Len(q) \in Nat /\ DOMAIN q = 1..Len(q)
      BY LenProperties
<1> DEFINE a == SubSeq(q, 1, i - 1)
           b == SubSeq(q, i + 1, Len(q))
<1>2. /\ a \in Seq(S) /\ Len(a) = i - 1 /\ \A j \in 1..(i - 1) : a[j] = q[j]
      /\ b \in Seq(S) /\ Len(b) = Len(q) - i
      /\ \A j \in 1..(Len(q) - i) : b[j] = q[i + j]
      <2>1. i \in 1..Len(q)
            BY <1>1
      <2>2. /\ 1 \in 1..(Len(q) + 1) /\ i - 1 \in (1 - 1)..Len(q)
            /\ i + 1 \in 1..(Len(q) + 1) /\ Len(q) \in (i + 1 - 1)..Len(q)
            BY <1>1, <2>1
      <2>3. a \in Seq(S) /\ Len(a) = i - 1 /\ \A j \in 1..(i - 1) : a[j] = q[j]
            BY <1>1, <2>1, <2>2, SubSeqProperties
      <2>4. b \in Seq(S) /\ Len(b) = Len(q) - i /\ \A j \in 1..(Len(q) - i) : b[j] = q[i + j]
            BY <1>1, <2>1, <2>2, SubSeqProperties
      <2> QED
            BY <2>3, <2>4
<1> DEFINE c == a \o b
<1>3. RemoveAt(q, i) = c
      BY DEF RemoveAt
<1> HIDE DEF a, b
<1>4. /\ c \in Seq(S) /\ Len(c) = Len(a) + Len(b)
      /\ \A j \in 1..(Len(a) + Len(b)) : c[j] = IF j <= Len(a) THEN a[j] ELSE b[j - Len(a)]
      BY <1>2, ConcatProperties
<1> HIDE DEF c
<1>5. i \in Nat /\ 1 <= i /\ i <= Len(q)
      BY <1>1
<1>6. Len(a) + Len(b) = Len(q) - 1
      BY <1>1, <1>2, <1>5
<1>7. Len(c) = Len(q) - 1 /\ DOMAIN c = 1..(Len(q) - 1)
      <2>1. DOMAIN c = 1..Len(c)
            BY <1>4, LenProperties
      <2> QED
            BY <1>4, <1>6, <2>1
<1>8. \A j \in 1..(Len(q) - 1) : c[j] = IF j <= i - 1 THEN a[j] ELSE b[j - (i - 1)]
      BY <1>2, <1>4, <1>6
<1>9. ASSUME NEW j \in 1..(Len(q) - 1)
      PROVE  c[j] = q[IF j < i THEN j ELSE j + 1]
      <2>1. j \in Nat /\ 1 <= j /\ j <= Len(q) - 1
            BY <1>1
      <2>2. CASE j < i
            <3>1. j <= i - 1 /\ j \in 1..(i - 1)
                  BY <1>5, <2>1, <2>2
            <3>2. c[j] = a[j]
                  BY <1>8, <3>1
            <3> QED
                  BY <1>2, <2>2, <3>1, <3>2
      <2>3. CASE ~(j < i)
            <3>1. ~(j <= i - 1) /\ j - (i - 1) \in 1..(Len(q) - i)
                  BY <1>1, <1>5, <2>1, <2>3
            <3>2. c[j] = b[j - (i - 1)]
                  BY <1>8, <3>1
            <3>3. b[j - (i - 1)] = q[i + (j - (i - 1))]
                  BY <1>2, <3>1
            <3>4. i + (j - (i - 1)) = j + 1
                  BY <1>5, <2>1
            <3> QED
                  BY <2>3, <3>2, <3>3, <3>4
      <2> QED
            BY <2>2, <2>3
<1> QED
      BY <1>3, <1>4, <1>7, <1>9

\* Two nodes at most.
LEMMA OneOrTwo ==
    ASSUME NEW a, NEW b
    PROVE  Append(<<a>>, b) = <<a, b>> /\ RemoveAt(<<a, b>>, 1) = <<b>>
<1> DEFINE S == {a, b}
<1>1. /\ <<a>> \in Seq(S) /\ <<b>> \in Seq(S) /\ <<a, b>> \in Seq(S)
      /\ Len(<<a>>) = 1 /\ Len(<<b>>) = 1 /\ Len(<<a, b>>) = 2
      OBVIOUS
<1>2. Append(<<a>>, b) = <<a, b>>
      <2> DEFINE t == Append(<<a>>, b)
      <2>1. t \in Seq(S) /\ Len(t) = 2 /\ t[1] = a /\ t[2] = b
            BY <1>1, AppendProperties
      <2> HIDE DEF t
      <2>2. \A i \in 1..2 : t[i] = <<a, b>>[i]
            BY <2>1
      <2>3. t = <<a, b>>
            BY <1>1, <2>1, <2>2, SeqEqual
      <2> QED
            BY <2>3 DEF t
<1>3. RemoveAt(<<a, b>>, 1) = <<b>>
      <2> DEFINE t == RemoveAt(<<a, b>>, 1)
      <2>1. 1 \in DOMAIN <<a, b>> /\ Len(<<a, b>>) - 1 = 1
            BY <1>1
      <2>2. /\ t \in Seq(S) /\ Len(t) = Len(<<a, b>>) - 1
            /\ \A j \in DOMAIN t : t[j] = <<a, b>>[IF j < 1 THEN j ELSE j + 1]
            BY <1>1, <2>1, RemoveAtFacts
      <2> HIDE DEF t
      <2>3. Len(t) = 1 /\ DOMAIN t = 1..1
            BY <2>1, <2>2, LenProperties
      <2>4. t[1] = b
            BY <2>2, <2>3
      <2>5. \A i \in 1..Len(t) : t[i] = <<b>>[i]
            BY <2>3, <2>4
      <2>6. t = <<b>>
            BY <1>1, <2>2, <2>3, <2>5, SeqEqual
      <2> QED
            BY <2>6 DEF t
<1> QED
      BY <1>2, <1>3

\* The control thread sends a command: nothing else is under way.
LEMMA SendsOne ==
    ASSUME NEW c, NEW s, Quiet, SendAndRegister(c, s)
    PROVE  cmds' = {c} /\ Pending(mEventSignalQ', extracting', lostNode', <<c, s>>)
<1>1. cmds' = cmds \cup {c} /\ extracting' = extracting
      BY DEF SendAndRegister
<1>2. cmds = {} /\ Rest(mEventSignalQ, extracting)
      BY DEF Quiet
<1>3. CASE mEventSignalQ' = Append(mEventSignalQ, <<c, s>>)
      <2>1. CASE extracting = 0 /\ mEventSignalQ = << >>
            <3>1. Append(<< >>, <<c, s>>) = <<<<c, s>>>>
                  OBVIOUS
            <3> QED
                  BY <1>1, <1>2, <1>3, <2>1, <3>1 DEF Pending
      <2>2. CASE extracting = 1 /\ mEventSignalQ = <<mEventSignalQ[1]>>
            <3>1. PICK n : mEventSignalQ = <<n>>
                  BY <2>2
            <3>2. Append(<<n>>, <<c, s>>) = <<n, <<c, s>>>>
                  BY OneOrTwo
            <3>3. mEventSignalQ' = <<n, <<c, s>>>>
                  BY <1>3, <3>1, <3>2
            <3>4. mEventSignalQ'[1] = n
                  BY <3>3
            <3> QED
                  BY <1>1, <1>2, <2>2, <3>3, <3>4 DEF Pending
      <2> QED
            BY <1>2, <2>1, <2>2 DEF Rest
<1>4. CASE mEventSignalQ' = mEventSignalQ /\ lostNode'
      BY <1>1, <1>2, <1>4 DEF Pending
<1> QED
      BY <1>1, <1>2, <1>3, <1>4 DEF SendAndRegister, Register

\* EventHandler finds the node of the only command under way, unless it was lost.
LEMMA HandlesOne ==
    ASSUME NEW c, NEW s, Sent(c, s), EventHandler(c), extracting = 0
    PROVE  /\ Rest(mEventSignalQ', extracting') /\ lostNode' = lostNode
           /\ s = "mGreLocalSem" => Posted(lostNode, mGreLocalSem') /\ sem' = 0
           /\ s # "mGreLocalSem" => mGreLocalSem' = 0 /\ Posted(lostNode, sem')
<1>1. /\ mEventSignalQ = <<<<c, s>>>> \/ (lostNode /\ mEventSignalQ = << >>)
      /\ mGreLocalSem = 0 /\ sem = 0
      BY DEF Sent, Pending, Rest
<1>2. CASE mEventSignalQ = <<<<c, s>>>>
      <2>1. DOMAIN mEventSignalQ = {1} /\ mEventSignalQ[1] = <<c, s>>
            BY <1>2
      <2>2. Waiting(c) = {1}
            BY <2>1 DEF Waiting
      <2>3. Min(Waiting(c)) = 1
            BY <2>2 DEF Min
      <2>4. /\ mEventSignalQ' = mEventSignalQ /\ extracting' = 1 /\ lostNode' = lostNode
            /\ IF mEventSignalQ[1][2] = "mGreLocalSem"
               THEN mGreLocalSem' = mGreLocalSem + 1 /\ UNCHANGED sem
               ELSE sem' = sem + 1 /\ UNCHANGED mGreLocalSem
            BY <2>2, <2>3 DEF EventHandler
      <2>5. mEventSignalQ[1][2] = s /\ mEventSignalQ = <<mEventSignalQ[1]>>
            BY <1>2, <2>1
      <2> QED
            BY <1>1, <2>4, <2>5 DEF Rest, Posted
<1>3. CASE lostNode /\ mEventSignalQ = << >>
      <2>1. Waiting(c) = {}
            BY <1>3 DEF Waiting
      <2>2. UNCHANGED <<mEventSignalQ, extracting, mGreLocalSem, sem, lostNode>>
            BY <2>1 DEF EventHandler, events
      <2> QED
            BY <1>1, <1>3, <2>2 DEF Rest, Posted
<1> QED
      BY <1>1, <1>2, <1>3

\* list_extract takes the node that was posted, and no other, off the list.
LEMMA ExtractsOne ==
    ASSUME ExtractNode
    PROVE  /\ Rest(mEventSignalQ, extracting) => Rest(mEventSignalQ', extracting')
           /\ \A n : Pending(mEventSignalQ, extracting, lostNode, n)
                      => Pending(mEventSignalQ', extracting', lostNode', n)
<1>1. /\ extracting # 0 /\ mEventSignalQ' = RemoveAt(mEventSignalQ, extracting)
      /\ extracting' = 0 /\ lostNode' = lostNode
      BY DEF ExtractNode
<1>2. ASSUME Rest(mEventSignalQ, extracting)
      PROVE  Rest(mEventSignalQ', extracting')
      <2>1. PICK m : mEventSignalQ = <<m>> /\ extracting = 1
            BY <1>1, <1>2 DEF Rest
      <2>2. RemoveAt(<<m>>, 1) = << >>
            BY DEF RemoveAt
      <2> QED
            BY <1>1, <2>1, <2>2 DEF Rest
<1>3. ASSUME NEW n, Pending(mEventSignalQ, extracting, lostNode, n)
      PROVE  Pending(mEventSignalQ', extracting', lostNode', n)
      <2>1. CASE extracting = 1 /\ mEventSignalQ = <<mEventSignalQ[1], n>>
            <3>1. PICK m : mEventSignalQ = <<m, n>>
                  BY <2>1
            <3>2. RemoveAt(<<m, n>>, 1) = <<n>>
                  BY OneOrTwo
            <3> QED
                  BY <1>1, <2>1, <3>1, <3>2 DEF Pending
      <2>2. CASE lostNode /\ Rest(mEventSignalQ, extracting)
            BY <1>1, <1>2, <2>2 DEF Pending
      <2> QED
            BY <1>1, <1>3, <2>1, <2>2 DEF Pending
<1> QED
      BY <1>2, <1>3

-----------------------------------------------------------------------------
\* The control thread, step by step.  A step that leaves the ports alone:
LEMMA SamePorts ==
    ASSUME Proto, UNCHANGED <<mIsActive, mBufferHeader, bEnabled>>,
           \A p \in Ports : Settled(p), pc' \notin {"enableWait", "disableWait"}
    PROVE  PortsAgree'
<1>1. \A p \in Ports : Settled(p)'
      BY DEF Settled, Populated, Cleared
<1> QED
      BY <1>1 DEF PortsAgree

LEMMA AllSettled ==
    ASSUME Proto, pc \notin {"enableWait", "disableWait"}
    PROVE  \A p \in Ports : Settled(p)
BY DEF Proto, PortsAgree

\* transitToState, from where no port is active or a start has begun.
LEMMA TransitKeeps ==
    ASSUME Proto, NEW target \in {"Idle", "Executing", "Loaded"},
           pc \in QuietPcs, SendAndRegister(<<"state", target>>, "sem"), sem' = 0,
           UNCHANGED <<mGreLocalSem, state, mIsActive, mBufferHeader, bEnabled, passedEarly>>,
           pc' = CASE target = "Idle" -> "toIdle" [] target = "Executing" -> "toExecuting"
                   [] target = "Loaded" -> "toLoaded",
           req' \subseteq Ports, todo' \subseteq Ports, starts' \in Nat,
           target \in {"Idle", "Loaded"} => \A p \in Ports : ~mIsActive[p],
           target = "Executing" => req' # {} /\ todo' = req' /\ starts' > 0
    PROVE  Proto'
<1>1. AgreeTypes /\ Quiet /\ ~passedEarly
      BY DEF Proto, Waits
<1>2. /\ pc' \in {"toIdle", "toExecuting", "toLoaded"}
      /\ pc' = "toIdle" <=> target = "Idle"
      /\ pc' = "toExecuting" <=> target = "Executing"
      /\ pc' = "toLoaded" <=> target = "Loaded"
      OBVIOUS
<1>3. AgreeTypes'
      BY <1>1, <1>2 DEF AgreeTypes, Pcs, PortPcs
<1>4. Waits'
      <2>1. /\ cmds' = {<<"state", target>>}
            /\ Pending(mEventSignalQ', extracting', lostNode', <<<<"state", target>>, "sem">>)
            BY <1>1, SendsOne
      <2>2. mGreLocalSem' = 0 /\ sem' = 0
            BY <1>1 DEF Quiet
      <2> QED
            BY <1>2, <2>1, <2>2 DEF Waits, StateWait, Sent, QuietPcs
<1>5. PortsAgree'
      BY <1>2, AllSettled, SamePorts DEF QuietPcs
<1>6. StateAgrees'
      BY <1>2 DEF StateAgrees
<1> QED
      BY <1>1, <1>3, <1>4, <1>5, <1>6 DEF Proto

\* A step from one place without a command under way to another.
LEMMA QuietKeeps ==
    ASSUME Proto, pc \in QuietPcs, pc' \in QuietPcs, Quiet',
           UNCHANGED <<mIsActive, mBufferHeader, bEnabled, passedEarly>>,
           req' \subseteq Ports, todo' \subseteq Ports, starts' \in Nat, StateAgrees'
    PROVE  Proto'
<1>1. AgreeTypes /\ ~passedEarly
      BY DEF Proto
<1>2. AgreeTypes'
      BY <1>1 DEF AgreeTypes, Pcs, PortPcs, QuietPcs
<1>3. Waits'
      BY DEF Waits, QuietPcs
<1>4. PortsAgree'
      BY AllSettled, SamePorts DEF QuietPcs
<1> QED
      BY <1>1, <1>2, <1>3, <1>4 DEF Proto

LEMMA KeepsUseBuffers ==
    ASSUME Proto, useBuffers \/ releaseBuffers
    PROVE  Proto'
<1> USE DEF ports, history, transitToState
<1>1. AgreeTypes /\ StateAgrees
      BY DEF Proto
<1>2. pc = "idle" /\ state \in {"Idle", "Loaded"}
      BY DEF useBuffers, releaseBuffers
<1>3. \A p \in Ports : ~mIsActive[p]
      BY <1>1, <1>2 DEF StateAgrees
<1>4. UNCHANGED <<req, todo, starts, mGreLocalSem, state, mIsActive, mBufferHeader, bEnabled,
                  passedEarly>> /\ sem' = 0
      BY DEF useBuffers, releaseBuffers
<1>5. req' \subseteq Ports /\ todo' \subseteq Ports /\ starts' \in Nat
      BY <1>1, <1>4 DEF AgreeTypes
<1>6. CASE useBuffers
      <2>1. SendAndRegister(<<"state", "Idle">>, "sem") /\ pc' = "toIdle"
            BY <1>6 DEF useBuffers
      <2> QED
            BY <1>2, <1>3, <1>4, <1>5, <2>1, TransitKeeps DEF QuietPcs
<1>7. CASE releaseBuffers
      <2>1. SendAndRegister(<<"state", "Loaded">>, "sem") /\ pc' = "toLoaded"
            BY <1>7 DEF releaseBuffers
      <2> QED
            BY <1>2, <1>3, <1>4, <1>5, <2>1, TransitKeeps DEF QuietPcs
<1> QED
      BY <1>6, <1>7

LEMMA KeepsStartPreview ==
    ASSUME Proto, startPreview
    PROVE  Proto'
<1> USE DEF ports, history
<1>1. AgreeTypes /\ StateAgrees /\ Waits
      BY DEF Proto
<1>2. /\ pc = "idle" /\ state \in {"Idle", "Executing"} /\ starts' = starts + 1
      /\ UNCHANGED <<mIsActive, mBufferHeader, passedEarly>>
      BY DEF startPreview
<1>3. req' \in Requests /\ todo' = req'
      BY DEF startPreview
<1>4. req' \subseteq Ports /\ todo' \subseteq Ports /\ req' # {}
      BY <1>3, RequestPorts
<1>5. starts' \in Nat /\ starts' > 0
      BY <1>1, <1>2 DEF AgreeTypes
<1>6. CASE state = "Idle"
      <2>1. /\ SendAndRegister(<<"state", "Executing">>, "sem") /\ sem' = 0
            /\ pc' = "toExecuting" /\ UNCHANGED <<mGreLocalSem, state, bEnabled>>
            BY <1>6 DEF startPreview, transitToState
      <2> QED
            BY <1>2, <1>3, <1>4, <1>5, <2>1, TransitKeeps DEF QuietPcs
<1>7. CASE state # "Idle"
      <2>1. pc' = "startLock" /\ state = "Executing"
            BY <1>2, <1>7 DEF startPreview
      <2>2. UNCHANGED <<state, bEnabled, cmds, mEventSignalQ, extracting, lostNode, mGreLocalSem, sem>>
            BY <1>7 DEF startPreview, events, component
      <2>3. StateAgrees'
            BY <1>3, <1>4, <1>5, <2>1, <2>2 DEF StateAgrees
      <2>4. Quiet'
            BY <1>1, <1>2, <2>2 DEF Waits, Quiet, QuietPcs
      <2> QED
            BY <1>2, <1>3, <1>4, <1>5, <2>1, <2>2, <2>3, <2>4, QuietKeeps DEF QuietPcs
<1> QED
      BY <1>6, <1>7

\* The steps between the waits.
LEMMA KeepsBetween ==
    ASSUME Proto, StartLocked \/ StartEnds \/ stopPreview \/ FlushEnds \/ deinit \/ Join
    PROVE  Proto'
<1> USE DEF ports, history, component, events
<1>1. AgreeTypes /\ StateAgrees /\ Waits
      BY DEF Proto
<1>2. /\ UNCHANGED <<mIsActive, mBufferHeader, bEnabled, passedEarly, starts, state,
                     mEventSignalQ, extracting, lostNode, mGreLocalSem, sem>>
      /\ cmds' = {} \/ cmds' = cmds
      BY DEF StartLocked, StartEnds, stopPreview, FlushEnds, deinit, Join
<1>3. pc \in QuietPcs /\ pc' \in QuietPcs
      BY DEF StartLocked, StartEnds, stopPreview, FlushEnds, deinit, Join, QuietPcs
<1>4. Quiet'
      BY <1>1, <1>2, <1>3 DEF Waits, Quiet
<1>5. req' \subseteq Ports
      <2>1. req' = req \/ req' \in Requests
            BY DEF StartLocked, StartEnds, stopPreview, FlushEnds, deinit, Join
      <2> QED
            BY <1>1, <2>1, RequestPorts DEF AgreeTypes
<1>6. todo' \subseteq Ports
      <2>1. todo' = todo \/ todo' = req'
            BY DEF StartLocked, StartEnds, stopPreview, FlushEnds, deinit, Join
      <2> QED
            BY <1>1, <1>5, <2>1 DEF AgreeTypes
<1>7. StateAgrees'
      <2>1. CASE StartLocked
            <3>1. pc = "startLock" /\ pc' = "enable" /\ UNCHANGED <<req, todo>>
                  BY <2>1 DEF StartLocked
            <3> QED
                  BY <1>1, <1>2, <3>1 DEF StateAgrees
      <2>2. CASE StartEnds
            <3>1. pc = "enable" /\ pc' = "idle" /\ todo = {}
                  BY <2>2 DEF StartEnds
            <3>2. state = "Executing" /\ \E p \in Ports : mIsActive[p]
                  BY <1>1, <3>1 DEF StateAgrees, AgreeTypes
            <3> QED
                  BY <1>2, <3>1, <3>2 DEF StateAgrees
      <2>3. CASE stopPreview
            <3>1. pc' = "flush" /\ state = "Executing"
                  BY <2>3 DEF stopPreview
            <3> QED
                  BY <1>2, <3>1 DEF StateAgrees
      <2>4. CASE FlushEnds
            <3>1. pc = "flush" /\ pc' = "disable"
                  BY <2>4 DEF FlushEnds
            <3> QED
                  BY <1>1, <1>2, <3>1 DEF StateAgrees
      <2>5. CASE deinit \/ Join
            <3>1. pc' \in {"join", "gone"}
                  BY <2>5 DEF deinit, Join
            <3> QED
                  BY <3>1 DEF StateAgrees
      <2> QED
            BY <2>1, <2>2, <2>3, <2>4, <2>5
<1> QED
      BY <1>1, <1>2, <1>3, <1>4, <1>5, <1>6, <1>7, QuietKeeps DEF AgreeTypes

LEMMA KeepsStopEnds ==
    ASSUME Proto, StopEnds
    PROVE  Proto'
<1> USE DEF ports, history, component, events
<1>1. AgreeTypes /\ StateAgrees /\ Waits
      BY DEF Proto
<1>2. /\ pc = "disable" /\ UNCHANGED <<mIsActive, mBufferHeader, passedEarly, starts, req, todo>>
      BY DEF StopEnds
<1>3. state = "Executing"
      BY <1>1, <1>2 DEF StateAgrees
<1>4. req' \subseteq Ports /\ todo' \subseteq Ports /\ starts' \in Nat
      BY <1>1, <1>2 DEF AgreeTypes
<1>5. CASE \A p \in Ports : ~mIsActive[p]
      <2>1. /\ SendAndRegister(<<"state", "Idle">>, "sem") /\ sem' = 0
            /\ pc' = "toIdle" /\ UNCHANGED <<mGreLocalSem, state, bEnabled>>
            BY <1>3, <1>5 DEF StopEnds, transitToState
      <2> QED
            BY <1>2, <1>4, <1>5, <2>1, TransitKeeps DEF QuietPcs
<1>6. CASE ~(\A p \in Ports : ~mIsActive[p])
      <2>1. /\ pc' = "idle"
            /\ UNCHANGED <<mEventSignalQ, extracting, lostNode, mGreLocalSem, sem, state, bEnabled, cmds>>
            BY <1>6 DEF StopEnds
      <2>2. StateAgrees'
            BY <1>2, <1>3, <1>6, <2>1 DEF StateAgrees
      <2>3. Quiet'
            BY <1>1, <1>2, <2>1 DEF Waits, Quiet, QuietPcs
      <2> QED
            BY <1>2, <1>4, <2>1, <2>2, <2>3, QuietKeeps DEF QuietPcs
<1> QED
      BY <1>5, <1>6

\* flushBuffers and its wait.
LEMMA KeepsFlush ==
    ASSUME Proto, flushBuffers
    PROVE  Proto'
<1>1. AgreeTypes /\ StateAgrees /\ Waits /\ ~passedEarly
      BY DEF Proto
<1>2. /\ pc = "flush" /\ todo # {} /\ pc' = "flushWait" /\ sem' = 0
      /\ SendAndRegister(<<"flush", Cur>>, "sem")
      /\ UNCHANGED <<req, todo, starts, mIsActive, mBufferHeader, mGreLocalSem, state, bEnabled,
                     passedEarly>>
      BY DEF flushBuffers, ports, history, Cur
<1>3. AgreeTypes'
      BY <1>1, <1>2 DEF AgreeTypes, Pcs, PortPcs
<1>4. Waits'
      <2>1. Quiet
            BY <1>1, <1>2 DEF Waits, QuietPcs
      <2>2. /\ cmds' = {<<"flush", Cur>>}
            /\ Pending(mEventSignalQ', extracting', lostNode', <<<<"flush", Cur>>, "sem">>)
            BY <1>2, <2>1, SendsOne
      <2>3. Cur' = Cur /\ mGreLocalSem' = 0
            BY <1>2, <2>1 DEF Cur, Quiet
      <2> QED
            BY <1>2, <2>2, <2>3 DEF Waits, Sent, QuietPcs
<1>5. PortsAgree'
      BY <1>2, AllSettled, SamePorts
<1>6. StateAgrees'
      BY <1>1, <1>2 DEF StateAgrees
<1> QED
      BY <1>1, <1>2, <1>3, <1>4, <1>5, <1>6 DEF Proto

\* A semaphore on the stack counts 1 only when the command is complete.
LEMMA KeepsWaitSem ==
    ASSUME Proto, WaitState \/ WaitFlush
    PROVE  Proto'
<1>1. AgreeTypes /\ StateAgrees /\ Waits /\ PortsAgree /\ ~passedEarly
      BY DEF Proto
<1>2. /\ sem > 0 /\ sem' = sem - 1
      /\ UNCHANGED <<req, starts, mIsActive, mBufferHeader, mEventSignalQ, extracting, lostNode, mGreLocalSem, state,
                     bEnabled, cmds, passedEarly>>
      BY DEF WaitState, WaitFlush, WaitSem, ports, component, history
<1>3. \/ pc = "toIdle" /\ pc' = "idle" /\ todo' = todo
      \/ pc = "toExecuting" /\ pc' = "startLock" /\ todo' = todo
      \/ pc = "toLoaded" /\ pc' = "idle" /\ todo' = todo
      \/ pc = "flushWait" /\ pc' = "flush" /\ todo' = todo \ {Cur}
      BY DEF WaitState, WaitFlush, WaitSem, Cur
<1>4. /\ StackPosted
      /\ pc = "toIdle" => state = "Idle"
      /\ pc = "toExecuting" => state = "Executing"
      /\ pc = "toLoaded" => state = "Loaded"
      BY <1>1, <1>2, <1>3 DEF Waits, StateWait, Sent, StackPosted
<1>5. Quiet'
      BY <1>2, <1>4 DEF StackPosted, Quiet, Posted
<1>6. AgreeTypes'
      BY <1>1, <1>2, <1>3 DEF AgreeTypes, Pcs, PortPcs, QuietPcs
<1>7. Waits'
      BY <1>3, <1>5 DEF Waits
<1>8. PortsAgree'
      BY <1>2, <1>3, AllSettled, SamePorts
<1>9. StateAgrees'
      BY <1>1, <1>2, <1>3, <1>4 DEF StateAgrees
<1> QED
      BY <1>1, <1>2, <1>6, <1>7, <1>8, <1>9 DEF Proto

\* portEnableDisable on a port that is as it was asked to be.
LEMMA KeepsAlreadyDone ==
    ASSUME Proto, NEW at \in {"enable", "disable"}, pc = at, todo # {},
           AlreadyDone(Cur, at, at = "enable")
    PROVE  Proto'
<1> USE DEF history, component, events
<1>1. AgreeTypes /\ StateAgrees /\ Waits /\ PortsAgree /\ ~passedEarly
      BY DEF Proto
<1>2. /\ bEnabled[Cur] = (at = "enable") /\ todo' = todo \ {Cur}
      /\ mIsActive' = [mIsActive EXCEPT ![Cur] = (at = "enable")]
      /\ UNCHANGED <<pc, req, starts, mBufferHeader, mEventSignalQ, extracting, lostNode, mGreLocalSem, sem, state,
                     bEnabled, cmds, passedEarly>>
      BY DEF AlreadyDone
<1>3. Cur \in Ports
      BY <1>1, CurIn DEF AgreeTypes
<1>4. mIsActive' = mIsActive
      <2>1. mIsActive[Cur] = bEnabled[Cur]
            BY <1>3, AllSettled DEF Settled
      <2> QED
            BY <1>1, <1>2, <2>1 DEF AgreeTypes
<1>5. mIsActive[Cur] = (at = "enable")
      BY <1>2, <1>3, AllSettled DEF Settled
<1>6. Quiet'
      BY <1>1, <1>2 DEF Waits, Quiet, QuietPcs
<1>7. StateAgrees'
      BY <1>1, <1>2, <1>4, <1>5 DEF StateAgrees
<1>8. req' \subseteq Ports /\ todo' \subseteq Ports /\ starts' \in Nat
      BY <1>1, <1>2 DEF AgreeTypes
<1> QED
      BY <1>2, <1>4, <1>6, <1>7, <1>8, QuietKeeps DEF QuietPcs

\* populatePort and the enable command; a refused buffer ends the agreement.
LEMMA KeepsEnablePort ==
    ASSUME Proto, EnablePort, ~refused'
    PROVE  Proto'
<1> USE DEF history
<1>1. AgreeTypes /\ StateAgrees /\ Waits /\ PortsAgree /\ ~passedEarly
      BY DEF Proto
<1>2. /\ pc = "enable" /\ todo # {}
      /\ \/ AlreadyDone(Cur, "enable", TRUE)
         \/ ~bEnabled[Cur] /\ PopulatePort(Cur)
            /\ UNCHANGED <<req, starts, sem, state, bEnabled, passedEarly>>
      BY DEF EnablePort, PopulateFails, Cur
<1>3. CASE AlreadyDone(Cur, "enable", TRUE)
      BY <1>2, <1>3, KeepsAlreadyDone
<1>4. CASE /\ ~bEnabled[Cur] /\ PopulatePort(Cur)
           /\ UNCHANGED <<req, starts, sem, state, bEnabled, passedEarly>>
      <2>1. /\ mBufferHeader' = [mBufferHeader EXCEPT ![Cur] = [b \in Bufs |-> starts]]
            /\ SendAndRegister(<<"enable", Cur>>, "mGreLocalSem") /\ pc' = "enableWait"
            /\ UNCHANGED <<todo, mIsActive, mGreLocalSem>>
            BY <1>4 DEF PopulatePort
      <2>2. Cur' = Cur /\ Cur \in Ports
            BY <1>1, <1>2, <2>1, CurIn DEF AgreeTypes, Cur
      <2>3. starts \in Nat /\ starts > 0
            BY <1>1, <1>2 DEF AgreeTypes, StateAgrees
      <2>4. AgreeTypes'
            <3>1. mBufferHeader' \in [Ports -> [Bufs -> Nat]]
                  BY <1>1, <2>1, <2>3 DEF AgreeTypes
            <3> QED
                  BY <1>1, <1>2, <1>4, <2>1, <3>1 DEF AgreeTypes, Pcs, PortPcs
      <2>5. Waits'
            <3>1. Quiet
                  BY <1>1, <1>2 DEF Waits, QuietPcs
            <3>2. /\ cmds' = {<<"enable", Cur>>}
                  /\ Pending(mEventSignalQ', extracting', lostNode',
                             <<<<"enable", Cur>>, "mGreLocalSem">>)
                  BY <2>1, <3>1, SendsOne
            <3>3. mGreLocalSem' = 0 /\ sem' = 0 /\ ~bEnabled'[Cur]
                  BY <1>4, <2>1, <3>1 DEF Quiet
            <3> QED
                  BY <2>1, <2>2, <3>2, <3>3 DEF Waits, Sent, QuietPcs
      <2>6. PortsAgree'
            <3>1. \A p \in Ports : p # Cur => Settled(p)'
                  <4> SUFFICES ASSUME NEW p \in Ports, p # Cur
                               PROVE  Settled(p)'
                        OBVIOUS
                  <4>1. Settled(p)
                        BY <1>2, AllSettled
                  <4>2. mBufferHeader'[p] = mBufferHeader[p]
                        BY <1>1, <2>1 DEF AgreeTypes
                  <4> QED
                        BY <1>4, <2>1, <4>1, <4>2 DEF Settled, Populated, Cleared
            <3>2. \A b \in Bufs : mBufferHeader'[Cur][b] # 0
                  BY <1>1, <2>1, <2>2, <2>3 DEF AgreeTypes
            <3>3. Populated(Cur)'
                  BY <2>2, <3>2 DEF Populated
            <3> QED
                  BY <2>1, <2>2, <3>1, <3>3 DEF PortsAgree
      <2>7. StateAgrees'
            BY <1>1, <1>2, <1>4, <2>1 DEF StateAgrees
      <2> QED
            BY <1>1, <1>4, <2>4, <2>5, <2>6, <2>7 DEF Proto
<1> QED
      BY <1>2, <1>3, <1>4

\* The disable command, and freePortBuffers.
LEMMA KeepsDisablePort ==
    ASSUME Proto, DisablePort
    PROVE  Proto'
<1> USE DEF history, ports
<1>1. AgreeTypes /\ StateAgrees /\ Waits /\ PortsAgree /\ ~passedEarly
      BY DEF Proto
<1>2. /\ pc = "disable" /\ todo # {}
      /\ \/ AlreadyDone(Cur, "disable", FALSE)
         \/ /\ bEnabled[Cur] /\ SendAndRegister(<<"disable", Cur>>, "mGreLocalSem")
            /\ pc' = "free"
            /\ UNCHANGED <<req, todo, starts, mIsActive, mBufferHeader, mGreLocalSem, sem, state,
                           bEnabled, passedEarly>>
      BY DEF DisablePort, Cur
<1>3. CASE AlreadyDone(Cur, "disable", FALSE)
      BY <1>2, <1>3, KeepsAlreadyDone
<1>4. CASE /\ bEnabled[Cur] /\ SendAndRegister(<<"disable", Cur>>, "mGreLocalSem")
           /\ pc' = "free"
           /\ UNCHANGED <<req, todo, starts, mIsActive, mBufferHeader, mGreLocalSem, sem, state,
                          bEnabled, passedEarly>>
      <2>1. AgreeTypes'
            BY <1>1, <1>2, <1>4 DEF AgreeTypes, Pcs, PortPcs
      <2>2. Waits'
            <3>1. Quiet
                  BY <1>1, <1>2 DEF Waits, QuietPcs
            <3>2. /\ cmds' = {<<"disable", Cur>>}
                  /\ Pending(mEventSignalQ', extracting', lostNode',
                             <<<<"disable", Cur>>, "mGreLocalSem">>)
                  BY <1>4, <3>1, SendsOne
            <3>3. mGreLocalSem' = 0 /\ sem' = 0 /\ bEnabled'[Cur] /\ Cur' = Cur
                  BY <1>4, <3>1 DEF Quiet, Cur
            <3> QED
                  BY <1>4, <3>2, <3>3 DEF Waits, Sent, QuietPcs
      <2>3. PortsAgree'
            BY <1>2, <1>4, AllSettled, SamePorts
      <2>4. StateAgrees'
            BY <1>1, <1>2, <1>4 DEF StateAgrees
      <2> QED
            BY <1>1, <1>4, <2>1, <2>2, <2>3, <2>4 DEF Proto
<1> QED
      BY <1>2, <1>3, <1>4

LEMMA KeepsFree ==
    ASSUME Proto, freePortBuffers
    PROVE  Proto'
<1> USE DEF history, events
<1>1. AgreeTypes /\ StateAgrees /\ Waits /\ PortsAgree /\ ~passedEarly
      BY DEF Proto
<1>2. /\ pc = "free" /\ pc' = "disableWait"
      /\ mBufferHeader' = [mBufferHeader EXCEPT ![Cur] = [b \in Bufs |-> 0]]
      /\ UNCHANGED <<req, todo, starts, mIsActive, mEventSignalQ, extracting, lostNode, mGreLocalSem, sem, state,
                     bEnabled, cmds, passedEarly>>
      BY DEF freePortBuffers, Cur
<1>3. Cur \in Ports /\ Cur' = Cur
      BY <1>1, <1>2, CurIn DEF AgreeTypes, PortPcs, Cur
<1>4. AgreeTypes'
      <2>1. mBufferHeader' \in [Ports -> [Bufs -> Nat]]
            BY <1>1, <1>2 DEF AgreeTypes
      <2> QED
            BY <1>1, <1>2, <2>1 DEF AgreeTypes, Pcs, PortPcs
<1>5. Waits'
      <2>1. Sent(<<"disable", Cur>>, "mGreLocalSem") /\ bEnabled[Cur]
            BY <1>1, <1>2 DEF Waits
      <2> QED
            BY <1>2, <1>3, <2>1 DEF Waits, Sent, QuietPcs
<1>6. PortsAgree'
      <2>1. \A p \in Ports : p # Cur => Settled(p)'
            <3> SUFFICES ASSUME NEW p \in Ports, p # Cur
                         PROVE  Settled(p)'
                  OBVIOUS
            <3>1. Settled(p)
                  BY <1>2, AllSettled
            <3>2. mBufferHeader'[p] = mBufferHeader[p]
                  BY <1>1, <1>2 DEF AgreeTypes
            <3> QED
                  BY <1>2, <3>1, <3>2 DEF Settled, Populated, Cleared
      <2>2. \A b \in Bufs : mBufferHeader'[Cur][b] = 0
            BY <1>1, <1>2, <1>3 DEF AgreeTypes
      <2>3. Cleared(Cur)'
            BY <1>3, <2>2 DEF Cleared
      <2> QED
            BY <1>2, <1>3, <2>1, <2>3 DEF PortsAgree
<1>7. StateAgrees'
      BY <1>1, <1>2 DEF StateAgrees
<1> QED
      BY <1>1, <1>2, <1>4, <1>5, <1>6, <1>7 DEF Proto

\* mGreLocalSem counts 1 only when the port is as the wait asks.
LEMMA KeepsWaitPort ==
    ASSUME Proto, WaitEnabled \/ WaitDisabled
    PROVE  Proto'
<1>1. AgreeTypes /\ StateAgrees /\ Waits /\ PortsAgree /\ ~passedEarly
      BY DEF Proto
<1>2. /\ mGreLocalSem > 0 /\ mGreLocalSem' = mGreLocalSem - 1
      /\ mIsActive' = [mIsActive EXCEPT ![Cur] = bEnabled[Cur]]
      /\ todo' = todo \ {Cur}
      /\ UNCHANGED <<req, starts, mBufferHeader, mEventSignalQ, extracting, lostNode, sem, state, bEnabled, cmds>>
      BY DEF WaitEnabled, WaitDisabled, WaitPort, component, Cur
<1>3. \/ /\ pc = "enableWait" /\ pc' = "enable"
         /\ passedEarly' = (passedEarly \/ bEnabled[Cur] # TRUE)
      \/ /\ pc = "disableWait" /\ pc' = "disable"
         /\ passedEarly' = (passedEarly \/ bEnabled[Cur] # FALSE)
      BY DEF WaitEnabled, WaitDisabled, WaitPort, Cur
<1>4. Cur \in todo /\ Cur \in Ports
      BY <1>1, <1>3, CurIn DEF AgreeTypes, PortPcs
<1>5. /\ PortPosted
      /\ pc = "enableWait" => bEnabled[Cur]
      /\ pc = "disableWait" => ~bEnabled[Cur]
      <2>1. mGreLocalSem # 0
            BY <1>2
      <2>2. \A k : ~Sent(k, "mGreLocalSem")
            BY <2>1, Zenon DEF Sent
      <2> QED
            BY <1>1, <1>3, <2>2, Zenon DEF Waits
<1>6. bEnabled[Cur] \in BOOLEAN
      BY <1>1, <1>4 DEF AgreeTypes
<1>7. ~passedEarly'
      BY <1>1, <1>3, <1>5, <1>6
<1>8. Quiet'
      BY <1>2, <1>5 DEF PortPosted, Quiet, Posted
<1>9. /\ mIsActive' \in [Ports -> BOOLEAN] /\ mIsActive'[Cur] = bEnabled[Cur]
      /\ \A p \in Ports : p # Cur => mIsActive'[p] = mIsActive[p]
      BY <1>1, <1>2, <1>4, <1>6 DEF AgreeTypes
<1>10. AgreeTypes'
      BY <1>1, <1>2, <1>3, <1>9 DEF AgreeTypes, Pcs, PortPcs, QuietPcs
<1>11. Waits'
      BY <1>3, <1>8 DEF Waits
<1>12. PortsAgree'
      <2>1. ASSUME NEW p \in Ports, p # Cur PROVE Settled(p)'
            <3>1. Settled(p)
                  BY <1>1, <2>1 DEF PortsAgree
            <3> QED
                  BY <1>2, <1>9, <2>1, <3>1 DEF Settled, Populated, Cleared
      <2>2. ASSUME NEW p \in Ports, p = Cur PROVE Settled(p)'
            <3>1. mIsActive'[p] = bEnabled[p] /\ bEnabled'[p] = bEnabled[p]
                  BY <1>2, <1>9, <2>2
            <3>2. \/ bEnabled[p] /\ Populated(p)
                  \/ ~bEnabled[p] /\ Cleared(p)
                  BY <1>1, <1>3, <1>5, <2>2 DEF PortsAgree
            <3> QED
                  BY <1>2, <3>1, <3>2 DEF Settled, Populated, Cleared
      <2>3. \A p \in Ports : Settled(p)'
            BY <2>1, <2>2
      <2> QED
            BY <1>3, <2>3 DEF PortsAgree
<1>13. StateAgrees'
      <2>1. CASE pc = "enableWait"
            <3>1. pc' = "enable" /\ state = "Executing" /\ req # {} /\ starts > 0
                  /\ \A p \in req \ todo : mIsActive[p]
                  BY <1>1, <1>3, <2>1 DEF StateAgrees
            <3>2. \A p \in req' \ todo' : mIsActive'[p]
                  <4> SUFFICES ASSUME NEW p \in req, p \notin todo \/ p = Cur
                               PROVE  mIsActive'[p]
                        BY <1>2
                  <4>1. p \in Ports
                        BY <1>1 DEF AgreeTypes
                  <4>2. CASE p = Cur
                        BY <1>5, <1>9, <2>1, <4>2
                  <4>3. CASE p # Cur
                        BY <1>9, <3>1, <4>1, <4>3
                  <4> QED
                        BY <4>2, <4>3
            <3> QED
                  BY <1>2, <3>1, <3>2 DEF StateAgrees
      <2>2. CASE pc = "disableWait"
            BY <1>1, <1>2, <1>3, <2>2 DEF StateAgrees
      <2> QED
            BY <1>3, <2>1, <2>2
<1> QED
      BY <1>7, <1>10, <1>11, <1>12, <1>13 DEF Proto

\* An event of the component is that of the one command under way.
LEMMA KeepsCmdComplete ==
    ASSUME Proto, NEW c \in cmds, CmdComplete(c)
    PROVE  Proto'
<1> USE DEF control, ports, history
<1>1. AgreeTypes /\ StateAgrees /\ Waits /\ PortsAgree /\ ~passedEarly
      BY DEF Proto
<1>2. /\ Completable(c) /\ EventHandler(c) /\ extracting = 0 /\ cmds' = cmds \ {c}
      /\ state' = IF c[1] = "state" THEN c[2] ELSE state
      /\ bEnabled' = IF c[1] \in {"enable", "disable"}
                     THEN [bEnabled EXCEPT ![c[2]] = (c[1] = "enable")] ELSE bEnabled
      /\ UNCHANGED <<pc, req, todo, starts, mIsActive, mBufferHeader, passedEarly>>
      BY DEF CmdComplete
<1>3. Cur' = Cur
      BY <1>2 DEF Cur
<1>4. ASSUME bEnabled' = bEnabled
      PROVE  AgreeTypes' /\ PortsAgree'
      BY <1>1, <1>2, <1>3, <1>4 DEF AgreeTypes, PortsAgree, Settled, Populated, Cleared
<1>5. ASSUME NEW target, NEW at, pc = at, StateWait(target),
             <<at, target>> \in {<<"toIdle", "Idle">>, <<"toExecuting", "Executing">>,
                                 <<"toLoaded", "Loaded">>}
      PROVE  Proto'
      <2>1. Sent(<<"state", target>>, "sem") /\ c = <<"state", target>>
            BY <1>5 DEF StateWait, Sent, StackPosted
      <2>2. /\ cmds' = {} /\ Rest(mEventSignalQ', extracting') /\ mGreLocalSem' = 0
            /\ Posted(lostNode', sem')
            /\ state' = target /\ bEnabled' = bEnabled
            BY <1>2, <2>1, HandlesOne DEF Sent
      <2>3. Waits'
            BY <1>2, <1>5, <2>2 DEF Waits, StateWait, StackPosted, QuietPcs
      <2>4. StateAgrees'
            BY <1>1, <1>2, <1>5 DEF StateAgrees
      <2> QED
            BY <1>1, <1>2, <1>4, <2>2, <2>3, <2>4 DEF Proto
<1>6. CASE pc = "flushWait"
      <2>1. Sent(<<"flush", Cur>>, "sem") /\ c = <<"flush", Cur>>
            BY <1>1, <1>6 DEF Waits, Sent, StackPosted
      <2>2. /\ cmds' = {} /\ Rest(mEventSignalQ', extracting') /\ mGreLocalSem' = 0
            /\ Posted(lostNode', sem')
            /\ state' = state /\ bEnabled' = bEnabled
            BY <1>2, <2>1, HandlesOne DEF Sent
      <2>3. Waits'
            BY <1>2, <1>6, <2>2 DEF Waits, StackPosted, QuietPcs
      <2>4. StateAgrees'
            BY <1>1, <1>2, <1>6, <2>2 DEF StateAgrees
      <2> QED
            BY <1>1, <1>2, <1>4, <2>2, <2>3, <2>4 DEF Proto
<1>7. ASSUME NEW at, NEW what, pc = at, Sent(<<what, Cur>>, "mGreLocalSem"), Cur \in Ports,
             <<at, what>> \in {<<"enableWait", "enable">>, <<"disableWait", "disable">>}
      PROVE  Proto'
      <2>1. c = <<what, Cur>> /\ what \in {"enable", "disable"}
            BY <1>7 DEF Sent
      <2>2. /\ cmds' = {} /\ Rest(mEventSignalQ', extracting') /\ sem' = 0
            /\ Posted(lostNode', mGreLocalSem')
            /\ state' = state /\ bEnabled' = [bEnabled EXCEPT ![Cur] = (what = "enable")]
            BY <1>2, <1>7, <2>1, HandlesOne DEF Sent
      <2>3. /\ bEnabled' \in [Ports -> BOOLEAN] /\ bEnabled'[Cur] = (what = "enable")
            /\ \A p \in Ports : p # Cur => bEnabled'[p] = bEnabled[p]
            BY <1>1, <1>7, <2>2 DEF AgreeTypes
      <2>4. AgreeTypes'
            BY <1>1, <1>2, <2>3 DEF AgreeTypes
      <2>5. Waits'
            BY <1>2, <1>3, <1>7, <2>2, <2>3 DEF Waits, PortPosted, QuietPcs
      <2>6. PortsAgree'
            <3>1. \A p \in Ports : p # Cur => Settled(p)'
                  <4> SUFFICES ASSUME NEW p \in Ports, p # Cur
                               PROVE  Settled(p)'
                        OBVIOUS
                  <4>1. Settled(p)
                        BY <1>1 DEF PortsAgree
                  <4> QED
                        BY <1>2, <2>3, <4>1 DEF Settled, Populated, Cleared
            <3> QED
                  BY <1>1, <1>2, <1>3, <1>7, <3>1 DEF PortsAgree, Populated, Cleared
      <2>7. StateAgrees'
            BY <1>1, <1>2, <2>2 DEF StateAgrees
      <2> QED
            BY <1>1, <1>2, <2>4, <2>5, <2>6, <2>7 DEF Proto
<1>8. CASE pc \in {"enableWait", "disableWait"}
      <2>1. Cur \in Ports
            BY <1>1, <1>8, CurIn DEF AgreeTypes, PortPcs
      <2>2. CASE pc = "enableWait"
            <3>1. Sent(<<"enable", Cur>>, "mGreLocalSem")
                  BY <1>1, <2>2 DEF Waits, PortPosted
            <3> QED
                  BY <1>7, <2>1, <2>2, <3>1
      <2>3. CASE pc = "disableWait"
            <3>1. Sent(<<"disable", Cur>>, "mGreLocalSem")
                  BY <1>1, <2>3 DEF Waits, PortPosted
            <3> QED
                  BY <1>7, <2>1, <2>3, <3>1
      <2> QED
            BY <1>8, <2>2, <2>3
<1>9. CASE pc = "free"
      <2>1. Cur \in Ports /\ bEnabled[Cur] /\ c = <<"disable", Cur>>
            BY <1>1, <1>9, CurIn DEF AgreeTypes, PortPcs, Waits, Sent
      <2>2. Populated(Cur)
            BY <1>9, <2>1, AllSettled DEF Settled
      <2>3. \A b \in Bufs : mBufferHeader[Cur][b] = 0
            BY <1>2, <2>1 DEF Completable
      <2>4. 1 \in Bufs
            BY CameraAssumption DEF Bufs
      <2> QED
            BY <2>2, <2>3, <2>4 DEF Populated
<1>10. CASE pc \in {"toIdle", "toExecuting", "toLoaded"}
      BY <1>1, <1>5, <1>10 DEF Waits
<1>11. pc \notin QuietPcs
      BY <1>1 DEF Waits, Quiet
<1> QED
      BY <1>1, <1>6, <1>8, <1>9, <1>10, <1>11 DEF AgreeTypes, Pcs, PortPcs

\* The component's thread finishes with the node it has posted.
LEMMA KeepsExtract ==
    ASSUME Proto, ExtractNode
    PROVE  Proto'
<1> USE DEF control, ports, component, history
<1>1. AgreeTypes /\ StateAgrees /\ Waits /\ PortsAgree /\ ~passedEarly
      BY DEF Proto
<1>2. UNCHANGED <<pc, req, todo, starts, mIsActive, mBufferHeader, bEnabled, state, cmds,
                  mGreLocalSem, sem, lostNode, passedEarly>>
      BY DEF ExtractNode
<1>3. Cur' = Cur
      BY <1>2 DEF Cur
<1>4. AgreeTypes' /\ StateAgrees' /\ PortsAgree' /\ ~passedEarly'
      BY <1>1, <1>2, <1>3 DEF AgreeTypes, PortsAgree, Settled, Populated, Cleared, StateAgrees
<1>5. Waits'
      BY <1>1, <1>2, <1>3, ExtractsOne
         DEF Waits, Quiet, Sent, StackPosted, PortPosted, StateWait
<1> QED
      BY <1>4, <1>5 DEF Proto

-----------------------------------------------------------------------------
\* The frame thread, the client's frames and the filling of buffers touch nothing
\* that a call and the component agree on.
agreement == <<pc, req, todo, starts, mIsActive, mBufferHeader, bEnabled, state, cmds,
               mEventSignalQ, extracting, lostNode, mGreLocalSem, sem, passedEarly, refused>>

LEMMA SameAgreement ==
    ASSUME AgreeInv, UNCHANGED agreement
    PROVE  AgreeInv'
<1>1. Cur' = Cur
      BY DEF agreement, Cur
<1> QED
      BY <1>1 DEF agreement, AgreeInv, Proto, AgreeTypes, Waits, Quiet, Sent, StackPosted,
                  PortPosted, StateWait, PortsAgree, Settled, Populated, Cleared, StateAgrees

LEMMA FramesApart ==
    ASSUME [FrameThreadStep \/ ReturnStep \/ Fills]_vars
    PROVE  UNCHANGED agreement
<1> USE DEF agreement, control, ports, events, component, history
<1>1. CASE FrameThreadStep
      BY <1>1 DEF FrameThreadStep, FrameThreadStarts, ReadMessage, FrameReceivedFunc,
                  FrameCallback
<1>2. CASE ReturnStep
      BY <1>2 DEF ReturnStep, returnFrame, FillThisBuffer
<1>3. CASE Fills
      BY <1>3 DEF Fills, FillBufferDone
<1>4. CASE UNCHANGED vars
      BY <1>4 DEF vars
<1> QED
      BY <1>1, <1>2, <1>3, <1>4

LEMMA InitAgree == Init => AgreeInv
<1> SUFFICES ASSUME Init
             PROVE  AgreeTypes /\ Waits /\ PortsAgree /\ StateAgrees /\ ~passedEarly
      BY DEF AgreeInv, Proto
<1>1. AgreeTypes
      BY DEF Init, AgreeTypes, Pcs, QuietPcs, PortPcs
<1>2. Waits
      BY DEF Init, Waits, Quiet, Rest, QuietPcs
<1>3. PortsAgree
      BY DEF Init, PortsAgree, Settled, Cleared
<1>4. StateAgrees
      BY DEF Init, StateAgrees
<1>5. ~passedEarly
      BY DEF Init
<1> QED
      BY <1>1, <1>2, <1>3, <1>4, <1>5

\* A refusal is remembered.
LEMMA RefusedStays ==
    ASSUME refused, [Next]_vars
    PROVE  refused'
<1> USE DEF history
<1>1. CASE ControlCall
      BY <1>1 DEF ControlCall, useBuffers, startPreview, stopPreview, releaseBuffers, deinit
<1>2. CASE WaitEvent
      BY <1>2 DEF WaitEvent, WaitState, WaitFlush, WaitSem, WaitEnabled, WaitDisabled, WaitPort
<1>3. CASE EnablePort
      BY <1>3 DEF EnablePort, AlreadyDone, PopulatePort, PopulateFails
<1>4. CASE StartEnds \/ flushBuffers \/ FlushEnds \/ freePortBuffers \/ StopEnds \/ Join
           \/ StartLocked
      BY <1>4 DEF StartEnds, flushBuffers, FlushEnds, freePortBuffers, StopEnds, Join,
                  StartLocked
<1>5. CASE DisablePort
      BY <1>5 DEF DisablePort, AlreadyDone
<1>6. CASE Completes
      BY <1>6 DEF Completes, CmdComplete
<1>7. CASE [FrameThreadStep \/ ReturnStep \/ Fills]_vars
      BY <1>7, FramesApart DEF agreement
<1>8. CASE ExtractNode
      BY <1>8 DEF ExtractNode
<1> QED
      BY <1>1, <1>2, <1>3, <1>4, <1>5, <1>6, <1>7, <1>8 DEF Next, ControlStep

LEMMA StepAgree == AgreeInv /\ [Next]_vars => AgreeInv'
<1> SUFFICES ASSUME AgreeInv, [Next]_vars
             PROVE  AgreeInv'
      OBVIOUS
<1>1. CASE [FrameThreadStep \/ ReturnStep \/ Fills]_vars
      BY <1>1, FramesApart, SameAgreement
<1>2. CASE refused'
      BY <1>2 DEF AgreeInv
<1>3. CASE ~refused' /\ (ControlCall \/ ControlStep \/ StartLocked \/ Completes
                         \/ ExtractNode)
      <2>1. Proto
            BY <1>3, RefusedStays DEF AgreeInv, Proto
      <2>2. Proto'
            <3>1. CASE useBuffers \/ releaseBuffers
                  BY <2>1, <3>1, KeepsUseBuffers
            <3>2. CASE startPreview
                  BY <2>1, <3>2, KeepsStartPreview
            <3>3. CASE StartLocked \/ StartEnds \/ stopPreview \/ FlushEnds \/ deinit \/ Join
                  BY <2>1, <3>3, KeepsBetween
            <3>4. CASE StopEnds
                  BY <2>1, <3>4, KeepsStopEnds
            <3>5. CASE flushBuffers
                  BY <2>1, <3>5, KeepsFlush
            <3>6. CASE WaitState \/ WaitFlush
                  BY <2>1, <3>6, KeepsWaitSem
            <3>7. CASE WaitEnabled \/ WaitDisabled
                  BY <2>1, <3>7, KeepsWaitPort
            <3>8. CASE EnablePort
                  BY <1>3, <2>1, <3>8, KeepsEnablePort
            <3>9. CASE DisablePort
                  BY <2>1, <3>9, KeepsDisablePort
            <3>10. CASE freePortBuffers
                  BY <2>1, <3>10, KeepsFree
            <3>11. CASE Completes
                  BY <2>1, <3>11, KeepsCmdComplete DEF Completes
            <3>12. CASE ExtractNode
                  BY <2>1, <3>12, KeepsExtract
            <3> QED
                  BY <1>3, <3>1, <3>2, <3>3, <3>4, <3>5, <3>6, <3>7, <3>8, <3>9, <3>10, <3>11,
                     <3>12
                     DEF ControlCall, ControlStep, WaitEvent
      <2> QED
            BY <2>2 DEF AgreeInv, Proto
<1> QED
      BY <1>1, <1>2, <1>3 DEF Next

-----------------------------------------------------------------------------
\* Every wait of portEnableDisable, flushBuffers and transitToState has its own command,
\* registration and semaphore count under way, and nothing else but the node that the
\* component's thread is about to extract; a registration that was lost is never posted.
THEOREM AgreeInvariant == Spec => []AgreeInv
BY InitAgree, StepAgree, PTL DEF Spec

\* AgreeBetweenCalls, for any ports, buffers, requests and number of starts: as long as
\* OMX_UseBuffer refused nothing, no wait on mGreLocalSem ends before its own port's
\* event, and after every call the camera and the component agree on ports and state,
\* whether or not list_append and list_extract meet on the list of registrations.
THEOREM AgreeBetweenCallsHolds == Spec => []AgreeBetweenCalls
<1>1. AgreeInv => AgreeBetweenCalls
      <2> SUFFICES ASSUME Proto
                   PROVE  /\ ~passedEarly
                          /\ pc = "idle" =>
                               /\ cmds = {} /\ DOMAIN mEventSignalQ \subseteq {extracting}
                               /\ mGreLocalSem = 0 /\ sem = 0
                               /\ \A p \in Ports :
                                     /\ mIsActive[p] = bEnabled[p]
                                     /\ \A b \in Bufs :
                                           mIsActive[p] = (mBufferHeader[p][b] # 0)
                               /\ (state = "Executing") = (\E p \in Ports : mIsActive[p])
            BY DEF AgreeInv, Proto, AgreeBetweenCalls
      <2>1. AgreeTypes /\ Waits /\ StateAgrees /\ ~passedEarly
            BY DEF Proto
      <2> SUFFICES ASSUME pc = "idle"
                   PROVE  /\ Quiet
                          /\ \A p \in Ports :
                                /\ mIsActive[p] = bEnabled[p]
                                /\ \A b \in Bufs : mIsActive[p] = (mBufferHeader[p][b] # 0)
                          /\ (state = "Executing") = (\E p \in Ports : mIsActive[p])
            <3>1. Rest(mEventSignalQ, extracting) => DOMAIN mEventSignalQ \subseteq {extracting}
                  <4>1. DOMAIN << >> = {} /\ \A n : DOMAIN <<n>> = {1}
                        OBVIOUS
                  <4> QED
                        BY <4>1 DEF Rest
            <3> QED
                  BY <2>1, <3>1 DEF Quiet
      <2>2. Quiet
            BY <2>1 DEF Waits, QuietPcs
      <2>3. ASSUME NEW p \in Ports
            PROVE  /\ mIsActive[p] = bEnabled[p]
                   /\ \A b \in Bufs : mIsActive[p] = (mBufferHeader[p][b] # 0)
            <3>1. Settled(p) /\ mIsActive[p] \in BOOLEAN
                  BY <2>1, AllSettled DEF AgreeTypes
            <3> QED
                  BY <3>1 DEF Settled, Populated, Cleared
      <2>4. (state = "Executing") = (\E p \in Ports : mIsActive[p])
            BY <2>1 DEF StateAgrees
      <2> QED
            BY <2>2, <2>3, <2>4
<1> QED
      BY <1>1, AgreeInvariant, PTL

-----------------------------------------------------------------------------
(* Types, whether or not a start has failed.                               *)

Enabling == {"toExecuting", "startLock", "enable", "enableWait"}

ControlTypes ==
    /\ pc \in Pcs /\ req \subseteq Ports /\ todo \subseteq Ports /\ ok \in BOOLEAN
    /\ starts \in 0..MaxStarts
    /\ pc \in PortPcs => todo # {}
    /\ pc \in Enabling => starts > 0

FlagTypes ==
    /\ mFlushInProcess \in BOOLEAN /\ mFrameDescriptors \in BOOLEAN
    /\ mFrameBufferLock \in {"free", Client, FrameThread}
    /\ passedEarly \in BOOLEAN /\ lostPost \in BOOLEAN
    /\ refused \in BOOLEAN /\ stale \in BOOLEAN

PortTypes ==
    /\ mIsActive \in [Ports -> BOOLEAN] /\ bEnabled \in [Ports -> BOOLEAN]
    /\ mBufferHeader \in [Ports -> [Bufs -> 0..MaxStarts]]
    /\ \A p \in Ports, b \in Bufs : mBufferHeader[p][b] <= starts
    /\ state \in {"Loaded", "Idle", "Executing"} /\ cmds \subseteq Commands

\* A request of the component's and the semaphore that waits for it go together.
StackCommands == ({"state"} \X {"Loaded", "Idle", "Executing"}) \cup ({"flush"} \X Ports)
PortCommands == {"enable", "disable"} \X Ports
WaitNodes == (StackCommands \X {"sem"}) \cup (PortCommands \X {"mGreLocalSem"})
StackPcs == {"toIdle", "toExecuting", "toLoaded", "flushWait"}
NodesOf(q, e) == {i \in DOMAIN q : i # e /\ q[i][2] = "sem"}
StackNodes == NodesOf(mEventSignalQ, extracting)

\* The semaphore on the stack: one node waits for it, besides one that is being
\* extracted, or it was posted once, and only inside the call that it belongs to.
EventTypes ==
    /\ mEventSignalQ \in Seq(WaitNodes) /\ mGreLocalSem \in Nat /\ sem \in 0..1
    /\ extracting \in 0..Len(mEventSignalQ) /\ lostNode \in BOOLEAN
    /\ \A i, j \in StackNodes : i = j
    /\ StackNodes # {} => sem = 0 /\ pc \in StackPcs
    /\ sem # 0 => pc \in StackPcs

FrameTypes ==
    /\ fpc \in {"create", "wait", "received", "callback", "exited"}
    /\ msg \in Messages \cup {None}
    /\ fpc \in {"received", "callback"} => msg \in Messages
    /\ mFrameMessageQ \in Seq(Messages \cup {Exit}) /\ mFrameSem \in -1..Len(mFrameMessageQ)

BufferTypes ==
    /\ held \subseteq Buffers /\ frames \subseteq Buffers /\ returning \subseteq frames
    /\ \A x \in held : mBufferHeader[x[1]][x[2]] # 0

LEMMA StepControlTypes ==
    ASSUME ControlTypes, [Next]_vars
    PROVE  ControlTypes'
<1> USE DEF ControlTypes, Pcs, QuietPcs, PortPcs, Enabling
<1>1. ASSUME UNCHANGED control
      PROVE  ControlTypes'
      BY <1>1 DEF control
<1>2. CASE useBuffers \/ releaseBuffers \/ deinit
      BY <1>2 DEF useBuffers, releaseBuffers, deinit, transitToState
<1>3. CASE startPreview
      <2>1. /\ pc' \in {"toExecuting", "startLock"} /\ ok' = TRUE
            /\ starts < MaxStarts /\ starts' = starts + 1
            /\ \E r \in Requests : req' = r /\ todo' = r
            BY <1>3 DEF startPreview, transitToState
      <2>2. starts' \in 0..MaxStarts /\ starts' > 0
            BY <2>1, CameraAssumption
      <2>3. req' \subseteq Ports /\ todo' \subseteq Ports
            BY <2>1, RequestPorts
      <2> QED
            BY <2>1, <2>2, <2>3
<1>4. CASE stopPreview
      <2>1. /\ pc' = "flush" /\ ok' = TRUE /\ starts' = starts
            /\ \E r \in Requests : req' = r /\ todo' = r
            BY <1>4 DEF stopPreview
      <2> QED
            BY <2>1, RequestPorts
<1>5. CASE StartLocked \/ StartEnds \/ FlushEnds \/ freePortBuffers \/ Join
      BY <1>5 DEF StartLocked, StartEnds, FlushEnds, freePortBuffers, Join
<1>6. CASE flushBuffers \/ StopEnds
      BY <1>6 DEF flushBuffers, StopEnds, transitToState
<1>7. CASE WaitState \/ WaitFlush
      BY <1>7 DEF WaitState, WaitFlush, WaitSem
<1>8. CASE WaitEnabled \/ WaitDisabled
      BY <1>8 DEF WaitEnabled, WaitDisabled, WaitPort
<1>9. CASE EnablePort
      BY <1>9 DEF EnablePort, AlreadyDone, PopulatePort, PopulateFails
<1>10. CASE DisablePort
      BY <1>10 DEF DisablePort, AlreadyDone
<1>11. CASE Completes
      BY <1>1, <1>11 DEF Completes, CmdComplete
<1>12. CASE [FrameThreadStep \/ ReturnStep \/ Fills]_vars
      <2>1. UNCHANGED control
            BY <1>12 DEF FrameThreadStep, FrameThreadStarts, ReadMessage, FrameReceivedFunc,
                         FrameCallback, ReturnStep, returnFrame, FillThisBuffer, Fills,
                         FillBufferDone, vars
      <2> QED
            BY <1>1, <2>1
<1>13. CASE ExtractNode
      BY <1>1, <1>13 DEF ExtractNode
<1> QED
      BY <1>2, <1>3, <1>4, <1>5, <1>6, <1>7, <1>8, <1>9, <1>10, <1>11, <1>12, <1>13
      DEF Next, ControlCall, ControlStep, WaitEvent

LEMMA StepFlagTypes ==
    ASSUME FlagTypes, [Next]_vars
    PROVE  FlagTypes'
<1> USE DEF FlagTypes, history
<1>1. CASE ControlCall
      <2>1. CASE useBuffers \/ startPreview \/ stopPreview \/ releaseBuffers
            BY <2>1 DEF useBuffers, startPreview, stopPreview, releaseBuffers, frameThread
      <2>2. CASE deinit
            BY <2>2 DEF deinit, PostFrameThread
      <2> QED
            BY <1>1, <2>1, <2>2 DEF ControlCall
<1>2. CASE WaitState \/ WaitFlush
      BY <1>2 DEF WaitState, WaitFlush, WaitSem, frameThread
<1>3. CASE WaitEnabled \/ WaitDisabled
      <2>1. PICK enable \in BOOLEAN :
               passedEarly' = (passedEarly \/ bEnabled[Min(todo)] # enable)
            BY <1>3 DEF WaitEnabled, WaitDisabled, WaitPort
      <2>2. passedEarly' \in BOOLEAN
            BY <2>1, Zenon
      <2> QED
            BY <1>3, <2>2 DEF WaitEnabled, WaitDisabled, WaitPort, frameThread
<1>4. CASE EnablePort
      BY <1>4 DEF EnablePort, AlreadyDone, PopulatePort, PopulateFails, frameThread
<1>5. CASE StartEnds \/ flushBuffers \/ FlushEnds \/ freePortBuffers \/ StopEnds \/ Join
           \/ StartLocked
      BY <1>5 DEF StartEnds, flushBuffers, FlushEnds, freePortBuffers, StopEnds, Join,
                  StartLocked, frameThread
<1>6. CASE DisablePort
      BY <1>6 DEF DisablePort, AlreadyDone, frameThread
<1>7. CASE Completes
      BY <1>7 DEF Completes, CmdComplete, frameThread
<1>8. CASE FrameThreadStarts \/ ReadMessage \/ FrameCallback
      BY <1>8 DEF FrameThreadStarts, ReadMessage, FrameCallback
<1>9. CASE FrameReceivedFunc
      <2>1. stale' \in BOOLEAN
            <3>1. \/ stale' = (stale \/ mBufferHeader[msg[1]][msg[2]] # msg[3])
                  \/ stale' = stale
                  BY <1>9 DEF FrameReceivedFunc
            <3> QED
                  BY <3>1, Zenon
      <2>2. mFrameBufferLock' \in {"free", Client, FrameThread}
            BY <1>9 DEF FrameReceivedFunc
      <2> QED
            BY <1>9, <2>1, <2>2 DEF FrameReceivedFunc
<1>10. CASE ReturnStep
      BY <1>10 DEF ReturnStep, returnFrame, FillThisBuffer, frameThread
<1>11. CASE Fills
      BY <1>11 DEF Fills, FillBufferDone, PostFrameThread
<1>12. CASE ExtractNode \/ UNCHANGED vars
      BY <1>12 DEF ExtractNode, vars, frameThread
<1> QED
      BY <1>1, <1>2, <1>3, <1>4, <1>5, <1>6, <1>7, <1>8, <1>9, <1>10, <1>11, <1>12
      DEF Next, ControlStep, WaitEvent, FrameThreadStep

LEMMA StepPortTypes ==
    ASSUME ControlTypes, PortTypes, [Next]_vars
    PROVE  PortTypes'
<1> USE DEF component, ports
<1>1. ASSUME UNCHANGED <<mIsActive, mBufferHeader, bEnabled, state>>, cmds' \subseteq Commands,
             starts' = starts \/ starts' = starts + 1
      PROVE  PortTypes'
      <2>1. \A p \in Ports, b \in Bufs : mBufferHeader'[p][b] <= starts'
            <3>1. \A p \in Ports, b \in Bufs : mBufferHeader[p][b] \in Nat
                  BY CameraAssumption DEF PortTypes
            <3>2. starts \in Nat
                  BY CameraAssumption DEF ControlTypes
            <3> QED
                  BY <1>1, <3>1, <3>2 DEF PortTypes
      <2> QED
            BY <1>1, <2>1 DEF PortTypes
<1>2. cmds \subseteq Commands /\ starts \in 0..MaxStarts
      BY DEF PortTypes, ControlTypes
<1>3. CASE useBuffers \/ releaseBuffers \/ deinit \/ startPreview \/ stopPreview
      <2>1. UNCHANGED <<mIsActive, mBufferHeader, bEnabled, state>>
            BY <1>3 DEF useBuffers, releaseBuffers, deinit, startPreview, stopPreview,
                        transitToState
      <2>2. starts' = starts \/ starts' = starts + 1
            BY <1>3 DEF useBuffers, releaseBuffers, deinit, startPreview, stopPreview
      <2>3. \/ cmds' = cmds \/ cmds' = {}
            \/ \E t \in {"Loaded", "Idle", "Executing"} : cmds' = cmds \cup {<<"state", t>>}
            BY <1>3 DEF useBuffers, releaseBuffers, deinit, startPreview, stopPreview,
                        transitToState, SendAndRegister
      <2>4. cmds' \subseteq Commands
            BY <1>2, <2>3 DEF Commands
      <2> QED
            BY <1>1, <2>1, <2>2, <2>4
<1>4. CASE StartLocked \/ StartEnds \/ FlushEnds \/ Join \/ WaitState \/ WaitFlush
      BY <1>1, <1>2, <1>4 DEF StartLocked, StartEnds, FlushEnds, Join, WaitState, WaitFlush,
                              WaitSem
<1>5. CASE flushBuffers \/ StopEnds
      <2>1. UNCHANGED <<mIsActive, mBufferHeader, bEnabled, state, starts>>
            BY <1>5 DEF flushBuffers, StopEnds, transitToState
      <2>2. \/ cmds' = cmds \/ cmds' = cmds \cup {<<"state", "Idle">>}
            \/ cmds' = cmds \cup {<<"flush", Cur>>} /\ todo # {}
            BY <1>5 DEF flushBuffers, StopEnds, transitToState, SendAndRegister, Cur
      <2>3. todo # {} => Cur \in Ports
            BY CurIn DEF ControlTypes
      <2>4. cmds' \subseteq Commands
            BY <1>2, <2>2, <2>3 DEF Commands
      <2> QED
            BY <1>1, <2>1, <2>4
<1>6. CASE freePortBuffers
      <2>1. /\ mBufferHeader' = [mBufferHeader EXCEPT ![Cur] = [b \in Bufs |-> 0]]
            /\ UNCHANGED <<mIsActive, bEnabled, state, starts, cmds>>
            BY <1>6 DEF freePortBuffers, Cur
      <2>2. mBufferHeader' \in [Ports -> [Bufs -> 0..MaxStarts]]
            <3>1. 0 \in 0..MaxStarts
                  BY CameraAssumption
            <3>2. [b \in Bufs |-> 0] \in [Bufs -> 0..MaxStarts]
                  BY <3>1
            <3> QED
                  BY <2>1, <3>2 DEF PortTypes
      <2>3. \A p \in Ports, b \in Bufs : mBufferHeader'[p][b] <= starts
            BY <1>2, <2>1 DEF PortTypes
      <2> QED
            BY <2>1, <2>2, <2>3 DEF PortTypes
<1>7. CASE WaitEnabled \/ WaitDisabled
      <2>1. /\ mIsActive' = [mIsActive EXCEPT ![Cur] = bEnabled[Cur]]
            /\ UNCHANGED <<mBufferHeader, bEnabled, state, starts, cmds>> /\ todo # {}
            BY <1>7 DEF WaitEnabled, WaitDisabled, WaitPort, Cur, ControlTypes, PortPcs
      <2>2. Cur \in Ports
            BY <2>1, CurIn DEF ControlTypes
      <2> QED
            BY <2>1, <2>2 DEF PortTypes
<1>8. ASSUME NEW p \in Ports, NEW enable \in BOOLEAN, NEW at, AlreadyDone(p, at, enable)
      PROVE  PortTypes'
      BY <1>8 DEF AlreadyDone, PortTypes
<1>9. CASE EnablePort
      <2>1. PICK p \in Ports :
               \/ AlreadyDone(p, "enable", TRUE)
               \/ /\ pc = "enable"
                  /\ PopulatePort(p) \/ \E n \in Bufs : PopulateFails(p, n)
                  /\ UNCHANGED <<starts, state, bEnabled>>
            BY <1>9 DEF EnablePort
      <2>2. CASE PopulatePort(p) /\ UNCHANGED <<starts, state, bEnabled>>
            <3>1. /\ mBufferHeader' = [mBufferHeader EXCEPT ![p] = [b \in Bufs |-> starts]]
                  /\ mIsActive' = mIsActive /\ cmds' = cmds \cup {<<"enable", p>>}
                  BY <2>2 DEF PopulatePort, SendAndRegister
            <3>2. mBufferHeader' \in [Ports -> [Bufs -> 0..MaxStarts]]
                  BY <1>2, <3>1 DEF PortTypes
            <3>3. \A q \in Ports, b \in Bufs : mBufferHeader'[q][b] <= starts
                  BY <1>2, <3>1 DEF PortTypes
            <3>4. cmds' \subseteq Commands
                  BY <1>2, <3>1 DEF Commands
            <3> QED
                  BY <2>2, <3>1, <3>2, <3>3, <3>4 DEF PortTypes
      <2>3. CASE (\E n \in Bufs : PopulateFails(p, n)) /\ UNCHANGED <<starts, state, bEnabled>>
            <3>1. PICK n \in Bufs : PopulateFails(p, n)
                  BY <2>3
            <3> DEFINE h == [b \in Bufs |-> IF b < n THEN starts ELSE mBufferHeader[p][b]]
            <3>2. /\ mBufferHeader' = [mBufferHeader EXCEPT ![p] = h]
                  /\ mIsActive' = [mIsActive EXCEPT ![p] = bEnabled[p]]
                  /\ cmds' = cmds \cup {<<"enable", p>>}
                  BY <3>1 DEF PopulateFails
            <3>3. h \in [Bufs -> 0..MaxStarts] /\ \A b \in Bufs : h[b] <= starts
                  BY <1>2 DEF PortTypes
            <3> HIDE DEF h
            <3>4. mBufferHeader' \in [Ports -> [Bufs -> 0..MaxStarts]]
                  BY <3>2, <3>3 DEF PortTypes
            <3>5. \A q \in Ports, b \in Bufs : mBufferHeader'[q][b] <= starts
                  BY <3>2, <3>3 DEF PortTypes
            <3>6. cmds' \subseteq Commands
                  BY <1>2, <3>2 DEF Commands
            <3> QED
                  BY <2>3, <3>2, <3>4, <3>5, <3>6 DEF PortTypes
      <2> QED
            BY <1>8, <2>1, <2>2, <2>3
<1>10. CASE DisablePort
      <2>1. PICK p \in Ports :
               \/ AlreadyDone(p, "disable", FALSE)
               \/ /\ cmds' = cmds \cup {<<"disable", p>>}
                  /\ UNCHANGED <<starts, mIsActive, mBufferHeader, state, bEnabled>>
            BY <1>10 DEF DisablePort, SendAndRegister
      <2>2. cmds \cup {<<"disable", p>>} \subseteq Commands
            BY <1>2 DEF Commands
      <2> QED
            BY <1>1, <1>8, <2>1, <2>2
<1>11. CASE Completes
      <2>1. PICK c \in cmds : CmdComplete(c)
            BY <1>11 DEF Completes
      <2>2. /\ cmds' = cmds \ {c} /\ UNCHANGED <<mIsActive, mBufferHeader, starts>>
            /\ state' = IF c[1] = "state" THEN c[2] ELSE state
            /\ bEnabled' = IF c[1] \in {"enable", "disable"}
                           THEN [bEnabled EXCEPT ![c[2]] = (c[1] = "enable")] ELSE bEnabled
            BY <2>1 DEF CmdComplete, control
      <2>3. /\ c[1] = "state" => c[2] \in {"Loaded", "Idle", "Executing"}
            /\ c[1] \in {"enable", "disable"} => c[2] \in Ports
            BY <1>2 DEF Commands
      <2>4. bEnabled' \in [Ports -> BOOLEAN]
            <3>1. bEnabled \in [Ports -> BOOLEAN]
                  BY DEF PortTypes
            <3> DEFINE v == (c[1] = "enable")
            <3>2. v \in BOOLEAN
                  OBVIOUS
            <3>3. bEnabled' = bEnabled \/ bEnabled' = [bEnabled EXCEPT ![c[2]] = v]
                  BY <2>2
            <3> HIDE DEF v
            <3> QED
                  BY <3>1, <3>2, <3>3
      <2>5. state' \in {"Loaded", "Idle", "Executing"}
            BY <2>2, <2>3 DEF PortTypes
      <2> QED
            BY <2>2, <2>4, <2>5 DEF PortTypes
<1>12. CASE [FrameThreadStep \/ ReturnStep \/ Fills]_vars
      <2>1. UNCHANGED <<mIsActive, mBufferHeader, bEnabled, state, cmds, starts>>
            BY <1>12, FramesApart DEF agreement
      <2> QED
            BY <1>1, <1>2, <2>1
<1>13. CASE ExtractNode
      BY <1>1, <1>2, <1>13 DEF ExtractNode, control
<1> QED
      BY <1>3, <1>4, <1>5, <1>6, <1>7, <1>9, <1>10, <1>11, <1>12, <1>13
      DEF Next, ControlCall, ControlStep, WaitEvent

\* A node is registered, of either kind, or lost.
LEMMA SendFacts ==
    ASSUME EventTypes, NEW c, NEW s, <<c, s>> \in WaitNodes, SendAndRegister(c, s)
    PROVE  /\ mEventSignalQ' \in Seq(WaitNodes)
           /\ extracting' \in 0..Len(mEventSignalQ') /\ lostNode' \in BOOLEAN
           /\ s # "sem" => \A i \in StackNodes' : i \in StackNodes
           /\ s = "sem" /\ StackNodes = {} =>
                 /\ \A i, j \in StackNodes' : i = j
                 /\ \A i \in StackNodes' : mEventSignalQ'[i][1] = c
<1> DEFINE q == mEventSignalQ
           n == Len(q) + 1
<1>1. /\ q \in Seq(WaitNodes) /\ Len(q) \in Nat /\ DOMAIN q = 1..Len(q)
      /\ extracting \in 0..Len(q) /\ lostNode \in BOOLEAN
      BY LenProperties DEF EventTypes
<1>2. /\ extracting' = extracting /\ lostNode' \in BOOLEAN
      /\ mEventSignalQ' = Append(mEventSignalQ, <<c, s>>) \/ mEventSignalQ' = mEventSignalQ
      BY <1>1 DEF SendAndRegister, Register
<1>3. CASE mEventSignalQ' = mEventSignalQ
      <2>1. StackNodes' = StackNodes
            BY <1>2, <1>3 DEF StackNodes
      <2> QED
            BY <1>1, <1>2, <1>3, <2>1
<1>4. CASE mEventSignalQ' = Append(mEventSignalQ, <<c, s>>)
      <2>1. /\ q' \in Seq(WaitNodes) /\ Len(q') = n
            /\ \A i \in 1..Len(q) : q'[i] = q[i]
            /\ q'[n] = <<c, s>>
            BY <1>1, <1>4, AppendProperties
      <2>2. DOMAIN q' = 1..n
            BY <2>1, LenProperties
      <2>3. \A i \in DOMAIN q' : i = n \/ (i \in DOMAIN q /\ q'[i] = q[i])
            BY <1>1, <2>1, <2>2
      <2>4. q'[n][1] = c /\ q'[n][2] = s
            BY <2>1
      <2>5. extracting' \in 0..Len(q')
            BY <1>1, <1>2, <2>1
      <2> HIDE DEF n
      <2>6. \A i \in StackNodes' : i \in StackNodes \/ (i = n /\ s = "sem")
            BY <1>2, <2>3, <2>4 DEF StackNodes, NodesOf
      <2> QED
            BY <1>2, <2>1, <2>4, <2>5, <2>6
<1> QED
      BY <1>2, <1>3, <1>4

\* A node is taken off a list: those that wait for the semaphore on the stack were
\* there before, and the one that is being extracted is still another.
LEMMA RemoveFacts ==
    ASSUME NEW q \in Seq(WaitNodes), NEW i \in DOMAIN q, NEW e \in 0..Len(q), NEW f,
           f \in 0..(Len(q) - 1), i = e \/ f = IF i < e THEN e - 1 ELSE e
    PROVE  /\ RemoveAt(q, i) \in Seq(WaitNodes) /\ f \in 0..Len(RemoveAt(q, i))
           /\ \A j \in NodesOf(RemoveAt(q, i), f) :
                 \E k \in NodesOf(q, e) : RemoveAt(q, i)[j] = q[k]
           /\ (\A j, k \in NodesOf(q, e) : j = k)
                 => \A j, k \in NodesOf(RemoveAt(q, i), f) : j = k
<1> DEFINE r == RemoveAt(q, i)
           g(j) == IF j < i THEN j ELSE j + 1
<1>1. Len(q) \in Nat /\ DOMAIN q = 1..Len(q) /\ i \in 1..Len(q)
      BY LenProperties
<1>2. /\ r \in Seq(WaitNodes) /\ Len(r) = Len(q) - 1
      /\ \A j \in DOMAIN r : r[j] = q[g(j)]
      BY RemoveAtFacts
<1> HIDE DEF r
<1>3. DOMAIN r = 1..(Len(q) - 1)
      BY <1>2, LenProperties
<1>4. ASSUME NEW j \in NodesOf(r, f)
      PROVE  g(j) \in NodesOf(q, e) /\ r[j] = q[g(j)]
      <2>1. j \in DOMAIN r /\ j # f /\ r[j][2] = "sem" /\ r[j] = q[g(j)]
            BY <1>2 DEF NodesOf
      <2>2. j \in 1..(Len(q) - 1)
            BY <1>3, <2>1
      <2>3. g(j) \in DOMAIN q /\ g(j) # e
            BY <1>1, <2>1, <2>2
      <2> HIDE DEF g
      <2> QED
            BY <2>1, <2>3 DEF NodesOf
<1>5. ASSUME \A j, k \in NodesOf(q, e) : j = k
      PROVE  \A j, k \in NodesOf(r, f) : j = k
      <2> SUFFICES ASSUME NEW j \in NodesOf(r, f), NEW k \in NodesOf(r, f)
                   PROVE  j = k
            OBVIOUS
      <2>1. g(j) = g(k)
            BY <1>4, <1>5
      <2>2. j \in Int /\ k \in Int /\ i \in Int
            BY <1>1, <1>3 DEF NodesOf
      <2> QED
            BY <2>1, <2>2
<1>6. \A j \in NodesOf(r, f) : \E k \in NodesOf(q, e) : r[j] = q[k]
      BY <1>4
<1>7. f \in 0..Len(r)
      BY <1>2
<1> QED
      BY <1>2, <1>5, <1>6, <1>7 DEF r

\* EventHandler: the node that it signals may be the one of the call that waits with a
\* semaphore on its stack.
LEMMA HandlerFacts ==
    ASSUME EventTypes, NEW c, EventHandler(c), extracting = 0
    PROVE  /\ mEventSignalQ' = mEventSignalQ /\ extracting' \in 0..Len(mEventSignalQ)
           /\ mGreLocalSem' \in Nat /\ lostNode' = lostNode
           /\ \A j \in StackNodes' : j \in StackNodes
           /\ \/ sem' = sem
              \/ /\ StackNodes' = {} /\ sem = 0 /\ sem' = 1
                 /\ \E i \in StackNodes : mEventSignalQ[i][1] = c
<1> DEFINE q == mEventSignalQ
<1>1. /\ q \in Seq(WaitNodes) /\ mGreLocalSem \in Nat /\ \A i, j \in StackNodes : i = j
      /\ StackNodes # {} => sem = 0
      BY DEF EventTypes
<1>2. Len(q) \in Nat /\ DOMAIN q = 1..Len(q)
      BY <1>1, LenProperties
<1>3. CASE Waiting(c) = {}
      <2>1. UNCHANGED <<mEventSignalQ, extracting, mGreLocalSem, sem, lostNode>>
            BY <1>3 DEF EventHandler, events
      <2>2. StackNodes' = StackNodes
            BY <2>1 DEF StackNodes
      <2>3. extracting' \in 0..Len(q)
            BY <1>2, <2>1
      <2> QED
            BY <1>1, <2>1, <2>2, <2>3
<1>4. CASE Waiting(c) # {}
      <2> DEFINE w == Min(Waiting(c))
      <2>1. /\ q' = q /\ extracting' = w /\ lostNode' = lostNode
            /\ IF q[w][2] = "mGreLocalSem"
               THEN mGreLocalSem' = mGreLocalSem + 1 /\ UNCHANGED sem
               ELSE sem' = sem + 1 /\ UNCHANGED mGreLocalSem
            BY <1>4, Zenon DEF EventHandler
      <2>2. w \in Waiting(c)
            <3>1. Waiting(c) \in SUBSET Nat
                  BY <1>2 DEF Waiting
            <3> QED
                  BY <1>4, <3>1, LeastIn
      <2> HIDE DEF w
      <2>3. w \in DOMAIN q /\ q[w][1] = c /\ q[w] \in WaitNodes
            BY <1>1, <1>2, <2>2, ElementOfSeq DEF Waiting
      <2>4. w \in 0..Len(q) /\ w # 0
            BY <1>2, <2>3
      <2>5. /\ \A j \in StackNodes' : j \in StackNodes /\ j # w
            /\ q[w][2] = "sem" => w \in StackNodes
            BY <1>2, <2>1, <2>3, <2>4 DEF StackNodes, NodesOf
      <2>6. CASE q[w][2] = "mGreLocalSem"
            BY <1>1, <2>1, <2>4, <2>5, <2>6
      <2>7. CASE q[w][2] # "mGreLocalSem"
            <3>1. w \in StackNodes
                  BY <2>3, <2>5, <2>7 DEF WaitNodes
            <3>2. StackNodes' = {}
                  BY <1>1, <2>5, <3>1
            <3>3. sem = 0 /\ sem' = 1 /\ mGreLocalSem' = mGreLocalSem
                  BY <1>1, <2>1, <2>7, <3>1
            <3> QED
                  BY <1>1, <2>1, <2>3, <2>4, <2>5, <3>1, <3>2, <3>3
      <2> QED
            BY <2>6, <2>7
<1> QED
      BY <1>3, <1>4

\* The component's thread extracts the node that it has signalled.
LEMMA ExtractFacts ==
    ASSUME EventTypes, ExtractNode
    PROVE  /\ mEventSignalQ' \in Seq(WaitNodes) /\ extracting' \in 0..Len(mEventSignalQ')
           /\ \A i, j \in StackNodes' : i = j
           /\ \A j \in StackNodes' : \E i \in StackNodes : mEventSignalQ'[j] = mEventSignalQ[i]
<1> DEFINE q == mEventSignalQ
<1>1. /\ q \in Seq(WaitNodes) /\ extracting \in 0..Len(q) /\ extracting # 0
      /\ \A i, j \in StackNodes : i = j
      BY DEF EventTypes, ExtractNode
<1>2. q' = RemoveAt(q, extracting) /\ extracting' = 0
      BY DEF ExtractNode
<1>3. extracting \in DOMAIN q /\ 0 \in 0..(Len(q) - 1)
      <2>1. DOMAIN q = 1..Len(q) /\ Len(q) \in Nat
            BY <1>1, LenProperties
      <2> QED
            BY <1>1, <2>1
<1> DEFINE r == RemoveAt(q, extracting)
<1>4. /\ r \in Seq(WaitNodes) /\ 0 \in 0..Len(r)
      /\ \A j \in NodesOf(r, 0) : \E k \in NodesOf(q, extracting) : r[j] = q[k]
      /\ (\A j, k \in NodesOf(q, extracting) : j = k) => \A j, k \in NodesOf(r, 0) : j = k
      BY <1>1, <1>3, RemoveFacts
<1>5. StackNodes' = NodesOf(q', 0) /\ StackNodes = NodesOf(q, extracting)
      BY <1>2 DEF StackNodes
<1> QED
      BY <1>1, <1>2, <1>4, <1>5

\* The control thread registers a wait for a port and unregisters it again.
LEMMA UnregisterFacts ==
    ASSUME EventTypes, NEW p \in Ports, Unregister(p)
    PROVE  /\ mEventSignalQ' \in Seq(WaitNodes) /\ extracting' \in 0..Len(mEventSignalQ')
           /\ mGreLocalSem' \in Nat /\ lostNode' \in BOOLEAN
           /\ \A i, j \in StackNodes' : i = j
           /\ \A j \in StackNodes' : \E i \in StackNodes : mEventSignalQ'[j] = mEventSignalQ[i]
<1> DEFINE q == mEventSignalQ
           node == <<<<"enable", p>>, "mGreLocalSem">>
           w == Min(Waiting(node[1]) \cup {Len(mEventSignalQ) + 1})
           a == Append(q, node)
<1>1. /\ q \in Seq(WaitNodes) /\ extracting \in 0..Len(q) /\ mGreLocalSem \in Nat
      /\ lostNode \in BOOLEAN /\ \A i, j \in StackNodes : i = j
      BY DEF EventTypes
<1>2. Len(q) \in Nat /\ DOMAIN q = 1..Len(q)
      BY <1>1, LenProperties
<1>3. \/ /\ q' = RemoveAt(a, w)
         /\ extracting' = IF w <= extracting THEN extracting - 1 ELSE extracting
         /\ mGreLocalSem' = mGreLocalSem + 1 /\ UNCHANGED lostNode
      \/ lostNode' = TRUE /\ UNCHANGED <<mEventSignalQ, extracting, mGreLocalSem>>
      BY DEF Unregister
<1>4. CASE lostNode' = TRUE /\ UNCHANGED <<mEventSignalQ, extracting, mGreLocalSem>>
      <2>1. StackNodes' = StackNodes
            BY <1>4 DEF StackNodes
      <2> QED
            BY <1>1, <1>4, <2>1
<1>5. CASE /\ q' = RemoveAt(a, w)
           /\ extracting' = IF w <= extracting THEN extracting - 1 ELSE extracting
           /\ mGreLocalSem' = mGreLocalSem + 1 /\ UNCHANGED lostNode
      <2>1. node \in WaitNodes
            BY DEF WaitNodes, PortCommands
      <2>2. /\ a \in Seq(WaitNodes) /\ Len(a) = Len(q) + 1
            /\ \A i \in 1..Len(q) : a[i] = q[i]
            /\ a[Len(q) + 1] = node
            BY <1>1, <2>1, AppendProperties
      <2>3. w \in 1..(Len(q) + 1)
            <3> DEFINE W == Waiting(node[1]) \cup {Len(mEventSignalQ) + 1}
            <3>1. W \subseteq 1..(Len(q) + 1) /\ W # {}
                  BY <1>2 DEF Waiting
            <3>2. W \in SUBSET Nat
                  BY <1>2, <3>1
            <3> HIDE DEF W
            <3>3. Min(W) \in W
                  BY <3>1, <3>2, LeastIn
            <3> QED
                  BY <3>1, <3>3 DEF W
      <2> HIDE DEF w, a
      <2>4. DOMAIN a = 1..(Len(q) + 1)
            BY <2>2, LenProperties
      <2>5. node[2] # "sem"
            OBVIOUS
      <2> HIDE DEF node
      <2>6. NodesOf(a, extracting) = NodesOf(q, extracting)
            <3>1. \A i \in DOMAIN a : i = Len(q) + 1 \/ (i \in DOMAIN q /\ a[i] = q[i])
                  BY <1>2, <2>2, <2>4
            <3>2. \A i \in DOMAIN q : i \in DOMAIN a /\ a[i] = q[i]
                  BY <1>2, <2>2, <2>4
            <3> QED
                  BY <2>2, <2>5, <3>1, <3>2 DEF NodesOf
      <2> DEFINE f == IF w <= extracting THEN extracting - 1 ELSE extracting
      <2>7. /\ w \in DOMAIN a /\ extracting \in 0..Len(a) /\ f \in 0..(Len(a) - 1)
            /\ w = extracting \/ f = IF w < extracting THEN extracting - 1 ELSE extracting
            BY <1>1, <1>2, <2>2, <2>3, <2>4
      <2>8. extracting' = f /\ q' = RemoveAt(a, w)
            BY <1>5
      <2> DEFINE r == RemoveAt(a, w)
      <2> HIDE DEF f
      <2>9. /\ r \in Seq(WaitNodes) /\ f \in 0..Len(r)
            /\ \A j \in NodesOf(r, f) : \E k \in NodesOf(a, extracting) : r[j] = a[k]
            /\ (\A j, k \in NodesOf(a, extracting) : j = k) => \A j, k \in NodesOf(r, f) : j = k
            BY <2>2, <2>7, RemoveFacts
      <2>10. StackNodes' = NodesOf(r, f) /\ StackNodes = NodesOf(a, extracting)
            BY <2>6, <2>8 DEF StackNodes
      <2>11. \A k \in StackNodes : a[k] = q[k]
            BY <1>2, <2>2 DEF StackNodes, NodesOf
      <2>12. mGreLocalSem' \in Nat /\ lostNode' \in BOOLEAN
            BY <1>1, <1>5
      <2>13. q' = r /\ extracting' = f
            BY <2>8
      <2> HIDE DEF r
      <2> QED
            BY <1>1, <2>9, <2>10, <2>11, <2>12, <2>13
<1> QED
      BY <1>3, <1>4, <1>5

LEMMA StepEventTypes ==
    ASSUME ControlTypes, PortTypes, EventTypes, [Next]_vars
    PROVE  EventTypes'
<1> USE DEF events
<1>1. /\ mEventSignalQ \in Seq(WaitNodes) /\ mGreLocalSem \in Nat /\ sem \in 0..1
      /\ extracting \in 0..Len(mEventSignalQ) /\ lostNode \in BOOLEAN
      /\ \A i, j \in StackNodes : i = j
      /\ pc \notin StackPcs => StackNodes = {} /\ sem = 0
      BY DEF EventTypes
<1>2. ASSUME UNCHANGED events, pc' = pc \/ pc \notin StackPcs
      PROVE  EventTypes'
      <2>1. StackNodes' = StackNodes
            BY <1>2 DEF StackNodes
      <2> QED
            BY <1>1, <1>2, <2>1 DEF EventTypes
<1>3. ASSUME NEW c \in StackCommands, pc \notin StackPcs, SendAndRegister(c, "sem"),
             sem' = 0, mGreLocalSem' = mGreLocalSem, pc' \in StackPcs
      PROVE  EventTypes'
      <2>1. <<c, "sem">> \in WaitNodes
            BY DEF WaitNodes
      <2>2. /\ mEventSignalQ' \in Seq(WaitNodes) /\ \A i, j \in StackNodes' : i = j
            /\ extracting' \in 0..Len(mEventSignalQ') /\ lostNode' \in BOOLEAN
            BY <1>1, <1>3, <2>1, SendFacts
      <2> QED
            BY <1>1, <1>3, <2>2 DEF EventTypes
<1>4. ASSUME NEW c \in PortCommands, pc \notin StackPcs, SendAndRegister(c, "mGreLocalSem"),
             UNCHANGED <<sem, mGreLocalSem>>
      PROVE  EventTypes'
      <2>1. <<c, "mGreLocalSem">> \in WaitNodes
            BY DEF WaitNodes
      <2>2. /\ mEventSignalQ' \in Seq(WaitNodes) /\ \A i \in StackNodes' : i \in StackNodes
            /\ extracting' \in 0..Len(mEventSignalQ') /\ lostNode' \in BOOLEAN
            BY <1>4, <2>1, SendFacts
      <2> QED
            BY <1>1, <1>4, <2>2 DEF EventTypes
<1>5. CASE useBuffers \/ releaseBuffers \/ startPreview \/ StopEnds
      <2>1. pc \notin StackPcs
            BY <1>5 DEF useBuffers, releaseBuffers, startPreview, StopEnds, StackPcs
      <2>2. \/ UNCHANGED events
            \/ \E t \in {"Loaded", "Idle", "Executing"} :
                  /\ SendAndRegister(<<"state", t>>, "sem") /\ sem' = 0
                  /\ mGreLocalSem' = mGreLocalSem /\ pc' \in StackPcs
            BY <1>5 DEF useBuffers, releaseBuffers, startPreview, StopEnds, transitToState,
                        StackPcs
      <2>3. \A t \in {"Loaded", "Idle", "Executing"} : <<"state", t>> \in StackCommands
            BY DEF StackCommands
      <2> QED
            BY <1>2, <1>3, <2>1, <2>2, <2>3
<1>6. CASE stopPreview \/ deinit \/ StartLocked \/ StartEnds \/ FlushEnds \/ freePortBuffers
           \/ Join
      <2>1. UNCHANGED events /\ pc \notin StackPcs
            BY <1>6 DEF stopPreview, deinit, StartLocked, StartEnds, FlushEnds,
                        freePortBuffers, Join, StackPcs
      <2> QED
            BY <1>2, <2>1
<1>7. CASE flushBuffers
      <2>1. /\ pc = "flush" /\ todo # {} /\ SendAndRegister(<<"flush", Cur>>, "sem")
            /\ sem' = 0 /\ pc' = "flushWait" /\ mGreLocalSem' = mGreLocalSem
            BY <1>7 DEF flushBuffers, Cur
      <2>2. Cur \in Ports
            BY <2>1, CurIn DEF ControlTypes
      <2>3. <<"flush", Cur>> \in StackCommands
            BY <2>2 DEF StackCommands
      <2> QED
            BY <1>3, <2>1, <2>3 DEF StackPcs
<1>8. CASE WaitState \/ WaitFlush
      <2>1. /\ sem > 0 /\ sem' = sem - 1 /\ UNCHANGED <<mEventSignalQ, extracting, lostNode, mGreLocalSem>>
            BY <1>8 DEF WaitState, WaitFlush, WaitSem
      <2>2. sem = 1 /\ sem' = 0
            BY <1>1, <2>1
      <2>3. StackNodes = {} /\ StackNodes' = StackNodes
            BY <2>1, <2>2 DEF EventTypes, StackNodes
      <2> QED
            BY <1>1, <2>1, <2>2, <2>3 DEF EventTypes
<1>9. CASE WaitEnabled \/ WaitDisabled
      <2>1. /\ pc \notin StackPcs /\ mGreLocalSem > 0 /\ mGreLocalSem' = mGreLocalSem - 1
            /\ UNCHANGED <<mEventSignalQ, extracting, lostNode, sem>>
            BY <1>9 DEF WaitEnabled, WaitDisabled, WaitPort, StackPcs
      <2>2. mGreLocalSem' \in Nat /\ StackNodes' = StackNodes
            BY <1>1, <2>1 DEF StackNodes
      <2> QED
            BY <1>1, <2>1, <2>2 DEF EventTypes
<1>10. CASE EnablePort
      <2>1. pc = "enable" /\ pc \notin StackPcs
            BY <1>10 DEF EnablePort, StackPcs
      <2>2. PICK p \in Ports :
               \/ UNCHANGED events
               \/ /\ SendAndRegister(<<"enable", p>>, "mGreLocalSem")
                  /\ UNCHANGED <<sem, mGreLocalSem>>
               \/ Unregister(p) /\ UNCHANGED sem
            BY <1>10 DEF EnablePort, AlreadyDone, PopulatePort, PopulateFails
      <2>3. <<"enable", p>> \in PortCommands
            BY DEF PortCommands
      <2>4. ASSUME Unregister(p), UNCHANGED sem
            PROVE  EventTypes'
            <3>1. /\ mEventSignalQ' \in Seq(WaitNodes) /\ extracting' \in 0..Len(mEventSignalQ')
                  /\ mGreLocalSem' \in Nat /\ lostNode' \in BOOLEAN
                  /\ \A i, j \in StackNodes' : i = j
                  /\ \A j \in StackNodes' : \E i \in StackNodes :
                        mEventSignalQ'[j] = mEventSignalQ[i]
                  BY <2>4, UnregisterFacts
            <3>2. StackNodes' = {} /\ sem' = 0
                  BY <1>1, <2>1, <2>4, <3>1
            <3> QED
                  BY <3>1, <3>2 DEF EventTypes
      <2> QED
            BY <1>2, <1>4, <2>1, <2>2, <2>3, <2>4
<1>11. CASE DisablePort
      <2>1. pc = "disable" /\ pc \notin StackPcs
            BY <1>11 DEF DisablePort, StackPcs
      <2>2. PICK p \in Ports :
               \/ UNCHANGED events
               \/ /\ SendAndRegister(<<"disable", p>>, "mGreLocalSem")
                  /\ UNCHANGED <<sem, mGreLocalSem>>
            BY <1>11 DEF DisablePort, AlreadyDone
      <2>3. <<"disable", p>> \in PortCommands
            BY DEF PortCommands
      <2> QED
            BY <1>2, <1>4, <2>1, <2>2, <2>3
<1>12. CASE Completes
      <2>1. PICK c \in cmds : EventHandler(c) /\ extracting = 0 /\ pc' = pc
            BY <1>12 DEF Completes, CmdComplete, control
      <2>2. /\ mEventSignalQ' = mEventSignalQ /\ extracting' \in 0..Len(mEventSignalQ)
            /\ mGreLocalSem' \in Nat /\ lostNode' = lostNode
            /\ \A j \in StackNodes' : j \in StackNodes
            /\ \/ sem' = sem
               \/ /\ StackNodes' = {} /\ sem = 0 /\ sem' = 1
                  /\ \E i \in StackNodes : mEventSignalQ[i][1] = c
            BY <2>1, HandlerFacts
      <2>3. StackNodes # {} => sem = 0 /\ pc \in StackPcs
            BY DEF EventTypes
      <2>4. sem' \in 0..1 /\ (StackNodes' # {} => sem' = 0 /\ pc \in StackPcs)
            BY <1>1, <2>2, <2>3
      <2>5. sem' # 0 => pc \in StackPcs
            BY <1>1, <2>2, <2>3
      <2> QED
            BY <1>1, <2>1, <2>2, <2>4, <2>5 DEF EventTypes
<1>13. CASE ExtractNode
      <2>1. UNCHANGED <<pc, mGreLocalSem, sem, lostNode>>
            BY <1>13 DEF ExtractNode, control
      <2>2. /\ mEventSignalQ' \in Seq(WaitNodes) /\ extracting' \in 0..Len(mEventSignalQ')
            /\ \A i, j \in StackNodes' : i = j
            /\ \A j \in StackNodes' : \E i \in StackNodes : mEventSignalQ'[j] = mEventSignalQ[i]
            BY <1>13, ExtractFacts
      <2>3. /\ StackNodes' # {} => sem' = 0 /\ pc' \in StackPcs
            /\ sem' # 0 => pc' \in StackPcs
            BY <2>1, <2>2 DEF EventTypes
      <2> QED
            BY <1>1, <2>1, <2>2, <2>3 DEF EventTypes
<1>14. CASE [FrameThreadStep \/ ReturnStep \/ Fills]_vars
      <2>1. UNCHANGED events /\ pc' = pc
            BY <1>14, FramesApart DEF agreement
      <2> QED
            BY <1>2, <2>1
<1> QED
      BY <1>5, <1>6, <1>7, <1>8, <1>9, <1>10, <1>11, <1>12, <1>13, <1>14
      DEF Next, ControlCall, ControlStep, WaitEvent

\* queue_write and semaphore_post keep the semaphore within the queue.
LEMMA PostTypes ==
    ASSUME FrameTypes, NEW m \in Messages \cup {Exit}, PostFrameThread(m)
    PROVE  FrameTypes'
<1> DEFINE q == mFrameMessageQ
<1>1. /\ q \in Seq(Messages \cup {Exit}) /\ mFrameSem \in -1..Len(q)
      BY DEF FrameTypes
<1>2. /\ q' = Append(q, m) /\ UNCHANGED <<fpc, msg>>
      /\ mFrameSem' \in {mFrameSem, mFrameSem + 1}
      BY DEF PostFrameThread
<1>3. q' \in Seq(Messages \cup {Exit}) /\ Len(q') = Len(q) + 1 /\ Len(q) \in Nat
      BY <1>1, <1>2, AppendProperties, LenProperties
<1>4. mFrameSem' \in -1..Len(q')
      BY <1>1, <1>2, <1>3
<1> QED
      BY <1>2, <1>3, <1>4 DEF FrameTypes

\* A filled buffer has a header, which goes into the message.
LEMMA FilledMessage ==
    ASSUME ControlTypes, PortTypes, BufferTypes, NEW x \in held
    PROVE  <<x[1], x[2], mBufferHeader[x[1]][x[2]]>> \in Messages
<1>1. x \in Buffers /\ mBufferHeader[x[1]][x[2]] # 0
      BY DEF BufferTypes
<1>2. x[1] \in Ports /\ x[2] \in Bufs
      BY <1>1 DEF Buffers
<1>3. mBufferHeader[x[1]][x[2]] \in 0..MaxStarts
      BY <1>2 DEF PortTypes
<1>4. MaxStarts \in Nat
      BY CameraAssumption
<1>5. mBufferHeader[x[1]][x[2]] \in 1..MaxStarts
      BY <1>1, <1>3, <1>4
<1> QED
      BY <1>2, <1>5 DEF Messages

\* Only these steps touch the frame thread and its queue.
LEMMA FrameSteps ==
    ASSUME [Next]_vars
    PROVE  UNCHANGED frameThread \/ deinit \/ FrameThreadStep \/ Fills
<1>1. CASE ControlCall
      BY <1>1 DEF ControlCall, useBuffers, startPreview, stopPreview, releaseBuffers
<1>2. CASE WaitEvent
      BY <1>2 DEF WaitEvent, WaitState, WaitFlush, WaitSem, WaitEnabled, WaitDisabled, WaitPort
<1>3. CASE EnablePort \/ DisablePort
      BY <1>3 DEF EnablePort, DisablePort, AlreadyDone
<1>4. CASE StartEnds \/ flushBuffers \/ FlushEnds \/ freePortBuffers \/ StopEnds \/ Join
           \/ StartLocked
      BY <1>4 DEF StartEnds, flushBuffers, FlushEnds, freePortBuffers, StopEnds, Join,
                  StartLocked
<1>5. CASE Completes \/ ReturnStep
      BY <1>5 DEF Completes, CmdComplete, ReturnStep, returnFrame, FillThisBuffer
<1>6. CASE ExtractNode \/ UNCHANGED vars
      BY <1>6 DEF ExtractNode, vars
<1> QED
      BY <1>1, <1>2, <1>3, <1>4, <1>5, <1>6 DEF Next, ControlStep

\* Exit is not a message of a buffer.
LEMMA ExitApart == Exit \notin Messages
BY DEF Exit, Messages

LEMMA StepFrameTypes ==
    ASSUME ControlTypes, PortTypes, FrameTypes, BufferTypes, [Next]_vars
    PROVE  FrameTypes'
<1> DEFINE q == mFrameMessageQ
<1>1. /\ q \in Seq(Messages \cup {Exit}) /\ mFrameSem \in -1..Len(q) /\ Len(q) \in Nat
      BY LenProperties DEF FrameTypes
<1>2. CASE UNCHANGED frameThread
      BY <1>2 DEF frameThread, FrameTypes
<1>3. CASE deinit
      BY <1>3, PostTypes DEF deinit
<1>4. CASE FrameThreadStarts
      <2>1. fpc' = "wait" /\ mFrameSem' = 0 /\ UNCHANGED <<msg, mFrameMessageQ>>
            BY <1>4 DEF FrameThreadStarts
      <2>2. 0 \in -1..Len(q)
            BY <1>1
      <2> QED
            BY <2>1, <2>2 DEF FrameTypes
<1>5. CASE ReadMessage
      <2>1. /\ q # << >> /\ mFrameSem > 0 /\ mFrameSem' = mFrameSem - 1 /\ q' = Tail(q)
            /\ msg' = IF Head(q) = Exit \/ mFlushInProcess THEN None ELSE Head(q)
            /\ fpc' = IF Head(q) = Exit THEN "exited"
                      ELSE IF mFlushInProcess THEN "wait" ELSE "received"
            BY <1>5 DEF ReadMessage
      <2>2. /\ Head(q) \in Messages \cup {Exit} /\ q' \in Seq(Messages \cup {Exit})
            /\ Len(q') = Len(q) - 1
            BY <1>1, <2>1, HeadTailProperties
      <2>3. mFrameSem' \in -1..Len(q')
            BY <1>1, <2>1, <2>2
      <2>4. /\ fpc' \in {"exited", "wait", "received"} /\ msg' \in Messages \cup {None}
            /\ fpc' = "received" => msg' \in Messages
            BY <2>1, <2>2
      <2> QED
            BY <2>2, <2>3, <2>4 DEF FrameTypes
<1>6. CASE FrameReceivedFunc
      <2>1. UNCHANGED <<mFrameMessageQ, mFrameSem>> /\ fpc = "received"
            BY <1>6 DEF FrameReceivedFunc
      <2>2. msg \in Messages
            BY <2>1 DEF FrameTypes
      <2>3. FoundFrames(msg) \subseteq Buffers
            BY <2>2 DEF FoundFrames, Buffers, Messages
      <2>4. \/ \E x \in FoundFrames(msg) : msg' = <<x[1], x[2], msg[3]>> /\ fpc' = "callback"
            \/ msg' = None /\ fpc' = "wait"
            BY <1>6 DEF FrameReceivedFunc
      <2>5. \A x \in Buffers : <<x[1], x[2], msg[3]>> \in Messages
            BY <2>2 DEF Messages, Buffers
      <2>6. /\ fpc' \in {"wait", "callback"} /\ msg' \in Messages \cup {None}
            /\ fpc' = "callback" => msg' \in Messages
            BY <2>3, <2>4, <2>5
      <2> QED
            BY <2>1, <2>6 DEF FrameTypes
<1>7. CASE FrameCallback
      <2>1. UNCHANGED <<mFrameMessageQ, mFrameSem>> /\ fpc' = "wait" /\ msg' = None
            BY <1>7 DEF FrameCallback
      <2> QED
            BY <2>1 DEF FrameTypes
<1>8. CASE Fills
      <2>1. PICK x \in held : PostFrameThread(<<x[1], x[2], mBufferHeader[x[1]][x[2]]>>)
            BY <1>8 DEF Fills, FillBufferDone
      <2> QED
            BY <2>1, FilledMessage, PostTypes
<1> QED
      BY <1>2, <1>3, <1>4, <1>5, <1>6, <1>7, <1>8, FrameSteps DEF FrameThreadStep

LEMMA StepBufferTypes ==
    ASSUME ControlTypes, PortTypes, FrameTypes, BufferTypes, [Next]_vars
    PROVE  BufferTypes'
<1> USE DEF clientFrames, component, ports
<1>1. /\ held \subseteq Buffers /\ frames \subseteq Buffers /\ returning \subseteq frames
      /\ \A x \in held : x[1] \in Ports /\ x[2] \in Bufs /\ mBufferHeader[x[1]][x[2]] # 0
      BY DEF BufferTypes, Buffers
<1>2. ASSUME UNCHANGED <<held, frames, returning, mBufferHeader>>
      PROVE  BufferTypes'
      BY <1>2 DEF BufferTypes
<1>3. CASE ControlCall
      BY <1>2, <1>3 DEF ControlCall, useBuffers, startPreview, stopPreview, releaseBuffers,
                        deinit, transitToState
<1>4. CASE WaitEvent
      BY <1>2, <1>4 DEF WaitEvent, WaitState, WaitFlush, WaitSem, WaitEnabled, WaitDisabled,
                        WaitPort
<1>5. CASE flushBuffers \/ FlushEnds \/ StopEnds \/ Join \/ StartLocked \/ Completes
      BY <1>2, <1>5 DEF flushBuffers, FlushEnds, StopEnds, Join, StartLocked, transitToState,
                        Completes, CmdComplete
<1>6. CASE DisablePort
      BY <1>2, <1>6 DEF DisablePort, AlreadyDone
<1>7. CASE EnablePort
      <2>1. UNCHANGED <<held, frames, returning>>
            BY <1>7 DEF EnablePort, AlreadyDone
      <2>2. PICK p \in Ports : /\ pc = "enable"
                               /\ \/ mBufferHeader' = mBufferHeader
                                  \/ PopulatePort(p) \/ \E n \in Bufs : PopulateFails(p, n)
            BY <1>7 DEF EnablePort, AlreadyDone
      <2>3. starts # 0
            <3>1. MaxStarts \in Nat
                  BY CameraAssumption
            <3>2. starts \in 0..MaxStarts /\ starts > 0
                  BY <2>2 DEF ControlTypes, Enabling
            <3> QED
                  BY <3>1, <3>2
      <2>4. ASSUME NEW y \in Ports, NEW b \in Bufs, mBufferHeader[y][b] # 0
            PROVE  mBufferHeader'[y][b] # 0
            <3>1. CASE PopulatePort(p)
                  BY <2>3, <2>4, <3>1 DEF PopulatePort, PortTypes
            <3>2. ASSUME NEW n \in Bufs, PopulateFails(p, n)
                  PROVE  mBufferHeader'[y][b] # 0
                  BY <2>3, <2>4, <3>2 DEF PopulateFails, PortTypes
            <3> QED
                  BY <2>2, <2>4, <3>1, <3>2
      <2> QED
            BY <1>1, <2>1, <2>4 DEF BufferTypes
<1>8. CASE StartEnds
      <2>1. /\ UNCHANGED <<frames, returning, mBufferHeader>>
            /\ \A x \in held' : x \in held \/ (x \in Buffers /\ mBufferHeader[x[1]][x[2]] # 0)
            BY <1>8 DEF StartEnds
      <2> QED
            BY <1>1, <2>1 DEF BufferTypes
<1>9. CASE freePortBuffers
      <2>1. /\ mBufferHeader' = [mBufferHeader EXCEPT ![Cur] = [b \in Bufs |-> 0]]
            /\ held' = {x \in held : x[1] # Cur} /\ UNCHANGED <<frames, returning>>
            BY <1>9 DEF freePortBuffers, Cur
      <2>2. \A x \in held' : mBufferHeader'[x[1]][x[2]] # 0
            BY <1>1, <2>1 DEF PortTypes
      <2> QED
            BY <1>1, <2>1, <2>2 DEF BufferTypes
<1>10. CASE FrameThreadStarts \/ ReadMessage \/ FrameReceivedFunc
      BY <1>2, <1>10 DEF FrameThreadStarts, ReadMessage, FrameReceivedFunc
<1>11. CASE FrameCallback
      <2>1. /\ fpc = "callback" /\ frames' = frames \cup {<<msg[1], msg[2]>>}
            /\ UNCHANGED <<held, returning, mBufferHeader>>
            BY <1>11 DEF FrameCallback
      <2>2. <<msg[1], msg[2]>> \in Buffers
            BY <2>1 DEF FrameTypes, Messages, Buffers
      <2> QED
            BY <1>1, <2>1, <2>2 DEF BufferTypes
<1>12. CASE ReturnStep
      <2>1. PICK x \in Buffers : returnFrame(x) \/ FillThisBuffer(x)
            BY <1>12 DEF ReturnStep
      <2>2. CASE returnFrame(x)
            BY <1>1, <2>2 DEF returnFrame, BufferTypes
      <2>3. CASE FillThisBuffer(x)
            <3>1. /\ frames' = frames \ {x} /\ returning' = returning \ {x}
                  /\ mBufferHeader' = mBufferHeader
                  /\ \A y \in held' : y \in held \/ (y = x /\ mBufferHeader[x[1]][x[2]] # 0)
                  BY <2>3 DEF FillThisBuffer
            <3> QED
                  BY <1>1, <3>1 DEF BufferTypes
      <2> QED
            BY <2>1, <2>2, <2>3
<1>13. CASE Fills
      <2>1. \A x \in held' : x \in held
            BY <1>13 DEF Fills, FillBufferDone
      <2>2. UNCHANGED <<frames, returning, mBufferHeader>>
            BY <1>13 DEF Fills, FillBufferDone
      <2> QED
            BY <1>1, <2>1, <2>2 DEF BufferTypes
<1>14. CASE ExtractNode \/ UNCHANGED vars
      BY <1>2, <1>14 DEF ExtractNode, vars
<1> QED
      BY <1>3, <1>4, <1>5, <1>6, <1>7, <1>8, <1>9, <1>10, <1>11, <1>12, <1>13, <1>14
      DEF Next, ControlStep, FrameThreadStep

CameraTypes ==
    /\ ControlTypes /\ FlagTypes /\ PortTypes /\ EventTypes /\ FrameTypes /\ BufferTypes

LEMMA InitCameraTypes == Init => CameraTypes
<1> SUFFICES ASSUME Init
             PROVE  CameraTypes
      OBVIOUS
<1>1. MaxStarts \in Nat /\ 0 \in 0..MaxStarts
      BY CameraAssumption
<1>2. ControlTypes
      BY <1>1 DEF Init, ControlTypes, Pcs, QuietPcs, PortPcs, Enabling
<1>3. FlagTypes
      BY DEF Init, FlagTypes
<1>4. PortTypes
      <2>1. [b \in Bufs |-> 0] \in [Bufs -> 0..MaxStarts]
            BY <1>1
      <2>2. mBufferHeader \in [Ports -> [Bufs -> 0..MaxStarts]]
            BY <2>1 DEF Init
      <2> QED
            BY <2>2 DEF Init, PortTypes
<1>5. EventTypes
      <2>1. << >> \in Seq(WaitNodes) /\ Len(<< >>) = 0 /\ StackNodes = {}
            BY EmptySeq DEF Init, StackNodes, NodesOf
      <2>2. extracting \in 0..Len(mEventSignalQ)
            <3>1. extracting = 0 /\ Len(mEventSignalQ) = 0
                  BY <2>1 DEF Init
            <3> QED
                  BY <3>1
      <2>3. lostNode \in BOOLEAN
            BY DEF Init
      <2> QED
            BY <2>1, <2>2, <2>3 DEF Init, EventTypes
<1>6. FrameTypes
      <2>1. << >> \in Seq(Messages \cup {Exit}) /\ Len(<< >>) = 0
            BY EmptySeq
      <2> QED
            BY <2>1 DEF Init, FrameTypes, NotCreated
<1>7. BufferTypes
      BY DEF Init, BufferTypes
<1> QED
      BY <1>2, <1>3, <1>4, <1>5, <1>6, <1>7 DEF CameraTypes

LEMMA StepCameraTypes == CameraTypes /\ [Next]_vars => CameraTypes'
BY StepControlTypes, StepFlagTypes, StepPortTypes, StepEventTypes, StepFrameTypes,
   StepBufferTypes DEF CameraTypes

\* TypeOK for any ports, buffers, requests and number of starts, whether or not
\* OMX_UseBuffer refuses a buffer: the waits on a stack semaphore get one post each, and
\* what the frame thread reads was written with a header.
THEOREM CameraTypeOK == Spec => []TypeOK
<1>1. CameraTypes => TypeOK
      <2> SUFFICES ASSUME CameraTypes
                   PROVE  TypeOK
            OBVIOUS
      <2>1. mEventSignalQ \in Seq(Commands \X {"mGreLocalSem", "sem"})
            <3>1. WaitNodes \subseteq Commands \X {"mGreLocalSem", "sem"}
                  BY DEF WaitNodes, Commands, StackCommands, PortCommands
            <3> QED
                  BY <3>1 DEF CameraTypes, EventTypes
      <2> QED
            BY <2>1 DEF TypeOK, CameraTypes, ControlTypes, FlagTypes, PortTypes, EventTypes,
                        FrameTypes, BufferTypes, Pcs, QuietPcs, PortPcs
<1>2. Spec => []CameraTypes
      BY InitCameraTypes, StepCameraTypes, PTL DEF Spec
<1> QED
      BY <1>1, <1>2, PTL

-----------------------------------------------------------------------------
(* Buffers, whether or not a start has failed.  First what holds of the      *)
(* component's state, of the ports and of the lock.                          *)

StatePcs == {"toIdle", "toExecuting", "toLoaded"}
Target == CASE pc = "toIdle" -> "Idle" [] pc = "toExecuting" -> "Executing"
            [] OTHER -> "Loaded"

\* A change of the component's state is under way only in the call that asked for it,
\* and the semaphore is posted when the component has got there.
StateWaits ==
    /\ pc \in StatePcs =>
          /\ \A i \in StackNodes : mEventSignalQ[i][1] = <<"state", Target>>
          /\ \A c \in cmds : c[1] = "state" => c[2] = Target
          /\ sem = 1 => state = Target /\ \A c \in cmds : c[1] # "state"
    /\ pc \notin StatePcs => \A c \in cmds : c[1] # "state"

LEMMA StepStateWaits ==
    ASSUME ControlTypes, PortTypes, EventTypes, StateWaits, [Next]_vars
    PROVE  StateWaits'
<1> USE DEF events, control
<1>1. ASSUME pc \notin StatePcs, pc' \notin StatePcs,
             \A c \in cmds' : c \in cmds \/ c[1] # "state"
      PROVE  StateWaits'
      BY <1>1 DEF StateWaits
<1>2. ASSUME pc \notin StatePcs \cup {"flushWait"}, NEW t, pc' \in StatePcs, Target' = t,
             SendAndRegister(<<"state", t>>, "sem"), sem' = 0,
             t \in {"Loaded", "Idle", "Executing"}
      PROVE  StateWaits'
      <2>1. StackNodes = {}
            BY <1>2 DEF EventTypes, StackPcs, StatePcs
      <2>2. <<<<"state", t>>, "sem">> \in WaitNodes
            BY <1>2 DEF WaitNodes, StackCommands
      <2>3. \A i \in StackNodes' : mEventSignalQ'[i][1] = <<"state", t>>
            BY <1>2, <2>1, <2>2, SendFacts
      <2>4. cmds' = cmds \cup {<<"state", t>>} /\ \A c \in cmds : c[1] # "state"
            BY <1>2 DEF SendAndRegister, StateWaits
      <2> QED
            BY <1>2, <2>3, <2>4 DEF StateWaits
<1>3. ASSUME UNCHANGED <<pc, cmds, mEventSignalQ, extracting, sem, state>>
      PROVE  StateWaits'
      <2>1. StackNodes' = StackNodes /\ Target' = Target
            BY <1>3 DEF StackNodes, Target
      <2> QED
            BY <1>3, <2>1 DEF StateWaits
<1>4. CASE useBuffers
      <2>1. /\ pc = "idle" /\ pc' = "toIdle" /\ sem' = 0
            /\ SendAndRegister(<<"state", "Idle">>, "sem")
            BY <1>4 DEF useBuffers, transitToState
      <2> QED
            BY <1>2, <2>1 DEF StatePcs, Target
<1>5. CASE releaseBuffers
      <2>1. /\ pc = "idle" /\ pc' = "toLoaded" /\ sem' = 0
            /\ SendAndRegister(<<"state", "Loaded">>, "sem")
            BY <1>5 DEF releaseBuffers, transitToState
      <2> QED
            BY <1>2, <2>1 DEF StatePcs, Target
<1>6. CASE startPreview
      <2>1. CASE state = "Idle"
            <3>1. /\ pc = "idle" /\ pc' = "toExecuting" /\ sem' = 0
                  /\ SendAndRegister(<<"state", "Executing">>, "sem")
                  BY <1>6, <2>1 DEF startPreview, transitToState
            <3> QED
                  BY <1>2, <3>1 DEF StatePcs, Target
      <2>2. CASE state # "Idle"
            <3>1. pc = "idle" /\ pc' = "startLock" /\ cmds' = cmds
                  BY <1>6, <2>2 DEF startPreview, component
            <3> QED
                  BY <1>1, <3>1 DEF StatePcs
      <2> QED
            BY <2>1, <2>2
<1>7. CASE StopEnds
      <2>1. CASE pc' = "idle"
            <3>1. pc = "disable" /\ cmds' = cmds
                  BY <1>7, <2>1 DEF StopEnds, transitToState, component
            <3> QED
                  BY <1>1, <2>1, <3>1 DEF StatePcs
      <2>2. CASE pc' # "idle"
            <3>1. /\ pc = "disable" /\ pc' = "toIdle" /\ sem' = 0
                  /\ SendAndRegister(<<"state", "Idle">>, "sem")
                  BY <1>7, <2>2 DEF StopEnds, transitToState
            <3> QED
                  BY <1>2, <3>1 DEF StatePcs, Target
      <2> QED
            BY <2>1, <2>2
<1>8. CASE stopPreview \/ deinit \/ StartLocked \/ StartEnds \/ FlushEnds \/ freePortBuffers
           \/ Join \/ WaitFlush \/ WaitEnabled \/ WaitDisabled
      <2>1. /\ pc \notin StatePcs /\ pc' \notin StatePcs /\ cmds' \subseteq cmds
            BY <1>8 DEF stopPreview, deinit, StartLocked, StartEnds, FlushEnds,
                        freePortBuffers, Join, WaitFlush, WaitSem, WaitEnabled, WaitDisabled,
                        WaitPort, StatePcs, component
      <2> QED
            BY <1>1, <2>1
<1>9. CASE flushBuffers \/ EnablePort \/ DisablePort
      <2>1. pc \notin StatePcs /\ pc' \notin StatePcs
            BY <1>9 DEF flushBuffers, EnablePort, DisablePort, AlreadyDone, PopulatePort,
                        PopulateFails, StatePcs
      <2>2. \/ cmds' = cmds
            \/ \E p, d : cmds' = cmds \cup {<<d, p>>} /\ d \in {"flush", "enable", "disable"}
            BY <1>9 DEF flushBuffers, EnablePort, DisablePort, AlreadyDone, PopulatePort,
                        PopulateFails, SendAndRegister, component
      <2> QED
            BY <1>1, <2>1, <2>2
<1>10. CASE WaitState
      <2>1. /\ pc \in StatePcs /\ pc' \notin StatePcs /\ sem > 0 /\ cmds' = cmds
            BY <1>10 DEF WaitState, WaitSem, StatePcs, component
      <2>2. sem = 1
            BY <2>1 DEF EventTypes
      <2> QED
            BY <2>1, <2>2 DEF StateWaits
<1>11. CASE Completes
      <2>1. PICK c \in cmds : CmdComplete(c)
            BY <1>11 DEF Completes
      <2>2. /\ pc' = pc /\ cmds' = cmds \ {c} /\ EventHandler(c) /\ extracting = 0
            /\ state' = IF c[1] = "state" THEN c[2] ELSE state
            BY <2>1 DEF CmdComplete
      <2>3. CASE pc \notin StatePcs
            BY <1>1, <2>2, <2>3
      <2>4. CASE pc \in StatePcs
            <3>1. Target' = Target
                  BY <2>2 DEF Target
            <3>2. /\ \A j \in StackNodes' : \E i \in StackNodes : mEventSignalQ'[j] = mEventSignalQ[i]
                  /\ \/ sem' = sem
                     \/ sem = 0 /\ \E i \in StackNodes : mEventSignalQ[i][1] = c
                  BY <2>2, HandlerFacts
            <3>3. /\ \A i \in StackNodes : mEventSignalQ[i][1] = <<"state", Target>>
                  /\ \A d \in cmds : d[1] = "state" => d[2] = Target
                  /\ sem = 1 => state = Target /\ \A d \in cmds : d[1] # "state"
                  BY <2>4 DEF StateWaits
            <3>4. \A i \in StackNodes' : mEventSignalQ'[i][1] = <<"state", Target>>
                  BY <3>2, <3>3
            <3>5. CASE sem' = sem
                  <4>1. sem = 1 => state' = Target
                        BY <2>2, <3>3
                  <4> QED
                        BY <2>2, <3>1, <3>3, <3>4, <3>5, <4>1 DEF StateWaits
            <3>6. CASE \E i \in StackNodes : mEventSignalQ[i][1] = c
                  <4>1. c = <<"state", Target>>
                        BY <3>3, <3>6
                  <4>2. state' = Target
                        BY <2>2, <4>1
                  <4>3. \A d \in cmds : d[1] = "state" => d = c
                        <5>1. \A d \in cmds : d[1] = "state" => d = <<d[1], d[2]>>
                              BY DEF PortTypes, Commands
                        <5> QED
                              BY <3>3, <4>1, <5>1
                  <4>4. \A d \in cmds' : d[1] # "state"
                        BY <2>2, <4>3
                  <4> QED
                        BY <2>2, <3>1, <3>4, <4>2, <4>4 DEF StateWaits
            <3> QED
                  BY <3>2, <3>5, <3>6
      <2> QED
            BY <2>3, <2>4
<1>12. CASE [FrameThreadStep \/ ReturnStep \/ Fills]_vars
      BY <1>3, <1>12, FramesApart DEF agreement
<1>13. CASE ExtractNode
      <2>1. UNCHANGED <<pc, cmds, sem, state>> /\ Target' = Target
            BY <1>13 DEF ExtractNode, component, Target
      <2>2. \A j \in StackNodes' : \E i \in StackNodes : mEventSignalQ'[j] = mEventSignalQ[i]
            BY <1>13, ExtractFacts
      <2> QED
            BY <2>1, <2>2 DEF StateWaits
<1> QED
      BY <1>4, <1>5, <1>6, <1>7, <1>8, <1>9, <1>10, <1>11, <1>12, <1>13
      DEF Next, ControlCall, ControlStep, WaitEvent

\* The component executes while ports are started or stopped; without it no port is
\* active.  The frame descriptors are there from useBuffers to releaseBuffers.
NoneActive == \A p \in Ports : ~mIsActive[p]
Streaming == {"startLock", "enable", "enableWait", "flush", "flushWait", "disable", "free",
              "disableWait"}

StateFacts ==
    /\ pc \in Streaming => state = "Executing"
    /\ pc = "idle" /\ state # "Executing" => NoneActive
    /\ pc \in {"toIdle", "toLoaded", "join", "gone"} => NoneActive
    /\ pc \notin {"idle", "toLoaded", "join", "gone"} => mFrameDescriptors
    /\ pc = "idle" /\ state # "Loaded" => mFrameDescriptors

LEMMA StepStateFacts ==
    ASSUME EventTypes, StateWaits, StateFacts, [Next]_vars
    PROVE  StateFacts'
<1> USE DEF Streaming, ports, component, control, agreement
<1>1. ASSUME UNCHANGED mIsActive
      PROVE  NoneActive' = NoneActive
      BY <1>1 DEF NoneActive
<1>2. CASE useBuffers \/ releaseBuffers
      <2>1. /\ pc = "idle" /\ state \in {"Loaded", "Idle"} /\ UNCHANGED <<mIsActive, state>>
            /\ \/ pc' = "toIdle" /\ mFrameDescriptors' = TRUE
               \/ pc' = "toLoaded"
            BY <1>2 DEF useBuffers, releaseBuffers, transitToState
      <2> QED
            BY <1>1, <2>1 DEF StateFacts
<1>3. CASE startPreview \/ stopPreview
      <2>1. /\ pc = "idle" /\ state \in {"Idle", "Executing"}
            /\ UNCHANGED <<mIsActive, state, mFrameDescriptors>>
            /\ pc' \in {"toExecuting", "startLock", "flush"}
            /\ pc' # "toExecuting" => state = "Executing"
            BY <1>3 DEF startPreview, stopPreview, transitToState
      <2> QED
            BY <1>1, <2>1 DEF StateFacts
<1>4. CASE deinit \/ Join
      <2>1. /\ \/ pc = "idle" /\ state = "Loaded"
               \/ pc = "join"
            /\ UNCHANGED <<mIsActive, state, mFrameDescriptors>> /\ pc' \in {"join", "gone"}
            BY <1>4 DEF deinit, Join
      <2> QED
            BY <1>1, <2>1 DEF StateFacts
<1>5. CASE StartLocked \/ StartEnds \/ FlushEnds \/ freePortBuffers \/ flushBuffers
           \/ WaitFlush \/ WaitEnabled \/ WaitDisabled \/ EnablePort \/ DisablePort
      <2>1. /\ pc \in Streaming /\ pc' \in Streaming \cup {"idle"}
            /\ UNCHANGED <<state, mFrameDescriptors>>
            BY <1>5 DEF StartLocked, StartEnds, FlushEnds, freePortBuffers, flushBuffers,
                        WaitFlush, WaitSem, WaitEnabled, WaitDisabled, WaitPort, EnablePort,
                        DisablePort, AlreadyDone, PopulatePort, PopulateFails
      <2> QED
            BY <2>1 DEF StateFacts
<1>6. CASE StopEnds
      <2>1. /\ pc = "disable" /\ UNCHANGED <<mIsActive, state, mFrameDescriptors>>
            /\ \/ pc' = "toIdle" /\ NoneActive
               \/ pc' = "idle"
            BY <1>6 DEF StopEnds, transitToState, NoneActive
      <2> QED
            BY <1>1, <2>1 DEF StateFacts
<1>7. CASE WaitState
      <2>1. /\ \/ pc = "toIdle" /\ pc' = "idle"
               \/ pc = "toExecuting" /\ pc' = "startLock"
               \/ pc = "toLoaded" /\ pc' = "idle"
            /\ sem > 0 /\ UNCHANGED <<mIsActive, state, mFrameDescriptors>>
            BY <1>7 DEF WaitState, WaitSem
      <2>2. sem = 1
            BY <2>1 DEF EventTypes
      <2>3. state = Target
            BY <2>1, <2>2 DEF StateWaits, StatePcs
      <2> QED
            BY <1>1, <2>1, <2>3 DEF StateFacts, Target
<1>8. CASE Completes
      <2>1. PICK c \in cmds : CmdComplete(c)
            BY <1>8 DEF Completes
      <2>2. /\ UNCHANGED <<pc, mIsActive, mFrameDescriptors>>
            /\ c[1] # "state" => state' = state
            BY <2>1 DEF CmdComplete
      <2>3. pc \notin StatePcs => state' = state
            BY <2>2 DEF StateWaits
      <2> QED
            BY <1>1, <2>2, <2>3 DEF StateFacts, StatePcs
<1>9. CASE [FrameThreadStep \/ ReturnStep \/ Fills]_vars
      <2>1. UNCHANGED <<pc, mIsActive, state>>
            BY <1>9, FramesApart
      <2>2. UNCHANGED mFrameDescriptors
            BY <1>9 DEF FrameThreadStep, FrameThreadStarts, ReadMessage, FrameReceivedFunc,
                        FrameCallback, ReturnStep, returnFrame, FillThisBuffer, Fills,
                        FillBufferDone, vars
      <2> QED
            BY <1>1, <2>1, <2>2 DEF StateFacts
<1>10. CASE ExtractNode
      BY <1>1, <1>10 DEF ExtractNode, StateFacts
<1> QED
      BY <1>2, <1>3, <1>4, <1>5, <1>6, <1>7, <1>8, <1>9, <1>10
      DEF Next, ControlCall, ControlStep, WaitEvent

\* A port that is active and not enabled has no header, and no port is active that
\* startPreview has still to enable.
PortFacts ==
    /\ \A p \in Ports : mIsActive[p] /\ ~bEnabled[p] => Cleared(p)
    /\ pc \in Enabling => todo \subseteq req /\ \A p \in todo : ~mIsActive[p]

LEMMA StepPortFacts ==
    ASSUME ControlTypes, PortTypes, PortFacts, [Next]_vars
    PROVE  PortFacts'
<1> USE DEF control, ports, component, agreement
<1>1. /\ mIsActive \in [Ports -> BOOLEAN] /\ bEnabled \in [Ports -> BOOLEAN]
      /\ mBufferHeader \in [Ports -> [Bufs -> 0..MaxStarts]] /\ cmds \subseteq Commands
      /\ todo \subseteq Ports
      BY DEF PortTypes, ControlTypes
<1>2. ASSUME UNCHANGED <<mIsActive, bEnabled, mBufferHeader>>,
             pc' \in Enabling => pc \in Enabling /\ UNCHANGED <<req, todo>>
      PROVE  PortFacts'
      BY <1>2 DEF PortFacts, Cleared
<1>3. CASE useBuffers \/ releaseBuffers \/ stopPreview \/ deinit \/ Join \/ StartLocked
           \/ StartEnds \/ flushBuffers \/ FlushEnds \/ StopEnds \/ WaitState \/ WaitFlush
      BY <1>2, <1>3
      DEF useBuffers, releaseBuffers, stopPreview, deinit, Join, StartLocked, StartEnds,
          flushBuffers, FlushEnds, StopEnds, WaitState, WaitFlush, WaitSem, transitToState,
          Enabling
<1>4. CASE startPreview
      <2>1. /\ UNCHANGED <<mIsActive, bEnabled, mBufferHeader>>
            /\ todo' = req' /\ \A p \in req' : ~mIsActive[p]
            BY <1>4 DEF startPreview, transitToState
      <2> QED
            BY <2>1 DEF PortFacts, Cleared
<1>5. ASSUME NEW p \in Ports, NEW on \in BOOLEAN, bEnabled[p] = on,
             UNCHANGED <<bEnabled, mBufferHeader, req>>,
             mIsActive' = [mIsActive EXCEPT ![p] = on], todo' = todo \ {p},
             pc' \in Enabling => pc \in Enabling
      PROVE  PortFacts'
      <2>1. ASSUME NEW q \in Ports, mIsActive'[q], ~bEnabled'[q]
            PROVE  Cleared(q)'
            <3>1. q # p /\ mIsActive[q] /\ ~bEnabled[q]
                  BY <1>1, <1>5, <2>1
            <3> QED
                  BY <1>5, <3>1 DEF PortFacts, Cleared
      <2>2. ASSUME pc' \in Enabling
            PROVE  todo' \subseteq req' /\ \A q \in todo' : ~mIsActive'[q]
            BY <1>1, <1>5, <2>2 DEF PortFacts
      <2> QED
            BY <2>1, <2>2 DEF PortFacts
<1>6. CASE WaitEnabled \/ WaitDisabled
      <2>1. /\ pc \in {"enableWait", "disableWait"}
            /\ pc' = IF pc = "enableWait" THEN "enable" ELSE "disable"
            /\ UNCHANGED <<bEnabled, mBufferHeader, req>> /\ todo' = todo \ {Cur}
            /\ mIsActive' = [mIsActive EXCEPT ![Cur] = bEnabled[Cur]]
            BY <1>6 DEF WaitEnabled, WaitDisabled, WaitPort, Cur
      <2>2. Cur \in Ports
            BY <2>1, CurIn DEF ControlTypes, PortPcs
      <2>3. bEnabled[Cur] \in BOOLEAN
            BY <1>1, <2>2
      <2>4. pc' \in Enabling => pc \in Enabling
            BY <2>1 DEF Enabling
      <2> QED
            BY <1>5, <2>1, <2>2, <2>3, <2>4
<1>7. CASE EnablePort
      <2>1. PICK p \in Ports :
               /\ pc = "enable" /\ todo # {} /\ p = Cur
               /\ \/ AlreadyDone(p, "enable", TRUE)
                  \/ /\ ~bEnabled[p] /\ UNCHANGED <<req, bEnabled>>
                     /\ PopulatePort(p) \/ \E n \in Bufs : PopulateFails(p, n)
            BY <1>7 DEF EnablePort, Cur
      <2>2. CASE AlreadyDone(p, "enable", TRUE)
            BY <1>5, <2>2 DEF AlreadyDone
      <2>3. CASE /\ ~bEnabled[p] /\ UNCHANGED <<req, bEnabled>>
                 /\ PopulatePort(p) \/ \E n \in Bufs : PopulateFails(p, n)
            <3>1. p \in todo /\ pc \in Enabling
                  BY <2>1, CurIn DEF ControlTypes, Enabling
            <3>2. /\ ~mIsActive[p] /\ todo \subseteq req /\ \A q \in todo : ~mIsActive[q]
                  BY <3>1 DEF PortFacts
            <3>3. /\ \A q \in Ports \ {p} : mBufferHeader'[q] = mBufferHeader[q]
                  /\ todo' \subseteq todo
                  /\ mIsActive' = mIsActive \/ mIsActive' = [mIsActive EXCEPT ![p] = bEnabled[p]]
                  BY <1>1, <2>3 DEF PopulatePort, PopulateFails
            <3>4. \A q \in Ports : mIsActive'[q] => mIsActive[q] /\ q # p
                  BY <1>1, <2>3, <3>2, <3>3
            <3>5. \A q \in Ports : mIsActive'[q] /\ ~bEnabled'[q] => Cleared(q)'
                  BY <2>3, <3>3, <3>4 DEF PortFacts, Cleared
            <3>6. todo' \subseteq req' /\ \A q \in todo' : ~mIsActive'[q]
                  BY <1>1, <2>3, <3>2, <3>3, <3>4
            <3> QED
                  BY <3>5, <3>6 DEF PortFacts
      <2> QED
            BY <2>1, <2>2, <2>3
<1>8. CASE DisablePort
      <2>1. PICK p \in Ports :
               \/ AlreadyDone(p, "disable", FALSE)
               \/ pc' = "free" /\ UNCHANGED <<mIsActive, bEnabled, mBufferHeader>>
            BY <1>8 DEF DisablePort
      <2>2. CASE AlreadyDone(p, "disable", FALSE)
            BY <1>5, <2>2 DEF AlreadyDone
      <2>3. CASE pc' = "free" /\ UNCHANGED <<mIsActive, bEnabled, mBufferHeader>>
            BY <1>2, <2>3 DEF Enabling
      <2> QED
            BY <2>1, <2>2, <2>3
<1>9. CASE freePortBuffers
      <2>1. /\ pc' = "disableWait" /\ UNCHANGED <<mIsActive, bEnabled>>
            /\ mBufferHeader' = [mBufferHeader EXCEPT ![Cur] = [b \in Bufs |-> 0]]
            BY <1>9 DEF freePortBuffers, Cur
      <2>2. \A q \in Ports : Cleared(q) => Cleared(q)'
            BY <1>1, <2>1 DEF Cleared
      <2> QED
            BY <2>1, <2>2 DEF PortFacts, Enabling
<1>10. CASE Completes
      <2>1. PICK c \in cmds : CmdComplete(c)
            BY <1>10 DEF Completes
      <2>2. /\ UNCHANGED <<pc, req, todo, mIsActive, mBufferHeader>> /\ Completable(c)
            /\ bEnabled' = IF c[1] \in {"enable", "disable"}
                           THEN [bEnabled EXCEPT ![c[2]] = (c[1] = "enable")] ELSE bEnabled
            BY <2>1 DEF CmdComplete
      <2>3. ASSUME NEW q \in Ports, mIsActive'[q], ~bEnabled'[q]
            PROVE  Cleared(q)'
            <3>1. CASE bEnabled'[q] = bEnabled[q]
                  BY <2>2, <2>3, <3>1 DEF PortFacts, Cleared
            <3>2. CASE c[1] = "disable" /\ c[2] = q
                  BY <2>2, <3>2 DEF Completable, Cleared
            <3>3. c[1] = "enable" /\ c[2] = q => bEnabled'[q]
                  BY <1>1, <2>2
            <3>4. c[1] \notin {"enable", "disable"} \/ c[2] # q => bEnabled'[q] = bEnabled[q]
                  BY <1>1, <2>2
            <3> QED
                  BY <2>3, <3>1, <3>2, <3>3, <3>4
      <2> QED
            BY <2>2, <2>3 DEF PortFacts
<1>11. CASE [FrameThreadStep \/ ReturnStep \/ Fills]_vars
      BY <1>2, <1>11, FramesApart
<1>12. CASE ExtractNode
      BY <1>2, <1>12 DEF ExtractNode
<1> QED
      BY <1>3, <1>4, <1>6, <1>7, <1>8, <1>9, <1>10, <1>11, <1>12
      DEF Next, ControlCall, ControlStep, WaitEvent

\* Who holds mFrameBufferLock.
LockFacts ==
    /\ mFrameBufferLock = FrameThread <=> fpc = "callback"
    /\ mFrameBufferLock = Client <=> pc \in {"enable", "enableWait"}

LEMMA StepLockFacts ==
    ASSUME LockFacts, [Next]_vars
    PROVE  LockFacts'
<1> USE DEF control, frameThread, LockFacts, Client, FrameThread
<1>1. CASE ControlCall
      BY <1>1 DEF ControlCall, useBuffers, startPreview, stopPreview, releaseBuffers, deinit,
                  PostFrameThread, transitToState
<1>2. CASE WaitEvent
      BY <1>2 DEF WaitEvent, WaitState, WaitFlush, WaitSem, WaitEnabled, WaitDisabled, WaitPort
<1>3. CASE EnablePort
      BY <1>3 DEF EnablePort, AlreadyDone, PopulatePort, PopulateFails
<1>4. CASE DisablePort
      BY <1>4 DEF DisablePort, AlreadyDone
<1>5. CASE StartEnds \/ flushBuffers \/ FlushEnds \/ freePortBuffers \/ Join \/ StartLocked
      BY <1>5 DEF StartEnds, flushBuffers, FlushEnds, freePortBuffers, Join, StartLocked
<1>6. CASE StopEnds
      BY <1>6 DEF StopEnds, transitToState
<1>7. CASE FrameThreadStep
      BY <1>7 DEF FrameThreadStep, FrameThreadStarts, ReadMessage, FrameReceivedFunc,
                  FrameCallback
<1>8. CASE ReturnStep \/ Completes \/ Fills
      BY <1>8 DEF ReturnStep, returnFrame, FillThisBuffer, Completes, CmdComplete, Fills,
                  FillBufferDone, PostFrameThread
<1>9. CASE ExtractNode \/ UNCHANGED vars
      BY <1>9 DEF ExtractNode, vars
<1> QED
      BY <1>1, <1>2, <1>3, <1>4, <1>5, <1>6, <1>7, <1>8, <1>9 DEF Next, ControlStep

-----------------------------------------------------------------------------
(* Buffers on their way.  A message is live while the header it names is the *)
(* one of its buffer; slot 0 is the message in the frame thread's hands, the *)
(* others are those of mFrameMessageQ.                                       *)

Slot(i) == IF i = 0 THEN msg ELSE mFrameMessageQ[i]
Slots == {i \in 0..Len(mFrameMessageQ) : IF i = 0 THEN fpc \in {"received", "callback"}
                                         ELSE mFrameMessageQ[i] # Exit}
Live(m) == mBufferHeader[m[1]][m[2]] = m[3]
At(m) == <<m[1], m[2]>>

\* startPreview was asked for port p; buffers of p may be under way.
Started(p) == pc \in Enabling /\ p \in req
Running(p) == mIsActive[p] /\ bEnabled[p] /\ ~Started(p)

\* A buffer has one owner: one live message, the component or the client.
SlotsApart ==
    \A i \in Slots : Live(Slot(i)) =>
        /\ Running(Slot(i)[1]) /\ At(Slot(i)) \notin held \cup frames
        /\ \A j \in Slots : Live(Slot(j)) /\ At(Slot(j)) = At(Slot(i)) => i = j
CallbackLive == fpc = "callback" => Live(msg)
HeldRuns == \A x \in held : Running(x[1]) /\ x \notin frames
FramesRun ==
    \A x \in frames : (mBufferHeader[x[1]][x[2]] # 0 => Running(x[1])) /\ ~Started(x[1])

\* The headers that a start makes are new: no message has one yet.
Stamps ==
    /\ \A i \in Slots : Slot(i)[3] <= starts
    /\ pc \in Enabling => \A i \in Slots : Slot(i)[3] < starts
    /\ pc \in Enabling =>
          \A p \in Ports, b \in Bufs : mBufferHeader[p][b] = starts => p \in req

Owned == SlotsApart /\ CallbackLive /\ HeldRuns /\ FramesRun /\ Stamps
Tokens == ~stale => Owned

\* A slot holds the message of a buffer.
LEMMA SlotTypes ==
    ASSUME FrameTypes
    PROVE  \A i \in Slots : Slot(i) \in Messages
<1> DEFINE q == mFrameMessageQ
<1>1. q \in Seq(Messages \cup {Exit}) /\ (fpc \in {"received", "callback"} => msg \in Messages)
      BY DEF FrameTypes
<1>2. Len(q) \in Nat
      BY <1>1, LenProperties
<1>3. \A i \in 1..Len(q) : q[i] \in Messages \cup {Exit}
      BY <1>1, ElementOfSeq
<1>4. ASSUME NEW i \in Slots
      PROVE  Slot(i) \in Messages
      <2>1. i \in 0..Len(q) /\ (i = 0 => msg \in Messages) /\ (i # 0 => q[i] # Exit)
            BY <1>1, <1>4 DEF Slots
      <2>2. i # 0 => i \in 1..Len(q)
            BY <1>2, <2>1
      <2> QED
            BY <1>3, <2>1, <2>2 DEF Slot
<1> QED
      BY <1>4

LEMMA SameSlots ==
    ASSUME UNCHANGED <<fpc, msg, mFrameMessageQ>>
    PROVE  Slots' = Slots /\ \A i : Slot(i)' = Slot(i)
BY DEF Slots, Slot

\* What a message says of its buffer.
LEMMA MessageParts ==
    ASSUME NEW m \in Messages
    PROVE  /\ m[1] \in Ports /\ m[2] \in Bufs /\ m[3] \in Nat /\ m[3] # 0
           /\ m = <<m[1], m[2], m[3]>> /\ At(m) \in Buffers
<1>1. MaxStarts \in Nat
      BY CameraAssumption
<1>2. m[1] \in Ports /\ m[2] \in Bufs /\ m[3] \in 1..MaxStarts /\ m = <<m[1], m[2], m[3]>>
      BY DEF Messages
<1>3. m[3] \in Nat /\ m[3] # 0
      BY <1>1, <1>2
<1> QED
      BY <1>2, <1>3 DEF At, Buffers

\* Slots and owners that become fewer stay apart, also when the queue moves up by d.
LEMMA TokensShrink ==
    ASSUME FrameTypes, FrameTypes', BufferTypes', SlotsApart, HeldRuns, NEW d \in {0, 1},
           \A i \in Slots' : i + d \in Slots /\ Slot(i)' = Slot(i + d),
           \A i \in Slots' : Live(Slot(i))' => Live(Slot(i + d)),
           held' \subseteq held, frames' \subseteq frames,
           \A p \in Ports : Running(p) /\ ~Cleared(p)' => Running(p)'
    PROVE  SlotsApart' /\ HeldRuns'
<1>1. \A i \in Slots' : i \in Int
      BY DEF Slots
<1>2. ASSUME NEW i \in Slots', Live(Slot(i))'
      PROVE  /\ Running(Slot(i)[1])' /\ At(Slot(i))' \notin held' \cup frames'
             /\ \A j \in Slots' : Live(Slot(j))' /\ At(Slot(j))' = At(Slot(i))' => i = j
      <2>1. i + d \in Slots /\ Slot(i)' = Slot(i + d) /\ Live(Slot(i + d))
            BY <1>2
      <2>2. /\ Running(Slot(i + d)[1]) /\ At(Slot(i + d)) \notin held \cup frames
            /\ \A j \in Slots : Live(Slot(j)) /\ At(Slot(j)) = At(Slot(i + d)) => i + d = j
            BY <2>1 DEF SlotsApart
      <2>3. PICK m \in Messages : m = Slot(i + d)
            BY <2>1, SlotTypes
      <2>4. m[1] \in Ports /\ m[2] \in Bufs /\ m[3] # 0
            BY MessageParts
      <2>5. mBufferHeader'[m[1]][m[2]] = m[3]
            BY <1>2, <2>1, <2>3 DEF Live
      <2>6. Running(m[1])'
            BY <2>2, <2>3, <2>4, <2>5 DEF Cleared
      <2>7. Running(Slot(i)[1])'
            BY <2>1, <2>3, <2>6 DEF Running, Started
      <2>8. At(Slot(i))' = At(Slot(i + d))
            BY <2>1 DEF At
      <2>9. ASSUME NEW j \in Slots', Live(Slot(j))', At(Slot(j))' = At(Slot(i))'
            PROVE  i = j
            <3>1. j + d \in Slots /\ Slot(j)' = Slot(j + d) /\ Live(Slot(j + d))
                  BY <2>9
            <3>2. At(Slot(j + d)) = At(Slot(i + d))
                  BY <2>8, <2>9, <3>1 DEF At
            <3>3. i + d = j + d
                  BY <2>2, <3>1, <3>2
            <3>4. i \in Int /\ j \in Int /\ d \in Int
                  BY <1>1
            <3> QED
                  BY <3>3, <3>4
      <2> QED
            BY <2>2, <2>7, <2>8, <2>9
<1>3. ASSUME NEW x \in held'
      PROVE  Running(x[1])' /\ x \notin frames'
      <2>1. x \in held /\ Running(x[1]) /\ x \notin frames
            BY <1>3 DEF HeldRuns
      <2>2. x[1] \in Ports /\ x[2] \in Bufs /\ mBufferHeader'[x[1]][x[2]] # 0
            BY <1>3 DEF BufferTypes, Buffers
      <2> QED
            BY <2>1, <2>2 DEF Cleared
<1> QED
      BY <1>2, <1>3 DEF SlotsApart, HeldRuns

\* A step that moves no buffer and changes no header.
LEMMA TokensKept ==
    ASSUME FrameTypes, FrameTypes', BufferTypes, BufferTypes', Tokens,
           UNCHANGED <<fpc, msg, mFrameMessageQ, held, mBufferHeader, starts, stale>>,
           frames' \subseteq frames,
           \A p \in Ports : Running(p) /\ ~Cleared(p) => Running(p)',
           pc' \in Enabling => pc \in Enabling /\ req' = req
    PROVE  Tokens'
<1> SUFFICES ASSUME ~stale
             PROVE  Owned'
      BY DEF Tokens
<1>1. SlotsApart /\ CallbackLive /\ HeldRuns /\ FramesRun /\ Stamps
      BY DEF Tokens, Owned
<1>2. Slots' = Slots /\ \A i : Slot(i)' = Slot(i)
      BY SameSlots
<1>3. \A p : Cleared(p)' = Cleared(p)
      BY DEF Cleared
<1>4. \A i : Live(Slot(i))' = Live(Slot(i))
      BY <1>2 DEF Live
<1>5. \A i \in Slots' : i + 0 = i
      BY DEF Slots
<1>6. SlotsApart' /\ HeldRuns'
      <2>1. /\ \A i \in Slots' : i + 0 \in Slots /\ Slot(i)' = Slot(i + 0)
            /\ \A i \in Slots' : Live(Slot(i))' => Live(Slot(i + 0))
            BY <1>2, <1>4, <1>5
      <2>2. \A p \in Ports : Running(p) /\ ~Cleared(p)' => Running(p)'
            BY <1>3
      <2> QED
            BY <1>1, <2>1, <2>2, TokensShrink
<1>7. CallbackLive'
      BY <1>1 DEF CallbackLive, Live
<1>8. FramesRun'
      <2>1. ASSUME NEW x \in frames'
            PROVE  (mBufferHeader'[x[1]][x[2]] # 0 => Running(x[1])') /\ ~Started(x[1])'
            <3>1. x \in frames /\ x[1] \in Ports /\ x[2] \in Bufs
                  BY <2>1 DEF BufferTypes, Buffers
            <3>2. (mBufferHeader[x[1]][x[2]] # 0 => Running(x[1])) /\ ~Started(x[1])
                  BY <1>1, <3>1 DEF FramesRun
            <3>3. ~Started(x[1])'
                  BY <3>2 DEF Started
            <3> QED
                  BY <3>1, <3>2, <3>3 DEF Cleared
      <2> QED
            BY <2>1 DEF FramesRun
<1>9. Stamps'
      BY <1>1, <1>2 DEF Stamps
<1> QED
      BY <1>6, <1>7, <1>8, <1>9 DEF Owned

-----------------------------------------------------------------------------
(* The steps that move no buffer.                                            *)

buffers == <<fpc, msg, mFrameMessageQ, held, mBufferHeader, starts, stale>>

LEMMA TokensSamePorts ==
    ASSUME FrameTypes, FrameTypes', BufferTypes, BufferTypes', Tokens, UNCHANGED buffers,
           frames' \subseteq frames, UNCHANGED <<mIsActive, bEnabled>>,
           pc' \in Enabling => pc \in Enabling /\ req' = req
    PROVE  Tokens'
<1>1. \A p \in Ports : Running(p) => Running(p)'
      BY DEF Running, Started
<1> QED
      BY <1>1, TokensKept DEF buffers

\* The port of a wait, or one that was found as asked for, becomes what it is.
LEMMA TokensPort ==
    ASSUME PortTypes, FrameTypes, FrameTypes', BufferTypes, BufferTypes', Tokens,
           UNCHANGED buffers, UNCHANGED <<frames, bEnabled>>, NEW p \in Ports,
           mIsActive' = [mIsActive EXCEPT ![p] = bEnabled[p]],
           pc' \in Enabling => pc \in Enabling /\ req' = req
    PROVE  Tokens'
<1>1. mIsActive \in [Ports -> BOOLEAN] /\ bEnabled \in [Ports -> BOOLEAN]
      BY DEF PortTypes
<1>2. ASSUME NEW q \in Ports, Running(q)
      PROVE  Running(q)'
      <2>1. mIsActive[q] /\ bEnabled[q] /\ ~Started(q)
            BY <1>2 DEF Running
      <2>2. mIsActive'[q]
            BY <1>1, <2>1
      <2> QED
            BY <2>1, <2>2 DEF Running, Started
<1> QED
      BY <1>2, TokensKept DEF buffers

LEMMA TokensControl ==
    ASSUME FrameTypes, FrameTypes', BufferTypes, BufferTypes', Tokens,
           \/ useBuffers \/ releaseBuffers \/ stopPreview \/ StartLocked \/ WaitState
           \/ WaitFlush \/ flushBuffers \/ FlushEnds \/ StopEnds \/ Join
    PROVE  Tokens'
<1> USE DEF buffers, ports, component, clientFrames, frameThread, history
<1>1. /\ UNCHANGED buffers /\ UNCHANGED <<frames, mIsActive, bEnabled>>
      /\ pc' \in Enabling => pc \in Enabling /\ req' = req
      <2>1. CASE useBuffers \/ releaseBuffers
            BY <2>1 DEF useBuffers, releaseBuffers, transitToState, Enabling
      <2>2. CASE stopPreview \/ StartLocked \/ FlushEnds \/ Join
            BY <2>2 DEF stopPreview, StartLocked, FlushEnds, Join, Enabling
      <2>3. CASE WaitState \/ WaitFlush
            BY <2>3 DEF WaitState, WaitFlush, WaitSem, Enabling
      <2>4. CASE flushBuffers
            BY <2>4 DEF flushBuffers, Enabling
      <2>5. CASE StopEnds
            BY <2>5 DEF StopEnds, transitToState, Enabling
      <2> QED
            BY <2>1, <2>2, <2>3, <2>4, <2>5
<1> HIDE DEF buffers
<1> QED
      BY <1>1, TokensSamePorts

LEMMA TokensWaitPort ==
    ASSUME ControlTypes, PortTypes, FrameTypes, FrameTypes', BufferTypes, BufferTypes',
           Tokens, WaitEnabled \/ WaitDisabled
    PROVE  Tokens'
<1> USE DEF buffers, ports, component, clientFrames, frameThread, history
<1>1. /\ UNCHANGED buffers /\ UNCHANGED <<frames, bEnabled, req>>
      /\ pc \in {"enableWait", "disableWait"}
      /\ pc' = IF pc = "enableWait" THEN "enable" ELSE "disable"
      /\ mIsActive' = [mIsActive EXCEPT ![Cur] = bEnabled[Cur]]
      BY DEF WaitEnabled, WaitDisabled, WaitPort, Cur
<1>2. Cur \in Ports
      BY <1>1, CurIn DEF ControlTypes, PortPcs
<1> HIDE DEF buffers
<1>3. pc' \in Enabling => pc \in Enabling /\ req' = req
      BY <1>1 DEF Enabling
<1> QED
      BY <1>1, <1>2, <1>3, TokensPort

LEMMA TokensDisablePort ==
    ASSUME PortTypes, FrameTypes, FrameTypes', BufferTypes, BufferTypes', Tokens, DisablePort
    PROVE  Tokens'
<1> USE DEF buffers, ports, component, clientFrames, frameThread, history
<1>1. PICK p \in Ports :
         /\ UNCHANGED buffers /\ UNCHANGED <<frames, bEnabled, req>>
         /\ pc = "disable" /\ pc' \in {"disable", "free"}
         /\ \/ mIsActive' = [mIsActive EXCEPT ![p] = bEnabled[p]]
            \/ mIsActive' = mIsActive
      BY DEF DisablePort, AlreadyDone
<1>2. pc' \notin Enabling
      BY <1>1 DEF Enabling
<1> HIDE DEF buffers
<1> QED
      BY <1>1, <1>2, TokensPort, TokensSamePorts

\* A port is disabled only without headers: none of its buffers is under way.
LEMMA TokensCompletes ==
    ASSUME PortTypes, FrameTypes, FrameTypes', BufferTypes, BufferTypes', Tokens, Completes
    PROVE  Tokens'
<1> USE DEF buffers, ports, clientFrames, frameThread, history, control
<1>1. PICK c \in cmds : CmdComplete(c)
      BY DEF Completes
<1>2. /\ UNCHANGED buffers /\ UNCHANGED <<frames, mIsActive, pc, req>> /\ Completable(c)
      /\ bEnabled' = IF c[1] \in {"enable", "disable"}
                     THEN [bEnabled EXCEPT ![c[2]] = (c[1] = "enable")] ELSE bEnabled
      BY <1>1 DEF CmdComplete
<1> HIDE DEF buffers
<1>3. bEnabled \in [Ports -> BOOLEAN]
      BY DEF PortTypes
<1>4. ASSUME NEW p \in Ports, Running(p), ~Cleared(p)
      PROVE  Running(p)'
      <2>1. mIsActive[p] /\ bEnabled[p] /\ ~Started(p)
            BY <1>4 DEF Running
      <2>2. ~(c[1] = "disable" /\ c[2] = p)
            BY <1>2, <1>4 DEF Completable, Cleared
      <2>3. c[1] = "enable" /\ c[2] = p => bEnabled'[p]
            BY <1>2, <1>3
      <2>4. c[1] \notin {"enable", "disable"} \/ c[2] # p => bEnabled'[p] = bEnabled[p]
            BY <1>2, <1>3
      <2>5. bEnabled'[p]
            BY <2>1, <2>2, <2>3, <2>4
      <2> QED
            BY <1>2, <2>1, <2>5 DEF Running, Started
<1> QED
      BY <1>2, <1>4, TokensKept DEF buffers

LEMMA TokensReturnFrame ==
    ASSUME FrameTypes, FrameTypes', BufferTypes, BufferTypes', Tokens,
           NEW x \in Buffers, returnFrame(x)
    PROVE  Tokens'
<1>1. UNCHANGED <<fpc, msg, mFrameMessageQ, held, mBufferHeader, starts, stale>>
      BY DEF returnFrame, ports, component, frameThread, history, control
<1>2. frames' \subseteq frames /\ UNCHANGED <<mIsActive, bEnabled, pc, req>>
      BY DEF returnFrame, ports, component, control
<1> QED
      BY <1>1, <1>2, TokensSamePorts DEF buffers

\* deinit writes a message that is of no buffer.
LEMMA TokensStill ==
    ASSUME FrameTypes, FrameTypes', BufferTypes, BufferTypes', Tokens,
           Slots' = Slots, \A i \in Slots : Slot(i)' = Slot(i),
           UNCHANGED <<held, frames, mBufferHeader, starts, stale, mIsActive, bEnabled>>,
           fpc' = "callback" => fpc = "callback" /\ msg' = msg,
           pc' \notin Enabling \/ (UNCHANGED <<pc, req>>)
    PROVE  Tokens'
<1> SUFFICES ASSUME ~stale
             PROVE  Owned'
      BY DEF Tokens
<1>1. SlotsApart /\ CallbackLive /\ HeldRuns /\ FramesRun /\ Stamps
      BY DEF Tokens, Owned
<1>2. \A p : (Running(p) => Running(p)') /\ (Started(p)' => Started(p))
      BY DEF Running, Started
<1>3. SlotsApart' /\ HeldRuns'
      <2>1. /\ \A i \in Slots' : i + 0 \in Slots /\ Slot(i)' = Slot(i + 0)
            /\ \A i \in Slots' : Live(Slot(i))' => Live(Slot(i + 0))
            <3>1. \A i \in Slots' : i + 0 = i
                  BY DEF Slots
            <3> QED
                  BY <3>1 DEF Live
      <2> QED
            BY <1>1, <1>2, <2>1, TokensShrink
<1>4. CallbackLive'
      BY <1>1 DEF CallbackLive, Live
<1>5. FramesRun'
      BY <1>1, <1>2 DEF FramesRun
<1>6. Stamps'
      BY <1>1 DEF Stamps
<1> QED
      BY <1>3, <1>4, <1>5, <1>6 DEF Owned

-----------------------------------------------------------------------------
(* The steps that do.                                                        *)

\* A message is written behind the others.
LEMMA PostedSlots ==
    ASSUME FrameTypes, NEW m, PostFrameThread(m), NEW n, n = Len(mFrameMessageQ) + 1
    PROVE  /\ UNCHANGED <<fpc, msg>> /\ n \notin Slots /\ n \in Nat
           /\ \A i \in Slots : i \in Slots' /\ Slot(i)' = Slot(i)
           /\ \A i \in Slots' : i \in Slots \/ (i = n /\ m # Exit)
           /\ m # Exit => n \in Slots' /\ Slot(n)' = m
<1> DEFINE q == mFrameMessageQ
<1>1. /\ q' = Append(q, m) /\ UNCHANGED <<fpc, msg>>
      BY DEF PostFrameThread
<1>2. q \in Seq(Messages \cup {Exit}) /\ Len(q) \in Nat
      BY LenProperties DEF FrameTypes
<1>3. Len(q') = n /\ q'[n] = m /\ \A i \in 1..Len(q) : q'[i] = q[i]
      <2>1. q \in Seq(Messages \cup {Exit} \cup {m})
            BY <1>2, SeqMonotonic
      <2> QED
            BY <1>1, <2>1, AppendProperties
<1>4. n \in Nat /\ n # 0 /\ n \notin 0..Len(q) /\ n \in 0..n
      BY <1>2
<1>5. \A i \in 0..Len(q) : i \in 0..n /\ (i # 0 => i \in 1..Len(q))
      BY <1>2
<1>6. \A i \in 0..n : i = n \/ i \in 0..Len(q)
      BY <1>2
<1>7. \A i \in 0..Len(q) : Slot(i)' = Slot(i)
      BY <1>1, <1>3, <1>5 DEF Slot
<1>8. Slot(n)' = m
      BY <1>3, <1>4 DEF Slot
<1>9. \A i \in Slots : i \in Slots'
      BY <1>1, <1>3, <1>5 DEF Slots
<1>10. \A i \in Slots' : i \in Slots \/ (i = n /\ m # Exit)
      BY <1>1, <1>3, <1>4, <1>5, <1>6 DEF Slots
<1>11. m # Exit => n \in Slots'
      BY <1>3, <1>4 DEF Slots
<1>12. n \notin Slots /\ \A i \in Slots : i \in 0..Len(q)
      BY <1>4 DEF Slots
<1> QED
      BY <1>1, <1>4, <1>7, <1>8, <1>9, <1>10, <1>11, <1>12

LEMMA TokensDeinit ==
    ASSUME FrameTypes, FrameTypes', BufferTypes, BufferTypes', Tokens, deinit
    PROVE  Tokens'
<1>1. /\ UNCHANGED <<held, frames, mBufferHeader, starts, stale, mIsActive, bEnabled>>
      /\ pc' = "join" /\ PostFrameThread(Exit)
      BY DEF deinit, ports, clientFrames, history
<1>2. /\ UNCHANGED <<fpc, msg>> /\ \A i \in Slots : i \in Slots' /\ Slot(i)' = Slot(i)
      /\ \A i \in Slots' : i \in Slots
      BY <1>1, PostedSlots
<1>3. Slots' = Slots /\ \A i \in Slots : Slot(i)' = Slot(i)
      BY <1>2
<1> QED
      BY <1>1, <1>2, <1>3, TokensStill DEF Enabling

LEMMA TokensFrameThreadStarts ==
    ASSUME FrameTypes, FrameTypes', BufferTypes, BufferTypes', Tokens, FrameThreadStarts
    PROVE  Tokens'
<1>1. /\ UNCHANGED <<held, frames, mBufferHeader, starts, stale, mIsActive, bEnabled, pc, req>>
      /\ UNCHANGED <<msg, mFrameMessageQ>> /\ fpc = "create" /\ fpc' = "wait"
      BY DEF FrameThreadStarts, control, ports, clientFrames, component, history
<1>2. Slots' = Slots /\ \A i \in Slots : Slot(i)' = Slot(i)
      BY <1>1 DEF Slots, Slot
<1> QED
      BY <1>1, <1>2, TokensStill

LEMMA TokensStartPreview ==
    ASSUME ControlTypes, PortTypes, FrameTypes, FrameTypes', BufferTypes, BufferTypes', Tokens,
           startPreview
    PROVE  Tokens'
<1>1. /\ UNCHANGED <<fpc, msg, mFrameMessageQ, held, mBufferHeader, stale>>
      /\ UNCHANGED <<mIsActive, bEnabled>>
      BY DEF startPreview, transitToState, ports, frameThread, component, history
<1>2. /\ pc' \in Enabling /\ pc \notin Enabling /\ starts' = starts + 1
      /\ \A p \in req' : ~mIsActive[p]
      BY DEF startPreview, transitToState, Enabling
<1>3. frames' = {}
      BY DEF startPreview, clientFrames
<1> SUFFICES ASSUME ~stale
             PROVE  Owned'
      BY <1>1 DEF Tokens
<1>4. SlotsApart /\ CallbackLive /\ HeldRuns /\ FramesRun /\ Stamps
      BY DEF Tokens, Owned
<1>5. Slots' = Slots /\ \A i : Slot(i)' = Slot(i)
      BY <1>1, SameSlots
<1>6. \A p \in Ports : Running(p) => Running(p)'
      BY <1>1, <1>2 DEF Running, Started
<1>7. SlotsApart' /\ HeldRuns'
      <2>1. /\ \A i \in Slots' : i + 0 \in Slots /\ Slot(i)' = Slot(i + 0)
            /\ \A i \in Slots' : Live(Slot(i))' => Live(Slot(i + 0))
            <3>1. \A i \in Slots' : i + 0 = i
                  BY DEF Slots
            <3> QED
                  BY <1>1, <1>5, <3>1 DEF Live
      <2> QED
            BY <1>1, <1>3, <1>4, <1>6, <2>1, TokensShrink
<1>8. CallbackLive' /\ FramesRun'
      BY <1>1, <1>3, <1>4 DEF CallbackLive, Live, FramesRun
<1>9. Stamps'
      <2>1. starts \in Nat /\ MaxStarts \in Nat
            BY CameraAssumption DEF ControlTypes
      <2>2. \A i \in Slots' : Slot(i)'[3] \in Nat /\ Slot(i)'[3] <= starts
            BY <1>4, <1>5, SlotTypes, MessageParts DEF Stamps
      <2>3. \A i \in Slots' : Slot(i)'[3] <= starts' /\ Slot(i)'[3] < starts'
            BY <1>2, <2>1, <2>2
      <2>4. ASSUME NEW p \in Ports, NEW b \in Bufs
            PROVE  mBufferHeader'[p][b] # starts'
            <3>1. mBufferHeader[p][b] \in 0..MaxStarts /\ mBufferHeader[p][b] <= starts
                  BY DEF PortTypes
            <3> QED
                  BY <1>1, <1>2, <2>1, <3>1
      <2> QED
            BY <2>3, <2>4 DEF Stamps
<1> QED
      BY <1>7, <1>8, <1>9 DEF Owned

\* OMX_UseBuffer for a port that is started: the headers it makes are of no message,
\* and the client has no frame of the port.
LEMMA TokensEnablePort ==
    ASSUME ControlTypes, PortTypes, FrameTypes, FrameTypes', BufferTypes, BufferTypes',
           PortFacts, LockFacts, Tokens, EnablePort
    PROVE  Tokens'
<1> USE DEF ports, clientFrames, frameThread, component, history
<1>1. PICK p \in Ports :
         /\ pc = "enable" /\ todo # {} /\ p = Cur
         /\ \/ AlreadyDone(p, "enable", TRUE)
            \/ /\ ~bEnabled[p]
               /\ PopulatePort(p) \/ \E n \in Bufs : PopulateFails(p, n)
               /\ UNCHANGED <<req, starts, frameThread, clientFrames, bEnabled, held, stale>>
      BY DEF EnablePort, Cur
<1>2. CASE AlreadyDone(p, "enable", TRUE)
      <2>1. /\ UNCHANGED buffers /\ UNCHANGED <<frames, bEnabled, req, pc>>
            /\ mIsActive' = [mIsActive EXCEPT ![p] = bEnabled[p]]
            BY <1>2 DEF AlreadyDone, buffers
      <2> QED
            BY <2>1, TokensPort
<1>3. CASE /\ ~bEnabled[p]
           /\ PopulatePort(p) \/ \E n \in Bufs : PopulateFails(p, n)
           /\ UNCHANGED <<req, starts, frameThread, clientFrames, bEnabled, held, stale>>
      <2>1. /\ UNCHANGED <<fpc, msg, mFrameMessageQ, held, frames, starts, stale, req, bEnabled>>
            BY <1>3
      <2>2. p \in todo /\ pc \in Enabling
            BY <1>1, CurIn DEF ControlTypes, Enabling
      <2>3. ~mIsActive[p] /\ p \in req
            BY <2>2 DEF PortFacts
      <2>4. Started(p)
            BY <2>2, <2>3 DEF Started
      <2>5. /\ pc' \in Enabling
            /\ mIsActive' = mIsActive \/ mIsActive' = [mIsActive EXCEPT ![p] = bEnabled[p]]
            BY <1>1, <1>3 DEF PopulatePort, PopulateFails, Enabling
      <2>6. \A q \in Ports, b \in Bufs :
               \/ mBufferHeader'[q][b] = mBufferHeader[q][b]
               \/ q = p /\ mBufferHeader'[q][b] = starts
            <3>1. mBufferHeader \in [Ports -> [Bufs -> 0..MaxStarts]]
                  BY DEF PortTypes
            <3> QED
                  BY <1>3, <3>1 DEF PopulatePort, PopulateFails
      <2>7. mIsActive' = mIsActive
            <3>1. \A f \in [Ports -> BOOLEAN] : \A v : f[p] = v => [f EXCEPT ![p] = v] = f
                  OBVIOUS
            <3>2. mIsActive \in [Ports -> BOOLEAN] /\ bEnabled \in [Ports -> BOOLEAN]
                  BY DEF PortTypes
            <3>3. mIsActive[p] \in BOOLEAN /\ bEnabled[p] \in BOOLEAN
                  BY <3>2
            <3>4. mIsActive[p] = bEnabled[p]
                  BY <1>3, <2>3, <3>3
            <3> QED
                  BY <2>5, <3>1, <3>2, <3>4
      <2> SUFFICES ASSUME ~stale
                   PROVE  Owned'
            BY <2>1 DEF Tokens
      <2>8. SlotsApart /\ CallbackLive /\ HeldRuns /\ FramesRun /\ Stamps
            BY DEF Tokens, Owned
      <2>9. Slots' = Slots /\ \A i : Slot(i)' = Slot(i)
            BY <2>1, SameSlots
      <2>10. \A q : Running(q)' = Running(q) /\ Started(q)' = Started(q)
            BY <2>1, <2>2, <2>5, <2>7 DEF Running, Started
      <2>11. ASSUME NEW i \in Slots', Live(Slot(i))'
             PROVE  Live(Slot(i))
            <3>1. PICK m \in Messages : m = Slot(i) /\ m = Slot(i)'
                  BY <2>9, SlotTypes
            <3>2. m[1] \in Ports /\ m[2] \in Bufs /\ m[3] \in Nat
                  BY MessageParts
            <3>3. m[3] < starts /\ starts \in Nat
                  BY <2>2, <2>8, <2>9, <3>1, CameraAssumption DEF Stamps, ControlTypes
            <3>4. mBufferHeader'[m[1]][m[2]] = m[3] /\ m[3] # starts
                  BY <2>11, <3>1, <3>2, <3>3 DEF Live
            <3>5. mBufferHeader[m[1]][m[2]] = m[3]
                  BY <2>6, <3>2, <3>4
            <3> QED
                  BY <3>1, <3>5 DEF Live
      <2>12. SlotsApart' /\ HeldRuns'
            <3>1. /\ \A i \in Slots' : i + 0 \in Slots /\ Slot(i)' = Slot(i + 0)
                  /\ \A i \in Slots' : Live(Slot(i))' => Live(Slot(i + 0))
                  <4>1. \A i \in Slots' : i + 0 = i
                        BY DEF Slots
                  <4> QED
                        BY <2>9, <2>11, <4>1
            <3> QED
                  BY <2>1, <2>8, <2>10, <3>1, TokensShrink
      <2>13. CallbackLive'
            <3>1. fpc # "callback"
                  BY <1>1 DEF LockFacts, Client, FrameThread
            <3> QED
                  BY <2>1, <3>1 DEF CallbackLive
      <2>14. FramesRun'
            <3>1. ASSUME NEW x \in frames
                  PROVE  /\ mBufferHeader'[x[1]][x[2]] # 0 => Running(x[1])
                         /\ ~Started(x[1])
                  <4>1. x[1] \in Ports /\ x[2] \in Bufs
                        BY DEF BufferTypes, Buffers
                  <4>2. (mBufferHeader[x[1]][x[2]] # 0 => Running(x[1])) /\ ~Started(x[1])
                        BY <2>8 DEF FramesRun
                  <4> QED
                        BY <2>4, <2>6, <4>1, <4>2
            <3> QED
                  BY <2>1, <2>10, <3>1 DEF FramesRun
      <2>15. Stamps'
            <3>1. \A q \in Ports, b \in Bufs : mBufferHeader'[q][b] = starts => q \in req
                  BY <2>2, <2>3, <2>6, <2>8 DEF Stamps
            <3> QED
                  BY <2>1, <2>2, <2>8, <2>9, <3>1 DEF Stamps
      <2> QED
            BY <2>12, <2>13, <2>14, <2>15 DEF Owned
<1> QED
      BY <1>1, <1>2, <1>3

\* fillPortBuffers: the ports that were started have no buffer under way.
LEMMA TokensStartEnds ==
    ASSUME FrameTypes, BufferTypes, PortFacts, Tokens, StartEnds
    PROVE  Tokens'
<1>1. /\ UNCHANGED <<fpc, msg, mFrameMessageQ, frames, mBufferHeader, starts, stale>>
      /\ UNCHANGED <<mIsActive, bEnabled>> /\ pc = "enable" /\ pc' = "idle"
      /\ \A x \in held' : x \in held \/ (/\ x \in Buffers /\ x[1] \in req /\ mIsActive[x[1]]
                                         /\ mBufferHeader[x[1]][x[2]] # 0)
      BY DEF StartEnds, ports, clientFrames, frameThread, history
<1> SUFFICES ASSUME ~stale
             PROVE  Owned'
      BY <1>1 DEF Tokens
<1>2. SlotsApart /\ CallbackLive /\ HeldRuns /\ FramesRun /\ Stamps
      BY DEF Tokens, Owned
<1>3. Slots' = Slots /\ \A i : Slot(i)' = Slot(i) /\ Live(Slot(i))' = Live(Slot(i))
      BY <1>1, SameSlots DEF Live
<1>4. /\ \A p : (Running(p) => Running(p)') /\ ~Started(p)'
      /\ \A p \in req : Started(p)
      BY <1>1 DEF Running, Started, Enabling
<1>5. ASSUME NEW x \in held', x \notin held
      PROVE  /\ x \in Buffers /\ Started(x[1]) /\ Running(x[1])' /\ x \notin frames
      <2>1. /\ x \in Buffers /\ x[1] \in req /\ mIsActive[x[1]]
            /\ mBufferHeader[x[1]][x[2]] # 0 /\ x[1] \in Ports /\ x[2] \in Bufs
            BY <1>1, <1>5 DEF Buffers
      <2>2. bEnabled[x[1]]
            BY <2>1 DEF PortFacts, Cleared
      <2>3. Started(x[1])
            BY <1>4, <2>1
      <2>4. Running(x[1])'
            BY <1>1, <2>1, <2>2 DEF Running, Started, Enabling
      <2> QED
            BY <1>2, <2>1, <2>3, <2>4 DEF FramesRun
<1>6. SlotsApart'
      <2>1. ASSUME NEW i \in Slots, Live(Slot(i))
            PROVE  /\ Running(Slot(i)[1])' /\ At(Slot(i))' \notin held' \cup frames'
                   /\ \A j \in Slots : Live(Slot(j)) /\ At(Slot(j))' = At(Slot(i))' => i = j
            <3>1. PICK m : m = Slot(i)
                  OBVIOUS
            <3>2. /\ Running(m[1]) /\ At(m) \notin held \cup frames
                  /\ \A j \in Slots : Live(Slot(j)) /\ At(Slot(j)) = At(m) => i = j
                  BY <1>2, <2>1, <3>1 DEF SlotsApart
            <3>3. At(m)[1] = m[1]
                  BY DEF At
            <3>4. At(m) \notin held'
                  BY <1>5, <3>2, <3>3 DEF Running
            <3>5. \A j : At(Slot(j))' = At(Slot(j))
                  BY <1>3 DEF At
            <3>6. Running(m[1])'
                  BY <1>4, <3>2
            <3>7. Running(Slot(i)[1])'
                  BY <1>3, <3>1, <3>6 DEF Running, Started
            <3> QED
                  BY <1>1, <3>1, <3>2, <3>4, <3>5, <3>7
      <2> QED
            BY <1>3, <2>1 DEF SlotsApart
<1>7. HeldRuns'
      BY <1>1, <1>2, <1>4, <1>5 DEF HeldRuns
<1>8. CallbackLive' /\ FramesRun'
      BY <1>1, <1>2, <1>4 DEF CallbackLive, Live, FramesRun
<1>9. Stamps'
      BY <1>1, <1>2, <1>3 DEF Stamps, Enabling
<1> QED
      BY <1>6, <1>7, <1>8, <1>9 DEF Owned

\* freePortBuffers: the messages of the port are not live any more.
LEMMA TokensFree ==
    ASSUME ControlTypes, PortTypes, FrameTypes, FrameTypes', BufferTypes, BufferTypes',
           LockFacts, Tokens, freePortBuffers
    PROVE  Tokens'
<1>1. /\ UNCHANGED <<fpc, msg, mFrameMessageQ, frames, starts, stale, mIsActive, bEnabled>>
      /\ pc = "free" /\ pc' = "disableWait" /\ mFrameBufferLock = "free"
      /\ mBufferHeader' = [mBufferHeader EXCEPT ![Cur] = [b \in Bufs |-> 0]]
      /\ held' \subseteq held
      BY DEF freePortBuffers, Cur, clientFrames, frameThread, history
<1> SUFFICES ASSUME ~stale
             PROVE  Owned'
      BY <1>1 DEF Tokens
<1>2. SlotsApart /\ CallbackLive /\ HeldRuns /\ FramesRun /\ Stamps
      BY DEF Tokens, Owned
<1>3. Slots' = Slots /\ \A i : Slot(i)' = Slot(i)
      BY <1>1, SameSlots
<1>4. \A p : (Running(p) => Running(p)') /\ ~Started(p)'
      BY <1>1 DEF Running, Started, Enabling
<1>5. \A p \in Ports, b \in Bufs :
         mBufferHeader'[p][b] = 0 \/ mBufferHeader'[p][b] = mBufferHeader[p][b]
      BY <1>1 DEF PortTypes
<1>6. ASSUME NEW i \in Slots', Live(Slot(i))'
      PROVE  Live(Slot(i))
      <2>1. PICK m \in Messages : m = Slot(i) /\ m = Slot(i)'
            BY <1>3, SlotTypes
      <2>2. m[1] \in Ports /\ m[2] \in Bufs /\ m[3] # 0
            BY MessageParts
      <2>3. mBufferHeader'[m[1]][m[2]] = m[3]
            BY <1>6, <2>1 DEF Live
      <2>4. mBufferHeader[m[1]][m[2]] = m[3]
            BY <1>5, <2>2, <2>3
      <2> QED
            BY <2>1, <2>4 DEF Live
<1>7. SlotsApart' /\ HeldRuns'
      <2>1. /\ \A i \in Slots' : i + 0 \in Slots /\ Slot(i)' = Slot(i + 0)
            /\ \A i \in Slots' : Live(Slot(i))' => Live(Slot(i + 0))
            <3>1. \A i \in Slots' : i + 0 = i
                  BY DEF Slots
            <3> QED
                  BY <1>3, <1>6, <3>1
      <2> QED
            BY <1>1, <1>2, <1>4, <2>1, TokensShrink
<1>8. CallbackLive'
      <2>1. fpc # "callback"
            BY <1>1 DEF LockFacts, FrameThread
      <2> QED
            BY <1>1, <2>1 DEF CallbackLive
<1>9. FramesRun'
      <2>1. ASSUME NEW x \in frames, mBufferHeader'[x[1]][x[2]] # 0
            PROVE  Running(x[1])
            <3>1. x[1] \in Ports /\ x[2] \in Bufs
                  BY DEF BufferTypes, Buffers
            <3> QED
                  BY <1>2, <1>5, <2>1, <3>1 DEF FramesRun
      <2> QED
            BY <1>1, <1>4, <2>1 DEF FramesRun
<1>10. Stamps'
      BY <1>1, <1>2, <1>3 DEF Stamps, Enabling
<1> QED
      BY <1>7, <1>8, <1>9, <1>10 DEF Owned

\* The queue moves up, and its head is in the frame thread's hands or dropped.
LEMMA ReadSlots ==
    ASSUME FrameTypes, ReadMessage
    PROVE  \A i \in Slots' : i + 1 \in Slots /\ Slot(i)' = Slot(i + 1)
<1> DEFINE q == mFrameMessageQ
<1>1. /\ q \in Seq(Messages \cup {Exit}) /\ q # << >> /\ q' = Tail(q)
      BY DEF ReadMessage, FrameTypes
<1>2. /\ Len(q) \in Nat \ {0} /\ Len(q') = Len(q) - 1
      /\ \A i \in 1..(Len(q) - 1) : q'[i] = q[i + 1]
      BY <1>1, HeadTailProperties, EmptySeq, LenProperties
<1>3. Head(q) = q[1]
      BY <1>1
<1>4. fpc' \in {"received", "callback"} => msg' = q[1] /\ q[1] # Exit
      BY <1>3 DEF ReadMessage
<1>5. ASSUME NEW i \in Slots'
      PROVE  i + 1 \in Slots /\ Slot(i)' = Slot(i + 1)
      <2>1. /\ i \in 0..Len(q') /\ (i = 0 => fpc' \in {"received", "callback"})
            /\ i # 0 => q'[i] # Exit
            BY <1>5 DEF Slots
      <2>2. i + 1 \in 0..Len(q) /\ i + 1 # 0
            BY <1>2, <2>1
      <2>3. CASE i = 0
            <3>1. msg' = q[1] /\ q[1] # Exit /\ i + 1 = 1
                  BY <1>4, <2>1, <2>3
            <3> QED
                  BY <2>2, <2>3, <3>1 DEF Slots, Slot
      <2>4. CASE i # 0
            <3>1. i \in 1..(Len(q) - 1)
                  BY <1>2, <2>1, <2>4
            <3>2. q'[i] = q[i + 1] /\ q'[i] # Exit
                  BY <1>2, <2>1, <2>4, <3>1
            <3> QED
                  BY <2>2, <2>4, <3>2 DEF Slots, Slot
      <2> QED
            BY <2>3, <2>4
<1> QED
      BY <1>5

LEMMA TokensReadMessage ==
    ASSUME FrameTypes, FrameTypes', BufferTypes, BufferTypes', Tokens, ReadMessage
    PROVE  Tokens'
<1>1. /\ UNCHANGED <<held, frames, mBufferHeader, starts, stale, mIsActive, bEnabled, pc, req>>
      /\ fpc' # "callback"
      BY DEF ReadMessage, control, ports, clientFrames, component, history
<1> SUFFICES ASSUME ~stale
             PROVE  Owned'
      BY <1>1 DEF Tokens
<1>2. SlotsApart /\ CallbackLive /\ HeldRuns /\ FramesRun /\ Stamps
      BY DEF Tokens, Owned
<1>3. \A i \in Slots' : i + 1 \in Slots /\ Slot(i)' = Slot(i + 1)
      BY ReadSlots
<1>4. \A i \in Slots' : Live(Slot(i))' => Live(Slot(i + 1))
      BY <1>1, <1>3 DEF Live
<1>5. \A p : Running(p)' = Running(p) /\ Started(p)' = Started(p)
      BY <1>1 DEF Running, Started
<1>6. SlotsApart' /\ HeldRuns'
      BY <1>1, <1>2, <1>3, <1>4, <1>5, TokensShrink
<1>7. CallbackLive' /\ FramesRun'
      BY <1>1, <1>2, <1>5 DEF CallbackLive, FramesRun
<1>8. Stamps'
      BY <1>1, <1>2, <1>3 DEF Stamps
<1> QED
      BY <1>6, <1>7, <1>8 DEF Owned

\* FrameReceivedFunc keeps a live message as it is, or drops it.
LEMMA TokensFrameReceived ==
    ASSUME FrameTypes, FrameTypes', BufferTypes, BufferTypes', Tokens, FrameReceivedFunc
    PROVE  Tokens'
<1>1. /\ UNCHANGED <<held, frames, mBufferHeader, starts, mIsActive, bEnabled, pc, req>>
      /\ UNCHANGED mFrameMessageQ /\ fpc = "received"
      /\ \/ /\ \E x \in FoundFrames(msg) : msg' = <<x[1], x[2], msg[3]>>
            /\ fpc' = "callback" /\ stale' = (stale \/ ~Live(msg))
         \/ fpc' = "wait" /\ UNCHANGED stale
      BY DEF FrameReceivedFunc, control, ports, clientFrames, component, Live
<1> SUFFICES ASSUME ~stale'
             PROVE  Owned'
      BY DEF Tokens
<1>2. ~stale
      BY <1>1
<1>3. SlotsApart /\ CallbackLive /\ HeldRuns /\ FramesRun /\ Stamps
      BY <1>2 DEF Tokens, Owned
<1>4. fpc' = "callback" => Live(msg) /\ msg' = msg
      <2> SUFFICES ASSUME fpc' = "callback"
                   PROVE  Live(msg) /\ msg' = msg
            OBVIOUS
      <2>1. Live(msg) /\ \E x \in FoundFrames(msg) : msg' = <<x[1], x[2], msg[3]>>
            BY <1>1
      <2>2. FoundFrames(msg) = {<<msg[1], msg[2]>>}
            BY <2>1 DEF FoundFrames, Live
      <2>3. msg = <<msg[1], msg[2], msg[3]>>
            BY <1>1, MessageParts DEF FrameTypes
      <2> QED
            BY <2>1, <2>2, <2>3
<1>5. \A i \in Slots' : i \in Slots /\ Slot(i)' = Slot(i)
      BY <1>1, <1>4 DEF Slots, Slot
<1>6. \A p : Running(p)' = Running(p) /\ Started(p)' = Started(p)
      BY <1>1 DEF Running, Started
<1>7. SlotsApart' /\ HeldRuns'
      <2>1. /\ \A i \in Slots' : i + 0 \in Slots /\ Slot(i)' = Slot(i + 0)
            /\ \A i \in Slots' : Live(Slot(i))' => Live(Slot(i + 0))
            <3>1. \A i \in Slots' : i + 0 = i
                  BY DEF Slots
            <3> QED
                  BY <1>1, <1>5, <3>1 DEF Live
      <2> QED
            BY <1>1, <1>3, <1>6, <2>1, TokensShrink
<1>8. CallbackLive' /\ FramesRun'
      BY <1>1, <1>3, <1>4, <1>6 DEF CallbackLive, Live, FramesRun
<1>9. Stamps'
      BY <1>1, <1>3, <1>5 DEF Stamps
<1> QED
      BY <1>7, <1>8, <1>9 DEF Owned

\* The callback hands the buffer of a live message over.
LEMMA TokensCallback ==
    ASSUME FrameTypes, FrameTypes', BufferTypes, BufferTypes', Tokens, FrameCallback
    PROVE  Tokens'
<1>1. /\ UNCHANGED <<held, mBufferHeader, starts, stale, mIsActive, bEnabled, pc, req>>
      /\ UNCHANGED mFrameMessageQ /\ fpc = "callback" /\ fpc' = "wait"
      /\ frames' = frames \cup {At(msg)}
      BY DEF FrameCallback, control, ports, component, history, At
<1> SUFFICES ASSUME ~stale
             PROVE  Owned'
      BY <1>1 DEF Tokens
<1>2. SlotsApart /\ CallbackLive /\ HeldRuns /\ FramesRun /\ Stamps
      BY DEF Tokens, Owned
<1>3. \A i \in Slots' : i \in Slots /\ i # 0 /\ Slot(i)' = Slot(i)
      BY <1>1 DEF Slots, Slot
<1>4. 0 \in Slots /\ Slot(0) = msg /\ Live(msg)
      <2>1. Len(mFrameMessageQ) \in Nat
            BY LenProperties DEF FrameTypes
      <2>2. 0 \in 0..Len(mFrameMessageQ)
            BY <2>1
      <2> QED
            BY <1>1, <1>2, <2>2 DEF Slots, Slot, CallbackLive
<1>5. /\ Running(msg[1]) /\ At(msg) \notin held \cup frames
      /\ \A j \in Slots : Live(Slot(j)) /\ At(Slot(j)) = At(msg) => j = 0
      BY <1>2, <1>4 DEF SlotsApart
<1>6. \A p : Running(p)' = Running(p) /\ Started(p)' = Started(p)
      BY <1>1 DEF Running, Started
<1>7. SlotsApart'
      <2>1. ASSUME NEW i \in Slots', Live(Slot(i))'
            PROVE  /\ Running(Slot(i)[1])' /\ At(Slot(i))' \notin held' \cup frames'
                   /\ \A j \in Slots' : Live(Slot(j))' /\ At(Slot(j))' = At(Slot(i))' => i = j
            <3>1. PICK m : m = Slot(i) /\ m = Slot(i)'
                  BY <1>3
            <3>2. Live(m) /\ i \in Slots /\ i # 0
                  BY <1>1, <1>3, <2>1, <3>1 DEF Live
            <3>3. /\ Running(m[1]) /\ At(m) \notin held \cup frames
                  /\ \A j \in Slots : Live(Slot(j)) /\ At(Slot(j)) = At(m) => i = j
                  BY <1>2, <3>1, <3>2 DEF SlotsApart
            <3>4. At(m) # At(msg)
                  BY <1>5, <3>1, <3>2
            <3>5. At(Slot(i))' = At(m)
                  BY <3>1 DEF At
            <3>6. Running(Slot(i)[1])'
                  BY <1>1, <3>1, <3>3 DEF Running, Started
            <3>7. ASSUME NEW j \in Slots', Live(Slot(j))', At(Slot(j))' = At(Slot(i))'
                  PROVE  i = j
                  <4>1. j \in Slots /\ Live(Slot(j)) /\ At(Slot(j)) = At(m)
                        BY <1>1, <1>3, <3>5, <3>7 DEF Live, At
                  <4> QED
                        BY <3>3, <4>1
            <3> QED
                  BY <1>1, <3>3, <3>4, <3>5, <3>6, <3>7
      <2> QED
            BY <2>1 DEF SlotsApart
<1>8. HeldRuns'
      BY <1>1, <1>2, <1>5, <1>6 DEF HeldRuns
<1>9. FramesRun'
      <2>1. ASSUME NEW x \in frames'
            PROVE  (mBufferHeader[x[1]][x[2]] # 0 => Running(x[1])) /\ ~Started(x[1])
            <3>1. CASE x \in frames
                  BY <1>2, <3>1 DEF FramesRun
            <3>2. CASE x = At(msg)
                  <4>1. x[1] = msg[1]
                        BY <3>2 DEF At
                  <4> QED
                        BY <1>5, <4>1 DEF Running
            <3> QED
                  BY <1>1, <3>1, <3>2
      <2> QED
            BY <1>1, <1>6, <2>1 DEF FramesRun
<1>10. CallbackLive' /\ Stamps'
      BY <1>1, <1>2, <1>3 DEF CallbackLive, Stamps
<1> QED
      BY <1>7, <1>8, <1>9, <1>10 DEF Owned

\* OMX_FillThisBuffer: the client's buffer is the component's.
LEMMA TokensFillThis ==
    ASSUME FrameTypes, BufferTypes, Tokens, NEW x \in Buffers, FillThisBuffer(x)
    PROVE  Tokens'
<1>1. UNCHANGED <<fpc, msg, mFrameMessageQ, mBufferHeader, starts, stale>>
      BY DEF FillThisBuffer, control, ports, frameThread, history
<1>2. /\ UNCHANGED <<mIsActive, bEnabled, pc, req>> /\ x \in frames /\ frames' = frames \ {x}
      /\ held' = held \/ (held' = held \cup {x} /\ mBufferHeader[x[1]][x[2]] # 0)
      BY DEF FillThisBuffer, control, ports, BufferTypes
<1> SUFFICES ASSUME ~stale
             PROVE  Owned'
      BY <1>1 DEF Tokens
<1>3. SlotsApart /\ CallbackLive /\ HeldRuns /\ FramesRun /\ Stamps
      BY DEF Tokens, Owned
<1>4. Slots' = Slots /\ \A i : Slot(i)' = Slot(i) /\ Live(Slot(i))' = Live(Slot(i))
      BY <1>1, SameSlots DEF Live
<1>5. \A p : Running(p)' = Running(p) /\ Started(p)' = Started(p)
      BY <1>2 DEF Running, Started
<1>6. \A y \in held' : y \in held \/ (y = x /\ Running(x[1]))
      BY <1>2, <1>3 DEF FramesRun
<1>7. SlotsApart'
      <2>1. ASSUME NEW i \in Slots, Live(Slot(i))
            PROVE  /\ Running(Slot(i)[1])' /\ At(Slot(i))' \notin held' \cup frames'
                   /\ \A j \in Slots : Live(Slot(j)) /\ At(Slot(j))' = At(Slot(i))' => i = j
            <3>1. /\ Running(Slot(i)[1]) /\ At(Slot(i)) \notin held \cup frames
                  /\ \A j \in Slots : Live(Slot(j)) /\ At(Slot(j)) = At(Slot(i)) => i = j
                  BY <1>3, <2>1 DEF SlotsApart
            <3>2. \A j : At(Slot(j))' = At(Slot(j))
                  BY <1>4 DEF At
            <3>3. Running(Slot(i)[1])'
                  BY <1>2, <1>4, <3>1 DEF Running, Started
            <3> QED
                  BY <1>2, <1>6, <3>1, <3>2, <3>3
      <2> QED
            BY <1>4, <2>1 DEF SlotsApart
<1>8. HeldRuns'
      BY <1>2, <1>3, <1>5, <1>6 DEF HeldRuns
<1>9. CallbackLive' /\ FramesRun' /\ Stamps'
      BY <1>1, <1>2, <1>3, <1>4, <1>5 DEF CallbackLive, Live, FramesRun, Stamps
<1> QED
      BY <1>7, <1>8, <1>9 DEF Owned

\* FillBufferDone: the component's buffer is on its way, with the header it has.
LEMMA TokensFillDone ==
    ASSUME ControlTypes, PortTypes, FrameTypes, BufferTypes, Tokens, NEW x \in Buffers,
           FillBufferDone(x)
    PROVE  Tokens'
<1>1. /\ UNCHANGED <<frames, mBufferHeader, starts, stale, mIsActive, bEnabled, pc, req>>
      /\ x \in held /\ held' = held \ {x}
      BY DEF FillBufferDone, control, ports, clientFrames, history
<1>2. PICK n, m : /\ n = Len(mFrameMessageQ) + 1
                  /\ m = <<x[1], x[2], mBufferHeader[x[1]][x[2]]>> /\ PostFrameThread(m)
      BY DEF FillBufferDone
<1>3. m \in Messages
      BY <1>1, <1>2, FilledMessage
<1>4. m # Exit
      BY <1>3, ExitApart
<1>5. /\ UNCHANGED <<fpc, msg>> /\ n \notin Slots /\ n \in Slots' /\ Slot(n)' = m
      /\ \A i \in Slots : i \in Slots' /\ Slot(i)' = Slot(i)
      /\ \A i \in Slots' : i \in Slots \/ i = n
      BY <1>2, <1>4, PostedSlots
<1>6. /\ m[1] = x[1] /\ m[2] = x[2] /\ m[3] = mBufferHeader[x[1]][x[2]] /\ At(m) = x
      <2>1. x = <<x[1], x[2]>>
            BY DEF Buffers
      <2> QED
            BY <1>2, <2>1 DEF At
<1> SUFFICES ASSUME ~stale
             PROVE  Owned'
      BY <1>1 DEF Tokens
<1>7. SlotsApart /\ CallbackLive /\ HeldRuns /\ FramesRun /\ Stamps
      BY DEF Tokens, Owned
<1>8. \A p : Running(p)' = Running(p) /\ Started(p)' = Started(p)
      BY <1>1 DEF Running, Started
<1>9. Running(x[1]) /\ x \notin frames
      BY <1>1, <1>7 DEF HeldRuns
<1>10. ASSUME NEW i \in Slots, Live(Slot(i))'
       PROVE  Live(Slot(i)) /\ At(Slot(i))' = At(Slot(i)) /\ At(Slot(i)) # x
      <2>1. Slot(i)' = Slot(i)
            BY <1>5
      <2>2. Live(Slot(i)) /\ At(Slot(i))' = At(Slot(i))
            BY <1>1, <1>10, <2>1 DEF Live, At
      <2> QED
            BY <1>1, <1>7, <2>2 DEF SlotsApart
<1>11. At(Slot(n))' = x
      BY <1>5, <1>6 DEF At
<1>12. SlotsApart'
      <2>1. ASSUME NEW i \in Slots', Live(Slot(i))'
            PROVE  /\ Running(Slot(i)[1])' /\ At(Slot(i))' \notin held' \cup frames'
                   /\ \A j \in Slots' : Live(Slot(j))' /\ At(Slot(j))' = At(Slot(i))' => i = j
            <3>1. CASE i \in Slots
                  <4>1. /\ Running(Slot(i)[1]) /\ At(Slot(i)) \notin held \cup frames
                        /\ \A j \in Slots : Live(Slot(j)) /\ At(Slot(j)) = At(Slot(i)) => i = j
                        BY <1>7, <1>10, <2>1, <3>1 DEF SlotsApart
                  <4>2. Slot(i)' = Slot(i)
                        BY <1>5, <3>1
                  <4>3. Running(Slot(i)[1])'
                        BY <1>1, <4>1, <4>2 DEF Running, Started
                  <4>4. At(Slot(i))' = At(Slot(i)) /\ At(Slot(i)) # x
                        BY <1>10, <2>1, <3>1
                  <4>5. ASSUME NEW j \in Slots', Live(Slot(j))', At(Slot(j))' = At(Slot(i))'
                        PROVE  i = j
                        <5>1. j \in Slots
                              BY <1>5, <1>11, <4>4, <4>5
                        <5>2. Live(Slot(j)) /\ At(Slot(j)) = At(Slot(i))
                              BY <1>10, <4>4, <4>5, <5>1
                        <5> QED
                              BY <4>1, <5>1, <5>2
                  <4> QED
                        BY <1>1, <4>1, <4>3, <4>4, <4>5
            <3>2. CASE i = n
                  <4>1. Running(Slot(i)[1])'
                        BY <1>1, <1>5, <1>6, <1>9, <3>2 DEF Running, Started
                  <4>2. At(Slot(i))' = x
                        BY <1>11, <3>2
                  <4>3. \A j \in Slots' : Live(Slot(j))' /\ At(Slot(j))' = x => j = n
                        BY <1>5, <1>10
                  <4> QED
                        BY <1>1, <1>9, <3>2, <4>1, <4>2, <4>3
            <3> QED
                  BY <1>5, <3>1, <3>2
      <2> QED
            BY <2>1 DEF SlotsApart
<1>13. HeldRuns' /\ FramesRun'
      BY <1>1, <1>7, <1>8 DEF HeldRuns, FramesRun
<1>14. CallbackLive'
      BY <1>1, <1>5, <1>7 DEF CallbackLive, Live
<1>15. Stamps'
      <2>1. x[1] \in Ports /\ x[2] \in Bufs
            BY DEF Buffers
      <2>2. m[3] <= starts
            BY <1>6, <2>1 DEF PortTypes
      <2>3. pc \in Enabling => m[3] # starts
            BY <1>6, <1>7, <1>9, <2>1 DEF Stamps, Running, Started
      <2>4. starts \in Nat /\ m[3] \in Nat
            BY <1>3, MessageParts, CameraAssumption DEF ControlTypes
      <2>5. pc \in Enabling => m[3] < starts
            BY <2>2, <2>3, <2>4
      <2> QED
            BY <1>1, <1>5, <1>7, <2>2, <2>5 DEF Stamps
<1> QED
      BY <1>12, <1>13, <1>14, <1>15 DEF Owned

LEMMA StepTokens ==
    ASSUME CameraTypes, CameraTypes', PortFacts, LockFacts, Tokens, [Next]_vars
    PROVE  Tokens'
<1>1. /\ ControlTypes /\ PortTypes /\ FrameTypes /\ BufferTypes
      /\ FrameTypes' /\ BufferTypes'
      BY DEF CameraTypes
<1>2. CASE useBuffers \/ releaseBuffers \/ stopPreview \/ StartLocked \/ WaitState
           \/ WaitFlush \/ flushBuffers \/ FlushEnds \/ StopEnds \/ Join
      BY <1>1, <1>2, TokensControl
<1>3. CASE startPreview
      BY <1>1, <1>3, TokensStartPreview
<1>4. CASE deinit
      BY <1>1, <1>4, TokensDeinit
<1>5. CASE WaitEnabled \/ WaitDisabled
      BY <1>1, <1>5, TokensWaitPort
<1>6. CASE EnablePort
      BY <1>1, <1>6, TokensEnablePort
<1>7. CASE StartEnds
      BY <1>1, <1>7, TokensStartEnds
<1>8. CASE DisablePort
      BY <1>1, <1>8, TokensDisablePort
<1>9. CASE freePortBuffers
      BY <1>1, <1>9, TokensFree
<1>10. CASE FrameThreadStep
      BY <1>1, <1>10, TokensFrameThreadStarts, TokensReadMessage, TokensFrameReceived,
         TokensCallback DEF FrameThreadStep
<1>11. CASE ReturnStep
      BY <1>1, <1>11, TokensReturnFrame, TokensFillThis DEF ReturnStep
<1>12. CASE Completes
      BY <1>1, <1>12, TokensCompletes
<1>13. CASE Fills
      BY <1>1, <1>13, TokensFillDone DEF Fills
<1>14. CASE ExtractNode \/ UNCHANGED vars
      <2>1. /\ UNCHANGED <<fpc, msg, mFrameMessageQ, held, mBufferHeader, starts, stale>>
            /\ UNCHANGED <<frames, mIsActive, bEnabled, pc, req>>
            BY <1>14 DEF ExtractNode, vars, control, ports, frameThread, clientFrames,
                         component, history
      <2> QED
            BY <1>1, <2>1, TokensSamePorts DEF buffers
<1> QED
      BY <1>2, <1>3, <1>4, <1>5, <1>6, <1>7, <1>8, <1>9, <1>10, <1>11, <1>12, <1>13, <1>14
      DEF Next, ControlCall, ControlStep, WaitEvent

CameraInv == CameraTypes /\ StateWaits /\ StateFacts /\ PortFacts /\ LockFacts /\ Tokens

LEMMA InitCamera == Init => CameraInv
<1> SUFFICES ASSUME Init
             PROVE  CameraInv
      OBVIOUS
<1>1. CameraTypes
      BY InitCameraTypes
<1>2. /\ pc = "idle" /\ todo = {} /\ state = "Loaded" /\ cmds = {} /\ held = {} /\ frames = {}
      /\ mIsActive = [p \in Ports |-> FALSE] /\ mFrameBufferLock = "free"
      /\ fpc = "create" /\ mFrameMessageQ = << >>
      BY DEF Init
<1>3. StateWaits /\ StateFacts
      BY <1>2 DEF StateWaits, StateFacts, StatePcs, Streaming, NoneActive
<1>4. PortFacts /\ LockFacts
      BY <1>2 DEF PortFacts, LockFacts, Enabling, Client, FrameThread
<1>5. Slots = {}
      <2>1. Len(mFrameMessageQ) = 0
            BY <1>2
      <2> QED
            BY <1>2, <2>1 DEF Slots
<1>6. Tokens
      BY <1>2, <1>5 DEF Tokens, Owned, SlotsApart, CallbackLive, HeldRuns, FramesRun, Stamps,
                        Enabling
<1> QED
      BY <1>1, <1>3, <1>4, <1>6 DEF CameraInv

LEMMA StepCamera == CameraInv /\ [Next]_vars => CameraInv'
<1> SUFFICES ASSUME CameraInv, [Next]_vars
             PROVE  CameraInv'
      OBVIOUS
<1>1. /\ CameraTypes /\ StateWaits /\ StateFacts /\ PortFacts /\ LockFacts /\ Tokens
      BY DEF CameraInv
<1>2. ControlTypes /\ PortTypes /\ EventTypes
      BY <1>1 DEF CameraTypes
<1>3. CameraTypes'
      BY <1>1, StepCameraTypes
<1>4. StateWaits' /\ StateFacts'
      BY <1>1, <1>2, StepStateWaits, StepStateFacts
<1>5. PortFacts' /\ LockFacts'
      BY <1>1, <1>2, StepPortFacts, StepLockFacts
<1>6. Tokens'
      BY <1>1, <1>3, StepTokens
<1> QED
      BY <1>3, <1>4, <1>5, <1>6 DEF CameraInv

\* A buffer has one owner, also after a start that failed.
THEOREM CameraInvariant == Spec => []CameraInv
BY InitCamera, StepCamera, PTL DEF Spec

\* NoBufferShared, for any ports, buffers, requests and number of starts, whatever
\* OMX_UseBuffer refuses: until FrameReceivedFunc takes a message whose header is gone,
\* the component never fills a buffer that the client has, and the callback runs only
\* while the frame descriptors exist.
THEOREM NoBufferSharedHolds == Spec => []NoBufferShared
<1>1. CameraInv => NoBufferShared
      <2> SUFFICES ASSUME CameraInv, ~stale
                   PROVE  held \cap frames = {} /\ (fpc = "callback" => mFrameDescriptors)
            BY DEF NoBufferShared
      <2>1. SlotsApart /\ CallbackLive /\ HeldRuns /\ StateFacts /\ FrameTypes
            BY DEF CameraInv, Tokens, Owned, CameraTypes
      <2>2. held \cap frames = {}
            BY <2>1 DEF HeldRuns
      <2>3. ASSUME fpc = "callback"
            PROVE  mFrameDescriptors
            <3>1. Len(mFrameMessageQ) \in Nat
                  BY <2>1, LenProperties DEF FrameTypes
            <3>2. 0 \in Slots /\ Slot(0) = msg /\ Live(msg)
                  BY <2>1, <2>3, <3>1 DEF Slots, Slot, CallbackLive
            <3>3. mIsActive[msg[1]] /\ msg[1] \in Ports
                  BY <2>1, <2>3, <3>2, MessageParts DEF SlotsApart, Running, FrameTypes
            <3>4. ~NoneActive
                  BY <3>3 DEF NoneActive
            <3> QED
                  BY <2>1, <3>4 DEF StateFacts
      <2> QED
            BY <2>2, <2>3
<1> QED
      BY <1>1, CameraInvariant, PTL

-----------------------------------------------------------------------------
(* No buffer is lost, for a client that starts and stops the same ports, as  *)
(* long as OMX_UseBuffer refuses nothing.  A client that stops some of the   *)
(* ports that stream does lose buffers of the others: mFlushInProcess is one *)
(* flag, and FrameReceivedFunc and returnFrame drop the frames of every port *)
(* while it is set.                                                          *)

OneRequest == \A r, q \in Requests : r = q

\* The ports that are active are among those asked for, and none is by the time that
\* startPreview begins and stopPreview ends; nothing is dropped in between.
Asked ==
    /\ ok
    /\ \A p \in Ports : mIsActive[p] => \A r \in Requests : p \in r
    /\ pc \in Enabling \cup {"flush", "flushWait", "disable", "free", "disableWait"} =>
          req \in Requests
    /\ pc \in {"toExecuting", "startLock"} => NoneActive
    /\ pc \in {"disable", "free", "disableWait"} => \A p \in req \ todo : ~mIsActive[p]
    /\ pc \in {"enable", "enableWait"} => ~mFlushInProcess
    /\ pc = "idle" /\ mFlushInProcess => NoneActive

\* Where a buffer is that nobody has lost.
Present(x) ==
    \/ x \in held \cup frames
    \/ \E i \in Slots : Live(Slot(i)) /\ At(Slot(i)) = x
    \/ fpc = "callback" /\ At(msg) = x

AllPresent == pc = "idle" => \A x \in Buffers : mIsActive[x[1]] => Present(x)

Stream == ~refused => Asked /\ AllPresent

LEMMA StopsAll ==
    ASSUME Asked, pc = "disable", todo = {}
    PROVE  NoneActive
BY DEF Asked, NoneActive

LEMMA StepAsked ==
    ASSUME OneRequest, CameraTypes, StateFacts, PortFacts, Proto, Asked, ~refused',
           [Next]_vars
    PROVE  Asked'
<1> USE DEF control, ports, agreement, Enabling
<1>1. /\ mIsActive \in [Ports -> BOOLEAN] /\ bEnabled \in [Ports -> BOOLEAN]
      /\ todo \subseteq Ports
      BY DEF CameraTypes, PortTypes, ControlTypes
<1>2. ASSUME UNCHANGED <<ok, mIsActive, req, todo, pc, mFlushInProcess>>
      PROVE  Asked'
      BY <1>2 DEF Asked, NoneActive
<1>3. CASE useBuffers \/ releaseBuffers \/ deinit \/ Join
      <2>1. /\ UNCHANGED <<ok, mIsActive, req, todo, mFlushInProcess>>
            /\ pc' \in {"toIdle", "toLoaded", "join", "gone"}
            BY <1>3 DEF useBuffers, releaseBuffers, deinit, Join, transitToState
      <2> QED
            BY <2>1 DEF Asked
<1>4. CASE startPreview
      <2>1. /\ UNCHANGED mIsActive /\ ok' = TRUE /\ pc' \in {"toExecuting", "startLock"}
            /\ req' \in Requests /\ \A p \in req' : ~mIsActive[p]
            BY <1>4 DEF startPreview, transitToState
      <2>2. NoneActive'
            BY <2>1 DEF Asked, NoneActive
      <2> QED
            BY <2>1, <2>2 DEF Asked
<1>5. CASE stopPreview
      <2>1. /\ UNCHANGED mIsActive /\ ok' = TRUE /\ pc' = "flush" /\ req' \in Requests
            BY <1>5 DEF stopPreview
      <2> QED
            BY <2>1 DEF Asked
<1>6. CASE StartLocked \/ StartEnds \/ flushBuffers \/ FlushEnds \/ freePortBuffers
           \/ WaitFlush
      <2>1. UNCHANGED <<ok, mIsActive, req>>
            BY <1>6 DEF StartLocked, StartEnds, flushBuffers, FlushEnds, freePortBuffers,
                        WaitFlush, WaitSem
      <2>2. \/ pc = "startLock" /\ pc' = "enable" /\ mFlushInProcess' = FALSE
            \/ pc = "enable" /\ pc' = "idle" /\ UNCHANGED mFlushInProcess
            \/ pc \in {"flush", "flushWait"} /\ pc' \in {"flush", "flushWait"}
            \/ pc = "flush" /\ pc' = "disable" /\ todo' = req
            \/ pc = "free" /\ pc' = "disableWait" /\ UNCHANGED todo
            BY <1>6 DEF StartLocked, StartEnds, flushBuffers, FlushEnds, freePortBuffers,
                        WaitFlush, WaitSem
      <2> QED
            BY <2>1, <2>2 DEF Asked
<1>7. ASSUME NEW p \in Ports, p \in req, req \in Requests
      PROVE  \A r \in Requests : p \in r
      BY <1>7 DEF OneRequest
<1>8. ASSUME NEW p \in todo, pc \in {"enable", "enableWait"}, pc' \in {"enable", "enableWait"},
             \A q \in Ports \ {p} : mIsActive'[q] = mIsActive[q],
             ok', UNCHANGED <<req, mFlushInProcess>>
      PROVE  Asked'
      <2>1. p \in Ports /\ p \in req /\ req \in Requests
            BY <1>1, <1>8 DEF PortFacts, Asked
      <2>2. \A q \in Ports : mIsActive'[q] => \A r \in Requests : q \in r
            BY <1>7, <1>8, <2>1 DEF Asked
      <2> QED
            BY <1>8, <2>2 DEF Asked
<1>9. ASSUME NEW p \in todo, pc \in {"disable", "disableWait"}, pc' = "disable",
             \A q \in Ports \ {p} : mIsActive'[q] = mIsActive[q], ~mIsActive'[p],
             todo' = todo \ {p}, UNCHANGED <<ok, req>>
      PROVE  Asked'
      <2>1. req \subseteq Ports
            BY DEF CameraTypes, ControlTypes
      <2>2. \A q \in req' \ todo' : ~mIsActive'[q]
            BY <1>9, <2>1 DEF Asked
      <2>3. \A q \in Ports : mIsActive'[q] => \A r \in Requests : q \in r
            BY <1>9 DEF Asked
      <2> QED
            BY <1>9, <2>2, <2>3 DEF Asked
<1>10. CASE WaitEnabled
      <2>1. /\ pc = "enableWait" /\ pc' = "enable" /\ UNCHANGED <<ok, req, mFlushInProcess>>
            /\ mIsActive' = [mIsActive EXCEPT ![Cur] = bEnabled[Cur]]
            BY <1>10 DEF WaitEnabled, WaitPort, Cur
      <2>2. Cur \in todo
            BY <1>1, <2>1, CurIn DEF Proto, AgreeTypes, PortPcs
      <2>3. \A q \in Ports \ {Cur} : mIsActive'[q] = mIsActive[q]
            BY <1>1, <2>1
      <2> QED
            BY <1>8, <2>1, <2>2, <2>3 DEF Asked
<1>11. CASE WaitDisabled
      <2>1. /\ pc = "disableWait" /\ pc' = "disable" /\ UNCHANGED <<ok, req>>
            /\ mIsActive' = [mIsActive EXCEPT ![Cur] = bEnabled[Cur]] /\ todo' = todo \ {Cur}
            /\ mGreLocalSem > 0
            BY <1>11 DEF WaitDisabled, WaitPort, Cur
      <2>2. Cur \in todo
            BY <1>1, <2>1, CurIn DEF Proto, AgreeTypes, PortPcs
      <2>3. ~bEnabled[Cur]
            BY <2>1 DEF Proto, Waits, Sent
      <2>4. (\A q \in Ports \ {Cur} : mIsActive'[q] = mIsActive[q]) /\ ~mIsActive'[Cur]
            BY <1>1, <2>1, <2>2, <2>3
      <2> QED
            BY <1>9, <2>1, <2>2, <2>4
<1>12. CASE EnablePort
      <2>1. PICK p \in Ports :
               /\ pc = "enable" /\ todo # {} /\ p = Cur
               /\ \/ AlreadyDone(p, "enable", TRUE)
                  \/ PopulatePort(p) /\ UNCHANGED <<req, mFlushInProcess>>
                  \/ refused'
            BY <1>12 DEF EnablePort, PopulateFails, Cur
      <2>2. p \in todo
            BY <1>1, <2>1, CurIn
      <2>3. CASE AlreadyDone(p, "enable", TRUE)
            <3>1. \A q \in Ports \ {p} : mIsActive'[q] = mIsActive[q]
                  BY <1>1, <2>3 DEF AlreadyDone
            <3>2. pc' = pc /\ UNCHANGED <<ok, req, mFlushInProcess>>
                  BY <2>3 DEF AlreadyDone
            <3> QED
                  BY <1>8, <2>1, <2>2, <3>1, <3>2 DEF Asked
      <2>4. CASE PopulatePort(p) /\ UNCHANGED <<req, mFlushInProcess>>
            BY <1>8, <2>1, <2>2, <2>4 DEF PopulatePort
      <2> QED
            BY <2>1, <2>3, <2>4
<1>13. CASE DisablePort
      <2>1. PICK p \in Ports :
               /\ pc = "disable" /\ todo # {} /\ p = Cur
               /\ \/ AlreadyDone(p, "disable", FALSE)
                  \/ pc' = "free" /\ UNCHANGED <<ok, mIsActive, req, todo, mFlushInProcess>>
            BY <1>13 DEF DisablePort, Cur
      <2>2. p \in todo
            BY <1>1, <2>1, CurIn
      <2>3. CASE AlreadyDone(p, "disable", FALSE)
            <3>1. (\A q \in Ports \ {p} : mIsActive'[q] = mIsActive[q]) /\ ~mIsActive'[p]
                  BY <1>1, <2>3 DEF AlreadyDone
            <3>2. pc' = pc /\ UNCHANGED <<ok, req>> /\ todo' = todo \ {p}
                  BY <2>3 DEF AlreadyDone
            <3> QED
                  BY <1>9, <2>1, <2>2, <3>1, <3>2
      <2>4. CASE pc' = "free" /\ UNCHANGED <<ok, mIsActive, req, todo, mFlushInProcess>>
            BY <2>1, <2>4 DEF Asked
      <2> QED
            BY <2>1, <2>3, <2>4
<1>14. CASE StopEnds
      <2>1. /\ pc = "disable" /\ todo = {} /\ pc' \in {"toIdle", "idle"}
            /\ UNCHANGED <<ok, mIsActive, req, todo, mFlushInProcess>>
            BY <1>14 DEF StopEnds, transitToState
      <2>2. NoneActive'
            BY <2>1, StopsAll DEF NoneActive
      <2> QED
            BY <2>1, <2>2 DEF Asked
<1>15. CASE WaitState
      <2>1. /\ UNCHANGED <<ok, mIsActive, req, todo, mFlushInProcess>>
            /\ \/ pc \in {"toIdle", "toLoaded"} /\ pc' = "idle"
               \/ pc = "toExecuting" /\ pc' = "startLock"
            BY <1>15 DEF WaitState, WaitSem
      <2>2. NoneActive
            BY <2>1 DEF StateFacts, Asked
      <2>3. NoneActive'
            BY <2>1, <2>2 DEF NoneActive
      <2> QED
            BY <2>1, <2>3 DEF Asked
<1>16. CASE Completes
      BY <1>2, <1>16 DEF Completes, CmdComplete
<1>17. CASE [FrameThreadStep \/ ReturnStep \/ Fills]_vars
      <2>1. UNCHANGED <<mIsActive, req, todo, pc>>
            BY <1>17, FramesApart
      <2>2. UNCHANGED <<ok, mFlushInProcess>>
            BY <1>17 DEF FrameThreadStep, FrameThreadStarts, ReadMessage, FrameReceivedFunc,
                         FrameCallback, ReturnStep, returnFrame, FillThisBuffer, Fills,
                         FillBufferDone, vars
      <2> QED
            BY <1>2, <2>1, <2>2
<1>18. CASE ExtractNode
      BY <1>2, <1>18 DEF ExtractNode
<1> QED
      BY <1>3, <1>4, <1>5, <1>6, <1>10, <1>11, <1>12, <1>13, <1>14, <1>15, <1>16, <1>17, <1>18
      DEF Next, ControlCall, ControlStep, WaitEvent

\* The frame thread between two calls: nothing is flushed, and a live message whose
\* port is active is not dropped.
LEMMA PresentFrameThread ==
    ASSUME FrameTypes, Asked, pc = "idle", UNCHANGED <<mIsActive, mBufferHeader>>,
           FrameThreadStep, NEW x \in Buffers, mIsActive[x[1]], Present(x)
    PROVE  Present(x)'
<1> USE DEF clientFrames, component
<1>1. x[1] \in Ports /\ Len(mFrameMessageQ) \in Nat
      BY LenProperties DEF Buffers, FrameTypes
<1>2. 0 \in 0..Len(mFrameMessageQ)
      BY <1>1
<1>3. CASE FrameThreadStarts
      <2>1. /\ UNCHANGED <<held, frames, msg, mFrameMessageQ>> /\ fpc = "create"
            /\ fpc' = "wait"
            BY <1>3 DEF FrameThreadStarts
      <2>2. Slots' = Slots /\ \A i \in Slots : Slot(i)' = Slot(i)
            BY <2>1 DEF Slots, Slot
      <2>3. \A i \in Slots : Live(Slot(i))' = Live(Slot(i)) /\ At(Slot(i))' = At(Slot(i))
            BY <2>2 DEF Live, At
      <2> QED
            BY <2>1, <2>2, <2>3 DEF Present
<1>4. CASE ReadMessage
      <2> DEFINE q == mFrameMessageQ
      <2>1. /\ UNCHANGED <<held, frames>> /\ fpc = "wait" /\ q # << >> /\ q' = Tail(q)
            BY <1>4 DEF ReadMessage
      <2>2. ~mFlushInProcess
            BY <1>1 DEF Asked, NoneActive
      <2>3. /\ q \in Seq(Messages \cup {Exit}) /\ Len(q) \in Nat \ {0} /\ Len(q') = Len(q) - 1
            /\ \A i \in 1..(Len(q) - 1) : q'[i] = q[i + 1]
            BY <2>1, HeadTailProperties, EmptySeq, LenProperties DEF FrameTypes
      <2>4. Head(q) = q[1]
            BY <2>1, <2>3
      <2>5. q[1] # Exit => msg' = q[1] /\ fpc' = "received"
            BY <1>4, <2>2, <2>4 DEF ReadMessage
      <2>6. ASSUME NEW i \in Slots, Live(Slot(i)), At(Slot(i)) = x
            PROVE  \E j \in Slots' : Live(Slot(j))' /\ At(Slot(j))' = x
            <3>1. i \in 1..Len(q) /\ Slot(i) = q[i] /\ q[i] # Exit
                  <4>1. i \in 0..Len(q) /\ i # 0 /\ q[i] # Exit
                        BY <2>1, <2>6 DEF Slots
                  <4> QED
                        BY <2>3, <4>1 DEF Slot
            <3>2. PICK j : j = i - 1
                  OBVIOUS
            <3>3. j \in 0..Len(q') /\ j + 1 = i
                  BY <2>3, <3>1, <3>2
            <3>4. CASE j = 0
                  <4>1. i = 1 /\ msg' = q[i] /\ fpc' = "received"
                        BY <2>5, <3>1, <3>3, <3>4
                  <4>2. j \in Slots' /\ Slot(j)' = Slot(i)
                        BY <3>1, <3>3, <3>4, <4>1 DEF Slots, Slot
                  <4>3. Live(Slot(j))' /\ At(Slot(j))' = x
                        BY <2>6, <4>2 DEF Live, At
                  <4> QED
                        BY <4>2, <4>3
            <3>5. CASE j # 0
                  <4>1. j \in 1..(Len(q) - 1)
                        BY <2>3, <3>3, <3>5
                  <4>2. q'[j] = q[i]
                        BY <2>3, <3>3, <4>1
                  <4>3. j \in Slots' /\ Slot(j)' = Slot(i)
                        BY <3>1, <3>3, <3>5, <4>2 DEF Slots, Slot
                  <4>4. Live(Slot(j))' /\ At(Slot(j))' = x
                        BY <2>6, <4>3 DEF Live, At
                  <4> QED
                        BY <4>3, <4>4
            <3> QED
                  BY <3>4, <3>5
      <2> QED
            BY <2>1, <2>6 DEF Present
<1>5. CASE FrameReceivedFunc
      <2>1. /\ UNCHANGED <<held, frames, mFrameMessageQ>> /\ fpc = "received"
            BY <1>5 DEF FrameReceivedFunc
      <2>2. /\ \/ \E y \in FoundFrames(msg) : msg' = <<y[1], y[2], msg[3]>> /\ fpc' = "callback"
               \/ \E y \in FoundFrames(msg) : ~mIsActive[y[1]]
               \/ ~Live(msg)
            /\ fpc' \in {"callback", "wait"}
            BY <1>5 DEF FrameReceivedFunc, Live
      <2>3. ASSUME NEW i \in Slots, i # 0
            PROVE  i \in Slots' /\ Slot(i)' = Slot(i)
            BY <2>1, <2>3 DEF Slots, Slot
      <2>4. ASSUME NEW i \in Slots, Live(Slot(i)), At(Slot(i)) = x
            PROVE  Present(x)'
            <3>1. CASE i # 0
                  <4>1. i \in Slots' /\ Live(Slot(i))' /\ At(Slot(i))' = x
                        BY <2>3, <2>4, <3>1 DEF Live, At
                  <4> QED
                        BY <4>1 DEF Present
            <3>2. CASE i = 0
                  <4>1. Live(msg) /\ At(msg) = x
                        BY <2>4, <3>2 DEF Slot
                  <4>2. FoundFrames(msg) = {x}
                        BY <4>1 DEF FoundFrames, Live, At
                  <4>3. msg' = <<x[1], x[2], msg[3]>> /\ fpc' = "callback"
                        BY <2>2, <4>1, <4>2
                  <4>4. x = <<x[1], x[2]>>
                        BY DEF Buffers
                  <4>5. At(msg)' = x
                        BY <4>3, <4>4 DEF At
                  <4> QED
                        BY <4>3, <4>5 DEF Present
            <3> QED
                  BY <3>1, <3>2
      <2> QED
            BY <2>1, <2>4 DEF Present
<1>6. CASE FrameCallback
      <2>1. /\ UNCHANGED <<held, mFrameMessageQ>> /\ fpc = "callback"
            /\ fpc' = "wait" /\ frames' = frames \cup {At(msg)}
            BY <1>6 DEF FrameCallback, At
      <2>2. ASSUME NEW i \in Slots, i # 0
            PROVE  i \in Slots' /\ Slot(i)' = Slot(i)
            BY <2>1, <2>2 DEF Slots, Slot
      <2>3. \A i \in Slots \ {0} : Live(Slot(i))' = Live(Slot(i)) /\ At(Slot(i))' = At(Slot(i))
            BY <2>2 DEF Live, At
      <2>4. Slot(0) = msg
            BY DEF Slot
      <2> QED
            BY <2>1, <2>2, <2>3, <2>4 DEF Present
<1> QED
      BY <1>3, <1>4, <1>5, <1>6 DEF FrameThreadStep

\* A frame that is given back between two calls is filled again, and a filled buffer is
\* sent with its header.
LEMMA PresentReturns ==
    ASSUME FrameTypes, BufferTypes, Proto, StateFacts, Asked, pc = "idle",
           UNCHANGED <<mIsActive, mBufferHeader>>, ReturnStep,
           NEW x \in Buffers, mIsActive[x[1]], Present(x)
    PROVE  Present(x)'
<1>1. x[1] \in Ports /\ x[2] \in Bufs
      BY DEF Buffers
<1>2. ~mFlushInProcess /\ state = "Executing"
      BY <1>1 DEF Asked, StateFacts, NoneActive
<1>3. bEnabled[x[1]] /\ mBufferHeader[x[1]][x[2]] # 0
      BY <1>1, AllSettled DEF Settled, Populated
<1>4. PICK y \in Buffers : returnFrame(y) \/ FillThisBuffer(y)
      BY DEF ReturnStep
<1>5. UNCHANGED <<fpc, msg, mFrameMessageQ>>
      BY <1>4 DEF returnFrame, FillThisBuffer, frameThread
<1>6. x \in held \cup frames => x \in held' \cup frames'
      <2>1. CASE returnFrame(y)
            BY <1>2, <2>1 DEF returnFrame, component
      <2>2. CASE FillThisBuffer(y)
            BY <1>3, <2>2 DEF FillThisBuffer
      <2> QED
            BY <1>4, <2>1, <2>2
<1>7. Slots' = Slots /\ \A i : Live(Slot(i))' = Live(Slot(i)) /\ At(Slot(i))' = At(Slot(i))
      BY <1>5, SameSlots DEF Live, At
<1>8. At(msg)' = At(msg)
      BY <1>5 DEF At
<1> QED
      BY <1>5, <1>6, <1>7, <1>8 DEF Present

LEMMA PresentFills ==
    ASSUME ControlTypes, PortTypes, FrameTypes, BufferTypes,
           UNCHANGED <<mIsActive, mBufferHeader>>, Fills, NEW x \in Buffers, Present(x)
    PROVE  Present(x)'
<1>1. PICK y \in Buffers : FillBufferDone(y)
      BY DEF Fills
<1>2. UNCHANGED frames /\ y \in held /\ held' = held \ {y}
      BY <1>1 DEF FillBufferDone, clientFrames
<1>3. PICK n, m : /\ n = Len(mFrameMessageQ) + 1
                  /\ m = <<y[1], y[2], mBufferHeader[y[1]][y[2]]>> /\ PostFrameThread(m)
      BY <1>1 DEF FillBufferDone
<1>4. m # Exit
      BY <1>2, <1>3, FilledMessage, ExitApart
<1>5. /\ UNCHANGED <<fpc, msg>> /\ n \in Slots' /\ Slot(n)' = m
      /\ \A i \in Slots : i \in Slots' /\ Slot(i)' = Slot(i)
      BY <1>3, <1>4, PostedSlots
<1>6. m[1] = y[1] /\ m[2] = y[2] /\ m[3] = mBufferHeader[y[1]][y[2]] /\ y = <<y[1], y[2]>>
      BY <1>3 DEF Buffers
<1>7. Live(Slot(n))' /\ At(Slot(n))' = y
      BY <1>5, <1>6 DEF Live, At
<1>8. \A i \in Slots : Live(Slot(i))' = Live(Slot(i)) /\ At(Slot(i))' = At(Slot(i))
      BY <1>5 DEF Live, At
<1>9. At(msg)' = At(msg)
      BY <1>5 DEF At
<1> QED
      BY <1>2, <1>5, <1>7, <1>8, <1>9 DEF Present

LEMMA StepAllPresent ==
    ASSUME CameraTypes, StateFacts, Proto, Asked, AllPresent, [Next]_vars
    PROVE  AllPresent'
<1> SUFFICES ASSUME pc' = "idle", NEW x \in Buffers, mIsActive'[x[1]]
             PROVE  Present(x)'
      BY DEF AllPresent
<1>1. /\ ControlTypes /\ PortTypes /\ FrameTypes /\ BufferTypes /\ x[1] \in Ports
      /\ x[2] \in Bufs
      BY DEF CameraTypes, Buffers
<1>2. CASE ControlCall
      BY <1>2 DEF ControlCall, useBuffers, startPreview, stopPreview, releaseBuffers, deinit,
                  transitToState
<1>3. CASE WaitEvent
      <2>1. pc \in {"toIdle", "toLoaded"} /\ UNCHANGED mIsActive
            BY <1>3 DEF WaitEvent, WaitState, WaitFlush, WaitSem, WaitEnabled, WaitDisabled,
                        WaitPort, ports
      <2> QED
            BY <1>1, <2>1 DEF StateFacts, NoneActive
<1>4. CASE flushBuffers \/ FlushEnds \/ freePortBuffers \/ Join \/ StartLocked
      BY <1>4 DEF flushBuffers, FlushEnds, freePortBuffers, Join, StartLocked
<1>5. CASE EnablePort \/ DisablePort
      BY <1>5 DEF EnablePort, DisablePort, AlreadyDone, PopulatePort, PopulateFails
<1>6. CASE StopEnds
      <2>1. pc = "disable" /\ todo = {} /\ UNCHANGED mIsActive
            BY <1>6 DEF StopEnds, ports
      <2> QED
            BY <1>1, <2>1, StopsAll DEF NoneActive
<1>7. CASE StartEnds
      <2>1. /\ pc = "enable" /\ UNCHANGED mIsActive
            /\ ok => \A y \in Buffers : y[1] \in req /\ mIsActive[y[1]]
                                        /\ mBufferHeader[y[1]][y[2]] # 0 => y \in held'
            BY <1>7 DEF StartEnds, ports
      <2>2. ok /\ x[1] \in req /\ mIsActive[x[1]]
            BY <1>1, <2>1 DEF Asked, Enabling
      <2>3. mBufferHeader[x[1]][x[2]] # 0
            BY <1>1, <2>1, <2>2, AllSettled DEF Settled, Populated
      <2> QED
            BY <2>1, <2>2, <2>3 DEF Present
<1>8. CASE pc = "idle" /\ [FrameThreadStep \/ ReturnStep \/ Fills]_vars
      <2>1. UNCHANGED <<mIsActive, mBufferHeader>>
            BY <1>8, FramesApart DEF agreement
      <2>2. mIsActive[x[1]] /\ Present(x)
            BY <1>8, <2>1 DEF AllPresent
      <2>3. CASE UNCHANGED vars
            <3>1. UNCHANGED <<fpc, msg, mFrameMessageQ, held, frames>>
                  BY <2>3 DEF vars, frameThread, clientFrames, component
            <3>2. Slots' = Slots /\ \A i : Live(Slot(i))' = Live(Slot(i)) /\ At(Slot(i))' = At(Slot(i))
                  BY <2>1, <3>1, SameSlots DEF Live, At
            <3>3. At(msg)' = At(msg)
                  BY <3>1 DEF At
            <3> QED
                  BY <2>2, <3>1, <3>2, <3>3 DEF Present
      <2> QED
            BY <1>1, <1>8, <2>1, <2>2, <2>3, PresentFrameThread, PresentReturns, PresentFills
<1>9. CASE Completes \/ ExtractNode
      <2>1. /\ UNCHANGED <<fpc, msg, mFrameMessageQ, held, frames, mBufferHeader>>
            /\ UNCHANGED <<pc, mIsActive>>
            BY <1>9 DEF Completes, CmdComplete, ExtractNode, control, ports, frameThread,
                        clientFrames, component
      <2>2. Present(x)
            BY <2>1 DEF AllPresent
      <2>3. Slots' = Slots /\ \A i : Live(Slot(i))' = Live(Slot(i)) /\ At(Slot(i))' = At(Slot(i))
            BY <2>1, SameSlots DEF Live, At
      <2>4. At(msg)' = At(msg)
            BY <2>1 DEF At
      <2> QED
            BY <2>1, <2>2, <2>3, <2>4 DEF Present
<1>10. pc' = pc \/ ~[FrameThreadStep \/ ReturnStep \/ Fills]_vars
      BY FramesApart DEF agreement
<1> QED
      BY <1>2, <1>3, <1>4, <1>5, <1>6, <1>7, <1>8, <1>9, <1>10 DEF Next, ControlStep

LEMMA InitStream == Init => Stream
<1> SUFFICES ASSUME Init
             PROVE  Stream
      OBVIOUS
<1>1. /\ pc = "idle" /\ ok = TRUE /\ mFlushInProcess = FALSE
      /\ mIsActive = [p \in Ports |-> FALSE]
      BY DEF Init
<1>2. Asked
      BY <1>1 DEF Asked, Enabling
<1>3. AllPresent
      BY <1>1 DEF AllPresent, Buffers
<1> QED
      BY <1>2, <1>3 DEF Stream

LEMMA StepStream ==
    OneRequest /\ CameraInv /\ AgreeInv /\ Stream /\ [Next]_vars => Stream'
<1> SUFFICES ASSUME OneRequest, CameraInv, AgreeInv, Stream, [Next]_vars, ~refused'
             PROVE  Asked' /\ AllPresent'
      BY DEF Stream
<1>1. ~refused
      BY RefusedStays
<1>2. Proto /\ Asked /\ AllPresent
      BY <1>1 DEF AgreeInv, Stream
<1>3. CameraTypes /\ StateFacts /\ PortFacts
      BY DEF CameraInv
<1> QED
      BY <1>2, <1>3, StepAsked, StepAllPresent

\* The buffer that a message names.
LEMMA FirstTwo ==
    ASSUME NEW a, NEW b, NEW c
    PROVE  SubSeq(<<a, b, c>>, 1, 2) = <<a, b>>
<1> DEFINE S == {a, b, c}
           s == <<a, b, c>>
           t == SubSeq(s, 1, 2)
           u == <<a, b>>
<1>1. s[1] = a /\ s[2] = b /\ s[1] \in S /\ s[2] \in S
      OBVIOUS
<1>2. u \in Seq(S) /\ Len(u) = 2 /\ u[1] = a /\ u[2] = b
      OBVIOUS
<1>3. \A i \in 1..2 : i = 1 \/ i = 2
      OBVIOUS
<1> HIDE DEF S, s, u
<1>4. \A i \in 1..2 : s[i] \in S
      BY <1>1, <1>3
<1>5. t \in Seq(S) /\ Len(t) = 2 /\ \A i \in 1..2 : t[i] = s[i]
      <2>1. /\ t \in Seq(S) /\ Len(t) = IF 1 <= 2 THEN 2 - 1 + 1 ELSE 0
            /\ \A i \in 1..(2 - 1 + 1) : t[i] = s[1 + i - 1]
            BY <1>4, SubSeqProperties
      <2>2. \A i \in 1..2 : 1 + i - 1 = i
            OBVIOUS
      <2> HIDE DEF t
      <2> QED
            BY <2>1, <2>2
<1> HIDE DEF t
<1>6. \A i \in 1..Len(t) : t[i] = u[i]
      BY <1>1, <1>2, <1>3, <1>5
<1>7. t = u
      BY <1>2, <1>5, <1>6, SeqEqual
<1> QED
      BY <1>7 DEF t, s, u

\* A live message is in mFrameMessageQ or with the frame thread.
LEMMA PresentSomewhere ==
    ASSUME FrameTypes, NEW x \in Buffers, Present(x)
    PROVE  Somewhere(x)
<1>1. CASE x \in held \cup frames
      BY <1>1 DEF Somewhere
<1>2. CASE fpc = "callback" /\ At(msg) = x
      BY <1>2 DEF Somewhere, At
<1>3. ASSUME NEW i \in Slots, At(Slot(i)) = x
      PROVE  Somewhere(x)
      <2>1. CASE i = 0
            BY <1>3, <2>1 DEF Somewhere, Slots, Slot, At
      <2>2. CASE i # 0
            <3> DEFINE q == mFrameMessageQ
            <3>1. q \in Seq(Messages \cup {Exit}) /\ Len(q) \in Nat
                  BY LenProperties DEF FrameTypes
            <3>2. i \in 0..Len(q)
                  BY <1>3 DEF Slots
            <3>3. i \in DOMAIN q
                  <4>1. DOMAIN q = 1..Len(q)
                        BY <3>1, LenProperties
                  <4> QED
                        BY <2>2, <3>1, <3>2, <4>1
            <3>4. PICK m \in Messages : m = q[i]
                  BY <1>3, <2>2, SlotTypes DEF Slot
            <3>5. PICK a, b, c : m = <<a, b, c>>
                  BY MessageParts
            <3>6. x = <<a, b>>
                  BY <1>3, <2>2, <3>4, <3>5 DEF Slot, At
            <3>7. SubSeq(m, 1, 2) = <<a, b>>
                  BY <3>5, FirstTwo
            <3> QED
                  BY <3>3, <3>4, <3>6, <3>7 DEF Somewhere
      <2> QED
            BY <2>1, <2>2
<1> QED
      BY <1>1, <1>2, <1>3 DEF Present

\* What has to do with buffers, for a client that starts and stops the same ports.
THEOREM StreamInvariant == OneRequest /\ Spec => []Stream
<1> SUFFICES ASSUME OneRequest
             PROVE  Spec => []Stream
      OBVIOUS
<1>1. CameraInv /\ AgreeInv /\ Stream /\ [Next]_vars => Stream'
      BY StepStream
<1> QED
      BY <1>1, InitStream, CameraInvariant, AgreeInvariant, PTL DEF Spec

\* BuffersConserved, for any ports, buffers and number of starts, if the client starts
\* and stops the same ports: a port that streams never loses a buffer, whatever is
\* dropped during a flush, and no buffer is filled while the client has it.
THEOREM BuffersConservedHolds == OneRequest /\ Spec => []BuffersConserved
<1>1. CameraInv /\ Stream => NoBufferLost
      <2> SUFFICES ASSUME CameraInv, Stream, pc = "idle", ~refused,
                          NEW x \in Buffers, mIsActive[x[1]]
                   PROVE  Somewhere(x)
            BY DEF NoBufferLost
      <2>1. FrameTypes /\ Present(x)
            BY DEF CameraInv, CameraTypes, Stream, AllPresent
      <2> QED
            BY <2>1, PresentSomewhere
<1>2. NoBufferLost /\ NoBufferShared => BuffersConserved
      BY DEF BuffersConserved
<1> QED
      BY <1>1, <1>2, CameraInvariant, StreamInvariant, NoBufferSharedHolds, PTL
=============================================================================
