------------------------- MODULE GraphManagerProofs -------------------------
(***************************************************************************)
(* Proofs about the request and reply queues of a manager, for any callers *)
(* and workers, any depth of the queues and any number of calls.           *)
(*                                                                         *)
(* A request and the reply to it are one message that moves from workqueue *)
(* to a worker, to retqueue, perhaps to the wrong caller and back, and to  *)
(* its own caller.  The inductive invariant says that there is at most one *)
(* message of a caller, and only while the caller is in the reply loop.    *)
(***************************************************************************)
EXTENDS GraphManager, FiniteSetTheorems, SequenceTheorems, TLAPS

\* A ring holds a message of caller c, and at most one of every caller.
Has(r, c) == \E i \in DOMAIN r : r[i].who = c
Distinct(r) == \A i, j \in DOMAIN r : r[i].who = r[j].who => i = j

\* The queues are up until Deinit pops them, which it does when nobody calls.
QueuesUp ==
    /\ workqueue.active /\ retqueue.active
    /\ dpc = "none" => ~workqueue.popped /\ ~retqueue.popped
    /\ dpc # "none" => /\ workqueue.popped /\ retqueue.popped
                       /\ \A c \in Callers : kpc[c] \in {"idle", "done"}

\* Who carries a message, and that a call has a number.
Hands ==
    /\ \A w \in WorkerIds : wpc[w] \in {"run", "wwait", "wlock"} <=> kgmt[w] # Nothing
    /\ \A c \in Callers : kpc[c] \in {"pwait", "plock"} <=> kgmr[c] # Nothing
    /\ \A c \in Callers : kpc[c] # "idle" => calls[c] > 0

BaseInv == TypeOK /\ QueuesUp /\ Hands

\* Every message is in one place only.
OnePlace ==
    /\ Distinct(workqueue.ring) /\ Distinct(retqueue.ring)
    /\ \A c \in Callers :
          /\ Has(workqueue.ring, c) => ~Has(retqueue.ring, c)
          /\ Has(workqueue.ring, c) \/ Has(retqueue.ring, c) =>
                /\ \A w \in WorkerIds : kgmt[w].who # c
                /\ \A d \in Callers : kgmr[d].who # c
          /\ \A v, w \in WorkerIds : kgmt[v].who = c /\ kgmt[w].who = c => v = w
          /\ \A d, e \in Callers : kgmr[d].who = c /\ kgmr[e].who = c => d = e
          /\ \A w \in WorkerIds, d \in Callers : ~(kgmt[w].who = c /\ kgmr[d].who = c)

\* A message of caller c is of its latest call, and c is waiting for it.
Awaited(m) == m.who \in Callers /\ InReplyLoop(m.who) /\ m.call = calls[m.who]
AllAwaited ==
    /\ \A i \in DOMAIN workqueue.ring : Awaited(workqueue.ring[i])
    /\ \A i \in DOMAIN retqueue.ring : Awaited(retqueue.ring[i])
    /\ \A w \in WorkerIds : kgmt[w] # Nothing => Awaited(kgmt[w])
    /\ \A d \in Callers : kgmr[d] # Nothing => Awaited(kgmr[d])

MessageInv == OnePlace /\ AllAwaited

-----------------------------------------------------------------------------
\* What the operations do to a queue that is not disabled.
LEMMA WriteFacts ==
    ASSUME NEW q \in QueueOf(Requests), q.active, NEW m \in Requests
    PROVE  /\ queue_write(q, m) \in QueueOf(Requests)
           /\ queue_write(q, m).active /\ queue_write(q, m).popped = q.popped
           /\ queue_write(q, m).ring = IF Writes(q) THEN Append(q.ring, m) ELSE q.ring
<1>1. CASE ~Usable(q)
      <2>1. queue_write(q, m) = q /\ ~Writes(q)
            BY <1>1 DEF queue_write, Writes
      <2> QED
            BY <2>1
<1>2. CASE Usable(q)
      <2> DEFINE r == IF Writes(q) THEN Append(q.ring, m) ELSE q.ring
                 n == IF Writes(q) THEN q.msgCount + 1 ELSE q.msgCount
                 we == HasSpace(r)
                 re == q.readEvent \/ HasData(r)
      <2>1. queue_write(q, m) = [q EXCEPT !.ring = r, !.msgCount = n, !.writeEvent = we,
                                          !.readEvent = re]
            BY <1>2 DEF queue_write
      <2>2. /\ q.ring \in Seq(Requests) /\ q.msgCount \in Int
            /\ q.popped \in BOOLEAN /\ q.active \in BOOLEAN
            BY DEF QueueOf
      <2>3. r \in Seq(Requests) /\ n \in Int
            BY <2>2, AppendProperties
      <2>4. we \in BOOLEAN /\ re \in BOOLEAN
            BY DEF HasSpace, HasData
      <2> HIDE DEF r, n, we, re
      <2>5. /\ queue_write(q, m) \in QueueOf(Requests)
            /\ queue_write(q, m).active = q.active /\ queue_write(q, m).popped = q.popped
            /\ queue_write(q, m).ring = r
            BY <2>1, <2>3, <2>4 DEF QueueOf
      <2> QED
            BY <2>5 DEF r
<1> QED
      BY <1>1, <1>2

LEMMA ReadFacts ==
    ASSUME NEW q \in QueueOf(Requests), q.active
    PROVE  /\ queue_read(q) \in QueueOf(Requests)
           /\ queue_read(q).active /\ queue_read(q).popped = q.popped
           /\ queue_read(q).ring = IF Reads(q) THEN Tail(q.ring) ELSE q.ring
           /\ Reads(q) => q.ring # << >> /\ Head(q.ring) \in Requests
<1>1. q.ring \in Seq(Requests) /\ q.msgCount \in Int /\ q.writeEvent \in BOOLEAN
      BY DEF QueueOf
<1>2. Reads(q) => q.ring # << >>
      BY <1>1 DEF Reads, HasData
<1>3. q.ring # << >> => Tail(q.ring) \in Seq(Requests) /\ Head(q.ring) \in Requests
      BY <1>1, HeadTailProperties
<1>4. CASE ~Usable(q)
      <2>1. queue_read(q) = q /\ ~Reads(q)
            BY <1>4 DEF queue_read, Reads
      <2> QED
            BY <2>1
<1>5. CASE Usable(q)
      <2> DEFINE r == IF Reads(q) THEN Tail(q.ring) ELSE q.ring
                 n == IF Reads(q) THEN q.msgCount - 1 ELSE q.msgCount
                 we == q.writeEvent \/ HasSpace(r)
                 re == HasData(r)
      <2>1. queue_read(q) = [q EXCEPT !.ring = r, !.msgCount = n, !.writeEvent = we,
                                      !.readEvent = re]
            BY <1>5 DEF queue_read
      <2>2. r \in Seq(Requests) /\ n \in Int
            BY <1>1, <1>2, <1>3
      <2>3. we \in BOOLEAN /\ re \in BOOLEAN
            BY DEF HasSpace, HasData
      <2> HIDE DEF r, n, we, re
      <2>4. /\ queue_read(q) \in QueueOf(Requests)
            /\ queue_read(q).active = q.active /\ queue_read(q).popped = q.popped
            /\ queue_read(q).ring = r
            BY <2>1, <2>2, <2>3 DEF QueueOf
      <2> QED
            BY <1>2, <1>3, <2>4 DEF r
<1> QED
      BY <1>4, <1>5

LEMMA PopFacts ==
    ASSUME NEW q \in QueueOf(Requests), q.active
    PROVE  /\ queue_pop(q) \in QueueOf(Requests)
           /\ queue_pop(q).active /\ queue_pop(q).popped
           /\ queue_pop(q).ring = q.ring
BY DEF queue_pop, QueueOf

LEMMA NothingIsNoRequest == \A m \in Requests : m # Nothing
BY ManagerAssumption DEF Requests, Nothing

-----------------------------------------------------------------------------
\* The base invariant, whatever RetryRead is.
LEMMA InitBase == Init => BaseInv
<1> SUFFICES ASSUME Init
             PROVE  BaseInv
      OBVIOUS
<1>1. queue_create \in QueueOf(Requests)
      <2>1. << >> \in Seq(Requests)
            BY EmptySeq
      <2> QED
            BY <2>1 DEF queue_create, QueueOf
<1>2. TypeOK
      BY <1>1, ManagerAssumption DEF Init, TypeOK
<1>3. QueuesUp
      BY DEF Init, QueuesUp, queue_create
<1>4. Hands
      BY DEF Init, Hands
<1> QED
      BY <1>2, <1>3, <1>4 DEF BaseInv

\* A step of caller c that sets its pc to p, puts m into its hand and leaves the
\* queues up.
LEMMA CallerBase ==
    ASSUME BaseInv, NEW c \in Callers, dpc = "none",
           NEW p \in {"wwait", "wlock", "rwait", "rlock", "pwait", "plock", "done"},
           NEW m \in Requests \cup {Nothing},
           p \in {"pwait", "plock"} <=> m # Nothing,
           kpc' = [kpc EXCEPT ![c] = p], kgmr' = [kgmr EXCEPT ![c] = m],
           calls' \in [Callers -> 0..MaxCalls], calls'[c] > 0,
           \A d \in Callers : d # c => calls'[d] = calls[d],
           returned' \in [Callers -> Requests \cup {Nothing}],
           workqueue' \in QueueOf(Requests), retqueue' \in QueueOf(Requests),
           workqueue'.active, retqueue'.active,
           workqueue'.popped = workqueue.popped, retqueue'.popped = retqueue.popped,
           UNCHANGED <<workerVars, dpc>>
    PROVE  BaseInv'
<1>1. /\ kpc \in [Callers -> {"idle", "wwait", "wlock", "rwait", "rlock", "pwait", "plock",
                               "done"}]
      /\ calls \in [Callers -> 0..MaxCalls]
      /\ kgmr \in [Callers -> Requests \cup {Nothing}]
      /\ returned \in [Callers -> Requests \cup {Nothing}]
      BY DEF BaseInv, TypeOK
<1>2. wpc' = wpc /\ kgmt' = kgmt /\ dpc' = dpc
      BY DEF workerVars
<1>3. TypeOK'
      <2>1. /\ kpc' \in [Callers -> {"idle", "wwait", "wlock", "rwait", "rlock", "pwait",
                                      "plock", "done"}]
            /\ kgmr' \in [Callers -> Requests \cup {Nothing}]
            BY <1>1
      <2> QED
            BY <1>2, <2>1 DEF BaseInv, TypeOK
<1>4. QueuesUp'
      BY <1>2 DEF BaseInv, QueuesUp
<1>5. Hands'
      <2>1. /\ kpc'[c] = p /\ kgmr'[c] = m
            /\ \A d \in Callers : d # c =>
                  kpc'[d] = kpc[d] /\ kgmr'[d] = kgmr[d] /\ calls'[d] = calls[d]
            BY <1>1
      <2> QED
            BY <1>2, <2>1 DEF BaseInv, Hands
<1> QED
      BY <1>3, <1>4, <1>5 DEF BaseInv

\* The same for a step of worker w.
LEMMA WorkerBase ==
    ASSUME BaseInv, NEW w \in WorkerIds,
           NEW p \in {"read", "lock", "run", "wwait", "wlock", "exited"},
           NEW m \in Requests \cup {Nothing},
           p \in {"run", "wwait", "wlock"} <=> m # Nothing,
           wpc' = [wpc EXCEPT ![w] = p], kgmt' = [kgmt EXCEPT ![w] = m],
           workqueue' \in QueueOf(Requests), retqueue' \in QueueOf(Requests),
           workqueue'.active, retqueue'.active,
           workqueue'.popped = workqueue.popped, retqueue'.popped = retqueue.popped,
           UNCHANGED <<callerVars, dpc>>
    PROVE  BaseInv'
<1>1. /\ wpc \in [WorkerIds -> {"read", "lock", "run", "wwait", "wlock", "exited"}]
      /\ kgmt \in [WorkerIds -> Requests \cup {Nothing}]
      BY DEF BaseInv, TypeOK
<1>2. kpc' = kpc /\ calls' = calls /\ kgmr' = kgmr /\ returned' = returned /\ dpc' = dpc
      BY DEF callerVars
<1>3. TypeOK'
      <2>1. /\ wpc' \in [WorkerIds -> {"read", "lock", "run", "wwait", "wlock", "exited"}]
            /\ kgmt' \in [WorkerIds -> Requests \cup {Nothing}]
            BY <1>1
      <2> QED
            BY <1>2, <2>1 DEF BaseInv, TypeOK
<1>4. QueuesUp'
      BY <1>2 DEF BaseInv, QueuesUp
<1>5. Hands'
      <2>1. /\ wpc'[w] = p /\ kgmt'[w] = m
            /\ \A v \in WorkerIds : v # w => wpc'[v] = wpc[v] /\ kgmt'[v] = kgmt[v]
            BY <1>1
      <2> QED
            BY <1>2, <2>1 DEF BaseInv, Hands
<1> QED
      BY <1>3, <1>4, <1>5 DEF BaseInv

LEMMA StepBase == BaseInv /\ [Next]_vars => BaseInv'
<1> SUFFICES ASSUME BaseInv, [Next]_vars
             PROVE  BaseInv'
      OBVIOUS
<1>1. /\ workqueue \in QueueOf(Requests) /\ workqueue.active
      /\ retqueue \in QueueOf(Requests) /\ retqueue.active
      /\ kpc \in [Callers -> {"idle", "wwait", "wlock", "rwait", "rlock", "pwait", "plock",
                               "done"}]
      /\ calls \in [Callers -> 0..MaxCalls]
      /\ kgmr \in [Callers -> Requests \cup {Nothing}]
      /\ returned \in [Callers -> Requests \cup {Nothing}]
      /\ wpc \in [WorkerIds -> {"read", "lock", "run", "wwait", "wlock", "exited"}]
      /\ kgmt \in [WorkerIds -> Requests \cup {Nothing}]
      BY DEF BaseInv, TypeOK, QueuesUp
<1>2. ASSUME NEW c \in Callers, Call(c)
      PROVE  BaseInv'
      <2>1. /\ dpc = "none" /\ kpc[c] \in {"idle", "done"}
            /\ kpc' = [kpc EXCEPT ![c] = "wwait"]
            /\ calls[c] < MaxCalls /\ calls' = [calls EXCEPT ![c] = calls[c] + 1]
            /\ UNCHANGED <<workqueue, retqueue, kgmr, returned, workerVars, dpc>>
            BY <1>2 DEF Call
      <2>2. /\ calls' \in [Callers -> 0..MaxCalls] /\ calls'[c] > 0
            /\ \A d \in Callers : d # c => calls'[d] = calls[d]
            BY <1>1, <2>1, ManagerAssumption
      <2>3. /\ kgmr' = [kgmr EXCEPT ![c] = Nothing]
            /\ returned' \in [Callers -> Requests \cup {Nothing}]
            BY <1>1, <2>1 DEF BaseInv, Hands
      <2> QED
            BY <1>1, <2>1, <2>2, <2>3, CallerBase
<1>3. ASSUME NEW c \in Callers, CallerStep(c)
      PROVE  BaseInv'
      <2>1. kpc[c] \notin {"idle", "done"} /\ UNCHANGED <<calls, workerVars, dpc>>
            BY <1>3 DEF CallerStep, Wake, PostRequest, ReadReply, PutReplyBack
      <2>2. dpc = "none"
            BY <2>1 DEF BaseInv, QueuesUp
      <2>3. /\ calls' \in [Callers -> 0..MaxCalls] /\ calls'[c] > 0
            /\ \A d \in Callers : d # c => calls'[d] = calls[d]
            /\ calls[c] \in 1..MaxCalls
            BY <1>1, <2>1, ManagerAssumption DEF BaseInv, Hands
      <2>4. kgmr = [kgmr EXCEPT ![c] = kgmr[c]] /\ kgmr[c] \in Requests \cup {Nothing}
            BY <1>1
      <2>6. CASE Wake(c)
            <3>1. PICK p \in {"wlock", "rlock", "plock"} :
                      /\ kpc' = [kpc EXCEPT ![c] = p]
                      /\ p = "plock" <=> kpc[c] = "pwait"
                  BY <2>6 DEF Wake
            <3>2. kpc[c] \in {"wwait", "rwait", "pwait"}
                  BY <2>6 DEF Wake
            <3>3. p \in {"pwait", "plock"} <=> kgmr[c] # Nothing
                  BY <3>1, <3>2 DEF BaseInv, Hands
            <3>4. UNCHANGED <<workqueue, retqueue, kgmr, returned>>
                  BY <2>6 DEF Wake
            <3> QED
                  BY <1>1, <2>1, <2>2, <2>3, <2>4, <3>1, <3>3, <3>4, CallerBase
      <2>7. CASE PostRequest(c)
            <3>1. /\ kpc[c] = "wlock" /\ workqueue' = queue_write(workqueue, Mine(c))
                  /\ UNCHANGED <<retqueue, kgmr>>
                  /\ \E p \in {"rwait", "done"} : kpc' = [kpc EXCEPT ![c] = p]
                  /\ returned' \in {returned, [returned EXCEPT ![c] = Nothing]}
                  BY <2>7 DEF PostRequest
            <3>2. Mine(c) \in Requests
                  BY <2>3 DEF Mine, Requests
            <3>3. /\ workqueue' \in QueueOf(Requests)
                  /\ workqueue'.active /\ workqueue'.popped = workqueue.popped
                  BY <1>1, <3>1, <3>2, WriteFacts
            <3>4. kgmr' = [kgmr EXCEPT ![c] = Nothing]
                  BY <2>4, <3>1 DEF BaseInv, Hands
            <3>5. returned' \in [Callers -> Requests \cup {Nothing}]
                  BY <1>1, <3>1
            <3> QED
                  BY <1>1, <2>1, <2>2, <2>3, <3>1, <3>3, <3>4, <3>5, CallerBase
      <2>8. CASE ReadReply(c)
            <3>1. /\ kpc[c] = "rlock" /\ retqueue' = queue_read(retqueue)
                  /\ UNCHANGED workqueue
                  BY <2>8 DEF ReadReply
            <3>2. /\ retqueue' \in QueueOf(Requests)
                  /\ retqueue'.active /\ retqueue'.popped = retqueue.popped
                  /\ Reads(retqueue) => Head(retqueue.ring) \in Requests
                  BY <1>1, <3>1, ReadFacts
            <3>3. kgmr[c] = Nothing
                  BY <3>1 DEF BaseInv, Hands
            <3>4. returned' \in [Callers -> Requests \cup {Nothing}]
                  BY <1>1, <2>8, <3>2 DEF ReadReply
            <3>5. \/ /\ \E p \in {"done", "rwait"} : kpc' = [kpc EXCEPT ![c] = p]
                     /\ kgmr' = kgmr
                  \/ /\ Reads(retqueue)
                     /\ kpc' = [kpc EXCEPT ![c] = "pwait"]
                     /\ kgmr' = [kgmr EXCEPT ![c] = Head(retqueue.ring)]
                  BY <2>8 DEF ReadReply
            <3>6. CASE /\ \E p \in {"done", "rwait"} : kpc' = [kpc EXCEPT ![c] = p]
                       /\ kgmr' = kgmr
                  <4>1. kgmr' = [kgmr EXCEPT ![c] = Nothing]
                        BY <2>4, <3>3, <3>6
                  <4> QED
                        BY <1>1, <2>1, <2>2, <2>3, <3>1, <3>2, <3>4, <3>6, <4>1, CallerBase
            <3>7. CASE /\ Reads(retqueue)
                       /\ kpc' = [kpc EXCEPT ![c] = "pwait"]
                       /\ kgmr' = [kgmr EXCEPT ![c] = Head(retqueue.ring)]
                  <4>1. /\ Head(retqueue.ring) \in Requests \cup {Nothing}
                        /\ Head(retqueue.ring) # Nothing
                        BY <3>2, <3>7, NothingIsNoRequest
                  <4> QED
                        BY <1>1, <2>1, <2>2, <2>3, <3>1, <3>2, <3>4, <3>7, <4>1, CallerBase
            <3> QED
                  BY <3>5, <3>6, <3>7
      <2>9. CASE PutReplyBack(c)
            <3>1. /\ kpc[c] = "plock" /\ retqueue' = queue_write(retqueue, kgmr[c])
                  /\ kpc' = [kpc EXCEPT ![c] = "rwait"]
                  /\ kgmr' = [kgmr EXCEPT ![c] = Nothing]
                  /\ UNCHANGED <<workqueue, returned>>
                  BY <2>9 DEF PutReplyBack, PutBack
            <3>2. kgmr[c] \in Requests
                  BY <1>1, <3>1 DEF BaseInv, Hands
            <3>3. /\ retqueue' \in QueueOf(Requests)
                  /\ retqueue'.active /\ retqueue'.popped = retqueue.popped
                  BY <1>1, <3>1, <3>2, WriteFacts
            <3> QED
                  BY <1>1, <2>1, <2>2, <2>3, <3>1, <3>3, CallerBase
      <2> QED
            BY <1>3, <2>6, <2>7, <2>8, <2>9 DEF CallerStep
<1>4. ASSUME NEW w \in WorkerIds, WorkerStep(w)
      PROVE  BaseInv'
      <2>1. UNCHANGED <<callerVars, dpc>>
            BY <1>4 DEF WorkerStep, WorkerWake, WorkerRead, WorkerRun, WorkerReply
      <2>2. kgmt = [kgmt EXCEPT ![w] = kgmt[w]] /\ kgmt[w] \in Requests \cup {Nothing}
            BY <1>1
      <2>3. CASE WorkerWake(w) \/ WorkerRun(w)
            <3>1. PICK p \in {"lock", "wlock", "wwait"} :
                      /\ wpc' = [wpc EXCEPT ![w] = p]
                      /\ p \in {"wlock", "wwait"} <=> wpc[w] \in {"run", "wwait", "wlock"}
                  BY <2>3 DEF WorkerWake, WorkerRun
            <3>2. UNCHANGED <<workqueue, retqueue, kgmt>>
                  BY <2>3 DEF WorkerWake, WorkerRun
            <3>3. p \in {"run", "wwait", "wlock"} <=> kgmt[w] # Nothing
                  BY <3>1 DEF BaseInv, Hands
            <3> QED
                  BY <1>1, <2>1, <2>2, <3>1, <3>2, <3>3, WorkerBase
      <2>4. CASE WorkerRead(w)
            <3>1. /\ wpc[w] = "lock" /\ workqueue' = queue_read(workqueue) /\ UNCHANGED retqueue
                  /\ kgmt' = [kgmt EXCEPT ![w] =
                                  IF Reads(workqueue) THEN Head(workqueue.ring) ELSE kgmt[w]]
                  /\ wpc' = [wpc EXCEPT ![w] = IF LeaveLoop THEN "exited" ELSE "run"]
                  BY <2>4 DEF WorkerRead
            <3>2. /\ workqueue' \in QueueOf(Requests)
                  /\ workqueue'.active /\ workqueue'.popped = workqueue.popped
                  /\ Reads(workqueue) => Head(workqueue.ring) \in Requests
                  BY <1>1, <3>1, ReadFacts
            <3>3. kgmt[w] = Nothing
                  BY <3>1 DEF BaseInv, Hands
            <3>4. LeaveLoop <=> ~Reads(workqueue)
                  BY <1>1 DEF LeaveLoop, ReadReturns, Reads, Usable
            <3>5. CASE Reads(workqueue)
                  <4>1. /\ wpc' = [wpc EXCEPT ![w] = "run"]
                        /\ kgmt' = [kgmt EXCEPT ![w] = Head(workqueue.ring)]
                        BY <3>1, <3>4, <3>5
                  <4>2. Head(workqueue.ring) \in Requests \cup {Nothing} /\ Head(workqueue.ring) # Nothing
                        BY <3>2, <3>5, NothingIsNoRequest
                  <4> QED
                        BY <1>1, <2>1, <3>1, <3>2, <4>1, <4>2, WorkerBase
            <3>6. CASE ~Reads(workqueue)
                  <4>1. /\ wpc' = [wpc EXCEPT ![w] = "exited"]
                        /\ kgmt' = [kgmt EXCEPT ![w] = Nothing]
                        BY <3>1, <3>3, <3>4, <3>6
                  <4> QED
                        BY <1>1, <2>1, <3>1, <3>2, <4>1, WorkerBase
            <3> QED
                  BY <3>5, <3>6
      <2>5. CASE WorkerReply(w)
            <3>1. /\ wpc[w] = "wlock" /\ retqueue' = queue_write(retqueue, kgmt[w])
                  /\ wpc' = [wpc EXCEPT ![w] = "read"]
                  /\ kgmt' = [kgmt EXCEPT ![w] = Nothing]
                  /\ UNCHANGED workqueue
                  BY <2>5 DEF WorkerReply
            <3>2. kgmt[w] \in Requests
                  BY <1>1, <3>1 DEF BaseInv, Hands
            <3>3. /\ retqueue' \in QueueOf(Requests)
                  /\ retqueue'.active /\ retqueue'.popped = retqueue.popped
                  BY <1>1, <3>1, <3>2, WriteFacts
            <3> QED
                  BY <1>1, <2>1, <3>1, <3>3, WorkerBase
      <2> QED
            BY <1>4, <2>3, <2>4, <2>5 DEF WorkerStep
<1>5. CASE DeinitPop
      <2>1. /\ dpc = "none" /\ dpc' = "join"
            /\ \A c \in Callers : kpc[c] \in {"idle", "done"}
            /\ workqueue' = queue_pop(workqueue) /\ retqueue' = queue_pop(retqueue)
            /\ UNCHANGED <<kpc, calls, kgmr, returned, wpc, kgmt>>
            BY <1>5 DEF DeinitPop, callerVars, workerVars
      <2>2. /\ workqueue' \in QueueOf(Requests) /\ workqueue'.active /\ workqueue'.popped
            /\ retqueue' \in QueueOf(Requests) /\ retqueue'.active /\ retqueue'.popped
            BY <1>1, <2>1, PopFacts
      <2>3. TypeOK'
            BY <2>1, <2>2 DEF BaseInv, TypeOK
      <2> QED
            BY <2>1, <2>2, <2>3 DEF BaseInv, QueuesUp, Hands
<1>6. CASE DeinitJoin \/ UNCHANGED vars
      <2>1. /\ UNCHANGED <<workqueue, retqueue, kpc, calls, kgmr, returned, wpc, kgmt>>
            /\ dpc' = dpc \/ (dpc = "join" /\ dpc' = "destroyed")
            BY <1>6 DEF DeinitJoin, vars, callerVars, workerVars
      <2> QED
            BY <2>1 DEF BaseInv, TypeOK, QueuesUp, Hands
<1> QED
      BY <1>2, <1>3, <1>4, <1>5, <1>6 DEF Next, Terminated

\* The type invariant, for the three managers: the workers and callers never take an
\* empty hand for a message.
THEOREM TypeCorrect == Spec => []TypeOK
<1>1. Spec => []BaseInv
      BY InitBase, StepBase, PTL DEF Spec
<1>2. BaseInv => TypeOK
      BY DEF BaseInv
<1> QED
      BY <1>1, <1>2, PTL

-----------------------------------------------------------------------------
\* Taking the oldest message off a ring, and putting one at its end.
LEMMA TailHas ==
    ASSUME NEW r \in Seq(Requests), r # << >>, Distinct(r)
    PROVE  /\ Distinct(Tail(r)) /\ Has(r, Head(r).who)
           /\ \A c : Has(Tail(r), c) <=> Has(r, c) /\ c # Head(r).who
           /\ \A i \in DOMAIN Tail(r) : \E j \in DOMAIN r : Tail(r)[i] = r[j]
           /\ \E j \in DOMAIN r : Head(r) = r[j]
<1>1. /\ Tail(r) \in Seq(Requests) /\ Len(Tail(r)) = Len(r) - 1 /\ Head(r) = r[1]
      /\ \A i \in 1..Len(Tail(r)) : Tail(r)[i] = r[i + 1]
      BY HeadTailProperties
<1>2. Len(r) \in Nat \ {0} /\ DOMAIN r = 1..Len(r) /\ DOMAIN Tail(r) = 1..(Len(r) - 1)
      BY <1>1, LenProperties, EmptySeq
<1>3. \A i \in DOMAIN Tail(r) : i + 1 \in DOMAIN r /\ Tail(r)[i] = r[i + 1]
      BY <1>1, <1>2
<1>4. 1 \in DOMAIN r /\ Has(r, Head(r).who)
      BY <1>1, <1>2 DEF Has
<1>5. Distinct(Tail(r))
      <2> SUFFICES ASSUME NEW i \in DOMAIN Tail(r), NEW j \in DOMAIN Tail(r),
                          Tail(r)[i].who = Tail(r)[j].who
                   PROVE  i = j
            BY DEF Distinct
      <2>1. i + 1 = j + 1
            BY <1>3 DEF Distinct
      <2> QED
            BY <2>1, <1>2
<1>6. ASSUME NEW c, Has(Tail(r), c)
      PROVE  Has(r, c) /\ c # Head(r).who
      <2>1. PICK i \in DOMAIN Tail(r) : Tail(r)[i].who = c
            BY <1>6 DEF Has
      <2>2. i + 1 \in DOMAIN r /\ r[i + 1].who = c /\ i + 1 # 1
            BY <1>2, <1>3, <2>1
      <2> QED
            BY <1>1, <1>4, <2>2 DEF Has, Distinct
<1>7. ASSUME NEW c, Has(r, c), c # Head(r).who
      PROVE  Has(Tail(r), c)
      <2>1. PICK j \in DOMAIN r : r[j].who = c
            BY <1>7 DEF Has
      <2>2. j # 1
            BY <1>1, <1>7, <2>1
      <2>3. j - 1 \in DOMAIN Tail(r) /\ Tail(r)[j - 1] = r[j]
            BY <1>1, <1>2, <2>2
      <2> QED
            BY <2>1, <2>3 DEF Has
<1> QED
      BY <1>1, <1>3, <1>4, <1>5, <1>6, <1>7

LEMMA AppendHas ==
    ASSUME NEW r \in Seq(Requests), NEW m \in Requests, Distinct(r), ~Has(r, m.who)
    PROVE  /\ Distinct(Append(r, m))
           /\ \A c : Has(Append(r, m), c) <=> Has(r, c) \/ c = m.who
           /\ \A i \in DOMAIN Append(r, m) :
                 Append(r, m)[i] = m \/ \E j \in DOMAIN r : Append(r, m)[i] = r[j]
<1>1. /\ Append(r, m) \in Seq(Requests) /\ Len(Append(r, m)) = Len(r) + 1
      /\ \A i \in 1..Len(r) : Append(r, m)[i] = r[i]
      /\ Append(r, m)[Len(r) + 1] = m
      BY AppendProperties
<1>2. Len(r) \in Nat /\ DOMAIN r = 1..Len(r) /\ DOMAIN Append(r, m) = 1..(Len(r) + 1)
      BY <1>1, LenProperties
<1>3. \A i \in DOMAIN Append(r, m) :
          \/ i = Len(r) + 1 /\ Append(r, m)[i] = m
          \/ i \in DOMAIN r /\ Append(r, m)[i] = r[i]
      BY <1>1, <1>2
<1>4. Distinct(Append(r, m))
      BY <1>3 DEF Distinct, Has
<1>5. \A i \in DOMAIN r : i \in DOMAIN Append(r, m) /\ Append(r, m)[i] = r[i]
      BY <1>1, <1>2
<1>6. Len(r) + 1 \in DOMAIN Append(r, m)
      BY <1>2
<1>7. \A c : Has(Append(r, m), c) <=> Has(r, c) \/ c = m.who
      BY <1>1, <1>3, <1>5, <1>6 DEF Has
<1> QED
      BY <1>3, <1>4, <1>7

\* No message of a caller that is not in the reply loop is anywhere.
LEMMA NoneOutside ==
    ASSUME BaseInv, MessageInv, NEW c \in Callers, ~InReplyLoop(c)
    PROVE  /\ ~Has(workqueue.ring, c) /\ ~Has(retqueue.ring, c)
           /\ \A w \in WorkerIds : kgmt[w].who # c
           /\ \A d \in Callers : kgmr[d].who # c
<1>1. Nothing.who # c
      BY ManagerAssumption DEF Nothing
<1> QED
      BY <1>1 DEF MessageInv, AllAwaited, Awaited, Has

\* Who is where, of everything but the rings.
LEMMA Whos ==
    ASSUME BaseInv
    PROVE  /\ workqueue.ring \in Seq(Requests) /\ retqueue.ring \in Seq(Requests)
           /\ kpc \in [Callers -> {"idle", "wwait", "wlock", "rwait", "rlock", "pwait", "plock",
                                    "done"}]
           /\ calls \in [Callers -> 0..MaxCalls]
           /\ kgmr \in [Callers -> Requests \cup {Nothing}]
           /\ kgmt \in [WorkerIds -> Requests \cup {Nothing}]
           /\ \A m \in Requests : m.who \in Callers
           /\ \A c \in Callers : Nothing.who # c
BY ManagerAssumption DEF BaseInv, TypeOK, QueueOf, Requests, Nothing

\* A step that changes what is awaited only of a caller that has no message, if of any.
LEMMA AwaitedStays ==
    ASSUME NEW m, Awaited(m), InReplyLoop(m.who)', calls'[m.who] = calls[m.who]
    PROVE  Awaited(m)'
BY DEF Awaited, InReplyLoop

\* A caller moves on and the messages stay where they are.
LEMMA CallerMoves ==
    ASSUME BaseInv, MessageInv, NEW c \in Callers,
           \A d \in Callers : d # c => kpc'[d] = kpc[d] /\ calls'[d] = calls[d],
           InReplyLoop(c) => InReplyLoop(c)' /\ calls'[c] = calls[c],
           workqueue'.ring = workqueue.ring, retqueue'.ring = retqueue.ring,
           kgmr' = kgmr, kgmt' = kgmt
    PROVE  MessageInv'
<1>1. OnePlace'
      BY DEF MessageInv, OnePlace, Has, Distinct
<1>2. ASSUME NEW m, Awaited(m)
      PROVE  Awaited(m)'
      <2>1. InReplyLoop(m.who)' /\ calls'[m.who] = calls[m.who]
            BY <1>2 DEF Awaited, InReplyLoop
      <2> QED
            BY <1>2, <2>1, AwaitedStays
<1>3. AllAwaited'
      BY <1>2 DEF MessageInv, AllAwaited
<1> QED
      BY <1>1, <1>3 DEF MessageInv

LEMMA SameMessages ==
    ASSUME MessageInv,
           UNCHANGED <<workqueue.ring, retqueue.ring, kpc, calls, kgmr, kgmt>>
    PROVE  MessageInv'
<1>1. OnePlace'
      BY DEF MessageInv, OnePlace
<1>2. AllAwaited'
      BY DEF MessageInv, AllAwaited, Awaited, InReplyLoop
<1> QED
      BY <1>1, <1>2 DEF MessageInv

\* A caller queues its request: there was no message of it before.
LEMMA PostMessage ==
    ASSUME BaseInv, MessageInv, NEW c \in Callers, PostRequest(c)
    PROVE  MessageInv'
<1>1. /\ kpc[c] = "wlock" /\ workqueue' = queue_write(workqueue, Mine(c))
      /\ UNCHANGED <<retqueue, calls, kgmr, wpc, kgmt, dpc>>
      /\ kpc' = [kpc EXCEPT ![c] = IF WriteReturns(workqueue, TRUE) THEN "rwait" ELSE "done"]
      BY DEF PostRequest, workerVars
<1>2. ~InReplyLoop(c) /\ dpc = "none"
      BY <1>1 DEF InReplyLoop, BaseInv, QueuesUp
<1>3. /\ workqueue \in QueueOf(Requests) /\ workqueue.active /\ Usable(workqueue)
      /\ Mine(c) \in Requests /\ Mine(c).who = c /\ Mine(c).call = calls[c]
      <2>1. calls[c] \in 1..MaxCalls
            BY <1>1, ManagerAssumption DEF BaseInv, TypeOK, Hands
      <2> QED
            BY <1>2, <2>1 DEF BaseInv, TypeOK, QueuesUp, Usable, Mine, Requests
<1>4. workqueue'.ring = IF Writes(workqueue) THEN Append(workqueue.ring, Mine(c)) ELSE workqueue.ring
      BY <1>1, <1>3, WriteFacts
<1>5. \A d \in Callers : d # c => kpc'[d] = kpc[d] /\ calls'[d] = calls[d]
      BY <1>1, Whos
<1>6. CASE ~Writes(workqueue)
      BY <1>1, <1>2, <1>4, <1>5, <1>6, CallerMoves
<1>7. CASE Writes(workqueue)
      <2>1. InReplyLoop(c)' /\ \A d \in Callers : InReplyLoop(d) => InReplyLoop(d)'
            BY <1>1, <1>3, <1>5, <1>7, Whos DEF InReplyLoop, WriteReturns
      <2>2. /\ ~Has(workqueue.ring, c) /\ ~Has(retqueue.ring, c)
            /\ \A w \in WorkerIds : kgmt[w].who # c
            /\ \A d \in Callers : kgmr[d].who # c
            BY <1>2, NoneOutside
      <2>3. /\ Distinct(workqueue'.ring)
            /\ \A d : Has(workqueue'.ring, d) <=> Has(workqueue.ring, d) \/ d = c
            /\ \A i \in DOMAIN workqueue'.ring :
                  workqueue'.ring[i] = Mine(c) \/ \E j \in DOMAIN workqueue.ring :
                                                    workqueue'.ring[i] = workqueue.ring[j]
            <3>1. /\ workqueue.ring \in Seq(Requests) /\ Distinct(workqueue.ring)
                  /\ ~Has(workqueue.ring, Mine(c).who)
                  BY <1>3, <2>2, Whos DEF MessageInv, OnePlace
            <3>2. workqueue'.ring = Append(workqueue.ring, Mine(c))
                  BY <1>4, <1>7
            <3> QED
                  BY <1>3, <3>1, <3>2, AppendHas
      <2>4. OnePlace'
            BY <1>1, <2>2, <2>3 DEF MessageInv, OnePlace
      <2>5. AllAwaited'
            <3>1. ASSUME NEW m, Awaited(m)
                  PROVE  Awaited(m)'
                  BY <1>1, <2>1, <3>1 DEF Awaited, InReplyLoop
            <3>2. ASSUME NEW m, m = Mine(c)
                  PROVE  Awaited(m)'
                  BY <1>1, <1>3, <2>1, <3>2 DEF Awaited, InReplyLoop
            <3>3. \A i \in DOMAIN workqueue'.ring : Awaited(workqueue.ring[i])'
                  BY <2>3, <3>1, <3>2 DEF MessageInv, AllAwaited
            <3> QED
                  BY <1>1, <3>1, <3>3 DEF MessageInv, AllAwaited
      <2> QED
            BY <2>4, <2>5 DEF MessageInv
<1> QED
      BY <1>6, <1>7

\* A worker takes the oldest request into its hand.
LEMMA WorkerReadMessage ==
    ASSUME BaseInv, MessageInv, NEW w \in WorkerIds, WorkerRead(w)
    PROVE  MessageInv'
<1> DEFINE h == Head(workqueue.ring)
<1>1. /\ wpc[w] = "lock" /\ workqueue' = queue_read(workqueue)
      /\ kgmt' = [kgmt EXCEPT ![w] = IF Reads(workqueue) THEN h ELSE @]
      /\ UNCHANGED <<retqueue, kpc, calls, kgmr>>
      BY DEF WorkerRead, callerVars
<1>2. /\ workqueue'.ring = IF Reads(workqueue) THEN Tail(workqueue.ring) ELSE workqueue.ring
      /\ Reads(workqueue) => workqueue.ring # << >> /\ h \in Requests
      BY <1>1, ReadFacts DEF BaseInv, TypeOK, QueuesUp
<1>3. ASSUME NEW m, Awaited(m)
      PROVE  Awaited(m)'
      BY <1>1, <1>3 DEF Awaited, InReplyLoop
<1>4. CASE ~Reads(workqueue)
      <2>1. kgmt' = kgmt /\ workqueue'.ring = workqueue.ring
            BY <1>1, <1>2, <1>4, Whos
      <2>2. OnePlace'
            BY <1>1, <2>1 DEF MessageInv, OnePlace
      <2>3. AllAwaited'
            BY <1>1, <1>3, <2>1 DEF MessageInv, AllAwaited
      <2> QED
            BY <2>2, <2>3 DEF MessageInv
<1>5. CASE Reads(workqueue)
      <2>1. kgmt'[w] = h /\ \A v \in WorkerIds : v # w => kgmt'[v] = kgmt[v]
            BY <1>1, <1>5, Whos
      <2>2. /\ Distinct(workqueue'.ring) /\ Has(workqueue.ring, h.who)
            /\ \A d : Has(workqueue'.ring, d) <=> Has(workqueue.ring, d) /\ d # h.who
            /\ \A i \in DOMAIN workqueue'.ring : \E j \in DOMAIN workqueue.ring :
                  workqueue'.ring[i] = workqueue.ring[j]
            /\ \E j \in DOMAIN workqueue.ring : h = workqueue.ring[j]
            BY <1>2, <1>5, TailHas, Whos DEF MessageInv, OnePlace
      <2> HIDE DEF h
      <2>3. h.who \in Callers /\ kgmt[w].who \notin Callers
            BY <1>1, <1>2, <1>5, Whos DEF BaseInv, Hands
      <2>4. OnePlace'
            <3>1. Distinct(workqueue'.ring) /\ Distinct(retqueue'.ring)
                  BY <1>1, <2>2 DEF MessageInv, OnePlace
            <3>2. ASSUME NEW c \in Callers
                  PROVE  /\ Has(workqueue'.ring, c) => ~Has(retqueue'.ring, c)
                         /\ Has(workqueue'.ring, c) \/ Has(retqueue'.ring, c) =>
                               /\ \A v \in WorkerIds : kgmt'[v].who # c
                               /\ \A d \in Callers : kgmr'[d].who # c
                         /\ \A v, u \in WorkerIds : kgmt'[v].who = c /\ kgmt'[u].who = c => v = u
                         /\ \A d, e \in Callers : kgmr'[d].who = c /\ kgmr'[e].who = c => d = e
                         /\ \A v \in WorkerIds, d \in Callers :
                               ~(kgmt'[v].who = c /\ kgmr'[d].who = c)
                  BY <1>1, <2>1, <2>2, <2>3 DEF MessageInv, OnePlace
            <3> QED
                  BY <3>1, <3>2 DEF OnePlace
      <2>5. AllAwaited'
            <3>1. Awaited(h)
                  BY <2>2 DEF MessageInv, AllAwaited
            <3>2. \A i \in DOMAIN workqueue'.ring : Awaited(workqueue.ring[i])'
                  BY <1>3, <2>2 DEF MessageInv, AllAwaited
            <3>3. \A v \in WorkerIds : kgmt'[v] # Nothing => Awaited(kgmt[v])'
                  BY <1>3, <2>1, <3>1 DEF MessageInv, AllAwaited
            <3> QED
                  BY <1>1, <1>3, <3>2, <3>3 DEF MessageInv, AllAwaited
      <2> QED
            BY <2>4, <2>5 DEF MessageInv
<1> QED
      BY <1>4, <1>5

\* A worker's reply goes to the end of retqueue, or is lost if that is full.
LEMMA WorkerReplyMessage ==
    ASSUME BaseInv, MessageInv, NEW w \in WorkerIds, WorkerReply(w)
    PROVE  MessageInv'
<1> DEFINE m == kgmt[w]
<1>1. /\ wpc[w] = "wlock" /\ retqueue' = queue_write(retqueue, m)
      /\ kgmt' = [kgmt EXCEPT ![w] = Nothing]
      /\ UNCHANGED <<workqueue, kpc, calls, kgmr>>
      BY DEF WorkerReply, callerVars
<1>2. m \in Requests /\ m # Nothing /\ m.who \in Callers
      BY <1>1, Whos DEF BaseInv, Hands
<1>3. retqueue'.ring = IF Writes(retqueue) THEN Append(retqueue.ring, m) ELSE retqueue.ring
      BY <1>1, <1>2, WriteFacts DEF BaseInv, TypeOK, QueuesUp
<1>4. kgmt'[w] = Nothing /\ \A v \in WorkerIds : v # w => kgmt'[v] = kgmt[v]
      BY <1>1, Whos
<1>5. Distinct(retqueue.ring) /\ ~Has(retqueue.ring, m.who)
      BY <1>2 DEF MessageInv, OnePlace
<1>6. ASSUME NEW x, Awaited(x)
      PROVE  Awaited(x)'
      BY <1>1, <1>6 DEF Awaited, InReplyLoop
<1>7. Awaited(m)
      BY <1>2 DEF MessageInv, AllAwaited
<1>8. /\ Distinct(retqueue'.ring)
      /\ \A d : Has(retqueue'.ring, d) => Has(retqueue.ring, d) \/ d = m.who
      /\ \A i \in DOMAIN retqueue'.ring :
            retqueue'.ring[i] = m \/ \E j \in DOMAIN retqueue.ring :
                                         retqueue'.ring[i] = retqueue.ring[j]
      <2>1. CASE Writes(retqueue)
            BY <1>2, <1>3, <1>5, <2>1, AppendHas, Whos
      <2>2. CASE ~Writes(retqueue)
            BY <1>3, <1>5, <2>2
      <2> QED
            BY <2>1, <2>2
<1>9. OnePlace'
      <2>1. Distinct(workqueue'.ring) /\ Distinct(retqueue'.ring)
            BY <1>1, <1>8 DEF MessageInv, OnePlace
      <2>2. ASSUME NEW c \in Callers
            PROVE  /\ Has(workqueue'.ring, c) => ~Has(retqueue'.ring, c)
                   /\ Has(workqueue'.ring, c) \/ Has(retqueue'.ring, c) =>
                         /\ \A v \in WorkerIds : kgmt'[v].who # c
                         /\ \A d \in Callers : kgmr'[d].who # c
                   /\ \A v, u \in WorkerIds : kgmt'[v].who = c /\ kgmt'[u].who = c => v = u
                   /\ \A d, e \in Callers : kgmr'[d].who = c /\ kgmr'[e].who = c => d = e
                   /\ \A v \in WorkerIds, d \in Callers :
                         ~(kgmt'[v].who = c /\ kgmr'[d].who = c)
            BY <1>1, <1>4, <1>8, Whos DEF MessageInv, OnePlace
      <2> QED
            BY <2>1, <2>2 DEF OnePlace
<1>10. AllAwaited'
      <2>1. \A i \in DOMAIN retqueue'.ring : Awaited(retqueue.ring[i])'
            BY <1>6, <1>7, <1>8 DEF MessageInv, AllAwaited
      <2>2. \A v \in WorkerIds : kgmt'[v] # Nothing => Awaited(kgmt[v])'
            BY <1>4, <1>6 DEF MessageInv, AllAwaited
      <2> QED
            BY <1>1, <1>6, <2>1, <2>2 DEF MessageInv, AllAwaited
<1> QED
      BY <1>9, <1>10 DEF MessageInv

\* A caller puts back a reply that was not its own.
LEMMA PutBackMessage ==
    ASSUME BaseInv, MessageInv, NEW c \in Callers, PutReplyBack(c)
    PROVE  MessageInv'
<1> DEFINE m == kgmr[c]
<1>1. /\ kpc[c] = "plock" /\ retqueue' = queue_write(retqueue, m)
      /\ kpc' = [kpc EXCEPT ![c] = "rwait"] /\ kgmr' = [kgmr EXCEPT ![c] = Nothing]
      /\ UNCHANGED <<workqueue, calls, kgmt>>
      BY DEF PutReplyBack, PutBack, workerVars
<1>2. m \in Requests /\ m # Nothing /\ m.who \in Callers
      BY <1>1, Whos DEF BaseInv, Hands
<1>3. retqueue'.ring = IF Writes(retqueue) THEN Append(retqueue.ring, m) ELSE retqueue.ring
      BY <1>1, <1>2, WriteFacts DEF BaseInv, TypeOK, QueuesUp
<1>4. kgmr'[c] = Nothing /\ \A d \in Callers : d # c => kgmr'[d] = kgmr[d]
      BY <1>1, Whos
<1>5. Distinct(retqueue.ring) /\ ~Has(retqueue.ring, m.who)
      BY <1>2 DEF MessageInv, OnePlace
<1>6. ASSUME NEW x, Awaited(x)
      PROVE  Awaited(x)'
      <2>1. kpc'[c] = "rwait" /\ \A d \in Callers : d # c => kpc'[d] = kpc[d]
            BY <1>1, Whos
      <2> QED
            BY <1>1, <1>6, <2>1 DEF Awaited, InReplyLoop
<1>7. Awaited(m)
      BY <1>2 DEF MessageInv, AllAwaited
<1>8. /\ Distinct(retqueue'.ring)
      /\ \A d : Has(retqueue'.ring, d) => Has(retqueue.ring, d) \/ d = m.who
      /\ \A i \in DOMAIN retqueue'.ring :
            retqueue'.ring[i] = m \/ \E j \in DOMAIN retqueue.ring :
                                         retqueue'.ring[i] = retqueue.ring[j]
      <2>1. CASE Writes(retqueue)
            BY <1>2, <1>3, <1>5, <2>1, AppendHas, Whos
      <2>2. CASE ~Writes(retqueue)
            BY <1>3, <1>5, <2>2
      <2> QED
            BY <2>1, <2>2
<1>9. OnePlace'
      <2>1. Distinct(workqueue'.ring) /\ Distinct(retqueue'.ring)
            BY <1>1, <1>8 DEF MessageInv, OnePlace
      <2>2. ASSUME NEW a \in Callers
            PROVE  /\ Has(workqueue'.ring, a) => ~Has(retqueue'.ring, a)
                   /\ Has(workqueue'.ring, a) \/ Has(retqueue'.ring, a) =>
                         /\ \A v \in WorkerIds : kgmt'[v].who # a
                         /\ \A d \in Callers : kgmr'[d].who # a
                   /\ \A v, u \in WorkerIds : kgmt'[v].who = a /\ kgmt'[u].who = a => v = u
                   /\ \A d, e \in Callers : kgmr'[d].who = a /\ kgmr'[e].who = a => d = e
                   /\ \A v \in WorkerIds, d \in Callers :
                         ~(kgmt'[v].who = a /\ kgmr'[d].who = a)
            BY <1>1, <1>4, <1>8, Whos DEF MessageInv, OnePlace
      <2> QED
            BY <2>1, <2>2 DEF OnePlace
<1>10. AllAwaited'
      <2>1. \A i \in DOMAIN retqueue'.ring : Awaited(retqueue.ring[i])'
            BY <1>6, <1>7, <1>8 DEF MessageInv, AllAwaited
      <2>2. \A d \in Callers : kgmr'[d] # Nothing => Awaited(kgmr[d])'
            BY <1>4, <1>6 DEF MessageInv, AllAwaited
      <2> QED
            BY <1>1, <1>6, <2>1, <2>2 DEF MessageInv, AllAwaited
<1> QED
      BY <1>9, <1>10 DEF MessageInv

\* A caller takes the oldest reply: its own one, which is the last message of it, or
\* another caller's, or none; then the CPU manager tries again.
LEMMA ReadReplyMessage ==
    ASSUME RetryRead, BaseInv, MessageInv, NEW c \in Callers, ReadReply(c)
    PROVE  MessageInv' /\ (kpc'[c] = "done" => returned'[c] = Mine(c))
<1> DEFINE h == Head(retqueue.ring)
<1>1. /\ kpc[c] = "rlock" /\ retqueue' = queue_read(retqueue)
      /\ UNCHANGED <<workqueue, calls, kgmt, dpc>>
      BY DEF ReadReply, workerVars
<1>2. /\ retqueue'.ring = IF Reads(retqueue) THEN Tail(retqueue.ring) ELSE retqueue.ring
      /\ Reads(retqueue) => retqueue.ring # << >> /\ h \in Requests
      BY <1>1, ReadFacts DEF BaseInv, TypeOK, QueuesUp
<1>3. dpc = "none" /\ Usable(retqueue)
      BY <1>1 DEF BaseInv, QueuesUp, Usable
<1>4. /\ kpc \in [Callers -> {"idle", "wwait", "wlock", "rwait", "rlock", "pwait", "plock",
                               "done"}]
      /\ returned \in [Callers -> Requests \cup {Nothing}]
      /\ kgmr \in [Callers -> Requests \cup {Nothing}]
      BY DEF BaseInv, TypeOK
<1>5. CASE ~Reads(retqueue)
      <2>1. /\ kpc' = [kpc EXCEPT ![c] = "rwait"] /\ kgmr' = kgmr
            /\ retqueue'.ring = retqueue.ring
            BY <1>2, <1>5 DEF ReadReply
      <2>2. kpc'[c] = "rwait" /\ \A d \in Callers : d # c => kpc'[d] = kpc[d]
            BY <1>4, <2>1
      <2>3. InReplyLoop(c) /\ InReplyLoop(c)'
            BY <1>1, <2>2 DEF InReplyLoop
      <2> QED
            BY <1>1, <2>1, <2>2, <2>3, CallerMoves
<1>6. CASE Reads(retqueue)
      <2>1. ReadReturns(retqueue, TRUE)
            BY <1>3, <1>6 DEF ReadReturns
      <2>2. IF h.who = c
              THEN /\ kpc' = [kpc EXCEPT ![c] = "done"]
                   /\ returned' = [returned EXCEPT ![c] = h]
                   /\ kgmr' = kgmr
              ELSE /\ kpc' = [kpc EXCEPT ![c] = "pwait"]
                   /\ kgmr' = [kgmr EXCEPT ![c] = h]
            BY <1>6, <2>1 DEF ReadReply, IsOurs
      <2>3. /\ Distinct(retqueue'.ring) /\ Has(retqueue.ring, h.who)
            /\ \A d : Has(retqueue'.ring, d) <=> Has(retqueue.ring, d) /\ d # h.who
            /\ \A i \in DOMAIN retqueue'.ring : \E j \in DOMAIN retqueue.ring :
                  retqueue'.ring[i] = retqueue.ring[j]
            /\ \E j \in DOMAIN retqueue.ring : h = retqueue.ring[j]
            BY <1>2, <1>6, TailHas, Whos DEF MessageInv, OnePlace
      <2>4. h \in Requests /\ h.who \in Callers /\ Awaited(h)
            BY <1>2, <1>6, <2>3, Whos DEF MessageInv, AllAwaited
      <2> HIDE DEF h
      <2>5. kgmr[c] = Nothing /\ kgmr[c].who \notin Callers
            BY <1>1, Whos DEF BaseInv, Hands
      <2>6. CASE h.who = c
            <3>1. kpc'[c] = "done" /\ \A d \in Callers : d # c => kpc'[d] = kpc[d]
                  BY <1>4, <2>2, <2>6
            <3>2. returned'[c] = h /\ h = Mine(c)
                  BY <1>4, <2>2, <2>4, <2>6 DEF Awaited, Mine, Requests
            <3>3. ASSUME NEW x, Awaited(x), x.who # c
                  PROVE  Awaited(x)'
                  BY <1>1, <3>1, <3>3 DEF Awaited, InReplyLoop
            <3>4. /\ ~Has(workqueue.ring, c) /\ ~Has(retqueue'.ring, c)
                  /\ \A w \in WorkerIds : kgmt[w].who # c
                  /\ \A d \in Callers : kgmr[d].who # c
                  BY <2>3, <2>6 DEF MessageInv, OnePlace
            <3>5. OnePlace'
                  BY <1>1, <2>2, <2>3, <2>6 DEF MessageInv, OnePlace
            <3>6. AllAwaited'
                  <4>1. \A i \in DOMAIN retqueue'.ring : Awaited(retqueue.ring[i])'
                        <5>1. \A i \in DOMAIN retqueue'.ring : retqueue'.ring[i].who # c
                              BY <3>4 DEF Has
                        <5> QED
                              BY <2>3, <3>3, <5>1 DEF MessageInv, AllAwaited
                  <4>2. \A i \in DOMAIN workqueue'.ring : Awaited(workqueue.ring[i])'
                        BY <1>1, <3>3, <3>4 DEF MessageInv, AllAwaited, Has
                  <4> QED
                        BY <1>1, <2>2, <2>6, <3>3, <3>4, <4>1, <4>2 DEF MessageInv, AllAwaited
            <3> QED
                  BY <3>2, <3>5, <3>6 DEF MessageInv
      <2>7. CASE h.who # c
            <3>1. kpc'[c] = "pwait" /\ \A d \in Callers : d # c => kpc'[d] = kpc[d]
                  BY <1>4, <2>2, <2>7
            <3>2. kgmr'[c] = h /\ \A d \in Callers : d # c => kgmr'[d] = kgmr[d]
                  BY <1>4, <2>2, <2>7
            <3>3. ASSUME NEW x, Awaited(x)
                  PROVE  Awaited(x)'
                  BY <1>1, <3>1, <3>3 DEF Awaited, InReplyLoop
            <3>4. OnePlace'
                  <4>1. Distinct(workqueue'.ring) /\ Distinct(retqueue'.ring)
                        BY <1>1, <2>3 DEF MessageInv, OnePlace
                  <4>2. ASSUME NEW a \in Callers
                        PROVE  /\ Has(workqueue'.ring, a) => ~Has(retqueue'.ring, a)
                               /\ Has(workqueue'.ring, a) \/ Has(retqueue'.ring, a) =>
                                     /\ \A v \in WorkerIds : kgmt'[v].who # a
                                     /\ \A d \in Callers : kgmr'[d].who # a
                               /\ \A v, u \in WorkerIds :
                                     kgmt'[v].who = a /\ kgmt'[u].who = a => v = u
                               /\ \A d, e \in Callers :
                                     kgmr'[d].who = a /\ kgmr'[e].who = a => d = e
                               /\ \A v \in WorkerIds, d \in Callers :
                                     ~(kgmt'[v].who = a /\ kgmr'[d].who = a)
                        BY <1>1, <2>3, <2>4, <2>5, <3>2 DEF MessageInv, OnePlace
                  <4> QED
                        BY <4>1, <4>2 DEF OnePlace
            <3>5. AllAwaited'
                  <4>1. \A i \in DOMAIN retqueue'.ring : Awaited(retqueue.ring[i])'
                        BY <2>3, <3>3 DEF MessageInv, AllAwaited
                  <4>2. \A d \in Callers : kgmr'[d] # Nothing => Awaited(kgmr[d])'
                        BY <2>4, <3>2, <3>3 DEF MessageInv, AllAwaited
                  <4> QED
                        BY <1>1, <3>3, <4>1, <4>2 DEF MessageInv, AllAwaited
            <3> QED
                  BY <3>1, <3>4, <3>5 DEF MessageInv
      <2> QED
            BY <2>6, <2>7
<1> QED
      BY <1>5, <1>6

-----------------------------------------------------------------------------
LEMMA InitMessages == Init => MessageInv
<1> SUFFICES ASSUME Init
             PROVE  MessageInv
      OBVIOUS
<1>1. /\ workqueue.ring = << >> /\ retqueue.ring = << >>
      /\ kgmr = [c \in Callers |-> Nothing] /\ kgmt = [w \in WorkerIds |-> Nothing]
      BY DEF Init, queue_create
<1>2. \A c \in Callers : Nothing.who # c
      BY ManagerAssumption DEF Nothing
<1>3. \A i : i \notin DOMAIN << >>
      OBVIOUS
<1>4. OnePlace
      BY <1>1, <1>2, <1>3 DEF OnePlace, Has, Distinct
<1>5. AllAwaited
      BY <1>1, <1>3 DEF AllAwaited
<1> QED
      BY <1>4, <1>5 DEF MessageInv

\* With RetryRead no step loses track of a message.
LEMMA StepMessages ==
    ASSUME RetryRead, BaseInv, MessageInv, [Next]_vars
    PROVE  MessageInv'
<1>1. ASSUME NEW c \in Callers, Call(c) \/ Wake(c)
      PROVE  MessageInv'
      <2>1. /\ \A d \in Callers : d # c => kpc'[d] = kpc[d] /\ calls'[d] = calls[d]
            /\ UNCHANGED <<workqueue, retqueue, kgmr, kgmt>>
            BY <1>1, Whos DEF Call, Wake, workerVars
      <2>2. InReplyLoop(c) => InReplyLoop(c)' /\ calls'[c] = calls[c]
            BY <1>1, Whos DEF Call, Wake, InReplyLoop
      <2> QED
            BY <2>1, <2>2, CallerMoves
<1>2. ASSUME NEW w \in WorkerIds, WorkerWake(w) \/ WorkerRun(w)
      PROVE  UNCHANGED <<workqueue.ring, retqueue.ring, kpc, calls, kgmr, kgmt>>
      BY <1>2 DEF WorkerWake, WorkerRun, callerVars
<1>3. CASE DeinitPop
      <2>1. workqueue'.ring = workqueue.ring /\ retqueue'.ring = retqueue.ring
            BY <1>3, PopFacts DEF DeinitPop, BaseInv, TypeOK, QueuesUp
      <2> QED
            BY <1>3, <2>1, SameMessages DEF DeinitPop, callerVars, workerVars
<1>4. CASE DeinitJoin \/ UNCHANGED vars
      BY <1>4, SameMessages DEF DeinitJoin, vars, callerVars, workerVars
<1> QED
      BY <1>1, <1>2, <1>3, <1>4, SameMessages, PostMessage, ReadReplyMessage, PutBackMessage,
         WorkerReadMessage, WorkerReplyMessage
      DEF Next, CallerStep, WorkerStep, Terminated

\* NothingLeftBehind for the CPU manager: a caller that has returned has no request
\* queued or running and no reply under way, whoever else calls.
THEOREM NothingLeftBehindHolds ==
    ASSUME RetryRead
    PROVE  Spec => []NothingLeftBehind
<1>1. Spec => []BaseInv
      BY InitBase, StepBase, PTL DEF Spec
<1>2. BaseInv /\ MessageInv /\ [Next]_vars => MessageInv'
      BY StepMessages
<1>3. Spec => []MessageInv
      BY <1>1, <1>2, InitMessages, PTL DEF Spec
<1>4. BaseInv /\ MessageInv => NothingLeftBehind
      <2> SUFFICES ASSUME BaseInv, MessageInv, NEW c \in Callers, kpc[c] \in {"idle", "done"}
                   PROVE  /\ ~Has(workqueue.ring, c) /\ ~Has(retqueue.ring, c)
                          /\ \A w \in WorkerIds : kgmt[w].who # c
                          /\ \A d \in Callers : kgmr[d].who # c
            BY DEF NothingLeftBehind, InRing, Has
      <2> QED
            BY NoneOutside DEF InReplyLoop
<1> QED
      BY <1>1, <1>3, <1>4, PTL

\* A queue as deep as there are callers has room for a caller that has no request in it.
LEMMA RoomForRequest ==
    ASSUME IsFiniteSet(Callers), Cardinality(Callers) <= QueueDepth,
           BaseInv, MessageInv, NEW c \in Callers, ~InReplyLoop(c)
    PROVE  HasSpace(workqueue.ring)
<1> DEFINE r == workqueue.ring
           others == Callers \ {c}
           f == [i \in 1..Len(r) |-> r[i].who]
<1>1. /\ r \in Seq(Requests) /\ Len(r) \in Nat /\ DOMAIN r = 1..Len(r)
      /\ \A i \in 1..Len(r) : r[i].who \in Callers
      BY Whos, LenProperties, ElementOfSeq
<1>2. ~Has(r, c) /\ Distinct(r)
      BY NoneOutside DEF MessageInv, OnePlace
<1>3. f \in [1..Len(r) -> others]
      BY <1>1, <1>2 DEF Has
<1>4. IsFiniteSet(1..Len(r)) /\ Cardinality(1..Len(r)) = Len(r)
      BY <1>1, FS_Interval
<1>5. /\ IsFiniteSet(others) /\ Cardinality(others) = Cardinality(Callers) - 1
      /\ Cardinality(Callers) \in Nat
      BY FS_RemoveElement, FS_CardinalityType
<1>6. \A i, j \in 1..Len(r) : f[i] = f[j] => i = j
      BY <1>1, <1>2 DEF Distinct
<1> HIDE DEF f, others, r
<1>7. ~(Cardinality(others) < Cardinality(1..Len(r)))
      BY <1>3, <1>4, <1>5, <1>6, FS_PigeonHole
<1>8. Len(r) < QueueDepth
      BY <1>1, <1>4, <1>5, <1>7, QueueAssumption
<1> QED
      BY <1>8 DEF HasSpace, r

\* ReturnsOwnReply for the CPU manager with a queue as deep as it has callers: a call
\* never returns without the reply to its own, latest request.
THEOREM ReturnsOwnReplyHolds ==
    ASSUME RetryRead, IsFiniteSet(Callers), Cardinality(Callers) <= QueueDepth
    PROVE  Spec => []ReturnsOwnReply
<1>1. Spec => []BaseInv
      BY InitBase, StepBase, PTL DEF Spec
<1>2. BaseInv /\ MessageInv /\ [Next]_vars => MessageInv'
      BY StepMessages
<1>3. Init => ReturnsOwnReply
      BY DEF Init, ReturnsOwnReply
<1>4. BaseInv /\ MessageInv /\ ReturnsOwnReply /\ [Next]_vars => ReturnsOwnReply'
      <2> SUFFICES ASSUME BaseInv, MessageInv, ReturnsOwnReply, [Next]_vars
                   PROVE  ReturnsOwnReply'
            OBVIOUS
      <2>1. /\ kpc \in [Callers -> {"idle", "wwait", "wlock", "rwait", "rlock", "pwait", "plock",
                                     "done"}]
            /\ calls \in [Callers -> 0..MaxCalls]
            /\ returned \in [Callers -> Requests \cup {Nothing}]
            BY DEF BaseInv, TypeOK
      <2>2. ASSUME NEW c \in Callers, Call(c) \/ CallerStep(c)
            PROVE  ReturnsOwnReply'
            <3>1. \A d \in Callers : d # c =>
                      kpc'[d] = kpc[d] /\ calls'[d] = calls[d] /\ returned'[d] = returned[d]
                  BY <2>1, <2>2
                  DEF Call, CallerStep, Wake, PostRequest, ReadReply, PutReplyBack
            <3>2. kpc'[c] = "done" => returned'[c] = [who |-> c, call |-> calls'[c]]
                  <4>1. CASE PostRequest(c)
                        <5>1. kpc[c] = "wlock" /\ ~InReplyLoop(c)
                              BY <4>1 DEF PostRequest, InReplyLoop
                        <5>2. Usable(workqueue)
                              BY <5>1 DEF BaseInv, QueuesUp, Usable
                        <5>3. WriteReturns(workqueue, TRUE)
                              BY <5>1, <5>2, RoomForRequest DEF WriteReturns, Writes
                        <5>4. kpc'[c] = "rwait"
                              BY <2>1, <4>1, <5>3 DEF PostRequest
                        <5> QED
                              BY <5>4
                  <4>2. CASE ReadReply(c)
                        <5>1. kpc'[c] = "done" => returned'[c] = Mine(c)
                              BY <4>2, ReadReplyMessage
                        <5>2. calls' = calls
                              BY <4>2 DEF ReadReply
                        <5> QED
                              BY <5>1, <5>2 DEF Mine
                  <4>3. CASE Call(c) \/ Wake(c) \/ PutReplyBack(c)
                        BY <2>1, <4>3 DEF Call, Wake, PutReplyBack
                  <4> QED
                        BY <2>2, <4>1, <4>2, <4>3 DEF CallerStep
            <3> QED
                  BY <3>1, <3>2 DEF ReturnsOwnReply, Mine
      <2>3. CASE UNCHANGED callerVars
            BY <2>3 DEF callerVars, ReturnsOwnReply, Mine
      <2> QED
            BY <2>2, <2>3
            DEF Next, WorkerStep, WorkerWake, WorkerRead, WorkerRun, WorkerReply, DeinitPop,
                DeinitJoin, Terminated, vars
<1> QED
      BY <1>1, <1>2, <1>3, <1>4, InitMessages, PTL DEF Spec
=============================================================================
