-------------------------- MODULE ThreadPoolProofs --------------------------
(***************************************************************************)
(* Proofs about the thread pool, for any number of workers and clients, any*)
(* depth of the queues and any batches of items.                           *)
(*                                                                         *)
(* An accepted item moves from the queue of a worker to the worker's data  *)
(* and out of the pool.  The inductive invariant says that it is in one    *)
(* place only, that numCurrentItems counts these places, and how often the *)
(* item has been run at each of them.                                      *)
(***************************************************************************)
EXTENDS ThreadPool, FiniteSetTheorems, SequenceTheorems, TLAPS

\* The queues are up until threadpool_destroy pops them, the semaphore is held
\* exactly by the client inside threadpool_issue, and the event is lowered then.
Control ==
    /\ \A w \in Workers : queues[w].active
    /\ dpc = "none" => dn = 0
    /\ dpc \in {"pop", "join"} => dn < NumWorkers
    /\ \A c \in Clients : cpc[c] \in {"issue", "post"} <=> sem = c
    /\ sem # Free => ~completed
    /\ \A c \in Clients :
          /\ batch[c] > 0
          /\ cpc[c] = "issue" => /\ batch[c] \in DOMAIN Batches[c]
                                 /\ pos[c] \in DOMAIN Batches[c][batch[c]]

\* Every pending item is in one place.
Apart ==
    /\ \A w \in Workers : \A i, j \in DOMAIN queues[w].ring :
          queues[w].ring[i] = queues[w].ring[j] => i = j
    /\ \A v, w \in Workers : \A x \in Items : x \in Queued(v) /\ x \in Queued(w) => v = w
    /\ \A w \in Busy : data[w] \in Items /\ \A v \in Workers : data[w] \notin Queued(v)
    /\ \A v, w \in Busy : data[v] = data[w] => v = w

Counted == IsFiniteSet(Pending) /\ PendingTracked

\* Client c has offered item i of its batch b, and gone on.
Offered(c, b, i) ==
    \/ b < batch[c]
    \/ b = batch[c] /\ (cpc[c] = "post" \/ (cpc[c] = "issue" /\ i < pos[c]))

Taken(x) == \E c \in Clients : x \in accepted[c]

\* Only items that were offered are accepted, and only accepted ones pending.
Issued ==
    /\ \A c \in Clients : \A x \in accepted[c] :
          \E b \in DOMAIN Batches[c] : \E i \in DOMAIN Batches[c][b] :
              x = Batches[c][b][i] /\ Offered(c, b, i)
    /\ \A x \in Pending : Taken(x)

\* How often an item has been run, by where it is.
RunsByPlace ==
    /\ \A x \in Items : ~Taken(x) => runs[x] = 0
    /\ \A w \in Workers : \A x \in Queued(w) : runs[x] = 0
    /\ \A w \in Workers : /\ wpc[w] = "run" => runs[data[w]] = 0
                          /\ wpc[w] = "finish" => runs[data[w]] = 1
    /\ \A x \in Items : Taken(x) /\ x \notin Pending => runs[x] = 1

\* Nothing of a client whose threadpool_complete said so is pending.
Reported ==
    \A c \in Clients : (cpc[c] = "done" /\ ret[c]) =>
        \A x \in accepted[c] : x \notin Pending

PoolInv == TypeOK /\ Control /\ Apart /\ Counted /\ Issued /\ RunsByPlace /\ Reported

-----------------------------------------------------------------------------
\* What the operations do to a queue of items.
LEMMA WriteFacts ==
    ASSUME NEW q \in QueueOf(Items), q.active, NEW m \in Items
    PROVE  /\ queue_write(q, m) \in QueueOf(Items) /\ queue_write(q, m).active
           /\ queue_write(q, m).ring = IF Writes(q) THEN Append(q.ring, m) ELSE q.ring
           /\ WriteReturns(q, FALSE) = Writes(q)
<1>1. WriteReturns(q, FALSE) = Writes(q)
      BY DEF WriteReturns, Writes
<1>2. CASE ~Usable(q)
      <2>1. queue_write(q, m) = q /\ ~Writes(q)
            BY <1>2 DEF queue_write, Writes
      <2> QED
            BY <1>1, <2>1
<1>3. CASE Usable(q)
      <2> DEFINE r == IF Writes(q) THEN Append(q.ring, m) ELSE q.ring
                 n == IF Writes(q) THEN q.msgCount + 1 ELSE q.msgCount
                 we == HasSpace(r)
                 re == q.readEvent \/ HasData(r)
      <2>1. queue_write(q, m) = [q EXCEPT !.ring = r, !.msgCount = n, !.writeEvent = we,
                                          !.readEvent = re]
            BY <1>3 DEF queue_write
      <2>2. /\ q.ring \in Seq(Items) /\ q.msgCount \in Int
            /\ q.popped \in BOOLEAN /\ q.active \in BOOLEAN
            BY DEF QueueOf
      <2>3. r \in Seq(Items) /\ n \in Int
            BY <2>2, AppendProperties
      <2>4. we \in BOOLEAN /\ re \in BOOLEAN
            BY DEF HasSpace, HasData
      <2> HIDE DEF r, n, we, re
      <2>5. /\ queue_write(q, m) \in QueueOf(Items)
            /\ queue_write(q, m).active = q.active /\ queue_write(q, m).ring = r
            BY <2>1, <2>3, <2>4 DEF QueueOf
      <2> QED
            BY <1>1, <2>5 DEF r
<1> QED
      BY <1>2, <1>3

LEMMA ReadFacts ==
    ASSUME NEW q \in QueueOf(Items), q.active
    PROVE  /\ queue_read(q) \in QueueOf(Items) /\ queue_read(q).active
           /\ queue_read(q).ring = IF Reads(q) THEN Tail(q.ring) ELSE q.ring
           /\ Reads(q) => q.ring # << >> /\ Head(q.ring) \in Items
           /\ ReadReturns(q, TRUE) = Reads(q)
<1>1. q.ring \in Seq(Items) /\ q.msgCount \in Int /\ q.writeEvent \in BOOLEAN
      BY DEF QueueOf
<1>2. Reads(q) => q.ring # << >>
      BY <1>1 DEF Reads, HasData
<1>3. q.ring # << >> => Tail(q.ring) \in Seq(Items) /\ Head(q.ring) \in Items
      BY <1>1, HeadTailProperties
<1>4. ReadReturns(q, TRUE) = Reads(q)
      BY DEF ReadReturns, Reads, Usable, QueueOf
<1>5. CASE ~Usable(q)
      <2>1. queue_read(q) = q /\ ~Reads(q)
            BY <1>5 DEF queue_read, Reads
      <2> QED
            BY <1>4, <2>1
<1>6. CASE Usable(q)
      <2> DEFINE r == IF Reads(q) THEN Tail(q.ring) ELSE q.ring
                 n == IF Reads(q) THEN q.msgCount - 1 ELSE q.msgCount
                 we == q.writeEvent \/ HasSpace(r)
                 re == HasData(r)
      <2>1. queue_read(q) = [q EXCEPT !.ring = r, !.msgCount = n, !.writeEvent = we,
                                      !.readEvent = re]
            BY <1>6 DEF queue_read
      <2>2. r \in Seq(Items) /\ n \in Int
            BY <1>1, <1>2, <1>3
      <2>3. we \in BOOLEAN /\ re \in BOOLEAN
            BY DEF HasSpace, HasData
      <2> HIDE DEF r, n, we, re
      <2>4. /\ queue_read(q) \in QueueOf(Items)
            /\ queue_read(q).active = q.active /\ queue_read(q).ring = r
            BY <2>1, <2>2, <2>3 DEF QueueOf
      <2> QED
            BY <1>2, <1>3, <1>4, <2>4 DEF r
<1> QED
      BY <1>5, <1>6

\* The elements of a sequence after an Append and after a Tail.
Elements(r) == {r[i] : i \in DOMAIN r}
NoRepeat(r) == \A i, j \in DOMAIN r : r[i] = r[j] => i = j

LEMMA AppendElements ==
    ASSUME NEW r \in Seq(Items), NEW x \in Items
    PROVE  /\ Elements(Append(r, x)) = Elements(r) \cup {x}
           /\ NoRepeat(r) /\ x \notin Elements(r) => NoRepeat(Append(r, x))
<1>1. /\ DOMAIN r = 1..Len(r) /\ Len(r) \in Nat
      /\ DOMAIN Append(r, x) = 1..(Len(r) + 1)
      /\ \A i \in 1..Len(r) : Append(r, x)[i] = r[i]
      /\ Append(r, x)[Len(r) + 1] = x
      BY AppendProperties, LenProperties
<1>2. \A i \in 1..(Len(r) + 1) : i \in 1..Len(r) \/ i = Len(r) + 1
      BY <1>1
<1>3. 1..Len(r) \subseteq 1..(Len(r) + 1) /\ Len(r) + 1 \in 1..(Len(r) + 1)
      BY <1>1
<1>4. Elements(Append(r, x)) = Elements(r) \cup {x}
      BY <1>1, <1>2, <1>3 DEF Elements
<1>5. ASSUME NoRepeat(r), x \notin Elements(r)
      PROVE  NoRepeat(Append(r, x))
      <2>1. \A i \in 1..Len(r) : r[i] # x
            BY <1>1, <1>5 DEF Elements
      <2> QED
            BY <1>1, <1>2, <1>5, <2>1 DEF NoRepeat
<1> QED
      BY <1>4, <1>5

LEMMA TailElements ==
    ASSUME NEW r \in Seq(Items), r # << >>, NoRepeat(r)
    PROVE  /\ Elements(Tail(r)) = Elements(r) \ {Head(r)}
           /\ Head(r) \in Elements(r)
           /\ NoRepeat(Tail(r))
<1>1. /\ DOMAIN r = 1..Len(r) /\ Len(r) \in Nat /\ Len(r) > 0
      /\ DOMAIN Tail(r) = 1..(Len(r) - 1)
      /\ \A i \in 1..(Len(r) - 1) : Tail(r)[i] = r[i + 1]
      /\ Head(r) = r[1]
      BY HeadTailProperties, LenProperties, EmptySeq
<1>2. 1 \in DOMAIN r /\ \A i \in 1..(Len(r) - 1) : i + 1 \in DOMAIN r /\ i + 1 # 1
      BY <1>1
<1>3. \A i \in DOMAIN r : i = 1 \/ (i - 1 \in 1..(Len(r) - 1) /\ i = (i - 1) + 1)
      BY <1>1
<1>4. \A x : x \in Elements(Tail(r)) => x \in Elements(r) \ {Head(r)}
      BY <1>1, <1>2 DEF Elements, NoRepeat
<1>5. ASSUME NEW x \in Elements(r) \ {Head(r)}
      PROVE  x \in Elements(Tail(r))
      <2>1. PICK i \in DOMAIN r : x = r[i]
            BY DEF Elements
      <2>2. i # 1
            BY <1>1, <2>1
      <2>3. i - 1 \in DOMAIN Tail(r) /\ Tail(r)[i - 1] = x
            BY <1>1, <1>3, <2>1, <2>2
      <2> QED
            BY <2>3 DEF Elements
<1>6. Head(r) \in Elements(r)
      BY <1>1, <1>2 DEF Elements
<1>7. NoRepeat(Tail(r))
      <2>1. ASSUME NEW i \in 1..(Len(r) - 1), NEW j \in 1..(Len(r) - 1), Tail(r)[i] = Tail(r)[j]
            PROVE  i = j
            <3>1. i + 1 = j + 1
                  BY <1>1, <1>2, <2>1 DEF NoRepeat
            <3> QED
                  BY <3>1
      <2> QED
            BY <1>1, <2>1 DEF NoRepeat
<1> QED
      BY <1>4, <1>5, <1>6, <1>7

\* The next item of a client inside threadpool_issue has not been accepted.
LEMMA ItemFacts ==
    ASSUME PoolInv, NEW c \in Clients, cpc[c] = "issue"
    PROVE  LET item == Batches[c][batch[c]][pos[c]]
           IN  item \in Items /\ ~Taken(item) /\ item \notin Pending
<1> DEFINE item == Batches[c][batch[c]][pos[c]]
<1>1. batch[c] \in DOMAIN Batches[c] /\ pos[c] \in DOMAIN Batches[c][batch[c]]
      BY DEF PoolInv, Control
<1>2. item \in Items
      BY <1>1 DEF Items
<1>3. ASSUME NEW d \in Clients, item \in accepted[d]
      PROVE  FALSE
      <2>1. PICK b \in DOMAIN Batches[d] : \E i \in DOMAIN Batches[d][b] :
                 item = Batches[d][b][i] /\ Offered(d, b, i)
            BY <1>3 DEF PoolInv, Issued
      <2>2. PICK i \in DOMAIN Batches[d][b] : item = Batches[d][b][i] /\ Offered(d, b, i)
            BY <2>1
      <2>3. d = c /\ b = batch[c] /\ i = pos[c]
            BY <1>1, <2>2, PoolAssumption
      <2>4. Batches[c] \in Seq(Seq(Items))
            BY PoolAssumption
      <2>5. Batches[c][batch[c]] \in Seq(Items)
            BY <1>1, <2>4
      <2>6. pos[c] \in Nat /\ batch[c] \in Nat
            BY DEF PoolInv, TypeOK
      <2> QED
            BY <2>2, <2>3, <2>6 DEF Offered
<1>4. ~Taken(item)
      BY <1>3 DEF Taken
<1>5. item \notin Pending
      BY <1>4 DEF PoolInv, Issued
<1> QED
      BY <1>2, <1>4, <1>5

\* What a worker has in hand is pending.
LEMMA InHand == \A w \in Busy : data[w] \in Pending
<1> SUFFICES ASSUME NEW w \in Busy
             PROVE  data[w] \in Pending
      OBVIOUS
<1>1. data[w] \in {data[v] : v \in Busy}
      OBVIOUS
<1> QED
      BY <1>1, Zenon DEF Pending

-----------------------------------------------------------------------------
\* A step that moves no item.
LEMMA Still ==
    ASSUME PoolInv,
           \A w \in Workers : queues'[w].ring = queues[w].ring,
           data' = data, Busy' = Busy, numCurrentItems' = numCurrentItems
    PROVE  /\ Pending' = Pending /\ \A w \in Workers : Queued(w)' = Queued(w)
           /\ Apart' /\ IsFiniteSet(Pending)' /\ CountIsPending'
<1>1. \A w \in Workers : Queued(w)' = Queued(w)
      BY DEF Queued
<1>2. Pending' = Pending
      BY <1>1 DEF Pending
<1>3. Apart'
      <2>1. Apart
            BY DEF PoolInv
      <2> QED
            BY <1>1, <2>1 DEF Apart
<1>4. IsFiniteSet(Pending)' /\ CountIsPending'
      BY <1>2 DEF PoolInv, Counted, PendingTracked, CountIsPending
<1> QED
      BY <1>1, <1>2, <1>3, <1>4

\* A step of the clients or of threadpool_destroy that moves no item: what is
\* left to show is what the step does to its own control.
LEMMA StillRuns ==
    ASSUME PoolInv,
           \A w \in Workers : queues'[w].ring = queues[w].ring,
           UNCHANGED <<data, wpc, runs, accepted, numCurrentItems>>,
           \A c \in Clients, b \in Nat, i \in Nat : Offered(c, b, i) => Offered(c, b, i)'
    PROVE  /\ Pending' = Pending
           /\ Apart' /\ IsFiniteSet(Pending)' /\ CountIsPending' /\ Issued' /\ RunsByPlace'
<1>1. Busy' = Busy
      BY DEF Busy
<1>2. /\ Pending' = Pending /\ \A w \in Workers : Queued(w)' = Queued(w)
      /\ Apart' /\ IsFiniteSet(Pending)' /\ CountIsPending'
      BY <1>1, Still
<1>3. \A x : Taken(x)' <=> Taken(x)
      BY DEF Taken
<1>4. \A c \in Clients : \A b \in DOMAIN Batches[c] :
          b \in Nat /\ \A i \in DOMAIN Batches[c][b] : i \in Nat
      <2> SUFFICES ASSUME NEW c \in Clients, NEW b \in DOMAIN Batches[c]
                   PROVE  b \in Nat /\ \A i \in DOMAIN Batches[c][b] : i \in Nat
            OBVIOUS
      <2>1. Batches[c] \in Seq(Seq(Items))
            BY PoolAssumption
      <2>2. b \in Nat /\ Batches[c][b] \in Seq(Items)
            BY <2>1
      <2> QED
            BY <2>2
<1>5. Issued'
      <2>1. \A x \in Pending' : Taken(x)'
            BY <1>2, <1>3 DEF PoolInv, Issued
      <2>2. ASSUME NEW c \in Clients, NEW x \in accepted'[c]
            PROVE  \E b \in DOMAIN Batches[c] : \E i \in DOMAIN Batches[c][b] :
                      x = Batches[c][b][i] /\ Offered(c, b, i)'
            <3>1. PICK b \in DOMAIN Batches[c] : \E i \in DOMAIN Batches[c][b] :
                      x = Batches[c][b][i] /\ Offered(c, b, i)
                  BY DEF PoolInv, Issued
            <3>2. PICK i \in DOMAIN Batches[c][b] : x = Batches[c][b][i] /\ Offered(c, b, i)
                  BY <3>1
            <3>3. Offered(c, b, i)'
                  BY <1>4, <3>2
            <3> QED
                  BY <3>2, <3>3
      <2> QED
            BY <2>1, <2>2 DEF Issued
<1>6. RunsByPlace'
      <2>1. RunsByPlace
            BY DEF PoolInv
      <2> QED
            BY <1>2, <1>3, <2>1 DEF RunsByPlace
<1> QED
      BY <1>2, <1>5, <1>6

LEMMA IssueBeginInv == ASSUME PoolInv, NEW c \in Clients, IssueBegin(c) PROVE PoolInv'
<1>1. /\ cpc[c] \in {"idle", "done"} /\ batch[c] <= Len(Batches[c])
      /\ sem = Free /\ sem' = c /\ completed' = FALSE
      /\ cpc' = [cpc EXCEPT ![c] = "issue"]
      /\ pos' = [pos EXCEPT ![c] = 1] /\ tries' = [tries EXCEPT ![c] = 0]
      /\ ret' = [ret EXCEPT ![c] = FALSE]
      /\ UNCHANGED <<numCurrentItems, nextWorkerIndex, queues, wpc, data, runs, batch,
                     accepted, dpc, dn>>
      BY DEF IssueBegin, workerVars, destroyVars
<1>2. TypeOK'
      BY <1>1 DEF PoolInv, TypeOK
<1>3. batch[c] \in DOMAIN Batches[c] /\ 1 \in DOMAIN Batches[c][batch[c]]
      <2>1. Batches[c] \in Seq(Seq(Items))
            BY PoolAssumption
      <2>2. batch[c] \in Nat /\ batch[c] > 0
            BY DEF PoolInv, TypeOK, Control
      <2>3. batch[c] \in DOMAIN Batches[c]
            BY <1>1, <2>1, <2>2
      <2>4. Batches[c][batch[c]] \in Seq(Items) /\ Len(Batches[c][batch[c]]) > 0
            BY <2>1, <2>3, PoolAssumption
      <2> QED
            BY <2>3, <2>4
<1>4. cpc \in [Clients -> {"idle", "issue", "post", "issued", "blocked", "woken", "done"}]
      /\ pos \in [Clients -> Nat] /\ ret \in [Clients -> BOOLEAN]
      BY DEF PoolInv, TypeOK
<1>5. Control'
      BY <1>1, <1>3, <1>4, PoolAssumption DEF PoolInv, Control
<1>6. \A d \in Clients, b \in Nat, i \in Nat : Offered(d, b, i) => Offered(d, b, i)'
      BY <1>1, <1>4 DEF Offered
<1>7. /\ Pending' = Pending
      /\ Apart' /\ IsFiniteSet(Pending)' /\ CountIsPending' /\ Issued' /\ RunsByPlace'
      BY <1>1, <1>6, StillRuns
<1>8. CompletedIffIdle'
      BY <1>1, PoolAssumption DEF CompletedIffIdle
<1>9. Reported'
      BY <1>1, <1>4, <1>7 DEF PoolInv, Reported
<1> QED
      BY <1>2, <1>5, <1>7, <1>8, <1>9 DEF PoolInv, Counted, PendingTracked

LEMMA IssueEndInv == ASSUME PoolInv, NEW c \in Clients, IssueEnd(c) PROVE PoolInv'
<1>1. /\ cpc[c] = "post" /\ sem' = Free
      /\ completed' = (completed \/ RestoreCompleted)
      /\ cpc' = [(IF RestoreCompleted THEN Broadcast(cpc) ELSE cpc) EXCEPT ![c] = "issued"]
      /\ batch' = [batch EXCEPT ![c] = batch[c] + 1]
      /\ UNCHANGED <<numCurrentItems, nextWorkerIndex, queues, wpc, data, runs, pos, tries,
                     ret, accepted, dpc, dn>>
      BY DEF IssueEnd, workerVars, destroyVars
<1>2. /\ cpc \in [Clients -> {"idle", "issue", "post", "issued", "blocked", "woken", "done"}]
      /\ batch \in [Clients -> Nat] /\ completed \in BOOLEAN /\ numCurrentItems \in Nat
      BY DEF PoolInv, TypeOK
<1>3. /\ cpc' \in [Clients -> {"idle", "issue", "post", "issued", "blocked", "woken", "done"}]
      /\ cpc'[c] = "issued"
      /\ \A d \in Clients : d # c =>
            \/ cpc'[d] = cpc[d]
            \/ cpc[d] = "blocked" /\ cpc'[d] = "woken"
      BY <1>1, <1>2 DEF Broadcast
<1>4. sem = c /\ \A d \in Clients : d # c => cpc[d] \notin {"issue", "post"}
      BY <1>1 DEF PoolInv, Control
<1>5. /\ batch' \in [Clients -> Nat] /\ batch'[c] = batch[c] + 1
      /\ \A d \in Clients : d # c => batch'[d] = batch[d]
      BY <1>1, <1>2
<1>6. completed' \in BOOLEAN
      BY <1>1 DEF RestoreCompleted
<1>7. TypeOK'
      BY <1>1, <1>3, <1>5, <1>6 DEF PoolInv, TypeOK
<1>8. Control'
      <2>1. \A d \in Clients : cpc'[d] \notin {"issue", "post"} /\ sem' # d
            BY <1>1, <1>3, <1>4, PoolAssumption
      <2>2. \A d \in Clients : batch'[d] > 0
            BY <1>2, <1>5 DEF PoolInv, Control
      <2> QED
            BY <1>1, <2>1, <2>2 DEF PoolInv, Control
<1>9. \A d \in Clients, b \in Nat, i \in Nat : Offered(d, b, i) => Offered(d, b, i)'
      BY <1>2, <1>3, <1>4, <1>5 DEF Offered
<1>10. /\ Pending' = Pending
       /\ Apart' /\ IsFiniteSet(Pending)' /\ CountIsPending' /\ Issued' /\ RunsByPlace'
      BY <1>1, <1>9, StillRuns
<1>11. CompletedIffIdle'
      BY <1>1 DEF PoolInv, Counted, PendingTracked, CompletedIffIdle, RestoreCompleted
<1>12. Reported'
      BY <1>1, <1>3, <1>10 DEF PoolInv, Reported
<1> QED
      BY <1>7, <1>8, <1>10, <1>11, <1>12 DEF PoolInv, Counted, PendingTracked

\* The steps of threadpool_complete: true_e only when nothing is pending.
LEMMA CompleteInv ==
    ASSUME PoolInv, NEW c \in Clients, cpc[c] \in {"issued", "blocked", "woken"},
           NEW p \in {"blocked", "woken", "done"}, cpc' = [cpc EXCEPT ![c] = p],
           NEW r \in BOOLEAN, ret' = [ret EXCEPT ![c] = r],
           p = "done" /\ r => numCurrentItems = 0,
           UNCHANGED <<poolVars, workerVars, batch, pos, tries, accepted, destroyVars>>
    PROVE  PoolInv'
<1>1. UNCHANGED <<numCurrentItems, nextWorkerIndex, sem, completed, queues, wpc, data, runs,
                  dpc, dn>>
      BY DEF poolVars, workerVars, destroyVars
<1>2. /\ cpc \in [Clients -> {"idle", "issue", "post", "issued", "blocked", "woken", "done"}]
      /\ ret \in [Clients -> BOOLEAN]
      BY DEF PoolInv, TypeOK
<1>3. /\ cpc'[c] = p /\ ret'[c] = r
      /\ \A d \in Clients : d # c => cpc'[d] = cpc[d] /\ ret'[d] = ret[d]
      BY <1>2
<1>4. TypeOK'
      <2>1. /\ cpc' \in [Clients -> {"idle", "issue", "post", "issued", "blocked", "woken",
                                      "done"}]
            /\ ret' \in [Clients -> BOOLEAN]
            BY <1>2
      <2> QED
            BY <1>1, <2>1 DEF PoolInv, TypeOK
<1>5. Control'
      BY <1>1, <1>3 DEF PoolInv, Control
<1>6. \A d \in Clients, b \in Nat, i \in Nat : Offered(d, b, i) => Offered(d, b, i)'
      BY <1>3 DEF Offered
<1>7. /\ Pending' = Pending
      /\ Apart' /\ IsFiniteSet(Pending)' /\ CountIsPending' /\ Issued' /\ RunsByPlace'
      BY <1>1, <1>6, StillRuns
<1>8. CompletedIffIdle'
      BY <1>1 DEF PoolInv, Counted, PendingTracked, CompletedIffIdle
<1>9. Reported'
      <2>1. numCurrentItems = 0 => Pending = {}
            BY FS_EmptySet DEF PoolInv, Counted, PendingTracked, CountIsPending
      <2> QED
            BY <1>3, <1>7, <2>1 DEF PoolInv, Reported
<1> QED
      BY <1>4, <1>5, <1>7, <1>8, <1>9 DEF PoolInv, Counted, PendingTracked

LEMMA ClientInv ==
    ASSUME PoolInv, NEW c \in Clients,
           CompleteWait(c) \/ CompleteWoken(c) \/ CompletePoll(c) \/ SpuriousWakeup(c)
    PROVE  PoolInv'
<1>1. /\ completed \in BOOLEAN /\ ret \in [Clients -> BOOLEAN]
      /\ completed => numCurrentItems = 0
      BY DEF PoolInv, TypeOK, Counted, PendingTracked, CompletedIffIdle
<1>2. CASE CompleteWait(c)
      <2>1. CASE completed
            BY <1>1, <1>2, <2>1, CompleteInv DEF CompleteWait
      <2>2. CASE ~completed
            BY <1>1, <1>2, <2>2, CompleteInv DEF CompleteWait
      <2> QED
            BY <2>1, <2>2
<1>3. CASE CompleteWoken(c)
      BY <1>1, <1>3, CompleteInv DEF CompleteWoken, WokenReturns
<1>4. CASE CompletePoll(c)
      <2>1. (numCurrentItems = 0) \in BOOLEAN
            OBVIOUS
      <2> QED
            BY <1>4, <2>1, CompleteInv DEF CompletePoll
<1>5. CASE SpuriousWakeup(c)
      <2>1. ret' = [ret EXCEPT ![c] = ret[c]] /\ ret[c] \in BOOLEAN
            BY <1>1, <1>5 DEF SpuriousWakeup
      <2> QED
            BY <1>5, <2>1, CompleteInv DEF SpuriousWakeup
<1> QED
      BY <1>2, <1>3, <1>4, <1>5

-----------------------------------------------------------------------------
\* One turn of the issue loop that found room: the item becomes pending.
LEMMA AcceptPlaces ==
    ASSUME PoolInv, NEW c \in Clients, NEW item \in Items, ~Taken(item), item \notin Pending,
           NEW v \in Workers,
           queues'[v].ring = Append(queues[v].ring, item),
           \A w \in Workers : w # v => queues'[w].ring = queues[w].ring,
           accepted' = [accepted EXCEPT ![c] = accepted[c] \cup {item}],
           numCurrentItems' = numCurrentItems + 1,
           UNCHANGED <<data, wpc, runs>>
    PROVE  /\ Pending' = Pending \cup {item}
           /\ Apart' /\ IsFiniteSet(Pending)' /\ CountIsPending' /\ RunsByPlace'
<1>1. queues \in [Workers -> QueueOf(Items)] /\ accepted \in [Clients -> SUBSET Items]
      BY DEF PoolInv, TypeOK
<1>2. queues[v].ring \in Seq(Items)
      BY <1>1 DEF QueueOf
<1>3. Apart /\ RunsByPlace
      BY DEF PoolInv
<1>4. Queued(v)' = Queued(v) \cup {item} /\ \A w \in Workers : w # v => Queued(w)' = Queued(w)
      <2>1. Elements(queues'[v].ring) = Elements(queues[v].ring) \cup {item}
            BY <1>2, AppendElements
      <2> QED
            BY <2>1 DEF Queued, Elements
<1>5. Busy' = Busy
      BY DEF Busy
<1>6. Pending' = Pending \cup {item}
      BY <1>4, <1>5 DEF Pending
<1>7. \A w \in Workers : item \notin Queued(w)
      BY DEF Pending
<1>8. \A w \in Busy : data[w] # item
      BY InHand
<1>9. Apart'
      <2>1. NoRepeat(queues'[v].ring)
            <3>1. NoRepeat(queues[v].ring) /\ item \notin Elements(queues[v].ring)
                  BY <1>3, <1>7 DEF Apart, NoRepeat, Elements, Queued
            <3> QED
                  BY <1>2, <3>1, AppendElements
      <2>2. \A w \in Workers : \A i, j \in DOMAIN queues'[w].ring :
                queues'[w].ring[i] = queues'[w].ring[j] => i = j
            BY <1>3, <2>1 DEF Apart, NoRepeat
      <2>3. \A u, w \in Workers : \A x \in Items : x \in Queued(u)' /\ x \in Queued(w)' => u = w
            BY <1>3, <1>4, <1>7 DEF Apart
      <2>4. \A w \in Busy : data[w] \in Items /\ \A u \in Workers : data[w] \notin Queued(u)'
            BY <1>3, <1>4, <1>8 DEF Apart
      <2> QED
            BY <1>3, <1>5, <2>2, <2>3, <2>4 DEF Apart
<1>10. IsFiniteSet(Pending)' /\ CountIsPending'
      <2>1. IsFiniteSet(Pending) /\ numCurrentItems = Cardinality(Pending)
            BY DEF PoolInv, Counted, PendingTracked, CountIsPending
      <2>2. /\ IsFiniteSet(Pending \cup {item})
            /\ Cardinality(Pending \cup {item}) = Cardinality(Pending) + 1
            BY <2>1, FS_AddElement
      <2> QED
            BY <1>6, <2>1, <2>2 DEF CountIsPending
<1>11. RunsByPlace'
      <2>1. \A x : Taken(x)' <=> Taken(x) \/ x = item
            BY <1>1 DEF Taken
      <2>2. runs[item] = 0
            BY <1>3 DEF RunsByPlace
      <2>3. \A w \in Workers : \A x \in Queued(w)' : runs[x] = 0
            BY <1>3, <1>4, <2>2 DEF RunsByPlace
      <2> QED
            BY <1>3, <1>6, <2>1, <2>3 DEF RunsByPlace
<1> QED
      BY <1>6, <1>9, <1>10, <1>11

LEMMA NextWorkerType == PoolInv => NextWorker \in Workers
<1> SUFFICES ASSUME PoolInv
             PROVE  NextWorker \in Workers
      OBVIOUS
<1>1. nextWorkerIndex \in 0..NumWorkers - 1 /\ NumWorkers \in Nat \ {0}
      BY PoolAssumption DEF PoolInv, TypeOK, Workers
<1> QED
      BY <1>1 DEF NextWorker, Workers

LEMMA IssueTryInv == ASSUME PoolInv, NEW c \in Clients, IssueTry(c) PROVE PoolInv'
<1> DEFINE item == Batches[c][batch[c]][pos[c]]
           v == nextWorkerIndex
           wrote == Writes(queues[v])
           last == pos[c] = Len(Batches[c][batch[c]])
<1>1. /\ cpc[c] = "issue" /\ v \in Workers
      /\ queues \in [Workers -> QueueOf(Items)] /\ queues[v].active
      /\ cpc \in [Clients -> {"idle", "issue", "post", "issued", "blocked", "woken", "done"}]
      /\ pos \in [Clients -> Nat] /\ tries \in [Clients -> Nat] /\ batch \in [Clients -> Nat]
      /\ accepted \in [Clients -> SUBSET Items] /\ ret \in [Clients -> BOOLEAN]
      /\ numCurrentItems \in Nat
      BY DEF IssueTry, PoolInv, TypeOK, Control
<1>2. item \in Items /\ ~Taken(item) /\ item \notin Pending
      BY <1>1, ItemFacts
<1>3. /\ queue_write(queues[v], item) \in QueueOf(Items)
      /\ queue_write(queues[v], item).active
      /\ queue_write(queues[v], item).ring = IF wrote THEN Append(queues[v].ring, item)
                                                      ELSE queues[v].ring
      /\ WriteReturns(queues[v], FALSE) = wrote
      BY <1>1, <1>2, WriteFacts
<1>4. /\ queues' = [queues EXCEPT ![v] = queue_write(queues[v], item)]
      /\ nextWorkerIndex' = NextWorker
      /\ numCurrentItems' = CountIssued(wrote)
      /\ accepted' = [accepted EXCEPT ![c] = IF wrote THEN accepted[c] \cup {item}
                                                      ELSE accepted[c]]
      /\ tries' = [tries EXCEPT ![c] = IF wrote THEN 0 ELSE tries[c] + 1]
      /\ pos' = [pos EXCEPT ![c] = IF wrote /\ ~last THEN pos[c] + 1 ELSE pos[c]]
      /\ ret' = [ret EXCEPT ![c] = wrote]
      /\ cpc' = [cpc EXCEPT ![c] = IF (wrote /\ last) \/ GiveUp(c, wrote) THEN "post"
                                                                          ELSE cpc[c]]
      /\ UNCHANGED <<sem, completed, wpc, data, runs, batch, dpc, dn>>
      BY <1>3 DEF IssueTry, destroyVars
<1>5. wrote \in BOOLEAN
      BY DEF Writes, Usable, HasSpace
<1>6. /\ queues' \in [Workers -> QueueOf(Items)]
      /\ queues'[v] = queue_write(queues[v], item)
      /\ \A w \in Workers : w # v => queues'[w] = queues[w]
      BY <1>1, <1>3, <1>4
<1> HIDE DEF wrote, last
<1>7. /\ accepted' \in [Clients -> SUBSET Items]
      /\ tries' \in [Clients -> Nat] /\ pos' \in [Clients -> Nat]
      /\ ret' \in [Clients -> BOOLEAN]
      /\ cpc' \in [Clients -> {"idle", "issue", "post", "issued", "blocked", "woken", "done"}]
      /\ cpc'[c] \in {"issue", "post"} /\ \A d \in Clients : d # c => cpc'[d] = cpc[d]
      /\ (wrote /\ last) => cpc'[c] = "post"
      /\ pos'[c] = (IF wrote /\ ~last THEN pos[c] + 1 ELSE pos[c])
      /\ \A d \in Clients : d # c => pos'[d] = pos[d] /\ accepted'[d] = accepted[d]
      /\ accepted'[c] = (IF wrote THEN accepted[c] \cup {item} ELSE accepted[c])
      <2>1. accepted' \in [Clients -> SUBSET Items]
            BY <1>1, <1>2, <1>4
      <2>2. /\ tries' \in [Clients -> Nat] /\ pos' \in [Clients -> Nat]
            /\ pos'[c] = (IF wrote /\ ~last THEN pos[c] + 1 ELSE pos[c])
            /\ \A d \in Clients : d # c => pos'[d] = pos[d] /\ accepted'[d] = accepted[d]
            BY <1>1, <1>4
      <2>3. ret' \in [Clients -> BOOLEAN]
            BY <1>1, <1>4, <1>5
      <2>4. /\ cpc' \in [Clients -> {"idle", "issue", "post", "issued", "blocked", "woken",
                                      "done"}]
            /\ cpc'[c] \in {"issue", "post"} /\ \A d \in Clients : d # c => cpc'[d] = cpc[d]
            /\ (wrote /\ last) => cpc'[c] = "post"
            BY <1>1, <1>4
      <2>5. accepted'[c] = (IF wrote THEN accepted[c] \cup {item} ELSE accepted[c])
            BY <1>1, <1>4
      <2> QED
            BY <2>1, <2>2, <2>3, <2>4, <2>5
<1>8. numCurrentItems' = (IF wrote THEN numCurrentItems + 1 ELSE numCurrentItems)
      BY <1>4 DEF CountIssued
<1>9. TypeOK'
      <2>1. numCurrentItems' \in Nat /\ nextWorkerIndex' \in Workers
            BY <1>1, <1>4, <1>8, NextWorkerType
      <2> QED
            BY <1>4, <1>6, <1>7, <2>1 DEF PoolInv, TypeOK
<1>10. batch[c] \in DOMAIN Batches[c] /\ pos[c] \in DOMAIN Batches[c][batch[c]]
      BY <1>1 DEF PoolInv, Control
<1>11. Batches[c][batch[c]] \in Seq(Items)
      <2>1. Batches[c] \in Seq(Seq(Items))
            BY PoolAssumption
      <2> QED
            BY <1>10, <2>1
<1>12. Control'
      <2>1. \A w \in Workers : queues'[w].active
            BY <1>3, <1>6 DEF PoolInv, Control
      <2>2. sem = c
            BY <1>1 DEF PoolInv, Control
      <2>3. \A d \in Clients : cpc'[d] \in {"issue", "post"} <=> sem' = d
            BY <1>4, <1>7, <2>2 DEF PoolInv, Control
      <2>4. cpc'[c] = "issue" => pos'[c] \in DOMAIN Batches[c][batch[c]]
            BY <1>1, <1>7, <1>10, <1>11 DEF last
      <2>5. \A d \in Clients : cpc'[d] = "issue" =>
                batch'[d] \in DOMAIN Batches[d] /\ pos'[d] \in DOMAIN Batches[d][batch'[d]]
            BY <1>4, <1>7, <1>10, <2>4 DEF PoolInv, Control
      <2> QED
            BY <1>4, <2>1, <2>3, <2>5 DEF PoolInv, Control
<1>13. \A d \in Clients, b \in Nat, i \in Nat : Offered(d, b, i) => Offered(d, b, i)'
      BY <1>1, <1>4, <1>7 DEF Offered
<1>14. CompletedIffIdle'
      <2>1. sem = c /\ ~completed
            BY <1>1, PoolAssumption DEF PoolInv, Control
      <2> QED
            BY <1>4, <2>1, PoolAssumption DEF CompletedIffIdle
<1>15. CASE ~wrote
      <2>1. \A w \in Workers : queues'[w].ring = queues[w].ring
            BY <1>3, <1>6, <1>15
      <2>2. accepted' = accepted /\ numCurrentItems' = numCurrentItems
            BY <1>1, <1>4, <1>8, <1>15
      <2>3. /\ Pending' = Pending
            /\ Apart' /\ IsFiniteSet(Pending)' /\ CountIsPending' /\ Issued' /\ RunsByPlace'
            BY <1>4, <1>13, <2>1, <2>2, StillRuns
      <2>4. Reported'
            <3>1. \A d \in Clients : d # c => ret'[d] = ret[d]
                  BY <1>1, <1>4
            <3> QED
                  BY <1>7, <2>2, <2>3, <3>1 DEF PoolInv, Reported
      <2> QED
            BY <1>9, <1>12, <1>14, <2>3, <2>4 DEF PoolInv, Counted, PendingTracked
<1>16. CASE wrote
      <2>1. /\ queues'[v].ring = Append(queues[v].ring, item)
            /\ \A w \in Workers : w # v => queues'[w].ring = queues[w].ring
            BY <1>3, <1>6, <1>16
      <2>2. accepted' = [accepted EXCEPT ![c] = accepted[c] \cup {item}]
            BY <1>4, <1>16
      <2>3. /\ Pending' = Pending \cup {item}
            /\ Apart' /\ IsFiniteSet(Pending)' /\ CountIsPending' /\ RunsByPlace'
            <3> HIDE DEF item, v
            <3> QED
                  BY <1>1, <1>2, <1>4, <1>8, <1>16, <2>1, <2>2, AcceptPlaces
      <2>4. Issued'
            <3>1. \A x \in Pending' : Taken(x)'
                  BY <1>7, <1>16, <2>3 DEF PoolInv, Issued, Taken
            <3>2. \A b, i : b = batch[c] /\ i = pos[c] => Offered(c, b, i)'
                  <4>1. CASE last
                        BY <1>4, <1>7, <1>16, <4>1 DEF Offered
                  <4>2. CASE ~last
                        <5>1. pos'[c] = pos[c] + 1 /\ pos[c] \in Nat
                              BY <1>1, <1>7, <1>16, <4>2
                        <5> QED
                              BY <1>4, <1>7, <5>1 DEF Offered
                  <4> QED
                        BY <4>1, <4>2
            <3>3. ASSUME NEW d \in Clients, NEW x \in accepted'[d]
                  PROVE  \E b \in DOMAIN Batches[d] : \E i \in DOMAIN Batches[d][b] :
                            x = Batches[d][b][i] /\ Offered(d, b, i)'
                  <4>1. CASE d = c /\ x = item
                        BY <1>10, <3>2, <4>1
                  <4>2. CASE ~(d = c /\ x = item)
                        <5>1. x \in accepted[d]
                              BY <1>7, <1>16, <3>3, <4>2
                        <5>2. PICK b \in DOMAIN Batches[d] : \E i \in DOMAIN Batches[d][b] :
                                  x = Batches[d][b][i] /\ Offered(d, b, i)
                              BY <5>1 DEF PoolInv, Issued
                        <5>3. PICK i \in DOMAIN Batches[d][b] :
                                  x = Batches[d][b][i] /\ Offered(d, b, i)
                              BY <5>2
                        <5>4. Batches[d] \in Seq(Seq(Items))
                              BY PoolAssumption
                        <5>5. b \in Nat /\ Batches[d][b] \in Seq(Items)
                              BY <5>4
                        <5>6. i \in Nat
                              BY <5>5
                        <5>7. Offered(d, b, i)'
                              BY <1>13, <5>3, <5>5, <5>6
                        <5> QED
                              BY <5>3, <5>7
                  <4> QED
                        BY <4>1, <4>2
            <3> QED
                  BY <3>1, <3>3 DEF Issued
      <2>5. Reported'
            <3>1. ASSUME NEW d \in Clients, cpc'[d] = "done", ret'[d], NEW x \in accepted'[d]
                  PROVE  x \notin Pending'
                  <4>1. d # c
                        BY <1>7, <3>1
                  <4>2. cpc[d] = "done" /\ ret[d] /\ x \in accepted[d]
                        BY <1>1, <1>4, <1>7, <3>1, <4>1
                  <4>3. x \notin Pending /\ x # item
                        BY <1>2, <4>2 DEF PoolInv, Reported, Taken
                  <4> QED
                        BY <2>3, <4>3
            <3> QED
                  BY <3>1 DEF Reported
      <2> QED
            BY <1>9, <1>12, <1>14, <2>3, <2>4, <2>5 DEF PoolInv, Counted, PendingTracked
<1> QED
      BY <1>5, <1>15, <1>16

-----------------------------------------------------------------------------
\* A worker that wakes up.
LEMMA WorkerWakeInv == ASSUME PoolInv, NEW w \in Workers, WorkerWake(w) PROVE PoolInv'
<1>1. /\ wpc[w] = "read" /\ wpc' = [wpc EXCEPT ![w] = "lock"]
      /\ UNCHANGED <<queues, data, runs, numCurrentItems, nextWorkerIndex, sem, completed,
                     cpc, batch, pos, tries, ret, accepted, dpc, dn>>
      BY DEF WorkerWake, poolVars, clientVars, destroyVars
<1>2. wpc \in [Workers -> {"read", "lock", "run", "finish", "exited"}]
      BY DEF PoolInv, TypeOK
<1>3. wpc'[w] = "lock" /\ \A v \in Workers : v # w => wpc'[v] = wpc[v]
      BY <1>1, <1>2
<1>4. TypeOK'
      BY <1>1 DEF PoolInv, TypeOK
<1>5. Control'
      BY <1>1 DEF PoolInv, Control
<1>6. Busy' = Busy
      BY <1>1, <1>3 DEF Busy
<1>7. /\ Pending' = Pending /\ \A v \in Workers : Queued(v)' = Queued(v)
      /\ Apart' /\ IsFiniteSet(Pending)' /\ CountIsPending'
      BY <1>1, <1>6, Still
<1>8. CompletedIffIdle' /\ Reported'
      BY <1>1, <1>7 DEF PoolInv, Counted, PendingTracked, CompletedIffIdle, Reported
<1>9. Issued'
      BY <1>1, <1>7 DEF PoolInv, Issued, Offered, Taken
<1>10. RunsByPlace'
      BY <1>1, <1>3, <1>7 DEF PoolInv, RunsByPlace, Taken
<1> QED
      BY <1>4, <1>5, <1>7, <1>8, <1>9, <1>10 DEF PoolInv, Counted, PendingTracked

\* The item read moves from the head of the ring to the worker's data.
LEMMA ReadPlaces ==
    ASSUME PoolInv, NEW w \in Workers, wpc[w] = "lock", queues[w].ring # << >>,
           queues'[w].ring = Tail(queues[w].ring),
           \A v \in Workers : v # w => queues'[v].ring = queues[v].ring,
           data' = [data EXCEPT ![w] = Head(queues[w].ring)],
           wpc' = [wpc EXCEPT ![w] = "run"],
           UNCHANGED <<runs, accepted, numCurrentItems>>
    PROVE  /\ Pending' = Pending
           /\ Apart' /\ IsFiniteSet(Pending)' /\ CountIsPending' /\ RunsByPlace'
<1> DEFINE x == Head(queues[w].ring)
<1>1. /\ queues \in [Workers -> QueueOf(Items)] /\ data \in [Workers -> Items \cup {Free}]
      /\ wpc \in [Workers -> {"read", "lock", "run", "finish", "exited"}]
      BY DEF PoolInv, TypeOK
<1>2. queues[w].ring \in Seq(Items)
      BY <1>1 DEF QueueOf
<1>3. Apart /\ RunsByPlace
      BY DEF PoolInv
<1>4. NoRepeat(queues[w].ring)
      BY <1>3 DEF Apart, NoRepeat
<1>5. x \in Items
      BY <1>2, HeadTailProperties
<1>6. /\ Queued(w)' = Queued(w) \ {x} /\ x \in Queued(w)
      /\ \A v \in Workers : v # w => Queued(v)' = Queued(v)
      <2>1. /\ Elements(queues'[w].ring) = Elements(queues[w].ring) \ {x}
            /\ x \in Elements(queues[w].ring)
            BY <1>2, <1>4, TailElements
      <2> QED
            BY <2>1 DEF Queued, Elements
<1>7. NoRepeat(queues'[w].ring)
      BY <1>2, <1>4, TailElements
<1> HIDE DEF x
<1>8. /\ data'[w] = x /\ wpc'[w] = "run"
      /\ \A v \in Workers : v # w => data'[v] = data[v] /\ wpc'[v] = wpc[v]
      BY <1>1 DEF x
<1>9. Busy' = Busy \cup {w} /\ w \notin Busy
      BY <1>8 DEF Busy
<1>10. {data'[v] : v \in Busy'} = {data[v] : v \in Busy} \cup {x}
      <2>1. \A v \in Busy : v \in Workers /\ v # w
            BY <1>9 DEF Busy
      <2> QED
            BY <1>8, <1>9, <2>1
<1>11. (UNION {Queued(v)' : v \in Workers}) \cup {x} = UNION {Queued(v) : v \in Workers}
      <2> DEFINE A == UNION {Queued(v)' : v \in Workers}
                 B == UNION {Queued(v) : v \in Workers}
      <2>1. \A y : (\E v \in Workers : y \in Queued(v)') \/ y = x
                     <=> \E v \in Workers : y \in Queued(v)
            BY <1>6
      <2>2. \A y : y \in A <=> \E v \in Workers : y \in Queued(v)'
            BY Zenon
      <2>3. \A y : y \in B <=> \E v \in Workers : y \in Queued(v)
            BY Zenon
      <2> HIDE DEF A, B
      <2>4. A \cup {x} = B
            BY <2>1, <2>2, <2>3
      <2> QED
            BY <2>4 DEF A, B
<1>12. Pending' = Pending
      BY <1>10, <1>11 DEF Pending
<1>13. Apart'
      <2>1. \A v \in Workers : \A i, j \in DOMAIN queues'[v].ring :
                queues'[v].ring[i] = queues'[v].ring[j] => i = j
            BY <1>3, <1>7 DEF Apart, NoRepeat
      <2>2. \A u, v \in Workers : \A y \in Items : y \in Queued(u)' /\ y \in Queued(v)' => u = v
            BY <1>3, <1>6 DEF Apart
      <2>3. ASSUME NEW v \in Busy'
            PROVE  data'[v] \in Items /\ \A u \in Workers : data'[v] \notin Queued(u)'
            <3>1. CASE v = w
                  BY <1>3, <1>5, <1>6, <1>8, <3>1 DEF Apart
            <3>2. CASE v # w
                  <4>1. v \in Busy /\ data'[v] = data[v]
                        BY <1>8, <1>9, <3>2 DEF Busy
                  <4> QED
                        BY <1>3, <1>6, <4>1 DEF Apart
            <3> QED
                  BY <3>1, <3>2
      <2>4. ASSUME NEW u \in Busy', NEW v \in Busy', data'[u] = data'[v]
            PROVE  u = v
            <3>1. \A b \in Busy : b \in Workers /\ b # w /\ data'[b] = data[b] /\ data[b] # x
                  <4>1. \A b \in Busy : b \in Workers /\ b # w
                        BY <1>9 DEF Busy
                  <4>2. \A b \in Busy : data[b] \notin Queued(w)
                        BY <1>3 DEF Apart
                  <4> QED
                        BY <1>6, <1>8, <4>1, <4>2
            <3> QED
                  BY <1>3, <1>8, <1>9, <2>4, <3>1 DEF Apart
      <2> QED
            BY <2>1, <2>2, <2>3, <2>4 DEF Apart
<1>14. IsFiniteSet(Pending)' /\ CountIsPending'
      BY <1>12 DEF PoolInv, Counted, PendingTracked, CountIsPending
<1>15. RunsByPlace'
      <2>1. \A y : Taken(y)' <=> Taken(y)
            BY DEF Taken
      <2>2. runs[x] = 0
            BY <1>3, <1>6 DEF RunsByPlace
      <2>3. \A v \in Workers : \A y \in Queued(v)' : runs[y] = 0
            BY <1>3, <1>6 DEF RunsByPlace
      <2>4. \A v \in Workers : /\ wpc'[v] = "run" => runs[data'[v]] = 0
                               /\ wpc'[v] = "finish" => runs[data'[v]] = 1
            BY <1>3, <1>8, <2>2 DEF RunsByPlace
      <2> QED
            BY <1>3, <1>12, <2>1, <2>3, <2>4 DEF RunsByPlace
<1> QED
      BY <1>12, <1>13, <1>14, <1>15

LEMMA WorkerReadInv == ASSUME PoolInv, NEW w \in Workers, WorkerRead(w) PROVE PoolInv'
<1>1. /\ wpc[w] = "lock"
      /\ queues' = [queues EXCEPT ![w] = queue_read(queues[w])]
      /\ data' = [data EXCEPT ![w] = IF Reads(queues[w]) THEN Head(queues[w].ring) ELSE data[w]]
      /\ wpc' = [wpc EXCEPT ![w] = IF WorkerLeaves(w) THEN "exited" ELSE "run"]
      /\ UNCHANGED <<runs, numCurrentItems, nextWorkerIndex, sem, completed,
                     cpc, batch, pos, tries, ret, accepted, dpc, dn>>
      BY DEF WorkerRead, poolVars, clientVars, destroyVars
<1>2. /\ queues \in [Workers -> QueueOf(Items)] /\ queues[w].active
      /\ wpc \in [Workers -> {"read", "lock", "run", "finish", "exited"}]
      /\ data \in [Workers -> Items \cup {Free}]
      BY DEF PoolInv, TypeOK, Control
<1>3. /\ queue_read(queues[w]) \in QueueOf(Items) /\ queue_read(queues[w]).active
      /\ queue_read(queues[w]).ring = IF Reads(queues[w]) THEN Tail(queues[w].ring)
                                                          ELSE queues[w].ring
      /\ Reads(queues[w]) => queues[w].ring # << >> /\ Head(queues[w].ring) \in Items
      /\ ReadReturns(queues[w], TRUE) = Reads(queues[w])
      BY <1>2, ReadFacts
<1>4. /\ queues' \in [Workers -> QueueOf(Items)]
      /\ queues'[w] = queue_read(queues[w])
      /\ \A v \in Workers : v # w => queues'[v] = queues[v]
      BY <1>1, <1>2, <1>3
<1>5. TypeOK'
      <2>1. /\ wpc' \in [Workers -> {"read", "lock", "run", "finish", "exited"}]
            /\ data' \in [Workers -> Items \cup {Free}]
            BY <1>1, <1>2, <1>3
      <2> QED
            BY <1>1, <1>4, <2>1 DEF PoolInv, TypeOK
<1>6. Control'
      BY <1>1, <1>3, <1>4 DEF PoolInv, Control
<1>7. /\ Pending' = Pending
      /\ Apart' /\ IsFiniteSet(Pending)' /\ CountIsPending' /\ RunsByPlace'
      <2>1. CASE Reads(queues[w])
            <3>1. /\ wpc' = [wpc EXCEPT ![w] = "run"]
                  /\ data' = [data EXCEPT ![w] = Head(queues[w].ring)]
                  BY <1>1, <1>3, <2>1 DEF WorkerLeaves
            <3>2. /\ queues'[w].ring = Tail(queues[w].ring)
                  /\ \A v \in Workers : v # w => queues'[v].ring = queues[v].ring
                  BY <1>3, <1>4, <2>1
            <3> QED
                  BY <1>1, <1>3, <2>1, <3>1, <3>2, ReadPlaces
      <2>2. CASE ~Reads(queues[w])
            <3>1. wpc' = [wpc EXCEPT ![w] = "exited"] /\ data' = data
                  BY <1>1, <1>2, <1>3, <2>2 DEF WorkerLeaves
            <3>2. \A v \in Workers : queues'[v].ring = queues[v].ring
                  BY <1>3, <1>4, <2>2
            <3>3. wpc'[w] = "exited" /\ \A v \in Workers : v # w => wpc'[v] = wpc[v]
                  BY <1>2, <3>1
            <3>4. Busy' = Busy
                  BY <1>1, <3>3 DEF Busy
            <3>5. /\ Pending' = Pending /\ \A v \in Workers : Queued(v)' = Queued(v)
                  /\ Apart' /\ IsFiniteSet(Pending)' /\ CountIsPending'
                  BY <1>1, <3>1, <3>2, <3>4, Still
            <3>6. RunsByPlace'
                  BY <1>1, <3>1, <3>3, <3>5 DEF PoolInv, RunsByPlace, Taken
            <3> QED
                  BY <3>5, <3>6
      <2> QED
            BY <2>1, <2>2
<1>8. CompletedIffIdle' /\ Reported'
      BY <1>1, <1>7 DEF PoolInv, Counted, PendingTracked, CompletedIffIdle, Reported
<1>9. Issued'
      BY <1>1, <1>7 DEF PoolInv, Issued, Offered, Taken
<1> QED
      BY <1>5, <1>6, <1>7, <1>8, <1>9 DEF PoolInv, Counted, PendingTracked

\* The worker runs its item, for the first time.
LEMMA WorkerRunInv == ASSUME PoolInv, NEW w \in Workers, WorkerRun(w) PROVE PoolInv'
<1>1. /\ wpc[w] = "run" /\ wpc' = [wpc EXCEPT ![w] = "finish"]
      /\ runs' = [runs EXCEPT ![data[w]] = runs[data[w]] + 1]
      /\ UNCHANGED <<queues, data, numCurrentItems, nextWorkerIndex, sem, completed,
                     cpc, batch, pos, tries, ret, accepted, dpc, dn>>
      BY DEF WorkerRun, poolVars, clientVars, destroyVars
<1>2. /\ wpc \in [Workers -> {"read", "lock", "run", "finish", "exited"}]
      /\ runs \in [Items -> Nat]
      BY DEF PoolInv, TypeOK
<1>3. wpc'[w] = "finish" /\ \A v \in Workers : v # w => wpc'[v] = wpc[v]
      BY <1>1, <1>2
<1>4. w \in Busy /\ Apart /\ RunsByPlace
      BY <1>1 DEF Busy, PoolInv
<1>5. data[w] \in Items /\ runs[data[w]] = 0
      BY <1>1, <1>4 DEF Apart, RunsByPlace
<1>6. /\ runs'[data[w]] = 1 /\ runs' \in [Items -> Nat]
      /\ \A x \in Items : x # data[w] => runs'[x] = runs[x]
      BY <1>1, <1>2, <1>5
<1>7. TypeOK'
      <2>1. wpc' \in [Workers -> {"read", "lock", "run", "finish", "exited"}]
            BY <1>1, <1>2
      <2> QED
            BY <1>1, <1>6, <2>1 DEF PoolInv, TypeOK
<1>8. Control'
      BY <1>1 DEF PoolInv, Control
<1>9. Busy' = Busy
      BY <1>1, <1>3 DEF Busy
<1>10. /\ Pending' = Pending /\ \A v \in Workers : Queued(v)' = Queued(v)
       /\ Apart' /\ IsFiniteSet(Pending)' /\ CountIsPending'
      BY <1>1, <1>9, Still
<1>11. CompletedIffIdle' /\ Reported'
      BY <1>1, <1>10 DEF PoolInv, Counted, PendingTracked, CompletedIffIdle, Reported
<1>12. Issued'
      BY <1>1, <1>10 DEF PoolInv, Issued, Offered, Taken
<1>13. RunsByPlace'
      <2>1. \A x : Taken(x)' <=> Taken(x)
            BY <1>1 DEF Taken
      <2>2. data[w] \in Pending
            BY <1>4, InHand
      <2>3. Taken(data[w])
            BY <2>2 DEF PoolInv, Issued
      <2>4. \A v \in Workers : \A x \in Queued(v) : x # data[w] /\ x \in Items
            <3>1. queues \in [Workers -> QueueOf(Items)]
                  BY DEF PoolInv, TypeOK
            <3>2. \A v \in Workers : queues[v].ring \in Seq(Items)
                  BY <3>1 DEF QueueOf
            <3>3. \A v \in Workers : \A x \in Queued(v) : x \in Items
                  BY <3>2 DEF Queued
            <3> QED
                  BY <1>4, <3>3 DEF Apart
      <2>5. \A v \in Workers : \A x \in Queued(v)' : runs'[x] = 0
            BY <1>4, <1>6, <1>10, <2>4 DEF RunsByPlace
      <2>6. ASSUME NEW v \in Workers
            PROVE  /\ wpc'[v] = "run" => runs'[data'[v]] = 0
                   /\ wpc'[v] = "finish" => runs'[data'[v]] = 1
            <3>1. CASE v = w
                  BY <1>1, <1>3, <1>6, <3>1
            <3>2. CASE v # w
                  <4>1. wpc[v] \in {"run", "finish"} => data[v] # data[w] /\ data[v] \in Items
                        BY <1>4, <3>2 DEF Apart, Busy
                  <4> QED
                        BY <1>1, <1>3, <1>4, <1>6, <3>2, <4>1 DEF RunsByPlace
            <3> QED
                  BY <3>1, <3>2
      <2>7. \A x \in Items : ~Taken(x) => runs'[x] = 0
            BY <1>4, <1>6, <2>3 DEF RunsByPlace
      <2>8. \A x \in Items : Taken(x) /\ x \notin Pending => runs'[x] = 1
            BY <1>4, <1>6, <2>2 DEF RunsByPlace
      <2> QED
            BY <1>10, <2>1, <2>5, <2>6, <2>7, <2>8 DEF RunsByPlace
<1> QED
      BY <1>7, <1>8, <1>10, <1>11, <1>12, <1>13 DEF PoolInv, Counted, PendingTracked

\* The item is counted as finished: it leaves the pool, having been run once.
LEMMA WorkerFinishInv == ASSUME PoolInv, NEW w \in Workers, WorkerFinish(w) PROVE PoolInv'
<1> DEFINE x == data[w]
<1>1. /\ wpc[w] = "finish" /\ sem = Free /\ wpc' = [wpc EXCEPT ![w] = "read"]
      /\ numCurrentItems' = numCurrentItems - 1
      /\ completed' = (completed \/ AllDone(numCurrentItems'))
      /\ cpc' = IF AllDone(numCurrentItems') THEN Broadcast(cpc) ELSE cpc
      /\ UNCHANGED <<queues, data, runs, nextWorkerIndex, sem, batch, pos, tries, ret,
                     accepted, dpc, dn>>
      BY DEF WorkerFinish, destroyVars
<1>2. /\ wpc \in [Workers -> {"read", "lock", "run", "finish", "exited"}]
      /\ cpc \in [Clients -> {"idle", "issue", "post", "issued", "blocked", "woken", "done"}]
      /\ numCurrentItems \in Nat
      BY DEF PoolInv, TypeOK
<1>3. wpc'[w] = "read" /\ \A v \in Workers : v # w => wpc'[v] = wpc[v]
      BY <1>1, <1>2
<1>4. w \in Busy /\ Apart /\ RunsByPlace
      BY <1>1 DEF Busy, PoolInv
<1>5. x \in Pending
      BY <1>4, InHand
<1>6. IsFiniteSet(Pending) /\ numCurrentItems = Cardinality(Pending)
      BY DEF PoolInv, Counted, PendingTracked, CountIsPending
<1>7. /\ IsFiniteSet(Pending \ {x})
      /\ Cardinality(Pending \ {x}) = Cardinality(Pending) - 1
      BY <1>5, <1>6, FS_RemoveElement
<1>8. numCurrentItems' \in Nat
      <2>1. Cardinality(Pending \ {x}) \in Nat
            BY <1>7, FS_CardinalityType
      <2> QED
            BY <1>1, <1>6, <1>7, <2>1
<1>9. \A v \in Workers : Queued(v)' = Queued(v)
      BY <1>1 DEF Queued
<1>10. Busy' = Busy \ {w}
      BY <1>3 DEF Busy
<1>11. Pending' = Pending \ {x}
      <2> DEFINE Q == UNION {Queued(v) : v \in Workers}
                 D == {data[v] : v \in Busy}
                 E == {data[v] : v \in Busy \ {w}}
      <2>1. x \notin Q
            BY <1>4 DEF Apart
      <2>2. E = D \ {x}
            BY <1>4 DEF Apart
      <2>3. Pending = Q \cup D
            BY DEF Pending
      <2>4. Pending' = Q \cup E
            BY <1>1, <1>9, <1>10 DEF Pending
      <2> HIDE DEF Q, D, E
      <2> QED
            BY <2>1, <2>2, <2>3, <2>4
<1>12. /\ cpc' \in [Clients -> {"idle", "issue", "post", "issued", "blocked", "woken", "done"}]
       /\ \A c \in Clients : cpc'[c] = cpc[c] \/ (cpc[c] = "blocked" /\ cpc'[c] = "woken")
      BY <1>1, <1>2 DEF Broadcast
<1>13. completed' \in BOOLEAN
      BY <1>1 DEF AllDone
<1>14. TypeOK'
      <2>1. wpc' \in [Workers -> {"read", "lock", "run", "finish", "exited"}]
            BY <1>1, <1>2
      <2> QED
            BY <1>1, <1>8, <1>12, <1>13, <2>1 DEF PoolInv, TypeOK
<1>15. Control'
      BY <1>1, <1>12 DEF PoolInv, Control
<1>16. Apart'
      <2>1. \A v, u \in Workers : \A y \in Items : y \in Queued(v)' /\ y \in Queued(u)' => v = u
            BY <1>4, <1>9 DEF Apart
      <2>2. \A v \in Busy' : data'[v] \in Items /\ \A u \in Workers : data'[v] \notin Queued(u)'
            BY <1>1, <1>4, <1>9, <1>10 DEF Apart
      <2> QED
            BY <1>1, <1>4, <1>10, <2>1, <2>2 DEF Apart
<1>17. IsFiniteSet(Pending)' /\ CountIsPending'
      BY <1>1, <1>6, <1>7, <1>11 DEF CountIsPending
<1>18. CompletedIffIdle'
      <2>1. completed => numCurrentItems = 0
            BY DEF PoolInv, Counted, PendingTracked, CompletedIffIdle
      <2>2. ~completed
            BY <1>1, <1>2, <1>8, <2>1
      <2>3. completed' <=> numCurrentItems' = 0
            <3>1. AllDone(numCurrentItems') <=> numCurrentItems' = 0
                  BY <1>8 DEF AllDone
            <3> QED
                  BY <1>1, <2>2, <3>1
      <2> QED
            BY <2>3 DEF CompletedIffIdle
<1>19. Issued'
      <2>1. \A c \in Clients : \A b, i : Offered(c, b, i) => Offered(c, b, i)'
            BY <1>1, <1>12 DEF Offered
      <2>2. \A y \in Pending' : Taken(y)'
            BY <1>1, <1>11 DEF PoolInv, Issued, Taken
      <2>3. \A c \in Clients : \A y \in accepted'[c] :
                \E b \in DOMAIN Batches[c] : \E i \in DOMAIN Batches[c][b] :
                    y = Batches[c][b][i] /\ Offered(c, b, i)'
            BY <1>1, <2>1 DEF PoolInv, Issued
      <2> QED
            BY <2>2, <2>3 DEF Issued
<1>20. RunsByPlace'
      <2>1. \A y : Taken(y)' <=> Taken(y)
            BY <1>1 DEF Taken
      <2>2. runs[x] = 1
            BY <1>1, <1>4 DEF RunsByPlace
      <2>3. \A y \in Items : Taken(y) /\ y \notin Pending' => runs[y] = 1
            BY <1>4, <1>11, <2>2 DEF RunsByPlace
      <2>4. \A v \in Workers : /\ wpc'[v] = "run" => runs[data[v]] = 0
                               /\ wpc'[v] = "finish" => runs[data[v]] = 1
            BY <1>3, <1>4 DEF RunsByPlace
      <2>5. \A v \in Workers : \A y \in Queued(v)' : runs[y] = 0
            BY <1>4, <1>9 DEF RunsByPlace
      <2> QED
            BY <1>1, <1>4, <2>1, <2>3, <2>4, <2>5 DEF RunsByPlace
<1>21. Reported'
      BY <1>1, <1>11, <1>12 DEF PoolInv, Reported
<1> QED
      BY <1>14, <1>15, <1>16, <1>17, <1>18, <1>19, <1>20, <1>21
         DEF PoolInv, Counted, PendingTracked

-----------------------------------------------------------------------------
\* threadpool_destroy leaves the items where they are.
LEMMA DestroyInv == ASSUME PoolInv, Destroy PROVE PoolInv'
<1>1. UNCHANGED <<wpc, data, runs, numCurrentItems, nextWorkerIndex, sem, completed,
                  cpc, batch, pos, tries, ret, accepted>>
      BY DEF Destroy, DestroyBegin, DestroyPop, DestroyJoin, poolVars, workerVars, clientVars
<1>2. /\ queues \in [Workers -> QueueOf(Items)] /\ \A w \in Workers : queues[w].active
      /\ dpc \in {"none", "pop", "join", "freed"} /\ dn \in 0..NumWorkers
      /\ dpc \in {"pop", "join"} => dn < NumWorkers
      BY DEF PoolInv, TypeOK, Control
<1>3. /\ queues' \in [Workers -> QueueOf(Items)]
      /\ \A w \in Workers : queues'[w].active /\ queues'[w].ring = queues[w].ring
      /\ dpc' \in {"none", "pop", "join", "freed"} /\ dn' \in 0..NumWorkers
      /\ dpc' \in {"pop", "join"} => dn' < NumWorkers
      <2>1. CASE DestroyBegin
            <3>1. queues' = queues /\ dn' = dn /\ dpc' = "pop" /\ dpc = "none"
                  BY <2>1 DEF DestroyBegin, workerVars
            <3>2. dn = 0
                  BY <3>1 DEF PoolInv, Control
            <3>3. 0 < NumWorkers
                  BY PoolAssumption
            <3> QED
                  BY <1>2, <3>1, <3>2, <3>3
      <2>2. CASE DestroyPop
            <3>1. /\ dpc = "pop" /\ dpc' = "join" /\ dn' = dn
                  /\ queues' = [queues EXCEPT ![dn] = queue_pop(queues[dn])]
                  BY <2>2 DEF DestroyPop
            <3>2. dn \in Workers
                  BY <1>2, <3>1, PoolAssumption DEF Workers
            <3>3. \A q \in QueueOf(Items) :
                      /\ queue_pop(q) \in QueueOf(Items)
                      /\ queue_pop(q).active = q.active /\ queue_pop(q).ring = q.ring
                  BY DEF queue_pop, QueueOf
            <3>4. /\ queues' \in [Workers -> QueueOf(Items)]
                  /\ \A w \in Workers : queues'[w].active /\ queues'[w].ring = queues[w].ring
                  BY <1>2, <3>1, <3>2, <3>3
            <3> QED
                  BY <1>2, <3>1, <3>4
      <2>3. CASE DestroyJoin
            <3>1. /\ dpc = "join" /\ dn' = dn + 1 /\ queues' = queues
                  /\ dpc' = IF dn + 1 = NumWorkers THEN "freed" ELSE "pop"
                  BY <2>3 DEF DestroyJoin, workerVars
            <3>2. dn' \in 0..NumWorkers /\ (dpc' = "pop" => dn' < NumWorkers)
                  BY <1>2, <3>1, PoolAssumption
            <3> QED
                  BY <1>2, <3>1, <3>2
      <2> QED
            BY <2>1, <2>2, <2>3 DEF Destroy
<1>4. TypeOK'
      BY <1>1, <1>3 DEF PoolInv, TypeOK
<1>5. dpc' = "none" => dn' = 0
      BY DEF Destroy, DestroyBegin, DestroyPop, DestroyJoin
<1>6. Control'
      BY <1>1, <1>3, <1>5 DEF PoolInv, Control
<1>7. \A d \in Clients, b \in Nat, i \in Nat : Offered(d, b, i) => Offered(d, b, i)'
      BY <1>1 DEF Offered
<1>8. /\ Pending' = Pending
      /\ Apart' /\ IsFiniteSet(Pending)' /\ CountIsPending' /\ Issued' /\ RunsByPlace'
      BY <1>1, <1>3, <1>7, StillRuns
<1>9. CompletedIffIdle' /\ Reported'
      BY <1>1, <1>8 DEF PoolInv, Counted, PendingTracked, CompletedIffIdle, Reported
<1> QED
      BY <1>4, <1>6, <1>8, <1>9 DEF PoolInv, Counted, PendingTracked

LEMMA InitPool == Init => PoolInv
<1> SUFFICES ASSUME Init
             PROVE  PoolInv
      OBVIOUS
<1> USE DEF Init, threadpool_create
<1>1. queue_create \in QueueOf(Items) /\ queue_create.active /\ queue_create.ring = << >>
      <2>1. << >> \in Seq(Items)
            BY EmptySeq
      <2> QED
            BY <2>1 DEF queue_create, QueueOf
<1>2. TypeOK
      <2>1. 0 \in Workers /\ 0 \in 0..NumWorkers
            BY PoolAssumption DEF Workers
      <2> QED
            BY <1>1, <2>1 DEF TypeOK
<1>3. Control
      BY <1>1, PoolAssumption DEF Control
<1>4. Busy = {} /\ \A w \in Workers : queues[w].ring = << >>
      BY <1>1 DEF Busy
<1>5. \A w \in Workers : Queued(w) = {}
      BY <1>4, EmptySeq DEF Queued
<1>6. Pending = {}
      BY <1>4, <1>5 DEF Pending
<1>7. Apart
      BY <1>4, <1>5, EmptySeq DEF Apart
<1>8. Counted
      <2>1. IsFiniteSet(Pending) /\ Cardinality(Pending) = 0
            BY <1>6, FS_EmptySet
      <2> QED
            BY <2>1 DEF Counted, PendingTracked, CountIsPending, CompletedIffIdle
<1>9. Issued /\ Reported
      BY <1>6 DEF Issued, Reported
<1>10. RunsByPlace
      BY <1>5 DEF RunsByPlace, Taken
<1> QED
      BY <1>2, <1>3, <1>7, <1>8, <1>9, <1>10 DEF PoolInv

LEMMA StepPool == PoolInv /\ [Next]_vars => PoolInv'
<1> SUFFICES ASSUME PoolInv, [Next]_vars
             PROVE  PoolInv'
      OBVIOUS
<1>1. ASSUME NEW c \in Clients, ClientStep(c) \/ SpuriousWakeup(c)
      PROVE  PoolInv'
      BY <1>1, IssueBeginInv, IssueTryInv, IssueEndInv, ClientInv DEF ClientStep
<1>2. ASSUME NEW w \in Workers, WorkerStep(w)
      PROVE  PoolInv'
      BY <1>2, WorkerWakeInv, WorkerReadInv, WorkerRunInv, WorkerFinishInv DEF WorkerStep
<1>3. CASE UNCHANGED vars
      <2>1. UNCHANGED <<queues, wpc, data, runs, numCurrentItems, nextWorkerIndex, sem,
                        completed, cpc, batch, pos, tries, ret, accepted, dpc, dn>>
            BY <1>3 DEF vars, poolVars, workerVars, clientVars, destroyVars
      <2>2. \A d \in Clients, b \in Nat, i \in Nat : Offered(d, b, i) => Offered(d, b, i)'
            BY <2>1 DEF Offered
      <2>3. /\ Pending' = Pending
            /\ Apart' /\ IsFiniteSet(Pending)' /\ CountIsPending' /\ Issued' /\ RunsByPlace'
            BY <2>1, <2>2, StillRuns
      <2>4. TypeOK' /\ Control'
            BY <2>1 DEF PoolInv, TypeOK, Control
      <2>5. CompletedIffIdle' /\ Reported'
            BY <2>1, <2>3 DEF PoolInv, Counted, PendingTracked, CompletedIffIdle, Reported
      <2> QED
            BY <2>3, <2>4, <2>5 DEF PoolInv, Counted, PendingTracked
<1> QED
      BY <1>1, <1>2, <1>3, DestroyInv DEF Next, Terminated

\* The inductive invariant of the pool holds in every behaviour, whatever the
\* number of workers, clients and items, and with threadpool_destroy called at
\* any time at which no client is inside.
THEOREM PoolInvariant == Spec => []PoolInv
<1>1. Init => PoolInv
      BY InitPool
<1>2. PoolInv /\ [Next]_vars => PoolInv'
      BY StepPool
<1> QED
      BY <1>1, <1>2, PTL DEF Spec

\* Type correctness of the pool: in particular numCurrentItems, an int32_t in
\* the code, never goes below zero.
THEOREM PoolTypeOK == Spec => []TypeOK
<1>1. PoolInv => TypeOK
      BY DEF PoolInv
<1> QED
      BY <1>1, PoolInvariant, PTL

\* numCurrentItems is the number of accepted items that are not finished, and
\* the completed event is set exactly when there is none, outside an issue.
THEOREM PendingTrackedHolds == Spec => []PendingTracked
<1>1. PoolInv => PendingTracked
      BY DEF PoolInv, Counted
<1> QED
      BY <1>1, PoolInvariant, PTL

\* threadpool_complete returns true_e only when every item that the client got
\* accepted, in this and in earlier batches, has been run exactly once.
THEOREM CompleteTrueMeansDoneHolds == Spec => []CompleteTrueMeansDone
<1>1. PoolInv => CompleteTrueMeansDone
      <2> SUFFICES ASSUME PoolInv, NEW c \in Clients, cpc[c] = "done", ret[c],
                          NEW i \in accepted[c]
                   PROVE  runs[i] = 1
            BY DEF CompleteTrueMeansDone
      <2>1. i \in Items /\ Taken(i)
            BY DEF PoolInv, TypeOK, Taken
      <2>2. i \notin Pending
            BY DEF PoolInv, Reported
      <2> QED
            BY <2>1, <2>2 DEF PoolInv, RunsByPlace
<1> QED
      BY <1>1, PoolInvariant, PTL
=============================================================================
