----------------------------- MODULE ThreadPool -----------------------------
(***************************************************************************)
(* The thread pool of source/sosal/threadpool.c: worker threads with one   *)
(* queue each, clients that issue work items round robin and wait for all  *)
(* work to be complete, and the thread that destroys the pool.             *)
(*                                                                         *)
(* pool->sem is held over a whole threadpool_issue, so that is a sequence  *)
(* of steps during which workers go on reading their queues; a worker needs*)
(* the semaphore only to count a finished item.  Unlike the queue's event  *)
(* waits, threadpool_complete calls event_wait once: what the woken thread *)
(* finds in completed is what it returns.                                  *)
(***************************************************************************)
EXTENDS Queue, FiniteSets

CONSTANTS NumWorkers,     \* numThreads of threadpool_create
          Clients,        \* threads that issue work
          Batches,        \* bound: the batches of items each client issues
          Free            \* nobody holds pool->sem

Workers == 0 .. NumWorkers - 1

Items == UNION {UNION {{Batches[c][b][i] : i \in DOMAIN Batches[c][b]} :
                         b \in DOMAIN Batches[c]} : c \in Clients}

\* An item stands for one occurrence of a work item in one call of
\* threadpool_issue, so no two of them are the same.
ASSUME PoolAssumption ==
    /\ NumWorkers \in Nat \ {0}
    /\ Free \notin Clients
    /\ \A c \in Clients :
          /\ Batches[c] \in Seq(Seq(Items))
          /\ \A b \in DOMAIN Batches[c] : Len(Batches[c][b]) > 0
    /\ \A c, d \in Clients : \A b \in DOMAIN Batches[c], e \in DOMAIN Batches[d] :
          \A i \in DOMAIN Batches[c][b], j \in DOMAIN Batches[d][e] :
              Batches[c][b][i] = Batches[d][e][j] => c = d /\ b = e /\ i = j

VARIABLES queues,           \* workers[w].queue
          wpc,              \* "read", "lock", "run", "finish" or "exited"
          data,             \* workers[w].data, the item last read
          numCurrentItems,
          nextWorkerIndex,
          sem,              \* who holds pool->sem
          completed,        \* the completed event
          cpc,              \* "idle", "issue", "post", "issued", "blocked",
                            \* "woken" or "done"
          batch,            \* the batch each client issues next or now
          pos, tries,       \* i and count of threadpool_issue
          ret,              \* wrote, then what the call returned
          accepted,         \* items whose queue_write returned true_e
          runs,             \* how often each item was executed
          dpc, dn           \* progress of threadpool_destroy

poolVars == <<numCurrentItems, nextWorkerIndex, sem, completed>>
workerVars == <<queues, wpc, data, runs>>
clientVars == <<cpc, batch, pos, tries, ret, accepted>>
destroyVars == <<dpc, dn>>
vars == <<poolVars, workerVars, clientVars, destroyVars>>

threadpool_create ==
    /\ queues = [w \in Workers |-> queue_create]
    /\ wpc = [w \in Workers |-> "read"]
    /\ data = [w \in Workers |-> Free]
    /\ runs = [i \in Items |-> 0]
    /\ numCurrentItems = 0 /\ nextWorkerIndex = 0
    /\ sem = Free /\ completed = FALSE

Init == /\ threadpool_create
        /\ cpc = [c \in Clients |-> "idle"]
        /\ batch = [c \in Clients |-> 1]
        /\ pos = [c \in Clients |-> 1] /\ tries = [c \in Clients |-> 0]
        /\ ret = [c \in Clients |-> FALSE]
        /\ accepted = [c \in Clients |-> {}]
        /\ dpc = "none" /\ dn = 0

\* event_set on completed: every thread in the condition wait is woken.
Broadcast(p) == [c \in Clients |-> IF p[c] = "blocked" THEN "woken" ELSE p[c]]

-----------------------------------------------------------------------------
\* threadpool_issue: take the semaphore and lower the completed event.
IssueBegin(c) ==
    /\ dpc = "none"
    /\ cpc[c] \in {"idle", "done"}
    /\ batch[c] <= Len(Batches[c])
    /\ sem = Free
    /\ sem' = c
    /\ completed' = FALSE
    /\ cpc' = [cpc EXCEPT ![c] = "issue"]
    /\ pos' = [pos EXCEPT ![c] = 1]
    /\ tries' = [tries EXCEPT ![c] = 0]
    /\ ret' = [ret EXCEPT ![c] = FALSE]
    /\ UNCHANGED <<numCurrentItems, nextWorkerIndex, workerVars, batch, accepted,
                   destroyVars>>

CountIssued(wrote) == IF wrote THEN numCurrentItems + 1 ELSE numCurrentItems

\* All workers were tried with this item and none had room.
GiveUp(c, wrote) == ~wrote /\ tries[c] + 1 >= NumWorkers

\* Mutant: the index is not wrapped.
NextWorkerUnwrapped == nextWorkerIndex + 1

NextWorker == (nextWorkerIndex + 1) % NumWorkers

\* One turn of the do-while: offer the item to the next worker.
IssueTry(c) ==
    LET item == Batches[c][batch[c]][pos[c]]
        queue == queues[nextWorkerIndex]
        wrote == WriteReturns(queue, FALSE)
        last == pos[c] = Len(Batches[c][batch[c]])
    IN  /\ cpc[c] = "issue"
        /\ queues' = [queues EXCEPT ![nextWorkerIndex] = queue_write(queue, item)]
        /\ nextWorkerIndex' = NextWorker
        /\ numCurrentItems' = CountIssued(wrote)
        /\ accepted' = [accepted EXCEPT ![c] = IF wrote THEN @ \cup {item} ELSE @]
        /\ tries' = [tries EXCEPT ![c] = IF wrote THEN 0 ELSE @ + 1]
        /\ pos' = [pos EXCEPT ![c] = IF wrote /\ ~last THEN @ + 1 ELSE @]
        /\ ret' = [ret EXCEPT ![c] = wrote]
        /\ cpc' = [cpc EXCEPT ![c] = IF (wrote /\ last) \/ GiveUp(c, wrote)
                                       THEN "post" ELSE @]
        /\ UNCHANGED <<sem, completed, wpc, data, runs, batch, destroyVars>>

\* Nothing is pending: the event lowered by IssueBegin has to be set again.
RestoreCompleted == numCurrentItems = 0

\* The end of threadpool_issue: set the event if nothing is pending, release.
IssueEnd(c) ==
    /\ cpc[c] = "post"
    /\ completed' = (completed \/ RestoreCompleted)
    /\ cpc' = [(IF RestoreCompleted THEN Broadcast(cpc) ELSE cpc) EXCEPT ![c] = "issued"]
    /\ sem' = Free
    /\ batch' = [batch EXCEPT ![c] = @ + 1]
    /\ UNCHANGED <<numCurrentItems, nextWorkerIndex, workerVars, pos, tries, ret, accepted,
                   destroyVars>>

\* threadpool_complete, blocking: event_wait sees the event or goes to sleep.
CompleteWait(c) ==
    /\ cpc[c] = "issued"
    /\ cpc' = [cpc EXCEPT ![c] = IF completed THEN "done" ELSE "blocked"]
    /\ ret' = [ret EXCEPT ![c] = completed]
    /\ UNCHANGED <<poolVars, workerVars, batch, pos, tries, accepted, destroyVars>>

\* A condition variable may wake a sleeper that nobody signalled.
SpuriousWakeup(c) ==
    /\ cpc[c] = "blocked"
    /\ cpc' = [cpc EXCEPT ![c] = "woken"]
    /\ UNCHANGED <<poolVars, workerVars, batch, pos, tries, ret, accepted, destroyVars>>

\* Mutant: a woken thread takes the wake-up for the event.
TrustWakeup == TRUE

\* What event_timed_wait returns to a thread that was woken.
WokenReturns == completed

CompleteWoken(c) ==
    /\ cpc[c] = "woken"
    /\ cpc' = [cpc EXCEPT ![c] = "done"]
    /\ ret' = [ret EXCEPT ![c] = WokenReturns]
    /\ UNCHANGED <<poolVars, workerVars, batch, pos, tries, accepted, destroyVars>>

\* threadpool_complete, polling: the count is read without the semaphore.
CompletePoll(c) ==
    /\ cpc[c] = "issued"
    /\ cpc' = [cpc EXCEPT ![c] = "done"]
    /\ ret' = [ret EXCEPT ![c] = (numCurrentItems = 0)]
    /\ UNCHANGED <<poolVars, workerVars, batch, pos, tries, accepted, destroyVars>>

-----------------------------------------------------------------------------
\* threadpool_worker: the blocking queue_read.
WorkerWake(w) ==
    /\ wpc[w] = "read"
    /\ queues[w].readEvent
    /\ wpc' = [wpc EXCEPT ![w] = "lock"]
    /\ UNCHANGED <<queues, data, runs, poolVars, clientVars, destroyVars>>

\* queue_read returned false_e: the thread leaves its loop.
WorkerLeaves(w) == ~ReadReturns(queues[w], TRUE)

WorkerRead(w) ==
    /\ wpc[w] = "lock"
    /\ queues' = [queues EXCEPT ![w] = queue_read(@)]
    /\ data' = [data EXCEPT ![w] = IF Reads(queues[w]) THEN Head(queues[w].ring) ELSE @]
    /\ wpc' = [wpc EXCEPT ![w] = IF WorkerLeaves(w) THEN "exited" ELSE "run"]
    /\ UNCHANGED <<runs, poolVars, clientVars, destroyVars>>

\* worker->function returns.
WorkerRun(w) ==
    /\ wpc[w] = "run"
    /\ runs' = [runs EXCEPT ![data[w]] = @ + 1]
    /\ wpc' = [wpc EXCEPT ![w] = "finish"]
    /\ UNCHANGED <<queues, data, poolVars, clientVars, destroyVars>>

\* Mutant: zero items left is not noticed.
AllDoneBelow(n) == n < 0

\* Mutant: the event is set one item too early.
AllDoneOffByOne(n) == n <= 1

\* The test on the count after the decrement.
AllDone(n) == n <= 0

\* Count the item as finished, under the semaphore.
WorkerFinish(w) ==
    /\ wpc[w] = "finish"
    /\ sem = Free
    /\ numCurrentItems' = numCurrentItems - 1
    /\ completed' = (completed \/ AllDone(numCurrentItems'))
    /\ cpc' = IF AllDone(numCurrentItems') THEN Broadcast(cpc) ELSE cpc
    /\ wpc' = [wpc EXCEPT ![w] = "read"]
    /\ UNCHANGED <<queues, data, runs, nextWorkerIndex, sem, batch, pos, tries, ret,
                   accepted, destroyVars>>

-----------------------------------------------------------------------------
\* threadpool_destroy, called when no client is inside the pool any more; it
\* does not wait for queued work.  One worker after the other: pop its queue,
\* join it, free what it used.
DestroyBegin ==
    /\ dpc = "none"
    /\ \A c \in Clients : cpc[c] \in {"idle", "done"}
    /\ dpc' = "pop"
    /\ UNCHANGED <<dn, poolVars, workerVars, clientVars>>

DestroyPop ==
    /\ dpc = "pop"
    /\ queues' = [queues EXCEPT ![dn] = queue_pop(@)]
    /\ dpc' = "join"
    /\ UNCHANGED <<dn, wpc, data, runs, poolVars, clientVars>>

\* thread_join returns.
Joined == wpc[dn] = "exited"

DestroyJoin ==
    /\ dpc = "join"
    /\ Joined
    /\ dn' = dn + 1
    /\ dpc' = IF dn + 1 = NumWorkers THEN "freed" ELSE "pop"
    /\ UNCHANGED <<poolVars, workerVars, clientVars>>

-----------------------------------------------------------------------------
ClientStep(c) == \/ IssueBegin(c) \/ IssueTry(c) \/ IssueEnd(c)
                 \/ CompleteWait(c) \/ CompleteWoken(c) \/ CompletePoll(c)
WorkerStep(w) == WorkerWake(w) \/ WorkerRead(w) \/ WorkerRun(w) \/ WorkerFinish(w)
Destroy == DestroyBegin \/ DestroyPop \/ DestroyJoin

\* The pool has been freed and everybody is gone.
Terminated == dpc = "freed" /\ UNCHANGED vars

Next == \/ \E c \in Clients : ClientStep(c) \/ SpuriousWakeup(c)
        \/ \E w \in Workers : WorkerStep(w)
        \/ Destroy
        \/ Terminated

\* Threads inside a call and workers keep running; each batch takes the
\* semaphore once, so a waiting worker cannot be overtaken for ever.
Fairness == /\ \A c \in Clients : /\ WF_vars(IssueTry(c) \/ IssueEnd(c))
                                  /\ WF_vars(CompleteWoken(c))
            /\ \A w \in Workers : WF_vars(WorkerStep(w))
            /\ WF_vars(DestroyPop \/ DestroyJoin)

Spec == Init /\ [][Next]_vars /\ Fairness

-----------------------------------------------------------------------------
\* Items put in a queue and not yet counted as finished.
Queued(w) == {queues[w].ring[i] : i \in DOMAIN queues[w].ring}
Busy == {w \in Workers : wpc[w] \in {"run", "finish"}}
Pending == (UNION {Queued(w) : w \in Workers}) \cup {data[w] : w \in Busy}

\* Type invariant.
TypeOK ==
    /\ queues \in [Workers -> QueueOf(Items)]
    /\ wpc \in [Workers -> {"read", "lock", "run", "finish", "exited"}]
    /\ data \in [Workers -> Items \cup {Free}]
    /\ runs \in [Items -> Nat]
    /\ numCurrentItems \in Nat
    /\ nextWorkerIndex \in Workers
    /\ sem \in Clients \cup {Free}
    /\ completed \in BOOLEAN
    /\ cpc \in [Clients -> {"idle", "issue", "post", "issued", "blocked", "woken", "done"}]
    /\ batch \in [Clients -> Nat] /\ pos \in [Clients -> Nat] /\ tries \in [Clients -> Nat]
    /\ ret \in [Clients -> BOOLEAN]
    /\ accepted \in [Clients -> SUBSET Items]
    /\ dpc \in {"none", "pop", "join", "freed"}
    /\ dn \in 0..NumWorkers

\* numCurrentItems is exact although issuers raise it before and workers lower
\* it after the fact: it is the number of items accepted and not yet finished.
CountIsPending == numCurrentItems = Cardinality(Pending)

\* The completed event is set exactly when nothing is pending, from the first
\* issue on and outside an issue in progress: it is never left set over new
\* work and never left lowered when the last item is done.
CompletedIffIdle ==
    /\ completed => numCurrentItems = 0
    /\ (sem = Free /\ numCurrentItems = 0 /\ \E c \in Clients : batch[c] > 1)
          => completed

\* The pool knows exactly what is pending: through its count and its event.
PendingTracked == CountIsPending /\ CompletedIffIdle

\* When threadpool_complete returns true_e, blocking or polling, every item the
\* client got into the pool has been executed, and executed once.
CompleteTrueMeansDone ==
    \A c \in Clients :
        (cpc[c] = "done" /\ ret[c]) => \A i \in accepted[c] : runs[i] = 1

\* A client blocked in threadpool_complete gets out, even if others keep
\* issuing, as long as the work ends.
CompleteReturns ==
    \A c \in Clients : cpc[c] \in {"blocked", "woken"} ~> cpc[c] = "done"

\* threadpool_destroy terminates from every state it may be called in, with
\* workers idle, between items or in the middle of one.
DestroyTerminates == (dpc # "none") ~> (dpc = "freed")
=============================================================================
