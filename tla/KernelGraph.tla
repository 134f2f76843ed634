----------------------------- MODULE KernelGraph -----------------------------
(***************************************************************************)
(* The public graph API of source/dvp/dvp_kgraph/dvp_kgraph.c: threads that*)
(* process a kernel graph each on one DVP handle, the graph lock, the pool *)
(* that runs sections of the same order in parallel, the section callbacks,*)
(* and the thread that tears the handle down.                              *)
(*                                                                         *)
(* The pool is used through what module ThreadPool is shown to provide: an *)
(* item is refused only if NumWorkers * QueueDepth items are pending, an   *)
(* accepted item is run once, and the completed event is set exactly when  *)
(* nothing is pending.  DVP_KernelGraphBoss_Process appears as the time    *)
(* between the step that starts a section and the step that ends it.       *)
(*                                                                         *)
(* A thread asleep in event_wait may be woken by the condition variable    *)
(* itself: event_wait waits once and returns, whatever the event says.     *)
(***************************************************************************)
EXTENDS Integers, Sequences, FiniteSets

CONSTANTS Threads,        \* threads calling DVP_KernelGraph_Process
          Orders,         \* Orders[t][s]: the order of section s of t's graph
          Verified,       \* graphs the client has verified beforehand
          MaxSections,    \* MAX_SECTIONS: pool workers and collectors
          QueueDepth,     \* MAX_QUEUE_DEPTH
          Together,       \* bound: sets of threads that call in one behaviour
          Sleepers,       \* bound: threads whose waits may end by themselves
          Free            \* nobody

Sections(t) == DOMAIN Orders[t]
Slots == 1 .. (MaxSections * QueueDepth + MaxSections)

ASSUME GraphAssumption ==
    /\ MaxSections \in Nat \ {0} /\ QueueDepth \in Nat \ {0}
    /\ \A t \in Threads : Orders[t] \in Seq(Nat)
    /\ Free \notin Threads /\ Free \notin Slots

\* A work item: which section of whose graph; and where the pool has it.
Empty == [graph |-> Free, section |-> 0, st |-> "empty"]

VARIABLES m_enabled, m_count, m_wait,   \* DVP_GraphLock_t
          collectors,                   \* the static array of collectors
          pool,                         \* the items in the pool
          completed,                    \* pool->completed
          kgwSem,                       \* workData.sem: slot in its callback
          pc,                           \* where each thread is
          verified, skip,               \* of each graph
          order, chosen, fill, numRun,  \* locals of DVP_KernelGraph_Process
          done,                         \* how often each section was executed
          dpc,                          \* DVP_KernelGraph_Deinit
          holding,                      \* threads counted in m_count
          leaked, refused, late, overlap, \* see the properties
          early, earlyDeinit

lockVars == <<m_enabled, m_count, m_wait, holding>>
poolVars == <<collectors, pool, completed, kgwSem>>
localVars == <<order, chosen, fill, numRun>>
graphVars == <<verified, skip, done>>
wakeFlags == <<early, earlyDeinit>>
flags == <<leaked, refused, late, overlap, wakeFlags>>
vars == <<lockVars, poolVars, pc, localVars, graphVars, dpc, flags>>

\* DVP_KernelGraph_Init, and the client's graphs.
Init == /\ m_enabled = TRUE /\ m_count = 0 /\ m_wait = TRUE
        /\ collectors = [g \in 1..MaxSections |-> Empty]
        /\ pool = [i \in Slots |-> Empty]
        /\ completed = FALSE /\ kgwSem = Free
        /\ pc = [t \in Threads |-> "idle"]
        /\ verified = [t \in Threads |-> t \in Verified]
        /\ skip = [t \in Threads |-> {}]
        /\ done = [t \in Threads |-> [s \in Sections(t) |-> 0]]
        /\ order = [t \in Threads |-> 0]
        /\ chosen = [t \in Threads |-> << >>]
        /\ fill = [t \in Threads |-> 1]
        /\ numRun = [t \in Threads |-> 0]
        /\ dpc = "none"
        /\ holding = {} /\ leaked = {} /\ refused = {}
        /\ late = FALSE /\ overlap = FALSE
        /\ early = {} /\ earlyDeinit = FALSE

Goto(t, where) == pc' = [pc EXCEPT ![t] = where]

-----------------------------------------------------------------------------
\* dvp_graph_lock under m_lock.  What it returns is m_enabled read afterwards.
dvp_graph_lock(t) ==
    /\ m_count' = IF m_enabled THEN m_count + 1 ELSE m_count
    /\ m_wait' = (m_wait /\ ~m_enabled)
    /\ holding' = IF m_enabled THEN holding \cup {t} ELSE holding
    /\ late' = (late \/ dpc \notin {"none", "blocked"})
    /\ UNCHANGED m_enabled

\* Mutant: the waiter is signalled by every unlock.
SignalAlways(n) == TRUE

SignalAtZero(n) == n = 0

\* dvp_graph_unlock; Broadcast wakes a teardown asleep on m_wait.
dvp_graph_unlock(t) ==
    /\ m_count' = IF m_enabled THEN m_count - 1 ELSE m_count
    /\ m_wait' = (m_wait \/ (m_enabled /\ SignalAtZero(m_count')))
    /\ dpc' = IF dpc = "blocked" /\ m_enabled /\ SignalAtZero(m_count')
                THEN "woken" ELSE dpc
    /\ holding' = holding \ {t}
    /\ UNCHANGED m_enabled

\* The lock at the top of DVP_KernelGraph_Process.
Enter(t) ==
    /\ pc[t] = "idle"
    /\ \E S \in Together : {u \in Threads : pc[u] # "idle"} \cup {t} \subseteq S
    /\ dpc # "freed"
    /\ dvp_graph_lock(t)
    /\ Goto(t, "entered")
    /\ UNCHANGED <<poolVars, localVars, graphVars, dpc, leaked, refused, overlap,
                   wakeFlags>>

EnterReturn(t) ==
    /\ pc[t] = "entered"
    /\ Goto(t, IF ~m_enabled THEN "out" ELSE IF verified[t] THEN "order" ELSE "unverified")
    /\ UNCHANGED <<lockVars, poolVars, localVars, graphVars, dpc, flags>>

\* An unverified graph: the lock is released around DVP_KernelGraph_Verify,
\* which takes it for itself.
ReleaseToVerify(t) ==
    /\ pc[t] = "unverified"
    /\ dvp_graph_unlock(t)
    /\ Goto(t, "vlock")
    /\ UNCHANGED <<poolVars, localVars, graphVars, flags>>

VerifyLock(t) ==
    /\ pc[t] = "vlock"
    /\ dvp_graph_lock(t)
    /\ Goto(t, "vlocked")
    /\ UNCHANGED <<poolVars, localVars, graphVars, dpc, leaked, refused, overlap,
                   wakeFlags>>

VerifyBody(t) ==
    /\ pc[t] = "vlocked"
    /\ IF ~m_enabled
         THEN Goto(t, "out") /\ UNCHANGED verified
         ELSE /\ Goto(t, "vunlock")
              /\ \E ok \in BOOLEAN : verified' = [verified EXCEPT ![t] = ok]
    /\ UNCHANGED <<lockVars, poolVars, localVars, skip, done, dpc, flags>>

VerifyUnlock(t) ==
    /\ pc[t] = "vunlock"
    /\ dvp_graph_unlock(t)
    /\ Goto(t, IF verified[t] THEN "relock" ELSE "out")
    /\ UNCHANGED <<poolVars, localVars, graphVars, flags>>

\* The second lock of DVP_KernelGraph_Process, whose result is not looked at.
Relock(t) ==
    /\ pc[t] = "relock"
    /\ dvp_graph_lock(t)
    /\ Goto(t, "order")
    /\ UNCHANGED <<poolVars, localVars, graphVars, dpc, leaked, refused, overlap,
                   wakeFlags>>

-----------------------------------------------------------------------------
\* The elements of a set of numbers in increasing order.
Rank(S, i) == Cardinality({j \in S : j <= i})
Sorted(S) == [k \in 1 .. Cardinality(S) |-> CHOOSE i \in S : Rank(S, i) = k]

\* The sections of this order that are not skipped, in index order.
Eligible(t) == {s \in Sections(t) : Orders[t][s] = order[t] /\ s \notin skip[t]}
Candidates(t) == Sorted(Eligible(t))

\* The scan meets any further section, of whatever order, after it has filled
\* its array of MAX_SECTIONS.
TooMany(t) ==
    LET c == Candidates(t)
    IN  Len(c) >= MaxSections /\ c[MaxSections] < Len(Orders[t])

\* DVP_KernelGraph_Process gives up from inside the scan: it returns what it
\* has run so far and does not unlock.
GiveUp(t) ==
    /\ pc[t] = "order"
    /\ TooMany(t)
    /\ Goto(t, "out")
    /\ leaked' = leaked \cup (holding \cap {t})
    /\ UNCHANGED <<lockVars, poolVars, localVars, graphVars, dpc, refused, late, overlap,
                   wakeFlags>>

\* Mutant: the scan takes the sections of later orders along.
CandidatesFromOrder(t) ==
    Sorted({s \in Sections(t) : Orders[t][s] >= order[t] /\ s \notin skip[t]})

ChosenSections(t) == Candidates(t)

ScanOrder(t) ==
    /\ pc[t] = "order"
    /\ ~TooMany(t)
    /\ chosen' = [chosen EXCEPT ![t] = ChosenSections(t)]
    /\ fill' = [fill EXCEPT ![t] = 1]
    /\ Goto(t, CASE Len(ChosenSections(t)) = 0 -> "exit"
                 [] Len(ChosenSections(t)) = 1 -> "inline"
                 [] OTHER -> "fill")
    /\ UNCHANGED <<lockVars, poolVars, order, numRun, graphVars, dpc, flags>>

\* Parallel sections: write them into the static collectors one by one.
InFill(t) == pc[t] \in {"fill", "issue"}

FillCollector(t) ==
    /\ pc[t] = "fill"
    /\ collectors' = [collectors EXCEPT ![fill[t]] =
                        [graph |-> t, section |-> chosen[t][fill[t]], st |-> "queued"]]
    /\ fill' = [fill EXCEPT ![t] = @ + 1]
    /\ Goto(t, IF fill[t] = Len(chosen[t]) THEN "issue" ELSE "fill")
    /\ overlap' = (overlap \/ \E u \in Threads \ {t} : InFill(u))
    /\ UNCHANGED <<lockVars, pool, completed, kgwSem, order, chosen, numRun, graphVars, dpc,
                   leaked, refused, late, wakeFlags>>

\* The slots of the pool in use, and the pool with more items, in the first slots
\* that are not.
Pending(p) == {i \in Slots : p[i] # Empty}

Placed(p, items) ==
    [i \in Slots |->
        IF i \notin Pending(p) /\ Rank(Slots \ Pending(p), i) <= Len(items)
          THEN items[Rank(Slots \ Pending(p), i)] ELSE p[i]]

\* Mutant: the completed event is not lowered for new work.
CompletedKept(p) == completed \/ Pending(p) = {}

\* The completed event at the end of threadpool_issue.
CompletedAfterIssue(p) == Pending(p) = {}

\* threadpool_issue: the collectors are copied as they are now.  Unless so many
\* items are pending that the pool may refuse, all of them are taken.
Issue(t) ==
    /\ pc[t] = "issue"
    /\ \E k \in 0 .. Len(chosen[t]) :
          /\ k < Len(chosen[t]) =>
                Cardinality(Pending(pool)) + k >= MaxSections * QueueDepth
          /\ Cardinality(Pending(pool)) + k <= Cardinality(Slots)
          /\ pool' = Placed(pool, SubSeq(collectors, 1, k))
          /\ refused' = IF k < Len(chosen[t]) THEN refused \cup {t} ELSE refused
    /\ completed' = CompletedAfterIssue(pool')
    /\ Goto(t, "wait")
    /\ UNCHANGED <<lockVars, collectors, kgwSem, localVars, graphVars, dpc,
                   leaked, late, overlap, wakeFlags>>

\* threadpool_complete(pool, true_e) and the end of the turn.
NextOrder(t, ran) ==
    /\ numRun' = [numRun EXCEPT ![t] = @ + ran]
    /\ order' = [order EXCEPT ![t] = @ + 1]
    /\ Goto(t, "order")

WaitForPool(t) ==
    /\ pc[t] = "wait"
    /\ IF completed THEN NextOrder(t, Len(chosen[t]))
                    ELSE Goto(t, "blocked") /\ UNCHANGED <<numRun, order>>
    /\ UNCHANGED <<lockVars, poolVars, chosen, fill, graphVars, dpc, flags>>

\* The condition variable wakes the thread by itself.
WakesByItself(t) ==
    /\ pc[t] = "blocked"
    /\ t \in Sleepers
    /\ Goto(t, "woken")
    /\ early' = early \cup {t}
    /\ UNCHANGED <<lockVars, poolVars, localVars, graphVars, dpc, leaked, refused, late, overlap,
                   earlyDeinit>>

\* event_wait says whether the event is set now.  If it is not, Process only logs
\* that it failed to wait, counts nothing and starts the next order.
WokenByPool(t) ==
    /\ pc[t] = "woken"
    /\ NextOrder(t, IF completed THEN Len(chosen[t]) ELSE 0)
    /\ UNCHANGED <<lockVars, poolVars, chosen, fill, graphVars, dpc, flags>>

\* The client's callback may mark sections of later orders to be skipped.
Callback(t, s) ==
    \E S \in SUBSET {u \in Sections(t) : Orders[t][u] > Orders[t][s]} :
        skip' = [skip EXCEPT ![t] = @ \cup S]

\* A single section is executed and reported inline.
RunInline(t) ==
    /\ pc[t] = "inline"
    /\ done' = [done EXCEPT ![t][chosen[t][1]] = @ + 1]
    /\ Goto(t, "incallback")
    /\ UNCHANGED <<lockVars, poolVars, localVars, verified, skip, dpc, flags>>

CallbackInline(t) ==
    /\ pc[t] = "incallback"
    /\ Callback(t, chosen[t][1])
    /\ NextOrder(t, 1)
    /\ UNCHANGED <<lockVars, poolVars, chosen, fill, verified, done, dpc, flags>>

\* No section of this order: the graph is finished.
Exit(t) ==
    /\ pc[t] = "exit"
    /\ dvp_graph_unlock(t)
    /\ Goto(t, "out")
    /\ UNCHANGED <<poolVars, localVars, graphVars, flags>>

-----------------------------------------------------------------------------
\* dvp_kernelgraph_worker on the item of a slot: at most MaxSections workers.
Active(p) == {i \in Slots : p[i].st \in {"running", "callback"}}

WorkerStart(i) ==
    /\ pool[i].st = "queued"
    /\ Cardinality(Active(pool)) < MaxSections
    /\ pool' = [pool EXCEPT ![i].st = "running"]
    /\ UNCHANGED <<lockVars, collectors, completed, kgwSem, pc, localVars, graphVars, dpc,
                   flags>>

\* Mutant: the callback does not wait for the semaphore.
CallbackUnguarded == TRUE

CallbackMayStart == kgwSem = Free

\* DVP_KernelGraphBoss_Process has returned and the semaphore is taken.
WorkerCallback(i) ==
    /\ pool[i].st = "running"
    /\ CallbackMayStart
    /\ done' = [done EXCEPT ![pool[i].graph][pool[i].section] = @ + 1]
    /\ kgwSem' = i
    /\ pool' = [pool EXCEPT ![i].st = "callback"]
    /\ UNCHANGED <<lockVars, collectors, completed, pc, localVars, verified, skip, dpc,
                   flags>>

\* Mutant: the completed event wakes nobody.
WakesNobody(p) == FALSE

\* The last pending item: the completed event is set and wakes the sleepers.
WakesSleepers(p) == Pending(p) = {}

\* The callback returns, the semaphore is posted and the pool counts the item.
WorkerDone(i) ==
    /\ pool[i].st = "callback"
    /\ Callback(pool[i].graph, pool[i].section)
    /\ kgwSem' = Free
    /\ pool' = [pool EXCEPT ![i] = Empty]
    /\ completed' = (completed \/ Pending(pool') = {})
    /\ pc' = [t \in Threads |-> IF pc[t] = "blocked" /\ WakesSleepers(pool')
                                  THEN "woken" ELSE pc[t]]
    /\ UNCHANGED <<lockVars, collectors, localVars, verified, done, dpc, flags>>

-----------------------------------------------------------------------------
\* DVP_KernelGraph_Deinit: dvp_graphlock_wait waits for the event once, then
\* disables the lock under m_lock; threadpool_destroy waits for the workers'
\* current items, and the handle is freed.
DeinitWait ==
    /\ dpc = "none"
    /\ dpc' = IF m_wait THEN "woken" ELSE "blocked"
    /\ UNCHANGED <<lockVars, poolVars, pc, localVars, graphVars, flags>>

\* The condition variable wakes the teardown by itself.
DeinitWakesByItself ==
    /\ dpc = "blocked"
    /\ dpc' = "woken"
    /\ earlyDeinit' = TRUE
    /\ UNCHANGED <<lockVars, poolVars, pc, localVars, graphVars, leaked, refused, late, overlap,
                   early>>

\* The result of event_wait is not looked at.
DeinitDisable ==
    /\ dpc = "woken"
    /\ m_enabled' = FALSE
    /\ dpc' = "destroy"
    /\ UNCHANGED <<m_count, m_wait, holding, poolVars, pc, localVars, graphVars, flags>>

DeinitFree ==
    /\ dpc = "destroy"
    /\ Active(pool) = {}
    /\ dpc' = "freed"
    /\ UNCHANGED <<lockVars, poolVars, pc, localVars, graphVars, flags>>

-----------------------------------------------------------------------------
ThreadStep(t) ==
    \/ EnterReturn(t) \/ ReleaseToVerify(t) \/ VerifyLock(t) \/ VerifyBody(t)
    \/ VerifyUnlock(t) \/ Relock(t) \/ GiveUp(t) \/ ScanOrder(t) \/ FillCollector(t)
    \/ Issue(t) \/ WaitForPool(t) \/ WokenByPool(t) \/ RunInline(t)
    \/ CallbackInline(t) \/ Exit(t)

WorkerStep(i) == WorkerStart(i) \/ WorkerCallback(i) \/ WorkerDone(i)

DeinitStep == DeinitDisable \/ DeinitFree

\* A step of somebody who is inside a call, or of a worker.
Progress == \/ \E t \in Threads : ThreadStep(t)
            \/ \E i \in Slots : WorkerStep(i)
            \/ DeinitStep

\* Nobody is obliged to wake by itself.
SpuriousWakeUp == (\E t \in Threads : WakesByItself(t)) \/ DeinitWakesByItself

\* Nothing is left to do once the handle is freed; a teardown that waits for a
\* thread which has returned without unlocking waits for ever.
Stopped == /\ dpc = "freed" \/ (dpc = "blocked" /\ leaked # {})
           /\ UNCHANGED vars

\* After DeinitFree the memory is gone; what a thread still inside would do
\* next is not defined, so nothing more happens.
Next == \/ /\ dpc # "freed"
           /\ (\E t \in Threads : Enter(t)) \/ DeinitWait \/ Progress
              \/ SpuriousWakeUp
        \/ Stopped

\* Some thread inside the API, some worker or the teardown goes on as long as
\* one of them can; nobody is obliged to call Process or Deinit.  Each thread
\* processes its graph once, so this is enough for all of them to get on.
Fairness == WF_vars(dpc # "freed" /\ Progress)

Spec == Init /\ [][Next]_vars /\ Fairness
-----------------------------------------------------------------------------
(***************************************************************************)
(* Properties.  Six flags record that something happened after which the   *)
(* code promises less:                                                     *)
(*   leaked  - threads that returned from inside the scan, still counted   *)
(*   refused - threads whose threadpool_issue did not take every item     *)
(*   late    - a thread called dvp_graph_lock after Deinit's event_wait    *)
(*             had already passed                                          *)
(*   overlap - two threads were filling the one static array at once       *)
(*   early   - threads whose wait for the pool was ended by the condition  *)
(*             variable itself                                             *)
(*   earlyDeinit - the teardown's wait was                                 *)
(***************************************************************************)
Pcs == {"idle", "entered", "unverified", "vlock", "vlocked", "vunlock", "relock", "order",
        "fill", "issue", "wait", "blocked", "woken", "inline", "incallback", "exit", "out"}
Items == {Empty} \cup
         UNION {[graph : {t}, section : Sections(t),
                 st : {"queued", "running", "callback"}] : t \in Threads}

\* Type invariant.
TypeOK == /\ m_enabled \in BOOLEAN /\ m_count \in Nat /\ m_wait \in BOOLEAN
          /\ collectors \in [1..MaxSections -> Items]
          /\ pool \in [Slots -> Items]
          /\ completed \in BOOLEAN /\ kgwSem \in Slots \cup {Free}
          /\ pc \in [Threads -> Pcs]
          /\ verified \in [Threads -> BOOLEAN]
          /\ \A t \in Threads : skip[t] \subseteq Sections(t)
          /\ \A t \in Threads : fill[t] \in 1 .. MaxSections + 1
          /\ \A t \in Threads : Len(chosen[t]) <= MaxSections
          /\ \A t \in Threads : order[t] \in Nat /\ numRun[t] \in Nat
          /\ dpc \in {"none", "blocked", "woken", "destroy", "freed"}
          /\ holding \subseteq Threads /\ leaked \subseteq Threads /\ refused \subseteq Threads
          /\ early \subseteq Threads

Inside == {t \in Threads : pc[t] \notin {"idle", "out"}}

\* While the lock is enabled m_count is exactly the number of threads between a
\* lock and its unlock, and the event is set exactly when there is none: across
\* the unlock, verify, lock sequence of an unverified graph, and with the
\* threads that returned without unlocking still counted.
LockCountsGraphs ==
    m_enabled => m_count = Cardinality(holding) /\ m_wait = (m_count = 0)

\* Inside, but not between the unlock and the lock around verification.
Locked == {t \in Inside : pc[t] \notin {"vlock", "relock"}}

\* DVP_KernelGraph_Deinit frees the handle only when no thread is at work in
\* Process, if every dvp_graph_lock was called before it passed its event_wait and
\* that wait was ended by the last unlock, not by the condition variable itself.
TeardownWaits == dpc = "freed" /\ ~late /\ ~earlyDeinit => Locked = {}

Processing == {t \in Threads : pc[t] \in {"order", "fill", "issue", "wait", "blocked", "woken",
                                          "inline", "incallback"}}

\* "this will block until all graphs have exited": no thread is processing a
\* graph when the pool and the handle have been freed.
TeardownAlwaysWaits == dpc = "freed" => Processing = {}

RunningSections(t) ==
    {s \in Sections(t) :
        \/ \E i \in Slots : pool[i].graph = t /\ pool[i].section = s /\ pool[i].st = "running"
        \/ pc[t] = "inline" /\ chosen[t][1] = s}

\* A section executes only when every section of a lower order has executed or
\* is marked to be skipped: the orders of a graph are a barrier each.  The pool
\* has taken what was issued, and no wait for it ended by itself: after that
\* Process goes on with sections pending.
OrderRespected ==
    ~overlap =>
        \A t \in Threads \ (refused \cup early) : \A s \in RunningSections(t) : \A u \in Sections(t) :
            Orders[t][u] < Orders[t][s] => done[t][u] > 0 \/ u \in skip[t]

Executed(t) == {s \in Sections(t) : done[t][s] > 0}

\* What DVP_KernelGraph_Process returns never exceeds the sections that were
\* executed, and it executes none twice, if the pool took what was issued; also
\* when a wait for the pool ended too early.
CountedSectionsRan ==
    ~overlap => \A t \in Threads \ refused :
        pc[t] = "out" => /\ numRun[t] <= Cardinality(Executed(t))
                         /\ \A s \in Sections(t) : done[t][s] <= 1

\* The same when graphs run at once, as the API advertises.
ParallelGraphsRun ==
    \A t \in Threads :
        pc[t] = "out" => /\ numRun[t] <= Cardinality(Executed(t))
                         /\ \A s \in Sections(t) : done[t][s] <= 1

InCallback(t) == {i \in Slots : pool[i].graph = t /\ pool[i].st = "callback"}

\* Workers enter the clients' callbacks one at a time, whatever the graph; and the
\* callback of a graph is entered for one section at a time, by a worker or by
\* the caller inline, unless the caller's wait for the pool ended by itself.
CallbackExclusive ==
    /\ Cardinality({i \in Slots : pool[i].st = "callback"}) <= 1
    /\ ~overlap =>
        \A t \in Threads \ early :
            Cardinality(InCallback(t)) + (IF pc[t] = "incallback" THEN 1 ELSE 0) <= 1

\* The threads inside DVP_KernelGraph_Process get out of it, unless a teardown
\* that did not wait for them frees the handle first: nobody waits for a pool
\* that is idle, or for an item nobody runs.
ProcessReturns == (Inside # {}) ~> (Inside = {} \/ dpc = "freed")

\* A teardown ends, unless a thread has returned without unlocking.
DeinitEnds == (dpc = "blocked") ~> (dpc = "freed" \/ leaked # {})

\* Whoever waits, for the pool in Process or for the graphs in Deinit, gets out.
EveryoneGetsOut == ProcessReturns /\ DeinitEnds

\* A teardown ends.
DeinitAlwaysEnds == (dpc = "blocked") ~> (dpc = "freed")
=============================================================================
