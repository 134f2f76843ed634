-------------------------- MODULE KernelGraphProofs --------------------------
(***************************************************************************)
(* Proofs about DVP_KernelGraph_Process and DVP_KernelGraph_Deinit, for any*)
(* threads and graphs, any number of collectors and depth of the queues.   *)
(*                                                                         *)
(* Two inductive invariants.  LockInv is about the graph lock alone: who is*)
(* counted, where, and that nobody is left when the teardown passes.       *)
(* WorkInv is about the work: the sections a thread has chosen for the     *)
(* order it is at, where each of them is, and how often it has been run.   *)
(***************************************************************************)
EXTENDS KernelGraph, FiniteSetTheorems, SequenceTheorems, TLAPS

\* Where a thread is counted by dvp_graph_lock, if the lock is enabled.
LockedPcs == {"entered", "unverified", "vlocked", "vunlock", "order", "fill", "issue", "wait",
              "blocked", "woken", "inline", "incallback", "exit"}

\* Who holds the lock, and that none is left once the teardown has passed its
\* event_wait, unless somebody came late or the wait ended by itself.
LockInv ==
    /\ m_enabled \in BOOLEAN /\ m_count \in Nat /\ m_wait \in BOOLEAN
    /\ late \in BOOLEAN /\ earlyDeinit \in BOOLEAN
    /\ pc \in [Threads -> Pcs]
    /\ dpc \in {"none", "blocked", "woken", "destroy", "freed"}
    /\ holding \subseteq Threads /\ IsFiniteSet(holding)
    /\ m_enabled <=> dpc \in {"none", "blocked", "woken"}
    /\ LockCountsGraphs
    /\ \A t \in Threads : pc[t] \in {"idle", "vlock", "relock"} => t \notin holding
    /\ m_enabled => \A t \in Threads : pc[t] \in LockedPcs => t \in holding
    /\ dpc \in {"woken", "destroy", "freed"} /\ ~late /\ ~earlyDeinit =>
          \A t \in Threads : pc[t] \notin LockedPcs

-----------------------------------------------------------------------------
\* The sections chosen for an order: all of it that is not skipped, each once.
InTurn == {"fill", "issue", "wait", "blocked", "woken", "inline", "incallback"}

IsChosen(t, s) == \E k \in DOMAIN chosen[t] : chosen[t][k] = s

Turn(t) ==
    /\ \A k \in DOMAIN chosen[t] :
          chosen[t][k] \in Sections(t) /\ Orders[t][chosen[t][k]] = order[t]
    /\ \A k, l \in DOMAIN chosen[t] : chosen[t][k] = chosen[t][l] => k = l
    /\ \A s \in Sections(t) :
          Orders[t][s] = order[t] /\ s \notin skip[t] => IsChosen(t, s)
    /\ pc[t] \in {"inline", "incallback"} => Len(chosen[t]) = 1
    /\ pc[t] = "fill" => fill[t] \in 1 .. Len(chosen[t])
    /\ pc[t] = "issue" => fill[t] = Len(chosen[t]) + 1

Turns == \A t \in Threads : pc[t] \in InTurn => Turn(t)

\* The semaphore is held exactly by the item in its callback, a collector is
\* never beyond "queued", and the completed event means an empty pool.
Semaphore ==
    /\ \A i \in Slots : pool[i].st = "callback" <=> kgwSem = i
    /\ \A g \in 1 .. MaxSections : collectors[g].st \in {"empty", "queued"}
    /\ completed => Pending(pool) = {}

\* The collectors a thread has filled are its own.
Filled ==
    \A t \in Threads : InFill(t) =>
        \A g \in 1 .. MaxSections : g < fill[t] =>
            collectors[g] = [graph |-> t, section |-> chosen[t][g], st |-> "queued"]

\* Why an item is in the pool: its thread waits for it, or its thread's wait has
\* ended by itself, in this order or in one before.
Belongs(t, s) ==
    \/ IsChosen(t, s) /\ pc[t] \in {"wait", "blocked"}
    \/ IsChosen(t, s) /\ pc[t] = "woken" /\ t \in early
    \/ Orders[t][s] < order[t] /\ t \in early

\* An item in the pool belongs there, is there once and has been run as often as
\* its place says.
InPool ==
    /\ \A i \in Slots : pool[i] # Empty =>
          /\ Belongs(pool[i].graph, pool[i].section)
          /\ done[pool[i].graph][pool[i].section] = IF pool[i].st = "callback" THEN 1 ELSE 0
    /\ \A i, j \in Slots :
          /\ pool[i] # Empty /\ pool[j] # Empty
          /\ pool[i].graph = pool[j].graph /\ pool[i].section = pool[j].section
          => i = j

\* What a thread waits for is in the pool or has been run.
Awaited ==
    \A t \in Threads \ refused : pc[t] \in {"wait", "blocked", "woken"} =>
        \A k \in DOMAIN chosen[t] :
            \/ done[t][chosen[t][k]] = 1
            \/ \E i \in Slots : pool[i].graph = t /\ pool[i].section = chosen[t][k]

\* How often a section has been run, by its order and the order the thread is at.
Before == {"idle", "entered", "unverified", "vlock", "vlocked", "vunlock", "relock", "order",
           "fill", "issue", "inline"}

Runs ==
    /\ \A t \in Threads : \A s \in Sections(t) :
          /\ done[t][s] <= 1
          /\ Orders[t][s] > order[t] => done[t][s] = 0
          /\ pc[t] \in Before /\ Orders[t][s] = order[t] => done[t][s] = 0
    /\ \A t \in Threads : pc[t] = "incallback" => done[t][chosen[t][1]] = 1

\* The orders below the current one are complete, unless a wait for one of them
\* ended by itself, and numRun counts no more than has been run of them.
Past(t) == {s \in Sections(t) : Orders[t][s] < order[t] /\ done[t][s] > 0}

Complete ==
    \A t \in Threads \ refused :
        /\ t \notin early =>
              \A s \in Sections(t) : Orders[t][s] < order[t] => done[t][s] > 0 \/ s \in skip[t]
        /\ numRun[t] <= Cardinality(Past(t))

\* The part of the type invariant that is not about the lock, in the form in
\* which a step changes it: functions of the threads.
WorkTypes ==
    /\ collectors \in [1..MaxSections -> Items] /\ pool \in [Slots -> Items]
    /\ completed \in BOOLEAN /\ kgwSem \in Slots \cup {Free}
    /\ pc \in [Threads -> Pcs] /\ verified \in [Threads -> BOOLEAN]
    /\ skip \in [Threads -> SUBSET Nat] /\ \A t \in Threads : skip[t] \subseteq Sections(t)
    /\ fill \in [Threads -> 1 .. MaxSections + 1]
    /\ chosen \in [Threads -> Seq(Nat)] /\ \A t \in Threads : Len(chosen[t]) <= MaxSections
    /\ order \in [Threads -> Nat] /\ numRun \in [Threads -> Nat]
    /\ done = [t \in Threads |-> done[t]]
    /\ \A t \in Threads : done[t] \in [Sections(t) -> Nat]
    /\ leaked \subseteq Threads /\ refused \subseteq Threads /\ early \subseteq Threads
    /\ overlap \in BOOLEAN

\* What holds as long as no two threads have been filling the collectors at once.
Separate == Filled /\ InPool /\ Awaited /\ Runs /\ Complete

WorkInv == WorkTypes /\ Turns /\ Semaphore /\ (~overlap => Separate)

-----------------------------------------------------------------------------
\* The lock.
LEMMA LockStep ==
    ASSUME LockInv, NEW t \in Threads, pc[t] \in {"idle", "vlock", "relock"},
           NEW p \in {"entered", "vlocked", "order"},
           dvp_graph_lock(t), Goto(t, p), UNCHANGED <<dpc, earlyDeinit>>
    PROVE  LockInv'
<1>1. /\ pc \in [Threads -> Pcs] /\ pc' = [pc EXCEPT ![t] = p] /\ p \in Pcs
      /\ holding \subseteq Threads /\ IsFiniteSet(holding) /\ t \notin holding
      /\ m_enabled \in BOOLEAN /\ m_count \in Nat /\ m_wait \in BOOLEAN /\ late \in BOOLEAN
      BY DEF LockInv, Goto, Pcs
<1>2. /\ pc' \in [Threads -> Pcs] /\ pc'[t] = p
      /\ \A u \in Threads : u # t => pc'[u] = pc[u]
      BY <1>1
<1>3. /\ m_count' = (IF m_enabled THEN m_count + 1 ELSE m_count)
      /\ m_wait' = (m_wait /\ ~m_enabled)
      /\ holding' = (IF m_enabled THEN holding \cup {t} ELSE holding)
      /\ late' = (late \/ dpc \notin {"none", "blocked"})
      /\ m_enabled' = m_enabled
      BY DEF dvp_graph_lock
<1>4. m_wait' \in BOOLEAN /\ late' \in BOOLEAN
      BY <1>3
<1>5. /\ m_count' \in Nat /\ holding' \subseteq Threads /\ IsFiniteSet(holding')
      /\ m_enabled => m_count' = Cardinality(holding') /\ m_count' > 0 /\ ~m_wait'
      <2>1. CASE m_enabled
            <3>1. /\ IsFiniteSet(holding \cup {t})
                  /\ Cardinality(holding \cup {t}) = Cardinality(holding) + 1
                  BY <1>1, FS_AddElement
            <3>2. m_count = Cardinality(holding)
                  BY <2>1 DEF LockInv, LockCountsGraphs
            <3>3. m_count' = m_count + 1 /\ holding' = holding \cup {t} /\ ~m_wait'
                  BY <1>3, <2>1
            <3> QED
                  BY <1>1, <3>1, <3>2, <3>3
      <2>2. CASE ~m_enabled
            BY <1>1, <1>3, <2>2
      <2> QED
            BY <2>1, <2>2
<1>6. LockCountsGraphs'
      <2>1. m_enabled => m_wait' = (m_count' = 0)
            BY <1>4, <1>5
      <2> QED
            BY <1>3, <1>5, <2>1 DEF LockCountsGraphs
<1>7. \A u \in Threads : pc'[u] \in {"idle", "vlock", "relock"} => u \notin holding'
      BY <1>2, <1>3 DEF LockInv
<1>8. m_enabled' => \A u \in Threads : pc'[u] \in LockedPcs => u \in holding'
      BY <1>2, <1>3 DEF LockInv
<1>9. late' \/ dpc \in {"none", "blocked"}
      BY <1>3 DEF LockInv
<1> QED
      BY <1>1, <1>2, <1>3, <1>4, <1>5, <1>6, <1>7, <1>8, <1>9 DEF LockInv

LEMMA UnlockStep ==
    ASSUME LockInv, NEW t \in Threads, pc[t] \in {"unverified", "vunlock", "exit"},
           NEW p \in {"vlock", "relock", "out"},
           dvp_graph_unlock(t), Goto(t, p), UNCHANGED <<late, earlyDeinit>>
    PROVE  LockInv'
<1>1. /\ pc \in [Threads -> Pcs] /\ pc' = [pc EXCEPT ![t] = p] /\ p \in Pcs
      /\ holding \subseteq Threads /\ IsFiniteSet(holding)
      /\ m_enabled \in BOOLEAN /\ m_count \in Nat /\ m_wait \in BOOLEAN
      BY DEF LockInv, Goto, Pcs
<1>2. /\ pc' \in [Threads -> Pcs] /\ pc'[t] = p
      /\ \A u \in Threads : u # t => pc'[u] = pc[u]
      BY <1>1
<1>3. /\ m_count' = (IF m_enabled THEN m_count - 1 ELSE m_count)
      /\ m_wait' = (m_wait \/ (m_enabled /\ m_count' = 0))
      /\ dpc' = (IF dpc = "blocked" /\ m_enabled /\ m_count' = 0 THEN "woken" ELSE dpc)
      /\ holding' = holding \ {t} /\ m_enabled' = m_enabled
      BY DEF dvp_graph_unlock, SignalAtZero
<1>4. m_enabled => t \in holding
      BY DEF LockInv, LockedPcs
<1>5. m_wait' \in BOOLEAN
      BY <1>3
<1>6. /\ m_count' \in Nat /\ holding' \subseteq Threads /\ IsFiniteSet(holding')
      /\ m_enabled => m_count' = Cardinality(holding')
      <2>1. CASE m_enabled
            <3>1. /\ IsFiniteSet(holding \ {t})
                  /\ Cardinality(holding \ {t}) = Cardinality(holding) - 1
                  /\ Cardinality(holding \ {t}) \in Nat
                  BY <1>1, <1>4, <2>1, FS_RemoveElement, FS_CardinalityType
            <3>2. m_count = Cardinality(holding)
                  BY <2>1 DEF LockInv, LockCountsGraphs
            <3> QED
                  BY <1>1, <1>3, <2>1, <3>1, <3>2
      <2>2. CASE ~m_enabled
            <3>1. IsFiniteSet(holding \ {t})
                  BY <1>1, FS_Subset
            <3> QED
                  BY <1>1, <1>3, <2>2, <3>1
      <2> QED
            BY <2>1, <2>2
<1>7. LockCountsGraphs'
      <2>1. m_enabled => m_count = Cardinality(holding) /\ m_wait = (m_count = 0)
            BY DEF LockInv, LockCountsGraphs
      <2>2. m_enabled => ~(m_count = 0)
            <3>1. holding # {} => Cardinality(holding) # 0
                  BY <1>1, FS_EmptySet
            <3> QED
                  BY <1>1, <1>4, <2>1, <3>1
      <2>3. m_enabled => ~m_wait
            BY <2>1, <2>2
      <2>4. m_enabled => m_wait' = (m_count' = 0)
            BY <1>3, <2>3
      <2> QED
            BY <1>3, <1>6, <2>4 DEF LockCountsGraphs
<1>8. \A u \in Threads : pc'[u] \in {"idle", "vlock", "relock"} => u \notin holding'
      BY <1>2, <1>3 DEF LockInv
<1>9. m_enabled' => \A u \in Threads : pc'[u] \in LockedPcs => u \in holding'
      BY <1>2, <1>3 DEF LockInv, LockedPcs
<1>10. ASSUME dpc' \in {"woken", "destroy", "freed"}, ~late', ~earlyDeinit'
       PROVE  \A u \in Threads : pc'[u] \notin LockedPcs
      <2>1. CASE dpc' = dpc
            BY <1>2, <1>10, <2>1 DEF LockInv, LockedPcs
      <2>2. CASE dpc' # dpc
            <3>1. m_enabled /\ m_count' = 0
                  BY <1>3, <2>2
            <3>2. holding' = {}
                  BY <1>6, <3>1, FS_EmptySet
            <3> QED
                  BY <1>3, <1>9, <3>1, <3>2
      <2> QED
            BY <2>1, <2>2
<1>11. /\ dpc' \in {"none", "blocked", "woken", "destroy", "freed"}
       /\ m_enabled' <=> dpc' \in {"none", "blocked", "woken"}
      BY <1>3 DEF LockInv
<1> QED
      BY <1>1, <1>2, <1>3, <1>5, <1>6, <1>7, <1>8, <1>9, <1>10, <1>11 DEF LockInv

\* A step inside a call that does not touch the lock.
LEMMA MoveStep ==
    ASSUME LockInv, UNCHANGED <<m_enabled, m_count, m_wait, holding, dpc, late, earlyDeinit>>,
           pc' \in [Threads -> Pcs],
           \A t \in Threads : pc'[t] # pc[t] =>
               /\ pc[t] \in LockedPcs
               /\ pc'[t] \in LockedPcs \cup {"out"}
    PROVE  LockInv'
<1>1. LockCountsGraphs'
      BY DEF LockInv, LockCountsGraphs
<1>2. \A t \in Threads : /\ pc'[t] \in LockedPcs => pc[t] \in LockedPcs
                         /\ pc'[t] \in {"idle", "vlock", "relock"} => pc'[t] = pc[t]
      BY DEF LockedPcs
<1> QED
      BY <1>1, <1>2 DEF LockInv

\* The same when one thread moves.
LEMMA MoveOne ==
    ASSUME LockInv, UNCHANGED <<m_enabled, m_count, m_wait, holding, dpc, late, earlyDeinit>>,
           NEW t \in Threads, pc[t] \in LockedPcs, NEW p \in LockedPcs \cup {"out"},
           Goto(t, p)
    PROVE  LockInv'
<1>1. pc \in [Threads -> Pcs] /\ p \in Pcs /\ pc' = [pc EXCEPT ![t] = p]
      BY DEF LockInv, LockedPcs, Pcs, Goto
<1>2. pc' \in [Threads -> Pcs] /\ \A u \in Threads : pc'[u] # pc[u] => u = t /\ pc'[u] = p
      BY <1>1
<1> QED
      BY <1>2, MoveStep

LEMMA DeinitLock ==
    ASSUME LockInv, DeinitWait \/ DeinitWakesByItself \/ DeinitDisable \/ DeinitFree
    PROVE  LockInv'
<1>1. /\ UNCHANGED <<m_count, m_wait, holding, pc, late>>
      /\ UNCHANGED earlyDeinit \/ DeinitWakesByItself
      BY DEF DeinitWait, DeinitWakesByItself, DeinitDisable, DeinitFree, lockVars, flags,
             wakeFlags
<1>2. CASE DeinitWait
      <2>1. /\ dpc = "none" /\ m_enabled' = m_enabled
            /\ dpc' = IF m_wait THEN "woken" ELSE "blocked"
            /\ UNCHANGED earlyDeinit
            BY <1>2 DEF DeinitWait, lockVars, flags, wakeFlags
      <2>2. m_enabled /\ (m_wait => m_count = 0) /\ m_count = Cardinality(holding)
            BY <2>1 DEF LockInv, LockCountsGraphs
      <2>3. m_wait => \A t \in Threads : pc[t] \notin LockedPcs
            <3>1. m_wait => holding = {}
                  BY <2>2, FS_EmptySet DEF LockInv
            <3> QED
                  BY <2>2, <3>1 DEF LockInv
      <2>4. LockCountsGraphs'
            BY <1>1, <2>1 DEF LockInv, LockCountsGraphs
      <2> QED
            BY <1>1, <2>1, <2>2, <2>3, <2>4 DEF LockInv
<1>3. CASE DeinitDisable
      <2>1. dpc = "woken" /\ m_enabled' = FALSE /\ dpc' = "destroy" /\ UNCHANGED earlyDeinit
            BY <1>3 DEF DeinitDisable, flags, wakeFlags
      <2>2. LockCountsGraphs'
            BY <2>1 DEF LockCountsGraphs
      <2> QED
            BY <1>1, <2>1, <2>2 DEF LockInv
<1>4. CASE DeinitFree
      <2>1. dpc = "destroy" /\ dpc' = "freed" /\ UNCHANGED <<m_enabled, earlyDeinit>>
            BY <1>4 DEF DeinitFree, lockVars, flags, wakeFlags
      <2>2. LockCountsGraphs'
            BY <1>1, <2>1 DEF LockInv, LockCountsGraphs
      <2> QED
            BY <1>1, <2>1, <2>2 DEF LockInv
<1>5. CASE DeinitWakesByItself
      <2>1. dpc = "blocked" /\ dpc' = "woken" /\ m_enabled' = m_enabled /\ earlyDeinit' = TRUE
            BY <1>5 DEF DeinitWakesByItself, lockVars
      <2>2. LockCountsGraphs'
            BY <1>1, <2>1 DEF LockInv, LockCountsGraphs
      <2> QED
            BY <1>1, <2>1, <2>2 DEF LockInv
<1> QED
      BY <1>2, <1>3, <1>4, <1>5

LEMMA ThreadLock == ASSUME LockInv, NEW t \in Threads, ThreadStep(t) PROVE LockInv'
<1> USE DEF lockVars, flags, wakeFlags
<1>1. CASE EnterReturn(t)
      <2>1. pc[t] = "entered" /\ UNCHANGED <<m_enabled, m_count, m_wait, holding, dpc, late, earlyDeinit>>
            BY <1>1 DEF EnterReturn
      <2>2. \E p \in {"out", "order", "unverified"} : Goto(t, p)
            BY <1>1 DEF EnterReturn
      <2> QED
            BY <2>1, <2>2, MoveOne DEF LockedPcs
<1>2. CASE ReleaseToVerify(t)
      BY <1>2, UnlockStep DEF ReleaseToVerify
<1>3. CASE VerifyLock(t)
      BY <1>3, LockStep DEF VerifyLock
<1>4. CASE VerifyBody(t)
      <2>1. pc[t] = "vlocked" /\ UNCHANGED <<m_enabled, m_count, m_wait, holding, dpc, late, earlyDeinit>>
            BY <1>4 DEF VerifyBody
      <2>2. \E p \in {"out", "vunlock"} : Goto(t, p)
            BY <1>4 DEF VerifyBody
      <2> QED
            BY <2>1, <2>2, MoveOne DEF LockedPcs
<1>5. CASE VerifyUnlock(t)
      <2>1. pc[t] = "vunlock" /\ dvp_graph_unlock(t) /\ UNCHANGED <<late, earlyDeinit>>
            BY <1>5 DEF VerifyUnlock
      <2>2. \E p \in {"relock", "out"} : Goto(t, p)
            BY <1>5 DEF VerifyUnlock
      <2> QED
            BY <2>1, <2>2, UnlockStep
<1>6. CASE Relock(t)
      BY <1>6, LockStep DEF Relock
<1>7. CASE GiveUp(t)
      BY <1>7, MoveOne DEF GiveUp, LockedPcs
<1>8. CASE ScanOrder(t)
      <2>1. pc[t] = "order" /\ UNCHANGED <<m_enabled, m_count, m_wait, holding, dpc, late, earlyDeinit>>
            BY <1>8 DEF ScanOrder
      <2>2. \E p \in {"exit", "inline", "fill"} : Goto(t, p)
            <3> DEFINE n == Len(ChosenSections(t))
                       p == CASE n = 0 -> "exit" [] n = 1 -> "inline" [] OTHER -> "fill"
            <3>1. Goto(t, p)
                  BY <1>8 DEF ScanOrder
            <3>2. p \in {"exit", "inline", "fill"}
                  <4> HIDE DEF n
                  <4> QED
                        OBVIOUS
            <3> HIDE DEF p
            <3> QED
                  BY <3>1, <3>2
      <2> QED
            BY <2>1, <2>2, MoveOne DEF LockedPcs
<1>9. CASE FillCollector(t)
      <2>1. pc[t] = "fill" /\ UNCHANGED <<m_enabled, m_count, m_wait, holding, dpc, late, earlyDeinit>>
            BY <1>9 DEF FillCollector
      <2>2. \E p \in {"issue", "fill"} : Goto(t, p)
            BY <1>9 DEF FillCollector
      <2> QED
            BY <2>1, <2>2, MoveOne DEF LockedPcs
<1>10. CASE Issue(t)
      BY <1>10, MoveOne DEF Issue, LockedPcs
<1>11. CASE WaitForPool(t)
      <2>1. pc[t] = "wait" /\ UNCHANGED <<m_enabled, m_count, m_wait, holding, dpc, late, earlyDeinit>>
            BY <1>11 DEF WaitForPool
      <2>2. \E p \in {"order", "blocked"} : Goto(t, p)
            BY <1>11 DEF WaitForPool, NextOrder
      <2> QED
            BY <2>1, <2>2, MoveOne DEF LockedPcs
<1>12. CASE WokenByPool(t)
      BY <1>12, MoveOne DEF WokenByPool, NextOrder, LockedPcs
<1>13. CASE RunInline(t)
      BY <1>13, MoveOne DEF RunInline, LockedPcs
<1>14. CASE CallbackInline(t)
      BY <1>14, MoveOne DEF CallbackInline, NextOrder, LockedPcs
<1>15. CASE Exit(t)
      BY <1>15, UnlockStep DEF Exit
<1> QED
      BY <1>1, <1>2, <1>3, <1>4, <1>5, <1>6, <1>7, <1>8, <1>9, <1>10, <1>11, <1>12, <1>13,
         <1>14, <1>15 DEF ThreadStep

LEMMA StepLock == LockInv /\ [Next]_vars => LockInv'
<1> SUFFICES ASSUME LockInv, [Next]_vars
             PROVE  LockInv'
      OBVIOUS
<1>1. ASSUME NEW t \in Threads, Enter(t)
      PROVE  LockInv'
      BY <1>1, LockStep DEF Enter, wakeFlags
<1>2. ASSUME NEW i \in Slots, WorkerStep(i)
      PROVE  LockInv'
      <2>1. UNCHANGED <<m_enabled, m_count, m_wait, holding, dpc, late, earlyDeinit>>
            BY <1>2 DEF WorkerStep, WorkerStart, WorkerCallback, WorkerDone, lockVars, flags, wakeFlags
      <2>2. pc \in [Threads -> Pcs]
            BY DEF LockInv
      <2>3. /\ pc' \in [Threads -> Pcs]
            /\ \A t \in Threads : pc'[t] # pc[t] => pc[t] = "blocked" /\ pc'[t] = "woken"
            <3>1. CASE WorkerDone(i)
                  BY <2>2, <3>1 DEF WorkerDone, Pcs
            <3>2. CASE WorkerStart(i) \/ WorkerCallback(i)
                  BY <2>2, <3>2 DEF WorkerStart, WorkerCallback
            <3> QED
                  BY <1>2, <3>1, <3>2 DEF WorkerStep
      <2> QED
            BY <2>1, <2>3, MoveStep DEF LockedPcs
<1>3. CASE UNCHANGED vars
      <2>1. UNCHANGED <<m_enabled, m_count, m_wait, holding, dpc, late, earlyDeinit, pc>>
            BY <1>3 DEF vars, lockVars, flags, wakeFlags
      <2> QED
            BY <2>1, MoveStep DEF LockInv
<1>4. ASSUME NEW t \in Threads, WakesByItself(t)
      PROVE  LockInv'
      BY <1>4, MoveOne DEF WakesByItself, LockedPcs, lockVars
<1> QED
      BY <1>1, <1>2, <1>3, <1>4, ThreadLock, DeinitLock DEF Next, SpuriousWakeUp, Progress, DeinitStep, Stopped

LEMMA InitLock == Init => LockInv
<1> SUFFICES ASSUME Init
             PROVE  LockInv
      OBVIOUS
<1>1. IsFiniteSet(holding) /\ Cardinality(holding) = 0
      BY FS_EmptySet DEF Init
<1>2. LockCountsGraphs
      BY <1>1 DEF Init, LockCountsGraphs
<1>3. pc \in [Threads -> Pcs] /\ \A t \in Threads : pc[t] = "idle"
      BY DEF Init, Pcs
<1> QED
      BY <1>1, <1>2, <1>3 DEF Init, LockInv, LockedPcs

THEOREM LockInvariant == Spec => []LockInv
<1>1. Init => LockInv
      BY InitLock
<1>2. LockInv /\ [Next]_vars => LockInv'
      BY StepLock
<1> QED
      BY <1>1, <1>2, PTL DEF Spec

\* m_count of DVP_GraphLock_t counts the threads between a dvp_graph_lock and its
\* dvp_graph_unlock, and m_wait is set exactly when there is none.
THEOREM LockCountsGraphsHolds == Spec => []LockCountsGraphs
<1>1. LockInv => LockCountsGraphs
      BY DEF LockInv
<1> QED
      BY <1>1, LockInvariant, PTL

\* DVP_KernelGraph_Deinit frees the handle only when no thread is at work in
\* DVP_KernelGraph_Process, unless one called dvp_graph_lock too late or the condition
\* variable ended the wait for the last of them by itself.
THEOREM TeardownWaitsHolds == Spec => []TeardownWaits
<1>1. LockInv => TeardownWaits
      <2>1. \A t \in Locked : LockInv => pc[t] \in LockedPcs /\ t \in Threads
            BY DEF LockInv, Locked, Inside, LockedPcs, Pcs
      <2> QED
            BY <2>1 DEF LockInv, TeardownWaits
<1> QED
      BY <1>1, LockInvariant, PTL

-----------------------------------------------------------------------------
\* Ranks in a finite set of numbers count it from 1 without gaps.
LEMMA RankFacts ==
    ASSUME NEW S \in SUBSET Nat, IsFiniteSet(S)
    PROVE  /\ Cardinality(S) \in Nat
           /\ \A i \in S : Rank(S, i) \in 1..Cardinality(S)
           /\ \A i, j \in S : i < j => Rank(S, i) < Rank(S, j)
           /\ \A i, j \in S : Rank(S, i) = Rank(S, j) => i = j
           /\ \A k \in 1..Cardinality(S) : \E i \in S : Rank(S, i) = k
<1> DEFINE Low(i) == {j \in S : j <= i}
           n == Cardinality(S)
<1>1. n \in Nat
      BY FS_CardinalityType
<1>2. \A i : IsFiniteSet(Low(i)) /\ Cardinality(Low(i)) <= n /\ Cardinality(Low(i)) \in Nat
      <2> SUFFICES ASSUME NEW i
                   PROVE  IsFiniteSet(Low(i)) /\ Cardinality(Low(i)) <= n
                          /\ Cardinality(Low(i)) \in Nat
            OBVIOUS
      <2>1. Low(i) \in SUBSET S
            OBVIOUS
      <2> HIDE DEF Low
      <2>2. IsFiniteSet(Low(i)) /\ Cardinality(Low(i)) <= n
            BY <2>1, FS_Subset
      <2> QED
            BY <2>2, FS_CardinalityType
<1>3. \A i : Rank(S, i) = Cardinality(Low(i))
      BY DEF Rank
<1>4. \A i \in S : Rank(S, i) \in 1..n
      <2> SUFFICES ASSUME NEW i \in S
                   PROVE  Rank(S, i) \in 1..n
            OBVIOUS
      <2>1. Low(i) # {}
            OBVIOUS
      <2> HIDE DEF Low
      <2>2. Cardinality(Low(i)) # 0
            BY <1>2, <2>1, FS_EmptySet
      <2> QED
            BY <1>1, <1>2, <1>3, <2>2
<1>5. ASSUME NEW i \in S, NEW j \in S, i < j
      PROVE  Rank(S, i) < Rank(S, j)
      <2>1. Low(i) \in SUBSET Low(j) /\ j \in Low(j) /\ j \notin Low(i)
            <3>1. i \in Nat /\ j \in Nat /\ \A x \in S : x \in Nat
                  OBVIOUS
            <3>2. \A x \in S : x <= i => x <= j
                  BY <1>5, <3>1
            <3>3. j <= j /\ ~(j <= i)
                  BY <1>5, <3>1
            <3> QED
                  BY <3>2, <3>3
      <2>2. Low(i) # Low(j)
            BY <2>1
      <2> HIDE DEF Low
      <2>3. /\ Cardinality(Low(i)) <= Cardinality(Low(j))
            /\ Cardinality(Low(j)) # Cardinality(Low(i))
            BY <1>2, <2>1, <2>2, FS_Subset
      <2> QED
            BY <1>2, <1>3, <2>3
<1>6. ASSUME NEW i \in S, NEW j \in S, Rank(S, i) = Rank(S, j)
      PROVE  i = j
      <2>1. ~(i < j) /\ ~(j < i)
            BY <1>1, <1>4, <1>5, <1>6
      <2> QED
            BY <2>1
<1>7. ASSUME NEW k \in 1..n, \A i \in S : Rank(S, i) # k
      PROVE  FALSE
      <2> DEFINE T == (1..n) \ {k}
                 f == [i \in S |-> Rank(S, i)]
      <2>1. f \in [S -> T]
            BY <1>4, <1>7
      <2>2. /\ IsFiniteSet(1..n) /\ Cardinality(1..n) = n
            BY <1>1, FS_Interval
      <2>3. IsFiniteSet(T) /\ Cardinality(T) = n - 1
            BY <2>2, FS_RemoveElement
      <2>4. Cardinality(T) < n
            BY <1>1, <2>3
      <2>5. \A i, j \in S : f[i] = f[j] => i = j
            BY <1>6
      <2> HIDE DEF T, f
      <2>6. \E i, j \in S : i # j /\ f[i] = f[j]
            BY <2>1, <2>3, <2>4, FS_PigeonHole
      <2> QED
            BY <2>5, <2>6
<1> QED
      BY <1>1, <1>4, <1>5, <1>6, <1>7

\* The sorted sequence of a finite set of numbers has each element once.
LEMMA SortedFacts ==
    ASSUME NEW S \in SUBSET Nat, IsFiniteSet(S)
    PROVE  /\ Sorted(S) \in Seq(S) /\ Sorted(S) \in Seq(Nat)
           /\ Len(Sorted(S)) = Cardinality(S)
           /\ DOMAIN Sorted(S) = 1..Cardinality(S)
           /\ \A k, l \in DOMAIN Sorted(S) : k < l => Sorted(S)[k] < Sorted(S)[l]
           /\ \A k, l \in DOMAIN Sorted(S) : Sorted(S)[k] = Sorted(S)[l] => k = l
           /\ \A i \in S : \E k \in DOMAIN Sorted(S) : Sorted(S)[k] = i
<1> DEFINE n == Cardinality(S)
           q == Sorted(S)
<1>1. /\ n \in Nat
      /\ \A i \in S : Rank(S, i) \in 1..n
      /\ \A i, j \in S : i < j => Rank(S, i) < Rank(S, j)
      /\ \A i, j \in S : Rank(S, i) = Rank(S, j) => i = j
      /\ \A k \in 1..n : \E i \in S : Rank(S, i) = k
      BY RankFacts
<1>2. DOMAIN q = 1..n /\ \A k \in 1..n : q[k] = CHOOSE i \in S : Rank(S, i) = k
      BY DEF Sorted
<1>3. \A k \in 1..n : q[k] \in S /\ Rank(S, q[k]) = k
      BY <1>1, <1>2
<1>4. q \in [1..n -> S]
      BY <1>2, <1>3 DEF Sorted
<1>5. q \in Seq(S) /\ Len(q) = n
      BY <1>1, <1>2, <1>4
<1>6. q \in Seq(Nat)
      BY <1>5, SeqMonotonic
<1> HIDE DEF n, q
<1>7. \A k, l \in 1..n : q[k] = q[l] => k = l
      BY <1>3
<1>8. ASSUME NEW k \in 1..n, NEW l \in 1..n, k < l
      PROVE  q[k] < q[l]
      <2>1. q[k] \in S /\ q[l] \in S /\ Rank(S, q[k]) = k /\ Rank(S, q[l]) = l
            BY <1>3
      <2>2. k # l /\ ~(l < k)
            BY <1>1, <1>8
      <2>3. \A a, b \in S : Rank(S, a) = k /\ Rank(S, b) = l => a # b /\ ~(b < a)
            BY <1>1, <2>2
      <2>4. q[k] # q[l] /\ ~(q[l] < q[k])
            BY <2>1, <2>3
      <2>5. q[k] \in Nat /\ q[l] \in Nat
            BY <2>1
      <2> QED
            BY <2>4, <2>5
<1>9. \A i \in S : \E k \in 1..n : q[k] = i
      BY <1>1, <1>3
<1> QED
      BY <1>2, <1>5, <1>6, <1>7, <1>8, <1>9 DEF n, q

-----------------------------------------------------------------------------
\* Work items.
LEMMA ItemFacts ==
    /\ Empty \in Items /\ Empty.st = "empty" /\ Empty.graph = Free /\ Free \notin Threads
    /\ \A x \in Items : x # Empty =>
          /\ x.graph \in Threads /\ x.section \in Sections(x.graph)
          /\ x.st \in {"queued", "running", "callback"}
    /\ \A t \in Threads : \A s \in Sections(t) :
          /\ [graph |-> t, section |-> s, st |-> "queued"] \in Items
          /\ [graph |-> t, section |-> s, st |-> "queued"] # Empty
<1>1. Free \notin Threads
      BY GraphAssumption
<1>2. \A x : x \in Items <=>
          \/ x = Empty
          \/ \E t \in Threads :
                x \in [graph : {t}, section : Sections(t), st : {"queued", "running", "callback"}]
      BY DEF Items
<1>3. Empty \in Items /\ Empty.st = "empty" /\ Empty.graph = Free
      BY <1>2 DEF Empty
<1>4. ASSUME NEW x \in Items, x # Empty
      PROVE  /\ x.graph \in Threads /\ x.section \in Sections(x.graph)
             /\ x.st \in {"queued", "running", "callback"}
      <2>1. PICK t \in Threads :
                x \in [graph : {t}, section : Sections(t), st : {"queued", "running", "callback"}]
            BY <1>2, <1>4
      <2> QED
            BY <2>1
<1>5. ASSUME NEW t \in Threads, NEW s \in Sections(t)
      PROVE  /\ [graph |-> t, section |-> s, st |-> "queued"] \in Items
             /\ [graph |-> t, section |-> s, st |-> "queued"] # Empty
      <2> DEFINE y == [graph |-> t, section |-> s, st |-> "queued"]
      <2>1. /\ y \in [graph : {t}, section : Sections(t), st : {"queued", "running", "callback"}]
            /\ y.st = "queued"
            OBVIOUS
      <2> HIDE DEF y
      <2> QED
            BY <1>2, <1>3, <2>1 DEF y
<1>6. \A x \in Items : x # Empty =>
          /\ x.graph \in Threads /\ x.section \in Sections(x.graph)
          /\ x.st \in {"queued", "running", "callback"}
      BY <1>4
<1> QED
      BY <1>1, <1>3, <1>5, <1>6, Zenon

\* An item that a worker has taken is still the item of its section.
LEMMA ItemMoves ==
    ASSUME NEW x \in Items, x # Empty, NEW v \in {"running", "callback"}
    PROVE  /\ [x EXCEPT !.st = v] \in Items /\ [x EXCEPT !.st = v] # Empty
           /\ [x EXCEPT !.st = v].graph = x.graph
           /\ [x EXCEPT !.st = v].section = x.section
           /\ [x EXCEPT !.st = v].st = v
<1> DEFINE y == [x EXCEPT !.st = v]
<1>1. PICK t \in Threads :
          x \in [graph : {t}, section : Sections(t), st : {"queued", "running", "callback"}]
      BY DEF Items
<1>2. /\ y \in [graph : {t}, section : Sections(t), st : {"queued", "running", "callback"}]
      /\ y.graph = x.graph /\ y.section = x.section /\ y.st = v
      BY <1>1
<1> HIDE DEF y
<1>3. y # Empty
      BY <1>2, ItemFacts
<1>4. y \in Items
      BY <1>2 DEF Items
<1> QED
      BY <1>2, <1>3, <1>4 DEF y

LEMMA SlotsFacts == Slots \in SUBSET Nat /\ IsFiniteSet(Slots)
<1> DEFINE n == MaxSections * QueueDepth + MaxSections
<1>1. n \in Nat
      BY GraphAssumption
<1>2. Slots = 1..n
      BY DEF Slots
<1> HIDE DEF n
<1> QED
      BY <1>1, <1>2, FS_Interval

\* The pool after new items: each of them is in a slot of its own that was not
\* in use, and the others are where they were.
LEMMA PlacedFacts ==
    ASSUME NEW p \in [Slots -> Items], NEW items \in Seq(Items),
           Cardinality(Pending(p)) + Len(items) <= Cardinality(Slots)
    PROVE  /\ Placed(p, items) \in [Slots -> Items]
           /\ \A i \in Slots : p[i] # Empty => Placed(p, items)[i] = p[i]
           /\ \A i \in Slots : p[i] = Empty =>
                 \/ Placed(p, items)[i] = Empty
                 \/ \E k \in 1..Len(items) : Placed(p, items)[i] = items[k]
           /\ \A k \in 1..Len(items) : \E i \in Slots :
                 p[i] = Empty /\ Placed(p, items)[i] = items[k]
           /\ (\A k, l \in 1..Len(items) : items[k] = items[l] => k = l) =>
                 \A i, j \in Slots :
                    /\ p[i] = Empty /\ p[j] = Empty /\ Placed(p, items)[i] # Empty
                    /\ Placed(p, items)[i] = Placed(p, items)[j]
                    => i = j
<1> DEFINE F == Slots \ Pending(p)
           q == Placed(p, items)
           n == Len(items)
<1>1. /\ F \in SUBSET Nat /\ IsFiniteSet(F)
      /\ Cardinality(F) = Cardinality(Slots) - Cardinality(Pending(p))
      <2>1. Slots \cap Pending(p) = Pending(p)
            BY DEF Pending
      <2>2. /\ IsFiniteSet(Slots \ Pending(p))
            /\ Cardinality(Slots \ Pending(p))
                  = Cardinality(Slots) - Cardinality(Slots \cap Pending(p))
            BY SlotsFacts, FS_Difference
      <2> QED
            BY <2>1, <2>2, SlotsFacts
<1>2. /\ Cardinality(F) \in Nat
      /\ \A i \in F : Rank(F, i) \in 1..Cardinality(F)
      /\ \A i, j \in F : Rank(F, i) = Rank(F, j) => i = j
      /\ \A k \in 1..Cardinality(F) : \E i \in F : Rank(F, i) = k
      BY <1>1, RankFacts
<1>3. n \in Nat /\ \A k \in 1..n : items[k] \in Items
      BY LenProperties, ElementOfSeq
<1>4. \A i \in Slots : i \in F <=> p[i] = Empty
      BY DEF Pending
<1>5. n <= Cardinality(F)
      <2>1. Cardinality(Pending(p)) \in Nat
            <3>1. Pending(p) \in SUBSET Slots
                  BY DEF Pending
            <3>2. IsFiniteSet(Pending(p))
                  BY <3>1, SlotsFacts, FS_Subset
            <3> QED
                  BY <3>2, FS_CardinalityType
      <2>2. Cardinality(Slots) \in Nat
            BY SlotsFacts, FS_CardinalityType
      <2> QED
            BY <1>1, <1>3, <2>1, <2>2
<1>6. q = [i \in Slots |-> IF i \in F /\ Rank(F, i) <= n THEN items[Rank(F, i)] ELSE p[i]]
      BY <1>4 DEF Placed, Pending
<1> HIDE DEF F, q, n
<1>7. \A i \in Slots : q[i] = IF i \in F /\ Rank(F, i) <= n THEN items[Rank(F, i)] ELSE p[i]
      BY <1>6
<1>8. \A i \in F : Rank(F, i) <= n => Rank(F, i) \in 1..n
      BY <1>2, <1>3
<1>9. \A i \in Slots : q[i] \in Items
      BY <1>3, <1>7, <1>8
<1>10. q \in [Slots -> Items]
      BY <1>6, <1>9
<1>11. \A i \in Slots : p[i] # Empty => q[i] = p[i]
      BY <1>4, <1>7
<1>12. \A i \in Slots : p[i] = Empty =>
          \/ q[i] = Empty
          \/ Rank(F, i) \in 1..n /\ q[i] = items[Rank(F, i)]
      BY <1>4, <1>7, <1>8
<1>13. ASSUME NEW k \in 1..n
       PROVE  \E i \in Slots : p[i] = Empty /\ q[i] = items[k]
      <2>1. k \in 1..Cardinality(F) /\ k <= n
            BY <1>2, <1>3, <1>5
      <2>2. PICK i \in F : Rank(F, i) = k
            BY <1>2, <2>1
      <2>3. i \in Slots
            BY DEF F
      <2> QED
            BY <1>4, <1>7, <2>1, <2>2, <2>3
<1>14. ASSUME \A k, l \in 1..n : items[k] = items[l] => k = l,
              NEW i \in Slots, NEW j \in Slots,
              p[i] = Empty, p[j] = Empty, q[i] # Empty, q[i] = q[j]
       PROVE  i = j
      <2>1. /\ Rank(F, i) \in 1..n /\ q[i] = items[Rank(F, i)]
            /\ Rank(F, j) \in 1..n /\ q[j] = items[Rank(F, j)]
            BY <1>12, <1>14
      <2>2. Rank(F, i) = Rank(F, j)
            BY <1>14, <2>1
      <2> QED
            BY <1>2, <1>4, <1>14, <2>2
<1> QED
      BY <1>10, <1>11, <1>12, <1>13, <1>14 DEF q, n

\* What the scan of an order finds, unless it gives up.
LEMMA ScanFacts ==
    ASSUME NEW t \in Threads, ~TooMany(t)
    PROVE  LET c == ChosenSections(t)
           IN  /\ c \in Seq(Nat) /\ Len(c) <= MaxSections /\ Len(c) \in Nat
               /\ DOMAIN c = 1..Len(c)
               /\ \A k \in DOMAIN c : c[k] \in Eligible(t)
               /\ \A k, l \in DOMAIN c : c[k] = c[l] => k = l
               /\ \A s \in Eligible(t) : \E k \in DOMAIN c : c[k] = s
<1> DEFINE c == ChosenSections(t)
           E == Eligible(t)
<1>1. /\ Orders[t] \in Seq(Nat) /\ Len(Orders[t]) \in Nat
      /\ Sections(t) = 1..Len(Orders[t])
      BY GraphAssumption, LenProperties DEF Sections
<1>2. E \in SUBSET Sections(t) /\ IsFiniteSet(Sections(t)) /\ E \in SUBSET Nat
      BY <1>1, FS_Interval DEF Eligible
<1>3. IsFiniteSet(E)
      BY <1>2, FS_Subset
<1>4. c = Sorted(E) /\ c = Candidates(t)
      BY DEF ChosenSections, Candidates
<1> HIDE DEF c, E
<1>5. /\ c \in Seq(E) /\ c \in Seq(Nat)
      /\ \A k, l \in DOMAIN c : k < l => c[k] < c[l]
      /\ \A k, l \in DOMAIN c : c[k] = c[l] => k = l
      /\ \A i \in E : \E k \in DOMAIN c : c[k] = i
      BY <1>2, <1>3, <1>4, SortedFacts
<1>6. Len(c) \in Nat /\ DOMAIN c = 1..Len(c) /\ \A k \in DOMAIN c : c[k] \in E
      BY <1>5, LenProperties, ElementOfSeq
<1>7. Len(c) <= MaxSections
      <2> SUFFICES ASSUME ~(Len(c) <= MaxSections)
                   PROVE  FALSE
            OBVIOUS
      <2>1. MaxSections \in Nat \ {0}
            BY GraphAssumption
      <2>2. MaxSections \in DOMAIN c /\ Len(c) \in DOMAIN c /\ MaxSections < Len(c)
            BY <1>6, <2>1
      <2>3. c[MaxSections] < c[Len(c)]
            BY <1>5, <2>2
      <2>4. c[MaxSections] \in Nat /\ c[Len(c)] \in 1..Len(Orders[t])
            BY <1>1, <1>2, <1>6, <2>2
      <2>5. c[MaxSections] < Len(Orders[t]) /\ Len(c) >= MaxSections
            BY <1>1, <1>6, <2>1, <2>2, <2>3, <2>4
      <2> QED
            BY <1>4, <2>5 DEF TooMany
<1> QED
      BY <1>5, <1>6, <1>7 DEF c, E

-----------------------------------------------------------------------------
\* A step of a thread that is outside a turn before and after it, or of nobody.
LEMMA QuietStep ==
    ASSUME WorkInv,
           UNCHANGED <<poolVars, localVars, skip, done, refused, overlap, early>>,
           verified' \in [Threads -> BOOLEAN], leaked' \subseteq Threads,
           pc' \in [Threads -> Pcs],
           \A t \in Threads : pc'[t] # pc[t] =>
               /\ pc[t] \notin InTurn /\ pc'[t] \notin InTurn
               /\ pc'[t] \in Before => pc[t] \in Before
    PROVE  WorkInv'
<1>1. UNCHANGED <<collectors, pool, completed, kgwSem, order, chosen, fill, numRun, skip, done,
                  refused, overlap, early>>
      BY DEF poolVars, localVars
<1>2. WorkTypes'
      BY <1>1 DEF WorkInv, WorkTypes
<1>3. \A t \in Threads : pc'[t] \in InTurn \/ pc[t] \in InTurn => pc'[t] = pc[t]
      OBVIOUS
<1>4. Turns'
      BY <1>1, <1>3 DEF WorkInv, Turns, Turn, IsChosen
<1>5. Semaphore'
      BY <1>1 DEF WorkInv, Semaphore, Pending
<1>6. ASSUME ~overlap'
      PROVE  Separate'
      <2>1. Separate
            BY <1>1, <1>6 DEF WorkInv
      <2>2. Filled'
            BY <1>1, <1>3, <2>1 DEF Separate, Filled, InFill, InTurn
      <2>3. InPool'
            <3>1. \A i \in Slots : pool[i] # Empty => pool[i].graph \in Threads
                  BY ItemFacts DEF WorkInv, WorkTypes
            <3> QED
                  BY <1>1, <1>3, <2>1, <3>1 DEF Separate, InPool, Belongs, IsChosen, InTurn
      <2>4. Awaited'
            BY <1>1, <1>3, <2>1 DEF Separate, Awaited, InTurn
      <2>5. Runs'
            BY <1>1, <1>3, <2>1 DEF Separate, Runs, InTurn
      <2>6. Complete'
            BY <1>1, <2>1 DEF Separate, Complete, Past
      <2> QED
            BY <2>2, <2>3, <2>4, <2>5, <2>6 DEF Separate
<1> QED
      BY <1>2, <1>4, <1>5, <1>6 DEF WorkInv

\* The same when one thread moves.
LEMMA QuietMove ==
    ASSUME WorkInv,
           UNCHANGED <<poolVars, localVars, skip, done, refused, overlap, early>>,
           verified' \in [Threads -> BOOLEAN], leaked' \subseteq Threads,
           NEW t \in Threads, NEW p \in Pcs, Goto(t, p),
           pc[t] \notin InTurn, p \notin InTurn, p \in Before => pc[t] \in Before
    PROVE  WorkInv'
<1>1. pc \in [Threads -> Pcs] /\ pc' = [pc EXCEPT ![t] = p]
      BY DEF WorkInv, WorkTypes, Goto
<1>2. pc' \in [Threads -> Pcs] /\ \A u \in Threads : pc'[u] # pc[u] => u = t /\ pc'[u] = p
      BY <1>1
<1> QED
      BY <1>2, QuietStep

\* DVP_KernelGraph_Process up to the first order, and after the last.
LEMMA OutsideWork ==
    ASSUME WorkInv, NEW t \in Threads,
           \/ Enter(t) \/ EnterReturn(t) \/ ReleaseToVerify(t) \/ VerifyLock(t) \/ VerifyBody(t)
           \/ VerifyUnlock(t) \/ Relock(t) \/ GiveUp(t) \/ Exit(t)
    PROVE  WorkInv'
<1>1. UNCHANGED <<poolVars, localVars, skip, done, refused, overlap, early>>
      BY DEF Enter, EnterReturn, ReleaseToVerify, VerifyLock, VerifyBody, VerifyUnlock, Relock,
             GiveUp, Exit, graphVars, flags, wakeFlags
<1>2. verified \in [Threads -> BOOLEAN] /\ leaked \subseteq Threads
      BY DEF WorkInv, WorkTypes
<1>3. verified' \in [Threads -> BOOLEAN]
      BY <1>2 DEF Enter, EnterReturn, ReleaseToVerify, VerifyLock, VerifyBody, VerifyUnlock,
                  Relock, GiveUp, Exit, graphVars
<1>4. leaked' \subseteq Threads
      BY <1>2 DEF Enter, EnterReturn, ReleaseToVerify, VerifyLock, VerifyBody, VerifyUnlock,
                  Relock, GiveUp, Exit, flags, wakeFlags
<1>5. \/ pc[t] \in Before \ InTurn /\ \E p \in (Before \ InTurn) \cup {"out"} : Goto(t, p)
      \/ pc[t] = "exit" /\ Goto(t, "out")
      <2>1. CASE Enter(t)
            BY <2>1 DEF Enter, Before, InTurn
      <2>2. CASE EnterReturn(t)
            BY <2>2 DEF EnterReturn, Before, InTurn
      <2>3. CASE ReleaseToVerify(t)
            BY <2>3 DEF ReleaseToVerify, Before, InTurn
      <2>4. CASE VerifyLock(t)
            BY <2>4 DEF VerifyLock, Before, InTurn
      <2>5. CASE VerifyBody(t)
            BY <2>5 DEF VerifyBody, Before, InTurn
      <2>6. CASE VerifyUnlock(t)
            BY <2>6 DEF VerifyUnlock, Before, InTurn
      <2>7. CASE Relock(t)
            BY <2>7 DEF Relock, Before, InTurn
      <2>8. CASE GiveUp(t)
            BY <2>8 DEF GiveUp, Before, InTurn
      <2>9. CASE Exit(t)
            BY <2>9 DEF Exit
      <2> QED
            BY <2>1, <2>2, <2>3, <2>4, <2>5, <2>6, <2>7, <2>8, <2>9
<1>6. PICK p \in (Before \ InTurn) \cup {"out"} :
          Goto(t, p) /\ pc[t] \notin InTurn /\ (p \in Before => pc[t] \in Before)
      BY <1>5 DEF Before, InTurn
<1>7. p \in Pcs /\ p \notin InTurn
      BY DEF Before, InTurn, Pcs
<1> QED
      BY <1>1, <1>3, <1>4, <1>6, <1>7, QuietMove

\* The graphs of the items in the pool, and the lengths of what is chosen.
LEMMA PoolGraphs ==
    ASSUME WorkInv
    PROVE  /\ \A i \in Slots : pool[i] \in Items
           /\ \A i \in Slots : pool[i] # Empty =>
                 pool[i].graph \in Threads /\ pool[i].section \in Sections(pool[i].graph)
           /\ \A i \in Slots, t \in Threads : pool[i].graph = t => pool[i] # Empty
           /\ \A t \in Threads : /\ chosen[t] \in Seq(Nat) /\ Len(chosen[t]) \in Nat
                                 /\ DOMAIN chosen[t] = 1..Len(chosen[t])
<1>1. pool \in [Slots -> Items] /\ chosen \in [Threads -> Seq(Nat)]
      BY DEF WorkInv, WorkTypes
<1>2. \A i \in Slots : pool[i] \in Items
      BY <1>1
<1>3. \A i \in Slots : pool[i] # Empty =>
          pool[i].graph \in Threads /\ pool[i].section \in Sections(pool[i].graph)
      BY <1>2, ItemFacts
<1>4. \A i \in Slots, t \in Threads : pool[i].graph = t => pool[i] # Empty
      BY ItemFacts
<1>5. \A t \in Threads : /\ chosen[t] \in Seq(Nat) /\ Len(chosen[t]) \in Nat
                         /\ DOMAIN chosen[t] = 1..Len(chosen[t])
      BY <1>1, LenProperties
<1> QED
      BY <1>2, <1>3, <1>4, <1>5

LEMMA ScanWork == ASSUME WorkInv, NEW t \in Threads, ScanOrder(t) PROVE WorkInv'
<1> DEFINE c == ChosenSections(t)
           n == Len(c)
           p == CASE n = 0 -> "exit" [] n = 1 -> "inline" [] OTHER -> "fill"
<1>1. /\ pc[t] = "order" /\ ~TooMany(t)
      /\ chosen' = [chosen EXCEPT ![t] = c] /\ fill' = [fill EXCEPT ![t] = 1]
      /\ pc' = [pc EXCEPT ![t] = p]
      /\ UNCHANGED <<collectors, pool, completed, kgwSem, order, numRun, verified, skip, done,
                     leaked, refused, overlap, early>>
      BY DEF ScanOrder, Goto, poolVars, graphVars, flags, wakeFlags
<1>2. /\ c \in Seq(Nat) /\ n <= MaxSections /\ n \in Nat /\ DOMAIN c = 1..n
      /\ \A k \in DOMAIN c : c[k] \in Eligible(t)
      /\ \A k, l \in DOMAIN c : c[k] = c[l] => k = l
      /\ \A s \in Eligible(t) : \E k \in DOMAIN c : c[k] = s
      BY <1>1, ScanFacts
<1> HIDE DEF c
<1>3. /\ p \in {"exit", "inline", "fill"}
      /\ p = "inline" => n = 1
      /\ p = "fill" => n >= 1
      BY <1>2
<1> HIDE DEF p, n
<1>4. /\ pc \in [Threads -> Pcs] /\ chosen \in [Threads -> Seq(Nat)]
      /\ fill \in [Threads -> 1 .. MaxSections + 1] /\ 1 \in 1 .. MaxSections + 1
      BY GraphAssumption DEF WorkInv, WorkTypes
<1>5. /\ pc'[t] = p /\ chosen'[t] = c /\ fill'[t] = 1
      /\ \A u \in Threads : u # t => /\ pc'[u] = pc[u] /\ chosen'[u] = chosen[u]
                                     /\ fill'[u] = fill[u]
      BY <1>1, <1>4
<1>6. WorkTypes'
      <2>1. pc' \in [Threads -> Pcs]
            BY <1>1, <1>3, <1>4 DEF Pcs
      <2>2. chosen' \in [Threads -> Seq(Nat)] /\ fill' \in [Threads -> 1 .. MaxSections + 1]
            BY <1>1, <1>2, <1>4
      <2>3. \A u \in Threads : Len(chosen'[u]) <= MaxSections
            BY <1>2, <1>5 DEF WorkInv, WorkTypes, n
      <2> QED
            BY <1>1, <2>1, <2>2, <2>3 DEF WorkInv, WorkTypes
<1>7. Turns'
      <2>1. ASSUME pc'[t] \in InTurn
            PROVE  Turn(t)'
            <3>1. \A k \in DOMAIN c : c[k] \in Sections(t) /\ Orders[t][c[k]] = order[t]
                  BY <1>2 DEF Eligible
            <3>2. \A s \in Sections(t) : Orders[t][s] = order[t] /\ s \notin skip[t] =>
                      \E k \in DOMAIN c : c[k] = s
                  BY <1>2 DEF Eligible
            <3>3. 1 \in 1..n \/ p # "fill"
                  BY <1>2, <1>3
            <3>4. /\ chosen'[t] = c /\ order'[t] = order[t] /\ skip'[t] = skip[t]
                  /\ pc'[t] = p /\ fill'[t] = 1 /\ Len(c) = n
                  BY <1>1, <1>5 DEF n
            <3>5. \A k \in DOMAIN chosen'[t] :
                      chosen'[t][k] \in Sections(t) /\ Orders[t][chosen'[t][k]] = order'[t]
                  BY <3>1, <3>4
            <3>6. \A k, l \in DOMAIN chosen'[t] : chosen'[t][k] = chosen'[t][l] => k = l
                  BY <1>2, <3>4
            <3>7. \A s \in Sections(t) : Orders[t][s] = order'[t] /\ s \notin skip'[t] =>
                      IsChosen(t, s)'
                  BY <3>2, <3>4 DEF IsChosen
            <3>8. pc'[t] \in {"inline", "incallback"} => Len(chosen'[t]) = 1
                  BY <1>3, <3>4
            <3>9. /\ pc'[t] = "fill" => fill'[t] \in 1 .. Len(chosen'[t])
                  /\ pc'[t] # "issue"
                  BY <1>3, <3>3, <3>4
            <3> QED
                  BY <3>5, <3>6, <3>7, <3>8, <3>9 DEF Turn
      <2>2. ASSUME NEW u \in Threads, u # t, pc'[u] \in InTurn
            PROVE  Turn(u)'
            BY <1>1, <1>5, <2>2 DEF WorkInv, Turns, Turn, IsChosen
      <2> QED
            BY <2>1, <2>2 DEF Turns
<1>8. Semaphore'
      BY <1>1 DEF WorkInv, Semaphore, Pending
<1>9. ASSUME ~overlap'
      PROVE  Separate'
      <2>1. Separate
            BY <1>1, <1>9 DEF WorkInv
      <2>2. Filled'
            <3>1. \A g \in 1 .. MaxSections : ~(g < fill'[t])
                  BY <1>5
            <3> QED
                  BY <1>1, <1>3, <1>5, <2>1, <3>1 DEF Separate, Filled, InFill
      <2>3. InPool'
            <3>1. ASSUME NEW u \in Threads, NEW s \in Sections(u), Belongs(u, s)
                  PROVE  Belongs(u, s)'
                  BY <1>1, <1>5, <3>1 DEF Belongs, IsChosen
            <3> QED
                  BY <1>1, <2>1, <3>1, PoolGraphs DEF Separate, InPool
      <2>4. Awaited'
            BY <1>1, <1>3, <1>5, <2>1 DEF Separate, Awaited
      <2>5. Runs'
            <3>1. \A u \in Threads : pc'[u] \in Before => pc[u] \in Before
                  BY <1>1, <1>5 DEF Before
            <3>2. \A u \in Threads : pc'[u] = "incallback" =>
                      pc[u] = "incallback" /\ chosen'[u] = chosen[u]
                  BY <1>3, <1>5
            <3> QED
                  BY <1>1, <2>1, <3>1, <3>2 DEF Separate, Runs
      <2>6. Complete'
            BY <1>1, <2>1 DEF Separate, Complete, Past
      <2> QED
            BY <2>2, <2>3, <2>4, <2>5, <2>6 DEF Separate
<1> QED
      BY <1>6, <1>7, <1>8, <1>9 DEF WorkInv

LEMMA FillWork == ASSUME WorkInv, NEW t \in Threads, FillCollector(t) PROVE WorkInv'
<1> DEFINE f == fill[t]
           item == [graph |-> t, section |-> chosen[t][f], st |-> "queued"]
           p == IF f = Len(chosen[t]) THEN "issue" ELSE "fill"
<1>1. /\ pc[t] = "fill" /\ collectors' = [collectors EXCEPT ![f] = item]
      /\ fill' = [fill EXCEPT ![t] = f + 1] /\ pc' = [pc EXCEPT ![t] = p]
      /\ overlap' = (overlap \/ \E u \in Threads \ {t} : InFill(u))
      /\ UNCHANGED <<pool, completed, kgwSem, order, chosen, numRun, verified, skip, done,
                     leaked, refused, early>>
      BY DEF FillCollector, Goto, graphVars, wakeFlags
<1>2. /\ pc \in [Threads -> Pcs] /\ collectors \in [1..MaxSections -> Items]
      /\ fill \in [Threads -> 1 .. MaxSections + 1] /\ Len(chosen[t]) <= MaxSections
      /\ MaxSections \in Nat
      BY GraphAssumption DEF WorkInv, WorkTypes
<1>3. Turn(t)
      BY <1>1 DEF WorkInv, Turns, InTurn
<1>4. DOMAIN chosen[t] = 1..Len(chosen[t]) /\ Len(chosen[t]) \in Nat
      BY PoolGraphs
<1>5. f \in 1..Len(chosen[t]) /\ f \in 1..MaxSections /\ f + 1 \in 1 .. MaxSections + 1
      BY <1>1, <1>2, <1>3, <1>4 DEF Turn
<1>6. item \in Items /\ item.st = "queued"
      <2>1. chosen[t][f] \in Sections(t)
            BY <1>3, <1>4, <1>5 DEF Turn
      <2> QED
            BY <2>1, ItemFacts
<1> HIDE DEF item, p
<1>7. p \in {"issue", "fill"}
      BY DEF p
<1>8. /\ pc'[t] = p /\ \A u \in Threads : u # t => pc'[u] = pc[u] /\ fill'[u] = fill[u]
      /\ fill'[t] = f + 1 /\ collectors'[f] = item
      /\ \A g \in 1..MaxSections : g # f => collectors'[g] = collectors[g]
      BY <1>1, <1>2, <1>5
<1>9. WorkTypes'
      <2>1. pc' \in [Threads -> Pcs]
            BY <1>1, <1>2, <1>7 DEF Pcs
      <2>2. fill' \in [Threads -> 1 .. MaxSections + 1]
            BY <1>1, <1>2, <1>5
      <2>3. collectors' \in [1..MaxSections -> Items]
            BY <1>1, <1>2, <1>5, <1>6
      <2>4. overlap' \in BOOLEAN
            BY <1>1
      <2> QED
            BY <1>1, <2>1, <2>2, <2>3, <2>4 DEF WorkInv, WorkTypes
<1>10. Turns'
      <2>1. Turn(t)'
            <3>1. p = "fill" => f + 1 \in 1..Len(chosen[t])
                  BY <1>4, <1>5 DEF p
            <3>2. p = "issue" => f + 1 = Len(chosen[t]) + 1
                  BY DEF p
            <3> QED
                  BY <1>1, <1>3, <1>7, <1>8, <3>1, <3>2 DEF Turn, IsChosen
      <2>2. ASSUME NEW u \in Threads, u # t, pc'[u] \in InTurn
            PROVE  Turn(u)'
            BY <1>1, <1>8, <2>2 DEF WorkInv, Turns, Turn, IsChosen
      <2> QED
            BY <2>1, <2>2 DEF Turns
<1>11. Semaphore'
      <2>1. \A g \in 1..MaxSections : collectors'[g].st \in {"empty", "queued"}
            BY <1>6, <1>8 DEF WorkInv, Semaphore
      <2> QED
            BY <1>1, <2>1 DEF WorkInv, Semaphore, Pending
<1>12. ASSUME ~overlap'
       PROVE  Separate'
      <2>1. Separate /\ \A u \in Threads : u # t => ~InFill(u)
            BY <1>1, <1>12 DEF WorkInv
      <2>2. Filled'
            <3>1. \A u \in Threads : u # t => ~InFill(u)'
                  BY <1>8, <2>1 DEF InFill
            <3>2. ASSUME NEW g \in 1 .. MaxSections, g < f + 1
                  PROVE  collectors'[g] = [graph |-> t, section |-> chosen[t][g],
                                           st |-> "queued"]
                  <4>1. CASE g = f
                        BY <1>8, <4>1 DEF item
                  <4>2. CASE g # f
                        <5>1. g < f
                              BY <1>5, <3>2, <4>2
                        <5> QED
                              BY <1>1, <1>8, <2>1, <4>2, <5>1 DEF Separate, Filled, InFill
                  <4> QED
                        BY <4>1, <4>2
            <3> QED
                  BY <1>1, <1>8, <3>1, <3>2 DEF Filled
      <2>3. \A u \in Threads :
                /\ pc'[u] \in Before => pc[u] \in Before
                /\ pc[u] \notin {"fill", "issue"} \/ pc'[u] \notin {"fill", "issue"} =>
                      pc'[u] = pc[u]
            BY <1>1, <1>7, <1>8 DEF Before
      <2>4. InPool'
            BY <1>1, <2>1, <2>3, PoolGraphs DEF Separate, InPool, Belongs, IsChosen
      <2>5. Awaited'
            BY <1>1, <2>1, <2>3 DEF Separate, Awaited
      <2>6. Runs'
            BY <1>1, <2>1, <2>3 DEF Separate, Runs
      <2>7. Complete'
            BY <1>1, <2>1 DEF Separate, Complete, Past
      <2> QED
            BY <2>2, <2>4, <2>5, <2>6, <2>7 DEF Separate
<1> QED
      BY <1>9, <1>10, <1>11, <1>12 DEF WorkInv

LEMMA SectionsFinite ==
    \A t \in Threads :
        /\ IsFiniteSet(Sections(t)) /\ Sections(t) \in SUBSET Nat
        /\ \A s \in Sections(t) : Orders[t][s] \in Nat
<1> SUFFICES ASSUME NEW t \in Threads
             PROVE  /\ IsFiniteSet(Sections(t)) /\ Sections(t) \in SUBSET Nat
                    /\ \A s \in Sections(t) : Orders[t][s] \in Nat
      OBVIOUS
<1>1. /\ Orders[t] \in Seq(Nat) /\ Len(Orders[t]) \in Nat
      /\ Sections(t) = 1..Len(Orders[t])
      BY GraphAssumption, LenProperties DEF Sections
<1>2. \A s \in Sections(t) : Orders[t][s] \in Nat
      BY <1>1, ElementOfSeq
<1> QED
      BY <1>1, <1>2, FS_Interval

\* threadpool_issue: what a thread has filled in is in the pool, each once.
LEMMA IssueWork == ASSUME WorkInv, NEW t \in Threads, Issue(t) PROVE WorkInv'
<1> DEFINE n == Len(chosen[t])
           items(k) == SubSeq(collectors, 1, k)
<1>1. /\ pc[t] = "issue" /\ completed' = (Pending(pool') = {})
      /\ pc' = [pc EXCEPT ![t] = "wait"]
      /\ UNCHANGED <<collectors, kgwSem, order, chosen, fill, numRun, verified, skip, done,
                     leaked, overlap, early>>
      BY DEF Issue, Goto, graphVars, localVars, wakeFlags, CompletedAfterIssue
<1>2. PICK k \in 0..n :
          /\ Cardinality(Pending(pool)) + k <= Cardinality(Slots)
          /\ pool' = Placed(pool, items(k))
          /\ refused' = IF k < n THEN refused \cup {t} ELSE refused
      BY DEF Issue
<1>3. /\ pc \in [Threads -> Pcs] /\ collectors \in [1..MaxSections -> Items]
      /\ pool \in [Slots -> Items] /\ n <= MaxSections /\ MaxSections \in Nat
      BY GraphAssumption DEF WorkInv, WorkTypes
<1>4. DOMAIN chosen[t] = 1..n /\ n \in Nat
      BY PoolGraphs
<1>5. Turn(t)
      BY <1>1 DEF WorkInv, Turns, InTurn
<1>6. k \in Nat /\ k <= n /\ k <= MaxSections
      BY <1>3, <1>4
<1>7. /\ items(k) \in Seq(Items) /\ Len(items(k)) = k
      /\ \A j \in 1..k : items(k)[j] = collectors[j]
      <2>1. collectors \in Seq(Items) /\ Len(collectors) = MaxSections
            BY <1>3
      <2>2. \A j \in 1..k : j \in 1..MaxSections
            BY <1>3, <1>6
      <2> QED
            BY <1>3, <1>6, <2>1, <2>2
<1> DEFINE q == items(k)
<1> HIDE DEF items, n
<1>8. /\ pool' \in [Slots -> Items]
      /\ \A i \in Slots : pool[i] # Empty => pool'[i] = pool[i]
      /\ \A i \in Slots : pool[i] = Empty =>
            \/ pool'[i] = Empty
            \/ \E j \in 1..k : pool'[i] = q[j]
      /\ \A j \in 1..k : \E i \in Slots : pool[i] = Empty /\ pool'[i] = q[j]
      /\ (\A j, l \in 1..k : q[j] = q[l] => j = l) =>
            \A i, j \in Slots : /\ pool[i] = Empty /\ pool[j] = Empty /\ pool'[i] # Empty
                                /\ pool'[i] = pool'[j]
                                => i = j
      <2>1. q \in Seq(Items) /\ Cardinality(Pending(pool)) + Len(q) <= Cardinality(Slots)
            BY <1>2, <1>7
      <2>2. Len(q) = k /\ pool' = Placed(pool, q)
            BY <1>2, <1>7
      <2> DEFINE r == Placed(pool, q)
      <2> HIDE DEF q
      <2>3. /\ r \in [Slots -> Items]
            /\ \A i \in Slots : pool[i] # Empty => r[i] = pool[i]
            /\ \A i \in Slots : pool[i] = Empty =>
                  \/ r[i] = Empty
                  \/ \E j \in 1..Len(q) : r[i] = q[j]
            /\ \A j \in 1..Len(q) : \E i \in Slots : pool[i] = Empty /\ r[i] = q[j]
            /\ (\A j, l \in 1..Len(q) : q[j] = q[l] => j = l) =>
                  \A i, j \in Slots : /\ pool[i] = Empty /\ pool[j] = Empty /\ r[i] # Empty
                                      /\ r[i] = r[j]
                                      => i = j
            BY <1>3, <2>1, PlacedFacts, Zenon
      <2>4. pool' = r
            BY <2>2
      <2> HIDE DEF r
      <2> QED
            BY <2>2, <2>3, <2>4
<1>9. /\ pc'[t] = "wait" /\ \A u \in Threads : u # t => pc'[u] = pc[u]
      /\ pc' \in [Threads -> Pcs]
      BY <1>1, <1>3 DEF Pcs
<1>10. \A i \in Slots : pool[i] = Empty =>
           pool'[i] = Empty \/ \E j \in 1..k : pool'[i] = collectors[j]
      BY <1>7, <1>8
<1>11. \A j \in 1..k : j \in 1..MaxSections /\ j \in 1..n
      BY <1>3, <1>4, <1>6
<1>12. WorkTypes'
      <2>1. refused' \subseteq Threads
            BY <1>2 DEF WorkInv, WorkTypes
      <2>2. completed' \in BOOLEAN
            BY <1>1
      <2> QED
            BY <1>1, <1>8, <1>9, <2>1, <2>2 DEF WorkInv, WorkTypes
<1>13. Turns'
      <2>1. \A u \in Threads : pc'[u] \in InTurn => pc[u] \in InTurn
            BY <1>1, <1>9 DEF InTurn
      <2> QED
            BY <1>1, <1>9, <2>1 DEF WorkInv, Turns, Turn, IsChosen
<1>14. Semaphore'
      <2>1. ASSUME NEW i \in Slots
            PROVE  pool'[i].st = "callback" <=> kgwSem' = i
            <3>1. CASE pool[i] # Empty
                  BY <1>1, <1>8, <3>1 DEF WorkInv, Semaphore
            <3>2. CASE pool[i] = Empty
                  <4>1. kgwSem # i
                        BY <3>2, ItemFacts DEF WorkInv, Semaphore
                  <4>2. pool'[i].st \in {"empty", "queued"}
                        BY <1>10, <1>11, <3>2, ItemFacts DEF WorkInv, Semaphore
                  <4> QED
                        BY <1>1, <4>1, <4>2
            <3> QED
                  BY <3>1, <3>2
      <2> QED
            BY <1>1, <2>1 DEF WorkInv, Semaphore
<1>15. ASSUME ~overlap'
       PROVE  Separate'
      <2>1. Separate
            BY <1>1, <1>15 DEF WorkInv
      <2>2. \A j \in 1..k : q[j] = [graph |-> t, section |-> chosen[t][j], st |-> "queued"]
            <3>1. \A j \in 1..k : j < fill[t]
                  BY <1>1, <1>4, <1>5, <1>11 DEF Turn, n
            <3> QED
                  BY <1>1, <1>7, <1>11, <2>1, <3>1 DEF Separate, Filled, InFill
      <2> HIDE DEF q
      <2>3. ASSUME NEW j \in 1..k
            PROVE  q[j].graph = t /\ q[j].section = chosen[t][j] /\ q[j].st = "queued"
            <3> DEFINE x == [graph |-> t, section |-> chosen[t][j], st |-> "queued"]
            <3>1. x.graph = t /\ x.section = chosen[t][j] /\ x.st = "queued"
                  OBVIOUS
            <3>2. q[j] = x
                  BY <2>2
            <3> HIDE DEF x
            <3> QED
                  BY <3>1, <3>2
      <2>4. \A j, l \in 1..k : q[j].section = q[l].section => j = l
            BY <1>4, <1>5, <1>11, <2>3 DEF Turn
      <2>5. \A i \in Slots : pool[i] # Empty =>
                /\ pool'[i] = pool[i] /\ pool[i].graph \in Threads
                /\ pool[i].section \in Sections(pool[i].graph)
                /\ Belongs(pool[i].graph, pool[i].section)
                /\ pool[i].graph = t => Orders[t][pool[i].section] < order[t]
            BY <1>1, <1>8, <2>1, PoolGraphs DEF Separate, InPool, Belongs
      <2>6. \A i \in Slots : pool[i] = Empty /\ pool'[i] # Empty =>
                \E j \in 1..k : pool'[i] = q[j]
            BY <1>8
      <2>7. Filled'
            BY <1>1, <1>9, <2>1 DEF Separate, Filled, InFill
      <2>8. ASSUME NEW i \in Slots, pool'[i] # Empty
            PROVE  \E u \in Threads : \E s \in Sections(u) :
                       /\ pool'[i].graph = u /\ pool'[i].section = s /\ Belongs(u, s)'
                       /\ done[u][s] = IF pool'[i].st = "callback" THEN 1 ELSE 0
            <3>1. CASE pool[i] # Empty
                  <4> PICK u \in Threads : pool[i].graph = u
                        BY <2>5, <3>1
                  <4> PICK s \in Sections(u) : pool[i].section = s
                        BY <2>5, <3>1
                  <4>1. /\ Belongs(u, s)
                        /\ done[u][s] = IF pool[i].st = "callback" THEN 1 ELSE 0
                        BY <2>1, <3>1 DEF Separate, InPool
                  <4>2. Belongs(u, s)'
                        BY <1>1, <1>9, <4>1 DEF Belongs, IsChosen
                  <4> QED
                        BY <2>5, <3>1, <4>1, <4>2
            <3>2. CASE pool[i] = Empty
                  <4>1. PICK j \in 1..k : pool'[i] = q[j]
                        BY <2>6, <2>8, <3>2
                  <4>2. /\ pool'[i].graph = t /\ pool'[i].section = chosen[t][j]
                        /\ pool'[i].st = "queued"
                        BY <2>3, <4>1
                  <4>3. chosen[t][j] \in Sections(t) /\ Orders[t][chosen[t][j]] = order[t]
                        BY <1>4, <1>5, <1>11 DEF Turn
                  <4>4. done[t][chosen[t][j]] = 0
                        BY <1>1, <2>1, <4>3 DEF Separate, Runs, Before
                  <4>5. j \in DOMAIN chosen[t]
                        BY <1>4, <1>11
                  <4> PICK s \in Sections(t) : s = chosen[t][j]
                        BY <4>3
                  <4>6. Belongs(t, s)'
                        BY <1>1, <1>9, <4>5 DEF Belongs, IsChosen
                  <4> QED
                        BY <4>2, <4>3, <4>4, <4>6
            <3> QED
                  BY <3>1, <3>2
      <2>9. ASSUME NEW i \in Slots, NEW j \in Slots, pool'[i] # Empty, pool'[j] # Empty,
                   pool'[i].graph = pool'[j].graph, pool'[i].section = pool'[j].section
            PROVE  i = j
            <3>1. CASE pool[i] # Empty /\ pool[j] # Empty
                  BY <2>1, <2>5, <2>9, <3>1 DEF Separate, InPool
            <3>2. CASE pool[i] = Empty /\ pool[j] = Empty
                  <4>1. PICK a \in 1..k : pool'[i] = q[a]
                        BY <2>6, <2>9, <3>2
                  <4>2. PICK b \in 1..k : pool'[j] = q[b]
                        BY <2>6, <2>9, <3>2
                  <4>3. a = b
                        BY <2>4, <2>9, <4>1, <4>2
                  <4>4. \A x, y \in 1..k : q[x] = q[y] => x = y
                        BY <2>4
                  <4> QED
                        BY <1>8, <2>9, <3>2, <4>1, <4>2, <4>3, <4>4
            <3>3. ASSUME NEW a \in Slots, NEW b \in Slots, pool[a] # Empty, pool[b] = Empty,
                         pool'[b] # Empty, pool'[a].graph = pool'[b].graph,
                         pool'[a].section = pool'[b].section
                  PROVE  FALSE
                  <4>1. PICK l \in 1..k : pool'[b] = q[l]
                        BY <2>6, <3>3
                  <4>2. pool[a].graph = t /\ pool[a].section = chosen[t][l]
                        BY <2>3, <2>5, <3>3, <4>1
                  <4>3. chosen[t][l] \in Sections(t) /\ Orders[t][chosen[t][l]] = order[t]
                        BY <1>4, <1>5, <1>11 DEF Turn
                  <4>4. Orders[t][chosen[t][l]] < order[t]
                        BY <2>5, <3>3, <4>2
                  <4> QED
                        BY <4>3, <4>4, SectionsFinite
            <3>4. CASE (pool[i] # Empty) # (pool[j] # Empty)
                  BY <2>9, <3>3, <3>4
            <3> QED
                  BY <3>1, <3>2, <3>4
      <2>10. InPool'
            <3>1. ASSUME NEW i \in Slots, pool'[i] # Empty
                  PROVE  /\ Belongs(pool[i].graph, pool[i].section)'
                         /\ done'[pool'[i].graph][pool'[i].section] =
                               IF pool'[i].st = "callback" THEN 1 ELSE 0
                  BY <1>1, <2>8, <3>1 DEF Belongs, IsChosen
            <3> QED
                  BY <2>9, <3>1 DEF InPool
      <2>11. Awaited'
            <3>1. ASSUME NEW u \in Threads, u \notin refused',
                         pc'[u] \in {"wait", "blocked", "woken"},
                         NEW l \in DOMAIN chosen[u]
                  PROVE  \/ done[u][chosen[u][l]] = 1
                         \/ \E i \in Slots :
                               pool'[i].graph = u /\ pool'[i].section = chosen[u][l]
                  <4>1. CASE u = t
                        <5>1. k = n
                              BY <1>2, <1>4, <1>6, <3>1, <4>1
                        <5>2. l \in 1..k
                              BY <1>4, <4>1, <5>1
                        <5> QED
                              BY <1>8, <2>3, <4>1, <5>2
                  <4>2. CASE u # t
                        <5>1. u \notin refused /\ pc[u] \in {"wait", "blocked", "woken"}
                              BY <1>2, <1>9, <3>1, <4>2
                        <5>2. \/ done[u][chosen[u][l]] = 1
                              \/ \E i \in Slots :
                                    pool[i].graph = u /\ pool[i].section = chosen[u][l]
                              BY <2>1, <5>1 DEF Separate, Awaited
                        <5> QED
                              BY <1>8, <5>2, PoolGraphs
                  <4> QED
                        BY <4>1, <4>2
            <3> QED
                  BY <1>1, <3>1 DEF Awaited
      <2>12. Runs'
            BY <1>1, <1>9, <2>1 DEF Separate, Runs, Before
      <2>13. Complete'
            <3>1. \A u \in Threads \ refused' : u \in Threads \ refused
                  BY <1>2
            <3> QED
                  BY <1>1, <2>1, <3>1 DEF Separate, Complete, Past
      <2> QED
            BY <2>7, <2>10, <2>11, <2>12, <2>13 DEF Separate
<1> QED
      BY <1>12, <1>13, <1>14, <1>15 DEF WorkInv

-----------------------------------------------------------------------------
\* What is chosen is as many sections as it is long.
LEMMA ChosenCounts ==
    ASSUME NEW c \in Seq(Nat), NEW C, IsFiniteSet(C),
           \A k \in DOMAIN c : c[k] \in C,
           \A k, l \in DOMAIN c : c[k] = c[l] => k = l
    PROVE  Len(c) <= Cardinality(C)
<1> DEFINE n == Len(c)
<1>1. n \in Nat /\ DOMAIN c = 1..n
      BY LenProperties
<1> HIDE DEF n
<1>2. IsFiniteSet(1..n) /\ Cardinality(1..n) = n
      BY <1>1, FS_Interval
<1>3. Cardinality(C) \in Nat
      BY FS_CardinalityType
<1> SUFFICES ASSUME ~(n <= Cardinality(C))
             PROVE  FALSE
      BY DEF n
<1> DEFINE f == [k \in 1..n |-> c[k]]
<1>4. f \in [1..n -> C] /\ \A k, l \in 1..n : f[k] = f[l] => k = l
      BY <1>1
<1>5. Cardinality(C) < Cardinality(1..n)
      BY <1>1, <1>2, <1>3
<1> HIDE DEF f
<1>6. \E k, l \in 1..n : k # l /\ f[k] = f[l]
      BY <1>2, <1>4, <1>5, FS_PigeonHole
<1> QED
      BY <1>4, <1>6

\* The end of a turn: when the pool has nothing of the thread's graph left and what
\* it chose has been run, the order is complete and may be counted.  A thread whose
\* wait ended by itself goes on too, and counts nothing.
LEMMA EndTurn ==
    ASSUME WorkInv, NEW t \in Threads, pc[t] \in {"wait", "woken", "incallback"},
           NEW ran \in {0, Len(chosen[t])}, NextOrder(t, ran),
           UNCHANGED <<poolVars, chosen, fill, verified, done, leaked, refused, overlap, early>>,
           skip' \in [Threads -> SUBSET Nat],
           \A u \in Threads : /\ skip[u] \subseteq skip'[u] /\ skip'[u] \subseteq Sections(u)
                              /\ u # t => skip'[u] = skip[u],
           ~overlap => /\ \A i \in Slots : pool[i].graph = t => t \in early
                       /\ t \notin refused =>
                             \/ t \in early /\ ran = 0
                             \/ \A k \in DOMAIN chosen[t] : done[t][chosen[t][k]] = 1
    PROVE  WorkInv'
<1>1. /\ UNCHANGED <<collectors, pool, completed, kgwSem, chosen, fill, verified, done, leaked,
                     refused, overlap, early>>
      /\ numRun' = [numRun EXCEPT ![t] = numRun[t] + ran]
      /\ order' = [order EXCEPT ![t] = order[t] + 1]
      /\ pc' = [pc EXCEPT ![t] = "order"]
      BY DEF poolVars, NextOrder, Goto
<1>2. /\ pc \in [Threads -> Pcs] /\ order \in [Threads -> Nat] /\ numRun \in [Threads -> Nat]
      BY DEF WorkInv, WorkTypes
<1>3. Len(chosen[t]) \in Nat /\ DOMAIN chosen[t] = 1..Len(chosen[t]) /\ chosen[t] \in Seq(Nat)
      BY PoolGraphs
<1>4. ran \in Nat /\ ran <= Len(chosen[t])
      BY <1>3
<1>5. /\ pc'[t] = "order" /\ order'[t] = order[t] + 1 /\ numRun'[t] = numRun[t] + ran
      /\ \A u \in Threads : u # t => /\ pc'[u] = pc[u] /\ order'[u] = order[u]
                                     /\ numRun'[u] = numRun[u]
      /\ order[t] \in Nat /\ numRun[t] \in Nat
      BY <1>1, <1>2
<1>6. WorkTypes'
      <2>1. pc' \in [Threads -> Pcs]
            BY <1>1, <1>2 DEF Pcs
      <2>2. order' \in [Threads -> Nat] /\ numRun' \in [Threads -> Nat]
            BY <1>1, <1>2, <1>4
      <2> QED
            BY <1>1, <2>1, <2>2 DEF WorkInv, WorkTypes
<1>7. Turns'
      <2>1. \A u \in Threads : pc'[u] \in InTurn => u # t
            BY <1>5 DEF InTurn
      <2> QED
            BY <1>1, <1>5, <2>1 DEF WorkInv, Turns, Turn, IsChosen
<1>8. Semaphore'
      BY <1>1 DEF WorkInv, Semaphore, Pending
<1>9. ASSUME ~overlap'
      PROVE  Separate'
      <2>1. /\ Separate /\ \A i \in Slots : pool[i].graph = t => t \in early
            /\ t \notin refused => \/ t \in early /\ ran = 0
                                  \/ \A k \in DOMAIN chosen[t] : done[t][chosen[t][k]] = 1
            BY <1>1, <1>9 DEF WorkInv
      <2>2. Filled'
            BY <1>1, <1>5, <2>1 DEF Separate, Filled, InFill
      <2>3. InPool'
            <3>1. ASSUME NEW u \in Threads, NEW s \in Sections(u), Belongs(u, s),
                         u = t => t \in early
                  PROVE  Belongs(u, s)'
                  <4>1. CASE u # t
                        BY <1>1, <1>5, <3>1, <4>1 DEF Belongs, IsChosen
                  <4>2. CASE u = t
                        <5>1. Orders[t][s] = order[t] \/ Orders[t][s] < order[t]
                              BY <3>1, <4>2 DEF Belongs, IsChosen, WorkInv, Turns, InTurn, Turn
                        <5>2. Orders[t][s] < order'[t]
                              BY <1>5, <4>2, <5>1, SectionsFinite
                        <5> QED
                              BY <1>1, <3>1, <4>2, <5>2 DEF Belongs
                  <4> QED
                        BY <4>1, <4>2
            <3> QED
                  BY <1>1, <2>1, <3>1, PoolGraphs DEF Separate, InPool
      <2>4. Awaited'
            BY <1>1, <1>5, <2>1 DEF Separate, Awaited
      <2>5. Runs'
            <3>1. ASSUME NEW u \in Threads, NEW s \in Sections(u)
                  PROVE  /\ done'[u][s] <= 1
                         /\ Orders[u][s] > order'[u] => done'[u][s] = 0
                         /\ pc'[u] \in Before /\ Orders[u][s] = order'[u] => done'[u][s] = 0
                  <4>1. CASE u = t
                        <5>1. Orders[t][s] >= order[t] + 1 => Orders[t][s] > order[t]
                              BY <1>5, <3>1, <4>1, SectionsFinite
                        <5> QED
                              BY <1>1, <1>5, <2>1, <3>1, <4>1, <5>1, SectionsFinite
                              DEF Separate, Runs
                  <4>2. CASE u # t
                        BY <1>1, <1>5, <2>1, <3>1, <4>2 DEF Separate, Runs
                  <4> QED
                        BY <4>1, <4>2
            <3>2. \A u \in Threads : pc'[u] = "incallback" => pc[u] = "incallback"
                  BY <1>5
            <3> QED
                  BY <1>1, <2>1, <3>1, <3>2 DEF Separate, Runs
      <2>6. ASSUME t \notin refused
            PROVE  /\ t \notin early => \A s \in Sections(t) :
                          Orders[t][s] < order'[t] => done[t][s] > 0 \/ s \in skip'[t]
                   /\ numRun'[t] <= Cardinality(Past(t)')
            <3> DEFINE C == {s \in Sections(t) : IsChosen(t, s)}
                       P == Past(t)
                       Q == {s \in Sections(t) : Orders[t][s] < order[t] + 1 /\ done[t][s] > 0}
            <3>1. Turn(t)
                  BY DEF WorkInv, Turns, InTurn
            <3>2. \A s \in Sections(t) : Orders[t][s] \in Nat
                  BY SectionsFinite
            <3>3. \A s \in C : Orders[t][s] = order[t]
                  BY <3>1 DEF IsChosen, Turn
            <3>4. P \in SUBSET Sections(t) /\ C \in SUBSET Sections(t) /\ Q \in SUBSET Sections(t)
                  BY DEF Past
            <3>5. IsFiniteSet(P) /\ IsFiniteSet(C) /\ IsFiniteSet(Q)
                  BY <3>4, SectionsFinite, FS_Subset
            <3>6. Cardinality(P) \in Nat /\ Cardinality(C) \in Nat /\ Cardinality(Q) \in Nat
                  BY <3>5, FS_CardinalityType
            <3>7. Past(t)' = Q
                  BY <1>1, <1>5 DEF Past
            <3>8. numRun[t] <= Cardinality(P)
                  BY <2>1, <2>6 DEF Separate, Complete
            <3>9. \A s \in Sections(t) : Orders[t][s] <= order[t] => Orders[t][s] < order[t] + 1
                  BY <1>5, <3>2
            <3>10. \A s \in P : Orders[t][s] <= order[t] /\ Orders[t][s] # order[t] /\ done[t][s] > 0
                  BY <1>5, <3>2 DEF Past
            <3>11. P \in SUBSET Q
                  BY <3>4, <3>9, <3>10
            <3>12. CASE t \in early /\ ran = 0
                  <4>1. Cardinality(P) <= Cardinality(Q)
                        <5> HIDE DEF P, Q
                        <5> QED
                              BY <3>5, <3>11, FS_Subset
                  <4> QED
                        BY <1>5, <3>6, <3>7, <3>8, <3>12, <4>1
            <3>13. CASE \A k \in DOMAIN chosen[t] : done[t][chosen[t][k]] = 1
                  <4>1. \A s \in C : done[t][s] > 0
                        BY <3>13 DEF IsChosen
                  <4>2. \A s \in Sections(t) : Orders[t][s] < order[t] + 1 =>
                            Orders[t][s] < order[t] \/ Orders[t][s] = order[t]
                        BY <1>5, <3>2
                  <4>3. \A s \in Sections(t) : Orders[t][s] = order[t] => s \in C \/ s \in skip[t]
                        BY <3>1 DEF Turn
                  <4>4. t \notin early => \A s \in Sections(t) :
                            Orders[t][s] < order[t] => done[t][s] > 0 \/ s \in skip[t]
                        BY <2>1, <2>6 DEF Separate, Complete
                  <4>5. t \notin early => \A s \in Sections(t) :
                            Orders[t][s] < order'[t] => done[t][s] > 0 \/ s \in skip'[t]
                        BY <1>5, <4>1, <4>2, <4>3, <4>4
                  <4>6. P \cap C = {}
                        BY <3>3, <3>10
                  <4>7. P \cup C \in SUBSET Q
                        <5>1. \A s \in C : Orders[t][s] <= order[t]
                              BY <1>5, <3>3
                        <5> QED
                              BY <3>4, <3>9, <3>11, <4>1, <5>1
                  <4>8. \A k \in DOMAIN chosen[t] : chosen[t][k] \in C
                        BY <3>1 DEF Turn, IsChosen
                  <4>9. \A k, l \in DOMAIN chosen[t] : chosen[t][k] = chosen[t][l] => k = l
                        BY <3>1 DEF Turn
                  <4> HIDE DEF C, P, Q
                  <4>10. Len(chosen[t]) <= Cardinality(C)
                        BY <1>3, <3>5, <4>8, <4>9, ChosenCounts
                  <4>11. Cardinality(P \cup C)
                             = Cardinality(P) + Cardinality(C) - Cardinality(P \cap C)
                        BY <3>5, FS_Union
                  <4>12. Cardinality(P \cup C) <= Cardinality(Q)
                        BY <3>5, <4>7, FS_Subset
                  <4>13. Cardinality(P \cap C) = 0
                        BY <4>6, FS_EmptySet
                  <4>14. numRun[t] + ran <= Cardinality(Q)
                        BY <1>3, <1>4, <1>5, <3>6, <3>8, <4>10, <4>11, <4>12, <4>13
                  <4> QED
                        BY <1>5, <3>7, <4>5, <4>14
            <3> QED
                  BY <2>1, <2>6, <3>12, <3>13
      <2>7. ASSUME NEW u \in Threads, u # t
            PROVE  Past(u)' = Past(u)
            BY <1>1, <1>5, <2>7 DEF Past
      <2>8. Complete'
            <3>1. ASSUME NEW u \in Threads, u \notin refused
                  PROVE  /\ u \notin early => \A s \in Sections(u) :
                                Orders[u][s] < order'[u] => done[u][s] > 0 \/ s \in skip'[u]
                         /\ numRun'[u] <= Cardinality(Past(u)')
                  <4>1. CASE u = t
                        BY <2>6, <3>1, <4>1
                  <4>2. CASE u # t
                        BY <1>5, <2>1, <2>7, <3>1, <4>2 DEF Separate, Complete
                  <4> QED
                        BY <4>1, <4>2
            <3> QED
                  BY <1>1, <3>1 DEF Complete
      <2> QED
            BY <2>2, <2>3, <2>4, <2>5, <2>8 DEF Separate
<1> QED
      BY <1>6, <1>7, <1>8, <1>9 DEF WorkInv

\* threadpool_complete: the thread goes on when the pool is empty, and otherwise
\* sleeps until it is or until it wakes by itself.
LEMMA WaitWork ==
    ASSUME WorkInv, NEW t \in Threads, WaitForPool(t) \/ WokenByPool(t)
    PROVE  WorkInv'
<1>1. /\ UNCHANGED <<collectors, pool, completed, kgwSem, chosen, fill, verified, skip, done,
                     leaked, refused, overlap, early>>
      /\ UNCHANGED poolVars
      BY DEF WaitForPool, WokenByPool, poolVars, graphVars, flags, wakeFlags
<1>2. /\ skip' \in [Threads -> SUBSET Nat]
      /\ \A u \in Threads : /\ skip[u] \subseteq skip'[u] /\ skip'[u] \subseteq Sections(u)
                            /\ u # t => skip'[u] = skip[u]
      BY <1>1 DEF WorkInv, WorkTypes
<1>3. ASSUME ~overlap, pc[t] \in {"wait", "woken"}, \A i \in Slots : pool[i].graph # t
      PROVE  t \notin refused => \A k \in DOMAIN chosen[t] : done[t][chosen[t][k]] = 1
      BY <1>3 DEF WorkInv, Separate, Awaited
<1>4. CASE WokenByPool(t)
      <2>1. pc[t] = "woken" /\ NextOrder(t, IF completed THEN Len(chosen[t]) ELSE 0)
            BY <1>4 DEF WokenByPool
      <2>2. ~overlap => \A i \in Slots : pool[i].graph = t => t \in early
            BY <2>1, PoolGraphs DEF WorkInv, Separate, InPool, Belongs
      <2>3. completed => \A i \in Slots : pool[i].graph # t
            BY PoolGraphs DEF WorkInv, Semaphore, Pending
      <2>4. PICK ran \in {0, Len(chosen[t])} :
                NextOrder(t, ran) /\ (completed \/ ran = 0)
            BY <2>1
      <2>5. ~overlap => (t \notin refused =>
                \/ t \in early /\ ran = 0
                \/ \A k \in DOMAIN chosen[t] : done[t][chosen[t][k]] = 1)
            BY <1>3, <2>1, <2>2, <2>3, <2>4
      <2> QED
            BY <1>1, <1>2, <2>1, <2>2, <2>4, <2>5, EndTurn
<1>5. CASE WaitForPool(t) /\ completed
      <2>1. pc[t] = "wait" /\ NextOrder(t, Len(chosen[t]))
            BY <1>5 DEF WaitForPool
      <2>2. \A i \in Slots : pool[i].graph # t
            BY <1>5, PoolGraphs DEF WorkInv, Semaphore, Pending
      <2> QED
            BY <1>1, <1>2, <1>3, <2>1, <2>2, EndTurn
<1>6. CASE WaitForPool(t) /\ ~completed
      <2>1. /\ pc[t] = "wait" /\ pc' = [pc EXCEPT ![t] = "blocked"]
            /\ UNCHANGED <<order, numRun>>
            BY <1>6 DEF WaitForPool, Goto
      <2>2. pc \in [Threads -> Pcs]
            BY DEF WorkInv, WorkTypes
      <2>3. /\ pc' \in [Threads -> Pcs] /\ pc'[t] = "blocked"
            /\ \A u \in Threads : u # t => pc'[u] = pc[u]
            BY <2>1, <2>2 DEF Pcs
      <2>4. \A u \in Threads :
                /\ pc'[u] \in InTurn => pc[u] \in InTurn
                /\ pc'[u] \notin {"wait", "blocked"} => pc'[u] = pc[u]
                /\ pc'[u] \in {"wait", "blocked"} <=> pc[u] \in {"wait", "blocked"}
            BY <2>1, <2>3 DEF InTurn
      <2>5. WorkTypes'
            BY <1>1, <2>1, <2>3 DEF WorkInv, WorkTypes
      <2>6. Turns'
            BY <1>1, <2>1, <2>4 DEF WorkInv, Turns, Turn, IsChosen
      <2>7. Semaphore'
            BY <1>1 DEF WorkInv, Semaphore, Pending
      <2>8. ASSUME ~overlap'
            PROVE  Separate'
            <3>1. Separate
                  BY <1>1, <2>8 DEF WorkInv
            <3>2. Filled'
                  BY <1>1, <2>4, <3>1 DEF Separate, Filled, InFill
            <3>3. InPool'
                  BY <1>1, <2>1, <2>4, <3>1, PoolGraphs DEF Separate, InPool, Belongs, IsChosen
            <3>4. Awaited'
                  BY <1>1, <2>4, <3>1 DEF Separate, Awaited
            <3>5. Runs'
                  BY <1>1, <2>1, <2>4, <3>1 DEF Separate, Runs, Before
            <3>6. Complete'
                  BY <1>1, <2>1, <3>1 DEF Separate, Complete, Past
            <3> QED
                  BY <3>2, <3>3, <3>4, <3>5, <3>6 DEF Separate
      <2> QED
            BY <2>5, <2>6, <2>7, <2>8 DEF WorkInv
<1> QED
      BY <1>4, <1>5, <1>6

\* The client's callback adds sections to those that are skipped.
LEMMA CallbackSkips ==
    ASSUME WorkInv, NEW t \in Threads, NEW s \in Sections(t), Callback(t, s)
    PROVE  /\ skip' \in [Threads -> SUBSET Nat]
           /\ \A u \in Threads : /\ skip[u] \subseteq skip'[u] /\ skip'[u] \subseteq Sections(u)
                                 /\ u # t => skip'[u] = skip[u]
<1>1. PICK S \in SUBSET Sections(t) : skip' = [skip EXCEPT ![t] = skip[t] \cup S]
      BY DEF Callback
<1>2. skip \in [Threads -> SUBSET Nat] /\ \A u \in Threads : skip[u] \subseteq Sections(u)
      BY DEF WorkInv, WorkTypes
<1>3. skip[t] \cup S \in SUBSET Sections(t) /\ skip[t] \cup S \in SUBSET Nat
      BY <1>1, <1>2, SectionsFinite
<1>4. skip' \in [Threads -> SUBSET Nat]
      BY <1>1, <1>2, <1>3
<1>5. skip'[t] = skip[t] \cup S /\ \A u \in Threads : u # t => skip'[u] = skip[u]
      BY <1>1, <1>2
<1> QED
      BY <1>2, <1>3, <1>4, <1>5

\* One more execution of a section.
LEMMA OneMore ==
    ASSUME WorkInv, NEW t \in Threads, NEW s \in Sections(t),
           done' = [done EXCEPT ![t][s] = @ + 1]
    PROVE  /\ done' = [u \in Threads |-> done'[u]]
           /\ \A u \in Threads : done'[u] \in [Sections(u) -> Nat]
           /\ done[t][s] \in Nat /\ done'[t][s] = done[t][s] + 1
           /\ \A u \in Threads : \A r \in Sections(u) :
                 u # t \/ r # s => done'[u][r] = done[u][r]
<1>1. done = [u \in Threads |-> done[u]] /\ \A u \in Threads : done[u] \in [Sections(u) -> Nat]
      BY DEF WorkInv, WorkTypes
<1>2. done[t] \in [Sections(t) -> Nat] /\ done[t][s] \in Nat
      BY <1>1
<1> DEFINE d == [done[t] EXCEPT ![s] = done[t][s] + 1]
<1>3. /\ d \in [Sections(t) -> Nat] /\ d[s] = done[t][s] + 1
      /\ \A r \in Sections(t) : r # s => d[r] = done[t][r]
      BY <1>2
<1>4. done' = [done EXCEPT ![t] = d]
      OBVIOUS
<1> HIDE DEF d
<1>5. done' = [u \in Threads |-> IF u = t THEN d ELSE done[u]]
      BY <1>1, <1>4
<1>6. done'[t] = d /\ \A u \in Threads : u # t => done'[u] = done[u]
      BY <1>5
<1>7. done' = [u \in Threads |-> done'[u]]
      BY <1>5
<1> QED
      BY <1>1, <1>2, <1>3, <1>6, <1>7

LEMMA CallbackInlineWork ==
    ASSUME WorkInv, NEW t \in Threads, CallbackInline(t)
    PROVE  WorkInv'
<1>1. /\ pc[t] = "incallback" /\ Callback(t, chosen[t][1]) /\ NextOrder(t, 1)
      /\ UNCHANGED <<poolVars, chosen, fill, verified, done, leaked, refused, overlap, early>>
      BY DEF CallbackInline, flags, wakeFlags
<1>2. Turn(t)
      BY <1>1 DEF WorkInv, Turns, InTurn
<1>3. Len(chosen[t]) = 1 /\ DOMAIN chosen[t] = 1..1
      BY <1>1, <1>2, PoolGraphs DEF Turn
<1>4. 1 \in DOMAIN chosen[t] /\ \A k \in DOMAIN chosen[t] : k = 1
      BY <1>3
<1>5. chosen[t][1] \in Sections(t)
      BY <1>2, <1>4 DEF Turn
<1>6. ~overlap => /\ \A i \in Slots : pool[i].graph = t => t \in early
                  /\ \A k \in DOMAIN chosen[t] : done[t][chosen[t][k]] = 1
      BY <1>1, <1>4, PoolGraphs DEF WorkInv, Separate, InPool, Belongs, Runs
<1>7. /\ skip' \in [Threads -> SUBSET Nat]
      /\ \A u \in Threads : /\ skip[u] \subseteq skip'[u] /\ skip'[u] \subseteq Sections(u)
                            /\ u # t => skip'[u] = skip[u]
      BY <1>1, <1>5, CallbackSkips
<1>8. 1 \in {0, Len(chosen[t])}
      BY <1>3
<1> QED
      BY <1>1, <1>6, <1>7, <1>8, EndTurn

LEMMA RunInlineWork == ASSUME WorkInv, NEW t \in Threads, RunInline(t) PROVE WorkInv'
<1> DEFINE s == chosen[t][1]
<1>1. /\ pc[t] = "inline" /\ done' = [done EXCEPT ![t][s] = @ + 1]
      /\ pc' = [pc EXCEPT ![t] = "incallback"]
      /\ UNCHANGED <<collectors, pool, completed, kgwSem, order, chosen, fill, numRun, verified,
                     skip, leaked, refused, overlap, early>>
      BY DEF RunInline, Goto, poolVars, localVars, flags, wakeFlags
<1>2. Turn(t)
      BY <1>1 DEF WorkInv, Turns, InTurn
<1>3. 1 \in DOMAIN chosen[t]
      BY <1>1, <1>2, PoolGraphs DEF Turn
<1>4. s \in Sections(t) /\ Orders[t][s] = order[t]
      BY <1>2, <1>3 DEF Turn
<1>5. /\ done' = [u \in Threads |-> done'[u]]
      /\ \A u \in Threads : done'[u] \in [Sections(u) -> Nat]
      /\ done[t][s] \in Nat /\ done'[t][s] = done[t][s] + 1
      /\ \A u \in Threads : \A r \in Sections(u) :
            u # t \/ r # s => done'[u][r] = done[u][r]
      BY <1>1, <1>4, OneMore
<1>6. pc \in [Threads -> Pcs]
      BY DEF WorkInv, WorkTypes
<1>7. /\ pc' \in [Threads -> Pcs] /\ pc'[t] = "incallback"
      /\ \A u \in Threads : u # t => pc'[u] = pc[u]
      BY <1>1, <1>6 DEF Pcs
<1> HIDE DEF s
<1>8. WorkTypes'
      BY <1>1, <1>5, <1>7 DEF WorkInv, WorkTypes
<1>9. Turns'
      <2>1. \A u \in Threads : pc'[u] \in InTurn => pc[u] \in InTurn
            BY <1>1, <1>7 DEF InTurn
      <2> QED
            BY <1>1, <1>7, <2>1 DEF WorkInv, Turns, Turn, IsChosen
<1>10. Semaphore'
      BY <1>1 DEF WorkInv, Semaphore, Pending
<1>11. ASSUME ~overlap'
       PROVE  Separate'
      <2>1. Separate
            BY <1>1, <1>11 DEF WorkInv
      <2>2. done[t][s] = 0 /\ done'[t][s] = 1
            BY <1>1, <1>4, <1>5, <2>1 DEF Separate, Runs, Before
      <2>3. \A i \in Slots : pool[i] # Empty =>
                /\ pool[i].graph \in Threads /\ pool[i].section \in Sections(pool[i].graph)
                /\ pool[i].graph # t \/ pool[i].section # s
            <3>1. \A r \in Sections(t) : Belongs(t, r) => r # s
                  BY <1>1, <1>4, SectionsFinite DEF Belongs
            <3> QED
                  BY <2>1, <3>1, PoolGraphs DEF Separate, InPool
      <2>4. Filled'
            BY <1>1, <1>7, <2>1 DEF Separate, Filled, InFill
      <2>5. InPool'
            <3>1. ASSUME NEW u \in Threads, NEW r \in Sections(u), Belongs(u, r)
                  PROVE  Belongs(u, r)'
                  BY <1>1, <1>7, <3>1 DEF Belongs, IsChosen
            <3>2. \A i \in Slots : pool[i] # Empty =>
                      done'[pool[i].graph][pool[i].section] = done[pool[i].graph][pool[i].section]
                  BY <1>5, <2>3
            <3> QED
                  BY <1>1, <2>1, <2>3, <3>1, <3>2 DEF Separate, InPool
      <2>6. Awaited'
            <3>1. \A u \in Threads : pc'[u] \in {"wait", "blocked", "woken"} =>
                      /\ u # t /\ pc'[u] = pc[u] /\ Turn(u)
                  BY <1>7 DEF WorkInv, Turns, InTurn
            <3> QED
                  BY <1>1, <1>5, <2>1, <3>1 DEF Separate, Awaited, Turn
      <2>7. Runs'
            <3>1. ASSUME NEW u \in Threads, NEW r \in Sections(u)
                  PROVE  /\ done'[u][r] <= 1
                         /\ Orders[u][r] > order[u] => done'[u][r] = 0
                         /\ pc'[u] \in Before /\ Orders[u][r] = order[u] => done'[u][r] = 0
                  <4>1. CASE u = t /\ r = s
                        <5>1. ~(Orders[t][s] > order[t])
                              BY <1>4, SectionsFinite
                        <5> QED
                              BY <1>7, <2>2, <4>1, <5>1 DEF Before
                  <4>2. CASE u = t /\ r # s
                        BY <1>5, <1>7, <2>1, <3>1, <4>2 DEF Separate, Runs, Before
                  <4>3. CASE u # t
                        BY <1>5, <1>7, <2>1, <3>1, <4>3 DEF Separate, Runs
                  <4> QED
                        BY <4>1, <4>2, <4>3
            <3>2. ASSUME NEW u \in Threads, pc'[u] = "incallback"
                  PROVE  done'[u][chosen[u][1]] = 1
                  <4>1. CASE u = t
                        BY <2>2, <4>1 DEF s
                  <4>2. CASE u # t
                        <5>1. pc[u] = "incallback" /\ Turn(u)
                              BY <1>7, <3>2, <4>2 DEF WorkInv, Turns, InTurn
                        <5>2. 1 \in DOMAIN chosen[u]
                              BY <5>1, PoolGraphs DEF Turn
                        <5>3. chosen[u][1] \in Sections(u)
                              BY <5>1, <5>2 DEF Turn
                        <5> QED
                              BY <1>5, <2>1, <4>2, <5>1, <5>3 DEF Separate, Runs
                  <4> QED
                        BY <4>1, <4>2
            <3> QED
                  BY <1>1, <3>1, <3>2 DEF Runs
      <2>8. Complete'
            <3>1. \A u \in Threads : \A r \in Sections(u) : Orders[u][r] < order[u] =>
                      u # t \/ r # s
                  BY <1>4, SectionsFinite
            <3>2. \A u \in Threads : \A r \in Sections(u) : Orders[u][r] < order[u] =>
                      done'[u][r] = done[u][r]
                  BY <1>5, <3>1
            <3>3. \A u \in Threads : Past(u)' = Past(u)
                  BY <1>1, <3>2 DEF Past
            <3> QED
                  BY <1>1, <2>1, <3>2, <3>3 DEF Separate, Complete
      <2> QED
            BY <2>4, <2>5, <2>6, <2>7, <2>8 DEF Separate
<1> QED
      BY <1>8, <1>9, <1>10, <1>11 DEF WorkInv

-----------------------------------------------------------------------------
\* A worker takes an item, or finishes it and enters the callback.  Both leave the
\* item in its slot.
LEMMA ItemAdvances ==
    ASSUME WorkInv, NEW i \in Slots, NEW v \in {"running", "callback"},
           pool[i] # Empty, pool' = [pool EXCEPT ![i].st = v]
    PROVE  /\ pool' \in [Slots -> Items]
           /\ pool'[i] # Empty /\ pool'[i].st = v
           /\ pool'[i].graph = pool[i].graph /\ pool'[i].section = pool[i].section
           /\ \A j \in Slots : j # i => pool'[j] = pool[j]
           /\ \A j \in Slots : /\ pool'[j] # Empty <=> pool[j] # Empty
                               /\ pool'[j].graph = pool[j].graph
                               /\ pool'[j].section = pool[j].section
           /\ ~completed
<1> DEFINE x == pool[i]
           y == [x EXCEPT !.st = v]
<1>1. pool \in [Slots -> Items] /\ x \in Items /\ x # Empty
      BY DEF WorkInv, WorkTypes
<1>2. pool' = [pool EXCEPT ![i] = y]
      OBVIOUS
<1> HIDE DEF x
<1>3. y \in Items /\ y # Empty /\ y.graph = x.graph /\ y.section = x.section /\ y.st = v
      BY <1>1, ItemMoves
<1> HIDE DEF y
<1>4. /\ pool' \in [Slots -> Items] /\ pool'[i] = y
      /\ \A j \in Slots : j # i => pool'[j] = pool[j]
      BY <1>1, <1>2, <1>3
<1>5. ~completed
      BY DEF WorkInv, Semaphore, Pending
<1> QED
      BY <1>3, <1>4, <1>5 DEF x

LEMMA WorkerStartWork == ASSUME WorkInv, NEW i \in Slots, WorkerStart(i) PROVE WorkInv'
<1>1. /\ pool[i].st = "queued" /\ pool' = [pool EXCEPT ![i].st = "running"]
      /\ UNCHANGED <<collectors, completed, kgwSem, pc, order, chosen, fill, numRun, verified,
                     skip, done, leaked, refused, overlap, early>>
      BY DEF WorkerStart, localVars, graphVars, flags, wakeFlags
<1>2. pool[i] # Empty
      BY <1>1, ItemFacts
<1>3. /\ pool' \in [Slots -> Items] /\ pool'[i] # Empty /\ pool'[i].st = "running"
      /\ \A j \in Slots : j # i => pool'[j] = pool[j]
      /\ \A j \in Slots : /\ pool'[j] # Empty <=> pool[j] # Empty
                          /\ pool'[j].graph = pool[j].graph
                          /\ pool'[j].section = pool[j].section
      /\ ~completed
      BY <1>1, <1>2, ItemAdvances
<1>4. \A j \in Slots : pool'[j].st = "callback" <=> pool[j].st = "callback"
      BY <1>1, <1>3
<1>5. WorkTypes'
      BY <1>1, <1>3 DEF WorkInv, WorkTypes
<1>6. Turns'
      BY <1>1 DEF WorkInv, Turns, Turn, IsChosen
<1>7. Semaphore'
      BY <1>1, <1>3, <1>4 DEF WorkInv, Semaphore
<1>8. ASSUME ~overlap'
      PROVE  Separate'
      <2>1. Separate
            BY <1>1, <1>8 DEF WorkInv
      <2>2. Filled'
            BY <1>1, <2>1 DEF Separate, Filled, InFill
      <2>3. InPool'
            BY <1>1, <1>3, <1>4, <2>1 DEF Separate, InPool, Belongs, IsChosen
      <2>4. Awaited'
            BY <1>1, <1>3, <2>1 DEF Separate, Awaited
      <2>5. Runs'
            BY <1>1, <2>1 DEF Separate, Runs
      <2>6. Complete'
            BY <1>1, <2>1 DEF Separate, Complete, Past
      <2> QED
            BY <2>2, <2>3, <2>4, <2>5, <2>6 DEF Separate
<1> QED
      BY <1>5, <1>6, <1>7, <1>8 DEF WorkInv

LEMMA WorkerCallbackWork == ASSUME WorkInv, NEW i \in Slots, WorkerCallback(i) PROVE WorkInv'
<1> DEFINE t == pool[i].graph
           s == pool[i].section
<1>1. /\ pool[i].st = "running" /\ pool' = [pool EXCEPT ![i].st = "callback"]
      /\ kgwSem = Free /\ kgwSem' = i /\ done' = [done EXCEPT ![t][s] = @ + 1]
      /\ UNCHANGED <<collectors, completed, pc, order, chosen, fill, numRun, verified, skip,
                     leaked, refused, overlap, early>>
      BY DEF WorkerCallback, CallbackMayStart, localVars, flags, wakeFlags
<1>2. pool[i] # Empty
      BY <1>1, ItemFacts
<1>3. /\ pool' \in [Slots -> Items] /\ pool'[i] # Empty /\ pool'[i].st = "callback"
      /\ \A j \in Slots : j # i => pool'[j] = pool[j]
      /\ \A j \in Slots : /\ pool'[j] # Empty <=> pool[j] # Empty
                          /\ pool'[j].graph = pool[j].graph
                          /\ pool'[j].section = pool[j].section
      /\ ~completed
      BY <1>1, <1>2, ItemAdvances
<1>4. t \in Threads /\ s \in Sections(t)
      BY <1>2, PoolGraphs
<1>5. /\ done' = [u \in Threads |-> done'[u]]
      /\ \A u \in Threads : done'[u] \in [Sections(u) -> Nat]
      /\ done[t][s] \in Nat /\ done'[t][s] = done[t][s] + 1
      /\ \A u \in Threads : \A r \in Sections(u) :
            u # t \/ r # s => done'[u][r] = done[u][r]
      BY <1>1, <1>4, OneMore
<1>6. \A j \in Slots : pool[j].st # "callback"
      BY <1>1, GraphAssumption DEF WorkInv, Semaphore
<1>7. WorkTypes'
      BY <1>1, <1>3, <1>5 DEF WorkInv, WorkTypes
<1>8. Turns'
      BY <1>1 DEF WorkInv, Turns, Turn, IsChosen
<1>9. Semaphore'
      <2>1. \A j \in Slots : pool'[j].st = "callback" <=> kgwSem' = j
            BY <1>1, <1>3, <1>6
      <2> QED
            BY <1>1, <1>3, <2>1 DEF WorkInv, Semaphore
<1>10. ASSUME ~overlap'
       PROVE  Separate'
      <2>1. Separate
            BY <1>1, <1>10 DEF WorkInv
      <2>2. Belongs(t, s) /\ done[t][s] = 0
            BY <1>1, <1>2, <2>1 DEF Separate, InPool
      <2>3. done'[t][s] = 1
            BY <1>5, <2>2
      <2>4. \/ Orders[t][s] = order[t] /\ pc[t] \in {"wait", "blocked", "woken"}
            \/ Orders[t][s] < order[t]
            BY <1>4, <2>2 DEF Belongs, WorkInv, Turns, InTurn, Turn, IsChosen
      <2>5. \A j \in Slots : pool[j] # Empty /\ j # i =>
                /\ pool[j].graph \in Threads /\ pool[j].section \in Sections(pool[j].graph)
                /\ pool[j].graph # t \/ pool[j].section # s
            BY <1>2, <2>1, PoolGraphs DEF Separate, InPool
      <2> HIDE DEF t, s
      <2>6. Filled'
            BY <1>1, <2>1 DEF Separate, Filled, InFill
      <2>7. InPool'
            <3>1. ASSUME NEW j \in Slots, pool'[j] # Empty
                  PROVE  /\ Belongs(pool[j].graph, pool[j].section)
                         /\ done'[pool[j].graph][pool[j].section] =
                               IF pool'[j].st = "callback" THEN 1 ELSE 0
                  <4>1. CASE j = i
                        BY <1>3, <2>2, <2>3, <4>1 DEF t, s
                  <4>2. CASE j # i
                        <5>1. pool'[j] = pool[j] /\ pool[j] # Empty
                              BY <1>3, <3>1, <4>2
                        <5>2. done'[pool[j].graph][pool[j].section] =
                                 done[pool[j].graph][pool[j].section]
                              BY <1>5, <2>5, <4>2, <5>1
                        <5> QED
                              BY <2>1, <5>1, <5>2 DEF Separate, InPool
                  <4> QED
                        BY <4>1, <4>2
            <3>2. ASSUME NEW j \in Slots, NEW l \in Slots, pool'[j] # Empty, pool'[l] # Empty,
                         pool'[j].graph = pool'[l].graph, pool'[j].section = pool'[l].section
                  PROVE  j = l
                  BY <1>3, <2>1, <3>2 DEF Separate, InPool
            <3> QED
                  BY <1>1, <1>3, <3>1, <3>2 DEF InPool, Belongs, IsChosen
      <2>8. Awaited'
            <3>1. \A u \in Threads : \A r \in Sections(u) : done[u][r] = 1 => done'[u][r] = 1
                  BY <1>5, <2>2, <2>3
            <3>2. ASSUME NEW u \in Threads, pc[u] \in {"wait", "blocked", "woken"},
                         NEW k \in DOMAIN chosen[u]
                  PROVE  chosen[u][k] \in Sections(u)
                  BY <3>2 DEF WorkInv, Turns, InTurn, Turn
            <3> QED
                  BY <1>1, <1>3, <2>1, <3>1, <3>2 DEF Separate, Awaited
      <2>9. Runs'
            <3>1. ASSUME NEW u \in Threads, NEW r \in Sections(u)
                  PROVE  /\ done'[u][r] <= 1
                         /\ Orders[u][r] > order[u] => done'[u][r] = 0
                         /\ pc[u] \in Before /\ Orders[u][r] = order[u] => done'[u][r] = 0
                  <4>1. CASE u = t /\ r = s
                        <5>1. /\ ~(Orders[t][s] > order[t])
                              /\ Orders[t][s] = order[t] => pc[t] \in {"wait", "blocked", "woken"}
                              BY <1>4, <2>4, SectionsFinite DEF t, s, WorkInv, WorkTypes
                        <5> QED
                              BY <2>3, <4>1, <5>1 DEF Before
                  <4>2. CASE u # t \/ r # s
                        BY <1>5, <2>1, <3>1, <4>2 DEF Separate, Runs
                  <4> QED
                        BY <4>1, <4>2
            <3>2. ASSUME NEW u \in Threads, pc[u] = "incallback"
                  PROVE  done'[u][chosen[u][1]] = 1
                  <4>1. Turn(u)
                        BY <3>2 DEF WorkInv, Turns, InTurn
                  <4>2. 1 \in DOMAIN chosen[u]
                        BY <3>2, <4>1, PoolGraphs DEF Turn
                  <4>3. chosen[u][1] \in Sections(u) /\ Orders[u][chosen[u][1]] = order[u]
                        BY <4>1, <4>2 DEF Turn
                  <4>4. u # t \/ chosen[u][1] # s
                        BY <2>4, <3>2, <4>3, SectionsFinite
                  <4> QED
                        BY <1>5, <2>1, <3>2, <4>3, <4>4 DEF Separate, Runs
            <3> QED
                  BY <1>1, <3>1, <3>2 DEF Runs
      <2>10. Complete'
            <3>1. \A u \in Threads : \A r \in Sections(u) : done[u][r] > 0 => done'[u][r] > 0
                  BY <1>5, <2>3
            <3>2. ASSUME NEW u \in Threads, numRun[u] <= Cardinality(Past(u))
                  PROVE  numRun[u] <= Cardinality(Past(u)')
                  <4> DEFINE P == Past(u)
                             Q == Past(u)'
                  <4>1. P \in SUBSET Q /\ Q \in SUBSET Sections(u)
                        BY <1>1, <3>1 DEF Past
                  <4> HIDE DEF P, Q
                  <4>2. IsFiniteSet(Q)
                        BY <4>1, SectionsFinite, FS_Subset
                  <4>3. IsFiniteSet(P) /\ Cardinality(P) <= Cardinality(Q)
                        BY <4>1, <4>2, FS_Subset
                  <4>4. Cardinality(P) \in Nat /\ Cardinality(Q) \in Nat /\ numRun[u] \in Nat
                        BY <4>2, <4>3, FS_CardinalityType DEF WorkInv, WorkTypes
                  <4> QED
                        BY <3>2, <4>3, <4>4 DEF P, Q
            <3> QED
                  BY <1>1, <2>1, <3>1, <3>2 DEF Separate, Complete
      <2> QED
            BY <2>6, <2>7, <2>8, <2>9, <2>10 DEF Separate
<1> QED
      BY <1>7, <1>8, <1>9, <1>10 DEF WorkInv

\* The item leaves the pool; the last one to leave wakes whoever waits.
LEMMA WorkerDoneWork == ASSUME WorkInv, NEW i \in Slots, WorkerDone(i) PROVE WorkInv'
<1> DEFINE t == pool[i].graph
           s == pool[i].section
<1>1. /\ pool[i].st = "callback" /\ Callback(t, s) /\ kgwSem' = Free
      /\ pool' = [pool EXCEPT ![i] = Empty] /\ completed' = (completed \/ Pending(pool') = {})
      /\ pc' = [u \in Threads |-> IF pc[u] = "blocked" /\ Pending(pool') = {}
                                    THEN "woken" ELSE pc[u]]
      /\ UNCHANGED <<collectors, order, chosen, fill, numRun, verified, done, leaked, refused,
                     overlap, early>>
      BY DEF WorkerDone, WakesSleepers, localVars, flags, wakeFlags
<1>2. pool[i] # Empty
      BY <1>1, ItemFacts
<1>3. t \in Threads /\ s \in Sections(t)
      BY <1>2, PoolGraphs
<1>4. /\ skip' \in [Threads -> SUBSET Nat]
      /\ \A u \in Threads : skip[u] \subseteq skip'[u] /\ skip'[u] \subseteq Sections(u)
      BY <1>1, <1>3, CallbackSkips
<1>5. /\ pool' \in [Slots -> Items] /\ pool'[i] = Empty
      /\ \A j \in Slots : j # i => pool'[j] = pool[j]
      BY <1>1, ItemFacts DEF WorkInv, WorkTypes
<1>6. /\ pc' \in [Threads -> Pcs]
      /\ \A u \in Threads : \/ pc'[u] = pc[u]
                            \/ pc[u] = "blocked" /\ pc'[u] = "woken" /\ Pending(pool') = {}
      BY <1>1 DEF WorkInv, WorkTypes, Pcs
<1>7. kgwSem = i /\ ~completed
      BY <1>1, <1>2 DEF WorkInv, Semaphore, Pending
<1>8. completed' \in BOOLEAN
      BY <1>1
<1>9. WorkTypes'
      BY <1>1, <1>4, <1>5, <1>6, <1>8 DEF WorkInv, WorkTypes
<1>10. Turns'
      <2>1. \A u \in Threads : pc'[u] \in InTurn =>
                /\ pc[u] \in InTurn
                /\ pc'[u] \in {"inline", "incallback", "fill", "issue"} => pc'[u] = pc[u]
            BY <1>6 DEF InTurn
      <2>2. ASSUME NEW u \in Threads, pc'[u] \in InTurn
            PROVE  Turn(u)'
            <3>1. Turn(u)
                  BY <2>1, <2>2 DEF WorkInv, Turns
            <3>2. \A r \in Sections(u) : Orders[u][r] = order'[u] /\ r \notin skip'[u] =>
                      IsChosen(u, r)'
                  BY <1>1, <1>4, <3>1 DEF Turn, IsChosen
            <3>3. /\ \A k \in DOMAIN chosen'[u] :
                        chosen'[u][k] \in Sections(u) /\ Orders[u][chosen'[u][k]] = order'[u]
                  /\ \A k, l \in DOMAIN chosen'[u] : chosen'[u][k] = chosen'[u][l] => k = l
                  BY <1>1, <3>1 DEF Turn
            <3>4. /\ pc'[u] \in {"inline", "incallback"} => Len(chosen'[u]) = 1
                  /\ pc'[u] = "fill" => fill'[u] \in 1 .. Len(chosen'[u])
                  /\ pc'[u] = "issue" => fill'[u] = Len(chosen'[u]) + 1
                  BY <1>1, <2>1, <2>2, <3>1 DEF Turn
            <3> QED
                  BY <3>2, <3>3, <3>4 DEF Turn
      <2> QED
            BY <2>2 DEF Turns
<1>11. Semaphore'
      <2>1. \A j \in Slots : pool'[j].st # "callback" /\ kgwSem' # j
            BY <1>1, <1>5, <1>7, ItemFacts, GraphAssumption DEF WorkInv, Semaphore
      <2>2. completed' => Pending(pool') = {}
            BY <1>1, <1>7
      <2> QED
            BY <1>1, <2>1, <2>2 DEF WorkInv, Semaphore
<1>12. ASSUME ~overlap'
       PROVE  Separate'
      <2>1. Separate
            BY <1>1, <1>12 DEF WorkInv
      <2>2. done[t][s] = 1
            BY <1>1, <1>2, <2>1 DEF Separate, InPool
      <2>3. Filled'
            BY <1>1, <1>6, <2>1 DEF Separate, Filled, InFill
      <2>4. \A j \in Slots : pool'[j] # Empty =>
                j # i /\ pool'[j] = pool[j] /\ \A u \in Threads : pc'[u] = pc[u]
            BY <1>5, <1>6 DEF Pending
      <2>5. InPool'
            <3>1. ASSUME NEW j \in Slots, pool'[j] # Empty
                  PROVE  /\ Belongs(pool[j].graph, pool[j].section)'
                         /\ done'[pool'[j].graph][pool'[j].section] =
                               IF pool'[j].st = "callback" THEN 1 ELSE 0
                  <4>1. pool'[j] = pool[j] /\ pool[j] # Empty /\ pool[j].graph \in Threads
                        BY <2>4, <3>1, PoolGraphs
                  <4>2. /\ Belongs(pool[j].graph, pool[j].section)
                        /\ done[pool[j].graph][pool[j].section] =
                              IF pool[j].st = "callback" THEN 1 ELSE 0
                        BY <2>1, <4>1 DEF Separate, InPool
                  <4>3. ASSUME NEW u \in Threads, NEW r, Belongs(u, r)
                        PROVE  Belongs(u, r)'
                        <5>1. /\ pc'[u] = pc[u] /\ chosen'[u] = chosen[u] /\ order'[u] = order[u]
                              /\ early' = early
                              BY <1>1, <2>4, <3>1
                        <5> QED
                              BY <4>3, <5>1 DEF Belongs, IsChosen
                  <4>4. Belongs(pool[j].graph, pool[j].section)'
                        BY <4>1, <4>2, <4>3
                  <4> QED
                        BY <1>1, <4>1, <4>2, <4>4
            <3>2. ASSUME NEW j \in Slots, NEW l \in Slots, pool'[j] # Empty, pool'[l] # Empty,
                         pool'[j].graph = pool'[l].graph, pool'[j].section = pool'[l].section
                  PROVE  j = l
                  BY <2>1, <2>4, <3>2 DEF Separate, InPool
            <3> QED
                  BY <3>1, <3>2 DEF InPool
      <2>6. Awaited'
            <3>1. ASSUME NEW u \in Threads, u \notin refused,
                         pc'[u] \in {"wait", "blocked", "woken"}, NEW k \in DOMAIN chosen[u]
                  PROVE  \/ done[u][chosen[u][k]] = 1
                         \/ \E j \in Slots :
                               pool'[j].graph = u /\ pool'[j].section = chosen[u][k]
                  <4>1. pc[u] \in {"wait", "blocked", "woken"}
                        BY <1>6, <3>1
                  <4>2. \/ done[u][chosen[u][k]] = 1
                        \/ \E j \in Slots : pool[j].graph = u /\ pool[j].section = chosen[u][k]
                        BY <2>1, <3>1, <4>1 DEF Separate, Awaited
                  <4> QED
                        BY <1>5, <2>2, <4>2
            <3> QED
                  BY <1>1, <3>1 DEF Awaited
      <2>7. Runs'
            <3>1. \A u \in Threads : /\ pc'[u] \in Before => pc[u] \in Before
                                     /\ pc'[u] = "incallback" => pc[u] = "incallback"
                  BY <1>6 DEF Before
            <3> QED
                  BY <1>1, <2>1, <3>1 DEF Separate, Runs
      <2>8. Complete'
            BY <1>1, <1>4, <2>1 DEF Separate, Complete, Past
      <2> QED
            BY <2>3, <2>5, <2>6, <2>7, <2>8 DEF Separate
<1> QED
      BY <1>9, <1>10, <1>11, <1>12 DEF WorkInv

\* A thread asleep in threadpool_complete wakes by itself: what is in the pool stays.
LEMMA WakesByItselfWork == ASSUME WorkInv, NEW t \in Threads, WakesByItself(t) PROVE WorkInv'
<1>1. /\ pc[t] = "blocked" /\ pc' = [pc EXCEPT ![t] = "woken"] /\ early' = early \cup {t}
      /\ UNCHANGED <<collectors, pool, completed, kgwSem, order, chosen, fill, numRun, verified,
                     skip, done, leaked, refused, overlap>>
      BY DEF WakesByItself, Goto, poolVars, localVars, graphVars
<1>2. pc \in [Threads -> Pcs]
      BY DEF WorkInv, WorkTypes
<1>3. /\ pc' \in [Threads -> Pcs] /\ pc'[t] = "woken"
      /\ \A u \in Threads : u # t => pc'[u] = pc[u]
      BY <1>1, <1>2 DEF Pcs
<1>4. \A u \in Threads :
          /\ pc'[u] \in InTurn => pc[u] \in InTurn
          /\ pc'[u] # "woken" => pc'[u] = pc[u]
          /\ pc'[u] = "woken" => pc[u] \in {"blocked", "woken"}
      BY <1>1, <1>3 DEF InTurn
<1>5. WorkTypes'
      <2>1. early' \subseteq Threads
            BY <1>1 DEF WorkInv, WorkTypes
      <2> QED
            BY <1>1, <1>3, <2>1 DEF WorkInv, WorkTypes
<1>6. Turns'
      BY <1>1, <1>4 DEF WorkInv, Turns, Turn, IsChosen
<1>7. Semaphore'
      BY <1>1 DEF WorkInv, Semaphore, Pending
<1>8. ASSUME ~overlap'
      PROVE  Separate'
      <2>1. Separate
            BY <1>1, <1>8 DEF WorkInv
      <2>2. Filled'
            BY <1>1, <1>4, <2>1 DEF Separate, Filled, InFill
      <2>3. InPool'
            <3>1. ASSUME NEW u \in Threads, NEW s \in Sections(u), Belongs(u, s)
                  PROVE  Belongs(u, s)'
                  BY <1>1, <1>3, <3>1 DEF Belongs, IsChosen
            <3> QED
                  BY <1>1, <2>1, <3>1, PoolGraphs DEF Separate, InPool
      <2>4. Awaited'
            BY <1>1, <1>4, <2>1 DEF Separate, Awaited
      <2>5. Runs'
            BY <1>1, <1>4, <2>1 DEF Separate, Runs, Before
      <2>6. Complete'
            <3>1. \A u \in Threads : u \notin early' => u \notin early
                  BY <1>1
            <3> QED
                  BY <1>1, <2>1, <3>1 DEF Separate, Complete, Past
      <2> QED
            BY <2>2, <2>3, <2>4, <2>5, <2>6 DEF Separate
<1> QED
      BY <1>5, <1>6, <1>7, <1>8 DEF WorkInv

-----------------------------------------------------------------------------
LEMMA InitWork == Init => WorkInv
<1> SUFFICES ASSUME Init
             PROVE  WorkInv
      OBVIOUS
<1>1. /\ \A i \in Slots : pool[i] = Empty
      /\ \A g \in 1..MaxSections : collectors[g] = Empty
      /\ \A t \in Threads : /\ pc[t] = "idle" /\ chosen[t] = << >> /\ numRun[t] = 0
                            /\ order[t] = 0 /\ skip[t] = {}
      BY DEF Init
<1>2. \A t \in Threads : \A s \in Sections(t) : done[t][s] = 0
      BY DEF Init
<1>3. WorkTypes
      <2>1. collectors \in [1..MaxSections -> Items] /\ pool \in [Slots -> Items]
            BY ItemFacts DEF Init
      <2>2. /\ completed \in BOOLEAN /\ kgwSem \in Slots \cup {Free} /\ overlap \in BOOLEAN
            /\ leaked \subseteq Threads /\ refused \subseteq Threads /\ early \subseteq Threads
            BY DEF Init
      <2>3. pc \in [Threads -> Pcs] /\ verified \in [Threads -> BOOLEAN]
            BY DEF Init, Pcs
      <2>4. skip \in [Threads -> SUBSET Nat] /\ \A t \in Threads : skip[t] \subseteq Sections(t)
            BY <1>1 DEF Init
      <2>5. fill \in [Threads -> 1 .. MaxSections + 1]
            <3>1. 1 \in 1 .. MaxSections + 1
                  BY GraphAssumption
            <3> QED
                  BY <3>1 DEF Init
      <2>6. /\ chosen \in [Threads -> Seq(Nat)]
            /\ \A t \in Threads : Len(chosen[t]) <= MaxSections
            <3>1. << >> \in Seq(Nat) /\ Len(<< >>) = 0 /\ 0 <= MaxSections
                  BY GraphAssumption
            <3> QED
                  BY <1>1, <3>1 DEF Init
      <2>7. order \in [Threads -> Nat] /\ numRun \in [Threads -> Nat]
            BY DEF Init
      <2>8. /\ done = [t \in Threads |-> done[t]]
            /\ \A t \in Threads : done[t] \in [Sections(t) -> Nat]
            BY DEF Init
      <2> QED
            BY <2>1, <2>2, <2>3, <2>4, <2>5, <2>6, <2>7, <2>8 DEF WorkTypes
<1>4. Turns
      BY <1>1 DEF Turns, InTurn
<1>5. Semaphore
      <2>1. kgwSem = Free /\ completed = FALSE
            BY DEF Init
      <2> QED
            BY <1>1, <2>1, ItemFacts, GraphAssumption DEF Semaphore
<1>6. Filled /\ InPool /\ Awaited
      BY <1>1 DEF Filled, InFill, InPool, Awaited
<1>7. Runs
      BY <1>1, <1>2 DEF Runs
<1>8. Complete
      <2>1. \A t \in Threads : \A s \in Sections(t) : ~(Orders[t][s] < order[t])
            BY <1>1, SectionsFinite
      <2>2. ASSUME NEW t \in Threads
            PROVE  numRun[t] <= Cardinality(Past(t))
            <3>1. Past(t) \in SUBSET Sections(t)
                  BY DEF Past
            <3>2. Cardinality(Past(t)) \in Nat
                  BY <3>1, SectionsFinite, FS_Subset, FS_CardinalityType
            <3> QED
                  BY <1>1, <3>2
      <2> QED
            BY <2>1, <2>2 DEF Complete
<1> QED
      BY <1>3, <1>4, <1>5, <1>6, <1>7, <1>8 DEF WorkInv, Separate

LEMMA StepWork == WorkInv /\ [Next]_vars => WorkInv'
<1> SUFFICES ASSUME WorkInv, [Next]_vars
             PROVE  WorkInv'
      OBVIOUS
<1>1. ASSUME NEW t \in Threads, Enter(t) \/ ThreadStep(t)
      PROVE  WorkInv'
      BY <1>1, OutsideWork, ScanWork, FillWork, IssueWork, WaitWork, RunInlineWork,
         CallbackInlineWork DEF ThreadStep
<1>2. ASSUME NEW i \in Slots, WorkerStep(i)
      PROVE  WorkInv'
      BY <1>2, WorkerStartWork, WorkerCallbackWork, WorkerDoneWork DEF WorkerStep
<1>3. ASSUME UNCHANGED <<poolVars, pc, localVars, graphVars, leaked, refused, overlap, early>>
      PROVE  WorkInv'
      <2>1. UNCHANGED <<skip, done, refused, overlap, verified, leaked, early, pc>>
            BY <1>3 DEF graphVars
      <2> QED
            BY <1>3, <2>1, QuietStep DEF WorkInv, WorkTypes
<1>4. DeinitWait \/ DeinitWakesByItself \/ DeinitDisable \/ DeinitFree \/ UNCHANGED vars =>
          UNCHANGED <<poolVars, pc, localVars, graphVars, leaked, refused, overlap, early>>
      BY DEF DeinitWait, DeinitWakesByItself, DeinitDisable, DeinitFree, vars, flags, wakeFlags
<1>5. ASSUME NEW t \in Threads, WakesByItself(t)
      PROVE  WorkInv'
      BY <1>5, WakesByItselfWork
<1> QED
      BY <1>1, <1>2, <1>3, <1>4, <1>5 DEF Next, Progress, DeinitStep, SpuriousWakeUp, Stopped

\* The invariant of the work.
THEOREM WorkInvariant == Spec => []WorkInv
<1>1. Init => WorkInv
      BY InitWork
<1>2. WorkInv /\ [Next]_vars => WorkInv'
      BY StepWork
<1> QED
      BY <1>1, <1>2, PTL DEF Spec

\* The type invariant of the graph API: the collectors and the chosen sections stay
\* within MAX_SECTIONS, and m_count never goes below zero.
THEOREM GraphTypeOK == Spec => []TypeOK
<1>1. LockInv /\ WorkInv => TypeOK
      <2> SUFFICES ASSUME LockInv, WorkInv
                   PROVE  TypeOK
            OBVIOUS
      <2>1. /\ m_enabled \in BOOLEAN /\ m_count \in Nat /\ m_wait \in BOOLEAN
            /\ dpc \in {"none", "blocked", "woken", "destroy", "freed"}
            /\ holding \subseteq Threads
            BY DEF LockInv
      <2>2. WorkTypes
            BY DEF WorkInv
      <2>3. \A t \in Threads : /\ fill[t] \in 1 .. MaxSections + 1
                               /\ order[t] \in Nat /\ numRun[t] \in Nat
            BY <2>2 DEF WorkTypes
      <2> QED
            BY <2>1, <2>2, <2>3 DEF TypeOK, WorkTypes
<1> QED
      BY <1>1, LockInvariant, WorkInvariant, PTL

\* Workers enter the clients' callbacks one at a time, holding workData.sem, and the
\* callback of a graph is entered for one section at a time, by a worker or inline by
\* the caller, unless two threads were filling the static collectors at once or the
\* caller's wait for the pool ended by itself.
THEOREM CallbackExclusiveHolds == Spec => []CallbackExclusive
<1>1. WorkInv => CallbackExclusive
      <2> SUFFICES ASSUME WorkInv
                   PROVE  CallbackExclusive
            OBVIOUS
      <2> DEFINE All == {i \in Slots : pool[i].st = "callback"}
      <2>1. ASSUME NEW S, S \in SUBSET All
            PROVE  Cardinality(S) <= 1 /\ Cardinality(S) \in Nat
            <3>1. S \in SUBSET {kgwSem}
                  BY <2>1 DEF WorkInv, Semaphore
            <3>2. IsFiniteSet({kgwSem}) /\ Cardinality({kgwSem}) = 1
                  BY FS_Singleton
            <3> QED
                  BY <3>1, <3>2, FS_Subset, FS_CardinalityType
      <2>2. ASSUME ~overlap, NEW t \in Threads \ early
            PROVE  Cardinality(InCallback(t)) + (IF pc[t] = "incallback" THEN 1 ELSE 0) <= 1
            <3>1. InCallback(t) \in SUBSET All
                  BY DEF InCallback
            <3>2. CASE pc[t] = "incallback"
                  <4>1. \A i \in Slots : pool[i].graph # t
                        BY <2>2, <3>2, PoolGraphs DEF WorkInv, Separate, InPool, Belongs
                  <4>2. InCallback(t) = {}
                        BY <4>1 DEF InCallback
                  <4> QED
                        BY <3>2, <4>2, FS_EmptySet
            <3>3. CASE pc[t] # "incallback"
                  <4> DEFINE n == Cardinality(InCallback(t))
                  <4>1. n <= 1 /\ n \in Nat
                        BY <2>1, <3>1
                  <4> HIDE DEF n
                  <4> QED
                        BY <3>3, <4>1 DEF n
            <3> QED
                  BY <3>2, <3>3
      <2>3. Cardinality(All) <= 1
            BY <2>1
      <2> QED
            BY <2>2, <2>3 DEF CallbackExclusive
<1> QED
      BY <1>1, WorkInvariant, PTL

\* A section is executing only when those of every lower order have been executed or
\* are skipped: threadpool_complete makes the orders of a graph a barrier each, as
\* long as no wait of that thread for the pool has ended by itself.
THEOREM OrderRespectedHolds == Spec => []OrderRespected
<1>1. WorkInv => OrderRespected
      <2> SUFFICES ASSUME WorkInv, ~overlap, NEW t \in Threads \ (refused \cup early),
                          NEW s \in RunningSections(t), NEW u \in Sections(t),
                          Orders[t][u] < Orders[t][s]
                   PROVE  done[t][u] > 0 \/ u \in skip[t]
            BY DEF OrderRespected
      <2>1. Separate
            BY DEF WorkInv
      <2>2. pc[t] \in InTurn /\ IsChosen(t, s)
            <3>1. CASE \E i \in Slots : pool[i].graph = t /\ pool[i].section = s
                  BY <2>1, <3>1, PoolGraphs DEF Separate, InPool, Belongs, InTurn
            <3>2. CASE pc[t] = "inline" /\ chosen[t][1] = s
                  <4>1. Turn(t)
                        BY <3>2 DEF WorkInv, Turns, InTurn
                  <4>2. 1 \in DOMAIN chosen[t]
                        BY <3>2, <4>1, PoolGraphs DEF Turn
                  <4> QED
                        BY <3>2, <4>2 DEF InTurn, IsChosen
            <3> QED
                  BY <3>1, <3>2 DEF RunningSections
      <2>3. Orders[t][s] = order[t]
            BY <2>2 DEF WorkInv, Turns, Turn, IsChosen
      <2> QED
            BY <2>1, <2>3 DEF Separate, Complete
<1> QED
      BY <1>1, WorkInvariant, PTL

\* What DVP_KernelGraph_Process returns never exceeds the sections that were executed,
\* none of them twice, if the pool took what was issued and nobody else was filling
\* the static collectors.
THEOREM CountedSectionsRanHolds == Spec => []CountedSectionsRan
<1>1. WorkInv => CountedSectionsRan
      <2> SUFFICES ASSUME WorkInv, ~overlap, NEW t \in Threads \ refused
                   PROVE  /\ numRun[t] <= Cardinality(Executed(t))
                          /\ \A s \in Sections(t) : done[t][s] <= 1
            BY DEF CountedSectionsRan
      <2>1. Separate
            BY DEF WorkInv
      <2>2. Past(t) \in SUBSET Executed(t) /\ Executed(t) \in SUBSET Sections(t)
            BY DEF Past, Executed
      <2>3. IsFiniteSet(Executed(t))
            BY <2>2, SectionsFinite, FS_Subset
      <2>4. IsFiniteSet(Past(t)) /\ Cardinality(Past(t)) <= Cardinality(Executed(t))
            BY <2>2, <2>3, FS_Subset
      <2>5. Cardinality(Past(t)) \in Nat /\ Cardinality(Executed(t)) \in Nat
            BY <2>3, <2>4, FS_CardinalityType
      <2>6. numRun[t] <= Cardinality(Past(t)) /\ numRun[t] \in Nat
            BY <2>1 DEF Separate, Complete, WorkInv, WorkTypes
      <2>7. \A s \in Sections(t) : done[t][s] <= 1
            BY <2>1 DEF Separate, Runs
      <2> QED
            BY <2>4, <2>5, <2>6, <2>7
<1> QED
      BY <1>1, WorkInvariant, PTL
=============================================================================
