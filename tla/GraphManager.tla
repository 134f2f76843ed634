---------------------------- MODULE GraphManager ----------------------------
(***************************************************************************)
(* The request and reply queues of a Kernel Graph Manager: the function    *)
(* DVP_KernelGraphManager(..., sync = DVP_FALSE) and the worker threads of *)
(* dvp_kgm_cpu.c, dvp_kgm_dsp.c and dvp_kgm_simcop.c.  A caller puts its   *)
(* request into workqueue and then reads retqueue until it finds its own   *)
(* reply; a reply for somebody else goes back to the end of retqueue.      *)
(*                                                                         *)
(* The three managers run the same code but for two things: the CPU manager*)
(* has one worker per processor and the others one, and when a read of     *)
(* retqueue fails the CPU manager tries again while the others give up and *)
(* return 0 (RetryRead).                                                   *)
(*                                                                         *)
(* A request is told apart by pSubNodes, startNode and numNodes only.  Each*)
(* caller here executes the same nodes again and again, as for successive  *)
(* frames, so its requests look alike; the call number is not in the code  *)
(* and only serves to state the properties.                                *)
(***************************************************************************)
EXTENDS Queue

CONSTANTS Callers,        \* threads executing subgraphs on this manager
          WorkerIds,      \* the manager's worker threads
          RetryRead,      \* TRUE for the CPU manager, FALSE for DSP and SIMCOP
          MaxCalls        \* bound: calls of each caller

ASSUME ManagerAssumption ==
    RetryRead \in BOOLEAN /\ MaxCalls \in Nat /\ "nobody" \notin Callers

VARIABLES workqueue, retqueue,
          kpc,            \* caller: "idle", "wwait", "wlock", "rwait", "rlock",
                          \*         "pwait", "plock" or "done"
          calls,          \* number of the caller's latest call
          kgmr,           \* the reply a caller has read
          returned,       \* what the latest call returned
          wpc,            \* worker: "read", "lock", "run", "wwait", "wlock", "exited"
          kgmt,           \* the request a worker has read
          dpc             \* DVP_KernelGraphManagerDeinit

callerVars == <<kpc, calls, kgmr, returned>>
workerVars == <<wpc, kgmt>>
vars == <<workqueue, retqueue, callerVars, workerVars, dpc>>

Requests == [who : Callers, call : 1..MaxCalls]
Nothing == [who |-> "nobody", call |-> 0]   \* no node executed, return 0

Mine(c) == [who |-> c, call |-> calls[c]]

\* DVP_KernelGraphManagerInit
Init == /\ workqueue = queue_create /\ retqueue = queue_create
        /\ kpc = [c \in Callers |-> "idle"]
        /\ calls = [c \in Callers |-> 0]
        /\ kgmr = [c \in Callers |-> Nothing]
        /\ returned = [c \in Callers |-> Nothing]
        /\ wpc = [w \in WorkerIds |-> "read"]
        /\ kgmt = [w \in WorkerIds |-> Nothing]
        /\ dpc = "none"

-----------------------------------------------------------------------------
\* DVP_KernelGraphManager is called with sync = DVP_FALSE.
Call(c) ==
    /\ dpc = "none"
    /\ kpc[c] \in {"idle", "done"}
    /\ calls[c] < MaxCalls
    /\ calls' = [calls EXCEPT ![c] = @ + 1]
    /\ kpc' = [kpc EXCEPT ![c] = "wwait"]
    /\ UNCHANGED <<workqueue, retqueue, kgmr, returned, workerVars, dpc>>

\* The end of an event wait, of the queue operation named by the next pc.
Wake(c) ==
    /\ \/ kpc[c] = "wwait" /\ workqueue.writeEvent /\ kpc' = [kpc EXCEPT ![c] = "wlock"]
       \/ kpc[c] = "rwait" /\ retqueue.readEvent /\ kpc' = [kpc EXCEPT ![c] = "rlock"]
       \/ kpc[c] = "pwait" /\ retqueue.writeEvent /\ kpc' = [kpc EXCEPT ![c] = "plock"]
    /\ UNCHANGED <<workqueue, retqueue, calls, kgmr, returned, workerVars, dpc>>

\* queue_write(workqueue): if it fails the call returns 0.
PostRequest(c) ==
    /\ kpc[c] = "wlock"
    /\ workqueue' = queue_write(workqueue, Mine(c))
    /\ IF WriteReturns(workqueue, TRUE)
         THEN kpc' = [kpc EXCEPT ![c] = "rwait"] /\ UNCHANGED returned
         ELSE kpc' = [kpc EXCEPT ![c] = "done"]
              /\ returned' = [returned EXCEPT ![c] = Nothing]
    /\ UNCHANGED <<retqueue, calls, kgmr, workerVars, dpc>>

\* Mutant: any reply is taken for ours.
AnyReply(c, reply) == TRUE

\* The comparison of pSubNodes, startNode and numNodes.
IsOurs(c, reply) == reply.who = c

\* queue_read(retqueue): ours, somebody else's, or nothing there.
ReadReply(c) ==
    /\ kpc[c] = "rlock"
    /\ retqueue' = queue_read(retqueue)
    /\ \/ /\ Reads(retqueue)
          /\ LET reply == Head(retqueue.ring)
             IN  IF IsOurs(c, reply)
                   THEN /\ kpc' = [kpc EXCEPT ![c] = "done"]
                        /\ returned' = [returned EXCEPT ![c] = reply]
                        /\ UNCHANGED kgmr
                   ELSE /\ kpc' = [kpc EXCEPT ![c] = "pwait"]
                        /\ kgmr' = [kgmr EXCEPT ![c] = reply]
                        /\ UNCHANGED returned
       \/ /\ ~ReadReturns(retqueue, TRUE)
          /\ kpc' = [kpc EXCEPT ![c] = IF RetryRead THEN "rwait" ELSE "done"]
          /\ returned' = IF RetryRead THEN returned
                                      ELSE [returned EXCEPT ![c] = Nothing]
          /\ UNCHANGED kgmr
    /\ UNCHANGED <<workqueue, calls, workerVars, dpc>>

\* Mutant: a reply that is not ours is dropped.
DropBack(c) == retqueue

\* The reply that is not ours goes back to the end of the queue.
PutBack(c) == queue_write(retqueue, kgmr[c])

PutReplyBack(c) ==
    /\ kpc[c] = "plock"
    /\ retqueue' = PutBack(c)
    /\ kpc' = [kpc EXCEPT ![c] = "rwait"]
    /\ kgmr' = [kgmr EXCEPT ![c] = Nothing]
    /\ UNCHANGED <<workqueue, calls, returned, workerVars, dpc>>

-----------------------------------------------------------------------------
\* The loop of DVP_KernelGraphManagerThread_*.
WorkerWake(w) ==
    /\ \/ wpc[w] = "read" /\ workqueue.readEvent /\ wpc' = [wpc EXCEPT ![w] = "lock"]
       \/ wpc[w] = "wwait" /\ retqueue.writeEvent /\ wpc' = [wpc EXCEPT ![w] = "wlock"]
    /\ UNCHANGED <<workqueue, retqueue, callerVars, kgmt, dpc>>

\* Mutant: the worker goes on after a failed read.
NeverLeave == FALSE

\* The loop ends as soon as one queue_read returns false_e.
LeaveLoop == ~ReadReturns(workqueue, TRUE)

WorkerRead(w) ==
    /\ wpc[w] = "lock"
    /\ workqueue' = queue_read(workqueue)
    /\ kgmt' = [kgmt EXCEPT ![w] = IF Reads(workqueue) THEN Head(workqueue.ring) ELSE @]
    /\ wpc' = [wpc EXCEPT ![w] = IF LeaveLoop THEN "exited" ELSE "run"]
    /\ UNCHANGED <<retqueue, callerVars, dpc>>

\* DVP_KernelGraphManager_CPU / _DSP / _SIMCOP returns.
WorkerRun(w) ==
    /\ wpc[w] = "run"
    /\ wpc' = [wpc EXCEPT ![w] = "wwait"]
    /\ UNCHANGED <<workqueue, retqueue, callerVars, kgmt, dpc>>

WorkerReply(w) ==
    /\ wpc[w] = "wlock"
    /\ retqueue' = queue_write(retqueue, kgmt[w])
    /\ wpc' = [wpc EXCEPT ![w] = "read"]
    /\ kgmt' = [kgmt EXCEPT ![w] = Nothing]
    /\ UNCHANGED <<workqueue, callerVars, dpc>>

-----------------------------------------------------------------------------
\* DVP_KernelGraphManagerDeinit, once no graph runs any more: pop both queues,
\* join every worker, destroy the queues.
DeinitPop ==
    /\ dpc = "none"
    /\ \A c \in Callers : kpc[c] \in {"idle", "done"}
    /\ workqueue' = queue_pop(workqueue)
    /\ retqueue' = queue_pop(retqueue)
    /\ dpc' = "join"
    /\ UNCHANGED <<callerVars, workerVars>>

DeinitJoin ==
    /\ dpc = "join"
    /\ \A w \in WorkerIds : wpc[w] = "exited"
    /\ dpc' = "destroyed"
    /\ UNCHANGED <<workqueue, retqueue, callerVars, workerVars>>

Terminated == dpc = "destroyed" /\ UNCHANGED vars

CallerStep(c) == Wake(c) \/ PostRequest(c) \/ ReadReply(c) \/ PutReplyBack(c)
WorkerStep(w) == WorkerWake(w) \/ WorkerRead(w) \/ WorkerRun(w) \/ WorkerReply(w)

Next == \/ \E c \in Callers : Call(c) \/ CallerStep(c)
        \/ \E w \in WorkerIds : WorkerStep(w)
        \/ DeinitPop \/ DeinitJoin
        \/ Terminated

\* Threads inside a call and workers keep running.
Fairness == /\ \A c \in Callers : WF_vars(CallerStep(c))
            /\ \A w \in WorkerIds : WF_vars(WorkerStep(w))
            /\ WF_vars(DeinitJoin)

Spec == Init /\ [][Next]_vars /\ Fairness

-----------------------------------------------------------------------------
InRing(queue, c) == \E i \in DOMAIN queue.ring : queue.ring[i].who = c

\* Type invariant.
TypeOK ==
    /\ workqueue \in QueueOf(Requests) /\ retqueue \in QueueOf(Requests)
    /\ kpc \in [Callers -> {"idle", "wwait", "wlock", "rwait", "rlock", "pwait", "plock",
                            "done"}]
    /\ calls \in [Callers -> 0..MaxCalls]
    /\ kgmr \in [Callers -> Requests \cup {Nothing}]
    /\ returned \in [Callers -> Requests \cup {Nothing}]
    /\ wpc \in [WorkerIds -> {"read", "lock", "run", "wwait", "wlock", "exited"}]
    /\ kgmt \in [WorkerIds -> Requests \cup {Nothing}]
    /\ dpc \in {"none", "join", "destroyed"}

\* A call returns the reply to the request it made, not one left over from an
\* earlier call on the same nodes, and never gives up on work it has queued.
ReturnsOwnReply == \A c \in Callers : kpc[c] = "done" => returned[c] = Mine(c)

\* A caller that has returned owns its nodes again: no request of it is still
\* queued or being executed, and no reply to it is left behind in retqueue or
\* in the hands of another caller.
NothingLeftBehind ==
    \A c \in Callers :
        kpc[c] \in {"idle", "done"} =>
            /\ ~InRing(workqueue, c)
            /\ ~InRing(retqueue, c)
            /\ \A w \in WorkerIds : kgmt[w].who = c => wpc[w] = "exited"
            /\ \A d \in Callers : kgmr[d].who # c

\* A caller in the loop that reads retqueue.
InReplyLoop(c) == kpc[c] \in {"rwait", "rlock", "pwait", "plock"}

\* Every request that was queued is executed and answered, although workers
\* disappear and callers take and put back each other's replies.
RequestIsAnswered ==
    \A c \in Callers :
        kpc[c] = "rwait" ~> \/ kpc[c] = "done"
                            \/ InRing(retqueue, c)
                            \/ \E d \in Callers : kgmr[d].who = c

\* A call returns unless another caller stays in the reply loop with it.  (Two
\* callers can take each other's reply, put it back and take it again for ever;
\* nothing in the code breaks that symmetry.)
LoneCallerReturns ==
    \A c \in Callers :
        kpc[c] # "idle" ~> (kpc[c] = "done" \/ \E d \in Callers \ {c} : InReplyLoop(d))

\* Requests are answered whatever the other threads do, and a caller that has
\* retqueue to itself gets its answer.
CallsProgress == RequestIsAnswered /\ LoneCallerReturns

\* Deinit ends: the popped queues get every worker out of its loop.
DeinitTerminates == (dpc = "join") ~> (dpc = "destroyed")
=============================================================================
