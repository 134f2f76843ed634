---------------------------- MODULE QueueClients ----------------------------
(***************************************************************************)
(* A queue_t of source/sosal/queue.c and the threads that use it: readers  *)
(* and writers, blocking or not, and a thread that pops, unpops, disables, *)
(* enables and resets the queue under them.                                *)
(*                                                                         *)
(* A blocking call first waits for its event.  queue.c repeats event_wait  *)
(* until it returns true_e, so a wake-up that finds the event lowered again*)
(* (event_timed_wait's "kicking out", a spurious wake-up of the condition  *)
(* variable) only sends the thread back to sleep: a wait ends when the     *)
(* thread finds the event set.  The mutex q->access is taken after that, so*)
(* any other thread may use the queue between the two.                     *)
(***************************************************************************)
EXTENDS Queue, FiniteSets, Functions

CONSTANTS Readers, Writers,
          MaxMsgs          \* bound: messages written over a behaviour

ASSUME ClientsAssumption == /\ Readers \cap Writers = {}
                            /\ MaxMsgs \in Nat

Threads == Readers \cup Writers
Msgs == 1..MaxMsgs
None == [blocking |-> FALSE, msg |-> 0]

VARIABLES q,               \* the queue
          pc,              \* where each thread is: "idle", "wait", "lock"
          call,            \* the arguments of each thread's call
          sent,            \* number of messages offered so far
          accepted,        \* messages whose queue_write returned true_e
          received,        \* messages that a queue_read returned with true_e
          phantom,         \* a queue_read returned true_e without a message
          dropped,         \* messages thrown away by queue_reset
          disabledOnce     \* queue_disable has been called

history == <<accepted, received, phantom, dropped, disabledOnce>>
vars == <<q, pc, call, sent, history>>

Event(t) == IF t \in Readers THEN q.readEvent ELSE q.writeEvent

Init == /\ q = queue_create
        /\ pc = [t \in Threads |-> "idle"]
        /\ call = [t \in Threads |-> None]
        /\ sent = 0
        /\ accepted = {} /\ received = {} /\ dropped = {}
        /\ phantom = FALSE /\ disabledOnce = FALSE

-----------------------------------------------------------------------------
\* Entry of queue_read and queue_write: only a blocking call waits.
StartRead(t, blocking) ==
    /\ t \in Readers
    /\ pc[t] = "idle"
    /\ pc' = [pc EXCEPT ![t] = IF blocking THEN "wait" ELSE "lock"]
    /\ call' = [call EXCEPT ![t] = [blocking |-> blocking, msg |-> 0]]
    /\ UNCHANGED <<q, sent, history>>

StartWrite(t, blocking) ==
    /\ t \in Writers
    /\ pc[t] = "idle"
    /\ sent < MaxMsgs
    /\ sent' = sent + 1
    /\ pc' = [pc EXCEPT ![t] = IF blocking THEN "wait" ELSE "lock"]
    /\ call' = [call EXCEPT ![t] = [blocking |-> blocking, msg |-> sent + 1]]
    /\ UNCHANGED <<q, history>>

\* event_wait returns true_e.
EventPassed(t) ==
    /\ pc[t] = "wait"
    /\ Event(t)
    /\ pc' = [pc EXCEPT ![t] = "lock"]
    /\ UNCHANGED <<q, call, sent, history>>

\* The part of the call under q->access, up to its return.
LockedRead(t) ==
    /\ t \in Readers
    /\ pc[t] = "lock"
    /\ q' = queue_read(q)
    /\ received' = IF Reads(q) THEN received \cup {Head(q.ring)} ELSE received
    /\ phantom' = (phantom \/ (ReadReturns(q, call[t].blocking) /\ ~Reads(q)))
    /\ pc' = [pc EXCEPT ![t] = "idle"]
    /\ call' = [call EXCEPT ![t] = None]
    /\ UNCHANGED <<sent, accepted, dropped, disabledOnce>>

LockedWrite(t) ==
    /\ t \in Writers
    /\ pc[t] = "lock"
    /\ q' = queue_write(q, call[t].msg)
    /\ accepted' = IF WriteReturns(q, call[t].blocking)
                     THEN accepted \cup {call[t].msg} ELSE accepted
    /\ pc' = [pc EXCEPT ![t] = "idle"]
    /\ call' = [call EXCEPT ![t] = None]
    /\ UNCHANGED <<sent, received, phantom, dropped, disabledOnce>>

-----------------------------------------------------------------------------
\* The thread that controls the queue.
Enable == /\ q' = queue_enable(q)
          /\ UNCHANGED <<pc, call, sent, history>>

Disable == /\ q' = queue_disable(q)
           /\ disabledOnce' = TRUE
           /\ UNCHANGED <<pc, call, sent, accepted, received, phantom, dropped>>

Pop == /\ q' = queue_pop(q)
       /\ UNCHANGED <<pc, call, sent, history>>

Unpop == /\ q' = queue_unpop(q)
         /\ UNCHANGED <<pc, call, sent, history>>

Reset == /\ q' = queue_reset(q)
         /\ dropped' = dropped \cup Range(q.ring)
         /\ UNCHANGED <<pc, call, sent, accepted, received, phantom, disabledOnce>>

Control == Enable \/ Disable \/ Pop \/ Unpop \/ Reset

Next == \/ \E t \in Threads, blocking \in BOOLEAN :
              StartRead(t, blocking) \/ StartWrite(t, blocking)
        \/ \E t \in Threads : EventPassed(t) \/ LockedRead(t) \/ LockedWrite(t)
        \/ Control

\* A thread inside a call keeps running: the scheduler is fair to it, and the
\* mutex is held for a bounded time.  Nobody is obliged to start a call.
Fairness == \A t \in Threads : /\ WF_vars(EventPassed(t))
                               /\ WF_vars(LockedRead(t) \/ LockedWrite(t))

Spec == Init /\ [][Next]_vars /\ Fairness

-----------------------------------------------------------------------------
\* Type invariant.
TypeOK == /\ q \in QueueOf(Msgs)
          /\ Len(q.ring) <= QueueDepth
          /\ pc \in [Threads -> {"idle", "wait", "lock"}]
          /\ call \in [Threads -> [blocking : BOOLEAN, msg : 0..MaxMsgs]]
          /\ sent \in 0..MaxMsgs
          /\ accepted \subseteq Msgs /\ received \subseteq Msgs /\ dropped \subseteq Msgs
          /\ phantom \in BOOLEAN /\ disabledOnce \in BOOLEAN

\* queue.c keeps its two events up to date by hand in eight functions.  While
\* the queue is usable they say exactly whether a read or a write can succeed,
\* whatever pops, unpops, disables, enables and resets came before; and outside
\* a pop no event is ever set without a reason, even on a disabled queue.
EventsTrackRing ==
    /\ Usable(q) => /\ q.readEvent <=> HasData(q.ring)
                    /\ q.writeEvent <=> HasSpace(q.ring)
    /\ ~q.popped => /\ q.readEvent => HasData(q.ring)
                    /\ q.writeEvent => HasSpace(q.ring)

\* A true_e from queue_write means the message is in the ring, was read, or was
\* thrown away by a reset, and a true_e from queue_read means a message was
\* delivered ("true_e If data was successfully written", "... read", queue.h).
TrueMeansTransferred ==
    /\ accepted = Range(q.ring) \cup received \cup dropped
    /\ ~phantom

\* The same as long as nobody has disabled the queue.
TransferredUnlessDisabled == ~disabledOnce => TrueMeansTransferred

\* No wake-up is lost: a blocked reader does not sleep on while there is data
\* to read, nor a blocked writer while there is space.
NoLostWakeup ==
    /\ \A t \in Readers :
         (pc[t] = "wait" /\ Usable(q) /\ HasData(q.ring))
           ~> (pc[t] # "wait" \/ ~Usable(q) \/ ~HasData(q.ring))
    /\ \A t \in Writers :
         (pc[t] = "wait" /\ Usable(q) /\ HasSpace(q.ring))
           ~> (pc[t] # "wait" \/ ~Usable(q) \/ ~HasSpace(q.ring))
=============================================================================
