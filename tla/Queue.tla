-------------------------------- MODULE Queue --------------------------------
(***************************************************************************)
(* The message queue of source/sosal/queue.c: a ring of messages, a mutex  *)
(* and two manual-reset events.  Every operator below is what one function *)
(* does to the queue while it holds q->access, so it is one atomic step of *)
(* the thread that calls it.                                               *)
(*                                                                         *)
(* The ring is used here through what module Ring is shown to implement:   *)
(* all transfers are of msgSize bytes and the ring holds a whole number of *)
(* messages, so it is a bounded sequence of messages.                      *)
(***************************************************************************)
EXTENDS Integers, Sequences

CONSTANT QueueDepth       \* numMsgs of queue_create

ASSUME QueueAssumption == QueueDepth \in Nat \ {0}

\* The queue_t values over a set of messages.
QueueOf(Msg) ==
    [ring : Seq(Msg), msgCount : Int, active : BOOLEAN, popped : BOOLEAN,
     readEvent : BOOLEAN, writeEvent : BOOLEAN]

\* Mutant: a full ring is taken to have room.
HasSpaceOffByOne(r) == Len(r) <= QueueDepth

HasData(r) == Len(r) > 0               \* numBytesUsed > 0
HasSpace(r) == Len(r) < QueueDepth     \* numBytesFree > 0

queue_create == [ring |-> << >>, msgCount |-> 0, active |-> TRUE, popped |-> FALSE,
                 readEvent |-> FALSE, writeEvent |-> TRUE]

Usable(q) == q.active /\ ~q.popped

-----------------------------------------------------------------------------
\* queue_write once it holds the mutex, and what it returns.  waited is the
\* result of the event wait of a blocking call, FALSE for a non-blocking one:
\* it is what is returned when the queue is disabled and not popped.
Writes(q) == Usable(q) /\ HasSpace(q.ring)

\* Mutant: a popped queue does not turn the result to false_e.
WriteReturnsWaited(q, waited) == IF Usable(q) THEN Writes(q) ELSE waited

WriteReturns(q, waited) == IF Usable(q) THEN Writes(q) ELSE ~q.popped /\ waited

\* Mutant: the read event is signalled only once the ring is full.
QueueWriteSignalsFull(q, m) ==
    IF ~Usable(q) THEN q
    ELSE LET r == IF Writes(q) THEN Append(q.ring, m) ELSE q.ring
         IN  [q EXCEPT !.ring = r,
                       !.msgCount = IF Writes(q) THEN @ + 1 ELSE @,
                       !.writeEvent = HasSpace(r),
                       !.readEvent = @ \/ (Len(r) = QueueDepth)]

queue_write(q, m) ==
    IF ~Usable(q) THEN q
    ELSE LET r == IF Writes(q) THEN Append(q.ring, m) ELSE q.ring
         IN  [q EXCEPT !.ring = r,
                       !.msgCount = IF Writes(q) THEN @ + 1 ELSE @,
                       !.writeEvent = HasSpace(r),
                       !.readEvent = @ \/ HasData(r)]

\* queue_read once it holds the mutex, and what it returns.
Reads(q) == Usable(q) /\ HasData(q.ring)

ReadReturns(q, waited) == IF Usable(q) THEN Reads(q) ELSE ~q.popped /\ waited

queue_read(q) ==
    IF ~Usable(q) THEN q
    ELSE LET r == IF Reads(q) THEN Tail(q.ring) ELSE q.ring
         IN  [q EXCEPT !.ring = r,
                       !.msgCount = IF Reads(q) THEN @ - 1 ELSE @,
                       !.writeEvent = @ \/ HasSpace(r),
                       !.readEvent = HasData(r)]

-----------------------------------------------------------------------------
queue_enable(q) ==
    IF q.active THEN q
    ELSE [q EXCEPT !.active = TRUE,
                   !.writeEvent = @ \/ HasSpace(q.ring),
                   !.readEvent = @ \/ HasData(q.ring)]

queue_disable(q) ==
    IF ~q.active THEN q
    ELSE [q EXCEPT !.active = FALSE, !.readEvent = FALSE, !.writeEvent = FALSE]

\* Mutant: the listeners of the read side are not released.
QueuePopWritersOnly(q) == [q EXCEPT !.popped = TRUE, !.writeEvent = TRUE]

queue_pop(q) ==
    [q EXCEPT !.popped = TRUE, !.readEvent = TRUE, !.writeEvent = TRUE]

\* Mutant: the read event set by queue_pop is kept.
QueueUnpopKeepsEvents(q) ==
    [q EXCEPT !.popped = FALSE,
              !.writeEvent = @ \/ HasSpace(q.ring), !.readEvent = @ \/ HasData(q.ring)]

queue_unpop(q) ==
    [q EXCEPT !.popped = FALSE,
              !.writeEvent = HasSpace(q.ring), !.readEvent = HasData(q.ring)]

\* The number of messages the queue says it holds.
queue_length(q) == q.msgCount

\* The ring is replaced by a new one; msgCount is not touched.
queue_reset(q) ==
    [q EXCEPT !.active = TRUE, !.popped = FALSE, !.ring = << >>,
              !.writeEvent = TRUE, !.readEvent = FALSE]
=============================================================================
