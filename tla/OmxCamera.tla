----------------------------- MODULE OmxCamera -----------------------------
(***************************************************************************)
(* The OMX camera of VisionCam (OMXVisionCam.cpp).                         *)
(*                                                                         *)
(* Four threads meet in it.  The client's control thread calls useBuffers, *)
(* sendCommand (start and stop of the preview), releaseBuffers and deinit; *)
(* each sends commands to the OMX component and waits for their events.    *)
(* The component's thread calls EventHandler and FillBufferDone.  The      *)
(* frame thread reads the filled buffers off mFrameMessageQ and gives them *)
(* to the client's callback.  A thread of the client returns them.         *)
(*                                                                         *)
(* A wait is a node in mEventSignalQ that names a semaphore: one on the    *)
(* caller's stack for state changes and flushes, the member mGreLocalSem   *)
(* for the ports.  The list has no lock: the component's thread posts the  *)
(* semaphore and then extracts the node, while the thread it woke goes on. *)
(*                                                                         *)
(* OMX_UseBuffer allocates a buffer header that OMX_FreeBuffer frees: a    *)
(* header is written as the number of the start that made it, NULL as 0,   *)
(* so that a message whose header is gone can be told apart.  The          *)
(* component is external: it is what the code expects.                     *)
(* Preemption, packed frames, focus and the parameters are left out.       *)
(***************************************************************************)
EXTENDS Integers, Sequences, FiniteSets, FiniteSetsExt, SequencesExt

CONSTANTS NumPorts,        \* VCAM_PORT_PREVIEW is 1, VCAM_PORT_VIDEO 2
          NumBufs,         \* mNumBufs of every port
          Requests,        \* the sets of ports the client starts and stops
          UseBufferFails,  \* OMX_UseBuffer may refuse a buffer
          MaxStarts        \* bound: calls of startPreview

Ports == 1..NumPorts
Bufs == 1..NumBufs
Buffers == Ports \X Bufs
Client == "client"
FrameThread == "frame"

ASSUME CameraAssumption ==
    /\ NumPorts \in Nat \ {0} /\ NumBufs \in Nat \ {0} /\ MaxStarts \in Nat
    /\ Requests \subseteq (SUBSET Ports) \ {{}} /\ UseBufferFails \in BOOLEAN

VARIABLES
    \* the control thread
    pc, req,        \* where it is, and the ports it was asked for
    todo,           \* ports that its loop has still to visit
    ok,             \* greError is STATUS_SUCCESS
    starts,         \* calls of startPreview so far
    \* OMXVisionCam
    mFlushInProcess, mIsActive,
    mBufferHeader,  \* per port and buffer: the start that made it, 0 for NULL
    mFrameDescriptors, \* they exist
    mFrameBufferLock,  \* "free" or its holder
    mEventSignalQ,  \* registered waits, <<command, semaphore>>
    extracting,     \* the node that was posted and is to be extracted, 0 for none
    mGreLocalSem,
    sem,            \* the semaphore on the stack of transitToState and flushBuffers
    \* the frame thread
    fpc, msg, mFrameMessageQ, mFrameSem,
    \* the client's frames
    frames,         \* buffers the client works with
    returning,      \* those for which returnFrame has passed its checks
    \* the component
    state, bEnabled,
    held,           \* buffers it fills
    cmds,           \* commands it has not completed
    \* history
    passedEarly,    \* a wait for a port ended before its command was complete
    lostPost,       \* a post of mFrameSem came before the semaphore was created
    refused,        \* OMX_UseBuffer refused a buffer
    stale,          \* a message whose header is gone reached the callback
    lostNode        \* a registration was lost: list_append met list_extract

control == <<pc, req, todo, ok, starts>>
events == <<mEventSignalQ, extracting, mGreLocalSem, sem, lostNode>>
ports == <<mIsActive, mBufferHeader>>
frameThread == <<fpc, msg, mFrameMessageQ, mFrameSem, lostPost>>
clientFrames == <<frames, returning>>
component == <<state, bEnabled, held, cmds>>
history == <<passedEarly, refused, stale>>
vars == <<control, mFlushInProcess, ports, mFrameDescriptors, mFrameBufferLock, events,
          frameThread, clientFrames, component, history>>

None == <<0, 0, 0>>
Exit == <<"exit">>         \* EFrameManagerExit
NotCreated == -1           \* mFrameSem before the frame thread has run

\* The state after init: the component is loaded, its ports are disabled and the
\* frame thread was created, which need not mean that it has run.
Init ==
    /\ pc = "idle" /\ req = {} /\ todo = {} /\ ok = TRUE /\ starts = 0
    /\ mFlushInProcess = FALSE
    /\ mIsActive = [p \in Ports |-> FALSE]
    /\ mBufferHeader = [p \in Ports |-> [b \in Bufs |-> 0]]
    /\ mFrameDescriptors = FALSE
    /\ mFrameBufferLock = "free"
    /\ mEventSignalQ = <<>> /\ extracting = 0 /\ mGreLocalSem = 0 /\ sem = 0
    /\ fpc = "create" /\ msg = None /\ mFrameMessageQ = <<>> /\ mFrameSem = NotCreated
    /\ frames = {} /\ returning = {}
    /\ state = "Loaded" /\ bEnabled = [p \in Ports |-> FALSE]
    /\ held = {} /\ cmds = {}
    /\ passedEarly = FALSE /\ lostPost = FALSE
    /\ refused = FALSE /\ stale = FALSE /\ lostNode = FALSE

-----------------------------------------------------------------------------
(* Events.                                                                 *)

\* list_append, or a registration that is lost: list_append met the list_pop or
\* list_trim of list_extract, in this call or in an earlier one that left a tail
\* which the head does not reach.
Register(node) ==
    \/ mEventSignalQ' = Append(mEventSignalQ, node) /\ UNCHANGED lostNode
    \/ /\ extracting # 0 \/ lostNode
       /\ lostNode' = TRUE /\ UNCHANGED mEventSignalQ

\* RegisterForEvent and OMX_SendCommand.
SendAndRegister(command, semaphore) ==
    /\ Register(<<command, semaphore>>)
    /\ cmds' = cmds \cup {command}
    /\ UNCHANGED extracting

Waiting(command) == {i \in DOMAIN mEventSignalQ : mEventSignalQ[i][1] = command}

\* EventHandler, up to list_extract: the first node that matches is signalled.
EventHandler(command) ==
    IF Waiting(command) = {} THEN UNCHANGED events
    ELSE LET i == Min(Waiting(command)) IN
         /\ IF mEventSignalQ[i][2] = "mGreLocalSem"
            THEN mGreLocalSem' = mGreLocalSem + 1 /\ UNCHANGED sem
            ELSE sem' = sem + 1 /\ UNCHANGED mGreLocalSem
         /\ extracting' = i
         /\ UNCHANGED <<mEventSignalQ, lostNode>>

\* list_extract in EventHandler, by the component's thread.
ExtractNode ==
    /\ extracting # 0
    /\ mEventSignalQ' = RemoveAt(mEventSignalQ, extracting)
    /\ extracting' = 0
    /\ UNCHANGED <<control, mFlushInProcess, ports, mFrameDescriptors, mFrameBufferLock,
                   mGreLocalSem, sem, lostNode, frameThread, clientFrames, component,
                   history>>

-----------------------------------------------------------------------------
(* The control thread.                                                     *)

\* transitToState up to its wait; the semaphore is a new one.
transitToState(target, at) ==
    /\ SendAndRegister(<<"state", target>>, "sem")
    /\ sem' = 0 /\ pc' = at
    /\ UNCHANGED <<mGreLocalSem, state, bEnabled, held>>

\* semaphore_wait on the semaphore of transitToState or flushBuffers.
WaitSem(at, next) ==
    /\ pc = at /\ sem > 0
    /\ sem' = sem - 1 /\ pc' = next
    /\ UNCHANGED <<req, ok, starts, mFlushInProcess, ports, mFrameDescriptors,
                   mFrameBufferLock, mEventSignalQ, extracting, mGreLocalSem, lostNode,
                   frameThread, clientFrames, component, history>>

useBuffers ==
    /\ pc = "idle" /\ state = "Loaded"
    /\ mFrameDescriptors' = TRUE
    /\ transitToState("Idle", "toIdle")
    /\ UNCHANGED <<req, todo, ok, starts, mFlushInProcess, ports, mFrameBufferLock,
                   frameThread, clientFrames, history>>

\* A client starts ports that do not run, when it has given back all its frames.
startPreview ==
    /\ pc = "idle" /\ starts < MaxStarts /\ state \in {"Idle", "Executing"}
    /\ frames = {} /\ returning = {}
    /\ \E r \in Requests : /\ \A p \in r : ~mIsActive[p]
                          /\ req' = r /\ todo' = r
    /\ starts' = starts + 1 /\ ok' = TRUE
    /\ IF state = "Idle" THEN transitToState("Executing", "toExecuting")
       ELSE pc' = "startLock" /\ UNCHANGED <<events, component>>
    /\ UNCHANGED <<mFlushInProcess, ports, mFrameDescriptors, mFrameBufferLock,
                   frameThread, clientFrames, history>>

\* Mutant: the flush of the last stopPreview is not taken back.
StartLockedKeepsFlush ==
    /\ pc = "startLock" /\ mFrameBufferLock = "free"
    /\ mFrameBufferLock' = Client /\ pc' = "enable"
    /\ UNCHANGED <<req, todo, ok, starts, mFlushInProcess, ports, mFrameDescriptors,
                   events, frameThread, clientFrames, component, history>>

\* startPreview under mFrameBufferLock.
StartLocked ==
    /\ pc = "startLock" /\ mFrameBufferLock = "free"
    /\ mFrameBufferLock' = Client /\ mFlushInProcess' = FALSE /\ pc' = "enable"
    /\ UNCHANGED <<req, todo, ok, starts, ports, mFrameDescriptors, events, frameThread,
                   clientFrames, component, history>>

\* portEnableDisable finds the port as it was asked to be, and goes on.
AlreadyDone(p, at, enable) ==
    /\ pc = at /\ bEnabled[p] = enable
    /\ mIsActive' = [mIsActive EXCEPT ![p] = enable]
    /\ todo' = todo \ {p}
    /\ UNCHANGED <<pc, req, ok, starts, mFlushInProcess, mBufferHeader, mFrameDescriptors,
                   mFrameBufferLock, events, frameThread, clientFrames, component,
                   history>>

\* portEnableDisable with populatePort as its service: every buffer has a header.
PopulatePort(p) ==
    /\ mBufferHeader' = [mBufferHeader EXCEPT ![p] = [b \in Bufs |-> starts]]
    /\ SendAndRegister(<<"enable", p>>, "mGreLocalSem")
    /\ ok' = TRUE /\ pc' = "enableWait"
    /\ UNCHANGED <<todo, mIsActive, mGreLocalSem, refused>>

\* The wait for p is registered and unregistered again: the control thread calls
\* EventHandler itself, which posts mGreLocalSem if it finds the node.
Unregister(p) ==
    LET node == <<<<"enable", p>>, "mGreLocalSem">>
        i == Min(Waiting(node[1]) \cup {Len(mEventSignalQ) + 1}) IN
    \/ /\ mEventSignalQ' = RemoveAt(Append(mEventSignalQ, node), i)
       /\ extracting' = IF i <= extracting THEN extracting - 1 ELSE extracting
       /\ mGreLocalSem' = mGreLocalSem + 1 /\ UNCHANGED lostNode
    \/ /\ extracting # 0 \/ lostNode
       /\ lostNode' = TRUE /\ UNCHANGED <<mEventSignalQ, extracting, mGreLocalSem>>

\* OMX_UseBuffer refuses buffer n.
PopulateFails(p, n) ==
    /\ UseBufferFails
    /\ mBufferHeader' = [mBufferHeader EXCEPT ![p] =
           [b \in Bufs |-> IF b < n THEN starts ELSE @[b]]]
    /\ cmds' = cmds \cup {<<"enable", p>>}
    /\ Unregister(p) /\ refused' = TRUE
    /\ ok' = FALSE /\ todo' = todo \ {p}
    /\ mIsActive' = [mIsActive EXCEPT ![p] = bEnabled[p]]
    /\ UNCHANGED pc

EnablePort ==
    \E p \in Ports :
        /\ pc = "enable" /\ todo # {} /\ p = Min(todo)
        /\ \/ AlreadyDone(p, "enable", TRUE)
           \/ /\ ~bEnabled[p]
              /\ PopulatePort(p) \/ \E n \in Bufs : PopulateFails(p, n)
              /\ UNCHANGED <<req, starts, mFlushInProcess, mFrameDescriptors,
                             mFrameBufferLock, sem, frameThread, clientFrames, state,
                             bEnabled, held, passedEarly, stale>>

\* Mutant: the port is not looked at again after the wait.
WaitPortNoRefresh(at, next, enable) ==
    /\ pc = at /\ mGreLocalSem > 0
    /\ mGreLocalSem' = mGreLocalSem - 1 /\ pc' = next /\ todo' = todo \ {Min(todo)}
    /\ UNCHANGED <<req, ok, starts, mFlushInProcess, ports, mFrameDescriptors,
                   mFrameBufferLock, mEventSignalQ, extracting, sem, lostNode, frameThread,
                   clientFrames, component, history>>

\* semaphore_wait(&mGreLocalSem) and the port as it is then.
WaitPort(at, next, enable) ==
    /\ pc = at /\ mGreLocalSem > 0
    /\ LET p == Min(todo) IN
       /\ mIsActive' = [mIsActive EXCEPT ![p] = bEnabled[p]]
       /\ passedEarly' = (passedEarly \/ bEnabled[p] # enable)
       /\ todo' = todo \ {p}
    /\ mGreLocalSem' = mGreLocalSem - 1 /\ pc' = next
    /\ UNCHANGED <<req, ok, starts, mFlushInProcess, mBufferHeader, mFrameDescriptors,
                   mFrameBufferLock, mEventSignalQ, extracting, sem, lostNode, frameThread,
                   clientFrames, component, refused, stale>>

\* fillPortBuffers of the ports asked for; a port that is not active is refused, and
\* the component refuses a buffer it has.  Returning releases the lock.
StartEnds ==
    /\ pc = "enable" /\ todo = {}
    /\ held' = IF ok THEN held \cup {x \in Buffers : x[1] \in req /\ mIsActive[x[1]]
                                                     /\ mBufferHeader[x[1]][x[2]] # 0}
               ELSE held
    /\ mFrameBufferLock' = "free" /\ pc' = "idle"
    /\ UNCHANGED <<req, todo, ok, starts, mFlushInProcess, ports, mFrameDescriptors,
                   events, frameThread, clientFrames, state, bEnabled, cmds, history>>

stopPreview ==
    /\ pc = "idle" /\ state = "Executing"
    /\ \E r \in Requests : req' = r /\ todo' = r
    /\ mFlushInProcess' = TRUE /\ ok' = TRUE /\ pc' = "flush"
    /\ UNCHANGED <<starts, ports, mFrameDescriptors, mFrameBufferLock, events, frameThread,
                   clientFrames, component, history>>

flushBuffers ==
    /\ pc = "flush" /\ todo # {}
    /\ SendAndRegister(<<"flush", Min(todo)>>, "sem")
    /\ sem' = 0 /\ pc' = "flushWait"
    /\ UNCHANGED <<req, todo, ok, starts, mFlushInProcess, ports, mFrameDescriptors,
                   mFrameBufferLock, mGreLocalSem, frameThread, clientFrames, state,
                   bEnabled, held, history>>

FlushEnds ==
    /\ pc = "flush" /\ todo = {}
    /\ pc' = "disable" /\ todo' = req
    /\ UNCHANGED <<req, ok, starts, mFlushInProcess, ports, mFrameDescriptors,
                   mFrameBufferLock, events, frameThread, clientFrames, component,
                   history>>

DisablePort ==
    \E p \in Ports :
        /\ pc = "disable" /\ todo # {} /\ p = Min(todo)
        /\ \/ AlreadyDone(p, "disable", FALSE)
           \/ /\ bEnabled[p]
              /\ SendAndRegister(<<"disable", p>>, "mGreLocalSem")
              /\ pc' = "free"
              /\ UNCHANGED <<req, todo, ok, starts, mFlushInProcess, ports,
                             mFrameDescriptors, mFrameBufferLock, mGreLocalSem, sem,
                             frameThread, clientFrames, state, bEnabled, held, history>>

\* freePortBuffers, under mFrameBufferLock: the headers are gone.
freePortBuffers ==
    /\ pc = "free" /\ mFrameBufferLock = "free"
    /\ mBufferHeader' = [mBufferHeader EXCEPT ![Min(todo)] = [b \in Bufs |-> 0]]
    /\ held' = {x \in held : x[1] # Min(todo)}
    /\ pc' = "disableWait"
    /\ UNCHANGED <<req, todo, ok, starts, mFlushInProcess, mIsActive, mFrameDescriptors,
                   mFrameBufferLock, events, frameThread, clientFrames, state, bEnabled,
                   cmds, history>>

\* stopPreview's end: without an active port the component goes to Idle.
StopEnds ==
    /\ pc = "disable" /\ todo = {}
    /\ IF (\A p \in Ports : ~mIsActive[p]) /\ state = "Executing"
       THEN transitToState("Idle", "toIdle")
       ELSE pc' = "idle" /\ UNCHANGED <<events, component>>
    /\ UNCHANGED <<req, todo, ok, starts, mFlushInProcess, ports, mFrameDescriptors,
                   mFrameBufferLock, frameThread, clientFrames, history>>

\* A client releases the buffers after it stopped the preview.
releaseBuffers ==
    /\ pc = "idle" /\ state = "Idle"
    /\ mFrameDescriptors' = FALSE
    /\ transitToState("Loaded", "toLoaded")
    /\ UNCHANGED <<req, todo, ok, starts, mFlushInProcess, ports, mFrameBufferLock,
                   frameThread, clientFrames, history>>

\* Mutant: the semaphore is posted twice for one message.
PostFrameThreadTwice(m) ==
    /\ mFrameMessageQ' = Append(mFrameMessageQ, m)
    /\ IF mFrameSem = NotCreated THEN lostPost' = TRUE /\ UNCHANGED mFrameSem
       ELSE mFrameSem' = mFrameSem + 2 /\ UNCHANGED lostPost
    /\ UNCHANGED <<fpc, msg>>

\* queue_write and semaphore_post of a message for the frame thread.
PostFrameThread(m) ==
    /\ mFrameMessageQ' = Append(mFrameMessageQ, m)
    /\ IF mFrameSem = NotCreated THEN lostPost' = TRUE /\ UNCHANGED mFrameSem
       ELSE mFrameSem' = mFrameSem + 1 /\ UNCHANGED lostPost
    /\ UNCHANGED <<fpc, msg>>

\* OMX_FreeHandle, which ends the component, and the frame thread's exit message.
deinit ==
    /\ pc = "idle" /\ state = "Loaded"
    /\ pc' = "join" /\ cmds' = {}
    /\ PostFrameThread(Exit)
    /\ UNCHANGED <<req, todo, ok, starts, mFlushInProcess, ports, mFrameDescriptors,
                   mFrameBufferLock, events, clientFrames, state, bEnabled, held, history>>

Join ==
    /\ pc = "join" /\ fpc = "exited"
    /\ pc' = "gone"
    /\ UNCHANGED <<req, todo, ok, starts, mFlushInProcess, ports, mFrameDescriptors,
                   mFrameBufferLock, events, frameThread, clientFrames, component,
                   history>>

WaitState ==
    /\ \/ WaitSem("toIdle", "idle")
       \/ WaitSem("toExecuting", "startLock")
       \/ WaitSem("toLoaded", "idle")
    /\ UNCHANGED todo
WaitFlush == WaitSem("flushWait", "flush") /\ todo' = todo \ {Min(todo)}

WaitEnabled == WaitPort("enableWait", "enable", TRUE)
WaitDisabled == WaitPort("disableWait", "disable", FALSE)
WaitEvent == WaitState \/ WaitFlush \/ WaitEnabled \/ WaitDisabled

\* A call that has begun goes on; the calls themselves are the client's choice.
ControlStep ==
    \/ WaitEvent \/ EnablePort \/ StartEnds \/ flushBuffers \/ FlushEnds
    \/ DisablePort \/ freePortBuffers \/ StopEnds \/ Join
ControlCall == useBuffers \/ startPreview \/ stopPreview \/ releaseBuffers \/ deinit

-----------------------------------------------------------------------------
(* The frame thread.                                                       *)

\* The thread creates mFrameSem itself and takes its count down to 0.
FrameThreadStarts ==
    /\ fpc = "create"
    /\ fpc' = "wait" /\ mFrameSem' = 0
    /\ UNCHANGED <<control, mFlushInProcess, ports, mFrameDescriptors, mFrameBufferLock,
                   events, msg, mFrameMessageQ, lostPost, clientFrames, component,
                   history>>

\* FrameThreadFunc reads a message; FrameReceivedFunc drops it while flushing.
ReadMessage ==
    /\ fpc = "wait" /\ mFrameSem > 0 /\ mFrameMessageQ # <<>>
    /\ mFrameSem' = mFrameSem - 1
    /\ mFrameMessageQ' = Tail(mFrameMessageQ)
    /\ msg' = IF Head(mFrameMessageQ) = Exit \/ mFlushInProcess THEN None
              ELSE Head(mFrameMessageQ)
    /\ fpc' = IF Head(mFrameMessageQ) = Exit THEN "exited"
              ELSE IF mFlushInProcess THEN "wait" ELSE "received"
    /\ UNCHANGED <<control, mFlushInProcess, ports, mFrameDescriptors, mFrameBufferLock,
                   events, lostPost, clientFrames, component, history>>

\* The frames FrameReceivedFunc may find for a header: its own while the header lives;
\* none, or that of any buffer, when its memory was freed and perhaps used again.
FoundFrames(m) ==
    IF mBufferHeader[m[1]][m[2]] = m[3] THEN {<<m[1], m[2]>>} ELSE Buffers

\* FrameReceivedFunc under mFrameBufferLock, up to the callback.
FrameReceivedFunc ==
    /\ fpc = "received" /\ mFrameBufferLock = "free"
    /\ \/ \E x \in FoundFrames(msg) :
             /\ mIsActive[x[1]]
             /\ msg' = <<x[1], x[2], msg[3]>>
             /\ fpc' = "callback" /\ mFrameBufferLock' = FrameThread
             /\ stale' = (stale \/ mBufferHeader[msg[1]][msg[2]] # msg[3])
       \/ /\ \/ \E x \in FoundFrames(msg) : ~mIsActive[x[1]]
             \/ mBufferHeader[msg[1]][msg[2]] # msg[3]
          /\ msg' = None /\ fpc' = "wait" /\ UNCHANGED <<mFrameBufferLock, stale>>
    /\ UNCHANGED <<control, mFlushInProcess, ports, mFrameDescriptors, events,
                   mFrameMessageQ, mFrameSem, lostPost, clientFrames, component,
                   passedEarly, refused>>

\* Mutant: mFrameBufferLock is not given back after the callback.
FrameCallbackKeepsLock ==
    /\ fpc = "callback"
    /\ frames' = frames \cup {<<msg[1], msg[2]>>}
    /\ fpc' = "wait" /\ msg' = None
    /\ UNCHANGED <<control, mFlushInProcess, ports, mFrameDescriptors, mFrameBufferLock,
                   events, mFrameMessageQ, mFrameSem, lostPost, returning, component,
                   history>>

\* m_callback: the frame is the client's.
FrameCallback ==
    /\ fpc = "callback"
    /\ frames' = frames \cup {<<msg[1], msg[2]>>}
    /\ fpc' = "wait" /\ msg' = None /\ mFrameBufferLock' = "free"
    /\ UNCHANGED <<control, mFlushInProcess, ports, mFrameDescriptors, events,
                   mFrameMessageQ, mFrameSem, lostPost, returning, component, history>>

FrameThreadStep == FrameThreadStarts \/ ReadMessage \/ FrameReceivedFunc \/ FrameCallback

-----------------------------------------------------------------------------
(* returnFrame, in a thread of the client.                                 *)

\* While flushing, and when the component does not execute, nothing is given back.
returnFrame(x) ==
    /\ x \in frames \ returning
    /\ IF ~mFlushInProcess /\ state = "Executing"
       THEN returning' = returning \cup {x} /\ UNCHANGED frames
       ELSE frames' = frames \ {x} /\ UNCHANGED returning
    /\ UNCHANGED <<control, mFlushInProcess, ports, mFrameDescriptors, mFrameBufferLock,
                   events, frameThread, component, history>>

\* OMX_FillThisBuffer for the header that names the buffer, if there is one.
FillThisBuffer(x) ==
    /\ x \in returning
    /\ held' = IF mBufferHeader[x[1]][x[2]] # 0 /\ bEnabled[x[1]] THEN held \cup {x}
               ELSE held
    /\ frames' = frames \ {x} /\ returning' = returning \ {x}
    /\ UNCHANGED <<control, mFlushInProcess, ports, mFrameDescriptors, mFrameBufferLock,
                   events, frameThread, state, bEnabled, cmds, history>>

ReturnStep == \E x \in Buffers : returnFrame(x) \/ FillThisBuffer(x)

-----------------------------------------------------------------------------
(* The component.                                                          *)

\* A buffer is full, or is given back because its port is flushed.
FillBufferDone(x) ==
    /\ x \in held /\ state = "Executing"
    /\ held' = held \ {x}
    /\ PostFrameThread(<<x[1], x[2], mBufferHeader[x[1]][x[2]]>>)
    /\ UNCHANGED <<control, mFlushInProcess, ports, mFrameDescriptors, mFrameBufferLock,
                   events, clientFrames, state, bEnabled, cmds, history>>

\* What a command waits for: a port is enabled when all its buffers have headers,
\* disabled when none has, and flushed when the component has none of its buffers.
Completable(c) ==
    CASE c[1] = "state"   -> TRUE
      [] c[1] = "enable"  -> \A b \in Bufs : mBufferHeader[c[2]][b] # 0
      [] c[1] = "disable" -> \A b \in Bufs : mBufferHeader[c[2]][b] = 0
      [] c[1] = "flush"   -> \A x \in held : x[1] # c[2]

\* OMX_EventCmdComplete; the component's thread has returned from the last one.
CmdComplete(c) ==
    /\ c \in cmds /\ Completable(c) /\ extracting = 0
    /\ cmds' = cmds \ {c}
    /\ state' = IF c[1] = "state" THEN c[2] ELSE state
    /\ bEnabled' = IF c[1] \in {"enable", "disable"}
                   THEN [bEnabled EXCEPT ![c[2]] = (c[1] = "enable")] ELSE bEnabled
    /\ EventHandler(c)
    /\ UNCHANGED <<control, mFlushInProcess, ports, mFrameDescriptors, mFrameBufferLock,
                   frameThread, clientFrames, held, history>>

Completes == \E c \in cmds : CmdComplete(c)
Fills == \E x \in Buffers : FillBufferDone(x)

Next == ControlCall \/ ControlStep \/ StartLocked \/ FrameThreadStep \/ ReturnStep
        \/ Completes \/ ExtractNode \/ Fills

\* The threads run, and a mutex does not pass over the same waiter for ever.
Fairness ==
    /\ WF_vars(ControlStep) /\ SF_vars(StartLocked) /\ WF_vars(FrameThreadStep)
    /\ WF_vars(Completes) /\ WF_vars(ExtractNode) /\ WF_vars(Fills)
Spec == Init /\ [][Next]_vars /\ Fairness

-----------------------------------------------------------------------------
(* Properties.                                                             *)

Commands == ({"state"} \X {"Loaded", "Idle", "Executing"})
            \cup ({"enable", "disable", "flush"} \X Ports)

Messages == Ports \X Bufs \X (1..MaxStarts)

\* Every variable has its type.  FillBufferDone never writes a message without a header,
\* mFrameSem never counts more messages than there are, and the semaphore of one call of
\* transitToState or flushBuffers is posted once at most, also after a failed start.
TypeOK ==
    /\ pc \in {"idle", "toIdle", "toExecuting", "toLoaded", "startLock", "enable",
               "enableWait", "flush", "flushWait", "disable", "free", "disableWait",
               "join", "gone"}
    /\ req \subseteq Ports /\ todo \subseteq Ports /\ ok \in BOOLEAN
    /\ starts \in 0..MaxStarts
    /\ mFlushInProcess \in BOOLEAN /\ mIsActive \in [Ports -> BOOLEAN]
    /\ mBufferHeader \in [Ports -> [Bufs -> 0..MaxStarts]]
    /\ mFrameDescriptors \in BOOLEAN
    /\ mFrameBufferLock \in {"free", Client, FrameThread}
    /\ mEventSignalQ \in Seq(Commands \X {"mGreLocalSem", "sem"})
    /\ extracting \in 0..Len(mEventSignalQ) /\ mGreLocalSem \in Nat /\ sem \in 0..1
    /\ fpc \in {"create", "wait", "received", "callback", "exited"}
    /\ msg \in Messages \cup {None}
    /\ mFrameMessageQ \in Seq(Messages \cup {Exit}) /\ mFrameSem \in -1..Len(mFrameMessageQ)
    /\ frames \subseteq Buffers /\ returning \subseteq frames
    /\ state \in {"Loaded", "Idle", "Executing"} /\ bEnabled \in [Ports -> BOOLEAN]
    /\ held \subseteq Buffers /\ cmds \subseteq Commands
    /\ passedEarly \in BOOLEAN /\ lostPost \in BOOLEAN
    /\ refused \in BOOLEAN /\ stale \in BOOLEAN /\ lostNode \in BOOLEAN

\* The camera and the component agree between calls: no command and no semaphore count
\* is left over from portEnableDisable, flushBuffers or transitToState, and of the
\* registrations at most the one that EventHandler has signalled and is about to extract;
\* a port is active exactly if it is enabled and its buffers have headers, and the
\* component executes only with an active port.  A wait on mGreLocalSem ends with its
\* own port's event.  Only a buffer that OMX_UseBuffer refused breaks this: the wait is
\* then unregistered by a call of EventHandler, whose post the next wait takes.
AgreeBetweenCalls ==
    ~refused =>
        /\ ~passedEarly
        /\ pc = "idle" =>
             /\ cmds = {} /\ DOMAIN mEventSignalQ \subseteq {extracting}
             /\ mGreLocalSem = 0 /\ sem = 0
             /\ \A p \in Ports : /\ mIsActive[p] = bEnabled[p]
                                 /\ \A b \in Bufs : mIsActive[p] = (mBufferHeader[p][b] # 0)
             /\ (state = "Executing") = (\E p \in Ports : mIsActive[p])

\* Where a buffer of a running port can be: with the component, in mFrameMessageQ,
\* with the frame thread or with the client.
Somewhere(x) ==
    \/ x \in held \cup frames
    \/ \E i \in DOMAIN mFrameMessageQ : SubSeq(mFrameMessageQ[i], 1, 2) = x
    \/ fpc \in {"received", "callback"} /\ <<msg[1], msg[2]>> = x

\* Unless a start failed, a port that streams never loses a buffer: whatever
\* FrameReceivedFunc or returnFrame dropped during a flush is filled again by the next
\* startPreview.
NoBufferLost ==
    pc = "idle" /\ ~refused => \A x \in Buffers : mIsActive[x[1]] => Somewhere(x)

\* No buffer is filled while the client works with it, and no callback runs on a deleted
\* frame descriptor, unless FrameReceivedFunc took a message whose header
\* freePortBuffers had freed.
NoBufferShared ==
    ~stale => /\ held \cap frames = {}
              /\ fpc = "callback" => mFrameDescriptors

\* Between stopPreview and the next startPreview, and while they run, buffers are
\* neither lost nor shared.
BuffersConserved == NoBufferLost /\ NoBufferShared

\* startPreview and stopPreview wait for the component and for mFrameBufferLock, which
\* the frame thread holds in its callback, and deinit waits for the frame thread,
\* however many frames are still queued.  Each call returns, but for a deinit one of
\* whose posts came before the frame thread had created its semaphore, and for a call
\* whose registration was lost, or a later one: list_append and list_extract share
\* mEventSignalQ without a lock.
CallsReturn ==
    (pc \notin {"idle", "gone"} /\ ~(pc = "join" /\ lostPost))
        ~> (pc \in {"idle", "gone"} \/ lostNode)
=============================================================================
