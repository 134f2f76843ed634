---------------------------- MODULE VisionEngine ----------------------------
(***************************************************************************)
(* The vision engine (VisionEngine.cpp), the thread class it is built on   *)
(* (CThreaded.cpp) and the file camera that feeds it (FileVisionCam.cpp,   *)
(* CameraEmulator.cpp).                                                    *)
(*                                                                         *)
(* Three threads: the application ("user"), the engine's RunThread and the *)
(* camera's RunThread.  The camera fills a buffer and hands its frame to   *)
(* ReceiveImage, which queues it; the engine takes frames off the queue,   *)
(* drops all but the newest, processes one and returns it to the camera.   *)
(* The camera allocates ONE VisionCamFrame and rewrites it for every       *)
(* picture: all the messages in the queue are the same pointer, and        *)
(* returnFrame frees the buffer the frame names at that moment.            *)
(*                                                                         *)
(* m_engineLock is left out: RunThread is its only user, and StartThread   *)
(* makes a second thread only after the first was joined.  Every step is   *)
(* one shared access of its thread or one region under a mutex.            *)
(***************************************************************************)
EXTENDS Queue, FiniteSets, FiniteSetsExt

CONSTANTS NumBuffers,      \* buffers registered with the camera
          NumFrames,       \* bound: largest numFrames of the constructor
          MaxStarts        \* bound: calls of Startup

ASSUME EngineAssumption ==
    NumBuffers \in Nat \ {0} /\ NumFrames \in Nat /\ MaxStarts \in Nat

Buffers == 0..(NumBuffers - 1)
Frame == "pFrame"          \* the only VisionCamFrame of a camera

VARIABLES
    \* the application
    upc,            \* "idle", inside StopThread or inside WaitForCompletion
    starts,         \* calls of Startup so far
    \* CThreaded and VisionEngine
    m_running, m_handle, m_framequeue, m_numFrames,
    lock,           \* who holds m_mutex across steps: "free", "engine", "camera"
    m_wait,         \* the event RunThread sets at its end
    epc,            \* the engine thread; "none" before it exists, "exited" after
    cameraFrame,    \* DequeueImage's local has been read into
    status,         \* Engine's status is STATUS_SUCCESS
    \* FileVisionCam and CameraEmulator
    m_pCam,         \* the camera exists
    camRunning,     \* its m_running
    cpc,            \* the camera thread; "none" before it exists, "exited" after
    used,           \* its m_buffers[].used
    m_lastIdx,      \* the buffer filled last, the one the frame names
    mLength,        \* the frame holds data
    \* history
    owed,           \* callbacks whose frame was not yet given to returnFrame
    thrown,         \* frames of this camera thrown away by queue_reset
    overwritten,    \* the frame was rewritten while a client still had it
    staleWait,      \* m_wait was already set when the engine was started
    interrupted     \* the queue was popped, or reset, under this run's engine

user == <<upc, starts>>
engine == <<epc, cameraFrame, status>>
camera == <<m_pCam, camRunning, cpc>>
frames == <<used, m_lastIdx, mLength, owed, thrown, overwritten>>
completion == <<m_wait, staleWait, interrupted>>
vars == <<user, m_running, m_handle, m_framequeue, m_numFrames, lock, engine,
          camera, frames, completion>>

Alive == epc # "crashed"   \* a NULL dereference ends the process

\* Steps that only move the program counter of their thread.
OnlyUserMoves == UNCHANGED <<starts, m_running, m_handle, m_framequeue, m_numFrames,
                             lock, engine, camera, frames, completion>>
OnlyEngineMoves == UNCHANGED <<user, m_running, m_handle, m_framequeue, m_numFrames, lock,
                               cameraFrame, status, camera, frames, completion>>
OnlyCameraMoves == UNCHANGED <<user, m_running, m_handle, m_framequeue, m_numFrames, lock,
                               engine, m_pCam, camRunning, frames, completion>>

-----------------------------------------------------------------------------
Init ==
    /\ upc = "idle" /\ starts = 0
    /\ m_running = FALSE /\ m_handle = FALSE
    /\ m_framequeue = queue_create
    /\ m_numFrames \in 0..NumFrames
    /\ lock = "free"
    /\ epc = "none" /\ cameraFrame = FALSE /\ status = TRUE
    /\ m_pCam = FALSE /\ camRunning = FALSE /\ cpc = "none"
    /\ used = [b \in Buffers |-> FALSE] /\ m_lastIdx = NumBuffers - 1 /\ mLength = TRUE
    /\ owed = 0 /\ thrown = 0 /\ overwritten = FALSE
    /\ m_wait = FALSE /\ staleWait = FALSE /\ interrupted = FALSE

-----------------------------------------------------------------------------
\* CThreaded makes a thread only if there is neither a handle nor a run.
StartThread ==
    LET create == ~m_handle /\ ~m_running
    IN  /\ m_running' = (m_running \/ create)
        /\ m_handle' = (m_handle \/ create)
        /\ epc' = IF create THEN "setup" ELSE epc
        /\ status' = (status \/ create)
        /\ staleWait' = (staleWait \/ (create /\ m_wait))
        /\ interrupted' = ~create

\* The application.  Startup resets the queue even when the engine runs.
Startup ==
    /\ Alive /\ upc = "idle" /\ starts < MaxStarts
    /\ starts' = starts + 1
    /\ m_framequeue' = queue_reset(m_framequeue)
    /\ thrown' = IF m_pCam THEN thrown + Len(m_framequeue.ring) ELSE thrown
    /\ StartThread
    /\ UNCHANGED <<upc, m_numFrames, lock, cameraFrame, camera, used, m_lastIdx,
                   mLength, owed, overwritten, m_wait>>

\* Called by dvp_test when WaitForCompletion fails.
Shutdown ==
    /\ Alive /\ upc = "idle" /\ starts > 0
    /\ m_running' = FALSE
    /\ upc' = "pop"
    /\ UNCHANGED <<starts, m_handle, m_framequeue, m_numFrames, lock, engine,
                   camera, frames, completion>>

\* StopThread, also called by the destructor, does nothing when the engine
\* has stopped itself.
StopThread ==
    /\ Alive /\ upc = "idle"
    /\ m_running
    /\ m_running' = FALSE
    /\ upc' = "stop"
    /\ UNCHANGED <<starts, m_handle, m_framequeue, m_numFrames, lock, engine,
                   camera, frames, completion>>

\* Mutant: Shutdown does not release the engine from its queue.
ShutdownOnlyClears ==
    /\ Alive /\ upc \in {"pop", "stop"}
    /\ upc' = IF upc = "stop" THEN "join" ELSE "idle"
    /\ OnlyUserMoves

\* The second half of Shutdown.
ShutdownPops ==
    /\ Alive /\ upc \in {"pop", "stop"}
    /\ m_framequeue' = queue_pop(m_framequeue)
    /\ interrupted' = TRUE
    /\ upc' = IF upc = "stop" THEN "join" ELSE "idle"
    /\ UNCHANGED <<starts, m_running, m_handle, m_numFrames, lock, engine,
                   camera, frames, m_wait, staleWait>>

Joined ==
    /\ Alive /\ upc = "join"
    /\ epc = "exited"
    /\ m_handle' = FALSE
    /\ upc' = "idle"
    /\ UNCHANGED <<starts, m_running, m_framequeue, m_numFrames, lock, engine,
                   camera, frames, completion>>

\* event_wait on a pulse-mode event goes to sleep without a look at its flag;
\* a broadcast (event_set), a timeout or a spurious wake-up ends the sleep.
WaitForCompletion ==
    /\ Alive /\ upc = "idle" /\ starts > 0
    /\ upc' = "wait"
    /\ OnlyUserMoves

WaitGivesUp ==
    /\ Alive /\ upc = "wait"
    /\ upc' = "woken"
    /\ OnlyUserMoves

\* It returns the flag and lowers it.
WaitReturns ==
    /\ Alive /\ upc = "woken"
    /\ upc' = "idle"
    /\ m_wait' = FALSE
    /\ staleWait' = (staleWait /\ ~m_wait)
    /\ UNCHANGED <<starts, m_running, m_handle, m_framequeue, m_numFrames, lock,
                   engine, camera, frames, interrupted>>

-----------------------------------------------------------------------------
\* The engine thread.
Go(from, to) == Alive /\ epc = from /\ epc' = to

\* VCAM_CMD_PREVIEW_START: the camera's thread runs if the file can be opened.
PreviewStart ==
    /\ camRunning' \in BOOLEAN
    /\ cpc' = IF camRunning' THEN "start" ELSE "none"

\* CameraInit, called by GraphSetup under the engine's lock: there may be no
\* camera at all, one that failed to start (no such file), or a running one.
GraphSetup ==
    /\ Go("setup", "unlock")
    /\ lock = "free" /\ lock' = "engine"
    /\ \/ status' \in BOOLEAN /\ UNCHANGED <<camera, frames>>
       \/ /\ m_pCam' = TRUE
          /\ PreviewStart
          /\ status' = camRunning'
          /\ used' = [b \in Buffers |-> FALSE]
          /\ m_lastIdx' = NumBuffers - 1
          /\ mLength' = TRUE /\ owed' = 0 /\ thrown' = 0 /\ overwritten' = FALSE
    /\ UNCHANGED <<user, m_running, m_handle, m_framequeue, m_numFrames,
                   cameraFrame, completion>>

SetupDone ==
    /\ Go("unlock", "loop")
    /\ lock' = "free"
    /\ UNCHANGED <<user, m_running, m_handle, m_framequeue, m_numFrames,
                   cameraFrame, status, camera, frames, completion>>

\* The while of Engine.
EngineLoop ==
    /\ Go("loop", IF m_running /\ status THEN "length" ELSE "teardown")
    /\ cameraFrame' = FALSE
    /\ UNCHANGED <<user, m_running, m_handle, m_framequeue, m_numFrames, lock,
                   status, camera, frames, completion>>

\* DequeueImage: all but the last frame are dropped.
MoreThanOne ==
    /\ Go("length", IF queue_length(m_framequeue) > 1 THEN "dropWait" ELSE "test")
    /\ OnlyEngineMoves

\* The blocking queue_reads wait for the read event first.
ReadEventSet ==
    /\ m_framequeue.readEvent
    /\ Go("dropWait", "dropRead") \/ Go("wait", "read")
    /\ OnlyEngineMoves

\* The frame's mFrameBuff is read before the result of queue_read is tested:
\* a first read that was popped leaves the pointer NULL.
DropRead ==
    /\ \/ Reads(m_framequeue) /\ Go("dropRead", "dropReturn") /\ UNCHANGED m_running
       \/ ~Reads(m_framequeue) /\ cameraFrame /\ Go("dropRead", "test") /\ m_running' = FALSE
       \/ ~Reads(m_framequeue) /\ ~cameraFrame /\ Go("dropRead", "crashed") /\ UNCHANGED m_running
    /\ m_framequeue' = queue_read(m_framequeue)
    /\ cameraFrame' = (cameraFrame \/ Reads(m_framequeue))
    /\ UNCHANGED <<user, m_handle, m_numFrames, lock, status, camera, frames, completion>>

\* Mutant: returnFrame leaves the buffer marked as used.
ReturnFrameKeepsUsed ==
    /\ owed' = owed - 1
    /\ UNCHANGED used

\* CameraEmulator::returnFrame.
returnFrame ==
    /\ used' = [used EXCEPT ![m_lastIdx] = FALSE]
    /\ owed' = owed - 1

\* Mutant: the dropped frame is not returned to the camera.
DropReturnForgets ==
    /\ Go("dropReturn", "length")
    /\ OnlyEngineMoves

DropReturn ==
    /\ Go("dropReturn", "length")
    /\ returnFrame
    /\ UNCHANGED <<user, m_running, m_handle, m_framequeue, m_numFrames, lock,
                   cameraFrame, status, camera, m_lastIdx, mLength, thrown,
                   overwritten, completion>>

TestRunning ==
    /\ Go("test", IF m_running THEN "wait" ELSE "quit")
    /\ OnlyEngineMoves

DequeueRead ==
    /\ Go("read", IF Reads(m_framequeue) THEN "got" ELSE "quit")
    /\ m_framequeue' = queue_read(m_framequeue)
    /\ UNCHANGED <<user, m_running, m_handle, m_numFrames, lock, cameraFrame,
                   status, camera, frames, completion>>

\* Engine: an empty frame is the end of the file.
GotFrame ==
    /\ Go("got", IF mLength THEN "process" ELSE "quit")
    /\ OnlyEngineMoves

\* The else branch: the engine stops itself and keeps the frame it may have.
Quit ==
    /\ Go("quit", "teardown")
    /\ m_running' = FALSE
    /\ status' = FALSE
    /\ UNCHANGED <<user, m_handle, m_framequeue, m_numFrames, lock, cameraFrame,
                   camera, frames, completion>>

ProcessImage ==
    /\ Go("process", "count")
    /\ status' = m_running
    /\ UNCHANGED <<user, m_running, m_handle, m_framequeue, m_numFrames, lock,
                   cameraFrame, camera, frames, completion>>

CountFrame ==
    /\ Go("count", "return")
    /\ lock = "free"
    /\ m_numFrames' = IF m_numFrames > 0 THEN m_numFrames - 1 ELSE 0
    /\ m_running' = (m_running /\ m_numFrames # 1)
    /\ UNCHANGED <<user, m_handle, m_framequeue, lock, cameraFrame, status,
                   camera, frames, completion>>

ReturnCameraFrame ==
    /\ Go("return", "loop")
    /\ returnFrame
    /\ UNCHANGED <<user, m_running, m_handle, m_framequeue, m_numFrames, lock,
                   cameraFrame, status, camera, m_lastIdx, mLength, thrown,
                   overwritten, completion>>

\* Mutant: RunThread signals the end before the teardown.
TeardownSignalsFirst ==
    /\ Go("teardown", IF m_pCam THEN "joinCam" ELSE "free")
    /\ camRunning' = FALSE
    /\ m_wait' = TRUE
    /\ upc' = IF upc = "wait" THEN "woken" ELSE upc
    /\ UNCHANGED <<starts, m_running, m_handle, m_framequeue, m_numFrames, lock,
                   cameraFrame, status, m_pCam, cpc, frames, staleWait, interrupted>>

\* GraphTeardown and CameraDeinit: the camera's StopThread, outside the lock.
Teardown ==
    /\ Go("teardown", IF m_pCam THEN "joinCam" ELSE "free")
    /\ camRunning' = FALSE
    /\ UNCHANGED <<user, m_running, m_handle, m_framequeue, m_numFrames, lock,
                   cameraFrame, status, m_pCam, cpc, frames, completion>>

CameraDeinit ==
    /\ Go("joinCam", "free")
    /\ cpc \in {"none", "exited"}
    /\ m_pCam' = FALSE
    /\ cpc' = "none"
    /\ UNCHANGED <<user, m_running, m_handle, m_framequeue, m_numFrames, lock,
                   cameraFrame, status, camRunning, frames, completion>>

\* Images, nodes, graphs, the display and the DVP handle, under the lock.
FreeAll ==
    /\ Go("free", "signal")
    /\ lock = "free"
    /\ OnlyEngineMoves

\* The end of RunThread: event_set wakes a thread that waits now.
EngineExits ==
    /\ Go("signal", "exited")
    /\ m_wait' = TRUE
    /\ upc' = IF upc = "wait" THEN "woken" ELSE upc
    /\ UNCHANGED <<starts, m_running, m_handle, m_framequeue, m_numFrames, lock,
                   cameraFrame, status, camera, frames, staleWait, interrupted>>

EngineStep ==
    \/ GraphSetup \/ SetupDone \/ EngineLoop \/ MoreThanOne \/ ReadEventSet \/ DropRead
    \/ DropReturn \/ TestRunning \/ DequeueRead \/ GotFrame \/ Quit \/ ProcessImage
    \/ CountFrame \/ ReturnCameraFrame \/ Teardown \/ CameraDeinit \/ FreeAll \/ EngineExits

-----------------------------------------------------------------------------
\* The camera thread.
Cam(from, to) == Alive /\ cpc = from /\ cpc' = to

\* An AVI file without a movie list ends the thread at once.
CameraStarts ==
    /\ Cam("start", "sleep") \/ Cam("start", "exited")
    /\ OnlyCameraMoves

\* The next buffer after the last one, round the array, that is not in use.
IsFree(k) == ~used[(m_lastIdx + k) % NumBuffers]
getNextFreeBuffer == (m_lastIdx + Min({k \in 1..NumBuffers : IsFree(k)})) % NumBuffers

\* Mutant: the frame is passed on without its buffer being marked.
CameraFillsUnmarked ==
    /\ camRunning
    /\ \E b \in Buffers : ~used[b]
    /\ Cam("sleep", "receive")
    /\ m_lastIdx' = getNextFreeBuffer
    /\ mLength' \in BOOLEAN
    /\ owed' = owed + 1
    /\ overwritten' = (overwritten \/ owed > 0)
    /\ UNCHANGED <<user, m_running, m_handle, m_framequeue, m_numFrames, lock,
                   engine, m_pCam, camRunning, used, thrown, completion>>

\* The timer has expired: the next picture is read into a free buffer and the
\* frame is pointed at it, which is empty at the end of the file or if a chunk of
\* the file is no picture.
CameraFills ==
    /\ camRunning
    /\ \E b \in Buffers : ~used[b]
    /\ Cam("sleep", "receive")
    /\ m_lastIdx' = getNextFreeBuffer
    /\ used' = [used EXCEPT ![getNextFreeBuffer] = TRUE]
    /\ mLength' \in BOOLEAN
    /\ owed' = owed + 1
    /\ overwritten' = (overwritten \/ owed > 0)
    /\ UNCHANGED <<user, m_running, m_handle, m_framequeue, m_numFrames, lock,
                   engine, m_pCam, camRunning, thrown, completion>>

CameraExits ==
    /\ ~camRunning
    /\ Cam("sleep", "exited")
    /\ OnlyCameraMoves

\* ReceiveImage, which runs on the camera's thread.
ReceiveImage ==
    /\ Cam("receive", IF m_running THEN "write" ELSE "shutdown")
    /\ OnlyCameraMoves

ReceiveWrites ==
    /\ Cam("write", IF Writes(m_framequeue) THEN "sleep" ELSE "full")
    /\ m_framequeue' = queue_write(m_framequeue, Frame)
    /\ UNCHANGED <<user, m_running, m_handle, m_numFrames, lock, engine, m_pCam,
                   camRunning, frames, completion>>

\* The queue is full (or popped): the frame is dropped but counted, and the
\* last one shuts the engine down, the lock still held.
ReceiveDrops ==
    /\ lock = "free"
    /\ Cam("full", IF m_numFrames = 1 THEN "lockedShutdown" ELSE "sleep")
    /\ lock' = IF m_numFrames = 1 THEN "camera" ELSE "free"
    /\ returnFrame
    /\ m_numFrames' = IF m_numFrames > 0 THEN m_numFrames - 1 ELSE 0
    /\ UNCHANGED <<user, m_running, m_handle, m_framequeue, engine, m_pCam,
                   camRunning, m_lastIdx, mLength, thrown, overwritten, completion>>

CameraShutdown ==
    /\ Cam("shutdown", "pop") \/ Cam("lockedShutdown", "lockedPop")
    /\ m_running' = FALSE
    /\ UNCHANGED <<user, m_handle, m_framequeue, m_numFrames, lock, engine, m_pCam,
                   camRunning, frames, completion>>

CameraPops ==
    /\ \/ Cam("pop", "sleep") /\ UNCHANGED lock
       \/ Cam("lockedPop", "sleep") /\ lock' = "free"
    /\ m_framequeue' = queue_pop(m_framequeue)
    /\ interrupted' = TRUE
    /\ UNCHANGED <<user, m_running, m_handle, m_numFrames, engine, m_pCam,
                   camRunning, frames, m_wait, staleWait>>

CameraStep ==
    \/ CameraStarts \/ CameraFills \/ CameraExits \/ ReceiveImage \/ ReceiveWrites
    \/ ReceiveDrops \/ CameraShutdown \/ CameraPops

-----------------------------------------------------------------------------
UserStep == \/ Startup \/ Shutdown \/ StopThread \/ ShutdownPops \/ Joined
            \/ WaitForCompletion \/ WaitGivesUp \/ WaitReturns

Next == UserStep \/ EngineStep \/ CameraStep

\* The scheduler is fair to every thread that can run.  Nobody has to call
\* Startup or StopThread, no file has to be long enough, and no wait has to
\* time out.
Fairness == /\ WF_vars(ShutdownPops) /\ WF_vars(Joined) /\ WF_vars(WaitReturns)
            /\ WF_vars(EngineStep) /\ WF_vars(CameraStep)

Spec == Init /\ [][Next]_vars /\ Fairness

-----------------------------------------------------------------------------
\* Type invariant.
TypeOK ==
    /\ upc \in {"idle", "pop", "stop", "join", "wait", "woken"} /\ starts \in 0..MaxStarts
    /\ m_running \in BOOLEAN /\ m_handle \in BOOLEAN
    /\ m_framequeue \in QueueOf({Frame}) /\ Len(m_framequeue.ring) <= QueueDepth
    /\ m_numFrames \in 0..NumFrames
    /\ lock \in {"free", "engine", "camera"}
    /\ epc \in {"none", "setup", "unlock", "loop", "length", "dropWait", "dropRead",
                "dropReturn", "test", "wait", "read", "got", "process", "count", "return",
                "quit", "teardown", "joinCam", "free", "signal", "exited", "crashed"}
    /\ cameraFrame \in BOOLEAN /\ status \in BOOLEAN
    /\ m_pCam \in BOOLEAN /\ camRunning \in BOOLEAN
    /\ cpc \in {"none", "start", "sleep", "receive", "write", "full", "shutdown",
                "pop", "lockedShutdown", "lockedPop", "exited"}
    /\ used \in [Buffers -> BOOLEAN] /\ m_lastIdx \in Buffers /\ mLength \in BOOLEAN
    /\ owed \in 0..NumBuffers /\ thrown \in 0..NumBuffers /\ overwritten \in BOOLEAN
    /\ m_wait \in BOOLEAN /\ staleWait \in BOOLEAN /\ interrupted \in BOOLEAN

\* While the engine runs no frame is lost or returned twice: every frame the
\* camera handed out and has not got back is in the queue, in the engine's
\* hands or still inside ReceiveImage, unless a second Startup threw it away.
\* Three paths return frames (ReceiveImage, DequeueImage, Engine) on two threads.
FramesConserved ==
    (m_running /\ m_pCam /\ epc # "quit") =>
        owed = Len(m_framequeue.ring) + thrown
               + (IF epc \in {"dropReturn", "got", "process", "count", "return"} THEN 1 ELSE 0)
               + (IF cpc \in {"receive", "write", "full"} THEN 1 ELSE 0)

\* FileVisionCam.cpp:418 hopes that "client should return it before the next
\* timer".  As long as that came true, the buffers in use are exactly the one
\* whose frame is out: none is lost and none is filled under the client.
ReturnedBeforeNext ==
    (m_pCam /\ ~overwritten) =>
        {b \in Buffers : used[b]} = (IF owed = 0 THEN {} ELSE {m_lastIdx})

\* WaitForCompletion returns true only when the engine is out of RunThread and
\* its camera has been stopped, joined and deleted, unless the event was left
\* set by an earlier run that nobody waited for.
CompletionMeansDone ==
    [][(upc = "woken" /\ upc' = "idle" /\ m_wait /\ ~staleWait)
         => (epc = "exited" /\ ~m_pCam /\ cpc = "none")]_vars

\* DequeueImage dereferences the frame before it looks at queue_read's result.
\* That is a NULL pointer only if the queue was popped under it, or emptied by a
\* Startup that found the engine running: a read of the frame dropper never comes
\* back empty by itself, even though queue_length still counts the frames that
\* an earlier run left behind.
NullOnlyWhenInterrupted == (epc = "crashed") => interrupted

\* No frame is lost, and none is missing where DequeueImage relies on one.
FramesAccountedFor == FramesConserved /\ NullOnlyWhenInterrupted

\* StopThread returns: the engine leaves whatever it is blocked on, stops its
\* camera, which may be waiting for the engine's lock, and exits, or has
\* dereferenced NULL.
StopReturns == (upc = "join") ~> (upc = "idle" \/ epc = "crashed")
=============================================================================
