# A verification project for DVP

DVP (Distributed Vision Processing) runs graphs of image kernels on the cores
of an OMAP device. A client builds a *kernel graph* of *sections*, each a list
of *nodes*; sections carry an *order*, and sections of the same order may run
in parallel. This directory models the part of DVP that decides when something
runs, who waits for whom and what is reported back: the graph API, the thread
pool and queues below it, the boss that places nodes on cores, the request
protocol of the kernel graph managers, the calls to remote cores that may die,
the engine that drives graphs with frames from a camera, and the OMX camera.
The kernels
themselves (image processing) are left out.

## 1. Inventory

| component | source | state | operations | interacts with |
|---|---|---|---|---|
| ring | `sosal/ring.c` | buffer, `front`, `back`, `numBytesFree`, `numBytesUsed` | create, write, read | owned by a queue, under its mutex |
| event | `sosal/event.c` | `set` flag, condition variable | set, reset, wait | queues, pool, graph lock |
| queue | `sosal/queue.c` | ring, `active`, `popped`, `msgCount`, two events, mutex | read, write (blocking or not), enable, disable, pop, unpop, reset, length | pool workers, managers |
| thread pool | `sosal/threadpool.c` | one queue and thread per worker, `numCurrentItems`, `nextWorkerIndex`, `sem`, `completed` | create, issue, complete, destroy, worker loop | graph API |
| graph API | `dvp_kgraph/dvp_kgraph.c` | graph lock (`m_enabled`, `m_count`, `m_wait`), static pool and collectors, callback semaphore | Init, Verify, Process, Deinit, section worker | pool, boss, client callback |
| boss | `dvp_kgraph/dvp_kgb.c` | managers, shared load table | Init, Deinit, Verify, Process, configure, commit and decommit load | managers, other processes |
| managers | `dvp_kgm_cpu`, `dvp_kgm_dsp`, `dvp_kgm_simcop` | `workqueue`, `retqueue`, workers, `coreLock` | Init, Deinit, manager call (sync or queued), worker loop, restart | boss, remote cores |
| RPC | `dvp_rpc_omaprpc.c`, `omaprpc.c` | device, `in_restart`, retries | open, call, restart | managers, driver, remote core |
| heap, list | `sosal/heap.c`, `sosal/list.c` | block chain, links | alloc, free, coalesce | allocators |
| VisionEngine, CThreaded | `VisionEngine.cpp`, `CThreaded.cpp` | `m_running`, `m_handle`, frame queue, `m_numFrames`, `m_wait` | Startup, Shutdown, StopThread, WaitForCompletion, frame loop, ReceiveImage | graph API, camera, application |
| file camera | `FileVisionCam.cpp`, `CameraEmulator.cpp` | thread, buffers in use, one frame | start, stop, returnFrame | VisionEngine |
| OMX camera | `OMXVisionCam.cpp` | ports, buffer headers, registered waits, flush flag, frame queue | useBuffers, start and stop of the preview, releaseBuffers, deinit, EventHandler, FillBufferDone, frame thread, returnFrame | OMX component, client |
| other cameras, display | C++ / C | driver buffers | start, stop, enqueue, dequeue | external frameworks |

What is hard in this code:

* **Waits end without their event.** `event_wait` waits once and returns, whatever
  ended the wait; the teardown of the graph API ignores its result and Process only
  logs it.
* **Events are kept by hand.** Eight queue functions set and reset two events;
  a blocking call waits for its event *before* it takes the mutex, so what it
  waited for may be gone.
* **Counting across threads.** The pool counts an item around its write while
  the worker may already have finished it; one semaphore orders the two.
* **Replies in any order.** Callers of a manager share one reply queue and
  sort out by hand whose reply is whose.
* **Teardown.** Each layer is torn down under threads that wait in it: the pool
  and the managers pop queues and join, the graph API waits for an event.
* **Remote cores die.** A call notices it, reopens the device, sends the core
  its INIT again through a nested call, and then fails; the core may die again
  at any point of that.
* **Shared load.** All sections of all processes book their load in one table
  and take it off again, also after failures and reconfigurations.
* **Frames change hands** between the camera's and the engine's thread on
  three paths, while a third thread starts and stops both; the file camera
  rewrites one frame object for every picture.
* **Waiting for events of a component.** The OMX camera sends commands and waits
  for their events on semaphores, while the component's thread hands over filled
  buffers, a third thread gives them to the client and a fourth returns them; a
  stop flushes all of this with one flag and one lock. The list of registered waits
  has no lock at all.
* **Shared statics.** All graphs of a process share one array of collectors and
  one pool.

What makes each component correct is stated by the properties in section 4;
`PROJECT.json` lists every hazard with its line and the properties about it.

## 2. Modules

| module | models | composed of |
|---|---|---|
| `ByteFifo` | what a ring promises: a bounded stream of bytes | |
| `Ring` | `ring.c`, with pointers as offsets | refines `ByteFifo` |
| `Queue` | the functions of `queue.c` under the mutex, as operators on a queue record | uses the ring as a bounded sequence of messages, which `RingImplementsFifo` justifies |
| `QueueClients` | one queue, its readers and writers, and a thread that controls it | `Queue` |
| `ThreadPool` | `threadpool.c` | a `Queue` per worker |
| `GraphManager` | the queued calls of the three managers | two `Queue`s |
| `KernelGraph` | `dvp_kgraph.c` | the pool, by what `ThreadPool` shows of it |
| `RemoteCore` | `omaprpc_call`, `omaprpc_restart`, the remote core | |
| `GraphBoss` | `dvp_kgb.c`, the synchronous path of a remote manager | `RemoteCore` |
| `VisionEngine` | `VisionEngine.cpp`, `CThreaded.cpp`, the file camera | a `Queue` of frames |
| `OmxCamera` | `OMXVisionCam.cpp`, with the OMX component as an external part | |
| `RingProofs`, `QueueProofs`, `ThreadPoolProofs`, `GraphManagerProofs`, `KernelGraphProofs`, `GraphBossProofs`, `VisionEngineProofs`, `OmxCameraProofs` | theorems | the module they are named after; `GraphBossProofs` covers `RemoteCore` |
| `MCThreadPool`, `MCKernelGraph`, `MCGraphBoss` | values for constants that a cfg cannot write | |

`PROJECT.json` maps every definition to the lines it stands for. How state and
actions correspond:

* **Ring.** The variables are the fields of `ring_t` (`start` is offset 0, `end`
  is `TotalNumBytes`); `result` is what the last call copied. `ring_write` and
  `ring_read` are one action each, with a disjunct per way of copying. The
  three wrapping writes of the code (one byte, not inverted, empty) compute the
  same and are one disjunct; so are the two wrapping reads. A call in a state
  where an `assert` would fail has no step; `AssertionsHold` shows that the only
  such call is a write of no bytes to a full ring.
* **Queue.** A record with the fields of `queue_t`. All messages have one size,
  so `numBytesFree > 0` is "one more message fits". `WriteReturns` and
  `ReadReturns` are the results, which depend on the result of the event wait
  when the queue is disabled.
* **QueueClients.** A thread in a call is at "wait" (in the loop around
  `event_wait`) or at "lock" (about to take `q->access`). The messages are
  numbers, so that each is told from the others.
* **ThreadPool.** `threadpool_issue` holds `sem` from `IssueBegin` to
  `IssueEnd`, with one `IssueTry` per turn of its do-while; workers go on
  meanwhile. `threadpool_complete` waits once, and a sleeper may be woken by
  the condition variable alone (`SpuriousWakeup`). `threadpool_destroy` starts
  when no client is inside, with work possibly left in the queues.
* **GraphManager.** A caller goes through the write to `workqueue` and the loop
  on `retqueue`. A reply is matched by its node range, so each caller repeats
  requests that look the same; the call number exists only in the model.
  `RetryRead` tells the CPU manager from the DSP and SIMCOP managers.
* **KernelGraph.** `pc` follows `DVP_KernelGraph_Process` (with the inlined
  `DVP_KernelGraph_Verify`), `dpc` follows `DVP_KernelGraph_Deinit`. The value
  `dvp_graph_lock` returns is read after the mutex is released, so it is a step
  of its own. The pool is a set of slots; a slot's item is queued, running or
  in its callback. A callback may mark later sections to be skipped. A thread
  asleep in `event_wait` is woken by its event or by the condition variable alone
  (`WakesByItself`, `DeinitWakesByItself`), and then goes on as the code does: Process
  counts nothing and starts the next order, the teardown disables the lock.
* **RemoteCore.** `rpc` follows a caller through `omaprpc_call` and, when a
  write or read fails with a restart condition, through `omaprpc_restart`; the
  nested INIT goes through the same write and read with `in_restart` set. The
  device is open, stale (its core died), opened but not connected, closed (-1),
  or freed with its `omaprpc_t`. A call on a freed context fails or ends the
  process. The server and driver (`Serve`, `Die`, `Reboot`) are external.
* **GraphBoss.** The state after the managers were found; `ManagerInit` is the
  remote manager's INIT call, which may fail and disable it. A section goes
  through configure, commit, its groups of nodes on one manager, and decommit.
  The do-while of `DVP_ConfigureNodes` is a function of the number of tries
  (`Tried`), its result is chosen per node. The boss is compiled with
  `DVP_USE_LOAD_TABLE` and `DVP_OPTIMIZED_GRAPHS` (`dvp_kgb.c:37-40`, for
  Linux, Android and QNX) and without `DVP_CONTINUE_ON_ERRORS`.
* **VisionEngine.** `upc`, `epc` and `cpc` follow the application, the engine's
  `RunThread` and the camera's. `m_mutex` is a variable only where it is held
  across steps (`lock`). `owed` counts frames handed out and not returned;
  `interrupted` records that the queue was popped, or reset by a Startup that
  found the engine running, since this run began. A NULL dereference ends the
  process (`crashed`).
* **OmxCamera.** `pc` follows the control thread through `startPreview`,
  `stopPreview` and what they call, `fpc` the frame thread; `FillBufferDone` and
  `CmdComplete` are the component's callbacks, `returnFrame` and
  `FillThisBuffer` the two halves of `returnFrame`. A buffer header is the
  number of the start that made it, so that a message whose header was freed is
  told apart; what the frame thread finds in freed memory is any buffer or none.
  `EventHandler` posts the semaphore of the first node that matches, and `ExtractNode`
  takes that node off the list later; in between, or after the list has been damaged
  once, `Register` may lose the new node (`lostNode`).

Conventions: an operator whose comment starts with "Mutant:" is a deliberately
wrong variant of the definition after it. It is used nowhere in the
specification; substituting it must make the property that `PROJECT.json` names
fail.

## 3. Runs

Each passing run takes at most about two and a half minutes with two workers.

| run | bounds | states |
|---|---|---|
| `ring` | 4 bytes, transfers of 0 to 5 | 1,488 |
| `queue` | depth 2, two readers, one writer, 3 messages | 50,464 |
| `threadpool` | 2 workers, depth 1, two clients, 6 items in 3 batches | 183,849 |
| `graph_manager` | 2 callers, 2 calls each, 2 workers, depth 2 | 4,211 |
| `kernel_graph` | 4 threads, 2 in a behaviour, 2 workers, depth 1, graphs of 1 to 4 sections; waits of one thread and of the teardown end by themselves | 384,845 |
| `graph_boss` | 2 sections of 2 nodes, 3 manager tables, 2 deaths, 1 signal, 2 retries, 2 executions, 1 reconfiguration | 244,251 |
| `vision_engine` | queue of 2, 3 buffers, 1 frame to count, 2 starts | 1,430,923 |
| `omx_camera` | 2 ports, 1 buffer each, 2 starts, buffers may be refused, registrations lost | 874,963 |
| `graph_manager_remote` | as above, 1 worker, no retry | violation |
| `kernel_graph_parallel`, `_teardown`, `_leak` | 2 threads, other graphs | violation |

Why the bounds are enough for the cases that matter. *Ring*: four bytes and
transfers of none to five give empty calls, refused writes, exact fits at the end and in the gap,
wraps with and without a rest, partial reads and the full ring at every offset;
the theorems cover the other sizes. *Queue*: three messages against two slots
make a writer wait; two readers race for one message. *Pool*: the first batch
of three overruns two queues of one, one client comes back, the other issues
meanwhile. *Manager*: two callers are enough to swap replies, two calls to meet
an old reply, two workers to lose a race. The queues are as deep as there are
callers, so they are never full; nor are they in the code, where only the four
pool workers make queued calls and the depth is ten. *Graph*: two
pairs of threads. In the first a graph with a parallel pair meets one that goes on
inline after its pair, so that they share the collectors and the pool. In the second
a graph with a pair of order 0 after a pair of order 1 (so the scan of order 1 gives
up, runs inline or ends, depending on what the callbacks skip) meets one that is
inline only, and the first one's waits may end by themselves (`Sleepers`), also while
its sections are still in the pool. A teardown comes at any time and its wait may end
by itself. `MAX_SECTIONS` and
`MAX_QUEUE_DEPTH` are 4 and 2 in the code, 2 and 1 here. *Boss*: two sections
compete for coreLock and for the load of a core, whose maximum may be lowered;
the core dies twice, so also in the restart after its first death; one signal is
enough to leave a reply behind. The tables have the priorities of an OMAP, equal
priorities and a core without priority. `DVP_MAX_RESTART_RETRY` is 100 in the
code; two tries give the first, the last and the exhausted one. *Engine*: the
queue overflows, the frame dropper has two frames to drop, buffers run out, and
the second start meets what the first run left behind (8 and 8 in the code).
*OMX camera*: two ports make the loops over ports and their common lock and
semaphore matter, a buffer in the queue when the preview stops is met by the
second start, and a refused buffer of the first start by the second; each wait of a
call can be registered while the node of the one before is being extracted.

## 4. What the runs check

**ring.** `PointersAgree`: pointers and counts describe the same contents.
`AssertionsHold`: the branches the code calls impossible are, with one exception: a
write of no bytes passes the space test of a full ring and fails the assert of
`ring.c:136`. `ImplementsFifo`:
refinement of `ByteFifo`.

**queue.** `EventsTrackRing`: on a usable queue the events say exactly whether a
read or a write can succeed, after any history of control calls.
`TransferredUnlessDisabled`: `true_e` means the message was moved.
`NoLostWakeup`: nobody sleeps through data or space.

**threadpool.** `PendingTracked` (`CountIsPending` and `CompletedIffIdle`): the
count and the event are exact whenever no issue is in progress. `CompleteTrueMeansDone`: true from
`threadpool_complete` means this client's items ran, once each.
`CompleteReturns`, `DestroyTerminates`: joins and waits.
The branch of `threadpool_issue` whose comment asks "(how?)" is a disjunct of
the model that changes nothing in any reachable state.

**graph_manager.** `ReturnsOwnReply`, `NothingLeftBehind`: a call of the CPU
manager returns the answer to its own request and leaves nothing of it behind.
`CallsProgress`: workers that lose a race leave for good, but the last one
stays and every request is answered (`RequestIsAnswered`); a
call returns unless another caller stays in the reply loop with it; two callers
can swap replies for ever (`LoneCallerReturns`). `DeinitTerminates`.

**kernel_graph.** `LockCountsGraphs`: `m_count` and `m_wait` are exact across
the unlock, verify, lock sequence. `TeardownWaits`: the handle is freed with
nobody at work, if no lock call came after the teardown's wait and that wait was ended
by its event. `OrderRespected`: the orders are barriers. `CountedSectionsRan`: the
returned count never exceeds what ran, also after a wait that ended too early.
`CallbackExclusive`: workers enter callbacks one at a time, and a graph has one
callback at a time, inline ones included. `EveryoneGetsOut` (`ProcessReturns` and
`DeinitEnds`). Six history flags name the situations in which the code promises less.
`leaked`, `late`, `overlap` and `refused` (a thread that returned without unlocking, a
lock after the teardown's wait, two graphs in the collectors at once, a pool without
room): the next runs show that these are real. `early` (threads) and `earlyDeinit`: the
condition variable ended a wait by itself, so that `event_wait` returns `false_e` with
sections pending or graphs inside; Process then starts the next order
(`dvp_kgraph.c:310`) and the teardown frees the handle (`:131`).

**graph_boss.** `LoadTableConserved`: the shared table holds exactly the loads of
the sections that run, through refused commits, failures and reconfigurations.
`ExecOnInitialisedCore`: no kernel reaches a core that was rebooted and not
initialised again. `OwnReply`: replies, which are not compared with requests,
still match them, unless a signal interrupted a read. `FaultMeansUnsupported`:
a section is refused only if no manager that the search can see supports one of
its kernels. `ProcessEnds`: whatever the core does, a section gets to its end or
is refused its load, and coreLock is always given back; the managers' default
branch, which keeps it, is never reached because the boss sends no kernel to a
manager that does not list it.

**vision_engine.** `FramesAccountedFor`: while the engine runs no frame is lost or
returned twice (`FramesConserved`), and the frame dropper's unchecked read comes
back empty only if it was popped or the queue was reset under it
(`NullOnlyWhenInterrupted`). `ReturnedBeforeNext`: as long as every frame came back before
the next timer, as the camera hopes, the buffers in use are exactly the frame
that is out; otherwise buffers are lost, because all frames are one object.
`CompletionMeansDone`:
true from `WaitForCompletion` means that engine and camera are gone, unless the
event was left over from an earlier run. `StopReturns`: `StopThread` ends,
although it joins the engine, which joins the camera, which may want the
engine's lock. It does not say that `WaitForCompletion` returns: `event_wait` on an
autoreset event sleeps without a look at the flag, so that an application which
calls it after the engine has finished is never woken.

**omx_camera.** `AgreeBetweenCalls`: between calls no command or semaphore count is
left over, of the registered waits at most the one that has been posted and that the
component's thread is about to extract, and camera and component agree on ports and state;
a wait for a port ends with that port's own event. `BuffersConserved`: what a
flush dropped is filled again by the next start, no buffer is filled while the
client has it and no callback runs on a deleted descriptor. `CallsReturn`: the
waits for the component, for `mFrameBufferLock` and for the frame thread all
end. Their premises name what the code does not handle, each of which TLC shows
to happen when the premise is left out:

* `refused`: after `OMX_UseBuffer` has refused a buffer, `portEnableDisable`
  unregisters its wait by calling `EventHandler` (`OMXVisionCam.cpp:914`), which
  posts `mGreLocalSem`; the next wait on it passes before its event.
* `stale`: `FrameReceivedFunc` tests the flush flag before it takes the lock
  (`:4620`), and nothing drains `mFrameMessageQ`; a message of the previous
  preview can be delivered while its buffer is filled again, or after
  `releaseBuffers` has deleted the descriptors.
* `lostNode`: `EventHandler` posts the semaphore (`:4431`) and then extracts the node,
  and the list has no lock. The woken thread's next `list_append` (`:4371`) can meet
  `list_pop` or `list_trim`, which leave its node unreachable; its event finds no match
  and the call never returns.
* `lostPost`: the frame thread creates `mFrameSem` itself (`:106`); a post of
  `deinit` that comes first is lost and the join never ends.
* The client starts and stops all its ports together (`Requests`). With a port
  still running, the flag that the stop of another has set keeps its frames back
  and `BuffersConserved` fails (`:3757`).

**Violations** (findings in `PROJECT.json`).

* `graph_manager_remote`: a DSP or SIMCOP caller woken together with another
  finds `retqueue` empty, breaks out of its loop and returns 0 with its request
  still under way.
* `kernel_graph_parallel`: two graphs at once share the static collectors.
* `kernel_graph_teardown`: a thread that locks between the teardown's wait and
  its `m_enabled = false_e` has the handle freed under it, and so has one that is
  inside when the teardown's wait ends by itself.
* `kernel_graph_leak`: the early return from the scan leaves the graph locked,
  so the teardown blocks for ever.

**Fairness.** Weak fairness of the steps of a thread that is inside a call, of
worker loops and of a teardown under way: operating system threads that can run
do run, and mutexes are held for a bounded time. Nobody is obliged to start a
call. There is no strong fairness, which is why the reply swapping of the
managers shows, except for the lock of `startPreview` in `OmxCamera`: the frame
thread takes the same mutex again and again, and a mutex does not pass over one
waiter for ever. `KernelGraph` needs only that *some* thread that can go on
does, because every thread processes one graph. In `GraphBoss` a core that is up
answers, but a dead one need not come back and no signal has to come; a section
that was refused its load may be refused for ever. In `VisionEngine` no wait has
to time out and no file has to be long enough. In `OmxCamera` the component
answers commands, gets on with an extraction it has begun and fills buffers it has; the client need not return a frame.

Deadlock is checked in `ring`, `queue`, `threadpool`, `graph_manager` and
`kernel_graph`: the only states without progress are the ones after a completed
teardown, and in `KernelGraph` the one where the teardown waits for a leaked
lock (`Terminated`, `Stopped`). `GraphBoss`, `VisionEngine` and
`OmxCamera` may stop: when
the bounds are used up, the process has ended or nobody calls anything.

## 5. What is proved

For every value of the constants that satisfies the named assumptions (`Ring`:
a positive size and maximal length; `Queue`: a positive depth; `QueueClients`:
disjoint readers and writers; further ones where they are used):

* `RingTypeOK`, `RingPointersAgree`, `RingAssertionsHold`. The inductive
  invariant is `TypeOK /\ PointersAgree`: the equation for `back` needs
  `front` and the counts in range, and the range of `back` after a copy needs
  the equation. Lemmas: `CopyWrappedFacts` (a wrapping copy advances `back` by
  the length, modulo the size), `TakeIInv` (taking n bytes from the front
  keeps the invariant, whichever branch took them), `Advance` (arithmetic).
  The asserts follow from the invariant alone, for transfers of any length, 0 included;
  that the empty write to a full ring fails one is part of the theorem.
* `RingImplementsFifo`: `Spec => ImplementsFifo`. With the refinement mapping
  `Contents` (the bytes from `front` on, unrolled), each disjunct of a write
  appends its bytes to `Contents` and each disjunct of a read takes a prefix.
* `QueueTypeOK`, `QueueEventsTrackRing`. Inductive invariant
  `TypeOK /\ EventsTrackRing /\ CallsCarry`; `CallsCarry` says that a writer in
  a call has a message, without which the ring's type is not preserved. There is
  one lemma per queue function, independent of the clients (`WriteFacts`,
  `ReadFacts`, ...).
* `QueueTransfers`: `true_e` means transferred unless disabled. It is not
  inductive by itself: the proof adds that the queue is active as long as
  nobody has disabled it.

* **Thread pool** (`PoolAssumption`: disjoint items, each issued once, a
  semaphore value that is no client): `PoolTypeOK`, `PendingTrackedHolds`,
  `CompleteTrueMeansDoneHolds`. `PendingTracked` is not inductive: that the count
  goes down by one needs the finished item to be pending in one place only
  (`Apart`), and that completion means "ran once" needs to know how often an item
  has run at each place of its way through the pool (`RunsByPlace`, `Issued`).
  The invariant `PoolInv` joins these with who holds `sem` (`Control`).
* **Manager protocol**: `TypeCorrect`; for the CPU manager (`RetryRead`)
  `NothingLeftBehindHolds` and `ReturnsOwnReplyHolds`. A request and its reply are
  one message; `MessageInv` says that it is in one place only and that its caller
  is in the reply loop of the same call. `RetryRead` is a hypothesis, because the
  other managers break both (run `graph_manager_remote`). `ReturnsOwnReplyHolds`
  also needs at least as much depth as there are callers: `RoomForRequest` counts
  the messages in `workqueue` against the callers outside it. With more callers
  than places a write can be refused and the call returns 0.
* **Graph lock**: `LockCountsGraphsHolds`, `TeardownWaitsHolds`, from `LockInv`:
  where a thread must, and must not, be counted, and that nobody is inside once
  the teardown has passed its wait with no late lock, if its event ended that wait.
* **Sections**: `GraphTypeOK`, `CallbackExclusiveHolds`, `OrderRespectedHolds`,
  `CountedSectionsRanHolds`, for any number of threads and any graphs
  (`GraphAssumption`: orders are naturals; positive sizes). `WorkInv` follows a
  section from the scan (`Turns`: what was chosen is all of the order that is not
  skipped, each once) through the collectors (`Filled`) and the pool (`InPool`,
  `Awaited`) to the count (`Runs`, `Complete`). All of it but the types, `Turns`
  and the semaphore is conditional on `~overlap`, the flag for two graphs that
  fill the static collectors at once; run `kernel_graph_parallel` shows why. That the
  orders below the current one are complete is also conditional on the thread's waits
  not having ended by themselves (`early`, in `Complete`): its items may then be in the
  pool while it is past their order (`Belongs`). The count is not, because such a wait
  adds nothing to it.
* **Boss and remote call**: `ExecOnInitialisedCoreHolds`, `OwnReplyHolds`, for any
  tables of managers, deaths, retries and signals. `BossInv`: callers are
  serialised by coreLock (`Serialised`), a node is placed on the remote manager
  only after the boss's INIT passed (`Placed`), the stages of a restart
  (`Restarting`), and that a connected core is initialised or has its INIT in
  front of everything else (`InitFirst`); without signals the device holds only
  the waiting caller's request or reply (`OnlyOwn`).
* **Loads and placement** (`BossAssumption`: finitely many callers, a table has at
  least one manager, loads and priorities are naturals, an affinity is a core or
  any): `LoadTableConservedHolds`, `BossTypeOK`, `FaultMeansUnsupportedHolds`.
  `Loads` says that the shared table is, core by core, the sum of what the sections
  between commit and decommit have booked; it is inductive because a section changes
  its own `coreLoad` only while it holds none of it (`LoadsKept`). That no load goes
  below 0 when a section decommits follows from it, and with it the type of the table;
  `Shape` has the other types (a section never goes past its last node). The sum is a
  fold over a set; what it needs to know about folds (taking away any one
  member, `TotalRemove`) is proved from the definition, by a smallest subset for which
  it fails (`SmallestSubset`). The search for a manager is a recursive function;
  `TurnsExist` shows that it exists, by a least number of turns for which it does not,
  and `SearchFinds` that a manager which the search can see is found: each turn climbs
  to a higher priority below the manager's own, and the turns are as many as the
  managers, so by the pigeonhole principle one of them gets there.
* **Engine and file camera** (`EngineAssumption`: at least one buffer):
  `EngineTypeOK`, `FramesAccountedForHolds`, `ReturnedBeforeNextHolds`,
  `CompletionMeansDoneHolds` (an action property), for any depth, number of
  buffers, frames and starts. `EngineInv` says who exists when (`Lifetimes`: no
  camera outside the engine's run, no camera thread without camera), that the
  frames in the queue, in hand or thrown away never exceed `owed`, which never
  exceeds the buffers in use (`Owed`), that a camera that was never early is owed
  at most one (`OneFrame`), and that without a pop or reset a frame dropper past
  the read event finds a frame (`Uninterrupted`). `FramesConserved` is an equality
  only while the engine runs; its inequality in `Owed` is what survives a stop and
  lets returns after it be bounded. `NextFree` shows that `getNextFreeBuffer`
  finds a free buffer, whatever the array.
  The proof corrected the property: `NullOnlyWhenInterrupted` used to look at the
  state of the queue instead of `interrupted`, which is false from the third
  Startup on.
* **OMX camera** (`CameraAssumption`: at least one port and one buffer, requests
  are nonempty sets of ports): `AgreeBetweenCallsHolds`, for any number of ports,
  buffers and starts and any requests. Between calls nothing is left over but a
  node about to be extracted, and that is not inductive: `Waits` says for each wait of the control thread which single
  command, registration and semaphore count is under way and what the component has
  done when the semaphore counts 1. A registration under way is the last node of the
  list, behind a node about to be extracted, if any, or it was lost (`Pending`, `Rest`);
  a lost one is never posted (`Posted`), so nothing else is disturbed by it. `PortsAgree`
  says that every port but the one being changed is active, enabled and populated or none of these; `StateAgrees` from which
  call to which the component executes. That a disable cannot complete before
  `freePortBuffers` has run is part of it. The frame thread, the client's frames and
  the filling of buffers touch none of this (`FramesApart`). All of it holds until
  `OMX_UseBuffer` refuses a buffer, and is claimed only until then.
* **OMX camera, after a refusal too**: `CameraTypeOK` and `NoBufferSharedHolds`, the
  second half of `BuffersConserved`, for any constants and whatever is refused.
  After a refusal commands, registrations and posts of earlier calls are left over,
  so `Proto` is of no use; what survives is weaker. `EventTypes`: the semaphore on the
  stack has one node or one post, inside the call it belongs to, since its commands
  are never those of the ports. `StateWaits`: it is posted when the component has got
  to the state asked for. `PortFacts`: a port that is active and not enabled has no
  header. `LockFacts`: who holds `mFrameBufferLock`. `Tokens` then gives each buffer
  one owner until a stale message is taken: a *live* message (its header is still the
  one of its buffer), the component or the client; the headers that a start makes are
  newer than those in any message (`Stamps`), which is why an old message cannot
  become live again; and buffers are under way only for ports that run (`Running`),
  which is why a start cannot fill one that is.
* **OMX camera, no buffer lost**: `BuffersConservedHolds`, for any ports, buffers and
  number of starts, with the hypothesis `OneRequest` that the client starts and stops
  the same ports; with several requests the property is false (section 4). `Asked`:
  no port is active when `startPreview` begins and when `stopPreview` ends, and
  nothing is flushed while a port is active between calls; so what a flush has dropped
  belongs to ports whose next start fills all buffers. `AllPresent`: between calls every
  buffer of an active port is with the component, the client or the frame thread, or
  in a live message.

In each case TLC checked the inductive invariant on the run's instance before it
was proved.

Only model-checked are the liveness properties: fairness and ENABLED are outside the
prover's reach. Every invariant and every safety property of a step that a passing run
checks is also a theorem, `ReturnsOwnReply` and `NothingLeftBehind` for the CPU manager
and `BuffersConserved` for one set of ports, as above.

## 6. Not modelled, and simplifications

* Memory manager, display, the V4L2 and other remaining cameras, and the
  remaining parts listed as such in `PROJECT.json`: their states are those of
  operating system services, window systems and camera frameworks that are not
  in the repository. `heap.c` and the containers other than queue and list are not
  used by the modelled code.
* Of `list.c` only what the registered waits of the OMX camera need. `OmxCamera` has the
  outcomes in which the list stays usable: the new node is in it or is lost, and after a
  loss later ones may be lost too. Two threads that change it at once can also leave a
  freed node in it, whose use is undefined and not modelled. The lists of the RPC layer
  and of `OMXVisionCam_3A_Export.cpp` are not modelled either.
* The kernels: the switch of the CPU manager, the libraries and the engines of
  the tests and demos are data processing. They make up most of the lines of
  the repository.
* Initialisation of the boss: loading the manager libraries, and two processes
  that create the shared load table at the same time. Processes that die with
  load booked in it.
* `GraphBoss` has no section without nodes in its run: the code refuses its load
  and tries again for ever. A section that was refused once asks for more in the
  next attempt, since `DVP_ConfigureNodes` adds to `coreLoad`
  (`dvp_kgb.c:605`), and may spin as well.
* In `OmxCamera`: preemption (the thread that `EventHandler` starts then waits
  on the same semaphore, and what the component does is not visible in the
  code), packed frames, focus, the parameters and their errors, and errors of
  commands. The client gives back its frames before it starts again and releases
  buffers after it has stopped. The 24 places of `mFrameMessageQ` are not modelled:
  `FillBufferDone` writes with `true_e`, so it waits when the queue is full. Messages
  of earlier previews can pile up in it; the run has five at most.
* The destructor of `VisionEngine`; `m_engineLock`, which has one user.
* Allocation failure, thread creation failure, null arguments.
* The arithmetic of timeouts; the SYS/BIOS and Windows variants of events.
* Steps that are one in a model and several in the code, where nobody can tell. In
  `ThreadPool`, `IssueTry` counts an item, writes it and takes the count back if the queue
  was full; the issuer holds `pool->sem` meanwhile, without which nobody reads or changes
  the count. In `VisionEngine`, `CameraFills` takes a free buffer, rewrites the frame and
  marks the buffer used (`FileVisionCam.cpp:335-406`); in between a frame that was early
  already has the new contents and the buffer does not count as used.
* `KernelGraph` takes `DVP_KernelGraphBoss_Process` to return; `GraphBoss` shows
  when it does.
* After the handle is freed nothing more is modelled: what a thread still inside
  does then is undefined.
* `queue_disable`, which no component of the repository calls, makes a blocking
  call that has passed its wait return `true_e` without moving a message
  (`TrueMeansTransferred` does not hold without its premise); `queue_destroy`
  does not pop the queue, although `queue.h` says so.

## 7. Plan

Done: ring, queue, thread pool, manager protocol, graph API, boss, remote calls
with restart, engine with file camera, OMX camera; proofs for all of them. Next:

1. An abstract `WorkPool` that `ThreadPool` refines and `KernelGraph` uses by name.
2. The association list of the RPC layer and the memory manager behind it;
   preemption and packed frames of the OMX camera.
