----------------------------- MODULE RemoteCore -----------------------------
(***************************************************************************)
(* A call to a remote core: dvp_rpc_remote_execute (dvp_rpc_omaprpc.c) and *)
(* omaprpc_call, with the restart of the connection when the core has died *)
(* under it (omaprpc.c).                                                   *)
(*                                                                         *)
(* omaprpc_call writes the request to the device and reads the reply.  A   *)
(* core that dies makes the open device useless: write and read fail with  *)
(* ENXIO, and the caller, inside its call, closes the device, opens it     *)
(* again until the core is back, connects (OMAPRPC_IOC_CREATE) and calls   *)
(* the manager's restart function, which sends the core its INIT again     *)
(* through a nested omaprpc_call.  The failed call itself is not repeated. *)
(*                                                                         *)
(* The kernel driver and the remote server are external: they are what     *)
(* omaprpc.c expects of them.  Callers do not overlap: the manager's       *)
(* coreLock, which belongs to module GraphBoss, sees to that.              *)
(***************************************************************************)
EXTENDS Integers, Sequences, FiniteSets

CONSTANTS Callers,         \* threads that call the core
          Retries,         \* DVP_MAX_RESTART_RETRY
          MaxCrashes,      \* bound: deaths of the core
          MaxSignals       \* bound: reads interrupted by a signal

ASSUME RemoteAssumption ==
    Retries \in Nat \ {0} /\ MaxCrashes \in Nat /\ MaxSignals \in Nat

VARIABLES
    \* omaprpc_t
    device,         \* "open", "stale" (its core died), "opened" (not connected),
                    \* "closed" (-1), "freed" (the omaprpc_t itself is gone)
    in_restart,
    \* a caller inside omaprpc_call
    rpc,            \* where it is
    func,           \* DVP_KGM_REMOTE_INIT or _EXEC: the function it asked for
    passed,         \* what its call will return
    retries,        \* attempts that omaprpc_restart has left
    \* the remote core and the driver
    up,             \* the core runs
    inited,         \* this incarnation of the core has executed INIT
    request,        \* requests written and not executed, <<caller, function>>
    replies,        \* replies not yet read
    crashes, signals,
    \* history
    ranUninitialised, \* a kernel request was executed without an INIT before
    wrongReply,       \* a call took the reply of another call
    crashed           \* freed memory was used, and the process died of it

remote == <<up, inited, request, replies, crashes, signals>>
call == <<rpc, func, passed, retries>>
remoteHistory == <<ranUninitialised, wrongReply, crashed>>
remoteVars == <<device, in_restart, call, remote, remoteHistory>>

Funcs == {"INIT", "EXEC"}

\* The state after dvp_rpc_core_init: connected, and the core not initialised.
RemoteInit ==
    /\ device = "open" /\ in_restart = FALSE
    /\ rpc = [t \in Callers |-> "none"]
    /\ func = [t \in Callers |-> "EXEC"]
    /\ passed = [t \in Callers |-> FALSE]
    /\ retries = 0
    /\ up = TRUE /\ inited = FALSE
    /\ request = << >> /\ replies = << >>
    /\ crashes = 0 /\ signals = 0
    /\ ranUninitialised = FALSE /\ wrongReply = FALSE /\ crashed = FALSE

-----------------------------------------------------------------------------
\* dvp_rpc_remote_execute.
RemoteExecute(t, f) ==
    /\ rpc[t] = "none"
    /\ rpc' = [rpc EXCEPT ![t] = "write"]
    /\ func' = [func EXCEPT ![t] = f]
    /\ passed' = [passed EXCEPT ![t] = FALSE]

\* The function that is being called now: the nested call of a restart is INIT.
Calling(t) == IF in_restart THEN "INIT" ELSE func[t]

\* Where a failed write or read leaves: into omaprpc_restart, unless it was no
\* restart condition or this is the nested call, which ends the restart.
Fails(t, restartCondition) ==
    /\ in_restart' = FALSE
    /\ passed' = [passed EXCEPT ![t] = FALSE]
    /\ IF restartCondition /\ ~in_restart
         THEN rpc' = [rpc EXCEPT ![t] = "close"] /\ retries' = Retries
         ELSE rpc' = [rpc EXCEPT ![t] = "returned"] /\ UNCHANGED retries

Write(t) ==
    /\ rpc[t] = "write"
    /\ \/ /\ device = "open"
          /\ request' = Append(request, <<t, Calling(t)>>)
          /\ rpc' = [rpc EXCEPT ![t] = "read"]
          /\ UNCHANGED <<in_restart, passed, retries, crashed>>
       \/ /\ device = "stale"
          /\ Fails(t, TRUE)
          /\ UNCHANGED <<request, crashed>>
       \/ /\ device = "closed"                                   \* EBADF
          /\ Fails(t, FALSE)
          /\ UNCHANGED <<request, crashed>>
       \/ /\ device = "freed"
          /\ Fails(t, FALSE)
          /\ crashed' \in BOOLEAN
          /\ UNCHANGED request
    /\ UNCHANGED <<device, func, up, inited, replies, crashes, signals,
                   ranUninitialised, wrongReply>>

\* A reply is whatever the device hands out next.  After the nested call the
\* restart is over, and the call that caused it still fails.
Read(t) ==
    /\ rpc[t] = "read"
    /\ device = "open"
    /\ replies # << >>
    /\ replies' = Tail(replies)
    /\ wrongReply' = (wrongReply \/ Head(replies) # <<t, Calling(t)>>)
    /\ passed' = [passed EXCEPT ![t] = ~in_restart]
    /\ in_restart' = FALSE
    /\ rpc' = [rpc EXCEPT ![t] = "returned"]
    /\ UNCHANGED <<device, func, retries, up, inited, request, crashes, signals,
                   ranUninitialised, crashed>>

ReadFails(t) ==
    /\ rpc[t] = "read"
    /\ device = "stale"
    /\ Fails(t, TRUE)
    /\ UNCHANGED <<device, func, remote, remoteHistory>>

\* A signal (EINTR) is no restart condition: the reply stays in the device.
ReadInterrupted(t) ==
    /\ rpc[t] = "read"
    /\ device = "open"
    /\ signals < MaxSignals
    /\ signals' = signals + 1
    /\ Fails(t, FALSE)
    /\ UNCHANGED <<device, func, up, inited, request, replies, crashes, remoteHistory>>

-----------------------------------------------------------------------------
\* omaprpc_restart: the device is closed, and all it held with it ...
RestartCloses(t) ==
    /\ rpc[t] = "close"
    /\ device' = "closed"
    /\ request' = << >> /\ replies' = << >>
    /\ rpc' = [rpc EXCEPT ![t] = "open"]
    /\ UNCHANGED <<in_restart, func, passed, retries, up, inited, crashes, signals,
                   remoteHistory>>

\* ... opened again, which works when the core is back; after the last try the
\* descriptor stays -1 ...
RestartOpens(t) ==
    /\ rpc[t] = "open"
    /\ retries' = retries - 1
    /\ \/ up /\ device' = "opened" /\ rpc' = [rpc EXCEPT ![t] = "create"]
       \/ ~up /\ UNCHANGED device
          /\ rpc' = [rpc EXCEPT ![t] = IF retries > 1 THEN "open" ELSE "returned"]
    /\ UNCHANGED <<in_restart, func, passed, remote, remoteHistory>>

\* Mutant: the restart function is not called.
RestartCreatesOnly(t) ==
    /\ rpc[t] = "create"
    /\ device' = IF device = "opened" THEN "open" ELSE "freed"
    /\ rpc' = [rpc EXCEPT ![t] = "returned"]
    /\ UNCHANGED <<in_restart, func, passed, retries, remote, remoteHistory>>

\* ... and connected.  A core that died once more makes the CREATE fail, and
\* omaprpc_close frees the omaprpc_t that the rest of the program still uses.
\* Otherwise the manager's restart function is called, with in_restart set.
RestartCreates(t) ==
    /\ rpc[t] = "create"
    /\ IF device = "opened"
         THEN /\ device' = "open"
              /\ in_restart' = TRUE
              /\ rpc' = [rpc EXCEPT ![t] = "write"]
         ELSE /\ device' = "freed"
              /\ rpc' = [rpc EXCEPT ![t] = "returned"]
              /\ UNCHANGED in_restart
    /\ UNCHANGED <<func, passed, retries, remote, remoteHistory>>

CallStep(t) == /\ ~crashed
               /\ \/ Write(t) \/ Read(t) \/ ReadFails(t)
                  \/ RestartCloses(t) \/ RestartOpens(t) \/ RestartCreates(t)

-----------------------------------------------------------------------------
\* The remote server executes the oldest request.
Serve ==
    /\ ~crashed /\ up /\ device = "open" /\ request # << >>
    /\ request' = Tail(request)
    /\ replies' = Append(replies, Head(request))
    /\ inited' = (inited \/ Head(request)[2] = "INIT")
    /\ ranUninitialised' = (ranUninitialised \/ (Head(request)[2] = "EXEC" /\ ~inited))
    /\ UNCHANGED <<device, in_restart, call, up, crashes, signals, wrongReply, crashed>>

\* The core dies, with everything it was doing ...
Die ==
    /\ ~crashed /\ up /\ crashes < MaxCrashes
    /\ crashes' = crashes + 1
    /\ up' = FALSE /\ inited' = FALSE
    /\ device' = IF device \in {"open", "opened"} THEN "stale" ELSE device
    /\ request' = << >> /\ replies' = << >>
    /\ UNCHANGED <<in_restart, call, signals, remoteHistory>>

\* ... and comes back, with nothing initialised.
Reboot ==
    /\ ~crashed /\ ~up
    /\ up' = TRUE
    /\ UNCHANGED <<device, in_restart, call, inited, request, replies, crashes,
                   signals, remoteHistory>>

RemoteTypeOK ==
    /\ device \in {"open", "stale", "opened", "closed", "freed"}
    /\ in_restart \in BOOLEAN
    /\ rpc \in [Callers -> {"none", "write", "read", "close", "open", "create", "returned"}]
    /\ func \in [Callers -> Funcs]
    /\ passed \in [Callers -> BOOLEAN]
    /\ retries \in 0..Retries
    /\ up \in BOOLEAN /\ inited \in BOOLEAN
    /\ request \in Seq(Callers \X Funcs) /\ replies \in Seq(Callers \X Funcs)
    /\ crashes \in 0..MaxCrashes /\ signals \in 0..MaxSignals
    /\ ranUninitialised \in BOOLEAN /\ wrongReply \in BOOLEAN /\ crashed \in BOOLEAN
=============================================================================
