------------------------------ MODULE GraphBoss ------------------------------
(***************************************************************************)
(* The kernel graph boss (dvp_kgb.c): it chooses a manager for every node  *)
(* of a section, books the section's load in the table that all sections   *)
(* share, runs the nodes in groups on their managers and takes the load    *)
(* off again.  One manager is remote (dvp_kgm_simcop.c, dvp_kgm_dsp.c): it *)
(* serialises its callers with coreLock and calls the core of module       *)
(* RemoteCore, which may die at any time.                                  *)
(*                                                                         *)
(* A section belongs to the thread that processes it, so its own fields    *)
(* need no lock, and the manager tables do not change once the boss is up. *)
(* The managers' verify functions are taken to accept the nodes.           *)
(***************************************************************************)
EXTENDS RemoteCore, FiniteSetsExt

CONSTANTS Boss,            \* the caller that initialises the remote manager
          NumCores,        \* cores are 1..NumCores in the order of DVP_Core_e
          Remote,          \* the core behind RemoteCore
          Tables,          \* the sequences of managers that may be found
          Nodes,           \* section -> sequence of [kernel, affinity]
          Limits,          \* loads that DVP_SetMaxLoad may be given
          Unlimited,       \* the load every core can take at first
          MaxRuns,         \* bound: executions of a section
          MaxReconfigs,    \* bound: reconfigurations of a section
          MaxSets          \* bound: calls of DVP_SetMaxLoad

Sections == Callers \ {Boss}
Cores == 1..NumCores
AnyCore == 0               \* DVP_CORE_MIN: no affinity
NoOne == "none"

ASSUME BossAssumption ==
    /\ IsFiniteSet(Callers) /\ Boss \in Callers /\ NoOne \notin Callers
    /\ NumCores \in Nat /\ Remote \in Cores
    /\ MaxRuns \in Nat /\ MaxReconfigs \in Nat /\ MaxSets \in Nat
    /\ \A T \in Tables :     \* a boss without managers does not get through its init
          /\ Len(T) \in Nat \ {0} /\ DOMAIN T = 1..Len(T)
          /\ \A m \in DOMAIN T : /\ T[m].core \in Cores /\ T[m].priority \in Nat
                                 /\ \A k \in T[m].kernels : T[m].loads[k] \in Nat
    /\ DOMAIN Nodes = Sections
    /\ \A s \in Sections :
          /\ Len(Nodes[s]) \in Nat /\ DOMAIN Nodes[s] = 1..Len(Nodes[s])
          /\ \A n \in DOMAIN Nodes[s] : Nodes[s][n].affinity \in Cores \cup {AnyCore}

VARIABLES
    managers,       \* the boss's managers: core, priority, kernels and their loads
    enabled,        \* managers[m].enabled
    ready,          \* DVP_KernelGraphBossInit has returned
    affinity, mgrIndex, configured,   \* per section and node
    coreLoad,       \* per section: load on each core
    currentLoad, maximumLoad,         \* the shared load table
    pc, node, processed,              \* a section inside DVP_KernelGraphBoss_Process
    coreLock,       \* the remote manager's semaphore: who holds it
    runs, sets,     \* executions of a section, DVP_SetMaxLoads so far
    reconfigs,      \* reconfigurations of a section so far
    faulted         \* history: a section had a node that no manager would take

config == <<managers, enabled, ready>>
section == <<affinity, mgrIndex, configured, coreLoad>>
table == <<currentLoad, maximumLoad>>
progress == <<pc, node, processed>>
bounds == <<runs, sets, reconfigs, faulted>>
vars == <<remoteVars, config, section, table, progress, coreLock, bounds>>

NodesOf(s) == DOMAIN Nodes[s]

\* DVP_KernelGraphBossInit, up to the remote manager's INIT call.
Init ==
    /\ RemoteInit
    /\ managers \in Tables
    /\ enabled = [m \in DOMAIN managers |-> managers[m].core # Remote]
    /\ ready = FALSE
    /\ affinity = [s \in Sections |-> [n \in NodesOf(s) |-> Nodes[s][n].affinity]]
    /\ mgrIndex = [s \in Sections |-> [n \in NodesOf(s) |-> 1]]
    /\ configured = [s \in Sections |-> [n \in NodesOf(s) |-> FALSE]]
    /\ coreLoad = [s \in Sections |-> [c \in Cores |-> 0]]
    /\ currentLoad = [c \in Cores |-> 0]
    /\ maximumLoad = [c \in Cores |-> Unlimited]
    /\ pc = [s \in Sections |-> "idle"]
    /\ node = [s \in Sections |-> 1]
    /\ processed = [s \in Sections |-> 0]
    /\ coreLock = NoOne
    /\ runs = [s \in Sections |-> 0] /\ sets = 0
    /\ reconfigs = [s \in Sections |-> 0]
    /\ faulted = [s \in Sections |-> FALSE]

\* DVP_KernelGraphManagerInit of the remote manager: a failed INIT call leaves
\* the manager disabled, although its restart may have revived the core.
ManagerInit ==
    /\ ~ready
    /\ RemoteExecute(Boss, "INIT")
    /\ UNCHANGED <<device, in_restart, retries, remote, remoteHistory,
                   config, section, table, progress, coreLock, bounds>>

ManagerInitDone ==
    /\ ~ready /\ ~crashed
    /\ rpc[Boss] = "returned"
    /\ ready' = TRUE
    /\ enabled' = [m \in DOMAIN managers |-> managers[m].core # Remote \/ passed[Boss]]
    /\ UNCHANGED <<remoteVars, managers, section, table, progress, coreLock, bounds>>

-----------------------------------------------------------------------------
\* Manager selection.
Kernel(s, n) == Nodes[s][n].kernel

\* DVP_GetManagerKernelIndex.
Supports(m, k) == enabled[m] /\ k \in managers[m].kernels

\* DVP_GetNextManagerIndex: of the enabled managers that come after the given
\* priority, the last one in the table with the best priority; 0 if none.
NextManager(priority) ==
    LET lower == {m \in DOMAIN managers : enabled[m] /\ managers[m].priority > priority}
        best == Min({managers[m].priority : m \in lower})
    IN  IF lower = {} THEN 0 ELSE Max({m \in lower : managers[m].priority = best})

\* The managers the do-while of DVP_ConfigureNodes looks at, in turn.  After
\* the last one the search starts again from the top.
Tried ==
    LET next[i \in 1..Len(managers)] ==
            NextManager(IF i = 1 \/ next[i - 1] = 0 THEN 0 ELSE managers[next[i - 1]].priority)
    IN  next

\* Mutant: one try too few.
ByPriorityGivesUp(k) ==
    LET good == {i \in 1..(Len(managers) - 1) :
                   Tried[i] \in DOMAIN managers /\ Supports(Tried[i], k)}
    IN  IF good = {} THEN 0 ELSE Tried[Min(good)]

ByPriority(k) ==
    LET good == {i \in 1..Len(managers) :
                   Tried[i] \in DOMAIN managers /\ Supports(Tried[i], k)}
    IN  IF good = {} THEN 0 ELSE Tried[Min(good)]

\* Mutant: affinity takes the first manager of the core, whatever it supports.
ByAffinityUnchecked(a, k) ==
    LET good == {m \in DOMAIN managers : managers[m].core = a /\ enabled[m]}
    IN  IF good = {} THEN 0 ELSE Min(good)

ByAffinity(a, k) ==
    LET good == {m \in DOMAIN managers : managers[m].core = a /\ Supports(m, k)}
    IN  IF good = {} THEN 0 ELSE Min(good)

\* The manager for node n of section s, 0 if there is none.
Choice(s, n) ==
    LET m == ByAffinity(affinity[s][n], Kernel(s, n))
    IN  IF m # 0 THEN m ELSE ByPriority(Kernel(s, n))

\* DVP_ConfigureNodes stops at the first node without a manager, which is a
\* fault.  The load of every node it configures is added to what is in coreLoad
\* already.  Without faults the section goes on to commit its load.
ConfigureNodes(s, force) ==
    LET todo == {n \in NodesOf(s) : ~configured[s][n] \/ force}
        choice == [n \in todo |-> Choice(s, n)]
        unplaced == {n \in todo : choice[n] = 0}
        placed == {n \in todo : \A u \in unplaced : n < u}
        visited == {n \in todo : \A u \in unplaced : n <= u}
        misplaced == {n \in visited : ByAffinity(affinity[s][n], Kernel(s, n)) = 0}
        LoadOf(n) == managers[choice[n]].loads[Kernel(s, n)]
        On(c) == {n \in placed : managers[choice[n]].core = c}
    IN  /\ mgrIndex' = [mgrIndex EXCEPT ![s] =
              [n \in NodesOf(s) |-> IF n \in placed THEN choice[n] ELSE @[n]]]
        /\ configured' = [configured EXCEPT ![s] =
              [n \in NodesOf(s) |-> @[n] \/ n \in placed]]
        /\ affinity' = [affinity EXCEPT ![s] =
              [n \in NodesOf(s) |-> IF n \in misplaced THEN AnyCore ELSE @[n]]]
        /\ coreLoad' = [coreLoad EXCEPT ![s] =
              [c \in Cores |-> @[c] + MapThenSumSet(LoadOf, On(c))]]
        /\ faulted' = [faulted EXCEPT ![s] = @ \/ unplaced # {}]
        /\ pc' = [pc EXCEPT ![s] = IF unplaced = {} THEN "commit" ELSE "idle"]

-----------------------------------------------------------------------------
\* Mutant: the count of an earlier execution is kept.
StartAgain(s) ==
    /\ node' = [node EXCEPT ![s] = 1]
    /\ UNCHANGED processed

Start(s) ==
    /\ node' = [node EXCEPT ![s] = 1]
    /\ processed' = [processed EXCEPT ![s] = 0]

\* A section is verified (DVP_KernelGraphBoss_Verify configures it) and, if it
\* has no faults, processed.
Process(s) ==
    /\ ready /\ ~crashed
    /\ pc[s] = "idle" /\ runs[s] < MaxRuns
    /\ runs' = [runs EXCEPT ![s] = @ + 1]
    /\ ConfigureNodes(s, FALSE)
    /\ Start(s)
    /\ UNCHANGED <<remoteVars, config, table, coreLock, sets, reconfigs>>

\* DVP_CommitLoad, under the table's semaphore: the cores one after the other,
\* and back again if one of them would be overloaded.  A section without nodes
\* has no load and is refused.
Overloaded(s) == {c \in Cores : currentLoad[c] + coreLoad[s][c] > maximumLoad[c]}

\* Mutant: the core that was overloaded is not unwound.
UnwindOffByOne(s, c) == c < Min(Overloaded(s))

Unwinds(s, c) == c <= Min(Overloaded(s))

Committed(s) ==
    [c \in Cores |->
        IF Overloaded(s) = {} THEN currentLoad[c] + coreLoad[s][c]
        ELSE currentLoad[c] + (IF c <= Min(Overloaded(s)) THEN coreLoad[s][c] ELSE 0)
                            - (IF Unwinds(s, c) THEN coreLoad[s][c] ELSE 0)]

CommitLoad(s) ==
    /\ ~crashed /\ pc[s] = "commit"
    /\ currentLoad' = Committed(s)
    /\ pc' = [pc EXCEPT ![s] =
                 IF Nodes[s] # << >> /\ Overloaded(s) = {} THEN "run" ELSE "reconfigure"]
    /\ UNCHANGED <<remoteVars, config, section, maximumLoad, node, processed, coreLock,
                   bounds>>

\* No room: all the nodes are configured again and the commit is tried again.
Reconfigure(s) ==
    /\ ~crashed /\ pc[s] = "reconfigure" /\ reconfigs[s] < MaxReconfigs
    /\ reconfigs' = [reconfigs EXCEPT ![s] = @ + 1]
    /\ ConfigureNodes(s, TRUE)
    /\ UNCHANGED <<remoteVars, config, table, node, processed, coreLock, runs, sets>>

DecommitLoad(s) ==
    /\ ~crashed /\ pc[s] = "decommit"
    /\ currentLoad' = [c \in Cores |-> currentLoad[c] - coreLoad[s][c]]
    /\ pc' = [pc EXCEPT ![s] = "idle"]
    /\ UNCHANGED <<remoteVars, config, section, maximumLoad, node, processed, coreLock,
                   bounds>>

\* DVP_SetMaxLoad.
SetMaxLoad(c, load) ==
    /\ ready /\ ~crashed /\ sets < MaxSets
    /\ \E m \in DOMAIN managers : enabled[m] /\ managers[m].core = c
    /\ sets' = sets + 1
    /\ maximumLoad' = [maximumLoad EXCEPT ![c] = load]
    /\ UNCHANGED <<remoteVars, config, section, currentLoad, progress, coreLock, runs,
                   reconfigs, faulted>>

-----------------------------------------------------------------------------
\* The nodes from the current one that are on the same manager.
Group(s) == {n \in NodesOf(s) : \A i \in node[s]..n : mgrIndex[s][i] = mgrIndex[s][node[s]]}
            \ 1..(node[s] - 1)
GroupManager(s) == managers[mgrIndex[s][node[s]]]

\* A manager has executed k nodes of the group; fewer than all of them end the
\* section.
GroupDone(s, k) ==
    /\ processed' = [processed EXCEPT ![s] = @ + k]
    /\ node' = [node EXCEPT ![s] = @ + Cardinality(Group(s))]
    /\ pc' = [pc EXCEPT ![s] = IF k = Cardinality(Group(s)) THEN "run" ELSE "decommit"]

RunOut(s) ==
    /\ ~crashed /\ pc[s] = "run" /\ node[s] > Len(Nodes[s])
    /\ pc' = [pc EXCEPT ![s] = "decommit"]
    /\ UNCHANGED <<remoteVars, config, section, table, node, processed, coreLock, bounds>>

RunLocal(s, k) ==
    /\ ~crashed /\ pc[s] = "run" /\ node[s] <= Len(Nodes[s])
    /\ GroupManager(s).core # Remote
    /\ k <= Cardinality(Group(s))
    /\ GroupDone(s, k)
    /\ UNCHANGED <<remoteVars, config, section, table, coreLock, bounds>>

\* Mutant: the remote manager does not wait for its semaphore.
RemoteLockFree(s) == TRUE

RemoteLock(s) == coreLock = NoOne

\* The remote manager takes coreLock, prepares the nodes and calls the core.
\* The default of its switch returns 0 and keeps the lock.
RunRemote(s) ==
    /\ ~crashed /\ pc[s] = "run" /\ node[s] <= Len(Nodes[s])
    /\ GroupManager(s).core = Remote
    /\ RemoteLock(s)
    /\ coreLock' = s
    /\ IF \A n \in Group(s) : Kernel(s, n) \in GroupManager(s).kernels
         THEN /\ RemoteExecute(s, "EXEC")
              /\ pc' = [pc EXCEPT ![s] = "remote"]
              /\ UNCHANGED <<node, processed>>
         ELSE GroupDone(s, 0) /\ UNCHANGED <<rpc, func, passed>>
    /\ UNCHANGED <<device, in_restart, retries, remote, remoteHistory,
                   config, section, table, bounds>>

\* The call returns the number of nodes the core executed, or -1.
RemoteReturns(s, k) ==
    /\ ~crashed /\ pc[s] = "remote" /\ rpc[s] = "returned"
    /\ IF passed[s] THEN k <= Cardinality(Group(s)) ELSE k = 0
    /\ GroupDone(s, k)
    /\ coreLock' = NoOne
    /\ rpc' = [rpc EXCEPT ![s] = "none"]
    /\ UNCHANGED <<device, in_restart, func, passed, retries, remote, remoteHistory,
                   config, section, table, bounds>>

-----------------------------------------------------------------------------
\* The steps of the call leave the boss alone.
Rpc(A) == A /\ UNCHANGED <<config, section, table, progress, coreLock, bounds>>

Steps(s) ==
    \/ CommitLoad(s) \/ RunOut(s) \/ RunRemote(s) \/ DecommitLoad(s)
    \/ \E k \in 0..Len(Nodes[s]) : RunLocal(s, k) \/ RemoteReturns(s, k)

Next ==
    \/ ManagerInit \/ ManagerInitDone
    \/ \E s \in Sections : Process(s) \/ Reconfigure(s) \/ Steps(s)
    \/ \E c \in Cores, load \in Limits : SetMaxLoad(c, load)
    \/ \E t \in Callers : Rpc(CallStep(t)) \/ Rpc(~crashed /\ ReadInterrupted(t))
    \/ Rpc(Serve) \/ Rpc(Die) \/ Rpc(Reboot)

\* A thread that can go on does, and a core that is up answers.  A dead core
\* need not come back, nobody has to process a section, and a section that was
\* refused its load may be refused for ever.
Fairness ==
    /\ WF_vars(ManagerInit) /\ WF_vars(ManagerInitDone)
    /\ \A s \in Sections : WF_vars(Steps(s))
    /\ \A t \in Callers : WF_vars(Rpc(CallStep(t)))
    /\ WF_vars(Rpc(Serve))

Spec == Init /\ [][Next]_vars /\ Fairness

-----------------------------------------------------------------------------
\* Type invariant.
TypeOK ==
    /\ RemoteTypeOK
    /\ managers \in Tables
    /\ enabled \in [DOMAIN managers -> BOOLEAN] /\ ready \in BOOLEAN
    /\ \A s \in Sections :
          /\ affinity[s] \in [NodesOf(s) -> Cores \cup {AnyCore}]
          /\ mgrIndex[s] \in [NodesOf(s) -> DOMAIN managers]
          /\ configured[s] \in [NodesOf(s) -> BOOLEAN]
          /\ coreLoad[s] \in [Cores -> Nat]
          /\ node[s] \in 1..(Len(Nodes[s]) + 1)
          /\ processed[s] \in 0..Len(Nodes[s])
    /\ currentLoad \in [Cores -> Nat] /\ maximumLoad \in [Cores -> Limits \cup {Unlimited}]
    /\ pc \in [Sections -> {"idle", "commit", "reconfigure", "run", "remote", "decommit"}]
    /\ coreLock \in Sections \cup {NoOne}
    /\ runs \in [Sections -> 0..MaxRuns] /\ sets \in 0..MaxSets
    /\ reconfigs \in [Sections -> 0..MaxReconfigs]
    /\ faulted \in [Sections -> BOOLEAN]

\* The shared table holds exactly the loads of the sections that are running:
\* a refused commit leaves nothing behind, and every commit is taken back,
\* also when a section fails halfway or was reconfigured before.
Holding(s) == pc[s] \in {"run", "remote", "decommit"}
LoadTableConserved ==
    \A c \in Cores :
        currentLoad[c] = MapThenSumSet(LAMBDA s : coreLoad[s][c],
                                       {s \in Sections : Holding(s)})

\* No kernel is ever executed by an incarnation of the remote core that has not
\* been given its INIT: whenever the core dies, in a call, in a restart or
\* between two calls, the restart function runs before the next request.
ExecOnInitialisedCore == ~ranUninitialised

\* Every call of the core gets the reply to its own request as long as no read
\* was interrupted by a signal: omaprpc_call does not compare the two, it
\* relies on coreLock, on the restart and on reading every reply.
OwnReply == wrongReply => signals > 0

\* A section is refused with DVP_ERROR_NOT_IMPLEMENTED only because one of its
\* kernels is supported by no enabled manager, or only by managers that the
\* search cannot see: those of priority 0 (DVP_PRIORITY_NONE), and those before
\* another of the same priority.
Hidden(m) ==
    \/ managers[m].priority = 0
    \/ \E o \in DOMAIN managers :
          o > m /\ enabled[o] /\ managers[o].priority = managers[m].priority
FaultMeansUnsupported ==
    \A s \in Sections : faulted[s] =>
        \E n \in NodesOf(s) : \A m \in DOMAIN managers : Supports(m, Kernel(s, n)) => Hidden(m)

\* A section that is being processed gets to its end or is refused its load,
\* whatever happens to the remote core: the restart ends, coreLock is always
\* given back, and no node is sent to a manager that would return with the lock
\* held.
ProcessEnds ==
    \A s \in Sections : pc[s] # "idle" ~> (pc[s] \in {"idle", "reconfigure"} \/ crashed)
=============================================================================
