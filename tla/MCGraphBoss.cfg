\* The core may die twice, so that it can die again inside a restart.
SPECIFICATION Spec
CONSTANTS
    boss = boss
    s1 = s1
    s2 = s2
    Boss = boss
    Callers <- MCCallers
    Retries = 2
    MaxCrashes = 2
    MaxSignals = 1
    NumCores = 2
    Remote = 1
    Tables <- MCTables
    Nodes <- MCNodes
    Limits = {2}
    Unlimited = 4
    MaxRuns = 2
    MaxReconfigs = 1
    MaxSets = 1
INVARIANTS TypeOK LoadTableConserved ExecOnInitialisedCore OwnReply FaultMeansUnsupported
PROPERTY ProcessEnds
\* A section may stay in its reconfiguration, and the bounds end the rest.
CHECK_DEADLOCK FALSE
