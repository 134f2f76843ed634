\* The CPU manager of a two-processor target, two callers, each of which comes
\* back with the same nodes.
CONSTANTS
    Callers = {g1, g2}
    WorkerIds = {w1, w2}
    RetryRead = TRUE
    QueueDepth = 2
    MaxCalls = 2
SPECIFICATION Spec
INVARIANTS TypeOK ReturnsOwnReply NothingLeftBehind
PROPERTIES CallsProgress DeinitTerminates
