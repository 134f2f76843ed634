\* The DSP and SIMCOP managers: one worker, and a caller whose read of retqueue
\* fails gives up.
CONSTANTS
    Callers = {g1, g2}
    WorkerIds = {w1}
    RetryRead = FALSE
    QueueDepth = 2
    MaxCalls = 2
SPECIFICATION Spec
INVARIANT NothingLeftBehind
