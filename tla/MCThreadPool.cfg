\* Two workers with one-deep queues, two clients, one of which comes back.
CONSTANTS
    c1 = c1
    c2 = c2
    Clients = {c1, c2}
    Batches <- MCBatches
    NumWorkers = 2
    QueueDepth = 1
    Free = Free
SPECIFICATION Spec
INVARIANTS TypeOK PendingTracked CompleteTrueMeansDone
PROPERTIES CompleteReturns DestroyTerminates
