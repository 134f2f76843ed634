\* A queue of two frames and three buffers: the queue can be full while the
\* camera is inside ReceiveImage.  Two runs of the engine.
SPECIFICATION Spec
CONSTANTS
    QueueDepth = 2
    NumBuffers = 3
    NumFrames = 1
    MaxStarts = 2
INVARIANTS TypeOK FramesAccountedFor ReturnedBeforeNext
PROPERTIES CompletionMeansDone StopReturns
\* The engine may wait for ever for a camera that has no more buffers, and an
\* application that is done calls nothing.
CHECK_DEADLOCK FALSE
