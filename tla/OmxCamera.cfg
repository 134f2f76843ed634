\* Both ports with one buffer each, and a second start after a stop: messages of
\* the first preview can be read during the second.
SPECIFICATION Spec
CONSTANTS
    NumPorts = 2
    NumBufs = 1
    Requests = {{1, 2}}
    UseBufferFails = TRUE
    MaxStarts = 2
INVARIANTS TypeOK AgreeBetweenCalls BuffersConserved
PROPERTY CallsReturn
\* A client that has made its calls does nothing more.
CHECK_DEADLOCK FALSE
