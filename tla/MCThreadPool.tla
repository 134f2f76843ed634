---------------------------- MODULE MCThreadPool ----------------------------
EXTENDS ThreadPool, TLC

CONSTANTS c1, c2

\* Six items for two workers: the first batch alone can overrun the queues.
MCBatches == c1 :> <<<<1, 2, 3>>, <<4>>>> @@ c2 :> <<<<5, 6>>>>
=============================================================================
