\* Two graphs on one handle at a time, two workers with one-deep queues: parallel
\* and inline sections, skipped ones, refused items, waits that end by themselves
\* and a teardown at any time.
CONSTANTS
  t1 = t1
  t2 = t2
  t3 = t3
  t4 = t4
  Threads = {t1, t2, t3, t4}
  Orders <- GraphsOfPairs
  Verified = {t1, t2, t4}
  MaxSections = 2
  QueueDepth = 1
  Together = {{t1, t2}, {t3, t4}}
  Sleepers = {t3}
  Free = Free
SPECIFICATION Spec
INVARIANTS TypeOK LockCountsGraphs TeardownWaits OrderRespected CountedSectionsRan CallbackExclusive
PROPERTY EveryoneGetsOut
