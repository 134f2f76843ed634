\* Two graphs with parallel sections processed at once on one handle.
CONSTANTS
  t1 = t1
  t2 = t2
  t3 = t3
  t4 = t4
  Threads = {t1, t2}
  Orders <- TwoPairs
  Verified = {t1}
  MaxSections = 2
  QueueDepth = 1
  Together = {{t1, t2}}
  Sleepers = {t1, t2}
  Free = Free
SPECIFICATION Spec
INVARIANT ParallelGraphsRun
