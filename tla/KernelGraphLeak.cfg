\* A graph with one section more than the scan has room for.
CONSTANTS
  t1 = t1
  t2 = t2
  t3 = t3
  t4 = t4
  Threads = {t1, t2}
  Orders <- OneTooMany
  Verified = {t1}
  MaxSections = 2
  QueueDepth = 1
  Together = {{t1, t2}}
  Sleepers = {t1, t2}
  Free = Free
SPECIFICATION Spec
PROPERTY DeinitAlwaysEnds
