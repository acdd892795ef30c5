SPECIFICATION FairSpec
CONSTANTS
  Threads = {t1, t2, t3, t4}
  MaxSize = 2
  Spurious = FALSE
PROPERTY ReleaseReturns
CHECK_DEADLOCK FALSE
