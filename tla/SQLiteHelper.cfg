SPECIFICATION FairSpec
CONSTANTS
  Threads = {t1, t2, t3}
  MaxSize = 2
  Spurious = TRUE
INVARIANT NobodyWaits
PROPERTY QueryServed
PROPERTY TransactionServed
