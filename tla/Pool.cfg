SPECIFICATION FairSpec
CONSTANTS
  Threads = {t1, t2, t3, t4}
  MaxSize = 1
  Spurious = TRUE
INVARIANT TypeOK
INVARIANT ExclusiveUse
INVARIANT WaitsOnlyWhenExhausted
PROPERTY WaiterReturns
PROPERTY Lends
