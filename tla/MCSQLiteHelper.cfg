SPECIFICATION Spec
CONSTANTS
  Threads = {t1, t2, t3, t4}
  MaxSize = 2
  Spurious = TRUE
SYMMETRY Symmetry
INVARIANT TypeOK
INVARIANT MonitorOwnerWaits
PROPERTY NeverWokenByRelease
PROPERTY LockoutFreezesQueries
PROPERTY Lends
