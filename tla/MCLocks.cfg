SPECIFICATION BothSpec
CONSTANTS
  Threads = {t1, t2, t3}
  Waiters = {w1}
  Users = {1, 2}
  Preemptive = FALSE
\* an interrupt that wants the counted lock of the code it interrupted spins
\* for good, and a lock left set by spinlockWait stays set
CHECK_DEADLOCK FALSE
INVARIANTS
  MutualExclusion
  CountTellsWhoIsInside
PROPERTIES
  LockNotLost
