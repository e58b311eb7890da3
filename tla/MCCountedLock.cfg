SPECIFICATION CntSpec
CONSTANTS
  Users = {1, 2}
  Preemptive = TRUE
CHECK_DEADLOCK FALSE
INVARIANT ReleaseChecksHold
