SPECIFICATION Spec
CONSTANTS
  w1 = w1
  w2 = w2
  Workers <- TwoWorkers
  None = None
  MaxRepairs = 1
  MaxCycle = 2
  MaxAttempts = 2
  MaxRaises = 0
  MaxLapses = 0
  MaxCrashes = 1
  Together = TRUE
SYMMETRY WorkerSymmetry
INVARIANTS CompletedIsEarned TestedIsWhole StoredOnce FailsOnlyForCause StrandedForCause
CHECK_DEADLOCK FALSE
