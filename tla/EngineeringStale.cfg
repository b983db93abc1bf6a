SPECIFICATION Spec
CONSTANTS
  w1 = w1
  w2 = w2
  Workers <- TwoWorkers
  None = None
  MaxRepairs = 1
  MaxCycle = 2
  MaxAttempts = 2
  MaxRaises = 0
  MaxLapses = 1
  MaxCrashes = 0
  Together = TRUE
SYMMETRY WorkerSymmetry
INVARIANTS CompletedIsEarned
CHECK_DEADLOCK FALSE
