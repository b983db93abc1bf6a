SPECIFICATION Spec
CONSTANTS
  w1 = w1
  w2 = w2
  Workers <- TwoWorkers
  None = None
  MaxGenerations = 1
  Population = 2
  SurvivorCount = 1
  FreshCount = 1
  CriticCount = 0
  VerificationEnabled = FALSE
  Flawed <- Sound
  MaxAttempts = 3
  MaxRaises = 0
  MaxLapses = 1
  MaxCrashes = 0
  Together = TRUE
SYMMETRY WorkerSymmetry
INVARIANTS NoDuplicateJudges
CHECK_DEADLOCK FALSE
