SPECIFICATION Spec
CONSTANTS
  w1 = w1
  w2 = w2
  Workers <- TwoWorkers
  None = None
  MaxGenerations = 2
  Population = 2
  SurvivorCount = 1
  FreshCount = 1
  CriticCount = 1
  VerificationEnabled = TRUE
  Flawed <- Sound
  MaxAttempts = 2
  MaxRaises = 0
  MaxLapses = 0
  MaxCrashes = 0
  Together = TRUE
SYMMETRY WorkerSymmetry
INVARIANTS LineageIsSound VerifiedIsEarned NeverStranded
CHECK_DEADLOCK FALSE
