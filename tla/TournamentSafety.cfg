SPECIFICATION Spec
CONSTANTS
  w1 = w1
  w2 = w2
  Workers <- TwoWorkers
  None = None
  MaxGenerations = 2
  Population = 2
  SurvivorCount = 1
  FreshCount = 1
  CriticCount = 0
  VerificationEnabled = FALSE
  Flawed <- FirstFlawed
  MaxAttempts = 2
  MaxRaises = 2
  MaxLapses = 1
  MaxCrashes = 0
  Together = FALSE
SYMMETRY WorkerSymmetry
INVARIANTS TypeOK JudgedBeforeAdvance JudgingHasAllSubmissions FailsOnlyForCause
PROPERTIES ImplementsLifecycle TerminalIsFinal
CHECK_DEADLOCK FALSE
