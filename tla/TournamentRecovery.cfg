SPECIFICATION RestartSpec
CONSTANTS
  w1 = w1
  w2 = w2
  Workers <- OneWorker
  None = None
  MaxGenerations = 2
  Population = 2
  SurvivorCount = 1
  FreshCount = 1
  CriticCount = 1
  VerificationEnabled = TRUE
  Flawed <- FirstFlawed
  MaxAttempts = 3
  MaxRaises = 0
  MaxLapses = 0
  MaxCrashes = 2
  Together = TRUE
INVARIANTS NoDuplicateJudges VerdictStands
PROPERTIES RunEnds StaleJobsMoveNothing
CHECK_DEADLOCK FALSE
