SPECIFICATION FairSpec
CONSTANTS
  w1 = w1
  w2 = w2
  Workers <- OneWorker
  None = None
  MaxRepairs = 2
  MaxCycle = 4
  MaxAttempts = 2
  MaxRaises = 2
  MaxLapses = 0
  MaxCrashes = 0
  Together = TRUE
INVARIANTS TypeOK
PROPERTIES ImplementsWorkflow EngineeringEnds
CHECK_DEADLOCK FALSE
