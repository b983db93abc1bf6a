SPECIFICATION FairSpec
CONSTANTS
  j1 = j1
  j2 = j2
  p1 = p1
  p2 = p2
  None = None
  Keys <- TwoKeys
  Processes <- TwoProcesses
  WorkerIds <- Ids
  WorkerId <- PairIds
  MaxAttempts = 3
  Lease = 3
  BaseDelay = 2
  MaxDelay = 3
  Lag = 1
  Horizon = 2
  MaxCrashes = 1
  Heartbeats = TRUE
  Prompt = FALSE
INVARIANT TypeOK
INVARIANT SettlesOwnClaim
INVARIANT PromptWorkerKeepsClaim
INVARIANT SomeWorkerSurvives
PROPERTY ImplementsLifecycle
PROPERTY EveryJobEnds
