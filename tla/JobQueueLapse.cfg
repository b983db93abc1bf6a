SPECIFICATION Spec
CONSTANTS
  j1 = j1
  j2 = j2
  p1 = p1
  p2 = p2
  None = None
  Keys <- TwoKeys
  Processes <- TwoProcesses
  WorkerIds <- Ids
  WorkerId <- PairIds
  MaxAttempts = 2
  Lease = 2
  BaseDelay = 1
  MaxDelay = 3
  Lag = 0
  Horizon = 0
  MaxCrashes = 0
  Heartbeats = FALSE
  Prompt = FALSE
SYMMETRY KeySymmetry
INVARIANT FailureReported
