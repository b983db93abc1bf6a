SPECIFICATION FairSpec
CONSTANTS
  w1 = w1
  w2 = w2
  primary = primary
  discovered = discovered
  Writers <- TwoWorkers
  Models <- TwoModels
  Primary = primary
  MaxUnits = 2
  MaxEvents = 2
  MaxDrops = 1
  MaxCalls = 2
  MaxKills = 1
INVARIANTS TypeOK ShownInOrder MissedOnlyIfOvertaken LostOnlyToOverlap RatesAreEarned StartupLeavesOne
PROPERTIES EventsAreShown
CHECK_DEADLOCK FALSE
