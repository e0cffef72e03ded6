SPECIFICATION FairSpec
CONSTANTS
  MaxUpdates = 1
  Buffer = 1
  MaxStreamFailures = 2
  MaxLoops = 2
  MayFail = {"stream", "offline", "background", "check"}
  MaxTrouble = 3
PROPERTY ChangesAreShown
PROPERTY PollingShowsChanges
CHECK_DEADLOCK FALSE
