SPECIFICATION Spec
CONSTANTS
  MaxUpdates = 1
  Buffer = 1
  MaxStreamFailures = 2
  MaxLoops = 2
  MayFail = {}
  MaxTrouble = 0
INVARIANT CaughtUp
CHECK_DEADLOCK FALSE
