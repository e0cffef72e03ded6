SPECIFICATION Spec
CONSTANTS
  Article = {"a1"}
  Call = {c1}
  Read = {r1}
  Operations <- UserOperations
  MaxQueued = 2
  MaxOffline = 2
  MaxRetries = 2
  MayFail = {"refused","lost","crash","elsewhere"}
  MaxTrouble = 2
INVARIANT TypeOK
INVARIANT NothingLost
INVARIANT InOrder
INVARIANT OnceUnlessUnrecorded
INVARIANT CacheFollowsQueue
INVARIANT NeverForgotten
INVARIANT CacheInv
CHECK_DEADLOCK FALSE
