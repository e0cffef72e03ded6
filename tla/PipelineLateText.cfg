SPECIFICATION FairSpec
CONSTANTS
  Article = {a1}
  User = {u1}
  Request = {q1}
  Unstorable = {}
  MaxRetries = 2
  BatchSize = 2
  ScraperThreads = 2
  MayFail = {}
  MaxTrouble = 0
PROPERTY Settles
CHECK_DEADLOCK FALSE
