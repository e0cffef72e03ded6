SPECIFICATION FairSpec
CONSTANTS
  Article = {a1}
  User = {u1}
  Request = {q1}
  Unstorable = {}
  MaxRetries = 2
  BatchSize = 2
  ScraperThreads = 2
  MayFail = {"bff"}
  MaxTrouble = 1
PROPERTY EverySubmissionAnswered
CHECK_DEADLOCK FALSE
