SPECIFICATION FairSpec
CONSTANTS
  Article = {a1}
  User = {u1}
  Request = {q1}
  Unstorable = {}
  MaxRetries = 3
  BatchSize = 2
  ScraperThreads = 2
  MayFail = {"scraper", "phonemizer", "overrun"}
  MaxTrouble = 1
PROPERTY EverySubmissionAnswered
CHECK_DEADLOCK FALSE
