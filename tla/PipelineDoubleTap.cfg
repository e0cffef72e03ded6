SPECIFICATION Spec
CONSTANTS
  Article = {a1}
  User = {u1}
  Request = {q1, q2}
  Unstorable = {}
  MaxRetries = 2
  BatchSize = 2
  ScraperThreads = 2
  MayFail = {}
  MaxTrouble = 0
INVARIANT LinkedIsSubmitted
CHECK_DEADLOCK FALSE
