SPECIFICATION Spec
CONSTANTS
  Article = {a1}
  User = {u1, u2}
  Request = {q1, q2}
  Unstorable = {}
  MaxRetries = 2
  BatchSize = 2
  ScraperThreads = 2
  MayFail = {"call"}
  MaxTrouble = 1
SYMMETRY Symmetry
INVARIANT SubmittedOnce
INVARIANT SubmittedUnlessTroubled
INVARIANT SubmissionInv
CHECK_DEADLOCK FALSE
