SPECIFICATION Spec
CONSTANTS
  Article = {a1, a2}
  User = {u1}
  Request = {q1}
  Unstorable = {a2}
  MaxRetries = 3
  BatchSize = 2
  ScraperThreads = 2
  MayFail = {"scraper", "phonemizer", "bff", "call", "overrun"}
  MaxTrouble = 1
INVARIANT TypeOK
INVARIANT PipelineInv
INVARIANT StatusMatchesContent
INVARIANT ReadyHasBoth
INVARIANT AnsweredBeforeAcked
INVARIANT NothingStranded
INVARIANT TextAwaitsPhonemes
INVARIANT ContentInv
PROPERTY ImplementsLifecycle
CHECK_DEADLOCK FALSE
