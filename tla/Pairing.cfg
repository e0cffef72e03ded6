SPECIFICATION Spec
CONSTANTS
  User = {u1, u2}
  Early = {u1}
  Check = {k1, k2}
  MaxCodes = 2
  MayFail = {"row", "lost", "worker", "key"}
  MaxTrouble = 1
SYMMETRY ChecksAlike
INVARIANT TypeOK
INVARIANT EveryAccountHasItsRow
INVARIANT OneClaimer
INVARIANT OneTokenUnlessOverlapped
 
INVARIANT ShownCodeIsPolled
CHECK_DEADLOCK FALSE
