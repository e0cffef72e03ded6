SPECIFICATION Spec
CONSTANTS
  MaxUpdates = 2
  Buffer = 1
  MaxStreamFailures = 2
  MaxLoops = 2
  MayFail = {"publish", "full", "overtake", "stream", "offline", "background", "fetch"}
  MaxTrouble = 2
INVARIANT TypeOK
INVARIANT ChannelInv
INVARIANT NeverDeaf
INVARIANT StreamsOrPolls
INVARIANT DeliveryInv
INVARIANT CaughtUpSinceConnected
CHECK_DEADLOCK FALSE
