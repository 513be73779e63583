SPECIFICATION FairSpec
CONSTANTS
  NumReceivers = 2
  FifoSize = 3
  MaxFrame = 3
  Networks = {{"loss"}}
INVARIANTS Owned PushesFit Aligned NoMatchLost
PROPERTIES InOrder FifosKept MatchProcessed
CHECK_DEADLOCK FALSE
