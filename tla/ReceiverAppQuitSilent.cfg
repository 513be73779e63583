SPECIFICATION FairSpec
CONSTANTS
  NumReceivers = 1
  FifoSize = 3
  MaxFrame = 2
  Networks = {{}}
PROPERTIES QuitEnds
CHECK_DEADLOCK FALSE
