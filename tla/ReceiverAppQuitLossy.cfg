SPECIFICATION FairSpec
CONSTANTS
  NumReceivers = 1
  FifoSize = 3
  MaxFrame = 3
  Networks = {{"loss", "endless"}}
PROPERTIES QuitEnds
CHECK_DEADLOCK FALSE
