SPECIFICATION FairSpec
CONSTANTS
  NumReceivers = 2
  FifoSize = 3
  MaxFrame = 2
  Networks = {{"loss"}}
PROPERTIES AssemblerStops
CHECK_DEADLOCK FALSE
