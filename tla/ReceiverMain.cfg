SPECIFICATION MainSpec
CONSTANTS
  NumReceivers = 1
  FifoSize = 3
  MaxFrame = 2
  NumPackets = 2
  CountBits = 3
  Networks = {{"endless"}, {"loss"}}
INVARIANTS CleanEnd StatusTrue LossIsShown
PROPERTIES QuitEndsOrStuck
CHECK_DEADLOCK FALSE
