SPECIFICATION Spec
CONSTANTS
  NumPackets = 3
  MaxFrame = 2
  MaxTaken = 6
  Networks = {{"loss", "timeout"}}
INVARIANTS CountedWasReceived
CHECK_DEADLOCK FALSE
