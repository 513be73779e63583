SPECIFICATION FairSpec
CONSTANTS
  NumPackets = 3
  MaxFrame = 2
  MaxTaken = 6
  Networks = {{}, {"loss"}, {"loss", "timeout"}, {"loss", "disorder", "timeout", "short"}}
INVARIANTS InFrame NothingVanishes MissingNearlyRight CompleteIsWhole
PROPERTIES FrameEnds StopIsHeard ImplementsRecvInto
CHECK_DEADLOCK FALSE
