SPECIFICATION CounterSpec
CONSTANTS
  NumPackets = 3
  MaxFrame = 3
  MaxTaken = 9
  Networks = {{}, {"loss"}, {"loss", "timeout"}}
  Default = 2
  MaxArg = 4
  SizeBits = 3
INVARIANTS SumTrue
PROPERTIES NumbersIncrease CounterEnds
CHECK_DEADLOCK FALSE
