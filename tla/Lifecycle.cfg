SPECIFICATION LifeSpec
CONSTANTS
  Object = {r, g, h, s}
  Source = {s}
  Receiver = {r}
  Assembler = a
  MaxFd = 1
  PacketSize = {1, 2}
  MaxFifos = 2
  Failures = {"bind", "option", "buffer", "connect"}
SYMMETRY Symmetry
INVARIANTS DescriptorsOwned RulesSuffice ThreadHasSocket
CHECK_DEADLOCK FALSE
