SPECIFICATION FairSpec
CONSTANTS
  Item = {a, b}
  Size = 4
  Raw = Raw
  Shell = Shell
INVARIANTS TypeOK LifetimeSafe GuessBounds AnswersHold
PROPERTIES FrontStable ImplementsFifo Drained
CHECK_DEADLOCK FALSE
