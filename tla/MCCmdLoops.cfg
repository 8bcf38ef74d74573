CONSTANTS
  l0 = l0
  l1 = l1
  l2 = l2
  Node <- NodeIDs
  Kinds = {"RUN"}
  CliLoop = l0
  LoopOf <- OwnLoops
  MaxCommands = 1
SPECIFICATION Spec
INVARIANT
  ReturnWhenAllAnswered
CHECK_DEADLOCK FALSE
