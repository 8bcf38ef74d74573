CONSTANTS
  l0 = l0
  l1 = l1
  l2 = l2
  Node <- NodeIDs
  Kinds = {"RUN", "RESULT"}
  CliLoop = l0
  LoopOf <- OneLoop
  MaxCommands = 2
SPECIFICATION Spec
PROPERTY
  ReturnCountsOwnReplies
CHECK_DEADLOCK FALSE
