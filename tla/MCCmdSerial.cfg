CONSTANTS
  l0 = l0
  l1 = l1
  l2 = l2
  Node <- NodeIDs
  Kinds = {"RESULT", "PUSH", "LIST"}
  CliLoop = l0
  LoopOf <- OneLoop
  MaxCommands = 2
SPECIFICATION Spec
INVARIANTS
  TypeOK
  CountsAreReplies
  AtMostOneReturn
  ReturnWhenAllAnswered
PROPERTIES
  ReturnIsHonest
  CommandIsAnswered
CHECK_DEADLOCK FALSE
