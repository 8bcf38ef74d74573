CONSTANTS
  Node = {n1, n2}
  Cli = {k1}
  NoConn = NoConn
  TimeControl = 2
  Transfers = {}
SPECIFICATION Spec
INVARIANT
  TimeoutOnlyDisconnects
CHECK_DEADLOCK FALSE
