CONSTANTS
  Node = {n1, n2}
  Cli = {k1, k2}
  NoConn = NoConn
  TimeControl = 3
  Transfers = {}
SPECIFICATION Spec
PROPERTY
  ImplementsMembership
CHECK_DEADLOCK FALSE
