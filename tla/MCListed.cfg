CONSTANTS
  Node = {n1, n2}
  Cli = {k1}
  NoConn = NoConn
  TimeControl = 2
  Transfers = {n1}
SPECIFICATION Spec
INVARIANT
  ListedWhileConnected
CHECK_DEADLOCK FALSE
