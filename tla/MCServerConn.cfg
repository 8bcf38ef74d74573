CONSTANTS
  Node = {n1, n2, n3}
  Cli = {k1, k2}
  NoConn = NoConn
  TimeControl = 2
  Transfers = {n1, n2, n3}
SPECIFICATION Spec
SYMMETRY Symmetry
INVARIANTS
  TypeOK
  WheelExact
  RegisteredHasEntry
  LiveIsRegistered
  CliSlotExact
  CliSlotNotStale
  CrashCause
  IDsPartitioned
PROPERTY
  SmallestIDFirst
CHECK_DEADLOCK FALSE
