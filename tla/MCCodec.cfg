CONSTANTS
  UInt32 = 256
  NotUtf8 <- BadNames
  kHeaderLen = 1
  kMaxMessageLen = 30
  NameLen = 2
  Scripts <- MCScripts
  Registered <- AtServer
SPECIFICATION Spec
INVARIANTS
  TypeOK
  SizesAgree
  NothingLeftBehind
PROPERTIES
  ImplementsChannel
  ErrorIsFinal
  MessagesArrive
  RefusalCloses
CHECK_DEADLOCK FALSE
