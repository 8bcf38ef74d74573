CONSTANTS
  Junk = Junk
  NotANumber = Junk
  ConfigString <- Keys
  Numeric <- PortKeys
  DigitValue <- Digits
  UInt16 = 16
  UInt32 = 128
  IntLimit = 64
  NotUtf8 <- NoNames
  Starts <- MCStarts
  AnyPort <- AnyPortValue
  Returns <- MCReturns
  MaxReturns = 2
  TimeOutLimit = 2
SPECIFICATION Spec
INVARIANTS
  TypeOK
  ConfiguredPort
  SentAsAsked
  RowsAreTheReturn
PROPERTY
  AlwaysEnds
CHECK_DEADLOCK FALSE
