CONSTANTS
  Capacity = 2
  MaxBuffers = 3
  MaxRecords = 12
  NoBuffer = NoBuffer
SPECIFICATION Spec
INVARIANTS
  TypeOK
  AssertsHold
PROPERTY
  ImplementsQueue
