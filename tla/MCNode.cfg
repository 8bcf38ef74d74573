CONSTANTS
  t1 = t1
  Testcase = {t1}
  Binary = {"result"}
  Chunks <- OneChunk
  Kinds = {"RUN"}
  MaxCommands = 3
  MaxBeats = 0
  MaxFailures = 0
SPECIFICATION Spec
INVARIANTS
  TypeOK
  OneJob
  LoopNotHeldUp
  ReadyAtRest
CHECK_DEADLOCK FALSE
