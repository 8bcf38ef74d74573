CONSTANTS
  t1 = t1
  Testcase = {t1}
  Binary = {"result"}
  Chunks <- TwoChunks
  Kinds = {"RUN", "RESULT"}
  MaxCommands = 2
  MaxBeats = 1
  MaxFailures = 1
SPECIFICATION Spec
INVARIANTS
  FilesOpenWhenUsed
  CompleteIsIntact
  NoExtraAnswer
PROPERTY
  AllAnswered
CHECK_DEADLOCK FALSE
