SPECIFICATION Spec
CONSTANTS
  Documents = {"a", "b"}
  DocumentIds = {"x", "y"}
  None = None
  MaxPages = 2
  MaxRetries = 1
  MaxPoll = 1
  PollInterval = 1
  SoftLimit = 3
  PutTimes = {0, 2}
  CallTimes = {0}
CHECK_DEADLOCK FALSE
INVARIANTS TypeOK JobInv ResultOfOneDocument ResultIsWhole
PROPERTY EveryTaskEnds
