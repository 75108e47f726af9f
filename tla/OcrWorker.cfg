SPECIFICATION MCSpec
CONSTANTS
  Processes = {p1, p2}
  Documents = {a, b}
  Faulty = {b}
  None = None
  MaxPages = 2
  MaxRetries = 1
  MaxKills = 1
  TasksPerChild = 2
CHECK_DEADLOCK FALSE
INVARIANTS TypeOK HoldsOwn ExtractionIsWhole FailsFast SoundDocumentsSucceed
PROPERTY EveryTaskEnds
