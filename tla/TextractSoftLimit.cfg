SPECIFICATION Spec
CONSTANTS
  Documents = {"a"}
  DocumentIds = {"x"}
  None = None
  MaxPages = 1
  MaxRetries = 1
  MaxPoll = 6
  PollInterval = 1
  SoftLimit = 8
  PutTimes = {0, 3}
  CallTimes = {0}
CHECK_DEADLOCK FALSE
INVARIANT DeadlineFirst
