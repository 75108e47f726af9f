SPECIFICATION Spec
CONSTANTS
  Requests = {r1}
  Slots <- MCSlots
  Consumes <- MCConsumes
  Texts = {t1}
  None = None
  MayFail = {}
  MaxRetries = 0
  MaxCrashes = 1
CHECK_DEADLOCK FALSE
INVARIANT PayloadComplete
