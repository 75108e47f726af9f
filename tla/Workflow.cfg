SPECIFICATION FairSpec
CONSTANTS
  Requests = {r1}
  Slots <- MCSlots
  Consumes <- MCConsumes
  Texts = {t1, t2}
  None = None
  MayFail = {"ocr", "compliance", "anomaly"}
  MaxRetries = 2
  MaxCrashes = 0
CHECK_DEADLOCK FALSE
INVARIANTS TypeOK PayloadComplete PayloadConsistent UnavailableNeverFinishes CalmInv
PROPERTIES ReadyIsFinal ImplementsContract
