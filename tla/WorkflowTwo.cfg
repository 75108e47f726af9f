SPECIFICATION MCTwoSpec
CONSTANTS
  Requests = {r1, r2}
  Slots <- TwoSlots
  Consumes <- TwoConsumes
  Texts = {t1}
  None = None
  MayFail = {"ocr", "compliance"}
  MaxRetries = 0
  MaxCrashes = 0
CHECK_DEADLOCK FALSE
PROPERTIES ReadyUnlessHeadFails FaultlessSucceeds KeepsContract
