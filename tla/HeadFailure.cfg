SPECIFICATION FairSpec
CONSTANTS
  Requests = {r1}
  Slots <- MCSlots
  Consumes <- MCConsumes
  Texts = {t1}
  None = None
  MayFail = {"ocr", "compliance", "anomaly"}
  MaxRetries = 1
  MaxCrashes = 0
CHECK_DEADLOCK FALSE
PROPERTY EventuallyReady
