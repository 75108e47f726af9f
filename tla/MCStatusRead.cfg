SPECIFICATION Spec
CONSTANTS
  Clients = {c1}
  Values = {v1, v2}
  None = None
  MaxWrites = 4
INVARIANTS TypeOK ReadInv OutcomeIsReal FinishedReplyIsWhole
