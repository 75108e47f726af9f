SPECIFICATION Spec
CONSTANTS
  Clients = {c1}
  Values = {v1, v2}
  None = None
  MaxWrites = 3
INVARIANT ReadyHasOutcome
