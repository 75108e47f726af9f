SPECIFICATION Spec
CONSTANT MaxAgents = 4
INVARIANTS TypeOK CanvasMatchesDispatch CallsFit MergeIsComplete
CHECK_DEADLOCK FALSE
