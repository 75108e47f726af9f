SPECIFICATION MCSpec
CONSTANTS
  Results <- MCResults
  MaxReported = 2
CHECK_DEADLOCK FALSE
INVARIANTS TypeOK TextIsWhole GridsMatch GraphMatchesPlain RiskIsFlagged
