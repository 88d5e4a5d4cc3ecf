SPECIFICATION GuardSpec
CONSTANTS
  Evms = {e1, e2}
  MaxFrames = 3
  MaxEarly = 1
  MaxWrites = 1
INVARIANTS FailedCallsLeaveNothing OnlyFailedCallsLoseWrites DrainedFillsStayDrained
CHECK_DEADLOCK FALSE
SYMMETRY EvmSymmetry
