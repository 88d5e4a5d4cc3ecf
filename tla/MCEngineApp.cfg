SPECIFICATION FairEngineSpec
CONSTANTS
  Power <- PowerOfTwo
  Bodies = {b1, b2}
  RealPayloads = TRUE
  Decisions = 2
  MaxRound = 1
  MaxFaults = 1
INVARIANTS ChainsAgree NoValidatorFails RethFollows StreamsWait FillsAttachedOnce
PROPERTIES CommitsUnlessLost
CHECK_DEADLOCK FALSE
