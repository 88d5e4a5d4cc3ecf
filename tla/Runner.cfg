SPECIFICATION RunnerSpec
CONSTANTS
  MaxValidators = 6
  DevnetRounds = 3
INVARIANTS DecidedIsChain
PROPERTIES RunDecides
CHECK_DEADLOCK FALSE
