SPECIFICATION WireSpec
CONSTANTS
  Validators = {0, 1}
  Heights = {1, 256}
  Rounds = {0, 1}
  Values = {0, 1}
  MaxSigned = 2
  MaxSent = 1
INVARIANTS SignaturesBindMessages ArrivesVerifiable
CHECK_DEADLOCK FALSE
