SPECIFICATION VaultSpec
CONSTANTS
  Holders = {h1, h2}
  MinDeposit = 1
  MaxDeposit = 4
  MaxAssets = 8
  MaxMarks = 2
INVARIANTS LastShareTakesAll
PROPERTIES OthersAreNotDiluted
