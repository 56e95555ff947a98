SPECIFICATION LiveSpec
CONSTANTS
  Store = {a, b}
  K = 2
  MaxID = 3
  batchSize = 2
  MaxQueue = 1
  MaxChanges = 3
  MaxFailures = 1
  None = None
PROPERTIES
  StaleNeverWins
