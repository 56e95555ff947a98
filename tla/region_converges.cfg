SPECIFICATION LiveSpec
CONSTANTS
  Store = {a, b}
  K = 2
  MaxID = 3
  batchSize = 2
  MaxQueue = 1
  MaxChanges = 2
  MaxFailures = 1
  None = None
PROPERTIES
  CacheConverges
