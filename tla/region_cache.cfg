SPECIFICATION Spec
CONSTANTS
  Store = {a, b}
  K = 3
  MaxID = 3
  batchSize = 2
  MaxQueue = 1
  MaxChanges = 3
  MaxFailures = 1
  None = None
SYMMETRY Symmetry
INVARIANTS
  TypeOK
  TreeMatchesMap
  IndexMatchesMap
  OverlapsExact
  LoadedByLoop
