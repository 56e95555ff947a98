SPECIFICATION Spec
CONSTANTS
  Server = {s1, s2}
  Req = {r1, r2}
  None = None
  Preferred = s1
  PerRequest = 2
  Count <- MCCount
  Priority <- MCPriority
  Clock = {2, 5}
  MaxPhysical = 7
  Ms = 2
  SaveInterval = 3
  MaxLogical = 4
  MaxRetry = 2
SYMMETRY Symmetry
INVARIANTS
  TypeOK
  UniqueTimestamps
  MonotonicTimestamps
  PhysicalBelowSaved
  KeyHolderIsNewest
PROPERTIES
  SavedMonotonic
  PhysicalMonotonic
  OracleSpec
