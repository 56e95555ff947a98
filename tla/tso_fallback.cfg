SPECIFICATION FallBackSpec
CONSTANTS
  Server = {s1, s2}
  Req = {r1, r2}
  None = None
  Preferred = s1
  PerRequest = 2
  Count <- MCCount
  Priority <- MCPriority
  Clock = {2, 5}
  MaxPhysical = 9
  Ms = 2
  SaveInterval = 5
  MaxLogical = 5
  MaxRetry = 2
SYMMETRY Symmetry
INVARIANTS
  TSWontFallBack
