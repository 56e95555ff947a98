SPECIFICATION CompactSpec
CONSTANTS
  s1 = s1
  s2 = s2
  Server <- MCServer
  Req = {}
  None = None
  Count <- MCCount
  Priority <- MCPriority
  Clock = {1}
  MaxPhysical = 40
  Ms = 1
  SaveInterval = 1
  MaxLogical = 2
  MaxRetry = 1
  MaxFaults = 1
PROPERTIES
  FollowerCatchesUp
