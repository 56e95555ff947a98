SPECIFICATION ServicesSpec
CONSTANTS
  Parts = {"stores"}
  Server = {s1, s2}
  Req = {r1, r2, r3}
  None = None
  allocStep = 2
  MaxID = 6
  StoreID = {1, 2}
  BootRequest <- MCBoot
  PutRequest <- MCPut
  Labels = {"z"}
  Weights = {2}
  Strict = FALSE
  Caller = {c1, c2}
  Background = bg
  MaxCalls = 4
  MaxFaults = 1
  RegionID = {1, 2}
  historySize = 2
  flushEvery = 2
  syncBatch = 1
  notifierSize = 2
  MaxChanges = 3
  MaxWire = 1
  MaxStreams = 2
  MaxSyncFaults = 1
  Member = {m1, m2}
  TSORequest = {1, 2}
  Slots = 3
  MaxPDFaults = 2
  CacheKey = {1, 2, 3}
  CacheValue = {1, 2}
  cacheSize = 2
  ttl = 1
  MaxTime = 1
  NsName = {"a", "b", "global"}
  NsTable = {0, 1}
  NsStore = {1}
  MaxNsID = 3
  MaxNsOps = 5
  MaxNsFaults = 1
  OptServer = {s1, s2}
  PluginServer = {s1}
  OptCaller = {c1}
  defaultSchedulers <- MCDefaults
  OtherScheduler = {"evict"}
  OptValue = {2}
  OptNs = {"n"}
  OptLabel = {"l"}
  SavedBefore = TRUE
  MaxOptOps = 1
  MaxTerms = 2
  MaxOptFaults = 1
PROPERTIES
  RemoveStoreFromUp
CHECK_DEADLOCK FALSE
