SPECIFICATION FairSpec
CONSTANTS
  NoStore = 0
  CaseMap <- SimCaseMap
  Cases = {"balanceLeader", "addNodes", "addNodesDynamic", "deleteNodes", "makeupDownReplicas",
           "regionMerge", "regionSplit", "hotRead", "hotWrite", "rejecting", "leaving", "zoned",
           "relocated", "managed", "ruled", "shuffled", "mergedAtRandom", "dispersed", "scattered", "administered"}
INVARIANTS LeaderIsVoter ReplicasKept IsolationKept BlockedByOne
PROPERTY CaseSettles
CHECK_DEADLOCK FALSE
