CONSTANTS
  Region = {1, 2}
  Store = {1, 2, 3}
  NoStore = 0
  MaxOps = 2
  MaxMsgs = 1
  MaxBeats = 2
  MaxWaiting = 1
  InitRegion <- MCInitRegion
  Proposals <- MCProposals
SPECIFICATION FairSpec
INVARIANTS TypeOK WaitingCounted MergeHalvesAdjacent RunningIsPushed

PROPERTY OperatorsEnd
CHECK_DEADLOCK FALSE
