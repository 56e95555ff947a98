------------------------------- MODULE Filters -------------------------------
(***************************************************************************)
(* What a store is to a scheduler: its state and its scores                *)
(* (server/core/store.go), how distinct its location is                    *)
(* (server/schedule/replica.go), the filters that keep it from being the   *)
(* source or the target of an operator (server/schedule/filters.go) and    *)
(* the selectors (server/schedule/selector.go).                            *)
(*                                                                         *)
(* A cluster is a record: stores and regions by their id, running          *)
(* operators by region, and the schedule options.  own is the set of the   *)
(* stores a scheduler is shown (namespaceCluster).  A store record has its *)
(* state, downTime (see below), busy, overloaded, blocked, snapCount,      *)
(* rejectLeader, namespace, capacity, weights, and location: the value of  *)
(* each location label in order, 0 for a label that is not set.  Sizes are *)
(* small numbers, and the space a region takes is its size.                *)
(***************************************************************************)
EXTENDS Operators, FiniteSetsExt

(* downTime is the class of the time since the last heartbeat: 0 fresh,    *)
(* 1 beyond storeDisconnectDuration, 2 beyond max-store-down-time.         *)
IsDisconnected(st) == st.downTime > 0
longDown(st)       == st.downTime > 1
IsUp(st)           == st.state = "Up"
IsOffline(st)      == st.state = "Offline"
IsTombstone(st)    == st.state = "Tombstone"

GetStores(c) == c.own

(* What the regions put on a store (RegionsInfo's counters). *)
live(c)               == {r \in DOMAIN c.regions : c.regions[r].id # 0}
storeRegions(c, s)    == {r \in live(c) : GetStorePeer(c.regions[r], s)}
leaderRegions(c, s)   == {r \in live(c) : c.regions[r].leader = s}
pendingRegions(c, s)  == {r \in live(c) : s \in c.regions[r].pending}
sumSize(c, rs)        == MapThenSumSet(LAMBDA r : c.regions[r].size, rs)
GetRegionSize(c, s)   == sumSize(c, storeRegions(c, s))
GetLeaderSize(c, s)   == sumSize(c, leaderRegions(c, s))
GetRegionCount(c, s)  == Cardinality(storeRegions(c, s))
GetLeaderCount(c, s)  == Cardinality(leaderRegions(c, s))
GetPendingPeerCount(c, s) == Cardinality(pendingRegions(c, s))

-----------------------------------------------------------------------------
(* Scores.  A weight is a small number; under a weight of 0 the divisor is *)
(* minWeight, which outweighs every size of the instance.                  *)

weightScale == 4
maxScore    == 1000
perWeight(score, w) ==
  IF w = 0 THEN score * weightScale * maxScore ELSE (score * weightScale) \div w

LeaderScore(c, s, delta) ==
  perWeight(GetLeaderSize(c, s) + delta, c.stores[s].leaderWeight)

available(c, s) == c.stores[s].capacity - GetRegionSize(c, s)

(* RegionScore: the size while there is space, the lack of space when      *)
(* there is little, and the straight line between the two in the middle    *)
(* (amplification is 1).  The ratios are percentages.                      *)
RegionScore(c, s, delta) ==
  LET size  == GetRegionSize(c, s) + delta
      free  == available(c, s) - delta
      total == c.stores[s].capacity
      high  == ((100 - c.highSpaceRatio) * total) \div 100
      low   == ((100 - c.lowSpaceRatio) * total) \div 100
      x1    == total - high
      y2    == maxScore - low
      score == IF free >= high THEN size
               ELSE IF free <= low THEN maxScore - free
               ELSE x1 + ((size - x1) * (y2 - x1)) \div (high - low)
  IN  perWeight(score, c.stores[s].regionWeight)

IsLowSpace(c, s) ==
  100 * available(c, s) < (100 - c.lowSpaceRatio) * c.stores[s].capacity

ResourceScore(c, kind, s, delta) ==
  IF kind = "leader" THEN LeaderScore(c, s, delta) ELSE RegionScore(c, s, delta)

ResourceSize(c, kind, s) ==
  IF kind = "leader" THEN GetLeaderSize(c, s) ELSE GetRegionSize(c, s)

ResourceCount(c, kind, s) ==
  IF kind = "leader" THEN GetLeaderCount(c, s) ELSE GetRegionCount(c, s)

(* CompareLocation: the first level at which both stores have a label and  *)
(* the labels differ, -1 if there is none.                                 *)
CompareLocation(a, b) ==
  LET differ == {i \in DOMAIN a.location :
                   a.location[i] # 0 /\ b.location[i] # 0 /\ a.location[i] # b.location[i]}
  IN  IF differ = {} THEN -1 ELSE Min(differ) - 1

replicaBaseScore == 100

DistinctScore(c, stores, other) ==
  MapThenSumSet(
    LAMBDA s : LET index == CompareLocation(c.stores[s], c.stores[other])
               IN  IF index = -1 THEN 0
                   ELSE replicaBaseScore ^ (Len(c.stores[s].location) - index - 1),
    stores \ {other})

(* compareStoreScore: 1 if a is the better store for a replica. *)
compareStoreScore(c, a, scoreA, b, scoreB) ==
  CASE scoreA > scoreB -> 1
    [] scoreA < scoreB -> -1
    [] RegionScore(c, a, 0) < RegionScore(c, b, 0) -> 1
    [] RegionScore(c, a, 0) > RegionScore(c, b, 0) -> -1
    [] OTHER -> 0

-----------------------------------------------------------------------------
(* Filters: a filter is the set of stores it refuses as a source and the   *)
(* set it refuses as a target.                                             *)

refusing(c, Source(_), Target(_)) ==
  [sources |-> {s \in DOMAIN c.stores : Source(c.stores[s])},
   targets |-> {s \in DOMAIN c.stores : Target(c.stores[s])}]

never(st) == FALSE

FilterSource(s, filters) == \E f \in filters : s \in f.sources
FilterTarget(s, filters) == \E f \in filters : s \in f.targets

NewExcludedFilter(sources, targets) == [sources |-> sources, targets |-> targets]

NewBlockFilter(c) == refusing(c, LAMBDA st : st.blocked, LAMBDA st : st.blocked)

NewOverloadFilter(c) == refusing(c, LAMBDA st : st.overloaded, LAMBDA st : st.overloaded)

NewStateFilter(c) == refusing(c, IsTombstone, LAMBDA st : ~IsUp(st))

NewHealthFilter(c) ==
  LET unhealthy(st) == st.busy \/ longDown(st) IN refusing(c, unhealthy, unhealthy)

NewDisconnectFilter(c) == refusing(c, IsDisconnected, IsDisconnected)

tooManyPending(c, s) ==
  c.maxPendingPeerCount # 0 /\ GetPendingPeerCount(c, s) > c.maxPendingPeerCount

NewPendingPeerCountFilter(c) ==
  LET many == {s \in DOMAIN c.stores : tooManyPending(c, s)}
  IN  [sources |-> many, targets |-> many]

tooManySnapshots(c, st) == st.snapCount > c.maxSnapshotCount

NewSnapshotCountFilter(c) ==
  LET many(st) == tooManySnapshots(c, st) IN refusing(c, many, many)

(* The cache holds the stores a scheduler has lately failed to move from. *)
NewCacheFilter(cached) == [sources |-> cached, targets |-> {}]

NewStorageThresholdFilter(c) ==
  [sources |-> {}, targets |-> {s \in DOMAIN c.stores : IsLowSpace(c, s)}]

(* NewDistinctScoreFilter that measures against the source itself too. *)
BesideSource(c, stores, source) ==
  [sources |-> {},
   targets |-> {s \in DOMAIN c.stores :
                  DistinctScore(c, stores, s) < DistinctScore(c, stores, source)}]

(* Replacing source must not make the replicas less distinct. *)
NewDistinctScoreFilter(c, stores, source) ==
  LET others == stores \ {source}
  IN  [sources |-> {},
       targets |-> {s \in DOMAIN c.stores :
                      DistinctScore(c, others, s) < DistinctScore(c, others, source)}]

NewNamespaceFilter(c, ns) ==
  LET foreign(st) == st.namespace # ns IN refusing(c, foreign, foreign)

NewRejectLeaderFilter(c) == refusing(c, never, LAMBDA st : st.rejectLeader)

(* StoreStateFilter, for schedules that transfer leaders or move regions. *)
filterMoveRegion(c, st) == st.busy \/ st.overloaded \/ tooManySnapshots(c, st)

StoreStateFilter(c, transferLeader, moveRegion) ==
  [sources |-> {s \in DOMAIN c.stores :
     LET st == c.stores[s]
     IN  \/ IsTombstone(st) \/ longDown(st)
         \/ transferLeader /\ (IsDisconnected(st) \/ st.blocked)
         \/ moveRegion /\ filterMoveRegion(c, st)},
   targets |-> {s \in DOMAIN c.stores :
     LET st == c.stores[s]
     IN  \/ IsTombstone(st) \/ IsOffline(st) \/ longDown(st)
         \/ transferLeader /\ (IsDisconnected(st) \/ st.blocked \/ st.busy \/ st.rejectLeader)
         \/ moveRegion /\ (tooManyPending(c, s) \/ filterMoveRegion(c, st))}]

(* flags is the subset of {"source", "target"} the blacklist is for. *)
NewBlacklistStoreFilter(flags, blacklist) ==
  [sources |-> IF "source" \in flags THEN blacklist ELSE {},
   targets |-> IF "target" \in flags THEN blacklist ELSE {}]

-----------------------------------------------------------------------------
(* Selectors.  Each returns the set of the stores it may return, with      *)
(* NoStore for nil: ties are decided by the order of the store list, which *)
(* is the order of a Go map.                                               *)

orNil(stores) == IF stores = {} THEN {NoStore} ELSE stores

BalanceSelectSource(c, kind, stores, filters) ==
  LET ok == {s \in stores : ~FilterSource(s, filters)}
  IN  orNil({s \in ok : \A t \in ok :
               ResourceScore(c, kind, t, 0) <= ResourceScore(c, kind, s, 0)})

BalanceSelectTarget(c, kind, stores, filters) ==
  LET ok == {s \in stores : ~FilterTarget(s, filters)}
  IN  orNil({s \in ok : \A t \in ok :
               ResourceScore(c, kind, s, 0) <= ResourceScore(c, kind, t, 0)})

(* The best of the stores, for a replica beside those of regionStores. *)
bestStores(c, regionStores, stores) ==
  {s \in stores : \A t \in stores :
     compareStoreScore(c, s, DistinctScore(c, regionStores, s),
                          t, DistinctScore(c, regionStores, t)) >= 0}

worstStores(c, regionStores, stores) ==
  {s \in stores : \A t \in stores :
     compareStoreScore(c, s, DistinctScore(c, regionStores, s),
                          t, DistinctScore(c, regionStores, t)) <= 0}

(* The selector's own filters look only at the best store: if that one is  *)
(* refused the answer is nil, whatever the others are.                     *)
ReplicaSelectSource(c, regionStores, stores, final) ==
  LET worst == worstStores(c, regionStores, stores)
  IN  orNil({IF FilterSource(s, final) THEN NoStore ELSE s : s \in worst})

ReplicaSelectTarget(c, regionStores, stores, filters, final) ==
  LET best == bestStores(c, regionStores, {s \in stores : ~FilterTarget(s, filters)})
  IN  orNil({IF FilterTarget(s, final) THEN NoStore ELSE s : s \in best})

RandomSelectSource(stores, filters) == orNil({s \in stores : ~FilterSource(s, filters)})
RandomSelectTarget(stores, filters) == orNil({s \in stores : ~FilterTarget(s, filters)})
=============================================================================
