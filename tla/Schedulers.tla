------------------------------ MODULE Schedulers ------------------------------
(***************************************************************************)
(* The schedulers of server/schedulers/, without the hot region ones       *)
(* (HotRegions) and those that keep a cache of regions (Adjacent): what    *)
(* Schedule may return for the cluster c, as a set of operator sequences   *)
(* with <<>> for nil.                                                      *)
(*                                                                         *)
(* A scheduler is shown the cluster through a namespaceCluster             *)
(* (server/namespace_cluster.go): own has the stores of c.namespace,       *)
(* stores all of them.  Scatter-range looks at it once more through a      *)
(* RangeCluster (server/schedule/range_cluster.go): regions then has the   *)
(* regions of the range, all every region.  running maps the regions with  *)
(* a running operator to it.                                               *)
(***************************************************************************)
EXTENDS Checkers

whole(c) == [c EXCEPT !.regions = c.all]

(* namespaceCluster.checkRegion; a RangeCluster picks its regions itself. *)
checkNamespace(c, r) ==
  /\ c.regions[r].namespace = c.namespace
  /\ DOMAIN c.regions[r].peers \subseteq c.own

newNamespaceCluster(c, ns) ==
  [c EXCEPT !.namespace = ns,
            !.own = {s \in DOMAIN c.stores : c.stores[s].namespace = ns}]

(* An empty end key is below every start key. *)
GenRangeCluster(c, start, end) ==
  [c EXCEPT !.range = TRUE, !.tolerantSizeRatio = 2,
            !.regions = [r \in {r \in live(c) : /\ start <= c.regions[r].start /\ end # Inf
                                                /\ c.regions[r].start < end} |-> c.regions[r]]]

GetAverageRegionSize(c) ==
  LET over(set, Size(_), Count(_)) ==
        LET n == MapThenSumSet(Count, set)
        IN  IF n = 0 THEN 0 ELSE MapThenSumSet(Size, set) \div n
  IN  IF c.range
      THEN over(live(c), LAMBDA r : c.regions[r].size, LAMBDA r : 1)
      ELSE over(c.own, LAMBDA s : GetRegionSize(c, s), LAMBDA s : GetRegionCount(c, s))

-----------------------------------------------------------------------------
(* A random region, 0 for nil: some number of tries may all meet regions   *)
(* that do not qualify.                                                    *)

HealthRegion(region)             == steady(region)
HealthRegionAllowPending(region) == region.down = {} /\ GetLearners(region) = {}
anyHealth(region)                == TRUE

randRegion(rs, Ok(_)) ==
  LET good == {r \in rs : Ok(r)} IN IF rs # {} /\ good = rs THEN good ELSE good \cup {0}

RandLeaderRegion(c, s, Opt(_)) ==
  randRegion(leaderRegions(c, s),
             LAMBDA r : Opt(c.regions[r]) /\ (c.range \/ checkNamespace(c, r)))

followerRegions(c, s) == {r \in live(c) : s \in GetFollowers(c.regions[r])}

RandFollowerRegion(c, s, Opt(_)) ==
  randRegion(followerRegions(c, s),
             LAMBDA r : Opt(c.regions[r]) /\ (c.range \/ checkNamespace(c, r)))

(* Neither view of the cluster overrides this one. *)
RandPendingRegion(c, s, Opt(_)) ==
  randRegion(pendingRegions(whole(c), s), LAMBDA r : Opt(c.all[r]))

-----------------------------------------------------------------------------
(* Operators that run: their number by kind, and their influence on the    *)
(* size of a store.                                                        *)

OperatorCount(c, mask) ==
  Cardinality({r \in DOMAIN c.running : c.running[r].kind \cap mask # {}})

GetOpInfluence(c, kind, s) ==
  MapThenSumSet(
    LAMBDA r : LET i == UnfinishedInfluence(c.running[r], c.all[r], s)
               IN  IF kind = "leader" THEN i.LeaderSize ELSE i.RegionSize,
    {r \in DOMAIN c.running :
       c.all[r].id # 0 /\ checkNamespace(whole(c), r) /\ ~OpIsFinish(c.running[r])})

(* In thousandths: 0.5 % of the regions of the fullest store, at least 1. *)
adjustTolerantRatio(c) ==
  IF c.tolerantSizeRatio # 0 THEN 1000 * c.tolerantSizeRatio
  ELSE Max({1000} \cup {5 * GetRegionCount(whole(c), s) : s \in GetStores(c)})

(* shouldBalance without the operators' influence and the region's size. *)
ScoresDiffer(c, cSource, source, cTarget, target, region, kind) ==
  ResourceScore(cSource, kind, source, 0) > ResourceScore(cTarget, kind, target, 0)

(* After the move the source must still have the greater score.  The two   *)
(* stores come with the cluster that their score is taken in.              *)
shouldBalance(c, cSource, source, cTarget, target, region, kind) ==
  LET size == (Max({region.size, GetAverageRegionSize(c)}) * adjustTolerantRatio(c)) \div 1000
  IN  ResourceScore(cSource, kind, source, GetOpInfluence(c, kind, source) - size)
        > ResourceScore(cTarget, kind, target, GetOpInfluence(c, kind, target) + size)

allowLeader(c) == OperatorCount(c, {"leader"}) < c.leaderLimit
allowRegion(c) == OperatorCount(c, {"region"}) < c.regionLimit

-----------------------------------------------------------------------------
(* balance-leader.  tainted are the stores in the taint cache. *)

createOperator(c, region, cSource, source, cTarget, target) ==
  IF region.id \in c.hot \/ ~shouldBalance(c, cSource, source, cTarget, target, region, "leader")
  THEN nil
  ELSE {<<CreateTransferLeaderOperator("balance-leader", region, region.leader, target, {"balance"})>>}

leaderRule(c, region) == RegionFilterSource(whole(c), region, {"Leader"})
anyRule(c, region)    == RegionFilterSource(whole(c), region, {"Leader", "Region"})

transferLeaderOut(c, source, filters) ==
  UNION {IF r = 0 \/ leaderRule(c, c.regions[r]) THEN nil
         ELSE UNION {IF t = NoStore THEN nil
                     ELSE createOperator(c, c.regions[r], c, source, whole(c), t) :
                       t \in BalanceSelectTarget(whole(c), "leader",
                                                 GetFollowers(c.regions[r]), filters)} :
           r \in RandLeaderRegion(c, source, HealthRegion)}

transferLeaderIn(c, target) ==
  UNION {IF r = 0 \/ leaderRule(c, c.regions[r]) THEN nil
         ELSE LET source == c.regions[r].leader
              IN  IF source \notin c.own THEN nil
                  ELSE createOperator(c, c.regions[r], whole(c), source, c, target) :
           r \in RandFollowerRegion(c, target, HealthRegion)}

BalanceLeaderSchedule(c, tainted) ==
  LET filters == {StoreStateFilter(c, TRUE, FALSE), NewCacheFilter(tainted)}
  IN  UNION {IF NoStore \in {s, t} THEN nil
             ELSE orElse(transferLeaderOut(c, s, filters), transferLeaderIn(c, t)) :
               s \in BalanceSelectSource(c, "leader", GetStores(c), filters),
               t \in BalanceSelectTarget(c, "leader", GetStores(c), filters)}

-----------------------------------------------------------------------------
(* balance-region.  The hits counter keeps a source, or a target for a     *)
(* source, out for a while: hits is [sources, targets].                    *)

transferPeer(c, region, old, hits) ==
  LET guard == NewDistinctScoreFilter(c, DOMAIN region.peers, old)
      block == NewBlacklistStoreFilter({"target"}, hits.targets)
  IN  UNION {IF \/ t = NoStore
                \/ ~shouldBalance(c, whole(c), old, whole(c), t, region, "region")
             THEN nil
             ELSE single(CreateMovePeerOperator("balance-region", c, region, {"balance"}, old, t, t)) :
               t \in SelectBestReplacementStore(c, region, old, {guard, block}, FALSE)}

(* The regions of the source store: one with a pending peer there first,   *)
(* then one with a follower, then one it leads.                            *)
balanceCandidates(c, s) ==
  LET else(first, second) == (first \ {0}) \cup (IF 0 \in first THEN second ELSE {})
  IN  else(RandPendingRegion(c, s, HealthRegionAllowPending),
      else(RandFollowerRegion(c, s, HealthRegion), RandLeaderRegion(c, s, HealthRegion)))

(* PD does not survive a leader that is not one of its region's peers;     *)
(* here it is passed over.                                                 *)
BalanceRegionSchedule(c, hits) ==
  LET filters == {StoreStateFilter(c, FALSE, TRUE),
                  NewBlacklistStoreFilter({"source"}, hits.sources)}
      try(s, r) == IF \/ r = 0
                      \/ Cardinality(DOMAIN c.all[r].peers) # c.maxReplicas
                      \/ r \in c.hot
                      \/ anyRule(c, c.all[r])
                      \/ ~GetStorePeer(c.all[r], s)
                   THEN nil ELSE transferPeer(c, c.all[r], s, hits)
  IN  UNION {IF s = NoStore THEN nil ELSE UNION {try(s, r) : r \in balanceCandidates(c, s)} :
               s \in BalanceSelectSource(c, "region", GetStores(c), filters)}

-----------------------------------------------------------------------------
(* The others. *)

(* label: away from the stores that reject leaders, to a healthy peer. *)
LabelSchedule(c) ==
  LET rejecting == {s \in GetStores(c) : c.stores[s].rejectLeader}
      out(s, r) ==
        LET region == c.regions[r]
            filters == {StoreStateFilter(c, TRUE, FALSE),
                        NewExcludedFilter({}, region.down \cup region.pending)}
        IN  IF leaderRule(c, region) THEN nil
            ELSE UNION {IF t = NoStore THEN nil
                        ELSE {<<CreateTransferLeaderOperator("label-reject-leader", region, s, t,
                                                             {"leader"})>>} :
                          t \in BalanceSelectTarget(c, "leader", GetFollowers(region), filters)}
      tries == {UNION {IF r = 0 THEN nil ELSE out(s, r) : r \in RandLeaderRegion(c, s, anyHealth)} :
                  s \in rejecting}
  IN  ((UNION tries) \ nil) \cup (IF \A t \in tries : nil \subseteq t THEN nil ELSE {})

(* evict-leader and grant-leader block their store while they exist. *)
EvictLeaderSchedule(c, s) ==
  UNION {IF r = 0 THEN nil
         ELSE UNION {IF t = NoStore THEN nil
                     ELSE {<<High(CreateTransferLeaderOperator("evict-leader", c.regions[r],
                               c.regions[r].leader, t, {"leader"}))>>} :
                       t \in RandomSelectTarget(GetFollowers(c.regions[r]),
                                                {StoreStateFilter(c, TRUE, FALSE)})} :
           r \in RandLeaderRegion(c, s, HealthRegion)}

GrantLeaderSchedule(c, s) ==
  {IF r = 0 THEN <<>>
   ELSE <<High(CreateTransferLeaderOperator("grant-leader", c.regions[r],
                                            c.regions[r].leader, s, {"leader"}))>> :
     r \in RandFollowerRegion(c, s, HealthRegion)}

(* shuffle-leader names the id of the leader's peer, not its store, as the *)
(* origin; ids and stores are one in the model.                            *)
ShuffleLeaderSchedule(c) ==
  UNION {IF t = NoStore THEN nil
         ELSE {IF r = 0 THEN <<>>
               ELSE <<High(CreateTransferLeaderOperator("shuffle-leader", c.regions[r],
                        c.regions[r].peers[c.regions[r].leader].id, t, {"admin"}))>> :
                 r \in RandFollowerRegion(c, t, HealthRegion)} :
           t \in RandomSelectTarget(GetStores(c), {StoreStateFilter(c, TRUE, FALSE)})}

(* shuffle-region: the peer to remove, and the store for the new one. *)
scheduleRemovePeer(c) ==
  UNION {IF s = NoStore THEN {<<0, s>>}
         ELSE LET follower == RandFollowerRegion(c, s, HealthRegion)
              IN  {<<r, s>> : r \in (follower \ {0})
                     \cup (IF 0 \in follower THEN RandLeaderRegion(c, s, HealthRegion) ELSE {})} :
           s \in RandomSelectSource(GetStores(c), {StoreStateFilter(c, FALSE, TRUE)})}

scheduleAddPeer(c, exclude) ==
  RandomSelectTarget(GetStores(c), {StoreStateFilter(c, FALSE, TRUE), exclude})

ShuffleRegionSchedule(c) ==
  UNION {IF rs[1] = 0 THEN nil
         ELSE LET region == c.regions[rs[1]]
              IN  UNION {IF t = NoStore THEN nil
                         ELSE raised(single(CreateMovePeerOperator("shuffle-region", c, region,
                                                                   {"admin"}, rs[2], t, t))) :
                           t \in scheduleAddPeer(c, NewExcludedFilter({}, DOMAIN region.peers))} :
           rs \in scheduleRemovePeer(c)}

(* random-merge: into the next region, or at random into the one before. *)
RandomMergeSchedule(c) ==
  LET into(region) ==
        LET a == GetAdjacentRegions(whole(c), region)
        IN  IF c.oneWayMerge THEN a.next ELSE a.next \cup a.prev
      merge(region, t) ==
        CreateMergeRegionOperator("random-merge", c, region, c.all[t], {"admin"},
                                  [s \in DOMAIN c.stores |-> s])
  IN  UNION {IF s = NoStore THEN nil
             ELSE UNION {IF r = 0 \/ into(c.regions[r]) = {} THEN nil
                         ELSE UNION {LET m == merge(c.regions[r], t)
                                     IN  IF m = {} THEN nil ELSE m : t \in into(c.regions[r])} :
                           r \in RandLeaderRegion(c, s, HealthRegion)} :
               s \in RandomSelectSource(GetStores(c), {StoreStateFilter(c, FALSE, TRUE)})}

(* scatter-range: balance-leader, else balance-region, within the range. *)
ScatterRangeSchedule(c, start, end, tainted, hits) ==
  LET rc == GenRangeCluster(c, start, end)
      attach(seqs, desc) ==
        {[i \in DOMAIN o |-> IF i > 1 THEN o[i]
                             ELSE [o[i] EXCEPT !.desc = desc, !.kind = @ \cup {"range"}]] : o \in seqs}
  IN  orElse(attach(BalanceLeaderSchedule(rc, tainted), "scatter-range-leader"),
             attach(BalanceRegionSchedule(rc, hits), "scatter-range-region"))
=============================================================================
