------------------------------- MODULE Checkers -------------------------------
(***************************************************************************)
(* The region checkers (server/checker/): what each would do for a region  *)
(* of the cluster c.  A checker returns the set of the operator sequences  *)
(* it may return, with <<>> for nil.  A new peer is named after its store. *)
(*                                                                         *)
(* The cluster record has, besides what Filters uses: enabled, the set of  *)
(* the checker switches that are on; hot, the hot regions; recentSplit,    *)
(* the ids in the merge checker's splitCache (0 is mergeBlockMarker);      *)
(* maxMergeRegionSize; oneWayMerge; and the namespace of each region.      *)
(***************************************************************************)
EXTENDS UserRules

nil == {<<>>}
single(os) == IF os = {} THEN nil ELSE {<<o>> : o \in os}
raised(seqs) == {[i \in DOMAIN s |-> High(s[i])] : s \in seqs}
namespaces(c) == {c.stores[s].namespace : s \in DOMAIN c.stores}

-----------------------------------------------------------------------------
(* The replica checker. *)

ownFilters(c) == {NewOverloadFilter(c), NewHealthFilter(c), NewSnapshotCountFilter(c)}

(* The best store to put a peer of the region on, beside regionStores. *)
selectBestStoreToAddReplica(c, region, regionStores, filters, classified) ==
  ReplicaSelectTarget(c, regionStores, GetStores(c),
    filters \cup ownFilters(c)
      \cup {NewStateFilter(c), NewPendingPeerCountFilter(c), NewExcludedFilter({}, regionStores)}
      \cup (IF classified THEN {NewNamespaceFilter(c, region.namespace)} ELSE {}),
    ownFilters(c))

SelectBestReplacementStore(c, region, old, filters, classified) ==
  selectBestStoreToAddReplica(c, region, DOMAIN region.peers \ {old},
    filters \cup {NewExcludedFilter({}, DOMAIN region.peers)}, classified)

selectWorstPeer(c, region) ==
  ReplicaSelectSource(c, DOMAIN region.peers, DOMAIN region.peers, ownFilters(c))

(* fixPeer: remove what is too many or hopeless, otherwise replace it. *)
fixPeer(c, region, s) ==
  IF Cardinality(DOMAIN region.peers) > c.maxReplicas \/ s \in region.pending
  THEN single(CreateRemovePeerOperator("replica", c, {"replica"}, region, s))
  ELSE UNION {IF t = NoStore THEN nil
              ELSE single(CreateMovePeerOperator("replica", c, region, {"replica"}, s, t, t)) :
                t \in SelectBestReplacementStore(c, region, s, {NewStorageThresholdFilter(c)}, TRUE)}

(* The first down peer whose store is gone for good decides. *)
checkDownPeer(c, region) ==
  LET long == {s \in region.down : longDown(c.stores[s])}
  IN  IF "removeDown" \notin c.enabled \/ long = {} THEN nil
      ELSE UNION {fixPeer(c, region, s) : s \in long}

checkOfflinePeer(c, region) ==
  LET leaving == {s \in DOMAIN region.peers : ~IsUp(c.stores[s])}
  IN  IF "replaceOffline" \notin c.enabled \/ GetLearners(region) # {} \/ leaving = {} THEN nil
      ELSE UNION {fixPeer(c, region, s) : s \in leaving}

checkBestReplacement(c, region) ==
  IF "locationReplacement" \notin c.enabled THEN nil
  ELSE UNION {
    LET better == {t \in SelectBestReplacementStore(c, region, old,
                           {NewStorageThresholdFilter(c)}, TRUE) \ {NoStore} :
                     DistinctScore(c, DOMAIN region.peers \ {old}, t)
                       > DistinctScore(c, DOMAIN region.peers, old)}
    IN  IF old = NoStore \/ better = {} THEN nil
        ELSE UNION {single(CreateMovePeerOperator("replica", c, region, {"replica"}, old, t, t)) :
                      t \in better} :
    old \in selectWorstPeer(c, region)}

(* The first check that has an answer: those that follow are looked at     *)
(* only where it may return nil.                                           *)
orElse(first, second) == (first \ nil) \cup (IF nil \subseteq first THEN second ELSE {})

makeUp(c, region) ==
  UNION {IF t = NoStore THEN nil
         ELSE {<<CreateAddPeerOperator("replica", c, region, t, t, {"replica"})>>} :
           t \in selectBestStoreToAddReplica(c, region, DOMAIN region.peers,
                                             {NewStorageThresholdFilter(c)}, TRUE)}

removeExtra(c, region) ==
  UNION {IF s = NoStore THEN nil
         ELSE single(CreateRemovePeerOperator("replica", c, {"replica"}, region, s)) :
           s \in selectWorstPeer(c, region)}

GetVoters(region) == DOMAIN region.peers \ GetLearners(region)

ReplicaCheck(c, region) ==
  orElse(raised(checkDownPeer(c, region)),
  orElse(raised(checkOfflinePeer(c, region)),
    IF Cardinality(DOMAIN region.peers) < c.maxReplicas /\ "makeUp" \in c.enabled
    THEN makeUp(c, region)
    ELSE IF Cardinality(GetVoters(region)) > c.maxReplicas /\ "removeExtra" \in c.enabled
    THEN removeExtra(c, region)
    ELSE checkBestReplacement(c, region)))

-----------------------------------------------------------------------------
(* The learner checker: a learner that has caught up is promoted. *)
LearnerCheck(region) ==
  single({CreatePromoteLearnerOperator("promote-learner", region, s) :
            s \in GetLearners(region) \ region.pending})

-----------------------------------------------------------------------------
(* The namespace checker: a peer outside its namespace moves to any store  *)
(* inside, unless the region belongs to a user's rule.                     *)
NamespaceCheck(c, region) ==
  LET own     == {s \in DOMAIN c.stores : c.stores[s].namespace = region.namespace}
      outside == DOMAIN region.peers \ own
      targets == RandomSelectTarget(own, {StoreStateFilter(c, FALSE, TRUE),
                                          NewExcludedFilter({}, DOMAIN region.peers)})
  IN  IF \/ "namespaceRelocation" \notin c.enabled
         \/ RegionFilterSource(c, region, {"Leader", "Region"})
         \/ Cardinality(namespaces(c)) = 1 \/ own = {} \/ outside = {}
      THEN nil
      ELSE UNION {IF t = NoStore THEN nil
                  ELSE single(CreateMovePeerOperator("make-namespace-relocation", c, region,
                                                     {"replica"}, s, t, t)) :
                    s \in outside, t \in targets}

-----------------------------------------------------------------------------
(* The merge checker. *)

steady(region) == region.down = {} /\ region.pending = {} /\ GetLearners(region) = {}

checkTarget(c, region, adjacent, target) ==
  {IF /\ r \notin c.hot /\ steady(c.regions[r])
      /\ c.regions[r].namespace = region.namespace
      /\ target = 0 \/ c.regions[target].size > c.regions[r].size
      /\ Cardinality(DOMAIN c.regions[r].peers) = c.maxReplicas
   THEN r ELSE target : r \in adjacent} \cup (IF adjacent = {} THEN {target} ELSE {})

(* Both neighbours are compared with no target at all, so that the one     *)
(* before is taken whenever it qualifies, and the one behind only under    *)
(* one-way merge.                                                          *)
mergeTarget(c, region) ==
  LET adjacent   == GetAdjacentRegions(c, region)
      targetNext == CHOOSE t \in checkTarget(c, region, adjacent.next, 0) : TRUE
      target     == CHOOSE t \in checkTarget(c, region, adjacent.prev, 0) : TRUE
  IN  IF target # targetNext /\ c.oneWayMerge THEN targetNext ELSE target

MergeCheck(c, region) ==
  IF \/ {0, region.id} \cap c.recentSplit # {}
     \/ region.size = 0 \/ region.size > c.maxMergeRegionSize
     \/ ~steady(region) \/ Cardinality(DOMAIN region.peers) # c.maxReplicas
     \/ region.id \in c.hot
     \/ mergeTarget(c, region) = 0
  THEN nil
  ELSE LET ops == CreateMergeRegionOperator("merge-region", c, region,
                    c.regions[mergeTarget(c, region)], {"merge"}, [s \in DOMAIN c.stores |-> s])
       IN  IF ops = {} THEN nil ELSE ops
=============================================================================
