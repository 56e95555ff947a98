------------------------------- MODULE Handler -------------------------------
(***************************************************************************)
(* The operators an administrator asks for (server/handler.go, reached     *)
(* from server/api/operator.go).  Each request is checked against the      *)
(* region and the stores and turned into the operators that are handed to  *)
(* AddOperator; the empty set stands for a request that is refused.        *)
(* Keys are numbers, NoEnd the empty end key and 0 the empty start key.    *)
(***************************************************************************)
EXTENDS Operators

NoEnd == 9

admin == {"admin"}

(* GetStore(s) = nil or a tombstone: no peer may be put there. *)
usable(cluster, s) == s \in DOMAIN cluster.stores /\ cluster.stores[s].state # "Tombstone"

AddTransferLeaderOperator(cluster, region, s) ==
  IF GetStoreVoter(region, s)
  THEN {<<CreateTransferLeaderOperator("admin-transfer-leader", region, region.leader, s, admin)>>}
  ELSE {}

AddTransferRegionOperator(cluster, region, wanted, id) ==
  IF wanted # {} /\ Cardinality(wanted) <= cluster.maxReplicas
     /\ \A s \in wanted : usable(cluster, s)
  THEN {<<o>> : o \in CreateMoveRegionOperator("admin-move-region", cluster, region, admin, wanted, id)}
  ELSE {}

AddTransferPeerOperator(cluster, region, from, to, id) ==
  IF GetStorePeer(region, from) /\ usable(cluster, to)
  THEN {<<o>> : o \in CreateMovePeerOperator("admin-move-peer", cluster, region, admin, from, to, id)}
  ELSE {}

checkAdminAddPeerOperator(cluster, region, to) ==
  ~GetStorePeer(region, to) /\ usable(cluster, to)

AddAddPeerOperator(cluster, region, to, id) ==
  IF checkAdminAddPeerOperator(cluster, region, to)
  THEN {<<CreateAddPeerOperator("admin-add-peer", cluster, region, id, to, admin)>>} ELSE {}

AddAddLearnerOperator(cluster, region, to, id) ==
  IF checkAdminAddPeerOperator(cluster, region, to) /\ cluster.learnerEnabled
  THEN {<<CreateAddLearnerOperator("admin-add-learner", region, id, to, admin)>>} ELSE {}

AddRemovePeerOperator(cluster, region, from) ==
  IF GetStorePeer(region, from)
  THEN {<<o>> : o \in CreateRemovePeerOperator("admin-remove-peer", cluster, admin, region, from)}
  ELSE {}

(* Neither down, pending nor learner peers, and as many as configured. *)
normalPeers(cluster, region) ==
  /\ region.down = {} /\ region.pending = {} /\ GetLearners(region) = {}
  /\ Cardinality(DOMAIN region.peers) = cluster.maxReplicas

(* The test that precedes ErrRegionNotAdjacent, as it is written. *)
refusedAsNotAdjacent(region, target) ==
  /\ region.start = target.end \/ region.start = 0
  /\ region.end = target.start \/ region.end = NoEnd

AddMergeRegionOperator(cluster, region, target, id) ==
  IF /\ normalPeers(cluster, region) /\ normalPeers(cluster, target)
     /\ ~refusedAsNotAdjacent(region, target)
  THEN CreateMergeRegionOperator("admin-merge-region", cluster, region, target, admin, id)
  ELSE {}

AddSplitRegionOperator(cluster, region) ==
  {<<CreateSplitRegionOperator("admin-split-region", region, admin)>>}

(* Everything an administrator may ask for one region. *)
AdminRequests(cluster, region, regions, id) ==
  UNION {
    UNION {AddTransferLeaderOperator(cluster, region, s) : s \in DOMAIN cluster.stores},
    UNION {AddTransferRegionOperator(cluster, region, w, id) : w \in SUBSET DOMAIN cluster.stores},
    UNION {AddTransferPeerOperator(cluster, region, f, t, id[t]) :
             f \in DOMAIN cluster.stores, t \in DOMAIN cluster.stores},
    UNION {AddAddPeerOperator(cluster, region, t, id[t]) : t \in DOMAIN cluster.stores},
    UNION {AddAddLearnerOperator(cluster, region, t, id[t]) : t \in DOMAIN cluster.stores},
    UNION {AddRemovePeerOperator(cluster, region, f) : f \in DOMAIN cluster.stores},
    UNION {AddMergeRegionOperator(cluster, region, target, id) : target \in regions},
    AddSplitRegionOperator(cluster, region)}
=============================================================================
