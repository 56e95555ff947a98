------------------------------ MODULE Simulator ------------------------------
(***************************************************************************)
(* TiKV as tools/pd-simulator has it: what becomes of a region when PD's   *)
(* command reaches its leader (task.go), when raft elects or the region    *)
(* splits (raft.go), and when nodes come and go (event.go).                *)
(*                                                                         *)
(* nodes are the running nodes (conn.Nodes).  A task waits in its node     *)
(* until the snapshot is through; the operators below are what it does to  *)
(* the region in the end (or, a node missing, does not).                   *)
(***************************************************************************)
EXTENDS Operators

Gone == [id |-> 0]

(* The epoch of a region moves with its peers and its range; two epochs    *)
(* of the model are equal when both are.                                   *)
withEpoch(region) ==
  [region EXCEPT !.epoch = <<region.peers, region.start, region.end>>]

nodeHealth(nodes, s) == s \in nodes

-----------------------------------------------------------------------------
(* The tasks. *)

(* A peer that is there already is promoted instead. *)
addPeer(region, nodes, step) ==
  IF ~({region.leader, step.to} \subseteq nodes) THEN region
  ELSE withEpoch([region EXCEPT
         !.peers = [s \in DOMAIN @ \cup {step.to} |->
                      IF s = step.to THEN [id |-> step.id, learner |-> FALSE] ELSE @[s]]])

addLearner(region, step) ==
  IF GetStorePeer(region, step.to) THEN region
  ELSE withEpoch([region EXCEPT
         !.peers = [s \in DOMAIN @ \cup {step.to} |->
                      IF s = step.to THEN [id |-> step.id, learner |-> TRUE] ELSE @[s]]])

(* The down peers are carried over only when the removed one's node is     *)
(* gone; the leader stays who it is.                                       *)
removePeer(region, nodes, step) ==
  IF ~GetStorePeer(region, step.from) THEN region
  ELSE withEpoch([region EXCEPT
         !.peers = [s \in DOMAIN @ \ {step.from} |-> @[s]],
         !.down  = IF nodeHealth(nodes, step.from) THEN {} ELSE @ \ {step.from}])

transferLeader(region, step) ==
  IF GetStorePeer(region, step.to) THEN [region EXCEPT !.leader = step.to] ELSE region

(* The simulator does not survive a target that is gone; here nothing      *)
(* happens.                                                                *)
mergeRegion(regions, source, target) ==
  LET s == regions[source]
      t == regions[target]
      before == t.end = s.start
      merged == withEpoch([t EXCEPT !.start = IF before THEN @ ELSE s.start,
                                    !.end   = IF before THEN s.end ELSE @,
                                    !.size  = @ + s.size])
  IN  IF t = Gone THEN regions ELSE [regions EXCEPT ![source] = Gone, ![target] = merged]

(* The regions after the task of step for region r has been done. *)
responseToTask(regions, nodes, r, step) ==
  LET region == regions[r]
  IN  CASE step.type \in {"AddPeer", "AddLightPeer", "PromoteLearner"} ->
             [regions EXCEPT ![r] = addPeer(region, nodes, step)]
        [] step.type \in {"AddLearner", "AddLightLearner"} ->
             [regions EXCEPT ![r] = addLearner(region, step)]
        [] step.type = "RemovePeer" -> [regions EXCEPT ![r] = removePeer(region, nodes, step)]
        [] step.type = "TransferLeader" -> [regions EXCEPT ![r] = transferLeader(region, step)]
        [] step.type = "MergeRegion" -> mergeRegion(regions, r, step.target)
        [] OTHER -> regions

(* PD's cache after a heartbeat of the region: it takes the place of all   *)
(* regions that it overlaps, which were split or merged.                   *)
report(cache, region) ==
  [q \in DOMAIN cache |->
     IF q = region.id THEN region
     ELSE IF cache[q] # Gone /\ cache[q].start < region.end /\ region.start < cache[q].end
          THEN Gone ELSE cache[q]]

-----------------------------------------------------------------------------
(* Raft. *)

(* No majority is no leader; with an even number of peers one half is      *)
(* enough.  The leader elected may be any healthy peer.                    *)
electNewLeader(region, nodes) ==
  LET peers   == DOMAIN region.peers
      healthy == {s \in peers : nodeHealth(nodes, s)}
  IN  IF Cardinality(peers \ healthy) > Cardinality(peers) \div 2 \/ healthy = {}
      THEN {NoStore} ELSE healthy

needsLeader(region, nodes) == region.leader = NoStore \/ ~nodeHealth(nodes, region.leader)

stepLeader(region, nodes) ==
  {[region EXCEPT !.leader = s] : s \in electNewLeader(region, nodes)}

NeedSplit(region, splitSize) == splitSize # 0 /\ region.size >= splitSize

(* The right half keeps the id. *)
stepSplit(regions, r, new, key) ==
  LET region == regions[r]
      half   == region.size \div 2
  IN  [regions EXCEPT
         ![new] = withEpoch([region EXCEPT !.id = new, !.end = key, !.size = half,
                                           !.pending = {}, !.down = {}]),
         ![r]   = withEpoch([region EXCEPT !.start = key, !.size = half])]

updateRegionStore(region, size) == [region EXCEPT !.size = @ + size]

(* DeleteNodes: the peers of the node are down at once. *)
downPeers(regions, s) ==
  [r \in DOMAIN regions |->
     IF regions[r] # Gone /\ GetStorePeer(regions[r], s)
     THEN [regions[r] EXCEPT !.down = @ \cup {s}] ELSE regions[r]]
=============================================================================
