----------------------------- MODULE MCOperators -----------------------------
(* Two adjacent regions, both on stores 1 and 2.  One of three things is   *)
(* asked for: the merge checker merges region 1 into region 2; an          *)
(* administrator moves its leader's peer to store 3, in three steps; or a  *)
(* scheduler moves its leader and, while that is not done, an              *)
(* administrator with a higher priority wants the same.                    *)
EXTENDS OperatorController, Handler

MCStores == [s \in 1 .. 3 |-> [rejectLeader |-> FALSE, state |-> "Up"]]
MCCluster == [stores |-> MCStores, learnerEnabled |-> FALSE, maxReplicas |-> 2]

MCPeer(s) == [id |-> s, learner |-> FALSE]
MCInitRegion ==
  [r \in 1 .. 2 |-> [id |-> r, epoch |-> <<1, 1>>, start |-> r - 1, end |-> r,
                     peers |-> [s \in {1, 2} |-> MCPeer(s)], leader |-> 1,
                     pending |-> {}, down |-> {}, size |-> 50]]

MCDesc(o, d, l) == [o EXCEPT !.desc = d, !.level = l]
MCAlone(os, d, l) == {[wait |-> FALSE, ops |-> <<MCDesc(o[1], d, l)>>] : o \in os}

MCProposals(regions, made) ==
  LET id == [s \in 1 .. 3 |-> 10 + Len(made)]
      one == regions[1]
      move == AddTransferPeerOperator(MCCluster, one, 1, 3, id[3])
      merge == CreateMergeRegionOperator("merge", MCCluster, one, regions[2], {}, id)
      leader == IF one.leader # 1 THEN {} ELSE AddTransferLeaderOperator(MCCluster, one, 2)
  IN  IF one = Gone THEN {}
      ELSE IF made = <<>>
      THEN UNION {MCAlone(move, "admin", 2), MCAlone(leader, "replica", 1),
                  {[wait |-> TRUE, ops |-> <<MCDesc(p[1], "merge", 1), MCDesc(p[2], "merge", 1)>>] :
                     p \in merge}}
      ELSE IF made[1].level = 1 /\ made[1].desc = "replica"
      THEN MCAlone(leader, "admin", 2) ELSE {}
=============================================================================
