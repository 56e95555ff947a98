--------------------------- MODULE MCLeaderLive ----------------------------
(***************************************************************************)
(* The election under a bounded number of failures: once they stop, the    *)
(* cluster must settle.  No Tso requests here.                             *)
(***************************************************************************)
EXTENDS LeaderTSO, TLC

CONSTANTS s1, s2,
          MaxFaults        \* bound: failures in one behaviour

VARIABLE faults            \* failures so far

MCServer == {s1, s2}
MCCount == [r \in {} |-> 0]
MCPriority == (s1 :> 1) @@ (s2 :> 2)

(* Without a fault a lease ends only when nobody renews it any more, and a *)
(* renewal is refused only when the lease has ended.                       *)
LeaseRunsOut == leaderKey # None /\ ~KeptAlive(leaderKey) /\ LeaseExpires
LeaseLost(s) == leaderKey # s /\ KeepAliveClosed(s)

LiveInit == Init /\ faults = 0

LiveNext ==
  \/ UNCHANGED faults /\ (Steady \/ LeaseRunsOut \/ \E s \in Server : LeaseLost(s))
  \/ faults < MaxFaults /\ faults' = faults + 1 /\ Fault

(* Each server's leaderLoop goroutine runs, and so does its priority loop; *)
(* crashed servers are restarted; etcd expires leases, reports it to their *)
(* owners, and elects a leader.                                            *)
Fairness ==
  /\ \A s \in Server : /\ WF_<<vars, faults>>(UNCHANGED faults /\ Election(s))
                       /\ WF_<<vars, faults>>(UNCHANGED faults /\ Serving(s))
                       /\ WF_<<vars, faults>>(UNCHANGED faults /\ EtcdLeaderLoop(s))
                       /\ WF_<<vars, faults>>(UNCHANGED faults /\ Restart(s))
                       /\ SF_<<vars, faults>>(UNCHANGED faults /\ LeaseLost(s))
  /\ WF_<<vars, faults>>(UNCHANGED faults /\ LeaseRunsOut)
  /\ WF_<<vars, faults>>(UNCHANGED faults /\ EtcdElects)

LiveSpec == LiveInit /\ [][LiveNext]_<<vars, faults>> /\ Fairness

(* A server that lost the leader key stops serving: it cannot go on as a   *)
(* second leader for ever (campaignLeader's select and deferred calls).    *)
StaleLeaderStops ==
  \A s \in Server : leader[s] = s /\ leaderKey # s ~> leader[s] # s

(* Once failures stop there is a leader, and it stays: the one server that *)
(* serves holds the leader key.                                            *)
LeaderSettles ==
  <>[](\E s \in Server : leaderKey = s /\ leader[s] = s)

(* A follower does not take a server for the leader for ever after that    *)
(* server lost the key (watchLeader).                                      *)
FollowerCatchesUp ==
  \A s, t \in Server :
    s # t /\ leader[s] = t /\ leaderKey # t ~> leader[s] # t \/ leaderKey = t
============================================================================
