------------------------- MODULE MCWatchCompacted --------------------------
(***************************************************************************)
(* The settling cluster of MCLeaderLive, with an etcd that also compacts   *)
(* its history while a follower's watch is behind.                         *)
(***************************************************************************)
EXTENDS MCLeaderLive

CompactNext == LiveNext \/ (UNCHANGED faults /\ Compaction)

CompactSpec == LiveInit /\ [][CompactNext]_<<vars, faults>> /\ Fairness
============================================================================
