---------------------------- MODULE MCLeaderTSO ----------------------------
(***************************************************************************)
(* Small instances of LeaderTSO in which every failure may strike at any   *)
(* time.  The requests are interchangeable.                                *)
(***************************************************************************)
EXTENDS LeaderTSO, TLC

CONSTANTS PerRequest,   \* how many timestamps each request asks for
          Preferred     \* the server of the highest etcd leader priority

MCCount == [r \in Req |-> PerRequest]
MCPriority == [s \in Server |-> IF s = Preferred THEN 2 ELSE 1]

Symmetry == Permutations(Req)
============================================================================
