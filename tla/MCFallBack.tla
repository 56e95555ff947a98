---------------------------- MODULE MCFallBack -----------------------------
(***************************************************************************)
(* Timestamps across servers: LeaderTSO with a record of what had been     *)
(* answered, by any server, when a request was sent.                       *)
(***************************************************************************)
EXTENDS MCLeaderTSO

VARIABLE before   \* before[r]: the requests answered before r was sent

FallBackInit == Init /\ before = [r \in Req |-> {}]

FallBackNext ==
  /\ Next
  /\ before' = [r \in Req |-> IF rpc[r] = "idle" /\ rpc'[r] # "idle" THEN Answered ELSE before[r]]

FallBackSpec == FallBackInit /\ [][FallBackNext]_<<vars, before>>

(* "make sure TS won't fall back": a client that already holds an answer   *)
(* of Tso never gets a smaller timestamp, whichever server it asks.        *)
TSWontFallBack == \A r \in Answered : \A g \in before[r] : Exceeds(r, g)
============================================================================
