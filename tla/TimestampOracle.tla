-------------------------- MODULE TimestampOracle --------------------------
(***************************************************************************)
(* What a PD cluster promises to the callers of the Tso RPC, whatever      *)
(* happens to its leaders: a request is answered at most once, its answer  *)
(* never changes, and the block of timestamps it hands out (the Count      *)
(* logical values ending at reply.logical, at one physical millisecond)    *)
(* shares no timestamp with a block handed out before.                     *)
(***************************************************************************)
EXTENDS Integers

CONSTANTS Req,      \* the Tso requests clients send
          Count,    \* how many timestamps each of them asks for
          NoReply   \* marks a request without an answer

VARIABLE reply      \* reply[r]: the pdpb.Timestamp sent for r, or NoReply

(* The answers a server may send: one physical time in milliseconds and    *)
(* the LAST logical value of the block.                                    *)
Timestamp == [physical : Nat, logical : Nat]

(* No timestamp belongs to both blocks. *)
Disjoint(a, na, b, nb) ==
  \/ a.physical # b.physical
  \/ a.logical <= b.logical - nb
  \/ b.logical <= a.logical - na

Init == reply = [r \in Req |-> NoReply]

(* A request is answered with timestamps nobody else holds. *)
Answer(r) ==
  /\ reply[r] = NoReply
  /\ reply'[r] \in Timestamp
  /\ reply' = [reply EXCEPT ![r] = reply'[r]]
  /\ \A g \in Req : reply[g] # NoReply =>
                      Disjoint(reply'[r], Count[r], reply[g], Count[g])

Next == \E r \in Req : Answer(r)

Spec == Init /\ [][Next]_reply
============================================================================
