---------------------------- MODULE IDAllocator ----------------------------
(***************************************************************************)
(* The cluster-wide ID allocator: server/id.go.  A server takes a window   *)
(* of allocStep IDs from etcd and hands them out of memory; it asks etcd   *)
(* again, under the protection of the leader key, only when the window is  *)
(* used up.  Leadership comes and goes as it likes: the window a server    *)
(* kept from an earlier term is used again, and a server that has lost the *)
(* key without noticing goes on handing out IDs.                           *)
(***************************************************************************)
EXTENDS Integers

CONSTANTS Server,      \* the PD servers
          Req,         \* the calls of Alloc
          None,        \* no server
          allocStep,   \* IDs taken from etcd at a time
          MaxID        \* bound: no ID beyond it is explored

ASSUME IDAssumption ==
  /\ allocStep \in Nat \ {0}
  /\ MaxID \in Nat
  /\ None \notin Server \union Req

VARIABLES leaderKey,   \* etcd: the member the leader key names, or None
          allocID,     \* etcd: the value of alloc_id, 0 when it does not exist
          base, end,   \* the window (base, end] each server has left
          mu,          \* the call that holds alloc.mu, or None
          value,       \* local: the value generate read
          call,        \* where each call stands
          id           \* the ID it returned, 0 for none

vars == <<leaderKey, allocID, base, end, mu, value, call, id>>

(* Alloc enters with the mutex: an ID out of the window, or generate. *)
Alloc(r, s) ==
  /\ call[r] = "idle"
  /\ mu[s] = None
  /\ IF base[s] = end[s]
     THEN /\ mu' = [mu EXCEPT ![s] = r]
          /\ call' = [call EXCEPT ![r] = "get"]
          /\ UNCHANGED <<base, id>>
     ELSE /\ base' = [base EXCEPT ![s] = @ + 1]
          /\ id' = [id EXCEPT ![r] = base[s] + 1]
          /\ call' = [call EXCEPT ![r] = "done"]
          /\ UNCHANGED mu
  /\ UNCHANGED <<leaderKey, allocID, end, value>>

(* generate reads alloc_id, *)
GenerateGet(r, s) ==
  /\ mu[s] = r /\ call[r] = "get"
  /\ value' = [value EXCEPT ![s] = allocID]
  /\ call' = [call EXCEPT ![r] = "txn"]
  /\ UNCHANGED <<leaderKey, allocID, base, end, mu, id>>

(* Alloc returns an error and drops the mutex. *)
Fail(r, s) ==
  /\ mu' = [mu EXCEPT ![s] = None]
  /\ call' = [call EXCEPT ![r] = "failed"]
  /\ value' = [value EXCEPT ![s] = 0]
  /\ UNCHANGED <<base, end, id>>

(* Mutant: the transaction compares the leader key only. *)
LeaderOnly(s) == leaderKey = s

(* Neither the leader key nor alloc_id changed under the call. *)
TxnSucceeds(s) == leaderKey = s /\ allocID = value[s]

(* Mutants: the step is not added; it is added short of one. *)
StepForgotten(s) == value[s]
StepShort(s) == value[s] + allocStep - 1

(* The end of the window that generate reserves. *)
GeneratedEnd(s) == value[s] + allocStep

(* It moves alloc_id on by one window, of which the call takes the first   *)
(* ID.                                                                     *)
GenerateTxn(r, s) ==
  /\ mu[s] = r /\ call[r] = "txn"
  /\ GeneratedEnd(s) <= MaxID
  /\ IF TxnSucceeds(s)
     THEN /\ allocID' = GeneratedEnd(s)
          /\ end' = [end EXCEPT ![s] = GeneratedEnd(s)]
          /\ base' = [base EXCEPT ![s] = GeneratedEnd(s) - allocStep + 1]
          /\ id' = [id EXCEPT ![r] = GeneratedEnd(s) - allocStep + 1]
          /\ mu' = [mu EXCEPT ![s] = None]
          /\ call' = [call EXCEPT ![r] = "done"]
          /\ value' = [value EXCEPT ![s] = 0]
     ELSE Fail(r, s) /\ UNCHANGED allocID
  /\ UNCHANGED leaderKey

(* An error from etcd: the read fails, or the transaction does although    *)
(* etcd may have applied it.                                               *)
GenerateError(r, s) ==
  /\ mu[s] = r /\ call[r] \in {"get", "txn"}
  /\ Fail(r, s)
  /\ \/ UNCHANGED allocID
     \/ /\ call[r] = "txn" /\ TxnSucceeds(s)
        /\ GeneratedEnd(s) <= MaxID
        /\ allocID' = GeneratedEnd(s)
  /\ UNCHANGED leaderKey

(* The election, seen from here: the leader key changes hands. *)
LeaderChanges ==
  /\ leaderKey' \in Server \union {None}
  /\ UNCHANGED <<allocID, base, end, mu, value, call, id>>

(* A server restarts with an empty window; the call it was in is lost. *)
Restart(s) ==
  /\ base' = [base EXCEPT ![s] = 0]
  /\ end' = [end EXCEPT ![s] = 0]
  /\ mu' = [mu EXCEPT ![s] = None]
  /\ value' = [value EXCEPT ![s] = 0]
  /\ call' = [r \in Req |-> IF r = mu[s] THEN "failed" ELSE call[r]]
  /\ UNCHANGED <<leaderKey, allocID, id>>

Init ==
  /\ leaderKey = None
  /\ allocID = 0
  /\ base = [s \in Server |-> 0]
  /\ end = [s \in Server |-> 0]
  /\ mu = [s \in Server |-> None]
  /\ value = [s \in Server |-> 0]
  /\ call = [r \in Req |-> "idle"]
  /\ id = [r \in Req |-> 0]

Next ==
  \/ \E r \in Req, s \in Server :
       \/ Alloc(r, s) \/ GenerateGet(r, s) \/ GenerateTxn(r, s) \/ GenerateError(r, s)
  \/ LeaderChanges
  \/ \E s \in Server : Restart(s)

Spec == Init /\ [][Next]_vars

(***************************************************************************)
(* Properties                                                              *)
(***************************************************************************)
(* Every variable holds a value of its type. *)
TypeOK ==
  /\ leaderKey \in Server \union {None}
  /\ allocID \in Nat
  /\ base \in [Server -> Nat] /\ end \in [Server -> Nat]
  /\ mu \in [Server -> Req \union {None}]
  /\ value \in [Server -> Nat]
  /\ call \in [Req -> {"idle", "get", "txn", "done", "failed"}]
  /\ id \in [Req -> Nat]

(* No two calls of Alloc return the same ID, on whichever servers and in   *)
(* whichever terms of office they ran.                                     *)
UniqueIDs ==
  \A r, g \in Req : r # g /\ id[r] # 0 => id[r] # id[g]

(* An ID some server handed out, or may hand out without asking etcd, is   *)
(* covered by what etcd holds, so no later window contains it: windows of  *)
(* different servers are disjoint and hold no ID that is in use.           *)
WindowsReserved ==
  /\ \A r \in Req : id[r] <= allocID
  /\ \A s \in Server :
       /\ base[s] <= end[s] /\ end[s] <= allocID
       /\ \A r \in Req : id[r] <= base[s] \/ id[r] > end[s]
       /\ \A t \in Server : s # t => \/ base[s] = end[s] \/ base[t] = end[t]
                                     \/ end[s] <= base[t] \/ end[t] <= base[s]

(* generate never takes back what it reserved: alloc_id only grows. *)
AllocIDMonotonic == [][allocID' >= allocID]_vars
============================================================================
