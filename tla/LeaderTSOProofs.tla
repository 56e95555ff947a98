-------------------------- MODULE LeaderTSOProofs --------------------------
(***************************************************************************)
(* The timestamp oracle is safe for any number of servers and requests,    *)
(* any clocks, and any failures of LeaderTSO.                              *)
(*                                                                         *)
(* The argument is about windows.  From the moment its save succeeds until *)
(* it leaves office a server publishes objects between Low(s), what it     *)
(* published last, and lastSavedTime[s].  All windows and all objects ever *)
(* published lie at least Ms apart, and whatever belongs to others lies    *)
(* below the window of the server that the leader key names: that is why   *)
(* it may extend its window by a save that does not look at the old value. *)
(***************************************************************************)
EXTENDS LeaderTSO, SequenceTheorems, TLAPS

(* s is about to publish, or has published, under a saved window. *)
HasWindow(s) == pc[s] = "store" \/ ts[s] # 0

(* The lower end of that window. *)
Low(s) == IF ts[s] # 0 THEN objs[ts[s]].physical ELSE next[s]

(* How pc, s.leader and s.ts go together; what a running request refers to. *)
Control ==
  /\ \A s \in Server :
       /\ leader[s] = s => pc[s] \in {"serve", "disable", "save", "store"}
       /\ pc[s] \in {"serve", "disable"} => leader[s] = s
       /\ ts[s] # 0 <=> \/ pc[s] \in {"enable", "serve", "disable", "zero"}
                        \/ pc[s] \in {"save", "store"} /\ leader[s] = s
  /\ \A r \in Req :
       /\ rpc[r] \in {"load", "add"} => srv[r] \in Server /\ reply[r] = None
       /\ rpc[r] = "idle" => reply[r] = None
       /\ rpc[r] = "add" => cur[r] # 0

(* The physical time on its way lies above what is published, inside the   *)
(* window once that is saved, and above the saved timestamp while a new    *)
(* leader still has to save it.                                            *)
OnTheWay ==
  \A s \in Server :
    /\ pc[s] = "store" => next[s] < lastSavedTime[s]
    /\ pc[s] \in {"save", "store"} /\ ts[s] # 0 => Low(s) + Ms <= next[s]
    /\ pc[s] = "save" /\ ts[s] # 0 => lastSavedTime[s] <= next[s] + Ms
    /\ pc[s] = "save" /\ ts[s] = 0 /\ leaderKey = s => saved + Ms <= next[s]

(* A window lies below what etcd holds; its owner knows exactly what etcd  *)
(* holds while it has the leader key and saw no save fail.                 *)
Saved ==
  \A s \in Server : HasWindow(s) =>
    /\ Low(s) < lastSavedTime[s]
    /\ lastSavedTime[s] <= saved
    /\ leaderKey = s /\ pc[s] \notin {"disable", "zero"} => saved = lastSavedTime[s]

(* No object lies in a window it was not published under. *)
ObjectsOutside ==
  \A s \in Server : HasWindow(s) =>
    \A i \in DOMAIN objs \ {ts[s]} :
      \/ objs[i].physical + Ms <= Low(s)
      \/ lastSavedTime[s] + Ms <= objs[i].physical

(* Two windows never meet. *)
WindowsApart ==
  \A s, t \in Server : s # t /\ HasWindow(s) /\ HasWindow(t) =>
    \/ lastSavedTime[s] + Ms <= Low(t)
    \/ lastSavedTime[t] + Ms <= Low(s)

(* The holder of the leader key is above everybody else. *)
HolderOnTop ==
  \A s \in Server : leaderKey = s /\ HasWindow(s) =>
    /\ \A i \in DOMAIN objs \ {ts[s]} : objs[i].physical + Ms <= Low(s)
    /\ \A t \in Server \ {s} : HasWindow(t) => lastSavedTime[t] + Ms <= Low(s)

(* No two objects share a millisecond. *)
ObjectsApart ==
  \A i, j \in DOMAIN objs : i # j =>
    \/ objs[i].physical + Ms <= objs[j].physical
    \/ objs[j].physical + Ms <= objs[i].physical

TSOInv ==
  /\ TypeOK /\ Control
  /\ OnTheWay /\ Saved
  /\ ObjectsOutside /\ WindowsApart /\ HolderOnTop
  /\ ObjectsApart /\ PhysicalBelowSaved

(* An answer came out of an object, which has since only counted up. *)
Answers ==
  \A r \in Req : reply[r] # None =>
    \E i \in DOMAIN objs : /\ reply[r].physical = Milli(objs[i].physical)
                           /\ reply[r].logical <= objs[i].logical

(***************************************************************************)
(* Arithmetic and sequences                                                *)
(***************************************************************************)
(* Times a millisecond apart are told apart after truncation. *)
LEMMA MilliApart ==
  ASSUME NEW a \in Nat, NEW b \in Nat, a + Ms <= b
  PROVE  Milli(a) < Milli(b)
  BY TimeAssumption DEF Milli

(* Truncation yields a natural number. *)
LEMMA MilliNat == \A a \in Nat : Milli(a) \in Nat
  BY TimeAssumption DEF Milli

(* Publishing adds one object behind the others. *)
LEMMA AppendObject ==
  ASSUME TypeOK, NEW o \in Object
  PROVE  /\ Append(objs, o) \in Seq(Object)
         /\ Len(Append(objs, o)) = Len(objs) + 1
         /\ \A i \in 1 .. Len(objs) : Append(objs, o)[i] = objs[i]
         /\ Append(objs, o)[Len(objs) + 1] = o
  BY AppendProperties DEF TypeOK

(* Counting up the logical part of an object leaves the rest alone. *)
LEMMA CountUp ==
  ASSUME TypeOK, NEW i \in DOMAIN objs, NEW l \in Nat,
         objs' = [objs EXCEPT ![i].logical = l]
  PROVE  /\ objs' \in Seq(Object)
         /\ Len(objs') = Len(objs)
         /\ DOMAIN objs' = DOMAIN objs
         /\ \A j \in DOMAIN objs : /\ objs'[j].physical = objs[j].physical
                                   /\ j # i => objs'[j] = objs[j]
         /\ objs'[i].logical = l
<1>1. /\ objs \in Seq(Object) /\ i \in 1 .. Len(objs) /\ objs[i] \in Object
      /\ DOMAIN objs = 1 .. Len(objs)
  BY DEF TypeOK
<1> DEFINE e == [objs[i] EXCEPT !.logical = l]
<1>2. e \in Object /\ e.physical = objs[i].physical /\ e.logical = l
  BY <1>1 DEF Object
<1>3. objs' = [objs EXCEPT ![i] = e]
  OBVIOUS
<1> HIDE DEF e
<1>4. /\ objs' \in Seq(Object) /\ Len(objs') = Len(objs)
      /\ \A j \in 1 .. Len(objs) : objs'[j] = IF j = i THEN e ELSE objs[j]
  BY <1>1, <1>2, <1>3, ExceptSeq
<1>5. DOMAIN objs' = 1 .. Len(objs)
  BY <1>4
<1> QED
  BY <1>1, <1>2, <1>4, <1>5

(***************************************************************************)
(* Types                                                                   *)
(***************************************************************************)
(* updateTimestamp with the clock reading now, written out. *)
UpdateWith(s, now) ==
  LET prev == objs[ts[s]]
      t == UpdatePhysical(now, prev)
  IN /\ next' = [next EXCEPT ![s] = IF t = prev.physical THEN 0 ELSE t]
     /\ pc' = [pc EXCEPT ![s] = IF t = prev.physical THEN EndTick(s)
                                ELSE IF WindowUsedUp(s, t) THEN "save" ELSE "store"]

(* A tick is updateTimestamp with some clock reading. *)
LEMMA UpdateSplit ==
  ASSUME NEW s \in Server, UpdateTimestamp(s)
  PROVE  \E now \in Clock : UpdateWith(s, now)
  BY DEF UpdateTimestamp, UpdateWith, Goto

(* A used-up attempt of getRespTS. *)
LEMMA RetryType ==
  ASSUME TypeOK, NEW r \in Req, Retry(r)
  PROVE  /\ rpc' \in [Req -> {"idle", "load", "add", "done", "failed"}]
         /\ retry' \in [Req -> Nat]
<1>1. \/ rpc' = [rpc EXCEPT ![r] = "failed"] /\ retry' = [retry EXCEPT ![r] = 0]
      \/ rpc' = [rpc EXCEPT ![r] = "load"] /\ retry' = [retry EXCEPT ![r] = retry[r] + 1]
  BY DEF Retry
<1>2. rpc' \in [Req -> {"idle", "load", "add", "done", "failed"}]
  BY <1>1 DEF TypeOK
<1>3. retry' \in [Req -> Nat]
  <2>1. retry \in [Req -> Nat]
    BY DEF TypeOK
  <2> QED
    BY <1>1, <2>1
<1> QED
  BY <1>2, <1>3

(* The first state is well typed. *)
LEMMA InitType == Init => TypeOK
  BY EmptySeq, ServerAssumption DEF Init, TypeOK, PC

(* Types survive every step. *)
LEMMA TypeStep == TypeOK /\ Control /\ [Next]_vars => TypeOK'
<1> SUFFICES ASSUME TypeOK, Control, [Next]_vars PROVE TypeOK'
  OBVIOUS
<1> USE TimeAssumption, RequestAssumption
<1>1. ASSUME NEW s \in Server, GetLeader(s) PROVE TypeOK'
  BY <1>1 DEF GetLeader, Elect, Goto,
     TypeOK, PC, etcdVars, tsoVars, reqVars
<1>2. ASSUME NEW s \in Server, DeleteLeaderKey(s) PROVE TypeOK'
  <2>1. leaderKey' \in Server \union {None} /\ deleted' \in [Server -> BOOLEAN]
    BY <1>2 DEF DeleteLeaderKey, DropKey, TypeOK
  <2>2. pc' \in [Server -> PC]
    <3>1. \E l \in PC : pc' = [pc EXCEPT ![s] = l]
      BY <1>2 DEF DeleteLeaderKey, Elect, Goto, PC
    <3> QED
      BY <3>1 DEF TypeOK
  <2> QED
    BY <1>2, <2>1, <2>2 DEF DeleteLeaderKey, TypeOK, tsoVars, reqVars
<1>3. ASSUME NEW s \in Server, WatchDelete(s) PROVE TypeOK'
  BY <1>3 DEF WatchDelete, WatchReturns, Elect, Goto,
     TypeOK, PC, etcdVars, tsoVars, reqVars
<1>4. ASSUME NEW s \in Server, CampaignLeader(s) PROVE TypeOK'
  BY <1>4 DEF CampaignLeader, Goto,
     TypeOK, PC, etcdVars, tsoVars, reqVars
<1>5. ASSUME NEW s \in Server, SyncTimestamp(s) PROVE TypeOK'
  BY <1>5 DEF SyncTimestamp, SyncPhysical, updateTimestampGuard, Answered, Goto,
     TypeOK, PC, etcdVars, tsoVars, reqVars
<1>6. ASSUME NEW s \in Server, SaveTimestamp(s) PROVE TypeOK'
  <2>1. /\ next \in [Server -> Nat] /\ lastSavedTime \in [Server -> Nat]
        /\ saved \in Nat /\ pc \in [Server -> PC]
    BY DEF TypeOK
  <2>2. \/ /\ saved' = next[s] + SaveInterval
           /\ lastSavedTime' = [lastSavedTime EXCEPT ![s] = next[s] + SaveInterval]
           /\ pc' = [pc EXCEPT ![s] = "store"] /\ next' = next
        \/ /\ saved' = saved /\ lastSavedTime' = lastSavedTime
           /\ pc' = [pc EXCEPT ![s] = IF leader[s] = s THEN "disable" ELSE "loop"]
           /\ next' = [next EXCEPT ![s] = 0]
    BY <1>6 DEF SaveTimestamp, Exit, Goto
  <2>3. /\ next' \in [Server -> Nat] /\ lastSavedTime' \in [Server -> Nat]
        /\ saved' \in Nat /\ pc' \in [Server -> PC]
    BY <2>1, <2>2 DEF PC
  <2> QED
    BY <1>6, <2>3 DEF SaveTimestamp, TypeOK, reqVars
<1>7. ASSUME NEW s \in Server, EnableLeader(s) PROVE TypeOK'
  BY <1>7 DEF EnableLeader, Goto,
     TypeOK, PC, etcdVars, tsoVars, reqVars
<1>8. ASSUME NEW s \in Server, DisableLeader(s) PROVE TypeOK'
  BY <1>8 DEF DisableLeader, Goto,
     TypeOK, PC, etcdVars, tsoVars, reqVars
<1>9. ASSUME NEW s \in Server, ClearTimestamp(s) PROVE TypeOK'
  BY <1>9 DEF ClearTimestamp, Goto,
     TypeOK, PC, etcdVars, tsoVars, reqVars
<1>10. ASSUME NEW s \in Server, EtcdLeaderLoop(s) PROVE TypeOK'
  BY <1>10 DEF EtcdLeaderLoop, MoveEtcdLeader,
     TypeOK, PC, etcdVars, tsoVars, reqVars
<1>11. ASSUME NEW s \in Server, Restart(s) PROVE TypeOK'
  BY <1>11 DEF Restart, Goto,
     TypeOK, PC, etcdVars, tsoVars, reqVars
<1>12. ASSUME NEW s \in Server, KeepAliveClosed(s) PROVE TypeOK'
  BY <1>12 DEF KeepAliveClosed, Goto,
     TypeOK, PC, etcdVars, tsoVars, reqVars
<1>13. ASSUME NEW s \in Server, CampaignFails(s) PROVE TypeOK'
  BY <1>13 DEF CampaignFails, Goto,
     TypeOK, PC, etcdVars, tsoVars, reqVars
<1>14. ASSUME NEW s \in Server, WatchCanceled(s) PROVE TypeOK'
  BY <1>14 DEF WatchCanceled, WatchReturns, Elect, Goto,
     TypeOK, PC, etcdVars, tsoVars, reqVars
<1>15. ASSUME NEW s \in Server, DeleteError(s) PROVE TypeOK'
  BY <1>15 DEF DeleteError, DropKey, Goto,
     TypeOK, PC, etcdVars, tsoVars, reqVars
<1>16. ASSUME NEW s \in Server, CampaignError(s) PROVE TypeOK'
  BY <1>16 DEF CampaignError, Goto,
     TypeOK, PC, etcdVars, tsoVars, reqVars
<1>17. ASSUME NEW s \in Server, SaveError(s) PROVE TypeOK'
  <2>1. saved' \in Nat
    BY <1>17 DEF SaveError, TypeOK
  <2>2. pc' \in [Server -> PC] /\ next' \in [Server -> Nat]
    BY <1>17 DEF SaveError, Exit, Goto, TypeOK, PC
  <2> QED
    BY <1>17, <2>1, <2>2 DEF SaveError, TypeOK, reqVars
<1>18. ASSUME NEW s \in Server, Crash(s) PROVE TypeOK'
  BY <1>18 DEF Crash, Goto,
     TypeOK, PC, etcdVars, tsoVars, reqVars
<1>19. ASSUME NEW s \in Server, WatchCompacted(s) PROVE TypeOK'
  BY <1>19 DEF WatchCompacted,
     TypeOK, PC, etcdVars, tsoVars, reqVars
<1>20. ASSUME NEW s \in Server, StoreTimestamp(s) PROVE TypeOK'
  <2> DEFINE o == [physical |-> next[s], logical |-> 0]
  <2>1. o \in Object
    BY DEF TypeOK, Object
  <2>2. /\ objs' = Append(objs, o) /\ ts' = [ts EXCEPT ![s] = Len(objs) + 1]
        /\ next' = [next EXCEPT ![s] = 0]
        /\ pc' \in [Server -> PC]
        /\ UNCHANGED <<etcdVars, leader, deleted, lastSavedTime, reqVars, synced>>
    BY <1>20 DEF StoreTimestamp, EndTick, Goto, TypeOK, PC
  <2> HIDE DEF o
  <2>3. objs' \in Seq(Object) /\ Len(objs') = Len(objs) + 1
    BY <2>1, <2>2, AppendObject
  <2>4. Len(objs) \in Nat
    BY DEF TypeOK
  <2>5. ts' \in [Server -> 0 .. Len(objs')] /\ cur' \in [Req -> 0 .. Len(objs')]
    BY <2>2, <2>3, <2>4 DEF TypeOK, reqVars
  <2> QED
    BY <2>2, <2>3, <2>5 DEF TypeOK, etcdVars, reqVars
<1>21. ASSUME NEW s \in Server, UpdateTimestamp(s) PROVE TypeOK'
  <2>1. objs[ts[s]] \in Object
    BY <1>21 DEF UpdateTimestamp, Control, TypeOK
  <2>2. \A now \in Clock : UpdatePhysical(now, objs[ts[s]]) \in Nat
    BY <2>1 DEF UpdatePhysical, Object
  <2>3. PICK now \in Clock : UpdateWith(s, now)
    BY <1>21, UpdateSplit
  <2>4. /\ next' \in [Server -> Nat] /\ pc' \in [Server -> PC]
    BY <2>2, <2>3 DEF UpdateWith, EndTick, TypeOK, PC
  <2> QED
    BY <1>21, <2>4 DEF UpdateTimestamp, TypeOK, etcdVars, reqVars
<1>22. ASSUME NEW r \in Req, NEW s \in Server, Tso(r, s) PROVE TypeOK'
  BY <1>22 DEF Tso, Answered, TypeOK, etcdVars, tsoVars
<1>23. ASSUME NEW r \in Req, LoadTS(r) PROVE TypeOK'
  <2>1. CASE ts[srv[r]] = 0
    BY <1>23, <2>1, RetryType DEF LoadTS, TypeOK, etcdVars, tsoVars
  <2>2. CASE ts[srv[r]] # 0
    <3>1. ts[srv[r]] \in 0 .. Len(objs)
      BY <1>23 DEF LoadTS, Control, TypeOK
    <3> QED
      BY <1>23, <2>2, <3>1 DEF LoadTS, TypeOK, etcdVars, tsoVars
  <2> QED
    BY <2>1, <2>2
<1>24. ASSUME NEW r \in Req, AddTS(r) PROVE TypeOK'
  <2> DEFINE l == objs[cur[r]].logical + Count[r]
  <2>1. cur[r] \in DOMAIN objs /\ objs[cur[r]] \in Object
    BY <1>24 DEF AddTS, Control, TypeOK
  <2>2. l \in Nat /\ Milli(objs[cur[r]].physical) \in Nat
    BY <2>1, MilliNat DEF Object
  <2>3. objs' = [objs EXCEPT ![cur[r]].logical = l]
    BY <1>24 DEF AddTS
  <2>4. objs' \in Seq(Object) /\ Len(objs') = Len(objs)
    BY <2>1, <2>2, <2>3, CountUp
  <2>5. reply' \in [Req -> Object \union {None}]
    <3>1. CASE l >= MaxLogical
      BY <1>24, <3>1 DEF AddTS, TypeOK
    <3>2. CASE ~(l >= MaxLogical)
      <4>1. reply' = [reply EXCEPT ![r] =
                        [physical |-> Milli(objs[cur[r]].physical), logical |-> l]]
        BY <1>24, <3>2 DEF AddTS
      <4>2. [physical |-> Milli(objs[cur[r]].physical), logical |-> l] \in Object
        BY <2>2 DEF Object
      <4>3. reply \in [Req -> Object \union {None}]
        BY DEF TypeOK
      <4> QED
        BY <4>1, <4>2, <4>3
    <3> QED
      BY <3>1, <3>2
  <2>6. /\ rpc' \in [Req -> {"idle", "load", "add", "done", "failed"}]
        /\ retry' \in [Req -> Nat]
    <3>1. CASE l >= MaxLogical
      BY <1>24, <3>1, RetryType DEF AddTS
    <3>2. CASE ~(l >= MaxLogical)
      <4>1. rpc' = [rpc EXCEPT ![r] = "done"] /\ retry' = [retry EXCEPT ![r] = 0]
        BY <1>24, <3>2 DEF AddTS
      <4>2. retry \in [Req -> Nat] /\ rpc \in [Req -> {"idle", "load", "add", "done", "failed"}]
        BY DEF TypeOK
      <4> QED
        BY <4>1, <4>2
    <3> QED
      BY <3>1, <3>2
  <2>7. cur' = [cur EXCEPT ![r] = 0]
    BY <1>24 DEF AddTS
  <2>8. cur' \in [Req -> 0 .. Len(objs')] /\ ts' \in [Server -> 0 .. Len(objs')]
    BY <1>24, <2>4, <2>7 DEF AddTS, TypeOK
  <2>9. UNCHANGED <<etcdVars, pc, leader, deleted, lastSavedTime, next, srv, prior, synced>>
    BY <1>24 DEF AddTS
  <2> QED
    BY <2>4, <2>5, <2>6, <2>8, <2>9 DEF TypeOK, etcdVars
<1>25. CASE LeaseExpires
  BY <1>25 DEF LeaseExpires, DropKey, TypeOK, tsoVars, reqVars
<1>26. CASE EtcdLeaderChanges \/ EtcdElects
  BY <1>26 DEF EtcdLeaderChanges, EtcdElects, TypeOK, tsoVars, reqVars
<1>27. ASSUME NEW s \in Server, NEW t \in Server, ResignLeader(s, t) PROVE TypeOK'
  BY <1>27 DEF ResignLeader, MoveEtcdLeader, TypeOK, tsoVars, reqVars
<1>28. CASE UNCHANGED vars
  BY <1>28 DEF vars, TypeOK, etcdVars, tsoVars, reqVars
<1> QED
  BY <1>1, <1>2, <1>3, <1>4, <1>5, <1>6, <1>7, <1>8, <1>9, <1>10, <1>11, <1>12, <1>13, <1>14, <1>15, <1>16, <1>17, <1>18, <1>19, <1>20, <1>21, <1>22, <1>23, <1>24, <1>25, <1>26, <1>27, <1>28
     DEF Next, Steady, Fault, Compaction, Election, Serving, Request

(***************************************************************************)
(* Control                                                                 *)
(***************************************************************************)
(* pc, s.leader and s.ts stay in step, and requests keep their objects. *)
LEMMA ControlStep == TypeOK /\ Control /\ [Next]_vars => Control'
<1> SUFFICES ASSUME TypeOK, Control, [Next]_vars PROVE Control'
  OBVIOUS
<1> USE ServerAssumption
<1>1. ASSUME NEW s \in Server, GetLeader(s) PROVE Control'
  BY <1>1 DEF GetLeader, Elect, Goto,
     TypeOK, Control, PC, tsoVars, reqVars
<1>2. ASSUME NEW s \in Server, DeleteLeaderKey(s) PROVE Control'
  BY <1>2 DEF DeleteLeaderKey, Elect, Goto,
     TypeOK, Control, PC, tsoVars, reqVars
<1>3. ASSUME NEW s \in Server, WatchDelete(s) PROVE Control'
  BY <1>3 DEF WatchDelete, WatchReturns, Elect, Goto,
     TypeOK, Control, PC, tsoVars, reqVars
<1>4. ASSUME NEW s \in Server, CampaignLeader(s) PROVE Control'
  BY <1>4 DEF CampaignLeader, Goto,
     TypeOK, Control, PC, tsoVars, reqVars
<1>5. ASSUME NEW s \in Server, SyncTimestamp(s) PROVE Control'
  BY <1>5 DEF SyncTimestamp, Goto,
     TypeOK, Control, PC, tsoVars, reqVars
<1>6. ASSUME NEW s \in Server, SaveTimestamp(s) PROVE Control'
  BY <1>6 DEF SaveTimestamp, Exit, Goto,
     TypeOK, Control, PC, tsoVars, reqVars
<1>7. ASSUME NEW s \in Server, EnableLeader(s) PROVE Control'
  BY <1>7 DEF EnableLeader, Goto,
     TypeOK, Control, PC, tsoVars, reqVars
<1>8. ASSUME NEW s \in Server, DisableLeader(s) PROVE Control'
  BY <1>8 DEF DisableLeader, Goto,
     TypeOK, Control, PC, tsoVars, reqVars
<1>9. ASSUME NEW s \in Server, ClearTimestamp(s) PROVE Control'
  BY <1>9 DEF ClearTimestamp, Goto,
     TypeOK, Control, PC, tsoVars, reqVars
<1>10. ASSUME NEW s \in Server, EtcdLeaderLoop(s) PROVE Control'
  BY <1>10 DEF EtcdLeaderLoop, MoveEtcdLeader,
     TypeOK, Control, PC, tsoVars, reqVars
<1>11. ASSUME NEW s \in Server, Restart(s) PROVE Control'
  BY <1>11 DEF Restart, Goto,
     TypeOK, Control, PC, tsoVars, reqVars
<1>12. ASSUME NEW s \in Server, KeepAliveClosed(s) PROVE Control'
  BY <1>12 DEF KeepAliveClosed, Goto,
     TypeOK, Control, PC, tsoVars, reqVars
<1>13. ASSUME NEW s \in Server, CampaignFails(s) PROVE Control'
  BY <1>13 DEF CampaignFails, Goto,
     TypeOK, Control, PC, tsoVars, reqVars
<1>14. ASSUME NEW s \in Server, WatchCanceled(s) PROVE Control'
  BY <1>14 DEF WatchCanceled, WatchReturns, Elect, Goto,
     TypeOK, Control, PC, tsoVars, reqVars
<1>15. ASSUME NEW s \in Server, DeleteError(s) PROVE Control'
  BY <1>15 DEF DeleteError, Goto,
     TypeOK, Control, PC, tsoVars, reqVars
<1>16. ASSUME NEW s \in Server, CampaignError(s) PROVE Control'
  BY <1>16 DEF CampaignError, Goto,
     TypeOK, Control, PC, tsoVars, reqVars
<1>17. ASSUME NEW s \in Server, SaveError(s) PROVE Control'
  BY <1>17 DEF SaveError, Exit, Goto,
     TypeOK, Control, PC, tsoVars, reqVars
<1>18. ASSUME NEW s \in Server, Crash(s) PROVE Control'
  BY <1>18 DEF Crash, Goto,
     TypeOK, Control, PC, tsoVars, reqVars
<1>19. ASSUME NEW s \in Server, WatchCompacted(s) PROVE Control'
  BY <1>19 DEF WatchCompacted,
     TypeOK, Control, PC, tsoVars, reqVars
<1>20. ASSUME NEW s \in Server, StoreTimestamp(s) PROVE Control'
  BY <1>20 DEF StoreTimestamp, EndTick, Goto,
     TypeOK, Control, PC, tsoVars, reqVars
<1>21. ASSUME NEW s \in Server, UpdateTimestamp(s) PROVE Control'
  <2>1. PICK now \in Clock : UpdateWith(s, now)
    BY <1>21, UpdateSplit
  <2>2. \/ pc' = [pc EXCEPT ![s] = "serve"]
        \/ pc' = [pc EXCEPT ![s] = "disable"]
        \/ pc' = [pc EXCEPT ![s] = "save"]
        \/ pc' = [pc EXCEPT ![s] = "store"]
    BY <2>1 DEF UpdateWith, EndTick
  <2> QED
    BY <1>21, <2>2 DEF UpdateTimestamp, TypeOK, Control, PC, reqVars
<1>22. ASSUME NEW r \in Req, NEW s \in Server, Tso(r, s) PROVE Control'
  BY <1>22 DEF Tso, TypeOK, Control, tsoVars
<1>23. ASSUME NEW r \in Req, LoadTS(r) PROVE Control'
  BY <1>23 DEF LoadTS, Retry, TypeOK, Control, tsoVars
<1>24. ASSUME NEW r \in Req, AddTS(r) PROVE Control'
  BY <1>24 DEF AddTS, Retry, TypeOK, Control
<1>25. CASE LeaseExpires \/ EtcdLeaderChanges \/ EtcdElects
  BY <1>25 DEF LeaseExpires, EtcdLeaderChanges, EtcdElects, Control, tsoVars, reqVars
<1>26. ASSUME NEW s \in Server, NEW t \in Server, ResignLeader(s, t) PROVE Control'
  BY <1>26 DEF ResignLeader, MoveEtcdLeader, Control, tsoVars, reqVars
<1>27. CASE UNCHANGED vars
  BY <1>27 DEF vars, Control, tsoVars, reqVars
<1> QED
  BY <1>1, <1>2, <1>3, <1>4, <1>5, <1>6, <1>7, <1>8, <1>9, <1>10, <1>11, <1>12, <1>13, <1>14, <1>15, <1>16, <1>17, <1>18, <1>19, <1>20, <1>21, <1>22, <1>23, <1>24, <1>25, <1>26, <1>27
     DEF Next, Steady, Fault, Compaction, Election, Serving, Request

(***************************************************************************)
(* Windows                                                                 *)
(***************************************************************************)
(* A save by the holder of the leader key raises the saved timestamp. *)
LEMMA SaveGrows ==
  ASSUME TypeOK, Control, OnTheWay, Saved,
         NEW s \in Server, pc[s] = "save", leaderKey = s
  PROVE  saved <= next[s] + SaveInterval
<1> USE TimeAssumption
<1>1. saved \in Nat /\ next[s] \in Nat /\ lastSavedTime[s] \in Nat
  BY DEF TypeOK
<1>2. CASE ts[s] = 0
  BY <1>1, <1>2 DEF OnTheWay
<1>3. CASE ts[s] # 0
  <2>1. saved = lastSavedTime[s]
    BY <1>3 DEF Saved, HasWindow
  <2>2. lastSavedTime[s] <= next[s] + Ms
    BY <1>3 DEF OnTheWay
  <2> QED
    BY <1>1, <2>1, <2>2
<1> QED
  BY <1>2, <1>3

(* A step that opens, moves and extends no window and publishes nothing;   *)
(* it may close windows and take the leader key away.                      *)
Quiet ==
  /\ DOMAIN objs' = DOMAIN objs
  /\ \A i \in DOMAIN objs : objs'[i].physical = objs[i].physical
  /\ saved <= saved'
  /\ \A s \in Server : HasWindow(s)' =>
       /\ HasWindow(s)
       /\ ts'[s] = ts[s] /\ lastSavedTime'[s] = lastSavedTime[s] /\ Low(s)' = Low(s)
       /\ leaderKey' = s => leaderKey = s
       /\ leaderKey' = s /\ pc'[s] \notin {"disable", "zero"} =>
            pc[s] \notin {"disable", "zero"} /\ saved' = saved

(* Such a step keeps everything the windows promise. *)
LEMMA QuietStep ==
  ASSUME TSOInv, TypeOK', Quiet
  PROVE  /\ Saved' /\ ObjectsOutside' /\ WindowsApart' /\ HolderOnTop'
         /\ ObjectsApart' /\ PhysicalBelowSaved'
<1> USE TimeAssumption
<1>0. /\ saved \in Nat /\ saved' \in Nat
      /\ \A s \in Server : lastSavedTime[s] \in Nat
      /\ \A i \in DOMAIN objs : objs[i].physical \in Nat
  <2>1. \A i \in DOMAIN objs : objs[i] \in Object
    BY DEF TSOInv, TypeOK
  <2> QED
    BY <2>1 DEF TSOInv, TypeOK, Object
<1>1. Saved'
  <2>1. ASSUME NEW s \in Server, HasWindow(s)'
        PROVE  /\ Low(s)' < lastSavedTime'[s]
               /\ lastSavedTime'[s] <= saved'
               /\ leaderKey' = s /\ pc'[s] \notin {"disable", "zero"} =>
                    saved' = lastSavedTime'[s]
    <3>1. /\ HasWindow(s) /\ lastSavedTime'[s] = lastSavedTime[s] /\ Low(s)' = Low(s)
          /\ saved <= saved'
          /\ leaderKey' = s => leaderKey = s
          /\ leaderKey' = s /\ pc'[s] \notin {"disable", "zero"} =>
               pc[s] \notin {"disable", "zero"} /\ saved' = saved
      BY <2>1 DEF Quiet
    <3>2. /\ Low(s) < lastSavedTime[s] /\ lastSavedTime[s] <= saved
          /\ leaderKey = s /\ pc[s] \notin {"disable", "zero"} => saved = lastSavedTime[s]
      BY <3>1 DEF TSOInv, Saved
    <3> QED
      BY <1>0, <3>1, <3>2
  <2> QED
    BY <2>1 DEF Saved
<1>2. ObjectsOutside'
  BY DEF TSOInv, ObjectsOutside, Quiet
<1>3. WindowsApart'
  BY DEF TSOInv, WindowsApart, Quiet
<1>4. HolderOnTop'
  BY DEF TSOInv, HolderOnTop, Quiet
<1>5. ObjectsApart'
  BY DEF TSOInv, ObjectsApart, Quiet
<1>6. PhysicalBelowSaved'
  <2>1. ASSUME NEW i \in DOMAIN objs' PROVE objs'[i].physical < saved'
    <3>1. /\ i \in DOMAIN objs /\ objs[i].physical < saved
          /\ objs'[i].physical = objs[i].physical /\ saved <= saved'
      BY <2>1 DEF TSOInv, PhysicalBelowSaved, Quiet
    <3> QED
      BY <1>0, <3>1
  <2> QED
    BY <2>1 DEF PhysicalBelowSaved
<1> QED
  BY <1>1, <1>2, <1>3, <1>4, <1>5, <1>6

(* A step that touches none of what windows are made of is quiet. *)
LEMMA NothingMoved ==
  ASSUME TypeOK, UNCHANGED <<leaderKey, saved, pc, lastSavedTime, next, ts, objs>>
  PROVE  Quiet
<1>1. saved <= saved'
  BY DEF TypeOK
<1>2. /\ DOMAIN objs' = DOMAIN objs
      /\ \A i \in DOMAIN objs : objs'[i].physical = objs[i].physical
  OBVIOUS
<1>3. \A s \in Server : (HasWindow(s)' <=> HasWindow(s)) /\ Low(s)' = Low(s)
  BY DEF HasWindow, Low
<1> QED
  BY <1>1, <1>2, <1>3 DEF Quiet

(* A step of a server that has no window, gets none, and leaves the others *)
(* alone.                                                                  *)
WithoutWindow(s) ==
  /\ UNCHANGED <<saved, lastSavedTime, ts, objs>>
  /\ ts[s] = 0 /\ pc'[s] # "store"
  /\ \A t \in Server \ {s} : pc'[t] = pc[t] /\ next'[t] = next[t]
  /\ leaderKey' \in {leaderKey, s, None}

(* Such a step is quiet. *)
LEMMA LoopMoved ==
  ASSUME TypeOK, NEW s \in Server, WithoutWindow(s)
  PROVE  Quiet
<1> USE DEF WithoutWindow
<1>1. saved <= saved'
  BY DEF TypeOK
<1>2. /\ DOMAIN objs' = DOMAIN objs
      /\ \A i \in DOMAIN objs : objs'[i].physical = objs[i].physical
  OBVIOUS
<1>3. ~HasWindow(s)'
  BY DEF HasWindow
<1>4. ASSUME NEW t \in Server, HasWindow(t)'
      PROVE  /\ HasWindow(t)
             /\ ts'[t] = ts[t] /\ lastSavedTime'[t] = lastSavedTime[t] /\ Low(t)' = Low(t)
             /\ leaderKey' = t => leaderKey = t
             /\ pc'[t] = pc[t] /\ saved' = saved
  <2>1. t # s
    BY <1>3, <1>4 DEF HasWindow
  <2>2. HasWindow(t) /\ Low(t)' = Low(t) /\ (leaderKey' = t => leaderKey = t)
    BY <1>4, <2>1, ServerAssumption DEF HasWindow, Low
  <2> QED
    BY <2>1, <2>2
<1> HIDE DEF WithoutWindow
<1> QED
  BY <1>1, <1>2, <1>4 DEF Quiet

(* Every step is quiet but two: a save that succeeds and a publication. *)
LEMMA QuietActions ==
  ASSUME TypeOK, Control, OnTheWay, Saved, [Next]_vars
  PROVE  \/ Quiet
         \/ \E s \in Server : SaveTimestamp(s) /\ leaderKey = s
         \/ \E s \in Server : StoreTimestamp(s)
<1> USE TimeAssumption, ServerAssumption
<1>0. /\ pc \in [Server -> PC] /\ next \in [Server -> Nat]
      /\ \A s \in Server :
           pc[s] \in {"loop", "delete", "watch", "campaign", "load", "down"} => ts[s] = 0
  BY DEF TypeOK, Control
<1>1. ASSUME NEW s \in Server, GetLeader(s) PROVE Quiet
  <2>1. WithoutWindow(s)
    BY <1>0, <1>1 DEF GetLeader, Elect, Goto, WithoutWindow, etcdVars, tsoVars
  <2> QED
    BY <2>1, LoopMoved
<1>2. ASSUME NEW s \in Server, DeleteLeaderKey(s) PROVE Quiet
  <2>1. WithoutWindow(s)
    BY <1>0, <1>2 DEF DeleteLeaderKey, DropKey, Elect, Goto, WithoutWindow, etcdVars, tsoVars
  <2> QED
    BY <2>1, LoopMoved
<1>3. ASSUME NEW s \in Server, WatchDelete(s) PROVE Quiet
  <2>1. WithoutWindow(s)
    BY <1>0, <1>3 DEF WatchDelete, WatchReturns, Elect, Goto, WithoutWindow, etcdVars, tsoVars
  <2> QED
    BY <2>1, LoopMoved
<1>4. ASSUME NEW s \in Server, CampaignLeader(s) PROVE Quiet
  <2>1. WithoutWindow(s)
    BY <1>0, <1>4 DEF CampaignLeader, Goto, WithoutWindow, etcdVars, tsoVars
  <2> QED
    BY <2>1, LoopMoved
<1>5. ASSUME NEW s \in Server, SyncTimestamp(s) PROVE Quiet
  <2>1. WithoutWindow(s)
    BY <1>0, <1>5 DEF SyncTimestamp, Goto, WithoutWindow, etcdVars, tsoVars
  <2> QED
    BY <2>1, LoopMoved
<1>6. ASSUME NEW s \in Server, EnableLeader(s) PROVE Quiet
  BY <1>6 DEF EnableLeader, Goto,
     Quiet, HasWindow, Low, TypeOK, Control, PC, etcdVars, tsoVars
<1>7. ASSUME NEW s \in Server, DisableLeader(s) PROVE Quiet
  BY <1>7 DEF DisableLeader, Goto,
     Quiet, HasWindow, Low, TypeOK, Control, PC, etcdVars, tsoVars
<1>8. ASSUME NEW s \in Server, ClearTimestamp(s) PROVE Quiet
  BY <1>8 DEF ClearTimestamp, Goto,
     Quiet, HasWindow, Low, TypeOK, Control, PC, etcdVars, tsoVars
<1>9. ASSUME NEW s \in Server, EtcdLeaderLoop(s) PROVE Quiet
  BY <1>9, NothingMoved DEF EtcdLeaderLoop, MoveEtcdLeader, tsoVars
<1>10. ASSUME NEW s \in Server, Restart(s) PROVE Quiet
  <2>1. WithoutWindow(s)
    BY <1>0, <1>10 DEF Restart, Goto, WithoutWindow, etcdVars, tsoVars
  <2> QED
    BY <2>1, LoopMoved
<1>11. ASSUME NEW s \in Server, KeepAliveClosed(s) PROVE Quiet
  BY <1>11 DEF KeepAliveClosed, Goto,
     Quiet, HasWindow, Low, TypeOK, Control, PC, etcdVars, tsoVars
<1>12. ASSUME NEW s \in Server, CampaignFails(s) PROVE Quiet
  <2>1. WithoutWindow(s)
    BY <1>0, <1>12 DEF CampaignFails, Goto, WithoutWindow, etcdVars, tsoVars
  <2> QED
    BY <2>1, LoopMoved
<1>13. ASSUME NEW s \in Server, WatchCanceled(s) PROVE Quiet
  <2>1. WithoutWindow(s)
    BY <1>0, <1>13 DEF WatchCanceled, WatchReturns, Elect, Goto, WithoutWindow, etcdVars, tsoVars
  <2> QED
    BY <2>1, LoopMoved
<1>14. ASSUME NEW s \in Server, DeleteError(s) PROVE Quiet
  <2>1. WithoutWindow(s)
    BY <1>0, <1>14 DEF DeleteError, DropKey, Goto, WithoutWindow, etcdVars, tsoVars
  <2> QED
    BY <2>1, LoopMoved
<1>15. ASSUME NEW s \in Server, CampaignError(s) PROVE Quiet
  <2>1. WithoutWindow(s)
    BY <1>0, <1>15 DEF CampaignError, Goto, WithoutWindow, etcdVars, tsoVars
  <2> QED
    BY <2>1, LoopMoved
<1>16. ASSUME NEW s \in Server, Crash(s) PROVE Quiet
  BY <1>16 DEF Crash, Goto,
     Quiet, HasWindow, Low, TypeOK, Control, PC, etcdVars, tsoVars
<1>17. ASSUME NEW s \in Server, WatchCompacted(s) PROVE Quiet
  BY <1>17, NothingMoved DEF WatchCompacted, etcdVars, tsoVars
<1>18. ASSUME NEW s \in Server, SaveTimestamp(s), leaderKey # s PROVE Quiet
  BY <1>18 DEF SaveTimestamp, LeaderTxn, Exit, Goto,
     Quiet, HasWindow, Low, TypeOK, Control, PC, etcdVars, tsoVars
<1>19. ASSUME NEW s \in Server, SaveError(s) PROVE Quiet
  <2>1. saved <= saved'
    BY <1>19, SaveGrows DEF SaveError, LeaderTxn, TypeOK
  <2>2. UNCHANGED <<leaderKey, lastSavedTime, ts, objs>> /\ saved <= saved'
    BY <1>19, <2>1 DEF SaveError
  <2>3. /\ pc[s] = "save" /\ pc'[s] \in {"disable", "loop"} /\ (pc'[s] = "loop" => ts[s] = 0)
        /\ leaderKey # s => saved' = saved
        /\ \A t \in Server \ {s} : pc'[t] = pc[t] /\ next'[t] = next[t]
    BY <1>0, <1>19 DEF SaveError, LeaderTxn, Exit, Goto, Control
  <2>4. /\ \A t \in Server : HasWindow(t)' => HasWindow(t) /\ Low(t)' = Low(t)
        /\ HasWindow(s)' => pc'[s] = "disable"
    BY <2>2, <2>3 DEF HasWindow, Low
  <2>5. ASSUME NEW t \in Server, HasWindow(t)', leaderKey' = t, pc'[t] \notin {"disable", "zero"}
        PROVE  pc[t] \notin {"disable", "zero"} /\ saved' = saved
    <3>1. t # s
      BY <2>4, <2>5
    <3> QED
      BY <2>2, <2>3, <2>5, <3>1
  <2> QED
    BY <2>2, <2>4, <2>5 DEF Quiet
<1>20. ASSUME NEW s \in Server, UpdateTimestamp(s) PROVE Quiet
  <2>1. PICK now \in Clock : UpdateWith(s, now)
    BY <1>20, UpdateSplit
  <2>2. /\ \A t \in Server \ {s} : pc'[t] = pc[t] /\ next'[t] = next[t]
        /\ pc[s] = "serve" /\ ts[s] # 0
    BY <1>20, <2>1 DEF UpdateWith, UpdateTimestamp, TypeOK, Control
  <2>3. UNCHANGED <<leaderKey, saved, lastSavedTime, ts, objs>> /\ saved <= saved'
    BY <1>20 DEF UpdateTimestamp, TypeOK, etcdVars
  <2>4. \A t \in Server : HasWindow(t)' => HasWindow(t) /\ Low(t)' = Low(t)
    BY <2>2, <2>3 DEF HasWindow, Low
  <2>5. \A t \in Server : pc'[t] \notin {"disable", "zero"} => pc[t] \notin {"disable", "zero"}
    BY <2>2
  <2> QED
    BY <2>3, <2>4, <2>5 DEF Quiet
<1>21. ASSUME NEW r \in Req, NEW s \in Server, Tso(r, s) PROVE Quiet
  BY <1>21, NothingMoved DEF Tso, etcdVars, tsoVars
<1>22. ASSUME NEW r \in Req, LoadTS(r) PROVE Quiet
  BY <1>22, NothingMoved DEF LoadTS, etcdVars, tsoVars
<1>23. ASSUME NEW r \in Req, AddTS(r) PROVE Quiet
  <2> DEFINE l == objs[cur[r]].logical + Count[r]
  <2>1. cur[r] \in DOMAIN objs /\ objs[cur[r]] \in Object
    BY <1>23 DEF AddTS, Control, TypeOK
  <2>2. l \in Nat
    BY <2>1, RequestAssumption DEF Object
  <2>3. objs' = [objs EXCEPT ![cur[r]].logical = l]
    BY <1>23 DEF AddTS
  <2>4. /\ DOMAIN objs' = DOMAIN objs
        /\ \A i \in DOMAIN objs : objs'[i].physical = objs[i].physical
    BY <2>1, <2>2, <2>3, CountUp
  <2>5. UNCHANGED <<leaderKey, saved, pc, lastSavedTime, next, ts>>
    BY <1>23 DEF AddTS, etcdVars
  <2>6. \A s \in Server : ts[s] # 0 => ts[s] \in DOMAIN objs
    BY DEF TypeOK
  <2>7. saved <= saved'
    BY <2>5 DEF TypeOK
  <2> QED
    BY <2>4, <2>5, <2>6, <2>7 DEF Quiet, HasWindow, Low
<1>24. CASE LeaseExpires \/ EtcdLeaderChanges \/ EtcdElects
  <2>1. CASE LeaseExpires
    <3>1. /\ UNCHANGED <<saved, pc, lastSavedTime, next, ts, objs>>
          /\ leaderKey' \notin Server /\ saved <= saved'
      BY <2>1 DEF LeaseExpires, DropKey, TypeOK, tsoVars
    <3>2. \A t \in Server : (HasWindow(t)' <=> HasWindow(t)) /\ Low(t)' = Low(t)
      BY <3>1 DEF HasWindow, Low
    <3> QED
      BY <3>1, <3>2 DEF Quiet
  <2>2. CASE EtcdLeaderChanges \/ EtcdElects
    BY <2>2, NothingMoved DEF EtcdLeaderChanges, EtcdElects, tsoVars
  <2> QED
    BY <1>24, <2>1, <2>2
<1>25. ASSUME NEW s \in Server, NEW t \in Server, ResignLeader(s, t) PROVE Quiet
  BY <1>25, NothingMoved DEF ResignLeader, MoveEtcdLeader, tsoVars
<1>26. CASE UNCHANGED vars
  BY <1>26, NothingMoved DEF vars, etcdVars, tsoVars
<1> QED
  BY <1>1, <1>2, <1>3, <1>4, <1>5, <1>6, <1>7, <1>8, <1>9, <1>10, <1>11, <1>12, <1>13, <1>14, <1>15, <1>16, <1>17, <1>18, <1>19, <1>20, <1>21, <1>22, <1>23, <1>24, <1>25, <1>26
     DEF Next, Steady, Fault, Compaction, Election, Serving, Request

(* updateTimestamp moves forward by a millisecond or more, or not at all. *)
LEMMA UpdateForward ==
  ASSUME NEW now \in Clock, NEW o \in Object, UpdatePhysical(now, o) # o.physical
  PROVE  o.physical + Ms <= UpdatePhysical(now, o) /\ UpdatePhysical(now, o) \in Nat
<1>1. now \in Nat /\ o.physical \in Nat /\ Ms \in Nat
  BY TimeAssumption DEF Object
<1>2. CASE now - o.physical > Ms
  <2>1. UpdatePhysical(now, o) = now
    BY <1>2 DEF UpdatePhysical, updateTimestampGuard
  <2> QED
    BY <1>1, <1>2, <2>1
<1>3. CASE ~(now - o.physical > Ms)
  <2>1. UpdatePhysical(now, o) = o.physical + Ms
    BY <1>3 DEF UpdatePhysical, updateTimestampGuard
  <2> QED
    BY <1>1, <2>1
<1> QED
  BY <1>2, <1>3

(* What is on its way stays where it should be. *)
LEMMA OnTheWayStep == TypeOK /\ Control /\ OnTheWay /\ [Next]_vars => OnTheWay'
<1> SUFFICES ASSUME TypeOK, Control, OnTheWay, [Next]_vars PROVE OnTheWay'
  OBVIOUS
<1> USE TimeAssumption, ServerAssumption
<1>1. ASSUME NEW s \in Server, GetLeader(s) PROVE OnTheWay'
  BY <1>1 DEF GetLeader, Elect, Goto,
     OnTheWay, Low, TypeOK, PC, etcdVars, tsoVars
<1>2. ASSUME NEW s \in Server, DeleteLeaderKey(s) PROVE OnTheWay'
  <2>1. /\ UNCHANGED <<saved, lastSavedTime, next, ts, objs>>
        /\ leaderKey' \in {leaderKey, None}
        /\ pc'[s] \notin {"save", "store"}
        /\ \A t \in Server \ {s} : pc'[t] = pc[t]
    BY <1>2 DEF DeleteLeaderKey, DropKey, Elect, Goto, TypeOK, tsoVars
  <2>2. \A t \in Server : Low(t)' = Low(t) /\ (leaderKey' = t => leaderKey = t)
    BY <2>1 DEF Low
  <2> QED
    BY <2>1, <2>2 DEF OnTheWay
<1>3. ASSUME NEW s \in Server, WatchDelete(s) PROVE OnTheWay'
  BY <1>3 DEF WatchDelete, WatchReturns, Elect, Goto,
     OnTheWay, Low, TypeOK, PC, etcdVars, tsoVars
<1>4. ASSUME NEW s \in Server, CampaignLeader(s) PROVE OnTheWay'
  BY <1>4 DEF CampaignLeader, Goto,
     OnTheWay, Low, TypeOK, PC, etcdVars, tsoVars
<1>5. ASSUME NEW s \in Server, EnableLeader(s) PROVE OnTheWay'
  BY <1>5 DEF EnableLeader, Goto,
     OnTheWay, Low, TypeOK, PC, etcdVars, tsoVars
<1>6. ASSUME NEW s \in Server, DisableLeader(s) PROVE OnTheWay'
  BY <1>6 DEF DisableLeader, Goto,
     OnTheWay, Low, TypeOK, PC, etcdVars, tsoVars
<1>7. ASSUME NEW s \in Server, ClearTimestamp(s) PROVE OnTheWay'
  BY <1>7 DEF ClearTimestamp, Goto,
     OnTheWay, Low, TypeOK, PC, etcdVars, tsoVars
<1>8. ASSUME NEW s \in Server, EtcdLeaderLoop(s) PROVE OnTheWay'
  BY <1>8 DEF EtcdLeaderLoop, MoveEtcdLeader,
     OnTheWay, Low, TypeOK, PC, etcdVars, tsoVars
<1>9. ASSUME NEW s \in Server, Restart(s) PROVE OnTheWay'
  BY <1>9 DEF Restart, Goto,
     OnTheWay, Low, TypeOK, PC, etcdVars, tsoVars
<1>10. ASSUME NEW s \in Server, KeepAliveClosed(s) PROVE OnTheWay'
  BY <1>10 DEF KeepAliveClosed, Goto,
     OnTheWay, Low, TypeOK, PC, etcdVars, tsoVars
<1>11. ASSUME NEW s \in Server, CampaignFails(s) PROVE OnTheWay'
  BY <1>11 DEF CampaignFails, Goto,
     OnTheWay, Low, TypeOK, PC, etcdVars, tsoVars
<1>12. ASSUME NEW s \in Server, WatchCanceled(s) PROVE OnTheWay'
  BY <1>12 DEF WatchCanceled, WatchReturns, Elect, Goto,
     OnTheWay, Low, TypeOK, PC, etcdVars, tsoVars
<1>13. ASSUME NEW s \in Server, DeleteError(s) PROVE OnTheWay'
  BY <1>13 DEF DeleteError, DropKey, Goto,
     OnTheWay, Low, TypeOK, PC, etcdVars, tsoVars
<1>14. ASSUME NEW s \in Server, CampaignError(s) PROVE OnTheWay'
  BY <1>14 DEF CampaignError, Goto,
     OnTheWay, Low, TypeOK, PC, etcdVars, tsoVars
<1>15. ASSUME NEW s \in Server, SaveError(s) PROVE OnTheWay'
  BY <1>15 DEF SaveError, LeaderTxn, Exit, Goto,
     OnTheWay, Low, TypeOK, PC, etcdVars, tsoVars
<1>16. ASSUME NEW s \in Server, Crash(s) PROVE OnTheWay'
  BY <1>16 DEF Crash, Goto,
     OnTheWay, Low, TypeOK, PC, etcdVars, tsoVars
<1>17. ASSUME NEW s \in Server, WatchCompacted(s) PROVE OnTheWay'
  BY <1>17 DEF WatchCompacted,
     OnTheWay, Low, TypeOK, PC, etcdVars, tsoVars
<1>18. ASSUME NEW s \in Server, SyncTimestamp(s) PROVE OnTheWay'
  <2>1. PICK now \in Clock : next' = [next EXCEPT ![s] = SyncPhysical(now, saved)]
    BY <1>18 DEF SyncTimestamp
  <2>2. saved + Ms <= SyncPhysical(now, saved)
    BY DEF SyncPhysical, updateTimestampGuard, TypeOK
  <2>3. pc[s] = "load" /\ ts[s] = 0
    BY <1>18 DEF SyncTimestamp, Control
  <2>4. /\ pc' = [pc EXCEPT ![s] = "save"]
        /\ UNCHANGED <<leaderKey, saved, lastSavedTime, ts, objs>>
    BY <1>18 DEF SyncTimestamp, Goto, etcdVars
  <2>5. next' = [next EXCEPT ![s] = next'[s]] /\ saved + Ms <= next'[s]
    BY <2>1, <2>2 DEF TypeOK
  <2> QED
    BY <2>3, <2>4, <2>5 DEF OnTheWay, Low, TypeOK
<1>19. ASSUME NEW s \in Server, SaveTimestamp(s) PROVE OnTheWay'
  <2>1. CASE leaderKey = s
    BY <1>19, <2>1 DEF SaveTimestamp, LeaderTxn, Goto, OnTheWay, Low, TypeOK, PC
  <2>2. CASE leaderKey # s
    <3>1. /\ UNCHANGED <<leaderKey, saved, lastSavedTime, ts, objs>>
          /\ pc'[s] \notin {"save", "store"}
          /\ \A t \in Server \ {s} : pc'[t] = pc[t] /\ next'[t] = next[t]
      BY <1>19, <2>2 DEF SaveTimestamp, LeaderTxn, Exit, Goto, TypeOK
    <3>2. \A t \in Server \ {s} : Low(t)' = Low(t)
      BY <3>1 DEF Low
    <3> QED
      BY <3>1, <3>2 DEF OnTheWay
  <2> QED
    BY <2>1, <2>2
<1>20. ASSUME NEW s \in Server, StoreTimestamp(s) PROVE OnTheWay'
  <2>1. pc'[s] \notin {"save", "store"}
    BY <1>20 DEF StoreTimestamp, EndTick, Goto, TypeOK, PC
  <2>2. \A t \in Server \ {s} :
          /\ pc'[t] = pc[t] /\ next'[t] = next[t] /\ ts'[t] = ts[t]
          /\ ts[t] # 0 => objs'[ts[t]] = objs[ts[t]]
    <3>1. [physical |-> next[s], logical |-> 0] \in Object
      BY DEF TypeOK, Object
    <3>2. \A i \in 1 .. Len(objs) : objs'[i] = objs[i]
      BY <1>20, <3>1, AppendObject DEF StoreTimestamp
    <3>3. \A t \in Server : ts[t] # 0 => ts[t] \in 1 .. Len(objs)
      BY DEF TypeOK
    <3> QED
      BY <1>20, <3>2, <3>3 DEF StoreTimestamp, Goto, TypeOK
  <2>3. UNCHANGED <<leaderKey, saved, lastSavedTime>>
    BY <1>20 DEF StoreTimestamp, etcdVars
  <2> QED
    <3> SUFFICES ASSUME NEW t \in Server
                 PROVE  /\ pc'[t] = "store" => next'[t] < lastSavedTime'[t]
                        /\ pc'[t] \in {"save", "store"} /\ ts'[t] # 0 => Low(t)' + Ms <= next'[t]
                        /\ pc'[t] = "save" /\ ts'[t] # 0 => lastSavedTime'[t] <= next'[t] + Ms
                        /\ pc'[t] = "save" /\ ts'[t] = 0 /\ leaderKey' = t => saved' + Ms <= next'[t]
      BY DEF OnTheWay
    <3>1. CASE t = s
      BY <2>1, <3>1
    <3>2. CASE t # s
      <4>1. /\ pc'[t] = pc[t] /\ next'[t] = next[t] /\ ts'[t] = ts[t]
            /\ ts[t] # 0 => objs'[ts[t]] = objs[ts[t]]
        BY <2>2, <3>2
      <4>2. ts[t] # 0 => Low(t)' = Low(t)
        BY <4>1 DEF Low
      <4>3. lastSavedTime'[t] = lastSavedTime[t] /\ leaderKey' = leaderKey /\ saved' = saved
        BY <2>3
      <4> QED
        BY <4>1, <4>2, <4>3 DEF OnTheWay
    <3> QED
      BY <3>1, <3>2
<1>21. ASSUME NEW s \in Server, UpdateTimestamp(s) PROVE OnTheWay'
  <2> DEFINE prev == objs[ts[s]]
  <2>1. PICK now \in Clock : UpdateWith(s, now)
    BY <1>21, UpdateSplit
  <2> DEFINE t == UpdatePhysical(now, prev)
  <2>2. pc[s] = "serve" /\ ts[s] # 0 /\ prev \in Object /\ prev.physical \in Nat
    <3>1. prev \in Object
      BY <1>21 DEF UpdateTimestamp, Control, TypeOK
    <3> QED
      BY <1>21, <3>1 DEF UpdateTimestamp, Control, Object
  <2>3. t # prev.physical => prev.physical + Ms <= t /\ t \in Nat
    BY <2>2, UpdateForward
  <2>4. UNCHANGED <<leaderKey, saved, lastSavedTime, ts, objs>>
    BY <1>21 DEF UpdateTimestamp, etcdVars
  <2>5. CASE t = prev.physical
    BY <2>1, <2>2, <2>4, <2>5 DEF UpdateWith, EndTick, OnTheWay, Low, TypeOK
  <2>6. CASE t # prev.physical
    <3>1. /\ next' = [next EXCEPT ![s] = t]
          /\ pc' = [pc EXCEPT ![s] = IF WindowUsedUp(s, t) THEN "save" ELSE "store"]
      BY <2>1, <2>6 DEF UpdateWith
    <3>2. lastSavedTime[s] \in Nat
      BY DEF TypeOK
    <3>3. WindowUsedUp(s, t) <=> lastSavedTime[s] <= t + Ms
      BY <2>3, <2>6, <3>2 DEF WindowUsedUp, updateTimestampGuard
    <3> HIDE DEF t
    <3>4. CASE lastSavedTime[s] <= t + Ms
      BY <2>2, <2>3, <2>4, <2>6, <3>1, <3>3, <3>4 DEF OnTheWay, Low, TypeOK
    <3>5. CASE ~(lastSavedTime[s] <= t + Ms)
      <4>1. t < lastSavedTime[s]
        BY <2>3, <2>6, <3>2, <3>5
      <4> QED
        BY <2>2, <2>3, <2>4, <2>6, <3>1, <3>3, <3>5, <4>1 DEF OnTheWay, Low, TypeOK
    <3> QED
      BY <3>4, <3>5
  <2> QED
    BY <2>5, <2>6
<1>22. ASSUME NEW r \in Req, NEW s \in Server, Tso(r, s) PROVE OnTheWay'
  BY <1>22 DEF Tso, OnTheWay, Low, etcdVars, tsoVars
<1>23. ASSUME NEW r \in Req, LoadTS(r) PROVE OnTheWay'
  BY <1>23 DEF LoadTS, OnTheWay, Low, etcdVars, tsoVars
<1>24. ASSUME NEW r \in Req, AddTS(r) PROVE OnTheWay'
  <2>1. cur[r] \in DOMAIN objs /\ objs[cur[r]] \in Object
    BY <1>24 DEF AddTS, Control, TypeOK
  <2>2. objs[cur[r]].logical + Count[r] \in Nat
    BY <2>1, RequestAssumption DEF Object
  <2>3. objs' = [objs EXCEPT ![cur[r]].logical = objs[cur[r]].logical + Count[r]]
    BY <1>24 DEF AddTS
  <2>4. \A i \in DOMAIN objs : objs'[i].physical = objs[i].physical
    BY <2>1, <2>2, <2>3, CountUp
  <2>5. UNCHANGED <<leaderKey, saved, pc, lastSavedTime, next, ts>>
    BY <1>24 DEF AddTS, etcdVars
  <2>6. \A s \in Server : ts[s] # 0 => ts[s] \in DOMAIN objs
    BY DEF TypeOK
  <2> QED
    BY <2>4, <2>5, <2>6 DEF OnTheWay, Low
<1>25. CASE LeaseExpires \/ EtcdLeaderChanges \/ EtcdElects
  BY <1>25 DEF LeaseExpires, DropKey, EtcdLeaderChanges, EtcdElects, OnTheWay, Low, tsoVars
<1>26. ASSUME NEW s \in Server, NEW t \in Server, ResignLeader(s, t) PROVE OnTheWay'
  BY <1>26 DEF ResignLeader, MoveEtcdLeader, OnTheWay, Low, tsoVars
<1>27. CASE UNCHANGED vars
  BY <1>27 DEF vars, OnTheWay, Low, etcdVars, tsoVars
<1> QED
  BY <1>1, <1>2, <1>3, <1>4, <1>5, <1>6, <1>7, <1>8, <1>9, <1>10, <1>11, <1>12, <1>13, <1>14, <1>15, <1>16, <1>17, <1>18, <1>19, <1>20, <1>21, <1>22, <1>23, <1>24, <1>25, <1>26, <1>27
     DEF Next, Steady, Fault, Compaction, Election, Serving, Request

(* The facts about numbers that the window arguments need. *)
LEMMA WindowTypes ==
  ASSUME TypeOK
  PROVE  /\ saved \in Nat /\ Ms \in Nat \ {0} /\ SaveInterval \in Nat /\ SaveInterval >= Ms
         /\ \A s \in Server : /\ lastSavedTime[s] \in Nat /\ next[s] \in Nat
                              /\ ts[s] # 0 => ts[s] \in DOMAIN objs
                              /\ Low(s) \in Nat
         /\ \A i \in DOMAIN objs : objs[i].physical \in Nat
<1>1. \A i \in DOMAIN objs : objs[i] \in Object
  BY DEF TypeOK
<1>2. \A i \in DOMAIN objs : objs[i].physical \in Nat
  BY <1>1 DEF Object
<1>3. \A s \in Server : ts[s] # 0 => ts[s] \in DOMAIN objs
  BY DEF TypeOK
<1>4. \A s \in Server : Low(s) \in Nat
  BY <1>2, <1>3 DEF Low, TypeOK
<1> QED
  BY <1>2, <1>3, <1>4, TimeAssumption DEF TypeOK

(* A save that succeeds: the window of the holder grows, and nobody else   *)
(* lies above its lower end.                                               *)
LEMMA SaveStep ==
  ASSUME TSOInv, NEW s \in Server, SaveTimestamp(s), leaderKey = s
  PROVE  /\ Saved' /\ ObjectsOutside' /\ WindowsApart' /\ HolderOnTop'
         /\ ObjectsApart' /\ PhysicalBelowSaved'
<1>1. TypeOK /\ Control /\ OnTheWay /\ Saved /\ ObjectsOutside /\ WindowsApart
      /\ HolderOnTop /\ ObjectsApart /\ PhysicalBelowSaved
  BY DEF TSOInv
<1> USE WindowTypes, <1>1
<1> DEFINE w == next[s] + SaveInterval
<1>2. /\ pc[s] = "save" /\ pc' = [pc EXCEPT ![s] = "store"]
      /\ saved' = w /\ lastSavedTime' = [lastSavedTime EXCEPT ![s] = w]
      /\ UNCHANGED <<leaderKey, next, ts, objs>>
  BY DEF SaveTimestamp, LeaderTxn, Goto
<1>3. saved <= w /\ w \in Nat /\ next[s] < w
  BY <1>2, SaveGrows
<1>4. /\ HasWindow(s)' /\ pc'[s] = "store"
      /\ lastSavedTime'[s] = w
      /\ \A t \in Server : Low(t)' = Low(t)
      /\ \A t \in Server \ {s} : /\ HasWindow(t)' = HasWindow(t) /\ pc'[t] = pc[t]
                                 /\ lastSavedTime'[t] = lastSavedTime[t]
  BY <1>2 DEF HasWindow, Low, TypeOK
<1>5. /\ \A i \in DOMAIN objs \ {ts[s]} : objs[i].physical + Ms <= Low(s)
      /\ \A t \in Server \ {s} : HasWindow(t) => lastSavedTime[t] + Ms <= Low(s)
      /\ Low(s) < w
  <2>1. CASE ts[s] = 0
    <3>1. saved + Ms <= next[s] /\ Low(s) = next[s]
      BY <1>2, <2>1 DEF OnTheWay, Low
    <3>2. \A i \in DOMAIN objs : objs[i].physical < saved
      BY DEF PhysicalBelowSaved
    <3>3. \A t \in Server : HasWindow(t) => lastSavedTime[t] <= saved
      BY DEF Saved
    <3> QED
      BY <1>3, <3>1, <3>2, <3>3
  <2>2. CASE ts[s] # 0
    <3>1. HasWindow(s) /\ Low(s) + Ms <= next[s]
      BY <1>2, <2>2 DEF HasWindow, OnTheWay
    <3>2. Low(s) < w
      BY <1>3, <3>1
    <3> QED
      BY <3>1, <3>2 DEF HolderOnTop
  <2> QED
    BY <2>1, <2>2
<1> HIDE DEF w
<1>6. Saved'
  <2> SUFFICES ASSUME NEW t \in Server, HasWindow(t)'
               PROVE  /\ Low(t)' < lastSavedTime'[t] /\ lastSavedTime'[t] <= saved'
                      /\ leaderKey' = t /\ pc'[t] \notin {"disable", "zero"} =>
                           saved' = lastSavedTime'[t]
    BY DEF Saved
  <2>1. CASE t = s
    BY <1>2, <1>3, <1>4, <1>5, <2>1
  <2>2. CASE t # s
    BY <1>2, <1>3, <1>4, <2>2 DEF Saved
  <2> QED
    BY <2>1, <2>2
<1>7. ObjectsOutside'
  <2> SUFFICES ASSUME NEW t \in Server, HasWindow(t)', NEW i \in DOMAIN objs' \ {ts'[t]}
               PROVE  \/ objs'[i].physical + Ms <= Low(t)'
                      \/ lastSavedTime'[t] + Ms <= objs'[i].physical
    BY DEF ObjectsOutside
  <2>1. CASE t = s
    BY <1>2, <1>4, <1>5, <2>1
  <2>2. CASE t # s
    BY <1>2, <1>4, <2>2 DEF ObjectsOutside
  <2> QED
    BY <2>1, <2>2
<1>8. WindowsApart'
  <2> SUFFICES ASSUME NEW t \in Server, NEW u \in Server, t # u, HasWindow(t)', HasWindow(u)'
               PROVE  \/ lastSavedTime'[t] + Ms <= Low(u)'
                      \/ lastSavedTime'[u] + Ms <= Low(t)'
    BY DEF WindowsApart
  <2>1. CASE t = s
    BY <1>4, <1>5, <2>1
  <2>2. CASE u = s
    BY <1>4, <1>5, <2>2
  <2>3. CASE t # s /\ u # s
    BY <1>4, <2>3 DEF WindowsApart
  <2> QED
    BY <2>1, <2>2, <2>3
<1>9. HolderOnTop'
  BY <1>2, <1>4, <1>5 DEF HolderOnTop
<1>10. ObjectsApart'
  BY <1>2 DEF ObjectsApart
<1>11. PhysicalBelowSaved'
  BY <1>2, <1>3 DEF PhysicalBelowSaved
<1> QED
  BY <1>6, <1>7, <1>8, <1>9, <1>10, <1>11

(* A publication: the new object lies in the window of its server, above   *)
(* what the server published before and apart from everything else.        *)
LEMMA StoreStep ==
  ASSUME TSOInv, NEW s \in Server, StoreTimestamp(s)
  PROVE  /\ Saved' /\ ObjectsOutside' /\ WindowsApart' /\ HolderOnTop'
         /\ ObjectsApart' /\ PhysicalBelowSaved'
<1>1. TypeOK /\ Control /\ OnTheWay /\ Saved /\ ObjectsOutside /\ WindowsApart
      /\ HolderOnTop /\ ObjectsApart /\ PhysicalBelowSaved
  BY DEF TSOInv
<1> USE WindowTypes, <1>1
<1> DEFINE k == Len(objs) + 1
           n == next[s]
           o == [physical |-> n, logical |-> 0]
<1>2. /\ pc[s] = "store" /\ objs' = Append(objs, o) /\ ts' = [ts EXCEPT ![s] = k]
      /\ UNCHANGED <<leaderKey, saved, lastSavedTime>>
      /\ \A t \in Server \ {s} : pc'[t] = pc[t] /\ next'[t] = next[t]
  BY DEF StoreTimestamp, Goto, TypeOK, etcdVars
<1>3. o \in Object /\ o.physical = n
  BY DEF TypeOK, Object
<1> HIDE DEF o
<1>4. /\ DOMAIN objs' = DOMAIN objs \union {k} /\ k \notin DOMAIN objs /\ k # 0
      /\ \A i \in DOMAIN objs : objs'[i] = objs[i]
      /\ objs'[k] = o
  <2>1. /\ objs' \in Seq(Object) /\ Len(objs') = Len(objs) + 1
        /\ \A i \in 1 .. Len(objs) : objs'[i] = objs[i]
        /\ objs'[Len(objs) + 1] = o
    BY <1>2, <1>3, AppendObject
  <2>2. objs \in Seq(Object) /\ Len(objs) \in Nat /\ DOMAIN objs = 1 .. Len(objs)
    BY DEF TypeOK
  <2>3. DOMAIN objs' = 1 .. Len(objs) + 1
    BY <2>1
  <2> QED
    BY <2>1, <2>2, <2>3
<1> HIDE DEF k
<1>5. objs'[k].physical = n
  BY <1>3, <1>4
<1>6. HasWindow(s) /\ Low(s) <= n /\ n < lastSavedTime[s]
      /\ (ts[s] # 0 => objs[ts[s]].physical + Ms <= n)
  BY <1>2 DEF HasWindow, Low, OnTheWay
<1>7. /\ ts'[s] = k /\ Low(s)' = n /\ HasWindow(s)'
      /\ \A t \in Server \ {s} : /\ ts'[t] = ts[t] /\ HasWindow(t)' = HasWindow(t)
                                 /\ HasWindow(t) => Low(t)' = Low(t)
  BY <1>2, <1>4, <1>5 DEF HasWindow, Low, TypeOK
<1>8. \A i \in DOMAIN objs : \/ objs[i].physical + Ms <= n
                             \/ lastSavedTime[s] + Ms <= objs[i].physical
  <2> SUFFICES ASSUME NEW i \in DOMAIN objs
               PROVE  \/ objs[i].physical + Ms <= n
                      \/ lastSavedTime[s] + Ms <= objs[i].physical
    OBVIOUS
  <2>1. CASE i = ts[s]
    <3>1. ts[s] # 0
      BY <2>1 DEF TypeOK
    <3> QED
      BY <1>6, <2>1, <3>1
  <2>2. CASE i # ts[s]
    BY <1>6, <2>2 DEF ObjectsOutside
  <2> QED
    BY <2>1, <2>2
<1>9. Saved'
  <2> SUFFICES ASSUME NEW t \in Server, HasWindow(t)'
               PROVE  /\ Low(t)' < lastSavedTime'[t] /\ lastSavedTime'[t] <= saved'
                      /\ leaderKey' = t /\ pc'[t] \notin {"disable", "zero"} =>
                           saved' = lastSavedTime'[t]
    BY DEF Saved
  <2>1. CASE t = s
    <3>1. /\ lastSavedTime[s] <= saved
          /\ leaderKey = s => saved = lastSavedTime[s]
      BY <1>2, <1>6 DEF Saved
    <3> QED
      BY <1>2, <1>6, <1>7, <2>1, <3>1
  <2>2. CASE t # s
    BY <1>2, <1>7, <2>2 DEF Saved
  <2> QED
    BY <2>1, <2>2
<1>10. ObjectsOutside'
  <2> SUFFICES ASSUME NEW t \in Server, HasWindow(t)', NEW i \in DOMAIN objs' \ {ts'[t]}
               PROVE  \/ objs'[i].physical + Ms <= Low(t)'
                      \/ lastSavedTime'[t] + Ms <= objs'[i].physical
    BY DEF ObjectsOutside
  <2>1. CASE t = s
    BY <1>2, <1>4, <1>7, <1>8, <2>1
  <2>2. CASE t # s /\ i # k
    BY <1>2, <1>4, <1>7, <2>2 DEF ObjectsOutside
  <2>3. CASE t # s /\ i = k
    <3>1. HasWindow(t) /\ Low(t)' = Low(t) /\ lastSavedTime'[t] = lastSavedTime[t]
      BY <1>2, <1>7, <2>3
    <3>2. \/ lastSavedTime[s] + Ms <= Low(t)
          \/ lastSavedTime[t] + Ms <= Low(s)
      BY <1>6, <2>3, <3>1 DEF WindowsApart
    <3> QED
      BY <1>5, <1>6, <2>3, <3>1, <3>2
  <2> QED
    BY <2>1, <2>2, <2>3
<1>11. WindowsApart'
  <2> SUFFICES ASSUME NEW t \in Server, NEW u \in Server, t # u, HasWindow(t)', HasWindow(u)'
               PROVE  \/ lastSavedTime'[t] + Ms <= Low(u)'
                      \/ lastSavedTime'[u] + Ms <= Low(t)'
    BY DEF WindowsApart
  <2>1. HasWindow(t) /\ HasWindow(u)
    BY <1>6, <1>7
  <2>2. \/ lastSavedTime[t] + Ms <= Low(u)
        \/ lastSavedTime[u] + Ms <= Low(t)
    BY <2>1 DEF WindowsApart
  <2>3. Low(t) <= Low(t)' /\ Low(u) <= Low(u)' /\ Low(t)' \in Nat /\ Low(u)' \in Nat
    BY <1>6, <1>7, <2>1
  <2> QED
    BY <1>2, <2>2, <2>3
<1>12. HolderOnTop'
  <2> SUFFICES ASSUME NEW t \in Server, leaderKey' = t, HasWindow(t)'
               PROVE  /\ \A i \in DOMAIN objs' \ {ts'[t]} : objs'[i].physical + Ms <= Low(t)'
                      /\ \A u \in Server \ {t} : HasWindow(u)' => lastSavedTime'[u] + Ms <= Low(t)'
    BY DEF HolderOnTop
  <2>1. leaderKey = t /\ HasWindow(t)
    BY <1>2, <1>6, <1>7
  <2>2. /\ \A i \in DOMAIN objs \ {ts[t]} : objs[i].physical + Ms <= Low(t)
        /\ \A u \in Server \ {t} : HasWindow(u) => lastSavedTime[u] + Ms <= Low(t)
    BY <2>1 DEF HolderOnTop
  <2>3. CASE t = s
    <3>1. \A i \in DOMAIN objs : objs[i].physical + Ms <= n
      <4> SUFFICES ASSUME NEW i \in DOMAIN objs PROVE objs[i].physical + Ms <= n
        OBVIOUS
      <4>1. CASE i = ts[s]
        BY <1>6, <4>1 DEF TypeOK
      <4>2. CASE i # ts[s]
        BY <1>6, <2>2, <2>3, <4>2
      <4> QED
        BY <4>1, <4>2
    <3>2. \A u \in Server \ {s} : HasWindow(u) => lastSavedTime[u] + Ms <= n
      BY <1>6, <2>2, <2>3
    <3> QED
      BY <1>2, <1>4, <1>7, <2>3, <3>1, <3>2
  <2>4. CASE t # s
    <3>1. Low(t)' = Low(t) /\ ts'[t] = ts[t] /\ lastSavedTime[s] + Ms <= Low(t)
      BY <1>6, <1>7, <2>1, <2>2, <2>4
    <3>2. n + Ms <= Low(t)
      BY <1>6, <3>1
    <3>3. \A i \in DOMAIN objs' \ {ts'[t]} : objs'[i].physical + Ms <= Low(t)'
      BY <1>4, <1>5, <2>2, <3>1, <3>2
    <3>4. \A u \in Server \ {t} : HasWindow(u)' => HasWindow(u)
      BY <1>6, <1>7
    <3> QED
      BY <1>2, <2>2, <3>1, <3>3, <3>4
  <2> QED
    BY <2>3, <2>4
<1>13. ObjectsApart'
  <2> SUFFICES ASSUME NEW i \in DOMAIN objs', NEW j \in DOMAIN objs', i # j
               PROVE  \/ objs'[i].physical + Ms <= objs'[j].physical
                      \/ objs'[j].physical + Ms <= objs'[i].physical
    BY DEF ObjectsApart
  <2>1. CASE i # k /\ j # k
    BY <1>4, <2>1 DEF ObjectsApart
  <2>2. \A m \in DOMAIN objs : \/ objs[m].physical + Ms <= n
                               \/ n + Ms <= objs[m].physical
    BY <1>6, <1>8
  <2>3. CASE i = k \/ j = k
    BY <1>4, <1>5, <2>2, <2>3
  <2> QED
    BY <2>1, <2>3
<1>14. PhysicalBelowSaved'
  <2>1. n < saved
    BY <1>6 DEF Saved
  <2> QED
    BY <1>2, <1>4, <1>5, <2>1 DEF PhysicalBelowSaved
<1> QED
  BY <1>9, <1>10, <1>11, <1>12, <1>13, <1>14

(***************************************************************************)
(* The inductive invariant                                                 *)
(***************************************************************************)
(* Nothing is published and nobody has a window at first. *)
LEMMA InitTSOInv == Init => TSOInv
<1> SUFFICES ASSUME Init PROVE TSOInv
  OBVIOUS
<1>1. TypeOK
  BY InitType
<1>2. Control /\ OnTheWay
  BY ServerAssumption DEF Init, Control, OnTheWay
<1>3. \A s \in Server : ~HasWindow(s)
  BY DEF Init, HasWindow
<1>4. DOMAIN objs = {}
  BY DEF Init
<1> QED
  BY <1>1, <1>2, <1>3, <1>4
     DEF TSOInv, Saved, ObjectsOutside, WindowsApart, HolderOnTop, ObjectsApart, PhysicalBelowSaved

(* Every step keeps it. *)
LEMMA NextTSOInv == TSOInv /\ [Next]_vars => TSOInv'
<1> SUFFICES ASSUME TSOInv, [Next]_vars PROVE TSOInv'
  OBVIOUS
<1>1. TypeOK /\ Control /\ OnTheWay /\ Saved
  BY DEF TSOInv
<1>2. TypeOK' /\ Control' /\ OnTheWay'
  BY <1>1, TypeStep, ControlStep, OnTheWayStep
<1>3. /\ Saved' /\ ObjectsOutside' /\ WindowsApart' /\ HolderOnTop'
      /\ ObjectsApart' /\ PhysicalBelowSaved'
  <2>1. CASE Quiet
    BY <1>2, <2>1, QuietStep
  <2>2. ASSUME NEW s \in Server, SaveTimestamp(s), leaderKey = s
        PROVE  /\ Saved' /\ ObjectsOutside' /\ WindowsApart' /\ HolderOnTop'
               /\ ObjectsApart' /\ PhysicalBelowSaved'
    BY <2>2, SaveStep
  <2>3. ASSUME NEW s \in Server, StoreTimestamp(s)
        PROVE  /\ Saved' /\ ObjectsOutside' /\ WindowsApart' /\ HolderOnTop'
               /\ ObjectsApart' /\ PhysicalBelowSaved'
    BY <2>3, StoreStep
  <2> QED
    BY <1>1, <2>1, <2>2, <2>3, QuietActions
<1> QED
  BY <1>2, <1>3 DEF TSOInv

(* The window invariant holds throughout. *)
LEMMA AlwaysTSOInv == Spec => []TSOInv
  BY InitTSOInv, NextTSOInv, PTL DEF Spec

(***************************************************************************)
(* Answers                                                                 *)
(***************************************************************************)
(* Objects only count up, and only AddTS answers. *)
LEMMA ObjectsGrow ==
  ASSUME TypeOK, Control, [Next]_vars
  PROVE  /\ \A i \in DOMAIN objs : /\ i \in DOMAIN objs'
                                   /\ objs'[i].physical = objs[i].physical
                                   /\ objs[i].logical <= objs'[i].logical
         /\ reply' = reply \/ \E r \in Req : AddTS(r)
<1>1. \A i \in DOMAIN objs : objs[i] \in Object
  BY DEF TypeOK
<1>2. \A i \in DOMAIN objs : objs[i].logical \in Nat
  BY <1>1 DEF Object
<1>3. CASE objs' = objs /\ reply' = reply
  BY <1>2, <1>3
<1>4. ASSUME NEW s \in Server, StoreTimestamp(s)
      PROVE  /\ reply' = reply
             /\ \A i \in DOMAIN objs : i \in DOMAIN objs' /\ objs'[i] = objs[i]
  <2>1. [physical |-> next[s], logical |-> 0] \in Object
    BY DEF TypeOK, Object
  <2>2. /\ objs' \in Seq(Object) /\ Len(objs') = Len(objs) + 1
        /\ \A i \in 1 .. Len(objs) : objs'[i] = objs[i]
    BY <1>4, <2>1, AppendObject DEF StoreTimestamp
  <2>3. objs \in Seq(Object) /\ Len(objs) \in Nat /\ DOMAIN objs = 1 .. Len(objs)
    BY DEF TypeOK
  <2>4. DOMAIN objs' = 1 .. Len(objs) + 1
    BY <2>2
  <2> QED
    BY <1>4, <2>2, <2>3, <2>4 DEF StoreTimestamp, reqVars
<1>5. ASSUME NEW r \in Req, AddTS(r)
      PROVE  \A i \in DOMAIN objs : /\ i \in DOMAIN objs'
                                    /\ objs'[i].physical = objs[i].physical
                                    /\ objs[i].logical <= objs'[i].logical
  <2> DEFINE l == objs[cur[r]].logical + Count[r]
  <2>1. cur[r] \in DOMAIN objs
    BY <1>5 DEF AddTS, Control, TypeOK
  <2>2. l \in Nat /\ objs[cur[r]].logical <= l
    BY <1>2, <2>1, RequestAssumption
  <2>3. objs' = [objs EXCEPT ![cur[r]].logical = l]
    BY <1>5 DEF AddTS
  <2> HIDE DEF l
  <2>4. /\ DOMAIN objs' = DOMAIN objs /\ objs'[cur[r]].logical = l
        /\ \A j \in DOMAIN objs : /\ objs'[j].physical = objs[j].physical
                                  /\ j # cur[r] => objs'[j] = objs[j]
    BY <2>1, <2>2, <2>3, CountUp
  <2> QED
    BY <1>2, <2>2, <2>4
<1>6. \/ objs' = objs /\ reply' = reply
      \/ \E s \in Server : StoreTimestamp(s)
      \/ \E r \in Req : AddTS(r)
  BY DEF Next, Steady, Fault, Compaction, Election, Serving, Request,
     GetLeader, DeleteLeaderKey, WatchDelete, WatchReturns, CampaignLeader,
     SyncTimestamp, SaveTimestamp, EnableLeader, UpdateTimestamp, DisableLeader,
     ClearTimestamp, EtcdLeaderLoop, MoveEtcdLeader, Restart, Tso, LoadTS,
     EtcdElects, LeaseExpires, EtcdLeaderChanges, ResignLeader, KeepAliveClosed,
     CampaignFails, WatchCanceled, DeleteError, CampaignError, SaveError, Crash,
     WatchCompacted, vars, tsoVars, reqVars
<1> QED
  BY <1>2, <1>3, <1>4, <1>5, <1>6

(* What AddTS answers, if it does. *)
LEMMA AddAnswers ==
  ASSUME TypeOK, Control, NEW r \in Req, AddTS(r), reply' # reply
  PROVE  /\ reply[r] = None /\ cur[r] \in DOMAIN objs /\ cur[r] \in DOMAIN objs'
         /\ reply' = [reply EXCEPT ![r] = reply'[r]]
         /\ reply'[r] \in Object
         /\ reply'[r].physical = Milli(objs[cur[r]].physical)
         /\ reply'[r].logical = objs[cur[r]].logical + Count[r]
         /\ reply'[r].logical = objs'[cur[r]].logical
<1> DEFINE i == cur[r]
           l == objs[i].logical + Count[r]
           a == [physical |-> Milli(objs[i].physical), logical |-> l]
<1>1. i \in DOMAIN objs /\ objs[i] \in Object /\ reply[r] = None
  BY DEF AddTS, Control, TypeOK
<1>2. l \in Nat /\ Milli(objs[i].physical) \in Nat
  BY <1>1, MilliNat, RequestAssumption DEF Object
<1>3. objs' = [objs EXCEPT ![i].logical = l]
  BY DEF AddTS
<1>4. reply' = [reply EXCEPT ![r] = a]
  BY DEF AddTS
<1>5. a \in Object /\ a.physical = Milli(objs[i].physical) /\ a.logical = l
  BY <1>2 DEF Object
<1>6. reply'[r] = a
  BY <1>4 DEF TypeOK
<1>7. DOMAIN objs' = DOMAIN objs /\ objs'[i].logical = l
  <2> HIDE DEF l
  <2> QED
    BY <1>1, <1>2, <1>3, CountUp
<1> QED
  BY <1>1, <1>4, <1>5, <1>6, <1>7

(* Two answers from different objects differ in their physical part. *)
LEMMA MilliOfObjects ==
  ASSUME TSOInv, NEW i \in DOMAIN objs, NEW j \in DOMAIN objs, i # j
  PROVE  \/ Milli(objs[i].physical) < Milli(objs[j].physical)
         \/ Milli(objs[j].physical) < Milli(objs[i].physical)
<1>1. objs[i].physical \in Nat /\ objs[j].physical \in Nat
  BY WindowTypes DEF TSOInv
<1>2. \/ objs[i].physical + Ms <= objs[j].physical
      \/ objs[j].physical + Ms <= objs[i].physical
  BY DEF TSOInv, ObjectsApart
<1> QED
  BY <1>1, <1>2, MilliApart

IInv == TSOInv /\ Answers /\ UniqueTimestamps

(* A new answer exceeds, or is exceeded by, every answer there is. *)
LEMMA NewAnswer ==
  ASSUME IInv, NEW r \in Req, AddTS(r), reply' # reply,
         NEW g \in Req, reply[g] # None
  PROVE  /\ g # r /\ reply'[g] = reply[g]
         /\ Exceeds(r, g)' \/ Exceeds(g, r)'
<1>1. TypeOK /\ Control /\ TSOInv /\ Answers
  BY DEF IInv, TSOInv
<1>2. /\ reply[r] = None /\ cur[r] \in DOMAIN objs
      /\ reply' = [reply EXCEPT ![r] = reply'[r]]
      /\ reply'[r].physical = Milli(objs[cur[r]].physical)
      /\ reply'[r].logical = objs[cur[r]].logical + Count[r]
  BY <1>1, AddAnswers
<1>3. g # r /\ reply'[g] = reply[g]
  BY <1>1, <1>2 DEF TypeOK
<1>4. PICK i \in DOMAIN objs : /\ reply[g].physical = Milli(objs[i].physical)
                               /\ reply[g].logical <= objs[i].logical
  BY <1>1 DEF Answers
<1>5. /\ objs[i].physical \in Nat /\ objs[cur[r]].physical \in Nat
      /\ objs[i].logical \in Nat /\ objs[cur[r]].logical \in Nat
      /\ Count[r] \in Nat /\ reply[g].logical \in Nat
  <2>1. objs[i] \in Object /\ objs[cur[r]] \in Object
    BY <1>1, <1>2 DEF TypeOK
  <2>2. reply[g] \in Object
    BY <1>1 DEF TypeOK
  <2> QED
    BY <2>1, <2>2, RequestAssumption DEF Object
<1>6. CASE i = cur[r]
  <2>1. reply'[r].physical = reply'[g].physical
    BY <1>2, <1>3, <1>4, <1>6
  <2>2. reply'[r].logical - Count[r] >= reply'[g].logical
    BY <1>2, <1>3, <1>4, <1>5, <1>6
  <2> QED
    BY <1>3, <2>1, <2>2 DEF Exceeds
<1>7. CASE i # cur[r]
  <2>1. \/ Milli(objs[i].physical) < Milli(objs[cur[r]].physical)
        \/ Milli(objs[cur[r]].physical) < Milli(objs[i].physical)
    BY <1>1, <1>2, <1>7, MilliOfObjects
  <2>2. Milli(objs[i].physical) \in Nat /\ Milli(objs[cur[r]].physical) \in Nat
    BY <1>5, MilliNat
  <2> QED
    BY <1>2, <1>3, <1>4, <2>1, <2>2 DEF Exceeds
<1> QED
  BY <1>3, <1>6, <1>7

(* No answer, no duplicate. *)
LEMMA InitIInv == Init => IInv
  BY InitTSOInv DEF Init, IInv, Answers, UniqueTimestamps, Answered

(* Answers stay unique. *)
LEMMA NextIInv == IInv /\ [Next]_vars => IInv'
<1> SUFFICES ASSUME IInv, [Next]_vars PROVE IInv'
  OBVIOUS
<1>1. TypeOK /\ Control /\ TSOInv /\ Answers /\ UniqueTimestamps
  BY DEF IInv, TSOInv
<1>2. TSOInv' /\ TypeOK'
  BY <1>1, NextTSOInv DEF TSOInv
<1>3. /\ \A i \in DOMAIN objs : /\ i \in DOMAIN objs'
                                /\ objs'[i].physical = objs[i].physical
                                /\ objs[i].logical <= objs'[i].logical
      /\ reply' = reply \/ \E r \in Req : AddTS(r)
  BY <1>1, ObjectsGrow
<1>4. \A i \in DOMAIN objs : objs[i].logical \in Nat /\ objs'[i].logical \in Nat
  <2>1. \A i \in DOMAIN objs : objs[i] \in Object /\ objs'[i] \in Object
    BY <1>1, <1>2, <1>3 DEF TypeOK
  <2> QED
    BY <2>1 DEF Object
<1>5. ASSUME NEW g \in Req, reply[g] # None
      PROVE  \E i \in DOMAIN objs' : /\ reply[g].physical = Milli(objs'[i].physical)
                                     /\ reply[g].logical <= objs'[i].logical
  <2>1. PICK i \in DOMAIN objs : /\ reply[g].physical = Milli(objs[i].physical)
                                 /\ reply[g].logical <= objs[i].logical
    BY <1>1, <1>5 DEF Answers
  <2>2. reply[g].logical \in Nat
    <3>1. reply[g] \in Object
      BY <1>1, <1>5 DEF TypeOK
    <3> QED
      BY <3>1 DEF Object
  <2>3. reply[g].logical <= objs'[i].logical
    BY <1>3, <1>4, <2>1, <2>2
  <2> QED
    BY <1>3, <2>1, <2>3
<1>6. CASE reply' = reply
  <2>1. Answers'
    BY <1>5, <1>6 DEF Answers
  <2>2. UniqueTimestamps'
    BY <1>1, <1>6 DEF UniqueTimestamps, Exceeds, Answered
  <2> QED
    BY <1>2, <2>1, <2>2 DEF IInv
<1>7. ASSUME NEW r \in Req, AddTS(r), reply' # reply PROVE IInv'
  <2>1. /\ cur[r] \in DOMAIN objs /\ cur[r] \in DOMAIN objs'
        /\ reply' = [reply EXCEPT ![r] = reply'[r]]
        /\ reply'[r] \in Object
        /\ reply'[r].physical = Milli(objs[cur[r]].physical)
        /\ reply'[r].logical = objs'[cur[r]].logical
    BY <1>1, <1>7, AddAnswers
  <2>2. \A g \in Req \ {r} : reply'[g] = reply[g]
    BY <1>1, <2>1 DEF TypeOK
  <2>3. Answers'
    <3> SUFFICES ASSUME NEW g \in Req, reply'[g] # None
                 PROVE  \E i \in DOMAIN objs' : /\ reply'[g].physical = Milli(objs'[i].physical)
                                                /\ reply'[g].logical <= objs'[i].logical
      BY DEF Answers
    <3>1. CASE g = r
      <4>1. reply'[r].physical = Milli(objs'[cur[r]].physical)
        BY <1>3, <2>1
      <4>2. reply'[r].logical <= objs'[cur[r]].logical
        BY <1>4, <2>1
      <4> QED
        BY <2>1, <3>1, <4>1, <4>2
    <3>2. CASE g # r
      BY <1>5, <2>2, <3>2
    <3> QED
      BY <3>1, <3>2
  <2>4. UniqueTimestamps'
    <3> SUFFICES ASSUME NEW f \in Req, NEW g \in Req, f # g,
                        reply'[f] # None, reply'[g] # None
                 PROVE  Exceeds(f, g)' \/ Exceeds(g, f)'
      BY DEF UniqueTimestamps, Answered
    <3>1. CASE f = r
      <4>1. reply[g] # None
        BY <2>2, <3>1
      <4> QED
        BY <1>7, <3>1, <4>1, NewAnswer
    <3>2. CASE g = r
      <4>1. reply[f] # None
        BY <2>2, <3>2
      <4> QED
        BY <1>7, <3>2, <4>1, NewAnswer
    <3>3. CASE f # r /\ g # r
      <4>1. reply'[f] = reply[f] /\ reply'[g] = reply[g]
        BY <2>2, <3>3
      <4>2. Exceeds(f, g) \/ Exceeds(g, f)
        BY <1>1, <4>1 DEF UniqueTimestamps, Answered
      <4> QED
        BY <4>1, <4>2 DEF Exceeds
    <3> QED
      BY <3>1, <3>2, <3>3
  <2> QED
    BY <1>2, <2>3, <2>4 DEF IInv
<1> QED
  BY <1>3, <1>6, <1>7

(***************************************************************************)
(* Theorems                                                                *)
(***************************************************************************)
(* Every variable keeps its type: in particular s.ts and every running     *)
(* getRespTS refer to objects that exist.                                  *)
THEOREM TypeCorrect == Spec => []TypeOK
<1>1. TSOInv => TypeOK
  BY DEF TSOInv
<1> QED
  BY <1>1, AlwaysTSOInv, PTL

(* The third constraint in the comment on updateTimestamp, for every       *)
(* object ever published.                                                  *)
THEOREM PhysicalStaysBelowSaved == Spec => []PhysicalBelowSaved
<1>1. TSOInv => PhysicalBelowSaved
  BY DEF TSOInv
<1> QED
  BY <1>1, AlwaysTSOInv, PTL

(* Nobody publishes as late a physical time as the server that the leader  *)
(* key names.                                                              *)
THEOREM HolderIsNewest == Spec => []KeyHolderIsNewest
<1>1. TSOInv => KeyHolderIsNewest
  <2> SUFFICES ASSUME TSOInv, NEW s \in Server, leaderKey = s, ts[s] # 0,
                      NEW i \in DOMAIN objs \ {ts[s]}
               PROVE  Milli(objs[i].physical) < Milli(objs[ts[s]].physical)
    BY DEF KeyHolderIsNewest
  <2>1. objs[i].physical + Ms <= objs[ts[s]].physical
    BY DEF TSOInv, HolderOnTop, HasWindow, Low
  <2>2. objs[i].physical \in Nat /\ objs[ts[s]].physical \in Nat
    BY WindowTypes DEF TSOInv
  <2> QED
    BY <2>1, <2>2, MilliApart
<1> QED
  BY <1>1, AlwaysTSOInv, PTL

(* The second constraint: the saved timestamp never goes back, although    *)
(* saveTimestamp does not compare it with the old value.                   *)
THEOREM SavedNeverGoesBack == Spec => SavedMonotonic
<1>1. TSOInv /\ [Next]_vars => [saved' >= saved]_vars
  <2> SUFFICES ASSUME TSOInv, [Next]_vars PROVE saved' >= saved
    OBVIOUS
  <2>1. TypeOK /\ Control /\ OnTheWay /\ Saved /\ TypeOK'
    BY NextTSOInv DEF TSOInv
  <2>2. saved \in Nat /\ saved' \in Nat
    BY <2>1 DEF TypeOK
  <2>3. CASE Quiet
    BY <2>2, <2>3 DEF Quiet
  <2>4. ASSUME NEW s \in Server, SaveTimestamp(s), leaderKey = s PROVE saved' >= saved
    <3>1. pc[s] = "save" /\ saved' = next[s] + SaveInterval
      BY <2>4 DEF SaveTimestamp, LeaderTxn
    <3>2. saved <= next[s] + SaveInterval
      BY <2>1, <2>4, <3>1, SaveGrows
    <3> QED
      BY <2>2, <3>1, <3>2
  <2>5. ASSUME NEW s \in Server, StoreTimestamp(s) PROVE saved' >= saved
    BY <2>2, <2>5 DEF StoreTimestamp, etcdVars
  <2> QED
    BY <2>1, <2>3, <2>4, <2>5, QuietActions
<1> QED
  BY <1>1, AlwaysTSOInv, PTL DEF Spec, SavedMonotonic

(* The first constraint: a server's physical time advances by at least one *)
(* millisecond from one object to the next.                                *)
THEOREM PhysicalAdvances == Spec => PhysicalMonotonic
<1> DEFINE P == \A s \in Server : ts[s] # 0 /\ ts'[s] \notin {0, ts[s]} =>
                  Milli(objs'[ts'[s]].physical) > Milli(objs[ts[s]].physical)
<1>1. TSOInv /\ [Next]_vars => [P]_vars
  <2> SUFFICES ASSUME TSOInv, [Next]_vars PROVE P
    OBVIOUS
  <2> SUFFICES ASSUME NEW s \in Server, ts[s] # 0, ts'[s] \notin {0, ts[s]}
               PROVE  Milli(objs'[ts'[s]].physical) > Milli(objs[ts[s]].physical)
    OBVIOUS
  <2>1. TypeOK /\ Control /\ OnTheWay /\ Saved
    BY DEF TSOInv
  <2>2. CASE Quiet
    BY <2>2 DEF Quiet, HasWindow
  <2>3. ASSUME NEW t \in Server, SaveTimestamp(t) PROVE FALSE
    BY <2>3 DEF SaveTimestamp
  <2>4. ASSUME NEW t \in Server, StoreTimestamp(t)
        PROVE  Milli(objs'[ts'[s]].physical) > Milli(objs[ts[s]].physical)
    <3>1. t = s
      BY <2>1, <2>4 DEF StoreTimestamp, TypeOK
    <3>2. [physical |-> next[s], logical |-> 0] \in Object
      BY <2>1 DEF TypeOK, Object
    <3>3. objs'[Len(objs) + 1] = [physical |-> next[s], logical |-> 0]
      BY <2>1, <2>4, <3>1, <3>2, AppendObject DEF StoreTimestamp
    <3>4. ts'[s] = Len(objs) + 1 /\ pc[s] = "store"
      BY <2>1, <2>4, <3>1 DEF StoreTimestamp, TypeOK
    <3>5. objs'[ts'[s]].physical = next[s]
      BY <3>3, <3>4
    <3>6. objs[ts[s]].physical + Ms <= next[s]
      BY <2>1, <3>4 DEF OnTheWay, Low
    <3>7. objs[ts[s]].physical \in Nat /\ next[s] \in Nat
      BY <2>1, WindowTypes
    <3> QED
      BY <3>5, <3>6, <3>7, MilliApart
  <2> QED
    BY <2>1, <2>2, <2>3, <2>4, QuietActions
<1> QED
  BY <1>1, AlwaysTSOInv, PTL DEF Spec, PhysicalMonotonic

(* No timestamp is handed out twice. *)
THEOREM TimestampsUnique == Spec => []UniqueTimestamps
<1>1. IInv => UniqueTimestamps
  BY DEF IInv
<1> QED
  BY <1>1, InitIInv, NextIInv, PTL DEF Spec

(* The servers, their leases, their clocks and their failures implement    *)
(* the oracle of TimestampOracle.                                          *)
THEOREM ImplementsOracle == Spec => OracleSpec
<1>1. Init => Oracle!Init
  BY DEF Init, Oracle!Init
<1>2. IInv /\ [Next]_vars => [Oracle!Next]_reply
  <2> SUFFICES ASSUME IInv, [Next]_vars, reply' # reply PROVE Oracle!Next
    OBVIOUS
  <2>1. TypeOK /\ Control
    BY DEF IInv, TSOInv
  <2>2. PICK r \in Req : AddTS(r)
    BY <2>1, ObjectsGrow
  <2>3. /\ reply[r] = None /\ reply' = [reply EXCEPT ![r] = reply'[r]]
        /\ reply'[r] \in Object
    BY <2>1, <2>2, AddAnswers
  <2>4. ASSUME NEW g \in Req, reply[g] # None
        PROVE  Oracle!Disjoint(reply'[r], Count[r], reply[g], Count[g])
    <3>1. /\ g # r /\ reply'[g] = reply[g]
          /\ Exceeds(r, g)' \/ Exceeds(g, r)'
      BY <2>2, <2>4, NewAnswer
    <3>2. reply[g] \in Object
      BY <2>1, <2>4 DEF TypeOK
    <3>3. /\ reply'[r].physical \in Nat /\ reply'[r].logical \in Nat
          /\ reply[g].physical \in Nat /\ reply[g].logical \in Nat
          /\ Count[r] \in Nat /\ Count[g] \in Nat
      BY <2>3, <3>2, RequestAssumption DEF Object
    <3> QED
      BY <3>1, <3>3 DEF Exceeds, Oracle!Disjoint
  <2>5. reply'[r] \in Oracle!Timestamp
    BY <2>3 DEF Oracle!Timestamp, Object
  <2> QED
    BY <2>3, <2>4, <2>5 DEF Oracle!Next, Oracle!Answer
<1> QED
  BY <1>1, <1>2, InitIInv, NextIInv, PTL DEF Spec, OracleSpec, Oracle!Spec
============================================================================
