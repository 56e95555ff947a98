----------------------------- MODULE Operators -----------------------------
(***************************************************************************)
(* The operators of server/schedule/operator.go: their steps, when a step  *)
(* is finished, what it does to the load of the stores, and the functions  *)
(* that put operators together.                                            *)
(*                                                                         *)
(* A region is a record: its peers are a function from the stores that     *)
(* hold one to [id, learner], its leader and its pending and down peers    *)
(* are given by their stores.  A cluster is a record with the stores, the  *)
(* stores whose label rejects leaders, and whether raft learners are       *)
(* enabled.  Where the code ranges over a Go map, or over a list whose     *)
(* order TiKV chose, a builder returns the SET of the operators it can     *)
(* build; the empty set stands for an error or for nil.                    *)
(***************************************************************************)
EXTENDS Integers, Sequences, FiniteSets, SequencesExt

CONSTANT NoStore                      \* the store of a nil leader

RegionInfluence      == 1000
smallRegionInfluence == 200
smallRegionThreshold == 20
EmptyRegionApproximateSize == 1

-----------------------------------------------------------------------------
(* The steps. *)

TransferLeader(from, to)  == [type |-> "TransferLeader", from |-> from, to |-> to]
AddPeer(to, id)           == [type |-> "AddPeer", to |-> to, id |-> id]
AddLearner(to, id)        == [type |-> "AddLearner", to |-> to, id |-> id]
AddLightPeer(to, id)      == [type |-> "AddLightPeer", to |-> to, id |-> id]
AddLightLearner(to, id)   == [type |-> "AddLightLearner", to |-> to, id |-> id]
PromoteLearner(to, id)    == [type |-> "PromoteLearner", to |-> to, id |-> id]
RemovePeer(from)          == [type |-> "RemovePeer", from |-> from]
MergeRegion(from, to, passive) ==
  [type |-> "MergeRegion", source |-> from.id, target |-> to.id,
   start |-> to.start, end |-> to.end, passive |-> passive]
SplitRegion(region) ==
  [type |-> "SplitRegion", start |-> region.start, end |-> region.end]

GetStorePeer(region, s)    == s \in DOMAIN region.peers
GetStoreVoter(region, s)   == GetStorePeer(region, s) /\ ~region.peers[s].learner
GetStoreLearner(region, s) == GetStorePeer(region, s) /\ region.peers[s].learner
GetLearners(region)        == {s \in DOMAIN region.peers : region.peers[s].learner}
GetFollowers(region) ==
  {s \in DOMAIN region.peers : ~region.peers[s].learner /\ s # region.leader}

(* A peer is there in its role, under the id the step gave it, and has     *)
(* caught up.                                                              *)
added(region, step, learner) ==
  /\ GetStorePeer(region, step.to)
  /\ region.peers[step.to] = [id |-> step.id, learner |-> learner]
  /\ step.to \notin region.pending

IsFinish(step, region) ==
  CASE step.type = "TransferLeader" -> region.leader = step.to
    [] step.type \in {"AddPeer", "AddLightPeer"} -> added(region, step, FALSE)
    [] step.type \in {"AddLearner", "AddLightLearner"} -> added(region, step, TRUE)
    [] step.type = "PromoteLearner" ->
         GetStoreVoter(region, step.to) /\ region.peers[step.to].id = step.id
    [] step.type = "RemovePeer" -> ~GetStorePeer(region, step.from)
    [] step.type = "MergeRegion" ->
         step.passive /\ (region.start # step.start \/ region.end # step.end)
    [] step.type = "SplitRegion" ->
         region.start # step.start \/ region.end # step.end

(* Influence: what one step adds to the counters of store s. *)
Nothing == [RegionSize |-> 0, RegionCount |-> 0, LeaderSize |-> 0,
            LeaderCount |-> 0, StepCost |-> 0]

stepCost(size) == CASE size > smallRegionThreshold -> RegionInfluence
                    [] size <= smallRegionThreshold
                         /\ size > EmptyRegionApproximateSize -> smallRegionInfluence
                    [] OTHER -> 0

Influence(step, region, s) ==
  LET size == region.size
      lead == IF s = region.leader THEN 1 ELSE 0
  IN  CASE step.type = "TransferLeader" ->
             \* a store that is both ends loses and gains the same
             LET d == (IF s = step.to THEN 1 ELSE 0) - (IF s = step.from THEN 1 ELSE 0)
             IN  [Nothing EXCEPT !.LeaderSize = d * size, !.LeaderCount = d]
        [] step.type \in {"AddPeer", "AddLearner"} /\ s = step.to ->
             [Nothing EXCEPT !.RegionSize = size, !.RegionCount = 1,
                             !.StepCost = stepCost(size)]
        [] step.type \in {"AddLightPeer", "AddLightLearner"} /\ s = step.to ->
             [Nothing EXCEPT !.RegionSize = size, !.RegionCount = 1]
        [] step.type = "RemovePeer" /\ s = step.from ->
             [Nothing EXCEPT !.RegionSize = -size, !.RegionCount = -1]
        [] step.type = "MergeRegion" /\ step.passive /\ GetStorePeer(region, s) ->
             [Nothing EXCEPT !.RegionCount = -1, !.LeaderCount = -lead]
        [] step.type = "SplitRegion" /\ GetStorePeer(region, s) ->
             [Nothing EXCEPT !.RegionCount = 1, !.LeaderCount = lead]
        [] OTHER -> Nothing

-----------------------------------------------------------------------------
(* The operator: NewOperator, Check, IsFinish, and its influence. *)

NewOperator(desc, region, kind, steps) ==
  [desc |-> desc, region |-> region.id, epoch |-> region.epoch, kind |-> kind,
   steps |-> steps, currentStep |-> 1, level |-> 1]

(* Check passes over the finished steps from the current one on; what it   *)
(* returns is the step at the resulting position, nil behind the last.     *)
Check(op, region) ==
  LET unfinished == {i \in op.currentStep .. Len(op.steps) : ~IsFinish(op.steps[i], region)}
  IN  IF unfinished = {} THEN Len(op.steps) + 1
      ELSE CHOOSE i \in unfinished : \A j \in unfinished : i <= j

OpIsFinish(op) == op.currentStep > Len(op.steps)

sumInfluence(steps, region, s) ==
  FoldLeft(LAMBDA acc, step :
             LET i == Influence(step, region, s)
             IN  [f \in DOMAIN acc |-> acc[f] + i[f]],
           Nothing, steps)

TotalInfluence(op, region, s) == sumInfluence(op.steps, region, s)

UnfinishedInfluence(op, region, s) ==
  sumInfluence(SelectSeq(SubSeq(op.steps, op.currentStep, Len(op.steps)),
                         LAMBDA step : ~IsFinish(step, region)), region, s)

(* The pairs of stores History logs for a completed operator. *)
History(op) ==
  LET from(p) == [i \in DOMAIN p |-> p[i].from]
      to(p)   == [i \in DOMAIN p |-> p[i].to]
      adds    == to(SelectSeq(op.steps, LAMBDA st : st.type \in
                   {"AddPeer", "AddLightPeer", "AddLearner", "AddLightLearner"}))
      removes == from(SelectSeq(op.steps, LAMBDA st : st.type = "RemovePeer"))
  IN  {[kind |-> "leader", from |-> st.from, to |-> st.to] :
         st \in {x \in ToSet(op.steps) : x.type = "TransferLeader"}}
      \cup {[kind |-> "region", from |-> removes[i], to |-> adds[i]] :
              i \in {j \in DOMAIN adds : j \in DOMAIN removes}}

-----------------------------------------------------------------------------
(* The builders.  id is what AllocPeer returned for the new peer; where    *)
(* several peers are allocated it is a function of their stores.           *)

CreateAddPeerSteps(cluster, to, id) ==
  IF cluster.learnerEnabled THEN <<AddLearner(to, id), PromoteLearner(to, id)>>
                            ELSE <<AddPeer(to, id)>>

CreateAddLightPeerSteps(cluster, to, id) ==
  IF cluster.learnerEnabled THEN <<AddLightLearner(to, id), PromoteLearner(to, id)>>
                            ELSE <<AddLightPeer(to, id)>>

(* removePeerSteps without the transfer of the leadership. *)
RemoveAtOnce(cluster, region, store, candidates) ==
  {[kind |-> {"region"}, steps |-> <<RemovePeer(store)>>]}

(* removePeerSteps hands the leadership to one of the candidates before it *)
(* removes the leader; the candidates are visited in any order.            *)
removePeerSteps(cluster, region, store, candidates) ==
  IF region.leader # store
  THEN {[kind |-> {"region"}, steps |-> <<RemovePeer(store)>>]}
  ELSE {[kind  |-> {"leader", "region"},
         steps |-> <<TransferLeader(store, c), RemovePeer(store)>>] :
          c \in {c \in candidates \cap DOMAIN cluster.stores :
                   ~cluster.stores[c].rejectLeader}}

CreateAddPeerOperator(desc, cluster, region, id, to, kind) ==
  NewOperator(desc, region, kind \cup {"region"}, CreateAddPeerSteps(cluster, to, id))

CreateAddLearnerOperator(desc, region, id, to, kind) ==
  NewOperator(desc, region, kind \cup {"region"}, <<AddLearner(to, id)>>)

CreatePromoteLearnerOperator(desc, region, store) ==
  NewOperator(desc, region, {"region"}, <<PromoteLearner(store, region.peers[store].id)>>)

CreateTransferLeaderOperator(desc, region, from, to, kind) ==
  NewOperator(desc, region, kind \cup {"leader"}, <<TransferLeader(from, to)>>)

CreateSplitRegionOperator(desc, region, kind) ==
  NewOperator(desc, region, kind, <<SplitRegion(region)>>)

CreateRemovePeerOperator(desc, cluster, kind, region, store) ==
  {NewOperator(desc, region, rm.kind \cup kind, rm.steps) :
     rm \in removePeerSteps(cluster, region, store, GetFollowers(region))}

(* CreateMovePeerOperator with the removal first. *)
RemoveThenAdd(desc, cluster, region, kind, old, new, id) ==
  {NewOperator(desc, region, rm.kind \cup kind \cup {"region"},
               rm.steps \o CreateAddPeerSteps(cluster, new, id)) :
     rm \in removePeerSteps(cluster, region, old, GetFollowers(region))}

CreateMovePeerOperator(desc, cluster, region, kind, old, new, id) ==
  {NewOperator(desc, region, rm.kind \cup kind \cup {"region"},
               CreateAddPeerSteps(cluster, new, id) \o rm.steps) :
     rm \in removePeerSteps(cluster, region, old, GetFollowers(region) \cup {new})}

CreateMoveLeaderOperator(desc, cluster, region, kind, old, new, id) ==
  {NewOperator(desc, region, rm.kind \cup kind \cup {"leader", "region"},
               CreateAddPeerSteps(cluster, new, id)
                 \o <<TransferLeader(old, new)>> \o rm.steps) :
     rm \in removePeerSteps(cluster, region, old, {new})}

(* CreateMoveRegionOperator adds what is missing, then removes what is not *)
(* wanted; a leader to be removed first hands over to any wanted store.    *)
CreateMoveRegionOperator(desc, cluster, region, kind, wanted, id) ==
  LET adds(order) ==
        FlattenSeq([i \in DOMAIN order |->
                      CreateAddPeerSteps(cluster, order[i], id[order[i]])])
      removes(order, t) ==
        FlattenSeq([i \in DOMAIN order |->
                      IF order[i] = region.leader
                      THEN <<TransferLeader(order[i], t), RemovePeer(order[i])>>
                      ELSE <<RemovePeer(order[i])>>])
  IN  {NewOperator(desc, region, kind \cup {"region"}, adds(a) \o removes(r, t)) :
         a \in SetToSeqs(wanted \ DOMAIN region.peers),
         r \in SetToSeqs(DOMAIN region.peers \ wanted),
         t \in wanted}

(* matchPeerSteps moves source's peers onto target's stores, one added for *)
(* one removed.  The leader stays if it is on a common store, goes to a    *)
(* common store if there is one, and otherwise to the first peer added,    *)
(* being itself the last one removed.                                      *)
matchPeerSteps(cluster, source, target, id) ==
  LET common == DOMAIN source.peers \cap DOMAIN target.peers
      swap(a, r) ==
        FlattenSeq([i \in DOMAIN r |->
                      Append(CreateAddPeerSteps(cluster, a[i], id[a[i]]), RemovePeer(r[i]))])
      adds    == SetToSeqs(DOMAIN target.peers \ common)
      removes == DOMAIN source.peers \ common
      moved   == IF removes = {} THEN {} ELSE {"region"}
      lead    == source.leader
  IN  IF Cardinality(DOMAIN source.peers) # Cardinality(DOMAIN target.peers) THEN {}
      ELSE IF lead \in common
      THEN {[kind |-> moved, steps |-> swap(a, r)] : a \in adds, r \in SetToSeqs(removes)}
      ELSE IF common # {}
      THEN {[kind  |-> moved \cup {"leader"},
             steps |-> <<TransferLeader(lead, t)>> \o swap(a, r)] :
              a \in adds, r \in SetToSeqs(removes), t \in common}
      ELSE {[kind  |-> {"leader", "region"},
             steps |-> swap(a, r)
                       \o CreateAddPeerSteps(cluster, a[Len(a)], id[a[Len(a)]])
                       \o <<TransferLeader(lead, a[1]), RemovePeer(lead)>>] :
              a \in adds, r \in SetToSeqs(removes \ {lead})}

(* Two operators, the passive one only to keep the target occupied. *)
CreateMergeRegionOperator(desc, cluster, source, target, kind, id) ==
  {LET k == m.kind \cup kind \cup {"merge"}
   IN  <<NewOperator(desc, source, k, Append(m.steps, MergeRegion(source, target, FALSE))),
         NewOperator(desc, target, k, <<MergeRegion(source, target, TRUE)>>)>> :
     m \in matchPeerSteps(cluster, source, target, id)}

(* CreateScatterRegionOperator: moves maps every old store to the store    *)
(* its peer goes to.  A random target is the leader to be; a new one gets  *)
(* the leadership only at the end, and the old leader's peer is among the  *)
(* last to go.                                                             *)
CreateScatterRegionOperator(desc, cluster, region, moves, id) ==
  LET old   == DOMAIN region.peers
      lead  == region.leader
      add(s)  == CreateAddLightPeerSteps(cluster, moves[s], id[moves[s]])
      flat(order, Steps(_)) == FlattenSeq([i \in DOMAIN order |-> Steps(order[i])])
      op(s, order) ==
        LET to     == moves[s]
            others == SelectSeq(order, LAMBDA o : o # s /\ moves[o] \notin old)
            first  == IF to \notin old THEN add(s)
                      ELSE IF to # lead THEN <<TransferLeader(lead, to)>> ELSE <<>>
            last   == IF to \notin old
                      THEN <<TransferLeader(lead, to), RemovePeer(s)>> ELSE <<>>
            middle == SelectSeq(others, LAMBDA o : o # lead)
            defer  == SelectSeq(others, LAMBDA o : o = lead)
            swap(o) == Append(add(o), RemovePeer(o))
        IN  NewOperator(desc, region,
              (IF to # lead \/ defer # <<>> THEN {"leader"} ELSE {})
                \cup (IF to \notin old \/ others # <<>> THEN {"region"} ELSE {}),
              first \o flat(middle, swap) \o last \o flat(defer, swap))
  IN  {op(s, order) : s \in {s \in old : ~(moves[s] = lead /\ \A o \in old : moves[o] \in old)},
                      order \in SetToSeqs(old)}

(* No leadership moves from or to a store after its peer was removed. *)
CheckOperatorValid(op) ==
  \A i, j \in DOMAIN op.steps :
    i < j /\ op.steps[i].type = "RemovePeer" /\ op.steps[j].type = "TransferLeader"
      => op.steps[i].from \notin {op.steps[j].from, op.steps[j].to}
=============================================================================
