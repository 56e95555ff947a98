------------------------- MODULE OperatorController -------------------------
(***************************************************************************)
(* server/schedule/operator_controller.go with its waiting operators and   *)
(* its notifier queue, the heartbeat streams that carry its commands, and  *)
(* the goroutines that work on one operator at the same time:              *)
(*   - one goroutine for the heartbeats of each store's stream, and the    *)
(*     ticker of PushOperators: all run Dispatch, which locks the          *)
(*     controller only inside the calls it makes, on the region they have  *)
(*     in hand, which others may have seen newer;                          *)
(*   - schedulers and checkers, which put operators to wait, and the       *)
(*     administrator, who adds and removes them at once;                   *)
(*   - checkOperators, the background job that collects the operators of   *)
(*     merged regions and the expired ones.                                *)
(* An operator is a shared object: op maps its number to its record, with  *)
(* whether it was started.                                                 *)
(***************************************************************************)
EXTENDS Operators, TLC

CONSTANTS
  Region, Store,
  MaxOps,            \* operators created in one behaviour
  MaxMsgs,           \* commands of one region under way
  MaxBeats,          \* heartbeats in the hands of goroutines at a time
  MaxWaiting,        \* GetSchedulerMaxWaitingOperator
  InitRegion,        \* [Region -> region record]
  Proposals(_, _)    \* what schedulers, checkers and handlers may propose

ASSUME ControllerAssumption ==
  /\ MaxOps \in Nat /\ MaxMsgs \in Nat /\ MaxBeats \in Nat
  /\ DOMAIN InitRegion = Region
  /\ \A r \in Region : "id" \in DOMAIN InitRegion[r] /\ InitRegion[r].id = r

VARIABLES
  tikv,        \* [Region -> region record], Gone once merged away (external)
  cache,       \* the regions the controller reads from the cluster
  op,          \* sequence of all operators ever created
  operators,   \* [Region -> number of the running operator, 0 for none]
  overdue,     \* regions whose running operator has run for too long
  slipped,     \* ghost: regions whose running operator had its step set back,
               \* or that left the cache while it ran
  wop,         \* [level -> sequence of waiting operators]
  wopStatus,   \* [desc -> count of waiting operators]
  queue,       \* the operators with an item in opNotifierQueue
  msgs,        \* [Region -> commands in msgCh and on the streams]
  disp,        \* [Goroutine -> where it stands, with the region in its hand]
  promoting,   \* goroutines about to call PromoteWaitingOperator
  removing,    \* operators found by RemoveOperator's callers, not yet removed
  hand         \* the operators an author is about to add, waiting or not

vars == <<tikv, cache, op, operators, overdue, slipped, wop, wopStatus, queue,
          msgs, disp, promoting, removing, hand>>
age == <<overdue, slipped>>

Gone  == [id |-> 0]
Level == 0 .. 2
Descs == {"replica", "merge", "admin"}
Idle  == [pc |-> "idle"]
NoHand == [os |-> <<>>]

(* The goroutine of a store's heartbeat stream, and that of the ticker. *)
Stream(s) == <<"stream", s>>
Pusher == <<"push">>
Goroutine == {Stream(s) : s \in Store} \cup {Pusher}

-----------------------------------------------------------------------------
(* What the controller computes from its state. *)

(* Mutant: only operators that move regions time out. *)
RegionTimeout(o) ==
  "region" \in op[o].kind /\ ~OpIsFinish(op[o]) /\ op[o].started /\ op[o].region \in overdue

(* Of an operator that runs. *)
IsTimeout(o) == ~OpIsFinish(op[o]) /\ op[o].started /\ op[o].region \in overdue

cost(os, s) ==
  FoldLeft(LAMBDA acc, o :
             acc + (IF cache[op[o].region] = Gone THEN 0
                    ELSE TotalInfluence(op[o], cache[op[o].region], s).StepCost), 0, os)

(* exceedStoreLimit: operators that cost a store something may find too    *)
(* few tokens left in the store's bucket (external: juju/ratelimit), the   *)
(* others never do.                                                        *)
exceedStoreLimit(os) == IF \E s \in Store : cost(os, s) # 0 THEN BOOLEAN ELSE {FALSE}

isHigherPriorityOperator(new, old) == op[new].level > op[old].level

checkAddOperator(os) ==
  \A i \in DOMAIN os :
    LET r == op[os[i]].region
    IN  /\ cache[r] # Gone
        /\ cache[r].epoch = op[os[i]].epoch
        /\ operators[r] # 0 => isHigherPriorityOperator(os[i], operators[r])

(* SendScheduleCommand: the message for a step, none for a peer that is    *)
(* there already, for the passive half of a merge, or without a leader.    *)
SendScheduleCommand(region, step) ==
  IF \/ region.leader = NoStore
     \/ /\ step.type \in {"AddPeer", "AddLightPeer", "AddLearner", "AddLightLearner"}
        /\ GetStorePeer(region, step.to)
     \/ step.type = "MergeRegion" /\ step.passive
  THEN <<>>
  ELSE <<[epoch |-> region.epoch, leader |-> region.leader, step |-> step]>>

(* The ticker holds the lock of the controller while it polls. *)
Locked == disp[Pusher].pc = "poll"

(* op.SetStartTime, and the position Check leaves the operator at. *)
(* Mutant: the start time stays zero. *)
StartTimeUnset(o, pos) == [op[o] EXCEPT !.currentStep = pos]
start(o, pos) == [op[o] EXCEPT !.started = TRUE, !.currentStep = pos]

(* heap.Push on opNotifierQueue. *)
(* Mutant: only the first operator is queued. *)
NotifyFirst(os) == queue \cup {os[1]}
notify(os) == queue \cup ToSet(os)

(* addOperatorLocked for each of the operators os: replace, start, send    *)
(* the first command, queue for pushing.                                   *)
addOperatorLocked(os) ==
  LET new(r)   == {o \in ToSet(os) : op[o].region = r}
      fresh(r) == CHOOSE o \in new(r) : TRUE
      pos(o)   == Check(op[o], cache[op[o].region])
      cmd(o)   == IF pos(o) > Len(op[o].steps) THEN <<>>
                  ELSE SendScheduleCommand(cache[op[o].region], op[o].steps[pos(o)])
  IN  /\ \A r \in Region : new(r) # {} => Len(msgs[r] \o cmd(fresh(r))) <= MaxMsgs
      /\ operators' = [r \in Region |-> IF new(r) = {} THEN operators[r] ELSE fresh(r)]
      /\ op' = [o \in DOMAIN op |->
                  IF o \in ToSet(os) THEN start(o, pos(o)) ELSE op[o]]
      /\ overdue' = {r \in overdue : new(r) = {}}
      /\ slipped' = {r \in slipped : new(r) = {}}
      /\ queue' = notify(os)
      /\ msgs' = [r \in Region |-> IF new(r) = {} THEN msgs[r]
                                   ELSE msgs[r] \o cmd(fresh(r))]

(* removeOperatorLocked deletes whatever runs on the operator's region. *)
removeOperatorLocked(o) ==
  /\ operators' = [operators EXCEPT ![op[o].region] = 0]
  /\ overdue' = overdue \ {op[o].region}
  /\ slipped' = slipped \ {op[o].region}

-----------------------------------------------------------------------------
Init ==
  /\ tikv = InitRegion /\ cache = InitRegion
  /\ op = <<>> /\ operators = [r \in Region |-> 0]
  /\ overdue = {} /\ slipped = {}
  /\ wop = [l \in Level |-> <<>>] /\ wopStatus = [d \in Descs |-> 0]
  /\ queue = {}
  /\ msgs = [r \in Region |-> <<>>]
  /\ disp = [d \in Goroutine |-> Idle]
  /\ promoting = 0 /\ removing = {}
  /\ hand = NoHand

-----------------------------------------------------------------------------
(* Adding operators.  The author of an operator (scheduler, checker or     *)
(* handler) builds it from the cached regions and offers it later, when    *)
(* the regions may have changed.                                           *)

(* What NewOperator fills in, with the priority an author may set. *)
authored(o) ==
  /\ DOMAIN o = {"desc", "region", "epoch", "kind", "steps", "currentStep", "level"}
  /\ o.region \in Region /\ o.desc \in Descs /\ o.level \in Level
  /\ Len(o.steps) \in Nat /\ o.currentStep = 1

(* The two operators CreateMergeRegionOperator returns: the active one, and *)
(* the passive one that keeps the target occupied.                          *)
mergeHalves(a, b) ==
  LET active  == Last(a.steps)
      passive == Last(b.steps)
  IN  /\ "merge" \in a.kind /\ "merge" \in b.kind /\ a.level = b.level
      /\ a.steps # <<>> /\ b.steps # <<>>
      /\ "passive" \in DOMAIN active /\ active = [passive EXCEPT !.passive = FALSE]
      /\ passive = [active EXCEPT !.passive = TRUE]

(* Every author offers a single operator that is no merge, or the two of a  *)
(* merge: no scheduler, checker or handler makes a longer list.             *)
wellFormed(ops) ==
  /\ authored(ops[1])
  /\ IF "merge" \in ops[1].kind
     THEN ops = <<ops[1], ops[2]>> /\ authored(ops[2]) /\ mergeHalves(ops[1], ops[2])
     ELSE ops = <<ops[1]>>

(* An operator as it comes into being. *)
created(o) ==
  [f \in DOMAIN o \cup {"started"} |-> IF f \in DOMAIN o THEN o[f] ELSE FALSE]

Propose ==
  /\ hand = NoHand
  /\ \E p \in Proposals(cache, op) :
       /\ wellFormed(p.ops)
       /\ Len(op) + Len(p.ops) <= MaxOps
       /\ op' = op \o [i \in DOMAIN p.ops |-> created(p.ops[i])]
       /\ hand' = [os |-> [i \in DOMAIN p.ops |-> Len(op) + i], wait |-> p.wait]
  /\ UNCHANGED <<tikv, cache, operators, age, wop, wopStatus, queue,
                 msgs, disp, promoting, removing>>

addable(os) == {~exceeded /\ checkAddOperator(os) : exceeded \in exceedStoreLimit(os)}

(* AddOperator: start at once, or cancel. *)
AddOperator ==
  /\ ~Locked
  /\ hand # NoHand /\ ~hand.wait
  /\ \/ TRUE \in addable(hand.os) /\ addOperatorLocked(hand.os)
     \/ FALSE \in addable(hand.os) /\ UNCHANGED <<operators, age, op, queue, msgs>>
  /\ hand' = NoHand
  /\ UNCHANGED <<tikv, cache, wop, wopStatus, disp, promoting, removing>>

(* AddWaitingOperator up to its Unlock; the promotion follows. *)
AddWaitingOperator ==
  /\ ~Locked
  /\ hand # NoHand /\ hand.wait
  /\ hand' = NoHand
  /\ LET os == hand.os
         l  == op[os[1]].level
         d  == op[os[1]].desc
     IN  IF checkAddOperator(os) /\ wopStatus[d] < MaxWaiting
         THEN /\ wop' = [wop EXCEPT ![l] = @ \o os]
              /\ wopStatus' = [wopStatus EXCEPT ![d] = @ + 1]
              /\ promoting' = promoting + 1
         ELSE UNCHANGED <<wop, wopStatus, promoting>>
  /\ UNCHANGED <<tikv, cache, op, operators, age, queue, msgs, disp, removing>>

(* RandBuckets.GetOperator: the head of any non-empty bucket, with the one *)
(* behind it for a merge.                                                  *)
(* Mutant: the second half of a merge is left behind. *)
PopOne(l) == SubSeq(wop[l], 1, 1)
GetOperator(l) ==
  IF "merge" \in op[wop[l][1]].kind THEN SubSeq(wop[l], 1, 2) ELSE SubSeq(wop[l], 1, 1)

drop(l, os) == wop' = [wop EXCEPT ![l] = SubSeq(@, Len(os) + 1, Len(@))]
(* Mutant: a merge is counted off twice. *)
LeaveEach(os) == wopStatus' = [wopStatus EXCEPT ![op[os[1]].desc] = @ - Len(os)]
leave(os)   == wopStatus' = [wopStatus EXCEPT ![op[os[1]].desc] = @ - 1]

(* One turn of the loop of PromoteWaitingOperator: cancel and go on, start *)
(* and stop, or find nothing.  The lock is held over the whole loop, but a *)
(* cancelled operator touches nothing another action reads.                *)
PromoteCancel ==
  \E l \in Level :
    /\ wop[l] # <<>>
    /\ LET os == GetOperator(l)
       IN  /\ FALSE \in addable(os)
           /\ drop(l, os) /\ leave(os)
    /\ UNCHANGED <<operators, age, op, queue, msgs>>

PromoteStart ==
  \E l \in Level :
    /\ wop[l] # <<>>
    /\ LET os == GetOperator(l)
       IN  /\ TRUE \in addable(os)
           /\ addOperatorLocked(os)
           /\ drop(l, os) /\ leave(os)

PromoteNothing ==
  /\ \A l \in Level : wop[l] = <<>>
  /\ UNCHANGED <<operators, age, op, queue, msgs, wop, wopStatus>>

PromoteWaitingOperator ==
  /\ ~Locked /\ promoting > 0
  /\ \/ PromoteCancel /\ UNCHANGED promoting
     \/ (PromoteStart \/ PromoteNothing) /\ promoting' = promoting - 1
  /\ UNCHANGED <<tikv, cache, disp, removing, hand>>

-----------------------------------------------------------------------------
(* Heartbeats, PushOperators and the Dispatch of both. *)

Overlap(t, u) == t.start < u.end /\ u.start < t.end
(* The cached regions that t takes the range of. *)
overlaps(t) == {q \in Region \ {t.id} : cache[q] # Gone /\ Overlap(t, cache[q])}

(* ErrRegionIsStale. *)
isStale(t) ==
  IF cache[t.id] = Gone THEN \E q \in overlaps(t) : t.epoch[2] < cache[q].epoch[2]
  ELSE \E f \in 1 .. 2 : t.epoch[f] < cache[t.id].epoch[f]

(* What the heartbeat brings is worth a put. *)
saveCache(t) == cache[t.id] # t \/ t.pending # {} \/ t.down # {}

(* A heartbeat of region r comes on the stream of its leader's store and   *)
(* passes handleRegionHeartbeat's comparison with the cache.  The put      *)
(* takes the lock of the cache later, when another stream's may have come  *)
(* first.                                                                  *)
RegionHeartbeat(r) ==
  LET t == tikv[r]
      g == Stream(t.leader)
  IN  /\ t # Gone
      /\ g \in Goroutine /\ disp[g] = Idle
      /\ Cardinality({d \in Goroutine \ {Pusher} : disp[d] # Idle}) < MaxBeats
      /\ ~isStale(t)
      /\ disp' = [disp EXCEPT ![g] = [pc |-> IF saveCache(t) THEN "put" ELSE "begin", region |-> t]]
      /\ UNCHANGED <<tikv, cache, op, operators, age, wop, wopStatus, queue, msgs,
                     promoting, removing, hand>>

(* SetRegion: the regions it overlaps leave the cache. *)
HeartbeatPut(g) ==
  /\ disp[g].pc = "put"
  /\ LET t == disp[g].region
         out == overlaps(t)
     IN  /\ cache' = [q \in Region |-> IF q = t.id THEN t ELSE IF q \in out THEN Gone ELSE cache[q]]
         /\ slipped' = slipped \cup {q \in out : operators[q] # 0}
  /\ disp' = [disp EXCEPT ![g].pc = "begin"]
  /\ UNCHANGED <<tikv, op, operators, overdue, wop, wopStatus, queue, msgs, promoting, removing, hand>>

(* Dispatch begins: GetOperator, IsTimeout and the load of currentStep. *)
Dispatch(g) ==
  LET t == disp[g].region
      o == operators[t.id]
  IN  /\ disp[g].pc = "begin" /\ ~Locked
      /\ disp' = [disp EXCEPT ![g] =
                    IF o = 0 THEN Idle
                    ELSE [pc |-> "check", region |-> t, o |-> o, timeout |-> IsTimeout(o),
                          step |-> op[o].currentStep]]
      /\ UNCHANGED <<tikv, cache, op, operators, age, wop, wopStatus, queue, msgs,
                     promoting, removing, hand>>

(* Operator.Check goes on from the step it loaded, and stores the one it   *)
(* comes to, whatever another goroutine has stored since.                  *)
checked(g) == Check([op[disp[g].o] EXCEPT !.currentStep = disp[g].step], disp[g].region)
stored(g) ==
  LET o   == disp[g].o
      r   == op[o].region
      pos == checked(g)
  IN  IF pos = disp[g].step THEN UNCHANGED <<op, slipped>>
      ELSE /\ op' = [op EXCEPT ![o].currentStep = pos]
           /\ slipped' = IF operators[r] = o /\ pos < op[o].currentStep
                         THEN slipped \cup {r} ELSE slipped

(* One turn of PushOperators takes an item, under the lock.  It goes for   *)
(* good when nothing runs on its region or the region is gone.             *)
pollNeedDispatchRegion ==
  /\ disp[Pusher] = Idle
  /\ \E item \in queue :
       LET r == op[item].region
           o == operators[r]
       IN  IF o = 0 \/ cache[r] = Gone
           THEN queue' = queue \ {item} /\ UNCHANGED disp
           ELSE /\ disp' = [disp EXCEPT ![Pusher] =
                              [pc |-> "poll", item |-> item, region |-> cache[r], o |-> o,
                               step |-> op[o].currentStep]]
                /\ UNCHANGED queue
  /\ UNCHANGED <<tikv, cache, op, operators, age, wop, wopStatus, msgs, promoting, removing, hand>>

(* It goes also when Check finds the operator finished; otherwise it       *)
(* stays, and if its time has come the region is dispatched.               *)
pollCheck ==
  /\ Locked
  /\ stored(Pusher)
  /\ IF checked(Pusher) > Len(op[disp[Pusher].o].steps)
     THEN queue' = queue \ {disp[Pusher].item} /\ disp' = [disp EXCEPT ![Pusher] = Idle]
     ELSE /\ UNCHANGED queue
          /\ \/ disp' = [disp EXCEPT ![Pusher] = [pc |-> "begin", region |-> disp[Pusher].region]]
             \/ disp' = [disp EXCEPT ![Pusher] = Idle]          \* not due yet
  /\ UNCHANGED <<tikv, cache, operators, overdue, wop, wopStatus, msgs, promoting, removing, hand>>

(* Dispatch's Check.  Then the command is sent, or the operator is about   *)
(* to be removed.                                                          *)
DispatchCheck(d) ==
  /\ disp[d].pc = "check"
  /\ LET o    == disp[d].o
         reg  == disp[d].region
         pos  == checked(d)
         next == pos <= Len(op[o].steps) /\ ~disp[d].timeout
         cmd  == IF next THEN SendScheduleCommand(reg, op[o].steps[pos]) ELSE <<>>
     IN  /\ stored(d)
         /\ Len(msgs[reg.id] \o cmd) <= MaxMsgs
         /\ msgs' = [msgs EXCEPT ![reg.id] = @ \o cmd]
         /\ disp' = [disp EXCEPT ![d] =
                       IF ~next /\ (OpIsFinish(op'[o]) \/ disp[d].timeout)
                       THEN [pc |-> "remove", o |-> o] ELSE Idle]
  /\ UNCHANGED <<tikv, cache, operators, overdue, wop, wopStatus, queue,
                 promoting, removing, hand>>

(* RemoveOperator or RemoveTimeoutOperator, then the promotion of a        *)
(* waiting operator.                                                       *)
DispatchRemove(d) ==
  /\ disp[d].pc = "remove" /\ ~Locked
  /\ removeOperatorLocked(disp[d].o)
  /\ disp' = [disp EXCEPT ![d] = Idle]
  /\ promoting' = promoting + 1
  /\ UNCHANGED <<tikv, cache, op, wop, wopStatus, queue, msgs, removing,
                 hand>>

-----------------------------------------------------------------------------
(* Removal by the administrator (Handler.RemoveOperator) and by            *)
(* checkOperators: each takes the operator first and removes it later.     *)
(* Bound: one such removal is under way at a time.                         *)

HandlerRemoveOperator(r) ==
  /\ ~Locked
  /\ operators[r] # 0 /\ removing = {}
  /\ removing' = removing \cup {operators[r]}
  /\ UNCHANGED <<tikv, cache, op, operators, age, wop, wopStatus, queue,
                 msgs, disp, promoting, hand>>

checkOperators(r) ==
  /\ ~Locked
  /\ operators[r] # 0 /\ removing = {}
  /\ cache[r] = Gone \/ IsTimeout(operators[r])
  /\ removing' = removing \cup {operators[r]}
  /\ UNCHANGED <<tikv, cache, op, operators, age, wop, wopStatus, queue,
                 msgs, disp, promoting, hand>>

RemoveOperator(o) ==
  /\ ~Locked /\ o \in removing
  /\ removing' = removing \ {o}
  /\ removeOperatorLocked(o)
  /\ UNCHANGED <<tikv, cache, op, wop, wopStatus, queue, msgs, disp,
                 promoting, hand>>

(* Ten seconds for a leader operator, ten minutes for a region operator;   *)
(* the age of one that no longer runs is never looked at again.            *)
Expire(o) ==
  /\ operators[op[o].region] = o /\ op[o].region \notin overdue
  /\ overdue' = overdue \cup {op[o].region}
  /\ UNCHANGED <<tikv, cache, op, operators, slipped, wop, wopStatus, queue, msgs,
                 disp, promoting, removing, hand>>

-----------------------------------------------------------------------------
(* The streams and TiKV (external). *)

(* heartbeatStreams.run takes a command from msgCh and sends it on the     *)
(* stream of the leader's store, or drops it for want of a stream.         *)
StreamDrop(r) ==
  /\ msgs[r] # <<>>
  /\ msgs' = [msgs EXCEPT ![r] = Tail(@)]
  /\ UNCHANGED <<tikv, cache, op, operators, age, wop, wopStatus, queue,
                 disp, promoting, removing, hand>>

(* TiKV accepts a command under the epoch and the leader it was meant for. *)
accepted(t, m) ==
  /\ t # Gone /\ t.epoch = m.epoch /\ t.leader = m.leader

bump(t, f) == [t EXCEPT !.epoch[f] = @ + 1]

(* The range of a region with that of a neighbour it takes over. *)
absorb(t, u) ==
  bump([t EXCEPT !.start = IF u.start < t.start THEN u.start ELSE t.start,
                 !.end = IF u.end > t.end THEN u.end ELSE t.end], 2)

(* What a command does to the region: one outcome, no effect if refused. *)
apply(t, st) ==
  CASE st.type = "TransferLeader" /\ GetStoreVoter(t, st.to) ->
         [t EXCEPT !.leader = st.to]
    [] st.type \in {"AddLearner", "AddLightLearner"} /\ ~GetStorePeer(t, st.to) ->
         bump([t EXCEPT !.peers = @ @@ (st.to :> [id |-> st.id, learner |-> TRUE]),
                        !.pending = @ \cup {st.to}], 1)
    [] st.type \in {"AddPeer", "AddLightPeer"} /\ ~GetStorePeer(t, st.to) ->
         bump([t EXCEPT !.peers = @ @@ (st.to :> [id |-> st.id, learner |-> FALSE]),
                        !.pending = @ \cup {st.to}], 1)
    [] st.type = "PromoteLearner" /\ GetStoreLearner(t, st.to) /\ t.peers[st.to].id = st.id ->
         bump([t EXCEPT !.peers[st.to].learner = FALSE], 1)
    [] st.type = "RemovePeer" /\ GetStorePeer(t, st.from) /\ t.leader # st.from ->
         bump([t EXCEPT !.peers = [s \in DOMAIN @ \ {st.from} |-> @[s]],
                        !.pending = @ \ {st.from}], 1)
    [] OTHER -> t

TiKVExecute(r) ==
  /\ msgs[r] # <<>>
  /\ LET m == Head(msgs[r])
         t == tikv[r]
     IN  /\ accepted(t, m)
         /\ IF m.step.type = "MergeRegion"
            THEN LET q == m.step.target
                 IN  /\ tikv[q] # Gone /\ DOMAIN tikv[q].peers = DOMAIN t.peers
                     /\ tikv' = [tikv EXCEPT ![r] = Gone, ![q] = absorb(tikv[q], t)]
            ELSE tikv' = [tikv EXCEPT ![r] = apply(t, m.step)]
  /\ msgs' = [msgs EXCEPT ![r] = Tail(@)]
  /\ UNCHANGED <<cache, op, operators, age, wop, wopStatus, queue, disp,
                 promoting, removing, hand>>

CatchUp(r) ==
  /\ tikv[r] # Gone /\ tikv[r].pending # {}
  /\ tikv' = [tikv EXCEPT ![r].pending = {}]
  /\ UNCHANGED <<cache, op, operators, age, wop, wopStatus, queue, msgs,
                 disp, promoting, removing, hand>>

-----------------------------------------------------------------------------
Next ==
  \/ Propose \/ AddOperator \/ AddWaitingOperator \/ PromoteWaitingOperator
  \/ pollNeedDispatchRegion \/ pollCheck
  \/ \E d \in Goroutine : HeartbeatPut(d) \/ Dispatch(d) \/ DispatchCheck(d) \/ DispatchRemove(d)
  \/ \E r \in Region : \/ RegionHeartbeat(r) \/ HandlerRemoveOperator(r) \/ checkOperators(r)
                       \/ StreamDrop(r) \/ TiKVExecute(r) \/ CatchUp(r)
  \/ \E o \in DOMAIN op : RemoveOperator(o) \/ Expire(o)

Spec == Init /\ [][Next]_vars
-----------------------------------------------------------------------------
(* Type invariant: operator numbers where numbers belong, counters in      *)
(* their bounds.                                                           *)
TypeOK ==
  /\ operators \in [Region -> 0 .. MaxOps]
  /\ \A r \in Region : operators[r] # 0 => op[operators[r]].region = r /\ op[operators[r]].started
  /\ overdue \cup slipped \subseteq {r \in Region : operators[r] # 0}
  /\ \A o \in DOMAIN op : op[o].currentStep \in 1 .. Len(op[o].steps) + 1
  /\ queue \cup removing \subseteq DOMAIN op
  /\ \A l \in Level : ToSet(wop[l]) \subseteq DOMAIN op
  /\ \A r \in Region : Len(msgs[r]) <= MaxMsgs

countedAs(o, d) ==
  op[o].desc = d /\ ("merge" \in op[o].kind => ~Last(op[o].steps).passive)

(* The waiting operators of one description are counted exactly, a merge   *)
(* as one, through adding, promotion and cancellation                      *)
(* (AddWaitingOperator raises wopStatus, PromoteWaitingOperator lowers it):*)
(* a count that drifts up stops a scheduler for good.                      *)
WaitingCounted ==
  \A d \in Descs :
    wopStatus[d] = Cardinality({t \in Level \X (1 .. MaxOps) :
                      t[2] \in DOMAIN wop[t[1]] /\ countedAs(wop[t[1]][t[2]], d)})

(* GetOperator takes the two halves of a merge from the head of a bucket   *)
(* by position: in every bucket the active half and its passive half stand *)
(* side by side, through every promotion and cancellation of those before. *)
MergeHalvesAdjacent ==
  \A l \in Level : \A i \in DOMAIN wop[l] :
    LET half(j) == Last(op[wop[l][j]].steps)
    IN  "merge" \in op[wop[l][i]].kind =>
          \E j \in DOMAIN wop[l] :
            /\ j = IF half(i).passive THEN i - 1 ELSE i + 1
            /\ half(j) = [half(i) EXCEPT !.passive = ~@]

(* An operator that runs unfinished has its item in the notifier queue, so *)
(* that one whose heartbeats are lost is still pushed to TiKV, whatever    *)
(* Add, Remove, poll and Check run between each other.  Left out are the   *)
(* operators that slipped: poll drops the item of an operator that it sees *)
(* finished or whose region it does not find, for good, and a Check on an  *)
(* older region may then set the position back (operator.go:433), or a     *)
(* heartbeat bring the region back; only heartbeats drive that operator.   *)
RunningIsPushed ==
  \A r \in Region :
    LET o == operators[r]
    IN  o # 0 /\ r \notin slipped => o \in queue \/ OpIsFinish(op[o])

(* Every running operator ends: it is finished and removed, times out, is  *)
(* replaced, or its region was merged away.  No more than MaxOps are ever  *)
(* created, so that in the end none runs.                                  *)
OperatorsEnd == []<>(\A r \in Region : operators[r] = 0)

(* Tickers go on, time passes, goroutines return.  A stream delivers the   *)
(* heartbeats of its regions in their order, so that none is passed over   *)
(* for ever while the goroutine is busy with another.                      *)
Background == \E r \in Region : \/ checkOperators(r)
                                \/ \E o \in removing : op[o].region = r /\ RemoveOperator(o)
Fairness ==
  /\ \A r \in Region : SF_vars(RegionHeartbeat(r))
  /\ SF_vars(Background)
  /\ WF_vars(\E r \in Region : StreamDrop(r))
  /\ \A s \in Store : LET g == Stream(s) IN
       WF_vars(HeartbeatPut(g) \/ Dispatch(g) \/ DispatchCheck(g) \/ DispatchRemove(g))
  /\ WF_vars(pollCheck)
  /\ WF_vars(\E o \in DOMAIN op : Expire(o))

FairSpec == Spec /\ Fairness
=============================================================================
