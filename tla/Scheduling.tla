------------------------------ MODULE Scheduling ------------------------------
(***************************************************************************)
(* The closed loop: the coordinator (server/coordinator.go) with its       *)
(* checkers and schedulers on one side, TiKV as the simulator has it on    *)
(* the other.  Each of the coordinator's goroutines is an action:          *)
(* patrolRegions, one runScheduler for every scheduler, readUserConfig;    *)
(* a region's heartbeat tells PD what the region is now and takes away     *)
(* the command of its operator's step, which the simulator carries out     *)
(* then or later: PD works on its cache, which is behind TiKV, and a       *)
(* command may outlive its operator.                                       *)
(*                                                                         *)
(* An operator goes from AddOperator or AddWaitingOperator to running in   *)
(* one step, under checkAddOperator; the waiting queue, the timeouts and   *)
(* the operators that two callers fight over are in OperatorController.    *)
(***************************************************************************)
EXTENDS SimCases, Handler

CONSTANTS
  Cases,      \* the names of the cases to start from
  CaseMap     \* the cases by name, in the form of SimCases

blocks(s) == s.type \in {"evict-leader", "grant-leader"}

(* A case starts after coordinator.run has added its schedulers: a store   *)
(* is blocked if Prepare of one of them, and only one, has blocked it.     *)
(* The stores that join later are not there yet.                           *)
ASSUME CaseAssumption ==
  \A c \in Cases :
    LET new == CaseMap[c]
    IN  /\ \A t \in DOMAIN new.stores :
             /\ "blocked" \in DOMAIN new.stores[t] /\ new.stores[t].blocked \in BOOLEAN
             /\ new.stores[t].blocked => \E n \in new.schedulers : blocks(n) /\ n.store = t
        /\ \A n \in new.schedulers :
             blocks(n) => n.store \in DOMAIN new.stores /\ new.stores[n.store].blocked
        /\ \A m, n \in new.schedulers : blocks(m) /\ blocks(n) /\ m.store = n.store => m = n
        /\ new.events.add \cap DOMAIN new.stores = {}

VARIABLES
  case,       \* the name of the case
  regions,    \* TiKV's regions (raftEngine.regionsInfo); one that was merged is Gone
  cache,      \* the regions as PD knows them
  tasks,      \* Node.tasks: the commands that are under way, by region
  running,    \* opController.operators
  stores,     \* the stores as PD knows them
  clones,     \* the clones of stores that requests are about to put back
  nodes,      \* the nodes that run
  sched,      \* coordinator.schedulers: scheduler |-> its memory
  stopping,   \* removed schedulers whose goroutine has not cleaned up
  selected,   \* the region scatterer's selected stores
  plugins,    \* PluginsMap
  now,        \* the time, in intervals of the user's rules
  pending,    \* the events that have not happened yet
  stray,      \* history: the regions that were not what an operator was made for
  lost        \* history: the stores of which a clone undid a Block or an Unblock

storing     == <<stores, clones, lost>>
coordinator == <<sched, stopping, selected, plugins, now>>
vars == <<case, regions, tasks, cache, running, stray, nodes, pending, storing, coordinator>>

this == CaseMap[case]

(* The cluster as checkers and schedulers see it. *)
Cluster ==
  [this.opt EXCEPT !.stores = stores, !.own = DOMAIN stores, !.regions = cache,
                   !.all = cache, !.running = running, !.plugins = plugins, !.now = now]

RegionIds == {r \in DOMAIN regions : regions[r] # Gone}
CachedIds == {r \in DOMAIN cache : cache[r] # Gone}

-----------------------------------------------------------------------------
(* Operators. *)

checkAddOperator(ops) ==
  \A i \in DOMAIN ops :
    /\ cache[ops[i].region] # Gone
    /\ cache[ops[i].region].epoch = ops[i].epoch
    /\ ops[i].region \in DOMAIN running => ops[i].level > running[ops[i].region].level

(* The region is not, or is about to be no longer, what PD takes it for.   *)
outdated(r) ==
  \/ r \in DOMAIN tasks \/ r \notin RegionIds
  \/ cache[r].peers # regions[r].peers \/ cache[r].leader # regions[r].leader

(* Only the cached epoch is compared: nothing says that the region is      *)
(* outdated.                                                               *)
AddOperator(ops) ==
  LET on == {ops[i].region : i \in DOMAIN ops}
  IN  /\ ops # <<>> /\ checkAddOperator(ops)
      /\ running' = [r \in DOMAIN running \cup on |->
                       IF r \in on THEN ops[CHOOSE i \in DOMAIN ops : ops[i].region = r]
                                  ELSE running[r]]
      /\ stray' = stray \cup {r \in on : outdated(r)}

without(ops, r) == [q \in DOMAIN ops \ {r} |-> ops[q]]

(* SendScheduleCommand: what reaches TiKV of the current step. *)
sent(region, step) ==
  /\ step.type \in {"AddPeer", "AddLightPeer", "AddLearner", "AddLightLearner"}
       => ~GetStorePeer(region, step.to)
  /\ step.type = "MergeRegion" => ~step.passive
  /\ step.type = "TransferLeader" => GetStorePeer(region, step.to)

(* A node takes no second task for a region (AddTask).  What it has is     *)
(* done at once, or waits: a number of times TiKV is slow.                 *)
Command(r, step) ==
  IF ~sent(regions[r], step) \/ r \in DOMAIN tasks
  THEN UNCHANGED <<regions, tasks, pending>>
  ELSE \/ /\ regions' = responseToTask(regions, nodes, r, step)
          /\ UNCHANGED <<tasks, pending>>
       \/ /\ pending.slow > 0 /\ pending' = [pending EXCEPT !.slow = @ - 1]
          /\ tasks' = [q \in DOMAIN tasks \cup {r} |->
                         IF q = r THEN [step |-> step, epoch |-> regions[r].epoch, at |-> regions[r].leader]
                                  ELSE tasks[q]]
          /\ UNCHANGED regions

(* A heartbeat of the region, from its leader: the cache takes it over, in *)
(* place of all that it overlaps (regions of overlapping ranges were split *)
(* or merged), and Dispatch sends the command of the operator's step.  An  *)
(* operator that finds its step done while the command for it is still     *)
(* under way goes on and leaves the command behind.                        *)
Heartbeat(r) ==
  /\ r \in RegionIds /\ regions[r].leader \in nodes
  /\ r \in DOMAIN running \/ cache[r] # regions[r]
  /\ cache' = report(cache, regions[r])
  /\ IF r \notin DOMAIN running THEN UNCHANGED <<regions, tasks, running, stray, pending>>
     ELSE LET op   == running[r]
              pos  == Check(op, regions[r])
              step == op.steps[pos]
          IN  IF pos > Len(op.steps)
              THEN /\ running' = without(running, r)
                   /\ UNCHANGED <<regions, tasks, stray, pending>>
              ELSE /\ running' = [running EXCEPT ![r].currentStep = pos]
                   /\ stray' = IF r \in DOMAIN tasks /\ tasks[r].step # step
                               THEN stray \cup {r} ELSE stray
                   /\ Command(r, step)
  /\ UNCHANGED <<case, nodes, storing, coordinator>>

(* The node carries out a command, unless the region has changed since. *)
StepTask(r) ==
  /\ r \in DOMAIN tasks
  /\ tasks' = without(tasks, r)
  /\ regions' = IF r \in RegionIds /\ regions[r].epoch = tasks[r].epoch
                THEN responseToTask(regions, nodes, r, tasks[r].step) ELSE regions
  /\ UNCHANGED <<case, cache, running, stray, nodes, pending, storing, coordinator>>

(* A region that was merged sends no heartbeat: checkOperators removes its *)
(* operator.                                                               *)
CheckOperators ==
  /\ \E r \in DOMAIN running : /\ cache[r] = Gone
                               /\ running' = without(running, r)
  /\ UNCHANGED <<case, regions, tasks, cache, stray, nodes, pending, storing, coordinator>>

(* The operator of a region runs out of time: because no leader is there   *)
(* to take its commands, because the simulator has no task for them (a     *)
(* split), or, a number of times, because TiKV is slow.  The steps that    *)
(* were done are not undone, and its last command may still be under way.  *)
Timeout(r) ==
  /\ r \in DOMAIN running \cap CachedIds
  /\ \/ /\ \/ cache[r].leader \notin nodes
           \/ \E i \in DOMAIN running[r].steps : running[r].steps[i].type = "SplitRegion"
        /\ UNCHANGED pending
     \/ pending.timeouts > 0 /\ pending' = [pending EXCEPT !.timeouts = @ - 1]
  /\ running' = without(running, r)
  /\ UNCHANGED <<case, regions, tasks, cache, stray, nodes, storing, coordinator>>

-----------------------------------------------------------------------------
(* patrolRegions: checkRegion for a region without an operator. *)

namespaceAllowed(c) ==
  allowLeader(c) /\ allowRegion(c) /\ OperatorCount(c, {"replica"}) < c.replicaLimit

(* AddWaitingOperator refuses the operator of a checker when too many of   *)
(* its kind wait, and then the next checker has its turn; a promotion does *)
(* not wait.                                                               *)
checkRegion(c, region) ==
  orElse(LearnerCheck(region),
         (IF namespaceAllowed(c) THEN NamespaceCheck(c, region) ELSE nil)
         \cup (IF OperatorCount(c, {"replica"}) < c.replicaLimit THEN ReplicaCheck(c, region) ELSE nil)
         \cup (IF OperatorCount(c, {"merge"}) < c.mergeLimit THEN MergeCheck(c, region) ELSE nil))

canPatrol(r) ==
  /\ r \notin DOMAIN running
  /\ \E ops \in checkRegion(Cluster, cache[r]) : ops # <<>> /\ checkAddOperator(ops)

PatrolRegion(r) ==
  /\ r \in CachedIds \ DOMAIN running
  /\ \E ops \in checkRegion(Cluster, cache[r]) : AddOperator(ops)
  /\ UNCHANGED <<case, regions, tasks, cache, nodes, pending, storing, coordinator>>

-----------------------------------------------------------------------------
(* runScheduler. *)

IsScheduleAllowed(c, s, mem) ==
  CASE s.type \in {"balance-leader", "label", "evict-leader", "grant-leader",
                   "shuffle-leader", "move-leader-user"} -> allowLeader(c)
    [] s.type \in {"balance-region", "shuffle-region", "move-region-user"} -> allowRegion(c)
    [] s.type = "hot-region" -> allowBalanceLeader(c, mem) \/ allowBalanceRegion(c, mem)
    [] s.type = "shuffle-hot-region" ->
         OperatorCount(c, {"hotRegion"}) < 1 /\ allowRegion(c) /\ allowLeader(c)
    [] s.type = "random-merge" -> OperatorCount(c, {"merge"}) < c.mergeLimit
    [] s.type = "scatter-range" -> OperatorCount(c, {"range"}) < c.regionLimit
    [] s.type = "adjacent-region" ->
         \/ OperatorCount(c, {"adjacent", "leader"}) < c.adjacentLeaderLimit
         \/ OperatorCount(c, {"adjacent", "region"}) < c.adjacentPeerLimit

(* The memory of a scheduler that has just been created. *)
fresh(s) == CASE s.type = "hot-region" -> [leaderLimit |-> 1, peerLimit |-> 1]
              [] s.type = "adjacent-region" -> NoAdjacent
              [] s.type = "move-leader-user" -> 1
              [] OTHER -> 0

(* The store in a taint cache at the time of the call, and the source, or  *)
(* the target for the source that is chosen, in a hits counter: the        *)
(* entries come with failed attempts and go with time.                     *)
Tainted(c) == {{}} \cup {{s} : s \in DOMAIN c.stores}
Hits(c)    == {[sources |-> t, targets |-> {}] : t \in Tainted(c)}
              \cup {[sources |-> {}, targets |-> t] : t \in Tainted(c)}
NoHits     == [sources |-> {}, targets |-> {}]

Schedule(c, s, mem) ==
  LET same(seqs) == {[ops |-> o, mem |-> mem] : o \in seqs}
  IN  CASE s.type = "balance-leader" ->
             same(UNION {BalanceLeaderSchedule(c, t) : t \in Tainted(c)})
        [] s.type = "balance-region" ->
             same(UNION {BalanceRegionSchedule(c, h) : h \in Hits(c)})
        [] s.type = "label" -> same(LabelSchedule(c))
        [] s.type = "evict-leader" -> same(EvictLeaderSchedule(c, s.store))
        [] s.type = "grant-leader" -> same(GrantLeaderSchedule(c, s.store))
        [] s.type = "shuffle-leader" -> same(ShuffleLeaderSchedule(c))
        [] s.type = "shuffle-region" -> same(ShuffleRegionSchedule(c))
        [] s.type = "shuffle-hot-region" -> same(ShuffleHotRegionSchedule(c))
        [] s.type = "random-merge" -> same(RandomMergeSchedule(c))
        [] s.type = "scatter-range" -> same(ScatterRangeSchedule(c, 0, 2, {}, NoHits))
        [] s.type = "hot-region" -> HotRegionSchedule(c, mem)
        [] s.type = "adjacent-region" -> AdjacentRegionSchedule(c, mem)
        [] s.type = "move-leader-user" ->
             {[ops |-> o.ops, mem |-> o.seq] : o \in MoveLeaderSchedule(c, s, mem)}
        [] s.type = "move-region-user" -> same({o.ops : o \in MoveRegionSchedule(c, s)})

(* scheduleByNamespace: the namespaces in any order, until one has an      *)
(* operator.                                                               *)
scheduleByNamespace(s) ==
  UNION {Schedule(newNamespaceCluster(Cluster, ns), s, sched[s]) : ns \in namespaces(Cluster)}

canSchedule(s) ==
  /\ IsScheduleAllowed(Cluster, s, sched[s])
  /\ \E out \in scheduleByNamespace(s) : out.ops # <<>> /\ checkAddOperator(out.ops)

(* Of the calls without an operator only those are steps that change the   *)
(* scheduler's memory.                                                     *)
RunScheduler(s) ==
  /\ s \in DOMAIN sched /\ IsScheduleAllowed(Cluster, s, sched[s])
  /\ \E out \in scheduleByNamespace(s) :
       /\ sched' = [sched EXCEPT ![s] = out.mem]
       /\ \/ AddOperator(out.ops)
          \/ /\ out.ops = <<>> \/ ~checkAddOperator(out.ops)
             /\ out.mem # sched[s]
             /\ UNCHANGED <<running, stray>>
  /\ UNCHANGED <<case, regions, tasks, cache, nodes, pending, storing, stopping, selected, plugins, now>>

-----------------------------------------------------------------------------
(* addScheduler with Prepare, removeScheduler, and the Cleanup that the    *)
(* scheduler's goroutine runs when it sees that it was stopped.            *)

(* addScheduler that goes on when the store is blocked already. *)
AddBlocked(s) ==
  /\ s \in this.events.manage \ DOMAIN sched
  /\ stores' = IF blocks(s) THEN [stores EXCEPT ![s.store].blocked = TRUE] ELSE stores
  /\ sched' = [n \in DOMAIN sched \cup {s} |-> IF n = s THEN fresh(s) ELSE sched[n]]
  /\ UNCHANGED <<case, regions, tasks, cache, running, stray, nodes, pending, clones, lost, stopping,
                 selected, plugins, now>>

AddScheduler(s) ==
  /\ s \in this.events.manage \ DOMAIN sched
  /\ blocks(s) => s.store \in DOMAIN stores /\ ~stores[s.store].blocked
  /\ stores' = IF blocks(s) THEN [stores EXCEPT ![s.store].blocked = TRUE] ELSE stores
  /\ sched' = [n \in DOMAIN sched \cup {s} |-> IF n = s THEN fresh(s) ELSE sched[n]]
  /\ UNCHANGED <<case, regions, tasks, cache, running, stray, nodes, pending, clones, lost, stopping,
                 selected, plugins, now>>

RemoveScheduler(s) ==
  /\ s \in this.events.manage \cap DOMAIN sched
  /\ s \notin stopping
  /\ sched' = [n \in DOMAIN sched \ {s} |-> sched[n]]
  /\ stopping' = stopping \cup {s}
  /\ UNCHANGED <<case, regions, tasks, cache, running, stray, nodes, pending, storing, selected, plugins, now>>

Cleanup(s) ==
  /\ s \in stopping
  /\ stopping' = stopping \ {s}
  /\ stores' = IF blocks(s) THEN [stores EXCEPT ![s.store].blocked = FALSE] ELSE stores
  /\ UNCHANGED <<case, regions, tasks, cache, running, stray, nodes, pending, clones, lost, sched,
                 selected, plugins, now>>

-----------------------------------------------------------------------------
(* readUserConfig: at the start and at every SIGUSR1.  The schedulers of   *)
(* the new rules replace those of their name; others stay.                 *)

named(rules) == [n \in {<<rules[i].type, i>> : i \in DOMAIN rules} |-> rules[n[2]]]

userScheduler(p) ==
  [type |-> IF p.rule.type = "Leader" THEN "move-leader-user" ELSE "move-region-user",
   name |-> p.name, rule |-> p.rule, ids |-> p.ids]

readUserConfig(rules) ==
  LET loaded == LoadConfig(plugins, named(rules), this.opt.maxReplicas)
  IN  /\ rules \in pending.rules
      /\ pending' = [pending EXCEPT !.rules = @ \ {rules}]
      /\ IF IfConflict(named(rules), this.opt.maxReplicas)
         THEN UNCHANGED <<plugins, sched>>
         ELSE \E ids \in {f \in [DOMAIN loaded -> UNION {UpdateStoreIDs(Cluster, loaded[n]) :
                                                           n \in DOMAIN loaded}] :
                            \A n \in DOMAIN loaded : f[n] \in UpdateStoreIDs(Cluster, loaded[n])} :
                LET made == {userScheduler(p) : p \in ProduceScheduler(loaded, ids)}
                    kept == {s \in DOMAIN sched :
                               s.type \in {"move-leader-user", "move-region-user"}
                                 => \A t \in made : t.name # s.name}
                    meet2 == \A p \in IfNeedCheckStore(loaded) :
                               IfOverlap(ids[p[1]], ids[p[2]]) # <<>>
                IN  /\ sched' = [s \in kept \cup made |-> IF s \in made THEN fresh(s) ELSE sched[s]]
                    /\ plugins' = [n \in IF meet2 THEN DOMAIN loaded ELSE {} |->
                                     [type |-> loaded[n].type, start |-> loaded[n].start,
                                      end |-> loaded[n].end, begin |-> loaded[n].begin,
                                      stop |-> loaded[n].stop, ids |-> ids[n]]]
      /\ UNCHANGED <<case, regions, tasks, cache, running, stray, nodes, storing, stopping, selected, now>>

Tick ==
  /\ now < this.events.ticks
  /\ now' = now + 1
  /\ UNCHANGED <<case, regions, tasks, cache, running, stray, nodes, pending, storing, sched, stopping,
                 selected, plugins>>

-----------------------------------------------------------------------------
(* What users ask for, and what happens to the cluster. *)

(* ScatterRegion, at a client's request. *)
ScatterRegion(r) ==
  /\ r \in pending.scatter \cap CachedIds
  /\ \E out \in Scatter(Cluster, cache[r], selected) :
       /\ selected' = out.mem
       /\ AddOperator(out.ops) \/ (out.ops = <<>> /\ UNCHANGED <<running, stray>>)
  /\ pending' = [pending EXCEPT !.scatter = @ \ {r}]
  /\ UNCHANGED <<case, regions, tasks, cache, nodes, storing, sched, stopping, plugins, now>>

(* An administrator's request; the target of a merge is another region. *)
AdminOperator(r) ==
  /\ r \in pending.admin \cap CachedIds
  /\ \E ops \in AdminRequests(Cluster, cache[r], {cache[q] : q \in CachedIds \ {r}},
                            [s \in DOMAIN stores |-> s]) : AddOperator(ops)
  /\ pending' = [pending EXCEPT !.admin = @ \ {r}]
  /\ UNCHANGED <<case, regions, tasks, cache, nodes, storing, coordinator>>

StepLeader(r) ==
  /\ r \in RegionIds /\ needsLeader(regions[r], nodes)
  /\ \E new \in stepLeader(regions[r], nodes) :
       new # regions[r] /\ regions' = [regions EXCEPT ![r] = new]
  /\ UNCHANGED <<case, tasks, cache, running, stray, nodes, pending, storing, coordinator>>

(* The model has ids for MaxRegionId regions, and keys for as many. *)
StepSplit(r) ==
  /\ r \in RegionIds /\ NeedSplit(regions[r], this.events.splitSize)
  /\ regions[r].leader # NoStore
  /\ \E new \in DOMAIN regions \ RegionIds, key \in 1 .. Inf - 1 :
       /\ new \notin CachedIds
       /\ regions[r].start < key /\ key < regions[r].end
       /\ \A q \in DOMAIN regions \ RegionIds : new <= q
       /\ key = regions[r].start + 2 \/ key = regions[r].end - 1
       /\ regions' = stepSplit(regions, r, new, key)
       /\ stray' = IF r \in stray THEN stray \cup {new} ELSE stray
  /\ UNCHANGED <<case, tasks, cache, running, nodes, pending, storing, coordinator>>

Write(r) ==
  /\ r \in pending.write \cap RegionIds
  /\ RegionIds # DOMAIN regions
  /\ regions[r].size < this.events.splitSize
  /\ regions' = [regions EXCEPT ![r] = updateRegionStore(@, 3)]
  /\ UNCHANGED <<case, tasks, cache, running, stray, nodes, pending, storing, coordinator>>

AddNode(s) ==
  /\ s \in pending.add /\ \A t \in pending.add : s <= t
  /\ nodes' = nodes \cup {s}
  /\ stores' = [t \in DOMAIN stores \cup {s} |-> IF t = s THEN NewStore ELSE stores[t]]
  /\ pending' = [pending EXCEPT !.add = @ \ {s}]
  /\ UNCHANGED <<case, regions, tasks, cache, running, stray, clones, lost, coordinator>>

(* A node takes its tasks with it. *)
DeleteNode(s) ==
  /\ s \in pending.delete
  /\ nodes' = nodes \ {s}
  /\ tasks' = [r \in {r \in DOMAIN tasks : tasks[r].at # s} |-> tasks[r]]
  /\ regions' = downPeers(regions, s)
  /\ pending' = [pending EXCEPT !.delete = {}]
  /\ UNCHANGED <<case, cache, running, stray, storing, coordinator>>

(* Without heartbeats a store is first disconnected, then down. *)
StoreDown(s) ==
  /\ s \in DOMAIN stores \ nodes /\ stores[s].downTime < 2
  /\ stores' = [stores EXCEPT ![s].downTime = @ + 1]
  /\ UNCHANGED <<case, regions, tasks, cache, running, stray, nodes, pending, clones, lost, coordinator>>

-----------------------------------------------------------------------------
(* The requests that change a store read it, change a clone of it and put  *)
(* the clone back.  They hold RaftCluster's lock for reading only, and     *)
(* clusterInfo's, which BlockStore and UnblockStore take, not in between.  *)

clone(s, new) == clones' = clones \cup {[store |-> s, as |-> new]}

RemoveStore(s) ==
  /\ s \in pending.offline \cap DOMAIN stores /\ stores[s].state = "Up"
  /\ clone(s, [stores[s] EXCEPT !.state = "Offline"])
  /\ pending' = [pending EXCEPT !.offline = @ \ {s}]
  /\ UNCHANGED <<case, regions, tasks, cache, running, stray, nodes, stores, lost, coordinator>>

SetStoreWeight(s, leader, region) ==
  /\ s \in pending.weigh \cap DOMAIN stores
  /\ clone(s, [stores[s] EXCEPT !.leaderWeight = leader, !.regionWeight = region])
  /\ pending' = [pending EXCEPT !.weigh = @ \ {s}]
  /\ UNCHANGED <<case, regions, tasks, cache, running, stray, nodes, stores, lost, coordinator>>

(* A store that registers again, with the labels it had. *)
PutStore(s) ==
  /\ s \in pending.put \cap DOMAIN stores
  /\ clone(s, stores[s])
  /\ pending' = [pending EXCEPT !.put = @ \ {s}]
  /\ UNCHANGED <<case, regions, tasks, cache, running, stray, nodes, stores, lost, coordinator>>

putStore(c) ==
  /\ clones' = clones \ {c}
  /\ stores' = [stores EXCEPT ![c.store] = c.as]
  /\ lost' = IF c.as.blocked # stores[c.store].blocked THEN lost \cup {c.store} ELSE lost
  /\ UNCHANGED <<case, regions, tasks, cache, running, stray, nodes, pending, coordinator>>

-----------------------------------------------------------------------------
Happenings ==
  {"delete", "add", "offline", "weigh", "put", "scatter", "write", "rules", "admin", "timeouts", "slow"}

Init ==
  /\ case \in Cases
  /\ regions = this.regions /\ cache = regions /\ tasks = <<>>
  /\ running = <<>> /\ stray = {}
  /\ stores = this.stores /\ clones = {} /\ lost = {}
  /\ nodes = DOMAIN stores
  /\ sched = [s \in this.schedulers |-> fresh(s)]
  /\ stopping = {} /\ selected = {} /\ plugins = <<>> /\ now = 0
  /\ pending = [f \in Happenings |-> this.events[f]]

Ids  == 1 .. MaxRegionId
Work == \/ \E r \in Ids : Heartbeat(r)
        \/ \E r \in DOMAIN tasks : StepTask(r)
        \/ \E r \in Ids : PatrolRegion(r)
        \/ \E s \in DOMAIN sched : RunScheduler(s)
        \/ CheckOperators
        \/ \E r \in Ids : Timeout(r)
        \/ \E r \in Ids : StepLeader(r)
        \/ \E s \in stopping : Cleanup(s)
        \/ \E c \in clones : putStore(c)

Events == \/ \E s \in this.events.manage : AddScheduler(s) \/ RemoveScheduler(s)
          \/ \E rules \in pending.rules : readUserConfig(rules)
          \/ Tick
          \/ \E r \in pending.scatter : ScatterRegion(r)
          \/ \E r \in pending.admin : AdminOperator(r)
          \/ \E r \in Ids : StepSplit(r)
          \/ \E r \in pending.write : Write(r)
          \/ \E s \in pending.add : AddNode(s)
          \/ \E s \in pending.delete : DeleteNode(s)
          \/ \E s \in DOMAIN stores : StoreDown(s)
          \/ \E s \in pending.offline : RemoveStore(s)
          \/ \E s \in pending.weigh : SetStoreWeight(s, 2, 2)
          \/ \E s \in pending.put : PutStore(s)

Next == Work \/ Events

Spec == Init /\ [][Next]_vars

(* Fairness: as long as the coordinator or the simulator has something to  *)
(* do, something is done.  A scheduler that picks at random and can find   *)
(* an operator finds one in the end, so only the calls that add one count. *)
(* What a user may do is never forced.  This is weak fairness of the steps *)
(* that change regions, their cache, operators, commands or stores, with   *)
(* their enabling condition written out.  Elections are not held up by     *)
(* anything of PD's.                                                       *)
Working ==
  \/ \E r \in DOMAIN running : cache[r] = Gone \/ (r \in RegionIds /\ regions[r].leader # NoStore)
  \/ \E r \in RegionIds : cache[r] # regions[r] /\ regions[r].leader \in nodes
  \/ DOMAIN tasks # {} \/ clones # {}
  \/ \E r \in CachedIds : canPatrol(r)
  \/ \E s \in DOMAIN sched : canSchedule(s)
  \/ \E r \in RegionIds : needsLeader(regions[r], nodes) /\ electNewLeader(regions[r], nodes) # {NoStore}
  \/ \E s \in DOMAIN stores \ nodes : stores[s].downTime < 2
  \/ \E f \in {"add", "delete", "offline"} : pending[f] # {}
  \/ pending.write # {} /\ RegionIds # DOMAIN regions

done == <<regions, tasks, cache, running, stores, clones>>

FairSpec ==
  /\ Spec
  /\ WF_vars(\E r \in Ids : StepLeader(r))
  /\ []<>(~Working) \/ []<><<done' # done>>_vars

-----------------------------------------------------------------------------
(* Properties. *)

(* The cluster as it is. *)
Truth == [Cluster EXCEPT !.regions = regions, !.all = regions]

counts(Count(_, _), among) == {Count(Truth, s) : s \in among}
within(Count(_, _), among, d) == Max(counts(Count, among)) - Min(counts(Count, among)) <= d

hotOn(s)     == Cardinality({r \in DOMAIN this.opt.read \cup DOMAIN this.opt.write : GetStorePeer(regions[r], s)})
hotLedBy(s)  == Cardinality({r \in DOMAIN this.opt.read \cup DOMAIN this.opt.write : regions[r].leader = s})

(* The Checkers of the cases. *)
Checker ==
  CASE case = "balanceLeader" ->
         GetLeaderCount(Truth, 1) <= 2 /\ \A s \in {2, 3} : GetLeaderCount(Truth, s) >= 1
    [] case \in {"addNodes", "addNodesDynamic", "deleteNodes"} ->
         /\ pending.add = {} /\ pending.delete = {}
         /\ within(GetRegionCount, nodes, 2) /\ within(GetLeaderCount, nodes, 2)
    [] case = "makeupDownReplicas" ->
         \A s \in {2, 3} : GetRegionCount(Truth, s) = Cardinality(RegionIds)
    [] case = "regionMerge" -> Cardinality(RegionIds) = 1
    [] case = "regionSplit" -> \A s \in nodes : GetRegionCount(Truth, s) >= 2
    [] case = "hotRead" -> \A s, t \in nodes : hotLedBy(s) - hotLedBy(t) < 2
    [] case = "hotWrite" -> \A s, t \in nodes : hotLedBy(s) - hotLedBy(t) <= 2 /\ hotOn(s) - hotOn(t) <= 2
    [] case \in {"rejecting"} -> GetLeaderCount(Truth, 1) = 0
    [] case = "leaving" -> GetRegionCount(Truth, 1) = 0
    [] case = "zoned" -> \A r \in RegionIds : DistinctScore(Cluster, DOMAIN regions[r].peers \cap {1, 2}, 3) = 1
    [] case = "relocated" -> DOMAIN regions[1].peers = {3, 4} /\ DOMAIN regions[2].peers = {1, 2}
    [] case = "administered" ->
         \A r \in RegionIds : Cardinality(GetVoters(regions[r])) = 2 /\ GetLearners(regions[r]) = {}
    [] case = "ruled" ->
         \A n \in {n \in DOMAIN plugins : active(Cluster, plugins[n])} :
           IF n[1] = "Leader" THEN regions[2].leader \in ToSet(plugins[n].ids)
                              ELSE ToSet(plugins[n].ids) \subseteq DOMAIN regions[2].peers
    [] OTHER -> TRUE

Restless == {"managed", "shuffled", "mergedAtRandom", "dispersed"}

(* Whatever the interleaving of patrol, schedulers, heartbeats, timeouts   *)
(* and the events of the case, the cluster comes to rest in a state the    *)
(* case's Checker accepts: no two schedulers undo each other's work        *)
(* forever, and none stops short.                                          *)
CaseSettles == case \notin Restless => <>[](running = <<>> /\ Checker)

(* A region is led by one of its voters, however the operators of          *)
(* schedulers that know nothing of each other follow on one another, and   *)
(* however long a command is under way: if no operator is made for the     *)
(* region while PD does not yet know what an earlier command did or will   *)
(* do.  checkAddOperator does not see that, and a region for which it      *)
(* happened (stray) may lose its leader: a transfer of the operator before *)
(* goes to the peer that the new one removes.                              *)
(* Two kinds of case are exempt: when a node dies its region elects, and a *)
(* removal already under way may hit the new leader; and the scheduler of  *)
(* a user's Leader rule takes any peer for a candidate, the learner of an  *)
(* operator it has just replaced as well.                                  *)
LeaderIsVoter ==
  this.events.delete = {} /\ case # "ruled" =>
    \A r \in RegionIds \ stray : regions[r].leader \in GetVoters(regions[r])

(* PD never takes a replica away before its substitute is there: apart     *)
(* from the peers on a deleted node, and from what an administrator takes  *)
(* away, a region has at least as many voters as it should have; and,      *)
(* scattering and the user's rules apart, which add all before they remove *)
(* any, it has never more than one too many.  Again no operator was made   *)
(* for the region while it was outdated: a peer that an operator before    *)
(* adds or removes late is not counted by the new one.                     *)
ReplicasKept ==
  case \notin {"regionSplit", "administered"} =>
    \A r \in RegionIds \ stray :
      LET dead == DOMAIN this.stores \ nodes
      IN  /\ Cardinality(GetVoters(regions[r]) \cup dead) >= this.opt.maxReplicas
          /\ case \notin {"scattered", "ruled"} =>
               Cardinality(DOMAIN regions[r].peers) <= this.opt.maxReplicas + 1

(* The sum of the distances of the replicas of a region. *)
isolation(on) == MapThenSumSet(LAMBDA s : DistinctScore(Cluster, on \ {s}, s), on)

(* Where an operator leaves the replicas of its region. *)
outcome(op) ==
  LET origin  == DOMAIN op.epoch[1]
      added2(t) == {op.steps[i].to : i \in {i \in DOMAIN op.steps : op.steps[i].type \in t}}
  IN  (origin \cup added2({"AddPeer", "AddLearner", "AddLightPeer", "AddLightLearner"}))
      \ {op.steps[i].from : i \in {i \in DOMAIN op.steps : op.steps[i].type = "RemovePeer"}}

keepsIsolation(descs) ==
  \A r \in DOMAIN running :
    running[r].desc \in descs =>
      isolation(outcome(running[r])) >= isolation(DOMAIN running[r].epoch[1])

(* What the balancers, the hot region and the adjacent region schedulers   *)
(* do in several steps never leaves the replicas less spread than before.  *)
IsolationKept ==
  keepsIsolation({"balance-region", "scatter-range-region", "balance-adjacent-peer",
                  "move-hot-read-region", "move-hot-write-region", "random-move-hot-leader"})

(* region_scatterer.go says of its filter that the distinct score will not *)
(* decrease.                                                               *)
ScatterKeepsIsolation == keepsIsolation({"scatter-region"})

(* A store is blocked exactly while an evict-leader or grant-leader        *)
(* scheduler for it exists or has yet to clean up, and there is never more *)
(* than one such.  The exceptions are the stores of which RemoveStore,     *)
(* SetStoreWeight or PutStore put back a clone that was older than a       *)
(* BlockStore or UnblockStore, which is undone by that.                    *)
BlockedByOne ==
  \A s \in DOMAIN stores \ lost :
    LET holders == {n \in DOMAIN sched : blocks(n) /\ n.store = s}
        late    == {n \in stopping : blocks(n) /\ n.store = s}
    IN  Cardinality(holders) + Cardinality(late) = IF stores[s].blocked THEN 1 ELSE 0
=============================================================================
