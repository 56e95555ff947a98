------------------------------- MODULE SimCases -------------------------------
(***************************************************************************)
(* The clusters that Scheduling starts from.  Most are the cases of        *)
(* tools/pd-simulator/simulator/cases, scaled down to a few regions, each  *)
(* with the condition its Checker waits for; the rest put the schedulers   *)
(* to work that those cases do not use.                                    *)
(*                                                                         *)
(* A case is a record: stores, regions, the schedulers that run, how the   *)
(* options differ from the defaults, and the events: the nodes that may be *)
(* deleted, added, or taken offline, the regions that may be scattered,    *)
(* the regions written to, the size at which a region splits, the          *)
(* schedulers the user may add or remove, the regions an administrator     *)
(* asks an operator for, the stores that are given a weight or register    *)
(* again, and how many operators run out of time and how many commands     *)
(* are under way for some time.                                            *)
(***************************************************************************)
EXTENDS Adjacent, Simulator

Size == 10                       \* of an ordinary region
Plenty == 1000                   \* the capacity of a store
MaxRegionId == 4

NewStore == [state |-> "Up", downTime |-> 0, busy |-> FALSE, overloaded |-> FALSE,
             blocked |-> FALSE, snapCount |-> 0, rejectLeader |-> FALSE, namespace |-> "global",
             capacity |-> Plenty, leaderWeight |-> 1, regionWeight |-> 1, location |-> <<0>>]

NewRegion(id, start, end, on, leader, size) ==
  withEpoch([id |-> id, epoch |-> <<>>, start |-> start, end |-> end,
             peers |-> [s \in on |-> [id |-> s, learner |-> FALSE]], leader |-> leader,
             pending |-> {}, down |-> {}, size |-> size, namespace |-> "global"])

(* n regions in a row, the i-th on Peers(i) and led by Leader(i); ids behind  *)
(* n are free.                                                             *)
Row(n, Peers(_), Leader(_), size) ==
  [i \in 1 .. MaxRegionId |->
     IF i > n THEN Gone
     ELSE NewRegion(i, i - 1, IF i = n THEN Inf ELSE i, Peers(i), Leader(i), size)]

Scheduler(type) == [type |-> type]
On(type, s)     == [type |-> type, store |-> s]

DefaultSchedulers ==
  {Scheduler("balance-leader"), Scheduler("balance-region"), Scheduler("label"),
   Scheduler("hot-region")}

(* The options of the cluster, and the case without any event. *)
Options ==
  [stores |-> <<>>, own |-> {}, regions |-> <<>>, all |-> <<>>, running |-> <<>>,
   namespace |-> "global", range |-> FALSE, tolerantSizeRatio |-> 0, maxReplicas |-> 2,
   learnerEnabled |-> TRUE, highSpaceRatio |-> 60, lowSpaceRatio |-> 80,
   maxPendingPeerCount |-> 4, maxSnapshotCount |-> 3, plugins |-> <<>>, now |-> 0,
   enabled |-> {"removeDown", "replaceOffline", "makeUp", "removeExtra",
                "locationReplacement", "namespaceRelocation"},
   hot |-> {}, recentSplit |-> {}, maxMergeRegionSize |-> 0, oneWayMerge |-> FALSE,
   leaderLimit |-> 1, regionLimit |-> 1, replicaLimit |-> 1, mergeLimit |-> 1,
   hotRegionLimit |-> 1, hitsThreshold |-> 3, read |-> <<>>, write |-> <<>>,
   adjacentLeaderLimit |-> 1, adjacentPeerLimit |-> 1]

NoEvents == [delete |-> {}, add |-> {}, offline |-> {}, scatter |-> {}, write |-> {},
             splitSize |-> 0, manage |-> {}, admin |-> {}, rules |-> {}, weigh |-> {}, put |-> {},
             ticks |-> 0, timeouts |-> 0, slow |-> 0]

Stores(n) == [s \in 1 .. n |-> NewStore]
InZones(zones) == [s \in DOMAIN zones |-> [NewStore EXCEPT !.location = <<zones[s]>>]]

-----------------------------------------------------------------------------
(* The simulator's cases. *)

newBalanceLeader ==
  [stores |-> Stores(3), regions |-> Row(4, LAMBDA i : 1 .. 3, LAMBDA i : 1, Size),
   schedulers |-> DefaultSchedulers,
   opt |-> [Options EXCEPT !.maxReplicas = 3, !.leaderLimit = 2], events |-> NoEvents]

newAddNodes ==
  [stores |-> Stores(4), regions |-> Row(3, LAMBDA i : {1, 2}, LAMBDA i : 1 + (i % 2), Size),
   schedulers |-> DefaultSchedulers, opt |-> [Options EXCEPT !.regionLimit = 2],
   events |-> [NoEvents EXCEPT !.slow = 1]]

(* The two stores come one after the other. *)
newAddNodesDynamic ==
  [newAddNodes EXCEPT !.stores = Stores(2), !.events = [NoEvents EXCEPT !.add = {3, 4}]]

circle(n, i) == {1 + ((i - 1) % n), 1 + (i % n)}

newDeleteNodes ==
  [stores |-> Stores(4),
   regions |-> Row(3, LAMBDA i : circle(4, i), LAMBDA i : i, Size),
   schedulers |-> DefaultSchedulers, opt |-> Options,
   events |-> [NoEvents EXCEPT !.delete = 1 .. 4, !.timeouts = 1, !.slow = 1]]

newMakeupDownReplicas ==
  [stores |-> Stores(3),
   regions |-> Row(3, LAMBDA i : circle(3, i), LAMBDA i : i, Size),
   schedulers |-> DefaultSchedulers, opt |-> Options,
   events |-> [NoEvents EXCEPT !.delete = {1}]]

newRegionMerge ==
  [stores |-> Stores(3),
   regions |-> Row(3, LAMBDA i : circle(3, i), LAMBDA i : i, 1),
   schedulers |-> DefaultSchedulers, opt |-> [Options EXCEPT !.maxMergeRegionSize = 2],
   events |-> NoEvents]

(* It splits twice at most: there are ids for three regions. *)
newRegionSplit ==
  [stores |-> Stores(2),
   regions |-> [r \in 1 .. 3 |-> Row(1, LAMBDA i : {1}, LAMBDA i : 1, 1)[r]],
   schedulers |-> DefaultSchedulers, opt |-> Options,
   events |-> [NoEvents EXCEPT !.write = {1}, !.splitSize = 4, !.slow = 1]]

flowOf(rs) == [r \in rs |-> [flow |-> 10, median |-> 1, degree |-> 3]]

newHotRead ==
  [stores |-> Stores(3), regions |-> Row(3, LAMBDA i : 1 .. 3, LAMBDA i : 1, Size),
   schedulers |-> DefaultSchedulers,
   opt |-> [Options EXCEPT !.maxReplicas = 3, !.read = flowOf(1 .. 3), !.hot = 1 .. 3],
   events |-> NoEvents]

newHotWrite ==
  [stores |-> Stores(4), regions |-> Row(2, LAMBDA i : {1, 2}, LAMBDA i : 1, Size),
   schedulers |-> DefaultSchedulers,
   opt |-> [Options EXCEPT !.write = flowOf(1 .. 2), !.hot = 1 .. 2],
   events |-> NoEvents]

-----------------------------------------------------------------------------
(* The other cases. *)

(* A store that rejects leaders leads all regions. *)
rejecting ==
  [stores |-> [Stores(3) EXCEPT ![1].rejectLeader = TRUE],
   regions |-> Row(2, LAMBDA i : {1, i + 1}, LAMBDA i : 1, Size),
   schedulers |-> DefaultSchedulers, opt |-> Options, events |-> NoEvents]

(* A store is taken offline. *)
leaving ==
  [stores |-> Stores(3), regions |-> Row(2, LAMBDA i : {1, i + 1}, LAMBDA i : 1, Size),
   schedulers |-> DefaultSchedulers, opt |-> Options,
   events |-> [NoEvents EXCEPT !.offline = {1}, !.timeouts = 1, !.slow = 1]]

(* Two zones, and both replicas in one of them. *)
zoned ==
  [stores |-> InZones(<<1, 1, 2, 2>>), regions |-> Row(2, LAMBDA i : {1, 2}, LAMBDA i : i, Size),
   schedulers |-> DefaultSchedulers, opt |-> Options,
   events |-> [NoEvents EXCEPT !.timeouts = 1, !.slow = 1]]

(* A namespace of two stores, its region elsewhere. *)
relocated ==
  [stores |-> [s \in 1 .. 4 |->
                 IF s > 2 THEN [NewStore EXCEPT !.namespace = "ns1"] ELSE NewStore],
   regions |-> [Row(2, LAMBDA i : {1, 2}, LAMBDA i : i, Size) EXCEPT ![1].namespace = "ns1"],
   schedulers |-> DefaultSchedulers, opt |-> Options, events |-> NoEvents]

(* evict-leader and grant-leader come and go. *)
managed ==
  [stores |-> Stores(2), regions |-> Row(2, LAMBDA i : {1, 2}, LAMBDA i : i, Size),
   schedulers |-> {Scheduler("balance-leader")}, opt |-> Options,
   events |-> [NoEvents EXCEPT !.manage = {On("evict-leader", 1), On("grant-leader", 1)},
                               !.weigh = {1}, !.put = {2}]]

(* The user wants the leader of the second region on store 3, later all of *)
(* it on stores 2 and 3; the rule's interval begins at 1.                  *)
rule(type, wanted) ==
  [type |-> type, start |-> 1, end |-> 2, stores |-> wanted, begin |-> 1, stop |-> 9]

ruled ==
  [stores |-> Stores(3), regions |-> Row(2, LAMBDA i : {1, 2}, LAMBDA i : 1, Size),
   schedulers |-> {Scheduler("balance-leader"), Scheduler("balance-region")}, opt |-> Options,
   events |-> [NoEvents EXCEPT !.ticks = 1,
                 !.rules = {<<>>,
                            <<rule("Leader", <<{3}>>)>>,
                            <<rule("Region", <<{2}, {3}>>), rule("Leader", <<{3}>>)>>,
                            <<rule("Leader", <<{3}>>), rule("Leader", <<{2}>>)>>}]]

(* The schedulers for tests, which never come to rest. *)
shuffled ==
  [stores |-> Stores(3), regions |-> Row(2, LAMBDA i : {1, 2}, LAMBDA i : i, Size),
   schedulers |-> {Scheduler("shuffle-leader"), Scheduler("shuffle-region"),
                   Scheduler("shuffle-hot-region")},
   opt |-> [Options EXCEPT !.read = flowOf({1})], events |-> NoEvents]

mergedAtRandom ==
  [stores |-> Stores(3), regions |-> Row(3, LAMBDA i : circle(3, i), LAMBDA i : i, 1),
   schedulers |-> {Scheduler("random-merge")}, opt |-> Options, events |-> NoEvents]

dispersed ==
  [stores |-> InZones(<<1, 2, 1, 2>>), regions |-> Row(3, LAMBDA i : {1, 2}, LAMBDA i : 1, Size),
   schedulers |-> {Scheduler("adjacent-region"), Scheduler("scatter-range")},
   opt |-> Options, events |-> NoEvents]

scattered ==
  [stores |-> InZones(<<1, 2, 3, 3>>), regions |-> Row(2, LAMBDA i : {1, 2}, LAMBDA i : 1, Size),
   schedulers |-> {}, opt |-> Options,
   events |-> [NoEvents EXCEPT !.scatter = {1, 2}]]

(* The administrator asks for one operator on the region in the middle.    *)
administered ==
  [stores |-> Stores(3), regions |-> Row(3, LAMBDA i : {1, 2}, LAMBDA i : 1, Size),
   schedulers |-> {Scheduler("balance-leader"), Scheduler("balance-region")},
   opt |-> Options,
   events |-> [NoEvents EXCEPT !.admin = {2}]]

SimCaseMap ==
  [balanceLeader |-> newBalanceLeader, addNodes |-> newAddNodes,
   addNodesDynamic |-> newAddNodesDynamic, deleteNodes |-> newDeleteNodes,
   makeupDownReplicas |-> newMakeupDownReplicas, regionMerge |-> newRegionMerge,
   regionSplit |-> newRegionSplit, hotRead |-> newHotRead, hotWrite |-> newHotWrite,
   rejecting |-> rejecting, leaving |-> leaving, zoned |-> zoned, relocated |-> relocated,
   managed |-> managed, ruled |-> ruled, shuffled |-> shuffled,
   mergedAtRandom |-> mergedAtRandom, dispersed |-> dispersed, scattered |-> scattered,
   administered |-> administered]
-----------------------------------------------------------------------------
(* Kinds of case, for what can be said of all cases of a kind. *)

(* A region of which nobody has reported a pending or a down peer. *)
RegionFields == {"id", "epoch", "start", "end", "peers", "leader", "pending", "down", "size", "namespace"}

Shape(region) ==
  /\ DOMAIN region = RegionFields
  /\ IsFiniteSet(DOMAIN region.peers)
  /\ region.pending = {} /\ region.down = {} /\ region.size \in Nat
  /\ region.epoch[1] = region.peers

ClusterFields ==
  {"stores", "own", "regions", "all", "running", "plugins", "now", "namespace", "range",
   "tolerantSizeRatio", "maxReplicas", "enabled", "maxMergeRegionSize"}

Balancers ==
  {"balance-leader", "balance-region", "label", "evict-leader", "grant-leader", "shuffle-leader",
   "shuffle-region", "shuffle-hot-region", "hot-region", "scatter-range"}

(* Without those that do not count the peers of a region before they add   *)
(* one.                                                                    *)
Frugal == Balancers \ {"shuffle-region", "shuffle-hot-region"}

(* Any stores, regions, nodes that join or stores that leave, writes,      *)
(* splits and timeouts, any schedulers of Balancers, of which users add    *)
(* and remove some; no node dies, nothing is merged, and no user's rule,   *)
(* administrator or client asks for an operator.                           *)
Ordinary(new) ==
  /\ \A f \in {"delete", "scatter", "admin", "rules"} : new.events[f] = {}
  /\ \A s \in new.schedulers \cup new.events.manage : s.type \in Balancers
  /\ ClusterFields \subseteq DOMAIN new.opt
  /\ new.opt.maxReplicas \in Nat /\ new.opt.maxMergeRegionSize = 0
  /\ NoStore \notin DOMAIN new.stores \cup new.events.add
  /\ \A r \in DOMAIN new.regions :
       new.regions[r] # Gone =>
         /\ new.regions[r].id = r /\ Shape(new.regions[r])
         /\ new.regions[r].leader \in GetVoters(new.regions[r])
         /\ DOMAIN new.regions[r].peers \subseteq DOMAIN new.stores

(* The regions have all their voters and at most one peer too many. *)
Stocked(new) ==
  \A r \in DOMAIN new.regions :
    new.regions[r] # Gone =>
      /\ Cardinality(GetVoters(new.regions[r])) >= new.opt.maxReplicas
      /\ Cardinality(DOMAIN new.regions[r].peers) <= new.opt.maxReplicas + 1

(* A peer is added only where the peers have been counted: the namespace   *)
(* checker, which does not, has nothing to do.                             *)
Sparing(new) ==
  /\ \A s \in new.schedulers \cup new.events.manage : s.type \in Frugal
  /\ "removeExtra" \in new.opt.enabled
  /\ \A s \in DOMAIN new.stores :
       "namespace" \in DOMAIN new.stores[s] /\ new.stores[s].namespace = "global"

(* Every store, those to come as well, has one entry for each of the       *)
(* location labels of the configuration, 0 where it has no such label.     *)
Labels(new) ==
  {new.stores[s].location : s \in DOMAIN new.stores}
  \cup (IF new.events.add = {} THEN {} ELSE {NewStore.location})

Located(new) ==
  /\ \A s \in DOMAIN new.stores : "location" \in DOMAIN new.stores[s]
  /\ Labels(new) \subseteq Seq(Nat)
  /\ \A a, b \in Labels(new) : Len(a) = Len(b)

ASSUME KindAssumption ==
  /\ \A c \in {"balanceLeader", "addNodes", "addNodesDynamic", "hotRead", "hotWrite", "rejecting",
               "leaving", "zoned", "managed"} :
       LET new == SimCaseMap[c] IN Ordinary(new) /\ Located(new) /\ Stocked(new) /\ Sparing(new)
  /\ \A c \in {"relocated", "shuffled"} :
       LET new == SimCaseMap[c] IN Ordinary(new) /\ Located(new) /\ Stocked(new)
  /\ Ordinary(SimCaseMap["regionSplit"]) /\ Located(SimCaseMap["regionSplit"])
=============================================================================
