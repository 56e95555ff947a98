# TLA+ verification of PD (Placement Driver)

PD is the control plane of a TiKV cluster. A few PD servers, each with an
embedded etcd member, elect a PD leader; the leader hands out timestamps and
cluster-wide IDs, learns the regions and stores from heartbeats, and schedules
operators that move regions about. This directory holds TLA+ models of that code,
the TLC runs that check them, and theorems checked by TLAPS.

## 1. Inventory

| component | state it keeps | operations | properties that make it correct |
|---|---|---|---|
| Leader election `server/leader.go` | the leader key in etcd under a lease; `s.leader`; the watch | `leaderLoop`, `campaignLeader`, `watchLeader`, `deleteLeaderKey`, `ResignLeader`, `etcdLeaderLoop` | a server that lost the key stops; the election settles; followers learn of changes |
| Timestamp oracle `server/tso.go`, `Tso` of `grpc_service.go` | saved timestamp in etcd, `lastSavedTime`, the published `atomicObject` | `syncTimestamp`, `updateTimestamp`, `saveTimestamp`, `getRespTS` | timestamps are unique and ordered across ticks, overflow, elections, restarts and clock jumps |
| ID allocator `server/id.go` | `alloc_id` in etcd; a window per server | `Alloc`, `generate` | no ID twice |
| Region cache `server/core/region.go`, `region_tree.go` | B-tree by start key, map by ID, leader and follower subtrees per store | `SetRegion`, `AddRegion`, `RemoveRegion`, lookups | the three agree; no overlap in the tree |
| Region heartbeats `server/cluster_info.go`, `cluster_worker.go` | the cache, region storage, statistics, store counters | `handleRegionHeartbeat` | stale reports do not win; the cache converges |
| Region storage `server/core/region_storage.go` | a batch in memory, leveldb | `SaveRegion`, `FlushRegion`, `DeleteRegion`, `loadRegions` | what is loaded is consistent; losses are repaired |
| Stores `server/cluster.go`, `core/store.go` | store records in memory and etcd, weights, cluster version | `putStore`, `RemoveStore`, `BuryStore`, `SetStoreState`, `SetStoreWeight`, `checkStores`, `RemoveTombStoneRecords`, blocking | memory and etcd agree after any failure; an emptied offline store is buried; a tombstone stays one |
| Bootstrap, GC safe point `server/server.go`, `grpc_service.go` | etcd keys | `bootstrapCluster`, `UpdateGCSafePoint` | one bootstrap wins; the safe point never goes back |
| Operators `server/schedule/operator*.go`, `waiting_operator.go` | running operators by region, waiting operators and their counts, notifier queue | `AddOperator`, `AddWaitingOperator`, `PromoteWaitingOperator`, `Dispatch`, `PushOperators`, `Operator.Check` | counts and queues are exact; every operator ends |
| Heartbeat streams `server/heartbeat_streams.go` | stream per store, message channel | `bindStream`, `SendMsg`, `run` | a lost command holds nothing up for ever |
| Coordinator `server/coordinator.go` | schedulers and their goroutines | `run`, `patrolRegions`, `runScheduler`, `addScheduler`, `removeScheduler`, `readUserConfig` | checkers and schedulers together bring the cluster to rest |
| Checkers `server/checker/`, schedulers `server/schedulers/`, filters and selectors `server/schedule/` | caches of tainted stores, hot region limits, the adjacent scheduler's position | `Check`, `Schedule`, `Scatter` | replicas are never lost or crowded, leaders are voters |
| User rules `plugin/` | `PluginsMap` | `LoadConfig`, `ProduceScheduler`, `UpdateStoreIDs` | the rules in force are obeyed; PD's schedulers keep away |
| Region syncer `server/region_syncer/` | history ring and index, bound streams | `RunServer`, `Sync`, `syncHistoryRegion`, `broadcast`, `StartSyncWithLeader` | the ring is exact; a follower in step has the leader's records |
| Client `client/client.go` | request channel, stream, leader connection | `tsLoop`, `tsCancelLoop`, `leaderLoop`, `Close` | each request is answered, with a timestamp of its own |
| Namespaces `table/` | namespaces in memory and etcd | `CreateNamespace`, `Add...`, `Remove...`, `ReloadNamespaces` | a table, a store, the meta data have one namespace |
| Options `server/option.go`, `config.go` | schedule options in memory and etcd | `SetScheduleConfig` and its like, `persist`, `reload` | what was saved stays in force |
| Caches `pkg/cache/` | 2Q, LRU, TTL, FIFO | `Put`, `Get`, `Remove`, `doGC` | no key twice, no outdated value |
| Simulator `tools/pd-simulator/` | TiKV's regions and nodes | tasks, events, cases with their `Checker` | it is the environment of the schedulers |
| Statistics, placement parser, API routing, tools | averages, none | read | see section 8 |

Interaction. Every server runs `leaderLoop`; `campaignLeader` starts the raft
cluster (which loads stores and regions and starts the coordinator, the background
jobs and the region syncer), then the timestamp, then enables the leader, and
undoes all of it by deferred calls. gRPC handlers run in goroutines of their own:
one per Tso stream, one per store's region heartbeat stream, one per other call.
They share memory with `leaderLoop` and the background jobs under
read-write locks that are often held for a part of the work only. Across servers
everything goes through etcd transactions guarded by the leader key
(`Server.LeaderTxn`), except the region syncer's stream.

What is hard: leases that end while their holder is not looking; transactions
whose error does not say whether they were applied; clocks; values loaded in one
step and used in another; checks under a read lock followed by an update under
the write lock; batched writes lost in a crash. `PROJECT.json` lists these hazards
at their lines with the properties that cover them.

## 2. Modules

| module | models | kind |
|---|---|---|
| `LeaderTSO` | election and timestamp oracle together, because their interplay is what makes timestamps safe | component |
| `TimestampOracle` | what callers of `Tso` are promised | abstract specification |
| `LeaderTSOProofs`, `MonotonicProofs` | | theorems about `LeaderTSO` |
| `MCLeaderTSO` | small instances with arbitrary failures | TLC |
| `MCLeaderLive`, `MCWatchCompacted` | a bounded number of failures, fairness | TLC |
| `MCFallBack` | adds a history variable for what had been answered when a request was sent | TLC |
| `IDAllocator` | the ID allocator | component |
| `RegionCache`, `MCRegionCache`, `RegionCacheProofs` | region heartbeats, cache and region storage | component, TLC, theorems |
| `Operators` | the steps of an operator, its progress, its influence, and the functions that build operators | library of `OperatorController` and `Scheduling` |
| `Handler` | the operators an administrator asks for | library |
| `OperatorController`, `MCOperators`, `OperatorControllerProofs` | the controller with its goroutines, the streams, TiKV carrying commands out | component, TLC, theorems |
| `Filters`, `Checkers`, `Schedulers`, `HotRegions`, `Adjacent` | filters, scores and selectors; the four checkers; the schedulers | libraries of `Scheduling` |
| `UserRules` | the rules of the plugin | library of `Scheduling` |
| `Simulator`, `SimCases` | TiKV as the simulator has it; its cases, and others of the same form | environment |
| `Scheduling`, `SchedulingProofs` | the coordinator, composing all of these into a closed loop | composition, theorems |
| `Stores`, `RegionSyncer`, `Client`, `Caches`, `Namespaces`, `Options` | one service each | components |
| `MetadataProofs` | `IDAllocator`, `Stores`, `Namespaces`, `Options`: what the leader keeps in etcd | theorems |
| `RegionSyncerProofs` | `RegionSyncer` | theorems |
| `LibraryProofs` | `Client`, `Caches` | theorems |
| `Services` | these and `IDAllocator` side by side | composition for TLC |

Operators commented "Mutant" are deliberately wrong variants of the definition
that follows them; none of them is used by a specification. Each is the bug that
the properties named in `PROJECT.json` catch.

### LeaderTSO

`pc[s]` is the line at which server `s`'s `leaderLoop` goroutine stands; each
action runs it to the next point where other goroutines or etcd can be seen.

| code | model |
|---|---|
| `leaderLoop` | `GetLeader`, `DeleteLeaderKey`, `DeleteError`, `Elect` |
| `watchLeader` | `WatchDelete`, `WatchCanceled`, `WatchCompacted`; `deleted[s]` is the DELETE event on its way |
| `campaignLeader` | `CampaignLeader`, `CampaignError`, `CampaignFails`, `EnableLeader`, `KeepAliveClosed`, `EndTick`, and its deferred calls `DisableLeader`, `ClearTimestamp` in the order in which Go runs them |
| `syncTimestamp`, `updateTimestamp` | `SyncTimestamp`, `UpdateTimestamp` up to the save, `SaveTimestamp` or `SaveError`, `StoreTimestamp` |
| `getRespTS` | `LoadTS` and `AddTS`, the two atomic steps, with `Retry` |
| `Tso` | `Tso`: it starts on a server that takes itself for the leader, and does not look again |
| `ResignLeader`, `etcdLeaderLoop` | actions of the same names |
| etcd, crashes | `LeaseExpires`, `EtcdLeaderChanges`, `EtcdElects`, `Crash`, `Restart` |

Time is counted in ticks, `Ms` to a millisecond, so that the truncation in a
response matters. `time.Now()` returns any member of `Clock`. `objs` is the list
of all `atomicObject`s ever published; `ts[s]` and `cur[r]` are pointers into it,
so a request that holds an old object is what it is in the code. Whatever
may wait (retries sleep, ticks come late) is covered by not being forced to step.
`lead` is the set of servers whose own etcd node says that it leads: it may hold
none or several, since nodes learn of elections at different times.

`synced` and `prior` are history variables: the answers that must lie below a
new one, because they came from the same server or before the server loaded the
saved timestamp.

### IDAllocator

`Alloc` with its mutex, `generate` in two steps (read, guarded transaction).
Leadership is an arbitrary variable here, since nothing about the election is
needed for safety; that is more general than composing with `LeaderTSO`.

### Operators and OperatorController

An operator is a record with its steps and `currentStep`. Where the code ranges
over a Go map, or over a list whose order TiKV chose, a builder returns the set of
the operators it can build. `op` lists all operators ever created, so that the
goroutines that share one share it in the model. There is one goroutine for the
heartbeat stream of each store and one for `PushOperators`; `disp[g]` is where `g`
stands and the region it has in its hand, which others may have seen newer:

| code | model |
|---|---|
| `handleRegionHeartbeat` | `RegionHeartbeat`, the comparison with the cache under the read lock; `HeartbeatPut`, the put under the write lock |
| `pollNeedDispatchRegion` | `pollNeedDispatchRegion`, the load of item, region and step; `pollCheck`, its `Check`, the controller's lock held over both (`Locked`) |
| `Dispatch`, on the region of a heartbeat or of the poll | `Dispatch` (`GetOperator`, `IsTimeout`, the load of `currentStep`), `DispatchCheck` (the store, the command), `DispatchRemove` |
| `RemoveOperator` | `removing` holds what an administrator or `checkOperators` has found and not yet removed |

`Operator.Check` loads the position in one step and stores the one it comes to in
another, whatever was stored between them; `slipped` is a history variable, the regions of
which the running operator was set back in this way, or that left the cache while it ran.
The lock of the controller is dropped between the actions, as in the code, except in a poll. `Propose` separates building an operator from offering it, so that the region
may have changed. `exceedStoreLimit` is a free choice wherever an operator costs a
store anything. `Expire` stands for the passing of ten seconds or ten minutes.

### Scheduling

The closed loop. `PatrolRegion` is one turn of `patrolRegions`, `RunScheduler` one
call of a scheduler's `Schedule` through `scheduleByNamespace`, `readUserConfig` one
reading of the plugin's file. `regions` is what TiKV has, `cache` what PD knows of it;
checkers and schedulers see the cache. `Heartbeat` brings one region to the cache,
as it is, and takes the command of its operator's step back (`Command`): the node carries it out at
once, or keeps it in `tasks` (`Node.tasks`, one task per region, as in `AddTask`) until
`StepTask`, after other heartbeats, a timeout of the operator, another operator or a split,
which is the case `slow` times in a behaviour. `RemoveStore`, `SetStoreWeight` and `PutStore` take a clone
of a store, which `putStore` puts back later; `AddScheduler` and `Cleanup` block and
unblock stores in between. Two history variables name the consequences: a region is
`stray` once an operator was made for it while PD did not know what an earlier
command had done or would do, or went past a step while its command was under way;
a store is `lost` once a clone undid a `BlockStore` or an `UnblockStore`.

An operator starts when it is added, under `checkAddOperator`; the waiting list
and the races about one operator are `OperatorController`'s subject and are not
repeated. Each checker and scheduler is an operator from a record `Cluster` (what
it reads) to the set of what it may propose: random picks, map order and ties are
the choice among them. Scores are integers; the ratio and weight formulas are
those of the source on the scale of the instances. A store in the taint cache, and a source or
target in the hits counter of balance-region, is a free choice of at most one store. Whether
`AddWaitingOperator` refuses a checker's operator is free too, so that each later checker may have its turn.

`SimCases` has eleven of the simulator's cases with their `Checker`s, scaled down
to two to four regions, and nine more that put the rest of the code to work:
label rejection, an offline store, zones, namespaces, `evict-leader` and
`grant-leader` coming and going, user rules in time intervals, the random
schedulers, scattering, and an administrator who asks for any one operator of
`Handler`. `Scheduling` takes the cases as a constant, `CaseMap`; the runs give it
`SimCaseMap`, and the theorem holds for any that satisfy `CaseAssumption`.

### Services

Each of the seven services has variables of its own and no action of one reads the
variables of another, so `Services` picks one at the start and lets the others rest
in their initial states; this checks each exactly as a run of its own would.

`Stores`: a handler that reads a store, clones it and puts it back stands between
the two in `op[c]`. `writes` lets a write succeed, fail, or fail although etcd
applied it (`unsure`). A bootstrap checks, commits and starts the cluster in three steps, and its
commit too may end in an error although etcd applied it. `RegionSyncer`: one leader, one follower; `recorded` is the
ghost sequence the ring is compared with, `aligned` says that nothing has happened
after which agreement is not promised. `Client`:
the three goroutines with the channels between them; the servers may lose their leader or hang
(`LeaderMoves`, `LeaderHangs`), and one that has lost its lease goes on answering
from its own window of timestamps (`term`, `oracle`) until it notices
(`LeaderStepsDown`), since `getRespTS` does not look at the lease. `Options`: memory of each server and the key; a call that reads,
changes, stores and persists stands between these in `optCall[c]`; `run` of the
coordinator rewrites the list of schedulers in the same way. `Namespaces` and
`Caches` hold one lock per call, so that a call is one action; table IDs may be any
integers, 0 included, as the handler takes them.

### RegionCache

TiKV's true `layout` of regions changes by splits, merges, conf changes and
leader transfers, with the epochs TiKV gives them (external). `Heartbeat` puts
the present state of a region on its leader's stream; streams have one goroutine
each (`pc[s]`, `region[s]`), and a heartbeat is handled by `CheckHeartbeat`
(under the read lock), `SaveRegion` (no lock), `UpdateCache` (write lock). The
tree's operations are functions of the tree with the names of the source; the
B-tree is a set of items ordered by start key. `FlushRegion` is the background
flush, `Reelected` reloads from leveldb when the server gets the leadership back,
`Restart` does so after a crash, which also loses the batch. Approximate size and
keys, down and pending peers are one Boolean, "touched", chosen freely.

`Loaded` says in one definition what the loop of `loadRegions` leaves; the
run `region_cache` compares it with the loop itself (`LoadedByLoop`).

## 3. Runs

| run | what it shows | bounds |
|---|---|---|
| `tso_safety` | unique, ordered timestamps; saved and physical time grow; refinement of `TimestampOracle` | 2 servers, 2 requests of 2 timestamps, clock readings 2 and 5, physical time up to 7, 2 ticks per ms, window 3, `maxLogical` 4, 2 attempts |
| `leader_liveness` | the election settles, stale leaders stop, followers catch up | 2 servers of different priority, 2 failures |
| `region_cache` | cache invariants | 2 stores, 3 keys, 3 region IDs, 3 changes, 1 failure, streams of length 1 |
| `region_converges` | the cache becomes what TiKV has | 2 keys, 2 changes, 1 failure |
| `operators` | waiting counts and merge pairs exact, every running operator that has not slipped is pushed, every operator ends | 2 regions on 3 stores, 3 streams with 2 heartbeats in hand at a time, the push ticker, 2 operators, 1 command under way per region, 1 waiting operator per scheduler |
| `scheduling` | every case comes to rest as its `Checker` wants; leaders are voters and replicas kept, stray regions apart; isolation is kept; a store is blocked by one scheduler, unless a clone undid it | 20 cases of 2 to 4 stores and 1 to 4 regions; timeouts and slow commands as many as a case has |
| `services` | see section 2: unique IDs, durable stores, exact history, answered requests, sound caches, exclusive namespaces, restored options | 2 servers and 3 calls of `Alloc`; 2 stores that race to bootstrap, 2 handlers and 4 calls; a ring of 2 records, 2 regions with 3 changes in all, 2 streams; 2 members and 2 timestamp requests; 3 keys in a cache of 2; 2 namespaces, 2 tables of which one is 0, 5 calls; 2 servers with 2 terms and 1 call; 1 or 2 faults each |
| `watch_compacted` | violation, see below | as `leader_liveness` with 1 failure and compaction |
| `tso_fallback` | violation, see below | as `tso_safety` |
| `region_stale` | violation, see below | 2 keys, 3 changes |
| `scatter_isolation` | violation, see below | the case `scattered`: 4 stores in 3 zones |
| `store_transitions` | violation, see below | the stores of `services` |

Why these bounds are enough to be interesting. Two servers give a stale and a new
leader; a third adds nothing in kind, because servers meet only in two etcd keys.
In `tso_safety` a window lasts for one or two objects, so it is renewed within a
run, elections happen in the middle of every step, a clock reading of 2 after
an object at 5 is a clock that went back, and two requests of two timestamps reach
`maxLogical`, so that the object is replaced by the branch for a half-used logical
part. `MaxPhysical` stops ticks and elections that would go beyond it; requests and
failures go on. In `region_cache` three changes make every combination of a split,
a merge and a conf change, seen out of order; three keys allow a region strictly
inside an old one. In `operators` two operators are the two halves of a merge, or
one that replaces or follows the other on a region; one command under way is either
overtaken by a heartbeat or lost; two streams and the ticker are three goroutines
that check one operator on three ages of its region, which is what it takes to set its step back
after its item was dropped. In `scheduling` the sizes are those at which
each scheduler has something to do and can overshoot; all interleavings of one
operator per limit are covered, and one slow command with one timeout puts a command in the
way of the next operator. In `services` three calls of `Alloc` with windows of two
use up a window; four calls let two handlers hold clones of a store while a third
change and the background job come in between; the ring of two records wraps;
two batches of the client have different deadlines and streams; a cache of two
entries evicts and remembers a ghost with the third key; five calls create two
namespaces and move a table between them through a failed save; two terms make a
server that was the leader the leader again.

Symmetry is used over requests and stores in runs without liveness only; the
servers of `tso_safety` have different priorities and are told apart. In
`operators`, `scheduling` and `services` the system may come to an end (a cluster at
rest, a client that is closed, bounds that are used up), so deadlock is not an
error there; it is checked in the others.

## 4. Fairness

`MCLeaderLive.Fairness`: each goroutine of a running server keeps running (weak
fairness of `Election`, `Serving`, `EtcdLeaderLoop`); crashed servers are
restarted; etcd expires a lease nobody renews and elects a leader. The closed
keep-alive channel is noticed under strong fairness: Go's `select` chooses among
ready channels uniformly, so it cannot pick the ticker for ever, yet between two
selects the event is not enabled in the model. Failures are bounded by
`MaxFaults` and never forced. `RegionCache.Fairness`: each stream's goroutine
runs; every region is reported periodically, under strong fairness because the
bound on the queue disables the report now and then.

`OperatorController.Fairness`: heartbeats go on, the goroutine of each stream, a poll that
has begun and the background job run, the streams' goroutine empties its channel, and time passes. That
TiKV ever carries out a command is not assumed: an operator ends by its timeout.

`Scheduling.FairSpec`: as long as the coordinator or the simulator has something to do, something
is done. Which scheduler finds an operator is not forced, so two of them could
undo each other's work for ever if the code allowed it: that is what `CaseSettles`
excludes. What users may do is never forced.

`Services.StoresFairness`: handlers that are about to write do so, and the background
job ticks. `Services.ClientFairness`: the loops run and a deadline's timer fires
unless its batch is answered first; that a server answers is not assumed.

## 5. Findings

* `watch_compacted`. When the watched revision is compacted, `watchLeader` goes
  on from the compact revision. A DELETE of the leader key below it is never
  delivered, PUTs are ignored, and the follower holds on to the old leader.
* `tso_fallback`. `getRespTS` does not look at the lease. A stale leader answers
  with timestamps that are unique, but smaller than those the new leader has
  already given to the same client.
* `region_stale`. The staleness test of `handleRegionHeartbeat` and the update
  are not one critical section; of two heartbeats that pass the test together the
  older may be applied last. `CacheConverges` shows that the next heartbeat
  repairs it.
* `scatter_isolation`. The guard of the region scatterer compares each peer's new
  store with its old one, among the region's old stores; two peers of one operator
  may move into the same zone.
* `store_transitions`. `RemoveStore` and `BuryStore` hold the read lock only; the
  clone one of them has taken overwrites what the other has put, and a tombstone
  becomes offline.

Observations made while modelling, each part of the model as the code has it, and
named where a property excludes it:

* `UpdateGCSafePoint` loads, compares and saves without a lock: a smaller safe point may be
  saved last (`grpc_service.go:692`, against the comment at `client/client.go:70`).
* `MergeLabels` changes the labels of the cached store before the strict label
  check and before the save (`core/store.go:437`). Two `putStore`s at once may
  register one address twice. `RemoveTombStoneRecords` may be undone by a late put,
  leaves the weights in etcd, and `UnblockStore` of a store it removed is fatal.
* `RemoveStore`, `SetStoreWeight` and `PutStore` put back clones: a `BlockStore` or
  `UnblockStore` that came in between is undone, so that a store is evicted of its leaders and a
  target for leaders at the same time, or stays blocked for good (`lost`).
* `bootstrapCluster` returns an error when its commit does, although the cluster key
  may have been written; the cluster then starts with the next election.
* `Operator.Check` may be called by several goroutines, as its comment says
  (`operator.go:427`), but a call that began earlier, on an older region, sets the
  position back. If `pollNeedDispatchRegion` has dropped the item of the operator as that of a
  finished one in between, it is never pushed again; the next heartbeat of
  the region, or the timeout, ends it (`slipped`). The same happens when a stale heartbeat takes
  the region out of the cache for a while.
* `checkAddOperator` compares the cached epoch only. A command that outlives its
  operator lands on a region for which the next one has been made: a transfer of the leadership goes to
  the peer that the next operator removes, or a peer is added or removed that it
  did not count (`stray`). Such a region may have a leader that is no peer of it, two peers
  too many or a voter too few until the checkers repair it. The simulator's
  `removePeer` removes the leader's peer when asked to; balance-region, given a region whose leader is
  no peer of it, looks up store 0 and passes no source to `NewDistinctScoreFilter`
  (`balance_region.go:184`).
* The region syncer's `broadcast` deletes a failed stream by name after it dropped
  the lock, possibly a new one. A follower that knows more records than a restarted
  leader is taken for being in step; a failed `SaveRegion` shifts its indexes.
* `tsLoop` that returns at the deadline's select abandons its batch; a request sent
  after `Close` has drained the channel waits for its own context.
* `coordinator.run` drops from the configuration a scheduler that a handler added
  while the cluster was being prepared, and overwrites a concurrent
  `SetScheduleConfig`. `reload` never removes anything: a server that leads again
  brings back schedulers, namespaces and labels that were deleted meanwhile.
  `RemoveSchedulerCfg` fails at a user's scheduler type of a plugin not loaded.
* Table 0 is a table for the namespace handler, and 0 is also the table ID of a meta key:
  with table 0 in one namespace and the meta data in another, the meta key has two
  namespaces (`MetaClaimedTwice`).
* A failed save of a namespace leaves memory ahead of etcd, and the next
  classifier that loads it may put one table into two namespaces.
* `AddMergeRegionOperator` refuses adjacent regions at the ends of the key space
  and takes some that are not adjacent (`handler.go:617`).
* The user's move-leader scheduler may hand the leadership to a learner, and a rule
  removed from the file keeps its scheduler; `readUserConfig` does not stop with
  the coordinator. `removeOperatorLocked` removes whatever runs on the region.

## 6. Theorems

`LeaderTSOProofs`, for every value of the constants that satisfies the named
assumptions of `LeaderTSO` (times are natural numbers, at least one tick per
millisecond, and a save interval of at least one millisecond):

* `TypeCorrect`, `PhysicalStaysBelowSaved`, `HolderIsNewest`, `TimestampsUnique`:
  the invariants `TypeOK`, `PhysicalBelowSaved`, `KeyHolderIsNewest`,
  `UniqueTimestamps`;
* `SavedNeverGoesBack`, `PhysicalAdvances`: the action properties
  `SavedMonotonic`, `PhysicalMonotonic`;
* `ImplementsOracle`: the refinement `OracleSpec`.

None of these is inductive. `saveTimestamp` overwrites the saved timestamp
without looking at it, so one must know that the writer's new value is above the
old one, that is, that the writer is the last to have saved. The invariant `TSOInv`
says so in terms of windows: from its first save until it clears `s.ts`, a server
publishes between what it published last and `lastSavedTime` (`OnTheWay`,
`Saved`); objects of others lie outside that window (`ObjectsOutside`), windows
are a millisecond apart (`WindowsApart`), and the holder of the leader key has
the highest (`HolderOnTop`). A server that lost the key may go on
publishing, but only inside its own window, which everybody after it has
skipped: that is why a late notice of a lost lease is harmless to
uniqueness. Objects are then a millisecond apart (`ObjectsApart`), which survives the
truncation to milliseconds (`MilliApart`), and every answer is a block of one
object's logical values (`Answers`).

`MonotonicProofs`: `TimestampsGrow`, the invariant `MonotonicTimestamps`, from the
invariant of `LeaderTSOProofs` and three additions. What a request has to exceed
is a set of requests already answered (`History`). Whatever a server with a window
has answered, and whatever had been answered when it loaded the saved timestamp,
lies below its window or on the object it publishes (`WindowAhead`). The object that a
request holds lies above what that request has to exceed, even when the server has
meanwhile replaced the object (`ObjectAhead`). `History`, `WindowAhead` and `ObjectAhead`
were checked by TLC on the instance of `tso_safety` before they were proved.

`RegionCacheProofs`, under `RegionAssumption` and `NoneAssumption` of `RegionCache`
(finitely many stores, at least one key and one ID; "none" is no store and no region): `TypeCorrect`,
`TreeIsTheMap`, `IndexIsTheMap`, `LookupExact`. The tree and the indexes are correct
only together: `RemoveRegion` takes a region out of the tree by its range and out of the
indexes by its peers, so it leaves something behind unless all of them hold the same
regions. `Consistent(c)` says that they do, of a cache as a value; it is preserved
by `RemoveRegion`, `AddRegion`, `SetRegion` and the loading from disk, each a
lemma. They need of the regions they meet that none is empty and that its leader is
one of its peers (`GoodRegions`), which has to be carried from TiKV's layout through the
streams, the handlers, the batch and the disk. Nothing is needed of epochs: a
stale region can make the cache wrong about TiKV (run `region_stale`) but not
inconsistent.
`LoadingIsTheLoop` (`LoadedByLoop`): `Loaded` says at once what the loop of `loadRegions`
leaves, the loop is a recursive function. A consistent cache is determined by its map
(`Determined`), one turn of the loop takes the map of the regions up to n - 1 to that
of the regions up to n (`TurnUpTo`), and the least turn after which it would be
another does not exist. The same argument shows that the recursive definition has
a value at all.

`MetadataProofs`, of what the leader keeps in memory and in etcd, under the typing
assumptions of the four modules:

* `TypeCorrect`, `IDsUnique`, `WindowsCovered`, `AllocIDGrows` of `IDAllocator`.
  `WindowsReserved` is the inductive core: what is handed out and what is left in
  windows is covered by `alloc_id` and pairwise disjoint, and a transaction succeeds
  only on the value it read.
* `StoresDurable`, the invariant `DurableStores`. Besides the types
  of what handlers hold between their steps it needs that a cluster that runs was
  bootstrapped (`RunsBootstrapped`), since a second bootstrap would write past the
  cache; a failed write takes its store out of the promise before memory and
  etcd can differ.
* `NamespacesStayExclusive`, the invariant `NamespacesExclusive`, for table IDs of any
  sign and 0: only the meta key while it is `MetaClaimedTwice` is excepted. The inductive
  part says that the namespaces in memory are disjoint (`NsDisjoint`), that each is
  filed in etcd under its own ID (`NsFiled`), and that memory and etcd agree until
  a save has failed (`NsSame`): only then does a reload keep them disjoint.
* `OptionsStayRestored`, the invariant `OptionsRestored`, for any servers, callers and
  schedulers, if the configuration file names no scheduler twice and none of the
  plugin's (`OptionsAssumption`). `OptionsRestored` speaks of states without a call under
  way; the inductive `RestoredInv` speaks of those in which no call has changed the
  leader's options without having saved them, so that it can be followed through
  the steps of calls on other servers and of those that have only read. It is
  established again in two ways: by `reload` (`ReloadOpt`), and by the save of a call
  that was alone, which still finds in memory what it saves (`AloneInv`,
  `SnapInv`). `reload` restores the saved list exactly only because every list names
  a scheduler once, and all of the configuration file until `run()` has dropped one
  (`OptTypes`): that adding, removing, merging and filtering keep this is proved of
  the sequences themselves (`AddList`, `RemoveList`, `AdjustList`, `PickedList`).

`RegionSyncerProofs`, for a ring, a batch and a flush interval of at least one and
finitely many regions: `HistoryStaysExact` (`HistoryExact`), `HistoriesStayAgreed`
(`HistoriesAgree`). `Ring` describes a history buffer by its head, tail and index,
`Slot` gives the place of an index in the wrapped array; recording one region
preserves both at each of the boundaries (tail at the end, tail on head). A
response records many regions at once: that a fold over them is as many single
steps is proved by looking at the least index at which it would fail. What is on
its way is either marked inexact or a slice of what the leader recorded
(`WireExact`, `SendingExact`).

`LibraryProofs`: `TimestampsUnique` (`ClientTimestamps`), by the position of the oracle in each
window, which no timestamp of that window is ahead of (`BelowOracle`); the timestamps of a batch
are counted back from the last one granted and do not reach those before. It covers
the answers of a server that has lost its lease: they are unique, and above what that server and
the leaders before it had handed out when the request was made. That they are above
what the new leader had handed out is false (run `tso_fallback`) and not claimed.
`CachesStaySound` (`CachesSound`): each of the three lists of the 2Q cache holds a key
once and keeps to its capacity, no key is in two of them, and the value it
holds is the last one put (`TwoQueueInv`). `CachesAssumption` asks for a 2Q
cache of at least two items: with one, the ghost list gets the capacity 0, which
the list takes for "no limit". PD makes its caches with 1000 and more.

`OperatorControllerProofs`, for any regions, limits and any proposals that `wellFormed`
describes, which is what every author in the source makes: one operator that is
no merge, or the two of `CreateMergeRegionOperator`, of the same priority. All
proposals of `MCOperators` are of that form, so the condition takes nothing from
the run. `ControllerTypeOK` (`TypeOK`), `MergeHalvesStayAdjacent` (`MergeHalvesAdjacent`),
`WaitingStaysCounted` (`WaitingCounted`). None is inductive. `GetOperator` takes
two operators when the head of a bucket is a merge: that two are there and belong
together is a fact about the whole bucket (`Bucket`: every operator in it is
single, or an active half followed by its passive half, or that passive half). The
two of a merge stay together because `AddWaitingOperator` puts both in one step,
and only what an author still holds can come behind them (`HandOK`). Operators are
numbered in the order in which they are made, so none waits twice, and putting or
taking a group changes the set that is counted by exactly one (`CountOK`). An
operator that a goroutine holds between two locked sections must still be a known
one of the region it was found for when it is used (`DispOK`).

`RunningStaysPushed` (`RunningIsPushed`), for any number of streams and heartbeats in
hand: a running operator that is unfinished has its own item in the notifier queue, or has
slipped. The item goes when a poll finds the operator finished or its region gone. The
poll holds the lock of the controller, so nobody replaces or removes the operator between its load and its store
(`Polls`); the position it loaded is no further than the operator's unless the operator has slipped
meanwhile, and an operator that is finished stays finished unless its position is set
back (`FinishKept`). So all that can part an unfinished operator from its item is a `Check` that
stores an earlier position, or a put that takes its region out of the cache, and both
are what `slipped` records. `OperatorsEnd` is checked without that exception: a
slipped operator ends too.

`SchedulingProofs`: `StoresBlockedByOne` (`BlockedByOne`), for any clusters,
schedulers, events and rules in the form of a case. `CaseAssumption` says of a
case that its blocked stores are those of the schedulers that it starts with, at
most one each, and that stores that join later are new. The inductive form
(`BlockInv`) is about the schedulers of which a goroutine still runs, whether
removed or not: each holds a blocked store, no two hold the same, and each blocked
store is held, except for the stores that are `lost`. A `Cleanup` therefore never unblocks a store under another
scheduler, and a clone that is put back harms no other store than its own. The rules of the plugin replace schedulers of the plugin only, whatever
they say.

The other theorems of `SchedulingProofs` are about what scheduling does to a region, in
all cases of a kind (end of `SimCases`). A case is `Ordinary` if no node dies, no region may be
merged, nobody asks for an operator by a rule, a request or a scatter, and its
schedulers, those that a user adds on the way included, are any of ten
(`Balancers`). Stores, regions, splits, writes, stores that join or leave, timeouts and the
number of all these are arbitrary. It is `Stocked` if its regions start with all
their voters, `Sparing` if no scheduler adds a peer without counting first, and `Located`
if the location of every store, those that join later included, has one entry for each location
label of the configuration, 0 where the store has no such label; any real cluster is.
The conditions are met: TLC evaluates (`KindAssumption`) that 12 of the cases are
ordinary and located, 11 of them stocked and 9 sparing as well.

The first three are about regions that are not `stray`: commands may be under way as long as they
take and outlive their operators, and whoever builds an operator knows only the
cache; but an operator that was made for an outdated region is excepted.

* `LeadersVote` (`LeaderIsVoter`), in every ordinary case: a region is led by one of its voters.
* `VotersStay`, if stocked too: no region has fewer voters than `max-replicas`.
* `ReplicasStay` (`ReplicasKept`), if sparing too: nor more than one peer too many.
* `ReplicasApart` (`IsolationKept`), in every ordinary and located case: no balance,
  hot-region or scatter-range operator leaves the replicas of a region less spread than they were.

None is inductive: a region is between two steps of an operator most of the time, and the
operator may be cut short there by a timeout, by one of a higher level or by a split. The
inductive invariant `PlanInv` says what the rest of an unfinished operator owes
its region: that from the region as it is the remaining steps never remove the leader or
make a learner lead (`Led`), never take a voter from the last `max-replicas` (`Covered`) and
add no second peer too many (`Modest`); and that a region without an operator has kept what is
asked of it. It says the same of a command under way, which is that of the step its operator
is at, or the last of an operator that is gone (`TasksFollowed`), and of the cached regions that operators
are made from (`CacheHeld`). The proof has three layers. Passing finished steps keeps it (`Pass...`), and so
does each task of the simulator (`Move...`). Every builder of `Operators`, every
scheduler of `Balancers` and every checker makes such a plan of the region it was shown
(`Plan`, `...Good`). Then each action of `Scheduling` keeps `PlanInv`. TLC checked these parts of
`PlanInv` on the 12 cases first.

`ReplicasApart` adds one more part, `PlansFair`. An operator of `Spreading` moves one
replica, from a store `x` to a store `t` (`Swaps`), and `t` is at least as far from the
replicas that stay as `x` was (`Farther`); that is what `NewDistinctScoreFilter` asks of a target.
`PlansFair` is about the peers in the operator's epoch, so that no other operator, split or
joining store can disturb it. What `IsolationKept` compares is another number, the sum of the distances
between all replicas. It is a recursive function over sets, so the proof shows first that such a
sum does not depend on the order in which elements are taken (`Sums...`, `Total...`), then
that the distance of two stores is symmetric, labels that are not set included: the sum changes by
twice the one distance that the filter compares (`IsoMove`).

What is left out, is left out for a reason. The upper bound fails for schedulers
that do not count: an operator of a high level may replace a move that has added its peer and
not yet removed the old one, and shuffle-region, shuffle-hot-region or the namespace
checker then adds another. An administrator or a scatter may ask for a leader that is still a
learner. A merge may lose its target, a node that dies takes voters with it. The adjacent
scheduler and the scatterer choose by folds over sequences, of which the provers know
nothing in general.

## 7. Only model-checked

* Liveness and convergence: fairness is out of the prover's reach.
* `MergeHalvesAdjacent` is both checked and proved, but two operators are just one
  merge: that other operators stand before and behind the halves is covered by the theorem only.
* `LeaderIsVoter`, `ReplicasKept` and `IsolationKept` of `Scheduling` in the cases that are not of the
  kinds of section 6: TLC shows them of the cases it is given, not of any cluster.

## 8. Not modelled

* Statistics (`server/statistics/`): rolling averages over minutes of heartbeats.
  What a region's flow is and whether it is hot is given by a case.
* The placement parser (`server/placement/`): nothing in the server calls it.
* File, flag and TLS handling, joining an etcd cluster (etcd's own protocol), HTTP
  routing, the calls that only read, metrics, logging, the command line tools: I/O.
* Region heartbeats keep no learner and pending indexes in the model; they have the
  shape of the follower index.
* A store's rate limit bucket (a library) and the taint and hit caches are free
  choices.
* An etcd transaction is applied or refused while its caller waits, never after it
  gave up.
* In `Scheduling` a heartbeat is taken over when it is sent; heartbeats that arrive late or out
  of order are the subject of `RegionCache` and `OperatorController`. A task takes
  one step once it begins, and the tasks of one region come one after the other.
* The simulator's import case, its I/O rates and its statistics.

## 9. Where to go on

A network of pending etcd requests in `LeaderTSO` for late commits; several
followers in `RegionSyncer`; `AskSplit` and `ReportSplit`; a bound on how long a
region can stay `stray`.
