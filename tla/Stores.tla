------------------------------- MODULE Stores -------------------------------
(***************************************************************************)
(* The stores of the cluster: bootstrap, registration, the state machine   *)
(* Up, Offline, Tombstone, weights, blocking, and the GC safe point.       *)
(* server/cluster.go, cluster_info.go and grpc_service.go keep a store in  *)
(* a cache and in etcd.  The handlers hold only c.RLock: each one reads a  *)
(* store, clones it and puts the clone back under the lock of the cache,   *)
(* so that two of them run between each other's read and put.              *)
(***************************************************************************)
EXTENDS Integers, FiniteSets

CONSTANTS StoreID,       \* the IDs of the stores
          BootRequest,   \* bootstrap requests: [store, peerStore]
          PutRequest,    \* stores that PutStore is called with
          Labels,        \* values of the one location label
          Weights,       \* balance weights
          Strict,        \* strictly-match-label
          Caller,        \* the RPC and HTTP handlers
          Background,    \* the goroutine of runBackgroundJobs
          MaxCalls,      \* bound: calls of the handlers
          MaxFaults      \* bound: failed writes, stops, crashes

(* metapb.Store, as far as it is modelled. *)
State == {"Up", "Offline", "Tombstone"}
StoreMeta == [id : StoreID, addr : STRING, version : Nat, label : STRING, state : State]

ASSUME StoresAssumption ==
  /\ BootRequest \subseteq [store : StoreMeta, peerStore : StoreID]
  /\ PutRequest \subseteq StoreMeta
  /\ Labels \subseteq STRING /\ Weights \subseteq Nat
  /\ MaxCalls \in Nat /\ MaxFaults \in Nat

VARIABLES metaKey,       \* etcd: the cluster key exists
          storeKey,      \* etcd: the stores
          weightKey,     \* etcd: leader and region weight, 0 for no key
          gcKey,         \* etcd: the safe point
          versionKey,    \* etcd: the cluster version of the saved options
          running,       \* the RaftCluster is started
          stores,        \* the cache
          evicting,      \* stores that a scheduler has blocked
          clusterVersion,
          regionCount,   \* regions the region cache has on each store
          op,            \* where each handler stands
          calls, faults, \* counters against the bounds
          unsure         \* stores of which a write failed and may be applied

etcdVars == <<metaKey, storeKey, weightKey, gcKey, versionKey>>
cacheVars == <<running, stores, evicting, clusterVersion, regionCount>>
storesVars == <<etcdVars, cacheVars, op, calls, faults, unsure>>

Actor == Caller \union {Background}
NoStore == [state |-> "None"]
Idle == [pc |-> "idle"]

IsTombstone(s) == s.state = "Tombstone"
Known(id) == stores[id] # NoStore

(* What is kept of a store in etcd, and what a restart brings back.        *)
meta(s) == IF s = NoStore THEN NoStore
           ELSE [id |-> s.id, addr |-> s.addr, version |-> s.version,
                 label |-> s.label, state |-> s.state]
NewStoreInfo(m, leader, region) ==
  [id |-> m.id, addr |-> m.addr, version |-> m.version, label |-> m.label,
   state |-> m.state, leader |-> leader, region |-> region,
   blocked |-> FALSE, beat |-> FALSE]
weightOr1(w) == IF w = 0 THEN 1 ELSE w
LoadStores ==
  [id \in StoreID |->
     IF storeKey[id] = NoStore THEN NoStore
     ELSE NewStoreInfo(storeKey[id], weightOr1(weightKey[id].leader),
                       weightOr1(weightKey[id].region))]

(* Handlers begin a call when the cluster is running, and end it. *)
begins(c) == running /\ op[c] = Idle /\ calls < MaxCalls /\ calls' = calls + 1
goto(c, o) == op' = [op EXCEPT ![c] = o]
saves(c, kind, s) == goto(c, [pc |-> "save", kind |-> kind, store |-> s])
returns(c) == goto(c, Idle)
fails == faults < MaxFaults /\ faults' = faults + 1

(***************************************************************************)
(* Start, stop and bootstrap.                                              *)
(***************************************************************************)
(* loadClusterInfo: nothing is started before the bootstrap. *)
start ==
  /\ ~running
  /\ IF metaKey
     THEN /\ running' = TRUE
          /\ stores' = LoadStores
          /\ evicting' = {}
          /\ clusterVersion' = versionKey
          /\ unsure' = {}
     ELSE UNCHANGED <<running, stores, evicting, clusterVersion, unsure>>

(* The server wins the election again. *)
createRaftCluster ==
  /\ start /\ metaKey
  /\ UNCHANGED <<etcdVars, regionCount, op, calls, faults>>

(* It loses it: stop waits for the handlers that hold c.RLock. *)
stop ==
  /\ running /\ fails
  /\ \A c \in Actor : op[c].pc \notin {"save", "leader", "region", "delete"}
  /\ running' = FALSE
  /\ UNCHANGED <<etcdVars, stores, evicting, clusterVersion, regionCount, op, calls, unsure>>

(* What a crash leaves of the server. *)
lost ==
  /\ running' = FALSE
  /\ stores' = [id \in StoreID |-> NoStore]
  /\ evicting' = {}
  /\ op' = [c \in Actor |-> Idle]
  /\ UNCHANGED <<etcdVars, clusterVersion, regionCount, unsure>>
Crash == running /\ fails /\ lost /\ UNCHANGED calls

(* The first region has one peer, on the first store. *)
checkBootstrapRequest(req) == req.store.id # 0 /\ req.peerStore = req.store.id

Bootstrap(c, req) ==
  /\ ~running /\ op[c] = Idle
  /\ calls < MaxCalls /\ calls' = calls + 1
  /\ checkBootstrapRequest(req)
  /\ goto(c, [pc |-> "bootstrap", store |-> req.store])
  /\ UNCHANGED <<etcdVars, cacheVars, faults, unsure>>

(* The cluster key must not exist yet. *)
bootstrapCmp == ~metaKey

(* One transaction writes the cluster, the store and the region. *)
bootstrapTxn(c) ==
  IF bootstrapCmp
  THEN /\ metaKey' = TRUE
       /\ storeKey' = [storeKey EXCEPT ![op[c].store.id] = op[c].store]
  ELSE UNCHANGED <<metaKey, storeKey>>

(* Then the cluster starts.  A commit that ends in an error has or has not *)
(* been applied; the call fails, and a cluster that is there all the same  *)
(* starts with the next election.                                          *)
bootstrapCluster(c) ==
  /\ op[c].pc = "bootstrap"
  /\ \/ /\ bootstrapTxn(c) /\ UNCHANGED faults
        /\ IF bootstrapCmp THEN goto(c, [pc |-> "start"]) ELSE returns(c)
     \/ /\ fails /\ returns(c)
        /\ bootstrapTxn(c) \/ UNCHANGED <<metaKey, storeKey>>
  /\ UNCHANGED <<weightKey, gcKey, versionKey, cacheVars, calls, unsure>>

BootstrapStarts(c) ==
  /\ op[c].pc = "start"
  /\ IF running THEN UNCHANGED <<running, stores, evicting, clusterVersion, unsure>> ELSE start
  /\ returns(c)
  /\ UNCHANGED <<etcdVars, regionCount, calls, faults>>

(***************************************************************************)
(* The put of a clone that a handler made of what it read.                 *)
(***************************************************************************)
(* Mutant: the cache takes the store although the write failed. *)
CacheAnyway(id, s, ok) == [stores EXCEPT ![id] = s]
cached(id, s, ok) == IF ok THEN [stores EXCEPT ![id] = s] ELSE stores

(* The write succeeds, fails, or fails although etcd applied it. *)
writes(id, v, done(_)) ==
  \/ /\ storeKey' = [storeKey EXCEPT ![id] = v]
     /\ unsure' = unsure \ {id}
     /\ done(TRUE) /\ UNCHANGED faults
  \/ /\ fails /\ done(FALSE)
     /\ \/ UNCHANGED <<storeKey, unsure>>
        \/ /\ storeKey' = [storeKey EXCEPT ![id] = v]
           /\ unsure' = unsure \union {id}

putStoreLocked(c) ==
  LET o == op[c]
      done(ok) == /\ stores' = cached(o.store.id, o.store, ok)
                  /\ IF ok /\ o.kind = "put" THEN goto(c, [pc |-> "version"]) ELSE returns(c)
  IN /\ o.pc = "save"
     /\ writes(o.store.id, meta(o.store), done)
     /\ UNCHANGED <<metaKey, weightKey, gcKey, versionKey, running, evicting,
                    clusterVersion, regionCount, calls>>

(***************************************************************************)
(* Registration.                                                           *)
(***************************************************************************)
(* checkStore2 turns a tombstone away; the store is read again later. *)
PutStore(c, m) ==
  /\ begins(c)
  /\ ~IsTombstone(stores[m.id])
  /\ goto(c, [pc |-> "put", kind |-> "put", meta |-> m])
  /\ UNCHANGED <<etcdVars, cacheVars, faults, unsure>>

UpdateStoreLabels(c, id, l) ==
  /\ begins(c) /\ Known(id)
  /\ goto(c, [pc |-> "put", kind |-> "labels", meta |-> [meta(stores[id]) EXCEPT !.label = l]])
  /\ UNCHANGED <<etcdVars, cacheVars, faults, unsure>>

IsCompatible(cv, v) == cv < v \/ cv \div 10 = v \div 10

DuplicatedAddress(m) ==
  \E id \in StoreID \ {m.id} :
    Known(id) /\ ~IsTombstone(stores[id]) /\ stores[id].addr = m.addr

(* MergeLabels keeps what the request does not name, and writes the value  *)
(* of a label that the store has into the cached store itself.             *)
MergeLabels(s, l) == IF l = "" THEN s.label ELSE l
mergedInPlace(m) ==
  IF Known(m.id) /\ stores[m.id].label # "" /\ m.label # ""
  THEN [stores EXCEPT ![m.id].label = m.label] ELSE stores

labelsOK(s) == Strict => s.label # ""

(* putStore checks what it read and clones it. *)
putStore(c) ==
  LET m == op[c].meta
      accepted == IsCompatible(clusterVersion, m.version) /\ ~DuplicatedAddress(m)
      s == IF Known(m.id)
           THEN [stores[m.id] EXCEPT !.addr = m.addr, !.version = m.version,
                                     !.label = MergeLabels(stores[m.id], m.label)]
           ELSE NewStoreInfo(m, 1, 1)
  IN /\ op[c].pc = "put"
     /\ IF accepted THEN stores' = mergedInPlace(m) ELSE UNCHANGED stores
     /\ IF accepted /\ labelsOK(s) THEN saves(c, op[c].kind, s) ELSE returns(c)
     /\ UNCHANGED <<etcdVars, running, evicting, clusterVersion, regionCount, calls, faults, unsure>>

(* The cluster version follows the oldest store.  Without any store that   *)
(* is not a tombstone there is no minimum to dereference: the server dies. *)
OnStoreVersionChange(c) ==
  LET versions == {stores[id].version : id \in {i \in StoreID : Known(i) /\ ~IsTombstone(stores[i])}}
      minVersion == CHOOSE v \in versions : \A w \in versions : v <= w
  IN /\ op[c].pc = "version"
     /\ UNCHANGED calls
     /\ IF versions = {} THEN lost /\ UNCHANGED faults
        ELSE /\ returns(c)
             /\ UNCHANGED <<metaKey, storeKey, weightKey, gcKey, running, stores, evicting, regionCount, unsure>>
             /\ IF clusterVersion < minVersion
                THEN /\ clusterVersion' = minVersion
                     /\ \/ versionKey' = minVersion /\ UNCHANGED faults
                        \/ fails /\ UNCHANGED versionKey
                ELSE UNCHANGED <<clusterVersion, versionKey, faults>>

(***************************************************************************)
(* The state of a store.                                                   *)
(***************************************************************************)
RemoveStore(c, id) ==
  /\ begins(c) /\ Known(id)
  /\ stores[id].state = "Up"
  /\ saves(c, "remove", [stores[id] EXCEPT !.state = "Offline"])
  /\ UNCHANGED <<etcdVars, cacheVars, faults, unsure>>

(* A store that is up is buried by force only. *)
buries(c, id, force) ==
  /\ Known(id) /\ ~IsTombstone(stores[id])
  /\ stores[id].state = "Up" => force
  /\ saves(c, "bury", [stores[id] EXCEPT !.state = "Tombstone"])

BuryStore(c, id) ==
  /\ begins(c)
  /\ buries(c, id, TRUE)
  /\ UNCHANGED <<etcdVars, cacheVars, faults, unsure>>

SetStoreState(c, id, state) ==
  /\ begins(c) /\ Known(id)
  /\ saves(c, "state", [stores[id] EXCEPT !.state = state])
  /\ UNCHANGED <<etcdVars, cacheVars, faults, unsure>>

(* Mutant: an offline store is buried while it has regions. *)
Crowded(id) == stores[id].state = "Offline" /\ regionCount[id] > 0
Buriable(id) == stores[id].state = "Offline" /\ regionCount[id] = 0

(* The background job finds an offline store without regions, *)
checkStores(id) ==
  /\ running /\ op[Background] = Idle
  /\ Buriable(id)
  /\ goto(Background, [pc |-> "bury", id |-> id])
  /\ UNCHANGED <<etcdVars, cacheVars, calls, faults, unsure>>

(* and buries what it then reads. *)
checkStoresBury ==
  /\ op[Background].pc = "bury"
  /\ LET id == op[Background].id
     IN IF Known(id) /\ stores[id].state = "Offline"
        THEN buries(Background, id, FALSE) ELSE returns(Background)
  /\ UNCHANGED <<etcdVars, cacheVars, calls, faults, unsure>>

(* The records of the tombstones of one moment are deleted one by one. *)
RemoveTombStoneRecords(c) ==
  LET dead == {id \in StoreID : Known(id) /\ IsTombstone(stores[id])}
  IN /\ begins(c) /\ dead # {}
     /\ goto(c, [pc |-> "delete", ids |-> dead])
     /\ UNCHANGED <<etcdVars, cacheVars, faults, unsure>>

deleteStoreLocked(c, id) ==
  LET rest == op[c].ids \ {id}
      done(ok) == /\ stores' = cached(id, NoStore, ok)
                  /\ IF ok /\ rest # {} THEN goto(c, [op[c] EXCEPT !.ids = rest]) ELSE returns(c)
  IN /\ op[c].pc = "delete" /\ id \in op[c].ids
     /\ writes(id, NoStore, done)
     /\ UNCHANGED <<metaKey, weightKey, gcKey, versionKey, running, evicting,
                    clusterVersion, regionCount, calls>>

(***************************************************************************)
(* Weights, blocking and heartbeats.                                       *)
(***************************************************************************)
SetStoreWeight(c, id, l, r) ==
  /\ begins(c) /\ Known(id)
  /\ goto(c, [pc |-> "leader", kind |-> "weight",
              store |-> [stores[id] EXCEPT !.leader = l, !.region = r]])
  /\ UNCHANGED <<etcdVars, cacheVars, faults, unsure>>

(* The two weights have a key each, written before the store. *)
SaveStoreWeight(c) ==
  LET s == op[c].store
  IN /\ op[c].pc \in {"leader", "region"}
     /\ \/ /\ weightKey' = IF op[c].pc = "leader"
                           THEN [weightKey EXCEPT ![s.id].leader = s.leader]
                           ELSE [weightKey EXCEPT ![s.id].region = s.region]
           /\ IF op[c].pc = "leader" THEN goto(c, [op[c] EXCEPT !.pc = "region"])
              ELSE saves(c, "weight", s)
           /\ UNCHANGED faults
        \/ fails /\ returns(c) /\ UNCHANGED weightKey
     /\ UNCHANGED <<metaKey, storeKey, gcKey, versionKey, cacheVars, calls, unsure>>

(* A scheduler takes a store out of the balancers' sight, and back.  To    *)
(* unblock a store that is gone is fatal.                                  *)
BlockStore(c, id) ==
  /\ begins(c) /\ Known(id) /\ ~stores[id].blocked
  /\ stores' = [stores EXCEPT ![id].blocked = TRUE]
  /\ evicting' = evicting \union {id}
  /\ UNCHANGED <<etcdVars, running, clusterVersion, regionCount, op, faults, unsure>>

UnblockStore(c, id) ==
  /\ begins(c) /\ id \in evicting
  /\ IF Known(id)
     THEN /\ stores' = [stores EXCEPT ![id].blocked = FALSE]
          /\ evicting' = evicting \ {id}
          /\ UNCHANGED <<etcdVars, running, clusterVersion, regionCount, op, faults, unsure>>
     ELSE lost /\ UNCHANGED faults

handleStoreHeartbeat(c, id) ==
  /\ begins(c) /\ Known(id) /\ ~IsTombstone(stores[id])
  /\ stores' = [stores EXCEPT ![id].beat = TRUE]
  /\ UNCHANGED <<etcdVars, running, evicting, clusterVersion, regionCount, op, faults, unsure>>

(* Region heartbeats bring regions to a store and take them away. *)
RegionsMove(id) ==
  /\ running
  /\ regionCount[id] = 0 => calls < MaxCalls /\ Known(id)
  /\ calls' = calls + (IF regionCount[id] = 0 THEN 1 ELSE 0)
  /\ regionCount' = [regionCount EXCEPT ![id] = 1 - @]
  /\ UNCHANGED <<etcdVars, running, stores, evicting, clusterVersion, op, faults, unsure>>

(***************************************************************************)
(* The GC safe point lives in etcd only: a load, a comparison, a save.     *)
(***************************************************************************)
UpdateGCSafePoint(c, p) ==
  /\ begins(c)
  /\ IF p > gcKey THEN goto(c, [pc |-> "gc", point |-> p]) ELSE UNCHANGED op
  /\ UNCHANGED <<etcdVars, cacheVars, faults, unsure>>

SaveGCSafePoint(c) ==
  /\ op[c].pc = "gc"
  /\ returns(c)
  /\ \/ gcKey' = op[c].point /\ UNCHANGED faults
     \/ fails /\ UNCHANGED gcKey
  /\ UNCHANGED <<metaKey, storeKey, weightKey, versionKey, cacheVars, calls, unsure>>

StoresInit ==
  /\ metaKey = FALSE
  /\ storeKey = [id \in StoreID |-> NoStore]
  /\ weightKey = [id \in StoreID |-> [leader |-> 0, region |-> 0]]
  /\ gcKey = 0
  /\ versionKey = 20
  /\ running = FALSE
  /\ stores = [id \in StoreID |-> NoStore]
  /\ evicting = {}
  /\ clusterVersion = 20
  /\ regionCount = [id \in StoreID |-> 0]
  /\ op = [c \in Actor |-> Idle]
  /\ calls = 0 /\ faults = 0 /\ unsure = {}

StoresNext ==
  \/ createRaftCluster \/ stop \/ Crash
  \/ \E c \in Caller :
       \/ \E req \in BootRequest : Bootstrap(c, req)
       \/ bootstrapCluster(c) \/ BootstrapStarts(c)
       \/ \E m \in PutRequest : PutStore(c, m)
       \/ putStore(c) \/ OnStoreVersionChange(c)
       \/ RemoveTombStoneRecords(c)
       \/ SaveStoreWeight(c) \/ SaveGCSafePoint(c)
       \/ \E p \in 1 .. 2 : UpdateGCSafePoint(c, p)
       \/ \E id \in StoreID :
            \/ \E l \in Labels : UpdateStoreLabels(c, id, l)
            \/ RemoveStore(c, id) \/ BuryStore(c, id)
            \/ \E s \in State : SetStoreState(c, id, s)
            \/ deleteStoreLocked(c, id)
            \/ \E l, r \in Weights : SetStoreWeight(c, id, l, r)
            \/ BlockStore(c, id) \/ UnblockStore(c, id) \/ handleStoreHeartbeat(c, id)
  \/ \E c \in Actor : putStoreLocked(c)
  \/ \E id \in StoreID : checkStores(id) \/ RegionsMove(id)
  \/ checkStoresBury

(***************************************************************************)
(* Properties.                                                             *)
(***************************************************************************)
(* What the server answers about a store is what etcd holds of it, so that *)
(* a crash at any moment forgets no change of its state, its address or    *)
(* its version: whichever handlers interleave, whichever writes fail, and  *)
(* whoever else tries to bootstrap.  Left out are a store of which a write *)
(* ended in an error that etcd may have applied, and the labels, which     *)
(* MergeLabels changes in the cache before the write (core/store.go:439).  *)
DurableStores ==
  \A id \in StoreID :
    running /\ id \notin unsure =>
      LET s == stores[id]
          k == storeKey[id]
      IN /\ s = NoStore <=> k = NoStore
         /\ s # NoStore => s.state = k.state /\ s.addr = k.addr /\ s.version = k.version

(* An offline store that has lost its regions does not stay offline: the   *)
(* background job buries it (or an operator sets its state), after failed  *)
(* writes, stops and crashes, and whatever handlers hold clones of it.     *)
OfflineBuried ==
  \A id \in StoreID : ~<>[](running /\ stores[id].state = "Offline" /\ regionCount[id] = 0)

(* server/cluster.go:466 of RemoveStore: "State transition: Up -> Offline."*)
(* It never takes a store out of another state.                            *)
RemoveStoreFromUp ==
  [][\A c \in Caller :
       op[c].pc = "save" /\ op[c].kind = "remove" /\ op'[c] = Idle
         /\ running' /\ stores' # stores
         => stores[op[c].store.id].state \in {"Up", "Offline"}]_storesVars
=============================================================================
