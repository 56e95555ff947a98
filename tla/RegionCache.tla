---------------------------- MODULE RegionCache ----------------------------
(***************************************************************************)
(* What PD knows of the regions: the cache of core/region.go and           *)
(* core/region_tree.go, the heartbeats that feed it (handleRegionHeartbeat *)
(* of cluster_info.go) and the region storage it is loaded from            *)
(* (core/region_storage.go).                                               *)
(*                                                                         *)
(* TiKV splits, merges and moves regions by itself.  The leader of a       *)
(* region reports it on its store's stream, whenever it likes; a stream    *)
(* keeps its order, but streams overtake each other and break.  Each       *)
(* stream has its goroutine in PD, and a heartbeat is handled in three     *)
(* steps: the checks, under the read lock; the save, under no lock; the    *)
(* update of the cache, under the write lock and without another check.    *)
(*                                                                         *)
(* Keys are 0 .. K-1; K is the end of the key space (the empty EndKey).    *)
(***************************************************************************)
EXTENDS Integers, Sequences, FiniteSets

CONSTANTS Store,       \* the TiKV stores, each with a heartbeat stream
          K,           \* bound: keys
          MaxID,       \* bound: region IDs
          batchSize,   \* regions RegionStorage gathers before it writes
          MaxQueue,    \* bound: heartbeats under way on one stream
          MaxChanges,  \* bound: changes of the layout in TiKV
          MaxFailures, \* bound: broken streams, elections and crashes
          None         \* no region / no leader

ASSUME RegionAssumption ==
  /\ K \in Nat \ {0} /\ MaxID \in Nat \ {0}
  /\ batchSize \in Nat \ {0}
  /\ MaxQueue \in Nat /\ MaxChanges \in Nat /\ MaxFailures \in Nat
  /\ IsFiniteSet(Store)
  /\ None \notin Store

ID == 1 .. MaxID

Region == [id : ID, start : 0 .. K - 1, end : 1 .. K, version : Nat, confVer : Nat,
           peers : SUBSET Store, leader : Store \union {None}]

ASSUME NoneAssumption == None \notin Region

VARIABLES layout,     \* TiKV: the regions there are
          nextID,     \* the IDs given out so far
          queue,      \* queue[s]: the heartbeats on the stream of store s
          changes, failures,   \* how many there were
          tree,       \* RegionsInfo.tree
          regions,    \* RegionsInfo.regions: the region of each ID, or None
          leaders,    \* RegionsInfo.leaders: the IDs led from each store
          followers,  \* RegionsInfo.followers
          pc,         \* where each stream's goroutine stands
          region,     \* local: the heartbeat it handles, or None
          batch,      \* RegionStorage.batchRegions
          cacheSize,  \* RegionStorage.cacheSize
          disk        \* what leveldb holds

tikvVars  == <<layout, nextID, changes>>
cacheVars == <<tree, regions, leaders, followers>>
diskVars  == <<batch, cacheSize, disk>>
vars == <<tikvVars, queue, failures, cacheVars, pc, region, diskVars>>

(***************************************************************************)
(* The tree: items ordered by start key                                    *)
(***************************************************************************)
Contains(r, key) == r.start <= key /\ key < r.end

Overlap(r, x) == r.start < x.end /\ x.start < r.end

(* Mutant: the last item at or below the key, whether or not it contains   *)
(* the key.                                                                *)
FindBelow(t, key) ==
  {r \in t : r.start <= key /\ \A x \in t : x.start <= key => x.start <= r.start}

(* The last item at or below the key, if it contains the key: a set of one *)
(* item, or none.                                                          *)
find(t, key) ==
  {r \in t : /\ Contains(r, key)
             /\ \A x \in t : x.start <= key => x.start <= r.start}

(* Mutant: only the items that start within r. *)
StartingWithin(t, r) == {x \in t : r.start <= x.start /\ x.start < r.end}

(* From the item that holds r's start key, or else from r's start key, up  *)
(* to r's end key.                                                         *)
getOverlaps(t, r) ==
  {x \in t : /\ x.start < r.end
             /\ x.start >= r.start \/ x \in find(t, r.start)}

(* The overlapped items go, and an item with r's start key is replaced. *)
update(t, r) == {x \in t \ getOverlaps(t, r) : x.start # r.start} \union {r}

(* An item is removed when the lookup of its start key finds its own ID. *)
remove(t, r) == t \ {x \in find(t, r.start) : x.id = r.id}

(***************************************************************************)
(* RegionsInfo                                                             *)
(***************************************************************************)
Cache == [tree |-> tree, regions |-> regions, leaders |-> leaders, followers |-> followers]

(* Mutant: the followers keep the region. *)
FollowersKept(c, r) ==
  [tree      |-> remove(c.tree, r),
   regions   |-> [c.regions EXCEPT ![r.id] = None],
   leaders   |-> [s \in Store |-> IF s \in r.peers THEN c.leaders[s] \ {r.id} ELSE c.leaders[s]],
   followers |-> c.followers]

RemoveRegion(c, r) ==
  [tree      |-> remove(c.tree, r),
   regions   |-> [c.regions EXCEPT ![r.id] = None],
   leaders   |-> [s \in Store |-> IF s \in r.peers THEN c.leaders[s] \ {r.id} ELSE c.leaders[s]],
   followers |-> [s \in Store |-> IF s \in r.peers THEN c.followers[s] \ {r.id} ELSE c.followers[s]]]

(* AddRegion: the items the new one overlaps leave the tree, the map and   *)
(* the stores of the regions the map holds under their IDs.                *)
AddRegion(c, r) ==
  LET gone == {x.id : x \in getOverlaps(c.tree, r)}
      kept(s, ids) == ids \ {i \in gone : s \in c.regions[i].peers}
  IN [tree      |-> update(c.tree, r),
      regions   |-> [i \in ID |-> IF i = r.id THEN r
                                  ELSE IF i \in gone THEN None ELSE c.regions[i]],
      leaders   |-> [s \in Store |-> kept(s, c.leaders[s])
                                     \union (IF s = r.leader THEN {r.id} ELSE {})],
      followers |-> [s \in Store |-> kept(s, c.followers[s])
                                     \union (IF s \in r.peers \ {r.leader} THEN {r.id} ELSE {})]]

SetRegion(c, r) ==
  AddRegion(IF c.regions[r.id] = None THEN c ELSE RemoveRegion(c, c.regions[r.id]), r)

(* The regions SetRegion drops for r. *)
Overlaps(c, r) ==
  getOverlaps((IF c.regions[r.id] = None THEN c ELSE RemoveRegion(c, c.regions[r.id])).tree, r)

Become(c) ==
  /\ tree' = c.tree /\ regions' = c.regions
  /\ leaders' = c.leaders /\ followers' = c.followers

(***************************************************************************)
(* handleRegionHeartbeat                                                   *)
(***************************************************************************)
(* Mutant: a heartbeat of the known version is stale too. *)
StaleOrSame(r) ==
  LET origin == regions[r.id] IN
  IF origin = None
  THEN \E x \in getOverlaps(tree, r) : r.version < x.version
  ELSE r.version <= origin.version \/ r.confVer < origin.confVer

(* The stale heartbeats: older than a region they would push out, when     *)
(* their own ID is unknown; older than the region of the same ID otherwise.*)
Stale(r) ==
  LET origin == regions[r.id] IN
  IF origin = None
  THEN \E x \in getOverlaps(tree, r) : r.version < x.version
  ELSE r.version < origin.version \/ r.confVer < origin.confVer

SaveKV(r) ==
  LET origin == regions[r.id] IN
  IF origin = None THEN TRUE
  ELSE \/ r.version > origin.version \/ r.confVer > origin.confVer
       \/ Cardinality(r.peers) # Cardinality(origin.peers)

(* touched: a down or pending peer, a new size or a new number of keys. *)
SaveCache(r, touched) ==
  SaveKV(r) \/ touched \/ r.leader # regions[r.id].leader

(* The checks, under the read lock. *)
CheckHeartbeat(s) ==
  /\ pc[s] = "idle" /\ queue[s] # <<>>
  /\ LET r == Head(queue[s]) IN
     \E touched \in BOOLEAN :
       IF Stale(r) \/ ~SaveCache(r, touched)
       THEN UNCHANGED <<pc, region>>
       ELSE /\ pc' = [pc EXCEPT ![s] = IF SaveKV(r) THEN "save" ELSE "set"]
            /\ region' = [region EXCEPT ![s] = r]
  /\ queue' = [queue EXCEPT ![s] = Tail(@)]
  /\ UNCHANGED <<tikvVars, failures, cacheVars, diskVars>>

(* Mutant: no leader is store 0. *)
MetaZero(r) == [r EXCEPT !.leader = 0]

(* Storage keeps the meta of a region, not its leader. *)
Meta(r) == [r EXCEPT !.leader = None]

Flushed(b) == [i \in ID |-> IF b[i] # None THEN b[i] ELSE disk[i]]

(* RegionStorage.SaveRegion: into the batch, which is written when it is   *)
(* full.  When that fails the batch stays, and the handler goes on.        *)
SaveRegion(s) ==
  /\ pc[s] = "save"
  /\ LET b == [batch EXCEPT ![region[s].id] = Meta(region[s])] IN
     IF cacheSize < batchSize - 1
     THEN batch' = b /\ cacheSize' = cacheSize + 1 /\ UNCHANGED disk
     ELSE \/ disk' = Flushed(b) /\ batch' = [i \in ID |-> None] /\ cacheSize' = 0
          \/ batch' = b /\ UNCHANGED <<cacheSize, disk>>
  /\ pc' = [pc EXCEPT ![s] = "set"]
  /\ UNCHANGED <<tikvVars, queue, failures, cacheVars, region>>

(* The update, under the write lock.  The overlapped regions are deleted   *)
(* from leveldb, as far as that works, but not from the batch.             *)
UpdateCache(s) ==
  /\ pc[s] = "set"
  /\ Become(SetRegion(Cache, region[s]))
  /\ \E deleted \in SUBSET {x.id : x \in Overlaps(Cache, region[s])} :
       disk' = [i \in ID |-> IF i \in deleted THEN None ELSE disk[i]]
  /\ pc' = [pc EXCEPT ![s] = "idle"]
  /\ region' = [region EXCEPT ![s] = None]
  /\ UNCHANGED <<tikvVars, queue, failures, batch, cacheSize>>

(* backgroundFlush, and Close. *)
FlushRegion ==
  /\ cacheSize > 0
  /\ disk' = Flushed(batch) /\ batch' = [i \in ID |-> None] /\ cacheSize' = 0
  /\ UNCHANGED <<tikvVars, queue, failures, cacheVars, pc, region>>

(***************************************************************************)
(* Loading                                                                 *)
(***************************************************************************)
(* Mutant: of two regions that overlap, the one with the smaller ID stays. *)
EarlierWins(i) ==
  /\ disk[i] # None
  /\ \A j \in ID : j < i /\ disk[j] # None => ~Overlap(disk[i], disk[j])

(* loadRegions sets every region that leveldb holds, in the order of the   *)
(* IDs: a later one pushes out the earlier ones that it overlaps, whatever *)
(* their versions.                                                         *)
Survives(i) ==
  /\ disk[i] # None
  /\ \A j \in ID : j > i /\ disk[j] # None => ~Overlap(disk[i], disk[j])

Loaded ==
  [tree      |-> {disk[i] : i \in {j \in ID : Survives(j)}},
   regions   |-> [i \in ID |-> IF Survives(i) THEN disk[i] ELSE None],
   leaders   |-> [s \in Store |-> {}],
   followers |-> [s \in Store |-> {i \in ID : Survives(i) /\ s \in disk[i].peers}]]

LoadRegions ==
  /\ Become(Loaded)
  /\ disk' = Loaded.regions

Fails == failures < MaxFailures /\ failures' = failures + 1

(* The server is elected again: RaftCluster.start waits until no heartbeat *)
(* is being handled.                                                       *)
Reelected ==
  /\ Fails
  /\ \A s \in Store : pc[s] = "idle"
  /\ LoadRegions
  /\ UNCHANGED <<tikvVars, queue, pc, region, batch, cacheSize>>

(* The server crashes and comes back: the batch is lost. *)
Restart ==
  /\ Fails
  /\ LoadRegions
  /\ queue' = [s \in Store |-> <<>>]
  /\ pc' = [s \in Store |-> "idle"] /\ region' = [s \in Store |-> None]
  /\ batch' = [i \in ID |-> None] /\ cacheSize' = 0
  /\ UNCHANGED tikvVars

(***************************************************************************)
(* TiKV                                                                    *)
(***************************************************************************)
TiKV(l) ==
  /\ changes < MaxChanges /\ changes' = changes + 1
  /\ layout' = l
  /\ UNCHANGED <<queue, failures, cacheVars, pc, region, diskVars>>

(* The right part of r gets the new ID; both parts get a new version. *)
Split(r, key) ==
  /\ r.start < key /\ key < r.end
  /\ nextID < MaxID /\ nextID' = nextID + 1
  /\ TiKV((layout \ {r}) \union
            {[r EXCEPT !.end = key, !.version = @ + 1],
             [r EXCEPT !.id = nextID + 1, !.start = key, !.version = @ + 1]})

(* r merges into its neighbour x, which has its peers on the same stores. *)
Merge(r, x) ==
  /\ r.end = x.start \/ x.end = r.start
  /\ r.peers = x.peers
  /\ LET v == IF r.version > x.version THEN r.version ELSE x.version IN
     TiKV((layout \ {r, x}) \union
            {[x EXCEPT !.start = IF r.end = x.start THEN r.start ELSE @,
                       !.end = IF r.end = x.start THEN @ ELSE r.end,
                       !.version = v + 1]})
  /\ UNCHANGED nextID

ChangePeers(r, p) ==
  /\ r.leader \in p /\ p # r.peers
  /\ TiKV((layout \ {r}) \union {[r EXCEPT !.peers = p, !.confVer = @ + 1]})
  /\ UNCHANGED nextID

TransferLeader(r, s) ==
  /\ s \in r.peers \ {r.leader}
  /\ TiKV((layout \ {r}) \union {[r EXCEPT !.leader = s]})
  /\ UNCHANGED nextID

(* The leader of r reports it. *)
Heartbeat(r) ==
  /\ Len(queue[r.leader]) < MaxQueue
  /\ queue' = [queue EXCEPT ![r.leader] = Append(@, r)]
  /\ UNCHANGED <<tikvVars, failures, cacheVars, pc, region, diskVars>>

StreamBreaks(s) ==
  /\ Fails
  /\ queue[s] # <<>>
  /\ queue' = [queue EXCEPT ![s] = <<>>]
  /\ UNCHANGED <<tikvVars, cacheVars, pc, region, diskVars>>

(***************************************************************************)
(* Specification                                                           *)
(***************************************************************************)
(* Bootstrap: one region, saved before the cluster starts. *)
Init ==
  \E s \in Store :
    LET first == [id |-> 1, start |-> 0, end |-> K, version |-> 1, confVer |-> 1,
                  peers |-> {s}, leader |-> s]
    IN /\ layout = {first} /\ nextID = 1
       /\ queue = [t \in Store |-> <<>>]
       /\ changes = 0 /\ failures = 0
       /\ tree = {Meta(first)}
       /\ regions = [i \in ID |-> IF i = 1 THEN Meta(first) ELSE None]
       /\ leaders = [t \in Store |-> {}]
       /\ followers = [t \in Store |-> IF t = s THEN {1} ELSE {}]
       /\ pc = [t \in Store |-> "idle"] /\ region = [t \in Store |-> None]
       /\ batch = [i \in ID |-> None] /\ cacheSize = 0
       /\ disk = [i \in ID |-> IF i = 1 THEN Meta(first) ELSE None]

Handle(s) == CheckHeartbeat(s) \/ SaveRegion(s) \/ UpdateCache(s)

Change ==
  \E r \in layout :
    \/ \E key \in 1 .. K - 1 : Split(r, key)
    \/ \E x \in layout : Merge(r, x)
    \/ \E p \in SUBSET Store : ChangePeers(r, p)
    \/ \E s \in Store : TransferLeader(r, s)

Next ==
  \/ \E s \in Store : Handle(s) \/ StreamBreaks(s)
  \/ \E r \in layout : Heartbeat(r)
  \/ Change
  \/ FlushRegion \/ Reelected \/ Restart

Spec == Init /\ [][Next]_vars

(* Every stream's goroutine runs, and every region is reported on a timer  *)
(* of its own: the bound on the queue cannot keep it from reporting for    *)
(* ever, hence the strong fairness.                                        *)
Fairness ==
  /\ \A s \in Store : WF_vars(Handle(s))
  /\ \A i \in ID : SF_vars(\E r \in layout : r.id = i /\ Heartbeat(r))

LiveSpec == Spec /\ Fairness

(***************************************************************************)
(* Properties                                                              *)
(***************************************************************************)
(* Every variable holds a value of its type. *)
TypeOK ==
  /\ layout \in SUBSET Region /\ tree \in SUBSET Region
  /\ nextID \in ID /\ changes \in Nat /\ failures \in Nat
  /\ queue \in [Store -> Seq(Region)]
  /\ regions \in [ID -> Region \union {None}]
  /\ leaders \in [Store -> SUBSET ID] /\ followers \in [Store -> SUBSET ID]
  /\ pc \in [Store -> {"idle", "save", "set"}]
  /\ region \in [Store -> Region \union {None}]
  /\ batch \in [ID -> Region \union {None}] /\ disk \in [ID -> Region \union {None}]
  /\ cacheSize \in Nat

(* The tree never holds two regions that overlap, and it holds exactly the *)
(* regions of the map: SetRegion and RemoveRegion never leave one of them  *)
(* behind, whatever arrives in whatever order.                             *)
TreeMatchesMap ==
  /\ tree = {regions[i] : i \in {j \in ID : regions[j] # None}}
  /\ \A r, x \in tree : r # x => ~Overlap(r, x)

(* GetStoreRegions and the region counts of a store agree with the map,    *)
(* although SetRegion drops regions of other stores than the new one's.    *)
IndexMatchesMap ==
  \A s \in Store :
    /\ leaders[s] = {i \in ID : regions[i] # None /\ regions[i].leader = s}
    /\ followers[s] = {i \in ID : regions[i] # None /\ s \in regions[i].peers /\ regions[i].leader # s}

(* The lookup that starts at find() sees every region the heartbeat about  *)
(* to be handled overlaps, and no other.                                   *)
OverlapsExact ==
  \A s \in Store : queue[s] # <<>> =>
    getOverlaps(tree, Head(queue[s])) = {x \in tree : Overlap(x, Head(queue[s]))}

(* "Region meta is stale, return an error": the handling of a heartbeat    *)
(* never takes a region out of the cache for the sake of an older one, be  *)
(* it of the same ID or one it overlaps.                                   *)
StaleNeverWins ==
  [][failures' = failures =>
       \A x \in tree \ tree' : \A r \in tree' \ tree :
         /\ Overlap(r, x) => r.version >= x.version
         /\ r.id = x.id => r.version >= x.version /\ r.confVer >= x.confVer]_vars

(* When TiKV stops changing, the cache ends up as TiKV is, whatever stale  *)
(* reports, failed writes, elections and crashes came before.              *)
CacheConverges ==
  <>[](tree = layout)
============================================================================
