------------------------- MODULE RegionCacheProofs -------------------------
(***************************************************************************)
(* The region cache is consistent for any number of stores, regions and    *)
(* keys, and whatever TiKV reports in whatever order.  The argument is     *)
(* about the cache as a value: Consistent(c) says that the tree holds the  *)
(* regions of the map, that no two of them overlap and that the index of   *)
(* the stores agrees with them; RemoveRegion, AddRegion and the loading    *)
(* preserve it.  GoodRegions is what they need of the regions they meet:   *)
(* none is empty, its leader is one of its peers, it is filed under its    *)
(* own ID, and a stored one has no leader.                                 *)
(***************************************************************************)
EXTENDS MCRegionCache, NaturalsInduction, WellFoundedInduction, TLAPS

USE RegionAssumption, NoneAssumption

Good(r) ==
  /\ r \in Region
  /\ r.start < r.end
  /\ r.leader = None \/ r.leader \in r.peers

Stored(f) ==
  \A i \in ID : f[i] # None => Good(f[i]) /\ f[i].id = i /\ f[i].leader = None

GoodRegions ==
  /\ \A r \in layout : Good(r) /\ r.leader # None
  /\ \A s \in Store : \A n \in 1 .. Len(queue[s]) : Good(queue[s][n])
  /\ \A s \in Store : pc[s] # "idle" => Good(region[s])
  /\ Stored(batch) /\ Stored(disk)

Disjoint(t) == \A r, x \in t : r # x => ~Overlap(r, x)

MapOK(m) ==
  /\ m \in [ID -> Region \union {None}]
  /\ \A i \in ID : m[i] # None => Good(m[i]) /\ m[i].id = i

Items(m) == {m[i] : i \in {j \in ID : m[j] # None}}

Led(m, s) == {i \in ID : m[i] # None /\ m[i].leader = s}

Followed(m, s) == {i \in ID : m[i] # None /\ s \in m[i].peers /\ m[i].leader # s}

Consistent(c) ==
  /\ MapOK(c.regions)
  /\ c.tree = Items(c.regions) /\ Disjoint(c.tree)
  /\ c.leaders = [s \in Store |-> Led(c.regions, s)]
  /\ c.followers = [s \in Store |-> Followed(c.regions, s)]

IInv == TypeOK /\ GoodRegions /\ Consistent(Cache)

(***************************************************************************)
(* The tree                                                                *)
(***************************************************************************)
(* find returns the one region that contains the key. *)
LEMMA FindExact ==
  ASSUME NEW t, \A x \in t : Good(x), Disjoint(t), NEW key \in Int
  PROVE  find(t, key) = {x \in t : Contains(x, key)}
<1>1. ASSUME NEW x \in t, Contains(x, key), NEW y \in t, y.start <= key
      PROVE  y.start <= x.start
  <2>1. /\ x.start \in Int /\ x.end \in Int
        /\ y.start \in Int /\ y.end \in Int /\ y.start < y.end
    BY DEF Good, Region
  <2> QED
    BY <1>1, <2>1 DEF Disjoint, Overlap, Contains
<1> QED
  BY <1>1 DEF find

(* The walk from find(r.start) to r's end key meets exactly the regions    *)
(* that r overlaps.                                                        *)
LEMMA OverlapsOfGood ==
  ASSUME NEW t, \A x \in t : Good(x), Disjoint(t), NEW r, Good(r)
  PROVE  getOverlaps(t, r) = {x \in t : Overlap(x, r)}
<1>1. r.start \in Int /\ r.end \in Int /\ r.start < r.end
  BY DEF Good, Region
<1>2. find(t, r.start) = {x \in t : Contains(x, r.start)}
  BY <1>1, FindExact
<1>3. \A x \in t : x.start \in Int /\ x.end \in Int /\ x.start < x.end
  BY DEF Good, Region
<1> QED
  BY <1>1, <1>2, <1>3 DEF getOverlaps, Overlap, Contains

(* remove takes out the item it is asked for, and nothing else. *)
LEMMA RemoveExact ==
  ASSUME NEW t, \A x \in t : Good(x), Disjoint(t), NEW r \in t
  PROVE  remove(t, r) = t \ {r}
<1>1. \A x \in t : x.start \in Int /\ x.end \in Int /\ x.start < x.end
  BY DEF Good, Region
<1>2. find(t, r.start) = {x \in t : Contains(x, r.start)}
  BY <1>1, FindExact
<1>3. \A x \in t : Contains(x, r.start) <=> x = r
  BY <1>1 DEF Contains, Disjoint, Overlap
<1> QED
  BY <1>2, <1>3 DEF remove

(* update leaves the regions that r does not overlap, and r. *)
LEMMA UpdateExact ==
  ASSUME NEW t, \A x \in t : Good(x), Disjoint(t), NEW r, Good(r)
  PROVE  update(t, r) = {x \in t : ~Overlap(x, r)} \union {r}
<1>1. \A x \in t : x.start \in Int /\ x.end \in Int /\ x.start < x.end
  BY DEF Good, Region
<1>2. r.start \in Int /\ r.end \in Int /\ r.start < r.end
  BY DEF Good, Region
<1>3. \A x \in t : x.start = r.start => Overlap(x, r)
  BY <1>1, <1>2 DEF Overlap
<1> QED
  BY <1>3, OverlapsOfGood DEF update

(***************************************************************************)
(* RegionsInfo                                                             *)
(***************************************************************************)
(* The items of a consistent cache are good, and filed under their IDs. *)
LEMMA ItemsGood ==
  ASSUME NEW c, Consistent(c)
  PROVE  \A x \in c.tree : /\ Good(x) /\ x # None /\ x.id \in ID
                           /\ c.regions[x.id] = x
  BY DEF Consistent, Items, MapOK, Good, Region

(* RemoveRegion of a region of the cache keeps the cache consistent. *)
LEMMA RemoveConsistent ==
  ASSUME NEW c, Consistent(c), NEW r, r \in c.tree
  PROVE  /\ Consistent(RemoveRegion(c, r))
         /\ RemoveRegion(c, r).regions[r.id] = None
<1> DEFINE d == RemoveRegion(c, r)
<1>1. r.id \in ID /\ c.regions[r.id] = r /\ Good(r) /\ r # None
  BY ItemsGood
<1>2. d.regions = [c.regions EXCEPT ![r.id] = None]
  BY DEF RemoveRegion
<1>3. MapOK(d.regions) /\ d.regions[r.id] = None
  BY <1>1, <1>2 DEF Consistent, MapOK
<1>4. d.tree = c.tree \ {r}
  BY ItemsGood, RemoveExact DEF Consistent, RemoveRegion
<1>5. c.tree = Items(c.regions)
  BY DEF Consistent
<1>6. d.tree = Items(d.regions)
  <2>1. \A i \in ID : i # r.id => d.regions[i] = c.regions[i]
    BY <1>1, <1>2 DEF Consistent, MapOK
  <2>2. \A i \in ID : c.regions[i] # None => (c.regions[i] = r <=> i = r.id)
    BY <1>1 DEF Consistent, MapOK
  <2> HIDE DEF d
  <2> QED
    BY <1>3, <1>4, <1>5, <2>1, <2>2 DEF Items
<1>7. Disjoint(d.tree)
  BY <1>4 DEF Consistent, Disjoint
<1>8. d.leaders = [s \in Store |-> Led(d.regions, s)]
  <2>1. d.leaders = [s \in Store |-> IF s \in r.peers THEN c.leaders[s] \ {r.id} ELSE c.leaders[s]]
    BY DEF RemoveRegion
  <2>2. ASSUME NEW s \in Store
        PROVE  (IF s \in r.peers THEN c.leaders[s] \ {r.id} ELSE c.leaders[s]) = Led(d.regions, s)
    <3>1. c.leaders[s] = Led(c.regions, s)
      BY DEF Consistent
    <3>2. s \notin r.peers => r.leader # s
      BY <1>1 DEF Good
    <3> HIDE DEF d
    <3> QED
      BY <1>1, <1>2, <3>1, <3>2 DEF Consistent, MapOK, Led
  <2> HIDE DEF d
  <2> QED
    BY <2>1, <2>2
<1>9. d.followers = [s \in Store |-> Followed(d.regions, s)]
  <2>1. d.followers = [s \in Store |-> IF s \in r.peers THEN c.followers[s] \ {r.id} ELSE c.followers[s]]
    BY DEF RemoveRegion
  <2>2. ASSUME NEW s \in Store
        PROVE  (IF s \in r.peers THEN c.followers[s] \ {r.id} ELSE c.followers[s]) = Followed(d.regions, s)
    <3>1. c.followers[s] = Followed(c.regions, s)
      BY DEF Consistent
    <3> HIDE DEF d
    <3> QED
      BY <1>1, <1>2, <3>1 DEF Consistent, MapOK, Followed
  <2> HIDE DEF d
  <2> QED
    BY <2>1, <2>2
<1> QED
  BY <1>3, <1>6, <1>7, <1>8, <1>9 DEF Consistent

(* AddRegion of a region whose ID the cache does not know. *)
LEMMA AddConsistent ==
  ASSUME NEW c, Consistent(c), NEW r, Good(r), c.regions[r.id] = None
  PROVE  Consistent(AddRegion(c, r))
<1> DEFINE d == AddRegion(c, r)
           gone == {x.id : x \in getOverlaps(c.tree, r)}
           pushed(i) == c.regions[i] # None /\ Overlap(c.regions[i], r)
<1>1. r.id \in ID /\ r \in Region /\ r # None
  BY DEF Good, Region
<1>2. gone = {i \in ID : pushed(i)}
  <2>1. getOverlaps(c.tree, r) = {x \in c.tree : Overlap(x, r)}
    BY ItemsGood, OverlapsOfGood DEF Consistent
  <2>2. c.tree = Items(c.regions)
    BY DEF Consistent
  <2>3. \A i \in ID : c.regions[i] # None => c.regions[i].id = i
    BY DEF Consistent, MapOK
  <2> QED
    BY <2>1, <2>2, <2>3 DEF Items
<1> HIDE DEF gone
<1>3. d.regions = [i \in ID |-> IF i = r.id THEN r ELSE IF i \in gone THEN None ELSE c.regions[i]]
  BY DEF AddRegion, gone
<1>4. \A i \in ID : d.regions[i] = IF i = r.id THEN r ELSE IF pushed(i) THEN None ELSE c.regions[i]
  BY <1>2, <1>3
<1>5. MapOK(d.regions)
  <2>1. d.regions \in [ID -> Region \union {None}]
    BY <1>1, <1>3 DEF Consistent, MapOK
  <2> HIDE DEF d
  <2> QED
    BY <1>4, <2>1 DEF Consistent, MapOK
<1>6. d.tree = {x \in c.tree : ~Overlap(x, r)} \union {r}
  BY ItemsGood, UpdateExact DEF Consistent, AddRegion
<1>7. d.tree = Items(d.regions)
  <2>1. c.tree = Items(c.regions)
    BY DEF Consistent
  <2> HIDE DEF d
  <2>2. ASSUME NEW x \in d.tree PROVE x \in Items(d.regions)
    <3>1. CASE x = r
      BY <3>1, <1>1, <1>4 DEF Items
    <3>2. CASE x # r
      <4>1. PICK i \in ID : c.regions[i] # None /\ x = c.regions[i] /\ ~Overlap(x, r)
        BY <3>2, <1>6, <2>1 DEF Items
      <4>2. d.regions[i] = x
        BY <4>1, <1>4
      <4> QED
        BY <4>1, <4>2 DEF Items
    <3> QED
      BY <3>1, <3>2
  <2>3. ASSUME NEW x \in Items(d.regions) PROVE x \in d.tree
    <3>1. PICK i \in ID : d.regions[i] # None /\ x = d.regions[i]
      BY DEF Items
    <3> QED
      BY <3>1, <1>4, <1>6, <2>1 DEF Items
  <2> QED
    BY <2>2, <2>3
<1>8. Disjoint(d.tree)
  <2>1. \A x \in c.tree : Overlap(x, r) <=> Overlap(r, x)
    BY DEF Overlap
  <2> HIDE DEF d
  <2> QED
    BY <1>6, <2>1 DEF Consistent, Disjoint
<1>9. ASSUME NEW s \in Store
      PROVE  {i \in gone : s \in c.regions[i].peers} = {i \in ID : pushed(i) /\ s \in c.regions[i].peers}
  BY <1>2
<1>10. d.leaders = [s \in Store |-> Led(d.regions, s)]
  <2>1. d.leaders = [s \in Store |-> (c.leaders[s] \ {i \in gone : s \in c.regions[i].peers})
                                     \union (IF s = r.leader THEN {r.id} ELSE {})]
    BY DEF AddRegion, gone
  <2> HIDE DEF d
  <2>2. ASSUME NEW s \in Store
        PROVE  (c.leaders[s] \ {i \in gone : s \in c.regions[i].peers})
                 \union (IF s = r.leader THEN {r.id} ELSE {}) = Led(d.regions, s)
    <3>1. c.leaders[s] = Led(c.regions, s)
      BY DEF Consistent
    <3>2. \A i \in ID : c.regions[i] # None /\ c.regions[i].leader = s => s \in c.regions[i].peers
      BY DEF Consistent, MapOK, Good
    <3> QED
      BY <1>1, <1>4, <1>9, <3>1, <3>2 DEF Led
  <2> QED
    BY <2>1, <2>2
<1>11. d.followers = [s \in Store |-> Followed(d.regions, s)]
  <2>1. d.followers = [s \in Store |-> (c.followers[s] \ {i \in gone : s \in c.regions[i].peers})
                                       \union (IF s \in r.peers \ {r.leader} THEN {r.id} ELSE {})]
    BY DEF AddRegion, gone
  <2> HIDE DEF d
  <2>2. ASSUME NEW s \in Store
        PROVE  (c.followers[s] \ {i \in gone : s \in c.regions[i].peers})
                 \union (IF s \in r.peers \ {r.leader} THEN {r.id} ELSE {}) = Followed(d.regions, s)
    <3>1. c.followers[s] = Followed(c.regions, s)
      BY DEF Consistent
    <3> QED
      BY <1>1, <1>4, <1>9, <3>1 DEF Followed
  <2> QED
    BY <2>1, <2>2
<1> QED
  BY <1>5, <1>7, <1>8, <1>10, <1>11 DEF Consistent

(* SetRegion keeps the cache consistent, whatever the region. *)
LEMMA SetConsistent ==
  ASSUME NEW c, Consistent(c), NEW r, Good(r)
  PROVE  Consistent(SetRegion(c, r))
<1>1. CASE c.regions[r.id] = None
  BY <1>1, AddConsistent DEF SetRegion
<1>2. CASE c.regions[r.id] # None
  <2> DEFINE o == c.regions[r.id]
  <2>1. r.id \in ID
    BY DEF Good, Region
  <2>2. o \in c.tree /\ o.id = r.id
    BY <1>2, <2>1 DEF Consistent, Items, MapOK
  <2>3. Consistent(RemoveRegion(c, o)) /\ RemoveRegion(c, o).regions[r.id] = None
    BY <2>2, RemoveConsistent
  <2>4. Consistent(AddRegion(RemoveRegion(c, o), r))
    BY <2>3, AddConsistent
  <2> QED
    BY <1>2, <2>4 DEF SetRegion
<1> QED
  BY <1>1, <1>2

(* What the loading leaves is consistent, whatever overlaps leveldb holds. *)
LEMMA LoadedConsistent ==
  ASSUME disk \in [ID -> Region \union {None}], Stored(disk)
  PROVE  Consistent(Loaded) /\ Stored(Loaded.regions)
<1> DEFINE m == Loaded.regions
<1>1. m = [i \in ID |-> IF Survives(i) THEN disk[i] ELSE None]
  BY DEF Loaded
<1>2. \A i \in ID : Survives(i) => disk[i] # None
  BY DEF Survives
<1>3. Loaded.tree = {disk[i] : i \in {j \in ID : Survives(j)}}
  BY DEF Loaded
<1>4. MapOK(m) /\ Stored(m)
  <2> HIDE DEF m
  <2> QED
    BY <1>1, <1>2 DEF MapOK, Stored
<1>5. Loaded.tree = Items(m)
  <2>1. \A i \in ID : m[i] # None <=> Survives(i)
    BY <1>1, <1>2
  <2>2. \A i \in ID : Survives(i) => m[i] = disk[i]
    BY <1>1
  <2> HIDE DEF m
  <2> QED
    BY <1>3, <2>1, <2>2 DEF Items
<1>6. Disjoint(Loaded.tree)
  <2>1. ASSUME NEW i \in ID, NEW j \in ID, Survives(i), Survives(j), i # j
        PROVE  ~Overlap(disk[i], disk[j])
    <3>1. i < j \/ j < i
      BY <2>1 DEF ID
    <3>2. Overlap(disk[i], disk[j]) <=> Overlap(disk[j], disk[i])
      BY DEF Overlap
    <3> QED
      BY <2>1, <3>1, <3>2 DEF Survives, ID
  <2> QED
    BY <1>3, <2>1 DEF Disjoint
<1>7. Loaded.leaders = [s \in Store |-> Led(m, s)]
  <2>1. \A s \in Store : Led(m, s) = {}
    <3> HIDE DEF m
    <3> QED
      BY <1>4 DEF Led, Stored
  <2>2. Loaded.leaders = [s \in Store |-> {}]
    BY DEF Loaded
  <2> HIDE DEF m
  <2> QED
    BY <2>1, <2>2
<1>8. Loaded.followers = [s \in Store |-> Followed(m, s)]
  <2>1. Loaded.followers = [s \in Store |-> {i \in ID : Survives(i) /\ s \in disk[i].peers}]
    BY DEF Loaded
  <2> HIDE DEF m
  <2>2. ASSUME NEW s \in Store
        PROVE  {i \in ID : Survives(i) /\ s \in disk[i].peers} = Followed(m, s)
    BY <1>1, <1>2, <1>4 DEF Followed, Stored
  <2> QED
    BY <2>1, <2>2
<1> QED
  BY <1>4, <1>5, <1>6, <1>7, <1>8 DEF Consistent

(***************************************************************************)
(* The steps                                                               *)
(***************************************************************************)
(* A consistent cache has its types. *)
LEMMA ConsistentTyped ==
  ASSUME NEW c, Consistent(c)
  PROVE  /\ c.tree \in SUBSET Region
         /\ c.regions \in [ID -> Region \union {None}]
         /\ c.leaders \in [Store -> SUBSET ID]
         /\ c.followers \in [Store -> SUBSET ID]
<1>1. c.tree \in SUBSET Region
  BY ItemsGood DEF Good
<1>2. \A s \in Store : Led(c.regions, s) \subseteq ID /\ Followed(c.regions, s) \subseteq ID
  BY DEF Led, Followed
<1> QED
  BY <1>1, <1>2 DEF Consistent, MapOK

(* And so have the variables that make up the cache. *)
LEMMA CacheTyped ==
  ASSUME Consistent(Cache)
  PROVE  /\ tree \in SUBSET Region /\ regions \in [ID -> Region \union {None}]
         /\ leaders \in [Store -> SUBSET ID] /\ followers \in [Store -> SUBSET ID]
<1>1. /\ Cache.tree = tree /\ Cache.regions = regions
      /\ Cache.leaders = leaders /\ Cache.followers = followers
  BY DEF Cache
<1> QED
  BY <1>1, ConsistentTyped

(* The cache that has become c is consistent if c is. *)
LEMMA BecomeConsistent ==
  ASSUME NEW c, Consistent(c), Become(c)
  PROVE  Consistent(Cache)'
  BY DEF Become, Consistent, Cache

(* Storage loses the leader of a region and nothing else of it. *)
LEMMA MetaGood ==
  ASSUME NEW r, Good(r)
  PROVE  Good(Meta(r)) /\ Meta(r).id = r.id /\ Meta(r).leader = None
  BY DEF Good, Meta, Region

(* The first state: one region, which the cache and leveldb hold. *)
LEMMA InitIInv == Init => IInv
<1> SUFFICES ASSUME Init PROVE IInv
  OBVIOUS
<1> DEFINE boot(s) == [id |-> 1, start |-> 0, end |-> K, version |-> 1, confVer |-> 1,
                       peers |-> {s}, leader |-> s]
<1>1. PICK s \in Store :
       /\ layout = {boot(s)} /\ nextID = 1
       /\ queue = [t \in Store |-> <<>>]
       /\ changes = 0 /\ failures = 0
       /\ tree = {Meta(boot(s))}
       /\ regions = [i \in ID |-> IF i = 1 THEN Meta(boot(s)) ELSE None]
       /\ leaders = [t \in Store |-> {}]
       /\ followers = [t \in Store |-> IF t = s THEN {1} ELSE {}]
       /\ pc = [t \in Store |-> "idle"] /\ region = [t \in Store |-> None]
       /\ batch = [i \in ID |-> None] /\ cacheSize = 0
       /\ disk = [i \in ID |-> IF i = 1 THEN Meta(boot(s)) ELSE None]
  BY DEF Init
<1> DEFINE b == boot(s)
           m == Meta(b)
<1>2. 1 \in ID
  BY DEF ID
<1>3. Good(b) /\ b.id = 1 /\ b.leader = s /\ b.peers = {s}
  BY <1>2 DEF Good, Region
<1>4. Good(m) /\ m.id = 1 /\ m.leader = None /\ m.peers = {s}
  BY <1>3, MetaGood DEF Meta
<1>5. m # None /\ m \in Region
  BY <1>4 DEF Good
<1> HIDE DEF b, m
<1>6. /\ layout = {b}
      /\ tree = {m}
      /\ regions = [i \in ID |-> IF i = 1 THEN m ELSE None]
      /\ disk = [i \in ID |-> IF i = 1 THEN m ELSE None]
  BY <1>1 DEF b, m
<1>7. GoodRegions
  <2>1. \A t \in Store : Len(queue[t]) = 0
    BY <1>1
  <2> QED
    BY <1>1, <1>3, <1>4, <1>6, <2>1 DEF GoodRegions, Stored
<1>8. Consistent(Cache)
  <2>1. MapOK(regions)
    BY <1>2, <1>4, <1>5, <1>6 DEF MapOK
  <2>2. tree = Items(regions)
    BY <1>2, <1>5, <1>6 DEF Items
  <2>3. Disjoint(tree)
    BY <1>6 DEF Disjoint
  <2>4. leaders = [t \in Store |-> Led(regions, t)]
    <3>1. \A t \in Store : Led(regions, t) = {}
      BY <1>4, <1>6 DEF Led
    <3> QED
      BY <3>1, <1>1
  <2>5. followers = [t \in Store |-> Followed(regions, t)]
    <3>1. \A t \in Store : Followed(regions, t) = IF t = s THEN {1} ELSE {}
      BY <1>2, <1>4, <1>5, <1>6 DEF Followed
    <3> QED
      BY <3>1, <1>1
  <2> QED
    BY <2>1, <2>2, <2>3, <2>4, <2>5 DEF Consistent, Cache
<1>9. TypeOK
  <2>1. /\ layout \in SUBSET Region /\ nextID \in ID /\ changes \in Nat /\ failures \in Nat
        /\ queue \in [Store -> Seq(Region)]
    BY <1>1, <1>2, <1>3, <1>6 DEF Good
  <2>2. /\ pc \in [Store -> {"idle", "save", "set"}]
        /\ region \in [Store -> Region \union {None}]
        /\ batch \in [ID -> Region \union {None}] /\ disk \in [ID -> Region \union {None}]
        /\ cacheSize \in Nat
    BY <1>1, <1>5, <1>6
  <2> QED
    BY <2>1, <2>2, <1>8, CacheTyped DEF TypeOK
<1> QED
  BY <1>7, <1>8, <1>9 DEF IInv

(* The checks take a heartbeat off its queue. *)
LEMMA CheckStep ==
  ASSUME IInv, NEW s \in Store, CheckHeartbeat(s)
  PROVE  IInv'
<1> DEFINE r == Head(queue[s])
<1>1. queue[s] \in Seq(Region) /\ queue[s] # <<>>
  BY DEF IInv, TypeOK, CheckHeartbeat
<1>2. Good(r)
  BY <1>1 DEF IInv, GoodRegions
<1>3. /\ queue' = [queue EXCEPT ![s] = Tail(queue[s])]
      /\ \/ pc' = pc /\ region' = region
         \/ \E p \in {"save", "set"} : /\ pc' = [pc EXCEPT ![s] = p]
                                       /\ region' = [region EXCEPT ![s] = r]
      /\ UNCHANGED <<tikvVars, failures, cacheVars, diskVars>>
  BY DEF CheckHeartbeat
<1> HIDE DEF r
<1>4. /\ Tail(queue[s]) \in Seq(Region)
      /\ \A n \in 1 .. Len(Tail(queue[s])) : Good(Tail(queue[s])[n])
  BY <1>1 DEF IInv, GoodRegions
<1>5. TypeOK'
  <2>1. queue' \in [Store -> Seq(Region)]
    BY <1>3, <1>4 DEF IInv, TypeOK
  <2>2. /\ pc' \in [Store -> {"idle", "save", "set"}]
        /\ region' \in [Store -> Region \union {None}]
    <3>1. r \in Region
      BY <1>2 DEF Good
    <3>2. CASE pc' = pc /\ region' = region
      BY <3>2 DEF IInv, TypeOK
    <3>3. ASSUME NEW p \in {"save", "set"}, pc' = [pc EXCEPT ![s] = p],
                 region' = [region EXCEPT ![s] = r]
          PROVE  /\ pc' \in [Store -> {"idle", "save", "set"}]
                 /\ region' \in [Store -> Region \union {None}]
      BY <3>1, <3>3 DEF IInv, TypeOK
    <3> QED
      BY <1>3, <3>2, <3>3
  <2> QED
    BY <1>3, <2>1, <2>2 DEF IInv, TypeOK, tikvVars, cacheVars, diskVars
<1>6. GoodRegions'
  <2>1. \A t \in Store : \A n \in 1 .. Len(queue'[t]) : Good(queue'[t][n])
    BY <1>3, <1>4 DEF IInv, TypeOK, GoodRegions
  <2>2. \A t \in Store : pc'[t] # "idle" => Good(region'[t])
    BY <1>2, <1>3 DEF IInv, TypeOK, GoodRegions
  <2> QED
    BY <1>3, <2>1, <2>2 DEF IInv, GoodRegions, Stored, tikvVars, diskVars
<1>7. Consistent(Cache)'
  BY <1>3 DEF IInv, Cache, cacheVars
<1> QED
  BY <1>5, <1>6, <1>7 DEF IInv

(* A flushed batch leaves stored regions in leveldb. *)
LEMMA FlushedStored ==
  ASSUME NEW b \in [ID -> Region \union {None}], Stored(b),
         disk \in [ID -> Region \union {None}], Stored(disk)
  PROVE  Flushed(b) \in [ID -> Region \union {None}] /\ Stored(Flushed(b))
  BY DEF Flushed, Stored

(* A save changes the batch and leveldb only. *)
LEMMA SaveStep ==
  ASSUME IInv, NEW s \in Store, SaveRegion(s)
  PROVE  IInv'
<1> DEFINE b == [batch EXCEPT ![region[s].id] = Meta(region[s])]
           none == [i \in ID |-> None]
<1>1. Good(region[s]) /\ region[s].id \in ID
  BY DEF IInv, GoodRegions, SaveRegion, Good, Region
<1>2. Good(Meta(region[s])) /\ Meta(region[s]).id = region[s].id /\ Meta(region[s]).leader = None
  BY <1>1, MetaGood
<1>3. b \in [ID -> Region \union {None}] /\ Stored(b)
  BY <1>1, <1>2 DEF IInv, TypeOK, GoodRegions, Stored, Good
<1>4. none \in [ID -> Region \union {None}] /\ Stored(none)
  BY DEF Stored
<1>5. /\ \/ batch' = b /\ disk' = disk
         \/ batch' = none /\ disk' = Flushed(b)
      /\ cacheSize' \in Nat
      /\ pc' = [pc EXCEPT ![s] = "set"]
      /\ UNCHANGED <<tikvVars, queue, failures, cacheVars, region>>
  BY DEF SaveRegion, IInv, TypeOK
<1> HIDE DEF b, none
<1>6. /\ batch' \in [ID -> Region \union {None}] /\ Stored(batch')
      /\ disk' \in [ID -> Region \union {None}] /\ Stored(disk')
  <2>1. disk \in [ID -> Region \union {None}] /\ Stored(disk)
    BY DEF IInv, TypeOK, GoodRegions
  <2>2. Flushed(b) \in [ID -> Region \union {None}] /\ Stored(Flushed(b))
    BY <1>3, <2>1, FlushedStored
  <2> QED
    BY <1>3, <1>4, <1>5, <2>1, <2>2
<1>7. TypeOK'
  BY <1>5, <1>6 DEF IInv, TypeOK, tikvVars, cacheVars
<1>8. GoodRegions'
  <2>1. \A t \in Store : pc'[t] # "idle" => Good(region'[t])
    BY <1>1, <1>5 DEF IInv, TypeOK, GoodRegions
  <2> QED
    BY <1>5, <1>6, <2>1 DEF IInv, GoodRegions, Stored, tikvVars
<1>9. Consistent(Cache)'
  BY <1>5 DEF IInv, Cache, cacheVars
<1> QED
  BY <1>7, <1>8, <1>9 DEF IInv

(* The update of the cache is SetRegion, without another check. *)
LEMMA UpdateStep ==
  ASSUME IInv, NEW s \in Store, UpdateCache(s)
  PROVE  IInv'
<1>1. Good(region[s])
  BY DEF IInv, GoodRegions, UpdateCache
<1>2. Consistent(SetRegion(Cache, region[s]))
  BY <1>1, SetConsistent DEF IInv
<1>3. Consistent(Cache)'
  BY <1>2, BecomeConsistent DEF UpdateCache
<1>4. PICK deleted : disk' = [i \in ID |-> IF i \in deleted THEN None ELSE disk[i]]
  BY DEF UpdateCache
<1>5. disk' \in [ID -> Region \union {None}] /\ Stored(disk')
  BY <1>4 DEF IInv, TypeOK, GoodRegions, Stored
<1>6. /\ pc' = [pc EXCEPT ![s] = "idle"]
      /\ region' = [region EXCEPT ![s] = None]
      /\ UNCHANGED <<tikvVars, queue, failures, batch, cacheSize>>
  BY DEF UpdateCache
<1>7. TypeOK'
  <2>1. /\ tree' \in SUBSET Region /\ regions' \in [ID -> Region \union {None}]
        /\ leaders' \in [Store -> SUBSET ID] /\ followers' \in [Store -> SUBSET ID]
    BY <1>2, ConsistentTyped DEF UpdateCache, Become
  <2> QED
    BY <1>5, <1>6, <2>1 DEF IInv, TypeOK, tikvVars
<1>8. GoodRegions'
  <2>1. \A t \in Store : pc'[t] # "idle" => Good(region'[t])
    BY <1>6 DEF IInv, TypeOK, GoodRegions
  <2> QED
    BY <1>5, <1>6, <2>1 DEF IInv, GoodRegions, Stored, tikvVars
<1> QED
  BY <1>3, <1>7, <1>8 DEF IInv

(* A flush changes the batch and leveldb only. *)
LEMMA FlushStep ==
  ASSUME IInv, FlushRegion
  PROVE  IInv'
<1>1. /\ disk' = Flushed(batch) /\ batch' = [i \in ID |-> None] /\ cacheSize' = 0
      /\ UNCHANGED <<tikvVars, queue, failures, cacheVars, pc, region>>
  BY DEF FlushRegion
<1>2. /\ batch' \in [ID -> Region \union {None}] /\ Stored(batch')
      /\ disk' \in [ID -> Region \union {None}] /\ Stored(disk')
  BY <1>1, FlushedStored DEF IInv, TypeOK, GoodRegions, Stored
<1>3. TypeOK'
  BY <1>1, <1>2 DEF IInv, TypeOK, tikvVars, cacheVars
<1>4. GoodRegions'
  BY <1>1, <1>2 DEF IInv, GoodRegions, Stored, tikvVars
<1>5. Consistent(Cache)'
  BY <1>1 DEF IInv, Cache, cacheVars
<1> QED
  BY <1>3, <1>4, <1>5 DEF IInv

(* The loading leaves a consistent cache and leveldb without overlaps. *)
LEMMA LoadStep ==
  ASSUME IInv, LoadRegions
  PROVE  /\ Consistent(Cache)'
         /\ disk' \in [ID -> Region \union {None}] /\ Stored(disk')
         /\ tree' \in SUBSET Region /\ regions' \in [ID -> Region \union {None}]
         /\ leaders' \in [Store -> SUBSET ID] /\ followers' \in [Store -> SUBSET ID]
<1>1. Consistent(Loaded) /\ Stored(Loaded.regions)
  BY LoadedConsistent DEF IInv, TypeOK, GoodRegions
<1>2. Consistent(Cache)'
  BY <1>1, BecomeConsistent DEF LoadRegions
<1>3. /\ Loaded.tree \in SUBSET Region /\ Loaded.regions \in [ID -> Region \union {None}]
      /\ Loaded.leaders \in [Store -> SUBSET ID] /\ Loaded.followers \in [Store -> SUBSET ID]
  BY <1>1, ConsistentTyped
<1> QED
  BY <1>1, <1>2, <1>3 DEF LoadRegions, Become

(* An election of the same server. *)
LEMMA ReelectedStep ==
  ASSUME IInv, Reelected
  PROVE  IInv'
<1>1. LoadRegions
  BY DEF Reelected
<1>2. TypeOK'
  BY <1>1, LoadStep DEF Reelected, Fails, IInv, TypeOK, tikvVars
<1>3. GoodRegions'
  BY <1>1, LoadStep DEF Reelected, IInv, GoodRegions, Stored, tikvVars
<1> QED
  BY <1>1, <1>2, <1>3, LoadStep DEF IInv

(* A crash loses the batch and the heartbeats under way. *)
LEMMA RestartStep ==
  ASSUME IInv, Restart
  PROVE  IInv'
<1>1. LoadRegions
  BY DEF Restart
<1>2. /\ queue' = [s \in Store |-> <<>>] /\ batch' = [i \in ID |-> None] /\ cacheSize' = 0
      /\ pc' = [s \in Store |-> "idle"] /\ region' = [s \in Store |-> None]
      /\ failures' = failures + 1
      /\ UNCHANGED tikvVars
  BY DEF Restart, Fails
<1>3. TypeOK'
  BY <1>1, <1>2, LoadStep DEF IInv, TypeOK, tikvVars
<1>4. GoodRegions'
  <2>1. \A s \in Store : Len(queue'[s]) = 0 /\ pc'[s] = "idle"
    BY <1>2
  <2> QED
    BY <1>1, <1>2, <2>1, LoadStep DEF IInv, GoodRegions, Stored, tikvVars
<1> QED
  BY <1>1, <1>3, <1>4, LoadStep DEF IInv

(* The streams: a report of the layout is appended, or all are lost. *)
LEMMA StreamStep ==
  ASSUME IInv, (\E r \in layout : Heartbeat(r)) \/ (\E s \in Store : StreamBreaks(s))
  PROVE  IInv'
<1>1. PICK s \in Store, q \in Seq(Region) :
        /\ queue' = [queue EXCEPT ![s] = q]
        /\ \A n \in 1 .. Len(q) : Good(q[n])
        /\ failures' \in Nat
        /\ UNCHANGED <<tikvVars, cacheVars, pc, region, diskVars>>
  <2>1. ASSUME NEW r \in layout, Heartbeat(r)
        PROVE  \E s \in Store, q \in Seq(Region) :
                 /\ queue' = [queue EXCEPT ![s] = q]
                 /\ \A n \in 1 .. Len(q) : Good(q[n])
                 /\ failures' \in Nat
                 /\ UNCHANGED <<tikvVars, cacheVars, pc, region, diskVars>>
    <3>1. Good(r) /\ r \in Region /\ r.leader \in Store
      BY DEF IInv, GoodRegions, Good, Region
    <3> DEFINE old == queue[r.leader]
               q == Append(old, r)
    <3>2. old \in Seq(Region) /\ \A n \in 1 .. Len(old) : Good(old[n])
      BY <3>1 DEF IInv, TypeOK, GoodRegions
    <3> HIDE DEF old
    <3>3. q \in Seq(Region) /\ \A n \in 1 .. Len(q) : Good(q[n])
      BY <3>1, <3>2
    <3>4. /\ queue' = [queue EXCEPT ![r.leader] = q]
          /\ failures' \in Nat
          /\ UNCHANGED <<tikvVars, cacheVars, pc, region, diskVars>>
      BY <2>1 DEF Heartbeat, old, IInv, TypeOK
    <3> HIDE DEF q
    <3> QED
      BY <3>1, <3>3, <3>4
  <2>2. ASSUME NEW s \in Store, StreamBreaks(s)
        PROVE  \E t \in Store, q \in Seq(Region) :
                 /\ queue' = [queue EXCEPT ![t] = q]
                 /\ \A n \in 1 .. Len(q) : Good(q[n])
                 /\ failures' \in Nat
                 /\ UNCHANGED <<tikvVars, cacheVars, pc, region, diskVars>>
    <3>1. /\ queue' = [queue EXCEPT ![s] = <<>>]
          /\ failures' \in Nat
          /\ UNCHANGED <<tikvVars, cacheVars, pc, region, diskVars>>
      BY <2>2 DEF StreamBreaks, Fails, IInv, TypeOK
    <3>2. <<>> \in Seq(Region) /\ \A n \in 1 .. Len(<<>>) : Good(<<>>[n])
      OBVIOUS
    <3> QED
      BY <3>1, <3>2
  <2> QED
    BY <2>1, <2>2
<1>2. TypeOK'
  BY <1>1 DEF IInv, TypeOK, tikvVars, cacheVars, diskVars
<1>3. GoodRegions'
  <2>1. \A t \in Store : \A n \in 1 .. Len(queue'[t]) : Good(queue'[t][n])
    BY <1>1 DEF IInv, TypeOK, GoodRegions
  <2> QED
    BY <1>1, <2>1 DEF IInv, GoodRegions, Stored, tikvVars, diskVars
<1>4. Consistent(Cache)'
  BY <1>1 DEF IInv, Cache, cacheVars
<1> QED
  BY <1>2, <1>3, <1>4 DEF IInv

(* What TiKV does to its regions leaves good ones with a leader. *)
LEMMA TiKVStep ==
  ASSUME IInv, NEW l, TiKV(l), nextID' \in ID,
         \A r \in l : Good(r) /\ r.leader # None
  PROVE  IInv'
<1>1. /\ layout' = l /\ changes' = changes + 1
      /\ UNCHANGED <<queue, failures, cacheVars, pc, region, diskVars>>
  BY DEF TiKV
<1>2. TypeOK'
  BY <1>1 DEF IInv, TypeOK, Good, cacheVars, diskVars
<1>3. GoodRegions'
  BY <1>1 DEF IInv, GoodRegions, Stored, diskVars
<1>4. Consistent(Cache)'
  BY <1>1 DEF IInv, Cache, cacheVars
<1> QED
  BY <1>2, <1>3, <1>4 DEF IInv

(* The fields of a region are of their types. *)
LEMMA Fields ==
  ASSUME NEW r \in Region
  PROVE  /\ r.id \in ID /\ r.start \in 0 .. K - 1 /\ r.end \in 1 .. K
         /\ r.version \in Nat /\ r.confVer \in Nat
         /\ r.peers \in SUBSET Store /\ r.leader \in Store \union {None}
  BY DEF Region

(* Splits, merges, changes of peers and transfers of the leadership. *)
LEMMA ChangeStep ==
  ASSUME IInv, Change
  PROVE  IInv'
<1>1. \A x \in layout : Good(x) /\ x.leader # None /\ x \in Region
  BY DEF IInv, GoodRegions, Good
<1>2. nextID \in ID
  BY DEF IInv, TypeOK
<1>3. ASSUME NEW r \in layout, NEW key \in 1 .. K - 1, Split(r, key)
      PROVE  IInv'
  <2> DEFINE v == r.version + 1
             i == nextID + 1
             left == [r EXCEPT !.end = key, !.version = v]
             right == [r EXCEPT !.id = i, !.start = key, !.version = v]
  <2>1. nextID' \in ID /\ i \in ID
    BY <1>2, <1>3 DEF Split, ID
  <2>2. /\ r.start \in Int /\ r.end \in Int /\ v \in Nat
        /\ key \in 1 .. K /\ key \in 0 .. K - 1
        /\ r.start < key /\ key < r.end
    BY <1>1, <1>3, Fields DEF Split
  <2>3. TiKV((layout \ {r}) \union {left, right})
    BY <1>3 DEF Split
  <2> HIDE DEF v, i
  <2>4. /\ left \in Region /\ left.start = r.start /\ left.end = key
        /\ left.peers = r.peers /\ left.leader = r.leader
    BY <1>1, <2>2 DEF Region
  <2>5. /\ right \in Region /\ right.start = key /\ right.end = r.end
        /\ right.peers = r.peers /\ right.leader = r.leader
    BY <1>1, <2>1, <2>2 DEF Region
  <2> HIDE DEF left, right
  <2>6. Good(left) /\ left.leader # None /\ Good(right) /\ right.leader # None
    BY <1>1, <2>2, <2>4, <2>5 DEF Good
  <2> QED
    BY <1>1, <2>1, <2>3, <2>6, TiKVStep
<1>4. ASSUME NEW r \in layout, NEW x \in layout, Merge(r, x)
      PROVE  IInv'
  <2> DEFINE v == (IF r.version > x.version THEN r.version ELSE x.version) + 1
             a == IF r.end = x.start THEN r.start ELSE x.start
             e == IF r.end = x.start THEN x.end ELSE r.end
             y == [x EXCEPT !.start = a, !.end = e, !.version = v]
  <2>1. a \in 0 .. K - 1 /\ e \in 1 .. K /\ v \in Nat
    BY <1>1, Fields
  <2>2. a < e
    BY <1>1, <1>4, Fields DEF Merge, Good
  <2>3. TiKV((layout \ {r, x}) \union {y}) /\ nextID' = nextID
    BY <1>4 DEF Merge
  <2> HIDE DEF a, e, v
  <2>4. /\ y \in Region /\ y.start = a /\ y.end = e
        /\ y.peers = x.peers /\ y.leader = x.leader
    BY <1>1, <2>1 DEF Region
  <2> HIDE DEF y
  <2>5. Good(y) /\ y.leader # None
    BY <1>1, <2>2, <2>4 DEF Good
  <2> QED
    BY <1>1, <1>2, <2>3, <2>5, TiKVStep
<1>5. ASSUME NEW r \in layout, NEW p \in SUBSET Store, ChangePeers(r, p)
      PROVE  IInv'
  <2> DEFINE v == r.confVer + 1
             y == [r EXCEPT !.peers = p, !.confVer = v]
  <2>1. TiKV((layout \ {r}) \union {y}) /\ nextID' = nextID
    BY <1>5 DEF ChangePeers
  <2>2. v \in Nat
    BY <1>1, Fields
  <2> HIDE DEF v
  <2>3. /\ y \in Region /\ y.start = r.start /\ y.end = r.end
        /\ y.peers = p /\ y.leader = r.leader
    BY <1>1, <2>2 DEF Region
  <2> HIDE DEF y
  <2>4. Good(y) /\ y.leader # None
    BY <1>1, <1>5, <2>3 DEF ChangePeers, Good
  <2> QED
    BY <1>1, <1>2, <2>1, <2>4, TiKVStep
<1>6. ASSUME NEW r \in layout, NEW s \in Store, TransferLeader(r, s)
      PROVE  IInv'
  <2> DEFINE y == [r EXCEPT !.leader = s]
  <2>1. Good(y) /\ y.leader # None
    BY <1>1, <1>6 DEF TransferLeader, Good, Region
  <2>2. TiKV((layout \ {r}) \union {y}) /\ nextID' = nextID
    BY <1>6 DEF TransferLeader
  <2> HIDE DEF y
  <2> QED
    BY <1>1, <1>2, <2>1, <2>2, TiKVStep
<1> QED
  BY <1>3, <1>4, <1>5, <1>6 DEF Change

(* The invariant is inductive. *)
LEMMA NextIInv == IInv /\ [Next]_vars => IInv'
<1> SUFFICES ASSUME IInv, [Next]_vars PROVE IInv'
  OBVIOUS
<1>1. ASSUME NEW s \in Store, Handle(s) PROVE IInv'
  BY <1>1, CheckStep, SaveStep, UpdateStep DEF Handle
<1>2. ASSUME NEW s \in Store, StreamBreaks(s) PROVE IInv'
  BY <1>2, StreamStep
<1>3. CASE \E r \in layout : Heartbeat(r)
  BY <1>3, StreamStep
<1>4. CASE Change
  BY <1>4, ChangeStep
<1>5. CASE FlushRegion
  BY <1>5, FlushStep
<1>6. CASE Reelected
  BY <1>6, ReelectedStep
<1>7. CASE Restart
  BY <1>7, RestartStep
<1>8. CASE UNCHANGED vars
  <2>1. UNCHANGED <<layout, nextID, changes, queue, failures, tree, regions, leaders,
                    followers, pc, region, batch, cacheSize, disk>>
    BY <1>8 DEF vars, tikvVars, cacheVars, diskVars
  <2>2. TypeOK' /\ GoodRegions'
    BY <2>1 DEF IInv, TypeOK, GoodRegions, Stored
  <2>3. Consistent(Cache)'
    BY <2>1 DEF IInv, Cache
  <2> QED
    BY <2>2, <2>3 DEF IInv
<1> QED
  BY <1>1, <1>2, <1>3, <1>4, <1>5, <1>6, <1>7, <1>8 DEF Next

(***************************************************************************)
(* Theorems                                                                *)
(***************************************************************************)
(* Every reachable state satisfies the inductive invariant. *)
LEMMA AlwaysIInv == Spec => []IInv
  BY InitIInv, NextIInv, PTL DEF Spec

(* Type correctness of the region cache, its storage and the streams. *)
THEOREM TypeCorrect == Spec => []TypeOK
<1>1. IInv => TypeOK
  BY DEF IInv
<1> QED
  BY <1>1, AlwaysIInv, PTL

(* SetRegion and loadRegions keep the tree free of overlaps and equal to   *)
(* the map.                                                                *)
THEOREM TreeIsTheMap == Spec => []TreeMatchesMap
<1>1. IInv => TreeMatchesMap
  BY DEF IInv, Consistent, Cache, Items, Disjoint, TreeMatchesMap
<1> QED
  BY <1>1, AlwaysIInv, PTL

(* The regions that the index of a store names are those the map gives it. *)
THEOREM IndexIsTheMap == Spec => []IndexMatchesMap
<1>1. IInv => IndexMatchesMap
  BY DEF IInv, Consistent, Cache, Led, Followed, IndexMatchesMap
<1> QED
  BY <1>1, AlwaysIInv, PTL

(* getOverlaps misses no region that a heartbeat overlaps. *)
THEOREM LookupExact == Spec => []OverlapsExact
<1>1. IInv => OverlapsExact
  <2> SUFFICES ASSUME IInv, NEW s \in Store, queue[s] # <<>>
               PROVE  getOverlaps(tree, Head(queue[s])) = {x \in tree : Overlap(x, Head(queue[s]))}
    BY DEF OverlapsExact
  <2>1. queue[s] \in Seq(Region)
    BY DEF IInv, TypeOK
  <2>2. Good(Head(queue[s]))
    BY <2>1 DEF IInv, GoodRegions
  <2>3. Cache.tree = tree
    BY DEF Cache
  <2>4. (\A x \in tree : Good(x)) /\ Disjoint(tree)
    BY <2>3, ItemsGood DEF IInv, Consistent
  <2> QED
    BY <2>2, <2>4, OverlapsOfGood
<1> QED
  BY <1>1, AlwaysIInv, PTL

(***************************************************************************)
(* loadRegions.  A consistent cache is determined by its map, so it is     *)
(* enough to follow the map through the loop.                              *)
(***************************************************************************)
IsCache(c) == c = [tree |-> c.tree, regions |-> c.regions,
                   leaders |-> c.leaders, followers |-> c.followers]

(* The map once the regions up to n have been set. *)
Standing(i, n) ==
  /\ i <= n /\ disk[i] # None
  /\ \A j \in ID : i < j /\ j <= n /\ disk[j] # None => ~Overlap(disk[i], disk[j])
UpTo(n) == [i \in ID |-> IF Standing(i, n) THEN disk[i] ELSE None]

LoadedUpTo(c, n) == IsCache(c) /\ Consistent(c) /\ c.regions = UpTo(n)

(* One turn of the loop. *)
Turn(c, n) == IF disk[n] = None THEN c ELSE SetRegion(c, disk[n])

LEMMA Determined ==
  ASSUME NEW n, NEW c, NEW d, LoadedUpTo(c, n), LoadedUpTo(d, n)
  PROVE  c = d
<1>1. c.regions = d.regions
  BY DEF LoadedUpTo
<1>2. c.tree = d.tree
  BY <1>1 DEF LoadedUpTo, Consistent
<1>3. c.leaders = d.leaders /\ c.followers = d.followers
  BY <1>1 DEF LoadedUpTo, Consistent
<1>4. /\ c = [tree |-> c.tree, regions |-> c.regions, leaders |-> c.leaders, followers |-> c.followers]
      /\ d = [tree |-> d.tree, regions |-> d.regions, leaders |-> d.leaders, followers |-> d.followers]
  BY DEF LoadedUpTo, IsCache
<1> QED
  BY <1>1, <1>2, <1>3, <1>4

(* What AddRegion does to the map. *)
LEMMA AddMap ==
  ASSUME NEW c, Consistent(c), NEW r, Good(r), NEW i \in ID
  PROVE  AddRegion(c, r).regions[i] =
           IF i = r.id THEN r
           ELSE IF c.regions[i] # None /\ Overlap(c.regions[i], r) THEN None ELSE c.regions[i]
<1> DEFINE gone == {x.id : x \in getOverlaps(c.tree, r)}
<1>1. getOverlaps(c.tree, r) = {x \in c.tree : Overlap(x, r)}
  BY ItemsGood, OverlapsOfGood DEF Consistent
<1>2. c.tree = Items(c.regions)
  BY DEF Consistent
<1>3. \A j \in ID : c.regions[j] # None => c.regions[j].id = j
  BY DEF Consistent, MapOK
<1>4. i \in gone <=> c.regions[i] # None /\ Overlap(c.regions[i], r)
  BY <1>1, <1>2, <1>3 DEF Items
<1>5. AddRegion(c, r).regions[i] = IF i = r.id THEN r ELSE IF i \in gone THEN None ELSE c.regions[i]
  BY DEF AddRegion
<1> QED
  BY <1>4, <1>5

LEMMA TurnUpTo ==
  ASSUME disk \in [ID -> Region \union {None}], Stored(disk),
         NEW n \in ID, NEW c, LoadedUpTo(c, n - 1)
  PROVE  LoadedUpTo(Turn(c, n), n)
<1>0. n \in Nat /\ \A i \in ID : i \in Nat
  BY DEF ID
<1>1. \A i \in ID : c.regions[i] = IF Standing(i, n - 1) THEN disk[i] ELSE None
  BY DEF LoadedUpTo, UpTo
<1>2. CASE disk[n] = None
  <2>1. \A i \in ID : Standing(i, n) <=> Standing(i, n - 1)
    <3> SUFFICES ASSUME NEW i \in ID PROVE Standing(i, n) <=> Standing(i, n - 1)
      OBVIOUS
    <3>1. \A j \in ID : disk[j] # None => (j <= n <=> j <= n - 1)
      BY <1>0, <1>2
    <3> QED
      BY <3>1 DEF Standing
  <2>2. UpTo(n) = UpTo(n - 1)
    BY <2>1 DEF UpTo
  <2> QED
    BY <1>2, <2>2 DEF Turn, LoadedUpTo
<1>3. CASE disk[n] # None
  <2> DEFINE r == disk[n]
             d == AddRegion(c, r)
  <2>1. Good(r) /\ r.id = n
    BY <1>3 DEF Stored
  <2>2. c.regions[n] = None
    BY <1>0, <1>1 DEF Standing
  <2>3. Turn(c, n) = d
    BY <1>3, <2>1, <2>2 DEF Turn, SetRegion
  <2>4. Consistent(c)
    BY DEF LoadedUpTo
  <2>5. Consistent(d)
    BY <2>1, <2>2, <2>4, AddConsistent
  <2>6. IsCache(d)
    BY DEF IsCache, AddRegion
  <2>7. ASSUME NEW i \in ID
        PROVE  d.regions[i] = IF Standing(i, n) THEN disk[i] ELSE None
    <3>1. d.regions[i] = IF i = n THEN r
                         ELSE IF c.regions[i] # None /\ Overlap(c.regions[i], r) THEN None
                         ELSE c.regions[i]
      BY <2>1, <2>4, AddMap
    <3> HIDE DEF d, r
    <3>2. CASE i = n
      <4>1. Standing(n, n)
        BY <1>0, <1>3 DEF Standing
      <4> QED
        BY <3>1, <3>2, <4>1 DEF r
    <3>3. CASE i # n
      <4>1. Standing(i, n) <=> Standing(i, n - 1) /\ ~Overlap(disk[i], r)
        <5>1. \A j \in ID : j <= n <=> j = n \/ j <= n - 1
          BY <1>0
        <5>2. i <= n => i < n
          BY <1>0, <3>3
        <5> QED
          BY <1>3, <3>3, <5>1, <5>2 DEF Standing, r
      <4>2. Standing(i, n - 1) => disk[i] # None
        BY DEF Standing
      <4> QED
        BY <1>1, <3>1, <3>3, <4>1, <4>2
    <3> QED
      BY <3>2, <3>3
  <2>8. d.regions = UpTo(n)
    <3>1. d.regions \in [ID -> Region \union {None}]
      BY <2>5 DEF Consistent, MapOK
    <3> HIDE DEF d
    <3> QED
      BY <2>7, <3>1 DEF UpTo
  <2> HIDE DEF d
  <2> QED
    BY <2>3, <2>5, <2>6, <2>8 DEF LoadedUpTo
<1> QED
  BY <1>2, <1>3

LEMMA EmptyUpTo == LoadedUpTo(Empty, 0)
<1>1. \A i \in ID : i \in Nat /\ i > 0
  BY DEF ID
<1>2. UpTo(0) = [i \in ID |-> None]
  BY <1>1 DEF UpTo, Standing
<1>3. /\ Empty.tree = {} /\ Empty.regions = [i \in ID |-> None]
      /\ Empty.leaders = [s \in Store |-> {}] /\ Empty.followers = [s \in Store |-> {}]
  BY DEF Empty
<1>4. IsCache(Empty)
  BY DEF IsCache, Empty
<1>5. MapOK(Empty.regions) /\ Items(Empty.regions) = {}
  BY <1>3 DEF MapOK, Items
<1>6. \A s \in Store : Led(Empty.regions, s) = {} /\ Followed(Empty.regions, s) = {}
  BY <1>3 DEF Led, Followed
<1>7. Consistent(Empty)
  BY <1>3, <1>5, <1>6 DEF Consistent, Disjoint
<1> QED
  BY <1>2, <1>3, <1>4, <1>7 DEF LoadedUpTo

LEMMA LoadedIsUpTo ==
  ASSUME disk \in [ID -> Region \union {None}], Stored(disk)
  PROVE  LoadedUpTo(Loaded, MaxID)
<1>1. \A i \in ID : i <= MaxID
  BY DEF ID
<1>2. \A i \in ID : Survives(i) <=> Standing(i, MaxID)
  <2> SUFFICES ASSUME NEW i \in ID PROVE Survives(i) <=> Standing(i, MaxID)
    OBVIOUS
  <2>1. \A j \in ID : j > i <=> i < j
    BY DEF ID
  <2> QED
    BY <1>1, <2>1 DEF Survives, Standing
<1>3. Loaded.regions = UpTo(MaxID)
  BY <1>2 DEF Loaded, UpTo
<1>4. IsCache(Loaded)
  BY DEF IsCache, Loaded
<1> QED
  BY <1>3, <1>4, LoadedConsistent DEF LoadedUpTo

(* Every nonempty set of natural numbers has a least element. *)
LEMMA LeastNumber ==
  ASSUME NEW T, T \subseteq Nat, T # {}
  PROVE  \E x \in T : \A y \in T : x <= y
<1> DEFINE R == OpToRel(<, Nat)
<1>1. IsWellFoundedOn(R, Nat)
  BY NatLessThanWellFounded, Zenon
<1> HIDE DEF R
<1>2. PICK x \in T : \A y \in T : ~(<<y, x>> \in R)
  BY <1>1, WFMin
<1>3. \A y \in T : ~(y < x)
  BY <1>2 DEF R, OpToRel
<1> QED
  BY <1>3

(* A function that begins with Empty and takes one turn after the other.   *)
TakesTurns(f) == f[0] = Empty /\ \A n \in ID : f[n] = Turn(f[n - 1], n)

(* The first turn that would leave something else does not exist. *)
LEMMA TurnsUpTo ==
  ASSUME disk \in [ID -> Region \union {None}], Stored(disk),
         NEW f, TakesTurns(f), NEW l \in 0 .. MaxID
  PROVE  LoadedUpTo(f[l], l)
<1> DEFINE Bad == {n \in 0 .. MaxID : ~LoadedUpTo(f[n], n)}
<1> SUFFICES ASSUME l \in Bad PROVE FALSE
  OBVIOUS
<1>1. Bad \subseteq Nat /\ Bad # {}
  OBVIOUS
<1> HIDE DEF Bad
<1>2. PICK m \in Bad : \A n \in Bad : m <= n
  BY <1>1, LeastNumber
<1>3. m \in 0 .. MaxID /\ ~LoadedUpTo(f[m], m)
  BY <1>2 DEF Bad
<1>4. m # 0
  BY <1>3, EmptyUpTo DEF TakesTurns
<1>5. m \in ID /\ m - 1 \in 0 .. MaxID /\ m - 1 \notin Bad
  BY <1>1, <1>2, <1>3, <1>4 DEF ID
<1>6. LoadedUpTo(f[m - 1], m - 1)
  BY <1>5 DEF Bad
<1>7. LoadedUpTo(Turn(f[m - 1], m), m)
  BY <1>5, <1>6, TurnUpTo
<1> QED
  BY <1>3, <1>5, <1>7 DEF TakesTurns

(* There is such a cache after every turn: the first without one would     *)
(* have one after the turn before.                                         *)
LEMMA UpToExists ==
  ASSUME disk \in [ID -> Region \union {None}], Stored(disk), NEW l \in 0 .. MaxID
  PROVE  \E c : LoadedUpTo(c, l)
<1> DEFINE Bad == {n \in 0 .. MaxID : ~\E c : LoadedUpTo(c, n)}
<1> SUFFICES ASSUME l \in Bad PROVE FALSE
  OBVIOUS
<1>1. Bad \subseteq Nat /\ Bad # {}
  OBVIOUS
<1> HIDE DEF Bad
<1>2. PICK m \in Bad : \A n \in Bad : m <= n
  BY <1>1, LeastNumber
<1>3. m \in 0 .. MaxID /\ ~\E c : LoadedUpTo(c, m)
  BY <1>2 DEF Bad
<1>4. m # 0
  BY <1>3, EmptyUpTo
<1>5. m \in ID /\ m - 1 \in 0 .. MaxID /\ m - 1 \notin Bad
  BY <1>1, <1>2, <1>3, <1>4 DEF ID
<1>6. PICK c : LoadedUpTo(c, m - 1)
  BY <1>5 DEF Bad
<1>7. LoadedUpTo(Turn(c, m), m)
  BY <1>5, <1>6, TurnUpTo
<1> QED
  BY <1>3, <1>7

(* The loop of loadRegions is well defined and takes its turns. *)
Loop ==
  CHOOSE load : load = [n \in 0 .. MaxID |->
                          IF n = 0 THEN Empty
                          ELSE IF disk[n] = None THEN load[n - 1]
                          ELSE SetRegion(load[n - 1], disk[n])]

LEMMA LoopTakesTurns ==
  ASSUME disk \in [ID -> Region \union {None}], Stored(disk)
  PROVE  TakesTurns(Loop)
<1> DEFINE F(f) == [n \in 0 .. MaxID |->
                      IF n = 0 THEN Empty
                      ELSE IF disk[n] = None THEN f[n - 1] ELSE SetRegion(f[n - 1], disk[n])]
           w == [n \in 0 .. MaxID |-> CHOOSE c : LoadedUpTo(c, n)]
<1>1. \A n \in 0 .. MaxID : LoadedUpTo(w[n], n)
  BY UpToExists
<1>2. w = [n \in 0 .. MaxID |-> w[n]]
  OBVIOUS
<1> HIDE DEF w
<1>3. 0 \in 0 .. MaxID /\ \A n \in 0 .. MaxID : n # 0 => n \in ID /\ n - 1 \in 0 .. MaxID
  BY DEF ID
<1>4. w[0] = Empty
  BY <1>1, <1>3, EmptyUpTo, Determined
<1>5. ASSUME NEW n \in 0 .. MaxID, n # 0
      PROVE  w[n] = Turn(w[n - 1], n)
  <2>1. LoadedUpTo(Turn(w[n - 1], n), n)
    BY <1>1, <1>3, <1>5, TurnUpTo
  <2> QED
    BY <1>1, <2>1, Determined
<1>6. w = F(w)
  <2>1. \A n \in 0 .. MaxID : w[n] = F(w)[n]
    BY <1>4, <1>5 DEF Turn
  <2> QED
    BY <1>2, <2>1
<1>7. Loop = F(Loop)
  BY <1>6 DEF Loop
<1> DEFINE g == Loop
<1> HIDE DEF g
<1>8. g = F(g)
  BY <1>7 DEF g
<1>9. \A n \in ID : n \in 0 .. MaxID /\ n # 0
  BY DEF ID
<1>10. TakesTurns(g)
  BY <1>3, <1>8, <1>9 DEF TakesTurns, Turn
<1> QED
  BY <1>10 DEF g

(* What a restarted or re-elected server loads, described at once by       *)
(* Survives, is what the loop of loadRegions computes one SetRegion after  *)
(* the other, whatever overlapping regions a lost delete or a late flush   *)
(* left in leveldb (region_storage.go, loadRegions).                       *)
THEOREM LoadingIsTheLoop == Spec => []LoadedByLoop
<1>1. IInv => LoadedByLoop
  <2> SUFFICES ASSUME IInv PROVE Loaded = LoadLoop
    BY DEF LoadedByLoop
  <2>1. disk \in [ID -> Region \union {None}] /\ Stored(disk)
    BY DEF IInv, TypeOK, GoodRegions
  <2>2. LoadLoop = Loop[MaxID]
    BY DEF LoadLoop, Loop
  <2>3. MaxID \in 0 .. MaxID
    OBVIOUS
  <2>4. LoadedUpTo(Loop[MaxID], MaxID)
    BY <2>1, <2>3, LoopTakesTurns, TurnsUpTo
  <2>5. LoadedUpTo(Loaded, MaxID)
    BY <2>1, LoadedIsUpTo
  <2> QED
    BY <2>2, <2>4, <2>5, Determined
<1> QED
  BY <1>1, AlwaysIInv, PTL
============================================================================
