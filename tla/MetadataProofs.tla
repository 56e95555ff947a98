--------------------------- MODULE MetadataProofs ---------------------------
(***************************************************************************)
(* What PD keeps both in memory and in etcd agrees in both, for any number *)
(* of servers, stores, namespaces and handlers, whichever writes fail: the *)
(* IDs (IDAllocator), the stores (Stores), the table namespaces            *)
(* (Namespaces) and the options of the cluster (Options).                  *)
(***************************************************************************)
EXTENDS IDAllocator, Stores, Namespaces, Options, FiniteSetTheorems,
        NaturalsInduction, WellFoundedInduction, TLAPS

(***************************************************************************)
(* IDs.  WindowsReserved makes UniqueIDs inductive: an ID taken out of a   *)
(* window is new because no ID in use lies in any window, and the IDs of a *)
(* fresh window are new because all those in use lie below alloc_id.       *)
(***************************************************************************)
IInv == TypeOK /\ WindowsReserved /\ UniqueIDs

(* The first state has no window and no ID. *)
LEMMA InitIInv == Init => IInv
  BY DEF Init, IInv, TypeOK, WindowsReserved, UniqueIDs

(* Types survive every step of Alloc, generate and the environment. *)
LEMMA TypeStep == TypeOK /\ [Next]_vars => TypeOK'
<1> SUFFICES ASSUME TypeOK, [Next]_vars PROVE TypeOK'
  OBVIOUS
<1> USE IDAssumption
<1>1. ASSUME NEW r \in Req, NEW s \in Server, Alloc(r, s) PROVE TypeOK'
  BY <1>1 DEF Alloc, TypeOK
<1>2. ASSUME NEW r \in Req, NEW s \in Server, GenerateGet(r, s) PROVE TypeOK'
  BY <1>2 DEF GenerateGet, TypeOK
<1>3. ASSUME NEW r \in Req, NEW s \in Server, GenerateTxn(r, s) PROVE TypeOK'
  BY <1>3 DEF GenerateTxn, TxnSucceeds, GeneratedEnd, Fail, TypeOK
<1>4. ASSUME NEW r \in Req, NEW s \in Server, GenerateError(r, s) PROVE TypeOK'
  BY <1>4 DEF GenerateError, TxnSucceeds, GeneratedEnd, Fail, TypeOK
<1>5. CASE LeaderChanges
  BY <1>5 DEF LeaderChanges, TypeOK
<1>6. ASSUME NEW s \in Server, Restart(s) PROVE TypeOK'
  BY <1>6 DEF Restart, TypeOK
<1>7. CASE UNCHANGED vars
  BY <1>7 DEF vars, TypeOK
<1> QED
  BY <1>1, <1>2, <1>3, <1>4, <1>5, <1>6, <1>7 DEF Next

(* An ID taken out of the window it belongs to: Alloc's short way. *)
LEMMA AllocStep ==
  ASSUME IInv, NEW r \in Req, NEW s \in Server, Alloc(r, s)
  PROVE  WindowsReserved' /\ UniqueIDs'
<1>1. CASE base[s] = end[s]
  BY <1>1 DEF IInv, TypeOK, WindowsReserved, UniqueIDs, Alloc
<1>2. CASE base[s] # end[s]
  <2>1. /\ base' = [base EXCEPT ![s] = base[s] + 1]
        /\ id' = [id EXCEPT ![r] = base[s] + 1]
        /\ end' = end /\ allocID' = allocID
    BY <1>2 DEF Alloc
  <2>2. base[s] + 1 <= end[s]
    BY <1>2 DEF IInv, TypeOK, WindowsReserved
  <2>3. UniqueIDs'
    BY <2>1, <2>2 DEF IInv, TypeOK, WindowsReserved, UniqueIDs
  <2>4. WindowsReserved'
    BY <2>1, <2>2 DEF IInv, TypeOK, WindowsReserved
  <2> QED
    BY <2>3, <2>4
<1> QED
  BY <1>1, <1>2

(* A fresh window starts where every window and every ID in use ends. *)
LEMMA GenerateTxnStep ==
  ASSUME IInv, NEW r \in Req, NEW s \in Server, GenerateTxn(r, s)
  PROVE  WindowsReserved' /\ UniqueIDs'
<1>1. CASE TxnSucceeds(s)
  <2>1. /\ allocID' = allocID + allocStep
        /\ end' = [end EXCEPT ![s] = allocID + allocStep]
        /\ base' = [base EXCEPT ![s] = allocID + 1]
        /\ id' = [id EXCEPT ![r] = allocID + 1]
    BY <1>1, IDAssumption DEF GenerateTxn, TxnSucceeds, GeneratedEnd, IInv, TypeOK
  <2>2. UniqueIDs'
    BY <2>1 DEF IInv, TypeOK, WindowsReserved, UniqueIDs
  <2>3. WindowsReserved'
    BY <2>1, IDAssumption DEF IInv, TypeOK, WindowsReserved
  <2> QED
    BY <2>2, <2>3
<1>2. CASE ~TxnSucceeds(s)
  BY <1>2 DEF GenerateTxn, Fail, IInv, TypeOK, WindowsReserved, UniqueIDs
<1> QED
  BY <1>1, <1>2

(* The invariant is inductive. *)
LEMMA NextIInv == IInv /\ [Next]_vars => IInv'
<1> SUFFICES ASSUME IInv, [Next]_vars PROVE WindowsReserved' /\ UniqueIDs'
  BY TypeStep DEF IInv
<1> USE IDAssumption
<1>1. ASSUME NEW r \in Req, NEW s \in Server, Alloc(r, s)
      PROVE  WindowsReserved' /\ UniqueIDs'
  BY <1>1, AllocStep
<1>2. ASSUME NEW r \in Req, NEW s \in Server, GenerateGet(r, s)
      PROVE  WindowsReserved' /\ UniqueIDs'
  BY <1>2 DEF GenerateGet, IInv, WindowsReserved, UniqueIDs
<1>3. ASSUME NEW r \in Req, NEW s \in Server, GenerateTxn(r, s)
      PROVE  WindowsReserved' /\ UniqueIDs'
  BY <1>3, GenerateTxnStep
<1>4. ASSUME NEW r \in Req, NEW s \in Server, GenerateError(r, s)
      PROVE  WindowsReserved' /\ UniqueIDs'
  BY <1>4 DEF GenerateError, TxnSucceeds, GeneratedEnd, Fail, IInv, TypeOK, WindowsReserved, UniqueIDs
<1>5. CASE LeaderChanges
  BY <1>5 DEF LeaderChanges, IInv, WindowsReserved, UniqueIDs
<1>6. ASSUME NEW s \in Server, Restart(s)
      PROVE  WindowsReserved' /\ UniqueIDs'
  BY <1>6 DEF Restart, IInv, TypeOK, WindowsReserved, UniqueIDs
<1>7. CASE UNCHANGED vars
  BY <1>7 DEF vars, IInv, WindowsReserved, UniqueIDs
<1> QED
  BY <1>1, <1>2, <1>3, <1>4, <1>5, <1>6, <1>7 DEF Next

(* Type correctness of the allocator. *)
THEOREM TypeCorrect == Spec => []TypeOK
<1>1. Init => TypeOK
  BY InitIInv DEF IInv
<1> QED
  BY <1>1, TypeStep, PTL DEF Spec

(* No two calls of Alloc return the same ID. *)
THEOREM IDsUnique == Spec => []UniqueIDs
<1>1. IInv => UniqueIDs
  BY DEF IInv
<1> QED
  BY <1>1, InitIInv, NextIInv, PTL DEF Spec

(* Every window and every ID in use is covered by alloc_id in etcd. *)
THEOREM WindowsCovered == Spec => []WindowsReserved
<1>1. IInv => WindowsReserved
  BY DEF IInv
<1> QED
  BY <1>1, InitIInv, NextIInv, PTL DEF Spec

(* alloc_id only grows. *)
THEOREM AllocIDGrows == Spec => AllocIDMonotonic
<1>1. TypeOK /\ [Next]_vars => [allocID' >= allocID]_vars
  BY IDAssumption DEF TypeOK, Next, vars, Alloc, GenerateGet, GenerateTxn,
     GenerateError, TxnSucceeds, GeneratedEnd, Fail, LeaderChanges, Restart
<1> QED
  BY <1>1, TypeCorrect, PTL DEF Spec, AllocIDMonotonic

(***************************************************************************)
(* Stores.  A handler carries a clone of a store from its read to its      *)
(* write.  DurableStores is nearly inductive: it needs the shape of what   *)
(* the handlers carry (StoresTypes), and that only the bootstrap, which    *)
(* comes before the cluster runs, writes a store without caching it        *)
(* (RunsBootstrapped).                                                     *)
(***************************************************************************)
StoresSpec == StoresInit /\ [][StoresNext]_storesVars

StoreInfo ==
  [id : StoreID, addr : STRING, version : Nat, label : STRING, state : State,
   leader : Nat, region : Nat, blocked : BOOLEAN, beat : BOOLEAN]

Kind == {"put", "labels", "remove", "bury", "state", "weight"}

HandlerState ==
  {Idle}
  \union [pc : {"bootstrap"}, store : StoreMeta]
  \union [pc : {"start", "version"}]
  \union [pc : {"put"}, kind : Kind, meta : StoreMeta]
  \union [pc : {"save", "leader", "region"}, kind : Kind, store : StoreInfo]
  \union [pc : {"bury"}, id : StoreID]
  \union [pc : {"delete"}, ids : SUBSET StoreID]
  \union [pc : {"gc"}, point : Nat]

StoresTypes ==
  /\ storeKey \in [StoreID -> StoreMeta \union {NoStore}]
  /\ weightKey \in [StoreID -> [leader : Nat, region : Nat]]
  /\ stores \in [StoreID -> StoreInfo \union {NoStore}]
  /\ op \in [Actor -> HandlerState]

RunsBootstrapped == running => metaKey

StoresInv == StoresTypes /\ RunsBootstrapped /\ DurableStores

(* The handler's state, by where it stands. *)
LEMMA HandlerShape ==
  ASSUME NEW o \in HandlerState
  PROVE  /\ o.pc = "bootstrap" => o.store \in StoreMeta
         /\ o.pc = "put" => o.kind \in Kind /\ o.meta \in StoreMeta
         /\ o.pc \in {"save", "leader", "region"} =>
              /\ o = [pc |-> o.pc, kind |-> o.kind, store |-> o.store]
              /\ o.kind \in Kind /\ o.store \in StoreInfo
         /\ o.pc = "bury" => o.id \in StoreID
         /\ o.pc = "delete" => o = [pc |-> "delete", ids |-> o.ids] /\ o.ids \subseteq StoreID
  BY DEF HandlerState, Idle

(* The shapes of stores, and that none of them is NoStore. *)
LEMMA StoreShape ==
  /\ NoStore \notin StoreInfo /\ NoStore \notin StoreMeta
  /\ \A s \in StoreInfo : meta(s) \in StoreMeta /\ meta(s).state = s.state
                          /\ meta(s).addr = s.addr /\ meta(s).version = s.version
  /\ \A m \in StoreMeta, l, r \in Nat :
       /\ NewStoreInfo(m, l, r) \in StoreInfo
       /\ NewStoreInfo(m, l, r).state = m.state
       /\ NewStoreInfo(m, l, r).addr = m.addr
       /\ NewStoreInfo(m, l, r).version = m.version
<1>1. NoStore \notin StoreInfo /\ NoStore \notin StoreMeta
  BY DEF NoStore, StoreInfo, StoreMeta, State
<1> QED
  BY <1>1 DEF meta, NewStoreInfo, StoreInfo, StoreMeta

(* What a start loads is what etcd holds. *)
LEMMA LoadedSame ==
  ASSUME StoresTypes
  PROVE  /\ LoadStores \in [StoreID -> StoreInfo \union {NoStore}]
         /\ \A sid \in StoreID :
              LET s == LoadStores[sid]
                  k == storeKey[sid]
              IN /\ s = NoStore <=> k = NoStore
                 /\ s # NoStore => s.state = k.state /\ s.addr = k.addr /\ s.version = k.version
<1>1. \A sid \in StoreID : /\ weightOr1(weightKey[sid].leader) \in Nat
                          /\ weightOr1(weightKey[sid].region) \in Nat
  BY DEF StoresTypes, weightOr1
<1>2. \A sid \in StoreID : storeKey[sid] # NoStore => storeKey[sid] \in StoreMeta
  BY DEF StoresTypes
<1>3. ASSUME NEW sid \in StoreID, storeKey[sid] # NoStore
      PROVE  /\ LoadStores[sid] \in StoreInfo
             /\ LoadStores[sid].state = storeKey[sid].state
             /\ LoadStores[sid].addr = storeKey[sid].addr
             /\ LoadStores[sid].version = storeKey[sid].version
  BY <1>1, <1>2, <1>3, StoreShape DEF LoadStores
<1>4. ASSUME NEW sid \in StoreID, storeKey[sid] = NoStore
      PROVE  LoadStores[sid] = NoStore
  BY <1>4 DEF LoadStores
<1>5. LoadStores = [sid \in StoreID |-> LoadStores[sid]]
  BY DEF LoadStores
<1>6. \A sid \in StoreID : LoadStores[sid] \in StoreInfo \union {NoStore}
  BY <1>3, <1>4
<1>7. LoadStores \in [StoreID -> StoreInfo \union {NoStore}]
  BY <1>5, <1>6
<1> QED
  BY <1>3, <1>4, <1>7, StoreShape

(* A step that leaves etcd alone and changes at most the label, the        *)
(* weights and the marks of cached stores.                                 *)
LEMMA SameOutside ==
  ASSUME StoresInv, StoresTypes',
         UNCHANGED <<metaKey, storeKey, unsure>>, running' => running,
         \A sid \in StoreID :
           /\ stores'[sid] = NoStore <=> stores[sid] = NoStore
           /\ stores[sid] # NoStore => /\ stores'[sid].state = stores[sid].state
                                      /\ stores'[sid].addr = stores[sid].addr
                                      /\ stores'[sid].version = stores[sid].version
  PROVE  StoresInv'
  BY DEF StoresInv, RunsBootstrapped, DurableStores

(* A handler goes on; nothing else of what the invariant is about changes. *)
LEMMA HandlerGoesOn ==
  ASSUME StoresInv, NEW c \in Actor, NEW o \in HandlerState, goto(c, o),
         UNCHANGED <<metaKey, storeKey, weightKey, running, stores, unsure>>
  PROVE  StoresInv'
<1>1. StoresTypes'
  BY DEF StoresInv, StoresTypes, goto
<1> QED
  BY <1>1, SameOutside

(* Init. *)
LEMMA StoresInitInv == StoresInit => StoresInv
<1> SUFFICES ASSUME StoresInit PROVE StoresInv
  OBVIOUS
<1>1. Idle \in HandlerState
  BY DEF HandlerState
<1>2. StoresTypes
  BY <1>1 DEF StoresInit, StoresTypes
<1> QED
  BY <1>2 DEF StoresInit, StoresInv, RunsBootstrapped, DurableStores

(* start, which is a part of two actions. *)
LEMMA StartInv ==
  ASSUME StoresInv, start, op' \in [Actor -> HandlerState], UNCHANGED etcdVars
  PROVE  StoresInv'
<1>1. CASE metaKey
  <2>1. StoresTypes'
    BY <1>1, LoadedSame DEF StoresInv, StoresTypes, start, etcdVars
  <2>2. DurableStores'
    BY <1>1, LoadedSame DEF StoresInv, DurableStores, start, etcdVars
  <2> QED
    BY <1>1, <2>1, <2>2 DEF StoresInv, RunsBootstrapped, etcdVars
<1>2. CASE ~metaKey
  <2>1. StoresTypes'
    BY <1>2 DEF StoresInv, StoresTypes, start, etcdVars
  <2> QED
    BY <1>2, <2>1, SameOutside DEF start, etcdVars
<1> QED
  BY <1>1, <1>2

(* The server goes down. *)
LEMMA LostInv ==
  ASSUME StoresInv, lost
  PROVE  StoresInv'
<1>1. Idle \in HandlerState
  BY DEF HandlerState
<1>2. StoresTypes'
  BY <1>1 DEF StoresInv, StoresTypes, lost, etcdVars
<1> QED
  BY <1>2 DEF StoresInv, RunsBootstrapped, DurableStores, lost

(* A write of store sid, whatever becomes of it: the cache takes what etcd *)
(* holds, or the store is unsure, or nothing happens.                      *)
LEMMA WriteInv ==
  ASSUME StoresInv, NEW sid \in StoreID, NEW s \in StoreInfo \union {NoStore}, NEW v,
         v = meta(s), op' \in [Actor -> HandlerState],
         UNCHANGED <<metaKey, weightKey, running>>,
         \/ /\ storeKey' = [storeKey EXCEPT ![sid] = v]
            /\ unsure' = unsure \ {sid}
            /\ stores' = cached(sid, s, TRUE)
         \/ /\ stores' = cached(sid, s, FALSE)
            /\ \/ UNCHANGED <<storeKey, unsure>>
               \/ /\ storeKey' = [storeKey EXCEPT ![sid] = v]
                  /\ unsure' = unsure \union {sid}
  PROVE  StoresInv'
<1>1. /\ v \in StoreMeta \union {NoStore}
      /\ s = NoStore <=> v = NoStore
      /\ s # NoStore => v.state = s.state /\ v.addr = s.addr /\ v.version = s.version
  BY StoreShape DEF meta
<1>2. StoresTypes'
  BY <1>1 DEF StoresInv, StoresTypes, cached
<1>3. DurableStores'
  BY <1>1 DEF StoresInv, StoresTypes, DurableStores, cached
<1> QED
  BY <1>2, <1>3 DEF StoresInv, RunsBootstrapped

(* Every step of the stores preserves the invariant. *)
LEMMA StoresStep ==
  ASSUME StoresInv, [StoresNext]_storesVars
  PROVE  StoresInv'
<1> USE StoresAssumption
<1>0. /\ StoresTypes /\ Idle \in HandlerState
      /\ \A c \in Caller : c \in Actor
      /\ Background \in Actor
      /\ \A c \in Actor : op[c] \in HandlerState
      /\ \A sid \in StoreID : stores[sid] \in StoreInfo \union {NoStore}
      /\ \A sid \in StoreID : Known(sid) => stores[sid] \in StoreInfo
  BY DEF StoresInv, StoresTypes, HandlerState, Actor, Known
<1>1. CASE createRaftCluster
  BY <1>0, <1>1, StartInv DEF createRaftCluster, StoresTypes
<1>2. CASE stop
  <2>1. StoresTypes'
    BY <1>0, <1>2 DEF stop, StoresTypes, etcdVars
  <2> QED
    BY <1>2, <2>1, SameOutside DEF stop, etcdVars
<1>3. CASE Crash
  BY <1>3, LostInv DEF Crash
<1>4. ASSUME NEW c \in Caller, NEW req \in BootRequest, Bootstrap(c, req)
      PROVE  StoresInv'
  <2>1. [pc |-> "bootstrap", store |-> req.store] \in HandlerState
    BY DEF HandlerState
  <2> QED
    BY <1>0, <1>4, <2>1, HandlerGoesOn DEF Bootstrap, etcdVars, cacheVars
<1>5. ASSUME NEW c \in Caller, bootstrapCluster(c)
      PROVE  StoresInv'
  <2>0. PICK o \in HandlerState : goto(c, o)
    BY <1>0, <1>5 DEF bootstrapCluster, returns, HandlerState
  <2>1. CASE UNCHANGED <<metaKey, storeKey>>
    BY <1>0, <1>5, <2>0, <2>1, HandlerGoesOn DEF bootstrapCluster, cacheVars
  <2>2. CASE ~metaKey /\ bootstrapTxn(c)
    <3>1. op[c].store \in StoreMeta
      BY <1>0, <1>5, HandlerShape DEF bootstrapCluster
    <3>3. StoresTypes'
      BY <1>0, <1>5, <2>0, <2>2, <3>1
         DEF bootstrapCluster, bootstrapTxn, bootstrapCmp, goto, StoresTypes, cacheVars
    <3>4. ~running'
      BY <1>5, <2>2 DEF bootstrapCluster, cacheVars, StoresInv, RunsBootstrapped
    <3> QED
      BY <3>3, <3>4 DEF StoresInv, RunsBootstrapped, DurableStores
  <2> QED
    BY <1>5, <2>1, <2>2 DEF bootstrapCluster, bootstrapTxn, bootstrapCmp
<1>6. ASSUME NEW c \in Caller, BootstrapStarts(c)
      PROVE  StoresInv'
  <2>1. CASE running
    BY <1>0, <1>6, <2>1, HandlerGoesOn DEF BootstrapStarts, returns, etcdVars
  <2>2. CASE ~running
    <3>1. op' \in [Actor -> HandlerState]
      BY <1>0, <1>6 DEF BootstrapStarts, returns, goto, StoresTypes
    <3> QED
      BY <1>6, <2>2, <3>1, StartInv DEF BootstrapStarts
  <2> QED
    BY <2>1, <2>2
<1>7. ASSUME NEW c \in Caller, NEW m \in PutRequest, PutStore(c, m)
      PROVE  StoresInv'
  <2>1. [pc |-> "put", kind |-> "put", meta |-> m] \in HandlerState
    BY DEF HandlerState, Kind
  <2> QED
    BY <1>0, <1>7, <2>1, HandlerGoesOn DEF PutStore, etcdVars, cacheVars
<1>8. ASSUME NEW c \in Caller, putStore(c)
      PROVE  StoresInv'
  <2> DEFINE m == op[c].meta
             s == IF Known(m.id)
                  THEN [stores[m.id] EXCEPT !.addr = m.addr, !.version = m.version,
                                            !.label = MergeLabels(stores[m.id], m.label)]
                  ELSE NewStoreInfo(m, 1, 1)
  <2>1. m \in StoreMeta /\ m.id \in StoreID /\ op[c].kind \in Kind
    BY <1>0, <1>8, HandlerShape DEF putStore, StoreMeta
  <2>2. s \in StoreInfo
    <3>1. CASE Known(m.id)
      <4>1. stores[m.id] \in StoreInfo
        BY <1>0, <2>1, <3>1
      <4>2. MergeLabels(stores[m.id], m.label) \in STRING
        BY <2>1, <4>1 DEF MergeLabels, StoreInfo, StoreMeta
      <4>3. [stores[m.id] EXCEPT !.addr = m.addr, !.version = m.version,
                                 !.label = MergeLabels(stores[m.id], m.label)] \in StoreInfo
        BY <2>1, <4>1, <4>2 DEF StoreInfo, StoreMeta
      <4> QED
        BY <3>1, <4>3
    <3>2. CASE ~Known(m.id)
      BY <2>1, <3>2, StoreShape
    <3> QED
      BY <3>1, <3>2
  <2>3. [pc |-> "save", kind |-> op[c].kind, store |-> s] \in HandlerState
    BY <2>1, <2>2 DEF HandlerState
  <2>4. op' \in [Actor -> HandlerState]
    BY <1>0, <1>8, <2>3 DEF putStore, saves, returns, goto, StoresTypes
  <2>5. stores' \in {stores, mergedInPlace(m)}
    BY <1>8 DEF putStore
  <2>6. /\ mergedInPlace(m) \in [StoreID -> StoreInfo \union {NoStore}]
        /\ \A sid \in StoreID :
             /\ mergedInPlace(m)[sid] = NoStore <=> stores[sid] = NoStore
             /\ stores[sid] # NoStore =>
                  /\ mergedInPlace(m)[sid].state = stores[sid].state
                  /\ mergedInPlace(m)[sid].addr = stores[sid].addr
                  /\ mergedInPlace(m)[sid].version = stores[sid].version
    <3>1. CASE mergedInPlace(m) = stores
      BY <1>0, <3>1 DEF StoresTypes
    <3>2. CASE Known(m.id) /\ mergedInPlace(m) = [stores EXCEPT ![m.id].label = m.label]
      <4>1. stores[m.id] \in StoreInfo
        BY <1>0, <2>1, <3>2
      <4>2. [stores[m.id] EXCEPT !.label = m.label] \in StoreInfo
        BY <2>1, <4>1 DEF StoreInfo, StoreMeta
      <4>3. /\ [stores[m.id] EXCEPT !.label = m.label].state = stores[m.id].state
            /\ [stores[m.id] EXCEPT !.label = m.label].addr = stores[m.id].addr
            /\ [stores[m.id] EXCEPT !.label = m.label].version = stores[m.id].version
        BY <4>1 DEF StoreInfo
      <4>4. /\ mergedInPlace(m)[m.id] = [stores[m.id] EXCEPT !.label = m.label]
            /\ \A sid \in StoreID : sid # m.id => mergedInPlace(m)[sid] = stores[sid]
            /\ mergedInPlace(m) \in [StoreID -> StoreInfo \union {NoStore}]
        BY <1>0, <2>1, <3>2, <4>2 DEF StoresTypes
      <4>5. mergedInPlace(m)[m.id] # NoStore /\ stores[m.id] # NoStore
        BY <4>1, <4>2, <4>4, StoreShape
      <4> HIDE DEF m
      <4> QED
        BY <4>3, <4>4, <4>5
    <3> QED
      BY <3>1, <3>2 DEF mergedInPlace
  <2>7. StoresTypes'
    BY <1>0, <1>8, <2>4, <2>5, <2>6 DEF StoresTypes, putStore, etcdVars
  <2> QED
    BY <1>8, <2>5, <2>6, <2>7, SameOutside DEF putStore, etcdVars
<1>9. ASSUME NEW c \in Caller, OnStoreVersionChange(c)
      PROVE  StoresInv'
  <2>1. CASE lost
    BY <2>1, LostInv
  <2>2. CASE returns(c) /\ UNCHANGED <<metaKey, storeKey, weightKey, running, stores, unsure>>
    BY <1>0, <2>2, HandlerGoesOn DEF returns
  <2> QED
    BY <1>9, <2>1, <2>2 DEF OnStoreVersionChange
<1>10. ASSUME NEW c \in Caller, RemoveTombStoneRecords(c)
       PROVE  StoresInv'
  <2> DEFINE dead == {sid \in StoreID : Known(sid) /\ IsTombstone(stores[sid])}
  <2>1. [pc |-> "delete", ids |-> dead] \in HandlerState
    BY DEF HandlerState
  <2> QED
    BY <1>0, <1>10, <2>1, HandlerGoesOn DEF RemoveTombStoneRecords, etcdVars, cacheVars
<1>11. ASSUME NEW c \in Caller, SaveStoreWeight(c)
       PROVE  StoresInv'
  <2> DEFINE s == op[c].store
  <2>1. /\ op[c] = [pc |-> op[c].pc, kind |-> op[c].kind, store |-> s]
        /\ op[c].kind \in Kind /\ s \in StoreInfo
    BY <1>0, <1>11, HandlerShape DEF SaveStoreWeight
  <2>2. [op[c] EXCEPT !.pc = "region"] = [pc |-> "region", kind |-> op[c].kind, store |-> s]
    BY <2>1
  <2>3. /\ [pc |-> "region", kind |-> op[c].kind, store |-> s] \in HandlerState
        /\ [pc |-> "save", kind |-> "weight", store |-> s] \in HandlerState
    BY <2>1 DEF HandlerState, Kind
  <2>4. op' \in [Actor -> HandlerState]
    BY <1>0, <1>11, <2>2, <2>3 DEF SaveStoreWeight, saves, returns, goto, StoresTypes
  <2>5. weightKey' \in [StoreID -> [leader : Nat, region : Nat]]
    BY <1>0, <1>11, <2>1 DEF SaveStoreWeight, StoresTypes, StoreInfo
  <2>6. StoresTypes'
    BY <1>0, <1>11, <2>4, <2>5 DEF SaveStoreWeight, StoresTypes, cacheVars
  <2> QED
    BY <1>11, <2>6, SameOutside DEF SaveStoreWeight, cacheVars
<1>12. ASSUME NEW c \in Caller, SaveGCSafePoint(c)
       PROVE  StoresInv'
  BY <1>0, <1>12, HandlerGoesOn DEF SaveGCSafePoint, returns, cacheVars
<1>13. ASSUME NEW c \in Caller, NEW p \in 1 .. 2, UpdateGCSafePoint(c, p)
       PROVE  StoresInv'
  <2>1. CASE UNCHANGED op
    BY <1>0, <1>13, <2>1, SameOutside DEF UpdateGCSafePoint, etcdVars, cacheVars, StoresTypes
  <2>2. CASE goto(c, [pc |-> "gc", point |-> p])
    <3>1. [pc |-> "gc", point |-> p] \in HandlerState
      BY DEF HandlerState
    <3> QED
      BY <1>0, <1>13, <2>2, <3>1, HandlerGoesOn DEF UpdateGCSafePoint, etcdVars, cacheVars
  <2> QED
    BY <1>13, <2>1, <2>2 DEF UpdateGCSafePoint
<1>14. ASSUME NEW c \in Actor, NEW s \in StoreInfo, NEW kind \in Kind, saves(c, kind, s),
              UNCHANGED <<metaKey, storeKey, weightKey, running, stores, unsure>>
       PROVE  StoresInv'
  <2>1. [pc |-> "save", kind |-> kind, store |-> s] \in HandlerState
    BY DEF HandlerState
  <2> QED
    BY <1>14, <2>1, HandlerGoesOn DEF saves
<1>15. ASSUME NEW sid \in StoreID, Known(sid), NEW st \in State
       PROVE  [stores[sid] EXCEPT !.state = st] \in StoreInfo
  BY <1>0, <1>15 DEF StoreInfo
<1>16. ASSUME NEW c \in Caller, NEW sid \in StoreID, NEW l \in Labels, UpdateStoreLabels(c, sid, l)
       PROVE  StoresInv'
  <2>1. stores[sid] \in StoreInfo
    BY <1>0, <1>16 DEF UpdateStoreLabels
  <2>2. meta(stores[sid]) \in StoreMeta
    BY <2>1, StoreShape
  <2>3. [meta(stores[sid]) EXCEPT !.label = l] \in StoreMeta
    BY <2>2 DEF StoreMeta
  <2>4. [pc |-> "put", kind |-> "labels", meta |-> [meta(stores[sid]) EXCEPT !.label = l]]
          \in HandlerState
    BY <2>3 DEF HandlerState, Kind
  <2> QED
    BY <1>0, <1>16, <2>4, HandlerGoesOn DEF UpdateStoreLabels, etcdVars, cacheVars
<1>17. ASSUME NEW c \in Caller, NEW sid \in StoreID, RemoveStore(c, sid)
       PROVE  StoresInv'
  <2>1. "Offline" \in State /\ "remove" \in Kind
    BY DEF State, Kind
  <2> QED
    BY <1>0, <1>14, <1>15, <1>17, <2>1 DEF RemoveStore, etcdVars, cacheVars
<1>18. ASSUME NEW c \in Actor, NEW sid \in StoreID, NEW force, buries(c, sid, force),
              UNCHANGED <<metaKey, storeKey, weightKey, running, stores, unsure>>
       PROVE  StoresInv'
  <2>1. "Tombstone" \in State /\ "bury" \in Kind
    BY DEF State, Kind
  <2> QED
    BY <1>14, <1>15, <1>18, <2>1 DEF buries
<1>19. ASSUME NEW c \in Caller, NEW sid \in StoreID, BuryStore(c, sid)
       PROVE  StoresInv'
  BY <1>0, <1>18, <1>19 DEF BuryStore, etcdVars, cacheVars
<1>20. ASSUME NEW c \in Caller, NEW sid \in StoreID, NEW st \in State, SetStoreState(c, sid, st)
       PROVE  StoresInv'
  <2>1. "state" \in Kind
    BY DEF Kind
  <2> QED
    BY <1>0, <1>14, <1>15, <1>20, <2>1 DEF SetStoreState, etcdVars, cacheVars
<1>21. ASSUME NEW c \in Caller, NEW sid \in StoreID, deleteStoreLocked(c, sid)
       PROVE  StoresInv'
  <2> DEFINE rest == op[c].ids \ {sid}
  <2>1. op[c] = [pc |-> "delete", ids |-> op[c].ids] /\ op[c].ids \subseteq StoreID
    BY <1>0, <1>21, HandlerShape DEF deleteStoreLocked
  <2>2. [op[c] EXCEPT !.ids = rest] = [pc |-> "delete", ids |-> rest]
    BY <2>1
  <2>3. [pc |-> "delete", ids |-> rest] \in HandlerState
    BY <2>1 DEF HandlerState
  <2>4. op' \in [Actor -> HandlerState]
    <3>1. goto(c, [op[c] EXCEPT !.ids = rest]) \/ goto(c, Idle)
      BY <1>21 DEF deleteStoreLocked, writes, returns
    <3> HIDE DEF rest
    <3>2. \E o \in HandlerState : goto(c, o)
      BY <1>0, <2>2, <2>3, <3>1
    <3> QED
      BY <1>0, <3>2 DEF goto, StoresTypes
  <2>5. meta(NoStore) = NoStore
    BY DEF meta
  <2>6. /\ UNCHANGED <<metaKey, weightKey, running>>
        /\ \/ /\ storeKey' = [storeKey EXCEPT ![sid] = NoStore]
              /\ unsure' = unsure \ {sid}
              /\ stores' = cached(sid, NoStore, TRUE)
           \/ /\ stores' = cached(sid, NoStore, FALSE)
              /\ \/ UNCHANGED <<storeKey, unsure>>
                 \/ /\ storeKey' = [storeKey EXCEPT ![sid] = NoStore]
                    /\ unsure' = unsure \union {sid}
    BY <1>21 DEF deleteStoreLocked, writes
  <2> QED
    BY <2>4, <2>5, <2>6, WriteInv
<1>22. ASSUME NEW c \in Caller, NEW sid \in StoreID, NEW l \in Weights, NEW r \in Weights,
              SetStoreWeight(c, sid, l, r)
       PROVE  StoresInv'
  <2> DEFINE s == [stores[sid] EXCEPT !.leader = l, !.region = r]
  <2>1. s \in StoreInfo
    BY <1>0, <1>22 DEF SetStoreWeight, StoreInfo
  <2>2. [pc |-> "leader", kind |-> "weight", store |-> s] \in HandlerState
    BY <2>1 DEF HandlerState, Kind
  <2> QED
    BY <1>0, <1>22, <2>2, HandlerGoesOn DEF SetStoreWeight, etcdVars, cacheVars
<1>23. ASSUME NEW sid \in StoreID, Known(sid), NEW s \in StoreInfo,
              s.state = stores[sid].state, s.addr = stores[sid].addr,
              s.version = stores[sid].version, stores' = [stores EXCEPT ![sid] = s],
              UNCHANGED <<metaKey, storeKey, weightKey, running, op, unsure>>
       PROVE  StoresInv'
  <2>1. StoresTypes'
    BY <1>0, <1>23 DEF StoresTypes
  <2>2. s # NoStore /\ stores[sid] # NoStore
    BY <1>23, StoreShape DEF Known
  <2> QED
    BY <1>0, <1>23, <2>1, <2>2, SameOutside DEF StoresTypes
<1>24. ASSUME NEW sid \in StoreID, Known(sid), NEW b \in BOOLEAN
       PROVE  LET s == [stores[sid] EXCEPT !.blocked = b]
                  t == [stores[sid] EXCEPT !.beat = b]
              IN /\ s \in StoreInfo /\ s.state = stores[sid].state
                 /\ s.addr = stores[sid].addr /\ s.version = stores[sid].version
                 /\ t \in StoreInfo /\ t.state = stores[sid].state
                 /\ t.addr = stores[sid].addr /\ t.version = stores[sid].version
  BY <1>0, <1>24 DEF StoreInfo
<1>25. ASSUME NEW c \in Caller, NEW sid \in StoreID, BlockStore(c, sid)
       PROVE  StoresInv'
  BY <1>23, <1>24, <1>25 DEF BlockStore, etcdVars
<1>26. ASSUME NEW c \in Caller, NEW sid \in StoreID, UnblockStore(c, sid)
       PROVE  StoresInv'
  <2>1. CASE Known(sid)
    BY <1>23, <1>24, <1>26, <2>1 DEF UnblockStore, etcdVars
  <2>2. CASE ~Known(sid)
    BY <1>26, <2>2, LostInv DEF UnblockStore
  <2> QED
    BY <2>1, <2>2
<1>27. ASSUME NEW c \in Caller, NEW sid \in StoreID, handleStoreHeartbeat(c, sid)
       PROVE  StoresInv'
  BY <1>23, <1>24, <1>27 DEF handleStoreHeartbeat, etcdVars
<1>28. ASSUME NEW c \in Actor, putStoreLocked(c)
       PROVE  StoresInv'
  <2> DEFINE o == op[c]
             sid == o.store.id
             v == meta(o.store)
  <2>1. o.store \in StoreInfo /\ sid \in StoreID
    BY <1>0, <1>28, HandlerShape DEF putStoreLocked, StoreInfo
  <2>2. [pc |-> "version"] \in HandlerState
    BY DEF HandlerState
  <2>3. op' \in [Actor -> HandlerState]
    BY <1>0, <1>28, <2>2 DEF putStoreLocked, writes, returns, goto, StoresTypes
  <2>4. /\ UNCHANGED <<metaKey, weightKey, running>>
        /\ \/ /\ storeKey' = [storeKey EXCEPT ![sid] = v]
              /\ unsure' = unsure \ {sid}
              /\ stores' = cached(sid, o.store, TRUE)
           \/ /\ stores' = cached(sid, o.store, FALSE)
              /\ \/ UNCHANGED <<storeKey, unsure>>
                 \/ /\ storeKey' = [storeKey EXCEPT ![sid] = v]
                    /\ unsure' = unsure \union {sid}
    BY <1>28 DEF putStoreLocked, writes
  <2> HIDE DEF o, v, sid
  <2> QED
    BY <2>1, <2>3, <2>4, WriteInv DEF v
<1>29. ASSUME NEW sid \in StoreID, checkStores(sid)
       PROVE  StoresInv'
  <2>1. [pc |-> "bury", id |-> sid] \in HandlerState
    BY DEF HandlerState
  <2> QED
    BY <1>0, <1>29, <2>1, HandlerGoesOn DEF checkStores, etcdVars, cacheVars
<1>30. ASSUME NEW sid \in StoreID, RegionsMove(sid)
       PROVE  StoresInv'
  BY <1>0, <1>30, SameOutside DEF RegionsMove, etcdVars, StoresTypes
<1>31. CASE checkStoresBury
  <2> DEFINE sid == op[Background].id
  <2>1. sid \in StoreID
    BY <1>0, <1>31, HandlerShape DEF checkStoresBury
  <2>2. UNCHANGED <<metaKey, storeKey, weightKey, running, stores, unsure>>
    BY <1>31 DEF checkStoresBury, etcdVars, cacheVars
  <2>3. CASE buries(Background, sid, FALSE)
    BY <1>0, <1>18, <2>1, <2>2, <2>3
  <2>4. CASE returns(Background)
    BY <1>0, <2>2, <2>4, HandlerGoesOn DEF returns
  <2> QED
    BY <1>31, <2>3, <2>4 DEF checkStoresBury
<1>32. CASE UNCHANGED storesVars
  BY <1>0, <1>32, SameOutside DEF storesVars, etcdVars, cacheVars, StoresTypes
<1> QED
  BY <1>1, <1>2, <1>3, <1>4, <1>5, <1>6, <1>7, <1>8, <1>9, <1>10, <1>11, <1>12, <1>13,
     <1>16, <1>17, <1>19, <1>20, <1>21, <1>22, <1>25, <1>26, <1>27, <1>28, <1>29, <1>30,
     <1>31, <1>32
     DEF StoresNext

(* DurableStores: what the server answers about a store is what etcd holds *)
(* of it (putStoreLocked, deleteStoreLocked and the start of the cluster), *)
(* whichever handlers interleave and whichever writes fail.                *)
THEOREM StoresDurable == StoresSpec => []DurableStores
<1>1. StoresInv => DurableStores
  BY DEF StoresInv
<1> QED
  BY <1>1, StoresInitInv, StoresStep, PTL DEF StoresSpec

(***************************************************************************)
(* Namespaces.  Without a failed save a namespace stands in memory under   *)
(* its name and in etcd under its ID, and both are the same (NsSame).      *)
(* With one, the handlers still look at memory before they add a table, a  *)
(* store or the meta data, so that memory stays exclusive (NsDisjoint)     *)
(* until an etcd that fell behind is loaded.                               *)
(***************************************************************************)
NamespacesSpec == NamespacesInit /\ [][NamespacesNext]_nsVars

Namespace ==
  [id : 1 .. MaxNsID, name : NsName, tables : SUBSET NsTable,
   stores : SUBSET NsStore, meta : BOOLEAN]

NsTypes ==
  /\ nsInfo \in [NsName -> Namespace \union {NoNs}]
  /\ nsKey \in [1 .. MaxNsID -> Namespace \union {NoNs}]
  /\ nsNextID \in Nat \ {0}
  /\ nsAhead \in BOOLEAN /\ nsMixed \in BOOLEAN

(* Each is filed under its own name or ID, and its ID was allocated. *)
NsFiled ==
  /\ \A n \in NsName : nsInfo[n] # NoNs => nsInfo[n].name = n /\ nsInfo[n].id < nsNextID
  /\ \A i \in 1 .. MaxNsID : nsKey[i] # NoNs => nsKey[i].id = i /\ i < nsNextID

Apart(a, b) ==
  /\ a.tables \intersect b.tables = {}
  /\ a.stores \intersect b.stores = {}
  /\ ~(a.meta /\ b.meta)

NsDisjoint ==
  ~nsMixed => \A n, m \in NsName : n # m /\ nsInfo[n] # NoNs /\ nsInfo[m] # NoNs =>
                                     Apart(nsInfo[n], nsInfo[m])

NsSame ==
  ~nsAhead =>
    /\ \A i \in 1 .. MaxNsID : nsKey[i] # NoNs => nsInfo[nsKey[i].name] = nsKey[i]
    /\ \A n \in NsName : nsInfo[n] # NoNs => nsKey[nsInfo[n].id] = nsInfo[n]

NsInv == NsTypes /\ NsFiled /\ (nsMixed => nsAhead) /\ NsDisjoint /\ NsSame

LEMMA NsShape == NoNs \notin Namespace
  BY NamespacesAssumption DEF NoNs, Namespace

(* Every nonempty set of natural numbers has a least element. *)
LEMMA LeastNumber ==
  ASSUME NEW T, T \subseteq Nat, T # {}
  PROVE  \E x \in T : \A y \in T : x <= y
<1> DEFINE R == OpToRel(<, Nat)
<1>1. IsWellFoundedOn(R, Nat)
  BY NatLessThanWellFounded, Zenon
<1> HIDE DEF R
<1>2. PICK x \in T : \A y \in T : ~(<<y, x>> \in R)
  BY <1>1, WFMin
<1>3. \A y \in T : ~(y < x)
  BY <1>2 DEF R, OpToRel
<1> QED
  BY <1>3

(* A nonempty set of IDs has a greatest one. *)
LEMMA GreatestID ==
  ASSUME NEW ids, ids \subseteq 1 .. MaxNsID, ids # {}
  PROVE  \E i \in ids : \A j \in ids : j <= i
<1> DEFINE T == {MaxNsID - i : i \in ids}
<1>1. T \subseteq Nat /\ T # {}
  <2>1. \A i \in ids : MaxNsID - i \in Nat
    BY NamespacesAssumption
  <2>2. PICK i \in ids : TRUE
    OBVIOUS
  <2>3. MaxNsID - i \in T
    BY <2>2
  <2> QED
    BY <2>1, <2>3
<1>2. PICK x \in T : \A y \in T : x <= y
  BY <1>1, LeastNumber
<1>3. PICK i \in ids : x = MaxNsID - i
  BY <1>2
<1>4. \A j \in ids : MaxNsID - i <= MaxNsID - j
  BY <1>2, <1>3
<1> QED
  BY <1>4, NamespacesAssumption

(* What loadNamespaces files under a name is a namespace of that name. *)
LEMMA LoadedFiled ==
  ASSUME NsInv, NEW n \in NsName
  PROVE  /\ loadNamespaces[n] # NoNs =>
              \E i \in 1 .. MaxNsID : nsKey[i] # NoNs /\ nsKey[i].name = n
                                      /\ loadNamespaces[n] = nsKey[i]
         /\ loadNamespaces[n] = NoNs =>
              \A i \in 1 .. MaxNsID : nsKey[i] = NoNs \/ nsKey[i].name # n
<1> DEFINE ids == {i \in 1 .. MaxNsID : nsKey[i] # NoNs /\ nsKey[i].name = n}
<1>1. CASE ids = {}
  BY <1>1 DEF loadNamespaces
<1>2. CASE ids # {}
  <2> DEFINE g == CHOOSE i \in ids : \A j \in ids : j <= i
  <2>1. g \in ids
    BY <1>2, GreatestID
  <2>2. loadNamespaces[n] = nsKey[g]
    BY <1>2 DEF loadNamespaces
  <2> QED
    BY <2>1, <2>2
<1> QED
  BY <1>1, <1>2

(* Without a failed save a new leader loads what the old one had. *)
LEMMA LoadedIsMemory ==
  ASSUME NsInv, ~nsAhead
  PROVE  loadNamespaces = nsInfo
<1>1. ASSUME NEW n \in NsName
      PROVE  loadNamespaces[n] = nsInfo[n]
  <2>1. CASE loadNamespaces[n] # NoNs
    BY <2>1, LoadedFiled DEF NsInv, NsSame
  <2>2. CASE loadNamespaces[n] = NoNs
    <3> SUFFICES ASSUME nsInfo[n] # NoNs PROVE FALSE
      BY <2>2
    <3>1. nsInfo[n] \in Namespace /\ nsInfo[n].id \in 1 .. MaxNsID
      BY DEF NsInv, NsTypes, Namespace
    <3>2. nsKey[nsInfo[n].id] = nsInfo[n] /\ nsInfo[n].name = n
      BY DEF NsInv, NsSame, NsFiled
    <3> QED
      BY <2>2, <3>1, <3>2, LoadedFiled
  <2> QED
    BY <2>1, <2>2
<1>2. loadNamespaces = [n \in NsName |-> loadNamespaces[n]]
  BY DEF loadNamespaces
<1>3. nsInfo = [n \in NsName |-> nsInfo[n]]
  BY DEF NsInv, NsTypes
<1> QED
  BY <1>1, <1>2, <1>3

(* A set that holds at most one name yields one answer. *)
LEMMA OneAnswer ==
  ASSUME NEW names, \A n, m \in names : n = m
  PROVE  Cardinality(orDefault(names)) = 1
<1>1. PICK x : orDefault(names) = {x}
  <2>1. CASE names = {}
    BY <2>1 DEF orDefault
  <2>2. CASE names # {}
    BY <2>2 DEF orDefault
  <2> QED
    BY <2>1, <2>2
<1> QED
  BY <1>1, FS_Singleton

(* The invariant gives the property. *)
LEMMA NsExclusive == NsInv => NamespacesExclusive
<1> SUFFICES ASSUME NsInv PROVE NamespacesExclusive
  OBVIOUS
<1>1. ~nsAhead => nsInfo = loadNamespaces
  BY LoadedIsMemory
<1>2. ASSUME ~nsMixed, NEW s \in NsStore
      PROVE  Cardinality(GetStoreNamespace(s)) = 1
  <2> DEFINE names == {n \in getNamespaces : s \in nsInfo[n].stores}
  <2>1. \A n, m \in names : n = m
    BY <1>2 DEF NsInv, NsDisjoint, Apart, getNamespaces
  <2> HIDE DEF names
  <2>2. Cardinality(orDefault(names)) = 1
    BY <2>1, OneAnswer
  <2> QED
    BY <2>2 DEF GetStoreNamespace, names
<1>3. ASSUME ~nsMixed, NEW k \in StartKey, ~(k.kind = "meta" /\ MetaClaimedTwice)
      PROVE  Cardinality(GetRegionNamespace(k)) = 1
  <2> DEFINE kt == MetaOrTable(k)
             names == {n \in getNamespaces : \/ kt[2] \in nsInfo[n].tables
                                             \/ kt[1] /\ nsInfo[n].meta}
  <2>1. CASE kt[2] = 0 /\ ~kt[1]
    <3>1. GetRegionNamespace(k) = {DefaultNamespace}
      BY <2>1 DEF GetRegionNamespace
    <3> QED
      BY <3>1, FS_Singleton
  <2>2. CASE ~(kt[2] = 0 /\ ~kt[1])
    <3>1. \A n \in getNamespaces : n \in NsName /\ nsInfo[n] # NoNs
      BY DEF getNamespaces
    <3>2. kt[1] => kt[2] = 0 /\ k.kind = "meta"
      BY DEF MetaOrTable
    <3>3. kt[1] \in BOOLEAN
      BY DEF MetaOrTable
    <3> HIDE DEF kt
    <3>a. \A n, m \in getNamespaces :
            n # m => /\ kt[2] \in nsInfo[n].tables => kt[2] \notin nsInfo[m].tables
                     /\ ~(nsInfo[n].meta /\ nsInfo[m].meta)
      BY <1>3, <3>1 DEF NsInv, NsDisjoint, Apart
    <3>b. ASSUME kt[1]
          PROVE  \A n, m \in getNamespaces :
                   n # m => ~(kt[2] \in nsInfo[n].tables /\ nsInfo[m].meta)
      BY <1>3, <3>2, <3>b DEF MetaClaimedTwice
    <3>4. \A n, m \in names : n = m
      BY <3>3, <3>a, <3>b
    <3> HIDE DEF names
    <3>5. Cardinality(orDefault(names)) = 1
      BY <3>4, OneAnswer
    <3> QED
      BY <2>2, <3>5 DEF GetRegionNamespace, names, kt
  <2> QED
    BY <2>1, <2>2
<1> QED
  BY <1>1, <1>2, <1>3 DEF NamespacesExclusive

(* Init. *)
LEMMA NsInitInv == NamespacesInit => NsInv
<1> SUFFICES ASSUME NamespacesInit PROVE NsInv
  OBVIOUS
<1>1. ~nsMixed /\ nsMixed \in BOOLEAN /\ nsAhead \in BOOLEAN
  BY Zenon DEF NamespacesInit
<1>2. NsTypes
  BY <1>1 DEF NamespacesInit, NsTypes
<1> QED
  BY <1>1, <1>2 DEF NamespacesInit, NsInv, NsFiled, NsDisjoint, NsSame

(* The change of a namespace that is there, and its save: putChanged. *)
LEMMA PutChangedInv ==
  ASSUME NsInv, NEW name \in NsName, nsInfo[name] # NoNs, NEW ns \in Namespace,
         ns.id = nsInfo[name].id, ns.name = name, NEW ok \in BOOLEAN,
         putChanged(name, ns, ok),
         \A n \in NsName \ {name} : /\ ~nsMixed /\ nsInfo[n] # NoNs
                                    /\ Apart(nsInfo[name], nsInfo[n])
                                    => Apart(ns, nsInfo[n])
  PROVE  NsInv'
<1>1. ns # NoNs
  BY NsShape
<1>2. ns.id \in 1 .. MaxNsID /\ ns.id < nsNextID
  BY DEF NsInv, NsFiled, Namespace
<1>3. /\ nsInfo' = [nsInfo EXCEPT ![name] = ns]
      /\ nsKey' = [nsKey EXCEPT ![ns.id] = ns] \/ (~ok /\ nsKey' = nsKey)
      /\ nsAhead' <=> nsAhead \/ ~ok
      /\ nsAhead' \in BOOLEAN
      /\ UNCHANGED <<nsNextID, nsMixed>>
  <2>1. nsAhead' = (nsAhead \/ ~ok)
    BY Zenon DEF putChanged, saveNamespace
  <2>2. (nsAhead' <=> nsAhead \/ ~ok) /\ nsAhead' \in BOOLEAN
    BY <2>1, Zenon
  <2>3. /\ nsInfo' = [nsInfo EXCEPT ![name] = ns]
        /\ nsKey' = [nsKey EXCEPT ![ns.id] = ns] \/ (~ok /\ nsKey' = nsKey)
        /\ UNCHANGED <<nsNextID, nsMixed>>
    BY DEF putChanged, saveNamespace
  <2> QED
    BY <2>2, <2>3, Zenon
<1>4. NsTypes'
  BY <1>2, <1>3 DEF NsInv, NsTypes
<1>5. NsFiled'
  BY <1>1, <1>2, <1>3 DEF NsInv, NsTypes, NsFiled
<1>6. nsMixed' => nsAhead'
  BY <1>3 DEF NsInv
<1>7. NsDisjoint'
  <2> SUFFICES ASSUME ~nsMixed, NEW n \in NsName, NEW m \in NsName, n # m,
                      nsInfo'[n] # NoNs, nsInfo'[m] # NoNs
               PROVE  Apart(nsInfo'[n], nsInfo'[m])
    BY <1>3 DEF NsDisjoint
  <2>1. \A k \in NsName \ {name} : nsInfo'[k] = nsInfo[k]
    BY <1>3 DEF NsInv, NsTypes
  <2>2. nsInfo'[name] = ns
    BY <1>3 DEF NsInv, NsTypes
  <2>3. \A k \in NsName \ {name} : nsInfo[k] # NoNs => Apart(nsInfo[name], nsInfo[k])
    BY DEF NsInv, NsDisjoint
  <2>4. CASE n = name
    BY <2>1, <2>2, <2>3, <2>4
  <2>5. CASE m = name
    <3>1. Apart(nsInfo'[m], nsInfo'[n])
      BY <2>1, <2>2, <2>3, <2>5
    <3> QED
      BY <3>1 DEF Apart
  <2>6. CASE n # name /\ m # name
    BY <2>1, <2>6 DEF NsInv, NsDisjoint
  <2> QED
    BY <2>4, <2>5, <2>6
<1>8. NsSame'
  <2> SUFFICES ASSUME ~nsAhead' PROVE NsSame'
    BY DEF NsSame
  <2>1. /\ ~nsAhead /\ nsKey' = [nsKey EXCEPT ![ns.id] = ns]
    BY <1>3
  <2>2. ASSUME NEW i \in 1 .. MaxNsID, nsKey'[i] # NoNs
        PROVE  nsInfo'[nsKey'[i].name] = nsKey'[i]
    <3>1. CASE i = ns.id
      BY <1>3, <2>1, <3>1 DEF NsInv, NsTypes
    <3>2. CASE i # ns.id
      <4>1. nsKey'[i] = nsKey[i] /\ nsInfo[nsKey[i].name] = nsKey[i] /\ nsKey[i].id = i
        BY <2>1, <2>2, <3>2 DEF NsInv, NsTypes, NsSame, NsFiled
      <4>2. nsKey[i].name # name
        BY <3>2, <4>1
      <4>3. nsKey[i].name \in NsName
        BY <2>2, <4>1 DEF NsInv, NsTypes, Namespace
      <4> QED
        BY <1>3, <4>1, <4>2, <4>3 DEF NsInv, NsTypes
    <3> QED
      BY <3>1, <3>2
  <2>3. ASSUME NEW n \in NsName, nsInfo'[n] # NoNs
        PROVE  nsKey'[nsInfo'[n].id] = nsInfo'[n]
    <3>1. CASE n = name
      BY <1>2, <1>3, <2>1, <3>1 DEF NsInv, NsTypes
    <3>2. CASE n # name
      <4>1. nsInfo'[n] = nsInfo[n] /\ nsKey[nsInfo[n].id] = nsInfo[n] /\ nsInfo[n].name = n
        BY <1>3, <2>1, <2>3, <3>2 DEF NsInv, NsTypes, NsSame, NsFiled
      <4>2. nsKey[ns.id] = nsInfo[name] /\ nsInfo[name].name = name
        BY <2>1 DEF NsInv, NsSame, NsFiled
      <4>3. nsInfo[n].id # ns.id
        BY <3>2, <4>1, <4>2
      <4>4. nsInfo[n].id \in 1 .. MaxNsID
        BY <2>3, <4>1 DEF NsInv, NsTypes, Namespace
      <4> QED
        BY <2>1, <4>1, <4>3, <4>4 DEF NsInv, NsTypes
    <3> QED
      BY <3>1, <3>2
  <2> QED
    BY <2>2, <2>3 DEF NsSame
<1> QED
  BY <1>4, <1>5, <1>6, <1>7, <1>8 DEF NsInv

(* A new namespace. *)
LEMMA CreateInv ==
  ASSUME NsInv, NEW name \in NsName, NEW ok \in BOOLEAN, CreateNamespace(name, ok)
  PROVE  NsInv'
<1> DEFINE ns == NewNamespace(nsNextID, name)
<1>1. /\ nsInfo[name] = NoNs /\ nsNextID \in 1 .. MaxNsID
      /\ nsNextID' = nsNextID + 1
      /\ nsInfo' = IF ok THEN [nsInfo EXCEPT ![name] = ns] ELSE nsInfo
      /\ nsKey' = [nsKey EXCEPT ![ns.id] = ns] \/ (~ok /\ nsKey' = nsKey)
      /\ nsAhead' <=> nsAhead \/ ~ok
      /\ nsAhead' \in BOOLEAN
      /\ nsMixed' = nsMixed
  <2>1. nsNextID <= MaxNsID /\ nsNextID \in Nat \ {0}
    BY DEF CreateNamespace, NsInv, NsTypes
  <2>2. nsNextID \in 1 .. MaxNsID
    BY <2>1, NamespacesAssumption
  <2>3. nsAhead' = (nsAhead \/ ~ok)
    BY Zenon DEF CreateNamespace, saveNamespace
  <2>4. (nsAhead' <=> nsAhead \/ ~ok) /\ nsAhead' \in BOOLEAN
    BY <2>3, Zenon
  <2>5. /\ nsInfo[name] = NoNs
        /\ nsNextID' = nsNextID + 1
        /\ nsInfo' = IF ok THEN [nsInfo EXCEPT ![name] = ns] ELSE nsInfo
        /\ nsKey' = [nsKey EXCEPT ![ns.id] = ns] \/ (~ok /\ nsKey' = nsKey)
        /\ nsMixed' = nsMixed
    BY DEF CreateNamespace, saveNamespace
  <2> QED
    BY <2>2, <2>4, <2>5, Zenon
<1>2. /\ ns \in Namespace /\ ns.id = nsNextID /\ ns.name = name
      /\ ns.tables = {} /\ ns.stores = {} /\ ns.meta = FALSE
  BY <1>1 DEF NewNamespace, Namespace
<1> HIDE DEF ns
<1>3. ns # NoNs
  BY <1>2, NsShape
<1>4. NsTypes'
  BY <1>1, <1>2 DEF NsInv, NsTypes
<1>5. NsFiled'
  <2>1. \A n \in NsName : nsInfo'[n] # NoNs => nsInfo'[n].name = n /\ nsInfo'[n].id < nsNextID'
    <3> SUFFICES ASSUME NEW n \in NsName, nsInfo'[n] # NoNs
                 PROVE  nsInfo'[n].name = n /\ nsInfo'[n].id < nsNextID'
      OBVIOUS
    <3>1. CASE nsInfo'[n] = nsInfo[n]
      <4>1. nsInfo[n].name = n /\ nsInfo[n].id < nsNextID /\ nsInfo[n].id \in Int
        BY <3>1 DEF NsInv, NsFiled, NsTypes, Namespace
      <4> QED
        BY <1>1, <3>1, <4>1
    <3>2. CASE n = name /\ nsInfo'[n] = ns
      BY <1>1, <1>2, <3>2
    <3> QED
      BY <1>1, <3>1, <3>2 DEF NsInv, NsTypes
  <2>2. \A i \in 1 .. MaxNsID : nsKey'[i] # NoNs => nsKey'[i].id = i /\ i < nsNextID'
    <3> SUFFICES ASSUME NEW i \in 1 .. MaxNsID, nsKey'[i] # NoNs
                 PROVE  nsKey'[i].id = i /\ i < nsNextID'
      OBVIOUS
    <3>1. CASE nsKey'[i] = nsKey[i]
      <4>1. nsKey[i].id = i /\ i < nsNextID
        BY <3>1 DEF NsInv, NsFiled
      <4> QED
        BY <1>1, <3>1, <4>1
    <3>2. CASE i = nsNextID /\ nsKey'[i] = ns
      BY <1>1, <1>2, <3>2
    <3> QED
      BY <1>1, <1>2, <3>1, <3>2 DEF NsInv, NsTypes
  <2> QED
    BY <2>1, <2>2 DEF NsFiled
<1>6. nsMixed' => nsAhead'
  BY <1>1 DEF NsInv
<1>7. NsDisjoint'
  BY <1>1, <1>2 DEF NsInv, NsTypes, NsDisjoint, Apart
<1>8. NsSame'
  <2> SUFFICES ASSUME ~nsAhead' PROVE NsSame'
    BY DEF NsSame
  <2>1. /\ ~nsAhead /\ nsInfo' = [nsInfo EXCEPT ![name] = ns]
        /\ nsKey' = [nsKey EXCEPT ![nsNextID] = ns]
    BY <1>1, <1>2
  <2>2. ASSUME NEW i \in 1 .. MaxNsID, nsKey'[i] # NoNs
        PROVE  nsInfo'[nsKey'[i].name] = nsKey'[i]
    <3>1. CASE i = nsNextID
      BY <1>2, <2>1, <3>1 DEF NsInv, NsTypes
    <3>2. CASE i # nsNextID
      <4>1. nsKey'[i] = nsKey[i] /\ nsInfo[nsKey[i].name] = nsKey[i]
        BY <2>1, <2>2, <3>2 DEF NsInv, NsTypes, NsSame
      <4>2. nsKey[i].name # name
        BY <1>1, <2>2, <4>1
      <4>3. nsKey[i].name \in NsName
        BY <2>2, <4>1 DEF NsInv, NsTypes, Namespace
      <4> QED
        BY <2>1, <4>1, <4>2, <4>3 DEF NsInv, NsTypes
    <3> QED
      BY <3>1, <3>2
  <2>3. ASSUME NEW n \in NsName, nsInfo'[n] # NoNs
        PROVE  nsKey'[nsInfo'[n].id] = nsInfo'[n]
    <3>1. CASE n = name
      BY <1>1, <1>2, <2>1, <3>1 DEF NsInv, NsTypes
    <3>2. CASE n # name
      <4>1. nsInfo'[n] = nsInfo[n] /\ nsKey[nsInfo[n].id] = nsInfo[n] /\ nsInfo[n].id < nsNextID
        BY <2>1, <2>3, <3>2 DEF NsInv, NsTypes, NsSame, NsFiled
      <4>2. nsInfo[n].id \in 1 .. MaxNsID
        BY <2>3, <4>1 DEF NsInv, NsTypes, Namespace
      <4>3. nsInfo[n].id # nsNextID
        BY <1>1, <4>1, <4>2
      <4> QED
        BY <2>1, <4>1, <4>2, <4>3 DEF NsInv, NsTypes
    <3> QED
      BY <3>1, <3>2
  <2> QED
    BY <2>2, <2>3 DEF NsSame
<1> QED
  BY <1>4, <1>5, <1>6, <1>7, <1>8 DEF NsInv

(* A new leader loads the namespaces. *)
LEMMA ReloadInv ==
  ASSUME NsInv, ReloadNamespaces
  PROVE  NsInv'
<1>1. CASE ~nsAhead
  <2>1. UNCHANGED <<nsInfo, nsKey, nsNextID, nsAhead, nsMixed>>
    <3>1. UNCHANGED <<nsInfo, nsKey, nsNextID, nsAhead>>
      BY <1>1, LoadedIsMemory DEF ReloadNamespaces
    <3>2. ~nsMixed /\ nsMixed \in BOOLEAN /\ nsAhead \in BOOLEAN
      BY <1>1 DEF NsInv, NsTypes
    <3>3. nsMixed' = nsMixed
      BY <1>1, <3>2, Zenon DEF ReloadNamespaces
    <3> QED
      BY <3>1, <3>3
  <2> QED
    BY <2>1 DEF NsInv, NsTypes, NsFiled, NsDisjoint, NsSame
<1>2. CASE nsAhead
  <2>1. nsInfo' = loadNamespaces /\ nsMixed' = nsAhead /\ UNCHANGED <<nsKey, nsNextID, nsAhead>>
    BY DEF ReloadNamespaces
  <2>2. \A n \in NsName : loadNamespaces[n] # NoNs =>
          /\ loadNamespaces[n] \in Namespace /\ loadNamespaces[n].name = n
          /\ loadNamespaces[n].id < nsNextID
    BY LoadedFiled DEF NsInv, NsTypes, NsFiled
  <2>3. loadNamespaces = [n \in NsName |-> loadNamespaces[n]]
    BY DEF loadNamespaces
  <2>4. loadNamespaces \in [NsName -> Namespace \union {NoNs}]
    BY <2>2, <2>3
  <2>5. NsTypes' /\ NsFiled'
    BY <2>1, <2>2, <2>4 DEF NsInv, NsTypes, NsFiled
  <2>6. nsMixed' /\ nsAhead'
    BY <1>2, <2>1
  <2> QED
    BY <2>5, <2>6 DEF NsInv, NsDisjoint, NsSame
<1> QED
  BY <1>1, <1>2 DEF NsInv, NsTypes

(* Every step of the namespaces preserves the invariant. *)
LEMMA NsStep ==
  ASSUME NsInv, [NamespacesNext]_nsVars
  PROVE  NsInv'
<1>1. ASSUME NEW n \in NsName, nsInfo[n] # NoNs
      PROVE  nsInfo[n] \in Namespace /\ nsInfo[n].name = n
  BY <1>1 DEF NsInv, NsTypes, NsFiled
<1>2. ASSUME NEW n \in NsName, NEW ok \in BOOLEAN, NEW t \in NsTable,
             AddNamespaceTableID(n, t, ok)
      PROVE  NsInv'
  <2> DEFINE ns == [nsInfo[n] EXCEPT !.tables = @ \union {t}]
  <2>1. nsInfo[n] \in Namespace /\ nsInfo[n] # NoNs /\ nsInfo[n].name = n
    BY <1>1, <1>2 DEF AddNamespaceTableID
  <2>2. /\ ns \in Namespace /\ ns.id = nsInfo[n].id /\ ns.name = n
        /\ ns.tables = nsInfo[n].tables \union {t} /\ ns.stores = nsInfo[n].stores
        /\ ns.meta = nsInfo[n].meta
    BY <2>1 DEF Namespace
  <2>3. \A m \in NsName : nsInfo[m] # NoNs => t \notin nsInfo[m].tables
    BY <1>2 DEF AddNamespaceTableID, isTableIDExist, getNamespaces
  <2>4. putChanged(n, ns, ok)
    BY <1>2 DEF AddNamespaceTableID
  <2> HIDE DEF ns
  <2>5. \A m \in NsName \ {n} : nsInfo[m] # NoNs /\ Apart(nsInfo[n], nsInfo[m])
                                 => Apart(ns, nsInfo[m])
    BY <2>2, <2>3 DEF Apart
  <2> QED
    BY <2>1, <2>2, <2>4, <2>5, PutChangedInv
<1>3. ASSUME NEW n \in NsName, NEW ok \in BOOLEAN, NEW t \in NsTable,
             RemoveNamespaceTableID(n, t, ok)
      PROVE  NsInv'
  <2> DEFINE ns == [nsInfo[n] EXCEPT !.tables = @ \ {t}]
  <2>1. nsInfo[n] \in Namespace /\ nsInfo[n] # NoNs /\ nsInfo[n].name = n
    BY <1>1, <1>3 DEF RemoveNamespaceTableID
  <2>2. /\ ns \in Namespace /\ ns.id = nsInfo[n].id /\ ns.name = n
        /\ ns.tables = nsInfo[n].tables \ {t} /\ ns.stores = nsInfo[n].stores
        /\ ns.meta = nsInfo[n].meta
    BY <2>1 DEF Namespace
  <2>4. putChanged(n, ns, ok)
    BY <1>3 DEF RemoveNamespaceTableID
  <2> HIDE DEF ns
  <2>5. \A m \in NsName \ {n} : Apart(nsInfo[n], nsInfo[m]) => Apart(ns, nsInfo[m])
    BY <2>2 DEF Apart
  <2> QED
    BY <2>1, <2>2, <2>4, <2>5, PutChangedInv
<1>4. ASSUME NEW n \in NsName, NEW ok \in BOOLEAN, NEW s \in NsStore,
             AddNamespaceStoreID(n, s, ok)
      PROVE  NsInv'
  <2> DEFINE ns == [nsInfo[n] EXCEPT !.stores = @ \union {s}]
  <2>1. nsInfo[n] \in Namespace /\ nsInfo[n] # NoNs /\ nsInfo[n].name = n
    BY <1>1, <1>4 DEF AddNamespaceStoreID
  <2>2. /\ ns \in Namespace /\ ns.id = nsInfo[n].id /\ ns.name = n
        /\ ns.tables = nsInfo[n].tables /\ ns.stores = nsInfo[n].stores \union {s}
        /\ ns.meta = nsInfo[n].meta
    BY <2>1 DEF Namespace
  <2>3. \A m \in NsName : nsInfo[m] # NoNs => s \notin nsInfo[m].stores
    BY <1>4 DEF AddNamespaceStoreID, isStoreIDExist, getNamespaces
  <2>4. putChanged(n, ns, ok)
    BY <1>4 DEF AddNamespaceStoreID
  <2> HIDE DEF ns
  <2>5. \A m \in NsName \ {n} : nsInfo[m] # NoNs /\ Apart(nsInfo[n], nsInfo[m])
                                 => Apart(ns, nsInfo[m])
    BY <2>2, <2>3 DEF Apart
  <2> QED
    BY <2>1, <2>2, <2>4, <2>5, PutChangedInv
<1>5. ASSUME NEW n \in NsName, NEW ok \in BOOLEAN, NEW s \in NsStore,
             RemoveNamespaceStoreID(n, s, ok)
      PROVE  NsInv'
  <2> DEFINE ns == [nsInfo[n] EXCEPT !.stores = @ \ {s}]
  <2>1. nsInfo[n] \in Namespace /\ nsInfo[n] # NoNs /\ nsInfo[n].name = n
    BY <1>1, <1>5 DEF RemoveNamespaceStoreID
  <2>2. /\ ns \in Namespace /\ ns.id = nsInfo[n].id /\ ns.name = n
        /\ ns.tables = nsInfo[n].tables /\ ns.stores = nsInfo[n].stores \ {s}
        /\ ns.meta = nsInfo[n].meta
    BY <2>1 DEF Namespace
  <2>4. putChanged(n, ns, ok)
    BY <1>5 DEF RemoveNamespaceStoreID
  <2> HIDE DEF ns
  <2>5. \A m \in NsName \ {n} : Apart(nsInfo[n], nsInfo[m]) => Apart(ns, nsInfo[m])
    BY <2>2 DEF Apart
  <2> QED
    BY <2>1, <2>2, <2>4, <2>5, PutChangedInv
<1>6. ASSUME NEW n \in NsName, NEW ok \in BOOLEAN, AddMetaToNamespace(n, ok)
      PROVE  NsInv'
  <2> DEFINE ns == [nsInfo[n] EXCEPT !.meta = TRUE]
  <2>1. nsInfo[n] \in Namespace /\ nsInfo[n] # NoNs /\ nsInfo[n].name = n
    BY <1>1, <1>6 DEF AddMetaToNamespace
  <2>2. /\ ns \in Namespace /\ ns.id = nsInfo[n].id /\ ns.name = n
        /\ ns.tables = nsInfo[n].tables /\ ns.stores = nsInfo[n].stores
    BY <2>1 DEF Namespace
  <2>3. \A m \in NsName : nsInfo[m] # NoNs => ~nsInfo[m].meta
    BY <1>6 DEF AddMetaToNamespace, isMetaExist, getNamespaces
  <2>4. putChanged(n, ns, ok)
    BY <1>6 DEF AddMetaToNamespace
  <2> HIDE DEF ns
  <2>5. \A m \in NsName \ {n} : nsInfo[m] # NoNs /\ Apart(nsInfo[n], nsInfo[m])
                                 => Apart(ns, nsInfo[m])
    BY <2>2, <2>3 DEF Apart
  <2> QED
    BY <2>1, <2>2, <2>4, <2>5, PutChangedInv
<1>7. ASSUME NEW n \in NsName, NEW ok \in BOOLEAN, RemoveMeta(n, ok)
      PROVE  NsInv'
  <2> DEFINE ns == [nsInfo[n] EXCEPT !.meta = FALSE]
  <2>1. nsInfo[n] \in Namespace /\ nsInfo[n] # NoNs /\ nsInfo[n].name = n
    BY <1>1, <1>7 DEF RemoveMeta
  <2>2. /\ ns \in Namespace /\ ns.id = nsInfo[n].id /\ ns.name = n
        /\ ns.tables = nsInfo[n].tables /\ ns.stores = nsInfo[n].stores
        /\ ns.meta = FALSE
    BY <2>1 DEF Namespace
  <2>4. putChanged(n, ns, ok)
    BY <1>7 DEF RemoveMeta
  <2> HIDE DEF ns
  <2>5. \A m \in NsName \ {n} : Apart(nsInfo[n], nsInfo[m]) => Apart(ns, nsInfo[m])
    BY <2>2 DEF Apart
  <2> QED
    BY <2>1, <2>2, <2>4, <2>5, PutChangedInv
<1>8. CASE UNCHANGED nsVars
  BY <1>8 DEF nsVars, NsInv, NsTypes, NsFiled, NsDisjoint, NsSame
<1> QED
  BY <1>2, <1>3, <1>4, <1>5, <1>6, <1>7, <1>8, CreateInv, ReloadInv DEF NamespacesNext

(* NamespacesExclusive: a store, a table and the meta data have one        *)
(* namespace (AddNamespaceTableID, AddNamespaceStoreID,                    *)
(* AddMetaToNamespace), and a new leader loads what the old one answered   *)
(* from, as long as no save has failed (loadNamespaces); for table IDs of  *)
(* any sign, 0 too, which costs the meta key its one namespace when the    *)
(* meta data is in another (MetaClaimedTwice).                             *)
THEOREM NamespacesStayExclusive == NamespacesSpec => []NamespacesExclusive
  BY NsInitInv, NsStep, NsExclusive, PTL DEF NamespacesSpec

(***************************************************************************)
(* Options.  OptionsRestored speaks of states in which no call is under    *)
(* way.  RestoredInv says the same of states in which no call has changed  *)
(* the leader's options and not yet saved them; AloneInv and SnapInv say   *)
(* why the save of a call that is alone restores it, and OptTypes that     *)
(* the lists of schedulers name none twice and none of the configuration   *)
(* file too few, on which reload depends.                                  *)
(***************************************************************************)
DefaultTypes == {defaultSchedulers[i] : i \in DOMAIN defaultSchedulers}
SchedType == {UserType} \union OtherScheduler \union DefaultTypes
Sched == [type : SchedType, off : BOOLEAN]
Types(list) == {list[i].type : i \in DOMAIN list}
(* Lists that name no scheduler twice and name those of needed. *)
List(needed) ==
  {list \in Seq(Sched) :
     /\ \A i, j \in DOMAIN list : list[i].type = list[j].type => i = j
     /\ needed \subseteq Types(list)}

(* The place of i among the places of a set. *)
Rank(places, i) == Cardinality({j \in places : j <= i})

(* The places of a set are numbered from 1 without a gap. *)
LEMMA Ranked ==
  ASSUME NEW n \in Nat, NEW places \in SUBSET (1 .. n)
  PROVE  /\ Cardinality(places) \in Nat
         /\ \A i \in places : Rank(places, i) \in 1 .. Cardinality(places)
         /\ \A i, j \in places : Rank(places, i) = Rank(places, j) => i = j
         /\ \A k \in 1 .. Cardinality(places) :
              \E i \in places : Rank(places, i) = k
<1> DEFINE upTo(i) == {j \in places : j <= i}
           N == Cardinality(places)
           f == [i \in places |-> Rank(places, i)]
<1>1. IsFiniteSet(places) /\ N \in Nat
  <2>1. IsFiniteSet(1 .. n)
    BY FS_Interval
  <2>2. IsFiniteSet(places)
    BY <2>1, FS_Subset
  <2> QED
    BY <2>2, FS_CardinalityType
<1>2. ASSUME NEW i \in places
      PROVE  /\ IsFiniteSet(upTo(i)) /\ Rank(places, i) \in Nat
             /\ Rank(places, i) <= N /\ Rank(places, i) # 0
  <2>1. IsFiniteSet(upTo(i)) /\ Cardinality(upTo(i)) <= N
    BY <1>1, FS_Subset, upTo(i) \in SUBSET places
  <2>2. i \in upTo(i)
    OBVIOUS
  <2>3. Cardinality(upTo(i)) \in Nat /\ Cardinality(upTo(i)) # 0
    BY <2>1, <2>2, FS_CardinalityType, FS_EmptySet
  <2> QED
    BY <2>1, <2>3 DEF Rank
<1>3. ASSUME NEW i \in places, NEW j \in places, i < j
      PROVE  Rank(places, i) # Rank(places, j)
  <2> i \in Nat /\ j \in Nat /\ places \subseteq Nat
    OBVIOUS
  <2>1. upTo(i) \in SUBSET upTo(j) /\ j \in upTo(j) /\ j \notin upTo(i)
    <3>1. \A x \in upTo(i) : x \in upTo(j)
      BY <1>3
    <3>2. j <= j /\ ~(j <= i)
      BY <1>3
    <3>3. j \in upTo(j) /\ j \notin upTo(i)
      BY <3>2, Zenon
    <3> HIDE DEF upTo
    <3> QED
      BY <3>1, <3>3, Zenon
  <2>2. IsFiniteSet(upTo(j)) /\ upTo(j) # upTo(i)
    BY <2>1, <1>2
  <2> HIDE DEF upTo
  <2>3. Cardinality(upTo(j)) = Cardinality(upTo(i)) => upTo(j) = upTo(i)
    BY <2>1, <2>2, FS_Subset, Zenon
  <2>4. Cardinality(upTo(j)) # Cardinality(upTo(i))
    BY <2>2, <2>3
  <2> QED
    BY <2>4 DEF Rank, upTo
<1>4. \A i, j \in places : Rank(places, i) = Rank(places, j) => i = j
  <2> SUFFICES ASSUME NEW i \in places, NEW j \in places, i # j
               PROVE  Rank(places, i) # Rank(places, j)
    OBVIOUS
  <2>1. i < j \/ j < i
    OBVIOUS
  <2> QED
    BY <2>1, <1>3
<1> HIDE DEF N
<1>5. \A i \in places : Rank(places, i) \in 1 .. N
  <2> SUFFICES ASSUME NEW i \in places PROVE Rank(places, i) \in 1 .. N
    OBVIOUS
  <2>1. Rank(places, i) \in Nat /\ Rank(places, i) <= N /\ Rank(places, i) # 0
    BY <1>2
  <2> QED
    BY <2>1, <1>1
<1>6. f \in Injection(places, 1 .. N)
  BY <1>4, <1>5 DEF Injection, IsInjective
<1>7. IsFiniteSet(1 .. N) /\ Cardinality(1 .. N) = N
  BY <1>1, FS_Interval
<1>8. f \in Surjection(places, 1 .. N)
  BY <1>6, <1>7, FS_Injection DEF N
<1>9. \A k \in 1 .. N : \E i \in places : f[i] = k
  BY <1>8 DEF Surjection
<1> QED
  BY <1>1, <1>4, <1>5, <1>9 DEF N

(* The list r has the entry of each place once. *)
Picks(r, list, places) ==
  \E g \in [DOMAIN r -> places] :
    /\ \A k \in DOMAIN r : r[k] = list[g[k]]
    /\ \A k, m \in DOMAIN r : g[k] = g[m] => k = m
    /\ \A i \in places : \E k \in DOMAIN r : g[k] = i

(* picked makes such a list. *)
LEMMA PickedEach ==
  ASSUME NEW S, NEW list \in Seq(S), NEW places \in SUBSET DOMAIN list
  PROVE  /\ picked(list, places) \in Seq(S)
         /\ Picks(picked(list, places), list, places)
<1> DEFINE N == Cardinality(places)
           at(k) == CHOOSE i \in places : Rank(places, i) = k
           g == [k \in 1 .. N |-> at(k)]
<1>1. Len(list) \in Nat /\ places \in SUBSET (1 .. Len(list))
  OBVIOUS
<1>2. /\ N \in Nat
      /\ \A i \in places : Rank(places, i) \in 1 .. N
      /\ \A i, j \in places : Rank(places, i) = Rank(places, j) => i = j
      /\ \A k \in 1 .. N : \E i \in places : Rank(places, i) = k
  BY <1>1, Ranked
<1> HIDE DEF N
<1>3. \A k \in 1 .. N : at(k) \in places /\ Rank(places, at(k)) = k
  BY <1>2
<1>4. picked(list, places) = [k \in 1 .. N |-> list[at(k)]]
  BY DEF picked, Rank, N
<1> HIDE DEF at
<1>5. picked(list, places) \in Seq(S) /\ DOMAIN picked(list, places) = 1 .. N
  BY <1>2, <1>3, <1>4
<1>6. g \in [1 .. N -> places] /\ \A k \in 1 .. N : g[k] = at(k)
  BY <1>3
<1>7. \A k, m \in 1 .. N : g[k] = g[m] => k = m
  BY <1>3, <1>6
<1>8. \A i \in places : \E k \in 1 .. N : g[k] = i
  BY <1>2, <1>3, <1>6
<1> HIDE DEF g
<1>9. \A k \in 1 .. N : picked(list, places)[k] = list[g[k]]
  BY <1>4, <1>6
<1> DEFINE r == picked(list, places)
<1>10. DOMAIN r = 1 .. N /\ r \in Seq(S)
  BY <1>5
<1>11. \A k \in 1 .. N : r[k] = list[g[k]]
  BY <1>9
<1> HIDE DEF r
<1>12. Picks(r, list, places)
  <2>1. g \in [DOMAIN r -> places]
    BY <1>6, <1>10
  <2>2. /\ \A k \in DOMAIN r : r[k] = list[g[k]]
        /\ \A k, m \in DOMAIN r : g[k] = g[m] => k = m
        /\ \A i \in places : \E k \in DOMAIN r : g[k] = i
    BY <1>10, <1>11, <1>7, <1>8
  <2> QED
    BY <2>1, <2>2, Zenon DEF Picks
<1> QED
  BY <1>10, <1>12 DEF r

(* So its entries are those of the places, and no type comes up twice. *)
LEMMA PickedList ==
  ASSUME NEW needed, NEW list \in List(needed), NEW places \in SUBSET DOMAIN list
  PROVE  /\ picked(list, places) \in List({})
         /\ Entries(picked(list, places)) = {list[i] : i \in places}
         /\ Types(picked(list, places)) = {list[i].type : i \in places}
<1> DEFINE r == picked(list, places)
<1>1. list \in Seq(Sched)
  BY DEF List
<1>2. r \in Seq(Sched) /\ Picks(r, list, places)
  BY <1>1, PickedEach
<1> HIDE DEF r
<1>3. PICK g \in [DOMAIN r -> places] :
         /\ \A k \in DOMAIN r : r[k] = list[g[k]]
         /\ \A k, m \in DOMAIN r : g[k] = g[m] => k = m
         /\ \A i \in places : \E k \in DOMAIN r : g[k] = i
  BY <1>2, Zenon DEF Picks
<1>4. \A k, m \in DOMAIN r : r[k].type = r[m].type => k = m
  <2> SUFFICES ASSUME NEW k \in DOMAIN r, NEW m \in DOMAIN r, r[k].type = r[m].type
               PROVE  k = m
    OBVIOUS
  <2>1. g[k] \in DOMAIN list /\ g[m] \in DOMAIN list
    BY <1>3
  <2>2. list[g[k]].type = list[g[m]].type
    BY <1>3
  <2> QED
    BY <1>3, <2>1, <2>2 DEF List
<1>5. Entries(r) = {list[i] : i \in places}
  BY <1>3 DEF Entries
<1>6. Types(r) = {list[i].type : i \in places}
  BY <1>3 DEF Types
<1>7. r \in List({})
  BY <1>2, <1>4 DEF List
<1> QED
  BY <1>5, <1>6, <1>7 DEF r

(* What a longer list of needed types demands, a shorter one does too. *)
LEMMA FewerNeeded ==
  ASSUME NEW D, NEW E, E \subseteq D PROVE List(D) \subseteq List(E)
  BY DEF List

(* The first place of a set is one of it. *)
LEMMA FirstIs ==
  ASSUME NEW S, S \subseteq Nat, S # {}
  PROVE  FirstOf(S) \in S
<1>1. \E x \in S : \A y \in S : x <= y
  BY LeastNumber
<1> QED
  BY <1>1 DEF FirstOf

(* The fields of an entry. *)
LEMMA EntryShape ==
  ASSUME NEW tp \in SchedType, NEW off \in BOOLEAN
  PROVE  /\ Entry(tp, off) \in Sched
         /\ Entry(tp, off).type = tp /\ Entry(tp, off).off = off
  BY DEF Entry, Sched

(* AddSchedulerCfg keeps a list a list; of the user's schedulers nothing   *)
(* is compared.                                                            *)
LEMMA AddList ==
  ASSUME NEW D, NEW list \in List(D), NEW tp \in SchedType
  PROVE  /\ AddSchedulerCfg(list, tp) \in List(D)
         /\ tp = UserType =>
              ofServer(AddSchedulerCfg(list, tp)) = ofServer(list)
<1> DEFINE e == Entry(tp, FALSE)
<1>1. e \in Sched /\ e.type = tp
  BY EntryShape
<1> HIDE DEF e
<1>2. CASE At(list, tp) = {}
  <2> DEFINE r == Append(list, e)
  <2>1. /\ r \in Seq(Sched) /\ DOMAIN r = 1 .. (Len(list) + 1)
        /\ DOMAIN list = 1 .. Len(list) /\ Len(list) \in Nat
        /\ \A i \in DOMAIN list : r[i] = list[i]
        /\ r[Len(list) + 1] = e
    BY <1>1 DEF List
  <2>2. AddSchedulerCfg(list, tp) = r
    BY <1>2 DEF AddSchedulerCfg, e
  <2> HIDE DEF r
  <2>3. \A i \in DOMAIN list : list[i].type # tp
    BY <1>2 DEF At
  <2>4. \A i \in DOMAIN r : i \in DOMAIN list \/ i = Len(list) + 1
    BY <2>1
  <2>5. \A i, j \in DOMAIN r : r[i].type = r[j].type => i = j
    BY <1>1, <2>1, <2>3, <2>4 DEF List
  <2>6. DOMAIN list \subseteq DOMAIN r
    BY <2>1
  <2>7. D \subseteq Types(r)
    BY <2>1, <2>6 DEF List, Types
  <2>8. tp = UserType => ofServer(r) = ofServer(list)
    BY <1>1, <2>1, <2>4, <2>6 DEF ofServer, Entries
  <2> QED
    BY <2>1, <2>2, <2>5, <2>7, <2>8 DEF List
<1>3. CASE At(list, tp) # {}
  <2> DEFINE r == [i \in DOMAIN list |-> IF list[i].type = tp THEN e ELSE list[i]]
  <2>1. AddSchedulerCfg(list, tp) = r
    BY <1>3 DEF AddSchedulerCfg, e
  <2>2. r \in Seq(Sched) /\ DOMAIN r = DOMAIN list
    BY <1>1 DEF List
  <2>3. \A i \in DOMAIN list : r[i].type = list[i].type
    BY <1>1
  <2>4. \A i \in DOMAIN list : list[i].type # tp => r[i] = list[i]
    OBVIOUS
  <2> HIDE DEF r
  <2>5. r \in List(D)
    BY <2>2, <2>3 DEF List, Types
  <2>6. tp = UserType => ofServer(r) = ofServer(list)
    BY <2>2, <2>3, <2>4 DEF ofServer, Entries
  <2> QED
    BY <2>1, <2>5, <2>6
<1> QED
  BY <1>2, <1>3

(* The user's schedulers are not of the configuration file. *)
LEMMA SchedShape ==
  /\ DefaultTypes \subseteq SchedType /\ UserType \notin DefaultTypes
  /\ \A tp : IsDefaultScheduler(tp) <=> tp \in DefaultTypes
  BY OptionsAssumption DEF DefaultTypes, SchedType, UserType, IsDefaultScheduler

(* RemoveSchedulerCfg keeps a list a list and the types of the             *)
(* configuration file in it.                                               *)
LEMMA RemoveList ==
  ASSUME NEW D \in SUBSET DefaultTypes, NEW list \in List(D), NEW s, NEW name
  PROVE  RemoveSchedulerCfg(s, list, name) \in List(D)
<1> SUFFICES ASSUME StopsAt(s, list, name) # {}
             PROVE  removedAt(list, FirstOf(StopsAt(s, list, name))) \in List(D)
  BY DEF RemoveSchedulerCfg
<1> DEFINE i == FirstOf(StopsAt(s, list, name))
<1>0. list \in Seq(Sched) /\ Len(list) \in Nat /\ DOMAIN list = 1 .. Len(list)
  BY DEF List
<1>1. StopsAt(s, list, name) \subseteq DOMAIN list /\ DOMAIN list \subseteq Nat
  BY <1>0 DEF StopsAt
<1>2. i \in DOMAIN list
  <2>1. StopsAt(s, list, name) \subseteq Nat
    BY <1>1
  <2>2. i \in StopsAt(s, list, name)
    BY <2>1, FirstIs, Zenon
  <2> QED
    BY <1>1, <2>2
<1> HIDE DEF i
<1>3. list[i] \in Sched
  BY <1>0, <1>2
<1>4. CASE IsDefaultScheduler(list[i].type)
  <2> DEFINE e == Entry(list[i].type, TRUE)
             r == [list EXCEPT ![i] = e]
  <2>1. e \in Sched /\ e.type = list[i].type
    BY <1>3, EntryShape DEF Sched
  <2>2. removedAt(list, i) = r
    BY <1>4, <1>2 DEF removedAt
  <2> HIDE DEF e
  <2>3. r \in Seq(Sched) /\ DOMAIN r = DOMAIN list
    BY <1>0, <1>2, <2>1
  <2>4. \A j \in DOMAIN list : r[j].type = list[j].type
    BY <1>2, <2>1
  <2> HIDE DEF r
  <2>5. r \in List(D)
    BY <2>3, <2>4 DEF List, Types
  <2> QED
    BY <2>2, <2>5 DEF i
<1>5. CASE ~IsDefaultScheduler(list[i].type)
  <2> DEFINE n == Len(list) - 1
             src(j) == IF j < i THEN j ELSE j + 1
             r == [j \in 1 .. n |-> IF j < i THEN list[j] ELSE list[j + 1]]
  <2>1. removedAt(list, i) = r
    BY <1>5 DEF removedAt, without
  <2>2. n \in Nat /\ \A j \in 1 .. n : src(j) \in DOMAIN list
    BY <1>0, <1>2
  <2>3. DOMAIN r = 1 .. n /\ \A j \in 1 .. n : r[j] = list[src(j)]
    OBVIOUS
  <2>4. \A j, k \in 1 .. n : src(j) = src(k) => j = k
    BY <1>0, <1>2
  <2>5. \A k \in DOMAIN list : k # i => \E j \in 1 .. n : src(j) = k
    <3> SUFFICES ASSUME NEW k \in DOMAIN list, k # i
                 PROVE  \E j \in 1 .. n : src(j) = k
      OBVIOUS
    <3>1. CASE k < i
      BY <3>1, <1>0, <1>2
    <3>2. CASE ~(k < i)
      <4>1. k - 1 \in 1 .. n /\ src(k - 1) = k
        BY <3>2, <1>0, <1>2
      <4> QED
        BY <4>1
    <3> QED
      BY <3>1, <3>2
  <2>6. r \in Seq(Sched)
    BY <1>0, <2>2, <2>3
  <2> HIDE DEF r, n, src
  <2>7. \A j, k \in DOMAIN r : r[j].type = r[k].type => j = k
    BY <2>2, <2>3, <2>4 DEF List
  <2>8. D \subseteq Types(r)
    <3> SUFFICES ASSUME NEW tp \in D PROVE \E j \in DOMAIN r : r[j].type = tp
      BY DEF Types
    <3>1. PICK k \in DOMAIN list : list[k].type = tp
      BY DEF List, Types
    <3>2. k # i
      BY <1>5, <3>1, SchedShape
    <3> QED
      BY <2>3, <2>5, <3>1, <3>2
  <2>9. r \in List(D)
    BY <2>6, <2>7, <2>8 DEF List
  <2> QED
    BY <2>1, <2>9 DEF i
<1> QED
  BY <1>4, <1>5 DEF i

(* What adjustScheduleCfg makes of the list in memory and the saved one:   *)
(* a list, with all that was saved, and of the rest only what no saved     *)
(* entry decides.                                                          *)
LEMMA AdjustList ==
  ASSUME NEW D, NEW list \in List(D), NEW saved \in List(D)
  PROVE  /\ adjustScheduleCfg(list, saved) \in List(D)
         /\ Entries(saved) \subseteq Entries(adjustScheduleCfg(list, saved))
         /\ \A e \in Entries(adjustScheduleCfg(list, saved)) :
              e \in Entries(saved) \/ e.type \in Types(list) \ Types(saved)
<1> DEFINE n == Len(list)
           places == {i \in DOMAIN saved : At(list, saved[i].type) = {}}
           a == [i \in DOMAIN list |->
                   IF At(saved, list[i].type) = {} THEN list[i]
                   ELSE saved[FirstOf(At(saved, list[i].type))]]
           b == picked(saved, places)
           r == a \o b
<1>1. /\ list \in Seq(Sched) /\ n \in Nat /\ DOMAIN list = 1 .. n
      /\ saved \in Seq(Sched) /\ DOMAIN saved \subseteq Nat
  BY DEF List
<1>2. \A i \in DOMAIN list : At(saved, list[i].type) # {} =>
        FirstOf(At(saved, list[i].type)) \in At(saved, list[i].type)
  <2> SUFFICES ASSUME NEW i \in DOMAIN list, At(saved, list[i].type) # {}
               PROVE  FirstOf(At(saved, list[i].type)) \in At(saved, list[i].type)
    OBVIOUS
  <2>1. At(saved, list[i].type) \subseteq Nat
    BY <1>1 DEF At
  <2> QED
    BY <2>1, FirstIs, Zenon
<1>3. \A i \in DOMAIN list :
        /\ a[i] \in Sched /\ a[i].type = list[i].type
        /\ a[i] \in Entries(saved) \/ list[i].type \notin Types(saved)
        /\ list[i].type \in Types(saved) =>
             \E j \in DOMAIN saved : saved[j].type = list[i].type /\ a[i] = saved[j]
  <2> SUFFICES ASSUME NEW i \in DOMAIN list
        PROVE  /\ a[i] \in Sched /\ a[i].type = list[i].type
               /\ a[i] \in Entries(saved) \/ list[i].type \notin Types(saved)
               /\ list[i].type \in Types(saved) =>
                    \E j \in DOMAIN saved : saved[j].type = list[i].type /\ a[i] = saved[j]
    OBVIOUS
  <2>1. CASE At(saved, list[i].type) = {}
    BY <1>1, <2>1 DEF At, Types
  <2>2. CASE At(saved, list[i].type) # {}
    <3> DEFINE j == FirstOf(At(saved, list[i].type))
    <3>1. j \in DOMAIN saved /\ saved[j].type = list[i].type
      BY <1>2, <2>2 DEF At
    <3>2. a[i] = saved[j]
      BY <2>2
    <3> HIDE DEF j, a
    <3> QED
      BY <1>1, <3>1, <3>2 DEF Entries, Types
  <2> QED
    BY <2>1, <2>2
<1>4. a \in Seq(Sched) /\ DOMAIN a = 1 .. n /\ Len(a) = n
  <2>1. DOMAIN a = 1 .. n /\ a \in [1 .. n -> Sched]
    BY <1>1, <1>3
  <2> HIDE DEF a
  <2> QED
    BY <1>1, <2>1
<1> HIDE DEF a
<1>5. /\ b \in List({}) /\ b \in Seq(Sched)
      /\ Entries(b) = {saved[i] : i \in places}
  <2>1. places \in SUBSET DOMAIN saved
    OBVIOUS
  <2> HIDE DEF places
  <2>2. b \in List({}) /\ Entries(b) = {saved[i] : i \in places}
    BY <2>1, PickedList
  <2> QED
    BY <2>2 DEF List
<1> HIDE DEF b
<1>6. \A k \in DOMAIN b : \E i \in places : b[k] = saved[i]
  BY <1>5 DEF Entries
<1>7. \A k \in DOMAIN b : b[k] \in Entries(saved) /\ b[k].type \notin Types(list)
  BY <1>6 DEF Entries, Types, At
<1>8. /\ r \in Seq(Sched) /\ Len(b) \in Nat /\ DOMAIN b = 1 .. Len(b)
      /\ DOMAIN r = 1 .. (n + Len(b))
      /\ \A i \in 1 .. n : r[i] = a[i]
      /\ \A k \in 1 .. Len(b) : n + k \in DOMAIN r /\ r[n + k] = b[k]
  <2> HIDE DEF n, places
  <2>1. b \in Seq(Sched) /\ Len(b) \in Nat /\ DOMAIN b = 1 .. Len(b)
    BY <1>5
  <2>2. n \in Nat /\ a \in Seq(Sched) /\ Len(a) = n
    BY <1>1, <1>4
  <2>3. r \in Seq(Sched) /\ Len(r) = n + Len(b)
    BY <2>1, <2>2
  <2>4. \A i \in 1 .. n : r[i] = a[i]
    BY <2>1, <2>2
  <2>5. ASSUME NEW k \in 1 .. Len(b) PROVE r[n + k] = b[k]
    BY <2>1, <2>2
  <2> HIDE DEF r
  <2>6. DOMAIN r = 1 .. (n + Len(b))
    BY <2>3
  <2>7. \A k \in 1 .. Len(b) : n + k \in 1 .. (n + Len(b))
    BY <2>1, <2>2
  <2> QED
    BY <2>1, <2>3, <2>4, <2>5, <2>6, <2>7
<1> HIDE DEF r, n
<1>9. \A i \in DOMAIN r : i \in DOMAIN list \/ \E k \in DOMAIN b : i = n + k
  <2> SUFFICES ASSUME NEW i \in DOMAIN r, i \notin DOMAIN list
               PROVE  \E k \in DOMAIN b : i = n + k
    OBVIOUS
  <2>1. i - n \in DOMAIN b /\ i = n + (i - n)
    BY <1>1, <1>8
  <2> QED
    BY <2>1
<1>10. DOMAIN list \subseteq DOMAIN r
  BY <1>1, <1>8
<1>11. \A i, j \in DOMAIN r : r[i].type = r[j].type => i = j
  <2> SUFFICES ASSUME NEW i \in DOMAIN r, NEW j \in DOMAIN r, r[i].type = r[j].type
               PROVE  i = j
    OBVIOUS
  <2>1. ASSUME i \in DOMAIN list, j \in DOMAIN list PROVE i = j
    BY <2>1, <1>1, <1>3, <1>8 DEF List
  <2>2. ASSUME NEW k \in DOMAIN b, NEW m \in DOMAIN b, i = n + k, j = n + m PROVE i = j
    BY <2>2, <1>5, <1>8 DEF List
  <2>3. ASSUME NEW x \in DOMAIN list, NEW m \in DOMAIN b PROVE r[x].type # r[n + m].type
    <3>1. r[x].type = list[x].type /\ r[n + m].type = b[m].type
      BY <1>1, <1>3, <1>8
    <3> QED
      BY <3>1, <1>7 DEF Types
  <2> QED
    BY <1>9, <2>1, <2>2, <2>3
<1>12. D \subseteq Types(r)
  <2>1. Types(list) \subseteq Types(r)
    BY <1>1, <1>3, <1>8, <1>10 DEF Types
  <2> QED
    BY <2>1 DEF List
<1>13. Entries(saved) \subseteq Entries(r)
  <2> SUFFICES ASSUME NEW j \in DOMAIN saved PROVE \E i \in DOMAIN r : r[i] = saved[j]
    BY DEF Entries
  <2>1. CASE At(list, saved[j].type) = {}
    <3>1. \E k \in DOMAIN b : b[k] = saved[j]
      BY <1>5, <2>1 DEF Entries
    <3> QED
      BY <3>1, <1>8
  <2>2. CASE At(list, saved[j].type) # {}
    <3>1. PICK i \in DOMAIN list : list[i].type = saved[j].type
      BY <2>2 DEF At
    <3>2. PICK k \in DOMAIN saved : saved[k].type = list[i].type /\ a[i] = saved[k]
      BY <3>1, <1>3 DEF Types
    <3>3. k = j
      BY <3>1, <3>2 DEF List
    <3> QED
      BY <3>2, <3>3, <1>1, <1>8, <1>10
  <2> QED
    BY <2>1, <2>2
<1>14. \A e \in Entries(r) : e \in Entries(saved) \/ e.type \in Types(list) \ Types(saved)
  <2> SUFFICES ASSUME NEW i \in DOMAIN r
        PROVE r[i] \in Entries(saved) \/ r[i].type \in Types(list) \ Types(saved)
    BY DEF Entries
  <2>1. CASE i \in DOMAIN list
    BY <2>1, <1>1, <1>3, <1>8 DEF Types
  <2>2. ASSUME NEW k \in DOMAIN b, i = n + k
        PROVE r[i] \in Entries(saved)
    BY <2>2, <1>7, <1>8
  <2> QED
    BY <1>9, <2>1, <2>2
<1>15. r \in List(D)
  BY <1>8, <1>11, <1>12 DEF List
<1>16. adjustScheduleCfg(list, saved) = r
  BY DEF adjustScheduleCfg, r, a, b
<1> QED
  BY <1>13, <1>14, <1>15, <1>16

Limit == OptValue \union {1}
(* Options with a list that names the schedulers of needed. *)
IsOpt(needed, opt) ==
  /\ DOMAIN opt = {"scheds", "limit", "rep", "ns", "labels"}
  /\ opt.scheds \in List(needed)
  /\ opt.limit \in Limit /\ opt.rep \in Limit
  /\ opt.ns \in [OptNs -> OptValue \union {0}]
  /\ opt.labels \in SUBSET OptLabel
(* A part of the options that a call reads and replaces. *)
IsScheduleCfg(needed, cfg) ==
  /\ DOMAIN cfg = {"scheds", "limit"}
  /\ cfg.scheds \in List(needed) /\ cfg.limit \in Limit
IsCfg(needed, cfg) ==
  \/ IsScheduleCfg(needed, cfg)
  \/ DOMAIN cfg = {"rep"} /\ cfg.rep \in Limit

(* The same of options and their parts ... *)
LEMMA FewerNeededOpt ==
  ASSUME NEW D, NEW E, E \subseteq D
  PROVE  /\ \A opt : IsOpt(D, opt) => IsOpt(E, opt)
         /\ \A cfg : IsScheduleCfg(D, cfg) => IsScheduleCfg(E, cfg)
         /\ \A cfg : IsCfg(D, cfg) => IsCfg(E, cfg)
<1>1. List(D) \subseteq List(E)
  BY FewerNeeded
<1> QED
  BY <1>1 DEF IsOpt, IsCfg, IsScheduleCfg

(* Options are no missing key. *)
LEMMA OptIsConfig ==
  ASSUME NEW D, NEW opt, IsOpt(D, opt) PROVE opt # NoConfig
<1>1. opt.limit # 0
  BY OptionsAssumption DEF IsOpt, Limit
<1> QED
  BY <1>1 DEF NoConfig

(* The configuration file is a list of the types it needs. *)
LEMMA FileOpt == IsOpt(DefaultTypes, newScheduleOption)
<1> DEFINE l == [i \in DOMAIN defaultSchedulers |->
                   Entry(defaultSchedulers[i], FALSE)]
<1>1. \A i \in DOMAIN defaultSchedulers :
        l[i] \in Sched /\ l[i].type = defaultSchedulers[i]
  BY EntryShape, SchedShape DEF DefaultTypes
<1>2. DOMAIN l = DOMAIN defaultSchedulers /\ l \in Seq(Sched)
  <2>1. /\ DOMAIN defaultSchedulers = 1 .. Len(defaultSchedulers)
        /\ Len(defaultSchedulers) \in Nat
    BY OptionsAssumption
  <2>2. l \in [1 .. Len(defaultSchedulers) -> Sched]
    BY <1>1, <2>1
  <2> HIDE DEF l
  <2> QED
    BY <2>1, <2>2
<1>3. newScheduleOption.scheds = l
  BY DEF newScheduleOption
<1> HIDE DEF l
<1>4. l \in List(DefaultTypes)
  BY <1>1, <1>2, OptionsAssumption DEF List, Types, DefaultTypes
<1>5. newScheduleOption.scheds \in List(DefaultTypes)
  BY <1>3, <1>4
<1> QED
  BY <1>5 DEF IsOpt, newScheduleOption, Limit

(* So is what an earlier life of the cluster saved. *)
LEMMA EarlierOpt ==
  ASSUME SavedBefore PROVE IsOpt(DefaultTypes, Earlier)
<1> DEFINE l == newScheduleOption.scheds
           tp == CHOOSE x \in OtherScheduler : TRUE
           v == CHOOSE x \in OptValue : TRUE
<1>1. tp \in OtherScheduler /\ v \in OptValue
  BY OptionsAssumption
<1>2. IsOpt(DefaultTypes, newScheduleOption)
  BY FileOpt
<1> HIDE DEF tp, v
<1>3. tp \in SchedType /\ l \in List(DefaultTypes)
  BY <1>1, <1>2 DEF SchedType, IsOpt
<1>4. \A i \in DOMAIN l : l[i].type # tp
  BY <1>1, OptionsAssumption DEF newScheduleOption, Entry
<1> HIDE DEF l
<1>5. AddSchedulerCfg(l, tp) \in List(DefaultTypes)
  BY <1>3, AddList
<1>6. AddSchedulerCfg(l, tp) = Append(l, Entry(tp, FALSE))
  BY <1>4 DEF AddSchedulerCfg, At
<1>7. Append(l, Entry(tp, FALSE)) \in List(DefaultTypes)
  BY <1>5, <1>6
<1>8. Earlier = [newScheduleOption EXCEPT
                   !.scheds = Append(l, Entry(tp, FALSE)),
                   !.ns = [n \in OptNs |-> v]]
  BY DEF Earlier, l, tp, v
<1> QED
  BY <1>1, <1>2, <1>7, <1>8 DEF IsOpt

(* reload keeps options options, and takes over all that was saved; a      *)
(* server that held the configuration file has nothing else afterwards.    *)
LEMMA ReloadOpt ==
  ASSUME NEW D, NEW mem, IsOpt(D, mem), optKey = NoConfig \/ IsOpt(D, optKey)
  PROVE  /\ IsOpt(D, reload(mem))
         /\ optKey # NoConfig => Covers(reload(mem), optKey)
         /\ /\ optKey # NoConfig
            /\ D = DefaultTypes /\ mem = newScheduleOption
            => Covers(optKey, reload(mem))
<1>1. CASE optKey = NoConfig
  BY <1>1 DEF reload
<1>2. CASE optKey # NoConfig
  <2> DEFINE r == adjustScheduleCfg(mem.scheds, optKey.scheds)
  <2>0. IsOpt(D, optKey)
    BY <1>2
  <2>1. mem.scheds \in List(D) /\ optKey.scheds \in List(D)
    BY <2>0 DEF IsOpt
  <2>2. /\ r \in List(D)
        /\ Entries(optKey.scheds) \subseteq Entries(r)
        /\ \A e \in Entries(r) : \/ e \in Entries(optKey.scheds)
                                  \/ e.type \in Types(mem.scheds) \ Types(optKey.scheds)
    BY <2>1, AdjustList
  <2> HIDE DEF r
  <2>3. reload(mem) =
          [scheds |-> r, limit |-> optKey.limit, rep |-> optKey.rep,
           ns |-> [n \in OptNs |-> IF optKey.ns[n] = 0 THEN mem.ns[n]
                                   ELSE optKey.ns[n]],
           labels |-> IF optKey.labels = {} THEN mem.labels ELSE optKey.labels]
    BY <1>2 DEF reload, r
  <2>4. IsOpt(D, reload(mem))
    BY <2>0, <2>2, <2>3 DEF IsOpt
  <2>5. ofServer(optKey.scheds) \subseteq ofServer(r)
    BY <2>2 DEF ofServer
  <2>6. Covers(reload(mem), optKey)
    BY <2>3, <2>5 DEF Covers
  <2>7. ASSUME D = DefaultTypes, mem = newScheduleOption
        PROVE  Covers(optKey, reload(mem))
    <3>1. Types(mem.scheds) \subseteq DefaultTypes
      BY <2>7 DEF newScheduleOption, Types, Entry, DefaultTypes
    <3>2. DefaultTypes \subseteq Types(optKey.scheds)
      BY <2>1, <2>7 DEF List
    <3>3. Entries(r) \subseteq Entries(optKey.scheds)
      BY <2>2, <3>1, <3>2
    <3>4. ofServer(r) \subseteq ofServer(optKey.scheds)
      BY <3>3 DEF ofServer
    <3>5. mem.labels = {} /\ \A n \in OptNs : mem.ns[n] = 0
      BY <2>7 DEF newScheduleOption
    <3> QED
      BY <2>3, <3>4, <3>5 DEF Covers
  <2> QED
    BY <2>4, <2>6, <2>7
<1> QED
  BY <1>1, <1>2

(* SetScheduleConfig and its like replace a part. *)
LEMMA PatchedOpt ==
  ASSUME NEW D, NEW opt, NEW cfg, IsOpt(D, opt), IsCfg(D, cfg)
  PROVE  /\ IsOpt(D, patched(opt, cfg))
         /\ IsCfg(D, [f \in DOMAIN cfg |-> opt[f]])
<1>1. CASE IsScheduleCfg(D, cfg)
  BY <1>1 DEF IsScheduleCfg, IsCfg, IsOpt, patched
<1>2. CASE DOMAIN cfg = {"rep"} /\ cfg.rep \in Limit
  BY <1>2 DEF IsCfg, IsOpt, patched
<1> QED
  BY <1>1, <1>2 DEF IsCfg

(* What a call holds at each of its steps. *)
IsCall(needed, c, cl) ==
  \/ cl = Resting
  \/ /\ DOMAIN cl = {"pc", "srv", "alone", "op", "arg", "snap"}
     /\ cl.pc \in {"read", "clone", "stored", "saving"}
     /\ cl.srv \in OptServer
     /\ cl.pc = "read" => cl.op = "restore"
     /\ cl.pc = "clone" => /\ cl.op = "none" /\ cl.srv = c
                             /\ IsScheduleCfg(needed, cl.arg)
     /\ cl.op \in {"restore", "ns", "label", "unlabel", "none"}
     /\ cl.op = "restore" => IsCfg(needed, cl.arg)
     /\ cl.op = "ns" => cl.arg \in [name : OptNs, old : OptValue \union {0}]
     /\ cl.op \in {"label", "unlabel"} => cl.arg \in OptLabel
     /\ cl.pc = "saving" => IsOpt(needed, cl.snap)

(* Taking a change back leaves options. *)
LEMMA TakenBackOpt ==
  ASSUME NEW D, NEW opt, NEW c, NEW cl, IsOpt(D, opt), IsCall(D, c, cl),
         cl # Resting
  PROVE  IsOpt(D, takenBack(opt, cl))
<1>1. CASE cl.op = "restore"
  <2>1. IsCfg(D, cl.arg) /\ takenBack(opt, cl) = patched(opt, cl.arg)
    BY <1>1 DEF IsCall, takenBack
  <2> QED
    BY <2>1, PatchedOpt
<1>2. CASE cl.op = "ns"
  <2>1. cl.arg \in [name : OptNs, old : OptValue \union {0}]
    BY <1>2 DEF IsCall
  <2>2. takenBack(opt, cl) =
          [opt EXCEPT !.ns = [opt.ns EXCEPT ![cl.arg.name] = cl.arg.old]]
    BY <1>2 DEF takenBack
  <2>3. [opt.ns EXCEPT ![cl.arg.name] = cl.arg.old] \in [OptNs -> OptValue \union {0}]
    BY <2>1 DEF IsOpt
  <2> QED
    BY <2>2, <2>3 DEF IsOpt
<1>3. CASE cl.op = "label"
  <2>1. cl.arg \in OptLabel
    BY <1>3 DEF IsCall
  <2>2. takenBack(opt, cl) = [opt EXCEPT !.labels = opt.labels \union {cl.arg}]
    BY <1>3 DEF takenBack, SetLabelProperty
  <2> QED
    BY <2>1, <2>2 DEF IsOpt
<1>4. CASE cl.op = "unlabel"
  <2>1. takenBack(opt, cl) = [opt EXCEPT !.labels = opt.labels \ {cl.arg}]
    BY <1>4 DEF takenBack, DeleteLabelProperty
  <2> QED
    BY <2>1 DEF IsOpt
<1>5. CASE cl.op = "none"
  BY <1>5 DEF takenBack
<1> QED
  BY <1>1, <1>2, <1>3, <1>4, <1>5 DEF IsCall

(* ... and of calls. *)
LEMMA FewerNeededCall ==
  ASSUME NEW D, NEW E, E \subseteq D, NEW c, NEW cl, IsCall(D, c, cl)
  PROVE  IsCall(E, c, cl)
<1>1. /\ \A opt : IsOpt(D, opt) => IsOpt(E, opt)
      /\ \A cfg : IsScheduleCfg(D, cfg) => IsScheduleCfg(E, cfg)
      /\ \A cfg : IsCfg(D, cfg) => IsCfg(E, cfg)
  BY FewerNeededOpt
<1> QED
  BY <1>1 DEF IsCall

(* Until run() has dropped a scheduler, every list has the schedulers of   *)
(* the configuration file.                                                 *)
Needed == IF dropped THEN {} ELSE DefaultTypes
OptTypes ==
  /\ dropped \in BOOLEAN
  /\ optLeader \in OptServer \union {NoServer}
  /\ DOMAIN optOf = OptServer /\ DOMAIN optCall = OptCaller \union OptServer
  /\ \A s \in OptServer : IsOpt(Needed, optOf[s])
  /\ optKey = NoConfig \/ IsOpt(Needed, optKey)
  /\ \A c \in OptCaller \union OptServer : IsCall(Needed, c, optCall[c])
(* A call that is alone is the only one. *)
AloneInv ==
  \A c, d \in DOMAIN optCall :
    optCall[c] # Resting /\ optCall[c].alone /\ d # c => optCall[d] = Resting
(* The same options, but for the user's schedulers. *)
Similar(a, b) ==
  /\ ofServer(a.scheds) = ofServer(b.scheds)
  /\ a.limit = b.limit /\ a.rep = b.rep /\ a.ns = b.ns /\ a.labels = b.labels
(* A call that is alone saves what the memory of its server still holds. *)
SnapInv ==
  \A c \in DOMAIN optCall :
    (optCall[c] # Resting /\ optCall[c].pc = "saving" /\ optCall[c].alone) =>
      Similar(optOf[optCall[c].srv], optCall[c].snap)
(* No call has changed the leader's options and not saved them. *)
Clean ==
  \A c \in DOMAIN optCall :
    \/ optCall[c] = Resting \/ optCall[c].pc \in {"read", "clone"}
    \/ optCall[c].srv # optLeader
RestoredInv ==
  (sure /\ optLeader # NoServer /\ optKey # NoConfig /\ Clean) =>
     /\ Covers(optOf[optLeader], optKey)
     /\ fresh /\ ~dropped => Covers(optKey, optOf[optLeader])
OptionsInv == OptTypes /\ AloneInv /\ SnapInv /\ RestoredInv
OptionsSpec == OptionsInit /\ [][OptionsNext]_optVars

(* Every server holds the configuration file, and no call is under way. *)
LEMMA OptionsInitInv == OptionsInit => OptionsInv
<1> SUFFICES ASSUME OptionsInit PROVE OptionsInv
  OBVIOUS
<1>1. Needed = DefaultTypes
  BY DEF OptionsInit, Needed
<1>2. IsOpt(DefaultTypes, newScheduleOption) /\ (SavedBefore => IsOpt(DefaultTypes, Earlier))
  BY FileOpt, EarlierOpt
<1>3. OptTypes
  BY <1>1, <1>2 DEF OptionsInit, OptTypes, IsCall
<1>4. AloneInv /\ SnapInv /\ RestoredInv
  BY DEF OptionsInit, AloneInv, SnapInv, RestoredInv
<1> QED
  BY <1>3, <1>4 DEF OptionsInv

(* A call goes on as it was, perhaps no longer alone. *)
GoesOn(new, old) ==
  /\ new = Resting <=> old = Resting
  /\ old # Resting => /\ new.pc = old.pc /\ new.srv = old.srv /\ new.snap = old.snap
                      /\ new.alone => old.alone

(* disturbed(s) leaves every call where it stands and none of s's alone. *)
LEMMA DisturbedCalls ==
  ASSUME OptTypes, NEW s
  PROVE  /\ DOMAIN disturbed(s) = DOMAIN optCall
         /\ \A c \in DOMAIN optCall :
              /\ IsCall(Needed, c, disturbed(s)[c])
              /\ GoesOn(disturbed(s)[c], optCall[c])
              /\ optCall[c] # Resting /\ optCall[c].srv = s => ~disturbed(s)[c].alone
<1>1. DOMAIN disturbed(s) = DOMAIN optCall
  BY DEF disturbed
<1> SUFFICES ASSUME NEW c \in DOMAIN optCall
             PROVE  /\ IsCall(Needed, c, disturbed(s)[c])
                    /\ GoesOn(disturbed(s)[c], optCall[c])
                    /\ optCall[c] # Resting /\ optCall[c].srv = s => ~disturbed(s)[c].alone
  BY <1>1
<1>2. IsCall(Needed, c, optCall[c])
  BY DEF OptTypes
<1>3. CASE optCall[c] # Resting /\ optCall[c].srv = s
  <2> DEFINE x == optCall[c]
             y == [x EXCEPT !.alone = FALSE]
  <2>1. disturbed(s)[c] = y
    BY <1>3 DEF disturbed
  <2>2. x.pc # "idle"
    BY <1>2, <1>3 DEF IsCall
  <2>3. /\ DOMAIN y = DOMAIN x /\ y.pc = x.pc /\ y.srv = x.srv /\ y.op = x.op
        /\ y.arg = x.arg /\ y.snap = x.snap /\ y.alone = FALSE
    BY <1>2, <1>3 DEF IsCall
  <2> HIDE DEF x, y
  <2>4. y # Resting /\ x # Resting
    BY <2>2, <2>3 DEF Resting
  <2>5. IsCall(Needed, c, y)
    BY <1>2, <2>3, <2>4 DEF IsCall, x
  <2> QED
    BY <2>1, <2>3, <2>4, <2>5 DEF GoesOn, x
<1>4. CASE ~(optCall[c] # Resting /\ optCall[c].srv = s)
  BY <1>2, <1>4 DEF disturbed, GoesOn
<1> QED
  BY <1>3, <1>4

(* So a call that is alone still is the only one. *)
LEMMA DisturbedAlone ==
  ASSUME OptTypes, AloneInv, NEW s, optCall' = disturbed(s)
  PROVE  AloneInv'
<1>1. /\ DOMAIN optCall' = DOMAIN optCall
      /\ \A c \in DOMAIN optCall : GoesOn(optCall'[c], optCall[c])
  BY DisturbedCalls
<1> QED
  BY <1>1 DEF AloneInv, GoesOn

(* campaignLeader: after reload the leader has what was saved. *)
LEMMA OptElectInv ==
  ASSUME OptionsInv, NEW s \in OptServer, ElectOptions(s)
  PROVE  OptionsInv'
<1> USE DEF OptionsInv
<1>1. Needed' = Needed
  BY DEF ElectOptions, Needed
<1>2. IsOpt(Needed, optOf[s]) /\ (optKey = NoConfig \/ IsOpt(Needed, optKey))
  BY DEF OptTypes
<1>3. /\ IsOpt(Needed, reload(optOf[s]))
      /\ optKey # NoConfig => Covers(reload(optOf[s]), optKey)
      /\ optKey # NoConfig /\ Needed = DefaultTypes /\ optOf[s] = newScheduleOption
         => Covers(optKey, reload(optOf[s]))
  BY <1>2, ReloadOpt, Zenon
<1>4. /\ optCall' = disturbed(s) /\ DOMAIN optOf' = OptServer
      /\ optOf'[s] = reload(optOf[s])
      /\ \A t \in OptServer : t # s => optOf'[t] = optOf[t]
      /\ optLeader' = s /\ optKey' = optKey /\ dropped' = dropped
      /\ fresh' = (optOf[s] = newScheduleOption)
  BY DEF ElectOptions, OptTypes
<1>5. /\ DOMAIN optCall' = DOMAIN optCall
      /\ \A c \in DOMAIN optCall :
           /\ IsCall(Needed, c, optCall'[c]) /\ GoesOn(optCall'[c], optCall[c])
           /\ optCall[c] # Resting /\ optCall[c].srv = s => ~optCall'[c].alone
  BY <1>4, DisturbedCalls
<1>6. OptTypes'
  <2>1. \A t \in OptServer : IsOpt(Needed, optOf'[t])
    BY <1>3, <1>4 DEF OptTypes
  <2> QED
    BY <1>1, <1>2, <1>4, <1>5, <2>1 DEF OptTypes
<1>7. AloneInv'
  BY <1>4, DisturbedAlone
<1>8. SnapInv'
  <2> SUFFICES ASSUME NEW c \in DOMAIN optCall, optCall'[c] # Resting,
                      optCall'[c].pc = "saving", optCall'[c].alone
               PROVE  Similar(optOf'[optCall'[c].srv], optCall'[c].snap)
    BY <1>5 DEF SnapInv
  <2>1. /\ optCall[c] # Resting /\ optCall[c].pc = "saving" /\ optCall[c].alone
        /\ optCall'[c].srv = optCall[c].srv /\ optCall'[c].snap = optCall[c].snap
        /\ optCall[c].srv # s
    BY <1>5 DEF GoesOn
  <2>2. optCall[c].srv \in OptServer
    BY <2>1 DEF OptTypes, IsCall
  <2> QED
    BY <1>4, <2>1, <2>2 DEF SnapInv
<1>9. RestoredInv'
  BY <1>3, <1>4 DEF RestoredInv, Needed
<1> QED
  BY <1>6, <1>7, <1>8, <1>9

(* watchLeader: the leader's options are not concerned. *)
LEMMA OptFollowInv ==
  ASSUME OptionsInv, NEW s \in OptServer, FollowOptions(s)
  PROVE  OptionsInv'
<1> USE DEF OptionsInv
<1>1. Needed' = Needed
  BY DEF FollowOptions, Needed
<1>2. IsOpt(Needed, optOf[s]) /\ (optKey = NoConfig \/ IsOpt(Needed, optKey))
  BY DEF OptTypes
<1>3. IsOpt(Needed, reload(optOf[s]))
  BY <1>2, ReloadOpt, Zenon
<1>4. /\ optCall' = disturbed(s) /\ DOMAIN optOf' = OptServer
      /\ optOf'[s] = reload(optOf[s])
      /\ \A t \in OptServer : t # s => optOf'[t] = optOf[t]
      /\ optLeader' = optLeader /\ optLeader # s /\ optKey' = optKey /\ dropped' = dropped
      /\ fresh' = fresh /\ sure' = sure
  BY DEF FollowOptions, OptTypes
<1>5. /\ DOMAIN optCall' = DOMAIN optCall
      /\ \A c \in DOMAIN optCall :
           /\ IsCall(Needed, c, optCall'[c]) /\ GoesOn(optCall'[c], optCall[c])
           /\ optCall[c] # Resting /\ optCall[c].srv = s => ~optCall'[c].alone
  BY <1>4, DisturbedCalls
<1>6. OptTypes'
  <2>1. \A t \in OptServer : IsOpt(Needed, optOf'[t])
    BY <1>3, <1>4 DEF OptTypes
  <2> QED
    BY <1>1, <1>2, <1>4, <1>5, <2>1 DEF OptTypes
<1>7. AloneInv'
  BY <1>4, DisturbedAlone
<1>8. SnapInv'
  <2> SUFFICES ASSUME NEW c \in DOMAIN optCall, optCall'[c] # Resting,
                      optCall'[c].pc = "saving", optCall'[c].alone
               PROVE  Similar(optOf'[optCall'[c].srv], optCall'[c].snap)
    BY <1>5 DEF SnapInv
  <2>1. /\ optCall[c] # Resting /\ optCall[c].pc = "saving" /\ optCall[c].alone
        /\ optCall'[c].srv = optCall[c].srv /\ optCall'[c].snap = optCall[c].snap
        /\ optCall[c].srv # s
    BY <1>5 DEF GoesOn
  <2>2. optCall[c].srv \in OptServer
    BY <2>1 DEF OptTypes, IsCall
  <2> QED
    BY <1>4, <2>1, <2>2 DEF SnapInv
<1>9. RestoredInv'
  <2>1. Clean' => Clean
    BY <1>4, <1>5 DEF Clean, GoesOn
  <2> QED
    BY <1>4, <2>1 DEF RestoredInv, OptTypes
<1> QED
  BY <1>6, <1>7, <1>8, <1>9

(* Without a leader nothing is said. *)
LEMMA OptResignInv ==
  ASSUME OptionsInv, ResignOptions
  PROVE  OptionsInv'
<1> USE DEF OptionsInv, ResignOptions
<1>1. Needed' = Needed
  BY DEF Needed
<1>2. OptTypes'
  BY <1>1 DEF OptTypes
<1>3. AloneInv' /\ SnapInv'
  BY DEF AloneInv, SnapInv
<1>4. RestoredInv'
  BY DEF RestoredInv
<1> QED
  BY <1>2, <1>3, <1>4

(* A restart ends the calls of the server and its leadership. *)
LEMMA OptRestartInv ==
  ASSUME OptionsInv, NEW s \in OptServer, RestartOptions(s)
  PROVE  OptionsInv'
<1> USE DEF OptionsInv
<1>1. Needed' = Needed
  BY DEF RestartOptions, Needed
<1>2. IsOpt(Needed, newScheduleOption)
  <2>1. Needed \subseteq DefaultTypes
    BY DEF Needed
  <2> QED
    BY <2>1, FileOpt, FewerNeededOpt
<1>3. /\ DOMAIN optOf' = OptServer
      /\ optOf'[s] = newScheduleOption
      /\ \A t \in OptServer : t # s => optOf'[t] = optOf[t]
      /\ IF s = optLeader THEN optLeader' = NoServer ELSE optLeader' = optLeader
      /\ optKey' = optKey /\ dropped' = dropped /\ fresh' = fresh /\ sure' = sure
  BY DEF RestartOptions, OptTypes
<1>4. /\ DOMAIN optCall' = DOMAIN optCall
      /\ \A c \in DOMAIN optCall :
           optCall'[c] = IF optCall[c] # Resting /\ optCall[c].srv = s
                         THEN Resting ELSE optCall[c]
  BY DEF RestartOptions
<1>5. OptTypes'
  <2>1. \A t \in OptServer : IsOpt(Needed, optOf'[t])
    BY <1>2, <1>3 DEF OptTypes
  <2>2. \A c \in DOMAIN optCall : IsCall(Needed, c, optCall'[c])
    BY <1>4 DEF OptTypes, IsCall
  <2> QED
    BY <1>1, <1>3, <1>4, <2>1, <2>2 DEF OptTypes
<1>6. AloneInv'
  BY <1>4 DEF AloneInv
<1>7. SnapInv'
  <2> SUFFICES ASSUME NEW c \in DOMAIN optCall, optCall'[c] # Resting,
                      optCall'[c].pc = "saving", optCall'[c].alone
               PROVE  Similar(optOf'[optCall'[c].srv], optCall'[c].snap)
    BY <1>4 DEF SnapInv
  <2>1. optCall'[c] = optCall[c] /\ optCall[c].srv # s
    BY <1>4
  <2>2. optCall[c].srv \in OptServer
    BY <2>1 DEF OptTypes, IsCall
  <2> QED
    BY <1>3, <2>1, <2>2 DEF SnapInv
<1>8. RestoredInv'
  <2>1. CASE s = optLeader
    BY <1>3, <2>1 DEF RestoredInv
  <2>2. CASE s # optLeader
    <3>1. Clean' => Clean
      BY <1>3, <1>4, <2>2 DEF Clean
    <3> QED
      BY <1>3, <2>2, <3>1 DEF RestoredInv, OptTypes
  <2> QED
    BY <2>1, <2>2
<1> QED
  BY <1>5, <1>6, <1>7, <1>8

(* A call that begins ends the solitude of the others. *)
LEMMA BeginCalls ==
  ASSUME OptTypes, NEW c \in DOMAIN optCall, optCall[c] = Resting,
         NEW s, NEW pc, NEW how, NEW arg, begin(c, s, pc, how, arg)
  PROVE  /\ DOMAIN optCall' = DOMAIN optCall
         /\ optCall'[c] = [pc |-> pc, srv |-> s, op |-> how, arg |-> arg, snap |-> NoConfig,
                           alone |-> \A d \in DOMAIN optCall \ {c} : optCall[d] = Resting]
         /\ \A d \in DOMAIN optCall \ {c} :
              /\ IsCall(Needed, d, optCall'[d])
              /\ GoesOn(optCall'[d], optCall[d])
              /\ optCall[d] # Resting => ~optCall'[d].alone
<1> DEFINE others == {d \in DOMAIN optCall \ {c} : optCall[d] # Resting}
<1>1. optCall' = [d \in DOMAIN optCall |->
        IF d = c THEN [pc |-> pc, srv |-> s, alone |-> others = {},
                       op |-> how, arg |-> arg, snap |-> NoConfig]
        ELSE IF d \in others THEN [optCall[d] EXCEPT !.alone = FALSE]
        ELSE Resting]
  BY DEF begin
<1>2. DOMAIN optCall' = DOMAIN optCall
  BY <1>1
<1>3. (others = {}) = (\A d \in DOMAIN optCall \ {c} : optCall[d] = Resting)
  OBVIOUS
<1>4. optCall'[c] = [pc |-> pc, srv |-> s, op |-> how, arg |-> arg, snap |-> NoConfig,
                     alone |-> \A d \in DOMAIN optCall \ {c} : optCall[d] = Resting]
  <2>1. optCall'[c] = [pc |-> pc, srv |-> s, alone |-> others = {},
                       op |-> how, arg |-> arg, snap |-> NoConfig]
    BY <1>1
  <2> QED
    BY <2>1, <1>3
<1>5. ASSUME NEW d \in DOMAIN optCall \ {c}
      PROVE  /\ IsCall(Needed, d, optCall'[d])
             /\ GoesOn(optCall'[d], optCall[d])
             /\ optCall[d] # Resting => ~optCall'[d].alone
  <2>1. CASE optCall[d] = Resting
    BY <1>1, <2>1 DEF IsCall, GoesOn
  <2>2. CASE optCall[d] # Resting
    <3> DEFINE x == optCall[d]
               y == [x EXCEPT !.alone = FALSE]
    <3>1. optCall'[d] = y
      BY <1>1, <2>2
    <3>2. IsCall(Needed, d, x)
      BY DEF OptTypes
    <3>3. x.pc # "idle"
      BY <2>2, <3>2 DEF IsCall
    <3>4. /\ DOMAIN y = DOMAIN x /\ y.pc = x.pc /\ y.srv = x.srv /\ y.op = x.op
          /\ y.arg = x.arg /\ y.snap = x.snap /\ y.alone = FALSE
      BY <2>2, <3>2 DEF IsCall
    <3> HIDE DEF x, y
    <3>5. y # Resting /\ x # Resting
      BY <3>3, <3>4 DEF Resting
    <3>6. IsCall(Needed, d, y)
      BY <3>2, <3>4, <3>5 DEF IsCall
    <3> QED
      BY <3>1, <3>4, <3>5, <3>6 DEF GoesOn, x
  <2> QED
    BY <2>1, <2>2
<1> QED
  BY <1>2, <1>4, <1>5

(* The first step of a call of the leader, which reads the options or      *)
(* changes them.                                                           *)
LEMMA OptBeginInv ==
  ASSUME OptionsInv, NEW c \in DOMAIN optCall, optCall[c] = Resting,
         optLeader # NoServer, NEW pc, NEW how, NEW arg,
         begin(c, optLeader, pc, how, arg),
         UNCHANGED <<optKey, optLeader, sure, fresh, dropped>>,
         IsCall(Needed, c, [pc |-> pc, srv |-> optLeader, op |-> how, arg |-> arg,
                            snap |-> NoConfig,
                            alone |-> \A d \in DOMAIN optCall \ {c} : optCall[d] = Resting]),
         pc # "idle", pc # "saving",
         \/ optOf' = optOf
         \/ /\ pc = "stored" /\ DOMAIN optOf' = OptServer
            /\ IsOpt(Needed, optOf'[optLeader])
            /\ \A t \in OptServer : t # optLeader => optOf'[t] = optOf[t]
  PROVE  OptionsInv'
<1> USE DEF OptionsInv
<1> DEFINE cl == [pc |-> pc, srv |-> optLeader, op |-> how, arg |-> arg, snap |-> NoConfig,
                    alone |-> \A d \in DOMAIN optCall \ {c} : optCall[d] = Resting]
<1>1. Needed' = Needed /\ optLeader \in OptServer
  BY DEF Needed, OptTypes
<1>2. /\ DOMAIN optCall' = DOMAIN optCall
      /\ optCall'[c] = cl
      /\ \A d \in DOMAIN optCall \ {c} :
           /\ IsCall(Needed, d, optCall'[d])
           /\ GoesOn(optCall'[d], optCall[d])
           /\ optCall[d] # Resting => ~optCall'[d].alone
  BY BeginCalls
<1>3. /\ cl.pc = pc /\ cl.srv = optLeader /\ IsCall(Needed, c, cl)
      /\ cl.alone => \A d \in DOMAIN optCall \ {c} : optCall[d] = Resting
  OBVIOUS
<1> HIDE DEF cl
<1>4. cl # Resting
  BY <1>3 DEF Resting
<1>5. OptTypes'
  <2>1. DOMAIN optOf' = OptServer /\ \A t \in OptServer : IsOpt(Needed, optOf'[t])
    BY <1>1 DEF OptTypes
  <2>2. \A d \in DOMAIN optCall : IsCall(Needed, d, optCall'[d])
    BY <1>2, <1>3
  <2> QED
    BY <1>1, <1>2, <2>1, <2>2 DEF OptTypes
<1>6. AloneInv'
  <2> SUFFICES ASSUME NEW d \in DOMAIN optCall, NEW e \in DOMAIN optCall,
                      optCall'[d] # Resting, optCall'[d].alone, e # d
               PROVE  optCall'[e] = Resting
    BY <1>2 DEF AloneInv
  <2>1. d = c
    BY <1>2 DEF GoesOn
  <2>2. optCall[e] = Resting
    BY <1>2, <1>3, <2>1
  <2> QED
    BY <1>2, <2>1, <2>2 DEF GoesOn
<1>7. SnapInv'
  <2> SUFFICES ASSUME NEW d \in DOMAIN optCall,
                      optCall'[d] # Resting, optCall'[d].pc = "saving", optCall'[d].alone
               PROVE  FALSE
    BY <1>2 DEF SnapInv
  <2> QED
    BY <1>2, <1>3 DEF GoesOn
<1>8. RestoredInv'
  <2>1. CASE optOf' = optOf
    <3>1. Clean' => Clean
      BY <1>2 DEF Clean, GoesOn
    <3> QED
      BY <2>1, <3>1 DEF RestoredInv
  <2>2. CASE pc = "stored"
    <3>1. ~Clean'
      BY <1>2, <1>3, <1>4, <2>2 DEF Clean
    <3> QED
      BY <3>1 DEF RestoredInv
  <2> QED
    BY <2>1, <2>2
<1> QED
  BY <1>5, <1>6, <1>7, <1>8

(* SetSchedule and SetReplication read what the leader holds. *)
LEMMA OptReadInv ==
  ASSUME OptionsInv, NEW c \in OptCaller, NEW v \in OptValue,
         SetScheduleRead(c, v) \/ SetReplicationRead(c, v)
  PROVE  OptionsInv'
<1>1. /\ c \in DOMAIN optCall /\ optLeader # NoServer /\ optLeader \in OptServer
      /\ IsOpt(Needed, optOf[optLeader]) /\ optCall[c] = Resting
      /\ UNCHANGED <<optOf, optKey, optLeader, sure, fresh, dropped>>
  BY DEF OptionsInv, OptTypes, SetScheduleRead, SetReplicationRead, MayCall, onlyOpt
<1> DEFINE al == \A d \in DOMAIN optCall \ {c} : optCall[d] = Resting
           A == [scheds |-> MyOpt.scheds, limit |-> v]
           B == [rep |-> v]
<1>2. IsCfg(Needed, A) /\ IsCfg(Needed, B)
  BY <1>1 DEF IsCfg, IsScheduleCfg, IsOpt, MyOpt, Limit
<1>3. SetScheduleRead(c, v) => begin(c, optLeader, "read", "restore", A)
  BY DEF SetScheduleRead
<1>4. SetReplicationRead(c, v) => begin(c, optLeader, "read", "restore", B)
  BY DEF SetReplicationRead
<1> HIDE DEF A, B, al
<1>5. ASSUME NEW arg, IsCfg(Needed, arg)
      PROVE  IsCall(Needed, c, [pc |-> "read", srv |-> optLeader, op |-> "restore",
                                arg |-> arg, snap |-> NoConfig, alone |-> al])
  BY <1>1, <1>5 DEF IsCall
<1>6. ASSUME NEW arg, IsCfg(Needed, arg), begin(c, optLeader, "read", "restore", arg)
      PROVE  OptionsInv'
  <2>1. IsCall(Needed, c, [pc |-> "read", srv |-> optLeader, op |-> "restore",
                           arg |-> arg, snap |-> NoConfig,
                           alone |-> \A d \in DOMAIN optCall \ {c} : optCall[d] = Resting])
    BY <1>5, <1>6 DEF al
  <2> QED
    BY <1>1, <1>6, <2>1, OptBeginInv
<1> QED
  BY <1>2, <1>3, <1>4, <1>6

(* run() clones the list of the leader. *)
LEMMA RunLoadInv ==
  ASSUME OptionsInv, NEW s \in OptServer, RunLoad(s)
  PROVE  OptionsInv'
<1> DEFINE A == [scheds |-> MyOpt.scheds, limit |-> MyOpt.limit]
<1>1. /\ s \in DOMAIN optCall /\ s = optLeader /\ optLeader # NoServer
      /\ IsOpt(Needed, optOf[s]) /\ optCall[s] = Resting
      /\ UNCHANGED <<optOf, optKey, optLeader, sure, fresh, dropped>>
  BY OptionsAssumption DEF OptionsInv, OptTypes, RunLoad, NoServer
<1>2. IsScheduleCfg(Needed, A)
  BY <1>1 DEF IsScheduleCfg, IsOpt, MyOpt
<1>3. begin(s, optLeader, "clone", "none", A)
  BY <1>1 DEF RunLoad
<1> HIDE DEF A
<1>4. IsCall(Needed, s, [pc |-> "clone", srv |-> optLeader, op |-> "none",
                         arg |-> A, snap |-> NoConfig,
                         alone |-> \A d \in DOMAIN optCall \ {s} : optCall[d] = Resting])
  BY <1>1, <1>2 DEF IsCall
<1> QED
  BY <1>1, <1>3, <1>4, OptBeginInv

(* A call that stores at once. *)
LEMMA OptStoreInv ==
  ASSUME OptionsInv, NEW c \in OptCaller, NEW opt, NEW how, NEW arg,
         optLeader # NoServer,
         store(c, opt, how, arg), IsOpt(Needed, opt),
         how \in {"ns", "label", "unlabel", "none"},
         how = "ns" => arg \in [name : OptNs, old : OptValue \union {0}],
         how \in {"label", "unlabel"} => arg \in OptLabel
  PROVE  OptionsInv'
<1>1. /\ c \in DOMAIN optCall /\ optLeader \in OptServer /\ optCall[c] = Resting
      /\ UNCHANGED <<optKey, optLeader, sure, fresh, dropped>>
      /\ DOMAIN optOf' = OptServer /\ optOf'[optLeader] = opt
      /\ \A t \in OptServer : t # optLeader => optOf'[t] = optOf[t]
      /\ begin(c, optLeader, "stored", how, arg)
  BY DEF OptionsInv, OptTypes, store, MayCall, onlyOpt
<1>2. IsCall(Needed, c, [pc |-> "stored", srv |-> optLeader, op |-> how,
                         arg |-> arg, snap |-> NoConfig,
                         alone |-> \A d \in DOMAIN optCall \ {c} : optCall[d] = Resting])
  BY <1>1 DEF IsCall
<1> QED
  BY <1>1, <1>2, OptBeginInv

(* SetNamespaceConfig, label properties, and adding or removing a          *)
(* scheduler keep options options.                                         *)
LEMMA OptChangesInv ==
  ASSUME OptionsInv, NEW c \in OptCaller,
         \/ \E n \in OptNs, v \in OptValue \union {0} : SetNamespaceConfig(c, n, v)
         \/ \E l \in OptLabel, add \in BOOLEAN : LabelProperty(c, l, add)
         \/ \E tp \in OtherScheduler \union DefaultTypes :
              AddSchedulerConfig(c, tp) \/ RemoveSchedulerConfig(c, tp)
  PROVE  OptionsInv'
<1>0. SUFFICES ASSUME optLeader # NoServer PROVE OptionsInv'
  BY DEF SetNamespaceConfig, LabelProperty, AddSchedulerConfig, RemoveSchedulerConfig
<1>1. IsOpt(Needed, MyOpt) /\ Needed \in SUBSET DefaultTypes
  BY <1>0 DEF MyOpt, OptionsInv, OptTypes, Needed
<1>2. ASSUME NEW n \in OptNs, NEW v \in OptValue \union {0}, SetNamespaceConfig(c, n, v)
      PROVE  OptionsInv'
  <2> DEFINE new == [MyOpt EXCEPT !.ns[n] = v]
             arg == [name |-> n, old |-> MyOpt.ns[n]]
  <2>1. store(c, new, "ns", arg)
    BY <1>2 DEF SetNamespaceConfig
  <2>2. new = [MyOpt EXCEPT !.ns = [MyOpt.ns EXCEPT ![n] = v]]
    OBVIOUS
  <2>3. [MyOpt.ns EXCEPT ![n] = v] \in [OptNs -> OptValue \union {0}]
    BY <1>1 DEF IsOpt
  <2>4. IsOpt(Needed, new)
    BY <1>1, <2>2, <2>3 DEF IsOpt
  <2>5. arg \in [name : OptNs, old : OptValue \union {0}]
    BY <1>1 DEF IsOpt
  <2> HIDE DEF new, arg
  <2> QED
    BY <1>0, <2>1, <2>4, <2>5, OptStoreInv
<1>3. ASSUME NEW l \in OptLabel, NEW add \in BOOLEAN, LabelProperty(c, l, add)
      PROVE  OptionsInv'
  <2> DEFINE new == [MyOpt EXCEPT !.labels = IF add THEN SetLabelProperty(@, l)
                                            ELSE DeleteLabelProperty(@, l)]
             how == IF add THEN "unlabel" ELSE "label"
  <2>1. store(c, new, how, l)
    BY <1>3 DEF LabelProperty
  <2>2. IsOpt(Needed, new)
    BY <1>1 DEF IsOpt, SetLabelProperty, DeleteLabelProperty
  <2>3. how \in {"label", "unlabel"}
    OBVIOUS
  <2> HIDE DEF new, how
  <2> QED
    BY <1>0, <2>1, <2>2, <2>3, OptStoreInv
<1>4. ASSUME NEW tp \in OtherScheduler \union DefaultTypes, AddSchedulerConfig(c, tp)
      PROVE  OptionsInv'
  <2> DEFINE new == [MyOpt EXCEPT !.scheds = AddSchedulerCfg(MyOpt.scheds, tp)]
  <2>1. store(c, new, "none", NoConfig)
    BY <1>4 DEF AddSchedulerConfig
  <2>2. AddSchedulerCfg(MyOpt.scheds, tp) \in List(Needed)
    BY <1>1, AddList DEF IsOpt, SchedType
  <2>3. IsOpt(Needed, new)
    BY <1>1, <2>2 DEF IsOpt
  <2> HIDE DEF new
  <2> QED
    BY <1>0, <2>1, <2>3, OptStoreInv
<1>5. ASSUME NEW tp, RemoveSchedulerConfig(c, tp)
      PROVE  OptionsInv'
  <2>1. CASE RemoveSchedulerErr(optLeader, MyOpt.scheds, tp)
    <3>1. UNCHANGED <<optOf, optCall, optKey, optLeader, sure, fresh, dropped>>
      BY <1>5, <2>1 DEF RemoveSchedulerConfig, onlyOpt
    <3> QED
      BY <3>1 DEF OptionsInv, OptTypes, AloneInv, SnapInv, RestoredInv, Clean, Needed
  <2>2. CASE ~RemoveSchedulerErr(optLeader, MyOpt.scheds, tp)
    <3> DEFINE r == RemoveSchedulerCfg(optLeader, MyOpt.scheds, tp)
               new == [MyOpt EXCEPT !.scheds = r]
    <3>1. store(c, new, "none", NoConfig)
      BY <1>5, <2>2 DEF RemoveSchedulerConfig
    <3>2. r \in List(Needed)
      BY <1>1, RemoveList DEF IsOpt
    <3> HIDE DEF r
    <3>3. IsOpt(Needed, new)
      BY <1>1, <3>2 DEF IsOpt
    <3> HIDE DEF new
    <3> QED
      BY <1>0, <3>1, <3>3, OptStoreInv
  <2> QED
    BY <2>1, <2>2
<1> QED
  BY <1>2, <1>3, <1>4, <1>5

(* A further step of a call c, which changes the options of its own server *)
(* only: the invariant holds again if the call's new state is one, and     *)
(* leaves the leader's options unsaved if it has changed them.             *)
LEMMA OptCallStepInv ==
  ASSUME OptionsInv, NEW c \in DOMAIN optCall, optCall[c] # Resting, NEW new,
         optCall' = [optCall EXCEPT ![c] = new], UNCHANGED <<optKey, optLeader>>,
         DOMAIN optOf' = OptServer, IsOpt(Needed', optOf'[optCall[c].srv]),
         \A t \in OptServer : t # optCall[c].srv => optOf'[t] = optOf[t],
         dropped' \in BOOLEAN, dropped => dropped',
         IsCall(Needed', c, new),
         new # Resting => /\ new.alone => optCall[c].alone
                          /\ new.srv = optCall[c].srv
                          /\ new.pc = "saving" => new.snap = optOf'[new.srv],
         \/ ~sure'
         \/ /\ UNCHANGED <<sure, fresh>>
            /\ optOf' = optOf \/ (new # Resting /\ new.pc = "stored")
            /\ new = Resting \/ new.pc \in {"stored", "saving"}
            /\ optCall[c].pc \in {"read", "clone"} \/ new # Resting
  PROVE  OptionsInv'
<1> USE DEF OptionsInv
<1>1. Needed' \subseteq Needed
  BY DEF Needed, OptTypes
<1>2. /\ DOMAIN optCall' = DOMAIN optCall /\ optCall'[c] = new
      /\ \A d \in DOMAIN optCall \ {c} : optCall'[d] = optCall[d]
      /\ optCall[c].srv \in OptServer
  BY DEF OptTypes, IsCall
<1>3. OptTypes'
  <2>1. \A t \in OptServer : IsOpt(Needed', optOf'[t])
    BY <1>1, FewerNeededOpt DEF OptTypes
  <2>2. optKey' = NoConfig \/ IsOpt(Needed', optKey')
    BY <1>1, FewerNeededOpt DEF OptTypes
  <2>3. \A d \in DOMAIN optCall : IsCall(Needed', d, optCall'[d])
    BY <1>1, <1>2, FewerNeededCall DEF OptTypes
  <2>4. DOMAIN optCall' = OptCaller \union OptServer
    BY <1>2 DEF OptTypes
  <2> QED
    BY <1>2, <2>1, <2>2, <2>3, <2>4 DEF OptTypes
<1>4. AloneInv'
  BY <1>2 DEF AloneInv
<1>5. SnapInv'
  <2> SUFFICES ASSUME NEW d \in DOMAIN optCall,
                      optCall'[d] # Resting, optCall'[d].pc = "saving", optCall'[d].alone
               PROVE  Similar(optOf'[optCall'[d].srv], optCall'[d].snap)
    BY <1>2 DEF SnapInv
  <2>1. d = c
    BY <1>2 DEF AloneInv
  <2> QED
    BY <1>2, <2>1 DEF Similar
<1>6. RestoredInv'
  <2> SUFFICES ASSUME sure', optLeader # NoServer, Clean' PROVE
                 optKey # NoConfig =>
                   /\ Covers(optOf'[optLeader], optKey)
                   /\ fresh' /\ ~dropped' => Covers(optKey, optOf'[optLeader])
    BY DEF RestoredInv
  <2>1. /\ UNCHANGED <<sure, fresh>>
        /\ optOf' = optOf \/ (new # Resting /\ new.pc = "stored")
        /\ new = Resting \/ new.pc \in {"stored", "saving"}
        /\ optCall[c].pc \in {"read", "clone"} \/ new # Resting
    OBVIOUS
  <2>2. Clean /\ optOf'[optLeader] = optOf[optLeader]
    <3>1. CASE new = Resting
      <4>1. optOf' = optOf /\ optCall[c].pc \in {"read", "clone"}
        BY <2>1, <3>1
      <4> QED
        BY <1>2, <4>1 DEF Clean
    <3>2. CASE new # Resting
      <4>1. new.pc \in {"stored", "saving"} /\ new.srv = optCall[c].srv
        BY <2>1, <3>2
      <4>2. new.srv # optLeader
        BY <1>2, <3>2, <4>1 DEF Clean
      <4>3. Clean
        BY <1>2, <4>1, <4>2 DEF Clean
      <4> QED
        BY <4>1, <4>2, <4>3 DEF OptTypes
    <3> QED
      BY <3>1, <3>2
  <2> QED
    BY <2>1, <2>2 DEF RestoredInv
<1> QED
  BY <1>3, <1>4, <1>5, <1>6

(* SetScheduleConfig stores what it read, however long ago. *)
LEMMA SetConfigStoreInv ==
  ASSUME OptionsInv, NEW c \in OptCaller, SetConfigStore(c)
  PROVE  OptionsInv'
<1> DEFINE x == optCall[c]
           s == x.srv
           cfg == x.arg
           old == [f \in DOMAIN cfg |-> optOf[s][f]]
<1>1. /\ c \in DOMAIN optCall /\ x # Resting /\ x.pc = "read" /\ IsCall(Needed, c, x)
      /\ UNCHANGED <<optKey, optLeader, sure, fresh, dropped>>
      /\ dropped \in BOOLEAN /\ DOMAIN optOf = OptServer
      /\ \A t \in OptServer : IsOpt(Needed, optOf[t])
  BY DEF OptionsInv, OptTypes, SetConfigStore, onlyOpt
<1>2. s \in OptServer /\ IsCfg(Needed, cfg) /\ Needed' = Needed /\ x.op = "restore"
      /\ DOMAIN x = {"pc", "srv", "alone", "op", "arg", "snap"}
  BY <1>1 DEF IsCall, Needed
<1>3. CASE validate(s, cfg)
  <2> DEFINE new == [x EXCEPT !.pc = "stored", !.arg = old]
  <2>1. /\ optOf' = [optOf EXCEPT ![s] = patched(@, cfg)]
        /\ optCall' = [optCall EXCEPT ![c] = new]
    BY <1>3 DEF SetConfigStore
  <2>2. IsOpt(Needed, patched(optOf[s], cfg)) /\ IsCfg(Needed, old)
    BY <1>1, <1>2, PatchedOpt
  <2> HIDE DEF old
  <2>3. /\ new.pc = "stored" /\ new.srv = s /\ new.arg = old /\ new.op = x.op
        /\ new.alone = x.alone /\ DOMAIN new = DOMAIN x
    BY <1>2
  <2> HIDE DEF new
  <2>4. new # Resting /\ IsCall(Needed, c, new)
    BY <1>2, <2>2, <2>3 DEF Resting, IsCall
  <2>5. /\ DOMAIN optOf' = OptServer /\ optOf'[s] = patched(optOf[s], cfg)
        /\ \A t \in OptServer : t # s => optOf'[t] = optOf[t]
    BY <1>1, <1>2, <2>1
  <2> QED
    BY <1>1, <1>2, <2>1, <2>2, <2>3, <2>4, <2>5, OptCallStepInv
<1>4. CASE ~validate(s, cfg)
  <2>1. optCall' = [optCall EXCEPT ![c] = Resting] /\ optOf' = optOf
    BY <1>4 DEF SetConfigStore
  <2>2. IsCall(Needed, c, Resting)
    BY DEF IsCall
  <2> QED
    BY <1>1, <1>2, <2>1, <2>2, OptCallStepInv
<1> QED
  BY <1>3, <1>4

(* persist saves what memory holds at this moment. *)
LEMMA OptSnapshotInv ==
  ASSUME OptionsInv, NEW c \in DOMAIN optCall, PersistSnapshot(c)
  PROVE  OptionsInv'
<1> DEFINE x == optCall[c]
           s == x.srv
           new == [x EXCEPT !.pc = "saving", !.snap = optOf[s]]
<1>1. /\ x # Resting /\ x.pc = "stored" /\ IsCall(Needed, c, x)
      /\ UNCHANGED <<optOf, optKey, optLeader, sure, fresh, dropped>>
      /\ optCall' = [optCall EXCEPT ![c] = new]
      /\ dropped \in BOOLEAN /\ DOMAIN optOf = OptServer
      /\ \A t \in OptServer : IsOpt(Needed, optOf[t])
  BY DEF OptionsInv, OptTypes, PersistSnapshot, onlyOpt
<1>2. s \in OptServer /\ Needed' = Needed
      /\ DOMAIN x = {"pc", "srv", "alone", "op", "arg", "snap"}
  BY <1>1 DEF IsCall, Needed
<1>3. /\ new.pc = "saving" /\ new.srv = s /\ new.arg = x.arg /\ new.op = x.op
      /\ new.alone = x.alone /\ new.snap = optOf[s] /\ DOMAIN new = DOMAIN x
  BY <1>2
<1> HIDE DEF new
<1>4. new # Resting /\ IsCall(Needed, c, new)
  BY <1>1, <1>2, <1>3 DEF Resting, IsCall
<1> QED
  BY <1>1, <1>2, <1>3, <1>4, OptCallStepInv

(* The save of a call that was alone brings memory and etcd together; that *)
(* of any other is not sure.                                               *)
LEMMA OptSavedInv ==
  ASSUME OptionsInv, NEW c \in DOMAIN optCall, PersistSaved(c)
  PROVE  OptionsInv'
<1> USE DEF OptionsInv
<1> DEFINE x == optCall[c]
<1>1. /\ x # Resting /\ x.pc = "saving" /\ optLeader = x.srv /\ IsCall(Needed, c, x)
      /\ optKey' = x.snap /\ sure' = x.alone
      /\ UNCHANGED <<optOf, optLeader, dropped>>
      /\ DOMAIN optCall' = DOMAIN optCall /\ optCall'[c] = Resting
      /\ \A d \in DOMAIN optCall \ {c} : optCall'[d] = optCall[d]
  BY DEF OptTypes, PersistSaved
<1>2. Needed' = Needed /\ IsOpt(Needed, x.snap)
  BY <1>1 DEF Needed, IsCall
<1>3. OptTypes'
  <2>1. \A d \in DOMAIN optCall : IsCall(Needed, d, optCall'[d])
    BY <1>1 DEF OptTypes, IsCall
  <2> QED
    BY <1>1, <1>2, <2>1 DEF OptTypes
<1>4. AloneInv' /\ SnapInv'
  BY <1>1 DEF AloneInv, SnapInv
<1>5. RestoredInv'
  <2> SUFFICES ASSUME x.alone
               PROVE  Covers(optOf[optLeader], x.snap) /\ Covers(x.snap, optOf[optLeader])
    BY <1>1 DEF RestoredInv
  <2>1. Similar(optOf[optLeader], x.snap)
    BY <1>1 DEF SnapInv
  <2> QED
    BY <2>1 DEF Similar, Covers
<1> QED
  BY <1>3, <1>4, <1>5

(* A failed save takes the change back, and nothing is sure. *)
LEMMA OptFailedInv ==
  ASSUME OptionsInv, NEW c \in DOMAIN optCall, PersistFailed(c)
  PROVE  OptionsInv'
<1> USE DEF OptionsInv
<1> DEFINE x == optCall[c]
           s == x.srv
<1>1. /\ x # Resting /\ x.pc = "saving" /\ IsCall(Needed, c, x)
      /\ optKey' \in {optKey, x.snap} /\ ~sure'
      /\ optOf' = [optOf EXCEPT ![s] = takenBack(@, x)]
      /\ UNCHANGED <<optLeader, dropped>>
      /\ DOMAIN optCall' = DOMAIN optCall /\ optCall'[c] = Resting
      /\ \A d \in DOMAIN optCall \ {c} : optCall'[d] = optCall[d]
  BY DEF OptTypes, PersistFailed
<1>2. Needed' = Needed /\ IsOpt(Needed, x.snap) /\ s \in OptServer
  BY <1>1 DEF Needed, IsCall
<1>3. IsOpt(Needed, takenBack(optOf[s], x))
  <2>1. IsOpt(Needed, optOf[s])
    BY <1>2 DEF OptTypes
  <2> QED
    BY <1>1, <2>1, TakenBackOpt
<1>4. /\ DOMAIN optOf' = OptServer /\ optOf'[s] = takenBack(optOf[s], x)
      /\ \A t \in OptServer : t # s => optOf'[t] = optOf[t]
  BY <1>1, <1>2 DEF OptTypes
<1>5. OptTypes'
  <2>1. \A d \in DOMAIN optCall : IsCall(Needed, d, optCall'[d])
    BY <1>1 DEF OptTypes, IsCall
  <2>2. \A t \in OptServer : IsOpt(Needed, optOf'[t])
    BY <1>3, <1>4 DEF OptTypes
  <2>3. optKey' = NoConfig \/ IsOpt(Needed, optKey')
    BY <1>1, <1>2 DEF OptTypes
  <2> QED
    BY <1>1, <1>2, <1>4, <2>1, <2>2, <2>3 DEF OptTypes
<1>6. AloneInv'
  BY <1>1 DEF AloneInv
<1>7. SnapInv'
  <2> SUFFICES ASSUME NEW d \in DOMAIN optCall,
                      optCall'[d] # Resting, optCall'[d].pc = "saving", optCall'[d].alone
               PROVE  FALSE
    BY <1>1 DEF SnapInv
  <2> QED
    BY <1>1 DEF AloneInv
<1>8. RestoredInv'
  BY <1>1 DEF RestoredInv
<1> QED
  BY <1>5, <1>6, <1>7, <1>8

(* run() stores its clone without the schedulers that could not be added.  *)
(* One of the configuration file is among them only if it runs already.    *)
LEMMA RunStoreInv ==
  ASSUME OptionsInv, NEW s \in OptServer, RunStore(s)
  PROVE  OptionsInv'
<1> DEFINE x == optCall[s]
           cfg == x.arg
           on == IF s = optLeader THEN schedulersOn ELSE {}
           valid(e) == Registered(s, e.type) /\ nameOf(e.type) \notin on
           stay == {i \in DOMAIN cfg.scheds : cfg.scheds[i].off \/ valid(cfg.scheds[i])}
           l == picked(cfg.scheds, stay)
           part == [cfg EXCEPT !.scheds = l]
           new == [x EXCEPT !.pc = "stored", !.arg = NoConfig]
<1>1. /\ s \in DOMAIN optCall /\ x # Resting /\ x.pc = "clone" /\ IsCall(Needed, s, x)
      /\ dropped \in BOOLEAN /\ DOMAIN optOf = OptServer
      /\ \A t \in OptServer : IsOpt(Needed, optOf[t])
  BY DEF OptionsInv, OptTypes, RunStore
<1>2. /\ x.srv = s /\ x.op = "none" /\ IsScheduleCfg(Needed, cfg)
      /\ DOMAIN x = {"pc", "srv", "alone", "op", "arg", "snap"}
  BY <1>1 DEF IsCall
<1>3. /\ optOf' = [optOf EXCEPT ![s] = patched(optOf[s], part)]
      /\ dropped' = (dropped \/ \E e \in Entries(cfg.scheds) :
                        ~e.off /\ nameOf(e.type) \in on)
      /\ optCall' = [optCall EXCEPT ![s] = new]
      /\ UNCHANGED <<optKey, optLeader, sure, fresh>>
  BY DEF RunStore
<1>4. dropped' \in BOOLEAN /\ (dropped => dropped') /\ Needed' \subseteq Needed
  BY <1>1, <1>3 DEF Needed
<1>5. l \in List(Needed')
  <2>1. cfg.scheds \in List(Needed) /\ stay \in SUBSET DOMAIN cfg.scheds
    BY <1>2 DEF IsScheduleCfg
  <2>2. l \in List({}) /\ Types(l) = {cfg.scheds[i].type : i \in stay}
    <3> HIDE DEF stay
    <3> QED
      BY <2>1, PickedList
  <2>3. ASSUME NEW tp \in Needed' PROVE \E i \in stay : cfg.scheds[i].type = tp
    <3>1. ~dropped' /\ tp \in DefaultTypes /\ tp \in Needed
      BY <1>4, <2>3 DEF Needed
    <3>2. PICK i \in DOMAIN cfg.scheds : cfg.scheds[i].type = tp
      BY <2>1, <3>1 DEF List, Types
    <3>3. cfg.scheds[i] \in Entries(cfg.scheds)
      BY DEF Entries
    <3>4. cfg.scheds[i].off \/ nameOf(tp) \notin on
      BY <1>3, <3>1, <3>2, <3>3
    <3>5. tp # UserType
      BY <3>1, SchedShape
    <3>6. Registered(s, tp)
      BY <3>5 DEF Registered
    <3> QED
      BY <3>2, <3>4, <3>6
  <2> HIDE DEF l, stay
  <2> QED
    BY <2>2, <2>3 DEF List
<1> HIDE DEF l
<1>6. IsCfg(Needed', part)
  BY <1>2, <1>5 DEF IsScheduleCfg, IsCfg
<1> HIDE DEF part
<1>7. IsOpt(Needed', patched(optOf[s], part))
  <2>1. IsOpt(Needed', optOf[s])
    BY <1>1, <1>4, FewerNeededOpt
  <2> QED
    BY <1>6, <2>1, PatchedOpt
<1>8. /\ new.pc = "stored" /\ new.srv = s /\ new.op = x.op
      /\ new.alone = x.alone /\ DOMAIN new = DOMAIN x
  BY <1>2
<1> HIDE DEF new
<1>9. new # Resting /\ IsCall(Needed', s, new)
  BY <1>2, <1>8 DEF Resting, IsCall
<1>10. /\ DOMAIN optOf' = OptServer /\ optOf'[s] = patched(optOf[s], part)
       /\ \A t \in OptServer : t # s => optOf'[t] = optOf[t]
  BY <1>1, <1>3
<1> HIDE DEF cfg, on, stay
<1> QED
  BY <1>1, <1>2, <1>3, <1>4, <1>7, <1>8, <1>9, <1>10, OptCallStepInv

(* The plugin's schedulers are not compared. *)
LEMMA LoadPluginInv ==
  ASSUME OptionsInv, LoadPlugin
  PROVE  OptionsInv'
<1> USE DEF OptionsInv
<1> DEFINE s == optLeader
           l == AddSchedulerCfg(optOf[s].scheds, UserType)
           new == [optOf[s] EXCEPT !.scheds = l]
<1>1. /\ s \in OptServer /\ IsOpt(Needed, optOf[s]) /\ Needed' = Needed
      /\ UNCHANGED <<optKey, optLeader, optCall, sure, fresh, dropped>>
  BY OptionsAssumption DEF LoadPlugin, OptTypes, Needed
<1>2. /\ DOMAIN optOf' = OptServer /\ optOf'[s] = new
      /\ \A t \in OptServer : t # s => optOf'[t] = optOf[t]
  BY <1>1 DEF LoadPlugin, OptTypes
<1>3. l \in List(Needed) /\ ofServer(l) = ofServer(optOf[s].scheds)
  BY <1>1, AddList DEF IsOpt, SchedType
<1> HIDE DEF l
<1>4. IsOpt(Needed, new)
  BY <1>1, <1>3 DEF IsOpt
<1>5. /\ new.scheds = l /\ new.limit = optOf[s].limit /\ new.rep = optOf[s].rep
      /\ new.ns = optOf[s].ns /\ new.labels = optOf[s].labels
  BY <1>1 DEF IsOpt
<1> HIDE DEF new
<1>6. OptTypes'
  <2>1. \A t \in OptServer : IsOpt(Needed, optOf'[t])
    BY <1>2, <1>4 DEF OptTypes
  <2> QED
    BY <1>1, <1>2, <2>1 DEF OptTypes
<1>7. AloneInv'
  BY <1>1 DEF AloneInv
<1>8. \A o : /\ Similar(optOf[s], o) => Similar(new, o)
             /\ Covers(optOf[s], o) => Covers(new, o)
             /\ Covers(o, optOf[s]) => Covers(o, new)
  BY <1>3, <1>5 DEF Similar, Covers
<1>9. SnapInv'
  <2> SUFFICES ASSUME NEW d \in DOMAIN optCall,
                      optCall[d] # Resting, optCall[d].pc = "saving", optCall[d].alone
               PROVE  Similar(optOf'[optCall[d].srv], optCall[d].snap)
    BY <1>1 DEF SnapInv
  <2>1. optCall[d].srv \in OptServer /\ Similar(optOf[optCall[d].srv], optCall[d].snap)
    BY DEF SnapInv, OptTypes, IsCall
  <2> QED
    BY <1>2, <1>8, <2>1
<1>10. RestoredInv'
  BY <1>1, <1>2, <1>8 DEF RestoredInv, Clean
<1> QED
  BY <1>6, <1>7, <1>9, <1>10

(* Every step keeps the invariant. *)
LEMMA OptionsStep == OptionsInv /\ [OptionsNext]_optVars => OptionsInv'
<1> SUFFICES ASSUME OptionsInv, [OptionsNext]_optVars PROVE OptionsInv'
  OBVIOUS
<1>1. ASSUME NEW s \in OptServer,
             ElectOptions(s) \/ FollowOptions(s) \/ RestartOptions(s)
             \/ RunLoad(s) \/ RunStore(s)
      PROVE  OptionsInv'
  BY <1>1, OptElectInv, OptFollowInv, OptRestartInv, RunLoadInv, RunStoreInv
<1>2. CASE ResignOptions
  BY <1>2, OptResignInv
<1>3. CASE LoadPlugin
  BY <1>3, LoadPluginInv
<1>4. ASSUME NEW c \in OptCaller, NEW v \in OptValue,
             SetScheduleRead(c, v) \/ SetReplicationRead(c, v)
      PROVE  OptionsInv'
  BY <1>4, OptReadInv
<1>5. ASSUME NEW c \in OptCaller, SetConfigStore(c) PROVE OptionsInv'
  BY <1>5, SetConfigStoreInv
<1>6. ASSUME NEW c \in OptCaller,
             \/ \E n \in OptNs, v \in OptValue \union {0} : SetNamespaceConfig(c, n, v)
             \/ \E l \in OptLabel, add \in BOOLEAN : LabelProperty(c, l, add)
             \/ \E tp \in OtherScheduler \union DefaultTypes :
                  AddSchedulerConfig(c, tp) \/ RemoveSchedulerConfig(c, tp)
      PROVE  OptionsInv'
  BY <1>6, OptChangesInv
<1>7. ASSUME NEW c \in DOMAIN optCall,
             PersistSnapshot(c) \/ PersistSaved(c) \/ PersistFailed(c)
      PROVE  OptionsInv'
  BY <1>7, OptSnapshotInv, OptSavedInv, OptFailedInv
<1>8. CASE UNCHANGED optVars
  BY <1>8 DEF optVars, OptionsInv, OptTypes, AloneInv, SnapInv, RestoredInv, Clean, Needed
<1> QED
  BY <1>1, <1>2, <1>3, <1>4, <1>5, <1>6, <1>7, <1>8 DEF OptionsNext, DefaultTypes

(* What a call has changed and saved stays in force through elections,     *)
(* reloads and restarts, whatever the callers, servers and schedulers, and *)
(* whichever saves fail (OptionsRestored): a leader schedules by the saved *)
(* options, and one that held nothing else by them exactly.                *)
THEOREM OptionsStayRestored == OptionsSpec => []OptionsRestored
<1>1. OptionsInv => OptionsRestored
  BY DEF OptionsInv, RestoredInv, Clean, OptionsRestored
<1> QED
  BY <1>1, OptionsInitInv, OptionsStep, PTL DEF OptionsSpec
=============================================================================
