----------------------------- MODULE Namespaces -----------------------------
(***************************************************************************)
(* The table namespaces (table/namespace_classifier.go): a namespace binds *)
(* tables, and the meta data, to stores.  The classifier keeps the         *)
(* namespaces in memory under its lock and in etcd under their IDs.  A     *)
(* handler changes the cached namespace in place and saves it then, so     *)
(* that a failed save leaves the change in memory.  A new leader loads     *)
(* everything from etcd.                                                   *)
(***************************************************************************)
EXTENDS Integers, FiniteSets

CONSTANTS NsName,        \* names that requests give, all of them words
          NsTable,       \* table IDs that requests give: any int64, 0 too
          NsStore,       \* store IDs
          MaxNsID,       \* bound: IDs of namespaces
          MaxNsOps,      \* bound: calls
          MaxNsFaults    \* bound: failed saves

ASSUME NamespacesAssumption ==
  /\ NsTable \subseteq Int
  /\ MaxNsID \in Nat /\ MaxNsOps \in Nat /\ MaxNsFaults \in Nat

VARIABLES nsInfo,        \* memory: the namespace of each name
          nsKey,         \* etcd: the namespace of each ID
          nsNextID,      \* what idAlloc returns next
          nsOps, nsFaults,
          nsAhead,       \* a save has failed: memory may be ahead of etcd
          nsMixed        \* such an etcd has been loaded

nsVars == <<nsInfo, nsKey, nsNextID, nsOps, nsFaults, nsAhead, nsMixed>>

DefaultNamespace == "global"
NoNs == [id |-> 0]
NewNamespace(id, name) ==
  [id |-> id, name |-> name, tables |-> {}, stores |-> {}, meta |-> FALSE]

getNamespaces == {n \in NsName : nsInfo[n] # NoNs}
(* Mutant: the loop returns at the first namespace it meets.               *)
InFirst(t) == t \in nsInfo[CHOOSE n \in getNamespaces : TRUE].tables
isTableIDExist(t) == \E n \in getNamespaces : t \in nsInfo[n].tables
isStoreIDExist(s) == \E n \in getNamespaces : s \in nsInfo[n].stores
isMetaExist == \E n \in getNamespaces : nsInfo[n].meta

(* loadNamespaces reads the keys in the order of the IDs and files each    *)
(* namespace under its name: of two with one name the later stays.         *)
loadNamespaces ==
  [n \in NsName |->
     LET ids == {i \in 1..MaxNsID : nsKey[i] # NoNs /\ nsKey[i].name = n}
     IN IF ids = {} THEN NoNs
        ELSE nsKey[CHOOSE i \in ids : \A j \in ids : j <= i]]

(* What the classifier answers: it takes the first match of a Go map, so   *)
(* any match may come out.                                                 *)
orDefault(names) == IF names = {} THEN {DefaultNamespace} ELSE names
GetStoreNamespace(s) ==
  orDefault({n \in getNamespaces : s \in nsInfo[n].stores})
(* The start key of a region, decoded: <<isMeta, tableID>>, 0 for no       *)
(* table, so that a namespace with table 0 also matches the meta key.      *)
StartKey == {[kind |-> "meta"], [kind |-> "raw"]} \union
            [kind : {"table"}, id : NsTable]
MetaOrTable(key) ==
  <<key.kind = "meta", IF key.kind = "table" THEN key.id ELSE 0>>
GetRegionNamespace(key) ==
  LET kt == MetaOrTable(key)
  IN IF kt[2] = 0 /\ ~kt[1] THEN {DefaultNamespace}
     ELSE orDefault({n \in getNamespaces :
                       \/ kt[2] \in nsInfo[n].tables
                       \/ kt[1] /\ nsInfo[n].meta})

NamespacesInit ==
  /\ nsInfo = [n \in NsName |-> NoNs]
  /\ nsKey = [i \in 1..MaxNsID |-> NoNs]
  /\ nsNextID = 1 /\ nsOps = 0 /\ nsFaults = 0
  /\ nsAhead = FALSE /\ nsMixed = FALSE

(* saveNamespace: the write succeeds, or an error comes back from a write  *)
(* that was or was not applied.                                            *)
saveNamespace(ns, ok) ==
  /\ \/ nsKey' = [nsKey EXCEPT ![ns.id] = ns]
     \/ ~ok /\ nsKey' = nsKey
  /\ nsAhead' = (nsAhead \/ ~ok)
  /\ nsFaults' = IF ok THEN nsFaults ELSE nsFaults + 1
  /\ UNCHANGED nsMixed
MaySave(ok) == /\ nsOps < MaxNsOps /\ nsOps' = nsOps + 1
               /\ ok \/ nsFaults < MaxNsFaults

(* A refused request changes nothing: those of CreateNamespace are the     *)
(* conjuncts on the name.                                                  *)
CreateNamespace(name, ok) ==
  /\ MaySave(ok)
  /\ name # DefaultNamespace
  /\ nsInfo[name] = NoNs
  /\ nsNextID <= MaxNsID
  /\ nsNextID' = nsNextID + 1
  /\ LET ns == NewNamespace(nsNextID, name)
     IN /\ saveNamespace(ns, ok)
        /\ nsInfo' = IF ok THEN [nsInfo EXCEPT ![name] = ns] ELSE nsInfo

(* putNamespaceLocked of a namespace that is already changed in memory.    *)
putChanged(name, ns, ok) ==
  /\ MaySave(ok)
  /\ nsInfo' = [nsInfo EXCEPT ![name] = ns]
  /\ saveNamespace(ns, ok)
  /\ UNCHANGED nsNextID

AddNamespaceTableID(name, t, ok) ==
  /\ nsInfo[name] # NoNs
  /\ ~isTableIDExist(t)
  /\ putChanged(name, [nsInfo[name] EXCEPT !.tables = @ \union {t}], ok)

RemoveNamespaceTableID(name, t, ok) ==
  /\ nsInfo[name] # NoNs
  /\ t \in nsInfo[name].tables
  /\ putChanged(name, [nsInfo[name] EXCEPT !.tables = @ \ {t}], ok)

AddMetaToNamespace(name, ok) ==
  /\ nsInfo[name] # NoNs
  /\ ~isMetaExist
  /\ putChanged(name, [nsInfo[name] EXCEPT !.meta = TRUE], ok)

RemoveMeta(name, ok) ==
  /\ nsInfo[name] # NoNs
  /\ nsInfo[name].meta
  /\ putChanged(name, [nsInfo[name] EXCEPT !.meta = FALSE], ok)

AddNamespaceStoreID(name, s, ok) ==
  /\ nsInfo[name] # NoNs
  /\ ~isStoreIDExist(s)
  /\ putChanged(name, [nsInfo[name] EXCEPT !.stores = @ \union {s}], ok)

RemoveNamespaceStoreID(name, s, ok) ==
  /\ nsInfo[name] # NoNs
  /\ s \in nsInfo[name].stores
  /\ putChanged(name, [nsInfo[name] EXCEPT !.stores = @ \ {s}], ok)

(* The classifier of a server that becomes the leader.                     *)
ReloadNamespaces ==
  /\ nsInfo' = loadNamespaces
  /\ nsMixed' = nsAhead
  /\ UNCHANGED <<nsKey, nsNextID, nsOps, nsFaults, nsAhead>>

NamespacesNext ==
  \/ \E n \in NsName, ok \in BOOLEAN :
       \/ CreateNamespace(n, ok)
       \/ \E t \in NsTable : \/ AddNamespaceTableID(n, t, ok)
                             \/ RemoveNamespaceTableID(n, t, ok)
       \/ \E s \in NsStore : \/ AddNamespaceStoreID(n, s, ok)
                             \/ RemoveNamespaceStoreID(n, s, ok)
       \/ AddMetaToNamespace(n, ok)
       \/ RemoveMeta(n, ok)
  \/ ReloadNamespaces

(* The meta key, whose table ID is 0, matches two namespaces: one that has *)
(* the meta data and one that was given table 0, which no handler refuses. *)
MetaClaimedTwice ==
  \E n, m \in getNamespaces : n # m /\ 0 \in nsInfo[n].tables /\ nsInfo[m].meta

(* A store, a table and the meta data have one namespace whatever the      *)
(* order in which Go's map is read, so that two schedulers never place the *)
(* same region by two namespaces; and what a new leader loads is what the  *)
(* old one answered from.  GetRegionNamespace fails this for one key, the  *)
(* meta key while table 0 and the meta data are in two namespaces.  Of the *)
(* rest, only a failed save, which leaves memory ahead of etcd, may cost   *)
(* it, and only once the etcd it left behind is loaded.                    *)
NamespacesExclusive ==
  /\ ~nsMixed =>
       /\ \A s \in NsStore : Cardinality(GetStoreNamespace(s)) = 1
       /\ \A k \in StartKey :
            \/ Cardinality(GetRegionNamespace(k)) = 1
            \/ k.kind = "meta" /\ MetaClaimedTwice
  /\ ~nsAhead => nsInfo = loadNamespaces
=============================================================================
