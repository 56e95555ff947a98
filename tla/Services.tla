------------------------------ MODULE Services ------------------------------
(***************************************************************************)
(* The services around the schedulers, each with a state of its own, run   *)
(* side by side for model checking: the ID allocator, the stores, the      *)
(* region syncer, the client library, the caches of pkg/cache, the table   *)
(* namespaces and the options.  They share no state, so a behaviour is a   *)
(* behaviour of one of them, chosen at the start, while the others rest in *)
(* their initial states.                                                   *)
(***************************************************************************)
EXTENDS IDAllocator, Stores, RegionSyncer, Client, Caches, Namespaces, Options

CONSTANT Parts      \* the services to run

VARIABLE part       \* the one that runs

serviceVars == <<part, vars, storesVars, syncVars, clientVars, cacheSystem,
                 nsVars, optVars>>

idRests == UNCHANGED vars
storesRest == UNCHANGED storesVars
syncRests == UNCHANGED syncVars
clientRests == UNCHANGED clientVars
cachesRest == UNCHANGED cacheSystem
nsRests == UNCHANGED nsVars
optRests == UNCHANGED optVars

ServicesInit ==
  /\ part \in Parts
  /\ Init /\ StoresInit /\ SyncInit /\ ClientInit /\ CachesInit
  /\ NamespacesInit /\ OptionsInit

ServicesNext ==
  /\ UNCHANGED part
  /\ \/ /\ part = "id" /\ Next
        /\ storesRest /\ syncRests /\ clientRests /\ cachesRest /\ nsRests
        /\ optRests
     \/ /\ part = "stores" /\ StoresNext
        /\ idRests /\ syncRests /\ clientRests /\ cachesRest /\ nsRests
        /\ optRests
     \/ /\ part = "sync" /\ SyncNext
        /\ idRests /\ storesRest /\ clientRests /\ cachesRest /\ nsRests
        /\ optRests
     \/ /\ part = "client" /\ ClientNext
        /\ idRests /\ storesRest /\ syncRests /\ cachesRest /\ nsRests
        /\ optRests
     \/ /\ part = "caches" /\ CachesNext
        /\ idRests /\ storesRest /\ syncRests /\ clientRests /\ nsRests
        /\ optRests
     \/ /\ part = "namespaces" /\ NamespacesNext
        /\ idRests /\ storesRest /\ syncRests /\ clientRests /\ cachesRest
        /\ optRests
     \/ /\ part = "options" /\ OptionsNext
        /\ idRests /\ storesRest /\ syncRests /\ clientRests /\ cachesRest
        /\ nsRests

(* The handlers of the stores run on and the background job ticks.         *)
StoresFairness ==
  /\ \A c \in Actor : WF_storesVars(part = "stores" /\ putStoreLocked(c))
  /\ \A s \in StoreID : WF_storesVars(part = "stores" /\ checkStores(s))
  /\ WF_storesVars(part = "stores" /\ checkStoresBury)

(* The goroutines of the client run: tsLoop, the one that takes deadlines, *)
(* and a deadline's timer, which fires unless its batch is answered first. *)
ClientFairness ==
  /\ WF_clientVars(part = "client" /\ CreateStream) /\ WF_clientVars(part = "client" /\ TakeRequests)
  /\ WF_clientVars(part = "client" /\ SetDeadline)
  /\ WF_clientVars(part = "client" /\ processTSORequests)
  /\ WF_clientVars(part = "client" /\ processError)
  /\ WF_clientVars(part = "client" /\ TakeDeadline)
  /\ WF_clientVars(part = "client" /\ (DeadlineDone \/ DeadlineTimer))

ServicesSpec == /\ ServicesInit /\ [][ServicesNext]_serviceVars
                /\ StoresFairness /\ ClientFairness

-----------------------------------------------------------------------------
\* The instance of services.cfg and store_transitions.cfg.

Store(i, a, v, l) ==
  [id |-> i, addr |-> a, version |-> v, label |-> l, state |-> "Up"]
(* Two stores race to bootstrap the cluster; a third request, whose region *)
(* has its peer on the other store, is turned away.                        *)
MCBoot == {[store |-> Store(1, "a", 20, ""), peerStore |-> 1],
           [store |-> Store(2, "b", 20, ""), peerStore |-> 2],
           [store |-> Store(2, "b", 20, ""), peerStore |-> 1]}
(* Store 1 comes back with store 2's address, a version and a label.       *)
MCPut == {Store(1, "b", 30, "z"), Store(2, "b", 20, "")}
MCDefaults == <<"balance">>
=============================================================================
