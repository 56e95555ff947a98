------------------------------ MODULE Options -------------------------------
(***************************************************************************)
(* The options of the cluster (server/option.go, config.go): schedule and  *)
(* replication configuration, the configuration of namespaces, label       *)
(* properties, and the list of schedulers.  A handler of the leader        *)
(* changes the options in memory, saves all of them in one etcd key and    *)
(* takes its change back if that fails; no lock covers the three steps.    *)
(* A server reloads the options when it is elected and when it starts to   *)
(* follow a leader, and the coordinator rewrites the list of schedulers    *)
(* when it starts.                                                         *)
(***************************************************************************)
EXTENDS Integers, Sequences, FiniteSets

CONSTANTS OptServer,     \* the PD servers
          PluginServer,  \* those that find the user's plugin
          OptCaller,     \* the HTTP handlers of the leader
          defaultSchedulers,  \* types of the configuration file, a sequence
          OtherScheduler,     \* registered types that it does not list
          OptValue,      \* values of a limit, positive
          OptNs,         \* namespaces with a configuration of their own
          OptLabel,      \* label properties of the one type reject-leader
          SavedBefore,   \* the cluster has run before
          MaxOptOps,     \* bound: calls
          MaxTerms,      \* bound: elections
          MaxOptFaults   \* bound: failed saves and restarts

(* No scheduler is listed twice, and the user's schedulers are the         *)
(* plugin's.                                                               *)
ASSUME OptionsAssumption ==
  /\ defaultSchedulers \in Seq(STRING)
  /\ \A i, j \in DOMAIN defaultSchedulers :
       defaultSchedulers[i] = defaultSchedulers[j] => i = j
  /\ \A i \in DOMAIN defaultSchedulers :
       defaultSchedulers[i] \notin OtherScheduler \union {"user"}
  /\ "user" \notin OtherScheduler
  /\ OptValue \subseteq Nat \ {0} /\ SavedBefore \in BOOLEAN
  /\ SavedBefore => OtherScheduler # {} /\ OptValue # {}
  /\ "none" \notin OptServer /\ PluginServer \subseteq OptServer

VARIABLES optOf,         \* memory: the options of each server
          optKey,        \* etcd: the saved options
          optLeader,     \* the leader, or NoServer
          plugin,        \* the servers that have loaded the user's plugin
          schedulersOn,  \* the schedulers that the coordinator runs
          coordinator,   \* off, preparing, on
          optCall,       \* where each handler stands, and the run() of the
                         \* coordinator of each server
          optOps, terms, optFaults,
          sure,          \* the last save succeeded and overlapped no call
          fresh,         \* the leader held nothing of an earlier term
          dropped        \* run() has dropped a scheduler that exists

optVars == <<optOf, optKey, optLeader, plugin, schedulersOn, coordinator,
             optCall, optOps, terms, optFaults, sure, fresh, dropped>>

NoServer == "none"
NoConfig == [limit |-> 0]
UserType == "user"       \* move-leader-user, move-region-user
Resting == [pc |-> "idle"]

IsDefaultScheduler(tp) ==
  \E i \in DOMAIN defaultSchedulers : defaultSchedulers[i] = tp
(* Only a loaded plugin registers the types of the user's schedulers.      *)
Registered(s, tp) == tp # UserType \/ s \in plugin
(* CreateScheduler gives a user's scheduler no name.                       *)
nameOf(tp) == IF tp = UserType THEN "" ELSE tp

Entry(tp, off) == [type |-> tp, off |-> off]
Entries(list) == {list[i] : i \in DOMAIN list}
At(list, tp) == {i \in DOMAIN list : list[i].type = tp}
(* The entries at the places of a set, in their order.                     *)
picked(list, places) ==
  LET rank(i) == Cardinality({j \in places : j <= i})
  IN [k \in 1 .. Cardinality(places) |-> list[CHOOSE i \in places : rank(i) = k]]

(* The options that come from the configuration file.                      *)
newScheduleOption ==
  [scheds |-> [i \in DOMAIN defaultSchedulers |->
               Entry(defaultSchedulers[i], FALSE)],
   limit |-> 1, rep |-> 1,
   ns |-> [n \in OptNs |-> 0], labels |-> {}]

AddSchedulerCfg(list, tp) ==
  IF At(list, tp) = {} THEN Append(list, Entry(tp, FALSE))
  ELSE [i \in DOMAIN list |->
          IF list[i].type = tp THEN Entry(tp, FALSE) ELSE list[i]]

without(list, i) ==
  [j \in 1..(Len(list) - 1) |-> IF j < i THEN list[j] ELSE list[j + 1]]
(* Mutant: a default scheduler is dropped from the list like any other.    *)
Dropped(list, i) == without(list, i)
removedAt(list, i) ==
  IF IsDefaultScheduler(list[i].type)
  THEN [list EXCEPT ![i] = Entry(@.type, TRUE)]
  ELSE without(list, i)
(* RemoveSchedulerCfg creates the schedulers of the list one after the     *)
(* other to learn their names: it fails at a type that is not registered.  *)
StopsAt(s, list, name) ==
  {i \in DOMAIN list : ~Registered(s, list[i].type)
                       \/ nameOf(list[i].type) = name}
FirstOf(S) == CHOOSE i \in S : \A j \in S : i <= j
RemoveSchedulerErr(s, list, name) ==
  /\ StopsAt(s, list, name) # {}
  /\ ~Registered(s, list[FirstOf(StopsAt(s, list, name))].type)
RemoveSchedulerCfg(s, list, name) ==
  IF StopsAt(s, list, name) = {} THEN list
  ELSE removedAt(list, FirstOf(StopsAt(s, list, name)))

(* The schedulers in memory keep their places and take the saved flag;     *)
(* saved ones that memory does not have follow.                            *)
adjustScheduleCfg(list, saved) ==
  [i \in DOMAIN list |->
     IF At(saved, list[i].type) = {} THEN list[i]
     ELSE saved[FirstOf(At(saved, list[i].type))]]
  \o picked(saved, {i \in DOMAIN saved : At(list, saved[i].type) = {}})

(* Unmarshal writes into the maps of memory: what they hold and the saved  *)
(* options do not have stays.                                              *)
reload(mem) ==
  IF optKey = NoConfig THEN mem
  ELSE [scheds |-> adjustScheduleCfg(mem.scheds, optKey.scheds),
        limit |-> optKey.limit, rep |-> optKey.rep,
        ns |-> [n \in OptNs |-> IF optKey.ns[n] = 0 THEN mem.ns[n]
                                ELSE optKey.ns[n]],
        labels |-> IF optKey.labels = {} THEN mem.labels ELSE optKey.labels]

(* What an earlier life of the cluster may have saved: a scheduler added,  *)
(* the namespaces configured.                                              *)
Earlier ==
  [newScheduleOption EXCEPT
     !.scheds = Append(@, Entry(CHOOSE tp \in OtherScheduler : TRUE, FALSE)),
     !.ns = [n \in OptNs |-> CHOOSE v \in OptValue : TRUE]]

(* All servers start, of a new cluster or of one that has run before.      *)
OptionsInit ==
  /\ optOf = [s \in OptServer |-> newScheduleOption]
  /\ optKey = (IF SavedBefore THEN Earlier ELSE NoConfig)
  /\ optLeader = NoServer
  /\ plugin = {} /\ schedulersOn = {} /\ coordinator = "off"
  /\ optCall = [c \in OptCaller \union OptServer |-> Resting]
  /\ optOps = 0 /\ terms = 0 /\ optFaults = 0
  /\ sure = SavedBefore /\ fresh = FALSE /\ dropped = FALSE

------------------------------------------------------------------------------
\* Leadership.

(* Of the calls that stand in the middle of server s's options none is     *)
(* alone any more when these are reloaded.                                 *)
disturbed(s) ==
  [c \in DOMAIN optCall |->
     IF optCall[c] # Resting /\ optCall[c].srv = s
     THEN [optCall[c] EXCEPT !.alone = FALSE] ELSE optCall[c]]

(* campaignLeader: reloadConfigFromKV, then the cluster and its            *)
(* coordinator are started.                                                *)
ElectOptions(s) ==
  /\ optLeader = NoServer /\ terms < MaxTerms
  /\ optCall[s] = Resting         \* stopRaftCluster has waited for run()
  /\ terms' = terms + 1
  /\ optLeader' = s
  /\ optOf' = [optOf EXCEPT ![s] = reload(@)]
  /\ optCall' = disturbed(s)
  /\ fresh' = (optOf[s] = newScheduleOption)
  /\ coordinator' = "preparing" /\ schedulersOn' = {}
  /\ UNCHANGED <<optKey, plugin, optOps, optFaults, sure, dropped>>

(* watchLeader of a follower.                                              *)
FollowOptions(s) ==
  /\ optLeader \notin {NoServer, s}
  /\ optOf' = [optOf EXCEPT ![s] = reload(@)]
  /\ optCall' = disturbed(s)
  /\ UNCHANGED <<optKey, optLeader, plugin, schedulersOn, coordinator, optOps,
                 terms, optFaults, sure, fresh, dropped>>

(* The leader resigns or loses its lease.  Handlers, and run(), go on.     *)
ResignOptions ==
  /\ optLeader # NoServer
  /\ optLeader' = NoServer
  /\ coordinator' = "off" /\ schedulersOn' = {}
  /\ UNCHANGED <<optOf, optKey, plugin, optCall, optOps, terms, optFaults,
                 sure, fresh, dropped>>

RestartOptions(s) ==
  /\ optFaults < MaxOptFaults /\ optFaults' = optFaults + 1
  /\ optOf' = [optOf EXCEPT ![s] = newScheduleOption]
  /\ plugin' = plugin \ {s}
  /\ optCall' = [c \in DOMAIN optCall |->
                   IF optCall[c] # Resting /\ optCall[c].srv = s
                   THEN Resting ELSE optCall[c]]
  /\ IF s = optLeader
     THEN /\ optLeader' = NoServer /\ coordinator' = "off"
          /\ schedulersOn' = {}
     ELSE UNCHANGED <<optLeader, coordinator, schedulersOn>>
  /\ UNCHANGED <<optKey, optOps, terms, sure, fresh, dropped>>

------------------------------------------------------------------------------
\* The steps of a call.  op says how it takes its change back, arg holds what
\* it has read or what it would restore, snap what it saves.

begin(c, s, pc, op, arg) ==
  LET others == {d \in DOMAIN optCall \ {c} : optCall[d] # Resting}
  IN optCall' = [d \in DOMAIN optCall |->
       IF d = c THEN [pc |-> pc, srv |-> s, alone |-> others = {},
                      op |-> op, arg |-> arg, snap |-> NoConfig]
       ELSE IF d \in others THEN [optCall[d] EXCEPT !.alone = FALSE]
       ELSE Resting]

MayCall(c) == /\ optLeader # NoServer /\ optCall[c] = Resting
              /\ optOps < MaxOptOps /\ optOps' = optOps + 1
MyOpt == optOf[optLeader]
onlyOpt == UNCHANGED <<optKey, optLeader, plugin, coordinator, terms,
                       optFaults, sure, fresh, dropped>>

(* SetSchedule and SetReplication of the API: the handler reads the whole  *)
(* part of the options that its request is applied to ...                  *)
SetScheduleRead(c, v) ==
  /\ MayCall(c)
  /\ begin(c, optLeader, "read", "restore", [scheds |-> MyOpt.scheds, limit |-> v])
  /\ UNCHANGED <<optOf, schedulersOn>> /\ onlyOpt
SetReplicationRead(c, v) ==
  /\ MayCall(c)
  /\ begin(c, optLeader, "read", "restore", [rep |-> v])
  /\ UNCHANGED <<optOf, schedulersOn>> /\ onlyOpt

(* ... and SetScheduleConfig, SetReplicationConfig store the result, after *)
(* validate has looked for types that are not registered.                  *)
patched(opt, cfg) == [f \in DOMAIN opt |-> IF f \in DOMAIN cfg THEN cfg[f] ELSE opt[f]]
validate(s, cfg) ==
  "scheds" \in DOMAIN cfg => \A e \in Entries(cfg.scheds) : Registered(s, e.type)
SetConfigStore(c) ==
  /\ optCall[c] # Resting /\ optCall[c].pc = "read"
  /\ LET s == optCall[c].srv
         cfg == optCall[c].arg
         old == [f \in DOMAIN cfg |-> optOf[s][f]]
     IN IF validate(s, cfg)
        THEN /\ optOf' = [optOf EXCEPT ![s] = patched(@, cfg)]
             /\ optCall' = [optCall EXCEPT ![c] =
                              [optCall[c] EXCEPT !.pc = "stored", !.arg = old]]
        ELSE /\ optCall' = [optCall EXCEPT ![c] = Resting]
             /\ UNCHANGED optOf
  /\ UNCHANGED <<schedulersOn, optOps>> /\ onlyOpt

(* A call that stores without reading first.                               *)
store(c, opt, op, arg) ==
  /\ MayCall(c)
  /\ optOf' = [optOf EXCEPT ![optLeader] = opt]
  /\ begin(c, optLeader, "stored", op, arg)
  /\ onlyOpt

(* SetNamespaceConfig, and DeleteNamespaceConfig for v = 0, of which the   *)
(* latter returns at once for a namespace without a configuration.         *)
SetNamespaceConfig(c, n, v) ==
  /\ optLeader # NoServer
  /\ v = 0 => MyOpt.ns[n] # 0
  /\ store(c, [MyOpt EXCEPT !.ns[n] = v],
           "ns", [name |-> n, old |-> MyOpt.ns[n]])
  /\ UNCHANGED schedulersOn

SetLabelProperty(labels, l) == labels \union {l}
DeleteLabelProperty(labels, l) == labels \ {l}
LabelProperty(c, l, add) ==
  /\ optLeader # NoServer
  /\ store(c, [MyOpt EXCEPT !.labels = IF add THEN SetLabelProperty(@, l)
                                       ELSE DeleteLabelProperty(@, l)],
           IF add THEN "unlabel" ELSE "label", l)
  /\ UNCHANGED schedulersOn

(* Handler.AddScheduler and RemoveScheduler take nothing back.             *)
AddSchedulerConfig(c, tp) ==
  /\ optLeader # NoServer
  /\ tp \notin schedulersOn
  /\ schedulersOn' = schedulersOn \union {tp}
  /\ store(c, [MyOpt EXCEPT !.scheds = AddSchedulerCfg(@, tp)],
           "none", NoConfig)
RemoveSchedulerConfig(c, name) ==
  /\ optLeader # NoServer
  /\ name \in schedulersOn
  /\ schedulersOn' = schedulersOn \ {name}
  /\ IF RemoveSchedulerErr(optLeader, MyOpt.scheds, name)
     THEN MayCall(c) /\ onlyOpt /\ UNCHANGED <<optOf, optCall>>
     ELSE store(c, [MyOpt EXCEPT !.scheds =
                      RemoveSchedulerCfg(optLeader, @, name)],
                "none", NoConfig)

(* persist: the options are put together from memory and saved, in one     *)
(* write of the leader's.                                                  *)
PersistSnapshot(c) ==
  /\ optCall[c] # Resting /\ optCall[c].pc = "stored"
  /\ optCall' = [optCall EXCEPT ![c] =
                   [optCall[c] EXCEPT !.pc = "saving", !.snap = optOf[optCall[c].srv]]]
  /\ UNCHANGED <<optOf, schedulersOn, optOps>> /\ onlyOpt
PersistSaved(c) ==
  /\ optCall[c] # Resting /\ optCall[c].pc = "saving"
  /\ optLeader = optCall[c].srv
  /\ optKey' = optCall[c].snap
  /\ sure' = optCall[c].alone
  /\ fresh' = (fresh \/ optCall[c].alone)
  /\ optCall' = [optCall EXCEPT ![c] = Resting]
  /\ UNCHANGED <<optOf, optLeader, plugin, schedulersOn, coordinator, optOps,
                 terms, optFaults, dropped>>

(* What a call does about its change when the save has failed.             *)
takenBack(opt, call) ==
  CASE call.op = "restore" -> patched(opt, call.arg)
    [] call.op = "ns" -> [opt EXCEPT !.ns[call.arg.name] = call.arg.old]
    [] call.op = "label" ->
         [opt EXCEPT !.labels = SetLabelProperty(@, call.arg)]
    [] call.op = "unlabel" ->
         [opt EXCEPT !.labels = DeleteLabelProperty(@, call.arg)]
    [] call.op = "none" -> opt
(* A server that is not the leader cannot write; a write of the leader     *)
(* that reports an error may have been applied.                            *)
PersistFailed(c) ==
  /\ optCall[c] # Resting /\ optCall[c].pc = "saving"
  /\ IF optLeader = optCall[c].srv
     THEN /\ optFaults < MaxOptFaults /\ optFaults' = optFaults + 1
          /\ optKey' \in {optKey, optCall[c].snap}
     ELSE UNCHANGED <<optFaults, optKey>>
  /\ optOf' = [optOf EXCEPT ![optCall[c].srv] = takenBack(@, optCall[c])]
  /\ optCall' = [optCall EXCEPT ![c] = Resting]
  /\ sure' = FALSE
  /\ UNCHANGED <<optLeader, plugin, schedulersOn, coordinator, optOps, terms,
                 fresh, dropped>>

------------------------------------------------------------------------------
\* The coordinator.

(* run, once the cluster is prepared: the list is cloned, ...              *)
RunLoad(s) ==
  /\ s = optLeader /\ coordinator = "preparing" /\ optCall[s] = Resting
  /\ coordinator' = "starting"
  /\ begin(s, s, "clone", "none", [scheds |-> MyOpt.scheds, limit |-> MyOpt.limit])
  /\ UNCHANGED <<optOf, optKey, optLeader, plugin, schedulersOn, optOps, terms,
                 optFaults, sure, fresh, dropped>>
(* ... its schedulers are created and added, and the clone without those   *)
(* that failed is stored.  A scheduler that a handler has added meanwhile  *)
(* exists and fails, and so leaves the list although it runs.              *)
RunStore(s) ==
  /\ optCall[s] # Resting /\ optCall[s].pc = "clone"
  /\ LET cfg == optCall[s].arg
         on == IF s = optLeader THEN schedulersOn ELSE {}
         valid(e) == Registered(s, e.type) /\ nameOf(e.type) \notin on
         stay == {i \in DOMAIN cfg.scheds : cfg.scheds[i].off \/ valid(cfg.scheds[i])}
     IN /\ optOf' = [optOf EXCEPT ![s] =
                       patched(@, [cfg EXCEPT !.scheds = picked(cfg.scheds, stay)])]
        /\ dropped' = (dropped \/ \E e \in Entries(cfg.scheds) :
                          ~e.off /\ nameOf(e.type) \in on)
        /\ IF s = optLeader
           THEN /\ schedulersOn' = on \union
                     {nameOf(e.type) : e \in {x \in Entries(cfg.scheds) :
                                                ~x.off /\ valid(x)}}
                /\ coordinator' = "on"
           ELSE UNCHANGED <<schedulersOn, coordinator>>
  /\ optCall' = [optCall EXCEPT ![s] =
                   [optCall[s] EXCEPT !.pc = "stored", !.arg = NoConfig]]
  /\ UNCHANGED <<optKey, optLeader, plugin, optOps, terms, optFaults, sure,
                 fresh>>

(* readUserConfig: the plugin registers its types, and addUserScheduler    *)
(* replaces the scheduler of a rule and saves nothing.                     *)
LoadPlugin ==
  /\ coordinator = "on" /\ optLeader \in PluginServer
  /\ plugin' = plugin \union {optLeader}
  /\ schedulersOn' = schedulersOn \union {UserType}
  /\ optOf' = [optOf EXCEPT ![optLeader].scheds = AddSchedulerCfg(@, UserType)]
  /\ UNCHANGED <<optKey, optLeader, coordinator, optCall, optOps, terms,
                 optFaults, sure, fresh, dropped>>

OptionsNext ==
  \/ \E s \in OptServer : \/ ElectOptions(s) \/ FollowOptions(s)
                           \/ RestartOptions(s) \/ RunLoad(s) \/ RunStore(s)
  \/ ResignOptions
  \/ LoadPlugin
  \/ \E c \in OptCaller :
       \/ \E v \in OptValue : SetScheduleRead(c, v) \/ SetReplicationRead(c, v)
       \/ SetConfigStore(c)
       \/ \E n \in OptNs, v \in OptValue \union {0} : SetNamespaceConfig(c, n, v)
       \/ \E l \in OptLabel, add \in BOOLEAN : LabelProperty(c, l, add)
       \/ \E tp \in OtherScheduler \union {defaultSchedulers[i] :
                       i \in DOMAIN defaultSchedulers} :
            AddSchedulerConfig(c, tp) \/ RemoveSchedulerConfig(c, tp)
  \/ \E c \in DOMAIN optCall : \/ PersistSnapshot(c)
                               \/ PersistSaved(c) \/ PersistFailed(c)

------------------------------------------------------------------------------
(* The schedulers of the user's plugin are not compared: the plugin adds   *)
(* them again.                                                             *)
ofServer(list) == {e \in Entries(list) : e.type # UserType}
Covers(opt, saved) ==
  /\ ofServer(saved.scheds) \subseteq ofServer(opt.scheds)
  /\ opt.limit = saved.limit /\ opt.rep = saved.rep
  /\ \A n \in OptNs : saved.ns[n] \in {0, opt.ns[n]}
  /\ saved.labels \in {{}, opt.labels}

(* What a call has changed and saved stays in force through elections and  *)
(* restarts: the leader schedules by the saved options, a scheduler that   *)
(* was removed does not come back with the configuration file, and one     *)
(* that was added is not forgotten.  This is said of options whose last    *)
(* save overlapped no other call, and exactly of a leader that held        *)
(* nothing of an earlier term: reload never takes anything away.           *)
OptionsRestored ==
  (/\ sure /\ optLeader # NoServer /\ optKey # NoConfig
   /\ \A c \in DOMAIN optCall : optCall[c] = Resting) =>
     /\ Covers(optOf[optLeader], optKey)
     /\ fresh /\ ~dropped => Covers(optKey, optOf[optLeader])
=============================================================================
