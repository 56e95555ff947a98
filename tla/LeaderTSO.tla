----------------------------- MODULE LeaderTSO -----------------------------
(***************************************************************************)
(* PD leadership and the timestamp oracle: server/leader.go, server/tso.go *)
(* and the Tso handler of server/grpc_service.go.                          *)
(*                                                                         *)
(* Every PD server runs leaderLoop in one goroutine; pc[s] is where that   *)
(* goroutine stands.  The servers meet only in etcd: the leader key (held  *)
(* under a lease that may expire at any moment) and the saved timestamp.   *)
(* Tso requests run in goroutines of their own, against the atomicObject   *)
(* the server publishes in s.ts; loading that object and adding to its     *)
(* logical part are two steps, between which anything may happen.          *)
(*                                                                         *)
(* Time is a number of ticks, Ms of them to a millisecond, so that the     *)
(* truncation of nanoseconds to milliseconds in a response is visible.     *)
(* A server's clock may return any member of Clock whenever it is read:    *)
(* clocks differ between servers and jump forwards and backwards.          *)
(***************************************************************************)
EXTENDS Integers, Sequences

CONSTANTS Server,        \* the PD servers
          Req,           \* the Tso requests
          Count,         \* Count[r]: timestamps request r asks for
          Priority,      \* Priority[s]: the member's etcd leader priority
          None,          \* "no server" / "no reply"
          Clock,         \* the readings time.Now() may give
          MaxPhysical,   \* bound: no physical time beyond it is explored
          Ms,            \* ticks in one millisecond
          SaveInterval,  \* cfg.TsoSaveInterval in ticks
          MaxLogical,    \* maxLogical
          MaxRetry       \* maxRetryCount

ASSUME TimeAssumption ==
  /\ Clock \subseteq Nat
  /\ MaxPhysical \in Nat
  /\ Ms \in Nat \ {0}
  /\ SaveInterval \in Nat
  /\ SaveInterval >= Ms

ASSUME RequestAssumption ==
  /\ Count \in [Req -> Nat]
  /\ MaxLogical \in Nat
  /\ MaxRetry \in Nat \ {0}

ASSUME ServerAssumption ==
  /\ Priority \in [Server -> Nat]
  /\ None \notin Server
  /\ None \notin [physical : Nat, logical : Nat]

VARIABLES
  leaderKey,      \* etcd: the member the leader key names, or None
  saved,          \* etcd: the saved timestamp; 0 when it was never saved
  lead,           \* the servers whose etcd node reports itself as etcd leader
  pc,             \* where each server's leaderLoop stands
  leader,         \* s.leader: the member a server takes for the PD leader
  deleted,        \* a DELETE of the watched leader key awaits the watcher
  lastSavedTime,  \* s.lastSavedTime
  next,           \* local: the physical time about to be saved or published
  ts,             \* s.ts: index in objs of the published object, 0 for zeroTime
  objs,           \* every atomicObject ever allocated
  rpc,            \* where each Tso request stands
  srv,            \* the server that handles it
  cur,            \* local: the object it loaded
  retry,          \* local: the attempts it has used up
  reply,          \* its answer, or None
  synced,         \* history: what was answered before s loaded the timestamp
  prior           \* history: answers that a request's own must exceed

etcdVars == <<leaderKey, saved, lead>>
tsoVars  == <<lastSavedTime, next, ts, objs>>
reqVars  == <<rpc, srv, cur, retry, reply, prior>>
vars == <<etcdVars, pc, leader, deleted, tsoVars, reqVars, synced>>

PC == {"loop", "delete", "watch", "campaign", "load", "save", "store",
       "enable", "serve", "disable", "zero", "down"}

(***************************************************************************)
(* Arithmetic of the source                                                *)
(***************************************************************************)
updateTimestampGuard == Ms

(* resp.Physical = physical.UnixNano() / time.Millisecond *)
Milli(t) == t \div Ms

Object == [physical : Nat, logical : Nat]

(* Mutants: the clock is trusted; the clock's lag is taken for a time. *)
SyncFromClock(now, last) == now
SyncFromLag(now, last) ==
  IF now - last < updateTimestampGuard THEN now - last + updateTimestampGuard ELSE now

(* syncTimestamp starts from the clock, or just above the saved timestamp  *)
(* when the clock does not exceed it by the guard.                         *)
SyncPhysical(now, last) ==
  IF now - last < updateTimestampGuard THEN last + updateTimestampGuard ELSE now

(* Mutants: the clock is followed backwards too; a nearly used-up object   *)
(* is replaced by one a single tick above it.                              *)
FollowClock(now, prev) == now
BumpOneTick(now, prev) ==
  IF now - prev.physical > updateTimestampGuard
  THEN now
  ELSE IF prev.logical > MaxLogical \div 2 THEN prev.physical + 1
                                           ELSE prev.physical

(* updateTimestamp follows the clock when it is ahead; otherwise it adds a *)
(* millisecond when half of the logical values are used; otherwise it      *)
(* keeps the object it has.                                                *)
UpdatePhysical(now, prev) ==
  IF now - prev.physical > updateTimestampGuard
  THEN now
  ELSE IF prev.logical > MaxLogical \div 2 THEN prev.physical + Ms
                                           ELSE prev.physical

(* Mutant: the window may be used to its very end. *)
WindowOverrun(s, t) == lastSavedTime[s] < t

(* The window saved in etcd no longer covers physical time t. *)
WindowUsedUp(s, t) == lastSavedTime[s] - t <= updateTimestampGuard

Answered == {r \in Req : reply[r] # None}

(***************************************************************************)
(* etcd                                                                    *)
(***************************************************************************)
(* The leader key goes away; every watcher of it is sent the DELETE. *)
DropKey ==
  /\ leaderKey' = None
  /\ deleted' = [s \in Server |-> deleted[s] \/ pc[s] = "watch"]

Goto(s, l) == pc' = [pc EXCEPT ![s] = l]

(* Mutant: writes are not guarded by the leader key. *)
AnyTxn(s) == TRUE

(* LeaderTxn: the server's value is still the value of the leader key. *)
LeaderTxn(s) == leaderKey = s

(***************************************************************************)
(* leaderLoop                                                              *)
(***************************************************************************)
(* Only the etcd leader campaigns; the others start the loop again. *)
Elect(s) == IF s \in lead THEN "campaign" ELSE "loop"

(* getLeader: watch another leader, delete a key of our own left by an     *)
(* earlier campaign, or go on to the election.                             *)
GetLeader(s) ==
  /\ pc[s] = "loop"
  /\ Goto(s, CASE leaderKey = None -> Elect(s)
               [] leaderKey = s    -> "delete"
               [] OTHER            -> "watch")
  /\ leader' = [leader EXCEPT ![s] =
                  IF leaderKey \in Server \ {s} THEN leaderKey ELSE @]
  /\ UNCHANGED <<etcdVars, deleted, tsoVars, reqVars, synced>>

(* deleteLeaderKey: the guarded delete. *)
DeleteLeaderKey(s) ==
  /\ pc[s] = "delete"
  /\ IF LeaderTxn(s)
     THEN DropKey /\ Goto(s, Elect(s))
     ELSE Goto(s, "loop") /\ UNCHANGED <<leaderKey, deleted>>
  /\ UNCHANGED <<saved, lead, leader, tsoVars, reqVars, synced>>

(* ... and its error, which does not say whether etcd applied it. *)
DeleteError(s) ==
  /\ pc[s] = "delete"
  /\ Goto(s, "loop")
  /\ \/ LeaderTxn(s) /\ DropKey
     \/ UNCHANGED <<leaderKey, deleted>>
  /\ UNCHANGED <<saved, lead, leader, tsoVars, reqVars, synced>>

(* watchLeader returns: the DELETE arrived, or the watch was cancelled (or *)
(* the configuration could not be reloaded).                               *)
WatchReturns(s) ==
  /\ leader' = [leader EXCEPT ![s] = None]
  /\ deleted' = [deleted EXCEPT ![s] = FALSE]
  /\ Goto(s, Elect(s))
  /\ UNCHANGED <<etcdVars, tsoVars, reqVars, synced>>

(* Mutant: the DELETE event is skipped. *)
WatchSkipsDelete(s) ==
  /\ pc[s] = "watch" /\ deleted[s]
  /\ deleted' = [deleted EXCEPT ![s] = FALSE]
  /\ UNCHANGED <<etcdVars, pc, leader, tsoVars, reqVars, synced>>

WatchDelete(s) == pc[s] = "watch" /\ deleted[s] /\ WatchReturns(s)

WatchCanceled(s) == pc[s] = "watch" /\ WatchReturns(s)

(* The watched revision was compacted away while the watcher was behind:   *)
(* it watches on from the compact revision and never sees the events below *)
(* it.                                                                     *)
WatchCompacted(s) ==
  /\ pc[s] = "watch"
  /\ deleted' = [deleted EXCEPT ![s] = FALSE]
  /\ UNCHANGED <<etcdVars, pc, leader, tsoVars, reqVars, synced>>

(* campaignLeader: the leader key is created under a fresh lease if there  *)
(* is none.                                                                *)
CampaignLeader(s) ==
  /\ pc[s] = "campaign"
  /\ IF leaderKey = None
     THEN leaderKey' = s /\ Goto(s, "load")
     ELSE Goto(s, "loop") /\ UNCHANGED leaderKey
  /\ UNCHANGED <<saved, lead, leader, deleted, tsoVars, reqVars, synced>>

(* The grant failed, or the transaction did, applied by etcd or not. *)
CampaignError(s) ==
  /\ pc[s] = "campaign"
  /\ Goto(s, "loop")
  /\ \/ leaderKey = None /\ leaderKey' = s
     \/ UNCHANGED leaderKey
  /\ UNCHANGED <<saved, lead, leader, deleted, tsoVars, reqVars, synced>>

(* KeepAlive, reloadConfigFromKV, createRaftCluster or loadTimestamp fails *)
(* after the key was won: the server walks away and leaves the key.        *)
CampaignFails(s) ==
  /\ pc[s] = "load"
  /\ Goto(s, "loop")
  /\ UNCHANGED <<etcdVars, leader, deleted, tsoVars, reqVars, synced>>

(***************************************************************************)
(* The timestamp                                                           *)
(***************************************************************************)
(* syncTimestamp up to the save. *)
SyncTimestamp(s) ==
  /\ pc[s] = "load"
  /\ \E now \in Clock :
       /\ SyncPhysical(now, saved) <= MaxPhysical
       /\ next' = [next EXCEPT ![s] = SyncPhysical(now, saved)]
  /\ synced' = [synced EXCEPT ![s] = Answered]
  /\ Goto(s, "save")
  /\ UNCHANGED <<etcdVars, leader, deleted, lastSavedTime, ts, objs, reqVars>>

(* What campaignLeader runs when it returns: its deferred calls, of which  *)
(* disableLeader and clearing s.ts exist once the leader was enabled.      *)
Exit(s) ==
  /\ Goto(s, IF leader[s] = s THEN "disable" ELSE "loop")
  /\ next' = [next EXCEPT ![s] = 0]

(* saveTimestamp *)
SaveTimestamp(s) ==
  /\ pc[s] = "save"
  /\ IF LeaderTxn(s)
     THEN /\ saved' = next[s] + SaveInterval
          /\ lastSavedTime' = [lastSavedTime EXCEPT ![s] = next[s] + SaveInterval]
          /\ Goto(s, "store")
          /\ UNCHANGED next
     ELSE Exit(s) /\ UNCHANGED <<saved, lastSavedTime>>
  /\ UNCHANGED <<leaderKey, lead, leader, deleted, ts, objs, reqVars, synced>>

(* The transaction returns an error, applied by etcd or not. *)
SaveError(s) ==
  /\ pc[s] = "save"
  /\ Exit(s)
  /\ \/ LeaderTxn(s) /\ saved' = next[s] + SaveInterval
     \/ UNCHANGED saved
  /\ UNCHANGED <<leaderKey, lead, leader, deleted, lastSavedTime, ts, objs, reqVars, synced>>

(* The check that ends a tick: a PD leader that is no longer the etcd      *)
(* leader returns from campaignLeader.                                     *)
EndTick(s) == IF s \in lead THEN "serve" ELSE "disable"

(* s.ts.Store(current), the end of syncTimestamp and of updateTimestamp. *)
StoreTimestamp(s) ==
  /\ pc[s] = "store"
  /\ objs' = Append(objs, [physical |-> next[s], logical |-> 0])
  /\ ts' = [ts EXCEPT ![s] = Len(objs) + 1]
  /\ next' = [next EXCEPT ![s] = 0]
  /\ Goto(s, IF leader[s] = s THEN EndTick(s) ELSE "enable")
  /\ UNCHANGED <<etcdVars, leader, deleted, lastSavedTime, reqVars, synced>>

EnableLeader(s) ==
  /\ pc[s] = "enable"
  /\ leader' = [leader EXCEPT ![s] = s]
  /\ Goto(s, "serve")
  /\ UNCHANGED <<etcdVars, deleted, tsoVars, reqVars, synced>>

(* A tick of tsTicker: updateTimestamp up to the save or the store. *)
UpdateTimestamp(s) ==
  /\ pc[s] = "serve"
  /\ LET prev == objs[ts[s]] IN
     \E now \in Clock :
       LET t == UpdatePhysical(now, prev) IN
       /\ t <= MaxPhysical
       /\ next' = [next EXCEPT ![s] = IF t = prev.physical THEN 0 ELSE t]
       /\ Goto(s, IF t = prev.physical THEN EndTick(s)
                  ELSE IF WindowUsedUp(s, t) THEN "save" ELSE "store")
  /\ UNCHANGED <<etcdVars, leader, deleted, lastSavedTime, ts, objs, reqVars, synced>>

(* Mutant: the closed keep-alive channel goes unnoticed. *)
KeepAliveIgnored(s) == pc[s] = "serve" /\ UNCHANGED vars

(* The keep-alive channel is closed: the lease expired, or its renewals    *)
(* went unanswered for too long.                                           *)
KeepAliveClosed(s) ==
  /\ pc[s] = "serve"
  /\ Goto(s, "disable")
  /\ UNCHANGED <<etcdVars, leader, deleted, tsoVars, reqVars, synced>>

DisableLeader(s) ==
  /\ pc[s] = "disable"
  /\ leader' = [leader EXCEPT ![s] = None]
  /\ Goto(s, "zero")
  /\ UNCHANGED <<etcdVars, deleted, tsoVars, reqVars, synced>>

(* Mutant: the published timestamp outlives the leadership. *)
TimestampKept(s) ==
  /\ pc[s] = "zero"
  /\ Goto(s, "loop")
  /\ UNCHANGED <<etcdVars, leader, deleted, tsoVars, reqVars, synced>>

ClearTimestamp(s) ==
  /\ pc[s] = "zero"
  /\ ts' = [ts EXCEPT ![s] = 0]
  /\ Goto(s, "loop")
  /\ UNCHANGED <<etcdVars, leader, deleted, lastSavedTime, next, objs, reqVars, synced>>

(***************************************************************************)
(* Tso requests                                                            *)
(***************************************************************************)
(* Tso: validateRequest, and the count test of getRespTS. *)
Tso(r, s) ==
  /\ rpc[r] = "idle"
  /\ pc[s] # "down"
  /\ leader[s] = s
  /\ rpc' = [rpc EXCEPT ![r] = IF Count[r] = 0 THEN "failed" ELSE "load"]
  /\ srv' = [srv EXCEPT ![r] = s]
  /\ prior' = [prior EXCEPT ![r] = synced[s] \union {g \in Answered : srv[g] = s}]
  /\ UNCHANGED <<etcdVars, pc, leader, deleted, tsoVars, cur, retry, reply, synced>>

(* One attempt of getRespTS is used up. *)
Retry(r) ==
  IF retry[r] + 1 = MaxRetry
  THEN /\ rpc' = [rpc EXCEPT ![r] = "failed"]
       /\ retry' = [retry EXCEPT ![r] = 0]
  ELSE /\ rpc' = [rpc EXCEPT ![r] = "load"]
       /\ retry' = [retry EXCEPT ![r] = @ + 1]

(* s.ts.Load() *)
LoadTS(r) ==
  /\ rpc[r] = "load"
  /\ IF ts[srv[r]] = 0
     THEN Retry(r) /\ UNCHANGED cur
     ELSE /\ cur' = [cur EXCEPT ![r] = ts[srv[r]]]
          /\ rpc' = [rpc EXCEPT ![r] = "add"]
          /\ UNCHANGED retry
  /\ UNCHANGED <<etcdVars, pc, leader, deleted, tsoVars, srv, reply, prior, synced>>

(* atomic.AddInt64(&current.logical, count), and the response. *)
AddTS(r) ==
  /\ rpc[r] = "add"
  /\ LET logical == objs[cur[r]].logical + Count[r] IN
     /\ objs' = [objs EXCEPT ![cur[r]].logical = logical]
     /\ IF logical >= MaxLogical
        THEN Retry(r) /\ UNCHANGED reply
        ELSE /\ reply' = [reply EXCEPT ![r] =
                            [physical |-> Milli(objs[cur[r]].physical), logical |-> logical]]
             /\ rpc' = [rpc EXCEPT ![r] = "done"]
             /\ retry' = [retry EXCEPT ![r] = 0]
  /\ cur' = [cur EXCEPT ![r] = 0]
  /\ UNCHANGED <<etcdVars, pc, leader, deleted, lastSavedTime, next, ts, srv, prior, synced>>

(***************************************************************************)
(* Failures and the operators' commands                                    *)
(***************************************************************************)
(* The lease of the leader key runs out, whether or not its holder knows. *)
LeaseExpires ==
  /\ leaderKey # None
  /\ DropKey
  /\ UNCHANGED <<saved, lead, pc, leader, tsoVars, reqVars, synced>>

(* The leader key's holder renews its lease until campaignLeader returns. *)
KeptAlive(s) == pc[s] \in {"load", "save", "store", "enable", "serve", "disable", "zero"}

(* etcd elects; each node's own view of who leads may be out of date. *)
EtcdLeaderChanges ==
  /\ lead' \in SUBSET Server
  /\ UNCHANGED <<leaderKey, saved, pc, leader, deleted, tsoVars, reqVars, synced>>

(* No running node leads etcd: one of them is elected. *)
EtcdElects ==
  /\ \A s \in lead : pc[s] = "down"
  /\ \E s \in Server : pc[s] # "down" /\ lead' = {s}
  /\ UNCHANGED <<leaderKey, saved, pc, leader, deleted, tsoVars, reqVars, synced>>

(* MoveEtcdLeader *)
MoveEtcdLeader(t) ==
  /\ lead' = {t}
  /\ UNCHANGED <<leaderKey, saved, pc, leader, deleted, tsoVars, reqVars, synced>>

(* ResignLeader hands the etcd leadership to a member of its choice. *)
ResignLeader(s, t) ==
  /\ pc[s] # "down"
  /\ MoveEtcdLeader(t)

(* etcdLeaderLoop takes the etcd leadership from a member of lower priority. *)
EtcdLeaderLoop(s) ==
  /\ pc[s] # "down" /\ s \notin lead
  /\ \E t \in lead : Priority[s] > Priority[t]
  /\ MoveEtcdLeader(s)

(* A server stops or crashes: its memory and its requests are gone. *)
Crash(s) ==
  /\ pc[s] # "down"
  /\ Goto(s, "down")
  /\ leader' = [leader EXCEPT ![s] = None]
  /\ deleted' = [deleted EXCEPT ![s] = FALSE]
  /\ lastSavedTime' = [lastSavedTime EXCEPT ![s] = 0]
  /\ next' = [next EXCEPT ![s] = 0]
  /\ ts' = [ts EXCEPT ![s] = 0]
  /\ rpc' = [r \in Req |-> IF srv[r] = s /\ rpc[r] \in {"load", "add"} THEN "failed" ELSE rpc[r]]
  /\ UNCHANGED <<etcdVars, objs, srv, cur, retry, reply, prior, synced>>

Restart(s) ==
  /\ pc[s] = "down"
  /\ Goto(s, "loop")
  /\ UNCHANGED <<etcdVars, leader, deleted, tsoVars, reqVars, synced>>

(***************************************************************************)
(* Specification                                                           *)
(***************************************************************************)
Init ==
  /\ leaderKey = None /\ saved = 0
  /\ lead \in {{s} : s \in Server}
  /\ pc = [s \in Server |-> "loop"]
  /\ leader = [s \in Server |-> None]
  /\ deleted = [s \in Server |-> FALSE]
  /\ lastSavedTime = [s \in Server |-> 0]
  /\ next = [s \in Server |-> 0]
  /\ ts = [s \in Server |-> 0]
  /\ objs = <<>>
  /\ rpc = [r \in Req |-> "idle"]
  /\ srv = [r \in Req |-> None]
  /\ cur = [r \in Req |-> 0]
  /\ retry = [r \in Req |-> 0]
  /\ reply = [r \in Req |-> None]
  /\ prior = [r \in Req |-> {}]
  /\ synced = [s \in Server |-> {}]

Election(s) ==
  \/ GetLeader(s) \/ DeleteLeaderKey(s) \/ WatchDelete(s)
  \/ CampaignLeader(s)

Serving(s) ==
  \/ SyncTimestamp(s) \/ SaveTimestamp(s) \/ StoreTimestamp(s) \/ EnableLeader(s)
  \/ UpdateTimestamp(s) \/ DisableLeader(s) \/ ClearTimestamp(s)

Request(r) == (\E s \in Server : Tso(r, s)) \/ LoadTS(r) \/ AddTS(r)

(* What a healthy cluster does by itself. *)
Steady ==
  \/ \E s \in Server : Election(s) \/ Serving(s) \/ EtcdLeaderLoop(s) \/ Restart(s)
  \/ \E r \in Req : Request(r)
  \/ EtcdElects

Fault ==
  \/ LeaseExpires
  \/ EtcdLeaderChanges
  \/ \E s, t \in Server : ResignLeader(s, t)
  \/ \E s \in Server : \/ KeepAliveClosed(s) \/ CampaignFails(s) \/ WatchCanceled(s)
                       \/ DeleteError(s) \/ CampaignError(s) \/ SaveError(s)
                       \/ Crash(s)

Compaction == \E s \in Server : WatchCompacted(s)

Next == Steady \/ Fault \/ Compaction

Spec == Init /\ [][Next]_vars

(***************************************************************************)
(* Properties                                                              *)
(***************************************************************************)
(* Every variable holds a value of its type. *)
TypeOK ==
  /\ leaderKey \in Server \union {None}
  /\ saved \in Nat
  /\ lead \in SUBSET Server
  /\ pc \in [Server -> PC]
  /\ leader \in [Server -> Server \union {None}]
  /\ deleted \in [Server -> BOOLEAN]
  /\ lastSavedTime \in [Server -> Nat]
  /\ next \in [Server -> Nat]
  /\ objs \in Seq(Object)
  /\ ts \in [Server -> 0 .. Len(objs)]
  /\ rpc \in [Req -> {"idle", "load", "add", "done", "failed"}]
  /\ srv \in [Req -> Server \union {None}]
  /\ cur \in [Req -> 0 .. Len(objs)]
  /\ retry \in [Req -> Nat]
  /\ reply \in [Req -> Object \union {None}]
  /\ prior \in [Req -> SUBSET Req]
  /\ synced \in [Server -> SUBSET Req]

(* Order of timestamps, and the order a client needs between two blocks:   *)
(* the first value of r's block lies above the last value of g's.          *)
Exceeds(r, g) ==
  \/ reply[r].physical > reply[g].physical
  \/ /\ reply[r].physical = reply[g].physical
     /\ reply[r].logical - Count[r] >= reply[g].logical

(* No timestamp is handed out twice, although getRespTS may run on a stale *)
(* object, on a server that lost its lease, or after a restart under a     *)
(* clock that went back.                                                   *)
UniqueTimestamps ==
  \A r, g \in Answered : r # g => Exceeds(r, g) \/ Exceeds(g, r)

(* Timestamps grow for whoever asks one server again, and for whoever asks *)
(* a leader that loaded the saved timestamp after the earlier answer       *)
(* (getRespTS on the object that syncTimestamp and updateTimestamp         *)
(* publish).                                                               *)
MonotonicTimestamps ==
  \A r \in Answered : \A g \in prior[r] : Exceeds(r, g)

(* "The physical time is always less than the saved timestamp": of every   *)
(* object ever published, so that whichever leader loads the saved         *)
(* timestamp next starts above all of them.                                *)
PhysicalBelowSaved ==
  \A i \in DOMAIN objs : objs[i].physical < saved

(* While the leader key names a server that publishes timestamps, no       *)
(* object of any other server is as new as its own.                        *)
KeyHolderIsNewest ==
  \A s \in Server :
    leaderKey = s /\ ts[s] # 0 =>
      \A i \in DOMAIN objs \ {ts[s]} :
        Milli(objs[i].physical) < Milli(objs[ts[s]].physical)

(* "The saved time is monotonically increasing": saveTimestamp writes over *)
(* the key without comparing it with what is there.                        *)
SavedMonotonic == [][saved' >= saved]_vars

(* "The physical time is monotonically increasing": updateTimestamp never  *)
(* replaces an object by one of the same millisecond or an earlier one.    *)
PhysicalMonotonic ==
  [][\A s \in Server : ts[s] # 0 /\ ts'[s] \notin {0, ts[s]} =>
       Milli(objs'[ts'[s]].physical) > Milli(objs[ts[s]].physical)]_vars

(* The oracle the clients were promised. *)
Oracle == INSTANCE TimestampOracle WITH NoReply <- None
OracleSpec == Oracle!Spec
============================================================================
