--------------------------- MODULE SchedulingProofs ---------------------------
(***************************************************************************)
(* Proofs about Scheduling.  First, who blocks a store (evict-leader and   *)
(* grant-leader with their Prepare and Cleanup).  Then what the operators  *)
(* of the ordinary cases, however they follow on one another, leave of a   *)
(* region: a leader that is a voter, enough voters, not too many peers,    *)
(* and replicas as far apart as they were.                                 *)
(* The argument goes from a step of an operator (what it does to a region, *)
(* and that the rest of the operator still fits what it leaves) over the   *)
(* operators that the builders make, and the answers of every scheduler    *)
(* and checker, to the actions of the closed loop.                         *)
(***************************************************************************)
EXTENDS Scheduling, FiniteSetTheorems, NaturalsInduction, WellFoundedInduction,
        SequenceTheorems, TLAPS

USE DEF storing, coordinator

(* The blocking schedulers of which a goroutine still runs. *)
Blockers == {n \in DOMAIN sched \cup stopping : blocks(n)}

BlockType ==
  /\ \A t \in DOMAIN stores : "blocked" \in DOMAIN stores[t] /\ stores[t].blocked \in BOOLEAN
  /\ \A c \in clones : /\ c.store \in DOMAIN stores
                       /\ "blocked" \in DOMAIN c.as /\ c.as.blocked \in BOOLEAN
  /\ "add" \in DOMAIN pending
  /\ pending.add \cap DOMAIN stores = {}

BlockInv ==
  /\ BlockType
  /\ \A n \in Blockers : /\ n.store \in DOMAIN stores
                         /\ n.store \notin lost => stores[n.store].blocked
  /\ \A m, n \in Blockers : m.store = n.store /\ n.store \notin lost => m = n
  /\ \A n \in DOMAIN sched \cap stopping : blocks(n) => n.store \in lost
  /\ \A t \in DOMAIN stores \ lost : stores[t].blocked => \E n \in Blockers : n.store = t

LEMMA InvImplies == BlockInv => BlockedByOne
<1> SUFFICES ASSUME BlockInv, NEW s \in DOMAIN stores \ lost
             PROVE  LET holders == {n \in DOMAIN sched : blocks(n) /\ n.store = s}
                        late    == {n \in stopping : blocks(n) /\ n.store = s}
                    IN  Cardinality(holders) + Cardinality(late) = IF stores[s].blocked THEN 1 ELSE 0
  BY DEF BlockedByOne
<1> DEFINE holders == {n \in DOMAIN sched : blocks(n) /\ n.store = s}
           late    == {n \in stopping : blocks(n) /\ n.store = s}
<1>1. Cardinality({}) = 0 /\ \A x : Cardinality({x}) = 1
  BY FS_EmptySet, FS_Singleton
<1>2. CASE ~stores[s].blocked
  <2>1. holders = {} /\ late = {}
    BY <1>2 DEF BlockInv, Blockers
  <2> QED BY <1>1, <1>2, <2>1
<1>3. CASE stores[s].blocked
  <2>1. PICK n \in Blockers : n.store = s
    BY <1>3 DEF BlockInv
  <2>2. CASE n \in DOMAIN sched
    <3>1. holders = {n} /\ late = {}
      BY <2>1, <2>2 DEF BlockInv, Blockers
    <3>2. Cardinality(holders) = 1 /\ Cardinality(late) = 0
      BY <1>1, <3>1
    <3> QED BY <1>3, <3>2
  <2>3. CASE n \in stopping /\ n \notin DOMAIN sched
    <3>1. holders = {} /\ late = {n}
      BY <2>1, <2>3 DEF BlockInv, Blockers
    <3>2. Cardinality(holders) = 0 /\ Cardinality(late) = 1
      BY <1>1, <3>1
    <3> QED BY <1>3, <3>2
  <2> QED BY <2>1, <2>2, <2>3 DEF Blockers
<1> QED BY <1>2, <1>3

LEMMA InitBlock == Init => BlockInv
<1> SUFFICES ASSUME Init PROVE BlockInv
  OBVIOUS
<1> DEFINE new == CaseMap[case]
<1>1. /\ \A t \in DOMAIN new.stores :
           /\ "blocked" \in DOMAIN new.stores[t] /\ new.stores[t].blocked \in BOOLEAN
           /\ new.stores[t].blocked => \E n \in new.schedulers : blocks(n) /\ n.store = t
      /\ \A n \in new.schedulers :
           blocks(n) => n.store \in DOMAIN new.stores /\ new.stores[n.store].blocked
      /\ \A m, n \in new.schedulers : blocks(m) /\ blocks(n) /\ m.store = n.store => m = n
      /\ new.events.add \cap DOMAIN new.stores = {}
  BY CaseAssumption DEF Init
<1>2. /\ stores = new.stores /\ DOMAIN sched = new.schedulers /\ stopping = {}
      /\ clones = {} /\ lost = {}
  BY DEF Init, this
<1>3. "add" \in DOMAIN pending /\ pending.add = new.events.add
  BY DEF Init, this, Happenings
<1> HIDE DEF new
<1>4. Blockers = {n \in new.schedulers : blocks(n)}
  BY <1>2 DEF Blockers
<1>5. BlockType
  BY <1>1, <1>2, <1>3 DEF BlockType
<1> QED BY <1>1, <1>2, <1>4, <1>5 DEF BlockInv

-----------------------------------------------------------------------------
(* What most actions do to the blocked stores: nothing. *)

Quiet ==
  /\ DOMAIN sched' = DOMAIN sched /\ stopping' = stopping
  /\ stores' = stores /\ clones' = clones /\ lost' = lost
  /\ pending'.add = pending.add /\ "add" \in DOMAIN pending'

LEMMA QuietKeeps == BlockInv /\ Quiet => BlockInv'
<1> SUFFICES ASSUME BlockInv, Quiet PROVE BlockInv'
  OBVIOUS
<1>1. Blockers' = Blockers
  BY DEF Quiet, Blockers
<1>2. BlockType'
  BY DEF Quiet, BlockInv, BlockType
<1> QED BY <1>1, <1>2 DEF Quiet, BlockInv

LEMMA WorkQuiet ==
  ASSUME BlockInv,
         \/ \E r \in Ids : Heartbeat(r) \/ PatrolRegion(r) \/ Timeout(r) \/ StepLeader(r)
         \/ \E r \in DOMAIN tasks : StepTask(r)
         \/ \E s \in DOMAIN sched : RunScheduler(s)
         \/ CheckOperators
  PROVE  Quiet
<1> USE DEF Quiet, BlockInv, BlockType
<1>1. ASSUME NEW r \in Ids, Heartbeat(r) PROVE Quiet
  BY <1>1 DEF Heartbeat, Command
<1>7. ASSUME NEW r, StepTask(r) PROVE Quiet
  BY <1>7 DEF StepTask
<1>2. ASSUME NEW r \in Ids, PatrolRegion(r) PROVE Quiet
  BY <1>2 DEF PatrolRegion
<1>3. ASSUME NEW r \in Ids, Timeout(r) PROVE Quiet
  BY <1>3 DEF Timeout
<1>4. ASSUME NEW r \in Ids, StepLeader(r) PROVE Quiet
  BY <1>4 DEF StepLeader
<1>5. ASSUME NEW s \in DOMAIN sched, RunScheduler(s) PROVE Quiet
  BY <1>5 DEF RunScheduler
<1>6. ASSUME CheckOperators PROVE Quiet
  BY <1>6 DEF CheckOperators
<1> QED BY <1>1, <1>2, <1>3, <1>4, <1>5, <1>6, <1>7

LEMMA EventQuiet ==
  ASSUME BlockInv,
         \/ Tick
         \/ \E r \in pending.scatter : ScatterRegion(r)
         \/ \E r \in pending.admin : AdminOperator(r)
         \/ \E r \in Ids : StepSplit(r)
         \/ \E r \in pending.write : Write(r)
         \/ \E s \in pending.delete : DeleteNode(s)
  PROVE  Quiet
<1> USE DEF Quiet, BlockInv, BlockType
<1>1. ASSUME Tick PROVE Quiet
  BY <1>1 DEF Tick
<1>2. ASSUME NEW r \in pending.scatter, ScatterRegion(r) PROVE Quiet
  BY <1>2 DEF ScatterRegion
<1>3. ASSUME NEW r \in pending.admin, AdminOperator(r) PROVE Quiet
  BY <1>3 DEF AdminOperator
<1>4. ASSUME NEW r \in Ids, StepSplit(r) PROVE Quiet
  BY <1>4 DEF StepSplit
<1>5. ASSUME NEW r \in pending.write, Write(r) PROVE Quiet
  BY <1>5 DEF Write
<1>6. ASSUME NEW s \in pending.delete, DeleteNode(s) PROVE Quiet
  BY <1>6 DEF DeleteNode
<1> QED BY <1>1, <1>2, <1>3, <1>4, <1>5, <1>6

-----------------------------------------------------------------------------
(* The schedulers that come and go. *)

LEMMA AddKeeps == ASSUME BlockInv, NEW s, AddScheduler(s) PROVE BlockInv'
<1>1. /\ DOMAIN sched' = DOMAIN sched \cup {s} /\ stopping' = stopping /\ pending' = pending
      /\ clones' = clones /\ lost' = lost
  BY DEF AddScheduler
<1>2. CASE ~blocks(s)
  <2>1. stores' = stores
    BY <1>2 DEF AddScheduler
  <2>2. Blockers' = Blockers
    BY <1>1, <1>2 DEF Blockers
  <2>3. BlockType'
    BY <1>1, <2>1 DEF BlockInv, BlockType
  <2> QED BY <1>1, <1>2, <2>1, <2>2, <2>3 DEF BlockInv
<1>3. CASE blocks(s)
  <2>1. /\ s.store \in DOMAIN stores /\ ~stores[s.store].blocked
        /\ stores' = [stores EXCEPT ![s.store].blocked = TRUE]
    BY <1>3 DEF AddScheduler
  <2>2. /\ DOMAIN stores' = DOMAIN stores
        /\ stores'[s.store].blocked = TRUE /\ "blocked" \in DOMAIN stores'[s.store]
        /\ \A t \in DOMAIN stores : t # s.store => stores'[t] = stores[t]
    BY <2>1 DEF BlockInv, BlockType
  <2>3. Blockers' = Blockers \cup {s}
    BY <1>1, <1>3 DEF Blockers
  <2>4. \A n \in Blockers : n.store = s.store => n.store \in lost
    BY <2>1 DEF BlockInv
  <2>5. BlockType'
    BY <1>1, <2>2 DEF BlockInv, BlockType
  <2>6. s \in Blockers => s.store \in lost
    BY <2>4
  <2>7. \A n \in (DOMAIN sched \cap stopping)' : blocks(n) => n.store \in lost'
    BY <1>1, <1>3, <2>6 DEF BlockInv, Blockers
  <2>8. \A t \in DOMAIN stores' \ lost' : stores'[t].blocked => \E n \in Blockers' : n.store = t
    BY <1>1, <2>2, <2>3 DEF BlockInv
  <2>9. \A n \in Blockers' : n.store \in DOMAIN stores' /\ (n.store \notin lost' => stores'[n.store].blocked)
    BY <1>1, <2>1, <2>2, <2>3, <2>4 DEF BlockInv
  <2>10. \A m, n \in Blockers' : m.store = n.store /\ n.store \notin lost' => m = n
    BY <1>1, <2>3, <2>4 DEF BlockInv
  <2> QED BY <2>5, <2>7, <2>8, <2>9, <2>10 DEF BlockInv
<1> QED BY <1>2, <1>3

LEMMA RemoveKeeps == ASSUME BlockInv, NEW s, RemoveScheduler(s) PROVE BlockInv'
<1>1. /\ s \in DOMAIN sched /\ s \notin stopping
      /\ DOMAIN sched' = DOMAIN sched \ {s} /\ stopping' = stopping \cup {s}
      /\ stores' = stores /\ clones' = clones /\ lost' = lost /\ pending' = pending
  BY DEF RemoveScheduler
<1>2. Blockers' = Blockers
  BY <1>1 DEF Blockers
<1>3. BlockType'
  BY <1>1 DEF BlockInv, BlockType
<1> QED BY <1>1, <1>2, <1>3 DEF BlockInv

(* Cleanup unblocks the store, which the stopped scheduler alone holds. *)
LEMMA CleanupKeeps == ASSUME BlockInv, NEW s, Cleanup(s) PROVE BlockInv'
<1>1. /\ s \in stopping /\ stopping' = stopping \ {s} /\ sched' = sched /\ pending' = pending
      /\ clones' = clones /\ lost' = lost
  BY DEF Cleanup
<1>2. CASE ~blocks(s)
  <2>1. stores' = stores
    BY <1>2 DEF Cleanup
  <2>2. Blockers' = Blockers
    BY <1>1, <1>2 DEF Blockers
  <2>3. BlockType'
    BY <1>1, <2>1 DEF BlockInv, BlockType
  <2> QED BY <1>1, <1>2, <2>1, <2>2, <2>3 DEF BlockInv
<1>3. CASE blocks(s)
  <2>1. s \in Blockers /\ (s \in DOMAIN sched => s.store \in lost)
    BY <1>1, <1>3 DEF BlockInv, Blockers
  <2>2. Blockers \ {s} \subseteq Blockers' /\ Blockers' \subseteq Blockers
        /\ (s.store \notin lost => s \notin Blockers')
    BY <1>1, <1>3, <2>1 DEF Blockers
  <2>3. s.store \in DOMAIN stores /\ stores' = [stores EXCEPT ![s.store].blocked = FALSE]
    BY <1>3, <2>1 DEF Cleanup, BlockInv
  <2>4. /\ DOMAIN stores' = DOMAIN stores
        /\ stores'[s.store].blocked = FALSE /\ "blocked" \in DOMAIN stores'[s.store]
        /\ \A t \in DOMAIN stores : t # s.store => stores'[t] = stores[t]
    BY <2>3 DEF BlockInv, BlockType
  <2>5. BlockType'
    BY <1>1, <2>4 DEF BlockInv, BlockType
  <2>6. \A n \in Blockers' : n.store = s.store => n.store \in lost
    BY <2>1, <2>2 DEF BlockInv
  <2>7. \A n \in (DOMAIN sched \cap stopping)' : blocks(n) => n.store \in lost'
    BY <1>1 DEF BlockInv
  <2>8. \A t \in DOMAIN stores' \ lost' : stores'[t].blocked => \E n \in Blockers' : n.store = t
    BY <1>1, <2>2, <2>4 DEF BlockInv
  <2>9. \A n \in Blockers' : n.store \in DOMAIN stores' /\ (n.store \notin lost' => stores'[n.store].blocked)
    BY <1>1, <2>2, <2>4, <2>6 DEF BlockInv
  <2>10. \A m, n \in Blockers' : m.store = n.store /\ n.store \notin lost' => m = n
    BY <1>1, <2>2 DEF BlockInv
  <2> QED BY <2>5, <2>7, <2>8, <2>9, <2>10 DEF BlockInv
<1> QED BY <1>2, <1>3

(* The user's rules replace schedulers of the user's rules only. *)
LEMMA RulesKeep == ASSUME BlockInv, NEW rules, readUserConfig(rules) PROVE BlockInv'
<1>1. /\ stopping' = stopping /\ stores' = stores /\ clones' = clones /\ lost' = lost
      /\ pending'.add = pending.add /\ "add" \in DOMAIN pending'
  BY DEF readUserConfig, BlockInv, BlockType
<1>2. CASE sched' = sched
  <2>1. Quiet
    BY <1>1, <1>2 DEF Quiet
  <2> QED BY <2>1, QuietKeeps
<1>3. CASE sched' # sched
  <2> DEFINE loaded == LoadConfig(plugins, named(rules), this.opt.maxReplicas)
             made(ids) == {userScheduler(p) : p \in ProduceScheduler(loaded, ids)}
             kept(ids) == {s \in DOMAIN sched :
                             s.type \in {"move-leader-user", "move-region-user"}
                               => \A t \in made(ids) : t.name # s.name}
  <2>1. \E ids : DOMAIN sched' = kept(ids) \cup made(ids)
    BY <1>3 DEF readUserConfig
  <2>2. PICK ids : DOMAIN sched' = kept(ids) \cup made(ids)
    BY <2>1
  <2>3. \A n \in made(ids) : ~blocks(n)
    BY DEF userScheduler, blocks
  <2>4. \A n \in DOMAIN sched : blocks(n) => n \in kept(ids)
    BY DEF blocks
  <2>5. kept(ids) \subseteq DOMAIN sched
    OBVIOUS
  <2> HIDE DEF made, kept
  <2>6. Blockers' = Blockers
    BY <1>1, <2>2, <2>3, <2>4, <2>5 DEF Blockers
  <2>7. BlockType'
    BY <1>1 DEF BlockInv, BlockType
  <2>8. \A n \in (DOMAIN sched \cap stopping)' : blocks(n) => n.store \in lost'
    BY <1>1, <2>2, <2>3, <2>5 DEF BlockInv
  <2> QED BY <1>1, <2>6, <2>7, <2>8 DEF BlockInv
<1> QED BY <1>2, <1>3

-----------------------------------------------------------------------------
(* The stores that come, go down and go offline. *)

LEMMA AddNodeKeeps == ASSUME BlockInv, NEW s, AddNode(s) PROVE BlockInv'
<1>1. /\ sched' = sched /\ stopping' = stopping /\ s \in pending.add
      /\ "add" \in DOMAIN pending' /\ pending'.add = pending.add \ {s}
      /\ DOMAIN stores' = DOMAIN stores \cup {s} /\ clones' = clones /\ lost' = lost
  BY DEF AddNode, BlockInv, BlockType
<1>2. s \notin DOMAIN stores
  BY <1>1 DEF BlockInv, BlockType
<1>3. stores'[s] = NewStore /\ \A t \in DOMAIN stores : stores'[t] = stores[t]
  BY <1>2 DEF AddNode
<1>4. "blocked" \in DOMAIN NewStore /\ NewStore.blocked = FALSE
  BY DEF NewStore
<1>5. Blockers' = Blockers
  BY <1>1 DEF Blockers
<1>6. BlockType'
  BY <1>1, <1>3, <1>4 DEF BlockInv, BlockType
<1> QED BY <1>1, <1>3, <1>4, <1>5, <1>6 DEF BlockInv

(* A store whose other fields change stays blocked or not. *)
StoreTouched ==
  /\ DOMAIN sched' = DOMAIN sched /\ stopping' = stopping
  /\ pending'.add = pending.add /\ "add" \in DOMAIN pending'
  /\ DOMAIN stores' = DOMAIN stores /\ clones' = clones /\ lost' = lost
  /\ \A t \in DOMAIN stores : /\ "blocked" \in DOMAIN stores'[t]
                              /\ stores'[t].blocked = stores[t].blocked

LEMMA TouchedKeeps == BlockInv /\ StoreTouched => BlockInv'
<1> SUFFICES ASSUME BlockInv, StoreTouched PROVE BlockInv'
  OBVIOUS
<1>1. Blockers' = Blockers
  BY DEF StoreTouched, Blockers
<1>2. BlockType'
  BY DEF StoreTouched, BlockInv, BlockType
<1> QED BY <1>1, <1>2 DEF StoreTouched, BlockInv

LEMMA DownTouches == ASSUME BlockInv, NEW s, StoreDown(s) PROVE StoreTouched
BY DEF StoreDown, BlockInv, BlockType, StoreTouched

(* A clone that is taken is as blocked as its store. *)
Cloned ==
  /\ sched' = sched /\ stopping' = stopping /\ stores' = stores /\ lost' = lost
  /\ pending'.add = pending.add /\ "add" \in DOMAIN pending'
  /\ \A c \in clones' \ clones : /\ c.store \in DOMAIN stores
                                 /\ "blocked" \in DOMAIN c.as
                                 /\ c.as.blocked = stores[c.store].blocked

LEMMA ClonedKeeps == BlockInv /\ Cloned => BlockInv'
<1> SUFFICES ASSUME BlockInv, Cloned PROVE BlockInv'
  OBVIOUS
<1>1. Blockers' = Blockers
  BY DEF Cloned, Blockers
<1>2. BlockType'
  BY DEF Cloned, BlockInv, BlockType
<1> QED BY <1>1, <1>2 DEF Cloned, BlockInv

LEMMA RequestClones ==
  ASSUME BlockInv, NEW s, NEW l, NEW r, RemoveStore(s) \/ SetStoreWeight(s, l, r) \/ PutStore(s)
  PROVE  Cloned
<1> DEFINE b == stores[s].blocked
<1>1. s \in DOMAIN stores
  BY DEF RemoveStore, SetStoreWeight, PutStore
<1>2. "blocked" \in DOMAIN stores[s] /\ "add" \in DOMAIN pending
  BY <1>1 DEF BlockInv, BlockType
<1>3. CASE RemoveStore(s)
  <2> DEFINE x == [stores[s] EXCEPT !.state = "Offline"]
  <2>1. "blocked" \in DOMAIN x /\ x.blocked = b
    BY <1>2
  <2> HIDE DEF x
  <2>2. clones' = clones \cup {[store |-> s, as |-> x]}
    BY <1>3 DEF RemoveStore, clone, x
  <2> QED BY <1>1, <1>2, <1>3, <2>1, <2>2 DEF RemoveStore, Cloned
<1>4. CASE SetStoreWeight(s, l, r)
  <2> DEFINE x == [stores[s] EXCEPT !.leaderWeight = l, !.regionWeight = r]
  <2>1. "blocked" \in DOMAIN x /\ x.blocked = b
    BY <1>2
  <2> HIDE DEF x
  <2>2. clones' = clones \cup {[store |-> s, as |-> x]}
    BY <1>4 DEF SetStoreWeight, clone, x
  <2> QED BY <1>1, <1>2, <1>4, <2>1, <2>2 DEF SetStoreWeight, Cloned
<1>5. CASE PutStore(s)
  BY <1>1, <1>2, <1>5 DEF PutStore, clone, Cloned
<1> QED BY <1>3, <1>4, <1>5

(* A clone that is put back is as blocked as its store is now, or the      *)
(* store is lost.                                                          *)
LEMMA PutKeeps == ASSUME BlockInv, NEW c \in clones, putStore(c) PROVE BlockInv'
<1>1. /\ sched' = sched /\ stopping' = stopping /\ pending' = pending /\ clones' = clones \ {c}
      /\ stores' = [stores EXCEPT ![c.store] = c.as]
      /\ lost' = IF c.as.blocked # stores[c.store].blocked THEN lost \cup {c.store} ELSE lost
  BY DEF putStore
<1>2. /\ c.store \in DOMAIN stores /\ "blocked" \in DOMAIN c.as /\ c.as.blocked \in BOOLEAN
  BY DEF BlockInv, BlockType
<1>3. /\ DOMAIN stores' = DOMAIN stores /\ stores'[c.store] = c.as
      /\ \A t \in DOMAIN stores : t # c.store => stores'[t] = stores[t]
  BY <1>1, <1>2
<1>4. lost \subseteq lost' /\ \A t \in DOMAIN stores \ lost' : stores'[t].blocked = stores[t].blocked
  BY <1>1, <1>3
<1>5. Blockers' = Blockers
  BY <1>1 DEF Blockers
<1>6. BlockType'
  BY <1>1, <1>2, <1>3 DEF BlockInv, BlockType
<1>7. \A n \in Blockers' : n.store \in DOMAIN stores' /\ (n.store \notin lost' => stores'[n.store].blocked)
  BY <1>3, <1>4, <1>5 DEF BlockInv
<1>8. \A m, n \in Blockers' : m.store = n.store /\ n.store \notin lost' => m = n
  BY <1>4, <1>5 DEF BlockInv
<1>9. \A n \in (DOMAIN sched \cap stopping)' : blocks(n) => n.store \in lost'
  BY <1>1, <1>4 DEF BlockInv
<1>10. \A t \in DOMAIN stores' \ lost' : stores'[t].blocked => \E n \in Blockers' : n.store = t
  BY <1>3, <1>4, <1>5 DEF BlockInv
<1> QED BY <1>6, <1>7, <1>8, <1>9, <1>10 DEF BlockInv

-----------------------------------------------------------------------------
LEMMA NextBlock == BlockInv /\ [Next]_vars => BlockInv'
<1> SUFFICES ASSUME BlockInv, [Next]_vars PROVE BlockInv'
  OBVIOUS
<1>1. CASE Work
  <2>1. ASSUME NEW s \in stopping, Cleanup(s) PROVE BlockInv'
    BY <2>1, CleanupKeeps
  <2>3. ASSUME NEW c \in clones, putStore(c) PROVE BlockInv'
    BY <2>3, PutKeeps
  <2>2. CASE \/ \E r \in Ids : Heartbeat(r) \/ PatrolRegion(r) \/ Timeout(r) \/ StepLeader(r)
             \/ \E r \in DOMAIN tasks : StepTask(r)
             \/ \E s \in DOMAIN sched : RunScheduler(s)
             \/ CheckOperators
    BY <2>2, WorkQuiet, QuietKeeps
  <2> QED BY <1>1, <2>1, <2>2, <2>3 DEF Work
<1>2. CASE Events
  <2>1. ASSUME NEW s, AddScheduler(s) PROVE BlockInv'
    BY <2>1, AddKeeps
  <2>2. ASSUME NEW s, RemoveScheduler(s) PROVE BlockInv'
    BY <2>2, RemoveKeeps
  <2>3. ASSUME NEW rules, readUserConfig(rules) PROVE BlockInv'
    BY <2>3, RulesKeep
  <2>4. ASSUME NEW s, AddNode(s) PROVE BlockInv'
    BY <2>4, AddNodeKeeps
  <2>5. ASSUME NEW s, StoreDown(s) PROVE BlockInv'
    BY <2>5, DownTouches, TouchedKeeps
  <2>6. ASSUME NEW s, RemoveStore(s) \/ SetStoreWeight(s, 2, 2) \/ PutStore(s) PROVE BlockInv'
    BY <2>6, RequestClones, ClonedKeeps
  <2>7. CASE \/ Tick
             \/ \E r \in pending.scatter : ScatterRegion(r)
             \/ \E r \in pending.admin : AdminOperator(r)
             \/ \E r \in Ids : StepSplit(r)
             \/ \E r \in pending.write : Write(r)
             \/ \E s \in pending.delete : DeleteNode(s)
    BY <2>7, EventQuiet, QuietKeeps
  <2> QED BY <1>2, <2>1, <2>2, <2>3, <2>4, <2>5, <2>6, <2>7 DEF Events
<1>3. CASE UNCHANGED vars
  <2>1. Quiet
    BY <1>3 DEF vars, Quiet, BlockInv, BlockType
  <2> QED BY <2>1, QuietKeeps
<1> QED BY <1>1, <1>2, <1>3 DEF Next

(* A store is blocked exactly while one evict-leader or grant-leader       *)
(* scheduler for it exists or has yet to clean up (evict_leader.go and     *)
(* grant_leader.go: Prepare refuses a blocked store, Cleanup unblocks),    *)
(* whatever the cluster, the schedulers and the user's rules are: removing *)
(* a scheduler and adding another for its store before the first has       *)
(* cleaned up never unblocks a store that is still held.  Only a clone     *)
(* that was taken of the store before a BlockStore or UnblockStore and put *)
(* back after it (RemoveStore, SetStoreWeight, PutStore) can do that, and  *)
(* then to this store alone.                                               *)
THEOREM StoresBlockedByOne == Spec => []BlockedByOne
<1>1. Spec => []BlockInv
  BY InitBlock, NextBlock, PTL DEF Spec
<1> QED BY <1>1, InvImplies, PTL

-----------------------------------------------------------------------------
(* What an operator that is about to do its step p owes the region it is   *)
(* for, and that Check, which passes over finished steps, keeps it.        *)

Promotes == {"AddPeer", "AddLightPeer", "PromoteLearner"}
Learns   == {"AddLearner", "AddLightLearner"}
Places   == Promotes \cup Learns

(* A removal that would hit the leader has a transfer before it, away from *)
(* the removed store; and a transfer goes to a voter, or to a store that   *)
(* an earlier step makes one.                                              *)
Led(steps, p, region) ==
  \A j \in p .. Len(steps) :
    /\ steps[j].type = "RemovePeer" =>
         /\ steps[j].from = region.leader =>
              \E i \in p .. j - 1 : steps[i].type = "TransferLeader"
         /\ \A i \in p .. Len(steps) :
              steps[i].type = "TransferLeader" => steps[i].to # steps[j].from
    /\ steps[j].type = "TransferLeader" =>
         \/ steps[j].to \in GetVoters(region)
         \/ \E i \in p .. j - 1 : steps[i].type \in Promotes /\ steps[i].to = steps[j].to

(* There is one removal at most; the voter it takes is one too many, or an *)
(* earlier step adds another.                                              *)
Covered(steps, p, region, max) ==
  \A j \in p .. Len(steps) :
    steps[j].type = "RemovePeer" =>
      /\ \A i \in p .. Len(steps) : steps[i].type = "RemovePeer" => i = j
      /\ steps[j].from \in GetVoters(region) =>
           \/ Cardinality(GetVoters(region)) > max
           \/ \E i \in p .. j - 1 : /\ steps[i].type \in Promotes
                                    /\ steps[i].to \notin GetVoters(region)

(* Peers are added on one store only, and while there is room for one.     *)
Modest(steps, p, region, max) ==
  \A i \in p .. Len(steps) :
    steps[i].type \in Places =>
      /\ \A j \in p .. Len(steps) : steps[j].type \in Places => steps[j].to = steps[i].to
      /\ steps[i].to \notin DOMAIN region.peers => Cardinality(DOMAIN region.peers) <= max

LEMMA LeastOf ==
  ASSUME NEW T, T \subseteq Nat, T # {}
  PROVE  \E x \in T : \A y \in T : x <= y
<1> DEFINE R == OpToRel(<, Nat)
<1>1. IsWellFoundedOn(R, Nat)
  BY NatLessThanWellFounded, Zenon
<1> HIDE DEF R
<1>2. PICK x \in T : \A y \in T : ~(<<y, x>> \in R)
  BY <1>1, WFMin
<1>3. \A y \in T : ~(y < x)
  BY <1>2 DEF R, OpToRel
<1> QED
  BY <1>3

(* Check stops at the first step that is not finished. *)
LEMMA CheckStops ==
  ASSUME NEW op, NEW region, Len(op.steps) \in Nat, op.currentStep \in Nat,
         ~(Check(op, region) > Len(op.steps))
  PROVE  /\ Check(op, region) \in op.currentStep .. Len(op.steps)
         /\ Check(op, region) \in Nat
         /\ ~IsFinish(op.steps[Check(op, region)], region)
         /\ \A i \in op.currentStep .. Check(op, region) - 1 : IsFinish(op.steps[i], region)
<1> DEFINE n == Len(op.steps)
           c == op.currentStep
           F(i) == IsFinish(op.steps[i], region)
           U == {i \in c .. n : ~F(i)}
           pos == Check(op, region)
<1>1. pos = IF U = {} THEN n + 1 ELSE CHOOSE i \in U : \A j \in U : i <= j
  BY DEF Check
<1>2. n \in Nat /\ c \in Nat /\ ~(pos > n)
  OBVIOUS
<1>3. \A i : i \in U <=> i \in c .. n /\ ~F(i)
  OBVIOUS
<1> SUFFICES pos \in c .. n /\ pos \in Nat /\ ~F(pos) /\ \A i \in c .. pos - 1 : F(i)
  OBVIOUS
<1> HIDE DEF n, c, F, U, pos
<1>4. U # {}
  BY <1>1, <1>2
<1>5. U \subseteq Nat
  BY <1>2, <1>3
<1>6. \E i \in U : \A j \in U : i <= j
  BY <1>4, <1>5, LeastOf
<1>7. pos \in U /\ \A j \in U : pos <= j
  BY <1>1, <1>4, <1>6
<1>8. pos \in c .. n /\ pos \in Nat /\ ~F(pos)
  BY <1>2, <1>3, <1>7
<1>9. ASSUME NEW i \in c .. pos - 1 PROVE F(i)
  <2>1. i \in c .. n /\ i < pos
    BY <1>2, <1>8
  <2> QED BY <1>3, <1>7, <1>8, <2>1
<1> QED BY <1>8, <1>9

(* What a finished step says of its region. *)
LEMMA FinishFacts ==
  ASSUME NEW step, NEW region, IsFinish(step, region)
  PROVE  /\ step.type = "TransferLeader" => region.leader = step.to
         /\ step.type \in Promotes => step.to \in GetVoters(region)
         /\ step.type \in Learns => step.to \in DOMAIN region.peers
         /\ step.type = "RemovePeer" => step.from \notin DOMAIN region.peers
<1>1. step.type = "TransferLeader" => region.leader = step.to
  BY DEF IsFinish
<1>2. step.type \in {"AddPeer", "AddLightPeer"} => added(region, step, FALSE)
  BY DEF IsFinish
<1>3. step.type \in Learns => added(region, step, TRUE)
  BY DEF IsFinish, Learns
<1>4. step.type = "PromoteLearner" => GetStoreVoter(region, step.to)
  BY DEF IsFinish
<1>5. step.type = "RemovePeer" => ~GetStorePeer(region, step.from)
  BY DEF IsFinish
<1>6. added(region, step, FALSE) => step.to \in GetVoters(region)
  BY DEF added, GetStorePeer, GetVoters, GetLearners
<1>7. GetStoreVoter(region, step.to) => step.to \in GetVoters(region)
  BY DEF GetStoreVoter, GetStorePeer, GetVoters, GetLearners
<1>8. added(region, step, TRUE) => step.to \in DOMAIN region.peers
  BY DEF added, GetStorePeer
<1> QED
  BY <1>1, <1>2, <1>3, <1>4, <1>5, <1>6, <1>7, <1>8 DEF Promotes, GetStorePeer

(* Passing over finished steps keeps what holds of the operator. *)
Passed(steps, p, q, region) ==
  /\ Len(steps) \in Nat /\ p \in Nat /\ q \in p .. Len(steps)
  /\ \A i \in p .. q - 1 : IsFinish(steps[i], region)

LEMMA PassLed ==
  ASSUME NEW steps, NEW p, NEW q, NEW region, Passed(steps, p, q, region), Led(steps, p, region)
  PROVE  Led(steps, q, region)
<1> DEFINE n == Len(steps)
           S(i) == steps[i]
           V == GetVoters(region)
<1>1. n \in Nat /\ p \in Nat /\ q \in p .. n
  BY DEF Passed
<1>2. \A i \in p .. q - 1 : /\ S(i).type = "TransferLeader" => region.leader = S(i).to
                            /\ S(i).type \in Promotes => S(i).to \in V
  BY FinishFacts DEF Passed
<1>3. \A j \in p .. n :
    /\ S(j).type = "RemovePeer" =>
         /\ S(j).from = region.leader =>
              \E i \in p .. j - 1 : S(i).type = "TransferLeader"
         /\ \A i \in p .. n :
              S(i).type = "TransferLeader" => S(i).to # S(j).from
    /\ S(j).type = "TransferLeader" =>
         \/ S(j).to \in V
         \/ \E i \in p .. j - 1 : S(i).type \in Promotes /\ S(i).to = S(j).to
  BY DEF Led
<1> SUFFICES \A j \in q .. n :
    /\ S(j).type = "RemovePeer" =>
         /\ S(j).from = region.leader =>
              \E i \in q .. j - 1 : S(i).type = "TransferLeader"
         /\ \A i \in q .. n :
              S(i).type = "TransferLeader" => S(i).to # S(j).from
    /\ S(j).type = "TransferLeader" =>
         \/ S(j).to \in V
         \/ \E i \in q .. j - 1 : S(i).type \in Promotes /\ S(i).to = S(j).to
  BY DEF Led
<1> HIDE DEF n, S, V
<1> TAKE j \in q .. n
<1>4. j \in p .. n
  BY <1>1
<1>5. ASSUME S(j).type = "RemovePeer", S(j).from = region.leader
      PROVE  \E i \in q .. j - 1 : S(i).type = "TransferLeader"
  <2>1. PICK i \in p .. j - 1 : S(i).type = "TransferLeader"
    BY <1>3, <1>4, <1>5
  <2>2. i \in p .. n
    BY <1>1, <1>4, <2>1
  <2>3. S(i).to # region.leader
    BY <1>3, <1>4, <1>5, <2>1, <2>2
  <2>4. i \notin p .. q - 1
    BY <1>2, <2>1, <2>3
  <2>5. i \in q .. j - 1
    BY <1>1, <2>1, <2>4
  <2> QED BY <2>1, <2>5
<1>6. ASSUME S(j).type = "TransferLeader", S(j).to \notin V
      PROVE  \E i \in q .. j - 1 : S(i).type \in Promotes /\ S(i).to = S(j).to
  <2>1. PICK i \in p .. j - 1 : S(i).type \in Promotes /\ S(i).to = S(j).to
    BY <1>3, <1>4, <1>6
  <2>2. i \notin p .. q - 1
    BY <1>2, <1>6, <2>1
  <2>3. i \in q .. j - 1
    BY <1>1, <2>1, <2>2
  <2> QED BY <2>1, <2>3
<1>7. ASSUME S(j).type = "RemovePeer", NEW i \in q .. n, S(i).type = "TransferLeader"
      PROVE S(i).to # S(j).from
  <2>1. i \in p .. n
    BY <1>1
  <2> QED BY <1>3, <1>4, <1>7, <2>1
<1> QED BY <1>5, <1>6, <1>7

LEMMA PassCovered ==
  ASSUME NEW steps, NEW p, NEW q, NEW region, NEW max,
         Passed(steps, p, q, region), Covered(steps, p, region, max)
  PROVE  Covered(steps, q, region, max)
<1> DEFINE n == Len(steps)
           S(i) == steps[i]
           V == GetVoters(region)
           many == Cardinality(GetVoters(region)) > max
<1>1. n \in Nat /\ p \in Nat /\ q \in p .. n
  BY DEF Passed
<1>2. \A i \in p .. q - 1 : S(i).type \in Promotes => S(i).to \in V
  BY FinishFacts DEF Passed
<1>3. \A j \in p .. n :
        S(j).type = "RemovePeer" =>
          /\ \A i \in p .. n : S(i).type = "RemovePeer" => i = j
          /\ S(j).from \in V =>
               many \/ \E i \in p .. j - 1 : S(i).type \in Promotes /\ S(i).to \notin V
  BY DEF Covered
<1> SUFFICES \A j \in q .. n :
        S(j).type = "RemovePeer" =>
          /\ \A i \in q .. n : S(i).type = "RemovePeer" => i = j
          /\ S(j).from \in V =>
               many \/ \E i \in q .. j - 1 : S(i).type \in Promotes /\ S(i).to \notin V
  BY DEF Covered
<1> HIDE DEF n, S, V, many
<1> TAKE j \in q .. n
<1>4. j \in p .. n /\ q .. n \subseteq p .. n
  BY <1>1
<1>5. ASSUME S(j).type = "RemovePeer", S(j).from \in V, ~many
      PROVE  \E i \in q .. j - 1 : S(i).type \in Promotes /\ S(i).to \notin V
  <2>1. PICK i \in p .. j - 1 : S(i).type \in Promotes /\ S(i).to \notin V
    BY <1>3, <1>4, <1>5
  <2>2. i \notin p .. q - 1
    BY <1>2, <2>1
  <2>3. i \in q .. j - 1
    BY <1>1, <2>1, <2>2
  <2> QED BY <2>1, <2>3
<1> QED BY <1>3, <1>4, <1>5

LEMMA PassModest ==
  ASSUME NEW steps, NEW p, NEW q, NEW region, NEW max,
         Passed(steps, p, q, region), Modest(steps, p, region, max)
  PROVE  Modest(steps, q, region, max)
<1>1. q .. Len(steps) \subseteq p .. Len(steps)
  BY DEF Passed
<1> QED BY <1>1 DEF Modest

-----------------------------------------------------------------------------
(* What a step does to a region, and that the rest of the operator then    *)
(* fits the region it has become.                                          *)

(* What the simulator makes of a step of a region: a becomes b. *)
Moved(step, a, b) ==
  \/ b.leader = a.leader /\ DOMAIN b.peers = DOMAIN a.peers /\ GetVoters(b) = GetVoters(a)
  \/ /\ step.type \in Promotes /\ b.leader = a.leader
     /\ DOMAIN b.peers = DOMAIN a.peers \cup {step.to}
     /\ GetVoters(b) = GetVoters(a) \cup {step.to}
  \/ /\ step.type \in Learns /\ b.leader = a.leader
     /\ DOMAIN b.peers = DOMAIN a.peers \cup {step.to}
     /\ GetVoters(b) = GetVoters(a)
  \/ /\ step.type = "RemovePeer" /\ b.leader = a.leader
     /\ DOMAIN b.peers = DOMAIN a.peers \ {step.from}
     /\ GetVoters(b) = GetVoters(a) \ {step.from}
  \/ /\ step.type = "TransferLeader" /\ b.leader = step.to /\ step.to \in DOMAIN a.peers
     /\ DOMAIN b.peers = DOMAIN a.peers /\ GetVoters(b) = GetVoters(a)

LEMMA MoveLed ==
  ASSUME NEW steps, NEW p \in Nat, NEW a, NEW b, Len(steps) \in Nat, p <= Len(steps),
         Led(steps, p, a), Moved(steps[p], a, b), a.leader \in GetVoters(a)
  PROVE  Led(steps, p, b) /\ b.leader \in GetVoters(b)
<1> DEFINE n == Len(steps)
           S(i) == steps[i]
           V == GetVoters(a)
           W == GetVoters(b)
<1>1. n \in Nat /\ p \in p .. n /\ \A j \in p .. n : p \in p .. j - 1 \/ j = p
  OBVIOUS
<1>3. \A j \in p .. n :
    /\ S(j).type = "RemovePeer" =>
         /\ S(j).from = a.leader =>
              \E i \in p .. j - 1 : S(i).type = "TransferLeader"
         /\ \A i \in p .. n :
              S(i).type = "TransferLeader" => S(i).to # S(j).from
    /\ S(j).type = "TransferLeader" =>
         \/ S(j).to \in V
         \/ \E i \in p .. j - 1 : S(i).type \in Promotes /\ S(i).to = S(j).to
  BY DEF Led
<1>4. Led(steps, p, b) <=> \A j \in p .. n :
    /\ S(j).type = "RemovePeer" =>
         /\ S(j).from = b.leader =>
              \E i \in p .. j - 1 : S(i).type = "TransferLeader"
         /\ \A i \in p .. n :
              S(i).type = "TransferLeader" => S(i).to # S(j).from
    /\ S(j).type = "TransferLeader" =>
         \/ S(j).to \in W
         \/ \E i \in p .. j - 1 : S(i).type \in Promotes /\ S(i).to = S(j).to
  BY DEF Led
<1>5. \A i : i \notin p .. p - 1
  OBVIOUS
<1>6. a.leader \in V
  OBVIOUS
<1>7. \/ b.leader = a.leader /\ W = V
      \/ S(p).type \in Promotes /\ b.leader = a.leader /\ W = V \cup {S(p).to}
      \/ S(p).type = "RemovePeer" /\ b.leader = a.leader /\ W = V \ {S(p).from}
      \/ S(p).type = "TransferLeader" /\ b.leader = S(p).to /\ W = V
  BY DEF Moved
<1> SUFFICES Led(steps, p, b) /\ b.leader \in W
  OBVIOUS
<1> HIDE DEF n, S, V, W
<1>8. CASE b.leader = a.leader /\ V \subseteq W
  BY <1>3, <1>4, <1>6, <1>8
<1>9. CASE S(p).type = "RemovePeer" /\ b.leader = a.leader /\ W = V \ {S(p).from}
  <2>1. S(p).from # a.leader
    BY <1>1, <1>3, <1>5, <1>9
  <2>2. \A i \in p .. n : S(i).type = "TransferLeader" => S(i).to # S(p).from
    BY <1>1, <1>3, <1>9
  <2> QED BY <1>3, <1>4, <1>6, <1>9, <2>1, <2>2
<1>10. CASE S(p).type = "TransferLeader" /\ b.leader = S(p).to /\ W = V
  <2>1. S(p).to \in V
    BY <1>1, <1>3, <1>5, <1>10
  <2>2. \A j \in p .. n : S(j).type = "RemovePeer" => S(j).from # S(p).to
    BY <1>1, <1>3, <1>10
  <2> QED BY <1>3, <1>4, <1>10, <2>1, <2>2
<1> QED BY <1>7, <1>8, <1>9, <1>10

LEMMA VotersFinite ==
  ASSUME NEW region, IsFiniteSet(DOMAIN region.peers)
  PROVE  IsFiniteSet(GetVoters(region)) /\ Cardinality(GetVoters(region)) \in Nat
<1>1. GetVoters(region) \subseteq DOMAIN region.peers
  BY DEF GetVoters
<1> QED BY <1>1, FS_Subset, FS_CardinalityType

(* One more or one less. *)
LEMMA Counting ==
  ASSUME NEW T, IsFiniteSet(T), NEW x
  PROVE  /\ Cardinality(T) \in Nat
         /\ IsFiniteSet(T \cup {x}) /\ IsFiniteSet(T \ {x})
         /\ x \notin T => Cardinality(T \cup {x}) = Cardinality(T) + 1
         /\ x \in T => Cardinality(T \cup {x}) = Cardinality(T)
         /\ x \in T => Cardinality(T \ {x}) = Cardinality(T) - 1
         /\ x \notin T => Cardinality(T \ {x}) = Cardinality(T)
<1>1. x \notin T => T \ {x} = T
  OBVIOUS
<1>2. x \in T => T \cup {x} = T
  OBVIOUS
<1>3. Cardinality(T) \in Nat
  BY FS_CardinalityType
<1>4. /\ IsFiniteSet(T \cup {x})
      /\ Cardinality(T \cup {x}) = IF x \in T THEN Cardinality(T) ELSE Cardinality(T) + 1
  BY FS_AddElement
<1>5. /\ IsFiniteSet(T \ {x})
      /\ Cardinality(T \ {x}) = IF x \in T THEN Cardinality(T) - 1 ELSE Cardinality(T)
  BY FS_RemoveElement
<1> QED BY <1>3, <1>4, <1>5

(* What a step leaves of the voters: enough, unless there were too few. *)
LEMMA MoveCovered ==
  ASSUME NEW steps, NEW p \in Nat, NEW a, NEW b, NEW max \in Nat, Len(steps) \in Nat,
         p <= Len(steps), IsFiniteSet(DOMAIN a.peers),
         Covered(steps, p, a, max), Moved(steps[p], a, b)
  PROVE  /\ Cardinality(GetVoters(a)) >= max =>
              Covered(steps, p, b, max) /\ Cardinality(GetVoters(b)) >= max
<1> DEFINE n == Len(steps)
           S(i) == steps[i]
           V == GetVoters(a)
           W == GetVoters(b)
           v == Cardinality(V)
           w == Cardinality(W)
<1>1. n \in Nat /\ p \in p .. n /\ max \in Nat
  OBVIOUS
<1>2. \A j \in p .. n :
        S(j).type = "RemovePeer" =>
          /\ \A i \in p .. n : S(i).type = "RemovePeer" => i = j
          /\ S(j).from \in V =>
               v > max \/ \E i \in p .. j - 1 : S(i).type \in Promotes /\ S(i).to \notin V
  BY DEF Covered
<1>3. Covered(steps, p, b, max) <=> \A j \in p .. n :
        S(j).type = "RemovePeer" =>
          /\ \A i \in p .. n : S(i).type = "RemovePeer" => i = j
          /\ S(j).from \in W =>
               w > max \/ \E i \in p .. j - 1 : S(i).type \in Promotes /\ S(i).to \notin W
  BY DEF Covered
<1>4. \/ W = V
      \/ S(p).type \in Promotes /\ W = V \cup {S(p).to}
      \/ S(p).type = "RemovePeer" /\ W = V \ {S(p).from}
  BY DEF Moved
<1>5. IsFiniteSet(V)
  BY VotersFinite
<1>6. \A i : i \notin p .. p - 1
  OBVIOUS
<1> SUFFICES ASSUME v >= max PROVE Covered(steps, p, b, max) /\ w >= max
  OBVIOUS
<1>7. CASE W = V
  BY <1>2, <1>3, <1>7
<1>8. CASE S(p).type \in Promotes /\ W = V \cup {S(p).to} /\ S(p).to \notin V
  <2> HIDE DEF n, S, V, W
  <2>1. w = v + 1 /\ v \in Nat
    BY <1>5, <1>8, Counting
  <2> HIDE DEF v, w
  <2>2. w > max
    BY <1>1, <2>1
  <2> QED BY <1>1, <1>2, <1>3, <2>1, <2>2
<1>9. CASE S(p).type = "RemovePeer" /\ W = V \ {S(p).from} /\ S(p).from \in V
  <2> HIDE DEF n, S, V, W
  <2>1. w = v - 1 /\ v \in Nat
    BY <1>5, <1>9, Counting
  <2> HIDE DEF v, w
  <2>2. v > max
    BY <1>1, <1>2, <1>6, <1>9
  <2>3. w >= max
    BY <1>1, <2>1, <2>2
  <2>4. \A j \in p .. n : S(j).type = "RemovePeer" => j = p
    BY <1>1, <1>2, <1>9
  <2>5. S(p).from \notin W
    BY <1>9
  <2>6. \A j \in p .. n : S(j).type = "RemovePeer" => S(j).from \notin W
    BY <2>4, <2>5
  <2> QED BY <1>2, <1>3, <2>3, <2>6
<1>10. CASE S(p).type \in Promotes /\ S(p).to \in V /\ W = V \cup {S(p).to}
  <2>1. W = V
    BY <1>10
  <2> QED BY <1>7, <2>1
<1>11. CASE W = V \ {S(p).from} /\ S(p).from \notin V
  <2>1. W = V
    BY <1>11
  <2> QED BY <1>7, <2>1
<1> QED BY <1>4, <1>7, <1>8, <1>9, <1>10, <1>11

(* And of the peers: never more than one too many. *)
LEMMA MoveModest ==
  ASSUME NEW steps, NEW p \in Nat, NEW a, NEW b, NEW max \in Nat, Len(steps) \in Nat,
         p <= Len(steps), IsFiniteSet(DOMAIN a.peers),
         Modest(steps, p, a, max), Moved(steps[p], a, b),
         Cardinality(DOMAIN a.peers) <= max + 1
  PROVE  Modest(steps, p, b, max) /\ Cardinality(DOMAIN b.peers) <= max + 1
<1> DEFINE n == Len(steps)
           S(i) == steps[i]
           V == DOMAIN a.peers
           W == DOMAIN b.peers
           v == Cardinality(V)
           w == Cardinality(W)
<1>1. n \in Nat /\ p \in p .. n /\ max \in Nat /\ v <= max + 1
  OBVIOUS
<1>2. \A i \in p .. n :
        S(i).type \in Places =>
          /\ \A j \in p .. n : S(j).type \in Places => S(j).to = S(i).to
          /\ S(i).to \notin V => v <= max
  BY DEF Modest
<1>3. Modest(steps, p, b, max) <=> \A i \in p .. n :
        S(i).type \in Places =>
          /\ \A j \in p .. n : S(j).type \in Places => S(j).to = S(i).to
          /\ S(i).to \notin W => w <= max
  BY DEF Modest
<1>4. \/ W = V
      \/ S(p).type \in Places /\ W = V \cup {S(p).to}
      \/ S(p).type = "RemovePeer" /\ W = V \ {S(p).from}
  BY DEF Moved, Places
<1>5. IsFiniteSet(V)
  OBVIOUS
<1> SUFFICES Modest(steps, p, b, max) /\ w <= max + 1
  OBVIOUS
<1> HIDE DEF n, S, V, W
<1>7. CASE W = V
  <2>1. w = v
    BY <1>7
  <2> HIDE DEF v, w
  <2> QED BY <1>1, <1>2, <1>3, <1>7, <2>1
<1>8. CASE S(p).type \in Places /\ W = V \cup {S(p).to} /\ S(p).to \notin V
  <2>1. w = v + 1 /\ v \in Nat
    BY <1>5, <1>8, Counting
  <2> HIDE DEF v, w
  <2>2. w <= max + 1
    BY <1>1, <1>2, <1>8, <2>1
  <2>3. \A i \in p .. n : S(i).type \in Places => S(i).to \in W
    BY <1>1, <1>2, <1>8
  <2> QED BY <1>2, <1>3, <2>2, <2>3
<1>9. CASE W = V \ {S(p).from} /\ S(p).from \in V
  <2>1. w = v - 1 /\ v \in Nat
    BY <1>5, <1>9, Counting
  <2> HIDE DEF v, w
  <2>2. w <= max /\ w <= max + 1
    BY <1>1, <2>1
  <2> QED BY <1>2, <1>3, <2>2
<1>10. CASE S(p).type \in Places /\ S(p).to \in V /\ W = V \cup {S(p).to}
  <2>1. W = V
    BY <1>10
  <2> QED BY <1>7, <2>1
<1>11. CASE W = V \ {S(p).from} /\ S(p).from \notin V
  <2>1. W = V
    BY <1>11
  <2> QED BY <1>7, <2>1
<1> QED BY <1>4, <1>7, <1>8, <1>9, <1>10, <1>11

-----------------------------------------------------------------------------
(* The simulator's tasks are such steps.                                   *)

LEMMA AddPeerMoves ==
  ASSUME NEW a, NEW on, NEW step, Shape(a), step.type \in Promotes
  PROVE  LET b == addPeer(a, on, step)
         IN  /\ Shape(b) /\ b.id = a.id /\ b.namespace = a.namespace /\ Moved(step, a, b)
             /\ DOMAIN a.peers \subseteq on => DOMAIN b.peers \subseteq on
<1> DEFINE peers == [s \in DOMAIN a.peers \cup {step.to} |->
                       IF s = step.to THEN [id |-> step.id, learner |-> FALSE] ELSE a.peers[s]]
           m == [a EXCEPT !.peers = peers]
           b == addPeer(a, on, step)
<1> SUFFICES /\ Shape(b) /\ b.id = a.id /\ b.namespace = a.namespace /\ Moved(step, a, b)
             /\ DOMAIN a.peers \subseteq on => DOMAIN b.peers \subseteq on
  OBVIOUS
<1>1. CASE ~({a.leader, step.to} \subseteq on)
  <2>1. b = a
    BY <1>1 DEF addPeer
  <2> QED BY <2>1 DEF Moved
<1>2. CASE {a.leader, step.to} \subseteq on
  <2>1. b = withEpoch(m)
    BY <1>2 DEF addPeer
  <2>2. b = [m EXCEPT !.epoch = <<m.peers, m.start, m.end>>]
    BY <2>1 DEF withEpoch
  <2>11. DOMAIN a = RegionFields
    BY DEF Shape
  <2>10. b.epoch[1] = peers
    <3>1. DOMAIN m = RegionFields /\ m.peers = peers
      BY <2>11 DEF RegionFields
    <3> HIDE DEF m, b
    <3>2. b.epoch = <<m.peers, m.start, m.end>>
      BY <2>2, <3>1 DEF RegionFields
    <3> QED BY <3>1, <3>2
  <2>3. /\ DOMAIN b = RegionFields /\ b.peers = peers
        /\ \A f \in RegionFields \ {"epoch", "peers"} : b[f] = a[f]
    <3>1. /\ DOMAIN m = RegionFields /\ m.peers = peers
          /\ \A f \in RegionFields \ {"peers"} : m[f] = a[f]
      BY <2>11 DEF RegionFields
    <3> HIDE DEF m, b, peers
    <3>2. DOMAIN b = RegionFields /\ \A f \in RegionFields \ {"epoch"} : b[f] = m[f]
      BY <2>2, <3>1
    <3> QED BY <3>1, <3>2 DEF RegionFields
  <2> HIDE DEF b, m
  <2>4. DOMAIN peers = DOMAIN a.peers \cup {step.to}
    OBVIOUS
  <2>5. /\ peers[step.to].learner = FALSE
        /\ \A s \in DOMAIN a.peers : s # step.to => peers[s] = a.peers[s]
    OBVIOUS
  <2>6. GetVoters(b) = GetVoters(a) \cup {step.to}
    BY <2>3, <2>4, <2>5 DEF GetVoters, GetLearners
  <2>7. IsFiniteSet(DOMAIN a.peers \cup {step.to})
    BY Counting DEF Shape
  <2>8. Moved(step, a, b)
    BY <2>3, <2>4, <2>6 DEF Moved, RegionFields
  <2>9. Shape(b)
    BY <2>3, <2>4, <2>7, <2>10 DEF Shape, RegionFields
  <2> QED BY <1>2, <2>3, <2>6, <2>8, <2>9 DEF RegionFields
<1> QED BY <1>1, <1>2

LEMMA AddLearnerMoves ==
  ASSUME NEW a, NEW on, NEW step, Shape(a), step.type \in Learns
  PROVE  LET b == addLearner(a, step)
         IN  /\ Shape(b) /\ b.id = a.id /\ b.namespace = a.namespace /\ Moved(step, a, b)
             /\ DOMAIN a.peers \cup {step.to} \subseteq on => DOMAIN b.peers \subseteq on
<1> DEFINE peers == [s \in DOMAIN a.peers \cup {step.to} |->
                       IF s = step.to THEN [id |-> step.id, learner |-> TRUE] ELSE a.peers[s]]
           m == [a EXCEPT !.peers = peers]
           b == addLearner(a, step)
<1> SUFFICES /\ Shape(b) /\ b.id = a.id /\ b.namespace = a.namespace /\ Moved(step, a, b)
             /\ DOMAIN a.peers \cup {step.to} \subseteq on => DOMAIN b.peers \subseteq on
  OBVIOUS
<1>1. CASE step.to \in DOMAIN a.peers
  <2>1. b = a
    BY <1>1 DEF addLearner, GetStorePeer
  <2> QED BY <2>1 DEF Moved
<1>2. CASE step.to \notin DOMAIN a.peers
  <2>1. b = withEpoch(m)
    BY <1>2 DEF addLearner, GetStorePeer
  <2>2. b = [m EXCEPT !.epoch = <<m.peers, m.start, m.end>>]
    BY <2>1 DEF withEpoch
  <2>11. DOMAIN a = RegionFields
    BY DEF Shape
  <2>10. b.epoch[1] = peers
    <3>1. DOMAIN m = RegionFields /\ m.peers = peers
      BY <2>11 DEF RegionFields
    <3> HIDE DEF m, b
    <3>2. b.epoch = <<m.peers, m.start, m.end>>
      BY <2>2, <3>1 DEF RegionFields
    <3> QED BY <3>1, <3>2
  <2>3. /\ DOMAIN b = RegionFields /\ b.peers = peers
        /\ \A f \in RegionFields \ {"epoch", "peers"} : b[f] = a[f]
    <3>1. /\ DOMAIN m = RegionFields /\ m.peers = peers
          /\ \A f \in RegionFields \ {"peers"} : m[f] = a[f]
      BY <2>11 DEF RegionFields
    <3> HIDE DEF m, b, peers
    <3>2. DOMAIN b = RegionFields /\ \A f \in RegionFields \ {"epoch"} : b[f] = m[f]
      BY <2>2, <3>1
    <3> QED BY <3>1, <3>2 DEF RegionFields
  <2> HIDE DEF b, m
  <2>4. DOMAIN peers = DOMAIN a.peers \cup {step.to}
    OBVIOUS
  <2>5. /\ peers[step.to].learner = TRUE
        /\ \A s \in DOMAIN a.peers : peers[s] = a.peers[s]
    BY <1>2
  <2>6. GetVoters(b) = GetVoters(a)
    BY <1>2, <2>3, <2>4, <2>5 DEF GetVoters, GetLearners
  <2>7. IsFiniteSet(DOMAIN a.peers \cup {step.to})
    BY Counting DEF Shape
  <2>8. Moved(step, a, b)
    BY <2>3, <2>4, <2>6 DEF Moved, RegionFields
  <2>9. Shape(b)
    BY <2>3, <2>4, <2>7, <2>10 DEF Shape, RegionFields
  <2> QED BY <2>3, <2>6, <2>8, <2>9 DEF RegionFields
<1> QED BY <1>1, <1>2

LEMMA RemovePeerMoves ==
  ASSUME NEW a, NEW on, NEW step, Shape(a), step.type = "RemovePeer"
  PROVE  LET b == removePeer(a, on, step)
         IN  /\ Shape(b) /\ b.id = a.id /\ b.namespace = a.namespace /\ Moved(step, a, b)
             /\ DOMAIN b.peers \subseteq DOMAIN a.peers
<1> DEFINE peers == [s \in DOMAIN a.peers \ {step.from} |-> a.peers[s]]
           down == IF nodeHealth(on, step.from) THEN {} ELSE a.down \ {step.from}
           m == [a EXCEPT !.peers = peers, !.down = down]
           b == removePeer(a, on, step)
<1> SUFFICES /\ Shape(b) /\ b.id = a.id /\ b.namespace = a.namespace /\ Moved(step, a, b)
             /\ DOMAIN b.peers \subseteq DOMAIN a.peers
  OBVIOUS
<1>1. CASE step.from \notin DOMAIN a.peers
  <2>1. b = a
    BY <1>1 DEF removePeer, GetStorePeer
  <2> QED BY <2>1 DEF Moved
<1>2. CASE step.from \in DOMAIN a.peers
  <2>1. b = withEpoch(m)
    BY <1>2 DEF removePeer, GetStorePeer
  <2>2. b = [m EXCEPT !.epoch = <<m.peers, m.start, m.end>>]
    BY <2>1 DEF withEpoch
  <2>0. down = {}
    BY DEF Shape
  <2> HIDE DEF down
  <2>11. DOMAIN a = RegionFields
    BY DEF Shape
  <2>10. b.epoch[1] = peers
    <3>1. DOMAIN m = RegionFields /\ m.peers = peers
      BY <2>11 DEF RegionFields
    <3> HIDE DEF m, b
    <3>2. b.epoch = <<m.peers, m.start, m.end>>
      BY <2>2, <3>1 DEF RegionFields
    <3> QED BY <3>1, <3>2
  <2>3. /\ DOMAIN b = RegionFields /\ b.peers = peers /\ b.down = {}
        /\ \A f \in RegionFields \ {"epoch", "peers", "down"} : b[f] = a[f]
    <3>1. /\ DOMAIN m = RegionFields /\ m.peers = peers /\ m.down = {}
          /\ \A f \in RegionFields \ {"peers", "down"} : m[f] = a[f]
      <4> DEFINE l == [a EXCEPT !.peers = peers]
      <4>1. m = [l EXCEPT !.down = down]
        OBVIOUS
      <4> HIDE DEF m, b, peers
      <4>2. /\ DOMAIN l = RegionFields /\ l.peers = peers
            /\ \A f \in RegionFields \ {"peers"} : l[f] = a[f]
        BY <2>11 DEF RegionFields
      <4> HIDE DEF l
      <4> QED BY <2>0, <4>1, <4>2 DEF RegionFields
    <3> HIDE DEF m, b, peers
    <3>2. DOMAIN b = RegionFields /\ \A f \in RegionFields \ {"epoch"} : b[f] = m[f]
      BY <2>2, <3>1
    <3> QED BY <3>1, <3>2 DEF RegionFields
  <2> HIDE DEF b, m
  <2>4. DOMAIN peers = DOMAIN a.peers \ {step.from}
    OBVIOUS
  <2>5. \A s \in DOMAIN peers : peers[s] = a.peers[s]
    OBVIOUS
  <2>6. GetVoters(b) = GetVoters(a) \ {step.from}
    BY <2>3, <2>4, <2>5 DEF GetVoters, GetLearners
  <2>7. IsFiniteSet(DOMAIN a.peers \ {step.from})
    BY Counting DEF Shape
  <2>8. Moved(step, a, b)
    BY <2>3, <2>4, <2>6 DEF Moved, RegionFields
  <2>9. Shape(b)
    BY <2>3, <2>4, <2>7, <2>10 DEF Shape, RegionFields
  <2> QED BY <2>3, <2>6, <2>8, <2>9 DEF RegionFields
<1> QED BY <1>1, <1>2

LEMMA TransferMoves ==
  ASSUME NEW a, NEW step, Shape(a), step.type = "TransferLeader"
  PROVE  LET b == transferLeader(a, step)
         IN  /\ Shape(b) /\ b.id = a.id /\ b.namespace = a.namespace /\ Moved(step, a, b)
             /\ DOMAIN b.peers = DOMAIN a.peers
<1> DEFINE b == transferLeader(a, step)
<1> SUFFICES /\ Shape(b) /\ b.id = a.id /\ b.namespace = a.namespace /\ Moved(step, a, b)
             /\ DOMAIN b.peers = DOMAIN a.peers
  OBVIOUS
<1>1. CASE ~GetStorePeer(a, step.to)
  <2>1. b = a
    BY <1>1 DEF transferLeader
  <2> QED BY <2>1 DEF Moved
<1>2. CASE GetStorePeer(a, step.to)
  <2>1. b = [a EXCEPT !.leader = step.to]
    BY <1>2 DEF transferLeader
  <2>2. /\ DOMAIN b = RegionFields /\ b.leader = step.to
        /\ \A f \in RegionFields \ {"leader"} : b[f] = a[f]
    BY <2>1 DEF Shape, RegionFields
  <2> HIDE DEF b
  <2>3. GetVoters(b) = GetVoters(a)
    BY <2>2 DEF GetVoters, GetLearners, RegionFields
  <2>4. Shape(b)
    BY <2>2 DEF Shape, RegionFields
  <2> QED BY <1>2, <2>2, <2>3, <2>4 DEF RegionFields, Moved, GetStorePeer
<1> QED BY <1>1, <1>2

StepKinds == Places \cup {"RemovePeer", "TransferLeader"}

(* A step that PD sends for region r changes this region only. *)
LEMMA TaskMoves ==
  ASSUME NEW on, NEW r \in DOMAIN regions, NEW step, Shape(regions[r]), step.type \in StepKinds,
         DOMAIN regions[r].peers \subseteq on, step.type \in Learns => step.to \in on
  PROVE  \E b : /\ responseToTask(regions, on, r, step) = [regions EXCEPT ![r] = b]
                /\ Shape(b) /\ b.id = regions[r].id /\ b.namespace = regions[r].namespace
                /\ DOMAIN b.peers \subseteq on
                /\ Moved(step, regions[r], b)
<1>1. CASE step.type \in Promotes
  <2>1. responseToTask(regions, on, r, step) = [regions EXCEPT ![r] = addPeer(regions[r], on, step)]
    BY <1>1 DEF responseToTask, Promotes
  <2> QED BY <1>1, <2>1, AddPeerMoves
<1>2. CASE step.type \in Learns
  <2>1. responseToTask(regions, on, r, step) = [regions EXCEPT ![r] = addLearner(regions[r], step)]
    BY <1>2 DEF responseToTask, Learns
  <2>2. DOMAIN regions[r].peers \cup {step.to} \subseteq on
    BY <1>2
  <2> QED BY <1>2, <2>1, <2>2, AddLearnerMoves
<1>3. CASE step.type = "RemovePeer"
  <2>1. responseToTask(regions, on, r, step) = [regions EXCEPT ![r] = removePeer(regions[r], on, step)]
    BY <1>3 DEF responseToTask
  <2> QED BY <1>3, <2>1, RemovePeerMoves
<1>4. CASE step.type = "TransferLeader"
  <2>1. responseToTask(regions, on, r, step) = [regions EXCEPT ![r] = transferLeader(regions[r], step)]
    BY <1>4 DEF responseToTask
  <2> QED BY <1>4, <2>1, TransferMoves
<1> QED BY <1>1, <1>2, <1>3, <1>4 DEF StepKinds, Places

-----------------------------------------------------------------------------
(* The step sequences that the builders put together, as tuples.           *)

LEMMA Joined ==
  ASSUME NEW S, NEW p \in Seq(S), NEW q \in Seq(S), NEW t \in Seq(S),
         Len(t) = Len(p) + Len(q),
         \A i \in 1 .. Len(t) : t[i] = IF i <= Len(p) THEN p[i] ELSE q[i - Len(p)]
  PROVE  p \o q = t
<1>1. /\ p \o q \in Seq(S) /\ Len(p \o q) = Len(p) + Len(q)
      /\ \A i \in 1 .. Len(p) + Len(q) : (p \o q)[i] = IF i <= Len(p) THEN p[i] ELSE q[i - Len(p)]
  BY ConcatProperties
<1>2. Len(p \o q) = Len(t) /\ \A i \in 1 .. Len(p \o q) : (p \o q)[i] = t[i]
  BY <1>1
<1> QED BY <1>1, <1>2, SeqEqual

LEMMA Join11 ==
  ASSUME NEW a, NEW b PROVE <<a>> \o <<b>> = <<a, b>>
<1> DEFINE S == {a, b}
           p == <<a>>
           q == <<b>>
           t == <<a, b>>
<1>1. p \in Seq(S) /\ q \in Seq(S) /\ t \in Seq(S) /\ Len(p) = 1 /\ Len(q) = 1 /\ Len(t) = 2
  OBVIOUS
<1>2. \A i \in 1 .. 2 : t[i] = IF i <= 1 THEN p[i] ELSE q[i - 1]
  OBVIOUS
<1> HIDE DEF p, q, t, S
<1>3. \A i \in 1 .. Len(t) : t[i] = IF i <= Len(p) THEN p[i] ELSE q[i - Len(p)]
  BY <1>1, <1>2
<1>4. Len(t) = Len(p) + Len(q)
  BY <1>1
<1>5. p \o q = t
  BY <1>1, <1>3, <1>4, Joined
<1> QED BY <1>5 DEF p, q, t

LEMMA Join12 ==
  ASSUME NEW a, NEW b, NEW c PROVE <<a>> \o <<b, c>> = <<a, b, c>>
<1> DEFINE S == {a, b, c}
           p == <<a>>
           q == <<b, c>>
           t == <<a, b, c>>
<1>1. p \in Seq(S) /\ q \in Seq(S) /\ t \in Seq(S) /\ Len(p) = 1 /\ Len(q) = 2 /\ Len(t) = 3
  OBVIOUS
<1>2. \A i \in 1 .. 3 : t[i] = IF i <= 1 THEN p[i] ELSE q[i - 1]
  OBVIOUS
<1> HIDE DEF p, q, t, S
<1>3. \A i \in 1 .. Len(t) : t[i] = IF i <= Len(p) THEN p[i] ELSE q[i - Len(p)]
  BY <1>1, <1>2
<1>4. Len(t) = Len(p) + Len(q)
  BY <1>1
<1>5. p \o q = t
  BY <1>1, <1>3, <1>4, Joined
<1> QED BY <1>5 DEF p, q, t

LEMMA Join21 ==
  ASSUME NEW a, NEW b, NEW c PROVE <<a, b>> \o <<c>> = <<a, b, c>>
<1> DEFINE S == {a, b, c}
           p == <<a, b>>
           q == <<c>>
           t == <<a, b, c>>
<1>1. p \in Seq(S) /\ q \in Seq(S) /\ t \in Seq(S) /\ Len(p) = 2 /\ Len(q) = 1 /\ Len(t) = 3
  OBVIOUS
<1>2. \A i \in 1 .. 3 : t[i] = IF i <= 2 THEN p[i] ELSE q[i - 2]
  OBVIOUS
<1> HIDE DEF p, q, t, S
<1>3. \A i \in 1 .. Len(t) : t[i] = IF i <= Len(p) THEN p[i] ELSE q[i - Len(p)]
  BY <1>1, <1>2
<1>4. Len(t) = Len(p) + Len(q)
  BY <1>1
<1>5. p \o q = t
  BY <1>1, <1>3, <1>4, Joined
<1> QED BY <1>5 DEF p, q, t

LEMMA Join22 ==
  ASSUME NEW a, NEW b, NEW c, NEW d PROVE <<a, b>> \o <<c, d>> = <<a, b, c, d>>
<1> DEFINE S == {a, b, c, d}
           p == <<a, b>>
           q == <<c, d>>
           t == <<a, b, c, d>>
<1>1. p \in Seq(S) /\ q \in Seq(S) /\ t \in Seq(S) /\ Len(p) = 2 /\ Len(q) = 2 /\ Len(t) = 4
  OBVIOUS
<1>2. \A i \in 1 .. 4 : t[i] = IF i <= 2 THEN p[i] ELSE q[i - 2]
  OBVIOUS
<1> HIDE DEF p, q, t, S
<1>3. \A i \in 1 .. Len(t) : t[i] = IF i <= Len(p) THEN p[i] ELSE q[i - Len(p)]
  BY <1>1, <1>2
<1>4. Len(t) = Len(p) + Len(q)
  BY <1>1
<1>5. p \o q = t
  BY <1>1, <1>3, <1>4, Joined
<1> QED BY <1>5 DEF p, q, t

LEMMA Join32 ==
  ASSUME NEW a, NEW b, NEW c, NEW d, NEW e PROVE <<a, b, c>> \o <<d, e>> = <<a, b, c, d, e>>
<1> DEFINE S == {a, b, c, d, e}
           p == <<a, b, c>>
           q == <<d, e>>
           t == <<a, b, c, d, e>>
<1>1. p \in Seq(S) /\ q \in Seq(S) /\ t \in Seq(S) /\ Len(p) = 3 /\ Len(q) = 2 /\ Len(t) = 5
  OBVIOUS
<1>2. \A i \in 1 .. 5 : t[i] = IF i <= 3 THEN p[i] ELSE q[i - 3]
  OBVIOUS
<1> HIDE DEF p, q, t, S
<1>3. \A i \in 1 .. Len(t) : t[i] = IF i <= Len(p) THEN p[i] ELSE q[i - Len(p)]
  BY <1>1, <1>2
<1>4. Len(t) = Len(p) + Len(q)
  BY <1>1
<1>5. p \o q = t
  BY <1>1, <1>3, <1>4, Joined
<1> QED BY <1>5 DEF p, q, t

-----------------------------------------------------------------------------
(* All plans have one form, and where it is made for the region at hand it *)
(* owes nothing.                                                           *)

(* What PD wants of an operator that starts with its first step. *)
Sound(steps, region, max, room) ==
  /\ Len(steps) \in Nat
  /\ \A i \in 1 .. Len(steps) : steps[i].type \in StepKinds
  /\ Led(steps, 1, region)
  /\ Covered(steps, 1, region, max)
  /\ room => Modest(steps, 1, region, max)

(* The plan of every operator: k steps that put a peer on store t, then    *)
(* the leadership goes to c, and what remains is the removal of x's peer.  *)
Plan(steps, k, m, t, c, x) ==
  /\ Len(steps) \in Nat /\ k \in Nat /\ m \in Nat /\ k <= m /\ m <= Len(steps) /\ Len(steps) <= m + 1
  /\ \A i \in 1 .. k : steps[i].type \in Places /\ steps[i].to = t
  /\ k > 0 => steps[k].type \in Promotes
  /\ \A i \in k + 1 .. m : steps[i].type = "TransferLeader" /\ steps[i].to = c
  /\ \A i \in m + 1 .. Len(steps) : steps[i].type = "RemovePeer" /\ steps[i].from = x

LEMMA PlanSound ==
  ASSUME NEW steps, NEW k, NEW m, NEW t, NEW c, NEW x, NEW region, NEW max, NEW room,
         Plan(steps, k, m, t, c, x),
         m < Len(steps) /\ x = region.leader => k < m,
         k < m => c \in GetVoters(region) \/ (k > 0 /\ c = t),
         k < m /\ m < Len(steps) => c # x,
         m < Len(steps) /\ x \in GetVoters(region) =>
           Cardinality(GetVoters(region)) > max \/ (k > 0 /\ t \notin GetVoters(region)),
         room /\ k > 0 /\ t \notin DOMAIN region.peers => Cardinality(DOMAIN region.peers) <= max
  PROVE  Sound(steps, region, max, room)
<1> DEFINE n == Len(steps)
           S(i) == steps[i]
           V == GetVoters(region)
           P == DOMAIN region.peers
           many == Cardinality(V) > max
           small == Cardinality(P) <= max
           lead == region.leader
<1>1. n \in Nat /\ k \in Nat /\ m \in Nat /\ k <= m /\ m <= n /\ n <= m + 1
  BY DEF Plan
<1>2. \A i \in 1 .. k : S(i).type \in Places /\ S(i).to = t
  BY DEF Plan
<1>3. k > 0 => S(k).type \in Promotes
  BY DEF Plan
<1>4. \A i \in k + 1 .. m : S(i).type = "TransferLeader" /\ S(i).to = c
  BY DEF Plan
<1>5. \A i \in m + 1 .. n : S(i).type = "RemovePeer" /\ S(i).from = x
  BY DEF Plan
<1>6. /\ m < n /\ x = lead => k < m
      /\ k < m => c \in V \/ (k > 0 /\ c = t)
      /\ k < m /\ m < n => c # x
      /\ m < n /\ x \in V => many \/ (k > 0 /\ t \notin V)
      /\ room /\ k > 0 /\ t \notin P => small
  OBVIOUS
<1>7. "RemovePeer" \notin Places /\ "TransferLeader" \notin Places /\ Promotes \subseteq Places
  BY DEF Places, Promotes, Learns
<1>8. Led(steps, 1, region) <=> \A j \in 1 .. n :
    /\ S(j).type = "RemovePeer" =>
         /\ S(j).from = lead =>
              \E i \in 1 .. j - 1 : S(i).type = "TransferLeader"
         /\ \A i \in 1 .. n :
              S(i).type = "TransferLeader" => S(i).to # S(j).from
    /\ S(j).type = "TransferLeader" =>
         \/ S(j).to \in V
         \/ \E i \in 1 .. j - 1 : S(i).type \in Promotes /\ S(i).to = S(j).to
  BY DEF Led
<1>9. Covered(steps, 1, region, max) <=> \A j \in 1 .. n :
        S(j).type = "RemovePeer" =>
          /\ \A i \in 1 .. n : S(i).type = "RemovePeer" => i = j
          /\ S(j).from \in V =>
               many \/ \E i \in 1 .. j - 1 : S(i).type \in Promotes /\ S(i).to \notin V
  BY DEF Covered
<1>10. Modest(steps, 1, region, max) <=> \A i \in 1 .. n :
        S(i).type \in Places =>
          /\ \A j \in 1 .. n : S(j).type \in Places => S(j).to = S(i).to
          /\ S(i).to \notin P => small
  BY DEF Modest
<1>11. Sound(steps, region, max, room) <=>
          /\ n \in Nat /\ \A i \in 1 .. n : S(i).type \in StepKinds
          /\ Led(steps, 1, region) /\ Covered(steps, 1, region, max)
          /\ room => Modest(steps, 1, region, max)
  BY DEF Sound
<1>12. StepKinds = Places \cup {"RemovePeer", "TransferLeader"}
  BY DEF StepKinds
<1> HIDE DEF n, S, V, P, many, small, lead
<1>13. \A i \in 1 .. n : i \in 1 .. k \/ i \in k + 1 .. m \/ (i \in m + 1 .. n /\ i = n /\ i = m + 1 /\ m < n)
  BY <1>1
<1>14. \A i \in 1 .. n : S(i).type = "RemovePeer" => i = n /\ i = m + 1 /\ m < n /\ S(i).from = x
  BY <1>2, <1>4, <1>5, <1>7, <1>13
<1>15. \A i \in 1 .. n : S(i).type = "TransferLeader" => i \in k + 1 .. m /\ S(i).to = c
  BY <1>2, <1>4, <1>5, <1>7, <1>13
<1>16. \A i \in 1 .. n : S(i).type \in Places => i \in 1 .. k /\ S(i).to = t
  BY <1>2, <1>4, <1>5, <1>7, <1>13
<1>17. Led(steps, 1, region)
  <2>1. ASSUME NEW j \in 1 .. n, S(j).type = "RemovePeer", S(j).from = lead
        PROVE  \E i \in 1 .. j - 1 : S(i).type = "TransferLeader"
    <3>1. k < m /\ j = m + 1
      BY <1>6, <1>14, <2>1
    <3>2. m \in k + 1 .. m /\ m \in 1 .. j - 1
      BY <1>1, <3>1
    <3> QED BY <1>4, <3>2
  <2>2. ASSUME NEW j \in 1 .. n, S(j).type = "RemovePeer", NEW i \in 1 .. n,
               S(i).type = "TransferLeader"
        PROVE  S(i).to # S(j).from
    <3>1. k < m /\ m < n
      BY <1>1, <1>14, <1>15, <2>2
    <3> QED BY <1>6, <1>14, <1>15, <2>2, <3>1
  <2>3. ASSUME NEW j \in 1 .. n, S(j).type = "TransferLeader", S(j).to \notin V
        PROVE  \E i \in 1 .. j - 1 : S(i).type \in Promotes /\ S(i).to = S(j).to
    <3>1. j \in k + 1 .. m /\ S(j).to = c /\ k < m
      BY <1>1, <1>15, <2>3
    <3>2. k > 0 /\ c = t
      BY <1>6, <2>3, <3>1
    <3>3. k \in 1 .. k /\ k \in 1 .. j - 1
      BY <1>1, <3>1, <3>2
    <3> QED BY <1>2, <1>3, <3>1, <3>2, <3>3
  <2> QED BY <1>8, <2>1, <2>2, <2>3
<1>18. Covered(steps, 1, region, max)
  <2>1. ASSUME NEW j \in 1 .. n, S(j).type = "RemovePeer", S(j).from \in V, ~many
        PROVE  \E i \in 1 .. j - 1 : S(i).type \in Promotes /\ S(i).to \notin V
    <3>1. k > 0 /\ t \notin V /\ j = m + 1
      BY <1>6, <1>14, <2>1
    <3>2. k \in 1 .. k /\ k \in 1 .. j - 1
      BY <1>1, <3>1
    <3> QED BY <1>2, <1>3, <3>1, <3>2
  <2>2. \A j \in 1 .. n : S(j).type = "RemovePeer" =>
          \A i \in 1 .. n : S(i).type = "RemovePeer" => i = j
    BY <1>14
  <2> QED BY <1>9, <2>1, <2>2
<1>19. ASSUME room PROVE Modest(steps, 1, region, max)
  <2>1. ASSUME NEW i \in 1 .. n, S(i).type \in Places, S(i).to \notin P PROVE small
    <3>1. k > 0 /\ S(i).to = t
      BY <1>1, <1>16, <2>1
    <3> QED BY <1>6, <1>19, <2>1, <3>1
  <2> QED BY <1>10, <1>16, <2>1
<1>20. \A i \in 1 .. n : S(i).type \in StepKinds
  BY <1>2, <1>4, <1>5, <1>12, <1>13
<1> QED BY <1>1, <1>11, <1>17, <1>18, <1>19, <1>20

-----------------------------------------------------------------------------
(* Sums. MapThenSumSet takes the elements of a set one by one, as CHOOSE   *)
(* gives them: Sums says that h[s] is the sum of g over s, for every s in  *)
(* D, if it is taken in that order.                                        *)

anyOf(s) == CHOOSE x \in s : TRUE

Sums(h, g, D) ==
  /\ DOMAIN h = D
  /\ \A s \in D : h[s] \in Int /\ h[s] = IF s = {} THEN 0 ELSE g[anyOf(s)] + h[s \ {anyOf(s)}]

(* The sum of g over S. *)
SumsOn(h, g, S) == Sums(h, g, SUBSET S)

Total(g, S) == (CHOOSE h : SumsOn(h, g, S))[S]

LEMMA OneIn == ASSUME NEW s, s # {} PROVE anyOf(s) \in s
  BY DEF anyOf

(* Up to a size, hence for all subsets. *)
Small(S, n) == {s \in SUBSET S : Cardinality(s) <= n}

LEMMA SmallerSet ==
  ASSUME NEW S, IsFiniteSet(S), NEW x \in S
  PROVE  /\ IsFiniteSet(S \ {x}) /\ Cardinality(S \ {x}) = Cardinality(S) - 1
         /\ Cardinality(S) \in Nat /\ Cardinality(S \ {x}) \in Nat
  BY FS_RemoveElement, FS_CardinalityType

LEMMA SumsGrow ==
  ASSUME NEW S, IsFiniteSet(S), NEW g, \A x \in S : g[x] \in Int,
         NEW n \in Nat, NEW h, Sums(h, g, Small(S, n))
  PROVE  \E k : Sums(k, g, Small(S, n + 1))
<1> DEFINE k == [s \in Small(S, n + 1) |->
                   IF Cardinality(s) <= n THEN h[s] ELSE g[anyOf(s)] + h[s \ {anyOf(s)}]]
<1>1. \A s \in Small(S, n + 1) : IsFiniteSet(s) /\ Cardinality(s) \in Nat /\ s \subseteq S
  BY FS_Subset, FS_CardinalityType DEF Small
<1>2. \A s \in Small(S, n + 1) : s # {} => s \ {anyOf(s)} \in Small(S, n) /\ anyOf(s) \in S
                                           /\ s \ {anyOf(s)} \in Small(S, n + 1)
  <2> SUFFICES ASSUME NEW s \in Small(S, n + 1), s # {}
               PROVE  s \ {anyOf(s)} \in Small(S, n) /\ anyOf(s) \in S /\ s \ {anyOf(s)} \in Small(S, n + 1)
    OBVIOUS
  <2>1. anyOf(s) \in s
    BY OneIn
  <2>2. Cardinality(s \ {anyOf(s)}) = Cardinality(s) - 1 /\ Cardinality(s) \in Nat
    BY <1>1, <2>1, SmallerSet
  <2> QED BY <1>1, <2>1, <2>2 DEF Small
<1>3. \A s \in Small(S, n + 1) : Cardinality(s) <= n => s \in Small(S, n)
  BY DEF Small
<1>4. \A s \in Small(S, n) : s \in Small(S, n + 1) /\ Cardinality(s) <= n
  BY FS_Subset, FS_CardinalityType DEF Small
<1>5. \A s \in Small(S, n) : k[s] = h[s]
  BY <1>4
<1>6. \A s \in Small(S, n + 1) : k[s] \in Int /\ k[s] = IF s = {} THEN 0 ELSE g[anyOf(s)] + k[s \ {anyOf(s)}]
  <2> SUFFICES ASSUME NEW s \in Small(S, n + 1)
               PROVE  k[s] \in Int /\ k[s] = IF s = {} THEN 0 ELSE g[anyOf(s)] + k[s \ {anyOf(s)}]
    OBVIOUS
  <2>1. CASE Cardinality(s) <= n
    <3>1. s \in Small(S, n) /\ k[s] = h[s]
      BY <2>1, <1>3, <1>5
    <3>2. h[s] \in Int /\ h[s] = IF s = {} THEN 0 ELSE g[anyOf(s)] + h[s \ {anyOf(s)}]
      BY <3>1 DEF Sums
    <3>3. s # {} => k[s \ {anyOf(s)}] = h[s \ {anyOf(s)}]
      BY <1>2, <1>5
    <3> HIDE DEF k
    <3> QED BY <3>1, <3>2, <3>3
  <2>2. CASE ~(Cardinality(s) <= n)
    <3>1. s # {}
      BY <2>2, FS_EmptySet
    <3>2. k[s] = g[anyOf(s)] + h[s \ {anyOf(s)}]
      BY <2>2
    <3>3. k[s \ {anyOf(s)}] = h[s \ {anyOf(s)}] /\ h[s \ {anyOf(s)}] \in Int /\ g[anyOf(s)] \in Int
      BY <3>1, <1>2, <1>5 DEF Sums
    <3> HIDE DEF k
    <3> QED BY <3>1, <3>2, <3>3
  <2> QED BY <2>1, <2>2
<1>7. DOMAIN k = Small(S, n + 1)
  OBVIOUS
<1> HIDE DEF k
<1> QED BY <1>6, <1>7 DEF Sums

LEMMA SumsExist ==
  ASSUME NEW S, IsFiniteSet(S), NEW g, \A x \in S : g[x] \in Int
  PROVE  \E h : Sums(h, g, SUBSET S)
<1> DEFINE Bad == {n \in Nat : ~\E h : Sums(h, g, Small(S, n))}
<1>1. Bad = {}
  <2> SUFFICES ASSUME Bad # {} PROVE FALSE
    OBVIOUS
  <2>1. Bad \subseteq Nat
    OBVIOUS
  <2>2. PICK m \in Bad : \A n \in Bad : m <= n
    <3> HIDE DEF Bad
    <3> QED BY <2>1, LeastOf
  <2>3. m \in Nat /\ ~\E h : Sums(h, g, Small(S, m))
    OBVIOUS
  <2>4. CASE m = 0
    <3> DEFINE h == [s \in {{}} |-> 0]
    <3>1. Small(S, 0) = {{}}
      <4>1. \A s \in Small(S, 0) : s = {}
        <5> TAKE s \in Small(S, 0)
        <5>1. IsFiniteSet(s) /\ Cardinality(s) \in Nat /\ Cardinality(s) <= 0
          BY FS_Subset, FS_CardinalityType DEF Small
        <5> QED BY <5>1, FS_EmptySet
      <4>2. {} \in Small(S, 0)
        BY FS_EmptySet DEF Small
      <4> QED BY <4>1, <4>2
    <3>2. Sums(h, g, {{}})
      BY DEF Sums
    <3> QED BY <2>3, <2>4, <3>1, <3>2
  <2>5. CASE m # 0
    <3>1. m - 1 \in Nat /\ m - 1 \notin Bad /\ (m - 1) + 1 = m
      <4> HIDE DEF Bad
      <4> QED BY <2>2, <2>3, <2>5
    <3>2. PICK h : Sums(h, g, Small(S, m - 1))
      BY <3>1
    <3>3. \E k : Sums(k, g, Small(S, (m - 1) + 1))
      BY <3>1, <3>2, SumsGrow
    <3> QED BY <3>1, <3>3, <2>3
  <2> QED BY <2>4, <2>5
<1>2. Cardinality(S) \in Nat
  BY FS_CardinalityType
<1>3. Small(S, Cardinality(S)) = SUBSET S
  BY FS_Subset DEF Small
<1>4. Cardinality(S) \notin Bad
  BY <1>1
<1>5. \E h : Sums(h, g, Small(S, Cardinality(S)))
  BY <1>2, <1>4
<1> QED BY <1>3, <1>5

(* The order does not matter, nor what is beside the set that is summed. *)
LEMMA SumsTake ==
  ASSUME NEW S, IsFiniteSet(S), NEW g, \A x \in S : g[x] \in Int,
         NEW h, SumsOn(h, g, S), NEW T \in SUBSET S, NEW x \in T
  PROVE  h[T] = g[x] + h[T \ {x}]
<1> DEFINE Bad == {n \in Nat : \E U \in SUBSET S : Cardinality(U) = n /\ \E y \in U : h[U] # g[y] + h[U \ {y}]}
<1> SUFFICES ASSUME h[T] # g[x] + h[T \ {x}] PROVE FALSE
  OBVIOUS
<1>0. \A U \in SUBSET S : IsFiniteSet(U) /\ Cardinality(U) \in Nat /\ h[U] \in Int
  BY FS_Subset, FS_CardinalityType DEF Sums, SumsOn
<1>1. Bad \subseteq Nat /\ Bad # {}
  <2>1. Cardinality(T) \in Bad
    BY <1>0
  <2> QED BY <2>1
<1>2. PICK m \in Bad : \A n \in Bad : m <= n
  <2> HIDE DEF Bad
  <2> QED BY <1>1, LeastOf
<1>3. PICK U \in SUBSET S : Cardinality(U) = m /\ \E y \in U : h[U] # g[y] + h[U \ {y}]
  OBVIOUS
<1>4. PICK y \in U : h[U] # g[y] + h[U \ {y}]
  BY <1>3
<1> DEFINE z == anyOf(U)
<1>5. z \in U /\ h[U] = g[z] + h[U \ {z}]
  BY <1>4, OneIn DEF Sums, SumsOn
<1> HIDE DEF z
<1>6. z # y
  BY <1>4, <1>5
<1>7. \A V \in SUBSET S : \A w : Cardinality(V) = Cardinality(U) - 1 /\ w \in V => h[V] = g[w] + h[V \ {w}]
  <2> SUFFICES ASSUME NEW V \in SUBSET S, NEW w, Cardinality(V) = Cardinality(U) - 1, w \in V,
                      h[V] # g[w] + h[V \ {w}]
               PROVE  FALSE
    OBVIOUS
  <2>1. Cardinality(V) \in Bad
    BY <1>0
  <2> HIDE DEF Bad
  <2> QED BY <2>1, <1>0, <1>2, <1>3
<1>8. /\ Cardinality(U \ {z}) = Cardinality(U) - 1 /\ Cardinality(U \ {y}) = Cardinality(U) - 1
  BY <1>0, <1>4, <1>5, SmallerSet
<1>9. h[U \ {z}] = g[y] + h[(U \ {z}) \ {y}]
  BY <1>4, <1>5, <1>6, <1>7, <1>8
<1>10. h[U \ {y}] = g[z] + h[(U \ {y}) \ {z}]
  BY <1>4, <1>5, <1>6, <1>7, <1>8
<1>11. (U \ {y}) \ {z} = (U \ {z}) \ {y}
  OBVIOUS
<1>12. g[y] \in Int /\ g[z] \in Int /\ h[(U \ {z}) \ {y}] \in Int
  BY <1>0, <1>4, <1>5
<1> HIDE DEF Bad
<1>13. h[U] = g[z] + (g[y] + h[(U \ {z}) \ {y}])
  BY <1>5, <1>9
<1>14. g[y] + h[U \ {y}] = g[y] + (g[z] + h[(U \ {z}) \ {y}])
  BY <1>10, <1>11
<1> DEFINE rest == h[(U \ {z}) \ {y}]
           gy == g[y]
           gz == g[z]
<1>15. gz + (gy + rest) = gy + (gz + rest)
  <2>1. gy \in Int /\ gz \in Int /\ rest \in Int
    BY <1>12
  <2> HIDE DEF gy, gz, rest
  <2> QED BY <2>1
<1> QED BY <1>4, <1>13, <1>14, <1>15

(* What holds of a function that takes the sums in that order. *)
Unrolls(h, g, S) ==
  \A s \in SUBSET S : h[s] = IF s = {} THEN 0 ELSE g[anyOf(s)] + h[s \ {anyOf(s)}]

LEMMA UnrollsAgree ==
  ASSUME NEW T, IsFiniteSet(T), NEW g, NEW g2, NEW h, NEW h2,
         Unrolls(h, g, T), Unrolls(h2, g2, T), \A x \in T : g[x] = g2[x]
  PROVE  h[T] = h2[T]
<1> DEFINE Bad == {n \in Nat : \E U \in SUBSET T : Cardinality(U) = n /\ h[U] # h2[U]}
<1> SUFFICES ASSUME h[T] # h2[T] PROVE FALSE
  OBVIOUS
<1>0. \A U \in SUBSET T : IsFiniteSet(U) /\ Cardinality(U) \in Nat
  BY FS_Subset, FS_CardinalityType
<1>1. Bad \subseteq Nat /\ Bad # {}
  <2>1. Cardinality(T) \in Bad
    BY <1>0
  <2> QED BY <2>1
<1>2. PICK m \in Bad : \A n \in Bad : m <= n
  <2> HIDE DEF Bad
  <2> QED BY <1>1, LeastOf
<1>3. PICK U \in SUBSET T : Cardinality(U) = m /\ h[U] # h2[U]
  OBVIOUS
<1>4. U # {}
  BY <1>3 DEF Unrolls
<1> DEFINE z == anyOf(U)
<1>5. z \in U /\ h[U] = g[z] + h[U \ {z}] /\ h2[U] = g2[z] + h2[U \ {z}]
  BY <1>4, OneIn DEF Unrolls
<1> HIDE DEF z
<1>6. Cardinality(U \ {z}) = Cardinality(U) - 1 /\ Cardinality(U \ {z}) \in Nat
  BY <1>0, <1>5, SmallerSet
<1>7. h[U \ {z}] = h2[U \ {z}]
  <2> SUFFICES ASSUME h[U \ {z}] # h2[U \ {z}] PROVE FALSE
    OBVIOUS
  <2>1. Cardinality(U \ {z}) \in Bad
    BY <1>6
  <2> HIDE DEF Bad
  <2> QED BY <2>1, <1>0, <1>2, <1>3, <1>6
<1> QED BY <1>3, <1>5, <1>7

LEMMA SumsAgree ==
  ASSUME NEW S, NEW S2, IsFiniteSet(S), NEW g, NEW g2, NEW h, NEW h2,
         SumsOn(h, g, S), SumsOn(h2, g2, S2),
         NEW T, T \subseteq S, T \subseteq S2, \A x \in T : g[x] = g2[x]
  PROVE  h[T] = h2[T]
<1>1. Unrolls(h, g, T) /\ Unrolls(h2, g2, T)
  BY DEF Sums, SumsOn, Unrolls
<1>2. IsFiniteSet(T)
  BY FS_Subset
<1> QED BY <1>1, <1>2, UnrollsAgree

-----------------------------------------------------------------------------
LEMMA TotalOf ==
  ASSUME NEW S, IsFiniteSet(S), NEW g, \A x \in S : g[x] \in Int
  PROVE  \E h : SumsOn(h, g, S) /\ Total(g, S) = h[S]
<1> DEFINE h == CHOOSE h : SumsOn(h, g, S)
<1>1. SumsOn(h, g, S)
  BY SumsExist DEF SumsOn
<1>2. Total(g, S) = h[S]
  BY DEF Total
<1> HIDE DEF h
<1> QED BY <1>1, <1>2

LEMMA TotalInt ==
  ASSUME NEW S, IsFiniteSet(S), NEW g, \A x \in S : g[x] \in Int
  PROVE  Total(g, S) \in Int
<1>1. PICK h : SumsOn(h, g, S) /\ Total(g, S) = h[S]
  BY TotalOf
<1>2. S \in SUBSET S
  OBVIOUS
<1> QED BY <1>1, <1>2 DEF Sums, SumsOn

LEMMA TotalUnrolls ==
  ASSUME NEW S, IsFiniteSet(S), NEW g, \A x \in S : g[x] \in Int, NEW h, Unrolls(h, g, S)
  PROVE  h[S] = Total(g, S)
<1>1. PICK k : SumsOn(k, g, S) /\ Total(g, S) = k[S]
  BY TotalOf
<1>2. Unrolls(k, g, S)
  BY <1>1 DEF Sums, SumsOn, Unrolls
<1>3. h[S] = k[S]
  BY <1>2, UnrollsAgree
<1> QED BY <1>1, <1>3

LEMMA TotalEmpty == ASSUME NEW g PROVE Total(g, {}) = 0
  BY TotalOf, FS_EmptySet DEF Sums, SumsOn

LEMMA TotalSame ==
  ASSUME NEW S, IsFiniteSet(S), NEW g, NEW g2, \A x \in S : g[x] \in Int /\ g[x] = g2[x]
  PROVE  Total(g, S) = Total(g2, S)
<1>1. \A x \in S : g2[x] \in Int
  OBVIOUS
<1>2. PICK h : SumsOn(h, g, S) /\ Total(g, S) = h[S]
  BY TotalOf
<1>3. PICK h2 : SumsOn(h2, g2, S) /\ Total(g2, S) = h2[S]
  BY <1>1, TotalOf
<1> QED BY <1>2, <1>3, SumsAgree

LEMMA TotalTake ==
  ASSUME NEW S, IsFiniteSet(S), NEW g, \A x \in S : g[x] \in Int, NEW x \in S
  PROVE  Total(g, S) = g[x] + Total(g, S \ {x})
<1>1. PICK h : SumsOn(h, g, S) /\ Total(g, S) = h[S]
  BY TotalOf
<1>2. IsFiniteSet(S \ {x})
  BY FS_Subset
<1>3. PICK h2 : SumsOn(h2, g, S \ {x}) /\ Total(g, S \ {x}) = h2[S \ {x}]
  BY <1>2, TotalOf
<1>4. h[S] = g[x] + h[S \ {x}]
  <2>1. S \in SUBSET S
    OBVIOUS
  <2> QED BY <1>1, <2>1, SumsTake
<1>5. h2[S \ {x}] = h[S \ {x}]
  <2>1. S \ {x} \subseteq S
    OBVIOUS
  <2> QED BY <1>1, <1>2, <1>3, <2>1, SumsAgree
<1> QED BY <1>1, <1>3, <1>4, <1>5

LEMMA TotalAdd ==
  ASSUME NEW S, IsFiniteSet(S), NEW g, NEW g1, NEW g2,
         \A x \in S : g1[x] \in Int /\ g2[x] \in Int /\ g[x] = g1[x] + g2[x]
  PROVE  Total(g, S) = Total(g1, S) + Total(g2, S)
<1> DEFINE Bad == {n \in Nat : \E U \in SUBSET S : Cardinality(U) = n /\ Total(g, U) # Total(g1, U) + Total(g2, U)}
<1> SUFFICES ASSUME Total(g, S) # Total(g1, S) + Total(g2, S) PROVE FALSE
  OBVIOUS
<1>0. \A U \in SUBSET S : IsFiniteSet(U) /\ Cardinality(U) \in Nat
  BY FS_Subset, FS_CardinalityType
<1>1. Bad \subseteq Nat /\ Bad # {}
  <2>1. Cardinality(S) \in Bad
    BY <1>0
  <2> QED BY <2>1
<1>2. PICK m \in Bad : \A n \in Bad : m <= n
  <2> HIDE DEF Bad
  <2> QED BY <1>1, LeastOf
<1>3. PICK U \in SUBSET S : Cardinality(U) = m /\ Total(g, U) # Total(g1, U) + Total(g2, U)
  OBVIOUS
<1>4. U # {}
  <2> SUFFICES ASSUME U = {} PROVE FALSE
    OBVIOUS
  <2> QED BY <1>3, TotalEmpty
<1>5. PICK z \in U : TRUE
  BY <1>4
<1>6. Cardinality(U \ {z}) = Cardinality(U) - 1 /\ Cardinality(U \ {z}) \in Nat
  BY <1>0, <1>5, SmallerSet
<1>7. Total(g, U \ {z}) = Total(g1, U \ {z}) + Total(g2, U \ {z})
  <2> SUFFICES ASSUME Total(g, U \ {z}) # Total(g1, U \ {z}) + Total(g2, U \ {z}) PROVE FALSE
    OBVIOUS
  <2>1. Cardinality(U \ {z}) \in Bad
    BY <1>6
  <2> HIDE DEF Bad
  <2> QED BY <2>1, <1>0, <1>2, <1>3, <1>6
<1> HIDE DEF Bad
<1>8. \A x \in S : g[x] \in Int
  OBVIOUS
<1>9. /\ Total(g, U) = g[z] + Total(g, U \ {z})
      /\ Total(g1, U) = g1[z] + Total(g1, U \ {z})
      /\ Total(g2, U) = g2[z] + Total(g2, U \ {z})
  BY <1>0, <1>5, <1>8, TotalTake
<1>10. Total(g1, U \ {z}) \in Int /\ Total(g2, U \ {z}) \in Int
  BY <1>0, TotalInt
<1>11. g[z] = g1[z] + g2[z] /\ g1[z] \in Int /\ g2[z] \in Int
  BY <1>5
<1> QED BY <1>3, <1>7, <1>9, <1>10, <1>11

-----------------------------------------------------------------------------
(* How far the replicas of a region are apart, by where the stores of the  *)
(* case are.                                                               *)

(* The stores that are or will be there, and how they come. *)
Area(new)    == DOMAIN new.stores \cup new.events.add
Home(new, s) == IF s \in DOMAIN new.stores THEN new.stores[s] ELSE NewStore

(* DistinctScore of one store against another. *)
far(a, b) ==
  LET index == CompareLocation(a, b)
  IN  IF index = -1 THEN 0 ELSE replicaBaseScore ^ (Len(a.location) - index - 1)

gap(new, s, t)   == far(Home(new, s), Home(new, t))
Score(new, R, t) == Total([s \in R |-> gap(new, s, t)], R)
Iso(new, R)      == Total([s \in R |-> Score(new, R \ {s}, s)], R)

LEMMA HomeLabels ==
  ASSUME NEW new, Located(new), NEW s \in Area(new)
  PROVE  Home(new, s).location \in Labels(new) /\ Home(new, s).location \in Seq(Nat)
<1>1. CASE s \in DOMAIN new.stores
  BY <1>1 DEF Home, Labels, Located
<1>2. CASE s \notin DOMAIN new.stores
  <2>1. new.events.add # {}
    BY <1>2 DEF Area
  <2>2. Home(new, s) = NewStore
    BY <1>2 DEF Home
  <2>3. NewStore.location \in Labels(new)
    BY <2>1 DEF Labels
  <2> QED BY <2>2, <2>3 DEF Located
<1> QED BY <1>1, <1>2

LEMMA Powers == \A k \in Nat : 100 ^ k \in Int
  BY Z3

LEMMA GapFacts ==
  ASSUME NEW new, Located(new), NEW s \in Area(new), NEW t \in Area(new)
  PROVE  gap(new, s, t) \in Int /\ gap(new, s, t) = gap(new, t, s)
<1> DEFINE a == Home(new, s).location
           b == Home(new, t).location
           D == {i \in DOMAIN a : a[i] # 0 /\ b[i] # 0 /\ a[i] # b[i]}
           E == {i \in DOMAIN b : b[i] # 0 /\ a[i] # 0 /\ b[i] # a[i]}
           i1 == CompareLocation(Home(new, s), Home(new, t))
           i2 == CompareLocation(Home(new, t), Home(new, s))
<1>1. a \in Seq(Nat) /\ b \in Seq(Nat) /\ Len(a) = Len(b)
  BY HomeLabels DEF Located
<1>2. DOMAIN a = 1 .. Len(a) /\ DOMAIN b = 1 .. Len(a) /\ Len(a) \in Nat
  BY <1>1
<1>3. D = E /\ D \subseteq 1 .. Len(a)
  BY <1>2
<1>4. i1 = (IF D = {} THEN -1 ELSE Min(D) - 1) /\ i2 = (IF E = {} THEN -1 ELSE Min(E) - 1)
  BY DEF CompareLocation
<1>5. /\ gap(new, s, t) = IF i1 = -1 THEN 0 ELSE 100 ^ (Len(a) - i1 - 1)
      /\ gap(new, t, s) = IF i2 = -1 THEN 0 ELSE 100 ^ (Len(b) - i2 - 1)
  BY DEF gap, far, replicaBaseScore
<1> HIDE DEF a, b, D, E, i1, i2
<1>6. D # {} => Min(D) \in D
  <2> SUFFICES ASSUME D # {} PROVE Min(D) \in D
    OBVIOUS
  <2>1. D \subseteq Nat
    BY <1>2, <1>3
  <2>2. \E x \in D : \A y \in D : x <= y
    BY <2>1, LeastOf
  <2> QED BY <2>2 DEF Min
<1>7. i1 = i2 /\ Len(a) = Len(b)
  BY <1>1, <1>3, <1>4
<1>8. i1 # -1 => Len(a) - i1 - 1 \in Nat
  <2> DEFINE n == Len(a)
             m == Min(D)
  <2> SUFFICES ASSUME i1 # -1 PROVE n - i1 - 1 \in Nat
    OBVIOUS
  <2>1. n \in Nat /\ m \in 1 .. n /\ i1 = m - 1
    BY <1>2, <1>3, <1>4, <1>6
  <2> HIDE DEF n, m
  <2> QED BY <2>1
<1> DEFINE k == Len(a) - i1 - 1
<1>9. i1 # -1 => 100 ^ k \in Int
  BY <1>8, Powers
<1>10. gap(new, s, t) = gap(new, t, s)
  BY <1>5, <1>7
<1>11. gap(new, s, t) = IF i1 = -1 THEN 0 ELSE 100 ^ k
  BY <1>5
<1> HIDE DEF k
<1> QED BY <1>9, <1>10, <1>11

LEMMA ScoreInt ==
  ASSUME NEW new, Located(new), NEW R, R \subseteq Area(new), IsFiniteSet(R), NEW t \in Area(new)
  PROVE  Score(new, R, t) \in Int
<1> DEFINE g == [s \in R |-> gap(new, s, t)]
<1>1. \A s \in R : g[s] \in Int
  BY GapFacts
<1> HIDE DEF g
<1>2. Total(g, R) \in Int
  BY <1>1, TotalInt
<1> QED BY <1>2 DEF Score, g

LEMMA ScoreAdd ==
  ASSUME NEW new, Located(new), NEW R, R \subseteq Area(new), IsFiniteSet(R), NEW t \in Area(new),
         NEW x \in Area(new), x \notin R
  PROVE  Score(new, R \cup {x}, t) = gap(new, x, t) + Score(new, R, t)
<1> DEFINE g == [s \in R |-> gap(new, s, t)]
           h == [s \in R \cup {x} |-> gap(new, s, t)]
           S == R \cup {x}
<1>1. \A s \in R : g[s] \in Int /\ h[s] = g[s]
  BY GapFacts
<1>2. h[x] = gap(new, x, t) /\ h[x] \in Int
  BY GapFacts
<1>3. IsFiniteSet(S) /\ x \in S /\ S \ {x} = R
  BY FS_AddElement
<1>4. \A s \in S : h[s] \in Int
  BY <1>1, <1>2
<1>5. Score(new, R \cup {x}, t) = Total(h, S) /\ Score(new, R, t) = Total(g, R)
  BY DEF Score
<1> HIDE DEF g, h, S
<1>6. Total(h, S) = h[x] + Total(h, R)
  BY <1>3, <1>4, TotalTake
<1>7. Total(h, R) = Total(g, R)
  BY <1>1, TotalSame
<1> QED BY <1>2, <1>5, <1>6, <1>7

LEMMA IsoAdd ==
  ASSUME NEW new, Located(new), NEW R, R \subseteq Area(new), IsFiniteSet(R), NEW x \in Area(new), x \notin R
  PROVE  Iso(new, R \cup {x}) = Iso(new, R) + 2 * Score(new, R, x) /\ Iso(new, R) \in Int
<1> DEFINE S == R \cup {x}
           h == [s \in S |-> Score(new, S \ {s}, s)]
           g == [s \in R |-> Score(new, R \ {s}, s)]
           d == [s \in R |-> gap(new, s, x)]
<1>1. IsFiniteSet(S) /\ x \in S /\ S \ {x} = R /\ S \subseteq Area(new)
  BY FS_AddElement
<1>2. \A s \in R : g[s] \in Int
  <2> SUFFICES ASSUME NEW s \in R PROVE Score(new, R \ {s}, s) \in Int
    OBVIOUS
  <2>1. IsFiniteSet(R \ {s}) /\ R \ {s} \subseteq Area(new)
    BY FS_RemoveElement
  <2> QED BY <2>1, ScoreInt
<1>3. \A s \in R : d[s] \in Int
  BY GapFacts
<1>4. h[x] = Score(new, R, x) /\ h[x] \in Int
  BY <1>1, ScoreInt
<1>5. \A s \in R : h[s] = d[s] + g[s]
  <2> SUFFICES ASSUME NEW s \in R PROVE Score(new, S \ {s}, s) = gap(new, s, x) + Score(new, R \ {s}, s)
    OBVIOUS
  <2>1. S \ {s} = (R \ {s}) \cup {x}
    OBVIOUS
  <2>2. IsFiniteSet(R \ {s}) /\ R \ {s} \subseteq Area(new) /\ x \notin R \ {s} /\ s \in Area(new)
    BY FS_RemoveElement
  <2>3. Score(new, (R \ {s}) \cup {x}, s) = gap(new, x, s) + Score(new, R \ {s}, s)
    BY <2>2, ScoreAdd
  <2>4. gap(new, x, s) = gap(new, s, x)
    BY <2>2, GapFacts
  <2> QED BY <2>1, <2>3, <2>4
<1>6. Iso(new, S) = Total(h, S) /\ Iso(new, R) = Total(g, R) /\ Score(new, R, x) = Total(d, R)
  BY DEF Iso, Score
<1> HIDE DEF g, h, d, S
<1>7. \A s \in S : h[s] \in Int
  BY <1>2, <1>3, <1>4, <1>5 DEF S
<1>8. Total(h, S) = h[x] + Total(h, R)
  BY <1>1, <1>7, TotalTake
<1>9. Total(h, R) = Total(d, R) + Total(g, R)
  BY <1>2, <1>3, <1>5, TotalAdd
<1>10. Total(g, R) \in Int /\ Total(d, R) \in Int
  BY <1>2, <1>3, TotalInt
<1>11. Iso(new, S) = Iso(new, R) + 2 * Score(new, R, x)
  BY <1>4, <1>6, <1>8, <1>9, <1>10
<1> QED BY <1>6, <1>10, <1>11 DEF S

(* A replica that moves where it is at least as far from the others. *)
LEMMA IsoMove ==
  ASSUME NEW new, Located(new), NEW P, P \subseteq Area(new), IsFiniteSet(P), NEW x \in P, NEW t \in Area(new), t \notin P,
         Score(new, P \ {x}, t) >= Score(new, P \ {x}, x)
  PROVE  Iso(new, (P \cup {t}) \ {x}) >= Iso(new, P)
<1> DEFINE R == P \ {x}
<1>1. /\ R \cup {x} = P /\ R \cup {t} = (P \cup {t}) \ {x}
      /\ IsFiniteSet(R) /\ R \subseteq Area(new) /\ x \notin R /\ t \notin R /\ x \in Area(new)
  BY FS_RemoveElement
<1>2. Score(new, R, t) >= Score(new, R, x)
  OBVIOUS
<1> HIDE DEF R
<1>3. /\ Iso(new, R \cup {x}) = Iso(new, R) + 2 * Score(new, R, x) /\ Iso(new, R) \in Int
      /\ Iso(new, R \cup {t}) = Iso(new, R) + 2 * Score(new, R, t)
  BY <1>1, IsoAdd
<1>4. Score(new, R, x) \in Int /\ Score(new, R, t) \in Int
  BY <1>1, ScoreInt
<1>5. Iso(new, R \cup {t}) >= Iso(new, R \cup {x})
  BY <1>2, <1>3, <1>4
<1> QED BY <1>1, <1>5

-----------------------------------------------------------------------------
(* DistinctScore and isolation are those sums. *)

(* A cluster in which the stores of R are where the case has them. *)
Sited(new, c, R) == \A s \in R : c.stores[s].location = Home(new, s).location

LEMMA DistinctIs ==
  ASSUME NEW new, Located(new), NEW c, NEW R, R \subseteq Area(new), IsFiniteSet(R), NEW t \in Area(new),
         Sited(new, c, R \cup {t})
  PROVE  DistinctScore(c, R, t) = Score(new, R \ {t}, t)
<1> DEFINE S == R \ {t}
           g == [s \in S |-> gap(new, s, t)]
           F(s) == LET index == CompareLocation(c.stores[s], c.stores[t])
                   IN  IF index = -1 THEN 0
                       ELSE replicaBaseScore ^ (Len(c.stores[s].location) - index - 1)
           Eq(h) == h = [s \in SUBSET S |-> IF s = {} THEN 0 ELSE F(anyOf(s)) + h[s \ {anyOf(s)}]]
           H == CHOOSE h : Eq(h)
<1>1. DistinctScore(c, R, t) = H[S]
  BY DEF DistinctScore, MapThenSumSet, MapThenFoldSet, anyOf
<1>2. \A s \in S : F(s) = g[s]
  BY DEF Sited, gap, far, CompareLocation
<1>3. IsFiniteSet(S) /\ S \subseteq Area(new) /\ S \in SUBSET S
  BY FS_RemoveElement
<1>4. \A s \in S : g[s] \in Int
  BY <1>3, GapFacts
<1>5. Score(new, R \ {t}, t) = Total(g, S)
  BY DEF Score
<1> HIDE DEF F, S, g
<1>6. PICK h : SumsOn(h, g, S) /\ Total(g, S) = h[S]
  BY <1>3, <1>4, TotalOf
<1>7. \A s \in SUBSET S : s # {} => anyOf(s) \in S
  BY OneIn
<1> DEFINE k == [s \in SUBSET S |-> h[s]]
<1>8. Eq(k)
  <2>1. \A s \in SUBSET S : h[s] = IF s = {} THEN 0 ELSE F(anyOf(s)) + k[s \ {anyOf(s)}]
    <3> SUFFICES ASSUME NEW s \in SUBSET S
                 PROVE  h[s] = IF s = {} THEN 0 ELSE F(anyOf(s)) + k[s \ {anyOf(s)}]
      OBVIOUS
    <3>1. h[s] = IF s = {} THEN 0 ELSE g[anyOf(s)] + h[s \ {anyOf(s)}]
      BY <1>6 DEF Sums, SumsOn
    <3>2. s \ {anyOf(s)} \in SUBSET S
      OBVIOUS
    <3> QED BY <1>2, <1>7, <3>1, <3>2
  <2>2. k = [s \in SUBSET S |-> IF s = {} THEN 0 ELSE F(anyOf(s)) + k[s \ {anyOf(s)}]]
    <3> DEFINE e(s) == IF s = {} THEN 0 ELSE F(anyOf(s)) + k[s \ {anyOf(s)}]
    <3>1. \A s \in SUBSET S : h[s] = e(s)
      BY <2>1
    <3> HIDE DEF e
    <3>2. [s \in SUBSET S |-> h[s]] = [s \in SUBSET S |-> e(s)]
      BY <3>1
    <3> QED BY <3>2 DEF e
  <2> QED BY <2>2
<1> HIDE DEF k
<1>9. Eq(H)
  <2>1. \E w : Eq(w)
    BY <1>8
  <2> HIDE DEF Eq
  <2> QED BY <2>1
<1>10. Unrolls(H, g, S)
  <2> HIDE DEF H
  <2>1. \A s \in SUBSET S : H[s] = IF s = {} THEN 0 ELSE F(anyOf(s)) + H[s \ {anyOf(s)}]
    BY <1>9
  <2> QED BY <1>2, <1>7, <2>1 DEF Unrolls
<1> HIDE DEF H
<1>11. H[S] = Total(g, S)
  BY <1>3, <1>4, <1>10, TotalUnrolls
<1> QED BY <1>1, <1>5, <1>11

LEMMA IsolationIs ==
  ASSUME Located(this), NEW R, R \subseteq Area(this), IsFiniteSet(R), Sited(this, Cluster, R)
  PROVE  isolation(R) = Iso(this, R)
<1> DEFINE g == [s \in R |-> Score(this, R \ {s}, s)]
           F(s) == DistinctScore(Cluster, R \ {s}, s)
           Eq(h) == h = [s \in SUBSET R |-> IF s = {} THEN 0 ELSE F(anyOf(s)) + h[s \ {anyOf(s)}]]
           H == CHOOSE h : Eq(h)
<1>1. isolation(R) = H[R]
  BY DEF isolation, MapThenSumSet, MapThenFoldSet, anyOf
<1>2. \A s \in R : F(s) = g[s] /\ g[s] \in Int
  <2> SUFFICES ASSUME NEW s \in R
               PROVE  DistinctScore(Cluster, R \ {s}, s) = Score(this, R \ {s}, s) /\ Score(this, R \ {s}, s) \in Int
    OBVIOUS
  <2> DEFINE S == R \ {s}
  <2>1. S \subseteq Area(this) /\ IsFiniteSet(S) /\ s \in Area(this) /\ S \cup {s} = R /\ S \ {s} = S
    BY FS_RemoveElement
  <2> HIDE DEF S
  <2>2. DistinctScore(Cluster, S, s) = Score(this, S \ {s}, s)
    BY <2>1, DistinctIs
  <2>3. Score(this, S, s) \in Int
    BY <2>1, ScoreInt
  <2> QED BY <2>1, <2>2, <2>3 DEF S
<1>5. Iso(this, R) = Total(g, R)
  BY DEF Iso
<1> HIDE DEF F, g
<1>6. PICK h : SumsOn(h, g, R) /\ Total(g, R) = h[R]
  BY <1>2, TotalOf
<1>7. \A s \in SUBSET R : s # {} => anyOf(s) \in R
  BY OneIn
<1> DEFINE k == [s \in SUBSET R |-> h[s]]
<1>8. Eq(k)
  <2>1. \A s \in SUBSET R : h[s] = IF s = {} THEN 0 ELSE F(anyOf(s)) + k[s \ {anyOf(s)}]
    <3> SUFFICES ASSUME NEW s \in SUBSET R
                 PROVE  h[s] = IF s = {} THEN 0 ELSE F(anyOf(s)) + k[s \ {anyOf(s)}]
      OBVIOUS
    <3>1. h[s] = IF s = {} THEN 0 ELSE g[anyOf(s)] + h[s \ {anyOf(s)}]
      BY <1>6 DEF Sums, SumsOn
    <3>2. s \ {anyOf(s)} \in SUBSET R
      OBVIOUS
    <3> QED BY <1>2, <1>7, <3>1, <3>2
  <2>2. k = [s \in SUBSET R |-> IF s = {} THEN 0 ELSE F(anyOf(s)) + k[s \ {anyOf(s)}]]
    <3> DEFINE e(s) == IF s = {} THEN 0 ELSE F(anyOf(s)) + k[s \ {anyOf(s)}]
    <3>1. \A s \in SUBSET R : h[s] = e(s)
      BY <2>1
    <3> HIDE DEF e
    <3>2. [s \in SUBSET R |-> h[s]] = [s \in SUBSET R |-> e(s)]
      BY <3>1
    <3> QED BY <3>2 DEF e
  <2> QED BY <2>2
<1> HIDE DEF k
<1>9. Eq(H)
  <2>1. \E w : Eq(w)
    BY <1>8
  <2> HIDE DEF Eq
  <2> QED BY <2>1
<1>10. Unrolls(H, g, R)
  <2> HIDE DEF H
  <2>1. \A s \in SUBSET R : H[s] = IF s = {} THEN 0 ELSE F(anyOf(s)) + H[s \ {anyOf(s)}]
    BY <1>9
  <2> QED BY <1>2, <1>7, <2>1 DEF Unrolls
<1> HIDE DEF H
<1>11. H[R] = Total(g, R)
  BY <1>2, <1>10, TotalUnrolls
<1> QED BY <1>1, <1>5, <1>11

-----------------------------------------------------------------------------
(* The plans of the operator builders (server/schedule/operator.go).       *)

Wanted == this.opt.maxReplicas
Room   == Sparing(this)

OpFields == {"desc", "region", "epoch", "kind", "steps", "currentStep", "level"}

(* A region as PD has it in its cache.  Of the leader of a stray region    *)
(* nothing is known.                                                       *)
Known(region) ==
  /\ region.id \in CachedIds /\ cache[region.id] = region
  /\ Shape(region) /\ DOMAIN region.peers \subseteq nodes
  /\ region.id \notin stray => region.leader \in GetVoters(region)

(* The steps of an operator put peers on the stores of on only. *)
Aimed(steps, on) == \A i \in 1 .. Len(steps) : steps[i].type \in Places => steps[i].to \in on

(* They replace the peer on x by one on t. *)
Adds == {"AddPeer", "AddLearner", "AddLightPeer", "AddLightLearner"}

Swaps(steps, t, x) ==
  /\ \A i \in DOMAIN steps : /\ steps[i].type \in Adds => steps[i].to = t
                             /\ steps[i].type = "RemovePeer" => steps[i].from = x
  /\ \E i \in DOMAIN steps : steps[i].type \in Adds
  /\ \E i \in DOMAIN steps : steps[i].type = "RemovePeer"

(* Of the replicas on P, the one on x would be at least as far from the    *)
(* others if it were on t: what NewDistinctScoreFilter asks of a target.   *)
Farther(new, on, P, x, t) ==
  /\ IsFiniteSet(P) /\ P \subseteq on /\ x \in P /\ t \in on /\ t \notin P
  /\ Score(new, P \ {x}, t) >= Score(new, P \ {x}, x)

Spreads(steps, new, on, P) == \E x, t : Swaps(steps, t, x) /\ Farther(new, on, P, x, t)

(* The operators that IsolationKept is about. *)
Spreading ==
  {"balance-region", "scatter-range-region", "balance-adjacent-peer",
   "move-hot-read-region", "move-hot-write-region", "random-move-hot-leader"}

Fair(op, new, on) ==
  /\ Aimed(op.steps, on)
  /\ Located(new) /\ op.desc \in Spreading => Spreads(op.steps, new, on, DOMAIN op.epoch[1])

(* A sequence of steps. *)
Proper(steps) == Len(steps) \in Nat /\ \A i \in 1 .. Len(steps) : steps[i].type \in StepKinds

(* A new operator that owes the region it is for nothing. *)
GoodOp(op) ==
  /\ DOMAIN op = OpFields /\ op.currentStep = 1
  /\ op.region \in CachedIds
  /\ Proper(op.steps)
  /\ op.region \notin stray => Sound(op.steps, cache[op.region], Wanted, Room)
  /\ Fair(op, this, nodes)

GoodOps(ops) == \A i \in DOMAIN ops : GoodOp(ops[i])

Works(seqs) == \A ops \in seqs : GoodOps(ops)

LEMMA PlanProper ==
  ASSUME NEW steps, NEW k, NEW m, NEW t, NEW c, NEW x, Plan(steps, k, m, t, c, x)
  PROVE  Proper(steps)
<1> DEFINE n == Len(steps)
           T(i) == steps[i].type
<1>1. n \in Nat /\ k \in Nat /\ m \in Nat /\ k <= m /\ m <= n
  BY DEF Plan
<1>2. \A i \in 1 .. k : T(i) \in StepKinds
  BY DEF Plan, StepKinds
<1>3. \A i \in k + 1 .. m : T(i) \in StepKinds
  BY DEF Plan, StepKinds
<1>4. \A i \in m + 1 .. n : T(i) \in StepKinds
  BY DEF Plan, StepKinds
<1> SUFFICES n \in Nat /\ \A i \in 1 .. n : T(i) \in StepKinds
  BY DEF Proper
<1> HIDE DEF n, T
<1>5. \A i \in 1 .. n : i \in 1 .. k \/ i \in k + 1 .. m \/ i \in m + 1 .. n
  BY <1>1
<1> QED BY <1>1, <1>2, <1>3, <1>4, <1>5

LEMMA PlanOp ==
  ASSUME NEW desc, NEW region, NEW kind, NEW steps, Known(region), Proper(steps),
         region.id \notin stray => Sound(steps, region, Wanted, Room),
         Aimed(steps, nodes),
         Located(this) /\ desc \in Spreading => Spreads(steps, this, nodes, DOMAIN region.peers)
  PROVE  GoodOp(NewOperator(desc, region, kind, steps))
<1> DEFINE op == NewOperator(desc, region, kind, steps)
<1>1. /\ DOMAIN op = OpFields /\ op.currentStep = 1 /\ op.region = region.id
      /\ op.steps = steps /\ op.desc = desc /\ op.epoch = region.epoch
  BY DEF NewOperator, OpFields
<1>2. region.epoch[1] = region.peers /\ region.id \in CachedIds /\ cache[region.id] = region
  BY DEF Known, Shape
<1> HIDE DEF op
<1>3. Fair(op, this, nodes)
  BY <1>1, <1>2 DEF Fair
<1>4. GoodOp(op)
  BY <1>1, <1>2, <1>3 DEF GoodOp
<1> QED BY <1>4 DEF op

LEMMA NewOp ==
  ASSUME NEW desc, NEW region, NEW kind, NEW steps, Known(region), Sound(steps, region, Wanted, Room),
         Aimed(steps, nodes),
         Located(this) /\ desc \in Spreading => Spreads(steps, this, nodes, DOMAIN region.peers)
  PROVE  GoodOp(NewOperator(desc, region, kind, steps))
<1>1. Proper(steps)
  BY DEF Sound, Proper
<1> QED BY <1>1, PlanOp

LEMMA PlanAimed ==
  ASSUME NEW steps, NEW k, NEW m, NEW t, NEW c, NEW x, NEW on,
         Plan(steps, k, m, t, c, x), k > 0 => t \in on
  PROVE  Aimed(steps, on)
<1> DEFINE n == Len(steps)
           S(i) == steps[i]
<1>1. n \in Nat /\ k \in Nat /\ m \in Nat /\ k <= m /\ m <= n /\ n <= m + 1
  BY DEF Plan
<1>2. \A i \in 1 .. k : S(i).to = t
  BY DEF Plan
<1>3. \A i \in k + 1 .. m : S(i).type = "TransferLeader"
  BY DEF Plan
<1>4. \A i \in m + 1 .. n : S(i).type = "RemovePeer"
  BY DEF Plan
<1>5. "RemovePeer" \notin Places /\ "TransferLeader" \notin Places
  BY DEF Places, Promotes, Learns
<1>6. Aimed(steps, on) <=> \A i \in 1 .. n : S(i).type \in Places => S(i).to \in on
  BY DEF Aimed
<1> HIDE DEF n, S
<1>7. \A i \in 1 .. n : (i \in 1 .. k /\ k > 0) \/ i \in k + 1 .. m \/ i \in m + 1 .. n
  BY <1>1
<1> QED BY <1>2, <1>3, <1>4, <1>5, <1>6, <1>7

(* A plan that adds on t and then removes from x swaps the two. *)
LEMMA SwapOutcome ==
  ASSUME NEW op, NEW t, NEW x, Swaps(op.steps, t, x)
  PROVE  outcome(op) = (DOMAIN op.epoch[1] \cup {t}) \ {x}
<1> DEFINE filled(ts) == {op.steps[i].to : i \in {i \in DOMAIN op.steps : op.steps[i].type \in ts}}
           gone == {op.steps[i].from : i \in {i \in DOMAIN op.steps : op.steps[i].type = "RemovePeer"}}
<1>1. outcome(op) = (DOMAIN op.epoch[1] \cup filled(Adds)) \ gone
  BY DEF outcome, Adds
<1>2. filled(Adds) = {t}
  BY DEF Swaps
<1>3. gone = {x}
  BY DEF Swaps
<1> QED BY <1>1, <1>2, <1>3

LEMMA AddSteps ==
  \A c, t, id : \/ CreateAddPeerSteps(c, t, id) = <<AddLearner(t, id), PromoteLearner(t, id)>>
                \/ CreateAddPeerSteps(c, t, id) = <<AddPeer(t, id)>>
  BY DEF CreateAddPeerSteps

LEMMA RemoveSteps ==
  ASSUME NEW c, NEW region, NEW x, NEW candidates, NEW rm \in removePeerSteps(c, region, x, candidates)
  PROVE  \/ region.leader # x /\ rm.steps = <<RemovePeer(x)>>
         \/ region.leader = x /\ \E d \in candidates :
              rm.steps = <<TransferLeader(x, d), RemovePeer(x)>>
BY DEF removePeerSteps

LEMMA StepFacts ==
  \A t, id, x, y :
    /\ AddLearner(t, id).type \in Places /\ AddLearner(t, id).to = t
    /\ AddPeer(t, id).type \in Promotes /\ AddPeer(t, id).to = t
    /\ PromoteLearner(t, id).type \in Promotes /\ PromoteLearner(t, id).to = t
    /\ TransferLeader(x, y).type = "TransferLeader" /\ TransferLeader(x, y).to = y
    /\ RemovePeer(x).type = "RemovePeer" /\ RemovePeer(x).from = x
    /\ Promotes \subseteq Places
BY DEF AddLearner, AddPeer, PromoteLearner, TransferLeader, RemovePeer, Promotes, Places, Learns

LEMMA StepTypes ==
  \A t, id, x, y :
    /\ AddLearner(t, id).type \in Adds /\ AddLearner(t, id).to = t /\ AddLearner(t, id).type # "RemovePeer"
    /\ AddPeer(t, id).type \in Adds /\ AddPeer(t, id).to = t /\ AddPeer(t, id).type # "RemovePeer"
    /\ PromoteLearner(t, id).type \notin Adds /\ PromoteLearner(t, id).type # "RemovePeer"
    /\ TransferLeader(x, y).type \notin Adds /\ TransferLeader(x, y).type # "RemovePeer"
    /\ RemovePeer(x).type = "RemovePeer" /\ RemovePeer(x).from = x /\ RemovePeer(x).type \notin Adds
BY DEF AddLearner, AddPeer, PromoteLearner, TransferLeader, RemovePeer, Adds

LEMMA TransferPlan == \A x, y, t : Plan(<<TransferLeader(x, y)>>, 0, 1, t, y, x)
BY StepFacts DEF Plan

LEMMA PromotePlan == \A s, id : Plan(<<PromoteLearner(s, id)>>, 1, 1, s, s, s)
BY StepFacts DEF Plan

LEMMA AddPlan ==
  \A c, t, id : \E k \in 1 .. 2 : /\ Plan(CreateAddPeerSteps(c, t, id), k, k, t, t, t)
                                   /\ Len(CreateAddPeerSteps(c, t, id)) = k
<1> TAKE c, t, id
<1>1. CASE CreateAddPeerSteps(c, t, id) = <<AddLearner(t, id), PromoteLearner(t, id)>>
  <2>1. Plan(<<AddLearner(t, id), PromoteLearner(t, id)>>, 2, 2, t, t, t)
    BY StepFacts DEF Plan
  <2> QED BY <1>1, <2>1
<1>2. CASE CreateAddPeerSteps(c, t, id) = <<AddPeer(t, id)>>
  <2>1. Plan(<<AddPeer(t, id)>>, 1, 1, t, t, t)
    BY StepFacts DEF Plan
  <2> QED BY <1>2, <2>1
<1> QED BY <1>1, <1>2, AddSteps

LEMMA RemovePlan ==
  \A x, d : /\ Plan(<<RemovePeer(x)>>, 0, 0, x, d, x)
            /\ Plan(<<TransferLeader(x, d), RemovePeer(x)>>, 0, 1, x, d, x)
BY StepFacts DEF Plan

LEMMA MovePlan ==
  \A c, t, id, x, d :
    \E k \in 1 .. 2 :
      /\ Plan(CreateAddPeerSteps(c, t, id) \o <<RemovePeer(x)>>, k, k, t, d, x)
      /\ Swaps(CreateAddPeerSteps(c, t, id) \o <<RemovePeer(x)>>, t, x)
      /\ Plan(CreateAddPeerSteps(c, t, id) \o <<TransferLeader(x, d), RemovePeer(x)>>, k, k + 1, t, d, x)
      /\ Swaps(CreateAddPeerSteps(c, t, id) \o <<TransferLeader(x, d), RemovePeer(x)>>, t, x)
<1> TAKE c, t, id, x, d
<1>1. CASE CreateAddPeerSteps(c, t, id) = <<AddLearner(t, id), PromoteLearner(t, id)>>
  <2>1. Plan(<<AddLearner(t, id), PromoteLearner(t, id), RemovePeer(x)>>, 2, 2, t, d, x)
    BY StepFacts DEF Plan
  <2>2. Plan(<<AddLearner(t, id), PromoteLearner(t, id), TransferLeader(x, d), RemovePeer(x)>>, 2, 3, t, d, x)
    BY StepFacts DEF Plan
  <2>3. /\ CreateAddPeerSteps(c, t, id) \o <<RemovePeer(x)>>
             = <<AddLearner(t, id), PromoteLearner(t, id), RemovePeer(x)>>
        /\ CreateAddPeerSteps(c, t, id) \o <<TransferLeader(x, d), RemovePeer(x)>>
             = <<AddLearner(t, id), PromoteLearner(t, id), TransferLeader(x, d), RemovePeer(x)>>
    BY <1>1, Join21, Join22
  <2>4. 2 \in 1 .. 2 /\ 2 + 1 = 3
    OBVIOUS
  <2>5. /\ Swaps(<<AddLearner(t, id), PromoteLearner(t, id), RemovePeer(x)>>, t, x)
        /\ Swaps(<<AddLearner(t, id), PromoteLearner(t, id), TransferLeader(x, d), RemovePeer(x)>>, t, x)
    BY StepTypes DEF Swaps
  <2> QED BY <2>1, <2>2, <2>3, <2>4, <2>5, Zenon
<1>2. CASE CreateAddPeerSteps(c, t, id) = <<AddPeer(t, id)>>
  <2>1. Plan(<<AddPeer(t, id), RemovePeer(x)>>, 1, 1, t, d, x)
    BY StepFacts DEF Plan
  <2>2. Plan(<<AddPeer(t, id), TransferLeader(x, d), RemovePeer(x)>>, 1, 2, t, d, x)
    BY StepFacts DEF Plan
  <2>3. /\ CreateAddPeerSteps(c, t, id) \o <<RemovePeer(x)>> = <<AddPeer(t, id), RemovePeer(x)>>
        /\ CreateAddPeerSteps(c, t, id) \o <<TransferLeader(x, d), RemovePeer(x)>>
             = <<AddPeer(t, id), TransferLeader(x, d), RemovePeer(x)>>
    BY <1>2, Join11, Join12
  <2>4. 1 \in 1 .. 2 /\ 1 + 1 = 2
    OBVIOUS
  <2>5. /\ Swaps(<<AddPeer(t, id), RemovePeer(x)>>, t, x)
        /\ Swaps(<<AddPeer(t, id), TransferLeader(x, d), RemovePeer(x)>>, t, x)
    BY StepTypes DEF Swaps
  <2> QED BY <2>1, <2>2, <2>3, <2>4, <2>5, Zenon
<1> QED BY <1>1, <1>2, AddSteps

(* random-move-hot-leader transfers twice: the removal asks for it again. *)
LEMMA MoveLeaderPlan ==
  \A c, t, id, x :
    \E k \in 1 .. 2 :
      /\ Plan((CreateAddPeerSteps(c, t, id) \o <<TransferLeader(x, t)>>)
                \o <<TransferLeader(x, t), RemovePeer(x)>>, k, k + 2, t, t, x)
      /\ Swaps((CreateAddPeerSteps(c, t, id) \o <<TransferLeader(x, t)>>)
                 \o <<TransferLeader(x, t), RemovePeer(x)>>, t, x)
<1> TAKE c, t, id, x
<1>1. CASE CreateAddPeerSteps(c, t, id) = <<AddLearner(t, id), PromoteLearner(t, id)>>
  <2>1. Plan(<<AddLearner(t, id), PromoteLearner(t, id), TransferLeader(x, t),
               TransferLeader(x, t), RemovePeer(x)>>, 2, 4, t, t, x)
    BY StepFacts DEF Plan
  <2>2. (CreateAddPeerSteps(c, t, id) \o <<TransferLeader(x, t)>>)
             \o <<TransferLeader(x, t), RemovePeer(x)>>
          = <<AddLearner(t, id), PromoteLearner(t, id), TransferLeader(x, t),
               TransferLeader(x, t), RemovePeer(x)>>
    <3>1. CreateAddPeerSteps(c, t, id) \o <<TransferLeader(x, t)>>
            = <<AddLearner(t, id), PromoteLearner(t, id), TransferLeader(x, t)>>
      BY <1>1, Join21
    <3>2. <<AddLearner(t, id), PromoteLearner(t, id), TransferLeader(x, t)>>
             \o <<TransferLeader(x, t), RemovePeer(x)>>
          = <<AddLearner(t, id), PromoteLearner(t, id), TransferLeader(x, t),
               TransferLeader(x, t), RemovePeer(x)>>
      BY Join32, Zenon
    <3> QED BY <3>1, <3>2, Zenon
  <2>3. 2 \in 1 .. 2 /\ 2 + 2 = 4
    OBVIOUS
  <2>4. Swaps(<<AddLearner(t, id), PromoteLearner(t, id), TransferLeader(x, t),
                TransferLeader(x, t), RemovePeer(x)>>, t, x)
    BY StepTypes DEF Swaps
  <2> QED BY <2>1, <2>2, <2>3, <2>4, Zenon
<1>2. CASE CreateAddPeerSteps(c, t, id) = <<AddPeer(t, id)>>
  <2>1. Plan(<<AddPeer(t, id), TransferLeader(x, t), TransferLeader(x, t), RemovePeer(x)>>, 1, 3, t, t, x)
    BY StepFacts DEF Plan
  <2>2. (CreateAddPeerSteps(c, t, id) \o <<TransferLeader(x, t)>>)
             \o <<TransferLeader(x, t), RemovePeer(x)>>
          = <<AddPeer(t, id), TransferLeader(x, t), TransferLeader(x, t), RemovePeer(x)>>
    <3>1. CreateAddPeerSteps(c, t, id) \o <<TransferLeader(x, t)>> = <<AddPeer(t, id), TransferLeader(x, t)>>
      BY <1>2, Join11
    <3> QED BY <3>1, Join22
  <2>3. 1 \in 1 .. 2 /\ 1 + 2 = 3
    OBVIOUS
  <2>4. Swaps(<<AddPeer(t, id), TransferLeader(x, t), TransferLeader(x, t), RemovePeer(x)>>, t, x)
    BY StepTypes DEF Swaps
  <2> QED BY <2>1, <2>2, <2>3, <2>4, Zenon
<1> QED BY <1>1, <1>2, AddSteps

-----------------------------------------------------------------------------
(* The operators of the builders.                                          *)

LEMMA FollowerFacts ==
  \A region : \A s \in GetFollowers(region) : s \in GetVoters(region) /\ s # region.leader
BY DEF GetFollowers, GetVoters, GetLearners

LEMMA VoterFacts == \A region : GetVoters(region) \subseteq DOMAIN region.peers
BY DEF GetVoters

(* There is room for one more peer. *)
Roomy(region) == Room => Cardinality(DOMAIN region.peers) <= Wanted

LEMMA TransferGood ==
  ASSUME NEW desc, NEW region, NEW from, NEW to, NEW kind, Known(region), to \in GetFollowers(region),
         desc \notin Spreading
  PROVE  GoodOp(CreateTransferLeaderOperator(desc, region, from, to, kind))
<1> DEFINE steps == <<TransferLeader(from, to)>>
<1>1. to \in GetVoters(region)
  BY FollowerFacts
<1>3. Plan(steps, 0, 1, from, to, from) /\ Len(steps) = 1
  BY TransferPlan
<1> HIDE DEF steps
<1>2. ~(1 < Len(steps)) /\ ~(0 > 0)
  BY <1>3
<1>4. Sound(steps, region, Wanted, Room)
  BY <1>1, <1>2, <1>3, PlanSound
<1>5. Aimed(steps, nodes)
  BY <1>2, <1>3, PlanAimed
<1> QED BY <1>4, <1>5, NewOp DEF CreateTransferLeaderOperator, steps

LEMMA AddGood ==
  ASSUME NEW desc, NEW c, NEW region, NEW id, NEW to, NEW kind, Known(region), Roomy(region),
         to \in nodes, desc \notin Spreading
  PROVE  GoodOp(CreateAddPeerOperator(desc, c, region, id, to, kind))
<1> DEFINE steps == CreateAddPeerSteps(c, to, id)
<1>1. PICK k \in 1 .. 2 : Plan(steps, k, k, to, to, to) /\ Len(steps) = k
  BY AddPlan
<1> HIDE DEF steps
<1>4. Sound(steps, region, Wanted, Room)
  BY <1>1, PlanSound DEF Roomy
<1>5. Aimed(steps, nodes)
  BY <1>1, PlanAimed
<1> QED BY <1>4, <1>5, NewOp DEF CreateAddPeerOperator, steps

LEMMA PromoteGood ==
  ASSUME NEW desc, NEW region, NEW s \in DOMAIN region.peers, Known(region), desc \notin Spreading
  PROVE  GoodOp(CreatePromoteLearnerOperator(desc, region, s))
<1> DEFINE steps == <<PromoteLearner(s, region.peers[s].id)>>
<1>1. Plan(steps, 1, 1, s, s, s) /\ Len(steps) = 1
  BY PromotePlan
<1> HIDE DEF steps
<1>3. ~(1 < Len(steps)) /\ ~(1 < 1)
  BY <1>1
<1>2. Sound(steps, region, Wanted, Room)
  BY <1>1, <1>3, PlanSound
<1>4. s \in nodes
  BY DEF Known
<1>5. Aimed(steps, nodes)
  BY <1>1, <1>4, PlanAimed
<1> QED BY <1>2, <1>5, NewOp DEF CreatePromoteLearnerOperator, steps

LEMMA RemoveGood ==
  ASSUME NEW desc, NEW c, NEW kind, NEW region, NEW x, Known(region),
         Cardinality(GetVoters(region)) > Wanted, desc \notin Spreading,
         NEW op \in CreateRemovePeerOperator(desc, c, kind, region, x)
  PROVE  GoodOp(op)
<1>1. PICK rm \in removePeerSteps(c, region, x, GetFollowers(region)) :
        op = NewOperator(desc, region, rm.kind \cup kind, rm.steps)
  BY DEF CreateRemovePeerOperator
<1>2. CASE region.leader # x /\ rm.steps = <<RemovePeer(x)>>
  <2>1. Plan(rm.steps, 0, 0, x, x, x)
    BY <1>2, RemovePlan
  <2>2. Sound(rm.steps, region, Wanted, Room)
    BY <1>2, <2>1, PlanSound
  <2>3. Aimed(rm.steps, nodes)
    BY <2>1, PlanAimed
  <2> QED BY <1>1, <2>2, <2>3, NewOp
<1>3. ASSUME region.leader = x, NEW d \in GetFollowers(region),
             rm.steps = <<TransferLeader(x, d), RemovePeer(x)>>
      PROVE  GoodOp(op)
  <2>1. Plan(rm.steps, 0, 1, x, d, x)
    BY <1>3, RemovePlan
  <2>2. d \in GetVoters(region) /\ d # x
    BY <1>3, FollowerFacts
  <2>3. Sound(rm.steps, region, Wanted, Room)
    BY <1>3, <2>1, <2>2, PlanSound
  <2>4. Aimed(rm.steps, nodes)
    BY <2>1, PlanAimed
  <2> QED BY <1>1, <2>3, <2>4, NewOp
<1>4. \/ region.leader # x /\ rm.steps = <<RemovePeer(x)>>
      \/ region.leader = x /\ \E d \in GetFollowers(region) :
           rm.steps = <<TransferLeader(x, d), RemovePeer(x)>>
  BY <1>1, RemoveSteps
<1> QED BY <1>2, <1>3, <1>4

(* An operator of this description that moves a peer from x to t keeps the *)
(* replicas as far apart as they are, if it is to.                         *)
MayMove(desc, region, x, t) ==
  Located(this) /\ desc \in Spreading => Farther(this, nodes, DOMAIN region.peers, x, t)

LEMMA MoveGood ==
  ASSUME NEW desc, NEW c, NEW region, NEW kind, NEW x, NEW t, NEW id, Known(region),
         t \notin DOMAIN region.peers, Roomy(region), t \in nodes, MayMove(desc, region, x, t),
         NEW op \in CreateMovePeerOperator(desc, c, region, kind, x, t, id)
  PROVE  GoodOp(op)
<1> DEFINE add == CreateAddPeerSteps(c, t, id)
<1>1. PICK rm \in removePeerSteps(c, region, x, GetFollowers(region) \cup {t}) :
        op = NewOperator(desc, region, rm.kind \cup kind \cup {"region"}, add \o rm.steps)
  BY DEF CreateMovePeerOperator
<1>2. t \notin GetVoters(region) /\ (region.id \notin stray => region.leader \in DOMAIN region.peers)
  BY VoterFacts DEF Known
<1>3. CASE region.leader # x /\ rm.steps = <<RemovePeer(x)>>
  <2>1. PICK k \in 1 .. 2 : Plan(add \o rm.steps, k, k, t, x, x) /\ Swaps(add \o rm.steps, t, x)
    BY <1>3, MovePlan
  <2>2. Sound(add \o rm.steps, region, Wanted, Room)
    <3> DEFINE steps == add \o rm.steps
    <3>1. Plan(steps, k, k, t, x, x)
      BY <2>1
    <3> HIDE DEF steps
    <3>2. Sound(steps, region, Wanted, Room)
      BY <1>2, <1>3, <2>1, <3>1, PlanSound DEF Roomy
    <3> QED BY <3>2 DEF steps
  <2>3. Aimed(add \o rm.steps, nodes)
    BY <2>1, PlanAimed
  <2> HIDE DEF add
  <2>4. Located(this) /\ desc \in Spreading => Spreads(add \o rm.steps, this, nodes, DOMAIN region.peers)
    BY <2>1 DEF MayMove, Spreads
  <2> QED BY <1>1, <2>2, <2>3, <2>4, NewOp
<1>4. ASSUME region.leader = x, NEW d \in GetFollowers(region) \cup {t},
             rm.steps = <<TransferLeader(x, d), RemovePeer(x)>>
      PROVE  GoodOp(op)
  <2>1. PICK k \in 1 .. 2 : Plan(add \o rm.steps, k, k + 1, t, d, x) /\ Swaps(add \o rm.steps, t, x)
    BY <1>4, MovePlan
  <2>2. (d \in GetVoters(region) \/ d = t) /\ (region.id \notin stray => d # x)
    BY <1>2, <1>4, FollowerFacts
  <2>3. region.id \notin stray => Sound(add \o rm.steps, region, Wanted, Room)
    <3> DEFINE steps == add \o rm.steps
    <3>1. Plan(steps, k, k + 1, t, d, x)
      BY <2>1
    <3> HIDE DEF steps
    <3>2. k < k + 1 /\ k > 0
      BY <2>1
    <3>3. region.id \notin stray => Sound(steps, region, Wanted, Room)
      BY <1>2, <2>2, <3>1, <3>2, PlanSound DEF Roomy
    <3> QED BY <3>3 DEF steps
  <2>6. Proper(add \o rm.steps)
    BY <2>1, PlanProper
  <2>4. Aimed(add \o rm.steps, nodes)
    BY <2>1, PlanAimed
  <2> HIDE DEF add
  <2>5. Located(this) /\ desc \in Spreading => Spreads(add \o rm.steps, this, nodes, DOMAIN region.peers)
    BY <2>1 DEF MayMove, Spreads
  <2> QED BY <1>1, <2>3, <2>4, <2>5, <2>6, PlanOp
<1>5. \/ region.leader # x /\ rm.steps = <<RemovePeer(x)>>
      \/ region.leader = x /\ \E d \in GetFollowers(region) \cup {t} :
           rm.steps = <<TransferLeader(x, d), RemovePeer(x)>>
  BY <1>1, RemoveSteps
<1> QED BY <1>3, <1>4, <1>5

LEMMA MoveLeaderGood ==
  ASSUME NEW desc, NEW c, NEW region, NEW kind, NEW t, NEW id, Known(region),
         t \notin DOMAIN region.peers, Roomy(region), t \in nodes, MayMove(desc, region, region.leader, t),
         NEW op \in CreateMoveLeaderOperator(desc, c, region, kind, region.leader, t, id)
  PROVE  GoodOp(op)
<1> DEFINE x == region.leader
           add == CreateAddPeerSteps(c, t, id) \o <<TransferLeader(x, t)>>
<1>1. PICK rm \in removePeerSteps(c, region, x, {t}) :
        op = NewOperator(desc, region, rm.kind \cup kind \cup {"leader", "region"}, add \o rm.steps)
  BY DEF CreateMoveLeaderOperator
<1>2. t \notin GetVoters(region) /\ (region.id \notin stray => x \in DOMAIN region.peers)
  BY VoterFacts DEF Known
<1>3. rm.steps = <<TransferLeader(x, t), RemovePeer(x)>>
  BY <1>1, RemoveSteps
<1>4. PICK k \in 1 .. 2 : Plan(add \o rm.steps, k, k + 2, t, t, x) /\ Swaps(add \o rm.steps, t, x)
  BY <1>3, MoveLeaderPlan
<1>5. region.id \notin stray => Sound(add \o rm.steps, region, Wanted, Room)
  <2> DEFINE steps == add \o rm.steps
  <2>1. Plan(steps, k, k + 2, t, t, x)
    BY <1>4
  <2> HIDE DEF steps
  <2>2. k < k + 2 /\ k > 0 /\ (region.id \notin stray => t # x)
    BY <1>2, <1>4
  <2>3. region.id \notin stray => Sound(steps, region, Wanted, Room)
    BY <1>2, <2>1, <2>2, PlanSound DEF Roomy
  <2> QED BY <2>3 DEF steps
<1>9. Proper(add \o rm.steps)
  BY <1>4, PlanProper
<1>6. Aimed(add \o rm.steps, nodes)
  BY <1>4, PlanAimed
<1>7. MayMove(desc, region, x, t)
  OBVIOUS
<1> HIDE DEF add, x
<1>8. Located(this) /\ desc \in Spreading => Spreads(add \o rm.steps, this, nodes, DOMAIN region.peers)
  BY <1>4, <1>7 DEF MayMove, Spreads
<1> QED BY <1>1, <1>5, <1>6, <1>8, <1>9, PlanOp

-----------------------------------------------------------------------------
(* From operators to answers of checkers and schedulers.                   *)

(* A set of answers stays good through the helpers of the checkers. *)
LEMMA GoodNil == GoodOps(<<>>) /\ Works(nil)
BY DEF GoodOps, Works, nil

LEMMA GoodOne == \A op : GoodOp(op) => GoodOps(<<op>>)
BY DEF GoodOps

LEMMA GoodHigh == \A op : GoodOp(op) => GoodOp(High(op))
<1> SUFFICES ASSUME NEW op, GoodOp(op) PROVE GoodOp(High(op))
  OBVIOUS
<1>1. DOMAIN op = OpFields
  BY DEF GoodOp
<1>2. /\ DOMAIN High(op) = OpFields /\ High(op).region = op.region
      /\ High(op).currentStep = op.currentStep /\ High(op).steps = op.steps
      /\ High(op).desc = op.desc /\ High(op).epoch = op.epoch
  BY <1>1 DEF High, OpFields
<1>3. Fair(High(op), this, nodes)
  BY <1>2 DEF GoodOp, Fair
<1> QED BY <1>2, <1>3 DEF GoodOp

LEMMA GoodSingle == \A os : (\A op \in os : GoodOp(op)) => Works(single(os))
BY GoodNil, GoodOne DEF Works, single

LEMMA GoodRaised == \A seqs : Works(seqs) => Works(raised(seqs))
<1> SUFFICES ASSUME NEW seqs, Works(seqs), NEW s \in seqs
             PROVE  GoodOps([i \in DOMAIN s |-> High(s[i])])
  BY DEF Works, raised
<1>1. \A i \in DOMAIN s : GoodOp(High(s[i]))
  BY GoodHigh DEF Works, GoodOps
<1> QED BY <1>1 DEF GoodOps

LEMMA GoodOrElse == \A a, b : Works(a) /\ Works(b) => Works(orElse(a, b))
BY DEF Works, orElse

-----------------------------------------------------------------------------
(* A cluster as a scheduler is shown it. *)

View(c) ==
  /\ ClusterFields \subseteq DOMAIN c
  /\ c.all = cache
  /\ \A r \in DOMAIN c.regions : r \in DOMAIN cache /\ c.regions[r] = cache[r]
  /\ c.maxReplicas = Wanted /\ c.enabled = this.opt.enabled
  /\ DOMAIN c.stores = nodes /\ c.own \subseteq nodes /\ nodes \subseteq Area(this)
  /\ Located(this) => Sited(this, c, nodes)

(* The regions are known under their ids. *)
Tidy == \A r \in CachedIds : cache[r].id = r /\ Known(cache[r])

LEMMA LiveKnown ==
  ASSUME NEW c, View(c), Tidy, NEW r \in live(c)
  PROVE  Known(c.regions[r]) /\ c.regions[r] = cache[r] /\ r \in CachedIds
<1>1. r \in DOMAIN cache /\ c.regions[r] = cache[r] /\ cache[r].id # 0
  BY DEF live, View
<1>2. Gone.id = 0
  BY DEF Gone
<1>3. r \in CachedIds
  BY <1>1, <1>2 DEF CachedIds
<1> QED BY <1>1, <1>3 DEF Tidy

LEMMA WholeView ==
  ASSUME NEW c, View(c)
  PROVE  View(whole(c)) /\ whole(c).regions = c.all
<1> DEFINE w == whole(c)
<1>1. /\ DOMAIN w = DOMAIN c /\ w.regions = c.all
      /\ \A f \in DOMAIN c : f # "regions" => w[f] = c[f]
  BY DEF whole, View, ClusterFields
<1>2. w.all = c.all
  BY <1>1 DEF View, ClusterFields
<1>3. w.maxReplicas = c.maxReplicas /\ w.enabled = c.enabled /\ w.stores = c.stores /\ w.own = c.own
  BY <1>1 DEF View, ClusterFields
<1> HIDE DEF w
<1>4. Located(this) => Sited(this, w, nodes)
  BY <1>3 DEF View, Sited
<1>5. View(w)
  BY <1>1, <1>2, <1>3, <1>4 DEF View
<1> QED BY <1>1, <1>5 DEF w

LEMMA RandFacts ==
  ASSUME NEW c, NEW s
  PROVE  /\ \A r \in RandLeaderRegion(c, s, HealthRegion) : r # 0 => r \in live(c) /\ c.regions[r].leader = s
         /\ \A r \in RandLeaderRegion(c, s, anyHealth) : r # 0 => r \in live(c) /\ c.regions[r].leader = s
         /\ \A r \in RandFollowerRegion(c, s, HealthRegion) :
              r # 0 => r \in live(c) /\ s \in GetFollowers(c.regions[r])
         /\ \A r \in RandPendingRegion(c, s, HealthRegionAllowPending) :
              r # 0 => r \in live(whole(c)) /\ s \in whole(c).regions[r].pending
<1>1. \A r \in RandLeaderRegion(c, s, HealthRegion) : r # 0 => r \in leaderRegions(c, s)
  BY DEF RandLeaderRegion, randRegion
<1>2. \A r \in RandLeaderRegion(c, s, anyHealth) : r # 0 => r \in leaderRegions(c, s)
  BY DEF RandLeaderRegion, randRegion
<1>3. \A r \in RandFollowerRegion(c, s, HealthRegion) : r # 0 => r \in followerRegions(c, s)
  BY DEF RandFollowerRegion, randRegion
<1>4. \A r \in RandPendingRegion(c, s, HealthRegionAllowPending) : r # 0 => r \in pendingRegions(whole(c), s)
  BY DEF RandPendingRegion, randRegion
<1> QED BY <1>1, <1>2, <1>3, <1>4 DEF leaderRegions, followerRegions, pendingRegions

(* What a selector returns passed the filters. *)
LEMMA SelectFacts ==
  /\ \A c, kind, among, filters : \A t \in BalanceSelectTarget(c, kind, among, filters) :
       t # NoStore => t \in among /\ ~FilterTarget(t, filters)
  /\ \A among, filters : \A t \in RandomSelectTarget(among, filters) :
       t # NoStore => t \in among /\ ~FilterTarget(t, filters)
  /\ \A c, rs, among, filters, final : \A t \in ReplicaSelectTarget(c, rs, among, filters, final) :
       t # NoStore => t \in among /\ ~FilterTarget(t, filters)
<1>1. \A set : \A t \in orNil(set) : t # NoStore => t \in set
  BY DEF orNil
<1>2. ASSUME NEW c, NEW kind, NEW among, NEW filters, NEW t \in BalanceSelectTarget(c, kind, among, filters),
             t # NoStore
      PROVE  t \in among /\ ~FilterTarget(t, filters)
  BY <1>1, <1>2 DEF BalanceSelectTarget
<1>3. ASSUME NEW among, NEW filters, NEW t \in RandomSelectTarget(among, filters), t # NoStore
      PROVE  t \in among /\ ~FilterTarget(t, filters)
  BY <1>1, <1>3 DEF RandomSelectTarget
<1>4. ASSUME NEW c, NEW rs, NEW among, NEW filters, NEW final,
             NEW t \in ReplicaSelectTarget(c, rs, among, filters, final), t # NoStore
      PROVE  t \in among /\ ~FilterTarget(t, filters)
  <2> DEFINE best == bestStores(c, rs, {s \in among : ~FilterTarget(s, filters)})
  <2>1. t \in {IF FilterTarget(s, final) THEN NoStore ELSE s : s \in best}
    BY <1>1, <1>4 DEF ReplicaSelectTarget
  <2>2. t \in best
    BY <1>4, <2>1
  <2>3. best \subseteq {s \in among : ~FilterTarget(s, filters)}
    BY DEF bestStores
  <2> QED BY <2>2, <2>3
<1> QED BY <1>2, <1>3, <1>4

LEMMA ExcludedFacts ==
  \A filters, a, b, t : NewExcludedFilter(a, b) \in filters /\ ~FilterTarget(t, filters) => t \notin b
<1> SUFFICES ASSUME NEW filters, NEW a, NEW b, NEW t, NewExcludedFilter(a, b) \in filters, t \in b
             PROVE  FilterTarget(t, filters)
  OBVIOUS
<1>1. NewExcludedFilter(a, b).targets = b
  BY DEF NewExcludedFilter
<1> QED BY <1>1 DEF FilterTarget

LEMMA ReplacementFacts ==
  ASSUME NEW c, NEW region, NEW old, NEW filters, NEW classified,
         NEW t \in SelectBestReplacementStore(c, region, old, filters, classified), t # NoStore
  PROVE  /\ t \notin DOMAIN region.peers /\ t \in GetStores(c)
         /\ \A f \in filters : t \notin f.targets
<1> DEFINE all == (filters \cup {NewExcludedFilter({}, DOMAIN region.peers)}) \cup ownFilters(c)
                    \cup {NewStateFilter(c), NewPendingPeerCountFilter(c),
                          NewExcludedFilter({}, DOMAIN region.peers \ {old})}
                    \cup (IF classified THEN {NewNamespaceFilter(c, region.namespace)} ELSE {})
<1>1. t \in ReplicaSelectTarget(c, DOMAIN region.peers \ {old}, GetStores(c), all, ownFilters(c))
  BY DEF SelectBestReplacementStore, selectBestStoreToAddReplica
<1>2. NewExcludedFilter({}, DOMAIN region.peers) \in all /\ filters \subseteq all
  OBVIOUS
<1> HIDE DEF all
<1>3. ~FilterTarget(t, all) /\ t \in GetStores(c)
  BY <1>1, SelectFacts
<1>4. t \notin DOMAIN region.peers
  BY <1>2, <1>3, ExcludedFacts
<1> QED BY <1>2, <1>3, <1>4 DEF FilterTarget

(* A store that passed NewDistinctScoreFilter. *)
LEMMA FilterFarther ==
  ASSUME NEW c, View(c), NEW region, Known(region), NEW x \in DOMAIN region.peers, NEW t \in nodes,
         t \notin DOMAIN region.peers, NEW desc,
         t \notin NewDistinctScoreFilter(c, DOMAIN region.peers, x).targets
  PROVE  MayMove(desc, region, x, t)
<1> SUFFICES ASSUME Located(this) PROVE Farther(this, nodes, DOMAIN region.peers, x, t)
  BY DEF MayMove
<1> DEFINE P == DOMAIN region.peers
           R == P \ {x}
<1>1. IsFiniteSet(P) /\ P \subseteq nodes /\ x \in P /\ t \notin P
  BY DEF Known, Shape
<1>2. nodes \subseteq Area(this) /\ Sited(this, c, nodes) /\ DOMAIN c.stores = nodes
  BY DEF View
<1>3. ~(DistinctScore(c, R, t) < DistinctScore(c, R, x))
  BY <1>2 DEF NewDistinctScoreFilter
<1> HIDE DEF P
<1>4. IsFiniteSet(R) /\ R \subseteq Area(this) /\ x \in Area(this) /\ t \in Area(this)
  BY <1>1, <1>2, FS_RemoveElement
<1>5. R \ {x} = R /\ R \ {t} = R
  BY <1>1
<1>6. Sited(this, c, R \cup {x}) /\ Sited(this, c, R \cup {t})
  BY <1>1, <1>2 DEF Sited
<1> HIDE DEF R
<1>7. DistinctScore(c, R, t) = Score(this, R, t) /\ DistinctScore(c, R, x) = Score(this, R, x)
  BY <1>4, <1>5, <1>6, DistinctIs
<1>8. Score(this, R, t) \in Int /\ Score(this, R, x) \in Int
  BY <1>4, ScoreInt
<1>9. Score(this, R, t) >= Score(this, R, x)
  BY <1>3, <1>7, <1>8
<1> QED BY <1>1, <1>9 DEF Farther, P, R

LEMMA OwnStores == ASSUME NEW c, View(c), NEW t \in GetStores(c) PROVE t \in nodes
BY DEF GetStores, View

-----------------------------------------------------------------------------
(* The schedulers.                                                         *)

LEMMA CreateGood ==
  ASSUME NEW c, NEW region, NEW cs, NEW source, NEW ct, NEW target,
         Known(region), target \in GetFollowers(region)
  PROVE  Works(createOperator(c, region, cs, source, ct, target))
<1>1. GoodOp(CreateTransferLeaderOperator("balance-leader", region, region.leader, target, {"balance"}))
  BY TransferGood DEF Spreading
<1> QED BY <1>1, GoodNil, GoodOne DEF createOperator, Works

LEMMA BalanceLeaderGood ==
  ASSUME NEW c, View(c), Tidy, NEW tainted
  PROVE  Works(BalanceLeaderSchedule(c, tainted))
<1>1. ASSUME NEW s, NEW filters PROVE Works(transferLeaderOut(c, s, filters))
  <2> DEFINE out(r) == IF r = 0 \/ leaderRule(c, c.regions[r]) THEN nil
         ELSE UNION {IF t = NoStore THEN nil
                     ELSE createOperator(c, c.regions[r], c, s, whole(c), t) :
                       t \in BalanceSelectTarget(whole(c), "leader",
                                                 GetFollowers(c.regions[r]), filters)}
  <2>1. transferLeaderOut(c, s, filters) = UNION {out(r) : r \in RandLeaderRegion(c, s, HealthRegion)}
    BY DEF transferLeaderOut
  <2>2. ASSUME NEW r \in RandLeaderRegion(c, s, HealthRegion) PROVE Works(out(r))
    <3>1. CASE r = 0 \/ leaderRule(c, c.regions[r])
      BY <3>1, GoodNil
    <3>2. CASE r # 0 /\ ~leaderRule(c, c.regions[r])
      <4>1. Known(c.regions[r])
        BY <3>2, LiveKnown, RandFacts
      <4>2. ASSUME NEW t \in BalanceSelectTarget(whole(c), "leader", GetFollowers(c.regions[r]), filters)
            PROVE  Works(IF t = NoStore THEN nil ELSE createOperator(c, c.regions[r], c, s, whole(c), t))
        <5>1. t # NoStore => t \in GetFollowers(c.regions[r])
          BY SelectFacts
        <5> QED BY <4>1, <5>1, CreateGood, GoodNil
      <4> QED BY <3>2, <4>2 DEF Works
    <3> QED BY <3>1, <3>2
  <2> HIDE DEF out
  <2> QED BY <2>1, <2>2 DEF Works
<1>2. ASSUME NEW target PROVE Works(transferLeaderIn(c, target))
  <2> DEFINE out(r) == IF r = 0 \/ leaderRule(c, c.regions[r]) THEN nil
         ELSE LET source == c.regions[r].leader
              IN  IF source \notin c.own THEN nil
                  ELSE createOperator(c, c.regions[r], whole(c), source, c, target)
  <2>1. transferLeaderIn(c, target) = UNION {out(r) : r \in RandFollowerRegion(c, target, HealthRegion)}
    BY DEF transferLeaderIn
  <2>2. ASSUME NEW r \in RandFollowerRegion(c, target, HealthRegion) PROVE Works(out(r))
    <3>1. CASE r = 0
      BY <3>1, GoodNil
    <3>2. CASE r # 0
      <4>1. Known(c.regions[r]) /\ target \in GetFollowers(c.regions[r])
        BY <3>2, LiveKnown, RandFacts
      <4> QED BY <4>1, GoodNil, CreateGood
    <3> QED BY <3>1, <3>2
  <2> HIDE DEF out
  <2> QED BY <2>1, <2>2 DEF Works
<1> DEFINE filters == {StoreStateFilter(c, TRUE, FALSE), NewCacheFilter(tainted)}
<1>3. BalanceLeaderSchedule(c, tainted) =
        UNION {IF NoStore \in {s, t} THEN nil
               ELSE orElse(transferLeaderOut(c, s, filters), transferLeaderIn(c, t)) :
                 s \in BalanceSelectSource(c, "leader", GetStores(c), filters),
                 t \in BalanceSelectTarget(c, "leader", GetStores(c), filters)}
  BY DEF BalanceLeaderSchedule
<1> HIDE DEF filters
<1>4. \A s, t : Works(IF NoStore \in {s, t} THEN nil
                      ELSE orElse(transferLeaderOut(c, s, filters), transferLeaderIn(c, t)))
  BY <1>1, <1>2, GoodNil, GoodOrElse
<1> QED BY <1>3, <1>4 DEF Works

LEMMA TransferPeerGood ==
  ASSUME NEW c, View(c), NEW region, NEW old \in DOMAIN region.peers, NEW hits, Known(region), Roomy(region)
  PROVE  Works(transferPeer(c, region, old, hits))
<1> DEFINE guard == NewDistinctScoreFilter(c, DOMAIN region.peers, old)
           block == NewBlacklistStoreFilter({"target"}, hits.targets)
           out(t) == IF \/ t = NoStore
                        \/ ~shouldBalance(c, whole(c), old, whole(c), t, region, "region")
                     THEN nil
                     ELSE single(CreateMovePeerOperator("balance-region", c, region, {"balance"}, old, t, t))
           ts == SelectBestReplacementStore(c, region, old, {guard, block}, FALSE)
<1>1. transferPeer(c, region, old, hits) = UNION {out(t) : t \in ts}
  BY DEF transferPeer
<1>2. ASSUME NEW t \in ts PROVE Works(out(t))
  <2>1. CASE t = NoStore
    BY <2>1, GoodNil
  <2>2. CASE t # NoStore
    <3>1. t \notin DOMAIN region.peers /\ t \in GetStores(c) /\ t \notin guard.targets
      BY <2>2, ReplacementFacts
    <3>3. t \in nodes
      BY <3>1, OwnStores
    <3>4. MayMove("balance-region", region, old, t)
      BY <3>1, <3>3, FilterFarther
    <3>2. \A op \in CreateMovePeerOperator("balance-region", c, region, {"balance"}, old, t, t) : GoodOp(op)
      BY <3>1, <3>3, <3>4, MoveGood
    <3> QED BY <3>2, GoodNil, GoodSingle
  <2> QED BY <2>1, <2>2
<1> HIDE DEF out, ts
<1> QED BY <1>1, <1>2 DEF Works

LEMMA BalanceRegionGood ==
  ASSUME NEW c, View(c), Tidy, NEW hits, Wanted \in Nat
  PROVE  Works(BalanceRegionSchedule(c, hits))
<1> DEFINE filters == {StoreStateFilter(c, FALSE, TRUE), NewBlacklistStoreFilter({"source"}, hits.sources)}
           try(s, r) == IF \/ r = 0
                           \/ Cardinality(DOMAIN c.all[r].peers) # c.maxReplicas
                           \/ r \in c.hot
                           \/ anyRule(c, c.all[r])
                           \/ ~GetStorePeer(c.all[r], s)
                        THEN nil ELSE transferPeer(c, c.all[r], s, hits)
           out(s) == IF s = NoStore THEN nil ELSE UNION {try(s, r) : r \in balanceCandidates(c, s)}
<1>1. BalanceRegionSchedule(c, hits) =
        UNION {out(s) : s \in BalanceSelectSource(c, "region", GetStores(c), filters)}
  BY DEF BalanceRegionSchedule
<1>2. ASSUME NEW s, NEW r \in balanceCandidates(c, s) PROVE Works(try(s, r))
  <2>1. r # 0 => r \in live(whole(c)) \/ r \in live(c)
    <3>1. \/ r \in RandPendingRegion(c, s, HealthRegionAllowPending)
          \/ r \in RandFollowerRegion(c, s, HealthRegion)
          \/ r \in RandLeaderRegion(c, s, HealthRegion)
      BY DEF balanceCandidates
    <3> QED BY <3>1, RandFacts
  <2>2. CASE r = 0 \/ Cardinality(DOMAIN c.all[r].peers) # c.maxReplicas \/ ~GetStorePeer(c.all[r], s)
    BY <2>2, GoodNil
  <2>3. CASE r # 0 /\ Cardinality(DOMAIN c.all[r].peers) = c.maxReplicas /\ GetStorePeer(c.all[r], s)
    <3>1. Known(c.all[r])
      BY <2>1, <2>3, LiveKnown, WholeView DEF View
    <3>2. Roomy(c.all[r])
      BY <2>3 DEF Roomy, View
    <3>3. s \in DOMAIN c.all[r].peers
      BY <2>3 DEF GetStorePeer
    <3> QED BY <3>1, <3>2, <3>3, GoodNil, TransferPeerGood
  <2> QED BY <2>2, <2>3
<1> HIDE DEF try
<1>3. \A s : Works(out(s))
  BY <1>2, GoodNil DEF Works
<1> HIDE DEF out
<1> QED BY <1>1, <1>3 DEF Works

(* What it returns can be told from other operators. *)
LEMMA BalanceRegionMarked ==
  ASSUME NEW c, NEW hits, NEW ops \in BalanceRegionSchedule(c, hits), NEW i \in DOMAIN ops
  PROVE  ops[i].desc = "balance-region"
<1> DEFINE Marked(seqs) == \A o \in seqs : \A j \in DOMAIN o : o[j].desc = "balance-region"
           mv(region, s, t) == CreateMovePeerOperator("balance-region", c, region, {"balance"}, s, t, t)
<1>1. Marked(nil)
  BY DEF nil
<1>2. \A region, s, t : \A op \in mv(region, s, t) : op.desc = "balance-region"
  BY DEF CreateMovePeerOperator, NewOperator
<1> HIDE DEF mv
<1>3. \A region, s, t : Marked(single(mv(region, s, t)))
  BY <1>1, <1>2 DEF single
<1>4. \A region, s : \A o \in transferPeer(c, region, s, hits) :
         o \in nil \/ \E t : o \in single(mv(region, s, t))
  BY DEF transferPeer, mv
<1>5. \A region, s : Marked(transferPeer(c, region, s, hits))
  BY <1>1, <1>3, <1>4
<1>6. ops \in nil \/ \E region, s : ops \in transferPeer(c, region, s, hits)
  BY DEF BalanceRegionSchedule
<1> QED BY <1>1, <1>5, <1>6

LEMMA LabelGood ==
  ASSUME NEW c, View(c), Tidy
  PROVE  Works(LabelSchedule(c))
<1> DEFINE filters(region) == {StoreStateFilter(c, TRUE, FALSE),
                               NewExcludedFilter({}, region.down \cup region.pending)}
           out(s, r) == IF leaderRule(c, c.regions[r]) THEN nil
            ELSE UNION {IF t = NoStore THEN nil
                        ELSE {<<CreateTransferLeaderOperator("label-reject-leader", c.regions[r], s, t,
                                                             {"leader"})>>} :
                          t \in BalanceSelectTarget(c, "leader", GetFollowers(c.regions[r]),
                                                    filters(c.regions[r]))}
           try(s) == UNION {IF r = 0 THEN nil ELSE out(s, r) : r \in RandLeaderRegion(c, s, anyHealth)}
           tries == {try(s) : s \in {s \in GetStores(c) : c.stores[s].rejectLeader}}
<1>1. LabelSchedule(c) = ((UNION tries) \ nil) \cup (IF \A t \in tries : nil \subseteq t THEN nil ELSE {})
  BY DEF LabelSchedule
<1>2. ASSUME NEW s, NEW r \in RandLeaderRegion(c, s, anyHealth), r # 0 PROVE Works(out(s, r))
  <2>1. Known(c.regions[r])
    BY <1>2, LiveKnown, RandFacts
  <2>2. ASSUME NEW t \in BalanceSelectTarget(c, "leader", GetFollowers(c.regions[r]), filters(c.regions[r])),
               t # NoStore
        PROVE  GoodOps(<<CreateTransferLeaderOperator("label-reject-leader", c.regions[r], s, t, {"leader"})>>)
    <3>1. t \in GetFollowers(c.regions[r])
      BY <2>2, SelectFacts
    <3> QED BY <2>1, <3>1, GoodOne, TransferGood DEF Spreading
  <2> HIDE DEF filters
  <2> QED BY <2>2, GoodNil DEF Works
<1> HIDE DEF out
<1>3. \A s : Works(try(s))
  BY <1>2, GoodNil DEF Works
<1> HIDE DEF try
<1>4. \A t \in tries : Works(t)
  BY <1>3
<1> HIDE DEF tries
<1> QED BY <1>1, <1>4, GoodNil DEF Works

LEMMA EvictGood ==
  ASSUME NEW c, View(c), Tidy, NEW s
  PROVE  Works(EvictLeaderSchedule(c, s))
<1> DEFINE one(r, t) == <<High(CreateTransferLeaderOperator("evict-leader", c.regions[r],
                               c.regions[r].leader, t, {"leader"}))>>
           out(r) == IF r = 0 THEN nil
         ELSE UNION {IF t = NoStore THEN nil ELSE {one(r, t)} :
                       t \in RandomSelectTarget(GetFollowers(c.regions[r]),
                                                {StoreStateFilter(c, TRUE, FALSE)})}
<1>1. EvictLeaderSchedule(c, s) = UNION {out(r) : r \in RandLeaderRegion(c, s, HealthRegion)}
  BY DEF EvictLeaderSchedule
<1>2. ASSUME NEW r \in RandLeaderRegion(c, s, HealthRegion) PROVE Works(out(r))
  <2>1. ASSUME r # 0, NEW t \in RandomSelectTarget(GetFollowers(c.regions[r]), {StoreStateFilter(c, TRUE, FALSE)}),
               t # NoStore
        PROVE  GoodOps(one(r, t))
    <3>1. Known(c.regions[r])
      BY <2>1, LiveKnown, RandFacts
    <3>2. t \in GetFollowers(c.regions[r])
      BY <2>1, SelectFacts
    <3> QED BY <3>1, <3>2, GoodOne, GoodHigh, TransferGood DEF Spreading
  <2> HIDE DEF one
  <2> QED BY <2>1, GoodNil DEF Works
<1> HIDE DEF out
<1> QED BY <1>1, <1>2 DEF Works

LEMMA GrantGood ==
  ASSUME NEW c, View(c), Tidy, NEW s
  PROVE  Works(GrantLeaderSchedule(c, s))
<1>1. ASSUME NEW r \in RandFollowerRegion(c, s, HealthRegion), r # 0
      PROVE  GoodOps(<<High(CreateTransferLeaderOperator("grant-leader", c.regions[r],
                                            c.regions[r].leader, s, {"leader"}))>>)
  <2>1. Known(c.regions[r]) /\ s \in GetFollowers(c.regions[r])
    BY <1>1, LiveKnown, RandFacts
  <2> QED BY <2>1, GoodOne, GoodHigh, TransferGood DEF Spreading
<1> QED BY <1>1, GoodNil DEF GrantLeaderSchedule, Works

LEMMA ShuffleLeaderGood ==
  ASSUME NEW c, View(c), Tidy
  PROVE  Works(ShuffleLeaderSchedule(c))
<1> DEFINE one(r, t) == <<High(CreateTransferLeaderOperator("shuffle-leader", c.regions[r],
                        c.regions[r].peers[c.regions[r].leader].id, t, {"admin"}))>>
           out(t) == IF t = NoStore THEN nil
                     ELSE {IF r = 0 THEN <<>> ELSE one(r, t) : r \in RandFollowerRegion(c, t, HealthRegion)}
<1>1. ShuffleLeaderSchedule(c) =
        UNION {out(t) : t \in RandomSelectTarget(GetStores(c), {StoreStateFilter(c, TRUE, FALSE)})}
  BY DEF ShuffleLeaderSchedule
<1>2. ASSUME NEW t, NEW r \in RandFollowerRegion(c, t, HealthRegion), r # 0 PROVE GoodOps(one(r, t))
  <2>1. Known(c.regions[r]) /\ t \in GetFollowers(c.regions[r])
    BY <1>2, LiveKnown, RandFacts
  <2> QED BY <2>1, GoodOne, GoodHigh, TransferGood DEF Spreading
<1> HIDE DEF one
<1>3. \A t : Works(out(t))
  BY <1>2, GoodNil DEF Works
<1> HIDE DEF out
<1> QED BY <1>1, <1>3 DEF Works

LEMMA ShuffleRegionGood ==
  ASSUME NEW c, View(c), Tidy, ~Room
  PROVE  Works(ShuffleRegionSchedule(c))
<1> DEFINE ts(region) == scheduleAddPeer(c, NewExcludedFilter({}, DOMAIN region.peers))
           one(region, s, t) == IF t = NoStore THEN nil
                                ELSE raised(single(CreateMovePeerOperator("shuffle-region", c, region,
                                                                          {"admin"}, s, t, t)))
           out(rs) == IF rs[1] = 0 THEN nil
                      ELSE UNION {one(c.regions[rs[1]], rs[2], t) : t \in ts(c.regions[rs[1]])}
<1>1. ShuffleRegionSchedule(c) = UNION {out(rs) : rs \in scheduleRemovePeer(c)}
  BY DEF ShuffleRegionSchedule
<1>2. ASSUME NEW rs \in scheduleRemovePeer(c), rs[1] # 0 PROVE rs[1] \in live(c)
  <2> DEFINE some(s) == IF s = NoStore THEN {<<0, s>>}
         ELSE LET follower == RandFollowerRegion(c, s, HealthRegion)
              IN  {<<r, s>> : r \in (follower \ {0})
                     \cup (IF 0 \in follower THEN RandLeaderRegion(c, s, HealthRegion) ELSE {})}
  <2>1. PICK s : rs \in some(s)
    BY DEF scheduleRemovePeer
  <2>2. s # NoStore
    BY <1>2, <2>1
  <2>3. PICK r \in RandFollowerRegion(c, s, HealthRegion) \cup RandLeaderRegion(c, s, HealthRegion) : rs = <<r, s>>
    BY <2>1, <2>2
  <2> QED BY <1>2, <2>3, RandFacts
<1>3. ASSUME NEW region, Known(region), NEW s, NEW t \in ts(region) PROVE Works(one(region, s, t))
  <2>1. CASE t = NoStore
    BY <2>1, GoodNil
  <2>2. CASE t # NoStore
    <3> DEFINE fs == {StoreStateFilter(c, FALSE, TRUE), NewExcludedFilter({}, DOMAIN region.peers)}
    <3>1. t \in RandomSelectTarget(GetStores(c), fs)
      BY DEF scheduleAddPeer
    <3>2. NewExcludedFilter({}, DOMAIN region.peers) \in fs
      OBVIOUS
    <3> HIDE DEF fs
    <3>3. t \notin DOMAIN region.peers /\ t \in nodes
      BY <2>2, <3>1, <3>2, SelectFacts, ExcludedFacts, OwnStores
    <3>5. MayMove("shuffle-region", region, s, t)
      BY DEF MayMove, Spreading
    <3>4. \A op \in CreateMovePeerOperator("shuffle-region", c, region, {"admin"}, s, t, t) : GoodOp(op)
      BY <1>3, <3>3, <3>5, MoveGood DEF Roomy
    <3> QED BY <2>2, <3>4, GoodSingle, GoodRaised
  <2> QED BY <2>1, <2>2
<1> HIDE DEF one, ts
<1>4. ASSUME NEW rs \in scheduleRemovePeer(c) PROVE Works(out(rs))
  <2>1. rs[1] # 0 => Known(c.regions[rs[1]])
    BY <1>2, LiveKnown
  <2> QED BY <1>3, <2>1, GoodNil DEF Works
<1> HIDE DEF out
<1> QED BY <1>1, <1>4 DEF Works

(* The hot regions of a store are regions of the cluster that it has a     *)
(* peer of, or leads.                                                      *)
HotOn(c, rs, s) ==
  \A r \in rs : r \in live(c) /\ (c.regions[r].leader = s \/ GetStorePeer(c.regions[r], s))

LEMMA ScoreFacts ==
  ASSUME NEW c, NEW items, NEW kind, NEW s \in DOMAIN calcScore(c, items, kind)
  PROVE  HotOn(c, calcScore(c, items, kind)[s].regions, s)
<1> DEFINE hot == {r \in DOMAIN ownStats(c, items) : items[r].degree >= c.hitsThreshold}
           on(t) == {r \in hot : IF kind = "leader" THEN c.regions[r].leader = t
                                 ELSE GetStorePeer(c.regions[r], t)}
<1>1. hot \subseteq live(c)
  BY DEF ownStats
<1>2. calcScore(c, items, kind)[s].regions = on(s)
  BY DEF calcScore
<1> HIDE DEF hot
<1> QED BY <1>1, <1>2 DEF HotOn

LEMMA DestFacts ==
  ASSUME NEW candidates, NEW median, NEW src, NEW stats,
         NEW d \in selectDestStore(candidates, median, src, stats), d # NoStore
  PROVE  d \in candidates
BY DEF selectDestStore, orNil

LEMMA HotTargets ==
  ASSUME NEW c, NEW region, NEW src, NEW t \in hotTargets(c, region, src)
  PROVE  /\ t \notin DOMAIN region.peers /\ t \in GetStores(c)
         /\ t \notin NewDistinctScoreFilter(c, DOMAIN region.peers, src).targets
<1> DEFINE fs == {StoreStateFilter(c, FALSE, TRUE),
                  NewExcludedFilter(DOMAIN region.peers, DOMAIN region.peers),
                  NewDistinctScoreFilter(c, DOMAIN region.peers, src)}
<1>1. /\ t \in GetStores(c) /\ ~FilterTarget(t, fs)
      /\ NewExcludedFilter(DOMAIN region.peers, DOMAIN region.peers) \in fs
      /\ NewDistinctScoreFilter(c, DOMAIN region.peers, src) \in fs
  BY DEF hotTargets
<1> HIDE DEF fs
<1>2. t \notin DOMAIN region.peers
  BY <1>1, ExcludedFacts
<1> QED BY <1>1, <1>2 DEF FilterTarget

(* The targets are where the peer on src may go. *)
LEMMA HotMoves ==
  ASSUME NEW c, View(c), NEW region, Known(region), NEW src, NEW t \in hotTargets(c, region, src),
         GetStorePeer(region, src), NEW desc
  PROVE  t \notin DOMAIN region.peers /\ t \in nodes /\ MayMove(desc, region, src, t)
<1>1. src \in DOMAIN region.peers
  BY DEF GetStorePeer
<1>2. t \in nodes
  BY HotTargets, OwnStores
<1> QED BY <1>1, <1>2, HotTargets, FilterFarther

(* What balanceByPeer and balanceByLeader choose. *)
LEMMA ByPeerFacts ==
  ASSUME NEW c, View(c), Tidy, NEW mem, NEW items, NEW stats,
         \A s \in DOMAIN stats : HotOn(c, stats[s].regions, s),
         NEW m \in balanceByPeer(c, mem, items, stats), m.src # 0, NEW desc
  PROVE  /\ Known(c.regions[m.r])
         /\ Cardinality(DOMAIN c.regions[m.r].peers) = c.maxReplicas
         /\ m.dest \notin DOMAIN c.regions[m.r].peers /\ m.dest \in nodes
         /\ GetStorePeer(c.regions[m.r], m.src) => MayMove(desc, c.regions[m.r], m.src, m.dest)
<1> DEFINE dests(src, r) ==
             IF \/ isRegionUnhealthy(c.regions[r])
                \/ Cardinality(DOMAIN c.regions[r].peers) # c.maxReplicas
             THEN {NoStore}
             ELSE selectDestStore(hotTargets(c, c.regions[r], src), items[r].median, src, stats)
           from(src) ==
             UNION {{[src |-> src, r |-> r, dest |-> d] : d \in dests(src, r) \ {NoStore}} :
                      r \in stats[src].regions}
<1>1. PICK src \in selectSrcStore(stats) : src # NoStore /\ m \in from(src)
  BY DEF balanceByPeer
<1>2. src \in DOMAIN stats
  BY <1>1 DEF selectSrcStore, orNil
<1>3. PICK r \in stats[src].regions : \E d \in dests(src, r) \ {NoStore} : m = [src |-> src, r |-> r, dest |-> d]
  BY <1>1
<1>4. PICK d \in dests(src, r) \ {NoStore} : m = [src |-> src, r |-> r, dest |-> d]
  BY <1>3
<1>5. Known(c.regions[r])
  BY <1>2, <1>3, LiveKnown DEF HotOn
<1>6. /\ Cardinality(DOMAIN c.regions[r].peers) = c.maxReplicas
      /\ d \in selectDestStore(hotTargets(c, c.regions[r], src), items[r].median, src, stats)
  BY <1>4
<1>7. d \in hotTargets(c, c.regions[r], src)
  BY <1>4, <1>6, DestFacts
<1>8. /\ d \notin DOMAIN c.regions[r].peers /\ d \in nodes
      /\ GetStorePeer(c.regions[r], src) => MayMove(desc, c.regions[r], src, d)
  BY <1>5, <1>7, HotMoves, HotTargets, OwnStores
<1> QED BY <1>4, <1>5, <1>6, <1>8

LEMMA ByLeaderFacts ==
  ASSUME NEW c, View(c), Tidy, NEW mem, NEW items, NEW stats,
         \A s \in DOMAIN stats : HotOn(c, stats[s].regions, s),
         NEW m \in balanceByLeader(c, mem, items, stats), m.src # 0
  PROVE  Known(c.regions[m.r]) /\ m.dest \in GetFollowers(c.regions[m.r])
<1> DEFINE followers(r) == {s \in GetFollowers(c.regions[r]) :
                              ~FilterTarget(s, {StoreStateFilter(c, TRUE, FALSE)})}
           dests(src, r) ==
             IF isRegionUnhealthy(c.regions[r]) \/ followers(r) = {} THEN {NoStore}
             ELSE selectDestStore(followers(r), items[r].median, src, stats)
           from(src) ==
             UNION {{[src |-> src, r |-> r, dest |-> d] : d \in dests(src, r) \ {NoStore}} :
                      r \in stats[src].regions}
           none(src) == \A r \in stats[src].regions : NoStore \in dests(src, r)
           out(src) == IF src = NoStore THEN {[src |-> 0]}
                       ELSE from(src) \cup (IF none(src) THEN {[src |-> 0]} ELSE {})
<1>0. balanceByLeader(c, mem, items, stats) =
        IF ~allowBalanceLeader(c, mem) THEN {[src |-> 0]}
        ELSE UNION {out(src) : src \in selectSrcStore(stats)}
  BY Zenon DEF balanceByLeader
<1>1. PICK src \in selectSrcStore(stats) : src # NoStore /\ m \in from(src)
  <2> HIDE DEF from, none
  <2>1. [src |-> 0].src = 0
    OBVIOUS
  <2>2. m # [src |-> 0]
    BY <2>1
  <2> QED BY <1>0, <2>2
<1>2. src \in DOMAIN stats
  BY <1>1 DEF selectSrcStore, orNil
<1> HIDE DEF followers
<1>3. PICK r \in stats[src].regions : \E d \in dests(src, r) \ {NoStore} : m = [src |-> src, r |-> r, dest |-> d]
  BY <1>1
<1>4. PICK d \in dests(src, r) \ {NoStore} : m = [src |-> src, r |-> r, dest |-> d]
  BY <1>3
<1>5. Known(c.regions[r]) /\ (c.regions[r].leader = src \/ GetStorePeer(c.regions[r], src))
  BY <1>2, <1>3, LiveKnown DEF HotOn
<1>6. d \in selectDestStore(followers(r), items[r].median, src, stats)
  BY <1>4
<1>7. d \in followers(r)
  BY <1>4, <1>6, DestFacts
<1>8. d \in GetFollowers(c.regions[r])
  BY <1>7 DEF followers
<1> QED BY <1>4, <1>5, <1>8

(* The outcomes of a scheduler with a memory. *)
Answers(outs) == \A o \in outs : GoodOps(o.ops)

LEMMA SkipGood == \A mem : GoodOps(skip(mem).ops) /\ Answers({skip(mem)})
BY GoodNil DEF skip, Answers

LEMMA HotPeerGood ==
  ASSUME NEW c, View(c), Tidy, Wanted \in Nat, NEW mem, NEW mm, NEW desc, NEW items, NEW kind,
         NEW m \in balanceByPeer(c, mem, items, calcScore(c, items, kind)), m.src # 0
  PROVE  Answers(moveHotPeer(c, mm, desc, m, calcScore(c, items, kind)))
<1> DEFINE stats == calcScore(c, items, kind)
           ops == CreateMovePeerOperator(desc, c, c.regions[m.r], {"hotRegion"}, m.src, m.dest, m.dest)
<1>1. \A s \in DOMAIN stats : HotOn(c, stats[s].regions, s)
  BY ScoreFacts
<1> HIDE DEF stats
<1>2. /\ Known(c.regions[m.r]) /\ m.dest \notin DOMAIN c.regions[m.r].peers /\ m.dest \in nodes
      /\ Cardinality(DOMAIN c.regions[m.r].peers) = c.maxReplicas
      /\ GetStorePeer(c.regions[m.r], m.src) => MayMove(desc, c.regions[m.r], m.src, m.dest)
  BY <1>1, ByPeerFacts DEF stats
<1>3. Roomy(c.regions[m.r])
  BY <1>2 DEF Roomy, View
<1>4. GetStorePeer(c.regions[m.r], m.src) => Works(raised(single(ops)))
  BY <1>2, <1>3, MoveGood, GoodSingle, GoodRaised
<1> QED BY <1>4, SkipGood DEF moveHotPeer, Answers, Works

LEMMA HotLeaderGood ==
  ASSUME NEW c, View(c), Tidy, NEW mem, NEW desc, desc \notin Spreading, NEW items, NEW kind,
         NEW m \in balanceByLeader(c, mem, items, calcScore(c, items, kind)), m.src # 0
  PROVE  Answers(moveHotLeader(c, mem, desc, m, calcScore(c, items, kind)))
<1> DEFINE stats == calcScore(c, items, kind)
           op == High(CreateTransferLeaderOperator(desc, c.regions[m.r],
                              c.regions[m.r].leader, m.dest, {"hotRegion"}))
<1>1. \A s \in DOMAIN stats : HotOn(c, stats[s].regions, s)
  BY ScoreFacts
<1> HIDE DEF stats
<1>2. Known(c.regions[m.r]) /\ m.dest \in GetFollowers(c.regions[m.r])
  BY <1>1, ByLeaderFacts DEF stats
<1>3. GoodOps(<<op>>)
  BY <1>2, GoodOne, GoodHigh, TransferGood
<1> QED BY <1>3, SkipGood DEF moveHotLeader, Answers

LEMMA HotRegionGood ==
  ASSUME NEW c, View(c), Tidy, Wanted \in Nat, NEW mem
  PROVE  Answers(HotRegionSchedule(c, mem))
<1>1. ASSUME NEW mm, NEW desc, NEW items, NEW kind
      PROVE  Answers(UNION {IF m.src = 0 THEN {skip(mm)}
                            ELSE moveHotPeer(c, mm, desc, m, calcScore(c, items, kind)) :
                              m \in balanceByPeer(c, mm, items, calcScore(c, items, kind))})
  BY HotPeerGood, SkipGood DEF Answers
<1>2. ASSUME NEW mm, NEW desc, desc \notin Spreading, NEW items, NEW kind
      PROVE  Answers(UNION {IF m.src = 0 THEN {skip(mm)}
                            ELSE moveHotLeader(c, mm, desc, m, calcScore(c, items, kind)) :
                              m \in balanceByLeader(c, mm, items, calcScore(c, items, kind))})
  BY <1>2, HotLeaderGood, SkipGood DEF Answers
<1>3. Answers(balanceHotReadRegions(c, mem))
  <2> DEFINE stats == calcScore(c, c.read, "leader")
             lead  == UNION {IF m.src = 0 THEN {skip(mem)}
                      ELSE moveHotLeader(c, mem, "transfer-hot-read-leader", m, stats) :
                        m \in balanceByLeader(c, mem, c.read, stats)}
             peer(mm) == UNION {IF m.src = 0 THEN {skip(mm)}
                         ELSE moveHotPeer(c, mm, "move-hot-read-region", m, stats) :
                           m \in balanceByPeer(c, mm, c.read, stats)}
  <2>1. balanceHotReadRegions(c, mem) = UNION {IF o.ops # <<>> THEN {o} ELSE peer(o.mem) : o \in lead}
    BY DEF balanceHotReadRegions
  <2>2. Answers(lead)
    BY <1>2 DEF Spreading
  <2>3. \A mm : Answers(peer(mm))
    BY <1>1
  <2> HIDE DEF lead, peer
  <2> QED BY <2>1, <2>2, <2>3 DEF Answers
<1>4. Answers(balanceHotWriteRegions(c, mem))
  <2> DEFINE asLeader == calcScore(c, c.write, "leader")
             asPeer   == calcScore(c, c.write, "region")
             peer == UNION {IF m.src = 0 THEN {skip(mem)}
                            ELSE moveHotPeer(c, mem, "move-hot-write-region", m, asPeer) :
                              m \in balanceByPeer(c, mem, c.write, asPeer)}
             lead == UNION {IF m.src = 0 THEN {skip(mem)}
                            ELSE moveHotLeader(c, mem, "transfer-hot-write-leader", m, asLeader) :
                              m \in balanceByLeader(c, mem, c.write, asLeader)}
  <2>1. balanceHotWriteRegions(c, mem) = peer \cup lead
    BY DEF balanceHotWriteRegions
  <2>2. Answers(lead) /\ Answers(peer)
    BY <1>1, <1>2 DEF Spreading
  <2> HIDE DEF lead, peer
  <2> QED BY <2>1, <2>2 DEF Answers
<1> QED BY <1>3, <1>4 DEF HotRegionSchedule, Answers

LEMMA ShuffleHotGood ==
  ASSUME NEW c, View(c), Tidy, ~Room
  PROVE  Works(ShuffleHotRegionSchedule(c))
<1>1. ASSUME NEW stats, \A s \in DOMAIN stats : HotOn(c, stats[s].regions, s)
      PROVE  Works(randomSchedule(c, stats))
  <2> DEFINE fit(r) == c.regions[r].down = {} /\ c.regions[r].pending = {}
             ops(r, d) == CreateMoveLeaderOperator("random-move-hot-leader", c, c.regions[r],
                                          {"region", "leader"}, c.regions[r].leader, d, d)
             dests(r) == hotTargets(c, c.regions[r], c.regions[r].leader)
             move(r) == IF dests(r) = {} \/ ~GetStorePeer(c.regions[r], c.regions[r].leader) THEN nil
                        ELSE UNION {single(ops(r, d)) : d \in dests(r)}
             picks == UNION {stats[s].regions : s \in DOMAIN stats}
  <2>1. randomSchedule(c, stats) = (UNION {IF fit(r) THEN move(r) ELSE nil : r \in picks})
                                   \cup (IF picks = {} THEN nil ELSE {})
    BY DEF randomSchedule
  <2>2. ASSUME NEW r \in picks PROVE Works(move(r))
    <3>1. Known(c.regions[r])
      BY <1>1, LiveKnown DEF HotOn
    <3>2. ASSUME NEW d \in dests(r), GetStorePeer(c.regions[r], c.regions[r].leader)
          PROVE  Works(single(ops(r, d)))
      <4>1. /\ d \notin DOMAIN c.regions[r].peers /\ d \in nodes
            /\ MayMove("random-move-hot-leader", c.regions[r], c.regions[r].leader, d)
        BY <3>1, <3>2, HotMoves
      <4> QED BY <3>1, <4>1, MoveLeaderGood, GoodSingle DEF Roomy
    <3>3. GetStorePeer(c.regions[r], c.regions[r].leader) => Works(UNION {single(ops(r, d)) : d \in dests(r)})
      <4> HIDE DEF ops, dests
      <4> QED BY <3>2 DEF Works
    <3>4. \/ move(r) = nil
          \/ /\ GetStorePeer(c.regions[r], c.regions[r].leader)
             /\ move(r) = UNION {single(ops(r, d)) : d \in dests(r)}
      <4> HIDE DEF ops, dests
      <4> QED OBVIOUS
    <3> HIDE DEF ops, dests, move
    <3> QED BY <3>3, <3>4, GoodNil
  <2> HIDE DEF fit, move, picks
  <2>3. \A r \in picks : Works(IF fit(r) THEN move(r) ELSE nil)
    BY <2>2, GoodNil
  <2> QED BY <2>1, <2>3, GoodNil DEF Works
<1>2. \A items : Works(randomSchedule(c, calcScore(c, items, "leader")))
  BY <1>1, ScoreFacts
<1> QED BY <1>2 DEF ShuffleHotRegionSchedule, Works

(* scatter-range: the regions of the range are regions of the cluster. *)
LEMMA RangeGood ==
  ASSUME NEW c, View(c), Tidy, Wanted \in Nat, NEW start, NEW end, NEW tainted, NEW hits
  PROVE  Works(ScatterRangeSchedule(c, start, end, tainted, hits))
<1> DEFINE rc == GenRangeCluster(c, start, end)
           sub == {r \in live(c) : /\ start <= c.regions[r].start /\ end # Inf /\ c.regions[r].start < end}
           attach(seqs, desc) ==
        {[i \in DOMAIN o |-> IF i > 1 THEN o[i]
                             ELSE [o[i] EXCEPT !.desc = desc, !.kind = @ \cup {"range"}]] : o \in seqs}
<1>1. /\ DOMAIN rc = DOMAIN c /\ rc.regions = [r \in sub |-> c.regions[r]]
      /\ rc.all = c.all /\ rc.maxReplicas = c.maxReplicas /\ rc.enabled = c.enabled
      /\ rc.stores = c.stores /\ rc.own = c.own
  BY DEF GenRangeCluster, View, ClusterFields
<1> HIDE DEF rc
<1>6. Located(this) => Sited(this, rc, nodes)
  BY <1>1 DEF View, Sited
<1>2. View(rc)
  BY <1>1, <1>6 DEF View, live
<1>3. Works(BalanceLeaderSchedule(rc, tainted)) /\ Works(BalanceRegionSchedule(rc, hits))
  BY <1>2, BalanceLeaderGood, BalanceRegionGood
<1>4. ASSUME NEW seqs, Works(seqs), NEW desc,
             desc \notin Spreading \/ \A o \in seqs : \A i \in DOMAIN o : o[i].desc \in Spreading
      PROVE  Works(attach(seqs, desc))
  <2> DEFINE tag(op) == [op EXCEPT !.desc = desc, !.kind = @ \cup {"range"}]
             one(o, i) == IF i > 1 THEN o[i] ELSE tag(o[i])
             all(o) == [i \in DOMAIN o |-> one(o, i)]
  <2>1. ASSUME NEW op, GoodOp(op), desc \in Spreading => op.desc \in Spreading
        PROVE  GoodOp(tag(op))
    <3> DEFINE q == tag(op)
    <3>1. DOMAIN op = OpFields
      BY <2>1 DEF GoodOp
    <3>2. /\ DOMAIN q = OpFields /\ q.region = op.region
          /\ q.currentStep = op.currentStep /\ q.steps = op.steps
          /\ q.epoch = op.epoch /\ q.desc = desc
      BY <3>1 DEF OpFields
    <3> HIDE DEF q
    <3>3. Fair(q, this, nodes)
      BY <2>1, <3>2 DEF GoodOp, Fair
    <3>4. GoodOp(q)
      BY <2>1, <3>2, <3>3 DEF GoodOp
    <3> QED BY <3>4 DEF q
  <2>3. attach(seqs, desc) = {all(o) : o \in seqs}
    OBVIOUS
  <2> HIDE DEF tag
  <2>4. ASSUME NEW o \in seqs, NEW i \in DOMAIN o
        PROVE  GoodOp(one(o, i))
    <3>1. GoodOp(o[i]) /\ (desc \in Spreading => o[i].desc \in Spreading)
      BY <1>4 DEF Works, GoodOps
    <3>2. GoodOp(tag(o[i]))
      BY <2>1, <3>1
    <3> QED BY <3>1, <3>2
  <2> HIDE DEF one, attach
  <2>5. ASSUME NEW o \in seqs
        PROVE  GoodOps(all(o))
    BY <2>4 DEF GoodOps
  <2> HIDE DEF all
  <2> QED BY <2>3, <2>5 DEF Works
<1>5. ScatterRangeSchedule(c, start, end, tainted, hits) =
        orElse(attach(BalanceLeaderSchedule(rc, tainted), "scatter-range-leader"),
               attach(BalanceRegionSchedule(rc, hits), "scatter-range-region"))
  BY DEF ScatterRangeSchedule, rc
<1>7. "scatter-range-leader" \notin Spreading /\ "balance-region" \in Spreading
  BY DEF Spreading
<1> HIDE DEF attach
<1>8. /\ Works(attach(BalanceLeaderSchedule(rc, tainted), "scatter-range-leader"))
      /\ Works(attach(BalanceRegionSchedule(rc, hits), "scatter-range-region"))
  BY <1>3, <1>4, <1>7, BalanceRegionMarked
<1> QED BY <1>5, <1>8, GoodOrElse

-----------------------------------------------------------------------------
(* The checkers.                                                           *)

LEMMA LearnerGood ==
  ASSUME NEW region, Known(region)
  PROVE  Works(LearnerCheck(region))
<1>1. \A s \in GetLearners(region) \ region.pending :
        GoodOp(CreatePromoteLearnerOperator("promote-learner", region, s))
  BY PromoteGood DEF GetLearners, Spreading
<1> QED BY <1>1, GoodSingle DEF LearnerCheck

(* The other checkers come after it, and only where there is no learner. *)
LEMMA LearnerFirst ==
  ASSUME NEW region, Known(region), nil \subseteq LearnerCheck(region)
  PROVE  GetLearners(region) = {}
<1> DEFINE os == {CreatePromoteLearnerOperator("promote-learner", region, s) :
                    s \in GetLearners(region) \ region.pending}
<1>1. <<>> \in single(os)
  BY DEF nil, LearnerCheck
<1>2. os = {}
  <2> HIDE DEF os
  <2>1. \A o : <<o>> # <<>>
    OBVIOUS
  <2> QED BY <1>1, <2>1 DEF single
<1>3. region.pending = {}
  BY DEF Known, Shape
<1> QED BY <1>2, <1>3

(* The checkers do not keep the replicas apart. *)
LEMMA PlainMoves ==
  \A region, x, t : MayMove("replica", region, x, t) /\ MayMove("make-namespace-relocation", region, x, t)
BY DEF MayMove, Spreading

LEMMA FixGood ==
  ASSUME NEW c, View(c), NEW region, Known(region), NEW s, Wanted \in Nat, GetLearners(region) = {}
  PROVE  Works(fixPeer(c, region, s))
<1>1. /\ c.maxReplicas = Wanted /\ region.pending = {}
      /\ Cardinality(DOMAIN region.peers) \in Nat /\ GetVoters(region) = DOMAIN region.peers
  BY FS_CardinalityType DEF View, Known, Shape, GetVoters
<1> DEFINE rm == CreateRemovePeerOperator("replica", c, {"replica"}, region, s)
           mv(t) == CreateMovePeerOperator("replica", c, region, {"replica"}, s, t, t)
           ts == SelectBestReplacementStore(c, region, s, {NewStorageThresholdFilter(c)}, TRUE)
<1>2. CASE Cardinality(DOMAIN region.peers) > Wanted
  <2>1. \A op \in rm : GoodOp(op)
    BY <1>1, <1>2, RemoveGood DEF Spreading
  <2> HIDE DEF rm
  <2>2. fixPeer(c, region, s) = single(rm)
    BY <1>1, <1>2 DEF fixPeer, rm
  <2> QED BY <2>1, <2>2, GoodSingle
<1>3. CASE ~(Cardinality(DOMAIN region.peers) > Wanted)
  <2>1. Roomy(region)
    BY <1>1, <1>3 DEF Roomy
  <2>2. ASSUME NEW t \in ts, t # NoStore PROVE Works(single(mv(t)))
    <3>1. t \notin DOMAIN region.peers /\ t \in nodes
      BY <2>2, ReplacementFacts, OwnStores
    <3>2. \A op \in mv(t) : GoodOp(op)
      BY <2>1, <3>1, MoveGood, PlainMoves
    <3> HIDE DEF mv
    <3> QED BY <3>2, GoodSingle
  <2>3. fixPeer(c, region, s) = UNION {IF t = NoStore THEN nil ELSE single(mv(t)) : t \in ts}
    BY <1>1, <1>3 DEF fixPeer
  <2> HIDE DEF mv, ts
  <2>4. \A t \in ts : Works(IF t = NoStore THEN nil ELSE single(mv(t)))
    BY <2>2, GoodNil
  <2> QED BY <2>3, <2>4 DEF Works
<1> QED BY <1>2, <1>3

LEMMA OfflineGood ==
  ASSUME NEW c, View(c), NEW region, Known(region), Wanted \in Nat, GetLearners(region) = {}
  PROVE  Works(checkOfflinePeer(c, region)) /\ Works(checkDownPeer(c, region))
<1>1. \A s : Works(fixPeer(c, region, s))
  BY FixGood
<1>2. Works(checkOfflinePeer(c, region))
  <2> DEFINE going == {s \in DOMAIN region.peers : ~IsUp(c.stores[s])}
  <2>1. \/ checkOfflinePeer(c, region) = nil
        \/ checkOfflinePeer(c, region) = UNION {fixPeer(c, region, s) : s \in going}
    BY DEF checkOfflinePeer
  <2> HIDE DEF going
  <2> QED BY <1>1, <2>1, GoodNil DEF Works
<1>3. checkDownPeer(c, region) = nil
  BY DEF checkDownPeer, Known, Shape
<1> QED BY <1>2, <1>3, GoodNil

LEMMA MakeUpGood ==
  ASSUME NEW c, View(c), NEW region, Known(region), Roomy(region)
  PROVE  Works(makeUp(c, region))
<1> DEFINE ts == selectBestStoreToAddReplica(c, region, DOMAIN region.peers,
                                             {NewStorageThresholdFilter(c)}, TRUE)
           one(t) == <<CreateAddPeerOperator("replica", c, region, t, t, {"replica"})>>
<1>1. makeUp(c, region) = UNION {IF t = NoStore THEN nil ELSE {one(t)} : t \in ts}
  BY DEF makeUp
<1>2. \A t \in ts : t # NoStore => t \in nodes
  BY SelectFacts, OwnStores DEF selectBestStoreToAddReplica
<1>3. \A t \in nodes : GoodOps(one(t))
  BY AddGood, GoodOne DEF Spreading
<1> HIDE DEF ts, one
<1> QED BY <1>1, <1>2, <1>3, GoodNil DEF Works

LEMMA RemoveExtraGood ==
  ASSUME NEW c, NEW region, Known(region), Cardinality(GetVoters(region)) > Wanted
  PROVE  Works(removeExtra(c, region))
<1>1. \A s : Works(single(CreateRemovePeerOperator("replica", c, {"replica"}, region, s)))
  BY RemoveGood, GoodSingle DEF Spreading
<1> QED BY <1>1, GoodNil DEF removeExtra, Works

LEMMA BestGood ==
  ASSUME NEW c, View(c), NEW region, Known(region), Roomy(region)
  PROVE  Works(checkBestReplacement(c, region))
<1> DEFINE ts(old) == SelectBestReplacementStore(c, region, old, {NewStorageThresholdFilter(c)}, TRUE)
           better(old) == {t \in ts(old) \ {NoStore} :
                             DistinctScore(c, DOMAIN region.peers \ {old}, t)
                               > DistinctScore(c, DOMAIN region.peers, old)}
           mv(old, t) == CreateMovePeerOperator("replica", c, region, {"replica"}, old, t, t)
           out(old) == IF old = NoStore \/ better(old) = {} THEN nil
                       ELSE UNION {single(mv(old, t)) : t \in better(old)}
<1>1. \/ checkBestReplacement(c, region) = nil
      \/ checkBestReplacement(c, region) = UNION {out(old) : old \in selectWorstPeer(c, region)}
  BY DEF checkBestReplacement
<1>2. ASSUME NEW old, NEW t \in better(old) PROVE Works(single(mv(old, t)))
  <2>1. t \in ts(old) /\ t # NoStore
    BY <1>2
  <2>2. t \notin DOMAIN region.peers /\ t \in nodes
    BY <2>1, ReplacementFacts, OwnStores
  <2>3. \A op \in mv(old, t) : GoodOp(op)
    BY <2>2, MoveGood, PlainMoves
  <2> HIDE DEF mv
  <2> QED BY <2>3, GoodSingle
<1> HIDE DEF better, mv
<1>3. ASSUME NEW old PROVE Works(out(old))
  <2>1. Works(UNION {single(mv(old, t)) : t \in better(old)})
    BY <1>2 DEF Works
  <2> QED BY <2>1, GoodNil
<1> HIDE DEF out
<1> QED BY <1>1, <1>3, GoodNil DEF Works

LEMMA ReplicaGood ==
  ASSUME NEW c, View(c), NEW region, Known(region), Wanted \in Nat, GetLearners(region) = {}
  PROVE  Works(ReplicaCheck(c, region))
<1> DEFINE P == DOMAIN region.peers
           last == IF Cardinality(P) < c.maxReplicas /\ "makeUp" \in c.enabled
                   THEN makeUp(c, region)
                   ELSE IF Cardinality(GetVoters(region)) > c.maxReplicas /\ "removeExtra" \in c.enabled
                   THEN removeExtra(c, region)
                   ELSE checkBestReplacement(c, region)
<1>1. /\ c.maxReplicas = Wanted /\ c.enabled = this.opt.enabled
      /\ Cardinality(P) \in Nat /\ GetVoters(region) = P
  BY FS_CardinalityType DEF View, Known, Shape, GetVoters
<1>2. Cardinality(P) < Wanted => Roomy(region)
  BY <1>1 DEF Roomy
<1>3. ~(Cardinality(P) > Wanted /\ "removeExtra" \in c.enabled) => Roomy(region)
  BY <1>1 DEF Roomy, Room, Sparing
<1> HIDE DEF P
<1>4. Cardinality(P) < Wanted => Works(makeUp(c, region))
  BY <1>2, MakeUpGood
<1>5. Cardinality(P) > Wanted => Works(removeExtra(c, region))
  BY <1>1, RemoveExtraGood
<1>6. ~(Cardinality(P) > Wanted /\ "removeExtra" \in c.enabled) => Works(checkBestReplacement(c, region))
  BY <1>3, BestGood
<1>7. Works(last)
  BY <1>1, <1>4, <1>5, <1>6
<1> DEFINE off == checkOfflinePeer(c, region)
           dwn == checkDownPeer(c, region)
<1>8. ReplicaCheck(c, region) = orElse(raised(dwn), orElse(raised(off), last))
  BY DEF ReplicaCheck, P
<1>9. Works(raised(off)) /\ Works(raised(dwn))
  BY OfflineGood, GoodRaised
<1> HIDE DEF last, off, dwn
<1> QED BY <1>7, <1>8, <1>9, GoodOrElse

LEMMA NamespaceGood ==
  ASSUME NEW c, View(c), NEW region, Known(region),
         Room => \A s \in DOMAIN c.stores : c.stores[s].namespace = "global"
  PROVE  Works(NamespaceCheck(c, region))
<1> DEFINE own     == {s \in DOMAIN c.stores : c.stores[s].namespace = region.namespace}
           outside == DOMAIN region.peers \ own
           fs      == {StoreStateFilter(c, FALSE, TRUE), NewExcludedFilter({}, DOMAIN region.peers)}
           mv(s, t) == CreateMovePeerOperator("make-namespace-relocation", c, region, {"replica"}, s, t, t)
           out(s, t) == IF t = NoStore THEN nil ELSE single(mv(s, t))
           all     == UNION {out(s, t) : s \in outside, t \in RandomSelectTarget(own, fs)}
<1>1. \/ NamespaceCheck(c, region) = nil
      \/ /\ Cardinality(namespaces(c)) # 1 /\ own # {}
         /\ NamespaceCheck(c, region) = all
  <2> DEFINE not == \/ "namespaceRelocation" \notin c.enabled
                    \/ RegionFilterSource(c, region, {"Leader", "Region"})
                    \/ Cardinality(namespaces(c)) = 1 \/ own = {} \/ outside = {}
  <2>1. NamespaceCheck(c, region) = IF not THEN nil ELSE all
    BY DEF NamespaceCheck
  <2>2. ~not => Cardinality(namespaces(c)) # 1 /\ own # {}
    OBVIOUS
  <2> HIDE DEF all, own, outside, not
  <2> QED BY <2>1, <2>2
<1>2. ASSUME NEW s, NEW t \in RandomSelectTarget(own, fs), Roomy(region) PROVE Works(out(s, t))
  <2>1. CASE t = NoStore
    BY <2>1, GoodNil
  <2>2. CASE t # NoStore
    <3>1. NewExcludedFilter({}, DOMAIN region.peers) \in fs
      OBVIOUS
    <3>5. own \subseteq nodes
      BY DEF View
    <3> HIDE DEF fs, own
    <3>2. t \notin DOMAIN region.peers /\ t \in nodes
      BY <1>2, <2>2, <3>1, <3>5, SelectFacts, ExcludedFacts
    <3>3. \A op \in mv(s, t) : GoodOp(op)
      BY <1>2, <3>2, MoveGood, PlainMoves
    <3> HIDE DEF mv
    <3>4. Works(single(mv(s, t)))
      BY <3>3, GoodSingle
    <3> QED BY <2>2, <3>4
  <2> QED BY <2>1, <2>2
<1>3. CASE Room
  <2>1. own # {} => namespaces(c) = {"global"}
    BY <1>3 DEF namespaces
  <2>2. Cardinality({"global"}) = 1
    BY FS_Singleton
  <2>3. NamespaceCheck(c, region) = nil
    <3> HIDE DEF own, all
    <3> QED BY <1>1, <2>1, <2>2
  <2> QED BY <2>3, GoodNil
<1>4. CASE ~Room
  <2>1. Roomy(region)
    BY <1>4 DEF Roomy
  <2> HIDE DEF own, out, fs, outside
  <2>2. \A s : \A t \in RandomSelectTarget(own, fs) : Works(out(s, t))
    BY <1>2, <2>1
  <2> QED BY <1>1, <2>2, GoodNil DEF Works
<1> QED BY <1>3, <1>4

LEMMA MergeNever ==
  ASSUME NEW c, NEW region, Known(region), c.maxMergeRegionSize = 0
  PROVE  MergeCheck(c, region) = nil
<1>1. region.size = 0 \/ region.size > 0
  BY DEF Known, Shape
<1> QED BY <1>1 DEF MergeCheck

LEMMA CheckGood ==
  ASSUME NEW c, View(c), NEW region, Known(region), Wanted \in Nat, c.maxMergeRegionSize = 0,
         Room => \A s \in DOMAIN c.stores : c.stores[s].namespace = "global"
  PROVE  Works(checkRegion(c, region))
<1> DEFINE ns == IF namespaceAllowed(c) THEN NamespaceCheck(c, region) ELSE nil
           rep == IF OperatorCount(c, {"replica"}) < c.replicaLimit THEN ReplicaCheck(c, region) ELSE nil
           mer == IF OperatorCount(c, {"merge"}) < c.mergeLimit THEN MergeCheck(c, region) ELSE nil
<1>1. checkRegion(c, region) = orElse(LearnerCheck(region), ns \cup rep \cup mer)
  BY DEF checkRegion
<1>2. Works(ns) /\ Works(mer) /\ Works(LearnerCheck(region))
  BY NamespaceGood, MergeNever, LearnerGood, GoodNil
<1>3. nil \subseteq LearnerCheck(region) => Works(rep)
  BY LearnerFirst, ReplicaGood, GoodNil
<1> HIDE DEF ns, rep, mer
<1>4. nil \subseteq LearnerCheck(region) => Works(ns \cup rep \cup mer)
  BY <1>2, <1>3 DEF Works
<1> QED BY <1>1, <1>2, <1>4 DEF orElse, Works

-----------------------------------------------------------------------------
(* Schedule, and the invariant of the ordinary cases.                      *)

LEMMA ScheduleGood ==
  ASSUME NEW c, View(c), Tidy, Wanted \in Nat, NEW s, NEW mem, s.type \in Balancers,
         Room => s.type \in Frugal
  PROVE  Answers(Schedule(c, s, mem))
<1> DEFINE same(seqs) == {[ops |-> o, mem |-> mem] : o \in seqs}
<1>0. \A seqs : Works(seqs) => Answers(same(seqs))
  BY DEF Works, Answers
<1>1. CASE s.type = "balance-leader"
  <2>1. Schedule(c, s, mem) = same(UNION {BalanceLeaderSchedule(c, t) : t \in Tainted(c)})
    BY <1>1 DEF Schedule
  <2>2. Works(UNION {BalanceLeaderSchedule(c, t) : t \in Tainted(c)})
    BY BalanceLeaderGood DEF Works
  <2> HIDE DEF same
  <2> QED BY <1>0, <2>1, <2>2
<1>2. CASE s.type = "balance-region"
  <2>1. Schedule(c, s, mem) = same(UNION {BalanceRegionSchedule(c, h) : h \in Hits(c)})
    BY <1>2 DEF Schedule
  <2>2. Works(UNION {BalanceRegionSchedule(c, h) : h \in Hits(c)})
    BY BalanceRegionGood DEF Works
  <2> HIDE DEF same
  <2> QED BY <1>0, <2>1, <2>2
<1>3. CASE s.type = "label"
  <2>1. Schedule(c, s, mem) = same(LabelSchedule(c))
    BY <1>3 DEF Schedule
  <2> HIDE DEF same
  <2> QED BY <1>0, <2>1, LabelGood
<1>4. CASE s.type = "evict-leader"
  <2>1. Schedule(c, s, mem) = same(EvictLeaderSchedule(c, s.store))
    BY <1>4 DEF Schedule
  <2> HIDE DEF same
  <2> QED BY <1>0, <2>1, EvictGood
<1>5. CASE s.type = "grant-leader"
  <2>1. Schedule(c, s, mem) = same(GrantLeaderSchedule(c, s.store))
    BY <1>5 DEF Schedule
  <2> HIDE DEF same
  <2> QED BY <1>0, <2>1, GrantGood
<1>6. CASE s.type = "shuffle-leader"
  <2>1. Schedule(c, s, mem) = same(ShuffleLeaderSchedule(c))
    BY <1>6 DEF Schedule
  <2> HIDE DEF same
  <2> QED BY <1>0, <2>1, ShuffleLeaderGood
<1>7. CASE s.type = "shuffle-region"
  <2>1. Schedule(c, s, mem) = same(ShuffleRegionSchedule(c))
    BY <1>7 DEF Schedule
  <2>2. ~Room
    BY <1>7 DEF Frugal
  <2> HIDE DEF same
  <2> QED BY <1>0, <2>1, <2>2, ShuffleRegionGood
<1>8. CASE s.type = "shuffle-hot-region"
  <2>1. Schedule(c, s, mem) = same(ShuffleHotRegionSchedule(c))
    BY <1>8 DEF Schedule
  <2>2. ~Room
    BY <1>8 DEF Frugal
  <2> HIDE DEF same
  <2> QED BY <1>0, <2>1, <2>2, ShuffleHotGood
<1>9. CASE s.type = "hot-region"
  <2>1. Schedule(c, s, mem) = HotRegionSchedule(c, mem)
    BY <1>9 DEF Schedule
  <2> QED BY <2>1, HotRegionGood
<1>10. CASE s.type = "scatter-range"
  <2>1. Schedule(c, s, mem) = same(ScatterRangeSchedule(c, 0, 2, {}, NoHits))
    BY <1>10 DEF Schedule
  <2> HIDE DEF same
  <2> QED BY <1>0, <2>1, RangeGood
<1> QED BY <1>1, <1>2, <1>3, <1>4, <1>5, <1>6, <1>7, <1>8, <1>9, <1>10 DEF Balancers

-----------------------------------------------------------------------------
(* The invariant of the ordinary cases (Ordinary, Stocked and Sparing are  *)
(* in SimCases).  A region is on running nodes; one that is not stray has  *)
(* a voter for its leader.                                                 *)
Placed(r, region, on) ==
  /\ region.id = r /\ Shape(region)
  /\ region.leader \in on /\ DOMAIN region.peers \subseteq on

Held(region, on, new) ==
  /\ Shape(region)
  /\ region.leader \in GetVoters(region) /\ DOMAIN region.peers \subseteq on
  /\ Stocked(new) => Cardinality(GetVoters(region)) >= new.opt.maxReplicas
  /\ Stocked(new) /\ Sparing(new) => Cardinality(DOMAIN region.peers) <= new.opt.maxReplicas + 1

(* What remains of the steps fits the region as it is now. *)
Ahead(steps, p, region, new) ==
  /\ Led(steps, p, region)
  /\ Stocked(new) => Covered(steps, p, region, new.opt.maxReplicas)
  /\ Stocked(new) /\ Sparing(new) => Modest(steps, p, region, new.opt.maxReplicas)

Formed(op) == DOMAIN op = OpFields /\ op.currentStep \in Nat \ {0} /\ Proper(op.steps)

RegionsHeld ==
  \A r \in RegionIds : /\ Placed(r, regions[r], nodes)
                       /\ r \notin stray => Held(regions[r], nodes, this)

(* The cache has no region that TiKV does not have. *)
CacheHeld ==
  /\ CachedIds \subseteq RegionIds
  /\ \A r \in CachedIds : /\ Placed(r, cache[r], nodes)
                          /\ r \notin stray => Held(cache[r], nodes, this)

PlansFollowed ==
  /\ DOMAIN running \subseteq RegionIds
  /\ \A r \in DOMAIN running :
       /\ Formed(running[r])
       /\ r \notin stray => Ahead(running[r].steps, running[r].currentStep, regions[r], this)

(* A command under way does no harm to the region as it is now; and the    *)
(* operator of the region, if there is one, is at the step of the command. *)
TasksFollowed ==
  /\ DOMAIN tasks \subseteq RegionIds
  /\ \A r \in DOMAIN tasks :
       /\ tasks[r].step.type \in StepKinds
       /\ tasks[r].step.type \in Learns => tasks[r].step.to \in nodes
       /\ r \notin stray =>
            /\ Ahead(<<tasks[r].step>>, 1, regions[r], this)
            /\ r \in DOMAIN running =>
                 /\ running[r].currentStep <= Len(running[r].steps)
                 /\ tasks[r].step = running[r].steps[running[r].currentStep]

(* An operator goes to running nodes, and no nearer to the other replicas. *)
PlansFair == \A r \in DOMAIN running : Fair(running[r], this, nodes)

(* Nothing of what the ordinary cases exclude is still to come, and every  *)
(* store, and every clone of one, is where it was when it came.            *)
AtHome(s, store) ==
  /\ Located(this) => "location" \in DOMAIN store /\ store.location = Home(this, s).location
  /\ Room => "namespace" \in DOMAIN store /\ store.namespace = "global"

Undisturbed ==
  /\ case \in Cases /\ nodes \subseteq Area(this)
  /\ \A s \in DOMAIN stores : AtHome(s, stores[s])
  /\ \A c \in clones : AtHome(c.store, c.as)
  /\ nodes = DOMAIN stores /\ DOMAIN this.stores \subseteq nodes /\ NoStore \notin nodes
  /\ DOMAIN pending = Happenings
  /\ pending.delete = {} /\ pending.scatter = {} /\ pending.admin = {} /\ pending.rules = {}
  /\ pending.add \subseteq this.events.add
  /\ DOMAIN sched \subseteq this.schedulers \cup this.events.manage

PlanInv == RegionsHeld /\ CacheHeld /\ PlansFollowed /\ TasksFollowed /\ PlansFair /\ Undisturbed

LEMMA VotersPlaced == \A region, on, new : Held(region, on, new) => region.leader \in on
BY VoterFacts DEF Held

LEMMA InitPlan == Init /\ Ordinary(this) => PlanInv
<1> SUFFICES ASSUME Init, Ordinary(this) PROVE PlanInv
  OBVIOUS
<1> DEFINE new == this
<1>1. /\ regions = new.regions /\ stores = new.stores /\ nodes = DOMAIN new.stores /\ case \in Cases
      /\ DOMAIN sched = new.schedulers /\ DOMAIN running = {} /\ cache = regions /\ DOMAIN tasks = {}
      /\ clones = {}
  BY DEF Init
<1>2. /\ DOMAIN pending = Happenings
      /\ pending.add = new.events.add
      /\ \A f \in {"delete", "scatter", "admin", "rules"} : pending[f] = new.events[f]
  BY DEF Init, Happenings
<1> HIDE DEF new
<1>3. \A r \in RegionIds : regions[r].id = r /\ Held(regions[r], nodes, this)
  BY <1>1 DEF Held, Ordinary, Stocked, RegionIds, new
<1>4. \A r \in RegionIds : Placed(r, regions[r], nodes)
  BY <1>3, VotersPlaced DEF Placed, Held
<1>5. RegionsHeld
  BY <1>3, <1>4 DEF RegionsHeld
<1>6. CacheHeld
  BY <1>1, <1>3, <1>4 DEF CacheHeld, CachedIds, RegionIds
<1>7. \A s \in DOMAIN stores : AtHome(s, stores[s])
  BY <1>1 DEF AtHome, Home, Located, Room, Sparing, new
<1>8. nodes \subseteq Area(this)
  BY <1>1 DEF Area, new
<1>9. Undisturbed
  BY <1>1, <1>2, <1>7, <1>8 DEF Undisturbed, Ordinary, new
<1> QED BY <1>1, <1>5, <1>6, <1>9 DEF PlanInv, PlansFollowed, PlansFair, TasksFollowed

LEMMA HeldTidy == CacheHeld => Tidy
BY DEF CacheHeld, Placed, Held, Tidy, Known

(* A region that has the same replicas and the same leader. *)
Alike(a, b) == b.leader = a.leader /\ b.peers = a.peers

LEMMA AlikeKeeps ==
  ASSUME NEW a, NEW b, NEW on, NEW more, NEW new, Alike(a, b), on \subseteq more
  PROVE  /\ Shape(b) /\ Held(a, on, new) => Held(b, more, new)
         /\ \A steps, p : Ahead(steps, p, a, new) => Ahead(steps, p, b, new)
<1>1. b.leader = a.leader /\ DOMAIN b.peers = DOMAIN a.peers /\ GetVoters(b) = GetVoters(a)
  BY DEF Alike, GetVoters, GetLearners
<1>2. Shape(b) /\ Held(a, on, new) => Held(b, more, new)
  BY <1>1 DEF Held
<1>3. ASSUME NEW steps, NEW p, NEW max
      PROVE  /\ Led(steps, p, a) => Led(steps, p, b)
             /\ Covered(steps, p, a, max) => Covered(steps, p, b, max)
             /\ Modest(steps, p, a, max) => Modest(steps, p, b, max)
  BY <1>1 DEF Led, Covered, Modest
<1> QED BY <1>2, <1>3 DEF Ahead

LEMMA GoodFormed ==
  ASSUME NEW op, GoodOp(op)
  PROVE  /\ op.region \in CachedIds /\ Formed(op) /\ Fair(op, this, nodes)
         /\ op.region \notin stray => Ahead(op.steps, op.currentStep, cache[op.region], this)
BY DEF GoodOp, Formed, Ahead, Sound, Wanted, Room

-----------------------------------------------------------------------------
(* The actions.                                                            *)

(* A step may change schedulers, pending events and what is not about the  *)
(* place of the stores.                                                    *)
LEMMA StillQuiet ==
  ASSUME Undisturbed, UNCHANGED <<case, nodes>>, DOMAIN stores' = DOMAIN stores,
         \A s \in DOMAIN stores : AtHome(s, stores'[s]), \A c \in clones' : AtHome(c.store, c.as),
         DOMAIN sched' \subseteq DOMAIN sched \cup this.events.manage,
         DOMAIN pending' = DOMAIN pending, pending'.add \subseteq pending.add,
         \A f \in {"delete", "scatter", "admin", "rules"} : pending'[f] = pending[f]
  PROVE  Undisturbed'
<1>1. this' = this
  BY DEF this
<1>3. /\ \A s \in DOMAIN stores' : AtHome(s, stores[s])'
      /\ \A c \in clones' : AtHome(c.store, c.as)'
  BY <1>1 DEF AtHome, Room
<1> QED BY <1>1, <1>3 DEF Undisturbed

LEMMA QuietSame ==
  ASSUME Undisturbed, UNCHANGED <<case, nodes, stores, clones, sched>>,
         DOMAIN pending' = DOMAIN pending,
         \A f \in DOMAIN pending : f \notin {"timeouts", "slow"} => pending'[f] = pending[f]
  PROVE  Undisturbed'
<1>1. \A f \in {"delete", "scatter", "admin", "rules", "add"} : pending'[f] = pending[f]
  BY DEF Undisturbed, Happenings
<1>2. /\ \A s \in DOMAIN stores : AtHome(s, stores'[s])
      /\ \A c \in clones' : AtHome(c.store, c.as)
  BY DEF Undisturbed
<1> QED BY <1>1, <1>2, StillQuiet

(* The regions and their world are left alone, operators may go. *)
LEMMA FewerPlans ==
  ASSUME PlanInv, UNCHANGED <<case, regions, cache, tasks, stray, nodes>>, Undisturbed',
         DOMAIN running' \subseteq DOMAIN running, \A q \in DOMAIN running' : running'[q] = running[q]
  PROVE  PlanInv'
<1>1. this' = this /\ RegionIds' = RegionIds /\ CachedIds' = CachedIds
  BY DEF this, RegionIds, CachedIds
<1>2. RegionsHeld' /\ CacheHeld'
  BY <1>1 DEF PlanInv, RegionsHeld, CacheHeld
<1>3. PlansFollowed'
  BY <1>1 DEF PlanInv, PlansFollowed
<1>4. PlansFair'
  BY <1>1 DEF PlanInv, PlansFair
<1>5. TasksFollowed'
  BY <1>1 DEF PlanInv, TasksFollowed
<1> QED BY <1>2, <1>3, <1>4, <1>5 DEF PlanInv

(* An operator that is made for a region that is not outdated finds it as  *)
(* the cache says.                                                         *)
LEMMA AddedPlans ==
  ASSUME PlanInv, NEW ops, GoodOps(ops), AddOperator(ops),
         UNCHANGED <<case, regions, cache, tasks, nodes>>, Undisturbed'
  PROVE  PlanInv'
<1>1. this' = this /\ RegionIds' = RegionIds /\ CachedIds' = CachedIds
  BY DEF this, RegionIds, CachedIds
<1> DEFINE E == {ops[i].region : i \in DOMAIN ops}
           pick(q) == CHOOSE i \in DOMAIN ops : ops[i].region = q
<1>3. /\ DOMAIN running' = DOMAIN running \cup E
      /\ \A q \in DOMAIN running' : running'[q] = IF q \in E THEN ops[pick(q)] ELSE running[q]
      /\ stray' = stray \cup {q \in E : outdated(q)}
  BY DEF AddOperator
<1>2. RegionsHeld' /\ CacheHeld'
  BY <1>1, <1>3 DEF PlanInv, RegionsHeld, CacheHeld
<1>4. ASSUME NEW i \in DOMAIN ops
      PROVE  LET op == ops[i]
             IN  /\ op.region \in CachedIds /\ Formed(op) /\ Fair(op, this, nodes)
                 /\ op.region \notin stray => Ahead(op.steps, op.currentStep, cache[op.region], this)
  BY GoodFormed DEF GoodOps
<1>5. \A q \in E : pick(q) \in DOMAIN ops /\ ops[pick(q)].region = q
  OBVIOUS
<1> HIDE DEF E, pick
<1>6. ASSUME NEW q \in E
      PROVE  /\ q \in RegionIds /\ Formed(running'[q]) /\ Fair(running'[q], this, nodes)
             /\ q \notin stray' =>
                  /\ q \notin DOMAIN tasks
                  /\ Ahead(running'[q].steps, running'[q].currentStep, regions[q], this)
  <2> DEFINE op == running'[q]
  <2>1. op = ops[pick(q)]
    BY <1>3
  <2> HIDE DEF op
  <2>2. /\ q \in CachedIds /\ Formed(op) /\ Fair(op, this, nodes)
        /\ q \notin stray => Ahead(op.steps, op.currentStep, cache[q], this)
    BY <1>4, <1>5, <2>1
  <2>3. q \in RegionIds
    BY <2>2 DEF PlanInv, CacheHeld
  <2>4. ASSUME q \notin stray' PROVE q \notin DOMAIN tasks /\ Ahead(op.steps, op.currentStep, regions[q], this)
    <3>1. q \notin stray /\ ~outdated(q)
      BY <1>3, <2>4
    <3>2. q \notin DOMAIN tasks /\ Alike(cache[q], regions[q])
      BY <3>1 DEF outdated, Alike
    <3> QED BY <2>2, <3>1, <3>2, AlikeKeeps
  <2> QED BY <2>2, <2>3, <2>4 DEF op
<1>7. ASSUME NEW q \in DOMAIN running', q \notin E PROVE q \in DOMAIN running /\ running'[q] = running[q]
  BY <1>3, <1>7
<1>8. stray \subseteq stray'
  BY <1>3
<1>9. PlansFollowed'
  <2>1. ASSUME NEW q \in DOMAIN running'
        PROVE  /\ q \in RegionIds /\ Formed(running'[q])
               /\ q \notin stray' => Ahead(running'[q].steps, running'[q].currentStep, regions[q], this)
    <3>1. CASE q \in E
      BY <1>6, <3>1
    <3>2. CASE q \notin E
      BY <1>7, <1>8, <3>2 DEF PlanInv, PlansFollowed
    <3> QED BY <3>1, <3>2
  <2> QED BY <1>1, <2>1 DEF PlansFollowed
<1>10. PlansFair'
  <2>1. ASSUME NEW q \in DOMAIN running' PROVE Fair(running'[q], this, nodes)
    <3>1. CASE q \in E
      BY <1>6, <3>1
    <3>2. CASE q \notin E
      BY <1>7, <3>2 DEF PlanInv, PlansFair
    <3> QED BY <3>1, <3>2
  <2> QED BY <1>1, <2>1 DEF PlansFair
<1>11. TasksFollowed'
  <2>1. ASSUME NEW q \in DOMAIN tasks, q \notin stray'
        PROVE  /\ Ahead(<<tasks[q].step>>, 1, regions[q], this)
               /\ q \in DOMAIN running' =>
                    /\ running'[q].currentStep <= Len(running'[q].steps)
                    /\ tasks[q].step = running'[q].steps[running'[q].currentStep]
    <3>1. q \notin E
      BY <1>6, <2>1
    <3>2. q \in DOMAIN running' => q \in DOMAIN running /\ running'[q] = running[q]
      BY <1>7, <3>1
    <3> QED BY <1>8, <2>1, <3>2 DEF PlanInv, TasksFollowed
  <2> QED BY <1>1, <2>1 DEF PlanInv, TasksFollowed
<1> QED BY <1>2, <1>9, <1>10, <1>11 DEF PlanInv

(* The cluster that the coordinator shows to its checkers and schedulers. *)
LEMMA ClusterView ==
  ASSUME PlanInv, Ordinary(this)
  PROVE  /\ View(Cluster) /\ \A ns : View(newNamespaceCluster(Cluster, ns))
         /\ Cluster.maxMergeRegionSize = 0 /\ Cluster.stores = stores
<1> DEFINE c == Cluster
<1>1. ClusterFields \subseteq DOMAIN this.opt /\ this.opt.maxMergeRegionSize = 0
  BY DEF Ordinary
<1>2. DOMAIN c = DOMAIN this.opt
  <2> DEFINE c1 == [this.opt EXCEPT !.stores = stores]
             c2 == [c1 EXCEPT !.own = DOMAIN stores]
             c3 == [c2 EXCEPT !.regions = cache]
             c4 == [c3 EXCEPT !.all = cache]
             c5 == [c4 EXCEPT !.running = running]
             c6 == [c5 EXCEPT !.plugins = plugins]
             c7 == [c6 EXCEPT !.now = now]
  <2>1. c = c7
    BY DEF Cluster
  <2>2. DOMAIN c1 = DOMAIN this.opt
    OBVIOUS
  <2> HIDE DEF c1
  <2>3. DOMAIN c2 = DOMAIN c1
    OBVIOUS
  <2> HIDE DEF c2
  <2>4. DOMAIN c3 = DOMAIN c2
    OBVIOUS
  <2> HIDE DEF c3
  <2>5. DOMAIN c4 = DOMAIN c3
    OBVIOUS
  <2> HIDE DEF c4
  <2>6. DOMAIN c5 = DOMAIN c4
    OBVIOUS
  <2> HIDE DEF c5
  <2>7. DOMAIN c6 = DOMAIN c5
    OBVIOUS
  <2> HIDE DEF c6
  <2>8. DOMAIN c7 = DOMAIN c6
    OBVIOUS
  <2> HIDE DEF c, c7
  <2> QED BY <2>1, <2>2, <2>3, <2>4, <2>5, <2>6, <2>7, <2>8
<1>3. c.regions = cache /\ c.all = cache /\ c.stores = stores /\ c.own = DOMAIN stores
  BY <1>1 DEF Cluster, ClusterFields
<1>4. c.maxReplicas = this.opt.maxReplicas /\ c.enabled = this.opt.enabled /\ c.maxMergeRegionSize = 0
  BY <1>1 DEF Cluster, ClusterFields
<1> HIDE DEF c
<1>7. /\ nodes = DOMAIN stores /\ nodes \subseteq Area(this)
      /\ Located(this) => Sited(this, c, nodes)
  BY <1>3 DEF PlanInv, Undisturbed, AtHome, Sited
<1>5. View(c)
  BY <1>1, <1>2, <1>3, <1>4, <1>7 DEF View, Wanted
<1>6. ASSUME NEW ns PROVE View(newNamespaceCluster(c, ns))
  <2> DEFINE d == newNamespaceCluster(c, ns)
  <2>1. /\ DOMAIN d = DOMAIN c /\ d.regions = c.regions /\ d.all = c.all
        /\ d.maxReplicas = c.maxReplicas /\ d.enabled = c.enabled
        /\ d.stores = c.stores /\ d.own \subseteq DOMAIN c.stores
    BY <1>1, <1>2 DEF newNamespaceCluster, ClusterFields
  <2> HIDE DEF d
  <2>3. Located(this) => Sited(this, d, nodes)
    BY <1>7, <2>1 DEF Sited
  <2>2. View(d)
    BY <1>5, <2>1, <2>3 DEF View
  <2> QED BY <2>2 DEF d
<1> QED BY <1>3, <1>4, <1>5, <1>6 DEF c

LEMMA PatrolPlan ==
  ASSUME PlanInv, Ordinary(this), NEW r, PatrolRegion(r)
  PROVE  PlanInv'
<1>1. Tidy /\ r \in CachedIds
  BY HeldTidy DEF PlanInv, PatrolRegion
<1>2. Known(cache[r]) /\ Wanted \in Nat
  BY <1>1 DEF Tidy, Ordinary, Wanted
<1>3. Room => \A s \in DOMAIN stores : stores[s].namespace = "global"
  BY DEF PlanInv, Undisturbed, AtHome
<1>4. Works(checkRegion(Cluster, cache[r]))
  BY <1>2, <1>3, ClusterView, CheckGood
<1>5. PICK ops \in checkRegion(Cluster, cache[r]) : AddOperator(ops)
  BY DEF PatrolRegion
<1>6. GoodOps(ops)
  BY <1>4, <1>5 DEF Works
<1>7. UNCHANGED <<case, regions, cache, tasks, stores, clones, nodes, sched, pending>>
  BY DEF PatrolRegion
<1>8. Undisturbed'
  BY <1>7, QuietSame DEF PlanInv
<1> QED BY <1>5, <1>6, <1>7, <1>8, AddedPlans

LEMMA RunPlan ==
  ASSUME PlanInv, Ordinary(this), NEW s, RunScheduler(s)
  PROVE  PlanInv'
<1>1. Tidy /\ Wanted \in Nat
  BY HeldTidy DEF PlanInv, Ordinary, Wanted
<1>2. s \in DOMAIN sched
  BY DEF RunScheduler
<1>3. s.type \in Balancers /\ (Room => s.type \in Frugal)
  BY <1>2 DEF PlanInv, Undisturbed, Ordinary, Room, Sparing
<1>4. ASSUME NEW ns PROVE Answers(Schedule(newNamespaceCluster(Cluster, ns), s, sched[s]))
  BY <1>1, <1>3, ClusterView, ScheduleGood
<1>5. Answers(scheduleByNamespace(s))
  BY <1>4 DEF scheduleByNamespace, Answers
<1>6. PICK out \in scheduleByNamespace(s) :
        /\ sched' = [sched EXCEPT ![s] = out.mem]
        /\ AddOperator(out.ops) \/ UNCHANGED <<running, stray>>
  BY DEF RunScheduler
<1>7. /\ UNCHANGED <<case, regions, cache, tasks, stores, clones, nodes, pending>>
      /\ DOMAIN sched' = DOMAIN sched
  BY <1>6 DEF RunScheduler
<1>8. Undisturbed'
  BY <1>7, StillQuiet DEF PlanInv, Undisturbed
<1>9. GoodOps(out.ops)
  BY <1>5, <1>6 DEF Answers
<1>10. CASE AddOperator(out.ops)
  BY <1>7, <1>8, <1>9, <1>10, AddedPlans
<1>11. CASE UNCHANGED <<running, stray>>
  BY <1>7, <1>8, <1>11, FewerPlans
<1> QED BY <1>6, <1>10, <1>11

-----------------------------------------------------------------------------
(* A command is carried out: in the heartbeat that sent it, or later.      *)

LEMMA StepTaken ==
  ASSUME NEW steps, NEW p, NEW q, NEW a, NEW b, NEW new, NEW on, new.opt.maxReplicas \in Nat,
         Held(a, on, new), Ahead(steps, p, a, new), Passed(steps, p, q, a), q # 0,
         Shape(b), DOMAIN b.peers \subseteq on, Moved(steps[q], a, b)
  PROVE  Held(b, on, new) /\ Ahead(steps, q, b, new)
<1> DEFINE max == new.opt.maxReplicas
<1>1. /\ p \in Nat /\ Len(steps) \in Nat /\ q \in Nat /\ q <= Len(steps)
      /\ Led(steps, p, a)
      /\ Stocked(new) => Covered(steps, p, a, max)
      /\ Stocked(new) /\ Sparing(new) => Modest(steps, p, a, max)
  BY DEF Ahead, Passed
<1>2. IsFiniteSet(DOMAIN a.peers) /\ a.leader \in GetVoters(a)
  BY DEF Held, Shape
<1> HIDE DEF max
<1>3. max \in Nat
  BY DEF max
<1>4. Led(steps, q, b) /\ b.leader \in GetVoters(b)
  BY <1>1, <1>2, PassLed, MoveLed
<1>5. Stocked(new) => Covered(steps, q, b, max) /\ Cardinality(GetVoters(b)) >= max
  <2> SUFFICES ASSUME Stocked(new) PROVE Covered(steps, q, b, max) /\ Cardinality(GetVoters(b)) >= max
    OBVIOUS
  <2>1. Covered(steps, q, a, max)
    BY <1>1, PassCovered
  <2>2. Cardinality(GetVoters(a)) >= max
    BY DEF Held, max
  <2> QED BY <1>1, <1>2, <1>3, <2>1, <2>2, MoveCovered
<1>6. Stocked(new) /\ Sparing(new) => Modest(steps, q, b, max) /\ Cardinality(DOMAIN b.peers) <= max + 1
  <2> SUFFICES ASSUME Stocked(new), Sparing(new)
               PROVE  Modest(steps, q, b, max) /\ Cardinality(DOMAIN b.peers) <= max + 1
    OBVIOUS
  <2>1. Modest(steps, q, a, max)
    BY <1>1, PassModest
  <2>2. Cardinality(DOMAIN a.peers) <= max + 1
    BY DEF Held, max
  <2> QED BY <1>1, <1>2, <1>3, <2>1, <2>2, MoveModest
<1>7. Held(b, on, new)
  BY <1>4, <1>5, <1>6 DEF Held, max
<1>8. Ahead(steps, q, b, new)
  BY <1>4, <1>5, <1>6 DEF Ahead, max
<1> QED BY <1>7, <1>8

(* The step that is next can be taken by itself. *)
LEMMA NextAlone ==
  ASSUME NEW steps, NEW p \in Nat, NEW a, NEW new, Len(steps) \in Nat, p <= Len(steps),
         Ahead(steps, p, a, new)
  PROVE  Ahead(<<steps[p]>>, 1, a, new)
<1> DEFINE one == <<steps[p]>>
           max == new.opt.maxReplicas
<1>1. Len(one) = 1 /\ one[1] = steps[p] /\ p \in p .. Len(steps) /\ p .. p - 1 = {}
  OBVIOUS
<1>2. \A i \in 1 .. 1 : i = 1
  OBVIOUS
<1> HIDE DEF one, max
<1>3. /\ steps[p].type = "RemovePeer" => steps[p].from # a.leader
      /\ steps[p].type = "TransferLeader" => steps[p].to \in GetVoters(a)
  BY <1>1 DEF Ahead, Led
<1>4. Led(one, 1, a)
  BY <1>1, <1>2, <1>3 DEF Led
<1>5. Covered(steps, p, a, max) => Covered(one, 1, a, max)
  BY <1>1, <1>2 DEF Covered
<1>6. Modest(steps, p, a, max) => Modest(one, 1, a, max)
  BY <1>1, <1>2 DEF Modest
<1> QED BY <1>4, <1>5, <1>6 DEF Ahead, one, max

LEMMA ShapeNotGone == \A b : Shape(b) => b # Gone
BY DEF Shape, RegionFields, Gone

(* What may become of region r, and of no other, when it is asked for a    *)
(* step.                                                                   *)
Becomes(r, step, b) ==
  /\ DOMAIN regions' = DOMAIN regions /\ regions'[r] = b
  /\ \A q \in DOMAIN regions : q # r => regions'[q] = regions[q]
  /\ Placed(r, b, nodes) /\ Moved(step, regions[r], b)

LEMMA TaskBecomes ==
  ASSUME PlanInv, NEW r \in RegionIds, NEW step, step.type \in StepKinds,
         step.type \in Learns => step.to \in nodes,
         regions' = regions \/ regions' = responseToTask(regions, nodes, r, step)
  PROVE  \E b : Becomes(r, step, b)
<1>1. Placed(r, regions[r], nodes) /\ r \in DOMAIN regions
  BY DEF PlanInv, RegionsHeld, RegionIds
<1>2. CASE regions' = regions
  <2>1. Moved(step, regions[r], regions[r])
    BY DEF Moved
  <2>2. Becomes(r, step, regions[r])
    BY <1>1, <1>2, <2>1 DEF Becomes
  <2> QED BY <2>2
<1>3. CASE regions' = responseToTask(regions, nodes, r, step)
  <2>1. PICK b : /\ responseToTask(regions, nodes, r, step) = [regions EXCEPT ![r] = b]
                 /\ Shape(b) /\ b.id = regions[r].id /\ b.namespace = regions[r].namespace
                 /\ DOMAIN b.peers \subseteq nodes
                 /\ Moved(step, regions[r], b)
    BY <1>1, TaskMoves DEF Placed
  <2>2. b.leader \in nodes
    BY <1>1, <2>1 DEF Placed, Moved
  <2>3. Placed(r, b, nodes)
    BY <1>1, <2>1, <2>2 DEF Placed
  <2>4. /\ DOMAIN regions' = DOMAIN regions /\ regions'[r] = b
        /\ \A q \in DOMAIN regions : q # r => regions'[q] = regions[q]
    BY <1>1, <1>3, <2>1
  <2>5. Becomes(r, step, b)
    BY <2>1, <2>3, <2>4 DEF Becomes
  <2> QED BY <2>5
<1> QED BY <1>2, <1>3

LEMMA BecomesHeld ==
  ASSUME PlanInv, NEW r \in RegionIds, NEW step, NEW b, Becomes(r, step, b),
         UNCHANGED <<case, nodes>>, stray \subseteq stray',
         r \notin stray' => Held(b, nodes, this)
  PROVE  RegionsHeld' /\ RegionIds' = RegionIds /\ this' = this
<1>1. RegionIds' = RegionIds /\ this' = this
  BY ShapeNotGone DEF RegionIds, Becomes, Placed, this
<1>2. ASSUME NEW q \in RegionIds
      PROVE  Placed(q, regions'[q], nodes) /\ (q \notin stray' => Held(regions'[q], nodes, this))
  <2>1. CASE q = r
    BY <2>1 DEF Becomes
  <2>2. CASE q # r
    <3>1. regions'[q] = regions[q]
      BY <2>2 DEF Becomes, RegionIds
    <3> QED BY <3>1 DEF PlanInv, RegionsHeld
  <2> QED BY <2>1, <2>2
<1> QED BY <1>1, <1>2 DEF RegionsHeld

(* The heartbeat of a region shows PD the region as it is. *)
LEMMA ReportHeld ==
  ASSUME PlanInv, NEW r \in RegionIds, cache' = report(cache, regions[r]),
         RegionIds' = RegionIds, this' = this, nodes' = nodes, stray \subseteq stray'
  PROVE  CacheHeld'
<1>1. Placed(r, regions[r], nodes) /\ (r \notin stray => Held(regions[r], nodes, this))
  BY DEF PlanInv, RegionsHeld
<1>2. regions[r].id = r
  BY <1>1 DEF Placed
<1>3. ASSUME NEW q \in CachedIds'
      PROVE  \/ q = r /\ cache'[q] = regions[r]
             \/ q \in CachedIds /\ cache'[q] = cache[q]
  BY <1>2 DEF report, CachedIds
<1>4. ASSUME NEW q \in CachedIds'
      PROVE  /\ q \in RegionIds /\ Placed(q, cache'[q], nodes)
             /\ q \notin stray' => Held(cache'[q], nodes, this)
  BY <1>1, <1>3 DEF PlanInv, CacheHeld
<1> QED BY <1>4 DEF CacheHeld

-----------------------------------------------------------------------------
(* A heartbeat: the operator goes on to its first unfinished step, and the *)
(* region does it, will do it or stays as it is.                           *)

LEMMA CheckFacts ==
  ASSUME NEW op, NEW a, Formed(op), ~(Check(op, a) > Len(op.steps))
  PROVE  /\ Check(op, a) \in 1 .. Len(op.steps)
         /\ op.steps[Check(op, a)].type \in StepKinds
         /\ Passed(op.steps, op.currentStep, Check(op, a), a)
<1> DEFINE pos == Check(op, a)
           n == Len(op.steps)
           c == op.currentStep
<1>1. n \in Nat /\ c \in Nat \ {0} /\ \A i \in 1 .. n : op.steps[i].type \in StepKinds
  BY DEF Formed, Proper
<1>2. pos \in c .. n /\ pos \in Nat /\ \A i \in c .. pos - 1 : IsFinish(op.steps[i], a)
  BY <1>1, CheckStops
<1> SUFFICES pos \in 1 .. n /\ op.steps[pos].type \in StepKinds /\ Passed(op.steps, c, pos, a)
  OBVIOUS
<1>3. Passed(op.steps, c, pos, a)
  BY <1>1, <1>2 DEF Passed
<1> HIDE DEF pos, n, c
<1>4. pos \in 1 .. n
  BY <1>1, <1>2
<1> QED BY <1>1, <1>3, <1>4

(* The operator of r has gone on to pos. *)
LEMMA HeartbeatGoes ==
  ASSUME PlanInv, Ordinary(this), NEW r \in DOMAIN running, NEW pos, pos = Check(running[r], regions[r]),
         ~(pos > Len(running[r].steps)),
         running' = [running EXCEPT ![r].currentStep = pos],
         stray' = IF r \in DOMAIN tasks /\ tasks[r].step # running[r].steps[pos]
                  THEN stray \cup {r} ELSE stray,
         Command(r, running[r].steps[pos]), cache' = report(cache, regions[r]),
         UNCHANGED <<case, nodes>>, Undisturbed'
  PROVE  PlanInv'
<1> DEFINE op   == running[r]
           a    == regions[r]
           step == op.steps[pos]
<1>1. /\ r \in RegionIds /\ Formed(op) /\ this.opt.maxReplicas \in Nat /\ Aimed(op.steps, nodes)
      /\ r \notin stray => Held(a, nodes, this) /\ Ahead(op.steps, op.currentStep, a, this)
  BY DEF PlanInv, RegionsHeld, PlansFollowed, PlansFair, Fair, Ordinary
<1>2. pos \in 1 .. Len(op.steps) /\ step.type \in StepKinds /\ Passed(op.steps, op.currentStep, pos, a)
  BY <1>1, CheckFacts
<1>3. pos \in Nat \ {0} /\ Len(op.steps) \in Nat /\ pos <= Len(op.steps)
  BY <1>1, <1>2 DEF Formed, Proper
<1>4. step.type \in Learns => step.to \in nodes
  BY <1>1, <1>2 DEF Aimed, Places
<1>5. stray \subseteq stray'
  OBVIOUS
<1>6. \/ r \in DOMAIN tasks /\ UNCHANGED <<regions, tasks>>
      \/ r \notin DOMAIN tasks /\ UNCHANGED tasks
         /\ (regions' = regions \/ regions' = responseToTask(regions, nodes, r, step))
      \/ /\ r \notin DOMAIN tasks /\ UNCHANGED regions
         /\ DOMAIN tasks' = DOMAIN tasks \cup {r} /\ tasks'[r].step = step
         /\ \A q \in DOMAIN tasks : tasks'[q] = tasks[q]
  BY DEF Command
<1> HIDE DEF step
<1>7. PICK b : Becomes(r, step, b)
  BY <1>1, <1>2, <1>4, <1>6, TaskBecomes
<1>8. r \notin stray' => Held(b, nodes, this) /\ Ahead(op.steps, pos, b, this) /\ Ahead(op.steps, pos, a, this)
  <2> SUFFICES ASSUME r \notin stray
               PROVE  Held(b, nodes, this) /\ Ahead(op.steps, pos, b, this) /\ Ahead(op.steps, pos, a, this)
    BY <1>5
  <2>1. Held(a, nodes, this) /\ Ahead(op.steps, op.currentStep, a, this)
    BY <1>1
  <2>2. Moved(op.steps[pos], a, b) /\ Shape(b) /\ DOMAIN b.peers \subseteq nodes
    BY <1>7 DEF Becomes, Placed, step
  <2>3. Moved(op.steps[pos], a, a) /\ Shape(a) /\ DOMAIN a.peers \subseteq nodes
    BY <2>1 DEF Moved, Held
  <2> HIDE DEF op, a
  <2>4. Held(b, nodes, this) /\ Ahead(op.steps, pos, b, this)
    BY <1>1, <1>2, <1>3, <2>1, <2>2, StepTaken
  <2>5. Ahead(op.steps, pos, a, this)
    BY <1>1, <1>2, <1>3, <2>1, <2>3, StepTaken
  <2> QED BY <2>4, <2>5
<1>9. RegionsHeld' /\ RegionIds' = RegionIds /\ this' = this
  BY <1>1, <1>5, <1>7, <1>8, BecomesHeld
<1>10. CacheHeld'
  BY <1>1, <1>5, <1>9, ReportHeld
<1>11. /\ DOMAIN running' = DOMAIN running
       /\ running'[r] = [op EXCEPT !.currentStep = pos]
       /\ \A q \in DOMAIN running : q # r => running'[q] = running[q]
  OBVIOUS
<1>12. /\ DOMAIN running'[r] = OpFields /\ running'[r].currentStep = pos
       /\ running'[r].steps = op.steps /\ running'[r].desc = op.desc /\ running'[r].epoch = op.epoch
  BY <1>1, <1>11 DEF Formed, OpFields
<1>13. regions'[r] = b /\ \A q \in RegionIds : q # r => regions'[q] = regions[q]
  BY <1>7 DEF Becomes, RegionIds
<1>14. step = op.steps[pos]
  BY DEF step
<1> HIDE DEF op, a
<1>15. PlansFollowed'
  <2>1. ASSUME NEW q \in DOMAIN running
        PROVE  /\ Formed(running'[q])
               /\ q \notin stray' => Ahead(running'[q].steps, running'[q].currentStep, regions'[q], this)
    <3>1. CASE q = r
      BY <1>1, <1>3, <1>8, <1>12, <1>13, <3>1 DEF Formed
    <3>2. CASE q # r
      BY <1>5, <1>11, <1>13, <3>2 DEF PlanInv, PlansFollowed
    <3> QED BY <3>1, <3>2
  <2> QED BY <1>9, <1>11, <2>1 DEF PlanInv, PlansFollowed
<1>16. PlansFair'
  <2>1. ASSUME NEW q \in DOMAIN running PROVE Fair(running'[q], this, nodes)
    <3>1. Fair(running[q], this, nodes)
      BY DEF PlanInv, PlansFair
    <3>2. CASE q = r
      BY <1>12, <3>1, <3>2 DEF Fair, op
    <3>3. CASE q # r
      BY <1>11, <3>1, <3>3
    <3> QED BY <3>2, <3>3
  <2> QED BY <1>9, <1>11, <2>1 DEF PlansFair
<1>17. TasksFollowed'
  <2>1. ASSUME NEW q \in DOMAIN tasks', q # r
        PROVE  /\ q \in RegionIds /\ tasks'[q].step.type \in StepKinds
               /\ tasks'[q].step.type \in Learns => tasks'[q].step.to \in nodes
               /\ q \notin stray' =>
                    /\ Ahead(<<tasks'[q].step>>, 1, regions'[q], this)
                    /\ q \in DOMAIN running' =>
                         /\ running'[q].currentStep <= Len(running'[q].steps)
                         /\ tasks'[q].step = running'[q].steps[running'[q].currentStep]
    <3>1. q \in DOMAIN tasks /\ tasks'[q] = tasks[q]
      BY <1>6, <2>1
    <3>2. q \in RegionIds
      BY <3>1 DEF PlanInv, TasksFollowed
    <3>3. regions'[q] = regions[q] /\ (q \in DOMAIN running' => q \in DOMAIN running /\ running'[q] = running[q])
      BY <1>11, <1>13, <2>1, <3>2
    <3> QED BY <1>5, <3>1, <3>2, <3>3 DEF PlanInv, TasksFollowed
  <2>2. ASSUME r \in DOMAIN tasks'
        PROVE  /\ tasks'[r].step.type \in StepKinds
               /\ tasks'[r].step.type \in Learns => tasks'[r].step.to \in nodes
               /\ r \notin stray' =>
                    /\ Ahead(<<tasks'[r].step>>, 1, regions'[r], this)
                    /\ running'[r].currentStep <= Len(running'[r].steps)
                    /\ tasks'[r].step = running'[r].steps[running'[r].currentStep]
    <3>1. CASE r \in DOMAIN tasks
      <4>1. UNCHANGED <<regions, tasks>>
        BY <1>6, <3>1
      <4>2. r \notin stray' => r \notin stray /\ tasks[r].step = step
        BY <1>14, <3>1 DEF op
      <4>3. /\ tasks[r].step.type \in StepKinds
            /\ tasks[r].step.type \in Learns => tasks[r].step.to \in nodes
            /\ r \notin stray => Ahead(<<tasks[r].step>>, 1, regions[r], this)
        BY <3>1 DEF PlanInv, TasksFollowed
      <4> QED BY <1>3, <1>12, <1>14, <4>1, <4>2, <4>3
    <3>2. CASE r \notin DOMAIN tasks
      <4>1. UNCHANGED regions /\ tasks'[r].step = step
        BY <1>6, <2>2, <3>2
      <4>2. r \notin stray' => Ahead(<<step>>, 1, a, this)
        BY <1>3, <1>8, <1>14, NextAlone
      <4> QED BY <1>2, <1>3, <1>4, <1>12, <1>14, <4>1, <4>2 DEF a
    <3> QED BY <3>1, <3>2
  <2> QED BY <1>1, <1>9, <1>11, <2>1, <2>2 DEF TasksFollowed
<1> QED BY <1>9, <1>10, <1>15, <1>16, <1>17 DEF PlanInv

(* Operators may go, and the cache comes to know a region. *)
LEMMA ReportedPlans ==
  ASSUME PlanInv, NEW r \in RegionIds, cache' = report(cache, regions[r]),
         UNCHANGED <<case, regions, tasks, stray, nodes>>, Undisturbed',
         DOMAIN running' \subseteq DOMAIN running, \A q \in DOMAIN running' : running'[q] = running[q]
  PROVE  PlanInv'
<1>1. this' = this /\ RegionIds' = RegionIds
  BY DEF this, RegionIds
<1>2. RegionsHeld'
  BY <1>1 DEF PlanInv, RegionsHeld
<1>6. CacheHeld'
  BY <1>1, ReportHeld
<1>3. PlansFollowed'
  BY <1>1 DEF PlanInv, PlansFollowed
<1>4. PlansFair'
  BY <1>1 DEF PlanInv, PlansFair
<1>5. TasksFollowed'
  BY <1>1 DEF PlanInv, TasksFollowed
<1> QED BY <1>2, <1>3, <1>4, <1>5, <1>6 DEF PlanInv

LEMMA HeartbeatPlan ==
  ASSUME PlanInv, Ordinary(this), NEW r, Heartbeat(r)
  PROVE  PlanInv'
<1> DEFINE op  == running[r]
           pos == Check(op, regions[r])
<1>1. /\ r \in RegionIds /\ cache' = report(cache, regions[r])
      /\ UNCHANGED <<case, stores, clones, nodes, sched>>
  BY DEF Heartbeat
<1>2. CASE r \notin DOMAIN running
  <2>1. UNCHANGED <<regions, tasks, running, stray, pending>>
    BY <1>2 DEF Heartbeat
  <2>2. Undisturbed'
    BY <1>1, <2>1, QuietSame DEF PlanInv
  <2> QED BY <1>1, <2>1, <2>2, ReportedPlans
<1>3. CASE r \in DOMAIN running /\ pos > Len(op.steps)
  <2>1. running' = without(running, r) /\ UNCHANGED <<regions, tasks, stray, pending>>
    BY <1>3 DEF Heartbeat
  <2>2. DOMAIN running' \subseteq DOMAIN running /\ \A q \in DOMAIN running' : running'[q] = running[q]
    BY <2>1 DEF without
  <2>3. Undisturbed'
    BY <1>1, <2>1, QuietSame DEF PlanInv
  <2> QED BY <1>1, <2>1, <2>2, <2>3, ReportedPlans
<1>4. CASE r \in DOMAIN running /\ ~(pos > Len(op.steps))
  <2>1. /\ running' = [running EXCEPT ![r].currentStep = pos]
        /\ stray' = IF r \in DOMAIN tasks /\ tasks[r].step # op.steps[pos] THEN stray \cup {r} ELSE stray
        /\ Command(r, op.steps[pos])
    BY <1>4 DEF Heartbeat
  <2>2. /\ DOMAIN pending' = DOMAIN pending
        /\ \A f \in DOMAIN pending : f \notin {"timeouts", "slow"} => pending'[f] = pending[f]
    BY <2>1 DEF Command
  <2>3. Undisturbed'
    BY <1>1, <2>2, QuietSame DEF PlanInv
  <2> HIDE DEF pos
  <2>4. pos = Check(running[r], regions[r])
    BY DEF pos
  <2> QED BY <1>1, <1>4, <2>1, <2>3, <2>4, HeartbeatGoes
<1> QED BY <1>2, <1>3, <1>4

(* A command that was under way. *)
LEMMA TaskPlan ==
  ASSUME PlanInv, Ordinary(this), NEW r, StepTask(r)
  PROVE  PlanInv'
<1> DEFINE step == tasks[r].step
<1>1. /\ r \in DOMAIN tasks /\ tasks' = without(tasks, r)
      /\ regions' = regions \/ regions' = responseToTask(regions, nodes, r, step)
      /\ UNCHANGED <<case, cache, running, stray, nodes, pending, stores, clones, sched>>
  BY DEF StepTask
<1>2. /\ r \in RegionIds /\ step.type \in StepKinds /\ (step.type \in Learns => step.to \in nodes)
      /\ r \notin stray =>
           /\ Ahead(<<step>>, 1, regions[r], this)
           /\ r \in DOMAIN running => /\ running[r].currentStep <= Len(running[r].steps)
                                      /\ step = running[r].steps[running[r].currentStep]
  BY <1>1 DEF PlanInv, TasksFollowed
<1>3. DOMAIN tasks' = DOMAIN tasks \ {r} /\ \A q \in DOMAIN tasks' : tasks'[q] = tasks[q]
  BY <1>1 DEF without
<1> HIDE DEF step
<1>4. PICK b : Becomes(r, step, b)
  BY <1>1, <1>2, TaskBecomes
<1>5. ASSUME r \notin stray
      PROVE  /\ Held(b, nodes, this)
             /\ r \in DOMAIN running => Ahead(running[r].steps, running[r].currentStep, b, this)
  <2>1. /\ Held(regions[r], nodes, this) /\ this.opt.maxReplicas \in Nat
        /\ Shape(b) /\ DOMAIN b.peers \subseteq nodes /\ Moved(step, regions[r], b)
    BY <1>2, <1>4, <1>5 DEF PlanInv, RegionsHeld, Ordinary, Becomes, Placed
  <2>2. Held(b, nodes, this)
    <3> DEFINE one == <<step>>
    <3>1. Len(one) = 1 /\ one[1] = step /\ 1 .. 1 - 1 = {} /\ 1 \in 1 .. 1
      OBVIOUS
    <3>2. Ahead(one, 1, regions[r], this)
      BY <1>2, <1>5
    <3> HIDE DEF one
    <3>3. Passed(one, 1, 1, regions[r])
      BY <3>1 DEF Passed
    <3>4. Moved(one[1], regions[r], b) /\ 1 # 0
      BY <2>1, <3>1
    <3> QED BY <2>1, <3>2, <3>3, <3>4, StepTaken
  <2>3. ASSUME r \in DOMAIN running PROVE Ahead(running[r].steps, running[r].currentStep, b, this)
    <3> DEFINE steps == running[r].steps
               p == running[r].currentStep
    <3>1. Formed(running[r]) /\ Ahead(steps, p, regions[r], this)
      BY <1>5, <2>3 DEF PlanInv, PlansFollowed
    <3>2. p <= Len(steps) /\ step = steps[p]
      BY <1>2, <1>5, <2>3
    <3>3. p \in Nat \ {0} /\ Len(steps) \in Nat
      BY <3>1 DEF Formed, Proper
    <3> HIDE DEF steps, p
    <3>4. p \in p .. Len(steps) /\ p .. p - 1 = {}
      BY <3>2, <3>3
    <3>5. Passed(steps, p, p, regions[r])
      BY <3>3, <3>4 DEF Passed
    <3>6. Ahead(steps, p, b, this)
      BY <2>1, <3>1, <3>2, <3>3, <3>5, StepTaken
    <3> QED BY <3>6 DEF steps, p
  <2> QED BY <2>2, <2>3
<1>6. RegionsHeld' /\ RegionIds' = RegionIds /\ this' = this
  BY <1>1, <1>2, <1>4, <1>5, BecomesHeld
<1>7. regions'[r] = b /\ \A q \in RegionIds : q # r => regions'[q] = regions[q]
  BY <1>4 DEF Becomes, RegionIds
<1>8. CachedIds' = CachedIds
  BY <1>1 DEF CachedIds
<1>9. CacheHeld' /\ PlansFair'
  BY <1>1, <1>6, <1>8 DEF PlanInv, CacheHeld, PlansFair
<1>10. PlansFollowed'
  <2>1. ASSUME NEW q \in DOMAIN running, q \notin stray
        PROVE  Ahead(running[q].steps, running[q].currentStep, regions'[q], this)
    <3>1. CASE q = r
      BY <1>5, <1>7, <2>1, <3>1
    <3>2. CASE q # r
      BY <1>7, <2>1, <3>2 DEF PlanInv, PlansFollowed
    <3> QED BY <3>1, <3>2
  <2> QED BY <1>1, <1>6, <2>1 DEF PlanInv, PlansFollowed
<1>11. TasksFollowed'
  <2>1. \A q \in DOMAIN tasks' : q \in DOMAIN tasks /\ q \in RegionIds /\ tasks'[q] = tasks[q] /\ regions'[q] = regions[q]
    BY <1>3, <1>7 DEF PlanInv, TasksFollowed
  <2> QED BY <1>1, <1>6, <2>1 DEF PlanInv, TasksFollowed
<1>12. Undisturbed'
  BY <1>1, QuietSame DEF PlanInv
<1> QED BY <1>6, <1>9, <1>10, <1>11, <1>12 DEF PlanInv

LEMMA RemovedPlan ==
  ASSUME PlanInv, NEW r, CheckOperators \/ Timeout(r)
  PROVE  PlanInv'
<1>1. /\ UNCHANGED <<case, regions, cache, tasks, stray, stores, clones, nodes, sched>>
      /\ \E q : running' = without(running, q)
  BY DEF CheckOperators, Timeout
<1>2. DOMAIN running' \subseteq DOMAIN running /\ \A q \in DOMAIN running' : running'[q] = running[q]
  BY <1>1 DEF without
<1>3. /\ DOMAIN pending' = DOMAIN pending
      /\ \A f \in DOMAIN pending : f \notin {"timeouts", "slow"} => pending'[f] = pending[f]
  BY DEF CheckOperators, Timeout
<1>4. Undisturbed'
  BY <1>1, <1>3, QuietSame DEF PlanInv
<1> QED BY <1>1, <1>2, <1>4, FewerPlans

(* Every leader is on a node that runs: nobody calls an election. *)
LEMMA NoElection ==
  ASSUME PlanInv, NEW r
  PROVE  ~StepLeader(r)
<1> SUFFICES ASSUME StepLeader(r) PROVE FALSE
  OBVIOUS
<1>1. r \in RegionIds /\ needsLeader(regions[r], nodes)
  BY DEF StepLeader
<1>2. regions[r].leader \in nodes /\ NoStore \notin nodes
  BY <1>1 DEF PlanInv, RegionsHeld, Placed, Undisturbed
<1> QED BY <1>1, <1>2 DEF needsLeader, nodeHealth

(* Steps about schedulers, stores and time. *)
LEMMA ManagePlan ==
  ASSUME PlanInv, Ordinary(this), NEW s,
         Cleanup(s) \/ AddScheduler(s) \/ RemoveScheduler(s) \/ Tick
  PROVE  PlanInv'
<1>1. UNCHANGED <<case, regions, cache, tasks, stray, nodes, running, clones, pending>>
  BY DEF Cleanup, AddScheduler, RemoveScheduler, Tick
<1>2. /\ DOMAIN stores' = DOMAIN stores
      /\ \A t \in DOMAIN stores :
           /\ "namespace" \in DOMAIN stores[t] =>
                "namespace" \in DOMAIN stores'[t] /\ stores'[t].namespace = stores[t].namespace
           /\ "location" \in DOMAIN stores[t] =>
                "location" \in DOMAIN stores'[t] /\ stores'[t].location = stores[t].location
  BY DEF Cleanup, AddScheduler, RemoveScheduler, Tick
<1>3. DOMAIN sched' \subseteq DOMAIN sched \cup this.events.manage
  BY DEF Cleanup, AddScheduler, RemoveScheduler, Tick
<1>4. \A t \in DOMAIN stores : AtHome(t, stores'[t])
  BY <1>2 DEF PlanInv, Undisturbed, AtHome
<1>5. \A c \in clones' : AtHome(c.store, c.as)
  BY <1>1 DEF PlanInv, Undisturbed
<1>6. Undisturbed'
  BY <1>1, <1>2, <1>3, <1>4, <1>5, StillQuiet DEF PlanInv
<1> QED BY <1>1, <1>6, FewerPlans

(* The requests that put back a clone of a store. *)
LEMMA ClonePlan ==
  ASSUME PlanInv, NEW s, NEW leader, NEW region,
         RemoveStore(s) \/ SetStoreWeight(s, leader, region) \/ PutStore(s)
  PROVE  PlanInv'
<1>1. UNCHANGED <<case, regions, cache, tasks, stray, nodes, running, stores, sched>> /\ s \in DOMAIN stores
  BY DEF RemoveStore, SetStoreWeight, PutStore
<1>2. PICK as : /\ clones' = clones \cup {[store |-> s, as |-> as]}
                /\ DOMAIN as = DOMAIN stores[s]
                /\ \A f \in DOMAIN stores[s] :
                     f \notin {"state", "leaderWeight", "regionWeight"} => as[f] = stores[s][f]
  <2>1. CASE RemoveStore(s)
    <3> DEFINE as == [stores[s] EXCEPT !.state = "Offline"]
    <3>1. clones' = clones \cup {[store |-> s, as |-> as]}
      BY <2>1 DEF RemoveStore, clone
    <3> QED BY <3>1
  <2>2. CASE SetStoreWeight(s, leader, region)
    <3> DEFINE as == [stores[s] EXCEPT !.leaderWeight = leader, !.regionWeight = region]
    <3>1. clones' = clones \cup {[store |-> s, as |-> as]}
      BY <2>2 DEF SetStoreWeight, clone
    <3> QED BY <3>1
  <2>3. CASE PutStore(s)
    BY <2>3 DEF PutStore, clone
  <2> QED BY <2>1, <2>2, <2>3
<1>3. AtHome(s, stores[s])
  BY <1>1 DEF PlanInv, Undisturbed
<1>4. AtHome(s, as)
  BY <1>2, <1>3 DEF AtHome
<1>5. ASSUME NEW c \in clones' PROVE AtHome(c.store, c.as)
  <2>1. CASE c \in clones
    BY <2>1 DEF PlanInv, Undisturbed
  <2>2. CASE c = [store |-> s, as |-> as]
    <3>1. c.store = s /\ c.as = as
      BY <2>2
    <3> QED BY <1>4, <3>1
  <2> QED BY <1>2, <2>1, <2>2
<1>6. /\ DOMAIN pending' = DOMAIN pending
      /\ \A f \in {"delete", "scatter", "admin", "rules", "add"} : pending'[f] = pending[f]
  <2>1. DOMAIN pending = Happenings
    BY DEF PlanInv, Undisturbed
  <2> QED BY <2>1 DEF RemoveStore, SetStoreWeight, PutStore, Happenings
<1>7. Undisturbed'
  BY <1>1, <1>5, <1>6, StillQuiet DEF PlanInv, Undisturbed
<1> QED BY <1>1, <1>7, FewerPlans

LEMMA PutPlan ==
  ASSUME PlanInv, NEW c \in clones, putStore(c)
  PROVE  PlanInv'
<1>1. /\ UNCHANGED <<case, regions, cache, tasks, stray, nodes, running, pending, sched>>
      /\ clones' \subseteq clones /\ DOMAIN stores' = DOMAIN stores
      /\ \A t \in DOMAIN stores : stores'[t] = IF t = c.store THEN c.as ELSE stores[t]
  BY DEF putStore
<1>2. \A t \in DOMAIN stores : AtHome(t, stores'[t])
  BY <1>1 DEF PlanInv, Undisturbed
<1>3. \A d \in clones' : AtHome(d.store, d.as)
  BY <1>1 DEF PlanInv, Undisturbed
<1>4. Undisturbed'
  BY <1>1, <1>2, <1>3, StillQuiet DEF PlanInv, Undisturbed
<1> QED BY <1>1, <1>4, FewerPlans

LEMMA FairMore ==
  ASSUME NEW op, NEW new, NEW on, NEW more, Fair(op, new, on), on \subseteq more
  PROVE  Fair(op, new, more)
<1>1. Aimed(op.steps, more)
  BY DEF Fair, Aimed
<1>2. \A P, x, t : Farther(new, on, P, x, t) => Farther(new, more, P, x, t)
  BY DEF Farther
<1>3. \A P : Spreads(op.steps, new, on, P) => Spreads(op.steps, new, more, P)
  BY <1>2 DEF Spreads
<1> QED BY <1>1, <1>3 DEF Fair

LEMMA NodePlan ==
  ASSUME PlanInv, Ordinary(this), NEW s, AddNode(s)
  PROVE  PlanInv'
<1>1. /\ UNCHANGED <<case, regions, cache, tasks, stray, running, sched, clones>> /\ s \in pending.add
      /\ nodes' = nodes \cup {s}
      /\ DOMAIN stores' = DOMAIN stores \cup {s} /\ stores'[s] = NewStore
      /\ \A t \in DOMAIN stores : t # s => stores'[t] = stores[t]
  BY DEF AddNode
<1>2. this' = this /\ RegionIds' = RegionIds /\ CachedIds' = CachedIds
  BY <1>1 DEF this, RegionIds, CachedIds
<1>3. "namespace" \in DOMAIN NewStore /\ NewStore.namespace = "global" /\ "location" \in DOMAIN NewStore
  BY DEF NewStore
<1>4. /\ DOMAIN pending' = DOMAIN pending /\ pending'.add \subseteq pending.add
      /\ \A f \in DOMAIN pending : f # "add" => pending'[f] = pending[f]
  <2>1. DOMAIN pending = Happenings
    BY DEF PlanInv, Undisturbed
  <2> QED BY <2>1 DEF AddNode, Happenings
<1>5. s # NoStore
  BY <1>1 DEF PlanInv, Undisturbed, Ordinary
<1>9. s \in Area(this) /\ Home(this, s) = NewStore
  BY <1>1, CaseAssumption DEF PlanInv, Undisturbed, Area, Home, this
<1>10. \A t \in DOMAIN stores' : AtHome(t, stores'[t])
  BY <1>1, <1>3, <1>9 DEF PlanInv, Undisturbed, AtHome
<1>12. /\ \A t \in DOMAIN stores' : AtHome(t, stores[t])'
       /\ \A c \in clones' : AtHome(c.store, c.as)'
  BY <1>1, <1>2, <1>10 DEF PlanInv, Undisturbed, AtHome, Room
<1>13. /\ pending'.delete = {} /\ pending'.scatter = {} /\ pending'.admin = {} /\ pending'.rules = {}
       /\ DOMAIN pending' = Happenings
  BY <1>4 DEF PlanInv, Undisturbed, Happenings
<1>6. Undisturbed'
  BY <1>1, <1>2, <1>4, <1>5, <1>9, <1>12, <1>13 DEF PlanInv, Undisturbed
<1>7. RegionsHeld' /\ CacheHeld'
  BY <1>1, <1>2 DEF PlanInv, RegionsHeld, CacheHeld, Held, Placed
<1>8. PlansFollowed' /\ TasksFollowed'
  BY <1>1, <1>2 DEF PlanInv, PlansFollowed, TasksFollowed
<1>11. PlansFair'
  BY <1>1, <1>2, FairMore DEF PlanInv, PlansFair
<1> QED BY <1>6, <1>7, <1>8, <1>11 DEF PlanInv

(* Every region is one that was there, or a part of one that was. *)
LEMMA PartsPlan ==
  ASSUME PlanInv, UNCHANGED <<case, nodes, running, tasks, cache>>, Undisturbed',
         RegionIds \subseteq RegionIds', stray \subseteq stray',
         \A q \in RegionIds' : /\ regions'[q].id = q /\ Shape(regions'[q])
                               /\ \E o \in RegionIds : /\ Alike(regions[o], regions'[q])
                                                       /\ o \in stray => q \in stray',
         \A q \in RegionIds : Alike(regions[q], regions'[q])
  PROVE  PlanInv'
<1>1. this' = this /\ CachedIds' = CachedIds
  BY DEF this, CachedIds
<1>2. ASSUME NEW q \in RegionIds'
      PROVE  Placed(q, regions'[q], nodes) /\ (q \notin stray' => Held(regions'[q], nodes, this))
  <2>1. PICK o \in RegionIds : Alike(regions[o], regions'[q]) /\ (o \in stray => q \in stray')
    OBVIOUS
  <2>2. /\ Placed(o, regions[o], nodes) /\ (o \notin stray => Held(regions[o], nodes, this))
        /\ Shape(regions'[q]) /\ regions'[q].id = q
    BY DEF PlanInv, RegionsHeld
  <2>3. Placed(q, regions'[q], nodes)
    BY <2>1, <2>2 DEF Placed, Alike
  <2> QED BY <2>1, <2>2, <2>3, AlikeKeeps
<1>3. ASSUME NEW q \in RegionIds, NEW steps, NEW p, Ahead(steps, p, regions[q], this)
      PROVE  Ahead(steps, p, regions'[q], this)
  BY <1>3, AlikeKeeps
<1>4. RegionsHeld'
  BY <1>1, <1>2 DEF RegionsHeld
<1>5. PlansFollowed'
  BY <1>1, <1>3 DEF PlanInv, PlansFollowed
<1>6. PlansFair'
  BY <1>1 DEF PlanInv, PlansFair
<1>7. CacheHeld'
  BY <1>1 DEF PlanInv, CacheHeld
<1>8. TasksFollowed'
  BY <1>1, <1>3 DEF PlanInv, TasksFollowed
<1> QED BY <1>4, <1>5, <1>6, <1>7, <1>8 DEF PlanInv

LEMMA WritePlan ==
  ASSUME PlanInv, NEW r, Write(r)
  PROVE  PlanInv'
<1> DEFINE a == regions[r]
           b == updateRegionStore(a, 3)
<1>1. /\ r \in RegionIds /\ r \in DOMAIN regions /\ regions' = [regions EXCEPT ![r] = b]
      /\ UNCHANGED <<case, stores, clones, nodes, sched, pending, running, tasks, cache, stray>>
  BY DEF Write, RegionIds
<1>2. Shape(a) /\ a.id = r
  BY <1>1 DEF PlanInv, RegionsHeld, Placed
<1>3. /\ DOMAIN b = DOMAIN a /\ b.size = a.size + 3
      /\ \A f \in RegionFields : f # "size" => b[f] = a[f]
  BY <1>2 DEF updateRegionStore, Shape, RegionFields
<1>4. DOMAIN regions' = DOMAIN regions /\ regions'[r] = b /\ \A q \in DOMAIN regions : q # r => regions'[q] = regions[q]
  BY <1>1
<1> HIDE DEF b
<1>5. Shape(b) /\ b.id = r
  BY <1>2, <1>3 DEF Shape, RegionFields
<1>6. b.peers = a.peers /\ b.leader = a.leader
  BY <1>3 DEF RegionFields
<1>7. Alike(a, b)
  BY <1>6 DEF Alike
<1>8. RegionIds' = RegionIds
  BY <1>1, <1>4, <1>5, ShapeNotGone DEF RegionIds
<1>9. \A q \in RegionIds : regions'[q].id = q /\ Shape(regions'[q]) /\ Alike(regions[q], regions'[q])
  <2> SUFFICES ASSUME NEW q \in RegionIds
               PROVE  regions'[q].id = q /\ Shape(regions'[q]) /\ Alike(regions[q], regions'[q])
    OBVIOUS
  <2>1. CASE q = r
    BY <1>4, <1>5, <1>7, <2>1
  <2>2. CASE q # r
    BY <1>4, <2>2 DEF PlanInv, RegionsHeld, Placed, Alike, RegionIds
  <2> QED BY <2>1, <2>2
<1>10. Undisturbed'
  BY <1>1, QuietSame DEF PlanInv
<1> QED BY <1>1, <1>8, <1>9, <1>10, PartsPlan

LEMMA SplitPlan ==
  ASSUME PlanInv, NEW r, StepSplit(r)
  PROVE  PlanInv'
<1> DEFINE a == regions[r]
           half == a.size \div 2
           left(new, key) == withEpoch([a EXCEPT !.id = new, !.end = key, !.size = half,
                                                 !.pending = {}, !.down = {}])
           right(key) == withEpoch([a EXCEPT !.start = key, !.size = half])
<1>0. PICK new \in DOMAIN regions \ RegionIds, key \in 1 .. Inf - 1 :
        /\ regions' = stepSplit(regions, r, new, key)
        /\ stray' = IF r \in stray THEN stray \cup {new} ELSE stray
  BY DEF StepSplit
<1> DEFINE x == left(new, key)
           y == right(key)
<1>1. /\ regions' = [regions EXCEPT ![new] = x, ![r] = y]
      /\ stray' = IF r \in stray THEN stray \cup {new} ELSE stray
  BY <1>0 DEF stepSplit
<1>2. /\ r \in RegionIds /\ r \in DOMAIN regions
      /\ UNCHANGED <<case, stores, clones, nodes, sched, pending, running, tasks, cache>>
  BY DEF StepSplit, RegionIds
<1>3. Shape(a) /\ a.id = r
  BY <1>2 DEF PlanInv, RegionsHeld, Placed
<1>4. half \in Nat
  BY <1>3 DEF Shape
<1> HIDE DEF half
<1>5. /\ DOMAIN x = RegionFields /\ x.id = new /\ x.peers = a.peers /\ x.leader = a.leader
      /\ x.pending = {} /\ x.down = {} /\ x.size = half /\ x.epoch[1] = x.peers
  BY <1>3 DEF withEpoch, Shape, RegionFields
<1>6. /\ DOMAIN y = RegionFields /\ y.id = r /\ y.peers = a.peers /\ y.leader = a.leader
      /\ y.pending = {} /\ y.down = {} /\ y.size = half /\ y.epoch[1] = y.peers
  BY <1>3 DEF withEpoch, Shape, RegionFields
<1>7. /\ DOMAIN regions' = DOMAIN regions /\ regions'[r] = y /\ regions'[new] = x
      /\ \A q \in DOMAIN regions : q # r /\ q # new => regions'[q] = regions[q]
  BY <1>1, <1>2
<1> HIDE DEF x, y
<1>8. Shape(x) /\ Shape(y)
  BY <1>3, <1>4, <1>5, <1>6 DEF Shape
<1>9. Alike(a, x) /\ Alike(a, y)
  BY <1>5, <1>6 DEF Alike
<1>10. RegionIds' = RegionIds \cup {new}
  BY <1>1, <1>2, <1>7, <1>8, ShapeNotGone DEF RegionIds
<1>11. ASSUME NEW q \in RegionIds
       PROVE  regions'[q].id = q /\ Shape(regions'[q]) /\ Alike(regions[q], regions'[q])
  <2>1. CASE q = r
    BY <1>6, <1>7, <1>8, <1>9, <2>1
  <2>2. CASE q # r
    BY <1>1, <1>7, <2>2 DEF PlanInv, RegionsHeld, Placed, Alike, RegionIds
  <2> QED BY <2>1, <2>2
<1>12. regions'[new].id = new /\ Shape(regions'[new]) /\ Alike(regions[r], regions'[new])
  BY <1>5, <1>7, <1>8, <1>9
<1>13. Undisturbed'
  BY <1>2, QuietSame DEF PlanInv
<1> HIDE DEF a
<1>15. stray \subseteq stray' /\ (r \in stray => new \in stray')
  BY <1>1
<1>14. \A q \in RegionIds' : /\ regions'[q].id = q /\ Shape(regions'[q])
                             /\ \E o \in RegionIds : /\ Alike(regions[o], regions'[q])
                                                     /\ o \in stray => q \in stray'
  BY <1>2, <1>10, <1>11, <1>12, <1>15
<1> QED BY <1>2, <1>10, <1>11, <1>13, <1>14, <1>15, PartsPlan

LEMMA NextPlan == PlanInv /\ Ordinary(this) /\ [Next]_vars => PlanInv'
<1> SUFFICES ASSUME PlanInv, Ordinary(this), [Next]_vars PROVE PlanInv'
  OBVIOUS
<1>1. CASE UNCHANGED vars
  <2>1. UNCHANGED <<case, regions, cache, tasks, stray, running, stores, clones, nodes, sched, pending>>
    BY <1>1 DEF vars
  <2>2. Undisturbed'
    BY <2>1, QuietSame DEF PlanInv
  <2> QED BY <2>1, <2>2, FewerPlans
<1>2. CASE Work
  <2>1. ASSUME NEW r \in Ids, Heartbeat(r) PROVE PlanInv'
    BY <2>1, HeartbeatPlan
  <2>2. ASSUME NEW r \in Ids, PatrolRegion(r) PROVE PlanInv'
    BY <2>2, PatrolPlan
  <2>3. ASSUME NEW s \in DOMAIN sched, RunScheduler(s) PROVE PlanInv'
    BY <2>3, RunPlan
  <2>4. ASSUME CheckOperators PROVE PlanInv'
    BY <2>4, RemovedPlan
  <2>5. ASSUME NEW r \in Ids, Timeout(r) PROVE PlanInv'
    BY <2>5, RemovedPlan
  <2>6. ASSUME NEW r \in Ids, StepLeader(r) PROVE PlanInv'
    BY <2>6, NoElection
  <2>7. ASSUME NEW s \in stopping, Cleanup(s) PROVE PlanInv'
    BY <2>7, ManagePlan
  <2>8. ASSUME NEW r \in DOMAIN tasks, StepTask(r) PROVE PlanInv'
    BY <2>8, TaskPlan
  <2>9. ASSUME NEW c \in clones, putStore(c) PROVE PlanInv'
    BY <2>9, PutPlan
  <2> QED BY <1>2, <2>1, <2>2, <2>3, <2>4, <2>5, <2>6, <2>7, <2>8, <2>9 DEF Work
<1>3. CASE Events
  <2>1. ASSUME NEW s \in this.events.manage, AddScheduler(s) \/ RemoveScheduler(s) PROVE PlanInv'
    BY <2>1, ManagePlan
  <2>2. pending.rules = {} /\ pending.scatter = {} /\ pending.admin = {} /\ pending.delete = {}
    BY DEF PlanInv, Undisturbed
  <2>3. ASSUME Tick PROVE PlanInv'
    BY <2>3, ManagePlan
  <2>4. ASSUME NEW r \in Ids, StepSplit(r) PROVE PlanInv'
    BY <2>4, SplitPlan
  <2>5. ASSUME NEW r \in pending.write, Write(r) PROVE PlanInv'
    BY <2>5, WritePlan
  <2>6. ASSUME NEW s \in pending.add, AddNode(s) PROVE PlanInv'
    BY <2>6, NodePlan
  <2>7. ASSUME NEW s, StoreDown(s) PROVE PlanInv'
    BY <2>7 DEF StoreDown, PlanInv, Undisturbed
  <2>8. ASSUME NEW s, RemoveStore(s) \/ SetStoreWeight(s, 2, 2) \/ PutStore(s) PROVE PlanInv'
    BY <2>8, ClonePlan
  <2> QED BY <1>3, <2>1, <2>2, <2>3, <2>4, <2>5, <2>6, <2>7, <2>8 DEF Events
<1> QED BY <1>1, <1>2, <1>3 DEF Next

LEMMA PlansKept == Spec => [](Ordinary(this) => PlanInv)
<1>1. [Next]_vars => case' = case
  <2>1. ASSUME NEW r, \/ Heartbeat(r) \/ StepTask(r) \/ PatrolRegion(r) \/ Timeout(r) \/ StepLeader(r)
                      \/ ScatterRegion(r) \/ AdminOperator(r) \/ StepSplit(r) \/ Write(r)
        PROVE  case' = case
    BY <2>1 DEF Heartbeat, StepTask, PatrolRegion, Timeout, StepLeader, ScatterRegion, AdminOperator,
                StepSplit, Write
  <2>2. ASSUME NEW s, \/ RunScheduler(s) \/ Cleanup(s) \/ AddScheduler(s) \/ RemoveScheduler(s)
                      \/ AddNode(s) \/ DeleteNode(s) \/ StoreDown(s) \/ RemoveStore(s)
                      \/ SetStoreWeight(s, 2, 2) \/ PutStore(s) \/ putStore(s) \/ readUserConfig(s)
        PROVE  case' = case
    BY <2>2 DEF RunScheduler, Cleanup, AddScheduler, RemoveScheduler, AddNode, DeleteNode, StoreDown,
                RemoveStore, SetStoreWeight, PutStore, putStore, readUserConfig
  <2>3. CheckOperators \/ Tick \/ UNCHANGED vars => case' = case
    BY DEF CheckOperators, Tick, vars
  <2> QED BY <2>1, <2>2, <2>3 DEF Next, Work, Events
<1>2. [Next]_vars => (Ordinary(this)' <=> Ordinary(this))
  BY <1>1 DEF this
<1> QED BY <1>2, InitPlan, NextPlan, PTL DEF Spec

(* In every ordinary case, with any number of stores and regions and any   *)
(* mix of the schedulers of Balancers, a region is led by one of its       *)
(* voters, unless it is stray (an operator was made for it, or went on,    *)
(* while PD did not know what an earlier command did or will do to it): no *)
(* other operator removes the leader's peer or hands the leadership to a   *)
(* learner, however long its commands are under way in TiKV, and wherever  *)
(* a timeout, a higher-level operator or a split cuts the operators before *)
(* it short.                                                               *)
THEOREM LeadersVote == Spec => [](Ordinary(this) => LeaderIsVoter)
<1>1. PlanInv => LeaderIsVoter
  BY DEF PlanInv, RegionsHeld, Held, LeaderIsVoter
<1> QED BY <1>1, PlansKept, PTL

(* No region that is not stray has fewer voters than it should:            *)
(* replica_checker.go and the schedulers build every operator so that it   *)
(* adds before it removes.                                                 *)
VotersEnough ==
  \A r \in RegionIds \ stray : Cardinality(GetVoters(regions[r])) >= this.opt.maxReplicas

(* Where the regions start with all their replicas, none that is not stray *)
(* ever has fewer voters than it should: PD takes no replica away before   *)
(* its substitute votes, though the command that adds it is under way for  *)
(* as long as it takes, and perhaps longer than its operator.              *)
THEOREM VotersStay == Spec => [](Ordinary(this) /\ Stocked(this) => VotersEnough)
<1>1. PlanInv /\ Stocked(this) => VotersEnough
  BY DEF PlanInv, RegionsHeld, Held, VotersEnough
<1> QED BY <1>1, PlansKept, PTL

(* And if no scheduler adds a peer without counting (Sparing), a region    *)
(* that is not stray never has more than one peer too many either: the     *)
(* balancers and checkers add to a region of which the cache, when it is   *)
(* up to date, says that there is room.                                    *)
THEOREM ReplicasStay ==
  Spec => [](Ordinary(this) /\ Stocked(this) /\ Sparing(this) => ReplicasKept)
<1>1. PlanInv /\ Stocked(this) /\ Sparing(this) => ReplicasKept
  <2> SUFFICES ASSUME PlanInv, Stocked(this), Sparing(this), NEW r \in RegionIds \ stray
               PROVE  /\ Cardinality(GetVoters(regions[r]) \cup (DOMAIN this.stores \ nodes))
                           >= this.opt.maxReplicas
                      /\ Cardinality(DOMAIN regions[r].peers) <= this.opt.maxReplicas + 1
    BY DEF ReplicasKept
  <2>1. DOMAIN this.stores \subseteq nodes
    BY DEF PlanInv, Undisturbed
  <2>2. GetVoters(regions[r]) \cup (DOMAIN this.stores \ nodes) = GetVoters(regions[r])
    BY <2>1
  <2>3. Held(regions[r], nodes, this)
    BY DEF PlanInv, RegionsHeld
  <2> QED BY <2>2, <2>3 DEF Held
<1> QED BY <1>1, PlansKept, PTL

(* No balance, hot-region or scatter-range operator of an ordinary case    *)
(* leaves the replicas of its region less spread than they were, whatever  *)
(* location labels the stores have and whatever stores join or leave while *)
(* it runs: the targets that NewDistinctScoreFilter                        *)
(* (server/schedule/filters.go) lets pass for the one replica that moves   *)
(* are no nearer to the others, and the sum of all distances, which counts *)
(* each pair twice, grows or stays with that one distance.                 *)
THEOREM ReplicasApart == Spec => [](Ordinary(this) /\ Located(this) => IsolationKept)
<1>1. PlanInv /\ Ordinary(this) /\ Located(this) => IsolationKept
  <2> SUFFICES ASSUME PlanInv, Ordinary(this), Located(this), NEW r \in DOMAIN running,
                      running[r].desc \in Spreading
               PROVE  isolation(outcome(running[r])) >= isolation(DOMAIN running[r].epoch[1])
    BY DEF IsolationKept, keepsIsolation, Spreading
  <2> DEFINE op == running[r]
             P  == DOMAIN op.epoch[1]
  <2>1. PICK x, t : Swaps(op.steps, t, x) /\ Farther(this, nodes, P, x, t)
    BY DEF PlanInv, PlansFair, Fair, Spreads
  <2> DEFINE Q == (P \cup {t}) \ {x}
  <2>2. outcome(op) = Q
    BY <2>1, SwapOutcome
  <2>3. nodes \subseteq Area(this) /\ Sited(this, Cluster, nodes)
    BY ClusterView DEF View
  <2>4. /\ IsFiniteSet(P) /\ P \subseteq nodes /\ x \in P /\ t \in nodes /\ t \notin P
        /\ Score(this, P \ {x}, t) >= Score(this, P \ {x}, x)
    BY <2>1 DEF Farther
  <2> HIDE DEF op, P
  <2>5. IsFiniteSet(Q) /\ Q \subseteq nodes
    BY <2>4, FS_AddElement, FS_RemoveElement
  <2>6. /\ P \subseteq Area(this) /\ Q \subseteq Area(this) /\ t \in Area(this)
        /\ Sited(this, Cluster, P) /\ Sited(this, Cluster, Q)
    BY <2>3, <2>4, <2>5 DEF Sited
  <2>7. Iso(this, Q) >= Iso(this, P)
    BY <2>4, <2>6, IsoMove
  <2> HIDE DEF Q
  <2>8. isolation(P) = Iso(this, P) /\ isolation(Q) = Iso(this, Q)
    BY <2>4, <2>5, <2>6, IsolationIs
  <2> QED BY <2>2, <2>7, <2>8 DEF op, P
<1> QED BY <1>1, PlansKept, PTL
=============================================================================
