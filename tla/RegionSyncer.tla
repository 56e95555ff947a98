---------------------------- MODULE RegionSyncer ----------------------------
(***************************************************************************)
(* server/region_syncer: the leader sends its followers the regions that   *)
(* change.  Both ends keep a ring of the latest records, each with its     *)
(* index; a follower that connects asks for the records from its own next  *)
(* index on.  One leader and one follower; the stream between them breaks, *)
(* either of them restarts, and each of three goroutines runs on its own:  *)
(* RunServer, Sync (one per stream) and the follower's loop.               *)
(***************************************************************************)
EXTENDS Integers, SequencesExt

CONSTANTS RegionID,          \* the regions that change
          historySize,       \* records the ring holds
          flushEvery,        \* defaultFlushCount
          syncBatch,         \* maxSyncRegionBatchSize
          notifierSize,      \* capacity of changedRegions
          MaxChanges,        \* bound: changes of regions
          MaxWire,           \* bound: responses a stream takes before Send blocks
          MaxStreams,        \* bound: streams the follower establishes
          MaxSyncFaults      \* bound: breaks, failed saves, restarts

(* newHistoryBuffer makes room for one record at least. *)
ASSUME SyncAssumption ==
  /\ historySize \in Nat \ {0} /\ flushEvery \in Nat \ {0} /\ syncBatch \in Nat \ {0}
  /\ {notifierSize, MaxChanges, MaxWire, MaxStreams, MaxSyncFaults} \subseteq Nat
  /\ IsFiniteSet(RegionID)

VARIABLES regionOf,      \* the leader's regions: the version of each, 0 for none
          notifier,      \* the channel changedRegions
          history,       \* the history buffer of each end
          historyKey,    \* its persisted index
          sending,       \* what RunServer broadcasts: a response, or its failure
          streamOf,      \* the leader's map of streams: the follower's, 0 for none
          syncPc,        \* where the leader's Sync of each stream stands
          conn,          \* the follower's stream, 0 for none
          alive,         \* the streams that work
          wire,          \* responses on their way on conn
          stored,        \* the follower's region storage
          syncFaults,
          recorded,      \* ghost: the leader's records by index
          aligned        \* ghost: the follower's ring was filled from recorded

syncVars == <<regionOf, notifier, history, historyKey, sending, streamOf, syncPc, conn,
              alive, wire, stored, syncFaults, recorded, aligned>>
linkVars == <<streamOf, syncPc, conn, alive>>

End == {"leader", "follower"}
Stream == 1 .. MaxStreams
NoRegion == [id |-> 0, version |-> 0]
Silent == [kind |-> "none"]
response(start, regions) == [start |-> start, regions |-> regions, exact |-> TRUE]
unlike(m) == [m EXCEPT !.exact = FALSE]   \* ghost: its indexes are not those of recorded

(***************************************************************************)
(* The ring.  One slot stays empty.  The ghost field since is the index at *)
(* which it was last empty.                                                *)
(***************************************************************************)
size == historySize + 1
newHistoryBuffer(index) ==
  [index |-> index, since |-> index, head |-> 0, tail |-> 0, flush |-> flushEvery,
   records |-> [i \in 0 .. size - 1 |-> NoRegion]]

distanceToTail(h, pos) == IF h.tail < pos THEN h.tail + size - pos ELSE h.tail - pos
nextIndex(h) == h.index
firstIndex(h) == h.index - distanceToTail(h, h.head)
Holds(h, i) == firstIndex(h) <= i /\ i < nextIndex(h)

(* Mutant: the head stays when the tail meets it. *)
HeadStays(h, tail) == h.head
headAfter(h, tail) == IF tail = h.head THEN (h.head + 1) % size ELSE h.head

RecordRegion(h, r) ==
  LET tail == (h.tail + 1) % size
  IN [h EXCEPT !.records[h.tail] = r, !.tail = tail, !.head = headAfter(h, tail),
               !.index = @ + 1,
               !.flush = IF @ <= 1 THEN flushEvery ELSE @ - 1]

(* Record persists the index with every flushEvery-th record. *)
persisted(h, key) == IF h.flush <= 1 THEN h.index + 1 ELSE key

get(h, i) == h.records[(h.head + (i - firstIndex(h))) % size]

RecordsFrom(h, i) ==
  IF Holds(h, i) THEN [k \in 1 .. nextIndex(h) - i |-> get(h, i + k - 1)] ELSE <<>>

(* Mutant: the records of the ring are kept. *)
IndexOnly(h, i) == [h EXCEPT !.index = i]
ResetWithIndex(h, i) ==
  [h EXCEPT !.index = i, !.since = i, !.head = 0, !.tail = 0, !.flush = flushEvery]

(* The ring and the persisted index after the records of rs. *)
recordAll(h, key, rs) ==
  LET step[n \in 0 .. Len(rs)] ==
        IF n = 0 THEN <<h, key>>
        ELSE <<RecordRegion(step[n - 1][1], rs[n]), persisted(step[n - 1][1], step[n - 1][2])>>
  IN step[Len(rs)]

(***************************************************************************)
(* The leader.                                                             *)
(***************************************************************************)
(* A heartbeat changes a region.  A full channel drops it. *)
RegionChanges(r) ==
  /\ SumFunction(regionOf) < MaxChanges
  /\ regionOf' = [regionOf EXCEPT ![r] = @ + 1]
  /\ notifier' = IF Len(notifier) < notifierSize
                 THEN Append(notifier, [id |-> r, version |-> regionOf[r] + 1]) ELSE notifier
  /\ UNCHANGED <<history, historyKey, sending, linkVars, wire, stored, syncFaults, recorded, aligned>>

(* RunServer records the changes that wait, *)
RunServer ==
  LET n == IF Len(notifier) <= syncBatch + 1 THEN Len(notifier) ELSE syncBatch + 1
      rs == SubSeq(notifier, 1, n)
      after == recordAll(history["leader"], historyKey["leader"], rs)
  IN /\ sending = Silent /\ notifier # <<>>
     /\ notifier' = SubSeq(notifier, n + 1, Len(notifier))
     /\ history' = [history EXCEPT !["leader"] = after[1]]
     /\ historyKey' = [historyKey EXCEPT !["leader"] = after[2]]
     /\ recorded' = recorded \o rs
     /\ sending' = [kind |-> "send", response |-> response(nextIndex(history["leader"]), rs)]
     /\ UNCHANGED <<regionOf, linkVars, wire, stored, syncFaults, aligned>>

(* or sends its index as a sign of life, *)
KeepAlive ==
  /\ sending = Silent
  /\ sending' = [kind |-> "send", response |-> response(nextIndex(history["leader"]), <<>>)]
  /\ UNCHANGED <<regionOf, notifier, history, historyKey, linkVars, wire, stored, syncFaults,
                 recorded, aligned>>

(* to the stream that is bound, and takes the names that failed *)
broadcast ==
  /\ sending.kind = "send"
  /\ Len(wire) < MaxWire
  /\ IF streamOf # 0 /\ streamOf = conn /\ streamOf \in alive
     THEN wire' = Append(wire, sending.response) ELSE UNCHANGED wire
  /\ sending' = IF streamOf # 0 /\ streamOf \notin alive THEN [kind |-> "failed"] ELSE Silent
  /\ UNCHANGED <<regionOf, notifier, history, historyKey, linkVars, stored, syncFaults,
                 recorded, aligned>>

(* out of the map after it has dropped the read lock. *)
deleteFailed ==
  /\ sending.kind = "failed"
  /\ streamOf' = 0
  /\ sending' = Silent
  /\ UNCHANGED <<regionOf, notifier, history, historyKey, syncPc, conn, alive, wire, stored,
                 syncFaults, recorded, aligned>>

(* A full synchronisation: all regions, in the order a map gives them, in  *)
(* batches that count from zero.                                           *)
fullSynchronization(all) ==
  [k \in 1 .. (Len(all) + syncBatch - 1) \div syncBatch |->
     unlike(response((k - 1) * syncBatch,
                     SubSeq(all, (k - 1) * syncBatch + 1,
                            IF k * syncBatch < Len(all) THEN k * syncBatch ELSE Len(all))))]

GetMetaRegions ==
  SetToSeqs({[id |-> r, version |-> regionOf[r]] : r \in {r \in RegionID : regionOf[r] > 0}})

(* What a follower that asks from start on may be sent first. *)
syncHistoryRegion(start) ==
  LET h == history["leader"]
      rs == RecordsFrom(h, start)
  IN IF rs # <<>> THEN {<<response(start, rs)>>}
     ELSE IF nextIndex(h) # start /\ start = 0
     THEN {fullSynchronization(all) : all \in GetMetaRegions} ELSE {<<>>}
isFull(start) == RecordsFrom(history["leader"], start) = <<>>

(* Sync answers the request of a stream, *)
Sync(s) ==
  /\ syncPc[s].pc = "request"
  /\ LET start == syncPc[s].start
         works == s = conn /\ s \in alive
     IN /\ \E first \in syncHistoryRegion(start) :
             wire' = IF works THEN wire \o first ELSE wire
        /\ syncPc' = [syncPc EXCEPT ![s].pc =
                        IF works \/ isFull(start) THEN "bind" ELSE "returned"]
  /\ UNCHANGED <<regionOf, notifier, history, historyKey, sending, streamOf, conn, alive,
                 stored, syncFaults, recorded, aligned>>

(* and binds the stream only then. *)
bindStream(s) ==
  /\ syncPc[s].pc = "bind"
  /\ streamOf' = s
  /\ syncPc' = [syncPc EXCEPT ![s].pc = "bound"]
  /\ UNCHANGED <<regionOf, notifier, history, historyKey, sending, conn, alive, wire, stored,
                 syncFaults, recorded, aligned>>

(***************************************************************************)
(* The follower.                                                           *)
(***************************************************************************)
(* A new stream, with the request on it. *)
establish(s) ==
  /\ conn = 0
  /\ syncPc[s].pc = "unused" /\ \A t \in Stream : t < s => syncPc[t].pc # "unused"
  /\ conn' = s
  /\ alive' = alive \union {s}
  /\ wire' = <<>>
  /\ syncPc' = [syncPc EXCEPT ![s] = [pc |-> "request", start |-> nextIndex(history["follower"])]]
  /\ UNCHANGED <<regionOf, notifier, history, historyKey, sending, streamOf, stored,
                 syncFaults, recorded, aligned>>

(* An index other than the follower's own resets its ring. *)
adopted(w, start) ==
  IF nextIndex(history[w]) = start THEN history[w] ELSE ResetWithIndex(history[w], start)

latest(rs) ==
  [r \in RegionID |->
     LET of == {i \in DOMAIN rs : rs[i].id = r}
     IN IF of = {} THEN stored[r] ELSE rs[CHOOSE i \in of : \A j \in of : j <= i].version]

(* The loop of StartSyncWithLeader takes a response.  A region whose save  *)
(* fails (here: the first one) is not recorded.                            *)
Receive(failed) ==
  LET m == Head(wire)
      rs == IF failed THEN Tail(m.regions) ELSE m.regions
      after == recordAll(adopted("follower", m.start), historyKey["follower"], rs)
  IN /\ conn # 0 /\ wire # <<>>
     /\ IF failed THEN m.regions # <<>> /\ syncFaults < MaxSyncFaults /\ syncFaults' = syncFaults + 1
        ELSE UNCHANGED syncFaults
     /\ wire' = Tail(wire)
     /\ history' = [history EXCEPT !["follower"] = after[1]]
     /\ historyKey' = [historyKey EXCEPT !["follower"] = after[2]]
     /\ stored' = latest(rs)
     /\ aligned' = (~failed /\ m.exact /\ (aligned \/ nextIndex(history["follower"]) # m.start))
     /\ UNCHANGED <<regionOf, notifier, sending, linkVars, recorded>>

(* Recv fails on a broken stream: the follower starts over. *)
RecvError ==
  /\ conn # 0 /\ conn \notin alive
  /\ conn' = 0 /\ wire' = <<>>
  /\ UNCHANGED <<regionOf, notifier, history, historyKey, sending, streamOf, syncPc, alive,
                 stored, syncFaults, recorded, aligned>>

(***************************************************************************)
(* Faults.                                                                 *)
(***************************************************************************)
StreamBreaks ==
  /\ conn \in alive
  /\ syncFaults < MaxSyncFaults /\ syncFaults' = syncFaults + 1
  /\ alive' = alive \ {conn}
  /\ UNCHANGED <<regionOf, notifier, history, historyKey, sending, streamOf, syncPc, conn,
                 wire, stored, recorded, aligned>>

(* reloadIndex: a restarted server goes on from the index it last persisted. *)
reloadIndex(w) == newHistoryBuffer(historyKey[w])

LeaderRestarts ==
  /\ syncFaults < MaxSyncFaults /\ syncFaults' = syncFaults + 1
  /\ history' = [history EXCEPT !["leader"] = reloadIndex("leader")]
  /\ recorded' = SubSeq(recorded, 1, historyKey["leader"])
  /\ notifier' = <<>> /\ sending' = Silent
  /\ streamOf' = 0
  /\ syncPc' = [s \in Stream |-> IF syncPc[s].pc = "unused" THEN syncPc[s]
                                 ELSE [syncPc[s] EXCEPT !.pc = "returned"]]
  /\ alive' = {}
  /\ wire' = [k \in DOMAIN wire |-> unlike(wire[k])]
  /\ aligned' = FALSE
  /\ UNCHANGED <<regionOf, historyKey, conn, stored>>

FollowerRestarts ==
  /\ syncFaults < MaxSyncFaults /\ syncFaults' = syncFaults + 1
  /\ history' = [history EXCEPT !["follower"] = reloadIndex("follower")]
  /\ conn' = 0 /\ wire' = <<>> /\ alive' = {}
  /\ UNCHANGED <<regionOf, notifier, historyKey, sending, streamOf, syncPc, stored, recorded, aligned>>

SyncInit ==
  /\ regionOf = [r \in RegionID |-> 0]
  /\ notifier = <<>>
  /\ history = [w \in End |-> newHistoryBuffer(0)]
  /\ historyKey = [w \in End |-> 0]
  /\ sending = Silent
  /\ streamOf = 0 /\ conn = 0 /\ alive = {}
  /\ syncPc = [s \in Stream |-> [pc |-> "unused", start |-> 0]]
  /\ wire = <<>>
  /\ stored = [r \in RegionID |-> 0]
  /\ syncFaults = 0
  /\ recorded = <<>> /\ aligned = TRUE

SyncNext ==
  \/ \E r \in RegionID : RegionChanges(r)
  \/ RunServer \/ KeepAlive \/ broadcast \/ deleteFailed
  \/ \E s \in Stream : Sync(s) \/ bindStream(s) \/ establish(s)
  \/ Receive(FALSE) \/ Receive(TRUE) \/ RecvError
  \/ StreamBreaks \/ LeaderRestarts \/ FollowerRestarts

(***************************************************************************)
(* Properties.                                                             *)
(***************************************************************************)
(* The ring of the leader is the tail of what it recorded, and as much of  *)
(* it as it has room for: the record it gives out for an index is the one  *)
(* it recorded under it, wherever head and tail have wrapped to and        *)
(* whatever a restart took back.                                           *)
HistoryExact ==
  LET h == history["leader"]
  IN /\ nextIndex(h) = Len(recorded)
     /\ distanceToTail(h, h.head) =
          IF h.index - h.since < historySize THEN h.index - h.since ELSE historySize
     /\ \A i \in 0 .. nextIndex(h) - 1 : Holds(h, i) => get(h, i) = recorded[i + 1]

(* The follower files a region under the leader's index for it, across     *)
(* broken streams, records missed between Sync's answer and its binding,   *)
(* and its own restarts: it could serve the same history as a leader.  Not *)
(* promised after a full synchronisation, a failed save or a restart of    *)
(* the leader, until the next reset.                                       *)
HistoriesAgree ==
  LET h == history["follower"]
  IN aligned => \A i \in 0 .. nextIndex(h) - 1 :
                  Holds(h, i) /\ i < Len(recorded) => get(h, i) = recorded[i + 1]
=============================================================================
