------------------------------- MODULE Caches -------------------------------
(***************************************************************************)
(* pkg/cache: the 2Q cache of the hot-region statistics (three LRU lists), *)
(* the TTL cache of tainted stores, splits and finished operators, and the *)
(* FIFO of the operator history.  Each call holds the lock of its cache,   *)
(* so a call is a step.                                                    *)
(***************************************************************************)
EXTENDS Integers, SequencesExt

CONSTANTS CacheKey,      \* keys
          CacheValue,    \* values put under them
          cacheSize,     \* capacity of the 2Q cache and of the FIFO
          ttl,           \* time to live
          MaxTime        \* bound: ticks of the clock

(* A 2Q cache for one item has no room for a ghost, and a list of capacity *)
(* zero is one without a limit: the caches of PD are larger.               *)
ASSUME CachesAssumption ==
  /\ cacheSize \in Nat /\ cacheSize >= 2
  /\ ttl \in Nat /\ MaxTime \in Nat

VARIABLES twoQueue,      \* [recent, frequent, ghost]: LRU lists, front first
          ttlItems,      \* of each key: value and expiry, or NoItem
          fifo,          \* back first
          now,           \* time.Now()
          lastPut        \* ghost: of each key the value and time of its last Put

cacheSystem == <<twoQueue, ttlItems, fifo, now, lastPut>>

NoItem == [value |-> 0, expire |-> -1]
Never == [value |-> 0, at |-> -1]

(***************************************************************************)
(* An LRU list: the most recently used item comes first.                   *)
(***************************************************************************)
lruKeys(l) == {l[i].key : i \in DOMAIN l}
contains(l, k) == k \in lruKeys(l)
find(l, k) == CHOOSE i \in DOMAIN l : l[i].key = k       \* the map of the list
removeKey(l, k) == IF contains(l, k) THEN RemoveAt(l, find(l, k)) ELSE l
removeOldest(l) == IF l = <<>> THEN l ELSE SubSeq(l, 1, Len(l) - 1)
Peek(l, k) == l[find(l, k)].value
MoveToFront(l, k, v) == <<[key |-> k, value |-> v]>> \o removeKey(l, k)

(* A capacity of zero means no limit. *)
lruPut(l, maxCount, k, v) ==
  LET l1 == MoveToFront(l, k, v)
  IN IF maxCount # 0 /\ Len(l1) > maxCount THEN removeOldest(l1) ELSE l1

(***************************************************************************)
(* 2Q.                                                                     *)
(***************************************************************************)
recentSize == cacheSize \div 4
ghostSize == cacheSize \div 2

frequentPut(q, k, v) == [q EXCEPT !.frequent = lruPut(@, cacheSize, k, v)]

(* Room for one more: the oldest recent key becomes a ghost, or the oldest *)
(* frequent one is forgotten.                                              *)
ensureSpace(q, ghost) ==
  LET r == Len(q.recent)
  IN IF r + Len(q.frequent) < cacheSize THEN q
     ELSE IF r > 0 /\ (r > recentSize \/ (r = recentSize /\ ~ghost))
     THEN [q EXCEPT !.recent = removeOldest(@),
                    !.ghost = lruPut(@, ghostSize, q.recent[r].key, 0)]
     ELSE [q EXCEPT !.frequent = removeOldest(@)]

(* Mutant: the item stays in the recent list. *)
CopiedToFrequent(q, k, v) == frequentPut(q, k, v)
promote(q, k, v) == frequentPut([q EXCEPT !.recent = removeKey(@, k)], k, v)

TwoQueuePut(q, k, v) ==
  IF contains(q.frequent, k) THEN frequentPut(q, k, v)
  ELSE IF contains(q.recent, k) THEN promote(q, k, v)
  ELSE IF contains(q.ghost, k)
  THEN LET q1 == ensureSpace(q, TRUE)
       IN frequentPut([q1 EXCEPT !.ghost = removeKey(@, k)], k, v)
  ELSE LET q1 == ensureSpace(q, FALSE)
       IN [q1 EXCEPT !.recent = lruPut(@, cacheSize, k, v)]

TwoQueueGet(q, k) ==
  IF contains(q.frequent, k) THEN [q EXCEPT !.frequent = MoveToFront(@, k, Peek(@, k))]
  ELSE IF contains(q.recent, k) THEN promote(q, k, Peek(q.recent, k)) ELSE q

(* Remove looks into one list only: the first that has the key. *)
TwoQueueRemove(q, k) ==
  IF contains(q.frequent, k) THEN [q EXCEPT !.frequent = removeKey(@, k)]
  ELSE IF contains(q.recent, k) THEN [q EXCEPT !.recent = removeKey(@, k)]
  ELSE [q EXCEPT !.ghost = removeKey(@, k)]

TwoQueueLen(q) == Len(q.recent) + Len(q.frequent)

(***************************************************************************)
(* TTL and FIFO.                                                           *)
(***************************************************************************)
TTLExists(k) == ttlItems[k] # NoItem /\ ttlItems[k].expire >= now

fifoPut(f, k, v) ==
  LET f1 == Append(f, [key |-> k, value |-> v])
  IN IF Len(f1) > cacheSize THEN Tail(f1) ELSE f1
FromElems(f, k) == SelectSeq(f, LAMBDA e : e.key > k)

(***************************************************************************)
(* The calls.                                                              *)
(***************************************************************************)
CachePut(k, v) ==
  /\ twoQueue' = TwoQueuePut(twoQueue, k, v)
  /\ ttlItems' = [ttlItems EXCEPT ![k] = [value |-> v, expire |-> now + ttl]]
  /\ fifo' = fifoPut(fifo, k, v)
  /\ lastPut' = [lastPut EXCEPT ![k] = [value |-> v, at |-> now]]
  /\ UNCHANGED now

CacheGet(k) ==
  /\ twoQueue' = TwoQueueGet(twoQueue, k)
  /\ UNCHANGED <<ttlItems, fifo, now, lastPut>>

CacheRemove(k) ==
  /\ twoQueue' = TwoQueueRemove(twoQueue, k)
  /\ ttlItems' = [ttlItems EXCEPT ![k] = NoItem]
  /\ fifo' = IF fifo = <<>> THEN fifo ELSE Tail(fifo)
  /\ lastPut' = [lastPut EXCEPT ![k] = Never]
  /\ UNCHANGED now

TTLClear ==
  /\ ttlItems' = [k \in CacheKey |-> NoItem]
  /\ lastPut' = [k \in CacheKey |-> [lastPut[k] EXCEPT !.at = -1]]
  /\ UNCHANGED <<twoQueue, fifo, now>>

doGC ==
  /\ ttlItems' = [k \in CacheKey |-> IF ttlItems[k].expire < now THEN NoItem ELSE ttlItems[k]]
  /\ UNCHANGED <<twoQueue, fifo, now, lastPut>>

CacheTick ==
  /\ now < MaxTime /\ now' = now + 1
  /\ UNCHANGED <<twoQueue, ttlItems, fifo, lastPut>>

CachesInit ==
  /\ twoQueue = [recent |-> <<>>, frequent |-> <<>>, ghost |-> <<>>]
  /\ ttlItems = [k \in CacheKey |-> NoItem]
  /\ fifo = <<>>
  /\ now = 0
  /\ lastPut = [k \in CacheKey |-> Never]

CachesNext ==
  \/ \E k \in CacheKey : CacheGet(k) \/ CacheRemove(k) \/ \E v \in CacheValue : CachePut(k, v)
  \/ TTLClear \/ doGC \/ CacheTick

(***************************************************************************)
(* Properties.                                                             *)
(***************************************************************************)
onlyOnce(l) == Cardinality(lruKeys(l)) = Len(l)

(* A key is in at most one of the three lists, once, so that Remove, which *)
(* stops at the first list that has it, leaves nothing of it behind; the   *)
(* lists never hold more than the capacity; and a hit is the value last    *)
(* put.                                                                    *)
TwoQueueSound ==
  LET r == lruKeys(twoQueue.recent)
      f == lruKeys(twoQueue.frequent)
      g == lruKeys(twoQueue.ghost)
  IN /\ r \intersect f = {} /\ (r \union f) \intersect g = {}
     /\ onlyOnce(twoQueue.recent) /\ onlyOnce(twoQueue.frequent) /\ onlyOnce(twoQueue.ghost)
     /\ TwoQueueLen(twoQueue) <= cacheSize
     /\ Len(twoQueue.ghost) <= ghostSize
     /\ \A k \in r : Peek(twoQueue.recent, k) = lastPut[k].value
     /\ \A k \in f : Peek(twoQueue.frequent, k) = lastPut[k].value

(* A TTL item is there, with its value, until it expires, and not longer:  *)
(* the collector and Get agree about the moment.                           *)
TTLSound ==
  \A k \in CacheKey :
    TTLExists(k) <=> lastPut[k].at # -1 /\ now <= lastPut[k].at + ttl

(* What the callers of the caches rely on: a 2Q list never keeps a key it  *)
(* was told to remove or an outdated value, and a TTL item lives exactly   *)
(* as long as it should.                                                   *)
CachesSound == TwoQueueSound /\ TTLSound
=============================================================================
