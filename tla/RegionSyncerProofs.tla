------------------------- MODULE RegionSyncerProofs -------------------------
(***************************************************************************)
(* The histories of the region syncer, for rings of any size, any number   *)
(* of regions, streams and faults: the leader's ring is the tail of what   *)
(* it recorded, and a follower in step files every record under the        *)
(* leader's index.                                                         *)
(***************************************************************************)
EXTENDS RegionSyncer, SequenceTheorems, FiniteSetTheorems, NaturalsInduction,
        WellFoundedInduction, TLAPS

SyncSpec == SyncInit /\ [][SyncNext]_syncVars

Record == [id : RegionID \union {0}, version : Nat]

Buffer == [index : Nat, since : Nat, head : 0 .. historySize, tail : 0 .. historySize,
           flush : Int, records : [0 .. historySize -> Record]]

(***************************************************************************)
(* The ring.  It holds the latest records, as many as it has room for.     *)
(* The slot of an index is found by counting back from the tail, so that   *)
(* the head has no say in where a record is.                               *)
(***************************************************************************)
Ring(h) ==
  /\ h \in Buffer
  /\ h.since <= h.index
  /\ distanceToTail(h, h.head) =
       IF h.index - h.since < historySize THEN h.index - h.since ELSE historySize

Slot(h, i) ==
  IF h.index - i <= h.tail THEN h.tail - (h.index - i) ELSE h.tail + size - (h.index - i)

LEMMA SizeType == size \in Nat /\ size = historySize + 1 /\ size >= 2 /\ size - 1 = historySize
  BY SyncAssumption DEF size

LEMMA BufferFields ==
  ASSUME NEW h \in Buffer
  PROVE  /\ h.index \in Nat /\ h.since \in Nat
         /\ h.head \in 0 .. historySize /\ h.tail \in 0 .. historySize
         /\ h.flush \in Int /\ h.records \in [0 .. historySize -> Record]
  BY DEF Buffer

LEMMA Wraps ==
  ASSUME NEW x \in 0 .. 2 * size - 1
  PROVE  x % size = IF x < size THEN x ELSE x - size
  BY SizeType

LEMMA SlotOfHeld ==
  ASSUME NEW h, Ring(h), NEW i \in Int, Holds(h, i)
  PROVE  /\ get(h, i) = h.records[Slot(h, i)]
         /\ Slot(h, i) \in 0 .. historySize
         /\ i \in Nat /\ h.since <= i /\ h.index - i \in 1 .. historySize
<1> USE SyncAssumption
<1> DEFINE d == distanceToTail(h, h.head)
<1>1. /\ h.index \in Nat /\ h.since \in Nat
      /\ h.head \in 0 .. historySize /\ h.tail \in 0 .. historySize
  BY BufferFields DEF Ring
<1>2. d \in 0 .. historySize /\ d <= h.index - h.since
  BY <1>1 DEF Ring
<1>3. h.head + d = h.tail \/ h.head + d = h.tail + size
  BY <1>1, SizeType DEF distanceToTail
<1>4. firstIndex(h) = h.index - d
  BY DEF firstIndex
<1> HIDE DEF d
<1>5. h.index - d <= i /\ i < h.index
  BY <1>4 DEF Holds, nextIndex
<1>6. i \in Nat /\ h.since <= i /\ h.index - i \in 1 .. historySize
  BY <1>1, <1>2, <1>5
<1>7. Slot(h, i) \in 0 .. historySize
  BY <1>1, <1>6, SizeType DEF Slot
<1>8. h.head + (i - firstIndex(h)) = h.head + d - (h.index - i)
  BY <1>1, <1>2, <1>4, <1>6
<1>9. (h.head + (i - firstIndex(h))) % size = Slot(h, i)
  <2> DEFINE x == h.head + (i - firstIndex(h))
  <2>1. x \in 0 .. 2 * size - 1
    BY <1>1, <1>2, <1>4, <1>5, SizeType
  <2>2. x % size = IF x < size THEN x ELSE x - size
    BY <2>1, Wraps
  <2>3. x = h.tail - (h.index - i) \/ x = h.tail + size - (h.index - i)
    BY <1>1, <1>2, <1>3, <1>6, <1>8, SizeType
  <2> HIDE DEF x
  <2>4. x % size = Slot(h, i)
    BY <1>1, <1>6, <2>1, <2>2, <2>3, SizeType DEF Slot
  <2> QED
    BY <2>4 DEF x
<1> QED
  BY <1>6, <1>7, <1>9 DEF get

(* What the ring holds is exactly the tail of the indexes. *)
LEMMA HeldIndexes ==
  ASSUME NEW h, Ring(h), NEW i \in Int
  PROVE  Holds(h, i) <=> h.since <= i /\ i < h.index /\ h.index - i <= historySize
  BY BufferFields, SyncAssumption DEF Ring, Holds, firstIndex, nextIndex

LEMMA EmptyRing ==
  ASSUME NEW k \in Nat
  PROVE  /\ Ring(newHistoryBuffer(k)) /\ newHistoryBuffer(k).index = k
         /\ \A i \in Int : ~Holds(newHistoryBuffer(k), i)
<1> DEFINE h == newHistoryBuffer(k)
<1>1. NoRegion \in Record
  BY DEF NoRegion, Record
<1>2. h \in Buffer
  BY <1>1, SyncAssumption, SizeType DEF newHistoryBuffer, Buffer
<1>3. h.index = k /\ h.since = k /\ h.head = 0 /\ h.tail = 0
  BY DEF newHistoryBuffer
<1> HIDE DEF h
<1>4. Ring(h)
  BY <1>2, <1>3, SyncAssumption DEF Ring, distanceToTail
<1> QED
  BY <1>3, <1>4, HeldIndexes DEF h

LEMMA ResetRing ==
  ASSUME NEW h, Ring(h), NEW k \in Nat
  PROVE  /\ Ring(ResetWithIndex(h, k)) /\ ResetWithIndex(h, k).index = k
         /\ \A i \in Int : ~Holds(ResetWithIndex(h, k), i)
<1> DEFINE g == ResetWithIndex(h, k)
<1>0. h \in Buffer
  BY DEF Ring
<1>b. g = [h EXCEPT !.index = k, !.since = k, !.head = 0, !.tail = 0, !.flush = flushEvery]
  BY DEF ResetWithIndex
<1> HIDE DEF g
<1>a. g = [index |-> k, since |-> k, head |-> 0, tail |-> 0, flush |-> flushEvery,
           records |-> h.records]
  BY <1>0, <1>b DEF Buffer
<1>1. g \in Buffer /\ g.index = k /\ g.since = k /\ g.head = 0 /\ g.tail = 0
  BY <1>0, <1>a, SyncAssumption, BufferFields DEF Buffer
<1>2. Ring(g)
  BY <1>1, SyncAssumption DEF Ring, distanceToTail
<1> QED
  BY <1>1, <1>2, HeldIndexes DEF g

(* Record adds one record under the next index and keeps those the ring    *)
(* still has room for.                                                     *)
LEMMA RecordedRing ==
  ASSUME NEW h, Ring(h), NEW r \in Record
  PROVE  LET g == RecordRegion(h, r)
         IN /\ Ring(g) /\ g.index = h.index + 1
            /\ \A i \in Int : Holds(g, i) =>
                 /\ i = h.index => get(g, i) = r
                 /\ i # h.index => Holds(h, i) /\ get(g, i) = get(h, i)
<1> USE SyncAssumption
<1> DEFINE g == RecordRegion(h, r)
           t == (h.tail + 1) % size
           hd == headAfter(h, t)
<1>1. /\ h.index \in Nat /\ h.since \in Nat
      /\ h.head \in 0 .. historySize /\ h.tail \in 0 .. historySize
  BY BufferFields DEF Ring
<1>b. /\ h \in Buffer /\ h.flush \in Int /\ h.records \in [0 .. historySize -> Record]
  BY BufferFields DEF Ring
<1>2. t = IF h.tail = historySize THEN 0 ELSE h.tail + 1
  <2>1. h.tail + 1 \in 0 .. 2 * size - 1
    BY <1>1, SizeType
  <2>2. t = IF h.tail + 1 < size THEN h.tail + 1 ELSE h.tail + 1 - size
    BY <1>1, SizeType
  <2> QED
    BY <1>1, <2>2, SizeType
<1>3. hd = IF t = h.head THEN (IF h.head = historySize THEN 0 ELSE h.head + 1) ELSE h.head
  <2>1. h.head + 1 \in 0 .. 2 * size - 1
    BY <1>1, SizeType
  <2>2. (h.head + 1) % size = IF h.head + 1 < size THEN h.head + 1 ELSE h.head + 1 - size
    BY <1>1, SizeType
  <2>3. (h.head + 1) % size = IF h.head = historySize THEN 0 ELSE h.head + 1
    BY <1>1, <2>2, SizeType
  <2> QED
    BY <2>3 DEF headAfter
<1> DEFINE fl == IF h.flush <= 1 THEN flushEvery ELSE h.flush - 1
<1>4. fl \in Int
  BY <1>b
<1> HIDE DEF t, hd, fl
<1>5. t \in 0 .. historySize /\ hd \in 0 .. historySize
  BY <1>1, <1>2, <1>3
<1>6. g = [h EXCEPT !.records[h.tail] = r, !.tail = t, !.head = hd, !.index = @ + 1,
                    !.flush = fl]
  BY DEF RecordRegion, t, hd, fl
<1>a. g = [index |-> h.index + 1, since |-> h.since, head |-> hd, tail |-> t, flush |-> fl,
           records |-> [h.records EXCEPT ![h.tail] = r]]
  BY <1>1, <1>b, <1>6 DEF Buffer
<1>7. /\ g \in Buffer /\ g.index = h.index + 1 /\ g.since = h.since /\ g.tail = t
      /\ g.head = hd /\ g.records = [h.records EXCEPT ![h.tail] = r]
  BY <1>1, <1>b, <1>4, <1>5, <1>a DEF Buffer
<1> HIDE DEF g
<1>8. Ring(g)
  <2>1. distanceToTail(h, h.head) =
          IF h.tail < h.head THEN h.tail + historySize + 1 - h.head ELSE h.tail - h.head
    BY <1>1, SizeType DEF distanceToTail
  <2>2. distanceToTail(g, g.head) =
          IF t < hd THEN t + historySize + 1 - hd ELSE t - hd
    BY <1>7, <1>5, SizeType DEF distanceToTail
  <2>3. h.since <= h.index /\ distanceToTail(h, h.head) =
          IF h.index - h.since < historySize THEN h.index - h.since ELSE historySize
    BY DEF Ring
  <2>4. distanceToTail(g, g.head) =
          IF distanceToTail(h, h.head) = historySize THEN historySize
          ELSE distanceToTail(h, h.head) + 1
    BY <1>1, <1>2, <1>3, <2>1, <2>2
  <2>5. distanceToTail(g, g.head) =
          IF g.index - g.since < historySize THEN g.index - g.since ELSE historySize
    BY <1>1, <1>7, <2>3, <2>4
  <2> QED
    BY <1>1, <1>7, <2>3, <2>5 DEF Ring
<1>9. ASSUME NEW i \in Int, Holds(g, i)
      PROVE  /\ i = h.index => get(g, i) = r
             /\ i # h.index => Holds(h, i) /\ get(g, i) = get(h, i)
  <2>1. /\ get(g, i) = g.records[Slot(g, i)] /\ i \in Nat
        /\ Slot(g, i) \in 0 .. historySize
        /\ h.since <= i /\ h.index + 1 - i \in 1 .. historySize
    <3>1. /\ get(g, i) = g.records[Slot(g, i)] /\ i \in Nat
          /\ Slot(g, i) \in 0 .. historySize
          /\ g.since <= i /\ g.index - i \in 1 .. historySize
      BY <1>8, <1>9, SlotOfHeld
    <3>2. g.index = h.index + 1 /\ g.since = h.since
      BY <1>7
    <3> QED
      BY <1>1, <3>1, <3>2
  <2>2. Slot(g, i) = IF h.index - i <= h.tail THEN h.tail - (h.index - i)
                     ELSE h.tail + size - (h.index - i)
    BY <1>1, <1>2, <1>7, <2>1, SizeType DEF Slot
  <2>3. CASE i = h.index
    BY <1>1, <1>b, <1>7, <2>1, <2>2, <2>3
  <2>4. CASE i # h.index
    <3>1. Holds(h, i)
      BY <1>1, <2>1, <2>4, HeldIndexes
    <3>2. get(h, i) = h.records[Slot(h, i)]
      BY <3>1, SlotOfHeld
    <3>3. Slot(g, i) = Slot(h, i)
      BY <2>2 DEF Slot
    <3>4. Slot(g, i) # h.tail
      BY <1>1, <2>1, <2>2, <2>4, SizeType
    <3>5. g.records[Slot(g, i)] = h.records[Slot(g, i)]
      BY <1>1, <1>b, <1>7, <2>1, <3>4
    <3> QED
      BY <2>1, <2>4, <3>1, <3>2, <3>3, <3>5
  <2> QED
    BY <2>3, <2>4
<1> QED
  BY <1>7, <1>8, <1>9 DEF g

(* Every nonempty set of natural numbers has a least element. *)
LEMMA LeastNumber ==
  ASSUME NEW T, T \subseteq Nat, T # {}
  PROVE  \E x \in T : \A y \in T : x <= y
<1> DEFINE R == OpToRel(<, Nat)
<1>1. IsWellFoundedOn(R, Nat)
  BY NatLessThanWellFounded, Zenon
<1> HIDE DEF R
<1>2. PICK x \in T : \A y \in T : ~(<<y, x>> \in R)
  BY <1>1, WFMin
<1>3. \A y \in T : ~(y < x)
  BY <1>2 DEF R, OpToRel
<1> QED
  BY <1>3

(***************************************************************************)
(* recordAll.  The function it is defined with exists, as the least length *)
(* without one would have a shorter one to extend, and by the same         *)
(* argument all its values are as they should be.                          *)
(***************************************************************************)
Then(x, r) == <<RecordRegion(x[1], r), persisted(x[1], x[2])>>

Steps(h, key, rs) ==
  CHOOSE step : step = [n \in 0 .. Len(rs) |->
                          IF n = 0 THEN <<h, key>>
                          ELSE <<RecordRegion(step[n - 1][1], rs[n]),
                                 persisted(step[n - 1][1], step[n - 1][2])>>]

IsSteps(f, h, key, rs, m) ==
  /\ f = [n \in 0 .. m |-> f[n]]
  /\ f[0] = <<h, key>>
  /\ \A n \in 1 .. m : f[n] = Then(f[n - 1], rs[n])

LEMMA StepsExist ==
  ASSUME NEW h, NEW key, NEW rs, NEW l \in Nat
  PROVE  \E f : IsSteps(f, h, key, rs, l)
<1> DEFINE Bad == {m \in Nat : ~\E f : IsSteps(f, h, key, rs, m)}
<1> SUFFICES ASSUME l \in Bad PROVE FALSE
  OBVIOUS
<1>1. Bad \subseteq Nat /\ Bad # {}
  OBVIOUS
<1> HIDE DEF Bad
<1>2. PICK m \in Bad : \A n \in Bad : m <= n
  BY <1>1, LeastNumber
<1>3. m \in Nat
  BY <1>1, <1>2
<1>4. CASE m = 0
  <2> DEFINE f == [n \in 0 .. 0 |-> <<h, key>>]
  <2>1. f[0] = <<h, key>>
    OBVIOUS
  <2>2. f = [n \in 0 .. 0 |-> f[n]]
    OBVIOUS
  <2>3. 1 .. 0 = {}
    OBVIOUS
  <2> HIDE DEF f
  <2>4. IsSteps(f, h, key, rs, m)
    BY <1>4, <2>1, <2>2, <2>3 DEF IsSteps
  <2> QED
    BY <2>4 DEF Bad
<1>5. CASE m # 0
  <2>1. m - 1 \in Nat /\ m - 1 \notin Bad
    BY <1>2, <1>3, <1>5
  <2>2. PICK f : IsSteps(f, h, key, rs, m - 1)
    BY <2>1 DEF Bad
  <2> DEFINE g == [n \in 0 .. m |-> IF n = m THEN Then(f[m - 1], rs[m]) ELSE f[n]]
  <2>3. g = [n \in 0 .. m |-> g[n]]
    OBVIOUS
  <2>4. g[0] = f[0] /\ g[m] = Then(f[m - 1], rs[m]) /\ \A n \in 0 .. m - 1 : g[n] = f[n]
    BY <1>3, <1>5
  <2> HIDE DEF g
  <2>5. ASSUME NEW n \in 1 .. m
        PROVE  g[n] = Then(g[n - 1], rs[n])
    <3>1. n - 1 \in 0 .. m - 1 /\ g[n - 1] = f[n - 1]
      BY <1>3, <2>4
    <3>2. CASE n = m
      BY <2>4, <3>1, <3>2
    <3>3. CASE n # m
      <4>1. n \in 1 .. m - 1 /\ n \in 0 .. m - 1
        BY <1>3, <3>3
      <4> QED
        BY <2>2, <2>4, <3>1, <4>1 DEF IsSteps
    <3> QED
      BY <3>2, <3>3
  <2>6. IsSteps(g, h, key, rs, m)
    BY <2>2, <2>3, <2>4, <2>5 DEF IsSteps
  <2> QED
    BY <1>3, <2>6 DEF Bad
<1> QED
  BY <1>4, <1>5

LEMMA StepsSteps ==
  ASSUME NEW h, NEW key, NEW S, NEW rs \in Seq(S)
  PROVE  IsSteps(Steps(h, key, rs), h, key, rs, Len(rs))
<1>0. Len(rs) \in Nat
  OBVIOUS
<1> DEFINE l == Len(rs)
           F(f) == [n \in 0 .. l |->
                      IF n = 0 THEN <<h, key>>
                      ELSE <<RecordRegion(f[n - 1][1], rs[n]),
                             persisted(f[n - 1][1], f[n - 1][2])>>]
<1>1. PICK f : IsSteps(f, h, key, rs, l)
  BY <1>0, StepsExist
<1>2. f = F(f)
  <2>1. f = [n \in 0 .. l |-> f[n]]
    BY <1>1 DEF IsSteps
  <2>2. \A n \in 0 .. l : f[n] = F(f)[n]
    BY <1>0, <1>1 DEF IsSteps, Then
  <2> HIDE DEF l
  <2> QED
    BY <2>1, <2>2
<1>3. Steps(h, key, rs) = F(Steps(h, key, rs))
  BY <1>2 DEF Steps
<1> DEFINE g == Steps(h, key, rs)
<1> HIDE DEF g
<1>4. g = F(g)
  BY <1>3 DEF g
<1>5. g[0] = <<h, key>> /\ \A n \in 1 .. l : g[n] = Then(g[n - 1], rs[n])
  BY <1>0, <1>4 DEF Then
<1>6. g = [n \in 0 .. l |-> g[n]]
  BY <1>4
<1>7. IsSteps(g, h, key, rs, l)
  BY <1>5, <1>6 DEF IsSteps
<1> QED
  BY <1>7 DEF g

(* The ring x[1] and the key x[2] are what is left of h and key after the  *)
(* first n records of rs.                                                  *)
After(x, h, key, rs, n) ==
  /\ Ring(x[1]) /\ x[1].index = h.index + n
  /\ x[2] \in Nat /\ (key <= h.index => x[2] <= x[1].index)
  /\ \A i \in Int : Holds(x[1], i) =>
       /\ i >= h.index => i < h.index + n /\ get(x[1], i) = rs[i - h.index + 1]
       /\ i < h.index => Holds(h, i) /\ get(x[1], i) = get(h, i)

LEMMA AfterOne ==
  ASSUME NEW h, Ring(h), NEW key \in Nat, NEW rs \in Seq(Record),
         NEW x, NEW n \in 1 .. Len(rs), After(x, h, key, rs, n - 1)
  PROVE  After(Then(x, rs[n]), h, key, rs, n)
<1> DEFINE y == Then(x, rs[n])
           g == RecordRegion(x[1], rs[n])
<1>0. rs[n] \in Record /\ n \in Nat
  OBVIOUS
<1>1. h.index \in Nat
  BY BufferFields DEF Ring
<1>2. Ring(x[1]) /\ x[1].index = h.index + (n - 1) /\ x[2] \in Nat
      /\ (key <= h.index => x[2] <= x[1].index)
  BY DEF After
<1>3. /\ Ring(g) /\ g.index = x[1].index + 1
      /\ \A i \in Int : Holds(g, i) =>
           /\ i = x[1].index => get(g, i) = rs[n]
           /\ i # x[1].index => Holds(x[1], i) /\ get(g, i) = get(x[1], i)
  BY <1>0, <1>2, RecordedRing
<1>4. y[1] = g /\ y[2] = persisted(x[1], x[2])
  BY DEF Then
<1> HIDE DEF y, g
<1>5. g.index = h.index + n
  BY <1>0, <1>1, <1>2, <1>3
<1>6. y[2] \in Nat /\ (key <= h.index => y[2] <= g.index)
  BY <1>0, <1>1, <1>2, <1>4, <1>5 DEF persisted
<1>7. ASSUME NEW i \in Int, Holds(g, i)
      PROVE  /\ i >= h.index => i < h.index + n /\ get(g, i) = rs[i - h.index + 1]
             /\ i < h.index => Holds(h, i) /\ get(g, i) = get(h, i)
  <2>1. CASE i = x[1].index
    <3>1. get(g, i) = rs[n] /\ i = h.index + (n - 1)
      BY <1>2, <1>3, <1>7, <2>1
    <3>2. i - h.index + 1 = n /\ i >= h.index /\ i < h.index + n
      BY <1>0, <1>1, <3>1
    <3> QED
      BY <1>1, <3>1, <3>2
  <2>2. CASE i # x[1].index
    <3>1. Holds(x[1], i) /\ get(g, i) = get(x[1], i)
      BY <1>3, <1>7, <2>2
    <3>2. /\ i >= h.index => i < h.index + (n - 1) /\ get(x[1], i) = rs[i - h.index + 1]
          /\ i < h.index => Holds(h, i) /\ get(x[1], i) = get(h, i)
      BY <3>1 DEF After
    <3> QED
      BY <1>0, <1>1, <3>1, <3>2
  <2> QED
    BY <2>1, <2>2
<1>8. After(y, h, key, rs, n)
  BY <1>3, <1>4, <1>5, <1>6, <1>7 DEF After
<1> QED
  BY <1>8 DEF y

(* recordAll files the records under consecutive indexes. *)
LEMMA RecordAll ==
  ASSUME NEW h, Ring(h), NEW key \in Nat, NEW rs \in Seq(Record)
  PROVE  After(recordAll(h, key, rs), h, key, rs, Len(rs))
<1> DEFINE f == Steps(h, key, rs)
           Bad == {m \in 0 .. Len(rs) : ~After(f[m], h, key, rs, m)}
<1>1. recordAll(h, key, rs) = f[Len(rs)]
  BY DEF recordAll, Steps
<1>2. /\ f[0] = <<h, key>>
      /\ \A n \in 1 .. Len(rs) : f[n] = Then(f[n - 1], rs[n])
  BY StepsSteps DEF IsSteps
<1> HIDE DEF f
<1>3. After(f[0], h, key, rs, 0)
  BY <1>2, BufferFields DEF After, Ring, Holds, nextIndex
<1>4. Bad = {}
  <2> SUFFICES ASSUME Bad # {} PROVE FALSE
    OBVIOUS
  <2>1. Bad \subseteq Nat
    OBVIOUS
  <2> HIDE DEF Bad
  <2>2. PICK m \in Bad : \A n \in Bad : m <= n
    BY <2>1, LeastNumber
  <2>3. m \in 0 .. Len(rs) /\ ~After(f[m], h, key, rs, m)
    BY <2>2 DEF Bad
  <2>4. m \in 1 .. Len(rs)
    BY <1>3, <2>3
  <2>5. m - 1 \notin Bad /\ m - 1 \in 0 .. Len(rs)
    BY <2>1, <2>2, <2>4
  <2>6. After(f[m - 1], h, key, rs, m - 1)
    BY <2>5 DEF Bad
  <2>7. After(Then(f[m - 1], rs[m]), h, key, rs, m)
    BY <2>4, <2>6, AfterOne
  <2> QED
    BY <1>2, <2>3, <2>4, <2>7
<1>5. After(f[Len(rs)], h, key, rs, Len(rs))
  BY <1>4
<1> QED
  BY <1>1, <1>5

(***************************************************************************)
(* The inductive invariant.  HistoryExact needs nothing but the shape of   *)
(* the ring and that the persisted index is never ahead of the records.    *)
(* HistoriesAgree says nothing of an index that the leader has not reached *)
(* yet; it is inductive only with the fact that a follower in step holds   *)
(* no such index, and that every exact response that is under way, on the  *)
(* wire or in the hands of RunServer, is a slice of the leader's records.  *)
(***************************************************************************)
Message == [start : Nat, regions : Seq(Record), exact : BOOLEAN]
Sending == {Silent, [kind |-> "failed"]} \union [kind : {"send"}, response : Message]
SyncPc == [pc : {"unused", "request", "bind", "bound", "returned"}, start : Nat]

SyncTypes ==
  /\ regionOf \in [RegionID -> Nat]
  /\ notifier \in Seq(Record)
  /\ DOMAIN history = End /\ history = [w \in End |-> history[w]]
  /\ historyKey \in [End -> Nat]
  /\ sending \in Sending
  /\ syncPc \in [Stream -> SyncPc]
  /\ wire \in Seq(Message)
  /\ recorded \in Seq(Record)

Slice(m, all) ==
  /\ m.start + Len(m.regions) <= Len(all)
  /\ \A k \in 1 .. Len(m.regions) : m.regions[k] = all[m.start + k]

Agrees(h, all) == \A i \in Int : Holds(h, i) => i < Len(all) /\ get(h, i) = all[i + 1]

Rings == \A w \in End : Ring(history[w])
LeaderExact ==
  /\ history["leader"].index = Len(recorded)
  /\ historyKey["leader"] <= Len(recorded)
  /\ Agrees(history["leader"], recorded)
FollowerAgrees == aligned => Agrees(history["follower"], recorded)
WireExact == \A k \in 1 .. Len(wire) : wire[k].exact => Slice(wire[k], recorded)
SendingExact ==
  sending.kind = "send" /\ sending.response.exact => Slice(sending.response, recorded)

SyncInv == SyncTypes /\ Rings /\ LeaderExact /\ FollowerAgrees /\ WireExact /\ SendingExact

LEMMA SyncInvExact == SyncInv => HistoryExact
<1> SUFFICES ASSUME SyncInv PROVE HistoryExact
  OBVIOUS
<1> DEFINE h == history["leader"]
<1>1. Ring(h) /\ h.index = Len(recorded) /\ Agrees(h, recorded)
  BY DEF SyncInv, Rings, LeaderExact, End
<1> HIDE DEF h
<1>2. h.index \in Nat
  BY <1>1, BufferFields DEF Ring
<1>3. \A i \in 0 .. nextIndex(h) - 1 : Holds(h, i) => get(h, i) = recorded[i + 1]
  BY <1>1, <1>2 DEF Agrees, nextIndex
<1>4. nextIndex(h) = Len(recorded)
  BY <1>1 DEF nextIndex
<1>5. distanceToTail(h, h.head) =
        IF h.index - h.since < historySize THEN h.index - h.since ELSE historySize
  BY <1>1 DEF Ring
<1> QED
  BY <1>3, <1>4, <1>5 DEF HistoryExact, h

LEMMA SyncInvAgree == SyncInv => HistoriesAgree
<1> SUFFICES ASSUME SyncInv, aligned PROVE HistoriesAgree
  BY DEF HistoriesAgree
<1> DEFINE h == history["follower"]
<1>1. Ring(h) /\ Agrees(h, recorded)
  BY DEF SyncInv, Rings, FollowerAgrees, End
<1> HIDE DEF h
<1>2. \A i \in 0 .. nextIndex(h) - 1 :
        Holds(h, i) /\ i < Len(recorded) => get(h, i) = recorded[i + 1]
  BY <1>1, BufferFields DEF Agrees, nextIndex, Ring
<1> QED
  BY <1>2 DEF HistoriesAgree, h

LEMMA SyncInitInv == SyncInit => SyncInv
<1> SUFFICES ASSUME SyncInit PROVE SyncInv
  OBVIOUS
<1>0. Ring(newHistoryBuffer(0)) /\ newHistoryBuffer(0).index = 0
      /\ \A i \in Int : ~Holds(newHistoryBuffer(0), i)
  BY EmptyRing
<1>1. \A w \in End : history[w] = newHistoryBuffer(0)
  BY DEF SyncInit
<1>2. SyncTypes
  BY DEF SyncInit, SyncTypes, Sending, Silent, SyncPc
<1>3. Rings
  BY <1>0, <1>1 DEF Rings
<1>4. historyKey["leader"] = 0 /\ Len(recorded) = 0 /\ Len(wire) = 0
      /\ sending.kind = "none"
  BY DEF SyncInit, End, Silent
<1>5. \A w \in End : Agrees(history[w], recorded)
  BY <1>0, <1>1 DEF Agrees
<1>6. LeaderExact /\ FollowerAgrees
  BY <1>0, <1>1, <1>4, <1>5 DEF LeaderExact, FollowerAgrees, End
<1>7. WireExact /\ SendingExact
  BY <1>4 DEF WireExact, SendingExact
<1> QED
  BY <1>2, <1>3, <1>6, <1>7 DEF SyncInv

(* A slice of the records, and a ring in step, stay so when records are    *)
(* added.                                                                  *)
LEMMA SliceGrows ==
  ASSUME NEW m \in Message, NEW all \in Seq(Record), NEW rs \in Seq(Record), Slice(m, all)
  PROVE  Slice(m, all \o rs)
<1> DEFINE l == Len(m.regions)
           st == m.start
<1>1. l \in Nat /\ st \in Nat
  BY DEF Message
<1>2. st + l <= Len(all) /\ \A k \in 1 .. l : m.regions[k] = all[st + k]
  BY DEF Slice
<1>3. /\ Len(all \o rs) = Len(all) + Len(rs)
      /\ \A j \in 1 .. Len(all) : (all \o rs)[j] = all[j]
  BY ConcatProperties
<1> HIDE DEF l, st
<1>4. ASSUME NEW k \in 1 .. l PROVE (all \o rs)[st + k] = all[st + k]
  <2>1. st + k \in 1 .. Len(all)
    BY <1>1, <1>2
  <2> QED
    BY <1>3, <2>1
<1>5. st + l <= Len(all \o rs) /\ \A k \in 1 .. l : m.regions[k] = (all \o rs)[st + k]
  BY <1>1, <1>2, <1>3, <1>4
<1> QED
  BY <1>5 DEF Slice, l, st

LEMMA AgreesGrows ==
  ASSUME NEW h, Ring(h), NEW all \in Seq(Record), NEW rs \in Seq(Record), Agrees(h, all)
  PROVE  Agrees(h, all \o rs)
<1>1. /\ Len(all \o rs) = Len(all) + Len(rs)
      /\ \A j \in 1 .. Len(all) : (all \o rs)[j] = all[j]
  BY ConcatProperties
<1>2. ASSUME NEW i \in Int, Holds(h, i)
      PROVE  i < Len(all \o rs) /\ get(h, i) = (all \o rs)[i + 1]
  <2>1. i \in Nat /\ i < Len(all) /\ get(h, i) = all[i + 1]
    BY <1>2, SlotOfHeld DEF Agrees
  <2>2. i + 1 \in 1 .. Len(all)
    BY <2>1
  <2> QED
    BY <1>1, <2>1, <2>2
<1> QED
  BY <1>2 DEF Agrees

(* What an action that leaves rings, keys and records alone has to keep. *)
LEMMA HistoriesRest ==
  ASSUME SyncInv, UNCHANGED <<history, historyKey, recorded, aligned>>
  PROVE  /\ Rings' /\ LeaderExact' /\ FollowerAgrees'
         /\ wire' = wire => WireExact'
         /\ sending' = sending => SendingExact'
  BY DEF SyncInv, Rings, LeaderExact, FollowerAgrees, WireExact, SendingExact

LEMMA HistoryPut ==
  ASSUME SyncTypes, NEW w \in End, NEW x, history' = [history EXCEPT ![w] = x]
  PROVE  /\ DOMAIN history' = End /\ history' = [v \in End |-> history'[v]]
         /\ history'[w] = x /\ \A v \in End : v # w => history'[v] = history[v]
  BY DEF SyncTypes

LEMMA RunServerInv ==
  ASSUME SyncInv, RunServer
  PROVE  SyncInv'
<1> DEFINE n == IF Len(notifier) <= syncBatch + 1 THEN Len(notifier) ELSE syncBatch + 1
           rs == SubSeq(notifier, 1, n)
           h == history["leader"]
           key == historyKey["leader"]
           after == recordAll(h, key, rs)
<1>1. SyncTypes /\ Rings /\ LeaderExact /\ FollowerAgrees /\ WireExact
  BY DEF SyncInv
<1>2. notifier \in Seq(Record) /\ recorded \in Seq(Record) /\ key \in Nat
      /\ wire \in Seq(Message)
  BY <1>1 DEF SyncTypes, End
<1>3. n \in Int /\ n <= Len(notifier)
  BY <1>2, SyncAssumption
<1>4. /\ notifier' = SubSeq(notifier, n + 1, Len(notifier))
      /\ history' = [history EXCEPT !["leader"] = after[1]]
      /\ historyKey' = [historyKey EXCEPT !["leader"] = after[2]]
      /\ recorded' = recorded \o rs
      /\ sending' = [kind |-> "send", response |-> response(h.index, rs)]
      /\ UNCHANGED <<regionOf, syncPc, wire, aligned>>
  BY DEF RunServer, linkVars, nextIndex
<1> HIDE DEF n
<1>5. rs \in Seq(Record)
  <2>1. \A i \in 1 .. n : notifier[i] \in Record
    BY <1>2, <1>3
  <2> QED
    BY <1>3, <2>1, SubSeqProperties
<1>6. notifier' \in Seq(Record)
  <2>1. n >= 0 /\ \A i \in n + 1 .. Len(notifier) : notifier[i] \in Record
    BY <1>2, SyncAssumption DEF n
  <2> QED
    BY <1>2, <1>3, <1>4, <2>1, SubSeqProperties
<1> HIDE DEF rs
<1>7. Ring(h) /\ h.index = Len(recorded) /\ key <= h.index /\ Agrees(h, recorded)
  BY <1>1 DEF Rings, LeaderExact, End
<1> HIDE DEF h, key
<1>8. After(after, h, key, rs, Len(rs))
  BY <1>2, <1>5, <1>7, RecordAll
<1> HIDE DEF after
<1>9. /\ Ring(after[1]) /\ after[1].index = h.index + Len(rs)
      /\ after[2] \in Nat /\ after[2] <= after[1].index
      /\ \A i \in Int : Holds(after[1], i) =>
           /\ i >= h.index => i < h.index + Len(rs) /\ get(after[1], i) = rs[i - h.index + 1]
           /\ i < h.index => Holds(h, i) /\ get(after[1], i) = get(h, i)
  BY <1>7, <1>8 DEF After
<1>10. /\ recorded' \in Seq(Record)
       /\ Len(recorded') = Len(recorded) + Len(rs)
       /\ \A j \in 1 .. Len(recorded) + Len(rs) : recorded'[j] =
            IF j <= Len(recorded) THEN recorded[j] ELSE rs[j - Len(recorded)]
  BY <1>2, <1>4, <1>5, ConcatProperties
<1>11. Len(recorded) \in Nat /\ Len(rs) \in Nat
  BY <1>2, <1>5
<1>12. Agrees(after[1], recorded')
  <2> SUFFICES ASSUME NEW i \in Int, Holds(after[1], i)
               PROVE  i < Len(recorded') /\ get(after[1], i) = recorded'[i + 1]
    BY DEF Agrees
  <2>1. i \in Nat
    BY <1>9, SlotOfHeld
  <2>2. CASE i >= h.index
    <3>1. i < h.index + Len(rs) /\ get(after[1], i) = rs[i - h.index + 1]
      BY <1>9, <2>2
    <3>2. i + 1 \in 1 .. Len(recorded) + Len(rs) /\ ~(i + 1 <= Len(recorded))
      BY <1>7, <1>11, <2>1, <2>2, <3>1
    <3>3. recorded'[i + 1] = rs[i + 1 - Len(recorded)]
      BY <1>10, <3>2
    <3>4. i + 1 - Len(recorded) = i - h.index + 1
      BY <1>7, <1>11, <2>1
    <3> QED
      BY <1>7, <1>10, <3>1, <3>3, <3>4
  <2>3. CASE i < h.index
    <3>1. get(after[1], i) = recorded[i + 1]
      BY <1>7, <1>9, <2>3 DEF Agrees
    <3>2. i + 1 \in 1 .. Len(recorded) + Len(rs) /\ i + 1 <= Len(recorded)
      BY <1>7, <1>11, <2>1, <2>3
    <3>3. recorded'[i + 1] = recorded[i + 1]
      BY <1>10, <3>2
    <3>4. i < Len(recorded')
      BY <1>7, <1>10, <1>11, <2>1, <2>3
    <3> QED
      BY <3>1, <3>3, <3>4
  <2> QED
    BY <1>7, <1>11, <2>1, <2>2, <2>3
<1>13. /\ DOMAIN history' = End /\ history' = [v \in End |-> history'[v]]
       /\ history'["leader"] = after[1] /\ history'["follower"] = history["follower"]
  BY <1>1, <1>4, HistoryPut DEF End
<1>14. historyKey' \in [End -> Nat] /\ historyKey'["leader"] = after[2]
  BY <1>1, <1>4, <1>9 DEF SyncTypes, End
<1> DEFINE m == response(h.index, rs)
<1>15. /\ m.start = h.index /\ m.regions = rs /\ m \in Message /\ Slice(m, recorded')
  <2>1. m.start = h.index /\ m.regions = rs /\ m \in Message
    BY <1>5, <1>7, <1>11 DEF response, Message
  <2> HIDE DEF m
  <2>2. \A k \in 1 .. Len(rs) : recorded'[h.index + k] = rs[k]
    <3> SUFFICES ASSUME NEW k \in 1 .. Len(rs) PROVE recorded'[h.index + k] = rs[k]
      OBVIOUS
    <3> DEFINE j == h.index + k
    <3>1. j \in 1 .. Len(recorded) + Len(rs) /\ ~(j <= Len(recorded)) /\ j - Len(recorded) = k
      BY <1>7, <1>11
    <3> HIDE DEF j
    <3>2. recorded'[j] = rs[j - Len(recorded)]
      BY <1>10, <3>1
    <3>3. recorded'[j] = rs[k]
      BY <3>1, <3>2
    <3> QED
      BY <3>3 DEF j
  <2> QED
    BY <1>7, <1>10, <2>1, <2>2 DEF Slice
<1> HIDE DEF m
<1>16. sending'.kind = "send" /\ sending'.response = m /\ sending' \in Sending
  <2>1. sending' = [kind |-> "send", response |-> m]
    BY <1>4 DEF m
  <2> QED
    BY <1>15, <2>1 DEF Sending
<1>17. SyncTypes'
  BY <1>1, <1>4, <1>6, <1>10, <1>13, <1>14, <1>16 DEF SyncTypes
<1>18. Rings'
  BY <1>1, <1>9, <1>13 DEF Rings, End
<1>19. LeaderExact'
  BY <1>7, <1>9, <1>10, <1>12, <1>13, <1>14 DEF LeaderExact
<1>20. FollowerAgrees'
  <2>1. Ring(history["follower"])
    BY <1>1 DEF Rings, End
  <2> QED
    BY <1>1, <1>2, <1>4, <1>5, <1>13, <2>1, AgreesGrows DEF FollowerAgrees
<1>21. WireExact'
  <2> SUFFICES ASSUME NEW k \in 1 .. Len(wire), wire[k].exact PROVE Slice(wire[k], recorded')
    BY <1>4 DEF WireExact
  <2>1. wire[k] \in Message /\ Slice(wire[k], recorded)
    BY <1>1, <1>2 DEF WireExact
  <2> QED
    BY <1>2, <1>4, <1>5, <2>1, SliceGrows
<1>22. SendingExact'
  BY <1>15, <1>16 DEF SendingExact
<1> QED
  BY <1>17, <1>18, <1>19, <1>20, <1>21, <1>22 DEF SyncInv

LEMMA ReceiveInv ==
  ASSUME SyncInv, NEW failed \in BOOLEAN, Receive(failed)
  PROVE  SyncInv'
<1> DEFINE m == Head(wire)
           rs == IF failed THEN Tail(m.regions) ELSE m.regions
           h == history["follower"]
           key == historyKey["follower"]
           g == adopted("follower", m.start)
           after == recordAll(g, key, rs)
<1>1. SyncTypes /\ Rings /\ LeaderExact /\ FollowerAgrees /\ WireExact /\ SendingExact
  BY DEF SyncInv
<1>2. wire \in Seq(Message) /\ recorded \in Seq(Record) /\ key \in Nat
  BY <1>1 DEF SyncTypes, End
<1>3. /\ wire # <<>>
      /\ failed => m.regions # <<>>
      /\ wire' = Tail(wire)
      /\ history' = [history EXCEPT !["follower"] = after[1]]
      /\ historyKey' = [historyKey EXCEPT !["follower"] = after[2]]
      /\ aligned' = (~failed /\ m.exact /\ (aligned \/ h.index # m.start))
      /\ UNCHANGED <<regionOf, notifier, sending, syncPc, recorded>>
  BY DEF Receive, linkVars, nextIndex
<1>4. /\ m = wire[1] /\ 1 \in 1 .. Len(wire) /\ m \in Message
      /\ wire' \in Seq(Message) /\ Len(wire') = Len(wire) - 1 /\ Len(wire) \in Nat
      /\ \A k \in 1 .. Len(wire') : wire'[k] = wire[k + 1]
  BY <1>2, <1>3, HeadTailProperties
<1>5. m.start \in Nat /\ m.regions \in Seq(Record) /\ m.exact \in BOOLEAN
  BY <1>4 DEF Message
<1>6. m.exact => Slice(m, recorded)
  BY <1>1, <1>4 DEF WireExact
<1> HIDE DEF m
<1>7. rs \in Seq(Record)
  <2>1. failed => Tail(m.regions) \in Seq(Record)
    BY <1>3, <1>5, HeadTailProperties
  <2> QED
    BY <1>5, <2>1
<1>8. Ring(h)
  BY <1>1 DEF Rings, End
<1>9. /\ Ring(g) /\ g.index = m.start
      /\ \A i \in Int : Holds(g, i) => Holds(h, i) /\ get(g, i) = get(h, i) /\ h.index = m.start
  <2>1. CASE h.index = m.start
    <3>1. g = h
      BY <2>1 DEF adopted, nextIndex
    <3> QED
      BY <1>8, <2>1, <3>1
  <2>2. CASE h.index # m.start
    <3>1. g = ResetWithIndex(h, m.start)
      BY <2>2 DEF adopted, nextIndex
    <3>2. /\ Ring(ResetWithIndex(h, m.start)) /\ ResetWithIndex(h, m.start).index = m.start
          /\ \A i \in Int : ~Holds(ResetWithIndex(h, m.start), i)
      BY <1>5, <1>8, ResetRing
    <3> QED
      BY <3>1, <3>2, Zenon
  <2> QED
    BY <2>1, <2>2
<1> HIDE DEF g, rs, h, key
<1>10. After(after, g, key, rs, Len(rs))
  BY <1>2, <1>7, <1>9, RecordAll
<1> HIDE DEF after
<1>11. /\ Ring(after[1]) /\ after[2] \in Nat
       /\ \A i \in Int : Holds(after[1], i) =>
            /\ i >= m.start => i < m.start + Len(rs) /\ get(after[1], i) = rs[i - m.start + 1]
            /\ i < m.start => Holds(g, i) /\ get(after[1], i) = get(g, i)
  BY <1>9, <1>10 DEF After
<1>12. /\ DOMAIN history' = End /\ history' = [v \in End |-> history'[v]]
       /\ history'["follower"] = after[1] /\ history'["leader"] = history["leader"]
  BY <1>1, <1>3, HistoryPut DEF End
<1>13. historyKey' \in [End -> Nat] /\ historyKey'["leader"] = historyKey["leader"]
  BY <1>1, <1>3, <1>11 DEF SyncTypes, End
<1>14. SyncTypes'
  BY <1>1, <1>3, <1>4, <1>12, <1>13 DEF SyncTypes
<1>15. Rings'
  BY <1>1, <1>11, <1>12 DEF Rings, End
<1>16. LeaderExact'
  BY <1>1, <1>3, <1>12, <1>13 DEF LeaderExact
<1>17. FollowerAgrees'
  <2> SUFFICES ASSUME aligned', NEW i \in Int, Holds(after[1], i)
               PROVE  i < Len(recorded) /\ get(after[1], i) = recorded[i + 1]
    BY <1>3, <1>12 DEF FollowerAgrees, Agrees
  <2>1. ~failed /\ m.exact /\ (aligned \/ h.index # m.start)
    BY <1>3, Zenon
  <2>2. rs = m.regions
    BY <2>1 DEF rs
  <2>3. /\ m.start + Len(rs) <= Len(recorded)
        /\ \A k \in 1 .. Len(rs) : rs[k] = recorded[m.start + k]
    BY <1>6, <2>1, <2>2 DEF Slice
  <2>4. Len(rs) \in Nat /\ Len(recorded) \in Nat
    BY <1>2, <1>7
  <2>5. CASE i >= m.start
    <3>1. i < m.start + Len(rs) /\ get(after[1], i) = rs[i - m.start + 1]
      BY <1>11, <2>5
    <3>2. i - m.start + 1 \in 1 .. Len(rs) /\ m.start + (i - m.start + 1) = i + 1
      BY <1>5, <2>4, <2>5, <3>1
    <3>3. rs[i - m.start + 1] = recorded[m.start + (i - m.start + 1)]
      BY <2>3, <3>2
    <3>4. i < Len(recorded)
      BY <1>5, <2>3, <2>4, <3>1
    <3> QED
      BY <3>1, <3>2, <3>3, <3>4
  <2>6. CASE i < m.start
    <3>1. /\ Holds(h, i) /\ get(after[1], i) = get(h, i) /\ h.index = m.start
      BY <1>9, <1>11, <2>6
    <3>2. Agrees(h, recorded)
      BY <1>1, <2>1, <3>1 DEF FollowerAgrees, h
    <3> QED
      BY <3>1, <3>2 DEF Agrees
  <2> QED
    BY <1>5, <2>5, <2>6
<1>18. WireExact'
  <2> SUFFICES ASSUME NEW k \in 1 .. Len(wire'), wire'[k].exact
               PROVE  Slice(wire'[k], recorded)
    BY <1>3 DEF WireExact
  <2>1. k + 1 \in 1 .. Len(wire) /\ wire'[k] = wire[k + 1]
    BY <1>4
  <2> QED
    BY <1>1, <2>1 DEF WireExact
<1>19. SendingExact'
  BY <1>1, <1>3 DEF SendingExact
<1> QED
  BY <1>14, <1>15, <1>16, <1>17, <1>18, <1>19 DEF SyncInv

(***************************************************************************)
(* What Sync sends first.                                                  *)
(***************************************************************************)
LEMMA UnlikeTypes ==
  ASSUME NEW m \in Message
  PROVE  unlike(m) \in Message /\ ~unlike(m).exact
  BY DEF unlike, Message

LEMMA FullTypes ==
  ASSUME NEW all \in Seq(Record)
  PROVE  LET f == fullSynchronization(all)
         IN f \in Seq(Message) /\ \A k \in 1 .. Len(f) : ~f[k].exact
<1> DEFINE n == (Len(all) + syncBatch - 1) \div syncBatch
           b(k) == SubSeq(all, (k - 1) * syncBatch + 1,
                          IF k * syncBatch < Len(all) THEN k * syncBatch ELSE Len(all))
           e(k) == unlike(response((k - 1) * syncBatch, b(k)))
           f == fullSynchronization(all)
<1>0. Len(all) \in Nat /\ syncBatch \in Nat \ {0}
  BY SyncAssumption
<1>1. n \in Nat
  <2> HIDE DEF n
  <2>1. Len(all) + syncBatch - 1 \in Nat
    BY <1>0
  <2> QED
    BY <1>0, <2>1 DEF n
<1>2. f = [k \in 1 .. n |-> e(k)]
  BY DEF fullSynchronization
<1> HIDE DEF n, f
<1>3. ASSUME NEW k \in 1 .. n
      PROVE  e(k) \in Message /\ ~e(k).exact
  <2>1. (k - 1) * syncBatch \in Nat
    <3>1. k - 1 \in Nat
      BY <1>1
    <3> QED
      BY <1>0, <3>1
  <2>2. k * syncBatch \in Nat
    BY <1>0, <1>1
  <2> DEFINE from == (k - 1) * syncBatch
             to == IF k * syncBatch < Len(all) THEN k * syncBatch ELSE Len(all)
  <2>3. from \in Nat /\ to \in Nat /\ to <= Len(all)
    BY <1>0, <2>1, <2>2
  <2>4. b(k) = SubSeq(all, from + 1, to)
    OBVIOUS
  <2> HIDE DEF from, to
  <2>5. \A i \in from + 1 .. to : all[i] \in Record
    BY <1>0, <2>3
  <2>6. SubSeq(all, from + 1, to) \in Seq(Record)
    <3>1. from + 1 \in Int /\ to \in Int
      BY <2>3
    <3> QED
      BY <2>5, <3>1, SubSeqProperties
  <2>7. b(k) \in Seq(Record)
    BY <2>4, <2>6
  <2> HIDE DEF b
  <2>8. response(from, b(k)) \in Message
    BY <2>3, <2>7 DEF Message, response
  <2>9. e(k) = unlike(response(from, b(k)))
    BY Zenon DEF from
  <2> HIDE DEF e
  <2> QED
    BY <2>8, <2>9, UnlikeTypes
<1> HIDE DEF e
<1>4. DOMAIN f = 1 .. n /\ \A k \in 1 .. n : f[k] = e(k)
  BY <1>2
<1>5. f \in [1 .. n -> Message]
  BY <1>2, <1>3
<1>6. f \in Seq(Message) /\ Len(f) = n
  BY <1>1, <1>5
<1> QED
  BY <1>3, <1>4, <1>6 DEF f

LEMMA MetaRegionsTypes ==
  ASSUME SyncTypes, NEW all \in GetMetaRegions
  PROVE  all \in Seq(Record)
<1> DEFINE R == {r \in RegionID : regionOf[r] > 0}
           S == {[id |-> r, version |-> regionOf[r]] : r \in R}
<1>1. IsFiniteSet(R)
  BY SyncAssumption, FS_Subset
<1>2. S \subseteq Record
  BY DEF SyncTypes, Record
<1>3. IsFiniteSet(S)
  <2> DEFINE f == [r \in R |-> [id |-> r, version |-> regionOf[r]]]
  <2> HIDE DEF R
  <2>1. f \in Surjection(R, S)
    BY DEF Surjection
  <2> QED
    BY <1>1, <2>1, FS_Surjection
<1>4. Cardinality(S) \in Nat
  BY <1>3, FS_CardinalityType
<1> HIDE DEF S
<1>5. all \in [1 .. Cardinality(S) -> S]
  BY DEF GetMetaRegions, SetToSeqs, S
<1> QED
  BY <1>2, <1>4, <1>5

(* RecordsFrom of the leader's ring is a slice of its records. *)
LEMMA RecordsFromSlice ==
  ASSUME NEW h, Ring(h), NEW all \in Seq(Record), h.index = Len(all), Agrees(h, all),
         NEW st \in Nat
  PROVE  response(st, RecordsFrom(h, st)) \in Message
         /\ (RecordsFrom(h, st) # <<>> => Slice(response(st, RecordsFrom(h, st)), all))
<1> DEFINE rs == RecordsFrom(h, st)
           l == h.index - st
<1>1. CASE ~Holds(h, st)
  <2>1. rs = <<>>
    BY <1>1 DEF RecordsFrom
  <2> QED
    BY <2>1 DEF response, Message
<1>2. CASE Holds(h, st)
  <2>1. Len(all) \in Nat /\ st < Len(all) /\ l \in Nat /\ l <= historySize
    BY <1>2, SlotOfHeld, SyncAssumption DEF Agrees
  <2>2. rs = [k \in 1 .. l |-> get(h, st + k - 1)]
    BY <1>2 DEF RecordsFrom, nextIndex
  <2>3. ASSUME NEW k \in 1 .. l
        PROVE  get(h, st + k - 1) = all[st + k] /\ all[st + k] \in Record
    <3> DEFINE i == st + k - 1
    <3>0. i \in Int /\ i + 1 = st + k /\ st <= i /\ i < h.index
      BY <2>1
    <3>1. Holds(h, i)
      <4>1. h.since <= st /\ h.since \in Nat
        BY <1>2, SlotOfHeld, BufferFields DEF Ring
      <4> HIDE DEF i
      <4>2. h.since <= i
        BY <3>0, <4>1
      <4>3. h.index - i <= historySize
        BY <2>1, <3>0, SyncAssumption
      <4> QED
        BY <3>0, <4>2, <4>3, HeldIndexes
    <3> HIDE DEF i
    <3>2. get(h, i) = all[i + 1]
      BY <3>0, <3>1 DEF Agrees
    <3>3. i + 1 \in 1 .. Len(all)
      BY <2>1, <3>0
    <3>4. get(h, i) = all[st + k] /\ all[st + k] \in Record
      BY <3>0, <3>2, <3>3
    <3> QED
      BY <3>4 DEF i
  <2> HIDE DEF rs
  <2>4. rs \in [1 .. l -> Record] /\ \A k \in 1 .. l : rs[k] = all[st + k]
    BY <2>2, <2>3
  <2>5. rs \in Seq(Record) /\ Len(rs) = l
    BY <2>1, <2>4
  <2> DEFINE m == response(st, rs)
  <2>6. m \in Message /\ m.start = st /\ m.regions = rs
    BY <2>5 DEF Message, response
  <2> HIDE DEF m
  <2>7. Slice(m, all)
    BY <2>1, <2>4, <2>5, <2>6 DEF Slice
  <2> QED
    BY <2>6, <2>7 DEF m, rs
<1> QED
  BY <1>1, <1>2

LEMMA SyncHistoryExact ==
  ASSUME SyncInv, NEW st \in Nat, NEW first \in syncHistoryRegion(st)
  PROVE  /\ first \in Seq(Message)
         /\ \A k \in 1 .. Len(first) : first[k].exact => Slice(first[k], recorded)
<1> DEFINE h == history["leader"]
           rs == RecordsFrom(h, st)
<1>1. Ring(h) /\ recorded \in Seq(Record) /\ h.index = Len(recorded) /\ Agrees(h, recorded)
  BY DEF SyncInv, Rings, LeaderExact, SyncTypes, End
<1>2. response(st, rs) \in Message /\ (rs # <<>> => Slice(response(st, rs), recorded))
  BY <1>1, RecordsFromSlice
<1>3. CASE rs # <<>>
  <2>1. first = <<response(st, rs)>>
    BY <1>3 DEF syncHistoryRegion
  <2>2. Len(first) = 1 /\ first[1] = response(st, rs) /\ first \in Seq(Message)
    BY <1>2, <2>1
  <2> QED
    BY <1>2, <1>3, <2>2
<1>4. CASE rs = <<>> /\ nextIndex(h) # st /\ st = 0
  <2>1. PICK all \in GetMetaRegions : first = fullSynchronization(all)
    BY <1>4 DEF syncHistoryRegion
  <2>2. all \in Seq(Record)
    BY <2>1, MetaRegionsTypes DEF SyncInv
  <2> QED
    BY <2>1, <2>2, FullTypes
<1>5. CASE rs = <<>> /\ ~(nextIndex(h) # st /\ st = 0)
  <2>1. first = <<>>
    BY <1>5 DEF syncHistoryRegion
  <2> QED
    BY <2>1
<1> QED
  BY <1>3, <1>4, <1>5

LEMMA SyncStreamInv ==
  ASSUME SyncInv, NEW s \in Stream, Sync(s)
  PROVE  SyncInv'
<1> DEFINE st == syncPc[s].start
<1>1. SyncTypes /\ WireExact /\ wire \in Seq(Message) /\ st \in Nat
  BY DEF SyncInv, SyncTypes, SyncPc
<1>2. UNCHANGED <<regionOf, notifier, history, historyKey, sending, recorded, aligned>>
  BY DEF Sync
<1>3. Rings' /\ LeaderExact' /\ FollowerAgrees' /\ SendingExact'
  BY <1>2, HistoriesRest
<1>4. PICK first \in syncHistoryRegion(st) :
        wire' = IF s = conn /\ s \in alive THEN wire \o first ELSE wire
  BY DEF Sync
<1>5. syncPc' \in [Stream -> SyncPc]
  <2>1. PICK b \in {"bind", "returned"} : syncPc' = [syncPc EXCEPT ![s].pc = b]
    BY DEF Sync
  <2> QED
    BY <1>1, <2>1 DEF SyncTypes, SyncPc
<1>6. /\ first \in Seq(Message)
      /\ \A k \in 1 .. Len(first) : first[k].exact => Slice(first[k], recorded)
  BY <1>1, <1>4, SyncHistoryExact
<1> HIDE DEF st
<1>7. wire' \in Seq(Message) /\ WireExact'
  <2>1. CASE wire' = wire
    BY <1>1, <1>2, <2>1, HistoriesRest
  <2>2. CASE wire' = wire \o first
    <3>1. /\ wire' \in Seq(Message) /\ Len(wire') = Len(wire) + Len(first)
          /\ \A i \in 1 .. Len(wire) + Len(first) : wire'[i] =
               IF i <= Len(wire) THEN wire[i] ELSE first[i - Len(wire)]
      BY <1>1, <1>6, <2>2, ConcatProperties
    <3>2. Len(wire) \in Nat /\ Len(first) \in Nat
      BY <1>1, <1>6
    <3>3. ASSUME NEW k \in 1 .. Len(wire'), wire'[k].exact
          PROVE  Slice(wire'[k], recorded)
      <4>1. CASE k <= Len(wire)
        BY <1>1, <3>1, <3>2, <3>3, <4>1 DEF WireExact
      <4>2. CASE ~(k <= Len(wire))
        <5> DEFINE j == k - Len(wire)
        <5>1. j \in 1 .. Len(first) /\ wire'[k] = first[j]
          BY <3>1, <3>2, <4>2
        <5> HIDE DEF j
        <5> QED
          BY <1>6, <3>3, <5>1
      <4> QED
        BY <4>1, <4>2
    <3> QED
      BY <1>2, <3>1, <3>3 DEF WireExact
  <2> QED
    BY <1>4, <2>1, <2>2
<1>8. SyncTypes'
  BY <1>1, <1>2, <1>5, <1>7 DEF SyncTypes
<1> QED
  BY <1>3, <1>7, <1>8 DEF SyncInv

LEMMA LeaderRestartsInv ==
  ASSUME SyncInv, LeaderRestarts
  PROVE  SyncInv'
<1> DEFINE key == historyKey["leader"]
<1>1. SyncTypes /\ Rings /\ LeaderExact /\ key \in Nat /\ recorded \in Seq(Record)
      /\ wire \in Seq(Message)
  BY DEF SyncInv, SyncTypes, End
<1>2. /\ history' = [history EXCEPT !["leader"] = newHistoryBuffer(key)]
      /\ recorded' = SubSeq(recorded, 1, key)
      /\ notifier' = <<>> /\ sending' = Silent
      /\ wire' = [k \in DOMAIN wire |-> unlike(wire[k])]
      /\ aligned' = FALSE
      /\ UNCHANGED <<regionOf, historyKey>>
  BY DEF LeaderRestarts, reloadIndex
<1>3. key <= Len(recorded)
  BY <1>1 DEF LeaderExact
<1>4. syncPc' \in [Stream -> SyncPc]
  <2>1. \A s \in Stream : /\ syncPc[s] \in SyncPc
                          /\ [syncPc[s] EXCEPT !.pc = "returned"] \in SyncPc
    BY <1>1 DEF SyncTypes, SyncPc
  <2> QED
    BY <2>1 DEF LeaderRestarts
<1> HIDE DEF key
<1>5. recorded' \in Seq(Record) /\ Len(recorded') = key
  <2>1. \A i \in 1 .. key : recorded[i] \in Record
    BY <1>1, <1>3
  <2>2. /\ SubSeq(recorded, 1, key) \in Seq(Record)
        /\ Len(SubSeq(recorded, 1, key)) = IF 1 <= key THEN key - 1 + 1 ELSE 0
    BY <1>1, <2>1, SubSeqProperties
  <2> QED
    BY <1>1, <1>2, <2>2
<1>6. /\ Ring(newHistoryBuffer(key)) /\ newHistoryBuffer(key).index = key
      /\ \A i \in Int : ~Holds(newHistoryBuffer(key), i)
  BY <1>1, EmptyRing
<1>7. /\ DOMAIN history' = End /\ history' = [v \in End |-> history'[v]]
      /\ history'["leader"] = newHistoryBuffer(key)
      /\ history'["follower"] = history["follower"]
  BY <1>1, <1>2, HistoryPut DEF End
<1>8. /\ wire' \in Seq(Message) /\ Len(wire') = Len(wire)
      /\ \A k \in 1 .. Len(wire) : ~wire'[k].exact
  <2>1. DOMAIN wire = 1 .. Len(wire) /\ Len(wire) \in Nat
        /\ \A k \in 1 .. Len(wire) : wire[k] \in Message
    BY <1>1
  <2>2. \A k \in 1 .. Len(wire) : unlike(wire[k]) \in Message /\ ~unlike(wire[k]).exact
    BY <2>1, UnlikeTypes
  <2>3. wire' \in [1 .. Len(wire) -> Message] /\ \A k \in 1 .. Len(wire) : wire'[k] = unlike(wire[k])
    BY <1>2, <2>1, <2>2
  <2> QED
    BY <2>1, <2>2, <2>3
<1>9. SyncTypes'
  <2>1. sending' \in Sending
    BY <1>2 DEF Sending
  <2> QED
    BY <1>1, <1>2, <1>4, <1>5, <1>7, <1>8, <2>1 DEF SyncTypes
<1>10. Rings'
  BY <1>1, <1>6, <1>7 DEF Rings, End
<1>11. LeaderExact'
  <2>1. Agrees(newHistoryBuffer(key), recorded')
    BY <1>6 DEF Agrees
  <2>2. historyKey'["leader"] = key
    BY <1>2 DEF key
  <2> QED
    BY <1>1, <1>5, <1>6, <1>7, <2>1, <2>2 DEF LeaderExact
<1>12. FollowerAgrees'
  BY <1>2 DEF FollowerAgrees
<1>13. WireExact'
  BY <1>8 DEF WireExact
<1>14. SendingExact'
  BY <1>2 DEF SendingExact, Silent
<1> QED
  BY <1>9, <1>10, <1>11, <1>12, <1>13, <1>14 DEF SyncInv

LEMMA SyncStep ==
  ASSUME SyncInv, [SyncNext]_syncVars
  PROVE  SyncInv'
<1> USE DEF linkVars
<1>1. SyncTypes /\ WireExact /\ SendingExact
  BY DEF SyncInv
<1>2. CASE UNCHANGED syncVars
  <2>1. UNCHANGED <<history, historyKey, recorded, aligned, wire, sending, regionOf, notifier,
                    syncPc>>
    BY <1>2 DEF syncVars
  <2> QED
    BY <1>1, <2>1, HistoriesRest DEF SyncInv, SyncTypes
<1>3. ASSUME NEW r \in RegionID, RegionChanges(r) PROVE SyncInv'
  <2>1. UNCHANGED <<history, historyKey, recorded, aligned, wire, sending, syncPc>>
    BY <1>3 DEF RegionChanges
  <2>2. regionOf' \in [RegionID -> Nat]
    BY <1>1, <1>3 DEF RegionChanges, SyncTypes
  <2>3. notifier' \in Seq(Record)
    <3>1. [id |-> r, version |-> regionOf[r] + 1] \in Record
      BY <1>1 DEF SyncTypes, Record
    <3> QED
      BY <1>1, <1>3, <3>1 DEF RegionChanges, SyncTypes
  <2> QED
    BY <1>1, <2>1, <2>2, <2>3, HistoriesRest DEF SyncInv, SyncTypes
<1>4. CASE RunServer
  BY <1>4, RunServerInv
<1>5. CASE KeepAlive
  <2> DEFINE m == response(history["leader"].index, <<>>)
  <2>1. UNCHANGED <<history, historyKey, recorded, aligned, wire, regionOf, notifier, syncPc>>
        /\ sending' = [kind |-> "send", response |-> m]
    BY <1>5 DEF KeepAlive, nextIndex
  <2>2. history["leader"].index = Len(recorded) /\ Len(recorded) \in Nat
    BY <1>1 DEF SyncInv, LeaderExact, SyncTypes
  <2>3. m \in Message /\ m.start = Len(recorded) /\ m.regions = <<>>
    BY <2>2 DEF response, Message
  <2> HIDE DEF m
  <2>4. sending' \in Sending /\ sending'.response = m
    BY <2>1, <2>3 DEF Sending
  <2>5. Slice(m, recorded')
    BY <2>1, <2>2, <2>3 DEF Slice
  <2>6. SyncTypes' /\ SendingExact'
    BY <1>1, <2>1, <2>4, <2>5 DEF SyncTypes, SendingExact
  <2> QED
    BY <2>1, <2>6, HistoriesRest DEF SyncInv
<1>6. CASE broadcast
  <2>1. UNCHANGED <<history, historyKey, recorded, aligned, regionOf, notifier, syncPc>>
        /\ sending' \in {[kind |-> "failed"], Silent}
        /\ (wire' = wire \/ wire' = Append(wire, sending.response))
        /\ sending.kind = "send"
    BY <1>6 DEF broadcast
  <2>2. sending.response \in Message /\ wire \in Seq(Message)
    BY <1>1, <2>1 DEF SyncTypes, Sending, Silent
  <2>3. wire' \in Seq(Message)
    BY <2>1, <2>2
  <2>4. SyncTypes' /\ SendingExact'
    BY <1>1, <2>1, <2>3 DEF SyncTypes, SendingExact, Sending, Silent
  <2>5. WireExact'
    <3>1. CASE wire' = wire
      BY <2>1, <3>1, HistoriesRest
    <3>2. CASE wire' = Append(wire, sending.response)
      <4>1. /\ Len(wire') = Len(wire) + 1 /\ wire'[Len(wire) + 1] = sending.response
            /\ \A k \in 1 .. Len(wire) : wire'[k] = wire[k]
            /\ Len(wire) \in Nat
        BY <2>2, <3>2
      <4>2. ASSUME NEW k \in 1 .. Len(wire'), wire'[k].exact
            PROVE  Slice(wire'[k], recorded)
        <5>1. CASE k = Len(wire) + 1
          BY <1>1, <2>1, <4>1, <4>2, <5>1 DEF SendingExact
        <5>2. CASE k # Len(wire) + 1
          BY <1>1, <4>1, <4>2, <5>2 DEF WireExact
        <5> QED
          BY <5>1, <5>2
      <4> QED
        BY <2>1, <4>2 DEF WireExact
    <3> QED
      BY <2>1, <3>1, <3>2
  <2> QED
    BY <2>1, <2>4, <2>5, HistoriesRest DEF SyncInv
<1>7. CASE deleteFailed
  <2>1. UNCHANGED <<history, historyKey, recorded, aligned, regionOf, notifier, syncPc, wire>>
        /\ sending' = Silent
    BY <1>7 DEF deleteFailed
  <2>2. SyncTypes' /\ SendingExact'
    BY <1>1, <2>1 DEF SyncTypes, SendingExact, Sending, Silent
  <2> QED
    BY <2>1, <2>2, HistoriesRest DEF SyncInv
<1>8. ASSUME NEW s \in Stream, bindStream(s) PROVE SyncInv'
  <2>1. UNCHANGED <<history, historyKey, recorded, aligned, regionOf, notifier, wire, sending>>
        /\ syncPc' = [syncPc EXCEPT ![s].pc = "bound"]
    BY <1>8 DEF bindStream
  <2>2. SyncTypes'
    BY <1>1, <2>1 DEF SyncTypes, SyncPc
  <2> QED
    BY <2>1, <2>2, HistoriesRest DEF SyncInv
<1>9. ASSUME NEW s \in Stream, establish(s) PROVE SyncInv'
  <2>1. UNCHANGED <<history, historyKey, recorded, aligned, regionOf, notifier, sending>>
        /\ wire' = <<>>
        /\ syncPc' = [syncPc EXCEPT ![s] = [pc |-> "request",
                                           start |-> history["follower"].index]]
    BY <1>9 DEF establish, nextIndex
  <2>2. history["follower"].index \in Nat
    BY BufferFields DEF SyncInv, Rings, Ring, End
  <2>3. SyncTypes'
    BY <1>1, <2>1, <2>2 DEF SyncTypes, SyncPc
  <2>4. WireExact'
    BY <2>1 DEF WireExact
  <2> QED
    BY <2>1, <2>3, <2>4, HistoriesRest DEF SyncInv
<1>10. CASE RecvError
  <2>1. UNCHANGED <<history, historyKey, recorded, aligned, regionOf, notifier, sending, syncPc>>
        /\ wire' = <<>>
    BY <1>10 DEF RecvError
  <2>2. SyncTypes' /\ WireExact'
    BY <1>1, <2>1 DEF SyncTypes, WireExact
  <2> QED
    BY <2>1, <2>2, HistoriesRest DEF SyncInv
<1>11. CASE StreamBreaks
  <2>1. UNCHANGED <<history, historyKey, recorded, aligned, regionOf, notifier, sending, syncPc,
                    wire>>
    BY <1>11 DEF StreamBreaks
  <2>2. SyncTypes'
    BY <1>1, <2>1 DEF SyncTypes
  <2> QED
    BY <2>1, <2>2, HistoriesRest DEF SyncInv
<1>12. CASE FollowerRestarts
  <2> DEFINE key == historyKey["follower"]
  <2>1. UNCHANGED <<historyKey, recorded, aligned, regionOf, notifier, sending, syncPc>>
        /\ wire' = <<>>
        /\ history' = [history EXCEPT !["follower"] = newHistoryBuffer(key)]
    BY <1>12 DEF FollowerRestarts, reloadIndex
  <2>2. key \in Nat
    BY <1>1 DEF SyncTypes, End
  <2> HIDE DEF key
  <2>3. /\ Ring(newHistoryBuffer(key))
        /\ \A i \in Int : ~Holds(newHistoryBuffer(key), i)
    BY <2>2, EmptyRing
  <2>4. /\ DOMAIN history' = End /\ history' = [v \in End |-> history'[v]]
        /\ history'["follower"] = newHistoryBuffer(key)
        /\ history'["leader"] = history["leader"]
    BY <1>1, <2>1, HistoryPut DEF End
  <2>5. SyncTypes' /\ WireExact' /\ SendingExact'
    BY <1>1, <2>1, <2>4 DEF SyncTypes, WireExact, SendingExact
  <2>6. Rings' /\ LeaderExact' /\ FollowerAgrees'
    BY <2>1, <2>3, <2>4 DEF SyncInv, Rings, LeaderExact, FollowerAgrees, Agrees, End
  <2> QED
    BY <2>5, <2>6 DEF SyncInv
<1> QED
  BY <1>2, <1>3, <1>4, <1>5, <1>6, <1>7, <1>8, <1>9, <1>10, <1>11, <1>12, SyncStreamInv,
     ReceiveInv, LeaderRestartsInv DEF SyncNext

LEMMA SyncInvariant == SyncSpec => []SyncInv
<1>1. SyncInit => SyncInv
  BY SyncInitInv
<1>2. SyncInv /\ [SyncNext]_syncVars => SyncInv'
  BY SyncStep
<1> QED
  BY <1>1, <1>2, PTL DEF SyncSpec

(* Wherever head and tail of the leader's ring have wrapped to and         *)
(* whatever a restart took back, the record the ring gives out for an      *)
(* index is the one recorded under it (Record, get and reload of           *)
(* historyBuffer).                                                         *)
THEOREM HistoryStaysExact == SyncSpec => []HistoryExact
  BY SyncInvariant, SyncInvExact, PTL

(* A follower in step holds under every index the leader's record of that  *)
(* index, across broken streams, records missed between Sync's answer and  *)
(* bindStream, and its own restarts (StartSyncWithLeader).                 *)
THEOREM HistoriesStayAgreed == SyncSpec => []HistoriesAgree
  BY SyncInvariant, SyncInvAgree, PTL
=============================================================================
