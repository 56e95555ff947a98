------------------------------- MODULE Adjacent -------------------------------
(***************************************************************************)
(* What moves regions for the sake of their neighbours and keeps a memory  *)
(* between calls: the adjacent-region scheduler                            *)
(* (server/schedulers/adjacent_region.go) and the region scatterer         *)
(* (server/schedule/region_scatterer.go).                                  *)
(*                                                                         *)
(* The memory of the former is [lastKey, regions, head, assigned]: the     *)
(* cached run of adjacent regions as they were when it was scanned.        *)
(***************************************************************************)
EXTENDS HotRegions

NoAdjacent == [lastKey |-> 0, regions |-> <<>>, head |-> 1, assigned |-> {}]

Low(o) == [o EXCEPT !.level = 0]

(* GetDiffFollowers. *)
GetDiffFollowers(before, after) == GetFollowers(before) \ GetFollowers(after)

adjacentFilter(c) == StoreStateFilter(c, TRUE, TRUE)

unsafeToBalance(c, region) ==
  \/ Cardinality(DOMAIN region.peers) # c.maxReplicas
  \/ region.leader \notin c.own
  \/ FilterSource(region.leader, {adjacentFilter(c)})
  \/ region.id \in c.hot

disperseLeader(c, before, after) ==
  IF OperatorCount(c, {"adjacent", "leader"}) >= c.adjacentLeaderLimit THEN nil
  ELSE {IF t = NoStore THEN <<>>
        ELSE <<Low(CreateTransferLeaderOperator("balance-adjacent-leader", before,
                                                before.leader, t, {"adjacent"}))>> :
          t \in RandomSelectTarget(GetDiffFollowers(before, after) \cap c.own, {adjacentFilter(c)})}

(* The leader's peer goes to a store that this run has not used yet. *)
dispersePeer(c, region, mem) ==
  LET filters == {adjacentFilter(c), NewExcludedFilter({}, DOMAIN region.peers \cup mem.assigned),
                  NewDistinctScoreFilter(c, DOMAIN region.peers, region.leader)}
  IN  IF OperatorCount(c, {"adjacent", "region"}) >= c.adjacentPeerLimit THEN {skip(mem)}
      ELSE UNION {IF t = NoStore THEN {skip(mem)}
                  ELSE {[ops |-> [i \in DOMAIN o |-> Low(o[i])],
                         mem |-> [mem EXCEPT !.assigned = @ \cup {t}]] :
                          o \in single(CreateMovePeerOperator("balance-adjacent-peer", c, region,
                                                  {"adjacent"}, region.leader, t, t))} :
                    t \in RandomSelectTarget(GetStores(c), filters)}

(* The first two regions of the cached run.  Without an operator the       *)
(* assigned stores are forgotten.                                          *)
process(c, mem) ==
  LET r1   == mem.regions[mem.head]
      r2   == mem.regions[mem.head + 1]
      next(m) == [m EXCEPT !.head = @ + 1, !.lastKey = r2.start]
      lead == disperseLeader(c, r1, r2)
  IN  IF Len(mem.regions) - mem.head + 1 < 2 THEN {skip(mem)}
      ELSE IF NoStore \in {r1.leader, r2.leader} \/ unsafeToBalance(c, r1) THEN {skip(next(mem))}
      ELSE {[ops |-> o, mem |-> next(mem)] : o \in lead \ nil}
           \cup (IF nil \subseteq lead
                 THEN {[o EXCEPT !.mem = next(IF o.ops = <<>> THEN [@ EXCEPT !.assigned = {}] ELSE @)] :
                         o \in dispersePeer(c, r1, mem)}
                 ELSE {})

(* The longest run of adjacent regions led by one store.  A run that is    *)
(* not longer than the cached one is not given up.                         *)
longestRun(scanned) ==
  LET visit(a, i) ==
        LET r    == scanned[i]
            join == Last(a.run).leader = r.leader /\ Last(a.run).end = r.start
            run  == IF join THEN Append(a.run, r) ELSE a.run
        IN  IF join /\ i # Len(scanned) THEN [a EXCEPT !.run = run]
            ELSE IF Len(run) = 1 THEN [a EXCEPT !.run = <<r>>]
            ELSE IF Len(a.cached) < Len(run) THEN [run |-> <<r>>, cached |-> run]
            ELSE [a EXCEPT !.run = run]
  IN  FoldLeft(visit, [run |-> <<scanned[1]>>, cached |-> <<>>],
               [i \in 1 .. Len(scanned) - 1 |-> i + 1]).cached

AdjacentRegionSchedule(c, mem) ==
  LET ids     == ScanRegions(whole(c), mem.lastKey)
      scanned == [i \in DOMAIN ids |-> c.all[ids[i]]]
  IN  IF Len(mem.regions) - mem.head + 1 >= 2 THEN process(c, mem)
      ELSE IF Len(scanned) <= 1 THEN {skip(NoAdjacent)}
      ELSE process(c, [NoAdjacent EXCEPT !.regions = longestRun(scanned),
                                         !.lastKey = Last(scanned).start])

-----------------------------------------------------------------------------
(* The region scatterer: selected are the stores that recent regions were  *)
(* scattered to.                                                           *)

collectAvailableStores(c, region, selected) ==
  {s \in DOMAIN c.stores :
     /\ ~c.stores[s].busy
     /\ ~FilterTarget(s, {NewExcludedFilter({}, selected), NewExcludedFilter({}, DOMAIN region.peers),
                          NewNamespaceFilter(c, region.namespace), StoreStateFilter(c, FALSE, FALSE)})}

selectPeerToReplace(c, stores, region, old) ==
  {s \in stores : ~FilterTarget(s, {NewDistinctScoreFilter(c, DOMAIN region.peers, old)})}

(* For every peer: keep it if its store was not selected lately, else      *)
(* replace it if there is a store for it.                                  *)
scatterRegion(c, region, selected) ==
  LET place(a, old) ==
        LET fresh == a.stores = {}
            sel   == IF fresh THEN {} ELSE a.selected
            avail == IF fresh THEN collectAvailableStores(c, region, {}) ELSE a.stores
            keep(s) == [stores |-> avail \ {old}, selected |-> s, moves |-> [a.moves EXCEPT ![old] = old]]
            new   == selectPeerToReplace(c, avail, region, old)
        IN  IF old \notin sel THEN {keep(sel \cup {old})}
            ELSE IF new = {} THEN {[keep(sel) EXCEPT !.stores = avail]}
            ELSE {[stores |-> avail \ {n}, selected |-> sel \cup {n},
                   moves |-> [a.moves EXCEPT ![old] = n]] : n \in new}
      first == [stores |-> collectAvailableStores(c, region, selected), selected |-> selected,
                moves |-> [s \in DOMAIN region.peers |-> s]]
      last(order) == FoldLeft(LAMBDA as, s : UNION {place(a, s) : a \in as}, {first}, order)
  IN  UNION {UNION {{[ops |-> o, mem |-> a.selected] :
                       o \in raised(single(CreateScatterRegionOperator("scatter-region", c, region,
                                      a.moves, [s \in DOMAIN c.stores |-> s])))} :
                      a \in last(order)} :
               order \in SetToSeqs(DOMAIN region.peers)}

Scatter(c, region, selected) ==
  IF \/ region.id \in c.hot
     \/ Cardinality(DOMAIN region.peers) # c.maxReplicas
     \/ region.leader = NoStore
  THEN {[ops |-> <<>>, mem |-> selected]}
  ELSE scatterRegion(c, region, selected)
=============================================================================
