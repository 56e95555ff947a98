------------------------------ MODULE UserRules ------------------------------
(***************************************************************************)
(* The rules of the user configuration (plugin/): a rule asks for the      *)
(* leaders, or for all peers, of the regions of a key range to be on given *)
(* stores during an interval.  plugin/user_config.go loads the rules,      *)
(* plugin/read_user_config.go turns them into schedulers, and PD's own     *)
(* schedulers leave the regions of a rule alone through                    *)
(* plugin/filters.go and server/schedule/structure.go.                     *)
(*                                                                         *)
(* A rule is [type, start, end, stores, begin, stop]: stores is the        *)
(* sequence of the label sets it names, each given by the stores that      *)
(* carry those labels.  The cluster record has in plugins the function     *)
(* PluginsMap from the names of the rules, <<type, number>>, to the rules, *)
(* and in now the time.                                                    *)
(***************************************************************************)
EXTENDS Filters

Inf == 9                       \* the empty end key; 0 is the empty start key

-----------------------------------------------------------------------------
(* Regions by their keys (server/core/region.go, region_tree.go). *)

byStart(c, rs) == SetToSortSeq(rs, LAMBDA a, b : c.regions[a].start < c.regions[b].start)

ScanRegions(c, key) == byStart(c, {r \in live(c) : c.regions[r].start >= key})

(* The scan stops at the first region that reaches the end key. *)
ScanRangeWithEndKey(c, start, end) ==
  byStart(c, {r \in live(c) : /\ c.regions[r].start >= start
                              /\ end # Inf => c.regions[r].end < end})

GetAdjacentRegions(c, region) ==
  [prev |-> {r \in live(c) : c.regions[r].end = region.start /\ region.start # 0},
   next |-> {r \in live(c) : c.regions[r].start = region.end /\ region.end # Inf}]

-----------------------------------------------------------------------------
(* GetRegionIDs: the regions that start in the range and end before its    *)
(* end, and the one behind them; without any such, the first region that   *)
(* starts in or behind the range, unless it is the only region.            *)
GetRegionIDs(c, start, end) ==
  LET found == ScanRangeWithEndKey(c, start, end)
      after(key) == SubSeq(ScanRegions(c, key), 1, 1)
      whole(r) == c.regions[r].start = 0 /\ c.regions[r].end = Inf
  IN  IF found = <<>>
      THEN SelectSeq(after(start), LAMBDA r : ~whole(r))
      ELSE IF c.regions[Last(found)].end = Inf THEN found
      ELSE found \o after(c.regions[Last(found)].end)

(* GetStoreByLabel: any store that carries the labels. *)
UpdateStoreIDs(c, rule) ==
  {SelectSeq(ids, LAMBDA s : s # NoStore) :
     ids \in {f \in [DOMAIN rule.stores -> DOMAIN c.stores \cup {NoStore}] :
                \A i \in DOMAIN f :
                  LET carrying == rule.stores[i] \cap DOMAIN c.stores
                  IN  IF carrying = {} THEN f[i] = NoStore ELSE f[i] \in carrying}}

-----------------------------------------------------------------------------
(* Loading the rules. *)

meet(aBegin, aEnd, bBegin, bEnd) ==
  (aBegin <= bBegin /\ aEnd > bBegin) \/ (bBegin <= aBegin /\ bEnd > aBegin)

sameTime(a, b) == meet(a.begin, a.stop, b.begin, b.stop)
sameKeys(a, b) == meet(a.start, a.end, b.start, b.end)

(* Rules of one type must not meet; a Region rule names few enough stores. *)
IfConflict(rules, maxReplicas) ==
  \/ \E i, j \in DOMAIN rules :
       /\ i # j /\ rules[i].type = rules[j].type
       /\ sameKeys(rules[i], rules[j]) /\ sameTime(rules[i], rules[j])
  \/ \E i \in DOMAIN rules : rules[i].type = "Region" /\ Len(rules[i].stores) > maxReplicas

(* LoadConfig: conflicting rules leave PluginsMap as it is. *)
LoadConfig(plugins, rules, maxReplicas) ==
  IF IfConflict(rules, maxReplicas) THEN plugins ELSE rules

(* The pairs of a Leader and a Region rule that meet. *)
IfNeedCheckStore(rules) ==
  {p \in (DOMAIN rules) \X (DOMAIN rules) :
     /\ rules[p[1]].type = "Leader" /\ rules[p[2]].type = "Region"
     /\ sameKeys(rules[p[1]], rules[p[2]]) /\ sameTime(rules[p[1]], rules[p[2]])}

IfOverlap(first, second) == SelectSeq(first, LAMBDA s : s \in ToSet(second))

(* ProduceScheduler: a scheduler for every rule that found a store, none   *)
(* if two rules that meet have no store in common.                         *)
ProduceScheduler(rules, ids) ==
  IF \A p \in IfNeedCheckStore(rules) : IfOverlap(ids[p[1]], ids[p[2]]) # <<>>
  THEN {[name |-> <<rules[n].type, n[2]>>, rule |-> rules[n], ids |-> ids[n]] :
          n \in {n \in DOMAIN rules : ids[n] # <<>>}}
  ELSE {}

-----------------------------------------------------------------------------
(* The violent filter: regions of an active rule of one of the types. *)

active(c, rule) == rule.begin <= c.now /\ c.now <= rule.stop

RegionFilterSource(c, region, types) ==
  \E n \in DOMAIN c.plugins :
    LET rule == c.plugins[n]
    IN  /\ rule.type \in types /\ active(c, rule)
        /\ region.id \in ToSet(GetRegionIDs(c, rule.start, rule.end))

-----------------------------------------------------------------------------
(* The schedulers of the rules.  Each returns [ops, seq] for every region  *)
(* it may stop at; ops = <<>> stands for nil.                              *)

High(o) == [o EXCEPT !.level = 2]

(* The store a leader goes to: one in common with a Region rule that holds *)
(* for the region at the same time, or the next of the rule's own.         *)
leaderTargets(c, s, seq, region) ==
  LET over(n) == LET rule == c.plugins[n]
                 IN  IF /\ rule.type = "Region" /\ sameTime(s.rule, rule)
                        /\ region.id \in ToSet(GetRegionIDs(c, rule.start, rule.end))
                     THEN SubSeq(IfOverlap(s.ids, rule.ids), 1, 1) ELSE <<>>
      shared == {over(n)[1] : n \in {n \in DOMAIN c.plugins : over(n) # <<>>}}
  IN  IF shared = {} THEN {s.ids[seq]} ELSE shared

moveLeader(c, region, target) ==
  LET source   == region.leader
      transfer == GetStorePeer(region, target)
      filter   == StoreStateFilter(c, transfer, ~transfer)
  IN  IF FilterSource(source, {filter}) \/ FilterTarget(target, {filter}) THEN {}
      ELSE IF transfer
      THEN {CreateTransferLeaderOperator("move-leader-user", region, source, target, {"leader"})}
      ELSE CreateMoveLeaderOperator("move-leader-user", c, region, {"admin"}, source, target, target)

MoveLeaderSchedule(c, s, seq) ==
  LET ids   == IF active(c, s.rule) THEN GetRegionIDs(c, s.rule.start, s.rule.end) ELSE <<>>
      next(q) == (q % Len(s.ids)) + 1
      stop  == {[ops |-> <<>>, seq |-> seq]}
      visit(outcomes, r) ==
        LET region == c.regions[r]
        IN  UNION {IF o.ops # <<>> \/ region.leader \in ToSet(s.ids) THEN {o}
                   ELSE UNION {LET made == moveLeader(c, region, t)
                               IN  IF made = {} THEN {[ops |-> <<>>, seq |-> next(o.seq)]}
                                   ELSE {[ops |-> <<High(p)>>, seq |-> next(o.seq)] : p \in made} :
                                 t \in leaderTargets(c, s, o.seq, region)} :
                     o \in outcomes}
  IN  FoldLeft(visit, stop, ids)

(* The stores a region is to be on: the rule's own, filled up to           *)
(* max-replicas with stores the region is on.  What was filled in for a    *)
(* region stays for the regions after it.                                  *)
fill(c, filter, wanted, region) ==
  LET usable == {s \in DOMAIN region.peers \ wanted : ~FilterTarget(s, {filter})}
      need   == c.maxReplicas - Cardinality(wanted)
  IN  IF need <= 0 THEN {wanted}
      ELSE {wanted \cup add : add \in IF Cardinality(usable) <= need THEN {usable}
                                      ELSE kSubset(need, usable)}

MoveRegionSchedule(c, s) ==
  LET ids    == IF active(c, s.rule) THEN GetRegionIDs(c, s.rule.start, s.rule.end) ELSE <<>>
      filter == StoreStateFilter(c, FALSE, TRUE)
      target == {t \in ToSet(s.ids) : ~FilterTarget(t, {filter})}
      id     == [t \in DOMAIN c.stores |-> t]
      visit(outcomes, r) ==
        LET region == c.regions[r]
        IN  UNION {IF o.ops # <<>> \/ target \subseteq DOMAIN region.peers THEN {o}
                   ELSE UNION {IF c.maxReplicas > Cardinality(w)
                               THEN {[ops |-> <<>>, wanted |-> w]}
                               ELSE {[ops |-> <<p>>, wanted |-> w] : p \in
                                       CreateMoveRegionOperator("move-region-user", c, region,
                                                                {"admin"}, w, id)} :
                                 w \in fill(c, filter, o.wanted, region)} :
                     o \in outcomes}
  IN  IF target = {} THEN {[ops |-> <<>>, wanted |-> {}]}
      ELSE FoldLeft(visit, {[ops |-> <<>>, wanted |-> target]}, ids)
=============================================================================
