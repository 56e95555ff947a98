------------------------------ MODULE HotRegions ------------------------------
(***************************************************************************)
(* The hot region schedulers (server/schedulers/hot_region.go and          *)
(* shuffle_hot_region.go).  The cluster's read and write map the regions   *)
(* in the hot caches to [flow, median, degree], the flow of the last       *)
(* report, the median of the recent ones and the number of reports above   *)
(* the threshold.  mem has the scheduler's leaderLimit and peerLimit; an   *)
(* outcome is [ops, mem].                                                  *)
(***************************************************************************)
EXTENDS Schedulers

(* GetRegion of the namespaceCluster: the stats of other regions are       *)
(* dropped.                                                                *)
ownStats(c, items) ==
  [r \in {r \in DOMAIN items \cap live(c) : checkNamespace(c, r)} |-> items[r]]

(* What is hot on a store: the regions it has, or leads. *)
calcScore(c, items, kind) ==
  LET hot == {r \in DOMAIN ownStats(c, items) : items[r].degree >= c.hitsThreshold}
      on(s) == {r \in hot : IF kind = "leader" THEN c.regions[r].leader = s
                            ELSE GetStorePeer(c.regions[r], s)}
  IN  [s \in {s \in DOMAIN c.stores : on(s) # {}} |->
         [regions |-> on(s), flow |-> MapThenSumSet(LAMBDA r : items[r].flow, on(s))]]

hotCount(stats, s) == Cardinality(stats[s].regions)

(* The most hot regions, at least two, and among those the most flow. *)
selectSrcStore(stats) ==
  LET two == {s \in DOMAIN stats : hotCount(stats, s) >= 2}
      less(s, t) == \/ hotCount(stats, s) < hotCount(stats, t)
                    \/ hotCount(stats, s) = hotCount(stats, t) /\ stats[s].flow < stats[t].flow
  IN  orNil({s \in two : \A t \in two : ~less(s, t)})

(* The candidates come in any order.  A store without hot regions is taken *)
(* at once; otherwise it is one of those with the fewest, clearly fewer    *)
(* than the source has: the first of them, unless another has less flow,   *)
(* and enough less than the source.                                        *)
selectDestStore(candidates, median, src, stats) ==
  LET idle   == candidates \ DOMAIN stats
      fewer  == {s \in candidates : hotCount(stats, src) - hotCount(stats, s) > 1}
      fewest == {s \in fewer : \A t \in fewer : hotCount(stats, s) <= hotCount(stats, t)}
      better(t, s) == /\ stats[t].flow < stats[s].flow
                      /\ (9 * stats[src].flow) \div 10 > stats[t].flow + 2 * median
  IN  IF idle # {} THEN idle ELSE orNil({s \in fewest : \A t \in fewest : ~better(t, s)})

(* Three quarters of what the store has above the average, at least one. *)
adjustBalanceLimit(src, stats) ==
  LET total == MapThenSumSet(LAMBDA s : hotCount(stats, s), DOMAIN stats)
      n     == Cardinality(DOMAIN stats)
  IN  Max({1, (3 * (n * hotCount(stats, src) - total)) \div (4 * n)})

allowBalanceLeader(c, mem) ==
  /\ OperatorCount(c, {"hotRegion"}) < Min({mem.leaderLimit, c.hotRegionLimit})
  /\ allowLeader(c)

allowBalanceRegion(c, mem) ==
  OperatorCount(c, {"hotRegion"}) < Min({mem.peerLimit, c.hotRegionLimit})

isRegionUnhealthy(region) == region.down # {} \/ GetLearners(region) # {}

(* Where a hot peer may go. *)
hotTargets(c, region, src) ==
  {s \in GetStores(c) :
     ~FilterTarget(s, {StoreStateFilter(c, FALSE, TRUE),
                       NewExcludedFilter(DOMAIN region.peers, DOMAIN region.peers),
                       NewDistinctScoreFilter(c, DOMAIN region.peers, src)})}

(* The regions of the source are tried in random order: the pairs          *)
(* <<region, destination>> that may come out, <<0, 0>> for none.           *)
balanceByPeer(c, mem, items, stats) ==
  LET dests(src, r) ==
        IF \/ isRegionUnhealthy(c.regions[r])
           \/ Cardinality(DOMAIN c.regions[r].peers) # c.maxReplicas
        THEN {NoStore}
        ELSE selectDestStore(hotTargets(c, c.regions[r], src), items[r].median, src, stats)
      from(src) ==
        UNION {{[src |-> src, r |-> r, dest |-> d] : d \in dests(src, r) \ {NoStore}} :
                 r \in stats[src].regions}
      none(src) == \A r \in stats[src].regions : NoStore \in dests(src, r)
  IN  IF ~allowBalanceRegion(c, mem) THEN {[src |-> 0]}
      ELSE UNION {IF src = NoStore THEN {[src |-> 0]}
                  ELSE from(src) \cup (IF none(src) THEN {[src |-> 0]} ELSE {}) :
                    src \in selectSrcStore(stats)}

balanceByLeader(c, mem, items, stats) ==
  LET dests(src, r) ==
        LET followers == {s \in GetFollowers(c.regions[r]) :
                            ~FilterTarget(s, {StoreStateFilter(c, TRUE, FALSE)})}
        IN  IF isRegionUnhealthy(c.regions[r]) \/ followers = {} THEN {NoStore}
            ELSE selectDestStore(followers, items[r].median, src, stats)
      from(src) ==
        UNION {{[src |-> src, r |-> r, dest |-> d] : d \in dests(src, r) \ {NoStore}} :
                 r \in stats[src].regions}
      none(src) == \A r \in stats[src].regions : NoStore \in dests(src, r)
  IN  IF ~allowBalanceLeader(c, mem) THEN {[src |-> 0]}
      ELSE UNION {IF src = NoStore THEN {[src |-> 0]}
                  ELSE from(src) \cup (IF none(src) THEN {[src |-> 0]} ELSE {}) :
                    src \in selectSrcStore(stats)}

-----------------------------------------------------------------------------
skip(mem) == [ops |-> <<>>, mem |-> mem]

(* The operator of a choice, and the limit that it adjusts even where the  *)
(* source turns out to have no peer or the user's rules refuse it.         *)
moveHotPeer(c, mem, desc, m, stats) ==
  LET limit == [mem EXCEPT !.peerLimit = adjustBalanceLimit(m.src, stats)]
  IN  IF ~GetStorePeer(c.regions[m.r], m.src) \/ anyRule(c, c.regions[m.r]) THEN {skip(limit)}
      ELSE {[ops |-> o, mem |-> limit] :
              o \in raised(single(CreateMovePeerOperator(desc, c, c.regions[m.r], {"hotRegion"},
                                                         m.src, m.dest, m.dest)))}

moveHotLeader(c, mem, desc, m, stats) ==
  LET limit == [mem EXCEPT !.leaderLimit = adjustBalanceLimit(m.src, stats)]
  IN  IF leaderRule(c, c.regions[m.r]) THEN {skip(limit)}
      ELSE {[ops |-> <<High(CreateTransferLeaderOperator(desc, c.regions[m.r],
                              c.regions[m.r].leader, m.dest, {"hotRegion"}))>>, mem |-> limit]}

(* Reads: by leader, else by peer. *)
balanceHotReadRegions(c, mem) ==
  LET stats == calcScore(c, c.read, "leader")
      lead  == UNION {IF m.src = 0 THEN {skip(mem)}
                      ELSE moveHotLeader(c, mem, "transfer-hot-read-leader", m, stats) :
                        m \in balanceByLeader(c, mem, c.read, stats)}
      peer(mm) == UNION {IF m.src = 0 THEN {skip(mm)}
                         ELSE moveHotPeer(c, mm, "move-hot-read-region", m, stats) :
                           m \in balanceByPeer(c, mm, c.read, stats)}
  IN  UNION {IF o.ops # <<>> THEN {o} ELSE peer(o.mem) : o \in lead}

(* Writes: by peer or by leader, whichever the coin says; the retries are  *)
(* further calls.                                                          *)
balanceHotWriteRegions(c, mem) ==
  LET asLeader == calcScore(c, c.write, "leader")
      asPeer   == calcScore(c, c.write, "region")
      peer == UNION {IF m.src = 0 THEN {skip(mem)}
                     ELSE moveHotPeer(c, mem, "move-hot-write-region", m, asPeer) :
                       m \in balanceByPeer(c, mem, c.write, asPeer)}
      lead == UNION {IF m.src = 0 THEN {skip(mem)}
                     ELSE moveHotLeader(c, mem, "transfer-hot-write-leader", m, asLeader) :
                       m \in balanceByLeader(c, mem, c.write, asLeader)}
  IN  peer \cup lead

HotRegionSchedule(c, mem) == balanceHotReadRegions(c, mem) \cup balanceHotWriteRegions(c, mem)

-----------------------------------------------------------------------------
(* shuffle-hot-region: a random hot leader goes to a random store. *)

randomSchedule(c, stats) ==
  LET usable(r) == c.regions[r].down = {} /\ c.regions[r].pending = {}
      move(r) == LET region == c.regions[r]
                     lead   == region.leader
                     dests  == hotTargets(c, region, lead)
                 IN  IF dests = {} \/ ~GetStorePeer(region, lead) THEN nil
                     ELSE UNION {single(CreateMoveLeaderOperator("random-move-hot-leader", c, region,
                                          {"region", "leader"}, lead, d, d)) : d \in dests}
      picks == UNION {stats[s].regions : s \in DOMAIN stats}
  IN  (UNION {IF usable(r) THEN move(r) ELSE nil : r \in picks})
      \cup (IF picks = {} THEN nil ELSE {})

ShuffleHotRegionSchedule(c) ==
  randomSchedule(c, calcScore(c, c.read, "leader"))
  \cup randomSchedule(c, calcScore(c, c.write, "leader"))
=============================================================================
