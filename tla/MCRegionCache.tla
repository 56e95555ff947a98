--------------------------- MODULE MCRegionCache ---------------------------
(***************************************************************************)
(* Small instances of RegionCache, and the loop of loadRegions spelled out.*)
(***************************************************************************)
EXTENDS RegionCache, TLC

Symmetry == Permutations(Store)

Empty == [tree |-> {}, regions |-> [i \in ID |-> None],
          leaders |-> [s \in Store |-> {}], followers |-> [s \in Store |-> {}]]

LoadLoop ==
  LET load[n \in 0 .. MaxID] ==
        IF n = 0 THEN Empty
        ELSE IF disk[n] = None THEN load[n - 1] ELSE SetRegion(load[n - 1], disk[n])
  IN load[MaxID]

(* What RegionCache says loadRegions leaves in the cache is what its loop, *)
(* one SetRegion after the other, leaves there: also for a leveldb that    *)
(* holds overlapping regions which a flush brought back.                   *)
LoadedByLoop == Loaded = LoadLoop
============================================================================
