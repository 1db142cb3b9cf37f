--------------------------- MODULE MCSynchronizer ---------------------------
(* A small instance of Synchronizer for TLC.                                *)
EXTENDS Synchronizer, TLC

CONSTANTS l1, l2, s1, s2, f1, f2

MCLoops    == {l1, l2}
MCStops    == {s1, s2}
MCOneStop  == {s1}
MCFetchers == {f1, f2}
Symmetry   == Permutations(MCLoops) \cup Permutations(MCStops) \cup Permutations(MCFetchers)
=============================================================================
