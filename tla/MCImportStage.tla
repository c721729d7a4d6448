--------------------------- MODULE MCImportStage ----------------------------
(***************************************************************************)
(* Small instances of ImportStage for TLC.                                 *)
(***************************************************************************)
EXTENDS ImportStageProps, TLC

CONSTANTS i1, i2, i3, i4, k1, k2, c1, c2

Symmetry == Permutations(Ids) \cup Permutations(Clicks) \cup Permutations(Contents)
=============================================================================
