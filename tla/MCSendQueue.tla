---------------------------- MODULE MCSendQueue -----------------------------
(***************************************************************************)
(* Instances of SendQueue for TLC.                                         *)
(***************************************************************************)
EXTENDS SendQueueProps, TLC

Symmetry == Permutations(Requests)
=============================================================================
