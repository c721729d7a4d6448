----------------------------- MODULE MCLibrary ------------------------------
(***************************************************************************)
(* Instances of Library for TLC.  Two shapes of library directory: a file  *)
(* name in the root, where the sweep and the importer meet, beside one in  *)
(* a top-level directory; and a directory nested in a top-level one, a     *)
(* file name in each, where volumes come and go.                           *)
(***************************************************************************)
EXTENDS LibraryProps, TLC

CONSTANTS x, y, root, a, n

Symmetry == Permutations(Contents)

MixedDirs == {root, a}
MixedDirOf == (x :> root) @@ (y :> a)
MixedTopOf == (root :> root) @@ (a :> a)
MixedRank == (root :> 0) @@ (a :> 1) @@ (y :> 2) @@ (x :> 3)

NestDirs == {root, a, n}
NestDirOf == (x :> a) @@ (y :> n)
NestTopOf == (root :> root) @@ (a :> a) @@ (n :> a)
NestRank == (root :> 0) @@ (a :> 1) @@ (n :> 2) @@ (y :> 3) @@ (x :> 4)
=============================================================================
