---------------------------- MODULE MCGoatMalloc ----------------------------
(***************************************************************************)
(* Instances of GoatMalloc: headers of two bytes, pages of four.            *)
(***************************************************************************)
EXTENDS GoatMalloc, TLC

CONSTANTS x, y

Symmetry == Permutations(Tag)
=============================================================================
