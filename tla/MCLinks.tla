------------------------------ MODULE MCLinks -------------------------------
(***************************************************************************)
(* Three calls at once on a page of at most three links, of four that come *)
(* and go: one to add, one to reorder and one to delete.                   *)
(***************************************************************************)
EXTENDS Links, TLC

LinksSymmetry == Permutations(Callers) \cup Permutations(Links)
=============================================================================
