----------------------------- MODULE MCCatalog -----------------------------
(***************************************************************************)
(* Two callers at a time on a product whose limit is one file, so that the *)
(* second file it has shows the limit passed.                              *)
(***************************************************************************)
EXTENDS Catalog, TLC

CatalogSymmetry ==
    Permutations(Callers) \cup Permutations(Files) \cup Permutations(Contents)
=============================================================================
