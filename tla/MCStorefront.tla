---------------------------- MODULE MCStorefront ----------------------------
(***************************************************************************)
(* Two callers on a page of a link that comes and goes, and a product that *)
(* is offered or not and changes its slug.                                 *)
(***************************************************************************)
EXTENDS Storefront

StorefrontSymmetry ==
    Permutations(Callers) \cup Permutations(Links) \cup Permutations(Slugs)
        \cup Permutations(Listings)
=============================================================================
