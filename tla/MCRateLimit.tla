---------------------------- MODULE MCRateLimit -----------------------------
(***************************************************************************)
(* Requests of one caller against one counter.  A request is only its      *)
(* name, so they are symmetric.                                            *)
(***************************************************************************)
EXTENDS RateLimit, TLC

RequestSymmetry == Permutations(Requests)
=============================================================================
