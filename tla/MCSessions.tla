----------------------------- MODULE MCSessions ----------------------------
(***************************************************************************)
(* Two users with a browser each, and two requests at a time, which may be *)
(* two tabs of one browser.  A browser that logs in again, or loses an     *)
(* answer, leaves an open session behind.                                  *)
(*                                                                         *)
(* A revocation that meets a refresh needs four tokens: the spent one, the *)
(* live one that the refresh holds, and the successor each of the two has  *)
(* drawn.                                                                  *)
(***************************************************************************)
EXTENDS Sessions, TLC

CONSTANTS rahul, asha, laptop, tablet

MCOwnerOf == laptop :> rahul @@ tablet :> asha

(* The users change places, each with the browser of that user.            *)
SwapUsers == laptop :> tablet @@ tablet :> laptop @@ rahul :> asha @@ asha :> rahul

SessionsSymmetry == Permutations(Requests) \cup {SwapUsers}
=============================================================================
