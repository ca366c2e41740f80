----------------------------- MODULE MCRuntime ------------------------------
(***************************************************************************)
(* Two replicas with the same job; requests reach one of them.             *)
(***************************************************************************)
EXTENDS Runtime
=============================================================================
