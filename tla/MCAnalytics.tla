---------------------------- MODULE MCAnalytics -----------------------------
(***************************************************************************)
(* Two days of two ticks and a retention of one: a request can straddle    *)
(* midnight, and a day can be half in the window.                          *)
(***************************************************************************)
EXTENDS Analytics

DaysAsked == {[from |-> 0, to |-> 1], [from |-> 0, to |-> 2]}
=============================================================================
