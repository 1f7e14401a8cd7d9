------------------------------ MODULE MC_Waits ------------------------------
(* Bounded instances of Waits. *)
EXTENDS Waits
=============================================================================
