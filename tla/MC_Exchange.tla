---------------------------- MODULE MC_Exchange ----------------------------
(* Instances of Exchange. *)
EXTENDS Exchange

CONSTANTS a1, a2, s1

=============================================================================
