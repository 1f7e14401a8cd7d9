---------------------------- MODULE MC_Delivery ----------------------------
(***************************************************************************)
(* Delivery on small instances: one run against everything that can happen *)
(* to it, and two runs that contend for the target.                        *)
(***************************************************************************)
EXTENDS Delivery

CONSTANTS r1, r2
=============================================================================
