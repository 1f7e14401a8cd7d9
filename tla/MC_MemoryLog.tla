---------------------------- MODULE MC_MemoryLog ----------------------------
(* Instances of MemoryLog. *)
EXTENDS MemoryLog

CONSTANTS w1, r1, plan, taste

=============================================================================
