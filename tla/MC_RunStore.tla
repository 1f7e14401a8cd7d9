---------------------------- MODULE MC_RunStore ----------------------------
(***************************************************************************)
(* RunStore on a small instance: two runs of one item and one of another,  *)
(* and two processes that read different limits.  The one with two slots   *)
(* can meet a second run of an item while a slot is free, the one with a   *)
(* single slot another item's run while its own item is free.              *)
(***************************************************************************)
EXTENDS RunStore, TLC

CONSTANTS p1, p2, r1, r2, r3, i1, i2

MCItemOf == (r1 :> i1) @@ (r2 :> i1) @@ (r3 :> i2)

MCMaxConcurrent == (p1 :> 1) @@ (p2 :> 2)
=============================================================================
