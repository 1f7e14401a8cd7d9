--------------------------- MODULE MC_Publication ---------------------------
(***************************************************************************)
(* Publication on small instances.                                         *)
(***************************************************************************)
EXTENDS Publication

CONSTANTS k1, k2
=============================================================================
