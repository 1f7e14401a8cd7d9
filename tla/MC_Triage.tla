---------------------------- MODULE MC_Triage ----------------------------
(* Instances of Triage: small caps, and carriers that are interchangeable. *)
EXTENDS Triage, TLC

MCCaps == [rounds |-> 2, grants |-> 1, reruns |-> 1]
Symmetry == Permutations(Carriers)

=============================================================================
