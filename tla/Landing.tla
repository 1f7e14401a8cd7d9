------------------------------ MODULE Landing ------------------------------
(***************************************************************************)
(* What the delivery of work promises: a change reaches the target branch  *)
(* in exactly the form that passed the gate (the product's checks and an   *)
(* independent review), and a work item is closed only for a change that   *)
(* is on the target branch.                                                *)
(*                                                                         *)
(* The target branch is linear: it is the sequence of what was put on it,  *)
(* and a version of a change is an edit on top of a length of that         *)
(* sequence.  Edit 0 is the base itself, no change at all.                 *)
(***************************************************************************)
EXTENDS Integers, Sequences

CONSTANTS
  Run,        \* the runs that deliver changes
  External    \* whoever else commits to the target branch

VARIABLES
  candidate,  \* the version each run would land
  passed,     \* the versions of each run that passed the gate
  target,     \* what was put on the target branch, in order
  settled     \* the runs whose work item is closed

vars == <<candidate, passed, target, settled>>

Version == [base : Nat, edit : Nat]

Landed(r) == \E p \in DOMAIN target : target[p].by = r

Init ==
  /\ candidate = [r \in Run |-> [base |-> 0, edit |-> 0]]
  /\ passed = [r \in Run |-> {}]
  /\ target = <<>>
  /\ settled = {}

\* The run develops its change, or replays it onto where the target went.
Change(r) ==
  /\ candidate'[r] \in Version
  /\ candidate' = [candidate EXCEPT ![r] = candidate'[r]]
  /\ UNCHANGED <<passed, target, settled>>

Judge(r) ==
  /\ passed' = [passed EXCEPT ![r] = @ \cup {candidate[r]}]
  /\ UNCHANGED <<candidate, target, settled>>

Land(r) ==
  /\ candidate[r] \in passed[r]
  /\ candidate[r].edit # 0
  /\ candidate[r].base = Len(target)
  /\ target' = Append(target, [by |-> r, edit |-> candidate[r].edit])
  /\ UNCHANGED <<candidate, passed, settled>>

Settle(r) ==
  /\ Landed(r)
  /\ settled' = settled \cup {r}
  /\ UNCHANGED <<candidate, passed, target>>

CommitElsewhere ==
  /\ target' = Append(target, [by |-> External, edit |-> 0])
  /\ UNCHANGED <<candidate, passed, settled>>

Next ==
  \/ \E r \in Run : Change(r) \/ Judge(r) \/ Land(r) \/ Settle(r)
  \/ CommitElsewhere

Spec == Init /\ [][Next]_vars

-----------------------------------------------------------------------------

\* Every variable has its type.
TypeOK ==
  /\ candidate \in [Run -> Version]
  /\ passed \in [Run -> SUBSET Version]
  /\ target \in Seq([by : Run \cup {External}, edit : Nat])
  /\ settled \subseteq Run

\* What a run put on the target passed the gate as that edit on that base.
LandsWhatPassed ==
  \A p \in DOMAIN target : target[p].by \in Run =>
    [base |-> p - 1, edit |-> target[p].edit] \in passed[target[p].by]

\* A settled run put something on the target.
SettledHasLanded == \A r \in settled : Landed(r)

=============================================================================
