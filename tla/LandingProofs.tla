--------------------------- MODULE LandingProofs ---------------------------
(***************************************************************************)
(* What module Landing promises, for every set of runs: what is on the     *)
(* target passed the gate in that form, and a settled run landed.  Module  *)
(* Delivery is shown to implement Landing, so these are facts about the    *)
(* delivery pipeline of a product that does not publish.                   *)
(***************************************************************************)
EXTENDS Landing, TLAPS

Entry == [by : Run \cup {External}, edit : Nat]

Inv == TypeOK /\ LandsWhatPassed /\ SettledHasLanded

\* Appending keeps what was there and puts the new entry last.
LEMMA AppendEntry ==
  ASSUME NEW s \in Seq(Entry), NEW e \in Entry
  PROVE  /\ Append(s, e) \in Seq(Entry)
         /\ DOMAIN Append(s, e) = DOMAIN s \cup {Len(s) + 1}
         /\ \A p \in DOMAIN s : Append(s, e)[p] = s[p]
         /\ Append(s, e)[Len(s) + 1] = e
         /\ Len(s) \in Nat
OBVIOUS

\* The initial state satisfies the invariant: nothing passed, nothing landed.
LEMMA InitInv == Init => Inv
BY DEF Init, Inv, TypeOK, LandsWhatPassed, SettledHasLanded, Version

\* A change of candidate disturbs nothing that passed or landed.
LEMMA ChangeInv ==
  ASSUME Inv, NEW r \in Run, Change(r)
  PROVE  Inv'
<1>1. TypeOK'
  BY DEF Inv, TypeOK, Change
<1>2. LandsWhatPassed' /\ SettledHasLanded'
  BY DEF Inv, LandsWhatPassed, SettledHasLanded, Landed, Change
<1> QED BY <1>1, <1>2 DEF Inv

\* Judging only adds to what passed.
LEMMA JudgeInv ==
  ASSUME Inv, NEW r \in Run, Judge(r)
  PROVE  Inv'
<1>1. TypeOK'
  BY DEF Inv, TypeOK, Judge
<1>2. \A q \in Run : passed[q] \subseteq passed'[q]
  BY DEF Inv, TypeOK, Judge
<1>3. LandsWhatPassed'
  BY <1>2 DEF Inv, LandsWhatPassed, Judge
<1>4. SettledHasLanded'
  BY DEF Inv, SettledHasLanded, Landed, Judge
<1> QED BY <1>1, <1>3, <1>4 DEF Inv

\* A landing appends a version that passed, on the base it names.
LEMMA LandInv ==
  ASSUME Inv, NEW r \in Run, Land(r)
  PROVE  Inv'
<1> DEFINE e == [by |-> r, edit |-> candidate[r].edit]
<1>1. candidate[r] \in Version /\ e \in Entry /\ target \in Seq(Entry)
  BY DEF Inv, TypeOK, Entry, Version
<1>2. target' = Append(target, e)
  BY DEF Land
<1>3. candidate[r] = [base |-> Len(target), edit |-> candidate[r].edit]
  BY <1>1 DEF Land, Version
<1>4. TypeOK'
  BY <1>1, <1>2, AppendEntry DEF Inv, TypeOK, Land, Entry
<1>5. LandsWhatPassed'
  <2> SUFFICES ASSUME NEW p \in DOMAIN target', target'[p].by \in Run
               PROVE  [base |-> p - 1, edit |-> target'[p].edit] \in passed[target'[p].by]
    BY DEF LandsWhatPassed, Land
  <2>1. CASE p \in DOMAIN target
    <3>1. target'[p] = target[p]
      BY <1>1, <1>2, <2>1, AppendEntry
    <3>2. [base |-> p - 1, edit |-> target[p].edit] \in passed[target[p].by]
      BY <2>1, <3>1 DEF Inv, LandsWhatPassed
    <3> QED BY <3>1, <3>2
  <2>2. CASE p = Len(target) + 1
    <3>1. target'[p] = e
      BY <1>1, <1>2, <2>2, AppendEntry
    <3>2. p - 1 = Len(target)
      BY <1>1, <2>2, AppendEntry
    <3>3. candidate[r] \in passed[r]
      BY DEF Land
    <3> QED BY <1>3, <3>1, <3>2, <3>3
  <2>3. DOMAIN target' = DOMAIN target \cup {Len(target) + 1}
    BY <1>1, <1>2, AppendEntry
  <2> QED BY <2>1, <2>2, <2>3
<1>6. SettledHasLanded'
  <2>1. SUFFICES ASSUME NEW q \in settled PROVE Landed(q)'
    BY DEF SettledHasLanded, Land
  <2>2. PICK p \in DOMAIN target : target[p].by = q
    BY <2>1 DEF Inv, SettledHasLanded, Landed
  <2>3. p \in DOMAIN target' /\ target'[p] = target[p]
    BY <1>1, <1>2, <2>2, AppendEntry
  <2> QED BY <2>2, <2>3 DEF Landed
<1> QED BY <1>4, <1>5, <1>6 DEF Inv

\* Settling asks for the landing it records.
LEMMA SettleInv ==
  ASSUME Inv, NEW r \in Run, Settle(r)
  PROVE  Inv'
<1>1. TypeOK'
  BY DEF Inv, TypeOK, Settle
<1>2. LandsWhatPassed'
  BY DEF Inv, LandsWhatPassed, Settle
<1>3. SettledHasLanded'
  BY DEF Inv, SettledHasLanded, Landed, Settle
<1> QED BY <1>1, <1>2, <1>3 DEF Inv

\* Somebody else's commit is no run's.
LEMMA CommitElsewhereInv ==
  ASSUME External \notin Run, Inv, CommitElsewhere
  PROVE  Inv'
<1> DEFINE e == [by |-> External, edit |-> 0]
<1>1. e \in Entry /\ target \in Seq(Entry) /\ target' = Append(target, e)
  BY DEF Inv, TypeOK, Entry, CommitElsewhere
<1>2. TypeOK'
  BY <1>1, AppendEntry DEF Inv, TypeOK, CommitElsewhere, Entry
<1>3. LandsWhatPassed'
  <2> SUFFICES ASSUME NEW p \in DOMAIN target', target'[p].by \in Run
               PROVE  [base |-> p - 1, edit |-> target'[p].edit] \in passed[target'[p].by]
    BY DEF LandsWhatPassed, CommitElsewhere
  <2>1. p \in DOMAIN target
    BY <1>1, AppendEntry
  <2>2. target'[p] = target[p] /\ passed' = passed
    BY <1>1, <2>1, AppendEntry DEF CommitElsewhere
  <2> QED BY <2>1, <2>2 DEF Inv, LandsWhatPassed
<1>4. SettledHasLanded'
  <2>1. SUFFICES ASSUME NEW q \in settled PROVE Landed(q)'
    BY DEF SettledHasLanded, CommitElsewhere
  <2>2. PICK p \in DOMAIN target : target[p].by = q
    BY <2>1 DEF Inv, SettledHasLanded, Landed
  <2>3. p \in DOMAIN target' /\ target'[p] = target[p]
    BY <1>1, <2>2, AppendEntry
  <2> QED BY <2>2, <2>3 DEF Landed
<1> QED BY <1>2, <1>3, <1>4 DEF Inv

\* Every step keeps the invariant.
LEMMA StepInv ==
  ASSUME External \notin Run, Inv, [Next]_vars
  PROVE  Inv'
<1>1. CASE UNCHANGED vars
  BY <1>1 DEF vars, Inv, TypeOK, LandsWhatPassed, SettledHasLanded, Landed
<1>2. CASE Next
  BY <1>2, ChangeInv, JudgeInv, LandInv, SettleInv, CommitElsewhereInv DEF Next
<1> QED BY <1>1, <1>2

\* Whatever is on the target from a run passed the gate in exactly that form.
THEOREM LandedPassed ==
  ASSUME External \notin Run
  PROVE  Spec => []LandsWhatPassed
<1>1. Inv /\ [Next]_vars => Inv'
  BY StepInv
<1>2. Inv => LandsWhatPassed
  BY DEF Inv
<1> QED BY <1>1, <1>2, InitInv, PTL DEF Spec

\* A work item is settled only for a run that put its change on the target.
THEOREM SettledLanded ==
  ASSUME External \notin Run
  PROVE  Spec => []SettledHasLanded
<1>1. Inv /\ [Next]_vars => Inv'
  BY StepInv
<1>2. Inv => SettledHasLanded
  BY DEF Inv
<1> QED BY <1>1, <1>2, InitInv, PTL DEF Spec

=============================================================================
