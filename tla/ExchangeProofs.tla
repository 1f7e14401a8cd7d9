--------------------------- MODULE ExchangeProofs ---------------------------
(***************************************************************************)
(* What holds of one inter-role exchange for any number of conversations   *)
(* and supervision passes, any cap on its rounds and any number of killed  *)
(* processes.  The argument is the lease: whoever works on the record      *)
(* holds it, so the copy it loaded is still what the file says when it     *)
(* saves - until Charge saves a copy nothing kept current, which           *)
(* `overwrote' tells.                                                      *)
(***************************************************************************)
EXTENDS Exchange, SequenceTheorems, TLAPS

\* The copy of whoever holds the lease and loaded the record is the record, open;
\* what a pass reclaims is a round nothing came back for.
CopyIsCurrent ==
  \A p \in Proc :
    /\ at[p] \in {"loaded", "asked", "reclaiming"} => copy[p] = disk /\ Open(disk)
    /\ at[p] = "reclaiming" => Interrupted(disk)

Kept == CopyIsCurrent /\ disk.rounds = thread /\ Len(thread) <= MaxRounds

Inv == TypeOK /\ (~overwrote => Kept)

-----------------------------------------------------------------------------

\* Answering the last round keeps the thread a thread, as long as it was.
LEMMA SayingKeepsLength ==
  ASSUME NEW rounds \in Rounds, NEW said \in Said
  PROVE  Saying(rounds, said) \in Rounds /\ Len(Saying(rounds, said)) = Len(rounds)
<1> DEFINE R == [by : Proc, said : Said]
<1> DEFINE new == Saying(rounds, said)
<1>1. rounds \in [1..Len(rounds) -> R] /\ Len(rounds) \in Nat
  BY LenProperties DEF Rounds
<1>2. \A r \in R : [r EXCEPT !.said = said] \in R
  OBVIOUS
<1>3. new \in [1..Len(rounds) -> R]
  <2> HIDE DEF R
  <2>1. CASE Len(rounds) \in 1..Len(rounds)
    <3>1. [rounds[Len(rounds)] EXCEPT !.said = said] \in R
      BY <1>1, <1>2, <2>1
    <3>. QED
      BY <1>1, <3>1 DEF Saying
  <2>2. CASE Len(rounds) \notin 1..Len(rounds)
    BY <1>1, <2>2 DEF Saying
  <2>. QED
    BY <2>1, <2>2
<1>4. new \in Seq(R)
  <2> HIDE DEF new, R
  <2>. QED
    BY <1>1, <1>3
<1>5. DOMAIN new = 1..Len(rounds)
  BY <1>3
<1>. QED
  <2> HIDE DEF new, R
  <2>1. Len(new) = Len(rounds)
    BY <1>1, <1>4, <1>5, LenProperties
  <2>. QED
    BY <1>4, <2>1 DEF Rounds, new, R

\* Asking puts one round behind the thread.
LEMMA AskingGrows ==
  ASSUME NEW rounds \in Rounds, NEW p \in Proc
  PROVE  /\ Append(rounds, [by |-> p, said |-> "nothing"]) \in Rounds
         /\ Len(Append(rounds, [by |-> p, said |-> "nothing"])) = Len(rounds) + 1
BY DEF Rounds, Said

LEMMA EmptyRecord == NoRecord \in Record
BY DEF NoRecord, Record, Rounds

LEMMA InitInv == Init => Inv
<1>. SUFFICES ASSUME Init PROVE Inv
  OBVIOUS
<1>1. disk \in Record /\ copy \in [Proc -> Record]
  BY EmptyRecord DEF Init
<1>2. thread = <<>> /\ thread \in Rounds /\ Len(thread) = 0 /\ disk.rounds = thread
  BY DEF Init, Rounds, NoRecord
<1>3. at = [p \in Proc |-> "idle"] /\ lease = Nobody /\ told = 0 /\ crashes = 0
        /\ ~overwrote /\ ~silenced /\ overwrote \in BOOLEAN /\ silenced \in BOOLEAN
  BY DEF Init
<1>4. TypeOK
  BY <1>1, <1>2, <1>3, ExchangeAssumption DEF TypeOK, Holding
<1>. QED
  BY <1>2, <1>3, <1>4, ExchangeAssumption DEF Inv, Kept, CopyIsCurrent

-----------------------------------------------------------------------------
(* Records, and what a move of one process does to the others.             *)

LEMMA RecordParts ==
  ASSUME NEW rec \in Record
  PROVE  /\ rec.rounds \in Rounds
         /\ \A outcome \in {"resolved", "unresolved"} : Closing(rec, outcome) \in Record
         /\ \A outcome : Closing(rec, outcome).rounds = rec.rounds
         /\ \A rounds \in Rounds :
              LET new == [rec EXCEPT !.rounds = rounds]
              IN  new \in Record /\ new.rounds = rounds /\ Open(new) = Open(rec)
<1> HIDE DEF Rounds
<1>. QED
  BY DEF Record, Closing, Open

Somewhere == Holding \cup {"idle", "carrying", "charging", "listed"}

\* The part of the types a move of one process disturbs.
Places ==
  /\ copy \in [Proc -> Record] /\ at \in [Proc -> Somewhere]
  /\ lease \in Proc \cup {Nobody}
  /\ \A p \in Proc : lease = p <=> at[p] \in Holding

LEMMA LeavesPlaces ==
  ASSUME Places, NEW p \in Proc, Leaves(p)
  PROVE  Places'
<1>1. copy' = [copy EXCEPT ![p] = NoRecord] /\ at' = [at EXCEPT ![p] = "idle"]
        /\ lease' = IF lease = p THEN Nobody ELSE lease
  BY DEF Leaves, Moves, Releases
<1>2. copy' \in [Proc -> Record]
  BY <1>1, EmptyRecord DEF Places
<1>. QED
  BY <1>1, <1>2, ExchangeAssumption DEF Places, Somewhere, Holding

LEMMA MovesPlaces ==
  ASSUME Places, NEW p \in Proc, NEW where \in Somewhere, NEW rec \in Record,
         Moves(p, where, rec),
         \/ where \in Holding /\ lease \in {p, Nobody} /\ lease' = p
         \/ where \notin Holding /\ at[p] \notin Holding /\ lease' = lease
         \/ where \notin Holding /\ lease' = IF lease = p THEN Nobody ELSE lease
  PROVE  Places'
<1>1. copy' = [copy EXCEPT ![p] = rec] /\ at' = [at EXCEPT ![p] = where]
  BY DEF Moves
<1>2. copy' \in [Proc -> Record] /\ at' \in [Proc -> Somewhere]
  BY <1>1 DEF Places
<1>. QED
  BY <1>1, <1>2, ExchangeAssumption DEF Places

\* Only the holder of the lease writes, or moves to where its copy matters.
LEMMA CurrentKept ==
  ASSUME Places, CopyIsCurrent, NEW p \in Proc, NEW where, NEW rec,
         Moves(p, where, rec),
         disk' = disk \/ at[p] \in Holding,
         where \in {"loaded", "asked", "reclaiming"} => rec = disk' /\ Open(disk'),
         where = "reclaiming" => Interrupted(disk')
  PROVE  CopyIsCurrent'
<1>1. copy' = [copy EXCEPT ![p] = rec] /\ at' = [at EXCEPT ![p] = where]
  BY DEF Moves
<1>. SUFFICES ASSUME NEW q \in Proc
              PROVE  /\ at'[q] \in {"loaded", "asked", "reclaiming"} => copy'[q] = disk' /\ Open(disk')
                     /\ at'[q] = "reclaiming" => Interrupted(disk')
  BY DEF CopyIsCurrent
<1>2. CASE q = p
  BY <1>1, <1>2 DEF Places
<1>3. CASE q # p
  <2>1. at'[q] = at[q] /\ copy'[q] = copy[q]
    BY <1>1, <1>3 DEF Places
  <2>2. CASE disk' = disk
    BY <2>1, <2>2 DEF CopyIsCurrent
  <2>3. CASE at[p] \in Holding
    BY <1>3, <2>1, <2>3 DEF Places, Holding
  <2>. QED
    BY <2>2, <2>3
<1>. QED
  BY <1>2, <1>3

-----------------------------------------------------------------------------
(* The invariant, action by action.                                        *)

Types ==
  /\ disk \in Record /\ thread \in Rounds
  /\ told \in Nat /\ crashes \in Nat /\ {overwrote, silenced} \subseteq BOOLEAN

LEMMA TypeParts == TypeOK <=> Types /\ Places
BY DEF TypeOK, Types, Places, Somewhere

\* A step that leaves the file and the thread alone keeps them in agreement.
LEMMA Untouched ==
  ASSUME Inv, Places', NEW p \in Proc, NEW where, NEW rec, Moves(p, where, rec),
         disk' = disk, thread' = thread, overwrote' = overwrote,
         told' \in Nat, crashes' \in Nat, silenced' \in BOOLEAN,
         ~overwrote /\ where \in {"loaded", "asked", "reclaiming"} => rec = disk /\ Open(disk),
         ~overwrote /\ where = "reclaiming" => Interrupted(disk)
  PROVE  Inv'
<1>1. Types' /\ Places
  BY TypeParts DEF Inv, Types
<1>2. TypeOK'
  BY <1>1, TypeParts DEF TypeOK, Types, Places, Somewhere
<1>3. ASSUME ~overwrote PROVE CopyIsCurrent'
  BY <1>1, <1>3, CurrentKept DEF Inv, Kept
<1>. QED
  BY <1>2, <1>3 DEF Inv, Kept

LEMMA LeavingQuietly ==
  ASSUME Inv, NEW p \in Proc, Leaves(p), disk' = disk, thread' = thread, overwrote' = overwrote,
         told' \in Nat, crashes' \in Nat, silenced' \in BOOLEAN
  PROVE  Inv'
<1>1. Moves(p, "idle", NoRecord)
  BY DEF Leaves
<1>2. Places'
  BY LeavesPlaces, TypeParts DEF Inv
<1>. QED
  BY <1>1, <1>2, Untouched

\* A save of the holder, which keeps file and thread in step.
LEMMA Saving ==
  ASSUME Inv, Places', NEW p \in Proc, NEW where, NEW rec, Moves(p, where, rec),
         at[p] \in {"loaded", "asked", "reclaiming"},
         disk' \in Record, thread' \in Rounds, overwrote' = overwrote,
         told' \in Nat, crashes' \in Nat, silenced' \in BOOLEAN,
         ~overwrote => disk'.rounds = thread' /\ Len(thread') <= MaxRounds,
         ~overwrote /\ where \in {"loaded", "asked", "reclaiming"} => rec = disk' /\ Open(disk'),
         where # "reclaiming"
  PROVE  Inv'
<1>1. Types' /\ Places
  BY TypeParts DEF Inv, Types
<1>2. TypeOK'
  BY <1>1, TypeParts DEF TypeOK, Types, Places, Somewhere
<1>3. ASSUME ~overwrote PROVE CopyIsCurrent'
  BY <1>1, <1>3, CurrentKept DEF Inv, Kept, Holding
<1>. QED
  BY <1>2, <1>3 DEF Inv, Kept

LEMMA NextInv == Inv /\ [Next]_vars => Inv'
<1>. SUFFICES ASSUME Inv, [Next]_vars PROVE Inv'
  OBVIOUS
<1>0. Types /\ Places /\ TypeOK
  BY TypeParts DEF Inv
<1>a. told \in Nat /\ crashes \in Nat /\ silenced \in BOOLEAN /\ MaxRounds \in Nat
  BY <1>0, ExchangeAssumption DEF Types
<1>b. \A p \in Proc : /\ at[p] \in Holding => lease = p
                      /\ copy[p] \in Record
  BY <1>0 DEF Places
<1>c. disk \in Record /\ thread \in Rounds
  BY <1>0 DEF Types
<1>d. \A p \in Proc : ~overwrote /\ at[p] \in {"loaded", "asked", "reclaiming"} =>
                       copy[p] = disk /\ Open(disk) /\ copy[p].rounds = thread
  BY DEF Inv, Kept, CopyIsCurrent

<1>1. ASSUME NEW p \in Proc, Holds(p) PROVE Inv'
  <2>1. Moves(p, "held", copy[p]) /\ lease' = p /\ lease = Nobody
    BY <1>1 DEF Holds, Goes
  <2>2. Places'
    BY <1>0, <1>b, <2>1, MovesPlaces DEF Holding, Somewhere, Places
  <2>. QED
    BY <1>1, <1>a, <2>1, <2>2, Untouched DEF Holds

<1>2. ASSUME NEW p \in Proc, Loads(p) PROVE Inv'
  <2>1. CASE Open(disk)
    <3>1. Moves(p, "loaded", disk) /\ lease' = lease /\ lease = p
      BY <1>2, <1>b, <2>1 DEF Loads, Holding
    <3>2. Places'
      BY <1>0, <1>c, <3>1, MovesPlaces DEF Holding, Somewhere
    <3>. QED
      BY <1>2, <1>a, <2>1, <3>1, <3>2, Untouched DEF Loads
  <2>2. CASE ~Open(disk)
    BY <1>2, <1>a, <2>2, LeavingQuietly DEF Loads
  <2>. QED
    BY <2>1, <2>2

<1>3. ASSUME NEW p \in Proc, Settles(p) PROVE Inv'
  <2>1. Leaves(p) /\ Moves(p, "idle", NoRecord)
    BY <1>3 DEF Settles, Leaves
  <2>2. Places'
    BY <1>0, <2>1, LeavesPlaces
  <2>3. disk' \in Record /\ disk'.rounds = copy[p].rounds
    BY <1>3, <1>b, RecordParts DEF Settles
  <2>4. ~overwrote => disk'.rounds = thread /\ Len(thread) <= MaxRounds
    BY <1>3, <1>d, <2>3 DEF Inv, Kept, Settles
  <2>. QED
    BY <1>3, <1>a, <1>c, <2>1, <2>2, <2>3, <2>4, Saving DEF Settles

<1>4. ASSUME NEW p \in Proc, Refused(p) PROVE Inv'
  BY <1>4, <1>a, LeavingQuietly DEF Refused

<1>5. ASSUME NEW p \in Proc, Asks(p) PROVE Inv'
  <2>. DEFINE round == [by |-> p, said |-> "nothing"]
              asking == [copy[p] EXCEPT !.rounds = Append(copy[p].rounds, round)]
  <2>1. /\ disk' = asking /\ Moves(p, "asked", asking) /\ thread' = Append(thread, round)
        /\ lease' = lease /\ lease = p /\ at[p] = "loaded" /\ Len(copy[p].rounds) < MaxRounds
    BY <1>5, <1>b DEF Asks, Recorded, Holding, Spent
  <2>2. Append(copy[p].rounds, round) \in Rounds /\ thread' \in Rounds
    BY <1>b, <1>c, <2>1, AskingGrows, RecordParts
  <2>3. asking \in Record /\ asking.rounds = Append(copy[p].rounds, round)
        /\ Open(asking) = Open(copy[p])
    BY <1>b, <2>2, RecordParts
  <2>4. Places'
    <3>. HIDE DEF asking
    <3>. QED
      BY <1>0, <2>1, <2>3, MovesPlaces DEF Holding, Somewhere
  <2>5. ~overwrote => asking.rounds = thread' /\ Len(thread') <= MaxRounds /\ Open(asking)
    <3>1. Len(thread') = Len(thread) + 1 /\ Len(thread) \in Nat
      BY <1>c, <2>1, AskingGrows, LenProperties DEF Rounds
    <3>. QED
      BY <1>d, <1>a, <2>1, <2>3, <3>1
  <2>. QED
    <3>. HIDE DEF asking
    <3>. QED
      BY <1>5, <1>a, <2>1, <2>2, <2>3, <2>4, <2>5, Saving DEF Asks

<1>6. ASSUME NEW p \in Proc, NEW said \in {"answer", "problem"}, Answers(p, said) PROVE Inv'
  <2>. DEFINE rounds == Saying(copy[p].rounds, said)
              answered == [copy[p] EXCEPT !.rounds = rounds]
  <2>1. /\ disk' = answered /\ thread' = Saying(thread, said) /\ Moves(p, "carrying", NoRecord)
        /\ at[p] = "asked" /\ lease' = IF lease = p THEN Nobody ELSE lease
    BY <1>6 DEF Answers, Releases
  <2>2. rounds \in Rounds /\ thread' \in Rounds /\ Len(thread') = Len(thread)
    BY <1>b, <1>c, <2>1, SayingKeepsLength, RecordParts DEF Said
  <2>3. answered \in Record /\ answered.rounds = rounds
    <3>. HIDE DEF rounds
    <3>. QED
      BY <1>b, <2>2, RecordParts
  <2>4. Places'
    BY <1>0, <2>1, EmptyRecord, MovesPlaces DEF Holding, Somewhere
  <2>5. ~overwrote => disk'.rounds = thread' /\ Len(thread') <= MaxRounds
    BY <1>d, <2>1, <2>2, <2>3 DEF Inv, Kept
  <2>. QED
    <3>. HIDE DEF answered, rounds
    <3>. QED
      BY <1>6, <1>a, <2>1, <2>2, <2>3, <2>4, <2>5, Saving DEF Answers

<1>7. ASSUME NEW p \in Proc, Exhausts(p) PROVE Inv'
  <2>1. Moves(p, "telling", copy[p]) /\ lease' = lease /\ lease = p /\ at[p] = "loaded"
    BY <1>7, <1>b DEF Exhausts, Goes, Holding
  <2>2. Places'
    BY <1>0, <1>b, <2>1, MovesPlaces DEF Holding, Somewhere
  <2>3. disk' \in Record /\ disk'.rounds = copy[p].rounds
    BY <1>7, <1>b, RecordParts DEF Exhausts
  <2>4. ~overwrote => disk'.rounds = thread /\ Len(thread) <= MaxRounds
    BY <1>d, <2>1, <2>3 DEF Inv, Kept
  <2>. QED
    BY <1>7, <1>a, <1>c, <2>1, <2>2, <2>3, <2>4, Saving DEF Exhausts

<1>8. ASSUME NEW p \in Proc, Tells(p) PROVE Inv'
  <2>1. told' \in Nat
    BY <1>8, <1>a DEF Tells
  <2>. QED
    BY <1>8, <1>a, <2>1, LeavingQuietly DEF Tells

<1>8a. ASSUME NEW p \in Proc, TellFails(p) PROVE Inv'
  <2>1. silenced' \in BOOLEAN
    BY <1>8a DEF TellFails
  <2>. QED
    BY <1>8a, <1>a, <2>1, LeavingQuietly DEF TellFails

<1>9. ASSUME NEW p \in Proc, CostsNothing(p) PROVE Inv'
  BY <1>9, <1>a, LeavingQuietly DEF CostsNothing

<1>10. ASSUME NEW p \in Proc, ChargeLoads(p) PROVE Inv'
  <2>1. Moves(p, "charging", disk) /\ lease' = lease /\ at[p] = "carrying"
    BY <1>10 DEF ChargeLoads
  <2>2. Places'
    BY <1>0, <1>c, <2>1, MovesPlaces DEF Holding, Somewhere
  <2>. QED
    BY <1>10, <1>a, <2>1, <2>2, Untouched DEF ChargeLoads

<1>11. ASSUME NEW p \in Proc, ChargeSaves(p) PROVE Inv'
  <2>1. Leaves(p) /\ disk' = copy[p] /\ overwrote' = (overwrote \/ copy[p] # disk)
        /\ UNCHANGED <<told, crashes, thread, silenced>>
    BY <1>11 DEF ChargeSaves
  <2>2. CASE copy[p] = disk
    BY <1>0, <1>a, <2>1, <2>2, LeavingQuietly DEF Types
  <2>3. CASE copy[p] # disk
    <3>1. Places' /\ Types'
      BY <1>0, <1>b, <2>1, <2>3, LeavesPlaces DEF Types
    <3>2. TypeOK'
      BY <3>1 DEF TypeOK, Types, Places, Somewhere
    <3>. QED
      BY <2>1, <2>3, <3>2 DEF Inv
  <2>. QED
    BY <2>2, <2>3

<1>12. ASSUME NEW p \in Proc, Lists(p) PROVE Inv'
  <2>1. Moves(p, "listed", disk) /\ lease' = lease /\ at[p] = "idle"
    BY <1>12 DEF Lists
  <2>2. Places'
    BY <1>0, <1>c, <2>1, MovesPlaces DEF Holding, Somewhere
  <2>. QED
    BY <1>12, <1>a, <2>1, <2>2, Untouched DEF Lists

<1>13. ASSUME NEW p \in Proc, Skips(p) PROVE Inv'
  BY <1>13, <1>a, LeavingQuietly DEF Skips

<1>14. ASSUME NEW p \in Proc, SweepHolds(p) PROVE Inv'
  <2>1. Moves(p, "sweeping", copy[p]) /\ lease' = p /\ lease = Nobody
    BY <1>14 DEF SweepHolds, Goes
  <2>2. Places'
    BY <1>0, <1>b, <2>1, MovesPlaces DEF Holding, Somewhere
  <2>. QED
    BY <1>14, <1>a, <2>1, <2>2, Untouched DEF SweepHolds

<1>15. ASSUME NEW p \in Proc, Surveys(p) PROVE Inv'
  <2>0. at[p] = "sweeping" /\ lease = p
    BY <1>15, <1>b DEF Surveys, Holding
  <2>1. CASE Open(disk) /\ Interrupted(disk)
    <3>1. Moves(p, "reclaiming", disk) /\ lease' = lease
      BY <1>15, <2>1 DEF Surveys, Current
    <3>2. Places'
      BY <1>0, <1>c, <2>0, <3>1, MovesPlaces DEF Holding, Somewhere
    <3>. QED
      BY <1>15, <1>a, <2>1, <3>1, <3>2, Untouched DEF Surveys
  <2>2. CASE Open(disk) /\ ~Interrupted(disk) /\ Spent(disk) >= MaxRounds
    <3>1. Moves(p, "loaded", disk) /\ lease' = lease
      BY <1>15, <2>2 DEF Surveys, Current
    <3>2. Places'
      BY <1>0, <1>c, <2>0, <3>1, MovesPlaces DEF Holding, Somewhere
    <3>. QED
      BY <1>15, <1>a, <2>2, <3>1, <3>2, Untouched DEF Surveys
  <2>3. CASE ~(Open(disk) /\ (Interrupted(disk) \/ Spent(disk) >= MaxRounds))
    BY <1>15, <1>a, <2>3, LeavingQuietly DEF Surveys, Current
  <2>. QED
    BY <2>1, <2>2, <2>3

<1>16. ASSUME NEW p \in Proc, Reclaims(p) PROVE Inv'
  <2>. DEFINE rounds == Saying(copy[p].rounds, "problem")
              reclaimed == [copy[p] EXCEPT !.rounds = rounds]
  <2>1. /\ disk' = reclaimed /\ at[p] = "reclaiming" /\ lease = p
        /\ UNCHANGED <<told, crashes, overwrote, silenced>>
    BY <1>16, <1>b DEF Reclaims, Holding
  <2>2. rounds \in Rounds /\ Saying(thread, "problem") \in Rounds
        /\ Len(Saying(thread, "problem")) = Len(thread)
    BY <1>b, <1>c, SayingKeepsLength, RecordParts DEF Said
  <2>3. reclaimed \in Record /\ reclaimed.rounds = rounds /\ Open(reclaimed) = Open(copy[p])
    <3>. HIDE DEF rounds
    <3>. QED
      BY <1>b, <2>2, RecordParts
  <2>4. thread' \in Rounds
    BY <1>16, <1>c, <2>2 DEF Reclaims
  <2>5. ~overwrote => disk'.rounds = thread' /\ Len(thread') <= MaxRounds /\ Open(reclaimed)
    <3>. SUFFICES ASSUME ~overwrote PROVE disk'.rounds = thread' /\ Len(thread') <= MaxRounds /\ Open(reclaimed)
      OBVIOUS
    <3>1. Interrupted(disk) /\ disk.rounds = thread
      BY <2>1 DEF Inv, Kept, CopyIsCurrent
    <3>2. Interrupted([rounds |-> thread])
      BY <3>1 DEF Interrupted, Spent
    <3>3. thread' = Saying(thread, "problem")
      BY <1>16, <3>2 DEF Reclaims
    <3>. QED
      BY <1>d, <2>1, <2>2, <2>3, <3>3 DEF Inv, Kept
  <2>6. CASE Spent(reclaimed) >= MaxRounds
    <3>1. Moves(p, "loaded", reclaimed) /\ lease' = lease
      BY <1>16, <2>6 DEF Reclaims
    <3>. HIDE DEF reclaimed, rounds
    <3>2. Places'
      BY <1>0, <2>1, <2>3, <3>1, MovesPlaces DEF Holding, Somewhere
    <3>. QED
      BY <1>a, <2>1, <2>3, <2>4, <2>5, <3>1, <3>2, Saving
  <2>7. CASE ~(Spent(reclaimed) >= MaxRounds)
    <3>1. Leaves(p) /\ Moves(p, "idle", NoRecord)
      BY <1>16, <2>7 DEF Reclaims, Leaves
    <3>2. Places'
      BY <1>0, <3>1, LeavesPlaces
    <3>. HIDE DEF reclaimed, rounds
    <3>. QED
      BY <1>a, <2>1, <2>3, <2>4, <2>5, <3>1, <3>2, Saving
  <2>. QED
    BY <2>6, <2>7

<1>17. ASSUME NEW p \in Proc, Dies(p) PROVE Inv'
  <2>1. crashes' \in Nat /\ silenced' \in BOOLEAN
    BY <1>17, <1>a DEF Dies
  <2>. QED
    BY <1>17, <1>a, <2>1, LeavingQuietly DEF Dies

<1>18. CASE UNCHANGED vars
  BY <1>18, <1>0 DEF vars, Inv, Kept, CopyIsCurrent, TypeOK, Record, Rounds, Open, Interrupted, Spent
<1>19. CASE Next
  <2>1. \A p \in Askers : p \in Proc
    BY DEF Proc
  <2>2. \A p \in Sweepers : p \in Proc
    BY DEF Proc
  <2>. QED
    BY <1>1, <1>2, <1>3, <1>4, <1>5, <1>6, <1>7, <1>8, <1>8a, <1>9, <1>10, <1>11, <1>12, <1>13, <1>14,
       <1>15, <1>16, <1>17, <1>19, <2>1, <2>2 DEF Next, AskerStep, SweeperStep
<1>. QED
  BY <1>18, <1>19

-----------------------------------------------------------------------------

\* The types, and the lease with the one process that works on the record, for
\* every number of conversations and passes.
THEOREM TypeCorrect == Spec => []TypeOK
<1>1. Inv => TypeOK
  BY DEF Inv
<1>. QED
  BY InitInv, NextInv, <1>1, PTL DEF Spec

\* Until a charge overwrites it, the record holds every round that was put with what
\* came of it, and no more than the cap.
THEOREM RecordKept == Spec => []RecordKeepsRounds
<1>1. Inv => RecordKeepsRounds
  BY DEF Inv, Kept, RecordKeepsRounds
<1>. QED
  BY InitInv, NextInv, <1>1, PTL DEF Spec

\* Whoever writes the record without charging it found it open.
LEMMA ClosedIsLeftAlone ==
  Inv /\ [Next]_vars => (~Open(disk) /\ ~overwrote' => disk' = disk)
<1>. SUFFICES ASSUME Inv, [Next]_vars, ~Open(disk), ~overwrote' PROVE disk' = disk
  OBVIOUS
<1>1. CASE UNCHANGED vars
  BY <1>1 DEF vars
<1>2. ASSUME NEW p \in Proc, ChargeSaves(p) PROVE disk' = disk
  BY <1>2 DEF ChargeSaves
<1>3. ASSUME NEW p \in Proc,
             \/ Settles(p) \/ Asks(p) \/ Exhausts(p) \/ Reclaims(p)
             \/ \E said \in {"answer", "problem"} : Answers(p, said)
      PROVE  FALSE
  <2>1. overwrote' = overwrote /\ at[p] \in {"loaded", "asked", "reclaiming"}
    BY <1>3 DEF Settles, Asks, Exhausts, Reclaims, Answers
  <2>. QED
    BY <2>1 DEF Inv, Kept, CopyIsCurrent
<1>4. CASE Next
  <2>1. Askers \subseteq Proc /\ Sweepers \subseteq Proc
    BY DEF Proc
  <2>. QED
    BY <1>2, <1>3, <1>4, <2>1
       DEF Next, AskerStep, SweeperStep, Holds, Loads, Refused, Tells, TellFails, CostsNothing, ChargeLoads,
           Lists, Skips, SweepHolds, Surveys, Dies
<1>. QED
  BY <1>1, <1>4

\* An exchange is closed once and stays as it was closed, until a charge overwrites it.
THEOREM ClosedForGood == Spec => ClosedOnce
<1>1. Inv /\ [Next]_vars => [~Open(disk) /\ ~overwrote' => disk' = disk]_vars
  BY ClosedIsLeftAlone
<1>. QED
  BY InitInv, NextInv, <1>1, PTL DEF Spec, ClosedOnce

=============================================================================
