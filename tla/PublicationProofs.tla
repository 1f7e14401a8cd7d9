-------------------------- MODULE PublicationProofs --------------------------
(***************************************************************************)
(* Theorems about publication, for any number of re-arming processes,      *)
(* versions, resumptions, decisions, lost answers and killed processes.    *)
(*                                                                         *)
(* Each invariant is made inductive by saying what is known at the steps   *)
(* between reading the forge and saving the record.  Of the records only   *)
(* the fields that an argument reads have to be there.                     *)
(***************************************************************************)
EXTENDS Publication, TLAPS

-----------------------------------------------------------------------------
(* Types: what the forge, git and the records of the run can be. *)

\* The types, and two places where the holder has saved all it knows; every
\* head is a version that was made or empty, which is what approvals range over.
TypeInv ==
  /\ TypeOK
  /\ pc \in {"clean", "repeat"} => mem = rec
  /\ {rec.head.number, mem.head.number} \subseteq 0 .. versions

\* A version of the record that keeps the run's head.
Rewrites(m) == m \in Record /\ m.head \in {mem.head, rec.head}

\* What a step may leave on the record and in memory.
RecordsTyped ==
  /\ mem' \in Record /\ rec' \in {rec, mem'}
  /\ mem'.head.number \in 0 .. versions' /\ versions' \in versions .. versions + 1

\* Every step leaves a record: what it saves or notes is one with some fields
\* set, and the head is a version that was made or empty.
LEMMA RecordStep == TypeInv /\ [Next]_vars => RecordsTyped
<1> SUFFICES ASSUME TypeInv, [Next]_vars PROVE RecordsTyped
  OBVIOUS
<1>a. /\ mem \in Record /\ rec \in Record /\ versions \in Nat /\ local \in Nat
      /\ forge.head \in Version /\ NoVersion \in Version
      /\ {mem.head.number, rec.head.number} \subseteq 0 .. versions
  BY DEF TypeInv, TypeOK, Version, NoVersion
<1>b. {mem.head, mem.prHead, mem.landed, rec.landed} \subseteq Version
  BY <1>a DEF Record
<1>c. mem.rearms + 1 \in Nat /\ mem.resumed + 1 \in Nat
  BY <1>a DEF Record
<1>d. \A m : Rewrites(m) /\ mem' = m /\ rec' \in {rec, mem'} /\ versions' = versions => RecordsTyped
  BY <1>a DEF Rewrites, RecordsTyped
<1>e. Rewrites(mem) /\ Rewrites(rec)
  BY <1>a DEF Rewrites
<1>1. CASE \/ SettleRemoteTarget \/ TargetHeld \/ IntegrateFails \/ TargetDrifted
          \/ RecordLanding \/ VerifyRemoteTarget \/ AskMerges \/ AskLost
  <2>1. mem' = mem /\ rec' \in {rec, mem'} /\ versions' = versions
    BY <1>1 DEF SettleRemoteTarget, TargetHeld, IntegrateFails, TargetDrifted, RecordLanding,
        VerifyRemoteTarget, AskMerges, AskLost, Save, Note, git
  <2> QED BY <1>d, <1>e, <2>1
<1>2. CASE \/ NothingPublished \/ NotAsked \/ ReplayUnlanded \/ AskQueues
          \/ AskRefused
  <2>1. Rewrites([mem EXCEPT !.failure = "lost"])
    BY <1>a, <1>b, <1>c DEF Rewrites, Record
  <2>2. Rewrites(Dropped(mem))
    BY <1>a, <1>b, <1>c DEF Rewrites, Record, Dropped
  <2>3. Rewrites([mem EXCEPT !.landed = NoVersion])
    BY <1>a, <1>b, <1>c DEF Rewrites, Record
  <2>4. Rewrites([mem EXCEPT !.queued = TRUE, !.method = TRUE])
    BY <1>a, <1>b, <1>c DEF Rewrites, Record
  <2> QED BY <1>d, <1>e, <1>2, <2>1, <2>2, <2>3, <2>4
       DEF NothingPublished, NotAsked, ReplayUnlanded, AskQueues, AskRefused, Save, Note,
           git
<1>3. CASE \/ MergeAnswered \/ MergeUnread \/ MergeNotReported \/ ConfirmMerge
          \/ PublishingFails
  <2>1. Rewrites([mem EXCEPT !.merged = TRUE, !.method = TRUE])
    BY <1>a, <1>b, <1>c DEF Rewrites, Record
  <2>2. Rewrites([mem EXCEPT !.failure = "outstanding"])
    BY <1>a, <1>b, <1>c DEF Rewrites, Record
  <2>3. Rewrites([Dropped(mem) EXCEPT !.method = TRUE])
    BY <1>a, <1>b, <1>c DEF Rewrites, Record, Dropped
  <2>4. Rewrites([mem EXCEPT !.confirmed = TRUE])
    BY <1>a, <1>b, <1>c DEF Rewrites, Record
  <2> QED BY <1>d, <1>e, <1>3, <2>1, <2>2, <2>3, <2>4
       DEF MergeAnswered, MergeUnread, MergeNotReported, ConfirmMerge, PublishingFails,
           Save, Note, git
<1>4. CASE \/ SaveQueued \/ DeleteBranch \/ CompleteItem \/ CleanUpFails
          \/ BlockFails \/ SaveRetry \/ ReplayFails \/ Republish
          \/ NothingToRepublish
  <2>1. mem' = mem /\ rec' \in {rec, mem'} /\ versions' = versions
    BY <1>4 DEF SaveQueued, DeleteBranch, CompleteItem, CleanUpFails, BlockFails, SaveRetry,
        ReplayFails, Republish, NothingToRepublish, Save, Note, git
  <2> QED BY <1>d, <1>e, <2>1
<1>5. CASE \/ SaveCompleting \/ CompleteFails \/ SaveSucceeded \/ CleanUp
          \/ Block \/ FailRun
  <2>1. Rewrites([mem EXCEPT !.phase = "completing"])
    BY <1>a, <1>b, <1>c DEF Rewrites, Record
  <2>2. Rewrites([mem EXCEPT !.status = "failed"])
    BY <1>a, <1>b, <1>c DEF Rewrites, Record
  <2>3. Rewrites([mem EXCEPT !.status = "succeeded", !.phase = "cleaning_up"])
    BY <1>a, <1>b, <1>c DEF Rewrites, Record
  <2>4. Rewrites([mem EXCEPT !.phase = "complete"])
    BY <1>a, <1>b, <1>c DEF Rewrites, Record
  <2>5. Rewrites([mem EXCEPT !.blocker = TRUE])
    BY <1>a, <1>b, <1>c DEF Rewrites, Record
  <2> QED BY <1>d, <1>e, <1>5, <2>1, <2>2, <2>3, <2>4, <2>5
       DEF SaveCompleting, CompleteFails, SaveSucceeded, CleanUp, Block, FailRun, Save,
           Note, git
<1>6. CASE \/ SaveRepublished \/ ClearVerdict \/ Gate \/ SaveUpdate
  <2>1. Rewrites([mem EXCEPT !.prHead = mem.head])
    BY <1>a, <1>b, <1>c DEF Rewrites, Record
  <2>2. Rewrites([mem EXCEPT !.approved = FALSE])
    BY <1>a, <1>b, <1>c DEF Rewrites, Record
  <2>3. Rewrites([mem EXCEPT !.approved = TRUE])
    BY <1>a, <1>b, <1>c DEF Rewrites, Record
  <2>4. Rewrites([mem EXCEPT !.status = "running", !.phase = "integrating", !.landed = NoVersion,
                      !.queued = FALSE, !.failure = "none", !.blocker = FALSE,
                      !.resumed = @ + 1])
    BY <1>a, <1>b, <1>c DEF Rewrites, Record
  <2> QED BY <1>d, <1>e, <1>6, <2>1, <2>2, <2>3, <2>4
       DEF SaveRepublished, ClearVerdict, Gate, SaveUpdate, Save, Note, git
<1>7. CASE \/ HandBack \/ CloseSettled \/ FinishItem \/ SaveArmed \/ SettleItem
  <2>1. mem' = mem /\ rec' \in {rec, mem'} /\ versions' = versions
    BY <1>7 DEF HandBack, CloseSettled, FinishItem, SaveArmed, SettleItem, Save, Note, git
  <2> QED BY <1>d, <1>e, <2>1
<1>8. CASE \/ SaveHandedBack \/ DeleteLeftover \/ SaveFinished \/ AskRecovered
  <2>1. Rewrites([mem EXCEPT !.blocker = TRUE, !.status = IF Terminal(mem) THEN @ ELSE "failed"])
    BY <1>a, <1>b, <1>c DEF Rewrites, Record
  <2>2. Rewrites([mem EXCEPT !.failure = "outstanding"])
    BY <1>a, <1>b, <1>c DEF Rewrites, Record
  <2>3. Rewrites([mem EXCEPT !.phase = "cleaning_up",
                      !.status = IF Terminal(mem) THEN @ ELSE "succeeded"])
    BY <1>a, <1>b, <1>c DEF Rewrites, Record
  <2>4. Rewrites(Armed(mem))
    BY <1>a, <1>b, <1>c DEF Rewrites, Record, Armed
  <2>5. Rewrites(Dropped(mem))
    BY <1>a, <1>b, <1>c DEF Rewrites, Record, Dropped
  <2> QED BY <1>d, <1>e, <1>8, <2>1, <2>2, <2>3, <2>4, <2>5
       DEF SaveHandedBack, DeleteLeftover, SaveFinished, AskRecovered, Save, Note, git
<1>9. CASE \/ SaveSettled \/ LeaveConsumedBranch \/ ChargeRearm \/ RepeatMerge
  <2>1. Rewrites([mem EXCEPT !.failure = "none", !.blocker = @ /\ ~HandedBack(mem)])
    BY <1>a, <1>b, <1>c DEF Rewrites, Record
  <2>2. Rewrites([mem EXCEPT !.failure = "outstanding"])
    BY <1>a, <1>b, <1>c DEF Rewrites, Record
  <2>3. Rewrites([mem EXCEPT !.rearms = @ + 1])
    BY <1>a, <1>b, <1>c DEF Rewrites, Record
  <2>4. Rewrites([mem EXCEPT !.queued = TRUE, !.failure = "none", !.blocker = FALSE])
    BY <1>a, <1>b, <1>c DEF Rewrites, Record
  <2> QED BY <1>d, <1>e, <1>9, <2>1, <2>2, <2>3, <2>4
       DEF SaveSettled, LeaveConsumedBranch, ChargeRearm, RepeatMerge, Save, Note, git
<1>10. CASE \/ Abandon \/ UpdateQueuedHead \/ ContinueUpdate \/ Integrated
          \/ Converge
  <2>1. mem' = mem /\ rec' \in {rec, mem'} /\ versions' = versions
    BY <1>10 DEF Abandon, UpdateQueuedHead, ContinueUpdate, Integrated, Converge, Save, Note, git
  <2> QED BY <1>d, <1>e, <2>1
<1>11. CASE \/ QueuedMerged \/ QueuedDropped \/ HandBackRed
  <2>1. Rewrites([rec EXCEPT !.queued = FALSE, !.merged = TRUE, !.confirmed = TRUE])
    BY <1>a, <1>b, <1>c DEF Rewrites, Record
  <2>2. Rewrites([rec EXCEPT !.queued = FALSE, !.merged = TRUE, !.failure = "outstanding"])
    BY <1>a, <1>b, <1>c DEF Rewrites, Record
  <2>3. Rewrites([Dropped(rec) EXCEPT !.queued = FALSE])
    BY <1>a, <1>b, <1>c DEF Rewrites, Record, Dropped
  <2> QED BY <1>d, <1>e, <1>11, <2>1, <2>2, <2>3
       DEF QueuedMerged, QueuedDropped, HandBackRed, Save, Note, git
<1>12. CASE \/ InterruptedMerged \/ InterruptedQueued \/ InterruptedUnlanded
  <2>1. \A left \in {rec.failure, "outstanding"} :
          Rewrites([Known(rec) EXCEPT !.merged = TRUE, !.confirmed = TRUE, !.failure = left])
    BY <1>a, <1>b, <1>c DEF Rewrites, Record, Known
  <2>2. Rewrites([Known(rec) EXCEPT !.merged = TRUE, !.failure = "outstanding"])
    BY <1>a, <1>b, <1>c DEF Rewrites, Record, Known
  <2>3. Rewrites([Known(rec) EXCEPT !.queued = TRUE, !.status = "succeeded",
                             !.phase = "cleaning_up"])
    BY <1>a, <1>b, <1>c DEF Rewrites, Record, Known
  <2>4. Rewrites([Known(rec) EXCEPT !.failure = "outstanding"])
    BY <1>a, <1>b, <1>c DEF Rewrites, Record, Known
  <2> QED BY <1>d, <1>e, <1>12, <2>1, <2>2, <2>3, <2>4
       DEF InterruptedMerged, InterruptedQueued, InterruptedUnlanded, Save, Note, git
<1>13. CASE \/ RecoverRequest \/ ArmRecovered \/ RefreshPublication
          \/ FinishPublication
  <2>1. Rewrites([Recovered(rec) EXCEPT !.merged = TRUE, !.failure = "outstanding"])
    BY <1>a, <1>b, <1>c DEF Rewrites, Record, Recovered
  <2>2. Rewrites([Recovered(rec) EXCEPT !.queued = TRUE, !.failure = "none"])
    BY <1>a, <1>b, <1>c DEF Rewrites, Record, Recovered
  <2>3. Rewrites(Dropped(Recovered(rec)))
    BY <1>a, <1>b, <1>c DEF Rewrites, Record, Dropped, Recovered
  <2>4. Rewrites(Recovered(rec))
    BY <1>a, <1>b, <1>c DEF Rewrites, Record, Recovered
  <2>5. Rewrites([rec EXCEPT !.merged = TRUE, !.queued = FALSE])
    BY <1>a, <1>b, <1>c DEF Rewrites, Record
  <2>6. Rewrites([rec EXCEPT !.confirmed = TRUE])
    BY <1>a, <1>b, <1>c DEF Rewrites, Record
  <2> QED BY <1>d, <1>e, <1>13, <2>1, <2>2, <2>3, <2>4, <2>5, <2>6
       DEF RecoverRequest, ArmRecovered, RefreshPublication, FinishPublication, Save,
           Note, git
<1>20. CASE PrepareLanding
  <2>1. /\ Rewrites([mem EXCEPT !.landed = mem.head])
        /\ Rewrites([mem EXCEPT !.landed = NewVersion(mem.head.base)])
    BY <1>a, <1>b DEF Rewrites, Record, NewVersion, Version
  <2>2. mem' \in Record /\ mem'.head \in {mem.head, rec.head}
    BY <1>20, <2>1 DEF PrepareLanding, Rewrites, Note
  <2>3. rec' = rec /\ versions' \in {versions, versions + 1}
    BY <1>20 DEF PrepareLanding, Note
  <2> QED BY <1>a, <2>2, <2>3 DEF RecordsTyped
<1>21. CASE Rebase
  <2>1. /\ [mem EXCEPT !.head = NewVersion(local)] \in Record
        /\ [mem EXCEPT !.head = NewVersion(local)].head.number = versions + 1
    BY <1>a DEF Record, NewVersion, Version
  <2>2. CASE UNCHANGED <<rec, mem, versions>>
    BY <1>d, <1>e, <2>2
  <2>4. /\ [mem EXCEPT !.head = [base |-> local, number |-> 0]] \in Record
        /\ [mem EXCEPT !.head = [base |-> local, number |-> 0]].head.number = 0
    BY <1>a DEF Record, Version
  <2>5. CASE /\ Save([mem EXCEPT !.head = [base |-> local, number |-> 0]])
             /\ UNCHANGED versions
    BY <1>a, <2>4, <2>5 DEF RecordsTyped, Save
  <2>3. CASE Save([mem EXCEPT !.head = NewVersion(local)]) /\ versions' = versions + 1
    BY <1>a, <2>1, <2>3 DEF RecordsTyped, Save
  <2> QED BY <1>21, <2>2, <2>3, <2>5 DEF Rebase
<1>22. CASE Rearms \/ Outside
  <2>1. mem' = mem /\ rec' = rec /\ versions' = versions
    BY <1>22 DEF Rearms, Decide, CheckRearm, BeginRearm, RearmRefused, Outside, ForgeMerges,
       ForgeDrops, PersonMerges, CommitElsewhere, git
  <2> QED BY <1>d, <1>e, <2>1
<1>23. CASE Crash
  <2>1. mem' = rec /\ rec' = rec /\ versions' = versions
    BY <1>23 DEF Crash, git
  <2> QED BY <1>d, <1>e, <2>1
<1>24. CASE UNCHANGED vars
  <2>1. mem' = mem /\ rec' = rec /\ versions' = versions
    BY <1>24 DEF vars, git
  <2> QED BY <1>d, <1>e, <2>1
<1> QED BY <1>1, <1>2, <1>3, <1>4, <1>5, <1>6, <1>7, <1>8, <1>9, <1>10, <1>11, <1>12,
       <1>13, <1>20, <1>21, <1>22, <1>23, <1>24 DEF Next, HolderStep, Sweep


\* The pull request as the forge has it.
Request == [state : {"open", "merged"}, head : Version, auto : BOOLEAN]

\* Every step keeps the types, and a run nobody holds is what its record says.
LEMMA TypeStep == TypeInv /\ [Next]_vars => TypeInv'
<1> SUFFICES ASSUME TypeInv, [Next]_vars PROVE TypeInv'
  OBVIOUS
<1>a. /\ mem' \in Record /\ rec' \in Record /\ versions' \in Nat
      /\ {rec'.head.number, mem'.head.number} \subseteq 0 .. versions'
      /\ approved \subseteq 0 .. versions'
  BY RecordStep DEF RecordsTyped, TypeInv, TypeOK
<1>b. /\ mem.head \in Version /\ mem.head.number \in 0 .. versions
      /\ {rec.rearms, forge.head.number} \subseteq Nat
  BY DEF TypeInv, TypeOK, Record, Version
<1>c. /\ Arms => forge' \in Request /\ remote' = remote /\ local' = local
      /\ Withdraw => forge' \in Request /\ remote' = remote /\ local' = local
  BY DEF TypeInv, TypeOK, Arms, Withdraw, Request
<1>d. Merges => /\ forge' \in Request /\ remote' \in Seq(Nat)
                /\ local' = local /\ local \in 0 .. Len(remote')
  <2>1. \A number \in Nat : /\ Append(remote, number) \in Seq(Nat)
                            /\ Len(Append(remote, number)) = Len(remote) + 1
    BY DEF TypeInv, TypeOK
  <2>2. forge \in Request /\ Len(remote) \in Nat /\ local \in 0 .. Len(remote)
    BY DEF TypeInv, TypeOK, Request
  <2>3. [forge EXCEPT !.state = "merged", !.auto = FALSE] \in Request
    BY <2>2 DEF Request
  <2>4. \A n \in Nat : local \in 0 .. n => local \in 0 .. n + 1
    OBVIOUS
  <2> QED BY <1>b, <2>1, <2>2, <2>3, <2>4 DEF Merges
<1>e. CatchesUp \/ MayCatchUp => local' \in 0 .. Len(remote)
  BY DEF TypeInv, TypeOK, CatchesUp, MayCatchUp
<1> USE <1>a DEF TypeInv, TypeOK, Steps, Request
<1>1. CASE \/ TargetHeld \/ IntegrateFails \/ TargetDrifted \/ RecordLanding
          \/ NothingPublished \/ NotAsked \/ VerifyRemoteTarget
  BY <1>1 DEF TargetHeld, IntegrateFails, TargetDrifted, RecordLanding, NothingPublished,
        NotAsked, VerifyRemoteTarget, Save, Note, Goes, git, triage, bounds
<1>2. CASE \/ AskRefused \/ SaveQueued \/ MergeAnswered \/ MergeUnread
          \/ MergeNotReported \/ PublishingFails \/ DeleteBranch
          \/ SaveCompleting
  BY <1>2 DEF AskRefused, SaveQueued, MergeAnswered, MergeUnread, MergeNotReported,
        PublishingFails, DeleteBranch, SaveCompleting, Save, Note, Goes, git, triage,
        bounds
<1>3. CASE \/ CompleteItem \/ CompleteFails \/ SaveSucceeded \/ CleanUp
          \/ CleanUpFails \/ Block \/ BlockFails \/ FailRun
  BY <1>3 DEF CompleteItem, CompleteFails, SaveSucceeded, CleanUp, CleanUpFails, Block,
        BlockFails, FailRun, Save, Note, Goes, git, triage, bounds
<1>4. CASE \/ SaveRetry \/ SaveRepublished \/ NothingToRepublish
          \/ ReplayFails \/ ClearVerdict \/ SaveUpdate \/ HandBack
          \/ SaveHandedBack \/ CloseSettled \/ DeleteLeftover
  BY <1>4 DEF SaveRetry, SaveRepublished, NothingToRepublish, ReplayFails, ClearVerdict, SaveUpdate, HandBack, SaveHandedBack,
        CloseSettled, DeleteLeftover, Save, Note, Goes, git, triage, bounds
<1>5. CASE \/ FinishItem \/ SaveFinished \/ SaveArmed \/ SettleItem
          \/ SaveSettled \/ LeaveConsumedBranch \/ ChargeRearm
  BY <1>5 DEF FinishItem, SaveFinished, SaveArmed, SettleItem, SaveSettled, LeaveConsumedBranch,
        ChargeRearm, Save, Note, Goes, git, triage, bounds
<1>6. CASE \/ SettleRemoteTarget \/ ReplayUnlanded \/ ConfirmMerge
  BY <1>e, <1>6 DEF SettleRemoteTarget, ReplayUnlanded, ConfirmMerge, Note, Goes, triage, bounds
<1>7. CASE PrepareLanding \/ Rebase \/ Republish \/ Gate
  <2>1. CASE PrepareLanding
    BY <2>1 DEF PrepareLanding, Note, Goes, triage, bounds
  <2>2. CASE Rebase
    BY <2>2 DEF Rebase, Save, Goes, triage, bounds
  <2>3. CASE Republish
    BY <1>b, <2>3 DEF Republish, Goes, triage, bounds
  <2>4. CASE Gate
    BY <1>b, <2>4 DEF Gate, Save, Goes, triage, bounds
  <2> QED BY <1>7, <2>1, <2>2, <2>3, <2>4
<1>8. CASE \/ AskQueues \/ AskMerges \/ AskRecovered
  BY <1>c, <1>d, <1>8 DEF AskQueues, AskMerges, AskRecovered, Note, Goes, triage, bounds
<1>9. CASE AskLost
  <2>1. lost' \in Nat /\ UNCHANGED <<decided, checking, repeats, crashes>>
    BY <1>9 DEF AskLost, triage
  <2> QED BY <1>c, <1>d, <1>9, <2>1 DEF AskLost, Goes
<1>10. CASE RepeatMerge
  <2>1. /\ {lost', repeats'} \subseteq Nat
        /\ UNCHANGED <<item, approved, versions, decided, checking, crashes>>
    BY <1>10 DEF RepeatMerge
  <2>2. /\ forge' \in Request /\ remote' \in Seq(Nat) /\ local' = local
        /\ local \in 0 .. Len(remote')
    BY <1>c, <1>d, <1>10 DEF RepeatMerge
  <2>3. pc' \in {"armed", "idle"} /\ (pc' = "idle" => mem' = rec')
    BY <1>10 DEF RepeatMerge, Goes, Note
  <2> QED BY <2>1, <2>2, <2>3
<1>11. CASE \/ Abandon \/ QueuedDropped \/ ContinueUpdate \/ InterruptedQueued
          \/ InterruptedUnlanded \/ Integrated \/ RecoverRequest
  BY <1>11 DEF Abandon, QueuedDropped, ContinueUpdate, InterruptedQueued, InterruptedUnlanded,
        Integrated, RecoverRequest, Save, Note, Goes, git, triage, bounds, Sweeps,
        Interrupted, Settled
<1>12. CASE \/ ArmRecovered \/ RefreshPublication
  BY <1>12 DEF ArmRecovered, RefreshPublication, Save, Note, Goes, git, triage, bounds, Settled
<1>13. CASE \/ QueuedMerged \/ InterruptedMerged \/ FinishPublication
  BY <1>e, <1>13 DEF QueuedMerged, InterruptedMerged, FinishPublication, Note, Goes, triage, bounds
<1>14. CASE \/ HandBackRed \/ UpdateQueuedHead
  BY <1>c, <1>14 DEF HandBackRed, UpdateQueuedHead, Note, Goes, triage, bounds
<1>15. CASE \/ Converge
  BY <1>e, <1>15 DEF Converge, triage, bounds
<1>16. CASE Rearms
  <2>1. CASE Decide
    BY <2>1 DEF Decide, git, bounds
  <2>2. ASSUME NEW k \in Rearmer, CheckRearm(k) PROVE TypeInv'
    <3>1. checking' \in [Rearmer -> Nat \cup {-1}]
      BY <1>b, <2>2 DEF CheckRearm
    <3> QED BY <2>2, <3>1 DEF CheckRearm, git, bounds
  <2>3. ASSUME NEW k \in Rearmer, BeginRearm(k) \/ RearmRefused(k) PROVE TypeInv'
    BY <2>3 DEF BeginRearm, RearmRefused, Goes, git, bounds
  <2> QED BY <1>16, <2>1, <2>2, <2>3 DEF Rearms
<1>17. CASE Outside
  <2>1. CASE ForgeMerges \/ PersonMerges
    BY <1>d, <2>1 DEF ForgeMerges, PersonMerges, triage, bounds
  <2>2. CASE ForgeDrops
    BY <1>c, <2>2 DEF ForgeDrops, triage, bounds
  <2>3. CASE CommitElsewhere
    <3>1. /\ remote' = Append(remote, 0)
          /\ UNCHANGED <<rec, mem, pc, item, forge, local, approved, versions, triage, bounds>>
      BY <2>3, Zenon DEF CommitElsewhere
    <3>2. Append(remote, 0) \in Seq(Nat) /\ Len(Append(remote, 0)) = Len(remote) + 1
      OBVIOUS
    <3> QED BY <3>1, <3>2 DEF triage, bounds
  <2> QED BY <1>17, <2>1, <2>2, <2>3 DEF Outside
<1>18. CASE Crash
  BY <1>18 DEF Crash, Goes, git, triage
<1>19. CASE UNCHANGED vars
  BY <1>19 DEF vars, git, triage, bounds
<1> QED
  BY <1>1, <1>2, <1>3, <1>4, <1>5, <1>6, <1>7, <1>8, <1>9, <1>10, <1>11, <1>12, <1>13,
        <1>14, <1>15, <1>16, <1>17, <1>18, <1>19
     DEF Next, HolderStep, Sweep

\* What a run out of its review starts with has its type.
LEMMA TypeInit == Init => TypeInv
<1> SUFFICES ASSUME Init PROVE TypeInv
  OBVIOUS
<1>1. PICK recorded \in BOOLEAN :
        LET first == [base |-> 0, number |-> 1]
            start == [status |-> "running", phase |-> "integrating", approved |-> TRUE,
                      head |-> first, landed |-> NoVersion, request |-> recorded,
                      prHead |-> IF recorded THEN first ELSE NoVersion,
                      method |-> FALSE, queued |-> FALSE, merged |-> FALSE,
                      confirmed |-> FALSE, rearms |-> 0, failure |-> "none",
                      drop |-> FALSE, blocker |-> FALSE, resumed |-> 0]
        IN rec = start /\ mem = start /\ forge = [state |-> "open", head |-> first, auto |-> FALSE]
  BY DEF Init
<1>2. rec \in Record /\ mem = rec /\ rec.head.number = 1
  BY <1>1 DEF Record, Version, NoVersion
<1>3. forge \in [state : {"open", "merged"}, head : Version, auto : BOOLEAN]
  BY <1>1 DEF Version
<1> QED BY <1>2, <1>3 DEF Init, TypeInv, TypeOK, Steps

\* Publication keeps its types, and a run whose lease nobody holds is what its
\* record says: every path that lets go of it saved what it did or leaves it.
THEOREM TypeCorrect == Spec => []TypeOK
<1>1. TypeInv => TypeOK
  BY DEF TypeInv
<1> QED BY <1>1, TypeInit, TypeStep, PTL DEF Spec

-----------------------------------------------------------------------------
(* Items close over merges that happened. *)

\* A merge once made stays made, so what was read of it stays true.
MergedInv ==
  /\ {"merged", "queued"} \subseteq DOMAIN rec \cap DOMAIN mem
  /\ "state" \in DOMAIN forge
  /\ rec.merged \/ mem.merged \/ item = "closed" => forge.state = "merged"
  /\ pc \in {"confirm", "delete", "settle", "leftover", "finish", "settled"}
       => forge.state = "merged"
  /\ pc \in {"queued", "completing", "complete"}
       => mem.queued \/ forge.state = "merged"

\* Every step keeps what is known of a merge that was made.
LEMMA MergedStep == MergedInv /\ [Next]_vars => MergedInv'
<1> SUFFICES ASSUME MergedInv, [Next]_vars PROVE MergedInv'
  OBVIOUS
<1> USE DEF MergedInv, git, triage, bounds, Save, Note, Goes
<1>1. CASE HolderStep
  <2>1. CASE SettleRemoteTarget
    BY <2>1 DEF SettleRemoteTarget, RemoteStandsAt, CatchesUp
  <2>2. CASE TargetHeld
    BY <2>2 DEF TargetHeld, RemoteStandsAt
  <2>3. CASE IntegrateFails
    BY <2>3 DEF IntegrateFails
  <2>4. CASE TargetDrifted
    BY <2>4 DEF TargetDrifted
  <2>5. CASE PrepareLanding
    BY <2>5 DEF PrepareLanding, NewVersion
  <2>6. CASE RecordLanding
    BY <2>6 DEF RecordLanding
  <2>7. CASE NothingPublished
    BY <2>7 DEF NothingPublished
  <2>8. CASE NotAsked
    BY <2>8 DEF NotAsked, Dropped
  <2>9. CASE VerifyRemoteTarget
    BY <2>9 DEF VerifyRemoteTarget, RemoteStandsAt
  <2>10. CASE ReplayUnlanded
    BY <2>10 DEF ReplayUnlanded, RemoteStandsAt, NoVersion, CatchesUp
  <2>11. CASE AskQueues
    BY <2>11 DEF AskQueues, Takes, Arms
  <2>12. CASE AskMerges
    BY <2>12 DEF AskMerges, Takes, Merges
  <2>13. CASE AskRefused
    BY <2>13 DEF AskRefused, Dropped
  <2>14. CASE AskLost
    BY <2>14 DEF AskLost, Takes, Arms, Merges
  <2>15. CASE SaveQueued
    BY <2>15 DEF SaveQueued
  <2>16. CASE MergeAnswered
    BY <2>16 DEF MergeAnswered
  <2>17. CASE MergeUnread
    BY <2>17 DEF MergeUnread
  <2>18. CASE MergeNotReported
    BY <2>18 DEF MergeNotReported, Dropped
  <2>19. CASE ConfirmMerge
    BY <2>19 DEF ConfirmMerge, OnRemote, MayCatchUp
  <2>20. CASE PublishingFails
    BY <2>20 DEF PublishingFails
  <2>21. CASE DeleteBranch
    BY <2>21 DEF DeleteBranch
  <2>22. CASE SaveCompleting
    BY <2>22 DEF SaveCompleting
  <2>23. CASE CompleteItem
    BY <2>23 DEF CompleteItem
  <2>24. CASE CompleteFails
    BY <2>24 DEF CompleteFails
  <2>25. CASE SaveSucceeded
    BY <2>25 DEF SaveSucceeded
  <2>26. CASE CleanUp
    BY <2>26 DEF CleanUp, OnRemote
  <2>27. CASE CleanUpFails
    BY <2>27 DEF CleanUpFails
  <2>28. CASE Block
    BY <2>28 DEF Block
  <2>29. CASE BlockFails
    BY <2>29 DEF BlockFails
  <2>30. CASE FailRun
    BY <2>30 DEF FailRun
  <2>31. CASE SaveRetry
    BY <2>31 DEF SaveRetry
  <2>32. CASE Rebase
    BY <2>32 DEF Rebase, NewVersion, AlreadyOnTarget
  <2>33. CASE Republish
    BY <2>33 DEF Republish
  <2>60. CASE SaveRepublished
    BY <2>60 DEF SaveRepublished
  <2>61. CASE NothingToRepublish
    BY <2>61 DEF NothingToRepublish
  <2>34. CASE ReplayFails
    BY <2>34 DEF ReplayFails
  <2>35. CASE ClearVerdict
    BY <2>35 DEF ClearVerdict
  <2>36. CASE Gate
    BY <2>36 DEF Gate
  <2>37. CASE SaveUpdate
    BY <2>37 DEF SaveUpdate, NoVersion
  <2>38. CASE HandBack
    BY <2>38 DEF HandBack
  <2>39. CASE SaveHandedBack
    BY <2>39 DEF SaveHandedBack, Terminal
  <2>40. CASE CloseSettled
    BY <2>40 DEF CloseSettled
  <2>41. CASE DeleteLeftover
    BY <2>41 DEF DeleteLeftover
  <2>42. CASE FinishItem
    BY <2>42 DEF FinishItem
  <2>43. CASE SaveFinished
    BY <2>43 DEF SaveFinished, Terminal
  <2>44. CASE AskRecovered
    BY <2>44 DEF AskRecovered, Takes, Arms, Merges, Armed, Dropped
  <2>45. CASE SaveArmed
    BY <2>45 DEF SaveArmed
  <2>46. CASE SettleItem
    BY <2>46 DEF SettleItem, HandedBack
  <2>47. CASE SaveSettled
    BY <2>47 DEF SaveSettled, HandedBack
  <2>48. CASE LeaveConsumedBranch
    BY <2>48 DEF LeaveConsumedBranch
  <2>49. CASE ChargeRearm
    BY <2>49 DEF ChargeRearm
  <2>50. CASE RepeatMerge
    BY <2>50 DEF RepeatMerge, Takes, Arms, Merges
  <2> QED BY <1>1, <2>1, <2>2, <2>3, <2>4, <2>5, <2>6, <2>7, <2>8, <2>9,
        <2>10, <2>11, <2>12, <2>13, <2>14, <2>15, <2>16, <2>17, <2>18, <2>19,
        <2>20, <2>21, <2>22, <2>23, <2>24, <2>25, <2>26, <2>27, <2>28, <2>29,
        <2>30, <2>31, <2>32, <2>33, <2>60, <2>61, <2>34, <2>35, <2>36, <2>37, <2>38, <2>39,
        <2>40, <2>41, <2>42, <2>43, <2>44, <2>45, <2>46, <2>47, <2>48, <2>49,
        <2>50 DEF HolderStep
<1>2. CASE Sweep
  <2>1. CASE Abandon
    BY <2>1 DEF Abandon, Sweeps, Landing, UpdatingQueuedHead, Outstanding,
        NoVersion, Terminal
  <2>2. CASE QueuedMerged
    BY <2>2 DEF QueuedMerged, Sweeps, Landing, OnRemote, MayCatchUp,
        Outstanding, NoVersion, Terminal
  <2>3. CASE QueuedDropped
    BY <2>3 DEF QueuedDropped, Sweeps, Landing, Dropped, Outstanding,
        NoVersion, Terminal
  <2>4. CASE HandBackRed
    BY <2>4 DEF HandBackRed, StillQueued, Withdraw, Dropped, Sweeps, Landing,
        Outstanding, NoVersion, Terminal
  <2>5. CASE UpdateQueuedHead
    BY <2>5 DEF UpdateQueuedHead, StillQueued, RemoteStandsAt, Withdraw,
        Sweeps, Landing, Outstanding, NoVersion, Terminal
  <2>6. CASE ContinueUpdate
    BY <2>6 DEF ContinueUpdate, UpdatingQueuedHead, Landing, NoVersion
  <2>7. CASE InterruptedMerged
    BY <2>7 DEF InterruptedMerged, Interrupted, OnRemote, Known, MayCatchUp,
        Sweeps, Unconfirmed, Outstanding, Landing, Terminal, NoVersion
  <2>8. CASE InterruptedQueued
    BY <2>8 DEF InterruptedQueued, Interrupted, Known, Sweeps, Unconfirmed,
        Outstanding, Landing, Terminal, NoVersion
  <2>9. CASE InterruptedUnlanded
    BY <2>9 DEF InterruptedUnlanded, Interrupted, Known, Sweeps, Unconfirmed,
        Outstanding, Landing, Terminal, NoVersion
  <2>10. CASE Integrated
    BY <2>10 DEF Integrated, Sweeps, Landing, Outstanding, NoVersion, Terminal
  <2>11. CASE RecoverRequest
    BY <2>11 DEF RecoverRequest, Settled, LostRecord, Recovered, Dropped,
        Outstanding, Landing, Terminal, NoVersion
  <2>12. CASE ArmRecovered
    BY <2>12 DEF ArmRecovered, Settled, LostRecord, RemoteStandsAt, Recovered,
        Outstanding, Landing, Terminal, NoVersion
  <2>13. CASE RefreshPublication
    BY <2>13 DEF RefreshPublication, Settled, Outstanding, Terminal, Landing,
        NoVersion
  <2>14. CASE FinishPublication
    BY <2>14 DEF FinishPublication, Settled, Landing, OnRemote, MayCatchUp,
        Outstanding, NoVersion, Terminal
  <2> QED BY <1>2, <2>1, <2>2, <2>3, <2>4, <2>5, <2>6, <2>7, <2>8, <2>9,
        <2>10, <2>11, <2>12, <2>13, <2>14 DEF Sweep
<1>3. CASE Converge
  BY <1>3 DEF Converge, CatchesUp
<1>4. CASE Rearms
  <2>1. CASE Decide
    BY <2>1 DEF Decide, Terminal, Landing, NoVersion
  <2>2. ASSUME NEW k \in Rearmer, CheckRearm(k) PROVE MergedInv'
    BY <2>2 DEF CheckRearm, Rearmable, Terminal, Untouched, Landing, NoVersion
  <2>3. ASSUME NEW k \in Rearmer, BeginRearm(k) PROVE MergedInv'
    BY <2>3 DEF BeginRearm, Rearmable, Takes, RemoteStandsAt, Untouched, Landing,
        NoVersion
  <2>4. ASSUME NEW k \in Rearmer, RearmRefused(k) PROVE MergedInv'
    BY <2>4 DEF RearmRefused
  <2> QED BY <1>4, <2>1, <2>2, <2>3, <2>4 DEF Rearms
<1>5. CASE Outside
  <2>1. CASE ForgeMerges
    BY <2>1 DEF ForgeMerges, Merges
  <2>2. CASE ForgeDrops
    BY <2>2 DEF ForgeDrops, Withdraw
  <2>3. CASE PersonMerges
    BY <2>3 DEF PersonMerges, Merges
  <2>4. CASE CommitElsewhere
    BY <2>4 DEF CommitElsewhere
  <2> QED BY <1>5, <2>1, <2>2, <2>3, <2>4 DEF Outside
<1>6. CASE Crash
  BY <1>6 DEF Crash
<1>7. CASE UNCHANGED vars
  BY <1>7 DEF vars
<1> QED BY <1>1, <1>2, <1>3, <1>4, <1>5, <1>6, <1>7 DEF Next

\* No item is closed over a merge that was only queued, or never made
\* (Reconciler.closeSettledMerge, completeIntegrated, activeRun.complete).
THEOREM ClosedOverMerge == Spec => []ClosedMeansMerged
<1>1. Init => MergedInv
  BY DEF Init, MergedInv
<1>2. MergedInv /\ [Next]_vars => MergedInv'
  BY MergedStep
<1>3. MergedInv => ClosedMeansMerged
  BY DEF MergedInv, ClosedMeansMerged
<1> QED BY <1>1, <1>2, <1>3, PTL DEF Spec

-----------------------------------------------------------------------------
(* Re-arms stay within the decisions. *)

\* What a re-arming process saw is below the decisions; what it charges is
\* what it saw; and the charge is there before the request.
RearmInv ==
  /\ "rearms" \in DOMAIN rec \cap DOMAIN mem
  /\ mem.rearms = rec.rearms
  /\ rec.rearms \in Nat /\ decided \in Nat /\ repeats \in Nat
  /\ RepeatsWithinDecisions
  /\ pc = "charge" => rec.rearms < decided
  /\ pc = "repeat" => repeats < rec.rearms
  /\ DOMAIN checking = Rearmer
  /\ \A k \in Rearmer :
       checking[k] # -1 => checking[k] \in Nat /\ checking[k] < decided

\* Every step keeps re-arms within decisions, and the charge before the request.
LEMMA RearmStep == RearmInv /\ [Next]_vars => RearmInv'
<1> SUFFICES ASSUME RearmInv, [Next]_vars PROVE RearmInv'
  OBVIOUS
<1> USE DEF RearmInv, RepeatsWithinDecisions, git, triage, bounds, Save, Note,
    Goes
<1>1. CASE HolderStep
  <2>1. CASE SettleRemoteTarget
    BY <2>1 DEF SettleRemoteTarget, RemoteStandsAt, CatchesUp
  <2>2. CASE TargetHeld
    BY <2>2 DEF TargetHeld, RemoteStandsAt
  <2>3. CASE IntegrateFails
    BY <2>3 DEF IntegrateFails
  <2>4. CASE TargetDrifted
    BY <2>4 DEF TargetDrifted
  <2>5. CASE PrepareLanding
    BY <2>5 DEF PrepareLanding, NewVersion
  <2>6. CASE RecordLanding
    BY <2>6 DEF RecordLanding
  <2>7. CASE NothingPublished
    BY <2>7 DEF NothingPublished
  <2>8. CASE NotAsked
    BY <2>8 DEF NotAsked, Dropped
  <2>9. CASE VerifyRemoteTarget
    BY <2>9 DEF VerifyRemoteTarget, RemoteStandsAt
  <2>10. CASE ReplayUnlanded
    BY <2>10 DEF ReplayUnlanded, RemoteStandsAt, NoVersion, CatchesUp
  <2>11. CASE AskQueues
    BY <2>11 DEF AskQueues, Takes, Arms
  <2>12. CASE AskMerges
    BY <2>12 DEF AskMerges, Takes, Merges
  <2>13. CASE AskRefused
    BY <2>13 DEF AskRefused, Dropped
  <2>14. CASE AskLost
    BY <2>14 DEF AskLost, Takes, Arms, Merges
  <2>15. CASE SaveQueued
    BY <2>15 DEF SaveQueued
  <2>16. CASE MergeAnswered
    BY <2>16 DEF MergeAnswered
  <2>17. CASE MergeUnread
    BY <2>17 DEF MergeUnread
  <2>18. CASE MergeNotReported
    BY <2>18 DEF MergeNotReported, Dropped
  <2>19. CASE ConfirmMerge
    BY <2>19 DEF ConfirmMerge, OnRemote, MayCatchUp
  <2>20. CASE PublishingFails
    BY <2>20 DEF PublishingFails
  <2>21. CASE DeleteBranch
    BY <2>21 DEF DeleteBranch
  <2>22. CASE SaveCompleting
    BY <2>22 DEF SaveCompleting
  <2>23. CASE CompleteItem
    BY <2>23 DEF CompleteItem
  <2>24. CASE CompleteFails
    BY <2>24 DEF CompleteFails
  <2>25. CASE SaveSucceeded
    BY <2>25 DEF SaveSucceeded
  <2>26. CASE CleanUp
    BY <2>26 DEF CleanUp, OnRemote
  <2>27. CASE CleanUpFails
    BY <2>27 DEF CleanUpFails
  <2>28. CASE Block
    BY <2>28 DEF Block
  <2>29. CASE BlockFails
    BY <2>29 DEF BlockFails
  <2>30. CASE FailRun
    BY <2>30 DEF FailRun
  <2>31. CASE SaveRetry
    BY <2>31 DEF SaveRetry
  <2>32. CASE Rebase
    BY <2>32 DEF Rebase, NewVersion, AlreadyOnTarget
  <2>33. CASE Republish
    BY <2>33 DEF Republish
  <2>60. CASE SaveRepublished
    BY <2>60 DEF SaveRepublished
  <2>61. CASE NothingToRepublish
    BY <2>61 DEF NothingToRepublish
  <2>34. CASE ReplayFails
    BY <2>34 DEF ReplayFails
  <2>35. CASE ClearVerdict
    BY <2>35 DEF ClearVerdict
  <2>36. CASE Gate
    BY <2>36 DEF Gate
  <2>37. CASE SaveUpdate
    BY <2>37 DEF SaveUpdate, NoVersion
  <2>38. CASE HandBack
    BY <2>38 DEF HandBack
  <2>39. CASE SaveHandedBack
    BY <2>39 DEF SaveHandedBack, Terminal
  <2>40. CASE CloseSettled
    BY <2>40 DEF CloseSettled
  <2>41. CASE DeleteLeftover
    BY <2>41 DEF DeleteLeftover
  <2>42. CASE FinishItem
    BY <2>42 DEF FinishItem
  <2>43. CASE SaveFinished
    BY <2>43 DEF SaveFinished, Terminal
  <2>44. CASE AskRecovered
    BY <2>44 DEF AskRecovered, Takes, Arms, Merges, Armed, Dropped
  <2>45. CASE SaveArmed
    BY <2>45 DEF SaveArmed
  <2>46. CASE SettleItem
    BY <2>46 DEF SettleItem, HandedBack
  <2>47. CASE SaveSettled
    BY <2>47 DEF SaveSettled, HandedBack
  <2>48. CASE LeaveConsumedBranch
    BY <2>48 DEF LeaveConsumedBranch
  <2>49. CASE ChargeRearm
    BY <2>49 DEF ChargeRearm
  <2>50. CASE RepeatMerge
    <3>1. /\ pc = "repeat" /\ pc' \in {"armed", "idle"} /\ repeats' = repeats + 1
          /\ UNCHANGED <<rec, decided, checking>>
      BY <2>50 DEF RepeatMerge
    <3>2. "rearms" \in DOMAIN mem' /\ UNCHANGED mem.rearms
      BY <2>50 DEF RepeatMerge
    <3>3. RepeatsWithinDecisions'
      BY <3>1
    <3> QED BY <3>1, <3>2, <3>3
  <2> QED BY <1>1, <2>1, <2>2, <2>3, <2>4, <2>5, <2>6, <2>7, <2>8, <2>9,
        <2>10, <2>11, <2>12, <2>13, <2>14, <2>15, <2>16, <2>17, <2>18, <2>19,
        <2>20, <2>21, <2>22, <2>23, <2>24, <2>25, <2>26, <2>27, <2>28, <2>29,
        <2>30, <2>31, <2>32, <2>33, <2>60, <2>61, <2>34, <2>35, <2>36, <2>37, <2>38, <2>39,
        <2>40, <2>41, <2>42, <2>43, <2>44, <2>45, <2>46, <2>47, <2>48, <2>49,
        <2>50 DEF HolderStep
<1>2. CASE Sweep
  <2>1. CASE Abandon
    BY <2>1 DEF Abandon, Sweeps, Landing, UpdatingQueuedHead, Outstanding,
        NoVersion, Terminal
  <2>2. CASE QueuedMerged
    BY <2>2 DEF QueuedMerged, Sweeps, Landing, OnRemote, MayCatchUp,
        Outstanding, NoVersion, Terminal
  <2>3. CASE QueuedDropped
    BY <2>3 DEF QueuedDropped, Sweeps, Landing, Dropped, Outstanding,
        NoVersion, Terminal
  <2>4. CASE HandBackRed
    BY <2>4 DEF HandBackRed, StillQueued, Withdraw, Dropped, Sweeps, Landing,
        Outstanding, NoVersion, Terminal
  <2>5. CASE UpdateQueuedHead
    BY <2>5 DEF UpdateQueuedHead, StillQueued, RemoteStandsAt, Withdraw,
        Sweeps, Landing, Outstanding, NoVersion, Terminal
  <2>6. CASE ContinueUpdate
    BY <2>6 DEF ContinueUpdate, UpdatingQueuedHead, Landing, NoVersion
  <2>7. CASE InterruptedMerged
    BY <2>7 DEF InterruptedMerged, Interrupted, OnRemote, Known, MayCatchUp,
        Sweeps, Unconfirmed, Outstanding, Landing, Terminal, NoVersion
  <2>8. CASE InterruptedQueued
    BY <2>8 DEF InterruptedQueued, Interrupted, Known, Sweeps, Unconfirmed,
        Outstanding, Landing, Terminal, NoVersion
  <2>9. CASE InterruptedUnlanded
    BY <2>9 DEF InterruptedUnlanded, Interrupted, Known, Sweeps, Unconfirmed,
        Outstanding, Landing, Terminal, NoVersion
  <2>10. CASE Integrated
    BY <2>10 DEF Integrated, Sweeps, Landing, Outstanding, NoVersion, Terminal
  <2>11. CASE RecoverRequest
    BY <2>11 DEF RecoverRequest, Settled, LostRecord, Recovered, Dropped,
        Outstanding, Landing, Terminal, NoVersion
  <2>12. CASE ArmRecovered
    BY <2>12 DEF ArmRecovered, Settled, LostRecord, RemoteStandsAt, Recovered,
        Outstanding, Landing, Terminal, NoVersion
  <2>13. CASE RefreshPublication
    BY <2>13 DEF RefreshPublication, Settled, Outstanding, Terminal, Landing,
        NoVersion
  <2>14. CASE FinishPublication
    BY <2>14 DEF FinishPublication, Settled, Landing, OnRemote, MayCatchUp,
        Outstanding, NoVersion, Terminal
  <2> QED BY <1>2, <2>1, <2>2, <2>3, <2>4, <2>5, <2>6, <2>7, <2>8, <2>9,
        <2>10, <2>11, <2>12, <2>13, <2>14 DEF Sweep
<1>3. CASE Converge
  BY <1>3 DEF Converge, CatchesUp
<1>4. CASE Rearms
  <2>1. CASE Decide
    BY <2>1 DEF Decide, Terminal, Landing, NoVersion
  <2>2. ASSUME NEW k \in Rearmer, CheckRearm(k) PROVE RearmInv'
    BY <2>2 DEF CheckRearm, Rearmable, Terminal, Untouched, Landing, NoVersion
  <2>3. ASSUME NEW k \in Rearmer, BeginRearm(k) PROVE RearmInv'
    BY <2>3 DEF BeginRearm, Rearmable, Takes, RemoteStandsAt, Untouched, Landing,
        NoVersion
  <2>4. ASSUME NEW k \in Rearmer, RearmRefused(k) PROVE RearmInv'
    BY <2>4 DEF RearmRefused
  <2> QED BY <1>4, <2>1, <2>2, <2>3, <2>4 DEF Rearms
<1>5. CASE Outside
  <2>1. CASE ForgeMerges
    BY <2>1 DEF ForgeMerges, Merges
  <2>2. CASE ForgeDrops
    BY <2>2 DEF ForgeDrops, Withdraw
  <2>3. CASE PersonMerges
    BY <2>3 DEF PersonMerges, Merges
  <2>4. CASE CommitElsewhere
    BY <2>4 DEF CommitElsewhere
  <2> QED BY <1>5, <2>1, <2>2, <2>3, <2>4 DEF Outside
<1>6. CASE Crash
  BY <1>6 DEF Crash
<1>7. CASE UNCHANGED vars
  BY <1>7 DEF vars
<1> QED BY <1>1, <1>2, <1>3, <1>4, <1>5, <1>6, <1>7 DEF Next

\* However many processes carry re-arms out, and wherever they are killed, no
\* merge is asked for again without a decision of its own (Rearmer.repeat).
THEOREM RearmsAreDecided == Spec => []RepeatsWithinDecisions
<1>1. Init => RearmInv
  BY DEF Init, RearmInv, RepeatsWithinDecisions
<1>2. RearmInv /\ [Next]_vars => RearmInv'
  BY RearmStep
<1>3. RearmInv => RepeatsWithinDecisions
  BY DEF RearmInv
<1> QED BY <1>1, <1>2, <1>3, PTL DEF Spec

-----------------------------------------------------------------------------
(* Undisturbed, the forge holds merges of reviewed heads only. *)

Undisturbed == lost = 0 /\ crashes = 0

Fields == {"status", "landed", "head", "approved", "queued"}

\* The run has a landing, or it may still make one: it has not ended.
MayLand == Landing(mem) \/ (~Terminal(mem) /\ pc # "fail")

\* While the run rewrites its change, or may, it has no landing and so no
\* merge is armed; and the standing verdict is about the head at the forge,
\* except between the replay's publication and the clearing of its verdict, and
\* once the run has failed with nothing landed.
ArmingInv ==
  /\ forge.auto => forge.state = "open" /\ mem.queued
  /\ mem.queued => Landing(mem)
  /\ Landing(mem) => mem.approved
  /\ mem.approved /\ MayLand /\ pc \notin {"republished", "clear"} =>
       forge.head.number \in approved
  /\ pc \in {"republished", "clear", "gate"} =>
       forge.head = mem.head \/ forge.head.number \in approved
  /\ pc \in {"turn", "prepare", "retry", "rebase", "republish", "republished"} =>
       mem.approved
  /\ pc \in {"turn", "prepare", "retry", "rebase", "republish", "republished",
             "clear", "gate"} => ~Landing(mem) /\ ~Terminal(mem)
  /\ pc \in {"record", "verify", "ask"} =>
       Landing(mem) /\ ~mem.queued /\ ~Terminal(mem)
  /\ pc \in {"arm", "charge", "repeat", "update"} => Landing(mem)
  /\ pc = "update" => ~forge.auto
  /\ pc \in {"idle", "clean", "repeat"} => mem = rec

ReviewInv ==
  /\ Fields \subseteq DOMAIN rec /\ Fields \subseteq DOMAIN mem
  /\ {"state", "auto", "head"} \subseteq DOMAIN forge
  /\ lost \in Nat /\ crashes \in Nat /\ versions \in Nat
  /\ mem.head.number \in Nat /\ rec.head.number \in Nat
  /\ Undisturbed => ArmingInv

\* Every step keeps a rewritten head from being armed; a lost answer or a kill
\* ends what is claimed.
LEMMA ReviewStep == ReviewInv /\ [Next]_vars => ReviewInv'
<1> SUFFICES ASSUME ReviewInv, [Next]_vars PROVE ReviewInv'
  OBVIOUS
<1> USE DEF ReviewInv, ArmingInv, MayLand, Undisturbed, Fields, Landing, Terminal, NoVersion,
    git, triage, bounds, Save, Note, Goes
<1>1. CASE HolderStep
  <2>1. CASE SettleRemoteTarget
    BY <2>1 DEF SettleRemoteTarget, RemoteStandsAt, CatchesUp
  <2>2. CASE TargetHeld
    BY <2>2 DEF TargetHeld, RemoteStandsAt
  <2>3. CASE IntegrateFails
    BY <2>3 DEF IntegrateFails
  <2>4. CASE TargetDrifted
    BY <2>4 DEF TargetDrifted
  <2>5. CASE PrepareLanding
    BY <2>5 DEF PrepareLanding, NewVersion
  <2>6. CASE RecordLanding
    BY <2>6 DEF RecordLanding
  <2>7. CASE NothingPublished
    BY <2>7 DEF NothingPublished
  <2>8. CASE NotAsked
    BY <2>8 DEF NotAsked, Dropped
  <2>9. CASE VerifyRemoteTarget
    BY <2>9 DEF VerifyRemoteTarget, RemoteStandsAt
  <2>10. CASE ReplayUnlanded
    BY <2>10 DEF ReplayUnlanded, RemoteStandsAt, CatchesUp
  <2>11. CASE AskQueues
    BY <2>11 DEF AskQueues, Takes, Arms
  <2>12. CASE AskMerges
    BY <2>12 DEF AskMerges, Takes, Merges
  <2>13. CASE AskRefused
    BY <2>13 DEF AskRefused, Dropped
  <2>14. CASE AskLost
    <3>1. /\ lost' = lost + 1 /\ UNCHANGED <<rec, mem, versions, crashes>>
      BY <2>14 DEF AskLost
    <3>2. DOMAIN forge' = DOMAIN forge
      BY <2>14 DEF AskLost, Arms, Merges
    <3> QED BY <3>1, <3>2
  <2>15. CASE SaveQueued
    BY <2>15 DEF SaveQueued
  <2>16. CASE MergeAnswered
    BY <2>16 DEF MergeAnswered
  <2>17. CASE MergeUnread
    BY <2>17 DEF MergeUnread
  <2>18. CASE MergeNotReported
    BY <2>18 DEF MergeNotReported, Dropped
  <2>19. CASE ConfirmMerge
    BY <2>19 DEF ConfirmMerge, OnRemote, MayCatchUp
  <2>20. CASE PublishingFails
    BY <2>20 DEF PublishingFails
  <2>21. CASE DeleteBranch
    BY <2>21 DEF DeleteBranch
  <2>22. CASE SaveCompleting
    BY <2>22 DEF SaveCompleting
  <2>23. CASE CompleteItem
    BY <2>23 DEF CompleteItem
  <2>24. CASE CompleteFails
    BY <2>24 DEF CompleteFails
  <2>25. CASE SaveSucceeded
    BY <2>25 DEF SaveSucceeded
  <2>26. CASE CleanUp
    BY <2>26 DEF CleanUp, OnRemote
  <2>27. CASE CleanUpFails
    BY <2>27 DEF CleanUpFails
  <2>28. CASE Block
    BY <2>28 DEF Block
  <2>29. CASE BlockFails
    BY <2>29 DEF BlockFails
  <2>30. CASE FailRun
    BY <2>30 DEF FailRun
  <2>31. CASE SaveRetry
    BY <2>31 DEF SaveRetry
  <2>32. CASE Rebase
    BY <2>32 DEF Rebase, NewVersion, AlreadyOnTarget
  <2>33. CASE Republish
    BY <2>33 DEF Republish
  <2>60. CASE SaveRepublished
    BY <2>60 DEF SaveRepublished
  <2>61. CASE NothingToRepublish
    BY <2>61 DEF NothingToRepublish
  <2>34. CASE ReplayFails
    BY <2>34 DEF ReplayFails
  <2>35. CASE ClearVerdict
    BY <2>35 DEF ClearVerdict
  <2>36. CASE Gate
    BY <2>36 DEF Gate
  <2>37. CASE SaveUpdate
    BY <2>37 DEF SaveUpdate
  <2>38. CASE HandBack
    BY <2>38 DEF HandBack
  <2>39. CASE SaveHandedBack
    BY <2>39 DEF SaveHandedBack, Terminal
  <2>40. CASE CloseSettled
    BY <2>40 DEF CloseSettled
  <2>41. CASE DeleteLeftover
    BY <2>41 DEF DeleteLeftover
  <2>42. CASE FinishItem
    BY <2>42 DEF FinishItem
  <2>43. CASE SaveFinished
    BY <2>43 DEF SaveFinished, Terminal
  <2>44. CASE AskRecovered
    BY <2>44 DEF AskRecovered, Takes, Arms, Merges, Armed, Dropped
  <2>45. CASE SaveArmed
    BY <2>45 DEF SaveArmed
  <2>46. CASE SettleItem
    BY <2>46 DEF SettleItem, HandedBack
  <2>47. CASE SaveSettled
    BY <2>47 DEF SaveSettled, HandedBack
  <2>48. CASE LeaveConsumedBranch
    BY <2>48 DEF LeaveConsumedBranch
  <2>49. CASE ChargeRearm
    BY <2>49 DEF ChargeRearm
  <2>50. CASE RepeatMerge
    <3>1. CASE lost' = lost + 1
      <4>1. ~Undisturbed'
        BY <3>1
      <4>2. {"state", "auto", "head"} \subseteq DOMAIN forge'
        BY <2>50 DEF RepeatMerge, Arms, Merges
      <4>3. /\ rec' = rec /\ versions' = versions /\ crashes' = crashes
            /\ mem' = mem \/ mem' = [mem EXCEPT !.queued = TRUE,
                                 !.failure = "none", !.blocker = FALSE]
        BY <2>50 DEF RepeatMerge
      <4>4. Fields \subseteq DOMAIN mem' /\ UNCHANGED mem.head
        BY <4>3
      <4> HIDE DEF ArmingInv, Undisturbed, Fields
      <4> QED BY <3>1, <4>1, <4>2, <4>3, <4>4
    <3>2. CASE pc' = "idle" /\ UNCHANGED <<rec, mem, forge, remote, local, lost>>
      BY <2>50, <3>2 DEF RepeatMerge
    <3>3. CASE /\ Takes(mem.prHead) /\ (Arms \/ Merges)
               /\ Note([mem EXCEPT !.queued = TRUE, !.failure = "none",
                                   !.blocker = FALSE])
               /\ Goes("armed") /\ UNCHANGED lost
      <4>1. /\ pc = "repeat" /\ pc' = "armed"
            /\ UNCHANGED <<rec, approved, versions, lost, crashes>>
            /\ forge'.head = forge.head /\ (forge'.auto => forge'.state = "open")
            /\ {"state", "auto", "head"} \subseteq DOMAIN forge'
        BY <2>50, <3>3 DEF RepeatMerge, Takes, Arms, Merges
      <4>2. /\ Fields \subseteq DOMAIN mem' /\ mem'.queued
            /\ UNCHANGED <<mem.landed, mem.head, mem.approved>>
        BY <3>3
      <4> QED BY <4>1, <4>2
    <3> QED BY <2>50, <3>1, <3>2, <3>3 DEF RepeatMerge
  <2> QED BY <1>1, <2>1, <2>2, <2>3, <2>4, <2>5, <2>6, <2>7, <2>8, <2>9,
        <2>10, <2>11, <2>12, <2>13, <2>14, <2>15, <2>16, <2>17, <2>18, <2>19,
        <2>20, <2>21, <2>22, <2>23, <2>24, <2>25, <2>26, <2>27, <2>28, <2>29,
        <2>30, <2>31, <2>32, <2>33, <2>60, <2>61, <2>34, <2>35, <2>36, <2>37, <2>38, <2>39,
        <2>40, <2>41, <2>42, <2>43, <2>44, <2>45, <2>46, <2>47, <2>48, <2>49,
        <2>50 DEF HolderStep
<1>2. CASE Sweep
  <2>1. CASE Abandon
    BY <2>1 DEF Abandon, Sweeps, UpdatingQueuedHead, Outstanding, Terminal
  <2>2. CASE QueuedMerged
    BY <2>2 DEF QueuedMerged, Sweeps, OnRemote, MayCatchUp, Outstanding,
        Terminal
  <2>3. CASE QueuedDropped
    BY <2>3 DEF QueuedDropped, Sweeps, Dropped, Outstanding, Terminal
  <2>4. CASE HandBackRed
    BY <2>4 DEF HandBackRed, StillQueued, Withdraw, Dropped, Sweeps,
        Outstanding, Terminal
  <2>5. CASE UpdateQueuedHead
    BY <2>5 DEF UpdateQueuedHead, StillQueued, RemoteStandsAt, Withdraw,
        Sweeps, Outstanding, Terminal
  <2>6. CASE ContinueUpdate
    BY <2>6 DEF ContinueUpdate, UpdatingQueuedHead
  <2>7. CASE InterruptedMerged
    BY <2>7 DEF InterruptedMerged, Interrupted, OnRemote, Known, MayCatchUp,
        Sweeps, Unconfirmed, Outstanding, Terminal
  <2>8. CASE InterruptedQueued
    BY <2>8 DEF InterruptedQueued, Interrupted, Known, Sweeps, Unconfirmed,
        Outstanding, Terminal
  <2>9. CASE InterruptedUnlanded
    BY <2>9 DEF InterruptedUnlanded, Interrupted, Known, Sweeps, Unconfirmed,
        Outstanding, Terminal
  <2>10. CASE Integrated
    BY <2>10 DEF Integrated, Sweeps, Outstanding, Terminal
  <2>11. CASE RecoverRequest
    BY <2>11 DEF RecoverRequest, Settled, LostRecord, Recovered, Dropped,
        Outstanding, Terminal
  <2>12. CASE ArmRecovered
    BY <2>12 DEF ArmRecovered, Settled, LostRecord, RemoteStandsAt, Recovered,
        Outstanding, Terminal
  <2>13. CASE RefreshPublication
    BY <2>13 DEF RefreshPublication, Settled, Outstanding, Terminal
  <2>14. CASE FinishPublication
    BY <2>14 DEF FinishPublication, Settled, OnRemote, MayCatchUp,
        Outstanding, Terminal
  <2> QED BY <1>2, <2>1, <2>2, <2>3, <2>4, <2>5, <2>6, <2>7, <2>8, <2>9,
        <2>10, <2>11, <2>12, <2>13, <2>14 DEF Sweep
<1>3. CASE Converge
  BY <1>3 DEF Converge, CatchesUp
<1>4. CASE Rearms
  <2>1. CASE Decide
    BY <2>1 DEF Decide, Terminal
  <2>2. ASSUME NEW k \in Rearmer, CheckRearm(k) PROVE ReviewInv'
    BY <2>2 DEF CheckRearm, Rearmable, Terminal, Untouched
  <2>3. ASSUME NEW k \in Rearmer, BeginRearm(k) PROVE ReviewInv'
    BY <2>3 DEF BeginRearm, Rearmable, Takes, RemoteStandsAt, Untouched
  <2>4. ASSUME NEW k \in Rearmer, RearmRefused(k) PROVE ReviewInv'
    BY <2>4 DEF RearmRefused
  <2> QED BY <1>4, <2>1, <2>2, <2>3, <2>4 DEF Rearms
<1>5. CASE Outside
  <2>1. CASE ForgeMerges
    BY <2>1 DEF ForgeMerges, Merges
  <2>2. CASE ForgeDrops
    BY <2>2 DEF ForgeDrops, Withdraw
  <2>3. CASE PersonMerges
    BY <2>3 DEF PersonMerges, Merges
  <2>4. CASE CommitElsewhere
    BY <2>4 DEF CommitElsewhere
  <2> QED BY <1>5, <2>1, <2>2, <2>3, <2>4 DEF Outside
<1>6. CASE Crash
  BY <1>6 DEF Crash
<1>7. CASE UNCHANGED vars
  BY <1>7 DEF vars
<1> QED BY <1>1, <1>2, <1>3, <1>4, <1>5, <1>6, <1>7 DEF Next

\* Through any number of replays, updates and re-arms the forge never holds a
\* merge of a head no review approved, while answers arrive and nobody is
\* killed (updateQueuedHead, prepareIntegrationRetry, armRecoveredMerge).
THEOREM UndisturbedArmings == Spec => []UndisturbedArmedIsReviewed
<1>1. Init => ReviewInv
  BY DEF Init, ReviewInv, ArmingInv, MayLand, Undisturbed, Fields, Landing, Terminal,
      NoVersion
<1>2. ReviewInv /\ [Next]_vars => ReviewInv'
  BY ReviewStep
<1>3. ReviewInv => UndisturbedArmedIsReviewed
  BY DEF ReviewInv, ArmingInv, MayLand, Undisturbed, UndisturbedArmedIsReviewed,
      ArmedIsReviewed
<1> QED BY <1>1, <1>2, <1>3, PTL DEF Spec

-----------------------------------------------------------------------------
(* While answers arrive, what is queued is what was integrated. *)

\* What the record m says of its landing is about the head the forge has.
Holds(m) == m.landed = forge.head /\ (m.request => m.prHead = m.landed)

\* A merge is armed only over the head that was integrated and published, and
\* the run forgets neither while it may still be armed: it rewrites its change
\* only with nothing landed, so with nothing armed.
AskedInv ==
  /\ mem.queued => Landing(mem) /\ mem.prHead = mem.landed
  /\ rec.queued => Landing(rec) /\ rec.prHead = rec.landed
  /\ forge.auto => forge.state = "open" /\ Holds(mem) /\ Holds(rec)
  /\ pc \in {"turn", "prepare", "record", "verify", "ask", "retry", "rebase",
             "republish", "republished", "clear", "gate"} =>
       ~mem.queued /\ ~rec.queued /\ ~forge.auto
  /\ pc \in {"turn", "prepare", "retry", "rebase", "republish", "republished",
             "clear", "gate"} => ~Landing(mem)
  /\ pc \in {"record", "verify"} => Landing(mem)
  /\ forge.auto => Landing(rec)
  /\ pc = "update" => ~forge.auto
  /\ pc \in {"verify", "ask", "idle", "charge", "repeat", "clean"} => mem = rec
  /\ pc \in {"ask", "arm", "charge", "repeat"} => Landing(mem) /\ mem.prHead = mem.landed
  /\ pc = "arm" => rec.landed = mem.landed /\ ~rec.request

\* The fields of a record this reads.
Asked == {"landed", "prHead", "request", "queued"}
QueuedInv ==
  /\ Asked \subseteq DOMAIN rec /\ Asked \subseteq DOMAIN mem
  /\ {"state", "auto", "head"} \subseteq DOMAIN forge
  /\ lost \in Nat
  /\ lost = 0 => AskedInv

\* Every step keeps record, copy and forge about one head; a lost answer ends
\* what is claimed.
LEMMA AskedStep == TypeInv /\ QueuedInv /\ [Next]_vars => QueuedInv'
<1> SUFFICES ASSUME TypeInv, QueuedInv, [Next]_vars PROVE QueuedInv'
  OBVIOUS
<1>a. versions \in Nat
  BY DEF TypeInv, TypeOK
<1> USE DEF QueuedInv, Asked, AskedInv, Holds, Landing, NoVersion, git, triage, bounds, Save, Note, Goes
<1>1. CASE HolderStep
  <2>1. CASE SettleRemoteTarget
    BY <2>1 DEF SettleRemoteTarget, RemoteStandsAt, CatchesUp
  <2>2. CASE TargetHeld
    BY <2>2 DEF TargetHeld, RemoteStandsAt
  <2>3. CASE IntegrateFails
    BY <2>3 DEF IntegrateFails
  <2>4. CASE TargetDrifted
    BY <2>4 DEF TargetDrifted
  <2>5. CASE PrepareLanding
    BY <1>a, <2>5 DEF PrepareLanding, NewVersion
  <2>6. CASE RecordLanding
    BY <2>6 DEF RecordLanding
  <2>7. CASE NothingPublished
    BY <2>7 DEF NothingPublished
  <2>8. CASE NotAsked
    BY <2>8 DEF NotAsked, Dropped
  <2>9. CASE VerifyRemoteTarget
    BY <2>9 DEF VerifyRemoteTarget, RemoteStandsAt
  <2>10. CASE ReplayUnlanded
    BY <2>10 DEF ReplayUnlanded, RemoteStandsAt, NoVersion, CatchesUp
  <2>11. CASE AskQueues
    BY <2>11 DEF AskQueues, Takes, Arms
  <2>12. CASE AskMerges
    BY <2>12 DEF AskMerges, Takes, Merges
  <2>13. CASE AskRefused
    BY <2>13 DEF AskRefused, Dropped
  <2>14. CASE AskLost
    <3>1. /\ lost' = lost + 1 /\ UNCHANGED <<rec, mem, versions, crashes>>
      BY <2>14 DEF AskLost
    <3>2. DOMAIN forge' = DOMAIN forge
      BY <2>14 DEF AskLost, Arms, Merges
    <3> QED BY <3>1, <3>2
  <2>15. CASE SaveQueued
    BY <2>15 DEF SaveQueued
  <2>16. CASE MergeAnswered
    BY <2>16 DEF MergeAnswered
  <2>17. CASE MergeUnread
    BY <2>17 DEF MergeUnread
  <2>18. CASE MergeNotReported
    BY <2>18 DEF MergeNotReported, Dropped
  <2>19. CASE ConfirmMerge
    BY <2>19 DEF ConfirmMerge, OnRemote, MayCatchUp
  <2>20. CASE PublishingFails
    BY <2>20 DEF PublishingFails
  <2>21. CASE DeleteBranch
    BY <2>21 DEF DeleteBranch
  <2>22. CASE SaveCompleting
    BY <2>22 DEF SaveCompleting
  <2>23. CASE CompleteItem
    BY <2>23 DEF CompleteItem
  <2>24. CASE CompleteFails
    BY <2>24 DEF CompleteFails
  <2>25. CASE SaveSucceeded
    BY <2>25 DEF SaveSucceeded
  <2>26. CASE CleanUp
    BY <2>26 DEF CleanUp, OnRemote
  <2>27. CASE CleanUpFails
    BY <2>27 DEF CleanUpFails
  <2>28. CASE Block
    BY <2>28 DEF Block
  <2>29. CASE BlockFails
    BY <2>29 DEF BlockFails
  <2>30. CASE FailRun
    BY <2>30 DEF FailRun
  <2>31. CASE SaveRetry
    BY <2>31 DEF SaveRetry
  <2>32. CASE Rebase
    BY <2>32 DEF Rebase, NewVersion, AlreadyOnTarget
  <2>33. CASE Republish
    BY <2>33 DEF Republish
  <2>60. CASE SaveRepublished
    BY <2>60 DEF SaveRepublished
  <2>61. CASE NothingToRepublish
    BY <2>61 DEF NothingToRepublish
  <2>34. CASE ReplayFails
    BY <2>34 DEF ReplayFails
  <2>35. CASE ClearVerdict
    BY <2>35 DEF ClearVerdict
  <2>36. CASE Gate
    BY <2>36 DEF Gate
  <2>37. CASE SaveUpdate
    BY <2>37 DEF SaveUpdate, NoVersion
  <2>38. CASE HandBack
    BY <2>38 DEF HandBack
  <2>39. CASE SaveHandedBack
    BY <2>39 DEF SaveHandedBack, Terminal
  <2>40. CASE CloseSettled
    BY <2>40 DEF CloseSettled
  <2>41. CASE DeleteLeftover
    BY <2>41 DEF DeleteLeftover
  <2>42. CASE FinishItem
    BY <2>42 DEF FinishItem
  <2>43. CASE SaveFinished
    BY <2>43 DEF SaveFinished, Terminal
  <2>44. CASE AskRecovered
    BY <2>44 DEF AskRecovered, Takes, Arms, Merges, Armed, Dropped
  <2>45. CASE SaveArmed
    BY <2>45 DEF SaveArmed
  <2>46. CASE SettleItem
    BY <2>46 DEF SettleItem, HandedBack
  <2>47. CASE SaveSettled
    BY <2>47 DEF SaveSettled, HandedBack
  <2>48. CASE LeaveConsumedBranch
    BY <2>48 DEF LeaveConsumedBranch
  <2>49. CASE ChargeRearm
    BY <2>49 DEF ChargeRearm
  <2>50. CASE RepeatMerge
    <3>1. CASE lost' = lost + 1
      <4>1. lost' # 0 /\ lost' \in Nat
        BY <3>1
      <4> QED BY <2>50, <4>1 DEF RepeatMerge, Arms, Merges
    <3>2. CASE pc' = "idle" /\ UNCHANGED <<rec, mem, forge, lost>>
      BY <2>50, <3>2 DEF RepeatMerge
    <3>3. CASE /\ Takes(mem.prHead) /\ (Arms \/ Merges)
               /\ Note([mem EXCEPT !.queued = TRUE, !.failure = "none", !.blocker = FALSE])
               /\ Goes("armed") /\ UNCHANGED lost
      <4>1. /\ pc = "repeat" /\ pc' = "armed" /\ UNCHANGED <<rec, versions, lost>>
            /\ forge.state = "open" /\ forge.head = mem.prHead
            /\ forge'.head = forge.head /\ (forge'.auto => forge'.state = "open")
            /\ {"state", "auto", "head"} \subseteq DOMAIN forge'
        BY <2>50, <3>3 DEF RepeatMerge, Takes, Arms, Merges
      <4>2. /\ Asked \subseteq DOMAIN mem' /\ mem'.queued
            /\ UNCHANGED <<mem.landed, mem.prHead, mem.request>>
        BY <3>3
      <4> QED BY <4>1, <4>2
    <3> QED BY <2>50, <3>1, <3>2, <3>3 DEF RepeatMerge
  <2> QED BY <1>1, <2>1, <2>2, <2>3, <2>4, <2>5, <2>6, <2>7, <2>8, <2>9,
        <2>10, <2>11, <2>12, <2>13, <2>14, <2>15, <2>16, <2>17, <2>18, <2>19,
        <2>20, <2>21, <2>22, <2>23, <2>24, <2>25, <2>26, <2>27, <2>28, <2>29,
        <2>30, <2>31, <2>32, <2>33, <2>60, <2>61, <2>34, <2>35, <2>36, <2>37, <2>38, <2>39,
        <2>40, <2>41, <2>42, <2>43, <2>44, <2>45, <2>46, <2>47, <2>48, <2>49,
        <2>50 DEF HolderStep
<1>2. CASE Sweep
  <2>1. CASE Abandon
    BY <2>1 DEF Abandon, Sweeps, Landing, UpdatingQueuedHead, Outstanding,
        NoVersion, Terminal
  <2>2. CASE QueuedMerged
    BY <2>2 DEF QueuedMerged, Sweeps, Landing, OnRemote, MayCatchUp,
        Outstanding, NoVersion, Terminal
  <2>3. CASE QueuedDropped
    BY <2>3 DEF QueuedDropped, Sweeps, Landing, Dropped, Outstanding,
        NoVersion, Terminal
  <2>4. CASE HandBackRed
    BY <2>4 DEF HandBackRed, StillQueued, Withdraw, Dropped, Sweeps, Landing,
        Outstanding, NoVersion, Terminal
  <2>5. CASE UpdateQueuedHead
    BY <2>5 DEF UpdateQueuedHead, StillQueued, RemoteStandsAt, Withdraw,
        Sweeps, Landing, Outstanding, NoVersion, Terminal
  <2>6. CASE ContinueUpdate
    BY <2>6 DEF ContinueUpdate, UpdatingQueuedHead, Landing, NoVersion
  <2>7. CASE InterruptedMerged
    BY <2>7 DEF InterruptedMerged, Interrupted, OnRemote, Known, MayCatchUp,
        Sweeps, Unconfirmed, Outstanding, Landing, Terminal, NoVersion
  <2>8. CASE InterruptedQueued
    BY <2>8 DEF InterruptedQueued, Interrupted, Known, Sweeps, Unconfirmed,
        Outstanding, Landing, Terminal, NoVersion
  <2>9. CASE InterruptedUnlanded
    BY <2>9 DEF InterruptedUnlanded, Interrupted, Known, Sweeps, Unconfirmed,
        Outstanding, Landing, Terminal, NoVersion
  <2>10. CASE Integrated
    BY <2>10 DEF Integrated, Sweeps, Landing, Outstanding, NoVersion, Terminal
  <2>11. CASE RecoverRequest
    BY <2>11 DEF RecoverRequest, Settled, LostRecord, Recovered, Dropped,
        Outstanding, Landing, Terminal, NoVersion
  <2>12. CASE ArmRecovered
    BY <2>12 DEF ArmRecovered, Settled, LostRecord, RemoteStandsAt, Recovered,
        Outstanding, Landing, Terminal, NoVersion
  <2>13. CASE RefreshPublication
    BY <2>13 DEF RefreshPublication, Settled, Outstanding, Terminal, Landing,
        NoVersion
  <2>14. CASE FinishPublication
    BY <2>14 DEF FinishPublication, Settled, Landing, OnRemote, MayCatchUp,
        Outstanding, NoVersion, Terminal
  <2> QED BY <1>2, <2>1, <2>2, <2>3, <2>4, <2>5, <2>6, <2>7, <2>8, <2>9,
        <2>10, <2>11, <2>12, <2>13, <2>14 DEF Sweep
<1>3. CASE Converge
  BY <1>3 DEF Converge, CatchesUp
<1>4. CASE Rearms
  <2>1. CASE Decide
    BY <2>1 DEF Decide, Terminal, Landing, NoVersion
  <2>2. ASSUME NEW k \in Rearmer, CheckRearm(k) PROVE QueuedInv'
    BY <2>2 DEF CheckRearm, Rearmable, Terminal, Untouched, Landing, NoVersion
  <2>3. ASSUME NEW k \in Rearmer, BeginRearm(k) PROVE QueuedInv'
    BY <2>3 DEF BeginRearm, Rearmable, Takes, RemoteStandsAt, Untouched, Landing,
        NoVersion
  <2>4. ASSUME NEW k \in Rearmer, RearmRefused(k) PROVE QueuedInv'
    BY <2>4 DEF RearmRefused
  <2> QED BY <1>4, <2>1, <2>2, <2>3, <2>4 DEF Rearms
<1>5. CASE Outside
  <2>1. CASE ForgeMerges
    BY <2>1 DEF ForgeMerges, Merges
  <2>2. CASE ForgeDrops
    BY <2>2 DEF ForgeDrops, Withdraw
  <2>3. CASE PersonMerges
    BY <2>3 DEF PersonMerges, Merges
  <2>4. CASE CommitElsewhere
    BY <2>4 DEF CommitElsewhere
  <2> QED BY <1>5, <2>1, <2>2, <2>3, <2>4 DEF Outside
<1>6. CASE Crash
  BY <1>6 DEF Crash
<1>7. CASE UNCHANGED vars
  BY <1>7 DEF vars
<1> QED BY <1>1, <1>2, <1>3, <1>4, <1>5, <1>6, <1>7 DEF Next

\* A record that says a merge is queued has it queued for the commit the run
\* integrated, whatever was replayed, re-armed, recovered or interrupted
\* before, while no answer is lost (publishIntegration, Rearmer.repeat,
\* armRecoveredMerge).
THEOREM QueuedLandings == Spec => []QueuedIsIntegrated
<1>1. Init => QueuedInv
  BY DEF Init, QueuedInv, Asked, AskedInv, Holds, Landing, NoVersion
<1>2. QueuedInv => QueuedIsIntegrated
  BY DEF QueuedInv, AskedInv, QueuedIsIntegrated
<1>3. TypeInv /\ QueuedInv /\ [Next]_vars => (TypeInv /\ QueuedInv)'
  BY TypeStep, AskedStep
<1> QED BY <1>1, <1>2, <1>3, TypeInit, PTL DEF Spec

=============================================================================
