--------------------------- MODULE DeliveryProofs ---------------------------
(***************************************************************************)
(* What the delivery pipeline keeps, for any set of runs, any budgets and  *)
(* bounds, and any interleaving of the hosting processes, the reconciler,  *)
(* the triage actions, crashes and other committers.                       *)
(*                                                                         *)
(* The safety properties of Delivery speak of what was promoted and        *)
(* closed; none is inductive.  What makes them so is, for one run, what    *)
(* the process still knows at each step: how its memory relates to the     *)
(* saved record (SyncInv), which phase and verdict go with which step      *)
(* (PhaseInv, VerdictInv, StopInv), that the branch is where the record    *)
(* says (HeadInv), and what of it the target, the item and the judgements  *)
(* show (LandedInv, ItemInv, GateInv, ExactInv, TurnInv).                  *)
(*                                                                         *)
(* A step touches one run (Elsewhere), and another run only through the    *)
(* target growing (StableInv, GrowsInv), so each action has one lemma,     *)
(* about its own run.                                                      *)
(***************************************************************************)
EXTENDS Delivery, TLAPS

-----------------------------------------------------------------------------
(* The invariant of one run, one part per concern. *)

\* The steps at which a process's memory is what it last saved.
Synced ==
  {"idle", "claim", "create", "develop", "check", "checks", "verdict", "turn",
   "promote", "confirm", "retry", "rebase", "record", "republish", "complete",
   "closed", "clean", "cleaned", "grant", "reopen", "handoff", "abandoned"}

\* The steps a run goes through before its change is promoted.
Early ==
  {"claim", "create", "launch", "develop", "account", "check", "checks",
   "review", "verdict", "decide", "integrate", "turn", "promote", "confirm",
   "retry", "rebase", "record", "republish", "grant", "reopen", "handoff"}

\* The steps between the approval and the recorded integration.
Promoting ==
  {"integrate", "turn", "promote", "confirm", "retry", "rebase", "record", "republish"}

\* The phases of a record that may speak of a promoted change.
Late == {"integrating", "completing", "cleaning_up", "complete"}

\* What the process remembers and what is on disk agree, but for what one step may hold in
\* memory before the next save.
SyncInv(r) ==
  /\ rec[r].status = "none" => rec[r] = Absent /\ pc[r] = "idle"
  /\ mem[r].status = rec[r].status /\ mem[r].phase = rec[r].phase
  /\ mem[r].repairs = rec[r].repairs
  /\ pc[r] \notin {"launch", "account"} => VersionOf(mem[r]) = VersionOf(rec[r])
  /\ pc[r] \in Synced => mem[r] = rec[r]

\* The phase in memory is the one of the step that runs.
PhaseInv(r) ==
  /\ pc[r] \in {"claim", "create", "launch"} =>
       mem[r].phase = "none" /\ mem[r].edit = 0 /\ mem[r].verdict = "none"
  /\ pc[r] \in {"develop", "account"} => mem[r].phase = "developing"
  /\ pc[r] \in {"checks", "review"} => mem[r].phase = "checking"
  /\ pc[r] = "verdict" => mem[r].phase = "reviewing"
  /\ pc[r] = "decide" => mem[r].phase \in {"checking", "reviewing"}
  /\ pc[r] \in (Promoting \ {"integrate"}) \cup {"publish"} => mem[r].phase = "integrating"

\* An approval is not of a change that fails its checks or is being developed; a record
\* that says landed has an approval and a late phase.
VerdictOf(m) ==
  /\ m.verdict = "approve" => ~m.failing /\ m.phase # "developing"
  /\ m.landed => m.verdict = "approve" /\ m.phase \in Late

\* Which verdict stands, and whether the change landed, at each step.
VerdictInv(r) ==
  /\ VerdictOf(mem[r]) /\ VerdictOf(rec[r])
  /\ pc[r] \in {"review", "verdict"} => ~mem[r].failing
  /\ pc[r] \in {"decide", "grant"} => mem[r].verdict # "approve"
  /\ pc[r] \in Promoting \cup {"reopen"} => mem[r].verdict = "approve"
  /\ rec[r].landed => mem[r].landed
  /\ pc[r] \in Early => ~mem[r].landed
  /\ pc[r] \in {"publish", "complete", "closed", "clean", "cleaned", "finish", "settled"}
       => mem[r].landed

\* Without publishing, an integration stop is only on a failed run, before it landed.
StopInv(r) ==
  ~Publishing /\ (mem[r].stop \/ rec[r].stop) =>
    pc[r] \in {"idle", "reopen"} /\ ~rec[r].landed /\ rec[r].status = "failed"

\* The branch is where the record says while nothing replays it.
HeadInv(r) ==
  /\ pc[r] \in {"launch", "account", "checks", "review", "verdict", "integrate",
                "turn", "promote", "confirm", "reopen"} => OwnsHead(r, mem[r])
  /\ branch[r].base <= Len(target)
  /\ branch[r].edit <= edits[r]

\* What the target holds of a run: each edit once, where the branch and the record say, and
\* only of a run whose record still has the approval.
LandedInv(r) ==
  /\ \A p \in DOMAIN target : target[p].by = r =>
       /\ target[p].edit > 0 /\ target[p].edit <= edits[r]
       /\ target[p].edit = branch[r].edit => p = branch[r].base + 1
       /\ \A q \in DOMAIN target : target[q] = target[p] => q = p
  /\ pc[r] \in {"launch", "develop", "account", "check", "checks", "review",
                "verdict", "decide", "record", "republish"} => ~InTarget(r, branch[r])
  /\ pc[r] = "confirm" => InTarget(r, VersionOf(mem[r]))
  /\ InTarget(r, branch[r]) =>
       /\ mem[r].verdict = "approve" /\ rec[r].verdict = "approve"
       /\ branch[r] = VersionOf(rec[r]) /\ rec[r].phase \in Late
       /\ rec[r].landed \/ rec[r].phase = "integrating"
  /\ mem[r].landed => InTarget(r, VersionOf(mem[r]))
  /\ rec[r].landed => InTarget(r, VersionOf(rec[r]))
  /\ rec[r].phase = "integrating" /\ branch[r].edit = 0 =>
       branch[r].base = rec[r].base \/ InTarget(r, VersionOf(rec[r]))

\* A closed item is one whose change is on the target, and the record says so or lets the
\* reconciler find out.
ItemInv(r) ==
  /\ pc[r] \in Early \cup {"publish", "block"} => item[r] # "closed"
  /\ r \in Evidence => item[r] # "closed"
  /\ item[r] = "closed" => InTarget(r, VersionOf(rec[r]))
  /\ item[r] = "closed" /\ ~rec[r].landed =>
       /\ pc[r] \in {"idle", "finish", "settled"}
       /\ InterruptedLanding(r) /\ SupportsLanding(rec[r])
  /\ pc[r] \in {"finish", "settled"} /\ ~rec[r].landed =>
       InterruptedLanding(r) /\ SupportsLanding(rec[r])

\* The versions of a run that passed both the checks and the review.
Passed(r) == checked[r] \cap approved[r]

EditPassed(r, e) == \E v \in Passed(r) : v.edit = e

\* Every edit that stands approved, or is on the target, passed both.
GateInv(r) ==
  /\ pc[r] \in {"review", "verdict"} => branch[r] \in checked[r]
  /\ mem[r].verdict = "approve" /\ mem[r].edit # 0 => EditPassed(r, mem[r].edit)
  /\ rec[r].verdict = "approve" /\ rec[r].edit # 0 => EditPassed(r, rec[r].edit)
  /\ pc[r] = "record" => branch[r].edit \in {0, mem[r].edit}
  /\ \A p \in DOMAIN target : target[p].by = r => EditPassed(r, target[p].edit)

\* Without publishing, it is the very version, base included, that passed: a replay always
\* clears the verdict.
ExactInv(r) ==
  ~Publishing =>
    /\ pc[r] \in {"integrate", "turn", "promote", "confirm", "retry", "rebase", "reopen"}
         => VersionOf(mem[r]) \in Passed(r)
    /\ pc[r] = "handoff" /\ rec[r].phase = "integrating" => VersionOf(rec[r]) \in Passed(r)
    /\ rec[r].stop /\ AwaitsIntegration(rec[r]) => VersionOf(rec[r]) \in Passed(r)
    /\ \A p \in DOMAIN target : target[p].by = r =>
         [base |-> p - 1, edit |-> target[p].edit] \in Passed(r)

\* The promotion lease is held from the comparison to the record, so only an outside commit
\* follows a promotion that is not confirmed yet.
TurnInv(r) ==
  /\ pc[r] \in {"promote", "confirm", "publish"} => promoter = r
  /\ pc[r] = "confirm" =>
       \A p \in DOMAIN target : p > mem[r].base + 1 => target[p].by = External

RunInv(r) ==
  /\ SyncInv(r) /\ PhaseInv(r) /\ VerdictInv(r) /\ StopInv(r) /\ HeadInv(r)
  /\ LandedInv(r) /\ ItemInv(r) /\ GateInv(r) /\ ExactInv(r) /\ TurnInv(r)

-----------------------------------------------------------------------------
(* Steps, types and the target branch. *)

\* A step of one run, of whatever actor.
Step(r) == HostStep(r) \/ Reconcile(r) \/ PickUp(r) \/ Crash(r)

\* The steps at which they are taken.
FailSteps ==
  {"claim", "create", "launch", "develop", "account", "check", "checks", "verdict",
   "block", "blocked", "integrate", "turn", "promote", "confirm", "rebase",
   "republish", "complete", "closed"}

\* The steps that end a run through activeRun.fail.
Fails(r) ==
  \/ StartFails(r) \/ DevelopFails(r) \/ ChecksError(r) \/ ReviewFails(r)
  \/ EndBlocked(r) \/ HoldFails(r) \/ TurnFails(r) \/ RemoteRefuses(r)
  \/ PromotionRefused(r) \/ PrimaryNotReady(r) \/ ConfirmFails(r)
  \/ RebaseFails(r) \/ RepublishFails(r) \/ CompleteFails(r)

\* Every failing step is activeRun.fail, from one of these steps; the cause is
\* environmental only where the promotion is prepared or replayed.
LEMMA FailsFrom ==
  ASSUME NEW r \in Run, Fails(r)
  PROVE  /\ \E environmental \in BOOLEAN :
              /\ Fail(r, environmental)
              /\ environmental =>
                   \/ pc[r] \in {"integrate", "promote", "rebase"}
                   \/ pc[r] = "republish" /\ Publishing
         /\ pc[r] \in FailSteps
<1>1. CASE HoldFails(r)
  BY <1>1 DEF HoldFails, FailSteps
<1>2. CASE RemoteRefuses(r)
  BY <1>2 DEF RemoteRefuses, FailSteps
<1>3. CASE PrimaryNotReady(r)
  BY <1>3 DEF PrimaryNotReady, Promotable, FailSteps
<1>4. CASE RebaseFails(r)
  BY <1>4 DEF RebaseFails, Replayable, FailSteps
<1>5. CASE RepublishFails(r)
  BY <1>5 DEF RepublishFails, FailSteps
<1>6. ASSUME \/ StartFails(r) \/ DevelopFails(r) \/ ChecksError(r) \/ ReviewFails(r)
             \/ EndBlocked(r) \/ TurnFails(r) \/ PromotionRefused(r) \/ ConfirmFails(r)
             \/ CompleteFails(r)
      PROVE  Fail(r, FALSE)
             /\ pc[r] \in FailSteps
  BY <1>6 DEF StartFails, DevelopFails, ChecksError, ReviewFails, EndBlocked,
     TurnFails, PromotionRefused, ConfirmFails, CompleteFails, FailSteps
<1> QED
  BY <1>1, <1>2, <1>3, <1>4, <1>5, <1>6 DEF Fails

\* What the types say of one run.
LEMMA Typed ==
  ASSUME TypeOK, NEW r \in Run
  PROVE  /\ mem[r] \in Record /\ rec[r] \in Record /\ branch[r] \in Version /\ edits[r] \in Nat
         /\ checked[r] \subseteq Version /\ approved[r] \subseteq Version /\ Len(target) \in Nat
BY DEF TypeOK

\* A commit on the target branch.
Entry == [by : Run \cup {External}, edit : Nat]

\* Appending keeps what was there and puts the new entry last.
LEMMA AppendEntry ==
  ASSUME NEW t \in Seq(Entry), NEW e \in Entry
  PROVE  /\ DOMAIN Append(t, e) = DOMAIN t \cup {Len(t) + 1}
         /\ \A p \in DOMAIN t : Append(t, e)[p] = t[p] /\ p \in 1..Len(t)
         /\ Append(t, e)[Len(t) + 1] = e
         /\ Len(Append(t, e)) = Len(t) + 1
         /\ Len(t) \in Nat /\ DOMAIN t = 1..Len(t)
         /\ \A p \in DOMAIN t : t[p] \in Entry
         /\ Append(t, e) \in Seq(Entry)
OBVIOUS

\* Every position of the target branch holds a commit.
LEMMA OnTarget ==
  ASSUME TypeOK
  PROVE  /\ target \in Seq(Entry) /\ Len(target) \in Nat /\ DOMAIN target = 1..Len(target)
         /\ \A p \in DOMAIN target :
              /\ target[p] \in Entry /\ target[p].edit \in Nat
              /\ target[p] = [by |-> target[p].by, edit |-> target[p].edit]
<1>1. target \in Seq(Entry)
  BY DEF TypeOK, Entry
<1>2. \A p \in DOMAIN target : target[p] \in Entry
  BY <1>1
<1> QED BY <1>1, <1>2 DEF Entry

\* A commit that is not a run's own changes nothing of what the run landed.
LEMMA NotMine ==
  ASSUME NEW t \in Seq(Entry), NEW e \in Entry, NEW q \in Run, e.by # q,
         target = t, target' = Append(t, e)
  PROVE  /\ \A v \in Version :
              InTarget(q, v) <=>
                /\ v.edit # 0 /\ v.base < Len(target')
                /\ target'[v.base + 1] = [by |-> q, edit |-> v.edit]
         /\ \A p \in DOMAIN target' :
              target'[p].by = q => p \in DOMAIN target /\ target'[p] = target[p]
         /\ DOMAIN target \subseteq DOMAIN target'
         /\ \A p \in DOMAIN target : target'[p] = target[p]
         /\ Len(target') = Len(target) + 1 /\ Len(target) \in Nat
BY AppendEntry DEF InTarget, Version, Entry

-----------------------------------------------------------------------------
(* A step of another run. *)

\* Everything a run's invariant reads, the target aside, is as it was.
FrameOf(q) ==
  /\ rec'[q] = rec[q] /\ mem'[q] = mem[q] /\ pc'[q] = pc[q]
  /\ branch'[q] = branch[q] /\ edits'[q] = edits[q] /\ item'[q] = item[q]
  /\ checked'[q] = checked[q] /\ approved'[q] = approved[q]
  /\ (q \in standing' <=> q \in standing)
  /\ promoter = q => promoter' = q

\* A step of others that leaves the target alone keeps a run's invariant.
LEMMA StableInv ==
  ASSUME TypeOK, NEW q \in Run, RunInv(q), FrameOf(q), target' = target
  PROVE  RunInv(q)'
<1>1. SyncInv(q)' /\ PhaseInv(q)' /\ VerdictInv(q)' /\ StopInv(q)'
  BY DEF FrameOf, RunInv, SyncInv, PhaseInv, VerdictInv, StopInv, VersionOf
<1>2. HeadInv(q)' /\ LandedInv(q)'
  BY DEF FrameOf, RunInv, HeadInv, OwnsHead, LandedInv, InTarget, VersionOf
<1>3. ItemInv(q)'
  BY DEF FrameOf, RunInv, ItemInv, InTarget, InterruptedLanding, BranchIntegrated,
       Contained, VersionOf
<1>4. GateInv(q)' /\ ExactInv(q)' /\ TurnInv(q)'
  BY DEF FrameOf, RunInv, GateInv, EditPassed, Passed, ExactInv, TurnInv, VersionOf
<1> QED BY <1>1, <1>2, <1>3, <1>4 DEF RunInv

\* A commit of another, on top of the target, keeps a run's invariant: what the run landed
\* stays where it is, and the lease keeps other runs off the target while a promotion is
\* being confirmed.
LEMMA GrowsInv ==
  ASSUME TypeOK, NEW q \in Run, RunInv(q), FrameOf(q),
         NEW e \in Entry, e.by # q, target' = Append(target, e),
         pc[q] = "confirm" => e.by = External
  PROVE  RunInv(q)'
<1>1. SyncInv(q)' /\ PhaseInv(q)' /\ VerdictInv(q)' /\ StopInv(q)'
  BY DEF FrameOf, RunInv, SyncInv, PhaseInv, VerdictInv, StopInv, VersionOf
<1>2. /\ \A v \in Version :
           InTarget(q, v) <=>
             /\ v.edit # 0 /\ v.base < Len(target')
             /\ target'[v.base + 1] = [by |-> q, edit |-> v.edit]
      /\ \A p \in DOMAIN target' :
           target'[p].by = q => p \in DOMAIN target /\ target'[p] = target[p]
      /\ DOMAIN target \subseteq DOMAIN target'
      /\ \A p \in DOMAIN target : target'[p] = target[p]
      /\ Len(target') = Len(target) + 1 /\ Len(target) \in Nat
  BY NotMine DEF TypeOK, Entry
<1>3. /\ branch[q] \in Version /\ VersionOf(mem[q]) \in Version /\ VersionOf(rec[q]) \in Version
      /\ VersionOf(mem[q])' = VersionOf(mem[q]) /\ VersionOf(rec[q])' = VersionOf(rec[q])
  BY Typed DEF FrameOf, Record, Version, VersionOf
<1>4. /\ InTarget(q, branch[q])' <=> InTarget(q, branch[q])
      /\ InTarget(q, VersionOf(mem[q]))' <=> InTarget(q, VersionOf(mem[q]))
      /\ InTarget(q, VersionOf(rec[q]))' <=> InTarget(q, VersionOf(rec[q]))
  BY <1>2, <1>3 DEF InTarget, FrameOf
<1>5. HeadInv(q)'
  BY <1>2, <1>3 DEF FrameOf, RunInv, HeadInv, OwnsHead, Version
<1>6. LandedInv(q)'
  BY <1>2, <1>3, <1>4 DEF FrameOf, RunInv, LandedInv
<1>7. ItemInv(q)'
  <2>1. Contained(q) => Contained(q)'
    BY <1>2, <1>3, <1>4 DEF FrameOf, Contained, Version
  <2> QED
    BY <1>3, <1>4, <2>1 DEF FrameOf, RunInv, ItemInv, InterruptedLanding, BranchIntegrated
<1>8. GateInv(q)' /\ ExactInv(q)'
  BY <1>2, <1>3 DEF FrameOf, RunInv, GateInv, EditPassed, Passed, ExactInv
<1>9. TurnInv(q)'
  <2>1. \A p \in DOMAIN target' : p \in DOMAIN target \/ target'[p] = e
    BY AppendEntry DEF TypeOK, Entry
  <2> QED
    BY <1>2, <2>1 DEF FrameOf, RunInv, TurnInv
<1> QED BY <1>1, <1>5, <1>6, <1>7, <1>8, <1>9 DEF RunInv

\* A step of one run touches no other run's record, branch or item; only MoveTarget touches
\* the target.
LEMMA Elsewhere ==
  ASSUME TypeOK, NEW r \in Run, NEW q \in Run, q # r, Step(r)
  PROVE  FrameOf(q) /\ (target' = target \/ MoveTarget(r))
<1>. USE DeliveryAssumption DEF FrameOf, TypeOK, Save, Note, Goes, SetItem, GivesUpTurn,
     git, judged
<1>1. ASSUME Fails(r) PROVE FrameOf(q) /\ target' = target
  <2>1. PICK environmental \in BOOLEAN : Fail(r, environmental)
    BY <1>1, FailsFrom
  <2> QED BY <2>1 DEF Fail
<1>2. ASSUME Dispatch(r) \/ Claim(r) \/ CreateWorktree(r) \/ Launch(r)
      PROVE  FrameOf(q) /\ target' = target
  BY <1>2 DEF Dispatch, Claim, CreateWorktree, Launch
<1>3. ASSUME Develop(r) \/ RecordDevelopment(r) \/ ProviderStops(r) \/ BeginChecks(r)
             \/ ChecksPass(r) \/ ChecksRefuse(r)
      PROVE  FrameOf(q) /\ target' = target
  BY <1>3 DEF Develop, RecordDevelopment, ProviderStops, BeginChecks, ChecksPass,
       ChecksRefuse
<1>4. ASSUME BeginReview(r) \/ Approve(r) \/ RequestRepair(r) \/ StopOnBudget(r)
             \/ ChargeReplay(r) \/ Repair(r) \/ Block(r)
      PROVE  FrameOf(q) /\ target' = target
  BY <1>4 DEF BeginReview, Approve, RequestRepair, StopOnBudget, ChargeReplay, Repair, Block
<1>5. ASSUME SaveIntegrating(r) \/ TakeTurn(r) \/ TargetDiverges(r) \/ TargetDrifted(r)
             \/ ConfirmMove(r) \/ PublishDiverges(r) \/ RecordIntegration(r)
      PROVE  FrameOf(q) /\ target' = target
  BY <1>5 DEF SaveIntegrating, TakeTurn, TargetDiverges, TargetDrifted, ConfirmMove,
     PublishDiverges, RecordIntegration
<1>6. ASSUME MoveTarget(r) PROVE FrameOf(q)
  BY <1>6 DEF MoveTarget
<1>7. ASSUME SaveRetry(r) \/ Rebase(r) \/ RebaseConflicts(r) \/ RecordRebase(r) \/ ClearVerdict(r)
      PROVE  FrameOf(q) /\ target' = target
  BY <1>7 DEF SaveRetry, Rebase, RebaseConflicts, RecordRebase, ClearVerdict
<1>8. ASSUME CloseItem(r) \/ SaveSucceeded(r) \/ CleanUp(r) \/ CleanUpFails(r) \/ SaveComplete(r)
      PROVE  FrameOf(q) /\ target' = target
  BY <1>8 DEF CloseItem, SaveSucceeded, CleanUp, CleanUpFails, SaveComplete
<1>9. ASSUME Resume(r) \/ ContinueIntegration(r) \/ HandoffFails(r) \/ GrantRepair(r)
             \/ SaveGrant(r) \/ ResumeIntegration(r) \/ SaveResumption(r)
      PROVE  FrameOf(q) /\ target' = target
  BY <1>9 DEF Resume, ContinueIntegration, HandoffFails, GrantRepair, SaveGrant,
     ResumeIntegration, SaveResumption
<1>10. ASSUME SettleLanded(r) \/ RecoverLanding(r) \/ Abandon(r) \/ SaveAbandoned(r)
              \/ FinishLanded(r) \/ SaveSettled(r) \/ Unsettled(r) \/ Crash(r)
       PROVE  FrameOf(q) /\ target' = target
  BY <1>10 DEF SettleLanded, RecoverLanding, Abandon, SaveAbandoned, FinishLanded,
       SaveSettled,
     Unsettled, Crash
<1> QED
  BY <1>1, <1>2, <1>3, <1>4, <1>5, <1>6, <1>7, <1>8, <1>9, <1>10
     DEF Step, HostStep, Reconcile, PickUp, Fails

-----------------------------------------------------------------------------
(* Types. *)

\* Every step of a run keeps the types: saves and notes write records.
LEMMA Typing ==
  ASSUME TypeOK, NEW r \in Run, Step(r)
  PROVE  TypeOK'
<1>1. /\ mem[r] \in Record /\ rec[r] \in Record
      /\ mem[r].repairs + 1 \in Nat /\ mem[r].granted + 1 \in Nat
      /\ mem[r].charged + 1 \in Nat /\ mem[r].resumed + 1 \in Nat
  <2>1. mem[r] \in Record /\ rec[r] \in Record
    BY Typed
  <2> QED BY <2>1 DEF Record
<1>2. Len(target) \in Nat /\ branch[r] \in Version
  BY Typed
<1>3. rec' \in [Run -> Record] /\ mem' \in [Run -> Record]
  <2>1. ASSUME NEW m \in Record, Save(r, m) \/ Note(r, m)
        PROVE  rec' \in [Run -> Record] /\ mem' \in [Run -> Record]
    BY <2>1 DEF TypeOK, Save, Note
  <2>2. ASSUME Fails(r) PROVE \E m \in Record : Save(r, m)
    <3>1. PICK environmental \in BOOLEAN : Fail(r, environmental)
      BY <2>2, FailsFrom
    <3>2. [mem[r] EXCEPT !.status = "failed", !.provStop = FALSE,
             !.stop = @ \/ (environmental /\ AwaitsIntegration(mem[r]))] \in Record
      BY <1>1 DEF Record, Phases
    <3> QED BY <3>1, <3>2 DEF Fail
  <2>3. ASSUME Dispatch(r) \/ Launch(r) \/ RecordDevelopment(r) \/ ProviderStops(r)
               \/ BeginChecks(r)
        PROVE  \E m \in Record : Save(r, m)
    <3>1. [Absent EXCEPT !.status = "pending"] \in Record
      BY DEF Absent, Record, Phases
    <3>2. [mem[r] EXCEPT !.status = "running", !.phase = "developing"] \in Record
      BY <1>1 DEF Record, Phases
    <3>3. [mem[r] EXCEPT !.session = TRUE, !.provStop = FALSE] \in Record
      BY <1>1 DEF Record, Phases
    <3>4. [mem[r] EXCEPT !.session = TRUE, !.provStop = TRUE] \in Record
      BY <1>1 DEF Record, Phases
    <3>5. [mem[r] EXCEPT !.phase = "checking"] \in Record
      BY <1>1 DEF Record, Phases
    <3> QED BY <2>3, <3>1, <3>2, <3>3, <3>4, <3>5
         DEF Dispatch, Launch, RecordDevelopment, ProviderStops, BeginChecks
  <2>4. ASSUME CreateWorktree(r) \/ ChecksPass(r) \/ ChecksRefuse(r) \/ Approve(r)
               \/ RequestRepair(r)
        PROVE  \E m \in Record : Note(r, m)
    <3>1. [mem[r] EXCEPT !.base = Len(target)] \in Record
      BY <1>1, <1>2 DEF Record, Phases, Version
    <3>2. [mem[r] EXCEPT !.failing = FALSE] \in Record
      BY <1>1 DEF Record, Phases
    <3>3. [mem[r] EXCEPT !.failing = TRUE, !.verdict = "none"] \in Record
      BY <1>1 DEF Record, Phases
    <3>4. [mem[r] EXCEPT !.verdict = "approve"] \in Record
      BY <1>1 DEF Record, Phases
    <3>5. [mem[r] EXCEPT !.verdict = "repair"] \in Record
      BY <1>1 DEF Record, Phases
    <3> QED BY <2>4, <3>1, <3>2, <3>3, <3>4, <3>5
         DEF CreateWorktree, ChecksPass, ChecksRefuse, Approve, RequestRepair
  <2>5. ASSUME Develop(r) PROVE UNCHANGED <<rec, mem>> \/ \E m \in Record : Note(r, m)
    <3>1. edits[r] + 1 \in Nat
      BY Typed
    <3>2. [mem[r] EXCEPT !.edit = edits[r] + 1] \in Record
      BY <1>1, <3>1 DEF Record, Phases
    <3> QED BY <2>5, <3>2 DEF Develop
  <2>6. ASSUME BeginReview(r) \/ ChargeReplay(r) \/ Repair(r) \/ SaveIntegrating(r)
               \/ RecordIntegration(r)
        PROVE  \E m \in Record : Save(r, m)
    <3>1. [mem[r] EXCEPT !.phase = "reviewing", !.verdict = "none",
            !.provStop = FALSE] \in Record
      BY <1>1 DEF Record, Phases
    <3>2. [mem[r] EXCEPT !.replay = FALSE, !.charged = @ + 1] \in Record
      BY <1>1 DEF Record, Phases
    <3>3. [mem[r] EXCEPT !.repairs = @ + 1, !.phase = "developing"] \in Record
      BY <1>1 DEF Record, Phases
    <3>4. [mem[r] EXCEPT !.phase = "integrating"] \in Record
      BY <1>1 DEF Record, Phases
    <3>5. [mem[r] EXCEPT !.phase = "completing"] \in Record
      BY <1>1 DEF Record, Phases
    <3> QED BY <2>6, <3>1, <3>2, <3>3, <3>4, <3>5
         DEF BeginReview, ChargeReplay, Repair, SaveIntegrating, RecordIntegration
  <2>7. ASSUME TargetDiverges(r) \/ ConfirmMove(r) \/ RebaseConflicts(r) \/ RecoverLanding(r)
               \/ Unsettled(r) \/ Crash(r)
        PROVE  UNCHANGED <<rec, mem>> \/ \E m \in Record : Note(r, m)
    <3>1. [mem[r] EXCEPT !.stop = @ \/ AwaitsIntegration(mem[r])] \in Record
      BY <1>1 DEF Record, Phases
    <3>2. [mem[r] EXCEPT !.landed = TRUE, !.replay = FALSE] \in Record
      BY <1>1 DEF Record, Phases
    <3>3. [mem[r] EXCEPT !.replay = FALSE, !.charged = @ + 1] \in Record
      BY <1>1 DEF Record, Phases
    <3>4. [mem[r] EXCEPT !.landed = TRUE] \in Record
      BY <1>1 DEF Record, Phases
    <3> QED BY <1>1, <2>7, <3>1, <3>2, <3>3, <3>4
         DEF TargetDiverges, ConfirmMove, RebaseConflicts, RecoverLanding,
          Unsettled, Crash
  <2>8. ASSUME SaveRetry(r) \/ RecordRebase(r) \/ ClearVerdict(r) \/ SaveSucceeded(r)
               \/ SaveComplete(r)
        PROVE  \E m \in Record : Save(r, m)
    <3>1. [mem[r] EXCEPT !.replay = TRUE] \in Record
      BY <1>1 DEF Record, Phases
    <3>2. [mem[r] EXCEPT !.base = branch[r].base, !.edit = branch[r].edit] \in Record
      BY <1>1, <1>2 DEF Record, Phases, Version
    <3>3. [mem[r] EXCEPT !.verdict = "none"] \in Record
      BY <1>1 DEF Record, Phases
    <3>4. [mem[r] EXCEPT !.status = "succeeded", !.phase = "cleaning_up",
            !.provStop = FALSE] \in Record
      BY <1>1 DEF Record, Phases
    <3>5. [mem[r] EXCEPT !.phase = "complete"] \in Record
      BY <1>1 DEF Record, Phases
    <3> QED BY <2>8, <3>1, <3>2, <3>3, <3>4, <3>5
         DEF SaveRetry, RecordRebase, ClearVerdict, SaveSucceeded, SaveComplete
  <2>9. ASSUME SaveGrant(r) \/ SaveResumption(r) \/ SaveAbandoned(r) \/ SaveSettled(r)
        PROVE  \E m \in Record : Save(r, m)
    <3>1. [mem[r] EXCEPT !.status = "running", !.phase = "developing",
            !.repairs = @ + 1, !.granted = @ + 1] \in Record
      BY <1>1 DEF Record, Phases
    <3>2. [mem[r] EXCEPT !.status = "running", !.phase = "integrating",
            !.stop = FALSE, !.resumed = @ + 1] \in Record
      BY <1>1 DEF Record, Phases
    <3>3. [mem[r] EXCEPT !.status = "failed", !.provStop = FALSE] \in Record
      BY <1>1 DEF Record, Phases
    <3>4. [mem[r] EXCEPT !.status = IF Terminal(mem[r]) THEN @ ELSE "succeeded",
            !.phase = "cleaning_up"] \in Record
      BY <1>1 DEF Record, Phases
    <3> QED BY <2>9, <3>1, <3>2, <3>3, <3>4
         DEF SaveGrant, SaveResumption, SaveAbandoned, SaveSettled
  <2>10. ASSUME \/ Claim(r) \/ StopOnBudget(r) \/ Block(r) \/ TakeTurn(r) \/ TargetDrifted(r)
                \/ MoveTarget(r) \/ PublishDiverges(r) \/ Rebase(r) \/ CloseItem(r) \/ CleanUp(r)
                \/ CleanUpFails(r) \/ Resume(r) \/ ContinueIntegration(r) \/ HandoffFails(r)
                \/ GrantRepair(r) \/ ResumeIntegration(r) \/ SettleLanded(r) \/ Abandon(r)
                \/ FinishLanded(r)
         PROVE  UNCHANGED <<rec, mem>>
    BY <2>10 DEF Claim, StopOnBudget, Block, TakeTurn, TargetDrifted, MoveTarget,
         PublishDiverges,
       Rebase, CloseItem, CleanUp, CleanUpFails, Resume, ContinueIntegration, HandoffFails,
       GrantRepair, ResumeIntegration, SettleLanded, Abandon, FinishLanded
  <2>11. UNCHANGED <<rec, mem>> => rec' \in [Run -> Record] /\ mem' \in [Run -> Record]
    BY DEF TypeOK
  <2> QED
    BY <2>1, <2>2, <2>3, <2>4, <2>5, <2>6, <2>7, <2>8, <2>9, <2>10, <2>11
       DEF Step, HostStep, Reconcile, PickUp, Fails
<1>4. ASSUME Fails(r) PROVE TypeOK'
  <2>1. PICK environmental \in BOOLEAN : Fail(r, environmental)
    BY <1>4, FailsFrom
  <2> QED BY <1>3, <2>1 DEF Fail, Goes, GivesUpTurn, TypeOK, Steps, git, judged
<1>5. CASE CreateWorktree(r)
  <2>1. branch' \in [Run -> Version]
    BY <1>2, <1>5 DEF CreateWorktree, TypeOK, Version
  <2> QED BY <1>3, <1>5, <2>1 DEF CreateWorktree, Goes, TypeOK, Steps, judged
<1>6. CASE Develop(r)
  <2>1. edits[r] + 1 \in Nat
    BY Typed
  <2>2. [branch[r] EXCEPT !.edit = edits[r] + 1] \in Version
    BY <1>2, <2>1 DEF Version
  <2>3. edits' \in [Run -> Nat]
    BY <1>6, <2>1 DEF Develop, TypeOK
  <2>4. branch' \in [Run -> Version]
    BY <1>6, <2>2 DEF Develop, TypeOK
  <2> QED BY <1>3, <1>6, <2>3, <2>4 DEF Develop, Goes, TypeOK, Steps, judged
<1>7. CASE Rebase(r)
  <2>1. branch' \in [Run -> Version]
    BY <1>2, <1>7 DEF Rebase, TypeOK, Version
  <2> QED BY <1>3, <1>7, <2>1 DEF Rebase, Goes, TypeOK, Steps, judged
<1>8. CASE MoveTarget(r)
  <2>1. target' \in Seq([by : Run \cup {External}, edit : Nat])
    BY <1>2, <1>8 DEF MoveTarget, TypeOK, Version
  <2> QED BY <1>3, <1>8, <2>1 DEF MoveTarget, Goes, TypeOK, Steps, judged
<1>9. CASE ChecksPass(r) \/ Approve(r)
  <2>1. /\ checked[r] \cup {branch[r]} \in SUBSET Version
        /\ approved[r] \cup {branch[r]} \in SUBSET Version
    BY <1>2, Typed
  <2>2. checked' \in [Run -> SUBSET Version] /\ approved' \in [Run -> SUBSET Version]
    BY <1>9, <2>1 DEF ChecksPass, Approve, TypeOK
  <2> QED BY <1>3, <1>9, <2>2 DEF ChecksPass, Approve, Goes, TypeOK, Steps, git
<1>10. CASE \/ Dispatch(r) \/ Claim(r) \/ Launch(r) \/ RecordDevelopment(r) \/ ProviderStops(r)
           \/ BeginChecks(r)
  BY <1>3, <1>10 DEF Dispatch, Claim, Launch, RecordDevelopment, ProviderStops, BeginChecks,
     Goes, SetItem, TypeOK, Steps, git, judged
<1>11. CASE ChecksRefuse(r) \/ BeginReview(r) \/ RequestRepair(r) \/ StopOnBudget(r)
  BY <1>3, <1>11 DEF ChecksRefuse, BeginReview, RequestRepair, StopOnBudget, Goes, TypeOK,
     Steps, git, judged
<1>12. CASE ChargeReplay(r)
  <2>1. pc' = [pc EXCEPT ![r] = "block"] \/ pc' = [pc EXCEPT ![r] = "decide"]
    BY <1>12 DEF ChargeReplay, Goes
  <2> QED BY <1>3, <1>12, <2>1 DEF ChargeReplay, TypeOK, Steps, git, judged
<1>13. CASE Repair(r)
  BY <1>3, <1>13 DEF Repair, Goes, TypeOK, Steps, git, judged
<1>14. CASE Block(r)
  BY <1>3, <1>14 DEF Block, Goes, SetItem, TypeOK, Steps, git, judged
<1>15. CASE \/ SaveIntegrating(r) \/ TakeTurn(r) \/ TargetDiverges(r) \/ TargetDrifted(r)
            \/ ConfirmMove(r) \/ PublishDiverges(r) \/ RecordIntegration(r) \/ SaveRetry(r)
            \/ RebaseConflicts(r) \/ RecordRebase(r) \/ ClearVerdict(r)
  BY <1>3, <1>15 DEF SaveIntegrating, TakeTurn, TargetDiverges, TargetDrifted, ConfirmMove,
     PublishDiverges, RecordIntegration, SaveRetry, RebaseConflicts, RecordRebase,
          ClearVerdict,
     Goes, GivesUpTurn, TypeOK, Steps, git, judged
<1>16. CASE \/ CloseItem(r) \/ SaveSucceeded(r) \/ CleanUp(r) \/ CleanUpFails(r) \/ SaveComplete(r)
            \/ Resume(r) \/ ContinueIntegration(r) \/ HandoffFails(r) \/ GrantRepair(r)
            \/ SaveGrant(r) \/ ResumeIntegration(r) \/ SaveResumption(r)
  BY <1>3, <1>16 DEF CloseItem, SettledStatus, SaveSucceeded, CleanUp, CleanUpFails,
       SaveComplete,
     Resume, ContinueIntegration, HandoffFails, GrantRepair, SaveGrant, ResumeIntegration,
     SaveResumption, Goes, SetItem, TypeOK, Steps, git, judged
<1>17. CASE SettleLanded(r) \/ RecoverLanding(r) \/ Abandon(r) \/ SaveAbandoned(r)
  BY <1>3, <1>17 DEF SettleLanded, RecoverLanding, Abandon, SaveAbandoned, Goes, SetItem,
     TypeOK, Steps, git, judged
<1>18. CASE FinishLanded(r) \/ SaveSettled(r)
  BY <1>3, <1>18 DEF FinishLanded, SettledStatus, SaveSettled, Goes, SetItem, TypeOK, Steps,
     git, judged
<1>19. CASE Unsettled(r)
  BY <1>3, <1>19 DEF Unsettled, Goes, TypeOK, Steps, git, judged
<1>20. CASE Crash(r)
  <2>1. crashes' \in Nat
    BY <1>20 DEF Crash, TypeOK
  <2> QED BY <1>3, <1>20, <2>1 DEF Crash, Goes, GivesUpTurn, TypeOK, Steps, git, judged
<1> QED
  BY <1>4, <1>5, <1>6, <1>7, <1>8, <1>9, <1>10, <1>11, <1>12, <1>15, <1>16,
     <1>17, <1>18, <1>19, <1>13, <1>20, <1>14
     DEF Step, HostStep, Reconcile, PickUp, Fails

-----------------------------------------------------------------------------
(* A run that fails, or whose process is killed. *)

\* activeRun.fail: the failed record keeps the phase, the verdict and the version in
\* memory, so a promotion it does not know of stays recoverable.
LEMMA FailsKeeps ==
  ASSUME TypeOK, NEW r \in Run, RunInv(r), Fails(r)
  PROVE  RunInv(r)'
<1>1. PICK environmental \in BOOLEAN :
        /\ Fail(r, environmental)
        /\ environmental =>
             \/ pc[r] \in {"integrate", "promote", "rebase"}
             \/ pc[r] = "republish" /\ Publishing
  BY FailsFrom
<1>2. /\ pc[r] \in FailSteps /\ pc'[r] = "idle"
      /\ rec'[r] = [mem[r] EXCEPT !.status = "failed", !.provStop = FALSE,
                      !.stop = @ \/ (environmental /\ AwaitsIntegration(mem[r]))]
      /\ mem'[r] = rec'[r]
      /\ promoter' = IF promoter = r THEN Nobody ELSE promoter
      /\ UNCHANGED <<branch, standing, edits, target, item, checked, approved>>
  BY <1>1, FailsFrom DEF Fail, Save, Goes, GivesUpTurn, git, judged, TypeOK
<1>3. mem[r] \in Record /\ rec[r] \in Record /\ branch[r] \in Version
  BY Typed
<1>4. /\ rec'[r].status = "failed" /\ rec'[r].phase = mem[r].phase
      /\ rec'[r].verdict = mem[r].verdict /\ rec'[r].failing = mem[r].failing
      /\ rec'[r].landed = mem[r].landed
      /\ rec'[r].stop = (mem[r].stop \/ (environmental /\ AwaitsIntegration(mem[r])))
      /\ rec'[r].base = mem[r].base /\ rec'[r].edit = mem[r].edit
      /\ VersionOf(rec'[r]) = VersionOf(mem[r])
  BY <1>2, <1>3 DEF Record, VersionOf
<1>5. /\ InTarget(r, branch[r])' <=> InTarget(r, branch[r])
      /\ InTarget(r, VersionOf(mem[r]))' <=> InTarget(r, VersionOf(mem[r]))
      /\ InTarget(r, VersionOf(rec[r]))' <=> InTarget(r, VersionOf(mem[r]))
  BY <1>2, <1>4 DEF InTarget
<1>6. SyncInv(r)'
  BY <1>2, <1>4 DEF SyncInv
<1>7. PhaseInv(r)' /\ TurnInv(r)'
  BY <1>2 DEF PhaseInv, Promoting, TurnInv
<1>8. VerdictInv(r)'
  BY <1>2, <1>4 DEF RunInv, VerdictInv, VerdictOf, Promoting, Early
<1>9. ~Publishing => ~mem[r].stop
  BY <1>2 DEF RunInv, StopInv, FailSteps
<1>10. StopInv(r)'
  BY <1>2, <1>4, <1>9 DEF StopInv, AwaitsIntegration
<1>11. HeadInv(r)'
  BY <1>2 DEF RunInv, HeadInv
<1>12. LandedInv(r)'
  <2>1. InTarget(r, branch[r]) \/ rec'[r].phase = "integrating" =>
          pc[r] \notin {"launch", "account"}
    BY <1>4 DEF RunInv, LandedInv, PhaseInv
  <2>2. pc[r] \notin {"launch", "account"} =>
          VersionOf(mem[r]) = VersionOf(rec[r]) /\ mem[r].base = rec[r].base
    BY DEF RunInv, SyncInv, VersionOf
  <2> QED
    BY <1>2, <1>4, <1>5, <2>1, <2>2 DEF RunInv, SyncInv, VerdictInv, LandedInv
<1>13. ItemInv(r)'
  <2>1. item[r] = "closed" => pc[r] \notin Early \cup {"block"}
    BY DEF RunInv, ItemInv
  <2>2. item[r] = "closed" => rec[r].landed /\ mem[r].landed
    BY <1>2 DEF RunInv, ItemInv, VerdictInv, FailSteps
  <2> QED
    BY <1>2, <1>4, <1>5, <2>1, <2>2 DEF RunInv, SyncInv, LandedInv, ItemInv, Early
<1>14. GateInv(r)'
  BY <1>2, <1>4 DEF RunInv, GateInv, Passed, EditPassed
<1>15. ExactInv(r)'
  <2>1. Passed(r)' = Passed(r)
    BY <1>2 DEF Passed
  <2> QED BY <1>1, <1>2, <1>4, <1>9, <2>1 DEF RunInv, ExactInv, AwaitsIntegration
<1> QED BY <1>6, <1>7, <1>8, <1>10, <1>11, <1>12, <1>13, <1>14, <1>15 DEF RunInv

\* A killed process, or a settlement given up, leaves the record on disk to speak for the
\* run.
LEMMA CrashKeeps ==
  ASSUME TypeOK, NEW r \in Run, RunInv(r), Crash(r) \/ Unsettled(r)
  PROVE  RunInv(r)'
<1>1. /\ pc[r] # "idle" /\ pc'[r] = "idle" /\ rec' = rec /\ mem'[r] = rec[r]
      /\ promoter' = promoter \/ promoter' = Nobody
      /\ UNCHANGED <<branch, standing, edits, target, item, checked, approved>>
  BY DEF Crash, Unsettled, Note, Goes, GivesUpTurn, git, judged, TypeOK
<1>2. /\ InTarget(r, branch[r])' <=> InTarget(r, branch[r])
      /\ InTarget(r, VersionOf(mem[r]))' <=> InTarget(r, VersionOf(rec[r]))
      /\ InTarget(r, VersionOf(rec[r]))' <=> InTarget(r, VersionOf(rec[r]))
  BY <1>1 DEF InTarget, VersionOf
<1>3. SyncInv(r)' /\ PhaseInv(r)' /\ TurnInv(r)'
  BY <1>1 DEF RunInv, SyncInv, PhaseInv, Promoting, TurnInv, VersionOf
<1>4. VerdictInv(r)' /\ HeadInv(r)'
  BY <1>1 DEF RunInv, VerdictInv, VerdictOf, Promoting, Early, HeadInv
<1>5. StopInv(r)'
  BY <1>1 DEF RunInv, StopInv
<1>6. LandedInv(r)'
  BY <1>1, <1>2 DEF RunInv, LandedInv, VersionOf
<1>7. ItemInv(r)'
  BY <1>1, <1>2 DEF RunInv, ItemInv, Early, InterruptedLanding, BranchIntegrated, Contained
<1>8. GateInv(r)'
  BY <1>1 DEF RunInv, GateInv, Passed, EditPassed
<1>9. ExactInv(r)'
  BY <1>1 DEF RunInv, ExactInv, Passed, VersionOf
<1> QED BY <1>3, <1>4, <1>5, <1>6, <1>7, <1>8, <1>9 DEF RunInv

-----------------------------------------------------------------------------
(* Developing, checking and reviewing. *)

\* Dispatch: a new record is pending and knows no change.
LEMMA DispatchKeeps ==
  ASSUME TypeOK, NEW r \in Run, RunInv(r), Dispatch(r)
  PROVE  RunInv(r)'
<1>1. /\ pc[r] = "idle" /\ pc'[r] = "claim" /\ rec[r].status = "none" /\ item[r] = "open"
      /\ rec'[r] = [Absent EXCEPT !.status = "pending"] /\ mem'[r] = rec'[r]
      /\ UNCHANGED <<branch, standing, edits, target, item, promoter, checked, approved>>
  BY DEF Dispatch, Save, Note, Goes, SetItem, GivesUpTurn, git, judged, TypeOK
<1>2. mem[r] \in Record /\ rec[r] \in Record /\ branch[r] \in Version
  BY Typed
<1>3. SyncInv(r)' /\ PhaseInv(r)' /\ VerdictInv(r)' /\ StopInv(r)'
  BY <1>1, <1>2 DEF RunInv, SyncInv, Absent, PhaseInv, Promoting, VerdictInv, VerdictOf,
       StopInv
<1>4. HeadInv(r)' /\ LandedInv(r)' /\ ItemInv(r)'
  BY <1>1, <1>2 DEF RunInv, SyncInv, Absent, HeadInv, Early, Late, LandedInv, InTarget,
       ItemInv, InterruptedLanding, BranchIntegrated, SupportsLanding
<1>5. GateInv(r)' /\ ExactInv(r)' /\ TurnInv(r)'
  BY <1>1, <1>2 DEF RunInv, Absent, GateInv, Passed, EditPassed, ExactInv, TurnInv
<1> QED BY <1>3, <1>4, <1>5 DEF RunInv

\* Claim: the item was open, and is not closed by being claimed.
LEMMA ClaimKeeps ==
  ASSUME TypeOK, NEW r \in Run, RunInv(r), Claim(r)
  PROVE  RunInv(r)'
<1>1. /\ pc[r] = "claim" /\ pc'[r] = "create" /\ item[r] = "open"
      /\ rec' = rec /\ mem' = mem /\ item'[r] = "in_progress"
      /\ UNCHANGED <<branch, standing, edits, target, promoter, checked, approved>>
  BY DEF Claim, Save, Note, Goes, SetItem, GivesUpTurn, git, judged, TypeOK
<1>2. mem[r] \in Record /\ rec[r] \in Record /\ branch[r] \in Version
  BY Typed
<1>3. SyncInv(r)' /\ PhaseInv(r)' /\ VerdictInv(r)' /\ StopInv(r)'
  BY <1>1, <1>2 DEF RunInv, SyncInv, Synced, PhaseInv, Promoting, VerdictInv, Early,
       StopInv
<1>4. HeadInv(r)' /\ LandedInv(r)' /\ ItemInv(r)'
  BY <1>1, <1>2 DEF RunInv, HeadInv, LandedInv, InTarget, ItemInv
<1>5. GateInv(r)' /\ ExactInv(r)' /\ TurnInv(r)'
  BY <1>1, <1>2 DEF RunInv, GateInv, Passed, EditPassed, ExactInv, TurnInv
<1> QED BY <1>3, <1>4, <1>5 DEF RunInv

\* CreateWorktree: the branch starts at the target with nothing of the run on it.
LEMMA CreateWorktreeKeeps ==
  ASSUME TypeOK, NEW r \in Run, RunInv(r), CreateWorktree(r)
  PROVE  RunInv(r)'
<1>1. /\ pc[r] = "create" /\ pc'[r] = "launch"
      /\ mem'[r] = [mem[r] EXCEPT !.base = Len(target)] /\ rec' = rec
      /\ branch'[r] = [base |-> Len(target), edit |-> 0] /\ standing' = standing \cup {r}
      /\ UNCHANGED <<edits, target, item, promoter, checked, approved>>
  BY DEF CreateWorktree, Save, Note, Goes, SetItem, GivesUpTurn, git, judged, TypeOK
<1>2. mem[r] \in Record /\ rec[r] \in Record /\ branch[r] \in Version
  BY Typed
<1>3. SyncInv(r)' /\ PhaseInv(r)' /\ VerdictInv(r)' /\ StopInv(r)'
  BY <1>1, <1>2 DEF RunInv, SyncInv, Synced, PhaseInv, Promoting, VerdictInv, VerdictOf,
       Early, Late, StopInv, Record, Version, Phases
<1>4. ItemInv(r)'
  BY <1>1, <1>2 DEF RunInv, Early, InTarget, ItemInv
<1>5. HeadInv(r)'
  <2>1. edits[r] \in Nat /\ Len(target) \in Nat /\ mem[r].edit = 0
    BY <1>1, Typed DEF RunInv, PhaseInv
  <2>2. VersionOf(mem'[r]) = [base |-> Len(target), edit |-> 0]
    BY <1>1, <1>2, <2>1 DEF VersionOf, Record
  <2> QED BY <1>1, <2>1, <2>2 DEF HeadInv, OwnsHead
<1>6. LandedInv(r)'
  <2>1. ~InTarget(r, branch[r])'
    BY <1>1 DEF InTarget
  <2>2. \A p \in DOMAIN target : target[p].by = r => target[p].edit > 0 /\ target[p].edit # 0
    BY Typed DEF RunInv, LandedInv, TypeOK
  <2>3. ~mem'[r].landed /\ ~rec'[r].landed /\ rec'[r].phase = "none"
    BY <1>1, <1>2 DEF RunInv, SyncInv, Synced, PhaseInv, VerdictInv, Early, Record
  <2> QED BY <1>1, <2>1, <2>2, <2>3 DEF RunInv, LandedInv
<1>7. GateInv(r)' /\ ExactInv(r)' /\ TurnInv(r)'
  BY <1>1, <1>2 DEF RunInv, GateInv, Passed, EditPassed, ExactInv, TurnInv
<1> QED BY <1>3, <1>4, <1>5, <1>6, <1>7 DEF RunInv

\* Launch: the worktree's base reaches the disk with the phase.
LEMMA LaunchKeeps ==
  ASSUME TypeOK, NEW r \in Run, RunInv(r), Launch(r)
  PROVE  RunInv(r)'
<1>1. /\ pc[r] = "launch" /\ pc'[r] = "develop"
      /\ rec'[r] = [mem[r] EXCEPT !.status = "running", !.phase = "developing"]
      /\ mem'[r] = rec'[r]
      /\ UNCHANGED <<branch, standing, edits, target, item, promoter, checked, approved>>
  BY DEF Launch, Save, Note, Goes, SetItem, GivesUpTurn, git, judged, TypeOK
<1>2. mem[r] \in Record /\ rec[r] \in Record /\ branch[r] \in Version
  BY Typed
<1>3. SyncInv(r)' /\ PhaseInv(r)' /\ VerdictInv(r)' /\ StopInv(r)'
  BY <1>1, <1>2 DEF RunInv, SyncInv, PhaseInv, Promoting, VerdictInv, VerdictOf, StopInv
<1>4. HeadInv(r)'
  BY <1>1, <1>2 DEF RunInv, HeadInv, Record, Version, Phases
<1>5. LandedInv(r)'
  BY <1>1, <1>2 DEF RunInv, LandedInv, InTarget, Late, VersionOf, Record, Version,
       Phases
<1>6. ItemInv(r)'
  BY <1>1, <1>2 DEF RunInv, ItemInv, Early, InTarget, InterruptedLanding,
       BranchIntegrated, SupportsLanding, Contained, VerdictInv, Promoting, Record,
       Version, Phases
<1>7. GateInv(r)' /\ ExactInv(r)' /\ TurnInv(r)'
  BY <1>1, <1>2 DEF RunInv, GateInv, Passed, EditPassed, ExactInv, AwaitsIntegration,
       TurnInv
<1> QED BY <1>3, <1>4, <1>5, <1>6, <1>7 DEF RunInv

\* Develop: an edit is a new one, so what is on the target is not on the branch any more.
LEMMA DevelopKeeps ==
  ASSUME TypeOK, NEW r \in Run, RunInv(r), Develop(r)
  PROVE  RunInv(r)'
<1>1. /\ pc[r] = "develop" /\ pc'[r] = "account" /\ OwnsHead(r, mem[r]) /\ rec' = rec
      /\ UNCHANGED <<standing, target, item, promoter, checked, approved>>
      /\ \/ /\ edits'[r] = edits[r] + 1
            /\ branch'[r] = [branch[r] EXCEPT !.edit = edits[r] + 1]
            /\ mem'[r] = [mem[r] EXCEPT !.edit = edits[r] + 1]
         \/ UNCHANGED <<mem, edits, branch>>
  BY DEF Develop, Note, Goes, judged, TypeOK
<1>2. mem[r] \in Record /\ rec[r] \in Record /\ branch[r] \in Version /\ edits[r] \in Nat
  BY Typed
<1>3. mem[r] = rec[r] /\ mem[r].phase = "developing" /\ ~mem[r].landed
  BY <1>1 DEF RunInv, SyncInv, Synced, PhaseInv, VerdictInv, Early
<1>4. /\ mem'[r].status = rec[r].status /\ mem'[r].phase = "developing"
      /\ mem'[r].repairs = rec[r].repairs /\ mem'[r].verdict = mem[r].verdict
      /\ mem'[r].failing = mem[r].failing /\ mem'[r].landed = mem[r].landed
      /\ mem'[r].stop = mem[r].stop
  BY <1>1, <1>2, <1>3 DEF Record
<1>5. mem[r].verdict # "approve"
  BY <1>3 DEF RunInv, VerdictInv, VerdictOf
<1>6. OwnsHead(r, mem[r])' /\ branch'[r].base = branch[r].base /\ branch'[r].edit <= edits'[r]
  BY <1>1, <1>2 DEF RunInv, HeadInv, OwnsHead, VersionOf, Version, Record
<1>7. ~InTarget(r, branch[r])'
  <2>1. CASE UNCHANGED <<mem, edits, branch>>
    BY <1>1, <2>1 DEF RunInv, LandedInv, InTarget
  <2>2. CASE edits'[r] = edits[r] + 1 /\ branch'[r] = [branch[r] EXCEPT !.edit = edits[r] + 1]
    <3>1. branch'[r].edit = edits[r] + 1 /\ branch'[r].base \in Nat
      BY <1>2, <2>2 DEF Version
    <3>2. \A p \in DOMAIN target : target[p].by = r => target[p].edit # edits[r] + 1
      BY <1>2, OnTarget DEF RunInv, LandedInv
    <3> QED BY <1>1, <3>1, <3>2, OnTarget DEF InTarget
  <2> QED BY <1>1, <2>1, <2>2
<1>8. SyncInv(r)' /\ PhaseInv(r)' /\ VerdictInv(r)' /\ StopInv(r)' /\ TurnInv(r)'
  BY <1>1, <1>3, <1>4, <1>5 DEF RunInv, SyncInv, Synced, Absent, PhaseInv, Promoting,
       VerdictInv, VerdictOf,
     Early, StopInv, TurnInv
<1>9. HeadInv(r)'
  BY <1>1, <1>6 DEF RunInv, HeadInv
<1>10. LandedInv(r)'
  <2>1. \A p \in DOMAIN target : target[p].by = r =>
          /\ target[p].edit > 0 /\ target[p].edit <= edits'[r]
          /\ target[p].edit = branch'[r].edit => p = branch'[r].base + 1
    <3>1. CASE UNCHANGED <<mem, edits, branch>>
      BY <3>1 DEF RunInv, LandedInv
    <3>2. CASE edits'[r] = edits[r] + 1 /\ branch'[r] = [branch[r] EXCEPT !.edit = edits[r] + 1]
      <4>1. branch'[r].edit = edits[r] + 1
        BY <1>2, <3>2 DEF Version
      <4>2. \A p \in DOMAIN target : target[p].edit \in Nat
        BY OnTarget
      <4> QED BY <1>2, <3>2, <4>1, <4>2 DEF RunInv, LandedInv
    <3> QED BY <1>1, <3>1, <3>2
  <2> QED BY <1>1, <1>3, <1>4, <1>7, <2>1 DEF RunInv, LandedInv, VerdictInv
<1>11. ItemInv(r)'
  BY <1>1 DEF RunInv, ItemInv, Early
<1>12. GateInv(r)' /\ ExactInv(r)'
  BY <1>1, <1>3, <1>4, <1>5 DEF RunInv, GateInv, EditPassed, Passed, ExactInv,
       AwaitsIntegration, VersionOf
<1> QED BY <1>8, <1>9, <1>10, <1>11, <1>12 DEF RunInv

\* RecordDevelopment: the edit reaches the disk while the verdict is none.
LEMMA RecordDevelopmentKeeps ==
  ASSUME TypeOK, NEW r \in Run, RunInv(r), RecordDevelopment(r)
  PROVE  RunInv(r)'
<1>1. /\ pc[r] = "account" /\ pc'[r] = "check"
      /\ rec'[r] = [mem[r] EXCEPT !.session = TRUE, !.provStop = FALSE]
      /\ mem'[r] = rec'[r]
      /\ UNCHANGED <<branch, standing, edits, target, item, promoter, checked, approved>>
  BY DEF RecordDevelopment, Save, Note, Goes, SetItem, GivesUpTurn, git, judged, TypeOK
<1>2. mem[r] \in Record /\ rec[r] \in Record /\ branch[r] \in Version
  BY Typed
<1>3. SyncInv(r)' /\ PhaseInv(r)' /\ VerdictInv(r)' /\ StopInv(r)'
  BY <1>1, <1>2 DEF RunInv, SyncInv, Synced, PhaseInv, Promoting, VerdictInv, VerdictOf,
       Early, Late, StopInv, Record, Version, Phases
<1>4. HeadInv(r)'
  BY <1>1, <1>2 DEF RunInv, HeadInv, Record, Version, Phases
<1>5. LandedInv(r)'
  BY <1>1, <1>2 DEF RunInv, LandedInv, InTarget, Late, VersionOf, PhaseInv, Promoting,
       Record, Version, Phases
<1>6. ItemInv(r)'
  BY <1>1, <1>2 DEF RunInv, ItemInv, Early, InTarget, InterruptedLanding,
       BranchIntegrated, SupportsLanding, Contained, VerdictInv, Promoting, Record,
       Version, Phases
<1>7. GateInv(r)' /\ ExactInv(r)' /\ TurnInv(r)'
  BY <1>1, <1>2 DEF RunInv, GateInv, Passed, EditPassed, StopInv, ExactInv, TurnInv
<1> QED BY <1>3, <1>4, <1>5, <1>6, <1>7 DEF RunInv

\* ProviderStops: the pause saves the phase it stopped in.
LEMMA ProviderStopsKeeps ==
  ASSUME TypeOK, NEW r \in Run, RunInv(r), ProviderStops(r)
  PROVE  RunInv(r)'
<1>1. /\ pc[r] \in {"account", "verdict"} /\ pc'[r] = "idle"
      /\ rec'[r] = [mem[r] EXCEPT !.session = TRUE, !.provStop = TRUE]
      /\ mem'[r] = rec'[r]
      /\ UNCHANGED <<branch, standing, edits, target, item, promoter, checked, approved>>
  BY DEF ProviderStops, Save, Note, Goes, SetItem, GivesUpTurn, git, judged, TypeOK
<1>2. mem[r] \in Record /\ rec[r] \in Record /\ branch[r] \in Version
  BY Typed
<1>3. SyncInv(r)' /\ PhaseInv(r)' /\ VerdictInv(r)' /\ StopInv(r)'
  BY <1>1, <1>2 DEF RunInv, SyncInv, PhaseInv, Promoting, VerdictInv, VerdictOf, Early,
       StopInv, Record, Version, Phases
<1>4. HeadInv(r)'
  BY <1>1, <1>2 DEF RunInv, HeadInv
<1>5. LandedInv(r)'
  <2>1. /\ VersionOf(mem[r])' = VersionOf(mem[r]) /\ VersionOf(rec[r])' = VersionOf(mem[r])
    BY <1>1, <1>2 DEF VersionOf, Record
  <2>2. /\ InTarget(r, branch[r])' <=> InTarget(r, branch[r])
        /\ InTarget(r, VersionOf(mem[r]))' <=> InTarget(r, VersionOf(mem[r]))
        /\ InTarget(r, VersionOf(rec[r]))' <=> InTarget(r, VersionOf(mem[r]))
    BY <1>1, <2>1 DEF InTarget
  <2> QED BY <1>1, <1>2, <2>1, <2>2 DEF RunInv, SyncInv, Synced, PhaseInv, VerdictInv,
         VerdictOf, Early, Promoting, LandedInv, Late, Record
<1>6. ItemInv(r)'
  <2>1. VersionOf(rec[r])' = VersionOf(mem[r])
    BY <1>1, <1>2 DEF VersionOf, Record
  <2>2. InTarget(r, VersionOf(rec[r]))' <=> InTarget(r, VersionOf(mem[r]))
    BY <1>1, <2>1 DEF InTarget
  <2> QED BY <1>1, <1>2, <2>1, <2>2 DEF RunInv, SyncInv, Synced, PhaseInv, VerdictInv,
         VerdictOf, Early, Promoting, LandedInv, Late, ItemInv, Record
<1>7. GateInv(r)' /\ ExactInv(r)' /\ TurnInv(r)'
  BY <1>1, <1>2 DEF RunInv, GateInv, Passed, EditPassed, ExactInv, AwaitsIntegration,
       StopInv, TurnInv, Record, Version, Phases
<1> QED BY <1>3, <1>4, <1>5, <1>6, <1>7 DEF RunInv

\* BeginChecks: the phase is saved over a branch that is where the record says.
LEMMA BeginChecksKeeps ==
  ASSUME TypeOK, NEW r \in Run, RunInv(r), BeginChecks(r)
  PROVE  RunInv(r)'
<1>1. /\ pc[r] = "check" /\ pc'[r] = "checks" /\ OwnsHead(r, mem[r])
      /\ rec'[r] = [mem[r] EXCEPT !.phase = "checking"] /\ mem'[r] = rec'[r]
      /\ UNCHANGED <<branch, standing, edits, target, item, promoter, checked, approved>>
  BY DEF BeginChecks, Save, Note, Goes, SetItem, GivesUpTurn, git, judged, TypeOK
<1>2. mem[r] \in Record /\ rec[r] \in Record /\ branch[r] \in Version
  BY Typed
<1>3. SyncInv(r)' /\ PhaseInv(r)' /\ VerdictInv(r)' /\ StopInv(r)'
  BY <1>1, <1>2 DEF RunInv, SyncInv, Synced, PhaseInv, Promoting, VerdictInv, VerdictOf,
       Early, Late, StopInv, Record, Version, Phases
<1>4. HeadInv(r)'
  BY <1>1, <1>2 DEF RunInv, SyncInv, VersionOf, Synced, HeadInv, OwnsHead
<1>5. LandedInv(r)'
  BY <1>1, <1>2 DEF RunInv, LandedInv, InTarget, Late, VersionOf, Record, Version,
       Phases
<1>6. ItemInv(r)'
  BY <1>1, <1>2 DEF RunInv, VersionOf, VerdictInv, Early, OwnsHead, ItemInv
<1>7. GateInv(r)' /\ ExactInv(r)' /\ TurnInv(r)'
  BY <1>1, <1>2 DEF RunInv, GateInv, Passed, EditPassed, ExactInv, AwaitsIntegration,
       TurnInv
<1> QED BY <1>3, <1>4, <1>5, <1>6, <1>7 DEF RunInv

\* ChecksPass: the version on the branch is among the checked ones.
LEMMA ChecksPassKeeps ==
  ASSUME TypeOK, NEW r \in Run, RunInv(r), ChecksPass(r)
  PROVE  RunInv(r)'
<1>1. /\ pc[r] = "checks" /\ pc'[r] = "review"
      /\ mem'[r] = [mem[r] EXCEPT !.failing = FALSE] /\ rec' = rec
      /\ checked'[r] = checked[r] \cup {branch[r]}
      /\ UNCHANGED <<branch, standing, edits, target, item, promoter, approved>>
  BY DEF ChecksPass, Save, Note, Goes, SetItem, GivesUpTurn, git, judged, TypeOK
<1>2. mem[r] \in Record /\ rec[r] \in Record /\ branch[r] \in Version
  BY Typed
<1>3. SyncInv(r)' /\ PhaseInv(r)' /\ VerdictInv(r)' /\ StopInv(r)'
  BY <1>1, <1>2 DEF RunInv, SyncInv, VersionOf, Synced, PhaseInv, Promoting, VerdictInv,
       VerdictOf, Late, StopInv
<1>4. HeadInv(r)' /\ LandedInv(r)' /\ ItemInv(r)'
  BY <1>1, <1>2 DEF RunInv, VersionOf, HeadInv, OwnsHead, Early, LandedInv, InTarget,
       ItemInv
<1>5. GateInv(r)' /\ ExactInv(r)' /\ TurnInv(r)'
  BY <1>1, <1>2 DEF RunInv, GateInv, Passed, EditPassed, ExactInv, AwaitsIntegration,
       TurnInv, Record, Version, Phases
<1> QED BY <1>3, <1>4, <1>5 DEF RunInv

\* ChecksRefuse: a refused change keeps no verdict.
LEMMA ChecksRefuseKeeps ==
  ASSUME TypeOK, NEW r \in Run, RunInv(r), ChecksRefuse(r)
  PROVE  RunInv(r)'
<1>1. /\ pc[r] = "checks" /\ pc'[r] = "decide"
      /\ mem'[r] = [mem[r] EXCEPT !.failing = TRUE, !.verdict = "none"] /\ rec' = rec
      /\ UNCHANGED <<branch, standing, edits, target, item, promoter, checked, approved>>
  BY DEF ChecksRefuse, Save, Note, Goes, SetItem, GivesUpTurn, git, judged, TypeOK
<1>2. mem[r] \in Record /\ rec[r] \in Record /\ branch[r] \in Version
  BY Typed
<1>3. SyncInv(r)' /\ PhaseInv(r)' /\ VerdictInv(r)' /\ StopInv(r)'
  BY <1>1, <1>2 DEF RunInv, SyncInv, VersionOf, Synced, PhaseInv, Promoting, VerdictInv,
       VerdictOf, Late, StopInv
<1>4. HeadInv(r)' /\ LandedInv(r)' /\ ItemInv(r)'
  BY <1>1, <1>2 DEF RunInv, HeadInv, OwnsHead, Early, LandedInv, InTarget, ItemInv
<1>5. GateInv(r)' /\ ExactInv(r)' /\ TurnInv(r)'
  BY <1>1, <1>2 DEF RunInv, GateInv, Passed, EditPassed, ExactInv, TurnInv
<1> QED BY <1>3, <1>4, <1>5 DEF RunInv

\* BeginReview: the verdict of an earlier round is cleared on disk before the reviewer is
\* asked.
LEMMA BeginReviewKeeps ==
  ASSUME TypeOK, NEW r \in Run, RunInv(r), BeginReview(r)
  PROVE  RunInv(r)'
<1>1. /\ pc[r] = "review" /\ pc'[r] = "verdict"
      /\ rec'[r] = [mem[r] EXCEPT !.phase = "reviewing", !.verdict = "none", !.provStop = FALSE]
      /\ mem'[r] = rec'[r]
      /\ UNCHANGED <<branch, standing, edits, target, item, promoter, checked, approved>>
  BY DEF BeginReview, Save, Note, Goes, SetItem, GivesUpTurn, git, judged, TypeOK
<1>2. mem[r] \in Record /\ rec[r] \in Record /\ branch[r] \in Version
  BY Typed
<1>3. SyncInv(r)' /\ PhaseInv(r)' /\ VerdictInv(r)' /\ StopInv(r)'
  BY <1>1, <1>2 DEF RunInv, SyncInv, Synced, PhaseInv, Promoting, VerdictInv, VerdictOf,
       Early, Late, StopInv, Record, Version, Phases
<1>4. LandedInv(r)'
  BY <1>1, <1>2 DEF RunInv, LandedInv, InTarget, Late, VersionOf, Record, Version,
       Phases
<1>5. ItemInv(r)'
  BY <1>1, <1>2 DEF RunInv, ItemInv, Early, InTarget, InterruptedLanding,
       BranchIntegrated, SupportsLanding, Contained, VerdictInv, Promoting, Record,
       Version, Phases
<1>6. HeadInv(r)'
  BY <1>1, <1>2 DEF RunInv, SyncInv, Synced, HeadInv, OwnsHead, VersionOf, Record
<1>7. GateInv(r)' /\ ExactInv(r)' /\ TurnInv(r)'
  BY <1>1, <1>2 DEF RunInv, GateInv, Passed, EditPassed, ExactInv, AwaitsIntegration,
       TurnInv
<1> QED BY <1>3, <1>4, <1>5, <1>6, <1>7 DEF RunInv

\* Approve: what is approved is what was checked, and it is still on the branch.
LEMMA ApproveKeeps ==
  ASSUME TypeOK, NEW r \in Run, RunInv(r), Approve(r)
  PROVE  RunInv(r)'
<1>1. /\ pc[r] = "verdict" /\ pc'[r] = "integrate"
      /\ mem'[r] = [mem[r] EXCEPT !.verdict = "approve"] /\ rec' = rec
      /\ approved'[r] = approved[r] \cup {branch[r]}
      /\ UNCHANGED <<branch, standing, edits, target, item, promoter, checked>>
  BY DEF Approve, Save, Note, Goes, SetItem, GivesUpTurn, git, judged, TypeOK
<1>2. mem[r] \in Record /\ rec[r] \in Record /\ branch[r] \in Version
  BY Typed
<1>3. SyncInv(r)' /\ PhaseInv(r)' /\ VerdictInv(r)' /\ StopInv(r)'
  BY <1>1, <1>2 DEF RunInv, SyncInv, VersionOf, Synced, PhaseInv, VerdictInv, VerdictOf,
       Late, StopInv
<1>4. HeadInv(r)' /\ LandedInv(r)' /\ ItemInv(r)'
  BY <1>1, <1>2 DEF RunInv, VersionOf, HeadInv, OwnsHead, Early, LandedInv, InTarget,
       ItemInv
<1>5. TurnInv(r)'
  BY <1>1, <1>2 DEF RunInv, TurnInv, Record, Version, Phases
<1>6. GateInv(r)'
  <2>1. branch[r] \in checked[r] /\ branch[r] = VersionOf(mem[r]) /\ branch[r].edit = mem[r].edit
    BY <1>1 DEF RunInv, GateInv, HeadInv, OwnsHead, VersionOf
  <2>2. branch[r] \in Passed(r)' /\ Passed(r) \subseteq Passed(r)'
    BY <1>1, <2>1 DEF Passed
  <2>3. VersionOf(mem'[r]) = VersionOf(mem[r]) /\ mem'[r].edit = mem[r].edit
    BY <1>1, <1>2 DEF VersionOf, Record
  <2> QED BY <1>1, <2>1, <2>2, <2>3 DEF RunInv, GateInv, EditPassed
<1>7. ExactInv(r)'
  <2>1. branch[r] \in checked[r] /\ branch[r] = VersionOf(mem[r]) /\ branch[r].edit = mem[r].edit
    BY <1>1 DEF RunInv, GateInv, HeadInv, OwnsHead, VersionOf
  <2>2. branch[r] \in Passed(r)' /\ Passed(r) \subseteq Passed(r)'
    BY <1>1, <2>1 DEF Passed
  <2>3. VersionOf(mem'[r]) = VersionOf(mem[r]) /\ mem'[r].edit = mem[r].edit
    BY <1>1, <1>2 DEF VersionOf, Record
  <2> QED BY <1>1, <2>1, <2>2, <2>3 DEF RunInv, ExactInv
<1> QED BY <1>3, <1>4, <1>5, <1>6, <1>7 DEF RunInv

\* RequestRepair: the verdict is not an approval.
LEMMA RequestRepairKeeps ==
  ASSUME TypeOK, NEW r \in Run, RunInv(r), RequestRepair(r)
  PROVE  RunInv(r)'
<1>1. /\ pc[r] = "verdict" /\ pc'[r] = "decide"
      /\ mem'[r] = [mem[r] EXCEPT !.verdict = "repair"] /\ rec' = rec
      /\ UNCHANGED <<branch, standing, edits, target, item, promoter, checked, approved>>
  BY DEF RequestRepair, Save, Note, Goes, SetItem, GivesUpTurn, git, judged, TypeOK
<1>2. mem[r] \in Record /\ rec[r] \in Record /\ branch[r] \in Version
  BY Typed
<1>3. SyncInv(r)' /\ PhaseInv(r)' /\ VerdictInv(r)' /\ StopInv(r)'
  BY <1>1, <1>2 DEF RunInv, SyncInv, VersionOf, Synced, PhaseInv, Promoting, VerdictInv,
       VerdictOf, Late, StopInv
<1>4. HeadInv(r)' /\ LandedInv(r)' /\ ItemInv(r)'
  BY <1>1, <1>2 DEF RunInv, HeadInv, OwnsHead, Early, LandedInv, InTarget, ItemInv
<1>5. GateInv(r)' /\ ExactInv(r)' /\ TurnInv(r)'
  BY <1>1, <1>2 DEF RunInv, GateInv, Passed, EditPassed, ExactInv, TurnInv
<1> QED BY <1>3, <1>4, <1>5 DEF RunInv

\* StopOnBudget: a run out of budget goes to a person without an approval.
LEMMA StopOnBudgetKeeps ==
  ASSUME TypeOK, NEW r \in Run, RunInv(r), StopOnBudget(r)
  PROVE  RunInv(r)'
<1>1. /\ pc[r] = "decide" /\ pc'[r] = "block" /\ rec' = rec /\ mem' = mem
      /\ UNCHANGED <<branch, standing, edits, target, item, promoter, checked, approved>>
  BY DEF StopOnBudget, Save, Note, Goes, SetItem, GivesUpTurn, git, judged, TypeOK
<1>2. mem[r] \in Record /\ rec[r] \in Record /\ branch[r] \in Version
  BY Typed
<1>3. SyncInv(r)' /\ PhaseInv(r)' /\ VerdictInv(r)' /\ StopInv(r)'
  BY <1>1, <1>2 DEF RunInv, SyncInv, Synced, PhaseInv, Promoting, VerdictInv, Early,
       StopInv
<1>4. HeadInv(r)' /\ LandedInv(r)' /\ ItemInv(r)'
  BY <1>1, <1>2 DEF RunInv, HeadInv, Early, LandedInv, InTarget, ItemInv
<1>5. GateInv(r)' /\ ExactInv(r)' /\ TurnInv(r)'
  BY <1>1, <1>2 DEF RunInv, GateInv, Passed, EditPassed, ExactInv, TurnInv
<1> QED BY <1>3, <1>4, <1>5 DEF RunInv

\* ChargeReplay: charging the replay changes only the counters.
LEMMA ChargeReplayKeeps ==
  ASSUME TypeOK, NEW r \in Run, RunInv(r), ChargeReplay(r)
  PROVE  RunInv(r)'
<1>1. /\ pc[r] = "decide" /\ pc'[r] \in {"block", "decide"}
      /\ rec'[r] = [mem[r] EXCEPT !.replay = FALSE, !.charged = @ + 1]
      /\ mem'[r] = rec'[r]
      /\ UNCHANGED <<branch, standing, edits, target, item, promoter, checked, approved>>
  BY DEF ChargeReplay, Save, Note, Goes, SetItem, GivesUpTurn, git, judged, TypeOK
<1>2. mem[r] \in Record /\ rec[r] \in Record /\ branch[r] \in Version
  BY Typed
<1>3. SyncInv(r)' /\ PhaseInv(r)' /\ VerdictInv(r)' /\ StopInv(r)'
  BY <1>1, <1>2 DEF RunInv, SyncInv, PhaseInv, Promoting, VerdictInv, VerdictOf, StopInv
<1>4. ItemInv(r)'
  BY <1>1, <1>2 DEF RunInv, ItemInv, Early, InTarget, InterruptedLanding,
       BranchIntegrated, SupportsLanding, Contained, VerdictInv, Promoting, Record,
       Version, Phases
<1>5. HeadInv(r)'
  BY <1>1, <1>2 DEF RunInv, SyncInv, Synced, HeadInv, OwnsHead, VersionOf, Record
<1>6. LandedInv(r)'
  <2>1. /\ VersionOf(mem[r])' = VersionOf(mem[r]) /\ VersionOf(rec[r])' = VersionOf(mem[r])
    BY <1>1, <1>2 DEF VersionOf, Record
  <2>2. /\ InTarget(r, branch[r])' <=> InTarget(r, branch[r])
        /\ InTarget(r, VersionOf(mem[r]))' <=> InTarget(r, VersionOf(mem[r]))
        /\ InTarget(r, VersionOf(rec[r]))' <=> InTarget(r, VersionOf(mem[r]))
    BY <1>1, <2>1 DEF InTarget
  <2> QED BY <1>1, <1>2, <2>1, <2>2 DEF RunInv, SyncInv, Synced, PhaseInv, VerdictInv,
         VerdictOf, Early, Promoting, LandedInv, Late, Record
<1>7. GateInv(r)' /\ ExactInv(r)' /\ TurnInv(r)'
  BY <1>1, <1>2 DEF RunInv, GateInv, Passed, EditPassed, ExactInv, AwaitsIntegration,
       StopInv, TurnInv, Record, Version, Phases
<1> QED BY <1>3, <1>4, <1>5, <1>6, <1>7 DEF RunInv

\* Repair: the attempt is on disk before the provider works, and no verdict stands.
LEMMA RepairKeeps ==
  ASSUME TypeOK, NEW r \in Run, RunInv(r), Repair(r)
  PROVE  RunInv(r)'
<1>1. /\ pc[r] = "decide" /\ pc'[r] = "develop"
      /\ rec'[r] = [mem[r] EXCEPT !.repairs = @ + 1, !.phase = "developing"]
      /\ mem'[r] = rec'[r]
      /\ UNCHANGED <<branch, standing, edits, target, item, promoter, checked, approved>>
  BY DEF Repair, Save, Note, Goes, SetItem, GivesUpTurn, git, judged, TypeOK
<1>2. mem[r] \in Record /\ rec[r] \in Record /\ branch[r] \in Version
  BY Typed
<1>3. SyncInv(r)' /\ PhaseInv(r)' /\ VerdictInv(r)' /\ StopInv(r)'
  BY <1>1, <1>2 DEF RunInv, SyncInv, PhaseInv, Promoting, VerdictInv, VerdictOf, StopInv
<1>4. HeadInv(r)'
  BY <1>1, <1>2 DEF RunInv, HeadInv, Record, Version, Phases
<1>5. LandedInv(r)'
  BY <1>1, <1>2 DEF RunInv, LandedInv, InTarget, Late, VersionOf, Record, Version,
       Phases
<1>6. ItemInv(r)'
  BY <1>1, <1>2 DEF RunInv, ItemInv, Early, InTarget, InterruptedLanding,
       BranchIntegrated, SupportsLanding, Contained, VerdictInv, Promoting, Record,
       Version, Phases
<1>7. GateInv(r)' /\ ExactInv(r)' /\ TurnInv(r)'
  BY <1>1, <1>2 DEF RunInv, GateInv, Passed, EditPassed, ExactInv, AwaitsIntegration,
       TurnInv
<1> QED BY <1>3, <1>4, <1>5, <1>6, <1>7 DEF RunInv

\* Block: a blocked item was not closed.
LEMMA BlockKeeps ==
  ASSUME TypeOK, NEW r \in Run, RunInv(r), Block(r)
  PROVE  RunInv(r)'
<1>1. /\ pc[r] = "block" /\ pc'[r] = "blocked" /\ rec' = rec /\ mem' = mem
      /\ item'[r] = "blocked"
      /\ UNCHANGED <<branch, standing, edits, target, promoter, checked, approved>>
  BY DEF Block, Save, Note, Goes, SetItem, GivesUpTurn, git, judged, TypeOK
<1>2. mem[r] \in Record /\ rec[r] \in Record /\ branch[r] \in Version
  BY Typed
<1>3. SyncInv(r)' /\ PhaseInv(r)' /\ VerdictInv(r)' /\ StopInv(r)'
  BY <1>1, <1>2 DEF RunInv, SyncInv, Synced, PhaseInv, Promoting, VerdictInv, Early,
       StopInv
<1>4. HeadInv(r)' /\ LandedInv(r)' /\ ItemInv(r)'
  BY <1>1, <1>2 DEF RunInv, HeadInv, LandedInv, InTarget, ItemInv
<1>5. GateInv(r)' /\ ExactInv(r)' /\ TurnInv(r)'
  BY <1>1, <1>2 DEF RunInv, GateInv, Passed, EditPassed, ExactInv, TurnInv
<1> QED BY <1>3, <1>4, <1>5 DEF RunInv

-----------------------------------------------------------------------------
(* Promoting and replaying. *)

\* SaveIntegrating: phase, verdict and version are on disk before the target moves, so a
\* promotion is always one the record supports.
LEMMA SaveIntegratingKeeps ==
  ASSUME TypeOK, NEW r \in Run, RunInv(r), SaveIntegrating(r)
  PROVE  RunInv(r)'
<1>1. /\ pc[r] = "integrate" /\ pc'[r] = "turn"
      /\ rec'[r] = [mem[r] EXCEPT !.phase = "integrating"] /\ mem'[r] = rec'[r]
      /\ UNCHANGED <<branch, standing, edits, target, item, promoter, checked, approved>>
  BY DEF SaveIntegrating, Save, Note, Goes, SetItem, GivesUpTurn, git, judged, TypeOK
<1>2. mem[r] \in Record /\ rec[r] \in Record /\ branch[r] \in Version
  BY Typed
<1>3. SyncInv(r)' /\ PhaseInv(r)' /\ VerdictInv(r)' /\ StopInv(r)'
  BY <1>1, <1>2 DEF RunInv, SyncInv, Synced, PhaseInv, Promoting, VerdictInv, VerdictOf,
       Early, Late, StopInv, Record, Version, Phases
<1>4. LandedInv(r)'
  BY <1>1, <1>2 DEF RunInv, LandedInv, InTarget, Late, VersionOf, VerdictInv, Promoting,
       Early, HeadInv, OwnsHead, Record, Version, Phases
<1>5. ItemInv(r)'
  BY <1>1, <1>2 DEF RunInv, ItemInv, Early, InTarget, InterruptedLanding,
       BranchIntegrated, SupportsLanding, Contained, VerdictInv, Promoting, VerdictOf,
       Late, Record, Version, Phases
<1>6. HeadInv(r)'
  BY <1>1, <1>2 DEF RunInv, SyncInv, Synced, HeadInv, OwnsHead, VersionOf, Record
<1>7. GateInv(r)' /\ ExactInv(r)' /\ TurnInv(r)'
  BY <1>1, <1>2 DEF RunInv, GateInv, Passed, EditPassed, ExactInv, AwaitsIntegration,
       VersionOf, TurnInv, Record, Version, Phases
<1> QED BY <1>3, <1>4, <1>5, <1>6, <1>7 DEF RunInv

\* TakeTurn: the promotion lease was free and is the run's.
LEMMA TakeTurnKeeps ==
  ASSUME TypeOK, NEW r \in Run, RunInv(r), TakeTurn(r)
  PROVE  RunInv(r)'
<1>1. /\ pc[r] = "turn" /\ pc'[r] = "promote" /\ rec' = rec /\ mem' = mem /\ promoter' = r
      /\ UNCHANGED <<branch, standing, edits, target, item, checked, approved>>
  BY DEF TakeTurn, Save, Note, Goes, SetItem, GivesUpTurn, git, judged, TypeOK
<1>2. mem[r] \in Record /\ rec[r] \in Record /\ branch[r] \in Version
  BY Typed
<1>3. SyncInv(r)' /\ PhaseInv(r)' /\ VerdictInv(r)' /\ StopInv(r)'
  BY <1>1, <1>2 DEF RunInv, SyncInv, Synced, PhaseInv, Promoting, VerdictInv, Early,
       StopInv
<1>4. HeadInv(r)' /\ LandedInv(r)' /\ ItemInv(r)'
  BY <1>1, <1>2 DEF RunInv, HeadInv, OwnsHead, Early, LandedInv, InTarget, ItemInv
<1>5. GateInv(r)' /\ ExactInv(r)' /\ TurnInv(r)'
  BY <1>1, <1>2 DEF RunInv, GateInv, Passed, EditPassed, ExactInv, TurnInv
<1> QED BY <1>3, <1>4, <1>5 DEF RunInv

\* TargetDiverges: only a publishing product records the stop here.
LEMMA TargetDivergesKeeps ==
  ASSUME TypeOK, NEW r \in Run, RunInv(r), TargetDiverges(r)
  PROVE  RunInv(r)'
<1>1. /\ pc[r] = "promote" /\ pc'[r] = "block" /\ Publishing
      /\ mem'[r] = [mem[r] EXCEPT !.stop = @ \/ AwaitsIntegration(mem[r])]
      /\ rec' = rec
      /\ UNCHANGED <<branch, standing, edits, target, item, promoter, checked, approved>>
  BY DEF TargetDiverges, Save, Note, Goes, SetItem, GivesUpTurn, git, judged, TypeOK
<1>2. mem[r] \in Record /\ rec[r] \in Record /\ branch[r] \in Version
  BY Typed
<1>3. SyncInv(r)' /\ PhaseInv(r)' /\ VerdictInv(r)' /\ StopInv(r)'
  BY <1>1, <1>2 DEF RunInv, SyncInv, VersionOf, Synced, PhaseInv, Promoting, VerdictInv,
       VerdictOf, Early, StopInv
<1>4. HeadInv(r)' /\ LandedInv(r)' /\ ItemInv(r)'
  BY <1>1, <1>2 DEF RunInv, VersionOf, HeadInv, Early, LandedInv, InTarget, ItemInv
<1>5. GateInv(r)' /\ ExactInv(r)' /\ TurnInv(r)'
  BY <1>1, <1>2 DEF RunInv, GateInv, Passed, EditPassed, ExactInv, TurnInv
<1> QED BY <1>3, <1>4, <1>5 DEF RunInv

\* TargetDrifted: the lease is given up with nothing promoted.
LEMMA TargetDriftedKeeps ==
  ASSUME TypeOK, NEW r \in Run, RunInv(r), TargetDrifted(r)
  PROVE  RunInv(r)'
<1>1. /\ pc[r] = "promote" /\ pc'[r] = "retry" /\ rec' = rec /\ mem' = mem
      /\ promoter' = IF promoter = r THEN Nobody ELSE promoter
      /\ UNCHANGED <<branch, standing, edits, target, item, checked, approved>>
  BY DEF TargetDrifted, Promotable, Save, Note, Goes, SetItem, GivesUpTurn, git, judged,
       TypeOK
<1>2. mem[r] \in Record /\ rec[r] \in Record /\ branch[r] \in Version
  BY Typed
<1>3. SyncInv(r)' /\ PhaseInv(r)' /\ VerdictInv(r)' /\ StopInv(r)'
  BY <1>1, <1>2 DEF RunInv, SyncInv, Synced, PhaseInv, Promoting, VerdictInv, Early,
       StopInv
<1>4. HeadInv(r)' /\ LandedInv(r)' /\ ItemInv(r)'
  BY <1>1, <1>2 DEF RunInv, HeadInv, Early, LandedInv, InTarget, ItemInv
<1>5. GateInv(r)' /\ ExactInv(r)' /\ TurnInv(r)'
  BY <1>1, <1>2 DEF RunInv, VerdictInv, GateInv, Passed, EditPassed, ExactInv, TurnInv
<1> QED BY <1>3, <1>4, <1>5 DEF RunInv

\* MoveTarget: the version promoted is the one on the branch, on the base it was judged on,
\* and the entry is the run's first of that edit.
LEMMA MoveTargetKeeps ==
  ASSUME TypeOK, NEW r \in Run, RunInv(r), MoveTarget(r)
  PROVE  RunInv(r)'
<1> DEFINE e == [by |-> r, edit |-> branch[r].edit]
<1>1. /\ pc[r] = "promote" /\ pc'[r] = "confirm" /\ HoldsChange(r, mem[r])
      /\ Len(target) = mem[r].base /\ target' = Append(target, e)
      /\ UNCHANGED <<rec, mem, branch, standing, edits, item, promoter, checked, approved>>
  BY DEF MoveTarget, Promotable, Goes, judged, TypeOK
<1>2. /\ mem[r] \in Record /\ rec[r] \in Record /\ branch[r] \in Version /\ edits[r] \in Nat
      /\ target \in Seq(Entry) /\ e \in Entry
  BY Typed DEF TypeOK, Entry, Version
<1>3. /\ mem[r] = rec[r] /\ mem[r].phase = "integrating" /\ mem[r].verdict = "approve"
      /\ ~mem[r].landed
  BY <1>1 DEF RunInv, SyncInv, Synced, PhaseInv, VerdictInv, Promoting, Early
<1>4. /\ branch[r] = VersionOf(mem[r]) /\ branch[r].base = Len(target)
      /\ branch[r].edit = mem[r].edit /\ branch[r].edit # 0
  BY <1>1 DEF HoldsChange, OwnsHead, VersionOf
<1>5. /\ DOMAIN target' = DOMAIN target \cup {Len(target) + 1}
      /\ \A p \in DOMAIN target : target'[p] = target[p] /\ p \in 1..Len(target)
      /\ target'[Len(target) + 1] = e
      /\ Len(target') = Len(target) + 1 /\ Len(target) \in Nat
  BY <1>1, <1>2, AppendEntry
<1>6. InTarget(r, branch[r])' /\ InTarget(r, VersionOf(mem[r]))'
  BY <1>1, <1>2, <1>4, <1>5 DEF InTarget, VersionOf
<1>7. SyncInv(r)' /\ PhaseInv(r)' /\ VerdictInv(r)' /\ StopInv(r)'
  BY <1>1, <1>3 DEF RunInv, SyncInv, Synced, PhaseInv, Promoting, VerdictInv, VerdictOf,
       Early, StopInv,
     VersionOf
<1>8. HeadInv(r)'
  BY <1>1, <1>2, <1>4, <1>5 DEF RunInv, HeadInv, OwnsHead, HoldsChange
<1>9. LandedInv(r)'
  <2>1. \A p \in DOMAIN target : target[p] # e
    BY <1>2, <1>4, <1>5 DEF RunInv, LandedInv
  <2>2. ASSUME NEW p \in DOMAIN target', target'[p].by = r
        PROVE  /\ target'[p].edit > 0 /\ target'[p].edit <= edits[r]
               /\ target'[p].edit = branch[r].edit => p = branch[r].base + 1
               /\ \A q \in DOMAIN target' : target'[q] = target'[p] => q = p
    <3>1. CASE p \in DOMAIN target
      BY <1>5, <2>1, <2>2, <3>1 DEF RunInv, LandedInv
    <3>2. CASE p = Len(target) + 1
      <4>1. branch[r].edit \in Nat /\ branch[r].edit <= edits[r] /\ e.edit = branch[r].edit
        BY <1>2 DEF RunInv, HeadInv, Version
      <4> QED BY <1>2, <1>4, <1>5, <2>1, <3>2, <4>1
    <3> QED BY <1>5, <3>1, <3>2
  <2> QED BY <1>1, <1>3, <1>4, <1>6, <2>2 DEF RunInv, VerdictInv, LandedInv, Late
<1>10. ItemInv(r)'
  BY <1>1 DEF RunInv, ItemInv, Early
<1>11. GateInv(r)' /\ ExactInv(r)'
  <2>1. EditPassed(r, branch[r].edit) /\ (~Publishing => branch[r] \in Passed(r))
    BY <1>1, <1>3, <1>4 DEF RunInv, GateInv, ExactInv
  <2>2. Passed(r)' = Passed(r)
    BY <1>1 DEF Passed
  <2>3. [base |-> Len(target) + 1 - 1, edit |-> e.edit] = branch[r]
    BY <1>2, <1>4, <1>5 DEF Version
  <2>4. \A p \in DOMAIN target' : target'[p].by = r =>
          /\ EditPassed(r, target'[p].edit)
          /\ ~Publishing => [base |-> p - 1, edit |-> target'[p].edit] \in Passed(r)
    BY <1>5, <2>1, <2>3 DEF RunInv, GateInv, ExactInv
  <2> QED BY <1>1, <1>3, <2>2, <2>4 DEF RunInv, GateInv, EditPassed, ExactInv, VersionOf,
       AwaitsIntegration
<1>12. TurnInv(r)'
  BY <1>1, <1>5 DEF RunInv, TurnInv
<1> QED BY <1>7, <1>8, <1>9, <1>10, <1>11, <1>12 DEF RunInv

\* ConfirmMove: what is noted as landed is on the target; otherwise the run goes on to
\* replay, and its record still has the approval the target's entry needs.
LEMMA ConfirmMoveKeeps ==
  ASSUME TypeOK, NEW r \in Run, RunInv(r), ConfirmMove(r)
  PROVE  RunInv(r)'
<1>1. /\ pc[r] = "confirm" /\ rec' = rec
      /\ UNCHANGED <<branch, standing, edits, target, item, checked, approved>>
      /\ \/ /\ pc'[r] = "publish" /\ promoter' = promoter
            /\ mem'[r] = [mem[r] EXCEPT !.landed = TRUE, !.replay = FALSE]
         \/ pc'[r] = "retry" /\ mem'[r] = mem[r]
  BY DEF ConfirmMove, Note, Goes, GivesUpTurn, git, judged, TypeOK
<1>2. mem[r] \in Record /\ rec[r] \in Record /\ branch[r] \in Version
  BY Typed
<1>3. /\ mem[r] = rec[r] /\ mem[r].phase = "integrating" /\ mem[r].verdict = "approve"
      /\ ~mem[r].landed /\ InTarget(r, VersionOf(mem[r]))
  BY <1>1 DEF RunInv, SyncInv, Synced, PhaseInv, VerdictInv, Promoting, Early, LandedInv
<1>4. /\ mem'[r].status = mem[r].status /\ mem'[r].phase = mem[r].phase
      /\ mem'[r].repairs = mem[r].repairs /\ mem'[r].verdict = mem[r].verdict
      /\ mem'[r].failing = mem[r].failing /\ mem'[r].stop = mem[r].stop
      /\ mem'[r].edit = mem[r].edit /\ VersionOf(mem'[r]) = VersionOf(mem[r])
      /\ pc'[r] = "publish" <=> mem'[r].landed
      /\ pc'[r] = "retry" => mem'[r] = mem[r]
  BY <1>1, <1>2, <1>3 DEF Record, VersionOf
<1>5. /\ InTarget(r, branch[r])' <=> InTarget(r, branch[r])
      /\ InTarget(r, VersionOf(mem[r]))' <=> InTarget(r, VersionOf(mem[r]))
      /\ InTarget(r, VersionOf(rec[r]))' <=> InTarget(r, VersionOf(mem[r]))
  BY <1>1, <1>3, <1>4 DEF InTarget
<1>6. SyncInv(r)' /\ PhaseInv(r)' /\ VerdictInv(r)' /\ StopInv(r)'
  BY <1>1, <1>3, <1>4 DEF RunInv, SyncInv, Synced, PhaseInv, Promoting, VerdictInv,
       VerdictOf, Early, Late,
     StopInv
<1>7. HeadInv(r)' /\ TurnInv(r)'
  BY <1>1 DEF RunInv, HeadInv, TurnInv
<1>8. LandedInv(r)'
  BY <1>1, <1>3, <1>4, <1>5 DEF RunInv, LandedInv, VerdictInv
<1>9. ItemInv(r)'
  BY <1>1 DEF RunInv, ItemInv, Early
<1>10. GateInv(r)' /\ ExactInv(r)'
  BY <1>1, <1>3, <1>4 DEF RunInv, GateInv, EditPassed, Passed, ExactInv
<1> QED BY <1>6, <1>7, <1>8, <1>9, <1>10 DEF RunInv

\* PublishDiverges: the landed change is blocked with its item still open.
LEMMA PublishDivergesKeeps ==
  ASSUME TypeOK, NEW r \in Run, RunInv(r), PublishDiverges(r)
  PROVE  RunInv(r)'
<1>1. /\ pc[r] = "publish" /\ pc'[r] = "block" /\ Publishing /\ rec' = rec /\ mem' = mem
      /\ UNCHANGED <<branch, standing, edits, target, item, promoter, checked, approved>>
  BY DEF PublishDiverges, Save, Note, Goes, SetItem, GivesUpTurn, git, judged, TypeOK
<1>2. mem[r] \in Record /\ rec[r] \in Record /\ branch[r] \in Version
  BY Typed
<1>3. SyncInv(r)' /\ PhaseInv(r)' /\ VerdictInv(r)' /\ StopInv(r)'
  BY <1>1, <1>2 DEF RunInv, SyncInv, Synced, PhaseInv, VerdictInv, VerdictOf, Early,
       StopInv
<1>4. HeadInv(r)' /\ LandedInv(r)' /\ ItemInv(r)'
  BY <1>1, <1>2 DEF RunInv, HeadInv, LandedInv, InTarget, ItemInv
<1>5. GateInv(r)' /\ ExactInv(r)' /\ TurnInv(r)'
  BY <1>1, <1>2 DEF RunInv, GateInv, Passed, EditPassed, ExactInv, TurnInv
<1> QED BY <1>3, <1>4, <1>5 DEF RunInv

\* RecordIntegration: the landing reaches the disk with its phase.
LEMMA RecordIntegrationKeeps ==
  ASSUME TypeOK, NEW r \in Run, RunInv(r), RecordIntegration(r)
  PROVE  RunInv(r)'
<1>1. /\ pc[r] = "publish" /\ pc'[r] = "complete"
      /\ rec'[r] = [mem[r] EXCEPT !.phase = "completing"] /\ mem'[r] = rec'[r]
      /\ promoter' = IF promoter = r THEN Nobody ELSE promoter
      /\ UNCHANGED <<branch, standing, edits, target, item, checked, approved>>
  BY DEF RecordIntegration, Save, Note, Goes, SetItem, GivesUpTurn, git, judged, TypeOK
<1>2. mem[r] \in Record /\ rec[r] \in Record /\ branch[r] \in Version
  BY Typed
<1>3. SyncInv(r)' /\ PhaseInv(r)' /\ VerdictInv(r)' /\ StopInv(r)'
  BY <1>1, <1>2 DEF RunInv, SyncInv, PhaseInv, Promoting, VerdictInv, VerdictOf, Early,
       Late, StopInv
<1>4. HeadInv(r)' /\ LandedInv(r)' /\ ItemInv(r)'
  BY <1>1, <1>2 DEF RunInv, SyncInv, VersionOf, HeadInv, VerdictInv, Late, LandedInv,
       InTarget, ItemInv
<1>5. GateInv(r)' /\ ExactInv(r)' /\ TurnInv(r)'
  BY <1>1, <1>2 DEF RunInv, GateInv, Passed, EditPassed, ExactInv, AwaitsIntegration,
       TurnInv
<1> QED BY <1>3, <1>4, <1>5 DEF RunInv

\* SaveRetry: only the replay mark changes.
LEMMA SaveRetryKeeps ==
  ASSUME TypeOK, NEW r \in Run, RunInv(r), SaveRetry(r)
  PROVE  RunInv(r)'
<1>1. /\ pc[r] = "retry" /\ pc'[r] = "rebase" /\ rec'[r] = [mem[r] EXCEPT !.replay = TRUE]
      /\ mem'[r] = rec'[r]
      /\ UNCHANGED <<branch, standing, edits, target, item, promoter, checked, approved>>
  BY DEF SaveRetry, Save, Note, Goes, SetItem, GivesUpTurn, git, judged, TypeOK
<1>2. mem[r] \in Record /\ rec[r] \in Record /\ branch[r] \in Version
  BY Typed
<1>3. SyncInv(r)' /\ PhaseInv(r)' /\ VerdictInv(r)' /\ StopInv(r)'
  BY <1>1, <1>2 DEF RunInv, SyncInv, Synced, PhaseInv, Promoting, VerdictInv, VerdictOf,
       Early, Late, StopInv, Record, Version, Phases
<1>4. HeadInv(r)' /\ ItemInv(r)'
  BY <1>1, <1>2 DEF RunInv, HeadInv, ItemInv, Early, InTarget, InterruptedLanding,
       BranchIntegrated, SupportsLanding, Contained, SyncInv, Synced, Record, Version,
       Phases
<1>5. LandedInv(r)'
  <2>1. /\ VersionOf(mem[r])' = VersionOf(mem[r]) /\ VersionOf(rec[r])' = VersionOf(mem[r])
    BY <1>1, <1>2 DEF VersionOf, Record
  <2>2. /\ InTarget(r, branch[r])' <=> InTarget(r, branch[r])
        /\ InTarget(r, VersionOf(mem[r]))' <=> InTarget(r, VersionOf(mem[r]))
        /\ InTarget(r, VersionOf(rec[r]))' <=> InTarget(r, VersionOf(mem[r]))
    BY <1>1, <2>1 DEF InTarget
  <2> QED BY <1>1, <1>2, <2>1, <2>2 DEF RunInv, SyncInv, Synced, PhaseInv, VerdictInv,
         VerdictOf, Early, Promoting, LandedInv, Late, Record
<1>6. GateInv(r)' /\ ExactInv(r)' /\ TurnInv(r)'
  BY <1>1, <1>2 DEF RunInv, VersionOf, GateInv, Passed, EditPassed, ExactInv, TurnInv
<1> QED BY <1>3, <1>4, <1>5, <1>6 DEF RunInv

\* Rebase: git drops what the target already holds, so the replayed branch promises nothing
\* that landed.
LEMMA RebaseKeeps ==
  ASSUME TypeOK, NEW r \in Run, RunInv(r), Rebase(r)
  PROVE  RunInv(r)'
<1>1. /\ pc[r] = "rebase" /\ pc'[r] = "record" /\ HoldsChange(r, mem[r])
      /\ branch'[r] = IF Len(target) = mem[r].base THEN branch[r]
                      ELSE [base |-> Len(target),
                            edit |-> IF AlreadyInTarget(r) THEN 0 ELSE branch[r].edit]
      /\ UNCHANGED <<rec, mem, standing, edits, target, item, promoter, checked, approved>>
  BY DEF Rebase, Replayable, Goes, judged, TypeOK
<1>2. mem[r] \in Record /\ branch[r] \in Version /\ edits[r] \in Nat /\ Len(target) \in Nat
  BY Typed
<1>3. /\ mem[r] = rec[r] /\ mem[r].phase = "integrating" /\ mem[r].verdict = "approve"
      /\ ~mem[r].landed
  BY <1>1 DEF RunInv, SyncInv, Synced, PhaseInv, VerdictInv, Promoting, Early
<1>4. /\ branch[r] = VersionOf(mem[r]) /\ branch[r].base = mem[r].base
      /\ branch[r].edit = mem[r].edit /\ branch[r].edit # 0
  BY <1>1 DEF HoldsChange, OwnsHead, VersionOf
<1>5. branch'[r].base = Len(target) /\ branch'[r].edit \in {0, branch[r].edit}
  BY <1>1, <1>4
<1>6. ~InTarget(r, branch[r])'
  BY <1>1, <1>2, <1>5 DEF InTarget
<1>7. AlreadyInTarget(r) => InTarget(r, VersionOf(mem[r]))
  <2>1. SUFFICES ASSUME NEW p \in DOMAIN target, target[p] = [by |-> r, edit |-> branch[r].edit]
                 PROVE  InTarget(r, branch[r])
    BY <1>4 DEF AlreadyInTarget
  <2>2. p = branch[r].base + 1 /\ p \in 1..Len(target)
    BY <2>1, OnTarget DEF RunInv, LandedInv
  <2> QED BY <1>2, <1>4, <2>1, <2>2 DEF InTarget, Version
<1>8. SyncInv(r)' /\ PhaseInv(r)' /\ VerdictInv(r)' /\ StopInv(r)' /\ TurnInv(r)'
  BY <1>1, <1>3 DEF RunInv, SyncInv, Synced, PhaseInv, Promoting, VerdictInv, VerdictOf,
       Early, StopInv,
     TurnInv, VersionOf
<1>9. HeadInv(r)'
  BY <1>1, <1>2, <1>5 DEF RunInv, HeadInv, Version
<1>10. LandedInv(r)'
  <2>1. \A p \in DOMAIN target : target[p].by = r =>
          (target[p].edit = branch'[r].edit => p = branch'[r].base + 1)
    <3>1. CASE Len(target) = mem[r].base
      BY <1>1, <3>1 DEF RunInv, LandedInv
    <3>2. CASE Len(target) # mem[r].base /\ AlreadyInTarget(r)
      <4>1. branch'[r].edit = 0
        BY <1>1, <3>2
      <4>2. \A p \in DOMAIN target : target[p].by = r => target[p].edit > 0
        BY DEF RunInv, LandedInv
      <4> QED BY <4>1, <4>2
    <3>3. CASE Len(target) # mem[r].base /\ ~AlreadyInTarget(r)
      <4>1. \A p \in DOMAIN target : target[p] = [by |-> target[p].by, edit |-> target[p].edit]
        BY OnTarget
      <4>2. branch'[r].edit = branch[r].edit
        BY <1>1, <3>3
      <4> QED BY <3>3, <4>1, <4>2 DEF AlreadyInTarget
    <3> QED BY <3>1, <3>2, <3>3
  <2>2. branch'[r].edit = 0 => InTarget(r, VersionOf(mem[r]))
    BY <1>1, <1>4, <1>7
  <2>3. InTarget(r, VersionOf(rec[r]))' <=> InTarget(r, VersionOf(mem[r]))
    BY <1>1, <1>3 DEF InTarget, VersionOf
  <2> QED BY <1>1, <1>3, <1>6, <2>1, <2>2, <2>3 DEF RunInv, LandedInv
<1>11. ItemInv(r)'
  BY <1>1 DEF RunInv, ItemInv, Early
<1>12. GateInv(r)' /\ ExactInv(r)'
  BY <1>1, <1>3, <1>4, <1>5 DEF RunInv, GateInv, EditPassed, Passed, ExactInv,
       AwaitsIntegration, VersionOf
<1> QED BY <1>8, <1>9, <1>10, <1>11, <1>12 DEF RunInv

\* RebaseConflicts: a replay that conflicts is charged and blocked.
LEMMA RebaseConflictsKeeps ==
  ASSUME TypeOK, NEW r \in Run, RunInv(r), RebaseConflicts(r)
  PROVE  RunInv(r)'
<1>1. /\ pc[r] = "rebase" /\ pc'[r] = "block"
      /\ mem'[r] = [mem[r] EXCEPT !.replay = FALSE, !.charged = @ + 1] /\ rec' = rec
      /\ UNCHANGED <<branch, standing, edits, target, item, promoter, checked, approved>>
  BY DEF RebaseConflicts, Replayable, Save, Note, Goes, SetItem, GivesUpTurn, git,
       judged, TypeOK
<1>2. mem[r] \in Record /\ rec[r] \in Record /\ branch[r] \in Version
  BY Typed
<1>3. SyncInv(r)' /\ PhaseInv(r)' /\ VerdictInv(r)' /\ StopInv(r)'
  BY <1>1, <1>2 DEF RunInv, SyncInv, VersionOf, Synced, PhaseInv, Promoting, VerdictInv,
       VerdictOf, Early, StopInv
<1>4. HeadInv(r)' /\ LandedInv(r)' /\ ItemInv(r)'
  BY <1>1, <1>2 DEF RunInv, VersionOf, HeadInv, Early, LandedInv, InTarget, ItemInv
<1>5. GateInv(r)' /\ ExactInv(r)' /\ TurnInv(r)'
  BY <1>1, <1>2 DEF RunInv, GateInv, Passed, EditPassed, ExactInv, TurnInv
<1> QED BY <1>3, <1>4, <1>5 DEF RunInv

\* RecordRebase: the record follows the branch to its new base.
LEMMA RecordRebaseKeeps ==
  ASSUME TypeOK, NEW r \in Run, RunInv(r), RecordRebase(r)
  PROVE  RunInv(r)'
<1>1. /\ pc[r] = "record" /\ pc'[r] = "republish"
      /\ rec'[r] = [mem[r] EXCEPT !.base = branch[r].base, !.edit = branch[r].edit]
      /\ mem'[r] = rec'[r]
      /\ UNCHANGED <<branch, standing, edits, target, item, promoter, checked, approved>>
  BY DEF RecordRebase, Save, Note, Goes, SetItem, GivesUpTurn, git, judged, TypeOK
<1>2. mem[r] \in Record /\ rec[r] \in Record /\ branch[r] \in Version
  BY Typed
<1>3. SyncInv(r)' /\ PhaseInv(r)' /\ VerdictInv(r)' /\ StopInv(r)'
  BY <1>1, <1>2 DEF RunInv, SyncInv, PhaseInv, Promoting, VerdictInv, VerdictOf, Early,
       StopInv
<1>4. HeadInv(r)' /\ LandedInv(r)' /\ ItemInv(r)'
  BY <1>1, <1>2 DEF RunInv, HeadInv, VerdictInv, Early, LandedInv, InTarget, ItemInv
<1>5. GateInv(r)' /\ ExactInv(r)' /\ TurnInv(r)'
  BY <1>1, <1>2 DEF RunInv, GateInv, Passed, EditPassed, StopInv, ExactInv, TurnInv,
       Record, Version, Phases
<1> QED BY <1>3, <1>4, <1>5 DEF RunInv

\* ClearVerdict: no approval stands over a replayed change.
LEMMA ClearVerdictKeeps ==
  ASSUME TypeOK, NEW r \in Run, RunInv(r), ClearVerdict(r)
  PROVE  RunInv(r)'
<1>1. /\ pc[r] = "republish" /\ pc'[r] = "check"
      /\ rec'[r] = [mem[r] EXCEPT !.verdict = "none"] /\ mem'[r] = rec'[r]
      /\ UNCHANGED <<branch, standing, edits, target, item, promoter, checked, approved>>
  BY DEF ClearVerdict, Save, Note, Goes, SetItem, GivesUpTurn, git, judged, TypeOK
<1>2. mem[r] \in Record /\ rec[r] \in Record /\ branch[r] \in Version
  BY Typed
<1>3. SyncInv(r)' /\ PhaseInv(r)' /\ VerdictInv(r)' /\ StopInv(r)'
  BY <1>1, <1>2 DEF RunInv, SyncInv, Synced, PhaseInv, Promoting, VerdictInv, VerdictOf,
       Early, Late, StopInv, Record, Version, Phases
<1>4. HeadInv(r)' /\ ItemInv(r)'
  BY <1>1, <1>2 DEF RunInv, HeadInv, ItemInv, Early, InTarget, InterruptedLanding,
       BranchIntegrated, SupportsLanding, Contained, SyncInv, Synced, Record, Version,
       Phases
<1>5. LandedInv(r)'
  <2>1. /\ VersionOf(mem[r])' = VersionOf(mem[r]) /\ VersionOf(rec[r])' = VersionOf(mem[r])
    BY <1>1, <1>2 DEF VersionOf, Record
  <2>2. /\ InTarget(r, branch[r])' <=> InTarget(r, branch[r])
        /\ InTarget(r, VersionOf(mem[r]))' <=> InTarget(r, VersionOf(mem[r]))
        /\ InTarget(r, VersionOf(rec[r]))' <=> InTarget(r, VersionOf(mem[r]))
    BY <1>1, <2>1 DEF InTarget
  <2> QED BY <1>1, <1>2, <2>1, <2>2 DEF RunInv, SyncInv, Synced, PhaseInv, VerdictInv,
         VerdictOf, Early, Promoting, LandedInv, Late, Record
<1>6. GateInv(r)' /\ ExactInv(r)' /\ TurnInv(r)'
  BY <1>1, <1>2 DEF RunInv, GateInv, Passed, EditPassed, ExactInv, AwaitsIntegration,
       TurnInv
<1> QED BY <1>3, <1>4, <1>5, <1>6 DEF RunInv

-----------------------------------------------------------------------------
(* Completing and cleaning up. *)

\* CloseItem: the item is closed over a change that landed.
LEMMA CloseItemKeeps ==
  ASSUME TypeOK, NEW r \in Run, RunInv(r), CloseItem(r)
  PROVE  RunInv(r)'
<1>1. /\ pc[r] = "complete" /\ pc'[r] = "closed" /\ rec' = rec /\ mem' = mem
      /\ item'[r] = IF r \in Evidence THEN "open" ELSE "closed"
      /\ UNCHANGED <<branch, standing, edits, target, promoter, checked, approved>>
  BY DEF CloseItem, SettledStatus, Save, Note, Goes, SetItem, GivesUpTurn, git, judged,
       TypeOK
<1>2. mem[r] \in Record /\ rec[r] \in Record /\ branch[r] \in Version
  BY Typed
<1>3. SyncInv(r)' /\ PhaseInv(r)' /\ VerdictInv(r)' /\ StopInv(r)'
  BY <1>1, <1>2 DEF RunInv, SyncInv, Synced, PhaseInv, Promoting, VerdictInv, Early,
       StopInv
<1>4. HeadInv(r)' /\ LandedInv(r)'
  BY <1>1, <1>2 DEF RunInv, HeadInv, LandedInv, InTarget, Late, Record, Version, Phases
<1>5. ItemInv(r)'
  <2>1. VersionOf(rec[r])' = VersionOf(rec[r])
    BY <1>1, <1>2 DEF VersionOf, Record
  <2>2. InTarget(r, VersionOf(rec[r]))' <=> InTarget(r, VersionOf(rec[r]))
    BY <1>1, <2>1 DEF InTarget
  <2> QED BY <1>1, <1>2, <2>1, <2>2 DEF RunInv, SyncInv, Synced, PhaseInv, VerdictInv,
         VerdictOf, Early, Promoting, LandedInv, Late, ItemInv, Record
<1>6. GateInv(r)' /\ ExactInv(r)' /\ TurnInv(r)'
  BY <1>1, <1>2 DEF RunInv, GateInv, Passed, EditPassed, ExactInv, TurnInv
<1> QED BY <1>3, <1>4, <1>5, <1>6 DEF RunInv

\* SaveSucceeded: the outcome is saved after the item was closed.
LEMMA SaveSucceededKeeps ==
  ASSUME TypeOK, NEW r \in Run, RunInv(r), SaveSucceeded(r)
  PROVE  RunInv(r)'
<1>1. /\ pc[r] = "closed" /\ pc'[r] = "clean"
      /\ rec'[r] = [mem[r] EXCEPT !.status = "succeeded", !.phase = "cleaning_up",
                              !.provStop = FALSE]
      /\ mem'[r] = rec'[r]
      /\ UNCHANGED <<branch, standing, edits, target, item, promoter, checked, approved>>
  BY DEF SaveSucceeded, Save, Note, Goes, SetItem, GivesUpTurn, git, judged, TypeOK
<1>2. mem[r] \in Record /\ rec[r] \in Record /\ branch[r] \in Version
  BY Typed
<1>3. SyncInv(r)' /\ PhaseInv(r)' /\ VerdictInv(r)' /\ StopInv(r)'
  BY <1>1, <1>2 DEF RunInv, SyncInv, PhaseInv, Promoting, VerdictInv, VerdictOf, Early,
       Late, StopInv
<1>4. HeadInv(r)' /\ LandedInv(r)' /\ ItemInv(r)'
  BY <1>1, <1>2 DEF RunInv, SyncInv, VersionOf, HeadInv, VerdictInv, Early, Late,
       LandedInv, InTarget, ItemInv
<1>5. GateInv(r)' /\ ExactInv(r)' /\ TurnInv(r)'
  BY <1>1, <1>2 DEF RunInv, GateInv, Passed, EditPassed, ExactInv, AwaitsIntegration,
       TurnInv
<1> QED BY <1>3, <1>4, <1>5 DEF RunInv

\* CleanUp: only the worktree goes.
LEMMA CleanUpKeeps ==
  ASSUME TypeOK, NEW r \in Run, RunInv(r), CleanUp(r)
  PROVE  RunInv(r)'
<1>1. /\ pc[r] = "clean" /\ pc'[r] = "cleaned" /\ Contained(r) /\ rec' = rec /\ mem' = mem
      /\ standing' = standing \ {r}
      /\ UNCHANGED <<branch, edits, target, item, promoter, checked, approved>>
  BY DEF CleanUp, Save, Note, Goes, SetItem, GivesUpTurn, git, judged, TypeOK
<1>2. mem[r] \in Record /\ rec[r] \in Record /\ branch[r] \in Version
  BY Typed
<1>3. SyncInv(r)' /\ PhaseInv(r)' /\ VerdictInv(r)' /\ StopInv(r)'
  BY <1>1, <1>2 DEF RunInv, SyncInv, Synced, PhaseInv, Promoting, VerdictInv, Early,
       StopInv
<1>4. HeadInv(r)' /\ LandedInv(r)' /\ ItemInv(r)'
  BY <1>1, <1>2 DEF RunInv, HeadInv, Early, LandedInv, InTarget, ItemInv
<1>5. GateInv(r)' /\ ExactInv(r)' /\ TurnInv(r)'
  BY <1>1, <1>2 DEF RunInv, GateInv, Passed, EditPassed, ExactInv, TurnInv
<1> QED BY <1>3, <1>4, <1>5 DEF RunInv

\* CleanUpFails: the run ends with its landing recorded.
LEMMA CleanUpFailsKeeps ==
  ASSUME TypeOK, NEW r \in Run, RunInv(r), CleanUpFails(r)
  PROVE  RunInv(r)'
<1>1. /\ pc[r] = "clean" /\ pc'[r] = "idle" /\ rec' = rec /\ mem' = mem
      /\ UNCHANGED <<branch, standing, edits, target, item, promoter, checked, approved>>
  BY DEF CleanUpFails, Save, Note, Goes, SetItem, GivesUpTurn, git, judged, TypeOK
<1>2. mem[r] \in Record /\ rec[r] \in Record /\ branch[r] \in Version
  BY Typed
<1>3. SyncInv(r)' /\ PhaseInv(r)' /\ VerdictInv(r)' /\ StopInv(r)'
  BY <1>1, <1>2 DEF RunInv, SyncInv, Synced, PhaseInv, Promoting, VerdictInv, Early,
       StopInv
<1>4. HeadInv(r)' /\ LandedInv(r)' /\ ItemInv(r)'
  BY <1>1, <1>2 DEF RunInv, HeadInv, Early, LandedInv, InTarget, ItemInv
<1>5. GateInv(r)' /\ ExactInv(r)' /\ TurnInv(r)'
  BY <1>1, <1>2 DEF RunInv, GateInv, Passed, EditPassed, ExactInv, TurnInv
<1> QED BY <1>3, <1>4, <1>5 DEF RunInv

\* SaveComplete: the last phase is one that may speak of a landing.
LEMMA SaveCompleteKeeps ==
  ASSUME TypeOK, NEW r \in Run, RunInv(r), SaveComplete(r)
  PROVE  RunInv(r)'
<1>1. /\ pc[r] = "cleaned" /\ pc'[r] = "idle"
      /\ rec'[r] = [mem[r] EXCEPT !.phase = "complete"] /\ mem'[r] = rec'[r]
      /\ UNCHANGED <<branch, standing, edits, target, item, promoter, checked, approved>>
  BY DEF SaveComplete, Save, Note, Goes, SetItem, GivesUpTurn, git, judged, TypeOK
<1>2. mem[r] \in Record /\ rec[r] \in Record /\ branch[r] \in Version
  BY Typed
<1>3. SyncInv(r)' /\ PhaseInv(r)' /\ VerdictInv(r)' /\ StopInv(r)'
  BY <1>1, <1>2 DEF RunInv, SyncInv, Synced, PhaseInv, Promoting, VerdictInv, VerdictOf,
       Early, Late, StopInv, Record, Version, Phases
<1>4. HeadInv(r)' /\ LandedInv(r)' /\ ItemInv(r)'
  BY <1>1, <1>2 DEF RunInv, SyncInv, VersionOf, HeadInv, VerdictInv, Early, Late,
       LandedInv, InTarget, ItemInv
<1>5. GateInv(r)' /\ ExactInv(r)' /\ TurnInv(r)'
  BY <1>1, <1>2 DEF RunInv, GateInv, Passed, EditPassed, ExactInv, AwaitsIntegration,
       TurnInv
<1> QED BY <1>3, <1>4, <1>5 DEF RunInv

-----------------------------------------------------------------------------
(* Picking a run up again, and the reconciler. *)

\* Resume: a run picked up again develops or checks a branch that is where the record says
\* and is not on the target, or is blocked.
LEMMA ResumeKeeps ==
  ASSUME TypeOK, NEW r \in Run, RunInv(r), Resume(r)
  PROVE  RunInv(r)'
<1>1. /\ pc[r] \in {"idle", "handoff"} /\ pc'[r] \in {"block", "develop", "check"}
      /\ item[r] = "in_progress"
      /\ StoppedProvider(rec[r]) \/ ResumableRepair(rec[r])
      /\ pc'[r] = "develop" =>
           rec[r].phase = "developing" /\ (HandedBack(rec[r]) => HoldsChange(r, rec[r]))
      /\ pc'[r] = "check" => HoldsChange(r, rec[r])
      /\ rec' = rec /\ mem' = mem
      /\ UNCHANGED <<branch, standing, edits, target, item, promoter, checked, approved>>
  BY DEF Resume, Adoptable, StoppedProvider, ResumableRepair, ResumesAChange, Save,
       Note, Goes, SetItem, GivesUpTurn, git, judged, TypeOK
<1>2. mem[r] \in Record /\ rec[r] \in Record /\ branch[r] \in Version
  BY Typed
<1>3. SyncInv(r)' /\ PhaseInv(r)' /\ VerdictInv(r)' /\ StopInv(r)'
  BY <1>1, <1>2 DEF RunInv, SyncInv, Synced, PhaseInv, Promoting, VerdictInv, VerdictOf,
       Late, StopInv, StoppedProvider, ResumableRepair
<1>4. HeadInv(r)'
  BY <1>1, <1>2 DEF RunInv, SyncInv, Synced, HeadInv, OwnsHead, VersionOf, Record
<1>5. LandedInv(r)'
  <2>1. /\ VersionOf(mem[r])' = VersionOf(mem[r]) /\ VersionOf(rec[r])' = VersionOf(rec[r])
    BY <1>1, <1>2 DEF VersionOf, Record
  <2>2. /\ InTarget(r, branch[r])' <=> InTarget(r, branch[r])
        /\ InTarget(r, VersionOf(mem[r]))' <=> InTarget(r, VersionOf(mem[r]))
        /\ InTarget(r, VersionOf(rec[r]))' <=> InTarget(r, VersionOf(rec[r]))
    BY <1>1, <2>1 DEF InTarget
  <2> QED BY <1>1, <1>2, <2>1, <2>2 DEF RunInv, SyncInv, Synced, PhaseInv, VerdictInv,
         VerdictOf, Early, Promoting, LandedInv, Late, Record, HoldsChange, OwnsHead,
         StoppedProvider, ResumableRepair, VersionOf
<1>6. ItemInv(r)'
  <2>1. VersionOf(rec[r])' = VersionOf(rec[r])
    BY <1>1, <1>2 DEF VersionOf, Record
  <2>2. InTarget(r, VersionOf(rec[r]))' <=> InTarget(r, VersionOf(rec[r]))
    BY <1>1, <2>1 DEF InTarget
  <2> QED BY <1>1, <1>2, <2>1, <2>2 DEF RunInv, SyncInv, Synced, PhaseInv, VerdictInv,
         VerdictOf, Early, Promoting, LandedInv, Late, ItemInv, Record
<1>7. GateInv(r)' /\ ExactInv(r)' /\ TurnInv(r)'
  BY <1>1, <1>2 DEF RunInv, GateInv, Passed, EditPassed, ExactInv, AwaitsIntegration,
       TurnInv, Record, Version, Phases
<1> QED BY <1>3, <1>4, <1>5, <1>6, <1>7 DEF RunInv

\* ContinueIntegration: the promotion goes on with the version that passed.
LEMMA ContinueIntegrationKeeps ==
  ASSUME TypeOK, NEW r \in Run, RunInv(r), ContinueIntegration(r)
  PROVE  RunInv(r)'
<1>1. /\ pc[r] = "handoff" /\ pc'[r] \in {"integrate", "block"} /\ item[r] = "in_progress"
      /\ ResumableIntegration(rec[r])
      /\ pc'[r] = "integrate" => HoldsChange(r, rec[r])
      /\ rec' = rec /\ mem' = mem
      /\ UNCHANGED <<branch, standing, edits, target, item, promoter, checked, approved>>
  BY DEF ContinueIntegration, Save, Note, Goes, SetItem, GivesUpTurn, git, judged,
       TypeOK
<1>2. mem[r] \in Record /\ rec[r] \in Record /\ branch[r] \in Version
  BY Typed
<1>3. SyncInv(r)' /\ PhaseInv(r)' /\ VerdictInv(r)' /\ StopInv(r)'
  BY <1>1, <1>2 DEF RunInv, SyncInv, Synced, PhaseInv, VerdictInv, StopInv,
       ResumableIntegration, AwaitsIntegration
<1>4. HeadInv(r)' /\ ItemInv(r)'
  BY <1>1, <1>2 DEF RunInv, HeadInv, SyncInv, Synced, ResumableIntegration,
       AwaitsIntegration, HoldsChange, OwnsHead, ItemInv, Early, InTarget,
       InterruptedLanding, BranchIntegrated, SupportsLanding, Contained, Record,
       Version, Phases
<1>5. LandedInv(r)'
  <2>1. /\ VersionOf(mem[r])' = VersionOf(mem[r]) /\ VersionOf(rec[r])' = VersionOf(rec[r])
    BY <1>1, <1>2 DEF VersionOf, Record
  <2>2. /\ InTarget(r, branch[r])' <=> InTarget(r, branch[r])
        /\ InTarget(r, VersionOf(mem[r]))' <=> InTarget(r, VersionOf(mem[r]))
        /\ InTarget(r, VersionOf(rec[r]))' <=> InTarget(r, VersionOf(rec[r]))
    BY <1>1, <2>1 DEF InTarget
  <2> QED BY <1>1, <1>2, <2>1, <2>2 DEF RunInv, SyncInv, Synced, PhaseInv, VerdictInv,
         VerdictOf, Early, Promoting, LandedInv, Late, Record
<1>6. GateInv(r)' /\ ExactInv(r)' /\ TurnInv(r)'
  BY <1>1, <1>2 DEF RunInv, GateInv, Passed, EditPassed, ExactInv, AwaitsIntegration,
       SyncInv, Synced, ResumableIntegration, HoldsChange, OwnsHead, TurnInv, Record,
       Version, Phases
<1> QED BY <1>3, <1>4, <1>5, <1>6 DEF RunInv

\* HandoffFails: the record stays as the triage action saved it.
LEMMA HandoffFailsKeeps ==
  ASSUME TypeOK, NEW r \in Run, RunInv(r), HandoffFails(r)
  PROVE  RunInv(r)'
<1>1. /\ pc[r] = "handoff" /\ pc'[r] = "idle" /\ rec' = rec /\ mem' = mem
      /\ UNCHANGED <<branch, standing, edits, target, item, promoter, checked, approved>>
  BY DEF HandoffFails, Save, Note, Goes, SetItem, GivesUpTurn, git, judged, TypeOK
<1>2. mem[r] \in Record /\ rec[r] \in Record /\ branch[r] \in Version
  BY Typed
<1>3. SyncInv(r)' /\ PhaseInv(r)' /\ VerdictInv(r)' /\ StopInv(r)'
  BY <1>1, <1>2 DEF RunInv, SyncInv, Synced, PhaseInv, Promoting, VerdictInv, Early,
       StopInv
<1>4. HeadInv(r)' /\ LandedInv(r)' /\ ItemInv(r)'
  BY <1>1, <1>2 DEF RunInv, HeadInv, Early, LandedInv, InTarget, ItemInv
<1>5. GateInv(r)' /\ ExactInv(r)' /\ TurnInv(r)'
  BY <1>1, <1>2 DEF RunInv, GateInv, Passed, EditPassed, ExactInv, TurnInv
<1> QED BY <1>3, <1>4, <1>5 DEF RunInv

\* GrantRepair: the item was not closed, and the record has no approval.
LEMMA GrantRepairKeeps ==
  ASSUME TypeOK, NEW r \in Run, RunInv(r), GrantRepair(r)
  PROVE  RunInv(r)'
<1>1. /\ pc[r] = "idle" /\ pc'[r] = "grant" /\ rec[r].status = "failed"
      /\ HandedBack(rec[r]) /\ ~rec[r].stop /\ HoldsChange(r, rec[r])
      /\ rec' = rec /\ mem' = mem /\ item'[r] = "in_progress"
      /\ UNCHANGED <<branch, standing, edits, target, promoter, checked, approved>>
  BY DEF GrantRepair, Continuable, Save, Note, Goes, SetItem, GivesUpTurn, git, judged,
       TypeOK
<1>2. mem[r] \in Record /\ rec[r] \in Record /\ branch[r] \in Version
  BY Typed
<1>3. SyncInv(r)' /\ PhaseInv(r)' /\ VerdictInv(r)' /\ StopInv(r)'
  BY <1>1, <1>2 DEF RunInv, SyncInv, Synced, PhaseInv, Promoting, VerdictInv, VerdictOf,
       Early, Late, HandedBack, HoldsChange, OwnsHead, StopInv, Record, Version, Phases
<1>4. HeadInv(r)' /\ LandedInv(r)' /\ ItemInv(r)'
  BY <1>1, <1>2 DEF RunInv, HeadInv, LandedInv, InTarget, Late, ItemInv, Early,
       InterruptedLanding, BranchIntegrated, SupportsLanding, Contained, Record,
       Version, Phases
<1>5. GateInv(r)' /\ ExactInv(r)' /\ TurnInv(r)'
  BY <1>1, <1>2 DEF RunInv, SyncInv, GateInv, Passed, EditPassed, ExactInv, TurnInv
<1> QED BY <1>3, <1>4, <1>5 DEF RunInv

\* SaveGrant: the granted attempt is saved as one to develop.
LEMMA SaveGrantKeeps ==
  ASSUME TypeOK, NEW r \in Run, RunInv(r), SaveGrant(r)
  PROVE  RunInv(r)'
<1>1. /\ pc[r] = "grant" /\ pc'[r] = "handoff"
      /\ rec'[r] = [mem[r] EXCEPT !.status = "running", !.phase = "developing",
                              !.repairs = @ + 1, !.granted = @ + 1]
      /\ mem'[r] = rec'[r]
      /\ UNCHANGED <<branch, standing, edits, target, item, promoter, checked, approved>>
  BY DEF SaveGrant, Save, Note, Goes, SetItem, GivesUpTurn, git, judged, TypeOK
<1>2. mem[r] \in Record /\ rec[r] \in Record /\ branch[r] \in Version
  BY Typed
<1>3. SyncInv(r)' /\ PhaseInv(r)' /\ VerdictInv(r)' /\ StopInv(r)'
  BY <1>1, <1>2 DEF RunInv, SyncInv, Synced, PhaseInv, Promoting, VerdictInv, VerdictOf,
       Early, Late, StopInv, Record, Version, Phases
<1>4. HeadInv(r)' /\ LandedInv(r)' /\ ItemInv(r)'
  BY <1>1, <1>2 DEF RunInv, SyncInv, VersionOf, Absent, HeadInv, OwnsHead, Promoting,
       VerdictInv, VerdictOf, Early, Late, LandedInv, InTarget, ItemInv, SupportsLanding
<1>5. GateInv(r)' /\ ExactInv(r)' /\ TurnInv(r)'
  BY <1>1, <1>2 DEF RunInv, GateInv, Passed, EditPassed, ExactInv, AwaitsIntegration,
       TurnInv
<1> QED BY <1>3, <1>4, <1>5 DEF RunInv

\* ResumeIntegration: the branch still is the approved change.
LEMMA ResumeIntegrationKeeps ==
  ASSUME TypeOK, NEW r \in Run, RunInv(r), ResumeIntegration(r)
  PROVE  RunInv(r)'
<1>1. /\ pc[r] = "idle" /\ pc'[r] = "reopen" /\ rec[r].status = "failed" /\ rec[r].stop
      /\ AwaitsIntegration(rec[r]) /\ HoldsChange(r, rec[r]) /\ rec' = rec /\ mem' = mem
      /\ item'[r] = "in_progress"
      /\ UNCHANGED <<branch, standing, edits, target, promoter, checked, approved>>
  BY DEF ResumeIntegration, Continuable, Save, Note, Goes, SetItem, GivesUpTurn, git,
       judged, TypeOK
<1>2. mem[r] \in Record /\ rec[r] \in Record /\ branch[r] \in Version
  BY Typed
<1>3. SyncInv(r)' /\ PhaseInv(r)' /\ VerdictInv(r)' /\ StopInv(r)'
  BY <1>1, <1>2 DEF RunInv, SyncInv, Synced, PhaseInv, Promoting, VerdictInv, StopInv,
       AwaitsIntegration
<1>4. HeadInv(r)' /\ LandedInv(r)' /\ ItemInv(r)'
  BY <1>1, <1>2 DEF RunInv, HeadInv, SyncInv, Synced, AwaitsIntegration, HoldsChange,
       OwnsHead, LandedInv, InTarget, Late, ItemInv, Early, InterruptedLanding,
       BranchIntegrated, SupportsLanding, Contained, Record, Version, Phases
<1>5. GateInv(r)' /\ ExactInv(r)' /\ TurnInv(r)'
  BY <1>1, <1>2 DEF RunInv, SyncInv, GateInv, Passed, EditPassed, ExactInv, TurnInv
<1> QED BY <1>3, <1>4, <1>5 DEF RunInv

\* SaveResumption: the stop is cleared with the phase it resumes in.
LEMMA SaveResumptionKeeps ==
  ASSUME TypeOK, NEW r \in Run, RunInv(r), SaveResumption(r)
  PROVE  RunInv(r)'
<1>1. /\ pc[r] = "reopen" /\ pc'[r] = "handoff"
      /\ rec'[r] = [mem[r] EXCEPT !.status = "running", !.phase = "integrating",
                              !.stop = FALSE, !.resumed = @ + 1]
      /\ mem'[r] = rec'[r]
      /\ UNCHANGED <<branch, standing, edits, target, item, promoter, checked, approved>>
  BY DEF SaveResumption, Save, Note, Goes, SetItem, GivesUpTurn, git, judged, TypeOK
<1>2. mem[r] \in Record /\ rec[r] \in Record /\ branch[r] \in Version
  BY Typed
<1>3. SyncInv(r)' /\ PhaseInv(r)' /\ VerdictInv(r)' /\ StopInv(r)'
  BY <1>1, <1>2 DEF RunInv, SyncInv, PhaseInv, VerdictInv, VerdictOf, Early, StopInv
<1>4. HeadInv(r)'
  BY <1>1, <1>2 DEF RunInv, HeadInv, Record, Version, Phases
<1>5. LandedInv(r)'
  BY <1>1, <1>2 DEF RunInv, LandedInv, InTarget, Late, SyncInv, Synced, VersionOf,
       HeadInv, OwnsHead, Record, Version, Phases
<1>6. ItemInv(r)'
  BY <1>1, <1>2 DEF RunInv, ItemInv, Early, InTarget, InterruptedLanding,
       BranchIntegrated, SupportsLanding, Contained, SyncInv, Synced, Record, Version,
       Phases
<1>7. GateInv(r)' /\ ExactInv(r)' /\ TurnInv(r)'
  BY <1>1, <1>2 DEF RunInv, SyncInv, VersionOf, GateInv, Passed, EditPassed, ExactInv,
       TurnInv
<1> QED BY <1>3, <1>4, <1>5, <1>6, <1>7 DEF RunInv

\* SettleLanded: the reconciler finishes a run whose record says it landed.
LEMMA SettleLandedKeeps ==
  ASSUME TypeOK, NEW r \in Run, RunInv(r), SettleLanded(r)
  PROVE  RunInv(r)'
<1>1. /\ pc[r] \in {"idle", "handoff"} /\ pc'[r] = "finish" /\ rec[r].landed
      /\ rec' = rec /\ mem' = mem
      /\ UNCHANGED <<branch, standing, edits, target, item, promoter, checked, approved>>
  BY DEF SettleLanded, Reconcilable, Adoptable, Save, Note, Goes, SetItem, GivesUpTurn,
       git, judged, TypeOK
<1>2. mem[r] \in Record /\ rec[r] \in Record /\ branch[r] \in Version
  BY Typed
<1>3. SyncInv(r)' /\ PhaseInv(r)' /\ VerdictInv(r)' /\ StopInv(r)'
  BY <1>1, <1>2 DEF RunInv, SyncInv, Synced, Absent, PhaseInv, Promoting, VerdictInv,
       VerdictOf, Early, StopInv
<1>4. HeadInv(r)' /\ LandedInv(r)' /\ ItemInv(r)'
  BY <1>1, <1>2 DEF RunInv, HeadInv, LandedInv, InTarget, Late, ItemInv, Early,
       InterruptedLanding, BranchIntegrated, SupportsLanding, Contained, SyncInv,
       Synced, Record, Version, Phases
<1>5. GateInv(r)' /\ ExactInv(r)' /\ TurnInv(r)'
  BY <1>1, <1>2 DEF RunInv, GateInv, Passed, EditPassed, ExactInv, TurnInv
<1> QED BY <1>3, <1>4, <1>5 DEF RunInv

\* RecoverLanding: the reconciler takes an interrupted run for landed only if the target
\* holds its version and the record supports it.
LEMMA RecoverLandingKeeps ==
  ASSUME TypeOK, NEW r \in Run, RunInv(r), RecoverLanding(r)
  PROVE  RunInv(r)'
<1>1. /\ pc[r] \in {"idle", "handoff"} /\ pc'[r] = "finish" /\ InterruptedLanding(r)
      /\ SupportsLanding(rec[r]) /\ ~rec[r].landed
      /\ rec[r].status \in {"pending", "running"}
      /\ mem'[r] = [mem[r] EXCEPT !.landed = TRUE] /\ rec' = rec
      /\ UNCHANGED <<branch, standing, edits, target, item, promoter, checked, approved>>
  BY DEF RecoverLanding, Reconcilable, Adoptable, Outstanding, Terminal, Save, Note,
       Goes, SetItem, GivesUpTurn, git, judged, TypeOK
<1>2. mem[r] \in Record /\ rec[r] \in Record /\ branch[r] \in Version
  BY Typed
<1>3. PhaseInv(r)'
  BY <1>1, <1>2 DEF RunInv, PhaseInv, Promoting
<1>4. SyncInv(r)'
  BY <1>1, <1>2 DEF RunInv, SyncInv, Synced, VersionOf, InterruptedLanding, Absent,
       Record
<1>5. VerdictInv(r)'
  BY <1>1, <1>2 DEF RunInv, SyncInv, Synced, VerdictInv, VerdictOf, Early, Late,
       Promoting, InterruptedLanding, SupportsLanding, Record
<1>6. StopInv(r)'
  BY <1>1, <1>2 DEF RunInv, SyncInv, Synced, StopInv, Record
<1>7. HeadInv(r)' /\ ItemInv(r)'
  BY <1>1, <1>2 DEF RunInv, HeadInv, Early, InTarget, ItemInv, InterruptedLanding,
       BranchIntegrated, Contained
<1>8. LandedInv(r)'
  <2>1. /\ VersionOf(mem[r])' = VersionOf(mem[r]) /\ VersionOf(rec[r])' = VersionOf(rec[r])
    BY <1>1, <1>2 DEF VersionOf, Record
  <2>2. /\ InTarget(r, branch[r])' <=> InTarget(r, branch[r])
        /\ InTarget(r, VersionOf(mem[r]))' <=> InTarget(r, VersionOf(mem[r]))
        /\ InTarget(r, VersionOf(rec[r]))' <=> InTarget(r, VersionOf(rec[r]))
    BY <1>1, <2>1 DEF InTarget
  <2>3. mem[r] = rec[r] /\ rec[r].phase = "integrating"
    BY <1>1 DEF RunInv, SyncInv, Synced, InterruptedLanding
  <2>4. (branch[r].edit = 0 /\ branch[r].base # rec[r].base) \/ InTarget(r, branch[r])
    BY <1>1, <1>2 DEF InterruptedLanding, BranchIntegrated, Contained, Version
  <2>5. InTarget(r, VersionOf(mem[r]))
    BY <2>3, <2>4 DEF RunInv, LandedInv
  <2> QED BY <1>1, <1>2, <2>1, <2>2, <2>3, <2>5
       DEF RunInv, SyncInv, Synced, PhaseInv, VerdictInv,
         VerdictOf, Early, Promoting, LandedInv, Late, Record, VersionOf
<1>9. GateInv(r)' /\ ExactInv(r)' /\ TurnInv(r)'
  BY <1>1, <1>2 DEF RunInv, GateInv, Passed, EditPassed, ExactInv, AwaitsIntegration,
       TurnInv, Record, Version, Phases
<1> QED BY <1>3, <1>4, <1>5, <1>6, <1>7, <1>8, <1>9 DEF RunInv

\* Abandon: a run that is given up did not land, and its item is not closed.
LEMMA AbandonKeeps ==
  ASSUME TypeOK, NEW r \in Run, RunInv(r), Abandon(r)
  PROVE  RunInv(r)'
<1>1. /\ pc[r] \in {"idle", "handoff"} /\ pc'[r] = "abandoned" /\ rec' = rec /\ mem' = mem
      /\ item'[r] \in {item[r], "blocked"}
      /\ rec[r].status # "none"
      /\ ~Terminal(rec[r]) \/ rec[r].landed
      /\ UNCHANGED <<branch, standing, edits, target, promoter, checked, approved>>
  BY DEF Abandon, Reconcilable, Adoptable, Outstanding, Terminal, SetItem, Goes, git,
       judged, TypeOK
<1>2. \/ StoppedProvider(rec[r])
      \/ ~rec[r].landed /\ ~(InterruptedLanding(r) /\ SupportsLanding(rec[r]))
  BY DEF Abandon
<1>3. /\ InTarget(r, branch[r])' <=> InTarget(r, branch[r])
      /\ InTarget(r, VersionOf(mem[r]))' <=> InTarget(r, VersionOf(mem[r]))
      /\ InTarget(r, VersionOf(rec[r]))' <=> InTarget(r, VersionOf(rec[r]))
  BY <1>1 DEF InTarget, VersionOf
<1>4. SyncInv(r)' /\ PhaseInv(r)' /\ TurnInv(r)'
  BY <1>1 DEF RunInv, SyncInv, Synced, PhaseInv, Promoting, TurnInv, VersionOf
<1>5. VerdictInv(r)' /\ HeadInv(r)'
  BY <1>1 DEF RunInv, VerdictInv, VerdictOf, Promoting, Early, HeadInv
<1>6. StopInv(r)'
  BY <1>1 DEF RunInv, SyncInv, Synced, StopInv, Terminal
<1>7. LandedInv(r)'
  BY <1>1, <1>3 DEF RunInv, LandedInv, VersionOf
<1>8. item[r] # "closed"
  BY <1>2 DEF RunInv, VerdictInv, VerdictOf, Late, ItemInv, StoppedProvider,
       InterruptedLanding
<1>9. ItemInv(r)'
  BY <1>1, <1>8 DEF ItemInv
<1>10. GateInv(r)'
  BY <1>1 DEF RunInv, GateInv, Passed, EditPassed
<1>11. ExactInv(r)'
  BY <1>1 DEF RunInv, ExactInv, Passed, VersionOf
<1> QED BY <1>4, <1>5, <1>6, <1>7, <1>9, <1>10, <1>11 DEF RunInv

\* SaveAbandoned: the failed record supports no landing.
LEMMA SaveAbandonedKeeps ==
  ASSUME TypeOK, NEW r \in Run, RunInv(r), SaveAbandoned(r)
  PROVE  RunInv(r)'
<1>1. /\ pc[r] = "abandoned" /\ pc'[r] = "idle"
      /\ rec'[r] = [mem[r] EXCEPT !.status = "failed", !.provStop = FALSE]
      /\ mem'[r] = rec'[r]
      /\ UNCHANGED <<branch, standing, edits, target, item, promoter, checked, approved>>
  BY DEF SaveAbandoned, Save, Note, Goes, SetItem, GivesUpTurn, git, judged, TypeOK
<1>2. mem[r] \in Record /\ rec[r] \in Record /\ branch[r] \in Version
  BY Typed
<1>3. SyncInv(r)' /\ PhaseInv(r)' /\ VerdictInv(r)' /\ StopInv(r)'
  BY <1>1, <1>2 DEF RunInv, SyncInv, Synced, PhaseInv, Promoting, VerdictInv, VerdictOf,
       Early, Late, StopInv, Record, Version, Phases
<1>4. HeadInv(r)'
  BY <1>1, <1>2 DEF RunInv, HeadInv
<1>5. LandedInv(r)'
  <2>1. /\ VersionOf(mem[r])' = VersionOf(mem[r]) /\ VersionOf(rec[r])' = VersionOf(mem[r])
    BY <1>1, <1>2 DEF VersionOf, Record
  <2>2. /\ InTarget(r, branch[r])' <=> InTarget(r, branch[r])
        /\ InTarget(r, VersionOf(mem[r]))' <=> InTarget(r, VersionOf(mem[r]))
        /\ InTarget(r, VersionOf(rec[r]))' <=> InTarget(r, VersionOf(mem[r]))
    BY <1>1, <2>1 DEF InTarget
  <2> QED BY <1>1, <1>2, <2>1, <2>2 DEF RunInv, SyncInv, Synced, PhaseInv, VerdictInv,
         VerdictOf, Early, Promoting, LandedInv, Late, Record
<1>6. ItemInv(r)'
  <2>1. VersionOf(rec[r])' = VersionOf(mem[r])
    BY <1>1, <1>2 DEF VersionOf, Record
  <2>2. InTarget(r, VersionOf(rec[r]))' <=> InTarget(r, VersionOf(mem[r]))
    BY <1>1, <2>1 DEF InTarget
  <2> QED BY <1>1, <1>2, <2>1, <2>2 DEF RunInv, SyncInv, Synced, PhaseInv, VerdictInv,
         VerdictOf, Early, Promoting, LandedInv, Late, ItemInv, Record
<1>7. GateInv(r)' /\ ExactInv(r)' /\ TurnInv(r)'
  BY <1>1, <1>2 DEF RunInv, GateInv, Passed, EditPassed, StopInv, ExactInv, TurnInv
<1> QED BY <1>3, <1>4, <1>5, <1>6, <1>7 DEF RunInv

\* FinishLanded: the reconciler closes the item of a change that is on the target.
LEMMA FinishLandedKeeps ==
  ASSUME TypeOK, NEW r \in Run, RunInv(r), FinishLanded(r)
  PROVE  RunInv(r)'
<1>1. /\ pc[r] = "finish" /\ pc'[r] = "settled" /\ rec' = rec /\ mem' = mem
      /\ item'[r] = IF item[r] = "closed" THEN "closed" ELSE SettledStatus(r)
      /\ UNCHANGED <<branch, standing, edits, target, promoter, checked, approved>>
  BY DEF FinishLanded, Save, Note, Goes, SetItem, GivesUpTurn, git, judged, TypeOK
<1>2. mem[r] \in Record /\ rec[r] \in Record /\ branch[r] \in Version
  BY Typed
<1>3. SyncInv(r)' /\ PhaseInv(r)' /\ VerdictInv(r)' /\ StopInv(r)'
  BY <1>1, <1>2 DEF RunInv, SyncInv, Synced, PhaseInv, Promoting, VerdictInv, VerdictOf,
       Early, Late, StopInv, Record, Version, Phases
<1>4. HeadInv(r)' /\ LandedInv(r)'
  BY <1>1, <1>2 DEF RunInv, HeadInv, LandedInv, InTarget
<1>5. ItemInv(r)'
  <2>1. VersionOf(rec[r])' = VersionOf(rec[r])
    BY <1>1, <1>2 DEF VersionOf, Record
  <2>2. InTarget(r, VersionOf(rec[r]))' <=> InTarget(r, VersionOf(rec[r]))
    BY <1>1, <2>1 DEF InTarget
  <2>3. InTarget(r, VersionOf(rec[r]))
    BY <1>1 DEF RunInv, SyncInv, VerdictInv, LandedInv
  <2>4. InterruptedLanding(r)' <=> InterruptedLanding(r)
    BY <1>1 DEF InterruptedLanding, BranchIntegrated, Contained, InTarget
  <2> QED BY <1>1, <1>2, <2>1, <2>2, <2>3, <2>4
       DEF RunInv, SyncInv, Synced, VerdictInv, LandedInv,
         ItemInv, Early, SettledStatus
<1>6. GateInv(r)' /\ ExactInv(r)' /\ TurnInv(r)'
  BY <1>1, <1>2 DEF RunInv, GateInv, Passed, EditPassed, ExactInv, TurnInv
<1> QED BY <1>3, <1>4, <1>5, <1>6 DEF RunInv

\* SaveSettled: the settled record says that the change landed.
LEMMA SaveSettledKeeps ==
  ASSUME TypeOK, NEW r \in Run, RunInv(r), SaveSettled(r)
  PROVE  RunInv(r)'
<1>1. /\ pc[r] = "settled" /\ pc'[r] = "clean"
      /\ rec'[r] = [mem[r] EXCEPT !.status = IF Terminal(mem[r]) THEN @ ELSE "succeeded",
                              !.phase = "cleaning_up"]
      /\ mem'[r] = rec'[r]
      /\ UNCHANGED <<branch, standing, edits, target, item, promoter, checked, approved>>
  BY DEF SaveSettled, Save, Note, Goes, SetItem, GivesUpTurn, git, judged, TypeOK
<1>2. mem[r] \in Record /\ rec[r] \in Record /\ branch[r] \in Version
  BY Typed
<1>3. SyncInv(r)' /\ PhaseInv(r)' /\ VerdictInv(r)' /\ StopInv(r)'
  BY <1>1, <1>2 DEF RunInv, SyncInv, PhaseInv, Promoting, VerdictInv, VerdictOf, Early,
       Late, StopInv
<1>4. HeadInv(r)' /\ LandedInv(r)' /\ ItemInv(r)'
  BY <1>1, <1>2 DEF RunInv, SyncInv, VersionOf, HeadInv, VerdictInv, Early, Late,
       LandedInv, InTarget, ItemInv
<1>5. GateInv(r)' /\ ExactInv(r)' /\ TurnInv(r)'
  BY <1>1, <1>2 DEF RunInv, GateInv, Passed, EditPassed, ExactInv, AwaitsIntegration,
       TurnInv
<1> QED BY <1>3, <1>4, <1>5 DEF RunInv

-----------------------------------------------------------------------------
(* The inductive invariant, and what follows from it. *)

\* The inductive invariant.
Inv == TypeOK /\ \A r \in Run : RunInv(r)

\* It holds at the start, when there is no run.
LEMMA InitInv == Init => Inv
<1> SUFFICES ASSUME Init PROVE Inv
  OBVIOUS
<1>. USE DeliveryAssumption
<1>1. TypeOK
  BY DEF Init, TypeOK, Record, Phases, Absent, Steps, Version
<1>2. \A r \in Run : RunInv(r)
  <2>1. SUFFICES ASSUME NEW r \in Run PROVE RunInv(r)
    OBVIOUS
  <2>2. SyncInv(r) /\ PhaseInv(r) /\ VerdictInv(r) /\ StopInv(r)
    BY DEF Init, SyncInv, PhaseInv, Promoting, VerdictInv, VerdictOf, Early, Absent, StopInv
  <2>3. HeadInv(r) /\ LandedInv(r) /\ ItemInv(r)
    BY DEF Init, HeadInv, LandedInv, InTarget, ItemInv, Early, Absent
  <2>4. GateInv(r) /\ ExactInv(r) /\ TurnInv(r)
    BY DEF Init, GateInv, ExactInv, TurnInv, Absent
  <2> QED BY <2>2, <2>3, <2>4 DEF RunInv
<1> QED BY <1>1, <1>2 DEF Inv

\* A step of a run keeps what is known of that run: one lemma per action.
LEMMA OwnStep ==
  ASSUME TypeOK, NEW r \in Run, RunInv(r), Step(r)
  PROVE  RunInv(r)'
BY FailsKeeps, CrashKeeps, AbandonKeeps, DevelopKeeps, MoveTargetKeeps, ConfirmMoveKeeps,
     RebaseKeeps,
   ClaimKeeps, CreateWorktreeKeeps, LaunchKeeps, RecordDevelopmentKeeps,
   ProviderStopsKeeps, BeginChecksKeeps, ChecksPassKeeps, ChecksRefuseKeeps,
   BeginReviewKeeps, ApproveKeeps, RequestRepairKeeps, StopOnBudgetKeeps,
   ChargeReplayKeeps, RepairKeeps, BlockKeeps, SaveIntegratingKeeps, TakeTurnKeeps,
   TargetDivergesKeeps, TargetDriftedKeeps, PublishDivergesKeeps, RecordIntegrationKeeps,
   SaveRetryKeeps, RebaseConflictsKeeps, RecordRebaseKeeps, ClearVerdictKeeps,
   CloseItemKeeps, SaveSucceededKeeps, CleanUpKeeps, CleanUpFailsKeeps,
   SaveCompleteKeeps, ResumeKeeps, ContinueIntegrationKeeps, HandoffFailsKeeps,
   GrantRepairKeeps, SaveGrantKeeps, ResumeIntegrationKeeps, SaveResumptionKeeps,
   SettleLandedKeeps, RecoverLandingKeeps, SaveAbandonedKeeps, FinishLandedKeeps,
   SaveSettledKeeps, DispatchKeeps
   DEF Step, HostStep, Reconcile, PickUp, Fails

\* Every step keeps the invariant of every run.
LEMMA StepInv == Inv /\ [Next]_vars => Inv'
<1> SUFFICES ASSUME Inv, [Next]_vars PROVE Inv'
  OBVIOUS
<1>1. CASE UNCHANGED vars
  <2>1. TypeOK'
    BY <1>1 DEF Inv, TypeOK, vars, git, judged
  <2>2. ASSUME NEW q \in Run PROVE RunInv(q)'
    BY <1>1, StableInv DEF Inv, FrameOf, vars, git, judged
  <2> QED BY <2>1, <2>2 DEF Inv
<1>2. CASE CommitElsewhere
  <2> DEFINE e == [by |-> External, edit |-> 0]
  <2>0. /\ UNCHANGED <<rec, mem, pc, branch, standing, edits, item, promoter, judged, crashes>>
        /\ target' = Append(target, e)
    BY <1>2, Zenon DEF CommitElsewhere
  <2>1. target \in Seq(Entry) /\ e \in Entry /\ e.by = External
    BY OnTarget DEF Inv, Entry
  <2>2. target' \in Seq(Entry)
    BY <2>0, <2>1, AppendEntry
  <2>3. TypeOK'
    BY <2>0, <2>2 DEF Inv, TypeOK, Entry, judged
  <2>4. ASSUME NEW q \in Run PROVE RunInv(q)'
    <3>1. FrameOf(q) /\ e.by # q
      <4>1. FrameOf(q)
        BY <2>0 DEF FrameOf, judged
      <4> QED BY <2>1, <4>1, DeliveryAssumption
    <3> HIDE DEF e
    <3> QED BY <2>0, <2>1, <3>1, GrowsInv DEF Inv
  <2> QED BY <2>3, <2>4 DEF Inv
<1>3. ASSUME NEW r \in Run, Step(r) PROVE Inv'
  <2>1. TypeOK'
    BY <1>3, Typing DEF Inv
  <2>2. ASSUME NEW q \in Run, q # r PROVE RunInv(q)'
    <3>1. FrameOf(q) /\ (target' = target \/ MoveTarget(r))
      BY <1>3, <2>2, Elsewhere DEF Inv
    <3>2. CASE target' = target
      BY <3>1, <3>2, StableInv DEF Inv
    <3>3. CASE MoveTarget(r)
      <4>1. pc[r] = "promote" /\ target' = Append(target, [by |-> r, edit |-> branch[r].edit])
        BY <3>3 DEF MoveTarget, Promotable
      <4>2. [by |-> r, edit |-> branch[r].edit] \in Entry
        BY Typed DEF Inv, Entry, Version
      <4>3. pc[q] # "confirm"
        BY <2>2, <4>1 DEF Inv, RunInv, TurnInv
      <4> QED BY <2>2, <3>1, <4>1, <4>2, <4>3, GrowsInv DEF Inv
    <3> QED BY <3>1, <3>2, <3>3
  <2>3. RunInv(r)'
    BY <1>3, OwnStep DEF Inv
  <2> QED BY <2>1, <2>2, <2>3 DEF Inv
<1> QED BY <1>1, <1>2, <1>3 DEF Next, Step

\* The records, branches and judgements stay well formed.
THEOREM TypeCorrect == Spec => []TypeOK
BY InitInv, StepInv, PTL DEF Spec, Inv

\* A change is promoted at most once, though a promotion may be interrupted, retried,
\* replayed and recovered: the entries of one edit are one entry (LandsOnce).
THEOREM PromotesOnce == Spec => []LandsOnce
<1>1. Inv => LandsOnce
  BY DEF Inv, RunInv, LandedInv, LandsOnce
<1> QED BY <1>1, InitInv, StepInv, PTL DEF Spec

\* An item is closed only over a change that is on the target, whoever closes it, the
\* pipeline or the reconciler (ClosedMeansLanded).
THEOREM ClosesOnlyLanded == Spec => []ClosedMeansLanded
<1>1. Inv => ClosedMeansLanded
  BY DEF Inv, RunInv, LandedInv, ItemInv, ClosedMeansLanded
<1> QED BY <1>1, InitInv, StepInv, PTL DEF Spec

\* Between comparing the target and recording the integration no other run promotes
\* (TurnExcludesRuns).
THEOREM TurnIsExclusive == Spec => []TurnExcludesRuns
<1>1. Inv => TurnExcludesRuns
  BY DEF Inv, RunInv, TurnInv, TurnExcludesRuns
<1> QED BY <1>1, InitInv, StepInv, PTL DEF Spec

\* An attempt is counted on disk before its provider works, so a crash never gives one for
\* free (ChargedBeforeSpent).
THEOREM AttemptsAreCharged == Spec => []ChargedBeforeSpent
<1>1. Inv => ChargedBeforeSpent
  BY DEF Inv, RunInv, SyncInv, PhaseInv, ChargedBeforeSpent
<1> QED BY <1>1, InitInv, StepInv, PTL DEF Spec

\* Whatever crash or failure hit the run that promoted a change, its record supports the
\* recovery of that landing (LandingRecoverable).
THEOREM LandingsAreRecoverable == Spec => []LandingRecoverable
<1>1. Inv => LandingRecoverable
  BY DEF Inv, RunInv, LandedInv, VerdictInv, VerdictOf, SupportsLanding, LandingRecoverable
<1> QED BY <1>1, InitInv, StepInv, PTL DEF Spec

\* Every promoted edit passed the checks and the review on some base, with publishing or
\* without, whatever was retried or replayed (LandsApprovedEdit).
THEOREM LandsApproved == Spec => []LandsApprovedEdit
<1>1. Inv => LandsApprovedEdit
  BY DEF Inv, RunInv, GateInv, EditPassed, Passed, LandsApprovedEdit
<1> QED BY <1>1, InitInv, StepInv, PTL DEF Spec

\* Without publishing, what is promoted is exactly a version that passed, base included
\* (NothingLandsUnjudged).  With publishing the verdict survives a failed republication of
\* a replayed branch, and the theorem would be false: the run delivery_replayed shows it.
THEOREM LandsJudged == ASSUME ~Publishing PROVE Spec => []NothingLandsUnjudged
<1>1. Inv => NothingLandsUnjudged
  BY DEF Inv, RunInv, ExactInv, Passed, NothingLandsUnjudged
<1> QED BY <1>1, InitInv, StepInv, PTL DEF Spec

-----------------------------------------------------------------------------
(* The pipeline implements Landing. *)

\* The refinement mapping to Landing: what passed both gates, and whose item is closed.
passed == [q \in Run |-> checked[q] \cap approved[q]]

settled == {q \in Run : item[q] = "closed"}

landingVars == Abstract!vars

\* The steps that change what a run would land, and nothing else that Landing sees.
Changes(r) == CreateWorktree(r) \/ Develop(r) \/ Rebase(r)

\* The steps that add a judgement.
Judges(r) == ChecksPass(r) \/ Approve(r)

\* The steps that may close an item.
Settles(r) == CloseItem(r) \/ FinishLanded(r)

\* The steps that move an item otherwise.
MovesItem(r) ==
  Claim(r) \/ Block(r) \/ GrantRepair(r) \/ ResumeIntegration(r) \/ Abandon(r)

\* Every other step but MoveTarget changes nothing that Landing sees.
LEMMA Unseen ==
  ASSUME NEW r \in Run, Step(r)
  PROVE  \/ Changes(r) \/ Judges(r) \/ Settles(r) \/ MovesItem(r) \/ MoveTarget(r)
         \/ UNCHANGED <<branch, checked, approved, target, item>>
<1>1. Fails(r) => UNCHANGED <<branch, checked, approved, target, item>>
  BY FailsFrom DEF Fail, git, judged
<1>2. ASSUME \/ Launch(r) \/ RecordDevelopment(r) \/ ProviderStops(r) \/ BeginChecks(r)
             \/ ChecksRefuse(r) \/ BeginReview(r) \/ RequestRepair(r) \/ StopOnBudget(r)
             \/ ChargeReplay(r) \/ Repair(r) \/ Dispatch(r)
      PROVE  UNCHANGED <<branch, checked, approved, target, item>>
  BY <1>2 DEF Launch, RecordDevelopment, ProviderStops, BeginChecks, ChecksRefuse,
       BeginReview,
     RequestRepair, StopOnBudget, ChargeReplay, Repair, Dispatch, git, judged
<1>3. ASSUME \/ SaveIntegrating(r) \/ TakeTurn(r) \/ TargetDiverges(r) \/ TargetDrifted(r)
             \/ ConfirmMove(r) \/ PublishDiverges(r) \/ RecordIntegration(r) \/ SaveRetry(r)
             \/ RebaseConflicts(r) \/ RecordRebase(r) \/ ClearVerdict(r)
      PROVE  UNCHANGED <<branch, checked, approved, target, item>>
  BY <1>3 DEF SaveIntegrating, TakeTurn, TargetDiverges, TargetDrifted, ConfirmMove,
     PublishDiverges, RecordIntegration, SaveRetry, RebaseConflicts, RecordRebase,
          ClearVerdict,
     git, judged
<1>4. ASSUME \/ SaveSucceeded(r) \/ CleanUp(r) \/ CleanUpFails(r) \/ SaveComplete(r) \/ Resume(r)
             \/ ContinueIntegration(r) \/ HandoffFails(r) \/ SaveGrant(r) \/ SaveResumption(r)
      PROVE  UNCHANGED <<branch, checked, approved, target, item>>
  BY <1>4 DEF SaveSucceeded, CleanUp, CleanUpFails, SaveComplete, Resume,
       ContinueIntegration,
     HandoffFails, SaveGrant, SaveResumption, git, judged
<1>5. ASSUME \/ SettleLanded(r) \/ RecoverLanding(r) \/ SaveAbandoned(r) \/ SaveSettled(r)
             \/ Unsettled(r) \/ Crash(r)
      PROVE  UNCHANGED <<branch, checked, approved, target, item>>
  BY <1>5 DEF SettleLanded, RecoverLanding, SaveAbandoned, SaveSettled, Unsettled, Crash,
       git,
     judged
<1> QED
  BY <1>1, <1>2, <1>3, <1>4, <1>5 DEF Step, HostStep, Reconcile, PickUp, Fails, Changes,
       Judges,
     Settles, MovesItem

\* An item that is claimed, blocked, reopened or given up was not closed, and is not.
LEMMA MovedItem ==
  ASSUME TypeOK, NEW r \in Run, RunInv(r), MovesItem(r)
  PROVE  /\ settled' = settled
         /\ UNCHANGED <<branch, checked, approved, target>>
<1>1. ASSUME Claim(r) \/ Block(r) \/ GrantRepair(r) \/ ResumeIntegration(r)
      PROVE  item[r] # "closed" /\ item'[r] # "closed"
  BY <1>1 DEF Claim, Block, GrantRepair, ResumeIntegration, Continuable, SetItem, RunInv,
       ItemInv,
     TypeOK
<1>2. ASSUME Abandon(r) PROVE item[r] # "closed" /\ item'[r] # "closed"
  <2>1. \/ StoppedProvider(rec[r])
        \/ ~rec[r].landed /\ ~(InterruptedLanding(r) /\ SupportsLanding(rec[r]))
    BY <1>2 DEF Abandon
  <2>2. item[r] # "closed"
    BY <2>1 DEF RunInv, VerdictInv, VerdictOf, Late, ItemInv, StoppedProvider,
       InterruptedLanding
  <2> QED BY <1>2, <2>2 DEF Abandon, SetItem, TypeOK
<1>3. /\ \A q \in Run : q # r => item'[q] = item[q]
      /\ UNCHANGED <<branch, checked, approved, target>>
  BY DEF MovesItem, Claim, Block, GrantRepair, ResumeIntegration, Abandon, SetItem, TypeOK,
       git,
     judged
<1> QED BY <1>1, <1>2, <1>3 DEF MovesItem, settled

\* Every step of the pipeline is a step of Landing or changes nothing it sees.
LEMMA RefineStep ==
  ASSUME ~Publishing, Inv, Inv', [Next]_vars
  PROVE  [Abstract!Next]_landingVars
<1>1. CASE UNCHANGED <<branch, checked, approved, target, item>>
  BY <1>1 DEF landingVars, Abstract!vars
<1>2. CASE CommitElsewhere
  <2>1. /\ UNCHANGED <<branch, checked, approved, item>>
        /\ target' = Append(target, [by |-> External, edit |-> 0])
    BY <1>2, Zenon DEF CommitElsewhere, judged
  <2> QED BY <2>1 DEF Abstract!Next, Abstract!CommitElsewhere
<1>3. ASSUME NEW r \in Run, Changes(r) PROVE Abstract!Next
  <2>1. /\ branch' = [branch EXCEPT ![r] = branch'[r]]
        /\ UNCHANGED <<checked, approved, target, item>>
    BY <1>3 DEF Changes, CreateWorktree, Develop, Rebase, judged, Inv, TypeOK
  <2>2. branch'[r] \in Abstract!Version
    BY DEF Inv, TypeOK, Version, Abstract!Version
  <2>3. Abstract!Change(r)
    BY <2>1, <2>2 DEF Abstract!Change
  <2> QED BY <2>3 DEF Abstract!Next
<1>4. ASSUME NEW r \in Run, Judges(r) PROVE Abstract!Next \/ UNCHANGED landingVars
  <2>1. UNCHANGED <<branch, target, item>>
    BY <1>4 DEF Judges, ChecksPass, Approve, git
  <2>2. passed' = passed \/ passed' = [passed EXCEPT ![r] = @ \cup {branch[r]}]
    <3>1. \A q \in Run : q # r => checked'[q] = checked[q] /\ approved'[q] = approved[q]
      BY <1>4 DEF Judges, ChecksPass, Approve, Inv, TypeOK
    <3>2. CASE ChecksPass(r)
      <4>1. checked'[r] = checked[r] \cup {branch[r]} /\ approved' = approved
        BY <3>2 DEF ChecksPass, Inv, TypeOK
      <4>2. CASE branch[r] \in approved[r]
        <5>1. checked'[r] \cap approved'[r] = (checked[r] \cap approved[r]) \cup {branch[r]}
          BY <4>1, <4>2
        <5> QED BY <3>1, <5>1 DEF passed
      <4>3. CASE branch[r] \notin approved[r]
        <5>1. checked'[r] \cap approved'[r] = checked[r] \cap approved[r]
          BY <4>1, <4>3
        <5> QED BY <3>1, <5>1 DEF passed
      <4> QED BY <4>2, <4>3
    <3>3. CASE Approve(r)
      <4>1. approved'[r] = approved[r] \cup {branch[r]} /\ checked' = checked
            /\ branch[r] \in checked[r]
        BY <3>3 DEF Approve, Inv, TypeOK, RunInv, GateInv
      <4> QED BY <3>1, <4>1 DEF passed
    <3> QED BY <1>4, <3>2, <3>3 DEF Judges
  <2>3. CASE passed' = passed
    BY <2>1, <2>3 DEF landingVars, Abstract!vars, passed, settled
  <2>4. CASE passed' = [passed EXCEPT ![r] = @ \cup {branch[r]}]
    <3>1. Abstract!Judge(r)
      BY <2>1, <2>4 DEF Abstract!Judge, passed
    <3> QED BY <3>1 DEF Abstract!Next
  <2> QED BY <2>2, <2>3, <2>4
<1>5. ASSUME NEW r \in Run, MoveTarget(r) PROVE Abstract!Next
  <2>1. /\ pc[r] = "promote" /\ HoldsChange(r, mem[r]) /\ Len(target) = mem[r].base
        /\ target' = Append(target, [by |-> r, edit |-> branch[r].edit])
        /\ UNCHANGED <<branch, checked, approved, item>>
    BY <1>5 DEF MoveTarget, Promotable, judged
  <2>2. VersionOf(mem[r]) \in Passed(r)
    BY <2>1 DEF Inv, RunInv, ExactInv
  <2>3. branch[r] = VersionOf(mem[r]) /\ branch[r].edit # 0 /\ branch[r].base = Len(target)
    BY <2>1 DEF HoldsChange, OwnsHead, VersionOf
  <2>4. branch[r] \in passed[r]
    BY <2>2, <2>3 DEF Passed, passed
  <2>5. Abstract!Land(r)
    BY <2>1, <2>3, <2>4 DEF Abstract!Land, passed
  <2> QED BY <2>5 DEF Abstract!Next
<1>6. ASSUME NEW r \in Run, Settles(r) PROVE Abstract!Next \/ UNCHANGED landingVars
  <2>1. /\ UNCHANGED <<branch, checked, approved, target>>
        /\ \A q \in Run : q # r => item'[q] = item[q]
    BY <1>6 DEF Settles, CloseItem, FinishLanded, SetItem, git, judged, Inv, TypeOK
  <2>2. item[r] = "closed" => item'[r] = "closed"
    BY <1>6 DEF Settles, CloseItem, FinishLanded, SetItem, SettledStatus, Inv,
       TypeOK, RunInv, ItemInv
  <2>3. CASE item'[r] # "closed"
    BY <2>1, <2>2, <2>3 DEF landingVars, Abstract!vars
  <2>4. CASE item'[r] = "closed"
    <3>1. InTarget(r, VersionOf(rec[r]))'
      BY <2>4 DEF Inv, RunInv, ItemInv
    <3>2. \E p \in DOMAIN target : target[p].by = r
      <4>1. rec'[r].base \in Nat
        BY DEF Inv, TypeOK, Record
      <4>2. /\ rec'[r].base < Len(target)
            /\ target[rec'[r].base + 1] = [by |-> r, edit |-> rec'[r].edit]
        BY <2>1, <3>1 DEF InTarget, VersionOf
      <4>3. rec'[r].base + 1 \in DOMAIN target
        BY <4>1, <4>2, OnTarget DEF Inv
      <4> QED BY <4>2, <4>3
    <3>3. settled' = settled \cup {r}
      BY <2>1, <2>4 DEF settled
    <3>4. Abstract!Settle(r)
      BY <2>1, <3>2, <3>3 DEF Abstract!Settle, Abstract!Landed, settled
    <3> QED BY <3>4 DEF Abstract!Next
  <2> QED BY <2>3, <2>4
<1>7. ASSUME NEW r \in Run, MovesItem(r) PROVE UNCHANGED landingVars
  BY <1>7, MovedItem DEF Inv, landingVars, Abstract!vars, passed, settled
<1>8. CASE UNCHANGED vars
  BY <1>8, <1>1 DEF vars, git, judged
<1>9. ASSUME NEW r \in Run, Step(r) PROVE Abstract!Next \/ UNCHANGED landingVars
  BY <1>1, <1>3, <1>4, <1>5, <1>6, <1>7, <1>9, Unseen
<1> QED BY <1>2, <1>8, <1>9 DEF Next, Step

\* The pipeline of a product that does not publish implements Landing: changes are judged,
\* land once on the base they were judged on, and their items close after
\* (ImplementsLanding).
THEOREM DeliveryImplementsLanding ==
  ASSUME ~Publishing
  PROVE  Spec => ImplementsLanding
<1>1. Init => Abstract!Init
  BY DEF Init, Abstract!Init
<1>2. Inv /\ Inv' /\ [Next]_vars => [Abstract!Next]_landingVars
  BY RefineStep
<1> QED BY <1>1, <1>2, InitInv, StepInv, PTL DEF Spec, ImplementsLanding, Abstract!Spec,
       landingVars
=============================================================================
