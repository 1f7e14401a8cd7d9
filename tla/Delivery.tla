------------------------------ MODULE Delivery ------------------------------
(***************************************************************************)
(* The delivery pipeline of one product (internal/orchestrator): each run  *)
(* takes its own work item from the claim to a change on the local target  *)
(* branch, through develop, check, review, repair, promotion, replay,      *)
(* completion and clean-up, with the reconciler and the triage actions     *)
(* that pick a stopped run up again.                                       *)
(*                                                                         *)
(* A run is hosted by at most one process at a time, which is what the     *)
(* lease of module RunStore establishes (RunStoreProofs!LeaseExcludes), so *)
(* a run's process is one program counter pc[r].  Every write to the run's *)
(* record, to git or to the tracker is one step: a process may be killed   *)
(* between any two of them, and then forgets everything but the record.    *)
(*                                                                         *)
(* The target branch is linear: target is the sequence of what was put on  *)
(* it, a base is a length of that sequence, and a version of a run's       *)
(* change is an edit on a base.  Edit 0 is no change at all.               *)
(***************************************************************************)
EXTENDS Integers, Sequences, FiniteSets

CONSTANTS
  Run,              \* runs, each made for a work item of its own
  External,         \* whoever else commits to the target branch
  Nobody,           \* no run
  Publishing,       \* whether the product publishes to a forge
  Evidence,         \* the runs whose landed change does not discharge their item
  RepairBudget,     \* execution.repair_attempts_before_replan
  ReplayLimit,      \* execution.integration_retries_before_reconciliation
  MaxResumptions,   \* runstate.MaxIntegrationResumptions
  MaxGrants,        \* bound: repairs granted to one run after it stopped
  MaxEdit,          \* bound: developer attempts of one run that change something
  MaxExternal,      \* bound: commits by somebody else
  MaxCrashes        \* bound: killed processes

ASSUME DeliveryAssumption ==
  /\ External \notin Run /\ Nobody \notin Run
  /\ Publishing \in BOOLEAN
  /\ Evidence \subseteq Run
  /\ {RepairBudget, ReplayLimit, MaxResumptions, MaxGrants,
      MaxEdit, MaxExternal, MaxCrashes} \subseteq Nat

VARIABLES
  rec,              \* each run's durable record
  mem,              \* the record as the process hosting the run holds it
  pc,               \* the step that process is at
  branch,           \* the version at the head of each run's branch
  standing,         \* the runs whose worktree and branch exist
  edits,            \* how many edits were ever made for each run
  target,           \* the target branch
  item,             \* the status of each run's work item
  promoter,         \* who holds the promotion lease of the target branch
  checked,          \* history: the versions the product's checks passed
  approved,         \* history: the versions an independent review approved
  crashes           \* how many processes were killed

git == <<branch, standing, edits, target>>
judged == <<checked, approved>>
vars == <<rec, mem, pc, git, item, promoter, judged, crashes>>

-----------------------------------------------------------------------------
(* The run record. *)

Phases == {"none", "developing", "checking", "reviewing", "integrating",
           "completing", "cleaning_up", "complete"}

Record ==
  [status : {"none", "pending", "running", "succeeded", "failed"},
   phase : Phases,
   session : BOOLEAN,       \* a developer session is recorded
   base : Nat, edit : Nat,  \* the base commit and the harness commit
   verdict : {"none", "approve", "repair"},
   failing : BOOLEAN,       \* a failing check or a refused path is recorded
   landed : BOOLEAN,        \* the integration is recorded
   repairs : Nat, granted : Nat, charged : Nat,
   replay : BOOLEAN,        \* a replay has not been judged yet
   stop : BOOLEAN,          \* an integration stop is recorded
   resumed : Nat,           \* integration resumptions
   provStop : BOOLEAN]      \* the harness stopped the provider on time

Absent ==
  [status |-> "none", phase |-> "none", session |-> FALSE, base |-> 0, edit |-> 0,
   verdict |-> "none", failing |-> FALSE, landed |-> FALSE,
   repairs |-> 0, granted |-> 0, charged |-> 0, replay |-> FALSE, stop |-> FALSE,
   resumed |-> 0, provStop |-> FALSE]

VersionOf(m) == [base |-> m.base, edit |-> m.edit]
Terminal(m) == m.status \in {"succeeded", "failed"}

\* State.ApprovedAwaitingIntegration.
AwaitsIntegration(m) ==
  m.verdict = "approve" /\ ~m.landed /\ m.phase \in {"reviewing", "integrating"}

HandedBack(m) == m.failing \/ m.verdict = "repair"

ResumableRepair(m) ==
  /\ m.status = "running" /\ m.repairs > 0 /\ m.session
  /\ \/ m.phase = "developing" /\ HandedBack(m)
     \/ m.phase \in {"checking", "reviewing"}

ResumableIntegration(m) ==
  /\ m.status = "running" /\ m.phase = "integrating" /\ m.session
  /\ m.resumed > 0
  /\ AwaitsIntegration(m)

StoppedProvider(m) ==
  /\ m.status = "running" /\ m.provStop /\ m.session
  /\ m.phase \in {"developing", "reviewing"}

ResumesAChange(m) ==
  \/ m.phase \in {"checking", "reviewing", "integrating"}
  \/ m.phase = "developing" /\ HandedBack(m)

\* State.Outstanding: the run still owes a step.
Outstanding_RunningOnly(m) == m.status \in {"pending", "running"}    \* mutant

Outstanding(m) ==
  \/ m.status \in {"pending", "running"}
  \/ Terminal(m) /\ m.landed /\ m.phase # "complete"

-----------------------------------------------------------------------------
(* The repository. *)

InTarget(r, v) ==
  v.edit # 0 /\ v.base < Len(target) /\ target[v.base + 1] = [by |-> r, edit |-> v.edit]

\* gitworktree.Manager.verifyOwnedHead: the head is the recorded commit.
OwnsHead(r, m) == r \in standing /\ branch[r] = VersionOf(m)

\* preservedChangeHeld: that commit, and a change in it.
HoldsChange(r, m) == OwnsHead(r, m) /\ m.edit # 0

\* Git's containment of the branch's commit in the target.
Contained(r) ==
  \/ branch[r].edit = 0 /\ branch[r].base <= Len(target)
  \/ InTarget(r, branch[r])

\* gitworktree.Observation.BranchIntegrated.
BranchIntegrated(r) ==
  r \in standing /\ branch[r] # [base |-> rec[r].base, edit |-> 0] /\ Contained(r)

Init ==
  /\ rec = [r \in Run |-> Absent]
  /\ mem = [r \in Run |-> Absent]
  /\ pc = [r \in Run |-> "idle"]
  /\ branch = [r \in Run |-> [base |-> 0, edit |-> 0]]
  /\ standing = {}
  /\ edits = [r \in Run |-> 0]
  /\ target = <<>>
  /\ item = [r \in Run |-> "open"]
  /\ promoter = Nobody
  /\ checked = [r \in Run |-> {}]
  /\ approved = [r \in Run |-> {}]
  /\ crashes = 0

-----------------------------------------------------------------------------
(* What a step of a hosting process may do. *)

Goes(r, step) == pc' = [pc EXCEPT ![r] = step]

Save(r, m) == rec' = [rec EXCEPT ![r] = m] /\ mem' = [mem EXCEPT ![r] = m]

\* Only the process's memory changes.
Note(r, m) == mem' = [mem EXCEPT ![r] = m] /\ UNCHANGED rec

GivesUpTurn(r) == promoter' = IF promoter = r THEN Nobody ELSE promoter

SetItem(r, status) == item' = [item EXCEPT ![r] = status]

\* activeRun.fail: an environmental cause is recorded as an integration stop
\* only over an approved change that was not promoted yet.
Fail(r, environmental) ==
  /\ Save(r, [mem[r] EXCEPT
                !.status = "failed", !.provStop = FALSE,
                !.stop = @ \/ (environmental /\ AwaitsIntegration(mem[r]))])
  /\ Goes(r, "idle")
  /\ GivesUpTurn(r)
  /\ UNCHANGED <<git, item, judged, crashes>>

-----------------------------------------------------------------------------
(* From the claim to the first attempt (Pipeline.Run). *)

Dispatch(r) ==
  /\ pc[r] = "idle" /\ rec[r].status = "none" /\ item[r] = "open"
  /\ Save(r, [Absent EXCEPT !.status = "pending"])
  /\ Goes(r, "claim")
  /\ UNCHANGED <<git, item, promoter, judged, crashes>>

Claim(r) ==
  /\ pc[r] = "claim" /\ item[r] = "open"
  /\ SetItem(r, "in_progress")
  /\ Goes(r, "create")
  /\ UNCHANGED <<rec, mem, git, promoter, judged, crashes>>

CreateWorktree(r) ==
  /\ pc[r] = "create"
  /\ branch' = [branch EXCEPT ![r] = [base |-> Len(target), edit |-> 0]]
  /\ standing' = standing \cup {r}
  /\ Note(r, [mem[r] EXCEPT !.base = Len(target)])
  /\ Goes(r, "launch")
  /\ UNCHANGED <<edits, target, item, promoter, judged, crashes>>

Launch(r) ==
  /\ pc[r] = "launch"
  /\ Save(r, [mem[r] EXCEPT !.status = "running", !.phase = "developing"])
  /\ Goes(r, "develop")
  /\ UNCHANGED <<git, item, promoter, judged, crashes>>

StartFails(r) ==
  /\ pc[r] \in {"claim", "create", "launch"}
  /\ Fail(r, FALSE)

-----------------------------------------------------------------------------
(* Developing and checking. *)

\* The provider works in the worktree and the harness commits what it left.
Develop(r) ==
  /\ pc[r] = "develop" /\ OwnsHead(r, mem[r])
  /\ \/ /\ edits[r] < MaxEdit
        /\ edits' = [edits EXCEPT ![r] = @ + 1]
        /\ branch' = [branch EXCEPT ![r].edit = edits[r] + 1]
        /\ Note(r, [mem[r] EXCEPT !.edit = edits[r] + 1])
     \/ UNCHANGED <<rec, mem, edits, branch>>
  /\ Goes(r, "account")
  /\ UNCHANGED <<standing, target, item, promoter, judged, crashes>>

RecordDevelopment(r) ==
  /\ pc[r] = "account"
  /\ Save(r, [mem[r] EXCEPT !.session = TRUE, !.provStop = FALSE])
  /\ Goes(r, "check")
  /\ UNCHANGED <<git, item, promoter, judged, crashes>>

\* The provider was stopped on time: the run pauses where it stands.
ProviderStops(r) ==
  /\ pc[r] \in {"account", "verdict"}
  /\ Save(r, [mem[r] EXCEPT !.session = TRUE, !.provStop = TRUE])
  /\ Goes(r, "idle")
  /\ UNCHANGED <<git, item, promoter, judged, crashes>>

DevelopFails(r) ==
  /\ pc[r] \in {"develop", "account"}
  /\ Fail(r, FALSE)

BeginChecks(r) ==
  /\ pc[r] = "check" /\ OwnsHead(r, mem[r])
  /\ Save(r, [mem[r] EXCEPT !.phase = "checking"])
  /\ Goes(r, "checks")
  /\ UNCHANGED <<git, item, promoter, judged, crashes>>

ChecksPass(r) ==
  /\ pc[r] = "checks"
  /\ Note(r, [mem[r] EXCEPT !.failing = FALSE])
  /\ checked' = [checked EXCEPT ![r] = @ \cup {branch[r]}]
  /\ Goes(r, "review")
  /\ UNCHANGED <<git, item, promoter, approved, crashes>>

ChecksRefuse_Reviewed(r) ==     \* mutant: a refused change is reviewed all the same
  /\ pc[r] = "checks"
  /\ Note(r, [mem[r] EXCEPT !.failing = TRUE, !.verdict = "none"])
  /\ Goes(r, "review")
  /\ UNCHANGED <<git, item, promoter, judged, crashes>>

ChecksRefuse(r) ==
  /\ pc[r] = "checks"
  /\ Note(r, [mem[r] EXCEPT !.failing = TRUE, !.verdict = "none"])
  /\ Goes(r, "decide")
  /\ UNCHANGED <<git, item, promoter, judged, crashes>>

ChecksError(r) ==
  /\ pc[r] \in {"check", "checks"}
  /\ Fail(r, FALSE)

-----------------------------------------------------------------------------
(* Reviewing and repairing. *)

BeginReview(r) ==
  /\ pc[r] = "review"
  /\ Save(r, [mem[r] EXCEPT !.phase = "reviewing", !.verdict = "none",
                            !.provStop = FALSE])
  /\ Goes(r, "verdict")
  /\ UNCHANGED <<git, item, promoter, judged, crashes>>

\* The verdict stays in memory until the next save.
Approve(r) ==
  /\ pc[r] = "verdict"
  /\ Note(r, [mem[r] EXCEPT !.verdict = "approve"])
  /\ approved' = [approved EXCEPT ![r] = @ \cup {branch[r]}]
  /\ Goes(r, "integrate")
  /\ UNCHANGED <<git, item, promoter, checked, crashes>>

RequestRepair(r) ==
  /\ pc[r] = "verdict"
  /\ Note(r, [mem[r] EXCEPT !.verdict = "repair"])
  /\ Goes(r, "decide")
  /\ UNCHANGED <<git, item, promoter, judged, crashes>>

ReviewFails(r) ==
  /\ pc[r] = "verdict"
  /\ Fail(r, FALSE)

BudgetSpent(m) == m.repairs >= RepairBudget + m.granted

StopOnBudget(r) ==
  /\ pc[r] = "decide" /\ BudgetSpent(mem[r])
  /\ Goes(r, "block")
  /\ UNCHANGED <<rec, mem, git, item, promoter, judged, crashes>>

\* A replayed change that is handed back is charged as a replay first.
ChargeReplay(r) ==
  /\ pc[r] = "decide" /\ ~BudgetSpent(mem[r]) /\ mem[r].replay
  /\ Save(r, [mem[r] EXCEPT !.replay = FALSE, !.charged = @ + 1])
  /\ Goes(r, IF mem[r].charged + 1 > ReplayLimit THEN "block" ELSE "decide")
  /\ UNCHANGED <<git, item, promoter, judged, crashes>>

Repair_ChargedLater(r) ==       \* mutant: the attempt is counted but not saved
  /\ pc[r] = "decide" /\ ~BudgetSpent(mem[r]) /\ ~mem[r].replay
  /\ Note(r, [mem[r] EXCEPT !.repairs = @ + 1, !.phase = "developing"])
  /\ Goes(r, "develop")
  /\ UNCHANGED <<git, item, promoter, judged, crashes>>

Repair_Uncounted(r) ==          \* mutant: the attempt is not counted
  /\ pc[r] = "decide" /\ ~BudgetSpent(mem[r]) /\ ~mem[r].replay
  /\ Save(r, [mem[r] EXCEPT !.phase = "developing"])
  /\ Goes(r, "develop")
  /\ UNCHANGED <<git, item, promoter, judged, crashes>>

Repair(r) ==
  /\ pc[r] = "decide" /\ ~BudgetSpent(mem[r]) /\ ~mem[r].replay
  /\ Save(r, [mem[r] EXCEPT !.repairs = @ + 1, !.phase = "developing"])
  /\ Goes(r, "develop")
  /\ UNCHANGED <<git, item, promoter, judged, crashes>>

\* The item is handed to a person, then the run ends.
Block(r) ==
  /\ pc[r] = "block"
  /\ SetItem(r, "blocked")
  /\ Goes(r, "blocked")
  /\ UNCHANGED <<rec, mem, git, promoter, judged, crashes>>

EndBlocked(r) ==
  /\ pc[r] \in {"block", "blocked"}      \* the tracker may refuse the block
  /\ Fail(r, FALSE)

-----------------------------------------------------------------------------
(* Promoting an approved change (activeRun.integrate).                     *)

\* A directive or a dependency could not be read, or the phase not saved.
HoldFails(r) ==
  /\ pc[r] = "integrate"
  /\ \E environmental \in BOOLEAN : Fail(r, environmental)

SaveIntegrating_Noted(r) ==     \* mutant: the phase is not saved before promoting
  /\ pc[r] = "integrate"
  /\ Note(r, [mem[r] EXCEPT !.phase = "integrating"])
  /\ Goes(r, "turn")
  /\ UNCHANGED <<git, item, promoter, judged, crashes>>

SaveIntegrating(r) ==
  /\ pc[r] = "integrate"
  /\ Save(r, [mem[r] EXCEPT !.phase = "integrating"])
  /\ Goes(r, "turn")
  /\ UNCHANGED <<git, item, promoter, judged, crashes>>

TakeTurn_Shared(r) ==           \* mutant: the promotion lease excludes nobody
  /\ pc[r] = "turn"
  /\ promoter' = r
  /\ Goes(r, "promote")
  /\ UNCHANGED <<rec, mem, git, item, judged, crashes>>

TakeTurn(r) ==
  /\ pc[r] = "turn" /\ promoter = Nobody
  /\ promoter' = r
  /\ Goes(r, "promote")
  /\ UNCHANGED <<rec, mem, git, item, judged, crashes>>

TurnFails(r) ==
  /\ pc[r] = "turn"
  /\ Fail(r, FALSE)

\* settleRemoteTarget: the remote target cannot be read, or cannot be caught up.
RemoteRefuses(r) ==
  /\ pc[r] = "promote" /\ Publishing
  /\ \E environmental \in BOOLEAN : Fail(r, environmental)

TargetDiverges(r) ==
  /\ pc[r] = "promote" /\ Publishing
  /\ Note(r, [mem[r] EXCEPT !.stop = @ \/ AwaitsIntegration(mem[r])])
  /\ Goes(r, "block")
  /\ UNCHANGED <<git, item, promoter, judged, crashes>>

\* Manager.prepareIntegration, in the order it asks.
Promotable(r) == pc[r] = "promote" /\ HoldsChange(r, mem[r])

PromotionRefused(r) ==
  /\ pc[r] = "promote" /\ ~Promotable(r)
  /\ Fail(r, FALSE)

PrimaryNotReady(r) ==
  /\ Promotable(r)
  /\ \E environmental \in BOOLEAN : Fail(r, environmental)

TargetDrifted(r) ==
  /\ Promotable(r) /\ Len(target) # mem[r].base
  /\ Goes(r, "retry")
  /\ GivesUpTurn(r)
  /\ UNCHANGED <<rec, mem, git, item, judged, crashes>>

MoveTarget_Drifted(r) ==        \* mutant: the recorded base is not compared
  /\ Promotable(r)
  /\ target' = Append(target, [by |-> r, edit |-> branch[r].edit])
  /\ Goes(r, "confirm")
  /\ UNCHANGED <<rec, mem, branch, standing, edits, item, promoter, judged, crashes>>

\* The compare-and-swap of the target ref.
MoveTarget(r) ==
  /\ Promotable(r) /\ Len(target) = mem[r].base
  /\ target' = Append(target, [by |-> r, edit |-> branch[r].edit])
  /\ Goes(r, "confirm")
  /\ UNCHANGED <<rec, mem, branch, standing, edits, item, promoter, judged, crashes>>

\* The target is read back; another commit on it in between reads as contention.
ConfirmMove(r) ==
  /\ pc[r] = "confirm"
  /\ IF Len(target) = mem[r].base + 1
       THEN /\ Note(r, [mem[r] EXCEPT !.landed = TRUE, !.replay = FALSE])
            /\ Goes(r, "publish")
            /\ UNCHANGED promoter
       ELSE /\ Goes(r, "retry")
            /\ GivesUpTurn(r)
            /\ UNCHANGED <<rec, mem>>
  /\ UNCHANGED <<git, item, judged, crashes>>

\* Git was killed, or could not read the ref back, after it moved the ref.
ConfirmFails(r) ==
  /\ pc[r] = "confirm"
  /\ Fail(r, FALSE)

\* publishIntegration: any other publishing failure is recorded, not returned.
PublishDiverges(r) ==
  /\ pc[r] = "publish" /\ Publishing
  /\ Goes(r, "block")
  /\ UNCHANGED <<rec, mem, git, item, promoter, judged, crashes>>

RecordIntegration(r) ==
  /\ pc[r] = "publish"
  /\ Save(r, [mem[r] EXCEPT !.phase = "completing"])
  /\ Goes(r, "complete")
  /\ GivesUpTurn(r)
  /\ UNCHANGED <<git, item, judged, crashes>>

-----------------------------------------------------------------------------
(* Replaying a change whose target moved (prepareIntegrationRetry).        *)

SaveRetry(r) ==
  /\ pc[r] = "retry"
  /\ Save(r, [mem[r] EXCEPT !.replay = TRUE])
  /\ Goes(r, "rebase")
  /\ UNCHANGED <<git, item, promoter, judged, crashes>>

Replayable(r) == pc[r] = "rebase" /\ HoldsChange(r, mem[r])

AlreadyInTarget(r) ==
  \E p \in DOMAIN target : target[p] = [by |-> r, edit |-> branch[r].edit]

Rebase_Reapplies(r) ==          \* mutant: what the target holds is applied again
  /\ Replayable(r)
  /\ branch' = [branch EXCEPT ![r].base = Len(target)]
  /\ Goes(r, "record")
  /\ UNCHANGED <<rec, mem, standing, edits, target, item, promoter, judged, crashes>>

\* Manager.RebaseOntoTarget: git drops what the target already holds.
Rebase(r) ==
  /\ Replayable(r)
  /\ branch' = [branch EXCEPT ![r] =
       IF Len(target) = mem[r].base THEN @
       ELSE [base |-> Len(target), edit |-> IF AlreadyInTarget(r) THEN 0 ELSE @.edit]]
  /\ Goes(r, "record")
  /\ UNCHANGED <<rec, mem, standing, edits, target, item, promoter, judged, crashes>>

RebaseConflicts(r) ==
  /\ Replayable(r) /\ Len(target) # mem[r].base
  /\ Note(r, [mem[r] EXCEPT !.replay = FALSE, !.charged = @ + 1])
  /\ Goes(r, "block")
  /\ UNCHANGED <<git, item, promoter, judged, crashes>>

RebaseFails(r) ==
  /\ pc[r] = "rebase"
  /\ \/ Replayable(r) /\ \E environmental \in BOOLEAN : Fail(r, environmental)
     \/ ~Replayable(r) /\ Fail(r, FALSE)

RecordRebase(r) ==
  /\ pc[r] = "record"
  /\ Save(r, [mem[r] EXCEPT !.base = branch[r].base, !.edit = branch[r].edit])
  /\ Goes(r, "republish")
  /\ UNCHANGED <<git, item, promoter, judged, crashes>>

\* The replayed branch was recorded; the verdict on the old one still stands.
RepublishFails(r) ==
  /\ pc[r] = "republish" /\ Publishing
  /\ \E environmental \in BOOLEAN : Fail(r, environmental)

ClearVerdict_Kept(r) ==         \* mutant: the approval carries over a replay
  /\ pc[r] = "republish"
  /\ UNCHANGED <<rec, mem>>
  /\ Goes(r, "integrate")
  /\ UNCHANGED <<git, item, promoter, judged, crashes>>

ClearVerdict(r) ==
  /\ pc[r] = "republish"
  /\ Save(r, [mem[r] EXCEPT !.verdict = "none"])
  /\ Goes(r, "check")
  /\ UNCHANGED <<git, item, promoter, judged, crashes>>

-----------------------------------------------------------------------------
(* Completing and cleaning up (activeRun.finish, completeIntegrated).      *)

SettledStatus(r) == IF r \in Evidence THEN "open" ELSE "closed"

CloseItem(r) ==
  /\ pc[r] = "complete"
  /\ SetItem(r, SettledStatus(r))
  /\ Goes(r, "closed")
  /\ UNCHANGED <<rec, mem, git, promoter, judged, crashes>>

CompleteFails(r) ==
  /\ pc[r] \in {"complete", "closed"}
  /\ Fail(r, FALSE)

SaveSucceeded(r) ==
  /\ pc[r] = "closed"
  /\ Save(r, [mem[r] EXCEPT !.status = "succeeded", !.phase = "cleaning_up",
                            !.provStop = FALSE])
  /\ Goes(r, "clean")
  /\ UNCHANGED <<git, item, promoter, judged, crashes>>

\* Manager.CleanupIntegrated removes nothing the target does not contain.
CleanUp(r) ==
  /\ pc[r] = "clean" /\ Contained(r)
  /\ standing' = standing \ {r}
  /\ Goes(r, "cleaned")
  /\ UNCHANGED <<rec, mem, branch, edits, target, item, promoter, judged, crashes>>

CleanUpFails(r) ==
  /\ pc[r] = "clean"
  /\ Goes(r, "idle")
  /\ UNCHANGED <<rec, mem, git, item, promoter, judged, crashes>>

SaveComplete(r) ==
  /\ pc[r] = "cleaned"
  /\ Save(r, [mem[r] EXCEPT !.phase = "complete"])
  /\ Goes(r, "idle")
  /\ UNCHANGED <<git, item, promoter, judged, crashes>>

-----------------------------------------------------------------------------
(* Picking a stopped run up again.  A triage action edits the record under *)
(* the lease, releases it, and hands the run to a pipeline that adopts it  *)
(* again: in between, at "handoff", anybody may adopt it.                  *)

Adoptable(r) == pc[r] \in {"idle", "handoff"}

\* Pipeline.resumeRun of a repair loop, or of a provider stopped on time.
Resume(r) ==
  /\ Adoptable(r) /\ item[r] = "in_progress"
  /\ StoppedProvider(rec[r]) \/ ResumableRepair(rec[r])
  /\ Goes(r, IF ResumesAChange(rec[r]) /\ ~HoldsChange(r, rec[r]) THEN "block"
             ELSE IF rec[r].phase = "developing" THEN "develop" ELSE "check")
  /\ UNCHANGED <<rec, mem, git, item, promoter, judged, crashes>>

ContinueIntegration(r) ==
  /\ pc[r] = "handoff" /\ item[r] = "in_progress" /\ ResumableIntegration(rec[r])
  /\ Goes(r, IF HoldsChange(r, rec[r]) THEN "integrate" ELSE "block")
  /\ UNCHANGED <<rec, mem, git, item, promoter, judged, crashes>>

HandoffFails(r) ==
  /\ pc[r] = "handoff"
  /\ Goes(r, "idle")
  /\ UNCHANGED <<rec, mem, git, item, promoter, judged, crashes>>

Continuable(r) ==
  /\ pc[r] = "idle" /\ rec[r].status = "failed" /\ rec[r].session
  /\ HoldsChange(r, rec[r])
  /\ item[r] \in {"open", "in_progress", "blocked"}

\* RepairContinuer.Continue; runs whose repair was granted start at "handoff".
GrantRepair(r) ==
  /\ Continuable(r) /\ ~rec[r].stop /\ HandedBack(rec[r])
  /\ rec[r].granted < MaxGrants
  /\ SetItem(r, "in_progress")
  /\ Goes(r, "grant")
  /\ UNCHANGED <<rec, mem, git, promoter, judged, crashes>>

SaveGrant(r) ==
  /\ pc[r] = "grant"
  /\ Save(r, [mem[r] EXCEPT !.status = "running", !.phase = "developing",
                            !.repairs = @ + 1, !.granted = @ + 1])
  /\ Goes(r, "handoff")
  /\ UNCHANGED <<git, item, promoter, judged, crashes>>

\* IntegrationResumer.Resume.
ResumeIntegration(r) ==
  /\ Continuable(r) /\ rec[r].stop /\ AwaitsIntegration(rec[r])
  /\ rec[r].resumed < MaxResumptions
  /\ SetItem(r, "in_progress")
  /\ Goes(r, "reopen")
  /\ UNCHANGED <<rec, mem, git, promoter, judged, crashes>>

SaveResumption(r) ==
  /\ pc[r] = "reopen"
  /\ Save(r, [mem[r] EXCEPT !.status = "running", !.phase = "integrating",
                            !.stop = FALSE, !.resumed = @ + 1])
  /\ Goes(r, "handoff")
  /\ UNCHANGED <<git, item, promoter, judged, crashes>>

-----------------------------------------------------------------------------
(* The reconciler (Reconciler.settle): it adopts every run that still owes *)
(* a step, and finishes what was promoted or gives up what was not.        *)

Reconcilable(r) == Adoptable(r) /\ Outstanding(rec[r])

LeftAlone(m) == ResumableRepair(m) \/ StoppedProvider(m)

InterruptedLanding(r) == rec[r].phase = "integrating" /\ BranchIntegrated(r)

\* recoverIntegration: the record may support the promotion it finds.
SupportsLanding(m) == m.verdict = "approve" /\ ~m.failing

SettleLanded(r) ==
  /\ Reconcilable(r) /\ ~LeftAlone(rec[r]) /\ rec[r].landed
  /\ Goes(r, "finish")
  /\ UNCHANGED <<rec, mem, git, item, promoter, judged, crashes>>

RecoverLanding_AnyPhase(r) ==   \* mutant: containment alone is taken for a landing
  /\ Reconcilable(r) /\ ~LeftAlone(rec[r]) /\ ~rec[r].landed
  /\ r \in standing /\ Contained(r)
  /\ Note(r, [mem[r] EXCEPT !.landed = TRUE])
  /\ Goes(r, "finish")
  /\ UNCHANGED <<git, item, promoter, judged, crashes>>

RecoverLanding(r) ==
  /\ Reconcilable(r) /\ ~LeftAlone(rec[r]) /\ ~rec[r].landed
  /\ InterruptedLanding(r) /\ SupportsLanding(rec[r])
  /\ Note(r, [mem[r] EXCEPT !.landed = TRUE])
  /\ Goes(r, "finish")
  /\ UNCHANGED <<git, item, promoter, judged, crashes>>

\* A stopped provider is given up once nothing continued it for long enough.
Abandon(r) ==
  /\ Reconcilable(r)
  /\ \/ StoppedProvider(rec[r])
     \/ /\ ~LeftAlone(rec[r]) /\ ~rec[r].landed
        /\ ~(InterruptedLanding(r) /\ SupportsLanding(rec[r]))
  /\ IF item[r] = "in_progress" \/ r \in standing
       THEN SetItem(r, "blocked") ELSE UNCHANGED item
  /\ Goes(r, "abandoned")
  /\ UNCHANGED <<rec, mem, git, promoter, judged, crashes>>

SaveAbandoned(r) ==
  /\ pc[r] = "abandoned"
  /\ Save(r, [mem[r] EXCEPT !.status = "failed", !.provStop = FALSE])
  /\ Goes(r, "idle")
  /\ UNCHANGED <<git, item, promoter, judged, crashes>>

FinishLanded(r) ==
  /\ pc[r] = "finish"
  /\ SetItem(r, IF item[r] = "closed" THEN "closed" ELSE SettledStatus(r))
  /\ Goes(r, "settled")
  /\ UNCHANGED <<rec, mem, git, promoter, judged, crashes>>

SaveSettled(r) ==
  /\ pc[r] = "settled"
  /\ Save(r, [mem[r] EXCEPT !.status = IF Terminal(mem[r]) THEN @ ELSE "succeeded",
                            !.phase = "cleaning_up"])
  /\ Goes(r, "clean")
  /\ UNCHANGED <<git, item, promoter, judged, crashes>>

\* The tracker refused the write: the next sweep finds the run as it was.
Unsettled(r) ==
  /\ pc[r] = "finish"
  /\ Note(r, rec[r])
  /\ Goes(r, "idle")
  /\ UNCHANGED <<git, item, promoter, judged, crashes>>

-----------------------------------------------------------------------------
(* Everything else that happens to the product.                            *)

Crash(r) ==
  /\ pc[r] # "idle" /\ crashes < MaxCrashes
  /\ crashes' = crashes + 1
  /\ Note(r, rec[r])
  /\ Goes(r, "idle")
  /\ GivesUpTurn(r)
  /\ UNCHANGED <<git, item, judged>>

CommitElsewhere ==
  /\ Cardinality({p \in DOMAIN target : target[p].by = External}) < MaxExternal
  /\ target' = Append(target, [by |-> External, edit |-> 0])
  /\ UNCHANGED <<rec, mem, pc, branch, standing, edits, item, promoter, judged, crashes>>

\* A step of the process that hosts the run.
HostStep(r) ==
  \/ Claim(r) \/ CreateWorktree(r) \/ Launch(r) \/ StartFails(r)
  \/ Develop(r) \/ RecordDevelopment(r) \/ ProviderStops(r) \/ DevelopFails(r)
  \/ BeginChecks(r) \/ ChecksPass(r) \/ ChecksRefuse(r) \/ ChecksError(r)
  \/ BeginReview(r) \/ Approve(r) \/ RequestRepair(r) \/ ReviewFails(r)
  \/ StopOnBudget(r) \/ ChargeReplay(r) \/ Repair(r) \/ Block(r) \/ EndBlocked(r)
  \/ HoldFails(r) \/ SaveIntegrating(r) \/ TakeTurn(r) \/ TurnFails(r)
  \/ RemoteRefuses(r) \/ TargetDiverges(r) \/ PromotionRefused(r)
  \/ PrimaryNotReady(r) \/ TargetDrifted(r) \/ MoveTarget(r)
  \/ ConfirmMove(r) \/ ConfirmFails(r) \/ PublishDiverges(r) \/ RecordIntegration(r)
  \/ SaveRetry(r) \/ Rebase(r) \/ RebaseConflicts(r) \/ RebaseFails(r)
  \/ RecordRebase(r) \/ RepublishFails(r) \/ ClearVerdict(r)
  \/ CloseItem(r) \/ CompleteFails(r) \/ SaveSucceeded(r)
  \/ CleanUp(r) \/ CleanUpFails(r) \/ SaveComplete(r)
  \/ SaveGrant(r) \/ SaveResumption(r) \/ ContinueIntegration(r) \/ HandoffFails(r)
  \/ SaveAbandoned(r) \/ FinishLanded(r) \/ SaveSettled(r) \/ Unsettled(r)

Reconcile(r) == SettleLanded(r) \/ RecoverLanding(r) \/ Abandon(r)

PickUp(r) == Dispatch(r) \/ Resume(r) \/ GrantRepair(r) \/ ResumeIntegration(r)

Next ==
  \/ \E r \in Run : HostStep(r) \/ Reconcile(r) \/ PickUp(r) \/ Crash(r)
  \/ CommitElsewhere

Spec == Init /\ [][Next]_vars

\* A process that is not killed takes its next step, and sweeps recur; the
\* tracker and git do not refuse the writes of every sweep.  Nobody has to
\* dispatch, continue or resume anything.
Fairness ==
  \A r \in Run :
    /\ WF_vars(HostStep(r)) /\ WF_vars(Reconcile(r))
    /\ SF_vars(FinishLanded(r)) /\ SF_vars(CleanUp(r))

FairSpec == Spec /\ Fairness

-----------------------------------------------------------------------------
(* Properties.                                                             *)

Steps ==
  {"idle", "claim", "create", "launch", "develop", "account", "check", "checks",
   "review", "verdict", "decide", "block", "blocked", "integrate", "turn",
   "promote", "confirm", "publish", "retry", "rebase", "record", "republish",
   "complete", "closed", "clean", "cleaned", "grant", "reopen", "handoff",
   "finish", "settled", "abandoned"}

Version == [base : Nat, edit : Nat]

\* Every variable has its type: records, program counters and git state.
TypeOK ==
  /\ rec \in [Run -> Record]
  /\ mem \in [Run -> Record]
  /\ pc \in [Run -> Steps]
  /\ branch \in [Run -> Version]
  /\ standing \subseteq Run
  /\ edits \in [Run -> Nat]
  /\ target \in Seq([by : Run \cup {External}, edit : Nat])
  /\ item \in [Run -> {"open", "in_progress", "blocked", "closed"}]
  /\ promoter \in Run \cup {Nobody}
  /\ checked \in [Run -> SUBSET Version]
  /\ approved \in [Run -> SUBSET Version]
  /\ crashes \in Nat

\* What a run put on the target passed the checks and was approved in exactly
\* that form, on exactly that base: an approval never carries over a replay
\* (docs/work.md, prepareIntegrationRetry).
NothingLandsUnjudged ==
  \A p \in DOMAIN target : target[p].by \in Run =>
    [base |-> p - 1, edit |-> target[p].edit] \in checked[target[p].by] \cap approved[target[p].by]

\* Whatever is published or fails to be, an edit that reaches the target was
\* checked and approved on some base: repairs are never promoted unjudged.
LandsApprovedEdit ==
  \A p \in DOMAIN target : target[p].by \in Run =>
    \E v \in checked[target[p].by] \cap approved[target[p].by] : v.edit = target[p].edit

\* A promotion repeated after contention, a crash or a resumption never puts
\* one edit on the target twice.
LandsOnce ==
  \A p, q \in DOMAIN target :
    target[p].by \in Run /\ target[p] = target[q] => p = q

\* A record says integrated only of the very version it records, and that
\* version is on the target; an item is closed only for a run that landed.
ClosedMeansLanded ==
  \A r \in Run :
    rec[r].landed \/ item[r] = "closed" => InTarget(r, VersionOf(rec[r]))

\* While a process reads the target back after moving it, only somebody outside
\* the harness can have moved it on: the promotion lease keeps other runs off.
TurnExcludesRuns ==
  \A r \in Run : pc[r] = "confirm" =>
    \A p \in DOMAIN target : p > mem[r].base + 1 => target[p].by = External

\* A repair attempt is on the record before the developer is asked to make it,
\* so a process killed in an attempt cannot get it for nothing.
ChargedBeforeSpent ==
  \A r \in Run : pc[r] \in {"develop", "account"} =>
    rec[r].repairs = mem[r].repairs /\ rec[r].phase = "developing"

\* While a run still owes a step and its branch is on the target unrecorded,
\* its record lets the reconciler recover the promotion: the phase was saved
\* before the ref moved, and the approval stands.
LandingRecoverable ==
  \A r \in Run :
    InTarget(r, branch[r]) /\ ~rec[r].landed /\ rec[r].status = "running" =>
      rec[r].phase = "integrating" /\ SupportsLanding(rec[r])

\* Delivery implements the landing of module Landing.
Abstract == INSTANCE Landing WITH
  candidate <- branch,
  passed <- [r \in Run |-> checked[r] \cap approved[r]],
  settled <- {r \in Run : item[r] = "closed"}

ImplementsLanding == Abstract!Spec

\* A promotion that is recorded, or that a killed process left unrecorded on
\* the target, is completed: the item is settled and the record complete.
PromotionCompletes ==
  \A r \in Run :
    (rec[r].landed \/ (pc[r] = "idle" /\ rec[r].status = "running"
                        /\ InterruptedLanding(r) /\ SupportsLanding(rec[r])))
      ~> (rec[r].phase = "complete" /\ item[r] = SettledStatus(r))

\* Every run that was started ends, or is left where it can be continued.
EndsOrWaits ==
  \A r \in Run :
    rec[r].status \in {"pending", "running"}
      ~> (Terminal(rec[r]) \/ (pc[r] = "idle" /\ LeftAlone(rec[r])))

=============================================================================
