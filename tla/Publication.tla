----------------------------- MODULE Publication -----------------------------
(***************************************************************************)
(* Landing one approved change through its pull request, on a target the   *)
(* forge protects (internal/orchestrator: publish, reconcile,              *)
(* queuedchecks, publication, rearm).  The run asks the forge to merge; the*)
(* forge merges at once, queues the merge, refuses it or loses the answer; *)
(* and whatever is left is settled later by sweeps of the reconciler and   *)
(* by re-arms that triage decided on.                                      *)
(*                                                                         *)
(* One run, at most one holder of its lease at a time (module RunStore),   *)
(* so one program counter: "idle" is the lease nobody holds.  rec is the   *)
(* run's durable record and mem the holder's copy of it.  The forge, and a *)
(* person in front of it, act whenever they like.                          *)
(*                                                                         *)
(* remote is the target branch at the forge: version numbers of this run's *)
(* change, 0 for somebody else's commit.  local is how much of it the      *)
(* local target has caught up with; nothing is promoted locally here.  A   *)
(* head of number 0 carries no change: replayed, it was on the target.     *)
(***************************************************************************)
EXTENDS Integers, Sequences, FiniteSets

CONSTANTS
  Rearmer,          \* processes that may carry out a decided re-arm
  MaxResumptions,   \* runstate.MaxIntegrationResumptions
  MaxVersions,      \* bound: versions of the change
  MaxExternal,      \* bound: commits by somebody else
  MaxDecisions,     \* bound: re-arms triage decides on
  MaxLost,          \* bound: answers of the forge to a merge that are lost
  MaxCrashes        \* bound: killed processes

ASSUME PublicationAssumption ==
  {MaxResumptions, MaxVersions, MaxExternal, MaxDecisions, MaxLost, MaxCrashes}
    \subseteq Nat

VARIABLES
  rec, mem, pc,     \* the record, the lease holder's copy, the holder's step
  item,             \* the status of the run's work item
  forge,            \* the pull request as the forge has it
  remote, local,    \* the target at the forge, and what is caught up of it
  approved,         \* history: versions an independent review approved
  versions,         \* how many versions of the change were made
  decided,          \* re-arms of this publication that triage recorded
  checking,         \* the re-arms that each re-arming process saw made, or -1
  repeats,          \* history: merge requests that were repeated
  lost, crashes

git == <<forge, remote, local, approved, versions>>
triage == <<decided, checking, repeats>>
bounds == <<lost, crashes>>
vars == <<rec, mem, pc, item, git, triage, bounds>>

-----------------------------------------------------------------------------
(* The record and the request. *)

Version == [base : Nat, number : Nat]
NoVersion == [base |-> 0, number |-> 0]

Record ==
  [status : {"running", "succeeded", "failed"},
   phase : {"integrating", "completing", "cleaning_up", "complete"},
   approved : BOOLEAN,      \* the standing review verdict
   head : Version,          \* the harness commit on its base
   landed : Version,        \* Integration.SourceCommit, through the request
   request : BOOLEAN,       \* the pull request is recorded ...
   prHead : Version,        \* ... as carrying this head
   method : BOOLEAN,        \* ... with the merge method that was asked for
   queued : BOOLEAN, merged : BOOLEAN, confirmed : BOOLEAN,
   rearms : Nat,
   failure : {"none", "lost", "outstanding"},
   drop : BOOLEAN, blocker : BOOLEAN,
   resumed : Nat]

Terminal(m) == m.status # "running"
Landing(m) == m.landed # NoVersion

\* State.Outstanding, for a landing through the pull request.
Outstanding_NotMerged(m) ==     \* mutant: a merge found later is nobody's step
  ~Terminal(m) \/ (Landing(m) /\ m.queued)

Outstanding(m) ==
  ~Terminal(m) \/ (Landing(m) /\ (m.queued \/ (m.merged /\ m.phase # "complete")))

\* unconfirmedLanding.
Unconfirmed(m) == Landing(m) /\ ~m.merged /\ ~m.queued

\* updatingQueuedHead: put back at its promotion to be brought up to date.
UpdatingQueuedHead(m) ==
  m.status = "running" /\ m.phase = "integrating" /\ m.approved
    /\ ~Landing(m) /\ m.resumed > 0

\* VerifyRemoteTarget: the remote has nothing the change was not written on.
RemoteStandsAt(v) == Len(remote) = v.base

\* ConfirmRemoteTarget and the containment CleanupIntegrated asks for.
OnRemote(v, upTo) == \E p \in 1 .. upTo : remote[p] = v.number

NewVersion(base) == [base |-> base, number |-> versions + 1]

\* The run comes out of its review; its request was recorded, or lost.
Init ==
  \E recorded \in BOOLEAN :
    LET first == [base |-> 0, number |-> 1]
        start == [status |-> "running", phase |-> "integrating", approved |-> TRUE,
                  head |-> first, landed |-> NoVersion, request |-> recorded,
                  prHead |-> IF recorded THEN first ELSE NoVersion,
                  method |-> FALSE, queued |-> FALSE, merged |-> FALSE,
                  confirmed |-> FALSE, rearms |-> 0, failure |-> "none",
                  drop |-> FALSE, blocker |-> FALSE, resumed |-> 0]
    IN /\ rec = start /\ mem = start /\ pc = "turn"
       /\ item = "in_progress"
       /\ forge = [state |-> "open", head |-> first, auto |-> FALSE]
       /\ remote = <<>> /\ local = 0
       /\ approved = {1} /\ versions = 1
       /\ decided = 0 /\ checking = [k \in Rearmer |-> -1] /\ repeats = 0
       /\ lost = 0 /\ crashes = 0

Save(m) == rec' = m /\ mem' = m
Note(m) == mem' = m /\ UNCHANGED rec
Goes(step) == pc' = step

Arms == forge' = [forge EXCEPT !.auto = TRUE] /\ UNCHANGED <<remote, local>>
Merges ==
  /\ forge' = [forge EXCEPT !.state = "merged", !.auto = FALSE]
  /\ remote' = Append(remote, forge.head.number)
  /\ UNCHANGED local

\* The forge takes a merge of exactly the head it was asked for, while open.
Takes(head) == forge.state = "open" /\ forge.head = head

\* The local target is caught up, or held by what stands in its way.
CatchesUp == local' = Len(remote)
MayCatchUp == local' \in {local, Len(remote)}

-----------------------------------------------------------------------------
(* The run's own landing (activeRun.integrate, publishIntegration). *)

\* settleRemoteTarget.
SettleRemoteTarget ==
  /\ pc = "turn"
  /\ IF RemoteStandsAt(mem.head) THEN UNCHANGED local ELSE CatchesUp
  /\ Goes("prepare")
  /\ UNCHANGED <<rec, mem, item, forge, remote, approved, versions, triage, bounds>>

\* The catch-up is held, and the run hands itself back.
TargetHeld ==
  /\ pc = "turn" /\ ~RemoteStandsAt(mem.head)
  /\ Goes("block")
  /\ UNCHANGED <<rec, mem, item, git, triage, bounds>>

\* The remote, git or the store fails before anything is asked of the forge.
IntegrateFails ==
  /\ pc \in {"turn", "prepare", "record"}
  /\ Goes("fail")
  /\ UNCHANGED <<rec, mem, item, git, triage, bounds>>

TargetDrifted ==
  /\ pc = "prepare" /\ local # mem.head.base
  /\ Goes("retry")
  /\ UNCHANGED <<rec, mem, item, git, triage, bounds>>

\* PrepareLanding commits whatever is left in the worktree, reviewed or not.
PrepareLanding ==
  /\ pc = "prepare" /\ local = mem.head.base
  /\ \/ /\ mem.head.number # 0       \* nothing to land is refused
        /\ Note([mem EXCEPT !.landed = mem.head])
        /\ UNCHANGED versions
     \/ /\ versions < MaxVersions
        /\ Note([mem EXCEPT !.landed = NewVersion(mem.head.base)])
        /\ versions' = versions + 1
  /\ Goes("record")
  /\ UNCHANGED <<item, forge, remote, local, approved, triage, bounds>>

RecordLanding ==
  /\ pc = "record"
  /\ Save(mem)
  /\ Goes("verify")
  /\ UNCHANGED <<item, git, triage, bounds>>

NothingPublished ==
  /\ pc = "verify" /\ ~mem.request
  /\ Save([mem EXCEPT !.failure = "lost"])
  /\ Goes("block")
  /\ UNCHANGED <<item, git, triage, bounds>>

Dropped(m) == [m EXCEPT !.failure = "outstanding", !.drop = TRUE]

\* The published branch is not what was integrated, or the remote target
\* could not be read: nothing is asked of the forge.
NotAsked ==
  /\ pc = "verify" /\ mem.request
  /\ Save(Dropped(mem))
  /\ Goes("block")
  /\ UNCHANGED <<item, git, triage, bounds>>

VerifyRemoteTarget_AnyHead ==   \* mutant: the published head is not compared
  /\ pc = "verify" /\ mem.request
  /\ RemoteStandsAt(mem.landed)
  /\ Goes("ask")
  /\ UNCHANGED <<rec, mem, item, git, triage, bounds>>

VerifyRemoteTarget ==
  /\ pc = "verify" /\ mem.request /\ mem.prHead = mem.landed
  /\ RemoteStandsAt(mem.landed)
  /\ Goes("ask")
  /\ UNCHANGED <<rec, mem, item, git, triage, bounds>>

\* replayUnlandedChange: the landing is withdrawn and the change replayed.
ReplayUnlanded ==
  /\ pc = "verify" /\ mem.request /\ mem.prHead = mem.landed
  /\ ~RemoteStandsAt(mem.landed)
  /\ Note([mem EXCEPT !.landed = NoVersion])
  /\ \/ CatchesUp /\ Goes("retry")
     \/ UNCHANGED local /\ pc' \in {"block", "fail"}
  /\ UNCHANGED <<item, forge, remote, approved, versions, triage, bounds>>

AskQueues ==
  /\ pc = "ask" /\ Takes(mem.prHead)
  /\ Arms
  /\ Note([mem EXCEPT !.queued = TRUE, !.method = TRUE])
  /\ Goes("queued")
  /\ UNCHANGED <<item, approved, versions, triage, bounds>>

AskMerges ==
  /\ pc = "ask" /\ Takes(mem.prHead)
  /\ Merges
  /\ Goes("await")
  /\ UNCHANGED <<rec, mem, item, approved, versions, triage, bounds>>

AskRefused ==
  /\ pc = "ask"
  /\ Save(Dropped(mem))
  /\ Goes("block")
  /\ UNCHANGED <<item, git, triage, bounds>>

\* The merge was queued or made and the answer lost: a recoverable failure,
\* which is retried from the verification on.
AskLost ==
  /\ pc = "ask" /\ Takes(mem.prHead) /\ lost < MaxLost
  /\ Arms \/ Merges
  /\ lost' = lost + 1
  /\ Goes("verify")
  /\ UNCHANGED <<rec, mem, item, approved, versions, triage, crashes>>

SaveQueued ==
  /\ pc = "queued"
  /\ Save(mem)
  /\ Goes("completing")
  /\ UNCHANGED <<item, git, triage, bounds>>

\* awaitMerge: the forge says so, cannot be read, or has not caught up with
\* itself within the harness's three waits.
MergeAnswered ==
  /\ pc = "await" /\ forge.state = "merged"
  /\ Note([mem EXCEPT !.merged = TRUE, !.method = TRUE])
  /\ Goes("confirm")
  /\ UNCHANGED <<item, git, triage, bounds>>

MergeUnread ==
  /\ pc = "await"
  /\ Save([mem EXCEPT !.failure = "outstanding"])
  /\ Goes("block")
  /\ UNCHANGED <<item, git, triage, bounds>>

MergeNotReported ==
  /\ pc = "await"
  /\ Save([Dropped(mem) EXCEPT !.method = TRUE])
  /\ Goes("block")
  /\ UNCHANGED <<item, git, triage, bounds>>

ConfirmMerge ==
  /\ pc = "confirm" /\ OnRemote(mem.landed, Len(remote))
  /\ Note([mem EXCEPT !.confirmed = TRUE])
  /\ MayCatchUp
  /\ Goes("delete")
  /\ UNCHANGED <<item, forge, remote, approved, versions, triage, bounds>>

\* The confirmation or the deletion of the consumed branch fails, and
\* recordPublishFailure saves what is left of the publication.
PublishingFails ==
  /\ pc \in {"confirm", "delete"}
  /\ Save([mem EXCEPT !.failure = "outstanding"])
  /\ Goes("completing")
  /\ UNCHANGED <<item, git, triage, bounds>>

DeleteBranch ==
  /\ pc = "delete"
  /\ Save(mem)
  /\ Goes("completing")
  /\ UNCHANGED <<item, git, triage, bounds>>

SaveCompleting ==
  /\ pc = "completing"
  /\ Save([mem EXCEPT !.phase = "completing"])
  /\ Goes("complete")
  /\ UNCHANGED <<item, git, triage, bounds>>

-----------------------------------------------------------------------------
(* Completion, handing back, and the replay. *)

\* activeRun.complete: the item of a queued merge is left in progress.
CompleteItem_Queued ==          \* mutant: an item is closed on a queued merge
  /\ pc = "complete"
  /\ item' = "closed"
  /\ Goes("succeeded")
  /\ UNCHANGED <<rec, mem, git, triage, bounds>>

CompleteItem ==
  /\ pc = "complete"
  /\ item' = IF mem.queued THEN item ELSE "closed"
  /\ Goes("succeeded")
  /\ UNCHANGED <<rec, mem, git, triage, bounds>>

CompleteFails ==
  /\ pc \in {"complete", "succeeded"}
  /\ Save([mem EXCEPT !.status = "failed"])
  /\ Goes("idle")
  /\ UNCHANGED <<item, git, triage, bounds>>

SaveSucceeded ==
  /\ pc = "succeeded"
  /\ Save([mem EXCEPT !.status = "succeeded", !.phase = "cleaning_up"])
  /\ Goes(IF mem.queued THEN "idle" ELSE "clean")
  /\ UNCHANGED <<item, git, triage, bounds>>

CleanUp ==
  /\ pc = "clean" /\ OnRemote(mem.landed, local)
  /\ Save([mem EXCEPT !.phase = "complete"])
  /\ Goes("idle")
  /\ UNCHANGED <<item, git, triage, bounds>>

CleanUpFails ==
  /\ pc = "clean"
  /\ Goes("idle")
  /\ UNCHANGED <<rec, mem, item, git, triage, bounds>>

\* blockOnUnlandedPullRequest and the other hand-backs, then activeRun.fail.
Block ==
  /\ pc = "block"
  /\ item' = "blocked"
  /\ Note([mem EXCEPT !.blocker = TRUE])
  /\ Goes("fail")
  /\ UNCHANGED <<git, triage, bounds>>

BlockFails ==
  /\ pc = "block"
  /\ Goes("fail")
  /\ UNCHANGED <<rec, mem, item, git, triage, bounds>>

FailRun ==
  /\ pc = "fail"
  /\ Save([mem EXCEPT !.status = "failed"])
  /\ Goes("idle")
  /\ UNCHANGED <<item, git, triage, bounds>>

\* prepareIntegrationRetry counts the replay before it rewrites anything.
SaveRetry ==
  /\ pc = "retry"
  /\ Save(mem)
  /\ Goes("rebase")
  /\ UNCHANGED <<item, git, triage, bounds>>

\* A version of this change is on the target the replay starts from: git drops
\* what is there already.
AlreadyOnTarget == \E p \in 1 .. local : remote[p] # 0

\* RebaseOntoTarget and recordRebase: the change on its new base, nothing where
\* all of it was there already, or a conflict.
Rebase ==
  /\ pc = "rebase"
  /\ \/ /\ versions < MaxVersions
        /\ Save([mem EXCEPT !.head = NewVersion(local)])
        /\ versions' = versions + 1
        /\ Goes("republish")
     \/ /\ AlreadyOnTarget /\ mem.head.number # 0
        /\ Save([mem EXCEPT !.head = [base |-> local, number |-> 0]])
        /\ Goes("republish") /\ UNCHANGED versions
     \/ Goes("block") /\ UNCHANGED <<rec, mem, versions>>
  /\ UNCHANGED <<item, forge, remote, local, approved, triage, bounds>>

\* republishRebase: the head of an open request is replaced in place, from the
\* head the record knows and no other; a merge armed on it stays armed.
Republish ==
  /\ pc = "republish" /\ mem.request
  /\ forge.state = "open" => forge.head = mem.prHead
  /\ forge' = IF forge.state = "open" THEN [forge EXCEPT !.head = mem.head] ELSE forge
  /\ Goes("republished")
  /\ UNCHANGED <<rec, mem, item, remote, local, approved, versions, triage, bounds>>

SaveRepublished ==
  /\ pc = "republished"
  /\ Save([mem EXCEPT !.prHead = mem.head])
  /\ Goes("clear")
  /\ UNCHANGED <<item, git, triage, bounds>>

NothingToRepublish ==
  /\ pc = "republish" /\ ~mem.request
  /\ Goes("clear")
  /\ UNCHANGED <<rec, mem, item, git, triage, bounds>>

ReplayFails ==
  /\ pc \in {"rebase", "republish", "republished"}
  /\ Goes("fail")
  /\ UNCHANGED <<rec, mem, item, git, triage, bounds>>

ClearVerdict ==
  /\ pc = "clear"
  /\ Save([mem EXCEPT !.approved = FALSE])
  /\ Goes("gate")
  /\ UNCHANGED <<item, git, triage, bounds>>

\* The gate on the replayed change (module Delivery), in one step: approved
\* and back at the promotion, or handed back.
Gate ==
  /\ pc = "gate"
  /\ \/ /\ approved' = approved \cup {mem.head.number}
        /\ Save([mem EXCEPT !.approved = TRUE])
        /\ Goes("turn")
     \/ Goes("block") /\ UNCHANGED <<rec, mem, approved>>
  /\ UNCHANGED <<item, forge, remote, local, versions, triage, bounds>>

-----------------------------------------------------------------------------
(* The reconciler's sweep over a run that owes a step (Reconciler.settle).   *)

Sweeps == pc = "idle" /\ Outstanding(rec)

\* Nothing promises that an interrupted run can go on by itself: its item is
\* handed back (abandonFor, blockRun).  Module Delivery has the runs that can.
Abandon ==
  /\ Sweeps /\ ~Landing(rec) /\ ~UpdatingQueuedHead(rec)
  /\ Goes("handBack")
  /\ UNCHANGED <<rec, mem, item, git, triage, bounds>>

\* settleQueuedMerge asks the forge what became of the merge.
QueuedMerged ==
  /\ Sweeps /\ rec.queued /\ Landing(rec) /\ forge.state = "merged"
  /\ \/ /\ OnRemote(rec.landed, Len(remote))
        /\ Note([rec EXCEPT !.queued = FALSE, !.merged = TRUE, !.confirmed = TRUE])
        /\ MayCatchUp
     \/ /\ Note([rec EXCEPT !.queued = FALSE, !.merged = TRUE, !.failure = "outstanding"])
        /\ UNCHANGED local
  /\ Goes("settle")
  /\ UNCHANGED <<item, forge, remote, approved, versions, triage, bounds>>

QueuedDropped ==
  /\ Sweeps /\ rec.queued /\ Landing(rec) /\ forge.state = "open" /\ ~forge.auto
  /\ Note([Dropped(rec) EXCEPT !.queued = FALSE])
  /\ Goes("handBack")
  /\ UNCHANGED <<item, git, triage, bounds>>

StillQueued == Sweeps /\ rec.queued /\ Landing(rec) /\ forge.state = "open" /\ forge.auto

Withdraw == forge' = [forge EXCEPT !.auto = FALSE] /\ UNCHANGED <<remote, local>>

\* handBackRedMerge: the checks are red on this change, or on nothing that
\* bringing it up to date would change.  Withdrawing a merge that has landed
\* is refused by the forge, and the sweep leaves the run unsettled.
HandBackRed ==
  /\ StillQueued
  /\ Withdraw
  /\ Note([Dropped(rec) EXCEPT !.queued = FALSE])
  /\ Goes("handBack")
  /\ UNCHANGED <<item, approved, versions, triage, bounds>>

\* updateQueuedHead: the head is behind and red on files the change does not
\* touch.  The merge is withdrawn before the run is put back.
UpdateQueuedHead_StillArmed ==  \* mutant: the armed merge is left where it is
  /\ StillQueued /\ ~RemoteStandsAt(forge.head)
  /\ rec.approved /\ rec.resumed < MaxResumptions
  /\ Goes("update")
  /\ UNCHANGED <<rec, mem, item, git, triage, bounds>>

UpdateQueuedHead ==
  /\ StillQueued /\ ~RemoteStandsAt(forge.head)
  /\ rec.approved /\ rec.resumed < MaxResumptions
  /\ Withdraw
  /\ Goes("update")
  /\ UNCHANGED <<rec, mem, item, approved, versions, triage, bounds>>

SaveUpdate ==
  /\ pc = "update"
  /\ Save([mem EXCEPT !.status = "running", !.phase = "integrating",
                      !.landed = NoVersion, !.queued = FALSE, !.failure = "none",
                      !.blocker = FALSE, !.resumed = @ + 1])
  /\ Goes("idle")
  /\ UNCHANGED <<item, git, triage, bounds>>

\* ContinueUpdates hosts it, through the pipeline's own resumption, which
\* takes only a claimed item.
ContinueUpdate ==
  /\ pc = "idle" /\ UpdatingQueuedHead(rec) /\ item = "in_progress"
  /\ Goes("turn")
  /\ UNCHANGED <<rec, mem, item, git, triage, bounds>>

\* settleDroppedMerge and blockRun: the item is blocked, then the record says
\* so; a status that is terminal already is kept (saveTerminalFailure).
HandBack ==
  /\ pc = "handBack"
  /\ item' = "blocked"
  /\ Goes("handedBack")
  /\ UNCHANGED <<rec, mem, git, triage, bounds>>

SaveHandedBack ==
  /\ pc = "handedBack"
  /\ Save([mem EXCEPT !.blocker = TRUE,
                      !.status = IF Terminal(mem) THEN @ ELSE "failed"])
  /\ Goes("idle")
  /\ UNCHANGED <<item, git, triage, bounds>>

\* closeSettledMerge, then the branch the merge consumed.
CloseSettled ==
  /\ pc = "settle"
  /\ item' = "closed"
  /\ Goes(IF mem.failure = "none" THEN "leftover" ELSE "finish")
  /\ UNCHANGED <<rec, mem, git, triage, bounds>>

DeleteLeftover ==
  /\ pc = "leftover"
  /\ \/ UNCHANGED <<rec, mem>>
     \/ Save([mem EXCEPT !.failure = "outstanding"])
  /\ Goes("finish")
  /\ UNCHANGED <<item, git, triage, bounds>>

\* settleInterruptedLanding asks the forge by branch.
Interrupted == Sweeps /\ Unconfirmed(rec)

Known(m) ==
  [m EXCEPT !.request = TRUE, !.prHead = IF m.request THEN @ ELSE m.landed]

InterruptedMerged ==
  /\ Interrupted /\ forge.state = "merged"
  /\ \/ /\ OnRemote(rec.landed, Len(remote))
        /\ \E left \in {rec.failure, "outstanding"} :
             Note([Known(rec) EXCEPT !.merged = TRUE, !.confirmed = TRUE, !.failure = left])
        /\ MayCatchUp
     \/ /\ Note([Known(rec) EXCEPT !.merged = TRUE, !.failure = "outstanding"])
        /\ UNCHANGED local
  /\ Goes("finish")
  /\ UNCHANGED <<item, forge, remote, approved, versions, triage, bounds>>

InterruptedQueued ==
  /\ Interrupted /\ forge.state = "open" /\ forge.auto
  /\ Save([Known(rec) EXCEPT !.queued = TRUE, !.status = "succeeded",
                             !.phase = "cleaning_up"])
  /\ UNCHANGED <<pc, item, git, triage, bounds>>

InterruptedUnlanded_Completed ==    \* mutant: an open request passes for a landing
  /\ Interrupted /\ forge.state = "open" /\ ~forge.auto
  /\ Note([Known(rec) EXCEPT !.failure = "outstanding"])
  /\ Goes("finish")
  /\ UNCHANGED <<item, git, triage, bounds>>

InterruptedUnlanded ==
  /\ Interrupted /\ forge.state = "open" /\ ~forge.auto
  /\ Note([Known(rec) EXCEPT !.failure = "outstanding"])
  /\ Goes("handBack")
  /\ UNCHANGED <<item, git, triage, bounds>>

\* completeIntegrated: the item, the record, then the artifacts.
Integrated ==
  /\ Sweeps /\ rec.merged /\ ~rec.queued /\ Landing(rec)
  /\ Goes("finish")
  /\ UNCHANGED <<rec, mem, item, git, triage, bounds>>

FinishItem ==
  /\ pc = "finish"
  /\ item' = "closed"
  /\ Goes("finished")
  /\ UNCHANGED <<rec, mem, git, triage, bounds>>

SaveFinished ==
  /\ pc = "finished"
  /\ Save([mem EXCEPT !.phase = "cleaning_up",
                      !.status = IF Terminal(mem) THEN @ ELSE "succeeded"])
  /\ Goes("clean")
  /\ UNCHANGED <<item, git, triage, bounds>>

-----------------------------------------------------------------------------
(* The rest of a sweep: publications of runs that owe no step.              *)

Settled == pc = "idle" /\ ~Outstanding(rec)

\* lostPublicationRecord.
LostRecord(m) == Landing(m) /\ ~m.request /\ m.approved /\ m.failure = "lost"

\* recoverPublication takes the forge's answer for the record it lost.
Recovered(m) == [m EXCEPT !.request = TRUE, !.prHead = forge.head]

RecoverRequest ==
  /\ Settled /\ LostRecord(rec)
  /\ \/ /\ forge.state = "merged"
        /\ Save([Recovered(rec) EXCEPT !.merged = TRUE, !.failure = "outstanding"])
     \/ /\ forge.state = "open" /\ forge.auto
        /\ Save([Recovered(rec) EXCEPT !.queued = TRUE, !.failure = "none"])
     \/ /\ forge.state = "open" /\ ~forge.auto
        /\ Save(Dropped(Recovered(rec)))
  /\ UNCHANGED <<pc, item, git, triage, bounds>>

\* armRecoveredMerge, up to the request to the forge.
ArmRecovered ==
  /\ Settled /\ LostRecord(rec)
  /\ forge.state = "open" /\ ~forge.auto
  /\ forge.head = rec.landed /\ RemoteStandsAt(rec.landed)
  /\ Note(Recovered(rec))
  /\ Goes("arm")
  /\ UNCHANGED <<item, git, triage, bounds>>

Armed(m) == [m EXCEPT !.queued = TRUE, !.method = TRUE, !.failure = "none"]

AskRecovered ==
  /\ pc = "arm"
  /\ \/ /\ Takes(mem.prHead) /\ (Arms \/ Merges)
        /\ Note(Armed(mem))
     \/ Note(Dropped(mem)) /\ UNCHANGED <<forge, remote, local>>
  /\ Goes("armed")
  /\ UNCHANGED <<item, approved, versions, triage, bounds>>

\* The record of what the forge was just asked for, here and after a re-arm.
SaveArmed ==
  /\ pc = "armed"
  /\ Save(mem)
  /\ Goes("idle")
  /\ UNCHANGED <<item, git, triage, bounds>>

\* refreshPublication: a merge somebody made since is recorded.
RefreshPublication ==
  /\ Settled /\ rec.request /\ ~rec.merged /\ forge.state = "merged"
  /\ Save([rec EXCEPT !.merged = TRUE, !.queued = FALSE])
  /\ UNCHANGED <<pc, item, git, triage, bounds>>

\* finishPublication of a merge that was recorded with something left to do:
\* a confirmed one is written down only once its branch is gone.
FinishPublication ==
  /\ Settled /\ rec.request /\ Landing(rec) /\ rec.merged /\ rec.failure # "none"
  /\ \/ rec.confirmed /\ UNCHANGED <<mem, local>>
     \/ /\ ~rec.confirmed /\ OnRemote(rec.landed, Len(remote))
        /\ mem' = [rec EXCEPT !.confirmed = TRUE]
        /\ MayCatchUp
  /\ Goes("settled")
  /\ UNCHANGED <<rec, item, forge, remote, approved, versions, triage, bounds>>

\* recordSettledPublication: a drop handed the item to a person, and this
\* takes it back.
HandedBack(m) == m.drop /\ m.blocker

SettleItem ==
  /\ pc = "settled"
  /\ item' = IF HandedBack(mem) THEN "closed" ELSE item
  /\ Goes("saveSettled")
  /\ UNCHANGED <<rec, mem, git, triage, bounds>>

SaveSettled ==
  /\ pc = "saveSettled"
  /\ LET done == [mem EXCEPT !.failure = "none",
                             !.blocker = @ /\ ~HandedBack(mem)]
     IN \/ Save(done) /\ Goes("idle")
        \/ ~rec.confirmed /\ Save(done) /\ Goes("consumed")
  /\ UNCHANGED <<item, git, triage, bounds>>

\* The consumed branch of a publication this sweep confirmed stays behind.
LeaveConsumedBranch ==
  /\ pc = "consumed"
  /\ Save([mem EXCEPT !.failure = "outstanding"])
  /\ Goes("idle")
  /\ UNCHANGED <<item, git, triage, bounds>>

\* Converge catches the local target up, in every sweep.
Converge ==
  /\ pc = "idle" /\ local # Len(remote)
  /\ CatchesUp
  /\ UNCHANGED <<rec, mem, pc, item, forge, remote, approved, versions, triage, bounds>>

-----------------------------------------------------------------------------
(* Re-arms: a dropped merge is asked for again on triage's decision.         *)

Untouched == rec.landed = rec.prHead /\ Landing(rec) /\ rec.request

\* Triage decides about a publication its docket carries as unfinished.
Decide ==
  /\ Terminal(rec) /\ Landing(rec) /\ rec.request /\ ~rec.merged /\ ~rec.queued
  /\ rec.failure # "none" /\ decided < MaxDecisions
  /\ decided' = decided + 1
  /\ UNCHANGED <<rec, mem, pc, item, git, checking, repeats, bounds>>

\* rearmablePublication, before and under the lease.
Rearmable == Untouched /\ ~rec.merged /\ rec.method

\* Rearm checks the record and the decision before it takes the lease ...
CheckRearm(k) ==
  /\ checking[k] = -1
  /\ Rearmable /\ Terminal(rec) /\ ~rec.queued
  /\ rec.rearms < decided
  /\ checking' = [checking EXCEPT ![k] = rec.rearms]
  /\ UNCHANGED <<rec, mem, pc, item, git, decided, repeats, bounds>>

\* ... and repeat checks it again, and the forge, under it.
BeginRearm_Unchecked(k) ==      \* mutant: what was checked is not compared
  /\ pc = "idle" /\ checking[k] # -1
  /\ Rearmable
  /\ Takes(rec.landed) /\ ~forge.auto /\ RemoteStandsAt(rec.landed)
  /\ checking' = [checking EXCEPT ![k] = -1]
  /\ Goes("charge")
  /\ UNCHANGED <<rec, mem, item, git, decided, repeats, bounds>>

BeginRearm(k) ==
  /\ pc = "idle" /\ checking[k] # -1
  /\ Rearmable /\ rec.rearms = checking[k]
  /\ Takes(rec.landed) /\ ~forge.auto /\ RemoteStandsAt(rec.landed)
  /\ checking' = [checking EXCEPT ![k] = -1]
  /\ Goes("charge")
  /\ UNCHANGED <<rec, mem, item, git, decided, repeats, bounds>>

\* Refused, or killed, before anything was spent.
RearmRefused(k) ==
  /\ checking[k] # -1
  /\ checking' = [checking EXCEPT ![k] = -1]
  /\ UNCHANGED <<rec, mem, pc, item, git, decided, repeats, bounds>>

ChargeRearm_Later ==            \* mutant: the re-arm is saved after the answer
  /\ pc = "charge"
  /\ Note([mem EXCEPT !.rearms = @ + 1])
  /\ Goes("repeat")
  /\ UNCHANGED <<item, git, triage, bounds>>

\* The re-arm is on the record before the forge is asked.
ChargeRearm ==
  /\ pc = "charge"
  /\ Save([mem EXCEPT !.rearms = @ + 1])
  /\ Goes("repeat")
  /\ UNCHANGED <<item, git, triage, bounds>>

RepeatMerge ==
  /\ pc = "repeat"
  /\ repeats' = repeats + 1
  /\ \/ /\ Takes(mem.prHead) /\ (Arms \/ Merges)
        /\ Note([mem EXCEPT !.queued = TRUE, !.failure = "none", !.blocker = FALSE])
        /\ Goes("armed") /\ UNCHANGED lost
     \/ Goes("idle") /\ UNCHANGED <<rec, mem, forge, remote, local, lost>>
     \/ /\ Takes(mem.prHead) /\ lost < MaxLost /\ (Arms \/ Merges)
        /\ lost' = lost + 1
        /\ Goes("idle") /\ UNCHANGED <<rec, mem>>
  /\ UNCHANGED <<item, approved, versions, decided, checking, crashes>>

-----------------------------------------------------------------------------
(* Everything else: the forge, people, and killed processes.                 *)

\* The requirements of a queued merge are met, or one of them is not.
ForgeMerges ==
  /\ forge.state = "open" /\ forge.auto
  /\ Merges
  /\ UNCHANGED <<rec, mem, pc, item, approved, versions, triage, bounds>>

ForgeDrops ==
  /\ forge.auto
  /\ Withdraw
  /\ UNCHANGED <<rec, mem, pc, item, approved, versions, triage, bounds>>

\* A person merges the request, whatever the harness is doing with it.
PersonMerges ==
  /\ forge.state = "open"
  /\ Merges
  /\ UNCHANGED <<rec, mem, pc, item, approved, versions, triage, bounds>>

CommitElsewhere ==
  /\ Cardinality({p \in DOMAIN remote : remote[p] = 0}) < MaxExternal
  /\ remote' = Append(remote, 0)
  /\ UNCHANGED <<rec, mem, pc, item, forge, local, approved, versions, triage, bounds>>

\* A process is killed, or a write of a sweep is refused, which ends that sweep
\* of the run the same way: the record stands as it was last saved.
Crash ==
  /\ pc # "idle" /\ crashes < MaxCrashes
  /\ crashes' = crashes + 1
  /\ mem' = rec /\ UNCHANGED rec
  /\ Goes("idle")
  /\ UNCHANGED <<item, git, triage, lost>>

\* A step of whoever holds the run's lease.
HolderStep ==
  \/ SettleRemoteTarget \/ TargetHeld \/ IntegrateFails \/ TargetDrifted
  \/ PrepareLanding \/ RecordLanding \/ NothingPublished \/ NotAsked
  \/ VerifyRemoteTarget \/ ReplayUnlanded
  \/ AskQueues \/ AskMerges \/ AskRefused \/ AskLost \/ SaveQueued
  \/ MergeAnswered \/ MergeUnread \/ MergeNotReported
  \/ ConfirmMerge \/ PublishingFails \/ DeleteBranch \/ SaveCompleting
  \/ CompleteItem \/ CompleteFails \/ SaveSucceeded \/ CleanUp \/ CleanUpFails
  \/ Block \/ BlockFails \/ FailRun
  \/ SaveRetry \/ Rebase \/ Republish \/ SaveRepublished \/ NothingToRepublish
  \/ ReplayFails \/ ClearVerdict \/ Gate
  \/ SaveUpdate \/ HandBack \/ SaveHandedBack \/ CloseSettled \/ DeleteLeftover
  \/ FinishItem \/ SaveFinished
  \/ AskRecovered \/ SaveArmed \/ SettleItem \/ SaveSettled \/ LeaveConsumedBranch
  \/ ChargeRearm \/ RepeatMerge

\* What one pass of `yoyo reconcile` begins.
Sweep ==
  \/ Abandon \/ QueuedMerged \/ QueuedDropped \/ HandBackRed \/ UpdateQueuedHead
  \/ ContinueUpdate \/ InterruptedMerged \/ InterruptedQueued
  \/ InterruptedUnlanded \/ Integrated
  \/ RecoverRequest \/ ArmRecovered \/ RefreshPublication \/ FinishPublication

Rearms == Decide \/ \E k \in Rearmer : CheckRearm(k) \/ BeginRearm(k) \/ RearmRefused(k)

Outside == ForgeMerges \/ ForgeDrops \/ PersonMerges \/ CommitElsewhere

Next == HolderStep \/ Sweep \/ Converge \/ Rearms \/ Outside \/ Crash

Spec == Init /\ [][Next]_vars

\* A process that is not killed takes its next step, and sweeps recur; git does
\* not fail in every one of them.  Nobody has to merge, decide or re-arm
\* anything, and no head has to be brought up to date.
Fairness ==
  WF_vars(HolderStep) /\ WF_vars(Sweep) /\ SF_vars(Converge) /\ SF_vars(CleanUp)

FairSpec == Spec /\ Fairness

-----------------------------------------------------------------------------
(* Properties.                                                             *)

Steps ==
  {"idle", "turn", "prepare", "record", "verify", "ask", "queued", "await",
   "confirm", "delete", "completing", "complete", "succeeded", "clean", "block",
   "fail", "retry", "rebase", "republish", "republished", "clear", "gate", "update",
   "handBack", "handedBack", "settle", "leftover", "finish", "finished", "arm", "armed",
   "settled", "saveSettled", "consumed", "charge", "repeat"}

\* Every variable has its type, and whoever lets go of the run leaves nothing
\* unsaved behind: an idle run is what its record says.
TypeOK ==
  /\ rec \in Record /\ mem \in Record /\ pc \in Steps
  /\ item \in {"in_progress", "blocked", "closed"}
  /\ forge \in [state : {"open", "merged"}, head : Version, auto : BOOLEAN]
  /\ remote \in Seq(Nat) /\ local \in 0 .. Len(remote)
  /\ approved \subseteq 0 .. versions /\ versions \in Nat
  /\ {decided, repeats, lost, crashes} \subseteq Nat
  /\ checking \in [Rearmer -> Nat \cup {-1}]
  /\ pc = "idle" => mem = rec

\* Whatever head the forge holds a merge for was approved in exactly that
\* form: a head that was rewritten, or committed after the review, is never
\* left armed (updateQueuedHead withdraws before it replays).
ArmedIsReviewed == forge.auto => forge.head.number \in approved

\* The same where every answer of the forge arrived and no process was killed:
\* a queued head is withdrawn before it is replayed, a commit the review did
\* not see is never asked for, and every replay goes through the gate again.
UndisturbedArmedIsReviewed == lost = 0 /\ crashes = 0 => ArmedIsReviewed

\* A merge the record says is queued or made is of the commit the run
\* integrated, and no other head of the request (publishIntegration), while
\* every answer arrived: after a lost one the run may replay a change the forge
\* is about to merge.
QueuedIsIntegrated == lost = 0 /\ rec.queued => rec.prHead = rec.landed

\* No merge request is repeated without a decision of triage behind it, by
\* however many processes and after however many kills: the re-arm is charged
\* to the record before the forge is asked (Rearmer.repeat).
RepeatsWithinDecisions == repeats <= rec.rearms /\ rec.rearms <= decided

\* An item is closed only over a merge the forge has made: not over one it
\* has queued, dropped or never been asked for.
ClosedMeansMerged == item = "closed" => forge.state = "merged"

\* A change the forge merged as the run integrated it is settled by the sweeps
\* alone, whoever merged it, whenever, and wherever a process was killed: the
\* item closed, the record complete and nothing of the publication outstanding;
\* unless the run itself took that landing back, to replay it onto a target it
\* found moved (replayUnlandedChange, updateQueuedHead).
MergedIsSettled ==
  (forge.state = "merged" /\ rec.request /\ forge.head = rec.landed)
    ~> \/ item = "closed" /\ rec.phase = "complete" /\ rec.merged /\ rec.failure = "none"
       \/ ~Landing(rec)

=============================================================================
