# Formal models of Yoyodyne

Yoyodyne is a harness in which agents develop, check, review and land changes
for the work items of a product.  Its correctness rests on a few protocols:
who may act on a run, what may reach the target branch, and what a process that
was killed leaves behind.  This directory models those protocols in TLA+,
checks them with TLC and proves the ones that hold for every instance with
TLAPS.

## 1. The system

All paths are below `src/internal/`.

| component | state it keeps | operations | hard behaviour | what makes it correct |
|---|---|---|---|---|
| run store (`runstate/store.go`) | one state file and one lease file per run, one reservation lock per product | `Reserve`, `Adopt`, `AdoptRun`, `Create`, `Save`, `Load`, scans | several processes, advisory locks, records read file by file, crashes | one process per run, what it loaded is what is stored, reservations share one limit, no run is live without an owner |
| delivery pipeline (`orchestrator/pipeline.go`, `publish.go`) | the run record, the process's copy of it, worktree and branch, item status, promotion lease | `Run`, `Continue`, `develop`, `verify`, `reviewChange`, `repairLoop`, `integrate`, `prepareIntegrationRetry`, `finish`, `stop`, `fail` | a crash between any two writes, a target that moves, retries that feed each other | only judged versions land, once; an item closes only for a landed change; attempts are charged before they are spent; runs end |
| reconciler (`orchestrator/reconcile.go`) | none of its own | `Reconcile`, `settle`, `recoverIntegration`, `completeIntegrated`, `abandonFor`, `settleQueuedMerge` | infers what a dead process did from git and the record | promotions are completed, nothing is called landed that is not, runs that can go on are left alone and can go on |
| triage actions (`repaircontinue.go`, `integrationresume.go`, `rerun.go`, `checkstagecontinue.go`, `queuedchecks.go`, `rearm.go`) | grants and resumptions on the record | continue a repair, resume an integration, re-run, re-arm a merge | put an ended run back in flight beside everything else | limits and items are respected, approvals still hold for what is promoted |
| worktrees and git (`gitworktree`) | branches, worktrees, the target ref | `Create`, `CommitAttempt`, `Integrate`, `RebaseOntoTarget`, `Observe`, `CleanupIntegrated` | git processes killed half-way, refs moved by others | compare-and-swap of the target; nothing unlanded is removed |
| publication (`publish`, `orchestrator/publication.go`) | pull request and merge state on the record | publish, arm, observe, drop, re-arm | the forge is asynchronous and only polled | a landing through the forge is settled once it merged, and only then |
| scheduler (`orchestrator/schedule.go`, `converge.go`, `developerslot`) | what was started, slots | choose ready items, pull slots, converge | stale views of backlog and slots | no slot is given twice, ready work is not starved |
| triage docket (`triage`, `orchestrator/triage.go`, `carryout.go`, `runstate/triage.go`, `triagedecision.go`, `triageoverride.go`, `rerun.go`) | the triage record of an item (counters, standing decisions, crossed caps), re-run claims, docket entries | grant, decide, charge and return rounds, cross a cap, claim and withdraw a re-run, carry out | several runs, decisions and processes spend from one record; verdicts replayed, rounds returned, claims left by killed processes | no round counted twice, promises within the cap, one carry-out per claim |
| recovery and waits (`pipeline.go`, `orchestrator/recovery.go`, `provideroutage.go`, `reconcilewait.go`, `recovery`, `runstate/release.go`, `stop.go`, `hold.go`) | deadlines, charges, holds, releases, stops, continuations on the record | pause, probe, release, retry, exit, take up again | sleeping processes, killed ones, operators and sweeps race over one deadline | waits are budgeted and end, a word of the operator is heard, the provider is not asked early |
| supervision (`supervise`, `watchdog`, `redeploy`, `shutdown`) | failure counts, backoffs, stall records | start, restart, degrade, stop | children that die, machines that sleep | bounded restarts, one stall reported once |
| exchanges (`exchange`, `runstate/exchange.go`, `orchestrator/supervision.go`) | one record per exchange, its lease | put a round, answer, settle, charge, reclaim, exhaust | rounds interrupted by kills, rival asks, records read and replaced whole | bounded rounds, none lost, closed once, nobody waits for ever |
| agent memory (`runstate/memory.go`, `agentcontext`) | per agent a live log, archives, torn ends set aside, a recorded tip, a lock | remember, list; inside a write: rebuild the tip, mend, roll, append, record | writes killed in mid-line or mid-roll, a tip older than its log, readers without a lock | every revision numbered once and kept, a live set within its budget |
| side conversations (`sidestream`) | turns, leases | start, speak, conclude | caps read before they are spent | bounded conversations |
| declarative workflows (`workflow`, `action`, `capability`, `separation`) | workflow instance | validate, step | graphs nobody drew | every outcome leads somewhere, separation is kept |
| tracker client (`beads`) | item status | claim, block, complete, reopen, release | the tracker and the record are two stores | item and run agree |
| Slack sink (`slack`, `notify`) | cursors, topics | read, post, acknowledge | a crash between post and cursor | every event posted, in order |
| governed documents, read model, configuration, command line, provider adapters | files, derived views | parse, validate, render, exec | little of their own | out of the scope of a state model, see PROJECT.json |

The pipeline owns a run through a lease of the run store.  The reconciler and
the triage actions enter through the same leases; they meet the pipeline in the
run record, in git and in the tracker, which are three stores no transaction
spans.  That is where the hazards in PROJECT.json come from.

## 2. Modules

| module | what it is |
|---|---|
| `RunRegistry` | abstract: which runs are live, ended, put back |
| `RunStore` | the run store: locks, leases, scans, saves, triage re-entries; refines `RunRegistry` |
| `RunStoreProofs` | theorems about `RunStore` |
| `Landing` | abstract: a linear target, candidates, what passed the gate, settled runs |
| `LandingProofs` | theorems about `Landing` |
| `Delivery` | the pipeline, the reconciler and two triage actions over records, git and items; refines `Landing` |
| `DeliveryProofs` | theorems about `Delivery`, and that it implements `Landing` without a forge |
| `Publication` | landing one approved change through its pull request: the run, the sweeps, the re-arms and the forge |
| `PublicationProofs` | theorems about `Publication` |
| `Waits` | how one run waits for its provider or the operator, and how a wait is taken up again |
| `WaitsProofs` | theorems about `Waits` |
| `Triage` | the triage record of one item, the runs that spend from it and the processes that carry decisions out |
| `TriageProofs` | theorems about `Triage` |
| `Exchange` | one inter-role exchange: conversations, charges, supervision passes |
| `ExchangeProofs` | theorems about `Exchange` |
| `Notebook` | abstract: a history of numbered revisions that only grows |
| `MemoryLog` | the files one agent's memories are kept in, their writers and readers; refines `Notebook` |
| `MemoryLogProofs` | theorems about `MemoryLog` |
| `MC_RunStore`, `MC_Delivery`, `MC_Publication`, `MC_Waits`, `MC_Triage`, `MC_Exchange`, `MC_MemoryLog` | constants of the checked instances |

The modules meet at three places.  `RunStore` gives each run to one process,
which `Delivery`, `Publication` and `Waits` take as their one program counter per
run.  `Delivery` and `Publication` show one invocation, one wait and one decision
as a single step or a choice; `Waits` opens the invocation's wait up, `Triage`
the decisions, budgets and claims.  The reconciler and the pipeline's `resumeRun`
appear in each module with the part that concerns it.

### RunStore

A process is a record: the call it is in, the step, the run and item, what is
left of its scan and what the scan found, and the status it loaded.  Reading
what is in flight is one step per state file (`ReadRecord`), because the holders
of other leases go on saving while `Incomplete` walks the directory.  `TakeLease`
needs the lease to be free; a released lease may for a while be carried by a
child forked meanwhile (`ForkedChild`), which is what `leaseGrace` waits out, so
`LeaseRefused` and `TakeLease` are both possible around it.  A crash drops both
kinds of lock, as the operating system does.  The triage actions are
`BeginContinuation` to `ReenterRun`: an ended run under its lease, two scans
without the reservation lock (`noRunInFlight`, `slotIsFree`), a save as running.
The update of a queued head (call "update") makes the second scan only.  Which
ended runs a triage action may put back is the constant `Continuable`.  The limit
of developer slots is an argument of `Reserve`, read from the configuration by each
process: `MaxConcurrent[p]`.

### Delivery

One program counter per run stands for the process hosting it, which
`RunStoreProofs!LeaseExcludes` justifies; `rec[r]` is the stored record and
`mem[r]` the copy in memory, so what a crash loses is exactly `mem[r]` and
`pc[r]`.  Every save, git command and tracker write is one action.  `branch[r]`
is the version (edit on base) at the head of the run's branch; `target` is the
linear history of the target branch.  `checked` and `approved` are history
variables: the versions the checks and the reviewer saw.  The actions follow the
code: `Dispatch` to `Launch` is `Pipeline.Run`; `Develop` to `Repair` the gate
and its repair loop; `SaveIntegrating` to `RecordIntegration` is
`activeRun.integrate`; `SaveRetry` to `ClearVerdict` is
`prepareIntegrationRetry`; `CloseItem` to `SaveComplete` is `complete` and
`cleanUp`; `GrantRepair`/`SaveGrant` and `ResumeIntegration`/`SaveResumption` the
two triage actions, each followed by "handoff", when the lease is free and
either the pipeline or a sweep may come first; `SettleLanded`, `RecoverLanding`,
`Abandon` and their continuations are `Reconciler.settle`.

Abstractions, and what they leave out:

- The target is linear and is never rewound, so a recorded landing is on it
  (`LandedInv`) and `contradictedIntegration`, which asks git for that before a
  recorded landing is settled (`reconcile.go:506-509`), finds nothing; its checkout is not modelled, so a
  promotion is the compare-and-swap it is on a branch that is not checked out.
- What is dirty in a worktree and its head are one version.
- A store that refuses a save is a process that stops there (`Crash`).
- The docket entry a triage action answers is assumed to be there; grants are
  bounded by `MaxGrants`, resumptions by `MaxResumptions` as in the code.
- Publishing to a forge appears as the failures it adds before, during and after
  a promotion (`RemoteRefuses`, `TargetDiverges`, `PublishDiverges`,
  `RepublishFails`); landing through a pull request is module `Publication`.
- Usage limits, holds and relaunches are module `Waits`; dependency and directive
  pauses, escalations and landing checks are not modelled.
- A landed change that does not discharge its item (`Evidence`) puts the item
  back to open.

### Publication

The promotion of `Delivery` on a target the forge protects: nothing is promoted
locally, the run asks the forge to merge its request (`integrate` with
`PrepareLanding`, then `publishIntegration`), and sweeps settle what the forge
did later.  `rec` and `mem` are again the record and the copy of whoever holds
the run's lease; one program counter suffices because one process holds it.
`forge` is the request as the forge has it (open or merged, its head, a merge
armed or not), `remote` the target there, `local` how much of it the local
target has been caught up with.  `failure`, `drop`, `blocker`, `method`,
`queued`, `merged`, `confirmed` and `rearms` are the fields of
`State` and of its `PullRequest` that the settlement branches on.

- The run: `SettleRemoteTarget` to `SaveCompleting` are `integrate` and
  `publishIntegration`, with `AskLost` the answer that never arrives;
  `CompleteItem` to `CleanUp` complete the run (the item of a queued merge stays
  in progress); `Block` is `blockOnUnlandedPullRequest`; `SaveRetry` to
  `ClearVerdict` are the replay, with the push of the rewritten branch
  (`Republish`) and the save of its head (`SaveRepublished`) apart.
- The sweep: `QueuedMerged`, `QueuedDropped`, `HandBackRed` and
  `UpdateQueuedHead` are `settleQueuedMerge` and `settleStillQueued`,
  `ContinueUpdate` its last step; the three `Interrupted...` actions are
  `settleInterruptedLanding`; `FinishItem` and `SaveFinished`
  `completeIntegrated`; `RecoverRequest` to `SaveArmed` `recoverPublication`;
  `RefreshPublication` and `FinishPublication` the settlement of an ended run.
- Triage: `Decide` records a re-arm, `CheckRearm` looks at the publication
  without the lease, `BeginRearm` repeats the look under it, `ChargeRearm` saves
  the charge and `RepeatMerge` asks.
- The outside: the forge merges or drops what is armed, a person merges an open
  request whenever they like, whoever works on the run meanwhile, and somebody else
  commits to the target.

Abstractions, and what they leave out:

- One run, so no promotion lease; `Delivery` has it.
- The gate a replay goes through again is one step, `Gate`; its rounds are in
  `Delivery`.  An interrupted gate is abandoned.
- A rebase and the save of its head are one step; the save that clears the old
  verdict is another, and a process can be killed in between.
- A write a sweep is refused ends that sweep of the run like a kill (`Crash`).
- A request closed by hand is a dropped one; the forge has a request for the
  run's branch even when the record lost it.
- `ConfirmRemoteTarget` finds the merge where the change is on the remote.
- The forge refuses to withdraw a merge that landed, and takes a merge only of
  the head it was asked for.
- A replay onto a target that already holds a version of the change may come out
  empty, a head of number 0, or conflict, or leave something (the versions can
  differ); the gate may approve an empty change, and a landing is refused for one
  (`ErrNoChanges`).

### Waits

One run and the process hosting it, if any.  `rec` is the part of the run record
that waits turn on, its deadline kept as the time left to it, and `Tick` lets one
unit pass for the record and for a sleeping process alike.  `StopsWhenAsked` to
`Asks` are the boundary at the top of the attempt loop (`stopRequested`,
`holdForOperator`); `Served` to `Dies` are the answers of the provider
(`pauseForUsageLimit`, `pauseForServerOverload`, `pauseForProviderOutage`,
`recordRelaunch`, `recoverProvider`); `SpentAlready` to `ClearsPause` are
`awaitRecordedUsageLimit`, `waitForProbe` and `clearUsageLimitPause`, in the order
of their cases; `Resumes` and `PersonRuns` are `resumeRun` and `Run`,
`TakesUpWait` and `ContinuesWait` the sweep.  A release is read, stamped and
written by a person in three steps beside the host, so it can be older than the
pause it meets: `release` says which.  `rec.previous` and `rec.current` are the
last two members of the Fibonacci series behind `recovery.Interval`.

Left out: what an invocation asks and produces; the length of an interval beyond
its order (units of time); the pause on an outage several runs share; the
substitution of models; everything but the wait in `reconcile.go`.  `slept`,
`retrying`, `owed` and `asked` are history.

### Triage

`counters`, `decisions` and `caps` are the item's triage record.  Every operation
on it holds the item's lock from its load to its save, so each is a step:
`Charged`, `Uncharged` and `Returned` are `RecordReviewRound`,
`RecordUnchargedVerdict` and `ReturnReviewRound`; `GrantRepair`, `RecordRerun`,
`RecordDecision` and `CrossCap` carry the names of the code.  Runs are numbered
as they are started; `Delivers` to `Promotes` are the repair loop around the
record, `Refused` is `settleEnvironmentalRound` on the way out of a run the
machine or the usage window stopped, `Dies`, `Resumes` and `Vanishes` the killed
process and what comes after it.  Carriers are the processes that carry decisions
out: `LooksToContinue` and `Continues` (`repaircontinue.go`), `LooksToRerun`,
`Claims`, `Starts` and `Withdraws` (`rerun.go`), each its own step, with kills in
between.  `epoch` is the hosting a round is charged under (`chargingProcess`).

Left out: the docket and its entries, escalations, merge re-arms, the words of a
decision.  Only findings and vanished runs are continued; of the re-run's
refusals, the ones that read the docket are left out.  `answered`, `sentBack` and
`gaveBack` are history.

### Exchange

`disk` is the exchange's file, `copy[p]` what a process read of it, `lease` its
advisory lock, `at[p]` where the process is.  `Holds` to `Tells` are
`Conductor.Put`; `ChargeLoads` and `ChargeSaves` are `Conductor.Charge`; `TellFails` is an escalation that
reaches nobody; `Lists` to `Reclaims` are one exchange's part of `SupervisionLoop.Run` with `Survey`,
`Reclaim` and `Exhaust`.  `thread` is history: the rounds put and what really came
of each, against which the record is held.

Left out: what is said and what it costs (a charge is the write it makes), the
opening of a second exchange, staleness, the bound on exchanges in flight.

### MemoryLog

`log` is the live log: its terminated lines and its unterminated end, if any;
`archives` the logs rolled aside, `tip` the recorded tip with what it was recorded
against, `aside` the fragments copied into torn files.  A line stands for its
revision.  `Remember` is the write up to its last refusal, under the agent's lock:
`tip`, `next`, `affordable`; `FindsCleanEnd` to `Cuts` are `mendTail`, `KeepsLog`
to `HasCarried` `rollIfFull`, `Appends` the append, `RecordsTip` and `TipFails`
the two ways `recordTip` ends.  `Stops` is a writer killed, or refused by the
disk, anywhere; an append stopped half-way leaves a fragment, a line without its
newline, or the line with nobody told.  `Lists` and `Reads` are the two halves of
`recorded` as the listings use it, without the lock.  `acked` and `due` are
history.

All lines are of one size, so an update that only makes a memory longer is not
reached, and sizes and the digest of the last line are compared
as numbers of lines and the line itself; a fragment is shorter than any line.
Left out: texts and their redaction, continuity and subjects, compaction (a
revision like any other to the files), a tip lost or edited by hand, copies of a
fragment made twice.

## 3. Runs

| run | instance | what it shows |
|---|---|---|
| `store` | 2 processes, 3 runs, 2 items (two runs of one item), a limit of 1 slot read by one process and of 2 by the other, one continuable run | exclusive ownership, current memory, a reservation respects its caller's limit, two live runs of an item only after a triage action, ownership from birth, the lock comes back, refinement of `RunRegistry` |
| `delivery_gate` | 1 run, no forge, 2 edits, 2 outside commits, 2 crashes, 1 repair, 1 grant, 1 replay, 1 resumption | nothing unjudged lands, an interrupted landing is recoverable |
| `delivery_contention` | 2 runs (one whose landing does not discharge its item), 1 outside commit, 1 crash, 1 resumption | no edit twice, closed means landed, the promotion lease, refinement of `Landing` |
| `delivery_published` | 1 run, forge, 2 edits, 2 outside commits, 2 crashes, with fairness | what lands was approved as an edit, charging, promotions complete, runs end |
| `delivery_replayed` | violation | finding 1 |
| `publication` | 2 re-arming processes, 2 decisions, 1 resumption, 4 versions, 2 outside commits, 1 lost answer, 1 crash, with fairness | re-arms within decisions, closed means merged; undisturbed, only reviewed heads are armed; without a lost answer a queued merge is of the integrated commit; a merged landing is settled, whoever merged it and whenever, unless the run takes it back |
| `publication_lost` | violation | finding 2 |
| `waits` | 1 run, pause budget of 2 probes, recovery window of 1, 1 relaunch, resets up to 2 away, 2 words of the operator, 2 continuations on the record, 2 crashes, with fairness | the pause budget and the recovery window, the operator's word, no early ask, waits end |
| `triage` | 3 runs, 2 carriers, 2 decisions, grants of 2 rounds against a cap of 2, 1 grant, 1 re-run, 1 crossing, 1 mishap | rounds counted once, promises within the cap, reservations of standing repairs only, one fresh run per claim |
| `exchange` | 2 conversations, 1 supervision pass, a cap of 2 rounds, 3 rounds asked, 2 crashes, with fairness | no round lost, closed once, an interrupted round is reclaimed, a spent thread settled or closed with the operator told, unless the process was killed first, the escalation failed or a charge wrote over it |
| `exchange_charged` | violation, without crashes | finding 3 |
| `memory` | 1 writer, 1 reader, 2 memories, 2 revisions of each, a log of 2 lines, a budget of 1, 2 faults | a trusted tip is right, mended archives, the budget, fragments kept, undisturbed listings, refinement of `Notebook` |

`UndisturbedArmedIsReviewed` says nothing of behaviours with a lost answer or a
killed process because either one alone refutes `ArmedIsReviewed` (findings 2
and 1); `QueuedIsIntegrated` says nothing after a lost answer, because a run may then
replay a change the forge is about to merge.  `MergedIsSettled` holds through kills
and lost answers, and of merges a person made at any moment.  Its exception is a run
that takes its landing back and replays the change, because it found the remote
target moved, or its queued head behind: what moved the target may be the merge of
that very change (section 4), and nothing settles that run for it.

Bounds.  Three runs and two processes are the least that has two processes
contend for one lock while a third run, of the same or another item, is on disk;
a run whose process died keeps its slot.  The process that reads one slot is refused
by another item's run, which the rule of one run for an item would let through, and
the process that reads two meets a second run of an item while a slot is free: each
of the two checks of a reservation is the only one that refuses somewhere.  For
delivery, one run with two outside commits and two crashes has a crash before and after each write and a replay
whose own replay is contended; two runs are the least that contend for the
target.  `MaxEdit` of 2 has a repair change an approved edit.  For publication,
four versions are the change, a commit of something written to the worktree
after the review, and two replays; two decisions and two processes are the least
with which one process acts on what the other's re-arm made of the publication
(what the three safety properties say beyond one resumption is proved).  A pause budget of two probes
is the least that is spent in part by one process and overrun by the next; two
kills and two continuations have one wait taken up twice.  For triage, three runs
are a stopped run and two rivals for its one re-run; a cap of two with grants of
two has every grant cut down, and one mishap is a replay, a returned round or a
killed carrier (the proofs have any number).  In an exchange two rivals and a
pass are the least with which one closes what another has loaded.
For a memory log, two lines are the least that roll, two revisions of two memories
have a log rolled twice with one memory carried across while the other is
superseded or retired, and two faults tear an end and stop the roll that follows.
More writers are the proofs' matter: the lock lets one write at a time.
Every system here may end with nothing left to do, which is no deadlock; the
configurations say so.  Symmetry is used only for the carriers of `triage`, which has
no liveness property.

Fairness.  `RunStore`: a process in a store call goes on with it; it waits for
the reservation lock only, which is released by the others doing the same, and
for a lease only a bounded time.  `Delivery`: a hosting process that is not
killed takes its next step, the sweeps recur (`yoyo reconcile` and the scheduler
run them each round), and, strongly, the tracker does not refuse to settle an
item for ever and git does not refuse the clean-up for ever.  Nothing fair is
assumed of developers, reviewers, triage decisions or outside commits.
`Publication`: the same of the lease holder and the sweeps, and strongly of the
convergence of the local target and of the clean-up, which git may refuse now
and then but not in every sweep.  Nobody has to merge, decide, or re-arm.
`Waits`: time passes, a process that is not killed goes on, `yoyo reconcile` is
run again and again, and a continuation it launched reaches the run; the operator
owes nothing, and `WaitEnds` assumes of the pause only that it is lifted again and
again.  `Exchange`: a conversation goes on with what it began (a provider's
invocation ends), and a pass goes on with its steps; strongly, a recurring pass
does not find the exchange held every single time it looks, which it could only if
it ran in step with the conversations.  Nobody has to put another round.

## 4. Findings

Three have a run whose counterexample shows them:

1. `delivery_replayed`, `NothingLandsUnjudged` (with a forge): a republish that
   fails between the record of a replay and the clearing of its verdict leaves an
   approval that a resumed integration promotes on.  A process killed there while
   a queued head is updated does the same with no decision of anybody: the next
   sweep continues the run on the old approval.
2. `publication_lost`, `ArmedIsReviewed`: when the answer to a queued merge is
   lost and the target moves, the replay pushes a rewritten head onto a request
   whose merge is still armed.
3. `exchange_charged`, `ClosedStaysClosed`: `Conductor.Charge` loads and saves the
   whole record without the lease; it can take another process's round away and
   open a closed exchange again, which `runstate/exchange.go:58-64` excludes.

The others were met while modelling; the models reach each of these states, and
no property is stated that they would refute:

- A run put back in flight by a triage action (`rerun.go:757`) can exceed the limit
  that `docs/configuration/runs.md:354` says all runs share, and can be a second live
  run of its item (`rerun.go:721`): both looks precede the save, without the lock.
- A request merged between the record of the landing and the verification before
  the merge is asked for (`publish.go:440-460`), by a person or by a first ask whose
  answer was lost, reads as a target that moved; one merged between the withdrawal
  of a queued merge and the save (`queuedchecks.go:221-261`) is not noticed.  In both
  the run's landing is taken back and a change replayed that is on the target.  What
  is left is nothing to land, and the run fails or is handed back; the item of a
  merged change stays open, and nothing settles it.
- An exchange whose escalation fails stays closed with the operator untold.  The
  failure is an error of the ask or of the pass, but later passes skip what is
  closed, so nobody tells again, which `conduct.go:499-502` calls exactly what this
  ending exists to prevent.  `SpentIsSettled` names it.
- The sweep after a diverged promotion closes the item that
  `blockOnPromotedDivergence` (`pipeline.go:2549`) deliberately left open
  (`reconcile.go:506`).
- A process killed between blocking the item and recording the failure leaves a
  run that nothing continues and nothing ends (`reconcile.go:402`).
- A re-armed run whose head is then updated is live with a blocked item, and no
  sweep can continue it (`queuedchecks.go:255`).
- A re-armed merge is queued beside the drop it was re-armed after, which
  `State.MergeDrop` says it is not; and `recordSettledPublication` takes a blocker
  along only where a drop is recorded, so a publication handed back because its
  merge could not be read keeps its blocker once it is settled.
- A sweep's continuation that the operator's pause refuses still spends one of the
  64 continuations a record holds (`reconcilewait.go:227-257` records it before
  `Continue` refuses), although `runstate/sweepcontinue.go:26-31` reckons with
  consecutive refusals of the provider only; `WaitEnds` therefore ends at a full
  record.
- A release written by a person who read an earlier pause is honoured by a process
  that took the run up and recorded no pause of its own (`pipeline.go:4054`);
  `AsksWhenDue` counts it as the operator's word.
- A claim is given back for a fresh run that the usage window stopped in a later
  attempt, after earlier attempts were judged (`rerun.go:479`); so a stoppage can
  buy two judged runs, and `OneFreshRunPerClaim` is about claims that were kept.
- A repair carries out what remains of all grants of the item, whatever happened
  to the decisions they were made with (`repaircontinue.go:599`), so attempts of a
  superseded repair can be handed out after the rounds they reserved were released.
- The record remembers two judged attempts, the last judged and the last charged.
  Where verdicts of two runs alternate, an attempt judged again after a replay is
  charged twice; `RoundsAreCounted` is therefore an equality only while one run of
  the item was judged; `triage.go:189-197` says such a repeat cannot come about.
- A listing of memories that a roll overtakes between the archives
  (`memory.go:1154`) and the live log misses revisions acknowledged before it
  began, where `memory.go:1133` says that what comes back is the whole history
  whether or not it has ever been rolled; `UndisturbedReads` is therefore about
  listings no roll overlaps.
- `State.ReturnGrantedRound` returns the whole of the last continuation, also when
  its first attempt was judged and a later one was refused.

## 5. Proofs

`RunStoreProofs` proves, for any finite set of runs and any sets of processes
and items, the types, `OneWriterPerRun`, `LoadedIsDurable`,
`FreshRunsWithinCapacity`, `SecondRunWasContinued`, `BornOwned` and
`ImplementsRegistry`.  `OneWriterPerRun` and `LoadedIsDurable` need each other's
company only: the owner's memory is durable because nobody else saves.  The
limit is not inductive by itself: a process that has scanned part of the
directory under the reservation lock knows that every fresh run it has not read
yet is unread and every one it read is among those it counts, because no fresh
run can appear while it holds the lock (creation needs the lock) and ended runs
only disappear.  The strengthening says exactly that of the scanning process and
of the lease and create steps after it.  `ImplementsRegistry` maps live and ended
records; its one delicate step is `CreateRecord`, which needs the same
strengthening to show that the abstract item and slot are free.

`DeliveryProofs` proves the types and every safety property of the pipeline, for
any runs, budgets and bounds: `LandsOnce`, `ClosedMeansLanded`, `TurnExcludesRuns`,
`ChargedBeforeSpent`, `LandingRecoverable` and `LandsApprovedEdit` with or without a
forge, `NothingLandsUnjudged` and the refinement of `Landing` without one
(`~Publishing`; with a forge finding 1 refutes both).  None of them is inductive:
they speak of what was promoted and closed, and what makes them so is what a process
still knows at each step.  `RunInv` says that of one run, one part per concern: how
the memory relates to the saved record (`SyncInv`), which phase, verdict and stop go
with which step (`PhaseInv`, `VerdictInv`, `StopInv`), that the branch is where the
record says (`HeadInv`), when the run's commit is on the target and what the item
may show (`LandedInv`, `ItemInv`), what the checks and the reviewer have seen of what
is about to be promoted (`GateInv` of the edit, `ExactInv` of the edit on its base,
without a forge), and who has the promotion lease (`TurnInv`).  A step touches one
run; another meets it only through a target that grew or a lease that was taken
(`Elsewhere`, from `StableInv` and `GrowsInv`), so there is one lemma per action,
about the run that takes it, and one for all others.  The delicate ones are
`MoveTargetKeeps`, where the compare-and-swap on the base makes what lands what was
judged; `RebaseKeeps` and `ClearVerdictKeeps`, between which the branch is ahead of
the verdict; and `RecoverLandingKeeps`, where a sweep has only the branch and the
target to tell that the change is there.  In `DeliveryImplementsLanding` an abstract
gate passes when the later of the two judgements is there, and only
`MoveTarget`, the closing of items and the settlement are steps of `Landing`;
everything else is a stutter or a change of the candidate.

`LandingProofs` proves of the abstract landing that what is on the target passed
the gate as that edit on that base, and that settled runs landed.  By
`DeliveryImplementsLanding` these carry to the pipeline without a forge.

`PublicationProofs` proves the types and every safety and action property of a
landing through the forge, for any number of processes, versions, decisions, lost
answers and kills.  The types say that every head on a record or a request is a
version that was made, or carries nothing, which is what approvals range over.  `ClosedMeansMerged`: a
merge once made stays made, so it is enough to carry what was read of the forge to
the step that closes the item (`MergedInv`).  `RepeatsWithinDecisions`: what a
re-arming process saw is below the decisions, the look under the lease makes what it
charges what it saw, and the charge is on the record before the request
(`RearmInv`).  `UndisturbedArmedIsReviewed`: whenever the run rewrites its change
it has no landing, hence no queued merge, hence nothing is armed; and the
standing verdict is about the head at the forge, except between the publication
of a replay and the clearing of its verdict, and in a run that failed (`ArmingInv`).  The
first exception is
where a kill refutes the property (finding 1), and a lost answer is what breaks
the step from "nothing queued" to "nothing armed" (finding 2).
`QueuedIsIntegrated` is the same argument under kills, without the verdict: a merge
is armed only over the head the run integrated and published, and while it may be
armed neither the record nor the memory of the holder forgets that head
(`AskedInv`); nothing is claimed after a lost answer.

`WaitsProofs` proves the types and all safety and action properties of a wait, for
any budgets, windows, intervals and bounds.  The time slept needs what the record
was charged for the sleep under way: the inductive invariant says that time slept
and time left of the probe are covered by the charge, and that what clearing the
pause gives back is what was not slept.  The same for the recovery window, where
the next interval is charged before it is slept.  For the operator's word, every
place from which an ask can follow without passing the boundary again has at most
the one ask ahead of it; for the announced wait, a process that is past serving a
deadline owes nothing.

`TriageProofs` proves the types and every safety property of the record, for any
runs, carriers, caps and grants.  `PromisesWithinCap`: each decision measures itself
against what is committed, and releasing or superseding only shrinks that.
`OneFreshRunPerClaim`: a claim has one holder, either a carrier about to start a run
or the one fresh run that was started and did not give it back; a run is given back
only in its first hosting and never hosted by it again.  A fresh run's number is new
because the runs started are always `1..k`.  `RoundsAreCounted`: what was judged was
judged under the attempt a run is at or an earlier one, the record names only judged
attempts, and the hosting that charged the last of them has gone on from it to the
repair or is dead (`CountInv`).  So a verdict on a new attempt is neither the last
charged nor the last judged, and a replay of it is one of them.  It also follows that
a refusal never gives back a round that a verdict spent: by the time an attempt can
be refused, nothing of this hosting is charged for it, and `ReturnReviewRound` finds
nothing to return (`NothingToReturn`).  `ReservedForStanding`: a grant reserves what
it promises and everything else releases, so the reservation stays below the sum over
the standing repairs.  A sum is a recursion over a set, and induction over it is out of
the prover's reach; `TotalsAreTotals` and `TotalsAgree` take a least counterexample, in
the order of the numbers and of the finite sets, instead (`LeastNumber`,
`SmallestSubset`).

`ExchangeProofs` proves the types with the lease, and that until a charge writes
over a record it had not read, the record holds every round put, a process at work
under the lease has the record as it stands, and what is closed stays as it was
closed; a stale listing is never written back because the pass loads again under
the lease.

`MemoryLogProofs` proves every safety and action property of the store and its
refinement of `Notebook`, for any numbers of writers, memories, revisions and faults.  What a
writer relies on is that nobody else writes while it holds the lock: its heads
are those of the history on the disk until it appends, a line it carries into a
fresh log is in the history already, and its draft follows the heads, hence is
the first number not taken.  A recorded tip is never about a longer log than the
one on the disk nor about more archives, and where both are the same it has the
heads of the terminated lines; so a tip that matches a clean end is right, and
every crash that adds to the history either lengthens the log, rolls it or leaves
an end that no tip matches.  A writer about to cut an end has its fragment set aside
(`CutsKept`), and no other step shortens what the log ends in; what a reader has to
find was acknowledged and so is in the history, and without a roll in between the
listing is the history (`DueAcked`).

Only model-checked: the liveness properties, `LockIsReturned`, `EndsOrWaits`,
`PromotionCompletes`, `MergedIsSettled`, `WaitEnds` and `ThreadsEnd` (TLAPS has no
fairness or ENABLED reasoning within reach).  Every invariant and every action
property of a passing run is a theorem.  The assumption `~Publishing` of `LandsJudged`
and `DeliveryImplementsLanding` is not for the prover's sake: with a forge both are
false, and `delivery_replayed` shows it.

## 6. Not modelled

- Scheduler, supervision, side conversations, declarative workflows and the Slack
  sink: not yet; see the plan.
- The docket's entries and their ageing, claim audit, amendments and admission:
  rules over files, each a function of what it reads.
- Parsing, rendering, configuration, read model, command line, provider and forge
  protocols: outside what a state model says anything about.
- Four hazards met on the way that no model reaches: a process killed between the
  commit of an attempt and the save of its hash (`publish.go:122`); what is dirty in
  the worktree at promotion is committed after the checks and the review
  (`manager.go:2597`); a publication handed back without a drop on the record and
  merged later by a person (`publication.go:841`); the restart budget of a supervised
  child (`supervise.go:257`).
- Files are replaced atomically and saves that fail end the process's step;
  clocks agree between processes of one machine.

## 7. Plan

In this order, each with its runs, mutants and hazards:

1. An abstract specification of a publication that `Publication` implements.
2. `Schedule`: pull slots (`developerslot`) as an operator against a reference
   definition, convergence as a state machine.
3. `Supervise`, `Watchdog`: restart budgets, backoff, stall records.
4. `Sidestream`: turns and caps; `Workflow`: the graph and its separation rules.
5. `Outbox`: cursors and topics of the Slack sink.
