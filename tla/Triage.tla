------------------------------- MODULE Triage -------------------------------
(***************************************************************************)
(* The triage record of one work item (internal/runstate: triage.go,       *)
(* triagedecision.go, triageoverride.go, rerun.go) and everything that     *)
(* spends from it: the runs of the item charging review rounds, the        *)
(* development manager recording decisions about runs that stopped, and    *)
(* the processes carrying decisions out (internal/orchestrator:            *)
(* carryout.go, repaircontinue.go, rerun.go).                              *)
(*                                                                         *)
(* Every operation on the record holds the item's lock from its load to    *)
(* its save, so each is one step.  The carry-outs read the record, look    *)
(* for runs in flight and act in separate steps.  Runs are numbered in the *)
(* order they are started; what a run does with its change is module       *)
(* Delivery, here an attempt is judged or stopped.                         *)
(***************************************************************************)
EXTENDS Integers, FiniteSets, FiniteSetsExt

CONSTANTS
  Runs,          \* bound: how many runs the item may have
  Attempts,      \* execution.repair_attempts_before_replan
  GrantSize,     \* TriageRepairGrantRounds: what one repair decision grants
  Caps,          \* TriageCaps: the cap of each budget
  MaxCrossings,  \* MaxDelegatedCapCrossings
  Carriers,      \* processes that carry decisions out
  MaxDecisions,  \* bound: decisions the development manager records
  MaxMishaps     \* bound: replays of lost promotions, refused attempts, killed processes

Run == 1..Runs
Budget == {"rounds", "grants", "reruns"}

ASSUME TriageAssumption ==
  /\ {Runs, GrantSize} \subseteq Nat \ {0}
  /\ {Attempts, MaxCrossings, MaxDecisions, MaxMishaps} \subseteq Nat
  /\ Caps \in [Budget -> Nat]
  /\ IsFiniteSet(Carriers)

VARIABLES
  counters,    \* the item's record: what it was given and what it cost
  decisions,   \* on the record: the decision standing about each stopped run
  caps,        \* the caps in force: the configured ones and what was crossed
  claimed,     \* the stopped runs whose re-run is claimed (RerunStore)
  runs,        \* the runs' own records
  host,        \* where the process hosting a run is, "none" when there is none
  carrier,     \* what each carrying process has read and is about to do
  item,        \* the work item in the tracker: "taken" (claimed or blocked), "open", "closed"
  decided, mishaps,      \* spent of the bounds
  answered,    \* history: attempts that were judged
  sentBack,    \* history: attempts whose first verdict spent a round
  gaveBack     \* history: fresh runs whose claim was given back

bounds == <<decided, mishaps>>
history == <<answered, sentBack, gaveBack>>
record == <<counters, decisions, caps>>
vars == <<record, claimed, runs, host, item, carrier, bounds, history>>

NoAttempt == <<0, 0>>
NoDecision == [word |-> "none", rounds |-> 0]
NoRun == [status |-> "none", at |-> "develop", stop |-> "none", attempts |-> 0,
          granted |-> 0, carried |-> 0, last |-> 0, stalled |-> FALSE, epoch |-> 0, from |-> 0]
Idle == [at |-> "idle", run |-> 0, rounds |-> 0]

MaxOf(a, b) == IF a > b THEN a ELSE b
MinOf(a, b) == IF a < b THEN a ELSE b
Sum(S, f(_)) == MapThenSumSet(f, S)

\* runstate.RoundKey, and the identity this hosting charges under.
Attempt(r) == <<r, runs[r].attempts>>
Charger(r) == <<r, runs[r].epoch>>

Mishap == mishaps < MaxMishaps /\ mishaps' = mishaps + 1

Live == {r \in Run : runs[r].status = "live"}
Started == {r \in Run : runs[r].status # "none"}

Init ==
  /\ counters = [grants |-> 0, granted |-> 0, committed |-> 0, rounds |-> 0, reruns |-> 0,
                 crossings |-> 0, judged |-> NoAttempt, last |-> NoAttempt, charger |-> <<0, 0>>]
  /\ decisions = [r \in Run |-> NoDecision]
  /\ caps = Caps
  /\ claimed = {}
  /\ runs = [r \in Run |-> IF r = 1 THEN [NoRun EXCEPT !.status = "live", !.epoch = 1] ELSE NoRun]
  /\ host = [r \in Run |-> IF r = 1 THEN "develop" ELSE "none"]
  /\ carrier = [c \in Carriers |-> Idle]
  /\ decided = 0 /\ mishaps = 0
  /\ item = "taken"
  /\ answered = {} /\ sentBack = {} /\ gaveBack = {}

-----------------------------------------------------------------------------
(* The record: rounds. *)

\* TriageCounters.committed, reserved, RoundsUncommitted, releaseReservedRounds.
Committed(k) == MaxOf(k.committed, k.rounds)
Reserved(k) == MaxOf(k.committed - k.rounds, 0)
Uncommitted(k) == MaxOf(caps["rounds"] - Committed(k), 0)
Release(k, n) == [k EXCEPT !.committed = @ - MinOf(n, Reserved(k))]

AlreadyJudged_LastRound(k, a) == k.last = a                         \* mutant
AlreadyJudged(k, a) == k.judged = a \/ k.last = a

\* TriageStore.RecordReviewRound.
Charged(k, a, charger) ==
  IF AlreadyJudged(k, a) THEN k
  ELSE [k EXCEPT !.rounds = @ + 1, !.judged = a, !.last = a, !.charger = charger]

\* TriageCounters.reservedFor: the round was reserved for this attempt's run, or
\* for a run whose repair no longer stands.
ReservedFor(k, a) ==
  /\ Reserved(k) > 0
  /\ LET repairs == {r \in Run : decisions[r].word = "repair"}
     IN  repairs # {} => a[1] \in repairs

\* TriageStore.RecordUnchargedVerdict.
Uncharged(k, a) ==
  IF AlreadyJudged(k, a) THEN k
  ELSE LET noted == [k EXCEPT !.judged = a]
       IN  IF ReservedFor(k, a) THEN Release(noted, 1) ELSE noted

\* TriageStore.ReturnReviewRound: to the process that charged it, and no other.
Returned(k, a, charger) ==
  IF k.last = a /\ k.rounds >= 1 /\ k.charger = charger
  THEN [k EXCEPT !.rounds = @ - 1, !.last = NoAttempt, !.charger = <<0, 0>>,
                 !.judged = IF @ = a THEN NoAttempt ELSE @]
  ELSE k

-----------------------------------------------------------------------------
(* The record: decisions. *)

\* TriageCounters.recordDecision: one decision stands per run.  A repair put in
\* place of a repair adds up; anything else put in its place releases its rounds.
Superseding_KeepsRounds(k, r, word) == k                            \* mutant
Superseding(k, r, word) ==
  IF decisions[r].word = "repair" /\ word # "repair" THEN Release(k, decisions[r].rounds) ELSE k

Standing(r, word, rounds) ==
  decisions' = [decisions EXCEPT ![r] =
    [word |-> word, rounds |-> rounds + IF decisions[r].word = "repair" /\ word = "repair"
                                        THEN decisions[r].rounds ELSE 0]]

\* The development manager decides about a run the docket showed as stopped; by
\* then it may be going again.
Decides(r) ==
  /\ r \in Started /\ runs[r].stop # "none"
  /\ decided < MaxDecisions /\ decided' = decided + 1
  /\ UNCHANGED <<caps, claimed, runs, host, item, carrier, mishaps, history>>

Room_Spent(k) == MaxOf(caps["rounds"] - k.rounds, 0)                \* mutant
Room(k) == Uncommitted(k)

\* TriageStore.GrantRepair: cut to the rounds the cap has room for.
GrantRepair(r) ==
  /\ Decides(r)
  /\ counters.grants < caps["grants"] /\ Room(counters) > 0
  /\ LET n == MinOf(GrantSize, Room(counters))
     IN  /\ counters' = [counters EXCEPT !.grants = @ + 1, !.granted = @ + n,
                                         !.committed = Committed(counters) + n]
         /\ Standing(r, "repair", n)

\* TriageStore.RecordRerun: the repair it supersedes is released before it is
\* measured against the cap.
RecordRerun(r) ==
  /\ Decides(r)
  /\ LET k == Superseding(counters, r, "rerun")
     IN  /\ k.reruns < caps["reruns"] /\ Uncommitted(k) > 0
         /\ counters' = [k EXCEPT !.reruns = @ + 1]
  /\ Standing(r, "rerun", 0)

\* TriageStore.RecordDecision: a wait, an escalation or a re-scope, spending nothing.
RecordDecision(r) ==
  /\ Decides(r)
  /\ counters' = Superseding(counters, r, "wait")
  /\ Standing(r, "wait", 0)

\* TriageStore.CrossCap: one step past what is standing, and past what is spent.
Spent(b) == CASE b = "rounds" -> Committed(counters)
              [] b = "grants" -> counters.grants
              [] b = "reruns" -> counters.reruns

CrossCap(b) ==
  /\ counters.crossings < MaxCrossings
  /\ caps' = [caps EXCEPT ![b] = MaxOf(@, Spent(b)) + 1]
  /\ counters' = [counters EXCEPT !.crossings = @ + 1]
  /\ UNCHANGED <<decisions, claimed, runs, host, item, carrier, bounds, history>>

-----------------------------------------------------------------------------
(* A run: attempts, verdicts, and how it stops. *)

Hosted(r, at) == runs[r].status = "live" /\ host[r] = at
Steps(r, at) == host' = [host EXCEPT ![r] = at]

Stops(r, why) ==
  /\ runs' = [runs EXCEPT ![r].status = "stopped", ![r].stop = why]
  /\ Steps(r, "none")

\* develop, the checks, and the save of the reviewing phase that clears what the
\* attempt was handed back.
Delivers(r) ==
  /\ Hosted(r, "develop")
  /\ runs' = [runs EXCEPT ![r].at = "review"]
  /\ Steps(r, "review")
  /\ UNCHANGED <<record, claimed, item, carrier, bounds, history>>

\* A failing check goes back to the developer and costs no round.
ChecksFail(r) ==
  /\ Hosted(r, "develop")
  /\ Steps(r, "repair")
  /\ UNCHANGED <<record, claimed, runs, item, carrier, bounds, history>>

\* activeRun.recordReviewVerdict: findings about a change that is there spend a
\* round; an approval, a trivial residue and an escalation spend nothing.
SendsBack(r) ==
  /\ Hosted(r, "review")
  /\ counters' = Charged(counters, Attempt(r), Charger(r))
  /\ answered' = answered \cup {Attempt(r)}
  /\ sentBack' = IF Attempt(r) \in answered THEN sentBack ELSE sentBack \cup {Attempt(r)}
  /\ Steps(r, "repair")
  /\ UNCHANGED <<decisions, caps, claimed, runs, item, carrier, bounds, gaveBack>>

SpendsNothing(r) ==
  /\ Hosted(r, "review")
  /\ counters' = Uncharged(counters, Attempt(r))
  /\ answered' = answered \cup {Attempt(r)}
  /\ \/ Steps(r, "approved") /\ runs' = [runs EXCEPT ![r].at = "approved"]
     \/ Steps(r, "repair") /\ UNCHANGED runs          \* one out-of-scope note
     \/ Stops(r, "escalated")
  /\ UNCHANGED <<decisions, caps, claimed, item, carrier, bounds, sentBack, gaveBack>>

\* State.RepairBudget: the configured attempts and all that continuations granted.
RepairBudget(r) == Attempts + runs[r].granted

\* activeRun.repair: the attempt is charged to the run before it is started.
Repairs(r) ==
  /\ Hosted(r, "repair") /\ runs[r].attempts < RepairBudget(r)
  /\ runs' = [runs EXCEPT ![r].attempts = @ + 1, ![r].at = "develop"]
  /\ Steps(r, "develop")
  /\ UNCHANGED <<record, claimed, item, carrier, bounds, history>>

\* blockOnUnresolvedFindings and its like: what the developer was handed stands.
Blocks(r) ==
  /\ Hosted(r, "repair") /\ runs[r].attempts >= RepairBudget(r)
  /\ Stops(r, "findings")
  /\ UNCHANGED <<record, claimed, item, carrier, bounds, history>>

\* The promotion: it lands, it replays and is judged again under the same
\* attempt, or it stops approved, which no repair answers.
Promotes(r) ==
  /\ Hosted(r, "approved")
  /\ \/ /\ runs' = [runs EXCEPT ![r].status = "landed"]
        /\ item' = "closed"
        /\ Steps(r, "none") /\ UNCHANGED mishaps
     \/ /\ Mishap
        /\ runs' = [runs EXCEPT ![r].at = "review"]
        /\ Steps(r, "review") /\ UNCHANGED item
     \/ Stops(r, "approved") /\ UNCHANGED <<mishaps, item>>
  /\ UNCHANGED <<record, claimed, carrier, decided, history>>

\* State.ReturnGrantedRound: all that the last continuation was handed no longer
\* counts as carried out.
ReturnGrantedRound(rec) == [rec EXCEPT !.carried = @ - rec.last, !.last = 0]

\* Rerunner.withdrawEnvironmental: by the process that started the fresh run.
GivesBack(r) == runs[r].from # 0 /\ runs[r].epoch = 1

\* settleEnvironmentalRound on the way out of a round that counts as undelivered.
Refused(r, why) ==
  /\ Mishap
  /\ counters' = Returned(counters, Attempt(r), Charger(r))
  /\ runs' = [runs EXCEPT ![r] = [ReturnGrantedRound(@) EXCEPT !.status = "stopped", !.stop = why]]
  /\ Steps(r, "none")
  /\ IF GivesBack(r)
     THEN claimed' = claimed \ {runs[r].from} /\ gaveBack' = gaveBack \cup {r}
     ELSE UNCHANGED <<claimed, gaveBack>>
  /\ UNCHANGED <<decisions, caps, carrier, decided, answered, sentBack>>

\* The developer of an attempt, whichever it is, could not be spawned; what a
\* repair was handed back is still on the record.
CannotSpawn(r) ==
  /\ Hosted(r, "develop")
  /\ Refused(r, IF runs[r].attempts > 0 THEN "findings" ELSE "refused")
  /\ UNCHANGED item

\* endOnUsageWindow: cancelled, with the item given back to the queue.
StoppedByUsageWindow(r) ==
  /\ Hosted(r, "develop") \/ Hosted(r, "review")
  /\ Refused(r, "window")
  /\ item' = "open"

\* The hosting process is killed; what comes next continues the run or ends it.
Dies(r) ==
  /\ r \in Live /\ host[r] # "none" /\ Mishap
  /\ Steps(r, "none")
  /\ UNCHANGED <<record, claimed, runs, item, carrier, decided, history>>

\* resumableRepair.
Resumable(r) == runs[r].attempts > 0 \/ runs[r].stalled

Resumes(r) ==
  /\ r \in Live /\ host[r] = "none" /\ Resumable(r)
  /\ runs' = [runs EXCEPT ![r].epoch = @ + 1]
  /\ Steps(r, runs[r].at)
  /\ UNCHANGED <<record, claimed, item, carrier, bounds, history>>

\* The reconciler ends what nothing can resume.
Vanishes(r) ==
  /\ r \in Live /\ host[r] = "none" /\ ~Resumable(r)
  /\ Stops(r, IF runs[r].at = "approved" THEN "approved" ELSE "vanished")
  /\ UNCHANGED <<record, claimed, item, carrier, bounds, history>>

Fresh(f, from) ==
  /\ f = Cardinality(Started) + 1 /\ f \in Run
  /\ Live = {}
  /\ runs' = [runs EXCEPT ![f] = [NoRun EXCEPT !.status = "live", !.epoch = 1, !.from = from]]
  /\ Steps(f, "develop")
  /\ item' = "taken"

\* The watch session pulls an item that is open again.
Pulled(f) ==
  /\ item = "open" /\ Fresh(f, 0)
  /\ UNCHANGED <<record, claimed, carrier, bounds, history>>

-----------------------------------------------------------------------------
(* Carrying a decision out. *)

\* RepairContinuer.carriedOut: what the item's runs were already handed.
CarriedOut == Sum(Started, LAMBDA r : runs[r].carried)

Continuable(r) == runs[r].status = "stopped" /\ runs[r].stop \in {"findings", "vanished"}

Reads(c, at, r, n) ==
  /\ carrier' = [carrier EXCEPT ![c] = [at |-> at, run |-> r, rounds |-> n]]
  /\ UNCHANGED <<record, claimed, runs, host, item, bounds, history>>

Remaining(r) == counters.granted - CarriedOut

\* RepairContinuer.Continue under the run's lease, up to its reads.
LooksToContinue(c, r) ==
  /\ carrier[c].at = "idle"
  /\ \A d \in Carriers : carrier[d].at = "continue" => carrier[d].run # r
  /\ Continuable(r) /\ Live = {} /\ item # "closed"
  /\ decisions[r].word = "repair" /\ counters.grants >= 1 /\ Remaining(r) >= 1
  /\ Reads(c, "continue", r, Remaining(r))

\* supersedeOnRun: the run is live again with the attempts it was handed; a stall
\* goes on where it stopped.
Continues(c) ==
  LET r == carrier[c].run  n == carrier[c].rounds  stalled == runs[r].stop = "vanished"
  IN  /\ carrier[c].at = "continue"
      /\ runs' = [runs EXCEPT ![r].status = "live", ![r].granted = @ + n,
                              ![r].carried = @ + n, ![r].last = n, ![r].stalled = stalled,
                              ![r].attempts = IF stalled THEN @ ELSE @ + 1,
                              ![r].at = IF stalled THEN @ ELSE "develop",
                              ![r].epoch = @ + 1]
      /\ Steps(r, IF stalled THEN runs[r].at ELSE "develop")
      /\ item' = "taken"
      /\ carrier' = [carrier EXCEPT ![c] = Idle]
      /\ UNCHANGED <<record, claimed, bounds, history>>

Decided(r) ==
  decisions[r].word = "rerun" /\ r \notin claimed /\ Cardinality(claimed) < counters.reruns

\* Rerunner.Rerun up to the claim.
LooksToRerun(c, r) ==
  /\ carrier[c].at = "idle"
  /\ runs[r].stop \in {"findings", "vanished", "approved", "refused"} /\ runs[r].status = "stopped"
  /\ Live = {} /\ item # "closed" /\ Decided(r)
  /\ Reads(c, "claim", r, 0)

Claims_Unlocked(c) ==                                               \* mutant
  /\ carrier[c].at = "claim"
  /\ claimed' = claimed \cup {carrier[c].run}
  /\ carrier' = [carrier EXCEPT ![c].at = "start"]
  /\ UNCHANGED <<record, runs, host, item, bounds, history>>

\* RerunStore.Claim: one claim per stoppage, under its lock.
Claims(c) ==
  /\ carrier[c].at = "claim"
  /\ IF carrier[c].run \in claimed
     THEN carrier' = [carrier EXCEPT ![c] = Idle] /\ UNCHANGED claimed
     ELSE /\ claimed' = claimed \cup {carrier[c].run}
          /\ carrier' = [carrier EXCEPT ![c].at = "start"]
  /\ UNCHANGED <<record, runs, host, item, bounds, history>>

\* The pipeline starts the fresh run, or answers before it reserved one - as it
\* does while another run of the item is in flight - and the claim goes back.
Starts(c) ==
  /\ carrier[c].at = "start" /\ item # "closed"
  /\ \E f \in Run : Fresh(f, carrier[c].run)
  /\ carrier' = [carrier EXCEPT ![c] = Idle]
  /\ UNCHANGED <<record, claimed, bounds, history>>

Withdraws(c) ==
  /\ carrier[c].at = "start"
  /\ claimed' = claimed \ {carrier[c].run}
  /\ carrier' = [carrier EXCEPT ![c] = Idle]
  /\ UNCHANGED <<record, runs, host, item, bounds, history>>

CarrierDies(c) ==
  /\ carrier[c].at # "idle" /\ Mishap
  /\ carrier' = [carrier EXCEPT ![c] = Idle]
  /\ UNCHANGED <<record, claimed, runs, host, item, decided, history>>

RunStep(r) ==
  \/ Delivers(r) \/ ChecksFail(r) \/ SendsBack(r) \/ SpendsNothing(r) \/ Repairs(r) \/ Blocks(r)
  \/ Promotes(r) \/ CannotSpawn(r) \/ StoppedByUsageWindow(r)
  \/ Resumes(r) \/ Vanishes(r) \/ Pulled(r)

CarrierStep(c) ==
  \/ \E r \in Run : LooksToContinue(c, r) \/ LooksToRerun(c, r)
  \/ Continues(c) \/ Claims(c) \/ Starts(c) \/ Withdraws(c)

Next ==
  \/ \E r \in Run : RunStep(r) \/ Dies(r) \/ GrantRepair(r) \/ RecordRerun(r) \/ RecordDecision(r)
  \/ \E b \in Budget : CrossCap(b)
  \/ \E c \in Carriers : CarrierStep(c) \/ CarrierDies(c)

Spec == Init /\ [][Next]_vars

-----------------------------------------------------------------------------
(* Properties. *)

\* The runs something was judged of, and those of them a stoppage was re-run as.
Judged == {a[1] : a \in answered}
FreshRunsOf(r) == {f \in Judged : runs[f].from = r}

\* Types, and a process hosts a run only while the run is live.
TypeOK ==
  /\ {counters.grants, counters.granted, counters.committed, counters.rounds,
      counters.reruns, counters.crossings, decided, mishaps} \subseteq Nat
  /\ caps \in [Budget -> Nat]
  /\ claimed \subseteq Run
  /\ \A r \in Run :
       /\ decisions[r].word \in {"none", "repair", "rerun", "wait"} /\ decisions[r].rounds \in Nat
       /\ runs[r].status \in {"none", "live", "stopped", "landed"}
       /\ {runs[r].attempts, runs[r].granted, runs[r].carried, runs[r].last} \subseteq Nat
       /\ host[r] \in {"none", "develop", "review", "repair", "approved"}
       /\ host[r] # "none" => r \in Live
  /\ \A c \in Carriers : carrier[c].at \in {"idle", "continue", "claim", "start"}

\* Rounds spent are the attempts whose first verdict sent them back: none goes
\* uncounted and, while one run of the item was judged, none is counted twice -
\* through replays that are judged again and kills between the ledger's save and
\* the run's (recordReviewVerdict, RecordReviewRound).
RoundsAreCounted ==
  /\ counters.rounds >= Cardinality(sentBack)
  /\ Cardinality(Judged) <= 1 => counters.rounds = Cardinality(sentBack)

\* What grants promised, with what was spent, stays within the cap in force: each
\* decision is measured against what is still free, never against what is unspent
\* (GrantRepair, RecordRerun, CrossCap).
PromisesWithinCap == counters.committed <= caps["rounds"]

\* A round is kept for a repair only while a repair that was granted it stands:
\* superseding a decision, and a verdict that cost nothing, give rounds back
\* (recordDecision, RecordUnchargedVerdict).
ReservedForStanding ==
  Reserved(counters) <= Sum({r \in Run : decisions[r].word = "repair"},
                            LAMBDA r : decisions[r].rounds)

\* However many processes carry decisions out, wherever they are killed and
\* whatever the start answers, a claim that was kept bought at most one fresh run
\* that was judged (Rerunner.Rerun, RerunStore.Claim).
OneFreshRunPerClaim == \A r \in Run : Cardinality(FreshRunsOf(r) \ gaveBack) <= 1

=============================================================================
