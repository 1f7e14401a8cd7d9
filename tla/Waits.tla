-------------------------------- MODULE Waits --------------------------------
(***************************************************************************)
(* How one run waits (internal/orchestrator: the attempt loop of           *)
(* pipeline.go, provideroutage.go, recovery.go, reconcilewait.go): for a   *)
(* usage limit, an overloaded server, a provider nobody reaches, a         *)
(* connection that dropped, and an operator who paused the harness; and    *)
(* how a wait whose process exited or was killed is taken up again, by the *)
(* reconcile sweep or by a person.                                         *)
(*                                                                         *)
(* The lease of module RunStore keeps a run to one process, the host.      *)
(* Deadlines are kept as the time left to them and Tick lets one unit of   *)
(* time pass, for the run's record and for a sleeping process alike.  What *)
(* the provider is asked, and what comes of the answer when it serves, is  *)
(* module Delivery's; here an invocation is an ask and an answer.          *)
(***************************************************************************)
EXTENDS Integers

CONSTANTS
  MaxPause,       \* execution.usage_limit_max_pause
  Probe,          \* execution.usage_limit_unknown_reset_pause
  InProcess,      \* execution.usage_limit_in_process_pause
  Overload,       \* execution.server_overload_pause
  Relaunches,     \* execution.transient_relaunches_before_blocking
  Window,         \* recovery.Window
  MaxInterval,    \* recovery.MaxInterval
  Entry,          \* sweepContinuationEntry
  MaxSweeps,      \* runstate.MaxSweepContinuations
  MaxReset,       \* bound: the farthest reset a provider names
  MaxTaken,       \* bound: continuations under way at once
  MaxCalls,       \* bound: what the operator says: pauses, releases, stops
  MaxCrashes      \* bound: killed processes

ASSUME WaitsAssumption ==
  /\ {MaxPause, InProcess, Relaunches, Window, Entry, MaxTaken, MaxCalls, MaxCrashes} \subseteq Nat
  /\ {Probe, Overload, MaxInterval, MaxSweeps, MaxReset} \subseteq Nat \ {0}

VARIABLES
  rec,        \* the run's durable record, its deadline as the time left to it
  host,       \* the process serving the run
  taken,      \* continuations sweeps launched that did not reach the run yet
  release,    \* the recorded release of the run's wait, if any
  person,     \* an operator between reading the waiting run and releasing it
  hold,       \* the operator paused the harness
  stop,       \* a stop of this run is recorded
  calls,      \* how often the operator said something
  crashes,    \* how many processes were killed
  slept,      \* history: time spent asleep on a limit or an overload
  retrying,   \* history: time spent asleep on recoverable failures
  owed,       \* history: how much of the announced wait is still ahead
  asked       \* history: asks since the operator's word that forbids them

operator == <<release, person, hold, stop, calls>>
history == <<slept, retrying, owed, asked>>
vars == <<rec, host, taken, operator, crashes, history>>

None == -1          \* no deadline
Capacity == {"limit", "overload"}
MinOf(a, b) == IF a < b THEN a ELSE b

NoHost == [at |-> "none", stayed |-> 0, left |-> 0, recorded |-> FALSE]

Enters(step) == host' = [NoHost EXCEPT !.at = step]
Goes(step) == host' = [host EXCEPT !.at = step]
Leaves == host' = NoHost

Running == rec.status = "running"

\* pausedForUsageLimit: the run waits for a recorded deadline.
Waiting == Running /\ rec.left # None

\* recovery.Interval of the next attempt: the Fibonacci series in units of time, up
\* to MaxInterval.  The two numbers stand for the count of attempts on the record.
Interval == MinOf(rec.current, MaxInterval)
Advances(r) == [r EXCEPT !.previous = r.current, !.current = r.previous + r.current,
                         !.waited = @ + Interval]

Init ==
  /\ rec = [status |-> "running", cause |-> "none", left |-> None, charged |-> 0,
            held |-> FALSE, relaunches |-> 0, previous |-> 0, current |-> 1, waited |-> 0,
            sweeps |-> 0, sweptFor |-> FALSE, entry |-> 0]
  /\ host = [NoHost EXCEPT !.at = "boundary"]
  /\ taken = 0
  /\ release = "none" /\ person = "away" /\ hold = FALSE /\ stop = FALSE
  /\ calls = 0 /\ crashes = 0
  /\ slept = 0 /\ retrying = 0 /\ owed = 0
  /\ asked = [hold |-> 0, stop |-> 0]

Ends(status) ==
  /\ rec' = [rec EXCEPT !.status = status]
  /\ Leaves
  /\ UNCHANGED <<taken, operator, crashes, history>>

-----------------------------------------------------------------------------
(* The boundary every invocation passes: a stop, then the pause. *)

\* activeRun.stopRequested, at the top of the attempt loop.
StopsWhenAsked == host.at = "boundary" /\ stop /\ Ends("cancelled")

PassesStop ==
  /\ host.at = "boundary" /\ ~stop
  /\ Goes("paused?")
  /\ UNCHANGED <<rec, taken, operator, crashes, history>>

\* activeRun.holdForOperator: park durably, then sleep in this process for as
\* long as it may stay open; the exit leaves the run in flight.
ParksOnHold ==
  /\ host.at = "paused?" /\ hold /\ (~rec.held \/ host.stayed < InProcess)
  /\ rec' = [rec EXCEPT !.held = TRUE, !.cause = IF rec.held THEN @ ELSE "hold"]
  /\ Goes(IF host.stayed < InProcess THEN "held" ELSE "paused?")
  /\ UNCHANGED <<taken, operator, crashes, history>>

ExitsOnHold ==
  /\ host.at \in {"held", "paused?"} /\ hold /\ rec.held /\ host.stayed >= InProcess
  /\ Leaves
  /\ UNCHANGED <<rec, taken, operator, crashes, history>>

PassesHold ==
  /\ host.at \in {"held", "paused?"} /\ ~hold
  /\ rec' = [rec EXCEPT !.held = FALSE, !.cause = IF rec.held THEN "none" ELSE @]
  /\ Goes("ask")
  /\ UNCHANGED <<taken, operator, crashes, history>>

Asks ==
  /\ host.at = "ask"
  /\ Goes("asking")
  /\ asked' = [hold |-> IF hold THEN MinOf(asked.hold + 1, 2) ELSE 0,
               stop |-> IF stop THEN MinOf(asked.stop + 1, 2) ELSE 0]
  /\ UNCHANGED <<rec, taken, operator, crashes, slept, retrying, owed>>

-----------------------------------------------------------------------------
(* What the provider may answer. *)

\* Served: another invocation follows, or the run is through.
Served ==
  /\ host.at = "asking"
  /\ \/ /\ Goes("boundary")
        /\ UNCHANGED <<rec, taken, operator, crashes, history>>
     \/ Ends("succeeded")

\* A pause of the given cause and length, durable before any waiting starts.
\* A release or an operator's stamp of before it is older than it from here on.
RecordPause(cause, wait, step) ==
  /\ rec' = [rec EXCEPT !.cause = cause, !.left = wait, !.sweptFor = FALSE]
  /\ host' = [host EXCEPT !.at = step, !.recorded = TRUE, !.left = wait]
  /\ release' = IF release = "current" THEN "older" ELSE release
  /\ person' = IF person = "stamped" THEN "late" ELSE person
  /\ owed' = MinOf(wait, Probe)
  /\ UNCHANGED <<taken, hold, stop, calls, crashes, slept, retrying, asked>>

Fits(wait) == wait <= MaxPause - rec.charged

\* activeRun.pauseForUsageLimit: a reset already past is a person's; one the
\* provider does not name is waited for by the probe; what does not fit the
\* rest of the run's budget is not waited for at all.
RefusedForLimit ==
  /\ host.at = "asking"
  /\ \/ Ends("blocked")
     \/ \E wait \in {Probe} \cup 1..MaxReset :
          IF Fits(wait) THEN RecordPause("limit", wait, "await") ELSE Ends("cancelled")

\* activeRun.pauseForServerOverload.
RefusedForOverload ==
  /\ host.at = "asking"
  /\ IF Fits(Overload) THEN RecordPause("overload", Overload, "await")
                       ELSE Ends("blocked")

\* activeRun.pauseForProviderOutage: no budget bounds this wait.
NobodyAnswers ==
  /\ host.at = "asking"
  /\ RecordPause("outage", Probe, "outage")

RetryFits_SpentOnly(delay) == rec.waited <= Window                  \* mutant
RetryFits(delay) == rec.waited + delay <= Window

\* The provider died: relaunch while the budget lasts (recordRelaunch), then
\* wait out what a later attempt may survive (recoverFrom), then give up.
Dies ==
  /\ host.at = "asking"
  /\ IF rec.relaunches < Relaunches
     THEN /\ rec' = [rec EXCEPT !.relaunches = @ + 1]
          /\ Goes("boundary")
          /\ UNCHANGED <<taken, operator, crashes, history>>
     ELSE \/ Ends("blocked")
          \/ /\ RetryFits(Interval)
             /\ rec' = Advances(rec)
             /\ host' = [host EXCEPT !.at = "retrying", !.left = Interval]
             /\ UNCHANGED <<taken, operator, crashes, history>>

RetriesAgain_PastTheBoundary ==                                     \* mutant
  /\ host.at = "retrying" /\ host.left = 0
  /\ Goes("ask")
  /\ UNCHANGED <<rec, taken, operator, crashes, history>>

RetriesAgain ==
  /\ host.at = "retrying" /\ host.left = 0
  /\ Goes("boundary")
  /\ UNCHANGED <<rec, taken, operator, crashes, history>>

-----------------------------------------------------------------------------
(* Serving a recorded deadline. *)

Released_Any == release # "none"                                    \* mutant

\* activeRun.releasedByOperator: a release of before the pause this process
\* recorded is not for it; a process that took the run up recorded none.
Released == release = "current" \/ (release = "older" /\ ~host.recorded)

NextProbe == MinOf(rec.left, Probe)

\* activeRun.awaitRecordedUsageLimit, in the order its cases are asked.
SpentAlready ==
  /\ host.at = "await" /\ rec.charged > MaxPause
  /\ Ends(IF rec.cause = "overload" THEN "blocked" ELSE "cancelled")

NeedsNoSleep ==
  /\ host.at = "await" /\ rec.charged <= MaxPause
  /\ Released \/ rec.left = 0
  /\ host' = [host EXCEPT !.at = "clear", !.left = 0]
  /\ UNCHANGED <<rec, taken, operator, crashes, history>>

SleepsAProbe == ~Released /\ rec.left > 0 /\ rec.charged <= MaxPause

ExitsOnBound ==
  /\ host.at = "await" /\ SleepsAProbe
  /\ host.stayed + NextProbe > InProcess
  /\ Leaves
  /\ UNCHANGED <<rec, taken, operator, crashes, history>>

Charged_Later(r) == r                                               \* mutant
Charged(r) == [r EXCEPT !.charged = @ + NextProbe]

\* What the probe will spend is saved before it is slept.
SleepsProbe ==
  /\ host.at = "await" /\ SleepsAProbe
  /\ host.stayed + NextProbe <= InProcess
  /\ rec' = Charged(rec)
  /\ host' = [host EXCEPT !.at = "asleep", !.left = NextProbe]
  /\ UNCHANGED <<taken, operator, crashes, history>>

\* activeRun.waitForProbe wakes at the probe's end or on a release; what was
\* not slept is given back by the save that clears the pause.
WakesUp ==
  /\ \/ host.at = "asleep" /\ (host.left = 0 \/ Released)
     \/ host.at = "outage" /\ (rec.left = 0 \/ Released)
  /\ host' = [host EXCEPT !.at = "clear", !.left = IF host.at = "asleep" THEN @ ELSE 0]
  /\ UNCHANGED <<rec, taken, operator, crashes, history>>

\* activeRun.clearUsageLimitPause: the release goes first, then the pause.
\* (What is owed is history: nothing more once the operator spoke for this pause
\* or while no process that recorded it was left.)
ConsumesRelease ==
  /\ host.at = "clear"
  /\ release' = "none"
  /\ owed' = IF release = "current" \/ (release = "older" /\ ~host.recorded)
              THEN 0 ELSE owed
  /\ Goes("cleared")
  /\ UNCHANGED <<rec, taken, person, hold, stop, calls, crashes, slept, retrying, asked>>

ClearsPause ==
  /\ host.at = "cleared"
  /\ rec' = [rec EXCEPT !.left = None, !.cause = "none", !.charged = @ - host.left]
  /\ host' = [host EXCEPT !.at = "boundary", !.left = 0]
  /\ UNCHANGED <<taken, operator, crashes, history>>

-----------------------------------------------------------------------------
(* Taking a run up again once nothing hosts it. *)

Adoptable == Waiting \/ (Running /\ rec.held)

\* Pipeline.resumeRun: a stop ends the run, a park on the operator's pause is
\* cleared, a recorded deadline is served before anything is asked.
Resumes ==
  /\ host.at = "resume"
  /\ IF stop THEN Ends("cancelled")
     ELSE /\ rec' = [rec EXCEPT !.held = FALSE,
                                !.cause = IF rec.held THEN "none" ELSE @]
          /\ Goes(IF rec.left = None THEN "boundary"
                  ELSE IF rec.cause = "outage" THEN "outage" ELSE "await")
          /\ UNCHANGED <<taken, operator, crashes, history>>

\* Pipeline.Run of the item by a person: refused while the harness is paused.
PersonRuns ==
  /\ host.at = "none" /\ Adoptable /\ ~hold
  /\ Enters("resume")
  /\ UNCHANGED <<rec, taken, operator, crashes, history>>

ExitedWait_LimitOnly ==                                             \* mutant
  Waiting /\ rec.left = 0 /\ ~rec.held /\ rec.cause = "limit"

\* exitedWait: the deadline of a capacity wait passed.  The sweep asks under the
\* run's lease, so only of a run nothing hosts.
ExitedWait == Waiting /\ rec.left = 0 /\ ~rec.held /\ rec.cause \in Capacity

\* Reconciler.takeUpWait: one continuation recorded on the run, unless another
\* sweep recorded one for this deadline moments ago or the record is full.
TakesUpWait ==
  /\ host.at = "none" /\ ExitedWait
  /\ ~(rec.sweptFor /\ rec.entry > 0)
  /\ rec.sweeps < MaxSweeps /\ taken < MaxTaken
  /\ rec' = [rec EXCEPT !.sweeps = @ + 1, !.sweptFor = TRUE, !.entry = Entry]
  /\ taken' = taken + 1
  /\ UNCHANGED <<host, operator, crashes, history>>

\* Pipeline.Continue: refused under the operator's pause, for a run another
\* process took up meanwhile, and for one no longer waiting.
ContinuesWait ==
  /\ taken > 0
  /\ taken' = taken - 1
  /\ IF ~hold /\ host.at = "none" /\ Waiting THEN Enters("resume") ELSE UNCHANGED host
  /\ UNCHANGED <<rec, operator, crashes, history>>

\* The reconciler settles a run nothing hosts and that waits for nothing.
SettlesInterrupted ==
  /\ host.at = "none" /\ Running /\ ~Adoptable
  /\ Ends("failed")

-----------------------------------------------------------------------------
(* The operator, the clock, and crashes. *)

Says == Running /\ calls < MaxCalls /\ calls' = calls + 1

PausesHarness ==
  /\ ~hold /\ Says /\ hold' = TRUE
  /\ asked' = [asked EXCEPT !.hold = 0]
  /\ UNCHANGED <<rec, host, taken, release, person, stop, crashes, slept, retrying, owed>>

ResumesHarness ==
  /\ hold /\ hold' = FALSE
  /\ asked' = [asked EXCEPT !.hold = 0]
  /\ UNCHANGED <<rec, host, taken, release, person, stop, calls, crashes, slept, retrying, owed>>

RequestsStop ==
  /\ ~stop /\ Says /\ stop' = TRUE
  /\ UNCHANGED <<rec, host, taken, release, person, hold, crashes, history>>

\* `yoyo resume <item>` reads the waiting run without its lease, stamps the
\* release and writes it: three steps beside whatever the host does.
ReadsWaitingRun ==
  /\ person = "away" /\ Waiting /\ Says /\ person' = "read"
  /\ UNCHANGED <<rec, host, taken, release, hold, stop, crashes, history>>

StampsRelease ==
  /\ person = "read" /\ person' = "stamped"
  /\ UNCHANGED <<rec, host, taken, release, hold, stop, calls, crashes, history>>

WritesRelease ==
  /\ person \in {"stamped", "late"} /\ person' = "away"
  /\ release' = IF person = "stamped" THEN "current" ELSE "older"
  /\ UNCHANGED <<rec, host, taken, hold, stop, calls, crashes, history>>

\* A unit of time passes.
Sooner(n) == IF n > 0 THEN n - 1 ELSE n

Asleep == host.at \in {"asleep", "retrying"} /\ host.left > 0

Tick ==
  /\ Running
  /\ rec' = [rec EXCEPT !.left = Sooner(@), !.entry = Sooner(@)]
  /\ host' = [host EXCEPT
       !.left = IF Asleep THEN @ - 1 ELSE @,
       !.stayed = IF host.at = "held" \/ (host.at = "asleep" /\ host.left > 0)
                  THEN MinOf(@ + 1, InProcess) ELSE @]
  /\ slept' = IF Asleep /\ host.at = "asleep" THEN slept + 1 ELSE slept
  /\ retrying' = IF Asleep /\ host.at = "retrying" THEN retrying + 1 ELSE retrying
  /\ owed' = Sooner(owed)
  /\ UNCHANGED <<taken, operator, crashes, asked>>

Crash ==
  /\ host.at # "none" /\ crashes < MaxCrashes
  /\ crashes' = crashes + 1
  /\ Leaves
  /\ UNCHANGED <<rec, taken, operator, history>>

\* A sweep killed before its continuation reached the run.
SweepCrash ==
  /\ taken > 0 /\ crashes < MaxCrashes
  /\ crashes' = crashes + 1
  /\ taken' = taken - 1
  /\ UNCHANGED <<rec, host, operator, history>>

Host ==
  \/ StopsWhenAsked \/ PassesStop \/ ParksOnHold \/ ExitsOnHold \/ PassesHold \/ Asks
  \/ Served \/ RefusedForLimit \/ RefusedForOverload \/ NobodyAnswers \/ Dies \/ RetriesAgain
  \/ SpentAlready \/ NeedsNoSleep \/ ExitsOnBound \/ SleepsProbe \/ WakesUp
  \/ ConsumesRelease \/ ClearsPause \/ Resumes

Sweep == TakesUpWait \/ SettlesInterrupted

Next ==
  \/ Host \/ Sweep \/ ContinuesWait \/ PersonRuns
  \/ PausesHarness \/ ResumesHarness \/ RequestsStop
  \/ ReadsWaitingRun \/ StampsRelease \/ WritesRelease
  \/ Tick \/ Crash \/ SweepCrash

\* Time passes, a live process goes on, `yoyo reconcile` is run again and again.
Fairness == WF_vars(Tick) /\ WF_vars(Host) /\ WF_vars(Sweep) /\ WF_vars(ContinuesWait)

Spec == Init /\ [][Next]_vars /\ Fairness

-----------------------------------------------------------------------------
(* Properties. *)

TypeOK ==
  /\ rec.status \in {"running", "succeeded", "failed", "blocked", "cancelled"}
  /\ rec.cause \in {"none", "limit", "overload", "outage", "hold"}
  /\ rec.left \in {None} \cup Nat
  /\ {rec.charged, rec.relaunches, rec.previous, rec.current, rec.waited,
      rec.sweeps, rec.entry} \subseteq Nat
  /\ {rec.held, rec.sweptFor, hold, stop, host.recorded} \subseteq BOOLEAN
  /\ host.at \in {"none", "boundary", "paused?", "held", "ask", "asking", "retrying",
                  "await", "asleep", "outage", "clear", "cleared", "resume"}
  /\ {host.stayed, host.left, taken, calls, crashes, slept, retrying, owed} \subseteq Nat
  /\ release \in {"none", "older", "current"}
  /\ person \in {"away", "read", "stamped", "late"}
  /\ {asked.hold, asked.stop} \subseteq 0..2

\* The time a run really slept on its provider's refusals never passes what its
\* record was charged, nor the configured maximum, however many processes were
\* killed in mid-sleep, released early, or took it up (pauseForUsageLimit,
\* awaitRecordedUsageLimit).
SleepsWithinBudget == slept <= rec.charged /\ slept <= MaxPause

\* The same of the window a recoverable failure is waited out for (recoverFrom).
RetriesWithinWindow == retrying <= Window

\* Once the operator paused the harness, or asked for the run to stop, at most the
\* one invocation already past its boundary is made, through every reissue,
\* relaunch, retry, resumption and crash (develop's loop, resumeRun, Continue).
AsksOnceMore == asked.hold <= 1 /\ asked.stop <= 1

\* The provider is not asked again before a probe of the wait it announced went
\* by, or the operator released it; a process that was killed in between changes
\* nothing about that (the recorded deadline, releasedByOperator).
AsksWhenDue == [][Asks => owed = 0]_vars

\* A run waiting for capacity is taken up again whenever the harness is not
\* paused for good: by its own process or, after that one exited or was killed,
\* by the sweep - until its record holds as many continuations as it may.
WaitEnds ==
  []<>~hold => (Waiting /\ rec.cause \in Capacity
                  ~> ~Waiting \/ rec.sweeps = MaxSweeps)

=============================================================================
