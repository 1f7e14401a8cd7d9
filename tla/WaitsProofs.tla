----------------------------- MODULE WaitsProofs -----------------------------
(***************************************************************************)
(* What holds of a waiting run for every budget, probe, window and bound   *)
(* of module Waits.  The invariant adds to the types: where the host is    *)
(* decides whether a deadline stands (Standing); what is slept was charged *)
(* first and fitted when the deadline was recorded (Budgeted); retries     *)
(* are counted before they are slept (Windowed); what is left of the       *)
(* announced wait is inside the probe being slept (Due); and nothing       *)
(* passes a boundary behind the operator's word (Obeys).                   *)
(***************************************************************************)
EXTENDS Waits, TLAPS

Shape ==
  /\ {"status", "cause", "left", "charged", "held", "relaunches", "previous", "current", "waited", "sweeps",
      "sweptFor", "entry"} \subseteq DOMAIN rec
  /\ {"at", "stayed", "left", "recorded"} \subseteq DOMAIN host /\ {"hold", "stop"} \subseteq DOMAIN asked

BeforeTheAsk == {"boundary", "paused?", "held", "ask", "asking", "retrying"}

Standing ==
  /\ host.at \in BeforeTheAsk => rec.left = None
  /\ host.at \in {"ask", "asking"} => ~rec.held
  /\ host.at \in {"await", "asleep"} => rec.left # None /\ rec.cause \in Capacity
  /\ host.at \in {"outage", "clear", "cleared"} => rec.left # None
  /\ rec.left # None => rec.cause \in Capacity \cup {"outage"} /\ ~rec.held

\* What was charged and is not slept yet, by the process that still may.
Unslept == IF host.at \in {"asleep", "clear", "cleared"} THEN host.left ELSE 0

Budgeted ==
  /\ slept + Unslept <= rec.charged /\ slept <= MaxPause
  /\ rec.left # None /\ rec.cause \in Capacity => slept + rec.left <= MaxPause
  /\ host.at = "asleep" => host.left <= rec.left

Windowed ==
  /\ retrying + (IF host.at = "retrying" THEN host.left ELSE 0) <= rec.waited
  /\ rec.waited <= Window

Due ==
  /\ owed <= Probe
  /\ owed <= IF rec.left = None THEN 0 ELSE rec.left
  /\ host.at = "asleep" => owed <= host.left
  /\ host.at = "clear" => owed = 0 \/ Released
  /\ host.at = "cleared" => owed = 0
  /\ person = "late" => release # "current"

Obeys ==
  /\ hold => asked.hold + (IF host.at = "ask" THEN 1 ELSE 0) <= 1
  /\ stop => asked.stop + (IF host.at \in {"paused?", "held", "ask"} THEN 1 ELSE 0) <= 1
  /\ ~hold => asked.hold = 0
  /\ ~stop => asked.stop = 0

Inv == Shape /\ TypeOK /\ Standing /\ Budgeted /\ Windowed /\ Due /\ Obeys

-----------------------------------------------------------------------------

LEMMA InitInv == Init => Inv
<1>. SUFFICES ASSUME Init PROVE Inv
  OBVIOUS
<1>1. /\ Shape /\ rec.status = "running" /\ rec.cause = "none" /\ rec.left = None
      /\ rec.charged = 0 /\ rec.relaunches = 0 /\ rec.previous = 0 /\ rec.waited = 0
      /\ rec.sweeps = 0 /\ rec.entry = 0 /\ rec.current = 1 /\ rec.held = FALSE /\ rec.sweptFor = FALSE
  BY DEF Init, Shape, NoHost
<1>2. host.at = "boundary" /\ host.stayed = 0 /\ host.left = 0 /\ host.recorded = FALSE
  BY DEF Init, NoHost
<1>3. asked.hold = 0 /\ asked.stop = 0 /\ release = "none" /\ person = "away" /\ ~hold /\ ~stop
        /\ hold \in BOOLEAN /\ stop \in BOOLEAN
  BY DEF Init
<1>4. taken = 0 /\ calls = 0 /\ crashes = 0 /\ slept = 0 /\ retrying = 0 /\ owed = 0
  BY DEF Init
<1>5. TypeOK
  <2>1. {rec.held, rec.sweptFor, hold, stop, host.recorded} \subseteq BOOLEAN
    BY <1>1, <1>2, <1>3
  <2>. QED
    BY <1>1, <1>2, <1>3, <1>4, <2>1 DEF TypeOK, None
<1>. QED
  BY <1>1, <1>2, <1>3, <1>4, <1>5, WaitsAssumption DEF Inv, Standing, Budgeted, Windowed, Due,
      Obeys, BeforeTheAsk, None, Capacity, Unslept, Released

\* A run that ends keeps everything: its process is gone and nothing is slept.
LEMMA EndsKept ==
  ASSUME Inv, NEW status \in {"succeeded", "failed", "blocked", "cancelled"}, Ends(status)
  PROVE  Inv'
BY WaitsAssumption DEF Ends, Inv, Leaves, operator, history, Shape, TypeOK, Standing, Budgeted,
    Windowed, Due, Obeys, NoHost, None, BeforeTheAsk, Capacity, Unslept, Released

\* A deadline recorded after an ask: what it announces fits what is left of the budget.
LEMMA PauseKept ==
  ASSUME Inv, host.at = "asking", NEW cause \in {"limit", "overload", "outage"}, NEW wait \in Nat,
         cause # "outage" => Fits(wait), wait > 0,
         NEW step \in {"await", "outage"}, step = "outage" <=> cause = "outage",
         RecordPause(cause, wait, step)
  PROVE  Inv'
<1>1. MinOf(wait, Probe) \in Nat /\ MinOf(wait, Probe) <= wait /\ MinOf(wait, Probe) <= Probe
  BY WaitsAssumption DEF MinOf
<1>2. Shape'
  BY WaitsAssumption, <1>1 DEF RecordPause, Fits, Inv, Shape, TypeOK, Standing, Budgeted,
      Windowed, Due, Obeys, None, BeforeTheAsk, Capacity, Unslept, Released
<1>3. TypeOK'
  BY WaitsAssumption, <1>1 DEF RecordPause, Fits, Inv, Shape, TypeOK, Standing, Budgeted,
      Windowed, Due, Obeys, None, BeforeTheAsk, Capacity, Unslept, Released
<1>4. Standing'
  BY WaitsAssumption, <1>1 DEF RecordPause, Fits, Inv, Shape, TypeOK, Standing, Budgeted,
      Windowed, Due, Obeys, None, BeforeTheAsk, Capacity, Unslept, Released
<1>5. Budgeted'
  BY WaitsAssumption, <1>1 DEF RecordPause, Fits, Inv, Shape, TypeOK, Standing, Budgeted,
      Windowed, Due, Obeys, None, BeforeTheAsk, Capacity, Unslept, Released
<1>6. Windowed'
  BY WaitsAssumption, <1>1 DEF RecordPause, Fits, Inv, Shape, TypeOK, Standing, Budgeted,
      Windowed, Due, Obeys, None, BeforeTheAsk, Capacity, Unslept, Released
<1>7. Due'
  BY WaitsAssumption, <1>1 DEF RecordPause, Fits, Inv, Shape, TypeOK, Standing, Budgeted,
      Windowed, Due, Obeys, None, BeforeTheAsk, Capacity, Unslept, Released
<1>8. Obeys'
  BY WaitsAssumption, <1>1 DEF RecordPause, Fits, Inv, Shape, TypeOK, Standing, Budgeted,
      Windowed, Due, Obeys, None, BeforeTheAsk, Capacity, Unslept, Released
<1>. QED
  BY <1>2, <1>3, <1>4, <1>5, <1>6, <1>7, <1>8 DEF Inv

-----------------------------------------------------------------------------
(* The boundary. *)

LEMMA StopsWhenAskedInv == Inv /\ StopsWhenAsked => Inv'
BY WaitsAssumption DEF StopsWhenAsked, Inv, Ends, Shape, TypeOK, Standing, Budgeted, Windowed,
    Due, Obeys, Leaves, operator, history, None, BeforeTheAsk, Capacity, Unslept, Released,
    NoHost

LEMMA PassesStopInv == Inv /\ PassesStop => Inv'
BY WaitsAssumption DEF PassesStop, Inv, Goes, operator, history, Shape, TypeOK, Standing,
    Budgeted, Windowed, Due, Obeys, None, BeforeTheAsk, Capacity, Unslept, Released, NoHost

LEMMA ParksOnHoldInv == Inv /\ ParksOnHold => Inv'
BY WaitsAssumption DEF ParksOnHold, Inv, Goes, operator, history, Shape, TypeOK, Standing,
    Budgeted, Windowed, Due, Obeys, None, BeforeTheAsk, Capacity, Unslept, Released, NoHost

LEMMA ExitsOnHoldInv == Inv /\ ExitsOnHold => Inv'
<1>. SUFFICES ASSUME Inv, ExitsOnHold PROVE Inv'
  OBVIOUS
<1>1. host' = NoHost /\ UNCHANGED <<rec, taken, operator, crashes, history>>
  BY DEF ExitsOnHold, Leaves
<1>. QED
  BY <1>1, WaitsAssumption DEF operator, history, NoHost, Inv, Shape, TypeOK, Standing,
      Budgeted, Windowed, Due, Obeys, None, BeforeTheAsk, Capacity, Unslept, Released
LEMMA PassesHoldInv == Inv /\ PassesHold => Inv'
BY WaitsAssumption DEF PassesHold, Inv, Goes, operator, history, Shape, TypeOK, Standing,
    Budgeted, Windowed, Due, Obeys, None, BeforeTheAsk, Capacity, Unslept, Released, NoHost

LEMMA AsksInv == Inv /\ Asks => Inv'
BY WaitsAssumption DEF Asks, Inv, Goes, MinOf, operator, Shape, TypeOK, Standing, Budgeted,
    Windowed, Due, Obeys, None, BeforeTheAsk, Capacity, Unslept, Released, NoHost

-----------------------------------------------------------------------------
(* The answers. *)

LEMMA ServedInv == Inv /\ Served => Inv'
<1>. SUFFICES ASSUME Inv, Served PROVE Inv'
  OBVIOUS
<1>1. CASE Ends("succeeded")
  BY <1>1, EndsKept
<1>2. CASE Goes("boundary") /\ UNCHANGED <<rec, taken, operator, crashes, history>>
  BY <1>2, WaitsAssumption DEF Goes, Served, operator, history, Inv, Ends, Shape, TypeOK,
      Standing, Budgeted, Windowed, Due, Obeys, Leaves, None, BeforeTheAsk, Capacity, Unslept,
      Released, NoHost
<1>. QED
  BY <1>1, <1>2 DEF Served

LEMMA RefusedForLimitInv == Inv /\ RefusedForLimit => Inv'
<1>. SUFFICES ASSUME Inv, RefusedForLimit PROVE Inv'
  OBVIOUS
<1>1. CASE Ends("blocked") \/ Ends("cancelled")
  BY <1>1, EndsKept
<1>2. ASSUME NEW wait \in {Probe} \cup 1..MaxReset, Fits(wait), RecordPause("limit", wait, "await")
      PROVE  Inv'
  <2>1. wait \in Nat /\ wait > 0
    BY WaitsAssumption
  <2>. QED
    BY <1>2, <2>1, PauseKept DEF RefusedForLimit
<1>. QED
  BY <1>1, <1>2 DEF RefusedForLimit

LEMMA RefusedForOverloadInv == Inv /\ RefusedForOverload => Inv'
<1>. SUFFICES ASSUME Inv, RefusedForOverload PROVE Inv'
  OBVIOUS
<1>1. CASE ~Fits(Overload)
  BY <1>1, EndsKept DEF RefusedForOverload
<1>2. CASE Fits(Overload)
  <2>1. Overload \in Nat /\ Overload > 0
    BY WaitsAssumption
  <2>. QED
    BY <1>2, <2>1, PauseKept DEF RefusedForOverload
<1>. QED
  BY <1>1, <1>2

LEMMA NobodyAnswersInv == Inv /\ NobodyAnswers => Inv'
<1>1. Probe \in Nat /\ Probe > 0
  BY WaitsAssumption
<1>. QED
  BY <1>1, PauseKept DEF NobodyAnswers

LEMMA DiesInv == Inv /\ Dies => Inv'
<1>. SUFFICES ASSUME Inv, Dies PROVE Inv'
  OBVIOUS
<1>1. CASE Ends("blocked")
  BY <1>1, EndsKept
<1>2. CASE /\ rec' = [rec EXCEPT !.relaunches = @ + 1] /\ Goes("boundary")
           /\ UNCHANGED <<taken, operator, crashes, history>>
  BY <1>2, WaitsAssumption DEF Goes, operator, history, Inv, Shape, TypeOK, Standing, Budgeted,
      Windowed, Due, Obeys, None, BeforeTheAsk, Capacity, Unslept, Released, Dies
<1>3. CASE /\ RetryFits(Interval) /\ rec' = Advances(rec)
           /\ host' = [host EXCEPT !.at = "retrying", !.left = Interval]
           /\ UNCHANGED <<taken, operator, crashes, history>>
  <2>1. Interval \in Nat
    BY WaitsAssumption DEF Interval, MinOf, Inv, TypeOK
  <2>2. Shape'
    BY <1>3, <2>1, WaitsAssumption DEF RetryFits, Advances, operator, history, Inv, Shape,
        TypeOK, Standing, Budgeted, Windowed, Due, Obeys, None, BeforeTheAsk, Capacity,
        Unslept, Released, Dies
  <2>3. TypeOK'
    BY <1>3, <2>1, WaitsAssumption DEF RetryFits, Advances, operator, history, Inv, Shape,
        TypeOK, Standing, Budgeted, Windowed, Due, Obeys, None, BeforeTheAsk, Capacity,
        Unslept, Released, Dies
  <2>4. Standing'
    BY <1>3, <2>1, WaitsAssumption DEF RetryFits, Advances, operator, history, Inv, Shape,
        TypeOK, Standing, Budgeted, Windowed, Due, Obeys, None, BeforeTheAsk, Capacity,
        Unslept, Released, Dies
  <2>5. Budgeted'
    BY <1>3, <2>1, WaitsAssumption DEF RetryFits, Advances, operator, history, Inv, Shape,
        TypeOK, Standing, Budgeted, Windowed, Due, Obeys, None, BeforeTheAsk, Capacity,
        Unslept, Released, Dies
  <2>6. Windowed'
    BY <1>3, <2>1, WaitsAssumption DEF RetryFits, Advances, operator, history, Inv, Shape,
        TypeOK, Standing, Budgeted, Windowed, Due, Obeys, None, BeforeTheAsk, Capacity,
        Unslept, Released, Dies
  <2>7. Due'
    BY <1>3, <2>1, WaitsAssumption DEF RetryFits, Advances, operator, history, Inv, Shape,
        TypeOK, Standing, Budgeted, Windowed, Due, Obeys, None, BeforeTheAsk, Capacity,
        Unslept, Released, Dies
  <2>8. Obeys'
    BY <1>3, <2>1, WaitsAssumption DEF RetryFits, Advances, operator, history, Inv, Shape,
        TypeOK, Standing, Budgeted, Windowed, Due, Obeys, None, BeforeTheAsk, Capacity,
        Unslept, Released, Dies
  <2>. QED
    BY <2>2, <2>3, <2>4, <2>5, <2>6, <2>7, <2>8 DEF Inv
<1>. QED
  BY <1>1, <1>2, <1>3 DEF Dies

LEMMA RetriesAgainInv == Inv /\ RetriesAgain => Inv'
BY WaitsAssumption DEF RetriesAgain, Inv, Goes, operator, history, Shape, TypeOK, Standing,
    Budgeted, Windowed, Due, Obeys, None, BeforeTheAsk, Capacity, Unslept, Released, NoHost

-----------------------------------------------------------------------------
(* Serving a recorded deadline. *)

LEMMA SpentAlreadyInv == Inv /\ SpentAlready => Inv'
BY WaitsAssumption DEF SpentAlready, Inv, Ends, Shape, TypeOK, Standing, Budgeted, Windowed,
    Due, Obeys, Leaves, operator, history, None, BeforeTheAsk, Capacity, Unslept, Released,
    NoHost

LEMMA NeedsNoSleepInv == Inv /\ NeedsNoSleep => Inv'
BY WaitsAssumption DEF NeedsNoSleep, Inv, Released, operator, history, Shape, TypeOK, Standing,
    Budgeted, Windowed, Due, Obeys, None, BeforeTheAsk, Capacity, Unslept, NoHost

LEMMA ExitsOnBoundInv == Inv /\ ExitsOnBound => Inv'
<1>. SUFFICES ASSUME Inv, ExitsOnBound PROVE Inv'
  OBVIOUS
<1>1. host' = NoHost /\ UNCHANGED <<rec, taken, operator, crashes, history>>
  BY DEF ExitsOnBound, Leaves
<1>. QED
  BY <1>1, WaitsAssumption DEF operator, history, NoHost, Inv, Shape, TypeOK, Standing,
      Budgeted, Windowed, Due, Obeys, None, BeforeTheAsk, Capacity, Unslept, Released
LEMMA SleepsProbeInv == Inv /\ SleepsProbe => Inv'
BY WaitsAssumption DEF SleepsProbe, Inv, SleepsAProbe, NextProbe, Charged, operator, history,
    Shape, TypeOK, Standing, Budgeted, Windowed, Due, Obeys, Released, MinOf, None,
    BeforeTheAsk, Capacity, Unslept, NoHost

LEMMA WakesUpInv == Inv /\ WakesUp => Inv'
BY WaitsAssumption DEF WakesUp, Inv, Released, operator, history, Shape, TypeOK, Standing,
    Budgeted, Windowed, Due, Obeys, None, BeforeTheAsk, Capacity, Unslept, NoHost

LEMMA ConsumesReleaseInv == Inv /\ ConsumesRelease => Inv'
BY WaitsAssumption DEF ConsumesRelease, Inv, Goes, Shape, TypeOK, Standing, Budgeted, Windowed,
    Due, Obeys, None, BeforeTheAsk, Capacity, Unslept, Released, NoHost

LEMMA ClearsPauseInv == Inv /\ ClearsPause => Inv'
BY WaitsAssumption DEF ClearsPause, Inv, None, operator, history, Shape, TypeOK, Standing,
    Budgeted, Windowed, Due, Obeys, BeforeTheAsk, Capacity, Unslept, Released, NoHost

-----------------------------------------------------------------------------
(* Taking a run up again. *)

LEMMA ResumesInv == Inv /\ Resumes => Inv'
<1>. SUFFICES ASSUME Inv, Resumes PROVE Inv'
  OBVIOUS
<1>1. CASE stop
  BY <1>1, EndsKept DEF Resumes
<1>2. CASE ~stop
  <2>1. /\ rec' = [rec EXCEPT !.held = FALSE, !.cause = IF rec.held THEN "none" ELSE @]
        /\ \/ rec.left = None /\ host' = [host EXCEPT !.at = "boundary"]
           \/ rec.left # None /\ rec.cause = "outage" /\ host' = [host EXCEPT !.at = "outage"]
           \/ rec.left # None /\ rec.cause # "outage" /\ host' = [host EXCEPT !.at = "await"]
        /\ host.at = "resume" /\ UNCHANGED <<taken, operator, crashes, history>>
    BY <1>2 DEF Resumes, Goes
  <2>2. Shape'
    BY <2>1, WaitsAssumption DEF operator, history, Inv, Shape, TypeOK, Standing, Budgeted,
        Windowed, Due, Obeys, None, BeforeTheAsk, Capacity, Unslept, Released
  <2>3. TypeOK'
    BY <2>1, WaitsAssumption DEF operator, history, Inv, Shape, TypeOK, Standing, Budgeted,
        Windowed, Due, Obeys, None, BeforeTheAsk, Capacity, Unslept, Released
  <2>4. Standing'
    BY <2>1, WaitsAssumption DEF operator, history, Inv, Shape, TypeOK, Standing, Budgeted,
        Windowed, Due, Obeys, None, BeforeTheAsk, Capacity, Unslept, Released
  <2>5. Budgeted'
    BY <2>1, WaitsAssumption DEF operator, history, Inv, Shape, TypeOK, Standing, Budgeted,
        Windowed, Due, Obeys, None, BeforeTheAsk, Capacity, Unslept, Released
  <2>6. Windowed'
    BY <2>1, WaitsAssumption DEF operator, history, Inv, Shape, TypeOK, Standing, Budgeted,
        Windowed, Due, Obeys, None, BeforeTheAsk, Capacity, Unslept, Released
  <2>7. Due'
    BY <2>1, WaitsAssumption DEF operator, history, Inv, Shape, TypeOK, Standing, Budgeted,
        Windowed, Due, Obeys, None, BeforeTheAsk, Capacity, Unslept, Released
  <2>8. Obeys'
    BY <2>1, WaitsAssumption DEF operator, history, Inv, Shape, TypeOK, Standing, Budgeted,
        Windowed, Due, Obeys, None, BeforeTheAsk, Capacity, Unslept, Released
  <2>. QED
    BY <2>2, <2>3, <2>4, <2>5, <2>6, <2>7, <2>8 DEF Inv
<1>. QED
  BY <1>1, <1>2

LEMMA TakesUpWaitInv == Inv /\ TakesUpWait => Inv'
BY WaitsAssumption DEF TakesUpWait, Inv, ExitedWait, operator, history, Shape, TypeOK,
    Standing, Budgeted, Windowed, Due, Obeys, Waiting, Capacity, None, BeforeTheAsk, Unslept,
    Released, Running, NoHost

LEMMA SettlesInterruptedInv == Inv /\ SettlesInterrupted => Inv'
BY WaitsAssumption DEF SettlesInterrupted, Inv, Running, Adoptable, Ends, Shape, TypeOK,
    Standing, Budgeted, Windowed, Due, Obeys, Waiting, Leaves, operator, history, None,
    BeforeTheAsk, Capacity, Unslept, Released, NoHost

LEMMA ContinuesWaitInv == Inv /\ ContinuesWait => Inv'
<1>. SUFFICES ASSUME Inv, ContinuesWait PROVE Inv'
  OBVIOUS
<1>0. taken' \in Nat /\ UNCHANGED <<rec, operator, crashes, history>>
  BY DEF ContinuesWait, Inv, TypeOK
<1>1. CASE UNCHANGED host
  BY <1>0, <1>1 DEF operator, history, Inv, Shape, TypeOK, Standing, Budgeted, Windowed, Due,
      Obeys, None, BeforeTheAsk, Capacity, Unslept, Released
<1>2. CASE host.at = "none" /\ host' = [NoHost EXCEPT !.at = "resume"]
  BY <1>0, <1>2 DEF operator, history, NoHost, Inv, Shape, TypeOK, Standing, Budgeted,
      Windowed, Due, Obeys, None, BeforeTheAsk, Capacity, Unslept, Released
<1>. QED
  BY <1>1, <1>2 DEF ContinuesWait, Enters

LEMMA PersonRunsInv == Inv /\ PersonRuns => Inv'
BY WaitsAssumption DEF PersonRuns, Inv, Adoptable, Enters, operator, history, Shape, TypeOK,
    Standing, Budgeted, Windowed, Due, Obeys, Waiting, Running, NoHost, None, BeforeTheAsk,
    Capacity, Unslept, Released

-----------------------------------------------------------------------------
(* The operator, the clock, and crashes. *)

LEMMA PausesHarnessInv == Inv /\ PausesHarness => Inv'
BY WaitsAssumption DEF PausesHarness, Inv, Says, Shape, TypeOK, Standing, Budgeted, Windowed,
    Due, Obeys, Running, None, BeforeTheAsk, Capacity, Unslept, Released, NoHost

LEMMA ResumesHarnessInv == Inv /\ ResumesHarness => Inv'
<1>. SUFFICES ASSUME Inv, ResumesHarness PROVE Inv'
  OBVIOUS
<1>1. /\ hold' = FALSE /\ asked' = [asked EXCEPT !.hold = 0]
      /\ UNCHANGED <<rec, host, taken, release, person, stop, calls, crashes, slept, retrying, owed>>
  BY DEF ResumesHarness
<1>2. /\ asked'.hold = 0 /\ asked'.stop = asked.stop /\ {"hold", "stop"} \subseteq DOMAIN asked'
  BY <1>1 DEF Inv, Shape
<1>3. hold' \in BOOLEAN
  BY <1>1, Zenon
<1>4. Shape' /\ TypeOK'
  BY <1>1, <1>2, <1>3 DEF Inv, Shape, TypeOK, None
<1>5. Standing' /\ Budgeted' /\ Windowed' /\ Due' /\ Obeys'
  BY <1>1, <1>2 DEF Inv, Shape, TypeOK, Standing, Budgeted, Windowed, Due, Obeys, None,
      BeforeTheAsk, Capacity, Unslept, Released
<1>. QED
  BY <1>4, <1>5 DEF Inv

LEMMA RequestsStopInv == Inv /\ RequestsStop => Inv'
BY WaitsAssumption DEF RequestsStop, Inv, Says, history, Shape, TypeOK, Standing, Budgeted,
    Windowed, Due, Obeys, Running, None, BeforeTheAsk, Capacity, Unslept, Released, NoHost

LEMMA ReadsWaitingRunInv == Inv /\ ReadsWaitingRun => Inv'
BY WaitsAssumption DEF ReadsWaitingRun, Inv, Waiting, Says, history, Shape, TypeOK, Standing,
    Budgeted, Windowed, Due, Obeys, Running, None, BeforeTheAsk, Capacity, Unslept, Released,
    NoHost

LEMMA StampsReleaseInv == Inv /\ StampsRelease => Inv'
BY WaitsAssumption DEF StampsRelease, Inv, history, Shape, TypeOK, Standing, Budgeted,
    Windowed, Due, Obeys, None, BeforeTheAsk, Capacity, Unslept, Released, NoHost

LEMMA WritesReleaseInv == Inv /\ WritesRelease => Inv'
BY WaitsAssumption DEF WritesRelease, Inv, history, Shape, TypeOK, Standing, Budgeted,
    Windowed, Due, Obeys, None, BeforeTheAsk, Capacity, Unslept, Released, NoHost

LEMMA TickInv == Inv /\ Tick => Inv'
BY WaitsAssumption DEF Tick, Inv, Running, Sooner, Asleep, MinOf, operator, Shape, TypeOK,
    Standing, Budgeted, Windowed, Due, Obeys, None, BeforeTheAsk, Capacity, Unslept, Released,
    NoHost

LEMMA CrashInv == Inv /\ Crash => Inv'
BY WaitsAssumption DEF Crash, Inv, Leaves, operator, history, Shape, TypeOK, Standing,
    Budgeted, Windowed, Due, Obeys, NoHost, None, BeforeTheAsk, Capacity, Unslept, Released

LEMMA SweepCrashInv == Inv /\ SweepCrash => Inv'
BY WaitsAssumption DEF SweepCrash, Inv, operator, history, Shape, TypeOK, Standing, Budgeted,
    Windowed, Due, Obeys, None, BeforeTheAsk, Capacity, Unslept, Released, NoHost

-----------------------------------------------------------------------------

LEMMA NextInv == Inv /\ [Next]_vars => Inv'
<1>1. Inv /\ UNCHANGED vars => Inv'
  BY DEF vars, operator, history, Inv, Shape, TypeOK, Standing, Budgeted, Windowed, Due, Obeys,
      None, BeforeTheAsk, Capacity, Unslept, Released
<1>. QED
  BY <1>1, StopsWhenAskedInv, PassesStopInv, ParksOnHoldInv, ExitsOnHoldInv, PassesHoldInv,
      AsksInv, ServedInv, RefusedForLimitInv, RefusedForOverloadInv, NobodyAnswersInv, DiesInv,
      RetriesAgainInv, SpentAlreadyInv, NeedsNoSleepInv, ExitsOnBoundInv, SleepsProbeInv,
      WakesUpInv, ConsumesReleaseInv, ClearsPauseInv, ResumesInv, TakesUpWaitInv,
      SettlesInterruptedInv, ContinuesWaitInv, PersonRunsInv, PausesHarnessInv,
      ResumesHarnessInv, RequestsStopInv, ReadsWaitingRunInv, StampsReleaseInv,
      WritesReleaseInv, TickInv, CrashInv, SweepCrashInv
     DEF Next, Host, Sweep

\* The types, for every budget, window and bound.
THEOREM TypeCorrect == Spec => []TypeOK
<1>1. Inv => TypeOK
  BY DEF Inv
<1>. QED
  BY InitInv, NextInv, <1>1, PTL DEF Spec

\* A run never sleeps past what it was charged nor past its budget, through any number
\* of killed processes, early releases and continuations.
THEOREM SleepBudgeted == Spec => []SleepsWithinBudget
<1>1. Inv => SleepsWithinBudget
  BY DEF SleepsWithinBudget, Inv, Shape, TypeOK, Standing, Budgeted, Windowed, Due, Obeys,
      None, BeforeTheAsk, Capacity, Unslept, Released
<1>. QED
  BY InitInv, NextInv, <1>1, PTL DEF Spec

\* Nor past the window in which a recoverable failure is waited out.
THEOREM RetriesWindowed == Spec => []RetriesWithinWindow
<1>1. Inv => RetriesWithinWindow
  BY WaitsAssumption DEF RetriesWithinWindow, Inv, Shape, TypeOK, Standing, Budgeted, Windowed,
      Due, Obeys, None, BeforeTheAsk, Capacity, Unslept, Released
<1>. QED
  BY InitInv, NextInv, <1>1, PTL DEF Spec

\* At most one ask follows the operator's pause, or the request to stop the run.
THEOREM WordIsHeard == Spec => []AsksOnceMore
<1>1. Inv => AsksOnceMore
  BY DEF AsksOnceMore, Inv, Shape, TypeOK, Standing, Budgeted, Windowed, Due, Obeys, None,
      BeforeTheAsk, Capacity, Unslept, Released
<1>. QED
  BY InitInv, NextInv, <1>1, PTL DEF Spec

\* No ask precedes the end of the probe that was announced, or its release.
THEOREM AsksAreDue == Spec => AsksWhenDue
<1>1. Inv => (Asks => owed = 0)
  BY WaitsAssumption DEF Asks, Goes, Inv, Shape, TypeOK, Standing, Budgeted, Windowed, Due,
      Obeys, None, BeforeTheAsk, Capacity, Unslept, Released
<1>2. Inv /\ [Next]_vars => [Asks => owed = 0]_vars
  BY <1>1
<1>. QED
  BY InitInv, NextInv, <1>2, PTL DEF Spec, AsksWhenDue

=============================================================================
