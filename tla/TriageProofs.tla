---------------------------- MODULE TriageProofs ----------------------------
(***************************************************************************)
(* What holds of the triage record of an item for any number of runs,      *)
(* carriers, decisions, grants, crossings and mishaps, any caps and any    *)
(* repair budget: what grants promised stays within the cap, because every *)
(* decision measures itself against what is committed; a claim has one     *)
(* holder, a carrier about to start a run or the one fresh run that kept   *)
(* it; a round is spent by the first verdict on an attempt and by no       *)
(* other; and what is reserved is what standing repairs were granted.  The *)
(* sums the last two need are totals over finite sets, which a least       *)
(* counterexample stands in for an induction to prove things of.           *)
(***************************************************************************)
EXTENDS Triage, FiniteSetTheorems, WellFoundedInduction, TLAPS

-----------------------------------------------------------------------------
(* Promises.                                                               *)

\* What the arithmetic of the record needs.
Numbers ==
  /\ {"grants", "granted", "committed", "rounds", "reruns", "crossings", "judged", "last", "charger"}
       \subseteq DOMAIN counters
  /\ counters.committed \in Nat /\ counters.rounds \in Nat
  /\ DOMAIN decisions = Run /\ \A r \in Run : decisions[r].rounds \in Nat
  /\ "rounds" \in DOMAIN caps /\ caps["rounds"] \in Nat

\* The inductive invariant.
Promises == Numbers /\ PromisesWithinCap

\* Releasing a reservation never adds to what is committed, nor takes it below zero.
LEMMA ReleaseShrinks ==
  ASSUME Promises, NEW n \in Nat
  PROVE  LET k == Release(counters, n)
         IN  /\ DOMAIN k = DOMAIN counters /\ k.rounds = counters.rounds
             /\ k.committed \in Nat /\ k.committed <= counters.committed
BY DEF Promises, Numbers, Release, Reserved, MinOf, MaxOf

\* So does superseding a decision.
LEMMA SupersedingShrinks ==
  ASSUME Promises, NEW r \in Run, NEW word
  PROVE  LET k == Superseding(counters, r, word)
         IN  /\ DOMAIN k = DOMAIN counters /\ k.rounds = counters.rounds
             /\ k.committed \in Nat /\ k.committed <= counters.committed
<1>1. decisions[r].rounds \in Nat
  BY DEF Promises, Numbers
<1>. QED
  BY <1>1, ReleaseShrinks DEF Superseding, Promises, Numbers

\* Decisions stay decisions about runs.
LEMMA StandingTyped ==
  ASSUME Numbers, NEW r \in Run, NEW word, NEW rounds \in Nat, Standing(r, word, rounds)
  PROVE  DOMAIN decisions' = Run /\ \A q \in Run : decisions'[q].rounds \in Nat
BY DEF Numbers, Standing

\* Nothing is committed before anything was granted.
LEMMA InitPromises == Init => Promises
BY TriageAssumption DEF Init, Promises, Numbers, PromisesWithinCap, NoDecision, Budget

\* Every decision is measured against what is committed, so no step breaks a promise.
LEMMA NextPromises == Promises /\ [Next]_vars => Promises'
<1>. SUFFICES ASSUME Promises, [Next]_vars PROVE Promises'
  OBVIOUS
<1>1. ASSUME UNCHANGED record PROVE Promises'
  BY <1>1 DEF record, Promises, Numbers, PromisesWithinCap
<1>2. ASSUME NEW r \in Run, GrantRepair(r) PROVE Promises'
  <2>. DEFINE n == MinOf(GrantSize, Room(counters))
  <2>1. /\ counters' = [counters EXCEPT !.grants = @ + 1, !.granted = @ + n,
                                        !.committed = Committed(counters) + n]
        /\ Standing(r, "repair", n) /\ caps' = caps /\ Room(counters) > 0
    BY <1>2 DEF GrantRepair, Decides
  <2>2. n \in Nat /\ Committed(counters) \in Nat /\ Committed(counters) + n <= caps["rounds"]
    BY <2>1, TriageAssumption
       DEF Promises, Numbers, MinOf, MaxOf, Room, Uncommitted, Committed
  <2>3. Numbers'
    <3>. HIDE DEF n
    <3>. QED
      BY <2>1, <2>2, StandingTyped DEF Promises, Numbers
  <2>. QED
    BY <2>1, <2>2, <2>3 DEF Promises, Numbers, PromisesWithinCap
<1>3. ASSUME NEW r \in Run, RecordRerun(r) PROVE Promises'
  <2>. DEFINE k == Superseding(counters, r, "rerun")
  <2>1. counters' = [k EXCEPT !.reruns = @ + 1] /\ Standing(r, "rerun", 0) /\ caps' = caps
    BY <1>3 DEF RecordRerun, Decides
  <2>2. /\ DOMAIN k = DOMAIN counters /\ k.rounds = counters.rounds
        /\ k.committed \in Nat /\ k.committed <= counters.committed
    BY SupersedingShrinks
  <2>. QED
    <3>. HIDE DEF k
    <3>. QED
      BY <2>1, <2>2, StandingTyped DEF Promises, Numbers, PromisesWithinCap
<1>4. ASSUME NEW r \in Run, RecordDecision(r) PROVE Promises'
  BY <1>4, SupersedingShrinks, StandingTyped
     DEF RecordDecision, Decides, Promises, Numbers, PromisesWithinCap
<1>5. ASSUME NEW b \in Budget, CrossCap(b) PROVE Promises'
  <2>1. /\ caps' = [caps EXCEPT ![b] = MaxOf(@, Spent(b)) + 1] /\ decisions' = decisions
        /\ counters' = [counters EXCEPT !.crossings = @ + 1]
    BY <1>5 DEF CrossCap
  <2>2. CASE b = "rounds"
    <3>1. caps'["rounds"] = MaxOf(caps["rounds"], Committed(counters)) + 1
      BY <2>1, <2>2 DEF Promises, Numbers, Spent
    <3>. QED
      BY <2>1, <2>2, <3>1 DEF Promises, Numbers, PromisesWithinCap, Committed, MaxOf
  <2>3. CASE b # "rounds"
    BY <2>1, <2>3 DEF Promises, Numbers, PromisesWithinCap
  <2>. QED
    BY <2>2, <2>3
<1>6. ASSUME NEW r \in Run, SendsBack(r) PROVE Promises'
  BY <1>6 DEF SendsBack, Charged, Promises, Numbers, PromisesWithinCap
<1>7. ASSUME NEW r \in Run, SpendsNothing(r) PROVE Promises'
  <2>. DEFINE noted == [counters EXCEPT !.judged = Attempt(r)]
  <2>1. decisions' = decisions /\ caps' = caps /\ counters' \in {counters, noted, Release(noted, 1)}
    BY <1>7 DEF SpendsNothing, Uncharged
  <2>2. CASE counters' = Release(noted, 1)
    BY <2>1, <2>2 DEF Promises, Numbers, PromisesWithinCap, Release, Reserved, MinOf, MaxOf
  <2>. QED
    BY <2>1, <2>2 DEF Promises, Numbers, PromisesWithinCap
<1>8. ASSUME NEW r \in Run, NEW why, Refused(r, why) PROVE Promises'
  BY <1>8 DEF Refused, Returned, Promises, Numbers, PromisesWithinCap
<1>9. CASE UNCHANGED vars
  BY <1>1, <1>9 DEF vars
<1>10. ASSUME NEW r \in Run, RunStep(r) \/ Dies(r) PROVE Promises'
  BY <1>1, <1>6, <1>7, <1>8, <1>10
     DEF RunStep, Delivers, ChecksFail, Repairs, Blocks, Promotes, CannotSpawn,
         StoppedByUsageWindow, Resumes, Vanishes, Pulled, Dies
<1>11. ASSUME NEW c \in Carriers, CarrierStep(c) \/ CarrierDies(c) PROVE Promises'
  BY <1>1, <1>11
     DEF CarrierStep, LooksToContinue, LooksToRerun, Reads, Continues, Claims, Starts, Withdraws,
         CarrierDies
<1>. QED
  BY <1>2, <1>3, <1>4, <1>5, <1>9, <1>10, <1>11 DEF Next

\* What grants promised, with what was spent, stays within the cap in force, for every
\* cap, grant, crossing and order of decisions.
THEOREM PromisesKept == Spec => []PromisesWithinCap
<1>1. Promises => PromisesWithinCap
  BY DEF Promises
<1>. QED
  BY InitPromises, NextPromises, <1>1, PTL DEF Spec

-----------------------------------------------------------------------------
(* Claims.                                                                 *)

\* Runs are numbered in the order they are started, and started by a hosting.
RunsNumbered ==
  /\ DOMAIN runs = Run
  /\ \A r \in Run :
       /\ {"status", "at", "stop", "attempts", "granted", "carried", "last", "stalled", "epoch", "from"}
            \subseteq DOMAIN runs[r]
       /\ runs[r].epoch \in Nat
       /\ runs[r].status # "none" => runs[r].epoch >= 1
  /\ \E k \in 0..Runs : Started = 1..k

\* A carrier that sets out to continue a run has read it.
CarriersShaped ==
  /\ DOMAIN carrier = Carriers
  /\ \A c \in Carriers :
       /\ {"at", "run", "rounds"} \subseteq DOMAIN carrier[c]
       /\ carrier[c].at = "continue" => carrier[c].run \in Started

\* A run that gave its claim back is never again hosted by the process that started it.
GivenBack ==
  /\ gaveBack \subseteq Started
  /\ \A r \in gaveBack : runs[r].status = "live" => runs[r].epoch > 1
  /\ \A a \in answered : a[1] \in Started

Starting(c) == carrier[c].at = "start"
Keepers == {f \in Started \ gaveBack : runs[f].from # 0}

\* Who starts a run, and the run that kept the claim, hold it - and there is one.
OneHolder ==
  /\ \A c \in Carriers : Starting(c) => carrier[c].run \in claimed
  /\ \A f \in Keepers : runs[f].from \in claimed
  /\ \A c, d \in Carriers : Starting(c) /\ Starting(d) /\ carrier[c].run = carrier[d].run => c = d
  /\ \A f, g \in Keepers : runs[f].from = runs[g].from => f = g
  /\ \A c \in Carriers, f \in Keepers : Starting(c) => runs[f].from # carrier[c].run

ClaimInv == RunsNumbered /\ CarriersShaped /\ GivenBack /\ OneHolder

\* A step that starts no run: each goes on under the number, and from the stoppage, it
\* had, and is made live again only by another hosting.
GoesOn(q) ==
  /\ DOMAIN runs'[q] = DOMAIN runs[q]
  /\ runs'[q].from = runs[q].from
  /\ runs'[q].epoch \in Nat /\ runs'[q].epoch >= runs[q].epoch
  /\ runs'[q].status = "none" <=> runs[q].status = "none"
  /\ runs'[q].status = "live" => runs[q].status = "live" \/ runs'[q].epoch > 1

RunsGoOn == DOMAIN runs' = Run /\ \A q \in Run : GoesOn(q)

\* A step of one run that is only about its own record.
LEMMA OneGoesOn ==
  ASSUME RunsNumbered, NEW r \in Run, NEW rec, runs' = [runs EXCEPT ![r] = rec],
         DOMAIN rec = DOMAIN runs[r], rec.from = runs[r].from,
         rec.epoch \in Nat, rec.epoch >= runs[r].epoch,
         rec.status = "none" <=> runs[r].status = "none",
         rec.status = "live" => runs[r].status = "live" \/ rec.epoch > 1
  PROVE  RunsGoOn
BY DEF RunsNumbered, RunsGoOn, GoesOn

\* Runs that go on keep their numbers.
LEMMA StillNumbered ==
  ASSUME RunsNumbered, RunsGoOn
  PROVE  RunsNumbered' /\ Started' = Started
<1>1. Started' = Started
  BY DEF RunsGoOn, GoesOn, Started
<1>. QED
  BY <1>1 DEF RunsNumbered, RunsGoOn, GoesOn

\* While runs go on and no claim moves, who holds one does not change.
LEMMA GoingOnKeepsClaims ==
  ASSUME ClaimInv, RunsGoOn, carrier' = carrier, claimed' = claimed, gaveBack' = gaveBack,
         \A a \in answered' : a[1] \in Started
  PROVE  ClaimInv'
<1>1. RunsNumbered' /\ Started' = Started
  BY StillNumbered DEF ClaimInv
<1>2. GivenBack'
  BY <1>1 DEF ClaimInv, GivenBack, RunsNumbered, RunsGoOn, GoesOn, Started
<1>3. Keepers' = Keepers /\ \A f \in Keepers : runs'[f].from = runs[f].from
  BY <1>1 DEF Keepers, RunsGoOn, GoesOn, Started
<1>4. OneHolder' /\ CarriersShaped'
  BY <1>1, <1>3 DEF ClaimInv, OneHolder, CarriersShaped, Starting
<1>. QED
  BY <1>1, <1>2, <1>4 DEF ClaimInv

\* The first run of the item is the re-run of nothing.
LEMMA InitClaims == Init => ClaimInv
<1>. SUFFICES ASSUME Init PROVE ClaimInv
  OBVIOUS
<1>1. /\ 1 \in Run /\ DOMAIN runs = Run
      /\ \A r \in Run : runs[r] = IF r = 1 THEN [NoRun EXCEPT !.status = "live", !.epoch = 1] ELSE NoRun
  BY TriageAssumption DEF Init, Run
<1>2. /\ runs[1].status = "live" /\ runs[1].epoch = 1 /\ runs[1].from = 0
      /\ \A r \in Run \ {1} : runs[r].status = "none" /\ runs[r].epoch = 0
  <2>1. runs[1] = [NoRun EXCEPT !.status = "live", !.epoch = 1]
    BY <1>1
  <2>2. runs[1].status = "live" /\ runs[1].epoch = 1 /\ runs[1].from = 0
    BY <2>1 DEF NoRun
  <2>3. \A r \in Run \ {1} : runs[r] = NoRun
    BY <1>1
  <2>4. NoRun.status = "none" /\ NoRun.epoch = 0
    BY DEF NoRun
  <2>. QED
    BY <2>2, <2>3, <2>4
<1>3. Started = 1..1 /\ 1 \in 0..Runs
  <2>1. Started = {1}
    BY <1>1, <1>2 DEF Started
  <2>. QED
    BY <2>1, TriageAssumption
<1>4. RunsNumbered
  <2>1. ASSUME NEW r \in Run
        PROVE  {"status", "at", "stop", "attempts", "granted", "carried", "last", "stalled", "epoch",
                "from"} \subseteq DOMAIN runs[r]
    BY <1>1 DEF NoRun
  <2>. QED
    BY <1>1, <1>2, <1>3, <2>1 DEF RunsNumbered
<1>5. Keepers = {} /\ \A c \in Carriers : ~Starting(c)
  BY <1>2, <1>3 DEF Keepers, Init, Starting, Idle
<1>. QED
  BY <1>4, <1>5 DEF ClaimInv, CarriersShaped, GivenBack, OneHolder, Init, Idle

\* A carrier that is idle holds nothing.
LEMMA IdleHolds ==
  {"at", "run", "rounds"} \subseteq DOMAIN Idle /\ Idle.at \notin {"start", "continue"}
BY DEF Idle

\* A carrier that only reads, or is done, holds nothing.
LEMMA CarrierMoves ==
  ASSUME ClaimInv, NEW c \in Carriers, NEW to, {"at", "run", "rounds"} \subseteq DOMAIN to,
         carrier' = [carrier EXCEPT ![c] = to], to.at # "start",
         to.at = "continue" => to.run \in Started,
         RunsGoOn, claimed' = claimed, gaveBack' = gaveBack, answered' = answered
  PROVE  ClaimInv'
<1>1. RunsNumbered' /\ Started' = Started
  BY StillNumbered DEF ClaimInv
<1>2. GivenBack'
  BY <1>1 DEF ClaimInv, GivenBack, RunsNumbered, RunsGoOn, GoesOn, Started
<1>3. Keepers' = Keepers /\ \A f \in Keepers : runs'[f].from = runs[f].from
  BY <1>1 DEF Keepers, RunsGoOn, GoesOn, Started
<1>4. CarriersShaped' /\ \A d \in Carriers : Starting(d)' => Starting(d) /\ carrier'[d].run = carrier[d].run
  BY <1>1 DEF ClaimInv, CarriersShaped, Starting
<1>5. OneHolder'
  BY <1>3, <1>4 DEF ClaimInv, OneHolder
<1>. QED
  BY <1>1, <1>2, <1>4, <1>5 DEF ClaimInv

\* A fresh run has a number nobody had, and whatever kept a claim keeps it.
LEMMA FreshIsNew ==
  ASSUME ClaimInv, NEW f \in Run, NEW from, Fresh(f, from)
  PROVE  /\ f \notin Started /\ Started' = Started \cup {f} /\ RunsNumbered'
         /\ \A q \in Run \ {f} : runs'[q] = runs[q]
         /\ runs'[f].from = from
<1>1. PICK k \in 0..Runs : Started = 1..k
  BY DEF ClaimInv, RunsNumbered
<1>2. Cardinality(1..k) = k
  BY <1>1, FS_Interval, TriageAssumption
<1>3. f = k + 1 /\ f \in 1..Runs
  BY <1>1, <1>2 DEF Fresh, Run
<1>4. /\ \A q \in Run \ {f} : runs'[q] = runs[q]
      /\ runs'[f] = [NoRun EXCEPT !.status = "live", !.epoch = 1, !.from = from]
      /\ DOMAIN runs' = Run
  BY DEF Fresh, ClaimInv, RunsNumbered
<1>5. /\ runs'[f].status = "live" /\ runs'[f].epoch = 1 /\ runs'[f].from = from
      /\ {"status", "at", "stop", "attempts", "granted", "carried", "last", "stalled", "epoch", "from"}
           \subseteq DOMAIN runs'[f]
  BY <1>4 DEF NoRun
<1>6. Started' = Started \cup {f}
  BY <1>4, <1>5 DEF Started
<1>7. Started' = 1..(k + 1) /\ k + 1 \in 0..Runs
  <2>1. 1..(k + 1) = (1..k) \cup {k + 1}
    BY <1>1, TriageAssumption
  <2>. QED
    BY <1>1, <1>3, <1>6, <2>1, TriageAssumption
<1>8. RunsNumbered'
  <2>1. ASSUME NEW q \in Run
        PROVE  /\ {"status", "at", "stop", "attempts", "granted", "carried", "last", "stalled",
                   "epoch", "from"} \subseteq DOMAIN runs'[q]
               /\ runs'[q].epoch \in Nat
               /\ runs'[q].status # "none" => runs'[q].epoch >= 1
    <3>1. CASE q = f
      BY <1>5, <3>1
    <3>2. CASE q # f
      BY <1>4, <3>2 DEF ClaimInv, RunsNumbered
    <3>. QED
      BY <3>1, <3>2
  <2>2. \E j \in 0..Runs : Started' = 1..j
    BY <1>7
  <2>. QED
    BY <1>4, <2>1, <2>2 DEF RunsNumbered
<1>. QED
  BY <1>1, <1>3, <1>4, <1>5, <1>6, <1>8, TriageAssumption

\* A run the watch session pulled is the re-run of nothing.
LEMMA PulledKeepsClaims ==
  ASSUME ClaimInv, NEW f \in Run, Pulled(f)
  PROVE  ClaimInv'
<1>1. /\ f \notin Started /\ Started' = Started \cup {f} /\ RunsNumbered'
      /\ \A q \in Run \ {f} : runs'[q] = runs[q]
      /\ runs'[f].from = 0
  BY FreshIsNew DEF Pulled
<1>2. UNCHANGED <<carrier, claimed, gaveBack, answered>>
  BY DEF Pulled, history
<1>3. Keepers' = Keepers /\ \A g \in Keepers : g # f /\ g \in Run
  BY <1>1, <1>2 DEF Keepers, Started
<1>4. GivenBack'
  BY <1>1, <1>2 DEF ClaimInv, GivenBack, Started
<1>5. OneHolder' /\ CarriersShaped'
  BY <1>1, <1>2, <1>3 DEF ClaimInv, OneHolder, CarriersShaped, Starting
<1>. QED
  BY <1>1, <1>4, <1>5 DEF ClaimInv

\* The carrier that starts a run hands its claim over to it.
LEMMA StartsKeepsClaims ==
  ASSUME ClaimInv, NEW c \in Carriers, Starts(c)
  PROVE  ClaimInv'
<1>1. PICK f \in Run : Fresh(f, carrier[c].run)
  BY DEF Starts
<1>2. /\ f \notin Started /\ Started' = Started \cup {f} /\ RunsNumbered'
      /\ \A q \in Run \ {f} : runs'[q] = runs[q]
      /\ runs'[f].from = carrier[c].run
  BY <1>1, FreshIsNew
<1>3. /\ carrier' = [carrier EXCEPT ![c] = Idle] /\ Starting(c)
      /\ UNCHANGED <<claimed, gaveBack, answered>>
  BY DEF Starts, Starting, history
<1>4. Keepers' \subseteq Keepers \cup {f} /\ Keepers \subseteq Run \ {f}
  BY <1>2, <1>3 DEF Keepers, Started
<1>5. GivenBack'
  BY <1>2, <1>3 DEF ClaimInv, GivenBack, Started
<1>6. CarriersShaped' /\ \A d \in Carriers : Starting(d)' =>
                           d # c /\ Starting(d) /\ carrier'[d].run = carrier[d].run
  BY <1>2, <1>3 DEF ClaimInv, CarriersShaped, Starting, Idle
<1>7. OneHolder'
  <2>1. \A d \in Carriers : Starting(d)' => carrier'[d].run \in claimed'
    BY <1>3, <1>6 DEF ClaimInv, OneHolder
  <2>2. \A g \in Keepers' : runs'[g].from \in claimed'
    BY <1>2, <1>3, <1>4 DEF ClaimInv, OneHolder
  <2>3. \A d, e \in Carriers : Starting(d)' /\ Starting(e)' /\ carrier'[d].run = carrier'[e].run => d = e
    BY <1>6 DEF ClaimInv, OneHolder
  <2>4. \A g, h \in Keepers' : runs'[g].from = runs'[h].from => g = h
    BY <1>2, <1>3, <1>4 DEF ClaimInv, OneHolder
  <2>5. \A d \in Carriers, g \in Keepers' : Starting(d)' => runs'[g].from # carrier'[d].run
    BY <1>2, <1>3, <1>4, <1>6 DEF ClaimInv, OneHolder
  <2>. QED
    BY <2>1, <2>2, <2>3, <2>4, <2>5 DEF OneHolder
<1>. QED
  BY <1>2, <1>5, <1>6, <1>7 DEF ClaimInv

\* A claim is taken only of a stoppage that nobody holds.
LEMMA ClaimsKeepsClaims ==
  ASSUME ClaimInv, NEW c \in Carriers, Claims(c)
  PROVE  ClaimInv'
<1>1. UNCHANGED <<runs, gaveBack, answered>>
  BY DEF Claims, history
<1>2. RunsGoOn
  BY <1>1 DEF ClaimInv, RunsNumbered, RunsGoOn, GoesOn
<1>3. CASE carrier[c].run \in claimed
  <2>1. carrier' = [carrier EXCEPT ![c] = Idle] /\ claimed' = claimed
    BY <1>3 DEF Claims
  <2>. QED
    BY <1>1, <1>2, <2>1, IdleHolds, CarrierMoves
<1>4. CASE carrier[c].run \notin claimed
  <2>1. claimed' = claimed \cup {carrier[c].run} /\ carrier' = [carrier EXCEPT ![c].at = "start"]
    BY <1>4 DEF Claims
  <2>2. CarriersShaped' /\ Keepers' = Keepers /\ carrier'[c].run = carrier[c].run
        /\ \A d \in Carriers : carrier'[d].run = carrier[d].run /\ (Starting(d)' => d = c \/ Starting(d))
    BY <1>1, <2>1 DEF ClaimInv, CarriersShaped, Keepers, Started, Starting
  <2>3. OneHolder'
    BY <1>1, <1>4, <2>1, <2>2 DEF ClaimInv, OneHolder
  <2>. QED
    BY <1>1, <2>2, <2>3 DEF ClaimInv, RunsNumbered, GivenBack, Started
<1>. QED
  BY <1>3, <1>4

\* A carrier that withdraws gives back a claim nobody else holds.
LEMMA WithdrawsKeepsClaims ==
  ASSUME ClaimInv, NEW c \in Carriers, Withdraws(c)
  PROVE  ClaimInv'
<1>1. /\ UNCHANGED <<runs, gaveBack, answered>> /\ Starting(c)
      /\ claimed' = claimed \ {carrier[c].run} /\ carrier' = [carrier EXCEPT ![c] = Idle]
  BY DEF Withdraws, Starting, history
<1>2. CarriersShaped' /\ Keepers' = Keepers
      /\ \A d \in Carriers : Starting(d)' => d # c /\ Starting(d) /\ carrier'[d].run = carrier[d].run
  BY <1>1 DEF ClaimInv, CarriersShaped, Keepers, Started, Starting, Idle
<1>3. OneHolder'
  BY <1>1, <1>2 DEF ClaimInv, OneHolder
<1>. QED
  BY <1>1, <1>2, <1>3 DEF ClaimInv, RunsNumbered, GivenBack, Started

\* A fresh run that was refused gives its own claim back, and keeps none.
LEMMA RefusedKeepsClaims ==
  ASSUME ClaimInv, NEW r \in Live, NEW why \in {"findings", "refused", "window"}, Refused(r, why)
  PROVE  ClaimInv'
<1>1. r \in Run /\ r \in Started /\ runs[r].status = "live"
  BY DEF Live, Started
<1>2. /\ runs' = [runs EXCEPT ![r] = [ReturnGrantedRound(@) EXCEPT !.status = "stopped", !.stop = why]]
      /\ UNCHANGED <<carrier, answered>>
  BY DEF Refused
<1>3. RunsGoOn
  <2>. DEFINE rec == [ReturnGrantedRound(runs[r]) EXCEPT !.status = "stopped", !.stop = why]
  <2>1. /\ DOMAIN rec = DOMAIN runs[r] /\ rec.from = runs[r].from /\ rec.epoch = runs[r].epoch
        /\ rec.status = "stopped"
    BY <1>1 DEF ReturnGrantedRound, ClaimInv, RunsNumbered
  <2>. HIDE DEF rec
  <2>2. runs' = [runs EXCEPT ![r] = rec]
    BY <1>1, <1>2 DEF rec, ClaimInv, RunsNumbered
  <2>3. /\ RunsNumbered /\ rec.epoch \in Nat /\ rec.epoch >= runs[r].epoch
        /\ rec.status # "none" /\ runs[r].status # "none" /\ rec.status # "live"
    BY <1>1, <2>1 DEF ClaimInv, RunsNumbered
  <2>4. rec.status = "none" <=> runs[r].status = "none"
    BY <2>3
  <2>. QED
    BY <1>1, <2>1, <2>2, <2>3, <2>4, OneGoesOn
<1>4. CASE ~GivesBack(r)
  BY <1>2, <1>3, <1>4, GoingOnKeepsClaims DEF Refused, ClaimInv, GivenBack
<1>5. CASE GivesBack(r)
  <2>1. claimed' = claimed \ {runs[r].from} /\ gaveBack' = gaveBack \cup {r}
    BY <1>5 DEF Refused
  <2>2. r \in Keepers
    BY <1>1, <1>5 DEF Keepers, GivesBack, ClaimInv, GivenBack
  <2>3. RunsNumbered' /\ Started' = Started
    BY <1>3, StillNumbered DEF ClaimInv
  <2>4. GivenBack'
    <3>1. runs'[r].status = "stopped"
      BY <1>1, <1>2 DEF ReturnGrantedRound, ClaimInv, RunsNumbered
    <3>. QED
      BY <1>1, <1>2, <1>3, <2>1, <2>3, <3>1
         DEF ClaimInv, GivenBack, RunsNumbered, RunsGoOn, GoesOn, Started
  <2>5. Keepers' = Keepers \ {r} /\ \A f \in Keepers : runs'[f].from = runs[f].from
    BY <1>3, <2>1, <2>3 DEF Keepers, RunsGoOn, GoesOn, Started
  <2>6. OneHolder' /\ CarriersShaped'
    BY <1>2, <2>1, <2>2, <2>3, <2>5 DEF ClaimInv, OneHolder, CarriersShaped, Starting
  <2>. QED
    BY <2>3, <2>4, <2>6 DEF ClaimInv
<1>. QED
  BY <1>4, <1>5

\* The record of a stopped run changes in its own lines only, and stays started.
LEMMA StopsGoesOn ==
  ASSUME RunsNumbered, NEW r \in Live, NEW why, Stops(r, why)
  PROVE  RunsGoOn
<1>1. r \in Run /\ runs[r].status = "live"
  BY DEF Live
<1>. DEFINE rec == [runs[r] EXCEPT !.status = "stopped", !.stop = why]
<1>2. runs' = [runs EXCEPT ![r] = rec]
  BY DEF Stops
<1>3. /\ DOMAIN rec = DOMAIN runs[r] /\ rec.from = runs[r].from /\ rec.epoch = runs[r].epoch
      /\ rec.status = "stopped"
  BY <1>1 DEF RunsNumbered
<1>. HIDE DEF rec
<1>4. rec.epoch \in Nat /\ rec.epoch >= runs[r].epoch /\ rec.status # "live"
      /\ (rec.status = "none" <=> runs[r].status = "none")
  BY <1>1, <1>3 DEF RunsNumbered
<1>. QED
  BY <1>1, <1>2, <1>3, <1>4, OneGoesOn

\* No step of a run that starts none and withdraws no claim touches who holds one.
LEMMA RunStepGoesOn ==
  ASSUME ClaimInv, NEW r \in Run,
         \/ Delivers(r) \/ ChecksFail(r) \/ SendsBack(r) \/ SpendsNothing(r) \/ Repairs(r)
         \/ Blocks(r) \/ Promotes(r) \/ Resumes(r) \/ Vanishes(r) \/ Dies(r)
  PROVE  RunsGoOn /\ UNCHANGED <<carrier, claimed, gaveBack>>
<1>1. /\ UNCHANGED <<carrier, claimed, gaveBack>> /\ r \in Live /\ RunsNumbered
      /\ runs[r].status = "live" /\ runs[r].epoch \in Nat /\ runs[r].epoch >= 1
  BY DEF Delivers, ChecksFail, SendsBack, SpendsNothing, Repairs, Blocks, Promotes, Resumes,
         Vanishes, Dies, Hosted, Live, history, ClaimInv, RunsNumbered
<1>2. CASE UNCHANGED runs
  BY <1>1, <1>2 DEF RunsNumbered, RunsGoOn, GoesOn
<1>3. CASE \E why : Stops(r, why)
  BY <1>1, <1>3, StopsGoesOn
<1>4. CASE \/ runs' = [runs EXCEPT ![r].at = "review"]
           \/ runs' = [runs EXCEPT ![r].at = "approved"]
           \/ runs' = [runs EXCEPT ![r].attempts = @ + 1, ![r].at = "develop"]
           \/ runs' = [runs EXCEPT ![r].status = "landed"]
           \/ runs' = [runs EXCEPT ![r].epoch = @ + 1]
  BY <1>1, <1>4 DEF RunsNumbered, RunsGoOn, GoesOn
<1>. QED
  BY <1>1, <1>2, <1>3, <1>4
     DEF Delivers, ChecksFail, SendsBack, SpendsNothing, Repairs, Blocks, Promotes, Resumes,
         Vanishes, Dies

\* Only what is hosted is judged, so what was judged was started.
LEMMA JudgedWasStarted ==
  ASSUME ClaimInv, NEW r \in Run,
         \/ Delivers(r) \/ ChecksFail(r) \/ SendsBack(r) \/ SpendsNothing(r) \/ Repairs(r)
         \/ Blocks(r) \/ Promotes(r) \/ Resumes(r) \/ Vanishes(r) \/ Dies(r)
  PROVE  \A a \in answered' : a[1] \in Started
<1>1. CASE answered' = answered
  BY <1>1 DEF ClaimInv, GivenBack
<1>2. CASE answered' = answered \cup {Attempt(r)} /\ Hosted(r, "review")
  BY <1>2 DEF ClaimInv, GivenBack, Attempt, Hosted, Started
<1>. QED
  BY <1>1, <1>2
     DEF Delivers, ChecksFail, SendsBack, SpendsNothing, Repairs, Blocks, Promotes, Resumes,
         Vanishes, Dies, history

\* The continued run is another hosting of a run that was started long ago.
LEMMA ContinuesKeepsClaims ==
  ASSUME ClaimInv, NEW c \in Carriers, Continues(c)
  PROVE  ClaimInv'
<1>. DEFINE r == carrier[c].run
            stalled == runs[r].stop = "vanished"
            rec == [runs[r] EXCEPT !.status = "live", !.granted = @ + carrier[c].rounds,
                                   !.carried = @ + carrier[c].rounds, !.last = carrier[c].rounds,
                                   !.stalled = stalled,
                                   !.attempts = IF stalled THEN @ ELSE @ + 1,
                                   !.at = IF stalled THEN @ ELSE "develop",
                                   !.epoch = @ + 1]
<1>1. r \in Started /\ r \in Run /\ runs[r].status # "none" /\ runs[r].epoch \in Nat /\ runs[r].epoch >= 1
  BY DEF Continues, ClaimInv, CarriersShaped, Started, RunsNumbered
<1>2. /\ runs' = [runs EXCEPT ![r] = rec] /\ carrier' = [carrier EXCEPT ![c] = Idle]
      /\ UNCHANGED <<claimed, gaveBack, answered>>
  BY DEF Continues, history
<1>3. /\ DOMAIN rec = DOMAIN runs[r] /\ rec.from = runs[r].from /\ rec.epoch = runs[r].epoch + 1
      /\ rec.status = "live"
  BY <1>1 DEF ClaimInv, RunsNumbered
<1>. HIDE DEF rec
<1>4. rec.epoch \in Nat /\ rec.epoch >= runs[r].epoch /\ rec.epoch > 1
      /\ (rec.status = "none" <=> runs[r].status = "none")
  BY <1>1, <1>3
<1>5. RunsGoOn
  BY <1>1, <1>2, <1>3, <1>4, OneGoesOn DEF ClaimInv
<1>. QED
  BY <1>2, <1>5, IdleHolds, CarrierMoves

\* Looking only sends a carrier on its way.
LEMMA LooksKeepsClaims ==
  ASSUME ClaimInv, NEW c \in Carriers, NEW r \in Run, LooksToContinue(c, r) \/ LooksToRerun(c, r)
  PROVE  ClaimInv'
<1>. DEFINE Sent(at, n) ==
              /\ carrier' = [carrier EXCEPT ![c] = [at |-> at, run |-> r, rounds |-> n]]
              /\ UNCHANGED <<runs, claimed, gaveBack, answered>>
<1>1. PICK at \in {"continue", "claim"} : \E n : Sent(at, n)
  BY DEF LooksToContinue, LooksToRerun, Reads, history
<1>2. PICK n : Sent(at, n)
  BY <1>1
<1>3. r \in Started
  BY DEF LooksToContinue, LooksToRerun, Continuable, Started
<1>4. RunsGoOn
  BY <1>2 DEF ClaimInv, RunsNumbered, RunsGoOn, GoesOn
<1>. DEFINE to == [at |-> at, run |-> r, rounds |-> n]
<1>5. {"at", "run", "rounds"} \subseteq DOMAIN to /\ to.at # "start" /\ to.run = r
  OBVIOUS
<1>. QED
  BY <1>2, <1>3, <1>4, <1>5, CarrierMoves

\* Each action, by the lemma about it.
LEMMA NextClaims == ClaimInv /\ [Next]_vars => ClaimInv'
<1>. SUFFICES ASSUME ClaimInv, [Next]_vars PROVE ClaimInv'
  OBVIOUS
<1>1. ASSUME UNCHANGED <<runs, carrier, claimed, gaveBack, answered>> PROVE ClaimInv'
  <2>1. RunsGoOn
    BY <1>1 DEF ClaimInv, RunsNumbered, RunsGoOn, GoesOn
  <2>. QED
    BY <1>1, <2>1, GoingOnKeepsClaims DEF ClaimInv, GivenBack
<1>2. ASSUME NEW r \in Run, GrantRepair(r) \/ RecordRerun(r) \/ RecordDecision(r) PROVE ClaimInv'
  BY <1>1, <1>2 DEF GrantRepair, RecordRerun, RecordDecision, Decides, history
<1>3. ASSUME NEW b \in Budget, CrossCap(b) PROVE ClaimInv'
  BY <1>1, <1>3 DEF CrossCap, history
<1>4. ASSUME NEW r \in Run, RunStep(r) \/ Dies(r) PROVE ClaimInv'
  <2>1. CASE CannotSpawn(r) \/ StoppedByUsageWindow(r)
    <3>1. r \in Live
      BY <2>1 DEF CannotSpawn, StoppedByUsageWindow, Hosted, Live
    <3>2. \E why \in {"findings", "refused", "window"} : Refused(r, why)
      BY <2>1 DEF CannotSpawn, StoppedByUsageWindow
    <3>. QED
      BY <3>1, <3>2, RefusedKeepsClaims
  <2>2. CASE Pulled(r)
    BY <2>2, PulledKeepsClaims
  <2>3. CASE \/ Delivers(r) \/ ChecksFail(r) \/ SendsBack(r) \/ SpendsNothing(r) \/ Repairs(r)
             \/ Blocks(r) \/ Promotes(r) \/ Resumes(r) \/ Vanishes(r) \/ Dies(r)
    BY <2>3, RunStepGoesOn, JudgedWasStarted, GoingOnKeepsClaims
  <2>. QED
    BY <1>4, <2>1, <2>2, <2>3 DEF RunStep
<1>5. ASSUME NEW c \in Carriers, CarrierStep(c) \/ CarrierDies(c) PROVE ClaimInv'
  <2>1. CASE CarrierDies(c)
    <3>1. RunsGoOn
      BY <2>1 DEF CarrierDies, ClaimInv, RunsNumbered, RunsGoOn, GoesOn
    <3>. QED
      BY <2>1, <3>1, IdleHolds, CarrierMoves DEF CarrierDies, history
  <2>. QED
    BY <1>5, <2>1, LooksKeepsClaims, ContinuesKeepsClaims, ClaimsKeepsClaims, StartsKeepsClaims,
       WithdrawsKeepsClaims DEF CarrierStep
<1>6. CASE UNCHANGED vars
  BY <1>1, <1>6 DEF vars, history
<1>. QED
  BY <1>2, <1>3, <1>4, <1>5, <1>6 DEF Next

\* A claim that was kept bought one fresh run: two runs judged as the re-run of the same
\* stoppage, of which neither gave the claim back, are the same run.
LEMMA OneKeeperPerClaim == ClaimInv => OneFreshRunPerClaim
<1>. SUFFICES ASSUME ClaimInv, NEW r \in Run
              PROVE  Cardinality(FreshRunsOf(r) \ gaveBack) <= 1
  BY DEF OneFreshRunPerClaim
<1>. DEFINE F == FreshRunsOf(r) \ gaveBack
<1>1. F \subseteq Keepers /\ \A f \in F : runs[f].from = r
  BY DEF FreshRunsOf, Judged, Keepers, ClaimInv, GivenBack, Run
<1>2. \A f, g \in F : f = g
  BY <1>1 DEF ClaimInv, OneHolder
<1>3. CASE F = {}
  BY <1>3, FS_EmptySet
<1>4. CASE F # {}
  <2>1. PICK f \in F : F = {f}
    BY <1>2, <1>4
  <2>2. Cardinality({f}) = 1
    BY FS_Singleton
  <2>3. Cardinality(F) = 1
    BY <2>1, <2>2
  <2>. QED
    BY <2>3
<1>. QED
  BY <1>3, <1>4

\* However many processes carry decisions out and wherever they are killed, a claim that
\* was kept bought at most one fresh run that was judged.
THEOREM ClaimBuysOneRun == Spec => []OneFreshRunPerClaim
BY InitClaims, NextClaims, OneKeeperPerClaim, PTL DEF Spec

-----------------------------------------------------------------------------
(* Totals.                                                                 *)

\* A sum (MapThenSumSet) is defined by the recursion on the sets that it is over: an
\* element picked from the set, and the sum over what is left of it.
Picked(s) == CHOOSE x \in s : TRUE
Adds(d, key, h, s) == IF s = {} THEN 0 ELSE d[Picked(s)][key] + h[s \ {Picked(s)}]

\* The totals of all subsets of S, as the recursion defines them.
Totals(d, key, S) == CHOOSE h : h = [s \in SUBSET S |-> Adds(d, key, h, s)]
Total(d, key, S) == Totals(d, key, S)[S]

\* Records of which the sum makes sense.
Addends(d, key, S) == IsFiniteSet(S) /\ \A x \in S : d[x][key] \in Nat

\* h gives every subset of S, of those of at most n elements, its total.
Fits(h, d, key, s) == h[s] = Adds(d, key, h, s)
TotalsUpTo(n, d, key, S) ==
  {h \in [SUBSET S -> Nat] : \A s \in SUBSET S : Cardinality(s) <= n => Fits(h, d, key, s)}

AreTotals(h, d, key, S) ==
  h \in [SUBSET S -> Nat] /\ \A s \in SUBSET S : h[s] = Adds(d, key, h, s)

Smallest(w, W) == w \in W /\ \A s \in W : s \subseteq w => s = w

\* A set of numbers that is not empty has a least one.
LEMMA LeastNumber ==
  ASSUME NEW T \in SUBSET Nat, T # {}
  PROVE  \E n \in T : \A m \in T : ~(m < n)
<1>1. \E n \in T : \A m \in T : <<m, n>> \notin OpToRel(<, Nat)
  BY NatLessThanWellFounded, WFMin, Zenon
<1>2. \A m, n \in Nat : m < n => <<m, n>> \in OpToRel(<, Nat)
  BY DEF OpToRel
<1>. QED
  BY <1>1, <1>2

\* A smallest one of the subsets that something is wrong with.
LEMMA SmallestSubset ==
  ASSUME NEW S, IsFiniteSet(S), NEW W, W \subseteq SUBSET S, W # {}
  PROVE  \E w \in W : Smallest(w, W)
<1>. DEFINE T == {Cardinality(s) : s \in W}
<1>1. \A s \in SUBSET S : IsFiniteSet(s) /\ Cardinality(s) \in Nat
  BY FS_Subset, FS_CardinalityType
<1>2. T \in SUBSET Nat /\ T # {}
  BY <1>1
<1>3. PICK n \in T : \A m \in T : ~(m < n)
  BY <1>2, LeastNumber
<1>4. PICK w \in W : n = Cardinality(w)
  BY <1>3
<1>5. ASSUME NEW s \in W, s \subseteq w, s # w PROVE FALSE
  <2>1. Cardinality(s) <= Cardinality(w) /\ Cardinality(s) # Cardinality(w)
    BY <1>1, <1>4, <1>5, FS_Subset
  <2>2. Cardinality(s) \in T /\ Cardinality(s) \in Nat /\ Cardinality(w) \in Nat
    BY <1>1
  <2>. QED
    BY <1>3, <1>4, <2>1, <2>2
<1>. QED
  BY <1>4, <1>5 DEF Smallest

\* The element picked is one of the set.
LEMMA PickedIn == \A s : s # {} => Picked(s) \in s
BY DEF Picked

\* The subsets of at most n elements have totals, whatever n.
LEMMA TotalsOfSmall ==
  ASSUME NEW d, NEW key, NEW S, Addends(d, key, S), NEW n \in Nat
  PROVE  TotalsUpTo(n, d, key, S) # {}
<1>. DEFINE Good(m) == TotalsUpTo(m, d, key, S) # {}
            T == {m \in Nat : ~Good(m)}
<1>1. \A s \in SUBSET S : IsFiniteSet(s) /\ Cardinality(s) \in Nat
  BY FS_Subset, FS_CardinalityType DEF Addends
<1>2. SUFFICES ASSUME T # {} PROVE FALSE
  OBVIOUS
<1>3. PICK m \in T : \A k \in T : ~(k < m)
  BY <1>2, LeastNumber
<1>4. Good(0)
  <2>. DEFINE h == [s \in SUBSET S |-> 0]
  <2>1. \A s \in SUBSET S : Cardinality(s) <= 0 => s = {}
    BY <1>1, FS_EmptySet
  <2>2. h \in [SUBSET S -> Nat] /\ \A s \in SUBSET S : h[s] = 0
    OBVIOUS
  <2>3. \A s \in SUBSET S : Cardinality(s) <= 0 => Fits(h, d, key, s)
    BY <2>1, <2>2 DEF Adds, Fits
  <2>. QED
    BY <2>2, <2>3 DEF TotalsUpTo
<1>5. m - 1 \in Nat /\ m \in Nat /\ Good(m - 1)
  <2>1. m # 0 /\ m \in Nat
    BY <1>4
  <2>2. m - 1 \in Nat /\ m - 1 < m
    BY <2>1
  <2>. QED
    BY <1>3, <2>1, <2>2
<1>6. PICK h \in [SUBSET S -> Nat] :
        \A s \in SUBSET S : Cardinality(s) <= m - 1 => Fits(h, d, key, s)
  BY <1>5 DEF TotalsUpTo
<1>. DEFINE g == [s \in SUBSET S |-> IF Cardinality(s) <= m - 1 THEN h[s] ELSE Adds(d, key, h, s)]
<1>7. ASSUME NEW s \in SUBSET S, s # {}
      PROVE  /\ Picked(s) \in s /\ s \ {Picked(s)} \in SUBSET S
             /\ Cardinality(s \ {Picked(s)}) = Cardinality(s) - 1
             /\ d[Picked(s)][key] \in Nat
  BY <1>1, <1>7, PickedIn, FS_RemoveElement DEF Addends
<1>8. ASSUME NEW s \in SUBSET S PROVE Adds(d, key, h, s) \in Nat
  <2>1. CASE s = {}
    BY <2>1 DEF Adds
  <2>2. CASE s # {}
    <3>1. h[s \ {Picked(s)}] \in Nat /\ d[Picked(s)][key] \in Nat
      BY <1>7, <2>2
    <3>. QED
      BY <2>2, <3>1 DEF Adds
  <2>. QED
    BY <2>1, <2>2
<1>9. g \in [SUBSET S -> Nat]
  BY <1>8
<1>10. ASSUME NEW s \in SUBSET S, Cardinality(s) <= m PROVE Fits(g, d, key, s)
  <2>1. g[s] = Adds(d, key, h, s)
    BY <1>6 DEF Fits
  <2>2. CASE s = {}
    BY <2>1, <2>2 DEF Adds, Fits
  <2>3. CASE s # {}
    <3>1. Cardinality(s \ {Picked(s)}) <= m - 1
      BY <1>1, <1>5, <1>7, <1>10, <2>3
    <3>2. g[s \ {Picked(s)}] = h[s \ {Picked(s)}]
      BY <1>7, <2>3, <3>1
    <3>. QED
      BY <2>1, <2>3, <3>2 DEF Adds, Fits
  <2>. QED
    BY <2>2, <2>3
<1>. HIDE DEF g
<1>11. Good(m)
  BY <1>9, <1>10 DEF TotalsUpTo
<1>. QED
  BY <1>3, <1>11

\* So the recursion that a sum is defined by does define totals.
LEMMA TotalsAreTotals ==
  ASSUME NEW d, NEW key, NEW S, Addends(d, key, S)
  PROVE  AreTotals(Totals(d, key, S), d, key, S)
<1>1. /\ Cardinality(S) \in Nat
      /\ \A s \in SUBSET S : Cardinality(s) \in Nat /\ Cardinality(s) <= Cardinality(S)
  BY FS_Subset, FS_CardinalityType DEF Addends
<1>2. PICK h : h \in TotalsUpTo(Cardinality(S), d, key, S)
  BY <1>1, TotalsOfSmall
<1>3. h = [s \in SUBSET S |-> Adds(d, key, h, s)]
  BY <1>1, <1>2 DEF TotalsUpTo, Fits
<1>4. Totals(d, key, S) = [s \in SUBSET S |-> Adds(d, key, Totals(d, key, S), s)]
  BY <1>3, Zenon DEF Totals
<1>. DEFINE t == Totals(d, key, S)
<1>5. DOMAIN t = SUBSET S /\ t = [s \in SUBSET S |-> t[s]] /\ \A s \in SUBSET S : t[s] = Adds(d, key, t, s)
  BY <1>4
<1>. HIDE DEF t
<1>6. \A s \in SUBSET S : t[s] \in Nat
  <2>. DEFINE W == {s \in SUBSET S : t[s] \notin Nat}
  <2>1. SUFFICES ASSUME W # {} PROVE FALSE
    OBVIOUS
  <2>2. IsFiniteSet(S) /\ W \subseteq SUBSET S
    BY DEF Addends
  <2>3. PICK w \in W : Smallest(w, W)
    <3>. HIDE DEF W
    <3>. QED
      BY <2>1, <2>2, SmallestSubset
  <2>a. \A s \in W : s \subseteq w => s = w
    BY <2>3 DEF Smallest
  <2>4. t[w] = Adds(d, key, t, w) /\ w \in SUBSET S /\ t[w] \notin Nat
    BY <1>5
  <2>5. w # {}
    BY <2>4 DEF Adds
  <2>6. Picked(w) \in w
    BY <2>5, PickedIn
  <2>7. t[w \ {Picked(w)}] \in Nat /\ d[Picked(w)][key] \in Nat
    BY <2>a, <2>4, <2>6 DEF Addends
  <2>8. t[w] = d[Picked(w)][key] + t[w \ {Picked(w)}]
    BY <2>4, <2>5 DEF Adds
  <2>. QED
    BY <2>4, <2>7, <2>8
<1>7. t \in [SUBSET S -> Nat]
  BY <1>5, <1>6
<1>. QED
  BY <1>5, <1>7 DEF t, AreTotals

\* They are the totals of what is added, and of nothing else.
LEMMA TotalsAgree ==
  ASSUME NEW d, NEW e, NEW key, NEW S, NEW T \in SUBSET S, Addends(d, key, T), Addends(e, key, S),
         \A x \in T : d[x][key] = e[x][key]
  PROVE  Total(d, key, T) = Totals(e, key, S)[T]
<1>. DEFINE t == Totals(d, key, T)
            u == Totals(e, key, S)
<1>a. AreTotals(t, d, key, T) /\ AreTotals(u, e, key, S)
  BY TotalsAreTotals
<1>. HIDE DEF t, u
<1>1. \A s \in SUBSET T : t[s] = Adds(d, key, t, s)
  BY <1>a DEF AreTotals
<1>2. \A s \in SUBSET S : u[s] = Adds(e, key, u, s)
  BY <1>a DEF AreTotals
<1>3. \A s \in SUBSET T : t[s] = u[s]
  <2>. DEFINE W == {s \in SUBSET T : t[s] # u[s]}
  <2>1. SUFFICES ASSUME W # {} PROVE FALSE
    OBVIOUS
  <2>2. IsFiniteSet(T) /\ W \subseteq SUBSET T
    BY DEF Addends
  <2>3. PICK w \in W : Smallest(w, W)
    <3>. HIDE DEF W
    <3>. QED
      BY <2>1, <2>2, SmallestSubset
  <2>a. \A s \in W : s \subseteq w => s = w
    BY <2>3 DEF Smallest
  <2>4. /\ t[w] = Adds(d, key, t, w) /\ u[w] = Adds(e, key, u, w)
        /\ w \in SUBSET T /\ t[w] # u[w]
    BY <1>1, <1>2
  <2>5. w # {}
    BY <2>4 DEF Adds
  <2>6. Picked(w) \in w
    BY <2>5, PickedIn
  <2>7. t[w \ {Picked(w)}] = u[w \ {Picked(w)}] /\ d[Picked(w)][key] = e[Picked(w)][key]
    BY <2>a, <2>4, <2>6
  <2>. QED
    BY <2>4, <2>5, <2>7 DEF Adds
<1>4. t[T] = u[T]
  BY <1>3
<1>. QED
  BY <1>4 DEF t, u, Total

\* A total of numbers is a number.
LEMMA TotalTyped ==
  ASSUME NEW d, NEW key, NEW S, Addends(d, key, S)
  PROVE  Total(d, key, S) \in Nat
<1>1. Totals(d, key, S) \in [SUBSET S -> Nat] /\ S \in SUBSET S
  BY TotalsAreTotals DEF AreTotals
<1>. QED
  BY <1>1 DEF Total

\* It is the same for records that agree on what is added.
LEMMA TotalSame ==
  ASSUME NEW d, NEW e, NEW key, NEW S, Addends(d, key, S), \A x \in S : d[x][key] = e[x][key]
  PROVE  Total(e, key, S) = Total(d, key, S)
<1>1. Addends(e, key, S) /\ S \in SUBSET S
  BY DEF Addends
<1>. QED
  BY <1>1, TotalsAgree DEF Total

\* Any element may be the one added last.
LEMMA TotalWithout ==
  ASSUME NEW d, NEW key, NEW S, Addends(d, key, S), NEW x \in S
  PROVE  Total(d, key, S) = d[x][key] + Total(d, key, S \ {x})
<1>. DEFINE t == Totals(d, key, S)
<1>a. AreTotals(t, d, key, S)
  BY TotalsAreTotals
<1>. HIDE DEF t
<1>1. t \in [SUBSET S -> Nat] /\ \A s \in SUBSET S : t[s] = Adds(d, key, t, s)
  BY <1>a DEF AreTotals
<1>2. \A y \in S : d[y][key] \in Nat
  BY DEF Addends
<1>3. \A s \in SUBSET S, y \in S : y \in s => t[s] = d[y][key] + t[s \ {y}]
  <2>. DEFINE Off(s) == \E y \in s : t[s] # d[y][key] + t[s \ {y}]
              W == {s \in SUBSET S : Off(s)}
  <2>1. SUFFICES ASSUME W # {} PROVE FALSE
    OBVIOUS
  <2>2. IsFiniteSet(S) /\ W \subseteq SUBSET S
    BY DEF Addends
  <2>3. PICK w \in W : Smallest(w, W)
    <3>. HIDE DEF W
    <3>. QED
      BY <2>1, <2>2, SmallestSubset
  <2>a. \A s \in W : s \subseteq w => s = w
    BY <2>3 DEF Smallest
  <2>4. PICK y \in w : t[w] # d[y][key] + t[w \ {y}]
    OBVIOUS
  <2>5. w \in SUBSET S /\ t[w] = Adds(d, key, t, w) /\ Picked(w) \in w
    BY <1>1, <2>4, PickedIn
  <2>. DEFINE p == Picked(w)
  <2>6. p \in w /\ t[w] = d[p][key] + t[w \ {p}]
    BY <2>4, <2>5 DEF Adds
  <2>. HIDE DEF p
  <2>7. p # y /\ w \ {p} \in SUBSET S /\ w \ {y} \in SUBSET S
    BY <2>4, <2>5, <2>6
  <2>8. t[w \ {p}] = d[y][key] + t[(w \ {p}) \ {y}]
    <3>1. w \ {p} \notin W
      BY <2>a, <2>6, <2>7
    <3>2. y \in w \ {p}
      BY <2>4, <2>7
    <3>. QED
      BY <2>7, <3>1, <3>2
  <2>9. t[w \ {y}] = d[p][key] + t[(w \ {y}) \ {p}]
    <3>1. w \ {y} \notin W
      BY <2>a, <2>4, <2>7
    <3>2. p \in w \ {y}
      BY <2>6, <2>7
    <3>. QED
      BY <2>7, <3>1, <3>2
  <2>10. (w \ {y}) \ {p} = (w \ {p}) \ {y} /\ (w \ {p}) \ {y} \in SUBSET S
    BY <2>5
  <2>11. t[(w \ {p}) \ {y}] \in Nat /\ d[p][key] \in Nat /\ d[y][key] \in Nat
    BY <1>1, <1>2, <2>4, <2>5, <2>6, <2>10
  <2>12. t[w] = d[y][key] + t[w \ {y}]
    <3>1. PICK z \in Nat : z = t[(w \ {p}) \ {y}]
      BY <2>11
    <3>2. t[(w \ {y}) \ {p}] = z
      BY <2>10, <3>1
    <3>3. t[w \ {p}] = d[y][key] + z /\ t[w \ {y}] = d[p][key] + z
      BY <2>8, <2>9, <3>1, <3>2
    <3>4. d[p][key] + (d[y][key] + z) = d[y][key] + (d[p][key] + z)
      BY <2>11
    <3>. QED
      BY <2>6, <3>3, <3>4
  <2>. QED
    BY <2>4, <2>12
<1>4. t[S] = d[x][key] + t[S \ {x}]
  BY <1>3
<1>5. Total(d, key, S \ {x}) = t[S \ {x}]
  <2>1. S \ {x} \in SUBSET S /\ IsFiniteSet(S \ {x})
    BY FS_RemoveElement DEF Addends
  <2>2. Addends(d, key, S \ {x})
    BY <2>1 DEF Addends
  <2>. QED
    BY <2>1, <2>2, TotalsAgree DEF t
<1>. QED
  BY <1>4, <1>5 DEF t, Total

-----------------------------------------------------------------------------
(* Types.                                                                  *)

\* One run: its record, and where the process hosting it is.
RunTyped(rec, at) ==
  /\ rec.status \in {"none", "live", "stopped", "landed"}
  /\ {rec.attempts, rec.granted, rec.carried, rec.last} \subseteq Nat /\ rec.last <= rec.carried
  /\ rec.at \in {"develop", "review", "approved"}
  /\ at \in {"none", "develop", "review", "repair", "approved"}
  /\ at # "none" => rec.status = "live"

RunsTyped == DOMAIN host = Run /\ \A r \in Run : RunTyped(runs[r], host[r])

CountersTyped ==
  {counters.grants, counters.granted, counters.committed, counters.rounds,
   counters.reruns, counters.crossings} \subseteq Nat

DecisionsTyped ==
  \A r \in Run : decisions[r].word \in {"none", "repair", "rerun", "wait"} /\ decisions[r].rounds \in Nat

\* A carrier that is under way is about a run.
CarriersTyped ==
  \A c \in Carriers :
    /\ carrier[c].at \in {"idle", "continue", "claim", "start"} /\ carrier[c].rounds \in Nat
    /\ carrier[c].at # "idle" => carrier[c].run \in Run

\* What the types rest on.
TypeInv ==
  /\ CountersTyped /\ decided \in Nat /\ mishaps \in Nat /\ caps \in [Budget -> Nat]
  /\ DecisionsTyped /\ RunsTyped /\ CarriersTyped /\ claimed \subseteq Run

\* A step of one run, all the others as they were.
LEMMA OneTyped ==
  ASSUME RunsNumbered, RunsTyped, NEW r \in Run, NEW rec, NEW at,
         runs' = [runs EXCEPT ![r] = rec], host' = [host EXCEPT ![r] = at], RunTyped(rec, at)
  PROVE  RunsTyped'
BY DEF RunsNumbered, RunsTyped

\* Every step of a run but its start and its refusal.
LEMMA RunStepTyped ==
  ASSUME RunsNumbered, RunsTyped, NEW r \in Run,
         \/ Delivers(r) \/ ChecksFail(r) \/ SendsBack(r) \/ SpendsNothing(r) \/ Repairs(r)
         \/ Blocks(r) \/ Promotes(r) \/ Resumes(r) \/ Vanishes(r) \/ Dies(r)
  PROVE  RunsTyped'
<1>. DEFINE old == runs[r]
<1>1. RunTyped(old, host[r]) /\ DOMAIN runs = Run
  BY DEF RunsTyped, RunsNumbered
<1>2. old.attempts + 1 \in Nat
  BY <1>1 DEF RunTyped
<1>. DEFINE fields == {"status", "at", "stop", "attempts", "granted", "carried", "last", "stalled", "epoch", "from"}
<1>3. fields \subseteq DOMAIN old
  BY DEF RunsNumbered
<1>4. ASSUME NEW rec, NEW at, runs' = [runs EXCEPT ![r] = rec], host' = [host EXCEPT ![r] = at], RunTyped(rec, at)
      PROVE  RunsTyped'
  BY <1>4, OneTyped
<1>5. ASSUME NEW at, runs' = runs, host' = [host EXCEPT ![r] = at], RunTyped(old, at)
      PROVE  RunsTyped'
  BY <1>1, <1>5 DEF RunsTyped
<1>6. ASSUME NEW why, Stops(r, why) PROVE RunsTyped'
  <2>. DEFINE rec == [old EXCEPT !.status = "stopped", !.stop = why]
  <2>1. RunTyped(rec, "none")
    BY <1>1, <1>3 DEF RunTyped
  <2>2. runs' = [runs EXCEPT ![r] = rec] /\ host' = [host EXCEPT ![r] = "none"]
    BY <1>6 DEF Stops, Steps
  <2>. QED
    BY <1>4, <2>1, <2>2
<1>7. CASE Delivers(r)
  <2>. DEFINE rec == [old EXCEPT !.at = "review"]
  <2>1. RunTyped(rec, "review")
    BY <1>1, <1>3, <1>7 DEF RunTyped, Delivers, Hosted
  <2>2. runs' = [runs EXCEPT ![r] = rec] /\ host' = [host EXCEPT ![r] = "review"]
    BY <1>7 DEF Delivers, Steps
  <2>. QED
    BY <1>4, <2>1, <2>2
<1>8. CASE ChecksFail(r) \/ SendsBack(r)
  <2>1. RunTyped(old, "repair") /\ runs' = runs /\ host' = [host EXCEPT ![r] = "repair"]
    BY <1>1, <1>8 DEF RunTyped, ChecksFail, SendsBack, Hosted, Steps
  <2>. QED
    BY <1>5, <2>1
<1>9. CASE SpendsNothing(r)
  <2>1. CASE Steps(r, "approved") /\ runs' = [runs EXCEPT ![r].at = "approved"]
    <3>. DEFINE rec == [old EXCEPT !.at = "approved"]
    <3>1. RunTyped(rec, "approved")
      BY <1>1, <1>3, <1>9 DEF RunTyped, SpendsNothing, Hosted
    <3>2. runs' = [runs EXCEPT ![r] = rec] /\ host' = [host EXCEPT ![r] = "approved"]
      BY <2>1 DEF Steps
    <3>. QED
      BY <1>4, <3>1, <3>2
  <2>2. CASE Steps(r, "repair") /\ UNCHANGED runs
    <3>1. RunTyped(old, "repair") /\ runs' = runs /\ host' = [host EXCEPT ![r] = "repair"]
      BY <1>1, <1>9, <2>2 DEF RunTyped, SpendsNothing, Hosted, Steps
    <3>. QED
      BY <1>5, <3>1
  <2>3. CASE Stops(r, "escalated")
    BY <1>6, <2>3
  <2>. QED
    BY <1>9, <2>1, <2>2, <2>3 DEF SpendsNothing
<1>10. CASE Repairs(r)
  <2>. DEFINE rec == [old EXCEPT !.attempts = @ + 1, !.at = "develop"]
  <2>1. RunTyped(rec, "develop")
    BY <1>1, <1>2, <1>3, <1>10 DEF RunTyped, Repairs, Hosted
  <2>2. runs' = [runs EXCEPT ![r] = rec] /\ host' = [host EXCEPT ![r] = "develop"]
    BY <1>10 DEF Repairs, Steps
  <2>. QED
    BY <1>4, <2>1, <2>2
<1>11. CASE Blocks(r) \/ Vanishes(r)
  BY <1>6, <1>11 DEF Blocks, Vanishes
<1>12. CASE Promotes(r)
  <2>1. CASE runs' = [runs EXCEPT ![r].status = "landed"] /\ Steps(r, "none")
    <3>. DEFINE rec == [old EXCEPT !.status = "landed"]
    <3>1. RunTyped(rec, "none")
      BY <1>1, <1>3 DEF RunTyped
    <3>2. runs' = [runs EXCEPT ![r] = rec] /\ host' = [host EXCEPT ![r] = "none"]
      BY <2>1 DEF Steps
    <3>. QED
      BY <1>4, <3>1, <3>2
  <2>2. CASE runs' = [runs EXCEPT ![r].at = "review"] /\ Steps(r, "review")
    <3>. DEFINE rec == [old EXCEPT !.at = "review"]
    <3>1. RunTyped(rec, "review")
      BY <1>1, <1>3, <1>12 DEF RunTyped, Promotes, Hosted
    <3>2. runs' = [runs EXCEPT ![r] = rec] /\ host' = [host EXCEPT ![r] = "review"]
      BY <2>2 DEF Steps
    <3>. QED
      BY <1>4, <3>1, <3>2
  <2>3. CASE Stops(r, "approved")
    BY <1>6, <2>3
  <2>. QED
    BY <1>12, <2>1, <2>2, <2>3 DEF Promotes
<1>13. CASE Resumes(r)
  <2>. DEFINE rec == [old EXCEPT !.epoch = @ + 1]
  <2>1. RunTyped(rec, old.at)
    BY <1>1, <1>3, <1>13 DEF RunTyped, Resumes, Live
  <2>2. runs' = [runs EXCEPT ![r] = rec] /\ host' = [host EXCEPT ![r] = old.at]
    BY <1>13 DEF Resumes, Steps
  <2>. QED
    BY <1>4, <2>1, <2>2
<1>14. CASE Dies(r)
  <2>1. RunTyped(old, "none") /\ runs' = runs /\ host' = [host EXCEPT ![r] = "none"]
    BY <1>1, <1>14 DEF RunTyped, Dies, Steps
  <2>. QED
    BY <1>5, <2>1
<1>. QED
  BY <1>7, <1>8, <1>9, <1>10, <1>11, <1>12, <1>13, <1>14

\* A fresh run has the record every run starts with.
LEMMA FreshTyped ==
  ASSUME ClaimInv, RunsTyped, NEW f \in Run, NEW from, Fresh(f, from)
  PROVE  RunsTyped'
<1>. DEFINE rec == [NoRun EXCEPT !.status = "live", !.epoch = 1, !.from = from]
<1>1. RunTyped(rec, "develop")
  BY DEF RunTyped, NoRun
<1>2. runs' = [runs EXCEPT ![f] = rec] /\ host' = [host EXCEPT ![f] = "develop"] /\ RunsNumbered
  BY DEF Fresh, Steps, ClaimInv
<1>. QED
  BY <1>1, <1>2, OneTyped

\* What the last continuation handed the run is not more than all that was handed to it.
LEMMA RefusedTyped ==
  ASSUME ClaimInv, RunsTyped, NEW r \in Run, NEW why, Refused(r, why)
  PROVE  RunsTyped'
<1>. DEFINE old == runs[r]
            rec == [ReturnGrantedRound(old) EXCEPT !.status = "stopped", !.stop = why]
<1>1. RunTyped(old, host[r]) /\ DOMAIN runs = Run
      /\ {"status", "at", "stop", "attempts", "granted", "carried", "last", "stalled", "epoch", "from"}
           \subseteq DOMAIN old
  BY DEF RunsTyped, RunsNumbered, ClaimInv
<1>2. old.carried - old.last \in Nat
  BY <1>1 DEF RunTyped
<1>3. RunTyped(rec, "none")
  BY <1>1, <1>2 DEF RunTyped, ReturnGrantedRound
<1>4. runs' = [runs EXCEPT ![r] = rec] /\ host' = [host EXCEPT ![r] = "none"] /\ RunsNumbered
  BY <1>1 DEF Refused, Steps, ClaimInv
<1>. QED
  <2>. HIDE DEF rec
  <2>. QED
    BY <1>3, <1>4, OneTyped

\* What a carrier hands over is a number of rounds, and the run it looked at was started.
LEMMA ContinuesTyped ==
  ASSUME ClaimInv, RunsTyped, CarriersTyped, NEW c \in Carriers, Continues(c)
  PROVE  RunsTyped'
<1>. DEFINE r == carrier[c].run
            n == carrier[c].rounds
            old == runs[r]
            stalled == old.stop = "vanished"
            rec == [old EXCEPT !.status = "live", !.granted = @ + n, !.carried = @ + n, !.last = n,
                               !.stalled = stalled, !.attempts = IF stalled THEN @ ELSE @ + 1,
                               !.at = IF stalled THEN @ ELSE "develop", !.epoch = @ + 1]
            at == IF stalled THEN old.at ELSE "develop"
<1>1. r \in Run /\ n \in Nat
  BY DEF Continues, ClaimInv, CarriersShaped, CarriersTyped, Started
<1>2. RunTyped(old, host[r]) /\ RunsNumbered
      /\ {"status", "at", "stop", "attempts", "granted", "carried", "last", "stalled", "epoch", "from"}
           \subseteq DOMAIN old
  BY <1>1 DEF RunsTyped, RunsNumbered, ClaimInv
<1>3. runs' = [runs EXCEPT ![r] = rec] /\ host' = [host EXCEPT ![r] = at]
  BY <1>1 DEF Continues, Steps
<1>4. /\ rec.status = "live" /\ rec.granted = old.granted + n /\ rec.carried = old.carried + n
      /\ rec.last = n /\ rec.attempts \in {old.attempts, old.attempts + 1}
      /\ rec.at \in {old.at, "develop"} /\ at \in {old.at, "develop"}
  BY <1>2
<1>. HIDE DEF rec, at, r, n, old
<1>5. RunTyped(rec, at)
  BY <1>1, <1>2, <1>4 DEF RunTyped
<1>. QED
  BY <1>1, <1>2, <1>3, <1>5, OneTyped

\* Every counter stays a number: what is released is reserved, what is given back is spent.
LEMMA CountersStayTyped ==
  ASSUME Numbers, CountersTyped, DecisionsTyped, caps \in [Budget -> Nat], [Next]_vars
  PROVE  CountersTyped'
<1>1. CASE counters' = counters
  BY <1>1 DEF CountersTyped
<1>2. ASSUME NEW r \in Run, GrantRepair(r) PROVE CountersTyped'
  <2>. DEFINE n == MinOf(GrantSize, Room(counters))
  <2>1. n \in Nat /\ Committed(counters) \in Nat
    BY TriageAssumption
       DEF Numbers, MinOf, MaxOf, Room, Uncommitted, Committed
  <2>2. counters' = [counters EXCEPT !.grants = @ + 1, !.granted = @ + n,
                                     !.committed = Committed(counters) + n]
    BY <1>2 DEF GrantRepair
  <2>. HIDE DEF n
  <2>. QED
    BY <2>1, <2>2 DEF CountersTyped, Numbers
<1>3. ASSUME NEW k, NEW n \in Nat, DOMAIN k = DOMAIN counters, k.committed \in Nat, k.rounds \in Nat
      PROVE  Release(k, n).committed \in Nat
  BY <1>3 DEF Release, Reserved, MinOf, MaxOf, Numbers
<1>4. ASSUME NEW r \in Run, NEW word
      PROVE  /\ Superseding(counters, r, word) \in {counters, Release(counters, decisions[r].rounds)}
             /\ Release(counters, decisions[r].rounds).committed \in Nat
             /\ Release(counters, decisions[r].rounds) =
                  [counters EXCEPT !.committed = Release(counters, decisions[r].rounds).committed]
  <2>1. decisions[r].rounds \in Nat
    BY DEF DecisionsTyped
  <2>2. Release(counters, decisions[r].rounds).committed \in Nat
    BY <2>1, <1>3 DEF Numbers
  <2>. QED
    BY <2>2 DEF Superseding, Release, Numbers
<1>5. ASSUME NEW r \in Run, RecordRerun(r) \/ RecordDecision(r) PROVE CountersTyped'
  <2>1. PICK word : LET k == Superseding(counters, r, word)
                    IN  counters' \in {k, [k EXCEPT !.reruns = @ + 1]}
    BY <1>5 DEF RecordRerun, RecordDecision
  <2>2. PICK m \in Nat : LET k == [counters EXCEPT !.committed = m]
                         IN  counters' \in {counters, [counters EXCEPT !.reruns = @ + 1], k, [k EXCEPT !.reruns = @ + 1]}
    BY <2>1, <1>4
  <2>. DEFINE k == [counters EXCEPT !.committed = m]
  <2>3. /\ k.committed = m /\ k.reruns = counters.reruns /\ k.grants = counters.grants
        /\ k.granted = counters.granted /\ k.rounds = counters.rounds
        /\ k.crossings = counters.crossings /\ DOMAIN k = DOMAIN counters
    BY DEF Numbers
  <2>. HIDE DEF k
  <2>4. CASE counters' \in {counters, [counters EXCEPT !.reruns = @ + 1]}
    BY <2>4 DEF CountersTyped, Numbers
  <2>5. CASE counters' \in {k, [k EXCEPT !.reruns = @ + 1]}
    BY <2>3, <2>5 DEF CountersTyped, Numbers
  <2>. QED
    BY <2>2, <2>4, <2>5 DEF k
<1>6. ASSUME NEW b \in Budget, CrossCap(b) PROVE CountersTyped'
  BY <1>6 DEF CrossCap, CountersTyped, Numbers
<1>7. ASSUME NEW r \in Run, SendsBack(r) PROVE CountersTyped'
  BY <1>7 DEF SendsBack, Charged, CountersTyped, Numbers
<1>8. ASSUME NEW r \in Run, SpendsNothing(r) PROVE CountersTyped'
  <2>. DEFINE noted == [counters EXCEPT !.judged = Attempt(r)]
  <2>1. counters' \in {counters, noted, Release(noted, 1)}
    BY <1>8 DEF SpendsNothing, Uncharged
  <2>2. DOMAIN noted = DOMAIN counters /\ noted.committed = counters.committed /\ noted.rounds = counters.rounds
    BY DEF Numbers
  <2>3. Release(noted, 1).committed \in Nat
    BY <2>2, <1>3 DEF Numbers
  <2>4. Release(noted, 1) = [noted EXCEPT !.committed = Release(noted, 1).committed]
    BY <2>2 DEF Release, Numbers
  <2>5. PICK m \in Nat : counters' \in {counters, noted, [noted EXCEPT !.committed = m]}
    BY <2>1, <2>3, <2>4
  <2>. QED
    BY <2>5 DEF CountersTyped, Numbers
<1>9. ASSUME NEW r \in Run, NEW why, Refused(r, why) PROVE CountersTyped'
  <2>1. CASE counters' = counters
    BY <1>1, <2>1
  <2>2. CASE counters' # counters
    <3>. DEFINE judged == IF counters.judged = Attempt(r) THEN NoAttempt ELSE counters.judged
    <3>1. /\ counters.rounds >= 1
          /\ counters' = [counters EXCEPT !.rounds = @ - 1, !.last = NoAttempt, !.charger = <<0, 0>>,
                                          !.judged = judged]
      BY <1>9, <2>2 DEF Refused, Returned, Numbers
    <3>2. counters.rounds - 1 \in Nat
      BY <3>1 DEF Numbers
    <3>. HIDE DEF judged
    <3>. QED
      BY <3>1, <3>2 DEF CountersTyped, Numbers
  <2>. QED
    BY <2>1, <2>2
<1>10. ASSUME NEW r \in Run, RunStep(r) \/ Dies(r) PROVE CountersTyped'
  BY <1>1, <1>7, <1>8, <1>9, <1>10
     DEF record, RunStep, Delivers, ChecksFail, Repairs, Blocks, Promotes, CannotSpawn,
         StoppedByUsageWindow, Resumes, Vanishes, Pulled, Dies
<1>11. ASSUME NEW c \in Carriers, CarrierStep(c) \/ CarrierDies(c) PROVE CountersTyped'
  BY <1>1, <1>11
     DEF record, CarrierStep, LooksToContinue, LooksToRerun, Reads, Continues, Claims, Starts,
         Withdraws, CarrierDies
<1>12. CASE UNCHANGED vars
  BY <1>1, <1>12 DEF vars, record
<1>. QED
  BY <1>2, <1>5, <1>6, <1>10, <1>11, <1>12 DEF Next

\* What runs were handed is the total of their records.
LEMMA CarriedOutTyped ==
  ASSUME RunsTyped
  PROVE  CarriedOut \in Nat
<1>1. CarriedOut = Total(runs, "carried", Started)
  BY Zenon DEF CarriedOut, Sum, MapThenSumSet, MapThenFoldSet, Total, Totals, Adds, Picked
<1>2. Runs \in Int /\ Started \subseteq 1..Runs
  BY TriageAssumption DEF Started, Run
<1>3. IsFiniteSet(Started)
  <2>1. IsFiniteSet(1..Runs)
    BY <1>2, FS_Interval
  <2>. QED
    BY <1>2, <2>1, FS_Subset
<1>4. Addends(runs, "carried", Started)
  BY <1>3 DEF Addends, Started, RunsTyped, RunTyped
<1>. QED
  BY <1>1, <1>4, TotalTyped

\* What is left of a grant is a number when a carrier sets out with it.
LEMMA CarriersStayTyped ==
  ASSUME ClaimInv, TypeInv, [Next]_vars
  PROVE  CarriersTyped'
<1>0. CarriersTyped /\ CarriersShaped
  BY DEF TypeInv, ClaimInv
<1>1. CASE carrier' = carrier
  BY <1>0, <1>1 DEF CarriersTyped
<1>2. ASSUME NEW c \in Carriers, NEW to, carrier' = [carrier EXCEPT ![c] = to],
             to.at \in {"idle", "continue", "claim", "start"}, to.rounds \in Nat,
             to.at # "idle" => to.run \in Run
      PROVE  CarriersTyped'
  BY <1>0, <1>2 DEF CarriersTyped, CarriersShaped
<1>3. Idle.at = "idle" /\ Idle.rounds = 0 /\ Idle.run = 0
  BY DEF Idle
<1>4. ASSUME NEW c \in Carriers, carrier' = [carrier EXCEPT ![c] = Idle]
      PROVE  CarriersTyped'
  <2>. DEFINE to == Idle
  <2>1. /\ carrier' = [carrier EXCEPT ![c] = to]
        /\ to.at \in {"idle", "continue", "claim", "start"} /\ to.rounds \in Nat
        /\ to.at # "idle" => to.run \in Run
    BY <1>3, <1>4
  <2>. QED
    BY <1>2, <2>1
<1>5. ASSUME NEW c \in Carriers, NEW r \in Run, LooksToContinue(c, r) \/ LooksToRerun(c, r)
      PROVE  CarriersTyped'
  <2>1. PICK at \in {"continue", "claim"}, n \in {0, Remaining(r)} :
          Reads(c, at, r, n) /\ (n = 0 \/ Remaining(r) >= 1)
    BY <1>5 DEF LooksToContinue, LooksToRerun
  <2>2. counters.granted \in Nat /\ CarriedOut \in Nat
    BY CarriedOutTyped DEF TypeInv, CountersTyped
  <2>3. n \in Nat
    BY <2>1, <2>2 DEF Remaining
  <2>. DEFINE to == [at |-> at, run |-> r, rounds |-> n]
  <2>4. to.at \in {"idle", "continue", "claim", "start"} /\ to.rounds \in Nat /\ to.run \in Run
    BY <2>3
  <2>5. carrier' = [carrier EXCEPT ![c] = to]
    BY <2>1 DEF Reads
  <2>. QED
    BY <1>2, <2>4, <2>5
<1>6. ASSUME NEW c \in Carriers, Claims(c) PROVE CarriersTyped'
  <2>1. CASE carrier' = [carrier EXCEPT ![c] = Idle]
    BY <1>4, <2>1
  <2>2. CASE carrier' = [carrier EXCEPT ![c].at = "start"]
    BY <1>0, <1>6, <2>2 DEF CarriersTyped, CarriersShaped, Claims
  <2>. QED
    BY <1>6, <2>1, <2>2 DEF Claims
<1>7. ASSUME NEW c \in Carriers, CarrierStep(c) \/ CarrierDies(c) PROVE CarriersTyped'
  BY <1>4, <1>5, <1>6, <1>7 DEF CarrierStep, CarrierDies, Continues, Starts, Withdraws
<1>8. ASSUME NEW r \in Run, RunStep(r) \/ Dies(r) PROVE CarriersTyped'
  BY <1>1, <1>8
     DEF RunStep, Delivers, ChecksFail, SendsBack, SpendsNothing, Repairs, Blocks, Promotes,
         CannotSpawn, StoppedByUsageWindow, Refused, Resumes, Vanishes, Pulled, Dies
<1>9. ASSUME NEW r \in Run, GrantRepair(r) \/ RecordRerun(r) \/ RecordDecision(r) PROVE CarriersTyped'
  BY <1>1, <1>9 DEF GrantRepair, RecordRerun, RecordDecision, Decides
<1>10. ASSUME NEW b \in Budget, CrossCap(b) PROVE CarriersTyped'
  BY <1>1, <1>10 DEF CrossCap
<1>11. CASE UNCHANGED vars
  BY <1>1, <1>11 DEF vars
<1>. QED
  BY <1>7, <1>8, <1>9, <1>10, <1>11 DEF Next

\* Each action, by the lemma about it.
LEMMA RunsStayTyped ==
  ASSUME ClaimInv, TypeInv, [Next]_vars
  PROVE  RunsTyped'
<1>0. RunsTyped /\ RunsNumbered /\ CarriersTyped
  BY DEF TypeInv, ClaimInv
<1>1. CASE UNCHANGED <<runs, host>>
  BY <1>0, <1>1 DEF RunsTyped, RunTyped
<1>2. ASSUME NEW r \in Run, RunStep(r) \/ Dies(r) PROVE RunsTyped'
  <2>1. CASE CannotSpawn(r) \/ StoppedByUsageWindow(r)
    <3>1. \E why : Refused(r, why)
      BY <2>1 DEF CannotSpawn, StoppedByUsageWindow
    <3>. QED
      BY <1>0, <3>1, RefusedTyped
  <2>2. CASE Pulled(r)
    BY <1>0, <2>2, FreshTyped DEF Pulled
  <2>. QED
    BY <1>0, <1>2, <2>1, <2>2, RunStepTyped DEF RunStep
<1>3. ASSUME NEW c \in Carriers, CarrierStep(c) \/ CarrierDies(c) PROVE RunsTyped'
  <2>1. CASE Continues(c)
    BY <1>0, <2>1, ContinuesTyped
  <2>2. CASE Starts(c)
    BY <1>0, <2>2, FreshTyped DEF Starts
  <2>. QED
    BY <1>1, <1>3, <2>1, <2>2
       DEF CarrierStep, CarrierDies, LooksToContinue, LooksToRerun, Reads, Claims, Withdraws
<1>4. ASSUME NEW r \in Run, GrantRepair(r) \/ RecordRerun(r) \/ RecordDecision(r) PROVE RunsTyped'
  BY <1>1, <1>4 DEF GrantRepair, RecordRerun, RecordDecision, Decides
<1>5. ASSUME NEW b \in Budget, CrossCap(b) PROVE RunsTyped'
  BY <1>1, <1>5 DEF CrossCap
<1>6. CASE UNCHANGED vars
  BY <1>1, <1>6 DEF vars
<1>. QED
  BY <1>2, <1>3, <1>4, <1>5, <1>6 DEF Next

\* Decisions, caps and claims.
LEMMA RecordStaysTyped ==
  ASSUME Numbers, ClaimInv, TypeInv, [Next]_vars
  PROVE  DecisionsTyped' /\ (caps \in [Budget -> Nat])' /\ (claimed \subseteq Run)'
         /\ (decided \in Nat)' /\ (mishaps \in Nat)'
<1>. DEFINE Goal == /\ DecisionsTyped' /\ (caps \in [Budget -> Nat])' /\ (claimed \subseteq Run)'
                    /\ (decided \in Nat)' /\ (mishaps \in Nat)'
<1>0. /\ DecisionsTyped /\ caps \in [Budget -> Nat] /\ claimed \subseteq Run
      /\ decided \in Nat /\ mishaps \in Nat
  BY DEF TypeInv
<1>1. ASSUME UNCHANGED <<decisions, caps, decided>>, claimed' \subseteq Run,
             mishaps' \in {mishaps, mishaps + 1}
      PROVE  Goal
  BY <1>0, <1>1 DEF DecisionsTyped
<1>2. ASSUME NEW r \in Run, GrantRepair(r) \/ RecordRerun(r) \/ RecordDecision(r) PROVE Goal
  <2>1. UNCHANGED <<caps, claimed, mishaps>> /\ decided' = decided + 1
    BY <1>2 DEF GrantRepair, RecordRerun, RecordDecision, Decides
  <2>2. PICK word \in {"repair", "rerun", "wait"}, n \in Nat : Standing(r, word, n)
    <3>1. MinOf(GrantSize, Room(counters)) \in Nat
      BY TriageAssumption DEF Numbers, MinOf, MaxOf, Room, Uncommitted, Committed
    <3>. QED
      BY <1>2, <3>1 DEF GrantRepair, RecordRerun, RecordDecision
  <2>3. DecisionsTyped'
    <3>1. decisions[r].rounds \in Nat /\ DOMAIN decisions = Run
      BY DEF Numbers
    <3>. QED
      BY <1>0, <2>2, <3>1 DEF Standing, DecisionsTyped
  <2>. QED
    BY <1>0, <2>1, <2>3
<1>3. ASSUME NEW b \in Budget, CrossCap(b) PROVE Goal
  <2>1. UNCHANGED <<decisions, claimed, decided, mishaps>>
        /\ caps' = [caps EXCEPT ![b] = MaxOf(@, Spent(b)) + 1]
    BY <1>3 DEF CrossCap, bounds
  <2>2. caps[b] \in Nat /\ Spent(b) \in Nat
    BY <1>0 DEF Spent, Committed, MaxOf, Numbers, TypeInv, CountersTyped, Budget
  <2>3. MaxOf(caps[b], Spent(b)) + 1 \in Nat
    BY <2>2 DEF MaxOf
  <2>. QED
    BY <1>0, <2>1, <2>3 DEF DecisionsTyped
<1>4. ASSUME NEW r \in Run, RunStep(r) \/ Dies(r) PROVE Goal
  BY <1>0, <1>1, <1>4
     DEF RunStep, Delivers, ChecksFail, SendsBack, SpendsNothing, Repairs, Blocks, Promotes,
         CannotSpawn, StoppedByUsageWindow, Refused, Resumes, Vanishes, Pulled, Dies, Mishap,
         record, bounds
<1>5. ASSUME NEW c \in Carriers, CarrierStep(c) \/ CarrierDies(c) PROVE Goal
  <2>1. UNCHANGED <<decisions, caps, decided>> /\ mishaps' \in {mishaps, mishaps + 1}
    BY <1>5
       DEF CarrierStep, CarrierDies, LooksToContinue, LooksToRerun, Reads, Continues, Claims,
           Starts, Withdraws, Mishap, record, bounds
  <2>2. CASE Claims(c)
    <3>1. carrier[c].run \in Run
      BY <2>2 DEF Claims, TypeInv, CarriersTyped
    <3>. QED
      BY <1>0, <1>1, <2>1, <2>2, <3>1 DEF Claims
  <2>3. CASE ~Claims(c)
    <3>1. claimed' \subseteq claimed
      BY <1>5, <2>3
         DEF CarrierStep, CarrierDies, LooksToContinue, LooksToRerun, Reads, Continues, Starts,
             Withdraws
    <3>. QED
      BY <1>0, <1>1, <2>1, <3>1
  <2>. QED
    BY <2>2, <2>3
<1>6. CASE UNCHANGED vars
  BY <1>0, <1>1, <1>6 DEF vars, record, bounds
<1>. QED
  BY <1>2, <1>3, <1>4, <1>5, <1>6 DEF Next

\* The types are inductive together with the promises and the claims.
LEMMA NextTyped == Promises /\ ClaimInv /\ TypeInv /\ [Next]_vars => TypeInv'
BY CountersStayTyped, RunsStayTyped, CarriersStayTyped, RecordStaysTyped DEF TypeInv, Promises

\* One run, with nothing spent.
LEMMA InitTyped == Init => TypeInv
<1>. SUFFICES ASSUME Init PROVE TypeInv
  OBVIOUS
<1>1. CountersTyped /\ decided \in Nat /\ mishaps \in Nat /\ caps \in [Budget -> Nat] /\ claimed \subseteq Run
  BY TriageAssumption DEF Init, CountersTyped
<1>2. DecisionsTyped
  BY DEF Init, DecisionsTyped, NoDecision
<1>3. CarriersTyped
  BY DEF Init, CarriersTyped, Idle
<1>4. RunsTyped
  <2>1. DOMAIN host = Run
    BY DEF Init
  <2>2. RunTyped(NoRun, "none") /\ RunTyped([NoRun EXCEPT !.status = "live", !.epoch = 1], "develop")
    BY DEF RunTyped, NoRun
  <2>. QED
    BY <2>1, <2>2 DEF Init, RunsTyped
<1>. QED
  BY <1>1, <1>2, <1>3, <1>4 DEF TypeInv

\* Every counter is a number, for any grants, refusals, continuations and crossings, and
\* a process hosts a run only while the run is live.
THEOREM TypeCorrect == Spec => []TypeOK
<1>1. TypeInv => TypeOK
  <2>. SUFFICES ASSUME TypeInv PROVE TypeOK
    OBVIOUS
  <2>1. \A r \in Run : RunTyped(runs[r], host[r]) /\ (runs[r].status = "live" => r \in Live)
    BY DEF TypeInv, RunsTyped, Live
  <2>. QED
    BY <2>1 DEF TypeInv, TypeOK, CountersTyped, DecisionsTyped, CarriersTyped, RunTyped
<1>. QED
  BY InitPromises, InitClaims, InitTyped, NextPromises, NextClaims, NextTyped, <1>1, PTL DEF Spec

-----------------------------------------------------------------------------
(* Rounds.                                                                 *)

\* While one run of the item was judged, rounds are counted exactly.
OneJudged == \A a, b \in answered : a[1] = b[1]

\* Numbers of the runs that the arguments count with.
AttemptsTyped == \A r \in Run : runs[r].attempts \in Nat /\ runs[r].epoch \in Nat

\* What was judged was judged under the attempt a run is at or an earlier one; the
\* record names attempts that were judged, the hosting that charged the last of them
\* has gone on from it, and what is counted is what was sent back.
CountInv ==
  /\ sentBack \subseteq answered /\ IsFiniteSet(sentBack)
  /\ answered \subseteq Started \X Nat
  /\ \A a \in answered : a[2] <= runs[a[1]].attempts
  /\ counters.judged \in answered \cup {NoAttempt}
  /\ counters.last \in answered \cup {NoAttempt}
  /\ \/ counters.charger = <<0, 0>>
     \/ /\ counters.charger \in Started \X Nat
        /\ counters.charger[2] <= runs[counters.charger[1]].epoch
  /\ \A r \in Started : counters.last = Attempt(r) /\ counters.charger = Charger(r)
                          => host[r] \in {"repair", "none"}
  /\ counters.rounds >= Cardinality(sentBack)
  /\ OneJudged =>
       /\ counters.rounds = Cardinality(sentBack)
       /\ \A r \in Started : Attempt(r) \in answered => counters.judged = Attempt(r)

\* What the argument counts with.
Tally == <<counters.rounds, counters.judged, counters.last, counters.charger, answered, sentBack>>

\* A started run keeps its attempt and its hosting, or goes on to the next of either.
Advances(r) ==
  /\ runs'[r].attempts >= runs[r].attempts /\ runs'[r].epoch >= runs[r].epoch
  /\ \/ runs'[r].attempts # runs[r].attempts
     \/ runs'[r].epoch # runs[r].epoch
     \/ host'[r] \in {host[r], "repair", "none"}
     \/ host[r] \notin {"repair", "none"}

\* What is counted stays true of runs that go on.
LEMMA AdvancingKeepsCount ==
  ASSUME CountInv, AttemptsTyped, AttemptsTyped', Started \subseteq Started', UNCHANGED Tally,
         \A r \in Started : Advances(r)
  PROVE  CountInv'
<1>1. \A r \in Started : r \in Run /\ r # 0
  BY TriageAssumption DEF Started, Run
<1>2. \A r \in Started' : r \in Run /\ r # 0
  BY TriageAssumption DEF Started, Run
<1>3. UNCHANGED <<counters.rounds, counters.judged, counters.last, counters.charger, answered, sentBack>>
  BY DEF Tally
<1>4. ASSUME NEW a \in answered
      PROVE  a \in Started' \X Nat /\ a[2] <= runs'[a[1]].attempts
  <2>1. a[1] \in Started /\ a[1] \in Run /\ a[2] \in Nat /\ a[2] <= runs[a[1]].attempts
    BY <1>1 DEF CountInv
  <2>2. runs'[a[1]].attempts >= runs[a[1]].attempts
    BY <2>1 DEF Advances
  <2>3. runs[a[1]].attempts \in Nat /\ runs'[a[1]].attempts \in Nat
    BY <2>1 DEF AttemptsTyped
  <2>4. a \in Started' \X Nat
    BY DEF CountInv
  <2>. QED
    BY <2>1, <2>2, <2>3, <2>4
<1>5. \/ counters'.charger = <<0, 0>>
      \/ /\ counters'.charger \in Started' \X Nat
         /\ counters'.charger[2] <= runs'[counters'.charger[1]].epoch
  <2>1. CASE counters.charger = <<0, 0>>
    BY <1>3, <2>1
  <2>2. CASE counters.charger # <<0, 0>>
    <3>. DEFINE k == counters.charger
    <3>1. k \in Started \X Nat /\ k[2] <= runs[k[1]].epoch
      BY <2>2 DEF CountInv
    <3>2. k[1] \in Started /\ k[1] \in Run /\ k[2] \in Nat /\ k \in Started' \X Nat
      BY <1>1, <3>1
    <3>3. runs'[k[1]].epoch >= runs[k[1]].epoch
      BY <3>2 DEF Advances
    <3>4. runs[k[1]].epoch \in Nat /\ runs'[k[1]].epoch \in Nat
      BY <3>2 DEF AttemptsTyped
    <3>5. k[2] <= runs'[k[1]].epoch
      BY <3>1, <3>2, <3>3, <3>4
    <3>. QED
      BY <1>3, <3>2, <3>5
  <2>. QED
    BY <2>1, <2>2
<1>6. ASSUME NEW r \in Started', counters'.last = Attempt(r)', counters'.charger = Charger(r)'
      PROVE  host'[r] \in {"repair", "none"}
  <2>1. counters.last = <<r, runs'[r].attempts>> /\ counters.charger = <<r, runs'[r].epoch>>
    BY <1>3, <1>6 DEF Attempt, Charger
  <2>2. r \in Run /\ r # 0
    BY <1>2
  <2>3. counters.last \in answered /\ counters.charger # <<0, 0>>
    BY <2>1, <2>2 DEF CountInv, NoAttempt
  <2>4. r \in Started /\ runs'[r].attempts <= runs[r].attempts /\ runs'[r].epoch <= runs[r].epoch
    BY <2>1, <2>3 DEF CountInv
  <2>5. runs'[r].attempts = runs[r].attempts /\ runs'[r].epoch = runs[r].epoch
    BY <2>2, <2>4 DEF Advances, AttemptsTyped
  <2>6. host[r] \in {"repair", "none"}
    BY <2>1, <2>4, <2>5 DEF CountInv, Attempt, Charger
  <2>. QED
    BY <2>4, <2>5, <2>6 DEF Advances
<1>7. ASSUME NEW r \in Started', OneJudged', Attempt(r)' \in answered'
      PROVE  counters'.judged = Attempt(r)'
  <2>1. Attempt(r)' = <<r, runs'[r].attempts>> /\ <<r, runs'[r].attempts>> \in answered
    BY <1>3, <1>7 DEF Attempt
  <2>2. r \in Started /\ runs'[r].attempts <= runs[r].attempts /\ r \in Run
    BY <1>2, <2>1 DEF CountInv
  <2>3. runs'[r].attempts = runs[r].attempts
    BY <2>2 DEF Advances, AttemptsTyped
  <2>4. OneJudged
    BY <1>3, <1>7 DEF OneJudged
  <2>. QED
    BY <1>3, <2>1, <2>2, <2>3, <2>4 DEF CountInv, Attempt
<1>8. OneJudged' <=> OneJudged
  BY <1>3 DEF OneJudged
<1>. QED
  BY <1>3, <1>4, <1>5, <1>6, <1>7, <1>8 DEF CountInv

\* The run of an attempt that was just judged, or is being developed or judged, never
\* has the round of that attempt charged by this very hosting: who charged it went on
\* to the repair.
LEMMA NothingToReturn ==
  ASSUME CountInv, NEW r \in Run, Hosted(r, "develop") \/ Hosted(r, "review")
  PROVE  Returned(counters, Attempt(r), Charger(r)) = counters
<1>1. r \in Started /\ host[r] \notin {"repair", "none"}
  BY DEF Hosted, Started
<1>. QED
  BY <1>1 DEF CountInv, Returned

\* The types give what counting needs.
LEMMA TypesForCounting ==
  ASSUME ClaimInv, TypeInv
  PROVE  AttemptsTyped
BY DEF TypeInv, RunsTyped, RunTyped, ClaimInv, RunsNumbered, AttemptsTyped

\* A round is spent by the first verdict on an attempt, if it sends the attempt back.
LEMMA SendsBackKeepsCount ==
  ASSUME Numbers, ClaimInv, TypeInv, CountInv, NEW r \in Run, SendsBack(r)
  PROVE  CountInv'
<1>. DEFINE a == Attempt(r)
            c == Charger(r)
<1>1. /\ r \in Started /\ runs' = runs /\ answered' = answered \cup {a} /\ Started' = Started
      /\ host' = [host EXCEPT ![r] = "repair"] /\ counters' = Charged(counters, a, c)
      /\ sentBack' = IF a \in answered THEN sentBack ELSE sentBack \cup {a}
      /\ host[r] = "review"
  BY DEF SendsBack, Hosted, Started, Steps
<1>2. /\ AttemptsTyped /\ DOMAIN host = Run /\ r # 0
      /\ \A q \in Started : q \in Run
      /\ {"rounds", "judged", "last", "charger"} \subseteq DOMAIN counters /\ counters.rounds \in Nat
  BY TypesForCounting, TriageAssumption DEF TypeInv, RunsTyped, Numbers, Run, Started
<1>3. a = <<r, runs[r].attempts>> /\ c = <<r, runs[r].epoch>> /\ runs[r].attempts \in Nat /\ runs[r].epoch \in Nat
  BY <1>2 DEF Attempt, Charger, AttemptsTyped
<1>4. a \in Started \X Nat /\ c \in Started \X Nat /\ a[1] = r /\ a[2] = runs[r].attempts
      /\ c[1] = r /\ c[2] = runs[r].epoch
  BY <1>1, <1>3
<1>5. \A q \in Started : Attempt(q)' = Attempt(q) /\ Charger(q)' = Charger(q)
  BY <1>1 DEF Attempt, Charger
<1>6. /\ sentBack \subseteq answered /\ IsFiniteSet(sentBack) /\ Cardinality(sentBack) \in Nat
      /\ counters.rounds >= Cardinality(sentBack)
  BY FS_CardinalityType DEF CountInv
<1>7. /\ sentBack' \subseteq answered' /\ IsFiniteSet(sentBack')
      /\ Cardinality(sentBack') = Cardinality(sentBack) + IF a \in answered THEN 0 ELSE 1
  <2>1. CASE a \in answered
    BY <1>1, <1>6, <2>1
  <2>2. CASE a \notin answered
    <3>1. a \notin sentBack /\ sentBack' = sentBack \cup {a}
      BY <1>1, <1>6, <2>2
    <3>2. IsFiniteSet(sentBack') /\ Cardinality(sentBack') = Cardinality(sentBack) + 1
      BY <1>6, <3>1, FS_AddElement
    <3>. QED
      BY <1>1, <1>6, <2>2, <3>1, <3>2
  <2>. QED
    BY <2>1, <2>2
<1>8. /\ answered' \subseteq Started' \X Nat
      /\ \A b \in answered' : b[2] <= runs'[b[1]].attempts
  BY <1>1, <1>3, <1>4 DEF CountInv
<1>9. ASSUME OneJudged' PROVE OneJudged /\ \A b \in answered : b[1] = r
  BY <1>1, <1>4, <1>9 DEF OneJudged
<1>10. CASE AlreadyJudged(counters, a)
  <2>1. counters' = counters
    BY <1>1, <1>10 DEF Charged
  <2>2. a \in answered
    BY <1>2, <1>3, <1>10 DEF AlreadyJudged, CountInv, NoAttempt
  <2>3. sentBack' = sentBack /\ answered' = answered
    BY <1>1, <2>2
  <2>4. \A q \in Started : counters.last = Attempt(q) /\ counters.charger = Charger(q)
                             => host'[q] \in {"repair", "none"}
    BY <1>1, <1>2 DEF CountInv
  <2>5. OneJudged' = OneJudged
    BY <2>3 DEF OneJudged
  <2>. QED
    BY <1>1, <1>5, <1>8, <2>1, <2>3, <2>4, <2>5 DEF CountInv
<1>11. CASE ~AlreadyJudged(counters, a)
  <2>1. /\ counters'.rounds = counters.rounds + 1 /\ counters'.judged = a /\ counters'.last = a
        /\ counters'.charger = c
    BY <1>1, <1>2, <1>11 DEF Charged
  <2>2. counters'.judged \in answered' /\ counters'.last \in answered'
    BY <1>1, <2>1
  <2>3. counters'.charger \in Started' \X Nat /\ counters'.charger[2] <= runs'[counters'.charger[1]].epoch
    BY <1>1, <1>3, <1>4, <2>1
  <2>4. \A q \in Started' : counters'.last = Attempt(q)' /\ counters'.charger = Charger(q)'
                             => host'[q] \in {"repair", "none"}
    <3>1. \A q \in Started : a = Attempt(q) => q = r
      BY DEF Attempt
    <3>2. host'[r] = "repair"
      BY <1>1, <1>2
    <3>. QED
      BY <1>1, <1>5, <2>1, <3>1, <3>2
  <2>5. counters'.rounds >= Cardinality(sentBack')
    BY <1>2, <1>6, <1>7, <2>1
  <2>6. ASSUME OneJudged'
        PROVE  /\ counters'.rounds = Cardinality(sentBack')
               /\ \A q \in Started' : Attempt(q)' \in answered' => counters'.judged = Attempt(q)'
    <3>1. counters.rounds = Cardinality(sentBack) /\ a \notin answered
      BY <1>1, <1>9, <1>11, <2>6 DEF CountInv, AlreadyJudged
    <3>2. \A q \in Started : Attempt(q) \in answered \cup {a} => q = r
      BY <1>9, <2>6 DEF Attempt
    <3>. QED
      BY <1>1, <1>5, <1>7, <2>1, <3>1, <3>2
  <2>. QED
    BY <1>7, <1>8, <2>2, <2>3, <2>4, <2>5, <2>6 DEF CountInv
<1>. QED
  BY <1>10, <1>11

\* A verdict that costs nothing is noted, and may release a reservation.
LEMMA Noted ==
  ASSUME Numbers, NEW r \in Run, SpendsNothing(r)
  PROVE  /\ counters'.rounds = counters.rounds /\ counters'.last = counters.last
         /\ counters'.charger = counters.charger
         /\ \/ AlreadyJudged(counters, Attempt(r)) /\ counters' = counters
            \/ counters'.judged = Attempt(r) /\ ~AlreadyJudged(counters, Attempt(r))
BY DEF SpendsNothing, Uncharged, Numbers, Release

\* Such a verdict counts nothing, and the next one on the attempt is not its first.
LEMMA SpendsNothingKeepsCount ==
  ASSUME Numbers, ClaimInv, ClaimInv', TypeInv, TypeInv', CountInv, NEW r \in Run, SpendsNothing(r)
  PROVE  CountInv'
<1>. DEFINE a == Attempt(r)
<1>1. /\ r \in Started /\ answered' = answered \cup {a} /\ sentBack' = sentBack
      /\ host[r] = "review"
  BY DEF SpendsNothing, Hosted, Started
<1>2. /\ AttemptsTyped /\ DOMAIN host = Run /\ RunsNumbered /\ r # 0
      /\ \A q \in Started : q \in Run
  BY TypesForCounting, TriageAssumption DEF TypeInv, RunsTyped, ClaimInv, Run, Started
<1>3. \A q \in Run : runs'[q].attempts = runs[q].attempts /\ runs'[q].epoch = runs[q].epoch
                     /\ (runs'[q].status = "none" <=> runs[q].status = "none")
                     /\ host'[q] \in {host[q], "approved", "repair", "none"}
                     /\ (q # r => host'[q] = host[q])
  BY <1>1, <1>2 DEF SpendsNothing, Stops, Steps, RunsNumbered, Started
<1>4. Started' = Started /\ \A q \in Started : Attempt(q)' = Attempt(q) /\ Charger(q)' = Charger(q)
  BY <1>2, <1>3 DEF Started, Attempt, Charger
<1>5. a = <<r, runs[r].attempts>> /\ runs[r].attempts \in Nat /\ a \in Started \X Nat
      /\ a[1] = r /\ a[2] = runs[r].attempts
  BY <1>1, <1>2 DEF Attempt, AttemptsTyped
<1>6. /\ counters'.rounds = counters.rounds /\ counters'.last = counters.last
      /\ counters'.charger = counters.charger
      /\ \/ AlreadyJudged(counters, a) /\ counters' = counters
         \/ counters'.judged = a /\ ~AlreadyJudged(counters, a)
  BY Noted
<1>7. \A b \in answered' : b \in Started \X Nat /\ b[2] <= runs'[b[1]].attempts
  <2>1. ASSUME NEW b \in answered PROVE b \in Started \X Nat /\ b[2] <= runs'[b[1]].attempts
    BY <1>2, <1>3 DEF CountInv
  <2>. QED
    BY <1>1, <1>3, <1>5, <2>1
<1>8. \/ counters'.charger = <<0, 0>>
      \/ /\ counters'.charger \in Started \X Nat
         /\ counters'.charger[2] <= runs'[counters'.charger[1]].epoch
  BY <1>2, <1>3, <1>6 DEF CountInv
<1>9. \A q \in Started : counters'.last = Attempt(q) /\ counters'.charger = Charger(q)
                           => host'[q] \in {"repair", "none"}
  <2>1. ~(counters.last = Attempt(r) /\ counters.charger = Charger(r))
    BY <1>1 DEF CountInv
  <2>. QED
    BY <1>2, <1>3, <1>6, <2>1 DEF CountInv
<1>10. ASSUME OneJudged'
       PROVE  /\ counters'.rounds = Cardinality(sentBack')
              /\ \A q \in Started : Attempt(q) \in answered' => counters'.judged = Attempt(q)
  <2>1. OneJudged /\ \A b \in answered : b[1] = r
    BY <1>1, <1>5, <1>10 DEF OneJudged
  <2>2. counters'.rounds = Cardinality(sentBack')
    BY <1>1, <1>6, <2>1 DEF CountInv
  <2>3. ASSUME NEW q \in Started, Attempt(q) \in answered' PROVE counters'.judged = Attempt(q)
    <3>1. q = r
      BY <1>1, <2>1, <2>3 DEF Attempt
    <3>2. CASE AlreadyJudged(counters, a) /\ counters' = counters
      <4>1. a \in answered
        BY <1>2, <1>5, <3>2 DEF AlreadyJudged, CountInv, NoAttempt
      <4>. QED
        BY <1>1, <2>1, <3>1, <3>2, <4>1 DEF CountInv
    <3>. QED
      BY <1>6, <3>1, <3>2
  <2>. QED
    BY <2>2, <2>3
<1>11. counters'.judged \in answered' \cup {NoAttempt} /\ counters'.last \in answered' \cup {NoAttempt}
  BY <1>1, <1>6 DEF CountInv
<1>. QED
  BY <1>1, <1>4, <1>6, <1>7, <1>8, <1>9, <1>10, <1>11 DEF CountInv

\* A run that a step did not touch goes on as it was.
LEMMA UntouchedAdvances ==
  ASSUME AttemptsTyped, NEW q \in Started, runs'[q] = runs[q], host'[q] = host[q]
  PROVE  Advances(q)
BY DEF Advances, AttemptsTyped, Started

\* What is not a verdict advances the run it is about, and charges nothing.
LEMMA RunStepKeepsCount ==
  ASSUME ClaimInv, ClaimInv', TypeInv, TypeInv', CountInv, NEW r \in Run,
         \/ Delivers(r) \/ ChecksFail(r) \/ Repairs(r) \/ Blocks(r) \/ Promotes(r)
         \/ Resumes(r) \/ Vanishes(r) \/ Dies(r)
  PROVE  CountInv'
<1>1. AttemptsTyped /\ AttemptsTyped' /\ RunsNumbered /\ DOMAIN host = Run
  BY TypesForCounting DEF ClaimInv, TypeInv, RunsTyped, AttemptsTyped, RunTyped, RunsNumbered
<1>2. UNCHANGED Tally
  BY DEF Tally, Delivers, ChecksFail, Repairs, Blocks, Promotes, Resumes, Vanishes, Dies, record, history
<1>3. r \in Started /\ runs[r].attempts \in Nat /\ runs[r].epoch \in Nat
  BY <1>1 DEF Delivers, ChecksFail, Repairs, Blocks, Promotes, Resumes, Vanishes, Dies, Hosted,
              Live, Started, AttemptsTyped
<1>4. /\ \A q \in Run \ {r} : runs'[q] = runs[q] /\ host'[q] = host[q]
      /\ runs'[r].status # "none"
  <2>1. ASSUME NEW why, Stops(r, why)
        PROVE  /\ \A q \in Run \ {r} : runs'[q] = runs[q] /\ host'[q] = host[q]
               /\ runs'[r].status # "none"
    BY <1>1, <2>1 DEF Stops, Steps, RunsNumbered
  <2>. QED
    BY <1>1, <1>3, <2>1 DEF Delivers, ChecksFail, Repairs, Blocks, Promotes, Resumes, Vanishes, Dies,
              Steps, RunsNumbered, Started
<1>5. Started \subseteq Started'
  BY <1>4 DEF Started
<1>6. Advances(r)
  <2>1. ASSUME NEW why, Stops(r, why)
        PROVE  runs'[r].attempts = runs[r].attempts /\ runs'[r].epoch = runs[r].epoch /\ host'[r] = "none"
    BY <1>1, <2>1 DEF Stops, Steps, RunsNumbered
  <2>2. CASE Blocks(r) \/ Vanishes(r)
    BY <1>3, <2>1, <2>2 DEF Blocks, Vanishes, Advances
  <2>3. CASE Delivers(r)
    BY <1>1, <1>3, <2>3 DEF Delivers, Hosted, Steps, Advances, RunsNumbered
  <2>4. CASE ChecksFail(r)
    BY <1>1, <1>3, <2>4 DEF ChecksFail, Hosted, Steps, Advances, RunsNumbered
  <2>5. CASE Repairs(r)
    <3>1. runs'[r].attempts = runs[r].attempts + 1 /\ runs'[r].epoch = runs[r].epoch
      BY <1>1, <2>5 DEF Repairs, RunsNumbered
    <3>. QED
      BY <1>3, <3>1 DEF Advances
  <2>6. CASE Promotes(r)
    BY <1>1, <1>3, <2>1, <2>6 DEF Promotes, Hosted, Steps, Advances, RunsNumbered
  <2>7. CASE Resumes(r)
    <3>1. runs'[r].attempts = runs[r].attempts /\ runs'[r].epoch = runs[r].epoch + 1
      BY <1>1, <2>7 DEF Resumes, RunsNumbered
    <3>. QED
      BY <1>3, <3>1 DEF Advances
  <2>8. CASE Dies(r)
    BY <1>1, <1>3, <2>8 DEF Dies, Steps, Advances, RunsNumbered
  <2>. QED
    BY <2>2, <2>3, <2>4, <2>5, <2>6, <2>7, <2>8
<1>7. \A q \in Started : Advances(q)
  BY <1>1, <1>4, <1>6, UntouchedAdvances DEF Started
<1>. QED
  BY <1>1, <1>2, <1>5, <1>7, AdvancingKeepsCount

\* A refused attempt gives no round back that a verdict spent.
LEMMA RefusedKeepsCount ==
  ASSUME ClaimInv, ClaimInv', TypeInv, TypeInv', CountInv, NEW r \in Run,
         Hosted(r, "develop") \/ Hosted(r, "review"), NEW why, Refused(r, why)
  PROVE  CountInv'
<1>1. AttemptsTyped /\ AttemptsTyped' /\ RunsNumbered /\ DOMAIN host = Run
  BY TypesForCounting DEF ClaimInv, TypeInv, RunsTyped, AttemptsTyped, RunTyped, RunsNumbered
<1>2. UNCHANGED Tally
  BY NothingToReturn DEF Tally, Refused
<1>3. r \in Started /\ runs[r].attempts \in Nat /\ runs[r].epoch \in Nat
  BY <1>1 DEF Hosted, Started, AttemptsTyped
<1>4. /\ \A q \in Run \ {r} : runs'[q] = runs[q] /\ host'[q] = host[q]
      /\ runs'[r].status = "stopped" /\ host'[r] = "none"
      /\ runs'[r].attempts = runs[r].attempts /\ runs'[r].epoch = runs[r].epoch
  BY <1>1 DEF Refused, Steps, ReturnGrantedRound, RunsNumbered
<1>5. Started \subseteq Started' /\ Advances(r)
  BY <1>3, <1>4 DEF Started, Advances
<1>6. \A q \in Started : Advances(q)
  BY <1>1, <1>4, <1>5, UntouchedAdvances DEF Started
<1>. QED
  BY <1>1, <1>2, <1>5, <1>6, AdvancingKeepsCount

\* A fresh run was not judged yet.
LEMMA FreshKeepsCount ==
  ASSUME ClaimInv, ClaimInv', TypeInv, TypeInv', CountInv, NEW f \in Run, NEW from, Fresh(f, from),
         UNCHANGED <<counters, answered, sentBack>>
  PROVE  CountInv'
<1>1. AttemptsTyped /\ AttemptsTyped' /\ DOMAIN host = Run
  BY TypesForCounting DEF ClaimInv, TypeInv, RunsTyped, AttemptsTyped, RunTyped, RunsNumbered
<1>2. f \notin Started /\ Started' = Started \cup {f} /\ \A q \in Run \ {f} : runs'[q] = runs[q]
  BY FreshIsNew
<1>3. \A q \in Started : q \in Run /\ q # f /\ runs'[q] = runs[q] /\ host'[q] = host[q]
  BY <1>1, <1>2 DEF Fresh, Steps, Started
<1>4. \A q \in Started : Advances(q)
  BY <1>1, <1>3, UntouchedAdvances
<1>5. UNCHANGED Tally
  BY DEF Tally
<1>. QED
  BY <1>1, <1>2, <1>4, <1>5, AdvancingKeepsCount

\* A continued run is another hosting of it.
LEMMA ContinuesKeepsCount ==
  ASSUME ClaimInv, ClaimInv', TypeInv, TypeInv', CountInv, NEW c \in Carriers, Continues(c)
  PROVE  CountInv'
<1>. DEFINE r == carrier[c].run
<1>1. AttemptsTyped /\ AttemptsTyped' /\ RunsNumbered /\ DOMAIN host = Run
  BY TypesForCounting DEF ClaimInv, TypeInv, RunsTyped, AttemptsTyped, RunTyped, RunsNumbered
<1>2. UNCHANGED Tally
  BY DEF Tally, Continues, record, history
<1>3. r \in Started /\ r \in Run /\ runs[r].attempts \in Nat /\ runs[r].epoch \in Nat
  BY <1>1 DEF Continues, ClaimInv, CarriersShaped, Started, AttemptsTyped
<1>4. /\ \A q \in Run \ {r} : runs'[q] = runs[q] /\ host'[q] = host[q]
      /\ runs'[r].status = "live" /\ runs'[r].epoch = runs[r].epoch + 1
      /\ runs'[r].attempts \in {runs[r].attempts, runs[r].attempts + 1}
  BY <1>1, <1>3 DEF Continues, Steps, RunsNumbered
<1>5. Started \subseteq Started' /\ Advances(r)
  BY <1>3, <1>4 DEF Started, Advances
<1>6. \A q \in Started : Advances(q)
  BY <1>1, <1>4, <1>5, UntouchedAdvances DEF Started
<1>. QED
  BY <1>1, <1>2, <1>5, <1>6, AdvancingKeepsCount

\* Everything else leaves the tally alone.
LEMMA NextCounts ==
  ASSUME Numbers, ClaimInv, ClaimInv', TypeInv, TypeInv', CountInv, [Next]_vars
  PROVE  CountInv'
<1>1. ASSUME UNCHANGED <<runs, host>>, UNCHANGED Tally PROVE CountInv'
  <2>1. AttemptsTyped /\ AttemptsTyped'
    BY <1>1, TypesForCounting DEF AttemptsTyped
  <2>2. Started' = Started
    BY <1>1 DEF Started
  <2>3. \A q \in Started : Advances(q)
    BY <1>1, <2>1, UntouchedAdvances
  <2>. QED
    BY <1>1, <2>1, <2>2, <2>3, AdvancingKeepsCount
<1>2. ASSUME NEW r \in Run, GrantRepair(r) \/ RecordRerun(r) \/ RecordDecision(r) PROVE CountInv'
  <2>1. UNCHANGED <<runs, host, answered, sentBack>>
    BY <1>2 DEF GrantRepair, RecordRerun, RecordDecision, Decides, history
  <2>2. UNCHANGED <<counters.rounds, counters.judged, counters.last, counters.charger>>
    BY <1>2 DEF GrantRepair, RecordRerun, RecordDecision, Superseding, Release, Numbers
  <2>. QED
    BY <1>1, <2>1, <2>2 DEF Tally
<1>3. ASSUME NEW b \in Budget, CrossCap(b) PROVE CountInv'
  BY <1>1, <1>3 DEF CrossCap, Tally, history, Numbers
<1>4. ASSUME NEW r \in Run, RunStep(r) \/ Dies(r) PROVE CountInv'
  <2>1. CASE SendsBack(r)
    BY <2>1, SendsBackKeepsCount
  <2>2. CASE SpendsNothing(r)
    BY <2>2, SpendsNothingKeepsCount
  <2>3. CASE CannotSpawn(r) \/ StoppedByUsageWindow(r)
    <3>1. \E why : Refused(r, why)
      BY <2>3 DEF CannotSpawn, StoppedByUsageWindow
    <3>2. Hosted(r, "develop") \/ Hosted(r, "review")
      BY <2>3 DEF CannotSpawn, StoppedByUsageWindow
    <3>. QED
      BY <3>1, <3>2, RefusedKeepsCount
  <2>4. CASE Pulled(r)
    BY <2>4, FreshKeepsCount DEF Pulled, record, history
  <2>. QED
    BY <1>4, <2>1, <2>2, <2>3, <2>4, RunStepKeepsCount DEF RunStep
<1>5. ASSUME NEW c \in Carriers, CarrierStep(c) \/ CarrierDies(c) PROVE CountInv'
  <2>1. CASE Continues(c)
    BY <2>1, ContinuesKeepsCount
  <2>2. CASE Starts(c)
    BY <2>2, FreshKeepsCount DEF Starts, record, history
  <2>. QED
    BY <1>1, <1>5, <2>1, <2>2
       DEF CarrierStep, CarrierDies, LooksToContinue, LooksToRerun, Reads, Claims, Withdraws, Tally,
           record, history
<1>6. CASE UNCHANGED vars
  BY <1>1, <1>6 DEF vars, Tally, record, history
<1>. QED
  BY <1>2, <1>3, <1>4, <1>5, <1>6 DEF Next

\* Nothing was judged, and nothing charged.
LEMMA InitCounts == Init => CountInv
<1>. SUFFICES ASSUME Init PROVE CountInv
  OBVIOUS
<1>1. IsFiniteSet(sentBack) /\ Cardinality(sentBack) = 0 /\ sentBack = {} /\ answered = {}
  BY FS_EmptySet DEF Init
<1>2. /\ counters.judged = NoAttempt /\ counters.last = NoAttempt /\ counters.charger = <<0, 0>>
      /\ counters.rounds = 0
  BY DEF Init
<1>3. \A r \in Started : Attempt(r) # NoAttempt
  BY TriageAssumption DEF Started, Run, Attempt, NoAttempt
<1>. QED
  BY <1>1, <1>2, <1>3 DEF CountInv, OneJudged

\* One judged run is one run that attempts were judged of.
LEMMA JudgedAlone ==
  ASSUME CountInv, Cardinality(Judged) <= 1
  PROVE  OneJudged
<1>1. Judged \subseteq Started /\ Judged = {a[1] : a \in answered}
  BY DEF CountInv, Judged
<1>2. Runs \in Int /\ Started \subseteq 1..Runs
  BY TriageAssumption DEF Started, Run
<1>3. IsFiniteSet(1..Runs)
  BY <1>2, FS_Interval
<1>4. IsFiniteSet(Judged)
  BY <1>1, <1>2, <1>3, FS_Subset
<1>5. SUFFICES ASSUME NEW a \in answered, NEW b \in answered, a[1] # b[1] PROVE FALSE
  BY DEF OneJudged
<1>. DEFINE P == {a[1], b[1]}
<1>6. P \subseteq Judged
  BY <1>1
<1>7. Cardinality(P) = 2
  <2>. DEFINE A == {a[1]}
  <2>1. IsFiniteSet(A) /\ Cardinality(A) = 1
    BY FS_Singleton
  <2>2. b[1] \notin A /\ P = A \cup {b[1]}
    BY <1>5
  <2>. HIDE DEF A
  <2>3. Cardinality(A \cup {b[1]}) = 1 + 1
    BY <2>1, <2>2, FS_AddElement
  <2>. QED
    BY <2>2, <2>3
<1>8. Cardinality(P) <= Cardinality(Judged) /\ Cardinality(Judged) \in Nat
  BY <1>4, <1>6, FS_Subset, FS_CardinalityType
<1>. QED
  BY <1>7, <1>8

\* The three that counting rests on, and the count.
RecordInv == Promises /\ ClaimInv /\ TypeInv /\ CountInv

\* It is inductive.
LEMMA RecordHolds == (Init => RecordInv) /\ (RecordInv /\ [Next]_vars => RecordInv')
<1>1. Init => RecordInv
  BY InitPromises, InitClaims, InitTyped, InitCounts DEF RecordInv
<1>2. ASSUME RecordInv, [Next]_vars PROVE RecordInv'
  <2>1. Promises /\ Numbers /\ ClaimInv /\ TypeInv /\ CountInv
    BY <1>2 DEF RecordInv, Promises
  <2>2. Promises' /\ ClaimInv' /\ TypeInv'
    BY <1>2, <2>1, NextPromises, NextClaims, NextTyped
  <2>3. CountInv'
    BY <1>2, <2>1, <2>2, NextCounts
  <2>. QED
    BY <2>2, <2>3 DEF RecordInv
<1>. QED
  BY <1>1, <1>2

\* No round goes uncounted and, while one run of the item was judged, none is counted
\* twice, whatever is replayed, killed, refused or continued.
THEOREM RoundsCounted == Spec => []RoundsAreCounted
<1>1. RecordInv => RoundsAreCounted
  BY JudgedAlone DEF RecordInv, CountInv, RoundsAreCounted
<1>. QED
  BY RecordHolds, <1>1, PTL DEF Spec

-----------------------------------------------------------------------------
(* Reservations.                                                           *)

\* What the repairs that stand were granted.
Repairing == {r \in Run : decisions[r].word = "repair"}

\* Their total, and what is reserved of it.
Promised == Total(decisions, "rounds", Repairing)
KeptFor == Reserved(counters) <= Promised

\* The sum of the model is a total.
LEMMA PromisedIsSum == ReservedForStanding <=> KeptFor
<1>1. Sum({r \in Run : decisions[r].word = "repair"}, LAMBDA r : decisions[r].rounds) = Promised
  BY Zenon DEF Promised, Repairing, Sum, MapThenSumSet, MapThenFoldSet, Total, Totals, Adds, Picked
<1>. QED
  BY <1>1 DEF ReservedForStanding, KeptFor

\* Sets of runs are finite.
LEMMA FiniteRuns == \A S : S \subseteq Run => IsFiniteSet(S)
<1>1. Runs \in Int /\ Run = 1..Runs
  BY TriageAssumption DEF Run
<1>2. IsFiniteSet(1..Runs)
  BY <1>1, FS_Interval
<1>. QED
  BY <1>1, <1>2, FS_Subset

\* What a decision in place of another does to what repairs were promised.
LEMMA StandingPromises ==
  ASSUME Numbers, DecisionsTyped, DecisionsTyped', NEW r \in Run, NEW word, NEW n \in Nat,
         Standing(r, word, n)
  PROVE  \E base \in Nat :
           /\ Promised = base + IF decisions[r].word = "repair" THEN decisions[r].rounds ELSE 0
           /\ word = "repair" => Promised' = Promised + n
           /\ word # "repair" => Promised' = base
<1>. DEFINE others == Repairing \ {r}
            base == Total(decisions, "rounds", others)
            old == IF decisions[r].word = "repair" THEN decisions[r].rounds ELSE 0
<1>1. DOMAIN decisions = Run /\ decisions[r].rounds \in Nat /\ old \in Nat
  BY DEF Numbers
<1>2. /\ \A q \in others : decisions'[q] = decisions[q]
      /\ decisions'[r].word = word
      /\ word = "repair" => decisions'[r].rounds = n + old
      /\ Repairing' \ {r} = others
      /\ r \in Repairing <=> decisions[r].word = "repair"
      /\ r \in Repairing' <=> word = "repair"
  BY <1>1 DEF Standing, Repairing
<1>3. Addends(decisions, "rounds", Repairing) /\ Addends(decisions, "rounds", others)
  BY FiniteRuns DEF Addends, Repairing, DecisionsTyped
<1>4. Addends(decisions', "rounds", Repairing')
  BY FiniteRuns DEF Addends, Repairing, DecisionsTyped
<1>5. base \in Nat
  BY <1>3, TotalTyped
<1>6. Promised = base + old
  <2>1. CASE r \in Repairing
    <3>1. Total(decisions, "rounds", Repairing) = decisions[r]["rounds"] + base
      BY <1>3, <2>1, TotalWithout
    <3>. QED
      BY <1>1, <1>2, <1>5, <2>1, <3>1 DEF Promised
  <2>2. CASE r \notin Repairing
    <3>1. others = Repairing /\ old = 0
      BY <1>2, <2>2
    <3>. QED
      BY <1>5, <3>1 DEF Promised
  <2>. QED
    BY <2>1, <2>2
<1>7. Total(decisions', "rounds", others) = base
  BY <1>2, <1>3, TotalSame
<1>8. CASE word = "repair"
  <2>1. Total(decisions', "rounds", Repairing') = decisions'[r]["rounds"] + Total(decisions', "rounds", Repairing' \ {r})
    BY <1>2, <1>4, <1>8, TotalWithout
  <2>2. Promised' = (n + old) + base
    BY <1>2, <1>7, <1>8, <2>1 DEF Promised
  <2>. QED
    BY <1>1, <1>5, <1>6, <1>8, <2>2
<1>9. CASE word # "repair"
  <2>1. Repairing' = others
    BY <1>2, <1>9
  <2>2. Promised' = base
    BY <1>7, <2>1 DEF Promised
  <2>. QED
    BY <1>5, <1>6, <1>9, <2>2
<1>. QED
  BY <1>8, <1>9

\* Promises are about decisions, and nothing else.
LEMMA UnchangedPromises ==
  ASSUME decisions' = decisions
  PROVE  Promised' = Promised
BY DEF Promised, Repairing

\* A release takes what it says off the reservation, down to nothing.
LEMMA ReleaseReserves ==
  ASSUME NEW k, {"committed", "rounds"} \subseteq DOMAIN k, k.committed \in Nat, k.rounds \in Nat, NEW n \in Nat
  PROVE  /\ Reserved(k) \in Nat
         /\ Reserved(Release(k, n)) = MaxOf(Reserved(k) - n, 0)
<1>1. Release(k, n).committed = k.committed - MinOf(n, Reserved(k)) /\ Release(k, n).rounds = k.rounds
  BY DEF Release
<1>. QED
  BY <1>1 DEF Reserved, MinOf, MaxOf

\* A grant reserves what it promises; whatever else is decided or judged releases.
LEMMA NextKeeps ==
  ASSUME Numbers, CountInv, DecisionsTyped, DecisionsTyped', KeptFor, [Next]_vars
  PROVE  KeptFor'
<1>0. /\ counters.committed \in Nat /\ counters.rounds \in Nat
      /\ {"committed", "rounds"} \subseteq DOMAIN counters
  BY DEF Numbers
<1>1. Reserved(counters) \in Nat /\ Promised \in Nat
  <2>1. Addends(decisions, "rounds", Repairing)
    BY FiniteRuns DEF Addends, Repairing, DecisionsTyped
  <2>. QED
    BY <1>0, <2>1, ReleaseReserves, TotalTyped DEF Promised
<1>2. ASSUME decisions' = decisions, Reserved(counters') \in Int, Reserved(counters') <= Reserved(counters)
      PROVE  KeptFor'
  <2>1. Reserved(counters)' = Reserved(counters')
    BY DEF Reserved
  <2>. QED
    BY <1>1, <1>2, <2>1, UnchangedPromises DEF KeptFor
<1>3. CASE UNCHANGED <<counters, decisions>>
  BY <1>1, <1>2, <1>3
<1>4. ASSUME NEW r \in Run, GrantRepair(r) PROVE KeptFor'
  <2>. DEFINE n == MinOf(GrantSize, Room(counters))
  <2>1. n \in Nat
    BY TriageAssumption DEF Numbers, MinOf, MaxOf, Room, Uncommitted, Committed
  <2>2. /\ counters' = [counters EXCEPT !.grants = @ + 1, !.granted = @ + n,
                                        !.committed = Committed(counters) + n]
        /\ Standing(r, "repair", n)
    BY <1>4 DEF GrantRepair
  <2>. HIDE DEF n
  <2>3. counters'.committed = Committed(counters) + n /\ counters'.rounds = counters.rounds
    BY <1>0, <2>2
  <2>4. Reserved(counters)' = Reserved(counters) + n
    BY <1>0, <2>1, <2>3 DEF Reserved, Committed, MaxOf
  <2>5. Promised' = Promised + n
    BY <2>1, <2>2, StandingPromises
  <2>. QED
    BY <1>1, <2>1, <2>4, <2>5 DEF KeptFor
<1>5. ASSUME NEW r \in Run, RecordRerun(r) \/ RecordDecision(r) PROVE KeptFor'
  <2>1. PICK word \in {"rerun", "wait"} :
          /\ Standing(r, word, 0)
          /\ LET k == Superseding(counters, r, word)
             IN  counters' \in {k, [k EXCEPT !.reruns = @ + 1]}
    BY <1>5 DEF RecordRerun, RecordDecision
  <2>2. PICK base \in Nat :
          /\ Promised = base + IF decisions[r].word = "repair" THEN decisions[r].rounds ELSE 0
          /\ Promised' = base
    BY <2>1, StandingPromises
  <2>. DEFINE k == Superseding(counters, r, word)
              m == decisions[r].rounds
  <2>3. m \in Nat
    BY DEF Numbers
  <2>4. counters'.committed = k.committed /\ counters'.rounds = k.rounds
    <3>1. {"committed", "rounds"} \subseteq DOMAIN k
      BY <1>0 DEF Superseding, Release
    <3>2. counters' \in {k, [k EXCEPT !.reruns = @ + 1]}
      BY <2>1
    <3>. HIDE DEF k
    <3>. QED
      BY <3>1, <3>2
  <2>5. Reserved(counters)' = Reserved(k)
    BY <2>4 DEF Reserved
  <2>6. Reserved(k) <= base
    <3>1. CASE decisions[r].word = "repair"
      <4>1. Reserved(k) = MaxOf(Reserved(counters) - m, 0)
        BY <1>0, <2>1, <2>3, <3>1, ReleaseReserves DEF Superseding
      <4>2. Reserved(counters) <= base + m
        BY <2>2, <3>1 DEF KeptFor
      <4>. QED
        BY <1>1, <2>3, <4>1, <4>2 DEF MaxOf
    <3>2. CASE decisions[r].word # "repair"
      BY <2>2, <3>2 DEF Superseding, KeptFor
    <3>. QED
      BY <3>1, <3>2
  <2>. QED
    BY <2>2, <2>5, <2>6 DEF KeptFor
<1>6. ASSUME NEW b \in Budget, CrossCap(b) PROVE KeptFor'
  <2>1. decisions' = decisions /\ counters'.committed = counters.committed /\ counters'.rounds = counters.rounds
    BY <1>0, <1>6 DEF CrossCap
  <2>2. Reserved(counters') = Reserved(counters)
    BY <2>1 DEF Reserved
  <2>. QED
    BY <1>1, <1>2, <2>1, <2>2
<1>7. ASSUME NEW r \in Run, SendsBack(r) PROVE KeptFor'
  <2>1. decisions' = decisions /\ counters'.committed = counters.committed
        /\ counters'.rounds \in {counters.rounds, counters.rounds + 1}
    BY <1>0, <1>7 DEF SendsBack, Charged
  <2>2. Reserved(counters') \in Int /\ Reserved(counters') <= Reserved(counters)
    BY <1>0, <2>1 DEF Reserved, MaxOf
  <2>. QED
    BY <1>2, <2>1, <2>2
<1>8. ASSUME NEW r \in Run, SpendsNothing(r) PROVE KeptFor'
  <2>. DEFINE noted == [counters EXCEPT !.judged = Attempt(r)]
  <2>1. decisions' = decisions /\ counters' \in {counters, noted, Release(noted, 1)}
    BY <1>8 DEF SpendsNothing, Uncharged
  <2>2. noted.committed = counters.committed /\ noted.rounds = counters.rounds
        /\ {"committed", "rounds"} \subseteq DOMAIN noted
    BY <1>0
  <2>3. Reserved(noted) = Reserved(counters)
    BY <2>2 DEF Reserved
  <2>. HIDE DEF noted
  <2>4. Reserved(Release(noted, 1)) = MaxOf(Reserved(noted) - 1, 0)
    BY <1>0, <2>2, ReleaseReserves
  <2>5. MaxOf(Reserved(counters) - 1, 0) \in Int /\ MaxOf(Reserved(counters) - 1, 0) <= Reserved(counters)
    BY <1>1 DEF MaxOf
  <2>. QED
    BY <1>1, <1>2, <2>1, <2>3, <2>4, <2>5
<1>9. ASSUME NEW r \in Run, CannotSpawn(r) \/ StoppedByUsageWindow(r) PROVE KeptFor'
  <2>1. PICK why : Refused(r, why)
    BY <1>9 DEF CannotSpawn, StoppedByUsageWindow
  <2>2. Hosted(r, "develop") \/ Hosted(r, "review")
    BY <1>9 DEF CannotSpawn, StoppedByUsageWindow
  <2>. QED
    BY <1>3, <2>1, <2>2, NothingToReturn DEF Refused
<1>10. ASSUME NEW r \in Run, RunStep(r) \/ Dies(r) PROVE KeptFor'
  BY <1>3, <1>7, <1>8, <1>9, <1>10
     DEF RunStep, Delivers, ChecksFail, Repairs, Blocks, Promotes, Resumes, Vanishes, Pulled, Dies, record
<1>11. ASSUME NEW c \in Carriers, CarrierStep(c) \/ CarrierDies(c) PROVE KeptFor'
  BY <1>3, <1>11
     DEF CarrierStep, CarrierDies, LooksToContinue, LooksToRerun, Reads, Continues, Claims, Starts,
         Withdraws, record
<1>12. CASE UNCHANGED vars
  BY <1>3, <1>12 DEF vars, record
<1>. QED
  BY <1>4, <1>5, <1>6, <1>10, <1>11, <1>12 DEF Next

\* Nothing is reserved before anything was granted.
LEMMA InitKeeps == Init => KeptFor
<1>. SUFFICES ASSUME Init PROVE KeptFor
  OBVIOUS
<1>1. Addends(decisions, "rounds", Repairing)
  BY FiniteRuns, InitTyped DEF Addends, Repairing, TypeInv, DecisionsTyped
<1>2. Promised \in Nat
  BY <1>1, TotalTyped DEF Promised
<1>3. Reserved(counters) = 0
  BY DEF Init, Reserved, MaxOf
<1>. QED
  BY <1>2, <1>3 DEF KeptFor

\* A round is kept for a repair only while a repair that was granted it stands, whatever
\* supersedes a decision and in whatever order verdicts come.
THEOREM ReservedKept == Spec => []ReservedForStanding
<1>1. KeptFor => ReservedForStanding
  BY PromisedIsSum
<1>2. RecordInv /\ RecordInv' /\ KeptFor /\ [Next]_vars => KeptFor'
  BY NextKeeps DEF RecordInv, Promises, TypeInv
<1>. QED
  BY RecordHolds, InitKeeps, <1>1, <1>2, PTL DEF Spec

=============================================================================
