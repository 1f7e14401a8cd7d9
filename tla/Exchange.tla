------------------------------ MODULE Exchange ------------------------------
(***************************************************************************)
(* One inter-role exchange (internal/exchange: conduct.go, survey.go; its  *)
(* store and lease: internal/runstate/exchange.go): one role asks another  *)
(* for judgement, in rounds, until it settles the question or the rounds   *)
(* are spent.  Conversations of the asking role put rounds                 *)
(* (Conductor.Put), carry the answer on and charge it (Conductor.Charge,   *)
(* called by internal/chat/exchange.go), and the supervision pass of       *)
(* internal/orchestrator/supervision.go reclaims what a killed process     *)
(* left and ends what nobody asks further.                                 *)
(*                                                                         *)
(* A record is read and replaced whole, so every process works on a copy   *)
(* and every save is a step of its own.  The lease is an advisory lock the *)
(* operating system drops with its holder.  What a round says and costs is *)
(* left out: a charge is modelled by the write it makes.                   *)
(***************************************************************************)
EXTENDS Integers, Sequences, FiniteSets

CONSTANTS
  Askers,      \* conversations of the asking role, each in a process
  Sweepers,    \* processes that take supervision passes
  Nobody,      \* no holder of the lease
  MaxRounds,   \* the cap the exchange was opened with
  MaxAsked,    \* bound: rounds put to the answering role
  MaxCrashes   \* bound: killed processes

Proc == Askers \cup Sweepers

ASSUME ExchangeAssumption ==
  /\ MaxRounds \in Nat \ {0} /\ MaxAsked \in Nat /\ MaxCrashes \in Nat
  /\ Askers \cap Sweepers = {} /\ Nobody \notin Proc

VARIABLES
  disk,        \* the exchange's file: its rounds and its outcome
  lease,       \* who holds the exchange's lease
  at,          \* where each process is
  copy,        \* the record each process read or is writing
  told,        \* how often the operator was told the exchange closed unresolved
  crashes,     \* spent of the bound
  thread,      \* history: the rounds put, and what came of each
  overwrote,   \* history: a charge was saved over a record it had not read
  silenced     \* history: nobody was told of a closing: the process was killed
               \* first, or the escalation failed

vars == <<disk, lease, at, copy, told, crashes, thread, overwrote, silenced>>

\* A round on the record: who put it, and what came back.
Said == {"nothing", "answer", "problem"}
NoRecord == [rounds |-> <<>>, outcome |-> "open"]

Open(rec) == rec.outcome = "open"
Spent(rec) == Len(rec.rounds)

\* Exchange.Interrupted: the last round was put and nothing came back.
Interrupted(rec) == Spent(rec) > 0 /\ rec.rounds[Spent(rec)].said = "nothing"

Saying(rounds, said) == [rounds EXCEPT ![Len(rounds)].said = said]
Closing(rec, outcome) == [rec EXCEPT !.outcome = outcome]

Moves(p, where, rec) == at' = [at EXCEPT ![p] = where] /\ copy' = [copy EXCEPT ![p] = rec]
Goes(p, where) == Moves(p, where, copy[p])
Releases(p) == lease' = IF lease = p THEN Nobody ELSE lease

\* A process that is done, or gone, keeps neither its copy nor the lease.
Leaves(p) == Moves(p, "idle", NoRecord) /\ Releases(p)

Init ==
  /\ disk = NoRecord
  /\ lease = Nobody
  /\ at = [p \in Proc |-> "idle"]
  /\ copy = [p \in Proc |-> NoRecord]
  /\ told = 0 /\ crashes = 0
  /\ thread = <<>> /\ overwrote = FALSE /\ silenced = FALSE

-----------------------------------------------------------------------------
(* Conductor.Put. *)

\* ExchangeStore.Hold, without waiting: an exchange somebody holds refuses the
\* ask.  The first ask opens the exchange, under an identifier nobody else has.
Holds(p) ==
  /\ at[p] = "idle" /\ lease = Nobody
  /\ lease' = p
  /\ Goes(p, "held")
  /\ UNCHANGED <<disk, told, crashes, thread, overwrote, silenced>>

\* begin and settle load the record under the lease; one that closed is refused.
Loads(p) ==
  /\ at[p] = "held"
  /\ IF Open(disk) THEN Moves(p, "loaded", disk) /\ UNCHANGED lease ELSE Leaves(p)
  /\ UNCHANGED <<disk, told, crashes, thread, overwrote, silenced>>

Settles(p) ==
  /\ at[p] = "loaded" /\ Spent(copy[p]) > 0
  /\ disk' = Closing(copy[p], "resolved")
  /\ Leaves(p)
  /\ UNCHANGED <<told, crashes, thread, overwrote, silenced>>

\* Exchange.Validate, which Save asks: no round behind one nothing came back for.
Refused(p) ==
  /\ at[p] = "loaded" /\ Spent(copy[p]) < MaxRounds /\ Interrupted(copy[p])
  /\ Leaves(p)
  /\ UNCHANGED <<disk, told, crashes, thread, overwrote, silenced>>

Recorded_Later(rec, asking) == rec                                 \* mutant
Recorded(rec, asking) == asking

\* The round is recorded before the answering role is asked.
Asks(p) ==
  /\ at[p] = "loaded" /\ Spent(copy[p]) < MaxRounds /\ ~Interrupted(copy[p])
  /\ Len(thread) < MaxAsked
  /\ LET round  == [by |-> p, said |-> "nothing"]
         asking == [copy[p] EXCEPT !.rounds = Append(@, round)]
     IN  /\ disk' = Recorded(copy[p], asking)
         /\ Moves(p, "asked", asking)
         /\ thread' = Append(thread, round)
  /\ UNCHANGED <<lease, told, crashes, overwrote, silenced>>

\* The answer, or why there is none, saved from the copy the round was put with;
\* the lease goes back and the answer is carried on.
Answers(p, said) ==
  /\ at[p] = "asked"
  /\ disk' = [copy[p] EXCEPT !.rounds = Saying(@, said)]
  /\ thread' = Saying(thread, said)
  /\ Moves(p, "carrying", NoRecord)
  /\ Releases(p)
  /\ UNCHANGED <<told, crashes, overwrote, silenced>>

\* exhaust: closed first, so that nothing can take another round meanwhile.
Exhausts(p) ==
  /\ at[p] = "loaded" /\ Spent(copy[p]) >= MaxRounds
  /\ disk' = Closing(copy[p], "unresolved")
  /\ Goes(p, "telling")
  /\ UNCHANGED <<lease, told, crashes, thread, overwrote, silenced>>

\* escalate: the operator is told, and the lease goes back.
Tells(p) ==
  /\ at[p] = "telling"
  /\ told' = told + 1
  /\ Leaves(p)
  /\ UNCHANGED <<disk, crashes, thread, overwrote, silenced>>

\* escalate without a pile of reports, or with one that refuses the append: the
\* asker gets the error, and the exchange stays closed.
TellFails(p) ==
  /\ at[p] = "telling"
  /\ silenced' = TRUE
  /\ Leaves(p)
  /\ UNCHANGED <<disk, told, crashes, thread, overwrote>>

-----------------------------------------------------------------------------
(* Conductor.Charge: what the invocation that carried the answer on cost is    *)
(* added to the record, without the lease.                                     *)

CostsNothing(p) ==
  /\ at[p] = "carrying"
  /\ Leaves(p)
  /\ UNCHANGED <<disk, told, crashes, thread, overwrote, silenced>>

ChargeLoads(p) ==
  /\ at[p] = "carrying"
  /\ Moves(p, "charging", disk)
  /\ UNCHANGED <<disk, lease, told, crashes, thread, overwrote, silenced>>

ChargeSaves(p) ==
  /\ at[p] = "charging"
  /\ disk' = copy[p]
  /\ overwrote' = (overwrote \/ copy[p] # disk)
  /\ Leaves(p)
  /\ UNCHANGED <<told, crashes, thread, silenced>>

-----------------------------------------------------------------------------
(* SupervisionLoop.Run. *)

\* The listing, read before anything is held.
Lists(s) ==
  /\ at[s] = "idle" /\ Spent(disk) > 0 /\ Open(disk)
  /\ Moves(s, "listed", disk)
  /\ UNCHANGED <<disk, lease, told, crashes, thread, overwrote, silenced>>

\* An exchange a live process carries is left alone.
Skips(s) ==
  /\ at[s] = "listed" /\ lease # Nobody
  /\ Leaves(s)
  /\ UNCHANGED <<disk, told, crashes, thread, overwrote, silenced>>

SweepHolds(s) ==
  /\ at[s] = "listed" /\ lease = Nobody
  /\ lease' = s
  /\ Goes(s, "sweeping")
  /\ UNCHANGED <<disk, told, crashes, thread, overwrote, silenced>>

Current_Listed(s) == copy[s]                                       \* mutant
Current(s) == disk

Surveys_Interrupted(s) ==                                          \* mutant
  LET rec == Current(s) IN
  /\ at[s] = "sweeping"
  /\ IF Open(rec) /\ Interrupted(rec) THEN Moves(s, "reclaiming", rec) /\ UNCHANGED lease
                                       ELSE Leaves(s)
  /\ UNCHANGED <<disk, told, crashes, thread, overwrote, silenced>>

\* Survey, of the record as it stands under the lease.
Surveys(s) ==
  LET rec == Current(s) IN
  /\ at[s] = "sweeping"
  /\ IF Open(rec) /\ Interrupted(rec) THEN Moves(s, "reclaiming", rec) /\ UNCHANGED lease
     ELSE IF Open(rec) /\ Spent(rec) >= MaxRounds THEN Moves(s, "loaded", rec) /\ UNCHANGED lease
     ELSE Leaves(s)
  /\ UNCHANGED <<disk, told, crashes, thread, overwrote, silenced>>

\* Conductor.Reclaim: the round stays spent, and says why nothing came back.  A
\* thread whose rounds are spent is ended next.
Reclaims(s) ==
  /\ at[s] = "reclaiming"
  /\ LET reclaimed == [copy[s] EXCEPT !.rounds = Saying(@, "problem")]
     IN  /\ disk' = reclaimed
         /\ IF Spent(reclaimed) >= MaxRounds
              THEN Moves(s, "loaded", reclaimed) /\ UNCHANGED lease
              ELSE Leaves(s)
  /\ thread' = IF Interrupted([rounds |-> thread]) THEN Saying(thread, "problem") ELSE thread
  /\ UNCHANGED <<told, crashes, overwrote, silenced>>

-----------------------------------------------------------------------------

\* A killed process: the operating system drops its lease.
Dies(p) ==
  /\ at[p] # "idle" /\ crashes < MaxCrashes
  /\ crashes' = crashes + 1
  /\ silenced' = (silenced \/ at[p] = "telling")
  /\ Leaves(p)
  /\ UNCHANGED <<disk, told, thread, overwrote>>

AskerStep(p) ==
  \/ Loads(p) \/ Settles(p) \/ Refused(p) \/ Asks(p) \/ Exhausts(p) \/ Tells(p) \/ TellFails(p)
  \/ \E said \in {"answer", "problem"} : Answers(p, said)
  \/ CostsNothing(p) \/ ChargeLoads(p) \/ ChargeSaves(p)

SweeperStep(s) ==
  \/ Lists(s) \/ Skips(s) \/ SweepHolds(s) \/ Surveys(s) \/ Reclaims(s)
  \/ Exhausts(s) \/ Tells(s) \/ TellFails(s)

Next ==
  \/ \E p \in Askers : Holds(p) \/ AskerStep(p)
  \/ \E s \in Sweepers : SweeperStep(s)
  \/ \E p \in Proc : Dies(p)

Spec == Init /\ [][Next]_vars

\* A live process goes on with what it began, and the answering role's invocation
\* ends.  Passes are taken again and again at times no conversation is in step
\* with: one finds the exchange free, and holds it, unless it is held for good.
Fairness ==
  /\ \A p \in Askers : WF_vars(AskerStep(p))
  /\ \A s \in Sweepers :
       /\ WF_vars(SweeperStep(s))
       /\ SF_vars(Lists(s) /\ lease = Nobody) /\ SF_vars(SweepHolds(s))

FairSpec == Spec /\ Fairness

-----------------------------------------------------------------------------
(* Properties. *)

Rounds == Seq([by : Proc, said : Said])
Record == [rounds : Rounds, outcome : {"open", "resolved", "unresolved"}]

\* Where a process is that no other may be beside.
Holding == {"held", "loaded", "asked", "telling", "sweeping", "reclaiming"}

\* Types; and the lease is with the one process that loads, asks, reclaims or ends,
\* and with nobody when there is none (Hold and its releases).
TypeOK ==
  /\ disk \in Record /\ copy \in [Proc -> Record] /\ thread \in Rounds
  /\ lease \in Proc \cup {Nobody}
  /\ at \in [Proc -> Holding \cup {"idle", "carrying", "charging", "listed"}]
  /\ told \in Nat /\ crashes \in Nat /\ {overwrote, silenced} \subseteq BOOLEAN
  /\ \A p \in Proc : lease = p <=> at[p] \in Holding

\* Until a charge writes over a record it did not read, the record holds every
\* round that was put, in order, with what came of it - through processes killed
\* anywhere, reclaims and rivals for the thread - and the answering role is asked
\* no more often than the cap allows (Put, Reclaim, Hold).
RecordKeepsRounds ==
  ~overwrote => disk.rounds = thread /\ Len(thread) <= MaxRounds

\* Until then an exchange is closed exactly once and stays as it was closed,
\* whoever loaded it before: an asker settling it, an asker or a pass ending it,
\* a pass reclaiming it (settle, exhaust, Reclaim).
ClosedOnce == [][~Open(disk) /\ ~overwrote' => disk' = disk]_vars

\* The store's own promise, of every write: what is closed stays closed.
ClosedStaysClosed == [][~Open(disk) => disk' = disk]_disk

\* Nobody waits for ever: a round whose process is gone is answered for or its
\* thread closed, and a thread whose rounds are spent is settled or closed
\* unresolved, the operator told of it unless the process was killed first or the
\* escalation failed, or else a charge wrote over the thread (Survey, Reclaim,
\* Exhaust, escalate).
InterruptedIsReclaimed ==
  (Open(disk) /\ Interrupted(disk) /\ lease = Nobody) ~> (~Open(disk) \/ ~Interrupted(disk))

SpentIsSettled ==
  (Open(disk) /\ Spent(disk) >= MaxRounds) ~>
    \/ disk.outcome = "resolved"
    \/ disk.outcome = "unresolved" /\ (told > 0 \/ silenced)
    \/ overwrote

ThreadsEnd == InterruptedIsReclaimed /\ SpentIsSettled

=============================================================================
