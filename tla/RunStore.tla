------------------------------ MODULE RunStore ------------------------------
(***************************************************************************)
(* The durable run store (internal/runstate/store.go) as the processes of  *)
(* one machine use it: one state file per run, one advisory reservation    *)
(* lock for the product, and one advisory lease file per run that the      *)
(* operating system drops when its holder dies.                            *)
(*                                                                         *)
(* Three calls enter a run.  Reserve creates a new one under the           *)
(* reservation lock, Adopt takes the run in flight for an item, AdoptRun   *)
(* takes a run by its identifier.  A fourth way makes a run live again     *)
(* without Reserve: the triage actions (a granted repair, a resumed        *)
(* integration, a continued check stage, a queued head brought up to       *)
(* date) take an ended run with AdoptRun, read what is in flight WITHOUT   *)
(* the reservation lock, and save the run as running.                      *)
(*                                                                         *)
(* Reading what is in flight opens the state files one at a time while     *)
(* holders of other leases go on saving theirs, so it is one step per file.*)
(***************************************************************************)
EXTENDS Integers, FiniteSets

CONSTANTS
  Process,        \* processes (or goroutines) using the store
  Run,            \* run identifiers, each used for at most one run
  Item,           \* work items
  ItemOf,         \* the work item each run is made for
  MaxConcurrent,  \* execution.max_concurrent_developers, as each process read it
  Continuable,    \* the ended runs a triage action may make live again
  Nobody,         \* no process, no run, no item
  ForkedChild     \* a just-forked child that still carries a released lease

ASSUME RunStoreAssumption ==
  /\ IsFiniteSet(Run)
  /\ ItemOf \in [Run -> Item]
  /\ MaxConcurrent \in [Process -> Nat \ {0}]
  /\ Continuable \subseteq Run
  /\ Nobody \notin Process \cup Run \cup Item
  /\ ForkedChild \notin Process \cup {Nobody}

VARIABLES
  status,         \* the durable status of each run's state file
  holder,         \* who holds each run's lease
  reservation,    \* who holds the reservation lock
  proc,           \* what each process is doing, its memory: lost in a crash
  reentered       \* history: the runs ever saved back in flight after ending

vars == <<status, holder, reservation, proc, reentered>>

InFlightStatus == {"pending", "running"}
Statuses == InFlightStatus \cup {"absent", "ended"}

Live == {r \in Run : status[r] \in InFlightStatus}
Recorded == {r \in Run : status[r] # "absent"}
Fresh == Live \ reentered

-----------------------------------------------------------------------------
(* A process: the call it is in, the run and item the call is about, the   *)
(* scan of the state files (the ones not read yet and the ones read as in  *)
(* flight), and the status it loaded under the lease.                      *)

Calls == {"none", "reserve", "adopt", "take", "continue", "update", "handoff"}
Steps == {"idle", "queue", "scan", "lease", "create", "load", "own",
          "itemscan", "slotscan", "reenter"}
Holding == {"create", "load", "own", "itemscan", "slotscan", "reenter"}
Critical == {"scan", "lease", "create", "load"}

ProcessState ==
  [at : Steps, call : Calls, run : Run \cup {Nobody}, item : Item \cup {Nobody},
   unread : SUBSET Run, active : SUBSET Run, loaded : Statuses]

Idle == [at |-> "idle", call |-> "none", run |-> Nobody, item |-> Nobody,
         unread |-> {}, active |-> {}, loaded |-> "absent"]

Becomes(p, state) == proc' = [proc EXCEPT ![p] = state]

\* A scan begins by listing the state files that exist.
Scanning(state, step) ==
  [state EXCEPT !.at = step, !.unread = Recorded, !.active = {}]

ActiveForItem(p) == {s \in proc[p].active : ItemOf[s] = proc[p].item}

Init ==
  /\ status = [r \in Run |-> "absent"]
  /\ holder = [r \in Run |-> Nobody]
  /\ reservation = Nobody
  /\ proc = [p \in Process |-> Idle]
  /\ reentered = {}

-----------------------------------------------------------------------------
(* Entering a call. *)

BeginReserve(p) ==
  /\ proc[p].at = "idle"
  /\ \E r \in Run \ Recorded :
       /\ \A q \in Process : proc[q].run # r
       /\ Becomes(p, [Idle EXCEPT !.at = "queue", !.call = "reserve",
                                  !.run = r, !.item = ItemOf[r]])
  /\ UNCHANGED <<status, holder, reservation, reentered>>

BeginAdopt(p) ==
  /\ proc[p].at = "idle"
  /\ \E i \in Item :
       Becomes(p, [Idle EXCEPT !.at = "queue", !.call = "adopt", !.item = i])
  /\ UNCHANGED <<status, holder, reservation, reentered>>

\* AdoptRun, for reconciliation ("take") or for a triage action that would
\* make the run live again ("continue", and "update" for a queued head).
BeginAdoptRun(p) ==
  /\ proc[p].at = "idle"
  /\ \E r \in Recorded, c \in {"take", "continue", "update"} :
       /\ c # "take" => r \in Continuable
       /\ Becomes(p, [Idle EXCEPT !.at = "queue", !.call = c,
                                  !.run = r, !.item = ItemOf[r]])
  /\ UNCHANGED <<status, holder, reservation, reentered>>

LockReservations(p) ==
  /\ proc[p].at = "queue"
  /\ reservation = Nobody
  /\ reservation' = p
  /\ Becomes(p, IF proc[p].call \in {"reserve", "adopt"}
                  THEN Scanning(proc[p], "scan")
                  ELSE [proc[p] EXCEPT !.at = "lease"])
  /\ UNCHANGED <<status, holder, reentered>>

\* One state file is read, as it is at that moment.
ReadRecord_RunningOnly(p) ==     \* mutant: a pending run is not counted
  /\ proc[p].at \in {"scan", "itemscan", "slotscan"}
  /\ \E r \in proc[p].unread :
       Becomes(p, [proc[p] EXCEPT
                     !.unread = @ \ {r},
                     !.active = IF status[r] = "running" THEN @ \cup {r} ELSE @])
  /\ UNCHANGED <<status, holder, reservation, reentered>>

ReadRecord(p) ==
  /\ proc[p].at \in {"scan", "itemscan", "slotscan"}
  /\ \E r \in proc[p].unread :
       Becomes(p, [proc[p] EXCEPT
                     !.unread = @ \ {r},
                     !.active = IF r \in Live THEN @ \cup {r} ELSE @])
  /\ UNCHANGED <<status, holder, reservation, reentered>>

-----------------------------------------------------------------------------
(* Leaving a call: the lease is let go, and for a moment a child forked    *)
(* meanwhile may still carry it, until that child execs.                   *)

Unheld(p, left) ==
  holder' = [r \in Run |-> IF holder[r] = p THEN left ELSE holder[r]]

Unlocked(p) ==
  reservation' = IF reservation = p THEN Nobody ELSE reservation

\* A refusal or an error: the lease, if taken, and the lock are released.
Leave(p) ==
  /\ \E left \in {Nobody, ForkedChild} : Unheld(p, left)
  /\ Unlocked(p)
  /\ Becomes(p, Idle)
  /\ UNCHANGED <<status, reentered>>

-----------------------------------------------------------------------------
(* Reserve. *)

AdmitsRun_OfItem(p) ==           \* mutant: the slots are not counted
  ActiveForItem(p) = {}

\* The limit is the caller's own: two processes may have read different ones.
AdmitsRun(p) ==
  /\ ActiveForItem(p) = {}
  /\ Cardinality(proc[p].active) < MaxConcurrent[p]

ReserveRefused(p) ==
  /\ proc[p].at = "scan" /\ proc[p].call = "reserve" /\ proc[p].unread = {}
  /\ ~AdmitsRun(p)
  /\ Leave(p)

ReserveAdmitted_Creates(p) ==    \* mutant: the record is created before the lease
  /\ proc[p].at = "scan" /\ proc[p].call = "reserve" /\ proc[p].unread = {}
  /\ AdmitsRun(p)
  /\ status' = [status EXCEPT ![proc[p].run] = "pending"]
  /\ Becomes(p, [proc[p] EXCEPT !.at = "lease"])
  /\ UNCHANGED <<holder, reservation, reentered>>

ReserveAdmitted(p) ==
  /\ proc[p].at = "scan" /\ proc[p].call = "reserve" /\ proc[p].unread = {}
  /\ AdmitsRun(p)
  /\ Becomes(p, [proc[p] EXCEPT !.at = "lease"])
  /\ UNCHANGED <<status, holder, reservation, reentered>>

TakeLease_Unchecked(p) ==        \* mutant: the lease is not exclusive
  /\ proc[p].at = "lease"
  /\ holder' = [holder EXCEPT ![proc[p].run] = p]
  /\ Becomes(p, [proc[p] EXCEPT
                   !.at = IF proc[p].call = "reserve" THEN "create" ELSE "load"])
  /\ UNCHANGED <<status, reservation, reentered>>

\* The lease is taken before the state file exists.
TakeLease(p) ==
  /\ proc[p].at = "lease"
  /\ holder[proc[p].run] = Nobody
  /\ holder' = [holder EXCEPT ![proc[p].run] = p]
  /\ Becomes(p, [proc[p] EXCEPT
                   !.at = IF proc[p].call = "reserve" THEN "create" ELSE "load"])
  /\ UNCHANGED <<status, reservation, reentered>>

LeaseRefused(p) ==
  /\ proc[p].at = "lease"
  /\ holder[proc[p].run] # Nobody
  /\ Leave(p)

CreateRecord(p) ==
  /\ proc[p].at = "create"
  /\ status[proc[p].run] = "absent"
  /\ status' = [status EXCEPT ![proc[p].run] = "pending"]
  /\ Unlocked(p)
  /\ Becomes(p, [proc[p] EXCEPT !.at = "own", !.loaded = "pending",
                                !.active = {}])
  /\ UNCHANGED <<holder, reentered>>

CreateFails(p) ==
  /\ proc[p].at = "create"
  /\ Leave(p)

-----------------------------------------------------------------------------
(* Adopt and AdoptRun. *)

AdoptNothing(p) ==
  /\ proc[p].at = "scan" /\ proc[p].call = "adopt" /\ proc[p].unread = {}
  /\ ActiveForItem(p) = {}
  /\ Leave(p)

AdoptChooses(p) ==
  /\ proc[p].at = "scan" /\ proc[p].call = "adopt" /\ proc[p].unread = {}
  /\ \E r \in ActiveForItem(p) :
       Becomes(p, [proc[p] EXCEPT !.at = "lease", !.run = r])
  /\ UNCHANGED <<status, holder, reservation, reentered>>

LoadRecord_KeepsScan(p) ==       \* mutant: what the scan read is trusted
  /\ proc[p].at = "load"
  /\ Becomes(p, [proc[p] EXCEPT
                   !.at = "own", !.active = {},
                   !.loaded = IF proc[p].call = "adopt" THEN "running"
                                ELSE status[proc[p].run]])
  /\ Unlocked(p)
  /\ UNCHANGED <<status, holder, reentered>>

LoadRecord_KeepsLock(p) ==       \* mutant: the lock outlives the call
  /\ proc[p].at = "load"
  /\ Becomes(p, [proc[p] EXCEPT !.at = "own", !.active = {},
                                !.loaded = status[proc[p].run]])
  /\ UNCHANGED <<status, holder, reservation, reentered>>

\* The record is read again under the lease: between the scan and the lease
\* the process that held it may have ended the run.
LoadRecord(p) ==
  /\ proc[p].at = "load"
  /\ Becomes(p, [proc[p] EXCEPT !.at = "own", !.active = {},
                                !.loaded = status[proc[p].run]])
  /\ Unlocked(p)
  /\ UNCHANGED <<status, holder, reentered>>

-----------------------------------------------------------------------------
(* What the holder of a lease does with the run it loaded. *)

Working(p) == proc[p].at = "own" /\ proc[p].call \in {"reserve", "adopt", "take"}

Save(p, new) ==
  /\ status' = [status EXCEPT ![proc[p].run] = new]
  /\ Becomes(p, [proc[p] EXCEPT !.loaded = new])
  /\ UNCHANGED <<holder, reservation, reentered>>

SaveRunning_OfAny(p) ==          \* mutant: a run that ended is worked on
  /\ Working(p)
  /\ Save(p, "running")

SaveRunning(p) ==
  /\ Working(p)
  /\ proc[p].loaded \in InFlightStatus
  /\ Save(p, "running")

SaveEnded(p) ==
  /\ Working(p)
  /\ proc[p].loaded \in InFlightStatus
  /\ Save(p, "ended")

\* The run ended, paused, or was not one this caller may act on.
ReleaseRun(p) ==
  /\ proc[p].at = "own"
  /\ Leave(p)

-----------------------------------------------------------------------------
(* A triage action makes an ended run live again.  Nothing here takes the  *)
(* reservation lock.                                                       *)

NoRunInFlight(p) ==
  /\ proc[p].at = "itemscan" /\ proc[p].unread = {}
  /\ ActiveForItem(p) = {}
  /\ Becomes(p, Scanning(proc[p], "slotscan"))
  /\ UNCHANGED <<status, holder, reservation, reentered>>

SlotIsFree(p) ==
  /\ proc[p].at = "slotscan" /\ proc[p].unread = {}
  /\ Cardinality(proc[p].active) < MaxConcurrent[p]
  /\ Becomes(p, [proc[p] EXCEPT !.at = "reenter"])
  /\ UNCHANGED <<status, holder, reservation, reentered>>

\* A granted repair, a resumed integration and a continued check stage ask
\* for the item first; the update of a queued head asks for a slot only.
BeginContinuation(p) ==
  /\ proc[p].at = "own" /\ proc[p].call \in {"continue", "update"}
  /\ proc[p].loaded = "ended"
  /\ Becomes(p, Scanning(proc[p], IF proc[p].call = "continue"
                                    THEN "itemscan" ELSE "slotscan"))
  /\ UNCHANGED <<status, holder, reservation, reentered>>

ContinuationRefused(p) ==
  /\ proc[p].unread = {}
  /\ \/ proc[p].at = "itemscan" /\ ActiveForItem(p) # {}
     \/ proc[p].at = "slotscan" /\ Cardinality(proc[p].active) >= MaxConcurrent[p]
     \/ proc[p].at = "reenter"      \* the tracker refused the claim
  /\ Leave(p)

ReenterRun(p) ==
  /\ proc[p].at = "reenter"
  /\ status' = [status EXCEPT ![proc[p].run] = "running"]
  /\ reentered' = reentered \cup {proc[p].run}
  /\ Becomes(p, [proc[p] EXCEPT !.at = "own", !.call = "handoff", !.active = {},
                                !.loaded = "running"])
  /\ UNCHANGED <<holder, reservation>>

-----------------------------------------------------------------------------
(* The operating system. *)

Crash(p) ==
  /\ proc[p].at # "idle"
  /\ Leave(p)

ChildExecs(r) ==
  /\ holder[r] = ForkedChild
  /\ holder' = [holder EXCEPT ![r] = Nobody]
  /\ UNCHANGED <<status, reservation, proc, reentered>>

-----------------------------------------------------------------------------
Begin(p) == BeginReserve(p) \/ BeginAdopt(p) \/ BeginAdoptRun(p)

InsideCall(p) ==
  \/ LockReservations(p) \/ ReadRecord(p)
  \/ ReserveRefused(p) \/ ReserveAdmitted(p)
  \/ TakeLease(p) \/ LeaseRefused(p)
  \/ CreateRecord(p) \/ CreateFails(p)
  \/ AdoptNothing(p) \/ AdoptChooses(p) \/ LoadRecord(p)

Afterwards(p) ==
  \/ SaveRunning(p) \/ SaveEnded(p) \/ ReleaseRun(p)
  \/ BeginContinuation(p) \/ NoRunInFlight(p) \/ SlotIsFree(p)
  \/ ContinuationRefused(p) \/ ReenterRun(p)

Next ==
  \/ \E p \in Process : Begin(p) \/ InsideCall(p) \/ Afterwards(p) \/ Crash(p)
  \/ \E r \in Run : ChildExecs(r)

\* A call that entered the store goes on to return: it waits for nothing but
\* the reservation lock, and the lease it tries is tried for a bounded time.
Fairness == \A p \in Process : WF_vars(InsideCall(p))

Spec == Init /\ [][Next]_vars
FairSpec == Spec /\ Fairness

-----------------------------------------------------------------------------
(* Properties. *)

\* Every variable has its type, and a call past the reservation names its run.
TypeOK ==
  /\ status \in [Run -> Statuses]
  /\ holder \in [Run -> Process \cup {Nobody, ForkedChild}]
  /\ reservation \in Process \cup {Nobody}
  /\ proc \in [Process -> ProcessState]
  /\ reentered \subseteq Run
  /\ \A p \in Process : proc[p].at \in Holding \cup {"lease"} => proc[p].run \in Run

\* A process acts on a run only while the operating system holds the run's
\* lease for it (Store.Reserve, Adopt, AdoptRun, Lease.Release), so no two
\* processes ever act on one run.
OneWriterPerRun ==
  \A p \in Process : proc[p].at \in Holding => holder[proc[p].run] = p

\* What a process that owns a run believes of it is what its state file says:
\* nobody else saves it, and the record is loaded under the lease rather than
\* taken from the scan that found it (Store.Adopt).
LoadedIsDurable ==
  \A p \in Process :
    proc[p].at \in {"own", "itemscan", "slotscan", "reenter"} =>
      proc[p].loaded = status[proc[p].run]

\* Reserve never takes the runs it admitted beyond the limit it was called with,
\* whoever reserves at the same time and under whatever limit of their own
\* (Store.Reserve's count and create under one lock).
FreshRunsWithinCapacity ==
  [][\A p \in Process :
       proc[p].at = "create" /\ proc[p].run \in Recorded' \ Recorded
         => Cardinality(Fresh') <= MaxConcurrent[p]]_vars

\* Two runs of one item are in flight together only if a triage action put one
\* of them back: Reserve alone never admits the second.
SecondRunWasContinued ==
  \A r, s \in Live : r # s /\ ItemOf[r] = ItemOf[s] => {r, s} \cap reentered # {}

\* A state file appears only under its creator's lease, so no other process
\* can adopt a run between its creation and its creator's ownership of it.
BornOwned ==
  [][\A r \in Run : status[r] = "absent" /\ status'[r] # "absent"
        => holder[r] \in Process]_vars

\* The reservation lock always comes back: no path of a call keeps it.
LockIsReturned ==
  \A p \in Process : reservation = p ~> reservation # p

\* The store with its locks, leases and file-by-file scans implements the
\* registry: a run starts only when its item and a slot are free.
Registry ==
  INSTANCE RunRegistry WITH
    live <- Live,
    ended <- {r \in Run : status[r] = "ended"},
    Limits <- {MaxConcurrent[p] : p \in Process}

ImplementsRegistry == Registry!Spec

=============================================================================
