--------------------------- MODULE RunStoreProofs ---------------------------
(***************************************************************************)
(* Theorems about the run store, for every set of processes, runs and      *)
(* items and every limit.                                                  *)
(*                                                                         *)
(* The limit on fresh runs is not inductive.  What makes it so is that a   *)
(* reservation's scan never misses a fresh run: while a process holds the  *)
(* reservation lock nobody else can create a run, and a run that a triage  *)
(* action puts back in flight is not fresh, so every fresh run is either   *)
(* still unread or counted; hence what admitted the run still holds when   *)
(* its record is created, two steps later.                                 *)
(***************************************************************************)
EXTENDS RunStore, FiniteSetTheorems, TLAPS

-----------------------------------------------------------------------------
(* The inductive invariant. *)

\* The processes inside the locked part of a call are those that hold the lock.
LockInv ==
  \A p \in Process : proc[p].at \in Critical <=> reservation = p

\* A lease is held exactly by the process that acts on the run.
LeaseInv ==
  /\ OneWriterPerRun
  /\ \A p \in Process, r \in Run :
       holder[r] = p => proc[p].at \in Holding /\ proc[p].run = r

\* Which call a process can be in at each step, and what it knows there.
CallInv ==
  \A p \in Process :
    /\ proc[p].at \in {"scan", "create"} => proc[p].call \in {"reserve", "adopt"}
    /\ proc[p].at = "create" => proc[p].call = "reserve"
    /\ proc[p].at \in {"load", "itemscan", "slotscan", "reenter"}
         => proc[p].call # "reserve"
    /\ proc[p].at \in {"load", "own", "itemscan", "slotscan", "reenter"}
         => status[proc[p].run] # "absent"
    /\ proc[p].at = "lease" /\ proc[p].call # "reserve"
         => status[proc[p].run] # "absent"
    /\ proc[p].at = "queue" /\ proc[p].call \notin {"reserve", "adopt"}
         => proc[p].run \in Recorded
    /\ proc[p].call \in {"continue", "update"} => proc[p].run \in Continuable
    /\ proc[p].at \in {"itemscan", "slotscan", "reenter"}
         => proc[p].loaded = "ended" /\ proc[p].call \in {"continue", "update"}
    /\ proc[p].active \subseteq Recorded

Reserving(p) ==
  proc[p].call = "reserve" /\ proc[p].at \in {"queue", "scan", "lease", "create"}

\* A run being reserved has no record yet, and no other process names it.
ReservingInv ==
  \A p \in Process : Reserving(p) =>
    /\ proc[p].run \in Run
    /\ proc[p].item = ItemOf[proc[p].run]
    /\ status[proc[p].run] = "absent"
    /\ \A q \in Process \ {p} : proc[q].run # proc[p].run

\* A reservation's scan misses no fresh run.
ScanInv ==
  \A p \in Process :
    proc[p].at = "scan" => Fresh \subseteq proc[p].unread \cup proc[p].active

\* What admitted a run still holds while its record is created.
RoomFor(p, r) ==
  /\ Cardinality(Fresh) < MaxConcurrent[p]
  /\ \A s \in Fresh : ItemOf[s] # ItemOf[r]

AdmittedInv ==
  \A p \in Process :
    proc[p].at \in {"lease", "create"} /\ proc[p].call = "reserve"
      => RoomFor(p, proc[p].run)

StepInv ==
  /\ TypeOK /\ LockInv /\ LeaseInv /\ CallInv /\ LoadedIsDurable /\ ReservingInv

IInv ==
  /\ StepInv
  /\ ScanInv /\ AdmittedInv
  /\ SecondRunWasContinued

-----------------------------------------------------------------------------
\* Initially no process is in a call and no run is recorded.
LEMMA InitIInv == Init => IInv
PROOF
<1> SUFFICES ASSUME Init PROVE IInv
  OBVIOUS
<1> USE RunStoreAssumption
<1>1. StepInv
  BY DEF Init, StepInv, TypeOK, LockInv, LeaseInv, CallInv, LoadedIsDurable,
     ReservingInv, Reserving, OneWriterPerRun, Statuses, InFlightStatus, Idle,
     ProcessState, Steps, Calls, Critical, Holding, Recorded
<1>2. Live = {} /\ Fresh = {}
  BY DEF Init, Live, Fresh, InFlightStatus
<1>3. ScanInv /\ AdmittedInv
  BY <1>2 DEF Init, ScanInv, AdmittedInv, Idle
<1>4. SecondRunWasContinued
  BY <1>2 DEF SecondRunWasContinued
<1> QED
  BY <1>1, <1>3, <1>4 DEF IInv

-----------------------------------------------------------------------------
(* The states a process moves to are well-typed. *)

\* The state of a process in no call.
LEMMA IdleState == Idle \in ProcessState
PROOF
  BY DEF ProcessState, Idle, Steps, Calls, Statuses

\* The start of a scan.
LEMMA ScanningState ==
  ASSUME NEW s \in ProcessState, NEW step \in Steps
  PROVE  Scanning(s, step) \in ProcessState
PROOF
<1>1. Recorded \in SUBSET Run
  BY DEF Recorded
<1> QED
  BY <1>1 DEF Scanning, ProcessState

\* One more state file read.
LEMMA ReadState ==
  ASSUME NEW s \in ProcessState, NEW r \in s.unread
  PROVE  [s EXCEPT !.unread = @ \ {r},
                   !.active = IF r \in Live THEN @ \cup {r} ELSE @] \in ProcessState
PROOF
<1>1. /\ r \in Run
      /\ s.unread \ {r} \in SUBSET Run
      /\ s.active \in SUBSET Run
      /\ s.active \cup {r} \in SUBSET Run
  BY DEF ProcessState
<1> QED
  BY <1>1 DEF ProcessState

\* A record loaded or saved.
LEMMA LoadedState ==
  ASSUME NEW s \in ProcessState, NEW a \in Steps, NEW c \in Calls, NEW l \in Statuses
  PROVE  [s EXCEPT !.at = a, !.call = c, !.active = {}, !.loaded = l] \in ProcessState
PROOF
  BY DEF ProcessState

-----------------------------------------------------------------------------
\* Leaving a call by any path keeps the locks and leases in order.
LEMMA LeaveStepInv ==
  ASSUME StepInv, NEW p \in Process, Leave(p)
  PROVE  StepInv'
PROOF
<1> USE RunStoreAssumption DEF StepInv
<1>1. TypeOK'
  BY DEF TypeOK, Leave, Unheld, Unlocked, Becomes, Idle, ProcessState, Steps,
     Calls, Statuses, Holding
<1>2. LockInv'
  BY DEF TypeOK, Leave, Unlocked, Becomes, Idle, LockInv, Critical
<1>3. LeaseInv'
  BY DEF TypeOK, Leave, Unheld, Becomes, Idle, LeaseInv, OneWriterPerRun,
     Holding
<1>4. CallInv'
  BY DEF TypeOK, Leave, Becomes, Idle, CallInv, Recorded
<1>5. LoadedIsDurable'
  BY DEF TypeOK, Leave, Becomes, Idle, LoadedIsDurable
<1>6. ReservingInv'
  BY DEF TypeOK, Leave, Becomes, Idle, ReservingInv, Reserving
<1> QED
  BY <1>1, <1>2, <1>3, <1>4, <1>5, <1>6

\* Every step keeps the locks, the leases and what each process knows in order.
LEMMA NextStepInv == StepInv /\ [Next]_vars => StepInv'
PROOF
<1> SUFFICES ASSUME StepInv, [Next]_vars PROVE StepInv'
  OBVIOUS
<1> USE RunStoreAssumption
<1>1. ASSUME NEW p \in Process, BeginReserve(p) PROVE StepInv'
  <2> USE <1>1 DEF StepInv, BeginReserve, Becomes
  <2>1. TypeOK'
    <3>1. PICK r \in Run : proc' = [proc EXCEPT ![p] =
             [Idle EXCEPT !.at = "queue", !.call = "reserve",
                          !.run = r, !.item = ItemOf[r]]]
      OBVIOUS
    <3>2. [Idle EXCEPT !.at = "queue", !.call = "reserve",
                       !.run = r, !.item = ItemOf[r]] \in ProcessState
      BY IdleState DEF ProcessState, Steps, Calls
    <3> QED
      BY <3>1, <3>2, IdleState DEF TypeOK, Holding, ProcessState
  <2>2. LockInv'
    BY DEF TypeOK, LockInv, Critical, Recorded, Idle
  <2>3. LeaseInv'
    BY DEF TypeOK, LeaseInv, OneWriterPerRun, Holding, Recorded, Idle
  <2>4. CallInv'
    BY DEF TypeOK, CallInv, Holding, ProcessState, Recorded, Idle
  <2>5. LoadedIsDurable'
    BY DEF TypeOK, LoadedIsDurable, Holding, ProcessState, InFlightStatus,
       Recorded, Idle
  <2>6. ReservingInv'
    BY DEF TypeOK, ReservingInv, Reserving, ProcessState, Recorded, Idle
  <2> QED
    BY <2>1, <2>2, <2>3, <2>4, <2>5, <2>6
<1>2. ASSUME NEW p \in Process, BeginAdopt(p) PROVE StepInv'
  <2> USE <1>2 DEF StepInv, BeginAdopt, Becomes
  <2>1. TypeOK'
    <3>1. PICK i \in Item : proc' = [proc EXCEPT ![p] =
             [Idle EXCEPT !.at = "queue", !.call = "adopt", !.item = i]]
      OBVIOUS
    <3>2. [Idle EXCEPT !.at = "queue", !.call = "adopt", !.item = i] \in ProcessState
      BY IdleState DEF ProcessState, Steps, Calls
    <3> QED
      BY <3>1, <3>2, IdleState DEF TypeOK, Holding, ProcessState
  <2>2. LockInv'
    BY DEF TypeOK, LockInv, Critical, Idle
  <2>3. LeaseInv'
    BY DEF TypeOK, LeaseInv, OneWriterPerRun, Holding, Idle
  <2>4. CallInv'
    BY DEF TypeOK, CallInv, Holding, ProcessState, Recorded, Idle
  <2>5. LoadedIsDurable'
    BY DEF TypeOK, LoadedIsDurable, Holding, ProcessState, InFlightStatus,
       Idle
  <2>6. ReservingInv'
    BY DEF TypeOK, ReservingInv, Reserving, ProcessState, Idle
  <2> QED
    BY <2>1, <2>2, <2>3, <2>4, <2>5, <2>6
<1>3. ASSUME NEW p \in Process, BeginAdoptRun(p) PROVE StepInv'
  <2> USE <1>3 DEF StepInv, BeginAdoptRun, Becomes
  <2>1. TypeOK'
    <3>1. PICK r \in Run, c \in {"take", "continue", "update"} :
             proc' = [proc EXCEPT ![p] = [Idle EXCEPT !.at = "queue", !.call = c,
                                                      !.run = r, !.item = ItemOf[r]]]
      BY DEF Recorded
    <3>2. [Idle EXCEPT !.at = "queue", !.call = c,
                       !.run = r, !.item = ItemOf[r]] \in ProcessState
      BY IdleState DEF ProcessState, Steps, Calls
    <3> QED
      BY <3>1, <3>2, IdleState DEF TypeOK, Holding, ProcessState
  <2>2. LockInv'
    BY DEF TypeOK, LockInv, Critical, Recorded, Idle
  <2>3. LeaseInv'
    BY DEF TypeOK, LeaseInv, OneWriterPerRun, Holding, Recorded, Idle
  <2>4. CallInv'
    BY DEF TypeOK, CallInv, Holding, ProcessState, Recorded, Idle
  <2>5. LoadedIsDurable'
    BY DEF TypeOK, LoadedIsDurable, Holding, ProcessState, InFlightStatus,
       Recorded, Idle
  <2>6. ReservingInv'
    BY DEF TypeOK, ReservingInv, Reserving, ProcessState, Recorded, Idle
  <2> QED
    BY <2>1, <2>2, <2>3, <2>4, <2>5, <2>6
<1>4. ASSUME NEW p \in Process, LockReservations(p) PROVE StepInv'
  <2> USE <1>4 DEF StepInv, LockReservations, Becomes
  <2>1. TypeOK'
    <3>1. proc[p] \in ProcessState
      BY DEF TypeOK
    <3>2. Scanning(proc[p], "scan") \in ProcessState
      BY <3>1, ScanningState DEF Steps
    <3>3. [proc[p] EXCEPT !.at = "lease"] \in ProcessState
      BY <3>1 DEF ProcessState, Steps
    <3>4. proc' \in [Process -> ProcessState]
      BY <3>2, <3>3 DEF TypeOK
    <3> QED
      BY <3>1, <3>4 DEF TypeOK, Scanning, Holding, CallInv, Recorded,
         ProcessState
  <2>2. LockInv'
    BY DEF TypeOK, LockInv, Critical, Recorded, Scanning
  <2>3. LeaseInv'
    BY DEF TypeOK, LeaseInv, OneWriterPerRun, Holding, Recorded, Scanning
  <2>4. CallInv'
    BY DEF TypeOK, CallInv, Holding, ProcessState, Recorded, Scanning
  <2>5. LoadedIsDurable'
    BY DEF TypeOK, LoadedIsDurable, Holding, ProcessState, InFlightStatus,
       Recorded, Scanning
  <2>6. ReservingInv'
    BY DEF TypeOK, ReservingInv, Reserving, ProcessState, Recorded, Scanning
  <2> QED
    BY <2>1, <2>2, <2>3, <2>4, <2>5, <2>6
<1>5. ASSUME NEW p \in Process, ReadRecord(p) PROVE StepInv'
  <2> USE <1>5 DEF StepInv, ReadRecord, Becomes
  <2>1. TypeOK'
    <3>1. proc[p] \in ProcessState
      BY DEF TypeOK
    <3>2. PICK r \in proc[p].unread : proc' = [proc EXCEPT ![p] =
             [proc[p] EXCEPT !.unread = @ \ {r},
                             !.active = IF r \in Live THEN @ \cup {r} ELSE @]]
      OBVIOUS
    <3>3. proc' \in [Process -> ProcessState]
      BY <3>1, <3>2, ReadState DEF TypeOK
    <3>4. \A q \in Process : proc'[q].at = proc[q].at /\ proc'[q].run = proc[q].run
      BY <3>1, <3>2 DEF TypeOK, ProcessState
    <3> QED
      BY <3>3, <3>4 DEF TypeOK
  <2>2. LockInv'
    BY DEF TypeOK, LockInv, Critical, Live
  <2>3. LeaseInv'
    BY DEF TypeOK, LeaseInv, OneWriterPerRun, Holding, Live
  <2>4. CallInv'
    BY DEF TypeOK, CallInv, Holding, ProcessState, Recorded, Live, Live,
       InFlightStatus
  <2>5. LoadedIsDurable'
    BY DEF TypeOK, LoadedIsDurable, Holding, ProcessState, InFlightStatus,
       Live
  <2>6. ReservingInv'
    BY DEF TypeOK, ReservingInv, Reserving, ProcessState, Live
  <2> QED
    BY <2>1, <2>2, <2>3, <2>4, <2>5, <2>6
<1>6. ASSUME NEW p \in Process, ReserveRefused(p) PROVE StepInv'
  BY <1>6, LeaveStepInv DEF ReserveRefused
<1>7. ASSUME NEW p \in Process, ReserveAdmitted(p) PROVE StepInv'
  <2> USE <1>7 DEF StepInv, ReserveAdmitted, Becomes
  <2>1. TypeOK'
    <3>1. proc[p] \in ProcessState
      BY DEF TypeOK
    <3>2. proc' \in [Process -> ProcessState]
      BY <3>1 DEF TypeOK, ProcessState, Steps
    <3> QED
      BY <3>1, <3>2 DEF TypeOK, Holding, ProcessState, ReservingInv, Reserving
  <2>2. LockInv'
    BY DEF TypeOK, LockInv, Critical
  <2>3. LeaseInv'
    BY DEF TypeOK, LeaseInv, OneWriterPerRun, Holding
  <2>4. CallInv'
    BY DEF TypeOK, CallInv, Holding, ProcessState, Recorded
  <2>5. LoadedIsDurable'
    BY DEF TypeOK, LoadedIsDurable, Holding, ProcessState, InFlightStatus
  <2>6. ReservingInv'
    BY DEF TypeOK, ReservingInv, Reserving, ProcessState
  <2> QED
    BY <2>1, <2>2, <2>3, <2>4, <2>5, <2>6
<1>8. ASSUME NEW p \in Process, TakeLease(p) PROVE StepInv'
  <2> USE <1>8 DEF StepInv, TakeLease, Becomes
  <2>1. TypeOK'
    BY DEF TypeOK, ProcessState, Holding, Statuses, InFlightStatus, Steps,
       Calls
  <2>2. LockInv'
    BY DEF TypeOK, LockInv, Critical
  <2>3. LeaseInv'
    BY DEF TypeOK, LeaseInv, OneWriterPerRun, Holding
  <2>4. CallInv'
    BY DEF TypeOK, CallInv, Holding, ProcessState, Recorded
  <2>5. LoadedIsDurable'
    BY DEF TypeOK, LoadedIsDurable, Holding, ProcessState, InFlightStatus
  <2>6. ReservingInv'
    BY DEF TypeOK, ReservingInv, Reserving, ProcessState
  <2> QED
    BY <2>1, <2>2, <2>3, <2>4, <2>5, <2>6
<1>9. ASSUME NEW p \in Process, LeaseRefused(p) PROVE StepInv'
  BY <1>9, LeaveStepInv DEF LeaseRefused
<1>10. ASSUME NEW p \in Process, CreateRecord(p) PROVE StepInv'
  <2> USE <1>10 DEF StepInv, CreateRecord, Becomes
  <2>1. TypeOK'
    <3>1. proc[p] \in ProcessState
      BY DEF TypeOK
    <3>2. proc' = [proc EXCEPT ![p] =
             [proc[p] EXCEPT !.at = "own", !.call = proc[p].call, !.active = {},
                             !.loaded = status'[proc[p].run]]]
      BY <3>1 DEF TypeOK, Holding, ProcessState
    <3>3. status'[proc[p].run] \in Statuses /\ "own" \in Steps /\ proc[p].call \in Calls
      BY <3>1 DEF TypeOK, Holding, Statuses, InFlightStatus, Steps, ProcessState
    <3>4. [proc[p] EXCEPT !.at = "own", !.call = proc[p].call, !.active = {},
                          !.loaded = status'[proc[p].run]] \in ProcessState
      BY <3>1, <3>3, LoadedState
    <3>5. proc' \in [Process -> ProcessState]
      BY <3>2, <3>4 DEF TypeOK
    <3> QED
      BY <3>1, <3>5 DEF TypeOK, Holding, Unlocked, Statuses, InFlightStatus,
         ProcessState
  <2>2. LockInv'
    BY DEF TypeOK, LockInv, Critical, Unlocked
  <2>3. LeaseInv'
    BY DEF TypeOK, LeaseInv, OneWriterPerRun, Holding
  <2>4. CallInv'
    BY DEF TypeOK, CallInv, Holding, ProcessState, Recorded, Unlocked
  <2>5. LoadedIsDurable'
    BY DEF TypeOK, LoadedIsDurable, Holding, ProcessState, InFlightStatus,
       LeaseInv, OneWriterPerRun
  <2>6. ReservingInv'
    BY DEF TypeOK, ReservingInv, Reserving, ProcessState
  <2> QED
    BY <2>1, <2>2, <2>3, <2>4, <2>5, <2>6
<1>11. ASSUME NEW p \in Process, CreateFails(p) PROVE StepInv'
  BY <1>11, LeaveStepInv DEF CreateFails
<1>12. ASSUME NEW p \in Process, AdoptNothing(p) PROVE StepInv'
  BY <1>12, LeaveStepInv DEF AdoptNothing
<1>13. ASSUME NEW p \in Process, AdoptChooses(p) PROVE StepInv'
  <2> USE <1>13 DEF StepInv, AdoptChooses, Becomes
  <2>1. TypeOK'
    <3>1. proc[p] \in ProcessState
      BY DEF TypeOK
    <3>2. PICK r \in Run :
             proc' = [proc EXCEPT ![p] = [proc[p] EXCEPT !.at = "lease", !.run = r]]
      BY <3>1 DEF ProcessState, ActiveForItem
    <3>3. proc' \in [Process -> ProcessState]
      BY <3>1, <3>2 DEF TypeOK, ProcessState, Steps
    <3> QED
      BY <3>1, <3>2, <3>3 DEF TypeOK, ProcessState
  <2>2. LockInv'
    BY DEF TypeOK, LockInv, Critical
  <2>3. LeaseInv'
    BY DEF TypeOK, LeaseInv, OneWriterPerRun, Holding
  <2>4. CallInv'
    BY DEF TypeOK, CallInv, Holding, ProcessState, Recorded, ActiveForItem
  <2>5. LoadedIsDurable'
    BY DEF TypeOK, LoadedIsDurable, Holding, ProcessState, InFlightStatus
  <2>6. ReservingInv'
    BY DEF TypeOK, ReservingInv, Reserving, ProcessState, ActiveForItem,
       CallInv, Recorded, Live, InFlightStatus
  <2> QED
    BY <2>1, <2>2, <2>3, <2>4, <2>5, <2>6
<1>14. ASSUME NEW p \in Process, LoadRecord(p) PROVE StepInv'
  <2> USE <1>14 DEF StepInv, LoadRecord, Becomes
  <2>1. TypeOK'
    <3>1. proc[p] \in ProcessState
      BY DEF TypeOK
    <3>2. proc' = [proc EXCEPT ![p] =
             [proc[p] EXCEPT !.at = "own", !.call = proc[p].call, !.active = {},
                             !.loaded = status'[proc[p].run]]]
      BY <3>1 DEF TypeOK, Holding, ProcessState
    <3>3. status'[proc[p].run] \in Statuses /\ "own" \in Steps /\ proc[p].call \in Calls
      BY <3>1 DEF TypeOK, Holding, Statuses, InFlightStatus, Steps, ProcessState
    <3>4. [proc[p] EXCEPT !.at = "own", !.call = proc[p].call, !.active = {},
                          !.loaded = status'[proc[p].run]] \in ProcessState
      BY <3>1, <3>3, LoadedState
    <3>5. proc' \in [Process -> ProcessState]
      BY <3>2, <3>4 DEF TypeOK
    <3> QED
      BY <3>1, <3>5 DEF TypeOK, Holding, Unlocked, Statuses, InFlightStatus,
         ProcessState
  <2>2. LockInv'
    BY DEF TypeOK, LockInv, Critical, Unlocked
  <2>3. LeaseInv'
    BY DEF TypeOK, LeaseInv, OneWriterPerRun, Holding
  <2>4. CallInv'
    BY DEF TypeOK, CallInv, Holding, ProcessState, Recorded, Unlocked
  <2>5. LoadedIsDurable'
    BY DEF TypeOK, LoadedIsDurable, Holding, ProcessState, InFlightStatus
  <2>6. ReservingInv'
    BY DEF TypeOK, ReservingInv, Reserving, ProcessState
  <2> QED
    BY <2>1, <2>2, <2>3, <2>4, <2>5, <2>6
<1>15. ASSUME NEW p \in Process, SaveRunning(p) PROVE StepInv'
  <2> USE <1>15 DEF StepInv, SaveRunning, Becomes
  <2>1. TypeOK'
    BY DEF TypeOK, ProcessState, Holding, Statuses, InFlightStatus, Steps,
       Calls, Save, Working
  <2>2. LockInv'
    BY DEF TypeOK, LockInv, Critical, Save, Working
  <2>3. LeaseInv'
    BY DEF TypeOK, LeaseInv, OneWriterPerRun, Holding, Save, Working
  <2>4. CallInv'
    BY DEF TypeOK, CallInv, Holding, ProcessState, Recorded, Save, Working
  <2>5. LoadedIsDurable'
    BY DEF TypeOK, LoadedIsDurable, Holding, ProcessState, InFlightStatus,
       Save, Working, LeaseInv, OneWriterPerRun
  <2>6. ReservingInv'
    BY DEF TypeOK, ReservingInv, Reserving, ProcessState, Save, Working
  <2> QED
    BY <2>1, <2>2, <2>3, <2>4, <2>5, <2>6
<1>16. ASSUME NEW p \in Process, SaveEnded(p) PROVE StepInv'
  <2> USE <1>16 DEF StepInv, SaveEnded, Becomes
  <2>1. TypeOK'
    BY DEF TypeOK, ProcessState, Holding, Statuses, InFlightStatus, Steps,
       Calls, Save, Working
  <2>2. LockInv'
    BY DEF TypeOK, LockInv, Critical, Save, Working
  <2>3. LeaseInv'
    BY DEF TypeOK, LeaseInv, OneWriterPerRun, Holding, Save, Working
  <2>4. CallInv'
    BY DEF TypeOK, CallInv, Holding, ProcessState, Recorded, Save, Working
  <2>5. LoadedIsDurable'
    BY DEF TypeOK, LoadedIsDurable, Holding, ProcessState, InFlightStatus,
       Save, Working, LeaseInv, OneWriterPerRun
  <2>6. ReservingInv'
    BY DEF TypeOK, ReservingInv, Reserving, ProcessState, Save, Working
  <2> QED
    BY <2>1, <2>2, <2>3, <2>4, <2>5, <2>6
<1>17. ASSUME NEW p \in Process, ReleaseRun(p) PROVE StepInv'
  BY <1>17, LeaveStepInv DEF ReleaseRun
<1>18. ASSUME NEW p \in Process, BeginContinuation(p) PROVE StepInv'
  <2> USE <1>18 DEF StepInv, BeginContinuation, Becomes
  <2>1. TypeOK'
    <3>1. proc[p] \in ProcessState
      BY DEF TypeOK
    <3>2. /\ Scanning(proc[p], "itemscan") \in ProcessState
          /\ Scanning(proc[p], "slotscan") \in ProcessState
      BY <3>1, ScanningState DEF Steps
    <3>3. proc' \in [Process -> ProcessState]
      BY <3>2 DEF TypeOK
    <3> QED
      BY <3>1, <3>3 DEF TypeOK, Scanning, Holding, ProcessState
  <2>2. LockInv'
    BY DEF TypeOK, LockInv, Critical, Recorded, Scanning
  <2>3. LeaseInv'
    BY DEF TypeOK, LeaseInv, OneWriterPerRun, Holding, Recorded, Scanning
  <2>4. CallInv'
    BY DEF TypeOK, CallInv, Holding, ProcessState, Recorded, Scanning
  <2>5. LoadedIsDurable'
    BY DEF TypeOK, LoadedIsDurable, Holding, ProcessState, InFlightStatus,
       Recorded, Scanning
  <2>6. ReservingInv'
    BY DEF TypeOK, ReservingInv, Reserving, ProcessState, Recorded, Scanning
  <2> QED
    BY <2>1, <2>2, <2>3, <2>4, <2>5, <2>6
<1>19. ASSUME NEW p \in Process, NoRunInFlight(p) PROVE StepInv'
  <2> USE <1>19 DEF StepInv, NoRunInFlight, Becomes
  <2>1. TypeOK'
    <3>1. proc[p] \in ProcessState
      BY DEF TypeOK
    <3>2. /\ Scanning(proc[p], "itemscan") \in ProcessState
          /\ Scanning(proc[p], "slotscan") \in ProcessState
      BY <3>1, ScanningState DEF Steps
    <3>3. proc' \in [Process -> ProcessState]
      BY <3>2 DEF TypeOK
    <3> QED
      BY <3>1, <3>3 DEF TypeOK, Scanning, Holding, ProcessState
  <2>2. LockInv'
    BY DEF TypeOK, LockInv, Critical, Recorded, Scanning
  <2>3. LeaseInv'
    BY DEF TypeOK, LeaseInv, OneWriterPerRun, Holding, Recorded, Scanning
  <2>4. CallInv'
    BY DEF TypeOK, CallInv, Holding, ProcessState, Recorded, Scanning,
       ActiveForItem
  <2>5. LoadedIsDurable'
    BY DEF TypeOK, LoadedIsDurable, Holding, ProcessState, InFlightStatus,
       Recorded, Scanning
  <2>6. ReservingInv'
    BY DEF TypeOK, ReservingInv, Reserving, ProcessState, Recorded,
       Scanning, ActiveForItem
  <2> QED
    BY <2>1, <2>2, <2>3, <2>4, <2>5, <2>6
<1>20. ASSUME NEW p \in Process, SlotIsFree(p) PROVE StepInv'
  <2> USE <1>20 DEF StepInv, SlotIsFree, Becomes
  <2>1. TypeOK'
    BY DEF TypeOK, ProcessState, Holding, Statuses, InFlightStatus, Steps,
       Calls
  <2>2. LockInv'
    BY DEF TypeOK, LockInv, Critical
  <2>3. LeaseInv'
    BY DEF TypeOK, LeaseInv, OneWriterPerRun, Holding
  <2>4. CallInv'
    BY DEF TypeOK, CallInv, Holding, ProcessState, Recorded
  <2>5. LoadedIsDurable'
    BY DEF TypeOK, LoadedIsDurable, Holding, ProcessState, InFlightStatus
  <2>6. ReservingInv'
    BY DEF TypeOK, ReservingInv, Reserving, ProcessState
  <2> QED
    BY <2>1, <2>2, <2>3, <2>4, <2>5, <2>6
<1>21. ASSUME NEW p \in Process, ContinuationRefused(p) PROVE StepInv'
  BY <1>21, LeaveStepInv DEF ContinuationRefused
<1>22. ASSUME NEW p \in Process, ReenterRun(p) PROVE StepInv'
  <2> USE <1>22 DEF StepInv, ReenterRun, Becomes
  <2>1. TypeOK'
    <3>1. proc[p] \in ProcessState
      BY DEF TypeOK
    <3>2. "running" \in Statuses /\ "own" \in Steps /\ "handoff" \in Calls
      BY DEF Statuses, InFlightStatus, Steps, Calls
    <3>3. proc' \in [Process -> ProcessState]
      BY <3>1, <3>2, LoadedState DEF TypeOK
    <3> QED
      BY <3>1, <3>2, <3>3 DEF TypeOK, Holding, ProcessState
  <2>2. LockInv'
    BY DEF TypeOK, LockInv, Critical
  <2>3. LeaseInv'
    BY DEF TypeOK, LeaseInv, OneWriterPerRun, Holding
  <2>4. CallInv'
    BY DEF TypeOK, CallInv, Holding, ProcessState, Recorded
  <2>5. LoadedIsDurable'
    BY DEF TypeOK, LoadedIsDurable, Holding, ProcessState, InFlightStatus,
       LeaseInv, OneWriterPerRun
  <2>6. ReservingInv'
    BY DEF TypeOK, ReservingInv, Reserving, ProcessState
  <2> QED
    BY <2>1, <2>2, <2>3, <2>4, <2>5, <2>6
<1>23. ASSUME NEW p \in Process, Crash(p) PROVE StepInv'
  BY <1>23, LeaveStepInv DEF Crash
<1>24. ASSUME NEW r \in Run, ChildExecs(r) PROVE StepInv'
  BY <1>24 DEF StepInv, ChildExecs, TypeOK, LockInv, LeaseInv,
     OneWriterPerRun, CallInv, LoadedIsDurable, ReservingInv, Reserving,
     Recorded
<1>25. CASE UNCHANGED vars
  BY <1>25 DEF vars, StepInv, TypeOK, LockInv, LeaseInv, OneWriterPerRun,
     CallInv, LoadedIsDurable, ReservingInv, Reserving, Recorded
<1> QED
  BY <1>1, <1>2, <1>3, <1>4, <1>5, <1>6, <1>7, <1>8, <1>9, <1>10, <1>11,
     <1>12, <1>13, <1>14, <1>15, <1>16, <1>17, <1>18, <1>19, <1>20, <1>21,
     <1>22, <1>23, <1>24, <1>25 DEF Next, Begin, InsideCall, Afterwards

-----------------------------------------------------------------------------
(* The runs in flight. *)

\* How a step changes the runs in flight: a run ends, is put back in flight,
\* or is created under the reservation lock; nothing else touches a status.
Ends(r) == status[r] \in InFlightStatus /\ status' = [status EXCEPT ![r] = "ended"]
Works(r) == status[r] \in InFlightStatus /\ status' = [status EXCEPT ![r] = "running"]
Reenters(r) ==
  /\ r \in Continuable /\ status[r] = "ended"
  /\ status' = [status EXCEPT ![r] = "running"]
  /\ reentered' = reentered \cup {r}

LEMMA StatusSteps ==
  ASSUME StepInv, Next
  PROVE  \/ UNCHANGED <<status, reentered>>
         \/ \E p \in Process : CreateRecord(p) /\ proc[p].run \in Run
         \/ \E r \in Run : (Ends(r) \/ Works(r)) /\ UNCHANGED reentered
         \/ \E r \in Run : Reenters(r)
PROOF
<1> USE DEF StepInv
<1>1. ASSUME NEW p \in Process, Begin(p) PROVE UNCHANGED <<status, reentered>>
  BY <1>1 DEF Begin, BeginReserve, BeginAdopt, BeginAdoptRun
<1>2. ASSUME NEW p \in Process, InsideCall(p)
      PROVE  UNCHANGED <<status, reentered>> \/ (CreateRecord(p) /\ proc[p].run \in Run)
  BY <1>2 DEF InsideCall, LockReservations, ReadRecord, ReserveRefused,
     ReserveAdmitted, TakeLease, LeaseRefused, CreateFails, AdoptNothing,
     AdoptChooses, LoadRecord, Leave, CreateRecord, TypeOK, Holding
<1>3. ASSUME NEW p \in Process, Afterwards(p)
      PROVE  \/ UNCHANGED <<status, reentered>>
             \/ \E r \in Run : (Ends(r) \/ Works(r)) /\ UNCHANGED reentered
             \/ \E r \in Run : Reenters(r)
  <2>1. CASE SaveRunning(p) \/ SaveEnded(p)
    <3>1. proc[p].run \in Run /\ status[proc[p].run] = proc[p].loaded
      BY <2>1 DEF SaveRunning, SaveEnded, Working, TypeOK, Holding,
         LoadedIsDurable
    <3>2. (Ends(proc[p].run) \/ Works(proc[p].run)) /\ UNCHANGED reentered
      BY <2>1, <3>1 DEF SaveRunning, SaveEnded, Save, Ends, Works
    <3> QED
      BY <3>1, <3>2
  <2>2. CASE ReenterRun(p)
    <3>1. proc[p].run \in Run /\ Reenters(proc[p].run)
      BY <2>2 DEF ReenterRun, Reenters, TypeOK, Holding, LoadedIsDurable,
         CallInv
    <3> QED
      BY <3>1
  <2> QED
    BY <1>3, <2>1, <2>2 DEF Afterwards, ReleaseRun, BeginContinuation,
       NoRunInFlight,
       SlotIsFree, ContinuationRefused, Leave
<1>4. ASSUME NEW p \in Process, Crash(p) PROVE UNCHANGED <<status, reentered>>
  BY <1>4 DEF Crash, Leave
<1>5. ASSUME NEW r \in Run, ChildExecs(r) PROVE UNCHANGED <<status, reentered>>
  BY <1>5 DEF ChildExecs
<1> QED
  BY <1>1, <1>2, <1>3, <1>4, <1>5 DEF Next

\* A step that is no creation leaves no run fresh that was not.
LEMMA FreshShrinks ==
  ASSUME StepInv, [Next]_vars, \A p \in Process : ~CreateRecord(p)
  PROVE  Fresh' \subseteq Fresh
PROOF
<1>1. CASE UNCHANGED <<status, reentered>>
  BY <1>1 DEF Fresh, Live
<1>2. ASSUME NEW r \in Run, Ends(r) \/ Works(r), UNCHANGED reentered
      PROVE  Fresh' \subseteq Fresh
  BY <1>2 DEF Ends, Works, Fresh, Live, StepInv, TypeOK
<1>3. ASSUME NEW r \in Run, Reenters(r) PROVE Fresh' \subseteq Fresh
  BY <1>3 DEF Reenters, Fresh, Live, StepInv, TypeOK
<1>4. CASE Next
  BY <1>1, <1>2, <1>3, <1>4, StatusSteps
<1> QED
  BY <1>1, <1>4 DEF vars

\* A creation makes exactly the reserved run fresh.
LEMMA FreshGrows ==
  ASSUME StepInv, NEW p \in Process, CreateRecord(p)
  PROVE  /\ proc[p].run \in Run \ Fresh
         /\ Fresh' \subseteq Fresh \cup {proc[p].run}
PROOF
  BY DEF CreateRecord, Fresh, Live, InFlightStatus, StepInv, TypeOK, Holding

\* The fresh runs are finitely many, and fewer of them is a smaller number.
LEMMA FreshFinite ==
  /\ IsFiniteSet(Fresh)
  /\ Cardinality(Fresh) \in Nat
PROOF
<1>1. Fresh \subseteq Run
  BY DEF Fresh, Live
<1> QED
  BY <1>1, RunStoreAssumption, FS_Subset, FS_CardinalityType

-----------------------------------------------------------------------------
(* The limit and the rule of one fresh run per item. *)

\* Fewer fresh runs leave the room there was.
LEMMA RoomKept ==
  ASSUME Fresh' \subseteq Fresh, NEW p \in Process, NEW r, RoomFor(p, r)
  PROVE  RoomFor(p, r)'
PROOF
<1>1. Cardinality(Fresh') \in Nat /\ Cardinality(Fresh') <= Cardinality(Fresh)
  BY FreshFinite, FS_Subset, FS_CardinalityType
<1> QED
  BY <1>1, FreshFinite, RunStoreAssumption DEF RoomFor

\* A step of one process changes no other's state.
LEMMA OtherProcess ==
  ASSUME TypeOK, NEW p \in Process, NEW q \in Process, q # p,
         Begin(q) \/ InsideCall(q) \/ Afterwards(q) \/ Crash(q)
  PROVE  proc'[p] = proc[p]
PROOF
  BY DEF Begin, InsideCall, Afterwards, Crash, BeginReserve, BeginAdopt,
     BeginAdoptRun, LockReservations, ReadRecord, ReserveRefused, ReserveAdmitted,
     TakeLease, LeaseRefused, CreateRecord, CreateFails, AdoptNothing, AdoptChooses,
     LoadRecord, SaveRunning, SaveEnded, ReleaseRun, BeginContinuation,
     NoRunInFlight, SlotIsFree, ContinuationRefused, ReenterRun, Leave, Save,
     Becomes, TypeOK

\* While a process scans, its scan goes on covering the fresh runs.
LEMMA ScanStep ==
  ASSUME IInv, [Next]_vars
  PROVE  ScanInv'
PROOF
<1> SUFFICES ASSUME NEW p \in Process, proc'[p].at = "scan"
             PROVE  Fresh' \subseteq proc'[p].unread \cup proc'[p].active
  BY DEF ScanInv
<1> USE DEF IInv, StepInv
<1>1. CASE \E q \in Process : CreateRecord(q)
  <2>1. PICK q \in Process : CreateRecord(q)
    BY <1>1
  <2>2. reservation = q
    BY <2>1 DEF CreateRecord, LockInv, Critical
  <2>3. q # p
    BY <2>1 DEF CreateRecord, Becomes, TypeOK, ProcessState
  <2>4. proc'[p] = proc[p]
    BY <2>1, <2>3 DEF CreateRecord, Becomes, TypeOK
  <2> QED
    BY <2>2, <2>3, <2>4 DEF LockInv, Critical
<1>2. CASE ~\E q \in Process : CreateRecord(q)
  <2>1. Fresh' \subseteq Fresh
    BY <1>2, FreshShrinks
  <2>2. CASE proc'[p] = proc[p]
    BY <2>1, <2>2 DEF ScanInv
  <2>3. CASE LockReservations(p)
    BY <2>1, <2>3 DEF LockReservations, Becomes, Scanning, TypeOK, ProcessState,
       Recorded, Fresh, Live, InFlightStatus
  <2>4. CASE ReadRecord(p)
    <3>1. proc[p].at = "scan"
      BY <2>4 DEF ReadRecord, Becomes, TypeOK, ProcessState
    <3>2. PICK r \in proc[p].unread : proc' = [proc EXCEPT ![p] =
             [proc[p] EXCEPT !.unread = @ \ {r},
                             !.active = IF r \in Live THEN @ \cup {r} ELSE @]]
      BY <2>4 DEF ReadRecord, Becomes
    <3>3. /\ proc'[p].unread = proc[p].unread \ {r}
          /\ proc'[p].active = IF r \in Live THEN proc[p].active \cup {r}
                                             ELSE proc[p].active
      BY <3>2 DEF TypeOK, ProcessState
    <3> QED
      BY <2>1, <3>1, <3>3 DEF ScanInv, Fresh
  <2>5. ASSUME NEW q \in Process, q # p,
               Begin(q) \/ InsideCall(q) \/ Afterwards(q) \/ Crash(q)
        PROVE  proc'[p] = proc[p]
    BY <2>5, OtherProcess
  <2>6. CASE Begin(p)
    BY <2>6 DEF Begin, BeginReserve, BeginAdopt, BeginAdoptRun, Becomes,
       Idle, TypeOK
  <2>7. CASE InsideCall(p) /\ ~LockReservations(p) /\ ~ReadRecord(p)
    <3>1. CASE ReserveRefused(p) \/ LeaseRefused(p) \/ CreateFails(p) \/ AdoptNothing(p)
      BY <3>1 DEF ReserveRefused, LeaseRefused, CreateFails, AdoptNothing,
         Leave,
         Becomes, Idle, TypeOK
    <3>2. CASE AdoptChooses(p)
      BY <3>2 DEF AdoptChooses, Becomes, TypeOK, ProcessState
    <3>5. CASE ReserveAdmitted(p)
      BY <3>5 DEF ReserveAdmitted, Becomes, TypeOK, ProcessState
    <3>3. CASE TakeLease(p)
      BY <3>3 DEF TakeLease, Becomes, TypeOK, ProcessState
    <3>4. CASE LoadRecord(p)
      BY <3>4 DEF LoadRecord, Becomes, TypeOK, ProcessState
    <3> QED
      BY <1>2, <2>7, <3>1, <3>2, <3>3, <3>4, <3>5 DEF InsideCall
  <2>8. CASE Afterwards(p) \/ Crash(p)
    <3>1. CASE ReleaseRun(p) \/ ContinuationRefused(p) \/ Crash(p)
      BY <3>1 DEF ReleaseRun, ContinuationRefused, Crash, Leave, Becomes,
         Idle, TypeOK
    <3>2. CASE SaveRunning(p) \/ SaveEnded(p)
      BY <3>2 DEF SaveRunning, SaveEnded, Save, Working, Becomes, TypeOK,
         ProcessState
    <3>3. CASE BeginContinuation(p)
      BY <3>3 DEF BeginContinuation, Becomes, Scanning, TypeOK, ProcessState
    <3>4. CASE NoRunInFlight(p)
      BY <3>4 DEF NoRunInFlight, Becomes, Scanning, TypeOK, ProcessState
    <3>5. CASE SlotIsFree(p)
      BY <3>5 DEF SlotIsFree, Becomes, TypeOK, ProcessState
    <3>6. CASE ReenterRun(p)
      BY <3>6 DEF ReenterRun, Becomes, TypeOK, ProcessState
    <3> QED
      BY <2>8, <3>1, <3>2, <3>3, <3>4, <3>5, <3>6 DEF Afterwards
  <2>9. CASE UNCHANGED vars \/ \E r \in Run : ChildExecs(r)
    BY <2>2, <2>9 DEF vars, ChildExecs
  <2> QED
    BY <2>3, <2>4, <2>5, <2>2, <2>6, <2>7, <2>8, <2>9 DEF Next
<1> QED
  BY <1>1, <1>2

\* What admitted a run goes on holding until its record is created.
LEMMA AdmittedStep ==
  ASSUME IInv, [Next]_vars
  PROVE  AdmittedInv'
PROOF
<1> SUFFICES ASSUME NEW p \in Process, NEW r, r = proc'[p].run,
                    proc'[p].at \in {"lease", "create"}, proc'[p].call = "reserve"
             PROVE  RoomFor(p, r)'
  BY DEF AdmittedInv, RoomFor
<1> USE DEF IInv, StepInv
<1>1. CASE \E q \in Process : CreateRecord(q)
  <2>1. PICK q \in Process : CreateRecord(q)
    BY <1>1
  <2>2. reservation = q
    BY <2>1 DEF CreateRecord, LockInv, Critical
  <2>3. q # p
    BY <2>1 DEF CreateRecord, Becomes, TypeOK, ProcessState
  <2>4. proc'[p] = proc[p]
    BY <2>1, <2>3 DEF CreateRecord, Becomes, TypeOK
  <2> QED
    BY <2>2, <2>3, <2>4 DEF LockInv, Critical
<1>2. CASE ~\E q \in Process : CreateRecord(q)
  <2>1. Fresh' \subseteq Fresh
    BY <1>2, FreshShrinks
  <2>2. CASE proc'[p] = proc[p]
    BY <2>1, <2>2, RoomKept DEF AdmittedInv
  <2>3. CASE ReserveAdmitted(p)
    <3>1. Fresh \subseteq proc[p].active
      BY <2>3 DEF ReserveAdmitted, ScanInv
    <3>2. IsFiniteSet(proc[p].active)
      BY RunStoreAssumption, FS_Subset DEF TypeOK, ProcessState
    <3>3. Cardinality(Fresh) < MaxConcurrent[p]
      BY <2>3, <3>1, <3>2, FreshFinite, FS_Subset, FS_CardinalityType, RunStoreAssumption
         DEF ReserveAdmitted, AdmitsRun
    <3>4. RoomFor(p, proc[p].run)
      BY <2>3, <3>1, <3>3 DEF ReserveAdmitted, AdmitsRun, ActiveForItem,
         RoomFor,
         ReservingInv, Reserving
    <3>5. proc'[p].run = proc[p].run
      BY <2>3 DEF ReserveAdmitted, Becomes, TypeOK, ProcessState
    <3> QED
      BY <2>1, <3>4, <3>5, RoomKept
  <2>4. CASE TakeLease(p)
    <3>1. proc'[p].run = proc[p].run /\ proc'[p].call = proc[p].call
      BY <2>4 DEF TakeLease, Becomes, TypeOK, ProcessState
    <3>2. RoomFor(p, proc[p].run)
      BY <2>4, <3>1 DEF TakeLease, AdmittedInv
    <3> QED
      BY <2>1, <3>1, <3>2, RoomKept
  <2>5. ASSUME NEW q \in Process, q # p,
               Begin(q) \/ InsideCall(q) \/ Afterwards(q) \/ Crash(q)
        PROVE  proc'[p] = proc[p]
    BY <2>5, OtherProcess
  <2>6. CASE Begin(p)
    BY <2>6 DEF Begin, BeginReserve, BeginAdopt, BeginAdoptRun, Becomes,
       Idle, TypeOK
  <2>7. CASE InsideCall(p) /\ ~ReserveAdmitted(p) /\ ~TakeLease(p)
    <3>1. CASE ReserveRefused(p) \/ LeaseRefused(p) \/ CreateFails(p) \/ AdoptNothing(p)
      BY <3>1 DEF ReserveRefused, LeaseRefused, CreateFails, AdoptNothing,
         Leave,
         Becomes, Idle, TypeOK
    <3>2. CASE AdoptChooses(p)
      BY <3>2 DEF AdoptChooses, Becomes, TypeOK, ProcessState
    <3>3. CASE LockReservations(p)
      BY <3>3 DEF LockReservations, Becomes, Scanning, TypeOK, ProcessState
    <3>4. CASE LoadRecord(p)
      BY <3>4 DEF LoadRecord, Becomes, TypeOK, ProcessState
    <3>5. CASE ReadRecord(p)
      BY <3>5 DEF ReadRecord, Becomes, TypeOK, ProcessState
    <3> QED
      BY <1>2, <2>7, <3>1, <3>2, <3>3, <3>4, <3>5 DEF InsideCall
  <2>8. CASE Afterwards(p) \/ Crash(p)
    <3>1. CASE ReleaseRun(p) \/ ContinuationRefused(p) \/ Crash(p)
      BY <3>1 DEF ReleaseRun, ContinuationRefused, Crash, Leave, Becomes,
         Idle, TypeOK
    <3>2. CASE SaveRunning(p) \/ SaveEnded(p)
      BY <3>2 DEF SaveRunning, SaveEnded, Save, Working, Becomes, TypeOK,
         ProcessState
    <3>3. CASE BeginContinuation(p)
      BY <3>3 DEF BeginContinuation, Becomes, Scanning, TypeOK, ProcessState
    <3>4. CASE NoRunInFlight(p)
      BY <3>4 DEF NoRunInFlight, Becomes, Scanning, TypeOK, ProcessState
    <3>5. CASE SlotIsFree(p)
      BY <3>5 DEF SlotIsFree, Becomes, TypeOK, ProcessState
    <3>6. CASE ReenterRun(p)
      BY <3>6 DEF ReenterRun, Becomes, TypeOK, ProcessState
    <3> QED
      BY <2>8, <3>1, <3>2, <3>3, <3>4, <3>5, <3>6 DEF Afterwards
  <2>9. CASE UNCHANGED vars \/ \E c \in Run : ChildExecs(c)
    BY <2>2, <2>9 DEF vars, ChildExecs
  <2> QED
    BY <2>2, <2>3, <2>4, <2>5, <2>6, <2>7, <2>8, <2>9 DEF Next
<1> QED
  BY <1>1, <1>2

\* A run is created within the limit of the process that creates it.
LEMMA CreatedWithinLimit ==
  ASSUME IInv, NEW p \in Process, CreateRecord(p)
  PROVE  Cardinality(Fresh') <= MaxConcurrent[p]
PROOF
<1> USE DEF IInv, StepInv
<1>1. /\ proc[p].run \in Run \ Fresh
      /\ Fresh' \subseteq Fresh \cup {proc[p].run}
  BY FreshGrows
<1>2. RoomFor(p, proc[p].run)
  BY DEF CreateRecord, AdmittedInv, CallInv
<1>3. Cardinality(Fresh \cup {proc[p].run}) = Cardinality(Fresh) + 1
      /\ IsFiniteSet(Fresh \cup {proc[p].run})
  BY <1>1, FreshFinite, FS_AddElement
<1>4. Cardinality(Fresh') <= Cardinality(Fresh) + 1 /\ Cardinality(Fresh') \in Nat
  BY <1>1, <1>3, FS_Subset, FS_CardinalityType
<1> QED
  BY <1>2, <1>4, FreshFinite, RunStoreAssumption DEF RoomFor

\* The one fresh run per item is kept by every step.
LEMMA FreshStep ==
  ASSUME IInv, [Next]_vars
  PROVE  SecondRunWasContinued'
PROOF
<1> USE DEF IInv, StepInv
<1>1. CASE \E p \in Process : CreateRecord(p)
  <2>1. PICK p \in Process : CreateRecord(p)
    BY <1>1
  <2>2. /\ proc[p].run \in Run \ Fresh
        /\ Fresh' \subseteq Fresh \cup {proc[p].run}
    BY <2>1, FreshGrows
  <2>3. RoomFor(p, proc[p].run)
    BY <2>1 DEF CreateRecord, AdmittedInv, CallInv
  <2> QED
    BY <2>2, <2>3 DEF RoomFor, SecondRunWasContinued, Fresh
<1>2. CASE ~\E p \in Process : CreateRecord(p)
  <2>1. Fresh' \subseteq Fresh
    BY <1>2, FreshShrinks
  <2> QED
    BY <2>1 DEF SecondRunWasContinued, Fresh
<1> QED
  BY <1>1, <1>2

\* The invariant is inductive.
LEMMA NextIInv == IInv /\ [Next]_vars => IInv'
PROOF
  BY NextStepInv, ScanStep, AdmittedStep, FreshStep DEF IInv

\* The invariant holds throughout.
LEMMA SpecIInv == Spec => []IInv
PROOF
<1>1. Init => IInv
  BY InitIInv
<1>2. IInv /\ [Next]_vars => IInv'
  BY NextIInv
<1> QED
  BY <1>1, <1>2, PTL DEF Spec

-----------------------------------------------------------------------------
(* Theorems. *)

\* Every variable of the store keeps its type, and a call past the reservation
\* names its run.
THEOREM TypeCorrect == Spec => []TypeOK
PROOF
<1>1. IInv => TypeOK
  BY DEF IInv, StepInv
<1> QED
  BY <1>1, SpecIInv, PTL

\* No two processes act on one run: the process that does holds its lease.
THEOREM LeaseExcludes == Spec => []OneWriterPerRun
PROOF
<1>1. IInv => OneWriterPerRun
  BY DEF IInv, StepInv, LeaseInv
<1> QED
  BY <1>1, SpecIInv, PTL

\* What the owner of a run believes of it is what the state file says.
THEOREM OwnerKnowsItsRun == Spec => []LoadedIsDurable
PROOF
<1>1. IInv => LoadedIsDurable
  BY DEF IInv, StepInv
<1> QED
  BY <1>1, SpecIInv, PTL

\* Reserve never takes the runs it admitted beyond the limit it was called with,
\* for every number of processes, runs and slots.
THEOREM ReservationKeepsCapacity == Spec => FreshRunsWithinCapacity
PROOF
<1> DEFINE Within(p) ==
             proc[p].at = "create" /\ proc[p].run \in Recorded' \ Recorded
               => Cardinality(Fresh') <= MaxConcurrent[p]
<1>1. ASSUME IInv, [Next]_vars PROVE \A p \in Process : Within(p)
  <2> SUFFICES ASSUME NEW p \in Process, proc[p].at = "create",
                      proc[p].run \in Recorded' \ Recorded
               PROVE  Cardinality(Fresh') <= MaxConcurrent[p]
    OBVIOUS
  <2> USE <1>1 DEF IInv, StepInv
  <2>1. /\ Reserving(p) /\ proc[p].run \in Run
        /\ status[proc[p].run] = "absent" /\ status'[proc[p].run] # "absent"
    BY DEF CallInv, Reserving, TypeOK, Holding, Recorded
  <2>2. ASSUME NEW q \in Process, CreateRecord(q) PROVE q = p
    BY <2>1, <2>2 DEF CreateRecord, ReservingInv, TypeOK
  <2>3. \A r \in Run : ~Ends(r) /\ ~Works(r) /\ ~Reenters(r)
    BY <2>1 DEF Ends, Works, Reenters, InFlightStatus, TypeOK
  <2>4. PICK q \in Process : CreateRecord(q)
    BY <2>1, <2>3, StatusSteps DEF vars
  <2> QED
    BY <2>2, <2>4, CreatedWithinLimit
<1>2. [][IInv /\ [Next]_vars => \A p \in Process : Within(p)]_vars
  BY <1>1, PTL
<1> QED
  BY <1>1, SpecIInv, PTL DEF Spec, FreshRunsWithinCapacity

\* Reserve never puts a second run of an item in flight.
THEOREM ReservationKeepsItems == Spec => []SecondRunWasContinued
PROOF
<1>1. IInv => SecondRunWasContinued
  BY DEF IInv
<1> QED
  BY <1>1, SpecIInv, PTL

\* A state file appears only under its creator's lease.
THEOREM RunsAreBornOwned == Spec => BornOwned
PROOF
<1> DEFINE Born(r) == status[r] = "absent" /\ status'[r] # "absent"
                         => holder[r] \in Process
<1>1. ASSUME IInv, [Next]_vars PROVE \A r \in Run : Born(r)
  <2> USE <1>1 DEF IInv, StepInv
  <2>1. CASE UNCHANGED <<status, reentered>>
    BY <2>1
  <2>2. ASSUME NEW p \in Process, CreateRecord(p) PROVE \A r \in Run : Born(r)
    BY <2>2 DEF CreateRecord, LeaseInv, OneWriterPerRun, Holding, TypeOK
  <2>3. ASSUME NEW q \in Run, Ends(q) \/ Works(q) \/ Reenters(q)
        PROVE  \A r \in Run : Born(r)
    BY <2>3 DEF Ends, Works, Reenters, InFlightStatus, TypeOK
  <2> QED
    BY <2>1, <2>2, <2>3, StatusSteps DEF vars
<1>2. [][IInv /\ [Next]_vars => \A r \in Run : Born(r)]_vars
  BY <1>1, PTL
<1> QED
  BY <1>1, SpecIInv, PTL DEF Spec, BornOwned

-----------------------------------------------------------------------------
(* The store implements the registry. *)

\* The registry counts as the store does.
LEMMA SameCount == ASSUME NEW S PROVE Registry!Cardinality(S) = Cardinality(S)
PROOF
  BY DEF Registry!Cardinality, Cardinality

\* Every step of the store is a step of the registry or leaves it alone.
LEMMA RegistryStep ==
  ASSUME IInv, IInv', [Next]_vars
  PROVE  [Registry!Next]_Registry!vars
PROOF
<1> USE DEF IInv, StepInv
<1>1. CASE UNCHANGED <<status, reentered>>
  BY <1>1 DEF Registry!vars, Live
<1>2. ASSUME NEW p \in Process, CreateRecord(p) PROVE Registry!Next
  <2>1. /\ proc[p].run \in Run /\ status[proc[p].run] = "absent"
        /\ status' = [status EXCEPT ![proc[p].run] = "pending"]
        /\ UNCHANGED reentered
    BY <1>2 DEF CreateRecord, TypeOK, Holding
  <2>2. RoomFor(p, proc[p].run)
    BY <1>2 DEF CreateRecord, AdmittedInv, CallInv
  <2>3. /\ \E limit \in {MaxConcurrent[k] : k \in Process} :
             Registry!Cardinality(Registry!Fresh) < limit
        /\ \A t \in Registry!Fresh : ItemOf[t] # ItemOf[proc[p].run]
    BY <2>2, SameCount DEF Registry!Fresh, Fresh, RoomFor
  <2>4. Live' = Live \cup {proc[p].run}
    BY <2>1 DEF Live, InFlightStatus, TypeOK
  <2>5. {r \in Run : status[r] = "ended"}' = {r \in Run : status[r] = "ended"}
    BY <2>1 DEF TypeOK
  <2>6. proc[p].run \notin Live \cup {r \in Run : status[r] = "ended"}
    BY <2>1 DEF Live, InFlightStatus
  <2>7. Registry!Start(proc[p].run)
    BY <2>1, <2>3, <2>4, <2>5, <2>6 DEF Registry!Start
  <2> QED
    BY <2>1, <2>7 DEF Registry!Next
<1>3. ASSUME NEW r \in Run, Ends(r), UNCHANGED reentered PROVE Registry!Next
  <2>1. r \in Live
    BY <1>3 DEF Ends, Live
  <2>2. Live' = Live \ {r}
    BY <1>3 DEF Ends, Live, InFlightStatus, TypeOK
  <2>3. {s \in Run : status[s] = "ended"}' = {s \in Run : status[s] = "ended"} \cup {r}
    BY <1>3 DEF Ends, TypeOK
  <2>4. Registry!End(r)
    BY <1>3, <2>1, <2>2, <2>3 DEF Registry!End
  <2> QED
    BY <2>4 DEF Registry!Next
<1>4. ASSUME NEW r \in Run, Works(r), UNCHANGED reentered
      PROVE  UNCHANGED Registry!vars
  <2>1. Live' = Live
    BY <1>4 DEF Works, Live, InFlightStatus, TypeOK
  <2>2. {s \in Run : status[s] = "ended"}' = {s \in Run : status[s] = "ended"}
    BY <1>4 DEF Works, InFlightStatus, TypeOK
  <2> QED
    BY <1>4, <2>1, <2>2 DEF Registry!vars
<1>5. ASSUME NEW r \in Run, Reenters(r) PROVE Registry!Next
  <2>1. Live' = Live \cup {r}
    BY <1>5 DEF Reenters, Live, InFlightStatus, TypeOK
  <2>2. {s \in Run : status[s] = "ended"}' = {s \in Run : status[s] = "ended"} \ {r}
    BY <1>5 DEF Reenters, TypeOK
  <2>3. r \in {s \in Run : status[s] = "ended"} \cap Continuable
    BY <1>5 DEF Reenters
  <2>4. Registry!Reenter(r)
    BY <1>5, <2>1, <2>2, <2>3 DEF Registry!Reenter, Reenters
  <2> QED
    BY <2>4 DEF Registry!Next
<1> QED
  BY <1>1, <1>2, <1>3, <1>4, <1>5, StatusSteps DEF vars

\* Locks, leases and file-by-file scans implement the registry: a run starts
\* only when its item has no fresh run and a slot is free.
THEOREM StoreImplementsRegistry == Spec => ImplementsRegistry
PROOF
<1>1. Init => Registry!Init
  BY DEF Init, Registry!Init, Live, InFlightStatus
<1>2. IInv /\ IInv' /\ [Next]_vars => [Registry!Next]_Registry!vars
  BY RegistryStep
<1> QED
  BY <1>1, <1>2, SpecIInv, PTL DEF Spec, ImplementsRegistry, Registry!Spec

=============================================================================
