---------------------------- MODULE RunRegistry ----------------------------
(***************************************************************************)
(* What the run store promises, without locks, leases or files: runs of    *)
(* work items start, end, and may be re-entered after they ended.          *)
(*                                                                         *)
(* A run starts only while its item has no fresh run in flight and fewer   *)
(* fresh runs are in flight than its starter's limit allows.  A fresh run  *)
(* is one that was never re-entered: a run that a triage action put back   *)
(* in flight is not admitted by the reservation, so it is counted apart.   *)
(***************************************************************************)
EXTENDS Integers, FiniteSets

CONSTANTS
  Run,            \* run identifiers
  ItemOf,         \* the work item each run is made for
  Limits,         \* the limits on developers that runs are started under
  Continuable     \* the runs a triage action may put back in flight

VARIABLES
  live,           \* the runs in flight
  ended,          \* the runs that reached a terminal status
  reentered       \* the runs that were ever put back in flight

vars == <<live, ended, reentered>>

Fresh == live \ reentered

Init ==
  /\ live = {}
  /\ ended = {}
  /\ reentered = {}

Start(r) ==
  /\ r \notin live \cup ended
  /\ \A s \in Fresh : ItemOf[s] # ItemOf[r]
  /\ \E limit \in Limits : Cardinality(Fresh) < limit
  /\ live' = live \cup {r}
  /\ UNCHANGED <<ended, reentered>>

End(r) ==
  /\ r \in live
  /\ live' = live \ {r}
  /\ ended' = ended \cup {r}
  /\ UNCHANGED reentered

Reenter(r) ==
  /\ r \in ended \cap Continuable
  /\ ended' = ended \ {r}
  /\ live' = live \cup {r}
  /\ reentered' = reentered \cup {r}

Next == \E r \in Run : Start(r) \/ End(r) \/ Reenter(r)

Spec == Init /\ [][Next]_vars

=============================================================================
