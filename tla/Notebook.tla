------------------------------ MODULE Notebook ------------------------------
(***************************************************************************)
(* What the memory store of internal/runstate/memory.go promises of one    *)
(* agent: a history of revisions that only grows, in which every memory is *)
(* numbered from one without a gap, no number is ever given to two         *)
(* revisions, and whatever a writer was told is recorded stays recorded.   *)
(* MemoryLog implements it with files that are appended to, rolled aside,  *)
(* torn by crashes and mended.                                             *)
(***************************************************************************)
EXTENDS Integers

CONSTANTS
  Writer,  \* processes that record memories of the agent
  Name     \* names of memories

VARIABLES
  pages,   \* every revision in the history
  vouched  \* the revisions their writers were told are recorded

\* A revision is the memory it is of, its number, who wrote it, and whether it
\* takes the memory out of the live set.
Taken(revisions, m) == {l.seq : l \in {k \in revisions : k.memory = m}}

Init == pages = {} /\ vouched = {}

\* A memory is numbered one past the numbers it has taken.
Note ==
  /\ \E m \in Name, w \in Writer, retired \in BOOLEAN :
       \E next \in {1} \cup {n + 1 : n \in Taken(pages, m)} :
         /\ Taken(pages, m) = 1 .. next - 1
         /\ pages' = pages \cup {[memory |-> m, seq |-> next, by |-> w, retired |-> retired]}
  /\ UNCHANGED vouched

Vouch ==
  /\ \E l \in pages : vouched' = vouched \cup {l}
  /\ UNCHANGED pages

Next == Note \/ Vouch

Spec == Init /\ [][Next]_<<pages, vouched>>

=============================================================================
