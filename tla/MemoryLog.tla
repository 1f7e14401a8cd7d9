----------------------------- MODULE MemoryLog ------------------------------
(***************************************************************************)
(* The files one agent's memories are kept in (internal/runstate/memory.go)*)
(* A write holds the agent's lock (lockAgent), numbers the revision from   *)
(* the recorded tip where it still matches the log and from the whole      *)
(* history where it does not (tip, loadTip, rebuildTip), mends an end a    *)
(* crash tore (mendTail), rolls a full log aside (rollIfFull), appends the *)
(* line, and records the tip, whose failure nobody is told.  Readers       *)
(* (recorded) take no lock.                                                *)
(*                                                                         *)
(* A line stands for its revision and all lines are of one size: sizes are *)
(* compared as numbers of lines, and a torn end is between two of them.    *)
(* Texts, redaction, continuity and compaction are left out.               *)
(***************************************************************************)
EXTENDS Integers, Sequences, FiniteSets

CONSTANTS
  Writer,     \* processes that record memories of the agent
  Reader,     \* processes that list them
  Name,       \* names of memories
  Nobody,     \* no holder of the lock
  RollAt,     \* lines the live log is kept to
  Budget,     \* memories that may be live at once
  MaxSeq,     \* bound: revisions of one memory
  MaxFaults   \* bound: killed writers and writes that failed

ASSUME MemoryAssumption ==
  /\ RollAt \in Nat /\ Budget \in Nat /\ MaxSeq \in Nat /\ MaxFaults \in Nat
  /\ Nobody \notin Writer

VARIABLES
  log,        \* the live log: its terminated lines and its unterminated end
  archives,   \* the logs rolled aside, oldest first
  tip,        \* the recorded tip and the history it was recorded against
  aside,      \* the torn ends set aside, by the line they are a fragment of
  lock,       \* who holds the agent's lock
  at,         \* where each writer is
  heads,      \* the tip each writer works from
  draft,      \* the revision each writer is recording
  carry,      \* the lines a roll has still to carry into the fresh log
  listed,     \* the archives each reader listed, before it reads the live log
  due,        \* history: what was acknowledged when a reader began
  acked,      \* history: the revisions whose writers were told they are recorded
  faults      \* spent of the bound

files == <<log, archives, tip, aside>>
mine == <<at, heads, draft, carry>>
reading == <<listed, due>>
vars == <<files, lock, mine, reading, acked, faults>>

Line == [memory : Name, seq : Nat, by : Writer, retired : BOOLEAN]

\* What an append that was stopped leaves: a fragment, or the line without its
\* newline.
Fragment == [line : Line, whole : BOOLEAN]

File == [lines : Seq(Line), tail : SUBSET Fragment]
EmptyFile == [lines |-> <<>>, tail |-> {}]

Elements(s) == {s[i] : i \in DOMAIN s}

\* MemoryStore.read: an end that decodes counts, newline or not.
Revisions(file) ==
  Elements(file.lines) \cup {t.line : t \in {f \in file.tail : f.whole}}

History == UNION {Revisions(f) : f \in Elements(archives) \cup {log}}

\* An unterminated line that does not decode is forgiven in the live log only.
Unreadable(file) == \E t \in file.tail : ~t.whole

\* assemble, Memory.Current: the last revision of each memory.
Heads(revisions) ==
  {l \in revisions : \A k \in revisions : k.memory = l.memory => k.seq <= l.seq}

Live(current) == {l \in current : ~l.retired}

\* memoryTip.next: one past the last number the memory took.
Follows(current, l) ==
  LET of == {k \in current : k.memory = l.memory}
  IN  IF of = {} THEN l.seq = 1 ELSE \E k \in of : l.seq = k.seq + 1

\* memoryTip.record.
After(current, l) == {k \in current : k.memory # l.memory} \cup {l}

Affordable_Beforehand(current, l) == Cardinality(Live(current)) <= Budget  \* mutant

\* memoryTip.affordable: measured over what would be live afterwards.
Affordable(current, l) == Cardinality(Live(After(current, l))) <= Budget

LastLine(lines) == {lines[i] : i \in {Len(lines)} \cap DOMAIN lines}

\* memoryTipLog: what a tip is recorded against.
Stamped(current) ==
  [heads |-> current, lines |-> Len(log.lines), last |-> LastLine(log.lines),
   archives |-> Len(archives)]

NoTip == [heads |-> {}, lines |-> 0, last |-> {}, archives |-> 0]

Matches_UpToTheEnd ==                                              \* mutant
  /\ tip.archives = Len(archives)
  /\ tip.lines = Len(log.lines) /\ tip.last = LastLine(log.lines)

\* loadTip: the log has the size and the end the tip names, and as many archives.
Matches ==
  /\ tip.archives = Len(archives)
  /\ tip.lines = Len(log.lines) /\ log.tail = {}
  /\ tip.last = LastLine(log.lines)

Loaded_FromLog == IF Matches THEN tip.heads ELSE Heads(Revisions(log))  \* mutant

\* tip: the recorded one while it matches, and one rebuilt where it does not.
Loaded == IF Matches THEN tip.heads ELSE Heads(History)

\* rebuildTip refuses a history it cannot read.
Readable == Matches \/ \A f \in Elements(archives) : ~Unreadable(f)

Init ==
  /\ log = EmptyFile /\ archives = <<>> /\ tip = NoTip /\ aside = {}
  /\ lock = Nobody
  /\ at = [w \in Writer |-> "idle"]
  /\ heads = [w \in Writer |-> {}]
  /\ draft = [w \in Writer |-> {}]
  /\ carry = [w \in Writer |-> {}]
  /\ listed = [r \in Reader |-> {}]
  /\ due = [r \in Reader |-> {}]
  /\ acked = {} /\ faults = 0

-----------------------------------------------------------------------------
(* MemoryStore.Remember.                                                   *)

Goes(w, where) == at' = [at EXCEPT ![w] = where]

Leaves(w) ==
  /\ Goes(w, "idle")
  /\ heads' = [heads EXCEPT ![w] = {}]
  /\ draft' = [draft EXCEPT ![w] = {}]
  /\ carry' = [carry EXCEPT ![w] = {}]
  /\ lock' = IF lock = w THEN Nobody ELSE lock

\* The revision is numbered under the lock.  One nobody can afford, and one of
\* a history nobody can read, is refused and changes nothing.
Remember(w, m, retired) ==
  /\ at[w] = "idle" /\ lock = Nobody /\ Readable
  /\ \E seq \in 1 .. MaxSeq :
       LET l == [memory |-> m, seq |-> seq, by |-> w, retired |-> retired]
       IN  /\ Follows(Loaded, l) /\ Affordable(Loaded, l)
           /\ draft' = [draft EXCEPT ![w] = {l}]
  /\ lock' = w
  /\ heads' = [heads EXCEPT ![w] = Loaded]
  /\ Goes(w, "mending")
  /\ UNCHANGED <<files, carry, reading, acked, faults>>

Working(w, from, to) ==
  /\ at[w] = from /\ Goes(w, to)
  /\ UNCHANGED <<lock, heads, draft, reading, acked, faults>>

FindsCleanEnd_Unasked(w) ==                                        \* mutant
  /\ Working(w, "mending", "rolling")
  /\ UNCHANGED <<files, carry>>

FindsCleanEnd(w) ==
  /\ log.tail = {}
  /\ Working(w, "mending", "rolling")
  /\ UNCHANGED <<files, carry>>

\* The end is a whole revision that lacks its newline.
Terminates(w) ==
  /\ \E t \in log.tail :
       t.whole /\ log' = [lines |-> Append(log.lines, t.line), tail |-> {}]
  /\ Working(w, "mending", "rolling")
  /\ UNCHANGED <<archives, tip, aside, carry>>

SetsAside_Dropped(w) ==                                            \* mutant
  /\ \E t \in log.tail : ~t.whole
  /\ Working(w, "mending", "cutting")
  /\ UNCHANGED <<files, carry>>

\* The end is a fragment: it is copied aside first, and cut afterwards.
SetsAside(w) ==
  /\ \E t \in log.tail : ~t.whole /\ aside' = aside \cup {t.line}
  /\ Working(w, "mending", "cutting")
  /\ UNCHANGED <<log, archives, tip, carry>>

Cuts(w) ==
  /\ log' = [log EXCEPT !.tail = {}]
  /\ Working(w, "cutting", "rolling")
  /\ UNCHANGED <<archives, tip, aside, carry>>

\* rollIfFull: a log whose every line is still current is not worth rolling.
Full(w) == Len(log.lines) + 1 > RollAt /\ Cardinality(Live(heads[w])) < Len(log.lines)

KeepsLog(w) ==
  /\ ~Full(w)
  /\ Working(w, "rolling", "appending")
  /\ UNCHANGED <<files, carry>>

RollsAside(w) ==
  /\ Full(w)
  /\ archives' = Append(archives, log)
  /\ log' = EmptyFile
  /\ carry' = [carry EXCEPT ![w] = Live(heads[w])]
  /\ Working(w, "rolling", "carrying")
  /\ UNCHANGED <<tip, aside>>

\* The fresh log opens with the current revision of each live memory, line by
\* line.
Carries(w) ==
  /\ \E l \in carry[w] :
       /\ log' = [log EXCEPT !.lines = Append(@, l)]
       /\ carry' = [carry EXCEPT ![w] = @ \ {l}]
  /\ Working(w, "carrying", "carrying")
  /\ UNCHANGED <<archives, tip, aside>>

HasCarried(w) ==
  /\ carry[w] = {}
  /\ Working(w, "carrying", "appending")
  /\ UNCHANGED <<files, carry>>

Appends(w) ==
  /\ \E l \in draft[w] : log' = [log EXCEPT !.lines = Append(@, l)]
  /\ Working(w, "appending", "recording")
  /\ UNCHANGED <<archives, tip, aside, carry>>

\* The write is reported as done whether or not the tip could be recorded.
Acknowledges(w) ==
  /\ at[w] = "recording" /\ Leaves(w)
  /\ acked' = acked \cup draft[w]
  /\ UNCHANGED <<log, archives, aside, reading>>

RecordsTip(w) ==
  /\ Acknowledges(w)
  /\ \E l \in draft[w] : tip' = Stamped(After(heads[w], l))
  /\ UNCHANGED faults

TipFails(w) ==
  /\ faults < MaxFaults /\ faults' = faults + 1
  /\ Acknowledges(w)
  /\ UNCHANGED tip

\* What is being written when a writer is stopped.
Unwritten(w) ==
  CASE at[w] = "carrying" -> carry[w]
    [] at[w] = "appending" -> draft[w]
    [] OTHER -> {}

\* MemoryStore.append: a line reaches the disk in part, without its newline,
\* or whole with nobody told, as where the sync failed.
WritesPartOf(l) ==
  \/ \E whole \in BOOLEAN : log' = [log EXCEPT !.tail = {[line |-> l, whole |-> whole]}]
  \/ log' = [log EXCEPT !.lines = Append(@, l)]

\* The process is killed, which drops its lock, or a write of its own fails,
\* which it reports; either way the rest of the write is not made.
Stops(w) ==
  /\ at[w] # "idle" /\ faults < MaxFaults /\ faults' = faults + 1
  /\ Leaves(w)
  /\ \/ \E l \in Unwritten(w) : WritesPartOf(l)
     \/ UNCHANGED log
  /\ UNCHANGED <<archives, tip, aside, reading, acked>>

-----------------------------------------------------------------------------
(* MemoryStore.recorded, for the listings: the archives, then the live log.*)

Lists(r) ==
  /\ listed[r] = {}
  /\ listed' = [listed EXCEPT ![r] = {archives}]
  /\ due' = [due EXCEPT ![r] = acked]
  /\ UNCHANGED <<files, lock, mine, acked, faults>>

Found_InLog(r) == Revisions(log)                                   \* mutant
Found(r) == UNION {Revisions(f) : f \in (UNION {Elements(a) : a \in listed[r]}) \cup {log}}

Reads(r) ==
  /\ listed[r] # {}
  /\ listed' = [listed EXCEPT ![r] = {}]
  /\ due' = [due EXCEPT ![r] = {}]
  /\ UNCHANGED <<files, lock, mine, acked, faults>>

-----------------------------------------------------------------------------
Step(w) ==
  \/ FindsCleanEnd(w) \/ Terminates(w) \/ SetsAside(w) \/ Cuts(w)
  \/ KeepsLog(w) \/ RollsAside(w) \/ Carries(w) \/ HasCarried(w)
  \/ Appends(w) \/ RecordsTip(w)

Next ==
  \/ \E w \in Writer, m \in Name, retired \in BOOLEAN : Remember(w, m, retired)
  \/ \E w \in Writer : Step(w) \/ TipFails(w) \/ Stops(w)
  \/ \E r \in Reader : Lists(r) \/ Reads(r)

Spec == Init /\ [][Next]_vars

-----------------------------------------------------------------------------
Places == {"idle", "mending", "cutting", "rolling", "carrying", "appending", "recording"}

Tip == [heads : SUBSET Line, lines : Nat, last : SUBSET Line, archives : Nat]

\* The types, and that only the holder of the lock is in the middle of a write.
TypeOK ==
  /\ log \in File /\ archives \in Seq(File) /\ tip \in Tip /\ aside \subseteq Line
  /\ lock \in Writer \cup {Nobody}
  /\ at \in [Writer -> Places]
  /\ heads \in [Writer -> SUBSET Line]
  /\ draft \in [Writer -> SUBSET Line]
  /\ carry \in [Writer -> SUBSET Line]
  /\ \A w \in Writer : lock = w <=> at[w] # "idle"
  /\ acked \subseteq Line /\ faults \in Nat
  /\ listed \in [Reader -> SUBSET Seq(File)]
  /\ due \in [Reader -> SUBSET Line]

\* A tip the next write would trust says what the whole history says, whatever
\* crashed, failed or rolled since it was recorded: memoryTip's "only ever
\* trusted while it matches".
TipIsTrusted == Matches => tip.heads = Heads(History)

\* No archive ends in a torn line (mendTail is called before rollIfFull): the
\* next rebuild would be refused, and the agent locked out of its memory.
ArchivesAreMended == \A f \in Elements(archives) : ~Unreadable(f)

\* What the agent knows stays within the budget, also when a revision whose
\* writer was told it failed is on the disk after all.
LiveWithinBudget == Cardinality(Live(Heads(History))) <= Budget

\* A fragment leaves the log only once a copy of it is set aside.
FragmentsAreKept ==
  [][\A t \in log.tail : ~t.whole /\ t \notin log'.tail => t.line \in aside']_vars

\* A reader that no roll overlaps finds everything acknowledged before it began.
UndisturbedReads ==
  [][\A r \in Reader : Reads(r) /\ listed[r] = {archives} => due[r] \subseteq Found(r)]_vars

\* The files implement the abstract history: it only grows, each memory is
\* numbered from one without a gap, no number is given twice, and nothing
\* acknowledged is lost.
Book == INSTANCE Notebook WITH pages <- History, vouched <- acked
ImplementsNotebook == Book!Spec

=============================================================================
