-------------------------- MODULE MemoryLogProofs ---------------------------
(***************************************************************************)
(* What MemoryLog keeps for every number of writers, readers, memories and *)
(* faults: its types and the exclusion of writers, that a tip that matches *)
(* says what the history says, that archives are mended, that the live set *)
(* stays within its budget, and that the files implement Notebook.         *)
(*                                                                         *)
(* The invariant says what every writer knows while it holds the lock: the *)
(* heads it works from are those of the history on the disk, its draft     *)
(* follows them, and from the mending on the log has a clean end.          *)
(***************************************************************************)
EXTENDS MemoryLog, FiniteSetTheorems, TLAPS

\* The numbers a set of revisions holds of one memory.
Numbers(H, m) == {l.seq : l \in {k \in H : k.memory = m}}

Numbered(H) == \A m \in Name : \E n \in Nat : Numbers(H, m) = 1 .. n

OneEach(H) == \A k, l \in H : k.memory = l.memory /\ k.seq = l.seq => k = l

-----------------------------------------------------------------------------
(* Revisions and their heads.                                              *)

\* The number that follows the heads is the first one not taken.
LEMMA NextNumber ==
  ASSUME NEW H \in SUBSET Line, Numbered(H), NEW l \in Line, Follows(Heads(H), l)
  PROVE  Numbers(H, l.memory) = 1 .. l.seq - 1 /\ l.seq >= 1
<1>1. l.memory \in Name /\ l.seq \in Nat /\ \A k \in H : k.memory \in Name /\ k.seq \in Nat
  BY DEF Line
<1>2. PICK n \in Nat : Numbers(H, l.memory) = 1 .. n
  BY <1>1 DEF Numbered
<1>3. \A k \in H : k.memory = l.memory => k.seq \in 1 .. n
  BY <1>2 DEF Numbers
<1>. DEFINE of == {k \in Heads(H) : k.memory = l.memory}
<1>4. IF of = {} THEN l.seq = 1 ELSE \E k \in of : l.seq = k.seq + 1
  BY DEF Follows
<1>5. CASE n = 0
  <2>1. of = {}
    BY <1>3, <1>5 DEF Heads
  <2>. QED
    BY <1>2, <1>4, <1>5, <2>1
<1>6. CASE n # 0
  <2>1. n \in Numbers(H, l.memory)
    BY <1>2, <1>6
  <2>2. PICK h \in H : h.memory = l.memory /\ h.seq = n
    BY <2>1 DEF Numbers
  <2>3. h \in of
    BY <1>3, <2>2 DEF Heads
  <2>4. PICK k \in of : l.seq = k.seq + 1
    BY <1>4, <2>3
  <2>5. k \in H /\ k.seq >= n /\ k.seq \in 1 .. n
    BY <1>3, <2>2, <2>4 DEF Heads
  <2>. QED
    BY <1>2, <2>4, <2>5
<1>. QED
  BY <1>5, <1>6

\* Recording a revision that follows keeps the numbering, and its heads are
\* what memoryTip.record says.
LEMMA Recording ==
  ASSUME NEW H \in SUBSET Line, Numbered(H), OneEach(H), NEW l \in Line,
         Follows(Heads(H), l)
  PROVE  /\ l \notin H
         /\ Numbered(H \cup {l}) /\ OneEach(H \cup {l})
         /\ Heads(H \cup {l}) = After(Heads(H), l)
<1>1. Numbers(H, l.memory) = 1 .. l.seq - 1 /\ l.seq >= 1
  BY NextNumber
<1>2. l.memory \in Name /\ l.seq \in Nat /\ \A k \in H : k.memory \in Name /\ k.seq \in Nat
  BY DEF Line
<1>3. \A k \in H : k.memory = l.memory => k.seq < l.seq
  <2>. SUFFICES ASSUME NEW k \in H, k.memory = l.memory PROVE k.seq < l.seq
    OBVIOUS
  <2>1. k.seq \in 1 .. l.seq - 1
    BY <1>1 DEF Numbers
  <2>. QED
    BY <1>2, <2>1
<1>4. l \notin H
  BY <1>2, <1>3
<1>5. Numbered(H \cup {l})
  <2>. SUFFICES ASSUME NEW m \in Name PROVE \E n \in Nat : Numbers(H \cup {l}, m) = 1 .. n
    BY DEF Numbered
  <2>1. CASE m = l.memory
    <3>1. Numbers(H \cup {l}, m) = Numbers(H, m) \cup {l.seq}
      BY <2>1 DEF Numbers
    <3>2. (1 .. l.seq - 1) \cup {l.seq} = 1 .. l.seq
      BY <1>1, <1>2
    <3>. QED
      BY <1>1, <1>2, <2>1, <3>1, <3>2
  <2>2. CASE m # l.memory
    <3>1. Numbers(H \cup {l}, m) = Numbers(H, m)
      BY <2>2 DEF Numbers
    <3>. QED
      BY <3>1 DEF Numbered
  <2>. QED
    BY <2>1, <2>2
<1>6. OneEach(H \cup {l})
  BY <1>2, <1>3 DEF OneEach
<1>7. Heads(H \cup {l}) = After(Heads(H), l)
  <2>1. \A k \in H \cup {l} : k \in Heads(H \cup {l}) <=> k \in After(Heads(H), l)
    BY <1>2, <1>3, <1>4 DEF Heads, After
  <2>2. Heads(H \cup {l}) \subseteq H \cup {l} /\ After(Heads(H), l) \subseteq H \cup {l}
    BY DEF Heads, After
  <2>. QED
    BY <2>1, <2>2
<1>. QED
  BY <1>4, <1>5, <1>6, <1>7

LEMMA AppendedElements ==
  ASSUME NEW S, NEW s \in Seq(S), NEW x
  PROVE  Elements(Append(s, x)) = Elements(s) \cup {x} /\ Len(Append(s, x)) = Len(s) + 1
<1>1. Len(s) \in Nat /\ DOMAIN s = 1 .. Len(s)
  OBVIOUS
<1>2. DOMAIN Append(s, x) = 1 .. Len(s) + 1 /\ Len(Append(s, x)) = Len(s) + 1
  OBVIOUS
<1>3. \A i \in 1 .. Len(s) : Append(s, x)[i] = s[i]
  OBVIOUS
<1>4. Append(s, x)[Len(s) + 1] = x
  OBVIOUS
<1>5. 1 .. Len(s) + 1 = (1 .. Len(s)) \cup {Len(s) + 1}
  BY <1>1
<1>. QED
  BY <1>1, <1>2, <1>3, <1>4, <1>5 DEF Elements

-----------------------------------------------------------------------------
(* The invariant.                                                          *)

OfArchives == UNION {Revisions(f) : f \in Elements(archives)}

\* What is on the disk but for an unterminated end of the live log.
Settled == OfArchives \cup Elements(log.lines)

\* The types of the files; an unterminated end is one, and of the live log only.
FilesOK ==
  /\ log.lines \in Seq(Line) /\ log.tail \in SUBSET Fragment /\ log = [lines |-> log.lines, tail |-> log.tail]
  /\ \A t, u \in log.tail : t = u
  /\ archives \in Seq(File)
  /\ \A f \in Elements(archives) : f.tail = {}

HistoryOK ==
  /\ Numbered(History) /\ OneEach(History)
  /\ Cardinality(Live(Heads(History))) <= Budget
  /\ acked \subseteq History

\* Since a tip was recorded the log was rolled, or has grown, or is what it was.
TipOK ==
  /\ tip \in Tip
  /\ tip.archives <= Len(archives)
  /\ tip.archives = Len(archives) =>
       /\ tip.lines <= Len(log.lines)
       /\ tip.lines = Len(log.lines) => tip.heads = Heads(Settled)

\* Who is in the middle of a write holds the lock.
LockOK ==
  /\ lock \in Writer \cup {Nobody}
  /\ at \in [Writer -> Places]
  /\ heads \in [Writer -> SUBSET Line]
  /\ draft \in [Writer -> SUBSET Line]
  /\ carry \in [Writer -> SUBSET Line]
  /\ \A w \in Writer : lock = w <=> at[w] # "idle"

Drafting == {"mending", "cutting", "rolling", "carrying", "appending"}

\* What a writer knows of the files, by where it is.
KnowsFiles(w) ==
  /\ at[w] \in Drafting =>
       /\ heads[w] = Heads(History)
       /\ \E l \in Line : draft[w] = {l} /\ Follows(heads[w], l) /\ Affordable(heads[w], l)
  /\ at[w] = "recording" =>
       \E l \in History : draft[w] = {l} /\ After(heads[w], l) = Heads(History)
  /\ at[w] \in {"rolling", "carrying", "appending", "recording"} => log.tail = {}
  /\ at[w] = "cutting" => \A t \in log.tail : ~t.whole
  /\ at[w] = "carrying" => carry[w] \subseteq History

RestOK ==
  /\ aside \subseteq Line /\ faults \in Nat
  /\ listed \in [Reader -> SUBSET Seq(File)]
  /\ due \in [Reader -> SUBSET Line]

Inv ==
  /\ FilesOK /\ HistoryOK /\ TipOK /\ LockOK /\ RestOK
  /\ \A w \in Writer : KnowsFiles(w)

LEMMA HistoryParts ==
  /\ History = OfArchives \cup Revisions(log)
  /\ History = Settled \cup {t.line : t \in {f \in log.tail : f.whole}}
  /\ log.tail = {} => History = Settled
BY DEF History, OfArchives, Settled, Revisions

LEMMA NextHistoryParts ==
  /\ History' = OfArchives' \cup Revisions(log')
  /\ History' = Settled' \cup {t.line : t \in {f \in log'.tail : f.whole}}
  /\ log'.tail = {} => History' = Settled'
<1>1. History' = OfArchives' \cup Revisions(log')
  BY DEF History, OfArchives, Revisions
<1>2. Revisions(log') = Elements(log'.lines) \cup {t.line : t \in {f \in log'.tail : f.whole}}
  BY DEF Revisions
<1>3. Settled' = OfArchives' \cup Elements(log'.lines)
  BY DEF Settled
<1>. QED
  BY <1>1, <1>2, <1>3

LEMMA HistoryOfLines ==
  ASSUME FilesOK
  PROVE  History \in SUBSET Line /\ Settled \in SUBSET Line
<1>1. \A f : f.lines \in Seq(Line) => Elements(f.lines) \subseteq Line
  BY DEF Elements
<1>2. \A f \in Elements(archives) : f \in File
  BY DEF FilesOK, Elements
<1>3. \A f \in File : Revisions(f) \subseteq Line
  BY <1>1 DEF File, Revisions, Fragment
<1>4. OfArchives \subseteq Line
  BY <1>2, <1>3 DEF OfArchives
<1>5. log \in File
  BY DEF FilesOK, File
<1>. QED
  BY <1>1, <1>3, <1>4, <1>5, HistoryParts DEF Settled, File

\* A matching tip is that of the history.
LEMMA MatchingTip ==
  ASSUME FilesOK, TipOK
  PROVE  Matches => tip.heads = Heads(History)
BY HistoryParts DEF Matches, TipOK

LEMMA LoadedHeads ==
  ASSUME FilesOK, TipOK
  PROVE  Loaded = Heads(History)
BY MatchingTip DEF Loaded

LEMMA InitInv == Init => Inv
<1>. SUFFICES ASSUME Init PROVE Inv
  OBVIOUS
<1>1. Elements(<<>>) = {}
  BY DEF Elements
<1>2. log.lines = <<>> /\ log.tail = {} /\ log = [lines |-> log.lines, tail |-> log.tail]
  BY DEF Init, EmptyFile
<1>3. History = {} /\ Settled = {}
  BY <1>1, <1>2, HistoryParts DEF Init, OfArchives, Settled
<1>4. Heads({}) = {} /\ Live({}) = {} /\ Cardinality({}) = 0
  BY FS_EmptySet DEF Heads, Live
<1>5. HistoryOK
  <2>1. \A m \in Name : Numbers({}, m) = 1 .. 0
    BY DEF Numbers
  <2>2. Numbered(History) /\ OneEach(History)
    BY <1>3, <2>1 DEF Numbered, OneEach
  <2>3. Live(Heads(History)) = {}
    BY <1>3, <1>4
  <2>4. Cardinality(Live(Heads(History))) <= Budget
    BY <1>4, <2>3, MemoryAssumption
  <2>. QED
    BY <2>2, <2>4 DEF HistoryOK, Init
<1>6. FilesOK
  BY <1>1, <1>2 DEF Init, FilesOK
<1>7. TipOK
  BY <1>2, <1>3, <1>4 DEF Init, NoTip, TipOK, Tip
<1>8. LockOK /\ RestOK
  BY MemoryAssumption DEF Init, LockOK, RestOK, Places
<1>9. \A w \in Writer : KnowsFiles(w)
  BY DEF Init, KnowsFiles, Drafting
<1>. QED
  BY <1>5, <1>6, <1>7, <1>8, <1>9 DEF Inv

-----------------------------------------------------------------------------
(* What a step does to the files.                                          *)

\* The files' part of the invariant depends on log, archives and tip alone.
LEMMA FilesKept ==
  ASSUME UNCHANGED <<log, archives>>
  PROVE  History' = History /\ Settled' = Settled
BY DEF History, Settled, OfArchives, Revisions

\* A line appended to a log with a clean end.
LEMMA LineAppended ==
  ASSUME FilesOK, log.tail = {}, NEW l \in Line,
         log' = [log EXCEPT !.lines = Append(@, l)], archives' = archives
  PROVE  /\ FilesOK' /\ log'.tail = {}
         /\ History' = History \cup {l}
         /\ Settled' = Settled \cup {l}
         /\ Len(log'.lines) = Len(log.lines) + 1
<1>1. log'.lines = Append(log.lines, l) /\ log'.tail = {}
  BY DEF FilesOK
<1>2. log' = [lines |-> log'.lines, tail |-> log'.tail]
  BY DEF FilesOK
<1>3. Elements(log'.lines) = Elements(log.lines) \cup {l} /\ Len(log'.lines) = Len(log.lines) + 1
  BY <1>1, AppendedElements DEF FilesOK
<1>4. FilesOK'
  BY <1>1, <1>2 DEF FilesOK
<1>5. OfArchives' = OfArchives
  BY DEF OfArchives, Revisions
<1>6. Settled' = Settled \cup {l}
  BY <1>3, <1>5 DEF Settled
<1>7. History = Settled /\ History' = Settled'
  BY <1>1, HistoryParts, NextHistoryParts
<1>. QED
  BY <1>1, <1>3, <1>4, <1>6, <1>7

\* A whole revision at the end is given its newline.
LEMMA EndTerminated ==
  ASSUME FilesOK, NEW t \in log.tail, t.whole,
         log' = [lines |-> Append(log.lines, t.line), tail |-> {}], archives' = archives
  PROVE  /\ FilesOK' /\ log'.tail = {}
         /\ History' = History
         /\ Len(log'.lines) = Len(log.lines) + 1
<1>1. t.line \in Line
  BY DEF FilesOK, Fragment
<1>2. Elements(log'.lines) = Elements(log.lines) \cup {t.line} /\ Len(log'.lines) = Len(log.lines) + 1
  BY AppendedElements DEF FilesOK
<1>3. FilesOK'
  BY <1>1 DEF FilesOK
<1>4. OfArchives' = OfArchives
  BY DEF OfArchives, Revisions
<1>5. {u.line : u \in {f \in log.tail : f.whole}} = {t.line}
  BY DEF FilesOK
<1>6. History = Settled \cup {t.line}
  BY <1>5, HistoryParts
<1>7. History' = Settled'
  BY NextHistoryParts
<1>. QED
  BY <1>2, <1>3, <1>4, <1>6, <1>7 DEF Settled

\* A fragment at the end is cut.
LEMMA EndCut ==
  ASSUME FilesOK, \A t \in log.tail : ~t.whole,
         log' = [log EXCEPT !.tail = {}], archives' = archives
  PROVE  /\ FilesOK' /\ log'.tail = {} /\ log'.lines = log.lines
         /\ History' = History /\ Settled' = Settled
<1>1. log'.tail = {} /\ log'.lines = log.lines /\ FilesOK'
  BY DEF FilesOK
<1>2. OfArchives' = OfArchives
  BY DEF OfArchives, Revisions
<1>3. Settled' = Settled
  BY <1>1, <1>2 DEF Settled
<1>4. History = Settled
  BY HistoryParts
<1>5. History' = Settled'
  BY <1>1, NextHistoryParts
<1>. QED
  BY <1>1, <1>3, <1>4, <1>5

\* What an append that was stopped leaves of a line.
LEMMA PartWritten ==
  ASSUME FilesOK, log.tail = {}, NEW l \in Line, NEW whole \in BOOLEAN,
         log' = [log EXCEPT !.tail = {[line |-> l, whole |-> whole]}], archives' = archives
  PROVE  /\ FilesOK' /\ log'.lines = log.lines /\ Settled' = Settled
         /\ History' = History \/ History' = History \cup {l}
<1>1. log'.tail = {[line |-> l, whole |-> whole]} /\ log'.lines = log.lines
  BY DEF FilesOK
<1>2. FilesOK'
  <2>1. log'.tail \in SUBSET Fragment
    BY <1>1 DEF Fragment
  <2>2. log' = [lines |-> log'.lines, tail |-> log'.tail]
    BY DEF FilesOK
  <2>3. \A t, u \in log'.tail : t = u
    BY <1>1
  <2>. QED
    BY <1>1, <2>1, <2>2, <2>3 DEF FilesOK
<1>3. OfArchives' = OfArchives
  BY DEF OfArchives, Revisions
<1>4. Settled' = Settled
  BY <1>1, <1>3 DEF Settled
<1>5. History = Settled
  BY HistoryParts
<1>6. History' = Settled' \cup {t.line : t \in {f \in log'.tail : f.whole}}
  BY NextHistoryParts
<1>7. PICK t : t = [line |-> l, whole |-> whole]
  OBVIOUS
<1>8. t.line = l /\ t.whole = whole /\ log'.tail = {t}
  BY <1>1, <1>7
<1>9. CASE whole
  <2>1. {f \in log'.tail : f.whole} = {t}
    BY <1>8, <1>9
  <2>2. {u.line : u \in {f \in log'.tail : f.whole}} = {l}
    BY <1>8, <2>1
  <2>. QED
    BY <1>1, <1>2, <1>4, <1>5, <1>6, <2>2
<1>10. CASE ~whole
  <2>1. {f \in log'.tail : f.whole} = {}
    BY <1>8, <1>10
  <2>2. {u.line : u \in {f \in log'.tail : f.whole}} = {}
    BY <2>1
  <2>. QED
    BY <1>1, <1>2, <1>4, <1>5, <1>6, <2>2
<1>. QED
  BY <1>9, <1>10

\* The log is rolled aside.
LEMMA LogRolled ==
  ASSUME FilesOK, log.tail = {}, archives' = Append(archives, log), log' = EmptyFile
  PROVE  /\ FilesOK' /\ log'.tail = {} /\ History' = History
         /\ Len(archives') = Len(archives) + 1
<1>1. log \in File
  BY DEF FilesOK, File
<1>2. Elements(archives') = Elements(archives) \cup {log} /\ Len(archives') = Len(archives) + 1
  BY AppendedElements DEF FilesOK
<1>3. log'.lines = <<>> /\ log'.tail = {}
  BY DEF EmptyFile
<1>4. FilesOK'
  BY <1>1, <1>2, <1>3 DEF FilesOK, EmptyFile
<1>5. OfArchives' = OfArchives \cup Revisions(log)
  BY <1>2 DEF OfArchives, Revisions
<1>6. Revisions(EmptyFile) = {}
  BY DEF Revisions, EmptyFile, Elements
<1>7. History' = OfArchives' \cup Revisions(log')
  BY NextHistoryParts
<1>. QED
  BY <1>2, <1>3, <1>4, <1>5, <1>6, <1>7, HistoryParts

-----------------------------------------------------------------------------
(* What a step does to the parts of the invariant.                         *)

LEMMA KeepsHistory ==
  ASSUME HistoryOK, History' = History, acked' = acked
  PROVE  HistoryOK'
BY DEF HistoryOK

\* A draft reaches the disk, acknowledged or not.
LEMMA GrowsHistory ==
  ASSUME HistoryOK, History \in SUBSET Line, NEW l \in Line, acked' = acked,
         Follows(Heads(History), l), Affordable(Heads(History), l),
         History' = History \cup {l}
  PROVE  HistoryOK' /\ Heads(History') = After(Heads(History), l)
<1>1. /\ Numbered(History \cup {l}) /\ OneEach(History \cup {l})
      /\ Heads(History \cup {l}) = After(Heads(History), l)
  BY Recording DEF HistoryOK
<1>2. Cardinality(Live(Heads(History \cup {l}))) <= Budget
  BY <1>1 DEF Affordable
<1>. QED
  BY <1>1, <1>2 DEF HistoryOK

LEMMA KeepsTip ==
  ASSUME TipOK, UNCHANGED <<tip, archives>>, log'.lines = log.lines, Settled' = Settled
  PROVE  TipOK'
BY DEF TipOK

LEMMA OutgrowsTip ==
  ASSUME TipOK, FilesOK, tip' = tip,
         \/ archives' = archives /\ Len(log'.lines) = Len(log.lines) + 1
         \/ Len(archives') = Len(archives) + 1
  PROVE  TipOK'
<1>1. Len(log.lines) \in Nat /\ Len(archives) \in Nat
  BY DEF FilesOK
<1>2. tip.lines \in Nat /\ tip.archives \in Nat
  BY DEF TipOK, Tip
<1>. QED
  BY <1>1, <1>2 DEF TipOK

\* A writer that is not in a write claims nothing.
LEMMA IdleKnows ==
  ASSUME NEW v, at[v] = "idle"
  PROVE  KnowsFiles(v)
BY DEF KnowsFiles, Drafting

LEMMA NextIdleKnows ==
  ASSUME NEW v, at'[v] = "idle"
  PROVE  KnowsFiles(v)'
BY DEF KnowsFiles, Drafting

\* A step of the holder leaves the others out of their writes.
LEMMA WorkingStep ==
  ASSUME LockOK, NEW w \in Writer, NEW from, NEW to \in Places \ {"idle"}, from # "idle",
         Working(w, from, to), carry' \in [Writer -> SUBSET Line]
  PROVE  /\ LockOK' /\ at[w] = from /\ at'[w] = to
         /\ heads'[w] = heads[w] /\ draft'[w] = draft[w]
         /\ \A v \in Writer : v # w => KnowsFiles(v)'
<1>1. at[w] = from /\ at' = [at EXCEPT ![w] = to] /\ UNCHANGED <<lock, heads, draft>>
  BY DEF Working, Goes
<1>2. at'[w] = to /\ \A v \in Writer : v # w => at'[v] = at[v]
  BY <1>1 DEF LockOK
<1>3. lock = w
  BY <1>1 DEF LockOK
<1>4. \A v \in Writer : v # w => at'[v] = "idle"
  BY <1>2, <1>3 DEF LockOK
<1>5. LockOK'
  <2>1. at' \in [Writer -> Places]
    BY <1>1 DEF LockOK
  <2>2. \A v \in Writer : lock' = v <=> at'[v] # "idle"
    BY <1>1, <1>2, <1>3, <1>4
  <2>. QED
    BY <1>1, <2>1, <2>2 DEF LockOK
<1>. QED
  BY <1>1, <1>2, <1>4, <1>5, NextIdleKnows

LEMMA LeavingStep ==
  ASSUME LockOK, NEW w \in Writer, at[w] # "idle", Leaves(w)
  PROVE  LockOK' /\ \A v \in Writer : KnowsFiles(v)'
<1>1. lock = w /\ lock' = Nobody
  BY DEF LockOK, Leaves
<1>2. \A v \in Writer : at'[v] = "idle"
  BY <1>1 DEF LockOK, Leaves, Goes
<1>3. LockOK'
  <2>1. at' \in [Writer -> Places]
    BY DEF LockOK, Leaves, Goes, Places
  <2>2. heads' \in [Writer -> SUBSET Line] /\ draft' \in [Writer -> SUBSET Line]
        /\ carry' \in [Writer -> SUBSET Line]
    BY DEF LockOK, Leaves
  <2>3. \A v \in Writer : lock' = v <=> at'[v] # "idle"
    BY <1>1, <1>2, MemoryAssumption
  <2>. QED
    BY <1>1, <2>1, <2>2, <2>3 DEF LockOK
<1>. QED
  BY <1>2, <1>3, NextIdleKnows

-----------------------------------------------------------------------------
(* One lemma for each action.                                              *)

LEMMA RememberInv ==
  ASSUME Inv, NEW w \in Writer, NEW m \in Name, NEW retired \in BOOLEAN, Remember(w, m, retired)
  PROVE  Inv'
<1>1. FilesOK /\ HistoryOK /\ TipOK /\ LockOK /\ RestOK
  BY DEF Inv
<1>2. /\ UNCHANGED <<log, archives, tip, aside, acked, faults, carry, listed, due>>
      /\ at[w] = "idle" /\ lock = Nobody /\ lock' = w
      /\ at' = [at EXCEPT ![w] = "mending"] /\ heads' = [heads EXCEPT ![w] = Loaded]
  BY DEF Remember, files, reading, Goes
<1>3. PICK l : /\ l \in Line /\ Follows(Loaded, l) /\ Affordable(Loaded, l)
               /\ draft' = [draft EXCEPT ![w] = {l}]
  <2>1. PICK seq \in 1 .. MaxSeq :
          LET l == [memory |-> m, seq |-> seq, by |-> w, retired |-> retired]
          IN  /\ Follows(Loaded, l) /\ Affordable(Loaded, l)
              /\ draft' = [draft EXCEPT ![w] = {l}]
    BY DEF Remember
  <2>2. [memory |-> m, seq |-> seq, by |-> w, retired |-> retired] \in Line
    BY MemoryAssumption DEF Line
  <2>. QED
    BY <2>1, <2>2
<1>4. Loaded = Heads(History) /\ History \in SUBSET Line
  BY <1>1, LoadedHeads, HistoryOfLines
<1>5. History' = History /\ Settled' = Settled
  BY <1>2, FilesKept
<1>6. FilesOK' /\ HistoryOK' /\ TipOK' /\ RestOK'
  <2>1. HistoryOK' /\ TipOK'
    BY <1>1, <1>2, <1>5, KeepsHistory, KeepsTip
  <2>2. FilesOK' /\ RestOK'
    BY <1>1, <1>2 DEF FilesOK, RestOK
  <2>. QED
    BY <2>1, <2>2
<1>7. \A v \in Writer : v # w => at'[v] = "idle"
  BY <1>1, <1>2, MemoryAssumption DEF LockOK
<1>8. at'[w] = "mending" /\ heads'[w] = Heads(History) /\ draft'[w] = {l}
  BY <1>1, <1>2, <1>3, <1>4 DEF LockOK
<1>9. LockOK'
  <2>1. at' \in [Writer -> Places]
    BY <1>1, <1>2 DEF LockOK, Places
  <2>2. heads' \in [Writer -> SUBSET Line]
    BY <1>1, <1>2, <1>4 DEF LockOK, Heads
  <2>3. draft' \in [Writer -> SUBSET Line]
    BY <1>1, <1>3 DEF LockOK
  <2>4. \A v \in Writer : lock' = v <=> at'[v] # "idle"
    BY <1>2, <1>7, <1>8
  <2>. QED
    BY <1>1, <1>2, <2>1, <2>2, <2>3, <2>4 DEF LockOK
<1>10. KnowsFiles(w)'
  BY <1>3, <1>4, <1>5, <1>8 DEF KnowsFiles
<1>. QED
  BY <1>6, <1>7, <1>9, <1>10, NextIdleKnows DEF Inv

LEMMA FindsCleanEndInv ==
  ASSUME Inv, NEW w \in Writer, FindsCleanEnd(w)
  PROVE  Inv'
<1>1. FilesOK /\ HistoryOK /\ TipOK /\ LockOK /\ RestOK /\ KnowsFiles(w)
  BY DEF Inv
<1>2. /\ UNCHANGED <<log, archives, tip, aside, carry, acked, faults, listed, due>>
      /\ log.tail = {}
  BY DEF FindsCleanEnd, Working, files, reading
<1>3. History' = History /\ Settled' = Settled
  BY <1>2, FilesKept
<1>4. FilesOK' /\ HistoryOK' /\ TipOK' /\ RestOK'
  <2>1. HistoryOK' /\ TipOK'
    BY <1>1, <1>2, <1>3, KeepsHistory, KeepsTip
  <2>2. FilesOK' /\ RestOK'
    BY <1>1, <1>2 DEF FilesOK, RestOK
  <2>. QED
    BY <2>1, <2>2
<1>5. /\ LockOK' /\ at[w] = "mending" /\ at'[w] = "rolling"
      /\ heads'[w] = heads[w] /\ draft'[w] = draft[w]
      /\ \A v \in Writer : v # w => KnowsFiles(v)'
  BY <1>1, <1>2, WorkingStep DEF FindsCleanEnd, LockOK, Places
<1>6. KnowsFiles(w)'
  BY <1>1, <1>2, <1>3, <1>5 DEF KnowsFiles, Drafting
<1>. QED
  BY <1>4, <1>5, <1>6 DEF Inv

LEMMA TerminatesInv ==
  ASSUME Inv, NEW w \in Writer, Terminates(w)
  PROVE  Inv'
<1>1. FilesOK /\ HistoryOK /\ TipOK /\ LockOK /\ RestOK /\ KnowsFiles(w)
  BY DEF Inv
<1>2. UNCHANGED <<archives, tip, aside, carry, acked, faults, listed, due>>
  BY DEF Terminates, Working, reading
<1>3. PICK t \in log.tail :
        t.whole /\ log' = [lines |-> Append(log.lines, t.line), tail |-> {}]
  BY DEF Terminates
<1>4. /\ FilesOK' /\ log'.tail = {} /\ History' = History
      /\ Len(log'.lines) = Len(log.lines) + 1
  BY <1>1, <1>2, <1>3, EndTerminated
<1>5. HistoryOK' /\ TipOK' /\ RestOK'
  <2>1. HistoryOK' /\ TipOK'
    BY <1>1, <1>2, <1>4, KeepsHistory, OutgrowsTip
  <2>2. RestOK'
    BY <1>1, <1>2 DEF RestOK
  <2>. QED
    BY <2>1, <2>2
<1>6. /\ LockOK' /\ at[w] = "mending" /\ at'[w] = "rolling"
      /\ heads'[w] = heads[w] /\ draft'[w] = draft[w]
      /\ \A v \in Writer : v # w => KnowsFiles(v)'
  BY <1>1, <1>2, WorkingStep DEF Terminates, LockOK, Places
<1>7. KnowsFiles(w)'
  BY <1>1, <1>4, <1>6 DEF KnowsFiles, Drafting
<1>. QED
  BY <1>4, <1>5, <1>6, <1>7 DEF Inv

LEMMA SetsAsideInv ==
  ASSUME Inv, NEW w \in Writer, SetsAside(w)
  PROVE  Inv'
<1>1. FilesOK /\ HistoryOK /\ TipOK /\ LockOK /\ RestOK /\ KnowsFiles(w)
  BY DEF Inv
<1>2. UNCHANGED <<log, archives, tip, carry, acked, faults, listed, due>>
  BY DEF SetsAside, Working, reading
<1>3. PICK t \in log.tail : ~t.whole /\ aside' = aside \cup {t.line}
  BY DEF SetsAside
<1>4. History' = History /\ Settled' = Settled
  BY <1>2, FilesKept
<1>5. FilesOK' /\ HistoryOK' /\ TipOK' /\ RestOK'
  <2>1. HistoryOK' /\ TipOK'
    BY <1>1, <1>2, <1>4, KeepsHistory, KeepsTip
  <2>2. t.line \in Line
    BY <1>1, <1>3 DEF FilesOK, Fragment
  <2>3. FilesOK' /\ RestOK'
    BY <1>1, <1>2, <1>3, <2>2 DEF FilesOK, RestOK
  <2>. QED
    BY <2>1, <2>3
<1>6. /\ LockOK' /\ at[w] = "mending" /\ at'[w] = "cutting"
      /\ heads'[w] = heads[w] /\ draft'[w] = draft[w]
      /\ \A v \in Writer : v # w => KnowsFiles(v)'
  BY <1>1, <1>2, WorkingStep DEF SetsAside, LockOK, Places
<1>7. \A u \in log'.tail : ~u.whole
  BY <1>1, <1>2, <1>3 DEF FilesOK
<1>8. KnowsFiles(w)'
  BY <1>1, <1>2, <1>4, <1>6, <1>7 DEF KnowsFiles, Drafting
<1>. QED
  BY <1>5, <1>6, <1>8 DEF Inv

LEMMA CutsInv ==
  ASSUME Inv, NEW w \in Writer, Cuts(w)
  PROVE  Inv'
<1>1. FilesOK /\ HistoryOK /\ TipOK /\ LockOK /\ RestOK /\ KnowsFiles(w)
  BY DEF Inv
<1>2. /\ UNCHANGED <<archives, tip, aside, carry, acked, faults, listed, due>>
      /\ log' = [log EXCEPT !.tail = {}]
  BY DEF Cuts, Working, reading
<1>3. /\ LockOK' /\ at[w] = "cutting" /\ at'[w] = "rolling"
      /\ heads'[w] = heads[w] /\ draft'[w] = draft[w]
      /\ \A v \in Writer : v # w => KnowsFiles(v)'
  BY <1>1, <1>2, WorkingStep DEF Cuts, LockOK, Places
<1>4. /\ FilesOK' /\ log'.tail = {} /\ log'.lines = log.lines
      /\ History' = History /\ Settled' = Settled
  BY <1>1, <1>2, <1>3, EndCut DEF KnowsFiles
<1>5. HistoryOK' /\ TipOK' /\ RestOK'
  <2>1. HistoryOK' /\ TipOK'
    BY <1>1, <1>2, <1>4, KeepsHistory, KeepsTip
  <2>2. RestOK'
    BY <1>1, <1>2 DEF RestOK
  <2>. QED
    BY <2>1, <2>2
<1>6. KnowsFiles(w)'
  BY <1>1, <1>3, <1>4 DEF KnowsFiles, Drafting
<1>. QED
  BY <1>3, <1>4, <1>5, <1>6 DEF Inv

LEMMA KeepsLogInv ==
  ASSUME Inv, NEW w \in Writer, KeepsLog(w)
  PROVE  Inv'
<1>1. FilesOK /\ HistoryOK /\ TipOK /\ LockOK /\ RestOK /\ KnowsFiles(w)
  BY DEF Inv
<1>2. UNCHANGED <<log, archives, tip, aside, carry, acked, faults, listed, due>>
  BY DEF KeepsLog, Working, files, reading
<1>3. History' = History /\ Settled' = Settled
  BY <1>2, FilesKept
<1>4. FilesOK' /\ HistoryOK' /\ TipOK' /\ RestOK'
  <2>1. HistoryOK' /\ TipOK'
    BY <1>1, <1>2, <1>3, KeepsHistory, KeepsTip
  <2>2. FilesOK' /\ RestOK'
    BY <1>1, <1>2 DEF FilesOK, RestOK
  <2>. QED
    BY <2>1, <2>2
<1>5. /\ LockOK' /\ at[w] = "rolling" /\ at'[w] = "appending"
      /\ heads'[w] = heads[w] /\ draft'[w] = draft[w]
      /\ \A v \in Writer : v # w => KnowsFiles(v)'
  BY <1>1, <1>2, WorkingStep DEF KeepsLog, LockOK, Places
<1>6. KnowsFiles(w)'
  BY <1>1, <1>2, <1>3, <1>5 DEF KnowsFiles, Drafting
<1>. QED
  BY <1>4, <1>5, <1>6 DEF Inv

LEMMA RollsAsideInv ==
  ASSUME Inv, NEW w \in Writer, RollsAside(w)
  PROVE  Inv'
<1>1. FilesOK /\ HistoryOK /\ TipOK /\ LockOK /\ RestOK /\ KnowsFiles(w)
  BY DEF Inv
<1>2. /\ UNCHANGED <<tip, aside, acked, faults, listed, due>> /\ at[w] = "rolling"
      /\ archives' = Append(archives, log) /\ log' = EmptyFile
      /\ carry' = [carry EXCEPT ![w] = Live(heads[w])]
  BY DEF RollsAside, Working, reading
<1>3. /\ FilesOK' /\ log'.tail = {} /\ History' = History
      /\ Len(archives') = Len(archives) + 1
  BY <1>1, <1>2, LogRolled DEF KnowsFiles
<1>4. HistoryOK' /\ TipOK' /\ RestOK'
  <2>1. HistoryOK' /\ TipOK'
    BY <1>1, <1>2, <1>3, KeepsHistory, OutgrowsTip
  <2>2. RestOK'
    BY <1>1, <1>2 DEF RestOK
  <2>. QED
    BY <2>1, <2>2
<1>5. heads[w] = Heads(History)
  BY <1>1, <1>2 DEF KnowsFiles, Drafting
<1>6. Live(heads[w]) \subseteq History /\ History \subseteq Line
  BY <1>1, <1>5, HistoryOfLines DEF Live, Heads
<1>7. carry' \in [Writer -> SUBSET Line] /\ carry'[w] \subseteq History
  BY <1>1, <1>2, <1>6 DEF LockOK
<1>8. /\ LockOK' /\ at'[w] = "carrying"
      /\ heads'[w] = heads[w] /\ draft'[w] = draft[w]
      /\ \A v \in Writer : v # w => KnowsFiles(v)'
  BY <1>1, <1>7, WorkingStep DEF RollsAside, Places
<1>9. KnowsFiles(w)'
  BY <1>1, <1>2, <1>3, <1>7, <1>8 DEF KnowsFiles, Drafting
<1>. QED
  BY <1>3, <1>4, <1>8, <1>9 DEF Inv

LEMMA CarriesInv ==
  ASSUME Inv, NEW w \in Writer, Carries(w)
  PROVE  Inv'
<1>1. FilesOK /\ HistoryOK /\ TipOK /\ LockOK /\ RestOK /\ KnowsFiles(w)
  BY DEF Inv
<1>2. UNCHANGED <<archives, tip, aside, acked, faults, listed, due>> /\ at[w] = "carrying"
  BY DEF Carries, Working, reading
<1>3. PICK l \in carry[w] :
        /\ log' = [log EXCEPT !.lines = Append(@, l)]
        /\ carry' = [carry EXCEPT ![w] = @ \ {l}]
  BY DEF Carries
<1>4. l \in History /\ l \in Line /\ log.tail = {}
  BY <1>1, <1>2, HistoryOfLines DEF KnowsFiles
<1>5. /\ FilesOK' /\ log'.tail = {} /\ History' = History
      /\ Len(log'.lines) = Len(log.lines) + 1
  BY <1>1, <1>2, <1>3, <1>4, LineAppended
<1>6. HistoryOK' /\ TipOK' /\ RestOK'
  <2>1. HistoryOK' /\ TipOK'
    BY <1>1, <1>2, <1>5, KeepsHistory, OutgrowsTip
  <2>2. RestOK'
    BY <1>1, <1>2 DEF RestOK
  <2>. QED
    BY <2>1, <2>2
<1>7. carry' \in [Writer -> SUBSET Line] /\ carry'[w] \subseteq carry[w]
  BY <1>1, <1>3 DEF LockOK
<1>8. /\ LockOK' /\ at'[w] = "carrying"
      /\ heads'[w] = heads[w] /\ draft'[w] = draft[w]
      /\ \A v \in Writer : v # w => KnowsFiles(v)'
  BY <1>1, <1>7, WorkingStep DEF Carries, Places
<1>9. KnowsFiles(w)'
  BY <1>1, <1>2, <1>5, <1>7, <1>8 DEF KnowsFiles, Drafting
<1>. QED
  BY <1>5, <1>6, <1>8, <1>9 DEF Inv

LEMMA HasCarriedInv ==
  ASSUME Inv, NEW w \in Writer, HasCarried(w)
  PROVE  Inv'
<1>1. FilesOK /\ HistoryOK /\ TipOK /\ LockOK /\ RestOK /\ KnowsFiles(w)
  BY DEF Inv
<1>2. UNCHANGED <<log, archives, tip, aside, carry, acked, faults, listed, due>>
  BY DEF HasCarried, Working, files, reading
<1>3. History' = History /\ Settled' = Settled
  BY <1>2, FilesKept
<1>4. FilesOK' /\ HistoryOK' /\ TipOK' /\ RestOK'
  <2>1. HistoryOK' /\ TipOK'
    BY <1>1, <1>2, <1>3, KeepsHistory, KeepsTip
  <2>2. FilesOK' /\ RestOK'
    BY <1>1, <1>2 DEF FilesOK, RestOK
  <2>. QED
    BY <2>1, <2>2
<1>5. /\ LockOK' /\ at[w] = "carrying" /\ at'[w] = "appending"
      /\ heads'[w] = heads[w] /\ draft'[w] = draft[w]
      /\ \A v \in Writer : v # w => KnowsFiles(v)'
  BY <1>1, <1>2, WorkingStep DEF HasCarried, LockOK, Places
<1>6. KnowsFiles(w)'
  BY <1>1, <1>2, <1>3, <1>5 DEF KnowsFiles, Drafting
<1>. QED
  BY <1>4, <1>5, <1>6 DEF Inv

LEMMA AppendsInv ==
  ASSUME Inv, NEW w \in Writer, Appends(w)
  PROVE  Inv'
<1>1. FilesOK /\ HistoryOK /\ TipOK /\ LockOK /\ RestOK /\ KnowsFiles(w)
  BY DEF Inv
<1>2. UNCHANGED <<archives, tip, aside, carry, acked, faults, listed, due>> /\ at[w] = "appending"
  BY DEF Appends, Working, reading
<1>3. heads[w] = Heads(History) /\ log.tail = {}
  BY <1>1, <1>2 DEF KnowsFiles, Drafting
<1>4. PICK l \in Line : draft[w] = {l} /\ Follows(heads[w], l) /\ Affordable(heads[w], l)
  BY <1>1, <1>2 DEF KnowsFiles, Drafting
<1>5. log' = [log EXCEPT !.lines = Append(@, l)]
  BY <1>4 DEF Appends
<1>6. /\ FilesOK' /\ log'.tail = {} /\ History' = History \cup {l}
      /\ Len(log'.lines) = Len(log.lines) + 1
  BY <1>1, <1>2, <1>3, <1>5, LineAppended
<1>7. HistoryOK' /\ Heads(History') = After(heads[w], l)
  BY <1>1, <1>2, <1>3, <1>4, <1>6, HistoryOfLines, GrowsHistory
<1>8. TipOK' /\ RestOK'
  <2>1. TipOK'
    BY <1>1, <1>2, <1>6, OutgrowsTip
  <2>2. RestOK'
    BY <1>1, <1>2 DEF RestOK
  <2>. QED
    BY <2>1, <2>2
<1>9. /\ LockOK' /\ at'[w] = "recording"
      /\ heads'[w] = heads[w] /\ draft'[w] = draft[w]
      /\ \A v \in Writer : v # w => KnowsFiles(v)'
  BY <1>1, <1>2, WorkingStep DEF Appends, LockOK, Places
<1>10. KnowsFiles(w)'
  <2>1. l \in History' /\ draft'[w] = {l} /\ After(heads'[w], l) = Heads(History')
    BY <1>4, <1>6, <1>7, <1>9
  <2>. QED
    BY <1>6, <1>9, <2>1 DEF KnowsFiles, Drafting
<1>. QED
  BY <1>6, <1>7, <1>8, <1>9, <1>10 DEF Inv

\* A write that is acknowledged, whether or not its tip could be recorded.
LEMMA AcknowledgesInv ==
  ASSUME Inv, NEW w \in Writer, RecordsTip(w) \/ TipFails(w)
  PROVE  Inv'
<1>1. FilesOK /\ HistoryOK /\ TipOK /\ LockOK /\ RestOK /\ KnowsFiles(w)
  BY DEF Inv
<1>2. /\ UNCHANGED <<log, archives, aside, listed, due>> /\ faults' \in Nat
      /\ at[w] = "recording" /\ Leaves(w) /\ acked' = acked \cup draft[w]
  BY <1>1 DEF RecordsTip, TipFails, Acknowledges, reading, RestOK
<1>3. PICK l \in History : draft[w] = {l} /\ After(heads[w], l) = Heads(History)
  BY <1>1, <1>2 DEF KnowsFiles
<1>4. History' = History /\ Settled' = Settled
  BY <1>2, FilesKept
<1>5. FilesOK' /\ HistoryOK' /\ RestOK'
  BY <1>1, <1>2, <1>3, <1>4 DEF FilesOK, HistoryOK, RestOK
<1>6. TipOK'
  <2>1. CASE tip' = tip
    BY <1>1, <1>2, <1>4, <2>1, KeepsTip
  <2>2. CASE tip' = Stamped(After(heads[w], l))
    <3>1. tip' = [heads |-> Heads(History), lines |-> Len(log.lines),
                  last |-> LastLine(log.lines), archives |-> Len(archives)]
      BY <1>3, <2>2 DEF Stamped
    <3>2. Heads(History) \subseteq Line /\ History = Settled
      BY <1>1, <1>2, HistoryOfLines, HistoryParts DEF Heads, KnowsFiles
    <3>3. LastLine(log.lines) \subseteq Line /\ Len(log.lines) \in Nat /\ Len(archives) \in Nat
      BY <1>1 DEF LastLine, FilesOK
    <3>4. tip' \in Tip
      BY <3>1, <3>2, <3>3 DEF Tip
    <3>. QED
      BY <1>2, <1>4, <3>1, <3>2, <3>3, <3>4 DEF TipOK
  <2>. QED
    BY <1>3, <2>1, <2>2 DEF RecordsTip, TipFails
<1>7. LockOK' /\ \A v \in Writer : KnowsFiles(v)'
  BY <1>1, <1>2, LeavingStep
<1>. QED
  BY <1>5, <1>6, <1>7 DEF Inv

\* A line that was being written is in the history already, where it was being
\* carried, or may join it, where it was the draft; nobody is told.
LEMMA StopsInv ==
  ASSUME Inv, NEW w \in Writer, Stops(w)
  PROVE  Inv'
<1>1. FilesOK /\ HistoryOK /\ TipOK /\ LockOK /\ RestOK /\ KnowsFiles(w)
  BY DEF Inv
<1>2. /\ UNCHANGED <<archives, tip, aside, acked, listed, due>> /\ faults' \in Nat
      /\ at[w] # "idle" /\ Leaves(w)
  BY <1>1 DEF Stops, reading, RestOK
<1>3. LockOK' /\ RestOK' /\ \A v \in Writer : KnowsFiles(v)'
  BY <1>1, <1>2, LeavingStep DEF RestOK
<1>4. CASE UNCHANGED log
  <2>1. History' = History /\ Settled' = Settled
    BY <1>2, <1>4, FilesKept
  <2>2. HistoryOK' /\ TipOK' /\ FilesOK'
    BY <1>1, <1>2, <1>4, <2>1, KeepsHistory, KeepsTip DEF FilesOK
  <2>. QED
    BY <1>3, <2>2 DEF Inv
<1>5. CASE \E l \in Unwritten(w) : WritesPartOf(l)
  <2>1. PICK l \in Unwritten(w) : WritesPartOf(l)
    BY <1>5
  <2>2. log.tail = {} /\ l \in Line
    BY <1>1, <2>1 DEF Unwritten, KnowsFiles, LockOK
  <2>3. History' = History \/ History' = History \cup {l}
    BY <1>1, <1>2, <2>1, <2>2, LineAppended, PartWritten DEF WritesPartOf
  <2>4. FilesOK' /\ TipOK'
    <3>1. CASE log' = [log EXCEPT !.lines = Append(@, l)]
      BY <1>1, <1>2, <2>2, <3>1, LineAppended, OutgrowsTip
    <3>2. CASE \E whole \in BOOLEAN : log' = [log EXCEPT !.tail = {[line |-> l, whole |-> whole]}]
      BY <1>1, <1>2, <2>2, <3>2, PartWritten, KeepsTip
    <3>. QED
      BY <2>1, <3>1, <3>2 DEF WritesPartOf
  <2>5. HistoryOK'
    <3>1. CASE at[w] = "carrying"
      <4>1. l \in History
        BY <1>1, <2>1, <3>1 DEF Unwritten, KnowsFiles
      <4>2. History' = History
        BY <2>3, <4>1
      <4>. QED
        BY <1>1, <1>2, <4>2, KeepsHistory
    <3>2. CASE at[w] = "appending"
      <4>1. /\ heads[w] = Heads(History) /\ draft[w] = {l}
            /\ Follows(heads[w], l) /\ Affordable(heads[w], l)
        BY <1>1, <2>1, <3>2 DEF Unwritten, KnowsFiles, Drafting
      <4>2. CASE History' = History
        BY <1>1, <1>2, <4>2, KeepsHistory
      <4>3. CASE History' = History \cup {l}
        BY <1>1, <1>2, <2>2, <4>1, <4>3, HistoryOfLines, GrowsHistory
      <4>. QED
        BY <2>3, <4>2, <4>3
    <3>. QED
      BY <2>1, <3>1, <3>2 DEF Unwritten
  <2>. QED
    BY <1>3, <2>4, <2>5 DEF Inv
<1>. QED
  BY <1>4, <1>5 DEF Stops

\* Listing and reading change no file, and neither does a stutter.
LEMMA ReadsInv ==
  ASSUME Inv, UNCHANGED <<files, lock, mine, acked, faults>>,
         listed' \in [Reader -> SUBSET Seq(File)], due' \in [Reader -> SUBSET Line]
  PROVE  Inv'
<1>1. UNCHANGED <<log, archives, tip, aside, lock, at, heads, draft, carry, acked, faults>>
  BY DEF files, mine
<1>2. History' = History /\ Settled' = Settled
  BY <1>1, FilesKept
<1>3. FilesOK' /\ LockOK' /\ RestOK'
  BY <1>1 DEF Inv, FilesOK, LockOK, RestOK
<1>4. HistoryOK' /\ TipOK'
  BY <1>1, <1>2, KeepsHistory, KeepsTip DEF Inv
<1>5. \A w \in Writer : KnowsFiles(w)'
  BY <1>1, <1>2 DEF Inv, KnowsFiles
<1>. QED
  BY <1>3, <1>4, <1>5 DEF Inv

LEMMA AckedAndArchived ==
  ASSUME Inv
  PROVE  acked \in SUBSET Line /\ archives \in Seq(File)
BY HistoryOfLines DEF Inv, HistoryOK, FilesOK

LEMMA NextInv == Inv /\ [Next]_vars => Inv'
<1>. SUFFICES ASSUME Inv, [Next]_vars PROVE Inv'
  OBVIOUS
<1>1. ASSUME NEW w \in Writer, NEW m \in Name, NEW retired \in BOOLEAN, Remember(w, m, retired)
      PROVE  Inv'
  BY <1>1, RememberInv
<1>2. ASSUME NEW w \in Writer, Step(w) PROVE Inv'
  BY <1>2, FindsCleanEndInv, TerminatesInv, SetsAsideInv, CutsInv, KeepsLogInv, RollsAsideInv,
     CarriesInv, HasCarriedInv, AppendsInv, AcknowledgesInv DEF Step
<1>3. ASSUME NEW w \in Writer, TipFails(w) \/ Stops(w) PROVE Inv'
  BY <1>3, AcknowledgesInv, StopsInv
<1>4. ASSUME NEW r \in Reader, Lists(r) PROVE Inv'
  <2>1. listed' \in [Reader -> SUBSET Seq(File)] /\ due' \in [Reader -> SUBSET Line]
    BY <1>4, AckedAndArchived DEF Lists, Inv, RestOK
  <2>. QED
    BY <1>4, <2>1, ReadsInv DEF Lists
<1>5. ASSUME NEW r \in Reader, Reads(r) PROVE Inv'
  <2>1. listed' \in [Reader -> SUBSET Seq(File)] /\ due' \in [Reader -> SUBSET Line]
    BY <1>5 DEF Reads, Inv, RestOK
  <2>. QED
    BY <1>5, <2>1, ReadsInv DEF Reads
<1>6. CASE UNCHANGED vars
  <2>1. listed' \in [Reader -> SUBSET Seq(File)] /\ due' \in [Reader -> SUBSET Line]
    BY <1>6 DEF vars, reading, Inv, RestOK
  <2>. QED
    BY <1>6, <2>1, ReadsInv DEF vars
<1>. QED
  BY <1>1, <1>2, <1>3, <1>4, <1>5, <1>6 DEF Next

\* The inductive invariant, from which everything below follows.
THEOREM Invariance == Spec => []Inv
BY InitInv, NextInv, PTL DEF Spec

-----------------------------------------------------------------------------
(* What the invariant gives.                                               *)

\* The types of the store, and that only the holder of the agent's lock is in
\* the middle of a write.
THEOREM TypeCorrect == Spec => []TypeOK
<1>1. Inv => TypeOK
  <2>. SUFFICES ASSUME Inv PROVE TypeOK
    OBVIOUS
  <2>1. log \in File
    BY DEF Inv, FilesOK, File
  <2>. QED
    BY <2>1, AckedAndArchived DEF Inv, TypeOK, FilesOK, TipOK, LockOK, RestOK
<1>. QED
  BY <1>1, Invariance, PTL

\* A tip the next write would trust (loadTip) has the heads of the whole history.
THEOREM TipTrusted == Spec => []TipIsTrusted
<1>1. Inv => TipIsTrusted
  BY MatchingTip DEF Inv, TipIsTrusted
<1>. QED
  BY <1>1, Invariance, PTL

\* No log is rolled aside with a torn end (rollIfFull), so rebuildTip can always
\* read the archives.
THEOREM ArchivesMended == Spec => []ArchivesAreMended
<1>1. Inv => ArchivesAreMended
  BY DEF Inv, FilesOK, ArchivesAreMended, Unreadable
<1>. QED
  BY <1>1, Invariance, PTL

\* What is live stays within the budget affordable measures.
THEOREM BudgetKept == Spec => []LiveWithinBudget
<1>1. Inv => LiveWithinBudget
  BY DEF Inv, HistoryOK, LiveWithinBudget
<1>. QED
  BY <1>1, Invariance, PTL

-----------------------------------------------------------------------------
(* The refinement.                                                         *)

bookvars == <<History, acked>>

\* A draft that reaches the disk is a note under the number Notebook gives it.
LEMMA Noted ==
  ASSUME Inv, NEW l \in Line, Follows(Heads(History), l), acked' = acked,
         History' = History \cup {l}
  PROVE  Book!Note
<1>1. Numbers(History, l.memory) = 1 .. l.seq - 1 /\ l.seq >= 1 /\ l.seq \in Nat
  BY HistoryOfLines, NextNumber DEF Inv, HistoryOK, Line
<1>2. Book!Taken(History, l.memory) = 1 .. l.seq - 1
  BY <1>1 DEF Book!Taken, Numbers
<1>3. l.seq \in {1} \cup {n + 1 : n \in Book!Taken(History, l.memory)}
  <2>1. CASE l.seq = 1
    BY <2>1
  <2>2. CASE l.seq # 1
    <3>1. l.seq - 1 \in 1 .. l.seq - 1 /\ l.seq = (l.seq - 1) + 1
      BY <1>1, <2>2
    <3>. QED
      BY <1>2, <3>1
  <2>. QED
    BY <2>1, <2>2
<1>4. l = [memory |-> l.memory, seq |-> l.seq, by |-> l.by, retired |-> l.retired]
  BY DEF Line
<1>5. l.memory \in Name /\ l.by \in Writer /\ l.retired \in BOOLEAN
  BY DEF Line
<1>6. History' = History \cup {[memory |-> l.memory, seq |-> l.seq,
                                 by |-> l.by, retired |-> l.retired]}
  BY <1>4
<1>. QED
  BY <1>2, <1>3, <1>5, <1>6, Zenon DEF Book!Note

LEMMA Vouched ==
  ASSUME NEW l \in History, History' = History, acked' = acked \cup {l}
  PROVE  Book!Vouch
BY DEF Book!Vouch

\* Every step of the store notes, vouches, or leaves the notebook as it is.
LEMMA BookSteps ==
  ASSUME Inv, [Next]_vars
  PROVE  [Book!Next]_bookvars
<1>1. FilesOK /\ History \in SUBSET Line
  BY HistoryOfLines DEF Inv
<1>2. ASSUME NEW w \in Writer, NEW m \in Name, NEW retired \in BOOLEAN, Remember(w, m, retired)
      PROVE  UNCHANGED bookvars
  BY <1>2, FilesKept DEF Remember, files, bookvars
<1>3. ASSUME NEW w \in Writer, FindsCleanEnd(w) \/ KeepsLog(w) \/ HasCarried(w) \/ SetsAside(w)
      PROVE  UNCHANGED bookvars
  BY <1>3, FilesKept DEF FindsCleanEnd, KeepsLog, HasCarried, SetsAside, Working, files, bookvars
<1>4. ASSUME NEW w \in Writer, Terminates(w) PROVE UNCHANGED bookvars
  BY <1>1, <1>4, EndTerminated DEF Terminates, Working, bookvars
<1>5. ASSUME NEW w \in Writer, Cuts(w) PROVE UNCHANGED bookvars
  BY <1>1, <1>5, EndCut DEF Cuts, Working, Inv, KnowsFiles, bookvars
<1>6. ASSUME NEW w \in Writer, RollsAside(w) PROVE UNCHANGED bookvars
  BY <1>1, <1>6, LogRolled DEF RollsAside, Working, Inv, KnowsFiles, bookvars
<1>7. ASSUME NEW w \in Writer, Carries(w) PROVE UNCHANGED bookvars
  <2>1. log.tail = {} /\ carry[w] \subseteq History /\ acked' = acked
    BY <1>7 DEF Carries, Working, Inv, KnowsFiles
  <2>2. PICK l \in carry[w] : log' = [log EXCEPT !.lines = Append(@, l)]
    BY <1>7 DEF Carries
  <2>3. l \in History /\ l \in Line /\ archives' = archives
    BY <1>1, <1>7, <2>1 DEF Carries
  <2>4. History' = History \cup {l}
    BY <1>1, <2>1, <2>2, <2>3, LineAppended
  <2>. QED
    BY <2>1, <2>3, <2>4 DEF bookvars
<1>8. ASSUME NEW w \in Writer, at[w] = "appending"
      PROVE  /\ log.tail = {}
             /\ \E l \in Line : draft[w] = {l} /\ Follows(Heads(History), l)
  BY <1>8 DEF Inv, KnowsFiles, Drafting
<1>9. ASSUME NEW w \in Writer, Appends(w) PROVE Book!Next
  <2>1. at[w] = "appending" /\ archives' = archives /\ acked' = acked
    BY <1>9 DEF Appends, Working
  <2>2. PICK l \in Line : draft[w] = {l} /\ Follows(Heads(History), l)
    BY <1>8, <2>1
  <2>3. History' = History \cup {l}
    BY <1>1, <1>8, <1>9, <2>1, <2>2, LineAppended DEF Appends
  <2>. QED
    BY <2>1, <2>2, <2>3, Noted DEF Book!Next
<1>10. ASSUME NEW w \in Writer, RecordsTip(w) \/ TipFails(w) PROVE Book!Next
  <2>1. /\ at[w] = "recording" /\ UNCHANGED <<log, archives>>
        /\ acked' = acked \cup draft[w]
    BY <1>10 DEF RecordsTip, TipFails, Acknowledges
  <2>2. PICK l \in History : draft[w] = {l}
    BY <2>1 DEF Inv, KnowsFiles
  <2>. QED
    BY <2>1, <2>2, FilesKept, Vouched DEF Book!Next
<1>11. ASSUME NEW w \in Writer, Stops(w) PROVE Book!Next \/ UNCHANGED bookvars
  <2>1. archives' = archives /\ acked' = acked /\ at[w] # "idle"
    BY <1>11 DEF Stops
  <2>2. CASE UNCHANGED log
    BY <2>1, <2>2, FilesKept DEF bookvars
  <2>3. ASSUME NEW l \in Unwritten(w), WritesPartOf(l) PROVE Book!Next \/ UNCHANGED bookvars
    <3>1. log.tail = {} /\ l \in Line
      BY <1>1, <2>3 DEF Unwritten, Inv, KnowsFiles, LockOK
    <3>2. History' = History \/ History' = History \cup {l}
      BY <1>1, <2>1, <2>3, <3>1, LineAppended, PartWritten DEF WritesPartOf
    <3>3. CASE at[w] = "carrying"
      <4>1. l \in History
        BY <2>3, <3>3 DEF Unwritten, Inv, KnowsFiles
      <4>. QED
        BY <2>1, <3>2, <4>1 DEF bookvars
    <3>4. CASE at[w] = "appending"
      <4>1. Follows(Heads(History), l)
        BY <1>8, <2>3, <3>4 DEF Unwritten
      <4>. QED
        BY <2>1, <3>1, <3>2, <4>1, Noted DEF Book!Next, bookvars
    <3>. QED
      BY <2>3, <3>3, <3>4 DEF Unwritten
  <2>. QED
    BY <1>11, <2>2, <2>3 DEF Stops
<1>12. ASSUME NEW r \in Reader, Lists(r) \/ Reads(r) PROVE UNCHANGED bookvars
  BY <1>12, FilesKept DEF Lists, Reads, files, bookvars
<1>13. CASE UNCHANGED vars
  BY <1>13, FilesKept DEF vars, files, bookvars
<1>. QED
  BY <1>2, <1>3, <1>4, <1>5, <1>6, <1>7, <1>9, <1>10, <1>11, <1>12, <1>13 DEF Next, Step

\* The files implement the abstract history: revisions are only ever added,
\* under the number after the last one of their memory, and what was vouched
\* for is never taken back, whatever is killed, torn, mended or rolled.
THEOREM LogImplementsNotebook == Spec => ImplementsNotebook
<1>1. Init => Book!Init
  <2>. SUFFICES ASSUME Init PROVE Book!Init
    OBVIOUS
  <2>1. History = {}
    BY HistoryParts DEF Init, EmptyFile, OfArchives, Settled, Elements
  <2>. QED
    BY <2>1 DEF Init, Book!Init
<1>2. Inv /\ [Next]_vars => [Book!Next]_bookvars
  BY BookSteps
<1>. QED
  BY <1>1, <1>2, Invariance, PTL DEF Spec, ImplementsNotebook, Book!Spec, bookvars

-----------------------------------------------------------------------------
(* What a step may never do.                                               *)

\* A writer that is about to cut the end has set aside what it cuts.
CutsKept == \A w \in Writer : at[w] = "cutting" => \A t \in log.tail : t.line \in aside

\* What a reader has to find was acknowledged.
DueAcked == \A r \in Reader : due[r] \subseteq acked

\* Only one writer is in a write, so only its own step is about what it cuts.
LEMMA NextCutsKept ==
  ASSUME Inv, CutsKept, [Next]_vars
  PROVE  CutsKept'
<1>1. ASSUME UNCHANGED <<at, log, aside>> PROVE CutsKept'
  BY <1>1 DEF CutsKept
<1>2. ASSUME NEW w \in Writer, NEW to, to # "cutting", at' = [at EXCEPT ![w] = to],
             at[w] # "idle" \/ lock = Nobody
      PROVE  CutsKept'
  <2>1. \A v \in Writer : v # w => at[v] = "idle"
    BY <1>2, MemoryAssumption DEF Inv, LockOK
  <2>2. \A v \in Writer : at'[v] # "cutting"
    BY <1>2, <2>1 DEF Inv, LockOK
  <2>. QED
    BY <2>2 DEF CutsKept
<1>3. ASSUME NEW w \in Writer, NEW m \in Name, NEW retired \in BOOLEAN, Remember(w, m, retired)
      PROVE  CutsKept'
  BY <1>2, <1>3 DEF Remember, Goes
<1>4. ASSUME NEW w \in Writer, SetsAside(w) PROVE CutsKept'
  <2>1. PICK t \in log.tail : aside' = aside \cup {t.line}
    BY <1>4 DEF SetsAside
  <2>2. log' = log /\ \A u \in log.tail : u = t
    BY <1>4 DEF SetsAside, Inv, FilesOK
  <2>3. \A u \in log'.tail : u.line \in aside'
    BY <2>1, <2>2
  <2>. QED
    BY <2>3 DEF CutsKept
<1>5. ASSUME NEW w \in Writer, Step(w) \/ TipFails(w) \/ Stops(w) PROVE CutsKept'
  <2>1. CASE SetsAside(w)
    BY <1>4, <2>1
  <2>2. CASE ~SetsAside(w)
    <3>1. at[w] # "idle"
      BY <1>5 DEF Step, FindsCleanEnd, Terminates, SetsAside, Cuts, KeepsLog, RollsAside, Carries,
             HasCarried, Appends, RecordsTip, TipFails, Acknowledges, Stops, Working
    <3>2. PICK to \in {"rolling", "carrying", "appending", "recording", "idle"} :
            at' = [at EXCEPT ![w] = to]
      BY <1>5, <2>2 DEF Step, FindsCleanEnd, Terminates, Cuts, KeepsLog, RollsAside, Carries,
             HasCarried, Appends, RecordsTip, TipFails, Acknowledges, Stops, Leaves, Working, Goes
    <3>. QED
      BY <1>2, <3>1, <3>2
  <2>. QED
    BY <2>1, <2>2
<1>6. ASSUME NEW r \in Reader, Lists(r) \/ Reads(r) PROVE CutsKept'
  BY <1>1, <1>6 DEF Lists, Reads, files, mine
<1>7. CASE UNCHANGED vars
  BY <1>1, <1>7 DEF vars, files, mine
<1>. QED
  BY <1>3, <1>5, <1>6, <1>7 DEF Next

\* A fragment leaves the log only once a copy of it is set aside, whatever is killed or
\* refused in between (mendTail).
THEOREM FragmentsKept == Spec => FragmentsAreKept
<1>. DEFINE Kept == \A t \in log.tail : ~t.whole /\ t \notin log'.tail => t.line \in aside'
<1>1. Init => CutsKept
  BY DEF Init, CutsKept
<1>2. Inv /\ CutsKept /\ [Next]_vars => CutsKept'
  BY NextCutsKept
<1>3. ASSUME Inv, CutsKept, [Next]_vars PROVE Kept
  <2>. SUFFICES ASSUME NEW t \in log.tail, ~t.whole, t \notin log'.tail PROVE t.line \in aside'
    OBVIOUS
  <2>1. log' # log
    OBVIOUS
  <2>2. PICK w \in Writer : Step(w) \/ Stops(w) \/ TipFails(w)
    BY <1>3, <2>1 DEF Next, Remember, Lists, Reads, files, vars
  <2>3. KnowsFiles(w)
    BY <1>3 DEF Inv
  <2>4. CASE Cuts(w)
    <3>1. at[w] = "cutting" /\ aside' = aside
      BY <2>4 DEF Cuts, Working
    <3>. QED
      BY <1>3, <3>1 DEF CutsKept
  <2>5. CASE Terminates(w)
    BY <1>3, <2>5 DEF Terminates, Inv, FilesOK
  <2>6. CASE RollsAside(w) \/ Carries(w) \/ Appends(w)
    BY <2>3, <2>6 DEF RollsAside, Carries, Appends, Working, KnowsFiles
  <2>7. CASE Stops(w)
    <3>1. at[w] \in {"carrying", "appending"}
      BY <2>1, <2>7 DEF Stops, Unwritten
    <3>. QED
      BY <2>3, <3>1 DEF KnowsFiles
  <2>8. CASE RecordsTip(w) \/ TipFails(w)
    BY <2>1, <2>8 DEF RecordsTip, TipFails, Acknowledges
  <2>. QED
    <3>1. ~FindsCleanEnd(w) /\ ~SetsAside(w) /\ ~KeepsLog(w) /\ ~HasCarried(w)
      BY <2>1 DEF FindsCleanEnd, SetsAside, KeepsLog, HasCarried, files
    <3>. QED
      BY <2>2, <2>4, <2>5, <2>6, <2>7, <2>8, <3>1 DEF Step
<1>4. FragmentsAreKept <=> [][Kept]_vars
  BY DEF FragmentsAreKept
<1>5. Inv /\ CutsKept /\ [Next]_vars => [Kept]_vars
  BY <1>3
<1>. QED
  BY <1>1, <1>2, <1>4, <1>5, InitInv, NextInv, PTL DEF Spec

LEMMA NextDueAcked ==
  ASSUME Inv, DueAcked, [Next]_vars
  PROVE  DueAcked'
<1>1. ASSUME due' = due, acked \subseteq acked' PROVE DueAcked'
  BY <1>1 DEF DueAcked
<1>2. ASSUME NEW r \in Reader, Lists(r) \/ Reads(r) PROVE DueAcked'
  BY <1>2 DEF Lists, Reads, DueAcked, Inv, RestOK
<1>3. ASSUME NEW w \in Writer, Step(w) \/ TipFails(w) \/ Stops(w) PROVE DueAcked'
  BY <1>1, <1>3 DEF Step, FindsCleanEnd, Terminates, SetsAside, Cuts, KeepsLog, RollsAside, Carries,
     HasCarried, Appends, RecordsTip, TipFails, Acknowledges, Stops, Working, reading
<1>4. ASSUME NEW w \in Writer, NEW m \in Name, NEW retired \in BOOLEAN, Remember(w, m, retired)
      PROVE  DueAcked'
  BY <1>1, <1>4 DEF Remember, reading
<1>5. CASE UNCHANGED vars
  BY <1>1, <1>5 DEF vars, reading
<1>. QED
  BY <1>2, <1>3, <1>4, <1>5 DEF Next

\* A listing that no roll overlaps finds everything that was acknowledged before it began,
\* while any number of writers append, fail and are killed (recorded).
THEOREM ListingsFind == Spec => UndisturbedReads
<1>. DEFINE Finds == \A r \in Reader : Reads(r) /\ listed[r] = {archives} => due[r] \subseteq Found(r)
<1>1. Init => DueAcked
  BY DEF Init, DueAcked
<1>2. Inv /\ DueAcked /\ [Next]_vars => DueAcked'
  BY NextDueAcked
<1>3. ASSUME Inv, DueAcked PROVE Finds
  <2>. SUFFICES ASSUME NEW r \in Reader, listed[r] = {archives} PROVE due[r] \subseteq Found(r)
    OBVIOUS
  <2>1. UNION {Elements(a) : a \in listed[r]} = Elements(archives)
    OBVIOUS
  <2>2. Found(r) = History
    BY <2>1 DEF Found, History
  <2>. QED
    BY <1>3, <2>2 DEF DueAcked, Inv, HistoryOK
<1>4. UndisturbedReads <=> [][Finds]_vars
  BY DEF UndisturbedReads
<1>5. Inv /\ DueAcked /\ [Next]_vars => [Finds]_vars
  BY <1>3
<1>. QED
  BY <1>1, <1>2, <1>4, <1>5, InitInv, NextInv, PTL DEF Spec

=============================================================================
