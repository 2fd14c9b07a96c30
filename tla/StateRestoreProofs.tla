------------------------- MODULE StateRestoreProofs -------------------------
(***************************************************************************)
(* The restore transaction, for any file names, contents, generations and  *)
(* snapshots, with a crash, a power loss or a failure at any step of any   *)
(* number of sessions: first while nobody else writes state files, then,   *)
(* for the last theorem, while somebody does.                              *)
(*                                                                         *)
(* The argument is about disks rather than about sessions. A disk is Good  *)
(* when its journal can be acted on as it stands; every disk a power loss  *)
(* could leave is Good, and all of them tell one story (Windowed): they    *)
(* hold the same state files or each a durable journal, and have one       *)
(* outcome or are the two sides of a commit. A session at each step knows  *)
(* of the disk what its next step needs (Fits); a session that begins on a *)
(* Good disk knows nothing, and learns it from the journal.                *)
(***************************************************************************)
EXTENDS StateRestore, TLAPS

\* Nobody writes state files without the lock.
Undisturbed == Foreign = {}

\* A journal that recovery acts on.
Real == {"prepared", "rolling_back", "committed"}

\* A file live while its old content is in quarantine is the new one.
Disjoint(d, j) == \A n \in Names :
  d.live[n] # Absent /\ d.quarantine.files[n] # Absent => d.live[n] = j.new[n]

\* A disk that is right, whoever finds it.
Good(d) ==
  LET j == d.journal IN
  /\ d \in Disk
  /\ j.phase = "none" => j = NoJournal
  /\ d.tmp.phase = "none" => d.tmp = NoJournal
  /\ j.phase \notin Real => d.quarantine.files = Empty
  /\ j.phase \in Real => Evidence(d, j)
  /\ j.phase \in {"prepared", "rolling_back"} => Disjoint(d, j)
  /\ j.phase = "committed" => j.new \in Snapshots
  /\ ~j.synced => j.phase = "prepared" /\ d.live = j.old /\ d.quarantine.files = Empty

\* No trace of a transaction.
Clean(d) == d.journal = NoJournal /\ ~Residue(d)

\* The state files have not moved since the journal j was drawn up ...
Staged(d, j) ==
  /\ d.staging = [exists |-> TRUE, files |-> j.new]
  /\ d.quarantine = [exists |-> TRUE, files |-> Empty]
  /\ d.live = j.old

\* ... or all have.
Published(d, j) ==
  /\ d.staging = [exists |-> TRUE, files |-> Empty]
  /\ d.quarantine = [exists |-> TRUE, files |-> j.old]
  /\ d.live = j.new

\* The disks of a window tell one story: where files have moved every journal is
\* durable, and all but an undecided commit have one outcome.
OneLive(d, w) == (\A e \in w : e.live = d.live) \/ (\A e \in w : e.journal.phase \in Real)

OneOutcome(d, w) == \A e \in w :
  IF d.journal.phase = "committed"
  THEN IF e.journal.phase = "prepared" THEN e.journal.old = d.journal.old
                                       ELSE Outcome(e) = d.journal.new
  ELSE Outcome(e) = Outcome(d)

Windowed ==
  /\ disk \in window /\ \A d \in window : Good(d)
  /\ OneLive(disk, window)
  /\ OneOutcome(disk, window)

-----------------------------------------------------------------------------
(* What a session knows of the disk, by the step it is at *)

Undoing == {"recovering", "unwinding"}

\* The journal in hand is the one on disk.
InHand(s, d, modes, phases) ==
  /\ d.journal = s.mem /\ s.mem.phase \in phases
  /\ s.draft = NoJournal
  /\ s.mode \in modes

\* A new transaction, before its journal.
Fresh(s, d) ==
  /\ d.journal = NoJournal /\ s.mem = NoJournal /\ s.draft = NoJournal
  /\ s.mode = "publishing"
  /\ d.tmp = NoJournal

\* The next phase of the journal on disk is being written.
NextPhase(s, d) ==
  /\ d.journal.phase = "prepared"
  /\ s.draft = [d.journal EXCEPT !.phase = s.draft.phase, !.synced = FALSE]
  /\ \/ s.draft.phase = "rolling_back" /\ s.mode \in Undoing
     \/ /\ s.draft.phase = "committed" /\ s.mode = "publishing"
        /\ Published(d, d.journal) /\ s.draft.new = s.snapshot

Writing(s, d) ==
  \/ /\ s.draft.phase = "prepared" /\ ~s.draft.synced /\ s.mode = "publishing"
     /\ d.journal = NoJournal /\ s.mem = NoJournal
     /\ Staged(d, s.draft) /\ s.draft.new = s.snapshot
  \/ s.mem = s.draft /\ NextPhase(s, d)

Draft(s) == [s.draft EXCEPT !.synced = TRUE]

\* The old files a rollback has yet to put in quarantine.
Missing(s, d) == Present(s.mem.old) \ Present(d.quarantine.files)

Fits(s, d) ==
  /\ s.pc = "idle" => s = Idle
  /\ s.pc = "load" => s.mode = "recovering" /\ s.mem = NoJournal /\ s.draft = NoJournal
  /\ s.pc = "adopt_sync" => InHand(s, d, {"recovering"}, {"prepared"})
  /\ s.pc \in {"discard", "discard_sync"} =>
       \/ InHand(s, d, {"recovering"}, Real)
       \/ d.journal = s.mem /\ NextPhase(s, d)
  /\ s.pc = "decide" => \/ InHand(s, d, {"recovering"}, Real)
                        \/ InHand(s, d, {"unwinding"}, {"rolling_back"})
  /\ s.pc \in {"create", "write", "sync_file", "sync_name", "rename", "abandon"} => Writing(s, d)
  /\ s.pc = "sync_file" => d.tmp = s.draft
  /\ s.pc \in {"sync_name", "rename"} => d.tmp = Draft(s)
  /\ s.pc = "sync_rename" =>
       /\ s.mem.synced
       /\ \/ InHand(s, d, {"publishing"}, {"prepared"}) /\ Staged(d, s.mem) /\ s.mem.new = s.snapshot
          \/ InHand(s, d, {"publishing"}, {"committed"})
          \/ InHand(s, d, Undoing, {"rolling_back"})
  /\ s.pc = "mkdir_staging" => Fresh(s, d) /\ d.staging = NoDirectory /\ d.quarantine = NoDirectory
  /\ s.pc = "mkdir_quarantine" =>
       /\ Fresh(s, d)
       /\ d.staging = [exists |-> TRUE, files |-> Empty] /\ d.quarantine = NoDirectory
  /\ s.pc \in {"mkdir_sync", "stage"} =>
       /\ Fresh(s, d)
       /\ d.staging.exists /\ Within(d.staging.files, s.snapshot)
       /\ d.quarantine = [exists |-> TRUE, files |-> Empty]
  /\ s.pc = "prepare" =>
       /\ Fresh(s, d)
       /\ d.staging = [exists |-> TRUE, files |-> s.snapshot]
       /\ d.quarantine = [exists |-> TRUE, files |-> Empty]
  /\ s.pc \in {"quarantine", "quarantine_sync"} =>
       /\ InHand(s, d, {"publishing"}, {"prepared"}) /\ s.mem.synced /\ s.mem.new = s.snapshot
       /\ d.staging = [exists |-> TRUE, files |-> s.mem.new] /\ d.quarantine.exists
       /\ Within(d.live, s.mem.old)
  /\ s.pc \in {"publish", "publish_sync"} =>
       /\ InHand(s, d, {"publishing"}, {"prepared"}) /\ s.mem.synced /\ s.mem.new = s.snapshot
       /\ d.quarantine = [exists |-> TRUE, files |-> s.mem.old] /\ d.staging.exists
       /\ Within(d.live, s.mem.new)
  /\ s.pc = "rollback" => InHand(s, d, Undoing, {"rolling_back"})
  /\ s.pc = "rollback_sync" => InHand(s, d, Undoing, {"rolling_back"}) /\ d.quarantine.exists
  /\ s.pc \in {"requarantine", "requarantine_move", "requarantine_sync"} =>
       /\ InHand(s, d, Undoing, {"rolling_back"}) /\ d.quarantine.exists
       /\ s.todo \subseteq Present(s.mem.old)
       /\ s.todo \cap Missing(s, d) \subseteq s.listed
       /\ IF s.pc = "requarantine_move"
          THEN \E n \in Missing(s, d) : s.checked = {n} /\ Missing(s, d) \ {n} \subseteq s.todo
          ELSE Missing(s, d) \subseteq s.todo
  /\ s.pc \in {"unpublish", "unpublish_remove", "unpublish_sync"} =>
       /\ InHand(s, d, Undoing, {"rolling_back"})
       /\ d.quarantine = [exists |-> TRUE, files |-> s.mem.old]
       /\ IF s.pc = "unpublish_remove"
          THEN \E n \in Present(d.live) : s.checked = {n} /\ s.todo = Present(d.live) \ {n}
          ELSE s.todo = Present(d.live)
  /\ s.pc \in {"reinstate", "reinstate_sync"} =>
       /\ InHand(s, d, Undoing, {"rolling_back"}) /\ d.quarantine.exists
       /\ Within(d.live, s.mem.old)
       /\ s.todo = Present(d.quarantine.files)
  /\ s.pc \in {"cleanup", "forget"} =>
       /\ \/ InHand(s, d, {"publishing", "recovering"}, {"committed"})
          \/ InHand(s, d, Undoing, {"rolling_back"}) /\ d.live = s.mem.old
       /\ s.pc = "forget" => ~Residue(d)
  /\ s.pc = "forget_sync" =>
       Clean(d) /\ s.draft = NoJournal /\ (s.mode = "publishing" => s.mem.phase = "committed")
  /\ s.pc = "unwind" =>
       /\ s.mode = "unwinding" /\ s.draft = NoJournal
       /\ \/ s.mem = NoJournal /\ d.journal = NoJournal
          \/ s.mem.phase = "prepared" /\ d.journal = s.mem
          \/ s.mem.phase = "committed"
  /\ s.pc \in {"remove_staging", "remove_quarantine", "remove_sync"} =>
       s.mode = "unwinding" /\ d.journal = NoJournal
  /\ s.pc # "cleanup_sync"

\* The steps that nothing but an fsync leads to.
Synced == {"rename", "quarantine", "publish", "requarantine", "requarantine_move", "unpublish",
           "unpublish_remove", "reinstate", "forget"}

Sessions ==
  /\ session \in Session
  /\ Fits(session, disk)
  /\ session.pc \in Synced => window = {disk}
  /\ session.pc # "idle" => session.mode # "idle" /\ session.job # "none" /\ result.is = "none"
  /\ session.mode \in {"publishing", "unwinding"} => session.job = "restore"
  /\ session.job = "restore" => session.snapshot \in Snapshots

Agents ==
  /\ serving \in BOOLEAN
  /\ result \in Result
  /\ serving => Clean(disk) /\ (session.pc = "idle" \/ (session.pc = "load" /\ session.job = "backup"))
  /\ result.is = "refused" => disk.journal.phase \notin Real

IndInv == Windowed /\ Sessions /\ Agents

\* What every step keeps beside the invariant: state files move only under durable
\* journals, and the one generation changes as promised.
Kept ==
  /\ ~serving /\ disk'.live # disk.live => \A d \in window : d.journal.phase \in Real
  /\ [Promise!Next]_(Promise!vars)

-----------------------------------------------------------------------------
(* Files, directories, journals and disks *)

\* Putting and dropping a file changes that file.
LEMMA FilesFacts ==
  ASSUME NEW f \in Files
  PROVE  /\ Empty \in Files
         /\ \A n \in Names : f[n] \in Contents \cup {Absent}
         /\ \A n \in Names : n \in Present(f) <=> f[n] # Absent
         /\ Present(f) \subseteq Names
         /\ \A n \in Names, c \in Contents \cup {Absent} :
              /\ Put(f, n, c) \in Files /\ Put(f, n, c)[n] = c
              /\ \A m \in Names \ {n} : Put(f, n, c)[m] = f[m]
         /\ \A n \in Names :
              /\ Drop(f, n) \in Files /\ Drop(f, n)[n] = Absent
              /\ \A m \in Names \ {n} : Drop(f, n)[m] = f[m]
  BY DEF Files, Empty, Present, Put, Drop

\* No file is present in an empty directory.
LEMMA EmptyFacts ==
  /\ Empty \in Files
  /\ \A n \in Names : Empty[n] = Absent
  /\ Present(Empty) = {}
  /\ \A f \in Files : Present(f) = {} => f = Empty
  /\ \A f \in Files : Within(Empty, f)
  <1>1. Empty \in Files /\ (\A n \in Names : Empty[n] = Absent) /\ Present(Empty) = {}
    BY DEF Files, Empty, Present
  <1>2. ASSUME NEW f \in Files, Present(f) = {} PROVE f = Empty
    <2>1. \A n \in Names : f[n] = Absent
      BY <1>2 DEF Present
    <2> QED
      BY <2>1 DEF Files, Empty
  <1> QED
    BY <1>1, <1>2 DEF Within

\* Two inventories with the same files are equal.
LEMMA SameFiles ==
  ASSUME NEW f \in Files, NEW g \in Files, Within(f, g), \A n \in Present(g) : f[n] = g[n]
  PROVE  f = g
  <1>1. \A n \in Names : f[n] = g[n]
    BY DEF Within, Present
  <1> QED
    BY <1>1 DEF Files

\* The parts of a directory.
LEMMA DirectoryFacts ==
  /\ NoDirectory \in Directory /\ ~NoDirectory.exists /\ NoDirectory.files = Empty
  /\ \A f \in Files : LET x == [exists |-> TRUE, files |-> f] IN
       x \in Directory /\ x.exists /\ x.files = f
  /\ \A x \in Directory :
       /\ x.exists \in BOOLEAN /\ x.files \in Files
       /\ x.exists => x = [exists |-> TRUE, files |-> x.files]
       /\ ~x.exists => x = NoDirectory /\ x.files = Empty
       /\ x.files # Empty => x.exists
  BY EmptyFacts DEF Directory, NoDirectory

\* The parts of a journal.
LEMMA JournalFacts ==
  /\ NoJournal \in Journal /\ NoJournal.phase = "none" /\ NoJournal.synced
  /\ Torn \in Journal /\ Torn.phase = "torn" /\ Torn.synced
  /\ \A j \in Journal :
       /\ j.phase \in Phases /\ j.old \in Files /\ j.new \in Files /\ j.synced \in BOOLEAN
       /\ \A p \in Phases, b \in BOOLEAN : LET k == [j EXCEPT !.phase = p, !.synced = b] IN
            k \in Journal /\ k.phase = p /\ k.old = j.old /\ k.new = j.new /\ k.synced = b
       /\ LET k == [j EXCEPT !.synced = TRUE] IN
            k \in Journal /\ k.phase = j.phase /\ k.old = j.old /\ k.new = j.new /\ k.synced
  BY EmptyFacts DEF Journal, NoJournal, Torn, Phases

\* The parts of a disk.
LEMMA DiskFacts ==
  ASSUME NEW d \in Disk
  PROVE  /\ d.live \in Files /\ d.staging \in Directory /\ d.quarantine \in Directory
         /\ d.staging.files \in Files /\ d.quarantine.files \in Files
         /\ d.tmp \in Journal /\ d.journal \in Journal
         /\ d.journal.phase \in Phases /\ d.journal.old \in Files /\ d.journal.new \in Files
  BY DirectoryFacts, JournalFacts DEF Disk

\* What an assignment to some of them makes.
LEMMA DiskUpdates ==
  ASSUME NEW d \in Disk
  PROVE  /\ \A t \in Journal : LET e == [d EXCEPT !.tmp = t] IN
              /\ e \in Disk /\ e.live = d.live /\ e.staging = d.staging
              /\ e.quarantine = d.quarantine /\ e.tmp = t /\ e.journal = d.journal
         /\ \A j, t \in Journal : LET e == [d EXCEPT !.journal = j, !.tmp = t] IN
              /\ e \in Disk /\ e.live = d.live /\ e.staging = d.staging
              /\ e.quarantine = d.quarantine /\ e.tmp = t /\ e.journal = j
         /\ \A j \in Journal : LET e == [d EXCEPT !.journal = j] IN
              /\ e \in Disk /\ e.live = d.live /\ e.staging = d.staging
              /\ e.quarantine = d.quarantine /\ e.tmp = d.tmp /\ e.journal = j
         /\ \A x \in Directory : LET e == [d EXCEPT !.staging = x] IN
              /\ e \in Disk /\ e.live = d.live /\ e.staging = x
              /\ e.quarantine = d.quarantine /\ e.tmp = d.tmp /\ e.journal = d.journal
         /\ \A x \in Directory : LET e == [d EXCEPT !.quarantine = x] IN
              /\ e \in Disk /\ e.live = d.live /\ e.staging = d.staging
              /\ e.quarantine = x /\ e.tmp = d.tmp /\ e.journal = d.journal
         /\ \A f \in Files : LET e == [d EXCEPT !.live = f] IN
              /\ e \in Disk /\ e.live = f /\ e.staging = d.staging
              /\ e.quarantine = d.quarantine /\ e.tmp = d.tmp /\ e.journal = d.journal
  BY DEF Disk

-----------------------------------------------------------------------------
(* The window *)

\* What one disk's journal makes of it.
LEMMA OutcomeFacts ==
  ASSUME NEW d \in Disk
  PROVE  /\ d.journal.phase = "committed" => Outcome(d) = d.journal.new
         /\ d.journal.phase \in {"prepared", "rolling_back"} => Outcome(d) = d.journal.old
         /\ d.journal.phase \notin Real => Outcome(d) = d.live
  BY DiskFacts DEF Outcome, Real, Phases

\* The generation there is, by the phase on disk.
LEMMA GenerationFacts ==
  ASSUME Windowed
  PROVE  /\ disk.journal.phase # "committed" => Generation = Outcome(disk)
         /\ (\A d \in window : d.journal.phase # "prepared") => Generation = Outcome(disk)
         /\ disk.journal.phase = "committed" /\ (\E d \in window : d.journal.phase = "prepared")
              => Generation = disk.journal.old
  BY DEF Generation

\* The disk changes to one that goes on with the story.
LEMMA Grow ==
  ASSUME Windowed, NEW e, Good(e), Change(e), UNCHANGED serving,
         \/ /\ e.live = disk.live
            /\ \/ e.journal.phase \in Real
               \/ disk.journal.phase \notin Real
               \/ window = {disk}
         \/ window = {disk} /\ disk.journal.phase \in Real /\ e.journal.phase \in Real,
         \/ /\ disk.journal.phase # "committed" /\ e.journal.phase # "committed"
            /\ Outcome(e) = Outcome(disk)
         \/ disk.journal.phase = "committed" /\ e.journal = disk.journal
         \/ /\ window = {disk} /\ disk.journal.phase = "prepared"
            /\ e.journal.phase = "committed" /\ e.journal.old = disk.journal.old
         \/ /\ window = {disk} /\ disk.journal.phase = "committed"
            /\ e.journal.phase = "none" /\ e.live = disk.journal.new
  PROVE  Windowed' /\ Kept
  <1> USE DEF Windowed
  <1>1. disk' = e /\ window' = window \cup {e} /\ e \in Disk /\ disk \in Disk /\ disk \in window
        /\ e.journal.phase \in Phases /\ \A d \in window : d \in Disk
    BY DiskFacts DEF Change, Good
  <1>2. OneLive(e, window \cup {e})
    BY <1>1 DEF OneLive
  <1>3. OneOutcome(e, window \cup {e})
    <2>1. CASE /\ disk.journal.phase # "committed" /\ e.journal.phase # "committed"
               /\ Outcome(e) = Outcome(disk)
      BY <1>1, <2>1 DEF OneOutcome
    <2>2. CASE disk.journal.phase = "committed" /\ e.journal = disk.journal
      BY <1>1, <2>2, OutcomeFacts DEF OneOutcome
    <2>3. CASE /\ window = {disk} /\ disk.journal.phase = "prepared"
               /\ e.journal.phase = "committed" /\ e.journal.old = disk.journal.old
      BY <1>1, <2>3, OutcomeFacts DEF OneOutcome
    <2>4. CASE /\ window = {disk} /\ disk.journal.phase = "committed"
               /\ e.journal.phase = "none" /\ e.live = disk.journal.new
      BY <1>1, <2>4, OutcomeFacts DEF OneOutcome, Real
    <2> QED
      BY <2>1, <2>2, <2>3, <2>4
  <1>4. Windowed'
    BY <1>1, <1>2, <1>3
  <1>5. Generation' = Generation
    <2>1. CASE /\ disk.journal.phase # "committed" /\ e.journal.phase # "committed"
               /\ Outcome(e) = Outcome(disk)
      BY <1>1, <2>1 DEF Generation
    <2>2. CASE disk.journal.phase = "committed" /\ e.journal = disk.journal
      BY <1>1, <2>2, OutcomeFacts DEF Generation
    <2>3. CASE /\ window = {disk} /\ disk.journal.phase = "prepared"
               /\ e.journal.phase = "committed" /\ e.journal.old = disk.journal.old
      BY <1>1, <2>3, OutcomeFacts DEF Generation
    <2>4. CASE /\ window = {disk} /\ disk.journal.phase = "committed"
               /\ e.journal.phase = "none" /\ e.live = disk.journal.new
      BY <1>1, <2>4, OutcomeFacts DEF Generation, Real
    <2> QED
      BY <2>1, <2>2, <2>3, <2>4
  <1>6. Kept
    BY <1>1, <1>5 DEF Kept, Promise!vars
  <1> QED
    BY <1>4, <1>6

\* Nothing happens to the disk; an agent may begin or stop serving.
LEMMA Still ==
  ASSUME Windowed, Keep, serving' \in BOOLEAN
  PROVE  Windowed' /\ Kept
  <1>1. Windowed' /\ Generation' = Generation /\ disk' = disk
    BY DEF Windowed, Keep, Generation
  <1>2. [Promise!Next]_(Promise!vars)
    BY <1>1 DEF Promise!Next, Promise!Serve, Promise!Stop
  <1> QED
    BY <1>1, <1>2 DEF Kept

\* Everything done so far becomes durable: there is one disk, and a commit counts.
LEMMA Settled ==
  ASSUME Windowed, NEW e, Good(e), disk' = e, window' = {e},
         e.live = disk.live, e.journal = disk.journal, serving' \in BOOLEAN,
         disk.journal.phase = "committed" => ~serving /\ UNCHANGED serving
  PROVE  Windowed' /\ Kept
  <1>1. disk \in Disk /\ disk \in window /\ e \in Disk /\ Outcome(e) = Outcome(disk)
    BY DEF Windowed, Good, Outcome
  <1>2. Windowed'
    BY <1>1, OutcomeFacts DEF Windowed, OneLive, OneOutcome
  <1>3. Generation' = Outcome(disk)
    BY <1>1 DEF Generation
  <1>4. CASE disk.journal.phase # "committed"
    <2>1. Generation' = Generation
      BY <1>3, <1>4, GenerationFacts
    <2> QED
      BY <1>2, <2>1 DEF Kept, Promise!Next, Promise!Serve, Promise!Stop, Promise!vars
  <1>5. CASE disk.journal.phase = "committed"
    <2>1. Generation' = disk.journal.new /\ disk.journal.new \in Snapshots
      BY <1>1, <1>3, <1>5, OutcomeFacts DEF Windowed, Good
    <2>2. Promise!Install
      BY <1>5, <2>1 DEF Promise!Install
    <2> QED
      BY <1>2, <2>2 DEF Kept, Promise!Next
  <1> QED
    BY <1>4, <1>5

\* An fsync of the directory does that.
LEMMA Synchronised ==
  ASSUME Windowed, FsyncDir, serving' \in BOOLEAN,
         disk.journal.phase = "committed" => ~serving /\ UNCHANGED serving
  PROVE  Windowed' /\ Kept
  <1>1. Good(disk) /\ disk' = disk /\ window' = {disk}
    BY DEF Windowed, FsyncDir
  <1> QED
    BY <1>1, Settled

-----------------------------------------------------------------------------
(* The session *)

\* No journal, and one whose content was lost.
LEMMA NoJournalFacts ==
  /\ NoJournal \in Journal /\ NoJournal.phase = "none" /\ NoJournal.synced
  /\ Torn \in Journal /\ Torn.phase = "torn" /\ Torn.synced
  BY JournalFacts

\* What an assignment to some of its variables makes of a session.
LEMMA SessionFacts ==
  ASSUME NEW s \in Session
  PROVE  /\ s.pc \in Steps /\ s.mode \in Modes /\ s.job \in Jobs /\ s.snapshot \in Files
         /\ s.mem \in Journal /\ s.draft \in Journal
         /\ \A pc \in Steps : LET t == [s EXCEPT !.pc = pc] IN
              /\ t \in Session /\ t.pc = pc /\ t.mode = s.mode /\ t.job = s.job
              /\ t.snapshot = s.snapshot /\ t.mem = s.mem /\ t.draft = s.draft
         /\ \A pc \in Steps, j \in Journal : LET t == [s EXCEPT !.pc = pc, !.mem = j] IN
              /\ t \in Session /\ t.pc = pc /\ t.mode = s.mode /\ t.job = s.job
              /\ t.snapshot = s.snapshot /\ t.mem = j /\ t.draft = s.draft
         /\ \A pc \in Steps, j \in Journal : LET t == [s EXCEPT !.pc = pc, !.draft = j] IN
              /\ t \in Session /\ t.pc = pc /\ t.mode = s.mode /\ t.job = s.job
              /\ t.snapshot = s.snapshot /\ t.mem = s.mem /\ t.draft = j
         /\ \A pc \in Steps, j, k \in Journal : LET t == [s EXCEPT !.pc = pc, !.mem = j, !.draft = k] IN
              /\ t \in Session /\ t.pc = pc /\ t.mode = s.mode /\ t.job = s.job
              /\ t.snapshot = s.snapshot /\ t.mem = j /\ t.draft = k
         /\ \A pc \in Steps, m \in Modes : LET t == [s EXCEPT !.pc = pc, !.mode = m] IN
              /\ t \in Session /\ t.pc = pc /\ t.mode = m /\ t.job = s.job
              /\ t.snapshot = s.snapshot /\ t.mem = s.mem /\ t.draft = s.draft
         /\ \A pc \in Steps, m \in Modes, j \in Journal :
              LET t == [s EXCEPT !.pc = pc, !.mode = m, !.mem = j] IN
              /\ t \in Session /\ t.pc = pc /\ t.mode = m /\ t.job = s.job
              /\ t.snapshot = s.snapshot /\ t.mem = j /\ t.draft = s.draft
         /\ \A pc \in Steps, m \in Modes, j \in Journal :
              LET t == [s EXCEPT !.pc = pc, !.mode = m, !.draft = j] IN
              /\ t \in Session /\ t.pc = pc /\ t.mode = m /\ t.job = s.job
              /\ t.snapshot = s.snapshot /\ t.mem = s.mem /\ t.draft = j
  <1>1. /\ s.pc \in Steps /\ s.mode \in Modes /\ s.job \in Jobs /\ s.snapshot \in Files
        /\ s.mem \in Journal /\ s.draft \in Journal
    BY DEF Session
  <1>2. ASSUME NEW pc \in Steps
        PROVE  LET t == [s EXCEPT !.pc = pc] IN
               /\ t \in Session /\ t.pc = pc /\ t.mode = s.mode /\ t.job = s.job
               /\ t.snapshot = s.snapshot /\ t.mem = s.mem /\ t.draft = s.draft
    BY DEF Session
  <1>3. ASSUME NEW pc \in Steps, NEW j \in Journal
        PROVE  LET t == [s EXCEPT !.pc = pc, !.mem = j] IN
               /\ t \in Session /\ t.pc = pc /\ t.mode = s.mode /\ t.job = s.job
               /\ t.snapshot = s.snapshot /\ t.mem = j /\ t.draft = s.draft
    BY DEF Session
  <1>4. ASSUME NEW pc \in Steps, NEW j \in Journal
        PROVE  LET t == [s EXCEPT !.pc = pc, !.draft = j] IN
               /\ t \in Session /\ t.pc = pc /\ t.mode = s.mode /\ t.job = s.job
               /\ t.snapshot = s.snapshot /\ t.mem = s.mem /\ t.draft = j
    BY DEF Session
  <1>5. ASSUME NEW pc \in Steps, NEW j \in Journal, NEW k \in Journal
        PROVE  LET t == [s EXCEPT !.pc = pc, !.mem = j, !.draft = k] IN
               /\ t \in Session /\ t.pc = pc /\ t.mode = s.mode /\ t.job = s.job
               /\ t.snapshot = s.snapshot /\ t.mem = j /\ t.draft = k
    BY DEF Session
  <1>6. ASSUME NEW pc \in Steps, NEW m \in Modes
        PROVE  LET t == [s EXCEPT !.pc = pc, !.mode = m] IN
               /\ t \in Session /\ t.pc = pc /\ t.mode = m /\ t.job = s.job
               /\ t.snapshot = s.snapshot /\ t.mem = s.mem /\ t.draft = s.draft
    BY DEF Session
  <1>7. ASSUME NEW pc \in Steps, NEW m \in Modes, NEW j \in Journal
        PROVE  LET t == [s EXCEPT !.pc = pc, !.mode = m, !.mem = j] IN
               /\ t \in Session /\ t.pc = pc /\ t.mode = m /\ t.job = s.job
               /\ t.snapshot = s.snapshot /\ t.mem = j /\ t.draft = s.draft
    BY DEF Session
  <1>8. ASSUME NEW pc \in Steps, NEW m \in Modes, NEW j \in Journal
        PROVE  LET t == [s EXCEPT !.pc = pc, !.mode = m, !.draft = j] IN
               /\ t \in Session /\ t.pc = pc /\ t.mode = m /\ t.job = s.job
               /\ t.snapshot = s.snapshot /\ t.mem = s.mem /\ t.draft = j
    BY DEF Session
  <1> QED
    BY <1>1, <1>2, <1>3, <1>4, <1>5, <1>6, <1>7, <1>8

\* No session.
LEMMA IdleFacts ==
  /\ Idle \in Session /\ Idle.pc = "idle" /\ Idle.mode = "idle" /\ Idle.job = "none"
  /\ \A d : Fits(Idle, d)
  <1>1. Idle \in Session /\ Idle.pc = "idle" /\ Idle.mode = "idle" /\ Idle.job = "none"
    BY EmptyFacts, JournalFacts DEF Idle, Session, Steps, Modes, Jobs
  <1>2. \A d : Fits(Idle, d)
    BY <1>1 DEF Fits
  <1> QED
    BY <1>1, <1>2

\* An agent serves while there is no session, or one that has just begun.
LEMMA SessionAlone ==
  ASSUME IndInv
  PROVE  /\ serving \in BOOLEAN
         /\ session.pc \notin {"idle", "load"} => ~serving
         /\ session.job # "backup" /\ session.pc # "idle" => ~serving
         /\ serving => Clean(disk) /\ disk.journal.phase = "none"
  BY JournalFacts DEF IndInv, Agents, Clean

\* A session that takes its next step.
LEMMA Moved ==
  ASSUME session \in Session, NEW next \in Steps, Goto(next)
  PROVE  /\ session' \in Session /\ session'.pc = next /\ session'.mode = session.mode
         /\ session'.job = session.job /\ session'.snapshot = session.snapshot
         /\ session'.mem = session.mem /\ session'.draft = session.draft
         /\ session'.listed = session.listed /\ session'.todo = session.todo
         /\ session'.checked = session.checked /\ session'.late = session.late
  <1>1. session' = [session EXCEPT !.pc = next]
    BY DEF Goto
  <1> QED
    BY <1>1 DEF Session

\* A session that comes to a file of its loop.
LEMMA Looked ==
  ASSUME session \in Session, NEW n, NEW next \in Steps, NEW c \in SUBSET Names, Look(n, next, c)
  PROVE  /\ session' \in Session /\ session'.pc = next /\ session'.mode = session.mode
         /\ session'.job = session.job /\ session'.snapshot = session.snapshot
         /\ session'.mem = session.mem /\ session'.draft = session.draft
         /\ session'.listed = session.listed /\ session'.todo = session.todo \ {n}
         /\ session'.checked = c /\ session'.late = session.late
         /\ Keep /\ Local
  <1>1. session' = [session EXCEPT !.pc = next, !.todo = session.todo \ {n}, !.checked = c]
    BY DEF Look
  <1>2. session.todo \ {n} \in SUBSET Names
    BY DEF Session
  <1>3. Keep /\ Local
    BY DEF Look
  <1> QED
    BY <1>1, <1>2, <1>3 DEF Session

\* A session that begins another loop.
LEMMA Looped ==
  ASSUME session \in Session, NEW pc \in Steps, NEW listed \in SUBSET Names,
         NEW todo \in SUBSET Names, NEW late \in SUBSET Names, Loop(pc, listed, todo, late)
  PROVE  /\ session' \in Session /\ session'.pc = pc /\ session'.mode = session.mode
         /\ session'.job = session.job /\ session'.snapshot = session.snapshot
         /\ session'.mem = session.mem /\ session'.draft = session.draft
         /\ session'.listed = listed /\ session'.todo = todo
         /\ session'.checked = {} /\ session'.late = late
  <1>1. session' = [session EXCEPT !.pc = pc, !.listed = listed, !.todo = todo, !.checked = {},
                                   !.late = late]
    BY DEF Loop
  <1> QED
    BY <1>1 DEF Session

\* A session goes on to a step it fits.
LEMMA Continue ==
  ASSUME IndInv, Windowed', session.pc # "idle", ~serving, Local,
         session' \in Session, session'.job = session.job, session'.snapshot = session.snapshot,
         session'.pc # "idle", session'.mode # "idle",
         session'.mode \in {"publishing", "unwinding"} => session.job = "restore",
         Fits(session', disk'), session'.pc \in Synced => window' = {disk'}
  PROVE  IndInv'
  <1>1. Sessions'
    BY DEF IndInv, Sessions, Local
  <1>2. Agents'
    BY DEF IndInv, Sessions, Agents, Local
  <1> QED
    BY <1>1, <1>2 DEF IndInv

\* A session ends.
LEMMA Finish ==
  ASSUME IndInv, Windowed', NEW is \in {"ok", "failed", "refused"}, End(is),
         serving' \in BOOLEAN, serving' => Clean(disk'),
         is = "refused" => disk'.journal.phase \notin Real
  PROVE  IndInv'
  <1>1. session' = Idle /\ result'.is = is /\ result' \in Result
    BY SessionFacts DEF End, Result, IndInv, Sessions
  <1>2. Sessions'
    BY <1>1, IdleFacts DEF Sessions, Synced
  <1>3. Agents'
    BY <1>1, IdleFacts DEF Agents
  <1> QED
    BY <1>2, <1>3 DEF IndInv

\* The disk changes and a session steps.
LEMMA Doing ==
  ASSUME IndInv, session.pc \notin {"idle", "load"},
         NEW pc, NEW e, NEW next \in Steps \ ({"idle"} \cup Synced), Do(pc, e, next),
         Windowed' /\ Kept, Fits(session', e)
  PROVE  IndInv' /\ Kept
  <1>1. session \in Session /\ ~serving /\ serving \in BOOLEAN
    BY SessionAlone DEF IndInv, Sessions
  <1>2. disk' = e /\ Goto(next) /\ Local
    BY DEF Do, Change
  <1>3. /\ session' \in Session /\ session'.pc = next /\ session'.mode = session.mode
        /\ session'.job = session.job /\ session'.snapshot = session.snapshot
    BY <1>1, <1>2, Moved
  <1>4. session.mode # "idle" /\ (session.mode \in {"publishing", "unwinding"} => session.job = "restore")
    BY DEF IndInv, Sessions
  <1> QED
    BY <1>1, <1>2, <1>3, <1>4, Continue

\* A session steps and the disk stays.
LEMMA Going ==
  ASSUME IndInv, session.pc \notin {"idle", "load"}, Keep, Local,
         NEW next \in Steps \ {"idle"}, Goto(next),
         Fits(session', disk), next \in Synced => window = {disk}
  PROVE  IndInv' /\ Kept
  <1>1. session \in Session /\ ~serving /\ serving \in BOOLEAN
    BY SessionAlone DEF IndInv, Sessions
  <1>2. disk' = disk /\ window' = window
    BY DEF Keep
  <1>3. /\ session' \in Session /\ session'.pc = next /\ session'.mode = session.mode
        /\ session'.job = session.job /\ session'.snapshot = session.snapshot
    BY <1>1, Moved
  <1>4. session.mode # "idle" /\ (session.mode \in {"publishing", "unwinding"} => session.job = "restore")
    BY DEF IndInv, Sessions
  <1>5. Windowed' /\ Kept
    BY <1>1, Still DEF IndInv, Local
  <1>6. Fits(session', disk') /\ (session'.pc \in Synced => window' = {disk'})
    BY <1>2, <1>3
  <1> QED
    BY <1>1, <1>3, <1>4, <1>5, <1>6, Continue

\* A session steps and the directory is fsynced.
LEMMA Fsyncing ==
  ASSUME IndInv, NEW pc \in Steps \ {"idle", "load"}, NEW next \in Steps \ {"idle"}, Fsync(pc, next),
         Fits(session', disk)
  PROVE  IndInv' /\ Kept
  <1>1. session.pc = pc /\ FsyncDir /\ Goto(next) /\ Local
    BY DEF Fsync, At
  <1>2. session \in Session /\ ~serving /\ serving \in BOOLEAN
    BY <1>1, SessionAlone DEF IndInv, Sessions
  <1>3. disk' = disk /\ window' = {disk}
    BY <1>1 DEF FsyncDir
  <1>4. /\ session' \in Session /\ session'.pc = next /\ session'.mode = session.mode
        /\ session'.job = session.job /\ session'.snapshot = session.snapshot
    BY <1>1, <1>2, Moved
  <1>5. session.mode # "idle" /\ (session.mode \in {"publishing", "unwinding"} => session.job = "restore")
    BY <1>1 DEF IndInv, Sessions
  <1>6. Windowed' /\ Kept
    BY <1>1, <1>2, Synchronised DEF IndInv, Local
  <1>7. Fits(session', disk') /\ (session'.pc \in Synced => window' = {disk'})
    BY <1>3
  <1> QED
    BY <1>1, <1>2, <1>4, <1>5, <1>6, <1>7, Continue

\* A session comes to another point of a rollback, and the disk with it.
LEMMA Undergoing ==
  ASSUME IndInv, session.pc \notin {"idle", "load"}, Local, Windowed' /\ Kept,
         session' \in Session, session'.job = session.job, session'.snapshot = session.snapshot,
         session'.mode = session.mode, session'.pc # "idle",
         Fits(session', disk'), session'.pc \in Synced => window' = {disk'}
  PROVE  IndInv' /\ Kept
  <1>1. ~serving /\ session.mode # "idle"
        /\ (session.mode \in {"publishing", "unwinding"} => session.job = "restore")
    BY SessionAlone DEF IndInv, Sessions
  <1> QED
    BY <1>1, Continue

\* It does, and nothing happens to the disk.
LEMMA Resting ==
  ASSUME IndInv, session.pc \in Synced, Keep, Local,
         session' \in Session, session'.job = session.job, session'.snapshot = session.snapshot,
         session'.mode = session.mode, session'.pc # "idle", Fits(session', disk)
  PROVE  IndInv' /\ Kept
  <1>1. session.pc \notin {"idle", "load"} /\ window = {disk}
    BY DEF Synced, IndInv, Sessions
  <1>2. serving \in BOOLEAN /\ disk' = disk /\ window' = window
    BY <1>1, SessionAlone DEF Keep
  <1>3. Windowed' /\ Kept
    BY <1>2, Still DEF IndInv, Local
  <1>4. Fits(session', disk') /\ window' = {disk'}
    BY <1>1, <1>2
  <1> QED
    BY <1>1, <1>3, <1>4, Undergoing

-----------------------------------------------------------------------------
(* Steps that only fsync the state directory *)

\* Before a step of a session that has found its place.
LEMMA Under ==
  ASSUME IndInv, session.pc \notin {"idle", "load"}
  PROVE  /\ session \in Session /\ disk \in Disk /\ Good(disk) /\ Fits(session, disk)
         /\ ~serving /\ serving \in BOOLEAN /\ session.mode \in Modes \ {"idle"}
         /\ session.pc \in Synced => window = {disk}
         /\ session.mode \in {"publishing", "unwinding"} => session.job = "restore"
         /\ session.job = "restore" => session.snapshot \in Snapshots
         /\ Windowed /\ disk \in window
  <1>1. session \in Session /\ disk \in Disk /\ Good(disk) /\ disk \in window /\ session.mode # "idle"
    BY DEF IndInv, Sessions, Windowed, Good
  <1> QED
    BY <1>1, SessionAlone, SessionFacts DEF IndInv, Sessions

\* What a rollback has yet to put in quarantine is live.
LEMMA GoodListed ==
  ASSUME Good(disk), disk.journal = session.mem, session.mem.phase = "rolling_back"
  PROVE  Missing(session, disk) \subseteq Present(disk.live)
  <1>1. RollbackEvidence(disk, session.mem)
    BY DEF Good, Evidence, Real
  <1>2. \A n \in Missing(session, disk) :
          n \in Names /\ session.mem.old[n] # Absent /\ disk.quarantine.files[n] = Absent
    BY DEF Missing, Present
  <1> QED
    BY <1>1, <1>2 DEF RollbackEvidence, Complete, Present

\* What was known before the fsync is known after it.
LEMMA SyncSteps ==
  ASSUME IndInv,
         \/ AdoptSync \/ SyncName \/ MkdirSync \/ QuarantineSync \/ PublishSync
         \/ RollbackSync \/ RequarantineSync \/ UnpublishSync \/ ReinstateSync
  PROVE  IndInv' /\ Kept
  <1>1. CASE AdoptSync
    <2>1. Fsync("adopt_sync", "discard") /\ session.pc = "adopt_sync" /\ Goto("discard") /\ "adopt_sync" \in Steps /\ "discard" \in Steps
      BY <1>1 DEF AdoptSync, Fsync, At, Steps
    <2>2. Fits(session, disk) /\ session \in Session
      BY <2>1, Under
    <2>3. Fits(session', disk)
      BY <2>1, <2>2, Moved DEF Fits, InHand, Real
    <2> QED
      BY <2>1, <2>3, Fsyncing
  <1>2. CASE SyncName
    <2>1. Fsync("sync_name", "rename") /\ session.pc = "sync_name" /\ Goto("rename") /\ "sync_name" \in Steps /\ "rename" \in Steps
      BY <1>2 DEF SyncName, Fsync, At, Steps
    <2>2. Fits(session, disk) /\ session \in Session
      BY <2>1, Under
    <2>3. Fits(session', disk)
      BY <2>1, <2>2, Moved DEF Fits, Writing, NextPhase, Draft
    <2> QED
      BY <2>1, <2>3, Fsyncing
  <1>3. CASE MkdirSync
    <2>1. Fsync("mkdir_sync", "stage") /\ session.pc = "mkdir_sync" /\ Goto("stage") /\ "mkdir_sync" \in Steps /\ "stage" \in Steps
      BY <1>3 DEF MkdirSync, Fsync, At, Steps
    <2>2. Fits(session, disk) /\ session \in Session
      BY <2>1, Under
    <2>3. Fits(session', disk)
      BY <2>1, <2>2, Moved DEF Fits, Fresh
    <2> QED
      BY <2>1, <2>3, Fsyncing
  <1>4. CASE QuarantineSync
    <2>1. Fsync("quarantine_sync", "quarantine") /\ session.pc = "quarantine_sync" /\ Goto("quarantine") /\ "quarantine_sync" \in Steps /\ "quarantine" \in Steps
      BY <1>4 DEF QuarantineSync, Fsync, At, Steps
    <2>2. Fits(session, disk) /\ session \in Session
      BY <2>1, Under
    <2>3. Fits(session', disk)
      BY <2>1, <2>2, Moved DEF Fits, InHand
    <2> QED
      BY <2>1, <2>3, Fsyncing
  <1>5. CASE PublishSync
    <2>1. Fsync("publish_sync", "publish") /\ session.pc = "publish_sync" /\ Goto("publish") /\ "publish_sync" \in Steps /\ "publish" \in Steps
      BY <1>5 DEF PublishSync, Fsync, At, Steps
    <2>2. Fits(session, disk) /\ session \in Session
      BY <2>1, Under
    <2>3. Fits(session', disk)
      BY <2>1, <2>2, Moved DEF Fits, InHand
    <2> QED
      BY <2>1, <2>3, Fsyncing
  <1>6. CASE RollbackSync
    <2>1. /\ session.pc = "rollback_sync" /\ FsyncDir /\ Local /\ "requarantine" \in Steps
          /\ Loop("requarantine", Present(disk.live), Present(session.mem.old), {})
      BY <1>6 DEF RollbackSync, At, Steps
    <2>2. /\ Fits(session, disk) /\ session \in Session /\ disk \in Disk /\ Good(disk)
          /\ serving \in BOOLEAN
      BY <2>1, Under
    <2>3. InHand(session, disk, Undoing, {"rolling_back"}) /\ disk.quarantine.exists
      BY <2>1, <2>2 DEF Fits
    <2>4. /\ Present(disk.live) \in SUBSET Names /\ Present(session.mem.old) \in SUBSET Names
          /\ {} \in SUBSET Names
      BY DEF Present
    <2>5. /\ session' \in Session /\ session'.pc = "requarantine" /\ session'.mode = session.mode
          /\ session'.job = session.job /\ session'.snapshot = session.snapshot
          /\ session'.mem = session.mem /\ session'.draft = session.draft
          /\ session'.listed = Present(disk.live) /\ session'.todo = Present(session.mem.old)
      BY <2>1, <2>2, <2>4, Looped
    <2>6. Missing(session, disk) \subseteq Present(disk.live)
      BY <2>2, <2>3, GoodListed DEF InHand
    <2>7. Fits(session', disk)
      BY <2>3, <2>5, <2>6 DEF Fits, InHand, Missing
    <2>8. disk' = disk /\ window' = {disk}
      BY <2>1 DEF FsyncDir
    <2>9. Windowed' /\ Kept
      <3>1. ~serving /\ serving' \in BOOLEAN /\ UNCHANGED serving /\ Windowed
        BY <2>1, <2>2, SessionAlone DEF IndInv, Local
      <3> QED
        BY <2>1, <3>1, Synchronised
    <2> QED
      BY <2>1, <2>5, <2>7, <2>8, <2>9, Undergoing
  <1>7. CASE RequarantineSync
    <2>1. Fsync("requarantine_sync", "requarantine") /\ session.pc = "requarantine_sync" /\ Goto("requarantine") /\ "requarantine_sync" \in Steps /\ "requarantine" \in Steps
      BY <1>7 DEF RequarantineSync, Fsync, At, Steps
    <2>2. Fits(session, disk) /\ session \in Session
      BY <2>1, Under
    <2>3. Fits(session', disk)
      BY <2>1, <2>2, Moved DEF Fits, InHand, Missing
    <2> QED
      BY <2>1, <2>3, Fsyncing
  <1>8. CASE UnpublishSync
    <2>1. Fsync("unpublish_sync", "unpublish") /\ session.pc = "unpublish_sync" /\ Goto("unpublish") /\ "unpublish_sync" \in Steps /\ "unpublish" \in Steps
      BY <1>8 DEF UnpublishSync, Fsync, At, Steps
    <2>2. Fits(session, disk) /\ session \in Session
      BY <2>1, Under
    <2>3. Fits(session', disk)
      BY <2>1, <2>2, Moved DEF Fits, InHand, Missing
    <2> QED
      BY <2>1, <2>3, Fsyncing
  <1>9. CASE ReinstateSync
    <2>1. Fsync("reinstate_sync", "reinstate") /\ session.pc = "reinstate_sync" /\ Goto("reinstate") /\ "reinstate_sync" \in Steps /\ "reinstate" \in Steps
      BY <1>9 DEF ReinstateSync, Fsync, At, Steps
    <2>2. Fits(session, disk) /\ session \in Session
      BY <2>1, Under
    <2>3. Fits(session', disk)
      BY <2>1, <2>2, Moved DEF Fits, InHand, Missing
    <2> QED
      BY <2>1, <2>3, Fsyncing
  <1> QED
    BY <1>1, <1>2, <1>3, <1>4, <1>5, <1>6, <1>7, <1>8, <1>9

-----------------------------------------------------------------------------
(* Changes that move no state file *)

\* Another temporary makes no difference to a disk.
LEMMA GoodTmp ==
  ASSUME NEW d, Good(d), NEW t \in Journal, t.phase = "none" => t = NoJournal
  PROVE  Good([d EXCEPT !.tmp = t])
  <1> DEFINE e == [d EXCEPT !.tmp = t]
  <1>1. /\ e \in Disk /\ e.live = d.live /\ e.staging = d.staging
        /\ e.quarantine = d.quarantine /\ e.tmp = t /\ e.journal = d.journal
    BY DEF Good, Disk
  <1>2. \A j : Evidence(d, j) <=> Evidence(e, j)
    BY <1>1 DEF Evidence, CommittedEvidence, ForwardEvidence, RollbackEvidence
  <1>3. \A j : Disjoint(d, j) <=> Disjoint(e, j)
    BY <1>1 DEF Disjoint
  <1> HIDE DEF e
  <1>4. Good(e)
    BY <1>1, <1>2, <1>3 DEF Good
  <1> QED
    BY <1>4 DEF e

\* The state files and the journal stay.
LEMMA Aside ==
  ASSUME Windowed, NEW e, Good(e), Change(e), UNCHANGED serving,
         e.live = disk.live, e.journal = disk.journal
  PROVE  Windowed' /\ Kept
  <1>1. e \in Disk /\ disk \in Disk
    BY DEF Windowed, Good
  <1>2. disk.journal.phase # "committed" => Outcome(e) = Outcome(disk)
    BY DEF Outcome
  <1> QED
    BY <1>2, Grow

\* A state file moves under the durable journal of an unfinished transaction.
LEMMA Moving ==
  ASSUME Windowed, NEW e, Good(e), Change(e), UNCHANGED serving,
         window = {disk}, e.journal = disk.journal, disk.journal.phase \in Real
  PROVE  Windowed' /\ Kept
  <1>1. e \in Disk /\ disk \in Disk
    BY DEF Windowed, Good
  <1>2. disk.journal.phase # "committed" => Outcome(e) = Outcome(disk)
    BY <1>1, OutcomeFacts DEF Real
  <1> QED
    BY <1>2, Grow

-----------------------------------------------------------------------------
(* Writing a journal *)

\* Once no temporary is in the way the journal is read, or written.
LEMMA Discarding ==
  ASSUME IndInv, session.pc \in {"discard", "discard_sync"}, Discarded
  PROVE  /\ session' \in Session /\ session'.job = session.job
         /\ session'.snapshot = session.snapshot /\ session'.mode = session.mode
         /\ session'.pc \in {"decide", "create"} /\ Fits(session', disk)
  <1>1. session \in Session /\ Fits(session, disk)
    BY Under
  <1>2. \/ InHand(session, disk, {"recovering"}, Real)
        \/ disk.journal = session.mem /\ NextPhase(session, disk)
    BY <1>1 DEF Fits
  <1>3. CASE session.draft = NoJournal
    <2>1. InHand(session, disk, {"recovering"}, Real)
      BY <1>2, <1>3, NoJournalFacts DEF NextPhase
    <2>2. Goto("decide") /\ "decide" \in Steps
      BY <1>3 DEF Discarded, Steps
    <2> HIDE DEF Discarded
    <2>3. /\ session' \in Session /\ session'.pc = "decide" /\ session'.mode = session.mode
          /\ session'.job = session.job /\ session'.snapshot = session.snapshot
          /\ session'.mem = session.mem /\ session'.draft = session.draft
      BY <1>1, <2>2, Moved
    <2>4. Fits(session', disk)
      BY <2>1, <2>3 DEF Fits, InHand
    <2> QED
      BY <2>3, <2>4
  <1>4. CASE session.draft # NoJournal
    <2>1. disk.journal = session.mem /\ NextPhase(session, disk)
      BY <1>2, <1>4 DEF InHand
    <2>2. session' = [session EXCEPT !.pc = "create", !.mem = session.draft]
      BY <1>4 DEF Discarded
    <2>3. /\ session' \in Session /\ session'.pc = "create" /\ session'.mode = session.mode
          /\ session'.job = session.job /\ session'.snapshot = session.snapshot
          /\ session'.mem = session.draft /\ session'.draft = session.draft
      BY <1>1, <2>2 DEF Session, Steps
    <2>4. Writing(session', disk)
      BY <2>1, <2>3 DEF Writing, NextPhase
    <2>5. Fits(session', disk)
      BY <2>3, <2>4 DEF Fits
    <2> QED
      BY <2>3, <2>5
  <1> QED
    BY <1>3, <1>4

\* The temporary goes, and its going is made durable.
LEMMA DiscardStep ==
  ASSUME IndInv, Discard \/ DiscardSync
  PROVE  IndInv' /\ Kept
  <1>1. session.pc \in {"discard", "discard_sync"} /\ Local /\ UNCHANGED serving
    BY DEF Discard, DiscardSync, At, Local
  <1>2. /\ session \in Session /\ disk \in Disk /\ Good(disk) /\ Fits(session, disk)
        /\ ~serving /\ serving \in BOOLEAN /\ session.mode \in Modes \ {"idle"}
        /\ session.mode \in {"publishing", "unwinding"} => session.job = "restore"
        /\ Windowed
    BY <1>1, Under
  <1>3. CASE Discarded /\ Keep
    <2>1. disk' = disk /\ Windowed' /\ Kept
      BY <1>1, <1>2, <1>3, Still DEF Keep
    <2>2. /\ session' \in Session /\ session'.job = session.job
          /\ session'.snapshot = session.snapshot /\ session'.mode = session.mode
          /\ session'.pc \in {"decide", "create"} /\ Fits(session', disk')
      BY <1>1, <1>3, <2>1, Discarding
    <2> QED
      BY <1>1, <1>2, <2>1, <2>2, Continue DEF Synced
  <1>4. CASE Discarded /\ FsyncDir
    <2>1. disk' = disk /\ Windowed' /\ Kept
      BY <1>1, <1>2, <1>4, Synchronised DEF FsyncDir
    <2>2. /\ session' \in Session /\ session'.job = session.job
          /\ session'.snapshot = session.snapshot /\ session'.mode = session.mode
          /\ session'.pc \in {"decide", "create"} /\ Fits(session', disk')
      BY <1>1, <1>4, <2>1, Discarding
    <2> QED
      BY <1>1, <1>2, <2>1, <2>2, Continue DEF Synced
  <1>5. CASE /\ session.pc = "discard" /\ Goto("discard_sync")
             /\ Change([disk EXCEPT !.tmp = NoJournal])
    <2> DEFINE e == [disk EXCEPT !.tmp = NoJournal]
    <2>1. /\ e.live = disk.live /\ e.journal = disk.journal
          /\ e.staging = disk.staging /\ e.quarantine = disk.quarantine
      BY <1>2 DEF Disk
    <2>2. Good(e) /\ Change(e)
      BY <1>2, <1>5, GoodTmp, NoJournalFacts
    <2> HIDE DEF e
    <2>3. Windowed' /\ Kept
      BY <1>1, <1>2, <2>1, <2>2, Aside
    <2>4. "discard_sync" \in Steps
      BY DEF Steps
    <2>5. /\ session' \in Session /\ session'.pc = "discard_sync" /\ session'.mode = session.mode
          /\ session'.job = session.job /\ session'.snapshot = session.snapshot
          /\ session'.mem = session.mem /\ session'.draft = session.draft
      BY <1>2, <1>5, <2>4, Moved
    <2>6. Fits(session', e)
      BY <1>2, <1>5, <2>1, <2>5 DEF Fits, InHand, NextPhase, Published
    <2>7. disk' = e
      BY <2>2 DEF Change
    <2> QED
      BY <1>1, <1>2, <2>3, <2>5, <2>6, <2>7, Continue DEF Synced
  <1> QED
    BY <1>3, <1>4, <1>5 DEF Discard, DiscardSync, At

\* Only the temporary changes and the session steps.
LEMMA TmpStep ==
  ASSUME IndInv, session.pc \notin {"idle", "load"},
         NEW pc, NEW t \in Journal, NEW next \in Steps \ ({"idle"} \cup Synced),
         t.phase = "none" => t = NoJournal, Do(pc, [disk EXCEPT !.tmp = t], next),
         Fits(session', [disk EXCEPT !.tmp = t])
  PROVE  IndInv' /\ Kept
  <1> DEFINE e == [disk EXCEPT !.tmp = t]
  <1>1. disk \in Disk /\ Good(disk) /\ Windowed
    BY Under
  <1>2. e.live = disk.live /\ e.journal = disk.journal
    BY <1>1 DEF Disk
  <1>3. Good(e)
    BY <1>1, GoodTmp
  <1>4. Do(pc, e, next) /\ Fits(session', e)
    OBVIOUS
  <1> HIDE DEF e
  <1>5. Change(e) /\ UNCHANGED serving
    BY <1>4 DEF Do, Local
  <1>6. Windowed' /\ Kept
    BY <1>1, <1>2, <1>3, <1>5, Aside
  <1> QED
    BY <1>4, <1>6, Doing

\* What a journal is written from does not depend on the temporary.
LEMMA StillWriting ==
  ASSUME NEW s, NEW t, NEW d, NEW e, Writing(s, d),
         t.mem = s.mem, t.draft = s.draft, t.mode = s.mode, t.snapshot = s.snapshot,
         e.live = d.live, e.staging = d.staging, e.quarantine = d.quarantine, e.journal = d.journal
  PROVE  Writing(t, e)
  BY DEF Writing, NextPhase, Staged, Published

\* The journals that are written.
LEMMA WritingFacts ==
  ASSUME NEW s \in Session, NEW d, Writing(s, d)
  PROVE  /\ s.draft \in Journal /\ s.draft.phase \in Real /\ ~s.draft.synced
         /\ Draft(s) \in Journal /\ Draft(s).phase = s.draft.phase /\ Draft(s).old = s.draft.old
         /\ Draft(s).new = s.draft.new /\ Draft(s).synced /\ Draft(s) # NoJournal
  <1>1. s.draft \in Journal
    BY SessionFacts
  <1>2. s.draft.phase \in Real /\ ~s.draft.synced
    <2>1. CASE s.draft.phase = "prepared" /\ ~s.draft.synced
      BY <2>1 DEF Real
    <2>2. CASE NextPhase(s, d) /\ s.mem = s.draft
      <3>1. s.draft.phase \in Real
        BY <2>2 DEF NextPhase, Real
      <3>2. s.draft = [d.journal EXCEPT !.phase = s.draft.phase, !.synced = FALSE] /\ d.journal.phase = "prepared"
        BY <2>2 DEF NextPhase
      <3>3. "synced" \in DOMAIN s.draft
        BY <1>1 DEF Journal
      <3>4. ~s.draft.synced
        BY <3>2, <3>3
      <3> QED
        BY <3>1, <3>4
    <2> QED
      BY <2>1, <2>2 DEF Writing
  <1>3. /\ Draft(s) \in Journal /\ Draft(s).phase = s.draft.phase /\ Draft(s).old = s.draft.old
        /\ Draft(s).new = s.draft.new /\ Draft(s).synced
    BY <1>1 DEF Draft, Journal
  <1> QED
    BY <1>1, <1>2, <1>3, NoJournalFacts DEF Real

\* The temporary is created, written and made durable under its own name.
LEMMA CreateStep ==
  ASSUME IndInv, Create
  PROVE  IndInv' /\ Kept
  <1> DEFINE e == [disk EXCEPT !.tmp = Torn]
  <1>1. Do("create", e, "write") /\ session.pc = "create" /\ Goto("write")
    BY DEF Create, Do, At
  <1>2. session \in Session /\ disk \in Disk /\ Writing(session, disk)
    BY <1>1, Under DEF Fits
  <1>3. e.live = disk.live /\ e.staging = disk.staging /\ e.quarantine = disk.quarantine /\ e.journal = disk.journal
    BY <1>2 DEF Disk
  <1>4. "write" \in Steps \ ({"idle"} \cup Synced)
    BY DEF Steps, Synced
  <1>5. /\ session'.pc = "write" /\ session'.mode = session.mode /\ session'.snapshot = session.snapshot
        /\ session'.mem = session.mem /\ session'.draft = session.draft
    BY <1>1, <1>2, <1>4, Moved
  <1>6. Fits(session', e)
    <2> HIDE DEF e
    <2>1. Writing(session', e)
      BY <1>2, <1>3, <1>5, StillWriting
    <2> QED
      BY <1>5, <2>1 DEF Fits
  <1> QED
    BY <1>1, <1>4, <1>6, TmpStep, NoJournalFacts

LEMMA WriteTmpStep ==
  ASSUME IndInv, WriteTmp
  PROVE  IndInv' /\ Kept
  <1> DEFINE e == [disk EXCEPT !.tmp = session.draft]
  <1>1. Do("write", e, "sync_file") /\ session.pc = "write" /\ Goto("sync_file")
    BY DEF WriteTmp, Do, At
  <1>2. session \in Session /\ disk \in Disk /\ Writing(session, disk)
    BY <1>1, Under DEF Fits
  <1>3. /\ e.live = disk.live /\ e.staging = disk.staging /\ e.quarantine = disk.quarantine
        /\ e.journal = disk.journal /\ e.tmp = session.draft
    BY <1>2 DEF Disk
  <1>4. "sync_file" \in Steps \ ({"idle"} \cup Synced)
    BY DEF Steps, Synced
  <1>5. /\ session'.pc = "sync_file" /\ session'.mode = session.mode /\ session'.snapshot = session.snapshot
        /\ session'.mem = session.mem /\ session'.draft = session.draft
    BY <1>1, <1>2, <1>4, Moved
  <1>6. Fits(session', e)
    <2> HIDE DEF e
    <2>1. Writing(session', e)
      BY <1>2, <1>3, <1>5, StillWriting
    <2> QED
      BY <1>3, <1>5, <2>1 DEF Fits
  <1>7. session.draft \in Journal /\ session.draft.phase # "none"
    BY <1>2, WritingFacts DEF Real
  <1> QED
    BY <1>1, <1>4, <1>6, <1>7, TmpStep

LEMMA SyncFileStep ==
  ASSUME IndInv, SyncFile
  PROVE  IndInv' /\ Kept
  <1> DEFINE Written(d) == IF d.tmp = NoJournal THEN d
                           ELSE [d EXCEPT !.tmp = [session.draft EXCEPT !.synced = TRUE]]
  <1>1. /\ disk' = Written(disk) /\ window' = {Written(d) : d \in window}
        /\ session.pc = "sync_file" /\ Goto("sync_name") /\ Local /\ UNCHANGED serving
    BY DEF SyncFile, At, Local
  <1>2. /\ session \in Session /\ disk \in Disk /\ Writing(session, disk) /\ disk.tmp = session.draft
        /\ Windowed /\ disk \in window /\ ~serving /\ session.mode \in Modes \ {"idle"}
        /\ session.mode \in {"publishing", "unwinding"} => session.job = "restore"
    BY <1>1, Under DEF Fits
  <1>3. /\ Draft(session) \in Journal /\ Draft(session).phase # "none"
        /\ Draft(session) = [session.draft EXCEPT !.synced = TRUE] /\ disk.tmp # NoJournal
    <2>1. /\ Draft(session) \in Journal /\ Draft(session).phase = session.draft.phase
          /\ session.draft.phase \in Real
      BY <1>2, WritingFacts
    <2> QED
      BY <1>2, <2>1, NoJournalFacts DEF Draft, Real
  <1>4. ASSUME NEW d \in window
        PROVE  /\ Good(Written(d)) /\ Written(d).live = d.live /\ Written(d).journal = d.journal
               /\ Written(d).staging = d.staging /\ Written(d).quarantine = d.quarantine
               /\ d.tmp # NoJournal => Written(d).tmp = Draft(session)
    <2>1. Good(d) /\ d \in Disk
      BY <1>2 DEF Windowed, Good
    <2>2. CASE d.tmp = NoJournal
      BY <2>1, <2>2
    <2>3. CASE d.tmp # NoJournal
      <3>1. Written(d) = [d EXCEPT !.tmp = Draft(session)]
        BY <1>3, <2>3
      <3>2. Good([d EXCEPT !.tmp = Draft(session)])
        BY <1>3, <2>1, GoodTmp
      <3> QED
        BY <2>1, <3>1, <3>2 DEF Disk
    <2> QED
      BY <2>2, <2>3
  <1>5. \A d \in window : Outcome(Written(d)) = Outcome(d)
    BY <1>4 DEF Outcome
  <1> HIDE DEF Written
  <1>6. Windowed'
    BY <1>1, <1>2, <1>4, <1>5 DEF Windowed, OneLive, OneOutcome
  <1>7. Generation' = Generation
    BY <1>1, <1>2, <1>4, <1>5 DEF Generation
  <1>8. Kept
    BY <1>1, <1>2, <1>4, <1>7 DEF Kept, Promise!vars
  <1>9. "sync_name" \in Steps
    BY DEF Steps
  <1>10. /\ session' \in Session /\ session'.pc = "sync_name" /\ session'.mode = session.mode
         /\ session'.job = session.job /\ session'.snapshot = session.snapshot
         /\ session'.mem = session.mem /\ session'.draft = session.draft
    BY <1>1, <1>2, <1>9, Moved
  <1>11. Writing(session', disk') /\ disk'.tmp = Draft(session')
    <2>1. Draft(session') = Draft(session)
      BY <1>10 DEF Draft
    <2>2. /\ disk'.live = disk.live /\ disk'.staging = disk.staging /\ disk'.quarantine = disk.quarantine
          /\ disk'.journal = disk.journal /\ disk'.tmp = Draft(session)
      BY <1>1, <1>2, <1>3, <1>4
    <2> QED
      BY <1>2, <1>10, <2>1, <2>2, StillWriting
  <1>12. Fits(session', disk')
    BY <1>10, <1>11 DEF Fits
  <1> QED
    BY <1>1, <1>2, <1>6, <1>8, <1>10, <1>12, Continue DEF Synced

\* A disk on which nothing has been moved yet is good.
LEMMA GoodPrepared ==
  ASSUME NEW d \in Disk, d.journal.phase = "prepared", Staged(d, d.journal), d.tmp = NoJournal
  PROVE  Good(d)
  <1> DEFINE j == d.journal
  <1>1. j.old \in Files /\ j.new \in Files
    BY DiskFacts
  <1>2. ForwardEvidence(d, j)
    <2>1. /\ d.staging.exists /\ d.staging.files = j.new
          /\ d.quarantine.exists /\ d.quarantine.files = Empty /\ d.live = j.old
      BY DEF Staged
    <2>2. Within(d.staging.files, j.new) /\ Within(d.quarantine.files, j.old)
      BY <1>1, <2>1, EmptyFacts DEF Within
    <2>3. LiveSubset(d.live, j)
      BY <2>1 DEF LiveSubset
    <2>4. Complete(j.old, d.quarantine.files, d.live) /\ Complete(j.new, d.staging.files, d.live)
      BY <2>1 DEF Complete, Present
    <2> QED
      BY <2>1, <2>2, <2>3, <2>4 DEF ForwardEvidence, RollbackEvidence
  <1>3. Disjoint(d, j)
    BY EmptyFacts DEF Disjoint, Staged
  <1> QED
    BY <1>2, <1>3 DEF Good, Evidence, Real, Staged

\* A prepared transaction may always turn to its rollback.
LEMMA GoodRolling ==
  ASSUME NEW d, Good(d), d.journal.phase = "prepared", NEW e \in Disk, e.tmp = NoJournal,
         e.live = d.live, e.staging = d.staging, e.quarantine = d.quarantine,
         e.journal.phase = "rolling_back", e.journal.old = d.journal.old,
         e.journal.new = d.journal.new, e.journal.synced
  PROVE  Good(e)
  <1>1. RollbackEvidence(d, d.journal) /\ Disjoint(d, d.journal)
    BY DEF Good, Evidence, Real, ForwardEvidence
  <1>2. RollbackEvidence(e, e.journal)
    BY <1>1 DEF RollbackEvidence, LiveSubset
  <1>3. Disjoint(e, e.journal)
    BY <1>1 DEF Disjoint
  <1> QED
    BY <1>2, <1>3 DEF Good, Evidence, Real

\* And to its commit when all files have been published.
LEMMA GoodCommitted ==
  ASSUME NEW d \in Disk, d.journal.phase = "committed", Published(d, d.journal), d.tmp = NoJournal,
         d.journal.new \in Snapshots, d.journal.synced
  PROVE  Good(d)
  <1>1. d.journal.old \in Files /\ d.journal.new \in Files
    BY DiskFacts
  <1>2. CommittedEvidence(d, d.journal)
    BY <1>1, EmptyFacts DEF CommittedEvidence, Published, Within
  <1> QED
    BY <1>2 DEF Good, Evidence, Real

\* The rename: the journal written is the journal.
LEMMA RenameStep ==
  ASSUME IndInv, Rename
  PROVE  IndInv' /\ Kept
  <1> DEFINE e == [disk EXCEPT !.journal = disk.tmp, !.tmp = NoJournal]
             j == Draft(session)
  <1>1. /\ session.pc = "rename" /\ Change(e) /\ Local /\ UNCHANGED serving
        /\ session' = [session EXCEPT !.pc = "sync_rename", !.mem = disk.tmp, !.draft = NoJournal]
    BY DEF Rename, At, Local
  <1>2. /\ session \in Session /\ disk \in Disk /\ Writing(session, disk) /\ disk.tmp = j
        /\ window = {disk} /\ Windowed /\ Good(disk) /\ ~serving /\ session.mode \in Modes \ {"idle"}
        /\ session.mode \in {"publishing", "unwinding"} => session.job = "restore"
        /\ session.job = "restore" => session.snapshot \in Snapshots
    BY <1>1, Under DEF Fits, Synced
  <1>3. /\ j \in Journal /\ j.phase = session.draft.phase /\ j.old = session.draft.old
        /\ j.new = session.draft.new /\ j.synced
    BY <1>2, WritingFacts
  <1>4. /\ e \in Disk /\ e.live = disk.live /\ e.staging = disk.staging
        /\ e.quarantine = disk.quarantine /\ e.tmp = NoJournal /\ e.journal = j
    BY <1>2, <1>3, NoJournalFacts DEF Disk
  <1>5. /\ session' \in Session /\ session'.pc = "sync_rename" /\ session'.mode = session.mode
        /\ session'.job = session.job /\ session'.snapshot = session.snapshot
        /\ session'.mem = j /\ session'.draft = NoJournal
    BY <1>1, <1>2, <1>3, NoJournalFacts DEF Session, Steps
  <1>6. disk' = e
    BY <1>1 DEF Change
  <1> HIDE DEF e, j
  <1>7. CASE /\ session.draft.phase = "prepared" /\ session.mode = "publishing"
             /\ disk.journal = NoJournal
             /\ Staged(disk, session.draft) /\ session.draft.new = session.snapshot
    <2>1. Staged(e, j)
      BY <1>3, <1>4, <1>7 DEF Staged
    <2>2. Good(e)
      BY <1>3, <1>4, <1>7, <2>1, GoodPrepared
    <2>3. Outcome(e) = Outcome(disk)
      BY <1>2, <1>3, <1>4, <1>7, <2>1, OutcomeFacts, NoJournalFacts DEF Staged, Real
    <2>4. Windowed' /\ Kept
      BY <1>1, <1>2, <1>3, <1>4, <1>7, <2>2, <2>3, Grow, NoJournalFacts DEF Real
    <2>5. Fits(session', e)
      BY <1>3, <1>4, <1>5, <1>7, <2>1 DEF Fits, InHand
    <2> QED
      BY <1>1, <1>2, <1>5, <1>6, <2>4, <2>5, Continue DEF Synced
  <1>8. CASE NextPhase(session, disk)
    <2>1. disk.journal.phase = "prepared" /\ disk.journal \in Journal
      BY <1>2, <1>8, DiskFacts DEF NextPhase
    <2>2. j.old = disk.journal.old /\ j.new = disk.journal.new
      <3> DEFINE p == session.draft.phase
      <3>1. session.draft = [disk.journal EXCEPT !.phase = p, !.synced = FALSE]
        BY <1>8 DEF NextPhase
      <3> HIDE DEF p
      <3>2. session.draft.old = disk.journal.old /\ session.draft.new = disk.journal.new
        BY <2>1, <3>1 DEF Journal
      <3> QED
        BY <1>3, <3>2
    <2>3. CASE session.draft.phase = "rolling_back" /\ session.mode \in Undoing
      <3>1. Good(e)
        BY <1>2, <1>3, <1>4, <2>1, <2>2, <2>3, GoodRolling
      <3>2. Outcome(e) = Outcome(disk)
        BY <1>2, <1>3, <1>4, <2>1, <2>2, <2>3, OutcomeFacts
      <3>3. Windowed' /\ Kept
        BY <1>1, <1>2, <1>3, <1>4, <2>1, <2>3, <3>1, <3>2, Grow DEF Real
      <3>4. Fits(session', e)
        BY <1>3, <1>4, <1>5, <2>3 DEF Fits, InHand
      <3> QED
        BY <1>1, <1>2, <1>5, <1>6, <3>3, <3>4, Continue DEF Synced
    <2>4. CASE /\ session.draft.phase = "committed" /\ session.mode = "publishing"
               /\ Published(disk, disk.journal) /\ session.draft.new = session.snapshot
      <3>1. Published(e, j)
        BY <1>4, <2>2, <2>4 DEF Published
      <3>2. Good(e)
        BY <1>2, <1>3, <1>4, <2>4, <3>1, GoodCommitted
      <3>3. Windowed' /\ Kept
        BY <1>1, <1>2, <1>3, <1>4, <2>1, <2>2, <2>4, <3>2, Grow DEF Real
      <3>4. Fits(session', e)
        BY <1>3, <1>4, <1>5, <2>4 DEF Fits, InHand
      <3> QED
        BY <1>1, <1>2, <1>5, <1>6, <3>3, <3>4, Continue DEF Synced
    <2> QED
      BY <1>8, <2>3, <2>4 DEF NextPhase
  <1> QED
    BY <1>2, <1>7, <1>8 DEF Writing

\* The rename is durable: the transaction takes its direction from the journal.
LEMMA SyncRenameStep ==
  ASSUME IndInv, SyncRename
  PROVE  IndInv' /\ Kept
  <1>1. session.pc = "sync_rename" /\ FsyncDir /\ Local /\ UNCHANGED serving
    BY DEF SyncRename, At, Local
  <1>2. session \in Session /\ disk \in Disk /\ Fits(session, disk)
    BY <1>1, Under
  <1>3. /\ session.mem.synced /\ session.mem.old \in Files
        /\ \/ /\ InHand(session, disk, {"publishing"}, {"prepared"}) /\ Staged(disk, session.mem)
              /\ session.mem.new = session.snapshot
           \/ InHand(session, disk, {"publishing"}, {"committed"})
           \/ InHand(session, disk, Undoing, {"rolling_back"})
    BY <1>1, <1>2, SessionFacts, JournalFacts DEF Fits
  <1>4. ASSUME NEW next \in {"quarantine", "cleanup", "decide", "rollback"}, Goto(next), Fits(session', disk)
        PROVE  IndInv' /\ Kept
    <2>1. Fsync("sync_rename", next) /\ "sync_rename" \in Steps \ {"idle", "load"} /\ next \in Steps \ {"idle"}
      BY <1>1, <1>4 DEF Fsync, At, Steps
    <2> QED
      BY <1>4, <2>1, Fsyncing
  <1>5. \A next \in {"quarantine", "cleanup", "decide", "rollback"} : Goto(next) =>
          /\ session'.pc = next /\ session'.mode = session.mode /\ session'.snapshot = session.snapshot
          /\ session'.mem = session.mem /\ session'.draft = session.draft
    BY <1>2, Moved DEF Steps
  <1>6. CASE /\ InHand(session, disk, {"publishing"}, {"prepared"}) /\ Staged(disk, session.mem)
             /\ session.mem.new = session.snapshot
    <2>1. Goto("quarantine")
      BY <1>6 DEF SyncRename, InHand
    <2>2. Within(disk.live, session.mem.old)
      BY <1>6 DEF Within, Staged
    <2>3. disk.staging = [exists |-> TRUE, files |-> session.mem.new] /\ disk.quarantine.exists
      BY <1>6 DEF Staged
    <2>4. Fits(session', disk)
      BY <1>3, <1>5, <1>6, <2>1, <2>2, <2>3 DEF Fits, InHand
    <2> QED
      BY <1>4, <2>1, <2>4
  <1>7. CASE InHand(session, disk, {"publishing"}, {"committed"})
    <2>1. Goto("cleanup")
      BY <1>7 DEF SyncRename, InHand
    <2>2. Fits(session', disk)
      BY <1>5, <1>7, <2>1 DEF Fits, InHand
    <2> QED
      BY <1>4, <2>1, <2>2
  <1>8. CASE InHand(session, disk, Undoing, {"rolling_back"})
    <2>1. (Goto("decide") /\ session.mode = "unwinding") \/ Goto("rollback")
      BY <1>8 DEF SyncRename, InHand
    <2>2. Fits(session', disk)
      BY <1>5, <1>8, <2>1 DEF Fits, InHand
    <2> QED
      BY <1>4, <2>1, <2>2
  <1> QED
    BY <1>3, <1>6, <1>7, <1>8

-----------------------------------------------------------------------------
(* Failures *)

\* What an unwind needs to know, every step of a publication does.
LEMMA UnwindFacts ==
  ASSUME NEW s \in Session, NEW d, Fits(s, d), s.mode = "publishing", s.pc \notin {"mkdir_staging", "unwind"}
  PROVE  \/ s.mem = NoJournal /\ d.journal = NoJournal
         \/ s.mem.phase = "prepared" /\ d.journal = s.mem
         \/ s.mem.phase = "committed"
  <1>1. s.pc \in Steps
    BY SessionFacts
  <1>2. CASE s.pc \in {"idle", "load"}
    BY <1>2, IdleFacts DEF Fits
  <1>3. CASE s.pc \in {"discard", "discard_sync"}
    <2>1. d.journal = s.mem /\ NextPhase(s, d)
      BY <1>3 DEF Fits, InHand
    <2> QED
      BY <2>1 DEF NextPhase
  <1>4. CASE s.pc \in {"create", "write", "sync_file", "sync_name", "rename", "abandon"}
    <2>1. Writing(s, d)
      BY <1>4 DEF Fits
    <2> QED
      BY <2>1 DEF Writing, NextPhase, Undoing
  <1>5. CASE s.pc \in {"mkdir_quarantine", "mkdir_sync", "stage", "prepare"}
    BY <1>5 DEF Fits, Fresh
  <1>6. CASE s.pc \in {"sync_rename", "quarantine", "quarantine_sync", "publish", "publish_sync",
                       "cleanup", "forget"}
    BY <1>6 DEF Fits, InHand, Undoing
  <1>7. CASE s.pc \in {"adopt_sync", "decide", "rollback", "rollback_sync", "requarantine",
                       "requarantine_move", "requarantine_sync", "unpublish", "unpublish_remove",
                       "unpublish_sync", "reinstate", "reinstate_sync", "unwind", "remove_staging", "remove_quarantine",
                       "remove_sync", "cleanup_sync"}
    BY <1>7 DEF Fits, InHand, Undoing
  <1>8. CASE s.pc = "forget_sync"
    BY <1>8 DEF Fits
  <1> QED
    BY <1>1, <1>2, <1>3, <1>4, <1>5, <1>6, <1>7, <1>8 DEF Steps

\* An error unwinds a publication and ends any other session.
LEMMA Raising ==
  ASSUME IndInv, session.pc \notin {"idle", "unwind"}, Raise, UNCHANGED serving, Windowed',
         disk'.journal = disk.journal, serving => Clean(disk')
  PROVE  IndInv'
  <1>1. session \in Session /\ Fits(session, disk) /\ serving \in BOOLEAN
    BY DEF IndInv, Sessions, Agents
  <1>2. CASE session.mode = "publishing" /\ session.pc # "mkdir_staging"
    <2>1. session.pc # "load"
      BY <1>1, <1>2 DEF Fits
    <2>2. ~serving /\ session.job = "restore"
      BY <1>2, <2>1, Under
    <2>3. /\ session' = [session EXCEPT !.pc = "unwind", !.mode = "unwinding", !.draft = NoJournal]
          /\ Local
      BY <1>2 DEF Raise, Local
    <2>4. /\ session' \in Session /\ session'.pc = "unwind" /\ session'.mode = "unwinding"
          /\ session'.job = session.job /\ session'.snapshot = session.snapshot
          /\ session'.mem = session.mem /\ session'.draft = NoJournal
      BY <1>1, <2>3, NoJournalFacts DEF Session, Steps, Modes
    <2>5. \/ session.mem = NoJournal /\ disk.journal = NoJournal
          \/ session.mem.phase = "prepared" /\ disk.journal = session.mem
          \/ session.mem.phase = "committed"
      BY <1>1, <1>2, UnwindFacts
    <2>6. Fits(session', disk')
      BY <2>4, <2>5 DEF Fits
    <2> QED
      BY <2>2, <2>3, <2>4, <2>6, Continue DEF Synced
  <1>3. CASE ~(session.mode = "publishing" /\ session.pc # "mkdir_staging")
    <2>1. End("failed")
      BY <1>3 DEF Raise
    <2> QED
      BY <1>1, <2>1, Finish
  <1> QED
    BY <1>2, <1>3

LEMMA FailStep ==
  ASSUME IndInv, Fail
  PROVE  IndInv' /\ Kept
  <1>1. session.pc \notin {"idle", "unwind"} /\ Keep /\ UNCHANGED serving
    BY DEF Fail
  <1>2. session \in Session /\ Fits(session, disk) /\ serving \in BOOLEAN /\ Windowed /\ disk' = disk
    BY <1>1 DEF IndInv, Sessions, Agents, Keep
  <1>3. Windowed' /\ Kept
    BY <1>1, <1>2, Still
  <1>4. ASSUME session.pc # "load", NEW next \in {"abandon", "remove_quarantine", "remove_sync"}, Goto(next),
               UNCHANGED result, Fits(session', disk)
        PROVE  IndInv' /\ Kept
    <2>1. next \in Steps \ {"idle"} /\ next \notin Synced /\ Local
      BY <1>1, <1>4 DEF Steps, Synced, Local
    <2> QED
      BY <1>1, <1>4, <2>1, Going
  <1>5. \A next \in {"abandon", "remove_quarantine", "remove_sync"} : Goto(next) =>
          /\ session'.pc = next /\ session'.mode = session.mode /\ session'.snapshot = session.snapshot
          /\ session'.mem = session.mem /\ session'.draft = session.draft
    BY <1>2, Moved DEF Steps
  <1>6. CASE session.pc \in {"write", "sync_file", "sync_name", "rename"}
    <2>1. Goto("abandon") /\ UNCHANGED result /\ Writing(session, disk)
      BY <1>2, <1>6 DEF Fail, Fits
    <2>2. Writing(session', disk)
      BY <1>5, <2>1, StillWriting
    <2>3. Fits(session', disk)
      BY <1>5, <2>1, <2>2 DEF Fits
    <2> QED
      BY <1>4, <1>6, <2>1, <2>3
  <1>7. CASE session.pc = "remove_staging"
    <2>1. Goto("remove_quarantine") /\ UNCHANGED result
      BY <1>7 DEF Fail
    <2>2. Fits(session', disk)
      BY <1>2, <1>5, <1>7, <2>1 DEF Fits
    <2> QED
      BY <1>4, <1>7, <2>1, <2>2
  <1>8. CASE session.pc = "remove_quarantine"
    <2>1. Goto("remove_sync") /\ UNCHANGED result
      BY <1>8 DEF Fail
    <2>2. Fits(session', disk)
      BY <1>2, <1>5, <1>8, <2>1 DEF Fits
    <2> QED
      BY <1>4, <1>8, <2>1, <2>2
  <1>9. CASE session.pc \notin {"write", "sync_file", "sync_name", "rename", "remove_staging", "remove_quarantine"}
    <2>1. Raise
      BY <1>9 DEF Fail
    <2>2. serving => Clean(disk')
      BY <1>2, SessionAlone
    <2> QED
      BY <1>1, <1>2, <1>3, <2>1, <2>2, Raising
  <1> QED
    BY <1>6, <1>7, <1>8, <1>9

\* A journal write that failed leaves no temporary.
LEMMA AbandonStep ==
  ASSUME IndInv, Abandon
  PROVE  IndInv' /\ Kept
  <1> DEFINE e == [disk EXCEPT !.tmp = NoJournal]
  <1>1. session.pc = "abandon" /\ Change(e) /\ Raise /\ UNCHANGED serving
    BY DEF Abandon, At
  <1>2. disk \in Disk /\ Good(disk) /\ Windowed /\ ~serving
    BY <1>1, Under
  <1>3. e.live = disk.live /\ e.journal = disk.journal
    BY <1>2 DEF Disk
  <1>4. Good(e)
    BY <1>2, GoodTmp, NoJournalFacts
  <1> HIDE DEF e
  <1>5. Windowed' /\ Kept
    BY <1>1, <1>2, <1>3, <1>4, Aside
  <1>6. disk' = e
    BY <1>1 DEF Change
  <1> QED
    BY <1>1, <1>2, <1>3, <1>5, <1>6, Raising

\* The lock holder dies.
LEMMA DieStep ==
  ASSUME IndInv, Die
  PROVE  IndInv' /\ Kept
  <1>1. /\ session' = Idle /\ result' = [job |-> "none", is |-> "none"]
        /\ Keep /\ UNCHANGED serving /\ disk' = disk
    BY DEF Die, Keep
  <1>2. Windowed' /\ Kept
    BY <1>1, Still DEF IndInv, Agents
  <1>3. Sessions'
    BY <1>1, IdleFacts DEF Sessions, Synced
  <1>4. result' \in Result /\ result'.is = "none"
    BY <1>1 DEF Result, Jobs
  <1>5. Agents'
    BY <1>1, <1>4, IdleFacts DEF IndInv, Agents
  <1> QED
    BY <1>2, <1>3, <1>5 DEF IndInv

\* The machine loses power: any disk of the window, with what it lost of its journal.
LEMMA PowerLossStep ==
  ASSUME IndInv, PowerLoss
  PROVE  IndInv' /\ Kept
  <1>0. PICK d \in window : \E j \in Survivors(d.journal), t \in Survivors(d.tmp) :
          disk' = [d EXCEPT !.journal = j, !.tmp = t]
    BY DEF PowerLoss
  <1>1. PICK j \in Survivors(d.journal), t \in Survivors(d.tmp) :
          disk' = [d EXCEPT !.journal = j, !.tmp = t]
    BY <1>0
  <1>2. /\ window' = {disk'} /\ session' = Idle /\ serving' = FALSE
        /\ result' = [job |-> "none", is |-> "none"]
    BY DEF PowerLoss
  <1>3. Good(d) /\ d \in Disk /\ Windowed /\ disk \in window /\ disk \in Disk
    BY DEF IndInv, Windowed, Good
  <1>4. /\ d.journal \in Journal /\ d.tmp \in Journal
        /\ j \in {d.journal, Torn} /\ (j = Torn => j = d.journal \/ ~d.journal.synced)
        /\ t \in {d.tmp, Torn} /\ (t.phase = "none" => t = NoJournal)
    <2>1. d.journal \in Journal /\ d.tmp \in Journal
      BY <1>3, DiskFacts
    <2>2. t \in {d.tmp, Torn} /\ j \in {d.journal, Torn} /\ (j # d.journal => ~d.journal.synced)
      BY DEF Survivors
    <2>3. d.tmp.phase = "none" => d.tmp = NoJournal
      BY <1>3 DEF Good
    <2> QED
      BY <2>1, <2>2, <2>3, NoJournalFacts
  <1> DEFINE f == [d EXCEPT !.journal = j]
             e == [d EXCEPT !.journal = j, !.tmp = t]
  <1>5. /\ f \in Disk /\ f.live = d.live /\ f.staging = d.staging
        /\ f.quarantine = d.quarantine /\ f.tmp = d.tmp /\ f.journal = j
    BY <1>3, <1>4, NoJournalFacts DEF Disk
  <1>6. e = [f EXCEPT !.tmp = t] /\ e \in Disk /\ e.live = d.live /\ e.journal = j
    BY <1>3, <1>4, NoJournalFacts DEF Disk
  <1>7. disk' = e
    BY <1>1
  <1> HIDE DEF f, e
  <1>8. Good(f) /\ Outcome(f) = Outcome(d) /\ (f.journal = d.journal \/ d.journal.phase = "prepared")
    <2>1. CASE j = d.journal
      <3>1. f = d
        BY <1>3, <2>1 DEF f, Disk
      <3> QED
        BY <1>3, <3>1
    <2>2. CASE ~d.journal.synced /\ j = Torn
      <3>1. d.journal.phase = "prepared" /\ d.live = d.journal.old /\ d.quarantine.files = Empty
        BY <1>3, <2>2 DEF Good
      <3>2. Good(f)
        BY <1>3, <1>5, <2>2, <3>1, NoJournalFacts DEF Good, Real
      <3>3. Outcome(f) = Outcome(d)
        BY <1>3, <1>5, <2>2, <3>1, NoJournalFacts, OutcomeFacts DEF Real
      <3> QED
        BY <3>1, <3>2, <3>3
    <2> QED
      BY <1>4, <2>1, <2>2
  <1>9. Good(e)
    BY <1>4, <1>6, <1>8, NoJournalFacts, GoodTmp
  <1>10. Outcome(e) = Outcome(d)
    BY <1>5, <1>6, <1>8 DEF Outcome
  <1>11. Windowed'
    BY <1>2, <1>6, <1>7, <1>9, OutcomeFacts DEF Windowed, OneLive, OneOutcome
  <1>12. ~serving /\ disk'.live # disk.live => \A x \in window : x.journal.phase \in Real
    BY <1>3, <1>6, <1>7 DEF Windowed, OneLive
  <1>13. Generation' = Outcome(d)
    BY <1>2, <1>7, <1>10 DEF Generation
  <1>14. [Promise!Next]_(Promise!vars)
    <2>1. CASE disk.journal.phase # "committed"
      <3>1. Generation' = Generation
        BY <1>3, <1>13, <2>1, GenerationFacts DEF Windowed, OneOutcome
      <3> QED
        BY <1>2, <3>1 DEF Promise!Next, Promise!Stop
    <2>2. CASE disk.journal.phase = "committed" /\ d.journal.phase = "prepared"
      <3>1. Generation' = d.journal.old /\ d.journal.old = disk.journal.old
        BY <1>3, <1>13, <2>2, OutcomeFacts DEF Windowed, OneOutcome
      <3>2. Generation = disk.journal.old
        BY <1>3, <2>2, GenerationFacts
      <3> QED
        BY <1>2, <3>1, <3>2 DEF Promise!Next, Promise!Stop
    <2>3. CASE disk.journal.phase = "committed" /\ d.journal.phase # "prepared"
      <3>1. Generation' = disk.journal.new /\ disk.journal.new \in Snapshots
        BY <1>3, <1>13, <2>3 DEF Windowed, OneOutcome, Good
      <3>2. serving = FALSE
        BY <2>3, SessionAlone
      <3> QED
        BY <1>2, <3>1, <3>2 DEF Promise!Next, Promise!Install
    <2> QED
      BY <2>1, <2>2, <2>3
  <1>15. Sessions'
    BY <1>2, IdleFacts DEF Sessions, Synced
  <1>16. result' \in Result /\ result'.is = "none"
    BY <1>2 DEF Result, Jobs
  <1>17. Agents'
    BY <1>2, <1>16, IdleFacts DEF Agents
  <1> QED
    BY <1>11, <1>12, <1>14, <1>15, <1>17 DEF IndInv, Kept

-----------------------------------------------------------------------------
(* Beginning, and the agent *)

LEMMA BeginStep ==
  ASSUME IndInv, NEW job \in {"restore", "start", "backup"}, NEW snapshot \in Files,
         job = "restore" => snapshot \in Snapshots, Begin(job, snapshot)
  PROVE  IndInv' /\ Kept
  <1>1. /\ session.pc = "idle" /\ (job \in {"restore", "start"} => ~serving)
        /\ session' = [Idle EXCEPT !.pc = "load", !.mode = "recovering", !.job = job,
                                   !.snapshot = snapshot]
        /\ result' = [job |-> "none", is |-> "none"] /\ Keep /\ UNCHANGED serving /\ disk' = disk
    BY DEF Begin, At, Keep
  <1>2. Windowed' /\ Kept
    BY <1>1, Still DEF IndInv, Agents
  <1>3. /\ session' \in Session /\ session'.pc = "load" /\ session'.mode = "recovering"
        /\ session'.job = job /\ session'.snapshot = snapshot
        /\ session'.mem = NoJournal /\ session'.draft = NoJournal
    BY <1>1, NoJournalFacts, EmptyFacts DEF Idle, Session, Steps, Modes, Jobs
  <1>4. result' \in Result /\ result'.is = "none"
    BY <1>1 DEF Result, Jobs
  <1>5. Fits(session', disk')
    BY <1>3 DEF Fits
  <1>6. Sessions'
    BY <1>3, <1>4, <1>5 DEF Sessions, Synced
  <1>7. Agents'
    BY <1>1, <1>3, <1>4 DEF IndInv, Agents
  <1> QED
    BY <1>2, <1>6, <1>7 DEF IndInv

LEMMA AgentStopsStep ==
  ASSUME IndInv, AgentStops
  PROVE  IndInv' /\ Kept
  <1>1. serving' = FALSE /\ Keep /\ disk' = disk /\ UNCHANGED <<session, result>>
    BY DEF AgentStops, Keep
  <1>2. Windowed' /\ Kept
    BY <1>1, Still DEF IndInv
  <1> QED
    BY <1>1, <1>2 DEF IndInv, Sessions, Agents, Keep

\* A serving agent leaves another generation.
LEMMA AgentWritesStep ==
  ASSUME IndInv, AgentWrites
  PROVE  IndInv' /\ Kept
  <1>1. PICK g \in Generations : disk' = [disk EXCEPT !.live = g]
    BY DEF AgentWrites
  <1>2. serving /\ window' = {disk'} /\ UNCHANGED <<session, serving, result>>
    BY DEF AgentWrites
  <1>3. /\ Clean(disk) /\ disk.journal = NoJournal /\ disk \in Disk /\ Good(disk) /\ Windowed /\ g \in Files
        /\ session.pc \in {"idle", "load"} /\ serving \in BOOLEAN
    BY <1>2, SessionAlone, StateAssumption DEF IndInv, Agents, Windowed, Good, Clean
  <1> DEFINE e == [disk EXCEPT !.live = g]
  <1>4. /\ e \in Disk /\ e.live = g /\ e.staging = disk.staging
        /\ e.quarantine = disk.quarantine /\ e.tmp = disk.tmp /\ e.journal = disk.journal
    BY <1>3 DEF Disk
  <1>5. disk' = e
    BY <1>1
  <1> HIDE DEF e
  <1>6. Good(e)
    BY <1>3, <1>4, NoJournalFacts DEF Good, Real
  <1>7. Windowed'
    BY <1>2, <1>4, <1>5, <1>6, OutcomeFacts DEF Windowed, OneLive, OneOutcome
  <1>8. Generation' = g
    BY <1>2, <1>3, <1>4, <1>5, NoJournalFacts, OutcomeFacts DEF Generation, Real
  <1>9. Kept
    BY <1>2, <1>8 DEF Kept, Promise!Next, Promise!Write
  <1>10. session.pc = "idle" => session = Idle
    BY DEF IndInv, Sessions, Fits
  <1>11. Fits(session', disk')
    <2>1. CASE session.pc = "idle"
      BY <1>2, <1>10, <2>1, IdleFacts
    <2>2. CASE session.pc = "load"
      <3>1. session.mode = "recovering" /\ session.mem = NoJournal /\ session.draft = NoJournal
        BY <2>2 DEF IndInv, Sessions, Fits
      <3> QED
        BY <1>2, <2>2, <3>1 DEF Fits
    <2> QED
      BY <1>3, <2>1, <2>2
  <1>12. Sessions'
    BY <1>2, <1>3, <1>11 DEF IndInv, Sessions, Synced
  <1>13. Agents'
    BY <1>2, <1>3, <1>4, <1>5, NoJournalFacts DEF IndInv, Agents, Clean, Residue, Real
  <1> QED
    BY <1>7, <1>9, <1>12, <1>13 DEF IndInv

-----------------------------------------------------------------------------
(* The recovery decision *)

\* On a clean directory a restore goes on to its publication, an agent serves, and a
\* backup ends.
LEMMA Recovering ==
  ASSUME IndInv, session.pc # "idle", session.draft = NoJournal, Clean(disk),
         Recovered, disk' = disk, Windowed'
  PROVE  IndInv' /\ serving' \in BOOLEAN
  <1>1. /\ session \in Session /\ session.job \in {"restore", "start", "backup"}
        /\ serving \in BOOLEAN /\ disk \in Disk /\ Good(disk)
    BY SessionFacts DEF IndInv, Sessions, Agents, Windowed, Good, Jobs
  <1>2. CASE session.job = "restore"
    <2>1. /\ session' = [session EXCEPT !.pc = "mkdir_staging", !.mode = "publishing", !.mem = NoJournal]
          /\ Local /\ UNCHANGED serving
      BY <1>2 DEF Recovered, Local
    <2>2. /\ session' \in Session /\ session'.pc = "mkdir_staging" /\ session'.mode = "publishing"
          /\ session'.job = session.job /\ session'.snapshot = session.snapshot
          /\ session'.mem = NoJournal /\ session'.draft = NoJournal
      BY <1>1, <2>1, NoJournalFacts DEF Session, Steps, Modes
    <2>3. /\ disk.journal = NoJournal /\ disk.tmp = NoJournal
          /\ disk.staging = NoDirectory /\ disk.quarantine = NoDirectory
      BY <1>1, DirectoryFacts, DiskFacts DEF Clean, Residue, Good
    <2>4. Fits(session', disk)
      BY <2>2, <2>3 DEF Fits, Fresh
    <2>5. ~serving
      BY <1>2, SessionAlone
    <2> QED
      BY <1>1, <1>2, <2>1, <2>2, <2>4, <2>5, Continue DEF Synced
  <1>3. CASE session.job # "restore"
    <2>1. End("ok") /\ serving' \in BOOLEAN
      BY <1>1, <1>3 DEF Recovered
    <2> QED
      BY <2>1, Finish
  <1> QED
    BY <1>2, <1>3

LEMMA LoadStep ==
  ASSUME IndInv, Load
  PROVE  IndInv' /\ Kept
  <1>1. session.pc = "load"
    BY DEF Load, At
  <1>2. /\ session \in Session /\ disk \in Disk /\ Good(disk) /\ Windowed /\ serving \in BOOLEAN
        /\ session.mode = "recovering" /\ session.mem = NoJournal /\ session.draft = NoJournal
        /\ disk.tmp \in Journal /\ disk.journal \in Journal /\ disk.journal.phase \in Phases
    BY <1>1, DiskFacts DEF IndInv, Sessions, Agents, Fits, Windowed, Good
  <1>3. CASE disk.journal.phase = "none" /\ ~Residue(disk) /\ Recovered /\ Keep
    <2>1. Clean(disk) /\ disk' = disk
      BY <1>2, <1>3 DEF Clean, Good, Keep
    <2>2. Windowed'
      BY <1>2, <1>3 DEF Windowed, Keep
    <2>3. IndInv' /\ serving' \in BOOLEAN
      BY <1>1, <1>2, <1>3, <2>1, <2>2, Recovering
    <2> QED
      BY <1>2, <1>3, <2>3, Still
  <1>4. CASE /\ disk.journal.phase = "none" /\ Residue(disk) /\ InitialEvidence(disk)
             /\ Change([disk EXCEPT !.journal = disk.tmp, !.tmp = NoJournal])
             /\ session' = [session EXCEPT !.pc = "adopt_sync", !.mem = disk.tmp]
             /\ Local
    <2> DEFINE e == [disk EXCEPT !.journal = disk.tmp, !.tmp = NoJournal]
    <2>1. /\ e \in Disk /\ e.live = disk.live /\ e.staging = disk.staging
          /\ e.quarantine = disk.quarantine /\ e.tmp = NoJournal /\ e.journal = disk.tmp
      BY <1>2, NoJournalFacts DEF Disk
    <2>2. Change(e) /\ UNCHANGED serving
      BY <1>4 DEF Local
    <2> HIDE DEF e
    <2>3. Staged(e, e.journal) /\ e.journal.phase = "prepared" /\ e.live = e.journal.old
      <3>1. disk.staging = [exists |-> TRUE, files |-> disk.tmp.new]
        BY <1>2, <1>4, DirectoryFacts, DiskFacts DEF InitialEvidence
      <3> QED
        BY <1>4, <2>1, <3>1 DEF InitialEvidence, Staged
    <2>4. Good(e)
      BY <2>1, <2>3, GoodPrepared
    <2>5. Outcome(e) = Outcome(disk)
      BY <1>2, <1>4, <2>1, <2>3, OutcomeFacts DEF Real
    <2>6. Windowed' /\ Kept
      BY <1>2, <1>4, <2>1, <2>2, <2>3, <2>4, <2>5, Grow DEF Real
    <2>7. /\ session' \in Session /\ session'.pc = "adopt_sync" /\ session'.mode = "recovering"
          /\ session'.job = session.job /\ session'.snapshot = session.snapshot
          /\ session'.mem = disk.tmp /\ session'.draft = NoJournal
      BY <1>2, <1>4 DEF Session, Steps
    <2>8. Fits(session', e)
      BY <2>1, <2>3, <2>7 DEF Fits, InHand
    <2>9. ~serving /\ disk' = e
      BY <1>4, <2>2, SessionAlone DEF Clean, Change
    <2> QED
      BY <1>1, <1>4, <2>6, <2>7, <2>8, <2>9, Continue DEF Synced
  <1>5. CASE disk.journal.phase \in {"none", "torn"} /\ Refuse
    <2>1. End("refused") /\ Keep /\ UNCHANGED serving /\ disk' = disk
      BY <1>2, <1>5 DEF Refuse, Keep
    <2>2. Windowed' /\ Kept
      BY <1>2, <2>1, Still
    <2>3. serving => Clean(disk)
      BY SessionAlone
    <2> QED
      BY <1>2, <1>5, <2>1, <2>2, <2>3, Finish DEF Real
  <1>6. CASE /\ disk.journal.phase \notin {"none", "torn"}
             /\ session' = [session EXCEPT !.pc = "discard", !.mem = disk.journal]
             /\ Keep /\ Local
    <2>1. disk' = disk /\ UNCHANGED serving
      BY <1>6 DEF Keep, Local
    <2>2. Windowed' /\ Kept
      BY <1>2, <1>6, <2>1, Still
    <2>3. /\ session' \in Session /\ session'.pc = "discard" /\ session'.mode = "recovering"
          /\ session'.job = session.job /\ session'.snapshot = session.snapshot
          /\ session'.mem = disk.journal /\ session'.draft = NoJournal
      BY <1>2, <1>6 DEF Session, Steps
    <2>4. Fits(session', disk)
      BY <1>2, <1>6, <2>3 DEF Fits, InHand, Real, Phases
    <2>5. ~serving
      BY <1>6, SessionAlone
    <2> QED
      BY <1>1, <1>6, <2>1, <2>2, <2>3, <2>4, <2>5, Continue DEF Synced
  <1> QED
    BY <1>3, <1>4, <1>5, <1>6 DEF Load

\* The next phase is drawn up, from the journal on disk.
LEMMA Turning ==
  ASSUME IndInv, session.pc \notin {"idle", "load"}, Keep, Local,
         NEW phase \in {"rolling_back", "committed"}, SetPhase(phase),
         session.mem.phase = "prepared", disk.journal = session.mem,
         phase = "rolling_back" => session.mode \in Undoing,
         phase = "committed" => /\ session.mode = "publishing" /\ Published(disk, disk.journal)
                                /\ session.mem.new = session.snapshot
  PROVE  IndInv' /\ Kept
  <1>1. /\ session \in Session /\ session.mem \in Journal /\ Windowed /\ ~serving /\ serving \in BOOLEAN
        /\ session.mode \in Modes \ {"idle"}
        /\ session.mode \in {"publishing", "unwinding"} => session.job = "restore"
    BY Under, SessionFacts
  <1> DEFINE j == [session.mem EXCEPT !.phase = phase, !.synced = FALSE]
  <1>2. j \in Journal /\ j.phase = phase /\ j.old = session.mem.old /\ j.new = session.mem.new
    BY <1>1 DEF Journal, Phases
  <1>3. j = [disk.journal EXCEPT !.phase = j.phase, !.synced = FALSE]
    BY <1>2
  <1>4. session' = [session EXCEPT !.pc = "discard", !.draft = j]
    BY DEF SetPhase
  <1> HIDE DEF j
  <1>5. /\ session' \in Session /\ session'.pc = "discard" /\ session'.mode = session.mode
        /\ session'.job = session.job /\ session'.snapshot = session.snapshot
        /\ session'.mem = session.mem /\ session'.draft = j
    BY <1>1, <1>2, <1>4 DEF Session, Steps
  <1>6. NextPhase(session', disk)
    BY <1>1, <1>2, <1>3, <1>5 DEF NextPhase, Undoing
  <1>7. Fits(session', disk)
    BY <1>5, <1>6 DEF Fits
  <1>8. disk' = disk /\ UNCHANGED serving
    BY DEF Keep, Local
  <1>9. Windowed' /\ Kept
    BY <1>1, <1>8, Still
  <1> QED
    BY <1>1, <1>5, <1>7, <1>8, <1>9, Continue DEF Synced

\* The evidence is what every disk shows: recovery acts, and never refuses here.
LEMMA DecideStep ==
  ASSUME IndInv, Decide
  PROVE  IndInv' /\ Kept
  <1>1. session.pc = "decide"
    BY DEF Decide, At
  <1>2. /\ session \in Session /\ disk \in Disk /\ Good(disk) /\ Windowed /\ ~serving /\ serving \in BOOLEAN
        /\ disk.journal = session.mem /\ session.draft = NoJournal /\ session.mem.phase \in Real
        /\ session.mode \in Undoing
        /\ session.mode = "unwinding" => session.mem.phase = "rolling_back"
        /\ session.mem \in Journal
        /\ session.mode \in {"publishing", "unwinding"} => session.job = "restore"
    BY <1>1, Under, SessionFacts DEF Fits, InHand, Undoing, Real
  <1>3. Evidence(disk, session.mem)
    BY <1>2 DEF Good
  <1>4. /\ Keep /\ Local /\ disk' = disk /\ UNCHANGED serving
        /\ CASE session.mem.phase = "committed"    -> Goto("cleanup")
             [] session.mem.phase = "prepared"     -> SetPhase("rolling_back")
             [] session.mem.phase = "rolling_back" -> Goto("rollback")
    BY <1>3 DEF Decide, Local, Keep
  <1>5. ASSUME NEW next \in {"cleanup", "rollback"}, Goto(next), Fits(session', disk)
        PROVE  IndInv' /\ Kept
    <2>1. next \in Steps \ {"idle"} /\ next \notin Synced
      BY DEF Steps, Synced
    <2> QED
      BY <1>1, <1>4, <1>5, <2>1, Going
  <1>6. \A next \in {"cleanup", "rollback"} : Goto(next) =>
          /\ session'.pc = next /\ session'.mode = session.mode /\ session'.snapshot = session.snapshot
          /\ session'.mem = session.mem /\ session'.draft = session.draft
    BY <1>2, Moved DEF Steps
  <1>7. CASE session.mem.phase = "committed"
    <2>1. Goto("cleanup") /\ session.mode = "recovering"
      BY <1>2, <1>4, <1>7 DEF Undoing
    <2>2. Fits(session', disk)
      BY <1>2, <1>6, <1>7, <2>1 DEF Fits, InHand
    <2> QED
      BY <1>5, <2>1, <2>2
  <1>8. CASE session.mem.phase = "rolling_back"
    <2>1. Goto("rollback")
      BY <1>4, <1>8
    <2>2. Fits(session', disk)
      BY <1>2, <1>6, <1>8, <2>1 DEF Fits, InHand
    <2> QED
      BY <1>5, <2>1, <2>2
  <1>9. CASE session.mem.phase = "prepared"
    <2>1. SetPhase("rolling_back") /\ session.mode = "recovering"
      BY <1>2, <1>4, <1>9 DEF Undoing
    <2> QED
      BY <1>1, <1>2, <1>4, <1>9, <2>1, Turning
  <1> QED
    BY <1>2, <1>7, <1>8, <1>9 DEF Real

-----------------------------------------------------------------------------
(* Staging *)

\* Before there is a journal, what is staged makes no difference to a disk.
LEMMA GoodBefore ==
  ASSUME NEW d, Good(d), d.journal = NoJournal, NEW e \in Disk, e.journal = NoJournal,
         e.tmp = d.tmp, e.quarantine.files = Empty
  PROVE  Good(e)
  BY NoJournalFacts DEF Good, Real

\* A file more, a file less: the parts of a directory afterwards.
LEMMA FileMoved ==
  ASSUME NEW x \in Directory, NEW f \in Files
  PROVE  LET y == [x EXCEPT !.files = f] IN
           /\ y.exists = x.exists /\ y.files = f
           /\ x.exists => y \in Directory /\ y = [exists |-> TRUE, files |-> f]
  <1> DEFINE y == [x EXCEPT !.files = f]
  <1>1. x \in [exists: BOOLEAN, files: Files]
    BY DEF Directory
  <1>2. y \in [exists: BOOLEAN, files: Files] /\ y.exists = x.exists /\ y.files = f
    BY <1>1
  <1> HIDE DEF y
  <1>3. ASSUME x.exists PROVE y \in Directory /\ y = [exists |-> TRUE, files |-> f]
    BY <1>2, <1>3 DEF Directory
  <1> QED
    BY <1>2, <1>3 DEF y

\* A step that changes only what is staged, before there is a journal.
LEMMA StagingStep ==
  ASSUME IndInv, session.pc \notin {"idle", "load"}, Fresh(session, disk),
         NEW pc, NEW e \in Disk, NEW next \in Steps \ ({"idle"} \cup Synced), Do(pc, e, next),
         e.live = disk.live, e.journal = disk.journal, e.tmp = disk.tmp,
         e.quarantine.files = Empty, Fits(session', e)
  PROVE  IndInv' /\ Kept
  <1>1. Good(disk) /\ Windowed /\ disk.journal = NoJournal
    BY Under DEF Fresh
  <1>2. Good(e)
    BY <1>1, GoodBefore
  <1>3. Change(e) /\ UNCHANGED serving
    BY DEF Do, Local
  <1>4. Windowed' /\ Kept
    BY <1>1, <1>2, <1>3, Aside
  <1> QED
    BY <1>4, Doing

LEMMA MkdirStep ==
  ASSUME IndInv, MkdirStaging \/ MkdirQuarantine
  PROVE  IndInv' /\ Kept
  <1> DEFINE made == [NoDirectory EXCEPT !.exists = TRUE]
  <1>1. made = [exists |-> TRUE, files |-> Empty] /\ made \in Directory /\ made.files = Empty
    BY EmptyFacts, DirectoryFacts DEF NoDirectory
  <1>2. CASE MkdirStaging
    <2> DEFINE e == [disk EXCEPT !.staging = made]
    <2>1. session.pc = "mkdir_staging" /\ Do("mkdir_staging", e, "mkdir_quarantine") /\ Goto("mkdir_quarantine")
      BY <1>2 DEF MkdirStaging, Do, At
    <2> HIDE DEF made
    <2>2. session \in Session /\ disk \in Disk /\ Fresh(session, disk) /\ disk.quarantine = NoDirectory
      BY <2>1, Under DEF Fits
    <2>3. /\ e \in Disk /\ e.live = disk.live /\ e.staging = made
          /\ e.quarantine = disk.quarantine /\ e.tmp = disk.tmp /\ e.journal = disk.journal
      BY <1>1, <2>2 DEF Disk
    <2> HIDE DEF e
    <2>4. "mkdir_quarantine" \in Steps \ ({"idle"} \cup Synced)
      BY DEF Steps, Synced
    <2>5. /\ session'.pc = "mkdir_quarantine" /\ session'.mode = session.mode /\ session'.snapshot = session.snapshot
          /\ session'.mem = session.mem /\ session'.draft = session.draft
      BY <2>1, <2>2, <2>4, Moved
    <2>6. Fits(session', e)
      BY <1>1, <2>2, <2>3, <2>5 DEF Fits, Fresh
    <2> QED
      BY <2>1, <2>2, <2>3, <2>4, <2>6, StagingStep, DirectoryFacts
  <1>3. CASE MkdirQuarantine
    <2> DEFINE e == [disk EXCEPT !.quarantine = made]
    <2>1. session.pc = "mkdir_quarantine" /\ Do("mkdir_quarantine", e, "mkdir_sync") /\ Goto("mkdir_sync")
      BY <1>3 DEF MkdirQuarantine, Do, At
    <2> HIDE DEF made
    <2>2. /\ session \in Session /\ disk \in Disk /\ Fresh(session, disk)
          /\ disk.staging = [exists |-> TRUE, files |-> Empty] /\ session.snapshot \in Files
      BY <2>1, Under, SessionFacts DEF Fits
    <2>3. /\ e \in Disk /\ e.live = disk.live /\ e.staging = disk.staging
          /\ e.quarantine = made /\ e.tmp = disk.tmp /\ e.journal = disk.journal
      BY <1>1, <2>2 DEF Disk
    <2> HIDE DEF e
    <2>4. "mkdir_sync" \in Steps \ ({"idle"} \cup Synced)
      BY DEF Steps, Synced
    <2>5. /\ session'.pc = "mkdir_sync" /\ session'.mode = session.mode /\ session'.snapshot = session.snapshot
          /\ session'.mem = session.mem /\ session'.draft = session.draft
      BY <2>1, <2>2, <2>4, Moved
    <2>6. e.staging.exists /\ Within(e.staging.files, session'.snapshot)
      BY <2>2, <2>3, <2>5, EmptyFacts
    <2>7. Fits(session', e)
      BY <1>1, <2>2, <2>3, <2>5, <2>6 DEF Fits, Fresh
    <2> QED
      BY <1>1, <2>1, <2>2, <2>3, <2>4, <2>7, StagingStep
  <1> QED
    BY <1>2, <1>3

\* Every database of the snapshot is staged, and the stage fsynced.
LEMMA StageStep ==
  ASSUME IndInv, Stage
  PROVE  IndInv' /\ Kept
  <1>1. session.pc = "stage"
    BY DEF Stage, Do, Fsync, At
  <1>2. /\ session \in Session /\ disk \in Disk /\ Fresh(session, disk)
        /\ disk.staging.exists /\ Within(disk.staging.files, session.snapshot)
        /\ disk.quarantine = [exists |-> TRUE, files |-> Empty] /\ session.snapshot \in Files
    BY <1>1, Under, SessionFacts DEF Fits
  <1>3. disk.staging \in Directory /\ disk.staging.files \in Files
    BY <1>2, DiskFacts
  <1>4. ASSUME NEW n \in Present(session.snapshot) \ Present(disk.staging.files),
               Do("stage", [disk EXCEPT !.staging.files = Put(@, n, session.snapshot[n])], "stage")
        PROVE  IndInv' /\ Kept
    <2> DEFINE f == Put(disk.staging.files, n, session.snapshot[n])
               x == [disk.staging EXCEPT !.files = f]
               e == [disk EXCEPT !.staging = x]
    <2>1. Do("stage", e, "stage") /\ Goto("stage")
      BY <1>4 DEF Do
    <2>2. n \in Names /\ f \in Files /\ f[n] = session.snapshot[n] /\ (\A m \in Names \ {n} : f[m] = disk.staging.files[m])
      BY <1>2, <1>3 DEF Files, Present, Put
    <2>3. Within(f, session.snapshot)
      <3> HIDE DEF f
      <3> QED
        BY <1>2, <2>2 DEF Within, Present
    <2> HIDE DEF f
    <2>4. x \in Directory /\ x.exists /\ x.files = f
      BY <1>2, <1>3, <2>2, FileMoved
    <2> HIDE DEF x
    <2>5. /\ e \in Disk /\ e.live = disk.live /\ e.staging = x
          /\ e.quarantine = disk.quarantine /\ e.tmp = disk.tmp /\ e.journal = disk.journal
      BY <1>2, <2>4 DEF Disk
    <2> HIDE DEF e
    <2>6. "stage" \in Steps \ ({"idle"} \cup Synced)
      BY DEF Steps, Synced
    <2>7. /\ session'.pc = "stage" /\ session'.mode = session.mode /\ session'.snapshot = session.snapshot
          /\ session'.mem = session.mem /\ session'.draft = session.draft
      BY <1>2, <2>1, <2>6, Moved
    <2>8. Fits(session', e)
      BY <1>2, <2>3, <2>4, <2>5, <2>7 DEF Fits, Fresh
    <2> QED
      BY <1>1, <1>2, <2>1, <2>5, <2>6, <2>8, StagingStep
  <1>5. CASE disk.staging.files = session.snapshot /\ Fsync("stage", "prepare")
    <2>1. Goto("prepare") /\ "stage" \in Steps \ {"idle", "load"} /\ "prepare" \in Steps \ {"idle"}
      BY <1>5 DEF Fsync, Steps
    <2>2. /\ session'.pc = "prepare" /\ session'.mode = session.mode /\ session'.snapshot = session.snapshot
          /\ session'.mem = session.mem /\ session'.draft = session.draft
      BY <1>2, <2>1, Moved
    <2>3. disk.staging = [exists |-> TRUE, files |-> session.snapshot]
      BY <1>2, <1>3, <1>5, DirectoryFacts
    <2>4. Fits(session', disk)
      BY <1>2, <2>2, <2>3 DEF Fits, Fresh
    <2> QED
      BY <1>5, <2>1, <2>4, Fsyncing
  <1> QED
    BY <1>4, <1>5 DEF Stage

LEMMA PrepareStep ==
  ASSUME IndInv, Prepare
  PROVE  IndInv' /\ Kept
  <1> DEFINE j == [phase |-> "prepared", old |-> disk.live, new |-> session.snapshot, synced |-> FALSE]
  <1>1. /\ session.pc = "prepare" /\ Keep /\ Local /\ UNCHANGED serving
        /\ session' = [session EXCEPT !.pc = "create", !.draft = j]
    BY DEF Prepare, At, Local
  <1>2. /\ session \in Session /\ disk \in Disk /\ Fresh(session, disk) /\ Windowed /\ ~serving /\ serving \in BOOLEAN
        /\ disk.staging = [exists |-> TRUE, files |-> session.snapshot]
        /\ disk.quarantine = [exists |-> TRUE, files |-> Empty]
        /\ session.snapshot \in Files /\ disk.live \in Files
        /\ session.mode \in {"publishing", "unwinding"} => session.job = "restore"
    BY <1>1, Under, SessionFacts, DiskFacts DEF Fits
  <1>3. j \in Journal /\ j.phase = "prepared" /\ ~j.synced /\ j.old = disk.live /\ j.new = session.snapshot
    BY <1>2 DEF Journal, Phases
  <1> HIDE DEF j
  <1>4. /\ session' \in Session /\ session'.pc = "create" /\ session'.mode = session.mode
        /\ session'.job = session.job /\ session'.snapshot = session.snapshot
        /\ session'.mem = session.mem /\ session'.draft = j
    BY <1>1, <1>2, <1>3 DEF Session, Steps
  <1>5. Writing(session', disk)
    BY <1>2, <1>3, <1>4 DEF Writing, Fresh, Staged
  <1>6. Fits(session', disk)
    BY <1>4, <1>5 DEF Fits
  <1>7. Windowed' /\ Kept /\ disk' = disk
    BY <1>1, <1>2, Still DEF Keep
  <1> QED
    BY <1>1, <1>2, <1>4, <1>6, <1>7, Continue DEF Synced, Fresh

-----------------------------------------------------------------------------
(* Moving state files *)

\* The evidence of one name: what a rollback needs of it ...
RollbackAt(d, j, n) ==
  LET live == d.live[n]  staged == d.staging.files[n]  held == d.quarantine.files[n] IN
  /\ staged # Absent => staged = j.new[n]
  /\ held # Absent => held = j.old[n]
  /\ live # Absent => live \in {j.old[n], j.new[n]}
  /\ j.old[n] # Absent => held # Absent \/ live = j.old[n]
  /\ live # Absent /\ held # Absent => live = j.new[n]

\* ... and what a publication adds.
ForwardAt(d, j, n) ==
  RollbackAt(d, j, n) /\ (j.new[n] # Absent => d.staging.files[n] # Absent \/ d.live[n] = j.new[n])

\* The evidence of a disk is that of its names.
LEMMA EvidenceAt ==
  ASSUME NEW d \in Disk, NEW j \in Journal
  PROVE  /\ RollbackEvidence(d, j) /\ Disjoint(d, j) <=> \A n \in Names : RollbackAt(d, j, n)
         /\ ForwardEvidence(d, j) /\ Disjoint(d, j) <=>
              d.staging.exists /\ d.quarantine.exists /\ \A n \in Names : ForwardAt(d, j, n)
  <1>1. RollbackEvidence(d, j) /\ Disjoint(d, j) <=> \A n \in Names : RollbackAt(d, j, n)
    <2>1. ASSUME RollbackEvidence(d, j), Disjoint(d, j), NEW n \in Names PROVE RollbackAt(d, j, n)
      BY <2>1 DEF RollbackEvidence, Disjoint, RollbackAt, Within, LiveSubset, Complete, Present
    <2>2. ASSUME \A n \in Names : RollbackAt(d, j, n) PROVE RollbackEvidence(d, j) /\ Disjoint(d, j)
      BY <2>2 DEF RollbackEvidence, Disjoint, RollbackAt, Within, LiveSubset, Complete, Present
    <2> QED
      BY <2>1, <2>2
  <1>2. ForwardEvidence(d, j) /\ Disjoint(d, j) <=>
          d.staging.exists /\ d.quarantine.exists /\ \A n \in Names : ForwardAt(d, j, n)
    <2>1. Complete(j.new, d.staging.files, d.live) <=>
            \A n \in Names : j.new[n] # Absent => d.staging.files[n] # Absent \/ d.live[n] = j.new[n]
      BY DEF Complete, Present
    <2> QED
      BY <1>1, <2>1 DEF ForwardEvidence, ForwardAt
  <1> QED
    BY <1>1, <1>2

\* So a good disk shows it of each name.
LEMMA GoodAt ==
  ASSUME NEW d, Good(d)
  PROVE  /\ d.journal.phase = "prepared" => \A n \in Names : ForwardAt(d, d.journal, n)
         /\ d.journal.phase = "rolling_back" => \A n \in Names : RollbackAt(d, d.journal, n)
         /\ d.journal.phase # "prepared" => d.journal.synced
  <1>1. d \in Disk /\ d.journal \in Journal
    BY DiskFacts DEF Good
  <1>2. d.journal.phase \in {"prepared", "rolling_back"} => Evidence(d, d.journal) /\ Disjoint(d, d.journal)
    BY DEF Good, Real
  <1>3. d.journal.phase # "prepared" => d.journal.synced
    BY <1>1, JournalFacts DEF Good
  <1> QED
    BY <1>1, <1>2, <1>3, EvidenceAt DEF Evidence

\* A disk stays good when each name does.
LEMMA GoodMoved ==
  ASSUME NEW d, Good(d), d.journal.phase \in {"prepared", "rolling_back"}, d.journal.synced,
         NEW e \in Disk, e.journal = d.journal, e.tmp = d.tmp,
         d.journal.phase = "prepared" => e.staging.exists /\ e.quarantine.exists,
         \A n \in Names :
           \/ /\ e.live[n] = d.live[n] /\ e.staging.files[n] = d.staging.files[n]
              /\ e.quarantine.files[n] = d.quarantine.files[n]
           \/ ForwardAt(e, e.journal, n)
           \/ RollbackAt(e, e.journal, n) /\ d.journal.phase = "rolling_back"
  PROVE  Good(e)
  <1> DEFINE j == d.journal
  <1>1. d \in Disk /\ j \in Journal
    BY DiskFacts DEF Good
  <1>3. CASE j.phase = "prepared"
    <2>1. \A n \in Names : ForwardAt(d, j, n)
      BY <1>3, GoodAt
    <2>2. \A n \in Names : ForwardAt(e, j, n)
      BY <1>3, <2>1 DEF ForwardAt, RollbackAt
    <2>3. ForwardEvidence(e, j) /\ Disjoint(e, j)
      BY <1>1, <1>3, <2>2, EvidenceAt
    <2> QED
      BY <1>1, <1>3, <2>3 DEF Good, Evidence, Real
  <1>4. CASE j.phase = "rolling_back"
    <2>1. \A n \in Names : RollbackAt(d, j, n)
      BY <1>4, GoodAt
    <2>2. \A n \in Names : RollbackAt(e, j, n)
      BY <1>4, <2>1 DEF ForwardAt, RollbackAt
    <2>3. RollbackEvidence(e, j) /\ Disjoint(e, j)
      BY <1>1, <1>4, <2>2, EvidenceAt
    <2> QED
      BY <1>1, <1>4, <2>3 DEF Good, Evidence, Real
  <1> QED
    BY <1>3, <1>4

\* A state file moves and the session steps.
LEMMA MovingStep ==
  ASSUME IndInv, session.pc \in Synced, session.pc # "rename", disk.journal.phase \in Real,
         NEW pc, NEW e, NEW next \in Steps \ ({"idle"} \cup Synced), Do(pc, e, next),
         Good(e), e.journal = disk.journal, Fits(session', e)
  PROVE  IndInv' /\ Kept
  <1>1. session.pc \notin {"idle", "load"}
    BY DEF Synced
  <1>2. Windowed /\ window = {disk}
    BY <1>1, Under
  <1>3. Change(e) /\ UNCHANGED serving
    BY DEF Do, Local
  <1>4. Windowed' /\ Kept
    BY <1>2, <1>3, Moving
  <1> QED
    BY <1>1, <1>4, Doing

\* The parts of the disk and of the session.
LEMMA Parts ==
  ASSUME session \in Session, disk \in Disk
  PROVE  /\ session.mem \in Journal /\ session.mem.old \in Files /\ session.mem.new \in Files
         /\ session.snapshot \in Files /\ session.mode \in Modes /\ session.draft \in Journal
         /\ disk.live \in Files /\ disk.staging \in Directory /\ disk.staging.files \in Files
         /\ disk.quarantine \in Directory /\ disk.quarantine.files \in Files
         /\ disk.tmp \in Journal /\ disk.journal \in Journal
  <1>1. session.mem \in Journal /\ session.snapshot \in Files /\ session.mode \in Modes /\ session.draft \in Journal
    BY DEF Session
  <1>2. session.mem.old \in Files /\ session.mem.new \in Files
    BY <1>1 DEF Journal
  <1> QED
    BY <1>1, <1>2, DiskFacts

\* What the move of one file makes of two inventories.
LEMMA MoveFacts ==
  ASSUME NEW f \in Files, NEW g \in Files, NEW n \in Names
  PROVE  /\ Put(g, n, f[n]) \in Files /\ Drop(f, n) \in Files
         /\ Put(g, n, f[n])[n] = f[n] /\ Drop(f, n)[n] = Absent
         /\ \A m \in Names \ {n} : Put(g, n, f[n])[m] = g[m] /\ Drop(f, n)[m] = f[m]
  BY DEF Files, Put, Drop

\* And what it makes of the names that are there.
LEMMA PresentFacts ==
  ASSUME NEW f \in Files, NEW n \in Names
  PROVE  /\ Present(Drop(f, n)) = Present(f) \ {n}
         /\ \A c \in Contents : Present(Put(f, n, c)) = Present(f) \cup {n}
  <1>1. Drop(f, n)[n] = Absent /\ \A m \in Names \ {n} : Drop(f, n)[m] = f[m]
    BY DEF Files, Drop, Put
  <1>2. Present(Drop(f, n)) = Present(f) \ {n}
    BY <1>1 DEF Present
  <1>3. ASSUME NEW c \in Contents PROVE Present(Put(f, n, c)) = Present(f) \cup {n}
    <2>1. Put(f, n, c)[n] # Absent /\ \A m \in Names \ {n} : Put(f, n, c)[m] = f[m]
      BY StateAssumption DEF Files, Put
    <2> QED
      BY <2>1 DEF Present
  <1> QED
    BY <1>2, <1>3

LEMMA QuarantineStep ==
  ASSUME IndInv, Quarantine
  PROVE  IndInv' /\ Kept
  <1> DEFINE j == session.mem
  <1>1. session.pc = "quarantine"
    BY DEF Quarantine, Do, At
  <1>2. /\ session \in Session /\ disk \in Disk /\ Good(disk) /\ window = {disk}
        /\ InHand(session, disk, {"publishing"}, {"prepared"}) /\ j.synced /\ j.new = session.snapshot
        /\ disk.staging = [exists |-> TRUE, files |-> j.new] /\ disk.quarantine.exists
        /\ Within(disk.live, j.old)
    BY <1>1, Under DEF Fits, Synced
  <1>3. /\ j \in Journal /\ j.old \in Files /\ j.new \in Files /\ disk.live \in Files
        /\ disk.quarantine \in Directory /\ disk.quarantine.files \in Files
        /\ disk.journal = j /\ j.phase = "prepared" /\ disk.staging.exists /\ disk.staging.files = j.new
    BY <1>2, Parts DEF InHand
  <1>4. \A n \in Names : ForwardAt(disk, j, n)
    BY <1>2, <1>3, GoodAt
  <1>5. ASSUME NEW n \in Present(disk.live),
               Do("quarantine", [disk EXCEPT !.quarantine.files = Put(@, n, disk.live[n]),
                                             !.live = Drop(@, n)], "quarantine_sync")
        PROVE  IndInv' /\ Kept
    <2> DEFINE held == Put(disk.quarantine.files, n, disk.live[n])
               live == Drop(disk.live, n)
               x == [disk.quarantine EXCEPT !.files = held]
               e == [disk EXCEPT !.quarantine = x, !.live = live]
    <2>1. Do("quarantine", e, "quarantine_sync") /\ Goto("quarantine_sync")
      BY <1>5 DEF Do
    <2>2. n \in Names /\ disk.live[n] # Absent
      BY DEF Present
    <2>3. /\ held \in Files /\ live \in Files /\ held[n] = disk.live[n] /\ live[n] = Absent
          /\ \A m \in Names \ {n} : held[m] = disk.quarantine.files[m] /\ live[m] = disk.live[m]
      <3>1. disk.live \in Files /\ disk.quarantine.files \in Files
        BY <1>3
      <3> QED
        BY <2>2, <3>1, MoveFacts
    <2> HIDE DEF held, live
    <2>4. x \in Directory /\ x.exists /\ x.files = held
      <3>1. disk.quarantine \in Directory /\ disk.quarantine.exists /\ held \in Files
        BY <1>2, <1>3, <2>3
      <3> QED
        BY <3>1, FileMoved
    <2> HIDE DEF x
    <2>5. /\ e \in Disk /\ e.live = live /\ e.staging = disk.staging
          /\ e.quarantine = x /\ e.tmp = disk.tmp /\ e.journal = disk.journal
      BY <1>2, <2>3, <2>4 DEF Disk
    <2> HIDE DEF e
    <2>6. ForwardAt(e, j, n)
      <3>1. disk.live[n] = j.old[n]
        BY <1>2, <2>2 DEF Within, Present
      <3> QED
        BY <1>3, <2>2, <2>3, <2>4, <2>5, <3>1 DEF ForwardAt, RollbackAt
    <2>7. Good(e)
      BY <1>2, <1>3, <2>3, <2>4, <2>5, <2>6, GoodMoved
    <2>8. "quarantine_sync" \in Steps \ ({"idle"} \cup Synced)
      BY DEF Steps, Synced
    <2>9. /\ session'.pc = "quarantine_sync" /\ session'.mode = session.mode /\ session'.snapshot = session.snapshot
          /\ session'.mem = session.mem /\ session'.draft = session.draft
      BY <1>2, <2>1, <2>8, Moved
    <2>10. Within(e.live, j.old)
      BY <1>2, <2>3, <2>5 DEF Within, Present
    <2>11. Fits(session', e)
      BY <1>2, <2>4, <2>5, <2>9, <2>10 DEF Fits, InHand
    <2> QED
      BY <1>1, <1>3, <2>1, <2>5, <2>7, <2>8, <2>11, MovingStep DEF Synced, Real
  <1>6. CASE disk.live = Empty /\ Goto("publish") /\ Keep /\ Local
    <2>1. \A n \in Present(j.old) : disk.quarantine.files[n] = j.old[n]
      BY <1>3, <1>4, <1>6, EmptyFacts DEF ForwardAt, RollbackAt, Present
    <2>2. Within(disk.quarantine.files, j.old)
      BY <1>4 DEF ForwardAt, RollbackAt, Within, Present
    <2>3. disk.quarantine.files = j.old
      BY <1>3, <2>1, <2>2, SameFiles
    <2>4. disk.quarantine = [exists |-> TRUE, files |-> j.old]
      BY <1>2, <1>3, <2>3, DirectoryFacts
    <2>5. Within(disk.live, j.new)
      BY <1>3, <1>6, EmptyFacts
    <2>6. "publish" \in Steps \ {"idle"}
      BY DEF Steps
    <2>7. /\ session'.pc = "publish" /\ session'.mode = session.mode /\ session'.snapshot = session.snapshot
          /\ session'.mem = session.mem /\ session'.draft = session.draft
      BY <1>2, <1>6, <2>6, Moved
    <2>8. Fits(session', disk)
      BY <1>2, <1>3, <2>4, <2>5, <2>7 DEF Fits, InHand
    <2> QED
      BY <1>1, <1>2, <1>6, <2>6, <2>8, Going
  <1> QED
    BY <1>5, <1>6 DEF Quarantine

\* All that was staged is published, so what is live is the new generation.
LEMMA PublishStep ==
  ASSUME IndInv, Publish
  PROVE  IndInv' /\ Kept
  <1> DEFINE j == session.mem
  <1>1. session.pc = "publish"
    BY DEF Publish, Do, At
  <1>2. /\ session \in Session /\ disk \in Disk /\ Good(disk) /\ window = {disk}
        /\ InHand(session, disk, {"publishing"}, {"prepared"}) /\ j.synced /\ j.new = session.snapshot
        /\ disk.quarantine = [exists |-> TRUE, files |-> j.old] /\ disk.staging.exists
        /\ Within(disk.live, j.new)
    BY <1>1, Under DEF Fits, Synced
  <1>3. /\ j \in Journal /\ j.old \in Files /\ j.new \in Files /\ disk.live \in Files
        /\ disk.staging \in Directory /\ disk.staging.files \in Files
        /\ disk.journal = j /\ j.phase = "prepared" /\ disk.quarantine.exists /\ disk.quarantine.files = j.old
        /\ session.mode = "publishing"
    BY <1>2, Parts DEF InHand
  <1>4. \A n \in Names : ForwardAt(disk, j, n)
    BY <1>2, <1>3, GoodAt
  <1>5. ASSUME NEW n \in Present(disk.staging.files),
               Do("publish", [disk EXCEPT !.live = Put(@, n, disk.staging.files[n]),
                                          !.staging.files = Drop(@, n)], "publish_sync")
        PROVE  IndInv' /\ Kept
    <2> DEFINE live == Put(disk.live, n, disk.staging.files[n])
               staged == Drop(disk.staging.files, n)
               x == [disk.staging EXCEPT !.files = staged]
               e == [disk EXCEPT !.live = live, !.staging = x]
    <2>1. Do("publish", e, "publish_sync") /\ Goto("publish_sync")
      BY <1>5 DEF Do
    <2>2. n \in Names /\ disk.staging.files[n] # Absent
      BY DEF Present
    <2>3. /\ live \in Files /\ staged \in Files /\ live[n] = disk.staging.files[n] /\ staged[n] = Absent
          /\ \A m \in Names \ {n} : live[m] = disk.live[m] /\ staged[m] = disk.staging.files[m]
      <3>1. disk.live \in Files /\ disk.staging.files \in Files
        BY <1>3
      <3> QED
        BY <2>2, <3>1 DEF Files, Put, Drop
    <2> HIDE DEF staged, live
    <2>4. x \in Directory /\ x.exists /\ x.files = staged
      <3>1. disk.staging \in Directory /\ disk.staging.exists /\ staged \in Files
        BY <1>2, <1>3, <2>3
      <3> QED
        BY <3>1, FileMoved
    <2> HIDE DEF x
    <2>5. /\ e \in Disk /\ e.live = live /\ e.staging = x
          /\ e.quarantine = disk.quarantine /\ e.tmp = disk.tmp /\ e.journal = disk.journal
      BY <1>2, <2>3, <2>4 DEF Disk
    <2> HIDE DEF e
    <2>6. ForwardAt(e, j, n) /\ live[n] = j.new[n]
      <3>1. disk.staging.files[n] = j.new[n]
        BY <1>4, <2>2 DEF ForwardAt, RollbackAt
      <3> QED
        BY <1>3, <2>2, <2>3, <2>4, <2>5, <3>1 DEF ForwardAt, RollbackAt
    <2>7. Good(e)
      BY <1>2, <1>3, <2>3, <2>4, <2>5, <2>6, GoodMoved
    <2>8. "publish_sync" \in Steps \ ({"idle"} \cup Synced)
      BY DEF Steps, Synced
    <2>9. /\ session'.pc = "publish_sync" /\ session'.mode = session.mode /\ session'.snapshot = session.snapshot
          /\ session'.mem = session.mem /\ session'.draft = session.draft
      BY <1>2, <2>1, <2>8, Moved
    <2>10. Within(e.live, j.new)
      BY <1>2, <2>3, <2>5, <2>6 DEF Within, Present
    <2>11. Fits(session', e)
      BY <1>2, <2>4, <2>5, <2>9, <2>10 DEF Fits, InHand
    <2> QED
      BY <1>1, <1>3, <2>1, <2>5, <2>7, <2>8, <2>11, MovingStep DEF Synced, Real
  <1>6. CASE /\ disk.staging.files = Empty
             /\ IF disk.live = session.mem.new
                THEN SetPhase("committed") /\ Keep /\ Local
                ELSE Refuse
    <2>1. \A n \in Present(j.new) : disk.live[n] = j.new[n]
      BY <1>4, <1>6, EmptyFacts DEF ForwardAt, RollbackAt, Present
    <2>2. disk.live = j.new
      BY <1>2, <1>3, <2>1, SameFiles
    <2>3. disk.staging = [exists |-> TRUE, files |-> Empty]
      BY <1>2, <1>3, <1>6, DirectoryFacts
    <2>4. Published(disk, disk.journal)
      BY <1>2, <1>3, <2>2, <2>3 DEF Published
    <2> QED
      BY <1>1, <1>2, <1>3, <1>6, <2>2, <2>4, Turning
  <1> QED
    BY <1>5, <1>6 DEF Publish, At

-----------------------------------------------------------------------------
(* Rolling back *)

\* What a rollback knows at every step.
LEMMA Undone ==
  ASSUME IndInv, session.pc \notin {"idle", "load"}, InHand(session, disk, Undoing, {"rolling_back"})
  PROVE  LET j == session.mem IN
         /\ session \in Session /\ disk \in Disk /\ Good(disk)
         /\ disk.journal = j /\ j \in Journal /\ j.old \in Files /\ j.new \in Files
         /\ j.phase = "rolling_back" /\ j.synced
         /\ disk.live \in Files /\ disk.quarantine \in Directory /\ disk.quarantine.files \in Files
         /\ \A n \in Names : RollbackAt(disk, j, n)
  <1>1. session \in Session /\ disk \in Disk /\ Good(disk)
    BY Under
  <1>2. disk.journal = session.mem /\ session.mem.phase = "rolling_back"
    BY DEF InHand
  <1>3. session.mem.synced /\ \A n \in Names : RollbackAt(disk, session.mem, n)
    BY <1>1, <1>2, GoodAt
  <1> QED
    BY <1>1, <1>2, <1>3, Parts

LEMMA RollbackStep ==
  ASSUME IndInv, Rollback
  PROVE  IndInv' /\ Kept
  <1> DEFINE x == [disk.quarantine EXCEPT !.exists = TRUE]
             e == [disk EXCEPT !.quarantine = x]
  <1>1. session.pc = "rollback" /\ Do("rollback", e, "rollback_sync") /\ Goto("rollback_sync")
    BY DEF Rollback, Do, At
  <1>2. InHand(session, disk, Undoing, {"rolling_back"}) /\ Windowed
    BY <1>1, Under DEF Fits
  <1>3. /\ session \in Session /\ disk \in Disk /\ Good(disk)
        /\ disk.journal.phase = "rolling_back" /\ disk.journal.synced
        /\ disk.quarantine \in Directory
    BY <1>1, <1>2, Undone
  <1>4. x \in Directory /\ x.exists /\ x.files = disk.quarantine.files
    BY <1>3 DEF Directory
  <1> HIDE DEF x
  <1>5. /\ e \in Disk /\ e.live = disk.live /\ e.staging = disk.staging
        /\ e.quarantine = x /\ e.tmp = disk.tmp /\ e.journal = disk.journal
    BY <1>3, <1>4 DEF Disk
  <1> HIDE DEF e
  <1>6. Good(e)
    BY <1>3, <1>4, <1>5, GoodMoved
  <1>7. Change(e) /\ UNCHANGED serving
    BY <1>1 DEF Do, Local
  <1>8. Windowed' /\ Kept
    BY <1>2, <1>5, <1>6, <1>7, Aside
  <1>9. "rollback_sync" \in Steps \ ({"idle"} \cup Synced)
    BY DEF Steps, Synced
  <1>10. /\ session'.pc = "rollback_sync" /\ session'.mode = session.mode /\ session'.snapshot = session.snapshot
         /\ session'.mem = session.mem /\ session'.draft = session.draft
    BY <1>1, <1>3, <1>9, Moved
  <1>11. Fits(session', e)
    BY <1>2, <1>4, <1>5, <1>10 DEF Fits, InHand
  <1> QED
    BY <1>1, <1>8, <1>9, <1>11, Doing

\* A file of the old generation that is still live was listed, and is as recorded.
LEMMA RequarantineStep ==
  ASSUME IndInv, Requarantine
  PROVE  IndInv' /\ Kept
  <1> DEFINE j == session.mem
  <1>1. session.pc = "requarantine" /\ session.pc \in Synced
    BY DEF Requarantine, At, Synced
  <1>2. /\ InHand(session, disk, Undoing, {"rolling_back"}) /\ disk.quarantine.exists
        /\ session.todo \subseteq Present(j.old)
        /\ session.todo \cap Missing(session, disk) \subseteq session.listed
        /\ Missing(session, disk) \subseteq session.todo
    BY <1>1, Under DEF Fits
  <1>3. /\ session \in Session /\ disk \in Disk /\ Good(disk)
        /\ disk.journal = j /\ j \in Journal /\ j.old \in Files /\ j.new \in Files
        /\ j.phase = "rolling_back" /\ j.synced
        /\ disk.live \in Files /\ disk.quarantine \in Directory /\ disk.quarantine.files \in Files
        /\ \A n \in Names : RollbackAt(disk, j, n)
    BY <1>1, <1>2, Undone
  <1>4. \A n \in Names : n \in Missing(session, disk) <=>
                         j.old[n] # Absent /\ disk.quarantine.files[n] = Absent
    BY DEF Missing, Present
  <1>5. ASSUME NEW n \in session.todo \cap Present(disk.quarantine.files),
               IF Matches(disk.quarantine.files, n, j.old) THEN Look(n, "requarantine", {}) ELSE Refuse
        PROVE  IndInv' /\ Kept
    <2>1. Look(n, "requarantine", {}) /\ "requarantine" \in Steps
      BY <1>3, <1>5 DEF RollbackAt, Matches, Present, Steps
    <2>2. /\ session' \in Session /\ session'.pc = "requarantine" /\ session'.mode = session.mode
          /\ session'.job = session.job /\ session'.snapshot = session.snapshot
          /\ session'.mem = session.mem /\ session'.draft = session.draft
          /\ session'.listed = session.listed /\ session'.todo = session.todo \ {n}
          /\ Keep /\ Local
      BY <1>3, <2>1, Looked
    <2>3. n \notin Missing(session, disk)
      BY <1>5 DEF Missing
    <2>4. Fits(session', disk)
      BY <1>2, <2>2, <2>3 DEF Fits, InHand, Missing
    <2> QED
      BY <1>1, <2>2, <2>4, Resting
  <1>6. ASSUME NEW n \in session.todo \ Present(disk.quarantine.files),
               IF n \in session.listed /\ Matches(disk.live, n, j.old)
               THEN Look(n, "requarantine_move", {n}) ELSE Refuse
        PROVE  IndInv' /\ Kept
    <2>1. n \in Missing(session, disk) /\ n \in Names /\ n \in session.listed
      BY <1>2, <1>6 DEF Missing, Present
    <2>2. Matches(disk.live, n, j.old)
      BY <1>3, <1>4, <2>1 DEF RollbackAt, Matches
    <2>3. Look(n, "requarantine_move", {n}) /\ "requarantine_move" \in Steps
      BY <1>6, <2>1, <2>2 DEF Steps
    <2>4. /\ session' \in Session /\ session'.pc = "requarantine_move" /\ session'.mode = session.mode
          /\ session'.job = session.job /\ session'.snapshot = session.snapshot
          /\ session'.mem = session.mem /\ session'.draft = session.draft
          /\ session'.listed = session.listed /\ session'.todo = session.todo \ {n}
          /\ session'.checked = {n} /\ Keep /\ Local
      BY <1>3, <2>1, <2>3, Looked
    <2>5. Fits(session', disk)
      BY <1>2, <2>1, <2>4 DEF Fits, InHand, Missing
    <2> QED
      BY <1>1, <2>4, <2>5, Resting
  <1>7. CASE session.todo = {} /\ Keep /\ Local /\ Loop("unpublish", {}, Present(disk.live), {})
    <2>1. \A n \in Present(j.old) : disk.quarantine.files[n] = j.old[n]
      BY <1>2, <1>3, <1>4, <1>7 DEF RollbackAt, Present
    <2>2. Within(disk.quarantine.files, j.old)
      BY <1>3 DEF RollbackAt, Within, Present
    <2>3. disk.quarantine.files = j.old
      BY <1>3, <2>1, <2>2, SameFiles
    <2>4. disk.quarantine = [exists |-> TRUE, files |-> j.old]
      BY <1>2, <1>3, <2>3, DirectoryFacts
    <2>5. "unpublish" \in Steps /\ Present(disk.live) \in SUBSET Names /\ {} \in SUBSET Names
      BY DEF Steps, Present
    <2>6. /\ session' \in Session /\ session'.pc = "unpublish" /\ session'.mode = session.mode
          /\ session'.job = session.job /\ session'.snapshot = session.snapshot
          /\ session'.mem = session.mem /\ session'.draft = session.draft
          /\ session'.todo = Present(disk.live)
      BY <1>3, <1>7, <2>5, Looped
    <2>7. Fits(session', disk)
      BY <1>2, <2>4, <2>6 DEF Fits, InHand
    <2> QED
      BY <1>1, <1>7, <2>6, <2>7, Resting
  <1> QED
    BY <1>5, <1>6, <1>7 DEF Requarantine

\* While nobody else writes it, what was checked is what moves.
LEMMA RequarantineMoveStep ==
  ASSUME IndInv, RequarantineMove
  PROVE  IndInv' /\ Kept
  <1> DEFINE j == session.mem
  <1>1. session.pc = "requarantine_move"
    BY DEF RequarantineMove, Do, At
  <1>2. /\ InHand(session, disk, Undoing, {"rolling_back"}) /\ Windowed /\ window = {disk}
        /\ disk.quarantine.exists /\ session.todo \subseteq Present(j.old)
        /\ session.todo \cap Missing(session, disk) \subseteq session.listed
    BY <1>1, Under DEF Fits, Synced
  <1>3. /\ session \in Session /\ disk \in Disk /\ Good(disk)
        /\ disk.journal = j /\ j \in Journal /\ j.old \in Files /\ j.new \in Files
        /\ j.phase = "rolling_back" /\ j.synced
        /\ disk.live \in Files /\ disk.quarantine \in Directory /\ disk.quarantine.files \in Files
        /\ \A n \in Names : RollbackAt(disk, j, n)
    BY <1>1, <1>2, Undone
  <1>4. PICK n \in Missing(session, disk) :
          session.checked = {n} /\ Missing(session, disk) \ {n} \subseteq session.todo
    BY <1>1, Under DEF Fits
  <1>5. n \in Names /\ j.old[n] # Absent /\ disk.live[n] = j.old[n]
    BY <1>3 DEF RollbackAt, Missing, Present
  <1> DEFINE held == Put(disk.quarantine.files, n, disk.live[n])
             live == Drop(disk.live, n)
             x == [disk.quarantine EXCEPT !.files = held]
             e == [disk EXCEPT !.quarantine = x, !.live = live]
  <1>6. Do("requarantine_move", e, "requarantine_sync") /\ Goto("requarantine_sync")
    BY <1>4, <1>5 DEF RequarantineMove, Do
  <1>7. /\ held \in Files /\ live \in Files /\ held[n] = disk.live[n] /\ live[n] = Absent
        /\ \A m \in Names \ {n} : held[m] = disk.quarantine.files[m] /\ live[m] = disk.live[m]
    <2>1. disk.live \in Files /\ disk.quarantine.files \in Files
      BY <1>3
    <2> QED
      BY <1>5, <2>1 DEF Files, Put, Drop
  <1>8. Present(held) = Present(disk.quarantine.files) \cup {n}
    BY <1>5, <1>7 DEF Present
  <1> HIDE DEF held, live
  <1>9. x \in Directory /\ x.exists /\ x.files = held
    <2>1. disk.quarantine \in Directory /\ disk.quarantine.exists /\ held \in Files
      BY <1>2, <1>3, <1>7
    <2> QED
      BY <2>1, FileMoved
  <1> HIDE DEF x
  <1>10. /\ e \in Disk /\ e.live = live /\ e.staging = disk.staging
         /\ e.quarantine = x /\ e.tmp = disk.tmp /\ e.journal = disk.journal
    BY <1>3, <1>7, <1>9 DEF Disk
  <1> HIDE DEF e
  <1>11. RollbackAt(e, j, n)
    BY <1>3, <1>5, <1>7, <1>9, <1>10 DEF RollbackAt
  <1>12. Good(e)
    BY <1>3, <1>7, <1>9, <1>10, <1>11, GoodMoved
  <1>13. "requarantine_sync" \in Steps \ ({"idle"} \cup Synced)
    BY DEF Steps, Synced
  <1>14. /\ session'.pc = "requarantine_sync" /\ session'.mode = session.mode
         /\ session'.mem = session.mem /\ session'.draft = session.draft
         /\ session'.listed = session.listed /\ session'.todo = session.todo
    BY <1>3, <1>6, <1>13, Moved
  <1>15. Missing(session', e) = Missing(session, disk) \ {n}
    BY <1>8, <1>9, <1>10, <1>14 DEF Missing
  <1>16. Fits(session', e)
    BY <1>2, <1>4, <1>9, <1>10, <1>14, <1>15 DEF Fits, InHand
  <1> QED
    BY <1>1, <1>3, <1>6, <1>10, <1>12, <1>13, <1>16, MovingStep DEF Synced, Real

\* With the old generation in quarantine, whatever is live is of the new one.
LEMMA UnpublishStep ==
  ASSUME IndInv, Unpublish
  PROVE  IndInv' /\ Kept
  <1> DEFINE j == session.mem
  <1>1. session.pc = "unpublish" /\ session.pc \in Synced
    BY DEF Unpublish, At, Synced
  <1>2. /\ InHand(session, disk, Undoing, {"rolling_back"})
        /\ disk.quarantine = [exists |-> TRUE, files |-> j.old]
        /\ session.todo = Present(disk.live)
    BY <1>1, Under DEF Fits
  <1>3. /\ session \in Session /\ disk \in Disk /\ Good(disk)
        /\ disk.journal = j /\ j \in Journal /\ j.old \in Files /\ j.new \in Files
        /\ j.phase = "rolling_back" /\ j.synced
        /\ disk.live \in Files /\ disk.quarantine \in Directory /\ disk.quarantine.files \in Files
        /\ \A n \in Names : RollbackAt(disk, j, n)
    BY <1>1, <1>2, Undone
  <1>4. ASSUME NEW n \in session.todo,
               IF Matches(disk.live, n, j.new) THEN Look(n, "unpublish_remove", {n}) ELSE Refuse
        PROVE  IndInv' /\ Kept
    <2>1. n \in Names /\ n \in Present(disk.live) /\ disk.live[n] # Absent
      BY <1>2, <1>4 DEF Present
    <2>2. Look(n, "unpublish_remove", {n}) /\ "unpublish_remove" \in Steps
      BY <1>2, <1>3, <1>4, <2>1 DEF RollbackAt, Matches, Steps
    <2>3. /\ session' \in Session /\ session'.pc = "unpublish_remove" /\ session'.mode = session.mode
          /\ session'.job = session.job /\ session'.snapshot = session.snapshot
          /\ session'.mem = session.mem /\ session'.draft = session.draft
          /\ session'.todo = session.todo \ {n} /\ session'.checked = {n} /\ Keep /\ Local
      BY <1>3, <2>1, <2>2, Looked
    <2>4. Fits(session', disk)
      BY <1>2, <2>1, <2>3 DEF Fits, InHand
    <2> QED
      BY <1>1, <2>3, <2>4, Resting
  <1>5. CASE /\ session.todo = {} /\ Keep /\ Local
             /\ Loop("reinstate", {}, Present(j.old), session.late)
    <2>1. disk.live = Empty
      BY <1>2, <1>3, <1>5, EmptyFacts
    <2>2. Within(disk.live, j.old) /\ disk.quarantine.exists /\ disk.quarantine.files = j.old
      BY <1>2, <1>3, <2>1, EmptyFacts
    <2>3. "reinstate" \in Steps /\ Present(j.old) \subseteq Names /\ session.late \subseteq Names
      BY <1>3 DEF Steps, Present, Session
    <2>4. /\ session' \in Session /\ session'.pc = "reinstate" /\ session'.mode = session.mode
          /\ session'.job = session.job /\ session'.snapshot = session.snapshot
          /\ session'.mem = session.mem /\ session'.draft = session.draft
          /\ session'.todo = Present(j.old)
      BY <1>3, <1>5, <2>3, Looped
    <2>5. Fits(session', disk)
      BY <1>2, <2>2, <2>4 DEF Fits, InHand
    <2> QED
      BY <1>1, <1>5, <2>4, <2>5, Resting
  <1> QED
    BY <1>4, <1>5 DEF Unpublish

LEMMA UnpublishRemoveStep ==
  ASSUME IndInv, UnpublishRemove
  PROVE  IndInv' /\ Kept
  <1> DEFINE j == session.mem
  <1>1. session.pc = "unpublish_remove"
    BY DEF UnpublishRemove, Do, At
  <1>2. /\ InHand(session, disk, Undoing, {"rolling_back"}) /\ Windowed /\ window = {disk}
        /\ disk.quarantine = [exists |-> TRUE, files |-> j.old]
    BY <1>1, Under DEF Fits, Synced
  <1>3. /\ session \in Session /\ disk \in Disk /\ Good(disk)
        /\ disk.journal = j /\ j \in Journal /\ j.old \in Files /\ j.new \in Files
        /\ j.phase = "rolling_back" /\ j.synced
        /\ disk.live \in Files /\ disk.quarantine \in Directory /\ disk.quarantine.files \in Files
        /\ \A n \in Names : RollbackAt(disk, j, n)
    BY <1>1, <1>2, Undone
  <1>4. PICK n \in Present(disk.live) :
          session.checked = {n} /\ session.todo = Present(disk.live) \ {n}
    BY <1>1, Under DEF Fits
  <1>5. n \in Names /\ disk.live[n] # Absent
    BY DEF Present
  <1> DEFINE live == Drop(disk.live, n)
             e == [disk EXCEPT !.live = live]
  <1>6. Do("unpublish_remove", e, "unpublish_sync") /\ Goto("unpublish_sync")
    BY <1>4, <1>5 DEF UnpublishRemove, Do
  <1>7. live \in Files /\ live[n] = Absent /\ \A m \in Names \ {n} : live[m] = disk.live[m]
    BY <1>3, <1>5 DEF Files, Drop, Put
  <1>8. Present(live) = Present(disk.live) \ {n}
    BY <1>7 DEF Present
  <1> HIDE DEF live
  <1>9. /\ e \in Disk /\ e.live = live /\ e.staging = disk.staging
        /\ e.quarantine = disk.quarantine /\ e.tmp = disk.tmp /\ e.journal = disk.journal
    BY <1>3, <1>7 DEF Disk
  <1> HIDE DEF e
  <1>10. RollbackAt(e, j, n)
    BY <1>2, <1>3, <1>5, <1>7, <1>9 DEF RollbackAt
  <1>11. Good(e)
    BY <1>3, <1>7, <1>9, <1>10, GoodMoved
  <1>12. "unpublish_sync" \in Steps \ ({"idle"} \cup Synced)
    BY DEF Steps, Synced
  <1>13. /\ session'.pc = "unpublish_sync" /\ session'.mode = session.mode
         /\ session'.mem = session.mem /\ session'.draft = session.draft
         /\ session'.todo = session.todo
    BY <1>3, <1>6, <1>12, Moved
  <1>14. Fits(session', e)
    BY <1>2, <1>4, <1>8, <1>9, <1>13 DEF Fits, InHand
  <1> QED
    BY <1>1, <1>3, <1>6, <1>9, <1>11, <1>12, <1>14, MovingStep DEF Synced, Real

\* Once the quarantine is empty the old generation is live again.
LEMMA ReinstateStep ==
  ASSUME IndInv, Reinstate
  PROVE  IndInv' /\ Kept
  <1> DEFINE j == session.mem
  <1>1. session.pc = "reinstate" /\ session.pc \in Synced /\ session.pc \notin {"idle", "load"}
    BY DEF Reinstate, At, Synced
  <1>2. /\ InHand(session, disk, Undoing, {"rolling_back"}) /\ Windowed /\ window = {disk}
        /\ disk.quarantine.exists /\ Within(disk.live, j.old)
        /\ session.todo = Present(disk.quarantine.files)
    BY <1>1, Under DEF Fits
  <1>3. /\ session \in Session /\ disk \in Disk /\ Good(disk)
        /\ disk.journal = j /\ j \in Journal /\ j.old \in Files /\ j.new \in Files
        /\ j.phase = "rolling_back" /\ j.synced
        /\ disk.live \in Files /\ disk.quarantine \in Directory /\ disk.quarantine.files \in Files
        /\ \A n \in Names : RollbackAt(disk, j, n)
    BY <1>1, <1>2, Undone
  <1>4. ASSUME NEW n \in session.todo,
               IF Matches(disk.quarantine.files, n, j.old)
               THEN /\ Change([disk EXCEPT !.live = Put(@, n, disk.quarantine.files[n]),
                                           !.quarantine.files = Drop(@, n)])
                    /\ session' = [session EXCEPT !.pc = "reinstate_sync", !.todo = @ \ {n}]
                    /\ Local
               ELSE Refuse
        PROVE  IndInv' /\ Kept
    <2> DEFINE live == Put(disk.live, n, disk.quarantine.files[n])
               held == Drop(disk.quarantine.files, n)
               x == [disk.quarantine EXCEPT !.files = held]
               e == [disk EXCEPT !.live = live, !.quarantine = x]
    <2>1. n \in Names /\ disk.quarantine.files[n] # Absent
      BY <1>2, <1>4 DEF Present
    <2>2. Matches(disk.quarantine.files, n, j.old)
      BY <1>3, <2>1 DEF RollbackAt, Matches
    <2>3. /\ Change(e) /\ Local
          /\ session' = [session EXCEPT !.pc = "reinstate_sync", !.todo = session.todo \ {n}]
      BY <1>4, <2>2
    <2>4. /\ live \in Files /\ held \in Files /\ live[n] = disk.quarantine.files[n] /\ held[n] = Absent
          /\ \A m \in Names \ {n} : live[m] = disk.live[m] /\ held[m] = disk.quarantine.files[m]
      <3>1. disk.live \in Files /\ disk.quarantine.files \in Files
        BY <1>3
      <3> QED
        BY <2>1, <3>1 DEF Files, Put, Drop
    <2>5. Present(held) = Present(disk.quarantine.files) \ {n}
      BY <2>4 DEF Present
    <2> HIDE DEF held, live
    <2>6. x \in Directory /\ x.exists /\ x.files = held
      <3>1. disk.quarantine \in Directory /\ disk.quarantine.exists /\ held \in Files
        BY <1>2, <1>3, <2>4
      <3> QED
        BY <3>1, FileMoved
    <2> HIDE DEF x
    <2>7. /\ e \in Disk /\ e.live = live /\ e.staging = disk.staging
          /\ e.quarantine = x /\ e.tmp = disk.tmp /\ e.journal = disk.journal
      BY <1>3, <2>4, <2>6 DEF Disk
    <2> HIDE DEF e
    <2>8. RollbackAt(e, j, n) /\ live[n] = j.old[n]
      BY <1>3, <2>1, <2>4, <2>6, <2>7 DEF RollbackAt
    <2>9. Good(e)
      BY <1>3, <2>4, <2>6, <2>7, <2>8, GoodMoved
    <2>10. "reinstate_sync" \in Steps \ ({"idle"} \cup Synced)
      BY DEF Steps, Synced
    <2>11. session.todo \ {n} \in SUBSET Names
      BY <1>3 DEF Session
    <2>12. /\ session' \in Session /\ session'.pc = "reinstate_sync" /\ session'.mode = session.mode
           /\ session'.job = session.job /\ session'.snapshot = session.snapshot
           /\ session'.mem = session.mem /\ session'.draft = session.draft
           /\ session'.todo = session.todo \ {n}
      BY <1>3, <2>3, <2>10, <2>11 DEF Session
    <2>13. Within(e.live, j.old)
      BY <1>2, <2>4, <2>7, <2>8 DEF Within, Present
    <2>14. Fits(session', e)
      BY <1>2, <2>5, <2>6, <2>7, <2>12, <2>13 DEF Fits, InHand
    <2>15. disk' = e /\ UNCHANGED serving
      BY <2>3 DEF Change, Local
    <2>16. Windowed' /\ Kept
      BY <1>2, <1>3, <2>3, <2>7, <2>9, <2>15, Moving DEF Real
    <2> QED
      BY <1>1, <2>3, <2>10, <2>12, <2>14, <2>15, <2>16, Undergoing
  <1>5. CASE /\ session.todo = {}
             /\ IF disk.live = j.old THEN Loop("cleanup", {}, {}, {}) /\ Keep /\ Local ELSE Refuse
    <2>1. \A n \in Present(j.old) : disk.live[n] = j.old[n]
      BY <1>2, <1>3, <1>5 DEF RollbackAt, Present
    <2>2. disk.live = j.old
      BY <1>2, <1>3, <2>1, SameFiles
    <2>3. Loop("cleanup", {}, {}, {}) /\ Keep /\ Local
      BY <1>5, <2>2
    <2>4. "cleanup" \in Steps
      BY DEF Steps
    <2>5. /\ session' \in Session /\ session'.pc = "cleanup" /\ session'.mode = session.mode
          /\ session'.job = session.job /\ session'.snapshot = session.snapshot
          /\ session'.mem = session.mem /\ session'.draft = session.draft
      BY <1>3, <2>3, <2>4, Looped
    <2>6. Fits(session', disk)
      BY <1>2, <2>2, <2>5 DEF Fits, InHand
    <2> QED
      BY <1>1, <2>3, <2>5, <2>6, Resting
  <1> QED
    BY <1>4, <1>5 DEF Reinstate

-----------------------------------------------------------------------------
(* Cleaning up *)

\* Less in a directory.
Less(x, y) == \A n \in Names : x.files[n] \in {y.files[n], Absent}

\* What a step of RemoveAll makes of its directory.
LEMMA RemoveFacts ==
  ASSUME disk \in Disk, NEW pc
  PROVE  /\ RemoveAll(pc, "staging") => \E x \in Directory :
              Less(x, disk.staging) /\ Do(pc, [disk EXCEPT !.staging = x], pc)
         /\ RemoveAll(pc, "quarantine") => \E x \in Directory :
              Less(x, disk.quarantine) /\ Do(pc, [disk EXCEPT !.quarantine = x], pc)
  <1>1. ASSUME NEW y \in Directory, NEW n \in Present(y.files)
        PROVE  [y EXCEPT !.files = Drop(@, n)] \in Directory /\ Less([y EXCEPT !.files = Drop(@, n)], y)
    <2> DEFINE f == Drop(y.files, n)
               x == [y EXCEPT !.files = f]
    <2>1. y.files \in Files /\ n \in Names /\ y.files # Empty /\ y.exists
      BY DirectoryFacts, EmptyFacts DEF Present
    <2>2. f \in Files /\ f[n] = Absent /\ \A m \in Names \ {n} : f[m] = y.files[m]
      BY <2>1 DEF Files, Drop, Put
    <2> HIDE DEF f
    <2>3. x \in Directory /\ x.files = f
      BY <2>1, <2>2, FileMoved
    <2> HIDE DEF x
    <2>4. Less(x, y)
      BY <2>1, <2>2, <2>3 DEF Less
    <2> QED
      BY <2>3, <2>4 DEF x, f
  <1>2. \A y : Less(NoDirectory, y) /\ NoDirectory \in Directory
    BY DirectoryFacts, EmptyFacts DEF Less
  <1>3. disk.staging \in Directory /\ disk.quarantine \in Directory
    BY DiskFacts
  <1>4. ASSUME RemoveAll(pc, "staging")
        PROVE  \E x \in Directory : Less(x, disk.staging) /\ Do(pc, [disk EXCEPT !.staging = x], pc)
    <2>1. CASE Do(pc, [disk EXCEPT !.staging = NoDirectory], pc)
      BY <1>2, <2>1
    <2>2. ASSUME NEW n \in Present(disk.staging.files),
                 Do(pc, [disk EXCEPT !.staging = [disk.staging EXCEPT !.files = Drop(disk.staging.files, n)]], pc)
          PROVE  \E x \in Directory : Less(x, disk.staging) /\ Do(pc, [disk EXCEPT !.staging = x], pc)
      <3> DEFINE x == [disk.staging EXCEPT !.files = Drop(disk.staging.files, n)]
      <3>1. x \in Directory /\ Less(x, disk.staging)
        BY <1>1, <1>3
      <3>2. Do(pc, [disk EXCEPT !.staging = x], pc)
        BY <2>2
      <3> HIDE DEF x
      <3> QED
        BY <3>1, <3>2
    <2>3. disk["staging"] = disk.staging /\ \A x : [disk EXCEPT !["staging"] = x] = [disk EXCEPT !.staging = x]
      BY DEF Disk
    <2>4. \/ \E n \in Present(disk.staging.files) :
               Do(pc, [disk EXCEPT !.staging = [disk.staging EXCEPT !.files = Drop(disk.staging.files, n)]], pc)
          \/ Do(pc, [disk EXCEPT !.staging = NoDirectory], pc)
      BY <1>4, <2>3 DEF RemoveAll
    <2> QED
      BY <2>1, <2>2, <2>4
  <1>5. ASSUME RemoveAll(pc, "quarantine")
        PROVE  \E x \in Directory : Less(x, disk.quarantine) /\ Do(pc, [disk EXCEPT !.quarantine = x], pc)
    <2>1. CASE Do(pc, [disk EXCEPT !.quarantine = NoDirectory], pc)
      BY <1>2, <2>1
    <2>2. ASSUME NEW n \in Present(disk.quarantine.files),
                 Do(pc, [disk EXCEPT !.quarantine = [disk.quarantine EXCEPT !.files = Drop(disk.quarantine.files, n)]], pc)
          PROVE  \E x \in Directory : Less(x, disk.quarantine) /\ Do(pc, [disk EXCEPT !.quarantine = x], pc)
      <3> DEFINE x == [disk.quarantine EXCEPT !.files = Drop(disk.quarantine.files, n)]
      <3>1. x \in Directory /\ Less(x, disk.quarantine)
        BY <1>1, <1>3
      <3>2. Do(pc, [disk EXCEPT !.quarantine = x], pc)
        BY <2>2
      <3> HIDE DEF x
      <3> QED
        BY <3>1, <3>2
    <2>3. disk["quarantine"] = disk.quarantine /\ \A x : [disk EXCEPT !["quarantine"] = x] = [disk EXCEPT !.quarantine = x]
      BY DEF Disk
    <2>4. \/ \E n \in Present(disk.quarantine.files) :
               Do(pc, [disk EXCEPT !.quarantine = [disk.quarantine EXCEPT !.files = Drop(disk.quarantine.files, n)]], pc)
          \/ Do(pc, [disk EXCEPT !.quarantine = NoDirectory], pc)
      BY <1>5, <2>3 DEF RemoveAll
    <2> QED
      BY <2>1, <2>2, <2>4
  <1> QED
    BY <1>4, <1>5

\* Removing what a finished transaction left keeps a disk good.
LEMMA GoodCleaned ==
  ASSUME NEW d, Good(d), d.journal.phase \in {"rolling_back", "committed"},
         d.journal.phase = "rolling_back" => d.live = d.journal.old,
         NEW e \in Disk, e.live = d.live, e.journal = d.journal, e.tmp = d.tmp,
         Less(e.staging, d.staging), Less(e.quarantine, d.quarantine)
  PROVE  Good(e)
  <1>1. CASE d.journal.phase = "rolling_back"
    <2>1. d.journal.synced /\ \A n \in Names : RollbackAt(d, d.journal, n)
      BY <1>1, GoodAt
    <2>2. ASSUME NEW n \in Names PROVE RollbackAt(e, e.journal, n)
      <3>1. /\ RollbackAt(d, d.journal, n) /\ d.live[n] = d.journal.old[n] /\ e.live[n] = d.live[n]
            /\ e.staging.files[n] \in {d.staging.files[n], Absent}
            /\ e.quarantine.files[n] \in {d.quarantine.files[n], Absent}
        BY <1>1, <2>1 DEF Less
      <3> QED
        BY <3>1 DEF RollbackAt
    <2> QED
      BY <1>1, <2>1, <2>2, GoodMoved
  <1>2. CASE d.journal.phase = "committed"
    <2>1. CommittedEvidence(d, d.journal) /\ d.journal.new \in Snapshots /\ d.journal.synced
      BY <1>2, GoodAt DEF Good, Evidence, Real
    <2>2. CommittedEvidence(e, e.journal)
      BY <2>1 DEF CommittedEvidence, Within, Present, Less
    <2> QED
      BY <1>2, <2>1, <2>2 DEF Good, Evidence, Real
  <1> QED
    BY <1>1, <1>2

LEMMA CleanupStep ==
  ASSUME IndInv, Cleanup
  PROVE  IndInv' /\ Kept
  <1> DEFINE j == session.mem
  <1>1. session.pc = "cleanup"
    BY DEF Cleanup, RemoveAll, Do, At
  <1>2. /\ session \in Session /\ disk \in Disk /\ Good(disk) /\ Windowed /\ ~serving /\ serving \in BOOLEAN
        /\ session.mode \in Modes \ {"idle"}
        /\ session.mode \in {"publishing", "unwinding"} => session.job = "restore"
        /\ \/ InHand(session, disk, {"publishing", "recovering"}, {"committed"})
           \/ InHand(session, disk, Undoing, {"rolling_back"}) /\ disk.live = j.old
    BY <1>1, Under DEF Fits
  <1>3. /\ disk.journal = j /\ j.phase \in {"rolling_back", "committed"}
        /\ j.phase = "rolling_back" => disk.live = j.old
        /\ disk.staging \in Directory /\ disk.quarantine \in Directory
    BY <1>2, DiskFacts DEF InHand
  <1>4. "cleanup" \in Steps \ ({"idle"} \cup Synced)
    BY DEF Steps, Synced
  <1>5. ASSUME NEW e \in Disk, e.live = disk.live, e.journal = disk.journal, e.tmp = disk.tmp,
               Less(e.staging, disk.staging), Less(e.quarantine, disk.quarantine),
               Do("cleanup", e, "cleanup")
        PROVE  IndInv' /\ Kept
    <2>1. Good(e)
      BY <1>2, <1>3, <1>5, GoodCleaned
    <2>2. Change(e) /\ UNCHANGED serving /\ Goto("cleanup")
      BY <1>5 DEF Do, Local
    <2>3. Windowed' /\ Kept
      BY <1>2, <1>5, <2>1, <2>2, Aside
    <2>4. /\ session'.pc = "cleanup" /\ session'.mode = session.mode /\ session'.snapshot = session.snapshot
          /\ session'.mem = session.mem /\ session'.draft = session.draft
      BY <1>2, <1>4, <2>2, Moved
    <2>5. Fits(session', e)
      BY <1>2, <1>5, <2>4 DEF Fits, InHand
    <2> QED
      BY <1>1, <1>4, <1>5, <2>3, <2>5, Doing
  <1>6. ASSUME NEW x \in Directory, Less(x, disk.staging), Do("cleanup", [disk EXCEPT !.staging = x], "cleanup")
        PROVE  IndInv' /\ Kept
    <2> DEFINE e == [disk EXCEPT !.staging = x]
    <2>1. /\ e \in Disk /\ e.live = disk.live /\ e.staging = x
          /\ e.quarantine = disk.quarantine /\ e.tmp = disk.tmp /\ e.journal = disk.journal
      BY <1>2 DEF Disk
    <2>2. Do("cleanup", e, "cleanup")
      BY <1>6
    <2> HIDE DEF e
    <2>3. Less(e.quarantine, disk.quarantine)
      BY <2>1 DEF Less
    <2> QED
      BY <1>5, <1>6, <2>1, <2>2, <2>3
  <1>7. ASSUME NEW x \in Directory, Less(x, disk.quarantine), Do("cleanup", [disk EXCEPT !.quarantine = x], "cleanup")
        PROVE  IndInv' /\ Kept
    <2> DEFINE e == [disk EXCEPT !.quarantine = x]
    <2>1. /\ e \in Disk /\ e.live = disk.live /\ e.staging = disk.staging
          /\ e.quarantine = x /\ e.tmp = disk.tmp /\ e.journal = disk.journal
      BY <1>2 DEF Disk
    <2>2. Do("cleanup", e, "cleanup")
      BY <1>7
    <2> HIDE DEF e
    <2>3. Less(e.staging, disk.staging)
      BY <2>1 DEF Less
    <2> QED
      BY <1>5, <1>7, <2>1, <2>2, <2>3
  <1>8. CASE /\ ~disk.staging.exists /\ ~disk.quarantine.exists
             /\ disk' = [disk EXCEPT !.tmp = NoJournal]
             /\ window' = {disk'}
             /\ Goto("forget") /\ Local
    <2> DEFINE e == [disk EXCEPT !.tmp = NoJournal]
    <2>1. /\ e.live = disk.live /\ e.staging = disk.staging
          /\ e.quarantine = disk.quarantine /\ e.tmp = NoJournal /\ e.journal = disk.journal
      BY <1>2 DEF Disk
    <2>2. disk' = e /\ window' = {e} /\ UNCHANGED serving
      BY <1>8 DEF Local
    <2>3. Good(e)
      BY <1>2, GoodTmp, NoJournalFacts
    <2> HIDE DEF e
    <2>4. Windowed' /\ Kept
      BY <1>2, <2>1, <2>2, <2>3, Settled
    <2>5. "forget" \in Steps
      BY DEF Steps
    <2>6. /\ session' \in Session /\ session'.pc = "forget" /\ session'.mode = session.mode
          /\ session'.job = session.job /\ session'.snapshot = session.snapshot
          /\ session'.mem = session.mem /\ session'.draft = session.draft
      BY <1>2, <1>8, <2>5, Moved
    <2>7. ~Residue(e)
      BY <1>8, <2>1, NoJournalFacts DEF Residue
    <2>8. Fits(session', disk')
      BY <1>2, <2>1, <2>2, <2>6, <2>7 DEF Fits, InHand
    <2> QED
      BY <1>1, <1>2, <1>8, <2>2, <2>4, <2>6, <2>8, Continue
  <1> QED
    BY <1>2, <1>6, <1>7, <1>8, RemoveFacts DEF Cleanup, At

\* The journal goes last, when what is live is the outcome it stood for.
LEMMA ForgetStep ==
  ASSUME IndInv, Forget
  PROVE  IndInv' /\ Kept
  <1> DEFINE j == session.mem
             e == [disk EXCEPT !.journal = NoJournal]
  <1>1. session.pc = "forget" /\ Do("forget", e, "forget_sync") /\ Goto("forget_sync")
    BY DEF Forget, Do, At
  <1>2. /\ session \in Session /\ disk \in Disk /\ Good(disk) /\ Windowed /\ window = {disk}
        /\ ~Residue(disk)
        /\ \/ InHand(session, disk, {"publishing", "recovering"}, {"committed"})
           \/ InHand(session, disk, Undoing, {"rolling_back"}) /\ disk.live = j.old
    BY <1>1, Under DEF Fits, Synced
  <1>3. /\ disk.journal = j /\ j.phase \in {"rolling_back", "committed"} /\ session.draft = NoJournal
        /\ j.phase = "rolling_back" => disk.live = j.old
        /\ session.mode = "publishing" => j.phase = "committed"
        /\ disk.quarantine \in Directory
    BY <1>2, DiskFacts DEF InHand, Undoing
  <1>4. /\ e \in Disk /\ e.live = disk.live /\ e.staging = disk.staging
        /\ e.quarantine = disk.quarantine /\ e.tmp = disk.tmp /\ e.journal = NoJournal
    BY <1>2, NoJournalFacts DEF Disk
  <1> HIDE DEF e
  <1>5. Change(e) /\ UNCHANGED serving
    BY <1>1 DEF Do, Local
  <1>6. Good(e)
    <2>1. e.quarantine.files = Empty
      BY <1>2, <1>3, <1>4, DirectoryFacts DEF Residue
    <2> QED
      BY <1>2, <1>4, <2>1, NoJournalFacts DEF Good, Real
  <1>7. Windowed' /\ Kept
    <2>1. CASE j.phase = "rolling_back"
      <3>1. Outcome(e) = Outcome(disk)
        BY <1>2, <1>3, <1>4, <2>1, NoJournalFacts, OutcomeFacts DEF Real
      <3> QED
        BY <1>2, <1>3, <1>4, <1>5, <1>6, <2>1, <3>1, NoJournalFacts, Grow
    <2>2. CASE j.phase = "committed"
      <3>1. disk.live = disk.journal.new
        BY <1>2, <1>3, <2>2 DEF Good, Evidence, Real, CommittedEvidence
      <3> QED
        BY <1>2, <1>3, <1>4, <1>5, <1>6, <2>2, <3>1, NoJournalFacts, Grow
    <2> QED
      BY <1>3, <2>1, <2>2
  <1>8. "forget_sync" \in Steps \ ({"idle"} \cup Synced)
    BY DEF Steps, Synced
  <1>9. /\ session'.pc = "forget_sync" /\ session'.mode = session.mode /\ session'.snapshot = session.snapshot
        /\ session'.mem = session.mem /\ session'.draft = session.draft
    BY <1>1, <1>2, <1>8, Moved
  <1>10. Clean(e)
    BY <1>2, <1>4 DEF Clean, Residue
  <1>11. Fits(session', e)
    BY <1>3, <1>9, <1>10 DEF Fits
  <1> QED
    BY <1>1, <1>7, <1>8, <1>11, Doing

LEMMA ForgetSyncStep ==
  ASSUME IndInv, ForgetSync
  PROVE  IndInv' /\ Kept
  <1>1. session.pc = "forget_sync" /\ FsyncDir /\ disk' = disk
    BY DEF ForgetSync, At, FsyncDir
  <1>2. Clean(disk) /\ session.draft = NoJournal /\ Windowed /\ ~serving /\ serving \in BOOLEAN
    BY <1>1, Under DEF Fits
  <1>3. disk.journal.phase = "none"
    BY <1>2, NoJournalFacts DEF Clean
  <1>4. serving' \in BOOLEAN => Windowed' /\ Kept
    BY <1>1, <1>2, <1>3, Synchronised
  <1>5. CASE Recovered
    <2>1. Windowed'
      BY <1>1, <1>2, OutcomeFacts DEF Windowed, OneLive, OneOutcome, FsyncDir
    <2>2. IndInv' /\ serving' \in BOOLEAN
      BY <1>1, <1>2, <1>5, <2>1, Recovering
    <2> QED
      BY <1>4, <2>2
  <1>6. ASSUME NEW is \in {"ok", "failed"}, End(is), UNCHANGED serving
        PROVE  IndInv' /\ Kept
    BY <1>1, <1>2, <1>4, <1>6, Finish
  <1> QED
    BY <1>5, <1>6 DEF ForgetSync

-----------------------------------------------------------------------------
(* Unwinding *)

LEMMA UnwindStep ==
  ASSUME IndInv, Unwind
  PROVE  IndInv' /\ Kept
  <1>1. session.pc = "unwind" /\ Keep /\ disk' = disk
    BY DEF Unwind, At, Keep
  <1>2. /\ session \in Session /\ Windowed /\ ~serving /\ serving \in BOOLEAN
        /\ session.mode = "unwinding" /\ session.draft = NoJournal
        /\ \/ session.mem = NoJournal /\ disk.journal = NoJournal
           \/ session.mem.phase = "prepared" /\ disk.journal = session.mem
           \/ session.mem.phase = "committed"
    BY <1>1, Under DEF Fits
  <1>3. CASE session.mem = NoJournal /\ disk.journal = NoJournal
    <2>1. Goto("remove_staging") /\ Local
      BY <1>3, NoJournalFacts DEF Unwind
    <2>2. "remove_staging" \in Steps \ {"idle"} /\ "remove_staging" \notin Synced
      BY DEF Steps, Synced
    <2>3. session'.pc = "remove_staging" /\ session'.mode = session.mode
      BY <1>2, <2>1, <2>2, Moved
    <2>4. Fits(session', disk)
      BY <1>2, <1>3, <2>3 DEF Fits
    <2> QED
      BY <1>1, <2>1, <2>2, <2>4, Going
  <1>4. CASE session.mem.phase = "prepared" /\ disk.journal = session.mem
    <2>1. SetPhase("rolling_back") /\ Local
      BY <1>4 DEF Unwind
    <2> QED
      BY <1>1, <1>2, <1>4, <2>1, Turning DEF Undoing
  <1>5. CASE session.mem.phase = "committed"
    <2>1. End("failed") /\ UNCHANGED serving
      BY <1>5 DEF Unwind
    <2>2. Windowed' /\ Kept
      BY <1>1, <1>2, <2>1, Still
    <2> QED
      BY <1>2, <2>1, <2>2, Finish
  <1> QED
    BY <1>2, <1>3, <1>4, <1>5

LEMMA RemoveStagingStep ==
  ASSUME IndInv, RemoveStaging
  PROVE  IndInv' /\ Kept
  <1>1. session.pc = "remove_staging"
    BY DEF RemoveStaging, RemoveAll, Do, At
  <1>2. /\ session \in Session /\ disk \in Disk /\ Good(disk) /\ Windowed
        /\ session.mode = "unwinding" /\ disk.journal = NoJournal
    BY <1>1, Under DEF Fits
  <1>3. disk.quarantine.files = Empty
    BY <1>2, NoJournalFacts DEF Good, Real
  <1>4. ASSUME NEW x \in Directory, Less(x, disk.staging), Do("remove_staging", [disk EXCEPT !.staging = x], "remove_staging")
        PROVE  IndInv' /\ Kept
    <2> DEFINE e == [disk EXCEPT !.staging = x]
    <2>1. /\ e \in Disk /\ e.live = disk.live /\ e.staging = x
          /\ e.quarantine = disk.quarantine /\ e.tmp = disk.tmp /\ e.journal = disk.journal
      BY <1>2 DEF Disk
    <2>2. Do("remove_staging", e, "remove_staging") /\ Goto("remove_staging") /\ Change(e) /\ UNCHANGED serving
      BY <1>4 DEF Do, Local
    <2> HIDE DEF e
    <2>3. e.quarantine.files = Empty
      BY <1>3, <2>1
    <2>4. Good(e)
      BY <1>2, <2>1, <2>3, GoodBefore
    <2>5. Windowed' /\ Kept
      BY <1>2, <2>1, <2>2, <2>4, Aside
    <2>6. "remove_staging" \in Steps \ ({"idle"} \cup Synced)
      BY DEF Steps, Synced
    <2>7. session'.pc = "remove_staging" /\ session'.mode = session.mode
      BY <1>2, <2>2, <2>6, Moved
    <2>8. Fits(session', e)
      BY <1>2, <2>1, <2>7 DEF Fits
    <2> QED
      BY <1>1, <2>2, <2>5, <2>6, <2>8, Doing
  <1>5. CASE Goto("remove_quarantine") /\ Keep /\ Local
    <2>1. "remove_quarantine" \in Steps \ {"idle"} /\ "remove_quarantine" \notin Synced
      BY DEF Steps, Synced
    <2>2. session'.pc = "remove_quarantine" /\ session'.mode = session.mode
      BY <1>2, <1>5, <2>1, Moved
    <2>3. Fits(session', disk)
      BY <1>2, <2>2 DEF Fits
    <2> QED
      BY <1>1, <1>5, <2>1, <2>3, Going
  <1> QED
    BY <1>2, <1>4, <1>5, RemoveFacts DEF RemoveStaging

LEMMA RemoveQuarantineStep ==
  ASSUME IndInv, RemoveQuarantine
  PROVE  IndInv' /\ Kept
  <1>1. session.pc = "remove_quarantine"
    BY DEF RemoveQuarantine, RemoveAll, Do, At
  <1>2. /\ session \in Session /\ disk \in Disk /\ Good(disk) /\ Windowed
        /\ session.mode = "unwinding" /\ disk.journal = NoJournal
    BY <1>1, Under DEF Fits
  <1>3. disk.quarantine.files = Empty
    BY <1>2, NoJournalFacts DEF Good, Real
  <1>4. ASSUME NEW x \in Directory, Less(x, disk.quarantine), Do("remove_quarantine", [disk EXCEPT !.quarantine = x], "remove_quarantine")
        PROVE  IndInv' /\ Kept
    <2> DEFINE e == [disk EXCEPT !.quarantine = x]
    <2>1. /\ e \in Disk /\ e.live = disk.live /\ e.quarantine = x
          /\ e.staging = disk.staging /\ e.tmp = disk.tmp /\ e.journal = disk.journal
      BY <1>2 DEF Disk
    <2>2. Do("remove_quarantine", e, "remove_quarantine") /\ Goto("remove_quarantine") /\ Change(e) /\ UNCHANGED serving
      BY <1>4 DEF Do, Local
    <2> HIDE DEF e
    <2>3. e.quarantine.files = Empty
      <3>1. x.files \in Files /\ \A n \in Names : x.files[n] = Absent
        BY <1>3, <1>4, DirectoryFacts, EmptyFacts DEF Less
      <3> QED
        BY <2>1, <3>1, EmptyFacts DEF Present
    <2>4. Good(e)
      BY <1>2, <2>1, <2>3, GoodBefore
    <2>5. Windowed' /\ Kept
      BY <1>2, <2>1, <2>2, <2>4, Aside
    <2>6. "remove_quarantine" \in Steps \ ({"idle"} \cup Synced)
      BY DEF Steps, Synced
    <2>7. session'.pc = "remove_quarantine" /\ session'.mode = session.mode
      BY <1>2, <2>2, <2>6, Moved
    <2>8. Fits(session', e)
      BY <1>2, <2>1, <2>7 DEF Fits
    <2> QED
      BY <1>1, <2>2, <2>5, <2>6, <2>8, Doing
  <1>5. CASE Goto("remove_sync") /\ Keep /\ Local
    <2>1. "remove_sync" \in Steps \ {"idle"} /\ "remove_sync" \notin Synced
      BY DEF Steps, Synced
    <2>2. session'.pc = "remove_sync" /\ session'.mode = session.mode
      BY <1>2, <1>5, <2>1, Moved
    <2>3. Fits(session', disk)
      BY <1>2, <2>2 DEF Fits
    <2> QED
      BY <1>1, <1>5, <2>1, <2>3, Going
  <1> QED
    BY <1>2, <1>4, <1>5, RemoveFacts DEF RemoveQuarantine

LEMMA RemoveSyncStep ==
  ASSUME IndInv, RemoveSync
  PROVE  IndInv' /\ Kept
  <1>1. session.pc = "remove_sync" /\ FsyncDir /\ End("failed") /\ UNCHANGED serving /\ disk' = disk
    BY DEF RemoveSync, At, FsyncDir
  <1>2. disk.journal = NoJournal /\ Windowed /\ ~serving /\ serving \in BOOLEAN
    BY <1>1, Under DEF Fits
  <1>3. Windowed' /\ Kept
    BY <1>1, <1>2, NoJournalFacts, Synchronised
  <1> QED
    BY <1>1, <1>2, <1>3, Finish

-----------------------------------------------------------------------------
(* The theorems *)

LEMMA InitFacts ==
  ASSUME Init
  PROVE  IndInv /\ Promise!Init
  <1>1. PICK g \in Generations : disk = [live |-> g, staging |-> NoDirectory, quarantine |-> NoDirectory,
                                         tmp |-> NoJournal, journal |-> NoJournal]
    BY DEF Init
  <1>2. /\ window = {disk} /\ session = Idle /\ serving = FALSE
        /\ result = [job |-> "none", is |-> "none"] /\ g \in Files
    BY StateAssumption DEF Init
  <1>3. disk \in Disk
    BY <1>1, <1>2, DirectoryFacts, NoJournalFacts DEF Disk
  <1>4. /\ disk.live = g /\ disk.journal = NoJournal /\ disk.tmp = NoJournal
        /\ disk.quarantine.files = Empty
    BY <1>1, DirectoryFacts
  <1>5. Good(disk)
    BY <1>3, <1>4, NoJournalFacts DEF Good, Real
  <1>6. Windowed
    BY <1>2, <1>3, <1>5, OutcomeFacts DEF Windowed, OneLive, OneOutcome
  <1>7. Sessions
    BY <1>2, IdleFacts DEF Sessions, Synced
  <1>8. result \in Result /\ result.is = "none"
    BY <1>2 DEF Result, Jobs
  <1>9. Agents
    BY <1>2, <1>8 DEF Agents
  <1>10. Generation = g
    BY <1>3, <1>4, <1>6, NoJournalFacts, GenerationFacts, OutcomeFacts DEF Real
  <1> QED
    BY <1>2, <1>6, <1>7, <1>9, <1>10 DEF IndInv, Promise!Init

LEMMA StepFacts ==
  ASSUME IndInv, Step
  PROVE  IndInv' /\ Kept
  <1>1. CASE \/ AdoptSync \/ SyncName \/ MkdirSync \/ QuarantineSync \/ PublishSync
             \/ RollbackSync \/ RequarantineSync \/ UnpublishSync \/ ReinstateSync
    BY <1>1, SyncSteps
  <1>2. CASE Load \/ Discard \/ DiscardSync \/ Decide
    BY <1>2, LoadStep, DiscardStep, DecideStep
  <1>3. CASE Create \/ WriteTmp \/ SyncFile \/ Rename \/ SyncRename
    BY <1>3, CreateStep, WriteTmpStep, SyncFileStep, RenameStep, SyncRenameStep
  <1>4. CASE MkdirStaging \/ MkdirQuarantine \/ Stage \/ Prepare
    BY <1>4, MkdirStep, StageStep, PrepareStep
  <1>5. CASE Quarantine \/ Publish
    BY <1>5, QuarantineStep, PublishStep
  <1>6. CASE Rollback \/ Requarantine \/ RequarantineMove \/ Unpublish \/ UnpublishRemove \/ Reinstate
    BY <1>6, RollbackStep, RequarantineStep, RequarantineMoveStep, UnpublishStep,
       UnpublishRemoveStep, ReinstateStep
  <1>7. CASE Cleanup \/ Forget \/ ForgetSync
    BY <1>7, CleanupStep, ForgetStep, ForgetSyncStep
  <1>8. CASE Unwind \/ RemoveStaging \/ RemoveQuarantine \/ RemoveSync
    BY <1>8, UnwindStep, RemoveStagingStep, RemoveQuarantineStep, RemoveSyncStep
  <1>9. CASE Fail \/ Abandon
    BY <1>9, FailStep, AbandonStep
  <1> QED
    BY <1>1, <1>2, <1>3, <1>4, <1>5, <1>6, <1>7, <1>8, <1>9 DEF Step

LEMMA NextFacts ==
  ASSUME Undisturbed, IndInv, [Next]_vars
  PROVE  IndInv' /\ Kept
  <1>1. ASSUME NEW s \in Snapshots, Begin("restore", s) PROVE IndInv' /\ Kept
    BY <1>1, BeginStep, StateAssumption
  <1>2. CASE Begin("start", Empty) \/ Begin("backup", Empty)
    BY <1>2, BeginStep, EmptyFacts
  <1>3. CASE Step
    BY <1>3, StepFacts
  <1>4. CASE Die \/ PowerLoss
    BY <1>4, DieStep, PowerLossStep
  <1>5. CASE AgentWrites \/ AgentStops
    BY <1>5, AgentWritesStep, AgentStopsStep
  <1>6. ~Tamper
    BY DEF Undisturbed, Tamper
  <1>7. CASE UNCHANGED vars
    <2>1. Keep /\ disk' = disk /\ UNCHANGED <<session, serving, result>>
      BY <1>7 DEF vars, Keep
    <2>2. Windowed' /\ Kept
      BY <2>1, Still DEF IndInv, Agents
    <2> QED
      BY <2>1, <2>2 DEF IndInv, Sessions, Agents, Keep
  <1> QED
    BY <1>1, <1>2, <1>3, <1>4, <1>5, <1>6, <1>7 DEF Next

\* The inductive invariant.
THEOREM Inductive == Undisturbed => (Spec => []IndInv)
  <1> SUFFICES ASSUME Undisturbed PROVE Spec => []IndInv
    OBVIOUS
  <1>1. Init => IndInv
    BY InitFacts
  <1>2. IndInv /\ [Next]_vars => IndInv'
    BY NextFacts
  <1> QED
    BY <1>1, <1>2, PTL DEF Spec

\* Whatever a power loss leaves, at any step of any session, a journal it leaves is
\* one that recovery can act on (validateForwardEvidence, validateRollbackEvidence,
\* recoverCommitted).
THEOREM Actionable == Undisturbed => (Spec => []JournalActionable)
  <1> SUFFICES ASSUME Undisturbed PROVE Spec => []JournalActionable
    OBVIOUS
  <1>1. ASSUME IndInv PROVE JournalActionable
    <2>1. \A d \in window : Good(d) /\ d \in Disk /\ d.journal.phase \in Phases
      BY <1>1, DiskFacts DEF IndInv, Windowed, Good
    <2>2. TypeOK
      BY <1>1, <2>1 DEF IndInv, Windowed, Sessions, Agents, TypeOK
    <2> QED
      BY <2>1, <2>2 DEF JournalActionable, Good, Real, Phases
  <1> QED
    BY <1>1, Inductive, PTL

\* A recovery that refuses loses nothing, and what is served or published next carries
\* no trace of an earlier transaction (recoverRestoreLocked).
THEOREM Whole == Undisturbed => (Spec => []RecoveryIsWhole)
  <1> SUFFICES ASSUME Undisturbed PROVE Spec => []RecoveryIsWhole
    OBVIOUS
  <1>1. ASSUME IndInv PROVE RecoveryIsWhole
    <2>1. Good(disk) /\ disk.journal.phase \in Phases
      BY <1>1, DiskFacts DEF IndInv, Windowed, Good
    <2>2. RefusalIsHarmless
      BY <1>1, <2>1 DEF IndInv, Agents, RefusalIsHarmless, Good, Real, Phases
    <2>3. session.pc = "mkdir_staging" => disk.journal = NoJournal /\ ~Residue(disk)
      BY <1>1, NoJournalFacts, DirectoryFacts DEF IndInv, Sessions, Fits, Fresh, Residue
    <2>4. serving => disk.journal = NoJournal /\ ~Residue(disk)
      BY <1>1 DEF IndInv, Agents, Clean
    <2> QED
      BY <2>2, <2>3, <2>4 DEF RecoveryIsWhole, RecoveredIsClean, At
  <1> QED
    BY <1>1, Inductive, PTL

\* No state file moves while a power loss could still leave no journal
\* (publishRestore).
THEOREM JournalFirst == Undisturbed => (Spec => JournalBeforeMutation)
  <1> SUFFICES ASSUME Undisturbed PROVE Spec => JournalBeforeMutation
    OBVIOUS
  <1>1. ASSUME IndInv, [Next]_vars
        PROVE  [~serving /\ disk'.live # disk.live =>
                  \A d \in window : d.journal.phase \notin {"none", "torn"}]_vars
    BY <1>1, NextFacts DEF Kept, Real
  <1> QED
    BY <1>1, Inductive, PTL DEF Spec, JournalBeforeMutation

\* The state directory holds one generation, whole, that only a serving agent or a
\* durable commit changes: StateRestore implements StateGeneration.
THEOREM Refines == Undisturbed => (Spec => OneGeneration)
  <1> SUFFICES ASSUME Undisturbed PROVE Spec => OneGeneration
    OBVIOUS
  <1>1. Init => Promise!Init
    BY InitFacts
  <1>2. IndInv /\ [Next]_vars => [Promise!Next]_(Promise!vars)
    BY NextFacts DEF Kept
  <1> QED
    BY <1>1, <1>2, Inductive, PTL DEF Spec, OneGeneration, Promise!Spec

-----------------------------------------------------------------------------
(* Somebody else's files                                                   *)
(*                                                                         *)
(* The theorems above assume that nobody else writes state files: where    *)
(* somebody does, the evidence is gone and recovery refuses for good. What *)
(* holds even then is proved from an invariant of its own, which says less *)
(* of a disk and more of whose the files on it are: while a stranger's is  *)
(* live there is a journal, and it is on every disk a power loss can leave *)
(* until something replaces it; and a session knows a live file it moves,  *)
(* replaces or removes for its own, or for one that came since it looked.  *)
(* A file that comes between the look and the rename goes to quarantine,   *)
(* where the evidence of its name is then wrong for good.                  *)

\* What somebody left or installed.
Known == Generations \cup Snapshots

\* What a stranger writes is in no generation and in no snapshot.
ForeignApart == \A f \in Known, n \in Names : f[n] \notin Foreign

Ours(f) == \A n \in Names : f[n] \notin Foreign

\* A journal that tells of two known generations.
Sound(j) == j.phase \in Real => j.old \in Known /\ j.new \in Snapshots

\* A disk where a stranger's files are live under a journal, if at all.
Owned(d) ==
  /\ d \in Disk
  /\ d.journal.phase = "none" => d.live \in Known
  /\ Sound(d.journal) /\ Sound(d.tmp)
  /\ Ours(d.staging.files)

\* No power loss takes a stranger's file away.
Watched ==
  /\ disk \in window
  /\ \A d \in window :
       Owned(d) /\ \A n \in Names : disk.live[n] \in Foreign => d.live[n] = disk.live[n]

\* A session with a journal in hand and one on disk.
Holds(s, d, modes, phases) ==
  s.mode \in modes /\ s.mem.phase \in phases /\ s.draft = NoJournal /\ d.journal.phase \in Real

\* A session before its journal.
Opening(s, d) ==
  s.mode = "publishing" /\ s.mem.phase = "none" /\ s.draft = NoJournal /\ d.journal.phase = "none"

\* A session that writes the next phase of its journal.
Advancing(s, d) ==
  \/ s.draft.phase = "rolling_back" /\ s.mode \in Undoing
  \/ s.draft.phase = "committed" /\ s.mode = "publishing" /\ d.live = s.draft.new

\* Where a stranger's files are live.
Strange(d) == {n \in Names : d.live[n] \in Foreign}

Knows(s, d) ==
  /\ s.pc = "idle" => s = Idle
  /\ s.mode = "publishing" => Ours(d.live) /\ s.mem.phase \in {"none", "prepared", "committed"}
  /\ s.pc = "load" => s.mode = "recovering" /\ s.draft = NoJournal
  /\ s.pc = "adopt_sync" => Holds(s, d, {"recovering"}, Real)
  /\ s.pc \in {"discard", "discard_sync"} =>
       Holds(s, d, {"recovering"}, Real) \/ Advancing(s, d)
  /\ s.pc = "decide" => Holds(s, d, Undoing, Real)
  /\ s.pc \in {"create", "write", "sync_file", "sync_name", "rename", "abandon"} =>
       \/ s.draft.phase = "prepared" /\ s.mode = "publishing" /\ d.quarantine.exists
       \/ Advancing(s, d)
  /\ s.pc = "sync_file" => d.tmp = s.draft
  /\ s.pc \in {"sync_name", "rename"} => d.tmp = Draft(s)
  /\ s.pc = "sync_rename" =>
       \/ Holds(s, d, {"publishing"}, {"prepared"}) /\ d.quarantine.exists
       \/ Holds(s, d, {"publishing"}, {"committed"}) /\ d.live = s.mem.new
       \/ Holds(s, d, Undoing, {"rolling_back"})
  /\ s.pc \in {"mkdir_staging", "mkdir_quarantine", "mkdir_sync", "stage", "prepare"} =>
       Opening(s, d)
  /\ s.pc \in {"mkdir_quarantine", "mkdir_sync", "stage"} => d.staging.exists
  /\ s.pc \in {"mkdir_sync", "stage", "prepare"} => d.quarantine.exists
  /\ s.pc \in {"quarantine", "quarantine_sync"} =>
       Holds(s, d, {"publishing"}, {"prepared"}) /\ d.quarantine.exists
  /\ s.pc \in {"publish", "publish_sync"} => Holds(s, d, {"publishing"}, {"prepared"})
  /\ s.pc \in {"rollback", "rollback_sync", "requarantine", "requarantine_move",
               "requarantine_sync", "unpublish", "unpublish_remove", "unpublish_sync",
               "reinstate", "reinstate_sync"} =>
       Holds(s, d, Undoing, {"rolling_back"})
  /\ s.pc \in {"rollback_sync", "requarantine", "requarantine_move", "requarantine_sync"} =>
       d.quarantine.exists
  /\ s.pc \in {"requarantine_move", "unpublish_remove"} =>
       s.checked \cap Strange(d) \subseteq s.late
  /\ s.pc \in {"unpublish", "unpublish_remove", "unpublish_sync"} =>
       Strange(d) \subseteq s.todo \cup s.late
  /\ s.pc \in {"reinstate", "reinstate_sync"} => Strange(d) \subseteq s.late
  /\ s.pc \in {"cleanup", "forget"} => d.live \in Known /\ s.draft = NoJournal
  /\ s.pc = "forget" => ~Residue(d)
  /\ s.pc = "forget_sync" => d.journal.phase = "none" /\ ~Residue(d) /\ s.draft = NoJournal
  /\ s.pc = "unwind" =>
       /\ s.mode = "unwinding" /\ s.draft = NoJournal
       /\ s.mem.phase \in {"none", "prepared", "committed"}

Informed ==
  /\ session \in Session
  /\ Sound(session.mem) /\ Sound(session.draft)
  /\ Knows(session, disk)
  /\ session.pc # "idle" => session.job # "none"
  /\ session.mode = "publishing" => session.job = "restore"
  /\ session.job = "restore" => session.snapshot \in Snapshots

Undeceived ==
  /\ serving \in BOOLEAN
  /\ serving => /\ disk.journal.phase = "none" /\ ~Residue(disk)
                /\ session.pc = "idle" \/ (session.pc = "load" /\ session.job = "backup")

ForeignInv == Watched /\ Informed /\ Undeceived

\* What every step keeps beside the invariant.
Spared == \A n \in Names \ session.late :
  disk.live[n] \in Foreign => disk'.live[n] = disk.live[n]

\* Files that are ours stay ours as they move and go.
LEMMA OursFacts ==
  /\ \A f \in Files, n \in Names, c \in (Contents \cup {Absent}) \ Foreign :
       Ours(f) => Ours(Put(f, n, c))
  /\ \A f \in Files, n \in Names : Ours(f) => Ours(Drop(f, n))
  /\ Ours(Empty) /\ Absent \notin Foreign
  <1>1. Absent \notin Foreign
    BY StateAssumption
  <1>2. \A f \in Files, n \in Names, c \in (Contents \cup {Absent}) \ Foreign :
          Ours(f) => Ours(Put(f, n, c))
    <2> SUFFICES ASSUME NEW f \in Files, NEW n \in Names,
                        NEW c \in (Contents \cup {Absent}) \ Foreign, Ours(f)
                 PROVE  Ours(Put(f, n, c))
      OBVIOUS
    <2>1. Put(f, n, c)[n] = c /\ \A m \in Names \ {n} : Put(f, n, c)[m] = f[m]
      BY FilesFacts
    <2> QED
      BY <2>1 DEF Ours
  <1>3. \A f \in Files, n \in Names : Ours(f) => Ours(Drop(f, n))
    <2> SUFFICES ASSUME NEW f \in Files, NEW n \in Names, Ours(f)
                 PROVE  Ours(Drop(f, n))
      OBVIOUS
    <2>1. Drop(f, n)[n] = Absent /\ \A m \in Names \ {n} : Drop(f, n)[m] = f[m]
      BY FilesFacts
    <2> QED
      BY <1>1, <2>1 DEF Ours
  <1>4. Ours(Empty)
    BY <1>1, EmptyFacts DEF Ours
  <1> QED
    BY <1>1, <1>2, <1>3, <1>4

\* What is known is ours.
LEMMA KnownFacts ==
  ASSUME ForeignApart, NEW f \in Known
  PROVE  f \in Files /\ Ours(f)
  BY StateAssumption DEF Known, ForeignApart, Ours

\* A journal in any other phase is sound, and so is a later phase of a sound one.
LEMMA SoundFacts ==
  /\ Sound(NoJournal) /\ Sound(Torn)
  /\ \A j \in Journal, k \in Journal :
       Sound(j) /\ j.phase \in Real /\ k.old = j.old /\ k.new = j.new => Sound(k)
  BY NoJournalFacts DEF Sound, Real

\* The disk changes where no stranger wrote.
LEMMA WatchedChange ==
  ASSUME Watched, NEW e, Owned(e), Change(e),
         \A n \in Names : (disk.live[n] \in Foreign /\ n \notin session.late) \/ e.live[n] \in Foreign =>
                         e.live[n] = disk.live[n]
  PROVE  Watched' /\ Spared /\ disk' = e
  <1>1. disk' = e /\ window' = window \cup {e}
    BY DEF Change
  <1> QED
    BY <1>1 DEF Watched, Spared

\* The disk changes and the state files stay.
LEMMA WatchedAside ==
  ASSUME Watched, NEW e, Owned(e), Change(e), e.live = disk.live
  PROVE  Watched' /\ Spared /\ disk' = e
  BY WatchedChange

\* The disk stays, whether or not the directory is fsynced.
LEMMA WatchedStill ==
  ASSUME Watched, Keep \/ FsyncDir
  PROVE  Watched' /\ Spared /\ disk' = disk
  BY DEF Watched, Spared, Keep, FsyncDir

\* Before a step of a session.
LEMMA Facing ==
  ASSUME ForeignInv
  PROVE  /\ session \in Session /\ disk \in Disk /\ Owned(disk) /\ Knows(session, disk)
         /\ Watched /\ serving \in BOOLEAN
         /\ session.pc \notin {"idle", "load"} => ~serving
         /\ session.job # "backup" /\ session.pc # "idle" => ~serving
  BY DEF ForeignInv, Watched, Owned, Informed, Undeceived

\* A session goes on.
LEMMA Onward ==
  ASSUME ForeignInv, Watched', session.pc # "idle", ~serving, Local,
         session' \in Session, session'.job = session.job, session'.snapshot = session.snapshot,
         session'.pc # "idle", session'.mode = "publishing" => session.job = "restore",
         Sound(session'.mem), Sound(session'.draft), Knows(session', disk')
  PROVE  ForeignInv'
  <1>1. Informed'
    BY DEF ForeignInv, Informed
  <1>2. Undeceived'
    BY DEF ForeignInv, Undeceived, Local
  <1> QED
    BY <1>1, <1>2 DEF ForeignInv

\* A session goes on to another step.
LEMMA OnwardTo ==
  ASSUME ForeignInv, Watched', session.pc \notin {"idle", "load"}, Local,
         NEW next \in Steps \ {"idle"}, Goto(next), Knows(session', disk')
  PROVE  ForeignInv'
  <1>1. session \in Session /\ ~serving
    BY Facing
  <1>2. /\ session' \in Session /\ session'.pc = next /\ session'.mode = session.mode
        /\ session'.job = session.job /\ session'.snapshot = session.snapshot
        /\ session'.mem = session.mem /\ session'.draft = session.draft
    BY <1>1, Moved
  <1>3. /\ session.mode = "publishing" => session.job = "restore"
        /\ Sound(session.mem) /\ Sound(session.draft)
    BY DEF ForeignInv, Informed
  <1> QED
    BY <1>1, <1>2, <1>3, Onward

\* A session goes on in its loop, or to the next.
LEMMA OnwardIn ==
  ASSUME ForeignInv, Watched', session.pc \notin {"idle", "load"}, Local,
         session' \in Session, session'.job = session.job, session'.snapshot = session.snapshot,
         session'.mode = session.mode, session'.mem = session.mem, session'.draft = session.draft,
         session'.pc # "idle", Knows(session', disk')
  PROVE  ForeignInv'
  <1>1. /\ ~serving /\ (session.mode = "publishing" => session.job = "restore")
        /\ Sound(session.mem) /\ Sound(session.draft)
    BY Facing DEF ForeignInv, Informed
  <1> QED
    BY <1>1, Onward

\* A session is over.
LEMMA Over ==
  ASSUME ForeignInv, Watched', session' = Idle, serving' \in BOOLEAN,
         serving' => disk'.journal.phase = "none" /\ ~Residue(disk')
  PROVE  ForeignInv'
  <1>1. Idle \in Session /\ Idle.pc = "idle" /\ Idle.mode = "idle" /\ Idle.job = "none"
        /\ Idle.mem = NoJournal /\ Idle.draft = NoJournal
    BY IdleFacts DEF Idle
  <1>2. Knows(Idle, disk')
    BY <1>1 DEF Knows
  <1>3. Informed'
    BY <1>1, <1>2, SoundFacts DEF Informed
  <1>4. Undeceived'
    BY <1>1 DEF Undeceived
  <1> QED
    BY <1>3, <1>4 DEF ForeignInv

\* An error is raised.
LEMMA ForeignRaise ==
  ASSUME ForeignInv, Watched', session.pc \notin {"idle", "unwind"}, Raise, UNCHANGED serving,
         disk'.live = disk.live, serving => disk'.journal.phase = "none" /\ ~Residue(disk')
  PROVE  ForeignInv'
  <1>1. session \in Session /\ Knows(session, disk) /\ serving \in BOOLEAN
    BY Facing
  <1>2. CASE session.mode = "publishing" /\ session.pc # "mkdir_staging"
    <2>1. /\ session' = [session EXCEPT !.pc = "unwind", !.mode = "unwinding", !.draft = NoJournal]
          /\ Local
      BY <1>2 DEF Raise, Local
    <2>2. session.pc # "load" /\ session.mem.phase \in {"none", "prepared", "committed"}
      BY <1>1, <1>2 DEF Knows
    <2>3. /\ session' \in Session /\ session'.pc = "unwind" /\ session'.mode = "unwinding"
          /\ session'.job = session.job /\ session'.snapshot = session.snapshot
          /\ session'.mem = session.mem /\ session'.draft = NoJournal
      BY <1>1, <2>1, NoJournalFacts DEF Session, Steps, Modes
    <2>4. Knows(session', disk')
      BY <2>2, <2>3 DEF Knows
    <2>5. ~serving /\ Sound(session.mem)
      BY <1>2, <2>2, Facing DEF ForeignInv, Informed
    <2> QED
      BY <2>1, <2>3, <2>4, <2>5, SoundFacts, Onward
  <1>3. CASE ~(session.mode = "publishing" /\ session.pc # "mkdir_staging")
    <2>1. session' = Idle
      BY <1>3 DEF Raise, End
    <2> QED
      BY <1>1, <2>1, Over
  <1> QED
    BY <1>2, <1>3

\* An error is raised and the disk stays.
LEMMA ForeignRaiseStill ==
  ASSUME ForeignInv, session.pc \notin {"idle", "unwind"}, Raise, Keep, UNCHANGED serving
  PROVE  ForeignInv' /\ Spared
  <1>1. Watched' /\ Spared /\ disk' = disk
    BY WatchedStill DEF ForeignInv
  <1>2. serving => disk'.journal.phase = "none" /\ ~Residue(disk')
    BY <1>1 DEF ForeignInv, Undeceived
  <1> QED
    BY <1>1, <1>2, ForeignRaise

\* A refusal.
LEMMA ForeignRefuse ==
  ASSUME ForeignInv, session.pc \notin {"idle", "unwind"}, Refuse,
         session.mode = "publishing" => session.draft = NoJournal
  PROVE  ForeignInv' /\ Spared
  <1>1. session \in Session /\ Knows(session, disk) /\ Keep /\ UNCHANGED serving /\ Watched
        /\ serving \in BOOLEAN
    BY Facing DEF Refuse
  <1>2. Watched' /\ Spared /\ disk' = disk
    BY <1>1, WatchedStill
  <1>3. CASE session.mode = "publishing"
    <2>1. /\ session' = [session EXCEPT !.pc = "unwind", !.mode = "unwinding"]
          /\ Local
      BY <1>3 DEF Refuse, Local
    <2>2. session.pc # "load" /\ session.mem.phase \in {"none", "prepared", "committed"}
      BY <1>1, <1>3 DEF Knows
    <2>3. /\ session' \in Session /\ session'.pc = "unwind" /\ session'.mode = "unwinding"
          /\ session'.job = session.job /\ session'.snapshot = session.snapshot
          /\ session'.mem = session.mem /\ session'.draft = NoJournal
      BY <1>1, <1>3, <2>1 DEF Session, Steps, Modes
    <2>4. Knows(session', disk')
      BY <2>2, <2>3 DEF Knows
    <2>5. ~serving /\ Sound(session.mem)
      BY <1>3, <2>2, Facing DEF ForeignInv, Informed
    <2> QED
      BY <1>2, <2>1, <2>3, <2>4, <2>5, SoundFacts, Onward
  <1>4. CASE session.mode # "publishing"
    <2>1. session' = Idle
      BY <1>4 DEF Refuse, End
    <2>2. serving => disk.journal.phase = "none" /\ ~Residue(disk)
      BY DEF ForeignInv, Undeceived
    <2> QED
      BY <1>1, <1>2, <2>1, <2>2, Over
  <1> QED
    BY <1>3, <1>4

\* Recovery has nothing left to do.
LEMMA ForeignRecovered ==
  ASSUME ForeignInv, ForeignApart, Watched', session.pc # "idle", Recovered, disk' = disk,
         disk.journal.phase = "none", ~Residue(disk), session.draft = NoJournal
  PROVE  ForeignInv'
  <1>1. session \in Session /\ Owned(disk) /\ serving \in BOOLEAN /\ session.job \in Jobs \ {"none"}
    BY SessionFacts, Facing DEF ForeignInv, Informed
  <1>2. CASE session.job = "restore"
    <2>1. /\ session' = [session EXCEPT !.pc = "mkdir_staging", !.mode = "publishing", !.mem = NoJournal]
          /\ Local
      BY <1>2 DEF Recovered, Local
    <2>2. /\ session' \in Session /\ session'.pc = "mkdir_staging" /\ session'.mode = "publishing"
          /\ session'.job = session.job /\ session'.snapshot = session.snapshot
          /\ session'.mem = NoJournal /\ session'.draft = NoJournal
      BY <1>1, <2>1, NoJournalFacts DEF Session, Steps, Modes
    <2>3. Ours(disk.live) /\ ~serving
      BY <1>1, <1>2, KnownFacts, Facing DEF Owned
    <2>4. Knows(session', disk')
      BY <2>2, <2>3, NoJournalFacts DEF Knows, Opening
    <2> QED
      BY <1>2, <2>1, <2>2, <2>3, <2>4, SoundFacts, Onward
  <1>3. CASE session.job \in {"start", "backup"}
    <2>1. session' = Idle /\ serving' \in BOOLEAN
      BY <1>1, <1>3 DEF Recovered, End
    <2> QED
      BY <2>1, Over
  <1> QED
    BY <1>1, <1>2, <1>3 DEF Jobs

\* A session fsyncs the directory.
LEMMA ForeignFsync ==
  ASSUME ForeignInv, NEW pc \in Steps \ {"idle", "load"}, NEW next \in Steps \ {"idle"}, Fsync(pc, next),
         Knows(session', disk)
  PROVE  ForeignInv' /\ Spared
  <1>1. session.pc = pc /\ FsyncDir /\ Goto(next) /\ Local
    BY DEF Fsync, At
  <1>2. Watched' /\ Spared /\ disk' = disk
    BY <1>1, WatchedStill DEF ForeignInv
  <1> QED
    BY <1>1, <1>2, OnwardTo

\* A session steps and the disk stays.
LEMMA ForeignGo ==
  ASSUME ForeignInv, session.pc \notin {"idle", "load"}, Keep, Local,
         NEW next \in Steps \ {"idle"}, Goto(next), Knows(session', disk)
  PROVE  ForeignInv' /\ Spared
  <1>1. Watched' /\ Spared /\ disk' = disk
    BY WatchedStill DEF ForeignInv
  <1> QED
    BY <1>1, OnwardTo

\* A session changes the disk where no stranger wrote.
LEMMA ForeignDo ==
  ASSUME ForeignInv, NEW pc \in Steps \ {"idle", "load"}, NEW e, NEW next \in Steps \ {"idle"},
         Do(pc, e, next), Owned(e), Knows(session', e),
         \A n \in Names : (disk.live[n] \in Foreign /\ n \notin session.late) \/ e.live[n] \in Foreign =>
                         e.live[n] = disk.live[n]
  PROVE  ForeignInv' /\ Spared
  <1>1. session.pc = pc /\ Change(e) /\ Goto(next) /\ Local
    BY DEF Do, At
  <1>2. Watched' /\ Spared /\ disk' = e
    BY <1>1, WatchedChange DEF ForeignInv
  <1> QED
    BY <1>1, <1>2, OnwardTo

\* What a session knew before an fsync it knows after it.
LEMMA ForeignSyncs ==
  ASSUME ForeignInv,
         \/ AdoptSync \/ SyncName \/ MkdirSync \/ QuarantineSync \/ PublishSync
         \/ RequarantineSync \/ UnpublishSync \/ ReinstateSync
  PROVE  ForeignInv' /\ Spared
  <1>1. session \in Session /\ Knows(session, disk)
    BY Facing
  <1> DEFINE Pairs == {<<"adopt_sync", "discard">>, <<"sync_name", "rename">>, <<"mkdir_sync", "stage">>,
                       <<"quarantine_sync", "quarantine">>, <<"publish_sync", "publish">>,
                       <<"requarantine_sync", "requarantine">>,
                       <<"unpublish_sync", "unpublish">>, <<"reinstate_sync", "reinstate">>}
  <1>2. PICK p \in Pairs : Fsync(p[1], p[2])
    BY DEF AdoptSync, SyncName, MkdirSync, QuarantineSync, PublishSync,
           RequarantineSync, UnpublishSync, ReinstateSync
  <1>3. p[1] \in Steps \ {"idle", "load"} /\ p[2] \in Steps \ {"idle"}
    BY DEF Steps
  <1>4. session.pc = p[1] /\ Goto(p[2])
    BY <1>2 DEF Fsync, At
  <1>5. /\ session'.pc = p[2] /\ session'.mode = session.mode
        /\ session'.job = session.job /\ session'.snapshot = session.snapshot
        /\ session'.mem = session.mem /\ session'.draft = session.draft
        /\ session'.todo = session.todo /\ session'.late = session.late
    BY <1>1, <1>3, <1>4, Moved
  <1>6. session'.pc = p[2] /\ Knows(session', disk)
    BY <1>1, <1>4, <1>5 DEF Knows, Holds, Opening, Advancing, Draft
  <1> HIDE DEF Pairs
  <1> QED
    BY <1>2, <1>3, <1>6, ForeignFsync

\* The journal is advanced in memory.
LEMMA ForeignSetPhase ==
  ASSUME ForeignInv, session.pc \notin {"idle", "load"}, NEW phase \in {"rolling_back", "committed"},
         SetPhase(phase), Keep, Local, session.mem.phase \in Real,
         phase = "rolling_back" => session.mode \in Undoing,
         phase = "committed" => session.mode = "publishing" /\ disk.live = session.mem.new
  PROVE  ForeignInv' /\ Spared
  <1>1. session \in Session /\ Knows(session, disk) /\ ~serving /\ Sound(session.mem)
        /\ session.mem \in Journal
    BY Facing, SessionFacts DEF ForeignInv, Informed
  <1>2. Watched' /\ Spared /\ disk' = disk
    BY WatchedStill DEF ForeignInv
  <1> DEFINE k == [session.mem EXCEPT !.phase = phase, !.synced = FALSE]
  <1>3. k \in Journal /\ k.phase = phase /\ k.old = session.mem.old /\ k.new = session.mem.new
    BY <1>1 DEF Journal, Phases
  <1>4. session' = [session EXCEPT !.pc = "discard", !.draft = k]
    BY DEF SetPhase
  <1> HIDE DEF k
  <1>5. /\ session' \in Session /\ session'.pc = "discard" /\ session'.mode = session.mode
        /\ session'.job = session.job /\ session'.snapshot = session.snapshot
        /\ session'.mem = session.mem /\ session'.draft = k
    BY <1>1, <1>3, <1>4 DEF Session, Steps
  <1>6. Sound(k)
    BY <1>1, <1>3, SoundFacts
  <1>7. Knows(session', disk')
    BY <1>1, <1>2, <1>3, <1>5 DEF Knows, Advancing
  <1>8. session.mode = "publishing" => session.job = "restore"
    BY DEF ForeignInv, Informed
  <1> QED
    BY <1>1, <1>2, <1>5, <1>6, <1>7, <1>8, Onward

\* Another temporary journal.
LEMMA OwnedTmp ==
  ASSUME NEW d, Owned(d), NEW t \in Journal, Sound(t)
  PROVE  LET e == [d EXCEPT !.tmp = t] IN
           /\ Owned(e) /\ e.live = d.live /\ e.staging = d.staging /\ e.quarantine = d.quarantine
           /\ e.journal = d.journal /\ e.tmp = t
  <1>1. d \in Disk
    BY DEF Owned
  <1>2. LET e == [d EXCEPT !.tmp = t] IN
          /\ e \in Disk /\ e.live = d.live /\ e.staging = d.staging
          /\ e.quarantine = d.quarantine /\ e.tmp = t /\ e.journal = d.journal
    BY <1>1, DiskUpdates
  <1> QED
    BY <1>2 DEF Owned

\* The temporary is gone: recovery decides, or the next phase is written.
LEMMA ForeignDiscarded ==
  ASSUME ForeignInv, Watched', Spared, session.pc \in {"discard", "discard_sync"}, Discarded, Local,
         disk'.live = disk.live, disk'.journal = disk.journal, disk'.quarantine = disk.quarantine
  PROVE  ForeignInv'
  <1>1. session \in Session /\ Knows(session, disk) /\ ~serving
        /\ session.mem \in Journal /\ session.draft \in Journal
        /\ Sound(session.mem) /\ Sound(session.draft)
        /\ (session.mode = "publishing" => session.job = "restore")
    BY Facing, SessionFacts DEF ForeignInv, Informed
  <1>2. CASE session.draft = NoJournal
    <2>1. Goto("decide") /\ "decide" \in Steps
      BY <1>2 DEF Discarded, Steps
    <2>2. /\ session'.pc = "decide" /\ session'.mode = session.mode
          /\ session'.mem = session.mem /\ session'.draft = session.draft
      BY <1>1, <2>1, Moved
    <2>3. Holds(session, disk, {"recovering"}, Real)
      BY <1>1, <1>2, NoJournalFacts DEF Knows, Advancing
    <2>4. Knows(session', disk')
      BY <1>1, <2>2, <2>3 DEF Knows, Holds, Undoing
    <2> QED
      BY <2>1, <2>4, OnwardTo
  <1>3. CASE session.draft # NoJournal
    <2>1. session' = [session EXCEPT !.pc = "create", !.mem = session.draft]
      BY <1>3 DEF Discarded
    <2>2. /\ session' \in Session /\ session'.pc = "create" /\ session'.mode = session.mode
          /\ session'.job = session.job /\ session'.snapshot = session.snapshot
          /\ session'.mem = session.draft /\ session'.draft = session.draft
      BY <1>1, <2>1 DEF Session, Steps
    <2>3. Advancing(session, disk)
      BY <1>1, <1>3 DEF Knows, Holds
    <2>4. Knows(session', disk')
      BY <1>1, <2>2, <2>3 DEF Knows, Advancing, Undoing
    <2> QED
      BY <1>1, <2>2, <2>4, Onward
  <1> QED
    BY <1>2, <1>3

LEMMA ForeignDiscard ==
  ASSUME ForeignInv, Discard \/ DiscardSync
  PROVE  ForeignInv' /\ Spared
  <1>1. session.pc \in {"discard", "discard_sync"} /\ Local
    BY DEF Discard, DiscardSync, At
  <1>2. session \in Session /\ Knows(session, disk) /\ Owned(disk) /\ Watched
    BY Facing
  <1>3. CASE Discarded /\ (Keep \/ FsyncDir)
    <2>1. Watched' /\ Spared /\ disk' = disk
      BY <1>2, <1>3, WatchedStill
    <2> QED
      BY <1>1, <1>3, <2>1, ForeignDiscarded
  <1>4. CASE session.pc = "discard" /\ Change([disk EXCEPT !.tmp = NoJournal]) /\ Goto("discard_sync")
    <2> DEFINE e == [disk EXCEPT !.tmp = NoJournal]
    <2>1. Owned(e) /\ e.live = disk.live /\ e.quarantine = disk.quarantine /\ e.journal = disk.journal
      BY <1>2, NoJournalFacts, SoundFacts, OwnedTmp
    <2>2. Change(e)
      BY <1>4
    <2> HIDE DEF e
    <2>3. Watched' /\ Spared /\ disk' = e
      BY <1>2, <2>1, <2>2, WatchedAside
    <2>4. "discard_sync" \in Steps \ {"idle"}
      BY DEF Steps
    <2>5. /\ session'.pc = "discard_sync" /\ session'.mode = session.mode
          /\ session'.mem = session.mem /\ session'.draft = session.draft
      BY <1>2, <1>4, <2>4, Moved
    <2>6. Knows(session', disk')
      BY <1>2, <1>4, <2>1, <2>3, <2>5 DEF Knows, Holds, Advancing
    <2> QED
      BY <1>1, <1>4, <2>3, <2>4, <2>6, OnwardTo
  <1> QED
    BY <1>3, <1>4 DEF Discard, DiscardSync, At

LEMMA ForeignLoad ==
  ASSUME ForeignInv, ForeignApart, Load
  PROVE  ForeignInv' /\ Spared
  <1>1. /\ session \in Session /\ disk \in Disk /\ Owned(disk) /\ Knows(session, disk) /\ Watched
        /\ session.pc = "load" /\ session.mode = "recovering" /\ session.draft = NoJournal
        /\ serving \in BOOLEAN /\ session.job # "none"
    BY Facing DEF ForeignInv, Informed, Knows, Load, At
  <1>2. CASE disk.journal.phase = "none" /\ ~Residue(disk) /\ Recovered /\ Keep
    <2>1. Watched' /\ Spared /\ disk' = disk
      BY <1>1, <1>2, WatchedStill
    <2> QED
      BY <1>1, <1>2, <2>1, ForeignRecovered
  <1>3. CASE /\ disk.journal.phase = "none" /\ Residue(disk) /\ InitialEvidence(disk)
             /\ Change([disk EXCEPT !.journal = disk.tmp, !.tmp = NoJournal])
             /\ session' = [session EXCEPT !.pc = "adopt_sync", !.mem = disk.tmp]
             /\ Local
    <2> DEFINE e == [disk EXCEPT !.journal = disk.tmp, !.tmp = NoJournal]
    <2>1. disk.tmp \in Journal /\ disk.tmp.phase = "prepared" /\ Sound(disk.tmp)
      BY <1>1, <1>3, DiskFacts DEF InitialEvidence, Owned
    <2>2. /\ e \in Disk /\ e.live = disk.live /\ e.staging = disk.staging
          /\ e.quarantine = disk.quarantine /\ e.tmp = NoJournal /\ e.journal = disk.tmp
      BY <1>1, <2>1, NoJournalFacts DEF Disk
    <2>3. Change(e)
      BY <1>3
    <2> HIDE DEF e
    <2>4. Owned(e)
      BY <1>1, <2>1, <2>2, SoundFacts DEF Owned
    <2>5. Watched' /\ Spared /\ disk' = e
      BY <1>1, <2>2, <2>3, <2>4, WatchedAside
    <2>6. /\ session' \in Session /\ session'.pc = "adopt_sync" /\ session'.mode = "recovering"
          /\ session'.job = session.job /\ session'.snapshot = session.snapshot
          /\ session'.mem = disk.tmp /\ session'.draft = NoJournal
      BY <1>1, <1>3, <2>1 DEF Session, Steps
    <2>7. Knows(session', disk')
      BY <2>1, <2>2, <2>5, <2>6 DEF Knows, Holds, Real
    <2>8. ~serving
      BY <1>3 DEF ForeignInv, Undeceived
    <2> QED
      BY <1>1, <1>3, <2>1, <2>5, <2>6, <2>7, <2>8, SoundFacts, Onward
  <1>4. CASE Refuse
    BY <1>1, <1>4, ForeignRefuse
  <1>5. CASE /\ disk.journal.phase \notin {"none", "torn"}
             /\ session' = [session EXCEPT !.pc = "discard", !.mem = disk.journal]
             /\ Keep /\ Local
    <2>1. disk.journal \in Journal /\ disk.journal.phase \in Real /\ Sound(disk.journal)
      BY <1>1, <1>5, DiskFacts DEF Owned, Real, Phases
    <2>2. Watched' /\ Spared /\ disk' = disk
      BY <1>1, <1>5, WatchedStill
    <2>3. /\ session' \in Session /\ session'.pc = "discard" /\ session'.mode = "recovering"
          /\ session'.job = session.job /\ session'.snapshot = session.snapshot
          /\ session'.mem = disk.journal /\ session'.draft = NoJournal
      BY <1>1, <1>5, <2>1 DEF Session, Steps
    <2>4. Knows(session', disk')
      BY <2>1, <2>2, <2>3 DEF Knows, Holds
    <2>5. ~serving
      BY <1>5 DEF ForeignInv, Undeceived
    <2> QED
      BY <1>1, <1>5, <2>1, <2>2, <2>3, <2>4, <2>5, SoundFacts, Onward
  <1> QED
    BY <1>2, <1>3, <1>4, <1>5 DEF Load

LEMMA ForeignDecide ==
  ASSUME ForeignInv, ForeignApart, Decide
  PROVE  ForeignInv' /\ Spared
  <1>1. /\ session \in Session /\ Knows(session, disk) /\ session.pc = "decide"
        /\ session.mode \in Undoing /\ session.mem.phase \in Real /\ session.draft = NoJournal
        /\ disk.journal.phase \in Real /\ Sound(session.mem)
    BY Facing DEF ForeignInv, Informed, Knows, Holds, Decide, At
  <1>2. CASE ~Evidence(disk, session.mem)
    BY <1>1, <1>2, ForeignRefuse DEF Decide
  <1>3. CASE Evidence(disk, session.mem) /\ session.mem.phase = "committed"
    <2>1. Goto("cleanup") /\ Keep /\ Local /\ disk.live \in Known /\ "cleanup" \in Steps \ {"idle"}
      BY <1>1, <1>3 DEF Decide, Evidence, CommittedEvidence, Sound, Real, Known, Steps
    <2>2. /\ session'.pc = "cleanup" /\ session'.mode = session.mode /\ session'.draft = NoJournal
      BY <1>1, <2>1, Moved
    <2>3. Knows(session', disk)
      BY <1>1, <2>1, <2>2 DEF Knows, Undoing
    <2> QED
      BY <1>1, <2>1, <2>3, ForeignGo
  <1>4. CASE Evidence(disk, session.mem) /\ session.mem.phase = "prepared"
    <2>1. SetPhase("rolling_back") /\ Keep /\ Local
      BY <1>4 DEF Decide
    <2> QED
      BY <1>1, <2>1, ForeignSetPhase
  <1>5. CASE Evidence(disk, session.mem) /\ session.mem.phase = "rolling_back"
    <2>1. Goto("rollback") /\ Keep /\ Local /\ "rollback" \in Steps \ {"idle"}
      BY <1>5 DEF Decide, Steps
    <2>2. /\ session'.pc = "rollback" /\ session'.mode = session.mode /\ session'.draft = NoJournal
          /\ session'.mem = session.mem
      BY <1>1, <2>1, Moved
    <2>3. Knows(session', disk)
      BY <1>1, <1>5, <2>2 DEF Knows, Holds, Undoing
    <2> QED
      BY <1>1, <2>1, <2>3, ForeignGo
  <1> QED
    BY <1>1, <1>2, <1>3, <1>4, <1>5 DEF Real

-----------------------------------------------------------------------------
(* The journal is written, the transaction opened *)

\* The tail of writeRestoreJournal: the temporary changes and nothing else.
LEMMA ForeignTmp ==
  ASSUME ForeignInv, NEW pc \in Steps \ {"idle", "load"}, NEW next \in Steps \ {"idle"}, NEW t \in Journal,
         Do(pc, [disk EXCEPT !.tmp = t], next), Sound(t),
         LET e == [disk EXCEPT !.tmp = t] IN
           e.live = disk.live /\ e.staging = disk.staging /\ e.quarantine = disk.quarantine
           /\ e.journal = disk.journal /\ e.tmp = t => Knows(session', e)
  PROVE  ForeignInv' /\ Spared
  <1> DEFINE e == [disk EXCEPT !.tmp = t]
  <1>1. /\ Owned(e) /\ e.live = disk.live /\ e.staging = disk.staging /\ e.quarantine = disk.quarantine
        /\ e.journal = disk.journal /\ e.tmp = t
    BY Facing, OwnedTmp
  <1>2. Do(pc, e, next) /\ Knows(session', e)
    BY <1>1
  <1> HIDE DEF e
  <1> QED
    BY <1>1, <1>2, ForeignDo

LEMMA ForeignCreate ==
  ASSUME ForeignInv, Create \/ WriteTmp
  PROVE  ForeignInv' /\ Spared
  <1>1. session \in Session /\ Knows(session, disk) /\ Sound(session.draft) /\ session.draft \in Journal
    BY Facing, SessionFacts DEF ForeignInv, Informed
  <1>2. CASE Create
    <2>1. /\ Do("create", [disk EXCEPT !.tmp = Torn], "write") /\ session.pc = "create" /\ Goto("write")
          /\ "create" \in Steps \ {"idle", "load"} /\ "write" \in Steps \ {"idle"}
      BY <1>2 DEF Create, Do, At, Steps
    <2>2. /\ session'.pc = "write" /\ session'.mode = session.mode
          /\ session'.mem = session.mem /\ session'.draft = session.draft
      BY <1>1, <2>1, Moved
    <2>3. ASSUME NEW e, e.live = disk.live, e.quarantine = disk.quarantine
          PROVE  Knows(session', e)
      BY <1>1, <2>1, <2>2, <2>3 DEF Knows, Advancing
    <2> QED
      BY <2>1, <2>3, NoJournalFacts, SoundFacts, ForeignTmp
  <1>3. CASE WriteTmp
    <2>1. /\ Do("write", [disk EXCEPT !.tmp = session.draft], "sync_file") /\ session.pc = "write"
          /\ Goto("sync_file") /\ "write" \in Steps \ {"idle", "load"} /\ "sync_file" \in Steps \ {"idle"}
      BY <1>3 DEF WriteTmp, Do, At, Steps
    <2>2. /\ session'.pc = "sync_file" /\ session'.mode = session.mode
          /\ session'.mem = session.mem /\ session'.draft = session.draft
      BY <1>1, <2>1, Moved
    <2>3. ASSUME NEW e, e.live = disk.live, e.quarantine = disk.quarantine, e.tmp = session.draft
          PROVE  Knows(session', e)
      BY <1>1, <2>1, <2>2, <2>3 DEF Knows, Advancing
    <2> QED
      BY <1>1, <2>1, <2>3, ForeignTmp
  <1> QED
    BY <1>2, <1>3

LEMMA ForeignSyncFile ==
  ASSUME ForeignInv, SyncFile
  PROVE  ForeignInv' /\ Spared
  <1> DEFINE t == Draft(session)
             W(d) == IF d.tmp = NoJournal THEN d ELSE [d EXCEPT !.tmp = t]
  <1>1. /\ session \in Session /\ Knows(session, disk) /\ session.pc = "sync_file"
        /\ session.draft \in Journal /\ Sound(session.draft) /\ Watched /\ disk \in Disk
        /\ disk.tmp = session.draft
    BY Facing, SessionFacts DEF ForeignInv, Informed, SyncFile, At, Knows
  <1>2. /\ disk' = W(disk) /\ window' = {W(d) : d \in window}
        /\ Goto("sync_name") /\ Local /\ "sync_name" \in Steps \ {"idle"}
    BY DEF SyncFile, Draft, Steps
  <1>3. /\ t \in Journal /\ t.phase = session.draft.phase
        /\ t.old = session.draft.old /\ t.new = session.draft.new
    BY <1>1 DEF Draft, Journal
  <1>4. Sound(t)
    BY <1>1, <1>3 DEF Sound
  <1>5. session.draft.phase # "none"
    BY <1>1 DEF Knows, Advancing
  <1> HIDE DEF t
  <1>6. \A d \in window : Owned(W(d)) /\ W(d).live = d.live
    BY <1>1, <1>3, <1>4, OwnedTmp DEF Watched
  <1>7. disk' = [disk EXCEPT !.tmp = t]
    BY <1>1, <1>2, <1>5, NoJournalFacts
  <1>8. disk'.live = disk.live /\ disk'.quarantine = disk.quarantine /\ disk'.tmp = t
    BY <1>1, <1>7 DEF Disk
  <1> HIDE DEF W
  <1>9. Watched' /\ Spared
    <2>1. disk' \in window'
      BY <1>1, <1>2 DEF Watched
    <2>2. ASSUME NEW x \in window'
          PROVE  Owned(x) /\ \A n \in Names : disk'.live[n] \in Foreign => x.live[n] = disk'.live[n]
      <3>1. PICK d \in window : x = W(d)
        BY <1>2
      <3> QED
        BY <1>1, <1>6, <1>8, <3>1 DEF Watched
    <2> QED
      BY <1>8, <2>1, <2>2 DEF Watched, Spared
  <1>10. /\ session'.pc = "sync_name" /\ session'.mode = session.mode
         /\ session'.mem = session.mem /\ session'.draft = session.draft
    BY <1>1, <1>2, Moved
  <1>11. disk'.tmp = Draft(session')
    BY <1>8, <1>10 DEF t, Draft
  <1>12. Knows(session', disk')
    BY <1>1, <1>8, <1>10, <1>11 DEF Knows, Advancing
  <1> QED
    BY <1>1, <1>2, <1>9, <1>12, OnwardTo

LEMMA ForeignRename ==
  ASSUME ForeignInv, Rename
  PROVE  ForeignInv' /\ Spared
  <1> DEFINE e == [disk EXCEPT !.journal = disk.tmp, !.tmp = NoJournal]
  <1>1. /\ session \in Session /\ Knows(session, disk) /\ session.pc = "rename" /\ disk \in Disk
        /\ Owned(disk) /\ Watched /\ ~serving
        /\ session.draft \in Journal /\ Sound(session.draft) /\ disk.tmp = Draft(session)
        /\ (session.mode = "publishing" => session.job = "restore")
    BY Facing, SessionFacts DEF ForeignInv, Informed, Rename, At, Knows
  <1>2. /\ disk.tmp \in Journal /\ disk.tmp.phase = session.draft.phase
        /\ disk.tmp.old = session.draft.old /\ disk.tmp.new = session.draft.new
    BY <1>1 DEF Draft, Journal
  <1>3. session.draft.phase \in Real
    BY <1>1 DEF Knows, Advancing, Real
  <1>4. /\ e \in Disk /\ e.live = disk.live /\ e.staging = disk.staging
        /\ e.quarantine = disk.quarantine /\ e.tmp = NoJournal /\ e.journal = disk.tmp
    BY <1>1, <1>2, NoJournalFacts DEF Disk
  <1>5. /\ Change(e) /\ Local
        /\ session' = [session EXCEPT !.pc = "sync_rename", !.mem = disk.tmp, !.draft = NoJournal]
    BY DEF Rename
  <1> HIDE DEF e
  <1>6. Sound(disk.tmp) /\ disk.tmp.phase # "none"
    BY <1>1, <1>2, <1>3 DEF Owned, Real
  <1>7. Owned(e)
    BY <1>1, <1>4, <1>6, SoundFacts DEF Owned
  <1>8. Watched' /\ Spared /\ disk' = e
    BY <1>1, <1>4, <1>5, <1>7, WatchedAside
  <1>9. /\ session' \in Session /\ session'.pc = "sync_rename" /\ session'.mode = session.mode
        /\ session'.job = session.job /\ session'.snapshot = session.snapshot
        /\ session'.mem = disk.tmp /\ session'.draft = NoJournal
    BY <1>1, <1>2, <1>5, NoJournalFacts DEF Session, Steps
  <1>10. Knows(session', disk')
    BY <1>1, <1>2, <1>3, <1>4, <1>8, <1>9 DEF Knows, Holds, Advancing, Real, Undoing
  <1> QED
    BY <1>1, <1>5, <1>6, <1>8, <1>9, <1>10, SoundFacts, Onward

LEMMA ForeignSyncRename ==
  ASSUME ForeignInv, SyncRename
  PROVE  ForeignInv' /\ Spared
  <1>1. /\ session \in Session /\ Knows(session, disk) /\ session.pc = "sync_rename"
        /\ Sound(session.mem)
    BY Facing DEF ForeignInv, Informed, SyncRename, At
  <1>2. FsyncDir /\ Local
    BY DEF SyncRename
  <1>3. Watched' /\ Spared /\ disk' = disk
    BY <1>2, WatchedStill DEF ForeignInv
  <1>4. ASSUME NEW next \in {"quarantine", "cleanup", "decide", "rollback"}, Goto(next)
        PROVE  /\ next \in Steps \ {"idle"}
               /\ session'.pc = next /\ session'.mode = session.mode
               /\ session'.mem = session.mem /\ session'.draft = session.draft
    <2>1. next \in Steps \ {"idle"}
      BY <1>4 DEF Steps
    <2> QED
      BY <1>1, <1>4, <2>1, Moved
  <1>5. CASE Holds(session, disk, {"publishing"}, {"prepared"}) /\ disk.quarantine.exists
    <2>1. Goto("quarantine")
      BY <1>5 DEF SyncRename, Holds
    <2>2. Knows(session', disk)
      BY <1>1, <1>4, <1>5, <2>1 DEF Knows, Holds
    <2> QED
      BY <1>1, <1>2, <1>3, <1>4, <2>1, <2>2, OnwardTo
  <1>6. CASE Holds(session, disk, {"publishing"}, {"committed"}) /\ disk.live = session.mem.new
    <2>1. Goto("cleanup")
      BY <1>6 DEF SyncRename, Holds
    <2>2. disk.live \in Known
      BY <1>1, <1>6 DEF Holds, Sound, Real, Known
    <2>3. Knows(session', disk)
      BY <1>1, <1>4, <1>6, <2>1, <2>2 DEF Knows, Holds
    <2> QED
      BY <1>1, <1>2, <1>3, <1>4, <2>1, <2>3, OnwardTo
  <1>7. CASE Holds(session, disk, Undoing, {"rolling_back"})
    <2>1. PICK next \in {"decide", "rollback"} : Goto(next)
      BY <1>7 DEF SyncRename, Holds
    <2>2. Knows(session', disk)
      BY <1>1, <1>4, <1>7, <2>1 DEF Knows, Holds, Undoing, Real
    <2> QED
      BY <1>1, <1>2, <1>3, <1>4, <2>1, <2>2, OnwardTo
  <1> QED
    BY <1>1, <1>5, <1>6, <1>7 DEF Knows

\* Another staging or quarantine directory.
LEMMA OwnedParts ==
  ASSUME NEW d, Owned(d), NEW x \in Directory
  PROVE  /\ LET e == [d EXCEPT !.staging = x] IN
              /\ Ours(x.files) => Owned(e)
              /\ e.live = d.live /\ e.staging = x /\ e.quarantine = d.quarantine
              /\ e.tmp = d.tmp /\ e.journal = d.journal
         /\ LET e == [d EXCEPT !.quarantine = x] IN
              /\ Owned(e) /\ e.live = d.live /\ e.staging = d.staging /\ e.quarantine = x
              /\ e.tmp = d.tmp /\ e.journal = d.journal
  <1>1. d \in Disk
    BY DEF Owned
  <1>2. LET e == [d EXCEPT !.staging = x] IN
          /\ e \in Disk /\ e.live = d.live /\ e.staging = x
          /\ e.quarantine = d.quarantine /\ e.tmp = d.tmp /\ e.journal = d.journal
    BY <1>1, DiskUpdates
  <1>3. LET e == [d EXCEPT !.quarantine = x] IN
          /\ e \in Disk /\ e.live = d.live /\ e.staging = d.staging
          /\ e.quarantine = x /\ e.tmp = d.tmp /\ e.journal = d.journal
    BY <1>1, DiskUpdates
  <1> QED
    BY <1>2, <1>3 DEF Owned

LEMMA ForeignMkdir ==
  ASSUME ForeignInv, MkdirStaging \/ MkdirQuarantine
  PROVE  ForeignInv' /\ Spared
  <1> DEFINE made == [NoDirectory EXCEPT !.exists = TRUE]
  <1>1. made \in Directory /\ made.exists /\ made.files = Empty
    BY EmptyFacts DEF NoDirectory, Directory
  <1> HIDE DEF made
  <1>2. session \in Session /\ Knows(session, disk) /\ Owned(disk) /\ Ours(made.files)
    BY <1>1, Facing, OursFacts
  <1>3. CASE MkdirStaging
    <2> DEFINE e == [disk EXCEPT !.staging = made]
    <2>1. /\ Do("mkdir_staging", e, "mkdir_quarantine") /\ session.pc = "mkdir_staging"
          /\ Goto("mkdir_quarantine")
          /\ "mkdir_staging" \in Steps \ {"idle", "load"} /\ "mkdir_quarantine" \in Steps \ {"idle"}
      BY <1>3 DEF MkdirStaging, Do, At, Steps, made
    <2>2. /\ Owned(e) /\ e.live = disk.live /\ e.staging = made /\ e.journal = disk.journal
      BY <1>1, <1>2, OwnedParts
    <2> HIDE DEF e
    <2>3. /\ session'.pc = "mkdir_quarantine" /\ session'.mode = session.mode
          /\ session'.mem = session.mem /\ session'.draft = session.draft
      BY <1>2, <2>1, Moved
    <2>4. Knows(session', e)
      BY <1>1, <1>2, <2>1, <2>2, <2>3 DEF Knows, Opening
    <2> QED
      BY <2>1, <2>2, <2>4, ForeignDo
  <1>4. CASE MkdirQuarantine
    <2> DEFINE e == [disk EXCEPT !.quarantine = made]
    <2>1. /\ Do("mkdir_quarantine", e, "mkdir_sync") /\ session.pc = "mkdir_quarantine"
          /\ Goto("mkdir_sync")
          /\ "mkdir_quarantine" \in Steps \ {"idle", "load"} /\ "mkdir_sync" \in Steps \ {"idle"}
      BY <1>4 DEF MkdirQuarantine, Do, At, Steps, made
    <2>2. /\ Owned(e) /\ e.live = disk.live /\ e.staging = disk.staging /\ e.quarantine = made
          /\ e.journal = disk.journal
      BY <1>1, <1>2, OwnedParts
    <2> HIDE DEF e
    <2>3. /\ session'.pc = "mkdir_sync" /\ session'.mode = session.mode
          /\ session'.mem = session.mem /\ session'.draft = session.draft
      BY <1>2, <2>1, Moved
    <2>4. Knows(session', e)
      BY <1>1, <1>2, <2>1, <2>2, <2>3 DEF Knows, Opening
    <2> QED
      BY <2>1, <2>2, <2>4, ForeignDo
  <1> QED
    BY <1>3, <1>4

LEMMA ForeignStage ==
  ASSUME ForeignInv, ForeignApart, Stage
  PROVE  ForeignInv' /\ Spared
  <1>1. /\ session.pc = "stage" /\ session \in Session /\ disk \in Disk /\ Owned(disk)
        /\ Knows(session, disk) /\ Opening(session, disk)
        /\ disk.staging.exists /\ disk.quarantine.exists /\ session.snapshot \in Snapshots
    BY Facing DEF Stage, Do, Fsync, At, Knows, Opening, ForeignInv, Informed
  <1>2. disk.staging \in Directory /\ disk.staging.files \in Files
        /\ session.snapshot \in Files /\ Ours(session.snapshot)
    BY <1>1, DiskFacts, KnownFacts DEF Known
  <1>3. ASSUME NEW n \in Present(session.snapshot) \ Present(disk.staging.files),
               Do("stage", [disk EXCEPT !.staging.files = Put(@, n, session.snapshot[n])], "stage")
        PROVE  ForeignInv' /\ Spared
    <2> DEFINE f == Put(disk.staging.files, n, session.snapshot[n])
               x == [disk.staging EXCEPT !.files = f]
               e == [disk EXCEPT !.staging = x]
    <2>1. Do("stage", e, "stage") /\ Goto("stage") /\ "stage" \in Steps \ {"idle", "load"}
      BY <1>3 DEF Do, Steps
    <2>2. f \in Files /\ Ours(f)
      <3>1. n \in Names
        BY DEF Present
      <3>2. session.snapshot[n] \in (Contents \cup {Absent}) \ Foreign
        BY <1>2, <3>1 DEF Files, Ours
      <3>3. Ours(disk.staging.files)
        BY <1>1 DEF Owned
      <3>4. f \in Files
        BY <1>2, <3>1, <3>2, FilesFacts
      <3> QED
        BY <1>2, <3>1, <3>2, <3>3, <3>4, OursFacts
    <2> HIDE DEF f
    <2>3. x \in Directory /\ x.exists /\ x.files = f
      BY <1>1, <1>2, <2>2, FileMoved
    <2> HIDE DEF x
    <2>4. /\ Owned(e) /\ e.live = disk.live /\ e.staging = x /\ e.quarantine = disk.quarantine
          /\ e.journal = disk.journal
      BY <1>1, <2>2, <2>3, OwnedParts
    <2> HIDE DEF e
    <2>5. /\ session'.pc = "stage" /\ session'.mode = session.mode
          /\ session'.mem = session.mem /\ session'.draft = session.draft
      BY <1>1, <2>1, Moved
    <2>6. Knows(session', e)
      BY <1>1, <2>3, <2>4, <2>5 DEF Knows, Opening
    <2> QED
      BY <2>1, <2>4, <2>6, ForeignDo
  <1>4. CASE Fsync("stage", "prepare")
    <2>1. Goto("prepare") /\ "stage" \in Steps \ {"idle", "load"} /\ "prepare" \in Steps \ {"idle"}
      BY <1>4 DEF Fsync, Steps
    <2>2. /\ session'.pc = "prepare" /\ session'.mode = session.mode
          /\ session'.mem = session.mem /\ session'.draft = session.draft
      BY <1>1, <2>1, Moved
    <2>3. Knows(session', disk)
      BY <1>1, <2>2 DEF Knows, Opening
    <2> QED
      BY <1>4, <2>1, <2>3, ForeignFsync
  <1> QED
    BY <1>3, <1>4 DEF Stage

LEMMA ForeignPrepare ==
  ASSUME ForeignInv, Prepare
  PROVE  ForeignInv' /\ Spared
  <1> DEFINE j == [phase |-> "prepared", old |-> disk.live, new |-> session.snapshot, synced |-> FALSE]
  <1>1. /\ session.pc = "prepare" /\ Keep /\ Local
        /\ session' = [session EXCEPT !.pc = "create", !.draft = j]
    BY DEF Prepare, At
  <1>2. /\ session \in Session /\ disk \in Disk /\ Owned(disk) /\ Knows(session, disk) /\ ~serving
        /\ Opening(session, disk) /\ disk.quarantine.exists /\ session.snapshot \in Snapshots
        /\ session.job = "restore" /\ Sound(session.mem)
    BY <1>1, Facing DEF Knows, Opening, ForeignInv, Informed
  <1>3. Watched' /\ Spared /\ disk' = disk
    BY <1>1, WatchedStill DEF ForeignInv
  <1>4. j \in Journal /\ j.phase = "prepared" /\ j.old = disk.live /\ j.new = session.snapshot
    BY <1>2, DiskFacts, SessionFacts DEF Journal, Phases
  <1>5. Sound(j)
    BY <1>2, <1>4 DEF Sound, Owned, Opening
  <1> HIDE DEF j
  <1>6. /\ session' \in Session /\ session'.pc = "create" /\ session'.mode = session.mode
        /\ session'.job = session.job /\ session'.snapshot = session.snapshot
        /\ session'.mem = session.mem /\ session'.draft = j
    BY <1>1, <1>2, <1>4 DEF Session, Steps
  <1>7. Knows(session', disk')
    BY <1>1, <1>2, <1>3, <1>4, <1>6 DEF Knows, Opening
  <1> QED
    BY <1>1, <1>2, <1>3, <1>5, <1>6, <1>7, Onward

-----------------------------------------------------------------------------
(* State files move *)

\* Other state files under a journal, with another staging or quarantine directory.
LEMMA OwnedMoves ==
  ASSUME NEW d, Owned(d), d.journal.phase \in Real,
         NEW e \in Disk, e.journal = d.journal, e.tmp = d.tmp,
         Ours(e.staging.files)
  PROVE  Owned(e)
  BY DEF Owned, Real

\* A file goes from live to quarantine, or is removed.
LEMMA OwnedAside ==
  ASSUME NEW d, Owned(d), d.journal.phase \in Real, NEW n \in Present(d.live)
  PROVE  /\ d.quarantine.exists =>
              LET e == [d EXCEPT !.quarantine.files = Put(@, n, d.live[n]), !.live = Drop(@, n)] IN
              /\ Owned(e) /\ e.quarantine.exists /\ e.journal = d.journal
              /\ Ours(d.live) => Ours(e.live)
              /\ e.live[n] = Absent /\ \A m \in Names \ {n} : e.live[m] = d.live[m]
         /\ LET e == [d EXCEPT !.live = Drop(@, n)] IN
              /\ Owned(e) /\ e.quarantine = d.quarantine /\ e.journal = d.journal
              /\ e.live[n] = Absent /\ \A m \in Names \ {n} : e.live[m] = d.live[m]
  <1> DEFINE held == Put(d.quarantine.files, n, d.live[n])
             live == Drop(d.live, n)
             x == [d.quarantine EXCEPT !.files = held]
  <1>1. d \in Disk
    BY DEF Owned
  <1>2. d.live \in Files /\ d.quarantine \in Directory /\ d.quarantine.files \in Files /\ n \in Names
    BY <1>1, DiskFacts DEF Present
  <1>3. /\ held \in Files /\ live \in Files /\ live[n] = Absent
        /\ \A m \in Names \ {n} : live[m] = d.live[m]
    BY <1>2 DEF Files, Put, Drop
  <1>6. Ours(d.live) => Ours(live)
    BY <1>2, OursFacts
  <1> HIDE DEF held, live
  <1>8. ASSUME d.quarantine.exists
        PROVE  LET e == [d EXCEPT !.quarantine = x, !.live = live] IN
               /\ Owned(e) /\ e.quarantine.exists /\ e.journal = d.journal /\ e.live = live
    <2>1. x \in Directory /\ x.exists /\ x.files = held
      BY <1>2, <1>3, <1>8, FileMoved
    <2> HIDE DEF x
    <2> DEFINE e == [d EXCEPT !.quarantine = x, !.live = live]
    <2>2. /\ e \in Disk /\ e.live = live /\ e.staging = d.staging /\ e.quarantine = x
          /\ e.tmp = d.tmp /\ e.journal = d.journal
      BY <1>1, <1>3, <2>1 DEF Disk
    <2> HIDE DEF e
    <2>3. Ours(e.staging.files)
      BY <2>2 DEF Owned
    <2>4. Owned(e) /\ e.quarantine.exists /\ e.journal = d.journal /\ e.live = live
      BY <2>1, <2>2, <2>3, OwnedMoves
    <2> QED
      BY <2>4 DEF e
  <1>9. LET e == [d EXCEPT !.live = live] IN
        /\ Owned(e) /\ e.quarantine = d.quarantine /\ e.journal = d.journal /\ e.live = live
    <2> DEFINE e == [d EXCEPT !.live = live]
    <2>1. /\ e \in Disk /\ e.live = live /\ e.staging = d.staging /\ e.quarantine = d.quarantine
          /\ e.tmp = d.tmp /\ e.journal = d.journal
      BY <1>1, <1>3 DEF Disk
    <2> HIDE DEF e
    <2>2. Owned(e) /\ e.quarantine = d.quarantine /\ e.journal = d.journal /\ e.live = live
      BY <1>1, <2>1, OwnedMoves DEF Owned
    <2> QED
      BY <2>2 DEF e
  <1> QED
    BY <1>3, <1>6, <1>8, <1>9 DEF held, live

\* A file that is no stranger's becomes live from staging or from quarantine.
LEMMA OwnedPut ==
  ASSUME NEW d, Owned(d), d.journal.phase \in Real, NEW n \in Names
  PROVE  /\ n \in Present(d.staging.files) /\ Ours(d.live) =>
              LET e == [d EXCEPT !.live = Put(@, n, d.staging.files[n]), !.staging.files = Drop(@, n)] IN
              /\ Owned(e) /\ e.journal = d.journal /\ e.quarantine = d.quarantine /\ Ours(e.live)
         /\ n \in Present(d.quarantine.files) =>
              LET e == [d EXCEPT !.live = Put(@, n, d.quarantine.files[n]), !.quarantine.files = Drop(@, n)] IN
              /\ Owned(e) /\ e.journal = d.journal /\ e.live[n] = d.quarantine.files[n]
              /\ \A m \in Names \ {n} : e.live[m] = d.live[m]
  <1>1. /\ d \in Disk /\ d.live \in Files /\ d.staging \in Directory /\ d.quarantine \in Directory
        /\ Ours(d.staging.files)
    BY DiskFacts DEF Owned
  <1>2. ASSUME NEW y \in Directory, n \in Present(y.files)
        PROVE  LET f == Put(d.live, n, y.files[n])
                   x == [y EXCEPT !.files = Drop(y.files, n)]
               IN  /\ f \in Files /\ f[n] = y.files[n] /\ \A m \in Names \ {n} : f[m] = d.live[m]
                   /\ x \in Directory
                   /\ Ours(y.files) => Ours(x.files) /\ (Ours(d.live) => Ours(f))
    <2> DEFINE f == Put(d.live, n, y.files[n])
               g == Drop(y.files, n)
               x == [y EXCEPT !.files = g]
    <2>1. y.files \in Files /\ y.exists
      BY <1>2, DirectoryFacts, EmptyFacts DEF Present
    <2>2. Ours(y.files) => y.files[n] \in (Contents \cup {Absent}) \ Foreign
      BY <2>1 DEF Files, Ours
    <2>3. f \in Files /\ g \in Files /\ f[n] = y.files[n] /\ \A m \in Names \ {n} : f[m] = d.live[m]
      <3>1. d.live \in Files /\ y.files \in Files /\ n \in Names
        BY <1>1, <2>1
      <3> QED
        BY <3>1 DEF Files, Put, Drop
    <2>4. Ours(y.files) /\ Ours(d.live) => Ours(f)
      BY <1>1, <2>2, OursFacts
    <2>5. Ours(y.files) => Ours(g)
      BY <2>1, OursFacts
    <2> HIDE DEF f, g
    <2>6. x \in Directory /\ x.files = g
      BY <2>1, <2>3, FileMoved
    <2> QED
      BY <2>3, <2>4, <2>5, <2>6 DEF f, g
  <1>3. ASSUME n \in Present(d.staging.files), Ours(d.live)
        PROVE  LET e == [d EXCEPT !.live = Put(@, n, d.staging.files[n]), !.staging.files = Drop(@, n)] IN
               /\ Owned(e) /\ e.journal = d.journal /\ e.quarantine = d.quarantine /\ Ours(e.live)
    <2> DEFINE f == Put(d.live, n, d.staging.files[n])
               x == [d.staging EXCEPT !.files = Drop(d.staging.files, n)]
    <2>1. f \in Files /\ Ours(f) /\ x \in Directory /\ Ours(x.files)
      BY <1>1, <1>2, <1>3
    <2> HIDE DEF f, x
    <2> DEFINE e == [d EXCEPT !.live = f, !.staging = x]
    <2>2. /\ e \in Disk /\ e.live = f /\ e.staging = x /\ e.quarantine = d.quarantine
          /\ e.tmp = d.tmp /\ e.journal = d.journal
      BY <1>1, <2>1 DEF Disk
    <2> HIDE DEF e
    <2>3. Owned(e) /\ e.journal = d.journal /\ e.quarantine = d.quarantine /\ Ours(e.live)
      BY <2>1, <2>2, OwnedMoves
    <2> QED
      BY <2>3 DEF e, f, x
  <1>4. ASSUME n \in Present(d.quarantine.files)
        PROVE  LET e == [d EXCEPT !.live = Put(@, n, d.quarantine.files[n]), !.quarantine.files = Drop(@, n)] IN
               /\ Owned(e) /\ e.journal = d.journal /\ e.live[n] = d.quarantine.files[n]
               /\ \A m \in Names \ {n} : e.live[m] = d.live[m]
    <2> DEFINE f == Put(d.live, n, d.quarantine.files[n])
               x == [d.quarantine EXCEPT !.files = Drop(d.quarantine.files, n)]
    <2>1. /\ f \in Files /\ f[n] = d.quarantine.files[n] /\ \A m \in Names \ {n} : f[m] = d.live[m]
          /\ x \in Directory
      BY <1>1, <1>2, <1>4
    <2> HIDE DEF f, x
    <2> DEFINE e == [d EXCEPT !.live = f, !.quarantine = x]
    <2>2. /\ e \in Disk /\ e.live = f /\ e.quarantine = x /\ e.staging = d.staging
          /\ e.tmp = d.tmp /\ e.journal = d.journal
      BY <1>1, <2>1 DEF Disk
    <2> HIDE DEF e
    <2>3. /\ Owned(e) /\ e.journal = d.journal /\ e.live[n] = d.quarantine.files[n]
          /\ \A m \in Names \ {n} : e.live[m] = d.live[m]
      BY <1>1, <2>1, <2>2, OwnedMoves
    <2> QED
      BY <2>3 DEF e, f, x
  <1> QED
    BY <1>3, <1>4

LEMMA ForeignQuarantine ==
  ASSUME ForeignInv, Quarantine
  PROVE  ForeignInv' /\ Spared
  <1>1. /\ session.pc = "quarantine" /\ session \in Session /\ Owned(disk) /\ Knows(session, disk)
        /\ Holds(session, disk, {"publishing"}, {"prepared"}) /\ Ours(disk.live)
        /\ disk.quarantine.exists /\ disk.journal.phase \in Real
    BY Facing DEF Quarantine, Do, At, Knows, Holds
  <1>2. ASSUME NEW n \in Present(disk.live),
               Do("quarantine", [disk EXCEPT !.quarantine.files = Put(@, n, disk.live[n]),
                                             !.live = Drop(@, n)], "quarantine_sync")
        PROVE  ForeignInv' /\ Spared
    <2> DEFINE e == [disk EXCEPT !.quarantine.files = Put(@, n, disk.live[n]), !.live = Drop(@, n)]
    <2>2. /\ Owned(e) /\ e.quarantine.exists /\ e.journal = disk.journal /\ Ours(e.live)
          /\ \A m \in Names : disk.live[m] \notin Foreign /\ e.live[m] \notin Foreign
      BY <1>1, OwnedAside DEF Ours
    <2>3. Do("quarantine", e, "quarantine_sync") /\ Goto("quarantine_sync")
      BY <1>2 DEF Do
    <2> HIDE DEF e
    <2>4. "quarantine" \in Steps \ {"idle", "load"} /\ "quarantine_sync" \in Steps \ {"idle"}
      BY DEF Steps
    <2>5. /\ session'.pc = "quarantine_sync" /\ session'.mode = session.mode
          /\ session'.mem = session.mem /\ session'.draft = session.draft
      BY <1>1, <2>3, <2>4, Moved
    <2>6. Knows(session', e)
      BY <1>1, <2>2, <2>5 DEF Knows, Holds
    <2> QED
      BY <2>2, <2>3, <2>4, <2>6, ForeignDo
  <1>3. CASE Goto("publish") /\ Keep /\ Local
    <2>1. "publish" \in Steps \ {"idle"}
      BY DEF Steps
    <2>2. /\ session'.pc = "publish" /\ session'.mode = session.mode
          /\ session'.mem = session.mem /\ session'.draft = session.draft
      BY <1>1, <1>3, <2>1, Moved
    <2>3. Knows(session', disk)
      BY <1>1, <2>2 DEF Knows, Holds
    <2> QED
      BY <1>1, <1>3, <2>1, <2>3, ForeignGo
  <1> QED
    BY <1>2, <1>3 DEF Quarantine

LEMMA ForeignPublish ==
  ASSUME ForeignInv, Publish
  PROVE  ForeignInv' /\ Spared
  <1>1. /\ session.pc = "publish" /\ session \in Session /\ Owned(disk) /\ Knows(session, disk)
        /\ Holds(session, disk, {"publishing"}, {"prepared"}) /\ Ours(disk.live)
        /\ disk.journal.phase \in Real
    BY Facing DEF Publish, Do, At, Knows, Holds
  <1>2. ASSUME NEW n \in Present(disk.staging.files),
               Do("publish", [disk EXCEPT !.live = Put(@, n, disk.staging.files[n]),
                                          !.staging.files = Drop(@, n)], "publish_sync")
        PROVE  ForeignInv' /\ Spared
    <2> DEFINE e == [disk EXCEPT !.live = Put(@, n, disk.staging.files[n]), !.staging.files = Drop(@, n)]
    <2>1. n \in Names
      BY DEF Present
    <2>2. Owned(e) /\ e.journal = disk.journal /\ Ours(e.live)
      BY <1>1, <2>1, OwnedPut
    <2>3. Do("publish", e, "publish_sync") /\ Goto("publish_sync")
      BY <1>2 DEF Do
    <2> HIDE DEF e
    <2>4. "publish" \in Steps \ {"idle", "load"} /\ "publish_sync" \in Steps \ {"idle"}
      BY DEF Steps
    <2>5. /\ session'.pc = "publish_sync" /\ session'.mode = session.mode
          /\ session'.mem = session.mem /\ session'.draft = session.draft
      BY <1>1, <2>3, <2>4, Moved
    <2>6. Knows(session', e)
      BY <1>1, <2>2, <2>5 DEF Knows, Holds
    <2>7. \A m \in Names : disk.live[m] \notin Foreign /\ e.live[m] \notin Foreign
      BY <1>1, <2>2 DEF Ours
    <2> QED
      BY <2>2, <2>3, <2>4, <2>6, <2>7, ForeignDo
  <1>3. CASE disk.live = session.mem.new /\ SetPhase("committed") /\ Keep /\ Local
    <2>1. session.mem.phase \in Real /\ session.mode = "publishing"
      BY <1>1 DEF Holds, Real
    <2> QED
      BY <1>1, <1>3, <2>1, ForeignSetPhase
  <1>4. CASE Refuse
    BY <1>1, <1>4, ForeignRefuse DEF Holds
  <1> QED
    BY <1>2, <1>3, <1>4 DEF Publish

LEMMA ForeignRollback ==
  ASSUME ForeignInv, Rollback
  PROVE  ForeignInv' /\ Spared
  <1> DEFINE x == [disk.quarantine EXCEPT !.exists = TRUE]
             e == [disk EXCEPT !.quarantine = x]
  <1>1. /\ session \in Session /\ disk \in Disk /\ Owned(disk) /\ Knows(session, disk)
        /\ session.pc = "rollback" /\ Do("rollback", e, "rollback_sync") /\ Goto("rollback_sync")
    BY Facing DEF Rollback, Do, At
  <1>2. x \in Directory /\ x.exists /\ x.files = disk.quarantine.files
    BY <1>1, DiskFacts DEF Directory
  <1> HIDE DEF x
  <1>4. Owned(e) /\ e.live = disk.live /\ e.quarantine = x /\ e.journal = disk.journal
    BY <1>1, <1>2, OwnedParts
  <1> HIDE DEF e
  <1>5. "rollback" \in Steps \ {"idle", "load"} /\ "rollback_sync" \in Steps \ {"idle"}
    BY DEF Steps
  <1>6. /\ session'.pc = "rollback_sync" /\ session'.mode = session.mode
        /\ session'.mem = session.mem /\ session'.draft = session.draft
    BY <1>1, <1>5, Moved
  <1>7. Knows(session', e)
    BY <1>1, <1>2, <1>4, <1>6 DEF Knows, Holds, Undoing
  <1> QED
    BY <1>1, <1>4, <1>5, <1>7, ForeignDo

LEMMA ForeignRollbackSync ==
  ASSUME ForeignInv, RollbackSync
  PROVE  ForeignInv' /\ Spared
  <1>1. /\ session.pc = "rollback_sync" /\ session \in Session /\ Knows(session, disk)
        /\ Holds(session, disk, Undoing, {"rolling_back"}) /\ disk.quarantine.exists
        /\ FsyncDir /\ Local
        /\ Loop("requarantine", Present(disk.live), Present(session.mem.old), {})
    BY Facing DEF RollbackSync, At, Knows
  <1>2. Watched' /\ Spared /\ disk' = disk
    BY <1>1, WatchedStill DEF ForeignInv
  <1>3. /\ "requarantine" \in Steps
        /\ Present(disk.live) \subseteq Names /\ Present(session.mem.old) \subseteq Names
    BY DEF Steps, Present
  <1>4. /\ session' \in Session /\ session'.pc = "requarantine" /\ session'.mode = session.mode
        /\ session'.job = session.job /\ session'.snapshot = session.snapshot
        /\ session'.mem = session.mem /\ session'.draft = session.draft
    BY <1>1, <1>3, Looped
  <1>5. Knows(session', disk')
    BY <1>1, <1>2, <1>4 DEF Knows, Holds, Undoing
  <1> QED
    BY <1>1, <1>2, <1>4, <1>5, OnwardIn

\* What a rollback knows wherever it is in its loops.
LEMMA Looping ==
  ASSUME ForeignInv, ForeignApart,
         session.pc \in {"requarantine", "requarantine_move", "unpublish", "unpublish_remove", "reinstate"}
  PROVE  /\ session \in Session /\ disk \in Disk /\ Owned(disk) /\ Knows(session, disk)
         /\ Holds(session, disk, Undoing, {"rolling_back"}) /\ Sound(session.mem)
         /\ disk.journal.phase \in Real /\ session.mode # "publishing"
         /\ session.mem.old \in Known /\ session.mem.new \in Known
         /\ Ours(session.mem.old) /\ Ours(session.mem.new)
         /\ session.todo \subseteq Names /\ session.checked \subseteq Names /\ session.late \subseteq Names
         /\ Present(disk.live) \subseteq Names /\ Present(session.mem.old) \subseteq Names
  <1>1. /\ session \in Session /\ disk \in Disk /\ Owned(disk) /\ Knows(session, disk)
        /\ Holds(session, disk, Undoing, {"rolling_back"}) /\ Sound(session.mem)
    BY Facing DEF Knows, ForeignInv, Informed
  <1>2. /\ disk.journal.phase \in Real /\ session.mode # "publishing"
        /\ session.mem.old \in Known /\ session.mem.new \in Known
    BY <1>1 DEF Holds, Undoing, Sound, Real, Known
  <1>3. Ours(session.mem.old) /\ Ours(session.mem.new)
    BY <1>2, KnownFacts
  <1>4. session.todo \subseteq Names /\ session.checked \subseteq Names /\ session.late \subseteq Names
    BY <1>1 DEF Session
  <1> QED
    BY <1>1, <1>2, <1>3, <1>4 DEF Present

LEMMA ForeignRequarantine ==
  ASSUME ForeignInv, ForeignApart, Requarantine
  PROVE  ForeignInv' /\ Spared
  <1>1. session.pc = "requarantine"
    BY DEF Requarantine, At
  <1>2. /\ session \in Session /\ Holds(session, disk, Undoing, {"rolling_back"})
        /\ Ours(session.mem.old) /\ session.mode # "publishing" /\ disk.quarantine.exists
        /\ session.todo \subseteq Names /\ Present(disk.live) \subseteq Names
    BY <1>1, Looping DEF Knows
  <1>3. ASSUME NEW n \in Names, NEW next \in {"requarantine", "requarantine_move"}, NEW c \in SUBSET Names,
               Look(n, next, c), c \cap Strange(disk) = {}
        PROVE  ForeignInv' /\ Spared
    <2>1. next \in Steps \ {"idle"}
      BY DEF Steps
    <2>2. /\ session' \in Session /\ session'.pc = next /\ session'.mode = session.mode
          /\ session'.job = session.job /\ session'.snapshot = session.snapshot
          /\ session'.mem = session.mem /\ session'.draft = session.draft
          /\ session'.checked = c /\ Keep /\ Local
      BY <1>2, <1>3, <2>1, Looked
    <2>3. Watched' /\ Spared /\ disk' = disk
      BY <2>2, WatchedStill DEF ForeignInv
    <2>4. Knows(session', disk')
      BY <1>2, <1>3, <2>2, <2>3 DEF Knows, Holds, Undoing
    <2> QED
      BY <1>1, <2>1, <2>2, <2>3, <2>4, OnwardIn
  <1>4. CASE \E n \in session.todo : Look(n, "requarantine", {})
    BY <1>2, <1>3, <1>4
  <1>5. CASE \E n \in session.todo :
               Matches(disk.live, n, session.mem.old) /\ Look(n, "requarantine_move", {n})
    <2>1. PICK n \in Names :
            Matches(disk.live, n, session.mem.old) /\ Look(n, "requarantine_move", {n})
      BY <1>2, <1>5
    <2>2. n \notin Strange(disk)
      BY <1>2, <2>1 DEF Matches, Ours, Strange
    <2> QED
      BY <1>3, <2>1, <2>2
  <1>6. CASE Refuse
    BY <1>1, <1>2, <1>6, ForeignRefuse
  <1>7. CASE Keep /\ Local /\ Loop("unpublish", {}, Present(disk.live), {})
    <2>1. "unpublish" \in Steps /\ Present(disk.live) \in SUBSET Names /\ {} \in SUBSET Names
      BY DEF Steps, Present
    <2>2. /\ session' \in Session /\ session'.pc = "unpublish" /\ session'.mode = session.mode
          /\ session'.job = session.job /\ session'.snapshot = session.snapshot
          /\ session'.mem = session.mem /\ session'.draft = session.draft
          /\ session'.todo = Present(disk.live)
      BY <1>2, <1>7, <2>1, Looped
    <2>3. Watched' /\ Spared /\ disk' = disk
      BY <1>7, WatchedStill DEF ForeignInv
    <2>4. Strange(disk) \subseteq Present(disk.live)
      BY OursFacts DEF Strange, Present
    <2>5. Knows(session', disk')
      BY <1>2, <2>2, <2>3, <2>4 DEF Knows, Holds, Undoing
    <2> QED
      BY <1>1, <1>7, <2>2, <2>3, <2>5, OnwardIn
  <1> QED
    BY <1>4, <1>5, <1>6, <1>7 DEF Requarantine

\* A file whose evidence is read is moved away; or it is gone, or it came since.
LEMMA ForeignRequarantineMove ==
  ASSUME ForeignInv, ForeignApart, RequarantineMove
  PROVE  ForeignInv' /\ Spared
  <1>1. session.pc = "requarantine_move"
    BY DEF RequarantineMove, Do, At
  <1>2. /\ session \in Session /\ Owned(disk) /\ Holds(session, disk, Undoing, {"rolling_back"})
        /\ disk.journal.phase \in Real /\ session.mode # "publishing" /\ disk.quarantine.exists
        /\ session.checked \subseteq Names /\ session.checked \cap Strange(disk) \subseteq session.late
    BY <1>1, Looping DEF Knows
  <1>3. PICK n \in session.checked :
          \/ /\ disk.live[n] # Absent
             /\ Do("requarantine_move",
                   [disk EXCEPT !.quarantine.files = Put(@, n, disk.live[n]), !.live = Drop(@, n)],
                   "requarantine_sync")
          \/ Raise /\ Keep /\ UNCHANGED serving
    BY DEF RequarantineMove
  <1>4. CASE /\ disk.live[n] # Absent
             /\ Do("requarantine_move",
                   [disk EXCEPT !.quarantine.files = Put(@, n, disk.live[n]), !.live = Drop(@, n)],
                   "requarantine_sync")
    <2> DEFINE e == [disk EXCEPT !.quarantine.files = Put(@, n, disk.live[n]), !.live = Drop(@, n)]
    <2>1. n \in Present(disk.live) /\ n \in Names
      BY <1>2, <1>4 DEF Present
    <2>2. /\ Owned(e) /\ e.quarantine.exists /\ e.journal = disk.journal
          /\ e.live[n] = Absent /\ \A m \in Names \ {n} : e.live[m] = disk.live[m]
      BY <1>2, <2>1, OwnedAside
    <2>3. Do("requarantine_move", e, "requarantine_sync") /\ Goto("requarantine_sync")
      BY <1>4 DEF Do
    <2> HIDE DEF e
    <2>4. "requarantine_move" \in Steps \ {"idle", "load"} /\ "requarantine_sync" \in Steps \ {"idle"}
      BY DEF Steps
    <2>5. /\ session'.pc = "requarantine_sync" /\ session'.mode = session.mode
          /\ session'.mem = session.mem /\ session'.draft = session.draft
      BY <1>2, <2>3, <2>4, Moved
    <2>6. Knows(session', e)
      BY <1>2, <2>2, <2>5 DEF Knows, Holds, Undoing
    <2>7. disk.live[n] \in Foreign => n \in session.late
      BY <1>2, <2>1 DEF Strange
    <2>8. \A m \in Names : (disk.live[m] \in Foreign /\ m \notin session.late) \/ e.live[m] \in Foreign =>
                           e.live[m] = disk.live[m]
      BY <2>2, <2>7, OursFacts
    <2> QED
      BY <2>2, <2>3, <2>4, <2>6, <2>8, ForeignDo
  <1>5. CASE Raise /\ Keep /\ UNCHANGED serving
    BY <1>1, <1>5, ForeignRaiseStill
  <1> QED
    BY <1>3, <1>4, <1>5

LEMMA ForeignUnpublish ==
  ASSUME ForeignInv, ForeignApart, Unpublish
  PROVE  ForeignInv' /\ Spared
  <1>1. session.pc = "unpublish"
    BY DEF Unpublish, At
  <1>2. /\ session \in Session /\ Holds(session, disk, Undoing, {"rolling_back"})
        /\ Ours(session.mem.new) /\ session.mode # "publishing"
        /\ session.todo \subseteq Names /\ session.late \subseteq Names
        /\ Present(session.mem.old) \subseteq Names
        /\ Strange(disk) \subseteq session.todo \cup session.late
    BY <1>1, Looping DEF Knows
  <1>3. CASE \E n \in session.todo :
               Matches(disk.live, n, session.mem.new) /\ Look(n, "unpublish_remove", {n})
    <2>1. PICK n \in Names :
            Matches(disk.live, n, session.mem.new) /\ Look(n, "unpublish_remove", {n})
      BY <1>2, <1>3
    <2>2. n \notin Strange(disk)
      BY <1>2, <2>1 DEF Matches, Ours, Strange
    <2>3. "unpublish_remove" \in Steps /\ {n} \in SUBSET Names
      BY <2>1 DEF Steps
    <2>4. /\ session' \in Session /\ session'.pc = "unpublish_remove" /\ session'.mode = session.mode
          /\ session'.job = session.job /\ session'.snapshot = session.snapshot
          /\ session'.mem = session.mem /\ session'.draft = session.draft
          /\ session'.todo = session.todo \ {n} /\ session'.checked = {n}
          /\ session'.late = session.late /\ Keep /\ Local
      BY <1>2, <2>1, <2>3, Looked
    <2>5. Watched' /\ Spared /\ disk' = disk
      BY <2>4, WatchedStill DEF ForeignInv
    <2>6. Knows(session', disk')
      BY <1>2, <2>2, <2>4, <2>5 DEF Knows, Holds, Undoing
    <2> QED
      BY <1>1, <2>4, <2>5, <2>6, OnwardIn
  <1>4. CASE Refuse
    BY <1>1, <1>2, <1>4, ForeignRefuse
  <1>5. CASE session.todo = {} /\ Keep /\ Local /\ Loop("reinstate", {}, Present(session.mem.old), session.late)
    <2>1. /\ "reinstate" \in Steps /\ Present(session.mem.old) \in SUBSET Names
          /\ session.late \in SUBSET Names /\ {} \in SUBSET Names
          /\ session \in Session /\ Loop("reinstate", {}, Present(session.mem.old), session.late)
      BY <1>2, <1>5 DEF Steps
    <2>2. /\ session' \in Session /\ session'.pc = "reinstate" /\ session'.mode = session.mode
          /\ session'.job = session.job /\ session'.snapshot = session.snapshot
          /\ session'.mem = session.mem /\ session'.draft = session.draft
          /\ session'.late = session.late
      <3> DEFINE todo == Present(session.mem.old)
                 late == session.late
      <3>1. /\ session \in Session /\ Loop("reinstate", {}, todo, late) /\ "reinstate" \in Steps
            /\ {} \in SUBSET Names /\ todo \in SUBSET Names /\ late \in SUBSET Names
        BY <2>1
      <3> HIDE DEF todo, late
      <3>2. /\ session' \in Session /\ session'.pc = "reinstate" /\ session'.mode = session.mode
            /\ session'.job = session.job /\ session'.snapshot = session.snapshot
            /\ session'.mem = session.mem /\ session'.draft = session.draft
            /\ session'.late = late
        BY <3>1, Looped
      <3> QED
        BY <3>2 DEF late
    <2>3. Watched' /\ Spared /\ disk' = disk
      BY <1>5, WatchedStill DEF ForeignInv
    <2>4. Knows(session', disk')
      BY <1>2, <1>5, <2>2, <2>3 DEF Knows, Holds, Undoing
    <2> QED
      BY <1>1, <1>5, <2>2, <2>3, <2>4, OnwardIn
  <1> QED
    BY <1>3, <1>4, <1>5 DEF Unpublish

LEMMA ForeignUnpublishRemove ==
  ASSUME ForeignInv, ForeignApart, UnpublishRemove
  PROVE  ForeignInv' /\ Spared
  <1>1. session.pc = "unpublish_remove"
    BY DEF UnpublishRemove, Do, At
  <1>2. /\ session \in Session /\ Owned(disk) /\ Holds(session, disk, Undoing, {"rolling_back"})
        /\ disk.journal.phase \in Real /\ session.mode # "publishing"
        /\ session.checked \subseteq Names /\ session.checked \cap Strange(disk) \subseteq session.late
        /\ Strange(disk) \subseteq session.todo \cup session.late
    BY <1>1, Looping DEF Knows
  <1>3. PICK n \in session.checked :
          \/ /\ disk.live[n] # Absent
             /\ Do("unpublish_remove", [disk EXCEPT !.live = Drop(@, n)], "unpublish_sync")
          \/ Raise /\ Keep /\ UNCHANGED serving
    BY DEF UnpublishRemove
  <1>4. CASE /\ disk.live[n] # Absent
             /\ Do("unpublish_remove", [disk EXCEPT !.live = Drop(@, n)], "unpublish_sync")
    <2> DEFINE e == [disk EXCEPT !.live = Drop(@, n)]
    <2>1. n \in Present(disk.live) /\ n \in Names
      BY <1>2, <1>4 DEF Present
    <2>2. /\ Owned(e) /\ e.journal = disk.journal
          /\ e.live[n] = Absent /\ \A m \in Names \ {n} : e.live[m] = disk.live[m]
      BY <1>2, <2>1, OwnedAside
    <2>3. Do("unpublish_remove", e, "unpublish_sync") /\ Goto("unpublish_sync")
      BY <1>4 DEF Do
    <2> HIDE DEF e
    <2>4. "unpublish_remove" \in Steps \ {"idle", "load"} /\ "unpublish_sync" \in Steps \ {"idle"}
      BY DEF Steps
    <2>5. /\ session'.pc = "unpublish_sync" /\ session'.mode = session.mode
          /\ session'.mem = session.mem /\ session'.draft = session.draft
          /\ session'.todo = session.todo /\ session'.late = session.late
      BY <1>2, <2>3, <2>4, Moved
    <2>6. Strange(e) \subseteq Strange(disk)
      BY <2>2, OursFacts DEF Strange
    <2>7. Knows(session', e)
      BY <1>2, <2>2, <2>5, <2>6 DEF Knows, Holds, Undoing
    <2>8. disk.live[n] \in Foreign => n \in session.late
      BY <1>2, <2>1 DEF Strange
    <2>9. \A m \in Names : (disk.live[m] \in Foreign /\ m \notin session.late) \/ e.live[m] \in Foreign =>
                           e.live[m] = disk.live[m]
      BY <2>2, <2>8, OursFacts
    <2> QED
      BY <2>2, <2>3, <2>4, <2>7, <2>9, ForeignDo
  <1>5. CASE Raise /\ Keep /\ UNCHANGED serving
    BY <1>1, <1>5, ForeignRaiseStill
  <1> QED
    BY <1>3, <1>4, <1>5

\* The rename replaces what is live, and that is a stranger's only if it came late.
LEMMA ForeignReinstate ==
  ASSUME ForeignInv, ForeignApart, Reinstate
  PROVE  ForeignInv' /\ Spared
  <1>1. session.pc = "reinstate"
    BY DEF Reinstate, At
  <1>2. /\ session \in Session /\ disk \in Disk /\ Owned(disk)
        /\ Holds(session, disk, Undoing, {"rolling_back"})
        /\ disk.journal.phase \in Real /\ session.mode # "publishing"
        /\ session.mem.old \in Known /\ Ours(session.mem.old)
        /\ session.todo \subseteq Names /\ Strange(disk) \subseteq session.late
    BY <1>1, Looping DEF Knows
  <1>3. ASSUME NEW n \in session.todo, Matches(disk.quarantine.files, n, session.mem.old),
               Change([disk EXCEPT !.live = Put(@, n, disk.quarantine.files[n]),
                                   !.quarantine.files = Drop(@, n)]),
               session' = [session EXCEPT !.pc = "reinstate_sync", !.todo = @ \ {n}], Local
        PROVE  ForeignInv' /\ Spared
    <2> DEFINE e == [disk EXCEPT !.live = Put(@, n, disk.quarantine.files[n]), !.quarantine.files = Drop(@, n)]
    <2>1. n \in Names /\ n \in Present(disk.quarantine.files) /\ disk.quarantine.files[n] \notin Foreign
      BY <1>2, <1>3 DEF Present, Matches, Ours
    <2>2. /\ Owned(e) /\ e.journal = disk.journal /\ e.live[n] \notin Foreign
          /\ \A m \in Names \ {n} : e.live[m] = disk.live[m]
      BY <1>2, <2>1, OwnedPut
    <2>3. Change(e)
      BY <1>3
    <2> HIDE DEF e
    <2>4. "reinstate_sync" \in Steps /\ session.todo \ {n} \in SUBSET Names
      BY <1>2 DEF Steps
    <2>5. /\ session' \in Session /\ session'.pc = "reinstate_sync" /\ session'.mode = session.mode
          /\ session'.job = session.job /\ session'.snapshot = session.snapshot
          /\ session'.mem = session.mem /\ session'.draft = session.draft
          /\ session'.late = session.late
      BY <1>2, <1>3, <2>4 DEF Session
    <2>6. Strange(e) \subseteq Strange(disk)
      BY <2>2 DEF Strange
    <2>7. \A m \in Names : (disk.live[m] \in Foreign /\ m \notin session.late) \/ e.live[m] \in Foreign =>
                           e.live[m] = disk.live[m]
      BY <1>2, <2>2 DEF Strange
    <2>8. Watched' /\ Spared /\ disk' = e
      BY <2>2, <2>3, <2>7, WatchedChange DEF ForeignInv
    <2>9. Knows(session', disk')
      BY <1>2, <2>2, <2>5, <2>6, <2>8 DEF Knows, Holds, Undoing
    <2> QED
      BY <1>1, <1>3, <2>5, <2>8, <2>9, OnwardIn
  <1>4. CASE disk.live = session.mem.old /\ Loop("cleanup", {}, {}, {}) /\ Keep /\ Local
    <2>1. "cleanup" \in Steps /\ disk.live \in Known /\ {} \in SUBSET Names
      BY <1>2, <1>4 DEF Steps
    <2>2. /\ session' \in Session /\ session'.pc = "cleanup" /\ session'.mode = session.mode
          /\ session'.job = session.job /\ session'.snapshot = session.snapshot
          /\ session'.mem = session.mem /\ session'.draft = session.draft
      BY <1>2, <1>4, <2>1, Looped
    <2>3. Watched' /\ Spared /\ disk' = disk
      BY <1>4, WatchedStill DEF ForeignInv
    <2>4. Knows(session', disk')
      BY <1>2, <2>1, <2>2, <2>3 DEF Knows, Holds, Undoing
    <2> QED
      BY <1>1, <1>4, <2>2, <2>3, <2>4, OnwardIn
  <1>5. CASE Refuse
    BY <1>1, <1>2, <1>5, ForeignRefuse
  <1> QED
    BY <1>3, <1>4, <1>5 DEF Reinstate

-----------------------------------------------------------------------------
(* A transaction is cleaned up, unwound or fails *)

\* Staging or quarantine loses a file, or goes.
LEMMA ForeignRemove ==
  ASSUME ForeignInv, NEW pc \in {"cleanup", "remove_staging", "remove_quarantine"},
         RemoveAll(pc, "staging") \/ RemoveAll(pc, "quarantine")
  PROVE  ForeignInv' /\ Spared
  <1>1. session.pc = pc /\ pc \in Steps \ {"idle", "load"}
    BY DEF RemoveAll, Do, At, Steps
  <1>2. session \in Session /\ disk \in Disk /\ Owned(disk) /\ Knows(session, disk)
    BY Facing
  <1>3. Ours(disk.staging.files)
    BY <1>2 DEF Owned
  <1>4. ASSUME NEW e, Owned(e), e.live = disk.live, Do(pc, e, pc) PROVE ForeignInv' /\ Spared
    <2>1. Goto(pc)
      BY <1>4 DEF Do
    <2>2. /\ session'.pc = pc /\ session'.mode = session.mode
          /\ session'.mem = session.mem /\ session'.draft = session.draft
      BY <1>1, <1>2, <2>1, Moved
    <2>3. Knows(session', e)
      BY <1>1, <1>2, <1>4, <2>2 DEF Knows
    <2> QED
      BY <1>1, <1>4, <2>3, ForeignDo
  <1>5. \A y : \A x \in Directory : Less(x, y) /\ Ours(y.files) => Ours(x.files)
    BY OursFacts DEF Less, Ours
  <1>6. ASSUME NEW x \in Directory, Less(x, disk.staging), Do(pc, [disk EXCEPT !.staging = x], pc)
        PROVE  ForeignInv' /\ Spared
    <2> DEFINE e == [disk EXCEPT !.staging = x]
    <2>1. Owned(e) /\ e.live = disk.live
      BY <1>2, <1>3, <1>5, <1>6, OwnedParts
    <2>2. Do(pc, e, pc)
      BY <1>6
    <2> HIDE DEF e
    <2> QED
      BY <1>4, <2>1, <2>2
  <1>7. ASSUME NEW x \in Directory, Less(x, disk.quarantine), Do(pc, [disk EXCEPT !.quarantine = x], pc)
        PROVE  ForeignInv' /\ Spared
    <2> DEFINE e == [disk EXCEPT !.quarantine = x]
    <2>1. Owned(e) /\ e.live = disk.live
      BY <1>2, <1>7, OwnedParts
    <2>2. Do(pc, e, pc)
      BY <1>7
    <2> HIDE DEF e
    <2> QED
      BY <1>4, <2>1, <2>2
  <1> QED
    BY <1>2, <1>6, <1>7, RemoveFacts

LEMMA ForeignCleanup ==
  ASSUME ForeignInv, Cleanup
  PROVE  ForeignInv' /\ Spared
  <1>1. CASE RemoveAll("cleanup", "staging") \/ RemoveAll("cleanup", "quarantine")
    BY <1>1, ForeignRemove
  <1>2. CASE /\ At("cleanup") /\ ~disk.staging.exists /\ ~disk.quarantine.exists
             /\ disk' = [disk EXCEPT !.tmp = NoJournal]
             /\ window' = {disk'}
             /\ Goto("forget") /\ Local
    <2> DEFINE e == [disk EXCEPT !.tmp = NoJournal]
    <2>1. session \in Session /\ Owned(disk) /\ Knows(session, disk) /\ session.pc = "cleanup"
      BY <1>2, Facing DEF At
    <2>2. /\ Owned(e) /\ e.live = disk.live /\ e.staging = disk.staging /\ e.quarantine = disk.quarantine
          /\ e.tmp = NoJournal
      BY <2>1, NoJournalFacts, SoundFacts, OwnedTmp
    <2>3. disk' = e /\ window' = {e}
      BY <1>2
    <2> HIDE DEF e
    <2>4. Watched' /\ Spared
      BY <2>2, <2>3 DEF Watched, Spared
    <2>5. ~Residue(e)
      BY <1>2, <2>2, NoJournalFacts DEF Residue
    <2>6. "forget" \in Steps \ {"idle"}
      BY DEF Steps
    <2>7. /\ session'.pc = "forget" /\ session'.mode = session.mode
          /\ session'.mem = session.mem /\ session'.draft = session.draft
      BY <1>2, <2>1, <2>6, Moved
    <2>8. Knows(session', disk')
      BY <2>1, <2>2, <2>3, <2>5, <2>7 DEF Knows
    <2> QED
      BY <1>2, <2>1, <2>4, <2>6, <2>8, OnwardTo
  <1> QED
    BY <1>1, <1>2 DEF Cleanup

LEMMA ForeignForget ==
  ASSUME ForeignInv, Forget
  PROVE  ForeignInv' /\ Spared
  <1> DEFINE e == [disk EXCEPT !.journal = NoJournal]
  <1>1. /\ session \in Session /\ disk \in Disk /\ Owned(disk) /\ Knows(session, disk)
        /\ session.pc = "forget" /\ Do("forget", e, "forget_sync") /\ Goto("forget_sync")
    BY Facing DEF Forget, Do, At
  <1>2. /\ e \in Disk /\ e.live = disk.live /\ e.staging = disk.staging
        /\ e.quarantine = disk.quarantine /\ e.tmp = disk.tmp /\ e.journal = NoJournal
    BY <1>1, NoJournalFacts, DiskUpdates
  <1> HIDE DEF e
  <1>3. disk.live \in Known /\ ~Residue(disk) /\ session.draft = NoJournal
    BY <1>1 DEF Knows
  <1>4. Owned(e)
    BY <1>1, <1>2, <1>3, SoundFacts DEF Owned
  <1>5. "forget" \in Steps \ {"idle", "load"} /\ "forget_sync" \in Steps \ {"idle"}
    BY DEF Steps
  <1>6. /\ session'.pc = "forget_sync" /\ session'.mode = session.mode
        /\ session'.mem = session.mem /\ session'.draft = session.draft
    BY <1>1, <1>5, Moved
  <1>7. ~Residue(e)
    BY <1>2, <1>3 DEF Residue
  <1>8. Knows(session', e)
    BY <1>1, <1>2, <1>3, <1>6, <1>7, NoJournalFacts DEF Knows
  <1> QED
    BY <1>1, <1>2, <1>4, <1>5, <1>8, ForeignDo

LEMMA ForeignForgetSync ==
  ASSUME ForeignInv, ForeignApart, ForgetSync
  PROVE  ForeignInv' /\ Spared
  <1>1. session.pc = "forget_sync" /\ FsyncDir /\ Knows(session, disk) /\ ~serving /\ serving \in BOOLEAN
    BY Facing DEF ForgetSync, At
  <1>2. disk.journal.phase = "none" /\ ~Residue(disk) /\ session.draft = NoJournal
    BY <1>1 DEF Knows
  <1>3. Watched' /\ Spared /\ disk' = disk
    BY <1>1, WatchedStill DEF ForeignInv
  <1>4. CASE Recovered
    BY <1>1, <1>2, <1>3, <1>4, ForeignRecovered
  <1>5. CASE session' = Idle /\ UNCHANGED serving
    BY <1>1, <1>2, <1>3, <1>5, Over
  <1> QED
    BY <1>4, <1>5 DEF ForgetSync, End

LEMMA ForeignUnwind ==
  ASSUME ForeignInv, Unwind
  PROVE  ForeignInv' /\ Spared
  <1>1. /\ session.pc = "unwind" /\ Keep /\ session \in Session /\ Knows(session, disk)
        /\ ~serving /\ serving \in BOOLEAN
        /\ session.mode = "unwinding" /\ session.mem.phase \in {"none", "prepared", "committed"}
    BY Facing DEF Unwind, At, Knows
  <1>2. Watched' /\ Spared /\ disk' = disk
    BY <1>1, WatchedStill DEF ForeignInv
  <1>3. CASE session.mem.phase = "none"
    <2>1. Goto("remove_staging") /\ Local /\ "remove_staging" \in Steps \ {"idle"}
      BY <1>3 DEF Unwind, Steps
    <2>2. session'.pc = "remove_staging" /\ session'.mode = session.mode
      BY <1>1, <2>1, Moved
    <2>3. Knows(session', disk)
      BY <1>1, <2>2 DEF Knows
    <2> QED
      BY <1>1, <2>1, <2>3, ForeignGo
  <1>4. CASE session.mem.phase = "committed"
    <2>1. session' = Idle /\ UNCHANGED serving
      BY <1>4 DEF Unwind, End
    <2> QED
      BY <1>1, <1>2, <2>1, Over
  <1>5. CASE session.mem.phase = "prepared"
    <2>1. SetPhase("rolling_back") /\ Local
      BY <1>5 DEF Unwind
    <2> QED
      BY <1>1, <1>5, <2>1, ForeignSetPhase DEF Real, Undoing
  <1> QED
    BY <1>1, <1>3, <1>4, <1>5

LEMMA ForeignRemoval ==
  ASSUME ForeignInv, RemoveStaging \/ RemoveQuarantine \/ RemoveSync
  PROVE  ForeignInv' /\ Spared
  <1>1. session \in Session /\ Knows(session, disk) /\ serving \in BOOLEAN
    BY Facing
  <1>2. CASE RemoveAll("remove_staging", "staging") \/ RemoveAll("remove_quarantine", "quarantine")
    BY <1>2, ForeignRemove
  <1>3. ASSUME NEW pc \in {"remove_staging", "remove_quarantine"},
               NEW next \in {"remove_quarantine", "remove_sync"},
               At(pc), Goto(next), Keep, Local
        PROVE  ForeignInv' /\ Spared
    <2>1. next \in Steps \ {"idle"} /\ session.pc = pc
      BY <1>3 DEF Steps, At
    <2>2. /\ session'.pc = next /\ session'.mode = session.mode /\ session'.mem = session.mem
      BY <1>1, <1>3, <2>1, Moved
    <2>3. Knows(session', disk)
      BY <1>1, <2>2 DEF Knows
    <2> QED
      BY <1>3, <2>1, <2>3, ForeignGo
  <1>4. CASE RemoveSync
    <2>1. session.pc = "remove_sync" /\ FsyncDir /\ session' = Idle /\ UNCHANGED serving
      BY <1>4 DEF RemoveSync, At, End
    <2>2. Watched' /\ Spared /\ disk' = disk
      BY <2>1, WatchedStill DEF ForeignInv
    <2> QED
      BY <1>1, <2>1, <2>2, Facing, Over
  <1> QED
    BY <1>2, <1>3, <1>4 DEF RemoveStaging, RemoveQuarantine

LEMMA ForeignFail ==
  ASSUME ForeignInv, Fail
  PROVE  ForeignInv' /\ Spared
  <1>1. /\ session.pc \notin {"idle", "unwind"} /\ Keep /\ UNCHANGED serving
        /\ session \in Session /\ Knows(session, disk)
    BY Facing DEF Fail
  <1>2. Watched' /\ Spared /\ disk' = disk
    BY <1>1, WatchedStill DEF ForeignInv
  <1>3. CASE session.pc \in {"write", "sync_file", "sync_name", "rename", "remove_staging", "remove_quarantine"}
    <2>1. PICK next \in {"abandon", "remove_quarantine", "remove_sync"} :
            /\ Goto(next) /\ Local
            /\ next = "abandon" => session.pc \in {"write", "sync_file", "sync_name", "rename"}
      BY <1>1, <1>3 DEF Fail, Local
    <2>2. next \in Steps \ {"idle"}
      BY DEF Steps
    <2>3. /\ session'.pc = next /\ session'.mode = session.mode
          /\ session'.mem = session.mem /\ session'.draft = session.draft
      BY <1>1, <2>1, <2>2, Moved
    <2>4. Knows(session', disk)
      BY <1>1, <2>1, <2>3 DEF Knows, Advancing
    <2> QED
      BY <1>1, <1>3, <2>1, <2>2, <2>4, ForeignGo
  <1>4. CASE session.pc \notin {"write", "sync_file", "sync_name", "rename", "remove_staging", "remove_quarantine"}
    <2>1. Raise
      BY <1>4 DEF Fail
    <2>2. serving => disk'.journal.phase = "none" /\ ~Residue(disk')
      BY <1>2 DEF ForeignInv, Undeceived
    <2> QED
      BY <1>1, <1>2, <2>1, <2>2, ForeignRaise
  <1> QED
    BY <1>3, <1>4

LEMMA ForeignAbandon ==
  ASSUME ForeignInv, Abandon
  PROVE  ForeignInv' /\ Spared
  <1> DEFINE e == [disk EXCEPT !.tmp = NoJournal]
  <1>1. /\ session.pc = "abandon" /\ Change(e) /\ Raise /\ UNCHANGED serving
        /\ Owned(disk) /\ ~serving /\ Watched
    BY Facing DEF Abandon, At
  <1>2. Owned(e) /\ e.live = disk.live
    BY <1>1, NoJournalFacts, SoundFacts, OwnedTmp
  <1> HIDE DEF e
  <1>3. Watched' /\ Spared /\ disk' = e
    BY <1>1, <1>2, WatchedAside
  <1> QED
    BY <1>1, <1>2, <1>3, ForeignRaise

-----------------------------------------------------------------------------
(* Crashes, the agent and the stranger *)

LEMMA ForeignDie ==
  ASSUME ForeignInv, Die
  PROVE  ForeignInv' /\ Spared
  <1>1. session' = Idle /\ UNCHANGED serving /\ Keep /\ serving \in BOOLEAN
    BY Facing DEF Die, Keep
  <1>2. Watched' /\ Spared /\ disk' = disk
    BY <1>1, WatchedStill DEF ForeignInv
  <1>3. serving => disk.journal.phase = "none" /\ ~Residue(disk)
    BY DEF ForeignInv, Undeceived
  <1> QED
    BY <1>1, <1>2, <1>3, Over

\* What a stranger wrote is on every disk a power loss can leave.
LEMMA ForeignPowerLoss ==
  ASSUME ForeignInv, PowerLoss
  PROVE  ForeignInv' /\ Spared
  <1>1. PICK d \in window : \E j \in Survivors(d.journal), t \in Survivors(d.tmp) :
          disk' = [d EXCEPT !.journal = j, !.tmp = t]
    BY DEF PowerLoss
  <1>2. PICK j \in Survivors(d.journal), t \in Survivors(d.tmp) :
          disk' = [d EXCEPT !.journal = j, !.tmp = t]
    BY <1>1
  <1>3. window' = {disk'} /\ session' = Idle /\ serving' = FALSE
    BY DEF PowerLoss
  <1>4. d \in Disk /\ Owned(d) /\ \A n \in Names : disk.live[n] \in Foreign => d.live[n] = disk.live[n]
    BY DEF ForeignInv, Watched, Owned
  <1>5. j \in {d.journal, Torn} /\ t \in {d.tmp, Torn} /\ d.journal \in Journal /\ d.tmp \in Journal
    BY <1>4, DiskFacts DEF Survivors
  <1>6. j \in Journal /\ t \in Journal /\ Sound(j) /\ Sound(t) /\ (j.phase = "none" => j = d.journal)
    BY <1>4, <1>5, NoJournalFacts, SoundFacts DEF Owned
  <1>7. /\ disk' \in Disk /\ disk'.live = d.live /\ disk'.staging = d.staging
        /\ disk'.quarantine = d.quarantine /\ disk'.tmp = t /\ disk'.journal = j
    BY <1>2, <1>4, <1>6 DEF Disk
  <1>8. Owned(disk')
    BY <1>4, <1>6, <1>7 DEF Owned
  <1>9. Watched' /\ Spared
    BY <1>3, <1>4, <1>7, <1>8 DEF Watched, Spared
  <1> QED
    BY <1>3, <1>9, Over

LEMMA ForeignBegin ==
  ASSUME ForeignInv, NEW job \in {"restore", "start", "backup"}, NEW s \in Files, Begin(job, s),
         job = "restore" => s \in Snapshots
  PROVE  ForeignInv' /\ Spared
  <1>1. /\ session.pc = "idle" /\ UNCHANGED <<disk, window, serving>>
        /\ session' = [Idle EXCEPT !.pc = "load", !.mode = "recovering", !.job = job, !.snapshot = s]
        /\ job # "backup" => ~serving
    BY DEF Begin, At
  <1>2. /\ session' \in Session /\ session'.pc = "load" /\ session'.mode = "recovering"
        /\ session'.job = job /\ session'.snapshot = s
        /\ session'.mem = NoJournal /\ session'.draft = NoJournal
    BY <1>1, NoJournalFacts, EmptyFacts DEF Idle, Session, Steps, Modes, Jobs
  <1>3. Watched' /\ Spared /\ disk' = disk
    BY <1>1, WatchedStill DEF ForeignInv, Keep
  <1>4. Knows(session', disk')
    BY <1>2 DEF Knows
  <1>5. Informed'
    BY <1>2, <1>4, SoundFacts DEF Informed
  <1>6. Undeceived'
    BY <1>1, <1>2 DEF ForeignInv, Undeceived
  <1> QED
    BY <1>3, <1>5, <1>6 DEF ForeignInv

LEMMA ForeignAgent ==
  ASSUME ForeignInv, ForeignApart, AgentWrites \/ AgentStops
  PROVE  ForeignInv' /\ Spared
  <1>1. session \in Session /\ disk \in Disk /\ Owned(disk) /\ Knows(session, disk) /\ Watched
    BY Facing
  <1>2. CASE AgentStops
    <2>1. serving' = FALSE /\ UNCHANGED session /\ Keep
      BY <1>2 DEF AgentStops, Keep
    <2>2. Watched' /\ Spared /\ disk' = disk
      BY <1>1, <2>1, WatchedStill
    <2> QED
      BY <2>1, <2>2 DEF ForeignInv, Informed, Undeceived
  <1>3. CASE AgentWrites
    <2>1. PICK g \in Generations : disk' = [disk EXCEPT !.live = g]
      BY <1>3 DEF AgentWrites
    <2>2. serving /\ window' = {disk'} /\ UNCHANGED <<session, serving>>
      BY <1>3 DEF AgentWrites
    <2>3. /\ disk.journal.phase = "none" /\ ~Residue(disk)
          /\ session.pc = "idle" \/ (session.pc = "load" /\ session.job = "backup")
      BY <2>2 DEF ForeignInv, Undeceived
    <2>4. g \in Files /\ g \in Known
      BY StateAssumption DEF Known
    <2>5. /\ disk' \in Disk /\ disk'.live = g /\ disk'.staging = disk.staging
          /\ disk'.quarantine = disk.quarantine /\ disk'.tmp = disk.tmp /\ disk'.journal = disk.journal
      BY <1>1, <2>1, <2>4, DiskUpdates
    <2>6. Owned(disk')
      BY <1>1, <2>4, <2>5 DEF Owned
    <2>7. Ours(disk.live)
      BY <1>1, <2>3, KnownFacts DEF Owned
    <2>8. Watched' /\ Spared
      BY <2>2, <2>6, <2>7 DEF Watched, Spared, Ours
    <2>9. Knows(session, disk')
      <3>1. session.mode # "publishing"
        BY <1>1, <2>3, IdleFacts DEF Knows
      <3> QED
        BY <1>1, <2>3, <3>1 DEF Knows
    <2>10. Informed'
      BY <2>2, <2>9 DEF ForeignInv, Informed
    <2>11. Undeceived'
      BY <2>2, <2>3, <2>5 DEF ForeignInv, Undeceived, Residue
    <2> QED
      BY <2>8, <2>10, <2>11 DEF ForeignInv
  <1> QED
    BY <1>2, <1>3

\* The stranger finds a journal on disk, and no publication.
LEMMA ForeignTamper ==
  ASSUME ForeignInv, Tamper
  PROVE  ForeignInv' /\ Spared
  <1>1. /\ session \in Session /\ disk \in Disk /\ Owned(disk) /\ Knows(session, disk)
        /\ disk.journal.phase # "none" /\ session.pc # "load"
        /\ session.pc \in {"idle", "requarantine", "requarantine_move", "unpublish",
                          "unpublish_remove", "reinstate"}
    BY Facing DEF Tamper
  <1>2. PICK n \in Names, c \in Foreign \cup {Absent} :
          /\ disk.live[n] \notin Foreign /\ disk' = [disk EXCEPT !.live = Put(@, n, c)]
          /\ session' = IF At("idle") THEN session ELSE [session EXCEPT !.late = @ \cup {n}]
    BY DEF Tamper
  <1>3. window' = {disk'} /\ UNCHANGED serving
    BY DEF Tamper
  <1> DEFINE f == Put(disk.live, n, c)
  <1>4. f \in Files /\ \A m \in Names \ {n} : f[m] = disk.live[m]
    <2>1. disk.live \in Files /\ c \in Contents \cup {Absent}
      BY <1>1, DiskFacts, StateAssumption
    <2> QED
      BY <2>1, FilesFacts
  <1>5. disk' = [disk EXCEPT !.live = f]
    BY <1>2
  <1> HIDE DEF f
  <1>6. /\ disk' \in Disk /\ disk'.live = f /\ disk'.staging = disk.staging
        /\ disk'.quarantine = disk.quarantine /\ disk'.tmp = disk.tmp /\ disk'.journal = disk.journal
    BY <1>1, <1>4, <1>5, DiskUpdates
  <1>7. Owned(disk')
    BY <1>1, <1>6 DEF Owned
  <1>8. Watched' /\ Spared
    BY <1>2, <1>3, <1>4, <1>6, <1>7 DEF Watched, Spared
  <1>9. /\ session' \in Session /\ session'.pc = session.pc /\ session'.mode = session.mode
        /\ session'.job = session.job /\ session'.snapshot = session.snapshot
        /\ session'.mem = session.mem /\ session'.draft = session.draft
        /\ session'.todo = session.todo /\ session'.checked = session.checked
        /\ session.pc = "idle" => session' = session
        /\ session.pc # "idle" => session'.late = session.late \cup {n}
    <2>1. CASE session.pc = "idle"
      BY <1>1, <1>2, <2>1 DEF At
    <2>2. CASE session.pc # "idle"
      <3>1. session' = [session EXCEPT !.late = session.late \cup {n}]
        BY <1>2, <2>2 DEF At
      <3>2. session.late \cup {n} \in SUBSET Names
        BY <1>1 DEF Session
      <3> QED
        BY <1>1, <2>2, <3>1, <3>2 DEF Session
    <2> QED
      BY <2>1, <2>2
  <1>10. Strange(disk') \subseteq Strange(disk) \cup {n}
    BY <1>4, <1>6 DEF Strange
  <1>11. session.mode # "publishing"
    BY <1>1, IdleFacts DEF Knows, Holds, Undoing
  <1>12. Knows(session', disk')
    <2>1. CASE session.pc = "idle"
      BY <1>1, <1>6, <1>9, <1>11, <2>1 DEF Knows
    <2>2. CASE session.pc # "idle"
      BY <1>1, <1>6, <1>9, <1>10, <1>11, <2>2 DEF Knows, Holds
    <2> QED
      BY <2>1, <2>2
  <1>13. Informed'
    BY <1>9, <1>12 DEF ForeignInv, Informed
  <1>14. Undeceived'
    BY <1>1, <1>3, <1>9 DEF ForeignInv, Undeceived
  <1> QED
    BY <1>8, <1>13, <1>14 DEF ForeignInv

LEMMA ForeignInit ==
  ASSUME Init
  PROVE  ForeignInv
  <1>1. PICK g \in Generations : disk = [live |-> g, staging |-> NoDirectory, quarantine |-> NoDirectory,
                                         tmp |-> NoJournal, journal |-> NoJournal]
    BY DEF Init
  <1>2. window = {disk} /\ session = Idle /\ serving = FALSE /\ g \in Files /\ g \in Known
    BY StateAssumption DEF Init, Known
  <1>3. disk \in Disk
    BY <1>1, <1>2, DirectoryFacts, NoJournalFacts DEF Disk
  <1>4. Owned(disk)
    BY <1>1, <1>2, <1>3, DirectoryFacts, OursFacts, SoundFacts DEF Owned
  <1>5. Watched
    BY <1>2, <1>4 DEF Watched
  <1>6. Idle.pc = "idle" /\ Idle.mode = "idle" /\ Idle.job = "none" /\ Idle.mem = NoJournal
        /\ Idle.draft = NoJournal /\ Idle \in Session
    BY IdleFacts DEF Idle
  <1>7. Knows(Idle, disk)
    BY <1>6 DEF Knows
  <1>8. Informed /\ Undeceived
    BY <1>2, <1>6, <1>7, SoundFacts DEF Informed, Undeceived
  <1> QED
    BY <1>5, <1>8 DEF ForeignInv

LEMMA ForeignStep ==
  ASSUME ForeignInv, ForeignApart, Step
  PROVE  ForeignInv' /\ Spared
  <1>1. CASE \/ AdoptSync \/ SyncName \/ MkdirSync \/ QuarantineSync \/ PublishSync
             \/ RequarantineSync \/ UnpublishSync \/ ReinstateSync
    BY <1>1, ForeignSyncs
  <1>2. CASE Load \/ Discard \/ DiscardSync \/ Decide
    BY <1>2, ForeignLoad, ForeignDiscard, ForeignDecide
  <1>3. CASE Create \/ WriteTmp \/ SyncFile \/ Rename \/ SyncRename
    BY <1>3, ForeignCreate, ForeignSyncFile, ForeignRename, ForeignSyncRename
  <1>4. CASE MkdirStaging \/ MkdirQuarantine \/ Stage \/ Prepare
    BY <1>4, ForeignMkdir, ForeignStage, ForeignPrepare
  <1>5. CASE Quarantine \/ Publish
    BY <1>5, ForeignQuarantine, ForeignPublish
  <1>6. CASE \/ Rollback \/ RollbackSync \/ Requarantine \/ RequarantineMove
             \/ Unpublish \/ UnpublishRemove \/ Reinstate
    BY <1>6, ForeignRollback, ForeignRollbackSync, ForeignRequarantine, ForeignRequarantineMove,
       ForeignUnpublish, ForeignUnpublishRemove, ForeignReinstate
  <1>7. CASE Cleanup \/ Forget \/ ForgetSync
    BY <1>7, ForeignCleanup, ForeignForget, ForeignForgetSync
  <1>8. CASE Unwind \/ RemoveStaging \/ RemoveQuarantine \/ RemoveSync
    BY <1>8, ForeignUnwind, ForeignRemoval
  <1>9. CASE Fail \/ Abandon
    BY <1>9, ForeignFail, ForeignAbandon
  <1> QED
    BY <1>1, <1>2, <1>3, <1>4, <1>5, <1>6, <1>7, <1>8, <1>9 DEF Step

LEMMA ForeignNext ==
  ASSUME ForeignInv, ForeignApart, [Next]_vars
  PROVE  ForeignInv' /\ Spared
  <1>1. ASSUME NEW s \in Snapshots, Begin("restore", s) PROVE ForeignInv' /\ Spared
    BY <1>1, ForeignBegin, StateAssumption
  <1>2. CASE Begin("start", Empty) \/ Begin("backup", Empty)
    BY <1>2, ForeignBegin, EmptyFacts
  <1>3. CASE Step
    BY <1>3, ForeignStep
  <1>4. CASE Die \/ PowerLoss
    BY <1>4, ForeignDie, ForeignPowerLoss
  <1>5. CASE AgentWrites \/ AgentStops \/ Tamper
    BY <1>5, ForeignAgent, ForeignTamper
  <1>6. CASE UNCHANGED vars
    <2>1. Keep /\ disk' = disk /\ UNCHANGED <<session, serving>>
      BY <1>6 DEF vars, Keep
    <2>2. Watched' /\ Spared
      BY <2>1, WatchedStill DEF ForeignInv
    <2> QED
      BY <2>1, <2>2 DEF ForeignInv, Informed, Undeceived
  <1> QED
    BY <1>1, <1>2, <1>3, <1>4, <1>5, <1>6 DEF Next

\* Whoever writes, removes or creates state files under an interrupted restore or
\* while it is undone, and whatever crashes and fails meanwhile: what an agent
\* serves is what an agent left or a snapshot installed, and no step replaces or
\* removes a file that is in none of them and was there when the running undo last
\* listed the directory (removePublishedGeneration, reinstateOldGeneration,
\* assertExactLiveInventory).
THEOREM StrangersAreSafe == ForeignApart => (Spec => ForeignIsSafe)
  <1> SUFFICES ASSUME ForeignApart PROVE Spec => ForeignIsSafe
    OBVIOUS
  <1>1. Init => ForeignInv
    BY ForeignInit
  <1>2. ForeignInv /\ [Next]_vars => ForeignInv' /\ Spared
    BY ForeignNext
  <1>3. ForeignInv => NothingGuessed
    BY DEF ForeignInv, Watched, Owned, Undeceived, NothingGuessed, Known
  <1>4. ForeignInv /\ [Next]_vars =>
          [\A n \in Names \ session.late :
             disk.live[n] \in Foreign => disk'.live[n] = disk.live[n]]_vars
    BY <1>2 DEF Spared
  <1> QED
    BY <1>1, <1>2, <1>3, <1>4, PTL DEF Spec, ForeignIsSafe, ForeignKept

=============================================================================
