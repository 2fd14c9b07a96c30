----------------------------- MODULE Snapshots -----------------------------
(***************************************************************************)
(* Backups (state/backup.go, cli.go): publication of a snapshot directory, *)
(* its validation by a restore (manifest.go), and retention.               *)
(*                                                                         *)
(* Backups of one state directory exclude each other by the generation     *)
(* lock. Backups of two directories into one backup root meet only in the  *)
(* root: the claim of a timestamp, the rename that publishes, the removal  *)
(* of expired snapshots. A process may die at any step and any system call *)
(* may fail. Agents write meanwhile. Others may edit what is published.    *)
(*                                                                         *)
(* A staging directory is hidden: nothing reads it once its writer is gone,*)
(* so only its writer's view of it is kept. Digests do not collide.        *)
(*                                                                         *)
(* A definition Name_Fault is Name as a plausible slip would have left it;  *)
(* nothing uses it but a check that some property notices the slip.        *)
(***************************************************************************)
EXTENDS Integers, FiniteSets

CONSTANTS
  Databases,   \* databases
  Homes,       \* state directories, each with its generation lock
  Stamps,      \* snapshot timestamps, in time order
  Backups,     \* backup processes
  HomeOf,      \* worker -> the state directory it backs up
  Initial,     \* the sets of databases a state directory may hold at first
  Keeps,       \* what --keep or STATE_BACKUP_KEEP may say
  DefaultKeep,
  MaxVersion,  \* bound on the writes of the agents
  Edited       \* bound: the snapshots that somebody edits

None == -1        \* an absent file, an unset flag
Garbage == -2     \* what does not parse
Unsupported == MaxVersion + 1  \* a database of a newer binary
Contents == 0..(MaxVersion + 1)
Files == [Databases -> Contents \cup {None}]
Empty == [n \in Databases |-> None]
Present(files) == {n \in Databases : files[n] # None}

\* A timestamp orders the snapshots, and a directory has as many as it has.
SnapshotsAssumption ==
  /\ Stamps \subseteq Int /\ IsFiniteSet(Stamps) /\ Stamps # {}
  /\ HomeOf \in [Backups -> Homes]
  /\ Keeps \subseteq Int /\ DefaultKeep \in Int
  /\ MaxVersion \in Nat /\ Initial \subseteq Files /\ Edited \subseteq Stamps

VARIABLES
  live,    \* home -> its databases
  root,    \* stamp -> the visible directory of that name
  claims,  \* stamps with a .lock- directory
  work     \* worker -> the command it runs

snapVars == <<live, root, claims, work>>

\* A directory under the backup root. The marker carries the manifest's digest.
Directory == [exists: BOOLEAN, files: Files, manifest: Files,
              marker: {"none", "signed", "stale"},
              origin: Files]  \* the generation published (not in the program)
NoDirectory == [exists |-> FALSE, files |-> Empty, manifest |-> Empty,
                marker |-> "none", origin |-> Empty]
Published(files) == [exists |-> TRUE, files |-> files, manifest |-> files,
                     marker |-> "signed", origin |-> files]

Worker == [pc: {"idle", "lock", "check", "claim", "copy", "rename", "sync", "discard",
                "release", "survey", "prune", "remove"},
           keep: Int, stamp: Stamps, todo: SUBSET Databases, staged: Files,
           expired: SUBSET Stamps, failed: BOOLEAN]
IdleWorker == [pc |-> "idle", keep |-> None, stamp |-> CHOOSE s \in Stamps : TRUE,
               todo |-> {}, staged |-> Empty, expired |-> {}, failed |-> FALSE]

SnapshotsInit ==
  /\ live \in [Homes -> Initial]
  /\ root = [s \in Stamps |-> NoDirectory]
  /\ claims = {}
  /\ work = [w \in Backups |-> IdleWorker]

-----------------------------------------------------------------------------
(* What a restore accepts *)

\* validateInventory: marker and manifest are there and agree, the files are
\* exactly the inventory's, and each has the recorded digest and schema.
Accepted(d) ==
  /\ d.exists
  /\ d.marker = "signed"
  /\ Present(d.manifest) # {}
  /\ Present(d.files) = Present(d.manifest)
  /\ \A n \in Present(d.manifest) : d.files[n] = d.manifest[n] /\ d.files[n] # Unsupported

\* completedSnapshots: visible, a directory, with its marker.
Completed == {s \in Stamps : root[s].exists /\ root[s].marker # "none"}

-----------------------------------------------------------------------------
(* The command line, and the guards of BackupState *)

WorkAt(w, pc) == work[w].pc = pc
WorkGoto(w, pc) == work' = [work EXCEPT ![w].pc = pc]
Home(w) == HomeOf[w]

\* An error on the way: undo what the worker holds, innermost first.
FailWork(w, pc) == work' = [work EXCEPT ![w].pc = pc, ![w].failed = TRUE]
End(w) == work' = [work EXCEPT ![w] = IdleWorker]

\* resolveKeep: the flag, else the environment, else the default.
ResolveKeep(flag, env) ==
  IF flag # None THEN flag ELSE IF env = None THEN DefaultKeep ELSE env

\* Main, runBackup and the first guards: a rejected command touches nothing.
Invoke(w) ==
  /\ WorkAt(w, "idle")
  /\ \E flag \in Keeps \cup {None}, env \in Keeps \cup {None, Garbage}, s \in Stamps :
       LET keep == ResolveKeep(flag, env) IN
       IF keep <= 0
       THEN End(w)
       ELSE work' = [work EXCEPT ![w] = [IdleWorker EXCEPT !.pc = "lock", !.keep = keep,
                                                           !.stamp = s]]
  /\ UNCHANGED <<live, root, claims>>

InLock(w) == work[w].pc \notin {"idle", "lock"}

\* withRestoreLock: blocking, exclusive, one lock per state directory.
Lock(w) ==
  /\ WorkAt(w, "lock")
  /\ \A v \in Backups : Home(v) = Home(w) => ~InLock(v)
  /\ WorkGoto(w, "check")
  /\ UNCHANGED <<live, root, claims>>

-----------------------------------------------------------------------------
(* backupLocked and publishSnapshot *)

\* databaseFiles; a snapshot of that name is a refusal, whatever it holds.
CheckHome(w) ==
  /\ WorkAt(w, "check")
  /\ IF Present(live[Home(w)]) = {} \/ root[work[w].stamp].exists
     THEN End(w)
     ELSE work' = [work EXCEPT ![w].pc = "claim", ![w].todo = Present(live[Home(w)])]
  /\ UNCHANGED <<live, root, claims>>

\* The claim is a mkdir; a claim left by a dead process refuses for good.
Claim(w) ==
  /\ WorkAt(w, "claim")
  /\ IF work[w].stamp \in claims
     THEN End(w) /\ UNCHANGED claims
     ELSE WorkGoto(w, "copy") /\ claims' = claims \cup {work[w].stamp}
  /\ UNCHANGED <<live, root>>

\* copyDatabase, then inspectDatabase of the copy: VACUUM INTO is a snapshot of
\* one database, and the agent may write between two of them.
Copy(w) ==
  /\ WorkAt(w, "copy")
  /\ \E n \in work[w].todo :
       LET content == live[Home(w)][n] IN
       IF content = Unsupported
       THEN FailWork(w, "discard")
       ELSE work' = [work EXCEPT ![w].todo = work[w].todo \ {n}, ![w].staged[n] = content,
                       ![w].pc = IF work[w].todo = {n} THEN "rename" ELSE "copy"]
  /\ UNCHANGED <<live, root, claims>>

PublishSnapshot(w) ==
  /\ root' = [root EXCEPT ![work[w].stamp] = Published(work[w].staged)]
  /\ work' = [work EXCEPT ![w].pc = "sync", ![w].staged = Empty]

\* Manifest, marker and fsyncs of what is staged, and the rename: rename(2) does
\* not replace a directory that holds anything.
Rename(w) ==
  /\ WorkAt(w, "rename")
  /\ IF root[work[w].stamp] \in {NoDirectory, [NoDirectory EXCEPT !.exists = TRUE]}
     THEN PublishSnapshot(w)
     ELSE FailWork(w, "discard") /\ UNCHANGED root
  /\ UNCHANGED <<live, claims>>

\* fsync of the backup root. Its failure is an error of a published snapshot.
Sync(w) ==
  /\ WorkAt(w, "sync")
  /\ WorkGoto(w, "release") \/ FailWork(w, "release")
  /\ UNCHANGED <<live, root, claims>>

\* The deferred removal of a staging directory that was not published.
Discard(w) ==
  /\ WorkAt(w, "discard")
  /\ work' = [work EXCEPT ![w].pc = "release", ![w].staged = Empty]
  /\ UNCHANGED <<live, root, claims>>

\* The claim is given back on every path; only a published snapshot goes on.
Release(w) ==
  /\ WorkAt(w, "release")
  /\ IF work[w].failed THEN End(w) ELSE WorkGoto(w, "survey")
  /\ claims' = claims \ {work[w].stamp}
  /\ UNCHANGED <<live, root>>

-----------------------------------------------------------------------------
(* pruneSnapshots *)

Newer(s, set) == {t \in set : t > s}

Survey_KeepsOneLess(w) ==
  /\ WorkAt(w, "survey")
  /\ work' = [work EXCEPT ![w].pc = "prune",
       ![w].expired = {s \in Completed : Cardinality(Newer(s, Completed)) >= work[w].keep - 1}]
  /\ UNCHANGED <<live, root, claims>>

\* The newest `keep` completed snapshots by name survive this listing.
Survey(w) ==
  /\ WorkAt(w, "survey")
  /\ work' = [work EXCEPT ![w].pc = "prune",
       ![w].expired = {s \in Completed : Cardinality(Newer(s, Completed)) >= work[w].keep}]
  /\ UNCHANGED <<live, root, claims>>

\* The expired ones go in order, newest first.
Prune(w) ==
  /\ WorkAt(w, "prune")
  /\ IF work[w].expired = {}
     THEN End(w)
     ELSE WorkGoto(w, "remove")
  /\ UNCHANGED <<live, root, claims>>

Expiring(w) == CHOOSE s \in work[w].expired : Newer(s, work[w].expired) = {}

\* os.RemoveAll: the entries one by one, as the directory lists them, then the
\* directory, which may be gone already.
RemoveSnapshot(w) ==
  /\ WorkAt(w, "remove")
  /\ LET s == Expiring(w)
         d == root[s]
         next == [work EXCEPT ![w].pc = "prune", ![w].expired = work[w].expired \ {s}]
     IN \/ \E n \in Present(d.files) :
             root' = [root EXCEPT ![s].files[n] = None] /\ UNCHANGED work
        \/ /\ d.marker # "none"
           /\ root' = [root EXCEPT ![s].marker = "none"]
           /\ UNCHANGED work
        \/ /\ Present(d.manifest) # {}
           /\ root' = [root EXCEPT ![s].manifest = Empty, ![s].origin = Empty]
           /\ UNCHANGED work
        \/ /\ d.exists /\ d = [NoDirectory EXCEPT !.exists = TRUE]
           /\ root' = [root EXCEPT ![s] = NoDirectory]
           /\ work' = next
        \/ ~d.exists /\ work' = next /\ UNCHANGED root
  /\ UNCHANGED <<live, claims>>

-----------------------------------------------------------------------------
(* Failures, and everybody else *)

\* A system call fails before it changes anything; a claim may stay behind.
Fault(w) ==
  /\ \/ work[w].pc \in {"check", "claim", "release", "survey", "remove"} /\ End(w)
     \/ work[w].pc \in {"copy", "rename"} /\ FailWork(w, "discard")
  /\ UNCHANGED <<live, root, claims>>

\* The process dies: the flock goes with it, the claim stays.
WorkerDies(w) ==
  /\ InLock(w)
  /\ work' = [work EXCEPT ![w] = IdleWorker]
  /\ UNCHANGED <<live, root, claims>>

\* A serving agent commits to a database.
AgentWrites(h, n) ==
  /\ live[h][n] \in 0..(MaxVersion - 1)
  /\ live' = [live EXCEPT ![h][n] = live[h][n] + 1]
  /\ UNCHANGED <<root, claims, work>>

\* A database or the manifest of a published snapshot is edited by hand.
Edit(s) ==
  /\ root[s].exists
  /\ \/ \E n \in Present(root[s].files), c \in {0, None} : root' = [root EXCEPT ![s].files[n] = c]
     \/ /\ root[s].marker = "signed" /\ Present(root[s].manifest) # {}
        /\ root' = [root EXCEPT ![s].manifest = root[s].files, ![s].marker = "stale"]
  /\ UNCHANGED <<live, claims, work>>

SnapshotsNext ==
  \/ \E w \in Backups :
       \/ Invoke(w) \/ Lock(w) \/ CheckHome(w) \/ Claim(w) \/ Copy(w)
       \/ Rename(w) \/ Sync(w) \/ Discard(w) \/ Release(w)
       \/ Survey(w) \/ Prune(w) \/ RemoveSnapshot(w) \/ Fault(w) \/ WorkerDies(w)
  \/ \E h \in Homes, n \in Databases : AgentWrites(h, n)
  \/ \E s \in Edited : Edit(s)

SnapshotsSpec == SnapshotsInit /\ [][SnapshotsNext]_snapVars

-----------------------------------------------------------------------------
(* What must hold *)

\* What a restore accepts is a generation some backup published under that
\* name, whole: never a part of one that is being pruned, nor what an edit,
\* a dead writer or two writers of one name left.
AcceptedWasPublished ==
  \A s \in Stamps : Accepted(root[s]) => root[s].files = root[s].origin

\* Whatever backups run, die and prune at once, a published snapshot never turns
\* into another, and the newest one is not pruned: as soon as there was one
\* snapshot there is one.
PublishedKept ==
  \A s \in Completed :
    /\ root'[s].marker = "signed" => root'[s].manifest \in {root[s].manifest, Empty}
    /\ Newer(s, Completed) = {} => s \in Completed'

\* What a restore accepts was published as it is, and the newest is kept.
SnapshotsHold == [][AcceptedWasPublished' /\ PublishedKept]_snapVars
=============================================================================
