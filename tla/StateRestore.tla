---------------------------- MODULE StateRestore ----------------------------
(***************************************************************************)
(* The state package's restore transaction and its crash recovery:         *)
(* RestoreState, publishRestore, unwindRestore, writeRestoreJournal,       *)
(* recoverRestoreLocked, rollbackRestore, cleanupRestoreTransaction.       *)
(*                                                                         *)
(* One session at a time holds the generation lock (flock): a restore, the *)
(* recovery an agent runs before it serves, or a backup. Each step of a    *)
(* session is one system call that changes the disk, or one fsync. Between *)
(* any two the process may die or the machine lose power, and any step may *)
(* fail instead, without limit.                                            *)
(*                                                                         *)
(* The file system renames atomically and loses, in a power loss, a suffix *)
(* of the directory changes made since the last directory fsync: `window`  *)
(* holds every disk a power loss now can leave. A file that was written    *)
(* but not fsynced may also lose its content. SHA-256 never collides, so   *)
(* evidence of a file is its content.                                      *)
(*                                                                         *)
(* A definition Name_Fault is Name as a plausible slip would have left it;  *)
(* nothing uses it but a check that some property notices the slip.        *)
(*                                                                         *)
(* Loops over files take them in any order; the code's is the directory's. *)
(***************************************************************************)
EXTENDS FiniteSets

CONSTANTS
  Names,       \* state file names: databases and their sidecars
  Contents,    \* what a file can hold
  Absent,      \* no file of that name
  Generations, \* what an agent may leave in the state directory
  Snapshots,   \* the database inventories of the valid snapshots
  IOFailures,  \* whether system calls may fail
  Foreign      \* what somebody else may write over a state file

Files == [Names -> Contents \cup {Absent}]
Empty == [n \in Names |-> Absent]

ASSUME StateAssumption ==
  /\ Absent \notin Contents
  /\ Generations \subseteq Files
  /\ Snapshots \subseteq Files \ {Empty}  \* validateInventory refuses an empty one
  /\ IOFailures \in BOOLEAN
  /\ Foreign \subseteq Contents

VARIABLES
  disk,    \* the state directory as running processes see it
  window,  \* every state directory a power loss now could leave
  session, \* the holder of the generation lock
  serving, \* an agent has the directory open
  result   \* how the last session ended

vars == <<disk, window, session, serving, result>>

Phases == {"none", "torn", "prepared", "rolling_back", "committed"}

\* A restore journal, or its temporary; synced when its content is durable.
Journal == [phase: Phases, old: Files, new: Files, synced: BOOLEAN]
NoJournal == [phase |-> "none", old |-> Empty, new |-> Empty, synced |-> TRUE]
Torn == [NoJournal EXCEPT !.phase = "torn"]

Directory == {d \in [exists: BOOLEAN, files: Files] : d.exists \/ d.files = Empty}
NoDirectory == [exists |-> FALSE, files |-> Empty]

Disk == [live: Files, staging: Directory, quarantine: Directory,
         tmp: Journal, journal: Journal]

Jobs == {"none", "restore", "start", "backup"}
Modes == {"idle", "recovering", "publishing", "unwinding"}
Steps == {"idle", "load", "adopt_sync", "discard", "discard_sync", "decide",
  "mkdir_staging", "mkdir_quarantine", "mkdir_sync", "stage", "prepare",
  "create", "write", "sync_file", "sync_name", "rename", "sync_rename", "abandon",
  "quarantine", "quarantine_sync", "publish", "publish_sync",
  "rollback", "rollback_sync", "requarantine", "requarantine_move", "requarantine_sync",
  "unpublish", "unpublish_remove", "unpublish_sync", "reinstate", "reinstate_sync",
  "cleanup", "cleanup_sync", "forget", "forget_sync",
  "unwind", "remove_staging", "remove_quarantine", "remove_sync"}

Session == [pc: Steps, mode: Modes, job: Jobs, snapshot: Files,
            mem: Journal,    \* the *restoreJournal in hand; NoJournal is nil
            draft: Journal,  \* the journal writeRestoreJournal is writing
            \* A loop of rollbackRestore: the state files as it listed them, the
            \* names it has not come to, the one whose evidence it just read, and
            \* (history) those somebody else has written or removed since it began.
            listed: SUBSET Names, todo: SUBSET Names, checked: SUBSET Names,
            late: SUBSET Names]

Idle == [pc |-> "idle", mode |-> "idle", job |-> "none", snapshot |-> Empty,
         mem |-> NoJournal, draft |-> NoJournal,
         listed |-> {}, todo |-> {}, checked |-> {}, late |-> {}]

Result == [job: Jobs, is: {"none", "ok", "failed", "refused"}]

TypeOK ==
  /\ disk \in Disk
  /\ window \subseteq Disk /\ disk \in window
  /\ session \in Session
  /\ serving \in BOOLEAN
  /\ result \in Result

Init ==
  /\ disk \in {[live |-> g, staging |-> NoDirectory, quarantine |-> NoDirectory,
                tmp |-> NoJournal, journal |-> NoJournal] : g \in Generations}
  /\ window = {disk}
  /\ session = Idle
  /\ serving = FALSE
  /\ result = [job |-> "none", is |-> "none"]

-----------------------------------------------------------------------------
(* Evidence *)

Present(files) == {n \in Names : files[n] # Absent}

\* requireEvidence, matchesEvidence: the file is there, and is as recorded.
Matches(files, n, inventory) == files[n] # Absent /\ files[n] = inventory[n]

\* validateResidue: only recorded files, each as recorded.
Within(files, inventory) == \A n \in Present(files) : files[n] = inventory[n]

\* requireCompleteGeneration: every recorded file is held, or live as recorded.
Complete(inventory, held, live) ==
  \A n \in Present(inventory) : held[n] # Absent \/ live[n] = inventory[n]

\* validateLiveSubset: every live file is one of the two generations'.
LiveSubset(live, j) == \A n \in Present(live) : live[n] \in {j.old[n], j.new[n]}

RollbackEvidence(d, j) ==
  /\ Within(d.staging.files, j.new)
  /\ Within(d.quarantine.files, j.old)
  /\ LiveSubset(d.live, j)
  /\ Complete(j.old, d.quarantine.files, d.live)

ForwardEvidence(d, j) ==
  /\ d.staging.exists
  /\ d.quarantine.exists
  /\ RollbackEvidence(d, j)
  /\ Complete(j.new, d.staging.files, d.live)

\* recoverCommitted: residue is explained and the new generation is live.
CommittedEvidence(d, j) ==
  /\ Within(d.staging.files, j.new)
  /\ Within(d.quarantine.files, j.old)
  /\ d.live = j.new

\* adoptInitialRestoreJournal: nothing was published yet.
InitialEvidence(d) ==
  /\ d.tmp.phase = "prepared"
  /\ d.staging.exists
  /\ d.staging.files = d.tmp.new
  /\ d.quarantine = [exists |-> TRUE, files |-> Empty]
  /\ d.live = d.tmp.old

\* restoreArtifacts, the durable journal excepted.
Residue(d) == d.staging.exists \/ d.quarantine.exists \/ d.tmp.phase # "none"

-----------------------------------------------------------------------------
(* Steps *)

At(pc) == session.pc = pc
Goto(pc) == session' = [session EXCEPT !.pc = pc]

Change(d) == disk' = d /\ window' = window \cup {d}
Keep == UNCHANGED <<disk, window>>

\* fsyncDir: every directory change made so far is durable.
FsyncDir == window' = {disk} /\ UNCHANGED disk

Put(files, n, content) == [files EXCEPT ![n] = content]
Drop(files, n) == Put(files, n, Absent)

\* The session ends and releases the lock.
End(is) ==
  /\ session' = Idle
  /\ result' = [job |-> session.job, is |-> is]

\* Recovery found nothing left to do, or has done it.
Recovered ==
  CASE session.job = "restore" ->
         /\ session' = [session EXCEPT !.pc = "mkdir_staging", !.mode = "publishing",
                                       !.mem = NoJournal]
         /\ UNCHANGED <<serving, result>>
    [] session.job = "start"  -> serving' = TRUE /\ End("ok")
    [] session.job = "backup" -> End("ok") /\ UNCHANGED serving

\* A refused piece of evidence, like any failure, unwinds a publication and
\* ends a recovery or an unwind.
Refuse ==
  /\ Keep
  /\ UNCHANGED serving
  /\ IF session.mode = "publishing"
     THEN session' = [session EXCEPT !.pc = "unwind", !.mode = "unwinding"] /\ UNCHANGED result
     ELSE End("refused")

\* The error is returned: to publishRestore's deferred unwind, or to the caller.
Raise ==
  IF session.mode = "publishing" /\ session.pc # "mkdir_staging"
  THEN /\ session' = [session EXCEPT !.pc = "unwind", !.mode = "unwinding",
                                     !.draft = NoJournal]
       /\ UNCHANGED result
  ELSE End("failed")

\* The caller of setRestorePhase: advance the journal in hand, durably.
SetPhase(phase) ==
  session' = [session EXCEPT !.pc = "discard",
                !.draft = [session.mem EXCEPT !.phase = phase, !.synced = FALSE]]

Local == UNCHANGED <<serving, result>>

\* Step from pc to next: fsyncing the directory, or changing the disk to d.
Fsync(pc, next) == At(pc) /\ FsyncDir /\ Goto(next) /\ Local
Do(pc, d, next) == At(pc) /\ Change(d) /\ Goto(next) /\ Local

-----------------------------------------------------------------------------
(* The lock and the recovery decision *)

\* The lock is taken; a restore has validated its snapshot first. Writers must
\* be stopped before a restore: the operator's duty, which no process checks.
Begin(job, snapshot) ==
  /\ At("idle")
  /\ job \in {"restore", "start"} => ~serving
  /\ session' = [Idle EXCEPT !.pc = "load", !.mode = "recovering", !.job = job,
                             !.snapshot = snapshot]
  /\ result' = [job |-> "none", is |-> "none"]
  /\ UNCHANGED <<disk, window, serving>>

\* loadRestoreJournal, restoreArtifacts, adoptInitialRestoreJournal.
Load ==
  /\ At("load")
  /\ \/ disk.journal.phase = "none" /\ ~Residue(disk) /\ Recovered /\ Keep
     \/ /\ disk.journal.phase = "none" /\ Residue(disk) /\ InitialEvidence(disk)
        /\ Change([disk EXCEPT !.journal = disk.tmp, !.tmp = NoJournal])
        /\ session' = [session EXCEPT !.pc = "adopt_sync", !.mem = disk.tmp]
        /\ Local
     \/ /\ disk.journal.phase = "none" /\ Residue(disk) /\ ~InitialEvidence(disk)
        /\ Refuse
     \/ disk.journal.phase = "torn" /\ Refuse
     \/ /\ disk.journal.phase \notin {"none", "torn"}
        /\ session' = [session EXCEPT !.pc = "discard", !.mem = disk.journal]
        /\ Keep /\ Local

AdoptSync == Fsync("adopt_sync", "discard")

\* discardOwnedJournalTemporary, called by recovery and by setRestorePhase; the
\* latter then sets journal.Phase, before anything of it is written.
Discarded ==
  IF session.draft = NoJournal
  THEN Goto("decide")
  ELSE session' = [session EXCEPT !.pc = "create", !.mem = session.draft]

Discard ==
  /\ At("discard")
  /\ Local
  /\ \/ disk.tmp = NoJournal /\ Keep /\ Discarded
     \/ /\ disk.tmp # NoJournal
        /\ Change([disk EXCEPT !.tmp = NoJournal])
        /\ Goto("discard_sync")

DiscardSync == At("discard_sync") /\ FsyncDir /\ Discarded /\ Local

Evidence_StagingForRollback(d, j) ==
  IF j.phase = "committed" THEN CommittedEvidence(d, j) ELSE ForwardEvidence(d, j)

\* The evidence each phase must show before recovery acts on it.
Evidence(d, j) ==
  CASE j.phase = "committed"    -> CommittedEvidence(d, j)
    [] j.phase = "prepared"     -> ForwardEvidence(d, j)
    [] j.phase = "rolling_back" -> RollbackEvidence(d, j)

Decide_AlwaysAdvances ==
  /\ At("decide")
  /\ IF Evidence(disk, session.mem)
     THEN /\ Keep /\ Local
          /\ IF session.mem.phase = "committed" THEN Goto("cleanup") ELSE SetPhase("rolling_back")
     ELSE Refuse

Decide_PreparedRollsForward ==
  /\ At("decide")
  /\ IF Evidence(disk, session.mem)
     THEN Goto(IF session.mem.phase = "rolling_back" THEN "rollback" ELSE "cleanup")
          /\ Keep /\ Local
     ELSE Refuse

\* Committed rolls forward; prepared and rolling_back roll back.
Decide ==
  /\ At("decide")
  /\ IF Evidence(disk, session.mem)
     THEN /\ Keep /\ Local
          /\ CASE session.mem.phase = "committed"    -> Goto("cleanup")
               [] session.mem.phase = "prepared"     -> SetPhase("rolling_back")
               [] session.mem.phase = "rolling_back" -> Goto("rollback")
     ELSE Refuse

-----------------------------------------------------------------------------
(* writeRestoreJournal *)

Create ==
  /\ disk.tmp = NoJournal  \* O_EXCL
  /\ Do("create", [disk EXCEPT !.tmp = Torn], "write")

WriteTmp == Do("write", [disk EXCEPT !.tmp = session.draft], "sync_file")

\* The file's own fsync makes its content durable, not its name.
SyncFile ==
  LET Written(d) == IF d.tmp = NoJournal THEN d
                    ELSE [d EXCEPT !.tmp = [session.draft EXCEPT !.synced = TRUE]]
  IN /\ At("sync_file")
     /\ disk' = Written(disk)
     /\ window' = {Written(d) : d \in window}
     /\ Goto("sync_name") /\ Local

SyncName == Fsync("sync_name", "rename")

\* From here on the transaction can be recovered from disk.
Rename ==
  /\ At("rename")
  /\ Change([disk EXCEPT !.journal = disk.tmp, !.tmp = NoJournal])
  /\ session' = [session EXCEPT !.pc = "sync_rename", !.mem = disk.tmp,
                                !.draft = NoJournal]
  /\ Local

SyncRename_NotSynced ==
  /\ At("sync_rename") /\ Keep /\ Local
  /\ CASE session.mem.phase = "prepared"  -> Goto("quarantine")
       [] session.mem.phase = "committed" -> Goto("cleanup")
       [] session.mem.phase = "rolling_back" ->
            Goto(IF session.mode = "unwinding" THEN "decide" ELSE "rollback")

\* An unwind validates the evidence once more before it rolls back.
SyncRename ==
  /\ At("sync_rename") /\ FsyncDir /\ Local
  /\ CASE session.mem.phase = "prepared"  -> Goto("quarantine")
       [] session.mem.phase = "committed" -> Goto("cleanup")
       [] session.mem.phase = "rolling_back" ->
            Goto(IF session.mode = "unwinding" THEN "decide" ELSE "rollback")

-----------------------------------------------------------------------------
(* publishRestore *)

MkdirStaging ==
  Do("mkdir_staging", [disk EXCEPT !.staging = [NoDirectory EXCEPT !.exists = TRUE]],
     "mkdir_quarantine")

MkdirQuarantine ==
  Do("mkdir_quarantine", [disk EXCEPT !.quarantine = [NoDirectory EXCEPT !.exists = TRUE]],
     "mkdir_sync")

MkdirSync == Fsync("mkdir_sync", "stage")

\* stageGeneration: copy and verify each database, then fsync the directory.
Stage ==
  \/ \E n \in Present(session.snapshot) \ Present(disk.staging.files) :
       Do("stage", [disk EXCEPT !.staging.files = Put(@, n, session.snapshot[n])], "stage")
  \/ /\ disk.staging.files = session.snapshot
     /\ Fsync("stage", "prepare")

\* newRestoreJournal; it stays a draft, and the journal nil, until it is durable.
Prepare ==
  /\ At("prepare")
  /\ session' = [session EXCEPT !.pc = "create",
       !.draft = [phase |-> "prepared", old |-> disk.live, new |-> session.snapshot,
                  synced |-> FALSE]]
  /\ Keep /\ Local

\* quarantineCurrentGeneration, fsyncing both directories after each file.
Quarantine ==
  \/ \E n \in Present(disk.live) :
       Do("quarantine", [disk EXCEPT !.quarantine.files = Put(@, n, disk.live[n]),
                                     !.live = Drop(@, n)], "quarantine_sync")
  \/ At("quarantine") /\ disk.live = Empty /\ Goto("publish") /\ Keep /\ Local

QuarantineSync == Fsync("quarantine_sync", "quarantine")

\* publishStagedDatabases, then assertExactLiveInventory and the commit.
Publish ==
  \/ \E n \in Present(disk.staging.files) :
       Do("publish", [disk EXCEPT !.live = Put(@, n, disk.staging.files[n]),
                                  !.staging.files = Drop(@, n)], "publish_sync")
  \/ /\ At("publish") /\ disk.staging.files = Empty
     /\ IF disk.live = session.mem.new
        THEN SetPhase("committed") /\ Keep /\ Local
        ELSE Refuse

PublishSync == Fsync("publish_sync", "publish")

-----------------------------------------------------------------------------
(* rollbackRestore *)

Rollback ==
  Do("rollback", [disk EXCEPT !.quarantine.exists = TRUE], "rollback_sync")

\* A loop over state files begins; one that lists them sees what came until then.
Loop(pc, listed, todo, late) ==
  session' = [session EXCEPT !.pc = pc, !.listed = listed, !.todo = todo, !.checked = {},
                             !.late = late]

\* It comes to a file and reads its evidence; what it does with the file is next.
Look(n, next, checked) ==
  /\ session' = [session EXCEPT !.pc = next, !.todo = @ \ {n}, !.checked = checked]
  /\ Keep /\ Local

RollbackSync_StraightToUnpublish ==
  At("rollback_sync") /\ FsyncDir /\ Loop("unpublish", {}, Present(disk.live), {}) /\ Local

RollbackSync ==
  /\ At("rollback_sync") /\ FsyncDir /\ Local
  /\ Loop("requarantine", Present(disk.live), Present(session.mem.old), {})

\* quarantineOldGeneration: a file already there is verified again, any other
\* must have been listed.
Requarantine ==
  LET held == Present(disk.quarantine.files)  old == session.mem.old
  IN /\ At("requarantine")
     /\ \/ \E n \in session.todo \cap held :
             IF Matches(disk.quarantine.files, n, old)
             THEN Look(n, "requarantine", {}) ELSE Refuse
        \/ \E n \in session.todo \ held :
             IF n \in session.listed /\ Matches(disk.live, n, old)
             THEN Look(n, "requarantine_move", {n}) ELSE Refuse
        \/ /\ session.todo = {} /\ Keep /\ Local
           /\ Loop("unpublish", {}, Present(disk.live), {})

\* It moves whatever has that name now.
RequarantineMove ==
  \E n \in session.checked :
    \/ /\ disk.live[n] # Absent
       /\ Do("requarantine_move",
             [disk EXCEPT !.quarantine.files = Put(@, n, disk.live[n]), !.live = Drop(@, n)],
             "requarantine_sync")
    \/ At("requarantine_move") /\ disk.live[n] = Absent /\ Raise /\ Keep /\ UNCHANGED serving

RequarantineSync == Fsync("requarantine_sync", "requarantine")

Unpublish_Unchecked ==
  /\ At("unpublish")
  /\ \/ \E n \in session.todo : Look(n, "unpublish_remove", {n})
     \/ /\ session.todo = {} /\ Keep /\ Local
        /\ Loop("reinstate", {}, Present(session.mem.old), session.late)

\* removePublishedGeneration: the files listed when it began, each as recorded of
\* the new generation; what came later it does not see.
Unpublish ==
  /\ At("unpublish")
  /\ \/ \E n \in session.todo :
          IF Matches(disk.live, n, session.mem.new)
          THEN Look(n, "unpublish_remove", {n}) ELSE Refuse
     \/ /\ session.todo = {} /\ Keep /\ Local
        /\ Loop("reinstate", {}, Present(session.mem.old), session.late)

\* It removes whatever has that name now.
UnpublishRemove ==
  \E n \in session.checked :
    \/ /\ disk.live[n] # Absent
       /\ Do("unpublish_remove", [disk EXCEPT !.live = Drop(@, n)], "unpublish_sync")
    \/ At("unpublish_remove") /\ disk.live[n] = Absent /\ Raise /\ Keep /\ UNCHANGED serving

UnpublishSync == Fsync("unpublish_sync", "unpublish")

\* reinstateOldGeneration: nobody else writes the quarantine, so its evidence and
\* its rename are one step, and the rename replaces whatever is live. Then
\* assertExactLiveInventory.
Reinstate ==
  /\ At("reinstate")
  /\ \/ \E n \in session.todo :
          IF Matches(disk.quarantine.files, n, session.mem.old)
          THEN /\ Change([disk EXCEPT !.live = Put(@, n, disk.quarantine.files[n]),
                                      !.quarantine.files = Drop(@, n)])
               /\ session' = [session EXCEPT !.pc = "reinstate_sync", !.todo = @ \ {n}]
               /\ Local
          ELSE Refuse
     \/ /\ session.todo = {}
        /\ IF disk.live = session.mem.old
           THEN Loop("cleanup", {}, {}, {}) /\ Keep /\ Local ELSE Refuse

ReinstateSync == Fsync("reinstate_sync", "reinstate")

-----------------------------------------------------------------------------
(* cleanupRestoreTransaction and unwindRestore *)

\* os.RemoveAll of one directory, a file at a time.
RemoveAll(pc, directory) ==
  \/ \E n \in Present(disk[directory].files) :
       Do(pc, [disk EXCEPT ![directory].files = Drop(@, n)], pc)
  \/ /\ disk[directory] = [exists |-> TRUE, files |-> Empty]
     /\ Do(pc, [disk EXCEPT ![directory] = NoDirectory], pc)

\* Both directories, any temporary, and an fsync of the state directory.
Cleanup ==
  \/ RemoveAll("cleanup", "staging")
  \/ ~disk.staging.exists /\ RemoveAll("cleanup", "quarantine")
  \/ /\ At("cleanup") /\ ~disk.staging.exists /\ ~disk.quarantine.exists
     /\ disk' = [disk EXCEPT !.tmp = NoJournal]
     /\ window' = {disk'}
     /\ Goto("forget") /\ Local

\* The durable journal goes last.
Forget ==
  /\ disk.journal # NoJournal
  /\ Do("forget", [disk EXCEPT !.journal = NoJournal], "forget_sync")

\* The transaction is over: its recovery continues, its restore succeeds, its
\* unwind returns the failure it began with.
ForgetSync ==
  /\ At("forget_sync")
  /\ FsyncDir
  /\ \/ session.mode = "recovering" /\ Recovered
     \/ session.mode = "publishing" /\ End("ok") /\ UNCHANGED serving
     \/ session.mode = "unwinding" /\ End("failed") /\ UNCHANGED serving

\* What the journal in hand, not the one on disk, says can be undone.
Unwind ==
  /\ At("unwind")
  /\ Keep
  /\ CASE session.mem.phase = "none"      -> Goto("remove_staging") /\ Local
       [] session.mem.phase = "committed" -> End("failed") /\ UNCHANGED serving
       [] session.mem.phase = "prepared"  -> SetPhase("rolling_back") /\ Local

RemoveStaging ==
  \/ RemoveAll("remove_staging", "staging")
  \/ At("remove_staging") /\ ~disk.staging.exists
     /\ Goto("remove_quarantine") /\ Keep /\ Local

RemoveQuarantine ==
  \/ RemoveAll("remove_quarantine", "quarantine")
  \/ At("remove_quarantine") /\ ~disk.quarantine.exists
     /\ Goto("remove_sync") /\ Keep /\ Local

RemoveSync == At("remove_sync") /\ FsyncDir /\ End("failed") /\ UNCHANGED serving

-----------------------------------------------------------------------------
(* Failures *)

\* The step at hand fails and changes nothing. Before its rename a journal write
\* removes its temporary; the removal of unjournaled residue carries on.
Fail ==
  /\ IOFailures
  /\ session.pc \notin {"idle", "unwind"}
  /\ Keep /\ UNCHANGED serving
  /\ CASE session.pc \in {"write", "sync_file", "sync_name", "rename"} ->
            Goto("abandon") /\ UNCHANGED result
       [] session.pc = "remove_staging"    -> Goto("remove_quarantine") /\ UNCHANGED result
       [] session.pc = "remove_quarantine" -> Goto("remove_sync") /\ UNCHANGED result
       [] OTHER -> Raise

\* writeRestoreJournal's deferred removal.
Abandon ==
  /\ At("abandon")
  /\ Change([disk EXCEPT !.tmp = NoJournal])
  /\ Raise /\ UNCHANGED serving

\* The lock holder dies; the lock goes with it, the disk stays as it is.
Die ==
  /\ ~At("idle")
  /\ session' = Idle
  /\ result' = [job |-> "none", is |-> "none"]
  /\ UNCHANGED <<disk, window, serving>>

\* What is left of a journal file that may not have been fsynced.
Survivors(j) == IF j.synced THEN {j} ELSE {j, Torn}

PowerLoss ==
  /\ \E d \in window : \E j \in Survivors(d.journal), t \in Survivors(d.tmp) :
       disk' = [d EXCEPT !.journal = j, !.tmp = t]
  /\ window' = {disk'}
  /\ session' = Idle
  /\ serving' = FALSE
  /\ result' = [job |-> "none", is |-> "none"]

-----------------------------------------------------------------------------
(* The agent *)

\* A committed SQLite write, or the sidecars of an open or closed database.
AgentWrites ==
  /\ serving
  /\ \E g \in Generations : disk' = [disk EXCEPT !.live = g]
  /\ window' = {disk'}
  /\ UNCHANGED <<session, serving, result>>

AgentStops ==
  /\ serving
  /\ serving' = FALSE
  /\ UNCHANGED <<disk, window, session, result>>

\* Somebody who does not take the lock replaces, removes or creates a state file,
\* durably, while a transaction is interrupted or is being undone, at any point of
\* the loops of rollbackRestore. What comes after the last look at the state files
\* (a publication's, or assertExactLiveInventory) has no defence.
Tamper ==
  /\ Foreign # {}
  /\ disk.journal.phase \notin {"none", "torn"}
  /\ session.pc \in {"idle", "requarantine", "requarantine_move", "unpublish",
                    "unpublish_remove", "reinstate"}
  /\ \E n \in Names, content \in Foreign \cup {Absent} :
       /\ disk.live[n] \notin Foreign
       /\ disk' = [disk EXCEPT !.live = Put(@, n, content)]
       /\ session' = IF At("idle") THEN session ELSE [session EXCEPT !.late = @ \cup {n}]
  /\ window' = {disk'}
  /\ UNCHANGED <<serving, result>>

-----------------------------------------------------------------------------

Step ==
  \/ Load \/ AdoptSync \/ Discard \/ DiscardSync \/ Decide
  \/ Create \/ WriteTmp \/ SyncFile \/ SyncName \/ Rename \/ SyncRename
  \/ MkdirStaging \/ MkdirQuarantine \/ MkdirSync \/ Stage \/ Prepare
  \/ Quarantine \/ QuarantineSync \/ Publish \/ PublishSync
  \/ Rollback \/ RollbackSync \/ Requarantine \/ RequarantineMove \/ RequarantineSync
  \/ Unpublish \/ UnpublishRemove \/ UnpublishSync \/ Reinstate \/ ReinstateSync
  \/ Cleanup \/ Forget \/ ForgetSync
  \/ Unwind \/ RemoveStaging \/ RemoveQuarantine \/ RemoveSync
  \/ Fail \/ Abandon

Next ==
  \/ \E s \in Snapshots : Begin("restore", s)
  \/ Begin("start", Empty) \/ Begin("backup", Empty)
  \/ Step \/ Die \/ PowerLoss
  \/ AgentWrites \/ AgentStops \/ Tamper

\* The holder of the lock keeps running, or dies.
Spec == Init /\ [][Next]_vars /\ WF_vars(Step)

-----------------------------------------------------------------------------
(* Properties *)

\* The generation a recovery of d ends with, were it to run now.
Outcome(d) ==
  CASE d.journal.phase = "committed" -> d.journal.new
    [] d.journal.phase \in {"prepared", "rolling_back"} -> d.journal.old
    [] OTHER -> d.live

\* A commit counts once no power loss can take it back.
Generation ==
  IF \A d \in window : d.journal.phase = "prepared" => disk.journal.phase # "committed"
  THEN Outcome(disk)
  ELSE disk.journal.old

Promise == INSTANCE StateGeneration WITH generation <- Generation

\* "A crash at any point leaves either the complete old generation or the
\* complete new generation, never a mix" (package doc), and only an agent or a
\* commit ever changes which one it is.
OneGeneration == Promise!Spec

\* Whatever a power loss leaves, a journal it leaves is one that recovery can
\* act on: the old generation is complete until the commit is durable, the new
\* one is complete and live from then on, at every step of either direction.
JournalActionable ==
  /\ TypeOK
  /\ \A d \in window : d.journal.phase \notin {"none", "torn"} => Evidence(d, d.journal)

\* "The journal is durable before the first live-state mutation" (package doc).
JournalBeforeMutation ==
  [][~serving /\ disk'.live # disk.live =>
       \A d \in window : d.journal.phase \notin {"none", "torn"}]_vars

\* Recovery refuses only what never reached publication: no file has moved and
\* an operator loses nothing by removing the residue.
RefusalIsHarmless ==
  result.is = "refused" =>
    /\ disk.journal.phase \in {"none", "torn"}
    /\ disk.quarantine.files = Empty

\* An agent serves, and a new transaction begins, only on a directory with no
\* trace of an earlier transaction.
RecoveredIsClean ==
  serving \/ At("mkdir_staging") => disk.journal = NoJournal /\ ~Residue(disk)

\* After a refusal nothing is lost, and without one nothing is left.
RecoveryIsWhole == RefusalIsHarmless /\ RecoveredIsClean

\* "Recovery refuses to guess" (package doc): whatever was done to the state
\* files meanwhile, up to the last look recovery takes at them, an agent serves a
\* generation somebody left or installed.
NothingGuessed == serving => disk.live \in Generations \cup Snapshots

\* Bytes that match no recorded generation are somebody else's data, and rollback
\* refuses to remove them (removePublishedGeneration), which it can do of the
\* files that were there when its loop began. A file that came later, under a name
\* the loop has dealt with, is replaced by the one that is reinstated there.
ForeignKept ==
  [][\A n \in Names \ session.late :
       disk.live[n] \in Foreign => disk'.live[n] = disk.live[n]]_vars

\* A mix with what somebody else wrote is never served, and what was there when
\* the undo looked is never removed.
ForeignIsSafe == []NothingGuessed /\ ForeignKept

\* The lock is always released: every loop of a rollback, a cleanup or an
\* unwind ends, however many crashes and failures came before.
SessionsEnd == ~At("idle") ~> At("idle")

\* RestoreState (restore.go:68): "a crash at any point leaves a journal the next
\* recovery can act on".
CrashLeavesAJournal == result.is # "refused"

\* RestoreState (restore.go:67): "A failure at any point after the journal
\* exists rolls back to the byte-exact old generation".
FailureRollsBack ==
  result = [job |-> "restore", is |-> "failed"] => disk.journal.phase # "committed"

\* unwindRestore (restore.go:322): "The generation is published and the journal
\* says so".
JournalSaysSo ==
  At("unwind") /\ session.mem.phase = "committed" => disk.journal.phase = "committed"

=============================================================================
