--------------------------- MODULE MCStateRestore ---------------------------
(***************************************************************************)
(* Instances of StateRestore for TLC, over two databases and one sidecar:  *)
(* sessions with failing system calls, and sessions under which somebody   *)
(* else writes state files. `part` chooses which one moves.                *)
(***************************************************************************)
EXTENDS StateRestore

CONSTANTS tasks, memory, wal, v1, v2, v3, none

VARIABLES part, tDisk, tWindow, tSession, tServing, tResult

MCNames == {tasks, memory, wal}

File(t, m, w) ==
  [n \in MCNames |-> CASE n = tasks -> t [] n = memory -> m [] n = wal -> w]

\* A fresh directory; one database; both, with the sidecar of a running agent.
MCGenerations == {File(none, none, none), File(v1, none, none), File(v1, v1, v1)}

\* A snapshot that shares a database with a generation and replaces the other;
\* one that drops a database.
MCSnapshots == {File(v1, v2, none), File(v2, none, none)}

\* Where somebody else writes: files that the undone restore shares, replaces,
\* drops and adds.
MCTampered == {File(v1, none, none), File(v1, v1, v1)}
MCInstalled == {File(v1, v2, none)}
MCForeign == {v3}
MCWritten == {v1, v2, v3}

Tampered == INSTANCE StateRestore WITH
  disk <- tDisk, window <- tWindow, session <- tSession, serving <- tServing,
  result <- tResult, Contents <- MCWritten, Foreign <- MCForeign,
  Generations <- MCTampered, Snapshots <- MCInstalled, IOFailures <- FALSE

tVars == <<tDisk, tWindow, tSession, tServing, tResult>>

RestoreInit ==
  /\ part \in {"failures", "tampering"}
  /\ Init /\ Tampered!Init
  /\ part # "failures" => disk.live = Empty
  /\ part # "tampering" => tDisk.live = File(v1, none, none)

RestoreNext ==
  \/ part = "failures" /\ Next /\ UNCHANGED <<part, tVars>>
  \/ part = "tampering" /\ Tampered!Next /\ UNCHANGED <<part, vars>>

RestoreSpec == RestoreInit /\ [][RestoreNext]_<<part, vars, tVars>> /\ WF_vars(Step)

\* What somebody else wrote over a state file is never served, and not removed
\* if it was there when the undo looked.
ForeignStays == Tampered!ForeignIsSafe
=============================================================================
