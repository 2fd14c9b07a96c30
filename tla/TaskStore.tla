----------------------------- MODULE TaskStore -----------------------------
(***************************************************************************)
(* The persistent task store (a2aserver/taskstore.go) under concurrent     *)
(* writers: OpenTaskStore, Create, Update and Get, each write one          *)
(* transaction under SQLite's write lock (inWriteTransaction).             *)
(*                                                                         *)
(* A client is one call at a time, in a process of its own: between two    *)
(* statements of its transaction any other client may run. A call may fail *)
(* at any statement, its process may die, before the commit or after it,   *)
(* and then the process opens the store again.                             *)
(*                                                                         *)
(* A document stands for a whole task; what the properties tell apart is   *)
(* whether two are the same.                                               *)
(*                                                                         *)
(* A definition Name_Fault is Name as a plausible slip would have left it;  *)
(* nothing uses it but a check that some property notices the slip.        *)
(***************************************************************************)
EXTENDS Naturals

CONSTANTS
  Clients,
  Ids, Owners, Docs,
  OwnerOf,      \* client -> the caller its authenticator names
  NoTask,       \* no row of that id
  Schemas,      \* what the file may hold at first: "none", "current", "other"
  MaxVersion    \* bound: a row of this version is not updated

Missing == 0    \* taskstore.TaskVersionMissing

ASSUME StoreAssumption ==
  /\ OwnerOf \in [Clients -> Owners]
  /\ NoTask \notin Clients
  /\ NoTask \notin [owner: Owners, doc: Docs, version: Nat \ {0}]
  /\ NoTask \notin [id: Ids, doc: Docs, version: Nat \ {0}]
  /\ Schemas \subseteq {"none", "current", "other"}
  /\ MaxVersion \in Nat \ {0}

VARIABLES
  tasks,   \* the committed tasks table: id -> row, or NoTask
  schema,  \* the committed schema and its marker
  lock,    \* the client holding SQLite's write lock, or NoTask
  call,    \* client -> the call it makes
  known    \* client -> the row its last answer carried, or NoTask

vars == <<tasks, schema, lock, call, known>>

Rows == INSTANCE TaskRows

\* partial: tables without the marker, or some of the tables.
Layouts == {"none", "partial", "current", "other"}

Known == [id: Ids, doc: Docs, version: Nat \ {0}]

Call == [pc: {"closed", "idle", "begin", "look", "write", "commit", "reply"},
         op: {"open", "create", "update"},
         id: Ids \cup {NoTask}, doc: Docs \cup {NoTask},
         prev: Nat,      \* UpdateRequest.PrevVersion
         version: Nat,   \* the version it has read, then the one it writes
         answer: {"none", "ok", "exists", "not_found", "conflict", "refused", "failed"}]

TypeOK ==
  /\ tasks \in [Ids -> Rows!Row \cup {NoTask}]
  /\ schema \in Layouts
  /\ lock \in Clients \cup {NoTask}
  /\ call \in [Clients -> Call]
  /\ known \in [Clients -> Known \cup {NoTask}]

\* No call is under way: the last one ended so.
Ended(pc, answer) == [pc |-> pc, op |-> "open", id |-> NoTask, doc |-> NoTask,
                      prev |-> Missing, version |-> Missing, answer |-> answer]

Init ==
  /\ tasks = [i \in Ids |-> NoTask]
  /\ schema \in Schemas
  /\ lock = NoTask
  /\ call = [c \in Clients |-> Ended("closed", "none")]
  /\ known = [c \in Clients |-> NoTask]

-----------------------------------------------------------------------------
(* Transactions: inWriteTransaction *)

At(c, pc) == call[c].pc = pc
Goto(c, pc) == call' = [call EXCEPT ![c].pc = pc]

Begin_Deferred(c) ==
  /\ At(c, "begin")
  /\ Goto(c, "look")
  /\ UNCHANGED <<tasks, schema, lock, known>>

\* BEGIN IMMEDIATE; another holder is waited for.
Begin(c) ==
  /\ At(c, "begin")
  /\ lock = NoTask
  /\ lock' = c
  /\ Goto(c, "look")
  /\ UNCHANGED <<tasks, schema, known>>

\* The deferred rollback: the call ends with this answer and no change. A store
\* that failed to open has no pool.
Rollback(c, answer) ==
  /\ lock' = IF lock = c THEN NoTask ELSE lock
  /\ call' = [call EXCEPT ![c] =
                 Ended(IF call[c].op = "open" THEN "closed" ELSE "idle", answer)]
  /\ UNCHANGED <<tasks, schema, known>>

-----------------------------------------------------------------------------
(* OpenTaskStore *)

OpenTaskStore(c) ==
  /\ At(c, "closed")
  /\ call' = [call EXCEPT ![c] = Ended("begin", "none")]
  /\ UNCHANGED <<tasks, schema, lock, known>>

\* checkTaskSchema: an existing store must be of this version, and whole.
CheckSchema(c) ==
  /\ At(c, "look") /\ call[c].op = "open"
  /\ \/ schema \in {"none", "current"} /\ Goto(c, "write")
        /\ UNCHANGED <<tasks, schema, lock, known>>
     \/ schema \notin {"none", "current"} /\ Rollback(c, "refused")

PrepareSchema_InTwo(c) ==
  /\ At(c, "write") /\ call[c].op = "open"
  /\ schema' = IF schema = "none" THEN "partial" ELSE schema
  /\ Goto(c, "commit")
  /\ UNCHANGED <<tasks, lock, known>>

\* The tables and the marker are created in the transaction.
PrepareSchema(c) ==
  /\ At(c, "write") /\ call[c].op = "open"
  /\ Goto(c, "commit")
  /\ UNCHANGED <<tasks, schema, lock, known>>

CommitSchema(c) ==
  /\ At(c, "commit") /\ call[c].op = "open"
  /\ schema' = "current"
  /\ lock' = NoTask
  /\ call' = [call EXCEPT ![c] = Ended("idle", "ok")]
  /\ UNCHANGED <<tasks, known>>

-----------------------------------------------------------------------------
(* Create and Update *)

\* A call on an open store; an update carries the version of the row its client
\* knows, or none.
Invoke(c, op, i, d, prev) ==
  /\ At(c, "idle")
  /\ op = "create" => prev = Missing
  /\ prev # Missing => known[c] # NoTask /\ known[c].id = i /\ known[c].version = prev
  /\ call' = [call EXCEPT ![c] = [pc |-> "begin", op |-> op, id |-> i, doc |-> d,
                                  prev |-> prev, version |-> Missing, answer |-> "none"]]
  /\ UNCHANGED <<tasks, schema, lock, known>>

Owned_ByAnyone(c, i) == tasks[i] # NoTask

\* WHERE id = ? AND owner = ?
Owned(c, i) == tasks[i] # NoTask /\ tasks[i].owner = OwnerOf[c]

\* Create: an id that anybody has used is taken.
LookupNew(c) ==
  /\ At(c, "look") /\ call[c].op = "create"
  /\ \/ tasks[call[c].id] # NoTask /\ Rollback(c, "exists")
     \/ /\ tasks[call[c].id] = NoTask
        /\ Goto(c, "write")
        /\ UNCHANGED <<tasks, schema, lock, known>>

Current_Unchecked(prev, version) == TRUE

\* The optimistic check; a caller that tracks no version skips it.
Current(prev, version) == prev \in {Missing, version}

\* Update: read the version of the caller's own row and check it.
LookupOwned(c) ==
  LET i == call[c].id IN
  /\ At(c, "look") /\ call[c].op = "update"
  /\ \/ ~Owned(c, i) /\ Rollback(c, "not_found")
     \/ /\ Owned(c, i) /\ ~Current(call[c].prev, tasks[i].version)
        /\ Rollback(c, "conflict")
     \/ /\ Owned(c, i) /\ Current(call[c].prev, tasks[i].version)
        /\ tasks[i].version < MaxVersion
        /\ call' = [call EXCEPT ![c].pc = "write", ![c].version = tasks[i].version]
        /\ UNCHANGED <<tasks, schema, lock, known>>
     \/ /\ Owned(c, i) /\ Current(call[c].prev, tasks[i].version)
        /\ tasks[i].version = MaxVersion  \* the bound
        /\ Rollback(c, "failed")

\* The INSERT, whose id must be free, or the UPDATE, which must find the row of
\* this owner in the version read; seen by the transaction alone until it commits.
Write(c) ==
  /\ At(c, "write") /\ call[c].op # "open"
  /\ IF call[c].op = "create"
       THEN tasks[call[c].id] = NoTask
       ELSE Owned(c, call[c].id) /\ tasks[call[c].id].version = call[c].version
  /\ call' = [call EXCEPT ![c].pc = "commit", ![c].version = @ + 1]
  /\ UNCHANGED <<tasks, schema, lock, known>>

Commit(c) ==
  /\ At(c, "commit") /\ call[c].op # "open"
  /\ tasks' = [tasks EXCEPT ![call[c].id] =
                 [owner |-> OwnerOf[c], doc |-> call[c].doc, version |-> call[c].version]]
  /\ lock' = NoTask
  /\ Goto(c, "reply")
  /\ UNCHANGED <<schema, known>>

\* The client learns the version its document has.
Reply(c) ==
  /\ At(c, "reply")
  /\ known' = [known EXCEPT ![c] = [id |-> call[c].id, doc |-> call[c].doc,
                                    version |-> call[c].version]]
  /\ call' = [call EXCEPT ![c] = Ended("idle", "ok")]
  /\ UNCHANGED <<tasks, schema, lock>>

\* Get is one statement outside any transaction.
Get(c, i) ==
  /\ At(c, "idle")
  /\ known' = [known EXCEPT ![c] =
       IF Owned(c, i)
       THEN [id |-> i, doc |-> tasks[i].doc, version |-> tasks[i].version]
       ELSE NoTask]
  /\ UNCHANGED <<tasks, schema, lock, call>>

\* The lock stays busy for five seconds, a statement fails, the commit fails.
Fail(c) ==
  /\ call[c].pc \in {"begin", "look", "write", "commit"}
  /\ Rollback(c, "failed")

\* The process dies; SQLite undoes what was not committed, and the client never
\* learns what was.
Die(c) ==
  /\ call[c].pc \notin {"closed"}
  /\ lock' = IF lock = c THEN NoTask ELSE lock
  /\ call' = [call EXCEPT ![c] = Ended("closed", "none")]
  /\ UNCHANGED <<tasks, schema, known>>

Proceed(c) ==
  \/ Begin(c) \/ CheckSchema(c) \/ PrepareSchema(c) \/ CommitSchema(c)
  \/ LookupNew(c) \/ LookupOwned(c) \/ Write(c) \/ Commit(c) \/ Reply(c)

Next ==
  \/ \E c \in Clients : OpenTaskStore(c) \/ Proceed(c) \/ Fail(c) \/ Die(c)
  \/ \E c \in Clients, i \in Ids : Get(c, i)
  \/ \E c \in Clients, op \in {"create", "update"}, i \in Ids, d \in Docs,
        prev \in 0..MaxVersion : Invoke(c, op, i, d, prev)

Spec == Init /\ [][Next]_vars

-----------------------------------------------------------------------------
(* Properties *)

\* "Two writers would both read version N, both find it current, and both write
\* N+1" (Update): whoever knows a row's version knows the same state of it.
VersionNamesState ==
  /\ TypeOK
  /\ \A c, d \in Clients :
       known[c] # NoTask /\ known[d] # NoTask
       /\ known[c].id = known[d].id /\ known[c].version = known[d].version
       => known[c].doc = known[d].doc
  /\ \A c \in Clients :
       LET row == tasks[known[c].id] IN
       known[c] # NoTask => /\ row # NoTask
                            /\ row.version = known[c].version => row.doc = known[c].doc

\* What a client was told is not forgotten, by a crash or another writer: the
\* row is there, in that state or a later one, and is still its caller's.
AnswersLast == \A c \in Clients : known[c] # NoTask =>
  LET row == tasks[known[c].id] IN
  row # NoTask /\ row.version >= known[c].version /\ row.owner = OwnerOf[c]

\* What a client was told of a task is true of it, then and later.
AnswersHold == VersionNamesState /\ AnswersLast

\* A client that sends the version it knows replaces the state it knows, and
\* nothing that was written since.
NoLostUpdate ==
  [][\A i \in Ids : tasks[i] # NoTask /\ tasks'[i] # tasks[i] =>
       \A c \in Clients :
         call[c].pc = "commit" /\ call'[c].pc = "reply" /\ call[c].prev # Missing =>
           /\ known[c].version = tasks[i].version
           /\ known[c].doc = tasks[i].doc]_vars

\* Every row is written by its owner, in numbered steps (TaskRows).
NumberedSteps == Rows!Spec

\* A store this program made is never refused at the next start: a crash while
\* it is prepared leaves nothing, or all of it (prepareTaskSchema).
Reopens == schema # "other" => \A c \in Clients : call[c].answer # "refused"

=============================================================================
