--------------------------- MODULE AuditedWrites ---------------------------
(***************************************************************************)
(* The guarded writes of the agent, from the tool handler (tools/action.go) *)
(* to the committed audit row (data/write.go, sqlite.go, schema.go,        *)
(* store.go): restart_service, resolve_incident and the general AppendAudit. *)
(*                                                                         *)
(* A worker is one handler in one process of those that share the state    *)
(* directory. Its read before the write, the publication of the runtime    *)
(* database, the migration and the write are separate connections, so any  *)
(* other worker may act between them. The write itself runs under SQLite's *)
(* write lock (BEGIN IMMEDIATE); what it changes is its own until it       *)
(* commits. A worker may fail or die at any step, and a client that never  *)
(* learnt the outcome delivers the same invocation again.                  *)
(*                                                                         *)
(* A definition Name_Fault is Name as a plausible slip would have left it;  *)
(* nothing uses it but a check that some property notices the slip.        *)
(***************************************************************************)
EXTENDS Naturals, Sequences

CONSTANTS
  Workers,
  Requests,    \* the tool calls and appends clients deliver
  Services,
  Incidents,
  On,          \* incident -> the service it is about
  Seed,        \* the committed seed database
  Restored,    \* databases an earlier binary or a restore left in the directory
  Short,       \* rationales of at most MaxAuditRationaleLength characters
  Redact,      \* rationale -> what redaction makes of it
  Blank,       \* a missing identity or rationale
  Missing,     \* no runtime database
  MaxAudit     \* bound: rows the trail may hold before a write is begun

VARIABLES
  runtime,  \* the committed runtime database, or Missing
  lock,     \* the worker holding SQLite's write lock, or Missing
  work      \* worker -> the handler it runs

vars == <<runtime, lock, work>>

Actions == {"restart_service", "resolve_incident", "append"}

Data == [services: [Services -> {"operational", "degraded", "absent"}],
         incidents: [Incidents -> {"open", "resolved", "absent"}]]

Request == [action: Actions, target: Services \cup Incidents,
            invocation: {r.invocation : r \in Requests},
            session: {r.session : r \in Requests},
            user: {r.user : r \in Requests},
            network: {r.network : r \in Requests}, \* Local, Unauthenticated or a subject
            confirmed: BOOLEAN, frozen: BOOLEAN,   \* frozen: AGENT_WRITES_DISABLED
            rationale: DOMAIN Redact \cup {Blank}]

Contexts == [status: {"operational", "degraded", "open", "given"}, open: SUBSET Incidents]

Row == [invocation: {r.invocation : r \in Requests}, action: Actions,
        target: Services \cup Incidents, session: {r.session : r \in Requests},
        approvedBy: {r.user : r \in Requests},
        rationale: DOMAIN Redact \cup {Blank}, context: Contexts]

\* prepared: migrate has found or made the unique index and the triggers.
Database == [data: Data, audit: Seq(Row), prepared: BOOLEAN]

ASSUME WritesAssumption ==
  /\ \A r \in Requests : r \in Request
  /\ \A r \in Requests :
       /\ r.action = "restart_service" => r.target \in Services
       /\ r.action = "resolve_incident" => r.target \in Incidents
  /\ On \in [Incidents -> Services]
  /\ Seed \in Database
  /\ Restored \subseteq Database
  /\ Missing \notin Database
  /\ Missing \notin Workers
  /\ Redact \in [DOMAIN Redact -> DOMAIN Redact]
  /\ Short \subseteq DOMAIN Redact  \* a blank rationale is refused
  /\ Blank \notin DOMAIN Redact
  /\ MaxAudit \in Nat

NoRow == [invocation |-> Missing]
NoDatabase == [prepared |-> Missing]

InTransaction == {"lookup", "context", "update", "insert", "commit"}
Steps == {"idle", "check", "open", "link", "migrate", "begin", "close"} \cup InTransaction

Work == [pc: Steps, request: Requests \cup {NoRow},
         answer: {"none", "refused", "nothing", "failed", "done"},
         row: Row \cup {NoRow},            \* the row the answer carries
         context: Contexts \cup {NoRow},   \* the decision context
         tx: Database \cup {NoDatabase}]   \* what its transaction sees

TypeOK ==
  /\ runtime \in Database \cup {Missing}
  /\ lock \in Workers \cup {Missing}
  /\ work \in [Workers -> Work]

Fresh(r) == [pc |-> "idle", request |-> r, answer |-> "none", row |-> NoRow,
             context |-> NoRow, tx |-> NoDatabase]

Init ==
  /\ runtime \in Restored \cup {Missing}
  /\ lock = Missing
  /\ work = [w \in Workers |-> Fresh(NoRow)]

-----------------------------------------------------------------------------
(* The handler's checks *)

\* The read path: published runtime state, otherwise the seed.
ReadData == IF runtime = Missing THEN Seed.data ELSE runtime.data

Exists(data, r) ==
  CASE r.action = "restart_service"  -> data.services[r.target] # "absent"
    [] r.action = "resolve_incident" -> data.incidents[r.target] # "absent"

Approved_AnyPrincipal(r) ==
  /\ ~r.frozen
  /\ r.confirmed
  /\ Blank \notin {r.user, r.session, r.invocation}
  /\ r.network # "unauthenticated"
  /\ r.rationale \in Short
  /\ Redact[r.rationale] \in Short

\* writesDisabled and validatedApproval: confirmed, by somebody known who owns
\* the invocation, with a rationale that still fits once redacted.
Approved(r) ==
  /\ ~r.frozen
  /\ r.confirmed
  /\ Blank \notin {r.user, r.session, r.invocation}
  /\ r.network \in {"local", r.user}
  /\ r.rationale \in Short
  /\ Redact[r.rationale] \in Short

-----------------------------------------------------------------------------
(* The dataset *)

\* restartContext and resolutionContext: what the row says of the data.
Context(data, action, target) ==
  CASE action = "restart_service" ->
         [status |-> data.services[target],
          open   |-> {i \in Incidents : On[i] = target /\ data.incidents[i] = "open"}]
    [] action = "resolve_incident" -> [status |-> data.incidents[target], open |-> {}]
    [] action = "append" -> [status |-> "given", open |-> {}]

\* The rows restartContext and resolutionContext find, and the UPDATE affects.
Applies(data, action, target) ==
  CASE action = "restart_service"  -> data.services[target] # "absent"
    [] action = "resolve_incident" -> data.incidents[target] = "open"
    [] action = "append"           -> TRUE

\* The UPDATE statement.
Effect(data, action, target) ==
  IF ~Applies(data, action, target) THEN data
  ELSE CASE action = "restart_service"  -> [data EXCEPT !.services[target] = "operational"]
         [] action = "resolve_incident" -> [data EXCEPT !.incidents[target] = "resolved"]
         [] action = "append"           -> data

\* The idempotency key, of a request or of a row.
Key(r) == <<r.invocation, r.action, r.target>>

\* auditForIdempotencyKey: the rows of one logical write, oldest first.
Rows(db, key) == {i \in DOMAIN db.audit : Key(db.audit[i]) = key}
First(ids) == CHOOSE i \in ids : \A j \in ids : i <= j

\* prepareAuditIdempotencyIndex: what CREATE UNIQUE INDEX needs.
Duplicated(db) == \E i, j \in DOMAIN db.audit : i # j /\ Key(db.audit[i]) = Key(db.audit[j])

NewRow(r, context) ==
  [invocation |-> r.invocation, action |-> r.action, target |-> r.target,
   session |-> r.session, approvedBy |-> r.user,
   rationale |-> IF r.action = "append" THEN r.rationale ELSE Redact[r.rationale],
   context |-> context]

-----------------------------------------------------------------------------
(* Steps of a handler *)

At(w, pc) == work[w].pc = pc
Goto(w, pc) == work' = [work EXCEPT ![w].pc = pc]
Holds(w) == lock = w

\* The handler returns and forgets the request, with the row if it has one.
Answer(w, answer, row) ==
  work' = [work EXCEPT ![w] = [Fresh(NoRow) EXCEPT !.answer = answer, !.row = row]]

\* A call, or the redelivery of one whose outcome the client never learnt.
Deliver(w, r) ==
  /\ At(w, "idle")
  /\ work' = [work EXCEPT ![w] = [Fresh(r) EXCEPT
                !.pc = IF r.action = "append" THEN "open" ELSE "check"]]
  /\ UNCHANGED <<runtime, lock>>

\* GetService or GetIncident, then validatedApproval.
Check(w) ==
  LET r == work[w].request IN
  /\ At(w, "check")
  /\ \/ Exists(ReadData, r) /\ Approved(r) /\ Goto(w, "open")
     \/ Exists(ReadData, r) /\ ~Approved(r) /\ Answer(w, "refused", NoRow)
     \/ ~Exists(ReadData, r) /\ Answer(w, "nothing", NoRow)
  /\ UNCHANGED <<runtime, lock>>

\* DBPath: publish the seed on first use.
DBPath(w) ==
  /\ At(w, "open")
  /\ Goto(w, IF runtime = Missing THEN "link" ELSE "migrate")
  /\ UNCHANGED <<runtime, lock>>

Publish_Rename(w) ==
  /\ At(w, "link")
  /\ runtime' = Seed
  /\ Goto(w, "migrate")
  /\ UNCHANGED lock

\* The staged copy is hard-linked into place; a name that exists already is the
\* winner's database and a success.
Publish(w) ==
  /\ At(w, "link")
  /\ runtime' = IF runtime = Missing THEN Seed ELSE runtime
  /\ Goto(w, "migrate")
  /\ UNCHANGED lock

\* migrate: one transaction of its own, before the write's.
Migrate(w) ==
  /\ At(w, "migrate")
  /\ lock = Missing
  /\ \/ /\ runtime.prepared \/ ~Duplicated(runtime)
        /\ runtime' = [runtime EXCEPT !.prepared = TRUE]
        /\ Goto(w, "begin")
     \/ /\ ~runtime.prepared /\ Duplicated(runtime)
        /\ Answer(w, "failed", NoRow)
        /\ UNCHANGED runtime
  /\ UNCHANGED lock

Begin_Deferred(w) ==
  /\ At(w, "begin")
  /\ Len(runtime.audit) < MaxAudit
  /\ work' = [work EXCEPT ![w].pc = "lookup", ![w].tx = runtime]
  /\ UNCHANGED <<runtime, lock>>

\* BEGIN IMMEDIATE.
Begin(w) ==
  /\ At(w, "begin")
  /\ lock = Missing
  /\ Len(runtime.audit) < MaxAudit
  /\ lock' = w
  /\ work' = [work EXCEPT ![w].pc = "lookup", ![w].tx = runtime]
  /\ UNCHANGED runtime

Rollback_KeepsLock(w, answer, row) ==
  /\ UNCHANGED <<runtime, lock>>
  /\ Answer(w, answer, row)

\* The transaction, if the worker is in one, leaves no trace.
Rollback(w, answer, row) ==
  /\ lock' = IF Holds(w) THEN Missing ELSE lock
  /\ UNCHANGED runtime
  /\ Answer(w, answer, row)

\* A replay answers with the first row and changes nothing.
Lookup(w) ==
  LET r == work[w].request
      found == Rows(work[w].tx, Key(r))
  IN /\ At(w, "lookup")
     /\ \/ /\ found # {}
           /\ Rollback(w, "done", work[w].tx.audit[First(found)])
        \/ /\ found = {}
           /\ IF r.action = "append"
              THEN work' = [work EXCEPT ![w].pc = "insert",
                              ![w].context = Context(work[w].tx.data, r.action, r.target)]
              ELSE Goto(w, "context")
           /\ UNCHANGED <<runtime, lock>>

\* The decision context, or nothing to do: unknown, or resolved already.
ReadContext(w) ==
  LET r == work[w].request
      data == work[w].tx.data
  IN /\ At(w, "context")
     /\ \/ /\ ~Applies(data, r.action, r.target)
           /\ Rollback(w, "nothing", NoRow)
        \/ /\ Applies(data, r.action, r.target)
           /\ work' = [work EXCEPT ![w].pc = "update",
                                   ![w].context = Context(data, r.action, r.target)]
           /\ UNCHANGED <<runtime, lock>>

\* The UPDATE; with the lock held the row it names is still there to change.
Update(w) ==
  LET r == work[w].request IN
  /\ At(w, "update")
  /\ work' = [work EXCEPT ![w].pc = "insert",
                          ![w].tx.data = Effect(@, r.action, r.target)]
  /\ UNCHANGED <<runtime, lock>>

\* appendAudit; the unique index refuses a second row of a key.
Insert(w) ==
  LET r == work[w].request
      row == NewRow(r, work[w].context)
  IN /\ At(w, "insert")
     /\ work[w].tx.prepared => Rows(work[w].tx, Key(r)) = {}
     /\ work' = [work EXCEPT ![w].pc = "commit", ![w].row = row,
                             ![w].tx.audit = Append(@, row)]
     /\ UNCHANGED <<runtime, lock>>

Commit(w) ==
  /\ At(w, "commit")
  /\ runtime' = work[w].tx
  /\ lock' = Missing
  /\ work' = [work EXCEPT ![w].pc = "close", ![w].tx = NoDatabase, ![w].context = NoRow]

\* closeWith succeeds, and the client hears of the row.
Close(w) ==
  /\ At(w, "close")
  /\ Answer(w, "done", work[w].row)
  /\ UNCHANGED <<runtime, lock>>

\* Any error: the lock is busy for five seconds, the context is cancelled, a
\* statement, the commit or the close of the connection fails.
Fail(w) ==
  /\ ~At(w, "idle")
  /\ Rollback(w, "failed", NoRow)

\* The process dies; SQLite undoes what it had not committed.
Die(w) ==
  /\ ~At(w, "idle")
  /\ Rollback(w, "none", NoRow)

\* Somebody else changes the dataset: a service degrades or goes away, an
\* incident is opened or removed. It takes the write lock, for one statement.
Outside ==
  /\ lock = Missing
  /\ runtime # Missing
  /\ \/ \E s \in Services, status \in {"degraded", "absent"} :
          runtime' = [runtime EXCEPT !.data.services[s] = status]
     \/ \E i \in Incidents, status \in {"open", "absent"} :
          runtime' = [runtime EXCEPT !.data.incidents[i] = status]
  /\ UNCHANGED <<lock, work>>

Proceed(w) ==
  \/ Check(w) \/ DBPath(w) \/ Publish(w) \/ Migrate(w) \/ Begin(w)
  \/ Lookup(w) \/ ReadContext(w) \/ Update(w) \/ Insert(w) \/ Commit(w) \/ Close(w)

Next ==
  \/ \E w \in Workers : Proceed(w) \/ Fail(w) \/ Die(w)
  \/ \E w \in Workers, r \in Requests : Deliver(w, r)
  \/ Outside

\* A handler runs on until it returns; one that waits for the write lock gives
\* up when its busy timeout expires.
Fairness == \A w \in Workers :
  /\ WF_vars(Proceed(w))
  /\ WF_vars(At(w, "begin") /\ Fail(w))
  /\ WF_vars(At(w, "migrate") /\ Fail(w))

Spec == Init /\ [][Next]_vars /\ Fairness

-----------------------------------------------------------------------------
(* Properties *)

\* Every row an answer carried is in the trail, and is the only answer that
\* logical write will ever have: it survives crashes, failures and the race to
\* publish the database (Store.publish, "a redelivery must not rewrite it").
AnswersAreRecorded ==
  /\ TypeOK
  /\ \A w \in Workers : work[w].answer = "done" =>
       /\ runtime # Missing
       /\ LET found == Rows(runtime, Key(work[w].row))
          IN found # {} /\ runtime.audit[First(found)] = work[w].row

\* The trail, and the dataset it is about, before the runtime database exists.
Current == IF runtime = Missing THEN Seed ELSE runtime

\* Every new guarded row goes back to a call its own approver confirmed and, over
\* the network, was authenticated for (validatedApproval), whatever happened
\* between that check and the commit.
OnlyOwnersWrite ==
  [][\A i \in DOMAIN Current.audit' \ DOMAIN Current.audit :
       LET row == Current.audit[i]' IN
       row.action = "append" \/
       \E r \in Requests : /\ Key(r) = Key(row) /\ r.session = row.session
                           /\ r.confirmed /\ ~r.frozen /\ r.user = row.approvedBy
                           /\ r.network \in {"local", r.user}]_vars

\* No handler changes the dataset without a row that says so: a write that
\* fails half way, is a replay or has nothing to do leaves it alone.
NothingUnaudited ==
  [][runtime # Missing /\ lock # Missing /\ runtime'.data # runtime.data =>
       Len(runtime'.audit) = Len(runtime.audit) + 1]_vars

\* Every change has a row, and every row has an approver (restart_service,
\* resolve_incident).
WritesAccountable == NothingUnaudited /\ OnlyOwnersWrite

Promise == INSTANCE AuditTrail WITH
  Entries <- Row, Datasets <- Data, data <- Current.data, audit <- Current.audit

\* "The summary has to describe the rows the write is about to change"
\* (restartContext), the effect and its row are one step, taken once.
ExactlyOnce == Promise!Spec

\* "A replay and a no-op both finish by rolling back": the write lock is
\* always given back, and nobody else's write waits for ever.
LockReleased == \A w \in Workers : lock = w ~> lock # w

=============================================================================
