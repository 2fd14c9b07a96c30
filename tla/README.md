# Verification of the AgentOps agent runtime

TLA+ models of the Go agent under `agents/go` and of the harness under `evals` that
evaluates it, the TLC runs that check them and
the theorems TLAPS proves about them. Every definition is translated from the
source; `PROJECT.json` maps each to the lines it stands for. Beyond the
standard modules they use only the community modules of TLA+ and those of TLAPS.

    tlc -config Tools.cfg MCTools      # a run
    tlapm CircuitBreakerProofs.tla           # the proofs of a module

## The system

The program is an incident-response agent: it answers over A2A (Agent2Agent),
MCP and a console, calls a language model, reads an operations dataset, and
changes it only through two guarded actions that a person approved. Its durable
state is a handful of SQLite databases in one state directory.

| Part | State it keeps | Operations | Meets |
|---|---|---|---|
| `resilience` | per tool: a breaker (state, failures, generation, probe, opened at) under a mutex | `Guard.Run`, `Breaker.Allow`, `RecordSuccess`, `RecordFailure`, `RecordAbandoned` | every read tool and model call runs in a guard |
| `state` restore and recovery | the state directory, a staging and a quarantine directory, a journal and its temporary, the generation lock | `RestoreState`, `RecoverStateDirectory`, rollback, roll-forward, cleanup | the agent recovers before it opens anything; a backup takes the same lock |
| `state` backups | a backup root: snapshot directories with a manifest, claims of timestamps | `BackupState`, `ValidateSnapshot`, prune | restore reads what it publishes; backups of two directories meet in a root |
| `data` writes | `runtime.db`: services, incidents, the audit trail | `DBPath` (publish the seed), migrate, `RestartService`, `ResolveIncident`, `AppendAudit` | the guarded tools call it; reads are separate connections |
| `tools` | none of its own | the guarded actions check approval, identity and the write freeze | `data`, `resilience` |
| `a2aserver` turns | per session: a reference-counted lock; per invocation: a call counter | `serializingRunner.Run`, `sessionGate.acquire`, `callBudget`, `recoveringSessions.Create` | the ADK runner, the session store, `policy` |
| `policy` | per session: token totals in session state, under a reference-counted lock | `EnforceTokenBudget`, `RecordTokenUsage`, `CompactHistory`, `RedactRequest`, `ValidateActions`, `SecureToolOutput` | callbacks of every turn |
| `a2aserver` task store | `tasks` table: versioned rows with an owner and an insertion order | `Create`, `Update`, `Get`, `List` | the A2A request handler; one database for all processes |
| `cmd/agent`, `a2aserver` lifecycle, `mcpserver` transport | what a process holds (telemetry, session and task stores), its listener, requests under way | assemble, recover, preflight, migrate, serve, drain, release | `state`, the stores, a console or an MCP server over the same directory |
| `config` | none after `Load` | parse, validate fields, validate what depends on what | the constructors of seven packages, which check again |
| `memory` | `memory.db`: notes, ingested session lines; a vector index of the runbooks | save, recall, search, ingest a session, forget a person; index, search | tools, ADK's memory service, an embeddings endpoint |
| `compose`, `model`, `telemetry`, `domain`, `principal` | little or none after start | adapters and assembly | everything above |
| `evals` | a run: its rows, the child it started, its directories, the results file | run, verify a build, start and close a child, converse, score, judge, compare, calibrate, measure retrieval | the agent from outside, over REST and A2A; the MCP server |
| `tools/internal` | a relay, reports | checks of the course | the course site |

The behaviours that are hard, and what makes each part correct:

* **Breaker.** Calls outlive the state they were admitted in: an outcome arrives
  after the breaker opened, was probed and closed again. Exactly one probe at a
  time; a probe whose caller is cancelled is not lost; late outcomes decide
  nothing and do not restart a cooldown; one call is one failure however often
  it retried.
* **Restore.** A crash, a power loss or a failed system call between any two
  steps, also of the recovery that follows. A rollback lists a directory once and
  then compares and moves file by file, while nothing stops a stranger from writing
  there. There is always exactly one
  generation to recover to, the journal always says which, and nothing is
  guessed when the evidence does not fit.
* **Writes.** Redelivery of a confirmed call whose outcome the client never
  learnt, in another session; several handlers and processes over one database;
  a failure between the update and its audit row. Each logical write happens at
  most once, together with the one row that describes it.
* **Turns.** Several requests of one session at once. The snapshot of a session
  is detached, so a turn must be alone from load to append; the lock registries
  must neither lose a lock somebody waits for nor keep one for ever.
* **Task store.** Updates race from several processes on a version number, pages
  are walked while tasks change.
* **Processes.** Fifteen early returns between the command line and the listener,
  each with something else to release; kills between two migrations; a drain whose
  deadline outlives the context that was cancelled; probes that look at one store after
  another. A refused start changes nothing a snapshot must match, what is held is
  released once and in order, who answers ready has been so since it was asked.
* **Settings and policy.** The parser takes an empty string for an absent variable,
  seven constructors check again what `Load` accepted. A window cut between a call
  and its result, and masks over overlapping detections, are wrong only for some
  histories and some texts.
* **Snapshots.** Backups of two directories share a root without a lock: claims,
  publication and pruning interleave. A restore accepts what some backup published,
  whole, or refuses.
* **Memory.** A transcript that is ingested again as it grows, an erasure over two
  tables; an index whose vectors are comparable only if one build of one model made
  them, while the endpoint pulls new builds.
* **Evaluation.** The results file is believed by a gate, so it may say "passed"
  only of a whole run of one build. Some of the commands it waits for have no deadline.
  Two transports tell the same turn differently.
  A rate hides a case that became a coin toss.

## Modules

| Module | Models | State and actions |
|---|---|---|
| `CircuitBreaker` | `resilience/circuit.go`, `resilience.go` | `byName` is the registry, `run` the `Guard.Run` each caller is in, `cancelled` its context. One action per return into the loop: `Admit`, `Succeed`, `Fail`... and `Tick` for the clock. A method of `Breaker` is one step because it runs under the breaker's mutex |
| `CircuitBreakerProofs` | | theorems |
| `StateRestore` | `state/restore.go`, `recovery.go`, `journal.go`, `lock.go`, startup's recovery | `disk` is what processes see, `window` every disk a power loss now could leave, `session` the holder of the generation lock with its program counter. One action per system call that changes the disk or makes it durable; in the loops of a rollback also one per look at a file, between which somebody else may write: `listed`, `todo` and `checked` are the loop's variables, `late` is history, the names somebody touched since it listed them |
| `StateRestoreProofs` | | theorems |
| `StateGeneration` | what a restore promises | the generation in force, and who may change it. `StateRestore` implements it |
| `AuditedWrites` | `data/write.go`, `sqlite.go`, `schema.go`, `store.go`, `tools/action.go` | `runtime` is the committed database, `lock` SQLite's write lock, `work` the handler each worker runs. One action per statement or connection |
| `AuditedWritesProofs` | | theorems |
| `AuditTrail` | what the data package promises | a write and its row in one step, once. `AuditedWrites` implements it |
| `SessionRegistry` | the state of a registry of session locks | `locks` is the map, `refs` each lock object's count, `user` where each caller is. `SessionLocks` and `Turns` share it |
| `SessionLocks` | the two reference-counted lock registries: `sessionLockRegistry` (`policy/budget.go`) and `sessionGate` (`a2aserver/runner.go`) | `Acquire` (find or make, count), `Enter` (the mutex), `Exit`, `Release` (uncount, delete at zero). Lock objects are reused once nothing refers to them, as an allocator would |
| `SessionMutex` | what a registry promises | one mutex per session. `SessionLocks` implements it |
| `SessionLocksProofs` | | theorems |
| `Turns` | `a2aserver/runner.go` (gate, session recovery, call budget) with `policy/budget.go` | the gate's steps are those of an instance of `SessionLocks`; `stored` the totals in the session store, `counts` the counters of `callBudget`, `turn` each turn's program counter and detached snapshot, `appended` what the session was charged. Preparation (`Get`, `Create`, `Reread`) is outside the gate, everything from `Load` to the last `AppendEvent` inside it |
| `TurnsProofs` | | theorems |
| `TaskStore` | `a2aserver/taskstore.go`, `sqlite.go`: open, `Create`, `Update`, `Get` | `tasks` and `schema` are committed, `lock` is SQLite's write lock, `call` is the call each client makes, `known` what its last answer said. One action per statement, `BEGIN` and `COMMIT` |
| `TaskStoreProofs` | | theorems about `TaskStore` and `TaskPages` |
| `TaskRows` | what the store promises of a row | created once, owned for ever, numbered states. `TaskStore` implements it |
| `TaskPages` | `TaskStore.List` | `rows` with the stamps that order them, the wall `clock`, `walk` each client's listing: filter, cursor, last page, and what it has been shown |
| `AgentProcess` | `cmd/agent`, `a2aserver/serve.go`, `probe.go`, `postgres.go`, `http.go`, `mcpserver/transport.go` | `proc` is how far each process is, what it holds and what its way out still has to release; `disk` the databases by what a preflight sees of them; `request` a turn or a probe under way. One action per step of the startup and of the way out, and per dependency a probe looks at; every step may fail, a process may be killed at any. `changed` and `sound` are history: what a start did to the databases up to its preflight, and what was in order since a probe came |
| `AgentProcessProofs` | | theorems about `AgentProcess`, `Settings` and `Guardrails` |
| `Settings` | `config/config.go`, `validate.go`, `types.go`, and what the constructors refuse | `env` is what the operator set, `cfg` what `Load` made of it, `problems` what refused it, `refuser` the constructor that did. `Load` is one step, `Build` another. Values are classes of values |
| `Guardrails` | `policy/policy.go`, `guardrails.go`, `compaction.go` | `history` is the session, `request` what the model was last sent, `calls` the open calls, `ran` what reached a tool. One action per model call, answer and tool call, each with the guards around it in their order |
| `Redaction` | `policy/pii.go` | a text is its positions; `found` the spans the patterns match, `text` what is left after the masks |
| `Snapshots` | `state/backup.go`, `manifest.go`, `cli.go`, `sqlite.go`, `state.go` | `live` are the directories, `root` the visible snapshots, `claims` the lock directories of timestamps, `work` each backup, restore or check. One action per step another process can see |
| `Notes` | `memory/notes.go`, `service.go`, `sqlite.go` | `notes` and `lines` are committed rows, `lock` SQLite's write lock, `call` what each worker runs. One action per statement outside a transaction, `BEGIN` and `COMMIT` |
| `Retrieval` | `memory/retrieval.go`, `knowledge.go`, `embeddings.go` | `artifact` is the build an endpoint serves, `index` the committed generation, `search` each call. A vector is the artifact that made it |
| `Evaluation` | `evals/runner.go`, `process*.go`, `container*.go`, `runtime_identity.go`, the `run` command | `run` is the harness, `child` the case's agent, or the `version` command that is asked before it, `disk` the binary, the state directory and the files of results, `seen` what the agent did answer |
| `EvalTurns` | `evals/client.go`, `turn.go`, `trajectory.go` | `tasks` are the server's, `remembered` the one the client names next, `turn` the last answer as each wire tells it. Folds are operators over sequences of events |
| `EvalVerdicts` | `evals/comparison.go`, `calibration.go` | `comparison` and `calibration` are a command's evidence and result |
| `RetrievalEval` | `evals/retrieval.go`, `retrieval_mcp.go` | `mode` and `at` are the question being asked, `child` the runtime, `hits` the counts, `told` what the runtime did |
| `ServicesProofs` | | theorems about `Snapshots`, `Retrieval`, `Evaluation`, `EvalVerdicts` and `RetrievalEval` |

Parts that share no state are checked side by side: `MCTools` (`AuditedWrites`,
`CircuitBreaker`), `MCTaskStore` (`TaskStore`,
`TaskPages`), `MCAgent` (`AgentProcess`, `Settings`, `Guardrails`, `Redaction`) and
`MCServices` (`Snapshots`, `Notes`, `Retrieval` and, by `MCEvaluation`, the four modules
of the harness) each choose initially which part moves and leave the others as they were.
`MCSessions` chooses whether users (`SessionLocks`) or turns (`Turns`) move one registry.
A part that is an instance has its properties named again, beside another's.
What `Load` and `Build` find is stated by the first that fails, and a cut window by the
place of its cut, not by a fold over a sequence: the proofs rest on these forms.

`MC*` modules give instances for TLC. A definition `Name_Fault` just before
`Name` is `Name` with a plausible slip in it; nothing uses it except a check that
some property notices the slip (`mutants` in `PROJECT.json`).

## Runs

| Run | Question | Bounds |
|---|---|---|
| `Restore` | Is there one generation to recover to after any crash, power loss or failure, repeated without limit, and is the lock always released? What if somebody else changes files meanwhile? | 3 file names (two databases and a sidecar), 3 old generations (none, one file, all), 2 snapshots (shares and replaces; drops a database). With strangers: 2 generations, 1 snapshot, no failures of system calls, and a third content that only strangers write; they also remove files, while a transaction is interrupted and at each step of the three loops of its undo |
| `RestoreCrashResidue`, `RestoreLateFailure`, `RestoreCommitFailure` | Three sentences of the comments that the code does not keep (see Findings) | as `Restore` |
| `Tools` | Is each logical write done at most once, with its row, only if approved, and the write lock given back? Do stragglers of earlier generations disturb a breaker? Does every probe resolve? | 2 workers, 10 requests (a restart, its redelivery in another session with another rationale, a resolution, six that may not write, an append), 2 rows: two writes, or one key twice as an old database may hold it. 3 callers of one tool: one probing, two stragglers of different generations; threshold 2 and cooldown 2 so that neither is degenerate; one retry; 5 generations, more than the two any straggler can span |
| `Locks` | Does anybody lose the lock it waits for, leave an entry, or never get in? Do concurrent turns lose tokens, overrun a budget, share a counter, or not end? | 4 users (one inside, one waiting, one leaving, one arriving), 2 sessions, 4 lock objects, as many as users can hold. 2 turns at a time of 1 session (other sessions meet it only in the registry); store failures and crashes without limit; calls of 0, 1 or 2 tokens against a budget of 2, so one call may reach it or two; 2 calls a turn |
| `Tasks` | Are updates and answers kept, among failing and dying processes? Does a walk through the pages miss or repeat a task? | 3 clients of 2 callers, 1 task, 2 documents (a lost update shows as two different ones), 3 versions; a new file or one of another schema. 4 tasks, 3 of them the caller's, page sizes 1, default (2) and out of range, 2 stamps, so that any two tasks may share one; an unnamed caller beside |
| `Agent` | Does a refused start change anything that matters, a way out forget anything, a replica answer ready without a store it needs? Are settings what the operator set? Is what a model is sent within its window, whole and masked? | An A2A server started twice beside a console or an MCP server, or MCP over stdio beside one over HTTP; one request or probe; three states of the databases: new; torn by a restore, its shared store empty; no sessions beside foreign task stores, so that a refusal comes after the session database was made. Every variable alone in every class of its values, pairs of 15 that depend on each other, every Gemini environment. Histories of 6 messages under windows 2, 3 and none, tools that share a name. Texts of 4 positions: two overlapping spans, a mask and what follows it |
| `FirstBoot`, `RefusedAsFound` | Two sentences of the comments that the code does not keep (see Findings) | as the processes of `Agent` |
| `CheckedConfig` | Another | as the settings of `Agent` |
| `Services` | Do restores accept only whole published snapshots, and is the newest kept? Is memory whole? Does a search rank comparable vectors? Does a passing artifact mean a pass, on every wire, under every verdict? | 2 directories of 2 databases, one worker each, 2 timestamps, 1 to 2 kept, a snapshot somebody edits. 3 persons of 2 users and 2 applications, 2 sessions, 1 note at a time, 2 workers. 2 builds of a model, 2 chunkers, 3 corpora, 2 workers. 2 cases, 2 samples, processes and containers. Every turn of up to 2 events and the longer ones of a guarded call, 2 messages, 3 wires. Runs of 2 cases and 2 samples or of two scores, 3 labels. 2 questions, 2 slugs |

Bounds are constants of the modules. `MaxGeneration` stops cooldowns from ending
in later generations, so a breaker there is open for good; `MaxAudit` stops a
write from beginning on a full trail (the handler then gives up, as it does when
the database stays busy). Crashes, power losses, failures, redeliveries and
sessions are not bounded. `MaxVersion`, `MaxNotes`, `MaxTurns` and `MaxMessages` stop
a writer, a conversation or a session that would go on. `Tasks` declares its clients of one
caller and its documents symmetric; it checks safety only, which symmetry keeps.

## Fairness

* `CircuitBreaker`: weak fairness of each caller's next step and of the clock.
  Each attempt runs under a deadline that its callee honours, a backoff is a
  timer, and every other step is local.
* `StateRestore`: weak fairness of the session's next step. System calls return.
  Nothing makes a restore or a start happen.
* `AuditedWrites`: weak fairness of each handler's next step, and of giving up
  while it waits for the write lock (`busy_timeout`).
* `SessionLocks`: strong fairness of entering the mutex. Go's `sync.Mutex` hands
  itself to the first waiter once that has waited a millisecond (starvation mode),
  so no waiter is passed over for ever. Weak fairness of leaving and releasing,
  which are deferred calls.
* `Turns`: the same for the gate, and weak fairness of each turn's next step: model
  calls and stores answer or fail within their deadlines.
* `AgentProcess`: weak fairness of each process's next step once it runs: recovery,
  migrations and closing return, the drain has a deadline (`serve.go:119`) or a
  second one (`transport.go`). Nothing makes a signal arrive or a request end.
* `Evaluation`: weak fairness of the harness. It is one goroutine whose waits have a
  deadline: of a request, of readiness, of the interrupt of a child and of its kill. The
  exception is the wait for a command that says what source a build is of
  (`executeRuntimeCommand`, runtime_identity.go:112, and `executeSourceCommand` of the
  command line): it runs under `context.Background()` (main.go:76). `Begin` and `Verify`
  are therefore enabled only once that command has ended (`VersionEnds`), of which nothing
  is assumed, and `RunEnds` says what is left: a run ends, or waits for it for ever. The
  agent under evaluation promises nothing.
* `TaskStore`, `TaskPages`, `Snapshots`, `Notes`, `Retrieval`, `EvalTurns`,
  `EvalVerdicts`, `RetrievalEval`, `Settings`, `Guardrails`, `Redaction`: none; only
  safety is checked of them.

## Assumptions

* Restore: a rename is atomic; a power loss drops a suffix of the directory
  changes made since the last fsync of the directory; a file that was not
  fsynced may come back torn; SHA-256 does not collide; the flock has one holder;
  each staged copy appears whole. The code's one transaction slot is enough
  because a clean directory is its precondition (`RecoveredIsClean` checks it).
  Stopping the agent before a restore is the operator's duty, and the agent's own
  writes are durable and atomic, which SQLite gives. A stranger's write is durable. He
  writes while a transaction is interrupted and during its undo; after the last look at
  the state files (`assertExactLiveInventory`), and under a publication, the code has no
  defence and the model has nobody write. Nobody but the lock's holder writes into
  staging or quarantine.
* Writes: SQLite serialises writers and undoes what was not committed. The
  statuses `down` and `degraded` are one, so are `investigating` and `open`: no
  branch tells them apart. Other writers hold the lock for one statement. Rows of
  a schema newer than this binary are not modelled.
* Breaker: a guard without breakers keeps no state, and the length of a backoff
  is only that it ends.
* Turns: one process. Both lock registries are process-local by design
  (`policy/budget.go:54`), so replicas over one session store are outside the model.
  The ADK runner, its executor and the session service are modelled from their use:
  a turn loads a detached snapshot, an appended event writes the snapshot's totals,
  and a response of an abandoned turn that was never appended takes its tokens with
  it. Inside the gate the policy's registry is uncontended. `CallLimit` is at least
  1, because no plugin is installed otherwise.
* Tasks: SQLite serialises writers; a pool of one connection makes the calls of one
  process wait as processes do. A document stands for a whole task. Metadata
  validation and encoding come before the transaction and change nothing. Ids
  belong to one prospective creator in `TaskPages`.
* Processes: a database is what a preflight sees of it (absent, empty, partial,
  current, foreign, torn). Recovery is what `StateGeneration` promises: it makes a
  torn generation whole or fails. ADK's migration creates its tables one by one;
  a PostgreSQL store is shared and may lose its tables to another user.
* Settings: values are classes (empty, blank, malformed, outside its bounds, within
  them, a positive time below a nanosecond). The environment parser is modelled from
  its use: an absent and an empty variable both get the default.
* Policy: a message is what the guards tell apart, what a pattern matches is an
  input, and each recognizer's matches are disjoint, as a regular expression's are.
* Snapshots: a copy of one database is consistent (SQLite's online backup), digests
  do not collide, a staging directory is only its writer's.
* Memory: SQLite serialises writers. Two applications of one user are two persons.
  A build of a model is only replaced by a later one; an endpoint that tells no
  digest is believed, as the code does.
* Evaluation: the agent under evaluation may answer anything, fail, hang or die; the
  wires follow ADK's conversion of events. A score is whether it passed. Commands
  that compare files get any artifacts at all.

## Findings

Six comments claim more than the code does, three of them in `state/restore.go`;
each has a run in which TLC reaches the state the comment excludes.

* `CrashLeavesAJournal` (restore.go:68): a crash between the making of the staging
  directory and the durable prepared journal leaves residue with no journal,
  which recovery refuses. The agent does not start until somebody removes it.
  No data is lost: the live generation was not touched.
* `FailureRollsBack` (restore.go:67): a failure in the cleanup after the commit
  returns an error with the new generation in force.
* `JournalSaysSo` (restore.go:322): when the write of the committed journal
  fails, the phase in memory says committed and the journal on disk prepared. The
  next recovery rolls back, the opposite of what the comment at the unwind says.
* `RefusedAsFound` (a2aserver/probe.go:117, serve.go:28): refusing first "leaves every
  byte exactly as it was found". The runtime connects to its session database before the
  server's preflight (cmd/agent/session_store.go:86-99), so a start refused for a foreign
  task store has made an absent `runtime.db`. What the comments promise the operator is
  kept nonetheless: `RefusedUntouched` says that nothing but that and the restore its
  recovery finished is different.
* `InterruptedBootStarts` (a2aserver/probe.go:155): a first boot killed between two
  tables of ADK's session migration leaves a file with some of them, which every
  later preflight refuses; the comment says the migration will fill what an
  interrupted first boot left, which is true of a file without tables only.
* `DependenciesCheckedAtLoad` (config/config.go:4): `Load` accepts an empty
  `AGENT_PII_MODEL`, and a blank `OPENAI_API_KEY` under Gemini, with the PII model
  enabled; the detector's constructor refuses them when the A2A server is built.

## Proofs

`CircuitBreakerProofs` proves, for every number of callers, tools, thresholds,
retries and generations the configuration check admits (`ConfigAssumption`), the
type invariant, the four properties of the run that are about safety, and the bound
of the failure count:

* `TypeCorrect`: `[]TypeOK`
* `OneProbe`: `[]ExactlyOneProbe`
* `RetiredPermits`: `[]OpenRetiresPermits`
* `BelowThreshold`: `[]ClosedBelowThreshold`
* `Cooldowns`: the action property `CooldownUndisturbed`
* `Outcomes`: the action property `OutcomesCount`

No safety invariant here is inductive alone. `IndInv` adds that no
caller holds a permit of a generation the breaker has not reached
(`PermitsBounded`): when a breaker moves to generation g+1, that is what says
nobody holds a permit for g+1 yet, so the admitted probe is the only one and an
opened breaker honours nobody. `BudgetLeft` bounds the attempts for the type
invariant. The proof has one lemma per method of `Breaker` and, in `Inductive`,
one step per action of `Next`.

`SessionLocksProofs` proves, for any users, sessions and lock objects:

* `TypeCorrect`: `[]TypeOK`, in particular no count goes below zero
* `ExactRegistry`: `[]RegistryIsExact`, which is `LockKept` and `NothingLeftBehind`
* `CountsAreExact`: `[]RefsCounted`
* `OneAtATime`: `OneInside`, which is that the registry implements `SessionMutex`

The argument is about counts. `Release` deletes an entry when the count falls to
zero, so it is safe only if the count is exact: `RefsCounted` says it is the
cardinality of the lock's users, and the proof moves that cardinality with each
`Acquire` and `Release` by the theorems on finite sets. With it `LockKept` follows:
while somebody waits the count is positive and the entry stays. `NotShared` (two
sessions never have one lock) and `HasLock` (whoever is past `Acquire` has one)
are what a reused lock object could break. `Alone` (one user inside per lock) then
gives one user inside per session, which is the refinement's only guard.

`TaskStoreProofs` proves, for any clients, callers, tasks, documents, initial schemas
and bound on the versions (`StoreAssumption`), with a failure or a death at every
statement:

* `TypeCorrect`: `[]TypeOK`
* `Answers`: `[]AnswersHold`
* `Reopening`: `[]Reopens`
* `NoUpdateLost`: the action property `NoLostUpdate`
* `Numbered`: `NumberedSteps`, which is that the store implements `TaskRows`

The invariants the run checks speak of clients that were told something, and a client
is told only after the commit: between the two another client may write, die or be
told. So `IndInv` counts an answer that is on its way as told already (`Told`). It says
that whoever is past BEGIN holds the lock (`Held`), that a write therefore still
replaces what its transaction read (`Ready`), that a version a call carries is of the
row its client knows (`Prior`), that what anybody is told is a state the row has or had
(`Truthful`), and that no version was told for two states (`Agreed`): a commit takes a
version greater than any that was told, which is `Truthful` and `Ready` together. The
proof has a lemma for each kind of step (a call that goes on, one that rolls back, one
that commits, one that is told) and one step per action of `Next`.

`StateRestoreProofs` proves, for any file names, contents, generations and snapshots,
with a crash, a power loss or a failed system call at any step of any number of
sessions, the first four while nobody writes state files without the lock
(`Undisturbed`), the last whoever does, also between a look at a file and what is done
with it, as long as what a stranger writes is in no
generation and no snapshot (`ForeignApart`):

* `Actionable`: `[]JournalActionable`
* `Whole`: `[]RecoveryIsWhole`
* `JournalFirst`: the action property `JournalBeforeMutation`
* `Refines`: `OneGeneration`, which is that a restore implements `StateGeneration`
* `StrangersAreSafe`: `ForeignIsSafe`, the formula `ForeignStays` checks on an instance

A power loss may leave any disk of the window, so an invariant of the present disk says
too little: `Windowed` says that each of them is `Good`, that is, its journal and what
is beside it fit as recovery needs them, and that they tell one story (`OneLive`,
`OneOutcome`): either none saw a state file move or each has a durable journal, and all
recover to one generation, but for a commit under way, of which they hold the two
sides. This is where the fsyncs are used: an fsync of the directory makes the window
one disk, and a rename may follow only then (`Synced`). `Sessions` says for each step
what the session knows of the disk (`Fits`). `Agents` has an agent serve from a clean
disk only. The step of the proof is, for each action, that the new disk is `Good` and
agrees with every disk of the window; a rename moves one name, whose evidence
(`RollbackAt`, `ForwardAt`) is looked at alone, for any number of names. `Outcome` must
not move except by a commit or an agent, which is the refinement.

A stranger's write may break that invariant: a disk that shows no evidence for its
journal is not `Good`, and stays refused. `StrangersAreSafe` has one of its own, `ForeignInv`, which asks of a
disk only whose files it holds (`Owned`): journals name known generations, staging and
quarantine hold no stranger's file, and without a journal the state files are a known
generation. `Watched` adds that a stranger's live file is on every disk of the window, so
that no power loss takes it away. `Informed` says what a session has looked at before it
touches a live file: a publication starts from a known generation and nothing can change
it under the publication's journal. An undo lists the directory once for each loop, so it
cannot know of what comes later: a stranger's file is still to come in its loop, where the
comparison refuses it, or its name is one somebody touched since the listing (`late`).
Those names `ForeignKept` excepts, because the code replaces such a file: a file made under
a name that was removed already is lost in the rename of `reinstateOldGeneration`, and one
exchanged between comparison and removal is removed. What holds without exception is that
no mix is ever served (`NothingGuessed`): `assertExactLiveInventory` looks once more. TLC
checks `ForeignInv` with failing system calls and a stranger at once (396 949 states), and
finds `ForeignKept` violated when the exception is dropped.

`AuditedWritesProofs` proves, for any workers, requests, datasets, databases found and
bound on the trail (`WritesAssumption`), with a failure or a death at every step:

* `TypeCorrect`: `[]TypeOK`
* `Answers`: `[]AnswersAreRecorded`
* `Accountable`: the action property `WritesAccountable`
* `Once`: `ExactlyOnce`, which is that the handlers implement `AuditTrail`

A transaction works on a copy that it commits later, so the invariant says what the copy
is: who is in a transaction holds the lock (`Held`), so the committed database is the
one it read, its changes are the effect of its request on that, its row is the one row
appended, and its key had none (`Seen`). The published database is never replaced, and
a commit appends a row of a new key, so the first row of any other key stays where it
is and answers that were given, or are on their way, stay true (`Heard`).

`TurnsProofs` proves, for any turns, sessions, costs and limits (`Configured`), with
store failures, abandoned turns and crashes:

* `Totals`: `[]TokensAccounted`
* `Served`: `[]TurnsAreServed`

It uses the invariant of `SessionLocksProofs` for the gate, through an instance, and
does not open the registry again: `Placed` says where a turn's program counter puts it
in the gate, so two turns past `Load` would be two users inside. That gives `Snapshot`:
what a turn loaded is still what the store has, up to the cost of its last call.
`Accounted` follows, and the one call over budget with it: a call is admitted below
the budget and adds one cost at most. `Counted` has the invocation's counter zero
outside its turn, which is what the cleanup in `afterRun` is for.

Of `TaskPages`, `TaskStoreProofs` proves, for any tasks, clients, callers, filters, page
sizes and stamps (`PagesAssumption`):

* `PagesTypeCorrect`: `[]PagesTypeOK`
* `Exact`: `[]WalksAreExact`

The cursor is a place in an order that updates rearrange. The invariant follows the
tasks that were left alone: until shown they match and are ahead of the cursor
(`Ahead`), afterwards behind it (`Behind`), and while the clock was not set back no
update is stamped below a token (`Tokened`, `Stamped`), so nothing that was shown
comes ahead again. That a page is all rows between two cursors is an argument about
the cardinalities by which the model takes a page (`PageIsPrefix`, `LastPage`).

`AgentProcessProofs` proves, for any processes, kinds, restarts, requests and databases
found (`ProcessesAssumption`), with a failure or a kill at every step:

* `TypeCorrect`: `[]TypeOK`
* `Refusal`: `[]RefusedUntouched`
* `WayOut`: `[]ReleasedInOrder`
* `Readiness`: the action property `ReadyIsTrue`, if a restore tears the dataset with
  the rest of a generation (`TornTogether`)

Every early return has its own list of releases; the invariant `Sane` says that what a
process has released and what it has left make up one of four plans, each with the
flush last. A release moves the boundary within a plan, so order, uniqueness and the
flush follow for all returns at once. `Served` has requests under way only where a
process serves, drains or was forced out, so an orderly end cuts none. Up to its
preflight every change of a start is a harmless one (`Histories`). For readiness the
dataset is torn as long as the journal is there, and a process past its recovery has
removed the journal (`Generation`), so there is none when a probe is answered, although no
probe looks for it. What a probe has passed without a problem was in order since it came
(`Looked`), however the stores changed between its looks; that they still are is not
claimed, and would not be true of the shared store, which `DropShared` may empty at any
moment.

It also proves, for any environment,

* `HonestSettings`: `[]SettingsAreHonest`

A variable left alone has its default, and no phase of `Load` objects to a default
(`Defaults`), so a problem names something that is set. What all three phases accepted
(`Admitted`) is then put to each constructor in turn: every check it repeats is one the
phases made, but for a time that truncates to no duration.

And for any tools, trust, policies and lengths of a session (`GuardrailsAssumption`),

* `Guards`: `[]GuardrailsHold`

A window cut anywhere but before a result has the call of each result it has, because a
result follows its call with nothing but results between (`AskedFor`). That order is an
invariant of the session: calls wait for their results (`Pending`), and nothing is said
meanwhile. That there is a first place to cut at (`LeastOf`) is a minimum of a finite
set, by the well-founded order of its subsets.

`ServicesProofs` proves:

* `RunTypeCorrect`: `[]RunTyped`, and `HonestEvaluation`: `[]EvaluationIsHonest`, for any
  evalset, flags, agent and judge (`EvaluationAssumption`)
* `MeasuredRates`: `[]BothModesMeasured`, for any questions (`MeasureAssumption`)
* `EarnedVerdicts`: `[]VerdictsAreEarned`, for any artifacts and calibration sets
  (`VerdictsAssumption`)
* `SnapshotsStay`: the action property `SnapshotsHold`, for any directories, databases
  and backups (`SnapshotsAssumption`)
* `LikeIsRankedWithLike`: the action property `RunbooksAreIndexed`, for any workers,
  corpora, builds and dimensions (`RunbooksAssumption`)

Of a run, `Cleaned` says at each step what of the child and its directory may be left and
that the run then has failed; `Evaluated` that only the verified build answers; and
`Recorded` that the rows are exactly the cases and samples played so far, whose number
(`Holds`) makes a whole run of an artifact that has as many rows as are expected. A score
that failed is in the case being played or in a row of its id (`Failing`), so a passing
summary has none. Of a comparison, two runs that can be compared have the same samples with the same
scores (`Matched`): each row has a twin, and a count of rows is compared by that map
(`Fewer`), whose finite sums and cardinalities are inductions over finite sets done by a
smallest counterexample. Of retrieval, builds only get later (`Sampled`), so a digest that
is the same before and after a vector was made names the artifact that made it; who
found the index stale holds the write lock until it has replaced it (`Building`). Of
snapshots, whatever a backup is about to remove has a newer complete one (`Spared`), and
if that goes, it is for a newer one still.

### Assumptions of the theorems

Each module's named assumption types its constants and is evaluated by TLC on every run.
Those that say more: `NoLock`, `NoTask`, `Missing` and `"nobody"` are no members of the
sets they stand outside of; every short rationale is one the redaction is defined on;
`Users`, `Ids` and `Costs` are finite, and so are timestamps and the rows of an artifact;
an evalset and a set of questions have a member, as their loaders insist; timestamps have
an order; an index of another format is another binary's; a window is a number. `Undisturbed` restates the operator's duty to
stop the agent and leave the directory alone; what happens when somebody does not is
`StrangersAreSafe`, where `ForeignApart` says who a stranger is: his bytes match nothing
a journal may record (`removePublishedGeneration`). `TornTogether` is how a restore works: it replaces
every file of the generation, the dataset among them. TLC evaluates it for `Agent`.

### Left to TLC

* Liveness (`ProbeResolves`, `SessionsEnd`, `LockReleased`, `EveryTurnEnds`,
  `SignalledEnds`, `HarnessEnds`): fairness and ENABLED are out of the prover's reach.
* `MasksAreExact`, `TurnsAreTold`: what a sort and a fold make of any sequence of spans or
  of events is an induction over data. TLC checks every sequence within the bounds.
* `MemoryIsWhole`: the rows of a person and of a session are picked from tables with
  `SelectSeq`, and what that leaves of any table is an induction over data too. TLC checks
  every interleaving of the bounds.

## Plan

1. `CircuitBreaker`, its proofs. Done.
2. `StateGeneration`, `StateRestore`. Done.
3. `AuditTrail`, `AuditedWrites`. Done.
4. `SessionMutex`, `SessionLocks`, their proofs; `Turns`. Done.
5. `TaskRows`, `TaskStore`. Done.
6. `TaskPages`. Done.
7. `AgentProcess`: startup, readiness, drain and release. Done.
8. `Snapshots`. Done.
9. `Notes`, `Retrieval`. Done.
10. `Settings`; `Guardrails`, `Redaction`. Done.
11. `Evaluation`, `EvalTurns`, `EvalVerdicts`, `RetrievalEval`. Done.
12. `TaskStoreProofs`. Done.
13. `TurnsProofs`, `AuditedWritesProofs`, `StateRestoreProofs`, the proofs of `TaskPages`,
    `AgentProcessProofs`. Done.
14. `ServicesProofs`; the proofs of `Settings` and `Guardrails`. Done.
15. `StrangersAreSafe`. Done.
16. The invariants of `Notes`.

## Not modelled

Text (patterns, prompts, reports, card rendering, groundedness), numeric ranking and
drift statistics, request plumbing to model providers and the one retry on another
model, the scripted drill, the checks of the course site, infrastructure scripts, the
web page and the course. They keep no state a model checker would interleave, or
their correctness is what a string contains. `PROJECT.json` lists each with its
reason.
