---------------------------- MODULE AgentProcess ----------------------------
(***************************************************************************)
(* The life of the agent's processes over one state directory: a command   *)
(* line (cmd/agent), the assembly of the runtime, the A2A startup sequence *)
(* and its preflight, serving, readiness, the drain, and what is released  *)
(* on the way out of every failure (a2aserver, mcpserver).                 *)
(*                                                                         *)
(* A step of the startup is an action; every step may fail, and what is    *)
(* released then is the list the code releases on that path. A process may *)
(* be killed between any two steps and is started again. The recovery of   *)
(* an interrupted restore is StateRestore; here it makes a torn generation *)
(* whole or fails. Databases are told apart by what a preflight sees. A    *)
(* probe looks at one dependency after another, and the databases may      *)
(* change between two looks and before the answer.                         *)
(*                                                                         *)
(* `changed` and `sound` are history, not state of the program: what a     *)
(* start did to the databases, and what was in order since a probe came.   *)
(*                                                                         *)
(* A definition Name_Fault is Name as a plausible slip would have left it;  *)
(* nothing uses it but a check that some property notices the slip.        *)
(***************************************************************************)
EXTENDS Integers, Sequences, FiniteSets

CONSTANTS
  Processes,
  Kinds,     \* the assignments of kinds of process that are deployed together
  Requests,  \* requests and probes under way, over all processes
  Starts,    \* process -> bound on its starts
  Found      \* the databases that a deployment may find

\* foreign: of a generation this binary does not read. partial: some of the
\* tables of a migration. torn: what a restore was replacing when it died.
Content == {"absent", "empty", "partial", "current", "foreign", "torn"}
Databases == {"dataset", "sessions", "tasks", "shared"}

\* How the constants fit together.
ProcessesAssumption ==
  /\ "nobody" \notin Processes
  /\ Kinds \subseteq [Processes -> {"a2a", "launcher", "mcp", "stdio"}]
  /\ Found \subseteq [Databases -> Content]
  /\ \A found \in Found : found["shared"] # "torn"

\* A restore replaces the whole generation of a directory, so one that died tore the
\* dataset with the rest.
TornTogether == \A found \in Found :
  "torn" \in {found[d] : d \in Databases} => found["dataset"] = "torn"

VARIABLES
  backend,  \* where sessions live: the file, or the shared PostgreSQL server
  kind,     \* process -> the surface it serves
  disk,     \* the databases, and the journal of an interrupted restore
  proc,     \* process -> how far it is
  request,  \* request -> where it is served, and its answer
  changed,  \* process -> what its start did to the databases (not in the program)
  sound     \* probe under way -> what was in order since it came (not in the program)

programVars == <<backend, kind, disk, proc, request>>
vars == <<programVars, changed, sound>>

SessionDatabase == IF backend = "postgres" THEN "shared" ELSE "sessions"

Process == [pc: {"idle", "recover", "assemble", "telemetry", "planes", "sessions", "wire",
                 "start", "preflight", "dataset", "migrate", "tasks", "handler", "listen",
                 "serving", "draining", "unwind", "exited"},
            held: SUBSET {"telemetry", "sessions", "tasks"},
            release: Seq({"telemetry", "sessions", "tasks"}),
            released: Seq({"telemetry", "sessions", "tasks"}), \* (not in the program)
            code: {"none", "valid", "invalid"},
            refused: BOOLEAN,    \* by the preflight (not in the program)
            abandoned: BOOLEAN,  \* the deadline or the listener cut it (not in the program)
            signalled: BOOLEAN,
            starts: Nat]

NewProcess(starts) ==
  [pc |-> "idle", held |-> {}, release |-> <<>>, released |-> <<>>, code |-> "none",
   refused |-> FALSE, abandoned |-> FALSE, signalled |-> FALSE, starts |-> starts]

Request == [at: Processes \cup {"nobody"}, kind: {"turn", "probe"},
            stage: {"dataset", "directory", "sessions", "tasks", "model", "answer"}, \* of a probe
            problem: BOOLEAN,
            answer: {"none", "done", "ready", "unready",
                     "cut", "forced"}]  \* cut, by an orderly end or by force
NoRequest == [at |-> "nobody", kind |-> "turn", stage |-> "dataset", problem |-> FALSE,
              answer |-> "none"]

TypeOK ==
  /\ backend \in {"sqlite", "postgres"}
  /\ kind \in [Processes -> {"a2a", "launcher", "mcp", "stdio"}]
  /\ disk \in [journal: BOOLEAN, db: [Databases -> Content]]
  /\ proc \in [Processes -> Process]
  /\ request \in [Requests -> Request]
  /\ changed \in [Processes -> SUBSET (Databases \X Content \X Content)]
  /\ sound \in [Requests -> SUBSET Databases]

\* A directory as an operator may hand it over: a first boot, a generation that
\* was restored or moved, or one whose restore died.
Init ==
  /\ backend \in {"sqlite", "postgres"}
  /\ kind \in Kinds
  /\ \E found \in Found : disk = [journal |-> "torn" \in {found[d] : d \in Databases}, db |-> found]
  /\ proc = [p \in Processes |-> NewProcess(0)]
  /\ request = [r \in Requests |-> NoRequest]
  /\ changed = [p \in Processes |-> {}]
  /\ sound = [r \in Requests |-> {}]

-----------------------------------------------------------------------------
(* Control *)

At(p, pc) == proc[p].pc = pc
Goto(p, pc) == proc' = [proc EXCEPT ![p].pc = pc]
Hold(p, what, pc) == proc' = [proc EXCEPT ![p].pc = pc, ![p].held = @ \cup {what}]

\* Leave with the releases that the code has deferred, or does by hand, there.
Leave(p, ok, seq) ==
  proc' = [proc EXCEPT ![p].pc = "unwind", ![p].release = seq,
             ![p].code = IF ok THEN "valid" ELSE "invalid"]

Write(p, d, content) == disk' = [disk EXCEPT !.db[d] = content]
InFlight(p) == {r \in Requests : request[r].at = p /\ request[r].answer = "none"}
Cut(p) == IF proc[p].abandoned THEN "forced" ELSE "cut"
Conversational(p) == kind[p] \in {"a2a", "launcher"}
Others == <<backend, kind, request>>

-----------------------------------------------------------------------------
(* The command line *)

\* execute, serveA2A, run, serveMCP: privacy defaults, arguments and configuration
\* are refused before anything is touched. MCP recovers nothing: it only reads.
Execute(p) ==
  /\ At(p, "idle") \/ At(p, "exited")
  /\ proc[p].starts < Starts[p]
  /\ \E accepted \in BOOLEAN :
       proc' = [proc EXCEPT ![p] =
                  [NewProcess(proc[p].starts + 1) EXCEPT
                     !.pc = IF ~accepted THEN "unwind"
                            ELSE IF Conversational(p) THEN "recover" ELSE "assemble",
                     !.code = IF accepted THEN "none" ELSE "invalid"]]
  /\ UNCHANGED <<disk, Others>>

\* The signal cancels the context. A step of the startup that watches it fails,
\* which it may anyway, and one that does not leaves it to Serve: so a signal that
\* comes earlier is one that comes just before the listener.
Signal(p) ==
  /\ At(p, "listen") \/ At(p, "serving")
  /\ ~proc[p].signalled
  /\ proc' = [proc EXCEPT ![p].signalled = TRUE]
  /\ UNCHANGED <<disk, Others>>

Recovered == [journal |-> FALSE,
              db |-> [d \in Databases |-> IF disk.db[d] = "torn" THEN "current" ELSE disk.db[d]]]

\* recoverRuntimeState, and Server.Start's first step again.
Recover(p, next, release) ==
  \/ disk' = Recovered /\ Goto(p, next)
  \/ Leave(p, FALSE, release) /\ UNCHANGED disk

RecoverState(p) ==
  /\ At(p, "recover")
  /\ Recover(p, "assemble", <<>>)
  /\ UNCHANGED Others

-----------------------------------------------------------------------------
(* newAgentRuntime, newMCPServer *)

\* Guard, skills, policy and build information: nothing to release yet.
Assemble(p) ==
  /\ At(p, "assemble")
  /\ Goto(p, "telemetry") \/ Leave(p, FALSE, <<>>)
  /\ UNCHANGED <<disk, Others>>

InstallTelemetry_FailsSilently(p) ==
  /\ At(p, "telemetry")
  /\ \/ Hold(p, "telemetry", "planes")
     \/ proc' = [proc EXCEPT ![p].pc = "unwind", ![p].code = "invalid",
                   ![p].held = {"telemetry"}]
  /\ UNCHANGED <<disk, Others>>

\* A failed installation hands out a flush too: part of it may be installed.
InstallTelemetry(p) ==
  /\ At(p, "telemetry")
  /\ \/ Hold(p, "telemetry", "planes")
     \/ proc' = [proc EXCEPT ![p].pc = "unwind", ![p].code = "invalid",
                   ![p].held = {"telemetry"}, ![p].release = <<"telemetry">>]
  /\ UNCHANGED <<disk, Others>>

\* Model, tools, memory, MCP toolset and compositions; for the MCP server its
\* tools and the server. None of them opens a database.
BuildPlanes(p) ==
  /\ At(p, "planes")
  /\ \/ Goto(p, IF Conversational(p) THEN "sessions" ELSE "listen")
     \/ Leave(p, FALSE, <<"telemetry">>)
  /\ UNCHANGED <<disk, Others>>

\* openSessionStore: the connection makes an absent file an empty one.
OpenSessions(p) ==
  /\ At(p, "sessions")
  /\ \/ /\ Hold(p, "sessions", IF kind[p] = "a2a" THEN "wire" ELSE "migrate")
        /\ IF backend = "sqlite" /\ disk.db["sessions"] = "absent"
           THEN Write(p, "sessions", "empty")
           ELSE UNCHANGED disk
     \/ Leave(p, FALSE, <<"telemetry">>) /\ UNCHANGED disk
  /\ UNCHANGED Others

\* The detector, the prompt guard, a2aserver.New with its options and its card.
Wire(p) ==
  /\ At(p, "wire")
  /\ Goto(p, "start") \/ Leave(p, FALSE, <<"sessions", "telemetry">>)
  /\ UNCHANGED <<disk, Others>>

-----------------------------------------------------------------------------
(* Server.Start *)

\* A failure before the handler leaves the session pool to the process's end.
StartFails(p) == Leave(p, FALSE, <<"telemetry">>)

StartRecovers(p) ==
  /\ At(p, "start")
  /\ Recover(p, "preflight", <<"telemetry">>)
  /\ UNCHANGED Others

\* checkSessionSchema and checkTaskStoreVersion, over a file that is there; a
\* file without tables passes, and the shared store is not this generation's.
Compatible ==
  /\ backend = "postgres" \/ disk.db["sessions"] \in {"absent", "empty", "current"}
  /\ disk.db["tasks"] \in {"absent", "empty", "current"}

Preflight(p) ==
  /\ At(p, "preflight")
  /\ IF Compatible
     THEN Goto(p, "dataset") \/ StartFails(p)
     ELSE proc' = [proc EXCEPT ![p].pc = "unwind", ![p].code = "invalid",
                     ![p].release = <<"telemetry">>, ![p].refused = TRUE]
  /\ UNCHANGED <<disk, Others>>

\* store.PrepareRuntimeDatabase: publication of a database is one rename.
PrepareDataset_First(p) ==
  /\ At(p, "start")
  /\ \/ Write(p, "dataset", "current") /\ Goto(p, "preflight")
     \/ StartFails(p) /\ UNCHANGED disk
  /\ UNCHANGED Others

PrepareDataset(p) ==
  /\ At(p, "dataset")
  /\ \/ Write(p, "dataset", "current") /\ Goto(p, "migrate")
     \/ StartFails(p) /\ UNCHANGED disk
  /\ UNCHANGED Others

\* sessionStore.migrate: ADK's schema, a statement for each table. The launcher
\* migrates what it opened, without a preflight.
MigrateSessions(p) ==
  LET d == SessionDatabase
      next == IF kind[p] = "a2a" THEN "tasks" ELSE "listen"
  IN
  /\ At(p, "migrate")
  /\ \/ disk.db[d] \in {"absent", "empty"} /\ Write(p, d, "partial") /\ Goto(p, "migrate")
     \/ disk.db[d] # "foreign" /\ Write(p, d, "current") /\ Goto(p, next)
     \/ /\ IF kind[p] = "a2a" THEN StartFails(p)
           ELSE Leave(p, FALSE, <<"sessions", "telemetry">>)
        /\ UNCHANGED disk
  /\ UNCHANGED Others

\* OpenTaskStore: its schema and the version marker are one transaction.
OpenTasks(p) ==
  /\ At(p, "tasks")
  /\ \/ /\ disk.db["tasks"] # "foreign"
        /\ Write(p, "tasks", "current")
        /\ Hold(p, "tasks", "handler")
     \/ StartFails(p) /\ UNCHANGED disk
  /\ UNCHANGED Others

\* Server.Close: the tasks, then the sessions, whatever either says.
ServerClose(p) == IF kind[p] = "a2a" THEN <<"tasks", "sessions">> ELSE
                  IF kind[p] = "launcher" THEN <<"sessions">> ELSE <<>>
CloseAndFlush(p) == ServerClose(p) \o <<"telemetry">>

BuildHandler(p) ==
  /\ At(p, "handler")
  /\ Goto(p, "listen") \/ Leave(p, FALSE, CloseAndFlush(p))
  /\ UNCHANGED <<disk, Others>>

-----------------------------------------------------------------------------
(* Serving *)

Listen(p) ==
  /\ At(p, "listen")
  /\ Goto(p, "serving") \/ Leave(p, FALSE, CloseAndFlush(p))
  /\ UNCHANGED <<disk, Others>>

Arrive(r, p) ==
  /\ At(p, "serving") /\ ~proc[p].signalled
  /\ request[r] = NoRequest
  /\ \E k \in IF kind[p] \in {"a2a", "mcp"} THEN {"turn", "probe"} ELSE {"turn"} :
       request' = [request EXCEPT ![r].at = p, ![r].kind = k]
  /\ UNCHANGED <<backend, kind, disk, proc>>

\* A turn reads and appends to both stores; on closed ones it fails.
Turn(r) ==
  /\ request[r].at # "nobody" /\ request[r].kind = "turn" /\ request[r].answer = "none"
  /\ LET server == request[r].at
         closed == {proc[server].released[i] : i \in DOMAIN proc[server].released}
     IN request' = [request EXCEPT ![r].answer =
                      IF closed \cap {"sessions", "tasks"} # {} THEN Cut(server) ELSE "done"]
  /\ UNCHANGED <<backend, kind, disk, proc>>

\* probeFileSessionStore and ProbePostgresSessionStore: of the store the turns use,
\* the file on a connection of the probe's own, the server on the pool's.
SessionsSound_File == disk.db["sessions"] = "current"

SessionsSound == disk.db[SessionDatabase] = "current"

Probing(r, stage) ==
  /\ request[r].at # "nobody" /\ request[r].kind = "probe" /\ request[r].answer = "none"
  /\ request[r].stage = stage

\* One dependency was looked at, and the next one comes. Every problem is collected.
Look(r, inOrder, next) ==
  /\ request' = [request EXCEPT ![r].stage = next, ![r].problem = @ \/ ~inOrder]
  /\ UNCHANGED <<backend, kind, disk, proc>>

\* handleReadiness looks at one dependency after another, and repairs none; a look
\* may also fail for a reason of its own. The MCP server looks at the dataset alone.
ProbeDataset(r) ==
  LET next == IF kind[request[r].at] = "a2a" THEN "directory" ELSE "answer" IN
  /\ Probing(r, "dataset")
  /\ \/ disk.db["dataset"] = "current" /\ Look(r, TRUE, next)
     \/ Look(r, FALSE, next)

ProbeDirectory(r) ==
  /\ Probing(r, "directory")
  /\ \E writable \in BOOLEAN : Look(r, writable, "sessions")

\* probeStateStores: the first store that is not in order is the problem.
ProbeSessions(r) ==
  /\ Probing(r, "sessions")
  /\ \/ SessionsSound /\ Look(r, TRUE, "tasks")
     \/ Look(r, FALSE, "model")

ProbeTasks(r) ==
  /\ Probing(r, "tasks")
  /\ \/ disk.db["tasks"] = "current" /\ Look(r, TRUE, "model")
     \/ Look(r, FALSE, "model")

\* The named-entity model, if the prompt guard has one.
ProbeModel(r) ==
  /\ Probing(r, "model")
  /\ \E answers \in BOOLEAN : Look(r, answers, "answer")

AnswerProbe(r) ==
  /\ Probing(r, "answer")
  /\ request' = [request EXCEPT ![r].answer = IF request[r].problem THEN "unready" ELSE "ready"]
  /\ UNCHANGED <<backend, kind, disk, proc>>

Probe(r) ==
  \/ ProbeDataset(r) \/ ProbeDirectory(r) \/ ProbeSessions(r) \/ ProbeTasks(r) \/ ProbeModel(r)
  \/ AnswerProbe(r)

Hear(r) ==
  /\ request[r].at # "nobody" /\ request[r].answer # "none"
  /\ request' = [request EXCEPT ![r] = NoRequest]
  /\ UNCHANGED <<backend, kind, disk, proc>>

\* An error of the listener ends Serve without a drain.
ListenerFails(p) ==
  /\ At(p, "serving")
  /\ proc' = [proc EXCEPT ![p].pc = "unwind", ![p].code = "invalid", ![p].abandoned = TRUE,
                ![p].release = CloseAndFlush(p)]
  /\ UNCHANGED <<disk, Others>>

\* The listener stops accepting.
Drain(p) ==
  /\ At(p, "serving") /\ proc[p].signalled /\ kind[p] # "stdio"
  /\ Goto(p, "draining")
  /\ UNCHANGED <<disk, Others>>

\* serveStdio: its one client owns its lifetime; the cancellation ends it at once.
StdioEnds(p) ==
  /\ At(p, "serving") /\ proc[p].signalled /\ kind[p] = "stdio"
  /\ proc' = [proc EXCEPT ![p].pc = "unwind", ![p].code = "valid", ![p].abandoned = TRUE,
                ![p].release = <<"telemetry">>]
  /\ UNCHANGED <<disk, Others>>

\* Shutdown answers nil when no connection is busy, within the drain's deadline,
\* which the cancellation that began it does not shorten.
Drained(p) ==
  /\ At(p, "draining")
  /\ InFlight(p) = {}
  /\ Leave(p, TRUE, CloseAndFlush(p))
  /\ UNCHANGED <<disk, Others>>

DrainDeadline_Endless(p) ==
  /\ At(p, "draining")
  /\ InFlight(p) = {}
  /\ Leave(p, FALSE, CloseAndFlush(p))
  /\ UNCHANGED <<disk, Others>>

DrainDeadline(p) ==
  /\ At(p, "draining")
  /\ InFlight(p) # {}
  /\ proc' = [proc EXCEPT ![p].pc = "unwind", ![p].code = "invalid", ![p].abandoned = TRUE,
                ![p].release = CloseAndFlush(p)]
  /\ UNCHANGED <<disk, Others>>

-----------------------------------------------------------------------------
(* The way out *)

\* Each release runs even if one before it failed. A failing close is an error of
\* the A2A server and a log line of the launcher; a failing flush is a log line.
Release(p) ==
  /\ At(p, "unwind") /\ proc[p].release # <<>>
  /\ \E fails \in BOOLEAN :
       LET what == Head(proc[p].release) IN
       proc' = [proc EXCEPT ![p].release = Tail(@), ![p].released = Append(@, what),
                  ![p].held = @ \ {what},
                  ![p].code = IF fails /\ what # "telemetry" /\ kind[p] = "a2a"
                              THEN "invalid" ELSE @]
  /\ UNCHANGED <<disk, Others>>

\* report, os.Exit: the descriptors go with the process, and so do its requests.
Exit(p) ==
  /\ At(p, "unwind") /\ proc[p].release = <<>>
  /\ Goto(p, "exited")
  /\ request' = [r \in Requests |-> IF r \in InFlight(p)
                                    THEN [request[r] EXCEPT !.answer = Cut(p)] ELSE request[r]]
  /\ UNCHANGED <<backend, kind, disk>>

Die(p) ==
  /\ proc[p].pc \notin {"idle", "exited"}
  /\ proc' = [proc EXCEPT ![p] = [NewProcess(@.starts) EXCEPT !.pc = "exited"]]
  /\ request' = [r \in Requests |-> IF r \in InFlight(p)
                                    THEN [request[r] EXCEPT !.answer = "forced"] ELSE request[r]]
  /\ UNCHANGED <<backend, kind, disk>>

\* Another deployment, or an operator, drops the shared session tables.
DropShared ==
  /\ backend = "postgres" /\ disk.db["shared"] = "current"
  /\ disk' = [disk EXCEPT !.db["shared"] = "absent"]
  /\ UNCHANGED <<backend, kind, proc, request>>

Step(p) ==
  \/ RecoverState(p) \/ Assemble(p) \/ InstallTelemetry(p) \/ BuildPlanes(p)
  \/ OpenSessions(p) \/ Wire(p) \/ StartRecovers(p) \/ Preflight(p) \/ PrepareDataset(p)
  \/ MigrateSessions(p) \/ OpenTasks(p) \/ BuildHandler(p) \/ Listen(p)
  \/ Drain(p) \/ StdioEnds(p) \/ Drained(p) \/ DrainDeadline(p) \/ Release(p) \/ Exit(p)

\* What p has done to the databases, each as it was and as it is, until its start is
\* past the preflight.
Early == {"recover", "assemble", "telemetry", "planes", "sessions", "wire", "start", "preflight"}
Change(p) ==
  changed' = [changed EXCEPT ![p] =
    IF proc[p].pc \in Early
    THEN @ \cup {<<d, disk.db[d], disk'.db[d]>> : d \in {e \in Databases : disk'.db[e] # disk.db[e]}}
    ELSE IF proc'[p].refused THEN @ ELSE {}]

InOrder == {d \in Databases : disk.db[d] = "current"}

Observe ==
  sound' = [r \in Requests |-> IF request'[r].kind = "probe" /\ request'[r].answer = "none"
                               THEN sound[r] \cup InOrder' ELSE {}]

Next ==
  \/ \E p \in Processes :
       (Step(p) \/ Execute(p) \/ Signal(p) \/ ListenerFails(p) \/ Die(p)) /\ Change(p) /\ Observe
  \/ /\ \/ \E r \in Requests : Turn(r) \/ Probe(r) \/ Hear(r) \/ \E p \in Processes : Arrive(r, p)
        \/ DropShared
     /\ UNCHANGED changed /\ Observe

\* A process is scheduled, and its timers run. Requests promise nothing.
Fairness == \A p \in Processes : WF_programVars(Step(p))

Spec == Init /\ [][Next]_vars /\ Fairness

-----------------------------------------------------------------------------
(* What must hold *)

\* A start that the preflight refused has finished a restore that died and made an
\* absent session database an empty one, and changed nothing else: what it would have
\* migrated is as it was, so that an operator can still select a matching snapshot.
Harmless == {<<"sessions", "absent", "empty">>} \cup {<<d, "torn", "current">> : d \in Databases}
RefusedUntouched == \A p \in Processes : proc[p].refused => changed[p] \subseteq Harmless

\* "Every byte on disk is still exactly as it was found" when the preflight refuses,
\* but for the restore that its recovery finished.
RefusedAsFound ==
  \A p \in Processes : proc[p].refused => \A change \in changed[p] : change[2] = "torn"

\* However it ends, short of being killed, a process flushes what describes its
\* end, once, and after the stores it closes; and what it closes is closed once.
ReleasedOnce == TypeOK /\
  \A p \in Processes :
    LET out == proc[p].released IN
    /\ \A i, j \in DOMAIN out : out[i] = out[j] => i = j
    /\ proc[p].pc = "exited" => "telemetry" \notin proc[p].held
    /\ \A i \in DOMAIN out : out[i] = "telemetry" => i = Len(out)

\* A request is cut only by a killed process, a listener that broke or a drain
\* that ran into its deadline: never by the orderly end of a process.
CutOnlyByForce == \A r \in Requests : request[r].answer # "cut"

\* What is held is released once and in order, and no request is cut but by force.
ReleasedInOrder == ReleasedOnce /\ CutOnlyByForce

\* A replica that says it is ready has no restore to recover from, and every store
\* its turns use was in order at some moment since the probe came: its answer may
\* be out of date, as each store is looked at once, and is never about another store.
Needed(p) == {"dataset"} \cup IF kind[p] = "a2a" THEN {SessionDatabase, "tasks"} ELSE {}
ReadyIsTrue ==
  [][\A r \in Requests :
       request[r].answer = "none" /\ request'[r].answer = "ready" =>
         ~disk.journal /\ Needed(request[r].at) \subseteq sound[r]]_vars

\* A signalled process ends, whatever its requests, its collector or its stores do.
SignalledEnds == \A p \in Processes : proc[p].signalled ~> At(p, "exited")

\* "A file with no user tables is what an interrupted first boot leaves behind":
\* a directory with nothing foreign in it is not refused, killed though its
\* processes were.
InterruptedBootStarts ==
  \A p \in Processes : proc[p].refused =>
    "foreign" \in {disk.db["sessions"], disk.db["tasks"]}
=============================================================================
