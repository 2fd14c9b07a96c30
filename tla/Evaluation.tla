----------------------------- MODULE Evaluation -----------------------------
(***************************************************************************)
(* One run of the evaluation harness (evals/runner.go and the run command  *)
(* of evals/cmd/agentops-eval): every case of the evalset is played, in    *)
(* every sample, against an agent of its own, a child process with a state *)
(* directory of its own or a container; its scores become a row of the     *)
(* artifact, and the artifact becomes the results file when the run is     *)
(* whole, a partial file beside it when an error ends it.                  *)
(*                                                                         *)
(* A score is whether it passed: every score the runner merges is binary.  *)
(* Besides the run's own variables the module keeps what a reader of the   *)
(* artifact cannot see: `seen`, the turns as the agent answered them.      *)
(*                                                                         *)
(* A definition Name_Fault is Name as a plausible slip would have left it;  *)
(* nothing uses it but a check that some property notices the slip.        *)
(***************************************************************************)
EXTENDS Integers, Sequences, FiniteSets, SequencesExt

CONSTANTS
  Evalset,  \* sequence of [id, conversation]; an entry [confirms, requires]
  Configs,  \* the flags of a run: [required, repeat, minimum, judge, runtime]
  Source    \* the build of the evaluated checkout

VARIABLES
  config,  \* the run's flags
  run,     \* the harness: where it is, the case it plays, the rows it holds
  child,   \* the program the harness runs: `version`, or the case's agent
  disk,    \* [binary, dir, results, partial]
  seen     \* ghost: [failed, refused, foreign], of the rows held

runVars == <<config, run, child, disk, seen>>

EvalCase == [id : STRING, conversation : Seq([confirms : BOOLEAN, requires : BOOLEAN])]

\* What the flags and the evalset are: a set without a case is refused before.
EvaluationAssumption ==
  /\ Source \in STRING
  /\ Evalset \in Seq(EvalCase) \ {<<>>}
  /\ Configs \subseteq [required : SUBSET STRING, repeat : Int, minimum : Int,
                        judge : BOOLEAN, runtime : {"process", "container"}]

Deterministic == {"trajectory", "confirmation"}
Stochastic == {"judge"}

Cases == {Evalset[i].id : i \in DOMAIN Evalset}

\* A file that does not exist; the artifact a former run published.
NoFile == [own |-> FALSE, expected |-> 0, rows |-> <<>>]
Former == [own |-> FALSE, expected |-> 1,
           rows |-> <<[id |-> Evalset[1].id, sample |-> 1, passed |-> TRUE,
                       deterministicPassed |-> TRUE]>>]

Gone == [state |-> "none", code |-> "none", build |-> "none"]

\* A command that was run to say which source a build is of, and may take its time.
VersionCommand(build) == [state |-> "asked", code |-> "none", build |-> build]

At(pc) == run.pc = pc
Goto(pc) == run' = [run EXCEPT !.pc = pc]

\* The case is an error; its cleanup still has to run.
FailAt(pc) == run' = [run EXCEPT !.pc = pc, !.fault = TRUE]

Running(c) == c.state \in {"booting", "serving"}

Case == Evalset[run.case]
Entry == Case.conversation[run.entry]

(***************************************************************************)
(* The artifact                                                            *)
(***************************************************************************)
\* Samples of a case: a run that is not told how many takes one.
Repeat == IF config.repeat = 0 THEN 1 ELSE config.repeat

Expected == Len(Evalset) * Repeat

RequiredCasesPassed_LastSample(rows) ==
  \A id \in config.required :
    \E i \in DOMAIN rows :
      /\ rows[i].id = id /\ rows[i].deterministicPassed
      /\ \A j \in DOMAIN rows : rows[j].id = id => j <= i

\* Whether every required case passed its deterministic scores in every sample.
RequiredCasesPassed(rows) ==
  \A id \in config.required :
    /\ \E i \in DOMAIN rows : rows[i].id = id
    /\ \A i \in DOMAIN rows : rows[i].id = id => rows[i].deterministicPassed

\* Passes per row, in percent of the rows the artifact holds.
ClearsRate(rows) ==
  Cardinality({i \in DOMAIN rows : rows[i].passed}) * 100 >= config.minimum * Len(rows)

Complete(file) == file.expected > 0 /\ Len(file.rows) = file.expected

\* What RunArtifact.Passed answers of a file.
Passed(file) ==
  Complete(file) /\ ClearsRate(file.rows) /\ RequiredCasesPassed(file.rows)

Artifact == [own |-> TRUE, expected |-> Expected, rows |-> run.rows]

(***************************************************************************)
(* Scores of a case                                                        *)
(***************************************************************************)

\* The lowest score of a name stays: a clean turn does not pay for another.
Merge(scores, turn) ==
  [n \in DOMAIN scores \cup DOMAIN turn |->
     (n \in DOMAIN scores => scores[n]) /\ (n \in DOMAIN turn => turn[n])]

AllPassed(scores, names) ==
  LET held == DOMAIN scores \cap names
  IN  held # {} /\ \A n \in held : scores[n]

Row == [id |-> Case.id, sample |-> run.sample,
        passed |-> AllPassed(run.scores, Deterministic \cup Stochastic),
        deterministicPassed |-> AllPassed(run.scores, Deterministic)]

(***************************************************************************)
(* The run                                                                 *)
(***************************************************************************)
\* The checkout has been asked for its source, and the binary or the image for its
\* version: one wait of the command line for commands without a deadline.
RunInit ==
  /\ config \in Configs
  /\ run = [pc |-> "begin", sample |-> 1, case |-> 1, entry |-> 1, pending |-> FALSE,
            scores |-> <<>>, rows |-> <<>>, fault |-> FALSE, stuck |-> {}]
  /\ child = VersionCommand(Source)
  /\ disk \in [binary : {Source}, dir : {FALSE}, results : {NoFile, Former},
               partial : {NoFile}]
  /\ seen = [failed |-> {}, refused |-> FALSE, foreign |-> FALSE]

ValidConfig ==
  /\ config.repeat >= 0
  /\ config.minimum \in 0 .. 100
  /\ config.required \subseteq Cases

\* The factory has heard the version of the binary or of the image, the expectation
\* is stamped and the first case begins; or the flags, the factory or the recorder
\* refuse.
Begin ==
  /\ At("begin") /\ child.state = "answered"
  /\ \/ ValidConfig /\ Goto("case")
     \/ Goto("done")
  /\ child' = Gone
  /\ UNCHANGED <<config, disk, seen>>

NewCase(sample, case) ==
  run' = [run EXCEPT !.pc = "case", !.sample = sample, !.case = case, !.entry = 1,
                     !.pending = FALSE, !.scores = <<>>]

\* The cases of a sample in the evalset's order, then the next sample.
NextCase ==
  /\ At("next")
  /\ IF run.case < Len(Evalset) THEN NewCase(run.sample, run.case + 1)
     ELSE IF run.sample < Repeat THEN NewCase(run.sample + 1, 1)
     ELSE Goto("publish")
  /\ UNCHANGED <<config, child, disk, seen>>

\* A container has no state directory; its image is fixed by its id.
StartCase ==
  /\ At("case")
  /\ \/ config.runtime = "process" /\ Goto("isolate")
     \/ config.runtime = "container" /\ Goto("spawn")
     \/ FailAt("closed")
  /\ UNCHANGED <<config, child, disk, seen>>

\* The state directory is made and the binary copied into it, which fails when the
\* binary changes under the copy; the copy is told to say its version.
Isolate ==
  /\ At("isolate")
  /\ \/ /\ disk' = [disk EXCEPT !.dir = TRUE]
        /\ child' = VersionCommand(disk.binary)
        /\ Goto("verify") \/ FailAt("remove")
     \/ FailAt("closed") /\ UNCHANGED <<child, disk>>
  /\ UNCHANGED <<config, seen>>

\* Only a copy that names the evaluated checkout is run.
Verified == child.build = Source

\* The command runs under the command line's own context, which nothing ends: the
\* harness waits for its answer as long as that takes.
Verify ==
  /\ At("verify") /\ child.state = "answered"
  /\ \/ Verified /\ Goto("spawn")
     \/ FailAt("remove")
  /\ UNCHANGED <<config, child, disk, seen>>

Spawn ==
  /\ At("spawn")
  /\ \/ /\ Goto("ready")
        /\ child' = [state |-> "booting", code |-> "none",
                     build |-> IF config.runtime = "process" THEN child.build ELSE Source]
     \/ FailAt("remove") /\ UNCHANGED child
  /\ UNCHANGED <<config, disk, seen>>

\* The child answers its readiness route, and the client is made of it.
Ready ==
  /\ At("ready") /\ child.state = "serving"
  /\ Goto("session")
  /\ UNCHANGED <<config, child, disk, seen>>

\* The child exits first, which takes its exit status off the channel, or the
\* deadline passes, or the client cannot be made: the child is closed.
NotReady ==
  /\ At("ready")
  /\ FailAt("close")
  /\ child' = IF child.state = "exited" THEN [child EXCEPT !.code = "taken"] ELSE child
  /\ UNCHANGED <<config, disk, seen>>

\* What closes a case whose client failed: the deferred Close and cleanup.
CallFails ==
  /\ \E pc \in {"session", "send", "judge", "record"} : At(pc)
  /\ FailAt("close")
  /\ UNCHANGED <<config, child, disk, seen>>

CreateSession ==
  /\ At("session") /\ child.state = "serving"
  /\ Goto("send")
  /\ UNCHANGED <<config, child, disk, seen>>

\* The agent's answers to an entry: a required confirmation passes only when the
\* turn left the guarded call awaiting one, and a failed turn is an error.
Answers ==
  {t \in [trajectory : BOOLEAN, confirmation : BOOLEAN, awaiting : BOOLEAN] :
     /\ t.confirmation => t.awaiting
     /\ ~Entry.requires => ~t.confirmation}

TurnScores(turn) ==
  [n \in {"trajectory"} \cup (IF Entry.requires THEN {"confirmation"} ELSE {}) |->
     IF n = "trajectory" THEN turn.trajectory ELSE turn.confirmation]

AfterEntry == IF config.judge THEN "judge" ELSE "record"

\* An outage is no score: a turn with an error code aborts the case (CallFails).
Send ==
  /\ At("send") /\ child.state = "serving"
  /\ Entry.confirms => run.pending
  /\ \E turn \in Answers :
       LET last == run.entry = Len(Case.conversation)
       IN  /\ run' = [run EXCEPT
                        !.scores = Merge(run.scores, TurnScores(turn)),
                        !.pending = turn.awaiting,
                        !.entry = IF last THEN @ ELSE @ + 1,
                        !.pc = IF last THEN AfterEntry ELSE @]
           /\ seen' = [seen EXCEPT
                         !.failed = IF \E n \in DOMAIN TurnScores(turn) : ~TurnScores(turn)[n]
                                    THEN @ \cup {Case.id} ELSE @,
                         !.foreign = @ \/ child.build # Source]
  /\ UNCHANGED <<config, child, disk>>

\* The agent proposed nothing the next entry could approve: the case stops here and
\* is scored as a failed confirmation.
NothingToConfirm ==
  /\ At("send") /\ Entry.confirms /\ ~run.pending
  /\ run' = [run EXCEPT
               !.scores = Merge(run.scores, [confirmation |-> FALSE]),
               !.pc = AfterEntry]
  /\ seen' = [seen EXCEPT !.failed = @ \cup {Case.id}]
  /\ UNCHANGED <<config, child, disk>>

Judge ==
  /\ At("judge")
  /\ \E passed \in BOOLEAN :
       /\ run' = [run EXCEPT !.scores = Merge(run.scores, [judge |-> passed]),
                             !.pc = "record"]
       /\ seen' = [seen EXCEPT !.refused = @ \/ ~passed]
  /\ UNCHANGED <<config, child, disk>>

RecordScores ==
  /\ At("record")
  /\ Goto("close")
  /\ UNCHANGED <<config, child, disk, seen>>

(***************************************************************************)
(* The end of a case                                                       *)
(***************************************************************************)
Leave(what) == run' = [run EXCEPT !.pc = "remove", !.fault = TRUE, !.stuck = @ \cup what]

\* A child that ended by itself: its status is an error unless it was zero, or was
\* taken by the wait for readiness.
CloseExited ==
  /\ At("close") /\ child.state = "exited"
  /\ IF child.code = "error" THEN FailAt("remove") ELSE Goto("remove")
  /\ UNCHANGED <<config, child, disk, seen>>

Interrupt ==
  /\ At("close") /\ config.runtime = "process" /\ Running(child)
  /\ \/ Goto("wait")
     \/ Leave({"child"})
  /\ UNCHANGED <<config, child, disk, seen>>

\* The engine stops the container, or removes it by force, or neither.
StopContainer ==
  /\ At("close") /\ config.runtime = "container" /\ Running(child)
  /\ \/ Goto("wait") /\ \E code \in {"ok", "error"} :
                          child' = [child EXCEPT !.state = "exited", !.code = code]
     \/ FailAt("wait") /\ child' = [child EXCEPT !.state = "exited", !.code = "error"]
     \/ /\ run' = [run EXCEPT !.pc = "wait", !.fault = TRUE, !.stuck = {"child"}]
        /\ UNCHANGED child
  /\ UNCHANGED <<config, disk, seen>>

\* The interrupt is the one way to die that the harness expects.
Exited ==
  /\ At("wait") /\ child.state = "exited"
  /\ IF child.code = "error" THEN FailAt("remove") ELSE Goto("remove")
  /\ UNCHANGED <<config, child, disk, seen>>

Timeout_AsksAgain == At("wait") /\ Goto("close") /\ UNCHANGED <<config, child, disk, seen>>

\* The timer of a shutdown: a process is killed; a container's client is, and that
\* is an error whatever became of the container.
Timeout ==
  /\ At("wait")
  /\ \/ /\ config.runtime = "process" /\ Running(child)
        /\ \/ /\ Goto("remove")
              /\ child' = [child EXCEPT !.state = "exited", !.code = "killed"]
           \/ Leave({"child"}) /\ UNCHANGED child
     \/ /\ config.runtime = "container"
        /\ FailAt("remove") /\ UNCHANGED child
  /\ UNCHANGED <<config, disk, seen>>

RemoveState ==
  /\ At("remove")
  /\ \/ Goto("closed") /\ disk' = [disk EXCEPT !.dir = FALSE]
     \/ /\ disk.dir
        /\ run' = [run EXCEPT !.pc = "closed", !.fault = TRUE, !.stuck = @ \cup {"dir"}]
        /\ UNCHANGED disk
  /\ UNCHANGED <<config, child, seen>>

\* The row of a case is kept when nothing of the case failed, its cleanup included.
EndCase ==
  /\ At("closed")
  /\ IF run.fault THEN Goto("abort")
     ELSE run' = [run EXCEPT !.pc = "next", !.rows = Append(@, Row)]
  /\ child' = IF Running(child) THEN child ELSE Gone
  /\ UNCHANGED <<config, disk, seen>>

(***************************************************************************)
(* The end of the run                                                      *)
(***************************************************************************)

\* Files are written beside their place and renamed into it, or not at all.
Publish ==
  /\ At("publish")
  /\ Goto("done")
  /\ disk' \in {disk, [disk EXCEPT !.results = Artifact]}
  /\ UNCHANGED <<config, child, seen>>

PublishPartial ==
  /\ At("abort")
  /\ Goto("done")
  /\ IF run.rows = <<>> THEN UNCHANGED disk
     ELSE disk' \in {disk, [disk EXCEPT !.partial = Artifact]}
  /\ UNCHANGED <<config, child, seen>>

(***************************************************************************)
(* What the harness does not decide                                        *)
(***************************************************************************)
\* The `version` command ends, whatever it said.
VersionEnds ==
  /\ child.state = "asked"
  /\ child' = [child EXCEPT !.state = "answered"]
  /\ UNCHANGED <<config, run, disk, seen>>

Boot ==
  /\ child.state = "booting"
  /\ child' = [child EXCEPT !.state = "serving"]
  /\ UNCHANGED <<config, run, disk, seen>>

\* A child ends when it likes; of an interrupt it dies, or it shuts down.
Exit ==
  /\ Running(child) /\ "child" \notin run.stuck
  /\ \E code \in {"ok", "error"} \cup (IF At("wait") THEN {"signal"} ELSE {}) :
       child' = [child EXCEPT !.state = "exited", !.code = code]
  /\ UNCHANGED <<config, run, disk, seen>>

\* Somebody builds another checkout over the binary.
Rebuild ==
  /\ disk.binary = Source /\ config.runtime = "process"
  /\ disk' = [disk EXCEPT !.binary = "another"]
  /\ UNCHANGED <<config, run, child, seen>>

Harness ==
  \/ Begin \/ NextCase \/ StartCase \/ Isolate \/ Verify \/ Spawn
  \/ Ready \/ NotReady \/ CallFails \/ CreateSession \/ Send \/ NothingToConfirm
  \/ Judge \/ RecordScores
  \/ CloseExited \/ Interrupt \/ StopContainer \/ Exited \/ Timeout \/ RemoveState
  \/ EndCase \/ Publish \/ PublishPartial

RunDone == At("done") /\ UNCHANGED runVars

RunNext == Harness \/ VersionEnds \/ Boot \/ Exit \/ Rebuild \/ RunDone

\* The harness is one goroutine, and what it waits for has a deadline; all but a
\* `version` command, so nothing is promised of VersionEnds.
RunFairness == WF_runVars(Harness)

RunSpec == RunInit /\ [][RunNext]_runVars /\ RunFairness

(***************************************************************************)
(* Properties                                                              *)
(***************************************************************************)

\* A results file that says it passed holds a run in which every case was played in
\* every sample against the evaluated build and closed cleanly, no deterministic
\* score of a required case failed in any turn, and enough rows passed. A partial
\* file never says so, and an aborted run leaves the results as they were
\* (runner.go: Passed, summarizeCases, merge; main.go: writePartialArtifact).
PassIsEarned ==
  /\ disk.results.own => Complete(disk.results)
  /\ disk.results.own /\ Passed(disk.results) =>
       /\ {<<r.id, r.sample>> : r \in {disk.results.rows[i] : i \in DOMAIN disk.results.rows}}
            = Cases \X (1 .. Repeat)
       /\ config.required \cap seen.failed = {}
       /\ ~seen.foreign
       /\ config.minimum = 100 => seen.failed = {} /\ ~seen.refused
  /\ ~Passed(disk.partial)

\* When the next case begins, nothing of the last one is left: no agent runs and no
\* state directory remains. After a run there is left only what could not be
\* stopped or removed, and then the run failed (process.go, container.go: Close;
\* process_factory.go: cleanup).
CaseLeavesNothing ==
  run.pc \in {"case", "next", "publish", "abort", "done"} =>
    /\ Running(child) => "child" \in run.stuck
    /\ disk.dir => "dir" \in run.stuck
    /\ run.stuck # {} => run.fault /\ ~disk.results.own

\* A run says it passed when it did, and cleans up after every case.
EvaluationIsHonest == PassIsEarned /\ CaseLeavesNothing

\* A run ends, whatever its agents do, unless it waits for ever for the answer to
\* `version`: no agent that will not start, serve or stop keeps it (process.go:
\* waitForReadiness, Close; runtime_identity.go: executeRuntimeCommand).
RunEnds == <>At("done") \/ <>[](child.state = "asked")
=============================================================================
