--------------------------- MODULE ServicesProofs ---------------------------
(***************************************************************************)
(* Proofs about the evaluation harness, the snapshots and runbook search:  *)
(* a run of the harness (Evaluation), the retrieval evaluation             *)
(* (RetrievalEval), the generations of the index (Retrieval), backups and  *)
(* restores (Snapshots), comparisons and calibrations (EvalVerdicts).      *)
(* They share no state; each part has its invariant, and the theorem that  *)
(* rests on it at its end.                                                 *)
(***************************************************************************)
EXTENDS Evaluation, RetrievalEval, EvalVerdicts, Snapshots, Retrieval,
        FiniteSetTheorems, WellFoundedInduction, TLAPS

LEMMA Interval ==
  ASSUME NEW n \in Nat
  PROVE  IsFiniteSet(1 .. n) /\ Cardinality(1 .. n) = n
  <1> DEFINE size == IF 1 > n THEN 0 ELSE n - 1 + 1
  <1>1. 1 \in Int /\ n \in Int
    OBVIOUS
  <1>2. IsFiniteSet(1 .. n) /\ Cardinality(1 .. n) = size
    BY <1>1, FS_Interval, Zenon
  <1>3. size = n
    OBVIOUS
  <1> QED
    BY <1>2, <1>3

-----------------------------------------------------------------------------
(***************************************************************************)
(* A run of the evaluation harness, for any evalset, any flags and any     *)
(* agent under evaluation. The rows are the cases played so far, sample    *)
(* by sample (Holds); a score that failed is in the case being played or   *)
(* in a row of its id, unless the run has failed (Failing).                *)
(***************************************************************************)
Playing == {"case", "isolate", "verify", "spawn", "ready", "session", "send", "judge", "record"}
Closing == {"close", "wait", "remove", "closed"}
RunPcs == Playing \cup Closing \cup {"begin", "next", "publish", "abort", "done"}

ScoreNames == Deterministic \cup Stochastic
Scores == UNION {[S -> BOOLEAN] : S \in SUBSET ScoreNames}
Builds == {"none", "another", Source}
Codes == {"none", "taken", "ok", "error", "killed", "signal"}
RowType == [id : Cases, sample : Nat, passed : BOOLEAN, deterministicPassed : BOOLEAN]
FileType == [own : BOOLEAN, expected : Int, rows : Seq(RowType)]

RunRecord ==
  [pc : RunPcs, sample : Nat \ {0}, case : 1 .. Len(Evalset), entry : Nat, pending : BOOLEAN,
   scores : Scores, rows : Seq(RowType), fault : BOOLEAN, stuck : SUBSET {"child", "dir"}]
ChildStates == {"none", "asked", "answered", "booting", "serving", "exited"}
ChildRecord == [state : ChildStates, code : Codes, build : Builds]
DiskRecord == [binary : Builds, dir : BOOLEAN, results : FileType, partial : FileType]
SeenRecord == [failed : SUBSET Cases, refused : BOOLEAN, foreign : BOOLEAN]

RunTyped ==
  /\ config \in Configs
  /\ run \in RunRecord
  /\ child \in ChildRecord
  /\ disk \in DiskRecord
  /\ seen \in SeenRecord

\* A valid configuration has passed before the first case is played.
Configured ==
  /\ run.pc \notin {"begin", "done"} => ValidConfig
  /\ ValidConfig => run.sample <= Repeat

\* Where an agent may run, and where a directory may be.
Cleaned ==
  /\ run.pc \in Playing \cup {"begin", "next", "publish"} => ~run.fault
  /\ run.stuck # {} => run.fault
  /\ run.pc \in Playing \cup {"close", "begin", "next", "publish"} => run.stuck = {}
  /\ run.pc \in {"begin", "case", "isolate", "verify", "spawn", "next", "publish"} =>
       ~Running(child)
  /\ run.pc \in {"remove", "closed", "abort", "done"} /\ Running(child) =>
       "child" \in run.stuck
  /\ run.pc = "wait" /\ config.runtime = "container" /\ Running(child) => "child" \in run.stuck
  /\ run.pc \in {"begin", "case", "isolate", "next", "publish"} => ~disk.dir
  /\ run.pc \in {"closed", "abort", "done"} /\ disk.dir => "dir" \in run.stuck
  /\ run.pc = "abort" => run.fault
  /\ disk.results.own => run.pc = "done" /\ ~run.fault

\* Whatever runs is the evaluated build.
Evaluated ==
  /\ child.state \in {"booting", "serving", "exited"} => child.build = Source
  /\ run.pc = "spawn" /\ config.runtime = "process" => child.build = Source
  /\ ~seen.foreign

Cleanup == RunTyped /\ Configured /\ Cleaned /\ Evaluated

LEMMA EvalsetType ==
  ASSUME EvaluationAssumption
  PROVE  /\ Len(Evalset) \in Nat \ {0}
         /\ DOMAIN Evalset = 1 .. Len(Evalset)
         /\ \A i \in DOMAIN Evalset : Evalset[i].id \in Cases
  <1>1. Len(Evalset) \in Nat /\ DOMAIN Evalset = 1 .. Len(Evalset)
    BY DEF EvaluationAssumption
  <1>2. Len(Evalset) # 0
    BY DEF EvaluationAssumption
  <1> QED
    BY <1>1, <1>2 DEF Cases

LEMMA ConfigType ==
  ASSUME EvaluationAssumption, config \in Configs, config.repeat >= 0
  PROVE  /\ config.required \subseteq STRING /\ config.repeat \in Int
         /\ config.minimum \in Int /\ config.judge \in BOOLEAN
         /\ config.runtime \in {"process", "container"}
         /\ Repeat \in Nat \ {0}
  BY DEF EvaluationAssumption, Repeat

LEMMA MergeType ==
  ASSUME NEW f \in Scores, NEW g \in Scores
  PROVE  Merge(f, g) \in Scores
  <1>1. DOMAIN f \in SUBSET ScoreNames /\ DOMAIN g \in SUBSET ScoreNames
    BY DEF Scores
  <1>2. Merge(f, g) \in [DOMAIN f \cup DOMAIN g -> BOOLEAN]
    BY DEF Merge
  <1> QED
    BY <1>1, <1>2 DEF Scores

LEMMA InitCleanup ==
  ASSUME EvaluationAssumption, RunInit
  PROVE  Cleanup
  <1>1. NoFile \in FileType
    BY DEF NoFile, FileType
  <1>2. Former \in FileType
    <2>1. 1 \in DOMAIN Evalset /\ Evalset[1].id \in Cases
      BY EvalsetType
    <2> DEFINE first == [id |-> Evalset[1].id, sample |-> 1, passed |-> TRUE,
                         deterministicPassed |-> TRUE]
    <2>2. first \in RowType
      BY <2>1 DEF RowType
    <2>3. <<first>> \in Seq(RowType)
      BY <2>2
    <2> QED
      BY <2>3 DEF Former, FileType
  <1>3. run.scores \in Scores
    <2>1. <<>> \in [{} -> BOOLEAN]
      OBVIOUS
    <2> QED
      BY <2>1 DEF RunInit, Scores
  <1>4. RunTyped
    <2>1. run.case \in 1 .. Len(Evalset) /\ run.rows \in Seq(RowType)
      BY EvalsetType DEF RunInit
    <2>2. disk \in DiskRecord
      BY <1>1, <1>2 DEF RunInit, Builds, DiskRecord
    <2>3. run \in RunRecord
      BY <1>3, <2>1 DEF RunInit, RunPcs, RunRecord
    <2>4. child \in ChildRecord
      BY DEF RunInit, VersionCommand, Codes, Builds, ChildRecord, ChildStates
    <2>5. seen \in SeenRecord
      BY DEF RunInit, SeenRecord
    <2>6. config \in Configs
      BY DEF RunInit
    <2> QED
      BY <2>2, <2>3, <2>4, <2>5, <2>6 DEF RunTyped
  <1>5. Configured
    BY <1>4, ConfigType DEF RunInit, Configured, ValidConfig
  <1>6. ~disk.dir /\ ~disk.results.own
    <2>1. disk.dir \in {FALSE} /\ disk.results \in {NoFile, Former}
      BY DEF RunInit
    <2>2. ~NoFile.own /\ ~Former.own
      BY DEF NoFile, Former
    <2> QED
      BY <2>1, <2>2
  <1>7. child.state = "asked"
    BY DEF RunInit, VersionCommand
  <1>8. Cleaned /\ Evaluated
    BY <1>6, <1>7 DEF RunInit, Cleaned, Evaluated, Running, Playing
  <1> QED
    BY <1>4, <1>5, <1>8 DEF Cleanup

\* What a step leaves of the case being played.
SameCase ==
  /\ run'.sample = run.sample /\ run'.case = run.case /\ run'.scores = run.scores
  /\ run'.rows = run.rows

SameRows ==
  /\ run'.sample = run.sample /\ run'.case = run.case /\ run'.rows = run.rows
  /\ run'.fault = run.fault /\ run'.stuck = run.stuck

LEMMA GotoFacts ==
  ASSUME run \in RunRecord, NEW p \in RunPcs, Goto(p)
  PROVE  /\ run' \in RunRecord /\ SameCase
         /\ run'.pc = p /\ run'.fault = run.fault /\ run'.stuck = run.stuck
  BY DEF RunRecord, Goto, SameCase

LEMMA FailFacts ==
  ASSUME run \in RunRecord, NEW p \in RunPcs, FailAt(p)
  PROVE  /\ run' \in RunRecord /\ SameCase
         /\ run'.pc = p /\ run'.fault /\ run'.stuck = run.stuck
  BY DEF RunRecord, FailAt, SameCase

LEMMA LeaveFacts ==
  ASSUME run \in RunRecord, Leave({"child"})
  PROVE  /\ run' \in RunRecord /\ SameCase
         /\ run'.pc = "remove" /\ run'.fault /\ run'.stuck = run.stuck \cup {"child"}
  BY DEF RunRecord, Leave, SameCase, RunPcs, Closing

LEMMA NoScores == <<>> \in Scores
  <1>1. <<>> \in [{} -> BOOLEAN]
    OBVIOUS
  <1> QED
    BY <1>1 DEF Scores

LEMMA TurnScoresType ==
  ASSUME NEW t \in Answers
  PROVE  TurnScores(t) \in Scores
  <1> DEFINE names == {"trajectory"} \cup (IF Entry.requires THEN {"confirmation"} ELSE {})
  <1>1. t.trajectory \in BOOLEAN /\ t.confirmation \in BOOLEAN
    BY DEF Answers
  <1>2. names \in SUBSET ScoreNames
    BY DEF ScoreNames, Deterministic
  <1>3. TurnScores(t) \in [names -> BOOLEAN]
    BY <1>1 DEF TurnScores
  <1> QED
    BY <1>2, <1>3 DEF Scores

LEMMA OneScoreType ==
  /\ \A v \in BOOLEAN : [judge |-> v] \in Scores
  /\ \A v \in BOOLEAN : [confirmation |-> v] \in Scores
  <1>1. \A v \in BOOLEAN : [judge |-> v] \in [{"judge"} -> BOOLEAN]
    OBVIOUS
  <1>2. \A v \in BOOLEAN : [confirmation |-> v] \in [{"confirmation"} -> BOOLEAN]
    OBVIOUS
  <1> QED
    BY <1>1, <1>2 DEF Scores, ScoreNames, Deterministic, Stochastic

LEMMA NewCaseFacts ==
  ASSUME run \in RunRecord, NEW s \in Nat \ {0}, NEW c \in 1 .. Len(Evalset), NewCase(s, c)
  PROVE  /\ run' \in RunRecord /\ run'.pc = "case" /\ run'.sample = s /\ run'.case = c
         /\ run'.rows = run.rows /\ run'.fault = run.fault /\ run'.stuck = run.stuck
         /\ run'.scores = <<>>
  BY NoScores DEF RunRecord, NewCase, RunPcs, Playing

\* A merge of scores and a move to another place.
LEMMA ScoredFacts ==
  ASSUME run \in RunRecord, NEW f \in Scores, NEW n \in Nat, NEW b \in BOOLEAN,
         NEW p \in RunPcs,
         run' = [run EXCEPT !.scores = f, !.pending = b, !.entry = n, !.pc = p]
  PROVE  run' \in RunRecord /\ SameRows /\ run'.pc = p /\ run'.scores = f
  BY DEF RunRecord, SameRows

LEMMA RowFits ==
  ASSUME EvaluationAssumption, run \in RunRecord
  PROVE  Row \in RowType
  <1>1. Case.id \in Cases /\ run.sample \in Nat
    BY EvalsetType DEF Case, RunRecord
  <1>2. \A names : AllPassed(run.scores, names) \in BOOLEAN
    BY DEF AllPassed
  <1> QED
    BY <1>1, <1>2 DEF Row, RowType

LEMMA ArtifactFits ==
  ASSUME EvaluationAssumption, config \in Configs, run \in RunRecord
  PROVE  Artifact \in FileType /\ Artifact.own /\ Artifact.rows = run.rows
         /\ Artifact.expected = Expected
  <1>1. Len(Evalset) \in Int /\ Repeat \in Int
    BY EvalsetType DEF EvaluationAssumption, Repeat
  <1>2. Expected \in Int
    BY <1>1 DEF Expected
  <1> QED
    BY <1>2 DEF Artifact, FileType, RunRecord

LEMMA CleanupStep ==
  ASSUME EvaluationAssumption, Cleanup, [RunNext]_runVars
  PROVE  Cleanup'
  <1> USE DEF At, Running
  <1>0. run \in RunRecord /\ child \in ChildRecord /\ disk \in DiskRecord /\ seen \in SeenRecord
    BY DEF Cleanup, RunTyped
  <1>1. CASE Begin
    <2>1. run' \in RunRecord /\ ((ValidConfig /\ run'.pc \in {"case"}
            /\ run'.fault = run.fault) \/ (run'.pc \in {"done"} /\ run'.fault = run.fault))
            /\ SameCase /\ run'.stuck = run.stuck
      BY <1>0, <1>1, GotoFacts, FailFacts, LeaveFacts DEF RunPcs, Playing, Closing, Begin
    <2>2. child' \in ChildRecord /\ child'.state = "none"
      BY <1>1 DEF Begin, ChildRecord, ChildStates, Codes, Builds, Gone
    <2>3. disk' = disk
      BY <1>0, <1>1 DEF Begin, DiskRecord, Builds
    <2>4. seen' = seen /\ config' = config
      BY <1>0, <1>1 DEF Begin
    <2>5. RunTyped'
      BY <1>0, <2>1, <2>2, <2>3, <2>4 DEF Cleanup, RunTyped
    <2>6. Configured'
      BY <1>0, <1>1, <2>1, <2>4
         DEF Cleanup, Configured, ValidConfig, Repeat, SameCase, SameRows, Begin, RunRecord
    <2>7. Cleaned'
      BY <1>0, <1>1, <2>1, <2>2, <2>3, <2>4
         DEF Cleanup, Cleaned, Playing, SameRows, Begin, RunRecord, ChildRecord, DiskRecord
    <2>8. Evaluated'
      BY <1>0, <1>1, <2>1, <2>2, <2>3, <2>4
         DEF Cleanup, Cleaned, Evaluated, Playing, Begin, ChildRecord, SeenRecord
    <2> QED
      BY <2>5, <2>6, <2>7, <2>8 DEF Cleanup
  <1>2. CASE StartCase
    <2>1. run' \in RunRecord /\ ((config.runtime = "process" /\ run'.pc \in {"isolate"}
            /\ run'.fault = run.fault) \/ (config.runtime = "container"
            /\ run'.pc \in {"spawn"} /\ run'.fault = run.fault) \/ (run'.pc = "closed"
            /\ run'.fault)) /\ SameCase /\ run'.stuck = run.stuck
      BY <1>0, <1>2, GotoFacts, FailFacts, LeaveFacts DEF RunPcs, Playing, Closing, StartCase
    <2>2. child' = child
      BY <1>0, <1>2 DEF StartCase, ChildRecord, ChildStates, Codes, Builds, Gone
    <2>3. disk' = disk
      BY <1>0, <1>2 DEF StartCase, DiskRecord, Builds
    <2>4. seen' = seen /\ config' = config
      BY <1>0, <1>2 DEF StartCase
    <2>5. RunTyped'
      BY <1>0, <2>1, <2>2, <2>3, <2>4 DEF Cleanup, RunTyped
    <2>6. Configured'
      BY <1>0, <1>2, <2>1, <2>4
         DEF Cleanup, Configured, ValidConfig, Repeat, SameCase, SameRows, StartCase, RunRecord
    <2>7. Cleaned'
      BY <1>0, <1>2, <2>1, <2>2, <2>3, <2>4
         DEF Cleanup, Cleaned, Playing, SameRows, StartCase, RunRecord, ChildRecord, DiskRecord
    <2>8. Evaluated'
      BY <1>0, <1>2, <2>1, <2>2, <2>3, <2>4
         DEF Cleanup, Cleaned, Evaluated, Playing, StartCase, ChildRecord, SeenRecord
    <2> QED
      BY <2>5, <2>6, <2>7, <2>8 DEF Cleanup
  <1>3. CASE Verify
    <2>1. run' \in RunRecord /\ ((child.build = Source /\ run'.pc \in {"spawn"}
            /\ run'.fault = run.fault) \/ (run'.pc = "remove" /\ run'.fault)) /\ SameCase
            /\ run'.stuck = run.stuck
      BY <1>0, <1>3, GotoFacts, FailFacts, LeaveFacts DEF RunPcs, Playing, Closing, Verify, Verified
    <2>2. child' = child
      BY <1>0, <1>3 DEF Verify, ChildRecord, ChildStates, Codes, Builds, Gone, Verified
    <2>3. disk' = disk
      BY <1>0, <1>3 DEF Verify, DiskRecord, Builds, Verified
    <2>4. seen' = seen /\ config' = config
      BY <1>0, <1>3 DEF Verify, Verified
    <2>5. RunTyped'
      BY <1>0, <2>1, <2>2, <2>3, <2>4 DEF Cleanup, RunTyped
    <2>6. Configured'
      BY <1>0, <1>3, <2>1, <2>4
         DEF Cleanup, Configured, ValidConfig, Repeat, SameCase, SameRows, Verify, RunRecord,
             Verified
    <2>7. Cleaned'
      BY <1>0, <1>3, <2>1, <2>2, <2>3, <2>4
         DEF Cleanup, Cleaned, Playing, SameRows, Verify, RunRecord, ChildRecord, DiskRecord,
             Verified
    <2>8. Evaluated'
      BY <1>0, <1>3, <2>1, <2>2, <2>3, <2>4
         DEF Cleanup, Cleaned, Evaluated, Playing, Verify, ChildRecord, SeenRecord, Verified
    <2> QED
      BY <2>5, <2>6, <2>7, <2>8 DEF Cleanup
  <1>4. CASE Ready
    <2>1. run' \in RunRecord /\ run'.pc \in {"session"} /\ run'.fault = run.fault /\ SameCase
            /\ run'.stuck = run.stuck
      BY <1>0, <1>4, GotoFacts, FailFacts, LeaveFacts DEF RunPcs, Playing, Closing, Ready
    <2>2. child' = child
      BY <1>0, <1>4 DEF Ready, ChildRecord, ChildStates, Codes, Builds, Gone
    <2>3. disk' = disk
      BY <1>0, <1>4 DEF Ready, DiskRecord, Builds
    <2>4. seen' = seen /\ config' = config
      BY <1>0, <1>4 DEF Ready
    <2>5. RunTyped'
      BY <1>0, <2>1, <2>2, <2>3, <2>4 DEF Cleanup, RunTyped
    <2>6. Configured'
      BY <1>0, <1>4, <2>1, <2>4
         DEF Cleanup, Configured, ValidConfig, Repeat, SameCase, SameRows, Ready, RunRecord
    <2>7. Cleaned'
      BY <1>0, <1>4, <2>1, <2>2, <2>3, <2>4
         DEF Cleanup, Cleaned, Playing, SameRows, Ready, RunRecord, ChildRecord, DiskRecord
    <2>8. Evaluated'
      BY <1>0, <1>4, <2>1, <2>2, <2>3, <2>4
         DEF Cleanup, Cleaned, Evaluated, Playing, Ready, ChildRecord, SeenRecord
    <2> QED
      BY <2>5, <2>6, <2>7, <2>8 DEF Cleanup
  <1>5. CASE CreateSession
    <2>1. run' \in RunRecord /\ run'.pc \in {"send"} /\ run'.fault = run.fault /\ SameCase
            /\ run'.stuck = run.stuck
      BY <1>0, <1>5, GotoFacts, FailFacts, LeaveFacts DEF RunPcs, Playing, Closing, CreateSession
    <2>2. child' = child
      BY <1>0, <1>5 DEF CreateSession, ChildRecord, ChildStates, Codes, Builds, Gone
    <2>3. disk' = disk
      BY <1>0, <1>5 DEF CreateSession, DiskRecord, Builds
    <2>4. seen' = seen /\ config' = config
      BY <1>0, <1>5 DEF CreateSession
    <2>5. RunTyped'
      BY <1>0, <2>1, <2>2, <2>3, <2>4 DEF Cleanup, RunTyped
    <2>6. Configured'
      BY <1>0, <1>5, <2>1, <2>4
         DEF Cleanup, Configured, ValidConfig, Repeat, SameCase, SameRows, CreateSession, RunRecord
    <2>7. Cleaned'
      BY <1>0, <1>5, <2>1, <2>2, <2>3, <2>4
         DEF Cleanup, Cleaned, Playing, SameRows, CreateSession, RunRecord, ChildRecord, DiskRecord
    <2>8. Evaluated'
      BY <1>0, <1>5, <2>1, <2>2, <2>3, <2>4
         DEF Cleanup, Cleaned, Evaluated, Playing, CreateSession, ChildRecord, SeenRecord
    <2> QED
      BY <2>5, <2>6, <2>7, <2>8 DEF Cleanup
  <1>6. CASE CallFails
    <2>1. run' \in RunRecord /\ run'.pc = "close" /\ run'.fault /\ SameCase
            /\ run'.stuck = run.stuck
      BY <1>0, <1>6, GotoFacts, FailFacts, LeaveFacts DEF RunPcs, Playing, Closing, CallFails
    <2>2. child' = child
      BY <1>0, <1>6 DEF CallFails, ChildRecord, ChildStates, Codes, Builds, Gone
    <2>3. disk' = disk
      BY <1>0, <1>6 DEF CallFails, DiskRecord, Builds
    <2>4. seen' = seen /\ config' = config
      BY <1>0, <1>6 DEF CallFails
    <2>5. RunTyped'
      BY <1>0, <2>1, <2>2, <2>3, <2>4 DEF Cleanup, RunTyped
    <2>6. Configured'
      BY <1>0, <1>6, <2>1, <2>4
         DEF Cleanup, Configured, ValidConfig, Repeat, SameCase, SameRows, CallFails, RunRecord
    <2>7. Cleaned'
      BY <1>0, <1>6, <2>1, <2>2, <2>3, <2>4
         DEF Cleanup, Cleaned, Playing, SameRows, CallFails, RunRecord, ChildRecord, DiskRecord
    <2>8. Evaluated'
      BY <1>0, <1>6, <2>1, <2>2, <2>3, <2>4
         DEF Cleanup, Cleaned, Evaluated, Playing, CallFails, ChildRecord, SeenRecord
    <2> QED
      BY <2>5, <2>6, <2>7, <2>8 DEF Cleanup
  <1>7. CASE RecordScores
    <2>1. run' \in RunRecord /\ run'.pc \in {"close"} /\ run'.fault = run.fault /\ SameCase
            /\ run'.stuck = run.stuck
      BY <1>0, <1>7, GotoFacts, FailFacts, LeaveFacts DEF RunPcs, Playing, Closing, RecordScores
    <2>2. child' = child
      BY <1>0, <1>7 DEF RecordScores, ChildRecord, ChildStates, Codes, Builds, Gone
    <2>3. disk' = disk
      BY <1>0, <1>7 DEF RecordScores, DiskRecord, Builds
    <2>4. seen' = seen /\ config' = config
      BY <1>0, <1>7 DEF RecordScores
    <2>5. RunTyped'
      BY <1>0, <2>1, <2>2, <2>3, <2>4 DEF Cleanup, RunTyped
    <2>6. Configured'
      BY <1>0, <1>7, <2>1, <2>4
         DEF Cleanup, Configured, ValidConfig, Repeat, SameCase, SameRows, RecordScores, RunRecord
    <2>7. Cleaned'
      BY <1>0, <1>7, <2>1, <2>2, <2>3, <2>4
         DEF Cleanup, Cleaned, Playing, SameRows, RecordScores, RunRecord, ChildRecord, DiskRecord
    <2>8. Evaluated'
      BY <1>0, <1>7, <2>1, <2>2, <2>3, <2>4
         DEF Cleanup, Cleaned, Evaluated, Playing, RecordScores, ChildRecord, SeenRecord
    <2> QED
      BY <2>5, <2>6, <2>7, <2>8 DEF Cleanup
  <1>8. CASE CloseExited
    <2>1. run' \in RunRecord /\ ((run'.pc \in {"remove"} /\ run'.fault = run.fault)
            \/ (run'.pc = "remove" /\ run'.fault)) /\ SameCase /\ run'.stuck = run.stuck
      BY <1>0, <1>8, GotoFacts, FailFacts, LeaveFacts DEF RunPcs, Playing, Closing, CloseExited
    <2>2. child' = child
      BY <1>0, <1>8 DEF CloseExited, ChildRecord, ChildStates, Codes, Builds, Gone
    <2>3. disk' = disk
      BY <1>0, <1>8 DEF CloseExited, DiskRecord, Builds
    <2>4. seen' = seen /\ config' = config
      BY <1>0, <1>8 DEF CloseExited
    <2>5. RunTyped'
      BY <1>0, <2>1, <2>2, <2>3, <2>4 DEF Cleanup, RunTyped
    <2>6. Configured'
      BY <1>0, <1>8, <2>1, <2>4
         DEF Cleanup, Configured, ValidConfig, Repeat, SameCase, SameRows, CloseExited, RunRecord
    <2>7. Cleaned'
      BY <1>0, <1>8, <2>1, <2>2, <2>3, <2>4
         DEF Cleanup, Cleaned, Playing, SameRows, CloseExited, RunRecord, ChildRecord, DiskRecord
    <2>8. Evaluated'
      BY <1>0, <1>8, <2>1, <2>2, <2>3, <2>4
         DEF Cleanup, Cleaned, Evaluated, Playing, CloseExited, ChildRecord, SeenRecord
    <2> QED
      BY <2>5, <2>6, <2>7, <2>8 DEF Cleanup
  <1>9. CASE Interrupt
    <2>1. run' \in RunRecord /\ SameCase /\ ((run'.pc \in {"wait"} /\ run'.fault = run.fault
            /\ run'.stuck = run.stuck) \/ (run'.pc = "remove" /\ run'.fault
            /\ run'.stuck = run.stuck \cup {"child"}))
      BY <1>0, <1>9, GotoFacts, FailFacts, LeaveFacts DEF RunPcs, Playing, Closing, Interrupt
    <2>2. child' = child
      BY <1>0, <1>9 DEF Interrupt, ChildRecord, ChildStates, Codes, Builds, Gone
    <2>3. disk' = disk
      BY <1>0, <1>9 DEF Interrupt, DiskRecord, Builds
    <2>4. seen' = seen /\ config' = config
      BY <1>0, <1>9 DEF Interrupt
    <2>5. RunTyped'
      BY <1>0, <2>1, <2>2, <2>3, <2>4 DEF Cleanup, RunTyped
    <2>6. Configured'
      BY <1>0, <1>9, <2>1, <2>4
         DEF Cleanup, Configured, ValidConfig, Repeat, SameCase, SameRows, Interrupt, RunRecord
    <2>7. Cleaned'
      BY <1>0, <1>9, <2>1, <2>2, <2>3, <2>4
         DEF Cleanup, Cleaned, Playing, SameRows, Interrupt, RunRecord, ChildRecord, DiskRecord
    <2>8. Evaluated'
      BY <1>0, <1>9, <2>1, <2>2, <2>3, <2>4
         DEF Cleanup, Cleaned, Evaluated, Playing, Interrupt, ChildRecord, SeenRecord
    <2> QED
      BY <2>5, <2>6, <2>7, <2>8 DEF Cleanup
  <1>10. CASE Exited
    <2>1. run' \in RunRecord /\ ((run'.pc \in {"remove"} /\ run'.fault = run.fault)
            \/ (run'.pc = "remove" /\ run'.fault)) /\ SameCase /\ run'.stuck = run.stuck
      BY <1>0, <1>10, GotoFacts, FailFacts, LeaveFacts DEF RunPcs, Playing, Closing, Exited
    <2>2. child' = child
      BY <1>0, <1>10 DEF Exited, ChildRecord, ChildStates, Codes, Builds, Gone
    <2>3. disk' = disk
      BY <1>0, <1>10 DEF Exited, DiskRecord, Builds
    <2>4. seen' = seen /\ config' = config
      BY <1>0, <1>10 DEF Exited
    <2>5. RunTyped'
      BY <1>0, <2>1, <2>2, <2>3, <2>4 DEF Cleanup, RunTyped
    <2>6. Configured'
      BY <1>0, <1>10, <2>1, <2>4
         DEF Cleanup, Configured, ValidConfig, Repeat, SameCase, SameRows, Exited, RunRecord
    <2>7. Cleaned'
      BY <1>0, <1>10, <2>1, <2>2, <2>3, <2>4
         DEF Cleanup, Cleaned, Playing, SameRows, Exited, RunRecord, ChildRecord, DiskRecord
    <2>8. Evaluated'
      BY <1>0, <1>10, <2>1, <2>2, <2>3, <2>4
         DEF Cleanup, Cleaned, Evaluated, Playing, Exited, ChildRecord, SeenRecord
    <2> QED
      BY <2>5, <2>6, <2>7, <2>8 DEF Cleanup
  <1>11. CASE NotReady
    <2>1. run' \in RunRecord /\ run'.pc = "close" /\ run'.fault /\ SameCase
            /\ run'.stuck = run.stuck
      BY <1>0, <1>11, GotoFacts, FailFacts, LeaveFacts DEF RunPcs, Playing, Closing, NotReady
    <2>2. child' \in ChildRecord /\ child'.state = child.state /\ child'.build = child.build
      BY <1>0, <1>11 DEF NotReady, ChildRecord, ChildStates, Codes, Builds, Gone
    <2>3. disk' = disk
      BY <1>0, <1>11 DEF NotReady, DiskRecord, Builds
    <2>4. seen' = seen /\ config' = config
      BY <1>0, <1>11 DEF NotReady
    <2>5. RunTyped'
      BY <1>0, <2>1, <2>2, <2>3, <2>4 DEF Cleanup, RunTyped
    <2>6. Configured'
      BY <1>0, <1>11, <2>1, <2>4
         DEF Cleanup, Configured, ValidConfig, Repeat, SameCase, SameRows, NotReady, RunRecord
    <2>7. Cleaned'
      BY <1>0, <1>11, <2>1, <2>2, <2>3, <2>4
         DEF Cleanup, Cleaned, Playing, SameRows, NotReady, RunRecord, ChildRecord, DiskRecord
    <2>8. Evaluated'
      BY <1>0, <1>11, <2>1, <2>2, <2>3, <2>4
         DEF Cleanup, Cleaned, Evaluated, Playing, NotReady, ChildRecord, SeenRecord
    <2> QED
      BY <2>5, <2>6, <2>7, <2>8 DEF Cleanup
  <1>12. CASE NextCase
    <2>1. /\ run' \in RunRecord /\ run'.pc \in {"case", "publish"} /\ run'.rows = run.rows
          /\ run'.fault = run.fault /\ run'.stuck = run.stuck
          /\ ValidConfig => run'.sample <= Repeat
      <3>1. run.sample \in Nat \ {0} /\ run.case \in 1 .. Len(Evalset)
        BY <1>0 DEF RunRecord
      <3>2. CASE run.case < Len(Evalset)
        <4>1. NewCase(run.sample, run.case + 1) /\ run.case + 1 \in 1 .. Len(Evalset)
          BY <1>12, <3>1, <3>2, EvalsetType DEF NextCase
        <4> QED
          BY <1>0, <3>1, <4>1, NewCaseFacts DEF Cleanup, Configured
      <3>3. CASE ~(run.case < Len(Evalset)) /\ run.sample < Repeat
        <4>1. NewCase(run.sample + 1, 1) /\ 1 \in 1 .. Len(Evalset)
          BY <1>12, <3>3, EvalsetType DEF NextCase
        <4>2. ValidConfig => Repeat \in Nat
          BY ConfigType DEF ValidConfig, Cleanup, RunTyped
        <4> QED
          BY <1>0, <3>1, <3>3, <4>1, <4>2, NewCaseFacts
      <3>4. CASE ~(run.case < Len(Evalset)) /\ ~(run.sample < Repeat)
        <4>1. Goto("publish")
          BY <1>12, <3>4 DEF NextCase
        <4> QED
          BY <1>0, <4>1, GotoFacts DEF RunPcs, SameCase, Cleanup, Configured
      <3> QED
        BY <3>2, <3>3, <3>4
    <2>2. child' = child
      BY <1>0, <1>12 DEF NextCase, ChildRecord, ChildStates, Codes, Builds, Gone, NewCase
    <2>3. disk' = disk
      BY <1>0, <1>12 DEF NextCase, DiskRecord, Builds, NewCase
    <2>4. seen' = seen /\ config' = config
      BY <1>0, <1>12 DEF NextCase, NewCase
    <2>5. RunTyped'
      BY <1>0, <2>1, <2>2, <2>3, <2>4 DEF Cleanup, RunTyped
    <2>6. Configured'
      BY <1>0, <1>12, <2>1, <2>4
         DEF Cleanup, Configured, ValidConfig, Repeat, SameCase, SameRows, NextCase, RunRecord,
             NewCase
    <2>7. Cleaned'
      BY <1>0, <1>12, <2>1, <2>2, <2>3, <2>4
         DEF Cleanup, Cleaned, Playing, SameRows, NextCase, RunRecord, ChildRecord, DiskRecord,
             NewCase
    <2>8. Evaluated'
      BY <1>0, <1>12, <2>1, <2>2, <2>3, <2>4
         DEF Cleanup, Cleaned, Evaluated, Playing, NextCase, ChildRecord, SeenRecord, NewCase
    <2> QED
      BY <2>5, <2>6, <2>7, <2>8 DEF Cleanup
  <1>13. CASE Isolate
    <2>1. /\ run' \in RunRecord /\ SameCase /\ run'.stuck = run.stuck
          /\ \/ run'.pc = "verify" /\ run'.fault = run.fault
             \/ run'.pc = "remove" /\ run'.fault
             \/ run'.pc = "closed" /\ run'.fault /\ disk' = disk
      BY <1>0, <1>13, GotoFacts, FailFacts DEF RunPcs, Playing, Closing, Isolate
    <2>2. child' \in ChildRecord /\ (child' = child \/ child'.state = "asked")
      <3>1. CASE child' = VersionCommand(disk.binary)
        BY <1>0, <3>1 DEF ChildRecord, ChildStates, DiskRecord, VersionCommand, Codes
      <3>2. CASE child' = child
        BY <1>0, <3>2
      <3> QED
        BY <1>13, <3>1, <3>2 DEF Isolate
    <2>3. disk' \in DiskRecord /\ disk'.results = disk.results
      BY <1>0, <1>13 DEF Isolate, DiskRecord, Builds
    <2>4. seen' = seen /\ config' = config
      BY <1>0, <1>13 DEF Isolate
    <2>5. RunTyped'
      BY <1>0, <2>1, <2>2, <2>3, <2>4 DEF Cleanup, RunTyped
    <2>6. Configured'
      BY <1>0, <1>13, <2>1, <2>4
         DEF Cleanup, Configured, ValidConfig, Repeat, SameCase, SameRows, Isolate, RunRecord
    <2>7. Cleaned'
      BY <1>0, <1>13, <2>1, <2>2, <2>3, <2>4
         DEF Cleanup, Cleaned, Playing, SameRows, Isolate, RunRecord, ChildRecord, DiskRecord
    <2>8. Evaluated'
      BY <1>0, <1>13, <2>1, <2>2, <2>3, <2>4
         DEF Cleanup, Cleaned, Evaluated, Playing, Isolate, ChildRecord, SeenRecord
    <2> QED
      BY <2>5, <2>6, <2>7, <2>8 DEF Cleanup
  <1>14. CASE Spawn
    <2>1. run' \in RunRecord /\ ((run'.pc \in {"ready"} /\ run'.fault = run.fault)
            \/ (run'.pc = "remove" /\ run'.fault /\ child' = child)) /\ SameCase
            /\ run'.stuck = run.stuck
      BY <1>0, <1>14, GotoFacts, FailFacts, LeaveFacts DEF RunPcs, Playing, Closing, Spawn
    <2>2. child' \in ChildRecord /\ (child' # child =>
            child'.build = IF config.runtime = "process" THEN child.build ELSE Source)
      BY <1>0, <1>14 DEF Spawn, ChildRecord, ChildStates, Codes, Builds, Gone
    <2>3. disk' = disk
      BY <1>0, <1>14 DEF Spawn, DiskRecord, Builds
    <2>4. seen' = seen /\ config' = config
      BY <1>0, <1>14 DEF Spawn
    <2>5. RunTyped'
      BY <1>0, <2>1, <2>2, <2>3, <2>4 DEF Cleanup, RunTyped
    <2>6. Configured'
      BY <1>0, <1>14, <2>1, <2>4
         DEF Cleanup, Configured, ValidConfig, Repeat, SameCase, SameRows, Spawn, RunRecord
    <2>7. Cleaned'
      BY <1>0, <1>14, <2>1, <2>2, <2>3, <2>4
         DEF Cleanup, Cleaned, Playing, SameRows, Spawn, RunRecord, ChildRecord, DiskRecord
    <2>8. Evaluated'
      BY <1>0, <1>14, <2>1, <2>2, <2>3, <2>4
         DEF Cleanup, Cleaned, Evaluated, Playing, Spawn, ChildRecord, SeenRecord
    <2> QED
      BY <2>5, <2>6, <2>7, <2>8 DEF Cleanup
  <1>15. CASE Send
    <2>1. run' \in RunRecord /\ SameRows /\ run'.pc \in {"send", "judge", "record"}
      <3> DEFINE last == run.entry = Len(Case.conversation)
                 next == IF last THEN run.entry ELSE run.entry + 1
                 place == IF last THEN AfterEntry ELSE run.pc
      <3>1. PICK t \in Answers :
              run' = [run EXCEPT !.scores = Merge(run.scores, TurnScores(t)),
                                 !.pending = t.awaiting, !.entry = next, !.pc = place]
        BY <1>15 DEF Send
      <3>2. run.scores \in Scores /\ next \in Nat /\ run.pc = "send"
        BY <1>0, <1>15 DEF RunRecord, Send
      <3>3. Merge(run.scores, TurnScores(t)) \in Scores
        BY <3>2, MergeType, TurnScoresType
      <3>4. place \in {"send", "judge", "record"} /\ place \in RunPcs
        BY <3>2 DEF AfterEntry, RunPcs, Playing
      <3>5. t.awaiting \in BOOLEAN
        BY DEF Answers
      <3> HIDE DEF last, next, place
      <3> QED
        BY <1>0, <3>1, <3>2, <3>3, <3>4, <3>5, ScoredFacts
    <2>2. child' = child
      BY <1>0, <1>15 DEF Send, ChildRecord, ChildStates, Codes, Builds, Gone, AfterEntry
    <2>3. disk' = disk
      BY <1>0, <1>15 DEF Send, DiskRecord, Builds, AfterEntry
    <2>4. /\ seen' \in SeenRecord /\ config' = config
          /\ seen'.foreign = (seen.foreign \/ child.build # Source)
      <3>1. Case.id \in Cases
        BY <1>0, EvalsetType DEF Case, RunRecord
      <3>2. PICK new \in SUBSET Cases :
              seen' = [seen EXCEPT !.failed = new,
                                   !.foreign = seen.foreign \/ child.build # Source]
        BY <1>0, <1>15, <3>1 DEF Send, SeenRecord
      <3> QED
        BY <1>0, <1>15, <3>2 DEF Send, SeenRecord
    <2>5. RunTyped'
      BY <1>0, <2>1, <2>2, <2>3, <2>4 DEF Cleanup, RunTyped
    <2>6. Configured'
      BY <1>0, <1>15, <2>1, <2>4
         DEF Cleanup, Configured, ValidConfig, Repeat, SameCase, SameRows, Send, RunRecord,
             AfterEntry
    <2>7. Cleaned'
      BY <1>0, <1>15, <2>1, <2>2, <2>3, <2>4
         DEF Cleanup, Cleaned, Playing, SameRows, Send, RunRecord, ChildRecord, DiskRecord,
             AfterEntry
    <2>8. Evaluated'
      BY <1>0, <1>15, <2>1, <2>2, <2>3, <2>4
         DEF Cleanup, Cleaned, Evaluated, Playing, Send, ChildRecord, SeenRecord, AfterEntry
    <2> QED
      BY <2>5, <2>6, <2>7, <2>8 DEF Cleanup
  <1>16. CASE NothingToConfirm
    <2>1. run' \in RunRecord /\ SameRows /\ run'.pc \in {"judge", "record"}
      <3>1. run.scores \in Scores /\ run.pending \in BOOLEAN /\ run.entry \in Nat
        BY <1>0 DEF RunRecord
      <3>2. Merge(run.scores, [confirmation |-> FALSE]) \in Scores
        BY <3>1, MergeType, OneScoreType
      <3>3. AfterEntry \in {"judge", "record"} /\ AfterEntry \in RunPcs
        BY DEF AfterEntry, RunPcs, Playing
      <3>4. run' = [run EXCEPT !.scores = Merge(run.scores, [confirmation |-> FALSE]),
                               !.pending = run.pending, !.entry = run.entry, !.pc = AfterEntry]
        BY <1>0, <1>16 DEF NothingToConfirm, RunRecord
      <3> QED
        BY <1>0, <3>1, <3>2, <3>3, <3>4, ScoredFacts
    <2>2. child' = child
      BY <1>0, <1>16 DEF NothingToConfirm, ChildRecord, ChildStates, Codes, Builds, Gone, AfterEntry
    <2>3. disk' = disk
      BY <1>0, <1>16 DEF NothingToConfirm, DiskRecord, Builds, AfterEntry
    <2>4. seen' \in SeenRecord /\ config' = config /\ seen'.foreign = seen.foreign
      <3>1. Case.id \in Cases
        BY <1>0, EvalsetType DEF Case, RunRecord
      <3> QED
        BY <1>0, <1>16, <3>1 DEF NothingToConfirm, SeenRecord
    <2>5. RunTyped'
      BY <1>0, <2>1, <2>2, <2>3, <2>4 DEF Cleanup, RunTyped
    <2>6. Configured'
      BY <1>0, <1>16, <2>1, <2>4
         DEF Cleanup, Configured, ValidConfig, Repeat, SameCase, SameRows, NothingToConfirm,
             RunRecord, AfterEntry
    <2>7. Cleaned'
      BY <1>0, <1>16, <2>1, <2>2, <2>3, <2>4
         DEF Cleanup, Cleaned, Playing, SameRows, NothingToConfirm, RunRecord, ChildRecord,
             DiskRecord, AfterEntry
    <2>8. Evaluated'
      BY <1>0, <1>16, <2>1, <2>2, <2>3, <2>4
         DEF Cleanup, Cleaned, Evaluated, Playing, NothingToConfirm, ChildRecord, SeenRecord,
             AfterEntry
    <2> QED
      BY <2>5, <2>6, <2>7, <2>8 DEF Cleanup
  <1>17. CASE Judge
    <2>1. run' \in RunRecord /\ SameRows /\ run'.pc = "record"
      <3>1. run.scores \in Scores /\ run.pending \in BOOLEAN /\ run.entry \in Nat
        BY <1>0 DEF RunRecord
      <3>2. PICK v \in BOOLEAN :
              run' = [run EXCEPT !.scores = Merge(run.scores, [judge |-> v]), !.pc = "record"]
        BY <1>17 DEF Judge
      <3>3. Merge(run.scores, [judge |-> v]) \in Scores
        BY <3>1, MergeType, OneScoreType
      <3>4. run' = [run EXCEPT !.scores = Merge(run.scores, [judge |-> v]),
                               !.pending = run.pending, !.entry = run.entry, !.pc = "record"]
        BY <1>0, <3>2 DEF RunRecord
      <3> QED
        BY <1>0, <3>1, <3>3, <3>4, ScoredFacts DEF RunPcs, Playing
    <2>2. child' = child
      BY <1>0, <1>17 DEF Judge, ChildRecord, ChildStates, Codes, Builds, Gone
    <2>3. disk' = disk
      BY <1>0, <1>17 DEF Judge, DiskRecord, Builds
    <2>4. seen' \in SeenRecord /\ config' = config /\ seen'.foreign = seen.foreign
      <3>1. PICK v \in BOOLEAN : seen' = [seen EXCEPT !.refused = seen.refused \/ ~v]
        BY <1>17 DEF Judge
      <3> QED
        BY <1>0, <1>17, <3>1 DEF Judge, SeenRecord
    <2>5. RunTyped'
      BY <1>0, <2>1, <2>2, <2>3, <2>4 DEF Cleanup, RunTyped
    <2>6. Configured'
      BY <1>0, <1>17, <2>1, <2>4
         DEF Cleanup, Configured, ValidConfig, Repeat, SameCase, SameRows, Judge, RunRecord
    <2>7. Cleaned'
      BY <1>0, <1>17, <2>1, <2>2, <2>3, <2>4
         DEF Cleanup, Cleaned, Playing, SameRows, Judge, RunRecord, ChildRecord, DiskRecord
    <2>8. Evaluated'
      BY <1>0, <1>17, <2>1, <2>2, <2>3, <2>4
         DEF Cleanup, Cleaned, Evaluated, Playing, Judge, ChildRecord, SeenRecord
    <2> QED
      BY <2>5, <2>6, <2>7, <2>8 DEF Cleanup
  <1>18. CASE StopContainer
    <2>1. /\ run' \in RunRecord /\ SameCase /\ run'.pc = "wait"
          /\ run'.stuck # {} => run'.fault
          /\ child'.state = "exited" \/ "child" \in run'.stuck
      <3>1. run.stuck = {}
        BY <1>18 DEF Cleanup, Cleaned, StopContainer
      <3>4. \A c : [child EXCEPT !.state = "exited", !.code = c].state = "exited"
        BY <1>0 DEF ChildRecord
      <3>2. CASE (Goto("wait") \/ FailAt("wait")) /\ child'.state = "exited"
        BY <1>0, <3>1, <3>2, GotoFacts, FailFacts DEF RunPcs, Closing
      <3>3. CASE run' = [run EXCEPT !.pc = "wait", !.fault = TRUE, !.stuck = {"child"}]
        BY <1>0, <3>3 DEF RunRecord, RunPcs, Closing, SameCase
      <3> QED
        BY <1>18, <3>2, <3>3, <3>4 DEF StopContainer
    <2>2. child' \in ChildRecord /\ child'.build = child.build
      BY <1>0, <1>18 DEF StopContainer, ChildRecord, ChildStates, Codes, Builds, Gone
    <2>3. disk' = disk
      BY <1>0, <1>18 DEF StopContainer, DiskRecord, Builds
    <2>4. seen' = seen /\ config' = config
      BY <1>0, <1>18 DEF StopContainer
    <2>5. RunTyped'
      BY <1>0, <2>1, <2>2, <2>3, <2>4 DEF Cleanup, RunTyped
    <2>6. Configured'
      BY <1>0, <1>18, <2>1, <2>4
         DEF Cleanup, Configured, ValidConfig, Repeat, SameCase, SameRows, StopContainer, RunRecord
    <2>7. Cleaned'
      BY <1>0, <1>18, <2>1, <2>2, <2>3, <2>4
         DEF Cleanup, Cleaned, Playing, SameRows, StopContainer, RunRecord, ChildRecord, DiskRecord
    <2>8. Evaluated'
      BY <1>0, <1>18, <2>1, <2>2, <2>3, <2>4
         DEF Cleanup, Cleaned, Evaluated, Playing, StopContainer, ChildRecord, SeenRecord
    <2> QED
      BY <2>5, <2>6, <2>7, <2>8 DEF Cleanup
  <1>19. CASE Timeout
    <2>1. /\ run' \in RunRecord /\ SameCase /\ run'.pc = "remove"
          /\ \/ run'.fault = run.fault /\ run'.stuck = run.stuck /\ child'.state = "exited"
             \/ run'.fault /\ run'.stuck = run.stuck \cup {"child"} /\ child' = child
             \/ /\ config.runtime = "container" /\ run'.fault /\ run'.stuck = run.stuck
                /\ child' = child
      <3>1. child' = [child EXCEPT !.state = "exited", !.code = "killed"] =>
              child'.state = "exited"
        BY <1>0 DEF ChildRecord
      <3> QED
        BY <1>0, <1>19, <3>1, GotoFacts, FailFacts, LeaveFacts DEF Timeout, RunPcs, Closing
    <2>2. child' \in ChildRecord /\ child'.build = child.build /\ (child' = child
            \/ child.state \in {"booting", "serving", "exited"})
      BY <1>0, <1>19 DEF Timeout, ChildRecord, ChildStates, Codes
    <2>3. disk' = disk
      BY <1>0, <1>19 DEF Timeout, DiskRecord, Builds
    <2>4. seen' = seen /\ config' = config
      BY <1>0, <1>19 DEF Timeout
    <2>5. RunTyped'
      BY <1>0, <2>1, <2>2, <2>3, <2>4 DEF Cleanup, RunTyped
    <2>6. Configured'
      BY <1>0, <1>19, <2>1, <2>4
         DEF Cleanup, Configured, ValidConfig, Repeat, SameCase, SameRows, Timeout, RunRecord
    <2>7. Cleaned'
      BY <1>0, <1>19, <2>1, <2>2, <2>3, <2>4
         DEF Cleanup, Cleaned, Playing, SameRows, Timeout, RunRecord, ChildRecord, DiskRecord
    <2>8. Evaluated'
      BY <1>0, <1>19, <2>1, <2>2, <2>3, <2>4
         DEF Cleanup, Cleaned, Evaluated, Playing, Timeout, ChildRecord, SeenRecord
    <2> QED
      BY <2>5, <2>6, <2>7, <2>8 DEF Cleanup
  <1>20. CASE RemoveState
    <2>1. /\ run' \in RunRecord /\ SameCase /\ run'.pc = "closed"
          /\ \/ run'.fault = run.fault /\ run'.stuck = run.stuck /\ ~disk'.dir
             \/ run'.fault /\ run'.stuck = run.stuck \cup {"dir"} /\ disk' = disk
      <3>1. CASE Goto("closed") /\ disk' = [disk EXCEPT !.dir = FALSE]
        BY <1>0, <3>1, GotoFacts DEF RunPcs, Closing, DiskRecord
      <3>2. CASE /\ run' = [run EXCEPT !.pc = "closed", !.fault = TRUE,
                                       !.stuck = run.stuck \cup {"dir"}]
                 /\ disk' = disk
        BY <1>0, <3>2 DEF RunRecord, RunPcs, Closing, SameCase
      <3> QED
        BY <1>20, <3>1, <3>2 DEF RemoveState
    <2>2. child' = child
      BY <1>0, <1>20 DEF RemoveState, ChildRecord, ChildStates, Codes, Builds, Gone
    <2>3. disk' \in DiskRecord /\ disk'.results = disk.results
      BY <1>0, <1>20 DEF RemoveState, DiskRecord, Builds
    <2>4. seen' = seen /\ config' = config
      BY <1>0, <1>20 DEF RemoveState
    <2>5. RunTyped'
      BY <1>0, <2>1, <2>2, <2>3, <2>4 DEF Cleanup, RunTyped
    <2>6. Configured'
      BY <1>0, <1>20, <2>1, <2>4
         DEF Cleanup, Configured, ValidConfig, Repeat, SameCase, SameRows, RemoveState, RunRecord
    <2>7. Cleaned'
      BY <1>0, <1>20, <2>1, <2>2, <2>3, <2>4
         DEF Cleanup, Cleaned, Playing, SameRows, RemoveState, RunRecord, ChildRecord, DiskRecord
    <2>8. Evaluated'
      BY <1>0, <1>20, <2>1, <2>2, <2>3, <2>4
         DEF Cleanup, Cleaned, Evaluated, Playing, RemoveState, ChildRecord, SeenRecord
    <2> QED
      BY <2>5, <2>6, <2>7, <2>8 DEF Cleanup
  <1>21. CASE EndCase
    <2>1. /\ run' \in RunRecord /\ run'.sample = run.sample /\ run'.fault = run.fault
          /\ run'.stuck = run.stuck /\ run'.pc = IF run.fault THEN "abort" ELSE "next"
      <3>1. CASE run.fault
        BY <1>0, <1>21, <3>1, GotoFacts DEF EndCase, RunPcs, SameCase
      <3>2. CASE ~run.fault
        <4>1. Row \in RowType
          BY <1>0, RowFits
        <4>2. run' = [run EXCEPT !.pc = "next", !.rows = Append(run.rows, Row)]
          BY <1>21, <3>2 DEF EndCase
        <4>3. Append(run.rows, Row) \in Seq(RowType)
          BY <1>0, <4>1 DEF RunRecord
        <4> QED
          BY <1>0, <3>2, <4>2, <4>3 DEF RunRecord, RunPcs
      <3> QED
        BY <3>1, <3>2
    <2>2. child' \in ChildRecord /\ child' \in {child, Gone} /\ (Running(child') =>
            child' = child) /\ Gone.state = "none"
      BY <1>0, <1>21 DEF EndCase, ChildRecord, ChildStates, Codes, Builds, Gone
    <2>3. disk' = disk
      BY <1>0, <1>21 DEF EndCase, DiskRecord, Builds
    <2>4. seen' = seen /\ config' = config
      BY <1>0, <1>21 DEF EndCase
    <2>5. RunTyped'
      BY <1>0, <2>1, <2>2, <2>3, <2>4 DEF Cleanup, RunTyped
    <2>6. Configured'
      BY <1>0, <1>21, <2>1, <2>4
         DEF Cleanup, Configured, ValidConfig, Repeat, SameCase, SameRows, EndCase, RunRecord
    <2>7. Cleaned'
      BY <1>0, <1>21, <2>1, <2>2, <2>3, <2>4
         DEF Cleanup, Cleaned, Playing, SameRows, EndCase, RunRecord, ChildRecord, DiskRecord
    <2>8. Evaluated'
      BY <1>0, <1>21, <2>1, <2>2, <2>3, <2>4
         DEF Cleanup, Cleaned, Evaluated, Playing, EndCase, ChildRecord, SeenRecord
    <2> QED
      BY <2>5, <2>6, <2>7, <2>8 DEF Cleanup
  <1>22. CASE Publish
    <2>1. run' \in RunRecord /\ run'.pc \in {"done"} /\ run'.fault = run.fault /\ SameCase
            /\ run'.stuck = run.stuck
      BY <1>0, <1>22, GotoFacts, FailFacts, LeaveFacts DEF RunPcs, Playing, Closing, Publish
    <2>2. child' = child
      BY <1>0, <1>22 DEF Publish, ChildRecord, ChildStates, Codes, Builds, Gone
    <2>3. disk' \in DiskRecord /\ disk'.dir = disk.dir
      <3>1. Artifact \in FileType
        BY <1>0, ArtifactFits DEF Cleanup, RunTyped
      <3> QED
        BY <1>0, <1>22, <3>1 DEF Publish, DiskRecord
    <2>4. seen' = seen /\ config' = config
      BY <1>0, <1>22 DEF Publish
    <2>5. RunTyped'
      BY <1>0, <2>1, <2>2, <2>3, <2>4 DEF Cleanup, RunTyped
    <2>6. Configured'
      BY <1>0, <1>22, <2>1, <2>4
         DEF Cleanup, Configured, ValidConfig, Repeat, SameCase, SameRows, Publish, RunRecord
    <2>7. Cleaned'
      BY <1>0, <1>22, <2>1, <2>2, <2>3, <2>4
         DEF Cleanup, Cleaned, Playing, SameRows, Publish, RunRecord, ChildRecord, DiskRecord
    <2>8. Evaluated'
      BY <1>0, <1>22, <2>1, <2>2, <2>3, <2>4
         DEF Cleanup, Cleaned, Evaluated, Playing, Publish, ChildRecord, SeenRecord
    <2> QED
      BY <2>5, <2>6, <2>7, <2>8 DEF Cleanup
  <1>23. CASE PublishPartial
    <2>1. run' \in RunRecord /\ run'.pc \in {"done"} /\ run'.fault = run.fault /\ SameCase
            /\ run'.stuck = run.stuck
      BY <1>0, <1>23, GotoFacts, FailFacts, LeaveFacts DEF RunPcs, Playing, Closing, PublishPartial
    <2>2. child' = child
      BY <1>0, <1>23 DEF PublishPartial, ChildRecord, ChildStates, Codes, Builds, Gone
    <2>3. disk' \in DiskRecord /\ disk'.dir = disk.dir /\ disk'.results = disk.results
      <3>1. Artifact \in FileType
        BY <1>0, ArtifactFits DEF Cleanup, RunTyped
      <3> QED
        BY <1>0, <1>23, <3>1 DEF PublishPartial, DiskRecord
    <2>4. seen' = seen /\ config' = config
      BY <1>0, <1>23 DEF PublishPartial
    <2>5. RunTyped'
      BY <1>0, <2>1, <2>2, <2>3, <2>4 DEF Cleanup, RunTyped
    <2>6. Configured'
      BY <1>0, <1>23, <2>1, <2>4
         DEF Cleanup, Configured, ValidConfig, Repeat, SameCase, SameRows, PublishPartial, RunRecord
    <2>7. Cleaned'
      BY <1>0, <1>23, <2>1, <2>2, <2>3, <2>4
         DEF Cleanup, Cleaned, Playing, SameRows, PublishPartial, RunRecord, ChildRecord, DiskRecord
    <2>8. Evaluated'
      BY <1>0, <1>23, <2>1, <2>2, <2>3, <2>4
         DEF Cleanup, Cleaned, Evaluated, Playing, PublishPartial, ChildRecord, SeenRecord
    <2> QED
      BY <2>5, <2>6, <2>7, <2>8 DEF Cleanup
  <1>24. CASE Boot
    <2>1. run' \in RunRecord /\ run' = run
      BY <1>0, <1>24, GotoFacts, FailFacts, LeaveFacts DEF RunPcs, Playing, Closing, Boot
    <2>2. child' \in ChildRecord /\ child.state = "booting" /\ child'.build = child.build
      BY <1>0, <1>24 DEF Boot, ChildRecord, ChildStates, Codes, Builds, Gone
    <2>3. disk' = disk
      BY <1>0, <1>24 DEF Boot, DiskRecord, Builds
    <2>4. seen' = seen /\ config' = config
      BY <1>0, <1>24 DEF Boot
    <2>5. RunTyped'
      BY <1>0, <2>1, <2>2, <2>3, <2>4 DEF Cleanup, RunTyped
    <2>6. Configured'
      BY <1>0, <1>24, <2>1, <2>4
         DEF Cleanup, Configured, ValidConfig, Repeat, SameCase, SameRows, Boot, RunRecord
    <2>7. Cleaned'
      BY <1>0, <1>24, <2>1, <2>2, <2>3, <2>4
         DEF Cleanup, Cleaned, Playing, SameRows, Boot, RunRecord, ChildRecord, DiskRecord
    <2>8. Evaluated'
      BY <1>0, <1>24, <2>1, <2>2, <2>3, <2>4
         DEF Cleanup, Cleaned, Evaluated, Playing, Boot, ChildRecord, SeenRecord
    <2> QED
      BY <2>5, <2>6, <2>7, <2>8 DEF Cleanup
  <1>25. CASE Exit
    <2>1. run' \in RunRecord /\ run' = run
      BY <1>0, <1>25, GotoFacts, FailFacts, LeaveFacts DEF RunPcs, Playing, Closing, Exit
    <2>2. child' \in ChildRecord /\ child'.build = child.build
            /\ child.state \in {"booting", "serving"} /\ child'.state = "exited"
      BY <1>0, <1>25 DEF Exit, ChildRecord, ChildStates, Codes, Builds, Gone
    <2>3. disk' = disk
      BY <1>0, <1>25 DEF Exit, DiskRecord, Builds
    <2>4. seen' = seen /\ config' = config
      BY <1>0, <1>25 DEF Exit
    <2>5. RunTyped'
      BY <1>0, <2>1, <2>2, <2>3, <2>4 DEF Cleanup, RunTyped
    <2>6. Configured'
      BY <1>0, <1>25, <2>1, <2>4
         DEF Cleanup, Configured, ValidConfig, Repeat, SameCase, SameRows, Exit, RunRecord
    <2>7. Cleaned'
      BY <1>0, <1>25, <2>1, <2>2, <2>3, <2>4
         DEF Cleanup, Cleaned, Playing, SameRows, Exit, RunRecord, ChildRecord, DiskRecord
    <2>8. Evaluated'
      BY <1>0, <1>25, <2>1, <2>2, <2>3, <2>4
         DEF Cleanup, Cleaned, Evaluated, Playing, Exit, ChildRecord, SeenRecord
    <2> QED
      BY <2>5, <2>6, <2>7, <2>8 DEF Cleanup
  <1>26. CASE Rebuild
    <2>1. run' \in RunRecord /\ run' = run
      BY <1>0, <1>26, GotoFacts, FailFacts, LeaveFacts DEF RunPcs, Playing, Closing, Rebuild
    <2>2. child' = child
      BY <1>0, <1>26 DEF Rebuild, ChildRecord, ChildStates, Codes, Builds, Gone
    <2>3. disk' \in DiskRecord /\ disk'.dir = disk.dir /\ disk'.results = disk.results
      BY <1>0, <1>26 DEF Rebuild, DiskRecord, Builds
    <2>4. seen' = seen /\ config' = config
      BY <1>0, <1>26 DEF Rebuild
    <2>5. RunTyped'
      BY <1>0, <2>1, <2>2, <2>3, <2>4 DEF Cleanup, RunTyped
    <2>6. Configured'
      BY <1>0, <1>26, <2>1, <2>4
         DEF Cleanup, Configured, ValidConfig, Repeat, SameCase, SameRows, Rebuild, RunRecord
    <2>7. Cleaned'
      BY <1>0, <1>26, <2>1, <2>2, <2>3, <2>4
         DEF Cleanup, Cleaned, Playing, SameRows, Rebuild, RunRecord, ChildRecord, DiskRecord
    <2>8. Evaluated'
      BY <1>0, <1>26, <2>1, <2>2, <2>3, <2>4
         DEF Cleanup, Cleaned, Evaluated, Playing, Rebuild, ChildRecord, SeenRecord
    <2> QED
      BY <2>5, <2>6, <2>7, <2>8 DEF Cleanup
  <1>27. CASE VersionEnds
    <2>1. run' \in RunRecord /\ run' = run
      BY <1>0, <1>27 DEF VersionEnds
    <2>2. child' \in ChildRecord /\ child'.state = "answered" /\ child'.build = child.build
      BY <1>0, <1>27 DEF VersionEnds, ChildRecord, ChildStates
    <2>3. disk' = disk /\ seen' = seen /\ config' = config
      BY <1>27 DEF VersionEnds
    <2>4. RunTyped'
      BY <1>0, <2>1, <2>2, <2>3 DEF Cleanup, RunTyped
    <2>5. Configured'
      BY <2>1, <2>3 DEF Cleanup, Configured, ValidConfig, Repeat
    <2>6. Cleaned'
      BY <2>1, <2>2, <2>3 DEF Cleanup, Cleaned
    <2>7. Evaluated'
      BY <2>1, <2>2, <2>3 DEF Cleanup, Evaluated
    <2> QED
      BY <2>4, <2>5, <2>6, <2>7 DEF Cleanup
  <1>28. CASE UNCHANGED runVars
    BY <1>28 DEF runVars, Cleanup, RunTyped, Configured, ValidConfig, Repeat, Cleaned, Evaluated
  <1> QED
    BY <1>1, <1>2, <1>3, <1>4, <1>5, <1>6, <1>7, <1>8, <1>9, <1>10, <1>11, <1>12, <1>13, <1>14,
       <1>15, <1>16, <1>17, <1>18, <1>19, <1>20, <1>21, <1>22, <1>23, <1>24, <1>25, <1>26,
       <1>27, <1>28 DEF RunNext, Harness, RunDone

\* The case samples played before a place of the run, and what the rows say of them.
Before(s, c) ==
  {e \in Cases \X (1 .. s) : e[2] < s \/ e[1] \in {Evalset[j].id : j \in 1 .. (c - 1)}}
Marks(rows) == {<<rows[i].id, rows[i].sample>> : i \in DOMAIN rows}
Holds(rows, s, c) ==
  Marks(rows) = Before(s, c) /\ Len(rows) = (s - 1) * Len(Evalset) + (c - 1)

Whole == Holds(run.rows, Repeat, Len(Evalset) + 1)

\* The rows are the case samples played so far; a published file is the whole run, a
\* partial one is not.
Recorded ==
  /\ run.pc \in Playing \cup Closing \cup {"begin"} => Holds(run.rows, run.sample, run.case)
  /\ run.pc = "next" => Holds(run.rows, run.sample, run.case + 1)
  /\ run.pc = "publish" => Whole
  /\ run.pc = "abort" => Len(run.rows) < Expected
  /\ disk.results.own => disk.results = Artifact /\ ValidConfig /\ Whole
  /\ disk.partial = NoFile \/ Len(disk.partial.rows) < disk.partial.expected

LEMMA NothingPlayed ==
  ASSUME EvaluationAssumption
  PROVE  Holds(<<>>, 1, 1)
  <1>1. Marks(<<>>) = {}
    BY DEF Marks
  <1>2. Before(1, 1) = {}
    BY DEF Before
  <1>3. Len(<<>>) = (1 - 1) * Len(Evalset) + (1 - 1)
    BY EvalsetType
  <1> QED
    BY <1>1, <1>2, <1>3 DEF Holds

LEMMA OneMorePlayed ==
  ASSUME EvaluationAssumption, NEW rows \in Seq(RowType), NEW row \in RowType,
         NEW s \in Nat \ {0}, NEW c \in 1 .. Len(Evalset), Holds(rows, s, c),
         row.id = Evalset[c].id, row.sample = s
  PROVE  Holds(Append(rows, row), s, c + 1)
  <1>1. Len(Append(rows, row)) = Len(rows) + 1 /\ DOMAIN Append(rows, row) = 1 .. (Len(rows) + 1)
    OBVIOUS
  <1>2. /\ \A i \in DOMAIN rows : i \in DOMAIN Append(rows, row) /\ Append(rows, row)[i] = rows[i]
        /\ Append(rows, row)[Len(rows) + 1] = row
        /\ \A i \in DOMAIN Append(rows, row) : i = Len(rows) + 1 \/ i \in DOMAIN rows
    BY <1>1
  <1>3. Marks(Append(rows, row)) = Marks(rows) \cup {<<row.id, row.sample>>}
    BY <1>1, <1>2 DEF Marks
  <1>4. Before(s, c + 1) = Before(s, c) \cup {<<Evalset[c].id, s>>}
    <2>1. c \in Nat /\ c - 1 \in Nat /\ (c + 1) - 1 = c
      BY EvalsetType
    <2>2. {Evalset[j].id : j \in 1 .. ((c + 1) - 1)}
            = {Evalset[j].id : j \in 1 .. (c - 1)} \cup {Evalset[c].id}
      <3>1. \A j : j \in 1 .. ((c + 1) - 1) <=> j \in 1 .. (c - 1) \/ j = c
        BY <2>1
      <3> QED
        BY <3>1
    <2>3. Evalset[c].id \in Cases
      BY EvalsetType
    <2>4. ASSUME NEW e \in Cases \X (1 .. s)
          PROVE  e \in Before(s, c + 1) <=> e \in Before(s, c) \cup {<<Evalset[c].id, s>>}
      <3>1. e = <<e[1], e[2]>> /\ e[2] \in 1 .. s
        OBVIOUS
      <3>2. e[1] = Evalset[c].id => e[2] < s \/ e = <<Evalset[c].id, s>>
        BY <3>1
      <3> QED
        BY <2>2, <3>1, <3>2 DEF Before
    <2>5. /\ Before(s, c + 1) \subseteq Cases \X (1 .. s)
          /\ Before(s, c) \subseteq Cases \X (1 .. s)
      BY DEF Before
    <2>6. <<Evalset[c].id, s>> \in Cases \X (1 .. s)
      BY <2>3
    <2> QED
      BY <2>4, <2>5, <2>6
  <1>5. Len(Append(rows, row)) = (s - 1) * Len(Evalset) + ((c + 1) - 1)
    <2>1. Len(rows) = (s - 1) * Len(Evalset) + (c - 1) /\ c \in Nat
      BY EvalsetType DEF Holds
    <2>2. (s - 1) * Len(Evalset) \in Int
      BY EvalsetType
    <2> QED
      BY <1>1, <2>1, <2>2
  <1> QED
    BY <1>3, <1>4, <1>5 DEF Holds

LEMMA SamplePlayed ==
  ASSUME EvaluationAssumption, NEW s \in Nat \ {0}
  PROVE  /\ Before(s, Len(Evalset) + 1) = Cases \X (1 .. s)
         /\ Before(s + 1, 1) = Cases \X (1 .. s)
         /\ (s - 1) * Len(Evalset) + ((Len(Evalset) + 1) - 1) = s * Len(Evalset)
         /\ ((s + 1) - 1) * Len(Evalset) + (1 - 1) = s * Len(Evalset)
  <1>1. {Evalset[j].id : j \in 1 .. ((Len(Evalset) + 1) - 1)} = Cases
    BY EvalsetType DEF Cases
  <1>2. Before(s, Len(Evalset) + 1) = Cases \X (1 .. s)
    BY <1>1 DEF Before
  <1>3. Before(s + 1, 1) = Cases \X (1 .. s)
    <2>1. {Evalset[j].id : j \in 1 .. (1 - 1)} = {}
      OBVIOUS
    <2>2. \A n : n \in 1 .. (s + 1) /\ n < s + 1 <=> n \in 1 .. s
      OBVIOUS
    <2>3. \A e : e \in Before(s + 1, 1) <=> e \in Cases \X (1 .. (s + 1)) /\ e[2] < s + 1
      BY <2>1 DEF Before
    <2> QED
      BY <2>2, <2>3
  <1>4. ((s + 1) - 1) * Len(Evalset) + (1 - 1) = s * Len(Evalset)
    <2>1. (s + 1) - 1 = s /\ s * Len(Evalset) \in Int
      BY EvalsetType
    <2> QED
      BY <2>1
  <1>5. (s - 1) * Len(Evalset) + ((Len(Evalset) + 1) - 1) = s * Len(Evalset)
    <2>1. \A m, n \in Int : (m - 1) * n + n = m * n
      OBVIOUS
    <2>2. (s - 1) * Len(Evalset) \in Int /\ (Len(Evalset) + 1) - 1 = Len(Evalset)
      BY EvalsetType
    <2> QED
      BY <2>1, <2>2, EvalsetType
  <1> QED
    BY <1>2, <1>3, <1>4, <1>5

LEMMA NotWhole ==
  ASSUME EvaluationAssumption, config \in Configs, ValidConfig,
         NEW s \in Nat \ {0}, s <= Repeat, NEW c \in 1 .. Len(Evalset),
         NEW rows \in Seq(RowType), Holds(rows, s, c)
  PROVE  Len(rows) < Expected
  <1> DEFINE k == Len(Evalset)
  <1>1. k \in Nat \ {0} /\ Repeat \in Nat \ {0}
    BY EvalsetType, ConfigType DEF ValidConfig
  <1>2. Len(rows) = (s - 1) * k + (c - 1)
    BY DEF Holds
  <1>3. (s - 1) * k + k = s * k
    <2>1. \A m, n \in Int : (m - 1) * n + n = m * n
      OBVIOUS
    <2> QED
      BY <1>1, <2>1
  <1>4. s * k <= Repeat * k
    <2>1. \A m, n, d \in Nat : m <= n => m * d <= n * d
      OBVIOUS
    <2> QED
      BY <1>1, <2>1
  <1>5. (s - 1) * k \in Int /\ s * k \in Int /\ Repeat * k \in Int /\ k * Repeat = Repeat * k
    BY <1>1
  <1> HIDE DEF k
  <1>6. (s - 1) * k + (c - 1) < k * Repeat
    BY <1>1, <1>3, <1>4, <1>5 DEF k
  <1> QED
    BY <1>2, <1>6 DEF k, Expected

\* A failed score shows: in the scores of the case being played, or in a row.
Current == run.pc \in Playing \cup Closing
FailedRow(id) ==
  \E i \in DOMAIN run.rows :
    run.rows[i].id = id /\ ~run.rows[i].deterministicPassed /\ ~run.rows[i].passed
FailedScore(names) == \E n \in DOMAIN run.scores \cap names : ~run.scores[n]

Failing ==
  ~run.fault =>
    /\ \A id \in seen.failed :
         FailedRow(id) \/ (Current /\ id = Case.id /\ FailedScore(Deterministic))
    /\ seen.refused =>
         \/ \E i \in DOMAIN run.rows : ~run.rows[i].passed
         \/ Current /\ FailedScore(Stochastic)

RowsInv == Recorded /\ Failing

LEMMA MergeFacts ==
  ASSUME NEW f \in Scores, NEW g \in Scores, NEW names
  PROVE  /\ (\E n \in DOMAIN f \cap names : ~f[n]) =>
              \E n \in DOMAIN Merge(f, g) \cap names : ~Merge(f, g)[n]
         /\ \A n \in DOMAIN g \cap names : ~g[n] =>
              n \in DOMAIN Merge(f, g) \cap names /\ ~Merge(f, g)[n]
  BY DEF Merge

LEMMA InitRows ==
  ASSUME EvaluationAssumption, RunInit
  PROVE  RowsInv
  <1>1. Holds(run.rows, run.sample, run.case) /\ run.pc = "begin" /\ ~run.fault
    BY NothingPlayed DEF RunInit
  <1>2. seen.failed = {} /\ ~seen.refused
    BY DEF RunInit
  <1>3. ~disk.results.own /\ disk.partial = NoFile
    <2>1. disk.results \in {NoFile, Former} /\ disk.partial \in {NoFile}
      BY DEF RunInit
    <2>2. ~NoFile.own /\ ~Former.own
      BY DEF NoFile, Former
    <2> QED
      BY <2>1, <2>2
  <1> QED
    BY <1>1, <1>2, <1>3 DEF RowsInv, Recorded, Failing

\* A step that leaves the case and the files.
LEMMA RowsStay ==
  ASSUME RowsInv, SameCase, config' = config, seen' = seen,
         run.fault => run'.fault,
         disk'.results = disk.results, disk'.partial = disk.partial, ~disk.results.own,
         run.pc \in Playing \cup Closing \cup {"begin"},
         run'.pc \in Playing \cup Closing \cup {"done"},
         Current => run'.pc # "done"
  PROVE  RowsInv'
  <1>1. Recorded'
    BY DEF RowsInv, Recorded, SameCase, Holds, Marks, Before, Whole, Repeat, Playing, Closing
  <1>2. Failing'
    BY DEF RowsInv, Failing, FailedRow, FailedScore, SameCase, Current, Case, Playing, Closing
  <1> QED
    BY <1>1, <1>2 DEF RowsInv

LEMMA RowsSame ==
  ASSUME RowsInv, run' = run, config' = config, seen' = seen,
         disk'.results = disk.results, disk'.partial = disk.partial
  PROVE  RowsInv'
  <1>1. Recorded'
    BY DEF RowsInv, Recorded, Holds, Marks, Before, Whole, Repeat, Artifact, Expected, ValidConfig
  <1>2. Failing'
    BY DEF RowsInv, Failing, FailedRow, FailedScore, Current, Case
  <1> QED
    BY <1>1, <1>2 DEF RowsInv

\* A step that scores the case.
LEMMA RowsScored ==
  ASSUME RowsInv, SameRows, config' = config, disk' = disk, ~disk.results.own, ~run.fault,
         run.pc \in Playing, run'.pc \in Playing,
         \A id \in seen'.failed : id \in seen.failed \/ (id = Case.id
           /\ FailedScore(Deterministic)'),
         FailedScore(Deterministic) => FailedScore(Deterministic)',
         seen'.refused => seen.refused \/ FailedScore(Stochastic)',
         FailedScore(Stochastic) => FailedScore(Stochastic)'
  PROVE  RowsInv'
  <1>1. Recorded'
    BY DEF RowsInv, Recorded, SameRows, Holds, Marks, Before, Whole, Repeat, Playing, Closing
  <1>2. Failing'
    BY DEF RowsInv, Failing, FailedRow, SameRows, Current, Case
  <1> QED
    BY <1>1, <1>2 DEF RowsInv

LEMMA RowsStep ==
  ASSUME EvaluationAssumption, Cleanup, RowsInv, [RunNext]_runVars
  PROVE  RowsInv'
  <1> USE DEF At
  <1>0. run \in RunRecord /\ child \in ChildRecord /\ disk \in DiskRecord /\ seen \in SeenRecord
    BY DEF Cleanup, RunTyped
  <1>1. CASE Begin
    <2>1. /\ SameCase /\ config' = config /\ seen' = seen /\ (run.fault => run'.fault)
          /\ run.pc \in Playing \cup Closing \cup {"begin"}
          /\ run'.pc \in Playing \cup Closing \cup {"done"}
          /\ Current => run'.pc # "done"
      BY <1>0, <1>1, GotoFacts, FailFacts, LeaveFacts
         DEF Begin, RunPcs, Playing, Closing, Current
    <2>2. disk'.results = disk.results /\ disk'.partial = disk.partial /\ ~disk.results.own
      BY <1>0, <1>1 DEF Begin, DiskRecord, Cleanup, Cleaned
    <2> QED
      BY <2>1, <2>2, RowsStay
  <1>2. CASE StartCase
    <2>1. /\ SameCase /\ config' = config /\ seen' = seen /\ (run.fault => run'.fault)
          /\ run.pc \in Playing \cup Closing \cup {"begin"}
          /\ run'.pc \in Playing \cup Closing \cup {"done"}
          /\ Current => run'.pc # "done"
      BY <1>0, <1>2, GotoFacts, FailFacts, LeaveFacts
         DEF StartCase, RunPcs, Playing, Closing, Current
    <2>2. disk'.results = disk.results /\ disk'.partial = disk.partial /\ ~disk.results.own
      BY <1>0, <1>2 DEF StartCase, DiskRecord, Cleanup, Cleaned
    <2> QED
      BY <2>1, <2>2, RowsStay
  <1>3. CASE Isolate
    <2>1. /\ SameCase /\ config' = config /\ seen' = seen /\ (run.fault => run'.fault)
          /\ run.pc \in Playing \cup Closing \cup {"begin"}
          /\ run'.pc \in Playing \cup Closing \cup {"done"}
          /\ Current => run'.pc # "done"
      BY <1>0, <1>3, GotoFacts, FailFacts, LeaveFacts
         DEF Isolate, RunPcs, Playing, Closing, Current
    <2>2. disk'.results = disk.results /\ disk'.partial = disk.partial /\ ~disk.results.own
      BY <1>0, <1>3 DEF Isolate, DiskRecord, Cleanup, Cleaned
    <2> QED
      BY <2>1, <2>2, RowsStay
  <1>4. CASE Verify
    <2>1. /\ SameCase /\ config' = config /\ seen' = seen /\ (run.fault => run'.fault)
          /\ run.pc \in Playing \cup Closing \cup {"begin"}
          /\ run'.pc \in Playing \cup Closing \cup {"done"}
          /\ Current => run'.pc # "done"
      BY <1>0, <1>4, GotoFacts, FailFacts, LeaveFacts
         DEF Verify, RunPcs, Playing, Closing, Current
    <2>2. disk'.results = disk.results /\ disk'.partial = disk.partial /\ ~disk.results.own
      BY <1>0, <1>4 DEF Verify, DiskRecord, Cleanup, Cleaned
    <2> QED
      BY <2>1, <2>2, RowsStay
  <1>5. CASE Spawn
    <2>1. /\ SameCase /\ config' = config /\ seen' = seen /\ (run.fault => run'.fault)
          /\ run.pc \in Playing \cup Closing \cup {"begin"}
          /\ run'.pc \in Playing \cup Closing \cup {"done"}
          /\ Current => run'.pc # "done"
      BY <1>0, <1>5, GotoFacts, FailFacts, LeaveFacts
         DEF Spawn, RunPcs, Playing, Closing, Current
    <2>2. disk'.results = disk.results /\ disk'.partial = disk.partial /\ ~disk.results.own
      BY <1>0, <1>5 DEF Spawn, DiskRecord, Cleanup, Cleaned
    <2> QED
      BY <2>1, <2>2, RowsStay
  <1>6. CASE Ready
    <2>1. /\ SameCase /\ config' = config /\ seen' = seen /\ (run.fault => run'.fault)
          /\ run.pc \in Playing \cup Closing \cup {"begin"}
          /\ run'.pc \in Playing \cup Closing \cup {"done"}
          /\ Current => run'.pc # "done"
      BY <1>0, <1>6, GotoFacts, FailFacts, LeaveFacts
         DEF Ready, RunPcs, Playing, Closing, Current
    <2>2. disk'.results = disk.results /\ disk'.partial = disk.partial /\ ~disk.results.own
      BY <1>0, <1>6 DEF Ready, DiskRecord, Cleanup, Cleaned
    <2> QED
      BY <2>1, <2>2, RowsStay
  <1>7. CASE NotReady
    <2>1. /\ SameCase /\ config' = config /\ seen' = seen /\ (run.fault => run'.fault)
          /\ run.pc \in Playing \cup Closing \cup {"begin"}
          /\ run'.pc \in Playing \cup Closing \cup {"done"}
          /\ Current => run'.pc # "done"
      BY <1>0, <1>7, GotoFacts, FailFacts, LeaveFacts
         DEF NotReady, RunPcs, Playing, Closing, Current
    <2>2. disk'.results = disk.results /\ disk'.partial = disk.partial /\ ~disk.results.own
      BY <1>0, <1>7 DEF NotReady, DiskRecord, Cleanup, Cleaned
    <2> QED
      BY <2>1, <2>2, RowsStay
  <1>8. CASE CallFails
    <2>1. /\ SameCase /\ config' = config /\ seen' = seen /\ (run.fault => run'.fault)
          /\ run.pc \in Playing \cup Closing \cup {"begin"}
          /\ run'.pc \in Playing \cup Closing \cup {"done"}
          /\ Current => run'.pc # "done"
      BY <1>0, <1>8, GotoFacts, FailFacts, LeaveFacts
         DEF CallFails, RunPcs, Playing, Closing, Current
    <2>2. disk'.results = disk.results /\ disk'.partial = disk.partial /\ ~disk.results.own
      BY <1>0, <1>8 DEF CallFails, DiskRecord, Cleanup, Cleaned
    <2> QED
      BY <2>1, <2>2, RowsStay
  <1>9. CASE CreateSession
    <2>1. /\ SameCase /\ config' = config /\ seen' = seen /\ (run.fault => run'.fault)
          /\ run.pc \in Playing \cup Closing \cup {"begin"}
          /\ run'.pc \in Playing \cup Closing \cup {"done"}
          /\ Current => run'.pc # "done"
      BY <1>0, <1>9, GotoFacts, FailFacts, LeaveFacts
         DEF CreateSession, RunPcs, Playing, Closing, Current
    <2>2. disk'.results = disk.results /\ disk'.partial = disk.partial /\ ~disk.results.own
      BY <1>0, <1>9 DEF CreateSession, DiskRecord, Cleanup, Cleaned
    <2> QED
      BY <2>1, <2>2, RowsStay
  <1>10. CASE RecordScores
    <2>1. /\ SameCase /\ config' = config /\ seen' = seen /\ (run.fault => run'.fault)
          /\ run.pc \in Playing \cup Closing \cup {"begin"}
          /\ run'.pc \in Playing \cup Closing \cup {"done"}
          /\ Current => run'.pc # "done"
      BY <1>0, <1>10, GotoFacts, FailFacts, LeaveFacts
         DEF RecordScores, RunPcs, Playing, Closing, Current
    <2>2. disk'.results = disk.results /\ disk'.partial = disk.partial /\ ~disk.results.own
      BY <1>0, <1>10 DEF RecordScores, DiskRecord, Cleanup, Cleaned
    <2> QED
      BY <2>1, <2>2, RowsStay
  <1>11. CASE CloseExited
    <2>1. /\ SameCase /\ config' = config /\ seen' = seen /\ (run.fault => run'.fault)
          /\ run.pc \in Playing \cup Closing \cup {"begin"}
          /\ run'.pc \in Playing \cup Closing \cup {"done"}
          /\ Current => run'.pc # "done"
      BY <1>0, <1>11, GotoFacts, FailFacts, LeaveFacts
         DEF CloseExited, RunPcs, Playing, Closing, Current
    <2>2. disk'.results = disk.results /\ disk'.partial = disk.partial /\ ~disk.results.own
      BY <1>0, <1>11 DEF CloseExited, DiskRecord, Cleanup, Cleaned
    <2> QED
      BY <2>1, <2>2, RowsStay
  <1>12. CASE Exited
    <2>1. /\ SameCase /\ config' = config /\ seen' = seen /\ (run.fault => run'.fault)
          /\ run.pc \in Playing \cup Closing \cup {"begin"}
          /\ run'.pc \in Playing \cup Closing \cup {"done"}
          /\ Current => run'.pc # "done"
      BY <1>0, <1>12, GotoFacts, FailFacts, LeaveFacts
         DEF Exited, RunPcs, Playing, Closing, Current
    <2>2. disk'.results = disk.results /\ disk'.partial = disk.partial /\ ~disk.results.own
      BY <1>0, <1>12 DEF Exited, DiskRecord, Cleanup, Cleaned
    <2> QED
      BY <2>1, <2>2, RowsStay
  <1>13. CASE Interrupt
    <2>1. /\ SameCase /\ config' = config /\ seen' = seen /\ (run.fault => run'.fault)
          /\ run.pc \in Playing \cup Closing \cup {"begin"}
          /\ run'.pc \in Playing \cup Closing \cup {"done"}
          /\ Current => run'.pc # "done"
      BY <1>0, <1>13, GotoFacts, FailFacts, LeaveFacts
         DEF Interrupt, RunPcs, Playing, Closing, Current
    <2>2. disk'.results = disk.results /\ disk'.partial = disk.partial /\ ~disk.results.own
      BY <1>0, <1>13 DEF Interrupt, DiskRecord, Cleanup, Cleaned
    <2> QED
      BY <2>1, <2>2, RowsStay
  <1>14. CASE Timeout
    <2>1. SameCase /\ run'.pc = "remove" /\ (run.fault => run'.fault)
      BY <1>0, <1>14, GotoFacts, FailFacts, LeaveFacts DEF Timeout, RunPcs, Closing
    <2>2. /\ disk'.results = disk.results /\ disk'.partial = disk.partial /\ ~disk.results.own
          /\ config' = config /\ seen' = seen /\ run.pc \in Playing \cup Closing
      BY <1>0, <1>14 DEF Timeout, DiskRecord, Cleanup, Cleaned, Closing
    <2> QED
      BY <2>1, <2>2, RowsStay DEF Closing
  <1>15. CASE StopContainer
    <2>1. SameCase /\ run'.pc = "wait" /\ (run.fault => run'.fault)
      <3>1. CASE Goto("wait") \/ FailAt("wait")
        BY <1>0, <3>1, GotoFacts, FailFacts DEF RunPcs, Closing
      <3>2. CASE run' = [run EXCEPT !.pc = "wait", !.fault = TRUE, !.stuck = {"child"}]
        BY <1>0, <3>2 DEF RunRecord, SameCase
      <3> QED
        BY <1>15, <3>1, <3>2 DEF StopContainer
    <2>2. /\ disk'.results = disk.results /\ disk'.partial = disk.partial /\ ~disk.results.own
          /\ config' = config /\ seen' = seen /\ run.pc \in Playing \cup Closing
      BY <1>0, <1>15 DEF StopContainer, DiskRecord, Cleanup, Cleaned, Closing
    <2> QED
      BY <2>1, <2>2, RowsStay DEF Closing
  <1>16. CASE RemoveState
    <2>1. SameCase /\ run'.pc = "closed" /\ (run.fault => run'.fault)
      <3>1. CASE Goto("closed")
        BY <1>0, <3>1, GotoFacts DEF RunPcs, Closing
      <3>2. CASE run' = [run EXCEPT !.pc = "closed", !.fault = TRUE,
                                    !.stuck = run.stuck \cup {"dir"}]
        BY <1>0, <3>2 DEF RunRecord, SameCase
      <3> QED
        BY <1>16, <3>1, <3>2 DEF RemoveState
    <2>2. /\ disk'.results = disk.results /\ disk'.partial = disk.partial /\ ~disk.results.own
          /\ config' = config /\ seen' = seen /\ run.pc \in Playing \cup Closing
      BY <1>0, <1>16 DEF RemoveState, DiskRecord, Cleanup, Cleaned, Closing
    <2> QED
      BY <2>1, <2>2, RowsStay DEF Closing
  <1>17. CASE NextCase
    <2>1. /\ config' = config /\ seen' = seen /\ disk' = disk /\ ~disk.results.own /\ ~run.fault
          /\ ValidConfig
      BY <1>17 DEF NextCase, Cleanup, Cleaned, Configured
    <2>2. run.sample \in Nat \ {0} /\ run.case \in 1 .. Len(Evalset) /\ run.sample <= Repeat
      BY <1>0, <2>1 DEF RunRecord, Cleanup, Configured
    <2>3. Holds(run.rows, run.sample, run.case + 1)
      BY <1>17 DEF NextCase, RowsInv, Recorded
    <2>4. /\ \A id \in seen.failed : FailedRow(id)
          /\ seen.refused => \E i \in DOMAIN run.rows : ~run.rows[i].passed
      BY <1>17, <2>1 DEF NextCase, RowsInv, Failing, Current, Playing, Closing
    <2>5. ASSUME NEW s \in Nat \ {0}, NEW c \in 1 .. Len(Evalset), NewCase(s, c),
                 Holds(run.rows, s, c)
          PROVE  RowsInv'
      <3>1. run'.rows = run.rows /\ run'.sample = s /\ run'.case = c /\ run'.pc = "case"
        BY <1>0, <2>5, NewCaseFacts
      <3>2. Recorded'
        BY <1>0, <2>1, <2>5, <3>1 DEF RowsInv, Recorded, Holds, Marks, Before
      <3>3. Failing'
        BY <2>1, <2>4, <3>1 DEF Failing, FailedRow
      <3> QED
        BY <3>2, <3>3 DEF RowsInv
    <2>6. CASE run.case < Len(Evalset)
      <3>1. NewCase(run.sample, run.case + 1) /\ run.case + 1 \in 1 .. Len(Evalset)
        BY <1>17, <2>2, <2>6, EvalsetType DEF NextCase
      <3> QED
        BY <2>2, <2>3, <2>5, <3>1
    <2>7. CASE ~(run.case < Len(Evalset))
      <3>1. run.case = Len(Evalset)
        BY <2>2, <2>7, EvalsetType
      <3>2. Holds(run.rows, run.sample + 1, 1)
        BY <2>2, <2>3, <3>1, SamplePlayed DEF Holds
      <3>3. CASE run.sample < Repeat
        <4>1. NewCase(run.sample + 1, 1) /\ 1 \in 1 .. Len(Evalset)
          BY <1>17, <2>7, <3>3, EvalsetType DEF NextCase
        <4> QED
          BY <2>2, <2>5, <3>2, <4>1
      <3>4. CASE ~(run.sample < Repeat)
        <4>1. Goto("publish")
          BY <1>17, <2>7, <3>4 DEF NextCase
        <4>2. run.sample = Repeat
          BY <2>1, <2>2, <3>4, ConfigType DEF ValidConfig, Cleanup, RunTyped
        <4>3. SameCase /\ run'.pc = "publish"
          BY <1>0, <4>1, GotoFacts DEF RunPcs
        <4>4. Recorded'
          BY <2>1, <2>3, <3>1, <4>2, <4>3
             DEF RowsInv, Recorded, SameCase, Holds, Marks, Before, Whole, Repeat, Playing, Closing
        <4>5. Failing'
          BY <2>1, <2>4, <4>3 DEF Failing, FailedRow, SameCase
        <4> QED
          BY <4>4, <4>5 DEF RowsInv
      <3> QED
        BY <3>3, <3>4
    <2> QED
      BY <2>6, <2>7
  <1>18. CASE Send
    <2>1. PICK t \in Answers :
            /\ run'.scores = Merge(run.scores, TurnScores(t))
            /\ SameRows /\ run'.pc \in {"send", "judge", "record"}
            /\ seen' = [seen EXCEPT
                         !.failed = IF \E n \in DOMAIN TurnScores(t) : ~TurnScores(t)[n]
                                    THEN seen.failed \cup {Case.id} ELSE seen.failed,
                         !.foreign = seen.foreign \/ child.build # Source]
      BY <1>0, <1>18 DEF Send, SameRows, RunRecord, AfterEntry
    <2>2. /\ seen'.refused = seen.refused
          /\ seen'.failed = IF \E n \in DOMAIN TurnScores(t) : ~TurnScores(t)[n]
                            THEN seen.failed \cup {Case.id} ELSE seen.failed
      BY <1>0, <2>1 DEF SeenRecord
    <2>3. DOMAIN TurnScores(t) \subseteq Deterministic
      BY DEF TurnScores, Deterministic
    <2>4. run.scores \in Scores /\ TurnScores(t) \in Scores
      BY <1>0, TurnScoresType DEF RunRecord
    <2>5. config' = config /\ disk' = disk /\ run.pc = "send"
      BY <1>18 DEF Send
    <2>6. /\ FailedScore(Deterministic) => FailedScore(Deterministic)'
          /\ FailedScore(Stochastic) => FailedScore(Stochastic)'
          /\ (\E n \in DOMAIN TurnScores(t) : ~TurnScores(t)[n]) => FailedScore(Deterministic)'
      BY <2>1, <2>3, <2>4, MergeFacts DEF FailedScore
    <2> QED
      BY <1>0, <2>1, <2>2, <2>5, <2>6, RowsScored DEF Cleanup, Cleaned, Playing
  <1>19. CASE NothingToConfirm
    <2>1. /\ run'.scores = Merge(run.scores, [confirmation |-> FALSE])
          /\ SameRows /\ run'.pc \in {"judge", "record"}
          /\ seen'.failed = seen.failed \cup {Case.id} /\ seen'.refused = seen.refused
      BY <1>0, <1>19 DEF NothingToConfirm, SameRows, RunRecord, AfterEntry, SeenRecord
    <2>2. run.scores \in Scores /\ [confirmation |-> FALSE] \in Scores
      BY <1>0, OneScoreType DEF RunRecord
    <2>3. config' = config /\ disk' = disk /\ run.pc = "send"
      BY <1>19 DEF NothingToConfirm
    <2>4. /\ "confirmation" \in DOMAIN [confirmation |-> FALSE] \cap Deterministic
          /\ ~[confirmation |-> FALSE]["confirmation"]
      BY DEF Deterministic
    <2>5. FailedScore(Deterministic)' /\ (FailedScore(Stochastic) => FailedScore(Stochastic)')
      BY <2>1, <2>2, <2>4, MergeFacts DEF FailedScore
    <2> QED
      BY <1>0, <2>1, <2>3, <2>5, RowsScored DEF Cleanup, Cleaned, Playing
  <1>20. CASE Judge
    <2>1. PICK v \in BOOLEAN :
            /\ run'.scores = Merge(run.scores, [judge |-> v]) /\ SameRows /\ run'.pc = "record"
            /\ seen' = [seen EXCEPT !.refused = seen.refused \/ ~v]
      BY <1>0, <1>20 DEF Judge, SameRows, RunRecord
    <2>2. run.scores \in Scores /\ [judge |-> v] \in Scores
      BY <1>0, OneScoreType DEF RunRecord
    <2>3. config' = config /\ disk' = disk /\ run.pc = "judge"
      BY <1>20 DEF Judge
    <2>4. seen'.failed = seen.failed /\ (seen'.refused => seen.refused \/ ~v)
      BY <1>0, <2>1 DEF SeenRecord
    <2>5. "judge" \in DOMAIN [judge |-> v] \cap Stochastic /\ (~v => ~[judge |-> v]["judge"])
      BY DEF Stochastic
    <2>6. /\ FailedScore(Deterministic) => FailedScore(Deterministic)'
          /\ FailedScore(Stochastic) \/ ~v => FailedScore(Stochastic)'
      BY <2>1, <2>2, <2>5, MergeFacts DEF FailedScore
    <2> QED
      BY <1>0, <2>1, <2>3, <2>4, <2>6, RowsScored DEF Cleanup, Cleaned, Playing
  <1>21. CASE EndCase
    <2>1. /\ config' = config /\ seen' = seen /\ disk' = disk /\ run.pc = "closed"
          /\ ~disk.results.own /\ Holds(run.rows, run.sample, run.case)
      BY <1>21 DEF EndCase, Cleanup, Cleaned, RowsInv, Recorded, Closing
    <2>2. CASE run.fault
      <3>1. SameCase /\ run'.pc = "abort" /\ run'.fault
        BY <1>0, <1>21, <2>2, GotoFacts DEF EndCase, RunPcs
      <3>2. Len(run.rows) < Expected
        BY <1>0, <2>1, NotWhole DEF Cleanup, RunTyped, Configured, RunRecord
      <3>3. Recorded'
        BY <2>1, <3>1, <3>2 DEF RowsInv, Recorded, SameCase, Expected, Repeat, Playing, Closing
      <3> QED
        BY <3>1, <3>3 DEF RowsInv, Failing
    <2>3. CASE ~run.fault
      <3>1. run' = [run EXCEPT !.pc = "next", !.rows = Append(run.rows, Row)]
        BY <1>21, <2>3 DEF EndCase
      <3>2. /\ run'.pc = "next" /\ run'.rows = Append(run.rows, Row)
            /\ run'.sample = run.sample /\ run'.case = run.case
        BY <1>0, <3>1 DEF RunRecord
      <3>3. Row \in RowType /\ run.rows \in Seq(RowType)
        BY <1>0, RowFits DEF RunRecord
      <3>4. Row.id = Evalset[run.case].id /\ Row.sample = run.sample
        BY DEF Row, Case
      <3>5. Holds(Append(run.rows, Row), run.sample, run.case + 1)
        BY <1>0, <2>1, <3>3, <3>4, OneMorePlayed DEF RunRecord
      <3>6. Recorded'
        BY <2>1, <3>2, <3>5 DEF RowsInv, Recorded, Holds, Marks, Before, Playing, Closing
      <3>7. /\ \A i \in DOMAIN run.rows : i \in DOMAIN run'.rows /\ run'.rows[i] = run.rows[i]
            /\ Len(run.rows) + 1 \in DOMAIN run'.rows /\ run'.rows[Len(run.rows) + 1] = Row
        BY <3>2, <3>3
      <3>8. \A id : FailedRow(id) => FailedRow(id)'
        BY <3>7 DEF FailedRow
      <3>9. ASSUME NEW id, id = Case.id, FailedScore(Deterministic)
            PROVE  FailedRow(id)'
        <4>1. FailedScore(Deterministic) => ~Row.deterministicPassed /\ ~Row.passed
          BY DEF FailedScore, Row, AllPassed
        <4>2. Row.id = id
          BY <3>9 DEF Row
        <4> QED
          BY <3>7, <3>9, <4>1, <4>2 DEF FailedRow
      <3>10. FailedScore(Stochastic) => \E i \in DOMAIN run'.rows : ~run'.rows[i].passed
        <4>1. FailedScore(Stochastic) => ~Row.passed
          BY DEF FailedScore, Row, AllPassed
        <4> QED
          BY <3>7, <4>1
      <3>11. Failing'
        <4>1. \A id \in seen.failed : FailedRow(id)'
          BY <2>3, <3>8, <3>9 DEF RowsInv, Failing
        <4>2. seen.refused => \E i \in DOMAIN run'.rows : ~run'.rows[i].passed
          BY <2>3, <3>7, <3>10 DEF RowsInv, Failing
        <4> QED
          BY <2>1, <4>1, <4>2 DEF Failing
      <3> QED
        BY <3>6, <3>11 DEF RowsInv
    <2> QED
      BY <2>2, <2>3
  <1>22. CASE Publish
    <2>1. /\ SameCase /\ run'.pc = "done" /\ run'.fault = run.fault
          /\ config' = config /\ seen' = seen /\ ~disk.results.own
      BY <1>0, <1>22, GotoFacts DEF Publish, RunPcs, Cleanup, Cleaned
    <2>2. Whole /\ ValidConfig
      BY <1>22 DEF Publish, RowsInv, Recorded, Cleanup, Configured
    <2>3. disk'.partial = disk.partial /\ (disk'.results = disk.results \/ disk'.results = Artifact)
      BY <1>0, <1>22 DEF Publish, DiskRecord
    <2>4. Artifact' = Artifact /\ Whole' /\ ValidConfig'
      BY <2>1, <2>2 DEF Artifact, Expected, Whole, Repeat, Holds, Marks, Before, ValidConfig,
             SameCase
    <2>5. Recorded'
      BY <2>1, <2>3, <2>4 DEF RowsInv, Recorded, Playing, Closing
    <2>6. Failing'
      BY <1>22, <2>1 DEF RowsInv, Failing, FailedRow, SameCase, Current, Publish, Playing, Closing
    <2> QED
      BY <2>5, <2>6 DEF RowsInv
  <1>23. CASE PublishPartial
    <2>1. /\ SameCase /\ run'.pc = "done" /\ run'.fault = run.fault
          /\ config' = config /\ seen' = seen /\ ~disk.results.own
      BY <1>0, <1>23, GotoFacts DEF PublishPartial, RunPcs, Cleanup, Cleaned
    <2>2. Len(run.rows) < Expected
      BY <1>23 DEF PublishPartial, RowsInv, Recorded
    <2>3. /\ disk'.results = disk.results
          /\ disk'.partial = disk.partial \/ disk'.partial = Artifact
      BY <1>0, <1>23 DEF PublishPartial, DiskRecord
    <2>4. Artifact.rows = run.rows /\ Artifact.expected = Expected
      BY DEF Artifact
    <2>5. Recorded'
      BY <2>1, <2>2, <2>3, <2>4 DEF RowsInv, Recorded, Playing, Closing
    <2>6. Failing'
      BY <1>23, <2>1 DEF RowsInv, Failing, FailedRow, SameCase, Current, PublishPartial, Playing,
             Closing
    <2> QED
      BY <2>5, <2>6 DEF RowsInv
  <1>24. CASE Boot
    <2>1. /\ run' = run /\ config' = config /\ seen' = seen
          /\ disk'.results = disk.results /\ disk'.partial = disk.partial
      BY <1>0, <1>24 DEF Boot, DiskRecord
    <2> QED
      BY <2>1, RowsSame
  <1>25. CASE Exit
    <2>1. /\ run' = run /\ config' = config /\ seen' = seen
          /\ disk'.results = disk.results /\ disk'.partial = disk.partial
      BY <1>0, <1>25 DEF Exit, DiskRecord
    <2> QED
      BY <2>1, RowsSame
  <1>26. CASE Rebuild
    <2>1. /\ run' = run /\ config' = config /\ seen' = seen
          /\ disk'.results = disk.results /\ disk'.partial = disk.partial
      BY <1>0, <1>26 DEF Rebuild, DiskRecord
    <2> QED
      BY <2>1, RowsSame
  <1>27. CASE VersionEnds
    <2>1. run' = run /\ config' = config /\ seen' = seen
          /\ disk'.results = disk.results /\ disk'.partial = disk.partial
      BY <1>27 DEF VersionEnds
    <2> QED
      BY <2>1, RowsSame
  <1>28. CASE UNCHANGED runVars
    BY <1>28, RowsSame DEF runVars
  <1> QED
    BY <1>1, <1>2, <1>3, <1>4, <1>5, <1>6, <1>7, <1>8, <1>9, <1>10, <1>11, <1>12, <1>13, <1>14,
       <1>15, <1>16, <1>17, <1>18, <1>19, <1>20, <1>21, <1>22, <1>23, <1>24, <1>25, <1>26,
       <1>27, <1>28 DEF RunNext, Harness, RunDone

\* With a minimum of a hundred percent every row passed.
LEMMA AllClear ==
  ASSUME NEW rows \in Seq(RowType), config.minimum = 100, ClearsRate(rows)
  PROVE  \A i \in DOMAIN rows : rows[i].passed
  <1> DEFINE good == {i \in DOMAIN rows : rows[i].passed}
  <1>1. DOMAIN rows = 1 .. Len(rows) /\ Len(rows) \in Nat
    OBVIOUS
  <1>2. IsFiniteSet(DOMAIN rows) /\ Cardinality(DOMAIN rows) = Len(rows)
    BY <1>1, Interval
  <1>3. good \subseteq DOMAIN rows
    OBVIOUS
  <1>4. Cardinality(good) * 100 >= 100 * Len(rows)
    BY DEF ClearsRate
  <1>5. Cardinality(good) \in Nat /\ Cardinality(good) <= Len(rows)
    BY <1>2, <1>3, FS_Subset, FS_CardinalityType
  <1>6. Cardinality(good) = Len(rows)
    BY <1>1, <1>4, <1>5
  <1>7. good = DOMAIN rows
    BY <1>2, <1>3, <1>6, FS_Subset
  <1> QED
    BY <1>7

LEMMA HonestRun ==
  ASSUME EvaluationAssumption, Cleanup, RowsInv
  PROVE  EvaluationIsHonest
  <1>0. run \in RunRecord /\ disk \in DiskRecord
    BY DEF Cleanup, RunTyped
  <1>1. ~Passed(disk.partial)
    <2>1. ~(NoFile.expected > 0)
      BY DEF NoFile
    <2>2. CASE disk.partial = NoFile
      BY <2>1, <2>2 DEF Passed, Complete
    <2>3. CASE Len(disk.partial.rows) < disk.partial.expected
      <3>1. disk.partial.rows \in Seq(RowType) /\ disk.partial.expected \in Int
        BY <1>0 DEF DiskRecord, FileType
      <3> QED
        BY <2>3, <3>1 DEF Passed, Complete
    <2> QED
      BY <2>2, <2>3 DEF RowsInv, Recorded
  <1>2. CASE disk.results.own
    <2>1. /\ disk.results.rows = run.rows /\ disk.results.expected = Expected
          /\ ValidConfig /\ Whole /\ ~run.fault /\ run.pc = "done" /\ config \in Configs
      BY <1>2 DEF RowsInv, Recorded, Cleanup, Cleaned, Artifact, RunTyped
    <2>2. Repeat \in Nat \ {0} /\ Len(Evalset) \in Nat \ {0}
      BY <2>1, EvalsetType, ConfigType DEF ValidConfig
    <2>3. Marks(run.rows) = Cases \X (1 .. Repeat) /\ Len(run.rows) = Repeat * Len(Evalset)
      BY <2>1, <2>2, SamplePlayed DEF Whole, Holds
    <2>4. Complete(disk.results)
      <3>1. Repeat * Len(Evalset) = Len(Evalset) * Repeat /\ Len(Evalset) * Repeat > 0
        <4>1. \A m, n \in Nat \ {0} : m * n = n * m /\ n * m > 0
          OBVIOUS
        <4> QED
          BY <2>2, <4>1
      <3> QED
        BY <2>1, <2>3, <3>1 DEF Complete, Expected
    <2>5. \A id \in seen.failed : FailedRow(id)
      BY <2>1 DEF RowsInv, Failing, Current, Playing, Closing
    <2>6. seen.refused => \E i \in DOMAIN run.rows : ~run.rows[i].passed
      BY <2>1 DEF RowsInv, Failing, Current, Playing, Closing
    <2>7. ASSUME Passed(disk.results)
          PROVE  /\ config.required \cap seen.failed = {}
                 /\ config.minimum = 100 => seen.failed = {} /\ ~seen.refused
      <3>1. ClearsRate(run.rows) /\ RequiredCasesPassed(run.rows)
        BY <2>1, <2>7 DEF Passed
      <3>2. \A id \in config.required : ~FailedRow(id)
        BY <3>1 DEF RequiredCasesPassed, FailedRow
      <3>3. config.minimum = 100 => \A i \in DOMAIN run.rows : run.rows[i].passed
        BY <1>0, <3>1, AllClear DEF RunRecord
      <3> QED
        BY <2>5, <2>6, <3>2, <3>3 DEF FailedRow
    <2>8. {<<r.id, r.sample>> : r \in {disk.results.rows[i] : i \in DOMAIN disk.results.rows}}
            = Marks(run.rows)
      BY <2>1 DEF Marks
    <2> QED
      BY <1>1, <2>3, <2>4, <2>7, <2>8 DEF EvaluationIsHonest, PassIsEarned, CaseLeavesNothing,
         Cleanup, Cleaned, Evaluated
  <1>3. CASE ~disk.results.own
    BY <1>1, <1>3 DEF EvaluationIsHonest, PassIsEarned, CaseLeavesNothing, Cleanup, Cleaned
  <1> QED
    BY <1>2, <1>3

\* The harness keeps its variables' types whatever the agent under evaluation does.
THEOREM RunTypeCorrect == EvaluationAssumption => (RunSpec => []RunTyped)
  <1> SUFFICES ASSUME EvaluationAssumption
               PROVE  RunSpec => []RunTyped
    OBVIOUS
  <1>1. RunInit => Cleanup
    BY InitCleanup
  <1>2. Cleanup /\ [RunNext]_runVars => Cleanup'
    BY CleanupStep
  <1>3. Cleanup => RunTyped
    BY DEF Cleanup
  <1> QED
    BY <1>1, <1>2, <1>3, PTL DEF RunSpec

\* A results file that says it passed holds every case and sample, played against the
\* evaluated build, and a case leaves no agent and no directory behind.
THEOREM HonestEvaluation == EvaluationAssumption => (RunSpec => []EvaluationIsHonest)
  <1> SUFFICES ASSUME EvaluationAssumption
               PROVE  RunSpec => []EvaluationIsHonest
    OBVIOUS
  <1> DEFINE Inv == Cleanup /\ RowsInv
  <1>1. RunInit => Inv
    BY InitCleanup, InitRows
  <1>2. Inv /\ [RunNext]_runVars => Inv'
    BY CleanupStep, RowsStep
  <1>3. Inv => EvaluationIsHonest
    BY HonestRun
  <1> QED
    BY <1>1, <1>2, <1>3, PTL DEF RunSpec

-----------------------------------------------------------------------------
(***************************************************************************)
(* The retrieval evaluation, for any questions and rankings. The count of  *)
(* a mode is of its own answers (Tallied), which one runtime gave that is  *)
(* gone, its directory with it, before another answers (Apart).            *)
(***************************************************************************)
Stops == {"start", "spawn", "connect", "ask", "measured", "close", "remove", "publish",
          "done", "failed"}
Dirs == {0, 1, 2}
RuntimeRecord ==
  [build : {Checkout, "other", "none"}, state : {"none", "alive", "dead"}, dir : Dirs,
   connected : BOOLEAN, stuck : BOOLEAN]
HitRecord == [first : Nat, within : Nat]
AnswerRecord == [by : Dirs, searched : Modes, slugs : Rankings]

MeasureTyped ==
  /\ mode \in Modes /\ pc \in Stops /\ at \in DOMAIN Questions
  /\ runtime \in RuntimeRecord
  /\ previous \in Dirs
  /\ hits \in [Modes -> HitRecord]
  /\ told \in [Modes -> Seq(AnswerRecord)]

\* The answers of a mode, as far as it is measured.
AllAnswered(m) == Len(told[m]) = Len(Questions)
Asked(m) == Len(told[m]) = at - 1

Within(answers) == {i \in DOMAIN answers : Contains(answers[i].slugs, Questions[i])}

\* The count of a mode is the count of its answers, all of that mode, and none past the
\* last question.
Tallied(m) ==
  /\ Len(told[m]) <= Len(Questions)
  /\ hits[m].within = Cardinality(Within(told[m]))
  /\ hits[m].first <= hits[m].within
  /\ \A i \in DOMAIN told[m] : told[m][i].searched = m

Progress ==
  /\ pc \in {"start", "spawn", "connect"} => at = 1
  /\ pc \in {"start", "spawn", "connect", "ask"} => Asked(mode)
  /\ pc \in {"measured", "publish", "done"} => AllAnswered(mode)
  /\ mode = "keyword" => told["semantic"] = <<>>
  /\ mode = "semantic" => AllAnswered("keyword")
  /\ pc \in {"publish", "done"} => mode = "semantic" /\ runtime = NoChild

\* Who answered: the keyword runtime, which is there or was the one before, and another.
Apart ==
  /\ mode = "keyword" /\ pc \in {"ask", "measured"} =>
       \A i \in DOMAIN told["keyword"] : told["keyword"][i].by = runtime.dir
  /\ mode = "semantic" => \A i \in DOMAIN told["keyword"] : told["keyword"][i].by = previous
  /\ \A i \in DOMAIN told["semantic"] : told["semantic"][i].by # previous
  /\ pc = "ask" /\ mode = "semantic" => runtime.dir # previous

RatesPublished == rates # <<>> => pc = "done" /\ rates = <<hits>>

MeasureInv ==
  MeasureTyped /\ (\A m \in Modes : Tallied(m)) /\ Progress /\ Apart /\ RatesPublished

LEMMA QuestionsType ==
  ASSUME MeasureAssumption
  PROVE  Questions \in Seq(STRING) /\ Len(Questions) \in Nat \ {0}
         /\ DOMAIN Questions = 1 .. Len(Questions)
  BY DEF MeasureAssumption

LEMMA WithinMore ==
  ASSUME MeasureAssumption, NEW answers \in Seq(AnswerRecord), NEW answer \in AnswerRecord
  PROVE  LET n == Len(answers) + 1
         IN  Within(Append(answers, answer)) =
               IF Contains(answer.slugs, Questions[n]) THEN Within(answers) \cup {n}
                                                       ELSE Within(answers)
  <1> DEFINE n == Len(answers) + 1
             more == Append(answers, answer)
  <1>1. /\ Len(answers) \in Nat /\ DOMAIN answers = 1 .. Len(answers)
        /\ DOMAIN more = 1 .. n /\ more[n] = answer
        /\ \A i \in 1 .. Len(answers) : more[i] = answers[i]
    OBVIOUS
  <1>2. DOMAIN more = DOMAIN answers \cup {n} /\ n \notin DOMAIN answers
    BY <1>1
  <1>3. \A i \in DOMAIN answers : i \in Within(more) <=> i \in Within(answers)
    BY <1>1, <1>2 DEF Within
  <1>4. n \in Within(more) <=> Contains(answer.slugs, Questions[n])
    BY <1>1, <1>2 DEF Within
  <1>5. Within(more) \subseteq DOMAIN more /\ Within(answers) \subseteq DOMAIN answers
    BY DEF Within
  <1> HIDE DEF n, more
  <1>6. Within(more) = IF Contains(answer.slugs, Questions[n]) THEN Within(answers) \cup {n}
                                                                ELSE Within(answers)
    BY <1>2, <1>3, <1>4, <1>5
  <1> QED
    BY <1>6 DEF n, more

LEMMA WithinFinite ==
  ASSUME NEW answers \in Seq(AnswerRecord)
  PROVE  IsFiniteSet(Within(answers)) /\ Cardinality(Within(answers)) \in Nat
  <1>1. DOMAIN answers = 1 .. Len(answers) /\ Len(answers) \in Nat
    OBVIOUS
  <1>2. IsFiniteSet(DOMAIN answers)
    BY <1>1, Interval
  <1>3. Within(answers) \subseteq DOMAIN answers
    BY DEF Within
  <1> QED
    BY <1>2, <1>3, FS_Subset, FS_CardinalityType

\* One more answer is counted once.
LEMMA CountedMore ==
  ASSUME MeasureAssumption, NEW answers \in Seq(AnswerRecord), NEW answer \in AnswerRecord
  PROVE  Cardinality(Within(Append(answers, answer))) =
           IF Contains(answer.slugs, Questions[Len(answers) + 1])
             THEN Cardinality(Within(answers)) + 1 ELSE Cardinality(Within(answers))
  <1> DEFINE n == Len(answers) + 1
  <1>1. Within(Append(answers, answer)) =
          IF Contains(answer.slugs, Questions[n]) THEN Within(answers) \cup {n}
                                                  ELSE Within(answers)
    BY WithinMore
  <1>2. n \notin Within(answers)
    BY DEF Within
  <1>3. Cardinality(Within(answers) \cup {n}) = Cardinality(Within(answers)) + 1
    BY <1>2, WithinFinite, FS_AddElement
  <1> QED
    BY <1>1, <1>3

LEMMA InitMeasure ==
  ASSUME MeasureAssumption, MeasureInit
  PROVE  MeasureInv
  <1>1. MeasureTyped
    BY QuestionsType DEF MeasureInit, MeasureTyped, Modes, Stops, NoChild, RuntimeRecord, Dirs,
       HitRecord
  <1>2. \A m \in Modes : Tallied(m)
    <2> TAKE m \in Modes
    <2>1. told[m] = <<>> /\ hits[m].within = 0 /\ hits[m].first = 0
      BY DEF MeasureInit
    <2>2. Within(told[m]) = {}
      BY <2>1 DEF Within
    <2>3. Cardinality(Within(told[m])) = 0
      BY <2>2, FS_EmptySet
    <2> QED
      BY <2>1, <2>3, QuestionsType DEF Tallied
  <1>3. Progress
    BY DEF MeasureInit, Progress, Asked, Modes
  <1>4. Apart /\ RatesPublished
    BY DEF MeasureInit, Apart, RatesPublished, Modes
  <1> QED
    BY <1>1, <1>2, <1>3, <1>4 DEF MeasureInv

\* What the counts say rests on the answers alone.
LEMMA TalliesStay ==
  ASSUME MeasureInv, UNCHANGED <<hits, told>>
  PROVE  (\A m \in Modes : Tallied(m))'
  BY DEF MeasureInv, Tallied, Modes

LEMMA MeasureStep ==
  ASSUME MeasureAssumption, MeasureInv, [MeasureNext]_measureVars
  PROVE  MeasureInv'
  <1> USE QuestionsType
  <1> USE DEF MeasureGoto
  <1>t. /\ MeasureTyped /\ (\A m \in Modes : Tallied(m)) /\ Progress /\ Apart /\ RatesPublished
        /\ "keyword" \in Modes /\ "semantic" \in Modes
    BY DEF MeasureInv, Modes
  <1>1. CASE IsolateRuntime
    <2>1. MeasureTyped'
      BY <1>t, <1>1 DEF IsolateRuntime, MeasureTyped, Stops, RuntimeRecord, NoChild, Dirs
    <2>2. (\A m \in Modes : Tallied(m))'
      BY <1>1, TalliesStay DEF IsolateRuntime
    <2>3. Progress'
      BY <1>t, <1>1 DEF IsolateRuntime, Progress, Asked, AllAnswered
    <2>4. Apart' /\ RatesPublished'
      BY <1>t, <1>1 DEF IsolateRuntime, Apart, RatesPublished
    <2> QED
      BY <2>1, <2>2, <2>3, <2>4 DEF MeasureInv
  <1>2. CASE SpawnRuntime
    <2>1. MeasureTyped'
      BY <1>t, <1>2 DEF SpawnRuntime, MeasureTyped, Stops, RuntimeRecord
    <2>2. (\A m \in Modes : Tallied(m))'
      BY <1>2, TalliesStay DEF SpawnRuntime
    <2>3. Progress'
      BY <1>t, <1>2 DEF SpawnRuntime, Progress, Asked, AllAnswered
    <2>4. Apart' /\ RatesPublished'
      BY <1>t, <1>2 DEF SpawnRuntime, Apart, RatesPublished
    <2> QED
      BY <2>1, <2>2, <2>3, <2>4 DEF MeasureInv
  <1>3. CASE Connect
    <2>1. MeasureTyped'
      BY <1>t, <1>3 DEF Connect, MeasureTyped, Stops, RuntimeRecord
    <2>2. (\A m \in Modes : Tallied(m))'
      BY <1>3, TalliesStay DEF Connect
    <2>3. Progress'
      BY <1>t, <1>3 DEF Connect, Progress, Asked, AllAnswered
    <2>4. Apart' /\ RatesPublished'
      <3>1. \A i \in DOMAIN told[mode] : FALSE
        BY <1>t, <1>3 DEF Connect, Progress, Asked, MeasureTyped
      <3>2. pc' # "measured" /\ (pc' = "ask" => runtime'.dir # previous)
        BY <1>t, <1>3 DEF Connect, MeasureTyped, RuntimeRecord
      <3> QED
        BY <1>t, <1>3, <3>1, <3>2 DEF Connect, Apart, RatesPublished
    <2> QED
      BY <2>1, <2>2, <2>3, <2>4 DEF MeasureInv
  <1>4. CASE ChildDies
    <2>1. MeasureTyped'
      BY <1>t, <1>4 DEF ChildDies, MeasureTyped, RuntimeRecord
    <2>2. (\A m \in Modes : Tallied(m))'
      BY <1>4, TalliesStay DEF ChildDies
    <2>3. Progress'
      BY <1>t, <1>4 DEF ChildDies, Progress, Asked, AllAnswered, NoChild
    <2>4. runtime'.dir = runtime.dir
      BY <1>t, <1>4 DEF ChildDies, MeasureTyped, RuntimeRecord
    <2>5. Apart' /\ RatesPublished'
      BY <1>t, <1>4, <2>4 DEF ChildDies, Apart, RatesPublished
    <2> QED
      BY <2>1, <2>2, <2>3, <2>5 DEF MeasureInv
  <1>5. CASE AskQuestion
    <2>1. CASE UNCHANGED <<at, hits, told>> /\ pc' = "close"
      <3>1. MeasureTyped'
        BY <1>t, <1>5, <2>1 DEF AskQuestion, MeasureTyped, Stops
      <3>2. (\A m \in Modes : Tallied(m))'
        BY <2>1, TalliesStay
      <3>3. Progress' /\ Apart' /\ RatesPublished'
        BY <1>t, <1>5, <2>1 DEF AskQuestion, Progress, Apart, RatesPublished, AllAnswered, Asked
      <3> QED
        BY <3>1, <3>2, <3>3 DEF MeasureInv
    <2>2. ASSUME NEW searched \in Modes, NEW slugs \in Rankings,
                 Counted(searched, slugs),
                 hits' = [hits EXCEPT ![mode] =
                   [first |-> hits[mode].first
                                + Hit(slugs # <<>> /\ slugs[1] = Questions[at]),
                    within |-> hits[mode].within + Hit(Contains(slugs, Questions[at]))]],
                 told' = [told EXCEPT ![mode] =
                   Append(@, [by |-> runtime.dir, searched |-> searched, slugs |-> slugs])],
                 IF at = Len(Questions) THEN pc' = "measured" /\ UNCHANGED at
                                        ELSE at' = at + 1 /\ UNCHANGED pc
          PROVE  MeasureInv'
      <3> DEFINE answer == [by |-> runtime.dir, searched |-> searched, slugs |-> slugs]
      <3>0. /\ pc = "ask" /\ UNCHANGED <<mode, runtime, previous, rates>>
            /\ mode \in Modes /\ at \in 1 .. Len(Questions) /\ Len(told[mode]) = at - 1
            /\ told[mode] \in Seq(AnswerRecord) /\ searched = mode
            /\ hits \in [Modes -> HitRecord] /\ told \in [Modes -> Seq(AnswerRecord)]
        BY <1>t, <1>5, <2>2 DEF AskQuestion, MeasureTyped, Progress, Asked, Counted
      <3>1. answer \in AnswerRecord /\ answer.searched = mode /\ answer.slugs = slugs
            /\ answer.by = runtime.dir
        BY <1>t, <3>0 DEF MeasureTyped, RuntimeRecord, AnswerRecord
      <3>2. told' = [told EXCEPT ![mode] = Append(told[mode], answer)]
        BY <2>2, <3>0
      <3> HIDE DEF answer
      <3>3. /\ told' \in [Modes -> Seq(AnswerRecord)]
            /\ told'[mode] = Append(told[mode], answer)
            /\ \A m \in Modes : m # mode => told'[m] = told[m]
        BY <3>0, <3>1, <3>2
      <3>4. /\ Len(told'[mode]) = at /\ DOMAIN told'[mode] = 1 .. at
            /\ told'[mode][at] = answer
            /\ \A i \in 1 .. (at - 1) : told'[mode][i] = told[mode][i]
            /\ DOMAIN told[mode] = 1 .. (at - 1)
        BY <3>0, <3>1, <3>3
      <3>5. /\ hits' \in [Modes -> HitRecord]
            /\ \A m \in Modes : m # mode => hits'[m] = hits[m]
            /\ hits'[mode].first = IF slugs # <<>> /\ slugs[1] = Questions[at]
                                     THEN hits[mode].first + 1 ELSE hits[mode].first
            /\ hits'[mode].within = IF Contains(slugs, Questions[at])
                                      THEN hits[mode].within + 1 ELSE hits[mode].within
        <4> DEFINE led == slugs # <<>> /\ slugs[1] = Questions[at]
                   has == Contains(slugs, Questions[at])
                   next == [first |-> hits[mode].first + Hit(led),
                            within |-> hits[mode].within + Hit(has)]
        <4>1. hits[mode].first \in Nat /\ hits[mode].within \in Nat
          BY <3>0 DEF HitRecord
        <4>2. hits' = [hits EXCEPT ![mode] = next]
          BY <2>2
        <4> HIDE DEF led, has
        <4>3. next \in HitRecord
          BY <4>1 DEF HitRecord, Hit
        <4>4. hits' \in [Modes -> HitRecord] /\ hits'[mode] = next
              /\ \A m \in Modes : m # mode => hits'[m] = hits[m]
          BY <3>0, <4>2, <4>3
        <4> QED
          BY <4>1, <4>4 DEF led, has, Hit
      <3>6. slugs # <<>> /\ slugs[1] = Questions[at] => Contains(slugs, Questions[at])
        <4>1. PICK n \in 0 .. Limit + 1 : slugs \in [1 .. n -> AnySlugs]
          BY DEF Rankings
        <4>2. Limit \in Nat
          BY DEF MeasureAssumption
        <4>3. slugs \in Seq(AnySlugs) /\ Len(slugs) = n
          BY <4>1, <4>2
        <4>4. slugs # <<>> => 1 \in 1 .. Len(slugs)
          BY <4>3
        <4> QED
          BY <4>4 DEF Contains
      <3>7. Cardinality(Within(told'[mode])) =
              IF Contains(slugs, Questions[at]) THEN Cardinality(Within(told[mode])) + 1
                                                ELSE Cardinality(Within(told[mode]))
        BY <3>0, <3>1, <3>3, CountedMore
      <3>8. Tallied(mode)'
        <4>1. /\ hits[mode].within = Cardinality(Within(told[mode]))
              /\ hits[mode].first <= hits[mode].within
              /\ \A i \in 1 .. (at - 1) : told[mode][i].searched = mode
              /\ hits[mode].first \in Nat /\ hits[mode].within \in Nat
          BY <1>t, <3>0, <3>4 DEF Tallied, HitRecord
        <4>2. hits'[mode].within = Cardinality(Within(told'[mode]))
          BY <3>5, <3>7, <4>1
        <4>3. hits'[mode].first <= hits'[mode].within
          BY <3>5, <3>6, <4>1
        <4>4. \A i \in DOMAIN told'[mode] : told'[mode][i].searched = mode
          <5> TAKE i \in DOMAIN told'[mode]
          <5>1. i = at \/ i \in 1 .. (at - 1)
            BY <3>0, <3>4
          <5> QED
            BY <3>1, <3>4, <4>1, <5>1
        <4> QED
          BY <3>0, <3>4, <4>2, <4>3, <4>4 DEF Tallied, Within
      <3>9. \A m \in Modes : Tallied(m)'
        <4> TAKE m \in Modes
        <4>1. CASE m = mode
          BY <3>8, <4>1, <3>0
        <4>2. CASE m # mode
          <5>1. told'[m] = told[m] /\ hits'[m] = hits[m] /\ Tallied(m)
            BY <1>t, <3>3, <3>5, <4>2
          <5> QED
            BY <5>1 DEF Tallied, Within
        <4> QED
          BY <4>1, <4>2
      <3>10. MeasureTyped'
        BY <1>t, <2>2, <3>0, <3>3, <3>5 DEF MeasureTyped, Stops
      <3>11. Progress'
        <4>1. pc' \in {"ask", "measured"} /\ (pc' = "ask" => at' = at + 1)
              /\ (pc' = "measured" => at = Len(Questions))
          BY <2>2, <3>0
        <4>2. Asked(mode)' \/ pc' # "ask"
          <5>1. at \in Int
            BY <3>0
          <5>2. pc' = "ask" => Len(told'[mode']) = at' - 1
            BY <3>0, <3>4, <4>1, <5>1
          <5> QED
            BY <5>2 DEF Asked
        <4>3. AllAnswered(mode)' \/ pc' # "measured"
          BY <3>0, <3>4, <4>1 DEF AllAnswered
        <4>4. mode = "keyword" => told'["semantic"] = <<>>
          BY <1>t, <3>3 DEF Progress
        <4>5. mode = "semantic" => AllAnswered("keyword")'
          BY <1>t, <3>3 DEF Progress, AllAnswered
        <4> QED
          BY <3>0, <4>1, <4>2, <4>3, <4>4, <4>5 DEF Progress, Asked, AllAnswered
      <3>12. Apart' /\ RatesPublished'
        <4>1. \A i \in DOMAIN told'[mode] : i = at \/ i \in DOMAIN told[mode]
          BY <3>0, <3>4
        <4>2. \A i \in DOMAIN told[mode] : told'[mode][i] = told[mode][i]
          BY <3>4
        <4>5. rates = <<>>
          BY <1>t, <3>0 DEF RatesPublished
        <4>6. RatesPublished'
          BY <3>0, <4>5 DEF RatesPublished
        <4>3. CASE mode = "keyword"
          <5>1. \A i \in DOMAIN told[mode] : told[mode][i].by = runtime.dir
            BY <1>t, <3>0, <4>3 DEF Apart
          <5>2. \A i \in DOMAIN told'[mode] : told'[mode][i].by = runtime.dir
            BY <3>1, <3>4, <4>1, <4>2, <5>1
          <5>3. told'["semantic"] = told["semantic"]
            BY <1>t, <3>3, <4>3
          <5> QED
            BY <1>t, <3>0, <4>3, <4>6, <5>2, <5>3 DEF Apart
        <4>4. CASE mode = "semantic"
          <5>1. runtime.dir # previous
            BY <1>t, <3>0, <4>4 DEF Apart
          <5>2. \A i \in DOMAIN told[mode] : told[mode][i].by # previous
            BY <1>t, <3>0, <4>4 DEF Apart
          <5>3. \A i \in DOMAIN told'[mode] : told'[mode][i].by # previous
            BY <3>1, <3>4, <4>1, <4>2, <5>1, <5>2
          <5>4. told'["keyword"] = told["keyword"]
            BY <1>t, <3>3, <4>4
          <5> QED
            BY <1>t, <3>0, <4>4, <4>6, <5>1, <5>3, <5>4 DEF Apart
        <4> QED
          BY <3>0, <4>3, <4>4 DEF Modes
      <3> QED
        BY <3>9, <3>10, <3>11, <3>12 DEF MeasureInv
    <2> QED
      BY <1>5, <2>1, <2>2 DEF AskQuestion
  <1>6. CASE Close
    <2>1. PICK stuck \in BOOLEAN :
            /\ runtime' = IF stuck THEN [runtime EXCEPT !.stuck = TRUE] ELSE NoChild
            /\ previous' = IF mode = "keyword" THEN runtime.dir ELSE previous
            /\ \/ (stuck \/ pc # "measured") /\ pc' = "failed" /\ UNCHANGED <<mode, at>>
               \/ /\ ~stuck /\ pc = "measured" /\ mode = "keyword"
                  /\ mode' = "semantic" /\ at' = 1 /\ pc' = "start"
               \/ /\ ~stuck /\ pc = "measured" /\ mode # "keyword"
                  /\ pc' = "publish" /\ UNCHANGED <<mode, at>>
      BY <1>6 DEF Close
    <2>2. UNCHANGED <<hits, rates, told>> /\ pc \in {"close", "measured", "remove"}
      BY <1>6 DEF Close
    <2>3. MeasureTyped'
      <3>1. runtime' \in RuntimeRecord /\ previous' \in Dirs
        BY <1>t, <2>1 DEF MeasureTyped, RuntimeRecord, NoChild, Dirs
      <3> QED
        BY <1>t, <2>1, <2>2, <3>1 DEF MeasureTyped, Stops, Modes
    <2>4. (\A m \in Modes : Tallied(m))'
      BY <2>2, TalliesStay
    <2>5. Progress'
      BY <1>t, <2>1, <2>2 DEF Progress, Asked, AllAnswered, MeasureTyped, Modes
    <2>6. Apart' /\ RatesPublished'
      BY <1>t, <2>1, <2>2 DEF Apart, RatesPublished, Progress, MeasureTyped, Modes
    <2> QED
      BY <2>3, <2>4, <2>5, <2>6 DEF MeasureInv
  <1>7. CASE PublishRates
    <2>1. MeasureTyped'
      BY <1>t, <1>7 DEF PublishRates, MeasureTyped, Stops
    <2>2. (\A m \in Modes : Tallied(m))'
      BY <1>7, TalliesStay DEF PublishRates
    <2>3. Progress' /\ Apart' /\ RatesPublished'
      BY <1>t, <1>7 DEF PublishRates, Progress, Apart, RatesPublished, Asked, AllAnswered
    <2> QED
      BY <2>1, <2>2, <2>3 DEF MeasureInv
  <1>8. CASE UNCHANGED measureVars
    BY <1>8 DEF measureVars, MeasureInv, MeasureTyped, Tallied, Progress, Apart, RatesPublished,
       Asked, AllAnswered
  <1> QED
    BY <1>1, <1>2, <1>3, <1>4, <1>5, <1>6, <1>7, <1>8 DEF MeasureNext, MeasureDone

LEMMA MeasuredBoth ==
  ASSUME MeasureAssumption, MeasureInv
  PROVE  BothModesMeasured
  <1> SUFFICES ASSUME rates # <<>>
               PROVE  BothModesMeasured
    BY DEF BothModesMeasured
  <1>1. /\ pc = "done" /\ rates = <<hits>> /\ mode = "semantic" /\ runtime = NoChild
        /\ AllAnswered("keyword") /\ AllAnswered("semantic")
    BY DEF MeasureInv, RatesPublished, Progress
  <1>2. \A m \in Modes :
          /\ Len(told[m]) = Len(Questions)
          /\ rates[1][m].within =
               Cardinality({i \in DOMAIN Questions : Contains(told[m][i].slugs, Questions[i])})
          /\ rates[1][m].first <= rates[1][m].within
          /\ \A i \in DOMAIN told[m] : told[m][i].searched = m
    <2> TAKE m \in Modes
    <2>1. Len(told[m]) = Len(Questions)
      BY <1>1 DEF AllAnswered, Modes
    <2>2. DOMAIN told[m] = DOMAIN Questions
      BY <2>1, QuestionsType DEF MeasureInv, MeasureTyped
    <2>3. Tallied(m)
      BY DEF MeasureInv
    <2> QED
      BY <1>1, <2>1, <2>2, <2>3 DEF Tallied, Within
  <1>3. \A i \in DOMAIN told["keyword"], j \in DOMAIN told["semantic"] :
          told["keyword"][i].by # told["semantic"][j].by
    BY <1>1 DEF MeasureInv, Apart
  <1> QED
    BY <1>1, <1>2, <1>3 DEF BothModesMeasured

\* The retrieval evaluation publishes only what both modes answered, each of them from a
\* runtime of its own that searched in that mode, and leaves neither runtime behind.
THEOREM MeasuredRates == MeasureAssumption => (MeasureSpec => []BothModesMeasured)
  <1> SUFFICES ASSUME MeasureAssumption
               PROVE  MeasureSpec => []BothModesMeasured
    OBVIOUS
  <1>1. MeasureInit => MeasureInv
    BY InitMeasure
  <1>2. MeasureInv /\ [MeasureNext]_measureVars => MeasureInv'
    BY MeasureStep
  <1>3. MeasureInv => BothModesMeasured
    BY MeasuredBoth
  <1> QED
    BY <1>1, <1>2, <1>3, PTL DEF MeasureSpec

-----------------------------------------------------------------------------
(***************************************************************************)
(* Runbook search, for any workers, corpora, artifacts and dimensions. A   *)
(* build only ever gets later (Sampled), so a digest that is the same      *)
(* before and after a vector is the artifact that made it. Who checked the *)
(* index holds the write lock until the new generation is committed        *)
(* (Building), and the committed generation is whole (WholeIndex).         *)
(***************************************************************************)
Fields == {"pc", "op", "config", "limit", "before", "vector", "batch", "spec", "tries", "rows",
           "mode", "slugs"}
Critical == {"check", "corpusSample", "corpusEmbed", "write"}
Stale == Critical \ {"check"}
Queried == {"spec", "begin", "read", "match"} \cup Critical

\* The build that the endpoint serves to a worker now.
Served(w) == artifact[search[w].config.model]

RunbooksTyped ==
  /\ artifact \in [Models -> Artifacts]
  /\ DOMAIN search = Workers
  /\ \A w \in Workers :
       /\ DOMAIN search[w] = Fields
       /\ search[w].config \in SearchConfigs
       /\ search[w].before \in Nat /\ search[w].vector \in Nat /\ search[w].batch \in Nat
       /\ search[w].spec \in [corpus : Corpora, digest : Nat]

\* What a worker sampled is no later than what it used, which is no later than now; a
\* vector that was verified is of the artifact of the digest.
Sampled(w) ==
  /\ search[w].pc = "embed" => search[w].before <= Served(w)
  /\ search[w].pc = "verify" =>
       /\ search[w].before <= search[w].vector /\ search[w].vector <= Served(w)
       /\ search[w].vector \in Artifacts
  /\ search[w].pc \in Queried /\ search[w].op = "search" =>
       /\ search[w].vector \in Artifacts
       /\ search[w].spec.digest # Unresolved => search[w].vector = search[w].spec.digest
  /\ search[w].pc \in {"sample", "embed", "verify", "read", "match"} => search[w].op = "search"
  /\ search[w].pc = "digest" => search[w].op = "index"

\* Who builds holds the lock, and what it found wanting is wanting until it writes.
Building(w) ==
  /\ search[w].pc \in Critical => lock = w
  /\ search[w].pc \in Stale =>
       ~ReadyForSpec(index, search[w].config, search[w].spec, Wanted(w))
  /\ search[w].pc \in {"corpusEmbed", "write"} => search[w].before = search[w].spec.digest
  /\ search[w].pc = "corpusEmbed" => search[w].before <= Served(w)
  /\ search[w].pc = "write" =>
       /\ search[w].before <= search[w].batch /\ search[w].batch <= Served(w)
       /\ search[w].batch \in Artifacts

\* What a worker is about to rank.
Ranking(w) ==
  search[w].pc = "match" =>
    /\ {r.passage : r \in search[w].rows} = Passages(search[w].spec.corpus)
    /\ \A r \in search[w].rows :
         /\ Dimensions[r.artifact] = Dimensions[search[w].vector]
         /\ search[w].spec.digest # Unresolved => r.artifact = search[w].vector

Searching(w) == Sampled(w) /\ Building(w) /\ Ranking(w)

WholeIndex ==
  index.format = Format =>
    /\ {r.passage : r \in index.rows} = Passages(index.corpus)
    /\ \A r \in index.rows :
         /\ Dimensions[r.artifact] = index.dimensions
         /\ index.digest # Unresolved => r.artifact = index.digest

RunbooksInv == RunbooksTyped /\ (\A w \in Workers : Searching(w)) /\ WholeIndex

RecordFits(rec) ==
  /\ DOMAIN rec = Fields
  /\ rec.config \in SearchConfigs
  /\ rec.before \in Nat /\ rec.vector \in Nat /\ rec.batch \in Nat
  /\ rec.spec \in [corpus : Corpora, digest : Nat]

LEMMA IdleFits ==
  ASSUME RunbooksAssumption
  PROVE  RecordFits(Idle) /\ Idle.pc = "idle" /\ Idle.op = "search"
  <1>1. SearchConfigs # {}
    BY DEF RunbooksAssumption, SearchConfigs
  <1>2. (CHOOSE c \in SearchConfigs : TRUE) \in SearchConfigs
    BY <1>1
  <1>3. (CHOOSE c \in Corpora : TRUE) \in Corpora
    BY DEF RunbooksAssumption
  <1>4. NoSpec \in [corpus : Corpora, digest : Nat]
    BY <1>3 DEF NoSpec, Unresolved
  <1> QED
    BY <1>2, <1>4 DEF Idle, RecordFits, Fields, Unresolved

\* A call that is over, or that answers without the index, has nothing to keep.
LEMMA Rests ==
  ASSUME NEW w \in Workers, search[w].pc \in {"idle", "keyword", "answer"}
  PROVE  Searching(w)
  BY DEF Searching, Sampled, Building, Ranking, Queried, Critical, Stale

LEMMA ConfigModel ==
  ASSUME NEW wish \in SearchConfigs
  PROVE  wish.model \in Models
  BY DEF Models

LEMMA InitRunbooks ==
  ASSUME RunbooksAssumption, RetrievalInit
  PROVE  RunbooksInv
  <1>1. \A w \in Workers : RecordFits(search[w]) /\ search[w].pc = "idle"
    BY IdleFits DEF RetrievalInit
  <1>2. RunbooksTyped
    BY <1>1 DEF RunbooksTyped, RecordFits, RetrievalInit, RunbooksAssumption
  <1>3. \A w \in Workers : Searching(w)
    BY <1>1, Rests
  <1>4. index.format # Format
    BY DEF RetrievalInit, NoIndex, Format, RunbooksAssumption
  <1> QED
    BY <1>2, <1>3, <1>4 DEF RunbooksInv, WholeIndex

\* What one worker does takes nothing from another: only the holder of the lock
\* replaces the index, and nobody gives back the lock of another.
LEMMA OneMoves ==
  ASSUME RunbooksAssumption, RunbooksInv, NEW w \in Workers, NEW rec, RecordFits(rec),
         search' = [search EXCEPT ![w] = rec], UNCHANGED artifact,
         UNCHANGED lock \/ lock \in {Nobody, w}, UNCHANGED index \/ lock = w
  PROVE  /\ search'[w] = rec /\ RunbooksTyped'
         /\ \A v \in Workers : v # w => Searching(v)'
  <1>1. RunbooksTyped /\ \A v \in Workers : Searching(v)
    BY DEF RunbooksInv
  <1>2. search'[w] = rec /\ DOMAIN search' = Workers
        /\ \A v \in Workers : v # w => search'[v] = search[v]
    BY <1>1 DEF RunbooksTyped
  <1>3. RunbooksTyped'
    BY <1>1, <1>2 DEF RunbooksTyped, RecordFits
  <1>4. ASSUME NEW v \in Workers, v # w
        PROVE  Searching(v)'
    <2>1. search'[v] = search[v] /\ Searching(v) /\ Served(v)' = Served(v)
          /\ Wanted(v)' = Wanted(v)
      BY <1>1, <1>2, <1>4 DEF Served, Wanted
    <2>2. search[v].pc \in Critical => UNCHANGED <<lock, index>>
      BY <1>1, <1>4 DEF Searching, Building, RunbooksAssumption
    <2>3. Sampled(v)'
      BY <2>1 DEF Searching, Sampled
    <2>4. Building(v)'
      <3>1. CASE search[v].pc \in Critical
        <4>1. index' = index /\ lock' = lock
          BY <2>2, <3>1
        <4> QED
          BY <2>1, <4>1 DEF Searching, Building, ReadyForSpec
      <3>2. CASE search[v].pc \notin Critical
        BY <2>1, <3>2 DEF Building, Critical, Stale
      <3> QED
        BY <3>1, <3>2
    <2>5. Ranking(v)'
      BY <2>1 DEF Searching, Ranking
    <2> QED
      BY <2>3, <2>4, <2>5 DEF Searching
  <1> QED
    BY <1>2, <1>3, <1>4

LEMMA AllSearch ==
  ASSUME NEW w \in Workers, RunbooksTyped', WholeIndex', Searching(w)',
         \A v \in Workers : v # w => Searching(v)'
  PROVE  RunbooksInv'
  BY DEF RunbooksInv

LEMMA RestStep ==
  ASSUME RunbooksAssumption, RunbooksInv, NEW w \in Workers, NEW rec, RecordFits(rec),
         rec.pc \in {"idle", "keyword", "answer"},
         search' = [search EXCEPT ![w] = rec], UNCHANGED artifact,
         UNCHANGED lock \/ lock \in {Nobody, w}, UNCHANGED index \/ lock = w, WholeIndex'
  PROVE  RunbooksInv'
  <1>1. /\ search'[w] = rec /\ RunbooksTyped'
        /\ \A v \in Workers : v # w => Searching(v)'
    BY OneMoves
  <1>2. Searching(w)'
    BY <1>1 DEF Searching, Sampled, Building, Ranking, Queried, Critical, Stale
  <1> QED
    BY <1>1, <1>2, AllSearch

LEMMA UnavailableStep ==
  ASSUME RunbooksAssumption, RunbooksInv, NEW w \in Workers, Unavailable(w),
         UNCHANGED <<artifact, index>>
  PROVE  RunbooksInv'
  <1> DEFINE rec == IF search[w].op = "search"
                      THEN [Idle EXCEPT !.pc = "keyword", !.limit = search[w].limit] ELSE Idle
  <1>1. RecordFits(rec) /\ rec.pc \in {"idle", "keyword"}
    BY IdleFits DEF RecordFits, Fields
  <1>2. search' = [search EXCEPT ![w] = rec] /\ (UNCHANGED lock \/ lock = w)
    BY DEF Unavailable, Released
  <1>3. WholeIndex'
    BY DEF RunbooksInv, WholeIndex
  <1> HIDE DEF rec
  <1> QED
    BY <1>1, <1>2, <1>3, RestStep

LEMMA ServedBuild ==
  ASSUME RunbooksAssumption, RunbooksInv, NEW w \in Workers
  PROVE  Served(w) \in Artifacts /\ Served(w) \in Nat \ {0}
  BY ConfigModel DEF RunbooksInv, RunbooksTyped, Served, RunbooksAssumption

\* A digest that is told is the build that is served.
LEMMA DigestIs ==
  ASSUME RunbooksAssumption, RunbooksInv, NEW w \in Workers, NEW d \in Digests(w)
  PROVE  d \in Nat /\ d <= Served(w) /\ (d # Unresolved => d = Served(w))
  BY ServedBuild DEF Digests, Served, Unresolved

LEMMA BuiltStep ==
  ASSUME RunbooksAssumption, RunbooksInv, NEW w \in Workers, search[w].pc \in {"check", "write"},
         Built(w), UNCHANGED artifact, WholeIndex'
  PROVE  RunbooksInv'
  <1>1. lock = w /\ RecordFits(search[w]) /\ Sampled(w)
    BY DEF RunbooksInv, Searching, Building, Critical, RunbooksTyped, RecordFits
  <1>2. CASE search[w].op = "search"
    <2> DEFINE rec == [search[w] EXCEPT !.pc = "read", !.before = Unresolved, !.batch = 0]
    <2>1. search' = [search EXCEPT ![w] = rec]
      BY <1>2 DEF Built
    <2>2. RecordFits(rec) /\ rec.pc = "read" /\ rec.op = "search"
          /\ rec.spec = search[w].spec /\ rec.vector = search[w].vector
      BY <1>1, <1>2 DEF RecordFits, Fields, Unresolved
    <2> HIDE DEF rec
    <2>3. /\ search'[w] = rec /\ RunbooksTyped'
          /\ \A v \in Workers : v # w => Searching(v)'
      BY <1>1, <2>1, <2>2, OneMoves
    <2>4. Searching(w)'
      BY <1>1, <1>2, <2>2, <2>3 DEF Searching, Sampled, Building, Ranking, Queried, Critical, Stale
    <2> QED
      BY <2>3, <2>4, AllSearch
  <1>3. CASE search[w].op # "search"
    BY <1>1, <1>3, IdleFits, RestStep DEF Built
  <1> QED
    BY <1>2, <1>3

LEMMA AnswerStep ==
  ASSUME RunbooksAssumption, RunbooksInv, NEW w \in Workers,
         \/ Match(w) \/ Keyword(w) \/ Answer(w) \/ FailSearch(w) \/ SearchDies(w)
  PROVE  RunbooksInv'
  <1>1. WholeIndex /\ RecordFits(Idle) /\ Idle.pc = "idle"
    BY IdleFits DEF RunbooksInv
  <1>2. CASE Match(w)
    <2> DEFINE best == BestMatches(search[w].rows, search[w].limit)
               rec == [Idle EXCEPT !.pc = "answer", !.mode = "semantic", !.slugs = best]
    <2>1. search' = [search EXCEPT ![w] = rec] /\ UNCHANGED <<artifact, index, lock>>
      BY <1>2 DEF Match
    <2> HIDE DEF best
    <2>2. RecordFits(rec) /\ rec.pc = "answer"
      BY <1>1 DEF RecordFits, Fields
    <2>3. WholeIndex'
      BY <1>1, <2>1 DEF WholeIndex
    <2> HIDE DEF rec
    <2> QED
      BY <2>1, <2>2, <2>3, RestStep
  <1>3. CASE Keyword(w)
    <2>1. PICK files \in Corpora :
            search' = [search EXCEPT ![w] =
              [Idle EXCEPT !.pc = "answer", !.mode = "keyword",
                           !.slugs = KeywordSearch(files, search[w].limit)]]
      BY <1>3 DEF Keyword
    <2> DEFINE best == KeywordSearch(files, search[w].limit)
               rec == [Idle EXCEPT !.pc = "answer", !.mode = "keyword", !.slugs = best]
    <2>2. search' = [search EXCEPT ![w] = rec] /\ UNCHANGED <<artifact, index, lock>>
      BY <1>3, <2>1 DEF Keyword
    <2> HIDE DEF best
    <2>3. RecordFits(rec) /\ rec.pc = "answer"
      BY <1>1 DEF RecordFits, Fields
    <2>4. WholeIndex'
      BY <1>1, <2>2 DEF WholeIndex
    <2> HIDE DEF rec
    <2> QED
      BY <2>2, <2>3, <2>4, RestStep
  <1>4. CASE Answer(w)
    <2>1. search' = [search EXCEPT ![w] = Idle] /\ UNCHANGED <<artifact, index, lock>>
      BY <1>4 DEF Answer
    <2>2. WholeIndex'
      BY <1>1, <2>1 DEF WholeIndex
    <2> QED
      BY <1>1, <2>1, <2>2, RestStep
  <1>5. CASE FailSearch(w)
    BY <1>5, UnavailableStep DEF FailSearch
  <1>6. CASE SearchDies(w)
    <2>1. search' = [search EXCEPT ![w] = Idle] /\ UNCHANGED <<artifact, index>>
          /\ (UNCHANGED lock \/ lock = w)
      BY <1>6 DEF SearchDies, Released
    <2>2. WholeIndex'
      BY <1>1, <2>1 DEF WholeIndex
    <2> QED
      BY <1>1, <2>1, <2>2, RestStep
  <1> QED
    BY <1>2, <1>3, <1>4, <1>5, <1>6

LEMMA QueryStep ==
  ASSUME RunbooksAssumption, RunbooksInv, NEW w \in Workers,
         \/ AskRunbooks(w) \/ Sample(w) \/ Embed(w) \/ VerifyQuery(w) \/ ResolveDigest(w)
         \/ ReadSpec(w)
  PROVE  RunbooksInv'
  <1>1. WholeIndex /\ RecordFits(Idle) /\ RecordFits(search[w]) /\ Sampled(w)
        /\ Idle.pc = "idle"
    BY IdleFits DEF RunbooksInv, RunbooksTyped, RecordFits, Searching
  <1>2. CASE AskRunbooks(w)
    <2>1. PICK call \in Calls, limit \in Limits :
            search' = [search EXCEPT ![w] = [Idle EXCEPT
              !.op = call.op, !.config = call.config, !.limit = Clamp(limit),
              !.pc = IF call.op = "index" THEN "digest"
                     ELSE IF call.config.semantic THEN "sample" ELSE "keyword"]]
      BY <1>2 DEF AskRunbooks
    <2> DEFINE most == Clamp(limit)
               rec == [Idle EXCEPT
                 !.op = call.op, !.config = call.config, !.limit = most,
                 !.pc = IF call.op = "index" THEN "digest"
                        ELSE IF call.config.semantic THEN "sample" ELSE "keyword"]
    <2>2. search' = [search EXCEPT ![w] = rec] /\ UNCHANGED <<artifact, index, lock>>
      BY <1>2, <2>1 DEF AskRunbooks
    <2> HIDE DEF most
    <2>3. call.config \in SearchConfigs
      BY DEF SearchConfigs
    <2>4. RecordFits(rec) /\ rec.pc \in {"digest", "sample", "keyword"}
          /\ (rec.pc = "sample" => rec.op = "search") /\ (rec.pc = "digest" => rec.op = "index")
      <3>1. call.op \in {"search", "index"}
        BY DEF RunbooksAssumption
      <3> QED
        BY <1>1, <2>3, <3>1 DEF RecordFits, Fields
    <2> HIDE DEF rec
    <2>5. /\ search'[w] = rec /\ RunbooksTyped'
          /\ \A v \in Workers : v # w => Searching(v)'
      BY <2>2, <2>4, OneMoves
    <2>6. Searching(w)' /\ WholeIndex'
      BY <1>1, <2>2, <2>4, <2>5
      DEF Searching, Sampled, Building, Ranking, Queried, Critical, Stale, WholeIndex
    <2> QED
      BY <2>5, <2>6, AllSearch
  <1>3. CASE Sample(w)
    <2>1. PICK d \in Digests(w) :
            search' = [search EXCEPT ![w] = [search[w] EXCEPT !.before = d, !.pc = "embed"]]
      BY <1>3 DEF Sample
    <2> DEFINE rec == [search[w] EXCEPT !.before = d, !.pc = "embed"]
    <2>2. search' = [search EXCEPT ![w] = rec] /\ UNCHANGED <<artifact, index, lock>>
          /\ search[w].pc = "sample"
      BY <1>3, <2>1 DEF Sample, SearchAt
    <2>3. d \in Nat /\ d <= Served(w)
      BY DigestIs
    <2>4. RecordFits(rec) /\ rec.pc = "embed" /\ rec.before = d /\ rec.op = search[w].op
          /\ rec.config = search[w].config
      BY <1>1, <2>3 DEF RecordFits, Fields
    <2> HIDE DEF rec
    <2>5. /\ search'[w] = rec /\ RunbooksTyped'
          /\ \A v \in Workers : v # w => Searching(v)'
      BY <2>2, <2>4, OneMoves
    <2>6. Searching(w)' /\ WholeIndex'
      BY <1>1, <2>2, <2>3, <2>4, <2>5
      DEF Searching, Sampled, Building, Ranking, Queried, Critical, Stale, WholeIndex, Served
    <2> QED
      BY <2>5, <2>6, AllSearch
  <1>4. CASE Embed(w)
    <2> DEFINE rec == [search[w] EXCEPT !.vector = Served(w), !.pc = "verify"]
    <2>1. search' = [search EXCEPT ![w] = rec] /\ UNCHANGED <<artifact, index, lock>>
          /\ search[w].pc = "embed"
      BY <1>4 DEF Embed, SearchAt, Served
    <2>2. Served(w) \in Artifacts /\ Served(w) \in Nat
      BY ServedBuild
    <2>3. RecordFits(rec) /\ rec.pc = "verify" /\ rec.vector = Served(w)
          /\ rec.before = search[w].before /\ rec.op = search[w].op
          /\ rec.config = search[w].config
      BY <1>1, <2>2 DEF RecordFits, Fields
    <2> HIDE DEF rec
    <2>4. /\ search'[w] = rec /\ RunbooksTyped'
          /\ \A v \in Workers : v # w => Searching(v)'
      BY <2>1, <2>3, OneMoves
    <2>5. Served(w)' = Served(w)
      BY <2>1, <2>3, <2>4 DEF Served
    <2>6. Sampled(w)'
      BY <1>1, <2>1, <2>2, <2>3, <2>4, <2>5 DEF Sampled, Queried, Critical
    <2>7. Building(w)' /\ Ranking(w)' /\ WholeIndex'
      BY <1>1, <2>1, <2>3, <2>4 DEF Building, Ranking, Critical, Stale, WholeIndex
    <2> QED
      BY <2>4, <2>6, <2>7, AllSearch DEF Searching
  <1>5. CASE VerifyQuery(w)
    <2>1. PICK d \in Digests(w) :
            IF d # search[w].before
            THEN Unavailable(w)
            ELSE search' = [search EXCEPT ![w].spec.digest = d, ![w].before = Unresolved,
                                          ![w].pc = "spec"] /\ UNCHANGED lock
      BY <1>5 DEF VerifyQuery
    <2>2. UNCHANGED <<artifact, index>> /\ search[w].pc = "verify"
      BY <1>5 DEF VerifyQuery, SearchAt
    <2>3. CASE d # search[w].before
      BY <2>1, <2>2, <2>3, UnavailableStep
    <2>4. CASE d = search[w].before
      <3> DEFINE rec == [search[w] EXCEPT !.spec.digest = d, !.before = Unresolved,
                                          !.pc = "spec"]
      <3>1. search' = [search EXCEPT ![w] = rec] /\ UNCHANGED lock
        BY <2>1, <2>4
      <3>2. d \in Nat /\ (d # Unresolved => d = Served(w))
        BY DigestIs
      <3>3. RecordFits(rec) /\ rec.pc = "spec" /\ rec.op = search[w].op
            /\ rec.spec.digest = d /\ rec.vector = search[w].vector
        BY <1>1, <3>2 DEF RecordFits, Fields, Unresolved
      <3> HIDE DEF rec
      <3>4. /\ search'[w] = rec /\ RunbooksTyped'
            /\ \A v \in Workers : v # w => Searching(v)'
        BY <2>2, <3>1, <3>3, OneMoves
      <3>5. search[w].vector \in Artifacts /\ (d # Unresolved => search[w].vector = d)
        BY <1>1, <2>2, <2>4, <3>2, ServedBuild DEF Sampled, RecordFits
      <3>6. Sampled(w)'
        BY <3>3, <3>4, <3>5 DEF Sampled
      <3>7. Building(w)' /\ Ranking(w)' /\ WholeIndex'
        BY <1>1, <2>2, <3>3, <3>4 DEF Building, Ranking, Critical, Stale, WholeIndex
      <3> QED
        BY <3>4, <3>6, <3>7, AllSearch DEF Searching
    <2> QED
      BY <2>3, <2>4
  <1>6. CASE ResolveDigest(w)
    <2>1. PICK d \in Digests(w) :
            search' = [search EXCEPT ![w] = [search[w] EXCEPT !.spec.digest = d, !.pc = "spec"]]
      BY <1>6 DEF ResolveDigest
    <2> DEFINE rec == [search[w] EXCEPT !.spec.digest = d, !.pc = "spec"]
    <2>2. search' = [search EXCEPT ![w] = rec] /\ UNCHANGED <<artifact, index, lock>>
          /\ search[w].pc = "digest"
      BY <1>6, <2>1 DEF ResolveDigest, SearchAt
    <2>3. d \in Nat
      BY DigestIs
    <2>4. RecordFits(rec) /\ rec.pc = "spec" /\ rec.op = search[w].op
      BY <1>1, <2>3 DEF RecordFits, Fields
    <2> HIDE DEF rec
    <2>5. /\ search'[w] = rec /\ RunbooksTyped'
          /\ \A v \in Workers : v # w => Searching(v)'
      BY <2>2, <2>4, OneMoves
    <2>6. Searching(w)' /\ WholeIndex'
      BY <1>1, <2>2, <2>4, <2>5
      DEF Searching, Sampled, Building, Ranking, Queried, Critical, Stale, WholeIndex
    <2> QED
      BY <2>5, <2>6, AllSearch
  <1>7. CASE ReadSpec(w)
    <2>1. PICK files \in Corpora :
            search' = [search EXCEPT ![w] =
              IF Passages(files) = {} THEN Idle
              ELSE [search[w] EXCEPT !.spec.corpus = files, !.pc = "begin"]]
      BY <1>7 DEF ReadSpec
    <2>2. UNCHANGED <<artifact, index, lock>> /\ search[w].pc = "spec" /\ WholeIndex'
      BY <1>1, <1>7 DEF ReadSpec, SearchAt, WholeIndex
    <2>3. CASE Passages(files) = {}
      BY <1>1, <2>1, <2>2, <2>3, RestStep
    <2>4. CASE Passages(files) # {}
      <3> DEFINE rec == [search[w] EXCEPT !.spec.corpus = files, !.pc = "begin"]
      <3>1. search' = [search EXCEPT ![w] = rec]
        BY <2>1, <2>4
      <3>2. RecordFits(rec) /\ rec.pc = "begin" /\ rec.op = search[w].op
            /\ rec.spec.digest = search[w].spec.digest /\ rec.vector = search[w].vector
        BY <1>1 DEF RecordFits, Fields
      <3> HIDE DEF rec
      <3>3. /\ search'[w] = rec /\ RunbooksTyped'
            /\ \A v \in Workers : v # w => Searching(v)'
        BY <2>2, <3>1, <3>2, OneMoves
      <3>4. Searching(w)'
        BY <1>1, <2>2, <3>2, <3>3
        DEF Searching, Sampled, Building, Ranking, Queried, Critical, Stale
      <3> QED
        BY <2>2, <3>3, <3>4, AllSearch
    <2> QED
      BY <2>3, <2>4
  <1> QED
    BY <1>2, <1>3, <1>4, <1>5, <1>6, <1>7

\* A generation is whole as it is written: what was sampled before and after the vectors
\* is the artifact that made them.
LEMMA GenerationFits ==
  ASSUME RunbooksAssumption, NEW wish, NEW spec, NEW made \in Artifacts,
         spec.digest # Unresolved => made = spec.digest,
         index' = Generation(wish, spec, made)
  PROVE  WholeIndex'
  <1>1. /\ index'.corpus = spec.corpus /\ index'.digest = spec.digest
        /\ index'.dimensions = Dimensions[made]
        /\ index'.rows = {[passage |-> c, artifact |-> made] : c \in Passages(spec.corpus)}
    BY DEF Generation
  <1>2. \A r \in index'.rows : r.artifact = made
    BY <1>1
  <1>3. {r.passage : r \in index'.rows} = Passages(spec.corpus)
    <2>1. ASSUME NEW c \in Passages(spec.corpus)
          PROVE  c \in {r.passage : r \in index'.rows}
      <3>1. [passage |-> c, artifact |-> made] \in index'.rows
        BY <1>1
      <3> QED
        BY <3>1
    <2>2. \A r \in index'.rows : r.passage \in Passages(spec.corpus)
      BY <1>1
    <2> QED
      BY <2>1, <2>2
  <1> QED
    BY <1>1, <1>2, <1>3 DEF WholeIndex

LEMMA BuildStep ==
  ASSUME RunbooksAssumption, RunbooksInv, NEW w \in Workers,
         \/ BeginBuild(w) \/ CheckIndex(w) \/ CorpusSample(w) \/ CorpusEmbed(w) \/ Write(w)
         \/ ReadRanked(w)
  PROVE  RunbooksInv'
  <1>1. WholeIndex /\ RecordFits(search[w]) /\ Sampled(w) /\ Building(w)
    BY DEF RunbooksInv, RunbooksTyped, RecordFits, Searching
  <1>2. CASE BeginBuild(w)
    <2> DEFINE rec == [search[w] EXCEPT !.pc = "check"]
    <2>1. search' = [search EXCEPT ![w] = rec] /\ UNCHANGED <<artifact, index>>
          /\ search[w].pc = "begin" /\ lock = Nobody /\ lock' = w
      BY <1>2 DEF BeginBuild, SearchAt, SearchGoto
    <2>2. RecordFits(rec) /\ rec.pc = "check" /\ rec.op = search[w].op
          /\ rec.spec = search[w].spec /\ rec.vector = search[w].vector
      BY <1>1 DEF RecordFits, Fields
    <2> HIDE DEF rec
    <2>3. /\ search'[w] = rec /\ RunbooksTyped'
          /\ \A v \in Workers : v # w => Searching(v)'
      BY <2>1, <2>2, OneMoves
    <2>4. Searching(w)' /\ WholeIndex'
      BY <1>1, <2>1, <2>2, <2>3
      DEF Searching, Sampled, Building, Ranking, Queried, Critical, Stale, WholeIndex
    <2> QED
      BY <2>3, <2>4, AllSearch
  <1>3. CASE CheckIndex(w)
    <2>1. UNCHANGED <<artifact, index>> /\ search[w].pc = "check" /\ lock = w /\ WholeIndex'
      BY <1>1, <1>3 DEF CheckIndex, SearchAt, Building, Critical, WholeIndex
    <2>2. CASE ReadyForSpec(index, search[w].config, search[w].spec, Wanted(w))
      BY <1>3, <2>1, <2>2, BuiltStep DEF CheckIndex
    <2>3. CASE ~ReadyForSpec(index, search[w].config, search[w].spec, Wanted(w))
      <3> DEFINE rec == [search[w] EXCEPT !.pc = "corpusSample"]
      <3>1. search' = [search EXCEPT ![w] = rec] /\ UNCHANGED lock
        BY <1>3, <2>3 DEF CheckIndex, SearchGoto
      <3>2. RecordFits(rec) /\ rec.pc = "corpusSample" /\ rec.op = search[w].op
            /\ rec.spec = search[w].spec /\ rec.vector = search[w].vector
            /\ rec.config = search[w].config
        BY <1>1 DEF RecordFits, Fields
      <3> HIDE DEF rec
      <3>3. /\ search'[w] = rec /\ RunbooksTyped'
            /\ \A v \in Workers : v # w => Searching(v)'
        BY <2>1, <3>1, <3>2, OneMoves
      <3>4. Wanted(w)' = Wanted(w)
        BY <3>2, <3>3 DEF Wanted
      <3>5. ~ReadyForSpec(index', search'[w].config, search'[w].spec, Wanted(w)')
        BY <2>1, <2>3, <3>2, <3>3, <3>4
      <3>6. Building(w)'
        BY <2>1, <3>1, <3>2, <3>3, <3>5 DEF Building, ReadyForSpec
      <3>7. Sampled(w)' /\ Ranking(w)'
        BY <1>1, <2>1, <3>2, <3>3 DEF Sampled, Ranking, Queried, Critical
      <3> QED
        BY <2>1, <3>3, <3>6, <3>7, AllSearch DEF Searching
    <2> QED
      BY <2>2, <2>3
  <1>4. CASE CorpusSample(w)
    <2>1. UNCHANGED <<artifact, index>> /\ search[w].pc = "corpusSample"
      BY <1>4 DEF CorpusSample, SearchAt
    <2>2. PICK d \in Digests(w) :
            IF d # search[w].spec.digest THEN Unavailable(w)
            ELSE search' = [search EXCEPT ![w].before = d, ![w].pc = "corpusEmbed"]
                 /\ UNCHANGED lock
      BY <1>4 DEF CorpusSample
    <2>3. CASE d # search[w].spec.digest
      BY <2>1, <2>2, <2>3, UnavailableStep
    <2>4. CASE d = search[w].spec.digest
      <3> DEFINE rec == [search[w] EXCEPT !.before = d, !.pc = "corpusEmbed"]
      <3>1. search' = [search EXCEPT ![w] = rec] /\ UNCHANGED lock
        BY <2>2, <2>4
      <3>2. d \in Nat /\ d <= Served(w)
        BY DigestIs
      <3>3. RecordFits(rec) /\ rec.pc = "corpusEmbed" /\ rec.op = search[w].op
            /\ rec.spec = search[w].spec /\ rec.vector = search[w].vector
            /\ rec.config = search[w].config /\ rec.before = d
        BY <1>1, <3>2 DEF RecordFits, Fields
      <3> HIDE DEF rec
      <3>4. /\ search'[w] = rec /\ RunbooksTyped'
            /\ \A v \in Workers : v # w => Searching(v)'
        BY <2>1, <3>1, <3>3, OneMoves
      <3>5. Wanted(w)' = Wanted(w) /\ Served(w)' = Served(w)
        BY <2>1, <3>3, <3>4 DEF Wanted, Served
      <3>6. Building(w)'
        BY <1>1, <2>1, <2>4, <3>1, <3>2, <3>3, <3>4, <3>5
        DEF Building, ReadyForSpec, Critical, Stale
      <3>7. Sampled(w)' /\ Ranking(w)' /\ WholeIndex'
        BY <1>1, <2>1, <3>3, <3>4 DEF Sampled, Ranking, Queried, Critical, WholeIndex
      <3> QED
        BY <3>4, <3>6, <3>7, AllSearch DEF Searching
    <2> QED
      BY <2>3, <2>4
  <1>5. CASE CorpusEmbed(w)
    <2> DEFINE rec == [search[w] EXCEPT !.batch = Served(w), !.pc = "write"]
    <2>1. search' = [search EXCEPT ![w] = rec] /\ UNCHANGED <<artifact, index, lock>>
          /\ search[w].pc = "corpusEmbed"
      BY <1>5 DEF CorpusEmbed, SearchAt, Served
    <2>2. Served(w) \in Artifacts /\ Served(w) \in Nat
      BY ServedBuild
    <2>3. RecordFits(rec) /\ rec.pc = "write" /\ rec.op = search[w].op
          /\ rec.spec = search[w].spec /\ rec.vector = search[w].vector
          /\ rec.config = search[w].config /\ rec.before = search[w].before
          /\ rec.batch = Served(w)
      BY <1>1, <2>2 DEF RecordFits, Fields
    <2> HIDE DEF rec
    <2>4. /\ search'[w] = rec /\ RunbooksTyped'
          /\ \A v \in Workers : v # w => Searching(v)'
      BY <2>1, <2>3, OneMoves
    <2>5. Wanted(w)' = Wanted(w) /\ Served(w)' = Served(w)
      BY <2>1, <2>3, <2>4 DEF Wanted, Served
    <2>6. Building(w)'
      BY <1>1, <2>1, <2>2, <2>3, <2>4, <2>5 DEF Building, ReadyForSpec, Critical, Stale
    <2>7. Sampled(w)' /\ Ranking(w)' /\ WholeIndex'
      BY <1>1, <2>1, <2>3, <2>4 DEF Sampled, Ranking, Queried, Critical, WholeIndex
    <2> QED
      BY <2>4, <2>6, <2>7, AllSearch DEF Searching
  <1>6. CASE Write(w)
    <2>1. UNCHANGED artifact /\ search[w].pc = "write"
      BY <1>6 DEF Write, SearchAt
    <2>2. PICK d \in Digests(w) :
            IF d = search[w].before /\ Wanted(w) \in {0, Dimensions[search[w].batch]}
            THEN /\ index' = Generation(search[w].config, search[w].spec, search[w].batch)
                 /\ Built(w)
            ELSE Unavailable(w) /\ UNCHANGED index
      BY <1>6 DEF Write
    <2>3. CASE d = search[w].before /\ Wanted(w) \in {0, Dimensions[search[w].batch]}
      <3>1. search[w].batch \in Artifacts
            /\ (search[w].spec.digest # Unresolved => search[w].batch = search[w].spec.digest)
        BY <1>1, <2>1, <2>3, DigestIs, ServedBuild DEF Building, RecordFits
      <3>2. WholeIndex'
        BY <2>2, <2>3, <3>1, GenerationFits
      <3> QED
        BY <2>1, <2>2, <2>3, <3>2, BuiltStep
    <2>4. CASE ~(d = search[w].before /\ Wanted(w) \in {0, Dimensions[search[w].batch]})
      BY <2>1, <2>2, <2>4, UnavailableStep
    <2> QED
      BY <2>3, <2>4
  <1>7. CASE ReadRanked(w)
    <2> DEFINE ready == ReadyForSpec(index, search[w].config, search[w].spec, Wanted(w))
               found == IF ready THEN index.rows ELSE {}
               step == IF search[w].tries = ReadAttempts THEN "keyword"
                       ELSE IF ready THEN "match" ELSE "begin"
               rec == [search[w] EXCEPT !.tries = search[w].tries + 1, !.rows = found,
                                        !.pc = step]
    <2>1. search' = [search EXCEPT ![w] = rec] /\ UNCHANGED <<artifact, index, lock>>
          /\ search[w].pc = "read"
      BY <1>7 DEF ReadRanked, SearchAt
    <2>2. ready => /\ index.format = Format /\ index.corpus = search[w].spec.corpus
                   /\ index.digest = search[w].spec.digest
                   /\ Wanted(w) \in {0, index.dimensions}
      BY DEF ReadyForSpec
    <2>3. (step = "match" => ready) /\ step \in {"keyword", "match", "begin"}
      OBVIOUS
    <2> HIDE DEF ready, step
    <2>4. RecordFits(rec) /\ rec.pc = step /\ rec.op = search[w].op
          /\ rec.spec = search[w].spec /\ rec.vector = search[w].vector
          /\ rec.config = search[w].config /\ (ready => rec.rows = index.rows)
      BY <1>1, <2>3 DEF RecordFits, Fields
    <2> HIDE DEF rec
    <2>5. /\ search'[w] = rec /\ RunbooksTyped'
          /\ \A v \in Workers : v # w => Searching(v)'
      BY <2>1, <2>4, OneMoves
    <2>6. search[w].vector \in Artifacts /\ Wanted(w) = Dimensions[search[w].vector]
          /\ Wanted(w) # 0
          /\ (search[w].spec.digest # Unresolved => search[w].vector = search[w].spec.digest)
          /\ search[w].op = "search"
      BY <1>1, <2>1 DEF Sampled, Queried, Wanted, RunbooksAssumption
    <2>7. Ranking(w)'
      BY <1>1, <2>2, <2>3, <2>4, <2>5, <2>6 DEF Ranking, WholeIndex
    <2>8. Sampled(w)'
      BY <1>1, <2>1, <2>3, <2>4, <2>5, <2>6 DEF Sampled, Queried, Critical
    <2>9. Building(w)' /\ WholeIndex'
      BY <1>1, <2>1, <2>3, <2>4, <2>5 DEF Building, Critical, Stale, WholeIndex
    <2> QED
      BY <2>5, <2>7, <2>8, <2>9, AllSearch DEF Searching
  <1> QED
    BY <1>2, <1>3, <1>4, <1>5, <1>6, <1>7

\* A later build of a model is later than whatever was sampled.
LEMMA PullStep ==
  ASSUME RunbooksAssumption, RunbooksInv, NEW m \in Models, Pull(m)
  PROVE  RunbooksInv'
  <1>1. RunbooksTyped /\ UNCHANGED <<index, lock, search>>
    BY DEF RunbooksInv, Pull
  <1>2. artifact' \in [Models -> Artifacts]
        /\ \A n \in Models : artifact[n] \in Nat /\ artifact'[n] \in Nat
                             /\ artifact[n] <= artifact'[n]
    <2>1. artifact \in [Models -> Artifacts] /\ artifact[m] + 1 \in Artifacts
          /\ artifact' = [artifact EXCEPT ![m] = artifact[m] + 1]
      BY <1>1 DEF Pull, RunbooksTyped
    <2>2. artifact' \in [Models -> Artifacts]
          /\ \A n \in Models : artifact'[n] = IF n = m THEN artifact[m] + 1 ELSE artifact[n]
      BY <2>1
    <2>3. \A n \in Models : artifact[n] \in Nat /\ artifact'[n] \in Nat
      BY <2>1, <2>2 DEF RunbooksAssumption
    <2> QED
      BY <2>2, <2>3
  <1>3. RunbooksTyped'
    BY <1>1, <1>2 DEF RunbooksTyped
  <1>4. WholeIndex'
    BY <1>1 DEF RunbooksInv, WholeIndex
  <1>5. ASSUME NEW w \in Workers
        PROVE  Searching(w)'
    <2>1. Served(w) <= Served(w)' /\ Served(w) \in Nat /\ Served(w)' \in Nat
      BY <1>1, <1>2, ConfigModel DEF Served, RunbooksTyped
    <2>2. search[w].before \in Nat /\ search[w].vector \in Nat /\ search[w].batch \in Nat
      BY <1>1 DEF RunbooksTyped
    <2>3. Searching(w) /\ Wanted(w)' = Wanted(w)
      BY <1>1 DEF RunbooksInv, Wanted
    <2>4. Sampled(w)'
      BY <1>1, <2>1, <2>2, <2>3 DEF Searching, Sampled
    <2>5. Building(w)'
      BY <1>1, <2>1, <2>2, <2>3 DEF Searching, Building, ReadyForSpec
    <2>6. Ranking(w)'
      BY <1>1, <2>3 DEF Searching, Ranking
    <2> QED
      BY <2>4, <2>5, <2>6 DEF Searching
  <1> QED
    BY <1>3, <1>4, <1>5 DEF RunbooksInv

LEMMA RunbooksStep ==
  ASSUME RunbooksAssumption, RunbooksInv, [RetrievalNext]_runbookVars
  PROVE  RunbooksInv'
  <1>1. CASE RetrievalNext
    BY <1>1, QueryStep, BuildStep, AnswerStep, PullStep DEF RetrievalNext
  <1>2. CASE UNCHANGED runbookVars
    <2>1. UNCHANGED <<artifact, index, lock, search>>
      BY <1>2 DEF runbookVars
    <2>2. RunbooksTyped' /\ WholeIndex'
      BY <2>1 DEF RunbooksInv, RunbooksTyped, WholeIndex
    <2>3. ASSUME NEW w \in Workers
          PROVE  Searching(w)'
      <3>1. Searching(w) /\ Served(w)' = Served(w) /\ Wanted(w)' = Wanted(w)
        BY <2>1 DEF RunbooksInv, Served, Wanted
      <3> QED
        BY <2>1, <3>1 DEF Searching, Sampled, Building, Ranking, ReadyForSpec
    <2> QED
      BY <2>2, <2>3 DEF RunbooksInv
  <1> QED
    BY <1>1, <1>2

\* Whoever is about to write found the index wanting, and nobody else writes.
LEMMA BuildsOnce ==
  ASSUME RunbooksInv
  PROVE  BuiltOnce
  BY DEF RunbooksInv, Searching, Building, BuiltOnce, SearchAt, Stale, Critical

\* Every search ranks a whole generation of the artifact that made its query vector, and
\* of several builders one embeds, whatever is pulled, edited, built by others or cut
\* short meanwhile.
THEOREM LikeIsRankedWithLike ==
  RunbooksAssumption => (RetrievalSpec => RunbooksAreIndexed)
  <1> SUFFICES ASSUME RunbooksAssumption
               PROVE  RetrievalSpec => RunbooksAreIndexed
    OBVIOUS
  <1>1. RetrievalInit => RunbooksInv
    BY InitRunbooks
  <1>2. RunbooksInv /\ [RetrievalNext]_runbookVars => RunbooksInv'
    BY RunbooksStep
  <1>3. RunbooksInv /\ [RetrievalNext]_runbookVars
        => [OneVectorSpace' /\ BuiltOnce]_runbookVars
    <2> SUFFICES ASSUME RunbooksInv, [RetrievalNext]_runbookVars
                 PROVE  OneVectorSpace' /\ BuiltOnce
      OBVIOUS
    <2>1. RunbooksInv'
      BY <1>2
    <2>2. OneVectorSpace'
      BY <2>1 DEF RunbooksInv, Searching, Ranking, OneVectorSpace, SearchAt
    <2> QED
      BY <2>2, BuildsOnce
  <1> QED
    BY <1>1, <1>2, <1>3, PTL DEF RetrievalSpec, RunbooksAreIndexed

-----------------------------------------------------------------------------
(***************************************************************************)
(* Snapshots, for any directories, databases and backups. A signed manifest*)
(* is of the generation that was published, or gone with it (Signed); of   *)
(* what a backup is about to remove, a newer snapshot is complete (Spared),*)
(* and if that one goes, it is for a newer one still.                      *)
(***************************************************************************)
SnapsTyped ==
  /\ live \in [Homes -> Files]
  /\ root \in [Stamps -> Directory]
  /\ claims \subseteq Stamps
  /\ work \in [Backups -> Worker]

\* A command that got past its guards keeps something, and removes something.
Keeping(w) ==
  /\ work[w].pc # "idle" => work[w].keep >= 1
  /\ work[w].pc = "remove" => work[w].expired # {}

Spared(w) == \A e \in work[w].expired : \E t \in Completed : t > e

Signed(s) == root[s].marker = "signed" => root[s].manifest = root[s].origin

SnapsInv ==
  /\ SnapsTyped
  /\ \A w \in Backups : Keeping(w) /\ Spared(w)
  /\ \A s \in Stamps : Signed(s)

LEMMA IdleBackup ==
  ASSUME SnapshotsAssumption
  PROVE  IdleWorker \in Worker /\ IdleWorker.pc = "idle" /\ IdleWorker.expired = {}
         /\ Empty \in Files
  <1>1. (CHOOSE s \in Stamps : TRUE) \in Stamps
    BY DEF SnapshotsAssumption
  <1>2. Empty \in Files
    BY DEF Empty, Files
  <1> QED
    BY <1>1, <1>2 DEF IdleWorker, Worker, None

LEMMA DirectoryTypes ==
  ASSUME NEW files \in Files
  PROVE  /\ NoDirectory \in Directory /\ NoDirectory.marker = "none"
         /\ Published(files) \in Directory /\ Published(files).marker = "signed"
         /\ Published(files).exists /\ Published(files).manifest = files
         /\ Published(files).origin = files
  <1>1. Empty \in Files
    BY DEF Empty, Files
  <1> QED
    BY <1>1 DEF NoDirectory, Published, Directory

LEMMA InitSnaps ==
  ASSUME SnapshotsAssumption, SnapshotsInit
  PROVE  SnapsInv
  <1>1. live \in [Homes -> Files]
    BY DEF SnapshotsInit, SnapshotsAssumption
  <1>2. \A w \in Backups : work[w] = IdleWorker
    BY DEF SnapshotsInit
  <1>3. \A s \in Stamps : root[s] = NoDirectory
    BY DEF SnapshotsInit
  <1>4. SnapsTyped
    BY <1>1, IdleBackup, DirectoryTypes DEF SnapshotsInit, SnapsTyped
  <1>5. \A w \in Backups : Keeping(w) /\ Spared(w)
    BY <1>2, IdleBackup DEF Keeping, Spared
  <1>6. \A s \in Stamps : Signed(s)
    BY <1>3, IdleBackup, DirectoryTypes DEF Signed
  <1> QED
    BY <1>4, <1>5, <1>6 DEF SnapsInv

\* What a backup does to itself alone.
LEMMA WorkStep ==
  ASSUME SnapsInv, NEW w \in Backups, NEW rec \in Worker, work' = [work EXCEPT ![w] = rec],
         UNCHANGED <<live, root>>, claims' \subseteq Stamps,
         rec.pc # "idle" => rec.keep >= 1, rec.pc = "remove" => rec.expired # {},
         \A e \in rec.expired : \E t \in Completed : t > e
  PROVE  SnapsInv' /\ (AcceptedWasPublished => AcceptedWasPublished') /\ PublishedKept
  <1>1. SnapsTyped /\ (\A v \in Backups : Keeping(v) /\ Spared(v)) /\ \A s \in Stamps : Signed(s)
    BY DEF SnapsInv
  <1>2. work' \in [Backups -> Worker] /\ work'[w] = rec
        /\ \A v \in Backups : v # w => work'[v] = work[v]
    BY <1>1 DEF SnapsTyped
  <1>3. SnapsTyped'
    BY <1>1, <1>2 DEF SnapsTyped
  <1>4. Completed' = Completed
    BY DEF Completed
  <1>5. ASSUME NEW v \in Backups
        PROVE  Keeping(v)' /\ Spared(v)'
    <2>1. CASE v = w
      BY <1>2, <1>4, <2>1 DEF Keeping, Spared
    <2>2. CASE v # w
      BY <1>1, <1>2, <1>4, <2>2 DEF Keeping, Spared
    <2> QED
      BY <2>1, <2>2
  <1>6. \A s \in Stamps : Signed(s)'
    BY <1>1 DEF Signed
  <1>7. AcceptedWasPublished => AcceptedWasPublished'
    BY DEF AcceptedWasPublished
  <1>8. PublishedKept
    BY <1>4 DEF PublishedKept
  <1> QED
    BY <1>3, <1>5, <1>6, <1>7, <1>8 DEF SnapsInv

\* What a restore accepts is what was published, by the manifest that is signed.
LEMMA AcceptedIsWhole ==
  ASSUME SnapsInv
  PROVE  AcceptedWasPublished
  <1> SUFFICES ASSUME NEW s \in Stamps, Accepted(root[s])
               PROVE  root[s].files = root[s].origin
    BY DEF AcceptedWasPublished
  <1>1. root[s] \in Directory /\ root[s].marker = "signed" /\ root[s].manifest = root[s].origin
    BY DEF SnapsInv, SnapsTyped, Signed, Accepted
  <1>2. root[s].files \in Files /\ root[s].manifest \in Files
    BY <1>1 DEF Directory
  <1>3. \A n \in Databases : root[s].files[n] = root[s].manifest[n]
    BY DEF Accepted, Present
  <1>4. root[s].files = root[s].manifest
    BY <1>2, <1>3 DEF Files
  <1> QED
    BY <1>1, <1>4

LEMMA BackupFields ==
  ASSUME SnapsInv, NEW w \in Backups
  PROVE  /\ work[w] \in Worker /\ work[w].stamp \in Stamps /\ work[w].keep \in Int
         /\ work[w].expired \subseteq Stamps /\ work[w].staged \in Files
         /\ work[w].todo \subseteq Databases
         /\ work[w].pc # "idle" => work[w].keep >= 1
         /\ \A e \in work[w].expired : \E t \in Completed : t > e
         /\ claims \subseteq Stamps
  BY DEF SnapsInv, SnapsTyped, Worker, Keeping, Spared

LEMMA EndStep ==
  ASSUME SnapshotsAssumption, SnapsInv, NEW w \in Backups, End(w), UNCHANGED <<live, root>>,
         claims' \subseteq Stamps
  PROVE  SnapsInv' /\ PublishedKept
  BY IdleBackup, WorkStep DEF End

\* A step that changes where a backup is, and perhaps that it failed.
LEMMA GoStep ==
  ASSUME SnapsInv, NEW w \in Backups, NEW there, work[w].pc # "idle",
         there \in {"lock", "check", "claim", "copy", "rename", "sync", "discard", "release",
                    "survey", "prune"},
         WorkGoto(w, there) \/ FailWork(w, there), UNCHANGED <<live, root>>,
         claims' \subseteq Stamps
  PROVE  SnapsInv' /\ PublishedKept
  <1>1. CASE WorkGoto(w, there)
    <2> DEFINE rec == [work[w] EXCEPT !.pc = there]
    <2>1. rec \in Worker /\ rec.pc = there /\ rec.keep = work[w].keep
          /\ rec.expired = work[w].expired
      BY BackupFields DEF Worker
    <2>2. work' = [work EXCEPT ![w] = rec]
      BY <1>1 DEF WorkGoto
    <2> HIDE DEF rec
    <2> QED
      BY <2>1, <2>2, BackupFields, WorkStep
  <1>2. CASE FailWork(w, there)
    <2> DEFINE rec == [work[w] EXCEPT !.pc = there, !.failed = TRUE]
    <2>1. rec \in Worker /\ rec.pc = there /\ rec.keep = work[w].keep
          /\ rec.expired = work[w].expired
      BY BackupFields DEF Worker
    <2>2. work' = [work EXCEPT ![w] = rec]
      BY <1>2 DEF FailWork
    <2> HIDE DEF rec
    <2> QED
      BY <2>1, <2>2, BackupFields, WorkStep
  <1> QED
    BY <1>1, <1>2

LEMMA CommandStep ==
  ASSUME SnapshotsAssumption, SnapsInv, NEW w \in Backups,
         \/ Invoke(w) \/ Lock(w) \/ CheckHome(w) \/ Claim(w) \/ Copy(w)
  PROVE  SnapsInv' /\ PublishedKept
  <1> USE BackupFields
  <1>1. CASE Invoke(w)
    <2>1. UNCHANGED <<live, root, claims>>
      BY <1>1 DEF Invoke
    <2>2. PICK flag \in Keeps \cup {None}, env \in Keeps \cup {None, Garbage}, s \in Stamps :
            LET keep == ResolveKeep(flag, env)
            IN  IF keep <= 0 THEN End(w)
                ELSE work' = [work EXCEPT ![w] =
                       [IdleWorker EXCEPT !.pc = "lock", !.keep = keep, !.stamp = s]]
      BY <1>1 DEF Invoke
    <2> DEFINE keep == ResolveKeep(flag, env)
               rec == [IdleWorker EXCEPT !.pc = "lock", !.keep = keep, !.stamp = s]
    <2>3. keep \in Int
      BY DEF ResolveKeep, None, Garbage, SnapshotsAssumption
    <2>4. CASE keep <= 0
      BY <2>1, <2>2, <2>4, EndStep
    <2>5. CASE ~(keep <= 0)
      <3>1. keep >= 1 /\ work' = [work EXCEPT ![w] = rec]
        BY <2>2, <2>3, <2>5
      <3> HIDE DEF keep
      <3>2. rec \in Worker /\ rec.pc = "lock" /\ rec.keep = keep /\ rec.expired = {}
        BY <2>3, IdleBackup DEF Worker
      <3> HIDE DEF rec
      <3> QED
        BY <2>1, <3>1, <3>2, WorkStep
    <2> QED
      BY <2>4, <2>5
  <1>2. CASE Lock(w)
    BY <1>2, GoStep DEF Lock, WorkAt
  <1>3. CASE CheckHome(w)
    <2>1. UNCHANGED <<live, root, claims>> /\ work[w].pc = "check"
      BY <1>3 DEF CheckHome, WorkAt
    <2>2. CASE End(w)
      BY <2>1, <2>2, EndStep
    <2>3. CASE work' = [work EXCEPT ![w].pc = "claim", ![w].todo = Present(live[Home(w)])]
      <3> DEFINE left == Present(live[Home(w)])
                 rec == [work[w] EXCEPT !.pc = "claim", !.todo = left]
      <3>1. left \subseteq Databases
        BY DEF Present
      <3>2. work' = [work EXCEPT ![w] = rec]
        BY <2>3
      <3> HIDE DEF left
      <3>3. rec \in Worker /\ rec.pc = "claim" /\ rec.keep = work[w].keep
            /\ rec.expired = work[w].expired
        BY <3>1 DEF Worker
      <3> HIDE DEF rec
      <3> QED
        BY <2>1, <3>2, <3>3, WorkStep
    <2> QED
      BY <1>3, <2>2, <2>3 DEF CheckHome
  <1>4. CASE Claim(w)
    <2>1. UNCHANGED <<live, root>> /\ work[w].pc = "claim" /\ claims' \subseteq Stamps
      BY <1>4 DEF Claim, WorkAt
    <2>2. End(w) \/ WorkGoto(w, "copy")
      BY <1>4 DEF Claim
    <2> QED
      BY <2>1, <2>2, EndStep, GoStep
  <1>5. CASE Copy(w)
    <2>1. UNCHANGED <<live, root, claims>> /\ work[w].pc = "copy"
      BY <1>5 DEF Copy, WorkAt
    <2>2. PICK n \in work[w].todo :
            IF live[Home(w)][n] = Unsupported
            THEN FailWork(w, "discard")
            ELSE work' = [work EXCEPT ![w].todo = work[w].todo \ {n},
                            ![w].staged[n] = live[Home(w)][n],
                            ![w].pc = IF work[w].todo = {n} THEN "rename" ELSE "copy"]
      BY <1>5 DEF Copy
    <2>3. CASE FailWork(w, "discard")
      BY <2>1, <2>3, GoStep
    <2>4. CASE ~(live[Home(w)][n] = Unsupported)
      <3> DEFINE content == live[Home(w)][n]
                 taken == [work[w].staged EXCEPT ![n] = content]
                 there == IF work[w].todo = {n} THEN "rename" ELSE "copy"
                 rec == [work[w] EXCEPT !.todo = work[w].todo \ {n}, !.staged = taken,
                                        !.pc = there]
      <3>1. live[Home(w)] \in Files /\ n \in Databases
        BY DEF SnapsInv, SnapsTyped, Home, SnapshotsAssumption
      <3>2. content \in Contents \cup {None}
        BY <3>1 DEF Files
      <3>3. work' = [work EXCEPT ![w] = rec]
        BY <2>2, <2>4 DEF SnapsInv, SnapsTyped, Worker
      <3> HIDE DEF content
      <3>4. taken \in Files
        BY <3>1, <3>2 DEF Files
      <3>5. there \in {"rename", "copy"}
        OBVIOUS
      <3> HIDE DEF taken, there
      <3>6. rec \in Worker /\ rec.pc = there /\ rec.keep = work[w].keep
            /\ rec.expired = work[w].expired
        BY <3>4, <3>5 DEF Worker
      <3> HIDE DEF rec
      <3> QED
        BY <2>1, <3>3, <3>5, <3>6, WorkStep
    <2> QED
      BY <2>2, <2>3, <2>4
  <1> QED
    BY <1>1, <1>2, <1>3, <1>4, <1>5

\* What changes one snapshot, and leaves it signed or not as it does.
LEMMA RootStep ==
  ASSUME SnapshotsAssumption, SnapsInv, NEW s \in Stamps, NEW d \in Directory,
         root' = [root EXCEPT ![s] = d], live' = live, claims' = claims,
         d.marker = "signed" => d.manifest = d.origin,
         s \in Completed /\ d.marker = "signed" => d.manifest \in {root[s].manifest, Empty},
         (d.exists /\ d.marker # "none") \/ s \notin Completed \/ \E t \in Completed : t > s
  PROVE  /\ \A v \in Stamps : Signed(v)'
         /\ root' \in [Stamps -> Directory]
         /\ PublishedKept
         /\ \A e \in Stamps : (\E t \in Completed : t > e) => \E t \in Completed' : t > e
  <1>1. root \in [Stamps -> Directory] /\ \A v \in Stamps : Signed(v)
    BY DEF SnapsInv, SnapsTyped
  <1>2. root' \in [Stamps -> Directory] /\ root'[s] = d
        /\ \A v \in Stamps : v # s => root'[v] = root[v]
    BY <1>1
  <1>3. \A v \in Stamps : Signed(v)'
    BY <1>1, <1>2 DEF Signed
  <1>4. \A v \in Completed : v \in Completed' \/ v = s
    BY <1>2 DEF Completed
  <1>5. s \in Completed => s \in Completed' \/ \E t \in Completed : t > s
    BY <1>2 DEF Completed
  <1>6. Completed \subseteq Stamps /\ Stamps \subseteq Int
    BY DEF Completed, SnapshotsAssumption
  <1>7. \A e \in Stamps : (\E t \in Completed : t > e) => \E t \in Completed' : t > e
    <2> SUFFICES ASSUME NEW e \in Stamps, NEW t \in Completed, t > e
                 PROVE  \E u \in Completed' : u > e
      OBVIOUS
    <2>1. CASE t \in Completed'
      BY <2>1
    <2>2. CASE t \notin Completed'
      <3>1. t = s
        BY <1>4, <2>2
      <3>2. PICK u \in Completed : u > s
        BY <1>5, <2>2, <3>1
      <3>3. u \in Int /\ s \in Int /\ e \in Int
        BY <1>6
      <3>4. u \in Completed' /\ u > e
        BY <1>4, <3>1, <3>2, <3>3
      <3> QED
        BY <3>4
    <2> QED
      BY <2>1, <2>2
  <1>8. PublishedKept
    <2> SUFFICES ASSUME NEW v \in Completed
                 PROVE  /\ root'[v].marker = "signed" =>
                             root'[v].manifest \in {root[v].manifest, Empty}
                        /\ Newer(v, Completed) = {} => v \in Completed'
      BY DEF PublishedKept
    <2>1. CASE v = s
      <3>1. Newer(v, Completed) = {} => ~\E t \in Completed : t > s
        BY <2>1 DEF Newer
      <3> QED
        BY <1>2, <1>5, <2>1, <3>1
    <2>2. CASE v # s
      BY <1>2, <1>4, <1>6, <2>2
    <2> QED
      BY <2>1, <2>2
  <1> QED
    BY <1>2, <1>3, <1>7, <1>8

LEMMA BothStep ==
  ASSUME SnapshotsAssumption, SnapsInv, NEW w \in Backups, NEW rec \in Worker,
         work' = [work EXCEPT ![w] = rec],
         live' = live, claims' = claims,
         rec.pc # "idle" => rec.keep >= 1, rec.pc = "remove" => rec.expired # {},
         rec.expired \subseteq work[w].expired,
         \A v \in Stamps : Signed(v)', root' \in [Stamps -> Directory],
         \A e \in Stamps : (\E t \in Completed : t > e) => \E t \in Completed' : t > e
  PROVE  SnapsInv'
  <1>1. SnapsTyped /\ (\A v \in Backups : Keeping(v) /\ Spared(v))
    BY DEF SnapsInv
  <1>2. work' \in [Backups -> Worker] /\ work'[w] = rec
        /\ \A v \in Backups : v # w => work'[v] = work[v]
    BY <1>1 DEF SnapsTyped
  <1>3. SnapsTyped'
    BY <1>1, <1>2 DEF SnapsTyped
  <1>4. ASSUME NEW v \in Backups
        PROVE  Keeping(v)' /\ Spared(v)'
    <2>1. Keeping(v)'
      BY <1>1, <1>2 DEF Keeping
    <2>2. work'[v].expired \subseteq work[v].expired /\ work[v].expired \subseteq Stamps
      BY <1>2, BackupFields
    <2>3. Spared(v)
      BY <1>1
    <2>4. \A e \in work'[v].expired : \E t \in Completed' : t > e
      <3> TAKE e \in work'[v].expired
      <3>1. e \in Stamps /\ \E t \in Completed : t > e
        BY <2>2, <2>3 DEF Spared
      <3> QED
        BY <3>1
    <2> QED
      BY <2>1, <2>4 DEF Spared
  <1> QED
    BY <1>3, <1>4 DEF SnapsInv

LEMMA PublishStep ==
  ASSUME SnapshotsAssumption, SnapsInv, NEW w \in Backups,
         \/ Rename(w) \/ Sync(w) \/ Discard(w) \/ Release(w)
  PROVE  SnapsInv' /\ PublishedKept
  <1> USE BackupFields
  <1>1. CASE Rename(w)
    <2>1. UNCHANGED <<live, claims>> /\ work[w].pc = "rename"
      BY <1>1 DEF Rename, WorkAt
    <2>2. CASE root[work[w].stamp] \in {NoDirectory, [NoDirectory EXCEPT !.exists = TRUE]}
      <3> DEFINE s == work[w].stamp
                 d == Published(work[w].staged)
                 rec == [work[w] EXCEPT !.pc = "sync", !.staged = Empty]
      <3>1. work' = [work EXCEPT ![w] = rec] /\ root' = [root EXCEPT ![s] = d]
        BY <1>1, <2>2 DEF Rename, PublishSnapshot
      <3>2. rec \in Worker /\ rec.pc = "sync" /\ rec.keep = work[w].keep
            /\ rec.expired = work[w].expired
        BY IdleBackup DEF Worker
      <3>3. d \in Directory /\ d.exists /\ d.marker = "signed" /\ d.manifest = d.origin
        BY DirectoryTypes
      <3>4. root[s].marker = "none"
        BY <2>2 DEF NoDirectory
      <3>5. s \notin Completed /\ s \in Stamps
        BY <3>4 DEF Completed
      <3> HIDE DEF s, d, rec
      <3>6. /\ \A v \in Stamps : Signed(v)'
            /\ root' \in [Stamps -> Directory]
            /\ PublishedKept
            /\ \A e \in Stamps : (\E t \in Completed : t > e) => \E t \in Completed' : t > e
        BY <2>1, <3>1, <3>3, <3>5, RootStep
      <3>7. work[w].pc # "idle" /\ work[w].keep >= 1
        BY <2>1
      <3>8. rec.keep >= 1 /\ rec.pc # "remove" /\ rec.expired \subseteq work[w].expired
        BY <3>2, <3>7
      <3>9. live' = live /\ claims' = claims
        BY <2>1
      <3> QED
        BY <3>1, <3>2, <3>6, <3>8, <3>9, BothStep
    <2>3. CASE root[work[w].stamp] \notin {NoDirectory, [NoDirectory EXCEPT !.exists = TRUE]}
      BY <1>1, <2>1, <2>3, GoStep DEF Rename
    <2> QED
      BY <2>2, <2>3
  <1>2. CASE Sync(w)
    BY <1>2, GoStep DEF Sync, WorkAt
  <1>3. CASE Discard(w)
    <2> DEFINE rec == [work[w] EXCEPT !.pc = "release", !.staged = Empty]
    <2>1. work' = [work EXCEPT ![w] = rec] /\ UNCHANGED <<live, root, claims>>
          /\ work[w].pc = "discard"
      BY <1>3 DEF Discard, WorkAt
    <2>2. rec \in Worker /\ rec.pc = "release" /\ rec.keep = work[w].keep
          /\ rec.expired = work[w].expired
      BY IdleBackup DEF Worker
    <2> HIDE DEF rec
    <2> QED
      BY <2>1, <2>2, WorkStep
  <1>4. CASE Release(w)
    <2>1. UNCHANGED <<live, root>> /\ work[w].pc = "release" /\ claims' \subseteq Stamps
      BY <1>4 DEF Release, WorkAt
    <2>2. End(w) \/ WorkGoto(w, "survey")
      BY <1>4 DEF Release
    <2> QED
      BY <2>1, <2>2, EndStep, GoStep
  <1> QED
    BY <1>1, <1>2, <1>3, <1>4

\* A set of timestamps has a newest one.
LEMMA NewestOf ==
  ASSUME SnapshotsAssumption, NEW E \in SUBSET Stamps, E # {}
  PROVE  \E s \in E : Newer(s, E) = {}
  <1> DEFINE Family == {Newer(s, E) : s \in E}
  <1>1. IsFiniteSet(E) /\ E \subseteq Int
    BY FS_Subset DEF SnapshotsAssumption
  <1>2. IsWellFoundedOn(StrictSubsetOrdering(E), FiniteSubsetsOf(E))
    BY FS_StrictSubsetOrderingWellFounded
  <1>3. FiniteSubsetsOf(E) = SUBSET E
    BY <1>1, FS_FiniteSubsetsOfFinite
  <1>4. Family \subseteq SUBSET E /\ Family # {}
    BY DEF Newer
  <1>5. PICK m \in Family : \A n \in Family : <<n, m>> \notin StrictSubsetOrdering(E)
    <2> HIDE DEF Family
    <2> QED
      BY <1>2, <1>3, <1>4, WFMin
  <1>6. PICK s \in E : m = Newer(s, E)
    BY <1>5
  <1>7. ASSUME NEW t \in Newer(s, E)
        PROVE  FALSE
    <2>1. t \in E /\ t > s /\ t \in Int /\ s \in Int
      BY <1>1 DEF Newer
    <2>2. Newer(t, E) \subseteq Newer(s, E)
      <3>1. ASSUME NEW u \in E, u > t
            PROVE  u > s
        <4>1. u \in Int
          BY <1>1
        <4> QED
          BY <2>1, <3>1, <4>1
      <3> QED
        BY <3>1 DEF Newer
    <2>3. t \notin Newer(t, E)
      BY <2>1 DEF Newer
    <2>4. Newer(t, E) # m /\ Newer(t, E) \subseteq m
      BY <1>6, <2>2, <2>3
    <2>5. Newer(t, E) \in Family /\ Newer(t, E) \in SUBSET E /\ m \in SUBSET E
      BY <1>4, <1>5, <2>1
    <2>6. <<Newer(t, E), m>> \in StrictSubsetOrdering(E)
      BY <2>4, <2>5 DEF StrictSubsetOrdering
    <2> QED
      BY <1>5, <2>5, <2>6
  <1> QED
    BY <1>7

LEMMA RemoveStep ==
  ASSUME SnapshotsAssumption, SnapsInv, NEW w \in Backups, RemoveSnapshot(w)
  PROVE  SnapsInv' /\ PublishedKept
  <1> USE BackupFields
  <1> DEFINE s == Expiring(w)
             d == root[s]
             rec == [work[w] EXCEPT !.pc = "prune", !.expired = work[w].expired \ {s}]
  <1>1. work[w].pc = "remove" /\ live' = live /\ claims' = claims
    BY DEF RemoveSnapshot, WorkAt
  <1>2. work[w].expired # {}
    BY <1>1 DEF SnapsInv, Keeping
  <1>3. s \in work[w].expired
    <2>1. \E v \in work[w].expired : Newer(v, work[w].expired) = {}
      BY <1>2, NewestOf
    <2> QED
      BY <2>1 DEF Expiring
  <1>4. s \in Stamps /\ \E t \in Completed : t > s
    BY <1>3
  <1>5. d \in Directory /\ (d.marker = "signed" => d.manifest = d.origin)
    BY <1>4 DEF SnapsInv, SnapsTyped, Signed
  <1>6. \/ /\ UNCHANGED work
           /\ \/ \E n \in Present(d.files) : root' = [root EXCEPT ![s].files[n] = None]
              \/ root' = [root EXCEPT ![s].marker = "none"]
              \/ root' = [root EXCEPT ![s].manifest = Empty, ![s].origin = Empty]
        \/ work' = [work EXCEPT ![w] = rec]
           /\ (root' = [root EXCEPT ![s] = NoDirectory] \/ root' = root)
    BY DEF RemoveSnapshot
  <1>7. rec \in Worker /\ rec.pc = "prune" /\ rec.keep = work[w].keep
        /\ rec.expired \subseteq work[w].expired
    BY DEF Worker
  <1>8. root \in [Stamps -> Directory]
    BY DEF SnapsInv, SnapsTyped
  <1>9. \E e \in Directory :
          /\ root' = [root EXCEPT ![s] = e]
          /\ e.marker = "signed" => e.manifest = e.origin
          /\ s \in Completed /\ e.marker = "signed" => e.manifest \in {root[s].manifest, Empty}
    <2> HIDE DEF s
    <2>1. CASE \E n \in Present(d.files) : root' = [root EXCEPT ![s].files[n] = None]
      <3>1. PICK n \in Present(d.files) : root' = [root EXCEPT ![s].files[n] = None]
        BY <2>1
      <3> DEFINE rest == [d.files EXCEPT ![n] = None]
                 e == [d EXCEPT !.files = rest]
      <3>2. d.files \in Files
        BY <1>5 DEF Directory
      <3>3. rest \in Files
        BY <3>2 DEF Files, Present, None
      <3>4. root' = [root EXCEPT ![s] = e]
        BY <1>4, <1>8, <3>1
      <3> HIDE DEF rest
      <3>5. e \in Directory /\ e.marker = d.marker /\ e.manifest = d.manifest
            /\ e.origin = d.origin
        BY <1>5, <3>3 DEF Directory
      <3> HIDE DEF e
      <3> QED
        BY <1>5, <3>4, <3>5
    <2>2. CASE root' = [root EXCEPT ![s].marker = "none"]
      <3> DEFINE e == [d EXCEPT !.marker = "none"]
      <3>1. root' = [root EXCEPT ![s] = e]
        BY <2>2
      <3>2. e \in Directory /\ e.marker = "none"
        BY <1>5 DEF Directory
      <3> HIDE DEF e
      <3> QED
        BY <3>1, <3>2
    <2>3. CASE root' = [root EXCEPT ![s].manifest = Empty, ![s].origin = Empty]
      <3> DEFINE e == [d EXCEPT !.manifest = Empty, !.origin = Empty]
      <3>1. root' = [root EXCEPT ![s] = e]
        BY <2>3
      <3>2. e \in Directory /\ e.manifest = Empty /\ e.origin = Empty
        BY <1>5, IdleBackup DEF Directory
      <3> HIDE DEF e
      <3> QED
        BY <3>1, <3>2
    <2>4. CASE root' = [root EXCEPT ![s] = NoDirectory]
      <3>1. NoDirectory \in Directory /\ NoDirectory.marker = "none"
        BY IdleBackup, DirectoryTypes
      <3> QED
        BY <2>4, <3>1
    <2>5. CASE root' = root
      <3>1. root' = [root EXCEPT ![s] = d]
        BY <1>4, <1>8, <2>5
      <3> QED
        BY <1>5, <3>1
    <2> QED
      BY <1>6, <2>1, <2>2, <2>3, <2>4, <2>5
  <1>10. /\ \A v \in Stamps : Signed(v)'
         /\ root' \in [Stamps -> Directory]
         /\ PublishedKept
         /\ \A e \in Stamps : (\E t \in Completed : t > e) => \E t \in Completed' : t > e
    <2> HIDE DEF s
    <2> QED
      BY <1>1, <1>4, <1>9, RootStep
  <1>11. SnapsInv'
    <2>1. CASE work' = work
      <3>1. work[w] \in Worker /\ work[w].keep >= 1 /\ work' = [work EXCEPT ![w] = work[w]]
        BY <1>1, <2>1 DEF SnapsInv, SnapsTyped
      <3> HIDE DEF s, rec
      <3> QED
        BY <1>1, <1>2, <1>10, <3>1, BothStep
    <2>2. CASE work' = [work EXCEPT ![w] = rec]
      <3>1. work[w].pc # "idle"
        BY <1>1
      <3>2. work[w].keep >= 1
        BY <3>1
      <3> HIDE DEF s, rec
      <3>3. rec.keep >= 1 /\ rec.pc # "remove"
        BY <1>7, <3>2
      <3> QED
        BY <1>1, <1>7, <1>10, <2>2, <3>3, BothStep
    <2> QED
      BY <1>6, <2>1, <2>2
  <1> QED
    BY <1>10, <1>11

LEMMA PruneStep ==
  ASSUME SnapshotsAssumption, SnapsInv, NEW w \in Backups,
         \/ Survey(w) \/ Prune(w) \/ Fault(w) \/ WorkerDies(w)
  PROVE  SnapsInv' /\ PublishedKept
  <1> USE BackupFields
  <1>1. CASE Survey(w)
    <2> DEFINE old == {s \in Completed : Cardinality(Newer(s, Completed)) >= work[w].keep}
               rec == [work[w] EXCEPT !.pc = "prune", !.expired = old]
    <2>1. work' = [work EXCEPT ![w] = rec] /\ UNCHANGED <<live, root, claims>>
          /\ work[w].pc = "survey"
      BY <1>1 DEF Survey, WorkAt
    <2>2. old \subseteq Stamps
      BY DEF Completed
    <2>3. \A e \in old : \E t \in Completed : t > e
      <3> TAKE e \in old
      <3>1. Cardinality(Newer(e, Completed)) >= work[w].keep /\ work[w].keep >= 1
        BY <2>1
      <3>2. Newer(e, Completed) # {}
        <4>1. Cardinality({}) = 0
          BY FS_EmptySet
        <4>2. ASSUME Newer(e, Completed) = {}
              PROVE  FALSE
          <5>1. 0 >= work[w].keep
            BY <3>1, <4>1, <4>2
          <5> QED
            BY <3>1, <5>1
        <4> QED
          BY <4>2
      <3> QED
        BY <3>2 DEF Newer
    <2> HIDE DEF old
    <2>4. rec \in Worker /\ rec.pc = "prune" /\ rec.keep = work[w].keep /\ rec.expired = old
      BY <2>2 DEF Worker
    <2> HIDE DEF rec
    <2> QED
      BY <2>1, <2>3, <2>4, WorkStep
  <1>2. CASE Prune(w)
    <2>1. UNCHANGED <<live, root, claims>> /\ work[w].pc = "prune"
      BY <1>2 DEF Prune, WorkAt
    <2>2. CASE work[w].expired = {}
      BY <1>2, <2>1, <2>2, EndStep DEF Prune
    <2>3. CASE work[w].expired # {}
      <3> DEFINE rec == [work[w] EXCEPT !.pc = "remove"]
      <3>1. work' = [work EXCEPT ![w] = rec]
        BY <1>2, <2>3 DEF Prune, WorkGoto
      <3>2. rec \in Worker /\ rec.pc = "remove" /\ rec.keep = work[w].keep
            /\ rec.expired = work[w].expired
        BY DEF Worker
      <3> HIDE DEF rec
      <3> QED
        BY <2>1, <2>3, <3>1, <3>2, WorkStep
    <2> QED
      BY <2>2, <2>3
  <1>3. CASE Fault(w)
    <2>1. UNCHANGED <<live, root, claims>>
      BY <1>3 DEF Fault
    <2>2. End(w) \/ (work[w].pc # "idle" /\ FailWork(w, "discard"))
      <3>1. CASE work[w].pc \in {"copy", "rename"} /\ FailWork(w, "discard")
        <4>1. work[w].pc # "idle"
          BY <3>1
        <4> QED
          BY <3>1, <4>1
      <3> QED
        BY <1>3, <3>1 DEF Fault
    <2> QED
      BY <2>1, <2>2, EndStep, GoStep
  <1>4. CASE WorkerDies(w)
    BY <1>4, EndStep DEF WorkerDies, End
  <1> QED
    BY <1>1, <1>2, <1>3, <1>4

LEMMA OthersStep ==
  ASSUME SnapshotsAssumption, SnapsInv,
         \/ \E h \in Homes, n \in Databases : AgentWrites(h, n)
         \/ \E s \in Edited : Edit(s)
  PROVE  SnapsInv' /\ PublishedKept
  <1>1. ASSUME NEW h \in Homes, NEW n \in Databases, AgentWrites(h, n)
        PROVE  SnapsInv' /\ PublishedKept
    <2>1. UNCHANGED <<root, claims, work>> /\ live[h][n] \in 0 .. (MaxVersion - 1)
          /\ live' = [live EXCEPT ![h][n] = live[h][n] + 1]
      BY <1>1 DEF AgentWrites
    <2>2. live \in [Homes -> Files] /\ MaxVersion \in Nat
      BY DEF SnapsInv, SnapsTyped, SnapshotsAssumption
    <2>3. live[h][n] + 1 \in Contents
      BY <2>1, <2>2 DEF Contents
    <2>4. [live[h] EXCEPT ![n] = live[h][n] + 1] \in Files
      BY <2>2, <2>3 DEF Files
    <2>5. live' \in [Homes -> Files]
      BY <2>1, <2>2, <2>4
    <2>6. Completed' = Completed
      BY <2>1 DEF Completed
    <2>7. SnapsTyped' /\ \A v \in Stamps : Signed(v)'
      BY <2>1, <2>5 DEF SnapsInv, SnapsTyped, Signed
    <2>8. \A w \in Backups : Keeping(w)' /\ Spared(w)'
      BY <2>1, <2>6 DEF SnapsInv, Keeping, Spared
    <2> QED
      BY <2>1, <2>6, <2>7, <2>8 DEF SnapsInv, PublishedKept
  <1>2. ASSUME NEW s \in Stamps, Edit(s)
        PROVE  SnapsInv' /\ PublishedKept
    <2> DEFINE d == root[s]
    <2>1. UNCHANGED <<live, claims, work>> /\ d.exists /\ root \in [Stamps -> Directory]
          /\ d \in Directory /\ (d.marker = "signed" => d.manifest = d.origin)
      BY <1>2 DEF Edit, SnapsInv, SnapsTyped, Signed
    <2>2. \E e \in Directory :
            /\ root' = [root EXCEPT ![s] = e]
            /\ e.marker = "signed" => e.manifest = e.origin
            /\ s \in Completed /\ e.marker = "signed" =>
                 e.manifest \in {root[s].manifest, Empty}
            /\ (e.exists /\ e.marker # "none") \/ s \notin Completed
      <3>1. CASE \E n \in Present(root[s].files), c \in {0, None} :
                   root' = [root EXCEPT ![s].files[n] = c]
        <4>1. PICK n \in Present(root[s].files), c \in {0, None} :
                     root' = [root EXCEPT ![s].files[n] = c]
          BY <3>1
        <4> DEFINE rest == [d.files EXCEPT ![n] = c]
                   e == [d EXCEPT !.files = rest]
        <4>2. d.files \in Files /\ MaxVersion \in Nat
          BY <2>1 DEF Directory, SnapshotsAssumption
        <4>3. rest \in Files
          BY <4>2 DEF Files, Present, None, Contents
        <4>4. root' = [root EXCEPT ![s] = e]
          BY <2>1, <4>1
        <4> HIDE DEF rest
        <4>5. e \in Directory /\ e.marker = d.marker /\ e.manifest = d.manifest
              /\ e.origin = d.origin /\ e.exists = d.exists
          BY <2>1, <4>3 DEF Directory
        <4>6. s \in Completed => d.marker # "none"
          BY DEF Completed
        <4> HIDE DEF e
        <4> QED
          BY <2>1, <4>4, <4>5, <4>6
      <3>2. CASE root' = [root EXCEPT ![s].manifest = root[s].files, ![s].marker = "stale"]
        <4> DEFINE e == [d EXCEPT !.manifest = d.files, !.marker = "stale"]
        <4>1. root' = [root EXCEPT ![s] = e]
          BY <3>2
        <4>2. e \in Directory /\ e.marker = "stale" /\ e.exists = d.exists
          BY <2>1 DEF Directory
        <4> HIDE DEF e
        <4> QED
          BY <2>1, <4>1, <4>2
      <3> QED
        BY <1>2, <3>1, <3>2 DEF Edit
    <2>3. /\ \A v \in Stamps : Signed(v)'
          /\ root' \in [Stamps -> Directory]
          /\ PublishedKept
          /\ \A e \in Stamps : (\E t \in Completed : t > e) => \E t \in Completed' : t > e
      BY <2>1, <2>2, RootStep
    <2>4. SnapsTyped'
      BY <2>1, <2>3 DEF SnapsInv, SnapsTyped
    <2>5. ASSUME NEW w \in Backups
          PROVE  Keeping(w)' /\ Spared(w)'
      <3>1. Keeping(w) /\ Spared(w) /\ work[w].expired \subseteq Stamps
        BY BackupFields DEF SnapsInv
      <3>2. \A e \in work[w].expired : \E t \in Completed' : t > e
        BY <2>3, <3>1 DEF Spared
      <3> QED
        BY <2>1, <3>1, <3>2 DEF Keeping, Spared
    <2> QED
      BY <2>3, <2>4, <2>5 DEF SnapsInv
  <1> QED
    BY <1>1, <1>2 DEF SnapshotsAssumption

LEMMA SnapshotsStep ==
  ASSUME SnapshotsAssumption, SnapsInv, [SnapshotsNext]_snapVars
  PROVE  SnapsInv' /\ PublishedKept
  <1>1. CASE SnapshotsNext
    BY <1>1, CommandStep, PublishStep, PruneStep, RemoveStep, OthersStep
    DEF SnapshotsNext
  <1>2. CASE UNCHANGED snapVars
    <2>1. UNCHANGED <<live, root, claims, work>>
      BY <1>2 DEF snapVars
    <2>2. Completed' = Completed
      BY <2>1 DEF Completed
    <2> QED
      BY <2>1, <2>2 DEF SnapsInv, SnapsTyped, Keeping, Spared, Signed, PublishedKept
  <1> QED
    BY <1>1, <1>2

\* What a restore accepts was published whole under its name, a published snapshot never
\* turns into another, and the newest stays, whatever backups run, die, fail and prune
\* over one root, and whatever is edited there.
THEOREM SnapshotsStay == SnapshotsAssumption => (SnapshotsSpec => SnapshotsHold)
  <1> SUFFICES ASSUME SnapshotsAssumption
               PROVE  SnapshotsSpec => SnapshotsHold
    OBVIOUS
  <1>1. SnapshotsInit => SnapsInv
    BY InitSnaps
  <1>2. SnapsInv /\ [SnapshotsNext]_snapVars => SnapsInv'
    BY SnapshotsStep
  <1>3. SnapsInv => AcceptedWasPublished
    BY AcceptedIsWhole
  <1>4. SnapsInv /\ [SnapshotsNext]_snapVars => PublishedKept
    BY SnapshotsStep
  <1>5. AcceptedWasPublished' /\ PublishedKept => [AcceptedWasPublished' /\ PublishedKept]_snapVars
    OBVIOUS
  <1> QED
    BY <1>1, <1>2, <1>3, <1>4, <1>5, PTL DEF SnapshotsSpec, SnapshotsHold

-----------------------------------------------------------------------------
(***************************************************************************)
(* The verdicts, for any artifacts and any calibration sets. Two runs that *)
(* can be compared have the same samples with the same scores (Matched), so*)
(* every row of the one has a twin in the other; counts of rows are then   *)
(* compared by the map from a row to its twin (Fewer).                     *)
(***************************************************************************)
SameKey(row, twin) == row.id = twin.id /\ row.sample = twin.sample

Keyed(rows) == \A one, two \in rows : SameKey(one, two) => one = two

Matched(former, now) ==
  /\ \A of \in {former, now} :
       /\ IsFiniteSet(RowsOf(of)) /\ Keyed(RowsOf(of))
       /\ \A row \in RowsOf(of) : \A n \in DOMAIN row.scores : row.scores[n] \in {0, 1}
  /\ Contract(former) = Contract(now)

TwinOf(now, row) == CHOOSE twin \in RowsOf(now) : twin.id = row.id /\ twin.sample = row.sample

LEMMA RowsFinite ==
  ASSUME NEW of, IsFiniteSet(DOMAIN of.rows)
  PROVE  IsFiniteSet(RowsOf(of))
  <1> DEFINE f == [i \in DOMAIN of.rows |-> of.rows[i]]
  <1>1. f \in Surjection(DOMAIN of.rows, RowsOf(of))
    BY DEF Surjection, RowsOf
  <1> HIDE DEF f
  <1> QED
    BY <1>1, FS_Surjection

LEMMA ComparableMatch ==
  ASSUME VerdictsAssumption, NEW former \in Runs, NEW now \in Runs, Comparable(former, now)
  PROVE  Matched(former, now)
  <1>1. ASSUME NEW of \in {former, now}
        PROVE  /\ IsFiniteSet(RowsOf(of)) /\ Keyed(RowsOf(of))
               /\ \A row \in RowsOf(of) : \A n \in DOMAIN row.scores : row.scores[n] \in {0, 1}
    <2>1. IsFiniteSet(RowsOf(of))
      BY RowsFinite DEF VerdictsAssumption
    <2>2. ValidContract(of) /\ ValidScores(of)
      BY DEF Comparable
    <2>3. Keyed(RowsOf(of))
      BY <2>2 DEF ValidContract, Keyed, SameKey, RowsOf
    <2> QED
      BY <2>1, <2>2, <2>3 DEF ValidScores
  <1> QED
    BY <1>1 DEF Matched, Comparable

LEMMA MatchedTurns ==
  ASSUME NEW former, NEW now, Matched(former, now)
  PROVE  Matched(now, former)
  BY DEF Matched

LEMMA MatchedJoins ==
  ASSUME NEW former, NEW now, NEW third, Matched(former, now), Matched(former, third)
  PROVE  Matched(now, third)
  BY DEF Matched

\* A row has one twin, whose twin it is.
LEMMA TwinIs ==
  ASSUME NEW former, NEW now, Matched(former, now), NEW row \in RowsOf(former)
  PROVE  LET twin == TwinOf(now, row)
         IN  /\ twin \in RowsOf(now) /\ SameKey(row, twin)
             /\ DOMAIN twin.scores = DOMAIN row.scores
             /\ TwinOf(former, twin) = row
             /\ \A other \in RowsOf(now) : SameKey(row, other) => other = twin
  <1> DEFINE twin == TwinOf(now, row)
  <1>1. [id |-> row.id, sample |-> row.sample, names |-> DOMAIN row.scores] \in Contract(now)
    BY DEF Matched, Contract
  <1>2. PICK there \in RowsOf(now) :
          [id |-> there.id, sample |-> there.sample, names |-> DOMAIN there.scores]
            = [id |-> row.id, sample |-> row.sample, names |-> DOMAIN row.scores]
    BY <1>1 DEF Contract
  <1>3. there.id = row.id /\ there.sample = row.sample /\ DOMAIN there.scores = DOMAIN row.scores
    BY <1>2
  <1>4. twin \in RowsOf(now) /\ twin.id = row.id /\ twin.sample = row.sample
    BY <1>3 DEF TwinOf
  <1>5. Keyed(RowsOf(now)) /\ Keyed(RowsOf(former))
    BY DEF Matched
  <1>6. \A other \in RowsOf(now) : SameKey(row, other) => other = twin
    BY <1>4, <1>5 DEF Keyed, SameKey
  <1>7. there = twin
    BY <1>3, <1>6 DEF SameKey
  <1>8. TwinOf(former, twin) = row
    <2>1. \E back \in RowsOf(former) : back.id = twin.id /\ back.sample = twin.sample
      BY <1>4
    <2>2. TwinOf(former, twin) \in RowsOf(former) /\ SameKey(TwinOf(former, twin), twin)
      BY <2>1 DEF TwinOf, SameKey
    <2> QED
      BY <1>4, <1>5, <2>2 DEF Keyed, SameKey
  <1> QED
    BY <1>3, <1>4, <1>6, <1>7, <1>8 DEF SameKey

LEMMA ScoreOfTwin ==
  ASSUME NEW now, NEW row, NEW n
  PROVE  ScoreOf(now, row, n) = TwinOf(now, row).scores[n]
  BY DEF ScoreOf, TwinOf

\* If every row of A has a twin in B, B has at least as many; and if it has no more,
\* every row of B is a twin.
LEMMA Fewer ==
  ASSUME NEW A, NEW B, IsFiniteSet(B), Keyed(A), Keyed(B),
         \A row \in A : \E twin \in B : SameKey(row, twin)
  PROVE  /\ IsFiniteSet(A) /\ Cardinality(A) \in Nat /\ Cardinality(B) \in Nat
         /\ Cardinality(A) <= Cardinality(B)
         /\ Cardinality(A) >= Cardinality(B) =>
              \A twin \in B : \E row \in A : SameKey(row, twin)
  <1> DEFINE f == [row \in A |-> CHOOSE twin \in B : SameKey(row, twin)]
  <1>1. \A row \in A : f[row] \in B /\ SameKey(row, f[row])
    OBVIOUS
  <1>2. f \in [A -> B]
    BY <1>1
  <1>3. \A one, two \in A : f[one] = f[two] => one = two
    BY <1>1 DEF Keyed, SameKey
  <1> HIDE DEF f
  <1>4. f \in Injection(A, B)
    BY <1>2, <1>3 DEF Injection, IsInjective
  <1>5. /\ IsFiniteSet(A) /\ Cardinality(A) <= Cardinality(B)
        /\ Cardinality(A) = Cardinality(B) => f \in Surjection(A, B)
    BY <1>4, FS_Injection
  <1>6. Cardinality(A) \in Nat /\ Cardinality(B) \in Nat
    BY <1>5, FS_CardinalityType
  <1>7. ASSUME Cardinality(A) >= Cardinality(B)
        PROVE  \A twin \in B : \E row \in A : SameKey(row, twin)
    <2>1. f \in Surjection(A, B)
      BY <1>5, <1>6, <1>7
    <2>2. \A twin \in B : \E row \in A : f[row] = twin
      BY <2>1 DEF Surjection
    <2> QED
      BY <1>1, <2>2
  <1> QED
    BY <1>5, <1>6, <1>7

\* The rules of a run are those of the runs it can be compared with.
LEMMA SameRules ==
  ASSUME NEW former, NEW now, Matched(former, now)
  PROVE  /\ DeterministicNames(RowsOf(former)) = DeterministicNames(RowsOf(now))
         /\ IdsOf(RowsOf(former)) = IdsOf(RowsOf(now))
  <1>1. \A row \in RowsOf(former) : \E twin \in RowsOf(now) :
          DOMAIN twin.scores = DOMAIN row.scores /\ twin.id = row.id
    BY TwinIs DEF SameKey
  <1>2. \A row \in RowsOf(now) : \E twin \in RowsOf(former) :
          DOMAIN twin.scores = DOMAIN row.scores /\ twin.id = row.id
    BY TwinIs, MatchedTurns DEF SameKey
  <1>3. NamesOf(RowsOf(former)) = NamesOf(RowsOf(now))
    <2>1. \A n : n \in NamesOf(RowsOf(former)) <=>
                 \E row \in RowsOf(former) : n \in DOMAIN row.scores
      BY DEF NamesOf
    <2>2. \A n : n \in NamesOf(RowsOf(now)) <=>
                 \E row \in RowsOf(now) : n \in DOMAIN row.scores
      BY DEF NamesOf
    <2> QED
      BY <1>1, <1>2, <2>1, <2>2
  <1>4. IdsOf(RowsOf(former)) = IdsOf(RowsOf(now))
    BY <1>1, <1>2 DEF IdsOf
  <1> QED
    BY <1>3, <1>4 DEF DeterministicNames

\* By the rules of its run, a sample passes by its own rule-decided scores.
LEMMA PassedByRule ==
  ASSUME NEW rows, NEW row \in rows
  PROVE  SamplePassed(row.scores, DeterministicNames(rows)) <=> PassesByRule(row)
  <1>1. DOMAIN row.scores \subseteq NamesOf(rows)
    BY DEF NamesOf
  <1>2. DOMAIN row.scores \cap DeterministicNames(rows)
          = DOMAIN row.scores \cap (DOMAIN row.scores \ JudgedScores)
    BY <1>1 DEF DeterministicNames
  <1> QED
    BY <1>2 DEF SamplePassed, PassesByRule

\* A case is flaky when one of its samples passed and another did not.
LEMMA FlakyIs ==
  ASSUME NEW rows, IsFiniteSet(rows), NEW id, NEW rules
  PROVE  Flaky(rows, id, rules) <=>
           /\ \E row \in rows : row.id = id /\ SamplePassed(row.scores, rules)
           /\ \E row \in rows : row.id = id /\ ~SamplePassed(row.scores, rules)
  <1> DEFINE all == SamplesOf(rows, id)
             good == {r \in all : SamplePassed(r.scores, rules)}
  <1>1. all \subseteq rows /\ good \subseteq all /\ all = {r \in rows : r.id = id}
    BY DEF SamplesOf
  <1>2. IsFiniteSet(all) /\ IsFiniteSet(good)
    BY <1>1, FS_Subset
  <1>3. Cardinality(good) = 0 <=> good = {}
    BY <1>2, FS_EmptySet
  <1>4. Cardinality(good) = Cardinality(all) <=> good = all
    BY <1>1, <1>2, FS_Subset
  <1>5. Flaky(rows, id, rules) <=> Cardinality(good) # 0 /\ Cardinality(good) # Cardinality(all)
    BY DEF Flaky, PassCount
  <1>6. good # {} <=> \E row \in rows : row.id = id /\ SamplePassed(row.scores, rules)
    BY <1>1
  <1>7. good # all <=> \E row \in rows : row.id = id /\ ~SamplePassed(row.scores, rules)
    BY <1>1
  <1> QED
    BY <1>3, <1>4, <1>5, <1>6, <1>7

LEMMA RowsOfMatched ==
  ASSUME NEW former, NEW now, Matched(former, now)
  PROVE  /\ IsFiniteSet(RowsOf(former)) /\ IsFiniteSet(RowsOf(now))
         /\ Keyed(RowsOf(former)) /\ Keyed(RowsOf(now))
         /\ \A row \in RowsOf(former) : \A n \in DOMAIN row.scores : row.scores[n] \in {0, 1}
         /\ \A row \in RowsOf(now) : \A n \in DOMAIN row.scores : row.scores[n] \in {0, 1}
  BY DEF Matched

\* What passes by rule in the lower run passes in the higher one.
LEMMA Higher ==
  ASSUME NEW former, NEW now, Matched(former, now), AtMost(now, former),
         NEW row \in RowsOf(now)
  PROVE  LET twin == TwinOf(former, row)
         IN  /\ twin \in RowsOf(former) /\ SameKey(row, twin)
             /\ \A n \in DOMAIN row.scores \ JudgedScores :
                  row.scores[n] = 1 => twin.scores[n] = 1
             /\ PassesByRule(row) => PassesByRule(twin)
  <1> DEFINE twin == TwinOf(former, row)
  <1>1. twin \in RowsOf(former) /\ SameKey(row, twin) /\ DOMAIN twin.scores = DOMAIN row.scores
    BY MatchedTurns, TwinIs
  <1>2. ASSUME NEW n \in DOMAIN row.scores \ JudgedScores, row.scores[n] = 1
        PROVE  twin.scores[n] = 1
    <2>1. row.scores[n] <= twin.scores[n]
      BY ScoreOfTwin DEF AtMost
    <2>2. twin.scores[n] \in {0, 1}
      BY <1>1, RowsOfMatched
    <2> QED
      BY <1>2, <2>1, <2>2
  <1>3. PassesByRule(row) => PassesByRule(twin)
    BY <1>1, <1>2 DEF PassesByRule, SamplePassed
  <1> QED
    BY <1>1, <1>2, <1>3

PassedRows(of, rules) == {r \in RowsOf(of) : SamplePassed(r.scores, rules)}
ScoredRows(of, n) == {r \in RowsOf(of) : n \in DOMAIN r.scores /\ r.scores[n] = 1}

LEMMA KeyedPart ==
  ASSUME NEW rows, NEW part \in SUBSET rows, Keyed(rows)
  PROVE  Keyed(part)
  BY DEF Keyed

\* The counts of the lower run are at most those of the higher, and where a score has as
\* many, the same rows have it.
LEMMA CountsOf ==
  ASSUME NEW former, NEW now, Matched(former, now), AtMost(now, former)
  PROVE  LET rules == DeterministicNames(RowsOf(former))
         IN  /\ PassCount(RowsOf(now), rules) \in Nat /\ PassCount(RowsOf(former), rules) \in Nat
             /\ PassCount(RowsOf(now), rules) <= PassCount(RowsOf(former), rules)
             /\ \A n \in rules :
                  /\ ScoreSum(RowsOf(now), n) \in Nat /\ ScoreSum(RowsOf(former), n) \in Nat
                  /\ ScoreSum(RowsOf(now), n) <= ScoreSum(RowsOf(former), n)
                  /\ ScoreSum(RowsOf(now), n) >= ScoreSum(RowsOf(former), n) =>
                       \A row \in RowsOf(former) :
                         n \in DOMAIN row.scores /\ row.scores[n] = 1 =>
                           TwinOf(now, row).scores[n] = 1
  <1> DEFINE rules == DeterministicNames(RowsOf(former))
  <1>1. rules = DeterministicNames(RowsOf(now))
    BY SameRules
  <1>2. /\ PassCount(RowsOf(now), rules) = Cardinality(PassedRows(now, rules))
        /\ PassCount(RowsOf(former), rules) = Cardinality(PassedRows(former, rules))
        /\ \A n : /\ ScoreSum(RowsOf(now), n) = Cardinality(ScoredRows(now, n))
                  /\ ScoreSum(RowsOf(former), n) = Cardinality(ScoredRows(former, n))
    BY DEF PassCount, ScoreSum, PassedRows, ScoredRows
  <1>3. /\ PassedRows(now, rules) \in SUBSET RowsOf(now)
        /\ PassedRows(former, rules) \in SUBSET RowsOf(former)
        /\ \A n : /\ ScoredRows(now, n) \in SUBSET RowsOf(now)
                  /\ ScoredRows(former, n) \in SUBSET RowsOf(former)
    BY DEF PassedRows, ScoredRows
  <1>4. /\ IsFiniteSet(PassedRows(former, rules))
        /\ Keyed(PassedRows(now, rules)) /\ Keyed(PassedRows(former, rules))
        /\ \A n : /\ IsFiniteSet(ScoredRows(former, n))
                  /\ Keyed(ScoredRows(now, n)) /\ Keyed(ScoredRows(former, n))
    BY <1>3, RowsOfMatched, FS_Subset, KeyedPart
  <1>5. \A row \in PassedRows(now, rules) :
          \E twin \in PassedRows(former, rules) : SameKey(row, twin)
    <2> TAKE row \in PassedRows(now, rules)
    <2>1. row \in RowsOf(now) /\ PassesByRule(row)
      BY <1>1, PassedByRule DEF PassedRows
    <2>2. TwinOf(former, row) \in RowsOf(former) /\ SameKey(row, TwinOf(former, row))
          /\ PassesByRule(TwinOf(former, row))
      BY <2>1, Higher
    <2>3. TwinOf(former, row) \in PassedRows(former, rules)
      BY <2>2, PassedByRule DEF PassedRows
    <2> QED
      BY <2>2, <2>3
  <1>6. ASSUME NEW n \in rules
        PROVE  \A row \in ScoredRows(now, n) :
                 \E twin \in ScoredRows(former, n) : SameKey(row, twin)
    <2> TAKE row \in ScoredRows(now, n)
    <2>1. row \in RowsOf(now) /\ n \in DOMAIN row.scores \ JudgedScores /\ row.scores[n] = 1
      BY <1>6 DEF ScoredRows, DeterministicNames
    <2>2. TwinOf(former, row) \in RowsOf(former) /\ SameKey(row, TwinOf(former, row))
          /\ TwinOf(former, row).scores[n] = 1
      BY <2>1, Higher
    <2>3. DOMAIN TwinOf(former, row).scores = DOMAIN row.scores
      BY <2>1, MatchedTurns, TwinIs
    <2>4. TwinOf(former, row) \in ScoredRows(former, n)
      BY <2>1, <2>2, <2>3 DEF ScoredRows
    <2> QED
      BY <2>2, <2>4
  <1> HIDE DEF rules
  <1>7. /\ PassCount(RowsOf(now), rules) \in Nat /\ PassCount(RowsOf(former), rules) \in Nat
        /\ PassCount(RowsOf(now), rules) <= PassCount(RowsOf(former), rules)
    BY <1>2, <1>4, <1>5, Fewer
  <1>8. ASSUME NEW n \in rules
        PROVE  /\ ScoreSum(RowsOf(now), n) \in Nat /\ ScoreSum(RowsOf(former), n) \in Nat
               /\ ScoreSum(RowsOf(now), n) <= ScoreSum(RowsOf(former), n)
               /\ ScoreSum(RowsOf(now), n) >= ScoreSum(RowsOf(former), n) =>
                    \A row \in RowsOf(former) :
                      n \in DOMAIN row.scores /\ row.scores[n] = 1 =>
                        TwinOf(now, row).scores[n] = 1
    <2>1. \A row \in ScoredRows(now, n) :
            \E twin \in ScoredRows(former, n) : SameKey(row, twin)
      BY <1>6
    <2>2. /\ Cardinality(ScoredRows(now, n)) \in Nat /\ Cardinality(ScoredRows(former, n)) \in Nat
          /\ Cardinality(ScoredRows(now, n)) <= Cardinality(ScoredRows(former, n))
          /\ Cardinality(ScoredRows(now, n)) >= Cardinality(ScoredRows(former, n)) =>
               \A twin \in ScoredRows(former, n) :
                 \E row \in ScoredRows(now, n) : SameKey(row, twin)
      BY <1>4, <2>1, Fewer
    <2>3. ASSUME ScoreSum(RowsOf(now), n) >= ScoreSum(RowsOf(former), n),
                 NEW row \in RowsOf(former), n \in DOMAIN row.scores, row.scores[n] = 1
          PROVE  TwinOf(now, row).scores[n] = 1
      <3>1. row \in ScoredRows(former, n)
        BY <2>3 DEF ScoredRows
      <3>2. PICK other \in ScoredRows(now, n) : SameKey(other, row)
        BY <1>2, <2>2, <2>3, <3>1
      <3>3. other \in RowsOf(now) /\ other.scores[n] = 1 /\ SameKey(row, other)
        BY <3>2 DEF ScoredRows, SameKey
      <3>4. other = TwinOf(now, row)
        BY <3>3, TwinIs
      <3> QED
        BY <3>3, <3>4
    <2> QED
      BY <1>2, <2>2, <2>3
  <1> QED
    BY <1>7, <1>8 DEF rules

\* Runs that are the same by rule count the same, and the same cases are flaky.
LEMMA SameCounts ==
  ASSUME NEW former, NEW now, Matched(former, now), AtMost(now, former), AtMost(former, now)
  PROVE  LET rules == DeterministicNames(RowsOf(former))
         IN  /\ PassCount(RowsOf(now), rules) = PassCount(RowsOf(former), rules)
             /\ PassCount(RowsOf(former), rules) \in Nat
             /\ \A n \in rules : /\ ScoreSum(RowsOf(now), n) = ScoreSum(RowsOf(former), n)
                                 /\ ScoreSum(RowsOf(former), n) \in Nat
             /\ \A id : Flaky(RowsOf(now), id, rules) <=> Flaky(RowsOf(former), id, rules)
  <1> DEFINE rules == DeterministicNames(RowsOf(former))
  <1>1. rules = DeterministicNames(RowsOf(now)) /\ Matched(now, former)
    BY SameRules, MatchedTurns
  <1>2. /\ PassCount(RowsOf(now), rules) = PassCount(RowsOf(former), rules)
        /\ PassCount(RowsOf(former), rules) \in Nat
    <2>1. /\ PassCount(RowsOf(now), rules) \in Nat /\ PassCount(RowsOf(former), rules) \in Nat
          /\ PassCount(RowsOf(now), rules) <= PassCount(RowsOf(former), rules)
      BY CountsOf
    <2>2. PassCount(RowsOf(former), rules) <= PassCount(RowsOf(now), rules)
      BY <1>1, CountsOf
    <2> QED
      BY <2>1, <2>2
  <1>3. ASSUME NEW n \in rules
        PROVE  /\ ScoreSum(RowsOf(now), n) = ScoreSum(RowsOf(former), n)
               /\ ScoreSum(RowsOf(former), n) \in Nat
    <2>1. /\ ScoreSum(RowsOf(now), n) \in Nat /\ ScoreSum(RowsOf(former), n) \in Nat
          /\ ScoreSum(RowsOf(now), n) <= ScoreSum(RowsOf(former), n)
      BY <1>3, CountsOf
    <2>2. ScoreSum(RowsOf(former), n) <= ScoreSum(RowsOf(now), n)
      BY <1>1, <1>3, CountsOf
    <2> QED
      BY <2>1, <2>2
  <1>4. ASSUME NEW row \in RowsOf(now)
        PROVE  LET twin == TwinOf(former, row)
               IN  twin \in RowsOf(former) /\ twin.id = row.id
                   /\ (PassesByRule(row) <=> PassesByRule(twin))
    <2>1. TwinOf(former, row) \in RowsOf(former) /\ SameKey(row, TwinOf(former, row))
          /\ TwinOf(now, TwinOf(former, row)) = row
      BY <1>1, TwinIs
    <2>2. PassesByRule(row) => PassesByRule(TwinOf(former, row))
      BY Higher
    <2>3. PassesByRule(TwinOf(former, row)) => PassesByRule(row)
      BY <1>1, <2>1, Higher
    <2> QED
      BY <2>1, <2>2, <2>3 DEF SameKey
  <1>5. ASSUME NEW row \in RowsOf(former)
        PROVE  LET twin == TwinOf(now, row)
               IN  twin \in RowsOf(now) /\ twin.id = row.id
                   /\ (PassesByRule(row) <=> PassesByRule(twin))
    <2>1. TwinOf(now, row) \in RowsOf(now) /\ SameKey(row, TwinOf(now, row))
          /\ TwinOf(former, TwinOf(now, row)) = row
      BY TwinIs
    <2>2. PassesByRule(row) => PassesByRule(TwinOf(now, row))
      BY <1>1, Higher
    <2>3. PassesByRule(TwinOf(now, row)) => PassesByRule(row)
      BY <2>1, Higher
    <2> QED
      BY <2>1, <2>2, <2>3 DEF SameKey
  <1>6. ASSUME NEW id
        PROVE  Flaky(RowsOf(now), id, rules) <=> Flaky(RowsOf(former), id, rules)
    <2>1. Flaky(RowsOf(now), id, rules) <=>
            /\ \E row \in RowsOf(now) : row.id = id /\ PassesByRule(row)
            /\ \E row \in RowsOf(now) : row.id = id /\ ~PassesByRule(row)
      BY <1>1, FlakyIs, RowsOfMatched, PassedByRule
    <2>2. Flaky(RowsOf(former), id, rules) <=>
            /\ \E row \in RowsOf(former) : row.id = id /\ PassesByRule(row)
            /\ \E row \in RowsOf(former) : row.id = id /\ ~PassesByRule(row)
      BY FlakyIs, RowsOfMatched, PassedByRule
    <2> QED
      BY <1>4, <1>5, <2>1, <2>2
  <1> QED
    BY <1>2, <1>3, <1>6

\* A run that is nowhere better has the verdict exactly when it is nowhere worse.
LEMMA WorseIsSeen ==
  ASSUME NEW former, NEW now, Matched(former, now), AtMost(now, former)
  PROVE  Verdict(former, now) <=> AtMost(former, now)
  <1> DEFINE rules == DeterministicNames(RowsOf(former))
  <1>1. ASSUME Verdict(former, now)
        PROVE  AtMost(former, now)
    <2> SUFFICES ASSUME NEW row \in RowsOf(former), NEW n \in DOMAIN row.scores \ JudgedScores
                 PROVE  row.scores[n] <= ScoreOf(now, row, n)
      BY DEF AtMost
    <2>1. n \in rules
      BY DEF DeterministicNames, NamesOf
    <2>2. ScoreSum(RowsOf(now), n) >= ScoreSum(RowsOf(former), n)
      BY <1>1, <2>1 DEF Verdict
    <2>3. row.scores[n] = 1 => TwinOf(now, row).scores[n] = 1
      BY <2>1, <2>2, CountsOf
    <2>4. row.scores[n] \in {0, 1} /\ TwinOf(now, row).scores[n] \in {0, 1}
      BY TwinIs, RowsOfMatched
    <2> QED
      BY <2>3, <2>4, ScoreOfTwin
  <1>2. ASSUME AtMost(former, now)
        PROVE  Verdict(former, now)
    <2>1. /\ PassCount(RowsOf(now), rules) = PassCount(RowsOf(former), rules)
          /\ PassCount(RowsOf(former), rules) \in Nat
          /\ \A n \in rules : /\ ScoreSum(RowsOf(now), n) = ScoreSum(RowsOf(former), n)
                              /\ ScoreSum(RowsOf(former), n) \in Nat
          /\ \A id : Flaky(RowsOf(now), id, rules) <=> Flaky(RowsOf(former), id, rules)
      BY <1>2, SameCounts
    <2> HIDE DEF rules
    <2>2. NewlyFlaky(RowsOf(former), RowsOf(now), rules) = {}
      BY <2>1 DEF NewlyFlaky
    <2>3. /\ PassCount(RowsOf(now), rules) >= PassCount(RowsOf(former), rules)
          /\ \A n \in rules : ScoreSum(RowsOf(now), n) >= ScoreSum(RowsOf(former), n)
      BY <2>1
    <2> QED
      BY <2>2, <2>3 DEF Verdict, rules
  <1> QED
    BY <1>1, <1>2

\* A verdict rests on what a rule decides alone.
LEMMA RulesDecide ==
  ASSUME NEW former, NEW now, NEW third, Matched(former, now), Matched(former, third),
         SameByRule(third, now)
  PROVE  Verdict(former, third) = Verdict(former, now)
  <1> DEFINE rules == DeterministicNames(RowsOf(former))
  <1>1. Matched(now, third) /\ AtMost(third, now) /\ AtMost(now, third)
    BY MatchedJoins DEF SameByRule
  <1>2. rules = DeterministicNames(RowsOf(now)) /\ IdsOf(RowsOf(now)) = IdsOf(RowsOf(third))
    BY <1>1, SameRules
  <1>3. /\ PassCount(RowsOf(third), rules) = PassCount(RowsOf(now), rules)
        /\ \A n \in rules : ScoreSum(RowsOf(third), n) = ScoreSum(RowsOf(now), n)
        /\ \A id : Flaky(RowsOf(third), id, rules) <=> Flaky(RowsOf(now), id, rules)
    BY <1>1, <1>2, SameCounts
  <1> HIDE DEF rules
  <1>4. NewlyFlaky(RowsOf(former), RowsOf(third), rules)
          = NewlyFlaky(RowsOf(former), RowsOf(now), rules)
    BY <1>2, <1>3 DEF NewlyFlaky
  <1>5. (\A n \in rules : ScoreSum(RowsOf(third), n) >= ScoreSum(RowsOf(former), n))
        = (\A n \in rules : ScoreSum(RowsOf(now), n) >= ScoreSum(RowsOf(former), n))
    BY <1>3
  <1> QED
    BY <1>3, <1>4, <1>5 DEF Verdict, rules

\* A case that always passed is kept in all of its samples or lost in all of them.
LEMMA NoTossedCoin ==
  ASSUME NEW former, NEW now, Matched(former, now), Verdict(former, now), NEW id,
         id \in IdsOf(RowsOf(former)),
         \A r \in SamplesOf(RowsOf(former), id) : PassesByRule(r)
  PROVE  Lost(former, now, id) \in {{}, {r.sample : r \in SamplesOf(RowsOf(former), id)}}
  <1> DEFINE rules == DeterministicNames(RowsOf(former))
             samples == SamplesOf(RowsOf(former), id)
  <1>1. rules = DeterministicNames(RowsOf(now)) /\ id \in IdsOf(RowsOf(now))
    BY SameRules
  <1>2. ~Flaky(RowsOf(former), id, rules)
    BY FlakyIs, RowsOfMatched, PassedByRule DEF SamplesOf
  <1>3. ~Flaky(RowsOf(now), id, rules)
    BY <1>1, <1>2 DEF Verdict, NewlyFlaky
  <1>4. \/ \A row \in RowsOf(now) : row.id = id => ~PassesByRule(row)
        \/ \A row \in RowsOf(now) : row.id = id => PassesByRule(row)
    BY <1>1, <1>3, FlakyIs, RowsOfMatched, PassedByRule
  <1>5. ASSUME NEW r \in samples
        PROVE  LET twin == TwinOf(now, r)
               IN  /\ twin \in RowsOf(now) /\ twin.id = id
                   /\ (\E n \in DOMAIN r.scores \ JudgedScores : ScoreOf(now, r, n) = 0)
                        <=> ~PassesByRule(twin)
    <2> DEFINE twin == TwinOf(now, r)
    <2>1. r \in RowsOf(former) /\ r.id = id /\ PassesByRule(r)
      BY DEF SamplesOf
    <2>2. twin \in RowsOf(now) /\ twin.id = id /\ DOMAIN twin.scores = DOMAIN r.scores
      BY <2>1, TwinIs DEF SameKey
    <2>3. \A n \in DOMAIN twin.scores : twin.scores[n] \in {0, 1}
      BY <2>2, RowsOfMatched
    <2>4. DOMAIN r.scores \ JudgedScores # {}
      BY <2>1 DEF PassesByRule, SamplePassed
    <2>5. PassesByRule(twin) <=> \A n \in DOMAIN r.scores \ JudgedScores : twin.scores[n] = 1
      BY <2>2, <2>4 DEF PassesByRule, SamplePassed
    <2>6. \A n : ScoreOf(now, r, n) = twin.scores[n]
      BY ScoreOfTwin
    <2> HIDE DEF twin
    <2>7. (\E n \in DOMAIN r.scores \ JudgedScores : twin.scores[n] = 0) <=> ~PassesByRule(twin)
      BY <2>2, <2>3, <2>5
    <2> QED
      BY <2>2, <2>6, <2>7 DEF twin
  <1>6. Lost(former, now, id) =
          {r.sample : r \in {r \in samples : ~PassesByRule(TwinOf(now, r))}}
    <2>1. {r \in samples : /\ PassesByRule(r)
                           /\ \E n \in DOMAIN r.scores \ JudgedScores : ScoreOf(now, r, n) = 0}
            = {r \in samples : ~PassesByRule(TwinOf(now, r))}
      BY <1>5
    <2> QED
      BY <2>1 DEF Lost
  <1>7. \/ {r \in samples : ~PassesByRule(TwinOf(now, r))} = samples
        \/ {r \in samples : ~PassesByRule(TwinOf(now, r))} = {}
    BY <1>4, <1>5
  <1> QED
    BY <1>6, <1>7

\* The sizes of the four parts two subsets cut a set into.
LEMMA Quarters ==
  ASSUME NEW D, IsFiniteSet(D), NEW P \in SUBSET D, NEW Q \in SUBSET D
  PROVE  /\ Cardinality(P \cap Q) \in Nat /\ Cardinality(P \ Q) \in Nat
         /\ Cardinality(Q \ P) \in Nat /\ Cardinality((D \ P) \ Q) \in Nat
         /\ Cardinality(P \cap Q) + Cardinality(P \ Q) = Cardinality(P)
         /\ Cardinality(Q \ P) + Cardinality((D \ P) \ Q) = Cardinality(D) - Cardinality(P)
  <1> DEFINE N == D \ P
  <1>1. /\ IsFiniteSet(P) /\ IsFiniteSet(N) /\ IsFiniteSet(P \cap Q) /\ IsFiniteSet(P \ Q)
        /\ IsFiniteSet(Q \ P) /\ IsFiniteSet(N \ Q)
    BY FS_Subset
  <1>2. /\ Cardinality(P) \in Nat /\ Cardinality(N) \in Nat /\ Cardinality(P \cap Q) \in Nat
        /\ Cardinality(P \ Q) \in Nat /\ Cardinality(Q \ P) \in Nat
        /\ Cardinality(N \ Q) \in Nat /\ Cardinality({}) = 0
    BY <1>1, FS_CardinalityType, FS_EmptySet
  <1>3. /\ Cardinality((P \cap Q) \cup (P \ Q))
             = Cardinality(P \cap Q) + Cardinality(P \ Q) - Cardinality((P \cap Q) \cap (P \ Q))
        /\ Cardinality((Q \ P) \cup (N \ Q))
             = Cardinality(Q \ P) + Cardinality(N \ Q) - Cardinality((Q \ P) \cap (N \ Q))
        /\ Cardinality(P \cup N)
             = Cardinality(P) + Cardinality(N) - Cardinality(P \cap N)
    BY <1>1, FS_Union
  <1>4. /\ (P \cap Q) \cup (P \ Q) = P /\ (P \cap Q) \cap (P \ Q) = {}
        /\ (Q \ P) \cup (N \ Q) = N /\ (Q \ P) \cap (N \ Q) = {}
        /\ P \cup N = D /\ P \cap N = {}
    OBVIOUS
  <1> HIDE DEF N
  <1>5. /\ Cardinality(P) = Cardinality(P \cap Q) + Cardinality(P \ Q)
        /\ Cardinality(N) = Cardinality(Q \ P) + Cardinality(N \ Q)
        /\ Cardinality(D) = Cardinality(P) + Cardinality(N)
    <2>1. Cardinality(P) = Cardinality(P \cap Q) + Cardinality(P \ Q) - Cardinality({})
      BY <1>3, <1>4, Zenon
    <2>2. Cardinality(N) = Cardinality(Q \ P) + Cardinality(N \ Q) - Cardinality({})
      BY <1>3, <1>4, Zenon
    <2>3. Cardinality(D) = Cardinality(P) + Cardinality(N) - Cardinality({})
      BY <1>3, <1>4, Zenon
    <2> QED
      BY <1>2, <2>1, <2>2, <2>3
  <1> QED
    BY <1>2, <1>5 DEF N

(***************************************************************************)
(* What a comparison and a calibration hold on to.                         *)
(***************************************************************************)
Compared ==
  \/ comparison = <<>>
  \/ \E former, now \in Runs : \E accepted \in BOOLEAN :
       /\ accepted => Comparable(former, now)
       /\ comparison = <<[accepted |-> accepted, baseline |-> former, candidate |-> now,
                          verdict |-> accepted /\ Verdict(former, now)]>>

Calibrated ==
  /\ calibration \in [labels : Labels \cup {<<>>}, predicted : Seq(BOOLEAN),
                      state : {"none", "judging", "refused"}]
  /\ Len(calibration.predicted) <= Len(calibration.labels)

LEMMA LabelsAre ==
  ASSUME VerdictsAssumption, NEW labels \in Labels \cup {<<>>}
  PROVE  /\ Len(labels) \in Nat /\ DOMAIN labels = 1 .. Len(labels)
         /\ \A i \in DOMAIN labels : labels[i].expected \in BOOLEAN
  <1>1. CASE labels \in Labels
    BY <1>1 DEF VerdictsAssumption
  <1>2. CASE labels = <<>>
    BY <1>2
  <1> QED
    BY <1>1, <1>2

LEMMA VerdictsBegin ==
  ASSUME VerdictsInit
  PROVE  Compared /\ Calibrated
  BY DEF VerdictsInit, Compared, Calibrated

LEMMA ComparedStays ==
  ASSUME Compared, [VerdictsNext]_verdictVars
  PROVE  Compared'
  <1>1. CASE CompareRuns
    <2>1. PICK former, now \in Runs :
            LET accepted == /\ command = "compare-prompts" => PromptComparable(former, now)
                            /\ Comparable(former, now)
            IN  comparison' = <<[accepted |-> accepted, baseline |-> former, candidate |-> now,
                                 verdict |-> accepted /\ Verdict(former, now)]>>
      BY <1>1 DEF CompareRuns
    <2> DEFINE accepted == /\ command = "compare-prompts" => PromptComparable(former, now)
                           /\ Comparable(former, now)
    <2>2. accepted \in BOOLEAN /\ (accepted => Comparable(former, now))
      OBVIOUS
    <2>3. comparison' = <<[accepted |-> accepted, baseline |-> former, candidate |-> now,
                           verdict |-> accepted /\ Verdict(former, now)]>>
      BY <2>1
    <2> HIDE DEF accepted
    <2>4. \E a \in BOOLEAN :
            /\ a => Comparable(former, now)
            /\ comparison' = <<[accepted |-> a, baseline |-> former, candidate |-> now,
                                verdict |-> a /\ Verdict(former, now)]>>
      BY <2>2, <2>3
    <2> QED
      BY <2>4 DEF Compared
  <1>2. CASE UNCHANGED comparison
    BY <1>2 DEF Compared
  <1> QED
    BY <1>1, <1>2 DEF VerdictsNext, LoadCalibrationSet, JudgeCase, VerdictsDone, verdictVars

LEMMA CalibratedStays ==
  ASSUME VerdictsAssumption, Calibrated, [VerdictsNext]_verdictVars
  PROVE  Calibrated'
  <1>1. CASE LoadCalibrationSet
    <2>1. PICK labels \in Labels :
            calibration' = [labels |-> labels, predicted |-> <<>>,
                            state |-> IF ValidLabels(labels) THEN "judging" ELSE "refused"]
      BY <1>1 DEF LoadCalibrationSet
    <2>2. Len(labels) \in Nat
      BY LabelsAre
    <2> QED
      BY <2>1, <2>2 DEF Calibrated
  <1>2. CASE JudgeCase
    <2> DEFINE labels == calibration.labels
               said == calibration.predicted
    <2>1. /\ Len(labels) \in Nat /\ said \in Seq(BOOLEAN) /\ Len(said) < Len(labels)
          /\ calibration.state = "judging"
      BY <1>2, LabelsAre DEF JudgeCase, Calibrated
    <2>2. CASE calibration' = [calibration EXCEPT !.state = "refused"]
      BY <2>1, <2>2 DEF Calibrated
    <2>3. ASSUME NEW pass \in BOOLEAN,
                 calibration' = [calibration EXCEPT !.predicted = Append(@, pass)]
          PROVE  Calibrated'
      <3>1. Append(said, pass) \in Seq(BOOLEAN) /\ Len(Append(said, pass)) = Len(said) + 1
        BY <2>1
      <3>2. /\ calibration'.labels = labels /\ calibration'.predicted = Append(said, pass)
            /\ calibration' \in [labels : Labels \cup {<<>>}, predicted : Seq(BOOLEAN),
                                 state : {"none", "judging", "refused"}]
        BY <2>3, <3>1 DEF Calibrated
      <3> QED
        BY <2>1, <3>1, <3>2 DEF Calibrated
    <2> QED
      BY <1>2, <2>2, <2>3 DEF JudgeCase
  <1>3. CASE UNCHANGED calibration
    BY <1>3 DEF Calibrated
  <1> QED
    BY <1>1, <1>2, <1>3 DEF VerdictsNext, CompareRuns, VerdictsDone, verdictVars

LEMMA SoundComparison ==
  ASSUME VerdictsAssumption, Compared
  PROVE  ComparisonIsSound
  <1>1. CASE comparison = <<>>
    BY <1>1 DEF ComparisonIsSound
  <1>2. ASSUME NEW former \in Runs, NEW now \in Runs, NEW accepted \in BOOLEAN,
               accepted => Comparable(former, now),
               comparison = <<[accepted |-> accepted, baseline |-> former, candidate |-> now,
                               verdict |-> accepted /\ Verdict(former, now)]>>
        PROVE  ComparisonIsSound
    <2>1. /\ DOMAIN comparison = {1}
          /\ comparison[1].baseline = former /\ comparison[1].candidate = now
          /\ comparison[1].accepted = accepted
          /\ comparison[1].verdict = (accepted /\ Verdict(former, now))
      BY <1>2
    <2>2. CASE ~accepted
      BY <2>1, <2>2 DEF ComparisonIsSound
    <2>3. CASE accepted
      <3>1. Matched(former, now)
        BY <1>2, <2>3, ComparableMatch
      <3>2. (comparison[1].verdict <=> Verdict(former, now))
            /\ comparison[1].verdict \in BOOLEAN
        BY <2>1, <2>3
      <3>3. AtMost(now, former) => (comparison[1].verdict <=> AtMost(former, now))
        BY <3>1, <3>2, WorseIsSeen
      <3>4. comparison[1].verdict =>
              \A id \in IdsOf(RowsOf(former)) :
                (\A r \in SamplesOf(RowsOf(former), id) : PassesByRule(r)) =>
                  Lost(former, now, id)
                    \in {{}, {r.sample : r \in SamplesOf(RowsOf(former), id)}}
        BY <3>1, <3>2, NoTossedCoin
      <3>5. ASSUME NEW third \in Runs, Comparable(former, third), SameByRule(third, now)
            PROVE  Verdict(former, third) = comparison[1].verdict
        <4>1. Matched(former, third)
          BY <3>5, ComparableMatch
        <4>2. Verdict(former, third) = Verdict(former, now)
          BY <3>1, <3>5, <4>1, RulesDecide
        <4> QED
          BY <2>1, <2>3, <4>2 DEF Verdict
      <3> QED
        BY <2>1, <3>3, <3>4, <3>5 DEF ComparisonIsSound
    <2> QED
      BY <2>2, <2>3
  <1> QED
    BY <1>1, <1>2 DEF Compared

LEMMA EarnedAgreement ==
  ASSUME VerdictsAssumption, Calibrated
  PROVE  AgreementIsEarned
  <1> SUFFICES ASSUME Judged(calibration)
               PROVE  /\ Matches(calibration) + FalsePass(calibration) + FalseFail(calibration)
                           = Len(calibration.labels)
                      /\ Matches(calibration) > MajorityBaseline(calibration) =>
                           \A pass \in BOOLEAN : \E i \in DOMAIN calibration.labels :
                             /\ calibration.labels[i].expected = pass
                             /\ calibration.predicted[i] = pass
    BY DEF AgreementIsEarned
  <1> DEFINE c == calibration
             n == Len(c.labels)
             D == 1 .. n
             P == {i \in D : c.labels[i].expected = TRUE}
             Q == {i \in D : c.predicted[i] = TRUE}
  <1>1. /\ n \in Nat /\ DOMAIN c.labels = D
        /\ \A i \in D : c.labels[i].expected \in BOOLEAN
    BY LabelsAre DEF Calibrated
  <1>2. DOMAIN c.predicted = D /\ \A i \in D : c.predicted[i] \in BOOLEAN
    BY DEF Calibrated, Judged
  <1>3. IsFiniteSet(D) /\ Cardinality(D) = n
    BY <1>1, Interval
  <1>4. /\ {i \in DOMAIN c.predicted : c.labels[i].expected = TRUE /\ c.predicted[i] = TRUE}
             = P \cap Q
        /\ {i \in DOMAIN c.predicted : c.labels[i].expected = FALSE /\ c.predicted[i] = FALSE}
             = (D \ P) \ Q
        /\ {i \in DOMAIN c.predicted : c.labels[i].expected = FALSE /\ c.predicted[i] = TRUE}
             = Q \ P
        /\ {i \in DOMAIN c.predicted : c.labels[i].expected = TRUE /\ c.predicted[i] = FALSE}
             = P \ Q
        /\ {i \in DOMAIN c.labels : c.labels[i].expected} = P
    BY <1>1, <1>2
  <1>5. /\ Matches(c) = Cardinality(P \cap Q) + Cardinality((D \ P) \ Q)
        /\ FalsePass(c) = Cardinality(Q \ P)
        /\ FalseFail(c) = Cardinality(P \ Q)
        /\ MajorityBaseline(c) = IF Cardinality(P) > n - Cardinality(P)
                                   THEN Cardinality(P) ELSE n - Cardinality(P)
    BY <1>4 DEF Matches, FalsePass, FalseFail, Answered, MajorityBaseline
  <1>6. P \in SUBSET D /\ Q \in SUBSET D
    OBVIOUS
  <1>7. /\ P \cap Q = {} => \A i \in D : ~(c.labels[i].expected = TRUE /\ c.predicted[i] = TRUE)
        /\ P \cap Q # {} => \E i \in D : c.labels[i].expected = TRUE /\ c.predicted[i] = TRUE
        /\ (D \ P) \ Q # {} =>
             \E i \in D : c.labels[i].expected = FALSE /\ c.predicted[i] = FALSE
    BY <1>1, <1>2
  <1> HIDE DEF P, Q, D, n, c
  <1>8. /\ Cardinality(P \cap Q) \in Nat /\ Cardinality(P \ Q) \in Nat
        /\ Cardinality(Q \ P) \in Nat /\ Cardinality((D \ P) \ Q) \in Nat
        /\ Cardinality(P \cap Q) + Cardinality(P \ Q) = Cardinality(P)
        /\ Cardinality(Q \ P) + Cardinality((D \ P) \ Q) = n - Cardinality(P)
    BY <1>3, <1>6, Quarters
  <1>9. Matches(c) + FalsePass(c) + FalseFail(c) = n
    BY <1>1, <1>5, <1>8
  <1>10. ASSUME Matches(c) > MajorityBaseline(c)
         PROVE  P \cap Q # {} /\ (D \ P) \ Q # {}
    <2>1. Cardinality({}) = 0
      BY FS_EmptySet
    <2>2. Cardinality(P \cap Q) # 0 /\ Cardinality((D \ P) \ Q) # 0
      BY <1>1, <1>5, <1>8, <1>10
    <2> QED
      BY <2>1, <2>2
  <1>11. Matches(c) > MajorityBaseline(c) =>
           \A pass \in BOOLEAN : \E i \in D :
             c.labels[i].expected = pass /\ c.predicted[i] = pass
    BY <1>7, <1>10
  <1> QED
    BY <1>1, <1>9, <1>11 DEF c, n

\* VerdictsAreEarned, for any artifacts, scores and calibration sets: whatever two runs a
\* comparison accepted, its deterministic_pass is what their rows say, and a calibration
\* that beats its baseline was right about a good answer and about a bad one
\* (evals/comparison.go: CompareRuns; evals/calibration.go: MajorityBaseline).
THEOREM EarnedVerdicts == VerdictsAssumption => (VerdictsSpec => []VerdictsAreEarned)
  <1> SUFFICES ASSUME VerdictsAssumption
               PROVE  VerdictsSpec => []VerdictsAreEarned
    OBVIOUS
  <1>1. VerdictsInit => Compared /\ Calibrated
    BY VerdictsBegin
  <1>2. (Compared /\ Calibrated) /\ [VerdictsNext]_verdictVars => (Compared /\ Calibrated)'
    BY ComparedStays, CalibratedStays
  <1>3. Compared /\ Calibrated => VerdictsAreEarned
    BY SoundComparison, EarnedAgreement DEF VerdictsAreEarned
  <1> QED
    BY <1>1, <1>2, <1>3, PTL DEF VerdictsSpec

=============================================================================
