---------------------------- MODULE EvalVerdicts ----------------------------
(***************************************************************************)
(* What the evaluation harness concludes from measurements: whether a      *)
(* candidate run is as good as a baseline (evals/comparison.go) and how    *)
(* often a judge agrees with people (evals/calibration.go).                *)
(*                                                                         *)
(* An artifact is [source, model, transport, evalset, rows]; a row is      *)
(* [id, sample, passed, scores], a score 0 or 1 by name. Rates are folded  *)
(* over the rows of a run, so comparing two of them is comparing products. *)
(*                                                                         *)
(* A definition Name_Fault is Name as a plausible slip would have left it;  *)
(* nothing uses it but a check that some property notices the slip.        *)
(***************************************************************************)
EXTENDS Integers, Sequences, FiniteSets, SequencesExt

CONSTANTS
  Runs,          \* artifacts a comparison may be asked about
  JudgedScores,  \* names of the scores a model decides
  Labels,        \* calibration sets: sequences of [id, category, expected]
  MinLabels      \* the smallest calibration set, 12 in the code

VARIABLES
  command,     \* "compare", "compare-prompts" or "calibrate"
  comparison,  \* [accepted, baseline, candidate, verdict], <<>> before it
  calibration  \* [labels, predicted, state]

\* Artifacts have rows, and the cases of a calibration set a verdict of people each.
VerdictsAssumption ==
  /\ \A run \in Runs : IsFiniteSet(DOMAIN run.rows)
  /\ \A labels \in Labels :
       /\ Len(labels) \in Nat /\ DOMAIN labels = 1 .. Len(labels)
       /\ \A i \in DOMAIN labels : labels[i].expected \in BOOLEAN

verdictVars == <<command, comparison, calibration>>

RowsOf(run) == {run.rows[i] : i \in DOMAIN run.rows}
SamplesOf(rows, id) == {r \in rows : r.id = id}
IdsOf(rows) == {r.id : r \in rows}
NamesOf(rows) == UNION {DOMAIN r.scores : r \in rows}

(***************************************************************************)
(* Comparison                                                              *)
(***************************************************************************)
CleanRevision(source) == source.revision # "" /\ ~source.dirty

ValidIdentity(run) ==
  /\ run.source.revision # ""
  /\ run.model # "" /\ run.evalset # ""
  /\ run.transport \in {"rest", "a2a"}

\* Every row is scored, and its flag says what its scores say.
ValidScores(run) ==
  /\ run.rows # <<>>
  /\ \A r \in RowsOf(run) :
       /\ DOMAIN r.scores # {}
       /\ \A n \in DOMAIN r.scores : r.scores[n] \in {0, 1}
       /\ r.passed <=> \A n \in DOMAIN r.scores : r.scores[n] = 1

\* A case sample occurs once.
ValidContract(run) ==
  /\ \A r \in RowsOf(run) : r.id # "" /\ r.sample >= 1
  /\ \A i, j \in DOMAIN run.rows :
       i # j => \/ run.rows[i].id # run.rows[j].id
                \/ run.rows[i].sample # run.rows[j].sample

\* Which scores which sample carries.
Contract(run) == {[id |-> r.id, sample |-> r.sample, names |-> DOMAIN r.scores] : r \in RowsOf(run)}

Comparable(baseline, candidate) ==
  /\ \A run \in {baseline, candidate} :
       ValidIdentity(run) /\ ValidScores(run) /\ ValidContract(run)
  /\ baseline.evalset = candidate.evalset
  /\ Contract(baseline) = Contract(candidate)

\* A prompt comparison sets two clean commits side by side, all else the same.
PromptComparable(baseline, candidate) ==
  /\ CleanRevision(baseline.source) /\ CleanRevision(candidate.source)
  /\ baseline.source.revision # candidate.source.revision
  /\ baseline.model = candidate.model
  /\ baseline.transport = candidate.transport

\* Every selected score passed, and one was selected.
SamplePassed(scores, selected) ==
  LET names == DOMAIN scores \cap selected
  IN  names # {} /\ \A n \in names : scores[n] = 1

DeterministicNames(rows) == NamesOf(rows) \ JudgedScores

PassCount(rows, selected) == Cardinality({r \in rows : SamplePassed(r.scores, selected)})

ScoreSum(rows, name) == Cardinality({r \in rows : name \in DOMAIN r.scores /\ r.scores[name] = 1})

\* Some samples of the case passed and some did not.
Flaky(rows, id, selected) ==
  PassCount(SamplesOf(rows, id), selected) \notin {0, Cardinality(SamplesOf(rows, id))}

NewlyFlaky(before, after, selected) ==
  {id \in IdsOf(before) \cap IdsOf(after) :
     ~Flaky(before, id, selected) /\ Flaky(after, id, selected)}

Verdict_RateAlone(baseline, candidate) ==
  LET rules == DeterministicNames(RowsOf(baseline))
  IN  PassCount(RowsOf(candidate), rules) >= PassCount(RowsOf(baseline), rules)

\* deterministic_pass: no rate fell that a rule decides, and no case became a coin toss.
Verdict(baseline, candidate) ==
  LET before == RowsOf(baseline)
      after == RowsOf(candidate)
      rules == DeterministicNames(before)
  IN  /\ PassCount(after, rules) >= PassCount(before, rules)
      /\ \A n \in rules : ScoreSum(after, n) >= ScoreSum(before, n)
      /\ NewlyFlaky(before, after, rules) = {}

CompareRuns ==
  /\ command # "calibrate" /\ comparison = <<>>
  /\ \E baseline, candidate \in Runs :
       LET accepted ==
             /\ command = "compare-prompts" => PromptComparable(baseline, candidate)
             /\ Comparable(baseline, candidate)
       IN  comparison' = <<[accepted |-> accepted, baseline |-> baseline, candidate |-> candidate,
                            verdict |-> accepted /\ Verdict(baseline, candidate)]>>
  /\ UNCHANGED <<command, calibration>>

(***************************************************************************)
(* Calibration                                                             *)
(***************************************************************************)
Categories == {"good", "bad", "hallucinated"}

Labelled(labels, category) == {i \in DOMAIN labels : labels[i].category = category}

ValidLabels(labels) ==
  /\ Len(labels) >= MinLabels
  /\ \A i, j \in DOMAIN labels : i # j => labels[i].id # labels[j].id
  /\ \A c, d \in Categories : Cardinality(Labelled(labels, c)) = Cardinality(Labelled(labels, d))
  /\ Labelled(labels, "good") # {}

LoadCalibrationSet ==
  /\ command = "calibrate" /\ calibration.state = "none"
  /\ \E labels \in Labels :
       calibration' = [labels |-> labels, predicted |-> <<>>,
                       state |-> IF ValidLabels(labels) THEN "judging" ELSE "refused"]
  /\ UNCHANGED <<command, comparison>>

\* The judge answers about the next case; an error of its is an error of the whole.
JudgeCase ==
  /\ calibration.state = "judging"
  /\ Len(calibration.predicted) < Len(calibration.labels)
  /\ \/ \E pass \in BOOLEAN :
          calibration' = [calibration EXCEPT !.predicted = Append(@, pass)]
     \/ calibration' = [calibration EXCEPT !.state = "refused"]
  /\ UNCHANGED <<command, comparison>>

Answered(c, expected, predicted) ==
  Cardinality({i \in DOMAIN c.predicted :
                 c.labels[i].expected = expected /\ c.predicted[i] = predicted})

Matches(c) == Answered(c, TRUE, TRUE) + Answered(c, FALSE, FALSE)
FalsePass(c) == Answered(c, FALSE, TRUE)
FalseFail(c) == Answered(c, TRUE, FALSE)

\* What a judge that always answers the same would match.
MajorityBaseline(c) ==
  LET passes == Cardinality({i \in DOMAIN c.labels : c.labels[i].expected})
      fails == Len(c.labels) - passes
  IN  IF passes > fails THEN passes ELSE fails

Judged(c) == c.state = "judging" /\ Len(c.predicted) = Len(c.labels)

(***************************************************************************)
VerdictsInit ==
  /\ command \in {"compare", "compare-prompts", "calibrate"}
  /\ comparison = <<>>
  /\ calibration = [labels |-> <<>>, predicted |-> <<>>, state |-> "none"]

VerdictsDone ==
  /\ comparison # <<>> \/ calibration.state = "refused" \/ Judged(calibration)
  /\ UNCHANGED verdictVars

VerdictsNext == CompareRuns \/ LoadCalibrationSet \/ JudgeCase \/ VerdictsDone

VerdictsSpec == VerdictsInit /\ [][VerdictsNext]_verdictVars

(***************************************************************************)
(* Properties                                                              *)
(***************************************************************************)
ScoreOf(run, row, name) ==
  (CHOOSE r \in RowsOf(run) : r.id = row.id /\ r.sample = row.sample).scores[name]

\* In every sample and every score a rule decides, the one run is at most the other.
AtMost(run, other) ==
  \A r \in RowsOf(run) : \A n \in DOMAIN r.scores \ JudgedScores :
    r.scores[n] <= ScoreOf(other, r, n)

SameByRule(run, other) ==
  Contract(run) = Contract(other) /\ AtMost(run, other) /\ AtMost(other, run)

PassesByRule(row) == SamplePassed(row.scores, DOMAIN row.scores \ JudgedScores)

\* The samples of a case by which the one run passed and the other does not.
Lost(run, other, id) ==
  {r.sample : r \in {r \in SamplesOf(RowsOf(run), id) :
                       /\ PassesByRule(r)
                       /\ \E n \in DOMAIN r.scores \ JudgedScores : ScoreOf(other, r, n) = 0}}

\* What deterministic_pass means: a candidate that is nowhere better and somewhere
\* worse never has it; a candidate that changed nothing a rule decides always has
\* it; what a model judged never moves it; and a case that always passed is not lost
\* in some of its samples, whatever others gained (comparison.go: CompareRuns, "only
\* a rule-decided score may fail the comparison", "a case that became a coin toss by
\* rule is a regression even when the rate held").
ComparisonIsSound ==
  \A i \in DOMAIN comparison :
    LET former == comparison[i].baseline
        now == comparison[i].candidate
    IN  comparison[i].accepted =>
          /\ AtMost(now, former) => (comparison[i].verdict <=> AtMost(former, now))
          /\ comparison[i].verdict =>
               \A id \in IdsOf(RowsOf(former)) :
                 LET samples == {r.sample : r \in SamplesOf(RowsOf(former), id)}
                 IN  (\A r \in SamplesOf(RowsOf(former), id) : PassesByRule(r)) =>
                       Lost(former, now, id) \in {{}, samples}
          /\ \A run \in Runs :
               Comparable(former, run) /\ SameByRule(run, now) =>
                 Verdict(former, run) = comparison[i].verdict

\* A calibration counts every case once, and a judge does better than the baseline
\* only by telling answers apart: it passed a good one and failed a bad one
\* (calibration.go: MajorityBaseline).
AgreementIsEarned ==
  Judged(calibration) =>
    /\ Matches(calibration) + FalsePass(calibration) + FalseFail(calibration)
         = Len(calibration.labels)
    /\ Matches(calibration) > MajorityBaseline(calibration) =>
         \A pass \in BOOLEAN : \E i \in DOMAIN calibration.labels :
           calibration.labels[i].expected = pass /\ calibration.predicted[i] = pass

\* Verdicts say what their evidence says.
VerdictsAreEarned == ComparisonIsSound /\ AgreementIsEarned
=============================================================================
