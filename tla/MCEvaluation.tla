---------------------------- MODULE MCEvaluation ----------------------------
(***************************************************************************)
(* Instances of the evaluation harness for TLC: a run (Evaluation), its     *)
(* turns over the three wires (EvalTurns), the verdicts on its artifacts    *)
(* (EvalVerdicts) and the retrieval evaluation (RetrievalEval).             *)
(***************************************************************************)
EXTENDS Evaluation, EvalVerdicts, RetrievalEval, TLC

VARIABLES remembered, tasks, message, turn

-----------------------------------------------------------------------------
(* Two cases, one of which approves what it asked for: required twice and  *)
(* sampled twice, or judged in a container; and flags that name no case.   *)

MCEvalset == <<[id |-> "c", conversation |-> <<[confirms |-> FALSE, requires |-> TRUE],
                                               [confirms |-> TRUE, requires |-> FALSE]>>],
               [id |-> "d", conversation |-> <<[confirms |-> FALSE, requires |-> FALSE]>>]>>

Flags(required, repeat, minimum, judge, kind) ==
  [required |-> required, repeat |-> repeat, minimum |-> minimum, judge |-> judge,
   runtime |-> kind]
MCConfigs == {Flags({"c"}, 2, 50, FALSE, "process"), Flags({}, 0, 100, TRUE, "container"),
              Flags({"e"}, 1, 100, FALSE, "process")}

-----------------------------------------------------------------------------
(* Turns of up to two events, and the longer ones of a guarded call.       *)

Part(kind, name, id, args, wraps) ==
  [kind |-> kind, name |-> name, id |-> id, args |-> args, wraps |-> wraps]
Event(partial, parts, usage, code) ==
  [partial |-> partial, parts |-> parts, usage |-> usage, code |-> code]

Say(partial) ==
  Event(partial, <<Part("text", "down", "", {}, "")>>, IF partial THEN -1 ELSE 2, "")
Guarded == Event(FALSE, <<Part("call", "restart", "1", {"s"}, "")>>, 1, "")
Ask == Event(FALSE, <<Part("call", "adk_request_confirmation", "1", {"s"}, "restart")>>, -1, "")
Reply(what) == Event(FALSE, <<Part("response", "restart", "1", {what}, "")>>, -1, "")
Read == Event(FALSE, <<Part("call", "status", "3", {"s", "t"}, "")>>, 1, "")
Fails == Event(FALSE, <<>>, -1, "E")
Wrong == Event(FALSE, <<>>, -2, "")
Events == {Say(TRUE), Say(FALSE), Guarded, Ask, Reply("pending"), Reply("done"), Read, Fails, Wrong}

Scripts ==
  UNION {[1 .. n -> Events] : n \in 0 .. 2}
  \union {<<Guarded, Reply("pending"), Ask, e>> : e \in Events}
  \union {<<Say(TRUE), Say(FALSE), Read, Guarded>>, <<Read, Guarded, Read>>}

Demand(name, args) == [name |-> name, args |-> args]
Unnamed == [name |-> "", id |-> "", args |-> {}, wraps |-> ""]
Checks ==
  {[expected |-> <<Demand("restart", {"s"})>>, forbidden |-> {},
    confirmation |-> [Unnamed EXCEPT !.name = "restart", !.args = {"s"}]],
   [expected |-> <<Demand("status", {"s"}), Demand("restart", {}), Demand("status", {})>>,
    forbidden |-> {"restart"}, confirmation |-> Unnamed]}

Wires == INSTANCE EvalTurns WITH MaxTokens <- 4, MaxTurns <- 2

-----------------------------------------------------------------------------
(* Runs of two cases and two samples at most, and three labels.            *)

\* A sample with a rule-decided score, a judged one or both; -1 for none.
Scored(id, sample, trajectory, judge) ==
  LET scores == IF judge = -1 THEN [trajectory |-> trajectory]
                ELSE IF trajectory = -1 THEN [judge |-> judge]
                ELSE [trajectory |-> trajectory, judge |-> judge]
  IN  [id |-> id, sample |-> sample, scores |-> scores,
       passed |-> \A n \in DOMAIN scores : scores[n] = 1]
Run(revision, dirty, rows) ==
  [source |-> [revision |-> revision, dirty |-> dirty], model |-> "m", transport |-> "rest",
   evalset |-> "e", rows |-> rows]

RowSets ==
  {<<Scored("c", 1, a1, j), Scored("c", 2, a2, -1),
     Scored("d", 1, b1, -1), Scored("d", 2, b2, -1)>> :
     a1 \in {0, 1}, a2 \in {0, 1}, b1 \in {0, 1}, b2 \in {0, 1}, j \in {0, 1}}
  \union {<<[id |-> "e", sample |-> 1, scores |-> [trajectory |-> t, confirmation |-> k],
              passed |-> t = 1 /\ k = 1]>> : t \in {0, 1}, k \in {0, 1}}
  \union {<<Scored("f", 1, -1, 1), Scored("f", 2, t, -1), Scored("g", 1, u, -1)>> :
            t \in {0, 1}, u \in {0, 1}}
MCRuns ==
  {Run("r1", FALSE, rows) : rows \in RowSets} \union {Run("r2", FALSE, rows) : rows \in RowSets}
  \union {Run("", FALSE, <<Scored("c", 1, 1, -1)>>), Run("r2", TRUE, <<Scored("c", 1, 1, -1)>>),
          Run("r1", FALSE, <<Scored("c", 1, 1, -1), Scored("c", 1, 0, -1)>>),
          Run("r1", FALSE, <<>>)}

Label(id, category, expected) == [id |-> id, category |-> category, expected |-> expected]
MCLabels ==
  {<<Label(1, "good", TRUE), Label(2, "bad", e), Label(3, "hallucinated", FALSE)>> : e \in BOOLEAN}
  \union {<<Label(1, "good", TRUE), Label(2, "bad", FALSE)>>,
          <<Label(1, "good", TRUE), Label(1, "bad", FALSE), Label(3, "hallucinated", FALSE)>>}

MCJudgedScores == {"judge"}

-----------------------------------------------------------------------------
MCQuestions == <<"x", "y">>
MCSlugs == {"x", "z"}

wireVars == <<remembered, tasks, message, turn>>
evalVars == <<runVars, wireVars, verdictVars, measureVars>>

EvalParts == {"harness", "wires", "verdicts", "rankings"}

\* A part that does not move is in one state, whichever.
EvalInit(part) ==
  /\ part # "harness" => config = Flags({}, 0, 100, TRUE, "container")
  /\ RunInit
  /\ part # "harness" => ~disk.results.expected = 1
  /\ Wires!Init
  /\ part # "verdicts" => command = "compare"
  /\ VerdictsInit
  /\ MeasureInit

EvalNext(part) ==
  \/ part = "harness" /\ RunNext /\ UNCHANGED <<wireVars, verdictVars, measureVars>>
  \/ part = "wires" /\ Wires!Next /\ UNCHANGED <<runVars, verdictVars, measureVars>>
  \/ part = "verdicts" /\ VerdictsNext /\ UNCHANGED <<runVars, wireVars, measureVars>>
  \/ part = "rankings" /\ MeasureNext /\ UNCHANGED <<runVars, wireVars, verdictVars>>

ASSUME HarnessConfiguration == EvaluationAssumption /\ MeasureAssumption /\ VerdictsAssumption

-----------------------------------------------------------------------------
\* A conversation is the same one over every wire, and its scores mean what they say
\* (EvalTurns).
TurnsAreTold == Wires!TransportsAgree /\ Wires!ScoresMeanIt
=============================================================================
