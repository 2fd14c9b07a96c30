--------------------------- MODULE RetrievalEval ----------------------------
(***************************************************************************)
(* The retrieval evaluation (evals/retrieval.go, evals/retrieval_mcp.go):  *)
(* every incident of the seed is asked of two disposable runtimes, one     *)
(* that searches runbooks by keyword and then one that searches them by    *)
(* meaning, each a child process over a state directory of its own; what   *)
(* they rank first, and among three, becomes the artifact.                 *)
(*                                                                         *)
(* A runtime is external: it may search in either mode (a semantic one     *)
(* falls back to keywords when its model is away), return too many slugs   *)
(* or one twice, and die.                                                  *)
(*                                                                         *)
(* A definition Name_Fault is Name as a plausible slip would have left it;  *)
(* nothing uses it but a check that some property notices the slip.        *)
(***************************************************************************)
EXTENDS Integers, Sequences, FiniteSets, SequencesExt

CONSTANTS
  Questions,  \* the seed's cases: a sequence of expected slugs
  AnySlugs,   \* slugs a runtime may return
  Limit,      \* 3 in the code
  Checkout    \* the build of the evaluated checkout

VARIABLES
  mode,      \* the mode being measured
  pc,        \* where the run is
  at,        \* the case being asked
  runtime,   \* the runtime: [build, state, dir, connected, stuck]
  previous,  \* the directory that names the keyword runtime, 0 before it
  hits,      \* by mode: [first, within]
  rates,     \* <<>>, or the rates as published
  told       \* ghost: by mode, what the counted answers were

\* The seed has cases, and each names the runbook that answers it.
MeasureAssumption == Questions \in Seq(STRING) \ {<<>>} /\ Limit \in Nat

measureVars == <<mode, pc, at, runtime, previous, hits, rates, told>>

Modes == {"keyword", "semantic"}

NoChild == [build |-> "none", state |-> "none", dir |-> 0, connected |-> FALSE, stuck |-> FALSE]

MeasureGoto(where) == pc' = where

MeasureInit ==
  /\ mode = "keyword" /\ pc = "start" /\ at = 1
  /\ runtime = NoChild /\ previous = 0
  /\ hits = [m \in Modes |-> [first |-> 0, within |-> 0]]
  /\ rates = <<>>
  /\ told = [m \in Modes |-> <<>>]

(***************************************************************************)
(* startMCPRetrievalRuntime                                                *)
(***************************************************************************)

\* A temporary directory, whose name may be one a removed directory had, and a copy of
\* the binary in it; a copy of anything but the evaluated checkout is refused.
IsolateRuntime ==
  /\ pc = "start"
  /\ \/ \E build \in {Checkout, "other"}, dir \in {1, 2} :
          /\ runtime' = [NoChild EXCEPT !.build = build, !.dir = dir]
          /\ (build = Checkout /\ MeasureGoto("spawn")) \/ MeasureGoto("remove")
     \/ UNCHANGED runtime /\ MeasureGoto("failed")
  /\ UNCHANGED <<mode, at, previous, hits, rates, told>>

\* Liveness, not readiness: the runtime has no state to publish.
SpawnRuntime ==
  /\ pc = "spawn"
  /\ \/ runtime' = [runtime EXCEPT !.state = "alive"] /\ MeasureGoto("connect")
     \/ UNCHANGED runtime /\ MeasureGoto("remove")
  /\ UNCHANGED <<mode, at, previous, hits, rates, told>>

\* A connected runtime that is the last one again is refused.
Connect ==
  /\ pc = "connect"
  /\ \/ /\ runtime.state = "alive"
        /\ runtime' = [runtime EXCEPT !.connected = TRUE]
        /\ MeasureGoto(IF runtime.dir = previous THEN "close" ELSE "ask")
     \/ UNCHANGED runtime /\ MeasureGoto("close")
  /\ UNCHANGED <<mode, at, previous, hits, rates, told>>

ChildDies ==
  /\ runtime.state = "alive"
  /\ runtime' = [runtime EXCEPT !.state = "dead"]
  /\ UNCHANGED <<mode, pc, at, previous, hits, rates, told>>

(***************************************************************************)
(* evaluateRetrievalCases                                                  *)
(***************************************************************************)
Rankings == UNION {[1 .. n -> AnySlugs] : n \in 0 .. Limit + 1}

\* At most the limit, no slug twice.
ValidRanking(slugs) == Len(slugs) <= Limit /\ IsInjective(slugs)

Counted_AnyMode(searched, slugs) == ValidRanking(slugs)

\* An answer counts when it is of the mode being measured and a ranking.
Counted(searched, slugs) == searched = mode /\ ValidRanking(slugs)

Hit(found) == IF found THEN 1 ELSE 0

\* An error of the tool or of the transport, a count that is not the results', a mode
\* nobody knows, an answer that does not count: the run fails.
AskQuestion ==
  /\ pc = "ask"
  /\ \/ /\ runtime.state = "alive"
        /\ \E searched \in Modes, slugs \in Rankings :
             /\ Counted(searched, slugs)
             /\ hits' = [hits EXCEPT ![mode] =
                  [first |-> hits[mode].first + Hit(slugs # <<>> /\ slugs[1] = Questions[at]),
                   within |-> hits[mode].within + Hit(Contains(slugs, Questions[at]))]]
             /\ told' = [told EXCEPT ![mode] =
                  Append(@, [by |-> runtime.dir, searched |-> searched, slugs |-> slugs])]
        /\ IF at = Len(Questions) THEN MeasureGoto("measured") /\ UNCHANGED at
           ELSE at' = at + 1 /\ UNCHANGED pc
     \/ MeasureGoto("close") /\ UNCHANGED <<at, hits, told>>
  /\ UNCHANGED <<mode, runtime, previous, rates>>

(***************************************************************************)
(* Close: the session, the process, the directory, whatever failed before  *)
(***************************************************************************)
\* The process is asked to end, killed if it does not; what cannot be stopped or
\* removed is an error of the run.
Close ==
  /\ pc \in {"close", "measured", "remove"}
  /\ \E stuck \in BOOLEAN :
       /\ runtime' = IF stuck THEN [runtime EXCEPT !.stuck = TRUE] ELSE NoChild
       /\ previous' = IF mode = "keyword" THEN runtime.dir ELSE previous
       /\ CASE stuck \/ pc # "measured" -> MeasureGoto("failed") /\ UNCHANGED <<mode, at>>
            [] ~stuck /\ pc = "measured" /\ mode = "keyword" ->
                 mode' = "semantic" /\ at' = 1 /\ MeasureGoto("start")
            [] OTHER -> MeasureGoto("publish") /\ UNCHANGED <<mode, at>>
  /\ UNCHANGED <<hits, rates, told>>

ValidRates(r) ==
  /\ r.first \in 0 .. Len(Questions) /\ r.within \in 0 .. Len(Questions)
  /\ r.first <= r.within

PublishRates ==
  /\ pc = "publish"
  /\ \/ (\A m \in Modes : ValidRates(hits[m])) /\ rates' = <<hits>> /\ MeasureGoto("done")
     \/ UNCHANGED rates /\ MeasureGoto("failed")
  /\ UNCHANGED <<mode, at, runtime, previous, hits, told>>

MeasureDone == pc \in {"done", "failed"} /\ UNCHANGED measureVars

MeasureNext ==
  \/ IsolateRuntime \/ SpawnRuntime \/ Connect \/ ChildDies
  \/ AskQuestion \/ Close \/ PublishRates
  \/ MeasureDone

MeasureSpec == MeasureInit /\ [][MeasureNext]_measureVars

(***************************************************************************)
(* Properties                                                              *)
(***************************************************************************)

\* A published artifact is a measurement: both modes answered every question, each
\* from one process of its own that really searched in that mode, so that semantic
\* rates are never keyword rates of a runtime whose model was away, and nothing of
\* either runtime is left behind (retrieval.go: evaluateRetrievalRuntime).
BothModesMeasured ==
  rates # <<>> =>
    /\ runtime = NoChild
    /\ \A m \in Modes :
         /\ Len(told[m]) = Len(Questions)
         /\ rates[1][m].within =
              Cardinality({i \in DOMAIN Questions : Contains(told[m][i].slugs, Questions[i])})
         /\ rates[1][m].first <= rates[1][m].within
         /\ \A i \in DOMAIN told[m] : told[m][i].searched = m
    /\ \A i \in DOMAIN told["keyword"], j \in DOMAIN told["semantic"] :
         told["keyword"][i].by # told["semantic"][j].by
=============================================================================
