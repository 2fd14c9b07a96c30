----------------------------- MODULE MCServices -----------------------------
(***************************************************************************)
(* Instances of Snapshots, Notes and Retrieval for TLC, and of the         *)
(* evaluation harness (MCEvaluation). They share no state: `part` chooses  *)
(* which of them moves, the others stay as they were.                      *)
(***************************************************************************)
EXTENDS MCEvaluation, Snapshots, Retrieval

CONSTANTS a, b, x, y, p, q  \* databases, state directories, workers

VARIABLES
  part,
  tables, notes, lines, memory, call

-----------------------------------------------------------------------------
(* Two directories, one of which holds a database of a newer binary or     *)
(* lacks one; two timestamps and a published snapshot that somebody edits. *)

MCHomeOf == p :> x @@ q :> y
MCInitial == {a :> 0 @@ b :> 2, a :> 1 @@ b :> -1}

-----------------------------------------------------------------------------
(* One user in two applications, another in one; a transcript that grows,  *)
(* has an event without text and repeats an incident; a text that names    *)
(* nothing known.                                                          *)

Text(w, raw) == [words |-> w, length |-> 1, raw |-> raw]
Person(app, user) == [app |-> app, user |-> user]

People == {Person("A", "u"), Person("B", "u"), Person("A", "v")}
Incidents == {"i"}
Names == {"i", "j"}
Texts == {Text({"i"}, TRUE)}
OwnerOf == [s |-> Person("B", "u"), t |-> Person("A", "v")]
Transcripts ==
  [s |-> {<<Text({"i"}, TRUE)>>,
          <<Text({}, FALSE), Text({"k"}, FALSE), Text({"i"}, TRUE)>>},
   t |-> {<<Text({"i"}, TRUE)>>}]

Note == INSTANCE Notes WITH
  lock <- memory, Workers <- {p, q}, Frozen <- FALSE, MaxNote <- 2, RecallLimit <- 1, MaxNotes <- 1

-----------------------------------------------------------------------------
(* Two builds of one model with vectors of one length, two chunkers, and a *)
(* corpus that is edited, shortened and emptied.                           *)

Use(op, chunker) ==
  [op |-> op, config |-> [model |-> "m", chunker |-> chunker, semantic |-> TRUE]]
MCCalls == {Use("search", "v1"), Use("index", "v1"), Use("index", "v2")}
MCCorpora == {<<"x", "y">>, <<"y", "no text">>, <<"no text", "no text">>}
MCChunksOf == [x |-> {"x1", "x2"}, y |-> {"y1"}]
MCDistances == [x1 |-> 1, x2 |-> 1, y1 |-> 2]
MCOccurs == [x |-> [t |-> 1], y |-> [t |-> 2]]
MCInSlug == <<{}, {"t"}>>
MCQuery == <<"t">>
MCDimensions == <<2, 2>>

ASSUME ServicesConfiguration == RunbooksAssumption /\ SnapshotsAssumption

-----------------------------------------------------------------------------
noteVars == <<tables, notes, lines, memory, call>>
vars == <<part, snapVars, noteVars, runbookVars, evalVars>>

\* A part that does not move is in one state, whichever.
Init ==
  /\ part \in {"snapshots", "notes", "retrieval"} \union EvalParts
  /\ part # "snapshots" => live = [h \in Homes |-> a :> 1 @@ b :> -1]
  /\ SnapshotsInit
  /\ part # "notes" => tables = {}
  /\ Note!Init
  /\ RetrievalInit
  /\ EvalInit(part)

Next ==
  \/ part = "snapshots" /\ SnapshotsNext /\ UNCHANGED <<part, noteVars, runbookVars, evalVars>>
  \/ part = "notes" /\ Note!Next /\ UNCHANGED <<part, snapVars, runbookVars, evalVars>>
  \/ part = "retrieval" /\ RetrievalNext /\ UNCHANGED <<part, snapVars, noteVars, evalVars>>
  \/ EvalNext(part) /\ UNCHANGED <<part, snapVars, noteVars, runbookVars>>

\* Only the harness promises to go on.
Spec == Init /\ [][Next]_vars /\ WF_runVars(part = "harness" /\ Harness)

-----------------------------------------------------------------------------
\* What is remembered of a session is one whole transcript, and a person's notes
\* leave with all of it (Notes).
MemoryIsWhole == Note!MemoryIsWhole

\* A run of the harness ends, unless a `version` command never does (Evaluation).
HarnessEnds == part = "harness" => RunEnds
=============================================================================
