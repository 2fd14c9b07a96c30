-------------------------------- MODULE Notes --------------------------------
(***************************************************************************)
(* Long-term memory (memory/notes.go, service.go, sqlite.go): one SQLite   *)
(* file with the notes that tools save and the session lines that a host   *)
(* ingests, read by tools and by ADK's memory service, erased for one      *)
(* person by an operator.                                                  *)
(*                                                                         *)
(* Workers are handlers of any process over the file. A statement outside  *)
(* a transaction is a step; a transaction takes the write lock at BEGIN    *)
(* and what it does is seen at COMMIT. Any statement may fail and a worker *)
(* may die at any step. Identifiers and texts are members of small sets;   *)
(* a text keeps whether it was redacted.                                   *)
(*                                                                         *)
(* A definition Name_Fault is Name as a plausible slip would have left it;  *)
(* nothing uses it but a check that some property notices the slip.        *)
(***************************************************************************)
EXTENDS Integers, Sequences, FiniteSets, SequencesExt

CONSTANTS
  Workers,
  Frozen,       \* AGENT_WRITES_DISABLED
  People,       \* the [app, user] pairs that call
  Incidents,    \* the incidents of the dataset
  Names,        \* what a model may give as an incident id: Incidents and others
  Texts,        \* [words, length, raw] records; a blank one has no words
  Transcripts,  \* session -> the states of its event list that may be ingested
  OwnerOf,      \* session -> the person it belongs to
  MaxNote, RecallLimit,
  MaxNotes      \* bound on the notes kept

VARIABLES
  tables,  \* the tables that exist
  notes,   \* committed rows of incident_notes, by id
  lines,   \* committed rows of session_memories, by id
  lock,    \* the holder of the write lock
  call     \* worker -> the call it runs

vars == <<tables, notes, lines, lock, call>>

Nobody == "nobody"
Every == "every"  \* an empty incident id
Sessions == DOMAIN Transcripts

Idle == [pc |-> "idle", op |-> "none", who |-> CHOOSE p \in People : TRUE,
         incident |-> Every, text |-> [words |-> {}, length |-> 0, raw |-> FALSE],
         session |-> CHOOSE s \in Sessions : TRUE, events |-> <<>>,
         notes |-> <<>>, lines |-> <<>>,  \* of the open transaction
         answer |-> <<>>]

\* notesSchema: tables are made on every open, so a deleted directory is no error.
Init ==
  /\ tables \in {{}, {"notes"}, {"notes", "lines"}}
  /\ notes = <<>> /\ lines = <<>>
  /\ lock = Nobody
  /\ call = [w \in Workers |-> Idle]

-----------------------------------------------------------------------------
(* Values *)

At(w, pc) == call[w].pc = pc
Goto(w, pc) == call' = [call EXCEPT ![w].pc = pc]
End(w) == call' = [call EXCEPT ![w] = Idle]
Store == <<tables, notes, lines>>

Redact(text) == [text EXCEPT !.raw = FALSE]

\* redactedText: the text parts of an event; an event without any is skipped.
Redacted(events) == SelectSeq([i \in DOMAIN events |-> Redact(events[i])],
                              LAMBDA t : t.words # {})

\* queryNotes: one scope, one incident or every, newest first, a bounded number.
Recalled(who, incident) ==
  LET mine == SelectSeq(notes, LAMBDA n : /\ n.who = who
                                          /\ incident \in {Every, n.incident})
      n == Len(mine)
  IN Reverse(SubSeq(mine, IF n > RecallLimit THEN n - RecallLimit + 1 ELSE 1, n))

\* searchSessionMemories: lines that share a word with the query, newest first.
Matching(who, words) ==
  LET mine == SelectSeq(lines, LAMBDA l : l.who = who /\ l.text.words \cap words # {})
      n == Len(mine)
  IN IF words = {} THEN <<>>
     ELSE Reverse(SubSeq(mine, IF n > RecallLimit THEN n - RecallLimit + 1 ELSE 1, n))

\* incidentIDInQuery: the incident that the query names, else every incident.
IncidentIn(words) == IF words \cap Names = {} THEN Every ELSE CHOOSE i \in words \cap Names : TRUE

-----------------------------------------------------------------------------
(* Calls *)

Call(w, op, who) == [Idle EXCEPT !.op = op, !.who = who, !.pc = "open"]

\* save, its refusals in their order; none of them touches the file. A frozen
\* agent refuses first; GetIncident may fail.
Save(w) ==
  /\ At(w, "idle")
  /\ ~Frozen
  /\ \E who \in People, name \in Names, text \in Texts :
       /\ name \in Incidents
       /\ text.words # {}
       /\ text.length <= MaxNote
       /\ call' = [call EXCEPT ![w] = [Call(w, "save", who) EXCEPT
                                         !.incident = name, !.text = Redact(text)]]
  /\ UNCHANGED <<Store, lock>>

Recall(w) ==
  /\ At(w, "idle")
  /\ \E who \in People, incident \in Names \cup {Every} :
       call' = [call EXCEPT ![w] = [Call(w, "recall", who) EXCEPT !.incident = incident]]
  /\ UNCHANGED <<Store, lock>>

\* SearchMemory of ADK's memory service.
Search(w) ==
  /\ At(w, "idle")
  /\ \E who \in People, text \in Texts :
       call' = [call EXCEPT ![w] = [Call(w, "search", who) EXCEPT
                                      !.incident = IncidentIn(text.words), !.text = text]]
  /\ UNCHANGED <<Store, lock>>

\* AddSessionToMemory: the session as the host holds it now.
AddSession(w) ==
  /\ At(w, "idle")
  /\ \E s \in Sessions : \E events \in Transcripts[s] :
       call' = [call EXCEPT ![w] = [Call(w, "ingest", OwnerOf[s]) EXCEPT
                                      !.session = s, !.events = events]]
  /\ UNCHANGED <<Store, lock>>

\* ForgetUserMemory: a person, whatever the application.
Forget(w) ==
  /\ At(w, "idle")
  /\ \E user \in {p.user : p \in People} :
       call' = [call EXCEPT ![w] = Call(w, "forget", CHOOSE p \in People : p.user = user)]
  /\ UNCHANGED <<Store, lock>>

-----------------------------------------------------------------------------
(* Statements *)

Transactional(w) == call[w].op \in {"ingest", "forget"}

\* Notes.open: each CREATE TABLE IF NOT EXISTS commits by itself.
Open(w) ==
  /\ At(w, "open")
  /\ \/ /\ {"notes", "lines"} \subseteq tables
        /\ Goto(w, IF Transactional(w) THEN "begin"
                   ELSE IF call[w].op = "save" THEN "insert" ELSE "read")
        /\ UNCHANGED tables
     \/ /\ lock = Nobody
        /\ \/ "notes" \notin tables /\ tables' = tables \cup {"notes"}
           \/ "notes" \in tables /\ "lines" \notin tables /\ tables' = tables \cup {"lines"}
        /\ UNCHANGED call
  /\ UNCHANGED <<notes, lines, lock>>

\* One autocommitted INSERT; the answer may be an error all the same (a failed
\* close), and nothing retries it.
Insert(w) ==
  /\ At(w, "insert")
  /\ lock = Nobody
  /\ Len(notes) < MaxNotes
  /\ notes' = Append(notes, [who |-> call[w].who, incident |-> call[w].incident,
                             text |-> call[w].text])
  /\ End(w)
  /\ UNCHANGED <<tables, lines, lock>>

ReadNotes(w) ==
  /\ At(w, "read")
  /\ call' = [call EXCEPT ![w].answer = Recalled(call[w].who, call[w].incident),
                          ![w].pc = IF call[w].op = "search" THEN "readLines" ELSE "answer"]
  /\ UNCHANGED <<Store, lock>>

\* A statement of its own: the two lists of a search are of two moments.
ReadLines(w) ==
  /\ At(w, "readLines")
  /\ call' = [call EXCEPT ![w].answer = @ \o Matching(call[w].who, call[w].text.words),
                          ![w].pc = "answer"]
  /\ UNCHANGED <<Store, lock>>

Answer(w) == At(w, "answer") /\ End(w) /\ UNCHANGED <<Store, lock>>

\* BEGIN IMMEDIATE
Begin(w) ==
  /\ At(w, "begin")
  /\ lock = Nobody
  /\ lock' = w
  /\ call' = [call EXCEPT ![w].notes = notes, ![w].lines = lines,
                ![w].pc = IF call[w].op = "ingest" THEN "replace" ELSE "eraseNotes"]
  /\ UNCHANGED Store

SameSession(w, l) == l.who = call[w].who /\ l.session = call[w].session

\* The rows of a session are replaced, so adding it twice is adding it once.
Replace(w) ==
  /\ At(w, "replace")
  /\ call' = [call EXCEPT ![w].lines = SelectSeq(@, LAMBDA l : ~SameSession(w, l)),
                          ![w].events = Redacted(@), ![w].pc = "ingest"]
  /\ UNCHANGED <<Store, lock>>

IngestEvent(w) ==
  /\ At(w, "ingest")
  /\ IF call[w].events = <<>>
     THEN Goto(w, "commit")
     ELSE call' = [call EXCEPT ![w].events = Tail(@),
                     ![w].lines = Append(@, [who |-> call[w].who, session |-> call[w].session,
                                             text |-> Head(call[w].events)])]
  /\ UNCHANGED <<Store, lock>>

\* The user's rows, in every application.
Others(w, rows) == SelectSeq(rows, LAMBDA r : r.who.user # call[w].who.user)

\* Each statement in a transaction of its own.
EraseNotes_Autocommitted(w) ==
  /\ At(w, "eraseNotes")
  /\ call' = [call EXCEPT ![w].notes = Others(w, @), ![w].pc = "eraseLines"]
  /\ notes' = Others(w, notes)
  /\ UNCHANGED <<tables, lines, lock>>

EraseNotes(w) ==
  /\ At(w, "eraseNotes")
  /\ call' = [call EXCEPT ![w].notes = Others(w, @), ![w].pc = "eraseLines"]
  /\ UNCHANGED <<Store, lock>>

EraseLines(w) ==
  /\ At(w, "eraseLines")
  /\ call' = [call EXCEPT ![w].lines = Others(w, @), ![w].pc = "commit"]
  /\ UNCHANGED <<Store, lock>>

Commit(w) ==
  /\ At(w, "commit")
  /\ notes' = call[w].notes
  /\ lines' = call[w].lines
  /\ lock' = Nobody
  /\ End(w)
  /\ UNCHANGED tables

Released(w) == lock' = IF lock = w THEN Nobody ELSE lock

\* A statement fails, or waited longer than the busy timeout, or the worker dies:
\* the transaction is rolled back.
Fail(w) ==
  /\ ~At(w, "idle")
  /\ End(w)
  /\ Released(w)
  /\ UNCHANGED Store

\* The state directory is disposable: somebody resets it while nobody uses it.
Reset ==
  /\ \A w \in Workers : At(w, "idle")
  /\ tables' = {} /\ notes' = <<>> /\ lines' = <<>>
  /\ UNCHANGED <<lock, call>>

Next ==
  \/ \E w \in Workers :
       \/ Save(w) \/ Recall(w) \/ Search(w) \/ AddSession(w) \/ Forget(w)
       \/ Open(w) \/ Insert(w) \/ ReadNotes(w) \/ ReadLines(w) \/ Answer(w)
       \/ Begin(w) \/ Replace(w) \/ IngestEvent(w) \/ EraseNotes(w) \/ EraseLines(w)
       \/ Commit(w) \/ Fail(w)
  \/ Reset

Spec == Init /\ [][Next]_vars

-----------------------------------------------------------------------------
(* What must hold *)

LinesOf(s) ==
  LET own == SelectSeq(lines, LAMBDA l : l.who = OwnerOf[s] /\ l.session = s)
  IN [i \in DOMAIN own |-> own[i].text]

\* However ingestions of a session overlap, fail and repeat, what is remembered of
\* it is one whole transcript, redacted: never two of them, nor a part.
SessionIsOneIngest ==
  \A s \in Sessions :
    LinesOf(s) \in {<<>>} \cup {Redacted(t) : t \in Transcripts[s]}

RowsOf(user) == [notes |-> SelectSeq(notes, LAMBDA n : n.who.user = user),
                 lines |-> SelectSeq(lines, LAMBDA l : l.who.user = user)]
Nothing == [notes |-> <<>>, lines |-> <<>>]

\* A note leaves the store only together with everything else of its person, in
\* every application and in both tables; nobody else loses anything then.
ErasureIsWhole ==
  \A p \in People :
    Len(RowsOf(p.user)'.notes) < Len(RowsOf(p.user).notes) =>
      /\ RowsOf(p.user)' = Nothing
      /\ tables' # {} => \A q \in People : q.user # p.user =>
                                             RowsOf(q.user)' = RowsOf(q.user)

\* Sessions are remembered whole and persons are forgotten whole.
MemoryIsWhole == [][SessionIsOneIngest' /\ ErasureIsWhole]_vars
=============================================================================
