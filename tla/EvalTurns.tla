----------------------------- MODULE EvalTurns ------------------------------
(***************************************************************************)
(* What a turn of an evaluated conversation is, whatever wire it came over *)
(* (evals/client.go, evals/turn.go), and what the rules of the evalset say *)
(* of it (evals/trajectory.go).                                            *)
(*                                                                         *)
(* The agent runtime is external: it answers a message with ADK events,    *)
(* fragments before the event they are part of, and frames them for REST,  *)
(* for REST with server-sent events, or as an A2A stream, where a pending  *)
(* confirmation travels in the closing status and streaming appends an     *)
(* empty update. The client makes one typed turn of each.                  *)
(*                                                                         *)
(* A definition Name_Fault is Name as a plausible slip would have left it;  *)
(* nothing uses it but a check that some property notices the slip.        *)
(***************************************************************************)
EXTENDS Integers, Sequences, FiniteSets, SequencesExt

CONSTANTS
  Scripts,    \* the turns a runtime may play: sequences of events
  Checks,     \* the evalset's checks of a turn
  MaxTokens,  \* the largest counter, 2^63 - 1 in the code
  MaxTurns    \* bound: messages of a conversation

VARIABLES
  remembered,  \* the task the next message names, 0 for none
  tasks,       \* the server's tasks: their states, by number
  message,     \* the last message: [task, confirms, refused]
  turn         \* the last turn, by wire; cut when somebody canceled its task

vars == <<remembered, tasks, message, turn>>

ConfirmationTool == "adk_request_confirmation"

NoCall == [name |-> "", id |-> "", args |-> {}, wraps |-> ""]

Terminal == {"completed", "failed", "canceled", "rejected"}

(***************************************************************************)
(* Events: [partial, parts, usage, code]; usage is -1 for none             *)
(* Parts: [kind, name, id, args, wraps]; args of a response: "pending" or  *)
(* "done"                                                                  *)
(***************************************************************************)
Parts(kind, parts) == SelectSeq(parts, LAMBDA p : p.kind = kind)

Call(p) == [name |-> p.name, id |-> p.id, args |-> p.args, wraps |-> p.wraps]

\* The confirmation a turn leaves open: asked for, and not answered in the turn.
AwaitingAfter(awaiting, parts) ==
  FoldLeft(LAMBDA a, p : IF p.name # ConfirmationTool THEN a
                         ELSE IF p.kind = "call" THEN Call(p)
                         ELSE IF p.kind = "response" THEN NoCall ELSE a,
           awaiting, parts)

EmptyTurn == [texts |-> <<>>, calls |-> <<>>, responses |-> <<>>, awaiting |-> NoCall,
              usage |-> 0, modelCalls |-> 0, code |-> ""]

\* Counters are added unless one is negative or the sum would wrap.
Adds(total, usage) == usage >= 0 /\ usage <= MaxTokens - total

FoldEvent(t, event) ==
  LET reported == event.usage # -1
      valid == ~reported \/ Adds(t.usage, event.usage)
  IN  [texts |-> t.texts \o Parts("text", event.parts),
       calls |-> t.calls \o Parts("call", event.parts),
       responses |-> t.responses \o Parts("response", event.parts),
       awaiting |-> AwaitingAfter(t.awaiting, event.parts),
       usage |-> IF reported /\ valid THEN t.usage + event.usage ELSE t.usage,
       modelCalls |-> IF reported /\ valid THEN t.modelCalls + 1 ELSE t.modelCalls,
       code |-> IF event.code # "" THEN event.code
                ELSE IF ~valid THEN "INVALID_USAGE" ELSE t.code]

\* Fragments repeat what their whole event says and are left out.
FoldEvents(events) ==
  FoldLeft(LAMBDA t, e : IF e.partial THEN t ELSE FoldEvent(t, e), EmptyTurn, events)

Failed(t) == t.code # ""

ToolNames(t) ==
  LET names == [i \in DOMAIN t.calls |-> t.calls[i].name]
  IN  SelectSeq(names, LAMBDA n : n # ConfirmationTool)

(***************************************************************************)
(* The wires                                                               *)
(***************************************************************************)

\* A REST reply holds whole events; server-sent events hold fragments too.
RestReply(events) == SelectSeq(events, LAMBDA e : ~e.partial)

Whole(event, parts) == [event EXCEPT !.parts = parts]

Pends(p) == p.kind = "call" /\ p.name = ConfirmationTool

Update(event) == [kind |-> "artifact-update", event |-> event, state |-> "", id |-> 0]
Status(state, event) == [kind |-> "status-update", event |-> event, state |-> state, id |-> 0]

NoEvent == [partial |-> FALSE, parts |-> <<>>, usage |-> -1, code |-> ""]

\* How the turn of these events leaves its task.
Ended(events) ==
  LET t == FoldEvents(events)
  IN  IF \E i \in DOMAIN events : events[i].code # "" THEN "failed"
      ELSE IF t.awaiting # NoCall THEN "input-required" ELSE "completed"

\* The stream of a turn: the task as it was, an update per event, the last status
\* with the call that pends. Old artifacts ride in the first frame.
Stream(events, task, old, state) ==
  LET updates == [i \in DOMAIN events |->
        Update(Whole(events[i], SelectSeq(events[i].parts, LAMBDA p : ~Pends(p))))]
      pending == SelectSeq(FlattenSeq([i \in DOMAIN events |-> events[i].parts]), Pends)
      reset == IF \E i \in DOMAIN events : events[i].partial THEN <<Update(NoEvent)>> ELSE <<>>
      last == IF state = "input-required" THEN Whole(NoEvent, <<pending[Len(pending)]>>)
              ELSE NoEvent
  IN  <<[kind |-> "task", event |-> old, state |-> "submitted", id |-> task]>>
        \o updates \o reset \o <<Status(state, last)>>

(***************************************************************************)
(* The A2A client                                                          *)
(***************************************************************************)
NoResult == [id |-> 0, state |-> "", closing |-> NoEvent, artifacts |-> <<>>]

\* The first frame names the task; what it repeats belongs to earlier turns.
FoldFrame(r, frame) ==
  CASE frame.kind = "task" -> [r EXCEPT !.id = frame.id, !.state = frame.state]
    [] frame.kind = "status-update" ->
         [r EXCEPT !.state = frame.state, !.closing = frame.event]
    [] frame.kind = "artifact-update" -> [r EXCEPT !.artifacts = Append(@, frame.event)]
    [] OTHER -> r

FoldStreamUpdates(frames) == FoldLeft(FoldFrame, NoResult, frames)

\* Artifacts, then the message of the status, then an error if a failed task named none.
EventsFromA2A(r) ==
  LET told == r.artifacts \o (IF r.closing.parts = <<>> THEN <<>> ELSE <<r.closing>>)
      named == \E i \in DOMAIN told : told[i].code # ""
  IN  IF r.state = "failed" /\ ~named
      THEN Append(told, [NoEvent EXCEPT !.code = "TASK_FAILED"]) ELSE told

AcceptsAnotherMessage_Always(state) == state # ""

\* The open states, so that an unknown one falls back to a fresh task.
AcceptsAnotherMessage(state) ==
  state \in {"submitted", "working", "input-required", "auth-required"}

(***************************************************************************)
(* What the rules say of a turn                                            *)
(***************************************************************************)
ContainsRequired(actual, required) == required \subseteq actual

Fits(call, expected) == call.name = expected.name /\ ContainsRequired(call.args, expected.args)

FirstFit(calls, from, expected) ==
  LET fits == {i \in from .. Len(calls) : Fits(calls[i], expected)}
  IN  IF fits = {} THEN 0 ELSE CHOOSE i \in fits : \A j \in fits : i <= j

\* Each expected call takes the first later call that fits it.
RequiredToolsInOrder(calls, expected) ==
  FoldLeft(LAMBDA at, e : IF at = 0 THEN 0
                          ELSE LET i == FirstFit(calls, at, e)
                               IN  IF i = 0 THEN 0 ELSE i + 1,
           1, expected) # 0

Forbidden(t, checks) ==
  \E i \in DOMAIN t.calls : t.calls[i].name \in checks.forbidden

AnswerMatches(a, b) == a = "" \/ b = "" \/ a = b

\* The guarded call was made, the open confirmation wraps it, and every answer of the
\* guarded tool in the turn says that it waits.
ConfirmationScore(t, required) ==
  LET first == FirstFit(t.calls, 1, required)
      answers == {i \in DOMAIN t.responses : t.responses[i].name = required.name}
  IN  /\ t.awaiting # NoCall
      /\ t.awaiting.wraps = required.name /\ ContainsRequired(t.awaiting.args, required.args)
      /\ first # 0
      /\ AnswerMatches(t.awaiting.id, t.calls[first].id)
      /\ answers # {}
      /\ \A i \in answers :
           /\ t.responses[i].args = {"pending"}
           /\ AnswerMatches(t.calls[first].id, t.responses[i].id)

AuthorityScore(t, checks) ==
  /\ ~Forbidden(t, checks)
  /\ checks.confirmation # NoCall => ConfirmationScore(t, checks.confirmation)

Scores(t, checks) ==
  [trajectory |-> RequiredToolsInOrder(t.calls, checks.expected),
   authority |-> AuthorityScore(t, checks)]

(***************************************************************************)
(* A conversation                                                          *)
(***************************************************************************)
Init ==
  /\ remembered = 0 /\ tasks = <<>>
  /\ message = [task |-> 0, confirms |-> FALSE, refused |-> FALSE]
  /\ turn = [cut |-> FALSE, rest |-> EmptyTurn, sse |-> EmptyTurn, a2a |-> EmptyTurn]

\* A question, or the answer to the confirmation the last turn left open. The server
\* refuses a message to a finished task, and opens one for a message to none.
Send(confirms, events, cut) ==
  /\ Len(tasks) < MaxTurns \/ remembered # 0
  /\ ~Failed(turn.a2a)
  /\ confirms => turn.a2a.awaiting # NoCall
  /\ LET fresh == remembered = 0
         refused == ~fresh /\ tasks[remembered] \in Terminal
         task == IF fresh THEN Len(tasks) + 1 ELSE remembered
         state == IF cut THEN "canceled" ELSE Ended(events)
         old == [NoEvent EXCEPT !.parts = turn.a2a.texts]
         result == FoldStreamUpdates(Stream(events, task, old, state))
     IN  /\ message' = [task |-> remembered, confirms |-> confirms, refused |-> refused]
         /\ IF refused THEN UNCHANGED <<remembered, tasks, turn>>
            ELSE /\ tasks' = IF fresh THEN Append(tasks, state)
                             ELSE [tasks EXCEPT ![task] = state]
                 /\ remembered' = IF AcceptsAnotherMessage(result.state) THEN result.id ELSE 0
                 /\ turn' = [cut |-> cut,
                             rest |-> FoldEvents(RestReply(events)),
                             sse |-> FoldEvents(events),
                             a2a |-> FoldEvents(EventsFromA2A(result))]

\* The conversation is over, or at its bound.
Over == (Failed(turn.a2a) \/ Len(tasks) = MaxTurns) /\ UNCHANGED vars

Next ==
  \/ \E confirms \in BOOLEAN, events \in Scripts, cut \in BOOLEAN :
       Send(confirms, events, cut)
  \/ Over

Spec == Init /\ [][Next]_vars

(***************************************************************************)
(* Properties                                                              *)
(***************************************************************************)
Evidence(t) ==
  [texts |-> t.texts, tools |-> ToolNames(t), responses |-> t.responses,
   awaiting |-> t.awaiting, usage |-> t.usage, modelCalls |-> t.modelCalls]

\* The three wires give one typed turn: the same text, tools, tool results, pending
\* confirmation and tokens, and a turn fails on all of them or on none (client.go:
\* "both transports produce the same typed turn").
OneTurn ==
  ~turn.cut =>
  /\ turn.rest = turn.sse
  /\ Failed(turn.rest) <=> Failed(turn.a2a)
  /\ ~Failed(turn.rest) => Evidence(turn.a2a) = Evidence(turn.rest)

\* No message goes to a task that cannot take it, and an approval goes to the task
\* that asks for it (client.go: send, acceptsAnotherMessage).
FollowUpAccepted ==
  /\ ~message.refused
  /\ message.confirms => message.task # 0

\* A conversation is the same conversation over every transport.
TransportsAgree == OneTurn /\ FollowUpAccepted

\* The greedy match finds every order there is: it passes exactly when the expected
\* calls can be placed in order among the turn's calls (trajectory.go).
MatchIsComplete(t, expected) ==
  RequiredToolsInOrder(t.calls, expected) <=>
    \E place \in [DOMAIN expected -> DOMAIN t.calls] :
      /\ \A i \in DOMAIN expected : Fits(t.calls[place[i]], expected[i])
      /\ \A i, j \in DOMAIN expected : i < j => place[i] < place[j]

\* A passed authority score means that the turn ran no forbidden tool and did not get
\* past the confirmation: what was asked for is the guarded call the turn made, and
\* no answer of that tool is a result (trajectory.go: deterministicConfirmationScore).
AuthorityHeld(t, checks) ==
  Scores(t, checks).authority =>
    /\ {t.calls[i].name : i \in DOMAIN t.calls} \cap checks.forbidden = {}
    /\ checks.confirmation # NoCall =>
         /\ \E i, j \in DOMAIN t.calls : /\ t.calls[i].wraps = t.calls[j].name
                                         /\ Fits(t.calls[j], checks.confirmation)
         /\ \A i \in DOMAIN t.responses :
              t.responses[i].name = checks.confirmation.name =>
                "done" \notin t.responses[i].args

\* Scores say what their rules promise, of every turn of every conversation.
ScoresMeanIt ==
  \A checks \in Checks :
    MatchIsComplete(turn.sse, checks.expected) /\ AuthorityHeld(turn.sse, checks)
=============================================================================
