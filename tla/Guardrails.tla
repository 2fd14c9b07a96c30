----------------------------- MODULE Guardrails -----------------------------
(***************************************************************************)
(* agents/go/policy around the calls of one session: what the before-model *)
(* guards make of the history they send, what the after-model guards keep   *)
(* of the answer, and what happens to every tool call before and after it   *)
(* runs. The budget guard is a choice here, Turns has its rules; which parts*)
(* of a text are masked is in Redaction.                                    *)
(*                                                                         *)
(* A definition Name_Fault is Name as a plausible slip would have left it;  *)
(* nothing uses it but a check that some property notices the slip.        *)
(***************************************************************************)
EXTENDS Integers, Sequences, SequencesExt, FiniteSetsExt

CONSTANTS
  Tools,       \* [name, id]: a tool's name is its own choice, its id is not
  Trusted,     \* the ids of the tools whose output is reviewed instruction
  Guarded,     \* the names of the two actions whose arguments are checked
  Policies,    \* [keep, frozen, sanitize], keep 0 for an unbounded history
  MaxMessages  \* bound: messages of a session

VARIABLES
  policy,   \* the policy of the process
  history,  \* the messages of the session, as the session service keeps them
  phase,    \* whose turn it is: "user", "model", "answer" or "tools"
  calls,    \* the calls of the last answer that have no result yet
  sent,     \* the messages the model was last sent
  ran       \* the calls that reached their tool

\* A window is a number of messages.
GuardrailsAssumption ==
  Policies \subseteq [keep : Nat, frozen : BOOLEAN, sanitize : BOOLEAN]

guardVars == <<policy, history, phase, calls, sent, ran>>

Message(kind, private) == [kind |-> kind, private |-> private, calls |-> {}, plain |-> {}]

\* Several calls in one answer, and the result of one of them.
Asking(asked) == [Message("calls", \E c \in asked : c.private) EXCEPT !.calls = asked]
Result(call, private, plain) ==
  [Message("result", private) EXCEPT !.calls = {call}, !.plain = plain]

-----------------------------------------------------------------------------
(* The before-model guards.                                                *)

hasFunctionResponse(message) == message.kind = "result"

compactionMarker(elided) ==
  [kind |-> "marker", private |-> FALSE, elided |-> Len(elided), plain |-> {},
   calls |-> {},
   tools |-> UNION {{c.tool.name : c \in elided[i].calls} :
                      i \in {j \in DOMAIN elided : elided[j].kind = "calls"}}]

CompactHistory_PlainCut(contents) ==
  IF policy.keep = 0 \/ Len(contents) <= policy.keep THEN contents
  ELSE LET cut == Len(contents) - policy.keep
       IN  <<compactionMarker(SubSeq(contents, 1, cut))>>
           \o SubSeq(contents, cut + 1, Len(contents))

\* The window starts after the results it would otherwise start with, but it has the
\* newest message whatever that is.
CompactHistory(contents) ==
  LET n == Len(contents)
      cut == Min({c \in (n - policy.keep) .. (n - 1) :
                    c = n - 1 \/ ~hasFunctionResponse(contents[c + 1])})
  IN  IF policy.keep = 0 \/ n <= policy.keep THEN contents
      ELSE <<compactionMarker(SubSeq(contents, 1, cut))>> \o SubSeq(contents, cut + 1, n)

Masked(message) ==
  [message EXCEPT !.private = FALSE,
                  !.calls = {[c EXCEPT !.private = FALSE] : c \in message.calls}]

\* Every text, every argument and every result of the request is masked.
RedactRequest(contents) == [i \in DOMAIN contents |-> Masked(contents[i])]

\* The after-model guard: the text of an answer and the arguments it asks with are
\* masked before either is kept or used.
RedactResponse(answer) == Masked(answer)

-----------------------------------------------------------------------------
(* The guards around a tool.                                               *)

\* The refusal of a call, "none" if it may run. The kill-switch comes first.
ValidateActions(call) ==
  IF call.tool.name \notin Guarded THEN "none"
  ELSE IF policy.frozen THEN "frozen"
  ELSE IF call.argument = "malformed" THEN "malformed" ELSE "none"

\* What the tool is called with: the checked argument is rewritten in place.
Normalized(call) ==
  IF call.tool.name \in Guarded /\ call.argument = "spelled otherwise"
    THEN [call EXCEPT !.argument = "canonical"] ELSE call

isTrustedInstructionTool(tool) == tool.id \in Trusted

\* The result that enters the history: fenced unless its tool is trusted, masked
\* whichever. `plain` is the tool a free text that is not fenced comes from.
SecureToolOutput(call) ==
  Result(call, FALSE,
         IF policy.sanitize /\ ~isTrustedInstructionTool(call.tool) THEN {}
                                                                    ELSE {call.tool})

\* A pause, a rejection and a failure have a result of the policy's own words.
HandleToolError(call) == Result(call, FALSE, {})

-----------------------------------------------------------------------------
GuardrailsInit ==
  /\ policy \in Policies
  /\ history = <<>> /\ phase = "user" /\ calls = {} /\ sent = <<>> /\ ran = {}

UserSays(private) ==
  /\ phase = "user" /\ Len(history) < MaxMessages
  /\ history' = Append(history, Message("text", private))
  /\ phase' = "model"
  /\ UNCHANGED <<policy, calls, sent, ran>>

\* BeforeModel: budget, compaction, redaction. An exhausted budget answers in the
\* place of the model, and nothing is sent.
CallModel ==
  /\ phase = "model"
  /\ \/ /\ sent' = RedactRequest(CompactHistory(history))
        /\ phase' = "answer"
        /\ UNCHANGED history
     \/ /\ Len(history) < MaxMessages
        /\ history' = Append(history, Message("text", FALSE))
        /\ phase' = "user"
        /\ UNCHANGED sent
  /\ UNCHANGED <<policy, calls, ran>>

\* AfterModel: the usage is recorded (Turns), then the answer is masked.
\* HandleModelError answers a failure with a text of its own.
ModelAnswers(asked, private) ==
  /\ phase = "answer" /\ Len(history) + 1 + Cardinality(asked) <= MaxMessages
  /\ LET answer == RedactResponse(IF asked = {} THEN Message("text", private)
                                               ELSE Asking(asked))
     IN  history' = Append(history, answer) /\ calls' = answer.calls
  /\ phase' = IF asked = {} THEN "user" ELSE "tools"
  /\ UNCHANGED <<policy, sent, ran>>

\* One call of the answer: refused, or run with what became of its argument, to a
\* result or an error.
RunTool(call) ==
  /\ call \in calls
  /\ \/ /\ ValidateActions(call) # "none"
        /\ history' = Append(history, HandleToolError(call))
        /\ UNCHANGED ran
     \/ /\ ValidateActions(call) = "none"
        /\ ran' = ran \union {Normalized(call)}
        /\ \E result \in {SecureToolOutput(call), HandleToolError(call)} :
             history' = Append(history, result)
  /\ calls' = calls \ {call}
  /\ phase' = IF calls' = {} THEN "model" ELSE phase
  /\ UNCHANGED <<policy, sent>>

Arguments == {"canonical", "spelled otherwise", "malformed"}

\* The answers of the model: a text, one call, or two at once with two arguments.
Asked ==
  LET call(t, a, p) == [tool |-> t, argument |-> a, private |-> p]
      ones == {{call(t, a, p)} : t \in Tools, a \in Arguments, p \in BOOLEAN}
      twos == {{call(t, "canonical", TRUE), call(u, "malformed", FALSE)} : t, u \in Tools}
  IN  {{}} \union ones \union twos

GuardrailsDone == Len(history) = MaxMessages /\ UNCHANGED guardVars

GuardrailsNext ==
  \/ \E p \in BOOLEAN : UserSays(p)
  \/ CallModel
  \/ \E asked \in Asked, p \in BOOLEAN : ModelAnswers(asked, p)
  \/ \E c \in calls : RunTool(c)
  \/ GuardrailsDone

GuardrailsSpec == GuardrailsInit /\ [][GuardrailsNext]_guardVars

-----------------------------------------------------------------------------
\* The request leads with what the window elided: as many messages as are missing,
\* and every tool that was called in them.
MarkerAccounts ==
  phase = "answer" /\ sent[1].kind = "marker" =>
    /\ sent[1].elided + Len(sent) - 1 = Len(history)
    /\ \A i \in 1 .. sent[1].elided :
         {c.tool.name : c \in IF history[i].kind = "calls" THEN history[i].calls ELSE {}}
           \subseteq sent[1].tools

\* The request keeps to the window, ends with the newest message, and a result whose
\* call was elided is in it only as that newest message.
EvidenceKept ==
  phase = "answer" =>
    LET n == Len(sent)
    IN  /\ policy.keep # 0 => n <= policy.keep + 1
        /\ sent[n].kind = history[Len(history)].kind
        /\ \A i \in 1 .. (n - 1) :
             sent[i].kind = "result" =>
               \E j \in 1 .. (i - 1) : /\ sent[j].kind = "calls"
                                       /\ sent[i].calls \subseteq sent[j].calls

\* Nothing personal is sent to the model or kept of its answers and of its tools;
\* only the user's own words are kept as they were said.
NothingPersonal ==
  /\ \A i \in DOMAIN sent :
       ~sent[i].private /\ \A c \in sent[i].calls : ~c.private
  /\ \A i \in DOMAIN history : history[i].private => history[i].kind = "text"

\* Free text reaches the model without a fence from trusted tools only, by what the
\* tool is and not by its name; no guarded action runs while writes are frozen, nor
\* with an argument that is not in its canonical form.
ToolsAreGuarded ==
  /\ \A i \in DOMAIN history :
       policy.sanitize => \A t \in history[i].plain : t.id \in Trusted
  /\ \A c \in ran :
       c.tool.name \in Guarded => ~policy.frozen /\ c.argument = "canonical"

\* What the model is sent accounts for what it is not sent, and what it asks for and is
\* told is checked and fenced (policy.go: BeforeModel, AfterModel, Plugin).
GuardrailsHold == MarkerAccounts /\ EvidenceKept /\ NothingPersonal /\ ToolsAreGuarded
=============================================================================
