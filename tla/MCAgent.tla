------------------------------ MODULE MCAgent ------------------------------
(***************************************************************************)
(* The agent's own parts for TLC: its processes (AgentProcess), the        *)
(* configuration (Settings) and the policy (Guardrails, Redaction). They   *)
(* share no state: `part` chooses which of them moves, and the others stay *)
(* as they were.                                                           *)
(***************************************************************************)
EXTENDS MCAgentProcess, Settings, Guardrails, TLC

CONSTANT r  \* a request

VARIABLES
  part,
  found, text, masked

ASSUME ProcessesConfiguration == ProcessesAssumption /\ TornTogether
ASSUME PolicyConfiguration == GuardrailsAssumption

-----------------------------------------------------------------------------
(* The configuration: every variable alone, and pairs of those that depend *)
(* on each other, each in all the classes its kind has.                    *)

Classes(v) ==
  IF v \in DOMAIN Choice THEN Choice[v] \union {"", "bad"}
  ELSE IF v = "AGENT_MODEL_FALLBACK" THEN {"", "blank", "set", "bad", "default"}
  ELSE IF v \in Strings THEN {"", "blank", "set", "bad"}
  ELSE IF v \in Switches THEN {"", "true", "false", "bad"}
  ELSE IF v \in Deadlines THEN {"", "fits", "sliver", "outside", "bad"}
  ELSE {"", "fits", "outside", "bad"}

Paired == {"AGENT_MODEL_PROVIDER", "OPENAI_API_KEY", "AGENT_MCP_URL", "AGENT_TOOL_TIMEOUT_S",
           "AGENT_CIRCUIT_BREAKER_ENABLED", "AGENT_CIRCUIT_RESET_TIMEOUT_S",
           "AGENT_SESSION_BACKEND", "AGENT_SESSION_DSN", "AGENT_MODEL",
           "AGENT_MODEL_FALLBACK", "AGENT_PII_MODEL_ENABLED", "AGENT_PII_MODEL",
           "AGENT_PII_MODEL_BASE_URL", "AGENT_GATEWAY_ENABLED", "AGENT_ENTRYPOINT"}

One == UNION {{v :> c : c \in Classes(v)} : v \in Variables}
Two == UNION {{v :> c @@ w :> d : c \in Classes(v), d \in Classes(w)} :
                v \in Paired, w \in Paired}
Gemini ==
  {[AGENT_MODEL_PROVIDER |-> "gemini", GOOGLE_API_KEY |-> key,
    GOOGLE_GENAI_USE_ENTERPRISE |-> enterprise, GOOGLE_CLOUD_PROJECT |-> project,
    GOOGLE_CLOUD_LOCATION |-> location, OPENAI_API_KEY |-> openai] :
     key \in {"", "blank", "set"}, enterprise \in {"true", "false"},
     project \in {"", "blank", "set"}, location \in {"", "blank", "set"},
     openai \in {"", "set"}}

MCEnvironments == {<<>>} \union One \union Two \union Gemini

-----------------------------------------------------------------------------
(* The policy: two tools of one name, one of them the reviewed one; a text *)
(* of four positions.                                                      *)

Tool(name, id) == [name |-> name, id |-> id]
Rule(keep, frozen, sanitize) == [keep |-> keep, frozen |-> frozen, sanitize |-> sanitize]

MCTools == {Tool("load_skill", "local"), Tool("load_skill", "remote"),
            Tool("restart_service", "write")}
MCTrusted == {"local"}
MCGuarded == {"restart_service"}
MCPolicies == {Rule(0, TRUE, TRUE), Rule(2, FALSE, TRUE), Rule(3, FALSE, FALSE)}

Size == 4
Spans(entity) ==
  {s \in [entity : {entity}, start : 0 .. Size - 1, end : 1 .. Size] : s.start < s.end}

\* A pattern finds disjoint spans; here, two at most.
Matches(entity) ==
  {spans \in SUBSET Spans(entity) :
     /\ Cardinality(spans) <= 2
     /\ \A s, t \in spans : s # t => s.end <= t.start \/ t.end <= s.start}
AtMostOne(spans) == {{}} \union {{s} : s \in spans}

Masks == INSTANCE Redaction WITH
  Length <- Size,
  Addresses <- AtMostOne({s \in Spans(1) : s.end - s.start = 2}),
  SafeTokens <- AtMostOne({s \in Spans(0) : s.end - s.start = 1 /\ s.start \in {1, 2}}),
  Others <- {a \union b : a \in Matches(2), b \in AtMostOne(Spans(3))}

-----------------------------------------------------------------------------
maskVars == <<found, text, masked>>

\* A part that does not move is in one state: an initial state of its own where
\* a property looks at it whichever part moves.
AgentInit ==
  /\ part \in {"process", "settings", "guardrails", "redaction"}
  /\ part # "process" => backend = "sqlite" /\ kind = (p :> "stdio" @@ q :> "mcp")
  /\ Init
  /\ part # "process" => disk.db.sessions = "absent" /\ disk.db.tasks = "absent"
  /\ part # "settings" => env = <<>>
  /\ SettingsInit
  /\ part # "guardrails" => policy = Rule(0, TRUE, TRUE)
  /\ GuardrailsInit
  /\ IF part = "redaction" THEN Masks!Init ELSE found = {} /\ text = <<>> /\ masked = FALSE

AgentNext ==
  \/ part = "process" /\ Next /\ UNCHANGED <<part, settingsVars, guardVars, maskVars>>
  \/ part = "settings" /\ SettingsNext /\ UNCHANGED <<part, vars, guardVars, maskVars>>
  \/ part = "guardrails" /\ GuardrailsNext /\ UNCHANGED <<part, vars, settingsVars, maskVars>>
  \/ part = "redaction" /\ Masks!Next /\ UNCHANGED <<part, vars, settingsVars, guardVars>>

AgentSpec ==
  AgentInit /\ [][AgentNext]_<<part, vars, settingsVars, guardVars, maskVars>> /\ Fairness

-----------------------------------------------------------------------------
\* A text is masked where something was found and nowhere else (Redaction).
MasksAreExact == part = "redaction" => Masks!RedactionIsExact
=============================================================================
