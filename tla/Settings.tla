------------------------------ MODULE Settings ------------------------------
(***************************************************************************)
(* agents/go/config: how an environment becomes the configuration of the   *)
(* agent, in three phases of which the first with a problem ends the load, *)
(* and what the constructors of the runtime make of it afterwards          *)
(* (cmd/agent/runtime.go and servers.go).                                  *)
(*                                                                         *)
(* A value is a class of values: "" is the explicitly empty string,        *)
(* "blank" white space, "bad" what does not parse or is malformed,         *)
(* "outside" a number beyond its bounds or not finite, "fits" one within   *)
(* them, "sliver" a positive number of seconds below a nanosecond.         *)
(*                                                                         *)
(* A definition Name_Fault is Name as a plausible slip would have left it;  *)
(* nothing uses it but a check that some property notices the slip.        *)
(***************************************************************************)
EXTENDS Integers, Sequences

CONSTANT Environments  \* the environments: functions from variables to values

VARIABLES
  env,       \* the variables the operator set; the others are absent
  stage,     \* "start", "refused", "loaded", "serves" or "not built"
  cfg,       \* the value of every variable after Load
  problems,  \* the problems of the phase that refused, as the variables named
  surface,   \* the process that starts: the console or the A2A server
  refuser    \* the constructor that refused

settingsVars == <<env, stage, cfg, problems, surface, refuser>>

Choice == [AGENT_ENTRYPOINT |-> {"agent", "workflow", "coordinator"},
           AGENT_MODEL_PROVIDER |-> {"openai-compatible", "gemini"},
           AGENT_SESSION_BACKEND |-> {"sqlite", "postgres"}]

\* Strings that must not be empty, and strings that may be.
Names == {"AGENT_MODEL", "AGENT_DATA_DIR", "AGENT_STATE_DIR", "AGENT_A2A_BIND_HOST",
          "AGENT_A2A_HOST", "AGENT_EMBEDDINGS_URL", "AGENT_EMBEDDING_MODEL"}
Texts == {"OPENAI_BASE_URL", "OPENAI_API_KEY", "GOOGLE_API_KEY", "GOOGLE_CLOUD_PROJECT",
          "GOOGLE_CLOUD_LOCATION", "AGENT_MCP_URL", "AGENT_MCP_TOKEN",
          "AGENT_SESSION_DSN", "AGENT_A2A_PROTOCOL", "AGENT_PII_MODEL",
          "AGENT_PII_MODEL_BASE_URL"}

\* Pointers, whose unset state is none of their values.
Options == {"AGENT_TRUSTED_IDENTITY_HEADER", "AGENT_MODEL_FALLBACK",
            "AGENT_GATEWAY_ENABLED"}
Limits == {"AGENT_MODEL_TEMPERATURE", "AGENT_MAX_HISTORY_MESSAGES",
           "AGENT_MAX_TOKENS_PER_SESSION"}

Counts == {"AGENT_A2A_PORT", "AGENT_A2A_MAX_LLM_CALLS", "AGENT_MAX_RETRIES",
           "AGENT_SESSION_MAX_CONNS", "AGENT_CIRCUIT_FAILURE_THRESHOLD",
           "AGENT_INPUT_PRICE_PER_1K", "AGENT_OUTPUT_PRICE_PER_1K"}
Deadlines == {"AGENT_DRAIN_TIMEOUT_S", "AGENT_MODEL_TIMEOUT_S", "AGENT_RETRY_BACKOFF_S",
              "AGENT_PII_MODEL_TIMEOUT_S", "AGENT_TOOL_TIMEOUT_S",
              "AGENT_CIRCUIT_RESET_TIMEOUT_S", "AGENT_EMBEDDING_TIMEOUT_S"}
Switches == {"GOOGLE_GENAI_USE_ENTERPRISE", "AGENT_A2A_STREAMING",
             "AGENT_CIRCUIT_BREAKER_ENABLED", "AGENT_WRITES_DISABLED",
             "AGENT_SANITIZE_TOOL_OUTPUT", "AGENT_PII_MODEL_ENABLED",
             "AGENT_SEMANTIC_RETRIEVAL"}

Strings == DOMAIN Choice \union Names \union Texts \union Options
Variables == Strings \union Limits \union Counts \union Deadlines \union Switches

Default(v) ==
  CASE v = "AGENT_ENTRYPOINT" -> "agent"
    [] v = "AGENT_MODEL_PROVIDER" -> "openai-compatible"
    [] v = "AGENT_SESSION_BACKEND" -> "sqlite"
    [] v = "AGENT_A2A_PROTOCOL" -> "http"
    [] v \in {"AGENT_SANITIZE_TOOL_OUTPUT", "AGENT_PII_MODEL_ENABLED"} -> "true"
    [] v \in Options \union Limits -> "unset"
    [] v \in {"GOOGLE_API_KEY", "GOOGLE_CLOUD_PROJECT", "GOOGLE_CLOUD_LOCATION",
              "AGENT_MCP_URL", "AGENT_MCP_TOKEN", "AGENT_SESSION_DSN"} -> ""
    [] OTHER -> IF v \in Switches THEN "false" ELSE "default"

TrimSpace(value) == IF value = "blank" THEN "" ELSE value

-----------------------------------------------------------------------------
(* Phase 1: every field by itself.                                         *)

ExplicitlyEmpty == {v \in DOMAIN env : env[v] = ""}

Unparsable == {v \in DOMAIN env \ ExplicitlyEmpty :
                 IF v \in DOMAIN Choice THEN env[v] \notin Choice[v]
                                        ELSE v \notin Strings /\ env[v] = "bad"}

\* The library takes an empty variable for an absent one, and leaves the zero value
\* of the field where a value does not parse.
Parsed ==
  [v \in Variables |->
     IF v \notin DOMAIN env \/ v \in ExplicitlyEmpty THEN Default(v)
     ELSE IF v \in Unparsable THEN "" ELSE env[v]]

restoreExplicitEmptyValues_Dropped(c) == c

\* The operator's empty string comes back onto the fields that are strings.
restoreExplicitEmptyValues(c) ==
  [v \in Variables |-> IF v \in ExplicitlyEmpty \intersect Strings THEN "" ELSE c[v]]

fieldProblems(c) ==
  {v \in DOMAIN Choice : c[v] \notin Choice[v]}
  \union {v \in Names : c[v] = ""}
  \union {v \in Counts \union Limits \union Deadlines : c[v] = "outside"}
  \union {v \in {"AGENT_A2A_PROTOCOL"} : c[v] \notin {"http", "https"}}
  \union {v \in {"AGENT_TRUSTED_IDENTITY_HEADER"} : c[v] \in {"", "blank", "bad"}}
  \union {v \in {"AGENT_MODEL_FALLBACK"} : c[v] = ""}

\* One problem per variable, whichever of the three found it.
FieldPhase(c) ==
  {{v} : v \in Unparsable \union (ExplicitlyEmpty \ Strings) \union fieldProblems(c)}

-----------------------------------------------------------------------------
(* Phases 2 and 3: what no single variable owns.                           *)

Enterprise(c) == c["GOOGLE_GENAI_USE_ENTERPRISE"] = "true"

GeminiProblems(c) ==
  LET keyed == TrimSpace(c["GOOGLE_API_KEY"]) # ""
      missing == {v \in {"GOOGLE_CLOUD_PROJECT", "GOOGLE_CLOUD_LOCATION"} :
                    TrimSpace(c[v]) = ""}
  IN  IF keyed /\ Enterprise(c)
        THEN {{"AGENT_MODEL_PROVIDER", "GOOGLE_API_KEY", "GOOGLE_GENAI_USE_ENTERPRISE"}}
      ELSE IF Enterprise(c)
        THEN IF missing = {} THEN {}
             ELSE {{"AGENT_MODEL_PROVIDER", "GOOGLE_GENAI_USE_ENTERPRISE"} \union missing}
      ELSE IF keyed THEN {}
      ELSE {{"AGENT_MODEL_PROVIDER", "GOOGLE_API_KEY", "GOOGLE_GENAI_USE_ENTERPRISE",
             "GOOGLE_CLOUD_PROJECT", "GOOGLE_CLOUD_LOCATION"}}

providerProblems(c) ==
  LET openai == c["AGENT_MODEL_PROVIDER"] = "openai-compatible"
  IN  (IF c["AGENT_GATEWAY_ENABLED"] # "unset" THEN {{"AGENT_GATEWAY_ENABLED"}} ELSE {})
      \union (IF openai /\ c["OPENAI_BASE_URL"] = ""
                THEN {{"AGENT_MODEL_PROVIDER", "OPENAI_BASE_URL"}} ELSE {})
      \union (IF openai /\ TrimSpace(c["OPENAI_API_KEY"]) = ""
                THEN {{"AGENT_MODEL_PROVIDER", "OPENAI_API_KEY"}} ELSE {})
      \union (IF openai THEN {} ELSE GeminiProblems(c))

sessionStoreProblems(c) ==
  LET dsn == TrimSpace(c["AGENT_SESSION_DSN"])
      wrong == IF c["AGENT_SESSION_BACKEND"] = "postgres" THEN dsn \in {"", "bad"}
                                                          ELSE dsn # ""
  IN  IF wrong THEN {{"AGENT_SESSION_BACKEND", "AGENT_SESSION_DSN"}} ELSE {}

\* Why an endpoint is refused: no client can dial it, or it carries a credential.
httpURLProblem(value) == value \in {"", "blank", "bad"}

crossFieldProblems(c) ==
  LET optional == {"OPENAI_BASE_URL", "AGENT_MCP_URL"}
      required == {"AGENT_PII_MODEL_BASE_URL", "AGENT_EMBEDDINGS_URL"}
      checked == required \union {v \in optional : c[v] # ""}
  IN  sessionStoreProblems(c)
      \union {{v} : v \in {u \in checked : httpURLProblem(c[u])}}
      \union (IF c["AGENT_MODEL_FALLBACK"] = c["AGENT_MODEL"]
                THEN {{"AGENT_MODEL_FALLBACK", "AGENT_MODEL"}} ELSE {})

-----------------------------------------------------------------------------
(* The constructors, in the order the command calls them. Each checks again *)
(* what it cannot work without.                                            *)

\* Duration truncates to nanoseconds, which leaves nothing of a sliver.
Duration(value) == IF value = "sliver" THEN 0 ELSE 1

newGuard(c) ==
  /\ Duration(c["AGENT_TOOL_TIMEOUT_S"]) > 0
  /\ c["AGENT_MAX_RETRIES"] # "outside"
  /\ c["AGENT_CIRCUIT_BREAKER_ENABLED"] = "true" =>
       /\ c["AGENT_CIRCUIT_FAILURE_THRESHOLD"] # "outside"
       /\ Duration(c["AGENT_CIRCUIT_RESET_TIMEOUT_S"]) > 0

newPolicy(c) ==
  \A v \in {"AGENT_MAX_HISTORY_MESSAGES", "AGENT_MAX_TOKENS_PER_SESSION"} : c[v] # "outside"

openAIProvider(c) == c["OPENAI_BASE_URL"] # "" /\ TrimSpace(c["OPENAI_API_KEY"]) # ""

geminiClientConfig(c) ==
  \/ TrimSpace(c["GOOGLE_API_KEY"]) # ""
  \/ /\ Enterprise(c)
     /\ c["GOOGLE_CLOUD_PROJECT"] # "" /\ c["GOOGLE_CLOUD_LOCATION"] # ""

provider(c) ==
  \/ c["AGENT_MODEL_PROVIDER"] = "openai-compatible" /\ openAIProvider(c)
  \/ c["AGENT_MODEL_PROVIDER"] = "gemini" /\ geminiClientConfig(c)

newMemory(c) == c["AGENT_STATE_DIR"] # ""

newMCPToolset(c) == c["AGENT_MCP_URL"] # "" => Duration(c["AGENT_TOOL_TIMEOUT_S"]) > 0

openSessionStore(c) == c["AGENT_SESSION_BACKEND"] \in Choice["AGENT_SESSION_BACKEND"]

\* The prompt guard shares the key of the OpenAI-compatible provider, whichever
\* provider serves the agent.
newDetector(c) ==
  c["AGENT_PII_MODEL_ENABLED"] = "true" /\ c["AGENT_PII_MODEL_BASE_URL"] # "" =>
    /\ ~httpURLProblem(c["AGENT_PII_MODEL_BASE_URL"])
    /\ TrimSpace(c["OPENAI_API_KEY"]) # ""
    /\ TrimSpace(c["AGENT_PII_MODEL"]) # ""

newServer(c) ==
  /\ c["AGENT_ENTRYPOINT"] = "agent" /\ c["AGENT_STATE_DIR"] # ""
  /\ c["AGENT_A2A_PORT"] # "outside"

Accepts(constructor, c) ==
  CASE constructor = "guard" -> newGuard(c)
    [] constructor = "policy" -> newPolicy(c)
    [] constructor = "model" -> provider(c)
    [] constructor = "memory" -> newMemory(c)
    [] constructor = "mcp" -> newMCPToolset(c)
    [] constructor = "sessions" -> openSessionStore(c)
    [] constructor = "detector" -> newDetector(c)
    [] constructor = "server" -> newServer(c)

Constructors(s) ==
  <<"guard", "policy", "model", "memory", "mcp", "sessions">>
  \o (IF s = "a2a" THEN <<"detector", "server">> ELSE <<>>)

-----------------------------------------------------------------------------
SettingsInit ==
  /\ env \in Environments
  /\ stage = "start" /\ cfg = <<>> /\ problems = {} /\ surface = "none" /\ refuser = "none"

\* LoadFrom: the first phase with a problem reports all of its problems, and there
\* is no configuration then.
Load ==
  LET c == restoreExplicitEmptyValues(Parsed)
      phases == <<FieldPhase(c), providerProblems(c), crossFieldProblems(c)>>
  IN  /\ stage = "start"
      /\ \/ /\ \A i \in DOMAIN phases : phases[i] = {}
            /\ stage' = "loaded" /\ cfg' = c /\ UNCHANGED problems
         \/ \E i \in DOMAIN phases :
              /\ phases[i] # {} /\ \A j \in 1 .. (i - 1) : phases[j] = {}
              /\ stage' = "refused" /\ problems' = phases[i] /\ UNCHANGED cfg
      /\ UNCHANGED <<env, surface, refuser>>

\* newAgentRuntime, and newA2AServer around it: the first constructor that refuses
\* ends the start of the process.
Build(s) ==
  LET called == Constructors(s)
  IN  /\ stage = "loaded"
      /\ surface' = s
      /\ \/ /\ \A i \in DOMAIN called : Accepts(called[i], cfg)
            /\ stage' = "serves" /\ UNCHANGED refuser
         \/ \E i \in DOMAIN called :
              /\ ~Accepts(called[i], cfg)
              /\ \A j \in 1 .. (i - 1) : Accepts(called[j], cfg)
              /\ stage' = "not built" /\ refuser' = called[i]
      /\ UNCHANGED <<env, cfg, problems>>

SettingsDone == stage \notin {"start", "loaded"} /\ UNCHANGED settingsVars

SettingsNext == Load \/ (\E s \in {"console", "a2a"} : Build(s)) \/ SettingsDone

SettingsSpec == SettingsInit /\ [][SettingsNext]_settingsVars

-----------------------------------------------------------------------------
\* What the operator set is what the agent runs with, to the empty string: no value
\* gives way to a default, and no variable that was left alone has another value.
NothingReplaced ==
  stage = "loaded" =>
    \A v \in Variables : cfg[v] = IF v \in DOMAIN env THEN env[v] ELSE Default(v)

\* A refusal is about something the operator wrote: every problem it reports names a
\* variable of the environment, and an environment that sets nothing loads.
RefusalsAreEarned == \A named \in problems : named \intersect DOMAIN env # {}

\* The validator and the constructors of seven packages agree: what Load accepted
\* builds the console's runtime, and fails to only for a deadline so short that it
\* truncates to none, by the constructor that needs it.
LoadedIsBuilt ==
  stage = "not built" /\ surface = "console" =>
    /\ refuser = "guard"
    /\ \E v \in {"AGENT_TOOL_TIMEOUT_S", "AGENT_CIRCUIT_RESET_TIMEOUT_S"} :
         cfg[v] = "sliver"

\* Settings are honest from the environment to the runtime that is built of them.
SettingsAreHonest == NothingReplaced /\ RefusalsAreEarned /\ LoadedIsBuilt

\* What the package says of cross-field dependencies (config.go:4): Load validates
\* them, so a configuration it accepts does not fail in a constructor for the want
\* of another variable: the prompt guard of the A2A server gets what it needs.
DependenciesCheckedAtLoad == refuser # "detector"
=============================================================================
