--------------------------- MODULE CircuitBreaker ---------------------------
(***************************************************************************)
(* The resilience package: guarded reads (Guard.Run) under a per-attempt   *)
(* deadline and bounded retries, each admitted by the circuit breaker of   *)
(* its tool (Breakers, Breaker, Permit).                                   *)
(*                                                                         *)
(* Every method of Breaker runs under the breaker's mutex, so each is one  *)
(* step here; what interleaves is the callers: between its admission and   *)
(* the outcome it records, any number of other callers may have opened,    *)
(* probed and closed the same breaker.                                     *)
(*                                                                         *)
(* A definition Name_Fault is Name as a plausible slip would have left it;  *)
(* nothing uses it but a check that some property notices the slip.        *)
(*                                                                         *)
(* Time is the age of the current open period, saturated at ResetTimeout:  *)
(* Allow compares nothing else.                                            *)
(***************************************************************************)
EXTENDS Integers, FiniteSets

CONSTANTS
  Callers,           \* concurrent invocations of Guard.Run
  Tools,             \* the resources the registry keeps one breaker for
  FailureThreshold,  \* AGENT_CIRCUIT_FAILURE_THRESHOLD
  ResetTimeout,      \* AGENT_CIRCUIT_RESET_TIMEOUT_S, in ticks
  MaxRetries,        \* AGENT_MAX_RETRIES
  MaxGeneration      \* bound: cooldowns of later generations never end

\* validateBreakerLimits and NewGuard refuse any other configuration.
ASSUME ConfigAssumption ==
  /\ FailureThreshold \in Nat \ {0}
  /\ ResetTimeout \in Nat \ {0}
  /\ MaxRetries \in Nat
  /\ MaxGeneration \in Nat

VARIABLES
  byName,   \* tool -> its Breaker, or NoBreaker before the first Get
  run,      \* caller -> the Guard.Run it is in
  cancelled \* caller -> its parent context is done

breakerVars == <<byName, run, cancelled>>

Closed   == "closed"
Open     == "open"
HalfOpen == "half_open"
States   == {Closed, Open, HalfOpen}

Breaker == [state: States, failures: Nat, generation: Nat,
            probeActive: BOOLEAN, age: 0..ResetTimeout]

NoBreaker == [state |-> "none"]

NewBreaker == [state |-> Closed, failures |-> 0, generation |-> 0,
               probeActive |-> FALSE, age |-> 0]

Results == {"none", "ok", "circuit_open", "abandoned", "deadline", "exhausted"}

Run == [pc: {"returned", "calling", "backoff"}, tool: Tools, permit: Nat,
        attempt: 0..MaxRetries, result: Results]

BreakerTypeOK ==
  /\ byName \in [Tools -> Breaker \cup {NoBreaker}]
  /\ run \in [Callers -> Run]
  /\ cancelled \in [Callers -> BOOLEAN]

InFlight(c) == run[c].pc # "returned"

BreakerInit ==
  /\ byName = [t \in Tools |-> NoBreaker]
  /\ run \in [Callers -> {[pc |-> "returned", tool |-> t, permit |-> 0,
                           attempt |-> 0, result |-> "none"] : t \in Tools}]
  /\ cancelled = [c \in Callers |-> FALSE]

-----------------------------------------------------------------------------
(* Breaker and its registry *)

\* Breakers.Get: the tool's breaker, created on first use.
Get(t) == IF byName[t] = NoBreaker THEN NewBreaker ELSE byName[t]

\* Breaker.Allow: whether a call is admitted now ...
Admits(b) ==
  \/ b.state = Closed
  \/ b.state = Open /\ b.age = ResetTimeout
  \/ b.state = HalfOpen /\ ~b.probeActive

\* ... and the breaker after an admission; Open advances to its one probe.
Admitted(b) ==
  IF b.state = Open
  THEN [b EXCEPT !.state = HalfOpen, !.generation = @ + 1, !.probeActive = TRUE]
  ELSE [b EXCEPT !.probeActive = (b.state = HalfOpen)]

Honors_Always(b, permit) == TRUE

\* Breaker.honors: an outcome counts only in the generation it was admitted in.
Honors(b, permit) == permit = b.generation

Tripped_SameGeneration(b) ==
  [b EXCEPT !.state = Open, !.age = 0, !.probeActive = FALSE]

\* Breaker.open: trip, restart the cooldown, retire every permit.
Tripped(b) ==
  [b EXCEPT !.state = Open, !.age = 0, !.probeActive = FALSE, !.generation = @ + 1]

RecordSuccess(b, permit) ==
  IF ~Honors(b, permit) \/ b.state = Open THEN b
  ELSE [b EXCEPT !.state = Closed,
                 !.generation = IF b.state = HalfOpen THEN @ + 1 ELSE @,
                 !.failures = 0,
                 !.probeActive = FALSE]

RecordFailure_Stragglers(b, permit) ==
  LET counted == [b EXCEPT !.failures = @ + 1]
  IN IF b.state # Closed \/ counted.failures >= FailureThreshold
     THEN Tripped(counted)
     ELSE counted

RecordFailure(b, permit) ==
  IF b.state = Open \/ ~Honors(b, permit) THEN b
  ELSE LET counted == [b EXCEPT !.failures = @ + 1]
       IN IF b.state = HalfOpen \/ counted.failures >= FailureThreshold
          THEN Tripped(counted)
          ELSE counted

RecordAbandoned_Ignored(b, permit) == b

RecordAbandoned(b, permit) ==
  IF ~Honors(b, permit) \/ b.state # HalfOpen \/ ~b.probeActive THEN b
  ELSE Tripped(b)

-----------------------------------------------------------------------------
(* Guard.Run *)

\* A new call: Guard.admit asks the tool's breaker before any attempt.
Admit(c, t) ==
  /\ ~InFlight(c)
  /\ Admits(Get(t))
  /\ byName' = [byName EXCEPT ![t] = Admitted(Get(t))]
  /\ run' = [run EXCEPT ![c] = [pc |-> "calling", tool |-> t,
                                permit |-> byName'[t].generation,
                                attempt |-> 0, result |-> "none"]]
  /\ cancelled' = [cancelled EXCEPT ![c] = FALSE]

\* The breaker is open, or its probe is in flight: fail fast, no attempt made.
FailFast(c, t) ==
  /\ ~InFlight(c)
  /\ ~Admits(Get(t))
  /\ byName' = [byName EXCEPT ![t] = Get(t)]
  /\ run' = [run EXCEPT ![c].tool = t, ![c].result = "circuit_open"]
  /\ cancelled' = [cancelled EXCEPT ![c] = FALSE]

\* The parent context of a call in flight is cancelled, or reaches its deadline.
Cancel(c) ==
  /\ InFlight(c)
  /\ ~cancelled[c]
  /\ cancelled' = [cancelled EXCEPT ![c] = TRUE]
  /\ UNCHANGED <<byName, run>>

\* Guard.Run returns `result` after recording one outcome with the breaker;
\* its permit and its attempt count are locals and go with it.
Return(c, breaker, result) ==
  /\ byName' = [byName EXCEPT ![run[c].tool] = breaker]
  /\ run' = [run EXCEPT ![c] = [pc |-> "returned", tool |-> run[c].tool, permit |-> 0,
                                attempt |-> 0, result |-> result]]
  /\ UNCHANGED cancelled

\* callErr == nil wins even over a cancelled context.
CallSucceeds(c) ==
  /\ run[c].pc = "calling"
  /\ Return(c, RecordSuccess(byName[run[c].tool], run[c].permit), "ok")

\* The call failed and the caller had stopped waiting.
CallAbandoned(c) ==
  /\ run[c].pc = "calling"
  /\ cancelled[c]
  /\ Return(c, RecordAbandoned(byName[run[c].tool], run[c].permit), "abandoned")

\* The attempt's own deadline expired: never retried.
CallExpires(c) ==
  /\ run[c].pc = "calling"
  /\ ~cancelled[c]
  /\ Return(c, RecordFailure(byName[run[c].tool], run[c].permit), "deadline")

\* The last attempt of the budget failed: one failure for the whole sequence.
CallExhausted(c) ==
  /\ run[c].pc = "calling"
  /\ ~cancelled[c]
  /\ run[c].attempt = MaxRetries
  /\ Return(c, RecordFailure(byName[run[c].tool], run[c].permit), "exhausted")

\* An earlier attempt failed: wait before the next, the breaker is not told.
CallFails(c) ==
  /\ run[c].pc = "calling"
  /\ ~cancelled[c]
  /\ run[c].attempt < MaxRetries
  /\ run' = [run EXCEPT ![c].pc = "backoff"]
  /\ UNCHANGED <<byName, cancelled>>

\* The backoff timer fires (a cancelled context may lose the select to it).
BackoffElapses(c) ==
  /\ run[c].pc = "backoff"
  /\ run' = [run EXCEPT ![c] = [run[c] EXCEPT !.pc = "calling",
                                                !.attempt = run[c].attempt + 1]]
  /\ UNCHANGED <<byName, cancelled>>

BackoffAbandoned(c) ==
  /\ run[c].pc = "backoff"
  /\ cancelled[c]
  /\ Return(c, RecordAbandoned(byName[run[c].tool], run[c].permit), "abandoned")

\* Time passes for one open breaker.
Cooldown(t) ==
  /\ byName[t].state = Open
  /\ byName[t].age < ResetTimeout
  /\ byName[t].generation < MaxGeneration
  /\ byName' = [byName EXCEPT ![t].age = @ + 1]
  /\ UNCHANGED <<run, cancelled>>

\* The steps a caller in flight takes until Guard.Run returns.
CallProceeds(c) ==
  \/ CallSucceeds(c) \/ CallAbandoned(c) \/ CallExpires(c) \/ CallExhausted(c)
  \/ CallFails(c) \/ BackoffElapses(c) \/ BackoffAbandoned(c)

BreakerNext ==
  \/ \E c \in Callers, t \in Tools : Admit(c, t) \/ FailFast(c, t)
  \/ \E c \in Callers : Cancel(c) \/ CallProceeds(c)
  \/ \E t \in Tools : Cooldown(t)

\* Every attempt has a deadline its callee honours and every backoff a timer,
\* so a call in flight always proceeds. Nothing makes a caller call again.
BreakerFairness == \A c \in Callers : WF_breakerVars(CallProceeds(c))

BreakerSpec == BreakerInit /\ [][BreakerNext]_breakerVars /\ BreakerFairness

-----------------------------------------------------------------------------
(* Properties *)

\* The callers of t whose outcome its breaker would still honour.
Honored(t) ==
  {c \in Callers : InFlight(c) /\ run[c].tool = t /\ run[c].permit = byName[t].generation}

\* Half-open always has exactly one trial call, still in flight and still able
\* to resolve it: a second would hammer a struggling dependency, and none would
\* refuse every later caller for ever (Allow, RecordAbandoned).
ExactlyOneProbe ==
  \A t \in Tools : byName[t].state = HalfOpen =>
    /\ byName[t].probeActive
    /\ \E c \in Honored(t) : \A d \in Honored(t) : d = c

\* Opening retires every call admitted before it: while a breaker is open no
\* call in flight can close it, re-open it or restart its cooldown.
OpenRetiresPermits ==
  \A t \in Tools : byName[t].state = Open => Honored(t) = {}

\* A closed breaker has always counted fewer failures than the threshold.
ClosedBelowThreshold ==
  \A t \in Tools : byName[t].state = Closed => byName[t].failures < FailureThreshold

\* A cooldown that is running is never restarted or cut short: an open breaker
\* stays open with its age growing until the whole ResetTimeout has passed
\* (RecordFailure and RecordAbandoned of stragglers are no-ops).
CooldownUndisturbed ==
  [][\A t \in Tools : byName[t].state = Open =>
        \/ byName'[t].state = Open /\ byName'[t].age >= byName[t].age
        \/ byName'[t].state = HalfOpen /\ byName[t].age = ResetTimeout]_breakerVars

\* Only the probe decides recovery: half-open becomes closed only by the
\* success of the one current call, and open only by its failure or abandonment.
ProbeDecides ==
  [][\A t \in Tools :
       byName[t].state = HalfOpen /\ byName'[t].state # HalfOpen =>
         \E c \in Honored(t) :
           /\ run'[c].pc = "returned"
           /\ byName'[t].state = Closed <=> run'[c].result = "ok"]_breakerVars

\* The threshold counts failing calls, not attempts: a breaker's failure count
\* grows by one, in a step in which one of its calls runs out of budget.
OneFailurePerCall ==
  [][\A t \in Tools :
       byName[t] # NoBreaker /\ byName'[t].failures > byName[t].failures =>
         /\ byName'[t].failures = byName[t].failures + 1
         /\ \E c \in Honored(t) : run'[c].pc = "returned"
                                  /\ run'[c].result \in {"deadline", "exhausted"}]_breakerVars

\* Only a whole call counts, and only the probe's while half-open.
OutcomesCount == ProbeDecides /\ OneFailurePerCall

\* No breaker is stranded half-open, refusing every caller.
ProbeResolves == \A t \in Tools : byName[t].state = HalfOpen ~> byName[t].state # HalfOpen

=============================================================================
