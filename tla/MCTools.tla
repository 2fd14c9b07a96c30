------------------------------ MODULE MCTools ------------------------------
(***************************************************************************)
(* What guards the agent's tool calls, for TLC: the writes of one service  *)
(* and one incident about it (AuditedWrites), and the reads of one tool    *)
(* behind its circuit breaker (CircuitBreaker). `part` chooses which moves. *)
(***************************************************************************)
EXTENDS AuditedWrites, CircuitBreaker, TLC

CONSTANTS api, inc, alice, bob, k1, k2, s1, s2, why, leaky, masked, blank, missing

VARIABLE part

MCServices == {api}
MCIncidents == {inc}
MCOn == [i \in MCIncidents |-> api]

\* A rationale that redaction leaves alone, and one that it rewrites.
MCRedact == (why :> why) @@ (leaky :> masked) @@ (masked :> masked)

Call(action, invocation, session, rationale) ==
  [action |-> action,
   target |-> IF action = "resolve_incident" THEN inc ELSE api,
   invocation |-> invocation, session |-> session, user |-> alice,
   network |-> alice, confirmed |-> TRUE, frozen |-> FALSE, rationale |-> rationale]

Restart == Call("restart_service", k1, s1, why)
Resolve == Call("resolve_incident", k1, s1, leaky)

\* One restart redelivered in another session with another rationale, and the
\* resolution approved in the same invocation; the calls that must not write; and
\* a general append.
MCRequests == {Restart, [Restart EXCEPT !.session = s2, !.rationale = leaky], Resolve,
  [Restart EXCEPT !.frozen = TRUE], [Restart EXCEPT !.confirmed = FALSE],
  [Restart EXCEPT !.invocation = blank], [Restart EXCEPT !.rationale = blank],
  [Restart EXCEPT !.network = "unauthenticated"],
  [Restart EXCEPT !.network = bob, !.invocation = k2],
  Call("append", k2, s1, leaky)}

Dataset(service, incident) ==
  [services |-> [s \in MCServices |-> service],
   incidents |-> [i \in MCIncidents |-> incident]]

MCSeed == [data |-> Dataset("degraded", "open"), audit |-> <<>>, prepared |-> TRUE]

Old(invocation) ==
  [invocation |-> invocation, action |-> "restart_service", target |-> api,
   session |-> s1, approvedBy |-> alice, rationale |-> why,
   context |-> [status |-> "degraded", open |-> {}]]

\* Databases of a binary that had no unique index yet: one row, or one key twice.
MCRestored ==
  {[MCSeed EXCEPT !.prepared = FALSE, !.audit = rows] :
     rows \in {<<Old(k1)>>, <<Old(k1), Old(k1)>>}}

ToolsInit ==
  /\ part \in {"writes", "reads"}
  /\ Init /\ BreakerInit
  /\ part # "writes" => runtime = Missing

ToolsNext ==
  \/ part = "writes" /\ Next /\ UNCHANGED <<part, breakerVars>>
  \/ part = "reads" /\ BreakerNext /\ UNCHANGED <<part, vars>>

ToolsSpec ==
  ToolsInit /\ [][ToolsNext]_<<part, vars, breakerVars>> /\ Fairness /\ BreakerFairness
=============================================================================
