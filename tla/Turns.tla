------------------------------- MODULE Turns -------------------------------
(***************************************************************************)
(* An A2A turn, from the executor's preparation of the session to the      *)
(* release of the session gate (a2aserver/runner.go), with the token       *)
(* accounting of its callbacks (policy/budget.go).                         *)
(*                                                                         *)
(* The session store hands out detached snapshots, and an appended event   *)
(* writes the totals of the snapshot it came from. So what must be         *)
(* exclusive is everything from load to last append; preparation, which    *)
(* gets or creates the session, is outside the gate. The gate is           *)
(* SessionLocks. The policy's own registry is the same algorithm around    *)
(* one callback, and is free whenever a turn that holds the gate asks.     *)
(*                                                                         *)
(* A turn may be abandoned at any step inside the gate, but not while it   *)
(* waits there: a mutex does not watch the context. The process may die.   *)
(*                                                                         *)
(* A definition Name_Fault is Name as a plausible slip would have left it;  *)
(* nothing uses it but a check that some property notices the slip.        *)
(***************************************************************************)
EXTENDS SessionRegistry, Integers, FiniteSets

CONSTANTS
  Costs,       \* what the model may charge for a call; 0 is no usage data
  MaxTokens,   \* AGENT_MAX_TOKENS_PER_SESSION
  CallLimit,   \* AGENT_A2A_MAX_LLM_CALLS
  StoreFails   \* whether calls of the session store may fail

\* What the configuration guarantees.
TurnsAssumption ==
  /\ Costs \subseteq Nat /\ Costs # {} /\ IsFiniteSet(Costs)
  /\ MaxTokens \in Nat \ {0}   \* policy.New refuses less than one
  /\ CallLimit \in Nat \ {0}   \* otherwise no plugin is installed
  /\ StoreFails \in BOOLEAN

VARIABLES
  stored,   \* session -> the token total in the session store, or None
  counts,   \* invocation -> model calls counted by callBudget; 0 is no entry
  turn,     \* invocation -> the turn it runs
  appended  \* session -> what its appended responses cost (not in the program)

vars == <<locks, refs, locked, user, stored, counts, turn, appended>>

Gate == INSTANCE SessionLocks

None == -1

Turn == [pc: {"idle", "get", "create", "reread", "acquire", "gate", "load", "ask",
              "model", "append", "after", "done"},
         key: Keys,
         total: Nat,       \* the snapshot's token total
         cost: Costs \cup {0},
         calls: 0..CallLimit,  \* calls made of the model (not in the program)
         faulted: BOOLEAN,     \* a store call of the turn failed (not in the program)
         result: {"none", "ok", "failed", "unprepared", "over_calls", "over_tokens"}]

TurnsTypeOK ==
  /\ Gate!TypeOK
  /\ stored \in [Keys -> Nat \cup {None}]
  /\ counts \in [Users -> 0..(CallLimit + 1)]
  /\ turn \in [Users -> Turn]
  /\ appended \in [Keys -> Nat]

NewTurn(k, pc) == [pc |-> pc, key |-> k, total |-> 0, cost |-> 0, calls |-> 0,
                   faulted |-> FALSE, result |-> "none"]

TurnsInit ==
  /\ Gate!Init
  /\ stored = [k \in Keys |-> None]
  /\ counts = [u \in Users |-> 0]
  /\ turn = [u \in Users |-> NewTurn(user[u].key, "idle")]
  /\ appended = [k \in Keys |-> 0]

-----------------------------------------------------------------------------
(* Preparation, by the executor: Get, and on any failure Create. *)

At(u, pc) == turn[u].pc = pc
Goto(u, pc) == turn' = [turn EXCEPT ![u].pc = pc]
Finish(u, pc, result) == turn' = [turn EXCEPT ![u].pc = pc, ![u].result = result]
Faults(u, pc) == turn' = [turn EXCEPT ![u].pc = pc, ![u].faulted = TRUE]
Key(u) == turn[u].key

Deliver(u, k) ==
  /\ At(u, "idle")
  /\ turn' = [turn EXCEPT ![u] = NewTurn(k, "get")]
  /\ UNCHANGED <<registry, stored, counts, appended>>

Get(u) ==
  /\ At(u, "get")
  /\ \/ Goto(u, IF stored[Key(u)] = None THEN "create" ELSE "acquire")
     \/ StoreFails /\ Faults(u, "create")
  /\ UNCHANGED <<registry, stored, counts, appended>>

\* recoveringSessions.Create, first half: the store's own Create, which fails
\* on a session that is there already.
Create(u) ==
  /\ At(u, "create")
  /\ \/ /\ stored[Key(u)] = None
        /\ stored' = [stored EXCEPT ![Key(u)] = 0]
        /\ Goto(u, "acquire")
     \/ stored[Key(u)] # None /\ Goto(u, "reread") /\ UNCHANGED stored
     \/ StoreFails /\ Faults(u, "reread") /\ UNCHANGED stored
  /\ UNCHANGED <<registry, counts, appended>>

\* Second half: the session may exist after all.
Reread(u) ==
  /\ At(u, "reread")
  /\ \/ stored[Key(u)] # None /\ Goto(u, "acquire")
     \/ stored[Key(u)] = None /\ Finish(u, "idle", "unprepared")
     \/ /\ StoreFails
        /\ turn' = [turn EXCEPT ![u].pc = "idle", ![u].faulted = TRUE,
                                ![u].result = "unprepared"]
  /\ UNCHANGED <<registry, stored, counts, appended>>

-----------------------------------------------------------------------------
(* serializingRunner.Run: the gate around the runner *)

AcquireGate(u) ==
  /\ At(u, "acquire")
  /\ Gate!Acquire(u, Key(u))
  /\ Goto(u, "gate")
  /\ UNCHANGED <<stored, counts, appended>>

EnterGate_Shared(u) ==
  /\ At(u, "gate")
  /\ user' = [user EXCEPT ![u].pc = "inside"]
  /\ Goto(u, "load")
  /\ UNCHANGED <<locks, refs, locked, stored, counts, appended>>

EnterGate(u) ==
  /\ At(u, "gate")
  /\ Gate!Enter(u)
  /\ Goto(u, "load")
  /\ UNCHANGED <<stored, counts, appended>>

\* The runner loads a detached snapshot of the session.
Load(u) ==
  /\ At(u, "load")
  /\ turn' = [turn EXCEPT ![u].pc = "ask", ![u].total = stored[Key(u)]]
  /\ UNCHANGED <<registry, stored, counts, appended>>

-----------------------------------------------------------------------------
(* The callbacks around a model call *)

\* callBudget.beforeModel: the call past the limit is refused.
OverCalls(used) == used > CallLimit

\* EnforceTokenBudget: the call that crosses the threshold is admitted, because
\* its cost is not known until it returns.
OverTokens(total) == total >= MaxTokens

\* The call budget's plugin counts the call; then the policy's budget guard
\* answers for the model once the total is reached.
BeforeModel(u) ==
  LET used == counts[u] + 1 IN
  /\ At(u, "ask")
  /\ counts' = [counts EXCEPT ![u] = used]
  /\ \/ OverCalls(used) /\ Finish(u, "after", "over_calls")
     \/ /\ ~OverCalls(used) /\ OverTokens(turn[u].total)
        /\ Finish(u, "after", "over_tokens")
     \/ /\ ~OverCalls(used) /\ ~OverTokens(turn[u].total)
        /\ turn' = [turn EXCEPT ![u].pc = "model", ![u].calls = @ + 1]
  /\ UNCHANGED <<registry, stored, appended>>

\* The model answers, and RecordTokenUsage adds what it cost to the snapshot. A
\* failed call becomes an answer without usage data (HandleModelError).
AfterModel(u) ==
  /\ At(u, "model")
  /\ \E cost \in Costs \cup {0} :
       turn' = [turn EXCEPT ![u].pc = "append", ![u].cost = cost, ![u].total = @ + cost]
  /\ UNCHANGED <<registry, stored, counts, appended>>

\* The runner appends the response, with the snapshot's totals, and either
\* calls the tools it asked for and then the model again, or is done.
AppendEvent(u) ==
  /\ At(u, "append")
  /\ stored' = [stored EXCEPT ![Key(u)] = turn[u].total]
  /\ appended' = [appended EXCEPT ![Key(u)] = @ + turn[u].cost]
  /\ turn' \in {[turn EXCEPT ![u].pc = "ask", ![u].cost = 0],
               [turn EXCEPT ![u].pc = "after", ![u].cost = 0, ![u].result = "ok"]}
  /\ UNCHANGED <<registry, counts>>

\* The store or the runner fails, or the consumer stops reading the events.
Stop(u) ==
  /\ turn[u].pc \in {"load", "ask", "model", "append"}
  /\ Finish(u, "after", "failed")
  /\ UNCHANGED <<registry, stored, counts, appended>>

AfterRun_Keeps(u) ==
  /\ At(u, "after")
  /\ Goto(u, "done")
  /\ UNCHANGED <<registry, stored, counts, appended>>

\* callBudget.afterRun, deferred inside the runner's iterator.
AfterRun(u) ==
  /\ At(u, "after")
  /\ counts' = [counts EXCEPT ![u] = 0]
  /\ turn' = [turn EXCEPT ![u].pc = "done", ![u].total = 0, ![u].cost = 0]
  /\ UNCHANGED <<registry, stored, appended>>

\* The deferred release, in its two sections.
LeaveGate(u) ==
  /\ At(u, "done")
  /\ Gate!Exit(u)
  /\ UNCHANGED <<stored, counts, turn, appended>>

ReleaseGate_NotDeferred(u) ==
  /\ At(u, "done") /\ turn[u].result # "failed"
  /\ Gate!Release(u)
  /\ Goto(u, "idle")
  /\ UNCHANGED <<stored, counts, appended>>

ReleaseGate(u) ==
  /\ At(u, "done")
  /\ Gate!Release(u)
  /\ turn' = [turn EXCEPT ![u] = NewTurn(Key(u), "idle")]
  /\ UNCHANGED <<stored, counts, appended>>

\* The process dies: sessions are durable, everything else is gone.
Crash ==
  /\ locks' = [k \in Keys |-> NoLock]
  /\ refs' = [e \in Locks |-> 0]
  /\ locked' = [e \in Locks |-> FALSE]
  /\ counts' = [u \in Users |-> 0]
  /\ turn' = [u \in Users |-> NewTurn(Key(u), "idle")]
  /\ user' = [u \in Users |-> Gate!Out(Key(u))]
  /\ UNCHANGED <<stored, appended>>

Proceed(u) ==
  \/ Get(u) \/ Create(u) \/ Reread(u) \/ AcquireGate(u) \/ Load(u) \/ BeforeModel(u)
  \/ AfterModel(u) \/ AppendEvent(u) \/ AfterRun(u) \/ LeaveGate(u) \/ ReleaseGate(u)

TurnsNext ==
  \/ \E u \in Users : Proceed(u) \/ EnterGate(u) \/ Stop(u)
  \/ \E u \in Users, k \in Keys : Deliver(u, k)
  \/ Crash

\* A turn runs on: the model and the store answer or fail within their
\* deadlines. The gate is fair as SessionLocks says.
TurnsFairness == \A u \in Users : WF_vars(Proceed(u)) /\ SF_vars(EnterGate(u))

TurnsSpec == TurnsInit /\ [][TurnsNext]_vars /\ TurnsFairness

-----------------------------------------------------------------------------
(* Properties *)

\* "Two overlapping invocations" never lose one's update: the total in the store
\* is what the session's appended responses cost, whatever stopped or died.
TokensKept ==
  /\ TurnsTypeOK
  /\ \A k \in Keys : stored[k] # None => stored[k] = appended[k]

MaxCost == CHOOSE c \in Costs : \A d \in Costs : d <= c

\* "The last admitted call can cross the threshold", by that one call: the calls
\* of other turns of the session cannot add to it.
BudgetCrossedOnce == \A k \in Keys : stored[k] < MaxTokens + MaxCost

TokensAccounted == TokensKept /\ BudgetCrossedOnce

\* "The count is per invocation": a turn refused for its number of calls has
\* made all it was allowed, whatever earlier turns made.
FullCallBudget == \A u \in Users :
  turn[u].result = "over_calls" => turn[u].calls = CallLimit

\* A first-use race alone fails no request: only a store that failed does
\* (recoveringSessions).
PreparedUnlessFaulted == \A u \in Users :
  turn[u].result = "unprepared" => turn[u].faulted

TurnsAreServed == FullCallBudget /\ PreparedUnlessFaulted

\* Every turn ends, however many others of its session are delivered or stop.
TurnsEnd == \A u \in Users : turn[u].pc # "idle" ~> turn[u].pc = "idle"

=============================================================================
