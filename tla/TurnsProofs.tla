---------------------------- MODULE TurnsProofs ----------------------------
(***************************************************************************)
(* The token and call budgets of a session's turns, for any number of      *)
(* turns, sessions, costs and limits, with store failures, abandoned turns *)
(* and crashes.                                                            *)
(*                                                                         *)
(* A running turn is inside the gate of its session (Placed), where        *)
(* SessionLocksProofs has it alone. So the snapshot it loaded stays the    *)
(* store's total, plus what its last call cost (Snapshot): the total it    *)
(* appends counts everything, and a call is admitted only on a store total *)
(* below the budget. The invocation's counter is the number of calls its   *)
(* turn has made, and is zero before the turn and after it (Counted).      *)
(***************************************************************************)
EXTENDS Turns, FiniteSetTheorems, WellFoundedInduction, TLAPS

GateProofs == INSTANCE SessionLocksProofs

\* What the configuration guarantees, and what the gate assumes.
Configured ==
  /\ TurnsAssumption
  /\ IsFiniteSet(Users)
  /\ NoLock \notin Locks

Outside == {"idle", "get", "create", "reread", "acquire"}
Calling == {"ask", "model", "append"}

\* What a turn is, by itself.
Sound(t) ==
  /\ t \in Turn
  /\ t.pc \notin {"idle", "after", "done"} => t.result = "none"
  /\ t.pc \notin Calling \cup {"after", "done"} => t.calls = 0
  /\ t.result = "over_calls" => t.calls = CallLimit
  /\ t.result = "unprepared" => t.faulted

\* Where it is in the gate.
Placed(g, t) ==
  /\ t.pc \in Outside => g.pc = "out"
  /\ t.pc = "gate" => g.pc = "waiting" /\ g.key = t.key
  /\ t.pc \in Calling \cup {"load", "after"} => g.pc = "inside" /\ g.key = t.key
  /\ t.pc = "done" => g.pc \in {"inside", "leaving"}

\* The invocation's count of calls.
Counted(n, t) ==
  /\ n \in 0..(CallLimit + 1)
  /\ t.pc \in Calling => n = t.calls
  /\ t.pc \notin Calling \cup {"after"} => n = 0

\* The session it needs is there, and what it loaded is still what the store has.
Snapshot(s, t) ==
  /\ t.pc \in Calling \cup {"acquire", "gate", "load"} => s[t.key] # None
  /\ t.pc = "reread" => s[t.key] # None \/ t.faulted
  /\ t.pc \in {"ask", "model"} => t.total = s[t.key]
  /\ t.pc = "append" => t.total = s[t.key] + t.cost
  /\ t.pc \in {"model", "append"} => s[t.key] < MaxTokens

Typed ==
  /\ stored \in [Keys -> Nat \cup {None}]
  /\ counts \in [Users -> 0..(CallLimit + 1)]
  /\ turn \in [Users -> Turn]
  /\ appended \in [Keys -> Nat]

TurnsHold == \A u \in Users :
  /\ Sound(turn[u])
  /\ Placed(user[u], turn[u])
  /\ Counted(counts[u], turn[u])
  /\ Snapshot(stored, turn[u])

Accounted == \A k \in Keys :
  /\ appended[k] = IF stored[k] = None THEN 0 ELSE stored[k]
  /\ stored[k] < MaxTokens + MaxCost

IndInv ==
  /\ GateProofs!IndInv
  /\ Typed
  /\ TurnsHold
  /\ Accounted

-----------------------------------------------------------------------------
(* The largest cost *)

\* A nonempty set of numbers has a least one.
LEMMA Least == ASSUME NEW S \in SUBSET Nat, S # {} PROVE \E i \in S : \A j \in S : i <= j
  <1> DEFINE R == OpToRel(<, Nat)
  <1>1. \E x \in S : \A y \in S : ~(<<y, x>> \in R)
    <2>1. IsWellFoundedOn(R, Nat)
      BY NatLessThanWellFounded
    <2> HIDE DEF R
    <2> QED
      BY <2>1, WFMin
  <1>2. \A x, y \in Nat : <<y, x>> \in R <=> y < x
    BY DEF OpToRel
  <1> HIDE DEF R
  <1>3. PICK x \in S : \A y \in S : ~(<<y, x>> \in R)
    BY <1>1
  <1>4. \A y \in S : ~(y < x) /\ y \in Nat /\ x \in Nat
    BY <1>2, <1>3
  <1> QED
    BY <1>3, <1>4

\* Finitely many numbers have a bound: otherwise some shortest enumeration has none.
LEMMA Bounded ==
  ASSUME NEW S \in SUBSET Nat, IsFiniteSet(S)
  PROVE  \E b \in Nat : \A c \in S : c <= b
  <1>1. PICK n \in Nat : ExistsSurjection(1..n, S)
    BY FS_NatSurjection
  <1>2. PICK f \in [1..n -> S] : \A c \in S : \E i \in 1..n : f[i] = c
    BY <1>1 DEF ExistsSurjection, Surjection
  <1> DEFINE Covered(m, b) == \A i \in 1..m : f[i] <= b
             Bad == {m \in 0..n : \A b \in Nat : ~Covered(m, b)}
  <1>3. ASSUME Bad # {} PROVE FALSE
    <2>1. PICK m \in Bad : \A j \in Bad : m <= j
      <3>1. Bad \in SUBSET Nat
        OBVIOUS
      <3> HIDE DEF Bad
      <3> QED
        BY <1>3, <3>1, Least
    <2>2. m # 0
      <3>1. Covered(0, 0)
        OBVIOUS
      <3> QED
        BY <2>1, <3>1
    <2>3. m - 1 \in 0..n /\ m - 1 \notin Bad /\ m \in 1..n
      <3>1. m \in 0..n
        BY <2>1
      <3>2. m - 1 \in 0..n /\ m - 1 < m /\ m \in 1..n
        BY <2>2, <3>1
      <3> HIDE DEF Bad
      <3> QED
        BY <2>1, <3>1, <3>2
    <2>4. PICK b \in Nat : Covered(m - 1, b)
      BY <2>3
    <2>5. f[m] \in Nat
      BY <1>2, <2>3
    <2>6. PICK d \in Nat : b <= d /\ f[m] <= d
      BY <2>4, <2>5
    <2>7. Covered(m, d)
      <3>1. ASSUME NEW i \in 1..m PROVE f[i] <= d
        <4>1. m \in 1..n /\ n \in Nat
          BY <2>3
        <4>2. i \in 1..n /\ (i = m \/ i \in 1..(m - 1))
          BY <4>1
        <4>3. f[i] \in Nat /\ f[i] \in S
          BY <1>2, <4>2
        <4> QED
          BY <2>4, <2>6, <4>2, <4>3
      <3> QED
        BY <3>1
    <2> QED
      BY <2>1, <2>7
  <1>4. n \in 0..n
    OBVIOUS
  <1>5. PICK b \in Nat : Covered(n, b)
    BY <1>3, <1>4
  <1> QED
    BY <1>2, <1>5

\* The model's dearest call has a cost.
LEMMA MaxCostFacts ==
  ASSUME TurnsAssumption
  PROVE  MaxCost \in Nat /\ MaxCost \in Costs /\ \A c \in Costs : c <= MaxCost
  <1>1. Costs \in SUBSET Nat /\ Costs # {} /\ IsFiniteSet(Costs)
    BY DEF TurnsAssumption
  <1> DEFINE Bounds == {b \in Nat : \A c \in Costs : c <= b}
  <1>2. Bounds \in SUBSET Nat /\ Bounds # {}
    BY <1>1, Bounded
  <1>3. PICK m \in Bounds : \A b \in Bounds : m <= b
    <2> HIDE DEF Bounds
    <2> QED
      BY <1>2, Least
  <1>4. m \in Costs
    <2> SUFFICES ASSUME m \notin Costs PROVE FALSE
      OBVIOUS
    <2>1. PICK c \in Costs : c \in Nat /\ c < m
      <3>1. PICK c \in Costs : c \in Nat /\ m \in Nat /\ c <= m /\ c # m
        BY <1>1, <1>3
      <3> QED
        BY <3>1
    <2>2. m - 1 \in Nat /\ m \in Nat
      BY <1>3, <2>1
    <2>3. \A d \in Costs : d <= m - 1
      BY <1>1, <1>3, <2>2
    <2>4. m - 1 \in Bounds
      BY <2>2, <2>3
    <2> HIDE DEF Bounds
    <2> QED
      BY <1>3, <2>2, <2>4
  <1>5. \E c \in Costs : \A d \in Costs : d <= c
    BY <1>3, <1>4
  <1> QED
    BY <1>1, <1>5 DEF MaxCost

-----------------------------------------------------------------------------
(* The gate *)

\* The gate starts empty, and keeps its invariant whatever a turn does to it.
LEMMA GateInit ==
  ASSUME Configured
  PROVE  Gate!Init => GateProofs!IndInv
  <1>1. GateProofs!IsFiniteSet(Users) /\ NoLock \notin Locks
    BY DEF Configured, IsFiniteSet, GateProofs!IsFiniteSet
  <1> QED
    BY <1>1, GateProofs!InitIndInv DEF Gate!Init, GateProofs!Init, Gate!Out, GateProofs!Out

LEMMA GateSteps ==
  ASSUME Configured, GateProofs!IndInv, NEW u \in Users,
         \/ \E k \in Keys : Gate!Acquire(u, k)
         \/ Gate!Enter(u) \/ Gate!Exit(u) \/ Gate!Release(u)
  PROVE  GateProofs!IndInv'
  <1>1. GateProofs!IsFiniteSet(Users) /\ NoLock \notin Locks
    BY DEF Configured, IsFiniteSet, GateProofs!IsFiniteSet
  <1>2. GateProofs!Next
    BY DEF Gate!Acquire, Gate!Enter, Gate!Exit, Gate!Release, Gate!Reachable, Gate!Holders,
           Gate!Out, GateProofs!Next, GateProofs!Acquire, GateProofs!Enter, GateProofs!Exit,
           GateProofs!Release, GateProofs!Reachable, GateProofs!Holders, GateProofs!Out
  <1> QED
    BY <1>1, <1>2, GateProofs!Inductive

\* A step that does not touch the gate.
LEMMA GateStill ==
  ASSUME Configured, GateProofs!IndInv, UNCHANGED registry
  PROVE  GateProofs!IndInv'
  <1>1. GateProofs!IsFiniteSet(Users) /\ NoLock \notin Locks
    BY DEF Configured, IsFiniteSet, GateProofs!IsFiniteSet
  <1>2. UNCHANGED GateProofs!registry
    BY DEF registry, GateProofs!registry
  <1> QED
    BY <1>1, <1>2, GateProofs!Inductive

\* What turns need of it: its users are typed, and at most one is inside a session.
LEMMA GateFacts ==
  ASSUME GateProofs!IndInv
  PROVE  /\ Gate!TypeOK
         /\ \A u, v \in Users :
              user[u].pc = "inside" /\ user[v].pc = "inside" /\ user[u].key = user[v].key => u = v
  BY DEF GateProofs!IndInv, GateProofs!TypeOK, GateProofs!Alone, GateProofs!User,
         GateProofs!Places, Gate!TypeOK, Gate!User, Gate!Places

\* The gate's own steps move one user.
LEMMA UserFacts ==
  ASSUME GateProofs!IndInv, NEW u \in Users
  PROVE  /\ user \in [Users -> Gate!User]
         /\ \A k \in Keys : Gate!Acquire(u, k) =>
              /\ user'[u].pc = "waiting" /\ user'[u].key = k
              /\ \A v \in Users \ {u} : user'[v] = user[v]
         /\ Gate!Enter(u) => /\ user[u].pc = "waiting" /\ user'[u].pc = "inside"
                             /\ user'[u].key = user[u].key
                             /\ \A v \in Users \ {u} : user'[v] = user[v]
         /\ Gate!Exit(u) => /\ user'[u].pc = "leaving"
                            /\ \A v \in Users \ {u} : user'[v] = user[v]
         /\ Gate!Release(u) => /\ user'[u].pc = "out"
                               /\ \A v \in Users \ {u} : user'[v] = user[v]
  <1>1. user \in [Users -> Gate!User]
    BY GateFacts DEF Gate!TypeOK
  <1>2. ASSUME NEW k \in Keys, Gate!Acquire(u, k)
        PROVE  /\ user'[u].pc = "waiting" /\ user'[u].key = k
               /\ \A v \in Users \ {u} : user'[v] = user[v]
    BY <1>1, <1>2 DEF Gate!Acquire
  <1>3. Gate!Enter(u) => /\ user[u].pc = "waiting" /\ user'[u].pc = "inside"
                         /\ user'[u].key = user[u].key
                         /\ \A v \in Users \ {u} : user'[v] = user[v]
    BY <1>1 DEF Gate!Enter
  <1>4. Gate!Exit(u) => user'[u].pc = "leaving" /\ \A v \in Users \ {u} : user'[v] = user[v]
    BY <1>1 DEF Gate!Exit
  <1>5. Gate!Release(u) => user'[u].pc = "out" /\ \A v \in Users \ {u} : user'[v] = user[v]
    BY <1>1 DEF Gate!Release, Gate!Out
  <1> QED
    BY <1>1, <1>2, <1>3, <1>4, <1>5

-----------------------------------------------------------------------------
(* Steps of a turn *)

\* The parts of a turn.
LEMMA TurnFacts ==
  ASSUME NEW t \in Turn
  PROVE  /\ t.key \in Keys /\ t.total \in Nat /\ t.cost \in Costs \cup {0}
         /\ t.calls \in 0..CallLimit /\ t.faulted \in BOOLEAN
         /\ t.pc \in {"idle", "get", "create", "reread", "acquire", "gate", "load", "ask",
                      "model", "append", "after", "done"}
         /\ t.result \in {"none", "ok", "failed", "unprepared", "over_calls", "over_tokens"}
  BY DEF Turn

\* A new turn of a session, and a turn that is over.
LEMMA NewTurnFacts ==
  ASSUME Configured, NEW k \in Keys, NEW pc \in {"idle", "get"}
  PROVE  LET t == NewTurn(k, pc) IN
         /\ Sound(t) /\ t.pc = pc /\ t.key = k /\ t.calls = 0
         /\ \A g, s : g.pc = "out" => Placed(g, t) /\ Counted(0, t) /\ Snapshot(s, t)
  <1>1. CallLimit \in Nat \ {0}
    BY DEF Configured, TurnsAssumption
  <1> DEFINE t == NewTurn(k, pc)
  <1>2. /\ t \in Turn /\ t.pc = pc /\ t.key = k /\ t.calls = 0 /\ t.result = "none"
    BY <1>1 DEF NewTurn, Turn
  <1> HIDE DEF t
  <1>3. Sound(t)
    BY <1>2 DEF Sound
  <1>4. \A g, s : g.pc = "out" => Placed(g, t) /\ Counted(0, t) /\ Snapshot(s, t)
    BY <1>1, <1>2 DEF Placed, Counted, Snapshot, Calling, Outside
  <1> QED
    BY <1>2, <1>3, <1>4 DEF t

\* What holds of a turn before its step.
LEMMA BeforeStep ==
  ASSUME Configured, IndInv, NEW u \in Users
  PROVE  /\ turn \in [Users -> Turn] /\ counts \in [Users -> 0..(CallLimit + 1)]
         /\ turn[u] \in Turn /\ Key(u) = turn[u].key /\ Key(u) \in Keys
         /\ Sound(turn[u]) /\ Placed(user[u], turn[u])
         /\ Counted(counts[u], turn[u]) /\ Snapshot(stored, turn[u])
         /\ stored \in [Keys -> Nat \cup {None}] /\ stored[Key(u)] \in Nat \cup {None}
         /\ appended \in [Keys -> Nat] /\ appended[Key(u)] \in Nat
         /\ CallLimit \in Nat \ {0} /\ MaxTokens \in Nat \ {0} /\ MaxCost \in Nat
         /\ counts[u] \in Int
  <1>1. MaxCost \in Nat
    BY MaxCostFacts DEF Configured
  <1>2. turn[u] \in Turn /\ CallLimit \in Nat \ {0} /\ counts[u] \in 0..(CallLimit + 1)
    BY DEF Configured, TurnsAssumption, IndInv, Typed
  <1>3. turn[u].key \in Keys
    BY <1>2, TurnFacts
  <1> QED
    BY <1>1, <1>2, <1>3 DEF Configured, TurnsAssumption, IndInv, Typed, TurnsHold, Key

\* A step of one turn that leaves the store alone.
LEMMA LocalStep ==
  ASSUME Configured, IndInv, NEW u \in Users, NEW t, NEW n,
         GateProofs!IndInv', \A v \in Users \ {u} : user'[v] = user[v],
         turn' = [turn EXCEPT ![u] = t], counts' = [counts EXCEPT ![u] = n],
         UNCHANGED <<stored, appended>>,
         Sound(t), Placed(user'[u], t), Counted(n, t), Snapshot(stored, t)
  PROVE  IndInv'
  <1>1. turn'[u] = t /\ \A v \in Users \ {u} : turn'[v] = turn[v]
    BY DEF IndInv, Typed
  <1>2. counts'[u] = n /\ \A v \in Users \ {u} : counts'[v] = counts[v]
    BY DEF IndInv, Typed
  <1>3. Typed'
    BY DEF IndInv, Typed, Sound, Counted
  <1>4. TurnsHold'
    BY <1>1, <1>2 DEF IndInv, TurnsHold
  <1>5. Accounted'
    BY DEF IndInv, Accounted
  <1> QED
    BY <1>3, <1>4, <1>5 DEF IndInv

\* A step of one turn that writes its session, of which no other turn holds a snapshot.
LEMMA StoreStep ==
  ASSUME Configured, IndInv, NEW u \in Users, NEW t, NEW k \in Keys, NEW total \in Nat,
         UNCHANGED <<registry, counts>>,
         turn' = [turn EXCEPT ![u] = t],
         stored' = [stored EXCEPT ![k] = total], appended' = [appended EXCEPT ![k] = total],
         total < MaxTokens + MaxCost,
         \A v \in Users \ {u} : turn[v].key = k => turn[v].pc \notin Calling,
         Sound(t), Placed(user[u], t), Counted(counts[u], t), Snapshot(stored', t)
  PROVE  IndInv'
  <1>1. turn'[u] = t /\ \A v \in Users \ {u} : turn'[v] = turn[v]
    BY DEF IndInv, Typed
  <1>2. /\ stored'[k] = total /\ appended'[k] = total /\ total # None
        /\ \A l \in Keys \ {k} : stored'[l] = stored[l] /\ appended'[l] = appended[l]
    BY DEF IndInv, Typed, None
  <1>3. Typed'
    BY DEF IndInv, Typed, Sound
  <1>4. \A v \in Users \ {u} : Snapshot(stored', turn[v])
    <2> SUFFICES ASSUME NEW v \in Users \ {u} PROVE Snapshot(stored', turn[v])
      OBVIOUS
    <2>1. Snapshot(stored, turn[v]) /\ turn[v].key \in Keys
      BY TurnFacts DEF IndInv, TurnsHold, Typed
    <2>2. CASE turn[v].key # k
      BY <1>2, <2>1, <2>2 DEF Snapshot
    <2>3. CASE turn[v].key = k
      BY <1>2, <2>1, <2>3 DEF Snapshot, Calling
    <2> QED
      BY <2>2, <2>3
  <1>5. TurnsHold'
    BY <1>1, <1>4 DEF IndInv, TurnsHold, registry
  <1>6. Accounted'
    BY <1>2 DEF IndInv, Accounted
  <1>7. GateProofs!IndInv'
    BY GateStill DEF IndInv
  <1> QED
    BY <1>3, <1>5, <1>6, <1>7 DEF IndInv

\* A step of one turn that leaves the gate, the store and the counters alone.
LEMMA MoveStep ==
  ASSUME Configured, IndInv, NEW u \in Users, NEW t,
         turn' = [turn EXCEPT ![u] = t], UNCHANGED <<registry, stored, counts, appended>>,
         Sound(t), Placed(user[u], t), Counted(counts[u], t), Snapshot(stored, t)
  PROVE  IndInv'
  <1>1. counts' = [counts EXCEPT ![u] = counts[u]]
    BY DEF IndInv, Typed
  <1>2. GateProofs!IndInv' /\ user' = user
    BY GateStill DEF IndInv, registry
  <1> QED
    BY <1>1, <1>2, LocalStep

\* A turn is delivered.
LEMMA DeliverStep ==
  ASSUME Configured, IndInv, NEW u \in Users, NEW k \in Keys, Deliver(u, k)
  PROVE  IndInv'
  <1> DEFINE t == NewTurn(k, "get")
  <1>1. user[u].pc = "out" /\ counts[u] = 0
    BY BeforeStep DEF Deliver, At, Placed, Counted, Outside, Calling
  <1>2. Sound(t) /\ Placed(user[u], t) /\ Counted(counts[u], t) /\ Snapshot(stored, t)
    BY <1>1, NewTurnFacts
  <1>3. turn' = [turn EXCEPT ![u] = t] /\ UNCHANGED <<registry, stored, counts, appended>>
    BY DEF Deliver
  <1> HIDE DEF t
  <1> QED
    BY <1>2, <1>3, MoveStep

\* Preparation, up to the session that is there or has failed to be.
LEMMA PrepareStep ==
  ASSUME Configured, IndInv, NEW u \in Users, NEW t \in Turn,
         turn[u].pc \in {"get", "create", "reread"},
         turn' = [turn EXCEPT ![u] = t], UNCHANGED <<registry, stored, counts, appended>>,
         t.key = Key(u), t.calls = turn[u].calls,
         \/ t.pc = "create" /\ t.result = turn[u].result
         \/ t.pc = "acquire" /\ stored[Key(u)] # None /\ t.result = turn[u].result
         \/ /\ t.pc = "reread" /\ (stored[Key(u)] # None \/ t.faulted)
            /\ t.result = turn[u].result
         \/ t.pc = "idle" /\ t.result = "unprepared" /\ t.faulted
  PROVE  IndInv'
  <1>1. /\ user[u].pc = "out" /\ counts[u] = 0 /\ turn[u].result = "none" /\ turn[u].calls = 0
        /\ CallLimit \in Nat
    BY BeforeStep DEF Placed, Counted, Outside, Calling, Sound
  <1>2. Sound(t) /\ Placed(user[u], t) /\ Counted(counts[u], t) /\ Snapshot(stored, t)
    BY <1>1 DEF Sound, Placed, Counted, Snapshot, Outside, Calling
  <1> QED
    BY <1>2, MoveStep

\* Get, and the second look of a Create that failed.
LEMMA GetStep ==
  ASSUME Configured, IndInv, NEW u \in Users, Get(u) \/ Reread(u)
  PROVE  IndInv'
  <1>1. turn[u] \in Turn /\ turn \in [Users -> Turn] /\ Snapshot(stored, turn[u])
    BY BeforeStep
  <1>2. /\ turn[u].pc \in {"get", "reread"} /\ UNCHANGED <<registry, stored, counts, appended>>
        /\ turn[u].pc = "reread" => stored[Key(u)] # None \/ turn[u].faulted
    BY <1>1 DEF Get, Reread, At, Snapshot, Key
  <1> DEFINE t == turn'[u]
  <1>3. /\ t \in Turn /\ turn' = [turn EXCEPT ![u] = t]
        /\ t.key = Key(u) /\ t.calls = turn[u].calls
        /\ \/ t.pc = "create" /\ t.result = turn[u].result
           \/ t.pc = "acquire" /\ stored[Key(u)] # None /\ t.result = turn[u].result
           \/ t.pc = "idle" /\ t.result = "unprepared" /\ t.faulted
    <2>1. CASE Get(u)
      BY <1>1, <2>1 DEF Get, Goto, Faults, Turn, Key
    <2>2. CASE Reread(u)
      BY <1>1, <1>2, <2>2 DEF Reread, Goto, Finish, Turn, Key, At
    <2> QED
      BY <2>1, <2>2
  <1> HIDE DEF t
  <1> QED
    BY <1>2, <1>3, PrepareStep

\* Create: the session is made, or is to be looked for again.
LEMMA CreateStep ==
  ASSUME Configured, IndInv, NEW u \in Users, Create(u)
  PROVE  IndInv'
  <1> DEFINE k == Key(u)
             t == turn'[u]
  <1>1. /\ turn[u] \in Turn /\ turn \in [Users -> Turn] /\ turn[u].pc = "create"
        /\ user[u].pc = "out" /\ counts[u] = 0 /\ turn[u].result = "none"
        /\ turn[u].calls = 0 /\ CallLimit \in Nat /\ k \in Keys /\ turn[u].key = k
        /\ MaxTokens \in Nat \ {0} /\ MaxCost \in Nat /\ appended \in [Keys -> Nat]
    BY BeforeStep DEF Create, At, Placed, Counted, Outside, Calling, Sound
  <1>2. CASE stored' = stored
    <2>1. /\ t \in Turn /\ turn' = [turn EXCEPT ![u] = t] /\ t.key = k
          /\ t.calls = turn[u].calls /\ t.pc = "reread" /\ t.result = turn[u].result
          /\ (stored[k] # None \/ t.faulted)
      <3>1. CASE stored[k] # None /\ Goto(u, "reread")
        BY <1>1, <3>1 DEF Goto, Turn
      <3>2. CASE Faults(u, "reread")
        BY <1>1, <3>2 DEF Faults, Turn
      <3>3. CASE stored[k] = None /\ stored' = [stored EXCEPT ![k] = 0]
        BY <1>1, <1>2, <3>3 DEF IndInv, Typed, None
      <3> QED
        BY <3>1, <3>2, <3>3 DEF Create
    <2>2. UNCHANGED <<registry, stored, counts, appended>>
      BY <1>2 DEF Create
    <2> HIDE DEF t
    <2> QED
      BY <1>1, <2>1, <2>2, PrepareStep
  <1>3. CASE /\ stored[k] = None /\ Goto(u, "acquire")
             /\ stored' = [stored EXCEPT ![k] = 0]
    <2>1. /\ t \in Turn /\ turn' = [turn EXCEPT ![u] = t] /\ t.key = k
          /\ t.calls = 0 /\ t.pc = "acquire" /\ t.result = "none"
      BY <1>1, <1>3 DEF Goto, Turn
    <2>2. appended' = [appended EXCEPT ![k] = 0]
      <3>1. appended[k] = 0 /\ appended' = appended
        BY <1>1, <1>3 DEF IndInv, Accounted, Create
      <3> QED
        BY <1>1, <3>1
    <2>3. stored'[k] = 0
      BY <1>1, <1>3 DEF IndInv, Typed
    <2>4. Sound(t) /\ Placed(user[u], t) /\ Counted(counts[u], t) /\ Snapshot(stored', t)
      BY <1>1, <2>1, <2>3 DEF Sound, Placed, Counted, Snapshot, Outside, Calling, None
    <2>5. \A v \in Users \ {u} : turn[v].key = k => turn[v].pc \notin Calling
      BY <1>3 DEF IndInv, TurnsHold, Snapshot
    <2>6. 0 < MaxTokens + MaxCost
      BY <1>1
    <2>7. UNCHANGED <<registry, counts>>
      BY DEF Create
    <2> HIDE DEF t, k
    <2> QED
      BY <1>1, <1>3, <2>1, <2>2, <2>4, <2>5, <2>6, <2>7, StoreStep DEF k
  <1> QED
    BY <1>2, <1>3 DEF Create

\* A turn comes to the gate of its session.
LEMMA AcquireStep ==
  ASSUME Configured, IndInv, NEW u \in Users, AcquireGate(u)
  PROVE  IndInv'
  <1> DEFINE t == [turn[u] EXCEPT !.pc = "gate"]
  <1>1. /\ turn[u] \in Turn /\ turn \in [Users -> Turn] /\ counts \in [Users -> 0..(CallLimit + 1)]
        /\ turn[u].pc = "acquire" /\ Sound(turn[u])
        /\ Counted(counts[u], turn[u]) /\ Snapshot(stored, turn[u]) /\ turn[u].key \in Keys
    BY BeforeStep DEF AcquireGate, At
  <1>2. /\ Gate!Acquire(u, turn[u].key) /\ turn' = [turn EXCEPT ![u] = t]
        /\ UNCHANGED <<stored, counts, appended>>
    BY DEF AcquireGate, Goto, Key
  <1>3. counts' = [counts EXCEPT ![u] = counts[u]]
    BY <1>1, <1>2
  <1>4. GateProofs!IndInv'
    BY <1>1, <1>2, GateSteps DEF IndInv
  <1>5. /\ user'[u].pc = "waiting" /\ user'[u].key = turn[u].key
        /\ \A v \in Users \ {u} : user'[v] = user[v]
    BY <1>1, <1>2, UserFacts DEF IndInv
  <1>6. /\ t \in Turn /\ t.pc = "gate" /\ t.key = turn[u].key /\ t.result = turn[u].result
        /\ t.calls = turn[u].calls /\ t.faulted = turn[u].faulted
    BY <1>1 DEF Turn
  <1> HIDE DEF t
  <1>7. Sound(t) /\ Placed(user'[u], t) /\ Counted(counts[u], t) /\ Snapshot(stored, t)
    BY <1>1, <1>5, <1>6 DEF Sound, Placed, Counted, Snapshot, Outside, Calling
  <1> QED
    BY <1>2, <1>3, <1>4, <1>5, <1>7, LocalStep

\* The gate lets it in.
LEMMA EnterStep ==
  ASSUME Configured, IndInv, NEW u \in Users, EnterGate(u)
  PROVE  IndInv'
  <1> DEFINE t == [turn[u] EXCEPT !.pc = "load"]
  <1>1. /\ turn[u] \in Turn /\ turn \in [Users -> Turn] /\ counts \in [Users -> 0..(CallLimit + 1)]
        /\ turn[u].pc = "gate" /\ Sound(turn[u]) /\ Placed(user[u], turn[u])
        /\ Counted(counts[u], turn[u]) /\ Snapshot(stored, turn[u])
    BY BeforeStep DEF EnterGate, At
  <1>2. /\ Gate!Enter(u) /\ turn' = [turn EXCEPT ![u] = t]
        /\ UNCHANGED <<stored, counts, appended>>
    BY DEF EnterGate, Goto
  <1>3. counts' = [counts EXCEPT ![u] = counts[u]]
    BY <1>1, <1>2
  <1>4. GateProofs!IndInv'
    BY <1>2, GateSteps DEF IndInv
  <1>5. /\ user'[u].pc = "inside" /\ user'[u].key = user[u].key
        /\ \A v \in Users \ {u} : user'[v] = user[v]
    BY <1>2, UserFacts DEF IndInv
  <1>6. /\ t \in Turn /\ t.pc = "load" /\ t.key = turn[u].key /\ t.result = turn[u].result
        /\ t.calls = turn[u].calls /\ t.faulted = turn[u].faulted
    BY <1>1 DEF Turn
  <1> HIDE DEF t
  <1>7. Sound(t) /\ Placed(user'[u], t) /\ Counted(counts[u], t) /\ Snapshot(stored, t)
    BY <1>1, <1>5, <1>6 DEF Sound, Placed, Counted, Snapshot, Outside, Calling
  <1> QED
    BY <1>2, <1>3, <1>4, <1>5, <1>7, LocalStep

\* It loads the session's total.
LEMMA LoadStep ==
  ASSUME Configured, IndInv, NEW u \in Users, Load(u)
  PROVE  IndInv'
  <1> DEFINE t == [turn[u] EXCEPT !.pc = "ask", !.total = stored[Key(u)]]
  <1>1. /\ turn[u] \in Turn /\ turn \in [Users -> Turn]
        /\ turn[u].pc = "load" /\ Sound(turn[u]) /\ Placed(user[u], turn[u])
        /\ Counted(counts[u], turn[u]) /\ Snapshot(stored, turn[u]) /\ Key(u) = turn[u].key
        /\ stored[Key(u)] \in Nat \cup {None}
    BY BeforeStep DEF Load, At
  <1>2. stored[Key(u)] \in Nat
    BY <1>1 DEF Snapshot
  <1>3. /\ t \in Turn /\ t.pc = "ask" /\ t.key = turn[u].key /\ t.result = turn[u].result
        /\ t.calls = turn[u].calls /\ t.total = stored[t.key]
    BY <1>1, <1>2 DEF Turn
  <1>4. turn' = [turn EXCEPT ![u] = t] /\ UNCHANGED <<registry, stored, counts, appended>>
    BY DEF Load
  <1> HIDE DEF t
  <1>5. Sound(t) /\ Placed(user[u], t) /\ Counted(counts[u], t) /\ Snapshot(stored, t)
    BY <1>1, <1>3 DEF Sound, Placed, Counted, Snapshot, Outside, Calling
  <1> QED
    BY <1>4, <1>5, MoveStep

\* A call is counted, and admitted below both budgets only.
LEMMA BeforeModelStep ==
  ASSUME Configured, IndInv, NEW u \in Users, BeforeModel(u)
  PROVE  IndInv'
  <1> DEFINE n == counts[u] + 1
             t == turn'[u]
  <1>1. /\ turn[u] \in Turn /\ turn \in [Users -> Turn]
        /\ turn[u].pc = "ask" /\ Sound(turn[u]) /\ Placed(user[u], turn[u])
        /\ Counted(counts[u], turn[u]) /\ Snapshot(stored, turn[u])
        /\ CallLimit \in Nat \ {0} /\ MaxTokens \in Nat \ {0}
    BY BeforeStep DEF BeforeModel, At
  <1>2. counts[u] = turn[u].calls /\ turn[u].calls \in 0..CallLimit /\ turn[u].total \in Nat
        /\ n \in 0..(CallLimit + 1)
    BY <1>1, TurnFacts DEF Counted, Calling
  <1>3. /\ counts' = [counts EXCEPT ![u] = n] /\ UNCHANGED <<registry, stored, appended>>
    BY DEF BeforeModel
  <1>4. /\ turn' = [turn EXCEPT ![u] = t] /\ t \in Turn /\ t.key = turn[u].key
        /\ t.total = turn[u].total
        /\ \/ /\ t.pc = "after" /\ t.calls = turn[u].calls
              /\ t.result = "over_calls" => turn[u].calls = CallLimit
              /\ t.result \in {"over_calls", "over_tokens"}
           \/ /\ t.pc = "model" /\ t.calls = n /\ t.total < MaxTokens
              /\ t.result = turn[u].result
    <2>1. CASE OverCalls(n) /\ Finish(u, "after", "over_calls")
      <3>1. turn[u].calls = CallLimit
        BY <1>1, <1>2, <2>1 DEF OverCalls
      <3> QED
        BY <1>1, <2>1, <3>1 DEF Finish, Turn
    <2>2. CASE OverTokens(turn[u].total) /\ Finish(u, "after", "over_tokens")
      BY <1>1, <1>2, <2>2 DEF Finish, Turn
    <2>3. CASE /\ ~OverCalls(n) /\ ~OverTokens(turn[u].total)
               /\ turn' = [turn EXCEPT ![u].pc = "model", ![u].calls = @ + 1]
      <3>1. turn[u].calls + 1 \in 0..CallLimit /\ turn[u].total < MaxTokens
        BY <1>1, <1>2, <2>3 DEF OverCalls, OverTokens
      <3> QED
        BY <1>1, <1>2, <2>3, <3>1 DEF Turn
    <2> QED
      BY <2>1, <2>2, <2>3 DEF BeforeModel
  <1> HIDE DEF t, n
  <1>5. Sound(t)
    BY <1>1, <1>4 DEF Sound, Calling
  <1>6. Placed(user'[u], t) /\ Counted(n, t)
    BY <1>1, <1>2, <1>3, <1>4 DEF Placed, Counted, Outside, Calling, registry
  <1>7. Snapshot(stored, t)
    BY <1>1, <1>4 DEF Snapshot, Calling
  <1>8. GateProofs!IndInv' /\ user' = user
    BY <1>3, GateStill DEF IndInv, registry
  <1> QED
    BY <1>3, <1>4, <1>5, <1>6, <1>7, <1>8, LocalStep

\* The model's answer adds its cost to the snapshot.
LEMMA AfterModelStep ==
  ASSUME Configured, IndInv, NEW u \in Users, AfterModel(u)
  PROVE  IndInv'
  <1>1. /\ turn[u] \in Turn /\ turn \in [Users -> Turn]
        /\ turn[u].pc = "model" /\ Sound(turn[u]) /\ Placed(user[u], turn[u])
        /\ Counted(counts[u], turn[u]) /\ Snapshot(stored, turn[u])
        /\ Costs \in SUBSET Nat
    BY BeforeStep DEF AfterModel, At, Configured, TurnsAssumption
  <1>2. PICK cost \in Costs \cup {0} :
          turn' = [turn EXCEPT ![u].pc = "append", ![u].cost = cost, ![u].total = @ + cost]
    BY DEF AfterModel
  <1> DEFINE total == turn[u].total + cost
             t == [turn[u] EXCEPT !.pc = "append", !.cost = cost, !.total = total]
  <1>3. turn[u].total \in Nat /\ cost \in Nat /\ total \in Nat
    BY <1>1, TurnFacts
  <1>4. turn' = [turn EXCEPT ![u] = t]
    BY <1>1, <1>2
  <1> HIDE DEF total
  <1>5. /\ t \in Turn /\ t.pc = "append"
        /\ t.key = turn[u].key /\ t.total = total /\ t.cost = cost
        /\ t.calls = turn[u].calls /\ t.result = turn[u].result
    BY <1>1, <1>3 DEF Turn
  <1>6. UNCHANGED <<registry, stored, counts, appended>>
    BY DEF AfterModel
  <1> HIDE DEF t
  <1>7. Sound(t) /\ Placed(user[u], t) /\ Counted(counts[u], t) /\ Snapshot(stored, t)
    BY <1>1, <1>5 DEF Sound, Placed, Counted, Snapshot, Outside, Calling, total
  <1> QED
    BY <1>4, <1>6, <1>7, MoveStep

\* The answer is appended with the snapshot's total, which nobody else has moved.
LEMMA AppendStep ==
  ASSUME Configured, IndInv, NEW u \in Users, AppendEvent(u)
  PROVE  IndInv'
  <1> DEFINE k == Key(u)
             t == turn'[u]
             total == turn[u].total
  <1>1. /\ turn[u] \in Turn /\ turn \in [Users -> Turn]
        /\ turn[u].pc = "append" /\ Sound(turn[u]) /\ Placed(user[u], turn[u])
        /\ Counted(counts[u], turn[u]) /\ Snapshot(stored, turn[u])
        /\ k \in Keys /\ turn[u].key = k /\ stored[k] \in Nat \cup {None}
        /\ stored \in [Keys -> Nat \cup {None}] /\ appended \in [Keys -> Nat]
        /\ MaxTokens \in Nat /\ MaxCost \in Nat /\ Costs \in SUBSET Nat
        /\ \A c \in Costs : c <= MaxCost
    BY BeforeStep, MaxCostFacts DEF AppendEvent, At, Configured, TurnsAssumption
  <1>2. /\ total = stored[k] + turn[u].cost /\ stored[k] \in Nat /\ stored[k] < MaxTokens
        /\ turn[u].cost \in Nat /\ turn[u].cost <= MaxCost /\ total \in Nat
    <2>1. total = stored[k] + turn[u].cost /\ stored[k] # None /\ stored[k] < MaxTokens
      BY <1>1 DEF Snapshot, Calling
    <2>2. turn[u].cost \in Costs \cup {0} /\ total \in Nat
      BY <1>1, TurnFacts
    <2>3. turn[u].cost \in Nat /\ turn[u].cost <= MaxCost
      <3>1. \A c \in Costs \cup {0} : c \in Nat /\ c <= MaxCost
        BY <1>1
      <3> QED
        BY <2>2, <3>1
    <2> QED
      BY <1>1, <2>1, <2>2, <2>3
  <1>3. total < MaxTokens + MaxCost
    BY <1>1, <1>2
  <1>4. /\ stored' = [stored EXCEPT ![k] = total] /\ UNCHANGED <<registry, counts>>
        /\ appended' = [appended EXCEPT ![k] = @ + turn[u].cost]
        /\ turn' \in {[turn EXCEPT ![u].pc = "ask", ![u].cost = 0],
                      [turn EXCEPT ![u].pc = "after", ![u].cost = 0, ![u].result = "ok"]}
    BY DEF AppendEvent
  <1>5. appended' = [appended EXCEPT ![k] = total]
    <2>1. appended[k] = stored[k]
      BY <1>1, <1>2 DEF IndInv, Accounted, None
    <2> QED
      BY <1>1, <1>2, <1>4, <2>1
  <1>6. /\ turn' = [turn EXCEPT ![u] = t] /\ t \in Turn /\ t.key = k /\ t.total = total
        /\ t.calls = turn[u].calls
        /\ \/ t.pc = "ask" /\ t.result = turn[u].result
           \/ t.pc = "after" /\ t.result = "ok"
    BY <1>1, <1>4 DEF Turn
  <1>7. \A v \in Users \ {u} : turn[v].key = k => turn[v].pc \notin Calling
    <2> SUFFICES ASSUME NEW v \in Users \ {u}, turn[v].key = k, turn[v].pc \in Calling
                 PROVE  FALSE
      OBVIOUS
    <2>1. user[v].pc = "inside" /\ user[v].key = k
      BY BeforeStep DEF Placed, Calling
    <2>2. user[u].pc = "inside" /\ user[u].key = k
      BY <1>1 DEF Placed, Calling
    <2> QED
      BY <2>1, <2>2, GateFacts DEF IndInv
  <1>8. stored'[k] = total
    BY <1>1, <1>4
  <1> HIDE DEF t, total, k
  <1>9. Sound(t)
    BY <1>1, <1>6 DEF Sound, Calling
  <1>10. Placed(user[u], t) /\ Counted(counts[u], t)
    BY <1>1, <1>6 DEF Placed, Counted, Outside, Calling
  <1>11. Snapshot(stored', t)
    BY <1>2, <1>6, <1>8 DEF Snapshot, Calling, None
  <1> QED
    BY <1>1, <1>2, <1>3, <1>4, <1>5, <1>6, <1>7, <1>9, <1>10, <1>11, StoreStep

\* A turn is stopped, in the gate.
LEMMA StopStep ==
  ASSUME Configured, IndInv, NEW u \in Users, Stop(u)
  PROVE  IndInv'
  <1> DEFINE t == [turn[u] EXCEPT !.pc = "after", !.result = "failed"]
  <1>1. /\ turn[u] \in Turn /\ turn \in [Users -> Turn]
        /\ turn[u].pc \in {"load", "ask", "model", "append"}
        /\ Sound(turn[u]) /\ Placed(user[u], turn[u])
        /\ Counted(counts[u], turn[u]) /\ Snapshot(stored, turn[u])
    BY BeforeStep DEF Stop
  <1>2. turn' = [turn EXCEPT ![u] = t] /\ UNCHANGED <<registry, stored, counts, appended>>
    BY <1>1 DEF Stop, Finish
  <1>3. /\ t \in Turn /\ t.pc = "after" /\ t.key = turn[u].key /\ t.result = "failed"
        /\ t.calls = turn[u].calls
    BY <1>1 DEF Turn
  <1> HIDE DEF t
  <1>4. Sound(t) /\ Placed(user[u], t) /\ Counted(counts[u], t) /\ Snapshot(stored, t)
    BY <1>1, <1>3 DEF Sound, Placed, Counted, Snapshot, Outside, Calling
  <1> QED
    BY <1>2, <1>4, MoveStep

\* The invocation's count is forgotten.
LEMMA AfterRunStep ==
  ASSUME Configured, IndInv, NEW u \in Users, AfterRun(u)
  PROVE  IndInv'
  <1> DEFINE t == [turn[u] EXCEPT !.pc = "done", !.total = 0, !.cost = 0]
  <1>1. /\ turn[u] \in Turn /\ turn \in [Users -> Turn] /\ turn[u].pc = "after"
        /\ Sound(turn[u]) /\ Placed(user[u], turn[u]) /\ CallLimit \in Nat
    BY BeforeStep DEF AfterRun, At
  <1>2. /\ turn' = [turn EXCEPT ![u] = t] /\ counts' = [counts EXCEPT ![u] = 0]
        /\ UNCHANGED <<registry, stored, appended>>
    BY <1>1 DEF AfterRun
  <1>3. /\ t \in Turn /\ t.pc = "done" /\ t.key = turn[u].key
        /\ t.result = turn[u].result /\ t.calls = turn[u].calls /\ t.faulted = turn[u].faulted
    BY <1>1 DEF Turn
  <1> HIDE DEF t
  <1>4. GateProofs!IndInv' /\ user' = user
    BY <1>2, GateStill DEF IndInv, registry
  <1>5. Sound(t) /\ Placed(user'[u], t) /\ Counted(0, t) /\ Snapshot(stored, t)
    BY <1>1, <1>3, <1>4 DEF Sound, Placed, Counted, Snapshot, Outside, Calling
  <1> QED
    BY <1>2, <1>4, <1>5, LocalStep

\* The gate is left, in its two sections.
LEMMA ExitStep ==
  ASSUME Configured, IndInv, NEW u \in Users, LeaveGate(u)
  PROVE  IndInv'
  <1>1. /\ turn[u] \in Turn /\ turn \in [Users -> Turn] /\ counts \in [Users -> 0..(CallLimit + 1)]
        /\ turn[u].pc = "done" /\ Sound(turn[u])
        /\ Counted(counts[u], turn[u]) /\ Snapshot(stored, turn[u])
    BY BeforeStep DEF LeaveGate, At
  <1>2. Gate!Exit(u) /\ UNCHANGED <<stored, counts, turn, appended>>
    BY DEF LeaveGate
  <1>3. /\ turn' = [turn EXCEPT ![u] = turn[u]] /\ counts' = [counts EXCEPT ![u] = counts[u]]
    BY <1>1, <1>2
  <1>4. GateProofs!IndInv'
    BY <1>2, GateSteps DEF IndInv
  <1>5. user'[u].pc = "leaving" /\ \A v \in Users \ {u} : user'[v] = user[v]
    BY <1>2, UserFacts DEF IndInv
  <1>6. Placed(user'[u], turn[u])
    BY <1>1, <1>5 DEF Placed, Outside, Calling
  <1> QED
    BY <1>1, <1>2, <1>3, <1>4, <1>5, <1>6, LocalStep

LEMMA ReleaseStep ==
  ASSUME Configured, IndInv, NEW u \in Users, ReleaseGate(u)
  PROVE  IndInv'
  <1> DEFINE t == NewTurn(Key(u), "idle")
  <1>1. /\ turn[u].pc = "done" /\ counts[u] = 0 /\ counts \in [Users -> 0..(CallLimit + 1)]
        /\ Key(u) \in Keys
    BY BeforeStep DEF ReleaseGate, At, Counted, Calling
  <1>2. /\ Gate!Release(u) /\ turn' = [turn EXCEPT ![u] = t]
        /\ UNCHANGED <<stored, counts, appended>>
    BY DEF ReleaseGate
  <1>3. counts' = [counts EXCEPT ![u] = 0]
    BY <1>1, <1>2
  <1>4. GateProofs!IndInv'
    BY <1>2, GateSteps DEF IndInv
  <1>5. user'[u].pc = "out" /\ \A v \in Users \ {u} : user'[v] = user[v]
    BY <1>2, UserFacts DEF IndInv
  <1>6. Sound(t) /\ Placed(user'[u], t) /\ Counted(0, t) /\ Snapshot(stored, t)
    BY <1>1, <1>5, NewTurnFacts
  <1> HIDE DEF t
  <1> QED
    BY <1>2, <1>3, <1>4, <1>5, <1>6, LocalStep

\* A gate made anew keeps the gate's invariant.
LEMMA GateAnew ==
  ASSUME Configured
  PROVE  Gate!Init' => GateProofs!IndInv'
  <1>1. Gate!Init => GateProofs!IndInv
    BY GateInit
  <1> QED
    BY <1>1, PTL

\* The process dies: the gate and the counters are new, the store is as it was.
LEMMA CrashStep ==
  ASSUME Configured, IndInv, Crash
  PROVE  IndInv'
  <1>1. \A u \in Users : Key(u) \in Keys
    BY BeforeStep
  <1>2. Gate!Init'
    BY <1>1 DEF Crash, Gate!Init, Gate!Out
  <1>3. GateProofs!IndInv'
    BY <1>2, GateAnew
  <1>4. \A u \in Users : /\ user'[u].pc = "out" /\ turn'[u] = NewTurn(Key(u), "idle")
                         /\ counts'[u] = 0
    BY DEF Crash, Gate!Out
  <1>5. UNCHANGED <<stored, appended>>
    BY DEF Crash
  <1>6. TurnsHold'
    <2> SUFFICES ASSUME NEW u \in Users
                 PROVE  /\ Sound(turn'[u]) /\ Placed(user'[u], turn'[u])
                        /\ Counted(counts'[u], turn'[u]) /\ Snapshot(stored', turn'[u])
      BY DEF TurnsHold
    <2> QED
      BY <1>1, <1>4, NewTurnFacts
  <1>7. Typed'
    <2>1. \A u \in Users : turn'[u] \in Turn /\ 0 \in 0..(CallLimit + 1)
      BY <1>6 DEF TurnsHold, Sound, Configured, TurnsAssumption
    <2> QED
      BY <1>5, <2>1 DEF Crash, IndInv, Typed
  <1> QED
    BY <1>3, <1>5, <1>6, <1>7 DEF IndInv, Accounted

-----------------------------------------------------------------------------
(* The invariant *)

\* Nothing runs and nothing is stored in the initial states.
LEMMA InitIndInv ==
  ASSUME Configured, TurnsInit
  PROVE  IndInv
  <1>1. GateProofs!IndInv
    BY GateInit DEF TurnsInit
  <1>2. \A u \in Users : user[u].pc = "out" /\ user[u].key \in Keys
    <2>1. user \in [Users -> {Gate!Out(k) : k \in Keys}]
      BY DEF TurnsInit, Gate!Init
    <2> QED
      BY <2>1 DEF Gate!Out
  <1>3. \A u \in Users : turn[u] = NewTurn(user[u].key, "idle") /\ counts[u] = 0
    BY DEF TurnsInit
  <1>4. TurnsHold
    <2> SUFFICES ASSUME NEW u \in Users
                 PROVE  /\ Sound(turn[u]) /\ Placed(user[u], turn[u])
                        /\ Counted(counts[u], turn[u]) /\ Snapshot(stored, turn[u])
      BY DEF TurnsHold
    <2> QED
      BY <1>2, <1>3, NewTurnFacts
  <1>5. Typed
    <2>1. \A u \in Users : turn[u] \in Turn
      BY <1>4 DEF TurnsHold, Sound
    <2>2. 0 \in 0..(CallLimit + 1)
      BY DEF Configured, TurnsAssumption
    <2>3. stored \in [Keys -> Nat \cup {None}] /\ appended \in [Keys -> Nat]
      BY DEF TurnsInit, None
    <2>4. counts \in [Users -> 0..(CallLimit + 1)]
      BY <2>2 DEF TurnsInit
    <2>5. turn \in [Users -> Turn]
      BY <2>1 DEF TurnsInit
    <2> QED
      BY <2>3, <2>4, <2>5 DEF Typed
  <1>6. Accounted
    <2>1. MaxTokens \in Nat \ {0} /\ MaxCost \in Nat
      BY MaxCostFacts DEF Configured, TurnsAssumption
    <2> QED
      BY <2>1 DEF TurnsInit, Accounted, None
  <1> QED
    BY <1>1, <1>4, <1>5, <1>6 DEF IndInv

\* Every step keeps the invariant.
LEMMA NextIndInv ==
  ASSUME Configured, IndInv, [TurnsNext]_vars
  PROVE  IndInv'
  <1>1. CASE \E u \in Users : Proceed(u)
    BY <1>1, GetStep, CreateStep, AcquireStep, LoadStep, BeforeModelStep, AfterModelStep,
       AppendStep, AfterRunStep, ExitStep, ReleaseStep DEF Proceed
  <1>2. CASE \E u \in Users : EnterGate(u)
    BY <1>2, EnterStep
  <1>3. CASE \E u \in Users : Stop(u)
    BY <1>3, StopStep
  <1>4. CASE \E u \in Users, k \in Keys : Deliver(u, k)
    BY <1>4, DeliverStep
  <1>5. CASE Crash
    BY <1>5, CrashStep
  <1>6. CASE UNCHANGED vars
    <2>1. GateProofs!IndInv'
      BY <1>6, GateStill DEF IndInv, vars, registry
    <2> QED
      BY <1>6, <2>1 DEF vars, IndInv, Typed, TurnsHold, Accounted
  <1> QED
    BY <1>1, <1>2, <1>3, <1>4, <1>5, <1>6 DEF TurnsNext

\* The invariant holds in every state.
THEOREM Inductive == Configured => (TurnsSpec => []IndInv)
  <1> SUFFICES ASSUME Configured PROVE TurnsSpec => []IndInv
    OBVIOUS
  <1>1. TurnsInit => IndInv
    BY InitIndInv
  <1>2. IndInv /\ [TurnsNext]_vars => IndInv'
    BY NextIndInv
  <1> QED
    BY <1>1, <1>2, PTL DEF TurnsSpec

-----------------------------------------------------------------------------
(* Theorems *)

\* The total in the store is what the session's appended answers cost, and is past
\* the budget by one call at most, whatever stopped or died (policy/budget.go,
\* serializingRunner.Run of a2aserver/runner.go).
THEOREM Totals == Configured => (TurnsSpec => []TokensAccounted)
  <1> SUFFICES ASSUME Configured PROVE TurnsSpec => []TokensAccounted
    OBVIOUS
  <1>1. IndInv => TokensAccounted
    <2> SUFFICES ASSUME IndInv PROVE TokensAccounted
      OBVIOUS
    <2>1. TurnsTypeOK
      BY GateFacts DEF IndInv, Typed, TurnsTypeOK
    <2>2. \A k \in Keys : stored[k] # None => stored[k] = appended[k]
      BY DEF IndInv, Accounted
    <2>3. BudgetCrossedOnce
      BY DEF IndInv, Accounted, BudgetCrossedOnce
    <2> QED
      BY <2>1, <2>2, <2>3 DEF TokensAccounted, TokensKept
  <1>2. TurnsSpec => []IndInv
    BY Inductive
  <1> QED
    BY <1>1, <1>2, PTL

\* A turn refused for its calls made all it was allowed, and one refused for its
\* session saw the store fail (callBudget, recoveringSessions).
THEOREM Served == Configured => (TurnsSpec => []TurnsAreServed)
  <1> SUFFICES ASSUME Configured PROVE TurnsSpec => []TurnsAreServed
    OBVIOUS
  <1>1. IndInv => TurnsAreServed
    BY DEF IndInv, TurnsHold, Sound, TurnsAreServed, FullCallBudget, PreparedUnlessFaulted
  <1>2. TurnsSpec => []IndInv
    BY Inductive
  <1> QED
    BY <1>1, <1>2, PTL

=============================================================================
