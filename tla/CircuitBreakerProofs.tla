------------------------ MODULE CircuitBreakerProofs ------------------------
(***************************************************************************)
(* The safety of the circuit breaker, for any number of callers and tools  *)
(* and any configuration NewGuard accepts.                                 *)
(*                                                                         *)
(* The argument is about generations. Every permit in flight is of the     *)
(* current generation of its breaker or of an earlier one (PermitsBounded).  *)
(* Whatever takes a breaker into or out of half-open, and whatever opens   *)
(* it, starts a new generation: so right after it only a call admitted by  *)
(* that very step can be current. OutcomeFacts says that an honoured       *)
(* outcome of the probe always starts one, and that an outcome which does  *)
(* not has left the state alone.                                           *)
(***************************************************************************)
EXTENDS CircuitBreaker, TLAPS

\* A call in flight was admitted by a breaker that is still registered, in its
\* present generation or an earlier one.
PermitsBounded ==
  \A c \in Callers : InFlight(c) =>
    /\ byName[run[c].tool] \in Breaker
    /\ run[c].permit <= byName[run[c].tool].generation

\* A call waits before another attempt only while its budget lasts.
BudgetLeft == \A c \in Callers : run[c].pc = "backoff" => run[c].attempt < MaxRetries

IndInv ==
  /\ BreakerTypeOK
  /\ BudgetLeft
  /\ PermitsBounded
  /\ ExactlyOneProbe
  /\ OpenRetiresPermits
  /\ ClosedBelowThreshold

\* The breaker's own part of the invariant.
Sound(b) ==
  /\ b \in Breaker
  /\ b.state = HalfOpen => b.probeActive
  /\ b.state = Closed => b.failures < FailureThreshold

-----------------------------------------------------------------------------
(* What the breaker's operations do *)

\* Trip: an open breaker of the next generation (Breaker.open).
LEMMA TrippedFacts ==
  ASSUME NEW b \in Breaker
  PROVE  /\ Tripped(b) \in Breaker
         /\ Tripped(b).state = Open
         /\ Tripped(b).generation = b.generation + 1
  <1> DEFINE opened == [b EXCEPT !.state = Open]
             restarted == [opened EXCEPT !.age = 0]
             idle == [restarted EXCEPT !.probeActive = FALSE]
  <1>1. opened \in Breaker /\ opened.state = Open /\ opened.generation = b.generation
    BY DEF Breaker, States
  <1>2. /\ restarted \in Breaker /\ restarted.state = Open
        /\ restarted.generation = b.generation
    <2> HIDE DEF opened
    <2> QED
      BY <1>1, ConfigAssumption DEF Breaker
  <1>3. idle \in Breaker /\ idle.state = Open /\ idle.generation = b.generation
    <2> HIDE DEF restarted
    <2> QED
      BY <1>2 DEF Breaker
  <1>4. Tripped(b) = [idle EXCEPT !.generation = @ + 1]
    BY DEF Tripped, Breaker
  <1> HIDE DEF idle
  <1> QED
    BY <1>3, <1>4 DEF Breaker

\* An outcome either starts a generation, which is not half-open, or leaves the
\* state alone; the outcome of a current probe always starts one
\* (RecordSuccess, RecordFailure, RecordAbandoned).
LEMMA OutcomeFacts ==
  ASSUME NEW b, Sound(b), NEW permit \in Nat,
         NEW r \in {RecordSuccess(b, permit), RecordFailure(b, permit),
                    RecordAbandoned(b, permit)}
  PROVE  /\ Sound(r)
         /\ \/ r.generation = b.generation + 1 /\ r.state # HalfOpen
            \/ /\ r.generation = b.generation /\ r.state = b.state
               /\ b.state = HalfOpen => permit # b.generation
  <1> USE DEF Sound
  <1>1. CASE r = RecordSuccess(b, permit)
    <2>1. CASE ~Honors(b, permit) \/ b.state = Open
      BY <1>1, <2>1 DEF RecordSuccess, Honors, Open, HalfOpen
    <2>2. CASE Honors(b, permit) /\ b.state # Open
      <3> DEFINE next == IF b.state = HalfOpen THEN b.generation + 1 ELSE b.generation
      <3>1. r = [state |-> Closed, failures |-> 0, generation |-> next,
                 probeActive |-> FALSE, age |-> b.age]
        BY <1>1, <2>2 DEF RecordSuccess, Breaker
      <3>2. next \in Nat /\ Closed \in States /\ b.age \in 0..ResetTimeout
        BY DEF Breaker, States
      <3>3. r \in Breaker
        BY <3>1, <3>2 DEF Breaker
      <3>4. b.state \in {Closed, HalfOpen}
        BY <2>2 DEF Breaker, States
      <3>5. r.state = Closed /\ r.failures = 0 /\ r.generation = next
        BY <3>1
      <3> HIDE DEF next
      <3>6. Sound(r)
        BY <3>3, <3>5, ConfigAssumption DEF Closed, HalfOpen
      <3>7. CASE b.state = HalfOpen
        BY <3>5, <3>6, <3>7 DEF next, Closed, HalfOpen
      <3>8. CASE b.state = Closed
        BY <3>5, <3>6, <3>8 DEF next, Closed, HalfOpen
      <3> QED
        BY <3>4, <3>7, <3>8
    <2> QED
      BY <2>1, <2>2
  <1>2. CASE r = RecordFailure(b, permit)
    <2> DEFINE counted == [b EXCEPT !.failures = @ + 1]
    <2>1. /\ counted \in Breaker
          /\ counted.state = b.state
          /\ counted.generation = b.generation
          /\ counted.failures = b.failures + 1
          /\ counted.probeActive = b.probeActive
      BY DEF Breaker
    <2>2. CASE b.state = Open \/ ~Honors(b, permit)
      BY <1>2, <2>2 DEF RecordFailure, Honors, Open, HalfOpen
    <2>3. CASE ~(b.state = Open \/ ~Honors(b, permit)) /\
               (b.state = HalfOpen \/ counted.failures >= FailureThreshold)
      <3>1. r = Tripped(counted)
        BY <1>2, <2>3 DEF RecordFailure
      <3> QED
        BY <3>1, <2>1, TrippedFacts DEF Open, HalfOpen, Closed
    <2>4. CASE ~(b.state = Open \/ ~Honors(b, permit)) /\
               ~(b.state = HalfOpen \/ counted.failures >= FailureThreshold)
      <3>1. r = counted
        BY <1>2, <2>4 DEF RecordFailure
      <3>2. counted.failures \in Nat /\ counted.failures < FailureThreshold
        BY <2>1, <2>4, ConfigAssumption DEF Breaker
      <3> QED
        BY <3>1, <3>2, <2>1, <2>4
    <2> QED
      BY <2>2, <2>3, <2>4
  <1>3. CASE r = RecordAbandoned(b, permit)
    BY <1>3, TrippedFacts DEF RecordAbandoned, Honors, Open, HalfOpen, Closed
  <1> QED
    BY <1>1, <1>2, <1>3

\* An admission is the probe of a new generation, or leaves a closed breaker as
\* it was; a half-open breaker with its probe out admits nobody (Breaker.Allow).
LEMMA AdmittedFacts ==
  ASSUME NEW b, Sound(b), Admits(b)
  PROVE  /\ Sound(Admitted(b))
         /\ \/ /\ Admitted(b).state = HalfOpen
               /\ Admitted(b).generation = b.generation + 1
            \/ /\ Admitted(b).state = Closed
               /\ b.state = Closed
               /\ Admitted(b).generation = b.generation
  <1> USE DEF Sound
  <1>1. CASE b.state = Open
    <2> DEFINE half == [b EXCEPT !.state = HalfOpen]
               next == [half EXCEPT !.generation = @ + 1]
    <2>1. /\ half \in Breaker /\ half.state = HalfOpen
          /\ half.generation = b.generation
      BY DEF Breaker, States
    <2>2. /\ next \in Breaker /\ next.state = HalfOpen
          /\ next.generation = b.generation + 1
      <3> HIDE DEF half
      <3> QED
        BY <2>1 DEF Breaker
    <2>3. Admitted(b) = [next EXCEPT !.probeActive = TRUE]
      BY <1>1 DEF Admitted, Breaker
    <2>4. /\ Admitted(b) \in Breaker /\ Admitted(b).state = HalfOpen
          /\ Admitted(b).generation = b.generation + 1 /\ Admitted(b).probeActive
      <3> HIDE DEF next
      <3> QED
        BY <2>2, <2>3 DEF Breaker
    <2> QED
      BY <2>4 DEF HalfOpen, Closed
  <1>2. CASE b.state = Closed
    BY <1>2 DEF Admitted, Breaker, Open, HalfOpen, Closed
  <1> QED
    BY <1>1, <1>2 DEF Admits

-----------------------------------------------------------------------------
(* One lemma per kind of step *)

\* A caller reports its outcome and returns (the returns of Guard.Run).
LEMMA ReturnStep ==
  ASSUME IndInv, NEW c \in Callers, InFlight(c), NEW result \in Results,
         NEW r \in {RecordSuccess(byName[run[c].tool], run[c].permit),
                    RecordFailure(byName[run[c].tool], run[c].permit),
                    RecordAbandoned(byName[run[c].tool], run[c].permit)},
         Return(c, r, result)
  PROVE  IndInv'
  <1>0. PICK u \in Tools : u = run[c].tool
    BY DEF IndInv, BreakerTypeOK, Run
  <1> DEFINE b == byName[u]
             p == run[c].permit
  <1>1. p \in Nat /\ b \in Breaker /\ p <= b.generation
    BY <1>0 DEF IndInv, BreakerTypeOK, Run, PermitsBounded
  <1>2. Sound(b)
    BY <1>1 DEF IndInv, ExactlyOneProbe, ClosedBelowThreshold, Sound
  <1>3. /\ Sound(r)
        /\ \/ r.generation = b.generation + 1 /\ r.state # HalfOpen
           \/ /\ r.generation = b.generation /\ r.state = b.state
              /\ b.state = HalfOpen => p # b.generation
    BY <1>0, <1>1, <1>2, OutcomeFacts
  <1>4. /\ byName' = [byName EXCEPT ![u] = r]
        /\ byName'[u] = r
        /\ \A t \in Tools \ {u} : byName'[t] = byName[t]
    BY <1>0, <1>1 DEF Return, IndInv, BreakerTypeOK
  <1>5. /\ run'[c].pc = "returned"
        /\ \A d \in Callers \ {c} : run'[d] = run[d]
    BY DEF Return, IndInv, BreakerTypeOK, Run
  <1>6. BreakerTypeOK'
    <2>1. byName' \in [Tools -> Breaker \cup {NoBreaker}]
      BY <1>3, <1>4 DEF IndInv, BreakerTypeOK, Sound
    <2>2. [pc |-> "returned", tool |-> run[c].tool, permit |-> 0, attempt |-> 0,
           result |-> result] \in Run
      BY ConfigAssumption DEF IndInv, BreakerTypeOK, Run
    <2>3. run' \in [Callers -> Run]
      BY <2>2 DEF Return, IndInv, BreakerTypeOK
    <2> QED
      BY <2>1, <2>3 DEF Return, IndInv, BreakerTypeOK
  <1>7. \A d \in Callers : InFlight(d) =>
          byName[run[d].tool] \in Breaker /\ run[d].permit <= byName[run[d].tool].generation
    BY DEF IndInv, PermitsBounded
  <1>8. \A d \in Callers : run[d].tool \in Tools /\ run[d].permit \in Nat
    BY DEF IndInv, BreakerTypeOK, Run
  <1>9. r \in Breaker /\ b.generation \in Nat /\ r.generation \in Nat
    BY <1>1, <1>3 DEF Sound, Breaker
  <1>10. PermitsBounded'
    BY <1>0, <1>3, <1>4, <1>5, <1>7, <1>8, <1>9 DEF PermitsBounded, InFlight
  <1>11. \A t \in Tools \ {u} : Honored(t)' = Honored(t)
    BY <1>0, <1>4, <1>5 DEF Honored, InFlight
  <1>12. BudgetLeft'
    BY <1>5 DEF IndInv, BudgetLeft
  <1>13. CASE r.generation = b.generation + 1 /\ r.state # HalfOpen
    <2>1. Honored(u)' = {}
      BY <1>13, <1>4, <1>5, <1>7, <1>8, <1>9 DEF Honored, InFlight
    <2>2. ExactlyOneProbe'
      BY <1>13, <1>4, <1>11 DEF IndInv, ExactlyOneProbe
    <2>3. OpenRetiresPermits'
      BY <2>1, <1>4, <1>11 DEF IndInv, OpenRetiresPermits
    <2>4. ClosedBelowThreshold'
      BY <1>3, <1>4 DEF IndInv, ClosedBelowThreshold, Sound
    <2> QED
      BY <1>6, <1>10, <1>12, <2>2, <2>3, <2>4 DEF IndInv
  <1>14. CASE /\ r.generation = b.generation /\ r.state = b.state
              /\ b.state = HalfOpen => p # b.generation
    <2>1. Honored(u)' = Honored(u) \ {c}
      BY <1>0, <1>14, <1>4, <1>5 DEF Honored, InFlight
    <2>2. b.state = HalfOpen => Honored(u)' = Honored(u)
      BY <2>1, <1>14 DEF Honored
    <2>3. ExactlyOneProbe'
      BY <2>2, <1>3, <1>4, <1>11, <1>14 DEF IndInv, ExactlyOneProbe, Sound
    <2>4. OpenRetiresPermits'
      BY <2>1, <1>4, <1>11, <1>14 DEF IndInv, OpenRetiresPermits
    <2>5. ClosedBelowThreshold'
      BY <1>3, <1>4 DEF IndInv, ClosedBelowThreshold, Sound
    <2> QED
      BY <1>6, <1>10, <1>12, <2>3, <2>4, <2>5 DEF IndInv
  <1> QED
    BY <1>3, <1>13, <1>14

\* Steps that leave the breakers and every permit in flight alone.
LEMMA QuietStep ==
  ASSUME IndInv, BreakerTypeOK', BudgetLeft', byName' = byName,
         \A d \in Callers :
           /\ InFlight(d)' <=> InFlight(d)
           /\ InFlight(d) => run'[d].tool = run[d].tool /\ run'[d].permit = run[d].permit
  PROVE  IndInv'
  <1>1. PermitsBounded'
    BY DEF IndInv, PermitsBounded, InFlight
  <1>2. \A t \in Tools : Honored(t)' = Honored(t)
    BY DEF Honored, InFlight
  <1>3. ExactlyOneProbe' /\ OpenRetiresPermits' /\ ClosedBelowThreshold'
    BY <1>2 DEF IndInv, ExactlyOneProbe, OpenRetiresPermits, ClosedBelowThreshold
  <1> QED
    BY <1>1, <1>3 DEF IndInv

\* Guard.admit lets a caller through (Breaker.Allow).
LEMMA AdmitStep ==
  ASSUME IndInv, NEW c \in Callers, NEW u \in Tools, Admit(c, u)
  PROVE  IndInv'
  <1> DEFINE b == Get(u)
             r == Admitted(b)
  <1>1. Sound(b)
    <2>1. CASE byName[u] = NoBreaker
      BY <2>1, ConfigAssumption
      DEF Get, NewBreaker, Sound, Breaker, States, Closed, Open, HalfOpen
    <2>2. CASE byName[u] # NoBreaker
      BY <2>2 DEF Get, IndInv, BreakerTypeOK, ExactlyOneProbe, ClosedBelowThreshold, Sound
    <2> QED
      BY <2>1, <2>2
  <1>2. /\ Sound(r)
        /\ \/ r.state = HalfOpen /\ r.generation = b.generation + 1
           \/ r.state = Closed /\ b.state = Closed /\ r.generation = b.generation
    BY <1>1, AdmittedFacts DEF Admit
  <1>3. /\ byName'[u] = r
        /\ \A t \in Tools \ {u} : byName'[t] = byName[t]
    BY DEF Admit, IndInv, BreakerTypeOK
  <1>4. /\ run'[c] = [pc |-> "calling", tool |-> u, permit |-> r.generation,
                      attempt |-> 0, result |-> "none"]
        /\ \A d \in Callers \ {c} : run'[d] = run[d]
        /\ ~InFlight(c)
    BY <1>3 DEF Admit, IndInv, BreakerTypeOK
  <1>5. r \in Breaker /\ b.generation \in Nat /\ r.generation \in Nat
    BY <1>1, <1>2 DEF Sound, Breaker
  <1>6. BreakerTypeOK'
    <2>1. byName' \in [Tools -> Breaker \cup {NoBreaker}]
      BY <1>5 DEF Admit, IndInv, BreakerTypeOK
    <2>2. run'[c] \in Run
      BY <1>4, <1>5, ConfigAssumption DEF Run, Results
    <2>3. run' \in [Callers -> Run]
      BY <2>2 DEF Admit, IndInv, BreakerTypeOK
    <2> QED
      BY <2>1, <2>3 DEF Admit, IndInv, BreakerTypeOK
  <1>7. \A d \in Callers : InFlight(d) /\ run[d].tool = u =>
          byName[u] = b /\ run[d].permit <= b.generation
    <2>1. "none" \notin States
      BY DEF States, Closed, Open, HalfOpen
    <2>2. NoBreaker \notin Breaker
      BY <2>1 DEF NoBreaker, Breaker
    <2> QED
      BY <2>2 DEF IndInv, PermitsBounded, Get
  <1>8. \A d \in Callers : run[d].tool \in Tools /\ run[d].permit \in Nat
    BY DEF IndInv, BreakerTypeOK, Run
  <1>9. PermitsBounded'
    <2> SUFFICES ASSUME NEW d \in Callers, InFlight(d)'
                 PROVE  /\ byName'[run'[d].tool] \in Breaker
                        /\ run'[d].permit <= byName'[run'[d].tool].generation
      BY DEF PermitsBounded
    <2>1. CASE d = c
      BY <2>1, <1>3, <1>4, <1>5
    <2>2. CASE d # c /\ run[d].tool = u
      BY <2>2, <1>2, <1>3, <1>4, <1>5, <1>7, <1>8 DEF InFlight
    <2>3. CASE d # c /\ run[d].tool # u
      BY <2>3, <1>3, <1>4, <1>8 DEF InFlight, IndInv, PermitsBounded
    <2> QED
      BY <2>1, <2>2, <2>3
  <1>16. BudgetLeft'
    BY <1>4 DEF IndInv, BudgetLeft
  <1>10. \A t \in Tools \ {u} : Honored(t)' = Honored(t)
    BY <1>3, <1>4 DEF Honored, InFlight
  <1> HIDE DEF r, b
  <1>11. c \in Honored(u)'
    BY <1>3, <1>4 DEF Honored, InFlight
  <1>12. r.generation = b.generation + 1 => Honored(u)' = {c}
    BY <1>3, <1>4, <1>5, <1>7, <1>8, <1>11 DEF Honored, InFlight
  <1>13. ExactlyOneProbe'
    BY <1>2, <1>3, <1>10, <1>11, <1>12
    DEF IndInv, ExactlyOneProbe, Sound, Closed, HalfOpen
  <1>14. OpenRetiresPermits'
    BY <1>2, <1>3, <1>10 DEF IndInv, OpenRetiresPermits, Closed, HalfOpen, Open
  <1>15. ClosedBelowThreshold'
    BY <1>2, <1>3 DEF IndInv, ClosedBelowThreshold, Sound
  <1> QED
    BY <1>6, <1>9, <1>13, <1>14, <1>15, <1>16 DEF IndInv

\* An open breaker gets older (the cooldown).
LEMMA CooldownStep ==
  ASSUME IndInv, NEW u \in Tools, Cooldown(u)
  PROVE  IndInv'
  <1>1. byName[u] \in Breaker
    BY DEF Cooldown, IndInv, BreakerTypeOK, NoBreaker, Open
  <1>2. [byName[u] EXCEPT !.age = @ + 1] \in Breaker
    BY <1>1, ConfigAssumption DEF Breaker, Cooldown
  <1>3. /\ byName'[u] \in Breaker
        /\ byName'[u].state = Open
        /\ byName'[u].generation = byName[u].generation
        /\ \A t \in Tools \ {u} : byName'[t] = byName[t]
    BY <1>1, <1>2 DEF Cooldown, IndInv, BreakerTypeOK, Breaker
  <1>4. BreakerTypeOK'
    BY <1>2 DEF Cooldown, IndInv, BreakerTypeOK
  <1>5. \A t \in Tools : Honored(t)' = Honored(t)
    BY <1>3 DEF Cooldown, Honored, InFlight
  <1>6. PermitsBounded'
    BY <1>3 DEF Cooldown, IndInv, BreakerTypeOK, Run, PermitsBounded, InFlight
  <1>7. ExactlyOneProbe' /\ OpenRetiresPermits' /\ ClosedBelowThreshold'
    BY <1>3, <1>5 DEF Cooldown, IndInv, ExactlyOneProbe, OpenRetiresPermits,
                     ClosedBelowThreshold, Open, HalfOpen, Closed
  <1>8. BudgetLeft'
    BY DEF Cooldown, IndInv, BudgetLeft
  <1> QED
    BY <1>4, <1>6, <1>7, <1>8 DEF IndInv

-----------------------------------------------------------------------------
(* The invariant *)

\* No breaker exists and no call is in flight at the start (NewBreakers, NewGuard).
LEMMA InitIndInv == BreakerInit => IndInv
  <1> SUFFICES ASSUME BreakerInit PROVE IndInv
    OBVIOUS
  <1>1. \A c \in Callers : run[c] \in Run /\ run[c].pc = "returned"
    BY ConfigAssumption DEF BreakerInit, Run, Results
  <1>2. BreakerTypeOK
    BY <1>1 DEF BreakerInit, BreakerTypeOK
  <1>3. \A t \in Tools : byName[t].state = "none"
    BY DEF BreakerInit, NoBreaker
  <1> QED
    BY <1>1, <1>2, <1>3 DEF IndInv, BudgetLeft, PermitsBounded, InFlight, ExactlyOneProbe,
                           OpenRetiresPermits, ClosedBelowThreshold, Open, HalfOpen, Closed

\* One case for each action of Next.
LEMMA NextIndInv == IndInv /\ [BreakerNext]_breakerVars => IndInv'
  <1> SUFFICES ASSUME IndInv, [BreakerNext]_breakerVars PROVE IndInv'
    OBVIOUS
  <1>1. ASSUME NEW c \in Callers, NEW t \in Tools, Admit(c, t) PROVE IndInv'
    BY <1>1, AdmitStep
  <1>2. ASSUME NEW c \in Callers, NEW t \in Tools, FailFast(c, t) PROVE IndInv'
    <2>1. byName[t] # NoBreaker
      BY <1>2 DEF FailFast, Get, Admits, NewBreaker
    <2>2. byName' = byName
      BY <1>2, <2>1 DEF FailFast, Get, IndInv, BreakerTypeOK
    <2>3. run' = [run EXCEPT ![c] = [[run[c] EXCEPT !.tool = t] EXCEPT !.result = "circuit_open"]]
      BY <1>2 DEF FailFast, IndInv, BreakerTypeOK, Run
    <2>4. [run[c] EXCEPT !.tool = t] \in Run
      BY DEF IndInv, BreakerTypeOK, Run
    <2>5. [[run[c] EXCEPT !.tool = t] EXCEPT !.result = "circuit_open"] \in Run
      BY <2>4 DEF Run, Results
    <2>6. BreakerTypeOK'
      BY <1>2, <2>2, <2>3, <2>5 DEF FailFast, IndInv, BreakerTypeOK
    <2>7. \A d \in Callers :
            /\ InFlight(d)' <=> InFlight(d)
            /\ InFlight(d) => run'[d].tool = run[d].tool /\ run'[d].permit = run[d].permit
      BY <1>2, <2>3 DEF FailFast, InFlight, IndInv, BreakerTypeOK, Run
    <2>8. BudgetLeft'
      BY <1>2, <2>3 DEF FailFast, InFlight, IndInv, BudgetLeft, BreakerTypeOK, Run
    <2> QED
      BY <2>2, <2>6, <2>7, <2>8, QuietStep
  <1>3. ASSUME NEW c \in Callers, Cancel(c) PROVE IndInv'
    <2>1. BreakerTypeOK'
      BY <1>3 DEF Cancel, IndInv, BreakerTypeOK
    <2> QED
      BY <1>3, <2>1, QuietStep DEF Cancel, InFlight, IndInv, BudgetLeft
  <1>4. ASSUME NEW c \in Callers, CallProceeds(c) PROVE IndInv'
    <2>1. CASE CallSucceeds(c)
      BY <2>1, ReturnStep DEF CallSucceeds, InFlight, Results
    <2>2. CASE CallAbandoned(c)
      BY <2>2, ReturnStep DEF CallAbandoned, InFlight, Results
    <2>3. CASE CallExpires(c)
      BY <2>3, ReturnStep DEF CallExpires, InFlight, Results
    <2>4. CASE CallExhausted(c)
      BY <2>4, ReturnStep DEF CallExhausted, InFlight, Results
    <2>5. CASE BackoffAbandoned(c)
      BY <2>5, ReturnStep DEF BackoffAbandoned, InFlight, Results
    <2>6. CASE CallFails(c)
      <3>1. BreakerTypeOK'
        BY <2>6 DEF CallFails, IndInv, BreakerTypeOK, Run
      <3>2. \A d \in Callers :
              /\ InFlight(d)' <=> InFlight(d)
              /\ run'[d].tool = run[d].tool /\ run'[d].permit = run[d].permit
        BY <2>6 DEF CallFails, InFlight, IndInv, BreakerTypeOK, Run
      <3>3. BudgetLeft'
        BY <2>6, <1>4 DEF CallFails, IndInv, BudgetLeft, BreakerTypeOK, Run
      <3> QED
        BY <2>6, <3>1, <3>2, <3>3, QuietStep DEF CallFails
    <2>7. CASE BackoffElapses(c)
      <3> DEFINE resumed == [run[c] EXCEPT !.pc = "calling"]
                 next == [resumed EXCEPT !.attempt = run[c].attempt + 1]
      <3>1. /\ resumed \in Run /\ resumed.attempt = run[c].attempt
            /\ run[c].attempt < MaxRetries
            /\ resumed.tool = run[c].tool /\ resumed.permit = run[c].permit
        BY <1>4, <2>7 DEF BackoffElapses, IndInv, BudgetLeft, BreakerTypeOK, Run
      <3>2. /\ next \in Run /\ next.pc = "calling"
            /\ next.tool = run[c].tool /\ next.permit = run[c].permit
        <4>1. resumed.pc = "calling"
          BY DEF IndInv, BreakerTypeOK, Run
        <4> HIDE DEF resumed
        <4> QED
          BY <3>1, <4>1, ConfigAssumption DEF Run
      <3>3. run' = [run EXCEPT ![c] = next]
        BY <2>7 DEF BackoffElapses, IndInv, BreakerTypeOK, Run
      <3> HIDE DEF next, resumed
      <3>4. /\ run'[c] = next
            /\ \A d \in Callers \ {c} : run'[d] = run[d]
        BY <3>3 DEF IndInv, BreakerTypeOK
      <3>5. BreakerTypeOK'
        BY <2>7, <3>2, <3>3 DEF BackoffElapses, IndInv, BreakerTypeOK
      <3>6. BudgetLeft'
        BY <3>2, <3>4 DEF IndInv, BudgetLeft
      <3>7. \A d \in Callers :
              /\ InFlight(d)' <=> InFlight(d)
              /\ run'[d].tool = run[d].tool /\ run'[d].permit = run[d].permit
        BY <2>7, <3>2, <3>4 DEF BackoffElapses, InFlight
      <3> QED
        BY <2>7, <3>5, <3>6, <3>7, QuietStep DEF BackoffElapses
    <2> QED
      BY <1>4, <2>1, <2>2, <2>3, <2>4, <2>5, <2>6, <2>7 DEF CallProceeds
  <1>5. ASSUME NEW t \in Tools, Cooldown(t) PROVE IndInv'
    BY <1>5, CooldownStep
  <1>6. CASE UNCHANGED breakerVars
    BY <1>6, QuietStep DEF breakerVars, InFlight, IndInv, BreakerTypeOK, BudgetLeft
  <1> QED
    BY <1>1, <1>2, <1>3, <1>4, <1>5, <1>6 DEF BreakerNext

\* The inductive invariant holds of every behaviour of Guard.Run and its breakers.
LEMMA Inductive == BreakerSpec => []IndInv
  <1> QED
    BY InitIndInv, NextIndInv, PTL DEF BreakerSpec

-----------------------------------------------------------------------------
(* The theorems *)

\* Every variable keeps its type: in particular no call makes more attempts
\* than its budget (the retry loop of Guard.Run).
THEOREM TypeCorrect == BreakerSpec => []BreakerTypeOK
  <1>1. IndInv => BreakerTypeOK
    BY DEF IndInv
  <1> QED
    BY <1>1, Inductive, PTL

\* Half-open always has exactly one trial call, in flight and able to resolve it
\* (Breaker.Allow, RecordAbandoned).
THEOREM OneProbe == BreakerSpec => []ExactlyOneProbe
  <1>1. IndInv => ExactlyOneProbe
    BY DEF IndInv
  <1> QED
    BY <1>1, Inductive, PTL

\* No call in flight can touch a breaker that is open (Breaker.open, honors).
THEOREM RetiredPermits == BreakerSpec => []OpenRetiresPermits
  <1>1. IndInv => OpenRetiresPermits
    BY DEF IndInv
  <1> QED
    BY <1>1, Inductive, PTL

\* A closed breaker is below its threshold (Breaker.RecordFailure).
THEOREM BelowThreshold == BreakerSpec => []ClosedBelowThreshold
  <1>1. IndInv => ClosedBelowThreshold
    BY DEF IndInv
  <1> QED
    BY <1>1, Inductive, PTL

-----------------------------------------------------------------------------
(* Action properties *)

\* What one outcome does to a breaker that is open, or half-open.
LEMMA ReturnEffect ==
  ASSUME IndInv, NEW c \in Callers, InFlight(c), NEW result,
         NEW r \in {RecordSuccess(byName[run[c].tool], run[c].permit),
                    RecordFailure(byName[run[c].tool], run[c].permit),
                    RecordAbandoned(byName[run[c].tool], run[c].permit)},
         Return(c, r, result), NEW t \in Tools
  PROVE  /\ byName[t].state = Open => byName'[t] = byName[t]
         /\ byName'[t].state # byName[t].state /\ byName[t].state = HalfOpen =>
              c \in Honored(t) /\ run[c].tool = t /\ byName'[t] = r
  <1>1. CASE t # run[c].tool
    BY <1>1 DEF Return, IndInv, BreakerTypeOK, Run
  <1>2. CASE t = run[c].tool
    <2>1. byName'[t] = r
      BY <1>2 DEF Return, IndInv, BreakerTypeOK, Run
    <2>2. CASE Honors(byName[t], run[c].permit)
      BY <1>2, <2>1, <2>2 DEF Honors, Honored, RecordSuccess, RecordFailure,
                              RecordAbandoned, Open, HalfOpen
    <2>3. CASE ~Honors(byName[t], run[c].permit)
      BY <1>2, <2>1, <2>3 DEF RecordSuccess, RecordFailure, RecordAbandoned
    <2> QED
      BY <2>2, <2>3
  <1> QED
    BY <1>1, <1>2

\* A running cooldown is never restarted and never cut short, whatever calls
\* admitted before it report (RecordFailure and RecordAbandoned of stragglers).
THEOREM Cooldowns == BreakerSpec => CooldownUndisturbed
  <1> DEFINE Undisturbed(t) ==
        byName[t].state = Open =>
          \/ byName'[t].state = Open /\ byName'[t].age >= byName[t].age
          \/ byName'[t].state = HalfOpen /\ byName[t].age = ResetTimeout
  <1>1. ASSUME IndInv, [BreakerNext]_breakerVars, NEW t \in Tools PROVE Undisturbed(t)
    <2> SUFFICES ASSUME byName[t].state = Open
                 PROVE  \/ byName'[t].state = Open /\ byName'[t].age >= byName[t].age
                        \/ byName'[t].state = HalfOpen /\ byName[t].age = ResetTimeout
      OBVIOUS
    <2>1. byName[t] \in Breaker /\ byName[t].age \in Int
      <3>1. byName[t] \in Breaker
        BY <1>1 DEF IndInv, BreakerTypeOK, NoBreaker, Open
      <3> QED
        BY <3>1, ConfigAssumption DEF Breaker
    <2>2. byName'[t] = byName[t] => byName'[t].age >= byName[t].age
      BY <2>1
    <2>3. ASSUME NEW c \in Callers, NEW u \in Tools, Admit(c, u) PROVE Undisturbed(t)
      <3>1. CASE u # t
        BY <1>1, <2>2, <2>3, <3>1 DEF Admit, IndInv, BreakerTypeOK
      <3>2. CASE u = t
        <4>1. Get(t) = byName[t]
          BY DEF Get, NoBreaker, Open
        <4>2. byName'[t] = Admitted(byName[t])
          BY <1>1, <2>3, <3>2, <4>1 DEF Admit, IndInv, BreakerTypeOK
        <4>3. byName[t].age = ResetTimeout
          BY <2>3, <3>2, <4>1 DEF Admit, Admits, Open, Closed, HalfOpen
        <4>4. Admitted(byName[t]).state = HalfOpen
          BY <2>1 DEF Admitted, Breaker
        <4> QED
          BY <4>2, <4>3, <4>4
      <3> QED
        BY <3>1, <3>2
    <2>4. ASSUME NEW c \in Callers, NEW u \in Tools, FailFast(c, u) PROVE Undisturbed(t)
      <3>1. byName[u] # NoBreaker
        BY <2>4 DEF FailFast, Get, Admits, NewBreaker
      <3> QED
        BY <1>1, <2>2, <2>4, <3>1 DEF FailFast, Get, IndInv, BreakerTypeOK
    <2>5. ASSUME NEW c \in Callers, Cancel(c) \/ CallFails(c) \/ BackoffElapses(c)
          PROVE Undisturbed(t)
      BY <2>2, <2>5 DEF Cancel, CallFails, BackoffElapses
    <2>6. ASSUME NEW c \in Callers, CallSucceeds(c) \/ CallAbandoned(c) \/ CallExpires(c)
                                    \/ CallExhausted(c) \/ BackoffAbandoned(c)
          PROVE Undisturbed(t)
      BY <1>1, <2>2, <2>6, ReturnEffect
      DEF CallSucceeds, CallAbandoned, CallExpires, CallExhausted, BackoffAbandoned, InFlight
    <2>7. ASSUME NEW u \in Tools, Cooldown(u) PROVE Undisturbed(t)
      <3>1. CASE u # t
        BY <1>1, <2>2, <2>7, <3>1 DEF Cooldown, IndInv, BreakerTypeOK
      <3>2. CASE u = t
        <4>1. byName'[t] = [byName[t] EXCEPT !.age = @ + 1]
          BY <1>1, <2>7, <3>2 DEF Cooldown, IndInv, BreakerTypeOK
        <4> QED
          BY <2>1, <4>1 DEF Breaker
      <3> QED
        BY <3>1, <3>2
    <2>8. CASE UNCHANGED breakerVars
      BY <2>2, <2>8 DEF breakerVars
    <2> QED
      BY <1>1, <2>3, <2>4, <2>5, <2>6, <2>7, <2>8 DEF BreakerNext, CallProceeds
  <1>2. IndInv /\ [BreakerNext]_breakerVars =>
          [\A t \in Tools : byName[t].state = Open =>
             \/ byName'[t].state = Open /\ byName'[t].age >= byName[t].age
             \/ byName'[t].state = HalfOpen /\ byName[t].age = ResetTimeout]_breakerVars
    BY <1>1
  <1> QED
    BY <1>2, Inductive, PTL DEF BreakerSpec, CooldownUndisturbed

-----------------------------------------------------------------------------
(* Which outcomes count *)

\* What an outcome of each kind may do: only a current one ends a half-open state,
\* a success by closing the breaker, a failure or an abandonment by opening it; only
\* a current failure adds to the count, and adds one.
LEMMA OutcomeEffects ==
  ASSUME NEW b \in Breaker, NEW permit \in Nat
  PROVE  /\ b.state = HalfOpen /\ RecordSuccess(b, permit).state # HalfOpen =>
              permit = b.generation /\ RecordSuccess(b, permit).state = Closed
         /\ b.state = HalfOpen /\ RecordFailure(b, permit).state # HalfOpen =>
              permit = b.generation /\ RecordFailure(b, permit).state = Open
         /\ b.state = HalfOpen /\ RecordAbandoned(b, permit).state # HalfOpen =>
              permit = b.generation /\ RecordAbandoned(b, permit).state = Open
         /\ ~(RecordSuccess(b, permit).failures > b.failures)
         /\ RecordFailure(b, permit).failures > b.failures =>
              permit = b.generation /\ RecordFailure(b, permit).failures = b.failures + 1
         /\ ~(RecordAbandoned(b, permit).failures > b.failures)
  <1>1. ASSUME NEW d \in Breaker
        PROVE  Tripped(d).state = Open /\ Tripped(d).failures = d.failures
    <2> DEFINE idle == [[[d EXCEPT !.state = Open] EXCEPT !.age = 0] EXCEPT !.probeActive = FALSE]
    <2>1. /\ DOMAIN idle = {"state", "failures", "generation", "probeActive", "age"}
          /\ idle.state = Open /\ idle.failures = d.failures
      BY DEF Breaker
    <2>2. Tripped(d) = [idle EXCEPT !.generation = @ + 1]
      BY DEF Tripped, Breaker
    <2> HIDE DEF idle
    <2> QED
      BY <2>1, <2>2
  <1>2. /\ b.state = HalfOpen /\ RecordSuccess(b, permit).state # HalfOpen =>
             permit = b.generation /\ RecordSuccess(b, permit).state = Closed
        /\ ~(RecordSuccess(b, permit).failures > b.failures)
    <2>1. CASE ~Honors(b, permit) \/ b.state = Open
      BY <2>1 DEF RecordSuccess, Honors, Breaker, Open, HalfOpen
    <2>2. CASE Honors(b, permit) /\ b.state # Open
      <3>1. /\ RecordSuccess(b, permit).state = Closed
            /\ RecordSuccess(b, permit).failures = 0
        BY <2>2 DEF RecordSuccess, Breaker
      <3> QED
        BY <2>2, <3>1 DEF Honors, Breaker
    <2> QED
      BY <2>1, <2>2
  <1>3. /\ b.state = HalfOpen /\ RecordFailure(b, permit).state # HalfOpen =>
             permit = b.generation /\ RecordFailure(b, permit).state = Open
        /\ RecordFailure(b, permit).failures > b.failures =>
             permit = b.generation /\ RecordFailure(b, permit).failures = b.failures + 1
    <2> DEFINE counted == [b EXCEPT !.failures = @ + 1]
    <2>1. /\ counted \in Breaker
          /\ counted.state = b.state
          /\ counted.failures = b.failures + 1
      BY DEF Breaker
    <2>2. CASE b.state = Open \/ ~Honors(b, permit)
      BY <2>2 DEF RecordFailure, Honors, Breaker, Open, HalfOpen
    <2>3. CASE ~(b.state = Open \/ ~Honors(b, permit))
      <3>1. \/ RecordFailure(b, permit) = Tripped(counted)
            \/ RecordFailure(b, permit) = counted /\ b.state # HalfOpen
        BY <2>3 DEF RecordFailure
      <3>2. permit = b.generation
        BY <2>3 DEF Honors
      <3>3. Tripped(counted).state = Open /\ Tripped(counted).failures = counted.failures
        BY <1>1, <2>1
      <3> HIDE DEF counted
      <3> QED
        BY <2>1, <3>1, <3>2, <3>3
    <2> QED
      BY <2>2, <2>3
  <1>4. /\ b.state = HalfOpen /\ RecordAbandoned(b, permit).state # HalfOpen =>
             permit = b.generation /\ RecordAbandoned(b, permit).state = Open
        /\ ~(RecordAbandoned(b, permit).failures > b.failures)
    BY <1>1 DEF RecordAbandoned, Honors, Breaker
  <1> QED
    BY <1>2, <1>3, <1>4

\* The outcomes that count: half-open ends by the one current call and as that ended,
\* and a count of failures grows by one for a call that ran out of budget (Guard.Run,
\* Breaker.honors).
THEOREM Outcomes == BreakerSpec => OutcomesCount
  <1> DEFINE
        Decides(t) ==
          byName[t].state = HalfOpen /\ byName'[t].state # HalfOpen =>
            \E c \in Honored(t) :
              /\ run'[c].pc = "returned"
              /\ byName'[t].state = Closed <=> run'[c].result = "ok"
        CountsOnce(t) ==
          byName[t] # NoBreaker /\ byName'[t].failures > byName[t].failures =>
            /\ byName'[t].failures = byName[t].failures + 1
            /\ \E c \in Honored(t) : run'[c].pc = "returned"
                                     /\ run'[c].result \in {"deadline", "exhausted"}
  <1>1. ASSUME IndInv, [BreakerNext]_breakerVars, NEW t \in Tools PROVE Decides(t) /\ CountsOnce(t)
    <2>1. CASE byName[t] = NoBreaker
      BY <2>1 DEF NoBreaker, HalfOpen
    <2>2. CASE byName[t] # NoBreaker
      <3>1. byName[t] \in Breaker
        BY <1>1, <2>2 DEF IndInv, BreakerTypeOK
      <3>2. Get(t) = byName[t]
        BY <2>2 DEF Get
      <3>3. byName'[t].state = byName[t].state /\ byName'[t].failures = byName[t].failures
              => Decides(t) /\ CountsOnce(t)
        BY <3>1 DEF Breaker
      <3>4. ASSUME NEW c \in Callers, NEW u \in Tools, Admit(c, u)
            PROVE Decides(t) /\ CountsOnce(t)
        <4>1. CASE u # t
          BY <1>1, <3>3, <3>4, <4>1 DEF Admit, IndInv, BreakerTypeOK
        <4>2. CASE u = t
          <5>1. byName'[t] = Admitted(byName[t])
            BY <1>1, <3>2, <3>4, <4>2 DEF Admit, IndInv, BreakerTypeOK
          <5>2. byName[t].state # HalfOpen
            BY <1>1, <3>2, <3>4, <4>2 DEF Admit, Admits, IndInv, ExactlyOneProbe, Open, Closed, HalfOpen
          <5>3. Admitted(byName[t]).failures = byName[t].failures
            BY <3>1 DEF Admitted, Breaker
          <5> QED
            BY <3>1, <5>1, <5>2, <5>3 DEF Breaker
        <4> QED
          BY <4>1, <4>2
      <3>5. ASSUME NEW c \in Callers, NEW u \in Tools, FailFast(c, u)
            PROVE Decides(t) /\ CountsOnce(t)
        <4>1. byName'[t] = byName[t]
          BY <1>1, <3>2, <3>5 DEF FailFast, IndInv, BreakerTypeOK
        <4> QED
          BY <3>3, <4>1
      <3>6. ASSUME NEW c \in Callers, Cancel(c) \/ CallFails(c) \/ BackoffElapses(c)
            PROVE Decides(t) /\ CountsOnce(t)
        BY <3>3, <3>6 DEF Cancel, CallFails, BackoffElapses
      <3>7. ASSUME NEW c \in Callers, NEW r, NEW result, InFlight(c), Return(c, r, result),
                   \/ r = RecordSuccess(byName[run[c].tool], run[c].permit) /\ result = "ok"
                   \/ /\ r = RecordFailure(byName[run[c].tool], run[c].permit)
                      /\ result \in {"deadline", "exhausted"}
                   \/ /\ r = RecordAbandoned(byName[run[c].tool], run[c].permit)
                      /\ result = "abandoned"
            PROVE Decides(t) /\ CountsOnce(t)
        <4>1. CASE run[c].tool # t
          BY <1>1, <3>3, <3>7, <4>1 DEF Return, IndInv, BreakerTypeOK
        <4>2. CASE run[c].tool = t
          <5>1. run[c].permit \in Nat
            BY <1>1 DEF IndInv, BreakerTypeOK, Run
          <5>2. byName'[t] = r
            BY <1>1, <3>7, <4>2 DEF Return, IndInv, BreakerTypeOK
          <5>3. run'[c].pc = "returned" /\ run'[c].result = result
            BY <1>1, <3>7 DEF Return, IndInv, BreakerTypeOK
          <5>4. run[c].permit = byName[t].generation => c \in Honored(t)
            BY <3>7, <4>2 DEF Honored
          <5>5. Decides(t)
            BY <3>1, <3>7, <4>2, <5>1, <5>2, <5>3, <5>4, OutcomeEffects
            DEF Open, Closed, HalfOpen
          <5>6. CountsOnce(t)
            BY <3>1, <3>7, <4>2, <5>1, <5>2, <5>3, <5>4, OutcomeEffects
          <5> QED
            BY <5>5, <5>6
        <4> QED
          BY <4>1, <4>2
      <3>8. ASSUME NEW c \in Callers, CallSucceeds(c) \/ CallAbandoned(c) \/ CallExpires(c)
                                      \/ CallExhausted(c) \/ BackoffAbandoned(c)
            PROVE Decides(t) /\ CountsOnce(t)
        <4> HIDE DEF Decides, CountsOnce
        <4> QED
          BY <3>7, <3>8
          DEF CallSucceeds, CallAbandoned, CallExpires, CallExhausted, BackoffAbandoned, InFlight
      <3>9. ASSUME NEW u \in Tools, Cooldown(u) PROVE Decides(t) /\ CountsOnce(t)
        <4>1. CASE u # t
          BY <1>1, <3>3, <3>9, <4>1 DEF Cooldown, IndInv, BreakerTypeOK
        <4>2. CASE u = t
          <5>1. byName'[t] = [byName[t] EXCEPT !.age = @ + 1]
            BY <1>1, <3>9, <4>2 DEF Cooldown, IndInv, BreakerTypeOK
          <5>2. byName'[t].state = byName[t].state /\ byName'[t].failures = byName[t].failures
            BY <3>1, <5>1 DEF Breaker
          <5> QED
            BY <3>3, <5>2
        <4> QED
          BY <4>1, <4>2
      <3>10. CASE UNCHANGED breakerVars
        BY <3>3, <3>10 DEF breakerVars
      <3> HIDE DEF Decides, CountsOnce
      <3> QED
        BY <1>1, <3>4, <3>5, <3>6, <3>8, <3>9, <3>10 DEF BreakerNext, CallProceeds
    <2> QED
      BY <2>1, <2>2
  <1>2. IndInv /\ [BreakerNext]_breakerVars =>
          [\A t \in Tools : byName[t].state = HalfOpen /\ byName'[t].state # HalfOpen =>
             \E c \in Honored(t) :
               /\ run'[c].pc = "returned"
               /\ byName'[t].state = Closed <=> run'[c].result = "ok"]_breakerVars
    BY <1>1
  <1>3. IndInv /\ [BreakerNext]_breakerVars =>
          [\A t \in Tools :
             byName[t] # NoBreaker /\ byName'[t].failures > byName[t].failures =>
               /\ byName'[t].failures = byName[t].failures + 1
               /\ \E c \in Honored(t) : run'[c].pc = "returned"
                                        /\ run'[c].result \in {"deadline", "exhausted"}]_breakerVars
    BY <1>1
  <1> QED
    BY <1>2, <1>3, Inductive, PTL DEF BreakerSpec, OutcomesCount, ProbeDecides, OneFailurePerCall

=============================================================================
