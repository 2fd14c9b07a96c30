----------------------------- MODULE MCSessions -----------------------------
(***************************************************************************)
(* The session gate alone, with four users of two sessions (SessionLocks), *)
(* and two turns of one session that go through it (Turns): `part` chooses *)
(* which of the two moves.                                                 *)
(***************************************************************************)
EXTENDS SessionLocks, Turns

CONSTANTS u1, u2, s1, l1, l2  \* of Users, Keys and Locks

VARIABLE part

ASSUME TurnConfiguration == TurnsAssumption

\* Two turns at a time in one session, with failures and crashes.
Few == \A u \in Users : turn[u].pc # "idle" =>
  u \in {u1, u2} /\ turn[u].key = s1 /\ user[u].lock \in {l1, l2, NoLock}

\* The session of a user that is out of the gate says nothing.
SessionsInit ==
  /\ part \in {"gate", "turns"}
  /\ Init /\ user = [u \in Users |-> Out(s1)]
  /\ TurnsInit

SessionsNext ==
  \/ part = "gate" /\ Next /\ UNCHANGED <<part, stored, counts, turn, appended>>
  \/ part = "turns" /\ TurnsNext /\ Few' /\ UNCHANGED part

\* The fairness of whichever part moves.
GateFairness == \A u \in Users :
  /\ SF_registry(part = "gate" /\ Enter(u))
  /\ WF_registry(part = "gate" /\ Exit(u))
  /\ WF_registry(part = "gate" /\ Release(u))
TurnFairness == \A u \in {u1, u2} :
  /\ WF_vars(part = "turns" /\ Proceed(u))
  /\ SF_vars(part = "turns" /\ EnterGate(u))

SessionsSpec == SessionsInit /\ [][SessionsNext]_<<part, vars>> /\ GateFairness /\ TurnFairness

-----------------------------------------------------------------------------
\* Whoever waits for the gate gets in, and every turn ends (SessionLocks, Turns).
EveryTurnEnds == (part = "gate" => EveryoneEnters) /\ TurnsEnd
=============================================================================
