---------------------------- MODULE SessionLocks ----------------------------
(***************************************************************************)
(* The registry of reference-counted session locks, which the program has  *)
(* twice: sessionGate (a2aserver/runner.go) around whole turns and         *)
(* sessionLockRegistry (policy/budget.go) around a callback's read-modify- *)
(* write. The two are one algorithm.                                       *)
(*                                                                         *)
(* The guard mutex makes each of its two sections one step; the wait for   *)
(* the session's own mutex comes between them, outside the guard. A lock   *)
(* that nothing refers to any more is collected, and may be allocated      *)
(* again.                                                                  *)
(*                                                                         *)
(* A definition Name_Fault is Name as a plausible slip would have left it;  *)
(* nothing uses it but a check that some property notices the slip.        *)
(***************************************************************************)
EXTENDS SessionRegistry, Integers, FiniteSets

ASSUME LocksAssumption ==
  /\ IsFiniteSet(Users)
  /\ NoLock \notin Locks

Places == {"out", "waiting", "inside", "leaving"}

User == [pc: Places, key: Keys, lock: Locks \cup {NoLock}]

TypeOK ==
  /\ locks \in [Keys -> Locks \cup {NoLock}]
  /\ refs \in [Locks -> Nat]
  /\ locked \in [Locks -> BOOLEAN]
  /\ user \in [Users -> User]

Out(k) == [pc |-> "out", key |-> k, lock |-> NoLock]

Init ==
  /\ locks = [k \in Keys |-> NoLock]
  /\ refs = [e \in Locks |-> 0]
  /\ locked = [e \in Locks |-> FALSE]
  /\ user \in [Users -> {Out(k) : k \in Keys}]

-----------------------------------------------------------------------------

Holders(e) == {u \in Users : user[u].lock = e}
UsersOf(k) == {u \in Users : user[u].pc # "out" /\ user[u].key = k}
Inside(k)  == {u \in Users : user[u].pc = "inside" /\ user[u].key = k}

\* What the collector may not reuse: an entry of the map, or held by a user.
Reachable(e) == Holders(e) # {} \/ \E k \in Keys : locks[k] = e

Acquire_CountsLate(u, k) ==
  /\ user[u].pc = "out"
  /\ \/ /\ locks[k] # NoLock
        /\ user' = [user EXCEPT ![u] = [pc |-> "waiting", key |-> k, lock |-> locks[k]]]
        /\ UNCHANGED <<locks, refs, locked>>
     \/ \E e \in Locks :
          /\ locks[k] = NoLock /\ ~Reachable(e)
          /\ locks' = [locks EXCEPT ![k] = e]
          /\ refs' = [refs EXCEPT ![e] = 1]
          /\ locked' = [locked EXCEPT ![e] = FALSE]
          /\ user' = [user EXCEPT ![u] = [pc |-> "waiting", key |-> k, lock |-> e]]

\* Under the guard: find or create the session's lock, and count oneself before
\* waiting for it.
Acquire(u, k) ==
  /\ user[u].pc = "out"
  /\ \/ /\ locks[k] # NoLock
        /\ refs' = [refs EXCEPT ![locks[k]] = refs[locks[k]] + 1]
        /\ user' = [user EXCEPT ![u] = [pc |-> "waiting", key |-> k, lock |-> locks[k]]]
        /\ UNCHANGED <<locks, locked>>
     \/ \E e \in Locks :
          /\ locks[k] = NoLock /\ ~Reachable(e)
          /\ locks' = [locks EXCEPT ![k] = e]
          /\ refs' = [refs EXCEPT ![e] = 1]
          /\ locked' = [locked EXCEPT ![e] = FALSE]
          /\ user' = [user EXCEPT ![u] = [pc |-> "waiting", key |-> k, lock |-> e]]

\* entry.mutex.Lock(), outside the guard.
Enter(u) ==
  /\ user[u].pc = "waiting"
  /\ ~locked[user[u].lock]
  /\ locked' = [locked EXCEPT ![user[u].lock] = TRUE]
  /\ user' = [user EXCEPT ![u] = [pc |-> "inside", key |-> user[u].key, lock |-> user[u].lock]]
  /\ UNCHANGED <<locks, refs>>

\* The returned function, first half: entry.mutex.Unlock().
Exit(u) ==
  /\ user[u].pc = "inside"
  /\ locked' = [locked EXCEPT ![user[u].lock] = FALSE]
  /\ user' = [user EXCEPT ![u] = [pc |-> "leaving", key |-> user[u].key, lock |-> user[u].lock]]
  /\ UNCHANGED <<locks, refs>>

Release_Always(u) ==
  LET e == user[u].lock IN
  /\ user[u].pc = "leaving"
  /\ refs' = [refs EXCEPT ![e] = refs[e] - 1]
  /\ locks' = [locks EXCEPT ![user[u].key] = NoLock]
  /\ user' = [user EXCEPT ![u] = Out(user[u].key)]
  /\ UNCHANGED locked

Release_Never(u) ==
  LET e == user[u].lock IN
  /\ user[u].pc = "leaving"
  /\ refs' = [refs EXCEPT ![e] = refs[e] - 1]
  /\ user' = [user EXCEPT ![u] = Out(user[u].key)]
  /\ UNCHANGED <<locks, locked>>

\* Second half, under the guard: the last reference removes the entry.
Release(u) ==
  LET e == user[u].lock IN
  /\ user[u].pc = "leaving"
  /\ refs' = [refs EXCEPT ![e] = refs[e] - 1]
  /\ locks' = IF refs[e] = 1 THEN [locks EXCEPT ![user[u].key] = NoLock] ELSE locks
  /\ user' = [user EXCEPT ![u] = Out(user[u].key)]
  /\ UNCHANGED locked

Next == \E u \in Users : (\E k \in Keys : Acquire(u, k)) \/ Enter(u) \/ Exit(u) \/ Release(u)

\* A mutex that is free again and again is got in the end (sync.Mutex hands over
\* to its first waiter after a millisecond), and what a lock protects ends.
Fairness == \A u \in Users :
  SF_registry(Enter(u)) /\ WF_registry(Exit(u)) /\ WF_registry(Release(u))

Spec == Init /\ [][Next]_registry /\ Fairness

-----------------------------------------------------------------------------
(* Properties *)

\* Whoever waits for or holds a session's lock has the one the map names: "a
\* waiter cannot have its lock deleted out from under it" (sessionGate.acquire).
LockKept == \A u \in Users : user[u].pc # "out" => locks[user[u].key] = user[u].lock

\* "Reference counted so an idle session leaves nothing behind": an entry is
\* there exactly as long as somebody uses its session.
NothingLeftBehind == \A k \in Keys : locks[k] # NoLock <=> UsersOf(k) # {}

\* The registry is in step with the users of its sessions.
RegistryIsExact == LockKept /\ NothingLeftBehind

\* The number of holders and waiters, which decides when the entry goes.
RefsCounted == \A k \in Keys : locks[k] # NoLock => refs[locks[k]] = Cardinality(UsersOf(k))

Mutex == INSTANCE SessionMutex WITH inside <- [k \in Keys |-> Inside(k)]

\* "Runs at most one ADK invocation per logical A2A session at a time"
\* (serializingRunner), through any reuse of lock objects.
OneInside == Mutex!Spec

\* Whoever asks for a session's lock gets it, however many others do.
EveryoneEnters == \A u \in Users : user[u].pc = "waiting" ~> user[u].pc = "inside"

=============================================================================
