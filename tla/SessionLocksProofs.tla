------------------------- MODULE SessionLocksProofs -------------------------
(***************************************************************************)
(* The session lock registry is a mutex per session that leaves nothing    *)
(* behind, for any number of users, sessions and lock objects.             *)
(*                                                                         *)
(* A user that waits for a session or is in it holds the very object the   *)
(* map names (LockKept), and no object serves two sessions (NotShared): so *)
(* the object's mutex excludes the users of one session and of no other.   *)
(* The map keeps naming it because the count is the number of its users    *)
(* (RefsCounted), which is zero only after the last of them.               *)
(***************************************************************************)
EXTENDS SessionLocks, FiniteSetTheorems, TLAPS

\* Two sessions never have one lock.
NotShared == \A k, l \in Keys : locks[k] = locks[l] /\ locks[k] # NoLock => k = l

\* A user of a session has a lock object, others have none.
HasLock == \A u \in Users : user[u].pc = "out" <=> user[u].lock = NoLock

\* Whoever is inside holds the mutex ...
InsideLocked == \A u \in Users : user[u].pc = "inside" => locked[user[u].lock]

\* ... and is alone in its session.
Alone == \A u, v \in Users :
  user[u].pc = "inside" /\ user[v].pc = "inside" /\ user[u].key = user[v].key => u = v

IndInv ==
  /\ TypeOK
  /\ HasLock
  /\ LockKept
  /\ NotShared
  /\ RefsCounted
  /\ NothingLeftBehind
  /\ InsideLocked
  /\ Alone

-----------------------------------------------------------------------------
(* The users of a session are finitely many. *)

LEMMA UsersFinite ==
  ASSUME NEW k \in Keys
  PROVE  IsFiniteSet(UsersOf(k)) /\ Cardinality(UsersOf(k)) \in Nat
  <1>1. UsersOf(k) \in SUBSET Users
    BY DEF UsersOf
  <1> QED
    BY <1>1, LocksAssumption, FS_Subset, FS_CardinalityType

\* Nobody starts in a session.
LEMMA InitOut == Init => \A u \in Users : user[u].pc = "out" /\ user[u].lock = NoLock
  <1> SUFFICES ASSUME Init, NEW u \in Users PROVE user[u].pc = "out" /\ user[u].lock = NoLock
    OBVIOUS
  <1>1. user[u] \in {Out(k) : k \in Keys}
    BY DEF Init
  <1>2. PICK k \in Keys : user[u] = Out(k)
    BY <1>1
  <1> QED
    BY <1>2 DEF Out

\* No lock is in use before the first turn.
LEMMA InitIndInv == Init => IndInv
  <1> SUFFICES ASSUME Init PROVE IndInv
    OBVIOUS
  <1>1. \A u \in Users : \E k \in Keys : user[u] = Out(k)
    BY DEF Init
  <1>2. TypeOK
    BY <1>1, LocksAssumption DEF Init, TypeOK, User, Places, Out
  <1>3. HasLock /\ LockKept /\ InsideLocked /\ Alone
    BY InitOut DEF HasLock, LockKept, InsideLocked, Alone
  <1>4. NotShared /\ RefsCounted
    BY DEF Init, NotShared, RefsCounted
  <1>5. NothingLeftBehind
    BY InitOut DEF Init, NothingLeftBehind, UsersOf
  <1> QED
    BY <1>2, <1>3, <1>4, <1>5 DEF IndInv

\* A second user of a session joins the count (sessionGate.acquire, found).
LEMMA JoinPreserves ==
  ASSUME IndInv, NEW u \in Users, NEW k \in Keys, user[u].pc = "out", locks[k] # NoLock,
         refs' = [refs EXCEPT ![locks[k]] = refs[locks[k]] + 1],
         user' = [user EXCEPT ![u] = [pc |-> "waiting", key |-> k, lock |-> locks[k]]],
         UNCHANGED <<locks, locked>>
  PROVE  IndInv'
  <1> USE DEF IndInv
  <1>0. locks[k] \in Locks /\ user' \in [Users -> User]
    BY DEF TypeOK, User, Places
  <1>1. TypeOK'
    BY <1>0 DEF TypeOK
  <1>2. user'[u] = [pc |-> "waiting", key |-> k, lock |-> locks[k]]
        /\ \A v \in Users \ {u} : user'[v] = user[v]
    BY DEF TypeOK
  <1>3. HasLock' /\ LockKept' /\ InsideLocked' /\ Alone'
    BY <1>0, <1>2, LocksAssumption DEF HasLock, LockKept, InsideLocked, Alone
  <1>4. NotShared'
    BY DEF NotShared
  <1>5. UsersOf(k)' = UsersOf(k) \cup {u} /\ u \notin UsersOf(k)
    BY <1>2 DEF UsersOf
  <1>6. \A l \in Keys \ {k} : UsersOf(l)' = UsersOf(l)
    BY <1>2 DEF UsersOf
  <1>7. Cardinality(UsersOf(k)') = Cardinality(UsersOf(k)) + 1
    BY <1>5, UsersFinite, FS_AddElement
  <1>8. RefsCounted'
    <2> SUFFICES ASSUME NEW l \in Keys, locks[l] # NoLock
                 PROVE  refs'[locks[l]] = Cardinality(UsersOf(l)')
      BY DEF RefsCounted
    <2>1. CASE l = k
      BY <2>1, <1>0, <1>7 DEF TypeOK, RefsCounted
    <2>2. CASE l # k
      <3>1. locks[l] # locks[k] /\ locks[l] \in Locks
        BY <2>2 DEF NotShared, TypeOK
      <3>2. refs'[locks[l]] = refs[locks[l]]
        BY <3>1 DEF TypeOK
      <3> QED
        BY <3>2, <2>2, <1>6 DEF RefsCounted
    <2> QED
      BY <2>1, <2>2
  <1>9. NothingLeftBehind'
    BY <1>5, <1>6 DEF NothingLeftBehind
  <1> QED
    BY <1>1, <1>3, <1>4, <1>8, <1>9

\* The first user of a session brings a lock nobody has (acquire, not found).
LEMMA CreatePreserves ==
  ASSUME IndInv, NEW u \in Users, NEW k \in Keys, NEW e \in Locks,
         user[u].pc = "out", locks[k] = NoLock, ~Reachable(e),
         locks' = [locks EXCEPT ![k] = e],
         refs' = [refs EXCEPT ![e] = 1],
         locked' = [locked EXCEPT ![e] = FALSE],
         user' = [user EXCEPT ![u] = [pc |-> "waiting", key |-> k, lock |-> e]]
  PROVE  IndInv'
  <1> USE DEF IndInv
  <1>0. e # NoLock /\ user' \in [Users -> User]
    BY LocksAssumption DEF TypeOK, User, Places
  <1>1. TypeOK'
    BY <1>0 DEF TypeOK
  <1>2. user'[u] = [pc |-> "waiting", key |-> k, lock |-> e]
        /\ \A v \in Users \ {u} : user'[v] = user[v]
    BY DEF TypeOK
  <1>3. locks'[k] = e /\ \A l \in Keys \ {k} : locks'[l] = locks[l] /\ locks[l] # e
    BY DEF TypeOK, Reachable
  <1>4. \A v \in Users : user[v].lock # e
    BY DEF Reachable, Holders
  <1>5. UsersOf(k) = {}
    BY DEF NothingLeftBehind
  <1>6. UsersOf(k)' = {u}
    BY <1>2, <1>5 DEF UsersOf
  <1>7. \A l \in Keys \ {k} : UsersOf(l)' = UsersOf(l)
    BY <1>2 DEF UsersOf
  <1>8. HasLock'
    BY <1>0, <1>2 DEF HasLock
  <1>9. LockKept'
    BY <1>2, <1>3, <1>5 DEF LockKept, UsersOf
  <1>10. NotShared'
    BY <1>3 DEF NotShared
  <1>11. InsideLocked'
    <2> SUFFICES ASSUME NEW v \in Users, user'[v].pc = "inside" PROVE locked'[user'[v].lock]
      BY DEF InsideLocked
    <2>1. v # u /\ user'[v] = user[v]
      BY <1>2
    <2>2. user[v].lock \in Locks \ {e}
      BY <2>1, <1>4 DEF HasLock, TypeOK, User
    <2> QED
      BY <2>1, <2>2 DEF InsideLocked, TypeOK
  <1>12. Alone'
    BY <1>2 DEF Alone
  <1>13. RefsCounted'
    <2> SUFFICES ASSUME NEW l \in Keys, locks'[l] # NoLock
                 PROVE  refs'[locks'[l]] = Cardinality(UsersOf(l)')
      BY DEF RefsCounted
    <2>1. CASE l = k
      BY <2>1, <1>3, <1>6, FS_Singleton DEF TypeOK
    <2>2. CASE l # k
      <3>1. locks'[l] = locks[l] /\ locks[l] # e /\ locks[l] \in Locks
        BY <2>2, <1>3 DEF TypeOK
      <3> QED
        BY <3>1, <2>2, <1>7 DEF RefsCounted, TypeOK
    <2> QED
      BY <2>1, <2>2
  <1>14. NothingLeftBehind'
    BY <1>0, <1>3, <1>6, <1>7 DEF NothingLeftBehind
  <1> QED
    BY <1>1, <1>8, <1>9, <1>10, <1>11, <1>12, <1>13, <1>14

\* Getting and giving back the session's mutex.
LEMMA MutexPreserves ==
  ASSUME IndInv, NEW u \in Users, Enter(u) \/ Exit(u)
  PROVE  IndInv'
  <1> USE DEF IndInv
  <1>0. PICK pc \in {"inside", "leaving"} :
          /\ user' = [user EXCEPT ![u] = [pc |-> pc, key |-> user[u].key, lock |-> user[u].lock]]
          /\ user[u].pc # "out"
          /\ pc = "inside" => /\ ~locked[user[u].lock]
                              /\ locked' = [locked EXCEPT ![user[u].lock] = TRUE]
          /\ pc = "leaving" => /\ user[u].pc = "inside"
                               /\ locked' = [locked EXCEPT ![user[u].lock] = FALSE]
          /\ UNCHANGED <<locks, refs>>
    BY DEF Enter, Exit
  <1>1. user[u] \in User /\ user[u].lock \in Locks
    BY <1>0 DEF TypeOK, User, HasLock
  <1>2. TypeOK'
    BY <1>0, <1>1 DEF TypeOK, User, Places
  <1>3. user'[u] = [pc |-> pc, key |-> user[u].key, lock |-> user[u].lock]
        /\ \A v \in Users \ {u} : user'[v] = user[v]
    BY <1>0 DEF TypeOK
  <1>4. \A v \in Users : /\ user'[v].key = user[v].key
                         /\ user'[v].lock = user[v].lock
                         /\ user'[v].pc = "out" <=> user[v].pc = "out"
    BY <1>0, <1>3
  <1>5. HasLock' /\ LockKept' /\ NotShared'
    BY <1>0, <1>4 DEF HasLock, LockKept, NotShared
  <1>6. \A l \in Keys : UsersOf(l)' = UsersOf(l)
    BY <1>4 DEF UsersOf
  <1>7. RefsCounted' /\ NothingLeftBehind'
    BY <1>0, <1>6 DEF RefsCounted, NothingLeftBehind
  <1>8. \A v \in Users : user[v].pc = "inside" => user[v].lock \in Locks
    BY DEF HasLock, TypeOK, User
  <1>9. \A v \in Users : v # u /\ user[v].pc = "inside" /\ user[v].lock = user[u].lock =>
          user[v].key = user[u].key
    <2> SUFFICES ASSUME NEW v \in Users, user[v].pc = "inside", user[v].lock = user[u].lock
                 PROVE  user[v].key = user[u].key
      OBVIOUS
    <2>1. locks[user[v].key] = locks[user[u].key] /\ locks[user[u].key] # NoLock
      BY <1>0, <1>1, LocksAssumption DEF LockKept
    <2>2. user[v].key \in Keys /\ user[u].key \in Keys
      BY DEF TypeOK, User
    <2> QED
      BY <2>1, <2>2 DEF NotShared
  <1>10. CASE pc = "inside"
    <2>1. \A v \in Users : user[v].pc = "inside" => user[v].lock # user[u].lock
      BY <1>0, <1>10 DEF InsideLocked
    <2>2. \A v \in Users : user[v].pc = "inside" => user[v].key # user[u].key
      BY <1>0, <2>1 DEF LockKept
    <2>3. InsideLocked'
      BY <1>0, <1>1, <1>3, <1>8, <1>10 DEF InsideLocked, TypeOK
    <2>4. Alone'
      BY <1>3, <2>2 DEF Alone
    <2> QED
      BY <1>2, <1>5, <1>7, <2>3, <2>4
  <1>11. CASE pc = "leaving"
    <2>1. \A v \in Users : v # u /\ user[v].pc = "inside" => user[v].lock # user[u].lock
      BY <1>0, <1>9, <1>11 DEF Alone
    <2>2. InsideLocked'
      BY <1>0, <1>3, <1>8, <1>11, <2>1 DEF InsideLocked, TypeOK
    <2>3. Alone'
      BY <1>3, <1>11 DEF Alone
    <2> QED
      BY <1>2, <1>5, <1>7, <2>2, <2>3
  <1> QED
    BY <1>0, <1>10, <1>11

\* The last user out takes the session's entry with it.
LEMMA ReleasePreserves ==
  ASSUME IndInv, NEW u \in Users, Release(u)
  PROVE  IndInv'
  <1> USE DEF IndInv
  <1>0. PICK k \in Keys, e \in Locks :
          /\ k = user[u].key /\ e = user[u].lock
          /\ user[u].pc = "leaving" /\ locks[k] = e /\ e # NoLock
          /\ refs' = [refs EXCEPT ![e] = refs[e] - 1]
          /\ locks' = IF refs[e] = 1 THEN [locks EXCEPT ![k] = NoLock] ELSE locks
          /\ user' = [user EXCEPT ![u] = Out(k)]
          /\ locked' = locked
    <2>1. user[u].key \in Keys /\ user[u].lock \in Locks
      BY DEF Release, HasLock, TypeOK, User
    <2>2. locks[user[u].key] = user[u].lock
      BY DEF Release, LockKept
    <2> QED
      BY <2>1, <2>2, LocksAssumption DEF Release
  <1>1. user'[u] = Out(k) /\ \A v \in Users \ {u} : user'[v] = user[v]
    BY <1>0 DEF TypeOK
  <1>2. UsersOf(k)' = UsersOf(k) \ {u} /\ u \in UsersOf(k)
    BY <1>0, <1>1 DEF UsersOf, Out
  <1>3. \A l \in Keys \ {k} : UsersOf(l)' = UsersOf(l)
    BY <1>0, <1>1 DEF UsersOf, Out
  <1>4. refs[e] = Cardinality(UsersOf(k))
    BY <1>0 DEF RefsCounted
  <1>5. /\ IsFiniteSet(UsersOf(k)') /\ Cardinality(UsersOf(k)') \in Nat
        /\ Cardinality(UsersOf(k)') = refs[e] - 1
    BY <1>2, <1>4, UsersFinite, FS_RemoveElement, FS_CardinalityType
  <1>6. refs[e] = 1 <=> UsersOf(k)' = {}
    BY <1>5, FS_EmptySet DEF TypeOK
  <1>7. \A l \in Keys \ {k} : locks'[l] = locks[l] /\ locks[l] # e
    BY <1>0 DEF TypeOK, NotShared
  <1>8. locks'[k] = IF refs[e] = 1 THEN NoLock ELSE e
    BY <1>0 DEF TypeOK
  <1>9. TypeOK'
    <2>1. refs' \in [Locks -> Nat]
      BY <1>0, <1>5 DEF TypeOK
    <2>2. user' \in [Users -> User]
      BY <1>0 DEF TypeOK, User, Places, Out
    <2>3. locks' \in [Keys -> Locks \cup {NoLock}]
      BY <1>0 DEF TypeOK
    <2> QED
      BY <1>0, <2>1, <2>2, <2>3 DEF TypeOK
  <1>10. HasLock' /\ InsideLocked' /\ Alone'
    BY <1>0, <1>1 DEF HasLock, InsideLocked, Alone, Out
  <1>11. LockKept'
    <2> SUFFICES ASSUME NEW v \in Users, user'[v].pc # "out"
                 PROVE  locks'[user'[v].key] = user'[v].lock
      BY DEF LockKept
    <2>1. v # u /\ user'[v] = user[v] /\ user[v].key \in Keys
      BY <1>1 DEF Out, TypeOK, User
    <2>2. locks[user[v].key] = user[v].lock
      BY <2>1 DEF LockKept
    <2>3. CASE user[v].key # k
      BY <2>1, <2>2, <2>3, <1>7
    <2>4. CASE user[v].key = k
      <3>1. v \in UsersOf(k)'
        BY <2>1, <2>4 DEF UsersOf
      <3> QED
        BY <3>1, <2>1, <2>2, <2>4, <1>0, <1>6, <1>8
    <2> QED
      BY <2>3, <2>4
  <1>12. NotShared'
    BY <1>0, <1>7, <1>8 DEF NotShared
  <1>13. RefsCounted'
    <2> SUFFICES ASSUME NEW l \in Keys, locks'[l] # NoLock
                 PROVE  refs'[locks'[l]] = Cardinality(UsersOf(l)')
      BY DEF RefsCounted
    <2>1. CASE l = k
      BY <2>1, <1>0, <1>5, <1>8 DEF TypeOK
    <2>2. CASE l # k
      <3>1. locks'[l] = locks[l] /\ locks[l] # e /\ locks[l] \in Locks
        BY <2>2, <1>7 DEF TypeOK
      <3> QED
        BY <3>1, <2>2, <1>0, <1>3 DEF RefsCounted, TypeOK
    <2> QED
      BY <2>1, <2>2
  <1>14. NothingLeftBehind'
    BY <1>0, <1>3, <1>6, <1>7, <1>8 DEF NothingLeftBehind
  <1> QED
    BY <1>9, <1>10, <1>11, <1>12, <1>13, <1>14

\* Every step of the registry keeps the invariant.
LEMMA Inductive == IndInv /\ [Next]_registry => IndInv'
  <1> SUFFICES ASSUME IndInv, [Next]_registry PROVE IndInv'
    OBVIOUS
  <1>1. ASSUME NEW u \in Users, NEW k \in Keys, Acquire(u, k) PROVE IndInv'
    <2>1. CASE locks[k] # NoLock
      BY <1>1, <2>1, JoinPreserves DEF Acquire
    <2>2. CASE locks[k] = NoLock
      BY <1>1, <2>2, CreatePreserves DEF Acquire
    <2> QED
      BY <2>1, <2>2
  <1>2. ASSUME NEW u \in Users, Enter(u) \/ Exit(u) PROVE IndInv'
    BY <1>2, MutexPreserves
  <1>3. ASSUME NEW u \in Users, Release(u) PROVE IndInv'
    BY <1>3, ReleasePreserves
  <1>4. CASE UNCHANGED registry
    BY <1>4 DEF registry, IndInv, TypeOK, HasLock, LockKept, NotShared, RefsCounted,
                NothingLeftBehind, InsideLocked, Alone, UsersOf
  <1> QED
    BY <1>1, <1>2, <1>3, <1>4 DEF Next

\* The invariant holds throughout.
LEMMA Invariant == Spec => []IndInv
  BY InitIndInv, Inductive, PTL DEF Spec

-----------------------------------------------------------------------------
(* Theorems *)

\* Every variable keeps its type: no count goes below zero.
THEOREM TypeCorrect == Spec => []TypeOK
  <1>1. IndInv => TypeOK
    BY DEF IndInv
  <1> QED
    BY <1>1, Invariant, PTL

\* The registry has an entry for exactly the sessions in use, and no waiter's lock is
\* deleted, or replaced, out from under it.
THEOREM ExactRegistry == Spec => []RegistryIsExact
  <1>1. IndInv => RegistryIsExact
    BY DEF IndInv, RegistryIsExact
  <1> QED
    BY <1>1, Invariant, PTL

\* The count of an entry is the number of its holders and waiters.
THEOREM CountsAreExact == Spec => []RefsCounted
  <1>1. IndInv => RefsCounted
    BY DEF IndInv
  <1> QED
    BY <1>1, Invariant, PTL

\* Each session's lock is a mutex: the registry implements SessionMutex.
THEOREM OneAtATime == Spec => OneInside
  <1> DEFINE who == [k \in Keys |-> Inside(k)]
  <1>1. Init => Mutex!Init
    <2> SUFFICES ASSUME Init, NEW k \in Keys PROVE Inside(k) = {}
      BY DEF Mutex!Init
    <2> QED
      BY InitOut DEF Inside
  <1>2. IndInv /\ [Next]_registry => [Mutex!Next]_who
    <2> SUFFICES ASSUME IndInv, [Next]_registry PROVE [Mutex!Next]_who
      OBVIOUS
    <2> USE DEF IndInv
    <2>1. ASSUME NEW u \in Users, Enter(u) PROVE Mutex!Next
      <3>0. PICK k \in Keys : k = user[u].key
        BY DEF TypeOK, User
      <3>1. user'[u].pc = "inside" /\ user'[u].key = k /\ \A v \in Users \ {u} : user'[v] = user[v]
        BY <2>1, <3>0 DEF Enter, TypeOK
      <3>2. user[u].pc = "waiting" /\ ~locked[locks[k]]
        BY <2>1, <3>0 DEF Enter, LockKept
      <3>3. Inside(k) = {}
        BY <3>2 DEF Inside, InsideLocked, LockKept
      <3>4. Inside(k)' = {u}
        BY <3>1, <3>3 DEF Inside
      <3>5. \A l \in Keys \ {k} : Inside(l)' = Inside(l)
        BY <3>0, <3>1 DEF Inside
      <3>6. who' = [who EXCEPT ![k] = {u}] /\ who[k] = {}
        BY <3>3, <3>4, <3>5
      <3> QED
        BY <3>6 DEF Mutex!Next, Mutex!Enter
    <2>2. ASSUME NEW u \in Users, Exit(u) PROVE Mutex!Next
      <3>0. PICK k \in Keys : k = user[u].key
        BY DEF TypeOK, User
      <3>1. user'[u].pc = "leaving" /\ \A v \in Users \ {u} : user'[v] = user[v]
        BY <2>2 DEF Exit, TypeOK
      <3>2. user[u].pc = "inside"
        BY <2>2 DEF Exit
      <3>3. Inside(k) = {u}
        BY <3>0, <3>2 DEF Inside, Alone
      <3>4. Inside(k)' = {}
        BY <3>1, <3>3 DEF Inside
      <3>5. \A l \in Keys \ {k} : Inside(l)' = Inside(l)
        BY <3>0, <3>1 DEF Inside
      <3>6. who' = [who EXCEPT ![k] = {}] /\ who[k] = {u}
        BY <3>3, <3>4, <3>5
      <3> QED
        BY <3>6 DEF Mutex!Next, Mutex!Exit
    <2>3. ASSUME NEW u \in Users, NEW k \in Keys, Acquire(u, k) PROVE UNCHANGED who
      <3>1. user[u].pc = "out" /\ user'[u].pc = "waiting"
            /\ \A v \in Users \ {u} : user'[v] = user[v]
        BY <2>3 DEF Acquire, TypeOK
      <3> QED
        BY <3>1 DEF Inside
    <2>4. ASSUME NEW u \in Users, Release(u) PROVE UNCHANGED who
      <3>1. user[u].pc = "leaving" /\ user'[u].pc = "out"
            /\ \A v \in Users \ {u} : user'[v] = user[v]
        BY <2>4 DEF Release, TypeOK, Out
      <3> QED
        BY <3>1 DEF Inside
    <2>5. CASE UNCHANGED registry
      BY <2>5 DEF registry, Inside
    <2> QED
      BY <2>1, <2>2, <2>3, <2>4, <2>5 DEF Next
  <1> QED
    BY <1>1, <1>2, Invariant, PTL DEF Spec, OneInside, Mutex!Spec

=============================================================================
