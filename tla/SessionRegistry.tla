-------------------------- MODULE SessionRegistry --------------------------
(***************************************************************************)
(* The state of a registry of reference-counted session locks:             *)
(* sessionGate (a2aserver/runner.go) and sessionLockRegistry               *)
(* (policy/budget.go). SessionLocks moves it, Turns goes through it.       *)
(***************************************************************************)

CONSTANTS
  Users,    \* goroutines that take session locks: invocations in progress
  Keys,     \* logical sessions
  Locks,    \* countedLock objects the heap has room for
  NoLock    \* a nil *countedLock, or no entry in the map

VARIABLES
  locks,   \* key -> its countedLock, or NoLock
  refs,    \* countedLock -> its reference count
  locked,  \* countedLock -> its mutex is held
  user     \* user -> where it is in acquire and release

registry == <<locks, refs, locked, user>>
=============================================================================
