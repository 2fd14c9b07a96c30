---------------------------- MODULE SessionMutex ----------------------------
(***************************************************************************)
(* What a registry of session locks promises: at most one user is inside a *)
(* session at a time, and sessions do not exclude each other.              *)
(***************************************************************************)
CONSTANTS Users, Keys

VARIABLE inside   \* key -> the users inside that session

Init == inside = [k \in Keys |-> {}]

Enter(u, k) ==
  /\ inside[k] = {}
  /\ inside' = [inside EXCEPT ![k] = {u}]

Exit(u, k) ==
  /\ inside[k] = {u}
  /\ inside' = [inside EXCEPT ![k] = {}]

\* The process dies.
Clear == inside' = [k \in Keys |-> {}]

Next == Clear \/ \E u \in Users, k \in Keys : Enter(u, k) \/ Exit(u, k)

Spec == Init /\ [][Next]_inside
=============================================================================
