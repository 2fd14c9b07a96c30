---------------------------- MODULE MCTaskStore ----------------------------
(***************************************************************************)
(* TaskStore and TaskPages for TLC, side by side: its writers statement by *)
(* statement, and its lists page by page. `part` chooses which one moves.  *)
(***************************************************************************)
EXTENDS TaskStore, TaskPages, TLC

CONSTANTS c1, c2, c3, d1, d2, w1, w2, alice, bob, nobody, plain, other

VARIABLE part

\* Two clients of one caller, one of another.
MCOwnerOf == (c1 :> alice) @@ (c2 :> alice) @@ (c3 :> bob)

\* Nothing tells the clients of one caller apart, nor two documents.
MCSymmetry == Permutations({c1, c2}) \union Permutations({d1, d2})

\* A client pages through four tasks, one of which is another caller's, while they
\* are written and the clock moves both ways; another is not authenticated.
MCTasks == 1 .. 4
MCCallers == {alice, bob}
MCCreatorOf == [i \in MCTasks |-> IF i = 4 THEN bob ELSE alice]
MCKinds == {plain, other}
MCFilters == {{plain}}
MCWalkers == {w1, w2}
MCCallerOf == (w1 :> alice) @@ (w2 :> nobody)
MCSizes == {0, 1, 3}

ASSUME PagesConfiguration == PagesAssumption

TasksInit ==
  /\ part \in {"store", "pages"}
  /\ Init /\ PagesInit
  /\ part # "store" => schema = "none"

TasksNext ==
  \/ part = "store" /\ Next /\ UNCHANGED <<part, pagesVars>>
  \/ part = "pages" /\ PagesNext /\ UNCHANGED <<part, vars>>

TasksSpec == TasksInit /\ [][TasksNext]_<<part, vars, pagesVars>>
=============================================================================
