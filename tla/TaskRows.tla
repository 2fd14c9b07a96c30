------------------------------ MODULE TaskRows ------------------------------
(***************************************************************************)
(* What the task store promises of its rows: each is created once, belongs *)
(* to whoever created it, is never removed, and goes through numbered      *)
(* states one at a time.                                                   *)
(***************************************************************************)
EXTENDS Naturals

CONSTANTS Ids, Owners, Docs, NoTask

VARIABLE tasks   \* id -> its row, or NoTask

Row == [owner: Owners, doc: Docs, version: Nat \ {0}]

Init == tasks = [i \in Ids |-> NoTask]

Create(i, owner, doc) ==
  /\ tasks[i] = NoTask
  /\ tasks' = [tasks EXCEPT ![i] = [owner |-> owner, doc |-> doc, version |-> 1]]

Update(i, owner, doc) ==
  /\ tasks[i] # NoTask
  /\ tasks[i].owner = owner
  /\ tasks' = [tasks EXCEPT ![i] = [owner |-> owner, doc |-> doc,
                                    version |-> tasks[i].version + 1]]

Next == \E i \in Ids, owner \in Owners, doc \in Docs :
  Create(i, owner, doc) \/ Update(i, owner, doc)

Spec == Init /\ [][Next]_tasks
=============================================================================
