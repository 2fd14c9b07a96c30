----------------------------- MODULE AuditTrail -----------------------------
(***************************************************************************)
(* What the data package promises of the operations dataset: a guarded     *)
(* write and its audit row are one step, taken at most once for each       *)
(* logical write; the row describes the data the write changed; and no row *)
(* ever leaves the trail. Others may change the data between writes.       *)
(***************************************************************************)
EXTENDS Sequences

CONSTANTS
  Entries,            \* audit rows: [invocation, action, target, context, ...]
  Datasets,           \* what the services and incidents tables can hold
  Context(_, _, _),   \* (data, action, target): the context a row records
  Effect(_, _, _)     \* (data, action, target): the data after the write

VARIABLES data, audit

vars == <<data, audit>>

\* Two rows of one logical write; the session is not part of it.
SameWrite(r, s) ==
  r.invocation = s.invocation /\ r.action = s.action /\ r.target = s.target

Init == data \in Datasets /\ audit \in Seq(Entries)

Write(row) ==
  /\ audit' = Append(audit, row)
  /\ \A i \in DOMAIN audit : ~SameWrite(audit[i], row)
  /\ row.context = Context(data, row.action, row.target)
  /\ data' = Effect(data, row.action, row.target)

Change == data' \in Datasets /\ UNCHANGED audit

Next == Change \/ \E row \in Entries : Write(row)

Spec == Init /\ [][Next]_vars
=============================================================================
