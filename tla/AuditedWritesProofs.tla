------------------------- MODULE AuditedWritesProofs -------------------------
(***************************************************************************)
(* The safety of the guarded writes, for any workers, requests, datasets   *)
(* and databases found, with failures and deaths at every step.            *)
(*                                                                         *)
(* The argument is about what a transaction sees. Whoever is in one holds  *)
(* the write lock (Held), so the committed database is still the one it    *)
(* read, and what it has changed is exactly the effect of its request on   *)
(* it and the one row of it (Seen). An answer's row is recorded, or is the *)
(* row of a commit whose answer is on its way (Heard); a commit appends a  *)
(* row of a key that had none, so the first row of any other key stays.    *)
(***************************************************************************)
EXTENDS AuditedWrites, WellFoundedInduction, SequenceTheorems, TLAPS

\* In these steps the runtime database has been found or published.
Opened == {"migrate", "begin", "close"} \cup InTransaction

\* What a handler is, by itself.
Sound(k) ==
  /\ k \in Work
  /\ k.pc # "idle" => k.request \in Requests /\ k.answer = "none"
  /\ k.answer = "done" => k.row \in Row
  /\ k.pc \notin {"idle", "check"} /\ k.request.action # "append" => Approved(k.request)
  /\ k.pc \in {"context", "update"} => k.request.action # "append"
  /\ k.pc = "close" => k.row \in Row

\* What its transaction sees and has done, over the committed database db.
Sees(db, k) ==
  LET r == k.request IN
  /\ db \in Database
  /\ k.pc \in {"lookup", "context", "update"} => k.tx = db
  /\ k.pc \in {"context", "update", "insert", "commit"} => Rows(db, Key(r)) = {}
  /\ k.pc \in {"update", "insert"} =>
       /\ Applies(db.data, r.action, r.target)
       /\ k.context = Context(db.data, r.action, r.target)
  /\ k.pc \in {"insert", "commit"} =>
       /\ k.tx \in Database
       /\ k.tx.data = Effect(db.data, r.action, r.target)
  /\ k.pc = "insert" => k.tx.audit = db.audit
  /\ k.pc = "commit" =>
       /\ k.row = NewRow(r, Context(db.data, r.action, r.target))
       /\ k.row \in Row
       /\ k.tx.audit = Append(db.audit, k.row)

\* The row is in the trail, the first of its key.
Recorded(db, row) ==
  /\ db \in Database
  /\ \E i \in DOMAIN db.audit :
       db.audit[i] = row /\ \A j \in DOMAIN db.audit : Key(db.audit[j]) = Key(row) => i <= j

Typed ==
  /\ runtime \in Database \cup {Missing}
  /\ lock \in Workers \cup {Missing}
  /\ work \in [Workers -> Work] /\ \A w \in Workers : Sound(work[w])

Held == \A w \in Workers :
  /\ work[w].pc \in InTransaction => lock = w
  /\ work[w].pc \in Opened => runtime # Missing

Seen == \A w \in Workers : work[w].pc \in InTransaction => Sees(runtime, work[w])

Heard == \A w \in Workers :
  work[w].pc = "close" \/ work[w].answer = "done" => Recorded(runtime, work[w].row)

IndInv == Typed /\ Held /\ Seen /\ Heard

-----------------------------------------------------------------------------
(* The operators of the model *)

\* A nonempty set of numbers has a least one.
LEMMA Least == ASSUME NEW S \in SUBSET Nat, S # {} PROVE \E i \in S : \A j \in S : i <= j
  <1> DEFINE R == OpToRel(<, Nat)
  <1>1. \E x \in S : \A y \in S : ~(<<y, x>> \in R)
    <2>1. IsWellFoundedOn(R, Nat)
      BY NatLessThanWellFounded
    <2> HIDE DEF R
    <2> QED
      BY <2>1, WFMin
  <1>2. \A x, y \in Nat : <<y, x>> \in R <=> y < x
    BY DEF OpToRel
  <1> HIDE DEF R
  <1>3. PICK x \in S : \A y \in S : ~(<<y, x>> \in R)
    BY <1>1
  <1>4. \A y \in S : ~(y < x) /\ y \in Nat /\ x \in Nat
    BY <1>2, <1>3
  <1> QED
    BY <1>3, <1>4

\* A row that heads the rows of its key is recorded, and the other way round.
LEMMA RecordedFacts ==
  ASSUME NEW db \in Database, NEW row
  PROVE  Recorded(db, row) <=>
           LET found == Rows(db, Key(row)) IN found # {} /\ db.audit[First(found)] = row
  <1> DEFINE found == Rows(db, Key(row))
  <1>1. found \in SUBSET Nat /\ found \subseteq DOMAIN db.audit
    BY DEF Rows, Database
  <1>2. ASSUME found # {}
        PROVE  First(found) \in found /\ \A j \in found : First(found) <= j
    <2> HIDE DEF found
    <2> QED
      BY <1>1, <1>2, Least DEF First
  <1>3. ASSUME found # {}, db.audit[First(found)] = row
        PROVE  Recorded(db, row)
    BY <1>1, <1>2, <1>3 DEF Recorded, Rows
  <1>4. ASSUME Recorded(db, row)
        PROVE  found # {} /\ db.audit[First(found)] = row
    <2>1. PICK i \in DOMAIN db.audit :
            db.audit[i] = row /\ \A j \in DOMAIN db.audit : Key(db.audit[j]) = Key(row) => i <= j
      BY <1>4 DEF Recorded
    <2>2. i \in found /\ \A j \in found : i <= j
      BY <2>1 DEF Rows
    <2>3. First(found) = i
      <3>1. First(found) \in found /\ First(found) <= i
        BY <1>2, <2>2
      <3>2. i <= First(found)
        BY <2>2, <3>1
      <3> HIDE DEF found
      <3> QED
        BY <1>1, <2>2, <3>1, <3>2
    <2> QED
      BY <2>1, <2>2, <2>3
  <1> QED
    BY <1>3, <1>4

\* What the parts of a request are.
LEMMA RequestFacts ==
  ASSUME NEW r \in Requests
  PROVE  /\ r \in Request /\ r.action \in Actions
         /\ r.action = "restart_service" => r.target \in Services
         /\ r.action = "resolve_incident" => r.target \in Incidents
         /\ r.action \in {"restart_service", "resolve_incident", "append"}
  BY WritesAssumption DEF Request, Actions

\* A write that applies changes a dataset to a dataset, and its row is one.
LEMMA WriteFacts ==
  ASSUME NEW data \in Data, NEW r \in Requests, Applies(data, r.action, r.target),
         r.action # "append" => Approved(r)
  PROVE  /\ Effect(data, r.action, r.target) \in Data
         /\ Context(data, r.action, r.target) \in Contexts
         /\ NewRow(r, Context(data, r.action, r.target)) \in Row
         /\ NewRow(r, Context(data, r.action, r.target)).context
              = Context(data, r.action, r.target)
  <1>1. /\ data.services \in [Services -> {"operational", "degraded", "absent"}]
        /\ data.incidents \in [Incidents -> {"open", "resolved", "absent"}]
    BY DEF Data
  <1>2. Effect(data, r.action, r.target) \in Data
    BY RequestFacts, <1>1 DEF Effect, Data, Applies
  <1>3. Context(data, r.action, r.target) \in Contexts
    BY RequestFacts, <1>1 DEF Context, Contexts, Applies
  <1>4. (IF r.action = "append" THEN r.rationale ELSE Redact[r.rationale])
          \in DOMAIN Redact \cup {Blank}
    BY RequestFacts, WritesAssumption DEF Approved, Request
  <1>5. \A context \in Contexts : NewRow(r, context) \in Row /\ NewRow(r, context).context = context
    BY RequestFacts, <1>4 DEF NewRow, Row, Request
  <1> QED
    BY <1>2, <1>3, <1>5

\* A handler that has ended.
Ended(answer, row) == [Fresh(NoRow) EXCEPT !.answer = answer, !.row = row]

\* It is sound, and knows only its answer.
LEMMA EndedFacts ==
  ASSUME NEW answer \in {"none", "refused", "nothing", "failed", "done"},
         NEW row \in Row \cup {NoRow}, answer = "done" => row \in Row
  PROVE  LET k == Ended(answer, row) IN
         Sound(k) /\ k.pc = "idle" /\ k.answer = answer /\ k.row = row
  BY DEF Ended, Fresh, Sound, Work, Steps

\* The parts of a handler's state.
LEMMA WorkFacts ==
  ASSUME NEW k \in Work
  PROVE  /\ k.pc \in Steps /\ k.request \in Requests \cup {NoRow}
         /\ k.answer \in {"none", "refused", "nothing", "failed", "done"}
         /\ k.row \in Row \cup {NoRow} /\ k.context \in Contexts \cup {NoRow}
         /\ k.tx \in Database \cup {NoDatabase}
         /\ \A pc \in Steps : LET j == [k EXCEPT !.pc = pc] IN
              /\ j \in Work /\ j.pc = pc /\ j.request = k.request /\ j.answer = k.answer
              /\ j.row = k.row /\ j.context = k.context /\ j.tx = k.tx
  BY DEF Work

\* A database's parts, and what a commit's append makes of the trail.
LEMMA TrailFacts ==
  ASSUME NEW db \in Database, NEW row \in Row
  PROVE  LET audit == Append(db.audit, row) IN
         /\ db.audit \in Seq(Row) /\ db.data \in Data /\ Len(db.audit) \in Nat
         /\ audit \in Seq(Row) /\ Len(audit) = Len(db.audit) + 1
         /\ DOMAIN audit = 1..(Len(db.audit) + 1) /\ DOMAIN db.audit = 1..Len(db.audit)
         /\ \A i \in DOMAIN db.audit : audit[i] = db.audit[i]
         /\ audit[Len(db.audit) + 1] = row
  <1>1. db.audit \in Seq(Row) /\ db.data \in Data
    BY DEF Database
  <1> QED
    BY <1>1, AppendProperties, LenProperties

\* A recorded row stays recorded while nothing is taken from the trail.
LEMMA StillRecorded ==
  ASSUME NEW old \in Database, NEW new \in Database, NEW row, Recorded(old, row),
         \/ new.audit = old.audit
         \/ \E r \in Row : new.audit = Append(old.audit, r)
  PROVE  Recorded(new, row)
  <1>1. PICK i \in DOMAIN old.audit :
          /\ old.audit[i] = row
          /\ \A j \in DOMAIN old.audit : Key(old.audit[j]) = Key(row) => i <= j
    BY DEF Recorded
  <1>2. CASE new.audit = old.audit
    BY <1>1, <1>2 DEF Recorded
  <1>3. ASSUME NEW r \in Row, new.audit = Append(old.audit, r)
        PROVE  Recorded(new, row)
    <2>1. /\ Len(old.audit) \in Nat /\ DOMAIN old.audit = 1..Len(old.audit)
          /\ DOMAIN new.audit = 1..(Len(old.audit) + 1)
          /\ \A j \in DOMAIN old.audit : new.audit[j] = old.audit[j]
      BY <1>3, TrailFacts
    <2>2. i \in DOMAIN new.audit /\ new.audit[i] = row
      BY <1>1, <2>1
    <2>3. ASSUME NEW j \in DOMAIN new.audit, Key(new.audit[j]) = Key(row)
          PROVE  i <= j
      <3>1. CASE j \in DOMAIN old.audit
        BY <1>1, <2>1, <2>3, <3>1
      <3>2. CASE j \notin DOMAIN old.audit
        BY <1>1, <2>1, <2>3, <3>2
      <3> QED
        BY <3>1, <3>2
    <2> QED
      BY <2>2, <2>3 DEF Recorded
  <1> QED
    BY <1>2, <1>3

-----------------------------------------------------------------------------
(* Steps *)

\* A step of one handler that leaves the database alone: the others see what they saw.
LEMMA WorkStep ==
  ASSUME IndInv, NEW w \in Workers, NEW k, Sound(k),
         work' = [work EXCEPT ![w] = k], UNCHANGED runtime,
         lock' \in Workers \cup {Missing},
         \A v \in Workers \ {w} : lock = v => lock' = v,
         k.pc \in InTransaction => lock' = w /\ Sees(runtime, k),
         k.pc \in Opened => runtime # Missing,
         k.pc = "close" \/ k.answer = "done" => Recorded(runtime, k.row)
  PROVE  IndInv'
  <1> USE DEF IndInv
  <1>1. work'[w] = k /\ \A v \in Workers \ {w} : work'[v] = work[v]
    BY DEF Typed
  <1>2. Typed'
    BY <1>1 DEF Typed, Sound
  <1>3. Held'
    BY <1>1 DEF Held
  <1>4. Seen'
    BY <1>1 DEF Seen
  <1>5. Heard'
    BY <1>1 DEF Heard
  <1> QED
    BY <1>2, <1>3, <1>4, <1>5

\* While nobody is in a transaction the database may come to be, or change but
\* for its trail.
LEMMA QuietStep ==
  ASSUME IndInv, UNCHANGED lock, runtime' \in Database, work' \in [Workers -> Work],
         \A v \in Workers : work[v].pc \notin InTransaction,
         runtime # Missing => runtime'.audit = runtime.audit,
         \A v \in Workers :
           \/ work'[v] = work[v]
           \/ /\ Sound(work'[v])
              /\ work'[v].pc \notin InTransaction \cup {"close"} /\ work'[v].answer # "done"
  PROVE  IndInv'
  <1> USE DEF IndInv
  <1>1. Typed'
    BY DEF Typed, Sound
  <1>2. \A v \in Workers : work'[v].pc \notin InTransaction
    OBVIOUS
  <1>3. runtime' # Missing
    BY WritesAssumption
  <1>4. Held' /\ Seen'
    BY <1>2, <1>3 DEF Held, Seen
  <1>5. ASSUME NEW v \in Workers, work[v].pc = "close" \/ work[v].answer = "done"
        PROVE  Recorded(runtime', work[v].row)
    <2>1. Recorded(runtime, work[v].row) /\ runtime \in Database
      BY <1>5 DEF Heard, Recorded
    <2>2. runtime'.audit = runtime.audit
      BY <2>1, WritesAssumption
    <2> QED
      BY <2>1, <2>2, StillRecorded
  <1>6. Heard'
    BY <1>5 DEF Heard
  <1> QED
    BY <1>1, <1>4, <1>6

\* A handler ends; what it had not committed is undone, and its lock is free.
LEMMA RollbackStep ==
  ASSUME IndInv, NEW w \in Workers, NEW answer \in {"none", "refused", "nothing", "failed", "done"},
         NEW row \in Row \cup {NoRow}, answer = "done" => row \in Row /\ Recorded(runtime, row),
         UNCHANGED runtime, Answer(w, answer, row),
         lock' = IF Holds(w) THEN Missing ELSE lock
  PROVE  IndInv'
  <1> DEFINE k == Ended(answer, row)
  <1>1. Sound(k) /\ k.pc = "idle" /\ k.answer = answer /\ k.row = row
    BY EndedFacts
  <1>2. work' = [work EXCEPT ![w] = k]
    BY DEF Answer, Ended
  <1> HIDE DEF k
  <1>3. k.pc \notin InTransaction /\ k.pc \notin Opened /\ k.pc # "close"
    BY <1>1 DEF InTransaction, Opened
  <1>4. lock' \in Workers \cup {Missing} /\ \A v \in Workers \ {w} : lock = v => lock' = v
    BY DEF IndInv, Typed, Holds
  <1>5. k.pc = "close" \/ k.answer = "done" => Recorded(runtime, k.row)
    BY <1>1, <1>3
  <1> QED
    BY <1>1, <1>2, <1>3, <1>4, <1>5, WorkStep

\* A handler that ends outside a transaction.
LEMMA AnswerStep ==
  ASSUME IndInv, NEW w \in Workers, NEW answer \in {"none", "refused", "nothing", "failed", "done"},
         NEW row \in Row \cup {NoRow}, answer = "done" => row \in Row /\ Recorded(runtime, row),
         UNCHANGED <<runtime, lock>>, Answer(w, answer, row)
  PROVE  IndInv'
  <1> DEFINE k == Ended(answer, row)
  <1>1. Sound(k) /\ k.pc = "idle" /\ k.answer = answer /\ k.row = row
    BY EndedFacts
  <1>2. work' = [work EXCEPT ![w] = k]
    BY DEF Answer, Ended
  <1> HIDE DEF k
  <1>3. k.pc \notin InTransaction /\ k.pc \notin Opened /\ k.pc # "close"
    BY <1>1 DEF InTransaction, Opened
  <1>4. lock' \in Workers \cup {Missing} /\ \A v \in Workers \ {w} : lock = v => lock' = v
    BY DEF IndInv, Typed
  <1>5. k.pc = "close" \/ k.answer = "done" => Recorded(runtime, k.row)
    BY <1>1, <1>3
  <1> QED
    BY <1>1, <1>2, <1>3, <1>4, <1>5, WorkStep

\* A call is delivered: an action is to be checked, an append is not.
LEMMA DeliverStep ==
  ASSUME IndInv, NEW w \in Workers, NEW r \in Requests, Deliver(w, r)
  PROVE  IndInv'
  <1> DEFINE k == [Fresh(r) EXCEPT !.pc = IF r.action = "append" THEN "open" ELSE "check"]
  <1>1. /\ Sound(k) /\ k.pc \in {"open", "check"} /\ k.answer = "none"
    BY DEF Fresh, Sound, Work, Steps, InTransaction
  <1>2. work' = [work EXCEPT ![w] = k] /\ UNCHANGED <<runtime, lock>>
    BY DEF Deliver
  <1> HIDE DEF k
  <1>3. k.pc \notin InTransaction /\ k.pc \notin Opened /\ k.pc # "close"
    BY <1>1 DEF InTransaction, Opened
  <1>4. lock \in Workers \cup {Missing}
    BY DEF IndInv, Typed
  <1> QED
    BY <1>1, <1>2, <1>3, <1>4, WorkStep

\* A handler goes on to a step that is not in a transaction.
LEMMA GotoStep ==
  ASSUME IndInv, NEW w \in Workers, NEW pc \in {"open", "link", "migrate"},
         Goto(w, pc), UNCHANGED <<runtime, lock>>,
         work[w].pc # "idle",
         work[w].pc = "check" /\ work[w].request.action # "append" => Approved(work[w].request),
         pc = "migrate" => runtime # Missing
  PROVE  IndInv'
  <1> DEFINE k == [work[w] EXCEPT !.pc = pc]
  <1>1. Sound(work[w]) /\ work[w] \in Work /\ lock \in Workers \cup {Missing}
    BY DEF IndInv, Typed, Sound
  <1>2. /\ k \in Work /\ k.pc = pc /\ k.request = work[w].request
        /\ k.answer = work[w].answer /\ k.row = work[w].row
    BY <1>1, WorkFacts DEF Steps
  <1>3. work' = [work EXCEPT ![w] = k]
    BY DEF Goto, IndInv, Typed
  <1> HIDE DEF k
  <1>4. Sound(k) /\ k.answer = "none"
    BY <1>1, <1>2 DEF Sound
  <1>5. k.pc \notin InTransaction /\ k.pc # "close"
    BY <1>2 DEF InTransaction
  <1>6. k.pc \in Opened => runtime # Missing
    BY <1>2 DEF Opened, InTransaction
  <1> QED
    BY <1>1, <1>3, <1>4, <1>5, <1>6, WorkStep

\* The handler's own checks.
LEMMA CheckStep ==
  ASSUME IndInv, NEW w \in Workers, Check(w)
  PROVE  IndInv'
  <1>1. CASE Approved(work[w].request) /\ Goto(w, "open")
    BY <1>1, GotoStep DEF Check, At
  <1>2. CASE Answer(w, "refused", NoRow)
    BY <1>2, AnswerStep DEF Check
  <1>3. CASE Answer(w, "nothing", NoRow)
    BY <1>3, AnswerStep DEF Check
  <1> QED
    BY <1>1, <1>2, <1>3 DEF Check

\* The runtime database is found, or is to be published.
LEMMA DBPathStep ==
  ASSUME IndInv, NEW w \in Workers, DBPath(w)
  PROVE  IndInv'
  BY GotoStep DEF DBPath, At

\* Publication: the first one makes the database while nobody is in a
\* transaction, another changes nothing.
LEMMA PublishStep ==
  ASSUME IndInv, NEW w \in Workers, Publish(w)
  PROVE  IndInv'
  <1>1. CASE runtime # Missing
    BY <1>1, GotoStep DEF Publish, At
  <1>2. CASE runtime = Missing
    <2> DEFINE k == [work[w] EXCEPT !.pc = "migrate"]
    <2>1. Sound(work[w]) /\ work[w] \in Work /\ work[w].pc = "link" /\ work \in [Workers -> Work]
      BY DEF IndInv, Typed, Sound, Publish, At
    <2>2. /\ k \in Work /\ k.pc = "migrate" /\ k.request = work[w].request
          /\ k.answer = work[w].answer /\ k.row = work[w].row
      BY <2>1, WorkFacts DEF Steps
    <2>3. Sound(k) /\ k.answer # "done"
      BY <2>1, <2>2 DEF Sound
    <2>4. work' = [work EXCEPT ![w] = k]
      BY <2>1 DEF Publish, Goto
    <2> HIDE DEF k
    <2>5. work'[w] = k /\ (\A v \in Workers \ {w} : work'[v] = work[v])
          /\ work' \in [Workers -> Work]
      BY <2>1, <2>2, <2>4
    <2>6. \A v \in Workers : work[v].pc \notin InTransaction
      BY <1>2 DEF IndInv, Held, Opened
    <2>7. k.pc \notin InTransaction \cup {"close"}
      BY <2>2 DEF InTransaction
    <2>8. runtime' \in Database /\ UNCHANGED lock
      BY <1>2, WritesAssumption DEF Publish
    <2> QED
      BY <1>2, <2>3, <2>5, <2>6, <2>7, <2>8, QuietStep
  <1> QED
    BY <1>1, <1>2

\* The migration: one transaction of its own, before which nobody is in one.
LEMMA MigrateStep ==
  ASSUME IndInv, NEW w \in Workers, Migrate(w)
  PROVE  IndInv'
  <1>1. Sound(work[w]) /\ work[w] \in Work /\ work[w].pc = "migrate" /\ work \in [Workers -> Work]
    BY DEF IndInv, Typed, Sound, Migrate, At
  <1>2. runtime \in Database /\ \A v \in Workers : work[v].pc \notin InTransaction
    BY <1>1, WritesAssumption DEF IndInv, Typed, Held, Opened, Migrate
  <1>3. CASE Answer(w, "failed", NoRow) /\ UNCHANGED runtime
    BY <1>3, AnswerStep DEF Migrate
  <1>4. CASE runtime' = [runtime EXCEPT !.prepared = TRUE] /\ Goto(w, "begin")
    <2> DEFINE k == [work[w] EXCEPT !.pc = "begin"]
    <2>1. /\ k \in Work /\ k.pc = "begin" /\ k.request = work[w].request
          /\ k.answer = work[w].answer /\ k.row = work[w].row
      BY <1>1, WorkFacts DEF Steps
    <2>2. Sound(k) /\ k.answer # "done"
      BY <1>1, <2>1 DEF Sound
    <2>3. work' = [work EXCEPT ![w] = k]
      BY <1>1, <1>4 DEF Goto
    <2> HIDE DEF k
    <2>4. work'[w] = k /\ (\A v \in Workers \ {w} : work'[v] = work[v])
          /\ work' \in [Workers -> Work]
      BY <1>1, <2>1, <2>3
    <2>5. k.pc \notin InTransaction \cup {"close"}
      BY <2>1 DEF InTransaction
    <2>6. runtime' \in Database /\ runtime'.audit = runtime.audit /\ UNCHANGED lock
      BY <1>2, <1>4 DEF Migrate, Database
    <2> QED
      BY <1>2, <2>2, <2>4, <2>5, <2>6, QuietStep
  <1> QED
    BY <1>3, <1>4 DEF Migrate

\* Somebody else changes the dataset to a dataset, and not the trail.
LEMMA OutsideFacts ==
  ASSUME IndInv, Outside
  PROVE  /\ lock = Missing /\ UNCHANGED <<lock, work>>
         /\ runtime \in Database /\ runtime' \in Database /\ runtime'.audit = runtime.audit
  <1>1. lock = Missing /\ UNCHANGED <<lock, work>> /\ runtime \in Database
    BY DEF Outside, IndInv, Typed
  <1>2. runtime' \in Database /\ runtime'.audit = runtime.audit
    <2>1. /\ runtime.data \in Data
          /\ \A d \in Data : LET db == [runtime EXCEPT !.data = d] IN
               db \in Database /\ db.audit = runtime.audit
      BY <1>1 DEF Database
    <2>2. CASE \E x \in Services, status \in {"degraded", "absent"} :
                 runtime' = [runtime EXCEPT !.data.services[x] = status]
      <3>1. PICK x \in Services, status \in {"degraded", "absent"} :
              runtime' = [runtime EXCEPT !.data.services[x] = status]
        BY <2>2
      <3>2. [runtime.data EXCEPT !.services[x] = status] \in Data
        BY <2>1 DEF Data
      <3>3. runtime' = [runtime EXCEPT !.data = [runtime.data EXCEPT !.services[x] = status]]
        BY <1>1, <3>1 DEF Database
      <3> QED
        BY <2>1, <3>2, <3>3
    <2>3. CASE \E i \in Incidents, status \in {"open", "absent"} :
                 runtime' = [runtime EXCEPT !.data.incidents[i] = status]
      <3>1. PICK i \in Incidents, status \in {"open", "absent"} :
              runtime' = [runtime EXCEPT !.data.incidents[i] = status]
        BY <2>3
      <3>2. [runtime.data EXCEPT !.incidents[i] = status] \in Data
        BY <2>1 DEF Data
      <3>3. runtime' = [runtime EXCEPT !.data = [runtime.data EXCEPT !.incidents[i] = status]]
        BY <1>1, <3>1 DEF Database
      <3> QED
        BY <2>1, <3>2, <3>3
    <2> QED
      BY <2>2, <2>3 DEF Outside
  <1> QED
    BY <1>1, <1>2

\* It does so in one statement, with nobody in a transaction.
LEMMA OutsideStep ==
  ASSUME IndInv, Outside
  PROVE  IndInv'
  <1>1. lock = Missing /\ UNCHANGED <<lock, work>> /\ work \in [Workers -> Work]
        /\ runtime' \in Database /\ runtime'.audit = runtime.audit
    BY OutsideFacts DEF IndInv, Typed
  <1>2. \A v \in Workers : work[v].pc \notin InTransaction
    BY <1>1, WritesAssumption DEF IndInv, Held
  <1>3. work' \in [Workers -> Work] /\ \A v \in Workers : work'[v] = work[v]
    BY <1>1
  <1> QED
    BY <1>1, <1>2, <1>3, QuietStep

-----------------------------------------------------------------------------
(* Steps of a transaction *)

\* The facts about a handler in its transaction that every step of it starts from.
LEMMA InsideFacts ==
  ASSUME IndInv, NEW w \in Workers, work[w].pc \in InTransaction
  PROVE  /\ Sound(work[w]) /\ work[w] \in Work /\ work[w].pc # "idle"
         /\ work[w].request \in Requests /\ work[w].answer = "none"
         /\ lock = w /\ runtime # Missing /\ runtime \in Database
         /\ Sees(runtime, work[w])
         /\ runtime.data \in Data /\ runtime.audit \in Seq(Row)
         /\ work[w].request.action # "append" => Approved(work[w].request)
  BY DEF IndInv, Typed, Sound, Held, Seen, Opened, InTransaction, Database

\* A transaction goes on: it keeps its lock.
LEMMA InsideStep ==
  ASSUME IndInv, NEW w \in Workers, work[w].pc \in InTransaction,
         NEW k, Sound(k), k.pc \in InTransaction, k.answer = "none", Sees(runtime, k),
         work' = [work EXCEPT ![w] = k], UNCHANGED <<runtime, lock>>
  PROVE  IndInv'
  <1>1. lock = w /\ runtime # Missing
    BY InsideFacts
  <1>2. k.pc # "close" /\ k.pc \in Opened
    BY DEF InTransaction, Opened
  <1> QED
    BY <1>1, <1>2, WorkStep

\* A transaction begins, and sees the committed database.
LEMMA BeginStep ==
  ASSUME IndInv, NEW w \in Workers, Begin(w)
  PROVE  IndInv'
  <1> DEFINE k == [work[w] EXCEPT !.pc = "lookup", !.tx = runtime]
  <1>1. /\ Sound(work[w]) /\ work[w] \in Work /\ work[w].pc = "begin"
        /\ work[w].answer = "none" /\ runtime \in Database
        /\ runtime # Missing /\ lock = Missing /\ lock' = w /\ UNCHANGED runtime
    BY DEF IndInv, Typed, Sound, Begin, At, Held, Opened
  <1>2. /\ k \in Work /\ k.pc = "lookup" /\ k.request = work[w].request
        /\ k.answer = work[w].answer /\ k.row = work[w].row /\ k.tx = runtime
    BY <1>1 DEF Work, Steps, InTransaction
  <1>3. work' = [work EXCEPT ![w] = k]
    BY DEF Begin, IndInv, Typed
  <1> HIDE DEF k
  <1>4. Sound(k)
    BY <1>1, <1>2 DEF Sound
  <1>5. Sees(runtime, k)
    BY <1>1, <1>2 DEF Sees
  <1>6. \A v \in Workers \ {w} : lock # v
    BY <1>1, WritesAssumption
  <1> QED
    BY <1>1, <1>2, <1>3, <1>4, <1>5, <1>6, WorkStep

\* A replay is answered with the row of its key; anything else is new.
LEMMA LookupStep ==
  ASSUME IndInv, NEW w \in Workers, Lookup(w)
  PROVE  IndInv'
  <1> DEFINE r == work[w].request
             found == Rows(runtime, Key(r))
  <1>1. work[w].pc = "lookup" /\ work[w].pc \in InTransaction
    BY DEF Lookup, At, InTransaction
  <1>2. /\ Sound(work[w]) /\ work[w] \in Work /\ work[w].answer = "none"
        /\ r \in Requests /\ runtime \in Database /\ work[w].tx = runtime
        /\ runtime.data \in Data /\ runtime.audit \in Seq(Row)
        /\ work \in [Workers -> Work]
    BY <1>1, InsideFacts DEF Sees, IndInv, Typed
  <1>3. CASE found # {} /\ Rollback(w, "done", runtime.audit[First(found)])
    <2> DEFINE row == runtime.audit[First(found)]
    <2>1. First(found) \in DOMAIN runtime.audit /\ Key(row) = Key(r)
      <3>1. found \in SUBSET Nat
        BY <1>2 DEF Rows, Database
      <3>2. First(found) \in found
        <4> HIDE DEF found
        <4> QED
          BY <1>3, <3>1, Least DEF First
      <3> QED
        BY <3>2 DEF Rows
    <2>2. row \in Row
      BY <1>2, <2>1
    <2>3. Recorded(runtime, row)
      BY <1>2, <1>3, <2>1, RecordedFacts
    <2>4. Answer(w, "done", row) /\ UNCHANGED runtime /\ lock' = IF Holds(w) THEN Missing ELSE lock
      BY <1>3 DEF Rollback
    <2> HIDE DEF row
    <2> QED
      BY <2>2, <2>3, <2>4, RollbackStep
  <1>4. CASE /\ found = {} /\ r.action = "append"
             /\ work' = [work EXCEPT ![w].pc = "insert",
                          ![w].context = Context(runtime.data, r.action, r.target)]
    <2> DEFINE c == Context(runtime.data, r.action, r.target)
               k == [work[w] EXCEPT !.pc = "insert", !.context = c]
    <2>1. Applies(runtime.data, r.action, r.target)
      BY <1>4 DEF Applies
    <2>2. c \in Contexts /\ Effect(runtime.data, r.action, r.target) = runtime.data
      BY <1>2, <1>4, <2>1, WriteFacts DEF Effect
    <2>3. work' = [work EXCEPT ![w] = k]
      BY <1>2, <1>4
    <2> HIDE DEF c
    <2>4. /\ k \in Work /\ k.pc = "insert" /\ k.request = r /\ k.context = c
          /\ k.answer = "none" /\ k.row = work[w].row /\ k.tx = runtime
      BY <1>2, <2>2 DEF Work, Steps, InTransaction
    <2> HIDE DEF k
    <2>5. Sound(k)
      BY <1>2, <1>4, <2>4 DEF Sound
    <2>6. Sees(runtime, k)
      BY <1>2, <1>4, <2>1, <2>2, <2>4 DEF Sees, c
    <2>7. k.pc \in InTransaction /\ UNCHANGED <<runtime, lock>>
      BY <1>2, <1>4, <2>4 DEF InTransaction, Lookup
    <2> QED
      BY <1>1, <2>3, <2>4, <2>5, <2>6, <2>7, InsideStep
  <1>5. CASE found = {} /\ r.action # "append" /\ Goto(w, "context")
    <2> DEFINE k == [work[w] EXCEPT !.pc = "context"]
    <2>1. /\ k \in Work /\ k.pc = "context" /\ k.request = r
          /\ k.answer = "none" /\ k.row = work[w].row /\ k.tx = runtime
      BY <1>2 DEF Work, Steps, InTransaction
    <2>2. work' = [work EXCEPT ![w] = k]
      BY <1>2, <1>5 DEF Goto
    <2> HIDE DEF k
    <2>3. Sound(k)
      BY <1>1, <1>2, <1>5, <2>1 DEF Sound
    <2>4. Sees(runtime, k)
      BY <1>2, <1>5, <2>1 DEF Sees
    <2>5. k.pc \in InTransaction /\ UNCHANGED <<runtime, lock>>
      BY <1>2, <1>5, <2>1 DEF InTransaction, Lookup
    <2> QED
      BY <1>1, <2>1, <2>2, <2>3, <2>4, <2>5, InsideStep
  <1> QED
    BY <1>2, <1>3, <1>4, <1>5 DEF Lookup

\* The context is read, or there is nothing to do.
LEMMA ReadContextStep ==
  ASSUME IndInv, NEW w \in Workers, ReadContext(w)
  PROVE  IndInv'
  <1> DEFINE r == work[w].request
             c == Context(runtime.data, r.action, r.target)
             k == [work[w] EXCEPT !.pc = "update", !.context = c]
  <1>1. work[w].pc = "context" /\ work[w].pc \in InTransaction
    BY DEF ReadContext, At, InTransaction
  <1>2. /\ Sound(work[w]) /\ work[w] \in Work /\ work[w].answer = "none"
        /\ r \in Requests /\ runtime \in Database /\ work[w].tx = runtime
        /\ runtime.data \in Data /\ Rows(runtime, Key(r)) = {}
        /\ work \in [Workers -> Work] /\ r.action # "append" /\ Approved(r)
    BY <1>1, InsideFacts DEF Sees, Sound, IndInv, Typed
  <1>3. CASE Rollback(w, "nothing", NoRow)
    BY <1>3, RollbackStep DEF Rollback
  <1>4. CASE /\ Applies(runtime.data, r.action, r.target)
             /\ work' = [work EXCEPT ![w].pc = "update", ![w].context = c]
             /\ UNCHANGED <<runtime, lock>>
    <2>1. c \in Contexts
      BY <1>2, <1>4, WriteFacts
    <2>2. work' = [work EXCEPT ![w] = k]
      BY <1>2, <1>4
    <2> HIDE DEF c
    <2>3. /\ k \in Work /\ k.pc = "update" /\ k.request = r /\ k.context = c
          /\ k.answer = "none" /\ k.row = work[w].row /\ k.tx = runtime
      BY <1>2, <2>1 DEF Work, Steps, InTransaction
    <2> HIDE DEF k
    <2>4. Sound(k)
      BY <1>2, <2>3 DEF Sound
    <2>5. Sees(runtime, k)
      BY <1>2, <1>4, <2>3 DEF Sees, c
    <2>6. k.pc \in InTransaction
      BY <2>3 DEF InTransaction
    <2> QED
      BY <1>1, <1>4, <2>2, <2>3, <2>4, <2>5, <2>6, InsideStep
  <1> QED
    BY <1>2, <1>3, <1>4 DEF ReadContext

\* The effect, in the transaction only.
LEMMA UpdateStep ==
  ASSUME IndInv, NEW w \in Workers, Update(w)
  PROVE  IndInv'
  <1> DEFINE r == work[w].request
             e == Effect(runtime.data, r.action, r.target)
             k == [work[w] EXCEPT !.pc = "insert", !.tx.data = e]
  <1>1. work[w].pc = "update" /\ work[w].pc \in InTransaction
    BY DEF Update, At, InTransaction
  <1>2. /\ Sound(work[w]) /\ work[w] \in Work /\ work[w].answer = "none"
        /\ r \in Requests /\ runtime \in Database /\ work[w].tx = runtime
        /\ runtime.data \in Data /\ Rows(runtime, Key(r)) = {}
        /\ Applies(runtime.data, r.action, r.target)
        /\ work[w].context = Context(runtime.data, r.action, r.target)
        /\ work \in [Workers -> Work] /\ r.action # "append" /\ Approved(r)
    BY <1>1, InsideFacts DEF Sees, Sound, IndInv, Typed
  <1>3. e \in Data
    BY <1>2, WriteFacts
  <1>4. work' = [work EXCEPT ![w] = k] /\ UNCHANGED <<runtime, lock>>
    BY <1>2 DEF Update
  <1> HIDE DEF e
  <1>5. /\ [runtime EXCEPT !.data = e] \in Database
        /\ [runtime EXCEPT !.data = e].data = e
        /\ [runtime EXCEPT !.data = e].audit = runtime.audit
    BY <1>2, <1>3 DEF Database
  <1>6. k = [work[w] EXCEPT !.pc = "insert", !.tx = [runtime EXCEPT !.data = e]]
    BY <1>2 DEF Work
  <1>7. /\ k \in Work /\ k.pc = "insert" /\ k.request = r /\ k.context = work[w].context
        /\ k.answer = "none" /\ k.row = work[w].row /\ k.tx = [runtime EXCEPT !.data = e]
    BY <1>2, <1>5, <1>6 DEF Work, Steps, InTransaction
  <1> HIDE DEF k
  <1>8. Sound(k)
    BY <1>2, <1>7 DEF Sound
  <1>9. Sees(runtime, k)
    BY <1>2, <1>5, <1>7 DEF Sees, e
  <1>10. k.pc \in InTransaction
    BY <1>7 DEF InTransaction
  <1> QED
    BY <1>1, <1>4, <1>7, <1>8, <1>9, <1>10, InsideStep

\* The row, in the transaction only.
LEMMA InsertStep ==
  ASSUME IndInv, NEW w \in Workers, Insert(w)
  PROVE  IndInv'
  <1> DEFINE r == work[w].request
             row == NewRow(r, work[w].context)
             tx == [work[w].tx EXCEPT !.audit = Append(@, row)]
             k == [work[w] EXCEPT !.pc = "commit", !.row = row, !.tx = tx]
  <1>1. work[w].pc = "insert" /\ work[w].pc \in InTransaction
    BY DEF Insert, At, InTransaction
  <1>2. /\ Sound(work[w]) /\ work[w] \in Work /\ work[w].answer = "none"
        /\ r \in Requests /\ runtime \in Database
        /\ runtime.data \in Data /\ Rows(runtime, Key(r)) = {}
        /\ Applies(runtime.data, r.action, r.target)
        /\ work[w].context = Context(runtime.data, r.action, r.target)
        /\ work[w].tx \in Database /\ work[w].tx.audit = runtime.audit
        /\ work[w].tx.data = Effect(runtime.data, r.action, r.target)
        /\ work \in [Workers -> Work] /\ (r.action # "append" => Approved(r))
    BY <1>1, InsideFacts DEF Sees, Sound, IndInv, Typed
  <1>3. row \in Row
    BY <1>2, WriteFacts
  <1>4. work' = [work EXCEPT ![w] = k] /\ UNCHANGED <<runtime, lock>>
    BY <1>2 DEF Insert
  <1> HIDE DEF row
  <1>5. /\ tx \in Database /\ tx.audit = Append(runtime.audit, row)
        /\ tx.data = work[w].tx.data
    BY <1>2, <1>3, TrailFacts DEF Database
  <1> HIDE DEF tx
  <1>6. /\ k \in Work /\ k.pc = "commit" /\ k.request = r /\ k.row = row
        /\ k.answer = "none" /\ k.tx = tx
    BY <1>2, <1>3, <1>5 DEF Work, Steps, InTransaction
  <1> HIDE DEF k
  <1>7. Sound(k)
    BY <1>2, <1>6 DEF Sound
  <1>8. Sees(runtime, k)
    BY <1>2, <1>3, <1>5, <1>6 DEF Sees, row
  <1>9. k.pc \in InTransaction
    BY <1>6 DEF InTransaction
  <1> QED
    BY <1>1, <1>4, <1>6, <1>7, <1>8, <1>9, InsideStep

\* The transaction's database becomes the committed one; what was recorded is
\* still there, and its row is the first of its key.
LEMMA CommitStep ==
  ASSUME IndInv, NEW w \in Workers, Commit(w)
  PROVE  IndInv'
  <1> DEFINE r == work[w].request
             row == work[w].row
             k == [work[w] EXCEPT !.pc = "close", !.tx = NoDatabase, !.context = NoRow]
  <1>1. work[w].pc = "commit" /\ work[w].pc \in InTransaction
    BY DEF Commit, At, InTransaction
  <1>2. /\ Sound(work[w]) /\ work[w] \in Work /\ work[w].answer = "none"
        /\ r \in Requests /\ runtime \in Database /\ lock = w
        /\ runtime.audit \in Seq(Row) /\ Rows(runtime, Key(r)) = {}
        /\ work[w].tx \in Database /\ work[w].tx.audit = Append(runtime.audit, row)
        /\ row = NewRow(r, Context(runtime.data, r.action, r.target)) /\ row \in Row
        /\ work \in [Workers -> Work] /\ (r.action # "append" => Approved(r))
    BY <1>1, InsideFacts DEF Sees, Sound, IndInv, Typed
  <1>3. /\ work' = [work EXCEPT ![w] = k] /\ runtime' = work[w].tx /\ lock' = Missing
    BY <1>2 DEF Commit
  <1>4. k \in Work /\ k.pc = "close" /\ k.request = r /\ k.answer = "none" /\ k.row = row
    BY <1>2 DEF Work, Steps, InTransaction
  <1> HIDE DEF k
  <1>5. Sound(k) /\ k.pc \notin InTransaction
    BY <1>2, <1>4 DEF Sound, InTransaction
  <1>6. work'[w] = k /\ \A v \in Workers \ {w} : work'[v] = work[v]
    BY <1>2, <1>3
  <1>7. Typed'
    BY <1>2, <1>3, <1>4, <1>5, <1>6 DEF IndInv, Typed
  <1>8. \A v \in Workers \ {w} : work[v].pc \notin InTransaction
    BY <1>2 DEF IndInv, Held
  <1>9. runtime' # Missing
    BY <1>2, <1>3, WritesAssumption
  <1>10. Held' /\ Seen'
    BY <1>5, <1>6, <1>8, <1>9 DEF Held, Seen
  <1>11. Recorded(runtime', row)
    <2>1. Key(row) = Key(r)
      BY <1>2 DEF Key, NewRow
    <2>2. /\ Len(runtime.audit) \in Nat /\ DOMAIN runtime.audit = 1..Len(runtime.audit)
          /\ DOMAIN work[w].tx.audit = 1..(Len(runtime.audit) + 1)
          /\ \A i \in DOMAIN runtime.audit : work[w].tx.audit[i] = runtime.audit[i]
          /\ work[w].tx.audit[Len(runtime.audit) + 1] = row
      BY <1>2, TrailFacts
    <2>3. \A i \in DOMAIN runtime.audit : Key(runtime.audit[i]) # Key(r)
      BY <1>2 DEF Rows
    <2>4. ASSUME NEW j \in DOMAIN work[w].tx.audit, Key(work[w].tx.audit[j]) = Key(row)
          PROVE  Len(runtime.audit) + 1 <= j
      <3>1. j \notin DOMAIN runtime.audit
        BY <2>1, <2>2, <2>3, <2>4
      <3> QED
        BY <2>2, <3>1
    <2>5. Len(runtime.audit) + 1 \in DOMAIN work[w].tx.audit
      BY <2>2
    <2> QED
      BY <1>2, <1>3, <2>2, <2>4, <2>5 DEF Recorded
  <1>12. \A x : Recorded(runtime, x) => Recorded(runtime', x)
    BY <1>2, <1>3, StillRecorded
  <1>13. Heard'
    <2> SUFFICES ASSUME NEW v \in Workers, work'[v].pc = "close" \/ work'[v].answer = "done"
                 PROVE  Recorded(runtime', work'[v].row)
      BY DEF Heard
    <2>1. CASE v = w
      BY <1>4, <1>6, <1>11, <2>1
    <2>2. CASE v # w
      BY <1>6, <1>12, <2>2 DEF IndInv, Heard
    <2> QED
      BY <2>1, <2>2
  <1> QED
    BY <1>7, <1>10, <1>13 DEF IndInv

\* The client hears of the row.
LEMMA CloseStep ==
  ASSUME IndInv, NEW w \in Workers, Close(w)
  PROVE  IndInv'
  <1>1. work[w].row \in Row /\ Recorded(runtime, work[w].row)
    BY DEF Close, At, IndInv, Typed, Sound, Heard
  <1>2. Answer(w, "done", work[w].row) /\ UNCHANGED <<runtime, lock>>
    BY DEF Close
  <1> QED
    BY <1>1, <1>2, AnswerStep

\* A handler fails or dies, wherever it is.
LEMMA EndStep ==
  ASSUME IndInv, NEW w \in Workers, Fail(w) \/ Die(w)
  PROVE  IndInv'
  BY RollbackStep DEF Fail, Die, Rollback

\* No handler runs in the initial states.
LEMMA InitIndInv == Init => IndInv
  <1> SUFFICES ASSUME Init PROVE IndInv
    OBVIOUS
  <1> DEFINE k == Fresh(NoRow)
  <1>1. Sound(k) /\ k.pc = "idle" /\ k.answer = "none"
    BY DEF Fresh, Sound, Work, Steps
  <1>2. work = [w \in Workers |-> k] /\ lock = Missing /\ runtime \in Database \cup {Missing}
    BY WritesAssumption DEF Init
  <1> HIDE DEF k
  <1>3. \A w \in Workers : work[w] = k
    BY <1>2
  <1>4. k.pc \notin InTransaction /\ k.pc \notin Opened /\ k.pc # "close"
    BY <1>1 DEF InTransaction, Opened
  <1>5. Typed
    BY <1>1, <1>2, <1>3 DEF Typed, Sound
  <1> QED
    BY <1>1, <1>3, <1>4, <1>5 DEF IndInv, Held, Seen, Heard

\* Every step keeps the invariant.
LEMMA NextIndInv == IndInv /\ [Next]_vars => IndInv'
  <1> SUFFICES ASSUME IndInv, [Next]_vars PROVE IndInv'
    OBVIOUS
  <1>1. CASE \E w \in Workers : Proceed(w)
    BY <1>1, CheckStep, DBPathStep, PublishStep, MigrateStep, BeginStep, LookupStep,
       ReadContextStep, UpdateStep, InsertStep, CommitStep, CloseStep DEF Proceed
  <1>2. CASE \E w \in Workers : Fail(w) \/ Die(w)
    BY <1>2, EndStep
  <1>3. CASE \E w \in Workers, r \in Requests : Deliver(w, r)
    BY <1>3, DeliverStep
  <1>4. CASE Outside
    BY <1>4, OutsideStep
  <1>5. CASE UNCHANGED vars
    BY <1>5 DEF vars, IndInv, Typed, Held, Seen, Heard
  <1> QED
    BY <1>1, <1>2, <1>3, <1>4, <1>5 DEF Next

\* The invariant holds in every state.
THEOREM Inductive == Spec => []IndInv
  BY InitIndInv, NextIndInv, PTL DEF Spec

\* Every variable has its type, whatever fails.
THEOREM TypeCorrect == Spec => []TypeOK
  <1>1. IndInv => TypeOK
    BY DEF IndInv, Typed, TypeOK
  <1> QED
    BY <1>1, Inductive, PTL

\* A row an answer carried is the first of its logical write in the trail, for
\* ever: no crash, failure, redelivery or race to publish loses or replaces it
\* (data/store.go publish, data/write.go auditForIdempotencyKey).
THEOREM Answers == Spec => []AnswersAreRecorded
  <1>1. IndInv => AnswersAreRecorded
    <2> SUFFICES ASSUME IndInv, NEW w \in Workers, work[w].answer = "done"
                 PROVE  /\ runtime # Missing
                        /\ LET found == Rows(runtime, Key(work[w].row))
                           IN found # {} /\ runtime.audit[First(found)] = work[w].row
      BY DEF AnswersAreRecorded, IndInv, Typed, TypeOK
    <2>1. Recorded(runtime, work[w].row) /\ runtime \in Database
      BY DEF IndInv, Heard, Recorded
    <2> QED
      BY <2>1, RecordedFacts, WritesAssumption
  <1> QED
    BY <1>1, Inductive, PTL

-----------------------------------------------------------------------------
(* What steps do to the dataset and the trail *)

\* Only a commit and a change from outside are seen in the dataset or the trail.
LEMMA CurrentSteps ==
  ASSUME IndInv, [Next]_vars
  PROVE  \/ Current'.data = Current.data /\ Current'.audit = Current.audit
         \/ \E w \in Workers : Commit(w)
         \/ /\ Outside /\ Current'.data \in Data /\ Current'.audit = Current.audit
  <1>1. ASSUME NEW w \in Workers, Publish(w)
        PROVE  Current'.data = Current.data /\ Current'.audit = Current.audit
    <2>1. Seed # Missing
      BY WritesAssumption
    <2> QED
      BY <1>1, <2>1 DEF Publish, Current
  <1>2. ASSUME NEW w \in Workers, Migrate(w)
        PROVE  Current'.data = Current.data /\ Current'.audit = Current.audit
    <2>1. runtime # Missing /\ runtime \in Database
      BY <1>2 DEF Migrate, At, IndInv, Typed, Held, Opened
    <2>2. UNCHANGED runtime \/ runtime' = [runtime EXCEPT !.prepared = TRUE]
      BY <1>2 DEF Migrate
    <2>3. runtime' \in Database /\ runtime'.data = runtime.data /\ runtime'.audit = runtime.audit
      BY <2>1, <2>2 DEF Database
    <2>4. runtime' # Missing
      BY <2>3, WritesAssumption
    <2> QED
      BY <2>1, <2>3, <2>4 DEF Current
  <1>3. ASSUME Outside
        PROVE  Current'.data \in Data /\ Current'.audit = Current.audit
    <2>1. /\ runtime # Missing /\ runtime' # Missing
          /\ runtime' \in Database /\ runtime'.audit = runtime.audit
      BY <1>3, OutsideFacts, WritesAssumption DEF Outside
    <2> QED
      BY <2>1 DEF Current, Database
  <1>4. CASE UNCHANGED runtime
    BY <1>4 DEF Current
  <1> QED
    BY <1>1, <1>2, <1>3, <1>4
    DEF Next, Proceed, Check, DBPath, Begin, Lookup, ReadContext, Update, Insert, Close,
        Fail, Die, Deliver, Rollback, vars

\* The runtime database, once there, stays.
LEMMA NeverGone ==
  ASSUME IndInv, [Next]_vars, runtime # Missing
  PROVE  runtime' # Missing
  <1>1. ASSUME NEW w \in Workers, Migrate(w)
        PROVE  runtime' # Missing
    <2>1. UNCHANGED runtime \/ runtime' = [runtime EXCEPT !.prepared = TRUE]
      BY <1>1 DEF Migrate
    <2>2. runtime \in Database
      BY DEF IndInv, Typed
    <2>3. [runtime EXCEPT !.prepared = TRUE] \in Database
      BY <2>2 DEF Database
    <2> QED
      BY <2>1, <2>2, <2>3, WritesAssumption
  <1>2. ASSUME NEW w \in Workers, Commit(w)
        PROVE  runtime' # Missing
    <2>1. work[w].pc \in InTransaction /\ work[w].pc = "commit"
      BY <1>2 DEF Commit, At, InTransaction
    <2>2. runtime' = work[w].tx /\ work[w].tx \in Database
      BY <1>2, <2>1, InsideFacts DEF Sees, Commit
    <2> QED
      BY <2>2, WritesAssumption
  <1>3. ASSUME Outside
        PROVE  runtime' # Missing
    BY <1>3, OutsideFacts, WritesAssumption
  <1> QED
    BY <1>1, <1>2, <1>3
    DEF Next, Proceed, Check, DBPath, Publish, Begin, Lookup, ReadContext, Update, Insert,
        Close, Fail, Die, Deliver, Rollback, vars

\* A commit applies one approved request to the dataset and adds its row, the
\* first of its key.
LEMMA CommitFacts ==
  ASSUME IndInv, NEW w \in Workers, Commit(w)
  PROVE  LET r == work[w].request
             row == work[w].row
         IN /\ r \in Requests /\ row \in Row
            /\ row = NewRow(r, Context(Current.data, r.action, r.target))
            /\ row.context = Context(Current.data, r.action, r.target)
            /\ r.action # "append" => Approved(r)
            /\ Current.audit \in Seq(Row)
            /\ Current'.audit = Append(Current.audit, row)
            /\ Current'.data = Effect(Current.data, r.action, r.target)
            /\ \A i \in DOMAIN Current.audit : Key(Current.audit[i]) # Key(r)
            /\ runtime # Missing /\ runtime' # Missing /\ runtime \in Database
  <1> DEFINE r == work[w].request
             row == work[w].row
  <1>1. work[w].pc = "commit" /\ work[w].pc \in InTransaction
    BY DEF Commit, At, InTransaction
  <1>2. /\ r \in Requests /\ runtime \in Database /\ runtime # Missing
        /\ runtime.audit \in Seq(Row) /\ Rows(runtime, Key(r)) = {}
        /\ work[w].tx \in Database /\ work[w].tx.audit = Append(runtime.audit, row)
        /\ work[w].tx.data = Effect(runtime.data, r.action, r.target)
        /\ row = NewRow(r, Context(runtime.data, r.action, r.target)) /\ row \in Row
        /\ (r.action # "append" => Approved(r)) /\ runtime' = work[w].tx
    BY <1>1, InsideFacts DEF Sees, Sound, Commit
  <1>3. runtime' # Missing /\ Current = runtime /\ Current' = work[w].tx
    BY <1>2, WritesAssumption DEF Current
  <1>4. \A i \in DOMAIN runtime.audit : Key(runtime.audit[i]) # Key(r)
    BY <1>2 DEF Rows
  <1>5. \A context : NewRow(r, context).context = context
    BY DEF NewRow
  <1> QED
    BY <1>2, <1>3, <1>4, <1>5

\* No handler changes the dataset without a row, and every guarded row goes back to
\* a call its own approver confirmed, whatever happened between the check and the
\* commit (tools/action.go validatedApproval, data/write.go).
THEOREM Accountable == Spec => WritesAccountable
  <1>1. ASSUME IndInv, [Next]_vars, runtime # Missing, lock # Missing,
               runtime'.data # runtime.data
        PROVE  Len(runtime'.audit) = Len(runtime.audit) + 1
    <2>1. IndInv' /\ runtime \in Database
      BY <1>1, NextIndInv DEF IndInv, Typed
    <2>2. PICK w \in Workers : Commit(w)
      <3>1. CASE Outside
        BY <1>1, <3>1 DEF Outside
      <3>2. CASE Current'.data = Current.data
        <4>1. runtime' = Missing
          BY <1>1, <3>2 DEF Current
        <4> QED
          BY <1>1, <4>1, NeverGone
      <3> QED
        BY <1>1, <3>1, <3>2, CurrentSteps
    <2>3. runtime'.audit = Append(runtime.audit, work[w].row) /\ work[w].row \in Row
      BY <1>1, <2>2, CommitFacts DEF Current
    <2> QED
      BY <2>1, <2>3, TrailFacts
  <1>2. ASSUME IndInv, [Next]_vars, NEW i \in DOMAIN Current.audit' \ DOMAIN Current.audit,
               Current.audit[i]'.action # "append"
        PROVE  \E r \in Requests :
                 /\ Key(r) = Key(Current.audit[i]') /\ r.session = Current.audit[i]'.session
                 /\ r.confirmed /\ ~r.frozen /\ r.user = Current.audit[i]'.approvedBy
                 /\ r.network \in {"local", r.user}
    <2>1. PICK w \in Workers : Commit(w)
      BY <1>2, CurrentSteps
    <2> DEFINE r == work[w].request
               row == work[w].row
    <2>2. /\ r \in Requests /\ row \in Row
          /\ row = NewRow(r, Context(Current.data, r.action, r.target))
          /\ (r.action # "append" => Approved(r)) /\ Current.audit \in Seq(Row)
          /\ Current'.audit = Append(Current.audit, row)
      BY <1>2, <2>1, CommitFacts
    <2>3. Current.audit[i]' = row
      BY <1>2, <2>2, AppendProperties, LenProperties
    <2>4. /\ Key(r) = Key(row) /\ r.session = row.session /\ r.user = row.approvedBy
          /\ r.action = row.action
      BY <2>2 DEF Key, NewRow
    <2> QED
      BY <1>2, <2>2, <2>3, <2>4 DEF Approved
  <1>3. IndInv /\ [Next]_vars =>
          (runtime # Missing /\ lock # Missing /\ runtime'.data # runtime.data =>
             Len(runtime'.audit) = Len(runtime.audit) + 1)
    BY <1>1
  <1>4. IndInv /\ [Next]_vars =>
          \A i \in DOMAIN Current.audit' \ DOMAIN Current.audit :
            LET row == Current.audit[i]' IN
            row.action = "append" \/
            \E r \in Requests : /\ Key(r) = Key(row) /\ r.session = row.session
                                /\ r.confirmed /\ ~r.frozen /\ r.user = row.approvedBy
                                /\ r.network \in {"local", r.user}
    BY <1>2
  <1>5. Spec => NothingUnaudited
    BY <1>3, Inductive, PTL DEF Spec, NothingUnaudited
  <1>6. Spec => OnlyOwnersWrite
    BY <1>4, Inductive, PTL DEF Spec, OnlyOwnersWrite
  <1> QED
    BY <1>5, <1>6 DEF WritesAccountable

\* The handlers implement the trail's promise: a write and its row are one step,
\* taken once for each logical write, and the row describes the data it changed
\* (AuditTrail).
THEOREM Once == Spec => ExactlyOnce
  <1>1. IndInv => Current.data \in Data /\ Current.audit \in Seq(Row)
    BY WritesAssumption DEF IndInv, Typed, Current, Database
  <1>2. Init => Promise!Init
    BY <1>1, InitIndInv DEF Promise!Init
  <1>3. ASSUME IndInv, [Next]_vars
        PROVE  [Promise!Next]_(Promise!vars)
    <2>1. CASE Current'.data = Current.data /\ Current'.audit = Current.audit
      BY <2>1 DEF Promise!vars
    <2>2. CASE Current'.data \in Data /\ Current'.audit = Current.audit
      BY <2>2 DEF Promise!Next, Promise!Change
    <2>3. ASSUME NEW w \in Workers, Commit(w)
          PROVE  Promise!Next
      <3> DEFINE r == work[w].request
                 row == work[w].row
      <3>1. /\ row \in Row /\ row = NewRow(r, Context(Current.data, r.action, r.target))
            /\ row.context = Context(Current.data, r.action, r.target)
            /\ Current'.audit = Append(Current.audit, row)
            /\ Current'.data = Effect(Current.data, r.action, r.target)
            /\ \A i \in DOMAIN Current.audit : Key(Current.audit[i]) # Key(r)
        BY <1>3, <2>3, CommitFacts
      <3>2. Key(row) = Key(r) /\ row.action = r.action /\ row.target = r.target
        BY <3>1 DEF Key, NewRow
      <3>3. \A i \in DOMAIN Current.audit : ~Promise!SameWrite(Current.audit[i], row)
        BY <3>1, <3>2 DEF Promise!SameWrite, Key
      <3>4. Promise!Write(row)
        BY <3>1, <3>2, <3>3 DEF Promise!Write
      <3> QED
        BY <3>1, <3>4 DEF Promise!Next
    <2> QED
      BY <1>3, <2>1, <2>2, <2>3, CurrentSteps
  <1>4. IndInv /\ [Next]_vars => [Promise!Next]_(Promise!vars)
    BY <1>3
  <1> QED
    BY <1>2, <1>4, Inductive, PTL DEF Spec, ExactlyOnce, Promise!Spec

==============================================================================
