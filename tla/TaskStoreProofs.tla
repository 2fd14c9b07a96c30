--------------------------- MODULE TaskStoreProofs ---------------------------
(***************************************************************************)
(* The safety of the task store, for any clients, callers, tasks, documents *)
(* and versions, with failures and crashes at every statement.             *)
(*                                                                         *)
(* The argument is about what is pending. Whoever is past BEGIN holds the  *)
(* lock (Held), so what it read of the table is still true when it commits *)
(* (Ready). What a client has been told, or is about to be told by a       *)
(* commit whose answer is on its way, is told of a numbered state of a row *)
(* of its own (Truthful), and no number is given to two states (Agreed):   *)
(* a commit gives the row a number that is greater than any told before.   *)
(***************************************************************************)
EXTENDS TaskStore, TaskPages, FiniteSetTheorems, WellFoundedInduction, TLAPS

Pending == {"begin", "look", "write", "commit"}
InTransaction == {"look", "write", "commit"}

\* What a call is, by itself, wherever it stands.
Sound(k) ==
  /\ k \in Call
  /\ k.op # "open" => k.id \in Ids /\ k.doc \in Docs
  /\ k.pc = "reply" => k.op # "open" /\ k.version # Missing
  /\ k.op = "create" => k.prev = Missing
  /\ k.op # "open" /\ k.pc \in {"begin", "look"} => k.version = Missing
  /\ k.op = "create" /\ k.pc = "write" => k.version = Missing
  /\ k.op = "update" /\ k.pc = "write" => k.prev \in {Missing, k.version}
  /\ k.op = "create" /\ k.pc = "commit" => k.version = 1
  /\ k.op = "update" /\ k.pc = "commit" =>
       k.version # Missing /\ (k.prev # Missing => k.version = k.prev + 1)

Typed ==
  /\ tasks \in [Ids -> Rows!Row \cup {NoTask}]
  /\ schema \in Layouts
  /\ lock \in Clients \cup {NoTask}
  /\ call \in [Clients -> Call] /\ \A c \in Clients : Sound(call[c])
  /\ known \in [Clients -> Known \cup {NoTask}]

Held == \A c \in Clients : call[c].pc \in InTransaction => lock = c

\* What a write found is what it replaces.
ReadyCall(c, k) ==
  k.pc = "commit" /\ k.op # "open" =>
    IF k.op = "create" THEN tasks[k.id] = NoTask
    ELSE Owned(c, k.id) /\ k.version = tasks[k.id].version + 1

Ready == \A c \in Clients : ReadyCall(c, call[c])

\* The version a call carries is of the row its client knows.
PriorCall(c, k) ==
  k.pc \in Pending /\ k.prev # Missing =>
    known[c] # NoTask /\ known[c].id = k.id /\ known[c].version = k.prev

Prior == \A c \in Clients : PriorCall(c, call[c])

\* The client has been told, or its answer is on the way.
Told(c, i, x, v) ==
  \/ known[c] # NoTask /\ known[c].id = i /\ known[c].doc = x /\ known[c].version = v
  \/ call[c].pc = "reply" /\ call[c].id = i /\ call[c].doc = x /\ call[c].version = v

IsState(c, i, x, v) ==
  /\ tasks[i] # NoTask
  /\ tasks[i].owner = OwnerOf[c]
  /\ v <= tasks[i].version
  /\ v = tasks[i].version => x = tasks[i].doc

Truthful ==
  \A c \in Clients, i \in Ids, x \in Docs, v \in Nat \ {0} :
    Told(c, i, x, v) => IsState(c, i, x, v)

Agreed ==
  \A c, d \in Clients, i \in Ids, x, y \in Docs, v \in Nat \ {0} :
    Told(c, i, x, v) /\ Told(d, i, y, v) => x = y

\* A store that was ever found or made usable stays so.
OpenCall(k) ==
  /\ k.answer = "refused" => schema = "other"
  /\ k.op = "open" /\ k.pc \in {"write", "commit"} => schema # "other"

Opened == schema # "partial" /\ \A c \in Clients : OpenCall(call[c])

IndInv == Typed /\ Held /\ Ready /\ Prior /\ Truthful /\ Agreed /\ Opened

-----------------------------------------------------------------------------
(* What the steps of a call are *)

\* A call goes on, or an answer ends it.
LEMMA CallFacts ==
  /\ \A k \in Call, pc \in {"look", "write", "commit", "reply"} :
       /\ [k EXCEPT !.pc = pc] \in Call
       /\ [k EXCEPT !.pc = pc].pc = pc
       /\ [k EXCEPT !.pc = pc].op = k.op
       /\ [k EXCEPT !.pc = pc].id = k.id
       /\ [k EXCEPT !.pc = pc].doc = k.doc
       /\ [k EXCEPT !.pc = pc].prev = k.prev
       /\ [k EXCEPT !.pc = pc].version = k.version
       /\ [k EXCEPT !.pc = pc].answer = k.answer
  /\ \A k \in Call, version \in Nat :
       /\ [k EXCEPT !.version = version] \in Call
       /\ [k EXCEPT !.version = version].pc = k.pc
       /\ [k EXCEPT !.version = version].op = k.op
       /\ [k EXCEPT !.version = version].id = k.id
       /\ [k EXCEPT !.version = version].doc = k.doc
       /\ [k EXCEPT !.version = version].prev = k.prev
       /\ [k EXCEPT !.version = version].version = version
       /\ [k EXCEPT !.version = version].answer = k.answer
  <1>1. ASSUME NEW k \in Call, NEW pc \in {"look", "write", "commit", "reply"}
        PROVE  /\ [k EXCEPT !.pc = pc] \in Call
               /\ [k EXCEPT !.pc = pc].pc = pc
               /\ [k EXCEPT !.pc = pc].op = k.op
               /\ [k EXCEPT !.pc = pc].id = k.id
               /\ [k EXCEPT !.pc = pc].doc = k.doc
               /\ [k EXCEPT !.pc = pc].prev = k.prev
               /\ [k EXCEPT !.pc = pc].version = k.version
               /\ [k EXCEPT !.pc = pc].answer = k.answer
    BY DEF Call
  <1>2. ASSUME NEW k \in Call, NEW version \in Nat
        PROVE  /\ [k EXCEPT !.version = version] \in Call
               /\ [k EXCEPT !.version = version].pc = k.pc
               /\ [k EXCEPT !.version = version].op = k.op
               /\ [k EXCEPT !.version = version].id = k.id
               /\ [k EXCEPT !.version = version].doc = k.doc
               /\ [k EXCEPT !.version = version].prev = k.prev
               /\ [k EXCEPT !.version = version].version = version
               /\ [k EXCEPT !.version = version].answer = k.answer
    BY DEF Call
  <1> QED
    BY <1>1, <1>2

LEMMA EndedFacts ==
  ASSUME NEW pc \in {"closed", "idle", "begin"},
         NEW answer \in {"none", "ok", "exists", "not_found", "conflict", "refused", "failed"}
  PROVE  /\ Sound(Ended(pc, answer))
         /\ Ended(pc, answer).pc = pc /\ Ended(pc, answer).op = "open"
         /\ Ended(pc, answer).prev = Missing /\ Ended(pc, answer).answer = answer
  BY DEF Ended, Sound, Call, Missing

-----------------------------------------------------------------------------
(* One lemma per kind of step *)

\* A step of one client that writes nothing and is told nothing keeps the invariant,
\* if its next state is sound and it disturbs nobody's lock.
LEMMA CallStep ==
  ASSUME IndInv, NEW c \in Clients, NEW k, Sound(k), call' = [call EXCEPT ![c] = k],
         UNCHANGED <<tasks, schema, known>>,
         lock' \in Clients \cup {NoTask},
         \A d \in Clients \ {c} : lock = d => lock' = d,
         k.pc \in InTransaction => lock' = c,
         k.pc # "reply", ReadyCall(c, k), PriorCall(c, k), OpenCall(k)
  PROVE  IndInv'
  <1> USE DEF IndInv
  <1>1. call'[c] = k /\ \A d \in Clients \ {c} : call'[d] = call[d]
    BY DEF Typed
  <1>2. Typed'
    BY <1>1 DEF Typed, Sound
  <1>3. Held'
    BY <1>1 DEF Held
  <1>4. Ready'
    <2>1. ASSUME NEW d \in Clients, NEW e PROVE ReadyCall(d, e)' <=> ReadyCall(d, e')
      BY DEF ReadyCall, Owned
    <2> QED
      BY <1>1 DEF Ready, ReadyCall, Owned
  <1>5. Prior'
    BY <1>1 DEF Prior, PriorCall
  <1>6. \A d \in Clients, i \in Ids, x \in Docs, v \in Nat \ {0} :
          Told(d, i, x, v)' => Told(d, i, x, v)
    BY <1>1 DEF Told
  <1>7. Truthful'
    BY <1>6 DEF Truthful, IsState
  <1>8. Agreed'
    BY <1>6 DEF Agreed
  <1>9. Opened'
    BY <1>1 DEF Opened, OpenCall
  <1> QED
    BY <1>2, <1>3, <1>4, <1>5, <1>7, <1>8, <1>9

\* A call that ends without a change (the deferred rollback).
LEMMA RollbackStep ==
  ASSUME IndInv, NEW c \in Clients,
         NEW answer \in {"exists", "not_found", "conflict", "refused", "failed"},
         answer = "refused" => schema = "other",
         Rollback(c, answer)
  PROVE  IndInv'
  <1> DEFINE pc == IF call[c].op = "open" THEN "closed" ELSE "idle"
             k == Ended(pc, answer)
  <1>1. Sound(k) /\ k.pc = pc /\ k.op = "open" /\ k.prev = Missing /\ k.answer = answer
    BY EndedFacts
  <1>2. call' = [call EXCEPT ![c] = k] /\ UNCHANGED <<tasks, schema, known>>
    BY DEF Rollback
  <1>3. /\ lock' \in Clients \cup {NoTask}
        /\ \A d \in Clients \ {c} : lock = d => lock' = d
    BY DEF Rollback, IndInv, Typed
  <1>4. k.pc \notin InTransaction /\ k.pc \notin Pending /\ k.pc # "reply"
    BY <1>1 DEF InTransaction, Pending
  <1>5. ReadyCall(c, k) /\ PriorCall(c, k) /\ OpenCall(k)
    BY <1>1, <1>4 DEF ReadyCall, PriorCall, OpenCall, InTransaction
  <1> HIDE DEF k
  <1> QED
    BY <1>1, <1>2, <1>3, <1>4, <1>5, CallStep

\* A call goes on to its next statement.
LEMMA GotoStep ==
  ASSUME IndInv, NEW c \in Clients, NEW pc \in InTransaction, Goto(c, pc),
         call[c].pc \in Pending,
         UNCHANGED <<tasks, schema, known>>,
         lock' = c, lock \in {c, NoTask},
         Sound([call[c] EXCEPT !.pc = pc]),
         ReadyCall(c, [call[c] EXCEPT !.pc = pc]),
         OpenCall([call[c] EXCEPT !.pc = pc])
  PROVE  IndInv'
  <1> DEFINE k == [call[c] EXCEPT !.pc = pc]
  <1>1. call' = [call EXCEPT ![c] = k]
    BY DEF Goto, IndInv, Typed
  <1>2. call[c] \in Call
    BY DEF IndInv, Typed
  <1>3. k.pc = pc /\ k.prev = call[c].prev /\ k.id = call[c].id
    BY <1>2, CallFacts DEF InTransaction
  <1>4. PriorCall(c, k)
    BY <1>3 DEF IndInv, Prior, PriorCall
  <1>5. \A d \in Clients \ {c} : lock = d => lock' = d
    BY StoreAssumption
  <1>6. k.pc # "reply"
    BY <1>3 DEF InTransaction
  <1> HIDE DEF k
  <1> QED
    BY <1>1, <1>3, <1>4, <1>5, <1>6, CallStep DEF k

-----------------------------------------------------------------------------
(* The steps that write, or that tell a client something *)

\* The marker and the tables become visible.
LEMMA CommitSchemaStep ==
  ASSUME IndInv, NEW c \in Clients, CommitSchema(c)
  PROVE  IndInv'
  <1> USE DEF IndInv
  <1> DEFINE k == Ended("idle", "ok")
  <1>1. Sound(k) /\ k.pc = "idle" /\ k.op = "open" /\ k.prev = Missing /\ k.answer = "ok"
    BY EndedFacts
  <1>2. call' = [call EXCEPT ![c] = k] /\ lock' = NoTask /\ schema' = "current"
        /\ UNCHANGED <<tasks, known>> /\ call[c].pc = "commit" /\ call[c].op = "open"
    BY DEF CommitSchema, At
  <1> HIDE DEF k
  <1>3. call'[c] = k /\ \A d \in Clients \ {c} : call'[d] = call[d]
    BY <1>2 DEF Typed
  <1>4. schema # "other" /\ \A d \in Clients : call'[d].answer # "refused"
    BY <1>1, <1>2, <1>3 DEF Opened, OpenCall
  <1>5. Opened'
    BY <1>2, <1>4 DEF Opened, OpenCall
  <1>6. Typed'
    BY <1>1, <1>2, <1>3 DEF Typed, Sound, Layouts
  <1>7. \A d \in Clients \ {c} : call[d].pc \notin InTransaction
    BY <1>2 DEF Held, InTransaction
  <1>8. Held' /\ Ready' /\ Prior'
    BY <1>1, <1>2, <1>3, <1>7
    DEF Held, Ready, ReadyCall, Owned, Prior, PriorCall, InTransaction, Pending
  <1>9. \A d \in Clients, i \in Ids, x \in Docs, v \in Nat \ {0} :
          Told(d, i, x, v)' => Told(d, i, x, v)
    BY <1>1, <1>2, <1>3 DEF Told
  <1>10. Truthful' /\ Agreed'
    BY <1>2, <1>9 DEF Truthful, IsState, Agreed
  <1> QED
    BY <1>5, <1>6, <1>8, <1>10

\* A write becomes visible: a state with a number of its own.
LEMMA CommitStep ==
  ASSUME IndInv, NEW c \in Clients, Commit(c)
  PROVE  IndInv'
  <1> USE DEF IndInv
  <1> DEFINE k == [call[c] EXCEPT !.pc = "reply"]
             i == call[c].id
             row == [owner |-> OwnerOf[c], doc |-> call[c].doc, version |-> call[c].version]
  <1>1. /\ call[c] \in Call /\ call[c].op # "open" /\ call[c].pc = "commit"
        /\ i \in Ids /\ call[c].doc \in Docs /\ call[c].version \in Nat \ {0}
    BY DEF Commit, At, Typed, Sound, Call, Missing
  <1>2. /\ k.pc = "reply" /\ k.op = call[c].op /\ k.id = i /\ k.doc = call[c].doc
        /\ k.prev = call[c].prev /\ k.version = call[c].version
        /\ k.answer = call[c].answer /\ k \in Call
    BY <1>1, CallFacts
  <1>3. Sound(k)
    BY <1>1, <1>2 DEF Sound, Missing, Typed
  <1>4. /\ call' = [call EXCEPT ![c] = k] /\ tasks' = [tasks EXCEPT ![i] = row]
        /\ lock' = NoTask /\ UNCHANGED <<schema, known>>
    BY DEF Commit, Goto, Typed
  <1>5. row \in Rows!Row /\ row # NoTask
    BY <1>1, StoreAssumption DEF Rows!Row
  <1>6. row.owner = OwnerOf[c] /\ row.doc = call[c].doc /\ row.version = call[c].version
    OBVIOUS
  <1>7. \/ tasks[i] = NoTask
        \/ /\ tasks[i] \in Rows!Row /\ tasks[i].owner = OwnerOf[c]
           /\ row.version = tasks[i].version + 1
    BY <1>1 DEF Ready, ReadyCall, Owned, Typed
  <1> HIDE DEF k, row
  <1>8. /\ call'[c] = k /\ \A d \in Clients \ {c} : call'[d] = call[d]
        /\ tasks'[i] = row /\ \A j \in Ids \ {i} : tasks'[j] = tasks[j]
    BY <1>1, <1>4 DEF Typed
  <1>9. Typed'
    BY <1>3, <1>4, <1>5, <1>8 DEF Typed, Sound
  <1>10. \A d \in Clients \ {c} : call[d].pc \notin InTransaction
    BY <1>1 DEF Held, InTransaction
  <1>11. Held' /\ Prior' /\ Opened'
    BY <1>2, <1>4, <1>8, <1>10
    DEF Held, Prior, PriorCall, Opened, OpenCall, InTransaction, Pending
  <1>12. Ready'
    BY <1>2, <1>8, <1>10 DEF Ready, ReadyCall, InTransaction
  <1>13. \A d \in Clients, j \in Ids, x \in Docs, v \in Nat \ {0} :
           Told(d, j, x, v)' =>
             \/ Told(d, j, x, v)
             \/ d = c /\ j = i /\ x = row.doc /\ v = row.version
    BY <1>2, <1>4, <1>6, <1>8 DEF Told
  <1>14. \A d \in Clients, x \in Docs, v \in Nat \ {0} : Told(d, i, x, v) => v < row.version
    <2> SUFFICES ASSUME NEW d \in Clients, NEW x \in Docs, NEW v \in Nat \ {0}, Told(d, i, x, v)
                 PROVE  v < row.version
      OBVIOUS
    <2>1. tasks[i] # NoTask /\ v <= tasks[i].version
      BY <1>1 DEF Truthful, IsState
    <2>2. tasks[i].version \in Nat
      BY <1>7, <2>1 DEF Rows!Row
    <2> QED
      BY <1>7, <2>1, <2>2
  <1>15. Truthful'
    <2> SUFFICES ASSUME NEW d \in Clients, NEW j \in Ids, NEW x \in Docs, NEW v \in Nat \ {0},
                        Told(d, j, x, v)'
                 PROVE  IsState(d, j, x, v)'
      BY DEF Truthful
    <2>1. CASE Told(d, j, x, v) /\ j # i
      BY <1>8, <2>1 DEF Truthful, IsState
    <2>2. CASE Told(d, j, x, v) /\ j = i
      <3>1. tasks[i] # NoTask /\ tasks[i].owner = OwnerOf[d]
        BY <1>1, <2>2 DEF Truthful, IsState
      <3>2. v < row.version /\ row.version \in Nat
        BY <1>1, <1>6, <1>14, <2>2
      <3> QED
        BY <1>5, <1>6, <1>7, <1>8, <2>2, <3>1, <3>2 DEF IsState
    <2>3. CASE d = c /\ j = i /\ x = row.doc /\ v = row.version
      BY <1>5, <1>6, <1>8, <2>3 DEF IsState
    <2> QED
      BY <1>13, <2>1, <2>2, <2>3
  <1>16. Agreed'
    <2> SUFFICES ASSUME NEW d \in Clients, NEW e \in Clients, NEW j \in Ids,
                        NEW x \in Docs, NEW y \in Docs, NEW v \in Nat \ {0},
                        Told(d, j, x, v)', Told(e, j, y, v)'
                 PROVE  x = y
      BY DEF Agreed
    <2>1. \/ Told(d, j, x, v) /\ Told(e, j, y, v)
          \/ j = i /\ v = row.version
      BY <1>13
    <2>2. CASE Told(d, j, x, v) /\ Told(e, j, y, v)
      BY <2>2 DEF Agreed
    <2>3. CASE j = i /\ v = row.version
      <3>1. ~Told(d, j, x, v) /\ ~Told(e, j, y, v)
        BY <1>14, <2>3
      <3> QED
        BY <1>13, <3>1
    <2> QED
      BY <2>1, <2>2, <2>3
  <1> QED
    BY <1>9, <1>11, <1>12, <1>15, <1>16

\* A client is told of a state that is true of its row, by the answer that was on
\* its way or by a read.
LEMMA ToldStep ==
  ASSUME IndInv, NEW c \in Clients, NEW k, Sound(k), NEW row \in Known \cup {NoTask},
         call' = [call EXCEPT ![c] = k], known' = [known EXCEPT ![c] = row],
         UNCHANGED <<tasks, schema, lock>>,
         k.pc \notin Pending \cup {"reply"}, OpenCall(k),
         row # NoTask =>
           \/ Told(c, row.id, row.doc, row.version)
           \/ /\ Owned(c, row.id)
              /\ row.version = tasks[row.id].version /\ row.doc = tasks[row.id].doc
  PROVE  IndInv'
  <1> USE DEF IndInv
  <1>1. /\ call'[c] = k /\ \A d \in Clients \ {c} : call'[d] = call[d]
        /\ known'[c] = row /\ \A d \in Clients \ {c} : known'[d] = known[d]
    BY DEF Typed
  <1>2. Typed'
    BY <1>1 DEF Typed, Sound
  <1>3. Held'
    BY <1>1 DEF Held, InTransaction, Pending
  <1>4. Ready'
    BY <1>1 DEF Ready, ReadyCall, Owned, Pending
  <1>5. Prior'
    BY <1>1 DEF Prior, PriorCall
  <1>6. Opened'
    BY <1>1 DEF Opened, OpenCall
  <1>7. \A d \in Clients, i \in Ids, x \in Docs, v \in Nat \ {0} :
          Told(d, i, x, v)' =>
            \/ Told(d, i, x, v)
            \/ d = c /\ Owned(c, i) /\ v = tasks[i].version /\ x = tasks[i].doc
    BY <1>1 DEF Told
  <1>8. \A i \in Ids : Owned(c, i) =>
          tasks[i] # NoTask /\ tasks[i].owner = OwnerOf[c] /\ tasks[i].version \in Nat
    BY DEF Owned, Typed, Rows!Row
  <1>9. Truthful'
    <2> SUFFICES ASSUME NEW d \in Clients, NEW i \in Ids, NEW x \in Docs, NEW v \in Nat \ {0},
                        Told(d, i, x, v)'
                 PROVE  IsState(d, i, x, v)
      BY DEF Truthful, IsState
    <2> QED
      BY <1>7, <1>8 DEF Truthful, IsState
  <1>10. Agreed'
    <2> SUFFICES ASSUME NEW d \in Clients, NEW e \in Clients, NEW i \in Ids,
                        NEW x \in Docs, NEW y \in Docs, NEW v \in Nat \ {0},
                        Told(d, i, x, v)', Told(e, i, y, v)'
                 PROVE  x = y
      BY DEF Agreed
    <2>1. CASE Told(d, i, x, v) /\ Told(e, i, y, v)
      BY <2>1 DEF Agreed
    <2>2. CASE v = tasks[i].version
      BY <1>7, <2>2 DEF Truthful, IsState
    <2> QED
      BY <1>7, <2>1, <2>2
  <1> QED
    BY <1>2, <1>3, <1>4, <1>5, <1>6, <1>9, <1>10

-----------------------------------------------------------------------------
(* The invariant *)

LEMMA InitIndInv == Init => IndInv
  <1> SUFFICES ASSUME Init PROVE IndInv
    OBVIOUS
  <1>1. /\ Sound(Ended("closed", "none"))
        /\ Ended("closed", "none").pc = "closed" /\ Ended("closed", "none").answer = "none"
    BY EndedFacts
  <1>2. \A c \in Clients : call[c] = Ended("closed", "none") /\ known[c] = NoTask
    BY DEF Init
  <1>3. Typed
    BY <1>1, StoreAssumption DEF Init, Typed, Sound, Layouts
  <1>4. Held /\ Ready /\ Prior
    BY <1>1, <1>2 DEF Held, Ready, ReadyCall, Prior, PriorCall, InTransaction, Pending
  <1>5. Truthful /\ Agreed
    BY <1>1, <1>2 DEF Truthful, Agreed, Told
  <1>6. Opened
    BY <1>1, <1>2, StoreAssumption DEF Init, Opened, OpenCall
  <1> QED
    BY <1>3, <1>4, <1>5, <1>6 DEF IndInv

\* Opening, looking, writing: the steps of a call that nobody else sees.
LEMMA ProceedStep ==
  ASSUME IndInv, NEW c \in Clients, Proceed(c)
  PROVE  IndInv'
  <1>1. /\ Sound(call[c]) /\ call[c] \in Call
        /\ OpenCall(call[c]) /\ ReadyCall(c, call[c]) /\ schema # "partial"
        /\ schema \in Layouts /\ lock \in Clients \cup {NoTask}
        /\ call[c].pc \in InTransaction => lock = c
    BY DEF IndInv, Typed, Opened, Ready, Held
  <1>2. \A pc \in InTransaction :
          /\ [call[c] EXCEPT !.pc = pc] \in Call
          /\ [call[c] EXCEPT !.pc = pc].pc = pc
          /\ [call[c] EXCEPT !.pc = pc].op = call[c].op
          /\ [call[c] EXCEPT !.pc = pc].id = call[c].id
          /\ [call[c] EXCEPT !.pc = pc].doc = call[c].doc
          /\ [call[c] EXCEPT !.pc = pc].prev = call[c].prev
          /\ [call[c] EXCEPT !.pc = pc].version = call[c].version
          /\ [call[c] EXCEPT !.pc = pc].answer = call[c].answer
    <2> SUFFICES ASSUME NEW pc \in InTransaction
                 PROVE  /\ [call[c] EXCEPT !.pc = pc] \in Call
                        /\ [call[c] EXCEPT !.pc = pc].pc = pc
                        /\ [call[c] EXCEPT !.pc = pc].op = call[c].op
                        /\ [call[c] EXCEPT !.pc = pc].id = call[c].id
                        /\ [call[c] EXCEPT !.pc = pc].doc = call[c].doc
                        /\ [call[c] EXCEPT !.pc = pc].prev = call[c].prev
                        /\ [call[c] EXCEPT !.pc = pc].version = call[c].version
                        /\ [call[c] EXCEPT !.pc = pc].answer = call[c].answer
      OBVIOUS
    <2>1. pc \in {"look", "write", "commit", "reply"}
      BY DEF InTransaction
    <2> QED
      BY <1>1, <2>1, CallFacts
  <1>3. CASE Begin(c)
    <2>1. Sound([call[c] EXCEPT !.pc = "look"])
      BY <1>1, <1>2, <1>3 DEF Begin, At, Sound, InTransaction
    <2>2. /\ ReadyCall(c, [call[c] EXCEPT !.pc = "look"])
          /\ OpenCall([call[c] EXCEPT !.pc = "look"])
      BY <1>1, <1>2 DEF ReadyCall, OpenCall, InTransaction
    <2> QED
      BY <1>3, <2>1, <2>2, GotoStep DEF Begin, At, InTransaction, Pending
  <1>4. CASE CheckSchema(c)
    <2>1. call[c].pc = "look" /\ call[c].op = "open"
      BY <1>4 DEF CheckSchema, At
    <2>2. CASE schema \in {"none", "current"} /\ Goto(c, "write")
               /\ UNCHANGED <<tasks, schema, lock, known>>
      <3>1. Sound([call[c] EXCEPT !.pc = "write"])
        BY <1>1, <1>2, <2>1 DEF Sound, InTransaction
      <3>2. /\ ReadyCall(c, [call[c] EXCEPT !.pc = "write"])
            /\ OpenCall([call[c] EXCEPT !.pc = "write"])
        BY <1>1, <1>2, <2>2 DEF ReadyCall, OpenCall, InTransaction
      <3> QED
        BY <1>1, <2>1, <2>2, <3>1, <3>2, GotoStep DEF InTransaction, Pending
    <2>3. CASE schema \notin {"none", "current"} /\ Rollback(c, "refused")
      BY <1>1, <2>3, RollbackStep DEF Layouts
    <2> QED
      BY <1>4, <2>2, <2>3 DEF CheckSchema
  <1>5. CASE PrepareSchema(c)
    <2>1. call[c].pc = "write" /\ call[c].op = "open"
      BY <1>5 DEF PrepareSchema, At
    <2>2. Sound([call[c] EXCEPT !.pc = "commit"])
      BY <1>1, <1>2, <2>1 DEF Sound, InTransaction
    <2>3. /\ ReadyCall(c, [call[c] EXCEPT !.pc = "commit"])
          /\ OpenCall([call[c] EXCEPT !.pc = "commit"])
      BY <1>1, <1>2, <2>1 DEF ReadyCall, OpenCall, InTransaction
    <2> QED
      BY <1>1, <1>5, <2>1, <2>2, <2>3, GotoStep DEF PrepareSchema, InTransaction, Pending
  <1>6. CASE CommitSchema(c)
    BY <1>6, CommitSchemaStep
  <1>7. CASE LookupNew(c)
    <2>1. call[c].pc = "look" /\ call[c].op = "create"
      BY <1>7 DEF LookupNew, At
    <2>2. CASE Rollback(c, "exists")
      BY <2>2, RollbackStep
    <2>3. CASE Goto(c, "write") /\ UNCHANGED <<tasks, schema, lock, known>>
      <3>1. Sound([call[c] EXCEPT !.pc = "write"])
        BY <1>1, <1>2, <2>1 DEF Sound, InTransaction
      <3>2. /\ ReadyCall(c, [call[c] EXCEPT !.pc = "write"])
            /\ OpenCall([call[c] EXCEPT !.pc = "write"])
        BY <1>1, <1>2, <2>1 DEF ReadyCall, OpenCall, InTransaction
      <3> QED
        BY <1>1, <2>1, <2>3, <3>1, <3>2, GotoStep DEF InTransaction, Pending
    <2> QED
      BY <1>7, <2>2, <2>3 DEF LookupNew
  <1>8. CASE LookupOwned(c)
    <2>1. call[c].pc = "look" /\ call[c].op = "update" /\ call[c].id \in Ids
      BY <1>1, <1>8 DEF LookupOwned, At, Sound
    <2>2. ASSUME NEW answer \in {"not_found", "conflict", "failed"}, Rollback(c, answer)
          PROVE IndInv'
      BY <2>2, RollbackStep
    <2>3. CASE /\ Owned(c, call[c].id) /\ Current(call[c].prev, tasks[call[c].id].version)
               /\ call' = [call EXCEPT ![c].pc = "write",
                                       ![c].version = tasks[call[c].id].version]
               /\ UNCHANGED <<tasks, schema, lock, known>>
      <3> DEFINE version == tasks[call[c].id].version
                 looked == [call[c] EXCEPT !.pc = "write"]
                 k == [looked EXCEPT !.version = version]
      <3>1. version \in Nat
        BY <2>1, <2>3 DEF Owned, IndInv, Typed, Rows!Row
      <3>2. call' = [call EXCEPT ![c] = k]
        BY <1>1, <2>3 DEF IndInv, Typed, Call
      <3>3. /\ looked \in Call /\ looked.pc = "write" /\ looked.op = call[c].op
            /\ looked.id = call[c].id /\ looked.doc = call[c].doc
            /\ looked.prev = call[c].prev /\ looked.answer = call[c].answer
        BY <1>2 DEF InTransaction
      <3> HIDE DEF looked, version
      <3>4. /\ k \in Call /\ k.pc = "write" /\ k.op = "update" /\ k.id = call[c].id
            /\ k.doc = call[c].doc /\ k.prev = call[c].prev /\ k.version = version
            /\ k.answer = call[c].answer
        BY <2>1, <3>1, <3>3, CallFacts
      <3> HIDE DEF k
      <3>5. k.prev \in {Missing, version}
        BY <2>3, <3>4 DEF Current, version
      <3>6. Sound(k)
        BY <1>1, <2>1, <3>4, <3>5 DEF Sound
      <3>7. ReadyCall(c, k) /\ OpenCall(k) /\ PriorCall(c, k)
        BY <1>1, <2>1, <3>4 DEF ReadyCall, OpenCall, PriorCall, IndInv, Prior, Pending
      <3>8. /\ lock = c /\ lock' = c /\ k.pc # "reply"
            /\ UNCHANGED <<tasks, schema, known>>
        BY <1>1, <1>8, <2>3, <3>4 DEF LookupOwned, At, InTransaction
      <3> QED
        BY <3>2, <3>6, <3>7, <3>8, CallStep
    <2> QED
      BY <1>8, <2>2, <2>3 DEF LookupOwned
  <1>9. CASE Write(c)
    <2> DEFINE written == [call[c] EXCEPT !.pc = "commit"]
               k == [written EXCEPT !.version = call[c].version + 1]
    <2>1. /\ call[c].pc = "write" /\ call[c].op # "open" /\ call[c].id \in Ids
          /\ call[c].version \in Nat /\ call[c].prev \in Nat
          /\ call[c].op \in {"create", "update"}
      BY <1>1, <1>9 DEF Write, At, Sound, Call
    <2>2. call' = [call EXCEPT ![c] = k] /\ UNCHANGED <<tasks, schema, lock, known>>
      BY <1>1, <1>9 DEF Write, IndInv, Typed, Call
    <2>3. /\ written \in Call /\ written.pc = "commit" /\ written.op = call[c].op
          /\ written.id = call[c].id /\ written.doc = call[c].doc
          /\ written.prev = call[c].prev /\ written.answer = call[c].answer
      BY <1>2 DEF InTransaction
    <2> HIDE DEF written
    <2>4. /\ k \in Call /\ k.pc = "commit" /\ k.op = call[c].op /\ k.id = call[c].id
          /\ k.doc = call[c].doc /\ k.prev = call[c].prev
          /\ k.version = call[c].version + 1 /\ k.answer = call[c].answer
      BY <2>1, <2>3, CallFacts
    <2> HIDE DEF k
    <2>5. Sound(k)
      BY <1>1, <2>1, <2>4 DEF Sound, Missing
    <2>6. ReadyCall(c, k)
      BY <1>9, <2>1, <2>4 DEF ReadyCall, Write
    <2>7. OpenCall(k) /\ PriorCall(c, k)
      BY <1>1, <2>1, <2>4 DEF OpenCall, PriorCall, IndInv, Prior, Pending
    <2>8. lock = c /\ lock' = c /\ k.pc # "reply"
      BY <1>1, <2>1, <2>2, <2>4 DEF InTransaction
    <2> QED
      BY <2>2, <2>5, <2>6, <2>7, <2>8, CallStep
  <1>10. CASE Commit(c)
    BY <1>10, CommitStep
  <1>11. CASE Reply(c)
    <2> DEFINE k == Ended("idle", "ok")
               row == [id |-> call[c].id, doc |-> call[c].doc, version |-> call[c].version]
    <2>1. Sound(k) /\ k.pc = "idle" /\ k.op = "open" /\ k.answer = "ok"
      BY EndedFacts
    <2>2. /\ call[c].pc = "reply" /\ call[c].id \in Ids /\ call[c].doc \in Docs
          /\ call[c].version \in Nat \ {0}
      BY <1>1, <1>11 DEF Reply, At, Sound, Call, Missing
    <2>3. row \in Known /\ Told(c, row.id, row.doc, row.version)
      BY <2>2 DEF Known, Told
    <2>4. /\ call' = [call EXCEPT ![c] = k] /\ known' = [known EXCEPT ![c] = row]
          /\ UNCHANGED <<tasks, schema, lock>>
      BY <1>11 DEF Reply
    <2>5. k.pc \notin Pending \cup {"reply"} /\ OpenCall(k)
      BY <2>1 DEF Pending, OpenCall
    <2> HIDE DEF k, row
    <2> QED
      BY <2>1, <2>3, <2>4, <2>5, ToldStep
  <1> QED
    BY <1>3, <1>4, <1>5, <1>6, <1>7, <1>8, <1>9, <1>10, <1>11 DEF Proceed

LEMMA NextIndInv == IndInv /\ [Next]_vars => IndInv'
  <1> SUFFICES ASSUME IndInv, [Next]_vars PROVE IndInv'
    OBVIOUS
  <1>1. ASSUME NEW c \in Clients, OpenTaskStore(c) PROVE IndInv'
    <2> DEFINE k == Ended("begin", "none")
    <2>1. Sound(k) /\ k.pc = "begin" /\ k.op = "open" /\ k.prev = Missing /\ k.answer = "none"
      BY EndedFacts
    <2>2. call' = [call EXCEPT ![c] = k] /\ UNCHANGED <<tasks, schema, lock, known>>
      BY <1>1 DEF OpenTaskStore
    <2>3. ReadyCall(c, k) /\ PriorCall(c, k) /\ OpenCall(k) /\ k.pc \notin InTransaction
      BY <2>1 DEF ReadyCall, PriorCall, OpenCall, InTransaction
    <2> HIDE DEF k
    <2> QED
      BY <2>1, <2>2, <2>3, CallStep DEF IndInv, Typed
  <1>2. ASSUME NEW c \in Clients, Proceed(c) PROVE IndInv'
    BY <1>2, ProceedStep
  <1>3. ASSUME NEW c \in Clients, Fail(c) PROVE IndInv'
    BY <1>3, RollbackStep DEF Fail
  <1>4. ASSUME NEW c \in Clients, Die(c) PROVE IndInv'
    <2> DEFINE k == Ended("closed", "none")
    <2>1. Sound(k) /\ k.pc = "closed" /\ k.op = "open" /\ k.prev = Missing /\ k.answer = "none"
      BY EndedFacts
    <2>2. /\ call' = [call EXCEPT ![c] = k] /\ UNCHANGED <<tasks, schema, known>>
          /\ lock' \in Clients \cup {NoTask} /\ \A d \in Clients \ {c} : lock = d => lock' = d
      BY <1>4 DEF Die, IndInv, Typed
    <2>3. ReadyCall(c, k) /\ PriorCall(c, k) /\ OpenCall(k) /\ k.pc \notin InTransaction
      BY <2>1 DEF ReadyCall, PriorCall, OpenCall, InTransaction
    <2> HIDE DEF k
    <2> QED
      BY <2>1, <2>2, <2>3, CallStep
  <1>5. ASSUME NEW c \in Clients, NEW i \in Ids, Get(c, i) PROVE IndInv'
    <2> DEFINE row == IF Owned(c, i)
                        THEN [id |-> i, doc |-> tasks[i].doc, version |-> tasks[i].version]
                        ELSE NoTask
    <2>1. call[c].pc = "idle" /\ Sound(call[c]) /\ OpenCall(call[c])
      BY <1>5 DEF Get, At, IndInv, Typed, Opened
    <2>2. row \in Known \cup {NoTask}
      BY DEF Owned, IndInv, Typed, Rows!Row, Known
    <2>3. row # NoTask => /\ Owned(c, row.id)
                          /\ row.version = tasks[row.id].version /\ row.doc = tasks[row.id].doc
      OBVIOUS
    <2>4. known' = [known EXCEPT ![c] = row] /\ UNCHANGED <<tasks, schema, lock, call>>
      BY <1>5 DEF Get
    <2> HIDE DEF row
    <2>5. /\ call[c].pc \notin Pending \cup {"reply"}
          /\ call' = [call EXCEPT ![c] = call[c]]
      BY <2>1, <2>4 DEF Pending, IndInv, Typed
    <2> QED
      BY <2>1, <2>2, <2>3, <2>4, <2>5, ToldStep
  <1>6. ASSUME NEW c \in Clients, NEW op \in {"create", "update"}, NEW i \in Ids,
               NEW d \in Docs, NEW prev \in 0..MaxVersion, Invoke(c, op, i, d, prev)
        PROVE IndInv'
    <2> DEFINE k == [pc |-> "begin", op |-> op, id |-> i, doc |-> d,
                     prev |-> prev, version |-> Missing, answer |-> "none"]
    <2>1. /\ k.pc = "begin" /\ k.op = op /\ k.id = i /\ k.doc = d /\ k.prev = prev
          /\ k.version = Missing /\ k.answer = "none"
      OBVIOUS
    <2>2. k \in Call
      BY StoreAssumption DEF Call, Missing
    <2>3. call' = [call EXCEPT ![c] = k] /\ UNCHANGED <<tasks, schema, lock, known>>
      BY <1>6 DEF Invoke
    <2> HIDE DEF k
    <2>4. Sound(k)
      BY <1>6, <2>1, <2>2 DEF Sound, Invoke
    <2>5. ReadyCall(c, k) /\ OpenCall(k) /\ k.pc \notin InTransaction /\ k.pc # "reply"
      BY <2>1 DEF ReadyCall, OpenCall, InTransaction
    <2>6. PriorCall(c, k)
      BY <1>6, <2>1 DEF PriorCall, Invoke
    <2>7. lock \in Clients \cup {NoTask}
      BY DEF IndInv, Typed
    <2> QED
      BY <2>3, <2>4, <2>5, <2>6, <2>7, CallStep
  <1>7. CASE UNCHANGED vars
    <2>1. UNCHANGED <<tasks, schema, lock, call, known>>
      BY <1>7 DEF vars
    <2>2. Typed' /\ Held' /\ Opened'
      BY <2>1 DEF IndInv, Typed, Sound, Held, Opened, OpenCall
    <2>3. Ready' /\ Prior'
      BY <2>1 DEF IndInv, Ready, ReadyCall, Owned, Prior, PriorCall
    <2>4. \A c \in Clients, i \in Ids, x \in Docs, v \in Nat \ {0} :
            (Told(c, i, x, v)' <=> Told(c, i, x, v)) /\ (IsState(c, i, x, v)' <=> IsState(c, i, x, v))
      BY <2>1 DEF Told, IsState
    <2>5. Truthful' /\ Agreed'
      BY <2>4 DEF IndInv, Truthful, Agreed
    <2> QED
      BY <2>2, <2>3, <2>5 DEF IndInv
  <1> QED
    BY <1>1, <1>2, <1>3, <1>4, <1>5, <1>6, <1>7 DEF Next

LEMMA Inductive == Spec => []IndInv
  BY InitIndInv, NextIndInv, PTL DEF Spec

\* Nothing but a commit writes the table.
LEMMA TasksSteps ==
  ASSUME [Next]_vars
  PROVE  UNCHANGED tasks \/ \E c \in Clients : Commit(c)
  BY DEF Next, vars, OpenTaskStore, Proceed, Fail, Die, Get, Invoke, Rollback,
         Begin, CheckSchema, PrepareSchema, CommitSchema, LookupNew, LookupOwned, Write, Reply

-----------------------------------------------------------------------------
(* What follows from the invariant *)

\* Every variable has its type.
THEOREM TypeCorrect == Spec => []TypeOK
  <1>1. IndInv => TypeOK
    BY DEF IndInv, Typed, TypeOK
  <1> QED
    BY <1>1, Inductive, PTL

\* What a client was told of a task is true of it, then and later: the row is there,
\* still its caller's, in that version or a later one, and a version names one state
\* (the optimistic check of Update, under the write lock).
THEOREM Answers == Spec => []AnswersHold
  <1>1. IndInv => AnswersHold
    <2> SUFFICES ASSUME IndInv PROVE AnswersHold
      OBVIOUS
    <2>1. TypeOK
      BY DEF IndInv, Typed, TypeOK
    <2>2. ASSUME NEW c \in Clients, known[c] # NoTask
          PROVE  /\ known[c].id \in Ids /\ known[c].doc \in Docs
                 /\ known[c].version \in Nat \ {0}
                 /\ Told(c, known[c].id, known[c].doc, known[c].version)
      BY <2>2 DEF IndInv, Typed, Known, Told
    <2>3. ASSUME NEW c \in Clients, known[c] # NoTask
          PROVE  IsState(c, known[c].id, known[c].doc, known[c].version)
      BY <2>2, <2>3 DEF IndInv, Truthful
    <2>4. ASSUME NEW c \in Clients, NEW d \in Clients,
                 known[c] # NoTask, known[d] # NoTask,
                 known[c].id = known[d].id, known[c].version = known[d].version
          PROVE  known[c].doc = known[d].doc
      BY <2>2, <2>4 DEF IndInv, Agreed
    <2>5. VersionNamesState
      BY <2>1, <2>3, <2>4 DEF VersionNamesState, IsState
    <2>6. AnswersLast
      BY <2>3 DEF AnswersLast, IsState
    <2> QED
      BY <2>5, <2>6 DEF AnswersHold
  <1> QED
    BY <1>1, Inductive, PTL

\* A store this program made is never refused at a later start, wherever a crash
\* left its preparation (prepareTaskSchema is one transaction).
THEOREM Reopening == Spec => []Reopens
  <1>1. IndInv => Reopens
    BY DEF IndInv, Opened, OpenCall, Reopens
  <1> QED
    BY <1>1, Inductive, PTL

\* No write is lost to a writer that has not seen it: an update that names a version
\* replaces the very state its client was told of.
THEOREM NoUpdateLost == Spec => NoLostUpdate
  <1>1. ASSUME IndInv, [Next]_vars, NEW i \in Ids, tasks[i] # NoTask, tasks'[i] # tasks[i],
               NEW c \in Clients, call[c].pc = "commit", call'[c].pc = "reply",
               call[c].prev # Missing
        PROVE  known[c].version = tasks[i].version /\ known[c].doc = tasks[i].doc
    <2>1. PICK d \in Clients : Commit(d)
      BY <1>1, TasksSteps
    <2>2. d = c
      BY <1>1, <2>1 DEF Commit, Goto, IndInv, Typed
    <2>3. i = call[c].id /\ call[c].op = "update" /\ call[c].version = tasks[i].version + 1
      BY <1>1, <2>1, <2>2
      DEF Commit, At, IndInv, Typed, Sound, Call, Ready, ReadyCall, Owned
    <2>4. tasks[i].version \in Nat /\ call[c].prev \in Nat
      BY <1>1 DEF IndInv, Typed, Rows!Row, Sound, Call
    <2>5. known[c] # NoTask /\ known[c].id = i /\ known[c].version = tasks[i].version
      BY <1>1, <2>3, <2>4 DEF IndInv, Typed, Sound, Prior, PriorCall, Pending
    <2>6. /\ known[c].doc \in Docs /\ known[c].version \in Nat \ {0}
          /\ Told(c, i, known[c].doc, known[c].version)
      BY <1>1, <2>5 DEF IndInv, Typed, Known, Told
    <2> QED
      BY <1>1, <2>5, <2>6 DEF IndInv, Truthful, IsState
  <1>2. IndInv /\ [Next]_vars =>
          (\A i \in Ids : tasks[i] # NoTask /\ tasks'[i] # tasks[i] =>
             \A c \in Clients :
               call[c].pc = "commit" /\ call'[c].pc = "reply" /\ call[c].prev # Missing =>
                 /\ known[c].version = tasks[i].version
                 /\ known[c].doc = tasks[i].doc)
    BY <1>1
  <1> QED
    BY <1>2, Inductive, PTL DEF Spec, NoLostUpdate

\* The store implements the numbered rows: a row is created in version 1, and every
\* later state of it is written by its owner with the next number (TaskRows).
THEOREM Numbered == Spec => NumberedSteps
  <1>1. Init => Rows!Init
    BY DEF Init, Rows!Init
  <1>2. ASSUME IndInv, NEW c \in Clients, Commit(c) PROVE Rows!Next
    <2> DEFINE i == call[c].id
    <2>1. /\ i \in Ids /\ call[c].doc \in Docs /\ call[c].pc = "commit"
          /\ call[c].op \in {"create", "update"} /\ OwnerOf[c] \in Owners
          /\ tasks' = [tasks EXCEPT ![i] = [owner |-> OwnerOf[c], doc |-> call[c].doc,
                                            version |-> call[c].version]]
      BY <1>2, StoreAssumption DEF Commit, At, IndInv, Typed, Sound, Call
    <2>2. CASE call[c].op = "create"
      <3>1. tasks[i] = NoTask /\ call[c].version = 1
        BY <1>2, <2>1, <2>2 DEF IndInv, Typed, Sound, Ready, ReadyCall
      <3> QED
        BY <2>1, <3>1 DEF Rows!Next, Rows!Create
    <2>3. CASE call[c].op = "update"
      <3>1. /\ tasks[i] # NoTask /\ tasks[i].owner = OwnerOf[c]
            /\ call[c].version = tasks[i].version + 1
        BY <1>2, <2>1, <2>3 DEF IndInv, Ready, ReadyCall, Owned
      <3> QED
        BY <2>1, <3>1 DEF Rows!Next, Rows!Update
    <2> QED
      BY <2>1, <2>2, <2>3
  <1>3. IndInv /\ [Next]_vars => [Rows!Next]_tasks
    BY <1>2, TasksSteps
  <1> QED
    BY <1>1, <1>3, Inductive, PTL DEF Spec, NumberedSteps, Rows!Spec

-----------------------------------------------------------------------------
(***************************************************************************)
(* A walk through the pages of a list, for any number of tasks, clients,   *)
(* callers, filters, page sizes and time stamps.                           *)
(*                                                                         *)
(* The cursor is a place in the listing order, and an update can move a    *)
(* task past it in either direction. What the proof follows is therefore   *)
(* not the rows but the tasks left alone: each still matches and is        *)
(* ahead of the cursor until it is shown (Ahead) and behind it afterwards  *)
(* (Behind). A page has all of the rows past the cursor down to its last   *)
(* one (PageIsPrefix), and all of them when no row is beyond it            *)
(* (LastPage). Unless the clock is set back an update is stamped no lower  *)
(* than any token (Stamped), so whatever was shown stays behind.           *)
(***************************************************************************)
Listing == {"begin", "count", "page", "token"}

Stored(i) == rows[i] # NoRow

\* A page is asked for with a size in range.
Sized(w) == walk[w].pc \in Listing => walk[w].size \in 1..MaxPageSize

\* A count stays right while its page is read.
Counted(w) == walk[w].pc = "page" => walk[w].total = Cardinality(Matching(w))

\* What was left alone still matches, and was shown or is still to come.
Ahead(w) == walk[w].pc \in Listing => \A i \in walk[w].still :
  /\ i \in Matching(w)
  /\ i \in walk[w].seen \/ PastCursor(i, walk[w].cursor)

\* What was shown is behind the cursor, if it was left alone or the clock was.
Behind(w) == walk[w].pc \in Listing =>
  /\ walk[w].cursor = NoRow => walk[w].seen = {}
  /\ \A i \in walk[w].seen :
       /\ Stored(i)
       /\ i \in walk[w].still \/ ~stepped => ~PastCursor(i, walk[w].cursor)

\* Unless the clock was set back no token is newer than it ...
Tokened(w) == ~stepped /\ walk[w].pc \in Listing /\ walk[w].cursor # NoRow =>
  walk[w].cursor.updated <= clock

\* What WalksAreExact says of one client.
Exactly(w) ==
  /\ walk[w].pc = "done" => walk[w].still \subseteq walk[w].seen
  /\ walk[w].again \cap walk[w].still = {}
  /\ ~stepped => walk[w].again = {}
  /\ walk[w].pc = "done" /\ walk[w].cursor = NoRow =>
       walk[w].total = Cardinality(walk[w].page)
  /\ walk[w].pc = "token" => walk[w].total > Cardinality(walk[w].page)

Walking(w) == Sized(w) /\ Counted(w) /\ Ahead(w) /\ Behind(w) /\ Tokened(w) /\ Exactly(w)

\* ... and no row either.
Stamped == ~stepped => \A i \in TaskIds : Stored(i) => rows[i].updated <= clock

\* Whoever counts or reads a page holds the lock.
ListerHolds == \A w \in Walkers : walk[w].pc \in {"count", "page"} <=> reader = w

PagesInv == PagesTypeOK /\ ListerHolds /\ Stamped /\ \A w \in Walkers : Walking(w)

-----------------------------------------------------------------------------
(* The listing order *)

LEMMA Least == ASSUME NEW S \in SUBSET Nat, S # {} PROVE \E i \in S : \A j \in S : i <= j
  <1> DEFINE R == OpToRel(<, Nat)
  <1>1. \E x \in S : \A y \in S : ~(<<y, x>> \in R)
    <2>1. IsWellFoundedOn(R, Nat)
      BY NatLessThanWellFounded
    <2> HIDE DEF R
    <2> QED
      BY <2>1, WFMin
  <1>2. \A x, y \in Nat : <<y, x>> \in R <=> y < x
    BY DEF OpToRel
  <1> HIDE DEF R
  <1>3. PICK x \in S : \A y \in S : ~(<<y, x>> \in R)
    BY <1>1
  <1>4. \A y \in S : ~(y < x) /\ y \in Nat /\ x \in Nat
    BY <1>2, <1>3
  <1> QED
    BY <1>3, <1>4

\* One task below another in the listing.
Under(i, j) == Below(Key(i), Key(j))

\* Of the tasks S, those before i in the listing, and those after it.
Over(S, i) == {j \in S : Under(i, j)}
After(S, i) == {j \in S : Under(j, i)}

StoredIds == {i \in TaskIds : Stored(i)}

LEMMA Numbers ==
  ASSUME PagesAssumption
  PROVE  /\ TaskIds \subseteq Nat /\ 0..MaxTime \subseteq Nat
         /\ MaxTime \in Nat /\ MaxPageSize \in Nat
  BY DEF PagesAssumption

\* A row's place in the list.
LEMMA KeyType ==
  ASSUME PagesAssumption, PagesTypeOK, NEW i \in StoredIds
  PROVE  /\ rows[i] \in Row /\ rows[i].updated \in 0..MaxTime /\ rows[i].updated \in Nat
         /\ Key(i) \in [updated: 0..MaxTime, id: TaskIds]
         /\ Key(i).updated = rows[i].updated /\ Key(i).id = i
         /\ i \in Nat /\ Key(i) # NoRow
  <1>1. rows[i] \in Row /\ i \in TaskIds
    BY DEF StoredIds, Stored, PagesTypeOK
  <1>2. rows[i].updated \in 0..MaxTime /\ MaxTime \in Nat /\ i \in Nat
    BY <1>1 DEF Row, PagesAssumption
  <1>3. Key(i) \in [updated: 0..MaxTime, id: TaskIds]
    BY <1>1, <1>2 DEF Key
  <1> QED
    BY <1>1, <1>2, <1>3 DEF Key, PagesAssumption

\* Places are strictly and totally ordered.
LEMMA Order ==
  ASSUME PagesAssumption
  PROVE  LET Places == [updated: 0..MaxTime, id: TaskIds] IN
         /\ \A a \in Places : ~Below(a, a)
         /\ \A a, b, c \in Places : Below(a, b) /\ Below(b, c) => Below(a, c)
         /\ \A a, b \in Places : a.id # b.id => Below(a, b) \/ Below(b, a)
         /\ \A a, b \in Places : a.updated < b.updated => Below(a, b)
  <1> DEFINE Places == [updated: 0..MaxTime, id: TaskIds]
  <1>1. \A a \in Places : a.updated \in Nat /\ a.id \in Nat
    BY Numbers
  <1> HIDE DEF Places
  <1>2. \A a \in Places : ~Below(a, a)
    BY <1>1 DEF Below
  <1>3. \A a, b, c \in Places : Below(a, b) /\ Below(b, c) => Below(a, c)
    BY <1>1 DEF Below
  <1>4. \A a, b \in Places : a.id # b.id => Below(a, b) \/ Below(b, a)
    BY <1>1 DEF Below
  <1>5. \A a, b \in Places : a.updated < b.updated => Below(a, b)
    BY DEF Below
  <1> QED
    BY <1>2, <1>3, <1>4, <1>5 DEF Places

\* So are the tasks in store.
LEMMA UnderOrder ==
  ASSUME PagesAssumption, PagesTypeOK
  PROVE  /\ \A i \in StoredIds : ~Under(i, i)
         /\ \A i, j, k \in StoredIds : Under(i, j) /\ Under(j, k) => Under(i, k)
         /\ \A i, j \in StoredIds : i # j => Under(i, j) \/ Under(j, i)
  <1>1. \A i \in StoredIds :
          Key(i) \in [updated: 0..MaxTime, id: TaskIds] /\ Key(i).id = i
    BY KeyType
  <1>2. \A i \in StoredIds : ~Under(i, i)
    BY <1>1, Order DEF Under
  <1>3. \A i, j, k \in StoredIds : Under(i, j) /\ Under(j, k) => Under(i, k)
    BY <1>1, Order DEF Under
  <1>4. ASSUME NEW i \in StoredIds, NEW j \in StoredIds, i # j
        PROVE  Under(i, j) \/ Under(j, i)
    <2>1. Key(i).id # Key(j).id
      BY <1>1, <1>4
    <2> QED
      BY <1>1, <2>1, Order DEF Under
  <1> QED
    BY <1>2, <1>3, <1>4

\* Tasks are finitely many.
LEMMA Finite ==
  ASSUME PagesAssumption, NEW S \in SUBSET StoredIds
  PROVE  /\ IsFiniteSet(S) /\ Cardinality(S) \in Nat
         /\ \A i : /\ IsFiniteSet(Over(S, i)) /\ Cardinality(Over(S, i)) \in Nat
                   /\ IsFiniteSet(After(S, i)) /\ Cardinality(After(S, i)) \in Nat
  <1>1. S \in SUBSET TaskIds /\ IsFiniteSet(TaskIds)
    BY DEF StoredIds, PagesAssumption
  <1>2. IsFiniteSet(S)
    BY <1>1, FS_Subset
  <1>3. \A i : Over(S, i) \in SUBSET S /\ After(S, i) \in SUBSET S
    BY DEF Over, After
  <1>4. \A i : IsFiniteSet(Over(S, i)) /\ IsFiniteSet(After(S, i))
    BY <1>2, <1>3, FS_Subset
  <1> QED
    BY <1>2, <1>4, FS_CardinalityType

\* Some task comes first: the one with the fewest before it.
LEMMA Highest ==
  ASSUME PagesAssumption, PagesTypeOK, NEW S \in SUBSET StoredIds, S # {}
  PROVE  \E i \in S : \A j \in S : ~Under(i, j)
  <1> DEFINE Counts == {Cardinality(Over(S, i)) : i \in S}
  <1>1. Counts \in SUBSET Nat /\ Counts # {}
    BY Finite
  <1>2. PICK n \in Counts : \A m \in Counts : n <= m
    <2> HIDE DEF Counts
    <2> QED
      BY <1>1, Least
  <1>3. PICK i \in S : n = Cardinality(Over(S, i))
    BY <1>2
  <1>4. ASSUME NEW j \in S, Under(i, j) PROVE FALSE
    <2>1. Over(S, j) \in SUBSET Over(S, i)
      BY <1>4, UnderOrder DEF Over
    <2>2. j \in Over(S, i) /\ j \notin Over(S, j)
      BY <1>4, UnderOrder DEF Over
    <2>3. IsFiniteSet(Over(S, i)) /\ Cardinality(Over(S, i)) \in Nat /\ Cardinality(Over(S, j)) \in Nat
      BY Finite
    <2>4. Cardinality(Over(S, j)) <= Cardinality(Over(S, i))
      BY <2>1, <2>3, FS_Subset
    <2>5. Cardinality(Over(S, j)) # Cardinality(Over(S, i))
      BY <2>1, <2>2, <2>3, FS_Subset
    <2>6. n <= Cardinality(Over(S, j))
      BY <1>2
    <2> QED
      BY <1>3, <2>3, <2>4, <2>5, <2>6
  <1> QED
    BY <1>4

\* And some task comes last.
LEMMA Lowest ==
  ASSUME PagesAssumption, PagesTypeOK, NEW S \in SUBSET StoredIds, S # {}
  PROVE  \E i \in S : \A j \in S \ {i} : Under(i, j)
  <1> DEFINE Counts == {Cardinality(After(S, i)) : i \in S}
  <1>1. Counts \in SUBSET Nat /\ Counts # {}
    BY Finite
  <1>2. PICK n \in Counts : \A m \in Counts : n <= m
    <2> HIDE DEF Counts
    <2> QED
      BY <1>1, Least
  <1>3. PICK i \in S : n = Cardinality(After(S, i))
    BY <1>2
  <1>4. ASSUME NEW j \in S, Under(j, i) PROVE FALSE
    <2>1. After(S, j) \in SUBSET After(S, i)
      BY <1>4, UnderOrder DEF After
    <2>2. j \in After(S, i) /\ j \notin After(S, j)
      BY <1>4, UnderOrder DEF After
    <2>3. IsFiniteSet(After(S, i)) /\ Cardinality(After(S, i)) \in Nat /\ Cardinality(After(S, j)) \in Nat
      BY Finite
    <2>4. Cardinality(After(S, j)) <= Cardinality(After(S, i))
      BY <2>1, <2>3, FS_Subset
    <2>5. Cardinality(After(S, j)) # Cardinality(After(S, i))
      BY <2>1, <2>2, <2>3, FS_Subset
    <2>6. n <= Cardinality(After(S, j))
      BY <1>2
    <2> QED
      BY <1>3, <2>3, <2>4, <2>5, <2>6
  <1> QED
    BY <1>4, UnderOrder

-----------------------------------------------------------------------------
(* The rows of a page *)

Past(w) == {i \in Matching(w) : PastCursor(i, walk[w].cursor)}

LEMMA RowsAre ==
  ASSUME NEW w, NEW n
  PROVE  PageOf(w, n) = {i \in Past(w) : Cardinality(Over(Past(w), i)) < n}
  BY DEF PageOf, Past, Over, Under

LEMMA PastStored ==
  ASSUME NEW w
  PROVE  /\ Past(w) \subseteq Matching(w) /\ Matching(w) \subseteq StoredIds
         /\ Past(w) \in SUBSET StoredIds
  BY DEF Past, Matching, Mine, StoredIds, Stored

\* A page has at most as many rows as it was asked for: its last one has them before it.
LEMMA PageFits ==
  ASSUME PagesAssumption, PagesTypeOK, NEW w \in Walkers, NEW n \in Nat
  PROVE  /\ PageOf(w, n) \in SUBSET StoredIds
         /\ Cardinality(PageOf(w, n)) \in Nat
         /\ Cardinality(PageOf(w, n)) <= n
  <1> DEFINE P == PageOf(w, n)
  <1>1. P \in SUBSET Past(w) /\ P \in SUBSET StoredIds
    BY RowsAre, PastStored
  <1>2. CASE P = {}
    BY <1>2, FS_EmptySet
  <1>3. CASE P # {}
    <2>1. PICK k \in P : \A j \in P \ {k} : Under(k, j)
      <3> HIDE DEF P
      <3> QED
        BY <1>1, <1>3, Lowest
    <2> DEFINE O == Over(Past(w), k)
    <2>2. P \in SUBSET (O \cup {k})
      <3> HIDE DEF P
      <3> QED
        BY <1>1, <2>1 DEF Over
    <2>3. IsFiniteSet(O) /\ Cardinality(O) \in Nat
      BY PastStored, Finite
    <2>4. Cardinality(O) < n
      BY <2>1, RowsAre
    <2> HIDE DEF O
    <2>5. IsFiniteSet(O \cup {k}) /\ Cardinality(O \cup {k}) <= Cardinality(O) + 1
      BY <2>3, FS_AddElement
    <2>6. Cardinality(O \cup {k}) \in Nat
      BY <2>5, FS_CardinalityType
    <2> HIDE DEF P
    <2>7. Cardinality(P) <= Cardinality(O \cup {k})
      BY <2>2, <2>5, FS_Subset
    <2>8. Cardinality(P) \in Nat
      BY <1>1, Finite
    <2>9. Cardinality(P) <= n
      BY <2>3, <2>4, <2>5, <2>6, <2>7, <2>8
    <2> QED
      BY <1>1, <2>8, <2>9 DEF P
  <1> QED
    BY <1>1, <1>2, <1>3

\* A page has every row past the cursor that comes before one of its own.
LEMMA PageIsPrefix ==
  ASSUME PagesAssumption, PagesTypeOK, NEW w \in Walkers, NEW n \in Nat,
         NEW j \in PageOf(w, n), NEW i \in Past(w), i \notin PageOf(w, n)
  PROVE  Under(i, j)
  <1> DEFINE P == Past(w)
  <1>1. i \in P /\ j \in P /\ P \in SUBSET StoredIds
    BY RowsAre, PastStored
  <1>2. Cardinality(Over(P, j)) < n /\ ~(Cardinality(Over(P, i)) < n)
    BY RowsAre
  <1> HIDE DEF P
  <1>3. i # j
    BY <1>2
  <1>4. SUFFICES ASSUME Under(j, i) PROVE FALSE
    BY <1>1, <1>3, UnderOrder
  <1>5. Over(P, i) \in SUBSET Over(P, j)
    BY <1>1, <1>4, UnderOrder DEF Over
  <1>6. IsFiniteSet(Over(P, j)) /\ Cardinality(Over(P, j)) \in Nat /\ Cardinality(Over(P, i)) \in Nat
    BY <1>1, Finite
  <1>7. Cardinality(Over(P, i)) <= Cardinality(Over(P, j))
    BY <1>5, <1>6, FS_Subset
  <1> QED
    BY <1>2, <1>6, <1>7

\* One row more shows whether any is left: of those beyond the page the first has
\* no more before it than the page holds.
LEMMA LastPage ==
  ASSUME PagesAssumption, PagesTypeOK, NEW w \in Walkers, NEW n \in Nat,
         PageOf(w, n + 1) = PageOf(w, n)
  PROVE  PageOf(w, n) = Past(w)
  <1> DEFINE Rest == Past(w) \ PageOf(w, n)
  <1>1. PageOf(w, n) \subseteq Past(w) /\ Rest \in SUBSET StoredIds
    BY RowsAre, PastStored
  <1>2. SUFFICES ASSUME Rest # {} PROVE FALSE
    BY <1>1
  <1>3. PICK i \in Rest : \A j \in Rest : ~Under(i, j)
    <2> HIDE DEF Rest
    <2> QED
      BY <1>1, <1>2, Highest
  <1>4. Over(Past(w), i) \in SUBSET PageOf(w, n)
    BY <1>3 DEF Over
  <1>5. Cardinality(PageOf(w, n)) \in Nat /\ Cardinality(PageOf(w, n)) <= n /\ IsFiniteSet(PageOf(w, n))
    BY PageFits, Finite
  <1>6. Cardinality(Over(Past(w), i)) <= Cardinality(PageOf(w, n))
    BY <1>4, <1>5, FS_Subset
  <1>7. Cardinality(Over(Past(w), i)) \in Nat
    BY PastStored, Finite
  <1>8. Cardinality(Over(Past(w), i)) < n + 1
    BY <1>5, <1>6, <1>7
  <1>9. i \in PageOf(w, n + 1)
    BY <1>3, <1>8, RowsAre
  <1> QED
    BY <1>3, <1>9

\* If one more row is found, the page has some and matching tasks are left.
LEMMA MorePages ==
  ASSUME PagesAssumption, PagesTypeOK, NEW w \in Walkers, NEW n \in Nat, n >= 1,
         PageOf(w, n + 1) # PageOf(w, n)
  PROVE  /\ PageOf(w, n) # {}
         /\ Cardinality(PageOf(w, n)) < Cardinality(Matching(w))
  <1>1. Past(w) \in SUBSET StoredIds /\ Matching(w) \in SUBSET StoredIds
    BY PastStored
  <1>2. /\ PageOf(w, n) \subseteq Past(w) /\ PageOf(w, n + 1) \subseteq Past(w)
        /\ PageOf(w, n) \subseteq PageOf(w, n + 1)
    <2>1. \A i : Cardinality(Over(Past(w), i)) \in Nat
      BY <1>1, Finite
    <2> QED
      BY <2>1, RowsAre
  <1>3. PICK k \in Past(w) : k \notin PageOf(w, n)
    BY <1>2
  <1>4. PageOf(w, n) # {}
    <2>1. PICK i \in Past(w) : \A j \in Past(w) : ~Under(i, j)
      BY <1>1, <1>3, Highest
    <2>2. Over(Past(w), i) = {}
      BY <2>1 DEF Over
    <2>3. Cardinality(Over(Past(w), i)) < n
      BY <2>2, FS_EmptySet
    <2> QED
      BY <2>1, <2>3, RowsAre
  <1>5. PageOf(w, n) \in SUBSET Matching(w) /\ PageOf(w, n) # Matching(w)
    BY <1>2, <1>3, PastStored
  <1>6. IsFiniteSet(Matching(w)) /\ Cardinality(Matching(w)) \in Nat /\ Cardinality(PageOf(w, n)) \in Nat
    BY <1>1, Finite, PageFits
  <1>7. Cardinality(PageOf(w, n)) <= Cardinality(Matching(w))
    BY <1>5, <1>6, FS_Subset
  <1>8. Cardinality(PageOf(w, n)) # Cardinality(Matching(w))
    BY <1>5, <1>6, FS_Subset
  <1> QED
    BY <1>4, <1>6, <1>7, <1>8

-----------------------------------------------------------------------------
(* The steps *)

LEMMA WalkType ==
  ASSUME PagesTypeOK, NEW w \in Walkers
  PROVE  /\ walk[w] \in Walk /\ DOMAIN walk = Walkers
         /\ walk[w].pc \in {"idle", "begin", "count", "page", "token", "done"}
         /\ walk[w].seen \in SUBSET TaskIds /\ walk[w].still \in SUBSET TaskIds
         /\ walk[w].again \in SUBSET TaskIds /\ walk[w].page \in SUBSET TaskIds
         /\ walk[w].total \in Nat /\ walk[w].size \in Int
         /\ walk[w].cursor # NoRow =>
              /\ walk[w].cursor \in [updated: 0..MaxTime, id: TaskIds]
              /\ walk[w].cursor.updated \in 0..MaxTime /\ walk[w].cursor.id \in TaskIds
         /\ Cardinality(walk[w].page) <= MaxPageSize
  <1>1. walk[w] \in Walk /\ DOMAIN walk = Walkers /\ Cardinality(walk[w].page) <= MaxPageSize
    BY DEF PagesTypeOK
  <1> QED
    BY <1>1 DEF Walk

\* No listing under way.
LEMMA NewWalkType ==
  ASSUME PagesAssumption
  PROVE  /\ NewWalk("idle") \in Walk /\ NewWalk("begin") \in Walk
         /\ Cardinality(NewWalk("idle").page) <= MaxPageSize
         /\ Cardinality(NewWalk("begin").page) <= MaxPageSize
  <1>1. MaxPageSize \in Nat /\ Cardinality({}) = 0
    BY FS_EmptySet, Numbers
  <1> QED
    BY <1>1 DEF NewWalk, Walk

LEMMA Resting ==
  ASSUME NEW w \in Walkers, walk'[w] = NewWalk("idle")
  PROVE  Walking(w)'
  <1>1. /\ walk'[w].pc = "idle"
        /\ walk'[w].again = {}
    BY DEF NewWalk
  <1> QED
    BY <1>1 DEF Walking, Sized, Counted, Ahead, Behind, Tokened, Exactly, Listing

\* A client that does not move does not notice that another did.
LEMMA Stands ==
  ASSUME NEW w \in Walkers, Walking(w), walk'[w] = walk[w],
         rows' = rows, clock' = clock, stepped' = stepped
  PROVE  Walking(w)'
  <1>1. Matching(w)' = Matching(w)
    BY DEF Matching, Mine
  <1>2. \A i, c : PastCursor(i, c)' <=> PastCursor(i, c)
    BY DEF PastCursor, Key
  <1>3. \A i : Stored(i)' <=> Stored(i)
    BY DEF Stored
  <1> QED
    BY <1>1, <1>2, <1>3 DEF Walking, Sized, Counted, Ahead, Behind, Tokened, Exactly

\* What one client's step must keep of the others, and of the whole.
LEMMA Moves ==
  ASSUME PagesInv, NEW w \in Walkers, NEW new, walk' = [walk EXCEPT ![w] = new],
         rows' = rows, clock' = clock, stepped' = stepped,
         new \in Walk, Cardinality(new.page) <= MaxPageSize,
         reader' \in Walkers \cup {NoRow},
         \A v \in Walkers : walk'[v].pc \in {"count", "page"} <=> reader' = v,
         Walking(w)'
  PROVE  PagesInv'
  <1>1. \A v \in Walkers : walk'[v] = IF v = w THEN new ELSE walk[v]
    BY DEF PagesInv, PagesTypeOK
  <1>2. PagesTypeOK'
    <2>1. walk' \in [Walkers -> Walk]
      BY DEF PagesInv, PagesTypeOK
    <2>2. \A v \in Walkers : Cardinality(walk'[v].page) <= MaxPageSize
      BY <1>1 DEF PagesInv, PagesTypeOK
    <2> QED
      BY <2>1, <2>2 DEF PagesInv, PagesTypeOK
  <1>3. ListerHolds'
    BY DEF ListerHolds
  <1>4. Stamped'
    BY DEF PagesInv, Stamped, Stored
  <1>5. \A v \in Walkers : Walking(v)'
    BY <1>1, Stands DEF PagesInv
  <1> QED
    BY <1>2, <1>3, <1>4, <1>5 DEF PagesInv

\* A row is written. It is newer than every token, unless the clock was set back.
LEMMA StampKeeps ==
  ASSUME PagesAssumption, PagesInv, NEW i \in TaskIds, NEW kind \in Kinds, reader = NoRow,
         Stamp(i, kind)
  PROVE  PagesInv'
  <1> DEFINE row == [kind |-> kind, updated |-> clock]
  <1>1. /\ rows' = [rows EXCEPT ![i] = row]
        /\ walk' = [w \in Walkers |-> [walk[w] EXCEPT !.still = @ \ {i}]]
        /\ clock' = clock /\ stepped' = stepped /\ reader' = reader
    BY DEF Stamp
  <1>2. PagesTypeOK
    BY DEF PagesInv
  <1>3. row \in Row /\ row # NoRow /\ clock \in 0..MaxTime /\ clock \in Nat
    BY <1>2 DEF PagesTypeOK, Row, PagesAssumption
  <1>4. /\ rows'[i] = row /\ \A j \in TaskIds : j # i => rows'[j] = rows[j]
        /\ \A j \in TaskIds : Stored(j) => Stored(j)'
    BY <1>1, <1>2, <1>3 DEF PagesTypeOK, Stored
  <1> HIDE DEF row
  <1>5. ASSUME NEW w \in Walkers
        PROVE  /\ walk'[w] \in Walk /\ walk'[w].still = walk[w].still \ {i}
               /\ walk'[w].pc = walk[w].pc /\ walk'[w].size = walk[w].size
               /\ walk'[w].filter = walk[w].filter /\ walk'[w].cursor = walk[w].cursor
               /\ walk'[w].total = walk[w].total /\ walk'[w].page = walk[w].page
               /\ walk'[w].seen = walk[w].seen /\ walk'[w].again = walk[w].again
    <2>1. walk[w] \in Walk /\ walk'[w] = [walk[w] EXCEPT !.still = @ \ {i}]
      BY <1>1, <1>2 DEF PagesTypeOK
    <2> QED
      BY <2>1 DEF Walk
  <1>6. PagesTypeOK'
    <2>1. rows' \in [TaskIds -> Row \cup {NoRow}]
      BY <1>1, <1>2, <1>3 DEF PagesTypeOK
    <2>2. walk' \in [Walkers -> Walk]
      BY <1>1, <1>5
    <2>3. \A w \in Walkers : Cardinality(walk'[w].page) <= MaxPageSize
      BY <1>2, <1>5 DEF PagesTypeOK
    <2> QED
      BY <1>1, <1>2, <2>1, <2>2, <2>3 DEF PagesTypeOK
  <1>7. ListerHolds'
    BY <1>1, <1>5 DEF PagesInv, ListerHolds
  <1>8. Stamped'
    BY <1>1, <1>3, <1>4 DEF PagesInv, Stamped, Stored, row
  <1>9. ASSUME NEW w \in Walkers PROVE Walking(w)'
    <2>1. Walking(w)
      BY DEF PagesInv
    <2>2. walk[w].pc # "page"
      BY DEF PagesInv, ListerHolds, PagesAssumption
    <2>3. ASSUME NEW j \in TaskIds, j # i
          PROVE  /\ j \in Matching(w) => j \in Matching(w)'
                 /\ PastCursor(j, walk[w].cursor)' <=> PastCursor(j, walk[w].cursor)
      BY <1>4, <1>5, <2>3 DEF Matching, Mine, PastCursor, Key
    <2>4. walk[w].seen \subseteq TaskIds /\ walk[w].still \subseteq TaskIds
      BY <1>2, WalkType
    <2>5. Sized(w)' /\ Counted(w)' /\ Tokened(w)' /\ Exactly(w)'
      BY <1>1, <1>5, <2>1, <2>2 DEF Walking, Sized, Counted, Tokened, Exactly
    <2>6. Ahead(w)'
      BY <1>5, <2>1, <2>3, <2>4 DEF Walking, Ahead
    <2>7. Behind(w)'
      <3> SUFFICES ASSUME walk[w].pc \in Listing
                   PROVE  /\ walk[w].cursor = NoRow => walk[w].seen = {}
                          /\ \A j \in walk[w].seen :
                               /\ Stored(j)'
                               /\ j \in walk[w].still \ {i} \/ ~stepped =>
                                    ~PastCursor(j, walk[w].cursor)'
        BY <1>1, <1>5 DEF Behind
      <3>1. walk[w].cursor = NoRow => walk[w].seen = {}
        BY <2>1 DEF Walking, Behind
      <3>2. ASSUME NEW j \in walk[w].seen, j # i
            PROVE  /\ Stored(j)'
                   /\ j \in walk[w].still \ {i} \/ ~stepped => ~PastCursor(j, walk[w].cursor)'
        <4>1. Stored(j) /\ (j \in walk[w].still \/ ~stepped => ~PastCursor(j, walk[w].cursor))
          BY <2>1 DEF Walking, Behind
        <4>2. j \in TaskIds
          BY <2>4
        <4> QED
          BY <1>4, <2>3, <3>2, <4>1, <4>2
      <3>3. ASSUME i \in walk[w].seen
            PROVE  Stored(i)' /\ (~stepped => ~PastCursor(i, walk[w].cursor)')
        <4> DEFINE c == walk[w].cursor
        <4>1. Stored(i)'
          BY <1>3, <1>4 DEF Stored
        <4>2. SUFFICES ASSUME ~stepped PROVE ~PastCursor(i, walk[w].cursor)'
          BY <4>1
        <4>3. ~PastCursor(i, c) /\ Stored(i)
          BY <2>1, <3>3, <4>2 DEF Walking, Behind
        <4>4. c # NoRow /\ ~Below(Key(i), c)
          BY <4>3 DEF PastCursor
        <4>5. c.updated \in Nat /\ c.id \in Nat /\ i \in Nat
          <5>1. c.updated \in 0..MaxTime /\ c.id \in TaskIds
            BY <1>2, <4>4, WalkType
          <5> QED
            BY <5>1, Numbers
        <4>6. c.updated <= clock
          BY <2>1, <4>2, <4>4 DEF Walking, Tokened
        <4>7. rows[i].updated \in Nat /\ rows[i].updated <= clock
          <5>1. i \in StoredIds
            BY <4>3 DEF StoredIds
          <5> QED
            BY <1>2, <4>2, <4>3, <5>1, KeyType DEF PagesInv, Stamped
        <4>8. ~(rows[i].updated < c.updated) /\ ~(rows[i].updated = c.updated /\ i < c.id)
          BY <4>4 DEF Below, Key
        <4>9. rows'[i].updated = clock /\ walk'[w].cursor = c
          BY <1>4, <1>5 DEF row
        <4> HIDE DEF c
        <4>10. ~(clock < c.updated) /\ ~(clock = c.updated /\ i < c.id)
          BY <1>3, <4>5, <4>6, <4>7, <4>8
        <4> QED
          BY <4>4, <4>9, <4>10 DEF PastCursor, Below, Key
      <3> QED
        BY <3>1, <3>2, <3>3
    <2> QED
      BY <2>5, <2>6, <2>7 DEF Walking
  <1> QED
    BY <1>6, <1>7, <1>8, <1>9 DEF PagesInv

\* The clock goes on, or is set back. Of what was shown only the tasks left alone
\* stay behind the cursor then.
LEMMA ClockKeeps ==
  ASSUME PagesAssumption, PagesInv, Tick \/ StepBack
  PROVE  PagesInv'
  <1>1. rows' = rows /\ reader' = reader /\ walk' = walk
    BY DEF Tick, StepBack
  <1>2. clock \in 0..MaxTime /\ clock' \in 0..MaxTime /\ stepped' \in BOOLEAN
    <2>1. clock \in 0..MaxTime /\ stepped \in BOOLEAN /\ MaxTime \in Nat
      BY Numbers DEF PagesInv, PagesTypeOK
    <2>2. CASE Tick
      BY <2>1, <2>2 DEF Tick
    <2>3. CASE StepBack
      <3>1. clock' \in 0..MaxTime
        BY <2>1, <2>3 DEF StepBack
      <3> QED
        BY <2>1, <2>3, <3>1 DEF StepBack
    <2> QED
      BY <2>2, <2>3
  <1>3. (stepped' = stepped /\ clock' = clock + 1) \/ stepped'
    BY DEF Tick, StepBack
  <1>4. PagesTypeOK'
    BY <1>1, <1>2 DEF PagesInv, PagesTypeOK
  <1>5. ListerHolds'
    BY <1>1 DEF PagesInv, ListerHolds
  <1>6. Stamped'
    <2> SUFFICES ASSUME ~stepped', NEW i \in TaskIds, Stored(i)' PROVE rows'[i].updated <= clock'
      BY DEF Stamped
    <2>1. rows[i].updated <= clock /\ clock' = clock + 1 /\ i \in StoredIds
      BY <1>1, <1>3 DEF PagesInv, Stamped, Stored, StoredIds
    <2>2. rows[i].updated \in Nat
      BY <2>1, KeyType DEF PagesInv
    <2> QED
      BY <1>1, <1>2, <2>1, <2>2
  <1>7. ASSUME NEW w \in Walkers PROVE Walking(w)'
    <2>1. Walking(w)
      BY DEF PagesInv
    <2>2. /\ Matching(w)' = Matching(w)
          /\ \A i, c : PastCursor(i, c)' <=> PastCursor(i, c)
          /\ \A i : Stored(i)' <=> Stored(i)
      BY <1>1 DEF Matching, Mine, PastCursor, Key, Stored
    <2>3. ~stepped' => ~stepped
      BY <1>3
    <2>4. Sized(w)' /\ Counted(w)' /\ Ahead(w)'
      BY <1>1, <2>1, <2>2 DEF Walking, Sized, Counted, Ahead
    <2>5. Behind(w)' /\ Exactly(w)'
      BY <1>1, <2>1, <2>2, <2>3 DEF Walking, Behind, Exactly
    <2>6. Tokened(w)'
      <3> SUFFICES ASSUME ~stepped', walk[w].pc \in Listing, walk[w].cursor # NoRow
                   PROVE  walk[w].cursor.updated <= clock'
        BY <1>1 DEF Tokened
      <3>1. walk[w].cursor.updated <= clock /\ clock' = clock + 1
        BY <1>3, <2>1 DEF Walking, Tokened
      <3>2. walk[w].cursor.updated \in 0..MaxTime
        BY WalkType DEF PagesInv
      <3> QED
        BY <1>2, <3>1, <3>2
    <2> QED
      BY <2>4, <2>5, <2>6 DEF Walking
  <1> QED
    BY <1>4, <1>5, <1>6, <1>7 DEF PagesInv

LEMMA PageSizes ==
  ASSUME PagesAssumption, NEW size \in RequestSizes, PageSize(size) >= 1
  PROVE  PageSize(size) \in 1..MaxPageSize /\ PageSize(size) \in Int
  BY DEF PagesAssumption, PageSize

\* A walk begins with nothing shown, and everything that matches ahead of it.
LEMMA ListKeeps ==
  ASSUME PagesAssumption, PagesInv, NEW w \in Walkers,
         NEW filter \in Filters, NEW size \in RequestSizes, List(w, filter, size)
  PROVE  PagesInv'
  <1> DEFINE still == {i \in TaskIds : Mine(w, i) /\ rows[i].kind \in filter}
             fresh == [NewWalk("begin") EXCEPT !.filter = filter, !.size = PageSize(size),
                        !.still = still]
             new == IF CallerOf[w] = Nobody \/ PageSize(size) < 1 THEN NewWalk("idle") ELSE fresh
  <1>1. /\ walk[w].pc \in {"idle", "done"}
        /\ walk' = [walk EXCEPT ![w] = new]
        /\ rows' = rows /\ clock' = clock /\ stepped' = stepped /\ reader' = reader
    BY DEF List
  <1>2. DOMAIN walk = Walkers /\ \A v \in Walkers : walk'[v] = IF v = w THEN new ELSE walk[v]
    BY <1>1 DEF PagesInv, PagesTypeOK
  <1>3. reader # w
    BY <1>1 DEF PagesInv, ListerHolds
  <1>4. reader' \in Walkers \cup {NoRow}
    BY <1>1 DEF PagesInv, PagesTypeOK
  <1>5. CASE new = NewWalk("idle")
    <2>1. new \in Walk /\ Cardinality(new.page) <= MaxPageSize
      BY <1>5, NewWalkType
    <2>2. new.pc = "idle"
      BY <1>5 DEF NewWalk
    <2> HIDE DEF new
    <2>3. Walking(w)'
      BY <1>2, <1>5, Resting
    <2>4. \A v \in Walkers : walk'[v].pc \in {"count", "page"} <=> reader' = v
      BY <1>1, <1>2, <1>3, <2>2 DEF PagesInv, ListerHolds
    <2> QED
      BY <1>1, <1>4, <2>1, <2>3, <2>4, Moves
  <1>6. CASE new = fresh /\ ~(PageSize(size) < 1)
    <2> HIDE DEF still
    <2>1. PageSize(size) \in 1..MaxPageSize /\ PageSize(size) \in Int
      <3>1. PageSize(size) >= 1
        BY <1>6 DEF PagesAssumption, PageSize
      <3> QED
        BY <3>1, PageSizes
    <2>2. still \in SUBSET TaskIds /\ NewWalk("begin") \in Walk
      BY NewWalkType DEF still
    <2>3. /\ new \in Walk /\ new.pc = "begin" /\ new.size = PageSize(size)
          /\ new.filter = filter /\ new.cursor = NoRow /\ new.page = {} /\ new.seen = {}
          /\ new.again = {} /\ new.still = still
      BY <1>6, <2>1, <2>2 DEF Walk, NewWalk
    <2>4. Cardinality(new.page) <= MaxPageSize
      <3>1. new.page = {}
        BY <2>3
      <3>2. Cardinality({}) = 0 /\ MaxPageSize \in Nat
        BY FS_EmptySet, Numbers
      <3> HIDE DEF new
      <3> QED
        BY <3>1, <3>2
    <2> HIDE DEF new
    <2>5. walk'[w] = new
      BY <1>2
    <2>6. \A i \in still : i \in Matching(w)' /\ PastCursor(i, NoRow)'
      BY <1>1, <2>3, <2>5 DEF still, Matching, Mine, PastCursor
    <2>7. Walking(w)'
      <3>1. Sized(w)' /\ Counted(w)' /\ Tokened(w)' /\ Exactly(w)'
        BY <2>1, <2>3, <2>5 DEF Sized, Counted, Tokened, Exactly
      <3>2. Ahead(w)'
        BY <2>3, <2>5, <2>6 DEF Ahead, PastCursor
      <3>3. Behind(w)'
        BY <2>3, <2>5 DEF Behind
      <3> QED
        BY <3>1, <3>2, <3>3 DEF Walking
    <2>8. \A v \in Walkers : walk'[v].pc \in {"count", "page"} <=> reader' = v
      BY <1>1, <1>2, <1>3, <2>3 DEF PagesInv, ListerHolds
    <2> QED
      BY <1>1, <1>4, <2>3, <2>4, <2>7, <2>8, Moves
  <1> QED
    BY <1>5, <1>6

\* The client waits, asks for another page, takes the lock or counts: only where it
\* is, the size, the count and the lock change.
LEMMA GoOn ==
  ASSUME PagesAssumption, PagesInv, NEW w \in Walkers,
         NEW pc \in {"begin", "count", "page"}, NEW size \in 1..MaxPageSize, NEW total \in Nat,
         walk[w].pc \in {"begin", "count", "token"},
         walk' = [walk EXCEPT ![w] = [@ EXCEPT !.pc = pc, !.size = size, !.total = total]],
         rows' = rows, clock' = clock, stepped' = stepped,
         reader' \in Walkers \cup {NoRow},
         \A v \in Walkers \ {w} : reader' = v <=> reader = v,
         pc \in {"count", "page"} <=> reader' = w,
         pc = "page" => total = Cardinality(Matching(w))
  PROVE  PagesInv'
  <1> DEFINE new == [walk[w] EXCEPT !.pc = pc, !.size = size, !.total = total]
  <1>1. walk[w] \in Walk /\ Cardinality(walk[w].page) <= MaxPageSize
    BY WalkType DEF PagesInv
  <1>2. /\ new \in Walk /\ new.pc = pc /\ new.size = size /\ new.total = total
        /\ new.filter = walk[w].filter /\ new.cursor = walk[w].cursor
        /\ new.page = walk[w].page /\ new.seen = walk[w].seen
        /\ new.again = walk[w].again /\ new.still = walk[w].still
    <2>1. MaxPageSize \in Nat
      BY Numbers
    <2>2. size \in Int
      BY <2>1
    <2> QED
      BY <1>1, <2>2 DEF Walk
  <1>3. walk' = [walk EXCEPT ![w] = new]
    OBVIOUS
  <1> HIDE DEF new
  <1>4. \A v \in Walkers : walk'[v] = IF v = w THEN new ELSE walk[v]
    BY <1>3 DEF PagesInv, PagesTypeOK
  <1>5. walk'[w] = new
    BY <1>4
  <1>6. Matching(w)' = Matching(w)
    BY <1>2, <1>5 DEF Matching, Mine
  <1>7. Walking(w)
    BY DEF PagesInv
  <1>8. walk[w].pc \in Listing /\ pc \in Listing
    BY DEF Listing
  <1>9. \A i \in TaskIds : PastCursor(i, walk[w].cursor)' <=> PastCursor(i, walk[w].cursor)
    BY <1>2, <1>5 DEF PastCursor, Key
  <1>10. walk[w].still \subseteq TaskIds /\ walk[w].seen \subseteq TaskIds
    BY WalkType DEF PagesInv
  <1>11. Walking(w)'
    <2>1. Sized(w)' /\ Counted(w)' /\ Tokened(w)' /\ Exactly(w)'
      BY <1>2, <1>5, <1>6, <1>7, <1>8 DEF Walking, Sized, Counted, Tokened, Exactly
    <2>2. Ahead(w)'
      BY <1>2, <1>5, <1>6, <1>7, <1>8, <1>9, <1>10 DEF Walking, Ahead
    <2>3. Behind(w)'
      <3>1. \A i : Stored(i)' <=> Stored(i)
        BY DEF Stored
      <3> QED
        BY <1>2, <1>5, <1>7, <1>8, <1>9, <1>10, <3>1 DEF Walking, Behind
    <2> QED
      BY <2>1, <2>2, <2>3 DEF Walking
  <1>12. \A v \in Walkers : walk'[v].pc \in {"count", "page"} <=> reader' = v
    BY <1>2, <1>4 DEF PagesInv, ListerHolds
  <1>13. Cardinality(new.page) <= MaxPageSize
    BY <1>1, <1>2
  <1> QED
    BY <1>2, <1>3, <1>11, <1>12, <1>13, Moves

LEMMA ListOnKeeps ==
  ASSUME PagesAssumption, PagesInv, NEW w \in Walkers, NEW size \in RequestSizes, ListOn(w, size)
  PROVE  PagesInv'
  <1>1. /\ walk[w].pc = "token" /\ PageSize(size) \in 1..MaxPageSize
        /\ walk' = [walk EXCEPT ![w].pc = "begin", ![w].size = PageSize(size)]
        /\ rows' = rows /\ clock' = clock /\ stepped' = stepped /\ reader' = reader
    BY PageSizes DEF ListOn
  <1>2. walk[w] \in Walk /\ DOMAIN walk = Walkers /\ walk[w].total \in Nat
    BY WalkType DEF PagesInv
  <1>3. walk' = [walk EXCEPT ![w] =
          [@ EXCEPT !.pc = "begin", !.size = PageSize(size), !.total = walk[w].total]]
    BY <1>1, <1>2 DEF Walk
  <1>4. reader # w /\ reader \in Walkers \cup {NoRow}
    BY <1>1 DEF PagesInv, ListerHolds, PagesTypeOK
  <1> QED
    BY <1>1, <1>2, <1>3, <1>4, GoOn

LEMMA BeginKeeps ==
  ASSUME PagesAssumption, PagesInv, NEW w \in Walkers, BeginList(w)
  PROVE  PagesInv'
  <1>1. /\ walk[w].pc = "begin" /\ reader = NoRow /\ reader' = w
        /\ walk' = [walk EXCEPT ![w].pc = "count"]
        /\ rows' = rows /\ clock' = clock /\ stepped' = stepped
    BY DEF BeginList
  <1>2. walk[w] \in Walk /\ DOMAIN walk = Walkers /\ walk[w].total \in Nat
    BY WalkType DEF PagesInv
  <1>3. walk[w].size \in 1..MaxPageSize
    BY <1>1 DEF PagesInv, Walking, Sized, Listing
  <1>4. walk' = [walk EXCEPT ![w] =
          [@ EXCEPT !.pc = "count", !.size = walk[w].size, !.total = walk[w].total]]
    BY <1>1, <1>2 DEF Walk
  <1>5. \A v \in Walkers \ {w} : reader' = v <=> reader = v
    BY <1>1 DEF PagesAssumption
  <1>6. reader' \in Walkers \cup {NoRow} /\ walk[w].pc \in {"begin", "count", "token"}
    BY <1>1
  <1>7. rows' = rows /\ clock' = clock /\ stepped' = stepped /\ reader' = w
    BY <1>1
  <1>8. walk[w].total \in Nat
    BY <1>2
  <1> QED
    BY <1>3, <1>4, <1>5, <1>6, <1>7, <1>8, GoOn

LEMMA CountKeeps ==
  ASSUME PagesAssumption, PagesInv, NEW w \in Walkers, CountTasks(w)
  PROVE  PagesInv'
  <1>1. /\ walk[w].pc = "count"
        /\ walk' = [walk EXCEPT ![w].pc = "page", ![w].total = Cardinality(Matching(w))]
        /\ rows' = rows /\ clock' = clock /\ stepped' = stepped /\ reader' = reader
    BY DEF CountTasks
  <1>2. walk[w] \in Walk /\ DOMAIN walk = Walkers
    BY WalkType DEF PagesInv
  <1>3. walk[w].size \in 1..MaxPageSize
    BY <1>1 DEF PagesInv, Walking, Sized, Listing
  <1>4. Cardinality(Matching(w)) \in Nat
    BY PastStored, Finite
  <1>5. walk' = [walk EXCEPT ![w] =
          [@ EXCEPT !.pc = "page", !.size = walk[w].size, !.total = Cardinality(Matching(w))]]
    BY <1>1, <1>2 DEF Walk
  <1>6. reader = w
    BY <1>1 DEF PagesInv, ListerHolds
  <1> QED
    BY <1>1, <1>3, <1>4, <1>5, <1>6, GoOn

LEMMA FailKeeps ==
  ASSUME PagesAssumption, PagesInv, NEW w \in Walkers, FailList(w)
  PROVE  PagesInv'
  <1>1. /\ walk' = [walk EXCEPT ![w] = NewWalk("idle")]
        /\ reader' = IF reader = w THEN NoRow ELSE reader
        /\ rows' = rows /\ clock' = clock /\ stepped' = stepped
    BY DEF FailList
  <1>2. \A v \in Walkers : walk'[v] = IF v = w THEN NewWalk("idle") ELSE walk[v]
    BY <1>1 DEF PagesInv, PagesTypeOK
  <1>3. reader' \in Walkers \cup {NoRow}
    BY <1>1 DEF PagesInv, PagesTypeOK
  <1>4. NewWalk("idle").pc = "idle"
    BY DEF NewWalk
  <1>5. \A v \in Walkers : walk'[v].pc \in {"count", "page"} <=> reader' = v
    BY <1>1, <1>2, <1>4 DEF PagesInv, ListerHolds, PagesAssumption
  <1>6. Walking(w)'
    BY <1>2, Resting
  <1> QED
    BY <1>1, <1>3, <1>5, <1>6, NewWalkType, Moves

\* A page is shown.
LEMMA ListTasksKeeps ==
  ASSUME PagesAssumption, PagesInv, NEW w \in Walkers, ListTasks(w)
  PROVE  PagesInv'
  <1> DEFINE n == walk[w].size
             page == PageOf(w, n)
             more == PageOf(w, n + 1) # page
             last == CHOOSE i \in page : \A j \in page \ {i} : Below(Key(i), Key(j))
             new == [walk[w] EXCEPT !.pc = IF more THEN "token" ELSE "done",
                       !.cursor = IF more THEN Key(last) ELSE @,
                       !.page = page,
                       !.seen = @ \cup page,
                       !.again = @ \cup (walk[w].seen \cap page)]
  <1>1. /\ walk[w].pc = "page" /\ reader' = NoRow
        /\ walk' = [walk EXCEPT ![w] = new]
        /\ rows' = rows /\ clock' = clock /\ stepped' = stepped
    BY DEF ListTasks
  <1>2. PagesTypeOK /\ Walking(w) /\ walk[w].pc \in Listing /\ n \in 1..MaxPageSize
    BY <1>1 DEF PagesInv, Walking, Sized, Listing
  <1>3. n \in Nat /\ n >= 1 /\ n <= MaxPageSize /\ MaxPageSize \in Nat
    BY <1>2, Numbers
  <1>4. /\ page \in SUBSET StoredIds /\ page \subseteq Past(w) /\ page \subseteq TaskIds
        /\ Cardinality(page) \in Nat /\ Cardinality(page) <= MaxPageSize
    <2>1. page \in SUBSET StoredIds /\ Cardinality(page) \in Nat /\ Cardinality(page) <= n
      BY <1>2, <1>3, PageFits
    <2>2. page \subseteq Past(w)
      BY RowsAre
    <2> QED
      BY <1>3, <2>1, <2>2 DEF StoredIds
  <1>5. ASSUME more PROVE last \in page /\ \A j \in page \ {last} : Under(last, j)
    <2>1. page # {}
      BY <1>2, <1>3, <1>5, MorePages
    <2> HIDE DEF page
    <2>2. \E i \in page : \A j \in page \ {i} : Below(Key(i), Key(j))
      BY <1>2, <1>4, <2>1, Lowest DEF Under
    <2> QED
      BY <2>2 DEF Under
  <1>6. more => /\ Key(last) \in [updated: 0..MaxTime, id: TaskIds] /\ Key(last) # NoRow
                /\ Key(last).updated = rows[last].updated
    BY <1>2, <1>4, <1>5, KeyType
  <1>7. ~more => page = Past(w)
    BY <1>2, <1>3, LastPage
  <1>8. more => Cardinality(page) < Cardinality(Matching(w))
    BY <1>2, <1>3, MorePages
  <1>9. more => \A i \in Past(w) \ page : Under(i, last)
    BY <1>2, <1>3, <1>5, PageIsPrefix
  <1>10. /\ new \in Walk
         /\ new.pc = (IF more THEN "token" ELSE "done")
         /\ new.cursor = (IF more THEN Key(last) ELSE walk[w].cursor)
         /\ new.page = page /\ new.seen = walk[w].seen \cup page
         /\ new.again = walk[w].again \cup (walk[w].seen \cap page)
         /\ new.still = walk[w].still /\ new.filter = walk[w].filter
         /\ new.size = walk[w].size /\ new.total = walk[w].total
    <2> HIDE DEF page, more, last
    <2>1. walk[w] \in Walk
      BY <1>2, WalkType
    <2> QED
      BY <1>4, <1>6, <2>1 DEF Walk
  <1> HIDE DEF new, page, more, last
  <1>11. \A v \in Walkers : walk'[v] = IF v = w THEN new ELSE walk[v]
    BY <1>1, <1>2 DEF PagesTypeOK
  <1>12. walk'[w] = new
    BY <1>11
  <1>13. walk[w].seen \subseteq TaskIds /\ walk[w].still \subseteq TaskIds
    BY <1>2, WalkType
  \* Past the cursor nothing was shown yet that was left alone, or at all unless the
  \* clock was set back.
  <1>14. ASSUME NEW i \in walk[w].seen \cap page PROVE i \notin walk[w].still /\ stepped
    <2>1. PastCursor(i, walk[w].cursor)
      BY <1>4, <1>14 DEF Past
    <2> QED
      BY <1>2, <1>14, <2>1 DEF Walking, Behind
  <1>15. Exactly(w)'
    <2>1. Exactly(w)
      BY <1>2 DEF Walking
    <2>2. ~more => walk[w].still \subseteq walk[w].seen \cup page
      BY <1>2, <1>7 DEF Walking, Ahead, Past
    <2>3. new.again \cap walk[w].still = {} /\ (~stepped => new.again = {})
      BY <1>10, <1>14, <2>1 DEF Exactly
    <2>4. walk[w].total = Cardinality(Matching(w)) /\ Cardinality(Matching(w)) \in Nat
      BY <1>1, <1>2, PastStored, Finite DEF Walking, Counted
    <2>5. ~more /\ walk[w].cursor = NoRow => walk[w].total = Cardinality(page)
      <3>1. walk[w].cursor = NoRow => Past(w) = Matching(w)
        BY DEF Past, PastCursor
      <3> QED
        BY <1>7, <2>4, <3>1
    <2>6. more => walk[w].total > Cardinality(page)
      BY <1>4, <1>8, <2>4
    <2> QED
      BY <1>1, <1>10, <1>12, <2>2, <2>3, <2>5, <2>6 DEF Exactly
  <1>16. Walking(w)'
    <2>1. CASE ~more
      BY <1>10, <1>12, <1>15, <2>1
        DEF Walking, Sized, Counted, Ahead, Behind, Tokened, Listing
    <2>2. CASE more
      <3>1. /\ walk'[w].pc = "token" /\ walk'[w].cursor = Key(last) /\ last \in StoredIds
            /\ walk'[w].seen = walk[w].seen \cup page /\ walk'[w].still = walk[w].still
            /\ walk'[w].filter = walk[w].filter /\ walk'[w].size = walk[w].size
        BY <1>4, <1>5, <1>10, <1>12, <2>2
      <3>2. ASSUME NEW i PROVE PastCursor(i, walk[w].cursor)' <=> Under(i, last)
        BY <1>1, <1>6, <2>2, <3>1 DEF PastCursor, Under, Key
      <3>3. Matching(w)' = Matching(w)
        BY <1>1, <3>1 DEF Matching, Mine
      <3>4. Sized(w)' /\ Counted(w)'
        BY <1>2, <3>1 DEF Sized, Counted
      <3>5. Ahead(w)'
        <4> SUFFICES ASSUME NEW i \in walk[w].still
                     PROVE  /\ i \in Matching(w)
                            /\ i \in walk[w].seen \cup page \/ Under(i, last)
          BY <3>1, <3>2, <3>3 DEF Ahead
        <4>1. /\ i \in Matching(w)
              /\ i \in walk[w].seen \/ PastCursor(i, walk[w].cursor)
          BY <1>2 DEF Walking, Ahead
        <4> QED
          BY <1>9, <2>2, <4>1 DEF Past
      <3>6. Behind(w)'
        <4> SUFFICES ASSUME NEW i \in walk[w].seen \cup page
                     PROVE  /\ Stored(i)
                            /\ i \in walk[w].still \/ ~stepped => ~Under(i, last)
          BY <1>1, <1>6, <2>2, <3>1, <3>2 DEF Behind, Stored
        <4>1. CASE i \in page
          <5>1. i \in StoredIds /\ Stored(i)
            BY <1>4, <4>1 DEF StoredIds
          <5>2. i = last \/ Under(last, i)
            BY <1>5, <2>2, <4>1
          <5> QED
            BY <1>2, <3>1, <5>1, <5>2, UnderOrder
        <4>2. CASE i \in walk[w].seen
          <5>1. Stored(i) /\ (i \in walk[w].still \/ ~stepped => ~PastCursor(i, walk[w].cursor))
            BY <1>2, <4>2 DEF Walking, Behind
          <5>2. i \in StoredIds
            BY <1>13, <4>2, <5>1 DEF StoredIds
          <5>3. ASSUME ~PastCursor(i, walk[w].cursor), Under(i, last) PROVE FALSE
            <6> DEFINE c == walk[w].cursor
            <6>1. c # NoRow /\ ~Below(Key(i), c)
              BY <5>3 DEF PastCursor
            <6>2. PastCursor(last, c)
              BY <1>4, <1>5, <2>2 DEF Past
            <6>3. Below(Key(last), c)
              BY <6>1, <6>2 DEF PastCursor
            <6>4. /\ c \in [updated: 0..MaxTime, id: TaskIds]
                  /\ Key(i) \in [updated: 0..MaxTime, id: TaskIds]
                  /\ Key(last) \in [updated: 0..MaxTime, id: TaskIds]
              BY <1>2, <1>6, <2>2, <5>2, <6>1, KeyType, WalkType
            <6> HIDE DEF c
            <6> QED
              BY <5>3, <6>1, <6>3, <6>4, Order DEF Under
          <5> QED
            BY <5>1, <5>3
        <4> QED
          BY <4>1, <4>2
      <3>7. Tokened(w)'
        <4>1. ~stepped => rows[last].updated <= clock
          BY <3>1 DEF PagesInv, Stamped, StoredIds
        <4> QED
          BY <1>1, <1>6, <2>2, <3>1, <4>1 DEF Tokened
      <3> QED
        BY <1>15, <3>4, <3>5, <3>6, <3>7 DEF Walking
    <2> QED
      BY <2>1, <2>2
  <1>17. \A v \in Walkers : walk'[v].pc \in {"count", "page"} <=> reader' = v
    <2>1. reader = w /\ reader' \notin Walkers
      BY <1>1 DEF PagesInv, ListerHolds, PagesAssumption
    <2> QED
      BY <1>10, <1>11, <2>1 DEF PagesInv, ListerHolds
  <1>18. Cardinality(new.page) <= MaxPageSize
    BY <1>4, <1>10
  <1> QED
    BY <1>1, <1>10, <1>16, <1>17, <1>18, Moves

-----------------------------------------------------------------------------
(* The theorems *)

\* Nothing is stored, and nobody lists anything.
LEMMA InitPages == ASSUME PagesAssumption PROVE PagesInit => PagesInv
  <1> SUFFICES ASSUME PagesInit PROVE PagesInv
    OBVIOUS
  <1>1. /\ rows = [i \in TaskIds |-> NoRow] /\ clock = 0 /\ stepped = FALSE /\ reader = NoRow
        /\ \A w \in Walkers : walk[w] = NewWalk("idle")
        /\ walk = [w \in Walkers |-> NewWalk("idle")]
    BY DEF PagesInit
  <1>2. NewWalk("idle").pc = "idle" /\ NewWalk("idle").again = {}
    BY DEF NewWalk
  <1>3. PagesTypeOK
    <2>1. rows \in [TaskIds -> Row \cup {NoRow}] /\ walk \in [Walkers -> Walk]
      BY <1>1, NewWalkType
    <2>2. clock \in 0..MaxTime
      BY <1>1, Numbers
    <2>3. stepped \in BOOLEAN /\ reader \in Walkers \cup {NoRow}
      BY <1>1
    <2>4. \A w \in Walkers : Cardinality(walk[w].page) <= MaxPageSize
      BY <1>1, NewWalkType
    <2> QED
      BY <2>1, <2>2, <2>3, <2>4 DEF PagesTypeOK
  <1>4. ListerHolds
    BY <1>1, <1>2 DEF ListerHolds, PagesAssumption
  <1>5. Stamped
    BY <1>1 DEF Stamped, Stored
  <1>6. ASSUME NEW w \in Walkers PROVE Walking(w)
    BY <1>1, <1>2
      DEF Walking, Sized, Counted, Ahead, Behind, Tokened, Exactly, Listing
  <1> QED
    BY <1>3, <1>4, <1>5, <1>6 DEF PagesInv

LEMMA NextPages == ASSUME PagesAssumption PROVE PagesInv /\ [PagesNext]_pagesVars => PagesInv'
  <1> SUFFICES ASSUME PagesInv, [PagesNext]_pagesVars PROVE PagesInv'
    OBVIOUS
  <1>1. ASSUME NEW i \in TaskIds, NEW kind \in Kinds, Create(i, kind) \/ Update(i, kind)
        PROVE  PagesInv'
    BY <1>1, StampKeeps DEF Create, Update
  <1>2. CASE Tick \/ StepBack
    BY <1>2, ClockKeeps
  <1>3. ASSUME NEW w \in Walkers, NEW filter \in Filters, NEW size \in RequestSizes,
               List(w, filter, size)
        PROVE  PagesInv'
    BY <1>3, ListKeeps
  <1>4. ASSUME NEW w \in Walkers, ProceedList(w) PROVE PagesInv'
    BY <1>4, ListOnKeeps, BeginKeeps, CountKeeps, ListTasksKeeps DEF ProceedList
  <1>5. ASSUME NEW w \in Walkers, FailList(w) PROVE PagesInv'
    BY <1>5, FailKeeps
  <1>6. CASE UNCHANGED pagesVars
    <2>1. rows' = rows /\ clock' = clock /\ stepped' = stepped /\ reader' = reader /\ walk' = walk
      BY <1>6 DEF pagesVars
    <2>2. \A w \in Walkers : Walking(w)'
      BY <2>1, Stands DEF PagesInv
    <2> QED
      BY <2>1, <2>2 DEF PagesInv, PagesTypeOK, ListerHolds, Stamped, Stored
  <1> QED
    BY <1>1, <1>2, <1>3, <1>4, <1>5, <1>6 DEF PagesNext

\* The invariant above holds of every reachable state: of what was left alone
\* nothing is lost, of what was shown nothing is ahead (TaskStore.List).
THEOREM PagesInductive == PagesAssumption => (PagesSpec => []PagesInv)
  <1> SUFFICES ASSUME PagesAssumption PROVE PagesSpec => []PagesInv
    OBVIOUS
  <1>1. PagesInit => PagesInv
    BY InitPages
  <1>2. PagesInv /\ [PagesNext]_pagesVars => PagesInv'
    BY NextPages
  <1> QED
    BY <1>1, <1>2, PTL DEF PagesSpec

\* Every variable keeps its type, and no page is longer than the largest allowed.
THEOREM PagesTypeCorrect == PagesAssumption => (PagesSpec => []PagesTypeOK)
  <1>1. PagesInv => PagesTypeOK
    BY DEF PagesInv
  <1> QED
    BY <1>1, PagesInductive, PTL

\* Whoever walks the pages of a list to their end was shown every task that matched
\* and was left alone, none of them twice, and no task twice unless the clock was set
\* back; TotalSize tells a list of one page from the first of several (TaskStore.List).
THEOREM Exact == PagesAssumption => (PagesSpec => []WalksAreExact)
  <1>1. PagesInv => WalksAreExact
    BY DEF PagesInv, Walking, Exactly, WalksAreExact, NothingMissed, NoneTwice, TotalDescribesPage
  <1> QED
    BY <1>1, PagesInductive, PTL
=============================================================================
