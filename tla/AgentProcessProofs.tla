------------------------- MODULE AgentProcessProofs -------------------------
(***************************************************************************)
(* The agent's own parts: its processes, the configuration they load and   *)
(* the guardrails around the calls of a session. They share no state; each *)
(* of the last two has the argument of its proof at its head, below.       *)
(*                                                                         *)
(* The processes, for any number of them over one directory, any kinds,    *)
(* restarts, requests and databases found, with a failure or a kill at     *)
(* every step.                                                             *)
(*                                                                         *)
(* What a process releases is fixed where it turns to leave; from then on  *)
(* what it has released and what it has left are together one of four      *)
(* plans (Sane), in each of which the telemetry is last, and which has it  *)
(* if it is held. A process with requests under way serves, drains or was  *)
(* forced out (Served), so an orderly way out meets none. Up to the        *)
(* preflight a start's changes are harmless ones (Histories). For          *)
(* readiness: what a probe has passed without a problem was in order since *)
(* it came (Looked), and the dataset of a torn generation is torn until    *)
(* somebody has recovered it, which comes before the dataset is prepared   *)
(* (Generation).                                                           *)
(***************************************************************************)
EXTENDS AgentProcess, Settings, Guardrails, SequenceTheorems, FiniteSetTheorems,
        WellFoundedInduction, TLAPS

\* Before it installs telemetry.
Bare == {"idle", "recover", "assemble", "telemetry"}
Leaving == {"unwind", "exited"}

Parts == {"telemetry", "sessions", "tasks"}

\* The releases of every way out.
Plans == {<<>>, <<"telemetry">>, <<"sessions", "telemetry">>, <<"tasks", "sessions", "telemetry">>}

\* What a process is, by itself.
Sane(s) ==
  /\ s.refused => s.pc \in Leaving
  /\ s.pc \in Bare => s.held = {}
  /\ s.pc \notin Leaving => s.released = <<>>
  /\ s.pc # "unwind" => s.release = <<>>
  /\ s.released \o s.release \in Plans
  /\ s.pc \in Leaving /\ "telemetry" \in s.held =>
       \E i \in DOMAIN s.release : s.release[i] = "telemetry"

\* A process with requests under way serves them, drains, or was forced to leave.
Answering(s) == s.pc \in {"serving", "draining"} \/ (s.pc = "unwind" /\ s.abandoned)
Served == \A p \in Processes : InFlight(p) # {} => Answering(proc[p])

Types ==
  /\ backend \in {"sqlite", "postgres"}
  /\ kind \in [Processes -> {"a2a", "launcher", "mcp", "stdio"}]
  /\ disk \in [journal: BOOLEAN, db: [Databases -> Content]]
  /\ proc \in [Processes -> Process]
  /\ request \in [Requests -> Request]

IndInv == Types /\ Served /\ CutOnlyByForce /\ \A p \in Processes : Sane(proc[p])

Disk == [journal: BOOLEAN, db: [Databases -> Content]]

-----------------------------------------------------------------------------
(* Plans *)

LEMMA PlanFacts ==
  ASSUME NEW plan \in Plans
  PROVE  /\ plan \in Seq(Parts)
         /\ \A i, j \in DOMAIN plan : plan[i] = plan[j] => i = j
         /\ \A i \in DOMAIN plan : plan[i] = "telemetry" => i = Len(plan)
         /\ plan # <<>> => \E i \in DOMAIN plan : plan[i] = "telemetry"
         /\ <<>> \o plan = plan
  <1>1. CASE plan = <<>>
    BY <1>1 DEF Parts
  <1>2. CASE plan = <<"telemetry">>
    BY <1>2 DEF Parts
  <1>3. CASE plan = <<"sessions", "telemetry">>
    BY <1>3 DEF Parts
  <1>4. CASE plan = <<"tasks", "sessions", "telemetry">>
    BY <1>4 DEF Parts
  <1> QED
    BY <1>1, <1>2, <1>3, <1>4 DEF Plans

\* A release moves the first of what is left to the end of what was released.
LEMMA Shift ==
  ASSUME NEW done \in Seq(Parts), NEW left \in Seq(Parts), left # <<>>
  PROVE  /\ Append(done, Head(left)) \in Seq(Parts) /\ Tail(left) \in Seq(Parts)
         /\ Append(done, Head(left)) \o Tail(left) = done \o left
         /\ Head(left) = left[1] /\ 1 \in DOMAIN left
         /\ \A i \in DOMAIN left : i # 1 =>
              i - 1 \in DOMAIN Tail(left) /\ Tail(left)[i - 1] = left[i]
  OBVIOUS

\* What was released of a plan is the beginning of it.
LEMMA Prefix ==
  ASSUME NEW done \in Seq(Parts), NEW left \in Seq(Parts), done \o left \in Plans
  PROVE  /\ \A i, j \in DOMAIN done : done[i] = done[j] => i = j
         /\ \A i \in DOMAIN done : done[i] = "telemetry" => i = Len(done)
  <1> DEFINE plan == done \o left
  <1>1. /\ Len(plan) = Len(done) + Len(left)
        /\ Len(done) \in Nat /\ Len(left) \in Nat
        /\ DOMAIN done = 1..Len(done)
        /\ \A i \in DOMAIN done : i \in DOMAIN plan /\ plan[i] = done[i]
    OBVIOUS
  <1>2. /\ \A i, j \in DOMAIN plan : plan[i] = plan[j] => i = j
        /\ \A i \in DOMAIN plan : plan[i] = "telemetry" => i = Len(plan)
    BY PlanFacts
  <1> HIDE DEF plan
  <1>3. \A i, j \in DOMAIN done : done[i] = done[j] => i = j
    BY <1>1, <1>2
  <1>4. ASSUME NEW i \in DOMAIN done, done[i] = "telemetry" PROVE i = Len(done)
    <2>1. i = Len(plan) /\ i \in 1..Len(done)
      BY <1>1, <1>2, <1>4
    <2>2. Len(plan) = Len(done) + Len(left) /\ Len(done) \in Nat /\ Len(left) \in Nat
      BY <1>1
    <2> QED
      BY <2>1, <2>2
  <1> QED
    BY <1>3, <1>4

-----------------------------------------------------------------------------
(* Steps of a process *)

LEMMA ProcType ==
  ASSUME IndInv, NEW p \in Processes
  PROVE  /\ proc[p] \in Process /\ DOMAIN proc = Processes /\ Sane(proc[p])
         /\ kind[p] \in {"a2a", "launcher", "mcp", "stdio"}
         /\ disk \in Disk
  BY DEF IndInv, Types, Disk

\* What a step of one process must keep.
LEMMA Moves ==
  ASSUME IndInv, NEW p \in Processes, NEW new \in Process, Sane(new),
         InFlight(p) # {} => Answering(new),
         proc' = [proc EXCEPT ![p] = new], UNCHANGED Others, disk' \in Disk
  PROVE  IndInv'
  <1>1. \A q \in Processes : proc'[q] = IF q = p THEN new ELSE proc[q]
    BY DEF IndInv, Types
  <1>2. /\ backend' = backend /\ kind' = kind /\ request' = request
    BY DEF Others
  <1>3. Types'
    BY <1>2 DEF IndInv, Types, Disk
  <1>4. Served'
    BY <1>1, <1>2 DEF IndInv, Served, InFlight
  <1>5. CutOnlyByForce'
    BY <1>2 DEF IndInv, CutOnlyByForce
  <1>6. \A q \in Processes : Sane(proc'[q])
    BY <1>1 DEF IndInv
  <1> QED
    BY <1>3, <1>4, <1>5, <1>6 DEF IndInv

LEMMA Quiet ==
  ASSUME IndInv, NEW p \in Processes, proc[p].pc \notin {"serving", "draining", "unwind"}
  PROVE  InFlight(p) = {}
  BY DEF IndInv, Served, Answering

\* A process goes on.
LEMMA GoesOn ==
  ASSUME IndInv, NEW p \in Processes, proc[p].pc \notin Leaving,
         NEW pc, NEW held \in SUBSET Parts,
         pc \in {"recover", "assemble", "telemetry", "planes", "sessions", "wire", "start",
                 "preflight", "dataset", "migrate", "tasks", "handler", "listen", "serving",
                 "draining"},
         proc' = [proc EXCEPT ![p] = [@ EXCEPT !.pc = pc, !.held = held]],
         pc \in Bare => held = {},
         InFlight(p) = {} \/ pc \in {"serving", "draining"},
         UNCHANGED Others, disk' \in Disk
  PROVE  IndInv'
  <1> DEFINE s == proc[p]
             new == [s EXCEPT !.pc = pc, !.held = held]
  <1>1. s \in Process /\ Sane(s)
    BY ProcType
  <1>2. /\ new \in Process /\ new.pc = pc /\ new.held = held
        /\ new.release = s.release /\ new.released = s.released /\ new.refused = s.refused
    BY <1>1 DEF Process, Parts
  <1>3. proc' = [proc EXCEPT ![p] = new]
    OBVIOUS
  <1>4. pc \notin Leaving /\ pc # "unwind" /\ s.pc \notin Leaving /\ s.pc # "unwind"
    BY DEF Leaving
  <1> HIDE DEF new, s
  <1>5. Sane(new)
    BY <1>1, <1>2, <1>4 DEF Sane
  <1>6. InFlight(p) # {} => Answering(new)
    BY <1>2 DEF Answering
  <1> QED
    BY <1>2, <1>3, <1>5, <1>6, Moves

\* A process turns to leave: with a plan that has the telemetry if it is held, and by
\* force if there are requests under way.
LEMMA Leaves ==
  ASSUME IndInv, NEW p \in Processes, proc[p].pc \notin Leaving,
         NEW plan \in Plans, NEW code \in {"valid", "invalid"}, NEW held \in SUBSET Parts,
         NEW refused \in BOOLEAN, NEW abandoned \in BOOLEAN,
         proc' = [proc EXCEPT ![p] = [@ EXCEPT !.pc = "unwind", !.release = plan, !.code = code,
                    !.held = held, !.refused = refused, !.abandoned = abandoned]],
         "telemetry" \in held => plan # <<>>,
         InFlight(p) = {} \/ abandoned,
         UNCHANGED Others, disk' \in Disk
  PROVE  IndInv'
  <1> DEFINE s == proc[p]
             new == [s EXCEPT !.pc = "unwind", !.release = plan, !.code = code,
                       !.held = held, !.refused = refused, !.abandoned = abandoned]
  <1>1. s \in Process /\ Sane(s)
    BY ProcType
  <1>2. plan \in Seq(Parts) /\ <<>> \o plan = plan
        /\ (plan # <<>> => \E i \in DOMAIN plan : plan[i] = "telemetry")
    BY PlanFacts
  <1>3. /\ new \in Process /\ new.pc = "unwind" /\ new.held = held
        /\ new.release = plan /\ new.released = s.released /\ new.refused = refused
        /\ new.abandoned = abandoned
    BY <1>1, <1>2 DEF Process, Parts
  <1>4. proc' = [proc EXCEPT ![p] = new]
    OBVIOUS
  <1>5. s.pc \notin Leaving
    OBVIOUS
  <1>6. "unwind" \in Leaving /\ "unwind" \notin Bare
    BY DEF Leaving, Bare
  <1> HIDE DEF new, s
  <1>7. s.released = <<>>
    BY <1>1, <1>5 DEF Sane
  <1>8. new.released \o new.release = plan
    BY <1>2, <1>3, <1>7
  <1>9. Sane(new)
    BY <1>2, <1>3, <1>6, <1>7, <1>8 DEF Sane, s
  <1>10. InFlight(p) # {} => Answering(new)
    BY <1>3 DEF Answering
  <1> QED
    BY <1>3, <1>4, <1>9, <1>10, Moves

\* The steps below in the form of the two lemmas above.
LEMMA Forms ==
  ASSUME IndInv, NEW p \in Processes, NEW pc, Goto(p, pc)
  PROVE  proc' = [proc EXCEPT ![p] = [@ EXCEPT !.pc = pc, !.held = proc[p].held]]
  <1>1. proc[p] \in Process /\ DOMAIN proc = Processes
    BY ProcType
  <1> QED
    BY <1>1 DEF Goto, Process

LEMMA HoldForm ==
  ASSUME IndInv, NEW p \in Processes, NEW pc, NEW what, Hold(p, what, pc)
  PROVE  proc' = [proc EXCEPT ![p] = [@ EXCEPT !.pc = pc,
                   !.held = proc[p].held \cup {what}]]
  <1>1. proc[p] \in Process /\ DOMAIN proc = Processes
    BY ProcType
  <1> QED
    BY <1>1 DEF Hold, Process

LEMMA LeaveForm ==
  ASSUME IndInv, NEW p \in Processes, NEW plan, NEW ok, Leave(p, ok, plan)
  PROVE  \E code \in {"valid", "invalid"} :
           proc' = [proc EXCEPT ![p] =
                     [@ EXCEPT !.pc = "unwind", !.release = plan, !.code = code,
                        !.held = proc[p].held, !.refused = proc[p].refused,
                        !.abandoned = proc[p].abandoned]]
  <1>1. proc[p] \in Process /\ DOMAIN proc = Processes
    BY ProcType
  <1>2. PICK code \in {"valid", "invalid"} :
          proc' = [proc EXCEPT ![p].pc = "unwind", ![p].release = plan, ![p].code = code]
    BY DEF Leave
  <1> QED
    BY <1>1, <1>2 DEF Process

Starting == {"recover", "assemble", "telemetry", "planes", "sessions", "wire", "start",
             "preflight", "dataset", "migrate", "tasks", "handler", "listen"}

\* A step of the startup goes on ...
LEMMA Advance ==
  ASSUME IndInv, NEW p \in Processes, proc[p].pc \in Starting,
         NEW pc \in Starting \cup {"serving"}, Goto(p, pc),
         pc \in Bare => proc[p].pc \in Bare,
         UNCHANGED Others, disk' \in Disk
  PROVE  IndInv'
  <1>1. proc[p] \in Process /\ Sane(proc[p])
    BY ProcType
  <1>2. InFlight(p) = {} /\ proc[p].pc \notin Leaving
    BY Quiet DEF Starting, Leaving
  <1>3. proc[p].held \in SUBSET Parts
    BY <1>1 DEF Process, Parts
  <1>4. pc \in Bare => proc[p].held = {}
    BY <1>1 DEF Sane
  <1>5. proc' = [proc EXCEPT ![p] =
          [@ EXCEPT !.pc = pc, !.held = proc[p].held]]
    BY Forms
  <1>6. pc \in {"recover", "assemble", "telemetry", "planes", "sessions", "wire", "start",
                "preflight", "dataset", "migrate", "tasks", "handler", "listen", "serving",
                "draining"}
    BY DEF Starting
  <1> QED
    BY <1>2, <1>3, <1>4, <1>5, <1>6, GoesOn

\* ... or fails: with nothing to release before telemetry, and with it afterwards.
LEMMA Abort ==
  ASSUME IndInv, NEW p \in Processes,
         proc[p].pc \in Starting \cup {"draining"}, InFlight(p) = {},
         NEW plan \in Plans, NEW ok \in BOOLEAN, Leave(p, ok, plan),
         plan = <<>> => proc[p].pc \in Bare,
         UNCHANGED Others, disk' \in Disk
  PROVE  IndInv'
  <1>1. proc[p] \in Process /\ Sane(proc[p])
    BY ProcType
  <1>2. proc[p].pc \notin Leaving
    BY DEF Starting, Leaving
  <1>3. /\ proc[p].held \in SUBSET Parts /\ proc[p].refused \in BOOLEAN
        /\ proc[p].abandoned \in BOOLEAN
    BY <1>1 DEF Process, Parts
  <1>4. "telemetry" \in proc[p].held => plan # <<>>
    BY <1>1 DEF Sane
  <1>5. PICK code \in {"valid", "invalid"} :
          proc' = [proc EXCEPT ![p] =
                    [@ EXCEPT !.pc = "unwind", !.release = plan, !.code = code,
                       !.held = proc[p].held, !.refused = proc[p].refused,
                       !.abandoned = proc[p].abandoned]]
    BY LeaveForm
  <1> QED
    BY <1>2, <1>3, <1>4, <1>5, Leaves

LEMMA SomePlans ==
  ASSUME NEW p \in Processes
  PROVE  /\ <<>> \in Plans /\ <<"telemetry">> \in Plans /\ <<"sessions", "telemetry">> \in Plans
         /\ CloseAndFlush(p) \in Plans /\ CloseAndFlush(p) # <<>>
         /\ <<"telemetry">> # <<>> /\ <<"sessions", "telemetry">> # <<>>
  <1>1. /\ <<>> \in Seq(Parts) /\ <<"sessions">> \in Seq(Parts)
        /\ <<"tasks", "sessions">> \in Seq(Parts) /\ "telemetry" \in Parts
    BY DEF Parts
  <1>2. /\ <<>> \o <<"telemetry">> = Append(<<>>, "telemetry")
        /\ <<"sessions">> \o <<"telemetry">> = Append(<<"sessions">>, "telemetry")
        /\ <<"tasks", "sessions">> \o <<"telemetry">> = Append(<<"tasks", "sessions">>, "telemetry")
    BY <1>1, AppendIsConcat
  <1>3. Append(<<>>, "telemetry") = <<"telemetry">>
    OBVIOUS
  <1>4. Append(<<"sessions">>, "telemetry") = <<"sessions", "telemetry">>
    <2> DEFINE s == Append(<<"sessions">>, "telemetry")
               t == <<"sessions", "telemetry">>
    <2>1. /\ s \in Seq(Parts) /\ Len(s) = 2 /\ s[1] = "sessions" /\ s[2] = "telemetry"
          /\ t \in Seq(Parts) /\ Len(t) = 2 /\ t[1] = "sessions" /\ t[2] = "telemetry"
      BY <1>1, AppendProperties DEF Parts
    <2>2. \A i \in 1..2 : i = 1 \/ i = 2
      OBVIOUS
    <2> HIDE DEF s, t
    <2>3. Len(s) = Len(t) /\ \A i \in 1..Len(s) : s[i] = t[i]
      BY <2>1, <2>2
    <2>4. s = t
      BY <2>1, <2>3, SeqEqual
    <2> QED
      BY <2>4 DEF s, t
  <1>5. Append(<<"tasks", "sessions">>, "telemetry") = <<"tasks", "sessions", "telemetry">>
    <2> DEFINE s == Append(<<"tasks", "sessions">>, "telemetry")
               t == <<"tasks", "sessions", "telemetry">>
    <2>1. /\ s \in Seq(Parts) /\ Len(s) = 3
          /\ s[1] = "tasks" /\ s[2] = "sessions" /\ s[3] = "telemetry"
      BY <1>1, AppendProperties DEF Parts
    <2>2. /\ t \in Seq(Parts) /\ Len(t) = 3
          /\ t[1] = "tasks" /\ t[2] = "sessions" /\ t[3] = "telemetry"
      BY DEF Parts
    <2>3. \A i \in 1..3 : i = 1 \/ i = 2 \/ i = 3
      OBVIOUS
    <2> HIDE DEF s, t
    <2>4. Len(s) = Len(t) /\ \A i \in 1..Len(s) : s[i] = t[i]
      BY <2>1, <2>2, <2>3
    <2>5. s = t
      BY <2>1, <2>2, <2>4, SeqEqual
    <2> QED
      BY <2>5 DEF s, t
  <1>6. CloseAndFlush(p) \in {<<"telemetry">>, <<"sessions", "telemetry">>,
                              <<"tasks", "sessions", "telemetry">>}
    BY <1>2, <1>3, <1>4, <1>5 DEF CloseAndFlush, ServerClose
  <1> QED
    BY <1>6 DEF Plans

LEMMA DiskType ==
  ASSUME disk \in Disk, NEW p, NEW d \in Databases, NEW content \in Content
  PROVE  /\ Write(p, d, content) => disk' \in Disk
         /\ Recovered \in Disk
  <1>1. disk.journal \in BOOLEAN /\ disk.db \in [Databases -> Content]
    BY DEF Disk
  <1>2. Write(p, d, content) => disk' \in Disk
    BY <1>1 DEF Write, Disk
  <1>3. Recovered \in Disk
    BY <1>1 DEF Recovered, Disk, Content
  <1> QED
    BY <1>2, <1>3

LEMMA DatabaseNames ==
  /\ SessionDatabase \in Databases /\ "dataset" \in Databases
  /\ "sessions" \in Databases /\ "tasks" \in Databases /\ "shared" \in Databases
  /\ "empty" \in Content /\ "current" \in Content /\ "partial" \in Content
  /\ "absent" \in Content /\ SessionDatabase # "dataset"
  BY DEF SessionDatabase, Databases, Content

-----------------------------------------------------------------------------
(* The startup *)

LEMMA AssembleKeeps ==
  ASSUME IndInv, NEW p \in Processes,
         RecoverState(p) \/ Assemble(p) \/ InstallTelemetry(p) \/ BuildPlanes(p)
  PROVE  IndInv'
  <1>1. disk \in Disk /\ Recovered \in Disk
    BY ProcType, DiskType, DatabaseNames
  <1>2. CASE RecoverState(p)
    <2>1. At(p, "recover") /\ UNCHANGED Others
      BY <1>2 DEF RecoverState
    <2>2. CASE disk' = Recovered /\ Goto(p, "assemble")
      BY <1>1, <2>1, <2>2, Advance DEF At, Starting, Bare
    <2>3. CASE Leave(p, FALSE, <<>>) /\ UNCHANGED disk
      BY <1>1, <2>1, <2>3, Abort, Quiet, SomePlans DEF At, Starting, Bare
    <2> QED
      BY <1>2, <2>2, <2>3 DEF RecoverState, Recover
  <1>3. CASE Assemble(p)
    <2>1. At(p, "assemble") /\ UNCHANGED Others /\ UNCHANGED disk
      BY <1>3 DEF Assemble
    <2>2. CASE Goto(p, "telemetry")
      BY <1>1, <2>1, <2>2, Advance DEF At, Starting, Bare
    <2>3. CASE Leave(p, FALSE, <<>>)
      BY <1>1, <2>1, <2>3, Abort, Quiet, SomePlans DEF At, Starting, Bare
    <2> QED
      BY <1>3, <2>2, <2>3 DEF Assemble
  <1>4. CASE InstallTelemetry(p)
    <2>1. At(p, "telemetry") /\ UNCHANGED Others /\ UNCHANGED disk
      BY <1>4 DEF InstallTelemetry
    <2>2. /\ proc[p] \in Process /\ DOMAIN proc = Processes
          /\ ~proc[p].refused /\ proc[p].pc \notin Leaving
      BY <2>1, ProcType DEF At, Sane, Leaving
    <2>3. InFlight(p) = {}
      BY <2>1, Quiet DEF At
    <2>4. CASE Hold(p, "telemetry", "planes")
      <3>1. proc[p].held \cup {"telemetry"} \in SUBSET Parts
        BY <2>2 DEF Process, Parts
      <3>2. proc' = [proc EXCEPT ![p] = [@ EXCEPT !.pc = "planes",
                      !.held = proc[p].held \cup {"telemetry"}]]
        BY <2>4, HoldForm
      <3>3. "planes" \notin Bare
        BY <2>2 DEF Process, Bare
      <3> QED
        BY <1>1, <2>1, <2>2, <2>3, <3>1, <3>2, <3>3, GoesOn
    <2>5. CASE proc' = [proc EXCEPT ![p].pc = "unwind", ![p].code = "invalid",
                          ![p].held = {"telemetry"}, ![p].release = <<"telemetry">>]
      <3>1. proc' = [proc EXCEPT ![p] =
               [@ EXCEPT !.pc = "unwind", !.release = <<"telemetry">>, !.code = "invalid",
                  !.held = {"telemetry"}, !.refused = proc[p].refused,
                  !.abandoned = proc[p].abandoned]]
        BY <2>2, <2>5 DEF Process
      <3>2. /\ {"telemetry"} \in SUBSET Parts /\ <<"telemetry">> \in Plans
            /\ <<"telemetry">> # <<>> /\ "invalid" \in {"valid", "invalid"}
            /\ proc[p].refused \in BOOLEAN /\ proc[p].abandoned \in BOOLEAN
        BY <2>2, SomePlans DEF Process, Parts
      <3>3. UNCHANGED Others /\ disk' \in Disk
        BY <1>1, <2>1, <2>2
      <3>4. proc[p].pc \notin Leaving
        BY <2>2
      <3> QED
        BY <2>3, <3>1, <3>2, <3>3, <3>4, Leaves
    <2> QED
      BY <1>4, <2>4, <2>5 DEF InstallTelemetry
  <1>5. CASE BuildPlanes(p)
    <2>1. At(p, "planes") /\ UNCHANGED Others /\ UNCHANGED disk
      BY <1>5 DEF BuildPlanes
    <2>2. CASE Goto(p, "sessions") \/ Goto(p, "listen")
      BY <1>1, <2>1, <2>2, Advance DEF At, Starting, Bare
    <2>3. CASE Leave(p, FALSE, <<"telemetry">>)
      BY <1>1, <2>1, <2>3, Abort, Quiet, SomePlans DEF At, Starting
    <2> QED
      BY <1>5, <2>2, <2>3 DEF BuildPlanes
  <1> QED
    BY <1>2, <1>3, <1>4, <1>5

LEMMA OpenKeeps ==
  ASSUME IndInv, NEW p \in Processes, OpenSessions(p) \/ Wire(p) \/ BuildHandler(p) \/ Listen(p)
  PROVE  IndInv'
  <1>1. disk \in Disk
    BY ProcType
  <1>2. CASE OpenSessions(p)
    <2>1. At(p, "sessions") /\ UNCHANGED Others
      BY <1>2 DEF OpenSessions
    <2>2. /\ proc[p] \in Process /\ proc[p].pc \notin Leaving
      BY <2>1, ProcType DEF At, Sane, Leaving
    <2>3. InFlight(p) = {}
      BY <2>1, Quiet DEF At
    <2>4. ASSUME NEW pc \in {"wire", "migrate"}, Hold(p, "sessions", pc), disk' \in Disk
          PROVE  IndInv'
      <3>1. proc[p].held \cup {"sessions"} \in SUBSET Parts
        BY <2>2 DEF Process, Parts
      <3>2. proc' = [proc EXCEPT ![p] = [@ EXCEPT !.pc = pc,
                      !.held = proc[p].held \cup {"sessions"}]]
        BY <2>4, HoldForm
      <3>3. /\ pc \notin Bare
            /\ pc \in {"recover", "assemble", "telemetry", "planes", "sessions", "wire", "start",
                      "preflight", "dataset", "migrate", "tasks", "handler", "listen", "serving",
                      "draining"}
        BY <2>2 DEF Process, Bare
      <3> QED
        BY <2>1, <2>2, <2>3, <2>4, <3>1, <3>2, <3>3, GoesOn
    <2>5. CASE Leave(p, FALSE, <<"telemetry">>) /\ UNCHANGED disk
      BY <1>1, <2>1, <2>3, <2>5, Abort, SomePlans DEF At, Starting
    <2>6. Write(p, "sessions", "empty") => disk' \in Disk
      BY <1>1, DiskType, DatabaseNames
    <2>7. Hold(p, "sessions", IF kind[p] = "a2a" THEN "wire" ELSE "migrate") =>
            \E pc \in {"wire", "migrate"} : Hold(p, "sessions", pc)
      OBVIOUS
    <2> QED
      BY <1>1, <1>2, <2>4, <2>5, <2>6, <2>7 DEF OpenSessions
  <1>3. CASE Wire(p)
    <2>1. At(p, "wire") /\ UNCHANGED Others /\ UNCHANGED disk
      BY <1>3 DEF Wire
    <2>2. CASE Goto(p, "start")
      BY <1>1, <2>1, <2>2, Advance DEF At, Starting, Bare
    <2>3. CASE Leave(p, FALSE, <<"sessions", "telemetry">>)
      BY <1>1, <2>1, <2>3, Abort, Quiet, SomePlans DEF At, Starting
    <2> QED
      BY <1>3, <2>2, <2>3 DEF Wire
  <1>4. CASE BuildHandler(p)
    <2>1. At(p, "handler") /\ UNCHANGED Others /\ UNCHANGED disk
      BY <1>4 DEF BuildHandler
    <2>2. CASE Goto(p, "listen")
      BY <1>1, <2>1, <2>2, Advance DEF At, Starting, Bare
    <2>3. CASE Leave(p, FALSE, CloseAndFlush(p))
      BY <1>1, <2>1, <2>3, Abort, Quiet, SomePlans DEF At, Starting
    <2> QED
      BY <1>4, <2>2, <2>3 DEF BuildHandler
  <1>5. CASE Listen(p)
    <2>1. At(p, "listen") /\ UNCHANGED Others /\ UNCHANGED disk
      BY <1>5 DEF Listen
    <2>2. CASE Goto(p, "serving")
      BY <1>1, <2>1, <2>2, Advance DEF At, Starting, Bare
    <2>3. CASE Leave(p, FALSE, CloseAndFlush(p))
      BY <1>1, <2>1, <2>3, Abort, Quiet, SomePlans DEF At, Starting
    <2> QED
      BY <1>5, <2>2, <2>3 DEF Listen
  <1> QED
    BY <1>2, <1>3, <1>4, <1>5

\* A database is written.
LEMMA Migrates ==
  ASSUME IndInv, NEW p \in Processes,
         proc[p].pc \in Starting,
         NEW pc \in {"migrate", "tasks", "handler", "listen"},
         Goto(p, pc), UNCHANGED Others, disk' \in Disk
  PROVE  IndInv'
  <1>1. /\ proc[p].held \in SUBSET Parts /\ InFlight(p) = {} /\ proc[p].pc \notin Leaving
    BY ProcType, Quiet DEF Process, Parts, Starting, Leaving
  <1>2. pc \notin Bare
    BY DEF Bare
  <1>3. proc' = [proc EXCEPT ![p] =
          [@ EXCEPT !.pc = pc, !.held = proc[p].held]]
    BY Forms
  <1> QED
    BY <1>1, <1>2, <1>3, GoesOn

LEMMA StartKeeps ==
  ASSUME IndInv, NEW p \in Processes,
         StartRecovers(p) \/ Preflight(p) \/ PrepareDataset(p) \/ MigrateSessions(p) \/ OpenTasks(p)
  PROVE  IndInv'
  <1>1. disk \in Disk /\ Recovered \in Disk
    BY ProcType, DiskType, DatabaseNames
  <1>2. \A d \in Databases, content \in {"current", "partial"} :
          Write(p, d, content) => disk' \in Disk
    BY <1>1, DiskType, DatabaseNames
  <1>3. CASE StartRecovers(p)
    <2>1. At(p, "start") /\ UNCHANGED Others
      BY <1>3 DEF StartRecovers
    <2>2. CASE disk' = Recovered /\ Goto(p, "preflight")
      BY <1>1, <2>1, <2>2, Advance DEF At, Starting, Bare
    <2>3. CASE Leave(p, FALSE, <<"telemetry">>) /\ UNCHANGED disk
      BY <1>1, <2>1, <2>3, Abort, Quiet, SomePlans DEF At, Starting
    <2> QED
      BY <1>3, <2>2, <2>3 DEF StartRecovers, Recover
  <1>4. CASE Preflight(p)
    <2>1. At(p, "preflight") /\ UNCHANGED Others /\ UNCHANGED disk
      BY <1>4 DEF Preflight
    <2>2. CASE Goto(p, "dataset")
      BY <1>1, <2>1, <2>2, Advance DEF At, Starting, Bare
    <2>3. CASE StartFails(p)
      BY <1>1, <2>1, <2>3, Abort, Quiet, SomePlans DEF At, Starting, StartFails
    <2>4. CASE proc' = [proc EXCEPT ![p].pc = "unwind", ![p].code = "invalid",
                          ![p].release = <<"telemetry">>, ![p].refused = TRUE]
      <3>1. /\ proc[p] \in Process /\ DOMAIN proc = Processes
            /\ proc[p].pc \notin Leaving
        BY <2>1, ProcType DEF At, Sane, Leaving
      <3>2. proc' = [proc EXCEPT ![p] =
               [@ EXCEPT !.pc = "unwind", !.release = <<"telemetry">>, !.code = "invalid",
                  !.held = proc[p].held, !.refused = TRUE, !.abandoned = proc[p].abandoned]]
        BY <2>4, <3>1 DEF Process
      <3>3. /\ proc[p].held \in SUBSET Parts /\ <<"telemetry">> \in Plans
            /\ <<"telemetry">> # <<>> /\ proc[p].abandoned \in BOOLEAN
        BY <3>1, SomePlans DEF Process, Parts
      <3>4. InFlight(p) = {}
        BY <2>1, Quiet DEF At
      <3> QED
        BY <1>1, <2>1, <3>1, <3>2, <3>3, <3>4, Leaves
    <2> QED
      BY <1>4, <2>2, <2>3, <2>4 DEF Preflight
  <1>5. CASE PrepareDataset(p)
    <2>1. At(p, "dataset") /\ UNCHANGED Others
      BY <1>5 DEF PrepareDataset
    <2>2. CASE Write(p, "dataset", "current") /\ Goto(p, "migrate")
      BY <1>2, <2>1, <2>2, Migrates, DatabaseNames DEF At, Starting
    <2>3. CASE StartFails(p) /\ UNCHANGED disk
      BY <1>1, <2>1, <2>3, Abort, Quiet, SomePlans DEF At, Starting, StartFails
    <2> QED
      BY <1>5, <2>2, <2>3 DEF PrepareDataset
  <1>6. CASE MigrateSessions(p)
    <2>1. At(p, "migrate") /\ UNCHANGED Others
      BY <1>6 DEF MigrateSessions
    <2>2. CASE Write(p, SessionDatabase, "partial") /\ Goto(p, "migrate")
      BY <1>2, <2>1, <2>2, Migrates, DatabaseNames DEF At, Starting
    <2>3. ASSUME NEW next \in {"tasks", "listen"},
                 Write(p, SessionDatabase, "current"), Goto(p, next)
          PROVE  IndInv'
      BY <1>2, <2>1, <2>3, Migrates, DatabaseNames DEF At, Starting
    <2>4. CASE UNCHANGED disk /\ StartFails(p)
      BY <1>1, <2>1, <2>4, Abort, Quiet, SomePlans DEF At, Starting, StartFails
    <2>5. CASE UNCHANGED disk /\ Leave(p, FALSE, <<"sessions", "telemetry">>)
      BY <1>1, <2>1, <2>5, Abort, Quiet, SomePlans DEF At, Starting
    <2>6. (IF kind[p] = "a2a" THEN "tasks" ELSE "listen") \in {"tasks", "listen"}
      OBVIOUS
    <2> QED
      BY <1>6, <2>2, <2>3, <2>4, <2>5, <2>6 DEF MigrateSessions
  <1>7. CASE OpenTasks(p)
    <2>1. At(p, "tasks") /\ UNCHANGED Others
      BY <1>7 DEF OpenTasks
    <2>2. CASE Write(p, "tasks", "current") /\ Hold(p, "tasks", "handler")
      <3>1. proc[p] \in Process
        BY ProcType
      <3>2. proc' = [proc EXCEPT ![p] = [@ EXCEPT !.pc = "handler",
                      !.held = proc[p].held \cup {"tasks"}]]
        BY <2>2, HoldForm
      <3>3. proc[p].held \cup {"tasks"} \in SUBSET Parts /\ "handler" \notin Bare
        BY <3>1 DEF Process, Parts, Bare
      <3>4. InFlight(p) = {} /\ proc[p].pc \notin Leaving
        BY <2>1, Quiet DEF At, Leaving
      <3>5. disk' \in Disk
        BY <1>2, <2>2, DatabaseNames
      <3> QED
        BY <2>1, <3>2, <3>3, <3>4, <3>5, GoesOn
    <2>3. CASE StartFails(p) /\ UNCHANGED disk
      BY <1>1, <2>1, <2>3, Abort, Quiet, SomePlans DEF At, Starting, StartFails
    <2> QED
      BY <1>7, <2>2, <2>3 DEF OpenTasks
  <1> QED
    BY <1>3, <1>4, <1>5, <1>6, <1>7

-----------------------------------------------------------------------------
(* Serving, and the way out *)

LEMMA NewType ==
  ASSUME NEW n \in Nat
  PROVE  /\ NewProcess(n) \in Process /\ NewProcess(n).starts = n
         /\ NewProcess(n).held = {} /\ NewProcess(n).release = <<>>
         /\ NewProcess(n).released = <<>> /\ ~NewProcess(n).refused
         /\ NewProcess(n).refused = FALSE
         /\ NewProcess(n).pc = "idle"
  BY DEF NewProcess, Process

\* A process begins with nothing, and a dead one has nothing left.
LEMMA NewSane ==
  ASSUME NEW s, s.held = {}, s.release = <<>>, s.released = <<>>, ~s.refused
  PROVE  Sane(s)
  <1>1. s.released \o s.release = <<>>
    OBVIOUS
  <1> QED
    BY <1>1 DEF Sane, Plans

LEMMA ExecuteKeeps ==
  ASSUME IndInv, NEW p \in Processes, Execute(p)
  PROVE  IndInv'
  <1>1. /\ proc[p].pc \in {"idle", "exited"} /\ UNCHANGED Others /\ disk' = disk
    BY DEF Execute, At
  <1>2. PICK accepted \in BOOLEAN :
          proc' = [proc EXCEPT ![p] =
                    [NewProcess(proc[p].starts + 1) EXCEPT
                       !.pc = IF ~accepted THEN "unwind"
                              ELSE IF Conversational(p) THEN "recover" ELSE "assemble",
                       !.code = IF accepted THEN "none" ELSE "invalid"]]
    BY DEF Execute
  <1>3. PICK pc \in {"unwind", "recover", "assemble"}, code \in {"none", "invalid"} :
          proc' = [proc EXCEPT ![p] =
                    [NewProcess(proc[p].starts + 1) EXCEPT !.pc = pc, !.code = code]]
    BY <1>2
  <1> DEFINE base == NewProcess(proc[p].starts + 1)
             new == [base EXCEPT !.pc = pc, !.code = code]
  <1>4. proc[p].starts + 1 \in Nat
    <2>1. proc[p].starts \in Nat
      BY ProcType DEF Process
    <2> QED
      BY <2>1
  <1>5. /\ base \in Process /\ base.held = {} /\ base.release = <<>> /\ base.released = <<>>
        /\ base.refused = FALSE
    BY <1>4, NewType
  <1> HIDE DEF base
  <1>6. /\ new \in Process /\ new.held = {} /\ new.release = <<>> /\ new.released = <<>>
        /\ ~new.refused
    BY <1>5 DEF Process
  <1>7. proc' = [proc EXCEPT ![p] = new]
    BY <1>3 DEF base
  <1> HIDE DEF new
  <1>8. Sane(new)
    BY <1>6, NewSane
  <1>9. InFlight(p) = {}
    BY <1>1, Quiet
  <1> QED
    BY <1>1, <1>6, <1>7, <1>8, <1>9, ProcType, Moves

LEMMA SignalKeeps ==
  ASSUME IndInv, NEW p \in Processes, Signal(p)
  PROVE  IndInv'
  <1> DEFINE s == proc[p]
             new == [s EXCEPT !.signalled = TRUE]
  <1>1. s \in Process /\ Sane(s) /\ disk \in Disk
    BY ProcType
  <1>2. /\ s.pc \in {"listen", "serving"} /\ UNCHANGED Others /\ disk' = disk
        /\ proc' = [proc EXCEPT ![p].signalled = TRUE]
    BY DEF Signal, At
  <1>3. /\ new \in Process /\ new.pc = s.pc /\ new.held = s.held
        /\ new.release = s.release /\ new.released = s.released /\ new.refused = s.refused
        /\ new.abandoned = s.abandoned
    BY <1>1 DEF Process
  <1>4. proc' = [proc EXCEPT ![p] = new]
    BY <1>1, <1>2, ProcType
  <1>5. InFlight(p) # {} => Answering(s)
    BY DEF IndInv, Served
  <1> HIDE DEF new, s
  <1>6. Sane(new)
    BY <1>1, <1>3 DEF Sane
  <1>7. InFlight(p) # {} => Answering(new)
    BY <1>3, <1>5 DEF Answering
  <1> QED
    BY <1>1, <1>2, <1>3, <1>4, <1>6, <1>7, Moves

LEMMA DrainKeeps ==
  ASSUME IndInv, NEW p \in Processes,
         ListenerFails(p) \/ Drain(p) \/ StdioEnds(p) \/ Drained(p) \/ DrainDeadline(p)
  PROVE  IndInv'
  <1>1. /\ proc[p] \in Process /\ DOMAIN proc = Processes /\ Sane(proc[p]) /\ disk \in Disk
    BY ProcType
  <1>2. /\ UNCHANGED Others /\ disk' = disk /\ proc[p].pc \in {"serving", "draining"}
    BY DEF ListenerFails, Drain, StdioEnds, Drained, DrainDeadline, At
  <1>3. /\ proc[p].pc \notin Leaving /\ proc[p].held \in SUBSET Parts
        /\ proc[p].refused \in BOOLEAN
       
    BY <1>1, <1>2 DEF Process, Parts, Sane, Leaving
  \* By force: the listener broke, the client of a pipe is gone, the deadline is over.
  <1>4. ASSUME NEW plan \in {<<"telemetry">>, CloseAndFlush(p)},
               NEW code \in {"valid", "invalid"},
               proc' = [proc EXCEPT ![p].pc = "unwind", ![p].code = code,
                          ![p].abandoned = TRUE, ![p].release = plan]
        PROVE  IndInv'
    <2>1. proc' = [proc EXCEPT ![p] =
             [@ EXCEPT !.pc = "unwind", !.release = plan, !.code = code, !.held = proc[p].held,
                !.refused = proc[p].refused, !.abandoned = TRUE]]
      BY <1>1, <1>4 DEF Process
    <2>2. plan \in Plans /\ plan # <<>> /\ TRUE \in BOOLEAN
      BY <1>4, SomePlans
    <2>3. disk' \in Disk
      BY <1>1, <1>2
    <2> QED
      BY <1>2, <1>3, <2>1, <2>2, <2>3, Leaves
  <1>5. CASE Drain(p)
    <2>1. Goto(p, "draining")
      BY <1>5 DEF Drain
    <2>2. proc' = [proc EXCEPT ![p] =
            [@ EXCEPT !.pc = "draining", !.held = proc[p].held]]
      BY <2>1, Forms
    <2>3. "draining" \notin Bare /\ disk' \in Disk
      BY <1>1, <1>2 DEF Bare
    <2> QED
      BY <1>2, <1>3, <2>2, <2>3, GoesOn
  <1>6. CASE Drained(p)
    <2>1. /\ proc[p].pc = "draining" /\ InFlight(p) = {} /\ Leave(p, TRUE, CloseAndFlush(p))
      BY <1>6 DEF Drained, At
    <2>2. disk' \in Disk
      BY <1>1, <1>2
    <2> QED
      BY <1>2, <2>1, <2>2, SomePlans, Abort
  <1>7. CASE ListenerFails(p)
    BY <1>4, <1>7 DEF ListenerFails
  <1>8. CASE StdioEnds(p)
    BY <1>4, <1>8 DEF StdioEnds
  <1>9. CASE DrainDeadline(p)
    BY <1>4, <1>9 DEF DrainDeadline
  <1> QED
    BY <1>5, <1>6, <1>7, <1>8, <1>9

\* One more of the plan is released.
LEMMA ReleaseKeeps ==
  ASSUME IndInv, NEW p \in Processes, Release(p)
  PROVE  IndInv'
  <1> DEFINE s == proc[p]
             what == Head(s.release)
  <1>1. s \in Process /\ Sane(s) /\ disk \in Disk /\ DOMAIN proc = Processes
    BY ProcType
  <1>2. /\ s.pc = "unwind" /\ s.release # <<>> /\ UNCHANGED Others /\ disk' = disk
    BY DEF Release, At
  <1>3. PICK code \in {"none", "valid", "invalid"} :
          proc' = [proc EXCEPT ![p].release = Tail(@), ![p].released = Append(@, what),
                     ![p].held = @ \ {what}, ![p].code = code]
    <2>1. s.code \in {"none", "valid", "invalid"}
      BY <1>1 DEF Process
    <2> QED
      BY <2>1 DEF Release
  <1> DEFINE new == [s EXCEPT !.release = Tail(s.release), !.released = Append(s.released, what),
                        !.held = s.held \ {what}, !.code = code]
  <1>4. s.release \in Seq(Parts) /\ s.released \in Seq(Parts) /\ s.held \in SUBSET Parts
    BY <1>1 DEF Process, Parts
  <1>5. /\ Append(s.released, what) \in Seq(Parts) /\ Tail(s.release) \in Seq(Parts)
        /\ Append(s.released, what) \o Tail(s.release) = s.released \o s.release
        /\ what = s.release[1]
        /\ \A i \in DOMAIN s.release : i # 1 =>
             i - 1 \in DOMAIN Tail(s.release) /\ Tail(s.release)[i - 1] = s.release[i]
    BY <1>2, <1>4, Shift
  <1> HIDE DEF what
  <1>6. /\ new \in Process /\ new.pc = s.pc /\ new.held = s.held \ {what}
        /\ new.release = Tail(s.release)
        /\ new.released = Append(s.released, what) /\ new.refused = s.refused
        /\ new.abandoned = s.abandoned
    BY <1>1, <1>4, <1>5 DEF Process, Parts
  <1>7. proc' = [proc EXCEPT ![p] = new]
    BY <1>1, <1>3 DEF Process
  <1>8. InFlight(p) # {} => Answering(s)
    BY DEF IndInv, Served
  <1> HIDE DEF new
  <1>9. "telemetry" \in new.held => \E i \in DOMAIN new.release : new.release[i] = "telemetry"
    <2> SUFFICES ASSUME "telemetry" \in s.held, what # "telemetry"
                 PROVE  \E i \in DOMAIN Tail(s.release) : Tail(s.release)[i] = "telemetry"
      BY <1>6
    <2>1. PICK i \in DOMAIN s.release : s.release[i] = "telemetry"
      BY <1>1, <1>2 DEF Sane, Leaving
    <2>2. i # 1
      BY <1>5, <2>1
    <2> QED
      BY <1>5, <2>1, <2>2
  <1>10. Sane(new)
    <2>1. "unwind" \in Leaving /\ "unwind" \notin Bare
      BY DEF Leaving, Bare
    <2> HIDE DEF s
    <2>2. new.released \o new.release \in Plans
      BY <1>1, <1>5, <1>6 DEF Sane
    <2> QED
      BY <1>1, <1>2, <1>6, <1>9, <2>1, <2>2 DEF Sane
  <1>11. InFlight(p) # {} => Answering(new)
    BY <1>6, <1>8 DEF Answering
  <1> QED
    BY <1>1, <1>2, <1>6, <1>7, <1>10, <1>11, Moves

\* A process is gone, and its requests are answered.
LEMMA Gone ==
  ASSUME ProcessesAssumption, IndInv, NEW p \in Processes, NEW new \in Process, Sane(new),
         NEW answer \in {"cut", "forced"}, answer = "cut" => InFlight(p) = {},
         proc' = [proc EXCEPT ![p] = new],
         request' = [r \in Requests |-> IF r \in InFlight(p)
                                        THEN [request[r] EXCEPT !.answer = answer] ELSE request[r]],
         UNCHANGED <<backend, kind, disk>>
  PROVE  IndInv'
  <1>1. \A q \in Processes : proc'[q] = IF q = p THEN new ELSE proc[q]
    BY DEF IndInv, Types
  <1>2. ASSUME NEW r \in Requests
        PROVE  /\ request'[r] \in Request /\ request'[r].answer # "cut"
               /\ request'[r].at = request[r].at
               /\ request'[r].answer = "none" => request[r].answer = "none" /\ r \notin InFlight(p)
    <2>1. request[r] \in Request /\ request[r].answer # "cut"
      BY DEF IndInv, Types, CutOnlyByForce
    <2>2. CASE r \in InFlight(p)
      <3>1. answer = "forced" /\ request'[r] = [request[r] EXCEPT !.answer = "forced"]
        BY <2>2
      <3> QED
        BY <2>1, <3>1 DEF Request
    <2>3. CASE r \notin InFlight(p)
      BY <2>1, <2>3
    <2> QED
      BY <2>2, <2>3
  <1>3. Types'
    <2>1. request' \in [Requests -> Request]
      BY <1>2
    <2>2. proc' \in [Processes -> Process]
      BY DEF IndInv, Types
    <2> QED
      BY <2>1, <2>2 DEF IndInv, Types
  <1>4. Served'
    <2> SUFFICES ASSUME NEW q \in Processes, NEW r \in Requests,
                        request'[r].at = q, request'[r].answer = "none"
                 PROVE  Answering(proc'[q])
      BY DEF Served, InFlight
    <2>1. request[r].at = q /\ request[r].answer = "none" /\ r \notin InFlight(p)
      BY <1>2
    <2>2. q # p /\ InFlight(q) # {}
      BY <2>1 DEF InFlight
    <2> QED
      BY <1>1, <2>2 DEF IndInv, Served
  <1>5. CutOnlyByForce'
    BY <1>2 DEF CutOnlyByForce
  <1>6. \A q \in Processes : Sane(proc'[q])
    BY <1>1 DEF IndInv
  <1> QED
    BY <1>3, <1>4, <1>5, <1>6 DEF IndInv

LEMMA ExitKeeps ==
  ASSUME ProcessesAssumption, IndInv, NEW p \in Processes, Exit(p)
  PROVE  IndInv'
  <1> DEFINE s == proc[p]
             new == [s EXCEPT !.pc = "exited", !.held = s.held]
  <1>1. s \in Process /\ Sane(s) /\ DOMAIN proc = Processes
    BY ProcType
  <1>2. /\ s.pc = "unwind" /\ s.release = <<>> /\ Goto(p, "exited")
        /\ UNCHANGED <<backend, kind, disk>>
        /\ request' = [r \in Requests |->
             IF r \in InFlight(p)
             THEN [request[r] EXCEPT !.answer = Cut(p)] ELSE request[r]]
    BY DEF Exit, At
  <1>3. /\ new \in Process /\ new.pc = "exited" /\ new.held = s.held
        /\ new.release = <<>> /\ new.released = s.released /\ new.refused = s.refused
    BY <1>1, <1>2 DEF Process
  <1>4. proc' = [proc EXCEPT ![p] = new]
    BY <1>2, Forms
  <1>5. InFlight(p) = {} \/ Cut(p) = "forced"
    BY <1>2 DEF IndInv, Served, Answering, Cut
  <1>6. Cut(p) \in {"cut", "forced"}
    BY DEF Cut
  <1>7. "telemetry" \notin s.held
    BY <1>1, <1>2 DEF Sane, Leaving
  <1> HIDE DEF new, s
  <1>8. Sane(new)
    BY <1>1, <1>2, <1>3, <1>7 DEF Sane, Leaving, Bare
  <1> QED
    BY <1>2, <1>3, <1>4, <1>5, <1>6, <1>8, Gone

LEMMA DieKeeps ==
  ASSUME ProcessesAssumption, IndInv, NEW p \in Processes, Die(p)
  PROVE  IndInv'
  <1> DEFINE base == NewProcess(proc[p].starts)
             new == [base EXCEPT !.pc = "exited"]
  <1>1. proc[p].starts \in Nat
    BY ProcType DEF Process
  <1>2. /\ base \in Process /\ base.held = {} /\ base.release = <<>> /\ base.released = <<>>
        /\ base.refused = FALSE
    BY <1>1, NewType
  <1>3. /\ UNCHANGED <<backend, kind, disk>>
        /\ proc' = [proc EXCEPT ![p] = new]
        /\ request' = [r \in Requests |-> IF r \in InFlight(p)
             THEN [request[r] EXCEPT !.answer = "forced"] ELSE request[r]]
    BY DEF Die
  <1> HIDE DEF base
  <1>4. /\ new \in Process /\ new.held = {} /\ new.release = <<>> /\ new.released = <<>>
        /\ ~new.refused
    BY <1>2 DEF Process
  <1> HIDE DEF new
  <1>5. Sane(new)
    BY <1>4, NewSane
  <1> QED
    BY <1>3, <1>4, <1>5, Gone

-----------------------------------------------------------------------------
(* Requests *)

\* What a request's step must keep: it is new at a process that serves, or answered,
\* never cut.
LEMMA Answers ==
  ASSUME IndInv, NEW r \in Requests, NEW new \in Request, new.answer # "cut",
         \A p \in Processes : new.at = p /\ new.answer = "none" => Answering(proc[p]),
         request' = [request EXCEPT ![r] = new], UNCHANGED <<backend, kind, disk, proc>>
  PROVE  IndInv'
  <1>1. \A q \in Requests : request'[q] = IF q = r THEN new ELSE request[q]
    BY DEF IndInv, Types
  <1>2. Types'
    BY DEF IndInv, Types
  <1>3. Served'
    BY <1>1 DEF IndInv, Served, InFlight, Answering
  <1>4. CutOnlyByForce'
    BY <1>1 DEF IndInv, CutOnlyByForce
  <1>5. \A p \in Processes : Sane(proc'[p])
    BY DEF IndInv
  <1> QED
    BY <1>2, <1>3, <1>4, <1>5 DEF IndInv

LEMMA RequestType ==
  ASSUME IndInv, NEW r \in Requests
  PROVE  /\ request[r] \in Request /\ DOMAIN request = Requests /\ request[r].answer # "cut"
         /\ request[r].at # "nobody" => request[r].at \in Processes
         /\ request[r].at # "nobody" /\ request[r].answer = "none" =>
              Answering(proc[request[r].at])
  <1>1. request[r] \in Request /\ DOMAIN request = Requests /\ request[r].answer # "cut"
    BY DEF IndInv, Types, CutOnlyByForce
  <1>2. request[r].at # "nobody" => request[r].at \in Processes
    BY <1>1 DEF Request
  <1> QED
    BY <1>1, <1>2 DEF IndInv, Served, InFlight

\* A turn at a process that has closed a store was one that was forced out.
LEMMA TurnKeeps ==
  ASSUME IndInv, NEW r \in Requests, Turn(r)
  PROVE  IndInv'
  <1> DEFINE p == request[r].at
             closed == {proc[p].released[i] : i \in DOMAIN proc[p].released}
             answer == IF closed \cap {"sessions", "tasks"} # {} THEN Cut(p) ELSE "done"
             new == [request[r] EXCEPT !.answer = answer]
  <1>1. /\ p # "nobody" /\ request[r].answer = "none"
        /\ UNCHANGED <<backend, kind, disk, proc>>
        /\ request' = [request EXCEPT ![r].answer = answer]
    BY DEF Turn
  <1>2. /\ request[r] \in Request /\ DOMAIN request = Requests
        /\ p \in Processes /\ Answering(proc[p]) /\ Sane(proc[p])
    BY <1>1, RequestType, ProcType
  <1>3. answer \in {"done", "forced"}
    <2>1. CASE proc[p].released = <<>>
      <3>1. closed = {}
        BY <2>1
      <3> QED
        BY <3>1
    <2>2. CASE proc[p].released # <<>>
      <3>1. proc[p].abandoned
        BY <1>2, <2>2 DEF Sane, Leaving, Answering
      <3> QED
        BY <3>1 DEF Cut
    <2> QED
      BY <2>1, <2>2
  <1> HIDE DEF answer
  <1>4. new \in Request /\ new.answer = answer
    BY <1>2, <1>3 DEF Request
  <1>5. request' = [request EXCEPT ![r] = new]
    BY <1>1, <1>2
  <1> HIDE DEF new
  <1> QED
    BY <1>1, <1>3, <1>4, <1>5, Answers

LEMMA ProbeKeeps ==
  ASSUME IndInv, NEW r \in Requests, Probe(r)
  PROVE  IndInv'
  <1>1. /\ request[r] \in Request /\ DOMAIN request = Requests /\ request[r].answer # "cut"
        /\ \A p \in Processes : request[r].at = p /\ request[r].answer = "none" =>
             Answering(proc[p])
    BY RequestType DEF IndInv, Served, InFlight
  <1>2. ASSUME NEW inOrder \in BOOLEAN, Look(r, inOrder, "directory") \/ Look(r, inOrder, "sessions")
          \/ Look(r, inOrder, "tasks") \/ Look(r, inOrder, "model") \/ Look(r, inOrder, "answer")
        PROVE  IndInv'
    <2>1. PICK following \in {"directory", "sessions", "tasks", "model", "answer"} :
            Look(r, inOrder, following)
      BY <1>2
    <2> DEFINE new == [request[r] EXCEPT !.stage = following,
                                         !.problem = request[r].problem \/ ~inOrder]
    <2>2. /\ new \in Request /\ new.answer = request[r].answer /\ new.at = request[r].at
      <3>1. (request[r].problem \/ ~inOrder) \in BOOLEAN
        BY <1>1 DEF Request
      <3> QED
        BY <1>1, <3>1 DEF Request
    <2>3. request' = [request EXCEPT ![r] = new] /\ UNCHANGED <<backend, kind, disk, proc>>
      BY <1>1, <2>1 DEF Look, Request
    <2> HIDE DEF new
    <2> QED
      BY <1>1, <2>2, <2>3, Answers
  <1>3. CASE AnswerProbe(r)
    <2>1. UNCHANGED <<backend, kind, disk, proc>>
      BY <1>3 DEF AnswerProbe
    <2>2. PICK answer \in {"ready", "unready"} : request' = [request EXCEPT ![r].answer = answer]
      BY <1>3 DEF AnswerProbe
    <2> DEFINE new == [request[r] EXCEPT !.answer = answer]
    <2>3. new \in Request /\ new.answer = answer
      BY <1>1 DEF Request
    <2>4. request' = [request EXCEPT ![r] = new]
      BY <2>2, <1>1
    <2> HIDE DEF new
    <2> QED
      BY <2>1, <2>3, <2>4, Answers
  <1>4. ASSUME ProbeDataset(r) \/ ProbeDirectory(r) \/ ProbeSessions(r) \/ ProbeTasks(r) \/ ProbeModel(r)
        PROVE  IndInv'
    <2>1. TRUE \in BOOLEAN /\ FALSE \in BOOLEAN
      OBVIOUS
    <2> QED
      BY <1>2, <1>4, <2>1 DEF ProbeDataset, ProbeDirectory, ProbeSessions, ProbeTasks, ProbeModel
  <1> QED
    BY <1>3, <1>4 DEF Probe

LEMMA HearKeeps ==
  ASSUME ProcessesAssumption, IndInv, NEW r \in Requests, Hear(r)
  PROVE  IndInv'
  <1>1. UNCHANGED <<backend, kind, disk, proc>> /\ request' = [request EXCEPT ![r] = NoRequest]
    BY DEF Hear
  <1>2. NoRequest \in Request /\ NoRequest.answer # "cut" /\ NoRequest.at \notin Processes
    BY DEF NoRequest, Request, ProcessesAssumption
  <1> QED
    BY <1>1, <1>2, Answers

LEMMA ArriveKeeps ==
  ASSUME IndInv, NEW r \in Requests, NEW p \in Processes, Arrive(r, p)
  PROVE  IndInv'
  <1>1. /\ proc[p].pc = "serving" /\ request[r] = NoRequest
        /\ UNCHANGED <<backend, kind, disk, proc>>
    BY DEF Arrive, At
  <1>2. PICK k \in {"turn", "probe"} : request' = [request EXCEPT ![r].at = p, ![r].kind = k]
    BY DEF Arrive
  <1> DEFINE new == [request[r] EXCEPT !.at = p, !.kind = k]
  <1>3. /\ request[r] \in Request /\ DOMAIN request = Requests
        /\ request[r].answer = "none"
    BY <1>1, RequestType DEF NoRequest
  <1>4. new \in Request /\ new.answer = "none" /\ new.at = p
    BY <1>3 DEF Request
  <1>5. request' = [request EXCEPT ![r] = new]
    BY <1>2, <1>3
  <1> HIDE DEF new
  <1>6. Answering(proc[p])
    BY <1>1 DEF Answering
  <1> QED
    BY <1>1, <1>4, <1>5, <1>6, Answers

-----------------------------------------------------------------------------
(* The theorems *)

LEMMA InitSound == ASSUME ProcessesAssumption PROVE Init => IndInv
  <1> SUFFICES ASSUME Init PROVE IndInv
    OBVIOUS
  <1>1. PICK found \in Found :
          disk = [journal |-> "torn" \in {found[d] : d \in Databases}, db |-> found]
    BY DEF Init
  <1>2. /\ backend \in {"sqlite", "postgres"} /\ kind \in Kinds
        /\ proc = [p \in Processes |-> NewProcess(0)]
        /\ request = [r \in Requests |-> NoRequest]
    BY DEF Init
  <1>3. 0 \in Nat
    OBVIOUS
  <1>4. /\ NewProcess(0) \in Process /\ NewProcess(0).held = {} /\ NewProcess(0).release = <<>>
        /\ NewProcess(0).released = <<>> /\ ~NewProcess(0).refused
    BY <1>3, NewType
  <1>5. Sane(NewProcess(0))
    BY <1>4, NewSane
  <1>6. NoRequest \in Request /\ NoRequest.at = "nobody" /\ NoRequest.answer = "none"
    BY DEF NoRequest, Request
  <1>7. disk \in [journal: BOOLEAN, db: [Databases -> Content]]
    BY <1>1 DEF ProcessesAssumption
  <1>8. Types
    BY <1>2, <1>4, <1>6, <1>7 DEF Types, ProcessesAssumption
  <1>9. Served
    BY <1>2, <1>6 DEF Served, InFlight, ProcessesAssumption
  <1>10. CutOnlyByForce
    BY <1>2, <1>6 DEF CutOnlyByForce
  <1>11. \A p \in Processes : Sane(proc[p])
    BY <1>2, <1>5
  <1> QED
    BY <1>8, <1>9, <1>10, <1>11 DEF IndInv

LEMMA NextSound == ASSUME ProcessesAssumption PROVE IndInv /\ [Next]_vars => IndInv'
  <1> SUFFICES ASSUME IndInv, [Next]_vars PROVE IndInv'
    OBVIOUS
  <1>1. ASSUME NEW p \in Processes, Step(p) PROVE IndInv'
    BY <1>1, AssembleKeeps, OpenKeeps, StartKeeps, DrainKeeps, ReleaseKeeps, ExitKeeps DEF Step
  <1>2. ASSUME NEW p \in Processes, Execute(p) \/ Signal(p) \/ ListenerFails(p) \/ Die(p)
        PROVE  IndInv'
    BY <1>2, ExecuteKeeps, SignalKeeps, DrainKeeps, DieKeeps
  <1>3. ASSUME NEW r \in Requests,
               Turn(r) \/ Probe(r) \/ Hear(r) \/ \E p \in Processes : Arrive(r, p)
        PROVE  IndInv'
    BY <1>3, TurnKeeps, ProbeKeeps, HearKeeps, ArriveKeeps
  <1>4. CASE DropShared
    <2>1. UNCHANGED <<backend, kind, proc, request>> /\ Write(0, "shared", "absent")
      BY <1>4 DEF DropShared, Write
    <2>2. disk \in Disk
      BY DEF IndInv, Types, Disk
    <2>3. disk' \in Disk
      BY <2>1, <2>2, DiskType, DatabaseNames
    <2> QED
      BY <2>1, <2>3 DEF IndInv, Types, Disk, Served, InFlight, CutOnlyByForce
  <1>5. CASE UNCHANGED vars
    <2>1. UNCHANGED <<backend, kind, disk, proc, request>>
      BY <1>5 DEF vars, programVars
    <2> QED
      BY <2>1 DEF IndInv, Types, Served, InFlight, CutOnlyByForce
  <1> QED
    BY <1>1, <1>2, <1>3, <1>4, <1>5 DEF Next

\* The invariant above holds of every reachable state: of a process alone, and of
\* the requests it has (cmd/agent, a2aserver/serve.go).
THEOREM Inductive == ProcessesAssumption => (Spec => []IndInv)
  <1> SUFFICES ASSUME ProcessesAssumption PROVE Spec => []IndInv
    OBVIOUS
  <1>1. Init => IndInv
    BY InitSound
  <1>2. IndInv /\ [Next]_vars => IndInv'
    BY NextSound
  <1> QED
    BY <1>1, <1>2, PTL DEF Spec

\* No step of one process is a step of another.
LEMMA Alone ==
  ASSUME IndInv, NEW p \in Processes,
         Step(p) \/ Execute(p) \/ Signal(p) \/ ListenerFails(p) \/ Die(p),
         NEW q \in Processes, q # p
  PROVE  proc'[q] = proc[q]
  <1>1. proc \in [Processes -> Process]
    BY DEF IndInv, Types
  <1>2. ASSUME NEW pc, NEW what, NEW ok, NEW plan, Goto(p, pc) \/ Hold(p, what, pc) \/ Leave(p, ok, plan)
        PROVE  proc'[q] = proc[q]
    BY <1>1, <1>2 DEF Goto, Hold, Leave
  <1>3. CASE RecoverState(p) \/ Assemble(p) \/ BuildPlanes(p) \/ OpenSessions(p) \/ Wire(p)
             \/ StartRecovers(p) \/ PrepareDataset(p) \/ MigrateSessions(p) \/ OpenTasks(p)
    BY <1>2, <1>3 DEF RecoverState, Recover, Assemble, BuildPlanes, OpenSessions, Wire,
      StartRecovers, PrepareDataset, MigrateSessions, OpenTasks, StartFails
  <1>4. CASE BuildHandler(p) \/ Listen(p) \/ Drain(p) \/ Drained(p) \/ Exit(p)
    BY <1>2, <1>4 DEF BuildHandler, Listen, Drain, Drained, Exit
  <1>5. CASE InstallTelemetry(p) \/ Preflight(p)
    BY <1>1, <1>2, <1>5 DEF InstallTelemetry, Preflight, StartFails
  <1>6. CASE StdioEnds(p) \/ DrainDeadline(p) \/ Release(p) \/ ListenerFails(p)
    BY <1>1, <1>6 DEF StdioEnds, DrainDeadline, Release, ListenerFails
  <1>7. CASE Execute(p) \/ Signal(p) \/ Die(p)
    BY <1>1, <1>7 DEF Execute, Signal, Die
  <1> QED
    BY <1>3, <1>4, <1>5, <1>6, <1>7 DEF Step

\* A start is refused by the preflight and by nothing else.
LEMMA RefusedBefore ==
  ASSUME IndInv, NEW p \in Processes,
         Step(p) \/ Execute(p) \/ Signal(p) \/ ListenerFails(p) \/ Die(p),
         ~Preflight(p), proc'[p].refused
  PROVE  proc[p].refused
  <1>1. /\ proc \in [Processes -> Process] /\ DOMAIN proc = Processes
        /\ proc[p] \in Process
    BY DEF IndInv, Types
  <1>2. ASSUME NEW pc, NEW what, NEW ok, NEW plan, Goto(p, pc) \/ Hold(p, what, pc) \/ Leave(p, ok, plan)
        PROVE  proc[p].refused
    BY <1>1, <1>2 DEF Goto, Hold, Leave, Process
  <1>3. CASE RecoverState(p) \/ Assemble(p) \/ BuildPlanes(p) \/ OpenSessions(p) \/ Wire(p)
             \/ StartRecovers(p) \/ PrepareDataset(p) \/ MigrateSessions(p) \/ OpenTasks(p)
    BY <1>2, <1>3 DEF RecoverState, Recover, Assemble, BuildPlanes, OpenSessions, Wire,
      StartRecovers, PrepareDataset, MigrateSessions, OpenTasks, StartFails
  <1>4. CASE BuildHandler(p) \/ Listen(p) \/ Drain(p) \/ Drained(p) \/ Exit(p)
    BY <1>2, <1>4 DEF BuildHandler, Listen, Drain, Drained, Exit
  <1>5. CASE InstallTelemetry(p)
    <2>1. CASE Hold(p, "telemetry", "planes")
      BY <1>2, <2>1
    <2>2. CASE proc' = [proc EXCEPT ![p].pc = "unwind", ![p].code = "invalid",
                          ![p].held = {"telemetry"}, ![p].release = <<"telemetry">>]
      BY <1>1, <2>2 DEF Process
    <2> QED
      BY <1>5, <2>1, <2>2 DEF InstallTelemetry
  <1>6. CASE StdioEnds(p) \/ DrainDeadline(p) \/ Release(p) \/ ListenerFails(p)
    <2>1. CASE StdioEnds(p) \/ DrainDeadline(p) \/ ListenerFails(p)
      BY <1>1, <2>1 DEF StdioEnds, DrainDeadline, ListenerFails, Process
    <2>2. CASE Release(p)
      <3>1. PICK what, code :
              proc' = [proc EXCEPT ![p].release = Tail(@), ![p].released = Append(@, what),
                         ![p].held = @ \ {what}, ![p].code = code]
        BY <2>2 DEF Release
      <3> QED
        BY <1>1, <3>1 DEF Process
    <2> QED
      BY <1>6, <2>1, <2>2
  <1>7. CASE Execute(p)
    <2>1. PICK pc, code : proc' = [proc EXCEPT ![p] =
                            [NewProcess(proc[p].starts + 1) EXCEPT !.pc = pc, !.code = code]]
      BY <1>7 DEF Execute
    <2>2. [NewProcess(proc[p].starts + 1) EXCEPT !.pc = pc, !.code = code].refused = FALSE
      BY DEF NewProcess
    <2> QED
      BY <1>1, <2>1, <2>2
  <1>8. CASE Signal(p) \/ Die(p)
    <2>1. [NewProcess(proc[p].starts) EXCEPT !.pc = "exited"].refused = FALSE
      BY DEF NewProcess
    <2>2. CASE Signal(p)
      BY <1>1, <2>2 DEF Signal, Process
    <2> QED
      BY <1>1, <1>8, <2>1, <2>2 DEF Die
  <1> QED
    BY <1>3, <1>4, <1>5, <1>6, <1>7, <1>8 DEF Step

\* Up to the preflight a start finishes a restore, or makes the session database a
\* file, and leaves the databases alone otherwise.
LEMMA EarlySteps ==
  ASSUME IndInv, NEW p \in Processes, proc[p].pc \in Early,
         Step(p) \/ Execute(p) \/ Signal(p) \/ ListenerFails(p) \/ Die(p)
  PROVE  \/ disk' = disk
         \/ disk' = Recovered
         \/ disk.db["sessions"] = "absent" /\ Write(p, "sessions", "empty")
  <1>1. CASE RecoverState(p) \/ OpenSessions(p) \/ StartRecovers(p)
    BY <1>1 DEF RecoverState, OpenSessions, StartRecovers, Recover
  <1>2. CASE Assemble(p) \/ InstallTelemetry(p) \/ BuildPlanes(p) \/ Wire(p) \/ Preflight(p)
    BY <1>2 DEF Assemble, InstallTelemetry, BuildPlanes, Wire, Preflight
  <1>3. CASE BuildHandler(p) \/ Listen(p) \/ Drain(p) \/ StdioEnds(p) \/ Drained(p)
             \/ DrainDeadline(p) \/ Release(p) \/ Exit(p)
    BY <1>3 DEF BuildHandler, Listen, Drain, StdioEnds, Drained, DrainDeadline, Release, Exit
  <1>4. CASE Execute(p) \/ Signal(p) \/ ListenerFails(p) \/ Die(p)
    BY <1>4 DEF Execute, Signal, ListenerFails, Die
  <1>5. ~PrepareDataset(p) /\ ~MigrateSessions(p) /\ ~OpenTasks(p)
    BY DEF PrepareDataset, MigrateSessions, OpenTasks, At, Early
  <1> QED
    BY <1>1, <1>2, <1>3, <1>4, <1>5 DEF Step

\* What a process has changed until the preflight lets it pass is harmless.
Histories ==
  /\ changed \in [Processes -> SUBSET (Databases \X Content \X Content)]
  /\ sound \in [Requests -> SUBSET Databases]
  /\ \A p \in Processes : proc[p].pc \in Early \/ proc[p].refused => changed[p] \subseteq Harmless

LEMMA InitHistories == ASSUME ProcessesAssumption PROVE Init => Histories
  BY DEF Init, Histories, NewProcess, Early

LEMMA NextHistories ==
  ASSUME IndInv, IndInv', Histories, [Next]_vars
  PROVE  Histories'
  <1>1. /\ disk.db \in [Databases -> Content] /\ disk'.db \in [Databases -> Content]
    BY DEF IndInv, Types
  <1>2. CASE UNCHANGED vars
    BY <1>2 DEF vars, programVars, Histories
  <1>3. Next => sound' \in [Requests -> SUBSET Databases]
    <2>1. InOrder' \subseteq Databases
      BY DEF InOrder
    <2> QED
      BY <2>1 DEF Next, Observe, Histories
  <1>4. ASSUME NEW r \in Requests,
               Turn(r) \/ Probe(r) \/ Hear(r) \/ \E p \in Processes : Arrive(r, p)
        PROVE  proc' = proc
    BY <1>4 DEF Turn, Hear, Arrive, Probe, ProbeDataset, ProbeDirectory, ProbeSessions,
      ProbeTasks, ProbeModel, AnswerProbe, Look
  <1>5. DropShared => proc' = proc
    BY DEF DropShared
  <1>6. ASSUME NEW p \in Processes,
               Step(p) \/ Execute(p) \/ Signal(p) \/ ListenerFails(p) \/ Die(p), Change(p)
        PROVE  /\ changed' \in [Processes -> SUBSET (Databases \X Content \X Content)]
               /\ \A q \in Processes : proc'[q].pc \in Early \/ proc'[q].refused =>
                    changed'[q] \subseteq Harmless
    <2> DEFINE diff == {<<d, disk.db[d], disk'.db[d]>> :
                          d \in {e \in Databases : disk'.db[e] # disk.db[e]}}
               new == IF proc[p].pc \in Early THEN changed[p] \cup diff
                      ELSE IF proc'[p].refused THEN changed[p] ELSE {}
    <2>1. changed' = [changed EXCEPT ![p] = new]
      BY <1>6 DEF Change
    <2>2. diff \subseteq Databases \X Content \X Content
      BY <1>1
    <2>3. ASSUME proc[p].pc \in Early PROVE diff \subseteq Harmless
      <3>1. CASE disk' = disk
        BY <3>1
      <3>2. CASE disk' = Recovered
        <4>1. \A d \in Databases : disk'.db[d] # disk.db[d] =>
                disk.db[d] = "torn" /\ disk'.db[d] = "current"
          BY <3>2 DEF Recovered
        <4> QED
          BY <4>1 DEF Harmless
      <3>3. CASE disk.db["sessions"] = "absent" /\ Write(p, "sessions", "empty")
        <4>1. \A d \in Databases : disk'.db[d] # disk.db[d] =>
                d = "sessions" /\ disk.db[d] = "absent" /\ disk'.db[d] = "empty"
          BY <1>1, <3>3, ProcType DEF Write, Disk
        <4> QED
          BY <4>1 DEF Harmless
      <3> QED
        BY <1>6, <2>3, <3>1, <3>2, <3>3, EarlySteps
    <2> HIDE DEF diff
    <2>4. new \in SUBSET (Databases \X Content \X Content)
      BY <2>2 DEF Histories
    <2>5. proc'[p].pc \in Early \/ proc'[p].refused => new \subseteq Harmless
      <3>1. CASE proc[p].pc \in Early
        BY <2>3, <3>1 DEF Histories
      <3>2. CASE proc[p].pc \notin Early /\ proc'[p].refused
        <4>1. ~Preflight(p)
          BY <3>2 DEF Preflight, At, Early
        <4>2. proc[p].refused
          BY <1>6, <3>2, <4>1, RefusedBefore
        <4> QED
          BY <3>2, <4>2 DEF Histories
      <3> QED
        BY <3>1, <3>2
    <2> HIDE DEF new
    <2>6. \A q \in Processes : changed'[q] = IF q = p THEN new ELSE changed[q]
      BY <2>1 DEF Histories
    <2>7. \A q \in Processes : q # p => proc'[q] = proc[q]
      BY <1>6, Alone
    <2>8. \A q \in Processes : proc'[q].pc \in Early \/ proc'[q].refused =>
            changed'[q] \subseteq Harmless
      BY <2>5, <2>6, <2>7 DEF Histories
    <2> QED
      BY <2>1, <2>4, <2>8 DEF Histories
  <1> QED
    BY <1>2, <1>3, <1>4, <1>5, <1>6 DEF Next, Histories

\* In every reachable state what the starts have changed until their preflight is
\* harmless (openSQLiteSessionStore, Server.Start).
THEOREM Historic == ProcessesAssumption => (Spec => []Histories)
  <1> SUFFICES ASSUME ProcessesAssumption PROVE Spec => []Histories
    OBVIOUS
  <1>1. Init => Histories
    BY InitHistories
  <1>2. IndInv /\ IndInv' /\ Histories /\ [Next]_vars => Histories'
    BY NextHistories
  <1> QED
    BY <1>1, <1>2, Inductive, PTL DEF Spec

\* Every variable keeps its type: in particular what a way out releases is a part the
\* process may hold (agentRuntime.close, Server.Close).
THEOREM TypeCorrect == ProcessesAssumption => (Spec => []TypeOK)
  <1>1. IndInv /\ Histories => TypeOK
    BY DEF IndInv, Histories, Types, TypeOK
  <1> QED
    BY <1>1, Inductive, Historic, PTL

\* A start that the preflight refused has finished a restore that died and made an
\* absent session database an empty one, and changed nothing else of the databases
\* (openSQLiteSessionStore, Server.Start, preflightStateStores).
THEOREM Refusal == ProcessesAssumption => (Spec => []RefusedUntouched)
  <1>1. Histories => RefusedUntouched
    BY DEF Histories, RefusedUntouched
  <1> QED
    BY <1>1, Historic, PTL

\* However a process ends, it releases what it holds once and in order, the flush
\* last and never left out unless it is killed; and no request is cut by the orderly
\* end of a process (Server.Serve, Server.Close).
THEOREM WayOut == ProcessesAssumption => (Spec => []ReleasedInOrder)
  <1>1. ASSUME IndInv, TypeOK PROVE ReleasedInOrder
    <2>1. ASSUME NEW p \in Processes
          PROVE  LET out == proc[p].released IN
                 /\ \A i, j \in DOMAIN out : out[i] = out[j] => i = j
                 /\ proc[p].pc = "exited" => "telemetry" \notin proc[p].held
                 /\ \A i \in DOMAIN out : out[i] = "telemetry" => i = Len(out)
      <3>1. proc[p] \in Process /\ Sane(proc[p])
        BY <1>1, ProcType
      <3>2. /\ proc[p].released \in Seq(Parts) /\ proc[p].release \in Seq(Parts)
            /\ proc[p].released \o proc[p].release \in Plans
        BY <3>1 DEF Process, Parts, Sane
      <3>3. proc[p].pc = "exited" => "telemetry" \notin proc[p].held
        BY <3>1 DEF Sane, Leaving
      <3> QED
        BY <3>2, <3>3, Prefix
    <2> QED
      BY <1>1, <2>1 DEF ReleasedInOrder, ReleasedOnce, IndInv
  <1> QED
    BY <1>1, Inductive, TypeCorrect, PTL

-----------------------------------------------------------------------------
(* Readiness *)

\* Until its recovery a torn generation has a torn dataset, and nobody gets to the
\* dataset without one.
Generation ==
  /\ disk.journal => disk.db["dataset"] = "torn"
  /\ \A p \in Processes : proc[p].pc \in {"preflight", "dataset"} => ~disk.journal

LEMMA InitGeneration == ASSUME ProcessesAssumption, TornTogether PROVE Init => Generation
  <1> SUFFICES ASSUME Init PROVE Generation
    OBVIOUS
  <1>1. PICK found \in Found :
          disk = [journal |-> "torn" \in {found[d] : d \in Databases}, db |-> found]
    BY DEF Init
  <1>2. disk.journal => disk.db["dataset"] = "torn"
    BY <1>1 DEF TornTogether
  <1>3. \A p \in Processes : proc[p].pc = "idle"
    BY DEF Init, NewProcess
  <1> QED
    BY <1>2, <1>3 DEF Generation

Near == {"preflight", "dataset"}
Stays == \A q \in Processes : proc'[q].pc \in Near => proc[q].pc \in Near

\* A step that goes on to somewhere else, or leaves.
LEMMA Elsewhere ==
  ASSUME IndInv, NEW p \in Processes, NEW pc, pc \notin Near \/ proc[p].pc \in Near,
         \/ Goto(p, pc)
         \/ \E what : Hold(p, what, pc)
         \/ \E ok, plan : Leave(p, ok, plan)
  PROVE  Stays
  <1>1. /\ DOMAIN proc = Processes /\ proc \in [Processes -> Process]
        /\ proc[p] \in Process
    BY ProcType DEF IndInv, Types
  <1>2. CASE Goto(p, pc)
    BY <1>1, <1>2 DEF Goto, Process, Stays, Near
  <1>3. ASSUME NEW what, Hold(p, what, pc) PROVE Stays
    BY <1>1, <1>3 DEF Hold, Process, Stays, Near
  <1>4. ASSUME NEW ok, NEW plan, Leave(p, ok, plan) PROVE Stays
    BY <1>1, <1>4 DEF Leave, Process, Stays, Near
  <1> QED
    BY <1>2, <1>3, <1>4

\* What a step leaves of the generation: all of it, or a recovered one, or it writes
\* another database, or the dataset after a recovery.
LEMMA Leftover ==
  ASSUME IndInv, Generation,
         \/ disk' = disk /\ Stays
         \/ disk' = Recovered
         \/ /\ Stays
            /\ \E p, content : \E d \in Databases \ {"dataset"} : Write(p, d, content)
         \/ ~disk.journal /\ disk'.journal = disk.journal
  PROVE  Generation'
  <1>1. disk.db \in [Databases -> Content] /\ disk \in Disk
    BY DEF IndInv, Types, Disk
  <1>2. CASE disk' = disk /\ Stays
    BY <1>2 DEF Generation, Stays, Near
  <1>3. CASE disk' = Recovered
    BY <1>3 DEF Generation, Recovered
  <1>4. ASSUME NEW p, NEW content, NEW d \in Databases \ {"dataset"}, Write(p, d, content), Stays
        PROVE  Generation'
    <2>1. disk'.journal = disk.journal /\ disk'.db["dataset"] = disk.db["dataset"]
      BY <1>1, <1>4, DatabaseNames DEF Write, Disk
    <2> QED
      BY <1>4, <2>1 DEF Generation, Stays, Near
  <1>5. CASE ~disk.journal /\ disk'.journal = disk.journal
    BY <1>5 DEF Generation
  <1> QED
    BY <1>2, <1>3, <1>4, <1>5

LEMMA NextGeneration ==
  ASSUME IndInv, Generation, [Next]_vars
  PROVE  Generation'
  <1>1. /\ DOMAIN proc = Processes /\ proc \in [Processes -> Process]
        /\ disk \in Disk /\ disk.db \in [Databases -> Content]
    BY DEF IndInv, Types, Disk
  <1>2. ASSUME NEW p \in Processes, NEW next, NEW release, Recover(p, next, release)
        PROVE  Generation'
    BY <1>2, Elsewhere, Leftover DEF Recover
  <1>3. ASSUME NEW p \in Processes,
               \/ Assemble(p) \/ BuildPlanes(p) \/ Wire(p) \/ BuildHandler(p)
               \/ Listen(p) \/ Drain(p) \/ Drained(p) \/ Exit(p)
        PROVE  disk' = disk /\ Stays
    <2>1. disk' = disk
      BY <1>3 DEF Assemble, BuildPlanes, Wire, BuildHandler, Listen, Drain, Drained, Exit
    <2>2. \/ \E pc \in {"telemetry", "sessions", "listen", "start", "serving", "draining",
                        "exited"} : Goto(p, pc)
          \/ \E ok, plan : Leave(p, ok, plan)
      BY <1>3 DEF Assemble, BuildPlanes, Wire, BuildHandler, Listen, Drain, Drained, Exit
    <2>3. \A pc \in {"telemetry", "sessions", "listen", "start", "serving", "draining",
                     "exited"} : pc \notin Near
      BY DEF Near
    <2> QED
      BY <2>1, <2>2, <2>3, Elsewhere
  <1>4. ASSUME NEW p \in Processes, Preflight(p) PROVE disk' = disk /\ Stays
    <2>1. proc[p].pc \in Near /\ disk' = disk
      BY <1>4 DEF Preflight, At, Near
    <2>2. CASE Goto(p, "dataset") \/ Leave(p, FALSE, <<"telemetry">>)
      BY <2>1, <2>2, Elsewhere
    <2>3. CASE proc' = [proc EXCEPT ![p].pc = "unwind", ![p].code = "invalid",
                          ![p].release = <<"telemetry">>, ![p].refused = TRUE]
      BY <1>1, <2>1, <2>3 DEF Process, Stays, Near
    <2> QED
      BY <1>4, <2>1, <2>2, <2>3 DEF Preflight, StartFails
  <1>5. ASSUME NEW p \in Processes,
               InstallTelemetry(p) \/ ListenerFails(p) \/ StdioEnds(p) \/ DrainDeadline(p)
        PROVE  disk' = disk /\ Stays
    <2>1. disk' = disk
      BY <1>5 DEF InstallTelemetry, ListenerFails, StdioEnds, DrainDeadline
    <2>2. \A q \in Processes : q # p => proc'[q] = proc[q]
      BY <1>1, <1>5 DEF InstallTelemetry, Hold, ListenerFails, StdioEnds, DrainDeadline
    <2>3. proc'[p].pc \in {"planes", "unwind"}
      <3>1. DOMAIN proc[p] = DOMAIN NewProcess(0)
        BY <1>1 DEF Process, NewProcess
      <3>2. "pc" \in DOMAIN proc[p]
        BY <3>1 DEF NewProcess
      <3>3. CASE InstallTelemetry(p)
        BY <1>1, <3>2, <3>3 DEF InstallTelemetry, Hold
      <3>4. CASE ListenerFails(p) \/ StdioEnds(p) \/ DrainDeadline(p)
        BY <1>1, <3>2, <3>4 DEF ListenerFails, StdioEnds, DrainDeadline
      <3> QED
        BY <1>5, <3>3, <3>4
    <2> QED
      BY <2>1, <2>2, <2>3 DEF Stays, Near
  <1>6. ASSUME NEW p \in Processes, Execute(p) \/ Signal(p) \/ Release(p) \/ Die(p)
        PROVE  disk' = disk /\ Stays
    <2>1. CASE Execute(p)
      <3>1. PICK accepted \in BOOLEAN :
              proc' = [proc EXCEPT ![p] =
                [NewProcess(proc[p].starts + 1) EXCEPT
                   !.pc = IF ~accepted THEN "unwind"
                          ELSE IF Conversational(p) THEN "recover" ELSE "assemble",
                   !.code = IF accepted THEN "none" ELSE "invalid"]]
        BY <2>1 DEF Execute
      <3>2. proc'[p].pc \in {"unwind", "recover", "assemble"}
        BY <1>1, <3>1 DEF NewProcess
      <3>3. disk' = disk /\ \A q \in Processes : q # p => proc'[q] = proc[q]
        BY <1>1, <2>1, <3>1 DEF Execute
      <3> QED
        BY <3>2, <3>3 DEF Stays, Near
    <2>2. CASE Signal(p)
      BY <1>1, <2>2 DEF Signal, Process, Stays, Near
    <2>3. CASE Release(p)
      <3>1. proc[p].pc = "unwind" /\ disk' = disk
        BY <2>3 DEF Release, At
      <3>2. PICK what, code :
              proc' = [proc EXCEPT ![p].release = Tail(@), ![p].released = Append(@, what),
                         ![p].held = @ \ {what}, ![p].code = code]
        BY <2>3 DEF Release
      <3> QED
        BY <1>1, <3>1, <3>2 DEF Process, Stays, Near
    <2>4. CASE Die(p)
      <3>1. [NewProcess(proc[p].starts) EXCEPT !.pc = "exited"].pc \notin Near
        BY DEF NewProcess, Near
      <3> QED
        BY <1>1, <2>4, <3>1 DEF Die, Stays
    <2> QED
      BY <1>6, <2>1, <2>2, <2>3, <2>4
  <1>7. ASSUME NEW p \in Processes, OpenSessions(p) PROVE Generation'
    <2>1. Stays
      <3>1. PICK pc \in {"wire", "migrate"} :
              Hold(p, "sessions", pc) \/ Leave(p, FALSE, <<"telemetry">>)
        BY <1>7 DEF OpenSessions
      <3> QED
        BY <3>1, Elsewhere DEF Near
    <2>2. disk' = disk \/ Write(p, "sessions", "empty")
      BY <1>7 DEF OpenSessions
    <2> QED
      BY <2>1, <2>2, Leftover, DatabaseNames
  <1>8. ASSUME NEW p \in Processes, PrepareDataset(p) PROVE Generation'
    <2>1. ~disk.journal /\ proc[p].pc \in Near
      BY <1>8 DEF PrepareDataset, At, Generation, Near
    <2>2. CASE Write(p, "dataset", "current")
      <3>1. disk'.journal = disk.journal
        BY <1>1, <2>2 DEF Write, Disk
      <3> QED
        BY <2>1, <3>1, Leftover
    <2>3. CASE Leave(p, FALSE, <<"telemetry">>) /\ UNCHANGED disk
      BY <2>1, <2>3, Elsewhere, Leftover
    <2> QED
      BY <1>8, <2>2, <2>3 DEF PrepareDataset, StartFails
  <1>9. ASSUME NEW p \in Processes, MigrateSessions(p) PROVE Generation'
    <2>1. Stays
      <3>1. \/ \E pc \in {"migrate", "tasks", "listen"} : Goto(p, pc)
            \/ \E ok, plan : Leave(p, ok, plan)
        BY <1>9 DEF MigrateSessions, StartFails
      <3>2. \A pc \in {"migrate", "tasks", "listen"} : pc \notin Near
        BY DEF Near
      <3> QED
        BY <3>1, <3>2, Elsewhere
    <2>2. disk' = disk \/ \E content : Write(p, SessionDatabase, content)
      BY <1>9 DEF MigrateSessions
    <2> QED
      BY <2>1, <2>2, Leftover, DatabaseNames
  <1>10. ASSUME NEW p \in Processes, OpenTasks(p) PROVE Generation'
    <2>1. CASE Write(p, "tasks", "current") /\ Hold(p, "tasks", "handler")
      <3>1. "handler" \notin Near
        BY DEF Near
      <3> QED
        BY <2>1, <3>1, Elsewhere, Leftover, DatabaseNames
    <2>2. CASE Leave(p, FALSE, <<"telemetry">>) /\ UNCHANGED disk
      <3>1. "unwind" \notin Near
        BY DEF Near
      <3> QED
        BY <2>2, <3>1, Elsewhere, Leftover
    <2> QED
      BY <1>10, <2>1, <2>2 DEF OpenTasks, StartFails
  <1>11. ASSUME NEW r \in Requests,
                Turn(r) \/ Probe(r) \/ Hear(r) \/ \E p \in Processes : Arrive(r, p)
         PROVE  disk' = disk /\ Stays
    <2>1. disk' = disk /\ proc' = proc
      BY <1>11 DEF Turn, Hear, Arrive, Probe, ProbeDataset, ProbeDirectory, ProbeSessions,
        ProbeTasks, ProbeModel, AnswerProbe, Look
    <2> QED
      BY <2>1 DEF Stays
  <1>12. CASE DropShared
    <2>1. proc' = proc /\ Write(0, "shared", "absent")
      BY <1>12 DEF DropShared, Write
    <2> QED
      BY <2>1, Leftover, DatabaseNames DEF Stays
  <1>13. CASE UNCHANGED vars
    BY <1>13, Leftover DEF vars, programVars, Stays
  <1>14. ASSUME NEW p \in Processes, Step(p) PROVE Generation'
    BY <1>2, <1>3, <1>4, <1>5, <1>6, <1>7, <1>8, <1>9, <1>10, <1>14, Leftover
      DEF Step, RecoverState, StartRecovers
  <1>15. ASSUME NEW p \in Processes, Execute(p) \/ Signal(p) \/ ListenerFails(p) \/ Die(p)
         PROVE  Generation'
    BY <1>5, <1>6, <1>15, Leftover
  <1> QED
    BY <1>11, <1>12, <1>13, <1>14, <1>15, Leftover DEF Next

\* No step begins a restore, and none changes what serves what.
LEMMA DiskStep ==
  ASSUME IndInv, [Next]_vars
  PROVE  /\ disk'.journal => disk.journal
         /\ backend' = backend /\ kind' = kind
  <1>1. disk \in Disk
    BY DEF IndInv, Types, Disk
  <1>2. disk' = disk \/ disk' = Recovered \/ (\E p, d, content : Write(p, d, content)) =>
          (disk'.journal => disk.journal)
    BY <1>1 DEF Recovered, Write, Disk
  <1>3. ASSUME NEW p \in Processes,
               \/ RecoverState(p) \/ Assemble(p) \/ InstallTelemetry(p) \/ BuildPlanes(p)
               \/ OpenSessions(p) \/ Wire(p) \/ StartRecovers(p) \/ Preflight(p)
               \/ PrepareDataset(p) \/ MigrateSessions(p) \/ OpenTasks(p)
        PROVE  /\ disk' = disk \/ disk' = Recovered \/ \E d, content : Write(p, d, content)
               /\ UNCHANGED Others
    BY <1>3 DEF RecoverState, Recover, Assemble, InstallTelemetry, BuildPlanes, OpenSessions, Wire,
      StartRecovers, Preflight, PrepareDataset, MigrateSessions, OpenTasks
  <1>4. ASSUME NEW p \in Processes,
               \/ BuildHandler(p) \/ Listen(p) \/ Drain(p) \/ StdioEnds(p) \/ Drained(p)
               \/ DrainDeadline(p) \/ Release(p) \/ Exit(p) \/ Execute(p) \/ Signal(p)
               \/ ListenerFails(p) \/ Die(p)
        PROVE  disk' = disk /\ backend' = backend /\ kind' = kind
    BY <1>4 DEF BuildHandler, Listen, Drain, StdioEnds, Drained, DrainDeadline, Release, Exit,
      Execute, Signal, ListenerFails, Die, Others
  <1>5. ASSUME NEW r \in Requests,
               Turn(r) \/ Probe(r) \/ Hear(r) \/ \E p \in Processes : Arrive(r, p)
        PROVE  disk' = disk /\ backend' = backend /\ kind' = kind
    BY <1>5 DEF Turn, Hear, Arrive, Probe, ProbeDataset, ProbeDirectory, ProbeSessions,
      ProbeTasks, ProbeModel, AnswerProbe, Look
  <1>6. CASE DropShared
    <2>1. Write(0, "shared", "absent") /\ backend' = backend /\ kind' = kind
      BY <1>6 DEF DropShared, Write
    <2> QED
      BY <1>2, <2>1
  <1>7. CASE UNCHANGED vars
    BY <1>7 DEF vars, programVars
  <1> QED
    BY <1>2, <1>3, <1>4, <1>5, <1>6, <1>7 DEF Next, Step, Others

\* What becomes of a request: nothing, an answer that says nothing of readiness, its
\* end, or a step of its own.
LEMMA RequestStep ==
  ASSUME IndInv, [Next]_vars, NEW r \in Requests
  PROVE  \/ request'[r] = request[r]
         \/ request'[r].answer \in {"done", "cut", "forced"}
         \/ request'[r] = NoRequest
         \/ \E p \in Processes : Arrive(r, p)
         \/ Probe(r)
  <1>1. /\ DOMAIN request = Requests
        /\ \A q \in Requests : DOMAIN request[q] = {"at", "kind", "stage", "problem", "answer"}
    BY DEF IndInv, Types, Request
  <1>2. ASSUME NEW p \in Processes, Exit(p) \/ Die(p)
        PROVE  request'[r] = request[r] \/ request'[r].answer \in {"cut", "forced"}
    BY <1>1, <1>2 DEF Exit, Die, Cut
  <1>3. ASSUME NEW q \in Requests, Turn(q)
        PROVE  request'[r] = request[r] \/ request'[r].answer \in {"done", "cut", "forced"}
    BY <1>1, <1>3 DEF Turn, Cut
  <1>4. ASSUME NEW q \in Requests, Hear(q)
        PROVE  request'[r] = request[r] \/ request'[r] = NoRequest
    BY <1>1, <1>4 DEF Hear
  <1>5. ASSUME NEW q \in Requests, q # r, Probe(q) \/ \E p \in Processes : Arrive(q, p)
        PROVE  request'[r] = request[r]
    BY <1>1, <1>5 DEF Arrive, Probe, ProbeDataset, ProbeDirectory, ProbeSessions, ProbeTasks,
      ProbeModel, AnswerProbe, Look
  <1>6. ASSUME NEW p \in Processes, Step(p) PROVE Exit(p) \/ request' = request
    BY <1>6 DEF Step, RecoverState, Assemble, InstallTelemetry, BuildPlanes, OpenSessions, Wire,
      StartRecovers, Preflight, PrepareDataset, MigrateSessions, OpenTasks, BuildHandler,
      Listen, Drain, StdioEnds, Drained, DrainDeadline, Release, Others
  <1>7. ASSUME NEW p \in Processes, Execute(p) \/ Signal(p) \/ ListenerFails(p)
        PROVE  request' = request
    BY <1>7 DEF Execute, Signal, ListenerFails, Others
  <1>8. DropShared \/ UNCHANGED vars => request' = request
    BY DEF DropShared, vars, programVars
  <1> QED
    BY <1>2, <1>3, <1>4, <1>5, <1>6, <1>7, <1>8 DEF Next

\* What a probe that has found no problem has passed was in order since it came; and
\* where the dataset was in order there is no restore to recover from.
Passed(q, server, sessions, has) ==
  q.kind = "probe" /\ q.answer = "none" /\ ~q.problem =>
    /\ q.stage # "dataset" => "dataset" \in has
    /\ server = "a2a" /\ q.stage \in {"tasks", "model", "answer"} => sessions \in has
    /\ server = "a2a" /\ q.stage \in {"model", "answer"} => "tasks" \in has

Looked ==
  \A r \in Requests :
    /\ Passed(request[r], kind[request[r].at], SessionDatabase, sound[r])
    /\ "dataset" \in sound[r] => ~disk.journal

LEMMA InitLooked == Init => Looked
  <1> SUFFICES ASSUME Init PROVE Looked
    OBVIOUS
  <1>1. \A r \in Requests : request[r] = NoRequest /\ sound[r] = {}
    BY DEF Init
  <1> QED
    BY <1>1 DEF Looked, Passed, NoRequest

\* A look at something in order goes on with it, one at something that is not leaves
\* a problem.
LEMMA ProbePasses ==
  ASSUME IndInv, NEW r \in Requests, Probe(r), NEW has, NEW more,
         Passed(request[r], kind[request[r].at], SessionDatabase, has), has \subseteq more,
         \A d \in Databases : disk.db[d] = "current" => d \in more
  PROVE  /\ Passed(request'[r], kind[request[r].at], SessionDatabase, more)
         /\ request'[r].at = request[r].at
  <1> DEFINE server == kind[request[r].at]
  <1>1. /\ DOMAIN request = Requests
        /\ DOMAIN request[r] = {"at", "kind", "stage", "problem", "answer"}
        /\ request[r].problem \in BOOLEAN
    BY DEF IndInv, Types, Request
  <1>2. ASSUME NEW inOrder \in BOOLEAN, NEW following, Look(r, inOrder, following)
        PROVE  /\ request'[r].kind = request[r].kind /\ request'[r].answer = request[r].answer
               /\ request'[r].at = request[r].at /\ request'[r].stage = following
               /\ ~request'[r].problem => ~request[r].problem /\ inOrder
    BY <1>1, <1>2 DEF Look
  <1>3. "dataset" \in Databases /\ SessionDatabase \in Databases /\ "tasks" \in Databases
    BY DatabaseNames
  <1>4. CASE AnswerProbe(r)
    <2>1. request'[r].at = request[r].at /\ request'[r].answer \in {"ready", "unready"}
      BY <1>1, <1>4 DEF AnswerProbe
    <2> QED
      BY <2>1 DEF Passed
  <1>5. CASE ProbeDataset(r)
    <2>1. PICK following \in {"directory", "answer"}, inOrder \in BOOLEAN :
            /\ Look(r, inOrder, following)
            /\ inOrder => disk.db["dataset"] = "current"
            /\ following = "answer" => server # "a2a"
      BY <1>5 DEF ProbeDataset
    <2> HIDE DEF server
    <2>2. ~request'[r].problem => "dataset" \in more
      BY <1>2, <1>3, <2>1
    <2> QED
      BY <1>2, <2>1, <2>2 DEF Passed, server
  <1>6. CASE ProbeDirectory(r)
    <2>1. request[r].stage = "directory" /\ \E inOrder \in BOOLEAN : Look(r, inOrder, "sessions")
      BY <1>6 DEF ProbeDirectory, Probing
    <2> QED
      BY <1>2, <2>1 DEF Passed
  <1>7. CASE ProbeSessions(r)
    <2>1. request[r].stage = "sessions"
      BY <1>7 DEF ProbeSessions, Probing
    <2>2. PICK following \in {"tasks", "model"}, inOrder \in BOOLEAN :
            /\ Look(r, inOrder, following)
            /\ inOrder => disk.db[SessionDatabase] = "current" /\ following = "tasks"
      BY <1>7 DEF ProbeSessions, SessionsSound
    <2>3. ~request'[r].problem => SessionDatabase \in more /\ following = "tasks"
      BY <1>2, <1>3, <2>2
    <2> QED
      BY <1>2, <2>1, <2>2, <2>3 DEF Passed
  <1>8. CASE ProbeTasks(r)
    <2>1. request[r].stage = "tasks"
      BY <1>8 DEF ProbeTasks, Probing
    <2>2. PICK inOrder \in BOOLEAN :
            Look(r, inOrder, "model") /\ (inOrder => disk.db["tasks"] = "current")
      BY <1>8 DEF ProbeTasks
    <2>3. ~request'[r].problem => "tasks" \in more
      BY <1>2, <1>3, <2>2
    <2> QED
      BY <1>2, <2>1, <2>2, <2>3 DEF Passed
  <1>9. CASE ProbeModel(r)
    <2>1. request[r].stage = "model" /\ \E inOrder \in BOOLEAN : Look(r, inOrder, "answer")
      BY <1>9 DEF ProbeModel, Probing
    <2> QED
      BY <1>2, <2>1 DEF Passed
  <1> QED
    BY <1>4, <1>5, <1>6, <1>7, <1>8, <1>9 DEF Probe

LEMMA NextLooked ==
  ASSUME IndInv, Generation', Looked, [Next]_vars
  PROVE  Looked'
  <1> SUFFICES ASSUME NEW r \in Requests
               PROVE  /\ Passed(request'[r], kind'[request'[r].at], SessionDatabase', sound'[r])
                      /\ "dataset" \in sound'[r] => ~disk'.journal
    BY DEF Looked
  <1>1. backend' = backend /\ kind' = kind /\ SessionDatabase' = SessionDatabase
        /\ (disk'.journal => disk.journal)
    BY DiskStep DEF SessionDatabase
  <1>2. /\ Passed(request[r], kind[request[r].at], SessionDatabase, sound[r])
        /\ "dataset" \in sound[r] => ~disk.journal
    BY DEF Looked
  <1>3. CASE UNCHANGED vars
    BY <1>1, <1>2, <1>3 DEF vars, programVars
  <1>4. CASE Next
    <2>1. Observe
      BY <1>4 DEF Next
    <2>2. sound'[r] = IF request'[r].kind = "probe" /\ request'[r].answer = "none"
                      THEN sound[r] \cup InOrder' ELSE {}
      BY <2>1 DEF Observe
    <2>3. "dataset" \in sound'[r] => ~disk'.journal
      BY <1>1, <1>2, <2>2 DEF InOrder, Generation
    <2>4. ASSUME request'[r].kind = "probe", request'[r].answer = "none"
          PROVE  Passed(request'[r], kind[request'[r].at], SessionDatabase, sound'[r])
      <3>1. sound[r] \subseteq sound'[r]
            /\ \A d \in Databases : disk'.db[d] = "current" => d \in sound'[r]
        BY <2>2, <2>4 DEF InOrder
      <3>2. CASE request'[r] = request[r]
        BY <1>2, <3>1, <3>2 DEF Passed
      <3>3. CASE request'[r] = NoRequest
        BY <2>4, <3>3 DEF NoRequest
      <3>4. ASSUME NEW p \in Processes, Arrive(r, p)
            PROVE  Passed(request'[r], kind[request'[r].at], SessionDatabase, sound'[r])
        <4>1. request'[r].stage = "dataset"
          BY <3>4 DEF Arrive, NoRequest, IndInv, Types
        <4> QED
          BY <4>1 DEF Passed
      <3>5. CASE Probe(r)
        <4>1. disk' = disk
          BY <3>5 DEF Probe, ProbeDataset, ProbeDirectory, ProbeSessions, ProbeTasks, ProbeModel,
            AnswerProbe, Look
        <4> QED
          BY <1>2, <3>1, <3>5, <4>1, ProbePasses
      <3> QED
        BY <2>4, <3>2, <3>3, <3>4, <3>5, RequestStep
    <2> QED
      BY <1>1, <2>3, <2>4 DEF Passed
  <1> QED
    BY <1>3, <1>4

LEMMA ReadyStep ==
  ASSUME IndInv, Looked, [Next]_vars, NEW r \in Requests,
         request[r].answer = "none", request'[r].answer = "ready"
  PROVE  ~disk.journal /\ Needed(request[r].at) \subseteq sound[r]
  <1>1. /\ DOMAIN request = Requests
        /\ \A q \in Requests : DOMAIN request[q] = {"at", "kind", "stage", "problem", "answer"}
    BY DEF IndInv, Types, Request
  <1>2. ASSUME NEW p \in Processes, Arrive(r, p) PROVE FALSE
    BY <1>1, <1>2 DEF Arrive
  <1>3. Probe(r)
    BY <1>2, RequestStep DEF NoRequest
  <1>4. AnswerProbe(r)
    <2>1. ASSUME NEW inOrder, NEW following, Look(r, inOrder, following) PROVE FALSE
      BY <1>1, <2>1 DEF Look
    <2> QED
      BY <1>3, <2>1 DEF Probe, ProbeDataset, ProbeDirectory, ProbeSessions, ProbeTasks, ProbeModel
  <1>5. /\ request[r].kind = "probe" /\ request[r].stage = "answer" /\ ~request[r].problem
    BY <1>1, <1>4 DEF AnswerProbe, Probing
  <1> QED
    BY <1>5 DEF Looked, Passed, Needed

\* A replica that says it is ready has no restore to recover from, and every store
\* its turns use was in order since the probe came, if a restore tears the dataset
\* with the rest of a generation (handleReadiness, probeStateStores).
THEOREM Readiness == ProcessesAssumption /\ TornTogether => (Spec => ReadyIsTrue)
  <1> SUFFICES ASSUME ProcessesAssumption, TornTogether PROVE Spec => ReadyIsTrue
    OBVIOUS
  <1>1. Spec => []IndInv
    BY Inductive
  <1>2. Init => Generation /\ Looked
    BY InitGeneration, InitLooked
  <1>3. IndInv /\ Generation /\ Looked /\ [Next]_vars => Generation' /\ Looked'
    BY NextGeneration, NextLooked
  <1>4. IndInv /\ Looked /\ [Next]_vars =>
          [\A r \in Requests :
             request[r].answer = "none" /\ request'[r].answer = "ready" =>
               ~disk.journal /\ Needed(request[r].at) \subseteq sound[r]]_vars
    BY ReadyStep
  <1> QED
    BY <1>1, <1>2, <1>3, <1>4, PTL DEF Spec, ReadyIsTrue

-----------------------------------------------------------------------------
(***************************************************************************)
(* The configuration, for any environments. A variable that is not set has *)
(* its default, which no phase objects to (Untouched), so whatever a phase *)
(* reports names a variable that is set. What every phase accepted, the    *)
(* constructors accept but for a deadline that truncates to none.          *)
(***************************************************************************)
\* A configuration in which what the operator left alone has its default.
Untouched(c) == \A v \in Variables \ DOMAIN env : c[v] = Default(v)

Earned(reported) == \A named \in reported : named \intersect DOMAIN env # {}

\* What all three phases accepted.
Admitted(c) ==
  FieldPhase(c) = {} /\ providerProblems(c) = {} /\ crossFieldProblems(c) = {}

Resolved == restoreExplicitEmptyValues(Parsed)

SettingsInv ==
  /\ stage \in {"loaded", "serves", "not built"} => cfg = Resolved /\ Admitted(cfg)
  /\ RefusalsAreEarned
  /\ LoadedIsBuilt

LEMMA ResolvedIsUntouched == Untouched(Resolved)
  BY DEF Untouched, Resolved, restoreExplicitEmptyValues, Parsed, ExplicitlyEmpty

LEMMA AllVariables ==
  /\ DOMAIN Choice \subseteq Variables /\ Names \subseteq Variables /\ Texts \subseteq Variables
  /\ Options \subseteq Variables /\ Limits \subseteq Variables /\ Counts \subseteq Variables
  /\ Deadlines \subseteq Variables /\ Switches \subseteq Variables
  BY DEF Variables, Strings

LEMMA ChoiceIs ==
  /\ DOMAIN Choice = {"AGENT_ENTRYPOINT", "AGENT_MODEL_PROVIDER", "AGENT_SESSION_BACKEND"}
  /\ Choice["AGENT_ENTRYPOINT"] = {"agent", "workflow", "coordinator"}
  /\ Choice["AGENT_MODEL_PROVIDER"] = {"openai-compatible", "gemini"}
  /\ Choice["AGENT_SESSION_BACKEND"] = {"sqlite", "postgres"}
  BY DEF Choice

\* No default is a problem.
LEMMA Defaults ==
  /\ \A v \in DOMAIN Choice : Default(v) \in Choice[v]
  /\ \A v \in Names : Default(v) = "default"
  /\ \A v \in Counts \union Deadlines : Default(v) = "default"
  /\ \A v \in Limits \union Options : Default(v) = "unset"
  /\ Default("AGENT_A2A_PROTOCOL") = "http"
  /\ Default("AGENT_MODEL_PROVIDER") = "openai-compatible"
  /\ Default("AGENT_SESSION_BACKEND") = "sqlite"
  /\ Default("AGENT_SESSION_DSN") = "" /\ Default("AGENT_MCP_URL") = ""
  /\ Default("OPENAI_BASE_URL") = "default" /\ Default("OPENAI_API_KEY") = "default"
  /\ Default("AGENT_PII_MODEL_BASE_URL") = "default"
  <1>1. \A v \in DOMAIN Choice : Default(v) \in Choice[v]
    <2>1. /\ Default("AGENT_ENTRYPOINT") = "agent"
          /\ Default("AGENT_MODEL_PROVIDER") = "openai-compatible"
          /\ Default("AGENT_SESSION_BACKEND") = "sqlite"
      BY DEF Default, Options, Limits, Switches
    <2> QED
      BY <2>1, ChoiceIs
  <1>2. \A v \in Names : Default(v) = "default"
    BY DEF Default, Names, Options, Limits, Switches
  <1>3. \A v \in Counts \union Deadlines : Default(v) = "default"
    BY DEF Default, Counts, Deadlines, Options, Limits, Switches
  <1>4. \A v \in Limits \union Options : Default(v) = "unset"
    BY DEF Default, Limits, Options
  <1>5. /\ Default("AGENT_A2A_PROTOCOL") = "http"
        /\ Default("AGENT_MODEL_PROVIDER") = "openai-compatible"
        /\ Default("AGENT_SESSION_BACKEND") = "sqlite"
        /\ Default("AGENT_SESSION_DSN") = "" /\ Default("AGENT_MCP_URL") = ""
        /\ Default("OPENAI_BASE_URL") = "default" /\ Default("OPENAI_API_KEY") = "default"
        /\ Default("AGENT_PII_MODEL_BASE_URL") = "default"
    BY DEF Default, Options, Limits, Switches
  <1> QED
    BY <1>1, <1>2, <1>3, <1>4, <1>5

LEMMA FieldProblemsEarned ==
  ASSUME NEW c, Untouched(c)
  PROVE  Earned(FieldPhase(c))
  <1> SUFFICES ASSUME NEW v \in Unparsable \union (ExplicitlyEmpty \ Strings)
                                  \union fieldProblems(c)
               PROVE  v \in DOMAIN env
    BY DEF Earned, FieldPhase
  <1>1. CASE v \in Unparsable \union ExplicitlyEmpty
    BY <1>1 DEF Unparsable, ExplicitlyEmpty
  <1>2. CASE v \in fieldProblems(c)
    <2> SUFFICES ASSUME v \notin DOMAIN env
                 PROVE  FALSE
      OBVIOUS
    <2>1. v \in Variables => c[v] = Default(v)
      BY DEF Untouched
    <2>2. "AGENT_A2A_PROTOCOL" \in Texts /\ "AGENT_TRUSTED_IDENTITY_HEADER" \in Options
          /\ "AGENT_MODEL_FALLBACK" \in Options
      BY DEF Texts, Options
    <2>3. ~(v \in DOMAIN Choice /\ c[v] \notin Choice[v])
      BY <2>1, AllVariables, Defaults
    <2>4. ~(v \in Names /\ c[v] = "")
      BY <2>1, AllVariables, Defaults
    <2>5. ~(v \in Counts \union Limits \union Deadlines /\ c[v] = "outside")
      BY <2>1, AllVariables, Defaults
    <2>6. ~(v \in {"AGENT_A2A_PROTOCOL"} /\ c[v] \notin {"http", "https"})
      BY <2>1, <2>2, AllVariables, Defaults
    <2>7. ~(v \in {"AGENT_TRUSTED_IDENTITY_HEADER"} /\ c[v] \in {"", "blank", "bad"})
      BY <2>1, <2>2, AllVariables, Defaults
    <2>8. ~(v \in {"AGENT_MODEL_FALLBACK"} /\ c[v] = "")
      BY <2>1, <2>2, AllVariables, Defaults
    <2> QED
      BY <1>2, <2>3, <2>4, <2>5, <2>6, <2>7, <2>8 DEF fieldProblems
  <1> QED
    BY <1>1, <1>2

LEMMA ProviderProblemsEarned ==
  ASSUME NEW c, Untouched(c)
  PROVE  Earned(providerProblems(c))
  <1> SUFFICES ASSUME NEW named \in providerProblems(c)
               PROVE  \E v \in named : v \in DOMAIN env
    BY DEF Earned
  <1>1. /\ "AGENT_GATEWAY_ENABLED" \in Options /\ "AGENT_MODEL_PROVIDER" \in DOMAIN Choice
        /\ "OPENAI_BASE_URL" \in Texts /\ "OPENAI_API_KEY" \in Texts
    BY ChoiceIs DEF Options, Texts
  <1>2. /\ "AGENT_GATEWAY_ENABLED" \in DOMAIN env \/ c["AGENT_GATEWAY_ENABLED"] = "unset"
        /\ "AGENT_MODEL_PROVIDER" \in DOMAIN env
             \/ c["AGENT_MODEL_PROVIDER"] = "openai-compatible"
        /\ "OPENAI_BASE_URL" \in DOMAIN env \/ c["OPENAI_BASE_URL"] = "default"
        /\ "OPENAI_API_KEY" \in DOMAIN env \/ c["OPENAI_API_KEY"] = "default"
    BY <1>1, AllVariables, Defaults DEF Untouched
  <1>3. CASE c["AGENT_GATEWAY_ENABLED"] # "unset" /\ named = {"AGENT_GATEWAY_ENABLED"}
    BY <1>2, <1>3
  <1>4. CASE c["OPENAI_BASE_URL"] = "" /\ named = {"AGENT_MODEL_PROVIDER", "OPENAI_BASE_URL"}
    BY <1>2, <1>4
  <1>5. CASE /\ TrimSpace(c["OPENAI_API_KEY"]) = ""
             /\ named = {"AGENT_MODEL_PROVIDER", "OPENAI_API_KEY"}
    BY <1>2, <1>5 DEF TrimSpace
  <1>6. CASE c["AGENT_MODEL_PROVIDER"] # "openai-compatible" /\ named \in GeminiProblems(c)
    <2>1. "AGENT_MODEL_PROVIDER" \in named
      BY <1>6 DEF GeminiProblems
    <2> QED
      BY <1>2, <1>6, <2>1
  <1> QED
    BY <1>3, <1>4, <1>5, <1>6 DEF providerProblems

LEMMA CrossFieldProblemsEarned ==
  ASSUME NEW c, Untouched(c)
  PROVE  Earned(crossFieldProblems(c))
  <1> SUFFICES ASSUME NEW named \in crossFieldProblems(c)
               PROVE  \E v \in named : v \in DOMAIN env
    BY DEF Earned
  <1>1. /\ "AGENT_SESSION_BACKEND" \in DOMAIN Choice /\ "AGENT_SESSION_DSN" \in Texts
        /\ "OPENAI_BASE_URL" \in Texts /\ "AGENT_MCP_URL" \in Texts
        /\ "AGENT_PII_MODEL_BASE_URL" \in Texts /\ "AGENT_EMBEDDINGS_URL" \in Names
        /\ "AGENT_MODEL_FALLBACK" \in Options /\ "AGENT_MODEL" \in Names
    BY ChoiceIs DEF Texts, Names, Options
  <1>2. /\ "AGENT_SESSION_BACKEND" \in DOMAIN env \/ c["AGENT_SESSION_BACKEND"] = "sqlite"
        /\ "AGENT_SESSION_DSN" \in DOMAIN env \/ c["AGENT_SESSION_DSN"] = ""
        /\ "OPENAI_BASE_URL" \in DOMAIN env \/ c["OPENAI_BASE_URL"] = "default"
        /\ "AGENT_MCP_URL" \in DOMAIN env \/ c["AGENT_MCP_URL"] = ""
        /\ "AGENT_PII_MODEL_BASE_URL" \in DOMAIN env \/ c["AGENT_PII_MODEL_BASE_URL"] = "default"
        /\ "AGENT_EMBEDDINGS_URL" \in DOMAIN env \/ c["AGENT_EMBEDDINGS_URL"] = "default"
        /\ "AGENT_MODEL_FALLBACK" \in DOMAIN env \/ c["AGENT_MODEL_FALLBACK"] = "unset"
        /\ "AGENT_MODEL" \in DOMAIN env \/ c["AGENT_MODEL"] = "default"
    BY <1>1, AllVariables, Defaults DEF Untouched
  <1>3. CASE named \in sessionStoreProblems(c)
    BY <1>2, <1>3 DEF sessionStoreProblems, TrimSpace
  <1>4. CASE c["AGENT_MODEL_FALLBACK"] = c["AGENT_MODEL"]
             /\ named = {"AGENT_MODEL_FALLBACK", "AGENT_MODEL"}
    BY <1>2, <1>4
  <1>5. ASSUME NEW v, named = {v}, httpURLProblem(c[v]),
               \/ v \in {"AGENT_PII_MODEL_BASE_URL", "AGENT_EMBEDDINGS_URL"}
               \/ v \in {"OPENAI_BASE_URL", "AGENT_MCP_URL"} /\ c[v] # ""
        PROVE  \E u \in named : u \in DOMAIN env
    BY <1>2, <1>5 DEF httpURLProblem
  <1> QED
    BY <1>3, <1>4, <1>5 DEF crossFieldProblems

\* What all phases accepted has, for every variable, what the operator wrote.
LEMMA LoadedAsWritten ==
  ASSUME NEW c, c = Resolved, FieldPhase(c) = {}
  PROVE  \A v \in Variables : c[v] = IF v \in DOMAIN env THEN env[v] ELSE Default(v)
  <1>1. Unparsable = {} /\ ExplicitlyEmpty \subseteq Strings
    BY DEF FieldPhase
  <1> QED
    BY <1>1 DEF Resolved, restoreExplicitEmptyValues, Parsed, ExplicitlyEmpty

\* The constructors of the console ask for nothing that the phases did not.
LEMMA ConstructorsAgree ==
  ASSUME NEW c, Admitted(c)
  PROVE  /\ newPolicy(c) /\ provider(c) /\ newMemory(c) /\ openSessionStore(c)
         /\ newGuard(c) \/ \E v \in {"AGENT_TOOL_TIMEOUT_S", "AGENT_CIRCUIT_RESET_TIMEOUT_S"} :
                             c[v] = "sliver"
         /\ newGuard(c) => newMCPToolset(c)
  <1>1. fieldProblems(c) = {}
    BY DEF Admitted, FieldPhase
  <1>2. /\ c["AGENT_MODEL_PROVIDER"] \in {"openai-compatible", "gemini"}
        /\ c["AGENT_SESSION_BACKEND"] \in {"sqlite", "postgres"}
    BY <1>1, ChoiceIs DEF fieldProblems
  <1>3. /\ c["AGENT_MAX_HISTORY_MESSAGES"] # "outside"
        /\ c["AGENT_MAX_TOKENS_PER_SESSION"] # "outside"
        /\ c["AGENT_MAX_RETRIES"] # "outside"
        /\ c["AGENT_CIRCUIT_FAILURE_THRESHOLD"] # "outside"
    <2>1. \A v \in Counts \union Limits : c[v] # "outside"
      BY <1>1 DEF fieldProblems
    <2> QED
      BY <2>1 DEF Counts, Limits
  <1>4. c["AGENT_STATE_DIR"] # ""
    <2>1. \A v \in Names : c[v] # ""
      BY <1>1 DEF fieldProblems
    <2> QED
      BY <2>1 DEF Names
  <1>5. provider(c)
    <2>1. CASE c["AGENT_MODEL_PROVIDER"] = "openai-compatible"
      <3>1. c["OPENAI_BASE_URL"] # "" /\ TrimSpace(c["OPENAI_API_KEY"]) # ""
        BY <2>1 DEF Admitted, providerProblems
      <3> QED
        BY <2>1, <3>1 DEF provider, openAIProvider
    <2>2. CASE c["AGENT_MODEL_PROVIDER"] = "gemini"
      <3>1. GeminiProblems(c) = {}
        BY <2>2 DEF Admitted, providerProblems
      <3>2. \/ TrimSpace(c["GOOGLE_API_KEY"]) # ""
            \/ /\ Enterprise(c)
               /\ TrimSpace(c["GOOGLE_CLOUD_PROJECT"]) # ""
               /\ TrimSpace(c["GOOGLE_CLOUD_LOCATION"]) # ""
        BY <3>1 DEF GeminiProblems
      <3> QED
        BY <2>2, <3>2 DEF provider, geminiClientConfig, TrimSpace
    <2> QED
      BY <1>2, <2>1, <2>2
  <1>6. newGuard(c) \/ \E v \in {"AGENT_TOOL_TIMEOUT_S", "AGENT_CIRCUIT_RESET_TIMEOUT_S"} :
                         c[v] = "sliver"
    BY <1>3 DEF newGuard, Duration
  <1>7. newGuard(c) => newMCPToolset(c)
    BY DEF newGuard, newMCPToolset
  <1> QED
    BY <1>2, <1>3, <1>4, <1>5, <1>6, <1>7, ChoiceIs
    DEF newPolicy, newMemory, openSessionStore

LEMMA ConsoleConstructors ==
  /\ DOMAIN Constructors("console") = 1 .. 6
  /\ Constructors("console")[1] = "guard" /\ Constructors("console")[2] = "policy"
  /\ Constructors("console")[3] = "model" /\ Constructors("console")[4] = "memory"
  /\ Constructors("console")[5] = "mcp" /\ Constructors("console")[6] = "sessions"
  <1>1. Constructors("console")
          = <<"guard", "policy", "model", "memory", "mcp", "sessions">> \o <<>>
    BY DEF Constructors
  <1>2. Constructors("console") = <<"guard", "policy", "model", "memory", "mcp", "sessions">>
    BY <1>1
  <1> QED
    BY <1>2

LEMMA InitSettings ==
  ASSUME SettingsInit
  PROVE  SettingsInv
  BY DEF SettingsInit, SettingsInv, RefusalsAreEarned, LoadedIsBuilt

LEMMA LoadStep ==
  ASSUME SettingsInv, Load
  PROVE  SettingsInv'
  <1> DEFINE c == Resolved
             phases == <<FieldPhase(c), providerProblems(c), crossFieldProblems(c)>>
  <1>1. /\ stage = "start" /\ env' = env /\ surface' = surface /\ refuser' = refuser
        /\ \/ /\ \A i \in DOMAIN phases : phases[i] = {}
              /\ stage' = "loaded" /\ cfg' = c /\ problems' = problems
           \/ \E i \in DOMAIN phases : stage' = "refused" /\ problems' = phases[i] /\ cfg' = cfg
    BY DEF Load, Resolved
  <1>2. Earned(FieldPhase(c)) /\ Earned(providerProblems(c)) /\ Earned(crossFieldProblems(c))
    BY ResolvedIsUntouched, FieldProblemsEarned, ProviderProblemsEarned, CrossFieldProblemsEarned
  <1>3. \A i \in DOMAIN phases : Earned(phases[i])
    BY <1>2
  <1>4. CASE /\ \A i \in DOMAIN phases : phases[i] = {}
             /\ stage' = "loaded" /\ cfg' = c /\ problems' = problems
    <2>1. FieldPhase(c) = {} /\ providerProblems(c) = {} /\ crossFieldProblems(c) = {}
      BY <1>4
    <2>2. FieldPhase(c)' = {} /\ providerProblems(c)' = {} /\ crossFieldProblems(c)' = {}
          /\ cfg' = Resolved'
      BY <1>1, <1>4, <2>1
      DEF FieldPhase, Resolved, restoreExplicitEmptyValues, Parsed, Unparsable, ExplicitlyEmpty
    <2>3. cfg' = Resolved' /\ Admitted(cfg)'
      BY <1>4, <2>2 DEF Admitted
    <2>4. RefusalsAreEarned' /\ LoadedIsBuilt'
      BY <1>1, <1>4 DEF SettingsInv, RefusalsAreEarned, LoadedIsBuilt
    <2> QED
      BY <2>3, <2>4 DEF SettingsInv
  <1>5. CASE \E i \in DOMAIN phases :
               stage' = "refused" /\ problems' = phases[i] /\ cfg' = cfg
    <2>1. Earned(problems')
      BY <1>3, <1>5
    <2>2. RefusalsAreEarned'
      BY <1>1, <2>1 DEF Earned, RefusalsAreEarned
    <2> QED
      BY <1>5, <2>2 DEF SettingsInv, LoadedIsBuilt
  <1> QED
    BY <1>1, <1>4, <1>5

LEMMA BuildStep ==
  ASSUME SettingsInv, NEW s \in {"console", "a2a"}, Build(s)
  PROVE  SettingsInv'
  <1> DEFINE called == Constructors(s)
  <1>1. /\ stage = "loaded" /\ surface' = s
        /\ env' = env /\ cfg' = cfg /\ problems' = problems
        /\ stage' \in {"serves", "not built"}
        /\ stage' = "not built" =>
             \E i \in DOMAIN called : /\ ~Accepts(called[i], cfg)
                                      /\ \A j \in 1 .. (i - 1) : Accepts(called[j], cfg)
                                      /\ refuser' = called[i]
    BY DEF Build
  <1>2. cfg = Resolved /\ Admitted(cfg)
    BY <1>1 DEF SettingsInv
  <1>3. cfg' = Resolved' /\ Admitted(cfg)'
    BY <1>1, <1>2
    DEF Admitted, FieldPhase, Resolved, restoreExplicitEmptyValues, Parsed, Unparsable,
        ExplicitlyEmpty
  <1>4. RefusalsAreEarned'
    BY <1>1 DEF SettingsInv, RefusalsAreEarned
  <1>5. ASSUME stage' = "not built", s = "console"
        PROVE  /\ refuser' = "guard"
               /\ \E v \in {"AGENT_TOOL_TIMEOUT_S", "AGENT_CIRCUIT_RESET_TIMEOUT_S"} :
                    cfg[v] = "sliver"
    <2>1. PICK i \in DOMAIN called : /\ ~Accepts(called[i], cfg)
                                     /\ \A j \in 1 .. (i - 1) : Accepts(called[j], cfg)
                                     /\ refuser' = called[i]
      BY <1>1, <1>5
    <2>2. i \in 1 .. 6 /\ called[1] = "guard"
      BY <1>5, ConsoleConstructors
    <2>3. /\ Accepts("policy", cfg) /\ Accepts("model", cfg) /\ Accepts("memory", cfg)
          /\ Accepts("sessions", cfg)
          /\ Accepts("guard", cfg) <=> newGuard(cfg)
          /\ Accepts("mcp", cfg) <=> newMCPToolset(cfg)
      BY <1>2, ConstructorsAgree DEF Accepts
    <2>4. i # 2 /\ i # 3 /\ i # 4 /\ i # 6
      BY <1>5, <2>1, <2>3, ConsoleConstructors
    <2>5. ~newGuard(cfg)
      <3>1. CASE i = 1
        BY <2>1, <2>2, <2>3, <3>1
      <3>2. CASE i = 5
        <4>1. ~newMCPToolset(cfg)
          BY <1>5, <2>1, <2>3, <3>2, ConsoleConstructors
        <4> QED
          BY <1>2, <4>1, ConstructorsAgree
      <3> QED
        BY <2>2, <2>4, <3>1, <3>2
    <2>6. i = 1
      <3>1. i # 1 => Accepts(called[1], cfg)
        BY <2>1, <2>2
      <3> QED
        BY <2>2, <2>3, <2>5, <3>1
    <2> QED
      BY <1>2, <2>1, <2>2, <2>5, <2>6, ConstructorsAgree
  <1>6. LoadedIsBuilt'
    BY <1>1, <1>5 DEF LoadedIsBuilt
  <1> QED
    BY <1>3, <1>4, <1>6 DEF SettingsInv

\* SettingsAreHonest, for any environments: an accepted configuration is what the operator
\* wrote, a refusal names something that was written, and the console of an accepted one
\* is built unless a deadline truncates to none (config.go: LoadFrom; runtime.go).
THEOREM HonestSettings == SettingsSpec => []SettingsAreHonest
  <1>1. SettingsInit => SettingsInv
    BY InitSettings
  <1>2. SettingsInv /\ [SettingsNext]_settingsVars => SettingsInv'
    <2> SUFFICES ASSUME SettingsInv, [SettingsNext]_settingsVars
                 PROVE  SettingsInv'
      OBVIOUS
    <2>1. CASE UNCHANGED settingsVars
      BY <2>1
      DEF settingsVars, SettingsInv, RefusalsAreEarned, LoadedIsBuilt, Admitted, FieldPhase,
          Resolved, restoreExplicitEmptyValues, Parsed, Unparsable, ExplicitlyEmpty
    <2> QED
      BY <2>1, LoadStep, BuildStep DEF SettingsNext, SettingsDone
  <1>3. SettingsInv => SettingsAreHonest
    <2> SUFFICES ASSUME SettingsInv
                 PROVE  NothingReplaced
      BY DEF SettingsInv, SettingsAreHonest
    <2> QED
      BY LoadedAsWritten DEF SettingsInv, NothingReplaced, Admitted
  <1> QED
    BY <1>1, <1>2, <1>3, PTL DEF SettingsSpec

-----------------------------------------------------------------------------
(***************************************************************************)
(* The guardrails, for any tools, trust, policies and lengths of a session.*)
(* A result follows the answer that asked for it with nothing but results  *)
(* between them (AskedFor), so a window that does not start with a result   *)
(* has the call of every result it has.                                    *)
(***************************************************************************)
CallRecord == [tool : Tools, argument : Arguments, private : BOOLEAN]
MessageRecord ==
  [kind : {"text", "calls", "result"}, private : BOOLEAN, calls : SUBSET CallRecord,
   plain : SUBSET Tools]

AskedFor(messages, i) ==
  \E j \in 1 .. (i - 1) :
    /\ messages[j].kind = "calls" /\ messages[i].calls \subseteq messages[j].calls
    /\ \A k \in (j + 1) .. i : messages[k].kind = "result"

GuardTyped ==
  /\ policy \in Policies
  /\ history \in Seq(MessageRecord)
  /\ calls \in SUBSET CallRecord
  /\ ran \in SUBSET CallRecord

\* Whatever is kept but the user's words was masked before.
Kept == \A i \in DOMAIN history : history[i].private => history[i].kind = "text"

\* What was asked last waits for its results, and nothing else was said since.
Pending ==
  /\ phase = "tools" =>
       \E j \in DOMAIN history :
         /\ history[j].kind = "calls" /\ calls \subseteq history[j].calls
         /\ \A k \in (j + 1) .. Len(history) : history[k].kind = "result"
  /\ phase # "tools" => calls = {}

Said ==
  /\ phase \in {"model", "answer"} => history # <<>>
  /\ phase = "answer" => sent = RedactRequest(CompactHistory(history))
  /\ \A i \in DOMAIN sent : ~sent[i].private /\ \A c \in sent[i].calls : ~c.private

GuardInv ==
  /\ GuardTyped /\ Kept /\ Pending /\ Said /\ ToolsAreGuarded
  /\ \A i \in DOMAIN history : history[i].kind = "result" => AskedFor(history, i)

-----------------------------------------------------------------------------
(* Messages and their masks *)

LEMMA MessageIs ==
  /\ \A private \in BOOLEAN : Message("text", private) \in MessageRecord
  /\ \A what, private : /\ Message(what, private).kind = what
                        /\ Message(what, private).private = private
                        /\ Message(what, private).calls = {}
                        /\ Message(what, private).plain = {}
  BY DEF Message, MessageRecord

LEMMA AskingIs ==
  ASSUME NEW asked \in SUBSET CallRecord
  PROVE  /\ Asking(asked) \in MessageRecord
         /\ Asking(asked).kind = "calls" /\ Asking(asked).calls = asked
         /\ Asking(asked).plain = {}
  BY DEF Asking, Message, MessageRecord

LEMMA ResultIs ==
  ASSUME NEW c \in CallRecord, NEW plain \in SUBSET Tools
  PROVE  LET r == Result(c, FALSE, plain)
         IN  /\ r \in MessageRecord /\ r.kind = "result" /\ r.private = FALSE
             /\ r.calls = {c} /\ r.plain = plain
  BY DEF Result, Message, MessageRecord

LEMMA MaskedMessage ==
  ASSUME NEW message \in MessageRecord
  PROVE  /\ Masked(message) \in MessageRecord
         /\ Masked(message).kind = message.kind
         /\ Masked(message).private = FALSE
         /\ Masked(message).plain = message.plain
         /\ Masked(message).calls = {[c EXCEPT !.private = FALSE] : c \in message.calls}
         /\ \A c \in Masked(message).calls : ~c.private
  <1> DEFINE quiet == {[c EXCEPT !.private = FALSE] : c \in message.calls}
  <1>1. \A c \in message.calls : [c EXCEPT !.private = FALSE] \in CallRecord
                                 /\ ~[c EXCEPT !.private = FALSE].private
    BY DEF MessageRecord, CallRecord
  <1>2. quiet \in SUBSET CallRecord /\ \A c \in quiet : ~c.private
    BY <1>1
  <1>3. Masked(message) = [message EXCEPT !.private = FALSE, !.calls = quiet]
    BY DEF Masked
  <1> HIDE DEF quiet
  <1>4. /\ Masked(message) \in MessageRecord
        /\ Masked(message).kind = message.kind /\ Masked(message).private = FALSE
        /\ Masked(message).plain = message.plain /\ Masked(message).calls = quiet
    BY <1>2, <1>3 DEF MessageRecord
  <1> QED
    BY <1>2, <1>4 DEF quiet

LEMMA MaskedMarker ==
  ASSUME NEW elided
  PROVE  LET marker == compactionMarker(elided)
         IN  /\ marker.kind = "marker" /\ marker.elided = Len(elided)
             /\ marker.tools = UNION {{c.tool.name : c \in elided[i].calls} :
                                        i \in {j \in DOMAIN elided : elided[j].kind = "calls"}}
             /\ Masked(marker).kind = "marker" /\ Masked(marker).private = FALSE
             /\ Masked(marker).calls = {} /\ Masked(marker).elided = marker.elided
             /\ Masked(marker).tools = marker.tools
  BY DEF compactionMarker, Masked

-----------------------------------------------------------------------------
(* The window *)

Smaller(c, cuts) == {d \in cuts : d < c}

\* A finite set of numbers has a least one.
LEMMA LeastOf ==
  ASSUME NEW cuts, cuts \subseteq Int, IsFiniteSet(cuts), cuts # {}
  PROVE  Min(cuts) \in cuts /\ \A c \in cuts : Min(cuts) <= c
  <1> DEFINE Family == {Smaller(c, cuts) : c \in cuts}
  <1>1. IsWellFoundedOn(StrictSubsetOrdering(cuts), FiniteSubsetsOf(cuts))
    BY FS_StrictSubsetOrderingWellFounded
  <1>2. FiniteSubsetsOf(cuts) = SUBSET cuts
    BY FS_FiniteSubsetsOfFinite
  <1>3. Family \subseteq SUBSET cuts /\ Family # {}
    BY DEF Smaller
  <1>4. PICK m \in Family : \A n \in Family : <<n, m>> \notin StrictSubsetOrdering(cuts)
    <2> HIDE DEF Family
    <2>1. IsWellFoundedOn(StrictSubsetOrdering(cuts), SUBSET cuts)
      BY <1>1, <1>2
    <2> QED
      BY <1>3, <2>1, WFMin
  <1>5. PICK c \in cuts : m = Smaller(c, cuts)
    BY <1>4
  <1>6. ASSUME NEW d \in Smaller(c, cuts)
        PROVE  FALSE
    <2>1. d \in cuts /\ d < c /\ d \in Int /\ c \in Int
      BY DEF Smaller
    <2>2. Smaller(d, cuts) \subseteq Smaller(c, cuts)
      <3>1. ASSUME NEW e \in cuts, e < d
            PROVE  e < c
        BY <2>1, <3>1
      <3> QED
        BY <3>1 DEF Smaller
    <2>3. d \notin Smaller(d, cuts)
      BY <2>1 DEF Smaller
    <2>4. Smaller(d, cuts) # m /\ Smaller(d, cuts) \subseteq m
      BY <1>5, <2>2, <2>3
    <2>5. Smaller(d, cuts) \in Family /\ Smaller(d, cuts) \in SUBSET cuts /\ m \in SUBSET cuts
      BY <1>3, <1>4, <2>1
    <2>6. <<Smaller(d, cuts), m>> \in StrictSubsetOrdering(cuts)
      BY <2>4, <2>5 DEF StrictSubsetOrdering
    <2> QED
      BY <1>4, <2>5, <2>6
  <1>7. \A d \in cuts : c <= d
    BY <1>6 DEF Smaller
  <1> QED
    BY <1>5, <1>7 DEF Min

\* What the model is sent: all of it, or a marker of what was cut off and the rest, which
\* starts with no result unless it is the newest message.
Window(contents, cut) ==
  /\ cut \in 1 .. (Len(contents) - 1) /\ Len(contents) - policy.keep <= cut
  /\ cut = Len(contents) - 1 \/ contents[cut + 1].kind # "result"
  /\ Len(CompactHistory(contents)) = Len(contents) - cut + 1
  /\ DOMAIN CompactHistory(contents) = 1 .. (Len(contents) - cut + 1)
  /\ CompactHistory(contents)[1] = compactionMarker(SubSeq(contents, 1, cut))
  /\ \A i \in 2 .. (Len(contents) - cut + 1) :
       CompactHistory(contents)[i] = contents[cut + i - 1]

LEMMA WindowIs ==
  ASSUME NEW contents \in Seq(MessageRecord), policy.keep \in Nat
  PROVE  \/ /\ policy.keep = 0 \/ Len(contents) <= policy.keep
            /\ CompactHistory(contents) = contents
         \/ policy.keep # 0 /\ \E cut \in Nat : Window(contents, cut)
  <1> DEFINE n == Len(contents)
             keep == policy.keep
             cuts == {c \in (n - keep) .. (n - 1) :
                        c = n - 1 \/ ~hasFunctionResponse(contents[c + 1])}
             cut == Min(cuts)
             marker == compactionMarker(SubSeq(contents, 1, cut))
             rest == SubSeq(contents, cut + 1, n)
  <1>1. CASE keep = 0 \/ n <= keep
    BY <1>1 DEF CompactHistory
  <1>2. CASE keep # 0 /\ n > keep
    <2>1. n \in Nat /\ keep \in Nat \ {0}
      BY <1>2
    <2>2. cuts \subseteq Int /\ n - 1 \in cuts
      BY <2>1
    <2>3. IsFiniteSet((n - keep) .. (n - 1))
      BY <2>1, FS_Interval
    <2>4. IsFiniteSet(cuts)
      BY <2>3, FS_Subset
    <2>5. cut \in cuts
      <3> HIDE DEF cuts
      <3> QED
        BY <2>2, <2>4, LeastOf
    <2>6. /\ cut \in 1 .. (n - 1) /\ n - keep <= cut
          /\ cut = n - 1 \/ contents[cut + 1].kind # "result"
      <3>1. /\ cut \in (n - keep) .. (n - 1)
            /\ cut = n - 1 \/ ~hasFunctionResponse(contents[cut + 1])
        <4> HIDE DEF cut
        <4> QED
          BY <2>5
      <3> HIDE DEF cut
      <3>2. cut \in 1 .. (n - 1) /\ n - keep <= cut
        BY <1>2, <2>1, <3>1
      <3> QED
        BY <3>1, <3>2 DEF hasFunctionResponse
    <2>7. CompactHistory(contents) = <<marker>> \o rest
      <3>1. ~(policy.keep = 0 \/ Len(contents) <= policy.keep)
        BY <1>2, <2>1
      <3> QED
        BY <3>1, Zenon DEF CompactHistory
    <2> HIDE DEF cut
    <2> DEFINE All == MessageRecord \union {marker}
    <2>8. /\ rest \in Seq(All) /\ Len(rest) = n - cut
          /\ \A i \in 1 .. (n - cut) : rest[i] = contents[cut + i]
      <3>1. \A i \in (cut + 1) .. n : contents[i] \in All
        BY <2>1, <2>6
      <3>2. cut + 1 \in Int /\ n \in Int /\ cut + 1 <= n /\ n - (cut + 1) + 1 = n - cut
        BY <2>1, <2>6
      <3> HIDE DEF All
      <3>3. /\ rest \in Seq(All) /\ Len(rest) = n - (cut + 1) + 1
            /\ \A i \in 1 .. n - (cut + 1) + 1 : rest[i] = contents[cut + 1 + i - 1]
        BY <3>1, <3>2, SubSeqProperties
      <3>4. \A i \in 1 .. (n - cut) : rest[i] = contents[cut + i]
        <4> TAKE i \in 1 .. (n - cut)
        <4>1. rest[i] = contents[cut + 1 + i - 1]
          BY <3>2, <3>3
        <4>2. cut + 1 + i - 1 = cut + i
          BY <2>6
        <4> QED
          BY <4>1, <4>2
      <3> QED
        BY <3>2, <3>3, <3>4
    <2> HIDE DEF rest
    <2>9. <<marker>> \in Seq(All) /\ Len(<<marker>>) = 1 /\ <<marker>>[1] = marker
      BY DEF All
    <2> HIDE DEF marker, All
    <2>10. /\ <<marker>> \o rest \in Seq(All)
           /\ Len(<<marker>> \o rest) = n - cut + 1
           /\ \A i \in 1 .. (n - cut + 1) :
                (<<marker>> \o rest)[i] = IF i <= 1 THEN marker ELSE rest[i - 1]
      <3>1. /\ <<marker>> \o rest \in Seq(All)
            /\ Len(<<marker>> \o rest) = Len(<<marker>>) + Len(rest)
            /\ \A i \in 1 .. Len(<<marker>>) + Len(rest) :
                 (<<marker>> \o rest)[i] =
                   IF i <= Len(<<marker>>) THEN <<marker>>[i] ELSE rest[i - Len(<<marker>>)]
        BY <2>8, <2>9, ConcatProperties
      <3>2. Len(<<marker>>) + Len(rest) = n - cut + 1
        BY <2>1, <2>6, <2>8, <2>9
      <3>3. ASSUME NEW i \in 1 .. (n - cut + 1)
            PROVE  (<<marker>> \o rest)[i] = IF i <= 1 THEN marker ELSE rest[i - 1]
        <4>1. (<<marker>> \o rest)[i] =
                IF i <= Len(<<marker>>) THEN <<marker>>[i] ELSE rest[i - Len(<<marker>>)]
          BY <3>1, <3>2
        <4>2. CASE i <= 1
          BY <2>9, <4>1, <4>2
        <4>3. CASE ~(i <= 1)
          BY <2>9, <4>1, <4>3
        <4> QED
          BY <4>2, <4>3
      <3> QED
        BY <3>1, <3>2, <3>3
    <2>11. /\ Len(CompactHistory(contents)) = n - cut + 1
           /\ DOMAIN CompactHistory(contents) = 1 .. (n - cut + 1)
           /\ CompactHistory(contents)[1] = marker
      BY <2>1, <2>6, <2>7, <2>10
    <2>12. ASSUME NEW i \in 2 .. (n - cut + 1)
           PROVE  CompactHistory(contents)[i] = contents[cut + i - 1]
      <3>1. CompactHistory(contents)[i] = rest[i - 1]
        BY <2>1, <2>6, <2>7, <2>10
      <3>2. i - 1 \in 1 .. (n - cut) /\ cut + (i - 1) = cut + i - 1
        BY <2>1, <2>6
      <3> QED
        BY <2>8, <3>1, <3>2
    <2>13. Window(contents, cut)
      BY <2>6, <2>11, <2>12 DEF Window, marker
    <2> QED
      BY <1>2, <2>6, <2>13
  <1> QED
    BY <1>1, <1>2

\* The request is as long as its window, of whose messages each is masked.
LEMMA RequestIs ==
  ASSUME NEW contents \in Seq(MessageRecord), policy.keep \in Nat
  PROVE  LET window == CompactHistory(contents)
             sending == RedactRequest(window)
         IN  /\ Len(window) \in Nat /\ DOMAIN window = 1 .. Len(window)
             /\ Len(sending) = Len(window) /\ DOMAIN sending = 1 .. Len(window)
             /\ \A i \in 1 .. Len(window) : sending[i] = Masked(window[i])
  <1> DEFINE window == CompactHistory(contents)
             m == Len(window)
             sending == RedactRequest(window)
  <1>1. m \in Nat /\ DOMAIN window = 1 .. m
    <2>1. CASE window = contents
      BY <2>1
    <2>2. ASSUME NEW cut \in Nat, Window(contents, cut)
          PROVE  m \in Nat /\ DOMAIN window = 1 .. m
      BY <2>2 DEF Window
    <2> QED
      BY <2>1, <2>2, WindowIs
  <1>2. sending = [i \in 1 .. m |-> Masked(window[i])]
    BY <1>1 DEF RedactRequest
  <1> HIDE DEF window, m, sending
  <1>3. /\ DOMAIN sending = 1 .. m
        /\ \A i \in 1 .. m : sending[i] = Masked(window[i])
    BY <1>2
  <1>4. Len(sending) = m
    BY <1>1, <1>2
  <1> QED
    BY <1>1, <1>3, <1>4 DEF window, m, sending

\* Nothing personal is in a request.
LEMMA RequestIsMasked ==
  ASSUME NEW contents \in Seq(MessageRecord), policy.keep \in Nat,
         NEW i \in DOMAIN RedactRequest(CompactHistory(contents))
  PROVE  LET message == RedactRequest(CompactHistory(contents))[i]
         IN  ~message.private /\ \A c \in message.calls : ~c.private
  <1> DEFINE window == CompactHistory(contents)
  <1>1. i \in 1 .. Len(window) /\ RedactRequest(window)[i] = Masked(window[i])
    BY RequestIs
  <1>2. \/ window[i] \in MessageRecord
        \/ \E elided : window[i] = compactionMarker(elided)
    <2>1. CASE window = contents
      BY <1>1, <2>1
    <2>2. ASSUME NEW cut \in Nat, Window(contents, cut)
          PROVE  \/ window[i] \in MessageRecord
                 \/ \E elided : window[i] = compactionMarker(elided)
      <3>1. CASE i = 1
        BY <2>2, <3>1 DEF Window
      <3>2. CASE i # 1
        <4>1. i \in 2 .. (Len(contents) - cut + 1) /\ cut \in 1 .. (Len(contents) - 1)
              /\ window[i] = contents[cut + i - 1]
          BY <1>1, <2>2, <3>2 DEF Window
        <4>2. cut + i - 1 \in 1 .. Len(contents)
          BY <4>1
        <4> QED
          BY <4>1, <4>2
      <3> QED
        BY <3>1, <3>2
    <2> QED
      BY <2>1, <2>2, WindowIs
  <1>3. CASE window[i] \in MessageRecord
    BY <1>1, <1>3, MaskedMessage
  <1>4. ASSUME NEW elided, window[i] = compactionMarker(elided)
        PROVE  LET message == RedactRequest(CompactHistory(contents))[i]
               IN  ~message.private /\ \A c \in message.calls : ~c.private
    <2>1. /\ Masked(compactionMarker(elided)).private = FALSE
          /\ Masked(compactionMarker(elided)).calls = {}
      BY MaskedMarker
    <2> QED
      BY <1>1, <1>4, <2>1
  <1> QED
    BY <1>2, <1>3, <1>4

LEMMA MarkerIsExact ==
  ASSUME GuardrailsAssumption, GuardInv
  PROVE  MarkerAccounts
  <1> SUFFICES ASSUME phase = "answer", sent[1].kind = "marker"
               PROVE  /\ sent[1].elided + Len(sent) - 1 = Len(history)
                      /\ \A i \in 1 .. sent[1].elided :
                           {c.tool.name : c \in IF history[i].kind = "calls"
                                                  THEN history[i].calls ELSE {}}
                             \subseteq sent[1].tools
    BY DEF MarkerAccounts
  <1> DEFINE window == CompactHistory(history)
             n == Len(history)
  <1>1. /\ history \in Seq(MessageRecord) /\ history # <<>> /\ policy.keep \in Nat
        /\ sent = RedactRequest(window)
    BY DEF GuardInv, GuardTyped, Said, GuardrailsAssumption
  <1>2. n \in Nat \ {0} /\ DOMAIN history = 1 .. n
    BY <1>1
  <1>3. window # history
    <2> SUFFICES ASSUME window = history
                 PROVE  FALSE
      OBVIOUS
    <2>1. 1 \in 1 .. Len(window) /\ sent[1] = Masked(history[1]) /\ history[1] \in MessageRecord
      BY <1>1, <1>2, RequestIs
    <2>2. history[1].kind \in {"text", "calls", "result"}
      BY <2>1 DEF MessageRecord
    <2> QED
      BY <2>1, <2>2, MaskedMessage
  <1>4. PICK cut \in Nat : Window(history, cut)
    BY <1>1, <1>3, WindowIs
  <1> DEFINE elided == SubSeq(history, 1, cut)
  <1>5. /\ cut \in 1 .. (n - 1) /\ Len(window) = n - cut + 1
        /\ window[1] = compactionMarker(elided)
    BY <1>4 DEF Window
  <1>6. sent[1] = Masked(compactionMarker(elided)) /\ Len(sent) = n - cut + 1
    BY <1>1, <1>2, <1>5, RequestIs
  <1>7. /\ elided \in Seq(MessageRecord) /\ Len(elided) = cut
        /\ \A i \in 1 .. cut : elided[i] = history[i]
    <2>1. \A i \in 1 .. cut : history[i] \in MessageRecord
      BY <1>1, <1>2, <1>5
    <2>2. /\ elided \in Seq(MessageRecord) /\ Len(elided) = cut - 1 + 1
          /\ \A i \in 1 .. cut - 1 + 1 : elided[i] = history[1 + i - 1]
      <3>1. 1 \in Int /\ cut \in Int /\ 1 <= cut
        BY <1>5
      <3> QED
        BY <2>1, <3>1, SubSeqProperties
    <2>3. cut - 1 + 1 = cut
      BY <1>5
    <2>4. ASSUME NEW i \in 1 .. cut
          PROVE  elided[i] = history[i]
      <3>1. elided[i] = history[1 + i - 1] /\ 1 + i - 1 = i
        BY <2>2, <2>3
      <3> QED
        BY <3>1
    <2> QED
      BY <2>2, <2>3, <2>4
  <1> HIDE DEF elided
  <1>8. DOMAIN elided = 1 .. cut
    BY <1>7
  <1>9. /\ sent[1].elided = cut
        /\ sent[1].tools = UNION {{c.tool.name : c \in elided[i].calls} :
                                    i \in {j \in DOMAIN elided : elided[j].kind = "calls"}}
    BY <1>6, <1>7, MaskedMarker
  <1>10. ASSUME NEW i \in 1 .. cut
         PROVE  {c.tool.name : c \in IF history[i].kind = "calls" THEN history[i].calls ELSE {}}
                  \subseteq sent[1].tools
    <2>1. CASE history[i].kind = "calls"
      <3>1. i \in {j \in DOMAIN elided : elided[j].kind = "calls"}
        BY <1>7, <1>8, <2>1
      <3>2. {c.tool.name : c \in elided[i].calls} \subseteq sent[1].tools
        BY <1>9, <3>1
      <3> QED
        BY <1>7, <2>1, <3>2
    <2>2. CASE history[i].kind # "calls"
      BY <2>2
    <2> QED
      BY <2>1, <2>2
  <1> HIDE DEF n
  <1>11. sent[1].elided + Len(sent) - 1 = n
    BY <1>2, <1>5, <1>6, <1>9
  <1> QED
    BY <1>9, <1>10, <1>11 DEF n

LEMMA EvidenceIsKept ==
  ASSUME GuardrailsAssumption, GuardInv
  PROVE  EvidenceKept
  <1> DEFINE window == CompactHistory(history)
             n == Len(history)
             m == Len(window)
  <1> SUFFICES ASSUME phase = "answer"
               PROVE  /\ policy.keep # 0 => Len(sent) <= policy.keep + 1
                      /\ sent[Len(sent)].kind = history[n].kind
                      /\ \A i \in 1 .. (Len(sent) - 1) :
                           sent[i].kind = "result" =>
                             \E j \in 1 .. (i - 1) : /\ sent[j].kind = "calls"
                                                     /\ sent[i].calls \subseteq sent[j].calls
    BY DEF EvidenceKept
  <1>1. /\ history \in Seq(MessageRecord) /\ history # <<>> /\ policy.keep \in Nat
        /\ sent = RedactRequest(window)
        /\ \A i \in DOMAIN history : history[i].kind = "result" => AskedFor(history, i)
    BY DEF GuardInv, GuardTyped, Said, GuardrailsAssumption
  <1>2. n \in Nat \ {0} /\ DOMAIN history = 1 .. n /\ \A i \in 1 .. n : history[i] \in MessageRecord
    BY <1>1
  <1>3. m \in Nat /\ Len(sent) = m /\ \A i \in 1 .. m : sent[i] = Masked(window[i])
    BY <1>1, RequestIs
  <1>a. ASSUME NEW i \in 1 .. n, NEW j \in 1 .. n, history[i].calls \subseteq history[j].calls
        PROVE  Masked(history[i]).calls \subseteq Masked(history[j]).calls
    <2>1. /\ Masked(history[i]).calls = {[c EXCEPT !.private = FALSE] : c \in history[i].calls}
          /\ Masked(history[j]).calls = {[c EXCEPT !.private = FALSE] : c \in history[j].calls}
      BY <1>2, MaskedMessage
    <2> QED
      BY <1>a, <2>1
  <1>b. \A i \in 1 .. n : Masked(history[i]).kind = history[i].kind
    BY <1>2, MaskedMessage
  <1>4. CASE window = history /\ (policy.keep = 0 \/ n <= policy.keep)
    <2>1. m = n /\ \A i \in 1 .. n : sent[i] = Masked(history[i])
      BY <1>3, <1>4
    <2>2. ASSUME NEW i \in 1 .. (n - 1), sent[i].kind = "result"
          PROVE  \E j \in 1 .. (i - 1) : /\ sent[j].kind = "calls"
                                         /\ sent[i].calls \subseteq sent[j].calls
      <3>1. i \in 1 .. n /\ history[i].kind = "result"
        BY <1>2, <1>b, <2>1, <2>2
      <3>2. PICK j \in 1 .. (i - 1) :
              history[j].kind = "calls" /\ history[i].calls \subseteq history[j].calls
        BY <1>1, <1>2, <3>1 DEF AskedFor
      <3>3. j \in 1 .. n
        BY <3>1
      <3> QED
        BY <1>a, <1>b, <2>1, <3>1, <3>2, <3>3
    <2>3. n \in 1 .. n
      BY <1>2
    <2> QED
      BY <1>1, <1>2, <1>3, <1>4, <1>b, <2>1, <2>2, <2>3
  <1>5. ASSUME NEW cut \in Nat, Window(history, cut), policy.keep # 0
        PROVE  /\ policy.keep # 0 => Len(sent) <= policy.keep + 1
               /\ sent[Len(sent)].kind = history[n].kind
               /\ \A i \in 1 .. (Len(sent) - 1) :
                    sent[i].kind = "result" =>
                      \E j \in 1 .. (i - 1) : /\ sent[j].kind = "calls"
                                              /\ sent[i].calls \subseteq sent[j].calls
    <2>1. /\ cut \in 1 .. (n - 1) /\ n - policy.keep <= cut /\ m = n - cut + 1
          /\ cut = n - 1 \/ history[cut + 1].kind # "result"
          /\ window[1] = compactionMarker(SubSeq(history, 1, cut))
          /\ \A i \in 2 .. (n - cut + 1) : window[i] = history[cut + i - 1]
      BY <1>5 DEF Window
    <2> HIDE DEF n, m, window
    <2>2. sent[1].kind = "marker"
      <3>1. 1 \in 1 .. m
        BY <1>2, <2>1
      <3>2. sent[1] = Masked(compactionMarker(SubSeq(history, 1, cut)))
        BY <1>3, <2>1, <3>1
      <3> QED
        BY <3>2, MaskedMarker
    <2>3. ASSUME NEW i \in 2 .. m
          PROVE  cut + i - 1 \in 1 .. n /\ sent[i] = Masked(history[cut + i - 1])
      BY <1>2, <1>3, <2>1, <2>3
    <2>4. sent[m].kind = history[n].kind
      <3>1. m \in 2 .. m /\ cut + m - 1 = n
        BY <1>2, <2>1
      <3> QED
        BY <1>b, <2>3, <3>1
    <2>5. ASSUME NEW i \in 1 .. (m - 1), sent[i].kind = "result"
          PROVE  \E j \in 1 .. (i - 1) : /\ sent[j].kind = "calls"
                                         /\ sent[i].calls \subseteq sent[j].calls
      <3>1. i \in 2 .. m /\ i \in Nat /\ i <= m - 1
        BY <1>3, <2>2, <2>5
      <3> DEFINE at == cut + i - 1
      <3>2. at \in 1 .. n /\ sent[i] = Masked(history[at])
        BY <2>3, <3>1
      <3>3. history[at].kind = "result"
        BY <1>b, <2>5, <3>2
      <3>4. PICK j \in 1 .. (at - 1) :
              /\ history[j].kind = "calls" /\ history[at].calls \subseteq history[j].calls
              /\ \A k \in (j + 1) .. at : history[k].kind = "result"
        BY <1>1, <1>2, <3>2, <3>3 DEF AskedFor
      <3>5. cut + 1 <= at /\ at < n /\ cut # n - 1
        BY <1>2, <2>1, <3>1
      <3>6. history[cut + 1].kind # "result"
        BY <2>1, <3>5
      <3>7. ~(j <= cut)
        <4> SUFFICES ASSUME j <= cut
                     PROVE  FALSE
          OBVIOUS
        <4>1. cut + 1 \in (j + 1) .. at
          BY <2>1, <3>1, <3>4, <3>5
        <4> QED
          BY <3>4, <3>6, <4>1
      <3> DEFINE k == j - cut + 1
      <3>8. k \in 2 .. m /\ k \in 1 .. (i - 1) /\ cut + k - 1 = j /\ j \in 1 .. n
        BY <1>2, <2>1, <3>1, <3>2, <3>4, <3>7
      <3>9. sent[k] = Masked(history[j])
        BY <2>3, <3>8
      <3>10. sent[k].kind = "calls" /\ sent[i].calls \subseteq sent[k].calls
        BY <1>a, <1>b, <3>2, <3>4, <3>8, <3>9
      <3> QED
        BY <3>8, <3>10
    <2>6. m <= policy.keep + 1
      BY <1>1, <1>2, <2>1
    <2> QED
      BY <1>3, <2>4, <2>5, <2>6
  <1> QED
    BY <1>1, <1>4, <1>5, WindowIs

-----------------------------------------------------------------------------
(* The session *)

LEMMA GuardFacts ==
  ASSUME GuardrailsAssumption, GuardInv
  PROVE  /\ policy.keep \in Nat /\ history \in Seq(MessageRecord) /\ Len(history) \in Nat
         /\ DOMAIN history = 1 .. Len(history)
         /\ calls \in SUBSET CallRecord /\ ran \in SUBSET CallRecord /\ policy \in Policies
  BY DEF GuardInv, GuardTyped, GuardrailsAssumption

\* A message more: what was said stays where it was.
LEMMA OneMore ==
  ASSUME GuardrailsAssumption, GuardInv, NEW message \in MessageRecord,
         history' = Append(history, message)
  PROVE  LET n == Len(history)
         IN  /\ history' \in Seq(MessageRecord) /\ Len(history') = n + 1
             /\ DOMAIN history' = 1 .. (n + 1) /\ n \in Nat
             /\ history'[n + 1] = message
             /\ \A i \in 1 .. n : history'[i] = history[i]
             /\ history' # <<>>
             /\ \A i \in 1 .. n : AskedFor(history, i) => AskedFor(history', i)
  <1> DEFINE n == Len(history)
  <1>1. /\ history' \in Seq(MessageRecord) /\ Len(history') = n + 1
        /\ DOMAIN history' = 1 .. (n + 1) /\ n \in Nat
        /\ history'[n + 1] = message
        /\ \A i \in 1 .. n : history'[i] = history[i]
        /\ history' # <<>>
    BY GuardFacts
  <1> HIDE DEF n
  <1>2. ASSUME NEW i \in 1 .. n, AskedFor(history, i)
        PROVE  AskedFor(history', i)
    <2>1. PICK j \in 1 .. (i - 1) :
            /\ history[j].kind = "calls" /\ history[i].calls \subseteq history[j].calls
            /\ \A k \in (j + 1) .. i : history[k].kind = "result"
      BY <1>2 DEF AskedFor
    <2>2. j \in 1 .. n /\ \A k \in (j + 1) .. i : k \in 1 .. n
      BY <1>1, <2>1
    <2>3. /\ history'[j] = history[j] /\ history'[i] = history[i]
          /\ \A k \in (j + 1) .. i : history'[k] = history[k]
      BY <1>1, <2>2
    <2>4. /\ history'[j].kind = "calls" /\ history'[i].calls \subseteq history'[j].calls
          /\ \A k \in (j + 1) .. i : history'[k].kind = "result"
      BY <2>1, <2>3
    <2> QED
      BY <2>4 DEF AskedFor
  <1> QED
    BY <1>1, <1>2 DEF n

\* The parts of the invariant that a message of its own keeps, if it is masked or the
\* user's, has no text of a tool that is not trusted, and answers what it is a result of.
LEMMA SaidMore ==
  ASSUME GuardrailsAssumption, GuardInv, NEW message \in MessageRecord,
         history' = Append(history, message), policy' = policy,
         message.private => message.kind = "text",
         policy.sanitize => \A t \in message.plain : t.id \in Trusted,
         message.kind = "result" => AskedFor(history', Len(history) + 1)
  PROVE  /\ Kept'
         /\ \A i \in DOMAIN history' : history'[i].kind = "result" => AskedFor(history', i)
         /\ \A i \in DOMAIN history' :
              policy'.sanitize => \A t \in history'[i].plain : t.id \in Trusted
  <1> DEFINE n == Len(history)
  <1>1. /\ DOMAIN history' = 1 .. (n + 1) /\ n \in Nat /\ DOMAIN history = 1 .. n
        /\ history'[n + 1] = message
        /\ \A i \in 1 .. n : history'[i] = history[i]
        /\ \A i \in 1 .. n : AskedFor(history, i) => AskedFor(history', i)
    BY OneMore, GuardFacts
  <1>2. /\ \A i \in 1 .. n : history[i].private => history[i].kind = "text"
        /\ \A i \in 1 .. n : history[i].kind = "result" => AskedFor(history, i)
        /\ \A i \in 1 .. n :
             policy.sanitize => \A t \in history[i].plain : t.id \in Trusted
    BY <1>1 DEF GuardInv, Kept, ToolsAreGuarded
  <1> HIDE DEF n
  <1>3. ASSUME NEW i \in 1 .. (n + 1)
        PROVE  /\ history'[i].private => history'[i].kind = "text"
               /\ history'[i].kind = "result" => AskedFor(history', i)
               /\ policy'.sanitize => \A t \in history'[i].plain : t.id \in Trusted
    <2>1. CASE i \in 1 .. n
      BY <1>1, <1>2, <2>1
    <2>2. CASE i = n + 1
      BY <1>1, <2>2 DEF n
    <2> QED
      BY <1>1, <2>1, <2>2
  <1> QED
    BY <1>1, <1>3 DEF Kept

LEMMA InitGuards ==
  ASSUME GuardrailsInit
  PROVE  GuardInv
  BY DEF GuardrailsInit, GuardInv, GuardTyped, Kept, Pending, Said, ToolsAreGuarded

LEMMA UserStep ==
  ASSUME GuardrailsAssumption, GuardInv, NEW private \in BOOLEAN, UserSays(private)
  PROVE  GuardInv'
  <1> DEFINE message == Message("text", private)
  <1>1. /\ message \in MessageRecord /\ message.kind = "text" /\ message.plain = {}
        /\ message.private = private
    BY MessageIs
  <1>2. /\ history' = Append(history, message) /\ phase = "user" /\ phase' = "model"
        /\ policy' = policy /\ calls' = calls /\ sent' = sent /\ ran' = ran
    BY DEF UserSays
  <1> HIDE DEF message
  <1>3. /\ Kept'
        /\ \A i \in DOMAIN history' : history'[i].kind = "result" => AskedFor(history', i)
        /\ \A i \in DOMAIN history' :
             policy'.sanitize => \A t \in history'[i].plain : t.id \in Trusted
    BY <1>1, <1>2, SaidMore
  <1>4. history' \in Seq(MessageRecord) /\ history' # <<>>
    BY <1>1, <1>2, OneMore
  <1>5. GuardTyped' /\ Pending' /\ Said'
    BY <1>2, <1>4 DEF GuardInv, GuardTyped, Pending, Said
  <1>6. ToolsAreGuarded'
    BY <1>2, <1>3 DEF GuardInv, ToolsAreGuarded
  <1> QED
    BY <1>3, <1>5, <1>6 DEF GuardInv

LEMMA ModelStep ==
  ASSUME GuardrailsAssumption, GuardInv, CallModel
  PROVE  GuardInv'
  <1>1. /\ phase = "model" /\ policy' = policy /\ calls' = calls /\ ran' = ran
        /\ calls = {} /\ history # <<>>
    BY DEF CallModel, GuardInv, Pending, Said
  <1>2. CASE sent' = RedactRequest(CompactHistory(history)) /\ phase' = "answer"
             /\ history' = history
    <2>1. \A i \in DOMAIN sent' : ~sent'[i].private /\ \A c \in sent'[i].calls : ~c.private
      BY <1>2, GuardFacts, RequestIsMasked
    <2>2. sent' = RedactRequest(CompactHistory(history))'
      BY <1>1, <1>2 DEF RedactRequest, CompactHistory
    <2>3. Said'
      BY <1>1, <1>2, <2>1, <2>2 DEF Said
    <2> QED
      BY <1>1, <1>2, <2>3
      DEF GuardInv, GuardTyped, Kept, Pending, ToolsAreGuarded, AskedFor
  <1>3. CASE /\ history' = Append(history, Message("text", FALSE)) /\ phase' = "user"
             /\ sent' = sent
    <2> DEFINE message == Message("text", FALSE)
    <2>1. /\ message \in MessageRecord /\ message.kind = "text" /\ message.plain = {}
          /\ message.private = FALSE
      BY MessageIs
    <2>2. history' = Append(history, message)
      BY <1>3
    <2> HIDE DEF message
    <2>3. /\ Kept'
          /\ \A i \in DOMAIN history' : history'[i].kind = "result" => AskedFor(history', i)
          /\ \A i \in DOMAIN history' :
               policy'.sanitize => \A t \in history'[i].plain : t.id \in Trusted
      BY <1>1, <2>1, <2>2, SaidMore
    <2>4. history' \in Seq(MessageRecord) /\ history' # <<>>
      BY <2>1, <2>2, OneMore
    <2>5. GuardTyped' /\ Pending' /\ Said'
      BY <1>1, <1>3, <2>4 DEF GuardInv, GuardTyped, Pending, Said
    <2>6. ToolsAreGuarded'
      BY <1>1, <2>3 DEF GuardInv, ToolsAreGuarded
    <2> QED
      BY <2>3, <2>5, <2>6 DEF GuardInv
  <1> QED
    BY <1>2, <1>3 DEF CallModel

LEMMA AskedType ==
  ASSUME NEW asked \in Asked
  PROVE  asked \in SUBSET CallRecord
  <1> DEFINE call(t, a, p) == [tool |-> t, argument |-> a, private |-> p]
  <1>1. \A t \in Tools : \A a \in Arguments : \A p \in BOOLEAN : call(t, a, p) \in CallRecord
    BY DEF CallRecord
  <1>2. "canonical" \in Arguments /\ "malformed" \in Arguments
    BY DEF Arguments
  <1>3. CASE asked = {}
    BY <1>3
  <1>4. ASSUME NEW t \in Tools, NEW a \in Arguments, NEW p \in BOOLEAN, asked = {call(t, a, p)}
        PROVE  asked \in SUBSET CallRecord
    BY <1>1, <1>4
  <1>5. ASSUME NEW t \in Tools, NEW u \in Tools,
               asked = {call(t, "canonical", TRUE), call(u, "malformed", FALSE)}
        PROVE  asked \in SUBSET CallRecord
    <2>1. call(t, "canonical", TRUE) \in CallRecord /\ call(u, "malformed", FALSE) \in CallRecord
      BY <1>1, <1>2
    <2> HIDE DEF call
    <2> QED
      BY <1>5, <2>1
  <1> QED
    BY <1>3, <1>4, <1>5 DEF Asked

LEMMA AnswerStep ==
  ASSUME GuardrailsAssumption, GuardInv, NEW asked \in Asked, NEW private \in BOOLEAN,
         ModelAnswers(asked, private)
  PROVE  GuardInv'
  <1> DEFINE said == IF asked = {} THEN Message("text", private) ELSE Asking(asked)
             answer == Masked(said)
             n == Len(history)
  <1>1. /\ history' = Append(history, answer) /\ calls' = answer.calls
        /\ phase = "answer" /\ phase' = IF asked = {} THEN "user" ELSE "tools"
        /\ policy' = policy /\ sent' = sent /\ ran' = ran
    BY DEF ModelAnswers, RedactResponse
  <1>2. /\ said \in MessageRecord /\ said.plain = {} /\ said.calls = asked
        /\ said.kind = IF asked = {} THEN "text" ELSE "calls"
    BY AskedType, MessageIs, AskingIs
  <1> HIDE DEF said
  <1>3. /\ answer \in MessageRecord /\ answer.kind = said.kind /\ answer.plain = {}
        /\ answer.private = FALSE
        /\ answer.calls = {[c EXCEPT !.private = FALSE] : c \in asked}
    BY <1>2, MaskedMessage
  <1>4. answer.calls \in SUBSET CallRecord
    BY <1>3 DEF MessageRecord
  <1> HIDE DEF answer
  <1>5. /\ Kept'
        /\ \A i \in DOMAIN history' : history'[i].kind = "result" => AskedFor(history', i)
        /\ \A i \in DOMAIN history' :
             policy'.sanitize => \A t \in history'[i].plain : t.id \in Trusted
    BY <1>1, <1>2, <1>3, SaidMore
  <1>6. /\ history' \in Seq(MessageRecord) /\ history' # <<>> /\ Len(history') = n + 1
        /\ DOMAIN history' = 1 .. (n + 1) /\ n \in Nat /\ history'[n + 1] = answer
    BY <1>1, <1>3, OneMore
  <1>7. GuardTyped' /\ Said'
    BY <1>1, <1>4, <1>6 DEF GuardInv, GuardTyped, Said
  <1>8. Pending'
    <2>1. CASE asked = {}
      <3>1. answer.calls = {}
        BY <1>3, <2>1
      <3> QED
        BY <1>1, <2>1, <3>1 DEF Pending
    <2>2. CASE asked # {}
      <3>1. /\ n + 1 \in DOMAIN history' /\ history'[n + 1].kind = "calls"
            /\ calls' \subseteq history'[n + 1].calls
        BY <1>1, <1>2, <1>3, <1>6, <2>2
      <3>2. \A k \in (n + 1 + 1) .. Len(history') : FALSE
        BY <1>6
      <3>3. \E j \in DOMAIN history' :
              /\ history'[j].kind = "calls" /\ calls' \subseteq history'[j].calls
              /\ \A k \in (j + 1) .. Len(history') : history'[k].kind = "result"
        BY <3>1, <3>2
      <3> QED
        BY <1>1, <2>2, <3>3 DEF Pending
    <2> QED
      BY <2>1, <2>2
  <1>9. ToolsAreGuarded'
    BY <1>1, <1>5 DEF GuardInv, ToolsAreGuarded
  <1> QED
    BY <1>5, <1>7, <1>8, <1>9 DEF GuardInv

LEMMA ToolStep ==
  ASSUME GuardrailsAssumption, GuardInv, NEW call \in calls, RunTool(call)
  PROVE  GuardInv'
  <1> DEFINE n == Len(history)
  <1>1. /\ call \in CallRecord /\ phase = "tools" /\ calls' = calls \ {call}
        /\ policy' = policy /\ sent' = sent
        /\ phase' = IF calls' = {} THEN "model" ELSE phase
    BY GuardFacts DEF RunTool, GuardInv, Pending
  <1>2. PICK plain \in SUBSET Tools :
          /\ history' = Append(history, Result(call, FALSE, plain))
          /\ policy.sanitize => \A t \in plain : t.id \in Trusted
    <2>1. call.tool \in Tools
      BY <1>1 DEF CallRecord
    <2>2. CASE history' = Append(history, HandleToolError(call))
      <3>1. history' = Append(history, Result(call, FALSE, {}))
        BY <2>2 DEF HandleToolError
      <3>2. {} \in SUBSET Tools /\ \A t \in {} : t.id \in Trusted
        OBVIOUS
      <3> QED
        BY <3>1, <3>2
    <2>3. CASE history' = Append(history, SecureToolOutput(call))
      <3> DEFINE plain == IF policy.sanitize /\ ~isTrustedInstructionTool(call.tool)
                            THEN {} ELSE {call.tool}
      <3>1. history' = Append(history, Result(call, FALSE, plain))
        BY <2>3 DEF SecureToolOutput
      <3>2. plain \in SUBSET Tools /\ (policy.sanitize => \A t \in plain : t.id \in Trusted)
        BY <2>1 DEF isTrustedInstructionTool
      <3> HIDE DEF plain
      <3> QED
        BY <3>1, <3>2
    <2> QED
      BY <2>2, <2>3 DEF RunTool
  <1>3. /\ ran' \in SUBSET CallRecord
        /\ \A c \in ran' : c.tool.name \in Guarded => ~policy.frozen /\ c.argument = "canonical"
    <2>1. \A c \in ran : c.tool.name \in Guarded => ~policy.frozen /\ c.argument = "canonical"
      BY DEF GuardInv, ToolsAreGuarded
    <2>2. Normalized(call) \in CallRecord /\ Normalized(call).tool = call.tool
      BY <1>1 DEF Normalized, CallRecord, Arguments
    <2>3. ASSUME ValidateActions(call) = "none", call.tool.name \in Guarded
          PROVE  ~policy.frozen /\ Normalized(call).argument = "canonical"
      <3>1. ~policy.frozen /\ call.argument # "malformed"
        BY <2>3 DEF ValidateActions
      <3>2. call.argument \in Arguments
        BY <1>1 DEF CallRecord
      <3> QED
        BY <1>1, <2>3, <3>1, <3>2 DEF Normalized, Arguments, CallRecord
    <2>4. CASE ran' = ran
      BY <2>1, <2>4, GuardFacts
    <2>5. CASE ValidateActions(call) = "none" /\ ran' = ran \union {Normalized(call)}
      BY <2>1, <2>2, <2>3, <2>5, GuardFacts
    <2> QED
      BY <2>4, <2>5 DEF RunTool
  <1> DEFINE message == Result(call, FALSE, plain)
  <1>4. /\ message \in MessageRecord /\ message.kind = "result" /\ message.private = FALSE
        /\ message.calls = {call} /\ message.plain = plain
    BY <1>1, ResultIs
  <1>5. history' = Append(history, message)
    BY <1>2
  <1> HIDE DEF message
  <1>6. /\ history' \in Seq(MessageRecord) /\ history' # <<>> /\ Len(history') = n + 1
        /\ DOMAIN history' = 1 .. (n + 1) /\ n \in Nat /\ history'[n + 1] = message
        /\ \A i \in 1 .. n : history'[i] = history[i]
    BY <1>4, <1>5, OneMore
  <1>7. PICK j \in 1 .. n :
          /\ history[j].kind = "calls" /\ calls \subseteq history[j].calls
          /\ \A k \in (j + 1) .. n : history[k].kind = "result"
    BY <1>1, GuardFacts DEF GuardInv, Pending
  <1> HIDE DEF n
  <1>8. /\ j \in 1 .. (n + 1) /\ history'[j].kind = "calls" /\ calls \subseteq history'[j].calls
        /\ \A k \in (j + 1) .. (n + 1) : history'[k].kind = "result"
    <2>1. ASSUME NEW k \in (j + 1) .. (n + 1)
          PROVE  history'[k].kind = "result"
      <3>1. CASE k = n + 1
        BY <1>4, <1>6, <3>1
      <3>2. CASE k # n + 1
        <4>1. k \in (j + 1) .. n /\ k \in 1 .. n
          BY <1>6, <1>7, <3>2
        <4> QED
          BY <1>6, <1>7, <4>1
      <3> QED
        BY <3>1, <3>2
    <2> QED
      BY <1>6, <1>7, <2>1
  <1>9. AskedFor(history', n + 1)
    <2>1. history'[n + 1].calls \subseteq history'[j].calls
      BY <1>4, <1>6, <1>8
    <2> DEFINE here == n + 1
    <2>2. j \in 1 .. (here - 1)
      BY <1>6, <1>7
    <2>3. history'[j].kind = "calls" /\ \A k \in (j + 1) .. here : history'[k].kind = "result"
      BY <1>8
    <2> HIDE DEF here
    <2>4. AskedFor(history', here)
      BY <2>1, <2>2, <2>3 DEF AskedFor, here
    <2> QED
      BY <2>4 DEF here
  <1>10. /\ Kept'
         /\ \A i \in DOMAIN history' : history'[i].kind = "result" => AskedFor(history', i)
         /\ \A i \in DOMAIN history' :
              policy'.sanitize => \A t \in history'[i].plain : t.id \in Trusted
    BY <1>1, <1>2, <1>4, <1>5, <1>9, SaidMore DEF n
  <1>11. GuardTyped' /\ Said'
    BY <1>1, <1>3, <1>6, GuardFacts DEF GuardInv, GuardTyped, Said
  <1>12. Pending'
    <2>1. \E i \in DOMAIN history' :
            /\ history'[i].kind = "calls" /\ calls' \subseteq history'[i].calls
            /\ \A k \in (i + 1) .. Len(history') : history'[k].kind = "result"
      BY <1>1, <1>6, <1>8
    <2> QED
      BY <1>1, <2>1 DEF Pending
  <1>13. ToolsAreGuarded'
    BY <1>1, <1>3, <1>10 DEF ToolsAreGuarded
  <1> QED
    BY <1>10, <1>11, <1>12, <1>13 DEF GuardInv

\* GuardrailsHold, for any tools, any trust and any policy: the window says what it left
\* out and keeps the call of every result, nothing personal is sent, and what a tool says
\* and is called with is fenced and checked (policy.go: BeforeModel, AfterModel, Plugin).
THEOREM Guards == GuardrailsAssumption => (GuardrailsSpec => []GuardrailsHold)
  <1> SUFFICES ASSUME GuardrailsAssumption
               PROVE  GuardrailsSpec => []GuardrailsHold
    OBVIOUS
  <1>1. GuardrailsInit => GuardInv
    BY InitGuards
  <1>2. GuardInv /\ [GuardrailsNext]_guardVars => GuardInv'
    <2> SUFFICES ASSUME GuardInv, [GuardrailsNext]_guardVars
                 PROVE  GuardInv'
      OBVIOUS
    <2>1. CASE UNCHANGED guardVars
      <3>1. /\ policy' = policy /\ history' = history /\ phase' = phase /\ calls' = calls
            /\ sent' = sent /\ ran' = ran
        BY <2>1 DEF guardVars
      <3>2. GuardTyped' /\ Kept' /\ Pending' /\ ToolsAreGuarded'
        BY <3>1 DEF GuardInv, GuardTyped, Kept, Pending, ToolsAreGuarded
      <3>3. RedactRequest(CompactHistory(history))' = RedactRequest(CompactHistory(history))
        BY <3>1 DEF RedactRequest, CompactHistory
      <3>4. Said'
        BY <3>1, <3>3 DEF GuardInv, Said
      <3>5. \A i \in DOMAIN history' : history'[i].kind = "result" => AskedFor(history', i)
        BY <3>1 DEF GuardInv
      <3> QED
        BY <3>2, <3>4, <3>5 DEF GuardInv
    <2> QED
      BY <2>1, UserStep, ModelStep, AnswerStep, ToolStep DEF GuardrailsNext, GuardrailsDone
  <1>3. GuardInv => GuardrailsHold
    BY MarkerIsExact, EvidenceIsKept
    DEF GuardrailsHold, NothingPersonal, GuardInv, Said, Kept
  <1> QED
    BY <1>1, <1>2, <1>3, PTL DEF GuardrailsSpec

=============================================================================
