------------------------- MODULE OrchestrationProofs -------------------------
(* Proofs about Orchestration for every graph of tasks, every set of         *)
(* terminals and every bound on the environment.                             *)
EXTENDS Orchestration, OrchestrationDbProofs, FiniteSetTheorems

USE DEF Callers

RunStatus == {"none", "running", "completed", "failed"}
Calls == [Callers -> Call \cup {Idle}]

\* Calls that have claimed their task know a dispatch in the database d.
CallsIn(cs, d) == \A k \in Callers : cs[k].pc = "send" => cs[k].ctx \in DOMAIN d.ctx

\* A dispatch in d that is not in the database yet is of a ready task.
FreshTo(d) == Len(d.ctx) > Len(db.ctx) => db.task[d.ctx[Len(d.ctx)].task] = "ready"

\* What every step does to the database.
DbStep ==
  /\ db' \in Database /\ DOMAIN db.ctx \subseteq DOMAIN db'.ctx
  /\ FreshTo(db')
  /\ Locked(db) => Locked(db')
  /\ "dispatched" \notin Manual /\ Held(db) => Held(db')

-----------------------------------------------------------------------------
(* The invariants *)

\* Nobody but the coordinator dispatches, creates gates or sets statuses, no
\* gate is answered twice, and an agent that has reported says no more.
ByTheBook == ~KeepsWorking /\ \A op \in {"rpc", "gate", "again", "update"} : Bound[op] = 0

\* Where the coordinator and its calls can be.
InOrder ==
  /\ coord.pc # "off" => run = "running"
  /\ call["rpc"].pc = "idle"
  /\ call["coordinator"].pc # "idle" => coord.pc = "dispatch"
  /\ coord.pc \notin {"list", "open", "dispatch"} => coord.ready = {}

\* Slots that are taken, still to be given, or about to be taken.
Budget ==
  LET taken == Cardinality(WithStatus(db, "dispatched")) IN
  /\ taken <= MaxConcurrent
  /\ coord.pc \in {"list", "open", "dispatch"} => taken + coord.slots <= MaxConcurrent
  /\ call["coordinator"].pc = "check" => taken + coord.slots + 1 <= MaxConcurrent

Tried(d, t) == \E c \in DOMAIN d.ctx : d.ctx[c].task = t
Mailed(t)   == \E i \in DOMAIN mail : mail[i].task = t
Reported(t) == \E i \in DOMAIN mail : mail[i].task = t /\ mail[i].type # "escalation"
Checked(t)  == call["coordinator"].pc = "check" /\ call["coordinator"].task = t

\* No two of a task's dispatch, its agent, its report, its gate and the
\* coordinator's plans for it are about the same attempt.
TaskInOrder(t) ==
  /\ Mailed(t) \/ Gated(db, t) => Tried(db, t)
  /\ Tried(db, t) => db.task[t] \notin {"absent", "pending"}
  /\ \A c \in DOMAIN db.ctx : IsActive(db, c) /\ db.ctx[c].task = t =>
       db.task[t] = "dispatched" /\ IsLatest(db, t, c)
  /\ \A c \in work : db.ctx[c].task = t => IsActive(db, c) /\ ~Mailed(t)
  /\ Reported(t) => db.task[t] \in {"dispatched", "ready", "failed"} /\ ~Gated(db, t)
  /\ Gated(db, t) =>
       db.task[t] \in {"blocked", "ready"} \/ (db.task[t] = "failed" /\ coord.pc = "mail")
  /\ t \in coord.ready \/ Checked(t) => db.task[t] = "ready" /\ ~Mailed(t) /\ ~Gated(db, t)
  /\ Checked(t) => t \notin coord.ready

Sending(c) == call["coordinator"].pc = "send" /\ call["coordinator"].ctx = c

\* The dispatch that the coordinator is sending.
SendInOrder ==
  \A c \in DOMAIN db.ctx, t \in Tasks : Sending(c) /\ db.ctx[c].task = t =>
    /\ IsLatest(db, t, c) /\ c \notin work
    /\ ~Reported(t) /\ ~Gated(db, t) /\ t \notin coord.ready
    /\ db.ctx[c].handle = call["coordinator"].handle
    /\ db.task[t] \in {"dispatched", "ready", "failed"}
    /\ db.task[t] = "failed" => db.ctx[c].fails = FailureLimit
    /\ term[db.ctx[c].handle] = "live" => IsActive(db, c) /\ ~Mailed(t)

OneReport ==
  \A i, j \in DOMAIN mail :
    mail[i].type # "escalation" /\ mail[j].type # "escalation" /\ mail[i].task = mail[j].task
      => i = j

\* Dependencies are met where anything was ever tried.
Founded ==
  /\ \A t \in Tasks : Tried(db, t) \/ db.task[t] = "ready" => DepsCompleted(db, t)
  /\ \A g \in DOMAIN db.gates : Tried(db, db.gates[g].task)

Tidy ==
  /\ OneReport /\ Founded /\ SendInOrder
  /\ \A t \in Tasks : TaskInOrder(t)

OrderlyInv == InOrder /\ Budget /\ TerminalLock /\ Tidy

-----------------------------------------------------------------------------
(* Helpers of the actions *)

LEMMA UseOk ==
  ASSUME TypeOK, NEW op \in Ops, Use(op)
  PROVE  used' \in [Ops -> Nat]
  BY DEF TypeOK, Use

LEMMA EndStep ==
  ASSUME TypeOK, NEW e \in Database, OnlyEnds(db, e), KeepsHeld(db, e), db' = e
  PROVE  DbStep
<1>1. Len(e.ctx) = Len(db.ctx) /\ Len(db.ctx) \in Nat
  BY EndsLength, CtxSeq DEF TypeOK
<1>2. FreshTo(e)
  BY <1>1 DEF FreshTo
<1> QED BY <1>2, EndsLocked, KeepsHeldHeld DEF DbStep, OnlyEnds

LEMMA StillDbStep ==
  ASSUME TypeOK, db' = db
  PROVE  DbStep
  BY DEF TypeOK, DbStep, FreshTo, Database

\* The part of TypeOK that a step within a tick, or a dispatch, has to restore.
RestOk(d) == coord' \in Coordinator /\ run' \in RunStatus /\ call' \in Calls /\ CallsIn(call', d)

LEMMA OffOk ==
  ASSUME NEW b \in BOOLEAN, NEW s \in BOOLEAN
  PROVE  /\ Off \in Coordinator /\ [Off EXCEPT !.pc = "mail"] \in Coordinator
         /\ [Off EXCEPT !.pc = "sleep", !.broke = b, !.stop = s] \in Coordinator
<1>1. 0 \in 0..MaxConcurrent
  BY OrchestrationAssumption
<1>2. Off \in Coordinator
  BY <1>1 DEF Off, Coordinator
<1> QED BY <1>2 DEF Coordinator

LEMMA IdleOk == Idle.pc = "idle"
  BY DEF Idle

LEMMA SetIdle ==
  ASSUME NEW cs \in Calls, NEW d, CallsIn(cs, d), NEW k \in Callers
  PROVE  [cs EXCEPT ![k] = Idle] \in Calls /\ CallsIn([cs EXCEPT ![k] = Idle], d)
<1> DEFINE n == [cs EXCEPT ![k] = Idle]
<1>1. n \in Calls /\ n[k] = Idle /\ \A i \in Callers \ {k} : n[i] = cs[i]
  BY DEF Calls
<1> HIDE DEF n
<1>2. CallsIn(n, d)
  BY <1>1, IdleOk DEF CallsIn
<1> QED BY <1>1, <1>2 DEF n

LEMMA FinishTickOk ==
  ASSUME TypeOK, NEW d, NEW e, NEW c \in Coordinator, CallsIn(call, e), FinishTick(d, c)
  PROVE  RestOk(e)
<1>1. call \in Calls /\ run \in RunStatus
  BY DEF TypeOK, Calls, RunStatus
<1>2. call' \in Calls /\ CallsIn(call', e)
  BY <1>1, SetIdle DEF FinishTick
<1>3. Verdict(d, c) \in RunStatus
  BY DEF Verdict, RunStatus
<1>4. [Off EXCEPT !.pc = "sleep", !.broke = c.broke, !.stop = c.stop] \in Coordinator
  <2>1. c.broke \in BOOLEAN /\ c.stop \in BOOLEAN
    BY DEF Coordinator
  <2> QED BY <2>1, OffOk
<1> QED BY <1>1, <1>2, <1>3, <1>4, OffOk DEF FinishTick, RestOk

LEMMA NextTaskOk ==
  ASSUME TypeOK, NEW d, NEW e, NEW c \in Coordinator, CallsIn(call, e), NextTask(d, c)
  PROVE  RestOk(e)
<1>1. CASE c.slots = 0 \/ c.terms = {} \/ c.ready = {}
  BY <1>1, FinishTickOk DEF NextTask
<1>2. CASE ~(c.slots = 0 \/ c.terms = {} \/ c.ready = {})
  <2>1. PICK t \in c.ready, h \in c.terms :
          /\ coord' = [c EXCEPT !.pc = "dispatch", !.ready = @ \ {t}, !.terms = @ \ {h},
                                !.slots = @ - 1]
          /\ call' = [call EXCEPT !["coordinator"] =
                        [pc |-> "check", task |-> t, handle |-> h, ctx |-> 0]]
          /\ UNCHANGED run
    BY <1>2 DEF NextTask
  <2>2. t \in Tasks /\ h \in Terminals
    BY DEF Coordinator
  <2>3. coord' \in Coordinator
    <3>1. /\ c.slots - 1 \in 0..MaxConcurrent /\ c.ready \ {t} \in SUBSET Tasks
          /\ c.terms \ {h} \in SUBSET Terminals
      BY <1>2, OrchestrationAssumption DEF Coordinator
    <3> QED BY <2>1, <3>1 DEF Coordinator
  <2>4. call' \in Calls /\ CallsIn(call', e)
    BY <2>1, <2>2 DEF TypeOK, Calls, CallsIn, Call
  <2> QED BY <2>1, <2>3, <2>4 DEF RestOk, TypeOK, RunStatus
<1> QED BY <1>1, <1>2

LEMMA ContinueOk ==
  ASSUME TypeOK, NEW k \in Callers, NEW d, NEW e, NEW c \in Coordinator,
         CallsIn(call, e), Continue(k, d, c)
  PROVE  RestOk(e)
<1>1. CASE k = "coordinator"
  BY <1>1, NextTaskOk DEF Continue
<1>2. CASE k # "coordinator"
  <2>1. call \in Calls /\ call' = [call EXCEPT ![k] = Idle] /\ UNCHANGED <<coord, run>>
    BY <1>2 DEF Continue, TypeOK, Calls
  <2>2. call' \in Calls /\ CallsIn(call', e)
    BY <2>1, SetIdle
  <2> QED BY <2>1, <2>2 DEF RestOk, TypeOK, RunStatus
<1> QED BY <1>1, <1>2

LEMMA SlotsOk ==
  ASSUME NEW d \in Database
  PROVE  Slots(d) \in 0..MaxConcurrent
<1>1. Cardinality(WithStatus(d, "dispatched")) \in Nat
  BY OrchestrationAssumption, FS_Subset, FS_CardinalityType DEF WithStatus
<1> QED BY <1>1, OrchestrationAssumption DEF Slots

\* A failed send: the claimed dispatch c of d is failed.
LEMMA RefusedOk ==
  ASSUME TypeOK, NEW k \in Callers, NEW d \in Database, NEW c \in DOMAIN d.ctx,
         DOMAIN db.ctx \subseteq DOMAIN d.ctx, FreshTo(d),
         Locked(db) => Locked(d), Held(db) => Held(d),
         Refused(k, d, c)
  PROVE  DbStep /\ RestOk(db')
<1> DEFINE f == FailDispatch(d, c)
           b == k = "coordinator" /\ f.ctx[c].status = "circuit_broken"
<1>1. f \in Database /\ OnlyEnds(d, f) /\ KeepsHeld(d, f)
  BY FailDispatchOk
<1>2. db' = f /\ Continue(k, f, [coord EXCEPT !.broke = @ \/ b])
  BY DEF Refused
<1>3. DbStep
  <2> HIDE DEF f
  <2>1. f.ctx[Len(f.ctx)].task = d.ctx[Len(f.ctx)].task /\ Len(f.ctx) = Len(d.ctx)
    <3>1. Len(d.ctx) \in DOMAIN d.ctx
      BY CtxSeq
    <3> QED BY <1>1, <3>1, EndsLength DEF OnlyEnds
  <2>2. FreshTo(f)
    BY <2>1 DEF FreshTo
  <2> QED BY <1>1, <1>2, <2>2, EndsLocked, KeepsHeldHeld DEF DbStep, OnlyEnds
<1>4. [coord EXCEPT !.broke = @ \/ b] \in Coordinator
  <2> HIDE DEF b
  <2> QED BY DEF TypeOK, Coordinator
<1>5. CallsIn(call, f)
  <2> HIDE DEF f
  <2> QED BY <1>1 DEF CallsIn, OnlyEnds, TypeOK
<1> QED
  <2> HIDE DEF f, b
  <2> QED BY <1>2, <1>3, <1>4, <1>5, ContinueOk

LEMMA TypeNext ==
  ASSUME DbStep, RestOk(db'), mail' \in Seq(Message),
         term' \in [Terminals -> {"none", "live", "gone"}],
         work' \subseteq DOMAIN db'.ctx, used' \in [Ops -> Nat]
  PROVE  TypeOK'
  BY DEF DbStep, RestOk, TypeOK, RunStatus, Calls, CallsIn

\* What an action leaves alone stays well typed when the database has moved on.
LEMMA RestKept ==
  ASSUME TypeOK, DbStep
  PROVE  /\ coord' = coord /\ run' = run /\ call' = call => RestOk(db')
         /\ work' \subseteq work => work' \subseteq DOMAIN db'.ctx
         /\ CallsIn(call, db')
  BY DEF TypeOK, DbStep, RestOk, RunStatus, Calls, CallsIn

-----------------------------------------------------------------------------
(* The coordinator *)

LEMMA StartStop ==
  ASSUME TypeOK, StartRun \/ StopRun \/ Wake
  PROVE  TypeOK' /\ DbStep
<1>1. DbStep
  BY StillDbStep DEF StartRun, StopRun, Wake
<1>2. used' \in [Ops -> Nat]
  BY UseOk DEF StartRun, StopRun, Wake, TypeOK, Ops
<1>3. coord' \in Coordinator
  <2>1. /\ coord \in Coordinator /\ Off \in Coordinator
        /\ [Off EXCEPT !.pc = "mail"] \in Coordinator
    BY OffOk DEF TypeOK
  <2>2. /\ [coord EXCEPT !.stop = TRUE] \in Coordinator
        /\ [coord EXCEPT !.pc = "mail"] \in Coordinator
    BY <2>1 DEF Coordinator
  <2> QED BY <2>1, <2>2 DEF StartRun, StopRun, Wake
<1>4. run' \in RunStatus
  BY DEF StartRun, StopRun, Wake, TypeOK, RunStatus, Verdict
<1>5. UNCHANGED <<mail, call, term, work>>
  BY DEF StartRun, StopRun, Wake
<1>6. RestOk(db')
  BY <1>1, <1>3, <1>4, <1>5, RestKept DEF RestOk, TypeOK, Calls
<1> QED BY <1>1, <1>2, <1>5, <1>6, TypeNext, RestKept DEF TypeOK

LEMMA HandleMessageStep ==
  ASSUME TypeOK, HandleMessage
  PROVE  TypeOK' /\ DbStep
<1> DEFINE t == Head(mail).task
<1>1. mail' \in Seq(Message) /\ t \in Tasks
  <2>1. Head(mail) \in Message /\ Tail(mail) \in Seq(Message)
    BY HeadTailProperties DEF TypeOK, HandleMessage
  <2>2. t \in Tasks
    BY <2>1 DEF Message
  <2> QED BY <2>1, <2>2 DEF HandleMessage
<1>2. ASSUME HandleWorkerDone(t)
      PROVE  DbStep /\ coord' \in Coordinator
  <2> DEFINE d == UpdateTaskStatus(db, t, "completed")
  <2>1. /\ d \in Database /\ OnlyEnds(db, d) /\ KeepsHeld(db, d)
        /\ d.task[t] = "completed"
    BY <1>1, UpdateTaskStatusOk DEF TypeOK, TaskStatus
  <2>2. coord' \in Coordinator
    BY <1>2 DEF HandleWorkerDone, TypeOK
  <2>3. CASE db' = d
    <3> HIDE DEF d
    <3> QED BY <2>1, <2>2, <2>3, EndStep
  <2>4. ASSUME NEW c \in DOMAIN db.ctx, IsLatest(db, t, c), db' = CompleteDispatch(d, c)
        PROVE  DbStep
    <3> DEFINE e == CompleteDispatch(d, c)
    <3>1. c \in DOMAIN d.ctx /\ d.ctx[c].task = t
      <4> HIDE DEF d, t
      <4> QED BY <2>1, <2>4 DEF OnlyEnds, IsLatest
    <3>2. e \in Database /\ OnlyEnds(d, e) /\ KeepsHeld(d, e)
      <4> HIDE DEF d, t
      <4> QED BY <2>1, <3>1, CompleteDispatchOk
    <3>3. db' = e
      BY <2>4
    <3> HIDE DEF d, e
    <3>4. OnlyEnds(db, e)
      BY <2>1, <3>2 DEF OnlyEnds, IsActive
    <3>5. FreshTo(e)
      <4>1. Len(e.ctx) = Len(db.ctx) /\ Len(db.ctx) \in Nat
        BY <3>2, <3>4, EndsLength, CtxSeq DEF TypeOK
      <4> QED BY <4>1 DEF FreshTo
    <3> QED BY <2>1, <3>2, <3>3, <3>5, EndsLocked, KeepsHeldHeld DEF DbStep, OnlyEnds
  <2> QED BY <1>2, <2>2, <2>3, <2>4 DEF HandleWorkerDone
<1>3. ASSUME HandleEscalation(t)
      PROVE  DbStep /\ coord' \in Coordinator
  <2>1. CASE UNCHANGED <<db, coord>>
    BY <2>1, StillDbStep DEF TypeOK
  <2>2. ASSUME NEW c \in DOMAIN db.ctx, db' = FailDispatch(db, c),
               coord' = [coord EXCEPT !.broke = @ \/ db'.ctx[c].status = "circuit_broken"]
        PROVE  DbStep /\ coord' \in Coordinator
    <3> DEFINE e == FailDispatch(db, c)
               b == db'.ctx[c].status = "circuit_broken"
    <3>1. e \in Database /\ OnlyEnds(db, e) /\ KeepsHeld(db, e)
      BY FailDispatchOk DEF TypeOK
    <3>2. DbStep
      <4> HIDE DEF e
      <4> QED BY <2>2, <3>1, EndStep DEF e
    <3>3. coord' = [coord EXCEPT !.broke = @ \/ b]
      BY <2>2
    <3>4. coord' \in Coordinator
      <4> HIDE DEF b
      <4> QED BY <3>3 DEF TypeOK, Coordinator
    <3> QED BY <3>2, <3>4
  <2> QED BY <1>3, <2>1, <2>2 DEF HandleEscalation
<1>4. ASSUME HandleDecisionGate(t)
      PROVE  DbStep /\ coord' \in Coordinator
  <2> DEFINE e == CreateGate(db, t)
  <2>1. e \in Database /\ OnlyEnds(db, e) /\ KeepsHeld(db, e)
    BY <1>1, CreateGateOk DEF TypeOK
  <2>2. db' = e /\ coord' = coord
    BY <1>4 DEF HandleDecisionGate
  <2> HIDE DEF e
  <2> QED BY <2>1, <2>2, EndStep DEF TypeOK
<1>5. DbStep /\ coord' \in Coordinator
  BY <1>2, <1>3, <1>4 DEF HandleMessage
<1>6. UNCHANGED <<run, call, term, work, used>>
  BY DEF HandleMessage
<1>7. RestOk(db')
  BY <1>5, <1>6, RestKept DEF RestOk, TypeOK, RunStatus, Calls
<1> QED BY <1>1, <1>5, <1>6, <1>7, TypeNext, RestKept DEF TypeOK

LEMMA BeginDispatchStep ==
  ASSUME TypeOK, BeginDispatch
  PROVE  TypeOK' /\ DbStep
<1> DEFINE d == ProcessGates(db)
<1>1. d \in Database /\ OnlyEnds(db, d) /\ KeepsHeld(db, d) /\ db' = d
  BY ProcessGatesOk DEF TypeOK, BeginDispatch
<1>2. DbStep
  <2> HIDE DEF d
  <2> QED BY <1>1, EndStep
<1>3. UNCHANGED <<mail, term, work, used>>
  BY DEF BeginDispatch
<1>4. CallsIn(call, db') /\ coord \in Coordinator
  BY <1>2, RestKept DEF TypeOK
<1>5. RestOk(db')
  <2>1. CASE FinishTick(d, coord)
    <3> HIDE DEF d
    <3> QED BY <1>4, <2>1, FinishTickOk
  <2>2. CASE /\ coord' = [coord EXCEPT !.pc = "list", !.ready = WithStatus(d, "ready"),
                                       !.slots = Slots(d)]
             /\ UNCHANGED <<run, call>>
    <3>1. Slots(d) \in 0..MaxConcurrent /\ WithStatus(d, "ready") \in SUBSET Tasks
      <4> HIDE DEF d
      <4> QED BY <1>1, SlotsOk DEF WithStatus
    <3> HIDE DEF d
    <3>2. coord' \in Coordinator
      BY <1>4, <2>2, <3>1 DEF Coordinator
    <3> QED BY <1>4, <2>2, <3>2 DEF RestOk, TypeOK, RunStatus, Calls
  <2> QED BY <2>1, <2>2 DEF BeginDispatch
<1> QED BY <1>2, <1>3, <1>5, TypeNext, RestKept DEF TypeOK

LEMMA TerminalsStep ==
  ASSUME TypeOK, ListTerminals \/ CreateTerminal
  PROVE  TypeOK' /\ DbStep
<1>1. DbStep
  BY StillDbStep DEF ListTerminals, CreateTerminal
<1>2. used' \in [Ops -> Nat]
  BY UseOk DEF ListTerminals, CreateTerminal, TypeOK, Ops
<1>3. UNCHANGED <<db, mail, work>> /\ CallsIn(call, db)
  BY DEF ListTerminals, CreateTerminal, TypeOK, CallsIn
<1>4. coord \in Coordinator
  BY DEF TypeOK
<1>5. CASE ListTerminals
  <2> DEFINE free == {h \in Terminals : term[h] = "live"} \ Busy(db)
  <2>1. [coord EXCEPT !.terms = free] \in Coordinator /\ [coord EXCEPT !.pc = "open"] \in Coordinator
    BY <1>4 DEF Coordinator
  <2>2. ASSUME NextTask(db, [coord EXCEPT !.terms = free]) PROVE RestOk(db)
    <3> HIDE DEF free
    <3> QED BY <1>3, <2>1, <2>2, NextTaskOk
  <2>3. ASSUME coord' = [coord EXCEPT !.pc = "open"], UNCHANGED <<run, call>>
        PROVE  RestOk(db)
    BY <1>3, <2>1, <2>3 DEF RestOk, TypeOK, RunStatus, Calls
  <2>4. RestOk(db)
    BY <1>5, <2>2, <2>3 DEF ListTerminals
  <2>5. term' = term
    BY <1>5 DEF ListTerminals
  <2> QED BY <1>1, <1>2, <1>3, <2>4, <2>5, TypeNext, RestKept DEF TypeOK
<1>6. CASE CreateTerminal
  <2>1. CASE FinishTick(db, coord) /\ UNCHANGED term
    <3>1. RestOk(db)
      BY <1>3, <1>4, <2>1, FinishTickOk
    <3> QED BY <1>1, <1>2, <1>3, <2>1, <3>1, TypeNext, RestKept DEF TypeOK
  <2>2. ASSUME NEW h \in Terminals, term' = [term EXCEPT ![h] = "live"],
               NextTask(db, [coord EXCEPT !.terms = {h}])
        PROVE  TypeOK'
    <3>1. [coord EXCEPT !.terms = {h}] \in Coordinator
      BY <1>4 DEF Coordinator
    <3>2. RestOk(db)
      BY <1>3, <2>2, <3>1, NextTaskOk
    <3>3. term' \in [Terminals -> {"none", "live", "gone"}]
      BY <2>2 DEF TypeOK
    <3> QED BY <1>1, <1>2, <1>3, <3>2, <3>3, TypeNext, RestKept DEF TypeOK
  <2> QED BY <1>1, <1>6, <2>1, <2>2 DEF CreateTerminal
<1> QED BY <1>1, <1>5, <1>6

-----------------------------------------------------------------------------
(* Dispatches *)

\* Claiming a task creates its dispatch.
LEMMA CreateStep ==
  ASSUME TypeOK, NEW t \in Tasks, NEW h \in Terminals, Claimable(db, t, h)
  PROVE  LET new == CreateDispatch(db, t, h)
             c == Len(db.ctx) + 1 IN
         /\ new \in Database /\ DOMAIN db.ctx \subseteq DOMAIN new.ctx
         /\ c \in DOMAIN new.ctx /\ c \in Nat /\ FreshTo(new)
         /\ Locked(db) => Locked(new)
         /\ Held(db) => Held(new)
<1> DEFINE new == CreateDispatch(db, t, h)
           c == Len(db.ctx) + 1
<1>1. /\ new \in Database /\ DOMAIN new.ctx = DOMAIN db.ctx \cup {c} /\ c \in Nat
      /\ Len(new.ctx) = c /\ new.ctx[c].task = t
      /\ Locked(db) => Locked(new)
      /\ Held(db) => Held(new)
  BY CreateDispatchOk DEF TypeOK
<1>2. FreshTo(new)
  <2> HIDE DEF new, c
  <2> QED BY <1>1 DEF FreshTo, Claimable
<1> QED
  <2> HIDE DEF new
  <2> QED BY <1>1, <1>2 DEF new

LEMMA ClaimStep ==
  ASSUME TypeOK, NEW k \in Callers, Claim(k)
  PROVE  TypeOK' /\ DbStep
<1> DEFINE t == call[k].task
           h == call[k].handle
           new == CreateDispatch(db, t, h)
           c == Len(db.ctx) + 1
<1>1. call[k] \in Call /\ t \in Tasks /\ h \in Terminals
  <2>1. call[k] \in Call
    BY IdleOk DEF TypeOK, Claim
  <2> QED BY <2>1 DEF Call
<1>2. UNCHANGED <<mail, term, work>> /\ used' \in [Ops -> Nat]
  BY UseOk DEF Claim, TypeOK, Ops
<1>3. /\ coord \in Coordinator /\ run \in RunStatus /\ call \in Calls /\ db \in Database
      /\ CallsIn(call, db)
  BY DEF TypeOK, RunStatus, Calls, CallsIn
<1>4. ASSUME DbStep, RestOk(db') PROVE TypeOK' /\ DbStep
  BY <1>2, <1>4, TypeNext, RestKept DEF TypeOK
<1>5. CASE Claimable(db, t, h)
  <2>1. /\ new \in Database /\ DOMAIN db.ctx \subseteq DOMAIN new.ctx
        /\ c \in DOMAIN new.ctx /\ c \in Nat /\ FreshTo(new)
        /\ Locked(db) => Locked(new)
        /\ Held(db) => Held(new)
    <3> HIDE DEF t, h
    <3> QED BY <1>1, <1>5, CreateStep
  <2>2. CASE /\ db' = new
             /\ call' = [call EXCEPT ![k].pc = "send", ![k].ctx = c]
             /\ UNCHANGED <<coord, run, used>>
    <3> HIDE DEF new, c, t, h
    <3>1. DbStep
      BY <2>1, <2>2 DEF DbStep
    <3>2. call'[k].ctx = c /\ call'[k] \in Call /\ \A i \in Callers \ {k} : call'[i] = call[i]
      BY <1>1, <1>3, <2>1, <2>2 DEF Calls, Call
    <3>3. call' \in Calls
      <4>1. DOMAIN call' = Callers /\ call' = [i \in Callers |-> call'[i]]
        BY <1>3, <2>2 DEF Calls
      <4> QED BY <1>3, <3>2, <4>1 DEF Calls
    <3>4. CallsIn(call', db')
      BY <1>3, <2>1, <2>2, <3>2 DEF CallsIn
    <3> QED BY <1>3, <1>4, <2>2, <3>1, <3>3, <3>4 DEF RestOk
  <2>3. CASE Refused(k, new, c)
    <3> HIDE DEF new, c, t, h
    <3> QED BY <1>4, <2>1, <2>3, RefusedOk
  <2>4. CASE Continue(k, db, coord) /\ UNCHANGED db
    BY <1>3, <1>4, <2>4, ContinueOk, StillDbStep
  <2> QED BY <1>5, <2>2, <2>3, <2>4 DEF Claim
<1>6. CASE ~Claimable(db, t, h)
  <2>1. Continue(k, db, coord) /\ UNCHANGED db
    BY <1>6 DEF Claim
  <2> QED BY <1>3, <1>4, <2>1, ContinueOk, StillDbStep
<1> QED BY <1>5, <1>6

LEMMA SentStep ==
  ASSUME TypeOK, NEW k \in Callers, Sent(k)
  PROVE  TypeOK' /\ DbStep
<1> DEFINE c == call[k].ctx
<1>1. c \in DOMAIN db.ctx
  BY DEF TypeOK, Sent
<1>2. UNCHANGED <<mail, term>> /\ used' \in [Ops -> Nat]
  BY UseOk DEF Sent, TypeOK, Ops
<1>3. /\ coord \in Coordinator /\ CallsIn(call, db) /\ db \in Database
      /\ work \subseteq DOMAIN db.ctx
  BY DEF TypeOK, CallsIn
<1>4. CASE /\ work' = IF term[call[k].handle] = "live" THEN work \cup {c} ELSE work
           /\ Continue(k, db, coord)
           /\ UNCHANGED <<db, used>>
  <2>1. work' \subseteq DOMAIN db'.ctx
    BY <1>1, <1>3, <1>4
  <2>2. DbStep /\ RestOk(db')
    BY <1>3, <1>4, ContinueOk, StillDbStep
  <2> QED BY <1>2, <2>1, <2>2, TypeNext DEF TypeOK
<1>5. CASE Refused(k, db, c) /\ UNCHANGED work
  <2>1. FreshTo(db)
    BY <1>3 DEF FreshTo, Database
  <2>2. DbStep /\ RestOk(db')
    BY <1>1, <1>3, <1>5, <2>1, RefusedOk
  <2> QED BY <1>2, <1>5, <2>2, TypeNext, RestKept DEF TypeOK
<1> QED BY <1>4, <1>5 DEF Sent

LEMMA RpcDispatchStep ==
  ASSUME TypeOK, NEW t \in Tasks, NEW h \in Terminals, RpcDispatch(t, h)
  PROVE  TypeOK' /\ DbStep
<1> DEFINE new == CreateDispatch(db, t, h)
           c == Len(db.ctx) + 1
<1>1. UNCHANGED <<mail, run, coord, term>> /\ used' \in [Ops -> Nat]
  BY UseOk DEF RpcDispatch, Ops
<1>2. /\ coord \in Coordinator /\ run \in RunStatus /\ call \in Calls /\ CallsIn(call, db)
      /\ work \subseteq DOMAIN db.ctx
  BY DEF TypeOK, RunStatus, Calls, CallsIn
<1>3. CASE /\ call' = [call EXCEPT !["rpc"] = [pc |-> "check", task |-> t, handle |-> h, ctx |-> 0]]
           /\ UNCHANGED <<db, work>>
  <2>1. call' \in Calls /\ CallsIn(call', db)
    BY <1>2, <1>3 DEF Calls, CallsIn, Call
  <2>2. DbStep
    BY <1>3, StillDbStep
  <2> QED BY <1>1, <1>2, <1>3, <2>1, <2>2, TypeNext DEF RestOk, TypeOK
<1>4. CASE /\ Claimable(db, t, h) /\ db' = new
           /\ work' = IF term[h] = "live" THEN work \cup {c} ELSE work
           /\ UNCHANGED call
  <2>1. /\ new \in Database /\ DOMAIN db.ctx \subseteq DOMAIN new.ctx
        /\ c \in DOMAIN new.ctx /\ FreshTo(new)
        /\ Locked(db) => Locked(new)
        /\ Held(db) => Held(new)
    BY <1>4, CreateStep
  <2> HIDE DEF new, c
  <2>2. DbStep /\ work' \subseteq DOMAIN db'.ctx
    BY <1>2, <1>4, <2>1 DEF DbStep
  <2> QED BY <1>1, <1>4, <2>2, TypeNext, RestKept DEF TypeOK
<1> QED BY <1>3, <1>4 DEF RpcDispatch

-----------------------------------------------------------------------------
(* Terminals, workers and operators *)

LEMMA TerminalExitStep ==
  ASSUME TypeOK, NEW h \in Terminals, TerminalExit(h)
  PROVE  TypeOK' /\ DbStep
<1>1. /\ UNCHANGED <<run, coord, call>> /\ used' \in [Ops -> Nat]
      /\ work' \subseteq work
      /\ term' \in [Terminals -> {"none", "live", "gone"}]
  BY UseOk DEF TerminalExit, Ops, TypeOK
<1>2. CASE UNCHANGED <<db, mail>>
  BY <1>1, <1>2, StillDbStep, TypeNext, RestKept DEF TypeOK
<1>3. ASSUME NEW c \in ActiveOn(db, h), db' = FailDispatch(db, c),
             mail' = IF run = "running"
                     THEN Append(mail, [type |-> "escalation", task |-> db.ctx[c].task])
                     ELSE mail
      PROVE  TypeOK' /\ DbStep
  <2> DEFINE e == FailDispatch(db, c)
  <2>1. c \in DOMAIN db.ctx /\ db.ctx[c].task \in Tasks
    BY CtxSeq DEF ActiveOn, Ctx, TypeOK
  <2>2. mail' \in Seq(Message)
    <3>1. [type |-> "escalation", task |-> db.ctx[c].task] \in Message
      BY <2>1 DEF Message
    <3> QED BY <1>3, <3>1, AppendProperties DEF TypeOK
  <2>3. e \in Database /\ OnlyEnds(db, e) /\ KeepsHeld(db, e) /\ db' = e
    BY <1>3, <2>1, FailDispatchOk DEF TypeOK
  <2>4. DbStep
    <3> HIDE DEF e
    <3> QED BY <2>3, EndStep
  <2> QED BY <1>1, <2>2, <2>4, TypeNext, RestKept
<1> QED BY <1>2, <1>3 DEF TerminalExit

LEMMA WorkerStepOk ==
  ASSUME TypeOK, NEW c \in work, WorkerDone(c) \/ WorkerEscalates(c) \/ WorkerAsks(c)
  PROVE  TypeOK' /\ DbStep
<1>1. UNCHANGED <<db, run, coord, call, term>> /\ work' \subseteq work
  BY DEF WorkerDone, WorkerEscalates, WorkerAsks, WorkerStops
<1>2. used' \in [Ops -> Nat]
  BY UseOk DEF WorkerDone, WorkerEscalates, WorkerAsks, TypeOK, Ops
<1>3. db.ctx[c].task \in Tasks
  BY CtxSeq DEF TypeOK, Ctx
<1>4. \A ty \in {"worker_done", "escalation", "decision_gate"} :
        Append(mail, [type |-> ty, task |-> db.ctx[c].task]) \in Seq(Message)
  BY <1>3, AppendProperties DEF TypeOK, Message
<1>5. mail' \in Seq(Message)
  BY <1>4 DEF WorkerDone, WorkerEscalates, WorkerAsks
<1> QED BY <1>1, <1>2, <1>5, StillDbStep, TypeNext, RestKept DEF TypeOK

LEMMA OperatorStepOk ==
  ASSUME TypeOK, OperatorStep
  PROVE  TypeOK' /\ DbStep
<1>1. ASSUME UNCHANGED <<mail, run, coord, call, term, work>>, used' \in [Ops -> Nat], DbStep
      PROVE  TypeOK' /\ DbStep
  BY <1>1, TypeNext, RestKept DEF TypeOK
<1>2. db \in Database /\ used \in [Ops -> Nat]
  BY DEF TypeOK
<1>3. ASSUME NEW t \in Tasks, RpcTaskCreate(t)
      PROVE  TypeOK' /\ DbStep
  <2>1. DbStep
    BY <1>2, <1>3, CreateTaskOk, EndStep DEF RpcTaskCreate
  <2> QED BY <1>1, <1>2, <1>3, <2>1 DEF RpcTaskCreate
<1>4. ASSUME NEW t \in Tasks, RpcGateCreate(t)
      PROVE  TypeOK' /\ DbStep
  <2>1. DbStep
    BY <1>2, <1>4, CreateGateOk, EndStep DEF RpcGateCreate
  <2> QED BY <1>1, <1>4, <2>1, UseOk DEF RpcGateCreate, Ops
<1>5. ASSUME NEW g \in DOMAIN db.gates, RpcGateResolve(g)
      PROVE  TypeOK' /\ DbStep
  <2>1. DbStep
    BY <1>2, <1>5, ResolveGateOk, EndStep DEF RpcGateResolve
  <2>2. used' \in [Ops -> Nat]
    BY <1>2, <1>5, UseOk DEF RpcGateResolve, Ops
  <2> QED BY <1>1, <1>5, <2>1, <2>2 DEF RpcGateResolve
<1>6. ASSUME NEW t \in Tasks, NEW st \in Manual, RpcTaskUpdate(t, st)
      PROVE  TypeOK' /\ DbStep
  <2> DEFINE e == UpdateTaskStatus(db, t, st)
  <2>1. /\ e \in Database /\ OnlyEnds(db, e) /\ db' = e
        /\ st # "dispatched" => KeepsHeld(db, e)
    BY <1>2, <1>6, OrchestrationAssumption, UpdateTaskStatusOk DEF RpcTaskUpdate
  <2> HIDE DEF e
  <2>2. CASE st # "dispatched"
    <3>1. DbStep
      BY <2>1, <2>2, EndStep
    <3> QED BY <1>1, <1>6, <3>1, UseOk DEF RpcTaskUpdate, Ops
  <2>3. CASE st = "dispatched"
    <3>1. Len(e.ctx) = Len(db.ctx) /\ Len(db.ctx) \in Nat
      BY <1>2, <2>1, EndsLength, CtxSeq
    <3>2. FreshTo(e)
      BY <3>1 DEF FreshTo
    <3>3. DbStep
      BY <1>6, <2>1, <2>3, <3>2, EndsLocked DEF DbStep, OnlyEnds
    <3> QED BY <1>1, <1>6, <3>3, UseOk DEF RpcTaskUpdate, Ops
  <2> QED BY <2>2, <2>3
<1> QED BY <1>3, <1>4, <1>5, <1>6, RpcDispatchStep DEF OperatorStep

-----------------------------------------------------------------------------
(* The theorems *)

LEMMA InitType == ASSUME Init PROVE TypeOK /\ Locked(db) /\ Held(db)
<1>1. db \in Database
  <2>1. \A S : << >> \in Seq(S)
    BY EmptySeq
  <2>2. [t \in Tasks |-> IF t \notin Given THEN "absent"
                         ELSE IF Deps[t] = {} THEN "ready" ELSE "pending"] \in [Tasks -> TaskStatus]
    BY DEF TaskStatus
  <2> QED BY <2>1, <2>2 DEF Init, Database
<1>2. db.ctx = << >> /\ \A t \in Tasks : db.task[t] # "dispatched"
  BY DEF Init
<1>3. Off \in Coordinator
  BY OffOk
<1>4. DOMAIN db.ctx = {}
  BY <1>2
<1>5. call \in [Callers -> Call \cup {Idle}] /\ \A k \in Callers : call[k].pc # "send"
  BY IdleOk DEF Init
<1>6. /\ mail \in Seq(Message) /\ term \in [Terminals -> {"none", "live", "gone"}]
      /\ work = {} /\ used \in [Ops -> Nat] /\ run = "none" /\ coord = Off
  BY EmptySeq DEF Init
<1> QED BY <1>1, <1>2, <1>3, <1>4, <1>5, <1>6 DEF TypeOK, Locked, Held

\* One step, whoever takes it.
LEMMA Step == ASSUME TypeOK, [Next]_vars PROVE TypeOK' /\ DbStep
<1>1. CASE CoordinatorStep
  BY <1>1, StartStop, HandleMessageStep, BeginDispatchStep, TerminalsStep, ClaimStep, SentStep
     DEF CoordinatorStep
<1>2. CASE WorkerStep
  BY <1>2, WorkerStepOk DEF WorkerStep
<1>3. CASE OperatorStep
  BY <1>3, OperatorStepOk
<1>4. CASE \E h \in Terminals : TerminalExit(h)
  BY <1>4, TerminalExitStep
<1>5. CASE UNCHANGED vars
  BY <1>5, StillDbStep DEF vars, TypeOK
<1> QED BY <1>1, <1>2, <1>3, <1>4, <1>5 DEF Next

\* The tables, the coordinator and the calls in flight are well typed, for
\* every graph of tasks and whatever happens (db.ts, coordinator.ts).
THEOREM TypeCorrect == Spec => []TypeOK
<1>1. Init => TypeOK
  BY InitType
<1>2. TypeOK /\ [Next]_vars => TypeOK'
  BY Step
<1> QED BY <1>1, <1>2, PTL DEF Spec

\* The dispatch lock of createDispatchContext (db.ts:496-506) holds whatever
\* operators do by hand and however stale the coordinator's snapshots are: no
\* terminal ever has two active dispatches.
THEOREM LockHolds == Spec => []TerminalLock
<1> DEFINE Inv == TypeOK /\ Locked(db)
<1>1. Init => Inv
  BY InitType
<1>2. Inv /\ [Next]_vars => Inv'
  BY Step DEF DbStep, Locked
<1>3. Inv => TerminalLock
  BY DEF Locked, TerminalLock
<1> QED BY <1>1, <1>2, <1>3, PTL DEF Spec

\* Unless someone sets a task to 'dispatched' by hand (orchestration.taskUpdate
\* lets them), a dispatched task always has an active dispatch, so that some
\* worker_done, exit, escalation or gate can end it and free its slot.
THEOREM DispatchesAreHeld == ASSUME "dispatched" \notin Manual
                             PROVE  Spec => []DispatchedHasDispatch
<1> DEFINE Inv == TypeOK /\ Held(db)
<1>1. Init => Inv
  BY InitType
<1>2. Inv /\ [Next]_vars => Inv'
  BY Step DEF DbStep, Held
<1>3. Inv => DispatchedHasDispatch
  BY DEF Held, DispatchedHasDispatch
<1> QED BY <1>1, <1>2, <1>3, PTL DEF Spec

\* Every dispatch that is created is of a task that is ready at that moment,
\* however many awaits ago the coordinator, or the RPC, found it ready.
THEOREM ClaimsAreFresh == Spec => ClaimIsFresh
<1>1. Init => TypeOK
  BY InitType
<1>2. TypeOK /\ [Next]_vars => TypeOK'
  BY Step
<1>3. TypeOK /\ [Next]_vars =>
        [Len(db'.ctx) > Len(db.ctx) => db.task[db'.ctx[Len(db'.ctx)].task] = "ready"]_vars
  BY Step DEF DbStep, FreshTo
<1> QED BY <1>1, <1>2, <1>3, PTL DEF Spec, ClaimIsFresh

-----------------------------------------------------------------------------
(* The coordinator's slots *)

Taken(d) == Cardinality(WithStatus(d, "dispatched"))

LEMMA Fewer ==
  ASSUME NEW d, NEW e,
         \A t \in Tasks : e.task[t] = "dispatched" => d.task[t] = "dispatched"
  PROVE  Taken(e) \in Nat /\ Taken(d) \in Nat /\ Taken(e) <= Taken(d)
<1>1. /\ WithStatus(e, "dispatched") \subseteq WithStatus(d, "dispatched")
      /\ WithStatus(d, "dispatched") \subseteq Tasks
  BY DEF WithStatus
<1>2. IsFiniteSet(WithStatus(d, "dispatched")) /\ IsFiniteSet(WithStatus(e, "dispatched"))
  BY <1>1, OrchestrationAssumption, FS_Subset
<1> QED BY <1>1, <1>2, FS_Subset, FS_CardinalityType DEF Taken

LEMMA OneMore ==
  ASSUME NEW d, NEW e, NEW t \in Tasks,
         \A x \in Tasks \ {t} : e.task[x] = "dispatched" => d.task[x] = "dispatched"
  PROVE  Taken(e) \in Nat /\ Taken(d) \in Nat /\ Taken(e) <= Taken(d) + 1
<1> DEFINE D == WithStatus(d, "dispatched")
           E == WithStatus(e, "dispatched")
<1>1. E \subseteq D \cup {t} /\ D \subseteq Tasks
  BY DEF WithStatus
<1>2. IsFiniteSet(D) /\ IsFiniteSet(D \cup {t})
  <2>1. D \cup {t} \subseteq Tasks
    BY <1>1
  <2> QED BY <1>1, <2>1, OrchestrationAssumption, FS_Subset
<1> HIDE DEF D, E
<1>3. Cardinality(D \cup {t}) <= Cardinality(D) + 1 /\ Cardinality(D) \in Nat
  BY <1>2, FS_AddElement, FS_CardinalityType
<1>4. /\ IsFiniteSet(E) /\ Cardinality(E) <= Cardinality(D \cup {t})
      /\ Cardinality(E) \in Nat /\ Cardinality(D \cup {t}) \in Nat
  BY <1>1, <1>2, FS_Subset, FS_CardinalityType
<1> QED BY <1>3, <1>4 DEF Taken, D, E

\* Where a tick goes on with the plans of c: it ends, or takes the next task.
PlansOf(c) ==
  /\ InOrder'
  /\ \/ /\ coord'.pc \in {"off", "sleep"} /\ coord'.ready = {}
        /\ call'["coordinator"].pc = "idle"
     \/ /\ coord'.pc = "dispatch" /\ call'["coordinator"].pc = "check"
        /\ call'["coordinator"].task \in c.ready
        /\ coord'.ready = c.ready \ {call'["coordinator"].task}
        /\ c.slots # 0 /\ coord'.slots = c.slots - 1

LEMMA FinishTickPlans ==
  ASSUME TypeOK, InOrder, run = "running", NEW d, NEW c, FinishTick(d, c)
  PROVE  PlansOf(c)
<1>1. call' = [call EXCEPT !["coordinator"] = Idle] /\ call \in Calls
  BY DEF FinishTick, TypeOK, Calls
<1>2. call'["coordinator"].pc = "idle" /\ call'["rpc"] = call["rpc"]
  BY <1>1, IdleOk DEF Calls
<1>3. coord' = Off \/ (coord' = [Off EXCEPT !.pc = "sleep", !.broke = c.broke, !.stop = c.stop] /\ run' = run)
  BY DEF FinishTick
<1>4. coord'.ready = {} /\ (coord'.pc = "off" \/ (coord'.pc = "sleep" /\ run' = run))
  <2>1. Off.ready = {} /\ Off.pc = "off"
    BY DEF Off
  <2>2. LET o == [Off EXCEPT !.pc = "sleep", !.broke = c.broke, !.stop = c.stop] IN
        o.ready = {} /\ o.pc = "sleep"
    BY DEF Off
  <2> QED BY <1>3, <2>1, <2>2
<1> QED BY <1>2, <1>4 DEF PlansOf, InOrder

LEMMA NextTaskPlans ==
  ASSUME TypeOK, InOrder, run = "running", NEW d, NEW c \in Coordinator, NextTask(d, c)
  PROVE  PlansOf(c)
<1>1. CASE FinishTick(d, c)
  BY <1>1, FinishTickPlans
<1>2. CASE ~FinishTick(d, c)
  <2>1. PICK t \in c.ready, h \in c.terms :
          /\ coord' = [c EXCEPT !.pc = "dispatch", !.ready = @ \ {t}, !.terms = @ \ {h},
                                !.slots = @ - 1]
          /\ call' = [call EXCEPT !["coordinator"] =
                        [pc |-> "check", task |-> t, handle |-> h, ctx |-> 0]]
          /\ UNCHANGED run
    BY <1>2 DEF NextTask
  <2>2. c.slots # 0
    BY <1>2 DEF NextTask
  <2>3. coord'.pc = "dispatch" /\ coord'.ready = c.ready \ {t} /\ coord'.slots = c.slots - 1
    BY <2>1 DEF Coordinator
  <2>4. /\ call'["coordinator"].pc = "check" /\ call'["coordinator"].task = t
        /\ call'["rpc"] = call["rpc"]
    BY <2>1 DEF TypeOK
  <2>5. InOrder'
    BY <2>1, <2>3, <2>4 DEF InOrder
  <2> QED BY <2>2, <2>3, <2>4, <2>5 DEF PlansOf
<1> QED BY <1>1, <1>2

LEMMA PlansBudget ==
  ASSUME NEW c \in Coordinator, PlansOf(c), Taken(db') \in Nat,
         Taken(db') <= MaxConcurrent, Taken(db') + c.slots <= MaxConcurrent
  PROVE  Budget'
<1>1. c.slots \in Nat /\ MaxConcurrent \in Nat
  BY OrchestrationAssumption DEF Coordinator
<1> QED BY <1>1 DEF PlansOf, Budget, Taken

\* Steps that leave the coordinator alone, and dispatch nothing.
LEMMA KeepBudget ==
  ASSUME TypeOK, InOrder, Budget, UNCHANGED <<run, coord, call>>,
         \A t \in Tasks : db'.task[t] = "dispatched" => db.task[t] = "dispatched"
  PROVE  InOrder' /\ Budget'
<1>1. Taken(db') \in Nat /\ Taken(db) \in Nat /\ Taken(db') <= Taken(db)
  BY Fewer
<1>2. coord.slots \in Nat /\ MaxConcurrent \in Nat
  BY OrchestrationAssumption DEF TypeOK, Coordinator
<1> QED BY <1>1, <1>2 DEF InOrder, Budget, Taken

LEMMA CoordinatorBudget ==
  ASSUME TypeOK, InOrder, Budget,
         \/ StartRun \/ StopRun \/ Wake \/ HandleMessage \/ BeginDispatch
         \/ ListTerminals \/ CreateTerminal
  PROVE  InOrder' /\ Budget'
<1>1. /\ coord.slots \in Nat /\ MaxConcurrent \in Nat /\ coord \in Coordinator
      /\ Taken(db) \in Nat
  BY Fewer, OrchestrationAssumption DEF TypeOK, Coordinator
<1>2. CASE StartRun
  <2>1. coord.pc = "off" /\ coord.ready = {} /\ call["coordinator"].pc = "idle"
    BY <1>2 DEF StartRun, InOrder, TypeOK, Coordinator
  <2>2. /\ UNCHANGED <<db, call>>
        /\ \/ coord'.pc = "mail" /\ coord'.ready = {} /\ run' = "running"
           \/ coord' = coord
    BY <1>2 DEF StartRun, Off
  <2> QED BY <2>1, <2>2 DEF InOrder, Budget
<1>3. CASE StopRun
  <2>1. /\ UNCHANGED <<db, call, run>>
        /\ coord'.pc = coord.pc /\ coord'.ready = coord.ready /\ coord'.slots = coord.slots
    BY <1>1, <1>3 DEF StopRun, Coordinator
  <2> QED BY <2>1 DEF InOrder, Budget
<1>4. CASE Wake
  <2>1. /\ UNCHANGED <<db, call>> /\ coord.pc = "sleep"
        /\ \/ coord'.pc = "mail" /\ coord'.ready = coord.ready /\ run' = run
           \/ coord'.pc = "off" /\ coord'.ready = {}
    BY <1>1, <1>4 DEF Wake, Off, Coordinator
  <2> QED BY <2>1 DEF InOrder, Budget
<1>5. CASE HandleMessage
  <2> DEFINE t == Head(mail).task
  <2>1. t \in Tasks /\ db \in Database
    <3>1. Head(mail) \in Message
      BY <1>5, HeadTailProperties DEF TypeOK, HandleMessage
    <3> QED BY <3>1 DEF Message, TypeOK
  <2>2. UNCHANGED <<run, call>> /\ coord.pc = "mail"
    BY <1>5 DEF HandleMessage
  <2>3. /\ coord'.pc = coord.pc /\ coord'.ready = coord.ready /\ coord'.slots = coord.slots
        /\ \A x \in Tasks : db'.task[x] = "dispatched" => db.task[x] = "dispatched"
    <3>1. CASE HandleWorkerDone(t)
      <4> DEFINE d == UpdateTaskStatus(db, t, "completed")
      <4>1. d \in Database /\ KeepsHeld(db, d)
        BY <2>1, UpdateTaskStatusOk DEF TaskStatus
      <4>2. coord' = coord /\ (db' = d \/ \E c \in DOMAIN db.ctx : db' = CompleteDispatch(d, c))
        BY <3>1 DEF HandleWorkerDone
      <4>3. db'.task = d.task
        <5> HIDE DEF d
        <5> QED BY <4>1, <4>2 DEF CompleteDispatch, Database
      <4> HIDE DEF d
      <4> QED BY <4>1, <4>2, <4>3 DEF KeepsHeld
    <3>2. CASE HandleEscalation(t)
      <4>1. CASE UNCHANGED <<db, coord>>
        BY <4>1
      <4>2. ASSUME NEW c \in DOMAIN db.ctx, db' = FailDispatch(db, c),
                   coord' = [coord EXCEPT !.broke = @ \/ db'.ctx[c].status = "circuit_broken"]
            PROVE  /\ coord'.pc = coord.pc /\ coord'.ready = coord.ready /\ coord'.slots = coord.slots
                   /\ \A x \in Tasks : db'.task[x] = "dispatched" => db.task[x] = "dispatched"
        <5>1. KeepsHeld(db, db')
          BY <2>1, <4>2, FailDispatchOk
        <5>2. /\ coord'.pc = coord.pc /\ coord'.ready = coord.ready /\ coord'.slots = coord.slots
          BY <1>1, <4>2 DEF Coordinator
        <5> QED BY <5>1, <5>2 DEF KeepsHeld
      <4> QED BY <3>2, <4>1, <4>2 DEF HandleEscalation
    <3>3. CASE HandleDecisionGate(t)
      <4>1. KeepsHeld(db, db') /\ coord' = coord
        BY <2>1, <3>3, CreateGateOk DEF HandleDecisionGate
      <4> QED BY <4>1 DEF KeepsHeld
    <3> QED BY <1>5, <3>1, <3>2, <3>3 DEF HandleMessage
  <2>4. Taken(db') \in Nat /\ Taken(db') <= Taken(db)
    BY <2>3, Fewer
  <2> QED BY <1>1, <2>2, <2>3, <2>4 DEF InOrder, Budget, Taken
<1>6. CASE BeginDispatch
  <2> DEFINE d == ProcessGates(db)
  <2>1. d \in Database /\ KeepsHeld(db, d) /\ db' = d
    BY <1>6, ProcessGatesOk DEF TypeOK, BeginDispatch
  <2>2. /\ coord.pc = "mail" /\ run = "running" /\ call["coordinator"].pc = "idle"
        /\ coord.ready = {}
    BY <1>6 DEF BeginDispatch, InOrder
  <2>3. \/ FinishTick(d, coord)
        \/ /\ coord' = [coord EXCEPT !.pc = "list", !.ready = WithStatus(d, "ready"), !.slots = Slots(d)]
           /\ UNCHANGED <<run, call>>
    BY <1>6 DEF BeginDispatch
  <2> HIDE DEF d
  <2>4. Taken(db') \in Nat /\ Taken(db') <= MaxConcurrent
    <3>1. Taken(d) \in Nat /\ Taken(d) <= Taken(db)
      BY <2>1, Fewer DEF KeepsHeld
    <3> QED BY <1>1, <2>1, <3>1 DEF Budget, Taken
  <2>5. CASE FinishTick(d, coord)
    <3>1. PlansOf(coord)
      BY <2>2, <2>5, FinishTickPlans
    <3> QED BY <2>2, <2>4, <3>1 DEF PlansOf, Budget, Taken
  <2>6. CASE /\ coord' = [coord EXCEPT !.pc = "list", !.ready = WithStatus(d, "ready"), !.slots = Slots(d)]
             /\ UNCHANGED <<run, call>>
    <3>1. coord'.pc = "list" /\ coord'.slots = Slots(d)
      BY <1>1, <2>6 DEF Coordinator
    <3>2. Slots(d) \in Nat /\ Taken(db') + Slots(d) <= MaxConcurrent
      BY <1>1, <2>1, <2>4 DEF Slots, Taken
    <3> QED BY <2>2, <2>4, <2>6, <3>1, <3>2 DEF InOrder, Budget, Taken
  <2> QED BY <2>3, <2>5, <2>6
<1>7. CASE ListTerminals \/ CreateTerminal
  <2>1. coord.pc \in {"list", "open"} /\ run = "running" /\ db' = db /\ call["coordinator"].pc = "idle"
    BY <1>7 DEF ListTerminals, CreateTerminal, InOrder
  <2>2. Taken(db) <= MaxConcurrent /\ Taken(db) + coord.slots <= MaxConcurrent
    BY <2>1 DEF Budget, Taken
  <2>3. ASSUME coord' = [coord EXCEPT !.pc = "open"], UNCHANGED <<run, call>>
        PROVE  InOrder' /\ Budget'
    <3>1. coord'.pc = "open" /\ coord'.slots = coord.slots
      BY <1>1, <2>3 DEF Coordinator
    <3> QED BY <2>1, <2>2, <2>3, <3>1 DEF InOrder, Budget, Taken
  <2>4. ASSUME NEW T \in SUBSET Terminals, NextTask(db, [coord EXCEPT !.terms = T])
        PROVE  InOrder' /\ Budget'
    <3> DEFINE c == [coord EXCEPT !.terms = T]
    <3>1. c \in Coordinator /\ c.slots = coord.slots
      BY <1>1 DEF Coordinator
    <3> HIDE DEF c
    <3>2. PlansOf(c)
      BY <2>1, <2>4, <3>1, NextTaskPlans DEF c
    <3> QED BY <1>1, <2>1, <2>2, <3>1, <3>2, PlansBudget DEF PlansOf
  <2>5. ASSUME FinishTick(db, coord) PROVE InOrder' /\ Budget'
    BY <1>1, <2>1, <2>2, <2>5, FinishTickPlans, PlansBudget DEF PlansOf
  <2>6. CASE ListTerminals
    <3>1. {h \in Terminals : term[h] = "live"} \ Busy(db) \in SUBSET Terminals
      OBVIOUS
    <3> QED BY <2>3, <2>4, <2>6, <3>1 DEF ListTerminals
  <2>7. CASE CreateTerminal
    <3>1. \A h \in Terminals : {h} \in SUBSET Terminals
      OBVIOUS
    <3> QED BY <2>4, <2>5, <2>7, <3>1 DEF CreateTerminal
  <2> QED BY <1>7, <2>6, <2>7
<1> QED BY <1>2, <1>3, <1>4, <1>5, <1>6, <1>7

LEMMA ClaimBudget ==
  ASSUME TypeOK, InOrder, Budget, NEW k \in Callers, Claim(k) \/ Sent(k)
  PROVE  InOrder' /\ Budget'
<1>1. /\ coord.slots \in Nat /\ MaxConcurrent \in Nat /\ coord \in Coordinator
      /\ Taken(db) \in Nat /\ db \in Database
  BY Fewer, OrchestrationAssumption DEF TypeOK, Coordinator
<1>2. /\ k = "coordinator" /\ coord.pc = "dispatch" /\ run = "running"
      /\ call[k].pc \in {"check", "send"} /\ call[k] \in Call
  BY IdleOk DEF TypeOK, InOrder, Claim, Sent
<1> DEFINE t == call[k].task
           h == call[k].handle
           new == CreateDispatch(db, t, h)
           n == Len(db.ctx) + 1
<1>3. t \in Tasks /\ h \in Terminals
  BY <1>2 DEF Call
<1>4. Taken(db) <= MaxConcurrent /\ Taken(db) + coord.slots <= MaxConcurrent
  BY <1>2 DEF Budget, Taken
<1>5. ASSUME NEW d, NEW c \in Coordinator, c.slots = coord.slots, Continue(k, d, c),
             \A x \in Tasks : db'.task[x] = "dispatched" => db.task[x] = "dispatched"
      PROVE  InOrder' /\ Budget'
  <2>1. PlansOf(c)
    BY <1>2, <1>5, NextTaskPlans DEF Continue
  <2>2. Taken(db') \in Nat /\ Taken(db') <= Taken(db)
    BY <1>5, Fewer
  <2>3. Taken(db') <= MaxConcurrent /\ Taken(db') + c.slots <= MaxConcurrent
    BY <1>1, <1>4, <1>5, <2>2
  <2> QED BY <2>1, <2>2, <2>3, PlansBudget DEF PlansOf
<1>6. ASSUME NEW d \in Database, NEW c \in DOMAIN d.ctx, Refused(k, d, c),
             \A x \in Tasks : d.task[x] = "dispatched" /\ x # d.ctx[c].task => db.task[x] = "dispatched"
      PROVE  InOrder' /\ Budget'
  <2> DEFINE e == FailDispatch(d, c)
             b == k = "coordinator" /\ e.ctx[c].status = "circuit_broken"
             o == [coord EXCEPT !.broke = @ \/ b]
  <2>1. db' = e /\ Continue(k, e, o)
    BY <1>6 DEF Refused
  <2>2. o \in Coordinator /\ o.slots = coord.slots
    <3> HIDE DEF b
    <3> QED BY <1>1 DEF Coordinator
  <2>3. /\ d.ctx[c].task \in Tasks /\ Touches(d, e, {d.ctx[c].task})
        /\ e.task[d.ctx[c].task] # "dispatched"
    <3>1. /\ d.ctx[c].task \in Tasks /\ Touches(d, e, {d.ctx[c].task})
          /\ e.task[d.ctx[c].task] = IF e.ctx[c].fails = FailureLimit THEN "failed" ELSE "ready"
      BY <1>6, FailTouches
    <3> HIDE DEF e
    <3> QED BY <3>1
  <2> HIDE DEF e, o
  <2>4. \A x \in Tasks : db'.task[x] = "dispatched" => db.task[x] = "dispatched"
    BY <1>6, <2>1, <2>3 DEF Touches
  <2> QED BY <1>5, <2>1, <2>2, <2>4
<1>7. CASE Claim(k)
  <2>1. CASE Claimable(db, t, h)
    <3>1. /\ new \in Database /\ n \in DOMAIN new.ctx /\ new.ctx[n].task = t
          /\ Touches(db, new, {t})
      <4>1. /\ new \in Database /\ DOMAIN new.ctx = DOMAIN db.ctx \cup {n} /\ new.ctx[n].task = t
        BY <1>1, <1>3, <2>1, CreateDispatchOk
      <4>2. Adds(db, new, t, h, n)
        BY <1>1, <1>3, <2>1, CreateTouches
      <4>3. n \in DOMAIN new.ctx
        BY <4>1
      <4> HIDE DEF new, n
      <4> QED BY <4>1, <4>2, <4>3 DEF Adds
    <3> HIDE DEF new, n
    <3>2. \A x \in Tasks \ {t} : new.task[x] = db.task[x]
      BY <3>1 DEF Touches
    <3>3. CASE /\ db' = new /\ call' = [call EXCEPT ![k].pc = "send", ![k].ctx = n]
               /\ UNCHANGED <<coord, run>> /\ call[k].pc = "check"
      <4>1. Taken(db') \in Nat /\ Taken(db') <= Taken(db) + 1
        BY <1>3, <3>2, <3>3, OneMore
      <4>2. Taken(db) + coord.slots + 1 <= MaxConcurrent
        BY <1>2, <3>3 DEF Budget, Taken
      <4>3. call'["coordinator"].pc = "send" /\ call'["rpc"] = call["rpc"]
        BY <1>2, <3>3 DEF TypeOK, Call
      <4> QED BY <1>1, <1>2, <3>3, <4>1, <4>2, <4>3 DEF InOrder, Budget, Taken
    <3>4. CASE Refused(k, new, n)
      BY <1>6, <3>1, <3>2, <3>4
    <3>5. CASE Continue(k, db, coord) /\ UNCHANGED db
      BY <1>1, <1>5, <3>5
    <3> QED BY <1>7, <2>1, <3>3, <3>4, <3>5 DEF Claim, new, n
  <2>2. CASE ~Claimable(db, t, h)
    <3>1. Continue(k, db, coord) /\ UNCHANGED db
      BY <1>7, <2>2 DEF Claim
    <3> QED BY <1>1, <1>5, <3>1
  <2> QED BY <2>1, <2>2
<1>8. CASE Sent(k)
  <2>1. CASE Continue(k, db, coord) /\ UNCHANGED db
    BY <1>1, <1>5, <2>1
  <2>2. CASE Refused(k, db, call[k].ctx)
    <3>1. call[k].ctx \in DOMAIN db.ctx
      BY <1>8 DEF Sent, TypeOK
    <3> QED BY <1>1, <1>6, <2>2, <3>1
  <2> QED BY <1>8, <2>1, <2>2 DEF Sent
<1> QED BY <1>7, <1>8

LEMMA NeverUsed ==
  ASSUME TypeOK, NEW op \in Ops, Bound[op] = 0
  PROVE  ~Use(op)
  BY DEF TypeOK, Use

LEMMA BudgetStep ==
  ASSUME TypeOK, InOrder, Budget, [Next]_vars, Bound["rpc"] = 0,
         "dispatched" \notin Manual \/ Bound["update"] = 0
  PROVE  InOrder' /\ Budget'
<1>1. db \in Database
  BY DEF TypeOK
<1>2. ASSUME UNCHANGED <<run, coord, call>>, db' = db \/ KeepsHeld(db, db')
      PROVE  InOrder' /\ Budget'
  BY <1>2, KeepBudget DEF KeepsHeld
<1>3. CASE CoordinatorStep
  BY <1>3, CoordinatorBudget, ClaimBudget DEF CoordinatorStep
<1>4. CASE WorkerStep
  BY <1>2, <1>4 DEF WorkerStep, WorkerDone, WorkerEscalates, WorkerAsks
<1>5. CASE OperatorStep
  <2>1. ASSUME NEW t \in Tasks, NEW h \in Terminals PROVE ~RpcDispatch(t, h)
    BY NeverUsed DEF RpcDispatch, Ops
  <2>2. ASSUME NEW t \in Tasks, RpcTaskCreate(t) \/ RpcGateCreate(t)
        PROVE  InOrder' /\ Budget'
    BY <1>1, <1>2, <2>2, CreateTaskOk, CreateGateOk DEF RpcTaskCreate, RpcGateCreate
  <2>3. ASSUME NEW t \in Tasks, NEW st \in Manual, RpcTaskUpdate(t, st)
        PROVE  InOrder' /\ Budget'
    <3>1. "dispatched" \notin Manual
      BY <2>3, NeverUsed DEF RpcTaskUpdate, Ops
    <3>2. KeepsHeld(db, UpdateTaskStatus(db, t, st))
      BY <1>1, <3>1, OrchestrationAssumption, UpdateTaskStatusOk
    <3> QED BY <1>2, <2>3, <3>2 DEF RpcTaskUpdate
  <2>4. ASSUME NEW g \in DOMAIN db.gates, RpcGateResolve(g)
        PROVE  InOrder' /\ Budget'
    BY <1>1, <1>2, <2>4, ResolveGateOk DEF RpcGateResolve
  <2> QED BY <1>5, <2>1, <2>2, <2>3, <2>4 DEF OperatorStep
<1>6. ASSUME NEW h \in Terminals, TerminalExit(h)
      PROVE  InOrder' /\ Budget'
  <2>1. db' = db \/ \E c \in ActiveOn(db, h) : db' = FailDispatch(db, c)
    BY <1>6 DEF TerminalExit
  <2>2. db' = db \/ KeepsHeld(db, db')
    <3>1. \A c \in ActiveOn(db, h) : KeepsHeld(db, FailDispatch(db, c))
      BY <1>1, FailDispatchOk DEF ActiveOn
    <3> QED BY <2>1, <3>1
  <2> QED BY <1>2, <1>6, <2>2 DEF TerminalExit
<1>7. CASE UNCHANGED vars
  BY <1>2, <1>7 DEF vars
<1> QED BY <1>3, <1>4, <1>5, <1>6, <1>7 DEF Next

\* The coordinator keeps to maxConcurrent (coordinator.ts:433-446): the slots it
\* counted before its awaits are still there when it claims, because nothing but
\* its own claims makes a task 'dispatched'.  A dispatch over RPC, or a status
\* set by hand, would.
THEOREM SlotsAreKept == ASSUME Bound["rpc"] = 0, "dispatched" \notin Manual
                        PROVE  Spec => []WithinMaxConcurrent
<1> DEFINE Inv == TypeOK /\ InOrder /\ Budget
<1>1. Init => Inv
  <2> SUFFICES ASSUME Init PROVE Inv
    OBVIOUS
  <2>1. TypeOK
    BY InitType
  <2>2. coord.pc = "off" /\ coord.ready = {} /\ \A k \in Callers : call[k].pc = "idle"
    BY IdleOk DEF Init, Off
  <2>3. WithStatus(db, "dispatched") = {}
    BY DEF Init, WithStatus
  <2> QED BY <2>1, <2>2, <2>3, FS_EmptySet, OrchestrationAssumption DEF InOrder, Budget
<1>2. Inv /\ [Next]_vars => Inv'
  BY Step, BudgetStep
<1>3. Inv => WithinMaxConcurrent
  BY DEF Budget, WithinMaxConcurrent
<1> QED BY <1>1, <1>2, <1>3, PTL DEF Spec

-----------------------------------------------------------------------------
(* The orderly world: what a step leaves alone *)

\* Outside S, a step that touches the tasks in S finds and leaves things alike.
Elsewhere(S) ==
  /\ Touches(db, db', S)
  /\ \A c \in work' : db'.ctx[c].task \notin S => c \in work
  /\ \A x \in Tasks \ S : (Mailed(x)' => Mailed(x)) /\ (Reported(x)' => Reported(x))
  /\ coord.pc = "mail" => coord'.pc = "mail"

\* The coordinator makes no new plans.
NoNewPlans ==
  \A x \in Tasks :
    /\ x \in coord'.ready \/ Checked(x)' => x \in coord.ready \/ Checked(x)
    /\ Checked(x)' => x \notin coord'.ready

LEMMA Untouched ==
  ASSUME TypeOK, NEW S, NEW x \in Tasks \ S, TaskInOrder(x), Elsewhere(S), NoNewPlans
  PROVE  TaskInOrder(x)'
<1>1. \A c \in DOMAIN db'.ctx : db'.ctx[c].task = x =>
        /\ c \in DOMAIN db.ctx /\ db'.ctx[c] = db.ctx[c]
        /\ IsActive(db', c) <=> IsActive(db, c)
        /\ IsLatest(db, x, c) => IsLatest(db', x, c)
  BY DEF Elsewhere, Touches, IsActive, IsLatest
<1>2. Tried(db', x) <=> Tried(db, x)
  BY <1>1 DEF Elsewhere, Touches, Tried
<1>3. /\ db'.task[x] = db.task[x] /\ (Gated(db', x) => Gated(db, x))
      /\ (Mailed(x)' => Mailed(x)) /\ (Reported(x)' => Reported(x))
  BY DEF Elsewhere, Touches
<1>4. \A c \in work' : db'.ctx[c].task = x =>
        c \in work /\ c \in DOMAIN db.ctx /\ db.ctx[c].task = x
  BY <1>1 DEF Elsewhere, Touches, TypeOK
<1>5. \A c \in work' : db'.ctx[c].task = x => IsActive(db', c) /\ ~Mailed(x)'
  BY <1>1, <1>3, <1>4 DEF TaskInOrder, Elsewhere, Touches
<1>6. \A c \in DOMAIN db'.ctx : IsActive(db', c) /\ db'.ctx[c].task = x =>
        db'.task[x] = "dispatched" /\ IsLatest(db', x, c)
  BY <1>1, <1>3 DEF TaskInOrder
<1>7. Gated(db', x) =>
        db'.task[x] \in {"blocked", "ready"} \/ (db'.task[x] = "failed" /\ coord'.pc = "mail")
  BY <1>3 DEF TaskInOrder, Elsewhere
<1>8. x \in coord'.ready \/ Checked(x)' => db'.task[x] = "ready" /\ ~Mailed(x)' /\ ~Gated(db', x)
  BY <1>3 DEF TaskInOrder, NoNewPlans
<1>9. Reported(x)' => db'.task[x] \in {"dispatched", "ready", "failed"} /\ ~Gated(db', x)
  BY <1>3 DEF TaskInOrder
<1>10. /\ Mailed(x)' \/ Gated(db', x) => Tried(db', x)
       /\ Tried(db', x) => db'.task[x] \notin {"absent", "pending"}
  BY <1>2, <1>3 DEF TaskInOrder
<1>11. Checked(x)' => x \notin coord'.ready
  BY DEF NoNewPlans
<1> QED BY <1>5, <1>6, <1>7, <1>8, <1>9, <1>10, <1>11 DEF TaskInOrder

\* The dispatch being sent is of a task that the step does not touch.
LEMMA SendUntouched ==
  ASSUME TypeOK, SendInOrder, NEW S, Elsewhere(S),
         call'["coordinator"].pc = "send" =>
           /\ call'["coordinator"] = call["coordinator"]
           /\ db.ctx[call["coordinator"].ctx].task \in Tasks \ S
           /\ \A h \in Terminals : term'[h] = "live" => term[h] = "live",
         coord'.ready \subseteq coord.ready
  PROVE  SendInOrder'
<1> SUFFICES ASSUME NEW c \in DOMAIN db'.ctx, NEW t \in Tasks,
                    Sending(c)', db'.ctx[c].task = t
             PROVE  /\ IsLatest(db', t, c) /\ c \notin work'
                    /\ ~Reported(t)' /\ ~Gated(db', t) /\ t \notin coord'.ready
                    /\ db'.ctx[c].handle = call'["coordinator"].handle
                    /\ db'.task[t] \in {"dispatched", "ready", "failed"}
                    /\ db'.task[t] = "failed" => db'.ctx[c].fails = FailureLimit
                    /\ term'[db'.ctx[c].handle] = "live" => IsActive(db', c) /\ ~Mailed(t)'
  BY DEF SendInOrder
<1>1. /\ call'["coordinator"] = call["coordinator"] /\ Sending(c) /\ c \in DOMAIN db.ctx
      /\ db.ctx[c].task \in Tasks \ S /\ db.ctx[c].handle \in Terminals
      /\ term'[db.ctx[c].handle] = "live" => term[db.ctx[c].handle] = "live"
  BY CtxSeq DEF TypeOK, Ctx, Sending
<1>2. /\ db'.ctx[c] = db.ctx[c] /\ (IsActive(db', c) <=> IsActive(db, c))
      /\ db.ctx[c].task = t /\ t \notin S
  BY <1>1 DEF Elsewhere, Touches, IsActive
<1>3. IsLatest(db, t, c) => IsLatest(db', t, c)
  BY <1>1, <1>2 DEF Elsewhere, Touches, IsLatest
<1>4. /\ db'.task[t] = db.task[t] /\ (Gated(db', t) => Gated(db, t))
      /\ (Mailed(t)' => Mailed(t)) /\ (Reported(t)' => Reported(t))
  BY <1>2 DEF Elsewhere, Touches
<1>5. c \in work' => c \in work
  BY <1>1, <1>2 DEF Elsewhere
<1>6. /\ IsLatest(db, t, c) /\ c \notin work
      /\ ~Reported(t) /\ ~Gated(db, t) /\ t \notin coord.ready
      /\ db.ctx[c].handle = call["coordinator"].handle
      /\ db.task[t] \in {"dispatched", "ready", "failed"}
      /\ db.task[t] = "failed" => db.ctx[c].fails = FailureLimit
      /\ term[db.ctx[c].handle] = "live" => IsActive(db, c) /\ ~Mailed(t)
  BY <1>1, <1>2 DEF SendInOrder
<1> QED BY <1>1, <1>2, <1>3, <1>4, <1>5, <1>6

LEMMA FoundedStep ==
  ASSUME Founded,
         \A x \in Tasks : db.task[x] = "completed" => db'.task[x] = "completed",
         \A x \in Tasks : Tried(db', x) \/ db'.task[x] = "ready" =>
                            Tried(db, x) \/ db.task[x] = "ready" \/ DepsCompleted(db', x),
         \A g \in DOMAIN db'.gates : Tried(db', db'.gates[g].task)
  PROVE  Founded'
<1>1. \A x \in Tasks : DepsCompleted(db, x) => DepsCompleted(db', x)
  BY DepsAssumption DEF DepsCompleted
<1> QED BY <1>1 DEF Founded

LEMMA SameDb ==
  ASSUME db' = db
  PROVE  \A S : Touches(db, db', S)
  BY DEF Touches

\* Steps that touch no task.
LEMMA StillTidy ==
  ASSUME TypeOK, Tidy, NoNewPlans, UNCHANGED <<db, mail>>, work' \subseteq work,
         coord.pc = "mail" => coord'.pc = "mail", coord'.ready \subseteq coord.ready,
         call'["coordinator"].pc = "send" =>
           call'["coordinator"] = call["coordinator"] /\ UNCHANGED term
  PROVE  Tidy'
<1>1. Elsewhere({})
  BY SameDb DEF Elsewhere, Mailed, Reported
<1>2. \A t \in Tasks : TaskInOrder(t)'
  BY <1>1, Untouched DEF Tidy
<1>3. SendInOrder'
  <2>1. call["coordinator"].pc = "send" => db.ctx[call["coordinator"].ctx].task \in Tasks
    BY CtxSeq DEF TypeOK, Ctx
  <2> QED BY <1>1, <2>1, SendUntouched DEF Tidy
<1>4. OneReport' /\ Founded'
  BY DEF Tidy, OneReport, Founded
<1> QED BY <1>2, <1>3, <1>4 DEF Tidy

LEMMA PlansNoNew ==
  ASSUME NEW c, PlansOf(c), c.ready = coord.ready
  PROVE  /\ NoNewPlans /\ coord'.ready \subseteq coord.ready
         /\ coord'.pc # "mail" /\ call'["coordinator"].pc # "send"
         /\ \A x : Checked(x)' => x \in coord.ready
  BY DEF PlansOf, NoNewPlans, Checked

\* Reading the first message.
LEMMA TailMail ==
  ASSUME TypeOK, mail # <<>>, mail' = Tail(mail), NEW m, m = Head(mail)
  PROVE  /\ m \in Message
         /\ \A x : (Mailed(x)' => Mailed(x)) /\ (Reported(x)' => Reported(x))
         /\ Mailed(m.task) /\ (m.type # "escalation" => Reported(m.task))
         /\ OneReport => OneReport' /\ (m.type # "escalation" => ~Reported(m.task)')
<1>1. /\ m \in Message /\ Len(mail) \in Nat \ {0} /\ DOMAIN mail = 1..Len(mail) /\ m = mail[1]
      /\ DOMAIN mail' = 1..(Len(mail) - 1)
      /\ \A i \in 1..(Len(mail) - 1) : mail'[i] = mail[i + 1]
  BY HeadTailProperties DEF TypeOK
<1>2. 1 \in DOMAIN mail /\ \A i \in DOMAIN mail' : i + 1 \in DOMAIN mail /\ i + 1 # 1 /\ mail'[i] = mail[i + 1]
  BY <1>1
<1>3. OneReport => OneReport'
  <2> SUFFICES ASSUME OneReport, NEW i \in DOMAIN mail', NEW j \in DOMAIN mail',
                      mail'[i].type # "escalation", mail'[j].type # "escalation",
                      mail'[i].task = mail'[j].task
               PROVE  i = j
    BY DEF OneReport
  <2>1. i + 1 = j + 1
    BY <1>2 DEF OneReport
  <2> QED BY <1>1, <2>1
<1>4. OneReport /\ m.type # "escalation" => \A i \in DOMAIN mail' : mail'[i].type # "escalation" => mail'[i].task # m.task
  BY <1>1, <1>2 DEF OneReport
<1>5. OneReport => (m.type # "escalation" => ~Reported(m.task)')
  BY <1>4 DEF Reported
<1> QED BY <1>1, <1>2, <1>3, <1>5 DEF Mailed, Reported

\* Sending one.
LEMMA AppendMail ==
  ASSUME TypeOK, NEW m \in Message, mail' = Append(mail, m)
  PROVE  /\ \A x : Mailed(x)' => Mailed(x) \/ x = m.task
         /\ \A x : Reported(x)' => Reported(x) \/ (x = m.task /\ m.type # "escalation")
         /\ OneReport /\ (m.type = "escalation" \/ ~Reported(m.task)) => OneReport'
<1> DEFINE n == Len(mail) + 1
<1>1. /\ Len(mail) \in Nat /\ DOMAIN mail = 1..Len(mail) /\ DOMAIN mail' = 1..n
      /\ mail'[n] = m /\ \A i \in 1..Len(mail) : mail'[i] = mail[i]
  BY AppendProperties DEF TypeOK
<1>2. \A i \in DOMAIN mail' : (i = n /\ mail'[i] = m) \/ (i \in DOMAIN mail /\ mail'[i] = mail[i])
  BY <1>1
<1> HIDE DEF n
<1> QED BY <1>2 DEF Mailed, Reported, OneReport

-----------------------------------------------------------------------------
(* The orderly world: each step *)

LEMMA CoordinatorTidy ==
  ASSUME TypeOK, InOrder, Tidy, StartRun \/ StopRun \/ Wake \/ ListTerminals \/ CreateTerminal
  PROVE  Tidy'
<1>1. coord \in Coordinator /\ UNCHANGED <<db, mail, work>>
  BY DEF StartRun, StopRun, Wake, ListTerminals, CreateTerminal, TypeOK
<1>2. CASE StartRun \/ StopRun \/ Wake
  <2>1. /\ UNCHANGED <<call, term>> /\ coord'.ready \subseteq coord.ready
        /\ coord.pc # "mail"
    BY <1>1, <1>2 DEF StartRun, StopRun, Wake, Yielded, Off, Coordinator
  <2>2. NoNewPlans
    BY <2>1 DEF NoNewPlans, Checked, Tidy, TaskInOrder
  <2> QED BY <1>1, <2>1, <2>2, StillTidy
<1>3. CASE ListTerminals \/ CreateTerminal
  <2>1. coord.pc \in {"list", "open"} /\ run = "running" /\ call["coordinator"].pc = "idle"
    BY <1>3 DEF ListTerminals, CreateTerminal, InOrder
  <2>2. ASSUME NEW T \in SUBSET Terminals, NextTask(db, [coord EXCEPT !.terms = T])
        PROVE  Tidy'
    <3> DEFINE c == [coord EXCEPT !.terms = T]
    <3>1. c \in Coordinator /\ c.ready = coord.ready
      BY <1>1 DEF Coordinator
    <3> HIDE DEF c
    <3>2. PlansOf(c)
      BY <2>1, <2>2, <3>1, NextTaskPlans DEF c
    <3> QED BY <1>1, <2>1, <3>1, <3>2, PlansNoNew, StillTidy
  <2>3. ASSUME FinishTick(db, coord) PROVE Tidy'
    BY <1>1, <2>1, <2>3, FinishTickPlans, PlansNoNew, StillTidy
  <2>4. ASSUME coord' = [coord EXCEPT !.pc = "open"], UNCHANGED <<run, call>>
        PROVE  Tidy'
    <3>1. coord'.ready = coord.ready
      BY <1>1, <2>4 DEF Coordinator
    <3>2. NoNewPlans
      BY <2>1, <2>4, <3>1 DEF NoNewPlans, Checked
    <3> QED BY <1>1, <2>1, <2>4, <3>1, <3>2, StillTidy
  <2>5. CASE ListTerminals
    <3>1. {h \in Terminals : term[h] = "live"} \ Busy(db) \in SUBSET Terminals
      OBVIOUS
    <3> QED BY <2>2, <2>4, <2>5, <3>1 DEF ListTerminals
  <2>6. CASE CreateTerminal
    <3>1. \A h \in Terminals : {h} \in SUBSET Terminals
      OBVIOUS
    <3> QED BY <2>2, <2>3, <2>6, <3>1 DEF CreateTerminal
  <2> QED BY <1>3, <2>5, <2>6
<1> QED BY <1>2, <1>3

\* While messages are read the coordinator has no plans, and sends nothing.
LEMMA MailTidy ==
  ASSUME TypeOK, TypeOK', InOrder, Tidy, HandleMessage
  PROVE  Tidy'
<1>1. PICK m : m = Head(mail)
  OBVIOUS
<1>2. PICK t : t = m.task
  OBVIOUS
<1>3. mail # << >> /\ mail' = Tail(mail) /\ UNCHANGED <<run, call, term, work, used>>
  BY DEF HandleMessage
<1>4. /\ m \in Message /\ t \in Tasks
      /\ \A x : (Mailed(x)' => Mailed(x)) /\ (Reported(x)' => Reported(x))
      /\ Mailed(t) /\ OneReport'
      /\ m.type # "escalation" => Reported(t) /\ ~Reported(t)'
  <2>1. m \in Message
    BY <1>1, <1>3, TailMail
  <2>2. t \in Tasks
    BY <1>2, <2>1 DEF Message
  <2> QED BY <1>1, <1>2, <1>3, <2>1, <2>2, TailMail DEF Tidy
<1>5. /\ coord.pc = "mail" /\ coord.ready = {} /\ call["coordinator"].pc = "idle"
      /\ coord'.pc = "mail" /\ coord'.ready = {}
  <2>1. coord.pc = "mail" /\ coord.ready = {} /\ call["coordinator"].pc = "idle"
    BY DEF HandleMessage, InOrder
  <2>2. coord' = coord \/ \E b : coord' = [coord EXCEPT !.broke = b]
    BY DEF HandleMessage, HandleWorkerDone, HandleEscalation, HandleDecisionGate
  <2>3. coord'.pc = coord.pc /\ coord'.ready = coord.ready
    BY <2>2 DEF TypeOK, Coordinator
  <2> QED BY <2>1, <2>3
<1>6. NoNewPlans /\ SendInOrder'
  BY <1>3, <1>5 DEF NoNewPlans, Checked, SendInOrder, Sending
<1>7. TaskInOrder(t) /\ Tried(db, t) /\ db \in Database /\ DepsCompleted(db, t)
  <2>1. TaskInOrder(t) /\ Founded
    BY <1>4 DEF Tidy
  <2> QED BY <1>4, <2>1 DEF TypeOK, TaskInOrder, Founded
<1>8. \A c \in work : c \in DOMAIN db.ctx /\ db.ctx[c].task # t
  BY <1>4, <1>7 DEF TaskInOrder, TypeOK
<1>9. ASSUME NEW S, Touches(db, db', S),
             \A x \in S \cap Tasks : TaskInOrder(x)',
             \A x \in Tasks : db.task[x] = "completed" => db'.task[x] = "completed",
             \A x \in Tasks : Tried(db', x) \/ db'.task[x] = "ready" =>
                                Tried(db, x) \/ db.task[x] = "ready" \/ DepsCompleted(db', x),
             \A g \in DOMAIN db'.gates : Tried(db', db'.gates[g].task)
      PROVE  Tidy'
  <2>1. Elsewhere(S)
    BY <1>3, <1>4, <1>5, <1>9 DEF Elsewhere
  <2>2. \A x \in Tasks : TaskInOrder(x)'
    BY <1>6, <1>9, <2>1, Untouched DEF Tidy
  <2>3. Founded'
    BY <1>9, FoundedStep DEF Tidy
  <2> QED BY <1>4, <1>6, <2>2, <2>3 DEF Tidy
<1>10. ASSUME Touches(db, db', {t}), DOMAIN db'.ctx = DOMAIN db.ctx,
              \A c \in DOMAIN db.ctx : db.ctx[c].task = t => ~IsActive(db', c),
              db'.task[t] \in {"ready", "failed", "blocked", "completed"},
              Reported(t)' => db'.task[t] \in {"ready", "failed"} /\ ~Gated(db', t),
              Gated(db', t) => db'.task[t] # "completed",
              db.task[t] = "completed" => db'.task[t] = "completed",
              \A g \in DOMAIN db'.gates : Tried(db', db'.gates[g].task)
       PROVE  Tidy'
  <2>1. \A c \in DOMAIN db'.ctx : db'.ctx[c].task = db.ctx[c].task
    BY <1>10 DEF Touches
  <2>2. \A x : Tried(db', x) <=> Tried(db, x)
    BY <1>10, <2>1 DEF Tried
  <2>3. TaskInOrder(t)'
    <3>1. \A c \in DOMAIN db'.ctx : db'.ctx[c].task = t => ~IsActive(db', c)
      BY <1>10, <2>1
    <3>2. \A c \in work' : db'.ctx[c].task # t
      BY <1>3, <1>8, <1>10, <2>1
    <3>3. ~(t \in coord'.ready \/ Checked(t)')
      BY <1>3, <1>5 DEF Checked
    <3> QED BY <1>5, <1>7, <1>10, <2>2, <3>1, <3>2, <3>3 DEF TaskInOrder
  <2>4. \A x \in Tasks \ {t} : db'.task[x] = db.task[x]
    BY <1>10 DEF Touches
  <2> QED BY <1>7, <1>9, <1>10, <2>2, <2>3, <2>4
<1>11. CASE m.type = "worker_done"
  <2> DEFINE d == UpdateTaskStatus(db, t, "completed")
  <2>1. /\ d \in Database /\ OnlyEnds(db, d) /\ d.gates = db.gates /\ d.task[t] = "completed"
        /\ \A x \in Tasks \ {t} :
             \/ d.task[x] = db.task[x]
             \/ db.task[x] = "pending" /\ d.task[x] = "ready" /\ DepsCompleted(d, x)
        /\ \A c \in DOMAIN db.ctx : db.ctx[c].task # t => d.ctx[c] = db.ctx[c]
        /\ \A c \in DOMAIN db.ctx : IsLatest(db, t, c) => ~IsActive(d, c)
    <3>1. d \in Database
      BY <1>4, <1>7, UpdateTaskStatusOk DEF TaskStatus
    <3> HIDE DEF d
    <3> QED BY <1>4, <1>7, <3>1, DoneTouches DEF d
  <2>2. db' = d \/ \E c \in DOMAIN db.ctx : IsLatest(db, t, c) /\ db' = CompleteDispatch(d, c)
    BY <1>1, <1>2, <1>11 DEF HandleMessage, HandleWorkerDone
  <2> HIDE DEF d
  <2>3. /\ db'.task = d.task /\ db'.gates = d.gates /\ DOMAIN db'.ctx = DOMAIN db.ctx
        /\ \A c \in DOMAIN db.ctx :
             /\ db'.ctx[c].task = db.ctx[c].task /\ db'.ctx[c].handle = db.ctx[c].handle
             /\ db.ctx[c].task # t => db'.ctx[c] = db.ctx[c]
             /\ IsActive(db', c) => IsActive(d, c)
    <3>1. CASE db' = d
      BY <2>1, <3>1 DEF OnlyEnds
    <3>2. ASSUME NEW c \in DOMAIN db.ctx, IsLatest(db, t, c), db' = CompleteDispatch(d, c)
          PROVE  <2>3
      <4>1. c \in DOMAIN d.ctx /\ d.ctx[c].task = t
        BY <2>1, <3>2 DEF OnlyEnds, IsLatest
      <4>2. /\ Touches(d, db', {t}) /\ db'.task = d.task /\ db'.gates = d.gates
            /\ DOMAIN db'.ctx = DOMAIN d.ctx
            /\ \A o \in DOMAIN d.ctx : IsActive(db', o) => IsActive(d, o)
        BY <2>1, <3>2, <4>1, CompleteTouches
      <4> QED BY <2>1, <4>2 DEF OnlyEnds, Touches
    <3> QED BY <2>2, <3>1, <3>2
  <2> DEFINE S == {t} \cup {x \in Tasks : db.task[x] = "pending"}
  <2>4. \A x : (Gated(db', x) => Gated(db, x)) /\ (Tried(db', x) <=> Tried(db, x))
    BY <2>1, <2>3, SameGates DEF Tried
  <2>5. Touches(db, db', S)
    BY <2>1, <2>3, <2>4 DEF Touches
  <2>6. \A c \in DOMAIN db.ctx : db.ctx[c].task = t => ~IsActive(db', c)
    BY <1>7, <2>1, <2>3 DEF TaskInOrder, OnlyEnds
  <2>7. TaskInOrder(t)'
    <3>1. ~Reported(t)' /\ ~Gated(db', t)
      BY <1>4, <1>7, <1>11, <2>4 DEF TaskInOrder
    <3>2. ~(t \in coord'.ready \/ Checked(t)')
      BY <1>3, <1>5 DEF Checked
    <3> QED BY <1>3, <1>7, <1>8, <2>1, <2>3, <2>4, <2>6, <3>1, <3>2 DEF TaskInOrder
  <2>8. ASSUME NEW x \in Tasks \ {t}, db.task[x] = "pending"
        PROVE  TaskInOrder(x)'
    <3>1. ~Tried(db', x) /\ ~Mailed(x)' /\ ~Gated(db', x) /\ ~Reported(x)'
      BY <1>4, <2>4, <2>8 DEF Tidy, TaskInOrder, Mailed, Reported
    <3>2. ~(x \in coord'.ready \/ Checked(x)')
      BY <1>3, <1>5 DEF Checked
    <3>3. \A c \in work' : c \in DOMAIN db'.ctx
      BY DEF TypeOK
    <3> QED BY <3>1, <3>2, <3>3 DEF TaskInOrder, Tried
  <2>9. \A x \in S \cap Tasks : TaskInOrder(x)'
    BY <2>7, <2>8
  <2>10. \A x \in Tasks : db.task[x] = "completed" => db'.task[x] = "completed"
    BY <2>1, <2>3
  <2>11. \A x \in Tasks : Tried(db', x) \/ db'.task[x] = "ready" =>
                            Tried(db, x) \/ db.task[x] = "ready" \/ DepsCompleted(db', x)
    BY <2>1, <2>3, <2>4 DEF DepsCompleted
  <2>12. \A g \in DOMAIN db'.gates : Tried(db', db'.gates[g].task)
    BY <2>1, <2>3, <2>4 DEF Tidy, Founded
  <2> HIDE DEF S
  <2> QED BY <1>9, <2>5, <2>9, <2>10, <2>11, <2>12
<1>12. CASE m.type = "escalation"
  <2>1. CASE UNCHANGED db
    <3>1. Touches(db, db', {})
      BY <2>1, SameDb
    <3> QED BY <1>9, <2>1, <3>1 DEF Tidy, Founded
  <2>2. ASSUME NEW c \in DOMAIN db.ctx, IsLatest(db, t, c), db.task[t] \notin Ended,
               db' = FailDispatch(db, c)
        PROVE  Tidy'
    <3>1. db.ctx[c].task = t
      BY <2>2 DEF IsLatest
    <3>2. /\ Touches(db, db', {t}) /\ ~IsActive(db', c)
          /\ db'.task[t] = IF db'.ctx[c].fails = FailureLimit THEN "failed" ELSE "ready"
      BY <1>7, <2>2, <3>1, FailTouches
    <3>3. /\ OnlyEnds(db, db') /\ db'.gates = db.gates
      BY <1>7, <2>2, FailDispatchOk
    <3>4. \A o \in DOMAIN db.ctx : db.ctx[o].task = t => ~IsActive(db', o)
      <4> SUFFICES ASSUME NEW o \in DOMAIN db.ctx, db.ctx[o].task = t, IsActive(db', o)
                   PROVE  FALSE
        OBVIOUS
      <4>1. IsActive(db, o)
        BY <3>3 DEF OnlyEnds
      <4>2. IsLatest(db, t, o)
        BY <1>7, <4>1 DEF TaskInOrder
      <4>3. o = c
        BY <1>7, <2>2, <4>2, CtxSeq DEF IsLatest
      <4> QED BY <3>2, <4>3
    <3>5. \A x : Gated(db', x) => Gated(db, x)
      BY <3>3, SameGates
    <3>6. Reported(t)' => ~Gated(db', t)
      BY <1>4, <1>7, <3>5 DEF TaskInOrder
    <3>7. \A g \in DOMAIN db'.gates : Tried(db', db'.gates[g].task)
      BY <3>3 DEF Tidy, Founded, Tried, OnlyEnds
    <3>8. db'.task[t] \in {"ready", "failed"} /\ db.task[t] # "completed"
      BY <2>2, <3>2 DEF Ended
    <3> QED BY <1>10, <3>2, <3>3, <3>4, <3>6, <3>7, <3>8 DEF OnlyEnds
  <2> QED BY <1>1, <1>2, <1>12, <2>1, <2>2 DEF HandleMessage, HandleEscalation
<1>13. CASE m.type = "decision_gate"
  <2>1. db' = CreateGate(db, t)
    BY <1>1, <1>2, <1>13 DEF HandleMessage, HandleDecisionGate
  <2>2. /\ Touches(db, db', {t}) /\ DOMAIN db'.ctx = DOMAIN db.ctx
        /\ db'.task[t] = "blocked"
        /\ \A c \in DOMAIN db.ctx : IsActive(db', c) => IsActive(db, c)
        /\ \A c \in DOMAIN db.ctx : IsLatest(db, t, c) => ~IsActive(db', c)
        /\ \A g \in DOMAIN db'.gates :
             db'.gates[g].task = t \/ (g \in DOMAIN db.gates /\ db'.gates[g] = db.gates[g])
    BY <1>4, <1>7, <2>1, GateTouches
  <2>3. \A c \in DOMAIN db.ctx : db.ctx[c].task = t => ~IsActive(db', c)
    BY <1>7, <2>2 DEF TaskInOrder
  <2>4. ~Reported(t)' /\ db.task[t] # "completed"
    BY <1>4, <1>7, <1>13 DEF TaskInOrder
  <2>5. \A x : Tried(db, x) => Tried(db', x)
    BY <2>2 DEF Touches, Tried
  <2>6. \A g \in DOMAIN db'.gates : Tried(db', db'.gates[g].task)
    BY <1>7, <2>2, <2>5 DEF Tidy, Founded
  <2> QED BY <1>10, <2>2, <2>3, <2>4, <2>6
<1> QED BY <1>4, <1>11, <1>12, <1>13 DEF Message

LEMMA BeginTidy ==
  ASSUME TypeOK, InOrder, Tidy, BeginDispatch
  PROVE  Tidy'
<1> DEFINE d == ProcessGates(db)
<1>1. /\ coord.pc = "mail" /\ coord.ready = {} /\ call["coordinator"].pc = "idle"
      /\ run = "running" /\ mail = << >> /\ coord \in Coordinator
      /\ UNCHANGED <<mail, term, work, used>> /\ db' = d /\ db \in Database
  BY DEF BeginDispatch, InOrder, TypeOK
<1>2. /\ d.ctx = db.ctx /\ d.gates = db.gates
      /\ \A x \in Tasks : d.task[x] = IF Gated(db, x) THEN "blocked" ELSE db.task[x]
  BY <1>1, ProcessTouches
<1>3. /\ call'["coordinator"].pc = "idle" /\ \A x \in coord'.ready : d.task[x] = "ready"
  <2>1. CASE FinishTick(d, coord)
    BY <1>1, <2>1, FinishTickPlans DEF PlansOf
  <2>2. CASE /\ coord' = [coord EXCEPT !.pc = "list", !.ready = WithStatus(d, "ready"), !.slots = Slots(d)]
             /\ UNCHANGED <<run, call>>
    <3>1. coord'.ready = WithStatus(d, "ready")
      BY <1>1, <2>2 DEF Coordinator
    <3> QED BY <1>1, <2>2, <3>1 DEF WithStatus
  <2> QED BY <2>1, <2>2 DEF BeginDispatch
<1> HIDE DEF d
<1>4. /\ \A x : (Gated(db', x) <=> Gated(db, x)) /\ (Tried(db', x) <=> Tried(db, x))
      /\ \A x : ~Mailed(x)' /\ ~Reported(x)' /\ ~Checked(x)'
      /\ \A c : IsActive(db', c) <=> IsActive(db, c)
      /\ \A x, c : IsLatest(db', x, c) <=> IsLatest(db, x, c)
  BY <1>1, <1>2, <1>3, SameGates DEF Tried, Mailed, Reported, Checked, IsActive, IsLatest
<1>5. ASSUME NEW x \in Tasks PROVE TaskInOrder(x)'
  <2>1. TaskInOrder(x)
    BY DEF Tidy
  <2>2. \A c \in DOMAIN db'.ctx : IsActive(db', c) /\ db'.ctx[c].task = x =>
          db'.task[x] = "dispatched" /\ IsLatest(db', x, c)
    BY <1>1, <1>2, <1>4, <2>1 DEF TaskInOrder
  <2>3. \A c \in work' : db'.ctx[c].task = x => IsActive(db', c)
    BY <1>1, <1>2, <1>4, <2>1 DEF TaskInOrder
  <2>4. Tried(db', x) => db'.task[x] \notin {"absent", "pending"}
    BY <1>1, <1>2, <1>4, <2>1 DEF TaskInOrder
  <2>5. Gated(db', x) => Tried(db', x) /\ db'.task[x] = "blocked"
    BY <1>1, <1>2, <1>4, <2>1 DEF TaskInOrder
  <2>6. x \in coord'.ready => db'.task[x] = "ready" /\ ~Gated(db', x)
    BY <1>1, <1>2, <1>3, <1>4
  <2> QED BY <1>4, <2>2, <2>3, <2>4, <2>5, <2>6 DEF TaskInOrder
<1>6. Founded'
  <2>1. \A x \in Tasks : db.task[x] = "completed" => db'.task[x] = "completed"
    BY <1>1, <1>2 DEF Tidy, TaskInOrder
  <2>2. \A x \in Tasks : Tried(db', x) \/ db'.task[x] = "ready" => Tried(db, x) \/ db.task[x] = "ready"
    BY <1>1, <1>2, <1>4
  <2>3. \A g \in DOMAIN db'.gates : Tried(db', db'.gates[g].task)
    BY <1>1, <1>2, <1>4 DEF Tidy, Founded
  <2> QED BY <2>1, <2>2, <2>3, FoundedStep DEF Tidy
<1>7. OneReport' /\ SendInOrder'
  BY <1>1, <1>3 DEF Tidy, OneReport, SendInOrder, Sending
<1> QED BY <1>5, <1>6, <1>7 DEF Tidy

\* The attempt that the coordinator was making at t is over, and t failed.
LEMMA RefusalTidy ==
  ASSUME TypeOK, TypeOK', Tidy, NEW t \in Tasks,
         Touches(db, db', {t}), db'.gates = db.gates, UNCHANGED <<mail, work, term>>,
         NoNewPlans, coord'.ready \subseteq coord.ready, coord.pc # "mail",
         ~Checked(t)', call'["coordinator"].pc # "send",
         db.task[t] # "completed", db'.task[t] \in {"ready", "failed"},
         \A o \in DOMAIN db'.ctx : db'.ctx[o].task = t => ~IsActive(db', o),
         \A o \in work : db.ctx[o].task # t,
         Tried(db', t), ~Reported(t), ~Gated(db, t), t \notin coord.ready, DepsCompleted(db, t)
  PROVE  Tidy'
<1>1. Elsewhere({t})
  BY DEF Elsewhere, Mailed, Reported
<1>2. \A x \in Tasks \ {t} : TaskInOrder(x)'
  BY <1>1, Untouched DEF Tidy
<1>3. \A x : (Gated(db', x) <=> Gated(db, x)) /\ (Mailed(x)' => Mailed(x)) /\ (Reported(x)' => Reported(x))
  BY SameGates DEF Mailed, Reported
<1>4. \A o \in work' : db'.ctx[o].task # t
  BY DEF TypeOK, Touches
<1>5. TaskInOrder(t)'
  BY <1>3, <1>4 DEF TaskInOrder
<1>6. Founded'
  <2>1. \A x \in Tasks \ {t} : db'.task[x] = db.task[x]
    BY DEF Touches
  <2>2. \A x \in Tasks \ {t} : Tried(db', x) => Tried(db, x)
    BY DEF Touches, Tried
  <2>3. \A x : Tried(db, x) => Tried(db', x)
    BY DEF Touches, Tried
  <2>4. \A x \in Tasks : db.task[x] = "completed" => db'.task[x] = "completed"
    BY <2>1
  <2>5. DepsCompleted(db', t)
    BY <2>4, DepsAssumption DEF DepsCompleted
  <2>6. \A g \in DOMAIN db'.gates : Tried(db', db'.gates[g].task)
    BY <2>3 DEF Tidy, Founded
  <2> QED BY <2>1, <2>2, <2>4, <2>5, <2>6, FoundedStep DEF Tidy
<1>7. OneReport' /\ SendInOrder'
  BY DEF Tidy, OneReport, SendInOrder, Sending
<1> QED BY <1>2, <1>5, <1>6, <1>7 DEF Tidy

LEMMA ClaimTidy ==
  ASSUME TypeOK, TypeOK', InOrder, Tidy, NEW k \in Callers, Claim(k)
  PROVE  Tidy'
<1>1. /\ k = "coordinator" /\ call[k].pc = "check" /\ coord.pc = "dispatch" /\ run = "running"
      /\ call[k] \in Call /\ db \in Database /\ coord \in Coordinator /\ UNCHANGED <<mail, term, work>>
  BY IdleOk DEF TypeOK, InOrder, Claim
<1>2. PICK t \in Tasks, h \in Terminals : t = call[k].task /\ h = call[k].handle
  BY <1>1 DEF Call
<1>3. /\ Checked(t) /\ t \notin coord.ready /\ db.task[t] = "ready" /\ ~Mailed(t) /\ ~Gated(db, t)
      /\ TaskInOrder(t) /\ DepsCompleted(db, t) /\ ~Reported(t)
  <2>1. Checked(t) /\ TaskInOrder(t) /\ Founded
    BY <1>1, <1>2 DEF Checked, Tidy
  <2> QED BY <2>1 DEF TaskInOrder, Founded, Mailed, Reported
<1>4. /\ \A c \in DOMAIN db.ctx : db.ctx[c].task = t => ~IsActive(db, c)
      /\ \A c \in work : c \in DOMAIN db.ctx /\ db.ctx[c].task # t
  BY <1>3 DEF TaskInOrder, TypeOK
<1>5. ASSUME Continue(k, db, coord), db' = db PROVE Tidy'
  <2>1. PlansOf(coord)
    BY <1>1, <1>5, NextTaskPlans DEF Continue
  <2> QED BY <1>1, <1>5, <2>1, PlansNoNew, StillTidy
<1>6. ASSUME Claimable(db, t, h),
             Refused(k, CreateDispatch(db, t, h), Len(db.ctx) + 1) \/
               (/\ db' = CreateDispatch(db, t, h) /\ term[h] = "live" /\ UNCHANGED <<coord, run>>
                /\ call' = [call EXCEPT ![k].pc = "send", ![k].ctx = Len(db.ctx) + 1])
      PROVE Tidy'
  <2>0. PICK n, new : n = Len(db.ctx) + 1 /\ new = CreateDispatch(db, t, h)
    OBVIOUS
  <2>1. /\ Touches(db, new, {t}) /\ DOMAIN new.ctx = DOMAIN db.ctx \cup {n} /\ n \notin DOMAIN db.ctx
        /\ IsActive(new, n) /\ IsLatest(new, t, n) /\ new.ctx[n].handle = h
        /\ \A o \in DOMAIN db.ctx : new.ctx[o] = db.ctx[o]
        /\ new.task[t] = "dispatched" /\ new.gates = db.gates
    <3>1. Claimable(db, t, h) /\ db \in Database
      BY <1>1, <1>6
    <3>2. Adds(db, new, t, h, n)
      BY <2>0, <3>1, CreateTouches
    <3> QED BY <3>2 DEF Adds
  <2>2. new \in Database
    <3>1. Claimable(db, t, h) /\ db \in Database
      BY <1>1, <1>6
    <3> QED BY <2>0, <3>1, CreateDispatchOk
  <2>3. PICK c : c = n
    OBVIOUS
  <2>4. Tried(new, t)
    BY <2>1 DEF Tried, IsLatest
  <2>5. CASE Refused(k, new, n)
    <3> DEFINE e == FailDispatch(new, c)
               b == k = "coordinator" /\ e.ctx[c].status = "circuit_broken"
               o == [coord EXCEPT !.broke = @ \/ b]
    <3>1. db' = e /\ Continue(k, e, o)
      BY <2>3, <2>5 DEF Refused
    <3>2. o \in Coordinator /\ o.ready = coord.ready
      <4> HIDE DEF b
      <4> QED BY <1>1 DEF Coordinator
    <3> HIDE DEF o, b
    <3>3. PlansOf(o)
      BY <1>1, <3>1, <3>2, NextTaskPlans DEF Continue
    <3>4. c \in DOMAIN new.ctx /\ new.ctx[c].task = t
      BY <2>1, <2>3 DEF IsLatest
    <3>5. /\ Touches(new, e, {t}) /\ ~IsActive(e, c) /\ e.task[t] \in {"ready", "failed"}
      <4>1. /\ Touches(new, e, {t}) /\ ~IsActive(e, c)
            /\ e.task[t] = IF e.ctx[c].fails = FailureLimit THEN "failed" ELSE "ready"
        BY <2>2, <3>4, FailTouches
      <4> HIDE DEF e
      <4> QED BY <4>1
    <3>6. e.gates = new.gates /\ OnlyEnds(new, e)
      BY <2>2, <3>4, FailDispatchOk
    <3> HIDE DEF e
    <3>7. Touches(db, e, {t})
      BY <2>1, <3>5, <3>6, SameGates DEF Touches
    <3>8. \A a \in DOMAIN e.ctx : e.ctx[a].task = t => ~IsActive(e, a)
      BY <1>4, <2>1, <2>3, <3>4, <3>5, <3>6 DEF OnlyEnds, IsActive
    <3>9. Tried(e, t)
      BY <2>4, <3>6 DEF Tried, OnlyEnds
    <3> QED BY <1>1, <1>3, <1>4, <2>1, <3>1, <3>2, <3>3, <3>5, <3>6, <3>7, <3>8, <3>9,
               PlansNoNew, RefusalTidy
  <2>6. CASE /\ db' = new /\ term[h] = "live" /\ UNCHANGED <<coord, run>>
             /\ call' = [call EXCEPT ![k].pc = "send", ![k].ctx = n]
    <3>1. call'["coordinator"].pc = "send" /\ call'["coordinator"].ctx = c /\ call'["coordinator"].handle = h
      BY <1>1, <1>2, <2>3, <2>6 DEF TypeOK, Call
    <3>2. NoNewPlans
      BY <2>6, <3>1 DEF NoNewPlans, Checked
    <3>3. Elsewhere({t})
      BY <1>1, <2>1, <2>6 DEF Elsewhere, Mailed, Reported
    <3>4. /\ ~Mailed(t)' /\ ~Reported(t)' /\ ~Gated(db', t) /\ ~Checked(t)' /\ t \notin coord'.ready
      BY <1>1, <1>3, <2>1, <2>6, <3>1, SameGates DEF Mailed, Reported, Checked
    <3>5. \A a \in DOMAIN db'.ctx : db'.ctx[a].task = t /\ IsActive(db', a) => a = c
      BY <1>4, <2>1, <2>3, <2>6 DEF IsActive
    <3>6. \A a \in work' : a \in DOMAIN db.ctx /\ db'.ctx[a].task # t /\ a # c
      BY <1>1, <1>4, <2>1, <2>3, <2>6
    <3>7. TaskInOrder(t)'
      BY <2>1, <2>3, <2>4, <2>6, <3>4, <3>5, <3>6 DEF TaskInOrder
    <3>8. SendInOrder'
      BY <1>1, <2>1, <2>3, <2>6, <3>1, <3>4, <3>6 DEF SendInOrder, Sending, IsLatest
    <3>9. Founded'
      <4>1. \A x \in Tasks \ {t} : db'.task[x] = db.task[x]
        BY <2>1, <2>6 DEF Touches
      <4>2. \A x \in Tasks \ {t} : Tried(db', x) => Tried(db, x)
        BY <3>3 DEF Elsewhere, Touches, Tried
      <4>3. \A x : Tried(db, x) => Tried(db', x)
        BY <3>3 DEF Elsewhere, Touches, Tried
      <4>4. \A x \in Tasks : db.task[x] = "completed" => db'.task[x] = "completed"
        BY <1>3, <4>1
      <4>5. \A g \in DOMAIN db'.gates : Tried(db', db'.gates[g].task)
        BY <2>1, <2>6, <4>3 DEF Tidy, Founded
      <4> QED BY <1>3, <4>1, <4>2, <4>4, <4>5, FoundedStep DEF Tidy
    <3>10. \A x \in Tasks : TaskInOrder(x)'
      BY <3>2, <3>3, <3>7, Untouched DEF Tidy
    <3>11. OneReport'
      BY <1>1 DEF Tidy, OneReport
    <3> QED BY <3>8, <3>9, <3>10, <3>11 DEF Tidy
  <2> QED BY <1>6, <2>0, <2>5, <2>6
<1> QED BY <1>2, <1>5, <1>6 DEF Claim

LEMMA SentTidy ==
  ASSUME TypeOK, TypeOK', InOrder, Tidy, NEW k \in Callers, Sent(k)
  PROVE  Tidy'
<1>1. /\ k = "coordinator" /\ call[k].pc = "send" /\ coord.pc = "dispatch" /\ run = "running"
      /\ call[k] \in Call /\ db \in Database /\ coord \in Coordinator /\ UNCHANGED <<mail, term>>
  BY IdleOk DEF TypeOK, InOrder, Sent
<1>2. PICK c \in DOMAIN db.ctx, t \in Tasks : c = call[k].ctx /\ t = db.ctx[c].task
  BY <1>1, CtxSeq DEF TypeOK, Ctx
<1>3. /\ IsLatest(db, t, c) /\ c \notin work
      /\ ~Reported(t) /\ ~Gated(db, t) /\ t \notin coord.ready
      /\ db.ctx[c].handle = call[k].handle
      /\ db.task[t] \in {"dispatched", "ready", "failed"}
      /\ term[db.ctx[c].handle] = "live" => IsActive(db, c) /\ ~Mailed(t)
      /\ TaskInOrder(t) /\ Founded
  BY <1>1, <1>2 DEF SendInOrder, Sending, Tidy
<1>4. \A o \in DOMAIN db.ctx : IsLatest(db, t, o) => o = c
  BY <1>1, <1>3, CtxSeq DEF IsLatest
<1>5. CASE /\ work' = IF term[call[k].handle] = "live" THEN work \cup {c} ELSE work
           /\ Continue(k, db, coord) /\ UNCHANGED db
  <2>1. PlansOf(coord)
    BY <1>1, <1>5, NextTaskPlans DEF Continue
  <2>2. /\ NoNewPlans /\ coord'.ready \subseteq coord.ready
        /\ call'["coordinator"].pc # "send" /\ \A x : Checked(x)' => x \in coord.ready
    BY <2>1, PlansNoNew
  <2>3. Elsewhere({t})
    BY <1>1, <1>2, <1>5, SameDb DEF Elsewhere, Mailed, Reported
  <2>4. \A x \in Tasks \ {t} : TaskInOrder(x)'
    BY <2>2, <2>3, Untouched DEF Tidy
  <2>5. /\ (Mailed(t)' <=> Mailed(t)) /\ (Reported(t)' <=> Reported(t)) /\ coord.pc # "mail"
    BY <1>1 DEF Mailed, Reported
  <2>6. \A o \in work' : db.ctx[o].task = t => IsActive(db, o) /\ ~Mailed(t)
    BY <1>3, <1>5 DEF TaskInOrder
  <2>7. TaskInOrder(t)'
    BY <1>3, <1>5, <2>2, <2>5, <2>6 DEF TaskInOrder
  <2>8. OneReport' /\ Founded' /\ SendInOrder'
    BY <1>1, <1>5, <2>2 DEF Tidy, OneReport, Founded, SendInOrder, Sending
  <2> QED BY <2>4, <2>7, <2>8 DEF Tidy
<1>6. CASE Refused(k, db, c) /\ UNCHANGED work
  <2> DEFINE e == FailDispatch(db, c)
             b == k = "coordinator" /\ e.ctx[c].status = "circuit_broken"
             o == [coord EXCEPT !.broke = @ \/ b]
  <2>1. db' = e /\ Continue(k, e, o)
    BY <1>6 DEF Refused
  <2>2. o \in Coordinator /\ o.ready = coord.ready
    <3> HIDE DEF b
    <3> QED BY <1>1 DEF Coordinator
  <2> HIDE DEF o, b
  <2>3. PlansOf(o)
    BY <1>1, <2>1, <2>2, NextTaskPlans DEF Continue
  <2>4. /\ Touches(db, e, {t}) /\ ~IsActive(e, c)
        /\ e.task[t] = IF e.ctx[c].fails = FailureLimit THEN "failed" ELSE "ready"
    BY <1>1, <1>2, FailTouches
  <2>5. e.gates = db.gates /\ OnlyEnds(db, e)
    BY <1>1, FailDispatchOk
  <2> HIDE DEF e
  <2>6. \A a \in DOMAIN e.ctx : e.ctx[a].task = t => ~IsActive(e, a)
    BY <1>3, <1>4, <2>4, <2>5 DEF OnlyEnds, TaskInOrder
  <2>7. \A a \in work : db.ctx[a].task # t
    BY <1>3, <1>4 DEF TaskInOrder, TypeOK
  <2>8. Tried(e, t) /\ Tried(db, t) /\ DepsCompleted(db, t)
    BY <1>2, <1>3, <2>5 DEF Tried, OnlyEnds, Founded
  <2>9. e.task[t] \in {"ready", "failed"}
    BY <2>4
  <2> QED BY <1>1, <1>3, <1>6, <2>1, <2>2, <2>3, <2>4, <2>5, <2>6, <2>7, <2>8, <2>9,
             PlansNoNew, RefusalTidy
<1> QED BY <1>2, <1>5, <1>6 DEF Sent

\* The terminal of an active dispatch dies: the dispatch's task is worked on by
\* nobody, and its escalation is on its way if the coordinator runs.
LEMMA ExitTidy ==
  ASSUME TypeOK, TypeOK', InOrder, TerminalLock, Tidy, NEW h \in Terminals, TerminalExit(h)
  PROVE  Tidy'
<1>1. /\ coord.pc # "mail" /\ UNCHANGED <<run, coord, call>> /\ db \in Database
      /\ work' = {c \in work : db.ctx[c].handle # h} /\ term' = [term EXCEPT ![h] = "gone"]
  BY DEF TerminalExit, Yielded, TypeOK
<1>2. /\ NoNewPlans /\ term'[h] # "live"
      /\ \A i \in Terminals : term'[i] = "live" => term[i] = "live"
  BY <1>1 DEF NoNewPlans, Checked, Tidy, TaskInOrder, TypeOK
<1>3. CASE UNCHANGED <<db, mail>>
  <2>1. Elsewhere({})
    BY <1>1, <1>3, SameDb DEF Elsewhere, Mailed, Reported
  <2>2. \A x \in Tasks : TaskInOrder(x)'
    BY <1>2, <2>1, Untouched DEF Tidy
  <2>3. SendInOrder'
    <3>1. call["coordinator"].pc = "send" => db.ctx[call["coordinator"].ctx].task \in Tasks
      BY CtxSeq DEF TypeOK, Ctx
    <3> QED BY <1>1, <1>2, <2>1, <3>1, SendUntouched DEF Tidy
  <2> QED BY <1>3, <2>2, <2>3 DEF Tidy, OneReport, Founded
<1>4. ASSUME NEW c \in ActiveOn(db, h), NEW t \in Tasks, t = db.ctx[c].task,
             db' = FailDispatch(db, c),
             mail' = IF run = "running" THEN Append(mail, [type |-> "escalation", task |-> t]) ELSE mail
      PROVE  Tidy'
  <2>1. c \in DOMAIN db.ctx /\ IsActive(db, c) /\ db.ctx[c].handle = h
    BY <1>4 DEF ActiveOn
  <2>2. TaskInOrder(t) /\ Founded /\ db.task[t] = "dispatched" /\ IsLatest(db, t, c) /\ Tried(db, t)
    BY <1>4, <2>1 DEF Tidy, TaskInOrder, Tried
  <2>3. \A o \in DOMAIN db.ctx : IsLatest(db, t, o) => o = c
    BY <1>1, <2>2, CtxSeq DEF IsLatest
  <2>4. /\ Touches(db, db', {t}) /\ ~IsActive(db', c)
        /\ db'.task[t] = IF db'.ctx[c].fails = FailureLimit THEN "failed" ELSE "ready"
    BY <1>1, <1>4, <2>1, FailTouches
  <2>5. db'.gates = db.gates /\ OnlyEnds(db, db')
    BY <1>1, <1>4, <2>1, FailDispatchOk
  <2>6. /\ \A x : Mailed(x)' => Mailed(x) \/ x = t
        /\ \A x : Reported(x)' => Reported(x)
        /\ OneReport'
    <3>1. CASE mail' = mail
      BY <3>1 DEF Mailed, Reported, Tidy, OneReport
    <3>2. CASE mail' = Append(mail, [type |-> "escalation", task |-> t])
      <4>1. PICK m \in Message : m = [type |-> "escalation", task |-> t]
        BY DEF Message
      <4>2. m.type = "escalation" /\ m.task = t
        BY <4>1
      <4> QED BY <3>2, <4>1, <4>2, AppendMail DEF Tidy
    <3> QED BY <1>4, <3>1, <3>2
  <2>7. Elsewhere({t})
    BY <1>1, <2>4, <2>6 DEF Elsewhere
  <2>8. \A x \in Tasks \ {t} : TaskInOrder(x)'
    BY <1>2, <2>7, Untouched DEF Tidy
  <2>9. \A x : (Gated(db', x) <=> Gated(db, x)) /\ (Tried(db', x) <=> Tried(db, x))
    BY <2>5, SameGates DEF Tried, OnlyEnds
  <2>10. \A a \in DOMAIN db'.ctx : db'.ctx[a].task = t => ~IsActive(db', a)
    BY <2>2, <2>3, <2>4, <2>5 DEF TaskInOrder, OnlyEnds
  <2>11. \A a \in work' : db'.ctx[a].task # t
    <3>1. \A a \in work : db.ctx[a].task = t => a = c
      BY <2>2, <2>3 DEF TaskInOrder, TypeOK
    <3> QED BY <1>1, <2>1, <2>5, <3>1 DEF OnlyEnds, TypeOK
  <2>12. ~Gated(db, t) /\ t \notin coord'.ready /\ ~Checked(t)'
    BY <1>1, <2>2 DEF TaskInOrder, Checked
  <2>13. db'.task[t] \in {"ready", "failed"}
    BY <2>4
  <2>14. TaskInOrder(t)'
    BY <2>2, <2>9, <2>10, <2>11, <2>12, <2>13 DEF TaskInOrder
  <2>15. Founded'
    <3>1. \A x \in Tasks \ {t} : db'.task[x] = db.task[x]
      BY <2>4 DEF Touches
    <3>2. \A g \in DOMAIN db'.gates : Tried(db', db'.gates[g].task)
      BY <2>2, <2>5, <2>9 DEF Founded
    <3> QED BY <2>2, <2>9, <3>1, <3>2, FoundedStep
  <2>16. SendInOrder'
    <3> SUFFICES ASSUME NEW a \in DOMAIN db'.ctx, NEW x \in Tasks,
                        Sending(a)', db'.ctx[a].task = x
                 PROVE  /\ IsLatest(db', x, a) /\ a \notin work'
                        /\ ~Reported(x)' /\ ~Gated(db', x) /\ x \notin coord'.ready
                        /\ db'.ctx[a].handle = call'["coordinator"].handle
                        /\ db'.task[x] \in {"dispatched", "ready", "failed"}
                        /\ db'.task[x] = "failed" => db'.ctx[a].fails = FailureLimit
                        /\ term'[db'.ctx[a].handle] = "live" => IsActive(db', a) /\ ~Mailed(x)'
      BY DEF SendInOrder
    <3>1. /\ a \in DOMAIN db.ctx /\ Sending(a) /\ db.ctx[a].task = x
          /\ db'.ctx[a].handle = db.ctx[a].handle /\ db.ctx[a].handle \in Terminals
      BY <1>1, <2>5, CtxSeq DEF OnlyEnds, Sending, Ctx
    <3>2. /\ IsLatest(db, x, a) /\ a \notin work
          /\ ~Reported(x) /\ ~Gated(db, x) /\ x \notin coord.ready
          /\ db.ctx[a].handle = call["coordinator"].handle
          /\ db.task[x] \in {"dispatched", "ready", "failed"}
          /\ db.task[x] = "failed" => db.ctx[a].fails = FailureLimit
          /\ term[db.ctx[a].handle] = "live" => IsActive(db, a) /\ ~Mailed(x)
      BY <3>1 DEF Tidy, SendInOrder
    <3>3. IsLatest(db', x, a)
      BY <2>5, <3>2 DEF OnlyEnds, IsLatest
    <3>4. CASE x = t
      <4>1. a = c
        BY <2>3, <3>1, <3>2, <3>4
      <4> QED BY <1>1, <1>2, <2>1, <2>4, <2>6, <2>9, <2>13, <3>1, <3>2, <3>3, <3>4, <4>1
    <3>5. CASE x # t
      <4>1. db'.ctx[a] = db.ctx[a] /\ db'.task[x] = db.task[x] /\ (IsActive(db', a) <=> IsActive(db, a))
        BY <2>4, <3>1, <3>5 DEF Touches, IsActive
      <4> QED BY <1>1, <1>2, <2>6, <2>9, <3>1, <3>2, <3>3, <3>5, <4>1
    <3> QED BY <3>4, <3>5
  <2> QED BY <2>6, <2>8, <2>14, <2>15, <2>16 DEF Tidy
<1>5. \A c \in ActiveOn(db, h) : db.ctx[c].task \in Tasks
  BY <1>1, CtxSeq DEF ActiveOn, Ctx
<1> QED BY <1>3, <1>4, <1>5 DEF TerminalExit

\* An agent reports, and is done with its dispatch.
LEMMA WorkerTidy ==
  ASSUME TypeOK, TypeOK', InOrder, Tidy, ByTheBook, NEW c \in work,
         WorkerDone(c) \/ WorkerEscalates(c) \/ WorkerAsks(c)
  PROVE  Tidy'
<1>1. /\ UNCHANGED <<db, run, coord, call, term>> /\ work' = work \ {c} /\ coord.pc # "mail"
  BY DEF WorkerDone, WorkerEscalates, WorkerAsks, WorkerStops, ByTheBook, Yielded
<1>2. PICK t \in Tasks : t = db.ctx[c].task
  BY CtxSeq DEF TypeOK, Ctx
<1>3. PICK m \in Message : mail' = Append(mail, m) /\ m.task = t
  <2>1. \A ty \in {"worker_done", "escalation", "decision_gate"} :
          [type |-> ty, task |-> t] \in Message /\ [type |-> ty, task |-> t].task = t
    BY DEF Message
  <2> QED BY <1>2, <2>1 DEF WorkerDone, WorkerEscalates, WorkerAsks
<1>4. /\ TaskInOrder(t) /\ IsActive(db, c) /\ ~Mailed(t) /\ c \in DOMAIN db.ctx
      /\ db.task[t] = "dispatched" /\ IsLatest(db, t, c) /\ Tried(db, t)
  BY <1>2 DEF Tidy, TaskInOrder, Tried, TypeOK
<1>5. ~Reported(t)
  BY <1>4 DEF Mailed, Reported
<1>6. /\ \A x : Mailed(x)' => Mailed(x) \/ x = t
      /\ \A x : Reported(x)' => Reported(x) \/ x = t
      /\ OneReport'
  BY <1>3, <1>5, AppendMail DEF Tidy
<1>7. NoNewPlans
  BY <1>1 DEF NoNewPlans, Checked, Tidy, TaskInOrder
<1>8. Elsewhere({t})
  BY <1>1, <1>6, SameDb DEF Elsewhere
<1>9. \A x \in Tasks \ {t} : TaskInOrder(x)'
  BY <1>7, <1>8, Untouched DEF Tidy
<1>10. \A o \in DOMAIN db.ctx : IsLatest(db, t, o) => o = c
  BY <1>4, CtxSeq DEF IsLatest, TypeOK
<1>11. TaskInOrder(t)'
  <2>1. \A o \in work' : db'.ctx[o].task # t
    BY <1>1, <1>4, <1>10 DEF TaskInOrder, TypeOK
  <2>2. ~Gated(db', t) /\ t \notin coord'.ready /\ ~Checked(t)'
    BY <1>1, <1>4 DEF TaskInOrder, Checked
  <2> QED BY <1>1, <1>4, <2>1, <2>2 DEF TaskInOrder
<1>12. SendInOrder'
  <2>1. ASSUME call["coordinator"].pc = "send"
        PROVE  db.ctx[call["coordinator"].ctx].task \in Tasks \ {t}
    <3>1. PICK a \in DOMAIN db.ctx, x \in Tasks : a = call["coordinator"].ctx /\ x = db.ctx[a].task
      BY <2>1, CtxSeq DEF TypeOK, Ctx
    <3>2. IsLatest(db, x, a) /\ a \notin work
      BY <2>1, <3>1 DEF Tidy, SendInOrder, Sending
    <3> QED BY <1>10, <3>1, <3>2
  <2> QED BY <1>1, <1>8, <2>1, SendUntouched DEF Tidy
<1>13. Founded'
  BY <1>1 DEF Tidy, Founded
<1> QED BY <1>6, <1>9, <1>11, <1>12, <1>13 DEF Tidy

LEMMA OperatorTidy ==
  ASSUME TypeOK, TypeOK', InOrder, Tidy, ByTheBook, OperatorStep
  PROVE  Tidy'
<1>1. \A op \in {"rpc", "gate", "again", "update"} : ~Use(op)
  BY NeverUsed DEF ByTheBook, Ops
<1>2. ASSUME NEW t \in Tasks, UNCHANGED <<mail, run, coord, call, term, work>>, coord.pc # "mail",
             Touches(db, db', {t}), db'.ctx = db.ctx, TaskInOrder(t)',
             db.task[t] # "completed",
             db'.task[t] = "ready" => Tried(db, t) \/ DepsCompleted(db', t),
             call["coordinator"].pc = "send" => db.ctx[call["coordinator"].ctx].task # t,
             \A g \in DOMAIN db'.gates : Tried(db', db'.gates[g].task)
      PROVE  Tidy'
  <2>1. NoNewPlans
    BY <1>2 DEF NoNewPlans, Checked, Tidy, TaskInOrder
  <2>2. Elsewhere({t})
    BY <1>2 DEF Elsewhere, Mailed, Reported
  <2>3. \A x \in Tasks : TaskInOrder(x)'
    BY <1>2, <2>1, <2>2, Untouched DEF Tidy
  <2>4. SendInOrder'
    <3>1. call["coordinator"].pc = "send" => db.ctx[call["coordinator"].ctx].task \in Tasks
      BY CtxSeq DEF TypeOK, Ctx
    <3> QED BY <1>2, <2>2, <3>1, SendUntouched DEF Tidy
  <2>5. Founded'
    <3>1. \A x \in Tasks \ {t} : db'.task[x] = db.task[x]
      BY <1>2 DEF Touches
    <3>2. \A x : Tried(db', x) <=> Tried(db, x)
      BY <1>2 DEF Tried
    <3> QED BY <1>2, <3>1, <3>2, FoundedStep DEF Tidy
  <2> QED BY <1>2, <2>3, <2>4, <2>5 DEF Tidy, OneReport
<1>3. ASSUME NEW t \in Tasks, RpcTaskCreate(t) PROVE Tidy'
  <2>1. /\ UNCHANGED <<mail, run, coord, call, term, work>> /\ coord.pc # "mail"
        /\ db.task[t] = "absent" /\ db' = CreateTask(db, t) /\ db \in Database
    BY <1>3 DEF RpcTaskCreate, Yielded, Exists, TypeOK
  <2>2. /\ Touches(db, db', {t}) /\ db'.ctx = db.ctx /\ db'.gates = db.gates
        /\ db'.task[t] = "pending" \/ (db'.task[t] = "ready" /\ DepsCompleted(db', t))
    BY <2>1, CreateTaskTouches
  <2>3. TaskInOrder(t) /\ ~Tried(db, t) /\ ~Mailed(t) /\ ~Gated(db, t) /\ ~Reported(t)
    BY <2>1 DEF Tidy, TaskInOrder, Mailed, Reported
  <2>4. ~Tried(db', t) /\ ~Mailed(t)' /\ ~Gated(db', t) /\ ~Reported(t)'
    BY <2>1, <2>2, <2>3, SameGates DEF Tried, Mailed, Reported
  <2>5. t \notin coord'.ready /\ ~Checked(t)'
    BY <2>1, <2>3 DEF TaskInOrder, Checked
  <2>6. TaskInOrder(t)'
    BY <2>4, <2>5 DEF TaskInOrder, Tried, TypeOK
  <2>7. call["coordinator"].pc = "send" => db.ctx[call["coordinator"].ctx].task # t
    BY <2>3 DEF TypeOK, Tried
  <2>8. \A g \in DOMAIN db'.gates : Tried(db', db'.gates[g].task)
    BY <2>2 DEF Tidy, Founded, Tried
  <2> QED BY <1>2, <2>1, <2>2, <2>6, <2>7, <2>8
<1>4. ASSUME NEW g \in DOMAIN db.gates, RpcGateResolve(g) PROVE Tidy'
  <2>1. /\ UNCHANGED <<mail, run, coord, call, term, work>> /\ coord.pc # "mail"
        /\ g \in PendingGates(db) /\ db' = ResolveGate(db, g) /\ db \in Database
    BY <1>1, <1>4 DEF RpcGateResolve, Yielded, TypeOK
  <2>2. PICK t \in Tasks : t = db.gates[g].task
    BY <2>1, ResolveTouches
  <2>3. /\ Touches(db, db', {t}) /\ db'.ctx = db.ctx /\ db'.task[t] = "ready"
        /\ Gated(db', t) => Gated(db, t)
        /\ DOMAIN db'.gates = DOMAIN db.gates
        /\ \A o \in DOMAIN db.gates : db'.gates[o].task = db.gates[o].task
    BY <2>1, <2>2, ResolveTouches
  <2>4. TaskInOrder(t) /\ Gated(db, t) /\ Tried(db, t) /\ db.task[t] \in {"blocked", "ready"}
    BY <2>1, <2>2 DEF Tidy, TaskInOrder, Gated
  <2>5. /\ ~Reported(t)' /\ t \notin coord'.ready /\ ~Checked(t)' /\ Tried(db', t)
    BY <2>1, <2>3, <2>4 DEF TaskInOrder, Reported, Checked, Tried
  <2>6. \A c \in DOMAIN db'.ctx : db'.ctx[c].task = t => ~IsActive(db', c)
    BY <2>3, <2>4 DEF TaskInOrder, IsActive
  <2>7. \A c \in work' : db'.ctx[c].task # t
    BY <2>1, <2>3, <2>4, <2>6 DEF TaskInOrder, TypeOK, IsActive
  <2>8. TaskInOrder(t)'
    BY <2>3, <2>5, <2>6, <2>7 DEF TaskInOrder
  <2>9. ASSUME call["coordinator"].pc = "send"
        PROVE  db.ctx[call["coordinator"].ctx].task # t
    <3>1. PICK a \in DOMAIN db.ctx, x \in Tasks : a = call["coordinator"].ctx /\ x = db.ctx[a].task
      BY <2>9, CtxSeq DEF TypeOK, Ctx
    <3>2. ~Gated(db, x)
      BY <2>9, <3>1 DEF Tidy, SendInOrder, Sending
    <3> QED BY <2>4, <3>1, <3>2
  <2>10. \A o \in DOMAIN db'.gates : Tried(db', db'.gates[o].task)
    BY <2>3 DEF Tidy, Founded, Tried
  <2> QED BY <1>2, <2>1, <2>3, <2>4, <2>8, <2>9, <2>10
<1> QED BY <1>1, <1>3, <1>4 DEF OperatorStep, RpcDispatch, RpcGateCreate, RpcTaskUpdate

LEMMA OrderlyStep ==
  ASSUME TypeOK, OrderlyInv, ByTheBook, [Next]_vars
  PROVE  OrderlyInv'
<1>1. TypeOK' /\ TerminalLock'
  BY Step DEF DbStep, Locked, TerminalLock, OrderlyInv
<1>2. InOrder' /\ Budget'
  BY BudgetStep DEF OrderlyInv, ByTheBook
<1>3. Tidy'
  <2>1. CASE CoordinatorStep
    BY <1>1, <2>1, CoordinatorTidy, MailTidy, BeginTidy, ClaimTidy, SentTidy
       DEF CoordinatorStep, OrderlyInv
  <2>2. CASE WorkerStep
    BY <1>1, <2>2, WorkerTidy DEF WorkerStep, OrderlyInv
  <2>3. CASE OperatorStep
    BY <1>1, <2>3, OperatorTidy DEF OrderlyInv
  <2>4. CASE \E h \in Terminals : TerminalExit(h)
    BY <1>1, <2>4, ExitTidy DEF OrderlyInv
  <2>5. CASE UNCHANGED vars
    <3>1. NoNewPlans
      BY <2>5 DEF NoNewPlans, Checked, vars, OrderlyInv, Tidy, TaskInOrder
    <3> QED BY <2>5, <3>1, StillTidy DEF vars, OrderlyInv
  <2> QED BY <2>1, <2>2, <2>3, <2>4, <2>5 DEF Next
<1> QED BY <1>1, <1>2, <1>3 DEF OrderlyInv

LEMMA InitOrderly == ASSUME Init PROVE OrderlyInv
<1>1. /\ coord.pc = "off" /\ coord.ready = {} /\ call["coordinator"].pc = "idle"
      /\ call["rpc"].pc = "idle"
  BY IdleOk DEF Init, Off, Callers
<1>2. /\ DOMAIN db.ctx = {} /\ DOMAIN db.gates = {} /\ DOMAIN mail = {} /\ work = {}
      /\ \A t \in Tasks : db.task[t] # "dispatched"
      /\ \A t \in Tasks : db.task[t] = "ready" => Deps[t] = {}
  BY DEF Init
<1>3. InOrder /\ Budget
  <2>1. WithStatus(db, "dispatched") = {}
    BY <1>2 DEF WithStatus
  <2> QED BY <1>1, <2>1, FS_EmptySet, OrchestrationAssumption DEF InOrder, Budget
<1>4. TerminalLock
  BY <1>2 DEF TerminalLock
<1>5. \A t : ~Tried(db, t) /\ ~Mailed(t) /\ ~Reported(t) /\ ~Gated(db, t) /\ ~Checked(t)
  BY <1>1, <1>2 DEF Tried, Mailed, Reported, Gated, PendingGates, Checked
<1>6. \A t \in Tasks : TaskInOrder(t)
  BY <1>1, <1>2, <1>5 DEF TaskInOrder
<1>7. Founded /\ OneReport /\ SendInOrder
  BY <1>1, <1>2, <1>5 DEF Founded, OneReport, SendInOrder, Sending, DepsCompleted
<1> QED BY <1>3, <1>4, <1>6, <1>7 DEF OrderlyInv, Tidy

\* While nobody interferes by hand, no task is ready, and none is dispatched,
\* before its dependencies are done: promoteReadyTasks (db.ts:464-483) is the
\* only way out of 'pending', and a gate, a failure or a worker that reports
\* sends back to 'ready' only what was ready before.
THEOREM ReadyTasksAreFounded == ASSUME ByTheBook, "dispatched" \notin Manual
                                PROVE  Spec => []ReadyMeansDepsDone
<1> DEFINE Inv == TypeOK /\ OrderlyInv /\ Held(db)
<1>1. Init => Inv
  BY InitType, InitOrderly
<1>2. Inv /\ [Next]_vars => Inv'
  BY Step, OrderlyStep DEF DbStep, Held
<1>3. Inv => ReadyMeansDepsDone
  <2> SUFFICES ASSUME Inv, NEW t \in Tasks, db.task[t] \in {"ready", "dispatched"}
               PROVE  DepsCompleted(db, t)
    BY DEF ReadyMeansDepsDone
  <2>1. CASE db.task[t] = "ready"
    BY <2>1 DEF OrderlyInv, Tidy, Founded
  <2>2. CASE db.task[t] = "dispatched"
    BY <2>2 DEF Held, OrderlyInv, Tidy, Founded, Tried
  <2> QED BY <2>1, <2>2
<1> QED BY <1>1, <1>2, <1>3, PTL DEF Spec

\* While nobody interferes by hand, a decision gate stops the work on its task:
\* its dispatch is ended with the gate (db.ts:637-648), and no other
\* is made before the gate is answered, although the coordinator dispatches
\* from a list it read earlier.
THEOREM GatesHold == ASSUME ByTheBook PROVE Spec => []GateHolds
<1> DEFINE Inv == TypeOK /\ OrderlyInv
<1>1. Init => Inv
  BY InitType, InitOrderly
<1>2. Inv /\ [Next]_vars => Inv'
  BY Step, OrderlyStep
<1>3. Inv => GateHolds
  <2> SUFFICES ASSUME Inv, NEW g \in PendingGates(db), NEW c \in DOMAIN db.ctx,
                      db.ctx[c].task = db.gates[g].task
               PROVE  ~IsActive(db, c)
    BY DEF GateHolds
  <2>1. PICK t \in Tasks : t = db.ctx[c].task
    BY CtxSeq DEF TypeOK, Ctx
  <2>2. TaskInOrder(t) /\ Gated(db, t)
    BY <2>1 DEF OrderlyInv, Tidy, Gated
  <2> QED BY <2>1, <2>2 DEF TaskInOrder
<1> QED BY <1>1, <1>2, <1>3, PTL DEF Spec

-----------------------------------------------------------------------------
(* The graph of tasks that it implements *)

LEMMA HolderOk ==
  ASSUME NEW d, NEW t
  PROVE  /\ (\A c \in DOMAIN d.ctx : d.ctx[c].task = t => ~IsActive(d, c)) => Holder(d, t) = Nobody
         /\ \A c \in DOMAIN d.ctx :
              /\ IsActive(d, c) /\ d.ctx[c].task = t
              /\ \A o \in DOMAIN d.ctx : IsActive(d, o) /\ d.ctx[o].task = t => o = c
              => Holder(d, t) = d.ctx[c].handle
         /\ Holder(d, t) = Nobody \/ \E c \in DOMAIN d.ctx : IsActive(d, c) /\ Holder(d, t) = d.ctx[c].handle
<1>1. (\A c \in DOMAIN d.ctx : d.ctx[c].task = t => ~IsActive(d, c)) => Holders(d, t) = {}
  BY DEF Holders
<1>2. ASSUME NEW c \in DOMAIN d.ctx, IsActive(d, c), d.ctx[c].task = t,
             \A o \in DOMAIN d.ctx : IsActive(d, o) /\ d.ctx[o].task = t => o = c
      PROVE  Holders(d, t) = {d.ctx[c].handle}
  BY <1>2 DEF Holders
<1>3. \A h \in Holders(d, t) : \E c \in DOMAIN d.ctx : IsActive(d, c) /\ h = d.ctx[c].handle
  BY DEF Holders
<1>4. Holders(d, t) # {} => Holder(d, t) \in Holders(d, t)
  BY DEF Holder
<1>5. Holders(d, t) = {} => Holder(d, t) = Nobody
  BY DEF Holder
<1> QED BY <1>1, <1>2, <1>3, <1>4, <1>5

\* From d to e, task x looks the same.
Alike(d, e, x) == StateOf[e.task[x]] = StateOf[d.task[x]] /\ Holder(e, x) = Holder(d, x)

LEMMA SameHolder ==
  ASSUME NEW d, NEW e, NEW x, DOMAIN d.ctx \subseteq DOMAIN e.ctx,
         \A c \in DOMAIN d.ctx : d.ctx[c].task = x => e.ctx[c] = d.ctx[c],
         \A c \in DOMAIN e.ctx : e.ctx[c].task = x => c \in DOMAIN d.ctx /\ e.ctx[c] = d.ctx[c]
  PROVE  Holder(e, x) = Holder(d, x)
<1>1. Holders(e, x) = Holders(d, x)
  BY DEF Holders, IsActive
<1> QED BY <1>1 DEF Holder

LEMMA TouchedAlike ==
  ASSUME NEW d, NEW e, NEW S, Touches(d, e, S), NEW x \in Tasks \ S
  PROVE  Alike(d, e, x)
<1>1. /\ \A c \in DOMAIN d.ctx : d.ctx[c].task = x => e.ctx[c] = d.ctx[c]
      /\ \A c \in DOMAIN e.ctx : e.ctx[c].task = x => c \in DOMAIN d.ctx /\ e.ctx[c] = d.ctx[c]
      /\ DOMAIN d.ctx \subseteq DOMAIN e.ctx /\ e.task[x] = d.task[x]
  BY DEF Touches
<1> QED BY <1>1, SameHolder DEF Alike

LEMMA StatesAre ==
  /\ StateOf["pending"] = "todo" /\ StateOf["ready"] = "todo" /\ StateOf["absent"] = "todo"
  /\ StateOf["dispatched"] = "claimed" /\ StateOf["blocked"] = "blocked"
  /\ StateOf["completed"] = "done" /\ StateOf["failed"] = "failed"
  BY DEF StateOf

LEMMA IdleHolder ==
  ASSUME NEW d, NEW t, d.task[t] # "dispatched",
         \A c \in DOMAIN d.ctx : IsActive(d, c) /\ d.ctx[c].task = t => d.task[t] = "dispatched"
  PROVE  Holder(d, t) = Nobody
  BY HolderOk

GraphStep == [Graph!Next]_<<GraphState, GraphHolder>>

LEMMA AlikeStep ==
  ASSUME \A x \in Tasks : Alike(db, db', x)
  PROVE  GraphStep
  BY DEF Alike, GraphStep, GraphState, GraphHolder

\* One task moves, and nobody works on it then.
LEMMA MoveStep ==
  ASSUME TypeOK, TypeOK', Tidy, Tidy', NEW t \in Tasks,
         \A x \in Tasks \ {t} : Alike(db, db', x),
         db'.task[t] # "dispatched",
         db.task[t] = "completed" => db'.task[t] = "completed",
         db.task[t] = "failed" => db'.task[t] \in {"failed", "blocked", "completed"},
         db.task[t] = "blocked" => db'.task[t] # "completed"
  PROVE  GraphStep
<1> DEFINE from == StateOf[db.task[t]]
           to == StateOf[db'.task[t]]
<1>1. Holder(db', t) = Nobody /\ (db.task[t] # "dispatched" => Holder(db, t) = Nobody)
  <2>1. TaskInOrder(t) /\ TaskInOrder(t)'
    BY DEF Tidy
  <2>2. \A c \in DOMAIN db.ctx : IsActive(db, c) /\ db.ctx[c].task = t => db.task[t] = "dispatched"
    BY <2>1 DEF TaskInOrder
  <2>3. \A c \in DOMAIN db'.ctx : IsActive(db', c) /\ db'.ctx[c].task = t => db'.task[t] = "dispatched"
    BY <2>1 DEF TaskInOrder
  <2>4. Holder(db', t) = Nobody
    BY <2>3, IdleHolder
  <2> QED BY <2>2, <2>4, IdleHolder
<1>2. db.task[t] \in TaskStatus /\ db'.task[t] \in TaskStatus
  BY DEF TypeOK, Database
<1>3. /\ GraphState' = [x \in Tasks |-> IF x \in {t} THEN to ELSE GraphState[x]]
      /\ GraphHolder' = [x \in Tasks |-> IF x \in {t} THEN Nobody ELSE GraphHolder[x]]
      /\ GraphState[t] = from
  BY <1>1 DEF GraphState, GraphHolder, Alike
<1>4. CASE StateOf[db'.task[t]] = StateOf[db.task[t]]
  <2>1. db.task[t] # "dispatched"
    BY <1>2, <1>4, StatesAre DEF TaskStatus
  <2> QED BY <1>1, <1>4, <2>1, AlikeStep DEF Alike
<1>5. CASE to = "todo" /\ from # to
  <2>1. from \in {"claimed", "blocked"}
    BY <1>2, <1>5, StatesAre DEF TaskStatus
  <2>2. Graph!Return(t)
    BY <1>3, <1>5, <2>1 DEF Graph!Return, Graph!Move
  <2> QED BY <2>2 DEF GraphStep, Graph!Next
<1>6. CASE to = "done" /\ from # to
  <2>1. from \in {"todo", "claimed", "failed"}
    BY <1>2, <1>6, StatesAre DEF TaskStatus
  <2>2. Graph!Finish(t)
    BY <1>3, <1>6, <2>1 DEF Graph!Finish, Graph!Move
  <2> QED BY <2>2 DEF GraphStep, Graph!Next
<1>7. CASE to = "failed" /\ from # to
  <2>1. from \in {"todo", "claimed", "blocked"}
    BY <1>2, <1>7, StatesAre DEF TaskStatus
  <2>2. Graph!GiveUp(t)
    BY <1>3, <1>7, <2>1 DEF Graph!GiveUp, Graph!Move
  <2> QED BY <2>2 DEF GraphStep, Graph!Next
<1>8. CASE to = "blocked" /\ from # to
  <2>1. from \in {"todo", "claimed", "failed"}
    BY <1>2, <1>8, StatesAre DEF TaskStatus
  <2>2. Graph!Block({t})
    BY <1>3, <1>8, <2>1 DEF Graph!Block, Graph!Move
  <2> QED BY <2>2 DEF GraphStep, Graph!Next
<1> QED
  <2>1. to \in {"todo", "done", "failed", "blocked"}
    BY <1>2, StatesAre DEF TaskStatus
  <2> QED BY <1>4, <1>5, <1>6, <1>7, <1>8, <2>1

\* A dispatch fails: its task is up again, or given up.
LEMMA FailStep ==
  ASSUME TypeOK, TypeOK', Tidy, Tidy', NEW c \in DOMAIN db.ctx, db' = FailDispatch(db, c),
         db.task[db.ctx[c].task] # "completed",
         db.task[db.ctx[c].task] = "failed" => db.ctx[c].fails = FailureLimit
  PROVE  GraphStep
<1>1. PICK t \in Tasks : t = db.ctx[c].task
  BY CtxSeq DEF TypeOK, Ctx
<1>2. db \in Database
  BY DEF TypeOK
<1>3. /\ Touches(db, db', {t})
      /\ db'.task[t] = IF db'.ctx[c].fails = FailureLimit THEN "failed" ELSE "ready"
  BY <1>1, <1>2, FailTouches
<1>4. db.ctx[c].fails = FailureLimit => db'.ctx[c].fails = FailureLimit
  BY <1>2, FailDispatchOk
<1>5. \A x \in Tasks \ {t} : Alike(db, db', x)
  BY <1>3, TouchedAlike
<1>6. db'.task[t] \in {"ready", "failed"} /\ (db.task[t] = "failed" => db'.task[t] = "failed")
  BY <1>1, <1>3, <1>4
<1> QED BY <1>1, <1>5, <1>6, MoveStep

LEMMA MailStep ==
  ASSUME TypeOK, TypeOK', Tidy, Tidy', HandleMessage
  PROVE  GraphStep
<1>1. PICK m : m = Head(mail)
  OBVIOUS
<1>2. PICK t : t = m.task
  OBVIOUS
<1>3. m \in Message /\ t \in Tasks /\ (m.type # "escalation" => Reported(t)) /\ db \in Database
  <2>1. m \in Message /\ (m.type # "escalation" => Reported(t))
    BY <1>1, <1>2, TailMail DEF HandleMessage, Tidy
  <2> QED BY <1>2, <2>1 DEF Message, TypeOK
<1>4. m.type # "escalation" => db.task[t] \in {"dispatched", "ready", "failed"}
  BY <1>3 DEF Tidy, TaskInOrder
<1>5. CASE m.type = "worker_done"
  <2>1. PICK d : d = UpdateTaskStatus(db, t, "completed")
    OBVIOUS
  <2>2. /\ d \in Database /\ OnlyEnds(db, d) /\ d.gates = db.gates /\ d.task[t] = "completed"
        /\ \A x \in Tasks \ {t} :
             \/ d.task[x] = db.task[x]
             \/ db.task[x] = "pending" /\ d.task[x] = "ready" /\ DepsCompleted(d, x)
        /\ \A c \in DOMAIN db.ctx : db.ctx[c].task # t => d.ctx[c] = db.ctx[c]
    <3>1. d \in Database
      BY <1>3, <2>1, UpdateTaskStatusOk DEF TaskStatus
    <3> QED BY <1>3, <2>1, <3>1, DoneTouches
  <2>3. \A x \in Tasks \ {t} : Alike(db, d, x)
    <3> TAKE x \in Tasks \ {t}
    <3>1. StateOf[d.task[x]] = StateOf[db.task[x]]
      BY <2>2, StatesAre
    <3>2. Holder(d, x) = Holder(db, x)
      BY <2>2, SameHolder DEF OnlyEnds
    <3> QED BY <3>1, <3>2 DEF Alike
  <2>4. /\ db'.task[t] = "completed"
        /\ \A x \in Tasks \ {t} : Alike(db, db', x)
    <3>1. CASE db' = d
      BY <2>2, <2>3, <3>1
    <3>2. ASSUME NEW c \in DOMAIN db.ctx, IsLatest(db, t, c), db' = CompleteDispatch(d, c)
          PROVE  <2>4
      <4>1. c \in DOMAIN d.ctx /\ d.ctx[c].task = t
        BY <2>2, <3>2 DEF OnlyEnds, IsLatest
      <4>2. Touches(d, db', {t}) /\ db'.task = d.task
        BY <2>2, <3>2, <4>1, CompleteTouches
      <4>3. \A x \in Tasks \ {t} : Alike(d, db', x)
        BY <4>2, TouchedAlike
      <4> QED BY <2>2, <2>3, <4>2, <4>3 DEF Alike
    <3> QED BY <1>1, <1>2, <1>5, <2>1, <3>1, <3>2 DEF HandleMessage, HandleWorkerDone
  <2> QED BY <1>3, <1>4, <1>5, <2>4, MoveStep
<1>6. CASE m.type = "escalation"
  <2>1. CASE UNCHANGED db
    <3>1. \A x \in Tasks : Alike(db, db', x)
      BY <2>1 DEF Alike
    <3> QED BY <3>1, AlikeStep
  <2>2. ASSUME NEW c \in DOMAIN db.ctx, IsLatest(db, t, c), db.task[t] \notin Ended,
               db' = FailDispatch(db, c)
        PROVE  GraphStep
    BY <2>2, FailStep DEF IsLatest, Ended
  <2> QED BY <1>1, <1>2, <1>6, <2>1, <2>2 DEF HandleMessage, HandleEscalation
<1>7. CASE m.type = "decision_gate"
  <2>1. db' = CreateGate(db, t)
    BY <1>1, <1>2, <1>7 DEF HandleMessage, HandleDecisionGate
  <2>2. Touches(db, db', {t}) /\ db'.task[t] = "blocked"
    BY <1>3, <2>1, GateTouches
  <2>3. \A x \in Tasks \ {t} : Alike(db, db', x)
    BY <2>2, TouchedAlike
  <2> QED BY <1>3, <1>4, <1>7, <2>2, <2>3, MoveStep
<1> QED BY <1>3, <1>5, <1>6, <1>7 DEF Message

\* Every task with an open gate is blocked, and nobody works on one.
LEMMA BlockStep ==
  ASSUME TypeOK, TypeOK', Tidy, Tidy', BeginDispatch
  PROVE  GraphStep
<1>1. /\ db'.ctx = db.ctx /\ db \in Database
      /\ \A x \in Tasks : db'.task[x] = IF Gated(db, x) THEN "blocked" ELSE db.task[x]
  <2>1. db \in Database /\ db' = ProcessGates(db)
    BY DEF TypeOK, BeginDispatch
  <2> QED BY <2>1, ProcessTouches
<1>2. PICK S \in SUBSET Tasks : S = {x \in Tasks : Gated(db, x) /\ db.task[x] # "blocked"}
  OBVIOUS
<1>3. \A x \in Tasks : Holder(db', x) = Holder(db, x)
  BY <1>1 DEF Holder, Holders, IsActive
<1>4. ASSUME NEW x \in S PROVE db.task[x] \in {"ready", "failed"} /\ Holder(db, x) = Nobody
  <2>1. TaskInOrder(x) /\ Gated(db, x) /\ db.task[x] # "blocked"
    BY <1>2 DEF Tidy
  <2>2. db.task[x] \in {"ready", "failed"}
    BY <2>1 DEF TaskInOrder
  <2>3. \A c \in DOMAIN db.ctx : IsActive(db, c) /\ db.ctx[c].task = x => db.task[x] = "dispatched"
    BY <2>1 DEF TaskInOrder
  <2> QED BY <2>2, <2>3, IdleHolder
<1>5. /\ GraphState' = [x \in Tasks |-> IF x \in S THEN "blocked" ELSE GraphState[x]]
      /\ GraphHolder' = [x \in Tasks |-> IF x \in S THEN Nobody ELSE GraphHolder[x]]
  <2>1. \A x \in Tasks : StateOf[db'.task[x]] = IF x \in S THEN "blocked" ELSE StateOf[db.task[x]]
    BY <1>1, <1>2, StatesAre
  <2>2. \A x \in Tasks : Holder(db', x) = IF x \in S THEN Nobody ELSE Holder(db, x)
    BY <1>3, <1>4
  <2> QED BY <2>1, <2>2 DEF GraphState, GraphHolder
<1>6. CASE S = {}
  BY <1>5, <1>6 DEF GraphStep, GraphState, GraphHolder
<1>7. CASE S # {}
  <2>1. \A x \in S : GraphState[x] \in {"todo", "claimed", "failed"}
    BY <1>2, <1>4, StatesAre DEF GraphState
  <2>2. Graph!Block(S)
    BY <1>5, <1>7, <2>1 DEF Graph!Block, Graph!Move
  <2> QED BY <2>2 DEF GraphStep, Graph!Next
<1> QED BY <1>6, <1>7

\* A task is claimed, its dependencies done, for a terminal that holds no other.
LEMMA ClaimedStep ==
  ASSUME TypeOK, TypeOK', Tidy, Tidy', NEW t \in Tasks, NEW h \in Terminals,
         Claimable(db, t, h), db' = CreateDispatch(db, t, h)
  PROVE  GraphStep
<1>1. PICK n : Adds(db, db', t, h, n)
  BY CreateTouches DEF TypeOK
<1>2. /\ \A x \in Tasks \ {t} : Alike(db, db', x)
      /\ db'.task[t] = "dispatched" /\ db.task[t] = "ready"
      /\ DOMAIN db'.ctx = DOMAIN db.ctx \cup {n} /\ IsActive(db', n)
      /\ n \in DOMAIN db'.ctx /\ db'.ctx[n].task = t /\ db'.ctx[n].handle = h
      /\ \A o \in DOMAIN db.ctx : db'.ctx[o] = db.ctx[o]
  BY <1>1, TouchedAlike DEF Adds, IsLatest, Claimable
<1>3. Holder(db', t) = h
  <2>1. \A o \in DOMAIN db'.ctx : IsActive(db', o) /\ db'.ctx[o].task = t => IsLatest(db', t, o)
    BY DEF Tidy, TaskInOrder
  <2>2. IsLatest(db', t, n)
    BY <1>1 DEF Adds
  <2>3. \A o \in DOMAIN db'.ctx : IsLatest(db', t, o) => o = n
    BY <2>2, CtxSeq DEF IsLatest, TypeOK
  <2> QED BY <1>2, <2>1, <2>3, HolderOk
<1>4. GraphState[t] = "todo" /\ \A x \in Deps[t] : GraphState[x] = "done"
  <2>1. DepsCompleted(db, t)
    BY <1>2 DEF Tidy, Founded
  <2> QED BY <1>2, <2>1, DepsAssumption, StatesAre DEF DepsCompleted, GraphState
<1>5. \A x \in Tasks : GraphHolder[x] # h
  <2>1. \A c \in DOMAIN db.ctx : IsActive(db, c) => db.ctx[c].handle # h
    BY DEF Claimable, ActiveOn
  <2>2. h # Nobody
    BY OrchestrationAssumption
  <2>3. \A x \in Tasks : Holder(db, x) # h
    BY <2>1, <2>2, HolderOk
  <2> QED BY <2>3 DEF GraphHolder
<1>6. /\ GraphState' = [GraphState EXCEPT ![t] = "claimed"]
      /\ GraphHolder' = [GraphHolder EXCEPT ![t] = h]
  <2>1. \A x \in Tasks : StateOf[db'.task[x]] = IF x = t THEN "claimed" ELSE StateOf[db.task[x]]
    BY <1>2, StatesAre DEF Alike
  <2>2. \A x \in Tasks : Holder(db', x) = IF x = t THEN h ELSE Holder(db, x)
    BY <1>2, <1>3 DEF Alike
  <2> QED BY <2>1, <2>2 DEF GraphState, GraphHolder
<1>7. Graph!Claim(t, h)
  BY <1>4, <1>5, <1>6 DEF Graph!Claim
<1> QED BY <1>7 DEF GraphStep, Graph!Next

\* The send of a dispatch is refused at once: the task was never claimed.
LEMMA RefusedStep ==
  ASSUME TypeOK, TypeOK', Tidy, Tidy', NEW t \in Tasks, NEW h \in Terminals,
         Claimable(db, t, h), db' = FailDispatch(CreateDispatch(db, t, h), Len(db.ctx) + 1)
  PROVE  GraphStep
<1>1. PICK n, new : n = Len(db.ctx) + 1 /\ new = CreateDispatch(db, t, h)
  OBVIOUS
<1>2. Adds(db, new, t, h, n) /\ new \in Database /\ db.task[t] = "ready"
  <2>1. db \in Database
    BY DEF TypeOK
  <2>2. Adds(db, new, t, h, n)
    BY <1>1, <2>1, CreateTouches
  <2>3. new \in Database
    BY <1>1, <2>1, CreateDispatchOk
  <2> QED BY <2>2, <2>3 DEF Claimable
<1>3. n \in DOMAIN new.ctx /\ new.ctx[n].task = t
  BY <1>2 DEF Adds, IsLatest
<1>4. db' = FailDispatch(new, n)
  BY <1>1
<1>5. Touches(new, db', {t}) /\ db'.task[t] \in {"ready", "failed"}
  <2>1. /\ Touches(new, db', {t})
        /\ db'.task[t] = IF db'.ctx[n].fails = FailureLimit THEN "failed" ELSE "ready"
    BY <1>2, <1>3, <1>4, FailTouches
  <2> QED BY <2>1
<1>6. \A x \in Tasks \ {t} : Alike(db, new, x) /\ Alike(new, db', x)
  BY <1>2, <1>5, TouchedAlike DEF Adds
<1>7. \A x \in Tasks \ {t} : Alike(db, db', x)
  BY <1>6 DEF Alike
<1> QED BY <1>2, <1>5, <1>7, MoveStep

LEMMA StepImplements ==
  ASSUME TypeOK, TypeOK', OrderlyInv, OrderlyInv', ByTheBook, [Next]_vars
  PROVE  GraphStep
<1>1. Tidy /\ Tidy' /\ InOrder
  BY DEF OrderlyInv
<1>2. CASE UNCHANGED db
  <2>1. \A x \in Tasks : Alike(db, db', x)
    BY <1>2 DEF Alike
  <2> QED BY <2>1, AlikeStep
<1>3. ASSUME NEW k \in Callers, Claim(k) PROVE GraphStep
  <2>1. PICK t \in Tasks, h \in Terminals : t = call[k].task /\ h = call[k].handle
    BY <1>3, IdleOk DEF Claim, TypeOK, Call
  <2>2. CASE Claimable(db, t, h) /\ db' = CreateDispatch(db, t, h)
    BY <1>1, <2>2, ClaimedStep
  <2>3. CASE Claimable(db, t, h) /\ Refused(k, CreateDispatch(db, t, h), Len(db.ctx) + 1)
    BY <1>1, <2>3, RefusedStep DEF Refused
  <2> QED BY <1>2, <1>3, <2>1, <2>2, <2>3 DEF Claim
<1>4. ASSUME NEW k \in Callers, Sent(k) PROVE GraphStep
  <2>1. PICK c \in DOMAIN db.ctx, t \in Tasks : c = call[k].ctx /\ t = db.ctx[c].task
    BY <1>4, CtxSeq DEF TypeOK, Ctx, Sent
  <2>2. Sending(c)
    BY <1>1, <1>4, <2>1 DEF Sent, Sending, InOrder, Callers
  <2>3. db.task[t] # "completed" /\ (db.task[t] = "failed" => db.ctx[c].fails = FailureLimit)
    BY <1>1, <2>1, <2>2 DEF Tidy, SendInOrder
  <2>4. CASE db' = FailDispatch(db, c)
    BY <1>1, <2>1, <2>3, <2>4, FailStep
  <2> QED BY <1>2, <1>4, <2>1, <2>4 DEF Sent, Refused
<1>5. CASE CoordinatorStep
  BY <1>1, <1>2, <1>3, <1>4, <1>5, MailStep, BlockStep
     DEF CoordinatorStep, StartRun, StopRun, Wake, ListTerminals, CreateTerminal
<1>6. CASE WorkerStep
  BY <1>2, <1>6 DEF WorkerStep, WorkerDone, WorkerEscalates, WorkerAsks
<1>7. CASE OperatorStep
  <2>1. \A op \in {"rpc", "gate", "again", "update"} : ~Use(op)
    BY NeverUsed DEF ByTheBook, Ops
  <2>2. ASSUME NEW t \in Tasks, RpcTaskCreate(t) PROVE GraphStep
    <3>1. db' = CreateTask(db, t) /\ db \in Database /\ db.task[t] = "absent"
      BY <2>2 DEF RpcTaskCreate, TypeOK, Exists
    <3>2. Touches(db, db', {t}) /\ db'.task[t] \in {"pending", "ready"}
      BY <3>1, CreateTaskTouches
    <3>3. \A x \in Tasks \ {t} : Alike(db, db', x)
      BY <3>2, TouchedAlike
    <3> QED BY <1>1, <3>1, <3>2, <3>3, MoveStep
  <2>3. ASSUME NEW g \in DOMAIN db.gates, RpcGateResolve(g) PROVE GraphStep
    <3>1. db' = ResolveGate(db, g) /\ db \in Database /\ g \in PendingGates(db) /\ coord.pc # "mail"
      BY <2>1, <2>3 DEF RpcGateResolve, TypeOK, Yielded
    <3>2. PICK t \in Tasks : t = db.gates[g].task
      BY <3>1, ResolveTouches
    <3>3. Touches(db, db', {t}) /\ db'.task[t] = "ready"
      BY <3>1, <3>2, ResolveTouches
    <3>4. db.task[t] \in {"blocked", "ready"}
      BY <1>1, <3>1, <3>2 DEF Tidy, TaskInOrder, Gated
    <3>5. \A x \in Tasks \ {t} : Alike(db, db', x)
      BY <3>3, TouchedAlike
    <3> QED BY <1>1, <3>3, <3>4, <3>5, MoveStep
  <2> QED BY <1>7, <2>1, <2>2, <2>3 DEF OperatorStep, RpcDispatch, RpcGateCreate, RpcTaskUpdate
<1>8. ASSUME NEW h \in Terminals, TerminalExit(h) PROVE GraphStep
  <2>1. ASSUME NEW c \in ActiveOn(db, h), db' = FailDispatch(db, c) PROVE GraphStep
    <3>1. PICK t \in Tasks : t = db.ctx[c].task
      BY CtxSeq DEF ActiveOn, TypeOK, Ctx
    <3>2. c \in DOMAIN db.ctx /\ db.task[t] = "dispatched"
      BY <1>1, <3>1 DEF Tidy, TaskInOrder, ActiveOn
    <3> QED BY <1>1, <2>1, <3>1, <3>2, FailStep
  <2> QED BY <1>2, <1>8, <2>1 DEF TerminalExit
<1>9. CASE UNCHANGED vars
  BY <1>2, <1>9 DEF vars
<1> QED BY <1>5, <1>6, <1>7, <1>8, <1>9 DEF Next

\* While nobody interferes by hand, the coordinator, its database, the agents
\* and the terminals that die under them are what a user takes them for: every
\* step of theirs is a step of TaskGraph, or invisible in it.
THEOREM RunsTheGraph == ASSUME ByTheBook PROVE Spec => ImplementsTaskGraph
<1> DEFINE Inv == TypeOK /\ OrderlyInv
<1>1. Init => Inv /\ Graph!Init
  <2> SUFFICES ASSUME Init PROVE Inv /\ Graph!Init
    OBVIOUS
  <2>1. Inv
    BY InitType, InitOrderly
  <2>2. \A t \in Tasks : StateOf[db.task[t]] = "todo"
    BY StatesAre DEF Init
  <2>3. \A t \in Tasks : Holder(db, t) = Nobody
    <3>1. DOMAIN db.ctx = {}
      BY DEF Init
    <3> QED BY <3>1, HolderOk
  <2> QED BY <2>1, <2>2, <2>3 DEF Graph!Init, GraphState, GraphHolder
<1>2. Inv /\ [Next]_vars => Inv' /\ [Graph!Next]_(Graph!vars)
  BY Step, OrderlyStep, StepImplements DEF GraphStep, Graph!vars
<1> QED BY <1>1, <1>2, PTL DEF Spec, ImplementsTaskGraph, Graph!Spec
=============================================================================
