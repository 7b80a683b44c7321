---------------------------- MODULE Orchestration ----------------------------
(***************************************************************************)
(* The orchestration of worker agents: the coordinator loop                *)
(* (src/main/runtime/orchestration/coordinator.ts), the orchestration RPC  *)
(* methods (src/main/runtime/rpc/methods/) and the runtime's exit handler  *)
(* (src/main/runtime/orca-runtime.ts), all working on one database.        *)
(*                                                                         *)
(* Database calls are synchronous, so what can interleave is the code      *)
(* between two awaits.  A coordinator tick reads every unread message,     *)
(* re-blocks gated tasks and takes a snapshot of the ready tasks in one    *)
(* such stretch: it is one action per message here, and while it is on     *)
(* (pc "mail") nobody else moves.  Then it awaits, in turn, the list of    *)
(* terminals, perhaps a new terminal, and two calls for every dispatch.    *)
(***************************************************************************)
EXTENDS OrchestrationDb, FiniteSets

CONSTANTS
  Given,        \* tasks created before the coordinator is started
  Opened,       \* terminals that are open then
  MaxConcurrent,\* the coordinator's maxConcurrent
  KeepsWorking, \* may a worker go on after an escalation or a question?
  Manual,       \* statuses that task-update sets by hand
  Bound,        \* how often each operation in Ops happens
  Nobody        \* "no terminal"

\* Operations of the environment that are bounded in number.
Ops == {"exit", "io", "skip", "escalate", "ask", "gate", "again", "update", "rpc", "stop"}

ASSUME OrchestrationAssumption ==
  /\ IsFiniteSet(Tasks)
  /\ Given \subseteq Tasks /\ \A t \in Given : Deps[t] \subseteq Given
  /\ Opened \subseteq Terminals /\ Nobody \notin Terminals
  /\ MaxConcurrent \in Nat /\ KeepsWorking \in BOOLEAN
  /\ Manual \subseteq TaskStatus
  /\ Bound \in [Ops -> Nat]

VARIABLES
  db,        \* the database (OrchestrationDb)
  mail,      \* unread messages for the coordinator, in sequence order
  run,       \* status of the latest coordinator run's row
  coord,     \* the coordinator: where it is and the locals of its tick
  call,      \* the dispatch that the coordinator, or an RPC, is busy with
  term,      \* terminals
  work,      \* dispatches that an agent in its terminal has still to report
  used       \* how often each bounded operation has happened

vars == <<db, mail, run, coord, call, term, work, used>>

-----------------------------------------------------------------------------
(* Types *)

Message == [type : {"worker_done", "escalation", "decision_gate"}, task : Tasks]
Coordinator == [pc : {"off", "sleep", "mail", "list", "open", "dispatch"},
                ready : SUBSET Tasks, slots : 0..MaxConcurrent, terms : SUBSET Terminals,
                broke : BOOLEAN, stop : BOOLEAN]
Callers == {"coordinator", "rpc"}
Idle == [pc |-> "idle"]
Call == [pc : {"check", "send"}, task : Tasks, handle : Terminals, ctx : Nat]

TypeOK ==
  /\ db \in Database
  /\ mail \in Seq(Message)
  /\ run \in {"none", "running", "completed", "failed"}
  /\ coord \in Coordinator
  /\ call \in [Callers -> Call \cup {Idle}]
  /\ \A k \in Callers : call[k].pc = "send" => call[k].ctx \in DOMAIN db.ctx
  /\ term \in [Terminals -> {"none", "live", "gone"}]
  /\ work \subseteq DOMAIN db.ctx
  /\ used \in [Ops -> Nat]

Off  == [pc |-> "off", ready |-> {}, slots |-> 0, terms |-> {}, broke |-> FALSE, stop |-> FALSE]

Use(op) == /\ used[op] < Bound[op]
           /\ used' = [used EXCEPT ![op] = @ + 1]

\* Nobody else runs while the coordinator is in the synchronous part of a tick.
Yielded == coord.pc # "mail"

-----------------------------------------------------------------------------
(* The rest of a tick; d is the database as this stretch leaves it *)

\* checkConvergence, and the end of executeLoop when it holds.
Converged(d) == \A t \in Tasks : Exists(d, t) => d.task[t] \in Ended

Verdict(d, c) ==
  IF c.stop \/ c.broke \/ WithStatus(d, "failed") # {} \/ ~Converged(d)
  THEN "failed" ELSE "completed"

FinishTick(d, c) ==
  /\ call' = [call EXCEPT !["coordinator"] = Idle]
  /\ IF Converged(d)
     THEN coord' = Off /\ run' = Verdict(d, c)
     ELSE coord' = [Off EXCEPT !.pc = "sleep", !.broke = c.broke, !.stop = c.stop]
          /\ UNCHANGED run

\* The loop of dispatchReadyTasks up to its next await.
NextTask(d, c) ==
  IF c.slots = 0 \/ c.terms = {} \/ c.ready = {} THEN FinishTick(d, c)
  ELSE \E t \in c.ready, h \in c.terms :
         /\ coord' = [c EXCEPT !.pc = "dispatch", !.ready = @ \ {t}, !.terms = @ \ {h},
                               !.slots = @ - 1]
         /\ call' = [call EXCEPT !["coordinator"] =
                       [pc |-> "check", task |-> t, handle |-> h, ctx |-> 0]]
         /\ UNCHANGED run

\* A dispatch is over, well or badly: the coordinator goes on with its loop.
Continue(k, d, c) ==
  IF k = "coordinator" THEN NextTask(d, c)
  ELSE call' = [call EXCEPT ![k] = Idle] /\ UNCHANGED <<coord, run>>

-----------------------------------------------------------------------------
(* The coordinator *)

\* orchestration.run: the run's row, then executeLoop up to its first await;
\* without any task it fails at once.
StartRun ==
  /\ Yielded /\ run # "running"
  /\ IF \E t \in Tasks : Exists(db, t)
     THEN run' = "running" /\ coord' = [Off EXCEPT !.pc = "mail"]
     ELSE run' = "failed" /\ UNCHANGED coord
  /\ UNCHANGED <<db, mail, call, term, work, used>>

\* orchestration.runStop: only a flag, read after the next sleep.
StopRun ==
  /\ Yielded /\ run = "running" /\ ~coord.stop
  /\ Use("stop")
  /\ coord' = [coord EXCEPT !.stop = TRUE]
  /\ UNCHANGED <<db, mail, run, call, term, work>>

\* The poll interval is over.
Wake ==
  /\ coord.pc = "sleep"
  /\ IF coord.stop THEN coord' = Off /\ run' = Verdict(db, coord)
                   ELSE coord' = [coord EXCEPT !.pc = "mail"] /\ UNCHANGED run
  /\ UNCHANGED <<db, mail, call, term, work, used>>

\* handleWorkerDone: whoever sent it, the task is completed and so is its
\* latest dispatch.
HandleWorkerDone(t) ==
  LET d == UpdateTaskStatus(db, t, "completed") IN
  /\ \/ \E c \in DOMAIN db.ctx : IsLatest(db, t, c) /\ db' = CompleteDispatch(d, c)
     \/ /\ \A c \in DOMAIN db.ctx : ~IsLatest(db, t, c)
        /\ db' = d
  /\ UNCHANGED coord

\* handleEscalation: fail the task's latest dispatch, unless the task is over.
HandleEscalation(t) ==
  \/ /\ db.task[t] \in Ended \/ \A c \in DOMAIN db.ctx : ~IsLatest(db, t, c)
     /\ UNCHANGED <<db, coord>>
  \/ /\ db.task[t] \notin Ended
     /\ \E c \in DOMAIN db.ctx :
          /\ IsLatest(db, t, c)
          /\ db' = FailDispatch(db, c)
          /\ coord' = [coord EXCEPT !.broke = @ \/ db'.ctx[c].status = "circuit_broken"]

\* handleDecisionGateMessage
HandleDecisionGate(t) == db' = CreateGate(db, t) /\ UNCHANGED coord

HandleMessage ==
  /\ coord.pc = "mail" /\ mail # <<>>
  /\ \/ Head(mail).type = "worker_done"   /\ HandleWorkerDone(Head(mail).task)
     \/ Head(mail).type = "escalation"    /\ HandleEscalation(Head(mail).task)
     \/ Head(mail).type = "decision_gate" /\ HandleDecisionGate(Head(mail).task)
  /\ mail' = Tail(mail)
  /\ UNCHANGED <<run, call, term, work, used>>

\* processDecisionGates and dispatchReadyTasks up to listTerminals.
Slots_OneMore(d) == IF Cardinality(WithStatus(d, "dispatched")) <= MaxConcurrent
                    THEN MaxConcurrent + 1 - Cardinality(WithStatus(d, "dispatched")) ELSE 0

Slots(d) == IF Cardinality(WithStatus(d, "dispatched")) < MaxConcurrent
            THEN MaxConcurrent - Cardinality(WithStatus(d, "dispatched")) ELSE 0

BeginDispatch ==
  LET d == ProcessGates(db)
      ready == WithStatus(d, "ready") IN
  /\ coord.pc = "mail" /\ mail = <<>>
  /\ db' = d
  /\ IF ready = {} \/ Slots(d) = 0 THEN FinishTick(d, coord)
     ELSE /\ coord' = [coord EXCEPT !.pc = "list", !.ready = ready, !.slots = Slots(d)]
          /\ UNCHANGED <<run, call>>
  /\ UNCHANGED <<mail, term, work, used>>

\* getAvailableTerminals: the handles of dispatched tasks are left out.
Busy(d) == {d.ctx[c].handle : c \in {e \in DOMAIN d.ctx :
              d.task[d.ctx[e].task] = "dispatched" /\ IsLatest(d, d.ctx[e].task, e)}}

ListTerminals ==
  LET free == {h \in Terminals : term[h] = "live"} \ Busy(db) IN
  /\ coord.pc = "list"
  /\ \/ /\ free # {} /\ NextTask(db, [coord EXCEPT !.terms = free])
        /\ UNCHANGED used
     \/ /\ free = {} /\ coord' = [coord EXCEPT !.pc = "open"]
        /\ UNCHANGED <<run, call, used>>
     \/ /\ Use("io") /\ coord' = [coord EXCEPT !.pc = "open"]
        /\ UNCHANGED <<run, call>>
  /\ UNCHANGED <<db, mail, term, work>>

CreateTerminal ==
  /\ coord.pc = "open"
  /\ \/ \E h \in Terminals :
          /\ term[h] = "none"
          /\ term' = [term EXCEPT ![h] = "live"]
          /\ NextTask(db, [coord EXCEPT !.terms = {h}])
          /\ UNCHANGED used
     \/ /\ \/ Use("io")
           \/ (\A h \in Terminals : term[h] # "none") /\ UNCHANGED used
        /\ FinishTick(db, coord) /\ UNCHANGED term
  /\ UNCHANGED <<db, mail, work>>

-----------------------------------------------------------------------------
(* A dispatch, by the coordinator's loop or by orchestration.dispatch *)

\* failDispatch after a refused send; the coordinator remembers a broken circuit.
Refused(k, d, c) ==
  LET failed == FailDispatch(d, c)
      broke == k = "coordinator" /\ failed.ctx[c].status = "circuit_broken" IN
  /\ db' = failed
  /\ Continue(k, failed, [coord EXCEPT !.broke = @ \/ broke])

\* Back from the drift probe, or from the agent probe of the RPC: leave it, or
\* claim the task, which throws when the task or the terminal is taken by now,
\* and send the prompt, which is refused at once when the terminal is gone.
Claim(k) ==
  LET t == call[k].task
      h == call[k].handle
      new == CreateDispatch(db, t, h)
      c == Len(db.ctx) + 1 IN
  /\ Yielded /\ call[k].pc = "check"
  /\ \/ /\ Claimable(db, t, h) /\ term[h] = "live"
        /\ db' = new
        /\ call' = [call EXCEPT ![k].pc = "send", ![k].ctx = c]
        /\ UNCHANGED <<coord, run, used>>
     \/ Claimable(db, t, h) /\ term[h] = "gone" /\ Refused(k, new, c) /\ UNCHANGED used
     \/ ~Claimable(db, t, h) /\ Continue(k, db, coord) /\ UNCHANGED <<db, used>>
     \/ Use("skip") /\ Continue(k, db, coord) /\ UNCHANGED db
  /\ UNCHANGED <<mail, term, work>>

\* Back from sendTerminal, which writes the prompt, waits and presses Enter; a
\* terminal that died meanwhile swallows it without an error.
Sent(k) ==
  LET c == call[k].ctx IN
  /\ Yielded /\ call[k].pc = "send"
  /\ \/ /\ work' = IF term[call[k].handle] = "live" THEN work \cup {c} ELSE work
        /\ Continue(k, db, coord)
        /\ UNCHANGED <<db, used>>
     \/ Use("io") /\ Refused(k, db, c) /\ UNCHANGED work
  /\ UNCHANGED <<mail, term>>

\* orchestration.dispatch, with --inject (two awaits) and without (none).
RpcDispatch(t, h) ==
  /\ Yielded /\ db.task[t] = "ready" /\ term[h] # "none"
  /\ Use("rpc")
  /\ \/ /\ call["rpc"].pc = "idle"
        /\ call' = [call EXCEPT !["rpc"] = [pc |-> "check", task |-> t, handle |-> h, ctx |-> 0]]
        /\ UNCHANGED <<db, work>>
     \/ /\ Claimable(db, t, h)
        /\ db' = CreateDispatch(db, t, h)
        /\ work' = IF term[h] = "live" THEN work \cup {Len(db.ctx) + 1} ELSE work
        /\ UNCHANGED call
  /\ UNCHANGED <<mail, run, coord, term>>

-----------------------------------------------------------------------------
(* Terminals, workers and operators *)

\* failActiveDispatchOnExit: fail the terminal's dispatch at once, and tell
\* the coordinator with an escalation.
TerminalExit(h) ==
  /\ Yielded /\ term[h] = "live"
  /\ Use("exit")
  /\ term' = [term EXCEPT ![h] = "gone"]
  /\ work' = {c \in work : db.ctx[c].handle # h}
  /\ \/ /\ ActiveOn(db, h) = {} /\ UNCHANGED <<db, mail>>
     \/ \E c \in ActiveOn(db, h) :
          LET t == db.ctx[c].task IN
          /\ db' = FailDispatch(db, c)
          /\ mail' = IF run = "running" THEN Append(mail, [type |-> "escalation", task |-> t])
                     ELSE mail
  /\ UNCHANGED <<run, coord, call>>

\* An agent reports on one of its dispatches (orchestration.send).
WorkerDone(c) ==
  /\ Yielded /\ c \in work
  /\ mail' = Append(mail, [type |-> "worker_done", task |-> db.ctx[c].task])
  /\ work' = work \ {c}
  /\ UNCHANGED <<db, run, coord, call, term, used>>

WorkerStops(c) == work' = IF KeepsWorking THEN work ELSE work \ {c}

WorkerEscalates(c) ==
  /\ Yielded /\ c \in work
  /\ Use("escalate")
  /\ mail' = Append(mail, [type |-> "escalation", task |-> db.ctx[c].task])
  /\ WorkerStops(c)
  /\ UNCHANGED <<db, run, coord, call, term>>

\* orchestration.send of a decision_gate; what orchestration.ask sends names no
\* task, and the coordinator only logs it.
WorkerAsks(c) ==
  /\ Yielded /\ c \in work
  /\ Use("ask")
  /\ mail' = Append(mail, [type |-> "decision_gate", task |-> db.ctx[c].task])
  /\ WorkerStops(c)
  /\ UNCHANGED <<db, run, coord, call, term>>

\* orchestration.taskCreate
RpcTaskCreate(t) ==
  /\ Yielded /\ ~Exists(db, t) /\ \A x \in Deps[t] : Exists(db, x)
  /\ db' = CreateTask(db, t)
  /\ UNCHANGED <<mail, run, coord, call, term, work, used>>

\* orchestration.taskUpdate: any status, from any status.
RpcTaskUpdate(t, st) ==
  /\ Yielded /\ Exists(db, t) /\ st # "absent"
  /\ Use("update")
  /\ db' = UpdateTaskStatus(db, t, st)
  /\ UNCHANGED <<mail, run, coord, call, term, work>>

\* orchestration.gateCreate: on any task.
RpcGateCreate(t) ==
  /\ Yielded /\ Exists(db, t)
  /\ Use("gate")
  /\ db' = CreateGate(db, t)
  /\ UNCHANGED <<mail, run, coord, call, term, work>>

\* orchestration.gateResolve: an open gate, or one that was resolved before.
RpcGateResolve(g) ==
  /\ Yielded /\ g \in DOMAIN db.gates
  /\ IF g \in PendingGates(db) THEN UNCHANGED used ELSE Use("again")
  /\ db' = ResolveGate(db, g)
  /\ UNCHANGED <<mail, run, coord, call, term, work>>

-----------------------------------------------------------------------------
Init ==
  /\ db = [task |-> [t \in Tasks |-> IF t \notin Given THEN "absent"
                                     ELSE IF Deps[t] = {} THEN "ready" ELSE "pending"],
           ctx |-> <<>>, gates |-> <<>>]
  /\ mail = <<>>
  /\ run = "none"
  /\ coord = Off
  /\ call = [k \in Callers |-> Idle]
  /\ term = [h \in Terminals |-> IF h \in Opened THEN "live" ELSE "none"]
  /\ work = {}
  /\ used = [op \in Ops |-> 0]

CoordinatorStep ==
  \/ StartRun \/ StopRun \/ Wake \/ HandleMessage \/ BeginDispatch
  \/ ListTerminals \/ CreateTerminal
  \/ \E k \in Callers : Claim(k) \/ Sent(k)

WorkerStep == \E c \in work : WorkerDone(c) \/ WorkerEscalates(c) \/ WorkerAsks(c)

OperatorStep ==
  \/ \E t \in Tasks, h \in Terminals : RpcDispatch(t, h)
  \/ \E t \in Tasks : RpcTaskCreate(t) \/ RpcGateCreate(t)
  \/ \E t \in Tasks, st \in Manual : RpcTaskUpdate(t, st)
  \/ \E g \in DOMAIN db.gates : RpcGateResolve(g)

Next ==
  \/ CoordinatorStep \/ WorkerStep \/ OperatorStep
  \/ \E h \in Terminals : TerminalExit(h)

Spec == Init /\ [][Next]_vars

\* The event loop runs what is ready, timers fire and awaited calls return; an
\* agent reports on a task, and a person answers its gate, some day between two
\* ticks (strong fairness: nobody moves during the synchronous part of a tick).
Fairness ==
  /\ WF_vars(Wake) /\ WF_vars(HandleMessage) /\ WF_vars(BeginDispatch)
  /\ WF_vars(ListTerminals) /\ WF_vars(CreateTerminal)
  /\ \A k \in Callers : WF_vars(Claim(k)) /\ WF_vars(Sent(k))
  /\ \A t \in Tasks :
       /\ SF_vars(\E c \in work : db.ctx[c].task = t /\ WorkerDone(c))
       /\ SF_vars(\E g \in PendingGates(db) : db.gates[g].task = t /\ RpcGateResolve(g))

FairSpec == Spec /\ Fairness

-----------------------------------------------------------------------------
(* Properties.  Which runs check which, and under what environment, is in   *)
(* README.md.                                                               *)

\* The dispatch lock: a terminal has at most one active dispatch, whatever was
\* claimed while the coordinator or an RPC was awaiting something
\* (coordinator.ts:587-591).
TerminalLock ==
  \A c, e \in DOMAIN db.ctx :
    IsActive(db, c) /\ IsActive(db, e) /\ db.ctx[c].handle = db.ctx[e].handle => c = e

\* A task that counts as dispatched, and takes one of the coordinator's slots,
\* is one that some terminal still has an active dispatch of.
DispatchedHasDispatch ==
  \A t \in Tasks : db.task[t] = "dispatched" =>
    \E c \in DOMAIN db.ctx : IsActive(db, c) /\ db.ctx[c].task = t

\* However old the coordinator's list of ready tasks, or the RPC's look at the
\* task, a dispatch is created only for a task that is ready at that moment.
ClaimIsFresh ==
  [][Len(db'.ctx) > Len(db.ctx) => db.task[db'.ctx[Len(db'.ctx)].task] = "ready"]_vars

\* 'ready' means that the dependencies are met (skills/orchestration/SKILL.md):
\* neither a ready nor a dispatched task has one that is not completed.
ReadyMeansDepsDone ==
  \A t \in Tasks : db.task[t] \in {"ready", "dispatched"} => DepsCompleted(db, t)

\* A decision gate is a checkpoint: nobody works on a task with an open gate.
GateHolds ==
  \A g \in PendingGates(db), c \in DOMAIN db.ctx :
    db.ctx[c].task = db.gates[g].task => ~IsActive(db, c)

\* The coordinator keeps to maxConcurrent, also when terminals die or sends
\* fail between its count and its dispatches.
WithinMaxConcurrent == Cardinality(WithStatus(db, "dispatched")) <= MaxConcurrent

\* The circuit of a task breaks after three failures, not before: by then at
\* least three terminals died, sends were refused or workers escalated.
ThreeStrikes ==
  (\E c \in DOMAIN db.ctx : db.ctx[c].status = "circuit_broken") =>
    used["exit"] + used["io"] + used["escalate"] >= FailureLimit

\* Under a running coordinator every task that can be worked on ends: it is
\* retried, or its circuit breaks, and no failure strands it.
TasksSettle ==
  \A t \in Tasks :
    (run = "running" /\ db.task[t] \in {"ready", "dispatched", "blocked"})
      ~> (db.task[t] \in Ended \/ run # "running")

-----------------------------------------------------------------------------
(* What it implements: TaskGraph, through this view of the database. *)

StateOf == [pending |-> "todo", ready |-> "todo", absent |-> "todo", dispatched |-> "claimed",
            blocked |-> "blocked", completed |-> "done", failed |-> "failed"]
GraphState == [t \in Tasks |-> StateOf[db.task[t]]]
Holders(d, t) == {d.ctx[c].handle : c \in {e \in DOMAIN d.ctx :
                    IsActive(d, e) /\ d.ctx[e].task = t}}
Holder(d, t) == IF Holders(d, t) = {} THEN Nobody ELSE CHOOSE h \in Holders(d, t) : TRUE
GraphHolder == [t \in Tasks |-> Holder(db, t)]

Graph == INSTANCE TaskGraph WITH state <- GraphState, holder <- GraphHolder

\* Seen from outside, a task is worked on by one terminal at a time, a terminal
\* works on one task, nothing starts before its dependencies are done, and a
\* completed task is never touched again.
ImplementsTaskGraph == Graph!Spec
=============================================================================
