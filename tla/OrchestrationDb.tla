--------------------------- MODULE OrchestrationDb ---------------------------
(***************************************************************************)
(* The tables of the orchestration database and the operations on them     *)
(* (src/main/runtime/orchestration/db.ts).  Every call is synchronous, so  *)
(* an operation is a function from a database d to the next one; the       *)
(* callers, and the awaits between their calls, are in Orchestration.      *)
(*                                                                         *)
(* A database is a record:                                                 *)
(*   task   the status of each task                                        *)
(*   ctx    dispatch_contexts in insertion (rowid) order                   *)
(*   gates  decision_gates in insertion order                              *)
(* Unread messages and the coordinator run's row are kept by Orchestration.*)
(***************************************************************************)
EXTENDS Naturals, Sequences

CONSTANTS
  Tasks,     \* tasks that can be created
  Terminals, \* terminal handles
  Deps       \* the tasks each task depends on

ASSUME DepsAssumption == Deps \in [Tasks -> SUBSET Tasks]

FailureLimit == 3

TaskStatus == {"absent", "pending", "ready", "dispatched", "blocked", "completed", "failed"}
Ended      == {"completed", "failed"}

\* failure_count only matters up to the limit, so it stops there.
Failures == 0..FailureLimit
CtxStatus == {"dispatched", "completed", "failed", "circuit_broken"}
Ctx  == [task : Tasks, handle : Terminals, status : CtxStatus, fails : Failures]
Gate == [task : Tasks, status : {"pending", "resolved"}]
Database == [task : [Tasks -> TaskStatus], ctx : Seq(Ctx), gates : Seq(Gate)]

-----------------------------------------------------------------------------
(* Queries *)

\* Definitions named X_Y are wrong versions of X, one for each property, that
\* the property has to tell from the code; nothing else uses them.

Exists(d, t)  == d.task[t] # "absent"
WithStatus(d, st) == {t \in Tasks : d.task[t] = st}

\* status IN ('pending', 'dispatched'): no code inserts a 'pending' context.
IsActive(d, c) == c \in DOMAIN d.ctx /\ d.ctx[c].status = "dispatched"

\* getActiveDispatchForTerminal
ActiveOn(d, h) == {c \in DOMAIN d.ctx : IsActive(d, c) /\ d.ctx[c].handle = h}

\* getDispatchContext: c is the latest dispatch of t.
IsLatest(d, t, c) ==
  /\ c \in DOMAIN d.ctx /\ d.ctx[c].task = t
  /\ \A e \in DOMAIN d.ctx : e > c => d.ctx[e].task # t

PendingGates(d) == {g \in DOMAIN d.gates : d.gates[g].status = "pending"}
Gated(d, t)     == \E g \in PendingGates(d) : d.gates[g].task = t

DepsCompleted(d, t) == \A x \in Deps[t] : d.task[x] = "completed"

-----------------------------------------------------------------------------
(* Tasks *)

\* createTask: 'ready' only when it has no dependencies at all.
CreateTask(d, t) ==
  [d EXCEPT !.task[t] = IF Deps[t] = {} THEN "ready" ELSE "pending"]

\* completeActiveDispatchForTask: its latest active dispatch.
CompleteActive(d, t) ==
  LET latest(c) == /\ IsActive(d, c) /\ d.ctx[c].task = t
                   /\ \A e \in DOMAIN d.ctx : e > c /\ d.ctx[e].task = t => ~IsActive(d, e)
  IN [d EXCEPT !.ctx = [c \in DOMAIN @ |->
        IF latest(c) THEN [@[c] EXCEPT !.status = "completed"] ELSE @[c]]]

\* promoteReadyTasks, after t has become 'completed'.
Promote_AnyDep(d, t) ==
  [d EXCEPT !.task = [x \in Tasks |->
     IF @[x] = "pending" /\ t \in Deps[x] THEN "ready" ELSE @[x]]]

Promote(d, t) ==
  [d EXCEPT !.task = [x \in Tasks |->
     IF @[x] = "pending" /\ t \in Deps[x] /\ DepsCompleted(d, x) THEN "ready" ELSE @[x]]]

\* updateTaskStatus: only 'completed' reaches further than the row.
UpdateTaskStatus(d, t, st) ==
  LET new == [d EXCEPT !.task[t] = st] IN
  IF st = "completed" THEN CompleteActive(Promote(new, t), t) ELSE new

-----------------------------------------------------------------------------
(* Dispatches *)

\* The two checks of createDispatchContext.
Claimable_AnyTerminal(d, t, h) == d.task[t] = "ready"
Claimable_AnyTask(d, t, h) == ActiveOn(d, h) = {}

Claimable(d, t, h) == d.task[t] = "ready" /\ ActiveOn(d, h) = {}

\* MAX(failure_count) over the task's dispatches.
Carried(d, t) ==
  CHOOSE n \in Failures :
    /\ n = 0 \/ \E c \in DOMAIN d.ctx : d.ctx[c].task = t /\ d.ctx[c].fails = n
    /\ \A c \in DOMAIN d.ctx : d.ctx[c].task = t => d.ctx[c].fails <= n

CreateDispatch(d, t, h) ==
  [d EXCEPT !.task[t] = "dispatched",
            !.ctx = Append(@, [task |-> t, handle |-> h, status |-> "dispatched",
                               fails |-> Carried(d, t)])]

\* completeDispatch: whatever the dispatch's status is.
CompleteDispatch(d, c) == [d EXCEPT !.ctx[c].status = "completed"]

\* failDispatch: whatever the status of the dispatch, and of its task, is.
FailDispatch_Pending(d, c) ==
  LET n == IF d.ctx[c].fails < FailureLimit THEN d.ctx[c].fails + 1 ELSE FailureLimit IN
  [d EXCEPT !.ctx[c].fails = n,
            !.ctx[c].status = IF n = FailureLimit THEN "circuit_broken" ELSE "failed",
            !.task[d.ctx[c].task] = IF n = FailureLimit THEN "failed" ELSE "pending"]

FailDispatch_KeepsTask(d, c) ==
  LET n == IF d.ctx[c].fails < FailureLimit THEN d.ctx[c].fails + 1 ELSE FailureLimit IN
  [d EXCEPT !.ctx[c].fails = n,
            !.ctx[c].status = IF n = FailureLimit THEN "circuit_broken" ELSE "failed"]

FailDispatch(d, c) ==
  LET n == IF d.ctx[c].fails < FailureLimit THEN d.ctx[c].fails + 1 ELSE FailureLimit IN
  [d EXCEPT !.ctx[c].fails = n,
            !.ctx[c].status = IF n = FailureLimit THEN "circuit_broken" ELSE "failed",
            !.task[d.ctx[c].task] = IF n = FailureLimit THEN "failed" ELSE "ready"]

-----------------------------------------------------------------------------
(* Decision gates *)

\* createGate: whatever the task's status is.
CreateGate_KeepsDispatch(d, t) ==
  [d EXCEPT !.task[t] = "blocked", !.gates = Append(@, [task |-> t, status |-> "pending"])]

CreateGate(d, t) ==
  [CompleteActive(d, t) EXCEPT
     !.task[t] = "blocked", !.gates = Append(@, [task |-> t, status |-> "pending"])]

\* resolveGate: the task is 'ready', whatever it was.
ResolveGate(d, g) ==
  [d EXCEPT !.gates[g].status = "resolved", !.task[d.gates[g].task] = "ready"]

\* processDecisionGates of the coordinator: tasks with a pending gate block.
ProcessGates_None(d) == d

ProcessGates(d) ==
  [d EXCEPT !.task = [t \in Tasks |-> IF Gated(d, t) THEN "blocked" ELSE @[t]]]
=============================================================================
