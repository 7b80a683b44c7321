--------------------------- MODULE AutomationRuns ---------------------------
(***************************************************************************)
(* Chain automation runs: the chain executor                               *)
(* (src/main/automations/chain-executor.ts) driven by the automation       *)
(* service (src/main/automations/service.ts) over the run rows of the      *)
(* store (src/main/persistence.ts).                                        *)
(*                                                                         *)
(* The process is single threaded.  A handler runs without interruption    *)
(* until it awaits a runner, so every action below is the code between two *)
(* awaits.  The store hands out LIVE references: an operator's call that   *)
(* arrives while a tick awaits a runner changes the very objects the tick  *)
(* goes on to write.                                                       *)
(*                                                                         *)
(* A run keeps one state object per flattened step.  The executor creates  *)
(* them in order ("none" is: not created yet).  'skipped' is treated by    *)
(* the code as 'succeeded' and 'timed-out' as 'failed'; the model keeps    *)
(* one name of each pair.                                                  *)
(***************************************************************************)
EXTENDS Naturals, FiniteSets

CONSTANTS
  Runs,      \* run rows that can be created, one for each dispatch
  Autos,     \* automations
  AutoOf,    \* the automation each run belongs to
  N,         \* number of flattened steps of the chain
  PosOf,     \* the position of each step in the chain
  Group,     \* the positions that are parallel groups
  Halt,      \* steps with onFailure = 'halt'
  EndChain,  \* steps whose runner may answer endChain (watch-pr)
  Throwing,  \* steps whose runner may throw
  Pausable,  \* runs that have a pause button (detached watchers)
  Bound,     \* how often each operation in Ops happens
  Loop,      \* the tick slot of tickRunningChains
  NoRun      \* "this slot drives no run"

Steps     == 1..N
Positions == {PosOf[s] : s \in Steps}
StepsAt(p) == {s \in Steps : PosOf[s] = p}

\* Operations of the environment that are bounded in number.
Ops == {"cancel", "retry", "pause", "delete", "throw", "crash", "tie"}

ASSUME ChainAssumption ==
  /\ N \in Nat \ {0}
  /\ PosOf \in [Steps -> Nat]
  /\ \A s, x \in Steps : s <= x => PosOf[s] <= PosOf[x]
  /\ Group \subseteq Positions
  /\ \A s, x \in Steps : PosOf[s] = PosOf[x] /\ PosOf[s] \notin Group => s = x
  /\ Halt \subseteq Steps /\ EndChain \subseteq Steps /\ Throwing \subseteq Steps

ASSUME RunAssumption ==
  /\ AutoOf \in [Runs -> Autos]
  /\ Pausable \subseteq Runs
  /\ Bound \in [Ops -> Nat]
  /\ Loop \notin Runs
  /\ NoRun \notin Runs

VARIABLES
  row,       \* the live run objects the store and every tick share
  disk,      \* the run rows as the last flush wrote them
  automations, \* automations that exist
  inFlight,  \* inFlightRunIds
  tick,      \* what each tick awaits; a slot per dispatchRun, and the loop's
  late,      \* runner calls left behind by a group tick that was rejected
  pass,      \* tickRunningChains: is a pass on, and the runs it has to visit
  asked,     \* history: steps whose last recorded result asked endChain
  used       \* how often each bounded operation has happened

vars == <<row, disk, automations, inFlight, tick, late, pass, asked, used>>

-----------------------------------------------------------------------------
(* Types *)

Ticks == Runs \cup {Loop}

Active  == {"running", "waiting"}                \* isActiveChainRunStatus
Settled == {"completed", "failed", "cancelled"}
Present == Active \cup Settled
RunStatus == Present \cup {"absent", "aliased", "deleted"}

Live == {"running", "waiting"}
Done == {"succeeded", "failed"}                  \* isTerminal
StepStatus == Live \cup Done \cup {"none"}

Row  == [status : RunStatus, paused : BOOLEAN, st : [Steps -> StepStatus]]

\* own[s] is "live" while the state object the tick holds for s is still the
\* one in the run, else the status of the detached object the tick holds.
Tick == [run  : Runs \cup {NoRun}, pos : Nat, wait : SUBSET Steps,
         own  : [Steps -> Live \cup Done \cup {"live", "none"}],
         ended : BOOLEAN, adv : BOOLEAN]

LateCall == [run : Runs, step : Steps, attached : BOOLEAN]

TypeOK ==
  /\ row  \in [Runs -> Row]
  /\ disk \in [Runs -> Row]
  /\ automations \subseteq Autos
  /\ inFlight \subseteq Runs
  /\ tick \in [Ticks -> Tick]
  /\ late \subseteq LateCall
  /\ pass \in [on : BOOLEAN, todo : SUBSET Runs]
  /\ asked \subseteq Runs \X Steps
  /\ used \in [Ops -> Nat]

Attached == [s \in Steps |-> "live"]
Idle == [run |-> NoRun, pos |-> 0, wait |-> {}, own |-> Attached,
         ended |-> FALSE, adv |-> FALSE]

NoSteps == [s \in Steps |-> "none"]
Absent  == [status |-> "absent", paused |-> FALSE, st |-> NoSteps]

Use(op) == /\ used[op] < Bound[op]
           /\ used' = [used EXCEPT ![op] = @ + 1]

-----------------------------------------------------------------------------
(* Pure parts of the executor *)

\* Definitions named X_Y are wrong versions of X, one for each property, that
\* the property has to tell from the code; nothing else uses them.

\* The walk over the positions stops at p: everything before it is terminal.
Current_SkipsUnfinished(st, p) ==
  /\ p \in Positions
  /\ \E s \in StepsAt(p) : st[s] = "none"
  /\ \A s \in Steps : PosOf[s] < p => st[s] # "none"

Current(st, p) ==
  /\ p \in Positions
  /\ \E s \in StepsAt(p) : st[s] \notin Done
  /\ \A s \in Steps : PosOf[s] < p => st[s] \in Done

\* Every step of the chain has a state and it is terminal.
AllDone(st) == \A s \in Steps : st[s] \in Done

\* The states of a position are created as 'running'.
Materialise_Pending(st, p) ==
  [s \in Steps |-> IF PosOf[s] = p /\ st[s] = "none" THEN "pending" ELSE st[s]]

Materialise_RerunsFailed(st, p) ==
  [s \in Steps |-> IF PosOf[s] = p /\ st[s] \in {"none", "failed"} THEN "running" ELSE st[s]]

Materialise(st, p) ==
  [s \in Steps |-> IF PosOf[s] = p /\ st[s] = "none" THEN "running" ELSE st[s]]

\* finalizeRun: only failures of halt steps make the run 'failed'.
FinalizeRun_CountsUnstarted(rw) ==
  [rw EXCEPT !.status =
     IF \E s \in Halt : rw.st[s] # "succeeded" THEN "failed" ELSE "completed"]

FinalizeRun(rw) ==
  [rw EXCEPT !.status =
     IF \E s \in Halt : rw.st[s] \notin {"none", "succeeded"}
     THEN "failed" ELSE "completed"]

\* Step-level 'waiting' shows on the run, whatever the run's status was.
Propagate(rw) ==
  [rw EXCEPT !.status =
     IF \E s \in Steps : rw.st[s] = "waiting" THEN "waiting"
     ELSE IF @ = "waiting" THEN "running" ELSE @]

\* Trailing non-terminal steps are failed when a run is stopped from outside.
StopSteps(rw, status) ==
  [rw EXCEPT !.status = status,
             !.st = [s \in Steps |-> IF @[s] \in Live THEN "failed" ELSE @[s]]]

\* What a runner's tick may answer; "ended" is outcome 'done' with endChain.
Results(s) == Live \cup Done \cup (IF s \in EndChain THEN {"ended"} ELSE {})
StatusOf(res) == IF res = "ended" THEN "succeeded" ELSE res
Advances(res) == res \notin Live

\* After the result of a solo step: was it the last one, or asked to be?
EndsRun_NoEndChain(res, st) == AllDone(st)

EndsRun(res, st) == res = "ended" \/ AllDone(st)

-----------------------------------------------------------------------------
(* Pieces of a tick.  rows, dsk and ticks are the memory, the disk and the   *)
(* ticks as the code before this point, in the same uninterrupted stretch,   *)
(* has left them.                                                            *)

\* persistRun (replaceAutomationRun flushes every row) and return from tick.
PersistAndReturn(t, r, rw) ==
  /\ row' = [row EXCEPT ![r] = rw]
  /\ disk' = row'
  /\ tick' = [tick EXCEPT ![t] = Idle]
  /\ inFlight' = inFlight \ {r}

\* Only a group persists the states it has created before it awaits.
DiskAtCall_NoGroupPersist(p, new, rows, dsk) == dsk

DiskAtCall(p, new, rows, dsk) == IF p \in Group /\ new # rows THEN new ELSE dsk

\* tickOnce: find the position, create its states, call its runners.
TickOnce(t, r, rows, dsk, ticks) ==
  LET st == rows[r].st IN
  \/ /\ AllDone(st)
     /\ PersistAndReturn(t, r, FinalizeRun(rows[r]))
  \/ \E p \in Positions :
       LET new == [rows EXCEPT ![r].st = Materialise(st, p)] IN
       /\ Current(st, p)
       /\ row' = new
       /\ disk' = DiskAtCall(p, new, rows, dsk)
       /\ tick' = [ticks EXCEPT ![t] =
                    [Idle EXCEPT !.run = r, !.pos = p,
                       !.wait = {s \in StepsAt(p) : st[s] \notin Done}]]
       /\ inFlight' = inFlight \cup {r}

\* persistRun and on to the next position, in the same stretch.
PersistAndGoOn_NoPersist(t, r, rw) ==
  TickOnce(t, r, [row EXCEPT ![r] = rw], disk, tick)

PersistAndGoOn(t, r, rw) ==
  LET rows == [row EXCEPT ![r] = rw] IN TickOnce(t, r, rows, rows, tick)

\* The result of s lands on the state object the tick holds.
Land(t, s, res) ==
  LET r == tick[t].run IN
  [row[r] EXCEPT !.st[s] = IF tick[t].own[s] = "live" THEN StatusOf(res) ELSE @]

NoteAsked(t, s, res) ==
  LET r == tick[t].run IN
  asked' = IF tick[t].own[s] # "live" \/ ~Advances(res) THEN asked
           ELSE IF res = "ended" THEN asked \cup {<<r, s>>}
           ELSE asked \ {<<r, s>>}

Awaits(t, s) == tick[t].run # NoRun /\ s \in tick[t].wait
RowExists(r) == row[r].status \in Present

-----------------------------------------------------------------------------
(* The executor: a runner call of a tick settles *)

\* tickSoloStep after its await.
SettleSolo(t, s, res) ==
  LET r  == tick[t].run
      rw == Land(t, s, res)
      halts == res = "failed" /\ s \in Halt
      ends  == EndsRun(res, rw.st) IN
  /\ Awaits(t, s) /\ tick[t].pos \notin Group /\ RowExists(r)
  /\ res \in Results(s)
  /\ \/ halts /\ PersistAndReturn(t, r, [rw EXCEPT !.status = "failed"])
     \/ ~halts /\ ends /\ PersistAndReturn(t, r, FinalizeRun(rw))
     \/ /\ ~halts /\ ~ends
        /\ IF Advances(res) THEN PersistAndGoOn(t, r, Propagate(rw))
                            ELSE PersistAndReturn(t, r, Propagate(rw))
  /\ NoteAsked(t, s, res)
  /\ UNCHANGED <<automations, late, pass, used>>

\* The part of tickParallelGroup after Promise.all: tk is the tick with its
\* last result in it, rw the run.
AfterGroup(t, r, tk, rw) ==
  LET held(s) == IF tk.own[s] = "live" THEN rw.st[s] ELSE tk.own[s]
      open  == \E s \in StepsAt(tk.pos) : held(s) \notin Done
      halts == \E s \in StepsAt(tk.pos) \cap Halt : held(s) = "failed" IN
  \/ open /\ PersistAndReturn(t, r, Propagate(rw))
  \/ ~open /\ halts /\ PersistAndReturn(t, r, [rw EXCEPT !.status = "failed"])
  \/ /\ ~open /\ ~halts /\ (tk.ended \/ AllDone(rw.st))
     /\ PersistAndReturn(t, r, FinalizeRun(rw))
  \/ /\ ~open /\ ~halts /\ ~tk.ended /\ ~AllDone(rw.st)
     /\ IF tk.adv THEN PersistAndGoOn(t, r, rw) ELSE PersistAndReturn(t, r, rw)

\* A sibling of a parallel group settles; the last one runs the tail.
SettleSibling(t, s, res) ==
  LET r  == tick[t].run
      rw == Land(t, s, res)
      tk == [tick[t] EXCEPT !.wait = @ \ {s},
               !.own[s] = IF @ = "live" THEN "live" ELSE StatusOf(res),
               !.ended = @ \/ res = "ended",
               !.adv = @ \/ Advances(res)] IN
  /\ Awaits(t, s) /\ tick[t].pos \in Group /\ RowExists(r)
  /\ res \in Results(s)
  /\ \/ /\ tk.wait # {}
        /\ row' = [row EXCEPT ![r] = rw]
        /\ tick' = [tick EXCEPT ![t] = tk]
        /\ UNCHANGED <<disk, inFlight>>
     \/ tk.wait = {} /\ AfterGroup(t, r, tk, rw)
  /\ NoteAsked(t, s, res)
  /\ UNCHANGED <<automations, late, pass, used>>

\* A runner throws: the tick is rejected and finalizeFailedRun persists.  The
\* other siblings of a group stay behind: nobody awaits them any more.
RunnerThrows(t, s) ==
  LET r == tick[t].run IN
  /\ Awaits(t, s) /\ s \in Throwing /\ RowExists(r)
  /\ Use("throw")
  /\ PersistAndReturn(t, r, StopSteps(row[r], "failed"))
  /\ late' = late \cup {[run |-> r, step |-> x, attached |-> tick[t].own[x] = "live"] :
                         x \in tick[t].wait \ {s}}
  /\ UNCHANGED <<automations, pass, asked>>

\* A call left behind settles: its closure still writes the state object, and
\* nothing persists it.
LateSettle(c, res) ==
  /\ c \in late /\ res \in Results(c.step)
  /\ late' = late \ {c}
  /\ row' = IF c.attached THEN [row EXCEPT ![c.run].st[c.step] = StatusOf(res)] ELSE row
  /\ UNCHANGED <<disk, automations, inFlight, tick, pass, asked, used>>

\* The run's row is gone: persistRun throws, then finalizeFailedRun throws,
\* and from the loop's tick the error leaves tickRunningChains.
SettleDeleted_NoFinally(t, s) ==
  /\ Awaits(t, s) /\ ~RowExists(tick[t].run)
  /\ IF tick[t].wait = {s}
     THEN /\ tick' = [tick EXCEPT ![t] = Idle]
          /\ pass' = IF t = Loop THEN [on |-> FALSE, todo |-> {}] ELSE pass
     ELSE tick' = [tick EXCEPT ![t].wait = @ \ {s}] /\ UNCHANGED pass
  /\ UNCHANGED <<row, disk, automations, inFlight, late, asked, used>>

SettleDeleted(t, s) ==
  LET r == tick[t].run IN
  /\ Awaits(t, s) /\ ~RowExists(r)
  /\ IF tick[t].wait = {s}
     THEN /\ tick' = [tick EXCEPT ![t] = Idle]
          /\ inFlight' = inFlight \ {r}
          /\ pass' = IF t = Loop THEN [on |-> FALSE, todo |-> {}] ELSE pass
     ELSE /\ tick' = [tick EXCEPT ![t].wait = @ \ {s}]
          /\ UNCHANGED <<inFlight, pass>>
  /\ UNCHANGED <<row, disk, automations, late, asked, used>>

-----------------------------------------------------------------------------
(* The service *)

\* dispatchRun: create the row, persist it, fire the first tick and forget it.
DispatchRun(r) ==
  LET rows == [row EXCEPT ![r].status = "running"] IN
  /\ row[r].status = "absent" /\ AutoOf[r] \in automations
  /\ TickOnce(r, r, rows, rows, tick)
  /\ UNCHANGED <<automations, late, pass, asked, used>>

\* A dispatch d in the same millisecond as the dispatch of r: the store's
\* (automation, scheduledFor) lookup hands r's row out again, dispatchRun
\* resets it and fires a second tick on it.
DispatchInTheSameMs(d, r) ==
  LET rows == [row EXCEPT ![d].status = "aliased", ![r].status = "running",
                          ![r].st = NoSteps]
      rest == [tick EXCEPT ![r].own =
                 [s \in Steps |-> IF s \in tick[r].wait THEN row[r].st[s] ELSE @[s]]] IN
  /\ d # r /\ AutoOf[d] = AutoOf[r] /\ AutoOf[r] \in automations
  /\ row[d].status = "absent" /\ tick[r].run = r
  /\ \E p \in Positions : Current(NoSteps, p) /\ row[r].st = Materialise(NoSteps, p)
  /\ TickOnce(d, r, rows, rows, rest)
  /\ Use("tie")
  /\ UNCHANGED <<automations, late, pass, asked>>

\* evaluateDueRuns: the guard, and the snapshot tickRunningChains walks.
StartPass ==
  /\ ~pass.on
  /\ pass' = [on |-> TRUE, todo |-> {r \in Runs : RowExists(r)}]
  /\ UNCHANGED <<row, disk, automations, inFlight, tick, late, asked, used>>

\* The loop's guards on a run.
Eligible_NoInFlightCheck(r) ==
  row[r].status \in Active /\ ~row[r].paused /\ AutoOf[r] \in automations

Eligible_NotCompleted(r) ==
  /\ row[r].status \in {"running", "waiting", "failed"}
  /\ r \notin inFlight /\ ~row[r].paused /\ AutoOf[r] \in automations

Eligible_RunningOnly(r) ==
  /\ row[r].status = "running"
  /\ r \notin inFlight /\ ~row[r].paused /\ AutoOf[r] \in automations

Eligible(r) ==
  /\ row[r].status \in Active
  /\ r \notin inFlight
  /\ ~row[r].paused
  /\ AutoOf[r] \in automations

\* The loop visits a run and awaits its tick.
VisitRun(r) ==
  /\ pass.on /\ tick[Loop].run = NoRun /\ r \in pass.todo
  /\ Eligible(r)
  /\ TickOnce(Loop, r, row, disk, tick)
  /\ pass' = [pass EXCEPT !.todo = @ \ {r}]
  /\ UNCHANGED <<automations, late, asked, used>>

SkipRun(r) ==
  /\ pass.on /\ tick[Loop].run = NoRun /\ r \in pass.todo
  /\ ~Eligible(r)
  /\ pass' = [pass EXCEPT !.todo = @ \ {r}]
  /\ UNCHANGED <<row, disk, automations, inFlight, tick, late, asked, used>>

EndPass ==
  /\ pass.on /\ tick[Loop].run = NoRun /\ pass.todo = {}
  /\ pass' = [pass EXCEPT !.on = FALSE]
  /\ UNCHANGED <<row, disk, automations, inFlight, tick, late, asked, used>>

CancelRun(r) ==
  /\ row[r].status \in Active
  /\ Use("cancel")
  /\ row' = [row EXCEPT ![r] = StopSteps(@, "cancelled")]
  /\ disk' = row'
  /\ UNCHANGED <<automations, inFlight, tick, late, pass, asked>>

PauseRun(r) ==
  /\ r \in Pausable /\ row[r].status \in Active /\ ~row[r].paused
  /\ Use("pause")
  /\ row' = [row EXCEPT ![r].paused = TRUE]
  /\ disk' = row'
  /\ UNCHANGED <<automations, inFlight, tick, late, pass, asked>>

ResumeRun(r) ==
  /\ RowExists(r) /\ row[r].paused
  /\ row' = [row EXCEPT ![r].paused = FALSE]
  /\ disk' = row'
  /\ UNCHANGED <<automations, inFlight, tick, late, pass, asked, used>>

\* Both retries: the states of `gone` leave the run (a tick or a late call
\* that holds one keeps a detached object), those of `again` start over in
\* place, and the run is 'running'.  `paused` keeps its value.
Rewind(r, gone, again) ==
  /\ row' = [row EXCEPT ![r].status = "running",
               ![r].st = [s \in Steps |-> IF s \in gone THEN "none"
                                          ELSE IF s \in again THEN "running" ELSE @[s]]]
  /\ disk' = row'
  /\ tick' = [t \in Ticks |->
               IF tick[t].run = r
               THEN [tick[t] EXCEPT !.own =
                      [s \in Steps |-> IF s \in gone /\ PosOf[s] = tick[t].pos /\ @[s] = "live"
                                       THEN row[r].st[s] ELSE @[s]]]
               ELSE tick[t]]
  /\ late' = {IF c.run = r /\ c.step \in gone THEN [c EXCEPT !.attached = FALSE] ELSE c :
               c \in late}
  /\ asked' = {q \in asked : q[1] # r \/ q[2] \notin gone \cup again}
  /\ Use("retry")
  /\ UNCHANGED <<automations, inFlight, pass>>

\* The UI offers a retry on steps that are neither 'running' nor 'pending'.
CanRetry(r, s) == row[r].st[s] \in Done \cup {"waiting"}

\* retryRunFromStep: a solo step, or a whole group from its first sibling.
RetryRunFromStep(r, p) ==
  /\ RowExists(r)
  /\ \E s \in StepsAt(p) : CanRetry(r, s)
  /\ Rewind(r, {s \in Steps : PosOf[s] >= p}, {})

\* "Continue": retryRunFromStep at the first step that has no state.
ContinueRun(r) ==
  /\ row[r].status \in {"failed", "cancelled"}
  /\ \E s \in Steps : row[r].st[s] = "succeeded"
  /\ \E s \in Steps : row[r].st[s] = "none"
  /\ \A s \in Steps : row[r].st[s] \in {"succeeded", "none"}
  /\ Rewind(r, {}, {})

\* retryParallelStep of a group member: reset in place, drop what follows.
RetryParallelStep(r, s) ==
  /\ RowExists(r) /\ PosOf[s] \in Group /\ CanRetry(r, s)
  /\ Rewind(r, {x \in Steps : PosOf[x] > PosOf[s]}, {s})

\* deleteAutomation: cancel what is active, then drop the rows.
DeleteAutomation(a) ==
  LET mine == {r \in Runs : AutoOf[r] = a /\ RowExists(r)} IN
  /\ a \in automations
  /\ Use("delete")
  /\ row' = [r \in Runs |-> IF r \in mine THEN [Absent EXCEPT !.status = "deleted"]
                            ELSE row[r]]
  /\ disk' = row'
  /\ automations' = automations \ {a}
  /\ late' = {c \in late : c.run \notin mine}
  /\ asked' = {q \in asked : q[1] \notin mine}
  /\ UNCHANGED <<inFlight, tick, pass>>

\* The app dies and starts again from its last flush.
Restart ==
  /\ Use("crash")
  /\ row' = disk
  /\ tick' = [t \in Ticks |-> Idle]
  /\ inFlight' = {} /\ late' = {}
  /\ pass' = [on |-> FALSE, todo |-> {}]
  /\ asked' = {q \in asked : disk[q[1]].st[q[2]] = "succeeded"}
  /\ UNCHANGED <<disk, automations>>

-----------------------------------------------------------------------------
Init ==
  /\ row  = [r \in Runs |-> Absent]
  /\ disk = [r \in Runs |-> Absent]
  /\ automations = Autos
  /\ inFlight = {}
  /\ tick = [t \in Ticks |-> Idle]
  /\ late = {}
  /\ pass = [on |-> FALSE, todo |-> {}]
  /\ asked = {}
  /\ used = [op \in Ops |-> 0]

Settle(t, s) ==
  \/ \E res \in Results(s) : SettleSolo(t, s, res) \/ SettleSibling(t, s, res)
  \/ RunnerThrows(t, s)
  \/ SettleDeleted(t, s)

Executor ==
  \/ \E t \in Ticks, s \in Steps : Settle(t, s)
  \/ \E c \in late : \E res \in Results(c.step) : LateSettle(c, res)

Service ==
  \/ StartPass \/ EndPass
  \/ \E r \in Runs : DispatchRun(r) \/ VisitRun(r) \/ SkipRun(r)
  \/ \E d, r \in Runs : DispatchInTheSameMs(d, r)

Operator ==
  \/ \E r \in Runs : CancelRun(r) \/ PauseRun(r) \/ ResumeRun(r) \/ ContinueRun(r)
  \/ \E r \in Runs, p \in Positions : RetryRunFromStep(r, p)
  \/ \E r \in Runs, s \in Steps : RetryParallelStep(r, s)
  \/ \E a \in Autos : DeleteAutomation(a)

Next == Executor \/ Service \/ Operator \/ Restart

Spec == Init /\ [][Next]_vars

\* A runner call of the run's tick settles for good: 'done' or 'failed'.
SettleForGood(r, s) ==
  \E t \in Ticks : /\ tick[t].run = r
                   /\ \E res \in Results(s) :
                        Advances(res) /\ (SettleSolo(t, s, res) \/ SettleSibling(t, s, res))

\* The interval timer and the fast tick keep starting passes, the event loop
\* runs what is ready, every runner call settles (runners bound their I/O),
\* and a runner that is polled again and again ends some day (its timeout).
Fairness ==
  /\ WF_vars(StartPass) /\ WF_vars(EndPass)
  /\ \A r \in Runs : WF_vars(VisitRun(r)) /\ WF_vars(SkipRun(r))
  /\ \A t \in Ticks, s \in Steps : WF_vars(Settle(t, s))
  /\ \A r \in Runs, s \in Steps : SF_vars(SettleForGood(r, s))

FairSpec == Spec /\ Fairness

-----------------------------------------------------------------------------
(* Properties.  Which runs check which, and under what environment, is in   *)
(* README.md.                                                               *)

\* Two ticks never drive the same run: what inFlightRunIds is for.
TickExclusion ==
  \A t, u \in Ticks : t # u /\ tick[t].run # NoRun => tick[t].run # tick[u].run

\* However a tick ends, also by an error that leaves tickRunningChains with it, no
\* run stays in flight without a tick, which would keep it from every later pass
\* (service.ts:945), and no tick of a pass is left when the pass is over.
NoLeakedLock ==
  /\ \A r \in inFlight : \E t \in Ticks : tick[t].run = r
  /\ tick[Loop].run # NoRun => pass.on

\* A step has a state only when every step before its position is terminal,
\* in memory and in what a restart would read, whatever the operator does
\* while a runner is awaited.
OrderedRow(st) ==
  \A s, x \in Steps : PosOf[s] < PosOf[x] /\ st[x] # "none" => st[s] \in Done
StepOrder == \A r \in Runs : OrderedRow(row[r].st) /\ OrderedRow(disk[r].st)

\* While a step is being run, a restart cannot lose what it was built on:
\* every earlier result of the run is on disk with the value in memory.
UpstreamDurable ==
  \A t \in Ticks : tick[t].run # NoRun =>
    LET r == tick[t].run IN
    \A s \in Steps : PosOf[s] < tick[t].pos => disk[r].st[s] = row[r].st[s]

\* A parallel group is on disk before its siblings are awaited, so that a
\* restart in that window does not lose the group (chain-executor.ts:270-277);
\* and it stays there until the run is deleted or the group is retried.
GroupOnDisk ==
  \A t \in Ticks :
    tick[t].run # NoRun /\ tick[t].pos \in Group /\ RowExists(tick[t].run) =>
      \A s \in StepsAt(tick[t].pos) :
        tick[t].own[s] = "live" => disk[tick[t].run].st[s] # "none"

\* A settled run has no step that still shows as running.
SettledRunHasNoLiveStep ==
  \A r \in Runs : row[r].status \in Settled => \A s \in Steps : row[r].st[s] \notin Live

\* 'completed' means done: no halting failure, and either every step ran or a
\* step asked to end the chain there.
CompletedMeansDone ==
  \A r \in Runs : row[r].status = "completed" =>
    /\ \A s \in Halt : row[r].st[s] # "failed"
    /\ \/ \A s \in Steps : row[r].st[s] \in Done
       \/ \E s \in Steps : <<r, s>> \in asked

\* A failed run shows the step that failed it.
FailureHasACause ==
  \A r \in Runs : row[r].status = "failed" => \E s \in Steps : row[r].st[s] = "failed"

\* The verdict on a run follows from its steps, and nothing of it goes on
\* (chain-executor.ts:142, 437).
VerdictFitsSteps == SettledRunHasNoLiveStep /\ CompletedMeansDone /\ FailureHasACause

\* Nothing after a step that asked to end the chain is ever started.
EndChainHonoured ==
  \A r \in Runs : \A s, x \in Steps :
    <<r, s>> \in asked /\ PosOf[x] > PosOf[s] => row[r].st[x] = "none"

\* A settled run stays as it is until the operator retries it (or its
\* automation is deleted): no tick brings it back or changes the verdict.
SettledIsFinal ==
  [][\A r \in Runs :
       row[r].status \in Settled /\ row'[r].status # row[r].status =>
         used'["retry"] > used["retry"] \/ row'[r].status = "deleted"]_vars

\* A step result a restart would find is never redone or rewritten without a
\* retry, across crashes.
DurableResultKept ==
  [][\A r \in Runs, s \in Steps :
       disk[r].st[s] \in Done /\ row'[r].st[s] # disk[r].st[s] =>
         used'["retry"] > used["retry"] \/ row'[r].status = "deleted"]_vars

\* Every active run settles, unless it is held by a pause.
ActiveRunSettles ==
  \A r \in Runs : row[r].status \in Active ~> (row[r].status \notin Active \/ row[r].paused)

-----------------------------------------------------------------------------
(* The inductive invariant behind TickExclusion, in an environment without   *)
(* two dispatches in one millisecond, and what is added to it for            *)
(* SettledIsFinal where the operator only deletes.                           *)

Exclusive ==
  /\ \A t \in Ticks : tick[t].run # NoRun => tick[t].run \in inFlight
  /\ \A r \in Runs : tick[r].run \in {r, NoRun}
  /\ \A r \in inFlight : row[r].status # "absent"
  /\ TickExclusion

DrivenIsUnsettled ==
  \A t \in Ticks : tick[t].run # NoRun => row[tick[t].run].status \in Active \cup {"deleted"}
StatusOnDisk == \A r \in Runs : disk[r].status = row[r].status

\* A slot that has been used belongs to a dispatch that has happened.
LockInv ==
  NoLeakedLock /\ \A r \in Runs : tick[r].run # NoRun => row[r].status # "absent"

(* What is added to Exclusive for StepOrder, where moreover no member of a     *)
(* parallel group throws.                                                    *)

QuietEnvironment == Bound["tie"] = 0 /\ \A s \in Throwing : PosOf[s] \notin Group

\* Nothing later than s has a state: s is the edge of the run.
EdgeAt(st, s) ==
  st[s] # "none" /\ \A x \in Steps : PosOf[x] > PosOf[s] => st[x] = "none"

\* A result that will land on the run lands on its edge.
TickAtEdge(tk, rows) ==
  \A s \in tk.wait :
    /\ PosOf[s] = tk.pos
    /\ tk.run # NoRun /\ rows[tk.run].status \in Present /\ tk.own[s] = "live" =>
         EdgeAt(rows[tk.run].st, s)
AtTheEdge == \A t \in Ticks : TickAtEdge(tick[t], row)

OrderInv == TypeOK /\ Exclusive /\ AtTheEdge /\ StepOrder /\ late = {}

(* What is added to it for UpstreamDurable and GroupOnDisk. *)

\* Memory is ahead of the disk only at the position that a tick awaits.
Unsaved(r, s) == disk[r].st[s] # row[r].st[s]
AheadWhereAwaited ==
  \A r \in Runs, s \in Steps :
    Unsaved(r, s) => /\ RowExists(r)
                     /\ \E t \in Ticks : tick[t].run = r /\ tick[t].pos = PosOf[s]

\* The states that a tick holds are in the run, those of a group on disk too.
TickHolds(tk, rows, dsk) ==
  tk.run # NoRun /\ rows[tk.run].status \in Present =>
    \A s \in StepsAt(tk.pos) :
      tk.own[s] = "live" => /\ rows[tk.run].st[s] # "none"
                            /\ tk.pos \in Group => dsk[tk.run].st[s] # "none"
Held == \A t \in Ticks : TickHolds(tick[t], row, disk)

DurableInv == AheadWhereAwaited /\ Held

(* What is added to both for the properties of verdicts, in an environment     *)
(* where the operator leaves active runs alone, or deletes them.             *)

Undisturbed == QuietEnvironment /\ Bound["cancel"] = 0 /\ Bound["retry"] = 0
SoloEnds == \A s \in EndChain : PosOf[s] \notin Group

\* A step that halts has failed only where its siblings are not done yet.
NoHaltBehind(st) ==
  \A s \in Halt : st[s] = "failed" => \E x \in StepsAt(PosOf[s]) : st[x] \notin Done

CalmRow(rw) ==
  /\ rw.status = "absent" => \A s \in Steps : rw.st[s] = "none"
  /\ rw.status \in Active => NoHaltBehind(rw.st)

VerdictOf(r, rw, asks) ==
  /\ rw.status \in Settled => \A s \in Steps : rw.st[s] \notin Live
  /\ rw.status = "completed" =>
       /\ \A s \in Halt : rw.st[s] # "failed"
       /\ \/ \A s \in Steps : rw.st[s] \in Done
          \/ \E s \in Steps : <<r, s>> \in asks
  /\ rw.status = "failed" => \E s \in Steps : rw.st[s] = "failed"

\* Memory rw and disk dw of the run r, and what its steps asked for.
RunFits(r, rw, dw, asks) ==
  /\ CalmRow(rw) /\ CalmRow(dw) /\ dw.status = rw.status
  /\ \A s \in Steps : dw.st[s] \in Done => rw.st[s] = dw.st[s]
  /\ \A s \in Steps : <<r, s>> \in asks => rw.st[s] = "succeeded"
  /\ VerdictOf(r, rw, asks)
  /\ SoloEnds => \A s \in Steps : <<r, s>> \in asks =>
       /\ rw.status \in Settled
       /\ \A x \in Steps : PosOf[x] > PosOf[s] => rw.st[x] = "none"
  /\ Bound["delete"] = 0 => rw.status # "deleted"

\* A tick drives an active run and holds its states; what it awaits is live.
CalmTick(tk, rows, asks) ==
  tk.run # NoRun =>
    /\ rows[tk.run].status \in Active \cup {"deleted"}
    /\ \A s \in Steps : tk.own[s] = "live"
    /\ rows[tk.run].status \in Active =>
         /\ \A s \in tk.wait : rows[tk.run].st[s] \in Live
         /\ tk.ended => \E s \in Steps \ tk.wait : <<tk.run, s>> \in asks

VerdictInv ==
  /\ \A r \in Runs : RunFits(r, row[r], disk[r], asked)
  /\ \A t \in Ticks : CalmTick(tick[t], row, asked)
=============================================================================
