# A verification development of Cohort's main process

Cohort (a fork of Orca, whose name many files keep) is a desktop application (Electron,
TypeScript) that runs automations and coding agents in terminals, one git worktree each. Its main process keeps the state that matters:
automations that drive agents through chains of steps, and an orchestration
database through which one coordinator hands tasks to many agents. Both are
single-threaded programs full of `await`s over shared objects and tables; most of
what can go wrong in them happens between two of these awaits. The modules here
model that code, TLC checks them on small instances, and TLAPS proves theorems
about them for every value of the constants.

All source paths in this file are relative to the repository's root; `main/...` is short for
`src/main/...`. `PROJECT.json` maps every definition to the lines it models.

## 1. Inventory

| Component | State it keeps | Operations | Talks to |
|---|---|---|---|
| chain executor, `main/automations/chain-executor.ts` | none of its own: it mutates the run object it is given (step states, status) | one tick: find the current position, start or poll its runners, record their results, advance, finalize | step runners (awaited calls), the service's `persistRun` callback |
| automation service, `main/automations/service.ts` | `inFlightRunIds`, the interval timer, a flag against overlapping passes | dispatch a run, tick the active runs, cancel, pause, resume, retry from a step, retry one parallel step, delete an automation | chain executor, store, renderer (`broadcastAutomationsChanged`), prompt queues |
| run rows, `main/persistence.ts` | automations and runs in memory, a JSON file | create, update, replace a run; debounced background writes; final flush | everybody, by live reference |
| prompt runner, `main/automations/runners/run-prompt-runner.ts`, with `paneQueue` of the service | a tracker per step, a FIFO of tokens per pane | tick a step: check, open a pane or queue for one, send, poll the agent's status, time out; drop a step or a run | renderer (awaited calls), agents' hooks, service |
| watch-pr runner, `main/automations/runners/watch-pr-runner.ts` | a tracker per step, with a copy in the step's row; child runs in the store | tick a step: resolve, sweep, gate, spawn a cycle, wait for it | GitHub (awaited reads), service, agents' status |
| other step runners, `main/automations/runners/` | processes, requests | one awaited call: settled, still running, ends the chain, throws | terminals, git hosts, HTTP |
| auto-trigger engine, `main/automations/auto-trigger-engine.ts` | watermark per source, schedule anchors, dedup rows | tick: poll HTTP triggers, schedules and shared sources, dispatch | service, store, Linear, GitHub |
| store writes, `main/persistence.ts` | the state, a timer, a write generation | schedule a write, write in the background, flush | file system |
| orchestration database, `main/runtime/orchestration/db.ts` | SQLite tables: tasks, dispatch contexts, gates, messages, coordinator runs | create a task, set a status and promote, claim, complete or fail a dispatch, open and resolve gates | coordinator, RPC methods, exit handler |
| coordinator, `main/runtime/orchestration/coordinator.ts` | state of its loop and the locals of a tick | read messages, re-block gated tasks, list and open terminals, dispatch, converge, stop | database, runtime |
| orchestration RPC, `main/runtime/rpc/methods/orchestration*.ts` | none | run, stop, dispatch, task-create, task-update, gate-create, gate-resolve, send, check, ask, reset | database, runtime |
| runtime, `main/runtime/orca-runtime.ts` | terminals and their leaves, waiters, drivers | list, create, send, exit | ptys, database, coordinator's mailbox |
| daemon, `main/daemon/` | terminal sessions in another process | spawn, attach, write, resize, history | main process over a socket |
| ssh and relay, agent hooks, git hosts, IPC handlers, renderer, CLI, mobile | see `PROJECT.json` "components" | | |

What is hard in this code, component by component; `PROJECT.json` "hazards" has
every item at its line.

* **Chain executor and service.** `await runner.start(...)` in the middle of a
  tick, while the store hands out the *same* run object to every caller: cancel,
  pause, retry and delete change it under the tick. Three sources of ticks (the
  timer's pass, the tick after a dispatch, the tick after a retry) are kept apart
  by one set of run ids. Rows of steps come into being lazily. A group awaits all
  its members and is rejected by the first that throws, while the others run on.
  What is on disk lags behind. *Correct* means: one tick per run, steps in chain
  order, nothing built on results a crash would lose, a settled run stays settled
  and quiet, its verdict follows from its steps, no run stays locked without a tick,
  every run settles.
* **Orchestration.** The coordinator takes snapshots (ready tasks, free slots, live
  terminals) and then awaits several calls before it claims; meanwhile RPC calls
  dispatch, terminals exit and workers report. A message may report what was
  already acted on. Failures return a task to the pool or break its circuit. Gates
  block tasks. *Correct* means: one terminal per task and one task per terminal,
  claims only of ready tasks, no dispatch past an open gate or an open dependency,
  no more than `maxConcurrent` at once, no leaked slot, three strikes, and every
  task that can be worked on ends.
* **Prompt panes.** Steps of a group, and of several runs, want the same pane; the
  runner sees the agent only through the last status its hooks reported, and a step in
  the queue may be cancelled, retried, timed out or forgotten. *Correct* means: one live
  prompt in a pane, no dead holder of a queue, success only with the answer to one's own
  prompt, every live step settles.
* **Auto triggers.** Watermarks and anchors are in memory, dedup rows on disk; several
  triggers share one query; schedules are edited under their anchors. *Correct* means:
  at most one run per trigger and entity, nothing falls behind the watermark, no stale
  instant fires.
* **Watch-PR.** A tick awaits GitHub many times while reviews come in, cycles end and
  operators cancel and retry; a cycle is a run of its own, named in the row of another
  one. *Correct* means: never a cycle that nobody waits for, no review skipped, every
  review answered, the watch ends with its last pull request.
* **Store writes.** Three awaits in a background write, and a synchronous flush at any of
  them; several background writes may overlap. *Correct* means: what a flush has written
  stays, a file that falls back does so only between states of the same stretch, every change gets there.

## 2. The modules

| Module | What it is |
|---|---|
| `AutomationRuns` | chain executor, service and run rows (the mutated definitions, `Name_Variant`, stand next to the ones they mutate) |
| `MCAutomationRuns` | chains, runs and bounds for TLC |
| `AutomationRunsProofs` | type correctness of `AutomationRuns`, one tick per run, steps in order |
| `AutomationRunsOutcomeProofs` | what survives a restart, verdicts |
| `OrchestrationDb` | the database: one pure operator per method, from a database to a database |
| `Orchestration` | coordinator, RPC methods, workers, exits over that database |
| `TaskGraph` | abstract: what orchestration promises its user |
| `MCOrchestration` | dependency graphs and bounds for TLC |
| `OrchestrationDbProofs` | what each database operation preserves |
| `OrchestrationProofs` | type correctness, the lock, the held dispatches, the fresh claims; slots, dependencies, gates and the step simulation of `TaskGraph` |
| `StoreWrites` | background writes and flushes of the store |
| `DurableStore` | abstract: what those who keep something in the store rely on |
| `MCStoreWrites`, `StoreWritesProofs` | bounds for TLC; type correctness, durability, refinement |
| `PaneQueue`, `MCPaneQueue` | prompts of steps, the queue of a pane, the agents; two runs for TLC |
| `PaneQueueProofs` | type correctness, one prompt in a pane, own answers, no dead holder |
| `AutoTrigger`, `MCAutoTrigger` | the auto-trigger engine; schedules for TLC |
| `AutoTriggerProofs` | type correctness, at most once, fresh schedules, nothing missed |
| `WatchPr`, `MCWatchPr` | a watch-pr step and its cycles |
| `WatchPrProofs` | type correctness, no orphaned cycle, no skipped review |

### 2.1 AutomationRuns

State. `row[r]` is the run object in memory, shared by everybody: its status, its
`paused` flag and the status of every flattened step (`"none"`: no state object
yet). `disk[r]` is the row as the last flush wrote it. `inFlight` is
`inFlightRunIds`. `tick[t]` is what a tick awaits: the run, the position, the steps
whose promises are pending, and whether the state objects it holds are still the
ones in the run (a retry replaces them). There is a tick slot for every dispatch
or retry of a run and one, `Loop`, for `tickRunningChains`. `pass` is the pass of
the timer, `late` the calls a rejected group left behind.

A run's status has three values besides the program's: `"absent"`, `"deleted"`, and
`"aliased"` for a dispatch that fell into the millisecond of another one and was
handed its row (`createAutomationRun` looks a run up by automation and time).

Actions are the stretches of code between two awaits.

| Action | Code |
|---|---|
| `DispatchRun`, `DispatchInTheSameMs` | `dispatchRun` up to the first await of its fast tick |
| `StartPass`, `VisitRun`, `SkipRun`, `EndPass` | `tickRunningChains`: the list of active runs, each visited in turn, `inFlightRunIds` and `paused` looked at when its turn comes |
| `SettleSolo`, `SettleSibling` | the await in `tickSoloStep` / `tickParallelGroup` returns: record, `onFailure`, end of chain, finalize, persist, and the next position of the same tick |
| `RunnerThrows`, `LateSettle` | `finalizeFailedRun`; members of the group that are still awaited finish later |
| `SettleDeleted` | persisting throws since the row is gone, and so does the handler of that error |
| `CancelRun`, `PauseRun`, `ResumeRun`, `DeleteAutomation` | the service methods of these names |
| `RetryRunFromStep`, `ContinueRun`, `RetryParallelStep` | the retries; what the view offers (`canRetry`, `canContinueRun`) guards them, since nothing else does |
| `Restart` | the process ends anywhere and starts with what is on disk |

`Materialise`, `Current`, `AllDone`, `FinalizeRun`, `Propagate`, `TickOnce` are the
executor's functions.

Abstractions. `'skipped'` is treated by the code as `'succeeded'` and `'timed-out'` as
`'failed'`; the model keeps one name of each pair. Outputs, context patches, panes,
child and detached runs, and the legacy statuses `pending`/`dispatching` are left
out. The order in which a pass visits its runs is arbitrary (the code's order is one
of them). Hops of the microtask queue between two actions of the same stretch are
merged. The chain is a constant: edits of a chain under an active run are not modelled.

### 2.2 OrchestrationDb, Orchestration, TaskGraph

`OrchestrationDb` has no variables. A database is a record of tasks (a status each),
dispatch contexts (a sequence: the rowid order decides which is the latest) and
gates. `UpdateTaskStatus` contains the promotion of the children and the completion
of an active dispatch; `FailDispatch` the failure count, the circuit breaker and the
way the task is returned. `failure_count` stops at 3, since the code only asks
whether it has reached 3.

`Orchestration` has the database `db`, the coordinator's unread messages `mail`, the
status of its row `run`, the loop `coord` (where it is, and the locals that survive an
await: ready tasks, slots, terminals), the dispatch `call[k]` that the coordinator or an
RPC is in the middle of, terminals `term`, and `work`, the dispatches whose agents have
still to report.

| Action | Code |
|---|---|
| `StartRun`, `StopRun`, `Wake` | `orchestration.run`, `runStop`, the poll interval |
| `HandleMessage` | one round of `processMessages`: `worker_done`, `escalation`, `decision_gate` |
| `BeginDispatch` | `processDecisionGates`, ready tasks, slots |
| `ListTerminals`, `CreateTerminal` | the awaits of `dispatchReadyTasks` before its loop |
| `Claim(k)` | after the drift probe or the RPC's probe of the agent: `createDispatchContext`, which may refuse, then the send |
| `Sent(k)` | the send returned or was refused; the next task, or the check for convergence |
| `RpcDispatch`, `RpcTaskCreate`, `RpcTaskUpdate`, `RpcGateCreate`, `RpcGateResolve` | the RPC methods |
| `TerminalExit` | `failActiveDispatchOnExit`: the dispatch is failed and an escalation mailed |
| `WorkerDone`, `WorkerEscalates`, `WorkerAsks` | what the preamble tells a worker to send |

The synchronous stretch of a coordinator tick (all messages, gates, the snapshot) is one
action per message; while it is on (`coord.pc = "mail"`) nobody else moves (`Yielded`),
which is what one thread means.

Abstractions. Ready tasks and terminals are taken in any order (the code's `created_at`
order is one of them). The drift probe and the probe for an agent are one await
("check") that may say no. Heartbeats and warnings about stale dispatches only log.
Messages carry their type and their task. `ask`, `check`, `reply`, `inbox`, `reset`, restarts of the
app and crashes between two database statements are not modelled. A write to a dead
terminal is dropped by the pty without an error; only a send to a terminal already
known to be disconnected is refused, as in `sendTerminal`.

One thing seen while modelling that no property of tasks can show: `orchestration.ask`,
which the preamble recommends to workers, sends its `decision_gate` message without a
task id, and `handleDecisionGateMessage` logs and drops such a message. The asking
worker waits until its timeout; no gate is opened.

`TaskGraph` is the promise: a task is worked on by at most one terminal, a terminal
works on at most one task, nothing starts before its dependencies are done, and
what is done stays done. `Orchestration` implements it (`ImplementsTaskGraph`) under the view
`GraphState`/`GraphHolder`: tasks that are absent, pending or ready are "todo", and the
holder of a task is the terminal of its active dispatch.

### 2.3 StoreWrites and DurableStore

The contents are a version number. `state` is what is in memory, `file` what is in the data
file, `write[w]` a background write: `"mkdir"`, `"write"` and `"rename"` are its three awaits.
`Change` is any change that ends in `scheduleSave`, `ChangeAndFlush` one that ends in `flush`;
`TimerFires`, `Serialize`, `Written`, `Renamed` are the stretches of the background write,
`WriteFails` its error path, `Restart` a start from the file. The backups that a write
rotates are left out.

The generation keeps an overtaken write from being renamed, but it is read before the
rename is awaited: a flush that comes while the rename is with a thread of the pool may be
overwritten, although `flush` says that the generation prevents it (`persistence.ts:1709`). And
nothing keeps two background writes apart when one takes longer than the 300 ms until the
next: each has the generation of the last flush, and the older one may be renamed last. The model
does both, and its properties say what is left. `flushed` is the last flush that came while
no rename was under way: the file never falls behind it. Between two such flushes the file may get older, but
only to a state that memory has held since the first. If an older rename comes
last, the newer state stays in memory until the next change, which `ChangesAreSaved` excepts.

`DurableStore` is the "disk" that the other modules assume: `disk` of `AutomationRuns`, the
dedup rows of `AutoTrigger`, the rows and child runs of `WatchPr` are written in one step. That
is what `ImplementsStore` allows for whatever is flushed while no rename is under way (`replaceAutomationRun` and
`insertAutomationAutoDedup` flush); those modules do not model a flush that is overwritten by a rename it met.

### 2.4 PaneQueue

The executor is reduced to `phase` and `ended`: which steps are live, which runs are over.
`call[s]` is where the runner's call for a step is (at the checks, opening a pane, sending,
sent but not yet answered), `target[s]` the pane that the tick has resolved from the run's context,
`tracker[s]` what the runner remembers of a sent prompt, `paneQueue[p]` the tokens. A run that
another one spawned has a copy of its parent's context (`service.ts:1066`), so for a step of such a run
`target` stays what it was first. `Later(s)` is what "retry" of a solo step, or of a whole group, drops. `opened[s]` is the pane that the step's
row names as opened by itself: a retry closes it from there, also after a restart or a cancel, which forget the trackers. The agent is `inbox` (prompts typed and not taken), `turn` (the one it is
at work on) and `status` (the last thing its hooks said); the runner reads only `status`.

| Action | Code |
|---|---|
| `BeginTick`, `GatesEnd`, `GatesOpen`, `GatesSend` | a tick of a step without a tracker: templates, checks for changes and preset, any of which may fail or skip a step of either kind, then its own pane, or `acquirePane` and the gate on the agent's status |
| `Opened`, `OpenFails`, `Deliver`, `Sent`, `SendFails` | the renderer's part of `openPromptPane` and `sendPromptToPane` |
| `PollWorking`, `PollDone`, `TimesOut` | a tick of a step with a tracker |
| `CancelRun`, `Throws`, `RetryFrom`, `RetrySibling`, `Restart` | what ends, drops or forgets trackers and tokens |
| `Takes`, `Finishes`, `AsksUser`, `UserAnswers` | the agent and its user |

Two constants name what the code does not stand: `Hasty` (a run is ended in the middle of
a call, or before the agent has taken its prompt; a restart while an agent is at work), and
`Fickle` (the checks before a prompt, which are repeated while a step is queued, come out
otherwise). With `Hasty` the abandoned prompt runs in the turn of the pane's next holder and
`OneLivePrompt` and `SucceedsOnOwnAnswer` fail. With `Fickle` a step that waits in the queue may be skipped or failed
by a check; `tick` returns that outcome without `releasePaneFor`, its token stays, and
everybody behind it waits for a step that is over (`NoDeadHolder` fails, although
`run-prompt-runner.ts:228` says that the release is "used on every terminal outcome").

`Retryable` names the steps that are retried, because of a third way to a dead holder: a waiting step has no
tracker, so `dropStep` returns before it gives the pane back, and a retry of an earlier step leaves its
token in the queue. The step finds it again when the run comes to it; but if the run fails before that (a
step that *fails* does not call `releasePanesForRun`, only one that throws does), the token
belongs to nobody. `run-prompt-runner.ts:621` frees the pane of a dropped step "so a retry-from-step (or any waiter
behind it) isn't blocked by a holder that no longer exists"; for a waiting step it does not get there. With
`Retryable = {open}` and `MaxPanes = 2` in `panes.cfg`, TLC finds the trace in 16 states.

### 2.5 AutoTrigger

Triggers are of three kinds: `Shared` (of one Linear or GitHub source), `Http` and `Timed`. A tick
(`todo`) polls them in the engine's order: each HTTP trigger, the schedules, then one query for
all shared ones since the oldest of their watermarks. `poll` is the poll under way with its
events. `lastPoll`, `nextRun`, `anchorSig` are in memory; `dedup` is on disk. `fired` and `owed` are
history variables: the runs started for a trigger and an entity since its row was
cleared, and the issues that a trigger has to fire for.

| Action | Code |
|---|---|
| `StartTick`, `PollHttp`, `PollSchedule`, `PollShared` | `tick`, `pollHttpTrigger`, `pollScheduleTrigger`, the grouped poll |
| `HandleEvent` | one event for all triggers of the group: rules, dedup row, dispatch |
| `EndPoll` | the watermark is set to the time after the poll |
| `SetUp`, `Toggle`, `EditSchedule`, `ClearDedup`, `Restart` | operator and process |
| `Update`, `Wait` | issues change, time goes by |

`Coming(c, time)` are the instants of a schedule after a moment; `nextOccurrenceAfter` returns the first, or null
if there is none (an invalid cron, 30 February). `SetNext` then leaves the next run as it was, while the
schedule's signature is recorded already: the instant of the *former* schedule stands under the signature of the new one
and fires, although the comment (`auto-trigger-engine.ts:294`) says that an edited schedule never fires the
stale one. `schedules` has such a schedule, `never`. `FiresFresh` excepts just this case; without the
exception TLC finds it violated by an edit to `never`.

`Mishaps` names what makes the engine lose events, each of which makes `NothingMissed` fail on
its own: an issue that changes while its source is polled (the watermark is taken after
the poll), a source that cannot be reached (it returns no events, and the watermark moves
on), a dispatch that throws (the rest of the group does not see the event). The same goes for more
changed issues than `MaxPages`. The run and the theorem assume none of them.

### 2.6 WatchPr

`tracker` is the runner's `WatchTracker`, `saved` the copy in the step's row, `mapped` whether the
runner knows the tracker; `Current` is the one the next tick will work with (`getOrCreateTracker`). `tick`
is the tick under way: which members it has still to sweep or to build, the payload so far, and
`row`, whether the row it will write to is still the run's. `child` are the cycles, `answered` the
history of what cycles were given.

| Action | Code |
|---|---|
| `BeginResolve`, `BeginSweep`, `BeginGate`, `BeginRespond` (`Gate`) | `tick` up to its first await, by phase and by whether the poll interval has elapsed |
| `Resolve`, `SweepMember`, `ArmFromReviews`, `EndSweep` | the awaits of resolving and of `sweep`, and what follows each |
| `BuildMember`, `Spawn` | the awaits of `buildCycleOutput`, then `spawnChildRun` and the end of the tick |
| `Throws`, `CancelRun`, `RetryRunFromStep`, `Restart` | failures, operators, process |
| `Submit`, `PRChanges`, `AgentStarts`, `AgentStops`, `Archive`, `ChildEnds`, `Interval` | the world |

`Gate` fires a cycle on the first tick that finds the agent idle if the debounce time is 0, and
on the second one otherwise (`Debounce`); the theorems cover both, and the run passes with either value, TRUE in the cfg.
An error while GitHub is read leaves `tick` and fails the whole run (`Throws`), although two
comments (`main/github/client.ts:1109` and 1162) say that the poll loop retries it; the properties excuse a failed run.

A tick that ends writes its progress into the row and sets the run to waiting, also when
the run was cancelled meanwhile (`NeedsMoreTime`; see `cancel_resurrects`). `Mishaps` names what breaks the
properties: the step is retried while it is ticked, the app crashes between the spawn of a cycle
and the write of the row that names it (each breaks `NoOrphanCycle`), a review is submitted after one with a higher id (`NothingSkipped`). A review that
comes between the sweep and the building of a batch is given to this cycle and, being past the
watermark, to the next one too: reviews are answered at least once, not exactly once. The retry of
a finished cycle by itself, from the view of that run, is not modelled.

## 3. What is checked

`tlc -config <run>.cfg <module>`; every run is in `PROJECT.json`. `CHECK_DEADLOCK` is off
throughout: a system in which everything has settled and every bounded operation is used
up may stop. The bounds are in the constant `Bound`, by operation, or in constants called `Max...`; the
theorems hold for every value of them.

### 3.1 Passing runs

| Run | Instance | Checked |
|---|---|---|
| `races` | one run of a chain solo, pair, solo; steps 1, 2 halt, step 3 may end the chain; one throw, cancel, retry, pause, crash; fairness | `TypeOK`; `TickExclusion` (never two ticks of one run); `StepOrder` (steps start in chain order, in memory and on disk); `UpstreamDurable` (a step starts only when what it builds on is on disk); `GroupOnDisk` (a group is on disk while its runners work); `ActiveRunSettles` |
| `verdicts` | a run each of two automations, a chain solo, pair; one throw, one deletion, one crash | `VerdictFitsSteps` (no live step in a settled run, completed means done, a failure has a cause), `EndChainHonoured`, `NoLeakedLock` (a run in flight has a tick, a tick of a pass its pass, also when an error leaves the loop); and the action properties `SettledIsFinal`, `DurableResultKept` |
| `progress` | two runs of one parallel pair; one each of throw (a member throws while its sibling runs on, whose result comes late), deletion and two dispatches in one millisecond; fairness | `ActiveRunSettles` |
| `coordinator` | three tasks, the third waits for the other two; two terminals, one open; `maxConcurrent` 1; one exit, one failed send, one question; fairness | `TypeOK`, `ReadyMeansDepsDone`, `GateHolds`, `WithinMaxConcurrent`; `ImplementsTaskGraph`; `TasksSettle` |
| `free_for_all` | two tasks, the second created later; workers that go on after they escalated; one each of RPC dispatch, status set by hand, gate, escalation, stop, skipped check | `TerminalLock`, `DispatchedHasDispatch`, `ClaimIsFresh` |
| `store_flush` | two background writes that may overlap; a few changes, flushes, failures and crashes at any moment; fairness | `TypeOK`, `FlushedIsDurable` (what a flush wrote while no rename was under way is never overwritten by an older state); `ImplementsStore`; `ChangesAreSaved` |
| `panes` | run [open, [a, b]] and a step of a second run, all in one pane; one interference of any kind; fairness | `TypeOK`, `OneLivePrompt`, `NoDeadHolder`, `SucceedsOnOwnAnswer`, `LiveStepsSettle` |
| `triggers` | two triggers of a shared source, two issues, four instants, one operation of an operator or restart; fairness | `TypeOK`, `FiresOnce`, `NothingMissed`, `IssuesAreHandled` |
| `schedules` | one trigger with one of three schedules, one of them without an instant, one HTTP trigger, five instants, two operations | `FiresFresh` |
| `watch_pr` | two pull requests, two reviews (one each, or two on one), four cycles, one interference of any kind; fairness | `TypeOK`, `NoOrphanCycle`, `NothingSkipped`, `ReviewsAreAnswered`, `SettledEndsWatch` |

`coordinator` is the orderly world: an agent reports once on a dispatch and nobody
dispatches by hand. `free_for_all` is the unruly one: what holds there holds whatever
people and agents do. Properties are listed with the world in which the code keeps
them; several of the hazards note what fails outside (a status set to ready by hand makes
a dispatched task claimable a second time, for example, so `ImplementsTaskGraph` is for the
orderly world).

Why the bounds are enough. Every hazard here takes one run or two, one operation of the
environment that hits an await, and a chain that has a solo step before, inside and
after a group; two runs are needed for an error of one that ends the pass of both, and for two dispatches
in one millisecond only. Two background writes are what it takes for one to overtake the other. In orchestration, two terminals and a task more than slots are
needed for a stale snapshot to matter, and a join for the promotion. One operation of
each kind lets every pair of kinds meet in either order. In the pane, three users let one
hold, one wait and one come from another run. For the triggers, two of one source set up at
different times are what makes watermarks differ, and two issues make one be handled while
the other changes. In the watch, two pull requests settle in either order and a second
review meets a cycle at work (that a member which is approved settles too, with `EndOnApprove`, is in the model and in the theorems,
but `Outcomes` of the run has no `APPROVED`: with it the run takes longer than five minutes); four cycles are more than two reviews and one retry can
start. `panes`, the trigger runs and `watch_pr` allow a small number of interferences in
all, where the number of their kinds is large; the theorems have no such limit. Each property is also checked
against a mutant: a plausible bug in a mapped definition that makes TLC find it violated
under the run's own bounds, so the interesting case does occur.

### 3.2 Runs that TLC finds violated

Each states what the repository says of itself and what the code does not do.

| Run | Property | What TLC shows |
|---|---|---|
| `cancel_resurrects` | `SettledIsFinal` | cancel while a tick awaits a runner: the answer is written into the cancelled run, the tick goes on and finalizes it as completed, failed or running (`main/automations/service.ts:1224` says an in-flight tick must not resume) |
| `exit_counts_twice` | `ThreeStrikes` | the exit of a terminal fails its dispatch and mails an escalation, on which the coordinator fails the task's latest dispatch again: two exits break a circuit that is said to break after three failures (`skills/orchestration/SKILL.md:105`) |

The passing run of `SettledIsFinal` uses an environment without that trigger. The same
is so for the other limits that the models have shown; each is a note of its hazard in
`PROJECT.json`, and a constant turns it on:

* `EndChainHonoured` with groups: the wish of a member that settles on an earlier tick than
  the last one is a local variable of that tick (`main/automations/chain-executor.ts:286`);
* `VerdictFitsSteps` with a throwing member of a group: `Promise.all` rejects at once, and a
  sibling that answers "not yet" afterwards leaves a live step in the failed run
  (`main/automations/chain-executor.ts:287`); `progress` shows that runs settle all the same;
* `ReadyMeansDepsDone` with operators' gates: one on a pending task makes it ready when it is
  resolved (`main/runtime/orchestration/db.ts:650`);
* `Hasty`, `Fickle`, `Retryable` and the `Mishaps` of sections 2.4 to 2.6.

So the passing runs do not show that these cases go well, and the properties listed at the hazards in question
hold without them: a group's early wish to end the chain, an operator's gate on a pending task, a check that comes
out otherwise for a queued step, a late answer to a timed out send, a dispatch that throws, a change during a poll,
a retry during a tick of a watch, a crash between a cycle and the row that names it, and a review submitted later with a lower id.

Where the repository says otherwise of itself, apart from the two runs above and `run-prompt-runner.ts:228` and 621 (section 2.4):

* `main/automations/service.ts:941`: an error of one run "must not poison the tick loop for every other run". With a deleted
  automation `finalizeFailedRun` throws as well, and the error leaves `tickRunningChains`. The model has that step
  (`SettleDeleted`, in `verdicts` and `progress`): the runs after it wait for the next pass, and no lock is left behind.
* `main/automations/auto-trigger-engine.ts:294`: an edited schedule never fires the stale instant. It does if it has no
  occurrence to come (section 2.5).
* `main/persistence.ts:1709`: a background write under way when a flush comes skips its rename. It does not if the rename was
  issued already (section 2.3).
* `main/github/client.ts:1109`, 1162: the poll loop retries a read that failed. It fails the run (section 2.6).

### 3.3 Fairness

`AutomationRuns.FairSpec`: the interval timer keeps starting passes and a pass goes on
(weak fairness of `StartPass`, `VisitRun`, `SkipRun`, `EndPass`); a runner's call returns
(weak fairness of `Settle`); a runner that is polled over and over has a timeout and some poll is the
last (strong fairness of `SettleForGood`). The code has no timeout around a runner's call
itself: that it returns is the runners' obligation, and an assumption here. A paused run is
resumed by its user or never, so `ActiveRunSettles` is about runs that are not paused.

`Orchestration.FairSpec`: the poll timer fires, the loop goes on, awaited calls return (weak
fairness). An agent reports some day on its task and a person answers its gate:
strong fairness, since these are disabled during the synchronous part of each tick.
Nothing is assumed of operators, exits, failures and refusals.

`StoreWrites.FairSpec`: the timer fires and file operations end. `PaneQueue.FairSpec`: live steps are
ticked (the service's timer), renderer and agents answer, and a timeout of a step comes some
day (`timeoutSeconds`). `AutoTrigger.FairSpec`: the engine's timer goes on and polls end, which is one weak
fairness of the whole engine. `WatchPr.FairSpec`: ticks go on and reads return or fail, the poll
interval elapses, the agent gets idle some day, and a cycle ends (it is a run, and `ActiveRunSettles` says so).

## 4. What is proved

TLAPS checks these for every value of the constants that satisfies the modules' `ASSUME`s:
any chain, number of runs, tasks, dependency graph, terminals, `maxConcurrent`, background writes,
triggers, issues, schedules, pull requests, reviews, and any bounds.

| Theorem | Says |
|---|---|
| `AutomationRunsProofs!TypeCorrect` | `Spec => []TypeOK` |
| `AutomationRunsProofs!OneTickPerRun` | `Spec => []TickExclusion`, if no two dispatches share a millisecond |
| `AutomationRunsProofs!NoLockLeaks` | `Spec => []NoLeakedLock` |
| `AutomationRunsProofs!StepsInOrder` | `Spec => []StepOrder`, given `QuietEnvironment` |
| `AutomationRunsOutcomeProofs!UpstreamIsDurable` | `Spec => []UpstreamDurable`, given `QuietEnvironment` |
| `AutomationRunsOutcomeProofs!GroupIsOnDisk` | `Spec => []GroupOnDisk`, given `QuietEnvironment` |
| `AutomationRunsOutcomeProofs!VerdictsFit` | `Spec => []VerdictFitsSteps`, given `Undisturbed` |
| `AutomationRunsOutcomeProofs!EndChainIsHonoured` | `Spec => []EndChainHonoured`, given `Undisturbed`, if only solo steps end the chain |
| `AutomationRunsOutcomeProofs!VerdictsAreFinal` | `Spec => SettledIsFinal`, if no two dispatches share a millisecond and nothing is cancelled or retried |
| `AutomationRunsOutcomeProofs!ResultsAreKept` | `Spec => DurableResultKept`, given `Undisturbed` |
| `OrchestrationProofs!TypeCorrect` | `Spec => []TypeOK` |
| `OrchestrationProofs!LockHolds` | `Spec => []TerminalLock` |
| `OrchestrationProofs!DispatchesAreHeld` | `Spec => []DispatchedHasDispatch`, if no status is set to dispatched by hand |
| `OrchestrationProofs!ClaimsAreFresh` | `Spec => ClaimIsFresh` |
| `OrchestrationProofs!SlotsAreKept` | `Spec => []WithinMaxConcurrent`, if nobody dispatches, or sets a status to dispatched, by RPC |
| `OrchestrationProofs!ReadyTasksAreFounded` | `Spec => []ReadyMeansDepsDone`, by the book |
| `OrchestrationProofs!GatesHold` | `Spec => []GateHolds`, by the book |
| `OrchestrationProofs!RunsTheGraph` | `Spec => ImplementsTaskGraph`, by the book |
| `StoreWritesProofs!StoreWritesTyped` | `Spec => []TypeOK` |
| `StoreWritesProofs!FlushIsDurable` | `Spec => []FlushedIsDurable` |
| `StoreWritesProofs!StoreIsDurable` | `Spec => ImplementsStore` |
| `AutoTriggerProofs!TriggersTyped` | `Spec => []TypeOK` |
| `AutoTriggerProofs!FiresAtMostOnce` | `Spec => []FiresOnce` |
| `AutoTriggerProofs!SchedulesFireFresh` | `Spec => FiresFresh` |
| `AutoTriggerProofs!NothingIsMissed` | `Spec => []NothingMissed`, if `Mishaps = {}` and the issues fit into one poll |
| `PaneQueueProofs!PaneTypeCorrect` | `Spec => []TypeOK` |
| `PaneQueueProofs!OnePromptAtATime` | `Spec => []OneLivePrompt`, if not `Hasty` |
| `PaneQueueProofs!SuccessIsOwnAnswer` | `Spec => []SucceedsOnOwnAnswer`, if not `Hasty` |
| `PaneQueueProofs!NoHolderIsDead` | `Spec => []NoDeadHolder`, if neither `Hasty` nor `Fickle`, given `RetryStays` |
| `WatchPrProofs!WatchTyped` | `Spec => []TypeOK` |
| `WatchPrProofs!NoCycleIsOrphaned` | `Spec => []NoOrphanCycle`, if `Mishaps = {}` |
| `WatchPrProofs!NoReviewIsSkipped` | `Spec => []NothingSkipped`, if `Mishaps = {}` |

**AutomationRuns.** Cancels, retries, pauses, deletions, throws and restarts are unlimited, except
where a theorem says otherwise. `OneTickPerRun` rests on

    Exclusive == ... /\ TickExclusion

alone: a slot drives the run it belongs to, a run driven by a tick is in `inFlight`, so that no second
tick of it starts, and a run in `inFlight` has been created. It needs that no two dispatches of an automation
fall into one millisecond (`Bound["tie"] = 0`): two that share a row start two ticks.

`NoLockLeaks` assumes nothing of the environment: two dispatches in one millisecond, deletions and errors that leave the pass
are in it. Its invariant is `LockInv`: every run in `inFlight` has a tick, a tick of the pass has its pass, and
a slot in use belongs to a dispatch that has happened, so that a new tick never takes the slot of one that
still holds a lock. Here several ticks may drive one run, and the first that ends gives the lock back for all, as `finally` does.

`VerdictsAreFinal` adds to `Exclusive` that a tick's run is
active or deleted (`DrivenIsUnsettled`) and that memory and disk agree on the status of every run
(`StatusOnDisk`), which is why a restart cannot bring a settled run back. Both follow from what one tick
does to statuses (`TickWorks`).

`QuietEnvironment` says that no two dispatches of an automation fall into one millisecond and that no
member of a group throws. Without it `StepOrder` is false: a rejected group leaves runners
whose results arrive after a retry. `StepOrder` is not inductive: a result that arrives is
written at the position the tick remembers, so one must know that this position is
still the last one that has rows. The inductive invariant is

    OrderInv == TypeOK /\ Exclusive /\ AtTheEdge /\ StepOrder /\ late = {}

`AtTheEdge`: what a tick awaits is at the last position of the run that has rows, or the
tick holds a detached object. The proof has a step per action and lemmas for `Materialise`, `Current` and the rewinding of a retry.

What is on disk is read off a second invariant, `DurableInv`: memory is ahead of the disk only at
the position that some tick awaits (`AheadWhereAwaited`), and a tick's states are in its run, those of a group
on disk too (`Held`). Since one tick drives a run, all before that position is saved; and a group that
was already created when a tick finds it was saved then, because nobody drove the run. `GroupOnDisk` is about
runs that exist: a deletion takes the group away under the tick.

`Undisturbed` adds to `QuietEnvironment` that nothing is cancelled or retried, which is what
`verdicts` checks; `cancel_resurrects` shows that a cancel breaks `SettledIsFinal`, and a retry under a tick has the
same effect on the verdict. `VerdictInv` says of every run (`RunFits`) that its verdict fits, that a halting
step of an active run has failed only where siblings are not done, that memory and disk agree on its status and on
every result that is on disk, and that a step which asked for the end has succeeded; and of
every tick (`CalmTick`) that it drives an active run and awaits live steps, so that no result can fall on a step
that is done. A settled run is driven by nobody and is therefore on disk as it is in memory.

**Orchestration.** `OrchestrationDbProofs` states for every database operation what it
preserves: `OnlyEnds` (dispatches are only ended, never revived or moved), `KeepsHeld` (every
task that counts as dispatched keeps an active dispatch), and what `CreateDispatch` adds (`createDispatchContext`).
`OrchestrationProofs` shows that each step of the system is a `DbStep`: the database stays
well typed, its dispatches only grow, a new one is for a ready task, the terminal lock
and the held dispatches carry over. The first four theorems follow; none assumes anything of
the environment beyond what its statement says. Being independent of snapshots and awaits is the
point: the claim itself is one synchronous database call, and that is why the code is safe.

The other four are about a coordinator that is left alone. `SlotsAreKept` needs only `Budget`:
what is dispatched, with the slots the tick has still to give and the dispatch it is about to make, stays within
`maxConcurrent`; between the count and the last dispatch the count can only drop, since nobody else
dispatches. The last three are for `ByTheBook`: no dispatch, gate or status by RPC, no gate
answered twice, and an agent that has reported or asked says no more. Exits, failed sends,
skipped probes, escalations, questions, created tasks, stops and later runs are unlimited. Their invariant is

    OrderlyInv == InOrder /\ Budget /\ TerminalLock /\ Tidy

`Tidy` says that a task's dispatch, its agent, its unread message, its gate and the coordinator's plans for
it never belong to different attempts: only the latest dispatch of a task is active, and only while the task is
dispatched; an agent at work has sent nothing; a task in the snapshot is still ready, with no message
and no gate; a task with a gate is blocked or ready or, within a tick, failed (an exit's escalation
behind the question does that, and the coordinator blocks the task again); what was ever tried has its dependencies completed. The hard part is the
message that arrives late: a terminal can die and its task be failed, tried again or
given up while a report of an earlier attempt lies unread, and the invariant says which of these
can meet. `RunsTheGraph` then maps every step to one task's move (`MoveStep`), a claim (`ClaimedStep`), the
blocking of gated tasks (`BlockStep`) or a stutter. What people can do
outside of `ByTheBook` breaks some of these, see sections 3.1 and 3.2.

**StoreWrites.** `FlushedIsDurable` is not inductive: a write that a flush overtakes is harmless only
since it carries an older generation. `DurableInv` adds that no write is ahead of the generation, and
that one of the present generation that is serialized, or one already being renamed, was serialized after the last
flush that met no rename: such a flush finds no rename to race with, and whatever is at an earlier await
is of an older generation from then on. For the refinement, `StoreInv` adds that no write is ahead of the
state in memory, so that each rename is a `Save` of `DurableStore`. Neither needs a bound on the number of
writes that overlap.

**PaneQueue.** The queues are sequences, and what a release leaves of one is written without recursion: `Kept`
are the places that stay, `Place` counts them, `Without` is the token at each count. The lemmas say once what
the rest needs: the tokens that are left are those outside of the released set (`WithoutKeeps`), none is there
twice (`WithoutInjective`), and who is first stays first unless released (`WithoutHolds`). Each step is then one that takes
tokens away (`Thinned`) or adds one (`Joined`).

The three properties need three invariants, since none is inductive. `TurnInv`: a prompt that lies in a pane was written by
the step that holds the pane, which has not seen the agent at work since; a step about to write finds
the pane empty and idle, because nobody else could write after its own look at the status; and the hooks
say working or waiting just when there is a turn. That gives `OneLivePrompt`. `DriveInv`: until its step ends, the
prompt's pane is held by it and the agent at work on nothing else, so a done report that `Believes` lets through (the step opened
the pane, or has seen the agent at work since it wrote) is about its own prompt. `TokenInv`: whose token is in
a queue is live or pending in a run that goes on, polls that very pane or was last told to use it and would be told so
again (the pane that its `Ref` has published is the same, since `OrderInv` keeps what is before a started step done), and
a pending one, left by a retry, is the next step of its run. So a step that settles cannot end a run over a token that is
left, and every release hits the one queue the step is in. `RetryStays` excludes the retry of section 2.4 that makes this
false: `\A s \in Retryable : \A u \in Later(s) \ Siblings(s) : OwnPane(u)`; retries of a group, of one of its
members and of any step with only own panes after it are covered. TLC checked the invariants before they were proved, on instances of up to
five steps, three panes and three interferences.

**AutoTrigger.** `FiredInv`: a pair without a row has not fired, which is why the row is flushed before the
dispatch. `AnchorInv`: an anchor that carries the present schedule's signature is an instant of
that schedule after the trigger was set up, unless the schedule has none to come. `PendingInv` and `PollInv`: what is owed came after the
watermark, and during a poll it is in the batch, the oldest watermark of the group being
at most that of each trigger; this needs every enabled trigger of the source in the group,
no change during the poll and no cut.

**WatchPr.** `CycleInv`: a cycle at work is named by the saved progress and, if there is one, by the tracker,
of a live run; while a batch is put together there is none; and a sweep during a cycle that
is at work has seen it at work, although it asked before its awaits. `ReadInv`: cursor and watermark
are at reviews that are there, everything up to the cursor was given to a cycle, reviews come in the
order of their ids, and the payload of a batch covers what lies between a member's cursor
and its watermark. That last part is what the order of the code is for: the cursor is moved after
the payload is built, and to the watermark of the sweep and not to what is newest by then.

**Only model-checked.** `ActiveRunSettles`, `TasksSettle`, `ChangesAreSaved`, `LiveStepsSettle`, `IssuesAreHandled`, `ReviewsAreAnswered` and `SettledEndsWatch`, since TLAPS has no liveness under fairness and no
`ENABLED`. Induction over data and `RECURSIVE` operators are out of its reach too; no
module here needs them (the rows of a run are a function, not a recursion).

## 5. Not modelled

Every part of the repository with its reason is in `PROJECT.json`. In short: the other
runners' insides (one awaited call each, or one more polling loop), child and detached runs apart
from watch-pr's cycles, message threads, resets and restarts of orchestration, the daemon, ssh and the
relay, the renderer, and everything that is parsing, rendering or a thin wrapper of an external
program. The greater part of the repository is of that last kind.

Known to be outside of the models, and not covered by a property: edits of a chain
under an active run; two runner calls of one step, after a group member threw and the group was retried; a paused run that is
retried and stays paused; a parallel sibling whose result is lost by a crash before its group settles
(it runs again); a task created after its dependencies were completed, or one
whose dependency failed, which stays pending; a coordinator's row that says running after a
restart; a reset under a running coordinator; a crash between the two database statements of a
promotion; messages of the coordinator marked read by somebody's `check`; more than 100 reviews on
a pull request.

## 6. Plan

Done, in this order: `AutomationRuns`, `OrchestrationDb`, `Orchestration`, `TaskGraph` with their
proofs, the refinement included; `StoreWrites` and `DurableStore` with proofs; `PaneQueue`, `AutoTrigger` and `WatchPr` with proofs.

1. `DaemonSession`: sessions, attach and detach, history, the ready-flush gate and the priority
   semaphore (`main/daemon/`).
2. `RunLifecycle`: the abstract life of one run (absent, active, settled; steps only ever
   move forward between retries), refined by `AutomationRuns` without cancels in flight, and the
   interface that `WatchPr` and `PaneQueue` assume of it.
3. Proofs: `VerdictsFit` with retries between ticks; `StepsInOrder` with throwing group members where nothing is retried.
