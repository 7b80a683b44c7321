-------------------------------- MODULE WatchPr --------------------------------
(***************************************************************************)
(* A watch-pr step                                                         *)
(* (src/main/automations/runners/watch-pr-runner.ts with the child runs,   *)
(* cancel and retry of src/main/automations/service.ts).                   *)
(*                                                                         *)
(* The step watches the pull requests of one or more members.  Tick by     *)
(* tick it reads their states and reviews; when there are new reviews and  *)
(* the agent has been idle for a while, it spawns a cycle: a child run     *)
(* that answers them.  It waits for the cycle, then watches on, until      *)
(* every pull request is settled or the workspace is archived.             *)
(*                                                                         *)
(* What a tick knows is in a tracker in memory; a copy of it is put into   *)
(* the step's row when the tick ends, and to disk with it.  Every read of  *)
(* GitHub is awaited, so that reviews, operators and the end of a cycle    *)
(* come in between.                                                        *)
(*                                                                         *)
(* Reviews are those that match the configured events, and are there from  *)
(* when a read can return them (reads are cached for a minute).  The       *)
(* members are those with a linked pull request: a tick that waits for     *)
(* links changes nothing.  Pausing the run is left out.                    *)
(***************************************************************************)
EXTENDS Integers, Sequences, FiniteSets

CONSTANTS
  Members,       \* the pull requests
  Ids,           \* review ids
  Outcomes,      \* the states a pull request can get into
  EndOnApprove, FailedCycleHalts,  \* the step's configuration
  Debounce,      \* ... whether an agent that is idle has to stay so for a while
  Mishaps,       \* what may happen, out of AllMishaps
  Cycles,        \* bound: the child runs there can be
  MaxReviews,    \* bound: the reviews there can be
  MaxMishaps     \* bound: how often something interferes

\* A review is submitted after one with a higher id; the step is retried while
\* it is ticked; the app crashes after a cycle was spawned, before the row that
\* names it is written.
AllMishaps == {"late submission", "retry during tick", "crash after spawn"}

ASSUME WatchAssumption ==
  /\ IsFiniteSet(Members) /\ Members # {}
  /\ Ids \subseteq Nat \ {0}
  /\ Outcomes \subseteq {"APPROVED", "MERGED", "CLOSED"}
  /\ EndOnApprove \in BOOLEAN /\ FailedCycleHalts \in BOOLEAN /\ Debounce \in BOOLEAN
  /\ Mishaps \subseteq AllMishaps
  /\ Cycles \subseteq Nat \ {0}
  /\ MaxReviews \in Nat /\ MaxMishaps \in Nat

VARIABLES
  reviews,   \* the reviews of each pull request, in the order of submission
  prState,   \* the state of each
  archived,  \* the workspace has been archived
  busy,      \* the agent is at work
  run,       \* the status of the run that the step belongs to
  saved,     \* the progress in the step's row
  tracker,   \* the progress in memory
  mapped,    \* the runner knows the tracker
  idleSeen,  \* the agent was idle when it was last asked
  due,       \* the poll interval has elapsed
  tick,      \* the tick under way
  child,     \* the status of each child run
  answered,  \* history: the reviews given to a cycle since the last retry
  mishaps    \* how often something has interfered

vars == <<reviews, prState, archived, busy, run, saved, tracker, mapped, idleSeen,
          due, tick, child, answered, mishaps>>
world == <<reviews, prState, archived, busy>>

Settled_Merged == [OPEN |-> "open", APPROVED |-> IF EndOnApprove THEN "approved" ELSE "open",
                   MERGED |-> "merged", CLOSED |-> "open"]
Settled == [OPEN |-> "open", APPROVED |-> IF EndOnApprove THEN "approved" ELSE "open",
            MERGED |-> "merged", CLOSED |-> "closed"]

Progress ==
  [phase : {"resolving", "watching", "responding"},
   cursor : [Members -> Ids \cup {0}], watermark : [Members -> Ids \cup {0}],
   dirty : SUBSET Members, settled : [Members -> {"open", "approved", "merged", "closed"}],
   child : Cycles \cup {0}]

\* row: the row that the tick will write to is still part of the run.
Tick ==
  [pc : {"none", "resolve", "sweep", "build"},
   todo : SUBSET Members, listing : SUBSET Members, batch : SUBSET Members,
   payload : [Members -> SUBSET Ids], status : {"none", "active", "completed", "failed"},
   row : BOOLEAN]

TypeOK ==
  /\ reviews \in [Members -> Seq(Ids)]
  /\ prState \in [Members -> DOMAIN Settled]
  /\ archived \in BOOLEAN /\ busy \in BOOLEAN
  /\ run \in {"live", "cancelled", "failed", "done"}
  /\ saved \in Progress /\ tracker \in Progress
  /\ mapped \in BOOLEAN /\ idleSeen \in BOOLEAN /\ due \in BOOLEAN
  /\ tick \in Tick
  /\ child \in [Cycles -> {"none", "active", "completed", "failed"}]
  /\ answered \in [Members -> SUBSET Ids]
  /\ mishaps \in 0..MaxMishaps

Fresh == [phase |-> "resolving", cursor |-> [m \in Members |-> 0],
          watermark |-> [m \in Members |-> 0], dirty |-> {},
          settled |-> [m \in Members |-> "open"], child |-> 0]
Nothing == [m \in Members |-> {}]
NoTick == [pc |-> "none", todo |-> {}, listing |-> {}, batch |-> {},
           payload |-> Nothing, status |-> "none", row |-> TRUE]

Init ==
  /\ reviews = [m \in Members |-> <<>>]
  /\ prState = [m \in Members |-> "OPEN"]
  /\ archived = FALSE /\ busy = FALSE
  /\ run = "live"
  /\ saved = Fresh /\ tracker = Fresh
  /\ mapped = FALSE /\ idleSeen = FALSE /\ due = TRUE
  /\ tick = NoTick
  /\ child = [c \in Cycles |-> "none"]
  /\ answered = Nothing
  /\ mishaps = 0

Listed(m) == {reviews[m][i] : i \in DOMAIN reviews[m]}

\* The tracker of the next or present tick: rehydrated if the runner has none.
Current == IF mapped \/ tick # NoTick THEN tracker ELSE saved

OpenOf(p) == {m \in Members : p.settled[m] = "open"}
DirtyOpen(p) == p.dirty \cap OpenOf(p)

Mishap == mishaps < MaxMishaps /\ mishaps' = mishaps + 1

Cancelled_Raw(ch) == [c \in Cycles |-> IF ch[c] = "active" THEN "cancelled" ELSE ch[c]]
Cancelled_Not(ch) == ch
\* A cancelled child run counts as a failed one (getChildRunStatus).
Cancelled(ch) == [c \in Cycles |-> IF ch[c] = "active" THEN "failed" ELSE ch[c]]

-----------------------------------------------------------------------------
(* How a tick ends *)

\* The row of a run that was cancelled during the tick waits again, and so does
\* the run.
NeedsMoreTime(p) ==
  /\ tick' = NoTick
  /\ tracker' = p
  /\ saved' = IF tick.row THEN p ELSE saved
  /\ run' = IF tick.row THEN "live" ELSE run

Done(p, endChain) ==
  /\ tick' = NoTick
  /\ tracker' = p
  /\ child' = Cancelled(child)
  /\ run' = IF tick.row \/ endChain THEN "done" ELSE run
  /\ UNCHANGED saved

CycleFailed(p) ==
  /\ tick' = NoTick
  /\ tracker' = p
  /\ run' = "failed"
  /\ UNCHANGED saved

-----------------------------------------------------------------------------
(* A tick *)

\* An open member is looked at unless the workspace was archived.
StartSweep(p, status) ==
  IF archived /\ OpenOf(p) # {}
  THEN Done(p, TRUE)
  ELSE /\ tick' = [tick EXCEPT !.pc = "sweep", !.todo = OpenOf(p), !.status = status]
       /\ tracker' = p
       /\ UNCHANGED <<saved, run, child>>

\* Fire when the agent is idle and, if there is a debounce time, was so when it
\* was asked before; a tick within that time changes nothing.
Gate(p) ==
  IF DirtyOpen(p) = {} \/ p.child # 0
  THEN NeedsMoreTime(p) /\ UNCHANGED idleSeen
  ELSE IF busy \/ (Debounce /\ ~idleSeen)
  THEN NeedsMoreTime(p) /\ idleSeen' = ~busy
  ELSE /\ tick' = [tick EXCEPT !.pc = "build", !.todo = DirtyOpen(p)]
       /\ tracker' = p
       /\ idleSeen' = TRUE
       /\ UNCHANGED <<saved, run>>

Respond_Keep(p, status) ==
  IF status = "active" THEN NeedsMoreTime(p)
  ELSE IF status = "failed" /\ FailedCycleHalts THEN CycleFailed(p)
  ELSE NeedsMoreTime([p EXCEPT !.phase = "watching"])
Respond(p, status) ==
  IF status = "active" THEN NeedsMoreTime(p)
  ELSE IF status = "failed" /\ FailedCycleHalts THEN CycleFailed(p)
  ELSE NeedsMoreTime([p EXCEPT !.child = 0, !.phase = "watching"])

StatusOf(p) == IF p.child = 0 THEN "none" ELSE child[p.child]

\* A new tracker polls at once and has not seen the agent idle.
Begin ==
  /\ run = "live" /\ tick = NoTick
  /\ mapped' = TRUE
  /\ UNCHANGED <<world, answered, mishaps>>

BeginResolve ==
  /\ Begin /\ Current.phase = "resolving"
  /\ tick' = [tick EXCEPT !.pc = "resolve"]
  /\ tracker' = Current
  /\ idleSeen' = (idleSeen /\ mapped)
  /\ UNCHANGED <<run, saved, due, child>>

BeginSweep ==
  /\ Begin /\ Current.phase # "resolving" /\ (due \/ ~mapped)
  /\ due' = FALSE
  /\ idleSeen' = (idleSeen /\ mapped)
  /\ StartSweep(Current, StatusOf(Current))

BeginGate ==
  /\ Begin /\ Current.phase = "watching" /\ ~due /\ mapped
  /\ Gate(Current)
  /\ UNCHANGED <<due, child>>

BeginRespond ==
  /\ Begin /\ Current.phase = "responding" /\ ~due /\ mapped
  /\ Respond(Current, StatusOf(Current))
  /\ UNCHANGED <<idleSeen, due, child>>

Resolve ==
  /\ tick.pc = "resolve"
  /\ due' = FALSE
  /\ StartSweep([tracker EXCEPT !.phase = "watching"], "none")
  /\ UNCHANGED <<world, mapped, idleSeen, answered, mishaps>>

\* The state of a member; its reviews are read next if it is open.
SweepMember(m) ==
  LET s == Settled[prState[m]] IN
  /\ tick.pc = "sweep" /\ m \in tick.todo /\ tick.listing = {}
  /\ tracker' = [tracker EXCEPT !.settled[m] = s]
  /\ tick' = [tick EXCEPT !.todo = @ \ {m}, !.listing = IF s = "open" THEN {m} ELSE {}]
  /\ UNCHANGED <<world, run, saved, mapped, idleSeen, due, child, answered, mishaps>>

\* What a cycle has not consumed yet.
News(p, m) == {id \in Listed(m) : id > p.cursor[m]}

\* The watermark is the review that was submitted last.
Newest(p, m, id) ==
  \E i \in DOMAIN reviews[m] :
    /\ id = reviews[m][i] /\ id \in News(p, m)
    /\ \A j \in DOMAIN reviews[m] : j > i => reviews[m][j] \notin News(p, m)

ArmFromReviews(m) ==
  /\ m \in tick.listing
  /\ IF News(tracker, m) = {} THEN UNCHANGED tracker
     ELSE \E id \in Ids :
            /\ Newest(tracker, m, id)
            /\ tracker' = [tracker EXCEPT !.dirty = @ \cup {m}, !.watermark[m] = id]
  /\ tick' = [tick EXCEPT !.listing = {}]
  /\ UNCHANGED <<world, run, saved, mapped, idleSeen, due, child, answered, mishaps>>

EndSweep ==
  /\ tick.pc = "sweep" /\ tick.todo = {} /\ tick.listing = {}
  /\ IF OpenOf(tracker) = {}
     THEN /\ Done(tracker, \E m \in Members : tracker.settled[m] = "closed")
          /\ UNCHANGED idleSeen
     ELSE /\ UNCHANGED child
          /\ IF tracker.phase = "watching" THEN Gate(tracker)
             ELSE Respond(tracker, tick.status) /\ UNCHANGED idleSeen
  /\ UNCHANGED <<world, mapped, due, answered, mishaps>>

\* The reviews of one member that the cycle is given.
BuildMember(m) ==
  /\ tick.pc = "build" /\ m \in tick.todo
  /\ tick' = [tick EXCEPT !.todo = @ \ {m}, !.batch = @ \cup {m},
                          !.payload[m] = News(tracker, m)]
  /\ UNCHANGED <<world, run, saved, tracker, mapped, idleSeen, due, child, answered, mishaps>>

Consumed_All(p, batch) ==  \* all that is there now
  [m \in Members |-> IF m \in batch /\ reviews[m] # <<>>
                     THEN reviews[m][Len(reviews[m])] ELSE p.cursor[m]]
Consumed(p, batch) ==
  [m \in Members |-> IF m \in batch THEN p.watermark[m] ELSE p.cursor[m]]

Unused == {c \in Cycles : child[c] = "none"}

\* The child run is on disk at once; the row that names it follows, unless the
\* app crashes in between.
Spawn ==
  LET batch == tick.batch IN
  /\ tick.pc = "build" /\ tick.todo = {}
  /\ \E c \in Unused :
       LET p == [tracker EXCEPT !.cursor = Consumed(tracker, batch),
                                !.dirty = @ \ batch,
                                !.child = c, !.phase = "responding"] IN
       /\ \A d \in Unused : c <= d
       /\ child' = [child EXCEPT ![c] = "active"]
       /\ \/ NeedsMoreTime(p) /\ UNCHANGED <<mapped, mishaps>>
          \/ /\ "crash after spawn" \in Mishaps /\ Mishap
             /\ tick' = NoTick /\ tracker' = p /\ mapped' = FALSE
             /\ UNCHANGED <<saved, run>>
  /\ answered' = [m \in Members |-> answered[m] \cup tick.payload[m]]
  /\ idleSeen' = FALSE
  /\ UNCHANGED <<world, due>>

-----------------------------------------------------------------------------
(* Errors, operators, restarts *)

\* A read fails, and the whole run with it.
Throws ==
  /\ tick # NoTick
  /\ Mishap
  /\ tick' = NoTick
  /\ run' = "failed"
  /\ child' = Cancelled(child)
  /\ UNCHANGED <<world, saved, tracker, mapped, idleSeen, due, answered>>

CancelRun ==
  /\ run = "live"
  /\ Mishap
  /\ run' = "cancelled"
  /\ mapped' = FALSE
  /\ child' = Cancelled(child)
  /\ UNCHANGED <<world, saved, tracker, idleSeen, due, tick, answered>>

\* A retry of the step, or of one before it: the row is dropped, and with it
\* the tracker and all cycles.
RetryRunFromStep ==
  /\ tick # NoTick => "retry during tick" \in Mishaps
  /\ Mishap
  /\ run' = "live"
  /\ saved' = Fresh
  /\ mapped' = FALSE
  /\ child' = Cancelled(child)
  /\ tick' = IF tick = NoTick THEN NoTick ELSE [tick EXCEPT !.row = FALSE]
  /\ answered' = Nothing
  /\ UNCHANGED <<world, tracker, idleSeen, due>>

Restart ==
  /\ Mishap
  /\ tick' = NoTick
  /\ mapped' = FALSE
  /\ UNCHANGED <<world, run, saved, tracker, idleSeen, due, child, answered>>

-----------------------------------------------------------------------------
(* What happens around the step *)

Interval ==
  /\ ~due
  /\ due' = TRUE
  /\ UNCHANGED <<world, run, saved, tracker, mapped, idleSeen, tick, child, answered, mishaps>>

Submit(m, id) ==
  /\ Cardinality({p \in Members \X Ids : p[2] \in Listed(p[1])}) < MaxReviews
  /\ id \notin Listed(m)
  /\ "late submission" \notin Mishaps => \A j \in Ids \ Listed(m) : id <= j
  /\ reviews' = [reviews EXCEPT ![m] = Append(@, id)]
  /\ UNCHANGED <<prState, archived, busy, run, saved, tracker, mapped, idleSeen, due,
                 tick, child, answered, mishaps>>

PRChanges(m) ==
  /\ prState[m] \in {"OPEN", "APPROVED"}
  /\ \E s \in (Outcomes \cup {"OPEN"}) \ {prState[m]} : prState' = [prState EXCEPT ![m] = s]
  /\ UNCHANGED <<reviews, archived, busy, run, saved, tracker, mapped, idleSeen, due,
                 tick, child, answered, mishaps>>

Archive ==
  /\ ~archived
  /\ Mishap
  /\ archived' = TRUE
  /\ UNCHANGED <<reviews, prState, busy, run, saved, tracker, mapped, idleSeen, due,
                 tick, child, answered>>

AgentStarts ==
  /\ ~busy
  /\ Mishap
  /\ busy' = TRUE
  /\ UNCHANGED <<reviews, prState, archived, run, saved, tracker, mapped, idleSeen, due,
                 tick, child, answered>>

AgentStops ==
  /\ busy
  /\ busy' = FALSE
  /\ UNCHANGED <<reviews, prState, archived, run, saved, tracker, mapped, idleSeen, due,
                 tick, child, answered, mishaps>>

ChildEnds(c) ==
  /\ child[c] = "active"
  /\ \E s \in {"completed", "failed"} : child' = [child EXCEPT ![c] = s]
  /\ UNCHANGED <<world, run, saved, tracker, mapped, idleSeen, due, tick, answered, mishaps>>

-----------------------------------------------------------------------------
RunnerTick ==
  \/ BeginResolve \/ BeginSweep \/ BeginGate \/ BeginRespond
  \/ Resolve \/ EndSweep \/ Spawn
  \/ \E m \in Members : SweepMember(m) \/ ArmFromReviews(m) \/ BuildMember(m)

Next ==
  \/ RunnerTick
  \/ Throws \/ CancelRun \/ RetryRunFromStep \/ Restart
  \/ Interval \/ Archive \/ AgentStarts \/ AgentStops
  \/ \E m \in Members : PRChanges(m) \/ \E id \in Ids : Submit(m, id)
  \/ \E c \in Cycles : ChildEnds(c)

Spec == Init /\ [][Next]_vars

\* Ticks go on, reads answer or fail, a cycle ends and the agent gets idle.
FairSpec ==
  /\ Spec
  /\ WF_vars(RunnerTick) /\ WF_vars(Interval) /\ WF_vars(AgentStops)
  /\ \A c \in Cycles : WF_vars(ChildEnds(c))

-----------------------------------------------------------------------------
(* Properties *)

\* A cycle at work is the one that the watch of a live run waits for: there are
\* never two of them, and none goes on when its watch has ended, was cancelled,
\* retried or restarted (service.ts:1545).
NoOrphanCycle ==
  \A c \in Cycles : child[c] = "active" => run = "live" /\ Current.child = c

\* What counts as handled has been given to a cycle (watch-pr-runner.ts:305).
NothingSkipped ==
  \A m \in Members : \A id \in Listed(m) \ answered[m] : id > Current.cursor[m]

\* As long as the run is live, there always comes a time when every review of an
\* open pull request has been given to a cycle, however many come while a cycle
\* is at work (watch-pr-runner.ts:377).
ReviewsAreAnswered ==
  []<>(\/ run # "live"
       \/ \A m \in Members : \/ Listed(m) \subseteq answered[m]
                             \/ Current.settled[m] # "open" \/ prState[m] # "OPEN")

\* When all pull requests are merged or closed, the watch ends.
SettledEndsWatch ==
  (\A m \in Members : prState[m] \in {"MERGED", "CLOSED"}) ~> (run # "live")
================================================================================
