------------------------------ MODULE AutoTrigger ------------------------------
(***************************************************************************)
(* The engine that starts runs by itself                                   *)
(* (src/main/automations/auto-trigger-engine.ts with its trigger sources,  *)
(* the watermarks of src/main/index.ts and the dedup rows of the store).   *)
(*                                                                         *)
(* A tick polls the triggers that are enabled when it starts: each HTTP    *)
(* trigger on its own, then the schedules, then all triggers of a shared   *)
(* source (Linear, GitHub) with one query for what has changed since the   *)
(* source's watermark.  Watermark and schedule anchors are in memory only; *)
(* the row that says that a trigger has fired for an entity is flushed to  *)
(* disk before the run is dispatched.                                      *)
(*                                                                         *)
(* There is one shared source.  Whether an HTTP trigger's interval has     *)
(* elapsed when a tick starts is left open, and it has no rules, so that   *)
(* every item matches.  A tick works on the settings as they were when it  *)
(* started: a change of them during a tick is one that comes after it.     *)
(***************************************************************************)
EXTENDS Integers, FiniteSets

CONSTANTS
  Shared, Http, Timed, \* the triggers, by the kind of their source
  Issues,       \* what the sources report
  Crons,        \* the schedules an operator may set,
  NoCron,       \* none of them,
  Occurs,       \* and the instants of each; there may be none (30 February)
  MaxLateness,  \* SCHEDULE_MAX_LATENESS_MS
  MaxPages,     \* how many events one poll of a shared source can report
  Mishaps,      \* what may happen, out of AllMishaps
  MaxClock,     \* bound: the last instant
  MaxChanges    \* bound: how often an operator or a restart interferes

Triggers == Shared \cup Http \cup Timed

\* An issue changes while its source is polled; a shared source is not reached,
\* which it keeps to itself; a dispatch throws before the other triggers have
\* seen the event.
AllMishaps == {"change during poll", "outage", "throw"}

ASSUME TriggersAssumption ==
  /\ Shared \cap Http = {} /\ Shared \cap Timed = {} /\ Http \cap Timed = {}
  /\ IsFiniteSet(Shared) /\ IsFiniteSet(Issues)
  /\ NoCron \notin Crons
  /\ Occurs \in [Crons \cup {NoCron} -> SUBSET (Nat \ {0})] /\ Occurs[NoCron] = {}
  /\ Issues \cap Nat = {}
  /\ MaxLateness \in Nat /\ MaxPages \in Nat \ {0}
  /\ Mishaps \subseteq AllMishaps
  /\ MaxClock \in Nat \ {0} /\ MaxChanges \in Nat

VARIABLES
  clock,
  updated,    \* when an issue was changed last; 0 before it exists
  matches,    \* the shared triggers whose rules an issue satisfies
  enabledAt,  \* when a trigger was set up; 0 before
  enabled,    \* the triggers that are switched on
  cron,       \* the schedule of a trigger as it is configured
  todo,       \* the triggers that the present tick has not polled yet
  poll,       \* the poll under way
  lastPoll,   \* the watermark of the shared source
  nextRun,    \* the next instant of a schedule; 0 if there is no anchor
  anchorSig,  \* the schedule that the anchor was computed for
  dedup,      \* the rows on disk: pairs of a trigger and an issue or instant
  fired,      \* history: the runs of such a pair since its row was last cleared
  owed,       \* history: issues that came to match a trigger that is on
  changes     \* how often an operator or a restart has interfered

vars == <<clock, updated, matches, enabledAt, enabled, cron, todo, poll,
          lastPoll, nextRun, anchorSig, dedup, fired, owed, changes>>
world  == <<clock, updated, matches>>
setup  == <<enabledAt, enabled, cron>>
engine == <<todo, poll, lastPoll, nextRun, anchorSig>>

Instants == 1..MaxClock
Pairs == (Shared \cup Http) \X Issues \cup Timed \X Instants

Event == [issue : Issues, at : 1..MaxClock, matches : SUBSET Shared]
NoPoll == [group |-> {}, since |-> 0, batch |-> {}]

TypeOK ==
  /\ clock \in 1..MaxClock
  /\ updated \in [Issues -> 0..MaxClock]
  /\ matches \in [Issues -> SUBSET Shared]
  /\ enabledAt \in [Triggers -> 0..MaxClock]
  /\ enabled \subseteq Triggers
  /\ cron \in [Timed -> Crons \cup {NoCron}]
  /\ todo \subseteq Triggers
  /\ poll \in [group : SUBSET (Shared \cup Http), since : 0..MaxClock, batch : SUBSET Event]
  /\ lastPoll \in 0..MaxClock
  /\ nextRun \in [Timed -> Nat]
  /\ anchorSig \in [Timed -> Crons \cup {NoCron}]
  /\ dedup \subseteq Pairs
  /\ fired \in [Pairs -> Nat]
  /\ owed \subseteq Shared \X Issues
  /\ changes \in 0..MaxChanges

Init ==
  /\ clock = 1
  /\ updated = [e \in Issues |-> 0]
  /\ matches = [e \in Issues |-> {}]
  /\ enabledAt = [t \in Triggers |-> 0]
  /\ enabled = {}
  /\ cron = [t \in Timed |-> NoCron]
  /\ todo = {}
  /\ poll = NoPoll
  /\ lastPoll = 0
  /\ nextRun = [t \in Timed |-> 0]
  /\ anchorSig = cron
  /\ dedup = {}
  /\ fired = [p \in Pairs |-> 0]
  /\ owed = {}
  /\ changes = 0

Later(i, j) == IF i >= j THEN i ELSE j

Polling == poll # NoPoll
Ticking == todo # {} \/ Polling

-----------------------------------------------------------------------------
(* Firing *)

\* The dedup rows are written first: a dispatch that throws, or a crash that
\* comes before it, leaves the row behind.
Fire(rows, failed) ==
  /\ dedup' = dedup \cup rows
  /\ fired' = [p \in Pairs |-> IF p \in rows \ failed THEN fired[p] + 1 ELSE fired[p]]
  /\ owed' = owed \ rows

-----------------------------------------------------------------------------
(* A tick *)

StartTick ==
  /\ ~Ticking
  /\ \E due \in SUBSET Http : todo' = enabled \cap (due \cup Shared \cup Timed)
  /\ todo' # {}
  /\ UNCHANGED <<world, setup, poll, lastPoll, nextRun, anchorSig, dedup, fired, owed, changes>>

Events(issues) ==
  {[issue |-> e, at |-> updated[e], matches |-> matches[e]] : e \in issues}

\* An HTTP trigger's endpoint returns all there is; or it fails.
PollHttp(t) ==
  /\ ~Polling /\ t \in todo \cap Http
  /\ todo' = todo \ {t}
  /\ \/ poll' = [group |-> {t}, since |-> 0,
                 batch |-> Events({e \in Issues : updated[e] > 0})]
     \/ UNCHANGED poll
  /\ UNCHANGED <<world, setup, lastPoll, nextRun, anchorSig, dedup, fired, owed, changes>>

\* nextOccurrenceAfter(c, time) is the first of these, or null.
Coming(c, time) == {i \in Occurs[c] : i > time}

\* A null leaves the next run as it was.
SetNext(t, time) ==
  LET coming == Coming(cron[t], time) IN
  IF coming = {} THEN UNCHANGED nextRun
  ELSE \E next \in coming : /\ \A i \in coming : next <= i
                            /\ nextRun' = [nextRun EXCEPT ![t] = next]

\* A fresh process, or a schedule that has been edited, starts anew: the anchor is
\* put down to the present schedule even if that has no instant to set it to.
Unanchored_FreshOnly(t) == nextRun[t] = 0
Unanchored(t) == nextRun[t] = 0 \/ anchorSig[t] # cron[t]

PollSchedule(t) ==
  LET i == nextRun[t] IN
  /\ ~Polling /\ t \in todo \cap Timed /\ todo \cap Http = {}
  /\ todo' = todo \ {t}
  /\ \/ /\ Unanchored(t)
        /\ anchorSig' = [anchorSig EXCEPT ![t] = cron[t]]
        /\ SetNext(t, Later(clock, enabledAt[t]))
        /\ UNCHANGED <<dedup, fired, owed>>
     \/ /\ ~Unanchored(t) /\ clock < i
        /\ UNCHANGED <<nextRun, anchorSig, dedup, fired, owed>>
     \/ /\ ~Unanchored(t) /\ clock >= i
        /\ SetNext(t, clock)
        /\ UNCHANGED anchorSig
        /\ IF clock - i > MaxLateness
           THEN UNCHANGED <<dedup, fired, owed>>
           ELSE \E failed \in SUBSET {<<t, i>>} : Fire({<<t, i>>} \ dedup, failed)
  /\ UNCHANGED <<world, setup, poll, lastPoll, changes>>

Watermarks(group) == {Later(enabledAt[t], lastPoll) : t \in group}

\* since is the oldest watermark of the group.
IsSince_Newest(since, group) ==
  since \in Watermarks(group) /\ \A w \in Watermarks(group) : since >= w
IsSince(since, group) ==
  since \in Watermarks(group) /\ \A w \in Watermarks(group) : since <= w

\* As many events as fit, the oldest ones.
Pages(evs) ==
  IF Cardinality(evs) <= MaxPages THEN {evs}
  ELSE {b \in SUBSET evs : /\ Cardinality(b) = MaxPages
                           /\ \A x \in b, y \in evs \ b : x.at <= y.at}

PollShared ==
  /\ ~Polling /\ todo # {} /\ todo \subseteq Shared
  /\ todo' = {}
  /\ \E since \in 0..MaxClock :
       /\ IsSince(since, todo)
       /\ \/ \E b \in Pages(Events({e \in Issues : updated[e] > 0 /\ updated[e] >= since})) :
               poll' = [group |-> todo, since |-> since, batch |-> b]
          \/ /\ "outage" \in Mishaps
             /\ poll' = [group |-> todo, since |-> since, batch |-> {}]
  /\ UNCHANGED <<world, setup, lastPoll, nextRun, anchorSig, dedup, fired, owed, changes>>

\* The triggers of the group for which an event is new.
Fires_Again(ev) ==
  {t \in poll.group : t \in Shared => /\ ev.at > poll.since /\ ev.at >= enabledAt[t]
                                      /\ t \in ev.matches}
Fires_First(ev) == \* the first trigger that matches takes the event
  LET ts == {t \in poll.group : /\ <<t, ev.issue>> \notin dedup
                                /\ t \in Shared => ev.at > poll.since /\ t \in ev.matches}
  IN IF ts = {} THEN {} ELSE {CHOOSE t \in ts : TRUE}
Fires(ev) ==
  {t \in poll.group : /\ <<t, ev.issue>> \notin dedup
                      /\ t \in Shared => /\ ev.at > poll.since /\ ev.at >= enabledAt[t]
                                         /\ t \in ev.matches}

\* The keys of the dedup rows.
Rows_Swapped(ts, e) == {e} \X ts
Rows(ts, e) == ts \X {e}

\* One event, all triggers of the group; a dispatch that throws ends it.
HandleEvent(ev) ==
  /\ ev \in poll.batch
  /\ \E unseen \in SUBSET Fires(ev) : \E failed \in SUBSET (Fires(ev) \ unseen) :
       /\ Cardinality(failed) <= 1
       /\ unseen # {} => failed # {} /\ "throw" \in Mishaps
       /\ Fire(Rows(Fires(ev) \ unseen, ev.issue), Rows(failed, ev.issue))
  /\ poll' = [poll EXCEPT !.batch = @ \ {ev}]
  /\ UNCHANGED <<world, setup, todo, lastPoll, nextRun, anchorSig, changes>>

\* The watermark is set to the present time.
EndPoll ==
  /\ Polling /\ poll.batch = {}
  /\ poll' = NoPoll
  /\ lastPoll' = IF poll.group \subseteq Shared THEN clock ELSE lastPoll
  /\ UNCHANGED <<world, setup, todo, nextRun, anchorSig, dedup, fired, owed, changes>>

-----------------------------------------------------------------------------
(* What happens around the engine *)

\* Time goes by while an issue is written, so that no two of them, and no issue
\* and the end of a poll, fall into one millisecond.
Update(e) ==
  /\ clock < MaxClock
  /\ Polling => "change during poll" \in Mishaps
  /\ clock' = clock + 1
  /\ updated' = [updated EXCEPT ![e] = clock']
  /\ \E ts \in SUBSET Shared :
       /\ matches' = [matches EXCEPT ![e] = ts]
       /\ owed' = (owed \ (Shared \X {e})) \cup
                  (((ts \cap enabled) \X {e}) \ dedup)
  /\ UNCHANGED <<setup, engine, dedup, fired, changes>>

Wait ==
  /\ clock < MaxClock
  /\ clock' = clock + 1
  /\ UNCHANGED <<updated, matches, setup, engine, dedup, fired, owed, changes>>

Change == changes < MaxChanges /\ changes' = changes + 1

SetUp(t) ==
  /\ enabledAt[t] = 0
  /\ ~Ticking
  /\ enabledAt' = [enabledAt EXCEPT ![t] = clock]
  /\ enabled' = enabled \cup {t}
  /\ IF t \in Timed THEN \E c \in Crons : cron' = [cron EXCEPT ![t] = c] ELSE UNCHANGED cron
  /\ UNCHANGED <<world, engine, dedup, fired, owed, changes>>

\* enabledAt stays as it is.
Toggle(t) ==
  /\ enabledAt[t] # 0
  /\ ~Ticking
  /\ Change
  /\ enabled' = IF t \in enabled THEN enabled \ {t} ELSE enabled \cup {t}
  /\ owed' = owed \ ({t} \X Issues)
  /\ UNCHANGED <<world, enabledAt, cron, engine, dedup, fired>>

EditSchedule(t) ==
  /\ enabledAt[t] # 0
  /\ ~Ticking
  /\ Change
  /\ \E c \in Crons \ {cron[t]} : cron' = [cron EXCEPT ![t] = c]
  /\ UNCHANGED <<world, enabledAt, enabled, engine, dedup, fired, owed>>

ClearDedup(p) ==
  /\ p \in dedup
  /\ Change
  /\ dedup' = dedup \ {p}
  /\ fired' = [fired EXCEPT ![p] = 0]
  /\ UNCHANGED <<world, setup, engine, owed>>

Restart ==
  /\ Change
  /\ todo' = {}
  /\ poll' = NoPoll
  /\ lastPoll' = 0
  /\ nextRun' = [t \in Timed |-> 0]
  /\ anchorSig' = [t \in Timed |-> NoCron]
  /\ UNCHANGED <<world, setup, dedup, fired, owed>>

-----------------------------------------------------------------------------
Engine ==
  \/ StartTick \/ PollShared \/ EndPoll
  \/ \E t \in Http : PollHttp(t)
  \/ \E t \in Timed : PollSchedule(t)
  \/ \E ev \in poll.batch : HandleEvent(ev)

Next ==
  \/ Engine
  \/ Wait \/ Restart
  \/ \E e \in Issues : Update(e)
  \/ \E t \in Triggers : SetUp(t) \/ Toggle(t)
  \/ \E t \in Timed : EditSchedule(t)
  \/ \E p \in dedup : ClearDedup(p)

Spec == Init /\ [][Next]_vars

\* The timer goes on, and every poll answers or fails some time.
FairSpec == Spec /\ WF_vars(Engine)

-----------------------------------------------------------------------------
(* Properties *)

\* However often an entity is reported, and whatever is lost by a restart, a
\* trigger starts at most one run for it until its row is cleared
\* (docs/plans/2026-05-22-auto-triggers-design.md:19).
FiresOnce == \A p \in Pairs : fired[p] <= 1

\* What a trigger has to fire for is ahead of the watermark, so that the next
\* poll will report it (auto-trigger-engine.ts:167).
NothingMissed == \A p \in owed : updated[p[2]] > lastPoll

\* A schedule fires only for instants that came after it was set up, and soon after
\* them, however it was edited, switched off or restarted before; and only for
\* those of its present schedule, unless that has none to come: then the one it had
\* last may still fire, although the edit is said to rule it out
\* (auto-trigger-engine.ts:294).
FiresFresh ==
  [][\A t \in Timed, i \in Instants :
       fired'[<<t, i>>] > fired[<<t, i>>] =>
         /\ i \in Occurs[cron[t]] \/ Coming(cron[t], clock) = {}
         /\ enabledAt[t] < i /\ i <= clock /\ clock <= i + MaxLateness]_vars

\* When the issues do not change any more, every trigger has soon fired for all
\* it has to fire for.
IssuesAreHandled == (clock = MaxClock) ~> (owed = {})
=============================================================================
