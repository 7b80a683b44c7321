--------------------------- MODULE AutoTriggerProofs ---------------------------
(* Proofs about AutoTrigger.                                                   *)
EXTENDS AutoTrigger, FiniteSetTheorems, TLAPS

USE TriggersAssumption

-----------------------------------------------------------------------------
(* Types *)

LEMMA FireTyped ==
  ASSUME TypeOK, NEW rows \in SUBSET Pairs, NEW failed, Fire(rows, failed)
  PROVE  dedup' \subseteq Pairs /\ fired' \in [Pairs -> Nat] /\ owed' \subseteq Shared \X Issues
BY DEF Fire, TypeOK

LEMMA EventsTyped ==
  ASSUME TypeOK, NEW es \in SUBSET {e \in Issues : updated[e] > 0}
  PROVE  Events(es) \subseteq Event
<1> SUFFICES ASSUME NEW e \in es
             PROVE  [issue |-> e, at |-> updated[e], matches |-> matches[e]] \in Event
  BY DEF Events
<1>1. updated[e] \in 1..MaxClock /\ matches[e] \in SUBSET Shared  BY DEF TypeOK
<1> QED  BY <1>1 DEF Event

\* What a poll reports is part of what there is to report.
LEMMA PagesShrink ==
  ASSUME NEW evs, NEW b \in Pages(evs)
  PROVE  b \subseteq evs
BY DEF Pages

LEMMA RowsTyped ==
  ASSUME TypeOK, NEW ev \in poll.batch, NEW ts \in SUBSET Fires(ev)
  PROVE  Rows(ts, ev.issue) \subseteq Pairs /\ Rows(ts, ev.issue) \cap dedup = {}
<1>1. poll.group \subseteq Shared \cup Http /\ ev \in Event  BY DEF TypeOK
<1>2. ev.issue \in Issues  BY <1>1 DEF Event
<1> QED  BY <1>1, <1>2 DEF Rows, Pairs, Fires

\* A schedule fires for an instant that is there.
LEMMA DueInstant ==
  ASSUME TypeOK, NEW t \in Timed, PollSchedule(t), ~ UNCHANGED <<dedup, fired, owed>>
  PROVE  {<<t, nextRun[t]>>} \ dedup \subseteq Pairs
<1>1. nextRun[t] # 0 /\ clock >= nextRun[t]  BY DEF PollSchedule, Unanchored
<1>2. nextRun[t] \in Nat /\ clock \in 1..MaxClock /\ MaxClock \in Nat  BY DEF TypeOK
<1>3. nextRun[t] \in Instants  BY <1>1, <1>2 DEF Instants
<1> QED  BY <1>3 DEF Pairs

\* The next run is the first occurrence to come, if there is one.
LEMMA NextSet ==
  ASSUME TypeOK, NEW t \in Timed, NEW time, SetNext(t, time)
  PROVE  \/ nextRun' = nextRun /\ Coming(cron[t], time) = {}
         \/ \E next \in Coming(cron[t], time) : nextRun' = [nextRun EXCEPT ![t] = next]
BY DEF SetNext

LEMMA ComingTyped ==
  ASSUME TypeOK, NEW t \in Timed, NEW time, NEW i \in Coming(cron[t], time)
  PROVE  i \in Nat \ {0} /\ i > time /\ i \in Occurs[cron[t]]
BY DEF TypeOK, Coming

LEMMA StepTyped ==
  ASSUME TypeOK, [Next]_vars
  PROVE  TypeOK'
<1> USE DEF TypeOK
<1>1. CASE StartTick
  BY <1>1 DEF StartTick, world, setup, Triggers
<1>2. CASE PollShared
  <2>1. PICK since \in 0..MaxClock, b \in SUBSET Event :
          poll' = [group |-> todo, since |-> since, batch |-> b]
    <3>1. PICK since \in 0..MaxClock :
            \/ \E b \in Pages(Events({e \in Issues : updated[e] > 0 /\ updated[e] >= since})) :
                 poll' = [group |-> todo, since |-> since, batch |-> b]
            \/ poll' = [group |-> todo, since |-> since, batch |-> {}]
      BY <1>2 DEF PollShared
    <3>2. Events({e \in Issues : updated[e] > 0 /\ updated[e] >= since}) \subseteq Event
      BY EventsTyped
    <3> QED  BY <3>1, <3>2, PagesShrink
  <2>2. todo \subseteq Shared \cup Http  BY <1>2 DEF PollShared
  <2> QED  BY <1>2, <2>1, <2>2 DEF PollShared, world, setup
<1>3. CASE EndPoll
  BY <1>3 DEF EndPoll, world, setup, NoPoll
<1>4. ASSUME NEW t \in Http, PollHttp(t) PROVE TypeOK'
  <2>1. Events({e \in Issues : updated[e] > 0}) \subseteq Event  BY EventsTyped
  <2>2. poll' \in [group : SUBSET (Shared \cup Http), since : 0..MaxClock, batch : SUBSET Event]
    BY <1>4, <2>1 DEF PollHttp
  <2> QED  BY <1>4, <2>2 DEF PollHttp, world, setup
<1>5. ASSUME NEW t \in Timed, PollSchedule(t) PROVE TypeOK'
  <2>1. dedup' \subseteq Pairs /\ fired' \in [Pairs -> Nat] /\ owed' \subseteq Shared \X Issues
    <3>1. CASE UNCHANGED <<dedup, fired, owed>>  BY <3>1
    <3>2. CASE ~ UNCHANGED <<dedup, fired, owed>>
      <4>1. PICK failed : Fire({<<t, nextRun[t]>>} \ dedup, failed) /\ ~Unanchored(t)
        BY <1>5, <3>2 DEF PollSchedule
      <4>2. {<<t, nextRun[t]>>} \ dedup \subseteq Pairs
        BY <1>5, <3>2, <4>1, DueInstant
      <4> QED  BY <4>1, <4>2, FireTyped
    <3> QED  BY <3>1, <3>2
  <2>2. nextRun' \in [Timed -> Nat]
    <3>1. nextRun' = nextRun \/ \E time : SetNext(t, time)
      BY <1>5 DEF PollSchedule
    <3>2. nextRun' = nextRun \/ \E next \in Nat : nextRun' = [nextRun EXCEPT ![t] = next]
      BY <3>1, NextSet, ComingTyped
    <3> QED  BY <3>2
  <2>3. anchorSig' \in [Timed -> Crons \cup {NoCron}]
    BY <1>5 DEF PollSchedule
  <2> QED  BY <1>5, <2>1, <2>2, <2>3 DEF PollSchedule, world, setup
<1>6. ASSUME NEW ev \in poll.batch, HandleEvent(ev) PROVE TypeOK'
  <2>1. PICK unseen, failed :
          Fire(Rows(Fires(ev) \ unseen, ev.issue), Rows(failed, ev.issue))
    BY <1>6 DEF HandleEvent
  <2>2. dedup' \subseteq Pairs /\ fired' \in [Pairs -> Nat] /\ owed' \subseteq Shared \X Issues
    BY <2>1, RowsTyped, FireTyped
  <2> QED  BY <1>6, <2>2 DEF HandleEvent, world, setup
<1>7. CASE Wait  BY <1>7 DEF Wait, setup, engine
<1>8. CASE Restart
  BY <1>8 DEF Restart, Change, world, setup, NoPoll
<1>9. ASSUME NEW e \in Issues, Update(e) PROVE TypeOK'
  <2>1. clock' \in 1..MaxClock /\ updated' \in [Issues -> 0..MaxClock]
    <3>1. clock' = clock + 1 /\ clock < MaxClock /\ clock \in 1..MaxClock  BY <1>9 DEF Update
    <3>2. clock' \in 1..MaxClock /\ clock' \in 0..MaxClock  BY <3>1
    <3> QED  BY <1>9, <3>2 DEF Update
  <2>2. PICK ts \in SUBSET Shared :
          /\ matches' = [matches EXCEPT ![e] = ts]
          /\ owed' = (owed \ (Shared \X {e})) \cup (((ts \cap enabled) \X {e}) \ dedup)
    BY <1>9 DEF Update
  <2>3. matches' \in [Issues -> SUBSET Shared] /\ owed' \subseteq Shared \X Issues  BY <2>2
  <2> QED  BY <1>9, <2>1, <2>3 DEF Update, setup, engine
<1>10. ASSUME NEW t \in Triggers, SetUp(t) PROVE TypeOK'
  BY <1>10 DEF SetUp, world, engine
<1>11. ASSUME NEW t \in Triggers, Toggle(t) PROVE TypeOK'
  BY <1>11 DEF Toggle, Change, world, engine
<1>12. ASSUME NEW t \in Timed, EditSchedule(t) PROVE TypeOK'
  BY <1>12 DEF EditSchedule, Change, world, engine
<1>13. ASSUME NEW p \in dedup, ClearDedup(p) PROVE TypeOK'
  BY <1>13 DEF ClearDedup, Change, world, setup, engine
<1>14. CASE UNCHANGED vars  BY <1>14 DEF vars
<1> QED  BY <1>1, <1>2, <1>3, <1>4, <1>5, <1>6, <1>7, <1>8, <1>9, <1>10, <1>11,
            <1>12, <1>13, <1>14 DEF Next, Engine

\* Every variable keeps its type, with any number of triggers and issues.
THEOREM TriggersTyped == Spec => []TypeOK
<1>1. Init => TypeOK
  BY DEF Init, TypeOK, NoPoll, Instants, Pairs
<1>2. TypeOK /\ [Next]_vars => TypeOK'  BY StepTyped
<1> QED  BY <1>1, <1>2, PTL DEF Spec

-----------------------------------------------------------------------------
(* A trigger fires at most once *)

\* A pair has run only if its row is there.
FiredInv ==
  /\ TypeOK
  /\ \A p \in Pairs : fired[p] <= 1 /\ (fired[p] = 1 => p \in dedup)

\* New rows: what fires now has not fired since its row was cleared.
LEMMA FireOnce ==
  ASSUME FiredInv, NEW rows \in SUBSET Pairs, NEW failed, rows \cap dedup = {},
         Fire(rows, failed)
  PROVE  \A p \in Pairs : fired'[p] <= 1 /\ (fired'[p] = 1 => p \in dedup')
<1> SUFFICES ASSUME NEW p \in Pairs PROVE fired'[p] <= 1 /\ (fired'[p] = 1 => p \in dedup')
  OBVIOUS
<1>1. fired[p] \in Nat  BY DEF FiredInv, TypeOK
<1>2. CASE p \in rows \ failed
  <2>1. fired[p] = 0  BY <1>1, <1>2 DEF FiredInv
  <2> QED  BY <1>2, <2>1 DEF Fire
<1>3. CASE p \notin rows \ failed
  BY <1>3 DEF Fire, FiredInv
<1> QED  BY <1>2, <1>3

LEMMA StepFired ==
  ASSUME FiredInv, [Next]_vars
  PROVE  FiredInv'
<1>0. TypeOK /\ TypeOK'  BY StepTyped DEF FiredInv
<1>1. ASSUME UNCHANGED <<dedup, fired>> PROVE FiredInv'
  BY <1>0, <1>1 DEF FiredInv
<1>2. ASSUME NEW t \in Timed, PollSchedule(t) PROVE FiredInv'
  <2>1. CASE UNCHANGED <<dedup, fired, owed>>  BY <1>1, <2>1
  <2>2. CASE ~ UNCHANGED <<dedup, fired, owed>>
    <3>1. PICK failed : Fire({<<t, nextRun[t]>>} \ dedup, failed) /\ ~Unanchored(t)
      BY <1>2, <2>2 DEF PollSchedule
    <3>2. {<<t, nextRun[t]>>} \ dedup \subseteq Pairs
      BY <1>0, <1>2, <2>2, DueInstant
    <3> QED  BY <1>0, <3>1, <3>2, FireOnce DEF FiredInv
  <2> QED  BY <2>1, <2>2
<1>3. ASSUME NEW ev \in poll.batch, HandleEvent(ev) PROVE FiredInv'
  <2>1. PICK unseen, failed :
          Fire(Rows(Fires(ev) \ unseen, ev.issue), Rows(failed, ev.issue))
    BY <1>3 DEF HandleEvent
  <2> QED  BY <1>0, <2>1, RowsTyped, FireOnce DEF FiredInv
<1>4. ASSUME NEW p \in dedup, ClearDedup(p) PROVE FiredInv'
  <2> SUFFICES ASSUME NEW q \in Pairs
               PROVE  fired'[q] <= 1 /\ (fired'[q] = 1 => q \in dedup')
    BY <1>0 DEF FiredInv
  <2>1. CASE q = p  BY <1>0, <1>4, <2>1 DEF ClearDedup, TypeOK
  <2>2. CASE q # p  BY <1>0, <1>4, <2>2 DEF ClearDedup, FiredInv, TypeOK
  <2> QED  BY <2>1, <2>2
<1> QED
  BY <1>1, <1>2, <1>3, <1>4
  DEF Next, Engine, StartTick, PollShared, EndPoll, PollHttp, Wait, Restart,
      Update, SetUp, Toggle, EditSchedule, vars

\* Between two clearings of its row, a trigger starts at most one run for an
\* issue or instant, whatever is polled twice and whenever the app restarts.
THEOREM FiresAtMostOnce == Spec => []FiresOnce
<1>1. Init => FiredInv
  BY DEF Init, FiredInv, TypeOK, NoPoll, Instants, Pairs
<1>2. FiredInv /\ [Next]_vars => FiredInv'  BY StepFired
<1>3. FiredInv => FiresOnce  BY DEF FiredInv, FiresOnce
<1> QED  BY <1>1, <1>2, <1>3, PTL DEF Spec

-----------------------------------------------------------------------------
(* A schedule fires for its own instants *)

\* Only what has been set up is polled or has an anchor; an anchor came after
\* that, and is an instant of the schedule it is put down to, if not left over from
\* an earlier one because that has none to come.
AnchorInv ==
  /\ TypeOK
  /\ enabled \cup todo \subseteq {t \in Triggers : enabledAt[t] # 0}
  /\ \A t \in Timed : nextRun[t] # 0 =>
       /\ enabledAt[t] # 0 /\ enabledAt[t] < nextRun[t]
       /\ nextRun[t] \in Occurs[anchorSig[t]] \/ Coming(anchorSig[t], clock) = {}
  /\ \A t \in Triggers : enabledAt[t] <= clock

LEMMA StepAnchored ==
  ASSUME AnchorInv, [Next]_vars
  PROVE  AnchorInv'
<1>0. TypeOK /\ TypeOK'  BY StepTyped DEF AnchorInv
<1> USE DEF AnchorInv
<1>1. ASSUME UNCHANGED <<enabledAt, nextRun, anchorSig, clock>>,
             enabled' \cup todo' \subseteq enabled \cup todo
      PROVE  AnchorInv'
  BY <1>0, <1>1
<1>2. ASSUME NEW t \in Timed, PollSchedule(t) PROVE AnchorInv'
  <2>1. UNCHANGED <<enabledAt, enabled, cron, clock>> /\ todo' \subseteq todo /\ t \in todo
    BY <1>2 DEF PollSchedule, setup, world
  <2>2. enabledAt[t] \in Nat \ {0} /\ clock \in Nat /\ enabledAt[t] <= clock
    BY <1>0, <2>1 DEF TypeOK, Triggers
  <2>3. CASE nextRun' = nextRun /\ anchorSig' = anchorSig
    BY <1>1, <2>1, <2>3 DEF setup
  <2>4. CASE ~(nextRun' = nextRun /\ anchorSig' = anchorSig)
    <3>1. SetNext(t, clock) /\ anchorSig' = [anchorSig EXCEPT ![t] = cron[t]]
      <4>1. Later(clock, enabledAt[t]) = clock  BY <2>2 DEF Later
      <4>2. CASE Unanchored(t)  BY <1>2, <4>1, <4>2 DEF PollSchedule
      <4>3. CASE ~Unanchored(t)
        <5>1. SetNext(t, clock) /\ anchorSig' = anchorSig
          BY <1>2, <2>4, <4>3 DEF PollSchedule
        <5>2. anchorSig[t] = cron[t]  BY <4>3 DEF Unanchored
        <5> QED  BY <1>0, <5>1, <5>2 DEF TypeOK
      <4> QED  BY <4>2, <4>3
    <3>2. CASE nextRun' = nextRun /\ Coming(cron[t], clock) = {}
      BY <1>0, <2>1, <3>1, <3>2 DEF TypeOK, Coming
    <3>3. CASE \E next \in Coming(cron[t], clock) : nextRun' = [nextRun EXCEPT ![t] = next]
      <4>1. PICK next \in Coming(cron[t], clock) : nextRun' = [nextRun EXCEPT ![t] = next]
        BY <3>3
      <4>2. next \in Nat \ {0} /\ next > clock /\ next \in Occurs[cron[t]]
        BY <1>0, ComingTyped
      <4>3. enabledAt[t] < next  BY <2>2, <4>2
      <4> QED  BY <1>0, <2>1, <2>2, <3>1, <4>1, <4>2, <4>3 DEF TypeOK, Coming
    <3> QED  BY <1>0, <3>1, <3>2, <3>3, NextSet
  <2> QED  BY <2>3, <2>4
<1>3. ASSUME NEW t \in Triggers, SetUp(t) PROVE AnchorInv'
  <2>1. \A u \in Timed : nextRun[u] # 0 => u # t  BY <1>3 DEF SetUp
  <2> QED  BY <1>0, <1>3, <2>1 DEF SetUp, engine, world, TypeOK, Triggers
<1>4. ASSUME NEW t \in Triggers, Toggle(t) PROVE AnchorInv'
  BY <1>0, <1>4 DEF Toggle, engine, world
<1>5. CASE StartTick
  BY <1>0, <1>1, <1>5 DEF StartTick, world, setup
<1>6. CASE Restart
  BY <1>0, <1>6 DEF Restart, world, setup, TypeOK
<1>7. CASE Wait \/ \E e \in Issues : Update(e)
  <2>1. clock' = clock + 1 /\ UNCHANGED <<setup, engine>>
    BY <1>7 DEF Wait, Update
  <2>2. UNCHANGED <<enabledAt, enabled, todo, nextRun, anchorSig>>
    BY <2>1 DEF setup, engine
  <2>3. \A t \in Triggers : enabledAt[t] <= clock'
    BY <1>0, <2>1 DEF TypeOK
  <2>4. \A t \in Timed : Coming(anchorSig[t], clock) = {} => Coming(anchorSig'[t], clock') = {}
    BY <1>0, <2>1, <2>2 DEF TypeOK, Coming
  <2> QED  BY <1>0, <2>2, <2>3, <2>4
<1>8. CASE UNCHANGED vars  BY <1>1, <1>8 DEF vars
<1> QED
  BY <1>1, <1>2, <1>3, <1>4, <1>5, <1>6, <1>7, <1>8
  DEF Next, Engine, PollShared, EndPoll, PollHttp, HandleEvent, EditSchedule,
      ClearDedup, setup, world, engine

\* What an engine step adds to the runs of a schedule.
LEMMA FiresItsInstant ==
  ASSUME AnchorInv, [Next]_vars, NEW t \in Timed, NEW i \in Instants,
         fired'[<<t, i>>] > fired[<<t, i>>]
  PROVE  /\ i \in Occurs[cron[t]] \/ Coming(cron[t], clock) = {}
         /\ enabledAt[t] < i /\ i <= clock /\ clock <= i + MaxLateness
<1>0. TypeOK  BY DEF AnchorInv
<1>1. <<t, i>> \in Pairs /\ fired[<<t, i>>] \in Nat  BY <1>0 DEF Pairs, TypeOK
<1>2. ~ UNCHANGED fired  BY <1>1
<1>3. ASSUME NEW ev \in poll.batch, HandleEvent(ev) PROVE FALSE
  <2>1. PICK unseen, failed :
          Fire(Rows(Fires(ev) \ unseen, ev.issue), Rows(failed, ev.issue))
    BY <1>3 DEF HandleEvent
  <2>2. t \notin Fires(ev)  BY <1>0 DEF Fires, TypeOK
  <2>3. <<t, i>> \notin Rows(Fires(ev) \ unseen, ev.issue)  BY <2>2 DEF Rows
  <2> QED  BY <1>1, <2>1, <2>3 DEF Fire
<1>4. ASSUME NEW p \in dedup, ClearDedup(p) PROVE FALSE
  BY <1>0, <1>1, <1>4 DEF ClearDedup, TypeOK
<1>5. PICK u \in Timed : PollSchedule(u)
  BY <1>2, <1>3, <1>4
  DEF Next, Engine, StartTick, PollShared, EndPoll, PollHttp, Wait, Restart,
      Update, SetUp, Toggle, EditSchedule, vars
<1>6. PICK failed :
        /\ Fire({<<u, nextRun[u]>>} \ dedup, failed)
        /\ ~Unanchored(u) /\ clock >= nextRun[u] /\ ~(clock - nextRun[u] > MaxLateness)
  BY <1>2, <1>5 DEF PollSchedule
<1>7. <<t, i>> = <<u, nextRun[u]>>  BY <1>1, <1>6 DEF Fire
<1>8. t = u /\ i = nextRun[t]  BY <1>7
<1>9. clock \in 1..MaxClock /\ i \in Nat /\ MaxClock \in Nat  BY <1>0 DEF TypeOK, Instants
<1>10. i <= clock /\ clock <= i + MaxLateness /\ i <= MaxClock  BY <1>6, <1>8, <1>9
<1> QED  BY <1>6, <1>8, <1>10 DEF AnchorInv, Unanchored

\* Whatever is edited, switched off or restarted, a schedule fires only after it was
\* set up and in time, and only for instants of the schedule it has now, if this one
\* has any to come.
THEOREM SchedulesFireFresh == Spec => FiresFresh
<1>1. Init => AnchorInv
  <2>1. ASSUME Init PROVE TypeOK
    BY <2>1 DEF Init, TypeOK, NoPoll, Instants, Pairs
  <2> QED  BY <2>1 DEF Init, AnchorInv
<1>2. AnchorInv /\ [Next]_vars => AnchorInv'  BY StepAnchored
<1>3. AnchorInv /\ [Next]_vars =>
        [\A t \in Timed, i \in Instants :
           fired'[<<t, i>>] > fired[<<t, i>>] =>
             /\ i \in Occurs[cron[t]] \/ Coming(cron[t], clock) = {}
             /\ enabledAt[t] < i /\ i <= clock /\ clock <= i + MaxLateness]_vars
  BY FiresItsInstant
<1> QED  BY <1>1, <1>2, <1>3, PTL DEF Spec, FiresFresh

-----------------------------------------------------------------------------
(* Nothing is missed *)

\* The event that reports an issue as it is now.
Report(e) == [issue |-> e, at |-> updated[e], matches |-> matches[e]]

\* An issue that a trigger is to fire for is new to it, and came after the
\* watermark.
PendingInv ==
  /\ lastPoll <= clock
  /\ \A e \in Issues : updated[e] <= clock
  /\ \A p \in owed : /\ p \notin dedup
                     /\ p[1] \in enabled \cap matches[p[2]]
                     /\ updated[p[2]] > lastPoll
                     /\ updated[p[2]] > enabledAt[p[1]]

\* A tick that polls the shared source at all does so for every trigger of it
\* that is on; what they are to fire for is reported, as it is now.
PollInv ==
  /\ todo # {} => enabled \cap Shared \subseteq todo
  /\ poll.group = {} => poll = NoPoll
  /\ poll.batch \subseteq {Report(e) : e \in Issues}
  /\ poll.group # {} /\ poll.group \subseteq Shared =>
       /\ enabled \cap Shared \subseteq poll.group
       /\ \A p \in owed : poll.since < updated[p[2]] /\ Report(p[2]) \in poll.batch

MissInv == AnchorInv /\ PendingInv /\ PollInv

LEMMA PendingPair ==
  ASSUME TypeOK, NEW p \in owed
  PROVE  p[1] \in Shared /\ p[2] \in Issues /\ p = <<p[1], p[2]>>
BY DEF TypeOK

\* One event per issue: if they fit on the pages, no poll is cut off.
LEMMA AllPages ==
  ASSUME Cardinality(Issues) <= MaxPages, NEW es \in SUBSET Issues
  PROVE  Pages(Events(es)) = {Events(es)}
<1> DEFINE f == [e \in es |-> Report(e)]
<1>1. IsFiniteSet(es) /\ Cardinality(es) <= Cardinality(Issues)  BY FS_Subset
<1>2. f \in Surjection(es, Events(es))  BY DEF Surjection, Events, Report
<1>3. IsFiniteSet(Events(es)) /\ Cardinality(Events(es)) <= Cardinality(es)
  BY <1>1, <1>2, FS_Surjection
<1>4. Cardinality(Events(es)) \in Nat /\ Cardinality(es) \in Nat /\ Cardinality(Issues) \in Nat
  BY <1>1, <1>3, FS_CardinalityType
<1>5. Cardinality(Events(es)) <= MaxPages  BY <1>1, <1>3, <1>4
<1> QED  BY <1>5 DEF Pages

\* A poll reports whatever came after the oldest watermark of its triggers.
LEMMA PollReports ==
  ASSUME Mishaps = {}, Cardinality(Issues) <= MaxPages, MissInv, PollShared
  PROVE  PendingInv' /\ PollInv'
<1>0. TypeOK  BY DEF MissInv, AnchorInv
<1>1. todo # {} /\ todo \subseteq Shared /\ todo' = {}
  BY DEF PollShared
<1>2. UNCHANGED <<clock, updated, matches, enabledAt, enabled, lastPoll, dedup, owed>>
  BY DEF PollShared, world, setup
<1>3. PICK since \in 0..MaxClock :
        /\ IsSince(since, todo)
        /\ \E b \in Pages(Events({e \in Issues : updated[e] > 0 /\ updated[e] >= since})) :
             poll' = [group |-> todo, since |-> since, batch |-> b]
  BY DEF PollShared
<1> DEFINE es == {e \in Issues : updated[e] > 0 /\ updated[e] >= since}
<1>4. poll' = [group |-> todo, since |-> since, batch |-> Events(es)]
  BY <1>3, AllPages
<1>5. Events(es) \subseteq {Report(e) : e \in Issues}  BY DEF Events, Report
<1>6. ASSUME NEW p \in owed
      PROVE  since < updated[p[2]] /\ Report(p[2]) \in Events(es)
  <2>1. p[1] \in todo /\ p[2] \in Issues
    BY <1>0, <1>1, <1>6, PendingPair DEF MissInv, PendingInv, PollInv
  <2>2. since <= Later(enabledAt[p[1]], lastPoll)
    <3>1. Later(enabledAt[p[1]], lastPoll) \in Watermarks(todo)  BY <2>1 DEF Watermarks
    <3> QED  BY <1>3, <3>1 DEF IsSince
  <2>3. enabledAt[p[1]] \in Nat /\ lastPoll \in Nat /\ updated[p[2]] \in Nat /\ since \in Nat
    BY <1>0, <1>1, <2>1 DEF TypeOK, Triggers
  <2>4. since < updated[p[2]]
    BY <2>2, <2>3 DEF MissInv, PendingInv, Later
  <2> QED  BY <2>1, <2>3, <2>4 DEF Events, Report
<1>7. PendingInv'  BY <1>2 DEF MissInv, PendingInv
<1>8. enabled \cap Shared \subseteq todo  BY <1>1 DEF MissInv, PollInv
<1>9. \A e : Report(e)' = Report(e)  BY <1>2 DEF Report
<1> QED  BY <1>1, <1>2, <1>4, <1>5, <1>6, <1>7, <1>8, <1>9 DEF PollInv

\* Every trigger of the group that is to fire for the event does.
LEMMA EventHandled ==
  ASSUME Mishaps = {}, MissInv, NEW ev \in poll.batch, HandleEvent(ev)
  PROVE  PendingInv' /\ PollInv'
<1>0. TypeOK  BY DEF MissInv, AnchorInv
<1>1. UNCHANGED <<clock, updated, matches, enabledAt, enabled, todo, lastPoll>>
  BY DEF HandleEvent, world, setup
<1>2. poll' = [poll EXCEPT !.batch = @ \ {ev}]  BY DEF HandleEvent
<1>3. PICK failed : Fire(Rows(Fires(ev), ev.issue), failed)
  <2>1. PICK unseen \in SUBSET Fires(ev) : \E failed \in SUBSET (Fires(ev) \ unseen) :
          /\ unseen # {} => "throw" \in Mishaps
          /\ Fire(Rows(Fires(ev) \ unseen, ev.issue), Rows(failed, ev.issue))
    BY DEF HandleEvent
  <2>2. unseen = {}  BY <2>1
  <2>3. Fires(ev) \ unseen = Fires(ev)  BY <2>2
  <2> QED  BY <2>1, <2>3
<1>4. PICK e \in Issues : ev = Report(e)  BY DEF MissInv, PollInv
<1>5. PendingInv'
  BY <1>0, <1>1, <1>3, PendingPair DEF MissInv, PendingInv, Fire
<1>6. \A i : Report(i)' = Report(i)  BY <1>1 DEF Report
<1>7. poll.group # {}  BY DEF MissInv, PollInv, NoPoll
<1>8. poll'.group = poll.group /\ poll'.since = poll.since /\ poll'.batch = poll.batch \ {ev}
  BY <1>0, <1>2 DEF TypeOK
<1>9. ASSUME poll.group \subseteq Shared, NEW p \in owed'
      PROVE  poll.since < updated[p[2]] /\ Report(p[2]) \in poll'.batch
  <2>1. p \in owed /\ p \notin Rows(Fires(ev), ev.issue)  BY <1>3, <1>9 DEF Fire
  <2>2. p[1] \in Shared /\ p[2] \in Issues /\ p = <<p[1], p[2]>>
    BY <1>0, <2>1, PendingPair
  <2>3. /\ poll.since < updated[p[2]] /\ Report(p[2]) \in poll.batch
        /\ p[1] \in poll.group /\ p \notin dedup
        /\ p[1] \in matches[p[2]] /\ updated[p[2]] > enabledAt[p[1]]
    BY <1>7, <1>9, <2>1, <2>2 DEF MissInv, PendingInv, PollInv
  <2>4. p[2] # e
    <3> SUFFICES ASSUME p[2] = e PROVE FALSE  OBVIOUS
    <3>1. ev.issue = p[2] /\ ev.at = updated[p[2]] /\ ev.matches = matches[p[2]]
      BY <1>4 DEF Report
    <3>2. updated[p[2]] \in Nat /\ enabledAt[p[1]] \in Nat /\ poll.since \in Nat
      BY <1>0, <2>2 DEF TypeOK, Triggers
    <3>3. p[1] \in Fires(ev)  BY <2>2, <2>3, <3>1, <3>2 DEF Fires
    <3> QED  BY <2>1, <2>2, <3>1, <3>3 DEF Rows
  <2>5. Report(p[2]) # ev  BY <1>4, <2>4 DEF Report
  <2> QED  BY <1>8, <2>3, <2>5
<1>10. PollInv'
  BY <1>1, <1>6, <1>7, <1>8, <1>9 DEF MissInv, PollInv
<1> QED  BY <1>5, <1>10

LEMMA StepMisses ==
  ASSUME Mishaps = {}, Cardinality(Issues) <= MaxPages, MissInv, [Next]_vars
  PROVE  MissInv'
<1>0. TypeOK /\ TypeOK' /\ AnchorInv /\ AnchorInv'
  BY StepTyped, StepAnchored DEF MissInv, AnchorInv
<1> SUFFICES PendingInv' /\ PollInv'  BY <1>0 DEF MissInv
<1>1. CASE StartTick
  <2>1. enabled \cap Shared \subseteq todo'  BY <1>1 DEF StartTick
  <2>2. poll = NoPoll /\ UNCHANGED <<world, setup, poll, lastPoll, dedup, owed>>
    BY <1>1 DEF StartTick, Ticking, Polling
  <2> QED  BY <2>1, <2>2 DEF MissInv, PendingInv, PollInv, Report, world, setup, NoPoll
<1>2. CASE PollShared  BY <1>2, PollReports
<1>3. CASE EndPoll
  <2>1. poll' = NoPoll /\ UNCHANGED <<world, setup, todo, dedup, owed>>  BY <1>3 DEF EndPoll
  <2>2. CASE poll.group \subseteq Shared
    <3>1. owed = {}  BY <1>3, <2>2 DEF EndPoll, Polling, MissInv, PollInv, NoPoll
    <3>2. lastPoll' = clock  BY <1>3, <2>2 DEF EndPoll
    <3>3. clock \in Nat  BY <1>0 DEF TypeOK
    <3> QED  BY <2>1, <3>1, <3>2, <3>3 DEF MissInv, PendingInv, PollInv, world, setup, NoPoll
  <2>3. CASE ~(poll.group \subseteq Shared)
    BY <1>3, <2>1, <2>3 DEF EndPoll, MissInv, PendingInv, PollInv, world, setup, NoPoll
  <2> QED  BY <2>2, <2>3
<1>4. ASSUME NEW t \in Http, PollHttp(t) PROVE PendingInv' /\ PollInv'
  <2>1. poll = NoPoll /\ UNCHANGED <<world, setup, lastPoll, dedup, owed>> /\ todo' = todo \ {t}
    BY <1>4 DEF PollHttp, Polling
  <2>2. poll' = poll \/ poll' = [group |-> {t}, since |-> 0,
                                 batch |-> Events({e \in Issues : updated[e] > 0})]
    BY <1>4 DEF PollHttp
  <2>3. t \notin Shared  OBVIOUS
  <2>4. Events({e \in Issues : updated[e] > 0}) \subseteq {Report(e) : e \in Issues}
    BY DEF Events, Report
  <2>5. \A i : Report(i)' = Report(i)  BY <2>1 DEF Report, world
  <2> QED  BY <2>1, <2>2, <2>3, <2>4, <2>5 DEF MissInv, PendingInv, PollInv, world, setup, NoPoll
<1>5. ASSUME NEW t \in Timed, PollSchedule(t) PROVE PendingInv' /\ PollInv'
  <2>1. poll = NoPoll /\ UNCHANGED <<world, setup, poll, lastPoll>> /\ todo' = todo \ {t}
    BY <1>5 DEF PollSchedule, Polling
  <2>2. owed' \subseteq owed /\ \A p \in owed' : p \in dedup' => p \in dedup
    BY <1>5 DEF PollSchedule, Fire
  <2>3. t \notin Shared  OBVIOUS
  <2> QED  BY <2>1, <2>2, <2>3 DEF MissInv, PendingInv, PollInv, world, setup, NoPoll
<1>6. ASSUME NEW ev \in poll.batch, HandleEvent(ev) PROVE PendingInv' /\ PollInv'
  BY <1>6, EventHandled
<1>7. CASE Wait
  BY <1>0, <1>7 DEF Wait, setup, engine, MissInv, PendingInv, PollInv, Report, TypeOK
<1>8. CASE Restart
  <2>1. poll' = NoPoll /\ todo' = {} /\ lastPoll' = 0 /\ UNCHANGED <<world, setup, dedup, owed>>
    BY <1>8 DEF Restart
  <2>2. \A p \in owed : updated[p[2]] > 0
    BY <1>0, PendingPair DEF MissInv, PendingInv, TypeOK, Triggers
  <2> QED  BY <1>0, <2>1, <2>2 DEF MissInv, PendingInv, PollInv, world, setup, NoPoll, TypeOK
<1>9. ASSUME NEW e \in Issues, Update(e) PROVE PendingInv' /\ PollInv'
  <2>1. poll = NoPoll /\ UNCHANGED <<setup, engine, dedup>>
    BY <1>9 DEF Update, Polling
  <2>2. clock' = clock + 1 /\ updated' = [updated EXCEPT ![e] = clock']  BY <1>9 DEF Update
  <2>3. PICK ts \in SUBSET Shared :
          /\ matches' = [matches EXCEPT ![e] = ts]
          /\ owed' = (owed \ (Shared \X {e})) \cup (((ts \cap enabled) \X {e}) \ dedup)
    BY <1>9 DEF Update
  <2>4. lastPoll <= clock /\ lastPoll \in Nat /\ clock \in Nat  BY <1>0 DEF MissInv, PendingInv, TypeOK
  <2>5. \A i \in Issues : updated'[i] <= clock'
    BY <1>0, <2>2, <2>4 DEF MissInv, PendingInv, TypeOK
  <2>6. ASSUME NEW p \in owed'
        PROVE  /\ p \notin dedup /\ p[1] \in enabled \cap matches'[p[2]]
               /\ updated'[p[2]] > lastPoll /\ updated'[p[2]] > enabledAt[p[1]]
    <3>1. CASE p \in owed \ (Shared \X {e})
      <4>1. p[2] \in Issues /\ p[2] # e  BY <1>0, <3>1, PendingPair
      <4> QED  BY <1>0, <2>2, <2>3, <3>1, <4>1 DEF MissInv, PendingInv, TypeOK
    <3>2. CASE p \in ((ts \cap enabled) \X {e}) \ dedup
      <4>1. p[1] \in ts \cap enabled /\ p[2] = e /\ p[1] \in Triggers
        BY <1>0, <3>2 DEF TypeOK
      <4>2. updated'[e] = clock + 1 /\ matches'[e] = ts
        BY <1>0, <2>2, <2>3 DEF TypeOK
      <4>3. enabledAt[p[1]] <= clock /\ enabledAt[p[1]] \in Nat
        BY <1>0, <4>1 DEF AnchorInv, TypeOK
      <4> QED  BY <2>4, <3>2, <4>1, <4>2, <4>3
    <3> QED  BY <2>3, <3>1, <3>2
  <2>7. PendingInv'
    BY <2>1, <2>2, <2>4, <2>5, <2>6 DEF PendingInv, engine, setup
  <2> QED  BY <2>1, <2>7 DEF MissInv, PollInv, NoPoll, engine, setup
<1>10. ASSUME NEW t \in Triggers, SetUp(t) PROVE PendingInv' /\ PollInv'
  <2>1. todo = {} /\ poll = NoPoll /\ UNCHANGED <<world, engine, dedup, owed>>
    BY <1>10 DEF SetUp, Ticking, Polling
  <2>2. \A p \in owed : p[1] # t /\ p[1] \in Triggers
    BY <1>0, <1>10, PendingPair DEF SetUp, MissInv, PendingInv, AnchorInv, TypeOK
  <2>3. /\ enabled \subseteq enabled'
        /\ \A u \in Triggers : u # t => enabledAt'[u] = enabledAt[u]
    BY <1>0, <1>10 DEF SetUp, TypeOK
  <2> QED  BY <2>1, <2>2, <2>3 DEF MissInv, PendingInv, PollInv, NoPoll, engine, world
<1>11. ASSUME NEW t \in Triggers, Toggle(t) PROVE PendingInv' /\ PollInv'
  <2>1. todo = {} /\ poll = NoPoll /\ UNCHANGED <<world, enabledAt, engine, dedup>>
    BY <1>11 DEF Toggle, Ticking, Polling
  <2>2. owed' = owed \ ({t} \X Issues) /\ enabled \ {t} \subseteq enabled'
    BY <1>11 DEF Toggle
  <2>3. \A p \in owed' : p \in owed /\ p[1] # t  BY <1>0, <2>2, PendingPair
  <2> QED  BY <2>1, <2>2, <2>3 DEF MissInv, PendingInv, PollInv, NoPoll, engine, world
<1>12. ASSUME NEW t \in Timed, EditSchedule(t) PROVE PendingInv' /\ PollInv'
  BY <1>12 DEF EditSchedule, world, engine, MissInv, PendingInv, PollInv, Report
<1>13. ASSUME NEW p \in dedup, ClearDedup(p) PROVE PendingInv' /\ PollInv'
  BY <1>13 DEF ClearDedup, world, setup, engine, MissInv, PendingInv, PollInv, Report
<1>14. CASE UNCHANGED vars
  BY <1>14 DEF vars, MissInv, PendingInv, PollInv, Report
<1> QED  BY <1>1, <1>2, <1>3, <1>4, <1>5, <1>6, <1>7, <1>8, <1>9, <1>10, <1>11,
            <1>12, <1>13, <1>14 DEF Next, Engine

\* Unless a poll fails, is cut off, or is overtaken by a change, or a dispatch
\* throws, whatever a trigger is to fire for is ahead of the watermark.
THEOREM NothingIsMissed ==
  ASSUME Mishaps = {}, Cardinality(Issues) <= MaxPages
  PROVE  Spec => []NothingMissed
<1>1. Init => MissInv
  <2>1. ASSUME Init PROVE TypeOK
    BY <2>1 DEF Init, TypeOK, NoPoll, Instants, Pairs
  <2> QED  BY <2>1 DEF Init, MissInv, AnchorInv, PendingInv, PollInv, NoPoll
<1>2. MissInv /\ [Next]_vars => MissInv'  BY StepMisses
<1>3. MissInv => NothingMissed  BY DEF MissInv, PendingInv, NothingMissed
<1> QED  BY <1>1, <1>2, <1>3, PTL DEF Spec
=============================================================================
