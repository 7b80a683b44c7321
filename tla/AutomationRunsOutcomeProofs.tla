--------------------- MODULE AutomationRunsOutcomeProofs ---------------------
(* What survives a restart and how a run ends.  In a quiet environment: what a *)
(* running step was built on, and the group it belongs to, are on disk.        *)
(* Without cancels and retries: the verdict on a run fits its steps, and       *)
(* neither it nor a result on disk changes again.  Without deletions: a pass   *)
(* visits every run.                                                           *)
EXTENDS AutomationRunsProofs

USE DEF Ticks

-----------------------------------------------------------------------------
(* What keeps the two parts of DurableInv *)

\* Where everything is saved, memory is not ahead.
LEMMA SavedIsNotAhead ==
  ASSUME \A r \in Runs : disk'[r] = row'[r]
  PROVE  AheadWhereAwaited'
  BY DEF AheadWhereAwaited, Unsaved

\* A tick whose run keeps its states still holds them, and all of them may have
\* been saved.
LEMMA HoldsFrame ==
  ASSUME NEW tk, NEW rows, NEW dsk, NEW new, NEW saved, TickHolds(tk, rows, dsk),
         tk.run # NoRun /\ new[tk.run].status \in Present =>
           /\ rows[tk.run].status \in Present
           /\ \A s \in StepsAt(tk.pos) : rows[tk.run].st[s] # "none" =>
                                         new[tk.run].st[s] # "none"
           /\ saved[tk.run] = dsk[tk.run] \/ saved[tk.run] = new[tk.run]
  PROVE  TickHolds(tk, new, saved)
<1> SUFFICES ASSUME tk.run # NoRun, new[tk.run].status \in Present,
                    NEW s \in StepsAt(tk.pos), tk.own[s] = "live"
             PROVE  /\ new[tk.run].st[s] # "none"
                    /\ tk.pos \in Group => saved[tk.run].st[s] # "none"
  BY DEF TickHolds
<1>1. /\ rows[tk.run].status \in Present
      /\ rows[tk.run].st[s] # "none" => new[tk.run].st[s] # "none"
      /\ saved[tk.run] = dsk[tk.run] \/ saved[tk.run] = new[tk.run]
  OBVIOUS
<1>2. rows[tk.run].st[s] # "none" /\ (tk.pos \in Group => dsk[tk.run].st[s] # "none")
  BY <1>1 DEF TickHolds
<1> QED
  BY <1>1, <1>2

LEMMA IdleHolds == \A rows, dsk : TickHolds(Idle, rows, dsk)
  BY DEF TickHolds, Idle

\* The run of a tick, if there is one, is a run.
LEMMA TickRun ==
  ASSUME TypeOK, NEW t \in Ticks
  PROVE  tick[t].run \in Runs \cup {NoRun} /\ tick[t] \in Tick
  BY DEF TypeOK, Tick

-----------------------------------------------------------------------------
(* The pieces of a tick *)

LEMMA ReturnIsDurable ==
  ASSUME OrderInv, DurableInv, NEW t \in Ticks, NEW r \in Runs, NEW rw,
         \A u \in Ticks \ {t} : tick[u].run # r,
         PersistAndReturn(t, r, rw)
  PROVE  DurableInv'
<1>1. /\ row \in [Runs -> Row] /\ tick \in [Ticks -> Tick]
      /\ row' = [row EXCEPT ![r] = rw] /\ disk' = row'
      /\ tick' = [tick EXCEPT ![t] = Idle]
  BY DEF OrderInv, TypeOK, PersistAndReturn
<1>2. AheadWhereAwaited'
  BY <1>1, SavedIsNotAhead
<1>3. Held'
  <2> SUFFICES ASSUME NEW u \in Ticks PROVE TickHolds(tick'[u], row', disk')
    BY DEF Held
  <2>1. CASE u = t
    BY <1>1, <2>1, IdleHolds
  <2>2. CASE u # t
    <3>1. tick'[u] = tick[u] /\ row'[tick[u].run] = row[tick[u].run]
      BY <1>1, <2>2
    <3>2. TickHolds(tick[u], row, disk)
      BY DEF DurableInv, Held
    <3> QED BY <1>1, <3>1, <3>2, HoldsFrame
  <2> QED BY <2>1, <2>2
<1> QED
  BY <1>2, <1>3 DEF DurableInv

\* A tick calls the runners of its next position when all that is before it is
\* on disk: everything has just been saved, or nobody drove the run.
LEMMA TickOnceIsDurable ==
  ASSUME OrderInv, DurableInv, NEW t \in Ticks, NEW r \in Runs, NEW rw \in Row,
         NEW dsk \in [Runs -> Row],
         rw.status \in Present, tick[t].run \in {r, NoRun}, dsk[r].st = rw.st,
         dsk = disk \/ dsk = [row EXCEPT ![r] = rw],
         \A u \in Ticks \ {t} : tick[u].run # r,
         TickOnce(t, r, [row EXCEPT ![r] = rw], dsk, tick)
  PROVE  DurableInv'
<1> DEFINE rows == [row EXCEPT ![r] = rw]
<1>1. /\ row \in [Runs -> Row] /\ disk \in [Runs -> Row] /\ tick \in [Ticks -> Tick]
      /\ rows[r] = rw /\ rows \in [Runs -> Row]
  BY DEF OrderInv, TypeOK
<1>2. CASE PersistAndReturn(t, r, FinalizeRun(rw))
  BY <1>2, ReturnIsDurable
<1>3. ASSUME NEW p \in Positions,
             row' = [rows EXCEPT ![r].st = Materialise(rw.st, p)],
             disk' = DiskAtCall(p, row', rows, dsk),
             tick' = [tick EXCEPT ![t] =
                       [Idle EXCEPT !.run = r, !.pos = p,
                          !.wait = {s \in StepsAt(p) : rw.st[s] \notin Done}]]
      PROVE  DurableInv'
  <2> DEFINE st == Materialise(rw.st, p)
             tk == [Idle EXCEPT !.run = r, !.pos = p,
                          !.wait = {s \in StepsAt(p) : rw.st[s] \notin Done}]
  <2>1. /\ \A s \in Steps : PosOf[s] # p => st[s] = rw.st[s]
        /\ \A s \in StepsAt(p) : st[s] # "none"
    BY DEF Materialise, StepsAt
  <2>2. \A x \in Runs : row'[x] = IF x = r THEN [rw EXCEPT !.st = st] ELSE row[x]
    BY <1>1, <1>3
  <2>3. row'[r].st = st /\ row'[r].status = rw.status
    BY <2>2 DEF Row
  <2>4. tk.run = r /\ tk.pos = p /\ tick'[t] = tk /\ \A u \in Ticks \ {t} : tick'[u] = tick[u]
    BY <1>1, <1>3 DEF Idle
  <2>5. \/ disk' = row'
        \/ disk' = dsk /\ (p \in Group => row' = rows)
    BY <1>3 DEF DiskAtCall
  <2> HIDE DEF tk, st
  <2>6. AheadWhereAwaited'
    <3> SUFFICES ASSUME NEW x \in Runs, NEW s \in Steps, disk'[x].st[s] # row'[x].st[s]
                 PROVE  /\ row'[x].status \in Present
                        /\ \E u \in Ticks : tick'[u].run = x /\ tick'[u].pos = PosOf[s]
      BY DEF AheadWhereAwaited, Unsaved, RowExists
    <3>1. disk' = dsk
      BY <2>5
    <3>2. CASE x = r
      <4>1. PosOf[s] = p
        BY <2>1, <2>3, <3>1, <3>2
      <4> QED BY <2>3, <2>4, <3>2, <4>1
    <3>3. CASE x # r
      <4>1. row'[x] = row[x] /\ rows[x] = row[x]
        BY <1>1, <2>2, <3>3
      <4>2. disk[x].st[s] # row[x].st[s]
        BY <3>1, <4>1
      <4>3. PICK u \in Ticks : tick[u].run = x /\ tick[u].pos = PosOf[s]
        BY <4>2 DEF DurableInv, AheadWhereAwaited, Unsaved
      <4>4. u # t
        BY <3>3, <4>3, RunAssumption
      <4>5. row[x].status \in Present
        BY <4>2 DEF DurableInv, AheadWhereAwaited, Unsaved, RowExists
      <4> QED BY <2>4, <4>1, <4>3, <4>4, <4>5
    <3> QED BY <3>2, <3>3
  <2>7. Held'
    <3> SUFFICES ASSUME NEW u \in Ticks PROVE TickHolds(tick'[u], row', disk')
      BY DEF Held
    <3>1. CASE u = t
      <4>1. p \in Group => \A s \in StepsAt(p) : disk'[r].st[s] # "none"
        <5>1. CASE disk' = row'
          BY <2>1, <2>3, <5>1
        <5>2. CASE disk' = dsk /\ (p \in Group => row' = rows)
          <6>1. p \in Group => rw.st = st
            BY <1>1, <2>3, <5>2
          <6> QED BY <2>1, <5>2, <6>1
        <5> QED BY <2>5, <5>1, <5>2
      <4> QED BY <2>1, <2>3, <2>4, <3>1, <4>1 DEF TickHolds
    <3>2. CASE u # t
      <4>1. tick'[u] = tick[u] /\ TickHolds(tick[u], row, disk)
        BY <2>4, <3>2 DEF DurableInv, Held
      <4>2. CASE tick[u].run = NoRun
        BY <4>1, <4>2 DEF TickHolds
      <4>3. CASE tick[u].run # NoRun
        <5>1. tick[u].run \in Runs /\ tick[u].run # r
          BY <3>2, <4>3, TickRun DEF OrderInv
        <5>2. row'[tick[u].run] = row[tick[u].run] /\ rows[tick[u].run] = row[tick[u].run]
          BY <1>1, <2>2, <5>1
        <5>3. disk'[tick[u].run] \in {disk[tick[u].run], row'[tick[u].run]}
          BY <2>5, <5>2
        <5> QED BY <4>1, <5>2, <5>3, HoldsFrame
      <4> QED BY <4>2, <4>3
    <3> QED BY <3>1, <3>2
  <2> QED BY <2>6, <2>7 DEF DurableInv
<1> QED
  BY <1>1, <1>2, <1>3 DEF TickOnce

LEMMA GoOnIsDurable ==
  ASSUME OrderInv, DurableInv, NEW t \in Ticks, NEW r \in Runs, NEW rw \in Row,
         rw.status \in Present, tick[t].run = r,
         \A u \in Ticks \ {t} : tick[u].run # r,
         PersistAndGoOn(t, r, rw)
  PROVE  DurableInv'
<1> DEFINE rows == [row EXCEPT ![r] = rw]
<1>1. rows \in [Runs -> Row] /\ rows[r] = rw
  BY DEF OrderInv, TypeOK
<1>2. /\ TickOnce(t, r, [row EXCEPT ![r] = rw], rows, tick)
      /\ rows = disk \/ rows = [row EXCEPT ![r] = rw]
      /\ tick[t].run \in {r, NoRun}
  BY DEF PersistAndGoOn
<1>3. rows[r].st = rw.st
  BY <1>1
<1> QED
  <2> HIDE DEF rows
  <2> QED BY <1>1, <1>2, <1>3, TickOnceIsDurable

-----------------------------------------------------------------------------
(* The executor *)

LEMMA PropagatePresent ==
  ASSUME NEW rw \in Row, rw.status \in Present
  PROVE  Propagate(rw) \in Row /\ Propagate(rw).status \in Present
<1>1. Propagate(rw) \in Row
  BY RowOperatorsType
<1>2. Propagate(rw).status \in {"waiting", "running", rw.status}
  BY DEF Propagate, Row
<1> QED
  BY <1>1, <1>2 DEF Present, Active

LEMMA SettleSoloIsDurable ==
  ASSUME OrderInv, DurableInv, NEW t \in Ticks, NEW s \in Steps, NEW res \in Results(s),
         SettleSolo(t, s, res)
  PROVE  DurableInv'
<1> DEFINE r  == tick[t].run
           rw == Land(t, s, res)
<1>1. r \in Runs /\ \A u \in Ticks \ {t} : tick[u].run # r
  BY OnlyDriver DEF SettleSolo, OrderInv
<1>2. rw \in Row /\ rw.status \in Present
  BY LandKeepsOrder DEF SettleSolo, RowExists
<1>3. \/ \E new : PersistAndReturn(t, r, new)
      \/ PersistAndGoOn(t, r, Propagate(rw))
  BY DEF SettleSolo
<1> QED
  <2> HIDE DEF rw
  <2>1. Propagate(rw) \in Row /\ Propagate(rw).status \in Present
    BY <1>2, PropagatePresent
  <2> QED BY <1>1, <1>3, <2>1, ReturnIsDurable, GoOnIsDurable

LEMMA SettleSiblingIsDurable ==
  ASSUME OrderInv, DurableInv, NEW t \in Ticks, NEW s \in Steps, NEW res \in Results(s),
         SettleSibling(t, s, res)
  PROVE  DurableInv'
<1> DEFINE r  == tick[t].run
           rw == Land(t, s, res)
           tk == [tick[t] EXCEPT !.wait = @ \ {s},
                    !.own[s] = IF @ = "live" THEN "live" ELSE StatusOf(res),
                    !.ended = @ \/ res = "ended",
                    !.adv = @ \/ Advances(res)]
<1>1. r \in Runs /\ r # NoRun /\ \A u \in Ticks \ {t} : tick[u].run # r
  BY OnlyDriver DEF SettleSibling, Awaits, OrderInv
<1>2. rw \in Row /\ rw.status \in Present /\ rw.status = row[r].status
  BY LandKeepsOrder DEF SettleSibling, RowExists
<1>3. row \in [Runs -> Row] /\ tick \in [Ticks -> Tick] /\ row[r] \in Row
  BY <1>1 DEF OrderInv, TypeOK
<1>4. CASE AfterGroup(t, r, tk, rw)
  <2>1. \/ \E new : PersistAndReturn(t, r, new)
        \/ PersistAndGoOn(t, r, rw)
    BY <1>4 DEF AfterGroup
  <2> HIDE DEF rw
  <2> QED BY <1>1, <1>2, <2>1, ReturnIsDurable, GoOnIsDurable
<1>5. CASE /\ row' = [row EXCEPT ![r] = rw] /\ tick' = [tick EXCEPT ![t] = tk]
           /\ disk' = disk
  <2>1. /\ s \in tick[t].wait /\ PosOf[s] = tick[t].pos
    BY DEF SettleSibling, Awaits, OrderInv, AtTheEdge, TickAtEdge
  <2>2. tk.run = r /\ tk.pos = tick[t].pos
    BY <1>3 DEF Tick
  <2>3. \A x \in Steps : tk.own[x] = "live" => tick[t].own[x] = "live"
    BY <1>3, StatusOfType DEF Tick, Live, Done
  <2>4. \A x \in Steps : /\ x # s => rw.st[x] = row[r].st[x]
                         /\ row[r].st[x] # "none" => rw.st[x] # "none"
    BY <1>3, StatusOfType DEF Land, Row, Live, Done
  <2>5. /\ \A x \in Runs : row'[x] = IF x = r THEN rw ELSE row[x]
        /\ \A u \in Ticks : tick'[u] = IF u = t THEN tk ELSE tick[u]
    BY <1>3, <1>5
  <2> HIDE DEF rw, tk
  <2>6. \A u \in Ticks : tick'[u].run = tick[u].run /\ tick'[u].pos = tick[u].pos
    BY <2>2, <2>5
  <2>7. AheadWhereAwaited'
    <3> SUFFICES ASSUME NEW x \in Runs, NEW y \in Steps, disk[x].st[y] # row'[x].st[y]
                 PROVE  /\ row'[x].status \in Present
                        /\ \E u \in Ticks : tick'[u].run = x /\ tick'[u].pos = PosOf[y]
      BY <1>5 DEF AheadWhereAwaited, Unsaved, RowExists
    <3>1. CASE x = r /\ y = s
      BY <1>2, <2>1, <2>5, <2>6, <3>1
    <3>2. CASE ~(x = r /\ y = s)
      <4>1. row'[x].st[y] = row[x].st[y] /\ row'[x].status = row[x].status
        BY <1>2, <2>4, <2>5, <3>2
      <4> QED BY <2>6, <4>1 DEF DurableInv, AheadWhereAwaited, Unsaved, RowExists
    <3> QED BY <3>1, <3>2
  <2>8. Held'
    <3> SUFFICES ASSUME NEW u \in Ticks PROVE TickHolds(tick'[u], row', disk)
      BY <1>5 DEF Held
    <3>1. TickHolds(tick[u], row, disk)
      BY DEF DurableInv, Held
    <3>2. CASE u = t
      <4>1. tick'[u] = tk /\ row'[r] = rw
        BY <1>1, <2>5, <3>2
      <4> QED BY <1>2, <2>2, <2>3, <2>4, <3>1, <3>2, <4>1 DEF TickHolds, StepsAt
    <3>3. CASE u # t
      <4>1. tick'[u] = tick[u] /\ tick[u].run # r
        BY <1>1, <2>5, <3>3
      <4>2. tick[u].run # NoRun => row'[tick[u].run] = row[tick[u].run]
        BY <2>5, <4>1, TickRun DEF OrderInv
      <4> QED BY <3>1, <4>1, <4>2, HoldsFrame
    <3> QED BY <3>2, <3>3
  <2> QED BY <2>7, <2>8 DEF DurableInv
<1> QED
  BY <1>4, <1>5 DEF SettleSibling

LEMMA RunnerThrowsIsDurable ==
  ASSUME OrderInv, DurableInv, NEW t \in Ticks, NEW s \in Steps, RunnerThrows(t, s)
  PROVE  DurableInv'
<1>1. /\ tick[t].run \in Runs
      /\ \A u \in Ticks \ {t} : tick[u].run # tick[t].run
  BY OnlyDriver DEF RunnerThrows, OrderInv
<1> QED
  BY <1>1, ReturnIsDurable DEF RunnerThrows

LEMMA SettleDeletedIsDurable ==
  ASSUME OrderInv, DurableInv, NEW t \in Ticks, NEW s \in Steps, SettleDeleted(t, s)
  PROVE  DurableInv'
<1>1. /\ tick \in [Ticks -> Tick] /\ row' = row /\ disk' = disk
      /\ row[tick[t].run].status \notin Present
  BY DEF OrderInv, TypeOK, SettleDeleted, RowExists
<1>2. \A u \in Ticks \ {t} : tick'[u] = tick[u]
  BY <1>1 DEF SettleDeleted
<1>3. AheadWhereAwaited'
  <2> SUFFICES ASSUME NEW x \in Runs, NEW y \in Steps, Unsaved(x, y)
               PROVE  /\ RowExists(x)
                      /\ \E u \in Ticks : tick'[u].run = x /\ tick'[u].pos = PosOf[y]
    BY <1>1 DEF AheadWhereAwaited, Unsaved, RowExists
  <2>1. PICK u \in Ticks : tick[u].run = x /\ tick[u].pos = PosOf[y]
    BY DEF DurableInv, AheadWhereAwaited
  <2>2. RowExists(x)
    BY DEF DurableInv, AheadWhereAwaited
  <2>3. u # t
    BY <1>1, <2>1, <2>2 DEF RowExists
  <2> QED BY <1>2, <2>1, <2>2, <2>3
<1>4. Held'
  <2> SUFFICES ASSUME NEW u \in Ticks PROVE TickHolds(tick'[u], row, disk)
    BY <1>1 DEF Held
  <2>1. CASE u = t
    <3>1. tick'[t].run \in {tick[t].run, NoRun}
      BY <1>1 DEF SettleDeleted, Idle, Tick
    <3> QED BY <1>1, <2>1, <3>1 DEF TickHolds
  <2>2. CASE u # t
    BY <1>2, <2>2 DEF DurableInv, Held
  <2> QED BY <2>1, <2>2
<1> QED
  BY <1>3, <1>4 DEF DurableInv

-----------------------------------------------------------------------------
(* The service and the operator *)

\* Nothing of a run that nobody drives is waiting to be saved.
LEMMA UndrivenIsSaved ==
  ASSUME OrderInv, DurableInv, NEW r \in Runs, \A u \in Ticks : tick[u].run # r
  PROVE  disk[r].st = row[r].st
<1>1. disk[r] \in Row /\ row[r] \in Row
  BY DEF OrderInv, TypeOK
<1>2. \A s \in Steps : disk[r].st[s] = row[r].st[s]
  BY DEF DurableInv, AheadWhereAwaited, Unsaved
<1> QED
  BY <1>1, <1>2 DEF Row

LEMMA ServiceIsDurable ==
  ASSUME OrderInv, DurableInv, QuietEnvironment, Service
  PROVE  DurableInv'
<1>1. row \in [Runs -> Row] /\ disk \in [Runs -> Row] /\ Exclusive
  BY DEF OrderInv, TypeOK
<1>2. ASSUME UNCHANGED <<row, disk, tick>> PROVE DurableInv'
  BY <1>2 DEF DurableInv, AheadWhereAwaited, Unsaved, RowExists, Held, TickHolds
<1>3. CASE StartPass \/ EndPass \/ \E r \in Runs : SkipRun(r)
  BY <1>2, <1>3 DEF StartPass, EndPass, SkipRun
<1>4. ASSUME NEW r \in Runs, DispatchRun(r) PROVE DurableInv'
  <2> DEFINE rw == [row[r] EXCEPT !.status = "running"]
             rows == [row EXCEPT ![r] = rw]
  <2>1. row[r].status = "absent" /\ row[r] \in Row
    BY <1>1, <1>4 DEF DispatchRun
  <2>2. rw \in Row /\ rw.status \in Present
    BY <2>1 DEF Row, RunStatus, Present, Active
  <2>3. \A u \in Ticks : tick[u].run # r
    BY <1>1, <2>1, NoDriver DEF Exclusive, OrderInv
  <2>4. TickOnce(r, r, rows, rows, tick)
    BY <1>1, <1>4 DEF DispatchRun
  <2> HIDE DEF rw
  <2>5. rows \in [Runs -> Row] /\ rows[r].st = rw.st
    BY <1>1, <2>2
  <2>6. rows = [row EXCEPT ![r] = rw] /\ r \in Ticks /\ tick[r].run = NoRun
    <3>1. tick[r].run \in {r, NoRun}
      BY <1>1 DEF Exclusive
    <3> QED BY <2>3, <3>1
  <2>7. \A u \in Ticks \ {r} : tick[u].run # r
    BY <2>3
  <2>8. TickOnce(r, r, [row EXCEPT ![r] = rw], rows, tick)
    BY <2>4
  <2> HIDE DEF rows
  <2> QED BY <2>2, <2>5, <2>6, <2>7, <2>8, TickOnceIsDurable
<1>5. ASSUME NEW r \in Runs, VisitRun(r) PROVE DurableInv'
  <2> DEFINE rw == row[r]
  <2>1. /\ rw.status \in Present /\ r \notin inFlight /\ rw \in Row
        /\ TickOnce(Loop, r, row, disk, tick) /\ tick[Loop].run = NoRun
    BY <1>1, <1>5 DEF VisitRun, Eligible, Present
  <2>2. \A u \in Ticks : tick[u].run # r
    BY <2>1, NoDriver DEF OrderInv
  <2>3. disk[r].st = rw.st
    BY <2>2, UndrivenIsSaved
  <2>4. TickOnce(Loop, r, [row EXCEPT ![r] = rw], disk, tick)
    <3>1. [row EXCEPT ![r] = row[r]] = row
      BY <1>1
    <3> QED BY <2>1, <3>1
  <2>5. Loop \in Ticks /\ \A u \in Ticks \ {Loop} : tick[u].run # r
    BY <2>2
  <2>6. tick[Loop].run \in {r, NoRun}
    BY <2>1
  <2> HIDE DEF rw
  <2> QED BY <1>1, <2>1, <2>3, <2>4, <2>5, <2>6, TickOnceIsDurable
<1>6. ASSUME NEW d \in Runs, NEW r \in Runs, DispatchInTheSameMs(d, r) PROVE FALSE
  <2>1. used["tie"] < 0 /\ used["tie"] \in Nat
    BY <1>6 DEF DispatchInTheSameMs, Use, QuietEnvironment, OrderInv, TypeOK, Ops
  <2> QED BY <2>1
<1> QED
  BY <1>3, <1>4, <1>5, <1>6 DEF Service

\* A retry takes the states it drops out of the hands of the ticks.
LEMMA RewindIsDurable ==
  ASSUME OrderInv, DurableInv, NEW r \in Runs, NEW gone \in SUBSET Steps,
         NEW again \in SUBSET Steps, RowExists(r), Rewind(r, gone, again)
  PROVE  DurableInv'
<1> DEFINE st == [s \in Steps |-> IF s \in gone THEN "none"
                                  ELSE IF s \in again THEN "running" ELSE row[r].st[s]]
<1>1. /\ row \in [Runs -> Row] /\ row[r] \in Row /\ tick \in [Ticks -> Tick]
      /\ row[r].st \in [Steps -> StepStatus]
  BY DEF OrderInv, TypeOK, Row
<1>2. \A x \in Runs : row'[x] = IF x = r THEN [row[r] EXCEPT !.status = "running", !.st = st]
                                ELSE row[x]
  BY <1>1 DEF Rewind
<1>3. row'[r].st = st /\ disk' = row'
  BY <1>1, <1>2 DEF Row, Rewind
<1>4. AheadWhereAwaited'
  BY <1>3, SavedIsNotAhead
<1>5. Held'
  <2> SUFFICES ASSUME NEW t \in Ticks PROVE TickHolds(tick'[t], row', row')
    BY <1>3 DEF Held
  <2>1. TickHolds(tick[t], row, disk)
    BY DEF DurableInv, Held
  <2>2. CASE tick[t].run # r
    <3>1. tick'[t] = tick[t]
      BY <1>1, <2>2 DEF Rewind
    <3>2. tick[t].run # NoRun => row'[tick[t].run] = row[tick[t].run]
      BY <1>2, <2>2, TickRun DEF OrderInv
    <3> QED BY <2>1, <3>1, <3>2, HoldsFrame
  <2>3. CASE tick[t].run = r
    <3>1. /\ tick'[t].run = r /\ tick'[t].pos = tick[t].pos
          /\ \A s \in Steps : tick'[t].own[s] =
                IF s \in gone /\ PosOf[s] = tick[t].pos /\ tick[t].own[s] = "live"
                THEN row[r].st[s] ELSE tick[t].own[s]
      BY <1>1, <2>3 DEF Rewind, Tick
    <3>2. ASSUME NEW s \in StepsAt(tick[t].pos), tick'[t].own[s] = "live"
          PROVE  st[s] # "none"
      <4>1. s \in Steps /\ PosOf[s] = tick[t].pos /\ row[r].st[s] # "live"
        BY <1>1, <3>2 DEF StepsAt, StepStatus, Live, Done
      <4>2. s \notin gone /\ tick[t].own[s] = "live"
        BY <3>1, <3>2, <4>1
      <4>3. row[r].st[s] # "none"
        BY <2>1, <2>3, <4>2, RunAssumption DEF TickHolds, RowExists
      <4> QED BY <4>1, <4>2, <4>3
    <3> HIDE DEF st
    <3> QED BY <1>3, <3>1, <3>2 DEF TickHolds
  <2> QED BY <2>2, <2>3
<1> QED
  BY <1>4, <1>5 DEF DurableInv

LEMMA RetryIsDurable ==
  ASSUME OrderInv, DurableInv, NEW r \in Runs,
         \/ ContinueRun(r)
         \/ \E p \in Positions : RetryRunFromStep(r, p)
         \/ \E s \in Steps : RetryParallelStep(r, s)
  PROVE  DurableInv'
<1>1. CASE ContinueRun(r)
  <2>1. RowExists(r) /\ Rewind(r, {}, {})
    BY <1>1 DEF ContinueRun, RowExists, Present, Settled
  <2> QED BY <2>1, RewindIsDurable
<1>2. ASSUME NEW p \in Positions, RetryRunFromStep(r, p) PROVE DurableInv'
  <2> DEFINE gone == {s \in Steps : PosOf[s] >= p}
  <2>1. gone \in SUBSET Steps /\ RowExists(r) /\ Rewind(r, gone, {})
    BY <1>2 DEF RetryRunFromStep
  <2> HIDE DEF gone
  <2> QED BY <2>1, RewindIsDurable
<1>3. ASSUME NEW s \in Steps, RetryParallelStep(r, s) PROVE DurableInv'
  <2> DEFINE gone == {x \in Steps : PosOf[x] > PosOf[s]}
  <2>1. /\ gone \in SUBSET Steps /\ {s} \in SUBSET Steps
        /\ RowExists(r) /\ Rewind(r, gone, {s})
    BY <1>3 DEF RetryParallelStep
  <2> HIDE DEF gone
  <2> QED BY <2>1, RewindIsDurable
<1> QED
  BY <1>1, <1>2, <1>3

LEMMA OperatorIsDurable ==
  ASSUME OrderInv, DurableInv, Operator
  PROVE  DurableInv'
<1>1. row \in [Runs -> Row]
  BY DEF OrderInv, TypeOK
\* The operations that save everything, and take no state away from a run.
<1>2. ASSUME tick' = tick, disk' = row',
             \A r \in Runs : row'[r].status \in Present =>
               /\ row[r].status \in Present
               /\ \A s \in Steps : row[r].st[s] # "none" => row'[r].st[s] # "none"
      PROVE  DurableInv'
  <2>1. AheadWhereAwaited'
    BY <1>2, SavedIsNotAhead
  <2>2. ASSUME NEW t \in Ticks PROVE TickHolds(tick[t], row', row')
    <3>1. TickHolds(tick[t], row, disk)
      BY DEF DurableInv, Held
    <3>2. tick[t].run # NoRun => tick[t].run \in Runs
      BY TickRun DEF OrderInv
    <3> QED BY <1>2, <3>1, <3>2, HoldsFrame DEF StepsAt
  <2> QED BY <1>2, <2>1, <2>2 DEF DurableInv, Held
<1>3. ASSUME NEW r \in Runs, CancelRun(r) PROVE DurableInv'
  <2> DEFINE new == StopSteps(row[r], "cancelled")
  <2>1. row[r] \in Row /\ row[r].status \in Present
    BY <1>1, <1>3 DEF CancelRun, Present
  <2>2. \A s \in Steps : row[r].st[s] # "none" => new.st[s] # "none"
    BY <2>1 DEF StopSteps, Row
  <2>3. tick' = tick /\ disk' = row' /\ row' = [row EXCEPT ![r] = new]
    BY <1>3 DEF CancelRun
  <2> HIDE DEF new
  <2>4. \A x \in Runs : row'[x] = IF x = r THEN new ELSE row[x]
    BY <1>1, <2>3
  <2> QED BY <1>2, <2>1, <2>2, <2>3, <2>4
<1>4. ASSUME NEW r \in Runs, PauseRun(r) \/ ResumeRun(r) PROVE DurableInv'
  <2>1. \A x \in Runs : row'[x].status = row[x].status /\ row'[x].st = row[x].st
    BY <1>1, <1>4 DEF PauseRun, ResumeRun, Row
  <2>2. tick' = tick /\ disk' = row'
    BY <1>4 DEF PauseRun, ResumeRun
  <2> QED BY <1>2, <2>1, <2>2
<1>5. ASSUME NEW a \in Autos, DeleteAutomation(a) PROVE DurableInv'
  <2> DEFINE gone == [Absent EXCEPT !.status = "deleted"]
  <2>1. gone.status = "deleted"
    BY DEF Absent
  <2>2. \A x \in Runs : row'[x] = gone \/ row'[x] = row[x]
    BY <1>5 DEF DeleteAutomation
  <2>3. tick' = tick /\ disk' = row'
    BY <1>5 DEF DeleteAutomation
  <2> HIDE DEF gone
  <2> QED BY <1>2, <2>1, <2>2, <2>3 DEF Present, Active, Settled
<1> QED
  BY <1>3, <1>4, <1>5, RetryIsDurable DEF Operator

LEMMA RestartIsDurable ==
  ASSUME Restart
  PROVE  DurableInv'
<1>1. tick' = [t \in Ticks |-> Idle] /\ disk' = row'
  BY DEF Restart
<1>2. Held'
  BY <1>1, IdleHolds DEF Held
<1> QED
  BY <1>1, <1>2, SavedIsNotAhead DEF DurableInv

-----------------------------------------------------------------------------
(* The theorems *)

LEMMA InitIsDurable == Init => DurableInv
<1> SUFFICES ASSUME Init PROVE DurableInv
  OBVIOUS
<1>1. AheadWhereAwaited
  BY DEF Init, AheadWhereAwaited, Unsaved
<1>2. Held
  BY IdleHolds DEF Init, Held
<1> QED
  BY <1>1, <1>2 DEF DurableInv

LEMMA DurableInductive ==
  ASSUME QuietEnvironment, OrderInv, DurableInv, [Next]_vars
  PROVE  DurableInv'
<1>1. ASSUME NEW t \in Ticks, NEW s \in Steps, Settle(t, s) PROVE DurableInv'
  BY <1>1, SettleSoloIsDurable, SettleSiblingIsDurable, RunnerThrowsIsDurable,
     SettleDeletedIsDurable DEF Settle
<1>2. CASE UNCHANGED vars
  BY <1>2 DEF vars, DurableInv, AheadWhereAwaited, Unsaved, RowExists, Held, TickHolds
<1>3. Executor => \E t \in Ticks, s \in Steps : Settle(t, s)
  BY DEF Executor, OrderInv
<1> QED
  BY <1>1, <1>2, <1>3, ServiceIsDurable, OperatorIsDurable, RestartIsDurable DEF Next

\* A restart never loses what a running step was built on, in a quiet
\* environment: a tick starts a position when all before it has been saved.
THEOREM UpstreamIsDurable == ASSUME QuietEnvironment PROVE Spec => []UpstreamDurable
<1>1. Init => OrderInv /\ DurableInv
  BY InitOrdered, InitIsDurable
<1>2. OrderInv /\ DurableInv /\ [Next]_vars => OrderInv' /\ DurableInv'
  BY OrderInductive, DurableInductive
<1>3. OrderInv /\ DurableInv => UpstreamDurable
  <2> SUFFICES ASSUME OrderInv, DurableInv, NEW t \in Ticks, tick[t].run # NoRun,
                      NEW s \in Steps, PosOf[s] < tick[t].pos
               PROVE  disk[tick[t].run].st[s] = row[tick[t].run].st[s]
    BY DEF UpstreamDurable
  <2>1. tick[t].run \in Runs /\ tick[t].pos \in Nat /\ PosOf[s] \in Nat
    BY TickRun, ChainAssumption DEF OrderInv, Tick
  <2>2. ~ \E u \in Ticks : tick[u].run = tick[t].run /\ tick[u].pos = PosOf[s]
    BY <2>1 DEF OrderInv, Exclusive, TickExclusion
  <2> QED BY <2>1, <2>2 DEF DurableInv, AheadWhereAwaited, Unsaved
<1> QED
  BY <1>1, <1>2, <1>3, PTL DEF Spec

\* A parallel group whose runners work is on disk, in a quiet environment.
THEOREM GroupIsOnDisk == ASSUME QuietEnvironment PROVE Spec => []GroupOnDisk
<1>1. Init => OrderInv /\ DurableInv
  BY InitOrdered, InitIsDurable
<1>2. OrderInv /\ DurableInv /\ [Next]_vars => OrderInv' /\ DurableInv'
  BY OrderInductive, DurableInductive
<1>3. DurableInv => GroupOnDisk
  BY DEF DurableInv, Held, TickHolds, GroupOnDisk, RowExists
<1> QED
  BY <1>1, <1>2, <1>3, PTL DEF Spec

-----------------------------------------------------------------------------
(* How a run ends: the row of one run *)

LEMMA Statuses ==
  /\ Present = {"running", "waiting", "completed", "failed", "cancelled"}
  /\ Active = {"running", "waiting"} /\ Settled = {"completed", "failed", "cancelled"}
  /\ "none" \notin Live /\ "none" \notin Done
  /\ "failed" \notin Live /\ "succeeded" \notin Live
  /\ Live \cap Done = {} /\ StepStatus = Live \cup Done \cup {"none"}
  BY DEF Present, Active, Settled, Live, Done, StepStatus

\* What is in memory may be saved as it is.
LEMMA SavedFits ==
  ASSUME NEW r, NEW rw, NEW dw, NEW asks, RunFits(r, rw, dw, asks)
  PROVE  RunFits(r, rw, rw, asks)
  BY DEF RunFits

\* Only what the run's own steps asked for matters.
LEMMA FitsFrame ==
  ASSUME NEW r, NEW rw, NEW dw, NEW asks, NEW other, RunFits(r, rw, dw, asks),
         \A s \in Steps : <<r, s>> \in asks <=> <<r, s>> \in other
  PROVE  RunFits(r, rw, dw, other)
  BY DEF RunFits, VerdictOf

LEMMA TickFrame ==
  ASSUME NEW tk, NEW rows, NEW asks, NEW new, NEW other, CalmTick(tk, rows, asks),
         tk.run # NoRun => /\ new[tk.run] = rows[tk.run]
                           /\ \A s \in Steps : <<tk.run, s>> \in asks <=> <<tk.run, s>> \in other
  PROVE  CalmTick(tk, new, other)
  BY DEF CalmTick

LEMMA IdleIsCalm == \A rows, asks : CalmTick(Idle, rows, asks)
  BY DEF CalmTick, Idle

\* A run whose steps are where a tick has brought them settles with a verdict
\* that fits them.
LEMMA FailFits ==
  ASSUME NEW r, NEW rw \in Row, NEW asks,
         \A s \in Steps : rw.st[s] \notin Live,
         \E s \in Steps : rw.st[s] = "failed",
         \A s \in Steps : <<r, s>> \in asks => rw.st[s] = "succeeded",
         SoloEnds => \A s \in Steps : <<r, s>> \in asks =>
                       \A x \in Steps : PosOf[x] > PosOf[s] => rw.st[x] = "none"
  PROVE  RunFits(r, [rw EXCEPT !.status = "failed"], [rw EXCEPT !.status = "failed"], asks)
<1> DEFINE new == [rw EXCEPT !.status = "failed"]
<1>1. new.st = rw.st /\ new.status = "failed"
  BY DEF Row
<1> HIDE DEF new
<1>2. RunFits(r, new, new, asks)
  BY <1>1, Statuses DEF RunFits, CalmRow, VerdictOf
<1> QED
  BY <1>2 DEF new

LEMMA FinalizeFits ==
  ASSUME NEW r, NEW rw \in Row, NEW asks,
         \A s \in Steps : rw.st[s] \notin Live,
         \/ \A s \in Steps : rw.st[s] \in Done
         \/ \E s \in Steps : <<r, s>> \in asks,
         \A s \in Steps : <<r, s>> \in asks => rw.st[s] = "succeeded",
         SoloEnds => \A s \in Steps : <<r, s>> \in asks =>
                       \A x \in Steps : PosOf[x] > PosOf[s] => rw.st[x] = "none"
  PROVE  RunFits(r, FinalizeRun(rw), FinalizeRun(rw), asks)
<1>1. FinalizeRun(rw).st = rw.st
  BY DEF FinalizeRun, Row
<1>2. FinalizeRun(rw).status = IF \E s \in Halt : rw.st[s] \notin {"none", "succeeded"}
                               THEN "failed" ELSE "completed"
  BY DEF FinalizeRun, Row
<1>3. \A s \in Steps : rw.st[s] \in {"none", "succeeded", "failed"}
  BY DEF Row, StepStatus, Done
<1>4. Halt \subseteq Steps
  BY ChainAssumption
<1>5. FinalizeRun(rw).status = "failed" => \E s \in Steps : rw.st[s] = "failed"
  BY <1>2, <1>3, <1>4
<1>6. FinalizeRun(rw).status = "completed" => \A s \in Halt : rw.st[s] # "failed"
  BY <1>2
<1>7. FinalizeRun(rw).status \in {"failed", "completed"}
  BY <1>2
<1> DEFINE new == FinalizeRun(rw)
<1> HIDE DEF new
<1>8. RunFits(r, new, new, asks)
  BY <1>1, <1>5, <1>6, <1>7, Statuses DEF RunFits, CalmRow, VerdictOf, new
<1> QED
  BY <1>8 DEF new

\* An active run that goes on.
LEMMA ActiveFits ==
  ASSUME NEW r, NEW rw, NEW asks, rw.status \in Active, NoHaltBehind(rw.st),
         \A s \in Steps : <<r, s>> \in asks => rw.st[s] = "succeeded",
         SoloEnds => \A s \in Steps : <<r, s>> \notin asks
  PROVE  RunFits(r, rw, rw, asks)
  BY Statuses DEF RunFits, CalmRow, VerdictOf

\* The states of a position are created.
LEMMA MaterialiseFits ==
  ASSUME NEW st \in [Steps -> StepStatus], NEW p \in Positions, NoHaltBehind(st)
  PROVE  NoHaltBehind(Materialise(st, p))
<1> SUFFICES ASSUME NEW s \in Halt, Materialise(st, p)[s] = "failed"
             PROVE  \E x \in StepsAt(PosOf[s]) : Materialise(st, p)[x] \notin Done
  BY DEF NoHaltBehind
<1>1. st[s] = "failed"
  BY ChainAssumption DEF Materialise
<1>2. PICK x \in StepsAt(PosOf[s]) : st[x] \notin Done
  BY <1>1 DEF NoHaltBehind
<1>3. Materialise(st, p)[x] \notin Done
  BY <1>2 DEF Materialise, StepsAt, Done
<1> QED
  BY <1>3

-----------------------------------------------------------------------------
(* How a run ends: the pieces of a tick *)

\* The runs and ticks that a tick of r does not touch; all that is saved may be
\* saved with it.
LEMMA OtherRunsFit ==
  ASSUME VerdictInv, NEW r, NEW x \in Runs, x # r, row'[x] = row[x],
         disk'[x] = disk[x] \/ disk'[x] = row[x],
         \A s \in Steps : <<x, s>> \in asked <=> <<x, s>> \in asked'
  PROVE  RunFits(x, row'[x], disk'[x], asked')
<1>1. RunFits(x, row[x], disk[x], asked)
  BY DEF VerdictInv
<1>2. RunFits(x, row'[x], disk'[x], asked)
  BY <1>1, SavedFits
<1> QED
  BY <1>2, FitsFrame

LEMMA ReturnFits ==
  ASSUME OrderInv, VerdictInv, NEW t \in Ticks, NEW r \in Runs, NEW rw \in Row,
         RunFits(r, rw, rw, asked'),
         \A x \in Runs \ {r}, s \in Steps : <<x, s>> \in asked <=> <<x, s>> \in asked',
         \A u \in Ticks \ {t} : tick[u].run # r,
         PersistAndReturn(t, r, rw)
  PROVE  VerdictInv'
<1>1. /\ row \in [Runs -> Row] /\ tick \in [Ticks -> Tick]
      /\ row' = [row EXCEPT ![r] = rw] /\ disk' = row'
      /\ tick' = [tick EXCEPT ![t] = Idle]
  BY DEF OrderInv, TypeOK, PersistAndReturn
<1>2. ASSUME NEW x \in Runs PROVE RunFits(x, row'[x], disk'[x], asked')
  <2>1. CASE x = r
    BY <1>1, <2>1
  <2>2. CASE x # r
    BY <1>1, <2>2, OtherRunsFit
  <2> QED BY <2>1, <2>2
<1>3. ASSUME NEW u \in Ticks PROVE CalmTick(tick'[u], row', asked')
  <2>1. CASE u = t
    BY <1>1, <2>1, IdleIsCalm
  <2>2. CASE u # t
    <3>1. tick'[u] = tick[u] /\ CalmTick(tick[u], row, asked)
      BY <1>1, <2>2 DEF VerdictInv
    <3>2. tick[u].run # NoRun => tick[u].run \in Runs \ {r}
      BY <2>2, TickRun DEF OrderInv
    <3> QED BY <1>1, <3>1, <3>2, TickFrame
  <2> QED BY <2>1, <2>2
<1> QED
  BY <1>2, <1>3 DEF VerdictInv

\* The next position is started, or the run settles: no halting step failed.
LEMMA TickOnceFits ==
  ASSUME OrderInv, VerdictInv, NEW t \in Ticks, NEW r \in Runs, NEW rw \in Row,
         NEW dsk \in [Runs -> Row],
         rw.status \in Active, RunFits(r, rw, rw, asked'),
         dsk[r].st = rw.st, dsk[r].status = rw.status,
         dsk = disk \/ dsk = [row EXCEPT ![r] = rw],
         \A x \in Runs \ {r}, s \in Steps : <<x, s>> \in asked <=> <<x, s>> \in asked',
         \A u \in Ticks \ {t} : tick[u].run # r,
         TickOnce(t, r, [row EXCEPT ![r] = rw], dsk, tick)
  PROVE  VerdictInv'
<1> DEFINE rows == [row EXCEPT ![r] = rw]
<1>1. /\ row \in [Runs -> Row] /\ disk \in [Runs -> Row] /\ tick \in [Ticks -> Tick]
      /\ rows[r] = rw /\ rows \in [Runs -> Row] /\ rw.st \in [Steps -> StepStatus]
  BY DEF OrderInv, TypeOK, Row
<1>2. CASE AllDone(rw.st) /\ PersistAndReturn(t, r, FinalizeRun(rw))
  <2>1. /\ \A s \in Steps : rw.st[s] \in Done /\ rw.st[s] \notin Live
        /\ \A s \in Steps : <<r, s>> \in asked' => rw.st[s] = "succeeded"
        /\ SoloEnds => \A s \in Steps : <<r, s>> \notin asked'
    BY <1>2, Statuses DEF AllDone, RunFits
  <2>2. RunFits(r, FinalizeRun(rw), FinalizeRun(rw), asked')
    BY <2>1, FinalizeFits
  <2>3. FinalizeRun(rw) \in Row
    BY RowOperatorsType
  <2> QED BY <1>2, <2>2, <2>3, ReturnFits
<1>3. ASSUME NEW p \in Positions,
             row' = [rows EXCEPT ![r].st = Materialise(rw.st, p)],
             disk' = DiskAtCall(p, row', rows, dsk),
             tick' = [tick EXCEPT ![t] =
                       [Idle EXCEPT !.run = r, !.pos = p,
                          !.wait = {s \in StepsAt(p) : rw.st[s] \notin Done}]]
      PROVE  VerdictInv'
  <2> DEFINE st  == Materialise(rw.st, p)
             new == [rw EXCEPT !.st = st]
             tk  == [Idle EXCEPT !.run = r, !.pos = p,
                          !.wait = {s \in StepsAt(p) : rw.st[s] \notin Done}]
  <2>1. /\ \A s \in Steps : rw.st[s] \in Done => st[s] = rw.st[s]
        /\ \A s \in Steps : rw.st[s] = "succeeded" => st[s] = "succeeded"
        /\ \A s \in StepsAt(p) : rw.st[s] \notin Done => st[s] \in Live
    BY <1>1, Statuses DEF Materialise, StepsAt, Live, Done
  <2>2. new.st = st /\ new.status = rw.status /\ \A x \in Runs : row'[x] = IF x = r THEN new ELSE row[x]
    BY <1>1, <1>3 DEF Row
  <2>3. tk.run = r /\ tk.ended = FALSE /\ (\A s \in Steps : tk.own[s] = "live")
        /\ tk.wait = {s \in StepsAt(p) : rw.st[s] \notin Done}
    BY DEF Idle, Attached
  <2>4. tick'[t] = tk /\ \A u \in Ticks \ {t} : tick'[u] = tick[u]
    BY <1>1, <1>3
  <2>5. disk' = row' \/ disk' = dsk
    BY <1>3 DEF DiskAtCall
  <2>6. NoHaltBehind(rw.st) /\ NoHaltBehind(st)
    BY <1>1, MaterialiseFits DEF RunFits, CalmRow
  <2>7. RunFits(r, new, new, asked')
    <3>1. \A s \in Steps : <<r, s>> \in asked' => st[s] = "succeeded"
      BY <2>1 DEF RunFits
    <3>2. SoloEnds => \A s \in Steps : <<r, s>> \notin asked'
      BY Statuses DEF RunFits
    <3> HIDE DEF new, st
    <3> QED BY <2>2, <2>6, <3>1, <3>2, ActiveFits
  <2> HIDE DEF tk, new, st
  <2>8. ASSUME NEW x \in Runs PROVE RunFits(x, row'[x], disk'[x], asked')
    <3>1. CASE x = r
      <4>1. CASE disk' = row'
        BY <2>2, <2>7, <3>1, <4>1
      <4>2. CASE disk' = dsk
        <5>1. \A s \in Steps : dsk[r].st[s] \in Done => new.st[s] = dsk[r].st[s]
          BY <2>1, <2>2
        <5>2. CalmRow(dsk[r]) /\ dsk[r].status = new.status
          BY <2>2, <2>6, Statuses DEF CalmRow
        <5> QED BY <2>2, <2>7, <3>1, <4>2, <5>1, <5>2 DEF RunFits
      <4> QED BY <2>5, <4>1, <4>2
    <3>2. CASE x # r
      <4>1. row'[x] = row[x] /\ rows[x] = row[x]
        BY <1>1, <2>2, <3>2
      <4>2. disk'[x] = disk[x] \/ disk'[x] = row[x]
        BY <2>5, <4>1
      <4> QED BY <3>2, <4>1, <4>2, OtherRunsFit
    <3> QED BY <3>1, <3>2
  <2>9. ASSUME NEW u \in Ticks PROVE CalmTick(tick'[u], row', asked')
    <3>1. CASE u = t
      <4>1. \A s \in tk.wait : st[s] \in Live
        BY <2>1, <2>3
      <4> QED BY <2>2, <2>3, <2>4, <3>1, <4>1 DEF CalmTick
    <3>2. CASE u # t
      <4>1. tick'[u] = tick[u] /\ CalmTick(tick[u], row, asked)
        BY <2>4, <3>2 DEF VerdictInv
      <4>2. tick[u].run # NoRun => tick[u].run \in Runs \ {r}
        BY <3>2, TickRun DEF OrderInv
      <4> QED BY <2>2, <4>1, <4>2, TickFrame
    <3> QED BY <3>1, <3>2
  <2> QED BY <2>8, <2>9 DEF VerdictInv
<1> QED
  BY <1>1, <1>2, <1>3 DEF TickOnce

LEMMA GoOnFits ==
  ASSUME OrderInv, VerdictInv, NEW t \in Ticks, NEW r \in Runs, NEW rw \in Row,
         rw.status \in Active, RunFits(r, rw, rw, asked'),
         \A x \in Runs \ {r}, s \in Steps : <<x, s>> \in asked <=> <<x, s>> \in asked',
         \A u \in Ticks \ {t} : tick[u].run # r,
         PersistAndGoOn(t, r, rw)
  PROVE  VerdictInv'
<1> DEFINE rows == [row EXCEPT ![r] = rw]
<1>1. rows \in [Runs -> Row] /\ rows[r] = rw
  BY DEF OrderInv, TypeOK
<1>2. /\ TickOnce(t, r, [row EXCEPT ![r] = rw], rows, tick)
      /\ rows = disk \/ rows = [row EXCEPT ![r] = rw]
  BY DEF PersistAndGoOn
<1>3. rows[r].st = rw.st /\ rows[r].status = rw.status
  BY <1>1
<1> QED
  <2> HIDE DEF rows
  <2> QED BY <1>1, <1>2, <1>3, TickOnceFits

-----------------------------------------------------------------------------
(* How a run ends: the executor *)

\* What is known when a result lands: the tick's position is the edge of the
\* run, all before it is done, and no halting step before it has failed.
LEMMA LandedFacts ==
  ASSUME OrderInv, VerdictInv, NEW t \in Ticks, NEW s \in Steps, NEW res \in Results(s),
         Awaits(t, s), RowExists(tick[t].run), NoteAsked(t, s, res)
  PROVE  LET r == tick[t].run  st == Land(t, s, res).st IN
         /\ row[r].status \in Active /\ row[r].st[s] \in Live
         /\ tick[t].own[s] = "live" /\ PosOf[s] = tick[t].pos
         /\ st = [row[r].st EXCEPT ![s] = StatusOf(res)]
         /\ \A x \in Steps : PosOf[x] < tick[t].pos =>
              st[x] \in Done /\ (x \in Halt => st[x] # "failed")
         /\ \A x \in Steps : PosOf[x] > tick[t].pos => st[x] = "none"
         /\ \A x \in Runs \ {r}, y \in Steps : <<x, y>> \in asked <=> <<x, y>> \in asked'
         /\ \A y \in Steps \ {s} : <<r, y>> \in asked <=> <<r, y>> \in asked'
         /\ <<r, s>> \notin asked /\ (<<r, s>> \in asked' <=> res = "ended")
         /\ \A y \in Steps : <<r, y>> \in asked' => st[y] = "succeeded"
         /\ SoloEnds => \A y \in Steps : <<r, y>> \in asked' => y = s /\ res = "ended"
<1> DEFINE r == tick[t].run
           st == Land(t, s, res).st
<1>1. /\ r \in Runs /\ row[r] \in Row /\ row[r].st \in [Steps -> StepStatus]
      /\ r # NoRun /\ s \in tick[t].wait /\ PosOf \in [Steps -> Nat]
  BY AwaitsType, ChainAssumption DEF OrderInv, Row, Awaits
<1>2. CalmTick(tick[t], row, asked) /\ RunFits(r, row[r], disk[r], asked)
  BY <1>1 DEF VerdictInv
<1>3. row[r].status \in Active /\ row[r].st[s] \in Live /\ tick[t].own[s] = "live"
  BY <1>1, <1>2, Statuses DEF CalmTick, RowExists
<1>4. PosOf[s] = tick[t].pos /\ EdgeAt(row[r].st, s)
  BY <1>1, <1>3 DEF OrderInv, AtTheEdge, TickAtEdge, RowExists
<1>5. st = [row[r].st EXCEPT ![s] = StatusOf(res)]
  BY <1>1, <1>3 DEF Land, Row
<1>6. OrderedRow(row[r].st) /\ NoHaltBehind(row[r].st)
  BY <1>1, <1>2, <1>3 DEF OrderInv, StepOrder, RunFits, CalmRow
<1>7. ASSUME NEW x \in Steps, PosOf[x] < tick[t].pos
      PROVE  st[x] \in Done /\ (x \in Halt => st[x] # "failed")
  <2>1. \A y \in StepsAt(PosOf[x]) : row[r].st[y] \in Done
    BY <1>1, <1>4, <1>6, <1>7 DEF OrderedRow, EdgeAt, StepsAt
  <2>2. x # s /\ st[x] = row[r].st[x]
    BY <1>1, <1>4, <1>5, <1>7
  <2> QED BY <1>6, <2>1, <2>2 DEF NoHaltBehind, StepsAt
<1>8. ASSUME NEW x \in Steps, PosOf[x] > tick[t].pos PROVE st[x] = "none"
  BY <1>1, <1>4, <1>5, <1>8 DEF EdgeAt
<1>9. /\ \A x \in Runs \ {r}, y \in Steps : <<x, y>> \in asked <=> <<x, y>> \in asked'
      /\ \A y \in Steps \ {s} : <<r, y>> \in asked <=> <<r, y>> \in asked'
  BY <1>1 DEF NoteAsked
<1>10. <<r, s>> \notin asked
  BY <1>2, <1>3, Statuses DEF RunFits
<1>11. <<r, s>> \in asked' <=> res = "ended"
  <2>1. res = "ended" => Advances(res)
    BY DEF Advances, Live
  <2> QED BY <1>3, <1>10, <2>1 DEF NoteAsked
<1>12. ASSUME NEW y \in Steps, <<r, y>> \in asked' PROVE st[y] = "succeeded"
  <2>1. CASE y = s
    BY <1>1, <1>5, <1>11, <1>12, <2>1 DEF StatusOf
  <2>2. CASE y # s
    <3>1. row[r].st[y] = "succeeded"
      BY <1>2, <1>9, <1>12, <2>2 DEF RunFits
    <3> QED BY <1>1, <1>5, <2>2, <3>1
  <2> QED BY <2>1, <2>2
<1>13. ASSUME SoloEnds, NEW y \in Steps, <<r, y>> \in asked' PROVE y = s /\ res = "ended"
  <2>1. <<r, y>> \notin asked
    BY <1>2, <1>3, <1>13, Statuses DEF RunFits
  <2> QED BY <1>9, <1>11, <1>13, <2>1
<1> QED
  BY <1>3, <1>4, <1>5, <1>7, <1>8, <1>9, <1>10, <1>11, <1>12, <1>13

\* The result of a wait may only land with Propagate: nothing else changes.
LEMMA PropagateActive ==
  ASSUME NEW rw \in Row, rw.status \in Active
  PROVE  /\ Propagate(rw) \in Row /\ Propagate(rw).status \in Active
         /\ Propagate(rw).st = rw.st
<1>1. Propagate(rw) \in Row /\ Propagate(rw).st = rw.st
  BY RowOperatorsType, StatusOnly
<1>2. Propagate(rw).status \in {"waiting", "running", rw.status}
  BY DEF Propagate, Row
<1> QED
  BY <1>1, <1>2, Statuses

LEMMA SettleSoloFits ==
  ASSUME OrderInv, VerdictInv, NEW t \in Ticks, NEW s \in Steps, NEW res \in Results(s),
         SettleSolo(t, s, res)
  PROVE  VerdictInv'
<1> DEFINE r  == tick[t].run
           rw == Land(t, s, res)
           st == rw.st
<1>1. r \in Runs /\ \A u \in Ticks \ {t} : tick[u].run # r
  BY OnlyDriver DEF SettleSolo, OrderInv
<1>2. rw \in Row /\ rw.status = row[r].status
  BY LandKeepsOrder DEF SettleSolo
<1>3. /\ row[r].status \in Active /\ PosOf[s] = tick[t].pos
      /\ row[r].st \in [Steps -> StepStatus]
      /\ st = [row[r].st EXCEPT ![s] = StatusOf(res)]
      /\ \A x \in Steps : PosOf[x] < tick[t].pos =>
           st[x] \in Done /\ (x \in Halt => st[x] # "failed")
      /\ \A x \in Steps : PosOf[x] > tick[t].pos => st[x] = "none"
      /\ \A x \in Runs \ {r}, y \in Steps : <<x, y>> \in asked <=> <<x, y>> \in asked'
      /\ <<r, s>> \in asked' <=> res = "ended"
      /\ \A y \in Steps : <<r, y>> \in asked' => st[y] = "succeeded"
      /\ SoloEnds => \A y \in Steps : <<r, y>> \in asked' => y = s /\ res = "ended"
  <2>1. Awaits(t, s) /\ RowExists(r) /\ NoteAsked(t, s, res)
    BY DEF SettleSolo
  <2>2. row[r].st \in [Steps -> StepStatus]
    BY <1>1 DEF OrderInv, TypeOK, Row
  <2> QED BY <2>1, <2>2, LandedFacts
<1>4. /\ PosOf \in [Steps -> Nat] /\ tick[t].pos \in Nat /\ Halt \subseteq Steps
      /\ \A x \in Steps : PosOf[x] = tick[t].pos => x = s
  BY <1>3, ChainAssumption DEF SettleSolo
<1> HIDE DEF rw, r
<1>5. st[s] = StatusOf(res)
  BY <1>3
<1>6. SoloEnds => \A y \in Steps : <<r, y>> \in asked' =>
                    \A x \in Steps : PosOf[x] > PosOf[y] => st[x] = "none"
  BY <1>3, <1>4
<1>7. ASSUME StatusOf(res) \in Done PROVE \A x \in Steps : st[x] \notin Live
  <2> TAKE x \in Steps
  <2>1. PosOf[x] < tick[t].pos \/ PosOf[x] > tick[t].pos \/ x = s
    BY <1>4
  <2> QED BY <1>3, <1>5, <1>7, <2>1, Statuses
<1>8. ASSUME res = "failed", PersistAndReturn(t, r, [rw EXCEPT !.status = "failed"])
      PROVE  VerdictInv'
  <2>1. st[s] = "failed" /\ \A x \in Steps : st[x] \notin Live
    BY <1>5, <1>7, <1>8 DEF StatusOf, Done
  <2>2. RunFits(r, [rw EXCEPT !.status = "failed"], [rw EXCEPT !.status = "failed"], asked')
    BY <1>2, <1>3, <1>6, <2>1, FailFits
  <2>3. [rw EXCEPT !.status = "failed"] \in Row
    BY <1>2, RowOperatorsType
  <2> QED BY <1>1, <1>3, <1>8, <2>2, <2>3, ReturnFits
<1>9. ASSUME EndsRun(res, st), PersistAndReturn(t, r, FinalizeRun(rw))
      PROVE  VerdictInv'
  <2>1. \A x \in Steps : st[x] \notin Live
    <3>1. CASE res = "ended"
      BY <1>7, <3>1 DEF StatusOf, Done
    <3>2. CASE AllDone(st)
      BY <3>2, Statuses DEF AllDone
    <3> QED BY <1>9, <3>1, <3>2 DEF EndsRun
  <2>2. (\A x \in Steps : st[x] \in Done) \/ \E x \in Steps : <<r, x>> \in asked'
    BY <1>3, <1>9 DEF EndsRun, AllDone
  <2>3. RunFits(r, FinalizeRun(rw), FinalizeRun(rw), asked')
    BY <1>2, <1>3, <1>6, <2>1, <2>2, FinalizeFits
  <2>4. FinalizeRun(rw) \in Row
    BY <1>2, RowOperatorsType
  <2> QED BY <1>1, <1>3, <1>9, <2>3, <2>4, ReturnFits
<1>10. ASSUME ~(res = "failed" /\ s \in Halt), ~EndsRun(res, st),
              \/ PersistAndReturn(t, r, Propagate(rw))
              \/ PersistAndGoOn(t, r, Propagate(rw))
       PROVE  VerdictInv'
  <2>1. NoHaltBehind(st)
    <3> SUFFICES ASSUME NEW x \in Halt, st[x] = "failed" PROVE FALSE
      BY DEF NoHaltBehind
    <3>1. x \in Steps /\ (PosOf[x] < tick[t].pos \/ PosOf[x] > tick[t].pos \/ x = s)
      BY <1>4
    <3>2. x = s
      BY <1>3, <3>1
    <3>3. StatusOf(res) = "failed" => res = "failed"
      BY DEF StatusOf
    <3> QED BY <1>5, <1>10, <3>2, <3>3
  <2>2. Propagate(rw) \in Row /\ Propagate(rw).status \in Active /\ Propagate(rw).st = st
    BY <1>2, <1>3, PropagateActive
  <2>3. SoloEnds => \A y \in Steps : <<r, y>> \notin asked'
    BY <1>3, <1>10 DEF EndsRun
  <2>4. RunFits(r, Propagate(rw), Propagate(rw), asked')
    BY <1>3, <2>1, <2>2, <2>3, ActiveFits
  <2> QED BY <1>1, <1>3, <1>10, <2>2, <2>4, ReturnFits, GoOnFits
<1> QED
  BY <1>8, <1>9, <1>10 DEF SettleSolo, rw, r

LEMMA SettleSiblingFits ==
  ASSUME OrderInv, VerdictInv, NEW t \in Ticks, NEW s \in Steps, NEW res \in Results(s),
         SettleSibling(t, s, res)
  PROVE  VerdictInv'
<1> DEFINE r  == tick[t].run
           rw == Land(t, s, res)
           st == rw.st
           tk == [tick[t] EXCEPT !.wait = @ \ {s},
                    !.own[s] = IF @ = "live" THEN "live" ELSE StatusOf(res),
                    !.ended = @ \/ res = "ended",
                    !.adv = @ \/ Advances(res)]
<1>1. r \in Runs /\ r # NoRun /\ \A u \in Ticks \ {t} : tick[u].run # r
  BY OnlyDriver DEF SettleSibling, Awaits, OrderInv
<1>2. rw \in Row /\ rw.status = row[r].status
  BY LandKeepsOrder DEF SettleSibling
<1>3. /\ row[r].status \in Active /\ row[r].st[s] \in Live /\ PosOf[s] = tick[t].pos
      /\ row[r].st \in [Steps -> StepStatus]
      /\ st = [row[r].st EXCEPT ![s] = StatusOf(res)]
      /\ \A x \in Steps : PosOf[x] < tick[t].pos =>
           st[x] \in Done /\ (x \in Halt => st[x] # "failed")
      /\ \A x \in Steps : PosOf[x] > tick[t].pos => st[x] = "none"
      /\ \A x \in Runs \ {r}, y \in Steps : <<x, y>> \in asked <=> <<x, y>> \in asked'
      /\ \A y \in Steps \ {s} : <<r, y>> \in asked <=> <<r, y>> \in asked'
      /\ <<r, s>> \in asked' <=> res = "ended"
      /\ \A y \in Steps : <<r, y>> \in asked' => st[y] = "succeeded"
  <2>1. Awaits(t, s) /\ RowExists(r) /\ NoteAsked(t, s, res)
    BY DEF SettleSibling
  <2>2. row[r].st \in [Steps -> StepStatus]
    BY <1>1 DEF OrderInv, TypeOK, Row
  <2> QED BY <2>1, <2>2, LandedFacts
<1>4. SoloEnds => \A y \in Steps : <<r, y>> \notin asked'
  <2>1. SoloEnds => \A y \in Steps : <<r, y>> \in asked' => res = "ended"
    BY LandedFacts DEF SettleSibling
  <2>2. SoloEnds => res # "ended"
    BY <1>3 DEF SettleSibling, SoloEnds, Results, Live, Done
  <2> QED BY <2>1, <2>2
<1>5. /\ PosOf \in [Steps -> Nat] /\ tick[t].pos \in Nat /\ Halt \subseteq Steps
      /\ tick[t].wait \subseteq Steps /\ tick[t] \in Tick /\ s \in tick[t].wait
  BY TickRun, ChainAssumption DEF OrderInv, Tick, SettleSibling, Awaits
<1>6. /\ \A x \in Steps : tick[t].own[x] = "live"
      /\ \A x \in tick[t].wait : row[r].st[x] \in Live /\ PosOf[x] = tick[t].pos
      /\ tick[t].ended => \E y \in Steps \ tick[t].wait : <<r, y>> \in asked
  <2>1. CalmTick(tick[t], row, asked) /\ TickAtEdge(tick[t], row)
    BY DEF VerdictInv, OrderInv, AtTheEdge
  <2> QED BY <1>1, <1>3, <2>1 DEF CalmTick, TickAtEdge
<1>7. /\ tk.run = r /\ tk.pos = tick[t].pos /\ tk.wait = tick[t].wait \ {s}
      /\ tk.ended = (tick[t].ended \/ res = "ended")
      /\ \A x \in Steps : tk.own[x] = "live"
  BY <1>5, <1>6 DEF Tick
<1>8. tk.ended => \E y \in Steps \ tk.wait : <<r, y>> \in asked'
  <2>1. CASE res = "ended"
    BY <1>3, <1>7, <2>1
  <2>2. CASE tick[t].ended
    <3>1. PICK y \in Steps \ tick[t].wait : <<r, y>> \in asked
      BY <1>6, <2>2
    <3>2. y # s
      BY <1>5, <3>1
    <3> QED BY <1>3, <1>7, <3>1, <3>2
  <2> QED BY <1>7, <2>1, <2>2
<1> HIDE DEF rw, tk, r
<1>9. ASSUME \E y \in StepsAt(tick[t].pos) : st[y] \notin Done
      PROVE  NoHaltBehind(st)
  <2> SUFFICES ASSUME NEW x \in Halt, st[x] = "failed"
               PROVE  \E y \in StepsAt(PosOf[x]) : st[y] \notin Done
    BY DEF NoHaltBehind
  <2>1. PosOf[x] < tick[t].pos \/ PosOf[x] > tick[t].pos \/ PosOf[x] = tick[t].pos
    BY <1>5
  <2>2. PosOf[x] = tick[t].pos
    BY <1>3, <1>5, <2>1
  <2> QED BY <1>9, <2>2
<1>10. ASSUME tk.wait # {}, row' = [row EXCEPT ![r] = rw], tick' = [tick EXCEPT ![t] = tk],
              disk' = disk
       PROVE  VerdictInv'
  <2>1. row \in [Runs -> Row] /\ tick \in [Ticks -> Tick]
    BY DEF OrderInv, TypeOK
  <2>2. /\ \A x \in Runs : row'[x] = IF x = r THEN rw ELSE row[x]
        /\ \A u \in Ticks : tick'[u] = IF u = t THEN tk ELSE tick[u]
    BY <1>10, <2>1
  <2>3. \A x \in tk.wait : st[x] \in Live
    BY <1>3, <1>5, <1>6, <1>7
  <2>4. NoHaltBehind(st)
    <3>1. PICK y \in tk.wait : TRUE
      BY <1>10
    <3>2. y \in StepsAt(tick[t].pos) /\ st[y] \notin Done
      BY <1>5, <1>6, <1>7, <2>3, <3>1, Statuses DEF StepsAt
    <3> QED BY <1>9, <3>2
  <2>5. RunFits(r, rw, rw, asked')
    BY <1>2, <1>3, <1>4, <2>4, ActiveFits
  <2>6. RunFits(r, row[r], disk[r], asked)
    BY <1>1 DEF VerdictInv
  <2>7. \A y \in Steps : disk[r].st[y] \in Done => st[y] = disk[r].st[y]
    BY <1>3, <2>6, Statuses DEF RunFits
  <2>8. RunFits(r, rw, disk[r], asked')
    BY <1>2, <2>5, <2>6, <2>7 DEF RunFits
  <2>9. ASSUME NEW x \in Runs PROVE RunFits(x, row'[x], disk'[x], asked')
    <3>1. CASE x = r
      BY <1>10, <2>2, <2>8, <3>1
    <3>2. CASE x # r
      BY <1>3, <1>10, <2>2, <3>2, OtherRunsFit
    <3> QED BY <3>1, <3>2
  <2>10. ASSUME NEW u \in Ticks PROVE CalmTick(tick'[u], row', asked')
    <3>1. CASE u = t
      <4>1. tick'[u] = tk /\ row'[tk.run] = rw
        BY <1>1, <1>7, <2>2, <3>1
      <4>2. rw.status \in Active
        BY <1>2, <1>3
      <4> QED BY <1>7, <1>8, <2>3, <4>1, <4>2 DEF CalmTick
    <3>2. CASE u # t
      <4>1. tick'[u] = tick[u] /\ CalmTick(tick[u], row, asked)
        BY <2>2, <3>2 DEF VerdictInv
      <4>2. tick[u].run # NoRun => tick[u].run \in Runs \ {r}
        BY <1>1, <3>2, TickRun DEF OrderInv
      <4> QED BY <1>3, <2>2, <4>1, <4>2, TickFrame
    <3> QED BY <3>1, <3>2
  <2> QED BY <2>9, <2>10 DEF VerdictInv
<1>11. ASSUME AfterGroup(t, r, tk, rw) PROVE VerdictInv'
  <2> DEFINE open == \E x \in StepsAt(tick[t].pos) : st[x] \notin Done
             halts == \E x \in StepsAt(tick[t].pos) \cap Halt : st[x] = "failed"
  <2>1. \/ open /\ PersistAndReturn(t, r, Propagate(rw))
        \/ ~open /\ halts /\ PersistAndReturn(t, r, [rw EXCEPT !.status = "failed"])
        \/ /\ ~open /\ ~halts /\ (tk.ended \/ AllDone(st))
           /\ PersistAndReturn(t, r, FinalizeRun(rw))
        \/ /\ ~open /\ ~halts
           /\ PersistAndGoOn(t, r, rw) \/ PersistAndReturn(t, r, rw)
    BY <1>7, <1>11 DEF AfterGroup, StepsAt
  <2>2. ASSUME ~open PROVE \A x \in Steps : st[x] \notin Live
    <3> TAKE x \in Steps
    <3>1. PosOf[x] < tick[t].pos \/ PosOf[x] > tick[t].pos \/ PosOf[x] = tick[t].pos
      BY <1>5
    <3> QED BY <1>3, <2>2, <3>1, Statuses DEF StepsAt
  <2>3. ASSUME ~open, ~halts PROVE NoHaltBehind(st)
    <3> SUFFICES ASSUME NEW x \in Halt, st[x] = "failed" PROVE FALSE
      BY DEF NoHaltBehind
    <3>1. x \in Steps
      BY <1>5
    <3>2. PosOf[x] < tick[t].pos \/ PosOf[x] > tick[t].pos \/ PosOf[x] = tick[t].pos
      BY <1>5, <3>1
    <3> QED BY <1>3, <2>3, <3>1, <3>2 DEF StepsAt
  <2>4. CASE open /\ PersistAndReturn(t, r, Propagate(rw))
    <3>1. Propagate(rw) \in Row /\ Propagate(rw).status \in Active /\ Propagate(rw).st = st
      BY <1>2, <1>3, PropagateActive
    <3>2. RunFits(r, Propagate(rw), Propagate(rw), asked')
      BY <1>3, <1>4, <1>9, <2>4, <3>1, ActiveFits
    <3> QED BY <1>1, <1>3, <2>4, <3>1, <3>2, ReturnFits
  <2>5. CASE ~open /\ halts /\ PersistAndReturn(t, r, [rw EXCEPT !.status = "failed"])
    <3>1. \E x \in Steps : st[x] = "failed"
      BY <2>5 DEF StepsAt
    <3>2. RunFits(r, [rw EXCEPT !.status = "failed"], [rw EXCEPT !.status = "failed"], asked')
      BY <1>2, <1>3, <1>4, <2>2, <2>5, <3>1, FailFits
    <3>3. [rw EXCEPT !.status = "failed"] \in Row
      BY <1>2, RowOperatorsType
    <3> QED BY <1>1, <1>3, <2>5, <3>2, <3>3, ReturnFits
  <2>6. CASE /\ ~open /\ ~halts /\ (tk.ended \/ AllDone(st))
             /\ PersistAndReturn(t, r, FinalizeRun(rw))
    <3>1. (\A x \in Steps : st[x] \in Done) \/ \E x \in Steps : <<r, x>> \in asked'
      BY <1>8, <2>6 DEF AllDone
    <3>2. RunFits(r, FinalizeRun(rw), FinalizeRun(rw), asked')
      BY <1>2, <1>3, <1>4, <2>2, <2>6, <3>1, FinalizeFits
    <3>3. FinalizeRun(rw) \in Row
      BY <1>2, RowOperatorsType
    <3> QED BY <1>1, <1>3, <2>6, <3>2, <3>3, ReturnFits
  <2>7. CASE /\ ~open /\ ~halts
             /\ PersistAndGoOn(t, r, rw) \/ PersistAndReturn(t, r, rw)
    <3>1. RunFits(r, rw, rw, asked')
      BY <1>2, <1>3, <1>4, <2>3, <2>7, ActiveFits
    <3> QED BY <1>1, <1>2, <1>3, <2>7, <3>1, ReturnFits, GoOnFits
  <2> QED BY <2>1, <2>4, <2>5, <2>6, <2>7
<1> QED
  BY <1>10, <1>11 DEF SettleSibling, rw, tk, r

LEMMA RunnerThrowsFits ==
  ASSUME OrderInv, VerdictInv, NEW t \in Ticks, NEW s \in Steps, RunnerThrows(t, s)
  PROVE  VerdictInv'
<1> DEFINE r   == tick[t].run
           new == StopSteps(row[r], "failed")
<1>1. /\ r \in Runs /\ r # NoRun /\ s \in tick[t].wait
      /\ \A u \in Ticks \ {t} : tick[u].run # r
  BY OnlyDriver DEF RunnerThrows, Awaits, OrderInv
<1>2. row[r] \in Row /\ new \in Row
  BY <1>1, RowOperatorsType DEF OrderInv, TypeOK
<1>3. RunFits(r, row[r], disk[r], asked) /\ CalmTick(tick[t], row, asked)
  BY <1>1 DEF VerdictInv
<1>4. row[r].status \in Active /\ row[r].st[s] \in Live
  BY <1>1, <1>3, Statuses DEF CalmTick, RunnerThrows, RowExists
<1>5. /\ new.status = "failed"
      /\ \A x \in Steps : new.st[x] = IF row[r].st[x] \in Live THEN "failed" ELSE row[r].st[x]
  BY <1>2 DEF StopSteps, Row
<1>6. asked' = asked /\ PersistAndReturn(t, r, new)
  BY DEF RunnerThrows
<1> HIDE DEF new, r
<1>7. RunFits(r, new, new, asked)
  <2>1. \A x \in Steps : new.st[x] \notin Live
    BY <1>5, Statuses
  <2>2. \A x \in Steps : <<r, x>> \in asked => new.st[x] = "succeeded"
    BY <1>3, <1>5, Statuses DEF RunFits
  <2>3. SoloEnds => \A x \in Steps : <<r, x>> \notin asked
    BY <1>3, <1>4, Statuses DEF RunFits
  <2>4. new.st[s] = "failed"
    BY <1>4, <1>5
  <2> QED BY <1>5, <2>1, <2>2, <2>3, <2>4, Statuses DEF RunFits, CalmRow, VerdictOf
<1> QED
  BY <1>1, <1>2, <1>6, <1>7, ReturnFits

LEMMA SettleDeletedFits ==
  ASSUME OrderInv, VerdictInv, NEW t \in Ticks, NEW s \in Steps, SettleDeleted(t, s)
  PROVE  VerdictInv'
<1>1. /\ tick \in [Ticks -> Tick] /\ row' = row /\ disk' = disk /\ asked' = asked
      /\ row[tick[t].run].status \notin Present
  BY DEF OrderInv, TypeOK, SettleDeleted, RowExists
<1>2. /\ tick'[t] = Idle \/ (tick'[t].run = tick[t].run /\ tick'[t].own = tick[t].own)
      /\ \A u \in Ticks \ {t} : tick'[u] = tick[u]
  BY <1>1 DEF SettleDeleted, Tick
<1>3. \A u \in Ticks : CalmTick(tick[u], row, asked)
  BY DEF VerdictInv
<1>4. CalmTick(tick'[t], row, asked)
  <2>1. CASE tick'[t] = Idle
    BY <2>1, IdleIsCalm
  <2>2. CASE tick'[t].run = tick[t].run /\ tick'[t].own = tick[t].own
    <3>1. row[tick[t].run].status \notin Active
      BY <1>1, Statuses
    <3> QED BY <1>3, <2>2, <3>1 DEF CalmTick
  <2> QED BY <1>2, <2>1, <2>2
<1> QED
  BY <1>1, <1>2, <1>3, <1>4 DEF VerdictInv

-----------------------------------------------------------------------------
(* How a run ends: the service, the operator and restarts *)

LEMMA ServiceFits ==
  ASSUME OrderInv, DurableInv, VerdictInv, Undisturbed, Service
  PROVE  VerdictInv'
<1>1. row \in [Runs -> Row] /\ disk \in [Runs -> Row] /\ Exclusive
  BY DEF OrderInv, TypeOK
<1>2. ASSUME UNCHANGED <<row, disk, tick, asked>> PROVE VerdictInv'
  BY <1>2 DEF VerdictInv
<1>3. CASE StartPass \/ EndPass \/ \E r \in Runs : SkipRun(r)
  BY <1>2, <1>3 DEF StartPass, EndPass, SkipRun
<1>4. ASSUME NEW r \in Runs, DispatchRun(r) PROVE VerdictInv'
  <2> DEFINE rw == [row[r] EXCEPT !.status = "running"]
             rows == [row EXCEPT ![r] = rw]
  <2>1. row[r].status = "absent" /\ row[r] \in Row /\ RunFits(r, row[r], disk[r], asked)
    BY <1>1, <1>4 DEF DispatchRun, VerdictInv
  <2>2. rw \in Row /\ rw.status = "running" /\ rw.st = row[r].st
    BY <2>1, Statuses DEF Row, RunStatus
  <2>3. \A s \in Steps : rw.st[s] = "none" /\ <<r, s>> \notin asked
    BY <2>1, <2>2 DEF RunFits, CalmRow
  <2>4. \A u \in Ticks : tick[u].run # r
    BY <1>1, <2>1, NoDriver DEF Exclusive, OrderInv
  <2>5. TickOnce(r, r, rows, rows, tick) /\ asked' = asked
    BY <1>1, <1>4 DEF DispatchRun
  <2> HIDE DEF rw
  <2>6. rows \in [Runs -> Row] /\ rows[r] = rw /\ rows = [row EXCEPT ![r] = rw] /\ r \in Ticks
    BY <1>1, <2>2
  <2>7. TickOnce(r, r, [row EXCEPT ![r] = rw], rows, tick)
    BY <2>5
  <2>8. RunFits(r, rw, rw, asked')
    <3>1. NoHaltBehind(rw.st)
      BY <2>3, ChainAssumption DEF NoHaltBehind
    <3> QED BY <2>2, <2>3, <2>5, <3>1, ActiveFits, Statuses
  <2>9. \A u \in Ticks \ {r} : tick[u].run # r
    BY <2>4
  <2>10. rows[r].st = rw.st /\ rows[r].status = rw.status /\ rw.status \in Active
    BY <2>2, <2>6, Statuses
  <2> HIDE DEF rows
  <2> QED BY <2>2, <2>5, <2>6, <2>7, <2>8, <2>9, <2>10, TickOnceFits
<1>5. ASSUME NEW r \in Runs, VisitRun(r) PROVE VerdictInv'
  <2> DEFINE rw == row[r]
  <2>1. /\ rw.status \in Active /\ r \notin inFlight /\ rw \in Row
        /\ TickOnce(Loop, r, row, disk, tick) /\ asked' = asked
    BY <1>1, <1>5 DEF VisitRun, Eligible
  <2>2. \A u \in Ticks : tick[u].run # r
    BY <2>1, NoDriver DEF OrderInv
  <2>3. RunFits(r, rw, disk[r], asked)
    BY DEF VerdictInv
  <2>4. disk[r].st = rw.st /\ disk[r].status = rw.status
    BY <2>2, <2>3, UndrivenIsSaved DEF RunFits
  <2>5. RunFits(r, rw, rw, asked')
    BY <2>1, <2>3, SavedFits
  <2>6. TickOnce(Loop, r, [row EXCEPT ![r] = rw], disk, tick)
    <3>1. [row EXCEPT ![r] = row[r]] = row
      BY <1>1
    <3> QED BY <2>1, <3>1
  <2>7. Loop \in Ticks /\ \A u \in Ticks \ {Loop} : tick[u].run # r
    BY <2>2
  <2> HIDE DEF rw
  <2> QED BY <1>1, <2>1, <2>4, <2>5, <2>6, <2>7, TickOnceFits
<1>6. ASSUME NEW d \in Runs, NEW r \in Runs, DispatchInTheSameMs(d, r) PROVE FALSE
  <2>1. used["tie"] < 0 /\ used["tie"] \in Nat
    BY <1>6 DEF DispatchInTheSameMs, Use, Undisturbed, QuietEnvironment, OrderInv, TypeOK, Ops
  <2> QED BY <2>1
<1> QED
  BY <1>3, <1>4, <1>5, <1>6 DEF Service

\* Where the operator leaves active runs alone, nothing is cancelled or retried.
LEMMA NotUndisturbed ==
  ASSUME TypeOK, Undisturbed, NEW r \in Runs,
         \/ CancelRun(r)
         \/ ContinueRun(r)
         \/ \E p \in Positions : RetryRunFromStep(r, p)
         \/ \E s \in Steps : RetryParallelStep(r, s)
  PROVE  FALSE
<1>1. Use("cancel") \/ Use("retry")
  BY DEF CancelRun, ContinueRun, RetryRunFromStep, RetryParallelStep, Rewind
<1>2. used["cancel"] \in Nat /\ used["retry"] \in Nat
  BY DEF TypeOK, Ops
<1> QED
  BY <1>1, <1>2 DEF Use, Undisturbed

LEMMA OperatorFits ==
  ASSUME OrderInv, VerdictInv, Undisturbed, Operator
  PROVE  VerdictInv'
<1>1. row \in [Runs -> Row] /\ TypeOK
  BY DEF OrderInv, TypeOK
<1>2. ASSUME NEW r \in Runs, PauseRun(r) \/ ResumeRun(r) PROVE VerdictInv'
  <2>1. \A x \in Runs : row'[x].status = row[x].status /\ row'[x].st = row[x].st
    BY <1>1, <1>2 DEF PauseRun, ResumeRun, Row
  <2>2. tick' = tick /\ disk' = row' /\ asked' = asked
    BY <1>2 DEF PauseRun, ResumeRun
  <2>3. ASSUME NEW x \in Runs PROVE RunFits(x, row'[x], disk'[x], asked')
    <3>1. RunFits(x, row[x], row[x], asked)
      BY SavedFits DEF VerdictInv
    <3> QED BY <2>1, <2>2, <3>1 DEF RunFits, CalmRow, VerdictOf
  <2>4. ASSUME NEW u \in Ticks PROVE CalmTick(tick'[u], row', asked')
    <3>1. CalmTick(tick[u], row, asked) /\ tick[u].run \in Runs \cup {NoRun}
      BY <1>1, TickRun DEF VerdictInv
    <3> QED BY <2>1, <2>2, <3>1 DEF CalmTick
  <2> QED BY <2>3, <2>4 DEF VerdictInv
<1>3. ASSUME NEW a \in Autos, DeleteAutomation(a) PROVE VerdictInv'
  <2> DEFINE mine == {r \in Runs : AutoOf[r] = a /\ RowExists(r)}
             gone == [Absent EXCEPT !.status = "deleted"]
  <2>1. /\ row' = [r \in Runs |-> IF r \in mine THEN gone ELSE row[r]]
        /\ tick' = tick /\ disk' = row' /\ asked' = {q \in asked : q[1] \notin mine}
        /\ Use("delete")
    BY <1>3 DEF DeleteAutomation
  <2>2. Bound["delete"] # 0
    BY <1>1, <2>1 DEF Use, TypeOK, Ops
  <2>3. gone.status = "deleted" /\ \A s \in Steps : gone.st[s] = "none"
    BY DEF Absent, NoSteps
  <2> HIDE DEF mine, gone
  <2>4. ASSUME NEW x \in Runs PROVE RunFits(x, row'[x], disk'[x], asked')
    <3>1. CASE x \in mine
      <4>1. row'[x] = gone /\ disk'[x] = gone /\ \A s \in Steps : <<x, s>> \notin asked'
        BY <2>1, <3>1
      <4> QED BY <2>2, <2>3, <4>1, Statuses DEF RunFits, CalmRow, VerdictOf
    <3>2. CASE x \notin mine
      <4>1. /\ row'[x] = row[x] /\ disk'[x] = row[x]
            /\ \A s \in Steps : <<x, s>> \in asked <=> <<x, s>> \in asked'
        BY <2>1, <3>2
      <4>2. RunFits(x, row[x], row[x], asked)
        BY SavedFits DEF VerdictInv
      <4> QED BY <4>1, <4>2, FitsFrame
    <3> QED BY <3>1, <3>2
  <2>5. ASSUME NEW u \in Ticks PROVE CalmTick(tick'[u], row', asked')
    <3>1. CalmTick(tick[u], row, asked) /\ tick[u].run \in Runs \cup {NoRun}
      BY <1>1, TickRun DEF VerdictInv
    <3>2. CASE tick[u].run \in mine
      <4>1. row'[tick[u].run].status = "deleted"
        BY <2>1, <2>3, <3>2 DEF mine
      <4> QED BY <2>1, <3>1, <4>1, Statuses DEF CalmTick
    <3>3. CASE tick[u].run \notin mine
      <4>1. tick[u].run # NoRun =>
              /\ row'[tick[u].run] = row[tick[u].run]
              /\ \A s \in Steps : <<tick[u].run, s>> \in asked <=> <<tick[u].run, s>> \in asked'
        BY <2>1, <3>1, <3>3
      <4> QED BY <2>1, <3>1, <4>1, TickFrame
    <3> QED BY <3>2, <3>3
  <2> QED BY <2>4, <2>5 DEF VerdictInv
<1> QED
  BY <1>1, <1>2, <1>3, NotUndisturbed DEF Operator

\* A settled run is on disk as it is in memory.
LEMMA SettledIsSaved ==
  ASSUME OrderInv, DurableInv, VerdictInv, NEW r \in Runs, row[r].status \in Settled
  PROVE  disk[r].st = row[r].st /\ disk[r].status = row[r].status
<1>1. \A u \in Ticks : tick[u].run # r
  <2> SUFFICES ASSUME NEW u \in Ticks, tick[u].run = r PROVE FALSE
    OBVIOUS
  <2>1. row[r].status \in Active \cup {"deleted"}
    BY RunAssumption DEF VerdictInv, CalmTick
  <2> QED BY <2>1, Statuses
<1> QED
  BY <1>1, UndrivenIsSaved DEF VerdictInv, RunFits

LEMMA RestartFits ==
  ASSUME OrderInv, DurableInv, VerdictInv, Restart
  PROVE  VerdictInv'
<1>1. /\ tick' = [t \in Ticks |-> Idle] /\ row' = disk /\ disk' = disk
      /\ asked' = {q \in asked : disk[q[1]].st[q[2]] = "succeeded"}
  BY DEF Restart
<1>2. \A u \in Ticks : CalmTick(tick'[u], row', asked')
  BY <1>1, IdleIsCalm
<1>3. ASSUME NEW x \in Runs PROVE RunFits(x, disk[x], disk[x], asked')
  <2>1. RunFits(x, row[x], disk[x], asked)
    BY DEF VerdictInv
  <2>2. \A s \in Steps : <<x, s>> \in asked' <=> <<x, s>> \in asked /\ disk[x].st[s] = "succeeded"
    BY <1>1
  <2>3. row[x].status \in Settled =>
          /\ disk[x].st = row[x].st
          /\ \A s \in Steps : <<x, s>> \in asked => <<x, s>> \in asked'
    BY <2>1, <2>2, SettledIsSaved DEF RunFits
  <2>4. VerdictOf(x, disk[x], asked')
    BY <2>1, <2>3, Statuses DEF RunFits, VerdictOf
  <2>5. SoloEnds => \A s \in Steps : <<x, s>> \in asked' =>
          /\ disk[x].status \in Settled
          /\ \A y \in Steps : PosOf[y] > PosOf[s] => disk[x].st[y] = "none"
    BY <2>1, <2>2, <2>3 DEF RunFits
  <2> QED BY <2>1, <2>2, <2>4, <2>5 DEF RunFits
<1> QED
  BY <1>1, <1>2, <1>3 DEF VerdictInv

LEMMA InitFits == Init => VerdictInv
<1> SUFFICES ASSUME Init PROVE VerdictInv
  OBVIOUS
<1>1. Absent.status = "absent" /\ \A s \in Steps : Absent.st[s] = "none"
  BY DEF Absent, NoSteps
<1> HIDE DEF Absent
<1>2. ASSUME NEW x \in Runs PROVE RunFits(x, Absent, Absent, {})
  BY <1>1, Statuses DEF RunFits, CalmRow, VerdictOf
<1> QED
  BY <1>2, IdleIsCalm DEF Init, VerdictInv

LEMMA VerdictInductive ==
  ASSUME Undisturbed, OrderInv, DurableInv, VerdictInv, [Next]_vars
  PROVE  VerdictInv'
<1>1. ASSUME NEW t \in Ticks, NEW s \in Steps, Settle(t, s) PROVE VerdictInv'
  BY <1>1, SettleSoloFits, SettleSiblingFits, RunnerThrowsFits, SettleDeletedFits DEF Settle
<1>2. CASE UNCHANGED vars
  BY <1>2 DEF vars, VerdictInv
<1>3. Executor => \E t \in Ticks, s \in Steps : Settle(t, s)
  BY DEF Executor, OrderInv
<1> QED
  BY <1>1, <1>2, <1>3, ServiceFits, OperatorFits, RestartFits DEF Next

LEMMA OutcomeInvariant ==
  ASSUME Undisturbed
  PROVE  Spec => [](OrderInv /\ DurableInv /\ VerdictInv)
<1>1. Init => OrderInv /\ DurableInv /\ VerdictInv
  BY InitOrdered, InitIsDurable, InitFits
<1>2. OrderInv /\ DurableInv /\ VerdictInv /\ [Next]_vars =>
        OrderInv' /\ DurableInv' /\ VerdictInv'
  BY OrderInductive, DurableInductive, VerdictInductive DEF Undisturbed
<1> QED
  BY <1>1, <1>2, PTL DEF Spec

\* Where nothing is cancelled or retried, the verdict on a run follows from its
\* steps: no step of a settled run is left live, a completed run is done, and a
\* failed run shows a failure; whatever crashes, throws, pauses or is deleted.
THEOREM VerdictsFit == ASSUME Undisturbed PROVE Spec => []VerdictFitsSteps
<1>1. VerdictInv => VerdictFitsSteps
  BY DEF VerdictInv, RunFits, VerdictOf, VerdictFitsSteps, SettledRunHasNoLiveStep,
         CompletedMeansDone, FailureHasACause
<1> QED
  BY <1>1, OutcomeInvariant, PTL

\* Nothing after a step that asked to end the chain is ever started, as long as
\* no member of a group asks for it.
THEOREM EndChainIsHonoured ==
  ASSUME Undisturbed, SoloEnds PROVE Spec => []EndChainHonoured
<1>1. VerdictInv => EndChainHonoured
  BY DEF VerdictInv, RunFits, EndChainHonoured
<1> QED
  BY <1>1, OutcomeInvariant, PTL

-----------------------------------------------------------------------------
(* What a step may not do to a run *)

LEMMA TickOnceKeepsDone ==
  ASSUME TypeOK, NEW t \in Ticks, NEW r \in Runs, NEW rw \in Row, NEW dsk,
         TickOnce(t, r, [row EXCEPT ![r] = rw], dsk, tick)
  PROVE  /\ \A x \in Runs \ {r} : row'[x] = row[x]
         /\ \A s \in Steps : rw.st[s] \in Done => row'[r].st[s] = rw.st[s]
<1>1. row \in [Runs -> Row] /\ [row EXCEPT ![r] = rw][r] = rw
  BY DEF TypeOK
<1>2. CASE PersistAndReturn(t, r, FinalizeRun(rw))
  <2>1. row' = [[row EXCEPT ![r] = FinalizeRun(rw)] EXCEPT ![r] = FinalizeRun(rw)]
        \/ row' = [row EXCEPT ![r] = FinalizeRun(rw)]
    BY <1>2 DEF PersistAndReturn
  <2>2. row'[r] = FinalizeRun(rw) /\ \A x \in Runs \ {r} : row'[x] = row[x]
    BY <1>1, <2>1
  <2> QED BY <2>2, StatusOnly
<1>3. ASSUME NEW p \in Positions,
             row' = [[row EXCEPT ![r] = rw] EXCEPT ![r].st = Materialise(rw.st, p)]
      PROVE  /\ \A x \in Runs \ {r} : row'[x] = row[x]
             /\ \A s \in Steps : rw.st[s] \in Done => row'[r].st[s] = rw.st[s]
  <2>1. /\ \A x \in Runs \ {r} : row'[x] = row[x]
        /\ row'[r] = [rw EXCEPT !.st = Materialise(rw.st, p)]
    BY <1>1, <1>3
  <2>2. row'[r].st = Materialise(rw.st, p)
    BY <2>1 DEF Row
  <2> QED BY <2>1, <2>2, Statuses DEF Materialise
<1> QED
  BY <1>1, <1>2, <1>3 DEF TickOnce

\* A tick changes an active run only, and nothing of it that is done.
DoneStays(r) ==
  /\ row[r].status \in Active
  /\ \A x \in Runs \ {r} : row'[x] = row[x]
  /\ \A s \in Steps : row[r].st[s] \in Done => row'[r].st[s] = row[r].st[s]

LEMMA SettleKeepsDone ==
  ASSUME OrderInv, VerdictInv, NEW t \in Ticks, NEW s \in Steps, Settle(t, s)
  PROVE  row' = row \/ \E r \in Runs : DoneStays(r)
<1> DEFINE r == tick[t].run
<1>1. TypeOK /\ row \in [Runs -> Row]
  BY DEF OrderInv, TypeOK
<1>2. ASSUME NEW new \in Row, PersistAndReturn(t, r, new) \/ PersistAndGoOn(t, r, new), r \in Runs,
             row[r].status \in Active,
             \A x \in Steps : row[r].st[x] \in Done => new.st[x] = row[r].st[x]
      PROVE  DoneStays(r)
  <2>1. CASE PersistAndReturn(t, r, new)
    BY <1>1, <1>2, <2>1 DEF PersistAndReturn, DoneStays
  <2>2. CASE PersistAndGoOn(t, r, new)
    <3>1. /\ \A x \in Runs \ {r} : row'[x] = row[x]
          /\ \A x \in Steps : new.st[x] \in Done => row'[r].st[x] = new.st[x]
      BY <1>1, <1>2, <2>2, TickOnceKeepsDone DEF PersistAndGoOn
    <3> QED BY <1>2, <3>1 DEF DoneStays
  <2> QED BY <1>2, <2>1, <2>2
<1>3. ASSUME NEW res \in Results(s), SettleSolo(t, s, res) \/ SettleSibling(t, s, res)
      PROVE  \E x \in Runs : DoneStays(x)
  <2> DEFINE rw == Land(t, s, res)
  <2>1. Awaits(t, s) /\ RowExists(r) /\ NoteAsked(t, s, res)
    BY <1>3 DEF SettleSolo, SettleSibling
  <2>2. r \in Runs /\ rw \in Row
    BY <2>1, OnlyDriver, LandKeepsOrder DEF OrderInv
  <2>3. /\ row[r].status \in Active /\ row[r].st[s] \in Live
        /\ rw.st = [row[r].st EXCEPT ![s] = StatusOf(res)]
    BY <2>1, LandedFacts
  <2>4. \A x \in Steps : row[r].st[x] \in Done => rw.st[x] = row[r].st[x]
    <3>1. row[r].st \in [Steps -> StepStatus]
      BY <1>1, <2>2 DEF Row
    <3> QED BY <2>3, <3>1, Statuses
  <2>5. /\ [rw EXCEPT !.status = "failed"] \in Row /\ [rw EXCEPT !.status = "failed"].st = rw.st
        /\ FinalizeRun(rw) \in Row /\ FinalizeRun(rw).st = rw.st
        /\ Propagate(rw) \in Row /\ Propagate(rw).st = rw.st
    <3> HIDE DEF rw
    <3>1. [rw EXCEPT !.status = "failed"].st = rw.st
      BY <2>2 DEF Row
    <3> QED BY <2>2, <3>1, RowOperatorsType, StatusOnly
  <2>6. \/ \E new \in {rw, [rw EXCEPT !.status = "failed"], FinalizeRun(rw), Propagate(rw)} :
             PersistAndReturn(t, r, new) \/ PersistAndGoOn(t, r, new)
        \/ row' = [row EXCEPT ![r] = rw]
    BY <1>3 DEF SettleSolo, SettleSibling, AfterGroup
  <2> HIDE DEF rw
  <2>7. CASE row' = [row EXCEPT ![r] = rw]
    BY <1>1, <2>2, <2>3, <2>4, <2>7 DEF DoneStays
  <2>8. ASSUME NEW new \in {rw, [rw EXCEPT !.status = "failed"], FinalizeRun(rw), Propagate(rw)},
               PersistAndReturn(t, r, new) \/ PersistAndGoOn(t, r, new)
        PROVE  DoneStays(r)
    <3>1. new \in Row /\ new.st = rw.st
      BY <2>2, <2>5, <2>8
    <3>2. \A x \in Steps : row[r].st[x] \in Done => new.st[x] = row[r].st[x]
      BY <2>4, <3>1
    <3> QED BY <1>2, <2>2, <2>3, <2>8, <3>1, <3>2
  <2> QED BY <2>2, <2>6, <2>7, <2>8
<1>4. CASE RunnerThrows(t, s)
  <2> DEFINE new == StopSteps(row[r], "failed")
  <2>1. /\ r \in Runs /\ r # NoRun /\ row[r] \in Row /\ PersistAndReturn(t, r, new)
    BY <1>1, <1>4, OnlyDriver DEF RunnerThrows, Awaits, OrderInv
  <2>2. row[r].status \in Active
    BY <1>4, <2>1, Statuses DEF VerdictInv, CalmTick, RunnerThrows, RowExists
  <2>3. new \in Row
    BY <2>1, RowOperatorsType
  <2>4. \A x \in Steps : row[r].st[x] \in Done => new.st[x] = row[r].st[x]
    BY <2>1, Statuses DEF StopSteps, Row
  <2> HIDE DEF new
  <2> QED BY <1>2, <2>1, <2>2, <2>3, <2>4
<1>5. CASE SettleDeleted(t, s)
  BY <1>5 DEF SettleDeleted
<1> QED
  BY <1>3, <1>4, <1>5 DEF Settle

\* What any step leaves of a run.
RunKept(r) ==
  \/ row'[r].status = "deleted"
  \/ \A s \in Steps : disk[r].st[s] \in Done => row'[r].st[s] = disk[r].st[s]

LEMMA StepKeepsRun ==
  ASSUME Undisturbed, OrderInv, DurableInv, VerdictInv, [Next]_vars, NEW r \in Runs
  PROVE  RunKept(r)
<1>1. /\ TypeOK /\ row \in [Runs -> Row] /\ Exclusive
      /\ \A s \in Steps : disk[r].st[s] \in Done => row[r].st[s] = disk[r].st[s]
  BY DEF OrderInv, TypeOK, VerdictInv, RunFits
<1>2. ASSUME row'[r].st = row[r].st PROVE RunKept(r)
  BY <1>1, <1>2 DEF RunKept
<1>3. ASSUME row'[r] = row[r] PROVE RunKept(r)
  BY <1>2, <1>3
<1>4. ASSUME NEW x \in Runs, DoneStays(x) PROVE RunKept(r)
  <2>1. CASE x = r
    BY <1>1, <1>4, <2>1, Statuses DEF DoneStays, RunKept
  <2>2. CASE x # r
    BY <1>3, <1>4, <2>2 DEF DoneStays
  <2> QED BY <2>1, <2>2
<1>5. ASSUME NEW t \in Ticks, NEW s \in Steps, Settle(t, s) PROVE RunKept(r)
  BY <1>3, <1>4, <1>5, SettleKeepsDone
<1>6. ASSUME NEW x \in Runs, DispatchRun(x) PROVE RunKept(r)
  <2> DEFINE rw == [row[x] EXCEPT !.status = "running"]
             rows == [row EXCEPT ![x] = rw]
  <2>1. row[x].status = "absent" /\ row[x] \in Row
    BY <1>1, <1>6 DEF DispatchRun
  <2>2. rw \in Row /\ rw.st = row[x].st
    BY <2>1, Statuses DEF Row, RunStatus
  <2>3. TickOnce(x, x, rows, rows, tick) /\ rows = [row EXCEPT ![x] = rw]
    BY <1>1, <1>6 DEF DispatchRun
  <2> HIDE DEF rw
  <2>4. TickOnce(x, x, [row EXCEPT ![x] = rw], rows, tick)
    BY <2>3
  <2> HIDE DEF rows
  <2>5. /\ \A y \in Runs \ {x} : row'[y] = row[y]
        /\ \A s \in Steps : rw.st[s] \in Done => row'[x].st[s] = rw.st[s]
    BY <1>1, <2>2, <2>4, TickOnceKeepsDone
  <2>6. CASE x = r
    BY <1>1, <2>1, <2>2, <2>5, <2>6, Statuses DEF RunKept
  <2> QED BY <1>3, <2>5, <2>6
<1>7. ASSUME NEW x \in Runs, VisitRun(x) PROVE RunKept(r)
  <2>1. row[x].status \in Active /\ row[x] \in Row /\ TickOnce(Loop, x, row, disk, tick)
    BY <1>1, <1>7 DEF VisitRun, Eligible
  <2>2. TickOnce(Loop, x, [row EXCEPT ![x] = row[x]], disk, tick) /\ Loop \in Ticks
    <3>1. [row EXCEPT ![x] = row[x]] = row
      BY <1>1
    <3> QED BY <2>1, <3>1
  <2>3. /\ \A y \in Runs \ {x} : row'[y] = row[y]
        /\ \A s \in Steps : row[x].st[s] \in Done => row'[x].st[s] = row[x].st[s]
    <3> DEFINE rw == row[x]
    <3>1. rw \in Row /\ TickOnce(Loop, x, [row EXCEPT ![x] = rw], disk, tick)
      BY <2>1, <2>2
    <3> HIDE DEF rw
    <3>2. /\ \A y \in Runs \ {x} : row'[y] = row[y]
          /\ \A s \in Steps : rw.st[s] \in Done => row'[x].st[s] = rw.st[s]
      BY <1>1, <2>2, <3>1, TickOnceKeepsDone
    <3> QED BY <3>2 DEF rw
  <2>4. DoneStays(x)
    BY <2>1, <2>3 DEF DoneStays
  <2> QED BY <1>4, <2>4
<1>8. ASSUME NEW d \in Runs, NEW x \in Runs, DispatchInTheSameMs(d, x) PROVE FALSE
  <2>1. used["tie"] < 0 /\ used["tie"] \in Nat
    BY <1>1, <1>8 DEF DispatchInTheSameMs, Use, Undisturbed, QuietEnvironment, TypeOK, Ops
  <2> QED BY <2>1
<1>9. Service => RunKept(r)
  <2>1. StartPass \/ EndPass \/ (\E x \in Runs : SkipRun(x)) => row' = row
    BY DEF StartPass, EndPass, SkipRun
  <2> QED BY <1>3, <1>6, <1>7, <1>8, <2>1 DEF Service
<1>10. Operator => RunKept(r)
  <2>1. ASSUME NEW x \in Runs, PauseRun(x) \/ ResumeRun(x) PROVE RunKept(r)
    <3>1. row'[r].status = row[r].status /\ row'[r].st = row[r].st
      BY <1>1, <2>1 DEF PauseRun, ResumeRun, Row
    <3> QED BY <1>2, <3>1
  <2>2. ASSUME NEW a \in Autos, DeleteAutomation(a) PROVE RunKept(r)
    <3>1. row'[r] = [Absent EXCEPT !.status = "deleted"] \/ row'[r] = row[r]
      BY <2>2 DEF DeleteAutomation
    <3>2. [Absent EXCEPT !.status = "deleted"].status = "deleted"
      BY DEF Absent
    <3> QED BY <1>3, <3>1, <3>2 DEF RunKept
  <2> QED BY <1>1, <2>1, <2>2, NotUndisturbed DEF Operator
<1>11. Restart => RunKept(r)
  BY DEF Restart, RunKept
<1>12. UNCHANGED vars => RunKept(r)
  BY <1>3 DEF vars
<1>13. Executor => \E t \in Ticks, s \in Steps : Settle(t, s)
  BY DEF Executor, OrderInv
<1> QED
  BY <1>5, <1>9, <1>10, <1>11, <1>12, <1>13 DEF Next

\* A step result on disk is never redone or rewritten, by any tick or restart,
\* where nothing is cancelled or retried.
THEOREM ResultsAreKept == ASSUME Undisturbed PROVE Spec => DurableResultKept
<1>1. OrderInv /\ DurableInv /\ VerdictInv /\ [Next]_vars =>
        [\A r \in Runs, s \in Steps :
           disk[r].st[s] \in Done /\ row'[r].st[s] # disk[r].st[s] =>
             used'["retry"] > used["retry"] \/ row'[r].status = "deleted"]_vars
  BY StepKeepsRun DEF RunKept
<1> QED
  BY <1>1, OutcomeInvariant, PTL DEF Spec, DurableResultKept

-----------------------------------------------------------------------------
(* What a tick does to the status of runs *)

\* The tick t works on the run r and on no other, and ends with a verdict or
\* goes on with a run that has none.
TickWorks(t, r) ==
  /\ \A x \in Runs \ {r} : row'[x].status = row[x].status
  /\ \A u \in Ticks \ {t} : tick'[u].run = tick[u].run
  /\ tick'[t].run \in {r, NoRun}
  /\ row'[r].status \in Present
  /\ tick'[t].run = r /\ row[r].status \notin Settled => row'[r].status \in Active

LEMMA ReturnWorks ==
  ASSUME TypeOK, NEW t \in Ticks, NEW r \in Runs, NEW rw \in Row, rw.status \in Present,
         PersistAndReturn(t, r, rw)
  PROVE  TickWorks(t, r) /\ StatusOnDisk'
<1>1. row \in [Runs -> Row] /\ tick \in [Ticks -> Tick] /\ Idle.run = NoRun
  BY DEF TypeOK, Idle
<1> QED
  BY <1>1, RunAssumption DEF PersistAndReturn, TickWorks, StatusOnDisk

LEMMA TickOnceWorks ==
  ASSUME TypeOK, NEW t \in Ticks, NEW r \in Runs, NEW rw \in Row, NEW dsk,
         rw.status \in Present, row[r].status \notin Settled => rw.status \in Active,
         TickOnce(t, r, [row EXCEPT ![r] = rw], dsk, tick)
  PROVE  /\ TickWorks(t, r)
         /\ (\A x \in Runs : dsk[x].status = IF x = r THEN rw.status ELSE row[x].status)
              => StatusOnDisk'
<1> DEFINE rows == [row EXCEPT ![r] = rw]
<1>1. /\ row \in [Runs -> Row] /\ rows \in [Runs -> Row] /\ tick \in [Ticks -> Tick]
      /\ \A x \in Runs : rows[x] = IF x = r THEN rw ELSE row[x]
  BY DEF TypeOK
<1>2. TickOnce(t, r, rows, dsk, tick)
  OBVIOUS
<1> HIDE DEF rows
<1>3. \/ PersistAndReturn(t, r, FinalizeRun(rows[r]))
      \/ /\ \A x \in Runs : row'[x].status = rows[x].status
         /\ tick'[t].run = r /\ \A u \in Ticks \ {t} : tick'[u] = tick[u]
         /\ disk' = row' \/ disk' = dsk
  <2> HIDE DEF Ticks
  <2> QED BY <1>1, <1>2, TickOnceShape
<1>4. CASE PersistAndReturn(t, r, FinalizeRun(rows[r]))
  <2>1. FinalizeRun(rw) \in Row /\ FinalizeRun(rw).status \in Present
    BY RowOperatorsType, Statuses DEF FinalizeRun, Row
  <2> QED BY <1>1, <1>4, <2>1, ReturnWorks
<1>5. CASE /\ \A x \in Runs : row'[x].status = rows[x].status
           /\ tick'[t].run = r /\ \A u \in Ticks \ {t} : tick'[u] = tick[u]
           /\ disk' = row' \/ disk' = dsk
  BY <1>1, <1>5 DEF TickWorks, StatusOnDisk
<1> QED
  BY <1>3, <1>4, <1>5

LEMMA GoOnWorks ==
  ASSUME TypeOK, NEW t \in Ticks, NEW r \in Runs, NEW rw \in Row,
         rw.status \in Present, row[r].status \notin Settled => rw.status \in Active,
         PersistAndGoOn(t, r, rw)
  PROVE  TickWorks(t, r) /\ StatusOnDisk'
<1> DEFINE rows == [row EXCEPT ![r] = rw]
<1>1. \A x \in Runs : rows[x].status = IF x = r THEN rw.status ELSE row[x].status
  BY DEF TypeOK
<1>2. TickOnce(t, r, [row EXCEPT ![r] = rw], rows, tick)
  BY DEF PersistAndGoOn
<1> HIDE DEF rows
<1> QED
  BY <1>1, <1>2, TickOnceWorks

LEMMA SettleWorks ==
  ASSUME TypeOK, NEW t \in Ticks, NEW s \in Steps, Settle(t, s), ~SettleDeleted(t, s)
  PROVE  /\ tick[t].run \in Runs /\ tick[t].run # NoRun /\ TickWorks(t, tick[t].run)
         /\ StatusOnDisk => StatusOnDisk'
<1> DEFINE r == tick[t].run
<1>1. row \in [Runs -> Row] /\ tick \in [Ticks -> Tick]
  BY DEF TypeOK
<1>2. ASSUME NEW new \in Row, new.status \in Present, r \in Runs,
             row[r].status \in Active => new.status \in Active,
             RowExists(r), PersistAndGoOn(t, r, new)
      PROVE  TickWorks(t, r) /\ StatusOnDisk'
  BY <1>2, GoOnWorks, Statuses DEF RowExists
<1>3. ASSUME NEW res \in Results(s), SettleSolo(t, s, res) \/ SettleSibling(t, s, res)
      PROVE  /\ r \in Runs /\ r # NoRun /\ TickWorks(t, r)
             /\ StatusOnDisk => StatusOnDisk'
  <2>1. Awaits(t, s) /\ r \in Runs /\ RowExists(r) /\ r # NoRun
    BY <1>3, SettleOutcome DEF Awaits
  <2>2. \/ \E new \in Row : new.status \in Present /\ PersistAndReturn(t, r, new)
        \/ \E new \in Row : /\ new.status \in Present
                            /\ row[r].status \in Active => new.status \in Active
                            /\ PersistAndGoOn(t, r, new)
        \/ \E new \in Row, tk \in Tick :
              /\ new.status = row[r].status /\ tk.run = r
              /\ row' = [row EXCEPT ![r] = new] /\ tick' = [tick EXCEPT ![t] = tk]
              /\ UNCHANGED <<disk, inFlight>>
    BY <1>3, SettleOutcome
  <2>3. ASSUME NEW new \in Row, NEW tk \in Tick, new.status = row[r].status, tk.run = r,
               row' = [row EXCEPT ![r] = new], tick' = [tick EXCEPT ![t] = tk], disk' = disk
        PROVE  TickWorks(t, r) /\ (StatusOnDisk => StatusOnDisk')
    <3>1. row[r].status \notin Settled => row[r].status \in Active
      BY <2>1, Statuses DEF RowExists
    <3>2. \A x \in Runs : row'[x].status = row[x].status
      BY <1>1, <2>1, <2>3
    <3>3. \A u \in Ticks : tick'[u].run = tick[u].run
      BY <1>1, <2>3
    <3> HIDE DEF Ticks
    <3> QED BY <2>1, <2>3, <3>1, <3>2, <3>3 DEF TickWorks, StatusOnDisk, RowExists
  <2> HIDE DEF r
  <2> QED BY <1>2, <2>1, <2>2, <2>3, ReturnWorks
<1>4. CASE RunnerThrows(t, s)
  <2>1. r \in Runs /\ r # NoRun /\ row[r] \in Row
    BY <1>4, AwaitsType DEF RunnerThrows, Awaits
  <2> DEFINE new == StopSteps(row[r], "failed")
  <2>2. new \in Row /\ new.status \in Present /\ PersistAndReturn(t, r, new)
    BY <1>4, <2>1, RowOperatorsType DEF RunnerThrows, StopSteps, Row, Present, Settled
  <2> HIDE DEF new
  <2> QED BY <2>1, <2>2, ReturnWorks
<1> QED
  BY <1>3, <1>4 DEF Settle

LEMMA StartWorks ==
  ASSUME TypeOK, NEW r \in Runs
  PROVE  /\ DispatchRun(r) => /\ row[r].status = "absent" /\ TickWorks(r, r)
                              /\ StatusOnDisk => StatusOnDisk'
         /\ VisitRun(r) => /\ row[r].status \in Active /\ r \notin inFlight
                           /\ TickWorks(Loop, r)
                           /\ StatusOnDisk => StatusOnDisk'
<1>1. row \in [Runs -> Row]
  BY DEF TypeOK
<1>2. ASSUME DispatchRun(r)
      PROVE  /\ row[r].status = "absent" /\ TickWorks(r, r)
             /\ StatusOnDisk => StatusOnDisk'
  <2> DEFINE rw == [row[r] EXCEPT !.status = "running"]
             rows == [row EXCEPT ![r] = rw]
  <2>1. rw \in Row /\ rw.status \in Active /\ rw.status \in Present
    BY <1>1, Statuses DEF Row, RunStatus
  <2>2. row[r].status = "absent" /\ TickOnce(r, r, rows, rows, tick)
    BY <1>2 DEF DispatchRun
  <2> HIDE DEF rw
  <2>3. \A x \in Runs : rows[x].status = IF x = r THEN rw.status ELSE row[x].status
    BY <1>1
  <2>4. TickOnce(r, r, [row EXCEPT ![r] = rw], rows, tick)
    BY <2>2
  <2> HIDE DEF rows
  <2> QED BY <2>1, <2>2, <2>3, <2>4, TickOnceWorks
<1>3. ASSUME VisitRun(r)
      PROVE  /\ row[r].status \in Active /\ r \notin inFlight /\ TickWorks(Loop, r)
             /\ StatusOnDisk => StatusOnDisk'
  <2> DEFINE rw == row[r]
  <2>1. rw \in Row /\ [row EXCEPT ![r] = rw] = row
    BY <1>1
  <2>2. rw.status \in Active /\ r \notin inFlight /\ TickOnce(Loop, r, row, disk, tick)
    BY <1>3 DEF VisitRun, Eligible
  <2>3. TickOnce(Loop, r, [row EXCEPT ![r] = rw], disk, tick) /\ Loop \in Ticks
    BY <2>1, <2>2
  <2>4. rw.status \in Present
    BY <2>2, Statuses
  <2>5. StatusOnDisk =>
          \A x \in Runs : disk[x].status = IF x = r THEN rw.status ELSE row[x].status
    BY DEF StatusOnDisk
  <2>6. rw.status = row[r].status
    OBVIOUS
  <2> HIDE DEF rw
  <2> QED BY <2>1, <2>2, <2>3, <2>4, <2>5, <2>6, TickOnceWorks
<1> QED
  BY <1>2, <1>3

-----------------------------------------------------------------------------
(* A pass visits every run *)

-----------------------------------------------------------------------------
(* Verdicts are final *)

\* Where nothing is cancelled or retried: no tick holds a settled run, memory
\* and disk agree on the status of every run, and a verdict stays.
LEMMA StepKeepsVerdicts ==
  ASSUME Bound["tie"] = 0, Bound["cancel"] = 0, Bound["retry"] = 0,
         TypeOK, Exclusive, DrivenIsUnsettled, StatusOnDisk, [Next]_vars
  PROVE  /\ DrivenIsUnsettled' /\ StatusOnDisk'
         /\ \A r \in Runs : row[r].status \in Settled =>
              row'[r].status \in {row[r].status, "deleted"}
<1> DEFINE Goal == /\ DrivenIsUnsettled' /\ StatusOnDisk'
                   /\ \A r \in Runs : row[r].status \in Settled =>
                        row'[r].status \in {row[r].status, "deleted"}
<1>1. row \in [Runs -> Row] /\ tick \in [Ticks -> Tick] /\ used \in [Ops -> Nat]
  BY DEF TypeOK
<1>2. ASSUME \A t \in Ticks : tick'[t].run \in {tick[t].run, NoRun},
             \A r \in Runs : row'[r].status \in {row[r].status, "deleted"},
             StatusOnDisk'
      PROVE  Goal
  BY <1>1, <1>2 DEF DrivenIsUnsettled, Tick
<1>3. ASSUME \A t \in Ticks : tick'[t].run \in {tick[t].run, NoRun},
             \A r \in Runs : row'[r].status = row[r].status,
             disk' = row' \/ disk' = disk
      PROVE  Goal
  <2>1. StatusOnDisk'
    BY <1>3 DEF StatusOnDisk
  <2> QED BY <1>2, <1>3, <2>1
<1>4. ASSUME NEW t \in Ticks, NEW r \in Runs, TickWorks(t, r), StatusOnDisk',
             row[r].status \notin Settled, \A u \in Ticks \ {t} : tick[u].run # r
      PROVE  Goal
  <2>1. \A u \in Ticks : tick[u].run \in Runs \cup {NoRun}
    BY <1>1 DEF Tick
  <2>2. DrivenIsUnsettled'
    BY <1>4, <2>1 DEF TickWorks, DrivenIsUnsettled
  <2> QED BY <1>4, <2>2 DEF TickWorks
<1>5. CASE Executor
  <2>1. ASSUME NEW t \in Ticks, NEW s \in Steps, SettleDeleted(t, s) PROVE Goal
    <3>1. \A u \in Ticks : tick'[u].run \in {tick[u].run, NoRun}
      BY <1>1, <2>1 DEF SettleDeleted, Tick, Idle
    <3> QED BY <1>3, <2>1, <3>1 DEF SettleDeleted
  <2>2. ASSUME NEW c \in late, NEW res \in Results(c.step), LateSettle(c, res)
        PROVE  Goal
    <3>1. \A r \in Runs : row'[r].status = row[r].status
      BY <1>1, <2>2 DEF LateSettle, Row
    <3> QED BY <1>3, <2>2, <3>1 DEF LateSettle
  <2>3. ASSUME NEW t \in Ticks, NEW s \in Steps, Settle(t, s), ~SettleDeleted(t, s)
        PROVE  Goal
    <3> DEFINE r == tick[t].run
    <3>1. r \in Runs /\ r # NoRun /\ TickWorks(t, r) /\ StatusOnDisk'
      BY <2>3, SettleWorks
    <3>2. row[r].status \notin Settled
      BY <3>1, Statuses DEF DrivenIsUnsettled
    <3>3. \A u \in Ticks \ {t} : tick[u].run # r
      BY <3>1 DEF Exclusive, TickExclusion
    <3> HIDE DEF r, Goal
    <3> QED BY <1>4, <3>1, <3>2, <3>3
  <2> QED BY <1>5, <2>1, <2>2, <2>3 DEF Executor
<1>6. CASE Service
  <2>1. StartPass \/ EndPass \/ (\E r \in Runs : SkipRun(r)) => Goal
    BY <1>3 DEF StartPass, EndPass, SkipRun
  <2>2. ASSUME NEW r \in Runs, DispatchRun(r) PROVE Goal
    <3>1. row[r].status = "absent" /\ TickWorks(r, r) /\ StatusOnDisk'
      BY <2>2, StartWorks
    <3>2. \A u \in Ticks : tick[u].run # r
      BY <3>1, NoDriver DEF Exclusive
    <3> HIDE DEF Goal
    <3> QED BY <1>4, <3>1, <3>2, Statuses
  <2>3. ASSUME NEW r \in Runs, VisitRun(r) PROVE Goal
    <3>1. /\ row[r].status \in Active /\ r \notin inFlight
          /\ TickWorks(Loop, r) /\ StatusOnDisk'
      BY <2>3, StartWorks
    <3>2. \A u \in Ticks : tick[u].run # r
      BY <3>1, NoDriver
    <3>3. row[r].status \notin Settled
      BY <3>1, Statuses
    <3> HIDE DEF Goal
    <3> QED BY <1>4, <3>1, <3>2, <3>3
  <2>4. ASSUME NEW d \in Runs, NEW r \in Runs, DispatchInTheSameMs(d, r) PROVE FALSE
    BY <1>1, <2>4 DEF DispatchInTheSameMs, Use, Ops
  <2> QED BY <1>6, <2>1, <2>2, <2>3, <2>4 DEF Service
<1>7. CASE Operator
  <2>1. ASSUME NEW r \in Runs, CancelRun(r) PROVE FALSE
    BY <1>1, <2>1 DEF CancelRun, Use, Ops
  <2>2. ASSUME NEW r \in Runs, NEW gone, NEW again, Rewind(r, gone, again) PROVE FALSE
    BY <1>1, <2>2 DEF Rewind, Use, Ops
  <2>3. ASSUME NEW r \in Runs, PauseRun(r) \/ ResumeRun(r) PROVE Goal
    <3>1. \A x \in Runs : row'[x].status = row[x].status /\ row'[x].st = row[x].st
      BY <1>1, <2>3 DEF PauseRun, ResumeRun, Row
    <3> QED BY <1>3, <2>3, <3>1 DEF PauseRun, ResumeRun
  <2>4. ASSUME NEW a \in Autos, DeleteAutomation(a) PROVE Goal
    <3>1. [Absent EXCEPT !.status = "deleted"].status = "deleted"
      BY DEF Absent
    <3>2. \A x \in Runs : row'[x].status \in {row[x].status, "deleted"}
      BY <2>4, <3>1 DEF DeleteAutomation
    <3>3. StatusOnDisk' /\ tick' = tick
      BY <2>4 DEF DeleteAutomation, StatusOnDisk
    <3> QED BY <1>2, <3>2, <3>3
  <2> QED BY <1>7, <2>1, <2>2, <2>3, <2>4
          DEF Operator, ContinueRun, RetryRunFromStep, RetryParallelStep
<1>8. CASE Restart
  <2>1. \A t \in Ticks : tick'[t].run = NoRun
    BY <1>8 DEF Restart, Idle
  <2>2. \A x \in Runs : row'[x].status = row[x].status
    BY <1>8 DEF Restart, StatusOnDisk
  <2> QED BY <1>3, <1>8, <2>1, <2>2 DEF Restart
<1>9. CASE UNCHANGED vars
  BY <1>3, <1>9 DEF vars
<1> QED
  BY <1>5, <1>6, <1>7, <1>8, <1>9 DEF Next

\* A settled run keeps its verdict, by any tick or restart and whichever runner
\* throws, where nothing is cancelled or retried and no two dispatches share a
\* millisecond.
THEOREM VerdictsAreFinal ==
  ASSUME Bound["tie"] = 0, Bound["cancel"] = 0, Bound["retry"] = 0
  PROVE  Spec => SettledIsFinal
<1> DEFINE Inv == TypeOK /\ Exclusive /\ DrivenIsUnsettled /\ StatusOnDisk
<1>1. Init => Inv
  BY InitType, InitExclusive DEF Init, DrivenIsUnsettled, StatusOnDisk, Idle
<1>2. Inv /\ [Next]_vars => Inv'
  BY NextType, ExclusiveInductive, StepKeepsVerdicts
<1>3. Inv /\ [Next]_vars =>
        [\A r \in Runs :
           row[r].status \in Settled /\ row'[r].status # row[r].status =>
             used'["retry"] > used["retry"] \/ row'[r].status = "deleted"]_vars
  BY StepKeepsVerdicts
<1> QED
  <2> HIDE DEF Inv
  <2> QED BY <1>1, <1>2, <1>3, PTL DEF Spec, SettledIsFinal
=============================================================================
