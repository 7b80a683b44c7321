------------------------ MODULE AutomationRunsProofs ------------------------
(* Type correctness of AutomationRuns, its locks, tick exclusion and step order,*)
(* for every chain, every set of runs and every number of cancels, retries,    *)
(* pauses, deletions, throws (for the step order: of solo steps) and restarts. *)
EXTENDS AutomationRuns, TLAPS

USE DEF Ticks

-----------------------------------------------------------------------------
(* Type correctness *)

LEMMA PositionsAreNat == Positions \subseteq Nat
  BY ChainAssumption DEF Positions, Steps

LEMMA IdleType == Idle \in Tick
  BY DEF Idle, Tick, Attached

LEMMA StatusOfType ==
  ASSUME NEW s \in Steps, NEW res \in Results(s)
  PROVE  StatusOf(res) \in Live \cup Done
  BY DEF Results, StatusOf, Live, Done

LEMMA RowOperatorsType ==
  ASSUME NEW rw \in Row
  PROVE  /\ FinalizeRun(rw) \in Row
         /\ Propagate(rw) \in Row
         /\ StopSteps(rw, "failed") \in Row
         /\ StopSteps(rw, "cancelled") \in Row
         /\ [rw EXCEPT !.status = "failed"] \in Row
         /\ [rw EXCEPT !.status = "running"] \in Row
         /\ \A p \in Positions : [rw EXCEPT !.st = Materialise(rw.st, p)] \in Row
  BY DEF FinalizeRun, Propagate, StopSteps, Materialise, Row, RunStatus, Present,
         Active, Settled, StepStatus, Live, Done

LEMMA LandType ==
  ASSUME TypeOK, NEW t \in Ticks, NEW s \in Steps, NEW res \in Results(s),
         tick[t].run \in Runs
  PROVE  Land(t, s, res) \in Row
<1> DEFINE r  == tick[t].run
           v  == IF tick[t].own[s] = "live" THEN StatusOf(res) ELSE row[r].st[s]
<1>1. row[r] \in Row
  BY DEF TypeOK
<1>2. v \in StepStatus
  BY <1>1, StatusOfType DEF Row, StepStatus
<1>3. [row[r] EXCEPT !.st[s] = v] \in Row
  <2> HIDE DEF v, r
  <2> QED BY <1>1, <1>2 DEF Row
<1> QED
  BY <1>3 DEF Land

\* The state after a tick has returned is well typed.
LEMMA ReturnType ==
  ASSUME TypeOK, NEW t \in Ticks, NEW r \in Runs, NEW rw \in Row,
         PersistAndReturn(t, r, rw)
  PROVE  /\ row' \in [Runs -> Row] /\ disk' \in [Runs -> Row]
         /\ tick' \in [Ticks -> Tick] /\ inFlight' \subseteq Runs
  BY IdleType DEF PersistAndReturn, TypeOK

\* So is the state after a tick has called the runners of its next position.
LEMMA TickOnceType ==
  ASSUME TypeOK, NEW t \in Ticks, NEW r \in Runs,
         NEW rows \in [Runs -> Row], NEW dsk \in [Runs -> Row],
         NEW ticks \in [Ticks -> Tick],
         row \in [Runs -> Row],
         TickOnce(t, r, rows, dsk, ticks)
  PROVE  /\ row' \in [Runs -> Row] /\ disk' \in [Runs -> Row]
         /\ tick' \in [Ticks -> Tick] /\ inFlight' \subseteq Runs
<1>1. CASE AllDone(rows[r].st) /\ PersistAndReturn(t, r, FinalizeRun(rows[r]))
  BY <1>1, ReturnType, RowOperatorsType
<1>2. ASSUME NEW p \in Positions, Current(rows[r].st, p),
             row' = [rows EXCEPT ![r].st = Materialise(rows[r].st, p)],
             disk' = DiskAtCall(p, [rows EXCEPT ![r].st = Materialise(rows[r].st, p)],
                                rows, dsk),
             tick' = [ticks EXCEPT ![t] =
                       [Idle EXCEPT !.run = r, !.pos = p,
                          !.wait = {s \in StepsAt(p) : rows[r].st[s] \notin Done}]],
             inFlight' = inFlight \cup {r}
      PROVE  /\ row' \in [Runs -> Row] /\ disk' \in [Runs -> Row]
             /\ tick' \in [Ticks -> Tick] /\ inFlight' \subseteq Runs
  <2>1. row' = [rows EXCEPT ![r] = [rows[r] EXCEPT !.st = Materialise(rows[r].st, p)]]
    BY <1>2
  <2>2. [rows[r] EXCEPT !.st = Materialise(rows[r].st, p)] \in Row
    <3>1. rows[r] \in Row
      OBVIOUS
    <3> QED BY <3>1, RowOperatorsType
  <2>3. row' \in [Runs -> Row]
    <3> HIDE DEF Row
    <3> QED BY <2>1, <2>2
  <2>4. disk' \in [Runs -> Row]
    BY <1>2, <2>3 DEF DiskAtCall
  <2>5. [Idle EXCEPT !.run = r, !.pos = p,
            !.wait = {s \in StepsAt(p) : rows[r].st[s] \notin Done}] \in Tick
    BY IdleType, PositionsAreNat DEF Tick, StepsAt
  <2> QED
    BY <1>2, <2>3, <2>4, <2>5 DEF TypeOK
<1> QED
  BY <1>1, <1>2 DEF TickOnce

\* The operations of an operator and a bounded environment keep `used` typed.
LEMMA UseType ==
  ASSUME used \in [Ops -> Nat], NEW op \in Ops, Use(op)
  PROVE  used' \in [Ops -> Nat]
  BY DEF Use

LEMMA NoteAskedType ==
  ASSUME TypeOK, NEW t \in Ticks, NEW s \in Steps, NEW res,
         tick[t].run \in Runs, NoteAsked(t, s, res)
  PROVE  asked' \subseteq Runs \X Steps
  BY DEF NoteAsked, TypeOK

LEMMA AwaitsType ==
  ASSUME TypeOK, NEW t \in Ticks, NEW s, Awaits(t, s)
  PROVE  /\ tick[t].run \in Runs /\ s \in Steps /\ tick[t].pos \in Nat
         /\ row[tick[t].run] \in Row
  BY DEF Awaits, TypeOK, Tick

LEMMA GoOnType ==
  ASSUME TypeOK, NEW t \in Ticks, NEW r \in Runs, NEW rw \in Row,
         PersistAndGoOn(t, r, rw)
  PROVE  /\ row' \in [Runs -> Row] /\ disk' \in [Runs -> Row]
         /\ tick' \in [Ticks -> Tick] /\ inFlight' \subseteq Runs
<1> DEFINE rows == [row EXCEPT ![r] = rw]
<1>1. rows \in [Runs -> Row] /\ row \in [Runs -> Row] /\ tick \in [Ticks -> Tick]
  BY DEF TypeOK
<1>2. TickOnce(t, r, rows, rows, tick)
  BY DEF PersistAndGoOn
<1> QED
  <2> HIDE DEF rows
  <2> QED BY <1>1, <1>2, TickOnceType

LEMMA SettleSoloType ==
  ASSUME TypeOK, NEW t \in Ticks, NEW s \in Steps, NEW res \in Results(s),
         SettleSolo(t, s, res)
  PROVE  TypeOK'
<1> DEFINE r  == tick[t].run
           rw == Land(t, s, res)
<1>1. r \in Runs
  BY AwaitsType DEF SettleSolo
<1>2. rw \in Row
  BY <1>1, LandType
<1>3. /\ [rw EXCEPT !.status = "failed"] \in Row
      /\ FinalizeRun(rw) \in Row /\ Propagate(rw) \in Row
  <2> HIDE DEF rw
  <2> QED BY <1>2, RowOperatorsType
<1>4. \/ \E new \in Row : PersistAndReturn(t, r, new)
      \/ \E new \in Row : PersistAndGoOn(t, r, new)
  BY <1>3 DEF SettleSolo
<1>5. /\ row' \in [Runs -> Row] /\ disk' \in [Runs -> Row]
      /\ tick' \in [Ticks -> Tick] /\ inFlight' \subseteq Runs
  <2> HIDE DEF r, rw
  <2> QED BY <1>1, <1>4, ReturnType, GoOnType
<1>6. asked' \subseteq Runs \X Steps
  BY <1>1, NoteAskedType DEF SettleSolo
<1> QED
  BY <1>5, <1>6 DEF SettleSolo, TypeOK

LEMMA SettleSiblingType ==
  ASSUME TypeOK, NEW t \in Ticks, NEW s \in Steps, NEW res \in Results(s),
         SettleSibling(t, s, res)
  PROVE  TypeOK'
<1> DEFINE r  == tick[t].run
           rw == Land(t, s, res)
           tk == [tick[t] EXCEPT !.wait = @ \ {s},
                    !.own[s] = IF @ = "live" THEN "live" ELSE StatusOf(res),
                    !.ended = @ \/ res = "ended",
                    !.adv = @ \/ Advances(res)]
<1>1. r \in Runs
  BY AwaitsType DEF SettleSibling
<1>2. rw \in Row
  BY <1>1, LandType
<1>3. /\ [rw EXCEPT !.status = "failed"] \in Row
      /\ FinalizeRun(rw) \in Row /\ Propagate(rw) \in Row
  <2> HIDE DEF rw
  <2> QED BY <1>2, RowOperatorsType
<1>4. tk \in Tick
  <2>1. tick[t] \in Tick
    BY DEF TypeOK
  <2>2. Advances(res) \in BOOLEAN /\ (res = "ended") \in BOOLEAN
    BY DEF Advances
  <2>3. StatusOf(res) \in Live \cup Done
    BY StatusOfType
  <2> QED
    BY <2>1, <2>2, <2>3 DEF Tick
<1>5. /\ row' \in [Runs -> Row] /\ disk' \in [Runs -> Row]
      /\ tick' \in [Ticks -> Tick] /\ inFlight' \subseteq Runs
  <2>1. \/ /\ row' = [row EXCEPT ![r] = rw]
           /\ tick' = [tick EXCEPT ![t] = tk]
           /\ UNCHANGED <<disk, inFlight>>
        \/ AfterGroup(t, r, tk, rw)
    BY DEF SettleSibling
  <2>2. ASSUME /\ row' = [row EXCEPT ![r] = rw]
               /\ tick' = [tick EXCEPT ![t] = tk]
               /\ UNCHANGED <<disk, inFlight>>
        PROVE  /\ row' \in [Runs -> Row] /\ disk' \in [Runs -> Row]
               /\ tick' \in [Ticks -> Tick] /\ inFlight' \subseteq Runs
    <3> HIDE DEF r, rw, tk
    <3> QED BY <1>1, <1>2, <1>4, <2>2 DEF TypeOK
  <2>3. ASSUME AfterGroup(t, r, tk, rw)
        PROVE  /\ row' \in [Runs -> Row] /\ disk' \in [Runs -> Row]
               /\ tick' \in [Ticks -> Tick] /\ inFlight' \subseteq Runs
    <3>1. \/ \E new \in Row : PersistAndReturn(t, r, new)
          \/ \E new \in Row : PersistAndGoOn(t, r, new)
      <4> HIDE DEF r, rw, tk
      <4> QED BY <1>2, <1>3, <2>3 DEF AfterGroup
    <3> HIDE DEF r, rw, tk
    <3> QED BY <1>1, <3>1, ReturnType, GoOnType
  <2> QED BY <2>1, <2>2, <2>3
<1>6. asked' \subseteq Runs \X Steps
  BY <1>1, NoteAskedType DEF SettleSibling
<1> QED
  BY <1>5, <1>6 DEF SettleSibling, TypeOK

LEMMA RunnerThrowsType ==
  ASSUME TypeOK, NEW t \in Ticks, NEW s \in Steps, RunnerThrows(t, s)
  PROVE  TypeOK'
<1>1. tick[t].run \in Runs /\ row[tick[t].run] \in Row /\ tick[t] \in Tick
  BY AwaitsType DEF RunnerThrows, TypeOK
<1>2. StopSteps(row[tick[t].run], "failed") \in Row
  BY <1>1, RowOperatorsType
<1>3. /\ row' \in [Runs -> Row] /\ disk' \in [Runs -> Row]
      /\ tick' \in [Ticks -> Tick] /\ inFlight' \subseteq Runs
  BY <1>1, <1>2, ReturnType DEF RunnerThrows
<1>4. used' \in [Ops -> Nat]
  BY UseType DEF RunnerThrows, TypeOK, Ops
<1>5. late' \subseteq LateCall
  <2>1. ASSUME NEW x \in tick[t].wait
        PROVE  [run |-> tick[t].run, step |-> x, attached |-> tick[t].own[x] = "live"]
                 \in LateCall
    <3>1. x \in Steps /\ (tick[t].own[x] = "live") \in BOOLEAN
      BY <1>1 DEF Tick
    <3> QED BY <1>1, <3>1, Zenon DEF LateCall
  <2> QED BY <2>1, Zenon DEF RunnerThrows, TypeOK
<1> QED
  BY <1>3, <1>4, <1>5 DEF RunnerThrows, TypeOK

LEMMA LateSettleType ==
  ASSUME TypeOK, NEW c \in late, NEW res \in Results(c.step), LateSettle(c, res)
  PROVE  TypeOK'
<1>1. c.run \in Runs /\ c.step \in Steps /\ row[c.run] \in Row
  BY DEF TypeOK, LateCall
<1>2. StatusOf(res) \in StepStatus
  BY <1>1, StatusOfType DEF StepStatus
<1>3. [row[c.run] EXCEPT !.st[c.step] = StatusOf(res)] \in Row
  <2>1. \A rw \in Row, s \in Steps, v \in StepStatus : [rw EXCEPT !.st[s] = v] \in Row
    BY DEF Row
  <2> QED BY <1>1, <1>2, <2>1
<1>4. row' \in [Runs -> Row]
  <2>1. row' = [row EXCEPT ![c.run] = [row[c.run] EXCEPT !.st[c.step] = StatusOf(res)]]
        \/ row' = row
    BY DEF LateSettle
  <2> HIDE DEF Row
  <2> QED BY <1>1, <1>3, <2>1 DEF TypeOK
<1> QED
  BY <1>4 DEF LateSettle, TypeOK

LEMMA SettleDeletedType ==
  ASSUME TypeOK, NEW t \in Ticks, NEW s \in Steps, SettleDeleted(t, s)
  PROVE  TypeOK'
<1>1. tick[t] \in Tick /\ [tick[t] EXCEPT !.wait = @ \ {s}] \in Tick
  BY DEF TypeOK, Tick
<1>2. tick' \in [Ticks -> Tick]
  <2>1. \/ tick' = [tick EXCEPT ![t] = Idle]
        \/ tick' = [tick EXCEPT ![t] = [tick[t] EXCEPT !.wait = @ \ {s}]]
    BY DEF SettleDeleted
  <2> QED BY <1>1, <2>1, IdleType DEF TypeOK
<1>3. inFlight' \subseteq Runs /\ pass' \in [on : BOOLEAN, todo : SUBSET Runs]
  <2>1. inFlight' \subseteq inFlight
    BY DEF SettleDeleted
  <2>2. pass' = [on |-> FALSE, todo |-> {}] \/ pass' = pass
    BY DEF SettleDeleted
  <2>3. inFlight' \subseteq Runs
    BY <2>1 DEF TypeOK
  <2>4. pass' \in [on : BOOLEAN, todo : SUBSET Runs]
    <3>1. [on |-> FALSE, todo |-> {}] \in [on : BOOLEAN, todo : SUBSET Runs]
      OBVIOUS
    <3>2. pass \in [on : BOOLEAN, todo : SUBSET Runs]
      BY DEF TypeOK
    <3> QED BY <2>2, <3>1, <3>2, Zenon
  <2> QED BY <2>3, <2>4
<1> QED
  BY <1>2, <1>3 DEF SettleDeleted, TypeOK

LEMMA StatusTypes ==
  /\ "aliased" \in RunStatus /\ "deleted" \in RunStatus
  /\ NoSteps \in [Steps -> StepStatus]
  /\ Absent \in Row /\ [Absent EXCEPT !.status = "deleted"] \in Row
<1>1. /\ "aliased" \in RunStatus /\ "deleted" \in RunStatus /\ "absent" \in RunStatus
  BY DEF RunStatus
<1>2. NoSteps \in [Steps -> StepStatus]
  BY DEF NoSteps, StepStatus
<1>3. Absent \in Row
  BY <1>1, <1>2 DEF Absent, Row
<1>4. [Absent EXCEPT !.status = "deleted"] \in Row
  BY <1>1, <1>3 DEF Row
<1> QED
  BY <1>1, <1>2, <1>3, <1>4

LEMMA DispatchRunType ==
  ASSUME TypeOK, NEW r \in Runs, DispatchRun(r)
  PROVE  TypeOK'
<1> DEFINE rows == [row EXCEPT ![r].status = "running"]
<1>1. [row[r] EXCEPT !.status = "running"] \in Row
  BY RowOperatorsType DEF TypeOK
<1>2. rows \in [Runs -> Row]
  <2>1. rows = [row EXCEPT ![r] = [row[r] EXCEPT !.status = "running"]]
    OBVIOUS
  <2> QED BY <1>1, <2>1 DEF TypeOK
<1>3. TickOnce(r, r, rows, rows, tick)
  BY DEF DispatchRun
<1>4. /\ row' \in [Runs -> Row] /\ disk' \in [Runs -> Row]
      /\ tick' \in [Ticks -> Tick] /\ inFlight' \subseteq Runs
  <2> HIDE DEF rows
  <2> QED BY <1>2, <1>3, TickOnceType DEF TypeOK
<1> QED
  BY <1>4 DEF DispatchRun, TypeOK

\* The rows and the ticks that a dispatch leaves which is handed an old row.
LEMMA SameMsTypes ==
  ASSUME TypeOK, NEW d \in Runs, NEW r \in Runs, d # r
  PROVE  /\ [row EXCEPT ![d].status = "aliased", ![r].status = "running",
                       ![r].st = NoSteps] \in [Runs -> Row]
         /\ [tick EXCEPT ![r].own =
                [s \in Steps |-> IF s \in tick[r].wait THEN row[r].st[s] ELSE @[s]]]
              \in [Ticks -> Tick]
<1> DEFINE rows == [row EXCEPT ![d].status = "aliased", ![r].status = "running",
                               ![r].st = NoSteps]
           rest == [tick EXCEPT ![r].own =
                     [s \in Steps |-> IF s \in tick[r].wait THEN row[r].st[s] ELSE @[s]]]
<1>1. rows \in [Runs -> Row]
  <2>1. rows = [x \in Runs |->
                 IF x = r THEN [row[r] EXCEPT !.status = "running", !.st = NoSteps]
                 ELSE IF x = d THEN [row[d] EXCEPT !.status = "aliased"] ELSE row[x]]
    BY DEF TypeOK, Row
  <2>2. /\ [row[r] EXCEPT !.status = "running", !.st = NoSteps] \in Row
        /\ [row[d] EXCEPT !.status = "aliased"] \in Row
    BY StatusTypes DEF TypeOK, Row, RunStatus, Present, Active
  <2> QED BY <2>1, <2>2 DEF TypeOK
<1>2. rest \in [Ticks -> Tick]
  <2>1. row[r] \in Row /\ tick[r] \in Tick
    BY DEF TypeOK
  <2>2. [s \in Steps |-> IF s \in tick[r].wait THEN row[r].st[s] ELSE tick[r].own[s]]
          \in [Steps -> Live \cup Done \cup {"live", "none"}]
    BY <2>1 DEF Row, Tick, StepStatus
  <2>3. [tick[r] EXCEPT !.own = [s \in Steps |-> IF s \in tick[r].wait THEN row[r].st[s]
                                                 ELSE tick[r].own[s]]] \in Tick
    BY <2>1, <2>2 DEF Tick
  <2> QED BY <2>3 DEF TypeOK
<1> QED
  BY <1>1, <1>2

LEMMA DispatchInTheSameMsType ==
  ASSUME TypeOK, NEW d \in Runs, NEW r \in Runs, DispatchInTheSameMs(d, r)
  PROVE  TypeOK'
<1> DEFINE rows == [row EXCEPT ![d].status = "aliased", ![r].status = "running",
                               ![r].st = NoSteps]
           rest == [tick EXCEPT ![r].own =
                     [s \in Steps |-> IF s \in tick[r].wait THEN row[r].st[s] ELSE @[s]]]
<1>1. rows \in [Runs -> Row] /\ rest \in [Ticks -> Tick]
  BY SameMsTypes DEF DispatchInTheSameMs
<1>2. TickOnce(d, r, rows, rows, rest) /\ Use("tie")
  BY DEF DispatchInTheSameMs
<1>3. /\ row' \in [Runs -> Row] /\ disk' \in [Runs -> Row]
      /\ tick' \in [Ticks -> Tick] /\ inFlight' \subseteq Runs
  <2> HIDE DEF rows, rest
  <2> QED BY <1>1, <1>2, TickOnceType DEF TypeOK
<1>4. used' \in [Ops -> Nat]
  BY <1>2, UseType DEF TypeOK, Ops
<1> QED
  BY <1>3, <1>4 DEF DispatchInTheSameMs, TypeOK

LEMMA LoopType ==
  ASSUME TypeOK,
         StartPass \/ EndPass \/ \E r \in Runs : VisitRun(r) \/ SkipRun(r)
  PROVE  TypeOK'
<1>1. ASSUME StartPass PROVE TypeOK'
  BY <1>1 DEF StartPass, TypeOK
<1>2. ASSUME EndPass PROVE TypeOK'
  BY <1>2 DEF EndPass, TypeOK
<1>3. ASSUME NEW r \in Runs, SkipRun(r) PROVE TypeOK'
  BY <1>3 DEF SkipRun, TypeOK
<1>4. ASSUME NEW r \in Runs, VisitRun(r) PROVE TypeOK'
  <2>1. TickOnce(Loop, r, row, disk, tick)
    BY <1>4 DEF VisitRun
  <2>2. /\ row' \in [Runs -> Row] /\ disk' \in [Runs -> Row]
        /\ tick' \in [Ticks -> Tick] /\ inFlight' \subseteq Runs
    BY <2>1, TickOnceType DEF TypeOK
  <2>3. pass' \in [on : BOOLEAN, todo : SUBSET Runs]
    BY <1>4 DEF VisitRun, TypeOK
  <2> QED BY <1>4, <2>2, <2>3 DEF VisitRun, TypeOK
<1> QED
  BY <1>1, <1>2, <1>3, <1>4

LEMMA RewindType ==
  ASSUME TypeOK, NEW r \in Runs, NEW gone \in SUBSET Steps, NEW again \in SUBSET Steps,
         Rewind(r, gone, again)
  PROVE  TypeOK'
<1>1. row[r] \in Row
  BY DEF TypeOK
<1> DEFINE st  == [s \in Steps |-> IF s \in gone THEN "none"
                                   ELSE IF s \in again THEN "running" ELSE row[r].st[s]]
           new == [row[r] EXCEPT !.status = "running", !.st = st]
<1>2. st \in [Steps -> StepStatus]
  BY <1>1 DEF Row, StepStatus, Live
<1>3. new \in Row
  <2> HIDE DEF st
  <2> QED BY <1>1, <1>2 DEF Row, RunStatus, Present, Active
<1>4. row' = [row EXCEPT ![r] = new]
  BY DEF Rewind, TypeOK
<1>5. row' \in [Runs -> Row] /\ disk' \in [Runs -> Row]
  <2> HIDE DEF new
  <2> QED BY <1>3, <1>4 DEF Rewind, TypeOK
<1>6. tick' \in [Ticks -> Tick]
  <2>1. ASSUME NEW t \in Ticks
        PROVE  [tick[t] EXCEPT !.own =
                  [s \in Steps |-> IF s \in gone /\ PosOf[s] = tick[t].pos /\ @[s] = "live"
                                   THEN row[r].st[s] ELSE @[s]]] \in Tick
    <3>1. tick[t] \in Tick
      BY DEF TypeOK
    <3>2. [s \in Steps |-> IF s \in gone /\ PosOf[s] = tick[t].pos /\ tick[t].own[s] = "live"
                           THEN row[r].st[s] ELSE tick[t].own[s]]
            \in [Steps -> Live \cup Done \cup {"live", "none"}]
      BY <1>1, <3>1 DEF Tick, Row, StepStatus
    <3> QED BY <3>1, <3>2 DEF Tick
  <2> QED BY <2>1 DEF Rewind, TypeOK
<1>7. late' \subseteq LateCall
  <2>1. ASSUME NEW c \in late
        PROVE  (IF c.run = r /\ c.step \in gone THEN [c EXCEPT !.attached = FALSE] ELSE c)
                 \in LateCall
    BY DEF TypeOK, LateCall
  <2> QED BY <2>1 DEF Rewind
<1>8. asked' \subseteq Runs \X Steps /\ used' \in [Ops -> Nat]
  BY UseType DEF Rewind, TypeOK, Ops
<1> QED
  BY <1>5, <1>6, <1>7, <1>8 DEF Rewind, TypeOK

LEMMA OperatorType ==
  ASSUME TypeOK, Operator
  PROVE  TypeOK'
<1>1. ASSUME NEW r \in Runs, CancelRun(r) PROVE TypeOK'
  <2>1. StopSteps(row[r], "cancelled") \in Row
    BY RowOperatorsType DEF TypeOK
  <2>2. row' \in [Runs -> Row] /\ disk' \in [Runs -> Row]
    BY <1>1, <2>1 DEF CancelRun, TypeOK
  <2>3. used' \in [Ops -> Nat]
    BY <1>1, UseType DEF CancelRun, TypeOK, Ops
  <2> QED BY <1>1, <2>2, <2>3 DEF CancelRun, TypeOK
<1>2. ASSUME NEW r \in Runs, PauseRun(r) PROVE TypeOK'
  <2>1. used' \in [Ops -> Nat]
    BY <1>2, UseType DEF PauseRun, TypeOK, Ops
  <2> QED BY <1>2, <2>1 DEF PauseRun, TypeOK, Row
<1>3. ASSUME NEW r \in Runs, ResumeRun(r) PROVE TypeOK'
  BY <1>3 DEF ResumeRun, TypeOK, Row
<1>4. ASSUME NEW r \in Runs, ContinueRun(r) PROVE TypeOK'
  BY <1>4, RewindType DEF ContinueRun
<1>5. ASSUME NEW r \in Runs, NEW p \in Positions, RetryRunFromStep(r, p) PROVE TypeOK'
  <2>1. {s \in Steps : PosOf[s] >= p} \in SUBSET Steps
    OBVIOUS
  <2> QED BY <1>5, <2>1, RewindType DEF RetryRunFromStep
<1>6. ASSUME NEW r \in Runs, NEW s \in Steps, RetryParallelStep(r, s) PROVE TypeOK'
  <2>1. {x \in Steps : PosOf[x] > PosOf[s]} \in SUBSET Steps /\ {s} \in SUBSET Steps
    OBVIOUS
  <2> QED BY <1>6, <2>1, RewindType DEF RetryParallelStep
<1>7. ASSUME NEW a \in Autos, DeleteAutomation(a) PROVE TypeOK'
  <2>1. row' \in [Runs -> Row] /\ disk' \in [Runs -> Row]
    BY <1>7, StatusTypes DEF DeleteAutomation, TypeOK
  <2>2. used' \in [Ops -> Nat]
    BY <1>7, UseType DEF DeleteAutomation, TypeOK, Ops
  <2> QED BY <1>7, <2>1, <2>2 DEF DeleteAutomation, TypeOK
<1> QED
  BY <1>1, <1>2, <1>3, <1>4, <1>5, <1>6, <1>7 DEF Operator

LEMMA InitType == Init => TypeOK
  BY IdleType, StatusTypes DEF Init, TypeOK

LEMMA NextType ==
  ASSUME TypeOK, [Next]_vars
  PROVE  TypeOK'
<1>1. ASSUME NEW t \in Ticks, NEW s \in Steps, Settle(t, s) PROVE TypeOK'
  BY <1>1, SettleSoloType, SettleSiblingType, RunnerThrowsType, SettleDeletedType
     DEF Settle
<1>2. ASSUME NEW c \in late, NEW res \in Results(c.step), LateSettle(c, res)
      PROVE  TypeOK'
  BY <1>2, LateSettleType
<1>3. ASSUME Service PROVE TypeOK'
  BY <1>3, LoopType, DispatchRunType, DispatchInTheSameMsType DEF Service
<1>4. CASE Operator
  BY <1>4, OperatorType
<1>5. CASE Restart
  <2>1. used' \in [Ops -> Nat]
    BY <1>5, UseType DEF Restart, TypeOK, Ops
  <2> QED BY <1>5, <2>1, IdleType DEF Restart, TypeOK
<1>6. CASE UNCHANGED vars
  BY <1>6 DEF vars, TypeOK
<1> QED
  BY <1>1, <1>2, <1>3, <1>4, <1>5, <1>6 DEF Next, Executor

\* Every variable keeps its type, for every chain and every environment.
THEOREM TypeCorrect == Spec => []TypeOK
<1>1. TypeOK /\ [Next]_vars => TypeOK'
  BY NextType
<1> QED
  BY <1>1, InitType, PTL DEF Spec

-----------------------------------------------------------------------------
(* One tick drives a run *)

\* FinalizeRun and the propagation of 'waiting' keep a row that exists, and
\* leave its steps alone.
LEMMA StatusOnly ==
  ASSUME NEW rw \in Row
  PROVE  /\ FinalizeRun(rw).st = rw.st /\ Propagate(rw).st = rw.st
         /\ FinalizeRun(rw).status # "absent"
         /\ rw.status # "absent" => Propagate(rw).status # "absent"
  BY DEF FinalizeRun, Propagate, Row

\* The tick that awaits a runner of r is the only one that drives r.
LEMMA OnlyDriver ==
  ASSUME TypeOK, Exclusive, NEW t \in Ticks, NEW s, Awaits(t, s)
  PROVE  /\ tick[t].run \in Runs /\ t \in {tick[t].run, Loop}
         /\ \A u \in Ticks \ {t} : tick[u].run # tick[t].run
<1>1. tick[t].run \in Runs
  BY AwaitsType
<1>2. t \in {tick[t].run, Loop}
  BY <1>1 DEF Exclusive, Awaits
<1> QED
  BY <1>1, <1>2 DEF Exclusive, TickExclusion, Awaits

\* Nobody drives a run that is not in flight.
LEMMA NoDriver ==
  ASSUME TypeOK, Exclusive, NEW r \in Runs, r \notin inFlight
  PROVE  \A u \in Ticks : tick[u].run # r
  BY RunAssumption DEF Exclusive

\* A tick that returns lets go of its run.
LEMMA ReturnKeepsExclusive ==
  ASSUME TypeOK, Exclusive, NEW t \in Ticks, NEW r \in Runs, NEW rw \in Row,
         \A u \in Ticks \ {t} : tick[u].run # r,
         PersistAndReturn(t, r, rw)
  PROVE  Exclusive'
<1>1. /\ row \in [Runs -> Row] /\ tick \in [Ticks -> Tick]
      /\ row' = [row EXCEPT ![r] = rw]
      /\ tick' = [tick EXCEPT ![t] = Idle] /\ inFlight' = inFlight \ {r}
  BY DEF TypeOK, PersistAndReturn
<1> QED
  BY <1>1 DEF Exclusive, TickExclusion, Idle

\* What tickOnce does to the statuses of the runs and to who drives them.
LEMMA TickOnceShape ==
  ASSUME NEW t \in Ticks, NEW r \in Runs, NEW rows \in [Runs -> Row], NEW dsk,
         NEW ticks \in [Ticks -> Tick], TickOnce(t, r, rows, dsk, ticks)
  PROVE  \/ AllDone(rows[r].st) /\ PersistAndReturn(t, r, FinalizeRun(rows[r]))
         \/ /\ \A x \in Runs : row'[x].status = rows[x].status
            /\ tick'[t].run = r /\ \A u \in Ticks \ {t} : tick'[u] = ticks[u]
            /\ inFlight' = inFlight \cup {r}
            /\ disk' = row' \/ disk' = dsk
<1>1. ASSUME NEW p \in Positions,
             row' = [rows EXCEPT ![r].st = Materialise(rows[r].st, p)],
             disk' = DiskAtCall(p, [rows EXCEPT ![r].st = Materialise(rows[r].st, p)],
                                rows, dsk),
             tick' = [ticks EXCEPT ![t] =
                       [Idle EXCEPT !.run = r, !.pos = p,
                          !.wait = {s \in StepsAt(p) : rows[r].st[s] \notin Done}]],
             inFlight' = inFlight \cup {r}
      PROVE  /\ \A x \in Runs : row'[x].status = rows[x].status
             /\ tick'[t].run = r /\ \A u \in Ticks \ {t} : tick'[u] = ticks[u]
             /\ inFlight' = inFlight \cup {r}
             /\ disk' = row' \/ disk' = dsk
  <2>1. \A x \in Runs : row'[x].status = rows[x].status
    BY <1>1 DEF Row
  <2>2. [Idle EXCEPT !.run = r, !.pos = p,
           !.wait = {s \in StepsAt(p) : rows[r].st[s] \notin Done}].run = r
    BY DEF Idle
  <2>3. tick'[t].run = r /\ \A u \in Ticks \ {t} : tick'[u] = ticks[u]
    BY <1>1, <2>2
  <2>4. disk' = row' \/ disk' = dsk
    BY <1>1 DEF DiskAtCall
  <2> QED BY <1>1, <2>1, <2>3, <2>4
<1> QED
  BY <1>1, Zenon DEF TickOnce

\* A tick that calls the runners of its next position holds its run.
LEMMA TickOnceKeepsExclusive ==
  ASSUME TypeOK, Exclusive, NEW t \in Ticks, NEW r \in Runs, NEW rw \in Row, NEW dsk,
         t \in {r, Loop}, rw.status # "absent",
         \A u \in Ticks \ {t} : tick[u].run # r,
         TickOnce(t, r, [row EXCEPT ![r] = rw], dsk, tick)
  PROVE  Exclusive'
<1> DEFINE rows == [row EXCEPT ![r] = rw]
<1>1. /\ row \in [Runs -> Row] /\ tick \in [Ticks -> Tick] /\ rows \in [Runs -> Row]
      /\ \A x \in Runs : rows[x] = IF x = r THEN rw ELSE row[x]
  BY DEF TypeOK
<1>2. TickOnce(t, r, rows, dsk, tick)
  OBVIOUS
<1> HIDE DEF rows
<1>3. CASE PersistAndReturn(t, r, FinalizeRun(rows[r]))
  BY <1>1, <1>3, ReturnKeepsExclusive, RowOperatorsType
<1>4. CASE /\ \A x \in Runs : row'[x].status = rows[x].status
           /\ tick'[t].run = r /\ \A u \in Ticks \ {t} : tick'[u] = tick[u]
           /\ inFlight' = inFlight \cup {r}
  <2>1. \A x \in inFlight' : row'[x].status # "absent"
    BY <1>1, <1>4 DEF TypeOK, Exclusive
  <2>2. \A x \in Runs : tick'[x].run \in {x, NoRun}
    <3> SUFFICES ASSUME NEW x \in Runs PROVE tick'[x].run \in {x, NoRun}
      OBVIOUS
    <3>1. CASE x = t
      BY <1>4, <3>1, RunAssumption
    <3>2. CASE x # t
      BY <1>4, <3>2 DEF Exclusive
    <3> QED BY <3>1, <3>2
  <2>3. TickExclusion'
    BY <1>4 DEF Exclusive, TickExclusion
  <2>4. \A u \in Ticks : tick'[u].run # NoRun => tick'[u].run \in inFlight'
    BY <1>4 DEF Exclusive
  <2> QED BY <2>1, <2>2, <2>3, <2>4 DEF Exclusive
<1>5. \/ PersistAndReturn(t, r, FinalizeRun(rows[r]))
      \/ /\ \A x \in Runs : row'[x].status = rows[x].status
         /\ tick'[t].run = r /\ \A u \in Ticks \ {t} : tick'[u] = tick[u]
         /\ inFlight' = inFlight \cup {r}
  <2> HIDE DEF Ticks
  <2> QED BY <1>1, <1>2, TickOnceShape
<1> QED
  BY <1>3, <1>4, <1>5

\* A runner call of a tick settles: the tick returns, goes on with the run it
\* drives, or (in a group) awaits the other siblings.
LEMMA SettleOutcome ==
  ASSUME TypeOK, NEW t \in Ticks, NEW s \in Steps, NEW res \in Results(s),
         SettleSolo(t, s, res) \/ SettleSibling(t, s, res)
  PROVE  LET r == tick[t].run IN
         /\ Awaits(t, s) /\ r \in Runs /\ RowExists(r)
         /\ \/ \E new \in Row : new.status \in Present /\ PersistAndReturn(t, r, new)
            \/ \E new \in Row : /\ new.status \in Present
                                /\ row[r].status \in Active => new.status \in Active
                                /\ PersistAndGoOn(t, r, new)
            \/ \E new \in Row, tk \in Tick :
                  /\ new.status = row[r].status /\ tk.run = r
                  /\ row' = [row EXCEPT ![r] = new] /\ tick' = [tick EXCEPT ![t] = tk]
                  /\ UNCHANGED <<disk, inFlight>>
<1> DEFINE r  == tick[t].run
           rw == Land(t, s, res)
           tk == [tick[t] EXCEPT !.wait = @ \ {s},
                    !.own[s] = IF @ = "live" THEN "live" ELSE StatusOf(res),
                    !.ended = @ \/ res = "ended",
                    !.adv = @ \/ Advances(res)]
<1>1. Awaits(t, s) /\ r \in Runs /\ RowExists(r) /\ row[r] \in Row
  BY AwaitsType DEF SettleSolo, SettleSibling
<1>2. rw \in Row /\ rw.status = row[r].status /\ rw.status \in Present
  BY <1>1, LandType DEF Land, Row, RowExists
<1>3. tk \in Tick /\ tk.run = r
  <2>1. tick[t] \in Tick
    BY DEF TypeOK
  <2>2. Advances(res) \in BOOLEAN /\ (res = "ended") \in BOOLEAN
    BY DEF Advances
  <2> QED BY <2>1, <2>2, StatusOfType DEF Tick
<1> DEFINE failed == [rw EXCEPT !.status = "failed"]
<1>4. /\ failed \in Row /\ FinalizeRun(rw) \in Row /\ Propagate(rw) \in Row
      /\ failed.status \in Present /\ FinalizeRun(rw).status \in Present
      /\ Propagate(rw).status \in Present
      /\ rw.status \in Active => Propagate(rw).status \in Active
  <2> HIDE DEF rw
  <2> QED BY <1>2, RowOperatorsType
          DEF FinalizeRun, Propagate, Row, Present, Active, Settled
<1>5. \/ \E new \in {rw, failed, FinalizeRun(rw), Propagate(rw)} : PersistAndReturn(t, r, new)
      \/ \E new \in {rw, Propagate(rw)} : PersistAndGoOn(t, r, new)
      \/ /\ row' = [row EXCEPT ![r] = rw] /\ tick' = [tick EXCEPT ![t] = tk]
         /\ UNCHANGED <<disk, inFlight>>
  <2>1. CASE SettleSolo(t, s, res)
    BY <2>1 DEF SettleSolo
  <2>2. CASE SettleSibling(t, s, res)
    <3>1. \/ AfterGroup(t, r, tk, rw)
          \/ /\ row' = [row EXCEPT ![r] = rw] /\ tick' = [tick EXCEPT ![t] = tk]
             /\ UNCHANGED <<disk, inFlight>>
      BY <2>2 DEF SettleSibling
    <3> HIDE DEF r, rw, tk
    <3> QED BY <3>1 DEF AfterGroup
  <2> QED BY <2>1, <2>2
<1>6. CASE \E new \in {rw, failed, FinalizeRun(rw), Propagate(rw)} : PersistAndReturn(t, r, new)
  <2> HIDE DEF r, rw, tk, failed
  <2>1. \E new \in Row : new.status \in Present /\ PersistAndReturn(t, r, new)
    BY <1>2, <1>4, <1>6
  <2> QED BY <1>1, <2>1 DEF r
<1>7. CASE \E new \in {rw, Propagate(rw)} : PersistAndGoOn(t, r, new)
  <2> HIDE DEF r, rw, tk, failed
  <2>1. \E new \in Row : /\ new.status \in Present
                         /\ row[r].status \in Active => new.status \in Active
                         /\ PersistAndGoOn(t, r, new)
    BY <1>2, <1>4, <1>7
  <2> QED BY <1>1, <2>1 DEF r
<1>8. CASE /\ row' = [row EXCEPT ![r] = rw] /\ tick' = [tick EXCEPT ![t] = tk]
           /\ UNCHANGED <<disk, inFlight>>
  <2> HIDE DEF r, rw, tk, failed
  <2>1. \E new \in Row, k \in Tick :
          /\ new.status = row[r].status /\ k.run = r
          /\ row' = [row EXCEPT ![r] = new] /\ tick' = [tick EXCEPT ![t] = k]
          /\ UNCHANGED <<disk, inFlight>>
    BY <1>2, <1>3, <1>8
  <2> QED BY <1>1, <2>1 DEF r
<1> QED
  BY <1>5, <1>6, <1>7, <1>8

LEMMA SettleKeepsExclusive ==
  ASSUME TypeOK, Exclusive, NEW t \in Ticks, NEW s \in Steps, NEW res \in Results(s),
         SettleSolo(t, s, res) \/ SettleSibling(t, s, res)
  PROVE  Exclusive'
<1> DEFINE r == tick[t].run
<1>1. /\ r \in Runs /\ t \in {r, Loop} /\ RowExists(r)
      /\ \A u \in Ticks \ {t} : tick[u].run # r
      /\ row \in [Runs -> Row] /\ tick \in [Ticks -> Tick]
  BY OnlyDriver DEF SettleSolo, SettleSibling, TypeOK
<1>2. ASSUME NEW new \in Row, new.status \in Present, PersistAndGoOn(t, r, new)
      PROVE  Exclusive'
  <2> DEFINE rows == [row EXCEPT ![r] = new]
  <2>1. new.status # "absent"
    BY <1>2 DEF Present, Active, Settled
  <2>2. TickOnce(t, r, [row EXCEPT ![r] = new], rows, tick)
    BY <1>2 DEF PersistAndGoOn
  <2>3. /\ r \in Runs /\ t \in {r, Loop} /\ new \in Row
        /\ \A u \in Ticks \ {t} : tick[u].run # r
    BY <1>1
  <2> HIDE DEF rows, r
  <2> QED BY <2>1, <2>2, <2>3, TickOnceKeepsExclusive
<1>3. ASSUME NEW new \in Row, NEW tk \in Tick, new.status = row[r].status, tk.run = r,
             row' = [row EXCEPT ![r] = new], tick' = [tick EXCEPT ![t] = tk],
             inFlight' = inFlight
      PROVE  Exclusive'
  <2>1. \A u \in Ticks : tick'[u].run = tick[u].run
    BY <1>1, <1>3
  <2>2. \A x \in inFlight : row'[x].status # "absent"
    BY <1>1, <1>3 DEF TypeOK, Exclusive
  <2> QED BY <1>3, <2>1, <2>2 DEF Exclusive, TickExclusion
<1>4. ASSUME NEW new \in Row, PersistAndReturn(t, r, new)
      PROVE  Exclusive'
  BY <1>1, <1>4, ReturnKeepsExclusive
<1> QED
  <2>1. \/ \E new \in Row : new.status \in Present /\ PersistAndReturn(t, r, new)
        \/ \E new \in Row : new.status \in Present /\ PersistAndGoOn(t, r, new)
        \/ \E new \in Row, tk \in Tick :
              /\ new.status = row[r].status /\ tk.run = r
              /\ row' = [row EXCEPT ![r] = new] /\ tick' = [tick EXCEPT ![t] = tk]
              /\ UNCHANGED <<disk, inFlight>>
    BY SettleOutcome
  <2> HIDE DEF r
  <2> QED BY <1>2, <1>3, <1>4, <2>1

\* A change of rows that makes none absent changes nothing for the ticks.
LEMMA RowsKeepExclusive ==
  ASSUME TypeOK, Exclusive, inFlight' = inFlight,
         \A t \in Ticks : tick'[t].run = tick[t].run,
         \A r \in Runs : row[r].status # "absent" => row'[r].status # "absent"
  PROVE  Exclusive'
<1>1. \A x \in inFlight' : row'[x].status # "absent"
  BY DEF TypeOK, Exclusive
<1> QED
  BY <1>1 DEF Exclusive, TickExclusion

LEMMA ExecutorKeepsExclusive ==
  ASSUME TypeOK, Exclusive, Executor
  PROVE  Exclusive'
<1>1. row \in [Runs -> Row] /\ tick \in [Ticks -> Tick]
  BY DEF TypeOK
<1>2. ASSUME NEW t \in Ticks, NEW s \in Steps, RunnerThrows(t, s) PROVE Exclusive'
  <2>1. /\ tick[t].run \in Runs /\ row[tick[t].run] \in Row
        /\ \A u \in Ticks \ {t} : tick[u].run # tick[t].run
    BY <1>1, <1>2, OnlyDriver DEF RunnerThrows
  <2> QED BY <1>2, <2>1, RowOperatorsType, ReturnKeepsExclusive DEF RunnerThrows
<1>3. ASSUME NEW t \in Ticks, NEW s \in Steps, SettleDeleted(t, s) PROVE Exclusive'
  <2>1. CASE /\ tick' = [tick EXCEPT ![t] = Idle]
             /\ inFlight' = inFlight \ {tick[t].run}
    <3>1. \A u \in Ticks \ {t} : tick[u].run # tick[t].run
      BY <1>3, OnlyDriver DEF SettleDeleted
    <3> QED BY <1>1, <1>3, <2>1, <3>1
            DEF SettleDeleted, Exclusive, TickExclusion, Idle
  <2>2. CASE tick' = [tick EXCEPT ![t].wait = @ \ {s}] /\ inFlight' = inFlight
    <3>1. \A u \in Ticks : tick'[u].run = tick[u].run
      BY <1>1, <2>2 DEF Tick
    <3> QED BY <1>3, <2>2, <3>1, RowsKeepExclusive DEF SettleDeleted
  <2> QED BY <1>3, <2>1, <2>2 DEF SettleDeleted
<1>4. ASSUME NEW c \in late, NEW res \in Results(c.step), LateSettle(c, res)
      PROVE  Exclusive'
  <2>1. \A r \in Runs : row'[r].status = row[r].status
    BY <1>1, <1>4 DEF LateSettle, Row
  <2> QED BY <1>4, <2>1, RowsKeepExclusive DEF LateSettle
<1> QED
  BY <1>2, <1>3, <1>4, SettleKeepsExclusive DEF Executor, Settle

LEMMA ServiceKeepsExclusive ==
  ASSUME Bound["tie"] = 0, TypeOK, Exclusive, Service
  PROVE  Exclusive'
<1>1. row \in [Runs -> Row] /\ disk \in [Runs -> Row] /\ tick \in [Ticks -> Tick]
  BY DEF TypeOK
<1>2. ASSUME StartPass \/ EndPass \/ \E r \in Runs : SkipRun(r) PROVE Exclusive'
  BY <1>2, RowsKeepExclusive DEF StartPass, EndPass, SkipRun
<1>3. ASSUME NEW r \in Runs, DispatchRun(r) PROVE Exclusive'
  <2> DEFINE rw == [row[r] EXCEPT !.status = "running"]
             rows == [row EXCEPT ![r] = rw]
  <2>1. rw \in Row /\ rw.status = "running"
    BY <1>1 DEF Row, RunStatus, Present, Active
  <2>2. \A u \in Ticks : tick[u].run # r
    BY <1>3, NoDriver DEF DispatchRun, Exclusive
  <2>3. TickOnce(r, r, rows, rows, tick)
    BY <1>3 DEF DispatchRun
  <2> HIDE DEF rw
  <2>4. TickOnce(r, r, [row EXCEPT ![r] = rw], rows, tick)
    BY <2>3
  <2> HIDE DEF rows
  <2> QED BY <2>1, <2>2, <2>4, TickOnceKeepsExclusive
<1>4. ASSUME NEW r \in Runs, VisitRun(r) PROVE Exclusive'
  <2> DEFINE rw == row[r]
  <2>1. rw \in Row /\ [row EXCEPT ![r] = rw] = row
    BY <1>1
  <2>2. /\ rw.status # "absent" /\ r \notin inFlight
        /\ TickOnce(Loop, r, row, disk, tick)
    BY <1>4 DEF VisitRun, Eligible, Active
  <2>3. \A u \in Ticks : tick[u].run # r
    BY <2>2, NoDriver
  <2>4. TickOnce(Loop, r, [row EXCEPT ![r] = rw], disk, tick) /\ Loop \in Ticks
    BY <2>1, <2>2
  <2> HIDE DEF rw
  <2> QED BY <2>1, <2>2, <2>3, <2>4, TickOnceKeepsExclusive
<1>5. ASSUME NEW d \in Runs, NEW r \in Runs, DispatchInTheSameMs(d, r) PROVE FALSE
  <2>1. used["tie"] < 0 /\ used["tie"] \in Nat
    BY <1>5 DEF DispatchInTheSameMs, Use, TypeOK, Ops
  <2> QED BY <2>1
<1> QED
  BY <1>2, <1>3, <1>4, <1>5 DEF Service

LEMMA OperatorKeepsExclusive ==
  ASSUME TypeOK, Exclusive, Operator
  PROVE  Exclusive'
<1>1. row \in [Runs -> Row] /\ tick \in [Ticks -> Tick]
  BY DEF TypeOK
<1>2. ASSUME NEW r \in Runs, CancelRun(r) \/ PauseRun(r) \/ ResumeRun(r) PROVE Exclusive'
  <2>1. \A x \in Runs : row[x].status # "absent" => row'[x].status # "absent"
    <3>1. CASE CancelRun(r)
      <4>1. StopSteps(row[r], "cancelled").status = "cancelled"
        BY <1>1 DEF StopSteps, Row
      <4>2. row' = [row EXCEPT ![r] = StopSteps(row[r], "cancelled")]
        BY <3>1 DEF CancelRun
      <4> QED BY <1>1, <4>1, <4>2
    <3>2. CASE PauseRun(r) \/ ResumeRun(r)
      BY <1>1, <3>2 DEF PauseRun, ResumeRun, Row
    <3> QED BY <1>2, <3>1, <3>2
  <2> QED BY <1>2, <2>1, RowsKeepExclusive DEF CancelRun, PauseRun, ResumeRun
<1>3. ASSUME NEW r \in Runs, NEW gone, NEW again, Rewind(r, gone, again) PROVE Exclusive'
  <2>1. \A x \in Runs : row[x].status # "absent" => row'[x].status # "absent"
    BY <1>1, <1>3 DEF Rewind, Row
  <2>2. \A t \in Ticks : tick'[t].run = tick[t].run
    BY <1>1, <1>3 DEF Rewind, Tick
  <2> QED BY <1>3, <2>1, <2>2, RowsKeepExclusive DEF Rewind
<1>4. ASSUME NEW a \in Autos, DeleteAutomation(a) PROVE Exclusive'
  <2>1. \A x \in Runs : row'[x].status = "deleted" \/ row'[x] = row[x]
    BY <1>1, <1>4 DEF DeleteAutomation, Absent
  <2> QED BY <1>4, <2>1, RowsKeepExclusive DEF DeleteAutomation
<1> QED
  BY <1>2, <1>3, <1>4 DEF Operator, ContinueRun, RetryRunFromStep, RetryParallelStep

LEMMA InitExclusive == Init => Exclusive
  BY DEF Init, Exclusive, TickExclusion, Idle

LEMMA ExclusiveInductive ==
  ASSUME Bound["tie"] = 0, TypeOK, Exclusive, [Next]_vars
  PROVE  Exclusive'
<1>1. CASE Restart
  BY <1>1 DEF Restart, Exclusive, TickExclusion, Idle
<1>2. CASE UNCHANGED vars
  BY <1>2 DEF vars, Exclusive, TickExclusion
<1> QED
  BY <1>1, <1>2, ExecutorKeepsExclusive, ServiceKeepsExclusive, OperatorKeepsExclusive
     DEF Next

\* A run is never driven by two ticks, whatever the operator does and whichever
\* runner throws, unless two dispatches of an automation share a millisecond
\* (inFlightRunIds, service.ts).
THEOREM OneTickPerRun == ASSUME Bound["tie"] = 0 PROVE Spec => []TickExclusion
<1>1. Init => TypeOK /\ Exclusive
  BY InitType, InitExclusive
<1>2. TypeOK /\ Exclusive /\ [Next]_vars => TypeOK' /\ Exclusive'
  BY NextType, ExclusiveInductive
<1>3. Exclusive => TickExclusion
  BY DEF Exclusive
<1> QED
  BY <1>1, <1>2, <1>3, PTL DEF Spec

-----------------------------------------------------------------------------
(* No run stays locked *)

\* A step that hands the ticks on as they are, and makes no row absent.
LEMMA LocksFrame ==
  ASSUME TypeOK, LockInv, inFlight' = inFlight,
         \A t \in Ticks : tick'[t].run = tick[t].run,
         \A r \in Runs : row[r].status # "absent" => row'[r].status # "absent",
         tick[Loop].run # NoRun => pass'.on
  PROVE  LockInv'
<1>1. \A r \in inFlight' : \E t \in Ticks : tick'[t].run = r
  BY DEF LockInv, NoLeakedLock
<1>2. tick'[Loop].run # NoRun => pass'.on
  OBVIOUS
<1>3. \A r \in Runs : tick'[r].run # NoRun => row'[r].status # "absent"
  BY DEF LockInv
<1> QED
  BY <1>1, <1>2, <1>3 DEF LockInv, NoLeakedLock

\* A tick ends, and its run is let go; also when the run's row is gone.
LEMMA LetGo ==
  ASSUME TypeOK, LockInv, NEW t \in Ticks, NEW r \in Runs, tick[t].run \in {r, NoRun},
         tick' = [tick EXCEPT ![t] = Idle], inFlight' = inFlight \ {r},
         \A x \in Runs : row[x].status # "absent" => row'[x].status # "absent",
         t = Loop \/ pass'.on = pass.on
  PROVE  LockInv'
<1>1. tick \in [Ticks -> Tick] /\ inFlight \subseteq Runs /\ Idle.run = NoRun
  BY DEF TypeOK, Idle
<1>2. tick'[t].run = NoRun /\ \A u \in Ticks \ {t} : tick'[u] = tick[u]
  BY <1>1
<1>3. \A x \in inFlight' : \E u \in Ticks : tick'[u].run = x
  <2> SUFFICES ASSUME NEW x \in inFlight' PROVE \E u \in Ticks : tick'[u].run = x
    OBVIOUS
  <2>1. x \in inFlight /\ x # r /\ x # NoRun
    BY <1>1, RunAssumption
  <2>2. PICK u \in Ticks : tick[u].run = x
    BY <2>1 DEF LockInv, NoLeakedLock
  <2> QED BY <1>2, <2>1, <2>2
<1>4. tick'[Loop].run # NoRun => pass'.on
  BY <1>2 DEF LockInv, NoLeakedLock
<1>5. \A x \in Runs : tick'[x].run # NoRun => row'[x].status # "absent"
  BY <1>2 DEF LockInv
<1> QED
  BY <1>3, <1>4, <1>5 DEF LockInv, NoLeakedLock

LEMMA ReturnKeepsLocks ==
  ASSUME TypeOK, LockInv, NEW t \in Ticks, NEW r \in Runs, NEW rw \in Row,
         tick[t].run \in {r, NoRun}, rw.status # "absent", pass'.on = pass.on,
         PersistAndReturn(t, r, rw)
  PROVE  LockInv'
<1>1. \A x \in Runs : row[x].status # "absent" => row'[x].status # "absent"
  BY DEF PersistAndReturn, TypeOK
<1> QED
  BY <1>1, LetGo DEF PersistAndReturn

\* A tick that calls the runners of its next position locks the run it drives.
LEMMA TickOnceKeepsLocks ==
  ASSUME TypeOK, LockInv, NEW t \in Ticks, NEW r \in Runs, NEW dsk,
         NEW rows \in [Runs -> Row], NEW ticks \in [Ticks -> Tick],
         \A x \in Runs : row[x].status # "absent" => rows[x].status # "absent",
         \A u \in Ticks : ticks[u].run = tick[u].run,
         tick[t].run \in {r, NoRun}, t # Loop => rows[t].status # "absent",
         t = Loop => pass.on, pass'.on = pass.on,
         TickOnce(t, r, rows, dsk, ticks)
  PROVE  LockInv'
<1>1. CASE PersistAndReturn(t, r, FinalizeRun(rows[r]))
  BY <1>1, StatusOnly, RowOperatorsType, ReturnKeepsLocks
<1>2. CASE /\ \A x \in Runs : row'[x].status = rows[x].status
           /\ tick'[t].run = r /\ \A u \in Ticks \ {t} : tick'[u] = ticks[u]
           /\ inFlight' = inFlight \cup {r}
  <2>1. \A u \in Ticks \ {t} : tick'[u].run = tick[u].run
    BY <1>2
  <2>2. \A x \in inFlight' : \E u \in Ticks : tick'[u].run = x
    <3> SUFFICES ASSUME NEW x \in inFlight', x # r PROVE \E u \in Ticks : tick'[u].run = x
      BY <1>2
    <3>1. x \in inFlight /\ x \in Runs /\ x # NoRun
      BY <1>2, RunAssumption DEF TypeOK
    <3>2. PICK u \in Ticks : tick[u].run = x
      BY <3>1 DEF LockInv, NoLeakedLock
    <3> QED BY <2>1, <3>1, <3>2
  <2>3. tick'[Loop].run # NoRun => pass'.on
    BY <2>1 DEF LockInv, NoLeakedLock, Ticks
  <2>4. \A x \in Runs : tick'[x].run # NoRun => row'[x].status # "absent"
    <3> SUFFICES ASSUME NEW x \in Runs, tick'[x].run # NoRun PROVE row'[x].status # "absent"
      OBVIOUS
    <3>1. CASE x = t
      BY <1>2, <3>1, RunAssumption
    <3>2. CASE x # t
      BY <1>2, <2>1, <3>2 DEF LockInv, Ticks
    <3> QED BY <3>1, <3>2
  <2> QED BY <2>2, <2>3, <2>4 DEF LockInv, NoLeakedLock
<1>3. \/ PersistAndReturn(t, r, FinalizeRun(rows[r]))
      \/ /\ \A x \in Runs : row'[x].status = rows[x].status
         /\ tick'[t].run = r /\ \A u \in Ticks \ {t} : tick'[u] = ticks[u]
         /\ inFlight' = inFlight \cup {r}
  <2> HIDE DEF Ticks
  <2> QED BY TickOnceShape
<1> QED
  BY <1>1, <1>2, <1>3

LEMMA SettleKeepsLocks ==
  ASSUME TypeOK, LockInv, NEW t \in Ticks, NEW s \in Steps, NEW res \in Results(s),
         SettleSolo(t, s, res) \/ SettleSibling(t, s, res)
  PROVE  LockInv'
<1> DEFINE r == tick[t].run
<1>1. /\ r \in Runs /\ r # NoRun /\ RowExists(r)
      /\ row \in [Runs -> Row] /\ tick \in [Ticks -> Tick] /\ pass' = pass
  BY AwaitsType, RunAssumption DEF SettleSolo, SettleSibling, TypeOK
<1>2. /\ t # Loop => row[t].status # "absent"
      /\ t = Loop => pass.on
  BY <1>1 DEF LockInv, NoLeakedLock, Ticks
<1>3. ASSUME NEW new \in Row, new.status \in Present, PersistAndGoOn(t, r, new)
      PROVE  LockInv'
  <2> DEFINE rows == [row EXCEPT ![r] = new]
  <2>1. /\ new.status # "absent" /\ rows \in [Runs -> Row]
        /\ \A x \in Runs : row[x].status # "absent" => rows[x].status # "absent"
    BY <1>1, <1>3 DEF Present, Active, Settled
  <2>2. TickOnce(t, r, rows, rows, tick)
    BY <1>3 DEF PersistAndGoOn
  <2>3. t # Loop => rows[t].status # "absent"
    BY <1>2, <2>1 DEF Ticks
  <2>4. r \in Runs /\ tick[t].run \in {r, NoRun}
    BY <1>1
  <2> HIDE DEF rows, r, Ticks
  <2> QED BY <1>1, <1>2, <2>1, <2>2, <2>3, <2>4, TickOnceKeepsLocks
<1>4. ASSUME NEW new \in Row, NEW tk \in Tick, new.status = row[r].status, tk.run = r,
             row' = [row EXCEPT ![r] = new], tick' = [tick EXCEPT ![t] = tk],
             inFlight' = inFlight
      PROVE  LockInv'
  <2>1. \A u \in Ticks : tick'[u].run = tick[u].run
    BY <1>1, <1>4
  <2>2. \A x \in Runs : row[x].status # "absent" => row'[x].status # "absent"
    BY <1>1, <1>4
  <2>3. tick[Loop].run # NoRun => pass'.on
    BY <1>1 DEF LockInv, NoLeakedLock
  <2> QED BY <1>4, <2>1, <2>2, <2>3, LocksFrame
<1>5. ASSUME NEW new \in Row, new.status \in Present, PersistAndReturn(t, r, new)
      PROVE  LockInv'
  <2>1. new.status # "absent" /\ tick[t].run \in {r, NoRun} /\ r \in Runs /\ pass'.on = pass.on
    BY <1>1, <1>5 DEF Present, Active, Settled
  <2> HIDE DEF r
  <2> QED BY <1>5, <2>1, ReturnKeepsLocks
<1> QED
  <2>1. \/ \E new \in Row : new.status \in Present /\ PersistAndReturn(t, r, new)
        \/ \E new \in Row : new.status \in Present /\ PersistAndGoOn(t, r, new)
        \/ \E new \in Row, tk \in Tick :
              /\ new.status = row[r].status /\ tk.run = r
              /\ row' = [row EXCEPT ![r] = new] /\ tick' = [tick EXCEPT ![t] = tk]
              /\ UNCHANGED <<disk, inFlight>>
    BY SettleOutcome
  <2> HIDE DEF r
  <2> QED BY <1>3, <1>4, <1>5, <2>1

LEMMA ExecutorKeepsLocks ==
  ASSUME TypeOK, LockInv, Executor
  PROVE  LockInv'
<1>1. row \in [Runs -> Row] /\ tick \in [Ticks -> Tick]
  BY DEF TypeOK
<1>2. ASSUME NEW t \in Ticks, NEW s \in Steps, RunnerThrows(t, s) PROVE LockInv'
  <2> DEFINE r == tick[t].run
             rw == StopSteps(row[r], "failed")
  <2>1. /\ r \in Runs /\ row[r] \in Row /\ pass'.on = pass.on /\ PersistAndReturn(t, r, rw)
    BY <1>1, <1>2, AwaitsType DEF RunnerThrows
  <2>2. rw \in Row /\ rw.status # "absent"
    BY <2>1, RowOperatorsType DEF StopSteps, Row
  <2>3. tick[t].run \in {r, NoRun}
    OBVIOUS
  <2> HIDE DEF r, rw
  <2> QED BY <2>1, <2>2, <2>3, ReturnKeepsLocks
<1>3. ASSUME NEW t \in Ticks, NEW s \in Steps, SettleDeleted(t, s) PROVE LockInv'
  <2>1. tick[t].run \in Runs /\ row' = row
    BY <1>3, AwaitsType DEF SettleDeleted
  <2>2. CASE /\ tick' = [tick EXCEPT ![t] = Idle]
             /\ inFlight' = inFlight \ {tick[t].run}
             /\ t = Loop \/ pass' = pass
    BY <2>1, <2>2, LetGo
  <2>3. CASE /\ tick' = [tick EXCEPT ![t].wait = @ \ {s}]
             /\ inFlight' = inFlight /\ pass' = pass
    <3>1. \A u \in Ticks : tick'[u].run = tick[u].run
      BY <1>1, <2>3 DEF Tick
    <3>2. tick[Loop].run # NoRun => pass'.on
      BY <2>3 DEF LockInv, NoLeakedLock
    <3> QED BY <2>1, <2>3, <3>1, <3>2, LocksFrame
  <2> QED BY <1>3, <2>2, <2>3 DEF SettleDeleted
<1>4. ASSUME NEW c \in late, NEW res \in Results(c.step), LateSettle(c, res)
      PROVE  LockInv'
  <2>1. \A r \in Runs : row'[r].status = row[r].status
    BY <1>1, <1>4 DEF LateSettle, Row
  <2>2. tick[Loop].run # NoRun => pass'.on
    BY <1>4 DEF LateSettle, LockInv, NoLeakedLock
  <2> QED BY <1>4, <2>1, <2>2, LocksFrame DEF LateSettle
<1> QED
  BY <1>2, <1>3, <1>4, SettleKeepsLocks DEF Executor, Settle

LEMMA ServiceKeepsLocks ==
  ASSUME TypeOK, LockInv, Service
  PROVE  LockInv'
<1>1. row \in [Runs -> Row] /\ tick \in [Ticks -> Tick] /\ pass \in [on : BOOLEAN, todo : SUBSET Runs]
  BY DEF TypeOK
<1>2. ASSUME StartPass \/ EndPass \/ \E r \in Runs : SkipRun(r) PROVE LockInv'
  <2>1. tick[Loop].run # NoRun => pass'.on
    BY <1>1, <1>2 DEF StartPass, EndPass, SkipRun, LockInv, NoLeakedLock
  <2> QED BY <1>2, <2>1, LocksFrame DEF StartPass, EndPass, SkipRun
<1>3. ASSUME NEW r \in Runs, DispatchRun(r) PROVE LockInv'
  <2> DEFINE rows == [row EXCEPT ![r].status = "running"]
  <2>1. /\ rows \in [Runs -> Row] /\ rows[r].status = "running"
        /\ \A x \in Runs : row[x].status # "absent" => rows[x].status # "absent"
    BY <1>1 DEF Row, RunStatus, Present, Active
  <2>2. tick[r].run = NoRun /\ r # Loop /\ r \in Ticks
    BY <1>3, RunAssumption DEF DispatchRun, LockInv, Ticks
  <2>3. TickOnce(r, r, rows, rows, tick) /\ pass'.on = pass.on
    BY <1>3 DEF DispatchRun
  <2> HIDE DEF rows
  <2> QED BY <1>1, <2>1, <2>2, <2>3, TickOnceKeepsLocks
<1>4. ASSUME NEW r \in Runs, VisitRun(r) PROVE LockInv'
  <2>1. /\ TickOnce(Loop, r, row, disk, tick) /\ tick[Loop].run = NoRun /\ pass.on
        /\ pass' = [pass EXCEPT !.todo = @ \ {r}]
    BY <1>4 DEF VisitRun
  <2>2. pass'.on = pass.on /\ Loop \in Ticks
    BY <1>1, <2>1 DEF Ticks
  <2> QED BY <1>1, <2>1, <2>2, TickOnceKeepsLocks
<1>5. ASSUME NEW d \in Runs, NEW r \in Runs, DispatchInTheSameMs(d, r) PROVE LockInv'
  <2> DEFINE rows == [row EXCEPT ![d].status = "aliased", ![r].status = "running",
                                 ![r].st = NoSteps]
             rest == [tick EXCEPT ![r].own =
                        [s \in Steps |-> IF s \in tick[r].wait THEN row[r].st[s] ELSE @[s]]]
  <2>1. TickOnce(d, r, rows, rows, rest) /\ pass' = pass /\ row[d].status = "absent"
    BY <1>5 DEF DispatchInTheSameMs
  <2>2. rows \in [Runs -> Row] /\ rest \in [Ticks -> Tick]
    <3>1. d # r  BY <1>5 DEF DispatchInTheSameMs
    <3> QED BY <3>1, SameMsTypes
  <2>3. /\ rows[d].status # "absent"
        /\ \A x \in Runs : row[x].status # "absent" => rows[x].status # "absent"
    BY <1>1, <1>5 DEF DispatchInTheSameMs, Row
  <2>4. \A u \in Ticks : rest[u].run = tick[u].run
    BY <1>1 DEF Tick
  <2>5. tick[d].run = NoRun /\ d # Loop /\ d \in Ticks
    BY <2>1, RunAssumption DEF LockInv, Ticks
  <2> HIDE DEF rows, rest
  <2> QED BY <2>1, <2>2, <2>3, <2>4, <2>5, TickOnceKeepsLocks
<1> QED
  BY <1>2, <1>3, <1>4, <1>5 DEF Service

LEMMA OperatorKeepsLocks ==
  ASSUME TypeOK, LockInv, Operator
  PROVE  LockInv'
<1>1. /\ row \in [Runs -> Row] /\ tick \in [Ticks -> Tick]
      /\ tick[Loop].run # NoRun => pass.on
  BY DEF TypeOK, LockInv, NoLeakedLock
<1>2. ASSUME NEW r \in Runs, CancelRun(r) \/ PauseRun(r) \/ ResumeRun(r) PROVE LockInv'
  <2>1. \A x \in Runs : row[x].status # "absent" => row'[x].status # "absent"
    <3>1. CASE CancelRun(r)
      <4>1. StopSteps(row[r], "cancelled").status = "cancelled"
        BY <1>1 DEF StopSteps, Row
      <4>2. row' = [row EXCEPT ![r] = StopSteps(row[r], "cancelled")]
        BY <3>1 DEF CancelRun
      <4> QED BY <1>1, <4>1, <4>2
    <3>2. CASE PauseRun(r) \/ ResumeRun(r)
      BY <1>1, <3>2 DEF PauseRun, ResumeRun, Row
    <3> QED BY <1>2, <3>1, <3>2
  <2> QED BY <1>1, <1>2, <2>1, LocksFrame DEF CancelRun, PauseRun, ResumeRun
<1>3. ASSUME NEW r \in Runs, NEW gone, NEW again, Rewind(r, gone, again) PROVE LockInv'
  <2>1. \A x \in Runs : row[x].status # "absent" => row'[x].status # "absent"
    BY <1>1, <1>3 DEF Rewind, Row
  <2>2. \A t \in Ticks : tick'[t].run = tick[t].run
    BY <1>1, <1>3 DEF Rewind, Tick
  <2> QED BY <1>1, <1>3, <2>1, <2>2, LocksFrame DEF Rewind
<1>4. ASSUME NEW a \in Autos, DeleteAutomation(a) PROVE LockInv'
  <2>1. \A x \in Runs : row'[x].status = "deleted" \/ row'[x] = row[x]
    BY <1>1, <1>4 DEF DeleteAutomation, Absent
  <2> QED BY <1>1, <1>4, <2>1, LocksFrame DEF DeleteAutomation
<1> QED
  BY <1>2, <1>3, <1>4 DEF Operator, ContinueRun, RetryRunFromStep, RetryParallelStep

\* However ticks end, by a result, a thrown error, or because the run's row is
\* gone, with ties, deletions and restarts, no run is left in flight without a
\* tick and no tick of a pass is left behind by it (tickRunningChains, service.ts).
THEOREM NoLockLeaks == Spec => []NoLeakedLock
<1>1. Init => TypeOK /\ LockInv
  <2>1. Init => LockInv
    BY DEF Init, LockInv, NoLeakedLock, Idle, Ticks
  <2> QED BY <2>1, InitType
<1>2. TypeOK /\ LockInv /\ [Next]_vars => TypeOK' /\ LockInv'
  <2> SUFFICES ASSUME TypeOK, LockInv, [Next]_vars PROVE TypeOK' /\ LockInv'
    OBVIOUS
  <2>1. Restart => LockInv'
    BY DEF Restart, LockInv, NoLeakedLock, Idle, Ticks
  <2>2. UNCHANGED vars => LockInv'
    BY DEF vars, LockInv, NoLeakedLock
  <2> QED
    BY <2>1, <2>2, NextType, ExecutorKeepsLocks, ServiceKeepsLocks, OperatorKeepsLocks DEF Next
<1>3. LockInv => NoLeakedLock
  BY DEF LockInv
<1> QED
  BY <1>1, <1>2, <1>3, PTL DEF Spec

-----------------------------------------------------------------------------
(* What the pure parts of the executor do to the order of the steps *)

LEMMA MaterialiseOrdered ==
  ASSUME NEW st \in [Steps -> StepStatus], NEW p \in Positions,
         OrderedRow(st), Current(st, p)
  PROVE  /\ OrderedRow(Materialise(st, p))
         /\ \A s \in StepsAt(p) : EdgeAt(Materialise(st, p), s)
<1>1. PosOf \in [Steps -> Nat] /\ p \in Nat
  BY ChainAssumption, PositionsAreNat
<1>2. PICK e \in Steps : PosOf[e] = p /\ st[e] \notin Done
  BY DEF Current, StepsAt
<1>3. \A x \in Steps : PosOf[x] > p => st[x] = "none"
  BY <1>1, <1>2 DEF OrderedRow
<1>4. \A s \in Steps : PosOf[s] < p => st[s] \in Done
  BY DEF Current
<1>5. OrderedRow(Materialise(st, p))
  <2> SUFFICES ASSUME NEW s \in Steps, NEW x \in Steps, PosOf[s] < PosOf[x],
                      Materialise(st, p)[x] # "none"
               PROVE  Materialise(st, p)[s] \in Done
    BY DEF OrderedRow
  <2>1. PosOf[x] <= p
    BY <1>1, <1>3 DEF Materialise
  <2>2. PosOf[s] < p
    BY <1>1, <2>1
  <2> QED
    BY <1>1, <1>4, <2>2 DEF Materialise
<1>6. ASSUME NEW s \in StepsAt(p) PROVE EdgeAt(Materialise(st, p), s)
  BY <1>1, <1>3 DEF StepsAt, EdgeAt, Materialise
<1> QED
  BY <1>5, <1>6

LEMMA StopStepsKeepsOrder ==
  ASSUME NEW rw \in Row, NEW status \in RunStatus, OrderedRow(rw.st)
  PROVE  /\ OrderedRow(StopSteps(rw, status).st)
         /\ \A s \in Steps : EdgeAt(rw.st, s) => EdgeAt(StopSteps(rw, status).st, s)
<1>1. StopSteps(rw, status).st =
        [s \in Steps |-> IF rw.st[s] \in Live THEN "failed" ELSE rw.st[s]]
  BY DEF StopSteps, Row
<1> QED
  BY <1>1 DEF OrderedRow, EdgeAt, Live, Done

\* A tick stays at its edge while the row it drives does not change.
LEMMA EdgeFrame ==
  ASSUME NEW tk, NEW rows, NEW new, TickAtEdge(tk, rows),
         tk.run # NoRun => new[tk.run] = rows[tk.run]
  PROVE  TickAtEdge(tk, new)
  BY DEF TickAtEdge

LEMMA IdleAtEdge == \A rows : TickAtEdge(Idle, rows)
  BY DEF TickAtEdge, Idle

\* A result that lands on the edge keeps the row ordered and the other
\* siblings of its position at the edge.
LEMMA LandKeepsOrder ==
  ASSUME OrderInv, NEW t \in Ticks, NEW s \in Steps, NEW res \in Results(s),
         Awaits(t, s), RowExists(tick[t].run)
  PROVE  /\ Land(t, s, res) \in Row
         /\ Land(t, s, res).status = row[tick[t].run].status
         /\ OrderedRow(Land(t, s, res).st)
         /\ \A x \in tick[t].wait :
              tick[t].own[x] = "live" => EdgeAt(Land(t, s, res).st, x)
<1> DEFINE r == tick[t].run
           v == IF tick[t].own[s] = "live" THEN StatusOf(res) ELSE row[r].st[s]
<1>1. r \in Runs /\ row[r] \in Row /\ tick[t] \in Tick
  BY AwaitsType DEF OrderInv, TypeOK
<1>2. Land(t, s, res) \in Row
  BY <1>1, LandType DEF OrderInv
<1>3. Land(t, s, res).st = [row[r].st EXCEPT ![s] = v]
  BY <1>1 DEF Land, Row
<1>4. Land(t, s, res).status = row[r].status
  BY <1>1 DEF Land, Row
<1>5. StatusOf(res) # "none"
  BY StatusOfType DEF Live, Done
<1>6. PosOf \in [Steps -> Nat] /\ row[r].st \in [Steps -> StepStatus]
  BY <1>1, ChainAssumption DEF Row
<1>7. OrderedRow(row[r].st)
  BY <1>1 DEF OrderInv, StepOrder
<1>8. tick[t].own[s] = "live" => EdgeAt(row[r].st, s)
  BY DEF OrderInv, AtTheEdge, TickAtEdge, Awaits, RowExists
<1>9. OrderedRow(Land(t, s, res).st)
  BY <1>3, <1>5, <1>6, <1>7, <1>8 DEF OrderedRow, EdgeAt
<1>10. ASSUME NEW x \in tick[t].wait, tick[t].own[x] = "live"
       PROVE  EdgeAt(Land(t, s, res).st, x)
  <2>1. x \in Steps /\ PosOf[x] = PosOf[s] /\ EdgeAt(row[r].st, x)
    BY <1>1, <1>10 DEF OrderInv, AtTheEdge, TickAtEdge, Awaits, RowExists, Tick
  <2> QED
    BY <1>3, <1>5, <1>6, <2>1 DEF EdgeAt
<1> QED
  BY <1>2, <1>4, <1>9, <1>10

-----------------------------------------------------------------------------
(* The pieces of a tick *)

LEMMA ReturnKeepsOrder ==
  ASSUME OrderInv, NEW t \in Ticks, NEW r \in Runs, NEW rw \in Row,
         OrderedRow(rw.st), \A u \in Ticks \ {t} : tick[u].run # r,
         PersistAndReturn(t, r, rw)
  PROVE  AtTheEdge' /\ StepOrder'
<1>1. /\ row \in [Runs -> Row] /\ tick \in [Ticks -> Tick]
      /\ row' = [row EXCEPT ![r] = rw] /\ disk' = row'
      /\ tick' = [tick EXCEPT ![t] = Idle] /\ inFlight' = inFlight \ {r}
  BY DEF OrderInv, TypeOK, PersistAndReturn
<1>2. Idle.run = NoRun /\ Idle.wait = {}
  BY DEF Idle
<1>3. AtTheEdge'
  <2> SUFFICES ASSUME NEW u \in Ticks PROVE TickAtEdge(tick'[u], row')
    BY DEF AtTheEdge
  <2>1. CASE u = t
    BY <1>1, <2>1, IdleAtEdge
  <2>2. CASE u # t
    <3>1. tick'[u] = tick[u] /\ row'[tick[u].run] = row[tick[u].run]
      BY <1>1, <2>2
    <3>2. TickAtEdge(tick[u], row)
      BY DEF OrderInv, AtTheEdge
    <3> QED BY <3>1, <3>2, EdgeFrame
  <2> QED BY <2>1, <2>2
<1>4. StepOrder'
  BY <1>1 DEF OrderInv, StepOrder
<1> QED
  BY <1>3, <1>4

LEMMA TickOnceKeepsOrder ==
  ASSUME OrderInv, NEW t \in Ticks, NEW r \in Runs, NEW rw \in Row,
         NEW dsk \in [Runs -> Row],
         t \in {r, Loop}, rw.status # "absent", OrderedRow(rw.st),
         \A x \in Runs : OrderedRow(dsk[x].st),
         \A u \in Ticks \ {t} : tick[u].run # r,
         TickOnce(t, r, [row EXCEPT ![r] = rw], dsk, tick)
  PROVE  AtTheEdge' /\ StepOrder'
<1> DEFINE rows == [row EXCEPT ![r] = rw]
<1>1. row \in [Runs -> Row] /\ tick \in [Ticks -> Tick]
  BY DEF OrderInv, TypeOK
<1>2. rows[r] = rw /\ rows \in [Runs -> Row]
  BY <1>1
<1>3. CASE PersistAndReturn(t, r, FinalizeRun(rw))
  BY <1>3, ReturnKeepsOrder, StatusOnly, RowOperatorsType
<1>4. ASSUME NEW p \in Positions, Current(rw.st, p),
             row' = [rows EXCEPT ![r].st = Materialise(rw.st, p)],
             disk' = DiskAtCall(p, row', rows, dsk),
             tick' = [tick EXCEPT ![t] =
                       [Idle EXCEPT !.run = r, !.pos = p,
                          !.wait = {s \in StepsAt(p) : rw.st[s] \notin Done}]],
             inFlight' = inFlight \cup {r}
      PROVE  AtTheEdge' /\ StepOrder'
  <2> DEFINE st == Materialise(rw.st, p)
             tk == [Idle EXCEPT !.run = r, !.pos = p,
                          !.wait = {s \in StepsAt(p) : rw.st[s] \notin Done}]
  <2>1. rw.st \in [Steps -> StepStatus]
    BY DEF Row
  <2>2. OrderedRow(st) /\ \A s \in StepsAt(p) : EdgeAt(st, s)
    BY <1>4, <2>1, MaterialiseOrdered
  <2>3. row' = [row EXCEPT ![r] = [rw EXCEPT !.st = st]]
    BY <1>1, <1>2, <1>4
  <2>4. [rw EXCEPT !.st = st].st = st /\ [rw EXCEPT !.st = st].status = rw.status
    BY DEF Row
  <2>5. /\ tk.run = r /\ tk.pos = p /\ tk.wait \subseteq StepsAt(p)
        /\ tick' = [tick EXCEPT ![t] = tk]
    BY <1>4 DEF Idle
  <2>6. AtTheEdge'
    <3> SUFFICES ASSUME NEW u \in Ticks PROVE TickAtEdge(tick'[u], row')
      BY DEF AtTheEdge
    <3> HIDE DEF tk, st
    <3>1. CASE u = t
      <4>1. tick'[u] = tk /\ row'[r].st = st
        BY <1>1, <2>3, <2>4, <2>5, <3>1
      <4> QED BY <2>2, <2>5, <4>1 DEF TickAtEdge, StepsAt
    <3>2. CASE u # t
      <4>1. tick'[u] = tick[u] /\ row'[tick[u].run] = row[tick[u].run]
        BY <1>1, <2>3, <2>5, <3>2
      <4>2. TickAtEdge(tick[u], row)
        BY DEF OrderInv, AtTheEdge
      <4> QED BY <4>1, <4>2, EdgeFrame
    <3> QED BY <3>1, <3>2
  <2>7. StepOrder'
    <3> HIDE DEF st
    <3>1. \A x \in Runs : OrderedRow(row'[x].st)
      BY <1>1, <2>2, <2>3, <2>4 DEF OrderInv, StepOrder
    <3>2. disk' = row' \/ disk' = dsk
      BY <1>4 DEF DiskAtCall
    <3> QED BY <3>1, <3>2 DEF StepOrder
  <2> QED BY <2>6, <2>7
<1> QED
  BY <1>2, <1>3, <1>4 DEF TickOnce

LEMMA GoOnKeepsOrder ==
  ASSUME OrderInv, NEW t \in Ticks, NEW r \in Runs, NEW rw \in Row,
         t \in {r, Loop}, rw.status # "absent", OrderedRow(rw.st),
         \A u \in Ticks \ {t} : tick[u].run # r,
         PersistAndGoOn(t, r, rw)
  PROVE  AtTheEdge' /\ StepOrder'
<1> DEFINE rows == [row EXCEPT ![r] = rw]
<1>1. row \in [Runs -> Row] /\ rows \in [Runs -> Row]
  BY DEF OrderInv, TypeOK
<1>2. \A x \in Runs : OrderedRow(rows[x].st)
  BY <1>1 DEF OrderInv, StepOrder
<1>3. TickOnce(t, r, rows, rows, tick)
  BY DEF PersistAndGoOn
<1> QED
  <2> HIDE DEF Row
  <2> QED BY <1>1, <1>2, <1>3, TickOnceKeepsOrder

-----------------------------------------------------------------------------
(* The actions *)

LEMMA SettleSoloKeepsOrder ==
  ASSUME OrderInv, NEW t \in Ticks, NEW s \in Steps, NEW res \in Results(s),
         SettleSolo(t, s, res)
  PROVE  AtTheEdge' /\ StepOrder'
<1> DEFINE r  == tick[t].run
           rw == Land(t, s, res)
<1>1. /\ r \in Runs /\ t \in {r, Loop}
      /\ \A u \in Ticks \ {t} : tick[u].run # r
  BY OnlyDriver DEF SettleSolo, OrderInv
<1>2. /\ rw \in Row /\ OrderedRow(rw.st) /\ rw.status # "absent"
  BY LandKeepsOrder DEF SettleSolo, RowExists, Present, Active, Settled
<1>3. \E new \in Row : /\ new.st = rw.st /\ new.status # "absent"
                       /\ PersistAndReturn(t, r, new) \/ PersistAndGoOn(t, r, new)
  <2> HIDE DEF rw, r
  <2>1. /\ [rw EXCEPT !.status = "failed"] \in Row
        /\ FinalizeRun(rw) \in Row /\ Propagate(rw) \in Row
    BY <1>2, RowOperatorsType
  <2>2. /\ [rw EXCEPT !.status = "failed"].st = rw.st
        /\ [rw EXCEPT !.status = "failed"].status = "failed"
    BY <1>2 DEF Row
  <2>3. /\ FinalizeRun(rw).st = rw.st /\ Propagate(rw).st = rw.st
        /\ FinalizeRun(rw).status # "absent" /\ Propagate(rw).status # "absent"
    BY <1>2, StatusOnly
  <2>4. \/ PersistAndReturn(t, r, [rw EXCEPT !.status = "failed"])
        \/ PersistAndReturn(t, r, FinalizeRun(rw))
        \/ PersistAndGoOn(t, r, Propagate(rw))
        \/ PersistAndReturn(t, r, Propagate(rw))
    BY DEF SettleSolo, r, rw
  <2> QED BY <2>1, <2>2, <2>3, <2>4
<1> QED
  <2> HIDE DEF rw, r
  <2> QED BY <1>1, <1>2, <1>3, ReturnKeepsOrder, GoOnKeepsOrder

LEMMA SettleSiblingKeepsOrder ==
  ASSUME OrderInv, NEW t \in Ticks, NEW s \in Steps, NEW res \in Results(s),
         SettleSibling(t, s, res)
  PROVE  AtTheEdge' /\ StepOrder'
<1> DEFINE r  == tick[t].run
           rw == Land(t, s, res)
           tk == [tick[t] EXCEPT !.wait = @ \ {s},
                    !.own[s] = IF @ = "live" THEN "live" ELSE StatusOf(res),
                    !.ended = @ \/ res = "ended",
                    !.adv = @ \/ Advances(res)]
<1>1. /\ r \in Runs /\ t \in {r, Loop}
      /\ \A u \in Ticks \ {t} : tick[u].run # r
  BY OnlyDriver DEF SettleSibling, OrderInv
<1>2. /\ rw \in Row /\ OrderedRow(rw.st) /\ rw.status = row[r].status
      /\ rw.status # "absent"
      /\ \A x \in tick[t].wait : tick[t].own[x] = "live" => EdgeAt(rw.st, x)
  BY LandKeepsOrder DEF SettleSibling, RowExists, Present, Active, Settled
<1>3. ASSUME AfterGroup(t, r, tk, rw)
      PROVE  AtTheEdge' /\ StepOrder'
  <2>1. \E new \in Row : /\ new.st = rw.st /\ new.status # "absent"
                         /\ PersistAndReturn(t, r, new) \/ PersistAndGoOn(t, r, new)
    <3> HIDE DEF rw, r, tk
    <3>1. /\ [rw EXCEPT !.status = "failed"] \in Row
          /\ FinalizeRun(rw) \in Row /\ Propagate(rw) \in Row
      BY <1>2, RowOperatorsType
    <3>2. /\ [rw EXCEPT !.status = "failed"].st = rw.st
          /\ [rw EXCEPT !.status = "failed"].status = "failed"
      BY <1>2 DEF Row
    <3>3. /\ FinalizeRun(rw).st = rw.st /\ Propagate(rw).st = rw.st
          /\ FinalizeRun(rw).status # "absent" /\ Propagate(rw).status # "absent"
      BY <1>2, StatusOnly
    <3>4. \/ PersistAndReturn(t, r, [rw EXCEPT !.status = "failed"])
          \/ PersistAndReturn(t, r, FinalizeRun(rw))
          \/ PersistAndReturn(t, r, Propagate(rw))
          \/ PersistAndGoOn(t, r, rw)
          \/ PersistAndReturn(t, r, rw)
      BY <1>3 DEF AfterGroup
    <3> QED BY <1>2, <3>1, <3>2, <3>3, <3>4
  <2> HIDE DEF rw, r, tk
  <2> QED BY <1>1, <1>2, <2>1, ReturnKeepsOrder, GoOnKeepsOrder
<1>4. ASSUME row' = [row EXCEPT ![r] = rw], tick' = [tick EXCEPT ![t] = tk],
             UNCHANGED <<disk, inFlight>>
      PROVE  AtTheEdge' /\ StepOrder'
  <2>1. /\ row \in [Runs -> Row] /\ tick \in [Ticks -> Tick]
    BY DEF OrderInv, TypeOK
  <2>2. /\ tk.run = r /\ tk.pos = tick[t].pos /\ tk.wait = tick[t].wait \ {s}
        /\ \A x \in tk.wait : tk.own[x] = tick[t].own[x]
    BY <2>1 DEF Tick
  <2>3. AtTheEdge'
    <3> SUFFICES ASSUME NEW u \in Ticks PROVE TickAtEdge(tick'[u], row')
      BY DEF AtTheEdge
    <3>1. TickAtEdge(tick[u], row)
      BY DEF OrderInv, AtTheEdge
    <3>2. CASE u = t
      <4>1. tick'[u] = tk /\ row'[r] = rw
        BY <1>1, <1>4, <2>1, <3>2
      <4> HIDE DEF rw, tk
      <4> QED BY <1>2, <2>2, <3>1, <3>2, <4>1 DEF TickAtEdge
    <3>3. CASE u # t
      <4>1. tick'[u] = tick[u] /\ row'[tick[u].run] = row[tick[u].run]
        BY <1>1, <1>4, <2>1, <3>3
      <4> QED BY <3>1, <4>1, EdgeFrame
    <3> QED BY <3>2, <3>3
  <2>4. StepOrder'
    BY <1>2, <1>4, <2>1 DEF OrderInv, StepOrder
  <2> QED BY <2>3, <2>4
<1> QED
  BY <1>3, <1>4 DEF SettleSibling

LEMMA RunnerThrowsKeepsOrder ==
  ASSUME OrderInv, QuietEnvironment, NEW t \in Ticks, NEW s \in Steps, RunnerThrows(t, s)
  PROVE  AtTheEdge' /\ StepOrder' /\ late' = {}
<1>1. /\ tick[t].run \in Runs
      /\ \A u \in Ticks \ {t} : tick[u].run # tick[t].run
  BY OnlyDriver DEF RunnerThrows, OrderInv
<1>2. row[tick[t].run] \in Row /\ OrderedRow(row[tick[t].run].st)
  BY <1>1 DEF OrderInv, TypeOK, StepOrder
<1>3. /\ StopSteps(row[tick[t].run], "failed") \in Row
      /\ OrderedRow(StopSteps(row[tick[t].run], "failed").st)
  BY <1>2, RowOperatorsType, StopStepsKeepsOrder
     DEF RunStatus, Present, Settled
<1>4. AtTheEdge' /\ StepOrder'
  BY <1>1, <1>3, ReturnKeepsOrder DEF RunnerThrows
<1>5. tick[t].wait \ {s} = {}
  <2>1. \A x \in tick[t].wait : x \in Steps /\ PosOf[x] = PosOf[s]
    BY DEF OrderInv, TypeOK, Tick, AtTheEdge, TickAtEdge, RunnerThrows, Awaits
  <2>2. PosOf[s] \notin Group
    BY DEF QuietEnvironment, RunnerThrows
  <2> QED BY <2>1, <2>2, ChainAssumption
<1>6. late' = {}
  BY <1>5 DEF RunnerThrows, OrderInv
<1> QED
  BY <1>4, <1>6

LEMMA SettleDeletedKeepsOrder ==
  ASSUME OrderInv, NEW t \in Ticks, NEW s \in Steps, SettleDeleted(t, s)
  PROVE  AtTheEdge' /\ StepOrder'
<1>1. tick \in [Ticks -> Tick] /\ row' = row /\ disk' = disk
  BY DEF OrderInv, TypeOK, SettleDeleted
<1>2. CASE tick' = [tick EXCEPT ![t] = Idle]
  <2>1. \A u \in Ticks : tick'[u] = IF u = t THEN Idle ELSE tick[u]
    BY <1>1, <1>2
  <2>2. AtTheEdge'
    BY <1>1, <2>1, IdleAtEdge DEF OrderInv, AtTheEdge
  <2> QED BY <1>1, <2>2 DEF OrderInv, StepOrder
<1>3. CASE tick' = [tick EXCEPT ![t].wait = @ \ {s}]
  <2>1. \A u \in Ticks : /\ tick'[u].run = tick[u].run /\ tick'[u].pos = tick[u].pos
                         /\ tick'[u].own = tick[u].own
                         /\ tick'[u].wait \subseteq tick[u].wait
    BY <1>1, <1>3 DEF Tick
  <2>2. AtTheEdge'
    BY <1>1, <2>1 DEF OrderInv, AtTheEdge, TickAtEdge
  <2> QED BY <1>1, <2>2 DEF OrderInv, StepOrder
<1> QED
  BY <1>2, <1>3 DEF SettleDeleted

LEMMA ServiceKeepsOrder ==
  ASSUME OrderInv, QuietEnvironment, Service
  PROVE  AtTheEdge' /\ StepOrder' /\ late' = {}
<1>1. /\ row \in [Runs -> Row] /\ disk \in [Runs -> Row] /\ tick \in [Ticks -> Tick]
      /\ Exclusive /\ AtTheEdge /\ StepOrder /\ late = {}
  BY DEF OrderInv, TypeOK
<1>2. ASSUME UNCHANGED <<row, disk, tick, late>>
      PROVE  AtTheEdge' /\ StepOrder' /\ late' = {}
  BY <1>1, <1>2 DEF AtTheEdge, TickAtEdge, StepOrder
<1>3. CASE StartPass \/ EndPass
  BY <1>2, <1>3 DEF StartPass, EndPass
<1>4. ASSUME NEW r \in Runs, SkipRun(r)
      PROVE  AtTheEdge' /\ StepOrder' /\ late' = {}
  BY <1>2, <1>4 DEF SkipRun
<1>5. ASSUME NEW r \in Runs, DispatchRun(r)
      PROVE  AtTheEdge' /\ StepOrder' /\ late' = {}
  <2> DEFINE rw == [row[r] EXCEPT !.status = "running"]
             rows == [row EXCEPT ![r] = rw]
  <2>1. row[r].status = "absent" /\ row[r] \in Row
    BY <1>1, <1>5 DEF DispatchRun
  <2>2. rw \in Row /\ rw.st = row[r].st /\ rw.status = "running"
    BY <2>1 DEF Row, RunStatus, Present, Active
  <2>3. \A u \in Ticks : tick[u].run # r
    BY <1>1, <2>1, NoDriver DEF OrderInv, Exclusive
  <2>4. TickOnce(r, r, rows, rows, tick) /\ late' = late
    BY <1>1, <1>5 DEF DispatchRun
  <2> HIDE DEF rw
  <2>5. rows \in [Runs -> Row] /\ \A x \in Runs : OrderedRow(rows[x].st)
    BY <1>1, <2>2 DEF StepOrder
  <2> HIDE DEF rows
  <2>6. OrderedRow(rw.st) /\ rw.status # "absent"
    BY <1>1, <2>2 DEF StepOrder
  <2>7. TickOnce(r, r, [row EXCEPT ![r] = rw], rows, tick)
    BY <2>4 DEF rows
  <2> QED BY <1>1, <2>2, <2>3, <2>4, <2>5, <2>6, <2>7, TickOnceKeepsOrder
<1>6. ASSUME NEW r \in Runs, VisitRun(r)
      PROVE  AtTheEdge' /\ StepOrder' /\ late' = {}
  <2>1. /\ row[r].status \in Active /\ r \notin inFlight
        /\ TickOnce(Loop, r, row, disk, tick) /\ late' = late
    BY <1>6 DEF VisitRun, Eligible
  <2>2. row[r].status # "absent" /\ [row EXCEPT ![r] = row[r]] = row /\ row[r] \in Row
    BY <1>1, <2>1 DEF Active
  <2>3. OrderedRow(row[r].st) /\ \A x \in Runs : OrderedRow(disk[x].st)
    BY <1>1 DEF StepOrder
  <2>4. \A u \in Ticks : tick[u].run # r
    BY <2>1, NoDriver DEF OrderInv
  <2>5. TickOnce(Loop, r, [row EXCEPT ![r] = row[r]], disk, tick)
    BY <2>1, <2>2
  <2>6. Loop \in Ticks /\ Loop \in {r, Loop} /\ \A u \in Ticks \ {Loop} : tick[u].run # r
    BY <2>4
  <2>7. row[r] \in Row
    BY <2>2
  <2>8. AtTheEdge' /\ StepOrder'
    <3> DEFINE rw == row[r]
    <3>1. /\ rw \in Row /\ rw.status # "absent" /\ OrderedRow(rw.st)
          /\ TickOnce(Loop, r, [row EXCEPT ![r] = rw], disk, tick)
      BY <2>2, <2>3, <2>5
    <3> HIDE DEF rw
    <3> QED BY <1>1, <2>3, <2>6, <3>1, TickOnceKeepsOrder
  <2> QED BY <1>1, <2>1, <2>8
<1>7. ASSUME NEW d \in Runs, NEW r \in Runs, DispatchInTheSameMs(d, r) PROVE FALSE
  <2>1. used["tie"] < 0 /\ used["tie"] \in Nat
    BY <1>7 DEF DispatchInTheSameMs, Use, QuietEnvironment, OrderInv, TypeOK, Ops
  <2> QED BY <2>1
<1> QED
  BY <1>3, <1>4, <1>5, <1>6, <1>7 DEF Service

\* A retry drops a tail of the chain, and starts over only steps that had a
\* state and nothing but that tail after them.
LEMMA RewindKeepsOrder ==
  ASSUME OrderInv, NEW r \in Runs, NEW gone \in SUBSET Steps, NEW again \in SUBSET Steps,
         RowExists(r),
         \A s \in gone, x \in Steps : PosOf[s] < PosOf[x] => x \in gone,
         \A s \in again, x \in Steps : PosOf[s] < PosOf[x] => x \in gone,
         \A s \in again : row[r].st[s] # "none",
         Rewind(r, gone, again)
  PROVE  AtTheEdge' /\ StepOrder' /\ late' = {}
<1> DEFINE st  == [s \in Steps |-> IF s \in gone THEN "none"
                                   ELSE IF s \in again THEN "running" ELSE row[r].st[s]]
<1>1. /\ row \in [Runs -> Row] /\ row[r] \in Row /\ tick \in [Ticks -> Tick]
      /\ row[r].st \in [Steps -> StepStatus] /\ OrderedRow(row[r].st)
  BY DEF OrderInv, TypeOK, Row, StepOrder
<1>2. \A x \in Runs : row'[x] = IF x = r THEN [row[r] EXCEPT !.status = "running", !.st = st]
                                ELSE row[x]
  BY <1>1 DEF Rewind
<1>3. row'[r].st = st /\ row'[r].status = "running" /\ disk' = row'
  BY <1>1, <1>2 DEF Row, Rewind
<1>4. OrderedRow(st)
  <2> SUFFICES ASSUME NEW s \in Steps, NEW x \in Steps, PosOf[s] < PosOf[x], st[x] # "none"
               PROVE  st[s] \in Done
    BY DEF OrderedRow
  <2>1. x \notin gone /\ s \notin gone /\ s \notin again
    OBVIOUS
  <2>2. row[r].st[x] # "none"
    BY <2>1
  <2> QED BY <1>1, <2>1, <2>2 DEF OrderedRow
<1> HIDE DEF st
<1>5. StepOrder'
  BY <1>2, <1>3, <1>4 DEF OrderInv, StepOrder
<1>6. ASSUME NEW t \in Ticks
      PROVE  /\ tick'[t].run = tick[t].run /\ tick'[t].pos = tick[t].pos
             /\ tick'[t].wait = tick[t].wait
             /\ tick[t].run # r => tick'[t] = tick[t]
             /\ tick[t].run = r =>
                  \A s \in Steps : tick'[t].own[s] =
                     IF s \in gone /\ PosOf[s] = tick[t].pos /\ tick[t].own[s] = "live"
                     THEN row[r].st[s] ELSE tick[t].own[s]
  BY <1>1 DEF Rewind, Tick
<1>7. AtTheEdge'
  <2> SUFFICES ASSUME NEW t \in Ticks PROVE TickAtEdge(tick'[t], row')
    BY DEF AtTheEdge
  <2>1. TickAtEdge(tick[t], row)
    BY DEF OrderInv, AtTheEdge
  <2>2. CASE tick[t].run # r
    <3>1. tick'[t] = tick[t]
      BY <1>6, <2>2
    <3>2. tick[t].run # NoRun => row'[tick[t].run] = row[tick[t].run]
      BY <1>1, <1>2, <2>2 DEF Tick
    <3> QED BY <2>1, <3>1, <3>2, EdgeFrame
  <2>3. CASE tick[t].run = r
    <3> SUFFICES ASSUME NEW s \in tick[t].wait
                 PROVE  /\ PosOf[s] = tick[t].pos
                        /\ tick'[t].own[s] = "live" => EdgeAt(st, s)
      BY <1>3, <1>6, <2>3 DEF TickAtEdge
    <3>1. PosOf[s] = tick[t].pos /\ s \in Steps
      BY <1>1, <2>1 DEF TickAtEdge, Tick
    <3>2. ASSUME tick'[t].own[s] = "live" PROVE EdgeAt(st, s)
      <4>1. row[r].st[s] # "live"
        BY <1>1, <3>1 DEF StepStatus, Live, Done
      <4>2. s \notin gone /\ tick[t].own[s] = "live"
        BY <1>6, <2>3, <3>1, <3>2, <4>1
      <4>3. EdgeAt(row[r].st, s)
        BY <2>1, <2>3, <4>2, RunAssumption DEF TickAtEdge, RowExists
      <4>4. st[s] # "none"
        BY <3>1, <4>2, <4>3 DEF EdgeAt, st
      <4>5. \A x \in Steps : PosOf[x] > PosOf[s] => st[x] = "none"
        BY <4>3 DEF EdgeAt, st
      <4> QED BY <4>4, <4>5 DEF EdgeAt
    <3> QED BY <3>1, <3>2
  <2> QED BY <2>2, <2>3
<1>8. late' = {}
  BY DEF Rewind, OrderInv
<1> QED
  BY <1>5, <1>7, <1>8

LEMMA RetryKeepsOrder ==
  ASSUME OrderInv, NEW r \in Runs,
         \/ ContinueRun(r)
         \/ \E p \in Positions : RetryRunFromStep(r, p)
         \/ \E s \in Steps : RetryParallelStep(r, s)
  PROVE  AtTheEdge' /\ StepOrder' /\ late' = {}
<1>1. PosOf \in [Steps -> Nat]
  BY ChainAssumption
<1>2. CASE ContinueRun(r)
  <2>1. RowExists(r)
    BY <1>2 DEF ContinueRun, RowExists, Present, Settled
  <2> QED BY <1>2, <2>1, RewindKeepsOrder DEF ContinueRun
<1>3. ASSUME NEW p \in Positions, RetryRunFromStep(r, p)
      PROVE  AtTheEdge' /\ StepOrder' /\ late' = {}
  <2> DEFINE gone == {s \in Steps : PosOf[s] >= p}
  <2>1. RowExists(r) /\ Rewind(r, gone, {})
    BY <1>3 DEF RetryRunFromStep
  <2>2. \A s \in gone, x \in Steps : PosOf[s] < PosOf[x] => x \in gone
    BY <1>1, PositionsAreNat
  <2> HIDE DEF gone
  <2>3. gone \in SUBSET Steps
    BY DEF gone
  <2> QED BY <2>1, <2>2, <2>3, RewindKeepsOrder
<1>4. ASSUME NEW s \in Steps, RetryParallelStep(r, s)
      PROVE  AtTheEdge' /\ StepOrder' /\ late' = {}
  <2> DEFINE gone == {x \in Steps : PosOf[x] > PosOf[s]}
  <2>1. RowExists(r) /\ Rewind(r, gone, {s}) /\ row[r].st[s] # "none"
    BY <1>4 DEF RetryParallelStep, CanRetry, Done
  <2>2. \A y \in gone, x \in Steps : PosOf[y] < PosOf[x] => x \in gone
    BY <1>1
  <2>3. gone \in SUBSET Steps /\ \A x \in Steps : PosOf[s] < PosOf[x] => x \in gone
    BY <1>1
  <2> HIDE DEF gone
  <2>4. {s} \in SUBSET Steps
    OBVIOUS
  <2> QED BY <2>1, <2>2, <2>3, <2>4, RewindKeepsOrder
<1> QED
  BY <1>2, <1>3, <1>4

LEMMA OperatorKeepsOrder ==
  ASSUME OrderInv, Operator
  PROVE  AtTheEdge' /\ StepOrder' /\ late' = {}
<1>1. /\ row \in [Runs -> Row] /\ tick \in [Ticks -> Tick]
      /\ Exclusive /\ AtTheEdge /\ StepOrder /\ late = {}
  BY DEF OrderInv, TypeOK
\* The operations that only change the status of rows, or keep their steps.
<1>2. ASSUME tick' = tick, disk' = row', late' \subseteq late,
             \A r \in Runs : /\ OrderedRow(row'[r].st)
                             /\ row'[r].status \in Present =>
                                  /\ row[r].status \in Present
                                  /\ \A s \in Steps : EdgeAt(row[r].st, s) =>
                                                      EdgeAt(row'[r].st, s)
      PROVE  AtTheEdge' /\ StepOrder' /\ late' = {}
  <2>1. AtTheEdge'
    BY <1>1, <1>2 DEF AtTheEdge, TickAtEdge, Tick
  <2>2. StepOrder' /\ late' = {}
    BY <1>1, <1>2 DEF StepOrder
  <2> QED BY <2>1, <2>2
<1>3. ASSUME NEW r \in Runs, CancelRun(r)
      PROVE  AtTheEdge' /\ StepOrder' /\ late' = {}
  <2> DEFINE new == StopSteps(row[r], "cancelled")
  <2>1. /\ row[r] \in Row /\ OrderedRow(row[r].st) /\ row[r].status \in Present
    BY <1>1, <1>3 DEF StepOrder, CancelRun, Present
  <2>2. /\ OrderedRow(new.st)
        /\ \A s \in Steps : EdgeAt(row[r].st, s) => EdgeAt(new.st, s)
    BY <2>1, StopStepsKeepsOrder DEF RunStatus, Present, Settled
  <2>3. new.status = "cancelled"
    BY <2>1 DEF StopSteps, Row
  <2>4. row' = [row EXCEPT ![r] = new]
    BY <1>3 DEF CancelRun
  <2> HIDE DEF new
  <2>5. \A x \in Runs : row'[x] = IF x = r THEN new ELSE row[x]
    BY <1>1, <2>4
  <2>6. UNCHANGED <<tick, late>> /\ disk' = row'
    BY <1>3 DEF CancelRun
  <2> QED BY <1>1, <1>2, <2>1, <2>2, <2>3, <2>5, <2>6 DEF StepOrder
<1>4. ASSUME NEW r \in Runs, PauseRun(r) \/ ResumeRun(r)
      PROVE  AtTheEdge' /\ StepOrder' /\ late' = {}
  <2>1. \A x \in Runs : row'[x].status = row[x].status /\ row'[x].st = row[x].st
    BY <1>1, <1>4 DEF PauseRun, ResumeRun, Row
  <2>2. UNCHANGED <<tick, late>> /\ disk' = row'
    BY <1>4 DEF PauseRun, ResumeRun
  <2> QED BY <1>1, <1>2, <2>1, <2>2 DEF StepOrder
<1>5. ASSUME NEW a \in Autos, DeleteAutomation(a)
      PROVE  AtTheEdge' /\ StepOrder' /\ late' = {}
  <2> DEFINE gone == [Absent EXCEPT !.status = "deleted"]
  <2>1. gone.status = "deleted" /\ OrderedRow(gone.st)
    BY DEF Absent, NoSteps, OrderedRow
  <2>2. \A x \in Runs : row'[x] = gone \/ row'[x] = row[x]
    BY <1>5 DEF DeleteAutomation
  <2>3. tick' = tick /\ disk' = row' /\ late' \subseteq late
    BY <1>5 DEF DeleteAutomation
  <2> HIDE DEF gone
  <2> QED BY <1>1, <1>2, <2>1, <2>2, <2>3 DEF StepOrder, Present, Active, Settled
<1> QED
  BY <1>3, <1>4, <1>5, RetryKeepsOrder DEF Operator

LEMMA RestartKeepsOrder ==
  ASSUME OrderInv, Restart
  PROVE  AtTheEdge' /\ StepOrder' /\ late' = {}
<1>1. tick' = [t \in Ticks |-> Idle] /\ late' = {}
      /\ row' = disk /\ disk' = disk
  BY DEF Restart
<1>2. AtTheEdge'
  BY <1>1, IdleAtEdge DEF AtTheEdge
<1> QED
  BY <1>1, <1>2 DEF OrderInv, StepOrder

LEMMA InitOrdered == Init => OrderInv
<1> SUFFICES ASSUME Init PROVE OrderInv
  OBVIOUS
<1>1. AtTheEdge
  BY IdleAtEdge DEF Init, AtTheEdge
<1>2. StepOrder
  BY DEF Init, StepOrder, Absent, NoSteps, OrderedRow
<1> QED
  BY <1>1, <1>2, InitType, InitExclusive DEF OrderInv, Init

LEMMA OrderInductive ==
  ASSUME QuietEnvironment, OrderInv, [Next]_vars
  PROVE  OrderInv'
<1>1. TypeOK' /\ Exclusive'
  BY NextType, ExclusiveInductive DEF OrderInv, QuietEnvironment
<1>2. ASSUME NEW t \in Ticks, NEW s \in Steps, Settle(t, s)
      PROVE  AtTheEdge' /\ StepOrder' /\ late' = {}
  <2>1. ASSUME NEW res \in Results(s), SettleSolo(t, s, res)
        PROVE  AtTheEdge' /\ StepOrder' /\ late' = {}
    BY <2>1, SettleSoloKeepsOrder DEF SettleSolo, OrderInv
  <2>2. ASSUME NEW res \in Results(s), SettleSibling(t, s, res)
        PROVE  AtTheEdge' /\ StepOrder' /\ late' = {}
    BY <2>2, SettleSiblingKeepsOrder DEF SettleSibling, OrderInv
  <2>3. CASE SettleDeleted(t, s)
    BY <2>3, SettleDeletedKeepsOrder DEF SettleDeleted, OrderInv
  <2> QED BY <1>2, <2>1, <2>2, <2>3, RunnerThrowsKeepsOrder DEF Settle
<1>3. ASSUME UNCHANGED vars
      PROVE  AtTheEdge' /\ StepOrder' /\ late' = {}
  <2>1. row' = row /\ disk' = disk /\ tick' = tick /\ late' = late
    BY <1>3 DEF vars
  <2>2. AtTheEdge' /\ StepOrder'
    BY <2>1 DEF OrderInv, AtTheEdge, TickAtEdge, StepOrder
  <2> QED BY <2>1, <2>2 DEF OrderInv
<1>4. Executor => \E t \in Ticks, s \in Steps : Settle(t, s)
  BY DEF Executor, OrderInv
<1>5. AtTheEdge' /\ StepOrder' /\ late' = {}
  BY <1>2, <1>3, <1>4, ServiceKeepsOrder, OperatorKeepsOrder, RestartKeepsOrder DEF Next
<1> QED
  BY <1>1, <1>5 DEF OrderInv

\* No step of a chain starts before the steps of every earlier position have
\* ended, and no restart, retry or late result can leave a gap in the row.
THEOREM StepsInOrder == ASSUME QuietEnvironment PROVE Spec => []StepOrder
<1>1. Init => OrderInv
  BY InitOrdered
<1>2. OrderInv /\ [Next]_vars => OrderInv'
  BY OrderInductive
<1>3. OrderInv => StepOrder
  BY DEF OrderInv
<1> QED
  BY <1>1, <1>2, <1>3, PTL DEF Spec
=============================================================================
