----------------------------- MODULE WatchPrProofs -----------------------------
(* Proofs about WatchPr.                                                       *)
EXTENDS WatchPr, TLAPS

USE WatchAssumption

-----------------------------------------------------------------------------
(* Types *)

LEMMA Constants == Fresh \in Progress /\ NoTick \in Tick /\ Nothing \in [Members -> SUBSET Ids]
BY DEF Fresh, Progress, NoTick, Tick, Nothing

LEMMA CurrentTyped ==
  ASSUME TypeOK
  PROVE  Current \in Progress /\ StatusOf(Current) \in {"none", "active", "completed", "failed"}
<1>1. Current \in Progress  BY DEF Current, TypeOK
<1>2. Current.child \in Cycles \cup {0}  BY <1>1 DEF Progress
<1> QED  BY <1>1, <1>2 DEF StatusOf, TypeOK

LEMMA CancelledTyped ==
  ASSUME TypeOK
  PROVE  Cancelled(child) \in [Cycles -> {"none", "active", "completed", "failed"}]
BY DEF Cancelled, TypeOK

LEMMA ListedTyped ==
  ASSUME TypeOK, NEW m \in Members
  PROVE  Listed(m) \subseteq Ids
BY DEF Listed, TypeOK

\* What the ends of a tick and its beginning change.
Moved == tick' \in Tick /\ tracker' \in Progress /\ saved' \in Progress
         /\ run' \in {"live", "cancelled", "failed", "done"}

LEMMA NeedsMoreTimeTyped ==
  ASSUME TypeOK, NEW p \in Progress, NeedsMoreTime(p)
  PROVE  Moved
BY Constants DEF NeedsMoreTime, TypeOK, Moved

LEMMA DoneTyped ==
  ASSUME TypeOK, NEW p \in Progress, NEW e, Done(p, e)
  PROVE  Moved /\ child' \in [Cycles -> {"none", "active", "completed", "failed"}]
BY Constants, CancelledTyped DEF Done, TypeOK, Moved

LEMMA GateTyped ==
  ASSUME TypeOK, NEW p \in Progress, Gate(p)
  PROVE  Moved /\ idleSeen' \in BOOLEAN
<1>1. CASE NeedsMoreTime(p) /\ (UNCHANGED idleSeen \/ idleSeen' = ~busy)
  BY <1>1, NeedsMoreTimeTyped DEF TypeOK
<1>2. CASE /\ tick' = [tick EXCEPT !.pc = "build", !.todo = DirtyOpen(p)]
           /\ tracker' = p /\ idleSeen' = TRUE /\ UNCHANGED <<saved, run>>
  <2>1. tick' \in Tick  BY <1>2 DEF TypeOK, Tick, DirtyOpen, OpenOf
  <2> QED  BY <1>2, <2>1 DEF Moved, TypeOK
<1> QED  BY <1>1, <1>2 DEF Gate

LEMMA RespondTyped ==
  ASSUME TypeOK, NEW p \in Progress, NEW s, Respond(p, s)
  PROVE  Moved
<1>1. [p EXCEPT !.child = 0, !.phase = "watching"] \in Progress  BY DEF Progress
<1>2. CASE CycleFailed(p)  BY <1>2, Constants DEF CycleFailed, Moved, TypeOK
<1> QED  BY <1>1, <1>2, NeedsMoreTimeTyped DEF Respond

LEMMA StartSweepTyped ==
  ASSUME TypeOK, NEW p \in Progress,
         NEW s \in {"none", "active", "completed", "failed"}, StartSweep(p, s)
  PROVE  Moved /\ child' \in [Cycles -> {"none", "active", "completed", "failed"}]
<1>1. CASE Done(p, TRUE)  BY <1>1, DoneTyped
<1>2. CASE /\ tick' = [tick EXCEPT !.pc = "sweep", !.todo = OpenOf(p), !.status = s]
           /\ tracker' = p /\ UNCHANGED <<saved, run, child>>
  <2>1. tick' \in Tick  BY <1>2 DEF TypeOK, Tick, OpenOf
  <2> QED  BY <1>2, <2>1 DEF Moved, TypeOK
<1> QED  BY <1>1, <1>2 DEF StartSweep

LEMMA ConsumedTyped ==
  ASSUME NEW p \in Progress, NEW b
  PROVE  Consumed(p, b) \in [Members -> Ids \cup {0}]
BY DEF Consumed, Progress

LEMMA StepTyped ==
  ASSUME TypeOK, [Next]_vars
  PROVE  TypeOK'
<1>0. Mishap => mishaps' \in 0..MaxMishaps  BY DEF Mishap, TypeOK
<1>1. CASE BeginResolve
  <2>1. tick' \in Tick  BY <1>1 DEF BeginResolve, TypeOK, Tick
  <2> QED  BY <1>1, <2>1, CurrentTyped DEF BeginResolve, Begin, world, TypeOK
<1>2. CASE BeginSweep
  BY <1>2, CurrentTyped, StartSweepTyped DEF BeginSweep, Begin, world, TypeOK, Moved
<1>3. CASE BeginGate
  BY <1>3, CurrentTyped, GateTyped DEF BeginGate, Begin, world, TypeOK, Moved
<1>4. CASE BeginRespond
  BY <1>4, CurrentTyped, RespondTyped DEF BeginRespond, Begin, world, TypeOK, Moved
<1>5. CASE Resolve
  <2>1. [tracker EXCEPT !.phase = "watching"] \in Progress  BY DEF TypeOK, Progress
  <2> QED  BY <1>5, <2>1, StartSweepTyped DEF Resolve, world, TypeOK, Moved
<1>6. CASE EndSweep
  <2>1. Moved /\ idleSeen' \in BOOLEAN /\ child' \in [Cycles -> {"none", "active", "completed", "failed"}]
    BY <1>6, DoneTyped, GateTyped, RespondTyped DEF EndSweep, TypeOK
  <2> QED  BY <1>6, <2>1 DEF EndSweep, world, TypeOK, Moved
<1>7. CASE Spawn
  <2> DEFINE P(c) == [tracker EXCEPT !.cursor = Consumed(tracker, tick.batch),
                                     !.dirty = @ \ tick.batch,
                                     !.child = c, !.phase = "responding"]
  <2>1. PICK c \in Unused :
          /\ child' = [child EXCEPT ![c] = "active"]
          /\ \/ NeedsMoreTime(P(c)) /\ UNCHANGED <<mapped, mishaps>>
             \/ /\ Mishap
                /\ tick' = NoTick /\ tracker' = P(c) /\ mapped' = FALSE
                /\ UNCHANGED <<saved, run>>
    BY <1>7 DEF Spawn
  <2>2. c \in Cycles  BY DEF Unused
  <2>3. P(c) \in Progress
    <3>1. Consumed(tracker, tick.batch) \in [Members -> Ids \cup {0}]
      BY ConsumedTyped DEF TypeOK
    <3> QED  BY <2>2, <3>1 DEF TypeOK, Progress
  <2>4. Moved /\ mapped' \in BOOLEAN /\ mishaps' \in 0..MaxMishaps
    BY <1>0, <2>1, <2>3, NeedsMoreTimeTyped, Constants DEF TypeOK, Moved
  <2>5. child' \in [Cycles -> {"none", "active", "completed", "failed"}]
    BY <2>1, <2>2 DEF TypeOK
  <2>6. answered' \in [Members -> SUBSET Ids] /\ idleSeen' \in BOOLEAN
    BY <1>7 DEF Spawn, TypeOK, Tick
  <2> QED  BY <1>7, <2>4, <2>5, <2>6 DEF Spawn, world, TypeOK, Moved
<1>8. ASSUME NEW m \in Members, SweepMember(m) PROVE TypeOK'
  <2>1. Settled[prState[m]] \in {"open", "approved", "merged", "closed"}
    BY DEF Settled, TypeOK
  <2>2. tracker' \in Progress  BY <1>8, <2>1 DEF SweepMember, TypeOK, Progress
  <2>3. tick' \in Tick  BY <1>8 DEF SweepMember, TypeOK, Tick
  <2> QED  BY <1>8, <2>2, <2>3 DEF SweepMember, world, TypeOK
<1>9. ASSUME NEW m \in Members, ArmFromReviews(m) PROVE TypeOK'
  <2>1. tracker' \in Progress
    <3>1. CASE UNCHANGED tracker  BY <3>1 DEF TypeOK
    <3>2. CASE \E id \in Ids : tracker' = [tracker EXCEPT !.dirty = @ \cup {m}, !.watermark[m] = id]
      <4>1. PICK id \in Ids : tracker' = [tracker EXCEPT !.dirty = @ \cup {m}, !.watermark[m] = id]
        BY <3>2
      <4>2. [tracker.watermark EXCEPT ![m] = id] \in [Members -> Ids \cup {0}]
        BY DEF TypeOK, Progress
      <4>3. tracker.dirty \cup {m} \in SUBSET Members  BY DEF TypeOK, Progress
      <4>4. tracker' = [tracker EXCEPT !.dirty = tracker.dirty \cup {m},
                                       !.watermark = [tracker.watermark EXCEPT ![m] = id]]
        BY <4>1 DEF TypeOK, Progress
      <4> QED  BY <4>2, <4>3, <4>4 DEF TypeOK, Progress
    <3> QED  BY <1>9, <3>1, <3>2 DEF ArmFromReviews
  <2>2. tick' \in Tick  BY <1>9 DEF ArmFromReviews, TypeOK, Tick
  <2> QED  BY <1>9, <2>1, <2>2 DEF ArmFromReviews, world, TypeOK
<1>10. ASSUME NEW m \in Members, BuildMember(m) PROVE TypeOK'
  <2>1. News(tracker, m) \subseteq Ids  BY ListedTyped DEF News
  <2>2. tick' \in Tick  BY <1>10, <2>1 DEF BuildMember, TypeOK, Tick
  <2> QED  BY <1>10, <2>2 DEF BuildMember, world, TypeOK
<1>11. CASE Throws
  BY <1>0, <1>11, Constants, CancelledTyped DEF Throws, world, TypeOK
<1>12. CASE CancelRun
  BY <1>0, <1>12, CancelledTyped DEF CancelRun, world, TypeOK
<1>13. CASE RetryRunFromStep
  <2>1. tick' \in Tick  BY <1>13, Constants DEF RetryRunFromStep, TypeOK, Tick
  <2> QED  BY <1>0, <1>13, <2>1, Constants, CancelledTyped DEF RetryRunFromStep, world, TypeOK
<1>14. CASE Restart
  BY <1>0, <1>14, Constants DEF Restart, world, TypeOK
<1>15. CASE Interval \/ AgentStops
  BY <1>15 DEF Interval, AgentStops, world, TypeOK
<1>16. CASE Archive \/ AgentStarts
  BY <1>0, <1>16 DEF Archive, AgentStarts, TypeOK
<1>17. ASSUME NEW m \in Members, PRChanges(m) PROVE TypeOK'
  <2>1. Outcomes \cup {"OPEN"} \subseteq DOMAIN Settled  BY DEF Settled
  <2> QED  BY <1>17, <2>1 DEF PRChanges, TypeOK
<1>18. ASSUME NEW m \in Members, NEW id \in Ids, Submit(m, id) PROVE TypeOK'
  <2>1. reviews[m] \in Seq(Ids)  BY DEF TypeOK
  <2>2. Append(reviews[m], id) \in Seq(Ids)  BY <2>1
  <2>3. reviews' \in [Members -> Seq(Ids)]  BY <1>18, <2>2 DEF Submit, TypeOK
  <2> QED  BY <1>18, <2>3 DEF Submit, TypeOK
<1>19. ASSUME NEW c \in Cycles, ChildEnds(c) PROVE TypeOK'
  BY <1>19 DEF ChildEnds, world, TypeOK
<1>20. CASE UNCHANGED vars  BY <1>20 DEF vars, TypeOK
<1> QED  BY <1>1, <1>2, <1>3, <1>4, <1>5, <1>6, <1>7, <1>8, <1>9, <1>10, <1>11,
            <1>12, <1>13, <1>14, <1>15, <1>16, <1>17, <1>18, <1>19, <1>20, SMTT(60)
         DEF Next, RunnerTick

LEMMA InitTyped == Init => TypeOK
<1> SUFFICES ASSUME Init PROVE TypeOK  OBVIOUS
<1>1. reviews \in [Members -> Seq(Ids)]  BY DEF Init
<1>2. prState \in [Members -> DOMAIN Settled]  BY DEF Init, Settled
<1>3. /\ archived \in BOOLEAN /\ busy \in BOOLEAN /\ mapped \in BOOLEAN
      /\ idleSeen \in BOOLEAN /\ due \in BOOLEAN
  BY DEF Init
<1>4. /\ saved \in Progress /\ tracker \in Progress /\ tick \in Tick
      /\ answered \in [Members -> SUBSET Ids]
  BY Constants DEF Init
<1>5. child \in [Cycles -> {"none", "active", "completed", "failed"}]
  BY DEF Init
<1>6. run \in {"live", "cancelled", "failed", "done"} /\ mishaps \in 0..MaxMishaps
  BY DEF Init
<1> QED  BY <1>1, <1>2, <1>3, <1>4, <1>5, <1>6 DEF TypeOK

\* Every variable keeps its type, with any number of members and reviews.
THEOREM WatchTyped == Spec => []TypeOK
<1>1. Init => TypeOK  BY InitTyped
<1>2. TypeOK /\ [Next]_vars => TypeOK'  BY StepTyped
<1> QED  BY <1>1, <1>2, PTL DEF Spec

-----------------------------------------------------------------------------
(* No cycle is left alone *)

\* A cycle at work is named by the row on disk and, if there is one, by the
\* tracker; while a cycle is put together none is; and a sweep during a
\* cycle that is at work knows it.
CycleInv ==
  /\ TypeOK
  /\ tick.row
  /\ \A c \in Cycles : child[c] = "active" =>
       /\ run = "live" /\ saved.child = c
       /\ (mapped \/ tick # NoTick) => tracker.child = c
  /\ tick.pc = "build" => tracker.child = 0
  /\ tick.pc = "sweep" /\ tracker.phase # "watching" /\ tracker.child # 0 =>
       (child[tracker.child] = "active" => tick.status = "active")

LEMMA NoneActive ==
  ASSUME TypeOK, child' = Cancelled(child)
  PROVE  \A c \in Cycles : child'[c] # "active"
BY DEF Cancelled

\* A tick that ends with the progress p, which names the cycle at work.
LEMMA EndKeepsCycle ==
  ASSUME CycleInv, NEW p, NeedsMoreTime(p), UNCHANGED child, TypeOK',
         \A c \in Cycles : child[c] = "active" => p.child = c
  PROVE  CycleInv'
BY DEF NeedsMoreTime, CycleInv, NoTick

LEMMA DoneKeepsCycle ==
  ASSUME TypeOK', TypeOK, NEW p, NEW e, Done(p, e)
  PROVE  CycleInv'
BY NoneActive DEF Done, CycleInv, NoTick

LEMMA CurrentCycle ==
  ASSUME CycleInv
  PROVE  \A c \in Cycles : child[c] = "active" => run = "live" /\ Current.child = c
BY DEF CycleInv, Current

LEMMA GateKeepsCycle ==
  ASSUME CycleInv, NEW p, Gate(p), UNCHANGED child, TypeOK',
         p.phase = "watching",
         \A c \in Cycles : child[c] = "active" => p.child = c
  PROVE  CycleInv'
<1>1. CASE NeedsMoreTime(p)  BY <1>1, EndKeepsCycle
<1>2. CASE ~NeedsMoreTime(p)
  <2>1. /\ p.child = 0 /\ tracker' = p /\ UNCHANGED <<saved, run>>
        /\ tick' = [tick EXCEPT !.pc = "build", !.todo = DirtyOpen(p)]
    BY <1>2 DEF Gate
  <2>2. \A c \in Cycles : child[c] # "active"  BY <2>1
  <2>3. tick'.row = tick.row  BY <2>1 DEF CycleInv, TypeOK, Tick
  <2> QED  BY <2>1, <2>2, <2>3 DEF CycleInv
<1> QED  BY <1>1, <1>2

LEMMA RespondKeepsCycle ==
  ASSUME CycleInv, NEW p \in Progress, NEW s, Respond(p, s), UNCHANGED child, TypeOK',
         \A c \in Cycles : child[c] = "active" => p.child = c /\ s = "active"
  PROVE  CycleInv'
<1>1. CASE s = "active"
  BY <1>1, EndKeepsCycle DEF Respond
<1>2. CASE s # "active"
  <2>1. \A c \in Cycles : child[c] # "active"  BY <1>2
  <2>2. CASE CycleFailed(p)
    BY <2>1, <2>2 DEF CycleFailed, CycleInv, NoTick
  <2>3. CASE ~CycleFailed(p)
    BY <1>2, <2>1, <2>3, EndKeepsCycle DEF Respond
  <2> QED  BY <2>2, <2>3
<1> QED  BY <1>1, <1>2

LEMMA SweepKeepsCycle ==
  ASSUME CycleInv, NEW p, NEW s, StartSweep(p, s), TypeOK', UNCHANGED mapped \/ mapped',
         \A c \in Cycles : child[c] = "active" =>
           p.child = c /\ (p.phase # "watching" => s = "active")
  PROVE  CycleInv'
<1>1. CASE Done(p, TRUE)  BY <1>1, DoneKeepsCycle DEF CycleInv
<1>2. CASE ~Done(p, TRUE)
  <2>1. /\ tick' = [tick EXCEPT !.pc = "sweep", !.todo = OpenOf(p), !.status = s]
        /\ tracker' = p /\ UNCHANGED <<saved, run, child>>
    BY <1>2 DEF StartSweep
  <2>2. tick'.row = tick.row /\ tick'.pc = "sweep" /\ tick'.status = s
    BY <2>1 DEF CycleInv, TypeOK, Tick
  <2>3. p.child \in Cycles \cup {0}  BY <2>1 DEF TypeOK, Progress
  <2> QED  BY <2>1, <2>2, <2>3 DEF CycleInv
<1> QED  BY <1>1, <1>2

LEMMA StepCycle ==
  ASSUME Mishaps = {}, CycleInv, [Next]_vars
  PROVE  CycleInv'
<1>0. TypeOK /\ TypeOK'  BY StepTyped DEF CycleInv
<1>a. Current \in Progress  BY <1>0, CurrentTyped
<1>b. Current.child \in Cycles \cup {0}  BY <1>a DEF Progress
<1>c. \A c \in Cycles : child[c] = "active" => Current.child = c /\ StatusOf(Current) = "active"
  BY <1>b, CurrentCycle DEF StatusOf
<1>1. CASE BeginResolve
  <2>1. tick'.row = tick.row /\ tick'.pc = "resolve" /\ tracker' = Current
    BY <1>0, <1>1 DEF BeginResolve, TypeOK, Tick
  <2> QED  BY <1>0, <1>1, <1>c, <2>1 DEF BeginResolve, CycleInv
<1>2. CASE BeginSweep
  BY <1>0, <1>2, <1>c, SweepKeepsCycle DEF BeginSweep, Begin
<1>3. CASE BeginGate
  BY <1>0, <1>3, <1>c, GateKeepsCycle DEF BeginGate
<1>4. CASE BeginRespond
  BY <1>0, <1>4, <1>a, <1>c, RespondKeepsCycle DEF BeginRespond
<1>5. CASE Resolve
  <2> DEFINE p == [tracker EXCEPT !.phase = "watching"]
  <2>1. p.child = tracker.child /\ p.phase = "watching"  BY <1>0 DEF TypeOK, Progress
  <2>2. tick # NoTick  BY <1>5 DEF Resolve, NoTick
  <2> QED  BY <1>0, <1>5, <2>1, <2>2, SweepKeepsCycle DEF Resolve, CycleInv
<1>6. CASE EndSweep
  <2>1. tick # NoTick  BY <1>6 DEF EndSweep, NoTick
  <2>2. \A c \in Cycles : child[c] = "active" => tracker.child = c  BY <2>1 DEF CycleInv
  <2>3. CASE OpenOf(tracker) = {}
    BY <1>0, <1>6, <2>3, DoneKeepsCycle DEF EndSweep
  <2>4. CASE OpenOf(tracker) # {} /\ tracker.phase = "watching"
    BY <1>0, <1>6, <2>2, <2>4, GateKeepsCycle DEF EndSweep
  <2>5. CASE OpenOf(tracker) # {} /\ tracker.phase # "watching"
    <3>1. Respond(tracker, tick.status) /\ UNCHANGED child  BY <1>6, <2>5 DEF EndSweep
    <3>2. tracker \in Progress  BY <1>0 DEF TypeOK
    <3>3. \A c \in Cycles : child[c] = "active" => tick.status = "active"
      <4>1. tick.pc = "sweep" /\ 0 \notin Cycles  BY <1>6 DEF EndSweep
      <4> QED  BY <2>2, <2>5, <4>1 DEF CycleInv
    <3> QED  BY <1>0, <2>2, <3>1, <3>2, <3>3, RespondKeepsCycle
  <2> QED  BY <2>3, <2>4, <2>5
<1>7. CASE Spawn
  <2> DEFINE P(c) == [tracker EXCEPT !.cursor = Consumed(tracker, tick.batch),
                                     !.dirty = @ \ tick.batch,
                                     !.child = c, !.phase = "responding"]
  <2>1. PICK c \in Unused : child' = [child EXCEPT ![c] = "active"] /\ NeedsMoreTime(P(c))
    BY <1>7 DEF Spawn
  <2>2. P(c).child = c  BY <1>0 DEF TypeOK, Progress
  <2>3. \A d \in Cycles : child[d] # "active"
    <3>1. tick.pc = "build" /\ tick # NoTick  BY <1>7 DEF Spawn, NoTick
    <3> QED  BY <3>1 DEF CycleInv
  <2>4. \A d \in Cycles : child'[d] = "active" => d = c  BY <1>0, <2>1, <2>3 DEF TypeOK
  <2>5. tracker' = P(c) /\ saved' = P(c) /\ run' = "live" /\ tick' = NoTick
    BY <2>1 DEF NeedsMoreTime, CycleInv
  <2> QED  BY <1>0, <2>2, <2>4, <2>5 DEF CycleInv, NoTick
<1>8. ASSUME NEW m \in Members, SweepMember(m) PROVE CycleInv'
  <2>1. tracker'.child = tracker.child /\ tracker'.phase = tracker.phase
    BY <1>0, <1>8 DEF SweepMember, TypeOK, Progress
  <2>2. tick'.row = tick.row /\ tick'.pc = tick.pc /\ tick'.status = tick.status /\ tick # NoTick
    BY <1>0, <1>8 DEF SweepMember, TypeOK, Tick, NoTick
  <2> QED  BY <1>0, <1>8, <2>1, <2>2 DEF SweepMember, CycleInv
<1>9. ASSUME NEW m \in Members, ArmFromReviews(m) PROVE CycleInv'
  <2>1. tracker'.child = tracker.child /\ tracker'.phase = tracker.phase
    <3>1. CASE UNCHANGED tracker  BY <3>1
    <3>2. CASE \E id \in Ids : tracker' = [tracker EXCEPT !.dirty = @ \cup {m}, !.watermark[m] = id]
      BY <1>0, <3>2 DEF TypeOK, Progress
    <3> QED  BY <1>9, <3>1, <3>2 DEF ArmFromReviews
  <2>2. tick'.row = tick.row /\ tick'.pc = tick.pc /\ tick'.status = tick.status
    BY <1>0, <1>9 DEF ArmFromReviews, TypeOK, Tick
  <2>3. tick # NoTick
    <3>1. tick.listing # {}  BY <1>9 DEF ArmFromReviews
    <3> QED  BY <3>1 DEF NoTick
  <2>4. UNCHANGED <<run, saved, mapped, child>>  BY <1>9 DEF ArmFromReviews
  <2> QED  BY <1>0, <2>1, <2>2, <2>3, <2>4 DEF CycleInv
<1>10. ASSUME NEW m \in Members, BuildMember(m) PROVE CycleInv'
  <2>1. tick'.row = tick.row /\ tick'.pc = tick.pc /\ tick'.status = tick.status /\ tick # NoTick
    BY <1>0, <1>10 DEF BuildMember, TypeOK, Tick, NoTick
  <2> QED  BY <1>0, <1>10, <2>1 DEF BuildMember, CycleInv
<1>11. CASE Throws
  BY <1>0, <1>11, NoneActive DEF Throws, CycleInv, NoTick
<1>12. CASE CancelRun
  <2>1. tracker.child \in Cycles \cup {0}  BY <1>0 DEF TypeOK, Progress
  <2> QED  BY <1>0, <1>12, <2>1, NoneActive DEF CancelRun, CycleInv
<1>13. CASE RetryRunFromStep
  BY <1>0, <1>13, NoneActive DEF RetryRunFromStep, CycleInv, NoTick
<1>14. CASE Restart
  BY <1>0, <1>14 DEF Restart, CycleInv, NoTick
<1>15. CASE Interval \/ AgentStops \/ Archive \/ AgentStarts
  BY <1>0, <1>15 DEF Interval, AgentStops, Archive, AgentStarts, CycleInv, world
<1>16. ASSUME NEW m \in Members, PRChanges(m) \/ \E id \in Ids : Submit(m, id) PROVE CycleInv'
  <2>1. UNCHANGED <<run, saved, tracker, mapped, tick, child>>
    BY <1>16 DEF PRChanges, Submit
  <2> QED  BY <1>0, <2>1 DEF CycleInv
<1>17. ASSUME NEW c \in Cycles, ChildEnds(c) PROVE CycleInv'
  <2>1. \A d \in Cycles : child'[d] = "active" => child[d] = "active"
    BY <1>0, <1>17 DEF ChildEnds, TypeOK
  <2>2. tracker.child \in Cycles \cup {0}  BY <1>0 DEF TypeOK, Progress
  <2> QED  BY <1>0, <1>17, <2>1, <2>2 DEF ChildEnds, CycleInv
<1>18. CASE UNCHANGED vars  BY <1>0, <1>18 DEF vars, CycleInv
<1> QED  BY <1>1, <1>2, <1>3, <1>4, <1>5, <1>6, <1>7, <1>8, <1>9, <1>10, <1>11,
            <1>12, <1>13, <1>14, <1>15, <1>16, <1>17, <1>18, SMTT(60)
         DEF Next, RunnerTick

\* Whatever is cancelled, retried, throws or restarts, as long as it does not
\* fall between two steps that belong together: there is never a cycle at work
\* that nobody waits for, and never a second one.
THEOREM NoCycleIsOrphaned ==
  ASSUME Mishaps = {}
  PROVE  Spec => []NoOrphanCycle
<1>1. Init => CycleInv
  <2> SUFFICES ASSUME Init PROVE CycleInv  OBVIOUS
  <2>1. TypeOK  BY InitTyped
  <2> QED  BY <2>1 DEF Init, CycleInv, NoTick, Fresh
<1>2. CycleInv /\ [Next]_vars => CycleInv'  BY StepCycle
<1>3. CycleInv => NoOrphanCycle  BY CurrentCycle DEF NoOrphanCycle
<1> QED  BY <1>1, <1>2, <1>3, PTL DEF Spec

-----------------------------------------------------------------------------
(* No review is skipped *)

IdsOf(rs, m) == {rs[m][i] : i \in DOMAIN rs[m]}

\* A cursor and a watermark are at a review that is there, and what is up to the
\* cursor has been given to a cycle.
Kept(p, rs, given) ==
  \A m \in Members :
    /\ p.cursor[m] \in IdsOf(rs, m) \cup {0}
    /\ p.watermark[m] \in IdsOf(rs, m) \cup {0}
    /\ \A id \in IdsOf(rs, m) \ given[m] : id > p.cursor[m]

InOrder(rs) == \A m \in Members : \A j \in IdsOf(rs, m), k \in Ids \ IdsOf(rs, m) : j < k

\* What a cycle is given goes up to the watermark.
BatchCovers(t, p, rs) ==
  \A m \in t.batch : \A id \in IdsOf(rs, m) :
    id > p.cursor[m] /\ id <= p.watermark[m] => id \in t.payload[m]

Phases(t) == (t.listing # {} => t.pc = "sweep") /\ (t.pc # "build" => t.batch = {})

ReadInv ==
  /\ TypeOK
  /\ InOrder(reviews)
  /\ Kept(saved, reviews, answered)
  /\ mapped \/ tick # NoTick => Kept(tracker, reviews, answered)
  /\ Phases(tick)
  /\ BatchCovers(tick, tracker, reviews)

LEMMA ListedIds == \A m \in Members : Listed(m) = IdsOf(reviews, m) /\ Listed(m)' = IdsOf(reviews', m)
BY DEF Listed, IdsOf

LEMMA IdsNatural ==
  ASSUME TypeOK, NEW m \in Members
  PROVE  IdsOf(reviews, m) \subseteq Ids /\ (\A id \in IdsOf(reviews, m) : id \in Nat /\ id > 0)
<1>1. IdsOf(reviews, m) \subseteq Ids  BY ListedTyped, ListedIds
<1>2. \A id \in Ids : id \in Nat /\ id > 0  OBVIOUS
<1> QED  BY <1>1, <1>2

LEMMA NoTickIdle == NoTick.listing = {} /\ NoTick.batch = {} /\ NoTick.pc = "none"
BY DEF NoTick

LEMMA CurrentKept ==
  ASSUME ReadInv
  PROVE  Kept(Current, reviews, answered)
BY DEF ReadInv, Current

\* A tick that ends with the progress p.
LEMMA EndKeepsReviews ==
  ASSUME ReadInv, TypeOK', UNCHANGED <<reviews, answered>>, tick' = NoTick,
         NEW p, Kept(p, reviews, answered), tracker' = p, saved' \in {saved, p}
  PROVE  ReadInv'
<1>1. Kept(saved, reviews, answered)  BY DEF ReadInv
<1>2. Kept(saved', reviews', answered') /\ Kept(tracker', reviews', answered')  BY <1>1
<1>3. Phases(tick') /\ BatchCovers(tick', tracker', reviews')
  BY NoTickIdle DEF Phases, BatchCovers
<1> QED  BY <1>2, <1>3 DEF ReadInv

\* A tick that goes on, or a new one, with the progress p and no batch.
LEMMA TickKeepsReviews ==
  ASSUME ReadInv, TypeOK', UNCHANGED <<reviews, answered, saved>>,
         NEW p, Kept(p, reviews, answered), tracker' = p,
         tick'.batch = {}, tick'.listing # {} => tick'.pc = "sweep"
  PROVE  ReadInv'
<1>1. Kept(saved', reviews', answered') /\ Kept(tracker', reviews', answered')  BY DEF ReadInv
<1>2. Phases(tick') /\ BatchCovers(tick', tracker', reviews')  BY DEF Phases, BatchCovers
<1> QED  BY <1>1, <1>2 DEF ReadInv

LEMMA NeedsMoreTimeKeepsReviews ==
  ASSUME ReadInv, TypeOK', UNCHANGED <<reviews, answered>>,
         NEW p, Kept(p, reviews, answered), NeedsMoreTime(p) \/ CycleFailed(p) \/ Done(p, TRUE) \/ Done(p, FALSE)
  PROVE  ReadInv'
BY EndKeepsReviews DEF NeedsMoreTime, CycleFailed, Done

LEMMA GateKeepsReviews ==
  ASSUME ReadInv, TypeOK', UNCHANGED <<reviews, answered>>,
         NEW p, Kept(p, reviews, answered), Gate(p), tick.batch = {}, tick.listing = {}
  PROVE  ReadInv'
<1>1. CASE NeedsMoreTime(p)  BY <1>1, NeedsMoreTimeKeepsReviews
<1>2. CASE ~NeedsMoreTime(p)
  <2>1. /\ tracker' = p /\ UNCHANGED saved
        /\ tick' = [tick EXCEPT !.pc = "build", !.todo = DirtyOpen(p)]
    BY <1>2 DEF Gate
  <2>2. tick'.batch = {} /\ tick'.listing = {}  BY <2>1 DEF ReadInv, TypeOK, Tick
  <2> QED  BY <2>1, <2>2, TickKeepsReviews
<1> QED  BY <1>1, <1>2

LEMMA RespondKeepsReviews ==
  ASSUME ReadInv, TypeOK', UNCHANGED <<reviews, answered>>,
         NEW p \in Progress, Kept(p, reviews, answered), NEW s, Respond(p, s)
  PROVE  ReadInv'
<1> DEFINE q == [p EXCEPT !.child = 0, !.phase = "watching"]
<1>1. q.cursor = p.cursor /\ q.watermark = p.watermark  BY DEF Progress
<1>2. Kept(q, reviews, answered)  BY <1>1 DEF Kept
<1>3. NeedsMoreTime(p) \/ CycleFailed(p) \/ NeedsMoreTime(q)  BY DEF Respond
<1> HIDE DEF q
<1> QED  BY <1>2, <1>3, NeedsMoreTimeKeepsReviews

LEMMA SweepKeepsReviews ==
  ASSUME ReadInv, TypeOK', UNCHANGED <<reviews, answered>>,
         NEW p, Kept(p, reviews, answered), NEW s, StartSweep(p, s), tick.batch = {}
  PROVE  ReadInv'
<1>1. CASE Done(p, TRUE)  BY <1>1, NeedsMoreTimeKeepsReviews
<1>2. CASE ~Done(p, TRUE)
  <2>1. /\ tick' = [tick EXCEPT !.pc = "sweep", !.todo = OpenOf(p), !.status = s]
        /\ tracker' = p /\ UNCHANGED saved
    BY <1>2 DEF StartSweep
  <2>2. tick'.batch = {} /\ tick'.pc = "sweep"  BY <2>1 DEF ReadInv, TypeOK, Tick
  <2> QED  BY <2>1, <2>2, TickKeepsReviews
<1> QED  BY <1>1, <1>2

\* A review that is submitted is later than any cursor and any watermark.
LEMMA SubmitKeepsReviews ==
  ASSUME Mishaps = {}, ReadInv, TypeOK', NEW n \in Members, NEW new \in Ids, Submit(n, new)
  PROVE  ReadInv'
<1>0. new \in Nat /\ new > 0  OBVIOUS
<1>1. reviews[n] \in Seq(Ids) /\ reviews \in [Members -> Seq(Ids)]  BY DEF ReadInv, TypeOK
<1>2. \A m \in Members : IdsOf(reviews', m) = IdsOf(reviews, m) \cup (IF m = n THEN {new} ELSE {})
  <2>1. reviews' = [reviews EXCEPT ![n] = Append(@, new)]  BY DEF Submit
  <2>2. ASSUME NEW m \in Members, m # n
        PROVE  IdsOf(reviews', m) = IdsOf(reviews, m)
    BY <1>1, <2>1, <2>2 DEF IdsOf
  <2>3. IdsOf(reviews', n) = IdsOf(reviews, n) \cup {new}
    <3>1. reviews'[n] = Append(reviews[n], new)  BY <1>1, <2>1
    <3>2. DOMAIN reviews'[n] = 1..Len(reviews[n]) + 1 /\ DOMAIN reviews[n] = 1..Len(reviews[n])
      BY <1>1, <3>1
    <3>3. Len(reviews[n]) \in Nat  BY <1>1
    <3>4. \A i \in 1..Len(reviews[n]) : reviews'[n][i] = reviews[n][i]  BY <1>1, <3>1
    <3>5. reviews'[n][Len(reviews[n]) + 1] = new  BY <1>1, <3>1
    <3>6. IdsOf(reviews', n) \subseteq IdsOf(reviews, n) \cup {new}
      <4>1. \A i \in DOMAIN reviews'[n] : i \in DOMAIN reviews[n] \/ i = Len(reviews[n]) + 1
        BY <3>2, <3>3
      <4> QED  BY <3>2, <3>4, <3>5, <4>1 DEF IdsOf
    <3>7. IdsOf(reviews, n) \cup {new} \subseteq IdsOf(reviews', n)
      <4>1. DOMAIN reviews[n] \cup {Len(reviews[n]) + 1} \subseteq DOMAIN reviews'[n]
        BY <3>2, <3>3
      <4> QED  BY <3>2, <3>4, <3>5, <4>1 DEF IdsOf
    <3> QED  BY <3>6, <3>7
  <2> QED  BY <2>2, <2>3
<1>3. \A m \in Members : IdsOf(reviews, m) \subseteq Ids
  BY IdsNatural DEF ReadInv
<1>4. \A j \in IdsOf(reviews, n) : j < new
  BY ListedIds DEF Submit, ReadInv, InOrder
<1>5. InOrder(reviews')
  <2>1. \A k \in Ids \ IdsOf(reviews, n) : new <= k  BY ListedIds DEF Submit
  <2>2. \A k \in Ids \ IdsOf(reviews', n) : new < k  BY <1>2, <2>1
  <2> QED  BY <1>2, <2>2 DEF InOrder, ReadInv
<1>6. ASSUME NEW p, Kept(p, reviews, answered)
      PROVE  Kept(p, reviews', answered)
  <2>1. p.cursor[n] < new  BY <1>0, <1>4, <1>6 DEF Kept
  <2> QED  BY <1>2, <1>6, <2>1 DEF Kept
<1>7. UNCHANGED <<saved, tracker, mapped, tick, answered>>  BY DEF Submit
<1>8. BatchCovers(tick, tracker, reviews')
  <2> SUFFICES ASSUME NEW m \in tick.batch, NEW id \in IdsOf(reviews', m),
                      id > tracker.cursor[m], id <= tracker.watermark[m]
               PROVE  id \in tick.payload[m]
    BY DEF BatchCovers
  <2>1. m \in Members /\ tick # NoTick  BY NoTickIdle DEF ReadInv, TypeOK, Tick
  <2>2. tracker.watermark[m] \in IdsOf(reviews, m) \cup {0}  BY <2>1 DEF ReadInv, Kept
  <2>3. id \in IdsOf(reviews, m)
    <3>1. CASE id \in IdsOf(reviews, m)  BY <3>1
    <3>2. CASE m = n /\ id = new
      <4>1. tracker.watermark[m] < new  BY <1>0, <1>4, <2>2, <3>2
      <4>2. tracker.watermark[m] \in Nat  BY <2>1, <2>2, IdsNatural DEF ReadInv
      <4> QED  BY <1>0, <3>2, <4>1, <4>2
    <3> QED  BY <1>2, <2>1, <3>1, <3>2
  <2> QED  BY <2>3 DEF ReadInv, BatchCovers
<1>9. /\ Kept(saved', reviews', answered')
      /\ (mapped' \/ tick' # NoTick => Kept(tracker', reviews', answered'))
  BY <1>6, <1>7 DEF ReadInv
<1> QED  BY <1>5, <1>7, <1>8, <1>9 DEF ReadInv

\* The cursor goes to the watermark, and what is up to there is in the payload.
LEMMA SpawnKeepsReviews ==
  ASSUME Mishaps = {}, ReadInv, TypeOK', Spawn
  PROVE  ReadInv'
<1> DEFINE P(c) == [tracker EXCEPT !.cursor = Consumed(tracker, tick.batch),
                                   !.dirty = @ \ tick.batch,
                                   !.child = c, !.phase = "responding"]
<1>1. PICK c \in Unused : NeedsMoreTime(P(c))  BY DEF Spawn
<1>2. /\ UNCHANGED reviews
      /\ answered' = [m \in Members |-> answered[m] \cup tick.payload[m]]
  BY DEF Spawn, world
<1>3. tick # NoTick  BY NoTickIdle DEF Spawn
<1>4. Kept(tracker, reviews, answered) /\ Kept(saved, reviews, answered)  BY <1>3 DEF ReadInv
<1>5. ASSUME NEW q, Kept(q, reviews, answered)  PROVE Kept(q, reviews, answered')
  BY <1>2, <1>5 DEF Kept
<1>6. P(c).cursor = Consumed(tracker, tick.batch) /\ P(c).watermark = tracker.watermark
  BY DEF ReadInv, TypeOK, Progress
<1>7. Kept(P(c), reviews, answered')
  <2> SUFFICES ASSUME NEW m \in Members
               PROVE  /\ P(c).cursor[m] \in IdsOf(reviews, m) \cup {0}
                      /\ P(c).watermark[m] \in IdsOf(reviews, m) \cup {0}
                      /\ \A id \in IdsOf(reviews, m) \ answered'[m] : id > P(c).cursor[m]
    BY DEF Kept
  <2>1. P(c).watermark[m] \in IdsOf(reviews, m) \cup {0}  BY <1>4, <1>6 DEF Kept
  <2>2. CASE m \notin tick.batch
    <3>1. P(c).cursor[m] = tracker.cursor[m]  BY <1>6, <2>2 DEF Consumed
    <3> QED  BY <1>2, <1>4, <2>1, <3>1 DEF Kept
  <2>3. CASE m \in tick.batch
    <3>1. P(c).cursor[m] = tracker.watermark[m]  BY <1>6, <2>3 DEF Consumed
    <3>2. ASSUME NEW id \in IdsOf(reviews, m) \ answered'[m]
          PROVE  id > tracker.watermark[m]
      <4>1. id > tracker.cursor[m] /\ id \notin tick.payload[m]  BY <1>2, <1>4, <3>2 DEF Kept
      <4>2. ~(id <= tracker.watermark[m])  BY <2>3, <3>2, <4>1 DEF ReadInv, BatchCovers
      <4>3. id \in Nat /\ tracker.watermark[m] \in Nat
        BY <2>1, <1>6, <3>2, IdsNatural DEF ReadInv
      <4> QED  BY <4>2, <4>3
    <3> QED  BY <2>1, <1>6, <3>1, <3>2
  <2> QED  BY <2>2, <2>3
<1>8. Kept(saved', reviews', answered') /\ Kept(tracker', reviews', answered') /\ tick' = NoTick
  BY <1>1, <1>2, <1>4, <1>5, <1>7 DEF NeedsMoreTime
<1>9. Phases(tick') /\ BatchCovers(tick', tracker', reviews')
  BY <1>8, NoTickIdle DEF Phases, BatchCovers
<1> QED  BY <1>2, <1>8, <1>9 DEF ReadInv

LEMMA StepReads ==
  ASSUME Mishaps = {}, ReadInv, [Next]_vars
  PROVE  ReadInv'
<1>0. TypeOK /\ TypeOK'  BY StepTyped DEF ReadInv
<1>a. Kept(Current, reviews, answered) /\ Current \in Progress
  BY <1>0, CurrentKept, CurrentTyped
<1>b. Kept(saved, reviews, answered) /\ (tick # NoTick => Kept(tracker, reviews, answered))
  BY DEF ReadInv
<1>c. Begin => tick = NoTick /\ tick.batch = {} /\ tick.listing = {} /\ UNCHANGED <<reviews, answered>>
  BY NoTickIdle DEF Begin, world
<1>1. CASE BeginResolve
  <2>1. tick'.batch = {} /\ tick'.listing = {}
    BY <1>0, <1>1, <1>c DEF BeginResolve, TypeOK, Tick
  <2> QED  BY <1>0, <1>1, <1>a, <1>c, <2>1, TickKeepsReviews DEF BeginResolve
<1>2. CASE BeginSweep
  BY <1>0, <1>2, <1>a, <1>c, SweepKeepsReviews DEF BeginSweep
<1>3. CASE BeginGate
  BY <1>0, <1>3, <1>a, <1>c, GateKeepsReviews DEF BeginGate
<1>4. CASE BeginRespond
  BY <1>0, <1>4, <1>a, <1>c, RespondKeepsReviews DEF BeginRespond
<1>5. CASE Resolve
  <2> DEFINE p == [tracker EXCEPT !.phase = "watching"]
  <2>1. p.cursor = tracker.cursor /\ p.watermark = tracker.watermark  BY <1>0 DEF TypeOK, Progress
  <2>2. tick # NoTick /\ tick.batch = {}  BY <1>5, NoTickIdle DEF Resolve, ReadInv, Phases
  <2>3. Kept(p, reviews, answered)  BY <1>b, <2>1, <2>2 DEF Kept
  <2>4. StartSweep(p, "none") /\ UNCHANGED <<reviews, answered>>  BY <1>5 DEF Resolve, world
  <2> HIDE DEF p
  <2> QED  BY <1>0, <2>2, <2>3, <2>4, SweepKeepsReviews
<1>6. CASE EndSweep
  <2>1. tick # NoTick /\ tick.batch = {} /\ tick.listing = {}
    BY <1>6, NoTickIdle DEF EndSweep, ReadInv, Phases
  <2>2. UNCHANGED <<reviews, answered>>  BY <1>6 DEF EndSweep, world
  <2>3. tracker \in Progress  BY <1>0 DEF TypeOK
  <2>4. CASE OpenOf(tracker) = {}
    <3>1. Done(tracker, TRUE) \/ Done(tracker, FALSE)  BY <1>6, <2>4 DEF EndSweep
    <3> QED  BY <1>0, <1>b, <2>1, <2>2, <3>1, NeedsMoreTimeKeepsReviews
  <2>5. CASE OpenOf(tracker) # {} /\ tracker.phase = "watching"
    BY <1>0, <1>6, <1>b, <2>1, <2>2, <2>5, GateKeepsReviews DEF EndSweep
  <2>6. CASE OpenOf(tracker) # {} /\ tracker.phase # "watching"
    BY <1>0, <1>6, <1>b, <2>1, <2>2, <2>3, <2>6, RespondKeepsReviews DEF EndSweep
  <2> QED  BY <2>4, <2>5, <2>6
<1>7. CASE Spawn  BY <1>0, <1>7, SpawnKeepsReviews
<1>8. ASSUME NEW m \in Members, SweepMember(m) PROVE ReadInv'
  <2>1. tracker'.cursor = tracker.cursor /\ tracker'.watermark = tracker.watermark
    BY <1>0, <1>8 DEF SweepMember, TypeOK, Progress
  <2>2. tick # NoTick /\ tick.batch = {}
    BY <1>8, NoTickIdle DEF SweepMember, ReadInv, Phases
  <2>3. tick'.batch = {} /\ tick'.pc = "sweep"
    BY <1>0, <1>8, <2>2 DEF SweepMember, TypeOK, Tick
  <2>4. UNCHANGED <<reviews, answered, saved>>  BY <1>8 DEF SweepMember, world
  <2>5. Kept(tracker', reviews, answered)  BY <1>b, <2>1, <2>2 DEF Kept
  <2> QED  BY <1>0, <2>3, <2>4, <2>5, TickKeepsReviews
<1>9. ASSUME NEW m \in Members, ArmFromReviews(m) PROVE ReadInv'
  <2>1. tick.listing # {}  BY <1>9 DEF ArmFromReviews
  <2>2. tick # NoTick /\ tick.batch = {}
    BY <2>1, NoTickIdle DEF ReadInv, Phases
  <2>3. tick'.batch = {} /\ tick'.listing = {}
    BY <1>0, <1>9, <2>2 DEF ArmFromReviews, TypeOK, Tick
  <2>4. UNCHANGED <<reviews, answered, saved>>  BY <1>9 DEF ArmFromReviews, world
  <2>5. Kept(tracker', reviews, answered)
    <3>1. CASE UNCHANGED tracker  BY <1>b, <2>2, <3>1
    <3>2. CASE \E id \in Ids :
                 /\ Newest(tracker, m, id)
                 /\ tracker' = [tracker EXCEPT !.dirty = @ \cup {m}, !.watermark[m] = id]
      <4>1. PICK id \in Ids :
                 /\ Newest(tracker, m, id)
                 /\ tracker' = [tracker EXCEPT !.dirty = @ \cup {m}, !.watermark[m] = id]
        BY <3>2
      <4>2. id \in IdsOf(reviews, m)  BY <4>1, ListedIds DEF Newest, News
      <4>3. tracker'.cursor = tracker.cursor /\ tracker'.watermark = [tracker.watermark EXCEPT ![m] = id]
        BY <1>0, <4>1 DEF TypeOK, Progress
      <4>4. tracker.watermark \in [Members -> Ids \cup {0}]  BY <1>0 DEF TypeOK, Progress
      <4> QED  BY <1>b, <2>2, <4>2, <4>3, <4>4 DEF Kept
    <3> QED  BY <1>9, <3>1, <3>2 DEF ArmFromReviews
  <2> QED  BY <1>0, <2>3, <2>4, <2>5, TickKeepsReviews
<1>10. ASSUME NEW m \in Members, BuildMember(m) PROVE ReadInv'
  <2>1. UNCHANGED <<reviews, answered, saved, tracker, mapped>>  BY <1>10 DEF BuildMember, world
  <2>2. tick # NoTick /\ tick.pc = "build"  BY <1>10, NoTickIdle DEF BuildMember
  <2>3. /\ tick'.listing = tick.listing /\ tick'.pc = "build"
        /\ tick'.batch = tick.batch \cup {m}
        /\ tick'.payload = [tick.payload EXCEPT ![m] = News(tracker, m)]
    BY <1>0, <1>10, <2>2 DEF BuildMember, TypeOK, Tick
  <2>4. BatchCovers(tick', tracker, reviews)
    <3>1. tick.payload \in [Members -> SUBSET Ids]  BY <1>0 DEF TypeOK, Tick
    <3>2. BatchCovers(tick, tracker, reviews)  BY DEF ReadInv
    <3>3. \A id \in IdsOf(reviews, m) : id > tracker.cursor[m] => id \in News(tracker, m)
      BY ListedIds DEF News
    <3> QED  BY <2>3, <3>1, <3>2, <3>3 DEF BatchCovers
  <2>5. Phases(tick')  BY <2>2, <2>3 DEF Phases, ReadInv
  <2> QED  BY <1>0, <1>b, <2>1, <2>2, <2>4, <2>5 DEF ReadInv
<1>11. CASE Throws \/ Restart
  <2>1. /\ UNCHANGED <<reviews, answered, saved, tracker>> /\ tick' = NoTick
        /\ mapped' => mapped
    BY <1>11 DEF Throws, Restart, world
  <2>2. Phases(tick') /\ BatchCovers(tick', tracker', reviews')
    BY <2>1, NoTickIdle DEF Phases, BatchCovers
  <2> QED  BY <1>0, <2>1, <2>2 DEF ReadInv
<1>12. CASE CancelRun
  <2>1. UNCHANGED <<reviews, answered, saved, tracker, tick>> /\ ~mapped'
    BY <1>12 DEF CancelRun, world
  <2> QED  BY <1>0, <2>1 DEF ReadInv
<1>13. CASE RetryRunFromStep
  <2>1. /\ UNCHANGED reviews /\ answered' = Nothing /\ saved' = Fresh
        /\ tick' = NoTick /\ ~mapped'
    BY <1>13 DEF RetryRunFromStep, world
  <2>2. \A m \in Members : \A id \in IdsOf(reviews, m) : id \in Nat /\ id > 0
    BY <1>0, IdsNatural
  <2>3. Kept(saved', reviews', answered')  BY <2>1, <2>2 DEF Kept, Fresh
  <2>4. Phases(tick') /\ BatchCovers(tick', tracker', reviews')
    BY <2>1, NoTickIdle DEF Phases, BatchCovers
  <2> QED  BY <1>0, <2>1, <2>3, <2>4 DEF ReadInv
<1>14. CASE Interval \/ AgentStops \/ Archive \/ AgentStarts
  <2>1. UNCHANGED <<reviews, answered, saved, tracker, mapped, tick>>
    BY <1>14 DEF Interval, AgentStops, Archive, AgentStarts, world
  <2> QED  BY <1>0, <2>1 DEF ReadInv
<1>15. ASSUME NEW m \in Members, PRChanges(m) PROVE ReadInv'
  <2>1. UNCHANGED <<reviews, answered, saved, tracker, mapped, tick>>
    BY <1>15 DEF PRChanges
  <2> QED  BY <1>0, <2>1 DEF ReadInv
<1>16. ASSUME NEW m \in Members, NEW id \in Ids, Submit(m, id) PROVE ReadInv'
  BY <1>0, <1>16, SubmitKeepsReviews
<1>17. ASSUME NEW c \in Cycles, ChildEnds(c) PROVE ReadInv'
  <2>1. UNCHANGED <<reviews, answered, saved, tracker, mapped, tick>>
    BY <1>17 DEF ChildEnds, world
  <2> QED  BY <1>0, <2>1 DEF ReadInv
<1>18. CASE UNCHANGED vars  BY <1>0, <1>18 DEF vars, ReadInv
<1> QED  BY <1>1, <1>2, <1>3, <1>4, <1>5, <1>6, <1>7, <1>8, <1>9, <1>10, <1>11,
            <1>12, <1>13, <1>14, <1>15, <1>16, <1>17, <1>18, SMTT(60)
         DEF Next, RunnerTick

\* Reviews that come in the order of their ids are all given to a cycle: those
\* that come while a batch is put together are left for the next one, and
\* neither a restart nor a cancelled tick lets the cursor get ahead.
THEOREM NoReviewIsSkipped ==
  ASSUME Mishaps = {}
  PROVE  Spec => []NothingSkipped
<1>1. Init => ReadInv
  <2> SUFFICES ASSUME Init PROVE ReadInv  OBVIOUS
  <2>1. TypeOK  BY InitTyped
  <2>2. \A m \in Members : IdsOf(reviews, m) = {}  BY DEF Init, IdsOf
  <2>3. Kept(saved, reviews, answered)  BY <2>2 DEF Init, Kept, Fresh
  <2>4. InOrder(reviews)  BY <2>2 DEF InOrder
  <2>5. Phases(tick) /\ BatchCovers(tick, tracker, reviews)
    BY NoTickIdle DEF Init, Phases, BatchCovers
  <2> QED  BY <2>1, <2>3, <2>4, <2>5 DEF ReadInv, Init
<1>2. ReadInv /\ [Next]_vars => ReadInv'  BY StepReads
<1>3. ReadInv => NothingSkipped
  BY CurrentKept, ListedIds DEF NothingSkipped, Kept
<1> QED  BY <1>1, <1>2, <1>3, PTL DEF Spec
================================================================================
