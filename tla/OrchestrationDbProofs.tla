----------------------- MODULE OrchestrationDbProofs -----------------------
(* What each operation on the orchestration database preserves, for every   *)
(* set of tasks and terminals.  The proofs about Orchestration cite these.  *)
EXTENDS OrchestrationDb, SequenceTheorems, TLAPS

\* No terminal has two active dispatches.
Locked(d) ==
  \A c, e \in DOMAIN d.ctx :
    IsActive(d, c) /\ IsActive(d, e) /\ d.ctx[c].handle = d.ctx[e].handle => c = e

\* Every dispatched task has an active dispatch.
Held(d) ==
  \A t \in Tasks : d.task[t] = "dispatched" =>
    \E c \in DOMAIN d.ctx : IsActive(d, c) /\ d.ctx[c].task = t

\* From d to e no dispatch came to life, and none changed its task or terminal.
OnlyEnds(d, e) ==
  /\ DOMAIN e.ctx = DOMAIN d.ctx
  /\ \A c \in DOMAIN d.ctx :
       /\ e.ctx[c].task = d.ctx[c].task /\ e.ctx[c].handle = d.ctx[c].handle
       /\ IsActive(e, c) => IsActive(d, c)

\* From d to e every task that is dispatched in e was so in d, and kept its
\* active dispatches.
KeepsHeld(d, e) ==
  \A t \in Tasks : e.task[t] = "dispatched" =>
    /\ d.task[t] = "dispatched"
    /\ \A c \in DOMAIN d.ctx : IsActive(d, c) /\ d.ctx[c].task = t => IsActive(e, c)

-----------------------------------------------------------------------------
(* Sequences of dispatches *)

LEMMA CtxSeq ==
  ASSUME NEW d \in Database
  PROVE  /\ d.ctx \in [DOMAIN d.ctx -> Ctx] /\ DOMAIN d.ctx = 1..Len(d.ctx)
         /\ Len(d.ctx) \in Nat
  BY DEF Database

LEMMA MapCtx ==
  ASSUME NEW d \in Database, NEW f \in [DOMAIN d.ctx -> Ctx]
  PROVE  f \in Seq(Ctx)
  BY CtxSeq, SeqDef

LEMMA EndsLength ==
  ASSUME NEW d \in Database, NEW e \in Database, OnlyEnds(d, e)
  PROVE  Len(e.ctx) = Len(d.ctx)
<1>1. /\ Len(d.ctx) \in Nat /\ Len(e.ctx) \in Nat
      /\ 1..Len(e.ctx) = 1..Len(d.ctx)
  BY CtxSeq DEF OnlyEnds
<1> QED BY <1>1

LEMMA EndsLocked ==
  ASSUME NEW d, NEW e, OnlyEnds(d, e), Locked(d)
  PROVE  Locked(e)
  BY DEF OnlyEnds, Locked

LEMMA KeepsHeldHeld ==
  ASSUME NEW d, NEW e, OnlyEnds(d, e), KeepsHeld(d, e), Held(d)
  PROVE  Held(e)
  BY DEF OnlyEnds, KeepsHeld, Held

-----------------------------------------------------------------------------
(* The operations *)

LEMMA CompleteActiveOk ==
  ASSUME NEW d \in Database, NEW t \in Tasks
  PROVE  LET e == CompleteActive(d, t) IN
         /\ e \in Database /\ OnlyEnds(d, e)
         /\ e.task = d.task /\ e.gates = d.gates
         /\ \A x \in Tasks \ {t}, c \in DOMAIN d.ctx :
              IsActive(d, c) /\ d.ctx[c].task = x => IsActive(e, c)
         /\ \A c \in DOMAIN d.ctx : d.ctx[c].task # t => e.ctx[c] = d.ctx[c]
         /\ \A c \in DOMAIN d.ctx : IsLatest(d, t, c) => ~IsActive(e, c)
<1> DEFINE latest(c) == /\ IsActive(d, c) /\ d.ctx[c].task = t
                        /\ \A o \in DOMAIN d.ctx : o > c /\ d.ctx[o].task = t => ~IsActive(d, o)
           f == [c \in DOMAIN d.ctx |->
                  IF latest(c) THEN [d.ctx[c] EXCEPT !.status = "completed"] ELSE d.ctx[c]]
           e == CompleteActive(d, t)
<1>1. \A c \in DOMAIN d.ctx : d.ctx[c] \in Ctx
  BY CtxSeq
<1>2. f \in [DOMAIN d.ctx -> Ctx]
  <2> HIDE DEF latest
  <2> QED BY <1>1 DEF Ctx, CtxStatus
<1>3. f \in Seq(Ctx)
  <2> HIDE DEF f
  <2> QED BY <1>2, MapCtx
<1>4. e = [d EXCEPT !.ctx = f]
  BY DEF CompleteActive
<1>5. e \in Database /\ e.ctx = f /\ e.task = d.task /\ e.gates = d.gates
  <2> HIDE DEF f, e
  <2> QED BY <1>3, <1>4 DEF Database
<1>6. \A c \in DOMAIN d.ctx :
        /\ f[c].task = d.ctx[c].task /\ f[c].handle = d.ctx[c].handle
        /\ f[c].status = IF latest(c) THEN "completed" ELSE d.ctx[c].status
  <2> HIDE DEF latest
  <2> QED BY <1>1 DEF Ctx
<1>7. OnlyEnds(d, e)
  <2> HIDE DEF e, latest
  <2> QED BY <1>5, <1>6 DEF OnlyEnds, IsActive
<1>8. \A x \in Tasks \ {t}, c \in DOMAIN d.ctx :
        IsActive(d, c) /\ d.ctx[c].task = x => IsActive(e, c)
  <2> HIDE DEF e
  <2> QED BY <1>5, <1>6 DEF IsActive
<1>9. \A c \in DOMAIN d.ctx : d.ctx[c].task # t => e.ctx[c] = d.ctx[c]
  <2> HIDE DEF e
  <2> QED BY <1>5
<1>10. \A c \in DOMAIN d.ctx : IsLatest(d, t, c) => ~IsActive(e, c)
  <2> HIDE DEF e, f
  <2> QED BY <1>5, <1>6 DEF IsActive, IsLatest
<1> QED
  BY <1>5, <1>7, <1>8, <1>9, <1>10

\* Operations that change only the task table, and dispatch nothing.
LEMMA TasksOk ==
  ASSUME NEW d \in Database, NEW f \in [Tasks -> TaskStatus],
         \A t \in Tasks : f[t] = "dispatched" => d.task[t] = "dispatched"
  PROVE  LET e == [d EXCEPT !.task = f] IN
         e \in Database /\ OnlyEnds(d, e) /\ KeepsHeld(d, e)
  BY DEF Database, OnlyEnds, KeepsHeld, IsActive

LEMMA CreateTaskOk ==
  ASSUME NEW d \in Database, NEW t \in Tasks
  PROVE  LET e == CreateTask(d, t) IN
         e \in Database /\ OnlyEnds(d, e) /\ KeepsHeld(d, e)
<1> DEFINE f == [d.task EXCEPT ![t] = IF Deps[t] = {} THEN "ready" ELSE "pending"]
<1>1. f \in [Tasks -> TaskStatus] /\ \A x \in Tasks : f[x] = "dispatched" => d.task[x] = "dispatched"
  BY DEF Database, TaskStatus
<1>2. CreateTask(d, t) = [d EXCEPT !.task = f]
  BY DEF CreateTask, Database
<1> QED
  <2> HIDE DEF f
  <2> QED BY <1>1, <1>2, TasksOk

LEMMA PromoteOk ==
  ASSUME NEW d \in Database, NEW t \in Tasks
  PROVE  LET e == Promote(d, t) IN
         /\ e \in Database /\ OnlyEnds(d, e) /\ KeepsHeld(d, e)
         /\ \A x \in Tasks : d.task[x] # "pending" => e.task[x] = d.task[x]
<1> DEFINE f == [x \in Tasks |->
                  IF d.task[x] = "pending" /\ t \in Deps[x] /\ DepsCompleted(d, x)
                  THEN "ready" ELSE d.task[x]]
<1>1. f \in [Tasks -> TaskStatus] /\ \A x \in Tasks : f[x] = "dispatched" => d.task[x] = "dispatched"
  BY DEF Database, TaskStatus
<1>2. Promote(d, t) = [d EXCEPT !.task = f]
  BY DEF Promote
<1>3. \A x \in Tasks : d.task[x] # "pending" => f[x] = d.task[x]
  OBVIOUS
<1>4. [d EXCEPT !.task = f].task = f
  BY DEF Database
<1> QED
  <2> HIDE DEF f
  <2> QED BY <1>1, <1>2, <1>3, <1>4, TasksOk

LEMMA ProcessGatesOk ==
  ASSUME NEW d \in Database
  PROVE  LET e == ProcessGates(d) IN
         e \in Database /\ OnlyEnds(d, e) /\ KeepsHeld(d, e)
<1> DEFINE f == [t \in Tasks |->
     IF Gated(d, t) THEN "blocked" ELSE d.task[t]]
<1>1. f \in [Tasks -> TaskStatus] /\ \A x \in Tasks : f[x] = "dispatched" => d.task[x] = "dispatched"
  BY DEF Database, TaskStatus
<1>2. ProcessGates(d) = [d EXCEPT !.task = f]
  BY DEF ProcessGates
<1> QED
  <2> HIDE DEF f
  <2> QED BY <1>1, <1>2, TasksOk
LEMMA UpdateTaskStatusOk ==
  ASSUME NEW d \in Database, NEW t \in Tasks, NEW st \in TaskStatus
  PROVE  LET e == UpdateTaskStatus(d, t, st) IN
         /\ e \in Database /\ OnlyEnds(d, e)
         /\ st # "dispatched" => KeepsHeld(d, e)
         /\ st = "completed" => e.task[t] = "completed"
<1> DEFINE new == [d EXCEPT !.task[t] = st]
           p   == Promote(new, t)
           e   == CompleteActive(p, t)
<1>1. /\ new \in Database /\ new.ctx = d.ctx /\ new.task[t] = st
      /\ \A x \in Tasks \ {t} : new.task[x] = d.task[x]
  BY DEF Database
<1>2. /\ p \in Database /\ OnlyEnds(new, p) /\ KeepsHeld(new, p)
      /\ st # "pending" => p.task[t] = st
  <2> HIDE DEF new
  <2> QED BY <1>1, PromoteOk
<1>3. /\ e \in Database /\ OnlyEnds(p, e) /\ e.task = p.task
      /\ \A x \in Tasks \ {t}, c \in DOMAIN p.ctx :
           IsActive(p, c) /\ p.ctx[c].task = x => IsActive(e, c)
  <2> HIDE DEF p
  <2> QED BY <1>2, CompleteActiveOk
<1>4. CASE st = "completed"
  <2>1. UpdateTaskStatus(d, t, st) = e
    BY <1>4 DEF UpdateTaskStatus
  <2> HIDE DEF new, p, e
  <2>2. OnlyEnds(d, e)
    BY <1>1, <1>2, <1>3 DEF OnlyEnds, IsActive
  <2>3. e.task[t] = "completed"
    BY <1>2, <1>3, <1>4
  <2>4. \A x \in Tasks \ {t} : e.task[x] = "dispatched" =>
          /\ d.task[x] = "dispatched"
          /\ \A c \in DOMAIN d.ctx : IsActive(d, c) /\ d.ctx[c].task = x => IsActive(e, c)
    BY <1>1, <1>2, <1>3 DEF OnlyEnds, KeepsHeld, IsActive
  <2>5. KeepsHeld(d, e)
    BY <2>3, <2>4 DEF KeepsHeld
  <2> QED BY <2>1, <2>2, <2>3, <2>5, <1>3
<1>5. CASE st # "completed"
  <2>1. UpdateTaskStatus(d, t, st) = new
    BY <1>5 DEF UpdateTaskStatus
  <2> HIDE DEF new
  <2> QED BY <1>1, <1>5, <2>1 DEF OnlyEnds, KeepsHeld, IsActive
<1> QED BY <1>4, <1>5

LEMMA CompleteDispatchOk ==
  ASSUME NEW d \in Database, NEW c \in DOMAIN d.ctx,
         d.task[d.ctx[c].task] # "dispatched"
  PROVE  LET e == CompleteDispatch(d, c) IN
         e \in Database /\ OnlyEnds(d, e) /\ KeepsHeld(d, e)
<1> DEFINE f == [d.ctx EXCEPT ![c] = [@ EXCEPT !.status = "completed"]]
           e == CompleteDispatch(d, c)
<1>1. d.ctx \in [DOMAIN d.ctx -> Ctx] /\ \A o \in DOMAIN d.ctx : d.ctx[o] \in Ctx
  BY CtxSeq
<1>2. [d.ctx[c] EXCEPT !.status = "completed"] \in Ctx
  BY <1>1 DEF Ctx, CtxStatus
<1>3. f \in Seq(Ctx)
  BY <1>1, <1>2, MapCtx
<1>4. e = [d EXCEPT !.ctx = f]
  BY DEF CompleteDispatch
<1>5. e \in Database /\ e.ctx = f /\ e.task = d.task
  <2> HIDE DEF f, e
  <2> QED BY <1>3, <1>4 DEF Database
<1>6. /\ DOMAIN f = DOMAIN d.ctx
      /\ \A o \in DOMAIN d.ctx :
        /\ f[o].task = d.ctx[o].task /\ f[o].handle = d.ctx[o].handle
        /\ f[o].status = IF o = c THEN "completed" ELSE d.ctx[o].status
  BY <1>1 DEF Ctx
<1>7. e \in Database /\ OnlyEnds(d, e) /\ KeepsHeld(d, e)
  <2> HIDE DEF f, e
  <2> QED BY <1>5, <1>6 DEF OnlyEnds, KeepsHeld, IsActive
<1> QED BY <1>7

LEMMA CtxExcept ==
  ASSUME NEW r \in Ctx, NEW n \in Failures, NEW s \in CtxStatus
  PROVE  LET w == [[r EXCEPT !.fails = n] EXCEPT !.status = s] IN
         w \in Ctx /\ w.task = r.task /\ w.handle = r.handle /\ w.status = s
  BY DEF Ctx

LEMMA FailDispatchOk ==
  ASSUME NEW d \in Database, NEW c \in DOMAIN d.ctx
  PROVE  LET e == FailDispatch(d, c) IN
         /\ e \in Database /\ OnlyEnds(d, e) /\ KeepsHeld(d, e)
         /\ e.ctx[c].status \in {"failed", "circuit_broken"}
         /\ e.task = [d.task EXCEPT ![d.ctx[c].task] =
                        IF e.ctx[c].fails = FailureLimit THEN "failed" ELSE "ready"]
         /\ d.ctx[c].fails = FailureLimit => e.ctx[c].fails = FailureLimit
         /\ e.gates = d.gates /\ \A o \in DOMAIN d.ctx \ {c} : e.ctx[o] = d.ctx[o]
<1> DEFINE n == IF d.ctx[c].fails < FailureLimit THEN d.ctx[c].fails + 1 ELSE FailureLimit
           x == d.ctx[c].task
           s == IF n = FailureLimit THEN "circuit_broken" ELSE "failed"
           st == IF n = FailureLimit THEN "failed" ELSE "ready"
           v == [[d.ctx[c] EXCEPT !.fails = n] EXCEPT !.status = s]
           f1 == [d.ctx EXCEPT ![c].fails = n]
           f == [f1 EXCEPT ![c].status = s]
           g == [d.task EXCEPT ![x] = st]
           e == FailDispatch(d, c)
<1>1. d.ctx \in [DOMAIN d.ctx -> Ctx] /\ \A o \in DOMAIN d.ctx : d.ctx[o] \in Ctx
  BY CtxSeq
<1>2. d.ctx[c] \in Ctx /\ x \in Tasks /\ n \in Failures
  BY <1>1 DEF Ctx, Failures, FailureLimit
<1>3. /\ v \in Ctx /\ v.task = x /\ v.handle = d.ctx[c].handle /\ v.status = s
      /\ v.fails = n
  <2>1. s \in CtxStatus
    BY DEF CtxStatus
  <2>2. v.fails = n
    <3> HIDE DEF n, s
    <3> QED BY <1>2 DEF Ctx
  <2> HIDE DEF n, s
  <2>3. v \in Ctx /\ v.task = x /\ v.handle = d.ctx[c].handle /\ v.status = s
    BY <1>2, <2>1, CtxExcept
  <2> QED BY <2>2, <2>3
<1>4. /\ f \in Seq(Ctx) /\ DOMAIN f = DOMAIN d.ctx /\ f[c] = v
      /\ \A o \in DOMAIN d.ctx \ {c} : f[o] = d.ctx[o]
  <2>1. /\ f1 \in [DOMAIN d.ctx -> Ctx] /\ f1[c] = [d.ctx[c] EXCEPT !.fails = n]
        /\ \A o \in DOMAIN d.ctx \ {c} : f1[o] = d.ctx[o]
    <3>1. [d.ctx[c] EXCEPT !.fails = n] \in Ctx
      <4> HIDE DEF n
      <4> QED BY <1>2 DEF Ctx
    <3> HIDE DEF n
    <3> QED BY <1>1, <3>1
  <2>2. /\ f \in [DOMAIN d.ctx -> Ctx] /\ f[c] = v
        /\ \A o \in DOMAIN d.ctx \ {c} : f[o] = d.ctx[o]
    <3> HIDE DEF f1, n, s
    <3> QED BY <1>1, <1>3, <2>1
  <2> HIDE DEF f, v
  <2> QED BY <2>2, MapCtx
<1>5. g \in [Tasks -> TaskStatus]
  BY <1>2 DEF Database, TaskStatus
<1>6. d = [task |-> d.task, ctx |-> d.ctx, gates |-> d.gates]
  BY DEF Database
<1>7. e = [d EXCEPT !.ctx[c].fails = n, !.ctx[c].status = s, !.task[x] = st]
  BY DEF FailDispatch
<1>10. e.ctx = f /\ e.task = g /\ e.gates = d.gates /\ e \in [task : {g}, ctx : {f}, gates : {d.gates}]
  <2> HIDE DEF n, s, st, x, e
  <2> QED BY <1>6, <1>7
<1>11. e \in Database
  <2> HIDE DEF f, g, e
  <2> QED BY <1>4, <1>5, <1>10 DEF Database
<1>12. /\ DOMAIN f = DOMAIN d.ctx
       /\ \A o \in DOMAIN d.ctx :
         /\ f[o].task = d.ctx[o].task /\ f[o].handle = d.ctx[o].handle
         /\ f[o].status = IF o = c THEN s ELSE d.ctx[o].status
  <2> HIDE DEF v, f, s
  <2> QED BY <1>1, <1>3, <1>4
<1>13. s \in {"failed", "circuit_broken"} /\ st # "dispatched"
  OBVIOUS
<1>14. g[x] = st /\ \A y \in Tasks \ {x} : g[y] = d.task[y]
  BY <1>2 DEF Database
<1>15. OnlyEnds(d, e) /\ e.ctx[c].status = s
  <2> HIDE DEF f, g, e, s, st, n, v
  <2> QED BY <1>10, <1>12, <1>13 DEF OnlyEnds, IsActive
<1>16. KeepsHeld(d, e)
  <2> HIDE DEF f, g, e, s, st, n, v
  <2> QED BY <1>2, <1>10, <1>12, <1>13, <1>14 DEF KeepsHeld, IsActive
<1>17. e.ctx[c].fails = n /\ e.gates = d.gates /\ \A o \in DOMAIN d.ctx \ {c} : e.ctx[o] = d.ctx[o]
  <2> HIDE DEF f, g, e, s, st, n, v
  <2> QED BY <1>3, <1>4, <1>10
<1>18. d.ctx[c].fails = FailureLimit => n = FailureLimit
  BY DEF FailureLimit
<1>19. e.task = [d.task EXCEPT ![x] = IF e.ctx[c].fails = FailureLimit THEN "failed" ELSE "ready"]
  <2>1. st = IF e.ctx[c].fails = FailureLimit THEN "failed" ELSE "ready"
    <3> HIDE DEF e, n
    <3> QED BY <1>17
  <2> HIDE DEF f, e, n, st
  <2> QED BY <1>10, <2>1
<1> QED BY <1>11, <1>13, <1>15, <1>16, <1>17, <1>18, <1>19

LEMMA CarriedOk ==
  ASSUME NEW d \in Database, NEW t \in Tasks
  PROVE  Carried(d, t) \in Failures
<1> DEFINE Of == {c \in DOMAIN d.ctx : d.ctx[c].task = t}
           IsMax(n) == /\ n = 0 \/ \E c \in DOMAIN d.ctx : d.ctx[c].task = t /\ d.ctx[c].fails = n
                       /\ \A c \in DOMAIN d.ctx : d.ctx[c].task = t => d.ctx[c].fails <= n
<1>1. \A c \in DOMAIN d.ctx : d.ctx[c].fails \in {0, 1, 2, 3}
  BY CtxSeq DEF Ctx, Failures, FailureLimit
<1>2. Failures = {0, 1, 2, 3}
  BY DEF Failures, FailureLimit
<1>3. \E n \in Failures : IsMax(n)
  <2>1. CASE \E c \in Of : d.ctx[c].fails = 3
    <3>1. IsMax(3)
      BY <1>1, <2>1
    <3> QED BY <1>2, <3>1
  <2>2. CASE (\A c \in Of : d.ctx[c].fails # 3) /\ \E c \in Of : d.ctx[c].fails = 2
    <3>1. IsMax(2)
      BY <1>1, <2>2
    <3> QED BY <1>2, <3>1
  <2>3. CASE (\A c \in Of : d.ctx[c].fails \notin {2, 3}) /\ \E c \in Of : d.ctx[c].fails = 1
    <3>1. IsMax(1)
      BY <1>1, <2>3
    <3> QED BY <1>2, <3>1
  <2>4. CASE \A c \in Of : d.ctx[c].fails \notin {1, 2, 3}
    <3>1. IsMax(0)
      BY <1>1, <2>4
    <3> QED BY <1>2, <3>1
  <2> QED BY <2>1, <2>2, <2>3, <2>4
<1>4. Carried(d, t) = CHOOSE n \in Failures : IsMax(n)
  BY DEF Carried
<1> HIDE DEF IsMax
<1> QED BY <1>3, <1>4

\* A new dispatch is the last one; it takes a free terminal and a ready task.
LEMMA CreateDispatchOk ==
  ASSUME NEW d \in Database, NEW t \in Tasks, NEW h \in Terminals, Claimable(d, t, h)
  PROVE  LET e == CreateDispatch(d, t, h)
             c == Len(d.ctx) + 1 IN
         /\ e \in Database /\ DOMAIN e.ctx = DOMAIN d.ctx \cup {c} /\ c \in Nat \ {0}
         /\ Len(e.ctx) = c /\ e.ctx[c].task = t
         /\ Locked(d) => Locked(e)
         /\ Held(d) => Held(e)
<1> DEFINE c == Len(d.ctx) + 1
           v == [task |-> t, handle |-> h, status |-> "dispatched", fails |-> Carried(d, t)]
           f == Append(d.ctx, v)
           g == [d.task EXCEPT ![t] = "dispatched"]
           e == CreateDispatch(d, t, h)
<1>1. v \in Ctx
  BY CarriedOk DEF Ctx, CtxStatus
<1>2. /\ f \in Seq(Ctx) /\ Len(f) = c /\ DOMAIN f = DOMAIN d.ctx \cup {c} /\ c \notin DOMAIN d.ctx
      /\ c \in Nat \ {0} /\ f[c] = v /\ \A o \in DOMAIN d.ctx : f[o] = d.ctx[o]
  <2> HIDE DEF v
  <2> QED BY <1>1, CtxSeq, AppendProperties DEF Database
<1>3. g \in [Tasks -> TaskStatus]
  BY DEF Database, TaskStatus
<1>4. e = [[d EXCEPT !.task = g] EXCEPT !.ctx = f]
  BY DEF CreateDispatch, Database
<1>5. e \in Database /\ e.ctx = f /\ e.task = g
  <2> HIDE DEF f, g, e
  <2> QED BY <1>2, <1>3, <1>4 DEF Database
<1>6. \A o \in DOMAIN d.ctx : IsActive(d, o) => d.ctx[o].handle # h
  BY DEF Claimable, ActiveOn
<1>7. \A o \in DOMAIN d.ctx : IsActive(e, o) <=> IsActive(d, o)
  <2> HIDE DEF f, g, e, c
  <2> QED BY <1>2, <1>5 DEF IsActive
<1>8. Locked(d) => Locked(e)
  <2>1. v.handle = h
    OBVIOUS
  <2> HIDE DEF f, g, e, v, c
  <2> QED BY <1>2, <1>5, <1>6, <1>7, <2>1 DEF Locked
<1>9. Held(d) => Held(e)
  <2>1. v.task = t /\ v.status = "dispatched"
    OBVIOUS
  <2>2. \A x \in Tasks \ {t} : g[x] = d.task[x]
    BY DEF Database
  <2> HIDE DEF f, g, e, v, c
  <2>3. IsActive(e, c) /\ e.ctx[c].task = t
    BY <1>2, <1>5, <2>1 DEF IsActive
  <2> QED BY <1>2, <1>5, <1>7, <2>2, <2>3 DEF Held
<1>10. Len(e.ctx) = c /\ e.ctx[c].task = t
  <2>1. v.task = t
    OBVIOUS
  <2> HIDE DEF f, g, e, v, c
  <2> QED BY <1>2, <1>5, <2>1
<1> QED BY <1>2, <1>5, <1>8, <1>9, <1>10

LEMMA CreateGateOk ==
  ASSUME NEW d \in Database, NEW t \in Tasks
  PROVE  LET e == CreateGate(d, t) IN
         e \in Database /\ OnlyEnds(d, e) /\ KeepsHeld(d, e)
<1> DEFINE a == CompleteActive(d, t)
           f == [a.task EXCEPT ![t] = "blocked"]
           g == Append(a.gates, [task |-> t, status |-> "pending"])
           e == CreateGate(d, t)
<1>1. /\ a \in Database /\ OnlyEnds(d, a) /\ a.task = d.task
      /\ \A x \in Tasks \ {t}, c \in DOMAIN d.ctx :
           IsActive(d, c) /\ d.ctx[c].task = x => IsActive(a, c)
  BY CompleteActiveOk
<1>2. f \in [Tasks -> TaskStatus] /\ g \in Seq(Gate)
  <2> HIDE DEF a
  <2> QED BY <1>1, AppendProperties DEF Database, TaskStatus, Gate
<1>3. e = [[a EXCEPT !.task = f] EXCEPT !.gates = g]
  <2> HIDE DEF a
  <2>1. e = [a EXCEPT !.task[t] = "blocked", !.gates = Append(@, [task |-> t, status |-> "pending"])]
    BY DEF CreateGate, a
  <2> QED BY <1>1, <2>1 DEF Database
<1>4. e \in Database /\ e.ctx = a.ctx /\ e.task = f
  <2> HIDE DEF f, g, e, a
  <2> QED BY <1>1, <1>2, <1>3 DEF Database
<1>5. f[t] = "blocked" /\ \A x \in Tasks \ {t} : f[x] = d.task[x]
  <2> HIDE DEF a
  <2> QED BY <1>1 DEF Database
<1>6. OnlyEnds(d, e) /\ KeepsHeld(d, e)
  <2> HIDE DEF f, g, e, a
  <2> QED BY <1>1, <1>4, <1>5 DEF OnlyEnds, KeepsHeld, IsActive
<1> QED BY <1>4, <1>6

LEMMA ResolveGateOk ==
  ASSUME NEW d \in Database, NEW g \in DOMAIN d.gates
  PROVE  LET e == ResolveGate(d, g) IN
         e \in Database /\ OnlyEnds(d, e) /\ KeepsHeld(d, e)
<1> DEFINE x == d.gates[g].task
           q == [d.gates EXCEPT ![g].status = "resolved"]
           f == [d.task EXCEPT ![x] = "ready"]
           e == ResolveGate(d, g)
<1>1. d.gates \in Seq(Gate) /\ DOMAIN d.gates = 1..Len(d.gates) /\ d.gates[g] \in Gate
  BY ElementOfSeq DEF Database
<1>2. [d.gates[g] EXCEPT !.status = "resolved"] \in Gate /\ x \in Tasks
  BY <1>1 DEF Gate
<1>3. q \in Seq(Gate)
  BY <1>1, <1>2, ExceptSeq
<1>4. f \in [Tasks -> TaskStatus] /\ \A y \in Tasks : f[y] = "dispatched" => d.task[y] = "dispatched"
  BY DEF Database, TaskStatus
<1>5. e = [[d EXCEPT !.gates = q] EXCEPT !.task = f]
  <2> HIDE DEF x
  <2>1. e = [d EXCEPT !.gates[g].status = "resolved", !.task[x] = "ready"]
    BY DEF ResolveGate, x
  <2> QED BY <2>1 DEF Database
<1>6. e \in Database /\ e.ctx = d.ctx /\ e.task = f
  <2> HIDE DEF q, f, e
  <2> QED BY <1>3, <1>4, <1>5 DEF Database
<1> QED
  <2> HIDE DEF q, f
  <2> QED BY <1>4, <1>6 DEF OnlyEnds, KeepsHeld, IsActive

-----------------------------------------------------------------------------
(* Which tasks an operation touches *)

\* From d to e only the tasks in S changed, or had a dispatch of theirs changed,
\* or a gate created.
Touches(d, e, S) ==
  /\ \A x \in Tasks \ S : e.task[x] = d.task[x] /\ (Gated(e, x) => Gated(d, x))
  /\ DOMAIN d.ctx \subseteq DOMAIN e.ctx
  /\ \A c \in DOMAIN d.ctx :
       e.ctx[c].task = d.ctx[c].task /\ e.ctx[c].handle = d.ctx[c].handle
  /\ \A c \in DOMAIN e.ctx :
       e.ctx[c].task \notin S => c \in DOMAIN d.ctx /\ e.ctx[c] = d.ctx[c]

LEMMA SameGates ==
  ASSUME NEW d, NEW e, e.gates = d.gates
  PROVE  \A x : Gated(e, x) <=> Gated(d, x)
  BY DEF Gated, PendingGates

LEMMA FailTouches ==
  ASSUME NEW d \in Database, NEW c \in DOMAIN d.ctx
  PROVE  LET e == FailDispatch(d, c)
             t == d.ctx[c].task IN
         /\ t \in Tasks /\ Touches(d, e, {t}) /\ ~IsActive(e, c)
         /\ e.task[t] = IF e.ctx[c].fails = FailureLimit THEN "failed" ELSE "ready"
<1> DEFINE e == FailDispatch(d, c)
           t == d.ctx[c].task
<1>1. t \in Tasks
  BY CtxSeq DEF Ctx
<1>2. /\ OnlyEnds(d, e) /\ e.gates = d.gates /\ \A o \in DOMAIN d.ctx \ {c} : e.ctx[o] = d.ctx[o]
      /\ e.ctx[c].status \in {"failed", "circuit_broken"}
      /\ e.task = [d.task EXCEPT ![t] = IF e.ctx[c].fails = FailureLimit THEN "failed" ELSE "ready"]
  BY FailDispatchOk
<1> HIDE DEF e
<1>3. /\ e.task[t] = IF e.ctx[c].fails = FailureLimit THEN "failed" ELSE "ready"
      /\ \A x \in Tasks \ {t} : e.task[x] = d.task[x]
  BY <1>1, <1>2 DEF Database
<1>4. Touches(d, e, {t})
  BY <1>2, <1>3, SameGates DEF OnlyEnds, Touches
<1>5. ~IsActive(e, c)
  BY <1>2 DEF IsActive
<1> QED BY <1>1, <1>3, <1>4, <1>5 DEF e

LEMMA CompleteTouches ==
  ASSUME NEW d \in Database, NEW c \in DOMAIN d.ctx
  PROVE  LET e == CompleteDispatch(d, c) IN
         /\ Touches(d, e, {d.ctx[c].task}) /\ e.task = d.task /\ e.gates = d.gates
         /\ DOMAIN e.ctx = DOMAIN d.ctx
         /\ \A o \in DOMAIN d.ctx : IsActive(e, o) => IsActive(d, o)
<1> DEFINE f == [d.ctx EXCEPT ![c] = [@ EXCEPT !.status = "completed"]]
           e == CompleteDispatch(d, c)
<1>1. e.ctx = f /\ e.task = d.task /\ e.gates = d.gates
  BY DEF CompleteDispatch, Database
<1>2. \A o \in DOMAIN d.ctx : d.ctx[o] \in Ctx
  BY CtxSeq
<1>3. /\ DOMAIN f = DOMAIN d.ctx /\ f[c].status = "completed"
      /\ f[c].task = d.ctx[c].task /\ f[c].handle = d.ctx[c].handle
      /\ \A o \in DOMAIN d.ctx \ {c} : f[o] = d.ctx[o]
  BY <1>2 DEF Ctx
<1> HIDE DEF e, f
<1> QED BY <1>1, <1>3, SameGates DEF Touches, IsActive, e

LEMMA GateTouches ==
  ASSUME NEW d \in Database, NEW t \in Tasks
  PROVE  LET e == CreateGate(d, t) IN
         /\ Touches(d, e, {t}) /\ DOMAIN e.ctx = DOMAIN d.ctx
         /\ e.task[t] = "blocked"
         /\ \A c \in DOMAIN d.ctx : IsActive(e, c) => IsActive(d, c)
         /\ \A c \in DOMAIN d.ctx : IsLatest(d, t, c) => ~IsActive(e, c)
         /\ \A g \in DOMAIN e.gates : e.gates[g].task = t \/ (g \in DOMAIN d.gates /\ e.gates[g] = d.gates[g])
<1> DEFINE a == CompleteActive(d, t)
           v == [task |-> t, status |-> "pending"]
           e == CreateGate(d, t)
<1>1. /\ a \in Database /\ OnlyEnds(d, a) /\ a.task = d.task /\ a.gates = d.gates
      /\ \A c \in DOMAIN d.ctx : d.ctx[c].task # t => a.ctx[c] = d.ctx[c]
      /\ \A c \in DOMAIN d.ctx : IsLatest(d, t, c) => ~IsActive(a, c)
  BY CompleteActiveOk
<1>2. e = [a EXCEPT !.task[t] = "blocked", !.gates = Append(@, v)]
  BY DEF CreateGate
<1> HIDE DEF a, e
<1>3. /\ e.ctx = a.ctx /\ e.gates = Append(d.gates, v)
      /\ e.task[t] = "blocked" /\ \A x \in Tasks \ {t} : e.task[x] = d.task[x]
  <2> HIDE DEF v
  <2> QED BY <1>1, <1>2 DEF Database
<1>4. /\ d.gates \in Seq(Gate) /\ v \in Gate
      /\ Len(d.gates) \in Nat /\ DOMAIN d.gates = 1..Len(d.gates)
  BY DEF Database, Gate
<1>5. \A g \in DOMAIN e.gates : e.gates[g] = v \/ (g \in DOMAIN d.gates /\ e.gates[g] = d.gates[g])
  <2>1. /\ DOMAIN e.gates = 1..(Len(d.gates) + 1) /\ e.gates[Len(d.gates) + 1] = v
        /\ \A g \in 1..Len(d.gates) : e.gates[g] = d.gates[g]
    <3> HIDE DEF v
    <3> QED BY <1>3, <1>4, AppendProperties
  <2>2. ASSUME NEW g \in DOMAIN e.gates, e.gates[g] # v
        PROVE  g \in DOMAIN d.gates /\ e.gates[g] = d.gates[g]
    <3>1. g \in 1..(Len(d.gates) + 1) /\ g # Len(d.gates) + 1
      BY <2>1, <2>2
    <3>2. g \in 1..Len(d.gates)
      BY <1>4, <3>1
    <3> QED BY <1>4, <2>1, <3>2
  <2> QED BY <2>2
<1>6. \A x \in Tasks \ {t} : Gated(e, x) => Gated(d, x)
  BY <1>5 DEF Gated, PendingGates
<1>7. Touches(d, e, {t})
  BY <1>1, <1>3, <1>6 DEF Touches, OnlyEnds
<1>8. \A c : IsActive(e, c) <=> IsActive(a, c)
  BY <1>3 DEF IsActive
<1> QED BY <1>1, <1>3, <1>5, <1>7, <1>8 DEF OnlyEnds, e

LEMMA ResolveTouches ==
  ASSUME NEW d \in Database, NEW g \in DOMAIN d.gates
  PROVE  LET e == ResolveGate(d, g)
             t == d.gates[g].task IN
         /\ t \in Tasks /\ Touches(d, e, {t}) /\ e.ctx = d.ctx /\ e.task[t] = "ready"
         /\ Gated(e, t) => Gated(d, t)
         /\ DOMAIN e.gates = DOMAIN d.gates
         /\ \A o \in DOMAIN d.gates : e.gates[o].task = d.gates[o].task
<1> DEFINE e == ResolveGate(d, g)
           t == d.gates[g].task
           q == [d.gates EXCEPT ![g] = [@ EXCEPT !.status = "resolved"]]
           f == [d.task EXCEPT ![t] = "ready"]
<1>1. d.gates \in [DOMAIN d.gates -> Gate] /\ t \in Tasks
  <2>1. d.gates \in [DOMAIN d.gates -> Gate]
    BY DEF Database
  <2> QED BY <2>1 DEF Gate
<1>2. e.ctx = d.ctx /\ e.gates = q /\ e.task = f
  BY DEF ResolveGate, Database
<1>3. /\ DOMAIN q = DOMAIN d.gates /\ q[g].task = t /\ q[g].status = "resolved"
      /\ \A o \in DOMAIN d.gates \ {g} : q[o] = d.gates[o]
  BY <1>1 DEF Gate
<1>4. f[t] = "ready" /\ \A x \in Tasks \ {t} : f[x] = d.task[x]
  BY <1>1 DEF Database
<1> HIDE DEF e, q, f
<1>5. \A x : Gated(e, x) => Gated(d, x)
  BY <1>2, <1>3 DEF Gated, PendingGates
<1> QED BY <1>1, <1>2, <1>3, <1>4, <1>5 DEF Touches, e

LEMMA CreateTaskTouches ==
  ASSUME NEW d \in Database, NEW t \in Tasks
  PROVE  LET e == CreateTask(d, t) IN
         /\ Touches(d, e, {t}) /\ e.ctx = d.ctx /\ e.gates = d.gates
         /\ e.task[t] = "pending" \/ (e.task[t] = "ready" /\ DepsCompleted(e, t))
<1> DEFINE e == CreateTask(d, t)
           f == [d.task EXCEPT ![t] = IF Deps[t] = {} THEN "ready" ELSE "pending"]
<1>1. e.ctx = d.ctx /\ e.gates = d.gates /\ e.task = f
  BY DEF CreateTask, Database
<1>2. /\ \A x \in Tasks \ {t} : f[x] = d.task[x]
      /\ f[t] = IF Deps[t] = {} THEN "ready" ELSE "pending"
  BY DEF Database
<1> HIDE DEF e, f
<1>3. Touches(d, e, {t})
  BY <1>1, <1>2, SameGates DEF Touches
<1>4. e.task[t] = "pending" \/ (e.task[t] = "ready" /\ DepsCompleted(e, t))
  <2>1. CASE Deps[t] = {}
    <3>1. DepsCompleted(e, t)
      BY <2>1 DEF DepsCompleted
    <3> QED BY <1>1, <1>2, <2>1, <3>1
  <2>2. CASE Deps[t] # {}
    BY <1>1, <1>2, <2>2
  <2> QED BY <2>1, <2>2
<1> QED BY <1>1, <1>3, <1>4 DEF e

\* From d to e, task t got the new dispatch c, at terminal h.
Adds(d, e, t, h, c) ==
  /\ Touches(d, e, {t}) /\ DOMAIN e.ctx = DOMAIN d.ctx \cup {c} /\ c \notin DOMAIN d.ctx
  /\ IsActive(e, c) /\ IsLatest(e, t, c) /\ e.ctx[c].handle = h
  /\ \A o \in DOMAIN d.ctx : e.ctx[o] = d.ctx[o]
  /\ e.task[t] = "dispatched" /\ e.gates = d.gates

LEMMA CreateTouches ==
  ASSUME NEW d \in Database, NEW t \in Tasks, NEW h \in Terminals, Claimable(d, t, h)
  PROVE  Adds(d, CreateDispatch(d, t, h), t, h, Len(d.ctx) + 1)
<1> DEFINE c == Len(d.ctx) + 1
           e == CreateDispatch(d, t, h)
           v == [task |-> t, handle |-> h, status |-> "dispatched", fails |-> Carried(d, t)]
           f == Append(d.ctx, v)
           g == [d.task EXCEPT ![t] = "dispatched"]
<1>1. v \in Ctx /\ v.task = t /\ v.handle = h /\ v.status = "dispatched"
  BY CarriedOk DEF Ctx, CtxStatus
<1>2. e.ctx = f /\ e.task = g /\ e.gates = d.gates
  <2> HIDE DEF v
  <2> QED BY DEF CreateDispatch, Database, v
<1>3. /\ Len(d.ctx) \in Nat /\ DOMAIN d.ctx = 1..Len(d.ctx) /\ DOMAIN f = 1..c
      /\ f[c] = v /\ \A o \in DOMAIN d.ctx : f[o] = d.ctx[o]
  <2> HIDE DEF v
  <2> QED BY <1>1, CtxSeq, AppendProperties DEF Database
<1>4. g[t] = "dispatched" /\ \A x \in Tasks \ {t} : g[x] = d.task[x]
  BY DEF Database
<1> HIDE DEF e, f, g, v
<1>5. IsActive(e, c) /\ IsLatest(e, t, c) /\ e.ctx[c].handle = h
  BY <1>1, <1>2, <1>3 DEF IsActive, IsLatest
<1>6. /\ DOMAIN e.ctx = DOMAIN d.ctx \cup {c} /\ c \notin DOMAIN d.ctx
      /\ \A o \in DOMAIN d.ctx : e.ctx[o] = d.ctx[o]
  BY <1>2, <1>3
<1>7. Touches(d, e, {t})
  <2> HIDE DEF c
  <2> QED BY <1>1, <1>2, <1>3, <1>4, <1>6, SameGates DEF Touches
<1>8. Adds(d, e, t, h, c)
  <2> HIDE DEF c
  <2> QED BY <1>2, <1>4, <1>5, <1>6, <1>7 DEF Adds
<1> QED BY <1>8 DEF e

LEMMA ProcessTouches ==
  ASSUME NEW d \in Database
  PROVE  LET e == ProcessGates(d) IN
         /\ e.ctx = d.ctx /\ e.gates = d.gates
         /\ \A x \in Tasks : e.task[x] = IF Gated(d, x) THEN "blocked" ELSE d.task[x]
  BY DEF ProcessGates, Database

\* A task that is done takes the pending tasks along that waited for it only.
LEMMA DoneTouches ==
  ASSUME NEW d \in Database, NEW t \in Tasks
  PROVE  LET e == UpdateTaskStatus(d, t, "completed") IN
         /\ OnlyEnds(d, e) /\ e.gates = d.gates /\ e.task[t] = "completed"
         /\ \A x \in Tasks \ {t} :
              \/ e.task[x] = d.task[x]
              \/ d.task[x] = "pending" /\ e.task[x] = "ready" /\ DepsCompleted(e, x)
         /\ \A c \in DOMAIN d.ctx : d.ctx[c].task # t => e.ctx[c] = d.ctx[c]
         /\ \A c \in DOMAIN d.ctx : IsLatest(d, t, c) => ~IsActive(e, c)
<1> DEFINE new == [d EXCEPT !.task[t] = "completed"]
           p   == Promote(new, t)
           e   == CompleteActive(p, t)
<1>1. /\ new \in Database /\ new.ctx = d.ctx /\ new.gates = d.gates /\ new.task[t] = "completed"
      /\ \A x \in Tasks \ {t} : new.task[x] = d.task[x]
  BY DEF Database, TaskStatus
<1>2. /\ p \in Database /\ p.ctx = new.ctx /\ p.gates = new.gates
      /\ \A x \in Tasks : p.task[x] = IF new.task[x] = "pending" /\ t \in Deps[x] /\ DepsCompleted(new, x)
                                      THEN "ready" ELSE new.task[x]
  <2> HIDE DEF new
  <2>1. p \in Database
    BY <1>1, PromoteOk
  <2> QED BY <1>1, <2>1 DEF Promote, Database
<1>3. /\ OnlyEnds(p, e) /\ e.task = p.task /\ e.gates = p.gates
      /\ \A c \in DOMAIN p.ctx : p.ctx[c].task # t => e.ctx[c] = p.ctx[c]
      /\ \A c \in DOMAIN p.ctx : IsLatest(p, t, c) => ~IsActive(e, c)
  <2> HIDE DEF p
  <2> QED BY <1>2, CompleteActiveOk
<1>4. UpdateTaskStatus(d, t, "completed") = e
  BY DEF UpdateTaskStatus
<1> HIDE DEF new, p, e
<1>5. \A x \in Tasks : new.task[x] = "completed" => e.task[x] = "completed"
  BY <1>2, <1>3
<1>6. \A x \in Tasks : DepsCompleted(new, x) => DepsCompleted(e, x)
  BY <1>5, DepsAssumption DEF DepsCompleted
<1>7. \A c \in DOMAIN d.ctx : IsLatest(d, t, c) => IsLatest(p, t, c)
  BY <1>1, <1>2 DEF IsLatest
<1>8. OnlyEnds(d, e)
  BY <1>1, <1>2, <1>3 DEF OnlyEnds, IsActive
<1> QED BY <1>1, <1>2, <1>3, <1>4, <1>6, <1>7, <1>8
=============================================================================
