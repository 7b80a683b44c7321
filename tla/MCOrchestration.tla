--------------------------- MODULE MCOrchestration ---------------------------
(* Small graphs of tasks and mishaps for the checks of Orchestration. *)
EXTENDS Orchestration, TLC

CONSTANTS t1, t2, t3, h1, h2

\* t3 waits for t1 and t2.
Join == [t \in Tasks |-> IF t = t3 THEN {t1, t2} ELSE {}]
\* t2 waits for t1.
Chain == [t \in Tasks |-> IF t = t2 THEN {t1} ELSE {}]

\* How often the operations of ops happen; the others never do.
Happens(ops) == [op \in Ops |-> IF op \in DOMAIN ops THEN ops[op] ELSE 0]

Orderly == Happens("exit" :> 1 @@ "io" :> 1 @@ "ask" :> 1)
Unruly  == Happens("rpc" :> 1 @@ "update" :> 1 @@ "gate" :> 1 @@ "escalate" :> 1
                   @@ "stop" :> 1 @@ "skip" :> 1)
Crashes == Happens("exit" :> 2)
GatesByHand == Happens("gate" :> 1)
=============================================================================
