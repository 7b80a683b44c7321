--------------------------- MODULE MCAutomationRuns ---------------------------
(* Small instances of AutomationRuns for TLC: chains, runs and bounds.        *)
EXTENDS AutomationRuns, TLC

CONSTANTS r1, r2, a1, a2

\* Chains, as the position of each flattened step.
Pair         == <<1, 1>>         \* [[s1, s2]]
PairThenSolo == <<1, 1, 2>>      \* [[s1, s2], s3]
SoloThenPair == <<1, 2, 2>>      \* [s1, [s2, s3]]
Sandwich     == <<1, 2, 2, 3>>   \* [s1, [s2, s3], s4]

OneRun   == {r1}
TwoRuns  == {r1, r2}
OneAuto  == [r \in {r1, r2} |-> a1]
TwoAutos == [r \in {r1, r2} |-> IF r = r1 THEN a1 ELSE a2]
OneRunOf == [r \in {r1} |-> a1]

Happens(ops) == [op \in Ops |-> IF op \in ops THEN 1 ELSE 0]
Failing   == Happens({"throw", "delete", "crash"})
Cancels   == Happens({"cancel"})
NoDeletes == Happens({"throw", "cancel", "retry", "pause", "crash"})
Mishaps   == Happens({"throw", "delete", "tie"})
=============================================================================
