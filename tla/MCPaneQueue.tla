----------------------------- MODULE MCPaneQueue -----------------------------
(* A small instance of PaneQueue for TLC: a run [open, [a, b]], and the run of *)
(* a watcher whose step c uses the pane of the first run's step, too.          *)
EXTENDS PaneQueue, TLC

CONSTANTS open, a, b, c, r1, r2

RunOfStep == open :> r1 @@ a :> r1 @@ b :> r1 @@ c :> r2
EarlierSteps == open :> {} @@ a :> {open} @@ b :> {open} @@ c :> {open}
PaneFrom == [s \in {open, a, b, c} |-> open]
=============================================================================
