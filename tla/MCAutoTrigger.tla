----------------------------- MODULE MCAutoTrigger -----------------------------
(* Small instances of AutoTrigger for TLC.                                     *)
EXTENDS AutoTrigger, TLC

CONSTANTS odd, even, never

Instances == odd :> {3, 5, 7} @@ even :> {2, 4, 6} @@ never :> {} @@ NoCron :> {}
==============================================================================
