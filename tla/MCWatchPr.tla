------------------------------- MODULE MCWatchPr -------------------------------
(* Small instances of WatchPr for TLC.                                         *)
EXTENDS WatchPr
================================================================================
