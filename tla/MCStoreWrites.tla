---------------------------- MODULE MCStoreWrites ----------------------------
(* A small instance of StoreWrites for TLC: how often what happens.           *)
EXTENDS StoreWrites

CONSTANTS w1, w2

AFew == [change |-> 3, flush |-> 2, fail |-> 1, crash |-> 1]
=============================================================================
