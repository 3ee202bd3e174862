------------------------------- MODULE MCSync -------------------------------
(* A small instance of Sync: one device whose clock is ahead, one behind.   *)
EXTENDS SyncRounds, TLC

CONSTANTS d1, d2

MCSkew == [d \in Device |-> IF d = d2 THEN -1 ELSE 1]
=============================================================================
