---------------------------- MODULE MCLockGuards ----------------------------
(* LockGuards with two interchangeable tasks.                              *)
EXTENDS LockGuards, TLC

CONSTANTS t1, t2

Tasks == Permutations({t1, t2})
=============================================================================
