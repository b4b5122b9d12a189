------------------------- MODULE MCRingBufferAccess -------------------------
(* RingBufferAccess with two tasks and one interrupt service routine.      *)
EXTENDS RingBufferAccess

CONSTANTS t1, t2, isr

(* A task and the interrupt share a core, the other task has its own.      *)
TwoCores == [p \in Process |-> IF p = t2 THEN 1 ELSE 0]
=============================================================================
