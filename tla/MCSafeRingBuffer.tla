-------------------------- MODULE MCSafeRingBuffer --------------------------
(* SafeRingBuffer on small capacities.                                     *)
EXTENDS SafeRingBuffer
=============================================================================
