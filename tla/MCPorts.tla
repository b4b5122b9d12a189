------------------------------ MODULE MCPorts ------------------------------
(* Ports with two interchangeable tasks.                                   *)
EXTENDS Ports, TLC

CONSTANTS t1, t2

Tasks == Permutations({t1, t2})
=============================================================================
