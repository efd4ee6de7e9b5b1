------------------------------- MODULE MCPark -------------------------------
(* Instances of Park for TLC.                                              *)
EXTENDS Park, TLC
CONSTANTS p1, p2, v1, v2

\* v1 and v2 unpark one Park
OneTarget == [v \in Wakers |-> p1]
\* v1 unparks p1, v2 unparks p2
TwoTargets == [v \in Wakers |-> IF v = v1 THEN p1 ELSE p2]
=============================================================================
