------------------------------- MODULE MCLibrary -------------------------------
(* Library on small instances. *)
EXTENDS Library

CONSTANTS near, far, j1, j2, p1, p2
Alike == Permutations({j1, j2}) \cup Permutations({p1, p2})
\* Teams "x" and "y" are on one server, "z" on another.
Homes == [t \in Teams |-> IF t = "z" THEN far ELSE near]
Few == [t \in Teams |-> IF t = "x" THEN 1..4 ELSE {}]
===============================================================================
