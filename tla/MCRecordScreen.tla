----------------------------- MODULE MCRecordScreen -----------------------------
(* RecordScreen on small instances. *)
EXTENDS RecordScreen, TLC

CONSTANTS r1, r2, j1, j2, t1, t2

Symmetric == Permutations({r1, r2}) \cup Permutations({j1, j2}) \cup Permutations({t1, t2})
=================================================================================
