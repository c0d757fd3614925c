---------------------------- MODULE MCSessionFolder ----------------------------
(* Model values for TLC. *)
EXTENDS SessionFolder

CONSTANTS h1, h2, m1, l1, l2, l3, l4, c1, c2, u1, u2, u3

\* Two documents of the same name, one named like a frame.
Staged == [c \in {c1, c2} |->
  IF c = c1
  THEN <<[name |-> "shot", size |-> 1], [name |-> "cue", size |-> 1]>>
  ELSE <<[name |-> "shot", size |-> 2]>>]
Patient == [c \in {c1, c2} |-> IF c = c1 THEN 2 ELSE 1]
OneOfEach == [u \in {u1, u2, u3} |->
  CASE u = u1 -> "single" [] u = u2 -> "multi" [] OTHER -> "import"]
=============================================================================
