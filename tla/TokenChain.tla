------------------------------ MODULE TokenChain ------------------------------
(***************************************************************************)
(* What refresh rotation promises, whatever threads, locks, caches, clocks *)
(* and restarts there are: a family is one line of tokens that grows at    *)
(* its head, is told about at its head only, and stops growing for ever    *)
(* when it is ended (the docstring of server/sessions_auth.py).            *)
(***************************************************************************)

CONSTANTS
  Families,
  None       \* no token

VARIABLES
  head,      \* the newest token of each family
  links,     \* which token was consumed for which
  told,      \* the links some client was told of
  ended

vars == <<head, links, told, ended>>

Init ==
  /\ head = [f \in Families |-> None]
  /\ links = {} /\ told = {}
  /\ ended = {}

\* A token nobody has had before becomes the head of the family.
Had == {head[f] : f \in Families} \cup {k.from : k \in links} \cup {k.to : k \in links}

NewHead(f) ==
  /\ head' = [head EXCEPT ![f] = head'[f]]
  /\ head'[f] \notin Had \cup {None}

\* A login.
Begin(f) ==
  /\ head[f] = None
  /\ NewHead(f)
  /\ UNCHANGED <<links, told, ended>>

\* The head of a family that goes on is consumed for a new one.
Extend(f) ==
  /\ head[f] # None /\ f \notin ended
  /\ NewHead(f)
  /\ links' = links \cup {[of |-> f, from |-> head[f], to |-> head'[f]]}
  /\ UNCHANGED <<told, ended>>

\* A client learns, for the first time or again, what its token was consumed for: the head.
Tell(f) ==
  /\ \E k \in links :
       /\ k.of = f /\ k.to = head[f]
       /\ told' = told \cup {[from |-> k.from, to |-> k.to]}
  /\ UNCHANGED <<head, links, ended>>

\* Families end together or alone.
End(F) ==
  /\ ended' = ended \cup F
  /\ UNCHANGED <<head, links, told>>

Next ==
  \/ \E f \in Families : Begin(f) \/ Extend(f) \/ Tell(f)
  \/ \E F \in SUBSET Families : End(F)

Spec == Init /\ [][Next]_vars
==============================================================================
