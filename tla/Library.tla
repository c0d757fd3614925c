-------------------------------- MODULE Library --------------------------------
(***************************************************************************)
(* What a user sees of the team's sessions: the Sessions tab under the     *)
(* accounts of the terminal interface (module SessionList), and the local  *)
(* copies (module LocalCopies).  A pull asks for sessions by their id and  *)
(* never by a page, so the two share no state; and which answers a request *)
(* gets is one question, what becomes of them another.  A behaviour is     *)
(* therefore about one of them: the scene.                                 *)
(***************************************************************************)
EXTENDS SessionList, LocalCopies

CONSTANT Scenes  \* subset of {"accounts", "list", "copies"}

VARIABLE scene

LibraryInit == SessionListInit /\ CopiesInit /\ scene \in Scenes

\* Tokens expire, identities are asked for, logins refreshed: for the Teams tab, and
\* for the list after a switch.
AccountScene ==
  \/ AccountsNext /\ UNCHANGED listVars
  \/ \E a \in Askers, j \in Jobs : SwitchTeam(a, j)
  \/ \E j \in Jobs : Reach(j) \/ OnSessionsRefreshed(j) \/ OnRefreshFailed(j)

\* Every request is answered, or lost on the way; the identity is not asked for.
ListScene == SessionsNext \/ \E j \in Jobs : Unanswered(j) /\ UNCHANGED listVars

LibraryNext ==
  /\ UNCHANGED scene
  /\ \/ scene = "accounts" /\ AccountScene /\ UNCHANGED copyVars
     \/ scene = "list" /\ ListScene /\ UNCHANGED copyVars
     \/ scene = "copies" /\ CopiesNext /\ UNCHANGED <<accountVars, listVars>>

LibrarySpec == LibraryInit /\ [][LibraryNext]_<<accountVars, listVars, copyVars, scene>>
=============================================================================
