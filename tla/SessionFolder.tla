----------------------------- MODULE SessionFolder -----------------------------
(***************************************************************************)
(* What happens in and around session folders: how one comes to be (module *)
(* DirectUpload), whose shim millet runs in (module ShimLock), how long a  *)
(* step may run (module Watchdog), what becomes of attachments (module     *)
(* Attachments).  They meet in few places.  A shim is built before a step  *)
(* and removed after it, which ShimLock's actions Build and Exit stand     *)
(* for; a directory that gains an attachment looks to the watchdog like    *)
(* progress, which it sees as somebody else's write; attachments are sent  *)
(* to a session that has arrived.  So a behaviour is about one of them,    *)
(* the scene, and the others stand still.                                  *)
(***************************************************************************)
EXTENDS ShimLock, Watchdog, Attachments, DirectUpload

CONSTANT Scenes  \* subset of {"shim", "step", "attachments", "arrival"}

VARIABLE scene

FolderInit == Init /\ StepInit /\ AttachInit /\ DirectInit /\ scene \in Scenes

FolderNext ==
  /\ UNCHANGED scene
  /\ \/ scene = "shim" /\ Next /\ UNCHANGED <<stepVars, attachVars, directVars>>
     \/ scene = "step" /\ StepNext /\ UNCHANGED <<vars, attachVars, directVars>>
     \/ scene = "attachments" /\ AttachNext /\ UNCHANGED <<vars, stepVars, directVars>>
     \/ scene = "arrival" /\ DirectNext /\ UNCHANGED <<vars, stepVars, attachVars>>

FolderSpec == FolderInit /\ [][FolderNext]_<<vars, stepVars, attachVars, directVars, scene>>
=============================================================================
