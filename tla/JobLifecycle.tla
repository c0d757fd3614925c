----------------------------- MODULE JobLifecycle -----------------------------
(***************************************************************************)
(* What the job pipeline promises about a session, whatever threads,       *)
(* queues, locks and restarts there are: one session at a time is busy,    *)
(* only a busy session reaches a git repository, and a session follows the *)
(* life cycle of VALID_STATUSES (server/queue.py).                         *)
(***************************************************************************)

CONSTANT Sessions

VARIABLES
  status,     \* the life of each session
  published   \* the sessions some team repository holds a copy of

vars == <<status, published>>

Busy == {"transcribing", "summarizing", "syncing"}
Settled == {"needs_labeling", "done", "sync_failed", "error", "empty", "imported"}
Existing == Busy \cup Settled \cup {"queued"}

Idle == \A s \in Sessions : status[s] \notin Busy
Become(s, st) == status' = [status EXCEPT ![s] = st] /\ UNCHANGED published

Init ==
  /\ status = [s \in Sessions |-> "unborn"]
  /\ published = {}

\* An upload is queued, an import is registered as it is.
Arrive(s) ==
  /\ status[s] = "unborn"
  /\ \E st \in {"queued", "imported"} : Become(s, st)

\* One queued session becomes busy, when none is.
Begin(s) ==
  /\ Idle
  /\ status[s] = "queued"
  /\ Become(s, "transcribing")

\* A follow-up on a session that is not being processed.
FollowUp(s) ==
  /\ Idle
  /\ status[s] \in Settled \cup {"queued"}
  /\ \E st \in {"summarizing", "syncing", "needs_labeling", "done", "error"} :
       Become(s, st)

\* What comes after each busy status.
After == [transcribing |-> {"syncing", "needs_labeling", "empty", "done", "error"},
          summarizing  |-> {"syncing", "done", "error"},
          syncing      |-> {"done", "sync_failed", "error"}]

Proceed(s) ==
  /\ status[s] \in Busy
  /\ \E st \in After[status[s]] : Become(s, st)

\* A copy reaches a repository while the session is syncing, or was until
\* its row was deleted.
Publish(s) ==
  /\ status[s] \in {"syncing", "gone"}
  /\ published' = published \cup {s}
  /\ UNCHANGED status

\* A restart sends every interrupted session back to the queue.
Recover ==
  /\ status' = [s \in Sessions |->
                  IF status[s] \in Busy THEN "queued" ELSE status[s]]
  /\ UNCHANGED published

\* Deletion is for ever.
Remove(s) ==
  /\ status[s] \in Existing
  /\ Become(s, "gone")

Next ==
  \/ Recover
  \/ \E s \in Sessions :
       \/ Arrive(s)
       \/ Begin(s)
       \/ FollowUp(s)
       \/ Proceed(s)
       \/ Publish(s)
       \/ Remove(s)

Spec == Init /\ [][Next]_vars

=============================================================================
