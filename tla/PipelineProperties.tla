-------------------------- MODULE PipelineProperties --------------------------
(***************************************************************************)
(* What JobPipeline promises, and what the comments of the source claim.   *)
(***************************************************************************)
EXTENDS JobPipeline

Statuses == ValidStatuses \cup {"unborn", "gone"}
WorkerPcs == {"down", "boot", "drain", "claim", "lock", "transcribe", "label",
              "push", "audio", "finish", "cleanup", "untrack", "apply",
              "summarize", "autolabel"}
WorkerStates ==
  [pc: WorkerPcs, kind: Kinds \cup {"none", "process"},
   sid: Sessions \cup {NoSession}, team: Teams \cup {NoTeam}, sync: BOOLEAN,
   map: LabelMaps \cup {NoMap}, publish: BOOLEAN, err: BOOLEAN]
RequestStates ==
  [op: Ops \cup {"none"}, at: {"idle", "act", "wait", "apply", "enqueue", "update", "publish", "purge"},
   sid: Sessions \cup {NoSession}, src: Teams \cup {NoTeam},
   dest: Teams \cup {NoTeam}, map: LabelMaps \cup {NoMap}, publish: BOOLEAN]

LocksTypeOK ==
  /\ lock \in [Locks -> Threads \cup {"free"}]
  /\ registry \in [Sessions -> Locks \cup {NoLock}]
  /\ mine \in [Threads -> Locks \cup {NoLock}]
  /\ late \subseteq Threads

\* Every variable keeps its shape; a status is one update_status accepts.
TypeOK ==
  /\ status \in [Sessions -> Statuses]
  /\ team \in [Sessions -> Teams]
  /\ syncOn \in [Sessions -> BOOLEAN]
  /\ personal \in [Sessions -> BOOLEAN]
  /\ autoLabel \in [Sessions -> BOOLEAN]
  /\ syncErr \in [Sessions -> BOOLEAN]
  /\ createdAt \in [Sessions -> Nat]
  /\ audio \in [Sessions -> BOOLEAN]
  /\ transcript \in [Sessions -> {"none", "empty", "raw", "named"}]
  /\ repo \in [Teams -> SUBSET Sessions]
  /\ w \in WorkerStates
  /\ tasks \in Seq(Task)
  /\ active \in SUBSET (Kinds \X Sessions)
  /\ dissolved \subseteq Teams
  /\ LocksTypeOK
  /\ req \in [Handlers -> RequestStates]
  /\ asked \in SUBSET Sessions
  /\ labelled \in [Sessions -> SUBSET LabelMaps]
  /\ learned \in [Sessions -> SUBSET LabelMaps]
  /\ misled \in BOOLEAN

-----------------------------------------------------------------------------
(* Safety.                                                                 *)

\* Single-writer model (queue._ORPHANABLE_STATUSES): once start-up recovery
\* is over, a session shown as in progress is the one the worker is on, so no
\* session is stuck and no two are busy.
BusyIsDriven ==
  w.pc \notin {"down", "boot"} =>
    \A s \in Sessions :
      status[s] \in Busy => w.sid = s /\ w.pc \in Working \ {"apply", "autolabel"}

\* The worker reads a session's team once.  A member's move makes it work for the team the
\* session has left (sessions.move_session, queue.move_job_team) only with a lock that was
\* dropped while it was waited for; the admin's move and the deletion of a team do it with none.
TeamIsCurrent ==
  w.pc \in Working /\ RowExists(w.sid) /\ ~misled => w.team = team[w.sid]

\* A push reaches the repository of the session's team and of no other, unless the session was
\* moved under the worker in one of those ways.
PushesToOwnTeam ==
  [][\A t \in Teams : \A s \in repo'[t] \ repo[t] :
       RowExists(s) /\ ~misled => team[s] = t /\ t \in SyncTeams]_vars

\* A thread that has a session's artifacts and HOME shim in its hands
\* (labels._apply_and_finalize, worker._run_task, worker.process_one).
Inside(th, s) ==
  IF th = "worker" THEN OnIt(s) ELSE Acting(th, "label", "apply") /\ req[th].sid = s

\* Two threads are inside a session at once only if the lock of one of them was dropped
\* while it waited: process_one drops the session's lock without holding it, after its final
\* status has let label requests in (worker.process_one, meet_runner._prune_shim_lock).
OneWriterPerSession ==
  \A s \in Sessions : \A g, h \in Threads :
    Inside(g, s) /\ Inside(h, s) /\ g # h => g \in late \/ h \in late

\* worker._ACTIVE_TASKS is exactly what is pending or running, once each: a
\* click is never lost behind a key nobody will remove.
ActiveIsWhatRuns ==
  LET running == IF w.kind \in Kinds THEN {<<w.kind, w.sid>>} ELSE {}
  IN /\ active = {Key(t) : t \in Pending} \cup running
     /\ Cardinality(active) = Len(tasks) + Cardinality(running)

\* A session is in a repository only if somebody asked for it: at upload, by
\* "Sync now", or with a move.
PushedOnRequest == \A t \in Teams : repo[t] \subseteq asked

\* Left to itself the server pushes no transcript that still has unnamed speakers: a person's
\* sync or labels come first, unless the video is only to be cut
\* (worker._has_unresolved_speakers, worker._labeling_optional), or somebody took a name back
\* under the worker, with a lock that was dropped.
UnattendedPushIsLabelled ==
  [][\A t \in Teams : \A s \in repo'[t] \ repo[t] :
       w.kind \in {"process", "auto_label"} /\ transcript[s] = "raw" /\ ~misled
         => s \in Clipping]_vars

\* The pipeline implements the life cycle of a session.
Lifecycle == INSTANCE JobLifecycle WITH
               published <- UNION {repo[t] : t \in Teams}
ImplementsLifecycle == Lifecycle!Spec

-----------------------------------------------------------------------------
(* Why the safety properties hold: the inductive invariant, in parts.      *)

\* What the worker has in its hands at each program point.
WorkerShape ==
  /\ w.pc \notin {"down", "boot", "drain", "claim"} =>
       w.sid \in Sessions /\ w.kind \in Kinds \cup {"process"}
  /\ w.pc \in {"transcribe", "label"} => w.kind = "process"
  /\ w.pc \in {"lock", "apply", "summarize", "autolabel", "untrack"} => w.kind \in Kinds
  /\ w.pc \in {"down", "boot", "drain", "claim"} => w.kind = "none"

\* A request in flight names a session; a move names both teams.
RequestShape ==
  \A h \in Handlers :
    req[h].at # "idle" =>
      /\ req[h].sid \in Sessions
      /\ req[h].op = "move" => req[h].src \in Teams /\ req[h].dest \in Teams

\* Whatever is pending or running is about a session that has arrived.
NamesAreBorn ==
  /\ w.pc \notin {"down", "boot", "drain", "claim"} => status[w.sid] # "unborn"
  /\ \A i \in 1..Len(tasks) : status[tasks[i].sid] # "unborn"
  /\ \A h \in Handlers : req[h].at # "idle" => status[req[h].sid] # "unborn"

\* The session whose lock a thread has fetched.
About(th) == IF th = "worker" THEN w.sid ELSE req[th].sid

\* The program points at which a thread waits for the lock it has fetched, and at which it has it.
Waiting(th) ==
  IF th = "worker" THEN w.pc = "lock" ELSE req[th].at = "wait"
Holding(th) ==
  IF th = "worker" THEN w.kind \in Kinds /\ w.pc \in Working \cup {"cleanup"}
  ELSE req[th].at \in {"apply", "update"}

\* A thread waits for or has the lock it fetched, its session's registered one unless that was
\* dropped; only a request's can be.
LockIsHeld(th) ==
  /\ (mine[th] # NoLock) <=> (Waiting(th) \/ Holding(th))
  /\ Holding(th) => lock[mine[th]] = th
  /\ mine[th] # NoLock /\ th \notin late => registry[About(th)] = mine[th]
LocksAreHeld == "worker" \notin late /\ \A th \in Threads : LockIsHeld(th)

\* The status the worker left on its session, unless the row was deleted.
StatusOfWork ==
  LET st == status[w.sid]
  IN /\ w.pc \in {"transcribe", "label"} => st \in {"transcribing", "gone"}
     /\ w.pc = "summarize" => st \in {"summarizing", "gone"}
     /\ w.pc = "push" => st \in {"syncing", "gone"}
     /\ w.pc \in {"audio", "finish"} /\ w.kind = "process"
          => st \in {"transcribing", "syncing", "gone"}
     /\ w.pc \in {"audio", "finish"} /\ w.err => st \in {"syncing", "gone"}
     /\ w.err => w.pc \in {"audio", "finish", "cleanup", "untrack"}

\* A label request starts from a settled session, and nothing but a restart,
\* which ends the request, sends a settled session through the pipeline again.
LabelsAreSettled ==
  \A h \in Handlers :
    req[h].op = "label" /\ req[h].at # "idle" =>
      /\ status[req[h].sid] \notin {"queued", "transcribing"}
      /\ w.pc \in {"down", "boot"} => status[req[h].sid] \notin Busy
      /\ w.kind = "process" /\ w.pc \in Working => w.sid # req[h].sid

\* A row's sync flag is on only where somebody asked; the worker pushes only
\* with a row it read that flag from.
SyncIsAsked ==
  /\ \A s \in Sessions : syncOn[s] => s \in asked
  /\ w.sync => w.sid \in asked
  /\ w.pc = "push" => w.sync

\* The server came to an unattended push past the check for unnamed speakers.
PushIsLabelled ==
  /\ w.pc = "apply" => w.kind = "finalize_labels"
  /\ w.pc = "summarize" => w.kind = "retry_summary"
  /\ w.pc = "push" /\ w.kind \in {"process", "auto_label"} /\ ~misled =>
       (transcript[w.sid] = "raw" => w.sid \in Clipping)

\* The keys of the follow-up queue, and of the follow-up the worker is on, are
\* in active, and no key is there twice.
TasksAreTracked ==
  /\ \A i \in 1..Len(tasks) : Key(tasks[i]) \in active
  /\ \A i, j \in 1..Len(tasks) : Key(tasks[i]) = Key(tasks[j]) => i = j
  /\ w.kind \in Kinds =>
       /\ <<w.kind, w.sid>> \in active
       /\ \A i \in 1..Len(tasks) : Key(tasks[i]) # <<w.kind, w.sid>>
  /\ \A key \in active :
       \/ \E i \in 1..Len(tasks) : Key(tasks[i]) = key
       \/ w.kind \in Kinds /\ key = <<w.kind, w.sid>>

InductiveInvariant ==
  /\ TypeOK
  /\ WorkerShape
  /\ RequestShape
  /\ NamesAreBorn
  /\ LocksAreHeld
  /\ LabelsAreSettled
  /\ StatusOfWork

-----------------------------------------------------------------------------
(* Liveness.  Clients that never pause can keep the worker in its          *)
(* follow-up loop for ever, so these speak of a server that stays up and   *)
(* whose clients come to rest.                                             *)

CalmAfterAWhile ==
  <>[](ServerUp /\ \A h \in Handlers : req[h].at = "idle")

\* No session stays queued or busy for ever.
EverySessionSettles ==
  CalmAfterAWhile =>
    \A s \in Sessions :
      status[s] \in Busy \cup {"queued"} ~> status[s] \notin Busy \cup {"queued"}

\* Every follow-up that was accepted ends, and may then be asked for again.
EveryTaskEnds ==
  CalmAfterAWhile =>
    \A s \in Sessions, k \in Kinds : <<k, s>> \in active ~> <<k, s>> \notin active

-----------------------------------------------------------------------------
(* Claims of comments and docstrings that the code does not keep.          *)

\* sessions.move_session (L-23): a label apply must not run against the team
\* the session has left.
LabelsAgainstOwnTeam ==
  \A h \in Handlers :
    Acting(h, "label", "apply") /\ RowExists(req[h].sid)
      => req[h].src = team[req[h].sid]

\* worker.process_one and queue.VALID_STATUSES: "never push empty artifacts to the team
\* repo", that is, no push finds an empty transcript.  Only a transcription that went well
\* comes past that check: one that fails with the transcript written leaves status error,
\* and auto-label and label posts admit that.
EmptyIsNotPushed ==
  [][\A t \in Teams : \A s \in repo'[t] \ repo[t] : transcript[s] # "empty"]_vars

\* queue.requeue_orphans: re-queuing is safe, since millet "re-runs from the audio".  An
\* imported transcript may have none, and the last steps of a run may have deleted it.
RequeuedHaveAudio == \A s \in Sessions : status[s] = "queued" => audio[s]

\* worker: duplicate requests are dropped because the task is "identical"; a
\* second label map is not, and labels._apply_and_finalize queues its
\* voiceprint update on the worker.
EveryMapIsLearned ==
  \A s \in Sessions : \A m \in labelled[s] :
    \/ m \in learned[s]
    \/ ~RowExists(s)
    \/ \E t \in Pending : t.sid = s /\ t.map = m
    \/ w.sid = s /\ w.map = m

=============================================================================
