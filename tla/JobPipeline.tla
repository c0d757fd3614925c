----------------------------- MODULE JobPipeline -----------------------------
(***************************************************************************)
(* The heart of the vezir server: the SQLite job queue (server/queue.py),  *)
(* the single worker thread that drains it (server/worker.py), and the     *)
(* HTTP handlers that act on a session while the worker runs               *)
(* (server/sessions.py, server/labels.py).                                 *)
(*                                                                         *)
(* A handler is a request thread: it CHECKS the row it read, and ACTS in a *)
(* later step, so whatever another thread does in between is seen.  The    *)
(* worker is one thread whose program counter is w.pc; one action of the   *)
(* worker ends at a database commit, at the end of a millet subprocess or  *)
(* at a lock operation.                                                    *)
(***************************************************************************)
EXTENDS Naturals, Sequences, FiniteSets

CONSTANTS
  Sessions,    \* session ids (ULIDs: never reused)
  Teams,       \* team uuids
  SyncTeams,   \* the teams that have a git sync target configured
  Handlers,    \* concurrent request threads
  Locks,       \* enough threading.Lock objects
  LabelMaps,   \* the non-empty speaker -> name maps clients may post
  Silent,      \* sessions in which millet may hear nothing
  Clipping,    \* sessions with the video-clipping template and no video
  Preset,      \* sessions that request a summary preset, summary not deferred
  SkipSync,    \* VEZIR_SKIP_SYNC, the operator's kill switch
  DeleteAudio, \* VEZIR_DELETE_AUDIO
  Ops,         \* the requests clients make in this instance
  Faults,      \* the faults that happen in this instance
  NoSession, NoTeam, NoMap, NoLock   \* "none" of each kind

AllOps == {"sync", "retry_summary", "auto_label", "label",
           "move", "share", "delete", "admin_move", "delete_team"}
AllFaults == {"crash", "raise", "raise_in_auto_sync"}

ASSUME SessionsAssumption ==
  /\ IsFiniteSet(Sessions)
  /\ NoSession \notin Sessions
  /\ Silent \subseteq Sessions
  /\ Clipping \subseteq Sessions
  /\ Preset \subseteq Sessions
ASSUME TeamsAssumption ==
  /\ Teams # {}
  /\ SyncTeams \subseteq Teams
  /\ NoTeam \notin Teams
ASSUME LabelsAssumption == NoMap \notin LabelMaps
ASSUME HandlersAssumption == "free" \notin Handlers /\ "worker" \notin Handlers
ASSUME LocksAssumption ==
  /\ IsFiniteSet(Locks) /\ NoLock \notin Locks
  /\ Cardinality(Locks) >= Cardinality(Handlers) + Cardinality(Sessions)
ASSUME SwitchesAssumption ==
  /\ SkipSync \in BOOLEAN
  /\ DeleteAudio \in BOOLEAN
  /\ Ops \subseteq AllOps
  /\ Faults \subseteq AllFaults

VARIABLES
  \* the jobs table, one function per column
  status, team, syncOn, personal, autoLabel, syncErr, createdAt,
  \* the session directories
  audio, transcript,
  \* the teams: the sessions each one's git repository holds a copy of; those deleted
  repo, dissolved,
  \* the server process: worker thread, follow-up queue
  w, tasks, active,
  \* the locks of meet_runner, the one registered for each session, the one each
  \* thread has fetched, and the threads whose lock was dropped while they waited
  lock, registry, mine, late,
  \* the request threads
  req,
  \* history: who asked for a sync; label maps answered 200; maps learned; has the
  \* session the worker is on been moved by somebody who asks for no lock, or been
  \* moved or labelled under a lock that was dropped?
  asked, labelled, learned, misled

rowVars  == <<status, team, syncOn, personal, autoLabel, syncErr, createdAt>>
diskVars == <<audio, transcript>>
teamVars == <<repo, dissolved>>
taskVars == <<tasks, active>>
lockVars == <<lock, registry, mine, late>>
histVars == <<asked, labelled, learned, misled>>
vars == <<rowVars, diskVars, teamVars, w, taskVars, lockVars, req, histVars>>

-----------------------------------------------------------------------------
(* Status sets.                                                            *)

ValidStatuses == {"queued", "transcribing", "summarizing", "needs_labeling",
                  "syncing", "done", "sync_failed", "error", "empty", "imported"}
Busy == {"transcribing", "summarizing", "syncing"}

\* Variants of the code, each one slip away from it, stand before the
\* definition they vary.  Only the mutation runs use them.
OrphanableWithoutTranscribing == {"summarizing", "syncing"}
OrphanableWithoutSummarizing == {"transcribing", "syncing"}

\* queue.requeue_orphans: what a restart sends back to the queue.
Orphanable == {"transcribing", "summarizing", "syncing"}

SyncAdmits      == {"done", "syncing", "sync_failed", "imported"}
RetryAdmits     == {"done", "sync_failed", "imported"}
AutoLabelAdmits == {"needs_labeling", "done", "error", "sync_failed", "imported"}
LabelAdmits     == {"needs_labeling", "done", "error", "sync_failed", "imported"}
PublishAfterMove == {"done", "sync_failed", "imported"}

RowExists(s) == status[s] \in ValidStatuses

\* The program points at which the worker has a session's row, artifacts and
\* HOME shim in its hands.
Working == {"transcribe", "label", "summarize", "autolabel", "apply", "push",
            "audio", "finish"}
OnIt(s) == w.pc \in Working /\ w.sid = s

SetStatusUpsert(s, st) == [status EXCEPT ![s] = st]

\* queue.update_status is an UPDATE ... WHERE id = ?: nothing for a lost row.
SetStatus(s, st) == [status EXCEPT ![s] = IF RowExists(s) THEN st ELSE @]

Kinds == {"sync", "retry_summary", "finalize_labels", "auto_label"}
Task == [kind: Kinds, sid: Sessions, map: LabelMaps \cup {NoMap}, publish: BOOLEAN]
Key(t) == <<t.kind, t.sid>>
Pending == {tasks[i] : i \in DOMAIN tasks}
HasActiveTask(s) == \E k \in Kinds : <<k, s>> \in active

EnqueueTwice(k, s, m, p) ==
  /\ active' = active \cup {<<k, s>>}
  /\ tasks' = IF Len(tasks) < 3
              THEN Append(tasks, [kind |-> k, sid |-> s, map |-> m, publish |-> p])
              ELSE tasks

\* worker.enqueue_task: a key that is pending or running drops the request,
\* whatever its arguments.
Enqueue(k, s, m, p) ==
  IF <<k, s>> \in active
  THEN UNCHANGED taskVars
  ELSE /\ active' = active \cup {<<k, s>>}
       /\ tasks' = Append(tasks, [kind |-> k, sid |-> s, map |-> m, publish |-> p])

-----------------------------------------------------------------------------
(* meet_runner.session_shim_lock: one lock per session, made when it is     *)
(* first fetched, acquired by a step of its own.                           *)

Threads == Handlers \cup {"worker"}
Unused == {l \in Locks : (\A s \in Sessions : registry[s] # l) /\ \A th \in Threads : mine[th] # l}

Fetch(th, s) ==
  LET l == IF registry[s] # NoLock THEN registry[s] ELSE CHOOSE u \in Unused : TRUE IN
  /\ registry[s] # NoLock \/ Unused # {}
  /\ registry' = [registry EXCEPT ![s] = l]
  /\ mine' = [mine EXCEPT ![th] = l]
  /\ UNCHANGED <<lock, late>>

Free(th) == lock[mine[th]] = "free"
Acquire(th) ==
  /\ Free(th)
  /\ lock' = [lock EXCEPT ![mine[th]] = th]
  /\ UNCHANGED <<registry, mine, late>>

LetGo(th) ==
  /\ mine' = [mine EXCEPT ![th] = NoLock]
  /\ late' = late \ {th}
  /\ UNCHANGED registry
Release(th) == lock' = [lock EXCEPT ![mine[th]] = "free"] /\ LetGo(th)

DroppedAnyway(s) == registry[s] # NoLock

\* _prune_shim_lock: a registered lock that nobody holds goes; whoever has fetched
\* it and waits is not seen, and the next thread is given another lock.
Dropped(s) == registry[s] # NoLock /\ lock[registry[s]] = "free"
Waits(th) == mine[th] # NoLock /\ lock[mine[th]] # th
Prune(s) ==
  /\ registry' = IF Dropped(s) THEN [registry EXCEPT ![s] = NoLock] ELSE registry
  /\ late' = IF Dropped(s) THEN late \cup {th \in Threads : Waits(th) /\ mine[th] = registry[s]}
             ELSE late

-----------------------------------------------------------------------------
IdleAt(pc) == [pc |-> pc, kind |-> "none", sid |-> NoSession, team |-> NoTeam,
               sync |-> FALSE, map |-> NoMap, publish |-> FALSE, err |-> FALSE]
NoRequest == [op |-> "none", at |-> "idle", sid |-> NoSession, src |-> NoTeam,
              dest |-> NoTeam, map |-> NoMap, publish |-> FALSE]

Init ==
  /\ status = [s \in Sessions |-> "unborn"]
  /\ team = [s \in Sessions |-> CHOOSE t \in Teams : TRUE]
  /\ syncOn = [s \in Sessions |-> FALSE]
  /\ personal = [s \in Sessions |-> FALSE]
  /\ autoLabel = [s \in Sessions |-> FALSE]
  /\ syncErr = [s \in Sessions |-> FALSE]
  /\ createdAt = [s \in Sessions |-> 0]
  /\ audio = [s \in Sessions |-> FALSE]
  /\ transcript = [s \in Sessions |-> "none"]
  /\ repo = [t \in Teams |-> {}]
  /\ dissolved = {}
  /\ w = IdleAt("down")
  /\ tasks = <<>>
  /\ active = {}
  /\ lock = [l \in Locks |-> "free"]
  /\ registry = [s \in Sessions |-> NoLock]
  /\ mine = [th \in Threads |-> NoLock]
  /\ late = {}
  /\ req = [h \in Handlers |-> NoRequest]
  /\ asked = {}
  /\ labelled = [s \in Sessions |-> {}]
  /\ learned = [s \in Sessions |-> {}]
  /\ misled = FALSE

-----------------------------------------------------------------------------
(* Sessions arrive.                                                        *)

ServerUp == w.pc # "down"
Born == {s \in Sessions : status[s] # "unborn"}

\* Personal recordings are enqueued with sync off, whatever the form says.
SyncAtUpload(wanted, private) == wanted /\ ~private

\* queue.enqueue, from the upload endpoints.
Upload(s, t, wanted, private, auto) ==
  /\ ServerUp
  /\ status[s] = "unborn" /\ t \notin dissolved
  /\ status' = [status EXCEPT ![s] = "queued"]
  /\ team' = [team EXCEPT ![s] = t]
  /\ syncOn' = [syncOn EXCEPT ![s] = SyncAtUpload(wanted, private)]
  /\ personal' = [personal EXCEPT ![s] = private]
  /\ autoLabel' = [autoLabel EXCEPT ![s] = auto]
  /\ createdAt' = [createdAt EXCEPT ![s] = Cardinality(Born)]
  /\ audio' = [audio EXCEPT ![s] = TRUE]
  /\ asked' = IF wanted /\ ~private THEN asked \cup {s} ELSE asked
  /\ UNCHANGED <<syncErr, transcript, teamVars, w, taskVars, lockVars, req,
                 labelled, learned, misled>>

\* queue.import_session, from POST /api/sessions/import: a transcript, and
\* perhaps the audio, registered as they are.
Import(s, t, withAudio, tr) ==
  /\ ServerUp
  /\ status[s] = "unborn" /\ t \notin dissolved
  /\ tr = "empty" => s \in Silent
  /\ status' = [status EXCEPT ![s] = "imported"]
  /\ team' = [team EXCEPT ![s] = t]
  /\ createdAt' = [createdAt EXCEPT ![s] = Cardinality(Born)]
  /\ audio' = [audio EXCEPT ![s] = withAudio]
  /\ transcript' = [transcript EXCEPT ![s] = tr]
  /\ UNCHANGED <<syncOn, personal, autoLabel, syncErr, teamVars, w, taskVars,
                 lockVars, req, histVars>>

-----------------------------------------------------------------------------
(* The worker thread: start, orphan recovery, the poll loop.               *)

AtPc(pc) == w.pc = pc
Goto(pc) == w' = [w EXCEPT !.pc = pc]

\* The lifespan hook starts the worker thread; requests are served from now
\* on, and the worker is still in _dns_warmup.
Boot ==
  /\ AtPc("down")
  /\ w' = IdleAt("boot")
  /\ UNCHANGED <<rowVars, diskVars, teamVars, taskVars, lockVars, req, histVars>>

\* _recover_orphaned_jobs: one UPDATE over every orphaned row.
RequeueOrphans ==
  /\ AtPc("boot")
  /\ status' = [s \in Sessions |->
                  IF status[s] \in Orphanable THEN "queued" ELSE status[s]]
  /\ w' = IdleAt("drain")
  /\ UNCHANGED <<team, syncOn, personal, autoLabel, syncErr, createdAt,
                 diskVars, teamVars, taskVars, lockVars, req, histVars>>

\* _drain_tasks: get_nowait on the follow-up queue; _run_task fetches the lock,
\* which nobody but this thread ever drops.
TakeTask ==
  /\ AtPc("drain")
  /\ tasks # <<>>
  /\ LET t == Head(tasks)
     IN /\ w' = [IdleAt("lock") EXCEPT !.kind = t.kind, !.sid = t.sid,
                                       !.map = t.map, !.publish = t.publish]
        /\ Fetch("worker", t.sid)
  /\ tasks' = Tail(tasks)
  /\ UNCHANGED <<rowVars, diskVars, teamVars, active, req, histVars>>

TasksDrained ==
  /\ AtPc("drain")
  /\ tasks = <<>>
  /\ w' = IdleAt("claim")
  /\ UNCHANGED <<rowVars, diskVars, teamVars, taskVars, lockVars, req, histVars>>

\* What claim_next looks for.
Queued == {s \in Sessions : status[s] = "queued"}

\* queue.claim_next: oldest queued job, marked and read in one transaction.
\* The worker keeps the row it read (team, sync_enabled) for the whole run.
Claim(s) ==
  /\ AtPc("claim")
  /\ s \in Queued
  /\ \A r \in Queued : createdAt[s] <= createdAt[r]
  /\ status' = [status EXCEPT ![s] = "transcribing"]
  /\ w' = [IdleAt("transcribe") EXCEPT !.kind = "process", !.sid = s,
                                       !.team = team[s], !.sync = syncOn[s]]
  /\ UNCHANGED <<team, syncOn, personal, autoLabel, syncErr, createdAt,
                 diskVars, teamVars, taskVars, lockVars, req, histVars>>

NothingToClaim ==
  /\ AtPc("claim")
  /\ Queued = {}
  /\ w' = IdleAt("drain")
  /\ UNCHANGED <<rowVars, diskVars, teamVars, taskVars, lockVars, req, histVars>>

-----------------------------------------------------------------------------
(* worker.process_one.                                                     *)

SyncGateIgnoringOptOut(on, t) == ~SkipSync /\ t \in SyncTeams \ dissolved

\* Both gates, and the team's target, must allow a sync.
SyncGate(on, t) == ~SkipSync /\ on /\ t \in SyncTeams \ dissolved

\* reauto_label_session has gates of its own.
AutoSyncGate(on, t) == ~SkipSync /\ on

\* _is_empty_transcript: no speech segments.
NothingSaid(tr) == tr = "empty"

NeedsHumanNever(s, tr) == FALSE

\* _has_unresolved_speakers and not _labeling_optional.
NeedsHuman(s, tr) == tr = "raw" /\ s \notin Clipping

\* What millet label --auto may leave of a transcript: external, so it may find
\* names and may lose them.
AutoLabelled(tr) == IF tr \in {"raw", "named"} THEN {"raw", "named"} ELSE {tr}

\* The last step of every sync path: status syncing and millet sync, or on
\* to the step that follows a skipped sync.
SyncOrSkip(gate, job, skipTo) ==
  IF gate
  THEN /\ status' = SetStatus(job.sid, "syncing")
       /\ w' = [job EXCEPT !.pc = "push"]
  ELSE /\ UNCHANGED status
       /\ w' = [job EXCEPT !.pc = skipTo]

\* What millet transcribe may write from the audio.
Heard(s) == IF s \in Silent THEN {"raw", "empty"} ELSE {"raw"}
\* What there is when it fails: what was there, or already the new transcript.
LeftOver(s) == {transcript[s]} \cup (IF audio[s] THEN Heard(s) ELSE {})

\* Audio merge or extraction, then millet transcribe.  When it fails although
\* transcript files are on disk and a preset was requested, the failure counts as
\* the summary's; otherwise, whatever is on disk, the session's.
TranscribeOk ==
  /\ AtPc("transcribe")
  /\ audio[w.sid]
  /\ \E tr \in Heard(w.sid) : transcript' = [transcript EXCEPT ![w.sid] = tr]
  /\ Goto("label")
  /\ UNCHANGED <<rowVars, audio, teamVars, taskVars, lockVars, req, histVars>>

TranscribeSummaryFailed(tr) ==
  /\ AtPc("transcribe")
  /\ w.sid \in Preset
  /\ tr \in LeftOver(w.sid) \ {"none"}
  /\ transcript' = [transcript EXCEPT ![w.sid] = tr]
  /\ Goto("label")
  /\ UNCHANGED <<rowVars, audio, teamVars, taskVars, lockVars, req, histVars>>

TranscribeFailed(tr) ==
  /\ AtPc("transcribe")
  /\ tr \in LeftOver(w.sid)
  /\ transcript' = [transcript EXCEPT ![w.sid] = tr]
  /\ status' = SetStatus(w.sid, "error")
  /\ Goto("cleanup")
  /\ UNCHANGED <<team, syncOn, personal, autoLabel, syncErr, createdAt,
                 audio, teamVars, taskVars, lockVars, req, histVars>>

\* label --auto unless opted out; then empty, needs_labeling, or sync.
LabelAndRoute(tr) ==
  LET s == w.sid
  IN /\ AtPc("label")
     /\ tr \in (IF autoLabel[s] THEN AutoLabelled(transcript[s]) ELSE {transcript[s]})
     /\ transcript' = [transcript EXCEPT ![s] = tr]
     /\ \/ /\ NothingSaid(tr)
           /\ status' = SetStatus(s, "empty")
           /\ Goto("cleanup")
        \/ /\ ~NothingSaid(tr)
           /\ NeedsHuman(s, tr)
           /\ status' = SetStatus(s, "needs_labeling")
           /\ Goto("cleanup")
        \/ /\ ~NothingSaid(tr)
           /\ ~NeedsHuman(s, tr)
           /\ SyncOrSkip(SyncGate(w.sync, w.team), w, "audio")
     /\ UNCHANGED <<team, syncOn, personal, autoLabel, syncErr, createdAt,
                    audio, teamVars, taskVars, lockVars, req, histVars>>

-----------------------------------------------------------------------------
(* Steps shared by the pipeline and the follow-up tasks.                   *)

\* meet_runner.sync.  The push may have reached the remote although the
\* step reports a failure (the watchdog kills it); success means pushed.
Push(pushed, ok) ==
  LET s == w.sid
  IN /\ AtPc("push")
     /\ ok => pushed
     /\ pushed => w.team \in SyncTeams /\ transcript[s] # "none"
     /\ repo' = IF pushed THEN [repo EXCEPT ![w.team] = @ \cup {s}] ELSE repo
     /\ w' = [w EXCEPT !.err = ~ok,
                       !.pc = IF w.kind \in {"process", "sync", "finalize_labels"}
                              THEN "audio" ELSE "finish"]
     /\ UNCHANGED <<rowVars, diskVars, dissolved, taskVars, lockVars, req, histVars>>

\* _delete_audio.
DropAudio ==
  /\ AtPc("audio")
  /\ audio' = IF DeleteAudio /\ w.sid \notin Clipping
              THEN [audio EXCEPT ![w.sid] = FALSE] ELSE audio
  /\ Goto("finish")
  /\ UNCHANGED <<rowVars, transcript, teamVars, taskVars, lockVars, req, histVars>>

\* A failed explicit sync is the headline outcome; elsewhere it is a badge.
FinalStatus(kind, err) ==
  IF err /\ kind \in {"sync", "finalize_labels"} THEN "sync_failed" ELSE "done"

Finish ==
  LET s == w.sid
  IN /\ AtPc("finish")
     /\ status' = SetStatus(s, FinalStatus(w.kind, w.err))
     /\ syncErr' = IF RowExists(s) THEN [syncErr EXCEPT ![s] = w.err] ELSE syncErr
     /\ Goto("cleanup")
     /\ UNCHANGED <<team, syncOn, personal, autoLabel, createdAt, diskVars,
                    teamVars, taskVars, lockVars, req, histVars>>

\* cleanup_home_shim in the finally drops the session's lock if it is free, which
\* it may be after process_one, but not in a task, that has it and then leaves it.
Cleanup ==
  /\ AtPc("cleanup")
  /\ Prune(w.sid)
  /\ IF w.kind = "process"
     THEN /\ w' = IdleAt("drain")
          /\ UNCHANGED <<lock, mine>>
     ELSE /\ Goto("untrack")
          /\ lock' = [lock EXCEPT ![mine["worker"]] = "free"]
          /\ mine' = [mine EXCEPT !["worker"] = NoLock]
  /\ misled' = FALSE
  /\ UNCHANGED <<rowVars, diskVars, teamVars, taskVars, req, asked, labelled, learned>>

UntrackNever ==
  /\ AtPc("untrack")
  /\ w' = IdleAt("drain")
  /\ UNCHANGED <<rowVars, diskVars, teamVars, tasks, active, lockVars, req, histVars>>

\* The finally of _run_task, after the lock is free: forget the key.
Untrack ==
  /\ AtPc("untrack")
  /\ active' = active \ {<<w.kind, w.sid>>}
  /\ w' = IdleAt("drain")
  /\ UNCHANGED <<rowVars, diskVars, teamVars, tasks, lockVars, req, histVars>>

-----------------------------------------------------------------------------
(* Follow-up tasks: _run_task takes the session's lock, then reads the row.*)

Reading(s) == [w EXCEPT !.team = team[s], !.sync = syncOn[s]]

StartTask(kind) ==
  /\ AtPc("lock")
  /\ w.kind = kind
  /\ Acquire("worker")

\* The row was deleted while the task was pending.
StartOnMissingRow ==
  /\ \E kind \in Kinds : StartTask(kind)
  /\ ~RowExists(w.sid)
  /\ Goto("cleanup")
  /\ UNCHANGED <<rowVars, diskVars, teamVars, taskVars, req, histVars>>

\* finalize_after_labeling, run for "Sync now".
StartSync ==
  /\ StartTask("sync")
  /\ RowExists(w.sid)
  /\ LET job == Reading(w.sid)
     IN SyncOrSkip(SyncGate(job.sync, job.team), job, "audio")
  /\ UNCHANGED <<team, syncOn, personal, autoLabel, syncErr, createdAt,
                 diskVars, teamVars, taskVars, req, histVars>>

\* _finalize_labels_task: the voiceprint pass runs first.
StartFinalize ==
  /\ StartTask("finalize_labels")
  /\ RowExists(w.sid)
  /\ w' = [Reading(w.sid) EXCEPT !.pc = "apply"]
  /\ UNCHANGED <<rowVars, diskVars, teamVars, taskVars, req, histVars>>

\* The voiceprint pass ends, failed or not; finalize_after_labeling reads
\* the row again.
LearnAndFinalize ==
  LET s == w.sid
  IN /\ AtPc("apply")
     /\ learned' = [learned EXCEPT ![s] = @ \cup ({w.map} \ {NoMap})]
     /\ IF RowExists(s)
        THEN SyncOrSkip(SyncGate(syncOn[s], team[s]), Reading(s), "audio")
        ELSE Goto("cleanup") /\ UNCHANGED status
     /\ UNCHANGED <<team, syncOn, personal, autoLabel, syncErr, createdAt,
                    diskVars, teamVars, taskVars, lockVars, req, asked, labelled>>
     /\ misled' = FALSE

\* retry_summary_for_session: status summarizing, then millet.
StartRetry ==
  /\ StartTask("retry_summary")
  /\ RowExists(w.sid)
  /\ status' = SetStatus(w.sid, "summarizing")
  /\ w' = [Reading(w.sid) EXCEPT !.pc = "summarize"]
  /\ UNCHANGED <<team, syncOn, personal, autoLabel, syncErr, createdAt,
                 diskVars, teamVars, taskVars, req, histVars>>

SummaryDone ==
  /\ AtPc("summarize")
  /\ SyncOrSkip(SyncGate(w.sync, w.team), w, "finish")
  /\ UNCHANGED <<team, syncOn, personal, autoLabel, syncErr, createdAt,
                 diskVars, teamVars, taskVars, lockVars, req, histVars>>

SummaryFailed ==
  /\ AtPc("summarize")
  /\ status' = SetStatus(w.sid, "done")
  /\ Goto("cleanup")
  /\ UNCHANGED <<team, syncOn, personal, autoLabel, syncErr, createdAt,
                 diskVars, teamVars, taskVars, lockVars, req, histVars>>

\* reauto_label_session with force: it needs a transcript on disk, and it
\* runs without a busy status.
StartAutoLabel ==
  /\ StartTask("auto_label")
  /\ RowExists(w.sid)
  /\ w' = [Reading(w.sid) EXCEPT
             !.pc = IF transcript[w.sid] = "none" THEN "cleanup" ELSE "autolabel"]
  /\ UNCHANGED <<rowVars, diskVars, teamVars, taskVars, req, histVars>>

AutoLabelAndRoute(tr) ==
  LET s == w.sid
  IN /\ AtPc("autolabel")
     /\ tr \in AutoLabelled(transcript[s])
     /\ transcript' = [transcript EXCEPT ![s] = tr]
     /\ \/ /\ NeedsHuman(s, tr)
           /\ status' = SetStatus(s, "needs_labeling")
           /\ Goto("cleanup")
        \/ /\ ~NeedsHuman(s, tr)
           /\ ~w.publish
           /\ status' = SetStatus(s, "done")
           /\ Goto("cleanup")
        \/ /\ ~NeedsHuman(s, tr)
           /\ w.publish
           /\ SyncOrSkip(AutoSyncGate(w.sync, w.team), w, "finish")
     /\ UNCHANGED <<team, syncOn, personal, autoLabel, syncErr, createdAt,
                    audio, teamVars, taskVars, lockVars, req, histVars>>

-----------------------------------------------------------------------------
(* Faults.                                                                 *)

\* An exception in the pipeline or in a follow-up: the job becomes error.
Raise ==
  /\ "raise" \in Faults
  /\ w.kind # "auto_label"
  /\ w.pc \in {"transcribe", "label", "summarize", "push", "audio", "finish"}
  /\ status' = SetStatus(w.sid, "error")
  /\ Goto("cleanup")
  /\ UNCHANGED <<team, syncOn, personal, autoLabel, syncErr, createdAt,
                 diskVars, teamVars, taskVars, lockVars, req, histVars>>

\* reauto_label_session only logs and returns: the status stays.
RaiseInAutoLabel ==
  /\ w.kind = "auto_label"
  /\ \/ "raise" \in Faults /\ AtPc("autolabel")
     \/ "raise_in_auto_sync" \in Faults /\ w.pc \in {"push", "finish"}
  /\ Goto("cleanup")
  /\ UNCHANGED <<rowVars, diskVars, teamVars, taskVars, lockVars, req, histVars>>

\* The process dies, or is stopped: the follow-up queue, the locks and the
\* requests in flight are in memory only.
Crash ==
  /\ "crash" \in Faults
  /\ ServerUp
  /\ w' = IdleAt("down")
  /\ tasks' = <<>>
  /\ active' = {}
  /\ lock' = [l \in Locks |-> "free"]
  /\ registry' = [s \in Sessions |-> NoLock]
  /\ mine' = [th \in Threads |-> NoLock]
  /\ late' = {}
  /\ req' = [h \in Handlers |-> NoRequest]
  /\ misled' = FALSE
  /\ UNCHANGED <<rowVars, diskVars, teamVars, asked, labelled, learned>>

-----------------------------------------------------------------------------
(* Request threads.  The caller may see the session: visibility and        *)
(* ownership are checked on the row read here.                             *)

Accept(h, r) ==
  /\ ServerUp
  /\ req[h].at = "idle"
  /\ r.op \in Ops
  /\ RowExists(r.sid)
  /\ req' = [req EXCEPT ![h] = r]
  /\ UNCHANGED <<rowVars, diskVars, teamVars, w, taskVars, lockVars, histVars>>

Request(op, s) == [NoRequest EXCEPT !.op = op, !.at = "act", !.sid = s]
Acting(h, op, at) == req[h].op = op /\ req[h].at = at
Respond(h) == req' = [req EXCEPT ![h] = NoRequest]

SyncNowCheck(h, s) ==
  /\ status[s] \in SyncAdmits
  /\ team[s] \in SyncTeams \ dissolved
  /\ Accept(h, Request("sync", s))

\* set_sync_enabled, then the task.
SyncNowAct(h) ==
  LET s == req[h].sid
  IN /\ Acting(h, "sync", "act")
     /\ syncOn' = IF RowExists(s) THEN [syncOn EXCEPT ![s] = TRUE] ELSE syncOn
     /\ asked' = asked \cup {s}
     /\ Enqueue("sync", s, NoMap, FALSE)
     /\ Respond(h)
     /\ UNCHANGED <<status, team, personal, autoLabel, syncErr, createdAt,
                    diskVars, teamVars, w, lockVars, labelled, learned, misled>>

\* A retry with a language or template is admitted whatever summary_error is.
RetryCheck(h, s) ==
  /\ status[s] \in RetryAdmits
  /\ Accept(h, Request("retry_summary", s))

AutoLabelCheck(h, s, publish) ==
  /\ status[s] \in AutoLabelAdmits
  /\ Accept(h, [Request("auto_label", s) EXCEPT !.publish = publish])

TaskAct(h) ==
  LET r == req[h]
  IN /\ r.op \in {"retry_summary", "auto_label"}
     /\ r.at = "act"
     /\ Enqueue(r.op, r.sid, NoMap, r.publish)
     /\ Respond(h)
     /\ UNCHANGED <<rowVars, diskVars, teamVars, w, lockVars, histVars>>

\* api_label_post: the team comes from the row read at the check.
LabelCheck(h, s, m) ==
  /\ status[s] \in LabelAdmits
  /\ Accept(h, [Request("label", s) EXCEPT !.src = team[s], !.map = m])

\* _apply_and_finalize: millet label --apply-json under the session's lock.
LabelFetch(h) ==
  /\ Acting(h, "label", "act")
  /\ Fetch(h, req[h].sid)
  /\ req' = [req EXCEPT ![h].at = "wait"]
  /\ UNCHANGED <<rowVars, diskVars, teamVars, w, taskVars, histVars>>

LabelLock(h) ==
  /\ Acting(h, "label", "wait")
  /\ Acquire(h)
  /\ req' = [req EXCEPT ![h].at = "apply"]
  /\ UNCHANGED <<rowVars, diskVars, teamVars, w, taskVars, histVars>>

\* Any text is a name, "SPEAKER_00" too: a speaker may be named, stay as it is or
\* lose its name; an empty map changes none.
Relabelled(tr, m) == IF tr \in {"raw", "named"} /\ m # NoMap THEN {"raw", "named"} ELSE {tr}

LabelApply(h, tr) ==
  LET s == req[h].sid
  IN /\ Acting(h, "label", "apply")
     /\ transcript[s] # "none"
     /\ tr \in Relabelled(transcript[s], req[h].map)
     /\ transcript' = [transcript EXCEPT ![s] = tr]
     /\ misled' = (misled \/ (h \in late /\ OnIt(s)))
     /\ Release(h)
     /\ req' = [req EXCEPT ![h].at = "enqueue"]
     /\ UNCHANGED <<rowVars, audio, teamVars, w, taskVars, asked, labelled, learned>>

LabelApplyFails(h) ==
  /\ Acting(h, "label", "apply")
  /\ Release(h)
  /\ Respond(h)
  /\ UNCHANGED <<rowVars, diskVars, teamVars, w, taskVars, histVars>>

\* Queue the follow-up and answer 200.
LabelFinish(h) ==
  LET s == req[h].sid
      m == req[h].map
  IN /\ Acting(h, "label", "enqueue")
     /\ Enqueue("finalize_labels", s, m, FALSE)
     /\ labelled' = [labelled EXCEPT ![s] = @ \cup ({m} \ {NoMap})]
     /\ Respond(h)
     /\ UNCHANGED <<rowVars, diskVars, teamVars, w, lockVars, asked, learned, misled>>

MoveCheck(h, s, dest, wantSync) ==
  /\ dest \notin dissolved \cup {team[s]}
  /\ ~HasActiveTask(s)
  /\ Accept(h, [Request("move", s) EXCEPT
                  !.src = team[s], !.dest = dest,
                  !.publish = /\ wantSync
                              /\ ~personal[s]
                              /\ status[s] \in PublishAfterMove
                              /\ dest \in SyncTeams])

MayMoveWhileBusy(s, src) == team[s] = src

\* queue.move_job_team: one conditional UPDATE.
MayMove(s, src) == team[s] = src /\ status[s] \notin Busy

\* The shim lock is tried without blocking, and is free again after the UPDATE;
\* the sync decision is the one made on the row of the check.
MoveFetch(h) ==
  /\ Acting(h, "move", "act")
  /\ Fetch(h, req[h].sid)
  /\ req' = [req EXCEPT ![h].at = "wait"]
  /\ UNCHANGED <<rowVars, diskVars, teamVars, w, taskVars, histVars>>

MoveLock(h) ==
  /\ Acting(h, "move", "wait")
  /\ \/ Acquire(h) /\ req' = [req EXCEPT ![h].at = "update"]
     \/ ~Free(h) /\ LetGo(h) /\ Respond(h) /\ UNCHANGED lock
  /\ UNCHANGED <<rowVars, diskVars, teamVars, w, taskVars, histVars>>

MoveUpdate(h) ==
  LET r == req[h]
      s == r.sid
  IN /\ Acting(h, "move", "update")
     /\ IF RowExists(s) /\ MayMove(s, r.src)
        THEN /\ team' = [team EXCEPT ![s] = r.dest]
             /\ misled' = (misled \/ (h \in late /\ OnIt(s)))
             /\ IF r.publish THEN req' = [req EXCEPT ![h].at = "publish"] ELSE Respond(h)
        ELSE UNCHANGED <<team, misled>> /\ Respond(h)
     /\ Release(h)
     /\ UNCHANGED <<status, syncOn, personal, autoLabel, syncErr, createdAt, diskVars,
                    teamVars, w, taskVars, asked, labelled, learned>>

MovePublish(h) ==
  LET s == req[h].sid
  IN /\ Acting(h, "move", "publish")
     /\ syncOn' = IF RowExists(s) THEN [syncOn EXCEPT ![s] = TRUE] ELSE syncOn
     /\ asked' = asked \cup {s}
     /\ Enqueue("sync", s, NoMap, FALSE)
     /\ Respond(h)
     /\ UNCHANGED <<status, team, personal, autoLabel, syncErr, createdAt, diskVars,
                    teamVars, w, lockVars, labelled, learned, misled>>

\* share_with_team: the uploader lifts the personal flag.
ShareCheck(h, s) ==
  /\ personal[s]
  /\ Accept(h, Request("share", s))

ShareAct(h) ==
  LET s == req[h].sid
  IN /\ Acting(h, "share", "act")
     /\ personal' = IF RowExists(s) THEN [personal EXCEPT ![s] = FALSE] ELSE personal
     /\ Respond(h)
     /\ UNCHANGED <<status, team, syncOn, autoLabel, syncErr, createdAt,
                    diskVars, teamVars, w, taskVars, lockVars, histVars>>

\* queue.delete_session: the rows in one transaction, then the directories.
\* Nothing asks whether the worker is on the session.
DeleteCheck(h, s) == Accept(h, Request("delete", s))

DeleteRow(h) ==
  LET s == req[h].sid
  IN /\ Acting(h, "delete", "act")
     /\ IF RowExists(s)
        THEN /\ status' = [status EXCEPT ![s] = "gone"]
             /\ req' = [req EXCEPT ![h].at = "purge"]
        ELSE /\ UNCHANGED status
             /\ Respond(h)
     /\ UNCHANGED <<team, syncOn, personal, autoLabel, syncErr, createdAt,
                    diskVars, teamVars, w, taskVars, lockVars, histVars>>

DeleteFiles(h) ==
  LET s == req[h].sid
  IN /\ Acting(h, "delete", "purge")
     /\ audio' = [audio EXCEPT ![s] = FALSE]
     /\ transcript' = [transcript EXCEPT ![s] = "none"]
     /\ Respond(h)
     /\ UNCHANGED <<rowVars, teamVars, w, taskVars, lockVars, histVars>>

\* queue.set_job_team, from the admin's `vezir session move` in a process of
\* its own: it asks neither for the status nor for the lock.
AdminMove(s, dest) ==
  /\ "admin_move" \in Ops
  /\ RowExists(s)
  /\ dest \notin dissolved \cup {team[s]}
  /\ team' = [team EXCEPT ![s] = dest]
  /\ misled' = (misled \/ OnIt(s))
  /\ UNCHANGED <<status, syncOn, personal, autoLabel, syncErr, createdAt,
                 diskVars, teamVars, w, taskVars, lockVars, req, asked, labelled, learned>>

\* queue.delete_team with reassign_to: one UPDATE of all the team's rows, busy or not.
DeleteTeam(t, dest) ==
  LET moved == {s \in Sessions : RowExists(s) /\ team[s] = t} IN
  /\ "delete_team" \in Ops
  /\ t \notin dissolved /\ dest \notin dissolved \cup {t}
  /\ team' = [s \in Sessions |-> IF s \in moved THEN dest ELSE team[s]]
  /\ dissolved' = dissolved \cup {t}
  /\ misled' = (misled \/ \E s \in moved : OnIt(s))
  /\ UNCHANGED <<status, syncOn, personal, autoLabel, syncErr, createdAt,
                 diskVars, repo, w, taskVars, lockVars, req, asked, labelled, learned>>

-----------------------------------------------------------------------------

Arrivals ==
  \E s \in Sessions, t \in Teams :
    \/ \E wanted, private, auto \in BOOLEAN : Upload(s, t, wanted, private, auto)
    \/ \E withAudio \in BOOLEAN, tr \in {"empty", "raw", "named"} : Import(s, t, withAudio, tr)

Requests ==
  \E h \in Handlers, s \in Sessions :
    \/ SyncNowCheck(h, s)
    \/ RetryCheck(h, s)
    \/ \E publish \in BOOLEAN : AutoLabelCheck(h, s, publish)
    \/ \E m \in LabelMaps \cup {NoMap} : LabelCheck(h, s, m)
    \/ \E dest \in Teams, wantSync \in BOOLEAN : MoveCheck(h, s, dest, wantSync)
    \/ ShareCheck(h, s)
    \/ DeleteCheck(h, s)

Act(h) ==
  \/ SyncNowAct(h)
  \/ TaskAct(h)
  \/ LabelFetch(h)
  \/ LabelLock(h)
  \/ \E tr \in {"empty", "raw", "named"} : LabelApply(h, tr)
  \/ LabelApplyFails(h)
  \/ LabelFinish(h)
  \/ MoveFetch(h)
  \/ MoveLock(h)
  \/ MoveUpdate(h)
  \/ MovePublish(h)
  \/ ShareAct(h)
  \/ DeleteRow(h)
  \/ DeleteFiles(h)

\* The steps of the worker thread after it has started.
Worker ==
  \/ RequeueOrphans
  \/ TakeTask
  \/ TasksDrained
  \/ \E s \in Sessions : Claim(s)
  \/ NothingToClaim
  \/ TranscribeOk
  \/ \E tr \in {"none", "empty", "raw", "named"} :
       TranscribeSummaryFailed(tr) \/ TranscribeFailed(tr)
  \/ \E tr \in {"none", "empty", "raw", "named"} : LabelAndRoute(tr)
  \/ \E pushed, ok \in BOOLEAN : Push(pushed, ok)
  \/ DropAudio
  \/ Finish
  \/ Cleanup
  \/ Untrack
  \/ StartOnMissingRow
  \/ StartSync
  \/ StartFinalize
  \/ LearnAndFinalize
  \/ StartRetry
  \/ SummaryDone
  \/ SummaryFailed
  \/ StartAutoLabel
  \/ \E tr \in {"none", "empty", "raw", "named"} : AutoLabelAndRoute(tr)

Next ==
  \/ Arrivals
  \/ Requests
  \/ \E h \in Handlers : Act(h)
  \/ \E s \in Sessions, dest \in Teams : AdminMove(s, dest)
  \/ \E t, dest \in Teams : DeleteTeam(t, dest)
  \/ Boot
  \/ Worker
  \/ Raise
  \/ RaiseInAutoLabel
  \/ Crash

Spec == Init /\ [][Next]_vars

\* Threads the operating system keeps running: the worker, and a request
\* that was accepted.  Clients, faults and restarts are not fair.
FairSpec == Spec /\ WF_vars(Worker) /\ \A h \in Handlers : WF_vars(Act(h))

=============================================================================
