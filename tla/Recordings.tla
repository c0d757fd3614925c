------------------------------- MODULE Recordings -------------------------------
(***************************************************************************)
(* The recordings of one machine between the microphone and the server:    *)
(* folders with an upload journal and a link to the session                *)
(* (client/upload_journal.py, pull.py), the scan that lists what has not   *)
(* reached the server (local.py, recovery.py), attachments                 *)
(* (attachments.py) and the uploads: the Record tab's worker, the salvage  *)
(* behind the Outbox and `vezir local upload`, and `vezir scribe`.  Any of *)
(* the processes may be killed at any time.                                *)
(***************************************************************************)
EXTENDS Naturals, Sequences

CONSTANTS
  Recs,      \* recordings, each a folder with a name of its own
  Teams,
  Jobs,      \* uploads that may be in progress at once
  Attached,  \* recordings whose user puts a file in the staging folder
  Ops,       \* what the user does
  Faults,    \* what goes wrong
  MaxSent,   \* bound: sessions made of one recording
  Trash, None

AllOps == {"import", "outbox", "cli", "scribe", "retry", "double"}
AllFaults == {"crash", "recorder", "start", "stop", "compress", "reject", "expired",
              "lost", "attach"}

ASSUME RecordingsAssumption ==
  /\ {Trash, None} \cap (Recs \cup Teams \cup Jobs) = {}
  /\ Trash # None
  /\ Attached \subseteq Recs
  /\ Ops \subseteq AllOps
  /\ Faults \subseteq AllFaults
  /\ MaxSent \in Nat \ {0}

VARIABLES
  disk,    \* the folder of each recording
  capt,    \* the recordings that a recorder process is writing
  owner,   \* the live process that started a recording, or None
  job,     \* the uploads
  sent,    \* the sessions the server made of a recording: its team, the reviewed one
  staged,  \* the meetings whose attachments are in the staging folder
  got      \* the meetings whose attachments the server keeps with a recording

diskVars == <<disk, capt, owner, job, sent, staged, got>>

\* home: the team whose root the folder is in; audio "open": chunks nobody has
\* stitched; jr, jt: the journal's status and team; held: pending_attachments;
\* kept: what lies in attachments/; mt: vezir_team of the recorder's metadata;
\* stub: session.json exists.
NoFolder == [home |-> None, audio |-> "none", jr |-> "none", jt |-> None, mt |-> None,
             held |-> FALSE, kept |-> {}, stub |-> FALSE]

\* home: where the job believes the folder to be; state, was: what the row said
\* when the job was asked for; chosen: the team of the recording's own review.
Free == [at |-> "free", by |-> None, rec |-> None, home |-> None, team |-> None,
         state |-> "none", was |-> None, chosen |-> None, gen |-> 0]

DiskInit ==
  /\ disk = [r \in Recs |-> NoFolder]
  /\ capt = {}
  /\ owner = [r \in Recs |-> None]
  /\ job = [j \in Jobs |-> Free]
  /\ sent = [r \in Recs |-> <<>>]
  /\ staged = {}
  /\ got = [r \in Recs |-> {}]

-----------------------------------------------------------------------------
(* What the scan makes of a folder.                                        *)

\* Chunks whose owner is gone: is somebody still writing them?
Salvageable(r) == IF r \in capt THEN "orphaned" ELSE "interrupted"

StateOf(r) ==
  LET d == disk[r] IN
  IF d.home \notin Teams \/ d.audio = "none" THEN "absent"
  ELSE IF d.audio = "open" /\ owner[r] # None THEN "in-progress"
  ELSE IF d.audio = "open" /\ Salvageable(r) = "interrupted" /\ d.jr = "held" THEN "held"
  ELSE IF d.audio = "open" THEN Salvageable(r)
  ELSE IF d.stub \/ d.jr = "done" THEN "uploaded"
  ELSE IF d.jr = "recording" THEN "pending"
  ELSE IF d.jr \in {"held", "failed", "uploading", "pending"} THEN d.jr
  ELSE "local-only"

OutboxStates ==
  {"in-progress", "orphaned", "interrupted", "failed", "uploading", "pending", "held"}

ResolveTeam(r) ==
  LET d == disk[r] IN
  IF d.jt # None THEN d.jt ELSE IF d.mt # None THEN d.mt ELSE d.home

\* A row of the Outbox, or of `vezir local list`.
Row(r) == [rec |-> r, home |-> disk[r].home, state |-> StateOf(r), team |-> ResolveTeam(r)]

-----------------------------------------------------------------------------
(* The journal and the folder.                                             *)

Mark(d, status) == IF d.jr = "none" THEN d ELSE [d EXCEPT !.jr = status]
SetTeam(d, team) == IF d.jr = "none" THEN d ELSE [d EXCEPT !.jt = team]
MarkPending(d, team) == [d EXCEPT !.jr = "pending", !.jt = team]
MarkHeld(d, team, att) == [d EXCEPT !.jr = "held", !.jt = team, !.held = att]
Park(d) == [d EXCEPT !.kept = @ \cup staged]

\* move_session_dir: nothing to rewrite where the folder is already there.
Rehome(d, team) ==
  IF d.home = team THEN d ELSE [SetTeam([d EXCEPT !.home = team], team) EXCEPT !.mt = team]

\* A path remembered from before a move or a discard finds nothing: a rename
\* fails, a journal entry is not written.
Finds(r, home) == disk[r].home = home
Write(r, home, D) == disk' = IF Finds(r, home) THEN [disk EXCEPT ![r] = D] ELSE disk

-----------------------------------------------------------------------------
(* Uploads.                                                                *)

Goto(j, at) == job' = [job EXCEPT ![j].at = at]
On(j) == disk[job[j].rec]
WriteJob(j, D) == Write(job[j].rec, job[j].home, D)
There(j) == Finds(job[j].rec, job[j].home)

\* The Record tab is told by a message; the others return or exit.
Finish(j, how) == job' = [job EXCEPT ![j] = IF @.by = "tab" THEN [@ EXCEPT !.at = how] ELSE Free]

StartJob(by, row, team, chosen, gen) ==
  \E j \in Jobs :
    /\ job[j] = Free
    /\ job' = [job EXCEPT ![j] =
         [at |-> IF by \in {"tab", "scribe"} THEN "compress" ELSE "stop", by |-> by,
          rec |-> row.rec, home |-> row.home, team |-> team, state |-> row.state,
          was |-> row.team, chosen |-> chosen, gen |-> gen]]

\* salvage: a recorder without an owner is stopped first ...
StopOrphan(j) ==
  /\ job[j].at = "stop"
  /\ capt' = IF job[j].state = "orphaned" THEN capt \ {job[j].rec} ELSE capt
  /\ Goto(j, "move")
  /\ UNCHANGED <<disk, owner, sent, staged, got>>

StopTimesOut(j) ==
  /\ "stop" \in Faults
  /\ job[j].at = "stop" /\ job[j].state = "orphaned" /\ job[j].rec \in capt
  /\ Finish(j, "failed")
  /\ UNCHANGED <<disk, capt, owner, sent, staged, got>>

\* ... then the folder is moved if the row showed another team ...
MoveFirst(j) ==
  /\ job[j].at = "move"
  /\ IF job[j].team = job[j].was
     THEN Goto(j, "stitch") /\ UNCHANGED disk
     ELSE IF There(j)
     THEN /\ disk' = [disk EXCEPT ![job[j].rec] = Rehome(@, job[j].team)]
          /\ job' = [job EXCEPT ![j].at = "stitch", ![j].home = job[j].team]
     ELSE Finish(j, "failed") /\ UNCHANGED disk
  /\ UNCHANGED <<capt, owner, sent, staged, got>>

\* ... stitched, and journaled as pending.
Stitch(j) ==
  /\ job[j].at = "stitch"
  /\ IF There(j)
     THEN /\ WriteJob(j, MarkPending([On(j) EXCEPT !.audio = IF @ = "open" THEN "wav" ELSE @],
                                     job[j].team))
          /\ Goto(j, "compress")
     ELSE Finish(j, "failed") /\ UNCHANGED disk
  /\ UNCHANGED <<capt, owner, sent, staged, got>>

Compress(j) ==
  /\ job[j].at = "compress" /\ There(j)
  /\ WriteJob(j, Mark([On(j) EXCEPT !.audio = "ogg"], "uploading"))
  /\ Goto(j, "send")
  /\ UNCHANGED <<capt, owner, sent, staged, got>>

\* An error of ffmpeg; scribe has no handler for it and leaves the journal pending.
CompressFails(j) ==
  /\ job[j].at = "compress"
  /\ ~There(j) \/ ("compress" \in Faults /\ On(j).audio = "wav")
  /\ IF job[j].by = "scribe" THEN UNCHANGED disk ELSE WriteJob(j, Mark(On(j), "failed"))
  /\ Finish(j, "failed")
  /\ UNCHANGED <<capt, owner, sent, staged, got>>

\* The server enqueues the session; the answer is on its way.
Accept(j) ==
  /\ job[j].at = "send" /\ There(j)
  /\ Len(sent[job[j].rec]) < MaxSent
  /\ sent' = [sent EXCEPT ![job[j].rec] = Append(@, [to |-> job[j].team, chosen |-> job[j].chosen])]
  /\ Goto(j, "answer")
  /\ UNCHANGED <<disk, capt, owner, staged, got>>

\* No server, no audio, an expired session, or an answer that never came.
UploadFails(j, how) ==
  /\ \/ job[j].at = "send" /\ (how \in Faults \cap {"reject", "expired"} \/ ~There(j))
     \/ job[j].at = "answer" /\ how = "lost" /\ how \in Faults
  /\ WriteJob(j, Mark(On(j), "failed"))
  /\ Finish(j, IF how = "expired" /\ There(j) THEN "expired" ELSE "failed")
  /\ UNCHANGED <<capt, owner, sent, staged, got>>

\* mark_done and the link to the session.
Link(j) ==
  /\ job[j].at = "answer"
  /\ WriteJob(j, [Mark(On(j), "done") EXCEPT !.stub = TRUE])
  /\ Goto(j, "attach")
  /\ UNCHANGED <<capt, owner, sent, staged, got>>

\* A salvage sends what was parked with the recording, the others what is staged.
SendAttachments(j) ==
  /\ job[j].at = "attach"
  /\ LET r == job[j].rec
         parked == job[j].by \in {"box", "cli"}
         files == IF ~parked THEN staged ELSE IF On(j).held THEN On(j).kept ELSE {}
     IN /\ got' = [got EXCEPT ![r] = @ \cup files]
        /\ staged' = IF parked THEN staged ELSE {}
        /\ WriteJob(j, IF parked THEN [On(j) EXCEPT !.held = FALSE] ELSE Park(On(j)))
  /\ Finish(j, "finished")
  /\ UNCHANGED <<capt, owner, sent>>

AttachmentsFail(j) ==
  /\ "attach" \in Faults
  /\ job[j].at = "attach"
  /\ Finish(j, "finished")
  /\ UNCHANGED <<disk, capt, owner, sent, staged, got>>

-----------------------------------------------------------------------------
(* vezir local upload, move and discard, each a process of its own.        *)

LocalUpload(r, team) ==
  /\ "cli" \in Ops
  /\ StateOf(r) \notin {"absent", "in-progress", "uploaded"}
  /\ StartJob("cli", Row(r), team, team, 0)
  /\ UNCHANGED <<disk, capt, owner, sent, staged, got>>

\* Mutant: a folder whose recorder is alive may be moved.
MovableOrphan(state) == state \notin {"absent", "in-progress", "uploaded"}

Movable(state) == state \notin {"absent", "in-progress", "orphaned", "uploaded"}

LocalMove(r, team) ==
  /\ "cli" \in Ops
  /\ Movable(StateOf(r)) /\ team # ResolveTeam(r)
  /\ disk' = [disk EXCEPT ![r] = Rehome(@, team)]
  /\ UNCHANGED <<capt, owner, job, sent, staged, got>>

Discardable(state) == state \notin {"absent", "in-progress", "orphaned"}

LocalDiscard(r) ==
  /\ "cli" \in Ops
  /\ Discardable(StateOf(r))
  /\ disk' = [disk EXCEPT ![r].home = Trash]
  /\ UNCHANGED <<capt, owner, job, sent, staged, got>>

-----------------------------------------------------------------------------
(* vezir scribe: records and uploads without a screen, or a journal until the *)
(* recording is over.  The library allows one recorder at a time.          *)

ScribeStart(r, team) ==
  /\ "scribe" \in Ops
  /\ disk[r] = NoFolder /\ capt = {} /\ \A q \in Recs : owner[q] # "scribe"
  /\ disk' = [disk EXCEPT ![r] = [NoFolder EXCEPT !.home = team, !.audio = "open"]]
  /\ capt' = {r}
  /\ owner' = [owner EXCEPT ![r] = "scribe"]
  /\ UNCHANGED <<job, sent, staged, got>>

ScribeStop(r) ==
  /\ owner[r] = "scribe" /\ disk[r].audio = "open"
  /\ disk' = [disk EXCEPT ![r].audio = "wav"]
  /\ capt' = capt \ {r}
  /\ UNCHANGED <<owner, job, sent, staged, got>>

ScribeUpload(r) ==
  /\ owner[r] = "scribe" /\ disk[r].audio = "wav" /\ disk[r].jr = "none"
  /\ StartJob("scribe", Row(r), disk[r].home, disk[r].home, 0)
  /\ disk' = [disk EXCEPT ![r] = MarkPending(@, disk[r].home)]
  /\ owner' = [owner EXCEPT ![r] = None]
  /\ UNCHANGED <<capt, sent, staged, got>>

-----------------------------------------------------------------------------
(* The kill of a process: what it was uploading stops where it is, and the  *)
(* recorder it started may live on.                                        *)

Processes == {"tui", "cli", "scribe"}
Runs(by) == IF by \in {"tab", "box"} THEN "tui" ELSE by

Killed(p) ==
  /\ job' = [j \in Jobs |-> IF job[j] # Free /\ Runs(job[j].by) = p THEN Free ELSE job[j]]
  /\ owner' = [r \in Recs |-> IF owner[r] = p THEN None ELSE owner[r]]
  /\ capt' \in {capt, {r \in capt : owner[r] # p}}
  /\ disk' \in {disk} \cup
       \* between the rename and the rewrite of the journal
       {[disk EXCEPT ![job[j].rec].home = job[j].team] :
          j \in {i \in Jobs : job[i].at = "move" /\ job[i].team # job[i].was
                              /\ Runs(job[i].by) = p /\ There(i)}}
  /\ UNCHANGED <<sent, staged, got>>
==================================================================================
