------------------------------ MODULE RecordScreen ------------------------------
(***************************************************************************)
(* The terminal interface around a recording: the Record tab with its      *)
(* threads (client/tui/record_screen.py), the upload review                *)
(* (review_screen.py), the sign-in that retries an upload                  *)
(* (reauth_screen.py) and the Outbox (outbox_screen.py), over Recordings.  *)
(*                                                                         *)
(* Threads talk to the tab by messages that carry the number of the        *)
(* recording they were started for; the tab drops those of an older one.   *)
(* What the user looks at is a stack of modal screens over the tabs.       *)
(***************************************************************************)
EXTENDS Recordings

CONSTANT MaxBegun  \* bound: see left

ASSUME MaxBegunAssumption == MaxBegun \in Nat

VARIABLES
  tab,     \* the Record tab
  rt,      \* the recorder thread of a recording, and its last message
  born,    \* the number a recording was started under
  modals,  \* the screens on top of the tabs, the last one is in front
  left     \* bound: what the user may begin, and what may break

vars == <<disk, capt, owner, job, sent, staged, got, tab, rt, born, modals, left>>

\* ses: _session; rec: is_recording; ups: is_uploading; dest: _dest_team;
\* last: the row behind _last_audio_path; rev: the team of _last_review;
\* pend: _pending_reauth_upload.
Opened == [ses |-> None, rec |-> FALSE, ups |-> FALSE, gen |-> 0,
           dest |-> None, rev |-> None, pend |-> None]

RecordInit ==
  /\ DiskInit
  /\ \E t \in Teams : tab = [Opened EXCEPT !.dest = t]
  /\ rt = [r \in Recs |-> "none"]
  /\ born = [r \in Recs |-> 0]
  /\ modals = <<>>
  /\ left = MaxBegun

AtTabs == modals = <<>>
Front == modals[Len(modals)]
Beneath == SubSeq(modals, 1, Len(modals) - 1)
Show(screen) == modals' = Append(modals, screen)

Review(row, from) == [kind |-> "review", row |-> row, from |-> from]
Reauth(row) == [kind |-> "reauth", row |-> row, from |-> "tab"]

Heard(gen) == gen >= tab.gen
Thread(r, from, to) == rt[r] = from /\ rt' = [rt EXCEPT ![r] = to]

-----------------------------------------------------------------------------
(* Recording.                                                              *)

\* The team selector, or the app-wide team that it follows when idle.
SetDestination(t) ==
  /\ AtTabs /\ t # tab.dest
  /\ tab' = [tab EXCEPT !.dest = t]
  /\ disk' = IF tab.rec /\ tab.ses # None
             THEN [disk EXCEPT ![tab.ses] = SetTeam(@, t)] ELSE disk
  /\ UNCHANGED <<capt, owner, job, sent, staged, got, rt, born, modals>>

\* Mutant: the destination is not journaled until the recording is over.
StartRecordingUnjournaled(r) ==
  /\ AtTabs /\ ~tab.rec
  /\ disk[r] = NoFolder
  /\ "double" \in Ops \/ \A q \in Recs : rt[q] \notin {"starting", "begun"}
  /\ disk' = [disk EXCEPT ![r] =
                [NoFolder EXCEPT !.home = tab.dest]]
  /\ tab' = [tab EXCEPT !.ses = r, !.gen = @ + 1]
  /\ Thread(r, "none", "starting")
  /\ born' = [born EXCEPT ![r] = tab.gen + 1]
  /\ UNCHANGED <<capt, owner, job, sent, staged, got, modals>>

\* Record is pressed.  The flag that says so comes back with a message.
StartRecording(r) ==
  /\ AtTabs /\ ~tab.rec
  /\ disk[r] = NoFolder
  /\ "double" \in Ops \/ \A q \in Recs : rt[q] \notin {"starting", "begun"}
  /\ disk' = [disk EXCEPT ![r] =
                [NoFolder EXCEPT !.home = tab.dest, !.jr = "recording", !.jt = tab.dest]]
  /\ tab' = [tab EXCEPT !.ses = r, !.gen = @ + 1]
  /\ Thread(r, "none", "starting")
  /\ born' = [born EXCEPT ![r] = tab.gen + 1]
  /\ UNCHANGED <<capt, owner, job, sent, staged, got, modals>>

\* The recording lock of the library admits one recorder on the machine.
RecorderStarts(r) ==
  /\ capt = {}
  /\ Thread(r, "starting", "begun")
  /\ capt' = {r}
  /\ disk' = [disk EXCEPT ![r].audio = "open"]
  /\ owner' = [owner EXCEPT ![r] = "tui"]
  /\ UNCHANGED <<job, sent, staged, got, tab, born, modals>>

RecorderRefuses(r) ==
  /\ capt # {} \/ "start" \in Faults
  /\ Thread(r, "starting", "failed")
  /\ UNCHANGED <<diskVars, tab, born, modals>>

OnRecording(r) ==
  /\ Thread(r, "begun", "ticking")
  /\ tab' = IF Heard(born[r]) THEN [tab EXCEPT !.rec = TRUE] ELSE tab
  /\ UNCHANGED <<diskVars, born, modals>>

RecorderDies(r) ==
  /\ "recorder" \in Faults
  /\ Thread(r, "ticking", "failed")
  /\ capt' = capt \ {r}
  /\ UNCHANGED <<disk, owner, job, sent, staged, got, tab, born, modals>>

OnRecorderFailed(r) ==
  /\ Thread(r, "failed", "gone")
  /\ tab' = IF Heard(born[r]) THEN [tab EXCEPT !.rec = FALSE] ELSE tab
  /\ UNCHANGED <<diskVars, born, modals>>

\* Record is pressed again.
StopRecording ==
  /\ AtTabs /\ tab.rec /\ tab.ses # None
  /\ Thread(tab.ses, "ticking", "stopping")
  /\ UNCHANGED <<diskVars, tab, born, modals>>

Stops(r, ok) ==
  /\ ok \/ "recorder" \in Faults
  /\ Thread(r, "stopping", IF ok THEN "finished" ELSE "failed")
  /\ capt' = capt \ {r}
  /\ disk' = IF ok THEN [disk EXCEPT ![r].audio = "wav"] ELSE disk
  /\ UNCHANGED <<owner, job, sent, staged, got, tab, born, modals>>

\* The recording is journaled as pending before its review is opened.
OnRecorderFinished(r) ==
  /\ Thread(r, "finished", "gone")
  /\ IF Heard(born[r])
     THEN /\ tab' = [tab EXCEPT !.rec = FALSE, !.ses = None]
          /\ disk' = [disk EXCEPT ![r] = MarkPending(@, tab.dest)]
          /\ Show(Review([rec |-> r, home |-> disk[r].home, state |-> "pending",
                          team |-> tab.dest], "tab"))
     ELSE UNCHANGED <<tab, disk, modals>>
  /\ UNCHANGED <<capt, owner, job, sent, staged, got, born>>

\* The user drops a file into the staging folder during the meeting.
StageFile(r) ==
  /\ r \in Attached /\ AtTabs /\ tab.rec /\ tab.ses = r
  /\ r \notin staged
  /\ staged' = staged \cup {r}
  /\ UNCHANGED <<disk, capt, owner, job, sent, got, tab, rt, born, modals>>

-----------------------------------------------------------------------------
(* The review of an upload, and the upload.                                *)

\* _kick_upload: the review is remembered, the journal says pending.
Kick(row, team, D) ==
  /\ tab' = [tab EXCEPT !.rev = team, !.ups = TRUE]
  /\ disk' = IF Finds(row.rec, row.home)
             THEN [disk EXCEPT ![row.rec] = MarkPending(D, team)] ELSE disk
  /\ StartJob("tab", IF Finds(row.rec, row.home) THEN [row EXCEPT !.home = D.home] ELSE row,
              team, team, tab.gen)

\* A finished recording is moved under the reviewed team first.
ReviewUpload(team) ==
  /\ ~AtTabs /\ Front.kind = "review" /\ Front.from \in {"tab", "import"}
  /\ LET row == Front.row IN
     /\ Kick(row, team, IF Front.from = "tab" THEN Rehome(disk[row.rec], team)
                        ELSE disk[row.rec])
  /\ modals' = Beneath
  /\ UNCHANGED <<capt, owner, sent, staged, got, rt, born>>

ReviewHold(team) ==
  /\ ~AtTabs /\ Front.kind = "review" /\ Front.from = "tab"
  /\ LET row == Front.row IN
     Write(row.rec, row.home,
           MarkHeld(Park(Rehome(disk[row.rec], team)), team, staged # {}))
  /\ staged' = {}
  /\ modals' = Beneath
  /\ UNCHANGED <<capt, owner, job, sent, got, tab, rt, born>>

\* Escape on a review, a sign-in, a team list or a confirmation.
Dismiss ==
  /\ ~AtTabs
  /\ modals' = Beneath
  /\ UNCHANGED <<diskVars, tab, rt, born>>

ImportFile(r) ==
  /\ "import" \in Ops
  /\ AtTabs /\ ~tab.ups /\ ~tab.rec
  /\ disk[r].home \in Teams /\ disk[r].audio \in {"wav", "ogg"}
  /\ Show(Review([Row(r) EXCEPT !.team = tab.dest], "import"))
  /\ UNCHANGED <<diskVars, tab, rt, born>>

TakeMessage(j, at) == job[j].at = at /\ job' = [job EXCEPT ![j] = Free]

OnUploadFinished(j) ==
  /\ TakeMessage(j, "finished")
  /\ tab' = IF Heard(job[j].gen) THEN [tab EXCEPT !.ups = FALSE] ELSE tab
  /\ UNCHANGED <<disk, capt, owner, sent, staged, got, rt, born, modals>>

OnUploadFailed(j) ==
  /\ TakeMessage(j, "failed")
  /\ tab' = IF Heard(job[j].gen) THEN [tab EXCEPT !.ups = FALSE] ELSE tab
  /\ UNCHANGED <<disk, capt, owner, sent, staged, got, rt, born, modals>>

Uploading(j) == [rec |-> job[j].rec, home |-> job[j].home, state |-> "failed", team |-> job[j].chosen]

\* The session has expired: the upload is kept for after the sign-in.
OnUploadExpired(j) ==
  /\ TakeMessage(j, "expired")
  /\ IF Heard(job[j].gen)
     THEN /\ tab' = [tab EXCEPT !.ups = FALSE, !.pend = Uploading(j)]
          /\ Show(Reauth(Uploading(j)))
     ELSE UNCHANGED <<tab, modals>>
  /\ UNCHANGED <<disk, capt, owner, sent, staged, got, rt, born>>

\* ^g: sign in again, and retry what is pending.
ActionReauth ==
  /\ "retry" \in Ops
  /\ AtTabs /\ tab.pend # None
  /\ Show(Reauth(tab.pend))
  /\ UNCHANGED <<diskVars, tab, rt, born>>

\* The retry uses the review of whatever was uploaded last.
SignedIn ==
  /\ ~AtTabs /\ Front.kind = "reauth"
  /\ LET row == Front.row
     IN /\ tab' = [tab EXCEPT !.pend = None, !.ups = TRUE]
        /\ disk' = IF Finds(row.rec, row.home)
                   THEN [disk EXCEPT ![row.rec] = MarkPending(@, tab.rev)] ELSE disk
        /\ StartJob("tab", row, tab.rev, row.team, tab.gen)
  /\ modals' = Beneath
  /\ UNCHANGED <<capt, owner, sent, staged, got, rt, born>>

-----------------------------------------------------------------------------
(* The Outbox.  Its screens keep the row they were opened on.              *)

Busy(r) == \E j \in Jobs : job[j].by = "box" /\ job[j].rec = r

Actionable(r, verb) ==
  /\ "outbox" \in Ops /\ AtTabs
  /\ StateOf(r) \notin {"absent", "in-progress"}
  /\ ~Busy(r)
  /\ StateOf(r) = "uploaded" => verb = "discard"
  /\ StateOf(r) = "orphaned" => verb \in {"review", "move"}

BoxOpen(r, verb) ==
  /\ Actionable(r, verb)
  /\ Show([kind |-> verb, row |-> Row(r), from |-> "box"])
  /\ UNCHANGED <<diskVars, tab, rt, born>>

BoxUpload(team) ==
  /\ ~AtTabs /\ Front.kind = "review" /\ Front.from = "box"
  /\ StartJob("box", Front.row, team, team, 0)
  /\ modals' = Beneath
  /\ UNCHANGED <<disk, capt, owner, sent, staged, got, tab, rt, born>>

\* The attachments parked with it stay announced.
BoxHold(team) ==
  /\ ~AtTabs /\ Front.kind = "review" /\ Front.from = "box"
  /\ LET row == Front.row
         d == disk[row.rec]
     IN IF row.state = "orphaned" \/ (team # row.team /\ ~Movable(row.state))
        THEN UNCHANGED disk
        ELSE Write(row.rec, row.home,
                   MarkHeld(IF team = row.team THEN d ELSE Rehome(d, team), team, d.held))
  /\ modals' = Beneath
  /\ UNCHANGED <<capt, owner, job, sent, staged, got, tab, rt, born>>

BoxMove(team) ==
  /\ ~AtTabs /\ Front.kind = "move" /\ team # Front.row.team
  /\ LET row == Front.row IN
     IF Movable(row.state) THEN Write(row.rec, row.home, Rehome(disk[row.rec], team))
     ELSE UNCHANGED disk
  /\ modals' = Beneath
  /\ UNCHANGED <<capt, owner, job, sent, staged, got, tab, rt, born>>

BoxDiscard ==
  /\ ~AtTabs /\ Front.kind = "discard"
  /\ LET row == Front.row IN Write(row.rec, row.home, [disk[row.rec] EXCEPT !.home = Trash])
  /\ modals' = Beneath
  /\ UNCHANGED <<capt, owner, job, sent, staged, got, tab, rt, born>>

-----------------------------------------------------------------------------
\* The interface is killed or left, and started again.
Kill ==
  /\ "crash" \in Faults
  /\ Killed("tui")
  /\ tab' = [Opened EXCEPT !.dest = tab.dest, !.gen = tab.gen]
  /\ rt' = [r \in Recs |-> IF rt[r] = "none" THEN "none" ELSE "gone"]
  /\ modals' = <<>>
  /\ UNCHANGED born

KillOther(p) ==
  /\ "crash" \in Faults
  /\ Killed(p)
  /\ UNCHANGED <<tab, rt, born, modals>>

Still == UNCHANGED left
Spend == left > 0 /\ left' = left - 1
NoScreen == UNCHANGED <<tab, rt, born, modals>>

\* What the threads and jobs do.
Threads ==
  \/ \E j \in Jobs : StopOrphan(j) /\ NoScreen /\ Still
  \/ \E j \in Jobs : StopTimesOut(j) /\ NoScreen /\ Still
  \/ \E j \in Jobs : MoveFirst(j) /\ NoScreen /\ Still
  \/ \E j \in Jobs : Stitch(j) /\ NoScreen /\ Still
  \/ \E j \in Jobs : Compress(j) /\ NoScreen /\ Still
  \/ \E j \in Jobs : CompressFails(j) /\ NoScreen /\ Still
  \/ \E j \in Jobs : Accept(j) /\ NoScreen /\ Still
  \/ \E j \in Jobs, how \in {"reject", "expired", "lost"} : UploadFails(j, how) /\ NoScreen /\ Still
  \/ \E j \in Jobs : Link(j) /\ NoScreen /\ Still
  \/ \E j \in Jobs : SendAttachments(j) /\ NoScreen /\ Still
  \/ \E j \in Jobs : AttachmentsFail(j) /\ NoScreen /\ Still
  \/ \E r \in Recs : RecorderStarts(r) /\ Still
  \/ \E r \in Recs : RecorderRefuses(r) /\ Still
  \/ \E r \in Recs : OnRecording(r) /\ Still
  \/ \E r \in Recs : OnRecorderFailed(r) /\ Still
  \/ \E r \in Recs, ok \in BOOLEAN : Stops(r, ok) /\ Still
  \/ \E r \in Recs : OnRecorderFinished(r) /\ Still
  \/ \E j \in Jobs : OnUploadFinished(j) /\ Still
  \/ \E j \in Jobs : OnUploadFailed(j) /\ Still
  \/ \E j \in Jobs : OnUploadExpired(j) /\ Still

\* What the user answers or ends.
Answers ==
  \/ \E t \in Teams : ReviewUpload(t) /\ Still
  \/ \E t \in Teams : ReviewHold(t) /\ Still
  \/ \E t \in Teams : BoxUpload(t) /\ Still
  \/ \E t \in Teams : BoxHold(t) /\ Still
  \/ \E t \in Teams : BoxMove(t) /\ Still
  \/ BoxDiscard /\ Still
  \/ StopRecording /\ Still
  \/ Dismiss /\ Still
  \/ SignedIn /\ Still
  \/ \E r \in Recs : ScribeStop(r) /\ NoScreen /\ Still
  \/ \E r \in Recs : ScribeUpload(r) /\ NoScreen /\ Still

\* What the user begins, on the screen or in a shell.
Begins ==
  \/ \E t \in Teams : SetDestination(t) /\ Spend
  \/ \E r \in Recs : StartRecording(r) /\ Spend
  \/ \E r \in Recs : StageFile(r) /\ Spend
  \/ \E r \in Recs : ImportFile(r) /\ Spend
  \/ \E r \in Recs, verb \in {"review", "move", "discard"} : BoxOpen(r, verb) /\ Spend
  \/ ActionReauth /\ Spend
  \/ \E r \in Recs, t \in Teams : LocalUpload(r, t) /\ NoScreen /\ Spend
  \/ \E r \in Recs, t \in Teams : LocalMove(r, t) /\ NoScreen /\ Spend
  \/ \E r \in Recs : LocalDiscard(r) /\ NoScreen /\ Spend
  \/ \E r \in Recs, t \in Teams : ScribeStart(r, t) /\ NoScreen /\ Spend

Breaks ==
  \/ Kill /\ Spend
  \/ \E p \in {"cli", "scribe"} : KillOther(p) /\ Spend
  \/ \E r \in Recs : RecorderDies(r) /\ Spend

RecordNext == Threads \/ Answers \/ Begins \/ Breaks

RecordSpec == RecordInit /\ [][RecordNext]_vars

-----------------------------------------------------------------------------
\* A recording with audio that the server does not have is on the Outbox,
\* whatever was killed, failed or moved, until the user discards it: no
\* journal entry runs ahead of what it reports.
UnsentIsShown ==
  \A r \in Recs :
    born[r] > 0 /\ disk[r].home \in Teams /\ disk[r].audio # "none" /\ sent[r] = <<>>
      => StateOf(r) \in OutboxStates

\* No folder is moved, trashed or renamed under a recorder that writes to it.
NotMovedWhileWritten ==
  [][\A r \in Recs : r \in capt /\ r \in capt' => disk'[r].home = disk[r].home]_vars

\* Every session the server makes of a recording is in the team that was chosen
\* in the review of this recording ("with the reviewed team/title/options").
UploadedAsReviewed ==
  \A r \in Recs : \A i \in 1..Len(sent[r]) : sent[r][i].to = sent[r][i].chosen
-----------------------------------------------------------------------------
(* Why nothing unsent is lost.                                             *)

Places == Teams \cup {Trash, None}
Folders == [home: Places, audio: {"none", "open", "wav", "ogg"},
            jr: {"none", "recording", "pending", "uploading", "failed", "held", "done"},
            jt: Places, mt: Places, held: BOOLEAN, kept: SUBSET Recs, stub: BOOLEAN]
States == OutboxStates \cup {"uploaded", "local-only", "absent"}
Listed == [rec: Recs, home: Places, state: States, team: Places]
Screens == [kind: {"review", "reauth", "move", "discard"}, row: Listed, from: {"tab", "import", "box"}]
Stages == {"free", "stop", "move", "stitch", "compress", "send", "answer", "attach",
           "finished", "failed", "expired"}
Askers == {"tab", "box", "cli", "scribe"}
Uploads == [at: Stages, by: Askers \cup {None}, rec: Recs \cup {None}, home: Places, team: Places,
            state: States \cup {"none"}, was: Places, chosen: Places, gen: Nat]
Tabs == [ses: Recs \cup {None}, rec: BOOLEAN, ups: BOOLEAN, gen: Nat, dest: Teams,
         rev: Places, pend: Listed \cup {None}]
RecorderStates == {"none", "starting", "begun", "ticking", "stopping", "finished", "failed", "gone"}

RecordTypeOK ==
  /\ disk \in [Recs -> Folders]
  /\ capt \subseteq Recs /\ owner \in [Recs -> Processes \cup {None}]
  /\ job \in [Jobs -> Uploads]
  /\ sent \in [Recs -> Seq([to: Places, chosen: Places])]
  /\ staged \subseteq Recs /\ got \in [Recs -> SUBSET Recs]
  /\ tab \in Tabs /\ rt \in [Recs -> RecorderStates]
  /\ born \in [Recs -> Nat]
  /\ modals \in Seq(Screens)
  /\ left \in Nat

\* A folder with audio keeps it; once its recorder is gone, none comes back.
Begun(r) == disk[r].audio # "none"
Settled(r) == Begun(r) /\ r \notin capt

RecordersAreSound ==
  \A r \in Recs :
    /\ r \in capt => disk[r].audio = "open"
    /\ rt[r] = "starting" => ~Begun(r) /\ born[r] > 0
    /\ rt[r] \in {"begun", "ticking", "stopping"} => Begun(r)
    /\ rt[r] = "finished" => Settled(r)

\* Only what was shown as orphaned may still have its recorder, until the upload stops it.
JobIsSound(k) ==
  k.at # "free" => /\ k.rec \in Recs /\ Begun(k.rec)
                   /\ k.at = "stop" => k.by # "tab"
                   /\ k.at # "stop" \/ k.state # "orphaned" => k.rec \notin capt
                   /\ k.at \in {"answer", "attach"} => sent[k.rec] # <<>>
JobsAreSound == \A j \in Jobs : JobIsSound(job[j])

RowIsSound(w) == Begun(w.rec) /\ (w.state # "orphaned" => w.rec \notin capt)
ScreenIsSound(m) ==
  /\ RowIsSound(m.row)
  /\ m.from # "box" \/ m.kind \in {"reauth", "discard"} => m.row.state # "orphaned"
ScreensAreSound ==
  /\ \A i \in 1..Len(modals) : ScreenIsSound(modals[i])
  /\ tab.pend # None => RowIsSound(tab.pend) /\ tab.pend.state # "orphaned"

\* The journal begins with the recording and says "done" of no unsent one.
JournalIsKept ==
  \A r \in Recs :
    /\ born[r] > 0 => disk[r].jr # "none"
    /\ sent[r] = <<>> => disk[r].jr # "done" /\ ~disk[r].stub

RecordInvariant ==
  RecordTypeOK /\ RecordersAreSound /\ JobsAreSound /\ ScreensAreSound /\ JournalIsKept
=================================================================================
