------------------------------ MODULE RecordProofs ------------------------------
(***************************************************************************)
(* Proofs about the recordings of one machine: what the server does not    *)
(* have stays on the Outbox, and no folder moves under its recorder.       *)
(***************************************************************************)
EXTENDS RecordScreen, TLAPS

(***************************************************************************)
(* What the writes of the journal and of the folder keep.                  *)
(***************************************************************************)

LEMMA NoFolderFacts ==
  /\ NoFolder \in Folders
  /\ NoFolder.audio = "none" /\ NoFolder.jr = "none" /\ ~NoFolder.stub
  BY DEF NoFolder, Folders, Places

LEMMA MarkFacts ==
  ASSUME NEW d \in Folders, NEW x \in {"uploading", "failed", "done"}
  PROVE  /\ Mark(d, x) \in Folders
         /\ Mark(d, x).audio = d.audio /\ Mark(d, x).stub = d.stub /\ Mark(d, x).home = d.home
         /\ Mark(d, x).jr = "none" <=> d.jr = "none"
         /\ Mark(d, x).jr \in {"none", x}
  BY DEF Mark, Folders

LEMMA SetTeamFacts ==
  ASSUME NEW d \in Folders, NEW t \in Places
  PROVE  /\ SetTeam(d, t) \in Folders
         /\ SetTeam(d, t).audio = d.audio /\ SetTeam(d, t).stub = d.stub
         /\ SetTeam(d, t).home = d.home /\ SetTeam(d, t).jr = d.jr
  BY DEF SetTeam, Folders

LEMMA MarkPendingFacts ==
  ASSUME NEW d \in Folders, NEW t \in Places
  PROVE  /\ MarkPending(d, t) \in Folders
         /\ MarkPending(d, t).audio = d.audio /\ MarkPending(d, t).stub = d.stub
         /\ MarkPending(d, t).home = d.home /\ MarkPending(d, t).jr = "pending"
  BY DEF MarkPending, Folders

LEMMA MarkHeldFacts ==
  ASSUME NEW d \in Folders, NEW t \in Places, NEW b \in BOOLEAN
  PROVE  /\ MarkHeld(d, t, b) \in Folders
         /\ MarkHeld(d, t, b).audio = d.audio /\ MarkHeld(d, t, b).stub = d.stub
         /\ MarkHeld(d, t, b).home = d.home /\ MarkHeld(d, t, b).jr = "held"
  BY DEF MarkHeld, Folders

LEMMA ParkFacts ==
  ASSUME NEW d \in Folders, staged \subseteq Recs
  PROVE  /\ Park(d) \in Folders
         /\ Park(d).audio = d.audio /\ Park(d).stub = d.stub
         /\ Park(d).home = d.home /\ Park(d).jr = d.jr
  BY DEF Park, Folders

LEMMA RehomeFacts ==
  ASSUME NEW d \in Folders, NEW t \in Places
  PROVE  /\ Rehome(d, t) \in Folders
         /\ Rehome(d, t).audio = d.audio /\ Rehome(d, t).stub = d.stub
         /\ Rehome(d, t).home = t /\ Rehome(d, t).jr = d.jr
<1>1. CASE d.home = t
  BY <1>1 DEF Rehome
<1>2. CASE d.home # t
  <2>1. [d EXCEPT !.home = t] \in Folders
    BY DEF Folders
  <2>2. PICK e : e = SetTeam([d EXCEPT !.home = t], t)
    OBVIOUS
  <2>3. e \in Folders /\ e.audio = d.audio /\ e.stub = d.stub /\ e.home = t /\ e.jr = d.jr
    BY <2>1, <2>2, SetTeamFacts DEF Folders
  <2>4. Rehome(d, t) = [e EXCEPT !.mt = t]
    BY <1>2, <2>2 DEF Rehome
  <2> QED
    BY <2>3, <2>4 DEF Folders
<1> QED
  BY <1>1, <1>2

(***************************************************************************)
(* What a row says of its recording.                                       *)
(***************************************************************************)

LEMMA StateFacts ==
  ASSUME RecordTypeOK, RecordersAreSound, NEW r \in Recs
  PROVE  /\ StateOf(r) \in States
         /\ StateOf(r) # "absent" => Begun(r) /\ disk[r].home \in Teams
         /\ StateOf(r) \notin {"absent", "in-progress", "orphaned"} => Settled(r)
<1>1. disk[r] \in Folders
  BY DEF RecordTypeOK
<1>2. disk[r].audio # "open" => r \notin capt
  BY DEF RecordersAreSound
<1>3. /\ disk[r].jr \in {"none", "recording", "pending", "uploading", "failed", "held", "done"}
      /\ disk[r].stub \in BOOLEAN
  BY <1>1 DEF Folders
<1>4. CASE disk[r].home \notin Teams \/ disk[r].audio = "none"
  <2>1. StateOf(r) = "absent"
    BY <1>4 DEF StateOf
  <2> QED
    BY <2>1 DEF States
<1>5. CASE disk[r].home \in Teams /\ disk[r].audio = "open"
  <2>1. CASE owner[r] # None
    <3>1. StateOf(r) = "in-progress"
      BY <1>5, <2>1 DEF StateOf
    <3> QED
      BY <1>5, <3>1 DEF States, OutboxStates, Begun
  <2>2. CASE owner[r] = None /\ r \in capt
    <3>1. StateOf(r) = "orphaned"
      BY <1>5, <2>2 DEF StateOf, Salvageable
    <3> QED
      BY <1>5, <3>1 DEF States, OutboxStates, Begun
  <2>3. CASE owner[r] = None /\ r \notin capt
    <3>1. StateOf(r) \in {"held", "interrupted"}
      BY <1>5, <2>3 DEF StateOf, Salvageable
    <3> QED
      BY <1>5, <2>3, <3>1 DEF States, OutboxStates, Begun, Settled
  <2> QED
    BY <2>1, <2>2, <2>3
<1>6. CASE disk[r].home \in Teams /\ disk[r].audio \notin {"none", "open"}
  BY <1>2, <1>3, <1>6 DEF StateOf, States, OutboxStates, Begun, Settled
<1> QED
  BY <1>4, <1>5, <1>6

LEMMA RowFacts ==
  ASSUME RecordTypeOK, RecordersAreSound, NEW r \in Recs, StateOf(r) \notin {"absent", "in-progress"}
  PROVE  /\ Row(r) \in Listed /\ RowIsSound(Row(r))
         /\ Row(r).rec = r /\ Row(r).state = StateOf(r)
<1>1. disk[r] \in Folders
  BY DEF RecordTypeOK
<1>2. ResolveTeam(r) \in Places /\ disk[r].home \in Places
  BY <1>1 DEF ResolveTeam, Folders
<1>3. Row(r) = [rec |-> r, home |-> disk[r].home, state |-> StateOf(r), team |-> ResolveTeam(r)]
  BY DEF Row
<1>4. Row(r) \in Listed
  BY <1>2, <1>3, StateFacts DEF Listed
<1>5. RowIsSound(Row(r))
  BY <1>3, StateFacts DEF RowIsSound, Settled
<1> QED
  BY <1>3, <1>4, <1>5

(***************************************************************************)
(* What every step keeps: audio stays, a recorder that is gone stays gone, *)
(* what was sent stays sent.  Rows and uploads then stay sound.            *)
(***************************************************************************)

FoldersGoOn ==
  \A r \in Recs :
    /\ Begun(r) => Begun(r)'
    /\ Settled(r) => Settled(r)'
    /\ sent[r] # <<>> => sent'[r] # <<>>

LEMMA JobsGoOn ==
  ASSUME FoldersGoOn, NEW k, JobIsSound(k)
  PROVE  JobIsSound(k)'
  BY DEF FoldersGoOn, JobIsSound, Settled

LEMMA RowsGoOn ==
  ASSUME FoldersGoOn, NEW w, w.rec \in Recs, RowIsSound(w)
  PROVE  RowIsSound(w)'
  BY DEF FoldersGoOn, RowIsSound, Settled

LEMMA ScreensGoOn ==
  ASSUME FoldersGoOn, NEW m \in Screens, ScreenIsSound(m)
  PROVE  ScreenIsSound(m)'
<1>1. m.row.rec \in Recs
  BY DEF Screens, Listed
<1>2. PICK w : w = m.row
  OBVIOUS
<1>3. RowIsSound(w)'
  BY <1>1, <1>2, RowsGoOn DEF ScreenIsSound
<1> QED
  BY <1>2, <1>3 DEF ScreenIsSound

LEMMA FreeFacts == Free \in Uploads /\ Free.at = "free" /\ \A k : k.at = "free" => JobIsSound(k)
  BY DEF Free, Uploads, Stages, States, Places, JobIsSound

\* Uploads that stay, end, or are as sound as they were.
LEMMA JobsKeep ==
  ASSUME RecordInvariant, FoldersGoOn,
         \A j \in Jobs : job'[j] = job[j] \/ job'[j].at = "free" \/ JobIsSound(job[j])'
  PROVE  JobsAreSound'
<1> SUFFICES ASSUME NEW j \in Jobs PROVE JobIsSound(job[j])'
  BY DEF JobsAreSound
<1>1. CASE job'[j] = job[j]
  <2>1. PICK k : k = job[j]
    OBVIOUS
  <2>2. JobIsSound(k)
    BY <2>1 DEF RecordInvariant, JobsAreSound
  <2>3. JobIsSound(k)'
    BY <2>2, JobsGoOn
  <2> QED
    BY <1>1, <2>1, <2>3 DEF JobIsSound
<1>2. CASE job'[j].at = "free"
  BY <1>2 DEF JobIsSound
<1> QED
  BY <1>1, <1>2

\* One upload goes on with the same recording, which nobody records.
LEMMA JobStep ==
  ASSUME RecordInvariant, FoldersGoOn, NEW j \in Jobs, job[j].at # "free",
         \A i \in Jobs \ {j} : job'[i] = job[i],
         \/ job'[j].at = "free"
         \/ /\ job'[j].rec = job[j].rec /\ job'[j].at # "stop"
            /\ job[j].rec \notin capt'
            /\ job'[j].at \in {"answer", "attach"} => sent'[job[j].rec] # <<>>
  PROVE  JobsAreSound'
<1>1. JobIsSound(job[j])
  BY DEF RecordInvariant, JobsAreSound
<1>2. job'[j].at = "free" \/ JobIsSound(job[j])'
  BY <1>1 DEF JobIsSound, FoldersGoOn
<1> QED
  BY <1>2, JobsKeep

\* The upload that waits for a sign-in.
LEMMA PendingGoesOn ==
  ASSUME RecordInvariant, FoldersGoOn, tab'.pend \in {tab.pend, None}, tab'.pend # None
  PROVE  RowIsSound(tab.pend)' /\ tab'.pend.state # "orphaned"
<1>1. PICK w : w = tab.pend
  OBVIOUS
<1>2. RowIsSound(w) /\ w.state # "orphaned" /\ w \in Listed
  BY <1>1 DEF RecordInvariant, ScreensAreSound, RecordTypeOK, Tabs
<1>3. w.rec \in Recs
  BY <1>2 DEF Listed
<1>4. RowIsSound(w)'
  BY <1>2, <1>3, RowsGoOn
<1> QED
  BY <1>1, <1>2, <1>4 DEF RowIsSound

LEMMA ScreensKeep ==
  ASSUME RecordInvariant, FoldersGoOn, tab'.pend \in {tab.pend, None},
         modals' = modals \/ modals' = <<>> \/ (modals # <<>> /\ modals' = Beneath)
  PROVE  ScreensAreSound'
<1>0. modals \in Seq(Screens)
  BY DEF RecordInvariant, RecordTypeOK
<1>1. \A i \in 1..Len(modals') : i \in 1..Len(modals) /\ modals'[i] = modals[i]
  BY <1>0 DEF Beneath
<1>2. ASSUME NEW i \in 1..Len(modals')
      PROVE  ScreenIsSound(modals[i])'
  <2>1. PICK m : m = modals[i]
    OBVIOUS
  <2>2. ScreenIsSound(m)
    BY <1>1, <2>1 DEF RecordInvariant, ScreensAreSound
  <2>3. m \in Screens
    BY <1>0, <1>1, <2>1
  <2>4. ScreenIsSound(m)'
    BY <2>2, <2>3, ScreensGoOn
  <2> QED
    BY <1>1, <2>1, <2>4 DEF ScreenIsSound, RowIsSound
<1>3. tab'.pend # None => RowIsSound(tab.pend)' /\ tab'.pend.state # "orphaned"
  BY PendingGoesOn
<1> QED
  BY <1>2, <1>3 DEF ScreensAreSound

LEMMA BeneathFacts ==
  ASSUME RecordTypeOK, ~AtTabs
  PROVE  /\ Beneath \in Seq(Screens) /\ Front \in Screens /\ modals # <<>>
         /\ Len(modals) \in 1..Len(modals) /\ Front = modals[Len(modals)]
<1>1. modals \in Seq(Screens) /\ modals # <<>>
  BY DEF RecordTypeOK, AtTabs
<1>2. Len(modals) \in Nat /\ Len(modals) # 0
  BY <1>1
<1>3. \A i \in 1..Len(modals) : modals[i] \in Screens
  BY <1>1
<1> QED
  BY <1>1, <1>2, <1>3 DEF Beneath, Front

\* A screen is put in front.
LEMMA ShownIsSound ==
  ASSUME RecordInvariant, FoldersGoOn, NEW m \in Screens, ScreenIsSound(m)', modals' = Append(modals, m)
  PROVE  modals' \in Seq(Screens) /\ \A i \in 1..Len(modals') : ScreenIsSound(modals[i])'
<1>1. modals \in Seq(Screens)
  BY DEF RecordInvariant, RecordTypeOK
<1>2. modals' \in Seq(Screens) /\ Len(modals') = Len(modals) + 1 /\ Len(modals) \in Nat
  BY <1>1
<1>3. \A i \in 1..Len(modals') : (i \in 1..Len(modals) /\ modals'[i] = modals[i]) \/ modals'[i] = m
  BY <1>1, <1>2
<1>4. ASSUME NEW i \in 1..Len(modals')
      PROVE  ScreenIsSound(modals[i])'
  <2>1. CASE modals'[i] = m
    BY <2>1 DEF ScreenIsSound, RowIsSound
  <2>2. CASE i \in 1..Len(modals) /\ modals'[i] = modals[i]
    <3>1. PICK n : n = modals[i]
      OBVIOUS
    <3>2. ScreenIsSound(n) /\ n \in Screens
      BY <1>1, <2>2, <3>1 DEF RecordInvariant, ScreensAreSound
    <3>3. ScreenIsSound(n)'
      BY <3>2, ScreensGoOn
    <3> QED
      BY <2>2, <3>1, <3>3 DEF ScreenIsSound, RowIsSound
  <2> QED
    BY <1>3, <2>1, <2>2
<1> QED
  BY <1>2, <1>4

LEMMA ScreensShow ==
  ASSUME RecordInvariant, FoldersGoOn, tab'.pend \in {tab.pend, None}, NEW m \in Screens,
         ScreenIsSound(m)', modals' = Append(modals, m)
  PROVE  ScreensAreSound' /\ modals' \in Seq(Screens)
<1>1. modals' \in Seq(Screens) /\ \A i \in 1..Len(modals') : ScreenIsSound(modals[i])'
  BY ShownIsSound
<1>2. tab'.pend # None => RowIsSound(tab.pend)' /\ tab'.pend.state # "orphaned"
  BY PendingGoesOn
<1> QED
  BY <1>1, <1>2 DEF ScreensAreSound

(***************************************************************************)
(* A write to one folder.                                                  *)
(***************************************************************************)

LEMMA Written ==
  ASSUME RecordInvariant, NEW r \in Recs, NEW d \in Folders,
         disk' = disk \/ disk' = [disk EXCEPT ![r] = d],
         d.audio = "none" <=> disk[r].audio = "none",
         d.audio # "open" => r \notin capt',
         d.jr = "none" => disk[r].jr = "none",
         d.jr = "done" => disk[r].jr = "done" \/ sent'[r] # <<>>,
         d.stub => disk[r].stub \/ sent'[r] # <<>>,
         capt' \subseteq capt,
         \A q \in Recs : sent[q] # <<>> => sent'[q] # <<>>,
         born' = born
  PROVE  /\ FoldersGoOn /\ JournalIsKept'
         /\ disk' \in [Recs -> Folders] /\ capt' \subseteq Recs
         /\ \A q \in Recs : Begun(q)' <=> Begun(q)
         /\ \A q \in capt' : disk'[q].audio = "open"
<1> USE DEF RecordInvariant, RecordTypeOK
<1>1. disk' \in [Recs -> Folders] /\ capt' \subseteq Recs
  <2>1. disk \in [Recs -> Folders] /\ capt \subseteq Recs
    OBVIOUS
  <2> HIDE DEF RecordInvariant, RecordTypeOK
  <2>2. disk' \in [Recs -> Folders]
    BY <2>1
  <2> QED
    BY <2>1, <2>2
<1>2. \A q \in Recs : disk'[q] = disk[q] \/ (q = r /\ disk'[q] = d)
  OBVIOUS
<1>3. \A q \in Recs : Begun(q)' <=> Begun(q)
  BY <1>2 DEF Begun
<1>4. FoldersGoOn
  BY <1>3 DEF FoldersGoOn, Settled
<1>5. \A q \in capt' : disk'[q].audio = "open"
  BY <1>2 DEF RecordersAreSound
<1>6. JournalIsKept'
  BY <1>2 DEF JournalIsKept
<1> QED
  BY <1>1, <1>3, <1>4, <1>5, <1>6

\* A step that touches no recorder thread.
LEMMA RecordersKeep ==
  ASSUME RecordInvariant, FoldersGoOn, rt' = rt, born' = born,
         \A q \in Recs : Begun(q)' <=> Begun(q), \A q \in capt' : disk'[q].audio = "open"
  PROVE  RecordersAreSound'
  BY DEF RecordInvariant, RecordersAreSound, FoldersGoOn

LEMMA Untouched ==
  ASSUME RecordInvariant, disk' = disk, capt' \subseteq capt, sent' = sent, born' = born
  PROVE  /\ FoldersGoOn /\ JournalIsKept' /\ disk' \in [Recs -> Folders]
         /\ \A q \in Recs : Begun(q)' <=> Begun(q)
         /\ \A q \in capt' : disk'[q].audio = "open"
<1>1. FoldersGoOn /\ disk' \in [Recs -> Folders]
  BY DEF RecordInvariant, RecordTypeOK, FoldersGoOn, Begun, Settled
<1>2. JournalIsKept'
  BY DEF RecordInvariant, JournalIsKept
<1>3. \A q \in capt' : disk'[q].audio = "open"
  BY DEF RecordInvariant, RecordTypeOK, RecordersAreSound
<1> QED
  BY <1>1, <1>2, <1>3 DEF Begun

LEMMA AtFacts ==
  ASSUME NEW k \in Uploads, NEW at \in Stages
  PROVE  /\ [k EXCEPT !.at = at] \in Uploads
         /\ [k EXCEPT !.at = at].at = at /\ [k EXCEPT !.at = at].rec = k.rec
  BY DEF Uploads

LEMMA HomeFacts ==
  ASSUME NEW k \in Uploads, NEW home \in Places
  PROVE  [k EXCEPT !.home = home] \in Uploads /\ [k EXCEPT !.home = home].rec = k.rec
  BY DEF Uploads

LEMMA GotoFacts ==
  ASSUME RecordTypeOK, NEW j \in Jobs, NEW at \in {"move", "stitch", "compress", "send", "answer", "attach"},
         Goto(j, at)
  PROVE  /\ job' \in [Jobs -> Uploads]
         /\ \A i \in Jobs \ {j} : job'[i] = job[i]
         /\ job'[j].at = at /\ job'[j].rec = job[j].rec
<1>1. PICK k : k = [job[j] EXCEPT !.at = at]
  OBVIOUS
<1>2. at \in Stages /\ job[j] \in Uploads
  BY DEF Stages, RecordTypeOK
<1>3. k \in Uploads /\ k.at = at /\ k.rec = job[j].rec
  BY <1>1, <1>2, AtFacts
<1>4. job' = [job EXCEPT ![j] = k]
  BY <1>1 DEF Goto, RecordTypeOK
<1> QED
  BY <1>3, <1>4 DEF RecordTypeOK

LEMMA FinishFacts ==
  ASSUME RecordTypeOK, NEW j \in Jobs, NEW how \in {"finished", "failed", "expired"}, Finish(j, how)
  PROVE  /\ job' \in [Jobs -> Uploads]
         /\ \A i \in Jobs \ {j} : job'[i] = job[i]
         /\ IF job[j].by = "tab" THEN job'[j].at = how /\ job'[j].rec = job[j].rec
            ELSE job'[j].at = "free"
<1>1. CASE job[j].by = "tab"
  <2>1. PICK k : k = [job[j] EXCEPT !.at = how]
    OBVIOUS
  <2>2. how \in Stages /\ job[j] \in Uploads
    BY DEF Stages, RecordTypeOK
  <2>3. k \in Uploads /\ k.at = how /\ k.rec = job[j].rec
    BY <2>1, <2>2, AtFacts
  <2>4. job' = [job EXCEPT ![j] = k]
    BY <1>1, <2>1 DEF Finish, RecordTypeOK
  <2> QED
    BY <1>1, <2>3, <2>4 DEF RecordTypeOK
<1>2. CASE job[j].by # "tab"
  <2>1. job' = [job EXCEPT ![j] = Free]
    BY <1>2 DEF Finish, RecordTypeOK
  <2> QED
    BY <1>2, <2>1, FreeFacts DEF RecordTypeOK
<1> QED
  BY <1>1, <1>2

LEMMA StartJobFacts ==
  ASSUME RecordInvariant, FoldersGoOn, NEW by \in {"tab", "box", "cli", "scribe"}, NEW row \in Listed,
         NEW team \in Places, NEW chosen \in Places, NEW gen \in Nat,
         RowIsSound(row), by \in {"tab", "scribe"} => row.state # "orphaned",
         StartJob(by, row, team, chosen, gen)
  PROVE  job' \in [Jobs -> Uploads] /\ JobsAreSound'
<1> DEFINE new == [at |-> IF by \in {"tab", "scribe"} THEN "compress" ELSE "stop", by |-> by,
                   rec |-> row.rec, home |-> row.home, team |-> team, state |-> row.state,
                   was |-> row.team, chosen |-> chosen, gen |-> gen]
<1>1. PICK j \in Jobs : job[j] = Free /\ job' = [job EXCEPT ![j] = new]
  BY DEF StartJob
<1>2. new \in Uploads
  BY DEF Listed, Uploads, Stages, Askers
<1>3. job' \in [Jobs -> Uploads] /\ job'[j] = new /\ \A i \in Jobs \ {j} : job'[i] = job[i]
  BY <1>1, <1>2 DEF RecordInvariant, RecordTypeOK
<1>4. JobIsSound(job[j])'
  <2>1. row.rec \in Recs
    BY DEF Listed
  <2>2. Begun(row.rec)' /\ (row.state # "orphaned" => row.rec \notin capt')
    BY <2>1 DEF FoldersGoOn, RowIsSound, Settled
  <2>3. PICK k : k = new
    OBVIOUS
  <2>4. /\ k.rec = row.rec /\ k.state = row.state /\ k.by = by
        /\ k.at = IF by \in {"tab", "scribe"} THEN "compress" ELSE "stop"
    BY <2>3
  <2> HIDE DEF new
  <2> QED
    BY <1>3, <2>1, <2>2, <2>3, <2>4 DEF JobIsSound
<1> QED
  BY <1>3, <1>4, JobsKeep

(***************************************************************************)
(* The uploads.                                                            *)
(***************************************************************************)

LEMMA JobFacts ==
  ASSUME RecordInvariant, NEW j \in Jobs, job[j].at # "free"
  PROVE  /\ job[j] \in Uploads /\ job[j].rec \in Recs /\ job[j].team \in Places
         /\ Begun(job[j].rec) /\ On(j) \in Folders /\ On(j) = disk[job[j].rec]
         /\ job[j].at # "stop" => job[j].rec \notin capt
         /\ job[j].at \in {"answer", "attach"} => sent[job[j].rec] # <<>>
<1>1. JobIsSound(job[j]) /\ job[j] \in Uploads /\ disk \in [Recs -> Folders]
  BY DEF RecordInvariant, RecordTypeOK, JobsAreSound
<1> QED
  BY <1>1 DEF JobIsSound, On, Uploads

\* A step of an upload that leaves the folder as sound as it was.
LEMMA JobWrites ==
  ASSUME RecordInvariant, left' \in Nat, NoScreen, NEW j \in Jobs, job[j].at \notin {"free", "stop"},
         NEW d \in Folders, disk' = disk \/ disk' = [disk EXCEPT ![job[j].rec] = d],
         d.audio # "none", d.jr = "none" => On(j).jr = "none",
         d.jr = "done" => On(j).jr = "done" \/ sent'[job[j].rec] # <<>>,
         d.stub => On(j).stub \/ sent'[job[j].rec] # <<>>,
         capt' = capt, owner' = owner,
         sent' \in [Recs -> Seq([to: Places, chosen: Places])],
         \A q \in Recs : sent[q] # <<>> => sent'[q] # <<>>,
         staged' \subseteq Recs, got' \in [Recs -> SUBSET Recs],
         job' \in [Jobs -> Uploads], \A i \in Jobs \ {j} : job'[i] = job[i],
         \/ job'[j].at = "free"
         \/ /\ job'[j].rec = job[j].rec /\ job'[j].at # "stop"
            /\ job'[j].at \in {"answer", "attach"} => sent'[job[j].rec] # <<>>
  PROVE  RecordInvariant'
<1>1. PICK r : r = job[j].rec
  OBVIOUS
<1>2. r \in Recs /\ Begun(r) /\ r \notin capt /\ On(j) = disk[r]
  BY <1>1, JobFacts
<1>3. /\ FoldersGoOn /\ JournalIsKept'
      /\ disk' \in [Recs -> Folders] /\ capt' \subseteq Recs
      /\ \A q \in Recs : Begun(q)' <=> Begun(q)
      /\ \A q \in capt' : disk'[q].audio = "open"
  <2>1. d.audio = "none" <=> disk[r].audio = "none"
    BY <1>2 DEF Begun
  <2> QED
    BY <1>1, <1>2, <2>1, Written DEF NoScreen
<1>4. RecordersAreSound'
  BY <1>3, RecordersKeep DEF NoScreen
<1>5. ScreensAreSound'
  BY <1>3, ScreensKeep DEF NoScreen
<1>6. JobsAreSound'
  BY <1>1, <1>2, <1>3, JobStep
<1> QED
  BY <1>3, <1>4, <1>5, <1>6 DEF RecordInvariant, RecordTypeOK, NoScreen

LEMMA StopOrphanStep ==
  ASSUME RecordInvariant, left' \in Nat, NoScreen, NEW j \in Jobs, StopOrphan(j)
  PROVE  RecordInvariant'
<1> USE DEF StopOrphan
<1>1. PICK r : r = job[j].rec
  OBVIOUS
<1>2. r \in Recs /\ Begun(r) /\ job[j].at = "stop" /\ JobIsSound(job[j])
  BY <1>1, JobFacts DEF RecordInvariant, JobsAreSound
<1>3. capt' \subseteq capt /\ r \notin capt'
  BY <1>1, <1>2 DEF JobIsSound
<1>4. /\ FoldersGoOn /\ JournalIsKept' /\ disk' \in [Recs -> Folders]
      /\ \A q \in Recs : Begun(q)' <=> Begun(q)
      /\ \A q \in capt' : disk'[q].audio = "open"
  BY <1>3, Untouched DEF NoScreen
<1>5. RecordersAreSound' /\ ScreensAreSound'
  BY <1>4, RecordersKeep, ScreensKeep DEF NoScreen
<1>6. /\ job' \in [Jobs -> Uploads] /\ \A i \in Jobs \ {j} : job'[i] = job[i]
      /\ job'[j].at = "move" /\ job'[j].rec = job[j].rec
  BY GotoFacts DEF RecordInvariant
<1>7. JobsAreSound'
  BY <1>1, <1>2, <1>3, <1>4, <1>6, JobStep
<1> QED
  BY <1>3, <1>4, <1>5, <1>6, <1>7 DEF RecordInvariant, RecordTypeOK, NoScreen

LEMMA StopTimesOutStep ==
  ASSUME RecordInvariant, left' \in Nat, NoScreen, NEW j \in Jobs, StopTimesOut(j)
  PROVE  RecordInvariant'
<1> USE DEF StopTimesOut
<1>1. job[j].by # "tab"
  BY DEF RecordInvariant, JobsAreSound, JobIsSound
<1>2. /\ FoldersGoOn /\ JournalIsKept' /\ disk' \in [Recs -> Folders]
      /\ \A q \in Recs : Begun(q)' <=> Begun(q)
      /\ \A q \in capt' : disk'[q].audio = "open"
  BY Untouched DEF NoScreen
<1>3. RecordersAreSound' /\ ScreensAreSound'
  BY <1>2, RecordersKeep, ScreensKeep DEF NoScreen
<1>4. /\ job' \in [Jobs -> Uploads] /\ \A i \in Jobs \ {j} : job'[i] = job[i]
      /\ job'[j].at = "free"
  BY <1>1, FinishFacts DEF RecordInvariant
<1>5. JobsAreSound'
  BY <1>2, <1>4, JobStep
<1> QED
  BY <1>2, <1>3, <1>4, <1>5 DEF RecordInvariant, RecordTypeOK, NoScreen

LEMMA MoveFirstStep ==
  ASSUME RecordInvariant, left' \in Nat, NoScreen, NEW j \in Jobs, MoveFirst(j)
  PROVE  RecordInvariant'
<1> USE DEF MoveFirst
<1>1. /\ job[j].at = "move" /\ job[j].rec \in Recs /\ job[j].team \in Places /\ Begun(job[j].rec)
      /\ On(j) \in Folders /\ On(j) = disk[job[j].rec]
  BY JobFacts
<1>2. PICK d : d = Rehome(On(j), job[j].team)
  OBVIOUS
<1>3. d \in Folders /\ d.audio # "none" /\ d.stub = On(j).stub /\ d.jr = On(j).jr
  BY <1>1, <1>2, RehomeFacts DEF Begun
<1>4. disk' = disk \/ disk' = [disk EXCEPT ![job[j].rec] = d]
  BY <1>1, <1>2 DEF RecordInvariant, RecordTypeOK
<1>5. /\ job' \in [Jobs -> Uploads] /\ \A i \in Jobs \ {j} : job'[i] = job[i]
      /\ job'[j].at = "free" \/ (job'[j].rec = job[j].rec /\ job'[j].at \in {"stitch", "failed"})
  <2>1. CASE job[j].team = job[j].was
    BY <2>1, GotoFacts DEF RecordInvariant
  <2>2. CASE job[j].team # job[j].was /\ There(j)
    <3>1. job[j] \in Uploads /\ "stitch" \in Stages
      BY JobFacts DEF Stages
    <3>2. PICK k : k = [job[j] EXCEPT !.at = "stitch"]
      OBVIOUS
    <3>3. PICK l : l = [k EXCEPT !.home = job[j].team]
      OBVIOUS
    <3>4. k \in Uploads /\ k.at = "stitch" /\ k.rec = job[j].rec
      BY <3>1, <3>2, AtFacts
    <3>5. l \in Uploads /\ l.rec = job[j].rec /\ l.at = "stitch"
      BY <1>1, <3>3, <3>4, HomeFacts DEF Uploads
    <3>6. job' = [job EXCEPT ![j] = l]
      BY <2>2, <3>2, <3>3 DEF RecordInvariant, RecordTypeOK
    <3> QED
      BY <3>5, <3>6 DEF RecordInvariant, RecordTypeOK
  <2>3. CASE job[j].team # job[j].was /\ ~There(j)
    BY <2>3, FinishFacts DEF RecordInvariant
  <2> QED
    BY <2>1, <2>2, <2>3
<1>6. sent' = sent /\ capt' = capt /\ owner' = owner /\ staged' = staged /\ got' = got
  OBVIOUS
<1>7. /\ sent \in [Recs -> Seq([to: Places, chosen: Places])]
      /\ staged \subseteq Recs /\ got \in [Recs -> SUBSET Recs]
  BY DEF RecordInvariant, RecordTypeOK
<1>8. job[j].at \notin {"free", "stop"}
  BY <1>1
<1>9. /\ d.jr = "none" => On(j).jr = "none"
      /\ d.jr = "done" => On(j).jr = "done" \/ sent'[job[j].rec] # <<>>
      /\ d.stub => On(j).stub \/ sent'[job[j].rec] # <<>>
  BY <1>3
<1>10. /\ sent' \in [Recs -> Seq([to: Places, chosen: Places])] /\ staged' \subseteq Recs
       /\ got' \in [Recs -> SUBSET Recs] /\ \A q \in Recs : sent[q] # <<>> => sent'[q] # <<>>
  BY <1>6, <1>7
<1>11. \/ job'[j].at = "free"
       \/ /\ job'[j].rec = job[j].rec /\ job'[j].at # "stop"
          /\ job'[j].at \in {"answer", "attach"} => sent'[job[j].rec] # <<>>
  BY <1>5
<1> HIDE DEF MoveFirst
<1> QED
  BY <1>3, <1>4, <1>5, <1>6, <1>8, <1>9, <1>10, <1>11, JobWrites

LEMMA StitchStep ==
  ASSUME RecordInvariant, left' \in Nat, NoScreen, NEW j \in Jobs, Stitch(j)
  PROVE  RecordInvariant'
<1> USE DEF Stitch
<1>1. /\ job[j].at = "stitch" /\ job[j].rec \in Recs /\ job[j].team \in Places /\ Begun(job[j].rec)
      /\ On(j) \in Folders /\ On(j) = disk[job[j].rec]
  BY JobFacts
<1>2. PICK e : e = [On(j) EXCEPT !.audio = IF @ = "open" THEN "wav" ELSE @]
  OBVIOUS
<1>3. e \in Folders /\ e.audio # "none" /\ e.stub = On(j).stub
  BY <1>1, <1>2 DEF Folders, Begun
<1>4. PICK d : d = MarkPending(e, job[j].team)
  OBVIOUS
<1>5. d \in Folders /\ d.audio # "none" /\ d.stub = On(j).stub /\ d.jr = "pending"
  BY <1>1, <1>3, <1>4, MarkPendingFacts
<1>6. disk' = disk \/ disk' = [disk EXCEPT ![job[j].rec] = d]
  BY <1>2, <1>4 DEF WriteJob, Write
<1>7. /\ job' \in [Jobs -> Uploads] /\ \A i \in Jobs \ {j} : job'[i] = job[i]
      /\ job'[j].at = "free" \/ (job'[j].rec = job[j].rec /\ job'[j].at \in {"compress", "failed"})
  BY GotoFacts, FinishFacts DEF RecordInvariant
<1>8. sent' = sent /\ capt' = capt /\ owner' = owner /\ staged' = staged /\ got' = got
  OBVIOUS
<1>9. /\ sent \in [Recs -> Seq([to: Places, chosen: Places])]
      /\ staged \subseteq Recs /\ got \in [Recs -> SUBSET Recs]
  BY DEF RecordInvariant, RecordTypeOK
<1> HIDE DEF Stitch
<1> QED
  BY <1>1, <1>5, <1>6, <1>7, <1>8, <1>9, JobWrites, ZenonT(60)

LEMMA CompressStep ==
  ASSUME RecordInvariant, left' \in Nat, NoScreen, NEW j \in Jobs, Compress(j)
  PROVE  RecordInvariant'
<1> USE DEF Compress
<1>1. /\ job[j].at = "compress" /\ job[j].rec \in Recs
      /\ On(j) \in Folders /\ On(j) = disk[job[j].rec]
  BY JobFacts
<1>2. PICK e : e = [On(j) EXCEPT !.audio = "ogg"]
  OBVIOUS
<1>3. e \in Folders /\ e.audio = "ogg" /\ e.stub = On(j).stub /\ e.jr = On(j).jr
  BY <1>1, <1>2 DEF Folders
<1>4. PICK d : d = Mark(e, "uploading")
  OBVIOUS
<1>5. /\ d \in Folders /\ d.audio # "none" /\ d.stub = On(j).stub
      /\ d.jr = "none" => On(j).jr = "none"
      /\ d.jr # "done"
  BY <1>3, <1>4, MarkFacts
<1>6. disk' = disk \/ disk' = [disk EXCEPT ![job[j].rec] = d]
  BY <1>2, <1>4 DEF WriteJob, Write
<1>7. /\ job' \in [Jobs -> Uploads] /\ \A i \in Jobs \ {j} : job'[i] = job[i]
      /\ job'[j].rec = job[j].rec /\ job'[j].at = "send"
  BY GotoFacts DEF RecordInvariant
<1>8. sent' = sent /\ capt' = capt /\ owner' = owner /\ staged' = staged /\ got' = got
  OBVIOUS
<1>9. /\ sent \in [Recs -> Seq([to: Places, chosen: Places])]
      /\ staged \subseteq Recs /\ got \in [Recs -> SUBSET Recs]
  BY DEF RecordInvariant, RecordTypeOK
<1> HIDE DEF Compress
<1> QED
  BY <1>1, <1>5, <1>6, <1>7, <1>8, <1>9, JobWrites, ZenonT(60)

LEMMA MarkedFailed ==
  ASSUME RecordInvariant, left' \in Nat, NoScreen, NEW j \in Jobs, job[j].at \notin {"free", "stop"},
         disk' = disk \/ WriteJob(j, Mark(On(j), "failed")),
         \E how \in {"failed", "expired"} : Finish(j, how),
         UNCHANGED <<capt, owner, sent, staged, got>>
  PROVE  RecordInvariant'
<1>1. /\ job[j].rec \in Recs /\ On(j) \in Folders /\ On(j) = disk[job[j].rec] /\ Begun(job[j].rec)
  BY JobFacts
<1>2. PICK d : d = Mark(On(j), "failed")
  OBVIOUS
<1>3. /\ d \in Folders /\ d.audio # "none" /\ d.stub = On(j).stub
      /\ d.jr = "none" => On(j).jr = "none"
      /\ d.jr # "done"
  BY <1>1, <1>2, MarkFacts DEF Begun
<1>4. disk' = disk \/ disk' = [disk EXCEPT ![job[j].rec] = d]
  BY <1>2 DEF WriteJob, Write
<1>5. /\ job' \in [Jobs -> Uploads] /\ \A i \in Jobs \ {j} : job'[i] = job[i]
      /\ job'[j].at = "free" \/ (job'[j].rec = job[j].rec /\ job'[j].at \in {"expired", "failed"})
  BY FinishFacts DEF RecordInvariant
<1>6. /\ sent \in [Recs -> Seq([to: Places, chosen: Places])]
      /\ staged \subseteq Recs /\ got \in [Recs -> SUBSET Recs]
  BY DEF RecordInvariant, RecordTypeOK
<1> QED
  BY <1>1, <1>3, <1>4, <1>5, <1>6, JobWrites, ZenonT(60)

LEMMA CompressFailsStep ==
  ASSUME RecordInvariant, left' \in Nat, NoScreen, NEW j \in Jobs, CompressFails(j)
  PROVE  RecordInvariant'
  BY MarkedFailed DEF CompressFails

LEMMA UploadFailsStep ==
  ASSUME RecordInvariant, left' \in Nat, NoScreen, NEW j \in Jobs, NEW how, UploadFails(j, how)
  PROVE  RecordInvariant'
  BY MarkedFailed DEF UploadFails

LEMMA AcceptStep ==
  ASSUME RecordInvariant, left' \in Nat, NoScreen, NEW j \in Jobs, Accept(j)
  PROVE  RecordInvariant'
<1> USE DEF Accept
<1>1. /\ job[j].at = "send" /\ job[j] \in Uploads /\ job[j].rec \in Recs /\ Begun(job[j].rec)
      /\ On(j) \in Folders /\ On(j) = disk[job[j].rec]
  BY JobFacts
<1>2. PICK made : made = [to |-> job[j].team, chosen |-> job[j].chosen]
  OBVIOUS
<1>3. made \in [to: Places, chosen: Places]
  BY <1>1, <1>2 DEF Uploads
<1>4. sent' = [sent EXCEPT ![job[j].rec] = Append(sent[job[j].rec], made)]
  BY <1>2 DEF RecordInvariant, RecordTypeOK
<1>5. sent \in [Recs -> Seq([to: Places, chosen: Places])]
  BY DEF RecordInvariant, RecordTypeOK
<1>6. Append(sent[job[j].rec], made) \in Seq([to: Places, chosen: Places]) /\ Append(sent[job[j].rec], made) # <<>>
  <2>1. PICK s : s = sent[job[j].rec]
    OBVIOUS
  <2>2. s \in Seq([to: Places, chosen: Places])
    BY <1>1, <1>5, <2>1
  <2>3. Append(s, made) \in Seq([to: Places, chosen: Places]) /\ Append(s, made) # <<>>
    BY <1>3, <2>2
  <2> QED
    BY <2>1, <2>3
<1>7. PICK more : more = Append(sent[job[j].rec], made)
  OBVIOUS
<1>8. /\ sent' \in [Recs -> Seq([to: Places, chosen: Places])]
      /\ sent'[job[j].rec] # <<>> /\ \A q \in Recs : sent[q] # <<>> => sent'[q] # <<>>
  BY <1>1, <1>4, <1>5, <1>6, <1>7
<1>9. /\ job' \in [Jobs -> Uploads] /\ \A i \in Jobs \ {j} : job'[i] = job[i]
      /\ job'[j].rec = job[j].rec /\ job'[j].at = "answer"
  BY GotoFacts DEF RecordInvariant
<1>10. PICK d : d = On(j)
  OBVIOUS
<1>11. disk' = disk /\ capt' = capt /\ owner' = owner /\ staged' = staged /\ got' = got
  OBVIOUS
<1>12. staged \subseteq Recs /\ got \in [Recs -> SUBSET Recs]
  BY DEF RecordInvariant, RecordTypeOK
<1>13. d \in Folders /\ d.audio # "none"
  BY <1>1, <1>10 DEF Begun
<1> HIDE DEF Accept
<1> QED
  BY <1>1, <1>8, <1>9, <1>10, <1>11, <1>12, <1>13, JobWrites

LEMMA LinkStep ==
  ASSUME RecordInvariant, left' \in Nat, NoScreen, NEW j \in Jobs, Link(j)
  PROVE  RecordInvariant'
<1> USE DEF Link
<1>1. /\ job[j].at = "answer" /\ job[j].rec \in Recs /\ Begun(job[j].rec)
      /\ On(j) \in Folders /\ On(j) = disk[job[j].rec] /\ sent[job[j].rec] # <<>>
  BY JobFacts
<1>2. PICK e : e = Mark(On(j), "done")
  OBVIOUS
<1>3. e \in Folders /\ e.audio # "none" /\ (e.jr = "none" => On(j).jr = "none")
  BY <1>1, <1>2, MarkFacts DEF Begun
<1>4. PICK d : d = [e EXCEPT !.stub = TRUE]
  OBVIOUS
<1>5. d \in Folders /\ d.audio # "none" /\ (d.jr = "none" => On(j).jr = "none")
  BY <1>3, <1>4 DEF Folders
<1>6. disk' = disk \/ disk' = [disk EXCEPT ![job[j].rec] = d]
  BY <1>2, <1>4 DEF WriteJob, Write
<1>7. /\ job' \in [Jobs -> Uploads] /\ \A i \in Jobs \ {j} : job'[i] = job[i]
      /\ job'[j].rec = job[j].rec /\ job'[j].at = "attach"
  BY GotoFacts DEF RecordInvariant
<1>8. sent' = sent /\ capt' = capt /\ owner' = owner /\ staged' = staged /\ got' = got
  OBVIOUS
<1>9. /\ sent \in [Recs -> Seq([to: Places, chosen: Places])]
      /\ staged \subseteq Recs /\ got \in [Recs -> SUBSET Recs]
  BY DEF RecordInvariant, RecordTypeOK
<1> HIDE DEF Link
<1> QED
  BY <1>1, <1>5, <1>6, <1>7, <1>8, <1>9, JobWrites

LEMMA SendAttachmentsStep ==
  ASSUME RecordInvariant, left' \in Nat, NoScreen, NEW j \in Jobs, SendAttachments(j)
  PROVE  RecordInvariant'
<1> USE DEF SendAttachments
<1>1. /\ job[j].at = "attach" /\ job[j].rec \in Recs /\ Begun(job[j].rec)
      /\ On(j) \in Folders /\ On(j) = disk[job[j].rec]
  BY JobFacts
<1>2. staged \subseteq Recs /\ got \in [Recs -> SUBSET Recs]
      /\ sent \in [Recs -> Seq([to: Places, chosen: Places])]
  BY DEF RecordInvariant, RecordTypeOK
<1>3. PICK d : d = IF job[j].by \in {"box", "cli"} THEN [On(j) EXCEPT !.held = FALSE] ELSE Park(On(j))
  OBVIOUS
<1>4. /\ d \in Folders /\ d.audio # "none" /\ d.jr = On(j).jr /\ d.stub = On(j).stub
  <2>1. CASE job[j].by \in {"box", "cli"}
    BY <1>1, <1>3, <2>1 DEF Folders, Begun
  <2>2. CASE job[j].by \notin {"box", "cli"}
    BY <1>1, <1>2, <1>3, <2>2, ParkFacts DEF Begun
  <2> QED
    BY <2>1, <2>2
<1>5. disk' = disk \/ disk' = [disk EXCEPT ![job[j].rec] = d]
  BY <1>3 DEF WriteJob, Write
<1>6. staged' \subseteq Recs
  BY <1>2
<1>7. got' \in [Recs -> SUBSET Recs]
  <2>1. On(j).kept \subseteq Recs
    BY <1>1 DEF Folders
  <2>2. PICK files \in SUBSET Recs : got' = [got EXCEPT ![job[j].rec] = got[job[j].rec] \cup files]
    BY <1>2, <2>1
  <2> QED
    BY <1>1, <1>2, <2>2
<1>8. /\ job' \in [Jobs -> Uploads] /\ \A i \in Jobs \ {j} : job'[i] = job[i]
      /\ job'[j].at = "free" \/ (job'[j].rec = job[j].rec /\ job'[j].at = "finished")
  BY FinishFacts DEF RecordInvariant
<1>9. capt' = capt /\ owner' = owner /\ sent' = sent
  OBVIOUS
<1>10. job[j].at \notin {"free", "stop"}
  BY <1>1
<1>11. /\ d.jr = "none" => On(j).jr = "none"
       /\ d.jr = "done" => On(j).jr = "done" \/ sent'[job[j].rec] # <<>>
       /\ d.stub => On(j).stub \/ sent'[job[j].rec] # <<>>
  BY <1>4
<1>12. sent' \in [Recs -> Seq([to: Places, chosen: Places])] /\ \A q \in Recs : sent[q] # <<>> => sent'[q] # <<>>
  BY <1>2, <1>9
<1>13. \/ job'[j].at = "free"
       \/ /\ job'[j].rec = job[j].rec /\ job'[j].at # "stop"
          /\ job'[j].at \in {"answer", "attach"} => sent'[job[j].rec] # <<>>
  BY <1>8
<1> HIDE DEF SendAttachments
<1> QED
  BY <1>4, <1>5, <1>6, <1>7, <1>8, <1>9, <1>10, <1>11, <1>12, <1>13, JobWrites

LEMMA AttachmentsFailStep ==
  ASSUME RecordInvariant, left' \in Nat, NoScreen, NEW j \in Jobs, AttachmentsFail(j)
  PROVE  RecordInvariant'
<1>1. /\ job[j].at = "attach" /\ On(j) \in Folders /\ Begun(job[j].rec) /\ On(j) = disk[job[j].rec]
      /\ disk' = disk /\ capt' = capt /\ owner' = owner /\ sent' = sent /\ staged' = staged /\ got' = got
  BY JobFacts DEF AttachmentsFail
<1>2. PICK d : d = On(j)
  OBVIOUS
<1>3. d \in Folders /\ d.audio # "none"
  BY <1>1, <1>2 DEF Begun
<1>4. /\ job' \in [Jobs -> Uploads] /\ \A i \in Jobs \ {j} : job'[i] = job[i]
      /\ job'[j].at = "free" \/ (job'[j].rec = job[j].rec /\ job'[j].at = "finished")
  BY FinishFacts DEF RecordInvariant, AttachmentsFail
<1>5. /\ sent \in [Recs -> Seq([to: Places, chosen: Places])]
      /\ staged \subseteq Recs /\ got \in [Recs -> SUBSET Recs]
  BY DEF RecordInvariant, RecordTypeOK
<1> QED
  BY <1>1, <1>2, <1>3, <1>4, <1>5, JobWrites

(***************************************************************************)
(* The shell: local upload, move and discard, and scribe.                  *)
(***************************************************************************)

LEMMA LocalUploadStep ==
  ASSUME RecordInvariant, left' \in Nat, NoScreen, NEW r \in Recs, NEW t \in Teams, LocalUpload(r, t)
  PROVE  RecordInvariant'
<1> USE DEF LocalUpload
<1>1. /\ FoldersGoOn /\ JournalIsKept' /\ disk' \in [Recs -> Folders]
      /\ \A q \in Recs : Begun(q)' <=> Begun(q)
      /\ \A q \in capt' : disk'[q].audio = "open"
  BY Untouched DEF NoScreen
<1>2. RecordersAreSound' /\ ScreensAreSound'
  BY <1>1, RecordersKeep, ScreensKeep DEF NoScreen
<1>3. PICK row : row = Row(r)
  OBVIOUS
<1>4. row \in Listed /\ RowIsSound(row)
  BY <1>3, RowFacts DEF RecordInvariant
<1>5. StartJob("cli", row, t, t, 0) /\ t \in Places
  BY <1>3 DEF Places
<1>6. job' \in [Jobs -> Uploads] /\ JobsAreSound'
  BY <1>1, <1>4, <1>5, StartJobFacts
<1> QED
  BY <1>1, <1>2, <1>6 DEF RecordInvariant, RecordTypeOK, NoScreen

\* A write to one folder by something that is no upload.
LEMMA FolderWrites ==
  ASSUME RecordInvariant, left' \in Nat, NoScreen, NEW r \in Recs, NEW d \in Folders,
         disk' = [disk EXCEPT ![r] = d],
         d.audio = disk[r].audio, d.jr = disk[r].jr, d.stub = disk[r].stub,
         UNCHANGED <<capt, owner, job, sent, staged, got>>
  PROVE  RecordInvariant'
<1>1. d.audio # "open" => r \notin capt'
  BY DEF RecordInvariant, RecordersAreSound
<1>2. /\ FoldersGoOn /\ JournalIsKept'
      /\ disk' \in [Recs -> Folders] /\ capt' \subseteq Recs
      /\ \A q \in Recs : Begun(q)' <=> Begun(q)
      /\ \A q \in capt' : disk'[q].audio = "open"
  BY <1>1, Written DEF NoScreen
<1>3. RecordersAreSound' /\ ScreensAreSound' /\ JobsAreSound'
  BY <1>2, RecordersKeep, ScreensKeep, JobsKeep DEF NoScreen
<1> QED
  BY <1>2, <1>3 DEF RecordInvariant, RecordTypeOK, NoScreen

LEMMA LocalMoveStep ==
  ASSUME RecordInvariant, left' \in Nat, NoScreen, NEW r \in Recs, NEW t \in Teams, LocalMove(r, t)
  PROVE  RecordInvariant'
<1>1. disk[r] \in Folders /\ t \in Places
  BY DEF RecordInvariant, RecordTypeOK, Places
<1>2. PICK d : d = Rehome(disk[r], t)
  OBVIOUS
<1>3. d \in Folders /\ d.audio = disk[r].audio /\ d.jr = disk[r].jr /\ d.stub = disk[r].stub
  BY <1>1, <1>2, RehomeFacts
<1>4. disk' = [disk EXCEPT ![r] = d]
  BY <1>2 DEF LocalMove, RecordInvariant, RecordTypeOK
<1> QED
  BY <1>3, <1>4, FolderWrites DEF LocalMove

LEMMA LocalDiscardStep ==
  ASSUME RecordInvariant, left' \in Nat, NoScreen, NEW r \in Recs, LocalDiscard(r)
  PROVE  RecordInvariant'
<1>1. disk[r] \in Folders
  BY DEF RecordInvariant, RecordTypeOK
<1>2. PICK d : d = [disk[r] EXCEPT !.home = Trash]
  OBVIOUS
<1>3. d \in Folders /\ d.audio = disk[r].audio /\ d.jr = disk[r].jr /\ d.stub = disk[r].stub
  BY <1>1, <1>2 DEF Folders, Places
<1>4. disk' = [disk EXCEPT ![r] = d]
  BY <1>2 DEF LocalDiscard, RecordInvariant, RecordTypeOK
<1> QED
  BY <1>3, <1>4, FolderWrites DEF LocalDiscard

\* A folder that nothing has been recorded in.
LEMMA UnbegunFacts ==
  ASSUME RecordInvariant, NEW r \in Recs, ~Begun(r)
  PROVE  /\ r \notin capt /\ rt[r] \notin {"begun", "ticking", "stopping", "finished"}
  BY DEF RecordInvariant, RecordersAreSound, Begun, Settled

LEMMA ScribeStartStep ==
  ASSUME RecordInvariant, left' \in Nat, NoScreen, NEW r \in Recs, NEW t \in Teams, ScribeStart(r, t)
  PROVE  RecordInvariant'
<1> USE DEF ScribeStart
<1>1. PICK d : d = [NoFolder EXCEPT !.home = t, !.audio = "open"]
  OBVIOUS
<1>2. d \in Folders /\ d.audio = "open" /\ d.jr = "none" /\ ~d.stub
  BY <1>1, NoFolderFacts DEF Folders, Places
<1>3. disk' = [disk EXCEPT ![r] = d]
  BY <1>1
<1>4. ~Begun(r) /\ disk[r].jr = "none"
  BY NoFolderFacts DEF Begun
<1>5. disk' \in [Recs -> Folders] /\ \A q \in Recs : disk'[q] = IF q = r THEN d ELSE disk[q]
  BY <1>2, <1>3 DEF RecordInvariant, RecordTypeOK
<1>6. FoldersGoOn
  BY <1>2, <1>4, <1>5 DEF FoldersGoOn, Begun, Settled
<1>7. born[r] = 0
  BY <1>4 DEF RecordInvariant, RecordTypeOK, JournalIsKept
<1>8. JournalIsKept'
  BY <1>2, <1>5, <1>7 DEF RecordInvariant, JournalIsKept, NoScreen
<1>9. rt[r] \notin {"starting", "begun", "ticking", "stopping", "finished"}
  BY <1>4, <1>7, UnbegunFacts DEF RecordInvariant, RecordersAreSound
<1>10. RecordersAreSound'
  BY <1>2, <1>5, <1>9 DEF RecordInvariant, RecordersAreSound, NoScreen, Begun, Settled
<1>11. ScreensAreSound' /\ JobsAreSound'
  BY <1>6, ScreensKeep, JobsKeep DEF NoScreen
<1>12. owner' \in [Recs -> Processes \cup {None}] /\ capt' \subseteq Recs
  BY DEF RecordInvariant, RecordTypeOK, Processes
<1> QED
  BY <1>5, <1>8, <1>10, <1>11, <1>12 DEF RecordInvariant, RecordTypeOK, NoScreen

LEMMA ScribeStopStep ==
  ASSUME RecordInvariant, left' \in Nat, NoScreen, NEW r \in Recs, ScribeStop(r)
  PROVE  RecordInvariant'
<1> USE DEF ScribeStop
<1>1. disk[r] \in Folders
  BY DEF RecordInvariant, RecordTypeOK
<1>2. PICK d : d = [disk[r] EXCEPT !.audio = "wav"]
  OBVIOUS
<1>3. d \in Folders /\ d.audio = "wav" /\ d.jr = disk[r].jr /\ d.stub = disk[r].stub
  BY <1>1, <1>2 DEF Folders
<1>4. disk' = [disk EXCEPT ![r] = d]
  BY <1>2 DEF RecordInvariant, RecordTypeOK
<1>5. /\ d.audio = "none" <=> disk[r].audio = "none"
      /\ capt' \subseteq capt /\ r \notin capt' /\ sent' = sent
  BY <1>3
<1>6. /\ FoldersGoOn /\ JournalIsKept'
      /\ disk' \in [Recs -> Folders] /\ capt' \subseteq Recs
      /\ \A q \in Recs : Begun(q)' <=> Begun(q)
      /\ \A q \in capt' : disk'[q].audio = "open"
  BY <1>3, <1>4, <1>5, Written DEF NoScreen
<1>7. RecordersAreSound' /\ ScreensAreSound' /\ JobsAreSound'
  BY <1>6, RecordersKeep, ScreensKeep, JobsKeep DEF NoScreen
<1> QED
  BY <1>6, <1>7 DEF RecordInvariant, RecordTypeOK, NoScreen

LEMMA ScribeUploadStep ==
  ASSUME RecordInvariant, left' \in Nat, NoScreen, NEW r \in Recs, ScribeUpload(r)
  PROVE  RecordInvariant'
<1> USE DEF ScribeUpload
<1>1. disk[r] \in Folders /\ disk[r].home \in Places
  BY DEF RecordInvariant, RecordTypeOK, Folders
<1>2. PICK d : d = MarkPending(disk[r], disk[r].home)
  OBVIOUS
<1>3. d \in Folders /\ d.audio = disk[r].audio /\ d.jr = "pending" /\ d.stub = disk[r].stub
  BY <1>1, <1>2, MarkPendingFacts
<1>4. disk' = [disk EXCEPT ![r] = d]
  BY <1>2 DEF RecordInvariant, RecordTypeOK
<1>5. capt' = capt /\ sent' = sent /\ r \notin capt
  BY DEF RecordInvariant, RecordersAreSound
<1>6. /\ FoldersGoOn /\ JournalIsKept'
      /\ disk' \in [Recs -> Folders] /\ capt' \subseteq Recs
      /\ \A q \in Recs : Begun(q)' <=> Begun(q)
      /\ \A q \in capt' : disk'[q].audio = "open"
  BY <1>3, <1>4, <1>5, Written, ZenonT(60) DEF NoScreen
<1>7. RecordersAreSound' /\ ScreensAreSound'
  BY <1>6, RecordersKeep, ScreensKeep DEF NoScreen
<1>8. PICK row : row = Row(r)
  OBVIOUS
<1>9. PICK home : home = disk[r].home
  OBVIOUS
<1>10. row \in Listed /\ RowIsSound(row) /\ row.state # "orphaned"
  <2>1. row = [rec |-> r, home |-> disk[r].home, state |-> StateOf(r), team |-> ResolveTeam(r)]
    BY <1>8 DEF Row
  <2>2. ResolveTeam(r) \in Places
    BY <1>1 DEF ResolveTeam, Folders
  <2>3. StateOf(r) \in States /\ StateOf(r) # "orphaned"
    BY StateFacts DEF RecordInvariant, StateOf, States, OutboxStates
  <2> QED
    BY <1>1, <1>5, <2>1, <2>2, <2>3 DEF Listed, RowIsSound, Begun
<1>11. StartJob("scribe", row, home, home, 0)
  BY <1>8, <1>9
<1>12. job' \in [Jobs -> Uploads] /\ JobsAreSound'
  BY <1>1, <1>6, <1>9, <1>10, <1>11, StartJobFacts
<1>13. owner' \in [Recs -> Processes \cup {None}]
  BY DEF RecordInvariant, RecordTypeOK
<1> QED
  BY <1>5, <1>6, <1>7, <1>12, <1>13 DEF RecordInvariant, RecordTypeOK, NoScreen

(***************************************************************************)
(* The kill of a process.                                                  *)
(***************************************************************************)

LEMMA KilledFacts ==
  ASSUME RecordInvariant, born' = born, NEW p \in Processes, Killed(p)
  PROVE  /\ FoldersGoOn /\ JournalIsKept'
         /\ disk' \in [Recs -> Folders] /\ capt' \subseteq Recs
         /\ \A q \in Recs : Begun(q)' <=> Begun(q)
         /\ \A q \in capt' : disk'[q].audio = "open"
         /\ job' \in [Jobs -> Uploads] /\ JobsAreSound'
         /\ owner' \in [Recs -> Processes \cup {None}]
         /\ UNCHANGED <<sent, staged, got>>
<1>1. capt' \subseteq capt /\ UNCHANGED <<sent, staged, got>>
  BY DEF Killed
<1>2. owner' \in [Recs -> Processes \cup {None}]
  BY DEF Killed, RecordInvariant, RecordTypeOK
<1>3. job' \in [Jobs -> Uploads] /\ \A j \in Jobs : job'[j] = job[j] \/ job'[j].at = "free"
  BY FreeFacts DEF Killed, RecordInvariant, RecordTypeOK
<1>4. /\ FoldersGoOn /\ JournalIsKept'
      /\ disk' \in [Recs -> Folders] /\ capt' \subseteq Recs
      /\ \A q \in Recs : Begun(q)' <=> Begun(q)
      /\ \A q \in capt' : disk'[q].audio = "open"
  <2>1. CASE disk' = disk
    BY <1>1, <2>1, Untouched DEF RecordInvariant, RecordTypeOK
  <2>2. CASE disk' # disk
    <3>1. PICK j \in Jobs : /\ job[j].at = "move"
                            /\ disk' = [disk EXCEPT ![job[j].rec].home = job[j].team]
      BY <2>2 DEF Killed
    <3>2. PICK r : r = job[j].rec
      OBVIOUS
    <3>3. /\ r \in Recs /\ job[j].team \in Places /\ disk[r] \in Folders /\ r \notin capt
      BY <3>1, <3>2, JobFacts
    <3>4. PICK d : d = [disk[r] EXCEPT !.home = job[j].team]
      OBVIOUS
    <3>5. d \in Folders /\ d.audio = disk[r].audio /\ d.jr = disk[r].jr /\ d.stub = disk[r].stub
      BY <3>3, <3>4 DEF Folders
    <3>6. disk' = [disk EXCEPT ![r] = d]
      BY <3>1, <3>2, <3>4
    <3> QED
      BY <1>1, <3>3, <3>5, <3>6, Written
  <2> QED
    BY <2>1, <2>2
<1>5. JobsAreSound'
  BY <1>3, <1>4, JobsKeep
<1> QED
  BY <1>1, <1>2, <1>3, <1>4, <1>5

LEMMA KillOtherStep ==
  ASSUME RecordInvariant, left' \in Nat, NEW p \in {"cli", "scribe"}, KillOther(p)
  PROVE  RecordInvariant'
<1>1. p \in Processes /\ Killed(p) /\ NoScreen
  BY DEF Processes, KillOther, NoScreen
<1>2. /\ FoldersGoOn /\ JournalIsKept'
      /\ disk' \in [Recs -> Folders] /\ capt' \subseteq Recs
      /\ \A q \in Recs : Begun(q)' <=> Begun(q)
      /\ \A q \in capt' : disk'[q].audio = "open"
      /\ job' \in [Jobs -> Uploads] /\ JobsAreSound'
      /\ owner' \in [Recs -> Processes \cup {None}]
      /\ UNCHANGED <<sent, staged, got>>
  BY <1>1, KilledFacts DEF NoScreen
<1>3. RecordersAreSound' /\ ScreensAreSound'
  BY <1>1, <1>2, RecordersKeep, ScreensKeep DEF NoScreen
<1> QED
  BY <1>1, <1>2, <1>3 DEF RecordInvariant, RecordTypeOK, NoScreen

LEMMA KillStep ==
  ASSUME RecordInvariant, left' \in Nat, Kill
  PROVE  RecordInvariant'
<1>1. "tui" \in Processes /\ Killed("tui") /\ born' = born /\ modals' = <<>>
  BY DEF Processes, Kill
<1>2. /\ FoldersGoOn /\ JournalIsKept'
      /\ disk' \in [Recs -> Folders] /\ capt' \subseteq Recs
      /\ \A q \in Recs : Begun(q)' <=> Begun(q)
      /\ \A q \in capt' : disk'[q].audio = "open"
      /\ job' \in [Jobs -> Uploads] /\ JobsAreSound'
      /\ owner' \in [Recs -> Processes \cup {None}]
      /\ UNCHANGED <<sent, staged, got>>
  BY <1>1, KilledFacts
<1>3. PICK t : t = [Opened EXCEPT !.dest = tab.dest, !.gen = tab.gen]
  OBVIOUS
<1>4. t \in Tabs /\ t.pend = None
  BY <1>3 DEF Opened, RecordInvariant, RecordTypeOK, Tabs, Places
<1>5. tab' = t
  BY <1>3 DEF Kill
<1>6. rt' \in [Recs -> {"none", "gone"}]
  BY DEF Kill
<1>7. RecordersAreSound'
  BY <1>2, <1>6 DEF RecordersAreSound
<1>8. ScreensAreSound'
  BY <1>1, <1>2, <1>4, <1>5, ScreensKeep
<1>9. rt' \in [Recs -> RecorderStates]
  BY <1>6 DEF RecorderStates
<1>10. modals' \in Seq(Screens)
  BY <1>1
<1> QED
  BY <1>1, <1>2, <1>4, <1>5, <1>7, <1>8, <1>9, <1>10 DEF RecordInvariant, RecordTypeOK

(***************************************************************************)
(* The Record tab: the recording.                                          *)
(***************************************************************************)

\* The recorder thread and the tab go on; the folders stay.
LEMMA ThreadStep ==
  ASSUME RecordInvariant, left' \in Nat, NEW r \in Recs, NEW from, NEW to \in RecorderStates, Thread(r, from, to),
         disk' = disk, capt' \subseteq capt, tab' \in Tabs, tab'.pend = tab.pend,
         UNCHANGED <<owner, job, sent, staged, got, born, modals>>,
         to # "starting",
         to \in {"begun", "ticking", "stopping"} => Begun(r),
         to = "finished" => Settled(r)'
  PROVE  RecordInvariant'
<1>1. /\ FoldersGoOn /\ JournalIsKept' /\ disk' \in [Recs -> Folders]
      /\ \A q \in Recs : Begun(q)' <=> Begun(q)
      /\ \A q \in capt' : disk'[q].audio = "open"
  BY Untouched
<1>2. ScreensAreSound' /\ JobsAreSound'
  BY <1>1, ScreensKeep, JobsKeep
<1>3. rt' \in [Recs -> RecorderStates] /\ \A q \in Recs : rt'[q] = IF q = r THEN to ELSE rt[q]
  BY DEF Thread, RecorderStates, RecordInvariant, RecordTypeOK
<1>4. RecordersAreSound'
  BY <1>1, <1>3 DEF RecordInvariant, RecordersAreSound, FoldersGoOn
<1> QED
  BY <1>1, <1>2, <1>3, <1>4 DEF RecordInvariant, RecordTypeOK, RecorderStates, Tabs

LEMMA TabFacts == RecordInvariant => tab \in Tabs
  BY DEF RecordInvariant, RecordTypeOK

LEMMA RecorderRefusesStep ==
  ASSUME RecordInvariant, left' \in Nat, NEW r \in Recs, RecorderRefuses(r)
  PROVE  RecordInvariant'
  BY ThreadStep, TabFacts DEF RecorderRefuses, diskVars, RecorderStates

LEMMA RecorderDiesStep ==
  ASSUME RecordInvariant, left' \in Nat, NEW r \in Recs, RecorderDies(r)
  PROVE  RecordInvariant'
  BY ThreadStep, TabFacts DEF RecorderDies, RecorderStates

LEMMA StopRecordingStep ==
  ASSUME RecordInvariant, left' \in Nat, StopRecording
  PROVE  RecordInvariant'
<1>1. tab.ses \in Recs
  BY DEF StopRecording, RecordInvariant, RecordTypeOK, Tabs
<1>2. Begun(tab.ses)
  BY <1>1 DEF StopRecording, Thread, RecordInvariant, RecordersAreSound
<1> QED
  BY <1>1, <1>2, ThreadStep, TabFacts DEF StopRecording, diskVars, RecorderStates

LEMMA OnRecordingStep ==
  ASSUME RecordInvariant, left' \in Nat, NEW r \in Recs, OnRecording(r)
  PROVE  RecordInvariant'
<1>1. Begun(r) /\ Thread(r, "begun", "ticking")
  BY DEF OnRecording, Thread, RecordInvariant, RecordersAreSound
<1>2. tab' \in Tabs /\ tab'.pend = tab.pend
  BY TabFacts DEF OnRecording, Tabs
<1> QED
  BY <1>1, <1>2, ThreadStep DEF OnRecording, diskVars, RecorderStates

LEMMA OnRecorderFailedStep ==
  ASSUME RecordInvariant, left' \in Nat, NEW r \in Recs, OnRecorderFailed(r)
  PROVE  RecordInvariant'
<1>1. tab' \in Tabs /\ tab'.pend = tab.pend
  BY TabFacts DEF OnRecorderFailed, Tabs
<1> QED
  BY <1>1, ThreadStep DEF OnRecorderFailed, diskVars, RecorderStates

\* A new folder, under a number that no recording had.
LEMMA StartRecordingStep ==
  ASSUME RecordInvariant, left' \in Nat, NEW r \in Recs, StartRecording(r)
  PROVE  RecordInvariant'
<1> USE DEF StartRecording
<1>1. tab \in Tabs /\ tab.dest \in Places /\ tab.gen \in Nat
  BY TabFacts DEF Tabs, Places
<1>2. PICK d : d = [NoFolder EXCEPT !.home = tab.dest, !.jr = "recording", !.jt = tab.dest]
  OBVIOUS
<1>3. d \in Folders /\ d.audio = "none" /\ d.jr = "recording" /\ ~d.stub
  BY <1>1, <1>2, NoFolderFacts DEF Folders
<1>4. disk' = [disk EXCEPT ![r] = d]
  BY <1>2
<1>5. disk' \in [Recs -> Folders] /\ \A q \in Recs : disk'[q] = IF q = r THEN d ELSE disk[q]
  BY <1>3, <1>4 DEF RecordInvariant, RecordTypeOK
<1>6. ~Begun(r) /\ r \notin capt /\ capt' = capt /\ sent' = sent
  BY NoFolderFacts, UnbegunFacts DEF Begun
<1>7. FoldersGoOn
  BY <1>3, <1>5, <1>6 DEF FoldersGoOn, Begun, Settled
<1>8. born' \in [Recs -> Nat] /\ born'[r] > 0 /\ \A q \in Recs \ {r} : born'[q] = born[q]
  BY <1>1 DEF RecordInvariant, RecordTypeOK
<1>9. JournalIsKept'
  BY <1>3, <1>5, <1>6, <1>8 DEF RecordInvariant, JournalIsKept
<1>10. rt' \in [Recs -> RecorderStates] /\ \A q \in Recs : rt'[q] = IF q = r THEN "starting" ELSE rt[q]
  BY DEF Thread, RecorderStates, RecordInvariant, RecordTypeOK
<1>11. RecordersAreSound'
  BY <1>3, <1>5, <1>6, <1>8, <1>10 DEF RecordInvariant, RecordersAreSound, Begun, Settled
<1>12. PICK t : t = [tab EXCEPT !.ses = r, !.gen = tab.gen + 1]
  OBVIOUS
<1>13. t \in Tabs /\ t.pend = tab.pend /\ tab' = t
  <2>1. tab' = t
    BY <1>12
  <2> HIDE DEF StartRecording
  <2>2. PICK g \in Nat : g = tab.gen + 1
    BY <1>1
  <2>3. t = [tab EXCEPT !.ses = r, !.gen = g]
    BY <1>12, <2>2
  <2>4. t \in Tabs /\ t.pend = tab.pend
    BY <1>1, <2>3 DEF Tabs
  <2> QED
    BY <2>1, <2>4
<1>14. ScreensAreSound' /\ JobsAreSound'
  BY <1>7, <1>13, ScreensKeep, JobsKeep
<1> QED
  BY <1>5, <1>8, <1>9, <1>10, <1>11, <1>13, <1>14 DEF RecordInvariant, RecordTypeOK

LEMMA RecorderStartsStep ==
  ASSUME RecordInvariant, left' \in Nat, NEW r \in Recs, RecorderStarts(r)
  PROVE  RecordInvariant'
<1> USE DEF RecorderStarts
<1>1. PICK d : d = [disk[r] EXCEPT !.audio = "open"]
  OBVIOUS
<1>2. disk[r] \in Folders
  BY DEF RecordInvariant, RecordTypeOK
<1>3. d \in Folders /\ d.audio = "open" /\ d.jr = disk[r].jr /\ d.stub = disk[r].stub
  BY <1>1, <1>2 DEF Folders
<1>4. disk' = [disk EXCEPT ![r] = d]
  BY <1>1 DEF RecordInvariant, RecordTypeOK
<1>5. disk' \in [Recs -> Folders] /\ \A q \in Recs : disk'[q] = IF q = r THEN d ELSE disk[q]
  BY <1>3, <1>4 DEF RecordInvariant, RecordTypeOK
<1>6. ~Begun(r) /\ capt = {} /\ capt' = {r} /\ sent' = sent /\ born' = born
  BY DEF Thread, RecordInvariant, RecordersAreSound
<1>7. FoldersGoOn
  BY <1>3, <1>5, <1>6 DEF FoldersGoOn, Begun, Settled
<1>8. JournalIsKept'
  BY <1>3, <1>5, <1>6 DEF RecordInvariant, JournalIsKept
<1>9. rt' \in [Recs -> RecorderStates] /\ \A q \in Recs : rt'[q] = IF q = r THEN "begun" ELSE rt[q]
  BY DEF Thread, RecorderStates, RecordInvariant, RecordTypeOK
<1>10. RecordersAreSound'
  BY <1>3, <1>5, <1>6, <1>9 DEF RecordInvariant, RecordersAreSound, Begun, Settled
<1>11. ScreensAreSound' /\ JobsAreSound'
  BY <1>7, ScreensKeep, JobsKeep
<1>12. owner' \in [Recs -> Processes \cup {None}] /\ capt' \subseteq Recs
  BY <1>6 DEF RecordInvariant, RecordTypeOK, Processes
<1> QED
  BY <1>5, <1>6, <1>8, <1>9, <1>10, <1>11, <1>12 DEF RecordInvariant, RecordTypeOK

LEMMA StopsStep ==
  ASSUME RecordInvariant, left' \in Nat, NEW r \in Recs, NEW ok \in BOOLEAN, Stops(r, ok)
  PROVE  RecordInvariant'
<1> USE DEF Stops
<1>1. Begun(r) /\ disk[r] \in Folders
  BY DEF Thread, RecordInvariant, RecordersAreSound, RecordTypeOK
<1>2. CASE ~ok
  <2>1. disk' = disk /\ capt' \subseteq capt /\ Thread(r, "stopping", "failed")
    BY <1>2
  <2> QED
    BY <2>1, ThreadStep, TabFacts DEF RecorderStates
<1>3. CASE ok
  <2>1. PICK d : d = [disk[r] EXCEPT !.audio = "wav"]
    OBVIOUS
  <2>2. d \in Folders /\ d.audio = "wav" /\ d.jr = disk[r].jr /\ d.stub = disk[r].stub
    BY <1>1, <2>1 DEF Folders
  <2>3. disk' = [disk EXCEPT ![r] = d]
    BY <1>3, <2>1 DEF RecordInvariant, RecordTypeOK
  <2>4. /\ d.audio = "none" <=> disk[r].audio = "none"
        /\ capt' \subseteq capt /\ r \notin capt' /\ sent' = sent /\ born' = born
    BY <1>1, <2>2 DEF Begun
  <2>5. /\ FoldersGoOn /\ JournalIsKept'
        /\ disk' \in [Recs -> Folders] /\ capt' \subseteq Recs
        /\ \A q \in Recs : Begun(q)' <=> Begun(q)
        /\ \A q \in capt' : disk'[q].audio = "open"
    BY <2>2, <2>3, <2>4, Written
  <2>6. rt' \in [Recs -> RecorderStates] /\ \A q \in Recs : rt'[q] = IF q = r THEN "finished" ELSE rt[q]
    BY <1>3 DEF Thread, RecorderStates, RecordInvariant, RecordTypeOK
  <2>7. Settled(r)'
    BY <1>1, <2>4, <2>5 DEF Settled
  <2>8. RecordersAreSound'
    BY <2>4, <2>5, <2>6, <2>7 DEF RecordInvariant, RecordersAreSound, FoldersGoOn
  <2>9. ScreensAreSound' /\ JobsAreSound'
    BY <2>5, ScreensKeep, JobsKeep
  <2> QED
    BY <2>4, <2>5, <2>6, <2>8, <2>9 DEF RecordInvariant, RecordTypeOK
<1> QED
  BY <1>2, <1>3

LEMMA SetDestinationStep ==
  ASSUME RecordInvariant, left' \in Nat, NEW t \in Teams, SetDestination(t)
  PROVE  RecordInvariant'
<1> USE DEF SetDestination
<1>1. tab' \in Tabs /\ tab'.pend = tab.pend
  BY TabFacts DEF Tabs
<1>2. /\ FoldersGoOn /\ JournalIsKept'
      /\ disk' \in [Recs -> Folders] /\ capt' \subseteq Recs
      /\ \A q \in Recs : Begun(q)' <=> Begun(q)
      /\ \A q \in capt' : disk'[q].audio = "open"
  <2>1. CASE tab.rec /\ tab.ses # None
    <3>1. PICK r \in Recs : r = tab.ses
      BY <2>1, TabFacts DEF Tabs
    <3>2. disk[r] \in Folders /\ t \in Places
      BY DEF RecordInvariant, RecordTypeOK, Places
    <3>3. PICK d : d = SetTeam(disk[r], t)
      OBVIOUS
    <3>4. d \in Folders /\ d.audio = disk[r].audio /\ d.jr = disk[r].jr /\ d.stub = disk[r].stub
      BY <3>2, <3>3, SetTeamFacts
    <3>5. disk' = [disk EXCEPT ![r] = d]
      BY <2>1, <3>1, <3>3 DEF RecordInvariant, RecordTypeOK
    <3>6. d.audio # "open" => r \notin capt'
      BY <3>4 DEF RecordInvariant, RecordersAreSound
    <3>7. capt' = capt /\ sent' = sent /\ born' = born
      OBVIOUS
    <3> HIDE DEF SetDestination
    <3> QED
      BY <3>4, <3>5, <3>6, <3>7, Written
  <2>2. CASE ~(tab.rec /\ tab.ses # None)
    BY <2>2, Untouched DEF RecordInvariant, RecordTypeOK
  <2> QED
    BY <2>1, <2>2
<1>3. RecordersAreSound' /\ ScreensAreSound' /\ JobsAreSound'
  BY <1>1, <1>2, RecordersKeep, ScreensKeep, JobsKeep
<1> QED
  BY <1>1, <1>2, <1>3 DEF RecordInvariant, RecordTypeOK

LEMMA StageFileStep ==
  ASSUME RecordInvariant, left' \in Nat, NEW r \in Recs, StageFile(r)
  PROVE  RecordInvariant'
<1> USE DEF StageFile
<1>1. /\ FoldersGoOn /\ JournalIsKept' /\ disk' \in [Recs -> Folders]
      /\ \A q \in Recs : Begun(q)' <=> Begun(q)
      /\ \A q \in capt' : disk'[q].audio = "open"
  BY Untouched
<1>2. RecordersAreSound' /\ ScreensAreSound' /\ JobsAreSound'
  BY <1>1, RecordersKeep, ScreensKeep, JobsKeep
<1> QED
  BY <1>1, <1>2 DEF RecordInvariant, RecordTypeOK

\* The recording is over: it is pending, and its review is shown.
LEMMA OnRecorderFinishedStep ==
  ASSUME RecordInvariant, left' \in Nat, NEW r \in Recs, OnRecorderFinished(r)
  PROVE  RecordInvariant'
<1> USE DEF OnRecorderFinished
<1>1. Settled(r) /\ Thread(r, "finished", "gone")
  BY DEF Thread, RecordInvariant, RecordersAreSound
<1>2. CASE ~Heard(born[r])
  BY <1>1, <1>2, ThreadStep, TabFacts DEF RecorderStates
<1>3. CASE Heard(born[r])
  <2>1. disk[r] \in Folders /\ disk[r].home \in Places /\ tab \in Tabs /\ tab.dest \in Places
    BY TabFacts DEF RecordInvariant, RecordTypeOK, Folders, Tabs, Places
  <2>2. PICK d : d = MarkPending(disk[r], tab.dest)
    OBVIOUS
  <2>3. d \in Folders /\ d.audio = disk[r].audio /\ d.jr = "pending" /\ d.stub = disk[r].stub
    BY <2>1, <2>2, MarkPendingFacts
  <2>4. disk' = [disk EXCEPT ![r] = d]
    BY <1>3, <2>2 DEF RecordInvariant, RecordTypeOK
  <2>5. d.audio # "open" => r \notin capt'
    BY <1>1 DEF Settled
  <2>6. /\ FoldersGoOn /\ JournalIsKept'
        /\ disk' \in [Recs -> Folders] /\ capt' \subseteq Recs
        /\ \A q \in Recs : Begun(q)' <=> Begun(q)
        /\ \A q \in capt' : disk'[q].audio = "open"
    BY <2>3, <2>4, <2>5, Written
  <2>7. rt' \in [Recs -> RecorderStates] /\ \A q \in Recs : rt'[q] = IF q = r THEN "gone" ELSE rt[q]
    BY DEF Thread, RecorderStates, RecordInvariant, RecordTypeOK
  <2>8. RecordersAreSound'
    BY <2>6, <2>7 DEF RecordInvariant, RecordersAreSound, FoldersGoOn
  <2>9. tab' \in Tabs /\ tab'.pend = tab.pend
    BY <1>3, <2>1 DEF Tabs
  <2>10. JobsAreSound'
    BY <2>6, JobsKeep
  <2>11. PICK w : w = [rec |-> r, home |-> disk[r].home, state |-> "pending", team |-> tab.dest]
    OBVIOUS
  <2>12. w \in Listed /\ w.rec = r /\ w.state = "pending"
    BY <2>1, <2>11 DEF Listed, States, OutboxStates
  <2>13. PICK m : m = Review(w, "tab")
    OBVIOUS
  <2>14. m \in Screens /\ m.row = w /\ m.kind = "review" /\ m.from = "tab"
    BY <2>12, <2>13 DEF Review, Screens
  <2>15. ScreenIsSound(m)'
    BY <1>1, <2>6, <2>12, <2>14 DEF FoldersGoOn, Settled, ScreenIsSound, RowIsSound
  <2>16. modals' = Append(modals, m)
    BY <1>3, <2>11, <2>13 DEF Show
  <2>17. ScreensAreSound' /\ modals' \in Seq(Screens)
    BY <2>6, <2>9, <2>14, <2>15, <2>16, ScreensShow
  <2> QED
    BY <2>6, <2>7, <2>8, <2>9, <2>10, <2>17 DEF RecordInvariant, RecordTypeOK
<1> QED
  BY <1>2, <1>3

(***************************************************************************)
(* The reviews and the uploads of the Record tab.                          *)
(***************************************************************************)

\* A step on the screens alone.
LEMMA ScreenStep ==
  ASSUME RecordInvariant, left' \in Nat, UNCHANGED <<diskVars, rt, born>>,
         tab' \in Tabs, modals' \in Seq(Screens), ScreensAreSound'
  PROVE  RecordInvariant'
<1>1. /\ FoldersGoOn /\ JournalIsKept' /\ disk' \in [Recs -> Folders]
      /\ \A q \in Recs : Begun(q)' <=> Begun(q)
      /\ \A q \in capt' : disk'[q].audio = "open"
  BY Untouched DEF diskVars
<1>2. RecordersAreSound' /\ JobsAreSound'
  BY <1>1, RecordersKeep, JobsKeep DEF diskVars
<1> QED
  BY <1>1, <1>2 DEF RecordInvariant, RecordTypeOK, diskVars

LEMMA DismissStep ==
  ASSUME RecordInvariant, left' \in Nat, Dismiss
  PROVE  RecordInvariant'
<1>1. modals # <<>> /\ Beneath \in Seq(Screens) /\ modals' = Beneath
  BY BeneathFacts DEF Dismiss, RecordInvariant
<1>2. FoldersGoOn
  BY Untouched DEF Dismiss, diskVars
<1>3. ScreensAreSound'
  BY <1>1, <1>2, ScreensKeep DEF Dismiss
<1> QED
  BY <1>1, <1>3, ScreenStep, TabFacts DEF Dismiss

\* A screen is opened on a row.
LEMMA ShowStep ==
  ASSUME RecordInvariant, left' \in Nat, UNCHANGED <<diskVars, tab, rt, born>>,
         NEW m \in Screens, ScreenIsSound(m), Show(m)
  PROVE  RecordInvariant'
<1>1. FoldersGoOn
  BY Untouched DEF diskVars
<1>2. ScreenIsSound(m)'
  BY <1>1, ScreensGoOn
<1>3. modals' = Append(modals, m)
  BY DEF Show
<1>4. ScreensAreSound' /\ modals' \in Seq(Screens)
  BY <1>1, <1>2, <1>3, ScreensShow
<1> QED
  BY <1>4, ScreenStep, TabFacts

LEMMA ImportFileStep ==
  ASSUME RecordInvariant, left' \in Nat, NEW r \in Recs, ImportFile(r)
  PROVE  RecordInvariant'
<1> USE DEF ImportFile
<1>1. disk[r] \in Folders /\ disk[r].home \in Places /\ tab.dest \in Places
  BY TabFacts DEF RecordInvariant, RecordTypeOK, Folders, Tabs, Places
<1>2. Begun(r) /\ r \notin capt
  BY DEF RecordInvariant, RecordersAreSound, Begun
<1>3. StateOf(r) \in States /\ StateOf(r) # "orphaned"
  BY StateFacts DEF RecordInvariant, StateOf, Salvageable
<1>4. PICK w : w = [Row(r) EXCEPT !.team = tab.dest]
  OBVIOUS
<1>5. w = [rec |-> r, home |-> disk[r].home, state |-> StateOf(r), team |-> tab.dest]
  BY <1>4 DEF Row
<1>6. w \in Listed /\ w.rec = r /\ w.state # "orphaned"
  BY <1>1, <1>3, <1>5 DEF Listed
<1>7. PICK m : m = Review(w, "import")
  OBVIOUS
<1>8. m \in Screens /\ m.row = w
  BY <1>6, <1>7 DEF Review, Screens
<1>9. ScreenIsSound(m)
  BY <1>2, <1>6, <1>8 DEF ScreenIsSound, RowIsSound
<1>10. Show(m)
  BY <1>4, <1>7
<1> QED
  BY <1>8, <1>9, <1>10, ShowStep

LEMMA ActionReauthStep ==
  ASSUME RecordInvariant, left' \in Nat, ActionReauth
  PROVE  RecordInvariant'
<1> USE DEF ActionReauth
<1>1. PICK w : w = tab.pend
  OBVIOUS
<1>2. w \in Listed /\ RowIsSound(w) /\ w.state # "orphaned"
  BY <1>1, TabFacts DEF Tabs, RecordInvariant, ScreensAreSound
<1>3. PICK m : m = Reauth(w)
  OBVIOUS
<1>4. m \in Screens /\ m.row = w
  BY <1>2, <1>3 DEF Reauth, Screens
<1>5. ScreenIsSound(m)
  BY <1>2, <1>4 DEF ScreenIsSound
<1>6. Show(m)
  BY <1>1, <1>3
<1> QED
  BY <1>4, <1>5, <1>6, ShowStep

LEMMA BoxOpenStep ==
  ASSUME RecordInvariant, left' \in Nat, NEW r \in Recs, NEW verb \in {"review", "move", "discard"},
         BoxOpen(r, verb)
  PROVE  RecordInvariant'
<1>1. /\ StateOf(r) \notin {"absent", "in-progress"}
      /\ StateOf(r) = "orphaned" => verb \in {"review", "move"}
  BY DEF BoxOpen, Actionable
<1>2. PICK w : w = Row(r)
  OBVIOUS
<1>3. w \in Listed /\ RowIsSound(w) /\ w.state = StateOf(r)
  BY <1>1, <1>2, RowFacts DEF RecordInvariant
<1>4. PICK m : m = [kind |-> verb, row |-> w, from |-> "box"]
  OBVIOUS
<1>5. m \in Screens /\ m.row = w /\ m.kind = verb /\ m.from = "box"
  BY <1>3, <1>4 DEF Screens
<1>6. ScreenIsSound(m)
  BY <1>1, <1>3, <1>5 DEF ScreenIsSound
<1>7. Show(m) /\ UNCHANGED <<diskVars, tab, rt, born>>
  BY <1>2, <1>4 DEF BoxOpen
<1> QED
  BY <1>5, <1>6, <1>7, ShowStep

LEMMA FrontFacts ==
  ASSUME RecordInvariant, ~AtTabs
  PROVE  /\ modals # <<>> /\ Beneath \in Seq(Screens)
         /\ Front.row \in Listed /\ Front.row.rec \in Recs /\ Front.row.home \in Places
         /\ RowIsSound(Front.row)
         /\ Front.from # "box" \/ Front.kind \in {"reauth", "discard"} => Front.row.state # "orphaned"
<1>1. /\ modals # <<>> /\ Beneath \in Seq(Screens) /\ Front \in Screens
      /\ Len(modals) \in 1..Len(modals) /\ Front = modals[Len(modals)]
  BY BeneathFacts DEF RecordInvariant
<1>2. ScreenIsSound(Front)
  BY <1>1 DEF RecordInvariant, ScreensAreSound
<1>3. Front.row \in Listed
  BY <1>1 DEF Screens
<1> QED
  BY <1>1, <1>2, <1>3 DEF ScreenIsSound, Listed

\* An upload is begun for the row of the screen in front, which is closed.
LEMMA AnswerStarts ==
  ASSUME RecordInvariant, left' \in Nat, ~AtTabs, modals' = Beneath, NEW w, w = Front.row,
         NEW d \in Folders, d.audio = disk[w.rec].audio, d.jr = "none" => disk[w.rec].jr = "none",
         d.jr = "done" => disk[w.rec].jr = "done", d.stub = disk[w.rec].stub,
         disk' = disk \/ disk' = [disk EXCEPT ![w.rec] = d],
         UNCHANGED <<capt, owner, sent, staged, got, rt, born>>,
         tab' \in Tabs, tab'.pend \in {tab.pend, None}
  PROVE  /\ FoldersGoOn
         /\ job' \in [Jobs -> Uploads] /\ JobsAreSound' => RecordInvariant'
<1>1. w.rec \in Recs /\ modals # <<>> /\ Beneath \in Seq(Screens)
  BY FrontFacts
<1>2. d.audio # "open" => w.rec \notin capt'
  BY <1>1 DEF RecordInvariant, RecordersAreSound
<1>3. /\ FoldersGoOn /\ JournalIsKept'
      /\ disk' \in [Recs -> Folders] /\ capt' \subseteq Recs
      /\ \A q \in Recs : Begun(q)' <=> Begun(q)
      /\ \A q \in capt' : disk'[q].audio = "open"
  <2>1. PICK r \in Recs : r = w.rec
    BY <1>1
  <2>2. /\ d.audio = "none" <=> disk[r].audio = "none"
        /\ d.jr = "none" => disk[r].jr = "none"
        /\ d.jr = "done" => disk[r].jr = "done" \/ sent'[r] # <<>>
        /\ d.stub => disk[r].stub \/ sent'[r] # <<>>
        /\ disk' = disk \/ disk' = [disk EXCEPT ![r] = d]
        /\ d.audio # "open" => r \notin capt'
    BY <1>2, <2>1
  <2> QED
    BY <2>2, Written
<1>4. RecordersAreSound' /\ ScreensAreSound'
  BY <1>1, <1>3, RecordersKeep, ScreensKeep
<1> QED
  BY <1>1, <1>3, <1>4 DEF RecordInvariant, RecordTypeOK

LEMMA ReviewUploadStep ==
  ASSUME RecordInvariant, left' \in Nat, NEW t \in Teams, ReviewUpload(t)
  PROVE  RecordInvariant'
<1>1. PICK w : w = Front.row
  OBVIOUS
<1>2. /\ ~AtTabs /\ Front.kind = "review" /\ Front.from \in {"tab", "import"} /\ modals' = Beneath
      /\ UNCHANGED <<capt, owner, sent, staged, got, rt, born>>
  BY DEF ReviewUpload
<1>3. /\ w \in Listed /\ w.rec \in Recs /\ RowIsSound(w) /\ w.state # "orphaned"
      /\ disk[w.rec] \in Folders /\ t \in Places /\ tab \in Tabs
  BY <1>1, <1>2, FrontFacts, TabFacts DEF RecordInvariant, RecordTypeOK, Places
<1>4. PICK D : D = IF Front.from = "tab" THEN Rehome(disk[w.rec], t) ELSE disk[w.rec]
  OBVIOUS
<1>5. D \in Folders /\ D.audio = disk[w.rec].audio /\ D.stub = disk[w.rec].stub
  BY <1>3, <1>4, RehomeFacts
<1>6. PICK d : d = MarkPending(D, t)
  OBVIOUS
<1>7. d \in Folders /\ d.audio = disk[w.rec].audio /\ d.stub = disk[w.rec].stub /\ d.jr = "pending"
  BY <1>3, <1>5, <1>6, MarkPendingFacts
<1>8. Kick(w, t, D)
  BY <1>1, <1>4 DEF ReviewUpload
<1>9. disk' = disk \/ disk' = [disk EXCEPT ![w.rec] = d]
  BY <1>6, <1>8 DEF Kick
<1>10. tab' \in Tabs /\ tab'.pend = tab.pend
  BY <1>3, <1>8 DEF Kick, Tabs
<1>11. FoldersGoOn /\ (job' \in [Jobs -> Uploads] /\ JobsAreSound' => RecordInvariant')
  BY <1>1, <1>2, <1>7, <1>9, <1>10, AnswerStarts
<1>12. PICK v : v = IF Finds(w.rec, w.home) THEN [w EXCEPT !.home = D.home] ELSE w
  OBVIOUS
<1>13. v \in Listed /\ RowIsSound(v) /\ v.state # "orphaned"
  BY <1>3, <1>5, <1>12 DEF Listed, Folders, RowIsSound
<1>14. PICK g \in Nat : g = tab.gen
  BY <1>3 DEF Tabs
<1>15. StartJob("tab", v, t, t, g)
  BY <1>8, <1>12, <1>14 DEF Kick
<1>16. job' \in [Jobs -> Uploads] /\ JobsAreSound'
  BY <1>3, <1>11, <1>13, <1>15, StartJobFacts
<1> QED
  BY <1>11, <1>16

LEMMA SignedInStep ==
  ASSUME RecordInvariant, left' \in Nat, SignedIn
  PROVE  RecordInvariant'
<1>1. PICK w : w = Front.row
  OBVIOUS
<1>2. PICK t : t = tab.rev
  OBVIOUS
<1>3. PICK g : g = tab.gen
  OBVIOUS
<1>4. /\ ~AtTabs /\ Front.kind = "reauth" /\ modals' = Beneath
      /\ UNCHANGED <<capt, owner, sent, staged, got, rt, born>>
      /\ tab' = [tab EXCEPT !.pend = None, !.ups = TRUE]
      /\ disk' = IF Finds(w.rec, w.home) THEN [disk EXCEPT ![w.rec] = MarkPending(@, t)] ELSE disk
      /\ StartJob("tab", w, t, w.team, g)
  BY <1>1, <1>2, <1>3 DEF SignedIn
<1>5. /\ w \in Listed /\ w.rec \in Recs /\ RowIsSound(w) /\ w.state # "orphaned"
      /\ disk[w.rec] \in Folders /\ t \in Places /\ g \in Nat /\ tab \in Tabs /\ w.team \in Places
  BY <1>1, <1>2, <1>3, <1>4, FrontFacts, TabFacts DEF RecordInvariant, RecordTypeOK, Tabs, Listed
<1>6. PICK d : d = MarkPending(disk[w.rec], t)
  OBVIOUS
<1>7. d \in Folders /\ d.audio = disk[w.rec].audio /\ d.stub = disk[w.rec].stub /\ d.jr = "pending"
  BY <1>5, <1>6, MarkPendingFacts
<1>8. disk' = disk \/ disk' = [disk EXCEPT ![w.rec] = d]
  BY <1>4, <1>6 DEF RecordInvariant, RecordTypeOK
<1>9. tab' \in Tabs /\ tab'.pend = None
  BY <1>4, <1>5 DEF Tabs
<1>10. FoldersGoOn /\ (job' \in [Jobs -> Uploads] /\ JobsAreSound' => RecordInvariant')
  BY <1>1, <1>4, <1>7, <1>8, <1>9, AnswerStarts
<1>11. job' \in [Jobs -> Uploads] /\ JobsAreSound'
  BY <1>4, <1>5, <1>10, StartJobFacts
<1> QED
  BY <1>10, <1>11

LEMMA BoxUploadStep ==
  ASSUME RecordInvariant, left' \in Nat, NEW t \in Teams, BoxUpload(t)
  PROVE  RecordInvariant'
<1>1. PICK w : w = Front.row
  OBVIOUS
<1>2. /\ ~AtTabs /\ modals' = Beneath /\ disk' = disk /\ tab' = tab
      /\ UNCHANGED <<capt, owner, sent, staged, got, rt, born>>
      /\ StartJob("box", w, t, t, 0)
  BY <1>1 DEF BoxUpload
<1>3. /\ w \in Listed /\ w.rec \in Recs /\ RowIsSound(w)
      /\ disk[w.rec] \in Folders /\ t \in Places /\ tab \in Tabs
  BY <1>1, <1>2, FrontFacts, TabFacts DEF RecordInvariant, RecordTypeOK, Places
<1>4. PICK d : d = disk[w.rec]
  OBVIOUS
<1>5. FoldersGoOn /\ (job' \in [Jobs -> Uploads] /\ JobsAreSound' => RecordInvariant')
  BY <1>1, <1>2, <1>3, <1>4, AnswerStarts
<1>6. job' \in [Jobs -> Uploads] /\ JobsAreSound'
  BY <1>2, <1>3, <1>5, StartJobFacts
<1> QED
  BY <1>5, <1>6

\* The answer writes the folder, and starts nothing.
LEMMA AnswerWrites ==
  ASSUME RecordInvariant, left' \in Nat, ~AtTabs, modals' = Beneath, NEW w, w = Front.row,
         NEW d \in Folders, d.audio = disk[w.rec].audio, d.jr = "none" => disk[w.rec].jr = "none",
         d.jr = "done" => disk[w.rec].jr = "done", d.stub = disk[w.rec].stub,
         disk' = disk \/ disk' = [disk EXCEPT ![w.rec] = d],
         staged' \subseteq Recs, UNCHANGED <<capt, owner, job, sent, got, tab, rt, born>>
  PROVE  RecordInvariant'
<1>1. PICK r \in Recs : r = w.rec
  BY FrontFacts
<1>2. modals # <<>> /\ Beneath \in Seq(Screens)
  BY FrontFacts
<1>3. d.audio # "open" => r \notin capt'
  BY <1>1 DEF RecordInvariant, RecordersAreSound
<1>4. /\ FoldersGoOn /\ JournalIsKept'
      /\ disk' \in [Recs -> Folders] /\ capt' \subseteq Recs
      /\ \A q \in Recs : Begun(q)' <=> Begun(q)
      /\ \A q \in capt' : disk'[q].audio = "open"
  <2>1. /\ d.audio = "none" <=> disk[r].audio = "none"
        /\ d.jr = "none" => disk[r].jr = "none"
        /\ d.jr = "done" => disk[r].jr = "done" \/ sent'[r] # <<>>
        /\ d.stub => disk[r].stub \/ sent'[r] # <<>>
        /\ disk' = disk \/ disk' = [disk EXCEPT ![r] = d]
    BY <1>1
  <2> QED
    BY <1>3, <2>1, Written
<1>5. RecordersAreSound' /\ ScreensAreSound' /\ JobsAreSound'
  BY <1>2, <1>4, RecordersKeep, ScreensKeep, JobsKeep
<1> QED
  BY <1>2, <1>4, <1>5 DEF RecordInvariant, RecordTypeOK

LEMMA ReviewHoldStep ==
  ASSUME RecordInvariant, left' \in Nat, NEW t \in Teams, ReviewHold(t)
  PROVE  RecordInvariant'
<1>1. PICK w : w = Front.row
  OBVIOUS
<1>2. PICK b \in BOOLEAN : b = (staged # {})
  OBVIOUS
<1>3. /\ ~AtTabs /\ modals' = Beneath /\ staged' = {}
      /\ UNCHANGED <<capt, owner, job, sent, got, tab, rt, born>>
      /\ Write(w.rec, w.home, MarkHeld(Park(Rehome(disk[w.rec], t)), t, b))
  BY <1>1, <1>2 DEF ReviewHold
<1>4. disk[w.rec] \in Folders /\ t \in Places /\ staged \subseteq Recs
  BY <1>1, <1>3, FrontFacts DEF RecordInvariant, RecordTypeOK, Places
<1>5. PICK e : e = Rehome(disk[w.rec], t)
  OBVIOUS
<1>6. PICK f : f = Park(e)
  OBVIOUS
<1>7. PICK d : d = MarkHeld(f, t, b)
  OBVIOUS
<1>8. e \in Folders /\ e.audio = disk[w.rec].audio /\ e.stub = disk[w.rec].stub
  BY <1>4, <1>5, RehomeFacts
<1>9. f \in Folders /\ f.audio = disk[w.rec].audio /\ f.stub = disk[w.rec].stub
  BY <1>4, <1>6, <1>8, ParkFacts
<1>10. d \in Folders /\ d.audio = disk[w.rec].audio /\ d.stub = disk[w.rec].stub /\ d.jr = "held"
  BY <1>4, <1>7, <1>9, MarkHeldFacts
<1>11. disk' = disk \/ disk' = [disk EXCEPT ![w.rec] = d]
  BY <1>3, <1>5, <1>6, <1>7 DEF Write
<1>12. staged' \subseteq Recs
  BY <1>3
<1> QED
  BY <1>1, <1>3, <1>10, <1>11, <1>12, AnswerWrites

LEMMA BoxHoldStep ==
  ASSUME RecordInvariant, left' \in Nat, NEW t \in Teams, BoxHold(t)
  PROVE  RecordInvariant'
<1>1. PICK w : w = Front.row
  OBVIOUS
<1>2. /\ ~AtTabs /\ modals' = Beneath
      /\ UNCHANGED <<capt, owner, job, sent, staged, got, tab, rt, born>>
      /\ \/ disk' = disk
         \/ Write(w.rec, w.home,
                  MarkHeld(IF t = w.team THEN disk[w.rec] ELSE Rehome(disk[w.rec], t), t, disk[w.rec].held))
  BY <1>1 DEF BoxHold
<1>3. disk[w.rec] \in Folders /\ t \in Places /\ staged \subseteq Recs /\ disk[w.rec].held \in BOOLEAN
  BY <1>1, <1>2, FrontFacts DEF RecordInvariant, RecordTypeOK, Places, Folders
<1>4. PICK e : e = IF t = w.team THEN disk[w.rec] ELSE Rehome(disk[w.rec], t)
  OBVIOUS
<1>5. e \in Folders /\ e.audio = disk[w.rec].audio /\ e.stub = disk[w.rec].stub
  BY <1>3, <1>4, RehomeFacts
<1>6. PICK d : d = MarkHeld(e, t, disk[w.rec].held)
  OBVIOUS
<1>7. d \in Folders /\ d.audio = disk[w.rec].audio /\ d.stub = disk[w.rec].stub /\ d.jr = "held"
  BY <1>3, <1>5, <1>6, MarkHeldFacts
<1>8. disk' = disk \/ disk' = [disk EXCEPT ![w.rec] = d]
  BY <1>2, <1>4, <1>6 DEF Write
<1>9. staged' \subseteq Recs
  BY <1>2, <1>3
<1> QED
  BY <1>1, <1>2, <1>7, <1>8, <1>9, AnswerWrites

LEMMA BoxMoveStep ==
  ASSUME RecordInvariant, left' \in Nat, NEW t \in Teams, BoxMove(t)
  PROVE  RecordInvariant'
<1>1. PICK w : w = Front.row
  OBVIOUS
<1>2. PICK d : d = Rehome(disk[w.rec], t)
  OBVIOUS
<1>3. /\ ~AtTabs /\ modals' = Beneath
      /\ UNCHANGED <<capt, owner, job, sent, staged, got, tab, rt, born>>
      /\ disk' = disk \/ disk' = [disk EXCEPT ![w.rec] = d]
  BY <1>1, <1>2 DEF BoxMove, Write
<1>4. disk[w.rec] \in Folders /\ t \in Places /\ staged' \subseteq Recs
  BY <1>1, <1>3, FrontFacts DEF RecordInvariant, RecordTypeOK, Places
<1>5. d \in Folders /\ d.audio = disk[w.rec].audio /\ d.stub = disk[w.rec].stub /\ d.jr = disk[w.rec].jr
  BY <1>2, <1>4, RehomeFacts
<1> QED
  BY <1>1, <1>3, <1>4, <1>5, AnswerWrites

LEMMA BoxDiscardStep ==
  ASSUME RecordInvariant, left' \in Nat, BoxDiscard
  PROVE  RecordInvariant'
<1>1. PICK w : w = Front.row
  OBVIOUS
<1>2. PICK d : d = [disk[w.rec] EXCEPT !.home = Trash]
  OBVIOUS
<1>3. /\ ~AtTabs /\ modals' = Beneath
      /\ UNCHANGED <<capt, owner, job, sent, staged, got, tab, rt, born>>
      /\ disk' = disk \/ disk' = [disk EXCEPT ![w.rec] = d]
  BY <1>1, <1>2 DEF BoxDiscard, Write
<1>4. disk[w.rec] \in Folders /\ staged' \subseteq Recs
  BY <1>1, <1>3, FrontFacts DEF RecordInvariant, RecordTypeOK
<1>5. d \in Folders /\ d.audio = disk[w.rec].audio /\ d.stub = disk[w.rec].stub /\ d.jr = disk[w.rec].jr
  BY <1>2, <1>4 DEF Folders, Places
<1> QED
  BY <1>1, <1>3, <1>4, <1>5, AnswerWrites

(***************************************************************************)
(* The messages of an upload.                                              *)
(***************************************************************************)

LEMMA TakeFacts ==
  ASSUME RecordInvariant, NEW j \in Jobs, NEW at, TakeMessage(j, at),
         UNCHANGED <<disk, capt, owner, sent, staged, got, rt, born>>
  PROVE  /\ FoldersGoOn /\ JournalIsKept' /\ RecordersAreSound'
         /\ job' \in [Jobs -> Uploads] /\ JobsAreSound'
<1>1. /\ FoldersGoOn /\ JournalIsKept' /\ disk' \in [Recs -> Folders]
      /\ \A q \in Recs : Begun(q)' <=> Begun(q)
      /\ \A q \in capt' : disk'[q].audio = "open"
  BY Untouched
<1>2. job' \in [Jobs -> Uploads] /\ \A i \in Jobs : job'[i] = job[i] \/ job'[i].at = "free"
  BY FreeFacts DEF TakeMessage, RecordInvariant, RecordTypeOK
<1> QED
  BY <1>1, <1>2, RecordersKeep, JobsKeep

LEMMA UploadToldStep ==
  ASSUME RecordInvariant, left' \in Nat, NEW j \in Jobs, OnUploadFinished(j) \/ OnUploadFailed(j)
  PROVE  RecordInvariant'
<1>1. /\ UNCHANGED <<disk, capt, owner, sent, staged, got, rt, born, modals>>
      /\ TakeMessage(j, "finished") \/ TakeMessage(j, "failed")
      /\ tab' = IF Heard(job[j].gen) THEN [tab EXCEPT !.ups = FALSE] ELSE tab
  BY DEF OnUploadFinished, OnUploadFailed
<1>2. tab' \in Tabs /\ tab'.pend = tab.pend
  BY <1>1, TabFacts DEF Tabs
<1>3. /\ FoldersGoOn /\ JournalIsKept' /\ RecordersAreSound'
      /\ job' \in [Jobs -> Uploads] /\ JobsAreSound'
  BY <1>1, TakeFacts
<1>4. ScreensAreSound'
  BY <1>1, <1>2, <1>3, ScreensKeep
<1> QED
  BY <1>1, <1>2, <1>3, <1>4 DEF RecordInvariant, RecordTypeOK

LEMMA OnUploadExpiredStep ==
  ASSUME RecordInvariant, left' \in Nat, NEW j \in Jobs, OnUploadExpired(j)
  PROVE  RecordInvariant'
<1>1. /\ UNCHANGED <<disk, capt, owner, sent, staged, got, rt, born>>
      /\ TakeMessage(j, "expired") /\ job[j].at = "expired"
  BY DEF OnUploadExpired, TakeMessage
<1>2. /\ FoldersGoOn /\ JournalIsKept' /\ RecordersAreSound'
      /\ job' \in [Jobs -> Uploads] /\ JobsAreSound'
  BY <1>1, TakeFacts
<1>3. CASE ~Heard(job[j].gen)
  <2>1. tab' = tab /\ modals' = modals
    BY <1>3 DEF OnUploadExpired
  <2>2. ScreensAreSound'
    BY <1>2, <2>1, ScreensKeep
  <2> QED
    BY <1>1, <1>2, <2>1, <2>2 DEF RecordInvariant, RecordTypeOK
<1>4. CASE Heard(job[j].gen)
  <2>1. PICK w : w = Uploading(j)
    OBVIOUS
  <2>2. /\ job[j] \in Uploads /\ job[j].rec \in Recs /\ Begun(job[j].rec) /\ job[j].rec \notin capt
    BY <1>1, JobFacts
  <2>3. w = [rec |-> job[j].rec, home |-> job[j].home, state |-> "failed", team |-> job[j].chosen]
    BY <2>1 DEF Uploading
  <2>4. w \in Listed /\ w.rec = job[j].rec /\ w.state = "failed" /\ w.rec \in Recs
    BY <2>2, <2>3 DEF Uploads, Listed, States, OutboxStates
  <2>5. PICK m : m = Reauth(w)
    OBVIOUS
  <2>6. m \in Screens /\ m.row = w
    BY <2>4, <2>5 DEF Reauth, Screens
  <2>7. tab' = [tab EXCEPT !.ups = FALSE, !.pend = w] /\ modals' = Append(modals, m)
    BY <1>4, <2>1, <2>5 DEF OnUploadExpired, Show
  <2>8. tab' \in Tabs /\ tab'.pend = w
    BY <2>4, <2>7, TabFacts DEF Tabs
  <2>9. RowIsSound(w)'
    BY <1>2, <2>2, <2>4 DEF RowIsSound, FoldersGoOn, Settled
  <2>10. ScreenIsSound(m)'
    BY <2>4, <2>6, <2>9 DEF ScreenIsSound, RowIsSound
  <2>11. modals' \in Seq(Screens) /\ \A i \in 1..Len(modals') : ScreenIsSound(modals[i])'
    BY <1>2, <2>6, <2>7, <2>10, ShownIsSound
  <2>12. ScreensAreSound'
    BY <2>4, <2>8, <2>9, <2>11 DEF ScreensAreSound, RowIsSound
  <2> QED
    BY <1>1, <1>2, <2>8, <2>11, <2>12 DEF RecordInvariant, RecordTypeOK
<1> QED
  BY <1>3, <1>4

(***************************************************************************)
(* The invariant, and what it implies.                                     *)
(***************************************************************************)

LEMMA RecordBegins == RecordInit => RecordInvariant
<1> SUFFICES ASSUME RecordInit PROVE RecordInvariant
  OBVIOUS
<1> USE DEF RecordInit, DiskInit
<1>1. PICK t \in Teams : tab = [Opened EXCEPT !.dest = t]
  OBVIOUS
<1>2. tab \in Tabs /\ tab.pend = None
  BY <1>1 DEF Tabs, Opened, Places
<1>3. disk \in [Recs -> Folders] /\ \A r \in Recs : ~Begun(r) /\ disk[r].jr = "none" /\ ~disk[r].stub
  BY NoFolderFacts DEF Begun
<1>4. job \in [Jobs -> Uploads] /\ \A j \in Jobs : job[j].at = "free"
  BY FreeFacts
<1>5. RecordTypeOK
  BY <1>2, <1>3, <1>4, MaxBegunAssumption DEF RecordTypeOK, RecorderStates
<1>6. RecordersAreSound /\ JournalIsKept
  BY <1>3 DEF RecordersAreSound, JournalIsKept
<1>7. JobsAreSound
  BY <1>4, FreeFacts DEF JobsAreSound
<1>8. ScreensAreSound
  BY <1>2 DEF ScreensAreSound
<1> QED
  BY <1>5, <1>6, <1>7, <1>8 DEF RecordInvariant

LEMMA LeftFacts ==
  ASSUME RecordInvariant, RecordNext
  PROVE  left' \in Nat
<1>1. left \in Nat
  BY DEF RecordInvariant, RecordTypeOK
<1>2. Still \/ Spend
  BY DEF RecordNext, Threads, Answers, Begins, Breaks
<1> QED
  BY <1>1, <1>2 DEF Still, Spend

LEMMA ThreadsStep ==
  ASSUME RecordInvariant, left' \in Nat, Threads
  PROVE  RecordInvariant'
  BY StopOrphanStep, StopTimesOutStep, MoveFirstStep, StitchStep, CompressStep, CompressFailsStep,
     AcceptStep, UploadFailsStep, LinkStep, SendAttachmentsStep, AttachmentsFailStep,
     RecorderStartsStep, RecorderRefusesStep, OnRecordingStep, OnRecorderFailedStep, StopsStep,
     OnRecorderFinishedStep, UploadToldStep, OnUploadExpiredStep DEF Threads

LEMMA AnswersStep ==
  ASSUME RecordInvariant, left' \in Nat, Answers
  PROVE  RecordInvariant'
  BY ReviewUploadStep, ReviewHoldStep, BoxUploadStep, BoxHoldStep, BoxMoveStep, BoxDiscardStep,
     StopRecordingStep, DismissStep, SignedInStep, ScribeStopStep, ScribeUploadStep DEF Answers

LEMMA BeginsStep ==
  ASSUME RecordInvariant, left' \in Nat, Begins
  PROVE  RecordInvariant'
  BY SetDestinationStep, StartRecordingStep, StageFileStep, ImportFileStep, BoxOpenStep,
     ActionReauthStep, LocalUploadStep, LocalMoveStep, LocalDiscardStep, ScribeStartStep DEF Begins

LEMMA BreaksStep ==
  ASSUME RecordInvariant, left' \in Nat, Breaks
  PROVE  RecordInvariant'
  BY KillStep, KillOtherStep, RecorderDiesStep DEF Breaks

LEMMA RecordStep == RecordInvariant /\ [RecordNext]_vars => RecordInvariant'
<1> SUFFICES ASSUME RecordInvariant, [RecordNext]_vars PROVE RecordInvariant'
  OBVIOUS
<1>1. CASE RecordNext
  BY <1>1, LeftFacts, ThreadsStep, AnswersStep, BeginsStep, BreaksStep DEF RecordNext
<1>2. CASE UNCHANGED vars
  <2>1. /\ FoldersGoOn /\ JournalIsKept' /\ disk' \in [Recs -> Folders]
        /\ \A q \in Recs : Begun(q)' <=> Begun(q)
        /\ \A q \in capt' : disk'[q].audio = "open"
    BY <1>2, Untouched DEF vars
  <2>2. ScreensAreSound' /\ left' \in Nat
    BY <1>2, <2>1, ScreensKeep DEF vars, RecordInvariant, RecordTypeOK
  <2> QED
    BY <1>2, <2>2, ScreenStep DEF vars, diskVars, RecordInvariant, RecordTypeOK
<1> QED
  BY <1>1, <1>2

LEMMA RecordAlways == RecordSpec => []RecordInvariant
<1>1. RecordInit => RecordInvariant
  BY RecordBegins
<1>2. RecordInvariant /\ [RecordNext]_vars => RecordInvariant'
  BY RecordStep
<1> QED
  BY <1>1, <1>2, PTL DEF RecordSpec

\* A recording with audio that the server does not have is on the Outbox, or
\* is being recorded, whatever was killed, failed, held or moved
\* (client/recovery.py's scan, and client/upload_journal.py, which begins a
\* journal with the recording and writes "done" after the server's answer).
THEOREM NothingUnsentIsHidden == RecordSpec => []UnsentIsShown
<1>1. RecordInvariant => UnsentIsShown
  <2> SUFFICES ASSUME RecordInvariant, NEW r \in Recs, born[r] > 0, disk[r].home \in Teams,
                      disk[r].audio # "none", sent[r] = <<>>
               PROVE  StateOf(r) \in OutboxStates
    BY DEF UnsentIsShown
  <2>1. disk[r].jr \in {"recording", "pending", "uploading", "failed", "held"} /\ ~disk[r].stub
    BY DEF RecordInvariant, RecordTypeOK, Folders, JournalIsKept
  <2> QED
    BY <2>1 DEF StateOf, Salvageable, OutboxStates
<1> QED
  BY <1>1, RecordAlways, PTL

(***************************************************************************)
(* No folder is moved under its recorder.                                  *)
(***************************************************************************)

StaysPut == \A r \in Recs : r \in capt /\ r \in capt' => disk'[r].home = disk[r].home

LEMMA Elsewhere ==
  ASSUME RecordInvariant, NEW q \in Recs, NEW D, q \notin capt \/ q \notin capt' \/ D.home = disk[q].home,
         disk' = disk \/ disk' = [disk EXCEPT ![q] = D]
  PROVE  StaysPut
  BY DEF StaysPut, RecordInvariant, RecordTypeOK

LEMMA JobsMoveNone ==
  ASSUME RecordInvariant, NEW j \in Jobs,
         \/ StopOrphan(j) \/ StopTimesOut(j) \/ MoveFirst(j) \/ Stitch(j) \/ Compress(j)
         \/ CompressFails(j) \/ Accept(j) \/ (\E how : UploadFails(j, how)) \/ Link(j)
         \/ SendAttachments(j) \/ AttachmentsFail(j)
  PROVE  StaysPut
<1>1. CASE disk' = disk
  BY <1>1 DEF StaysPut
<1>2. CASE disk' # disk
  <2>1. PICK q : q = job[j].rec
    OBVIOUS
  <2>2. job[j].at \notin {"free", "stop"} /\ \E D : disk' = [disk EXCEPT ![q] = D]
    BY <1>2, <2>1 DEF StopOrphan, StopTimesOut, MoveFirst, Stitch, Compress, CompressFails, Accept,
       UploadFails, Link, SendAttachments, AttachmentsFail, WriteJob, Write
  <2>3. q \in Recs /\ q \notin capt
    BY <2>1, <2>2, JobFacts
  <2> QED
    BY <2>2, <2>3, Elsewhere
<1> QED
  BY <1>1, <1>2

LEMMA ShellMovesNone ==
  ASSUME RecordInvariant, NEW r \in Recs,
         \/ (\E t \in Teams : LocalUpload(r, t) \/ LocalMove(r, t) \/ ScribeStart(r, t))
         \/ LocalDiscard(r) \/ ScribeStop(r) \/ ScribeUpload(r)
  PROVE  StaysPut
<1>1. \E D : disk' = disk \/ disk' = [disk EXCEPT ![r] = D]
  BY DEF LocalUpload, LocalMove, LocalDiscard, ScribeStart, ScribeStop, ScribeUpload, RecordInvariant,
     RecordTypeOK
<1>2. r \notin capt \/ r \notin capt' \/ disk' = disk
  <2>1. ASSUME StateOf(r) \notin {"absent", "in-progress", "orphaned"}
        PROVE  r \notin capt
    BY <2>1, StateFacts DEF RecordInvariant, Settled
  <2>2. disk[r] = NoFolder => r \notin capt
    BY NoFolderFacts, UnbegunFacts DEF Begun
  <2>3. disk[r].audio = "wav" => r \notin capt
    BY DEF RecordInvariant, RecordersAreSound
  <2> QED
    BY <2>1, <2>2, <2>3 DEF LocalUpload, LocalMove, LocalDiscard, ScribeStart, ScribeStop, ScribeUpload,
       Movable, Discardable
<1> QED
  BY <1>1, <1>2, Elsewhere DEF StaysPut

LEMMA TabMovesNone ==
  ASSUME RecordInvariant, NEW r \in Recs,
         \/ StartRecording(r) \/ RecorderStarts(r) \/ RecorderRefuses(r) \/ OnRecording(r)
         \/ RecorderDies(r) \/ OnRecorderFailed(r) \/ (\E ok \in BOOLEAN : Stops(r, ok))
         \/ OnRecorderFinished(r) \/ StageFile(r) \/ ImportFile(r)
         \/ (\E verb \in {"review", "move", "discard"} : BoxOpen(r, verb))
  PROVE  StaysPut
<1>1. \E D : disk' = disk \/ disk' = [disk EXCEPT ![r] = D]
  BY DEF StartRecording, RecorderStarts, RecorderRefuses, OnRecording, RecorderDies, OnRecorderFailed,
     Stops, OnRecorderFinished, StageFile, ImportFile, BoxOpen, diskVars, RecordInvariant, RecordTypeOK
<1>2. r \notin capt \/ r \notin capt' \/ disk' = disk
  <2>1. disk[r] = NoFolder => r \notin capt
    BY NoFolderFacts, UnbegunFacts DEF Begun
  <2>2. rt[r] = "finished" => r \notin capt
    BY DEF RecordInvariant, RecordersAreSound, Settled
  <2> QED
    BY <2>1, <2>2 DEF StartRecording, RecorderStarts, RecorderRefuses, OnRecording, RecorderDies,
       OnRecorderFailed, Stops, OnRecorderFinished, StageFile, ImportFile, BoxOpen, diskVars, Thread
<1> QED
  BY <1>1, <1>2, Elsewhere DEF StaysPut

LEMMA AnswersMoveNone ==
  ASSUME RecordInvariant,
         \/ (\E t \in Teams : ReviewUpload(t) \/ ReviewHold(t) \/ BoxUpload(t) \/ BoxHold(t) \/ BoxMove(t))
         \/ BoxDiscard \/ SignedIn
  PROVE  StaysPut
<1>1. PICK q : q = Front.row.rec
  OBVIOUS
<1>2. ~AtTabs /\ \E D : disk' = disk \/ disk' = [disk EXCEPT ![q] = D]
  BY <1>1 DEF ReviewUpload, Kick, ReviewHold, BoxUpload, BoxHold, BoxMove, BoxDiscard, SignedIn, Write,
     RecordInvariant, RecordTypeOK
<1>3. q \in Recs
  BY <1>1, <1>2, FrontFacts
<1>4. q \notin capt \/ disk' = disk
  <2>1. Front.row.state # "orphaned" => q \notin capt
    BY <1>1, <1>2, FrontFacts DEF RowIsSound
  <2>2. Front.from # "box" \/ Front.kind \in {"reauth", "discard"} => Front.row.state # "orphaned"
    BY <1>2, FrontFacts
  <2> QED
    BY <2>1, <2>2 DEF ReviewUpload, ReviewHold, BoxUpload, BoxHold, BoxMove, BoxDiscard, SignedIn, Movable
<1> QED
  BY <1>2, <1>3, <1>4, Elsewhere DEF StaysPut

LEMMA KillMovesNone ==
  ASSUME RecordInvariant, NEW p \in Processes, Killed(p)
  PROVE  StaysPut
<1>1. CASE disk' = disk
  BY <1>1 DEF StaysPut
<1>2. CASE disk' # disk
  <2>1. PICK j \in Jobs : job[j].at = "move" /\ disk' = [disk EXCEPT ![job[j].rec].home = job[j].team]
    BY <1>2 DEF Killed
  <2>2. PICK q : q = job[j].rec
    OBVIOUS
  <2>3. q \in Recs /\ q \notin capt
    BY <2>1, <2>2, JobFacts
  <2>4. \E D : disk' = [disk EXCEPT ![q] = D]
    BY <2>1, <2>2
  <2> QED
    BY <2>3, <2>4, Elsewhere
<1> QED
  BY <1>1, <1>2

LEMMA SetDestinationMovesNone ==
  ASSUME RecordInvariant, NEW t \in Teams, SetDestination(t)
  PROVE  StaysPut
<1>1. CASE disk' = disk
  BY <1>1 DEF StaysPut
<1>2. CASE disk' # disk
  <2>1. PICK r : r = tab.ses
    OBVIOUS
  <2>2. r # None /\ disk' = [disk EXCEPT ![r] = SetTeam(disk[r], t)]
    BY <1>2, <2>1 DEF SetDestination
  <2>3. r \in Recs
    BY <2>1, <2>2, TabFacts DEF Tabs
  <2>4. disk[r] \in Folders /\ t \in Places
    BY <2>3 DEF RecordInvariant, RecordTypeOK, Places
  <2>5. SetTeam(disk[r], t).home = disk[r].home
    BY <2>4, SetTeamFacts
  <2>6. PICK D : D = SetTeam(disk[r], t)
    OBVIOUS
  <2>7. D.home = disk[r].home /\ disk' = [disk EXCEPT ![r] = D]
    BY <2>2, <2>5, <2>6
  <2> QED
    BY <2>3, <2>7, Elsewhere
<1> QED
  BY <1>1, <1>2

\* A recorder that goes on writing finds its folder where it was: neither the
\* Outbox, the shell nor an upload moves, trashes or renames it
\* (client/recovery.py and client/local.py refuse what is being recorded, and
\* stop an orphan first).
THEOREM NoneIsMovedUnderItsRecorder == RecordSpec => NotMovedWhileWritten
<1>1. RecordInvariant /\ [RecordNext]_vars => [StaysPut]_vars
  <2> SUFFICES ASSUME RecordInvariant, RecordNext PROVE StaysPut
    OBVIOUS
  <2>1. CASE Threads
    <3>1. ASSUME UNCHANGED disk PROVE StaysPut
      BY <3>1 DEF StaysPut
    <3>2. (\E j \in Jobs : OnUploadFinished(j) \/ OnUploadFailed(j) \/ OnUploadExpired(j)) => UNCHANGED disk
      BY DEF OnUploadFinished, OnUploadFailed, OnUploadExpired
    <3> QED
      BY <2>1, <3>1, <3>2, JobsMoveNone, TabMovesNone DEF Threads
  <2>2. CASE Answers
    <3>1. ASSUME UNCHANGED disk PROVE StaysPut
      BY <3>1 DEF StaysPut
    <3>2. StopRecording \/ Dismiss => UNCHANGED disk
      BY DEF StopRecording, Dismiss, diskVars
    <3> QED
      BY <2>2, <3>1, <3>2, AnswersMoveNone, ShellMovesNone DEF Answers
  <2>3. CASE Begins
    <3>1. ASSUME UNCHANGED disk PROVE StaysPut
      BY <3>1 DEF StaysPut
    <3>2. ActionReauth => UNCHANGED disk
      BY DEF ActionReauth, diskVars
    <3> QED
      BY <2>3, <3>1, <3>2, SetDestinationMovesNone, ShellMovesNone, TabMovesNone DEF Begins
  <2>4. CASE Breaks
    <3>1. Processes = {"tui", "cli", "scribe"}
      BY DEF Processes
    <3> QED
      BY <2>4, <3>1, KillMovesNone, TabMovesNone DEF Breaks, Kill, KillOther
  <2> QED
    BY <2>1, <2>2, <2>3, <2>4 DEF RecordNext
<1>2. RecordInvariant /\ [RecordNext]_vars =>
        [\A r \in Recs : r \in capt /\ r \in capt' => disk'[r].home = disk[r].home]_vars
  BY <1>1 DEF StaysPut
<1> QED
  BY <1>2, RecordAlways, PTL DEF RecordSpec, NotMovedWhileWritten
=================================================================================
