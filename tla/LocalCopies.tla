------------------------------ MODULE LocalCopies ------------------------------
(***************************************************************************)
(* The local copies of a team's sessions (client/pull.py, artifacts.py):   *)
(* `vezir pull` and the terminal interface, each a process of its own,     *)
(* fill folders with a session's artifacts and attachments, describe a     *)
(* folder in its session.json and note it in the manifest.  Any download   *)
(* may fail and a process may be killed anywhere.  Only artifacts are ever *)
(* compared with what the server lists: an attachment that was not fetched *)
(* is logged, and nothing but another pull of the same folder tries again. *)
(***************************************************************************)
EXTENDS Naturals

CONSTANTS
  Pulled,      \* sessions with artifacts
  Artifacts,   \* the artifacts that the server has of each
  Shared,      \* ... and the attachments
  Recorded,    \* the sessions that were recorded and uploaded on this machine
  Pullers,     \* processes
  MaxPulls,
  MaxTroubles, \* bound: failed downloads, killed processes and changed titles together
  Nowhere, Nobody

ASSUME LocalCopiesAssumption ==
  /\ Recorded \subseteq Pulled /\ Nowhere # Nobody /\ Nobody \notin Pulled
  /\ MaxTroubles \in Nat

VARIABLES
  title,     \* the server's title of a session
  files,     \* folder -> what is in it: an artifact under the title it was saved with
  attached,  \* folder -> what is in its attachments/
  meta,      \* folder -> the session of its session.json, and whether that is the upload's
  manifest,  \* .pull-manifest.json: session -> folder
  puller,    \* the processes
  crossed,   \* has a title changed while a pull was under way?
  pulls, troubles

copyVars == <<title, files, attached, meta, manifest, puller, crossed, pulls, troubles>>

\* _dirname_for_session: the time and the title.
DirnameFor(s, t) == <<"meeting", s, t>>
Recording(s) == <<"recording", s>>
Folders == {DirnameFor(s, t) : s \in Pulled, t \in 0..MaxTroubles} \cup {Recording(s) : s \in Recorded}

NoMeta == [of |-> Nobody, stub |-> FALSE]
Idle == [at |-> "idle", listed |-> {}, todo |-> {}, noted |-> {}, now |-> Nobody, dest |-> Nowhere,
         heal |-> FALSE, left |-> {}, docs |-> {}, saved |-> FALSE, clean |-> FALSE]

CopiesInit ==
  /\ title = [s \in Pulled |-> 0]
  /\ files = [d \in Folders |-> {}] /\ attached = [d \in Folders |-> {}]
  /\ meta = [d \in Folders |-> IF \E s \in Recorded : d = Recording(s)
                               THEN [of |-> d[2], stub |-> TRUE] ELSE NoMeta]
  /\ manifest = {} /\ puller = [p \in Pullers |-> Idle] /\ crossed = FALSE
  /\ pulls = 0 /\ troubles = 0

-----------------------------------------------------------------------------
\* What a session lists: its title and artifacts; and the manifest as a set of
\* pairs, as far as a process knows it.
Entry(m, s) == {d \in Folders : <<s, d>> \in m}
Friendly(s, t) == {<<s, t, a>> : a \in Artifacts}
HasArtifacts(d) == files[d] # {}
Missing(s, t, d) == Friendly(s, t) \ files[d]
First(S) == CHOOSE x \in S : TRUE  \* in the order of the server's list
TitleIn(l, s) == (CHOOSE e \in l : e[1] = s)[2]
FolderOf(s) == {d \in Folders : meta[d].of = s}

\* find_local_session_dir: the manifest, or a folder whose session.json names it.
Found(s) == IF Entry(manifest, s) # {} THEN Entry(manifest, s) ELSE FolderOf(s)

Trouble == troubles < MaxTroubles /\ troubles' = troubles + 1

\* `vezir pull` asks for all, the terminal interface for one.
Wanted == {Pulled} \cup {{s} : s \in Pulled}

\* get_sessions, and the manifest.
Begin(p) ==
  /\ puller[p].at \in {"idle", "done"}
  /\ pulls < MaxPulls /\ pulls' = pulls + 1
  /\ \E some \in Wanted :
       puller' = [puller EXCEPT ![p] =
            [Idle EXCEPT !.at = "choose", !.listed = {<<s, title[s]>> : s \in some}, !.todo = some,
                         !.noted = manifest, !.clean = TRUE]]
  /\ UNCHANGED <<title, files, attached, meta, manifest, crossed, troubles>>

\* Before 0.17.0.
SkipsPartial(p, s) == \E d \in Entry(puller[p].noted, s) : HasArtifacts(d)

\* A session noted with a folder that has artifacts is done, if none is missing.
Skips(p, s) ==
  \E d \in Entry(puller[p].noted, s) :
    HasArtifacts(d) /\ Missing(s, TitleIn(puller[p].listed, s), d) = {}

\* Otherwise its folder is topped up; or a folder is found that names the
\* session; or a new one is made.
Destination(p, s) ==
  LET noted == {d \in Entry(puller[p].noted, s) : HasArtifacts(d)} IN
  IF noted # {} THEN noted
  ELSE IF FolderOf(s) # {} THEN FolderOf(s) ELSE {DirnameFor(s, TitleIn(puller[p].listed, s))}

Taking(p, s, d) ==
  [puller[p] EXCEPT !.at = "download", !.todo = @ \ {s}, !.now = s, !.dest = d,
                    !.heal = \E e \in Entry(puller[p].noted, s) : HasArtifacts(e),
                    !.left = Friendly(s, TitleIn(puller[p].listed, s)), !.saved = FALSE]

Choose(p) ==
  /\ puller[p].at = "choose"
  /\ puller[p].todo # {}
  /\ LET s == First(puller[p].todo) IN
       IF Skips(p, s) THEN puller' = [puller EXCEPT ![p].todo = @ \ {s}]
       ELSE \E d \in Destination(p, s) :
         puller' = [puller EXCEPT ![p] = Taking(p, s, d)]
  /\ UNCHANGED <<title, files, attached, meta, manifest, crossed, pulls, troubles>>

\* "open folder" tops up the folder that it found, manifest or not.
Heal(p, s) ==
  /\ puller[p].at \in {"idle", "done"}
  /\ pulls < MaxPulls /\ pulls' = pulls + 1
  /\ \E d \in Found(s) :
       /\ Missing(s, title[s], d) # {}
       /\ puller' = [puller EXCEPT ![p] =
            [Idle EXCEPT !.at = "download", !.listed = {<<s, title[s]>>}, !.now = s, !.dest = d,
                         !.heal = TRUE, !.left = Friendly(s, title[s]), !.clean = TRUE]]
  /\ UNCHANGED <<title, files, attached, meta, manifest, crossed, troubles>>

\* A file that is there is not fetched again.
Save(p) ==
  /\ puller[p].at = "download"
  /\ puller[p].left # {}
  /\ LET f == First(puller[p].left) IN
       /\ files' = [files EXCEPT ![puller[p].dest] = @ \cup {f}]
       /\ puller' = [puller EXCEPT ![p].left = @ \ {f}, ![p].saved = TRUE]
  /\ UNCHANGED <<title, attached, meta, manifest, crossed, pulls, troubles>>

NotSaved(p) ==
  /\ puller[p].at = "download"
  /\ Trouble
  /\ puller[p].left # {}
  /\ LET f == First(puller[p].left) IN
       /\ f \notin files[puller[p].dest]
       /\ puller' = [puller EXCEPT ![p].left = @ \ {f}, ![p].clean = FALSE]
  /\ UNCHANGED <<title, files, attached, meta, manifest, crossed, pulls>>

\* _download_attachments comes next.  A list that cannot be had is as good as
\* none: nothing is told to whoever asked for the pull.
ListAttachments(p) ==
  /\ puller[p].at = "download" /\ puller[p].left = {}
  /\ \/ /\ puller' = [puller EXCEPT ![p] = [@ EXCEPT !.at = "attach", !.docs = Shared]]
        /\ UNCHANGED troubles
     \/ /\ Trouble
        /\ puller' = [puller EXCEPT ![p] = [@ EXCEPT !.at = "attach", !.docs = {}]]
  /\ UNCHANGED <<title, files, attached, meta, manifest, crossed, pulls>>

\* Nor is an attachment that is there fetched again; the failure of one that is
\* not is logged, and the pull counts as one without a failure.
Attach(p) ==
  /\ puller[p].at = "attach" /\ puller[p].docs # {}
  /\ LET f == First(puller[p].docs)  d == puller[p].dest IN
       /\ \/ attached' = [attached EXCEPT ![d] = @ \cup {f}] /\ UNCHANGED troubles
          \/ f \notin attached[d] /\ Trouble /\ UNCHANGED attached
       /\ puller' = [puller EXCEPT ![p] =
            [@ EXCEPT !.docs = puller[p].docs \ {f},
                      !.saved = puller[p].saved \/ f \in attached'[d]]]
  /\ UNCHANGED <<title, files, meta, manifest, crossed, pulls>>

\* session.json comes last, and counts as saved; the upload's is replaced.
Describe(p) ==
  /\ puller[p].at = "attach" /\ puller[p].docs = {}
  /\ LET d == puller[p].dest  writes == meta[d].of = Nobody \/ meta[d].stub IN
     /\ meta' = IF writes THEN [meta EXCEPT ![d] = [of |-> puller[p].now, stub |-> FALSE]] ELSE meta
     /\ puller' = [puller EXCEPT ![p].at = IF puller[p].heal THEN "choose" ELSE "note",
                                 ![p].saved = @ \/ writes]
  /\ UNCHANGED <<title, files, attached, manifest, crossed, pulls, troubles>>

\* The manifest is written as this process knows it.
Note(p) ==
  /\ puller[p].at = "note"
  /\ LET s == puller[p].now  m == {e \in puller[p].noted : e[1] # s} \cup {<<s, puller[p].dest>>} IN
     IF puller[p].saved
     THEN manifest' = m /\ puller' = [puller EXCEPT ![p].at = "choose", ![p].noted = m]
     ELSE manifest' = manifest /\ puller' = [puller EXCEPT ![p].at = "choose"]
  /\ UNCHANGED <<title, files, attached, meta, crossed, pulls, troubles>>

End(p) ==
  /\ puller[p].at = "choose" /\ puller[p].todo = {}
  /\ puller' = [puller EXCEPT ![p] = [Idle EXCEPT !.at = "done", !.listed = puller[p].listed,
                                                  !.clean = puller[p].clean]]
  /\ UNCHANGED <<title, files, attached, meta, manifest, crossed, pulls, troubles>>

Killed(p) ==
  /\ puller[p].at \notin {"idle", "done"}
  /\ Trouble
  /\ puller' = [puller EXCEPT ![p] = Idle]
  /\ UNCHANGED <<title, files, attached, meta, manifest, crossed, pulls>>

Retitle(s) ==
  /\ Trouble
  /\ title' = [title EXCEPT ![s] = @ + 1]
  /\ crossed' = (crossed \/ \E p \in Pullers : puller[p].at \notin {"idle", "done"})
  /\ UNCHANGED <<files, attached, meta, manifest, puller, pulls>>

CopiesNext ==
  \/ \E p \in Pullers : Begin(p) \/ Choose(p) \/ Save(p) \/ NotSaved(p)
  \/ \E p \in Pullers : ListAttachments(p) \/ Attach(p) \/ Describe(p)
  \/ \E p \in Pullers : Note(p) \/ End(p) \/ Killed(p)
  \/ \E p \in Pullers, s \in Pulled : Heal(p, s)
  \/ \E s \in Pulled : Retitle(s)

-----------------------------------------------------------------------------
\* After a pull in which no artifact's download failed, whatever failed or was
\* killed before or at the same time, the folder that "open folder" finds has
\* every artifact the server listed: a copy that lacks one is not taken for a
\* whole one (pull.py, "v0.17.0 self-heal").  Unless a title changed in the
\* middle of a pull: two pulls may then fill two folders.  It is not so for the
\* attachments, which nothing compares (missing_server_artifacts).
OpensWhole ==
  \A p \in Pullers :
    puller[p].at = "done" /\ puller[p].clean /\ ~crossed =>
      \A e \in puller[p].listed :
        /\ Found(e[1]) # {}
        /\ \A d \in Found(e[1]) : Missing(e[1], e[2], d) = {}
-----------------------------------------------------------------------------
(* Why a copy is whole.                                                    *)

Names == Pulled \X (0..MaxTroubles) \X Artifacts

\* Only the session's own name is ever written into its folder.
CopiesTypeOK ==
  /\ troubles \in 0..MaxTroubles
  /\ title \in [Pulled -> 0..troubles]
  /\ files \in [Folders -> SUBSET Names]
  /\ attached \in [Folders -> SUBSET Shared]
  /\ meta \in [Folders -> [of: Pulled \cup {Nobody}, stub: BOOLEAN]]
  /\ crossed \in BOOLEAN
  /\ \A d \in Folders : meta[d].of \in {Nobody, d[2]}

Copier ==
  [at: {"idle", "choose", "download", "attach", "note", "done"}, listed: SUBSET (Pulled \X (0..MaxTroubles)),
   todo: SUBSET Pulled, docs: SUBSET Shared, noted: SUBSET (Pulled \X Folders), now: Pulled \cup {Nobody},
   dest: Folders \cup {Nowhere}, heal: BOOLEAN, left: SUBSET Names, saved: BOOLEAN, clean: BOOLEAN]
Filling(c) == c.at \in {"download", "attach"}
Working(c) == Filling(c) \/ c.at = "note"

\* What is noted is described.
Described(m) == \A s \in Pulled : Entry(m, s) \subseteq FolderOf(s)

\* A process works on what it has listed, under one title, in the session's folder.
CopierIsSound(c) ==
  /\ Described(c.noted)
  /\ \A e, f \in c.listed : e[1] = f[1] => e = f
  /\ \A s \in c.todo : \E e \in c.listed : e[1] = s
  /\ c.at \in {"idle", "done"} => c.todo = {}
  /\ Working(c) => /\ c.now \in Pulled \ c.todo /\ c.dest \in Folders /\ c.dest[2] = c.now
                   /\ \E e \in c.listed : e[1] = c.now
  /\ c.at = "attach" => c.left = {}
  /\ c.at = "note" => meta[c.dest].of = c.now

\* As long as no title has changed under a pull, whoever is to fill a folder fills
\* the session's one, or the one that it will be.
CopierAims(c) ==
  /\ c.at \notin {"idle", "done"} => \A e \in c.listed : e[2] = title[e[1]]
  /\ Working(c) => IF FolderOf(c.now) = {} THEN c.dest = DirnameFor(c.now, title[c.now])
                   ELSE c.dest \in FolderOf(c.now)

\* What a process has dealt with is whole; what it is dealing with lacks only what is left.
DealtWith(c, s) == s \notin c.todo /\ ~(Filling(c) /\ c.now = s)
Whole(e) == FolderOf(e[1]) # {} /\ \A d \in FolderOf(e[1]) : Missing(e[1], e[2], d) = {}
CopierDealt(c) ==
  c.clean => \A e \in c.listed :
    /\ DealtWith(c, e[1]) => Whole(e)
    /\ Filling(c) /\ c.now = e[1] => Missing(e[1], e[2], c.dest) \subseteq c.left

OneFolderEach == \A s \in Pulled : \A d, e \in FolderOf(s) : d = e

CopiesInvariant ==
  /\ CopiesTypeOK /\ puller \in [Pullers -> Copier]
  /\ manifest \subseteq Pulled \X Folders /\ Described(manifest)
  /\ \A p \in Pullers : CopierIsSound(puller[p])
  /\ ~crossed => OneFolderEach /\ \A p \in Pullers : CopierAims(puller[p]) /\ CopierDealt(puller[p])
=============================================================================
