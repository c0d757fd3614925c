----------------------------- MODULE LibraryProofs -----------------------------
(***************************************************************************)
(* Proofs about what a user sees of the team's sessions: one pair of       *)
(* tokens for each login (module Accounts), local copies that are whole    *)
(* (module LocalCopies), and pages that reach every session (module        *)
(* SessionList).                                                           *)
(***************************************************************************)
EXTENDS Library, FiniteSetTheorems, TLAPS

(***************************************************************************)
(* The local copies.                                                       *)
(***************************************************************************)

LEMMA FolderFacts ==
  /\ \A d \in Folders : d[2] \in Pulled
  /\ \A s \in Pulled, t \in 0..MaxTroubles : DirnameFor(s, t) \in Folders /\ DirnameFor(s, t)[2] = s
  /\ \A s \in Recorded : Recording(s) \in Folders /\ Recording(s)[2] = s
  BY LocalCopiesAssumption DEF Folders, DirnameFor, Recording

\* A session that is listed once has the title it is listed with.
LEMMA TitleFacts ==
  ASSUME NEW l, NEW e \in l, \A f, g \in l : f[1] = g[1] => f = g
  PROVE  TitleIn(l, e[1]) = e[2]
<1>1. (CHOOSE f \in l : f[1] = e[1]) \in l /\ (CHOOSE f \in l : f[1] = e[1])[1] = e[1]
  OBVIOUS
<1> QED
  BY <1>1 DEF TitleIn

LEMMA FirstIsOne ==
  ASSUME NEW S, S # {}
  PROVE  First(S) \in S
  BY DEF First

LEMMA CopiesBegin == CopiesInit => CopiesInvariant
<1> SUFFICES ASSUME CopiesInit PROVE CopiesInvariant
  OBVIOUS
<1>1. \A d \in Folders : /\ meta[d] \in [of: Pulled \cup {Nobody}, stub: BOOLEAN]
                         /\ meta[d].of \in {Nobody, d[2]}
  <2> SUFFICES ASSUME NEW d \in Folders
               PROVE  /\ meta[d] \in [of: Pulled \cup {Nobody}, stub: BOOLEAN]
                      /\ meta[d].of \in {Nobody, d[2]}
    OBVIOUS
  <2>1. CASE \E s \in Recorded : d = Recording(s)
    <3>1. meta[d] = [of |-> d[2], stub |-> TRUE]
      BY <2>1 DEF CopiesInit
    <3> QED
      BY <3>1, FolderFacts
  <2>2. CASE ~\E s \in Recorded : d = Recording(s)
    <3>1. meta[d] = [of |-> Nobody, stub |-> FALSE]
      BY <2>2 DEF CopiesInit, NoMeta
    <3> QED
      BY <3>1
  <2> QED
    BY <2>1, <2>2
<1>2. CopiesTypeOK
  <2>1. meta \in [Folders -> [of: Pulled \cup {Nobody}, stub: BOOLEAN]]
    <3>1. meta = [d \in Folders |-> meta[d]]
      BY DEF CopiesInit
    <3> QED
      BY <1>1, <3>1
  <2>2. \A d \in Folders : meta[d].of \in {Nobody, d[2]}
    BY <1>1
  <2>3. troubles \in 0..MaxTroubles /\ title \in [Pulled -> 0..troubles]
    BY LocalCopiesAssumption DEF CopiesInit
  <2>4. /\ files \in [Folders -> SUBSET Names] /\ attached \in [Folders -> SUBSET Shared]
        /\ crossed \in BOOLEAN
    BY DEF CopiesInit
  <2> QED
    BY <2>1, <2>2, <2>3, <2>4 DEF CopiesTypeOK
<1>3. puller \in [Pullers -> Copier]
  BY DEF CopiesInit, Copier, Idle
<1>4. \A p \in Pullers : CopierIsSound(puller[p]) /\ CopierAims(puller[p]) /\ CopierDealt(puller[p])
  BY DEF CopiesInit, CopierIsSound, CopierAims, CopierDealt, Working, Described, Entry, Idle, Filling
<1>5. OneFolderEach
  <2> SUFFICES ASSUME NEW s \in Pulled, NEW d \in FolderOf(s) PROVE d = Recording(s)
    BY DEF OneFolderEach
  <2>1. d \in Folders /\ meta[d].of = s
    BY DEF FolderOf
  <2>2. meta[d].of # Nobody
    BY <2>1, LocalCopiesAssumption
  <2>3. PICK r \in Recorded : d = Recording(r)
    BY <2>1, <2>2 DEF CopiesInit, NoMeta
  <2>4. meta[d].of = d[2]
    BY <2>1, <2>3 DEF CopiesInit
  <2> QED
    BY <2>1, <2>3, <2>4, FolderFacts
<1> QED
  BY <1>2, <1>3, <1>4, <1>5 DEF CopiesInit, CopiesInvariant, Described, Entry

\* A step of one process that neither saves nor describes nor notes.
LEMMA OneCopier ==
  ASSUME CopiesInvariant, NEW p \in Pullers, NEW c \in Copier,
         CopierIsSound(c), ~crossed => CopierAims(c) /\ CopierDealt(c),
         puller' = [puller EXCEPT ![p] = c], UNCHANGED <<title, files, meta, crossed>>,
         attached' \in [Folders -> SUBSET Shared],
         manifest' \subseteq Pulled \X Folders, Described(manifest'),
         troubles' \in troubles..MaxTroubles
  PROVE  CopiesInvariant'
<1>1. CopiesTypeOK'
  BY LocalCopiesAssumption DEF CopiesInvariant, CopiesTypeOK
<1>2. puller' \in [Pullers -> Copier] /\ \A q \in Pullers : puller'[q] = IF q = p THEN c ELSE puller[q]
  BY DEF CopiesInvariant
<1>3. \A s : FolderOf(s)' = FolderOf(s)
  BY DEF FolderOf
<1>4. \A m : Described(m)' = Described(m)
  BY <1>3 DEF Described, Entry
<1>5. OneFolderEach' = OneFolderEach
  BY <1>3 DEF OneFolderEach
<1>6. ASSUME NEW q \in Pullers
      PROVE  /\ CopierIsSound(puller[q])'
             /\ ~crossed => CopierAims(puller[q])' /\ CopierDealt(puller[q])'
  <2>1. PICK b \in Copier : /\ b = puller'[q] /\ CopierIsSound(b)
                            /\ ~crossed => CopierAims(b) /\ CopierDealt(b)
    BY <1>2 DEF CopiesInvariant
  <2>4. CopierIsSound(puller[q])'
    <3>1. CopierIsSound(b)
      BY <2>1
    <3> QED
      BY <2>1, <3>1, <1>3 DEF CopierIsSound, Working, Described, Entry, Filling
  <2>5. ~crossed => CopierAims(puller[q])'
    BY <2>1, <1>3 DEF CopierAims, Working, Filling
  <2>6. ~crossed => CopierDealt(puller[q])'
    BY <2>1, <1>3 DEF CopierDealt, Whole, DealtWith, Missing, Filling
  <2> QED
    BY <2>4, <2>5, <2>6
<1> QED
  BY <1>1, <1>2, <1>4, <1>5, <1>6 DEF CopiesInvariant

\* What the process is at is typed and listed.
LEMMA ListedIsTitled ==
  ASSUME CopiesInvariant, NEW p \in Pullers, NEW e \in puller[p].listed
  PROVE  /\ e[1] \in Pulled /\ e[2] \in 0..MaxTroubles
         /\ TitleIn(puller[p].listed, e[1]) = e[2]
<1>1. puller[p].listed \in SUBSET (Pulled \X (0..MaxTroubles))
  BY DEF CopiesInvariant, Copier
<1>2. \A f, g \in puller[p].listed : f[1] = g[1] => f = g
  BY DEF CopiesInvariant, CopierIsSound
<1> QED
  BY <1>1, <1>2, TitleFacts

LEMMA RestStays ==
  ASSUME CopiesInvariant
  PROVE  /\ UNCHANGED troubles => troubles' \in troubles..MaxTroubles
         /\ Trouble => troubles' \in troubles..MaxTroubles
         /\ UNCHANGED manifest => manifest' \subseteq Pulled \X Folders /\ Described(manifest')
         /\ UNCHANGED attached => attached' \in [Folders -> SUBSET Shared]
<1>1. UNCHANGED manifest => manifest' \subseteq Pulled \X Folders /\ Described(manifest')
  BY DEF CopiesInvariant, Described, Entry
<1> QED
  BY <1>1, LocalCopiesAssumption DEF CopiesInvariant, CopiesTypeOK, Trouble

LEMMA BeginKeeps ==
  ASSUME CopiesInvariant, NEW p \in Pullers, Begin(p)
  PROVE  CopiesInvariant'
<1>1. PICK some \in Wanted :
        puller' = [puller EXCEPT ![p] =
          [Idle EXCEPT !.at = "choose", !.listed = {<<s, title[s]>> : s \in some}, !.todo = some,
                       !.noted = manifest, !.clean = TRUE]]
  BY DEF Begin
<1>2. PICK c : c = [Idle EXCEPT !.at = "choose", !.listed = {<<s, title[s]>> : s \in some}, !.todo = some,
                                !.noted = manifest, !.clean = TRUE]
  OBVIOUS
<1>3. some \subseteq Pulled
  BY DEF Wanted
<1>4. \A s \in Pulled : title[s] \in 0..MaxTroubles
  BY LocalCopiesAssumption DEF CopiesInvariant, CopiesTypeOK
<1>5. /\ c.at = "choose" /\ c.listed = {<<s, title[s]>> : s \in some} /\ c.todo = some
      /\ c.noted = manifest /\ c.now = Nobody
  BY <1>2 DEF Idle
<1>6. c \in Copier
  <2>1. {<<s, title[s]>> : s \in some} \in SUBSET (Pulled \X (0..MaxTroubles))
    BY <1>3, <1>4
  <2>2. manifest \in SUBSET (Pulled \X Folders)
    BY DEF CopiesInvariant
  <2> QED
    BY <1>2, <1>3, <2>1, <2>2 DEF Idle, Copier
<1>7. CopierIsSound(c)
  <2>1. Described(c.noted)
    BY <1>5 DEF CopiesInvariant
  <2>2. \A e, f \in c.listed : e[1] = f[1] => e = f
    BY <1>5
  <2>3. \A s \in c.todo : <<s, title[s]>> \in c.listed /\ <<s, title[s]>>[1] = s
    BY <1>5
  <2> QED
    BY <1>5, <2>1, <2>2, <2>3 DEF CopierIsSound, Working, Filling
<1>8. CopierAims(c)
  BY <1>5, <1>3 DEF CopierAims, Working, Filling
<1>9. CopierDealt(c)
  BY <1>5, <1>3 DEF CopierDealt, DealtWith, Filling
<1> QED
  BY <1>1, <1>2, <1>6, <1>7, <1>8, <1>9, OneCopier, RestStays DEF Begin

LEMMA ChooseKeeps ==
  ASSUME CopiesInvariant, NEW p \in Pullers, Choose(p)
  PROVE  CopiesInvariant'
<1>1. PICK s : s = First(puller[p].todo)
  OBVIOUS
<1>2. /\ puller[p] \in Copier /\ CopierIsSound(puller[p])
      /\ ~crossed => CopierAims(puller[p]) /\ CopierDealt(puller[p])
      /\ puller[p].at = "choose" /\ s \in puller[p].todo /\ s \in Pulled
  BY <1>1, FirstIsOne DEF Choose, CopiesInvariant, Copier
<1>3. PICK e \in puller[p].listed : e[1] = s
  BY <1>2 DEF CopierIsSound
<1>4. e[2] \in 0..MaxTroubles /\ TitleIn(puller[p].listed, s) = e[2] /\ \A f \in puller[p].listed : f[1] = s => f = e
  BY <1>2, <1>3, ListedIsTitled DEF CopierIsSound
<1>5. CASE Skips(p, s)
  <2>1. PICK c : c = [puller[p] EXCEPT !.todo = @ \ {s}]
    OBVIOUS
  <2>2. c \in Copier /\ c.at = "choose" /\ c.todo = puller[p].todo \ {s} /\ c.listed = puller[p].listed
          /\ c.noted = puller[p].noted /\ c.clean = puller[p].clean
    BY <1>2, <2>1 DEF Copier
  <2>3. CopierIsSound(c)
    BY <1>2, <2>2 DEF CopierIsSound, Working, Filling
  <2>4. CopierAims(c) \/ crossed
    BY <1>2, <2>2 DEF CopierAims, Working, Filling
  <2>5. crossed \/ Whole(e)
    <3>1. PICK d \in Entry(puller[p].noted, s) : Missing(s, e[2], d) = {}
      BY <1>5, <1>4 DEF Skips
    <3>2. d \in FolderOf(s)
      BY <3>1, <1>2 DEF CopierIsSound, Described
    <3> QED
      BY <3>1, <3>2, <1>2, <1>3 DEF CopiesInvariant, OneFolderEach, Whole
  <2>6. CopierDealt(c) \/ crossed
    BY <1>2, <1>3, <1>4, <2>2, <2>5 DEF CopierDealt, DealtWith, Filling
  <2> QED
    <3>1. puller' = [puller EXCEPT ![p] = c] /\ UNCHANGED <<title, files, attached, meta, manifest, crossed, troubles>>
      BY <1>1, <1>5, <2>1 DEF Choose
    <3> QED
      BY <3>1, <2>2, <2>3, <2>4, <2>6, OneCopier, RestStays
<1>6. CASE ~Skips(p, s)
  <2>1. PICK d \in Destination(p, s) : puller' = [puller EXCEPT ![p] = Taking(p, s, d)]
    BY <1>1, <1>6 DEF Choose
  <2>2. PICK c : c = Taking(p, s, d)
    OBVIOUS
  <2>3. d \in Folders /\ d[2] = s /\ (d \in FolderOf(s) \/ (FolderOf(s) = {} /\ d = DirnameFor(s, e[2])))
    <3>1. CASE d \in Entry(puller[p].noted, s)
      <4>1. d \in FolderOf(s)
        BY <3>1, <1>2 DEF CopierIsSound, Described
      <4> QED
        BY <4>1, <1>2, LocalCopiesAssumption DEF FolderOf, CopiesInvariant, CopiesTypeOK
    <3>2. CASE d \in FolderOf(s)
      BY <3>2, <1>2, LocalCopiesAssumption DEF FolderOf, CopiesInvariant, CopiesTypeOK
    <3>3. CASE FolderOf(s) = {} /\ d = DirnameFor(s, e[2])
      BY <3>3, <1>2, <1>4, FolderFacts
    <3> QED
      BY <3>1, <3>2, <3>3, <1>4 DEF Destination
  <2>4. Friendly(s, e[2]) \in SUBSET Names
    BY <1>2, <1>4 DEF Friendly, Names
  <2>5. c \in Copier /\ c.at = "download" /\ c.todo = puller[p].todo \ {s} /\ c.listed = puller[p].listed
          /\ c.noted = puller[p].noted /\ c.clean = puller[p].clean /\ c.now = s /\ c.dest = d /\ c.left = Friendly(s, e[2])
    <3>1. (\E f \in Entry(puller[p].noted, s) : HasArtifacts(f)) \in BOOLEAN
      OBVIOUS
    <3> QED
      BY <1>2, <1>4, <2>2, <2>3, <2>4, <3>1, ZenonT(60) DEF Copier, Taking
  <2>6. CopierIsSound(c)
    BY <1>2, <1>3, <2>3, <2>5 DEF CopierIsSound, Working, Filling
  <2>7. CopierAims(c) \/ crossed
    BY <1>2, <1>3, <2>3, <2>5 DEF CopierAims, Working, Filling
  <2>8. CopierDealt(c) \/ crossed
    <3>1. \A f \in c.listed : c.now = f[1] => Missing(f[1], f[2], d) \subseteq c.left
      BY <1>3, <1>4, <2>5 DEF Missing
    <3> QED
      BY <1>2, <2>5, <3>1 DEF CopierDealt, DealtWith, Filling
  <2>9. puller' = [puller EXCEPT ![p] = c]
    BY <2>1, <2>2
  <2>10. UNCHANGED <<title, files, attached, meta, manifest, crossed, troubles>>
    BY DEF Choose
  <2> QED
    BY <2>5, <2>6, <2>7, <2>8, <2>9, <2>10, OneCopier, RestStays
<1> QED
  BY <1>5, <1>6

LEMMA HealKeeps ==
  ASSUME CopiesInvariant, NEW p \in Pullers, NEW s \in Pulled, Heal(p, s)
  PROVE  CopiesInvariant'
<1>1. PICK d \in Found(s) :
        puller' = [puller EXCEPT ![p] =
          [Idle EXCEPT !.at = "download", !.listed = {<<s, title[s]>>}, !.now = s, !.dest = d, !.heal = TRUE,
                       !.left = Friendly(s, title[s]), !.clean = TRUE]]
  BY DEF Heal
<1>2. PICK c : c = [Idle EXCEPT !.at = "download", !.listed = {<<s, title[s]>>}, !.now = s, !.dest = d, !.heal = TRUE,
                                !.left = Friendly(s, title[s]), !.clean = TRUE]
  OBVIOUS
<1>3. title[s] \in 0..MaxTroubles
  BY LocalCopiesAssumption DEF CopiesInvariant, CopiesTypeOK
<1>4. d \in FolderOf(s)
  BY DEF Found, CopiesInvariant, Described
<1>5. d \in Folders /\ d[2] = s
  BY <1>4, LocalCopiesAssumption DEF FolderOf, CopiesInvariant, CopiesTypeOK
<1>6. /\ c.at = "download" /\ c.listed = {<<s, title[s]>>} /\ c.todo = {} /\ c.noted = {}
      /\ c.now = s /\ c.dest = d /\ c.left = Friendly(s, title[s])
  BY <1>2 DEF Idle
<1>7. c \in Copier
  <2>1. {<<s, title[s]>>} \in SUBSET (Pulled \X (0..MaxTroubles)) /\ Friendly(s, title[s]) \in SUBSET Names
    BY <1>3 DEF Friendly, Names
  <2> QED
    BY <1>2, <1>5, <2>1 DEF Idle, Copier
<1>8. CopierIsSound(c)
  <2>1. Described(c.noted)
    BY <1>6 DEF Described, Entry
  <2>2. \A e \in c.listed : e = <<s, title[s]>>
    BY <1>6
  <2>3. <<s, title[s]>> \in c.listed /\ <<s, title[s]>>[1] = s
    BY <1>6
  <2> QED
    BY <1>5, <1>6, <2>1, <2>2, <2>3 DEF CopierIsSound, Working, Filling
<1>9. CopierAims(c)
  BY <1>4, <1>6 DEF CopierAims, Working, Filling
<1>10. CopierDealt(c)
  <2>1. \A e \in c.listed : e[1] = s /\ e[2] = title[s]
    BY <1>6
  <2> QED
    BY <1>6, <2>1 DEF CopierDealt, DealtWith, Missing, Filling
<1>11. puller' = [puller EXCEPT ![p] = c]
  BY <1>1, <1>2
<1>12. UNCHANGED <<title, files, attached, meta, manifest, crossed, troubles>>
  BY DEF Heal
<1> QED
  BY <1>7, <1>8, <1>9, <1>10, <1>11, <1>12, OneCopier, RestStays

LEMMA NotSavedKeeps ==
  ASSUME CopiesInvariant, NEW p \in Pullers, NotSaved(p)
  PROVE  CopiesInvariant'
<1>1. PICK f : f = First(puller[p].left)
  OBVIOUS
<1>2. PICK c : c = [puller[p] EXCEPT !.left = @ \ {f}, !.clean = FALSE]
  OBVIOUS
<1>3. /\ puller[p] \in Copier /\ CopierIsSound(puller[p])
      /\ ~crossed => CopierAims(puller[p])
  BY DEF CopiesInvariant
<1>4. /\ c \in Copier /\ c.at = puller[p].at /\ c.todo = puller[p].todo /\ c.listed = puller[p].listed
      /\ c.noted = puller[p].noted /\ c.now = puller[p].now /\ c.dest = puller[p].dest /\ c.clean = FALSE
  BY <1>2, <1>3 DEF Copier
<1>5. CopierIsSound(c)
  <2>1. c.at = "download"
    BY <1>4 DEF NotSaved
  <2> QED
    BY <2>1, <1>3, <1>4 DEF CopierIsSound, Working, Filling
<1>6. ~crossed => CopierAims(c)
  BY <1>3, <1>4 DEF CopierAims, Working, Filling
<1>7. CopierDealt(c)
  BY <1>4 DEF CopierDealt, Filling
<1>8. puller' = [puller EXCEPT ![p] = c]
  BY <1>1, <1>2 DEF NotSaved
<1>9. UNCHANGED <<title, files, attached, meta, manifest, crossed>> /\ Trouble
  BY DEF NotSaved
<1> QED
  BY <1>4, <1>5, <1>6, <1>7, <1>8, <1>9, OneCopier, RestStays

\* What becomes of the attachments changes nothing in what is compared.
LEMMA AttachmentsPass ==
  ASSUME CopiesInvariant, NEW p \in Pullers, puller[p].left = {},
         puller[p].at = "download" \/ puller[p].at = "attach",
         NEW docs \in SUBSET Shared, NEW saved \in BOOLEAN,
         puller' = [puller EXCEPT ![p] = [puller[p] EXCEPT !.at = "attach", !.docs = docs, !.saved = saved]],
         attached' \in [Folders -> SUBSET Shared],
         UNCHANGED <<title, files, meta, manifest, crossed>>, troubles' \in troubles..MaxTroubles
  PROVE  CopiesInvariant'
<1>1. PICK c : c = [puller[p] EXCEPT !.at = "attach", !.docs = docs, !.saved = saved]
  OBVIOUS
<1>2. /\ puller[p] \in Copier /\ CopierIsSound(puller[p])
      /\ ~crossed => CopierAims(puller[p]) /\ CopierDealt(puller[p])
  BY DEF CopiesInvariant
<1>3. /\ c \in Copier /\ c.at = "attach" /\ c.todo = puller[p].todo /\ c.listed = puller[p].listed
      /\ c.noted = puller[p].noted /\ c.now = puller[p].now /\ c.dest = puller[p].dest
      /\ c.left = {} /\ c.clean = puller[p].clean
  BY <1>1, <1>2 DEF Copier
<1>4. CopierIsSound(c)
  BY <1>2, <1>3 DEF CopierIsSound, Working, Filling
<1>5. ~crossed => CopierAims(c)
  BY <1>2, <1>3 DEF CopierAims, Working, Filling
<1>6. ~crossed => CopierDealt(c)
  BY <1>2, <1>3 DEF CopierDealt, DealtWith, Filling
<1>7. puller' = [puller EXCEPT ![p] = c]
  BY <1>1
<1> QED
  BY <1>3, <1>4, <1>5, <1>6, <1>7, OneCopier, RestStays

LEMMA ListAttachmentsKeeps ==
  ASSUME CopiesInvariant, NEW p \in Pullers, ListAttachments(p)
  PROVE  CopiesInvariant'
<1>1. /\ puller[p].at = "download" /\ puller[p].left = {}
      /\ puller[p].saved \in BOOLEAN /\ puller[p].docs \in SUBSET Shared
      /\ UNCHANGED <<title, files, attached, meta, manifest, crossed>>
      /\ Trouble \/ UNCHANGED troubles
  BY DEF ListAttachments, Copier, CopiesInvariant
<1>2. PICK docs \in SUBSET Shared :
        puller' = [puller EXCEPT ![p] = [puller[p] EXCEPT !.at = "attach", !.docs = docs]]
  BY <1>1 DEF ListAttachments
<1>3. puller[p] \in Copier
  BY DEF CopiesInvariant
<1>4. [puller[p] EXCEPT !.at = "attach", !.docs = docs]
        = [puller[p] EXCEPT !.at = "attach", !.docs = docs, !.saved = puller[p].saved]
  BY <1>3 DEF Copier
<1>5. puller' = [puller EXCEPT ![p] =
                   [puller[p] EXCEPT !.at = "attach", !.docs = docs, !.saved = puller[p].saved]]
  BY <1>2, <1>4
<1> QED
  BY <1>1, <1>5, AttachmentsPass, RestStays

LEMMA AttachKeeps ==
  ASSUME CopiesInvariant, NEW p \in Pullers, Attach(p)
  PROVE  CopiesInvariant'
<1>1. puller[p] \in Copier /\ CopierIsSound(puller[p])
  BY DEF CopiesInvariant
<1>2. PICK f : f = First(puller[p].docs)
  OBVIOUS
<1>3. PICK d : d = puller[p].dest
  OBVIOUS
<1>4. /\ puller[p].at = "attach" /\ puller[p].left = {} /\ d \in Folders /\ f \in Shared
  BY <1>1, <1>2, <1>3, FirstIsOne DEF Attach, CopierIsSound, Working, Filling, Copier
<1>5. PICK saved \in BOOLEAN : saved = (puller[p].saved \/ f \in attached'[d])
  BY <1>1 DEF Copier
<1>6. PICK docs : docs = puller[p].docs \ {f}
  OBVIOUS
<1>7. puller' = [puller EXCEPT ![p] = [puller[p] EXCEPT !.docs = docs, !.saved = saved]]
  BY <1>2, <1>3, <1>5, <1>6 DEF Attach
<1>8. [puller[p] EXCEPT !.docs = docs, !.saved = saved]
        = [puller[p] EXCEPT !.at = "attach", !.docs = docs, !.saved = saved]
  BY <1>1, <1>4 DEF Copier
<1>9. puller' = [puller EXCEPT ![p] = [puller[p] EXCEPT !.at = "attach", !.docs = docs, !.saved = saved]]
  BY <1>7, <1>8
<1>10. attached' \in [Folders -> SUBSET Shared] /\ (Trouble \/ UNCHANGED troubles)
  BY <1>2, <1>3, <1>4 DEF Attach, CopiesInvariant, CopiesTypeOK
<1>11. UNCHANGED <<title, files, meta, manifest, crossed>>
  BY DEF Attach
<1>12. docs \in SUBSET Shared
  BY <1>1, <1>6 DEF Copier
<1> QED
  BY <1>4, <1>9, <1>10, <1>11, <1>12, AttachmentsPass, RestStays

LEMMA EndKeeps ==
  ASSUME CopiesInvariant, NEW p \in Pullers, End(p)
  PROVE  CopiesInvariant'
<1>1. PICK c : c = [Idle EXCEPT !.at = "done", !.listed = puller[p].listed, !.clean = puller[p].clean]
  OBVIOUS
<1>2. /\ puller[p] \in Copier /\ CopierIsSound(puller[p])
      /\ ~crossed => CopierDealt(puller[p])
      /\ puller[p].at = "choose" /\ puller[p].todo = {}
  BY DEF CopiesInvariant, End
<1>3. /\ c \in Copier /\ c.at = "done" /\ c.todo = {} /\ c.listed = puller[p].listed
      /\ c.noted = {} /\ c.clean = puller[p].clean
  BY <1>1, <1>2 DEF Copier, Idle
<1>4. CopierIsSound(c)
  BY <1>2, <1>3 DEF CopierIsSound, Working, Described, Entry, Filling
<1>5. CopierAims(c)
  BY <1>3 DEF CopierAims, Working, Filling
<1>6. ~crossed => CopierDealt(c)
  BY <1>2, <1>3 DEF CopierDealt, DealtWith, Filling
<1>7. puller' = [puller EXCEPT ![p] = c] /\ UNCHANGED <<title, files, attached, meta, manifest, crossed, troubles>>
  BY <1>1 DEF End
<1> QED
  BY <1>3, <1>4, <1>5, <1>6, <1>7, OneCopier, RestStays

LEMMA KilledKeeps ==
  ASSUME CopiesInvariant, NEW p \in Pullers, Killed(p)
  PROVE  CopiesInvariant'
<1>1. PICK c : c = Idle
  OBVIOUS
<1>2. c \in Copier /\ c.at = "idle" /\ c.todo = {} /\ c.listed = {} /\ c.noted = {} /\ c.clean = FALSE
  BY <1>1 DEF Copier, Idle
<1>3. CopierIsSound(c) /\ CopierAims(c) /\ CopierDealt(c)
  BY <1>2 DEF CopierIsSound, CopierAims, CopierDealt, Working, Described, Entry, Filling
<1>4. puller' = [puller EXCEPT ![p] = c] /\ UNCHANGED <<title, files, attached, meta, manifest, crossed>> /\ Trouble
  BY <1>1 DEF Killed
<1> QED
  BY <1>2, <1>3, <1>4, OneCopier, RestStays

\* Files are only added, so what was whole stays whole.
LEMMA SaveKeeps ==
  ASSUME CopiesInvariant, NEW p \in Pullers, Save(p)
  PROVE  CopiesInvariant'
<1>1. PICK f : f = First(puller[p].left)
  OBVIOUS
<1>2. PICK c : c = [puller[p] EXCEPT !.left = @ \ {f}, !.saved = TRUE]
  OBVIOUS
<1>3. PICK o \in Copier : o = puller[p]
  BY DEF CopiesInvariant
<1>4. /\ c \in Copier /\ c.at = o.at /\ c.todo = o.todo /\ c.listed = o.listed /\ c.left = o.left \ {f}
      /\ c.noted = o.noted /\ c.now = o.now /\ c.dest = o.dest /\ c.clean = o.clean
  BY <1>2, <1>3 DEF Copier
<1>5. /\ CopierIsSound(o) /\ (~crossed => CopierAims(o) /\ CopierDealt(o))
      /\ o.at = "download" /\ o.left \subseteq Names /\ f \in o.left
  BY <1>1, <1>3, FirstIsOne DEF CopiesInvariant, Copier, Save
<1>6. /\ puller' = [puller EXCEPT ![p] = c]
      /\ files' = [files EXCEPT ![o.dest] = @ \cup {f}]
      /\ UNCHANGED <<title, attached, meta, manifest, crossed, troubles>>
  BY <1>1, <1>2, <1>3 DEF Save
<1>7. o.dest \in Folders /\ f \in Names
  BY <1>5 DEF CopierIsSound, Working, Filling
<1>8. /\ files' \in [Folders -> SUBSET Names]
      /\ \A d \in Folders : files[d] \subseteq files'[d]
      /\ f \in files'[o.dest]
  BY <1>6, <1>7 DEF CopiesInvariant, CopiesTypeOK
<1>9. CopiesTypeOK'
  BY <1>6, <1>8 DEF CopiesInvariant, CopiesTypeOK
<1>10. puller' \in [Pullers -> Copier] /\ \A q \in Pullers : puller'[q] = IF q = p THEN c ELSE puller[q]
  BY <1>4, <1>6 DEF CopiesInvariant
<1>11. \A s : FolderOf(s)' = FolderOf(s)
  BY <1>6 DEF FolderOf
<1>12. CopierIsSound(c) /\ (~crossed => CopierAims(c))
  BY <1>4, <1>5 DEF CopierIsSound, CopierAims, Working, Filling
<1>13. ~crossed => CopierDealt(c)'
  <2> SUFFICES ASSUME ~crossed, c.clean, NEW e \in c.listed
               PROVE  /\ DealtWith(c, e[1]) => Whole(e)'
                      /\ Filling(c) /\ c.now = e[1] => Missing(e[1], e[2], c.dest)' \subseteq c.left
    BY DEF CopierDealt, Filling
  <2>1. /\ DealtWith(c, e[1]) => Whole(e)
        /\ Filling(c) /\ c.now = e[1] => Missing(e[1], e[2], c.dest) \subseteq o.left
    BY <1>4, <1>5 DEF CopierDealt, DealtWith, Filling
  <2>2. Whole(e) => Whole(e)'
    BY <1>8, <1>11 DEF Whole, Missing, FolderOf
  <2>3. Missing(e[1], e[2], c.dest) \subseteq o.left => Missing(e[1], e[2], c.dest)' \subseteq c.left
    BY <1>4, <1>7, <1>8 DEF Missing
  <2> QED
    BY <2>1, <2>2, <2>3
<1>14. ASSUME NEW q \in Pullers
       PROVE  /\ CopierIsSound(puller[q])'
              /\ ~crossed => CopierAims(puller[q])' /\ CopierDealt(puller[q])'
  <2>1. PICK b \in Copier : /\ b = puller'[q] /\ CopierIsSound(b)
                            /\ ~crossed => CopierAims(b) /\ (b = c \/ CopierDealt(b))
    BY <1>10, <1>12, <1>4 DEF CopiesInvariant
  <2>2. CopierIsSound(puller[q])'
    <3>1. CopierIsSound(b)
      BY <2>1
    <3> QED
      BY <2>1, <3>1, <1>6, <1>11 DEF CopierIsSound, Working, Described, Entry, Filling
  <2>3. ~crossed => CopierAims(puller[q])'
    BY <2>1, <1>6, <1>11 DEF CopierAims, Working, Filling
  <2>4. ~crossed => CopierDealt(b)'
    <3>1. CASE b = c
      BY <3>1, <1>13
    <3>2. CASE ~crossed /\ CopierDealt(b)
      <4>1. \A e \in b.listed : /\ Whole(e) => Whole(e)'
                                /\ Missing(e[1], e[2], b.dest) \subseteq b.left /\ Filling(b) /\ b.now = e[1] =>
                                     Missing(e[1], e[2], b.dest)' \subseteq b.left
        <5>1. Filling(b) => b.dest \in Folders
          BY <2>1 DEF CopierIsSound, Working, Filling
        <5> QED
          BY <1>8, <1>11, <5>1 DEF Whole, Missing, FolderOf
      <4> QED
        BY <3>2, <4>1 DEF CopierDealt, DealtWith, Filling
    <3> QED
      BY <2>1, <3>1, <3>2
  <2>5. ~crossed => CopierDealt(puller[q])'
    BY <2>1, <2>4 DEF CopierDealt, DealtWith, Whole, Missing, Filling
  <2> QED
    BY <2>2, <2>3, <2>5
<1>15. Described(manifest)' /\ (OneFolderEach => OneFolderEach')
  BY <1>6, <1>11 DEF Described, OneFolderEach, CopiesInvariant
<1> QED
  BY <1>6, <1>9, <1>10, <1>14, <1>15 DEF CopiesInvariant

\* The folder that a process describes is the session's one, or becomes it.
LEMMA DescribeKeeps ==
  ASSUME CopiesInvariant, NEW p \in Pullers, Describe(p)
  PROVE  CopiesInvariant'
<1>1. PICK o \in Copier : o = puller[p]
  BY DEF CopiesInvariant
<1>2. PICK d : d = o.dest
  OBVIOUS
<1>3. PICK s : s = o.now
  OBVIOUS
<1>4. PICK writes \in BOOLEAN : writes <=> (meta[d].of = Nobody \/ meta[d].stub)
  OBVIOUS
<1>5. PICK c : c = [o EXCEPT !.at = IF o.heal THEN "choose" ELSE "note", !.saved = @ \/ writes]
  OBVIOUS
<1>6. /\ CopierIsSound(o) /\ (~crossed => CopierAims(o) /\ CopierDealt(o))
      /\ o.at = "attach" /\ o.left = {}
  BY <1>1 DEF CopiesInvariant, CopierIsSound, Describe
<1>7. /\ d \in Folders /\ d[2] = s /\ s \in Pulled \ o.todo /\ \E e \in o.listed : e[1] = s
  BY <1>2, <1>3, <1>6 DEF CopierIsSound, Working, Filling
<1>8. /\ c \in Copier /\ c.at \in {"choose", "note"} /\ c.todo = o.todo /\ c.listed = o.listed
      /\ c.noted = o.noted /\ c.now = s /\ c.dest = d /\ c.clean = o.clean
  BY <1>3, <1>2, <1>4, <1>5 DEF Copier
<1>9. puller' \in [Pullers -> Copier] /\ \A q \in Pullers : puller'[q] = IF q = p THEN c ELSE puller[q]
  <2>1. puller'[p] = c
    BY <1>1, <1>2, <1>4, <1>5 DEF Describe, CopiesInvariant
  <2> QED
    BY <2>1, <1>8 DEF Describe, CopiesInvariant
<1>10. /\ meta' \in [Folders -> [of: Pulled \cup {Nobody}, stub: BOOLEAN]]
       /\ meta'[d].of = s /\ \A f \in Folders : f # d => meta'[f] = meta[f]
       /\ UNCHANGED <<title, files, attached, manifest, crossed, troubles>>
  <2>1. meta' = IF writes THEN [meta EXCEPT ![d] = [of |-> s, stub |-> FALSE]] ELSE meta
    BY <1>1, <1>2, <1>3, <1>4 DEF Describe
  <2>2. meta \in [Folders -> [of: Pulled \cup {Nobody}, stub: BOOLEAN]] /\ meta[d].of \in {Nobody, d[2]}
    BY <1>7 DEF CopiesInvariant, CopiesTypeOK
  <2>3. UNCHANGED <<title, files, attached, manifest, crossed, troubles>>
    BY DEF Describe
  <2> QED
    BY <2>1, <2>2, <2>3, <1>4, <1>7
<1>11. CopiesTypeOK'
  BY <1>7, <1>10 DEF CopiesInvariant, CopiesTypeOK
<1>12. meta[d].of \in {Nobody, s}
  BY <1>7 DEF CopiesInvariant, CopiesTypeOK
<1>13. \A t \in Pulled : FolderOf(t)' = IF t = s THEN FolderOf(t) \cup {d} ELSE FolderOf(t)
  BY <1>7, <1>10, <1>12, LocalCopiesAssumption DEF FolderOf
<1>14. ~crossed => \/ d \in FolderOf(s) /\ \A t \in Pulled : FolderOf(t)' = FolderOf(t)
                   \/ FolderOf(s) = {} /\ d = DirnameFor(s, title[s])
  BY <1>2, <1>3, <1>6, <1>7, <1>13 DEF CopierAims, Working, Filling
<1>15. ~crossed => OneFolderEach'
  BY <1>7, <1>13, <1>14 DEF CopiesInvariant, OneFolderEach
<1>16. ~crossed => \A e : e[1] \in Pulled /\ Whole(e) => Whole(e)'
  BY <1>7, <1>10, <1>13, <1>14 DEF Whole, Missing
<1>17. ASSUME NEW m PROVE Described(m) => Described(m)'
  BY <1>13 DEF Described, Entry
<1>18. CopierIsSound(c)'
  <2>1. Described(c.noted)'
    BY <1>6, <1>8, <1>17 DEF CopierIsSound
  <2> QED
    BY <1>6, <1>7, <1>8, <1>10, <2>1 DEF CopierIsSound, Working, Filling
<1>19. ~crossed => CopierAims(c)'
  BY <1>6, <1>7, <1>8, <1>10, <1>13 DEF CopierAims, Working, Filling
<1>20. ~crossed => CopierDealt(c)'
  <2> SUFFICES ASSUME ~crossed, c.clean, NEW e \in c.listed, DealtWith(c, e[1]) PROVE Whole(e)'
    BY <1>8 DEF CopierDealt, Filling
  <2>1. e[1] \in Pulled
    BY <1>8 DEF Copier
  <2>2. CASE e[1] # s
    BY <2>1, <2>2, <1>3, <1>6, <1>8, <1>16 DEF CopierDealt, DealtWith, Filling
  <2>3. CASE e[1] = s
    <3>1. Missing(s, e[2], d) = {}
      BY <2>3, <1>2, <1>3, <1>6, <1>8 DEF CopierDealt, Filling
    <3>2. \A f \in FolderOf(s)' : f = d
      BY <1>7, <1>13, <1>14 DEF CopiesInvariant, OneFolderEach
    <3>3. d \in FolderOf(s)'
      BY <1>7, <1>13
    <3> QED
      BY <2>3, <3>1, <3>2, <3>3, <1>10 DEF Whole, Missing
  <2> QED
    BY <2>2, <2>3
<1>21. ASSUME NEW q \in Pullers
       PROVE  /\ CopierIsSound(puller[q])'
              /\ ~crossed => CopierAims(puller[q])' /\ CopierDealt(puller[q])'
  <2>1. PICK b \in Copier : b = puller'[q]
    BY <1>9
  <2>2. CASE b = c
    <3>1. CopierIsSound(b)' /\ (~crossed => CopierAims(b)' /\ CopierDealt(b)')
      BY <2>2, <1>18, <1>19, <1>20
    <3>2. CopierIsSound(puller[q])'
      BY <2>1, <3>1 DEF CopierIsSound, Working, Filling
    <3>3. ~crossed => CopierAims(puller[q])'
      BY <2>1, <3>1 DEF CopierAims, Working, Filling
    <3>4. ~crossed => CopierDealt(puller[q])'
      BY <2>1, <3>1 DEF CopierDealt, DealtWith, Whole, Missing, Filling
    <3> QED
      BY <3>2, <3>3, <3>4
  <2>3. CASE CopierIsSound(b) /\ (~crossed => CopierAims(b) /\ CopierDealt(b))
    <3>1. CopierIsSound(puller[q])'
      <4>1. Described(b.noted)'
        BY <2>3, <1>17 DEF CopierIsSound
      <4>2. b.at = "note" => b.dest \in Folders /\ b.dest[2] = b.now /\ meta[b.dest].of = b.now
        BY <2>3 DEF CopierIsSound, Working, Filling
      <4>3. b.at = "note" => meta'[b.dest].of = b.now
        BY <4>2, <1>7, <1>10
      <4> QED
        BY <2>1, <2>3, <4>1, <4>3 DEF CopierIsSound, Working, Described, Entry, Filling
    <3>2. ~crossed => CopierAims(puller[q])'
      <4>1. Working(b) => b.now \in Pulled
        BY <2>3 DEF CopierIsSound
      <4> QED
        BY <2>1, <2>3, <4>1, <1>10, <1>13, <1>14 DEF CopierAims, Working, Filling
    <3>3. ~crossed => CopierDealt(puller[q])'
      <4>1. \A e \in b.listed : e[1] \in Pulled
        BY DEF Copier
      <4>2. ~crossed => CopierDealt(b)'
        BY <2>3, <4>1, <1>10, <1>16 DEF CopierDealt, DealtWith, Missing, Filling
      <4> QED
        BY <2>1, <4>2 DEF CopierDealt, DealtWith, Whole, Missing, Filling
    <3> QED
      BY <3>1, <3>2, <3>3
  <2> QED
    BY <2>1, <2>2, <2>3, <1>9 DEF CopiesInvariant
<1>22. manifest' \subseteq Pulled \X Folders /\ Described(manifest)'
  BY <1>10, <1>13 DEF CopiesInvariant, Described, Entry
<1> QED
  BY <1>9, <1>10, <1>11, <1>15, <1>21, <1>22 DEF CopiesInvariant

\* What is noted has been described.
LEMMA NoteKeeps ==
  ASSUME CopiesInvariant, NEW p \in Pullers, Note(p)
  PROVE  CopiesInvariant'
<1>1. PICK o \in Copier : o = puller[p]
  BY DEF CopiesInvariant
<1>2. PICK m : m = {e \in o.noted : e[1] # o.now} \cup {<<o.now, o.dest>>}
  OBVIOUS
<1>3. PICK n : n = IF o.saved THEN m ELSE o.noted
  OBVIOUS
<1>4. PICK c : c = [o EXCEPT !.at = "choose", !.noted = n]
  OBVIOUS
<1>5. /\ CopierIsSound(o) /\ (~crossed => CopierAims(o) /\ CopierDealt(o)) /\ o.at = "note"
  BY <1>1 DEF CopiesInvariant, Note
<1>6. /\ o.now \in Pulled /\ o.dest \in Folders /\ meta[o.dest].of = o.now
  BY <1>5 DEF CopierIsSound, Working, Filling
<1>7. m \in SUBSET (Pulled \X Folders) /\ n \in SUBSET (Pulled \X Folders)
  BY <1>2, <1>3, <1>6 DEF Copier
<1>8. Described(m) /\ Described(n)
  <2>1. Described(o.noted)
    BY <1>5 DEF CopierIsSound
  <2>2. ASSUME NEW t \in Pulled, NEW d \in Entry(m, t) PROVE d \in FolderOf(t)
    BY <2>1, <1>2, <1>6 DEF Described, Entry, FolderOf
  <2> QED
    BY <2>1, <2>2, <1>3 DEF Described
<1>9. /\ c \in Copier /\ c.at = "choose" /\ c.todo = o.todo /\ c.listed = o.listed
      /\ c.noted = n /\ c.clean = o.clean
  BY <1>4, <1>7 DEF Copier
<1>10. CopierIsSound(c)
  BY <1>5, <1>8, <1>9 DEF CopierIsSound, Working, Filling
<1>11. ~crossed => CopierAims(c)
  BY <1>5, <1>9 DEF CopierAims, Working, Filling
<1>12. ~crossed => CopierDealt(c)
  BY <1>5, <1>9 DEF CopierDealt, DealtWith, Filling
<1>13. /\ UNCHANGED <<title, files, attached, meta, crossed, troubles>>
       /\ manifest' = m \/ manifest' = manifest
  BY <1>1, <1>2 DEF Note
<1>14. puller' = [puller EXCEPT ![p] = c]
  <2>1. CASE o.saved
    <3>1. puller' = [puller EXCEPT ![p].at = "choose", ![p].noted = m]
      BY <2>1, <1>1, <1>2 DEF Note
    <3> QED
      BY <2>1, <3>1, <1>1, <1>3, <1>4 DEF CopiesInvariant, Copier
  <2>2. CASE ~o.saved
    <3>1. puller' = [puller EXCEPT ![p].at = "choose"]
      BY <2>2, <1>1 DEF Note
    <3>2. c = [o EXCEPT !.at = "choose"]
      BY <2>2, <1>3, <1>4 DEF Copier
    <3> QED
      BY <3>1, <3>2, <1>1
  <2> QED
    BY <2>1, <2>2
<1>15. manifest' \subseteq Pulled \X Folders /\ Described(manifest')
  BY <1>7, <1>8, <1>13 DEF CopiesInvariant
<1> QED
  BY <1>9, <1>10, <1>11, <1>12, <1>13, <1>14, <1>15, OneCopier, RestStays

\* A title that changes under a pull is what crossed says.
LEMMA RetitleKeeps ==
  ASSUME CopiesInvariant, NEW s \in Pulled, Retitle(s)
  PROVE  CopiesInvariant'
<1>1. /\ troubles' \in 0..MaxTroubles /\ title' \in [Pulled -> 0..troubles']
      /\ UNCHANGED <<files, attached, meta, manifest, puller>>
      /\ crossed' = (crossed \/ \E p \in Pullers : puller[p].at \notin {"idle", "done"})
  BY LocalCopiesAssumption DEF Retitle, Trouble, CopiesInvariant, CopiesTypeOK
<1>2. CopiesTypeOK'
  BY <1>1 DEF CopiesInvariant, CopiesTypeOK
<1>3. \A t : FolderOf(t)' = FolderOf(t)
  BY <1>1 DEF FolderOf
<1>4. Described(manifest)' /\ (OneFolderEach => OneFolderEach')
  BY <1>1, <1>3 DEF Described, OneFolderEach, CopiesInvariant
<1>5. ASSUME NEW q \in Pullers
      PROVE  /\ CopierIsSound(puller[q])'
             /\ ~crossed' => CopierAims(puller[q])' /\ CopierDealt(puller[q])'
  <2>1. /\ CopierIsSound(puller[q])
        /\ ~crossed => CopierDealt(puller[q])
    BY DEF CopiesInvariant
  <2>2. CopierIsSound(puller[q])'
    BY <2>1, <1>1, <1>3 DEF CopierIsSound, Working, Described, Entry, Filling
  <2>3. ~crossed' => ~crossed /\ puller[q].at \in {"idle", "done"}
    BY <1>1
  <2>4. ~crossed' => CopierAims(puller[q])'
    BY <2>3, <1>1 DEF CopierAims, Working, Filling
  <2>5. ~crossed' => CopierDealt(puller[q])'
    BY <2>1, <2>3, <1>1, <1>3 DEF CopierDealt, DealtWith, Whole, Missing, Filling
  <2> QED
    BY <2>2, <2>4, <2>5
<1>6. ~crossed' => ~crossed
  BY <1>1
<1> QED
  BY <1>1, <1>2, <1>4, <1>5, <1>6 DEF CopiesInvariant

LEMMA CopiesStep ==
  ASSUME CopiesInvariant, CopiesNext \/ UNCHANGED copyVars
  PROVE  CopiesInvariant'
<1>1. CASE UNCHANGED copyVars
  <2>1. \A t : FolderOf(t)' = FolderOf(t)
    BY <1>1 DEF copyVars, FolderOf
  <2>2. CopiesTypeOK' /\ Described(manifest)' /\ (OneFolderEach => OneFolderEach')
    BY <1>1, <2>1 DEF copyVars, CopiesInvariant, CopiesTypeOK, Described, Entry, OneFolderEach
  <2>3. ASSUME NEW q \in Pullers
        PROVE  /\ CopierIsSound(puller[q])'
               /\ ~crossed => CopierAims(puller[q])' /\ CopierDealt(puller[q])'
    <3>1. /\ CopierIsSound(puller[q])
          /\ ~crossed => CopierAims(puller[q]) /\ CopierDealt(puller[q])
      BY DEF CopiesInvariant
    <3>2. UNCHANGED <<title, files, meta, puller>>
      BY <1>1 DEF copyVars
    <3>3. CopierIsSound(puller[q])'
      BY <3>1, <3>2, <2>1 DEF CopierIsSound, Working, Described, Entry, Filling
    <3>4. ~crossed => CopierAims(puller[q])'
      BY <3>1, <3>2, <2>1 DEF CopierAims, Working, Filling
    <3>5. ~crossed => CopierDealt(puller[q])'
      BY <3>1, <3>2, <2>1 DEF CopierDealt, DealtWith, Whole, Missing, Filling
    <3> QED
      BY <3>3, <3>4, <3>5
  <2> QED
    BY <1>1, <2>2, <2>3 DEF copyVars, CopiesInvariant
<1>2. CASE \E p \in Pullers : Begin(p) \/ Choose(p) \/ Save(p) \/ NotSaved(p)
  BY <1>2, BeginKeeps, ChooseKeeps, SaveKeeps, NotSavedKeeps
<1>6. CASE \E p \in Pullers : ListAttachments(p) \/ Attach(p) \/ Describe(p)
  BY <1>6, ListAttachmentsKeeps, AttachKeeps, DescribeKeeps
<1>3. CASE \E p \in Pullers : Note(p) \/ End(p) \/ Killed(p)
  BY <1>3, NoteKeeps, EndKeeps, KilledKeeps
<1>4. CASE \E p \in Pullers, s \in Pulled : Heal(p, s)
  BY <1>4, HealKeeps
<1>5. CASE \E s \in Pulled : Retitle(s)
  BY <1>5, RetitleKeeps
<1> QED
  BY <1>1, <1>2, <1>3, <1>4, <1>5, <1>6 DEF CopiesNext

\* Where the user looks is the session's folder, and it is whole.
LEMMA WholeIsFound == CopiesInvariant => OpensWhole
<1> SUFFICES ASSUME CopiesInvariant, NEW p \in Pullers,
                    puller[p].at = "done", puller[p].clean, ~crossed, NEW e \in puller[p].listed
             PROVE  /\ Found(e[1]) # {}
                    /\ \A d \in Found(e[1]) : Missing(e[1], e[2], d) = {}
  BY DEF OpensWhole
<1>1. e[1] \in Pulled
  BY ListedIsTitled
<1>2. CopierIsSound(puller[p]) /\ CopierDealt(puller[p])
  BY DEF CopiesInvariant
<1>3. Whole(e)
  BY <1>2 DEF CopierIsSound, CopierDealt, DealtWith, Filling
<1>4. Entry(manifest, e[1]) \subseteq FolderOf(e[1])
  BY <1>1 DEF CopiesInvariant, Described
<1> QED
  BY <1>3, <1>4 DEF Found, Whole

\* For any number of sessions, artifacts, processes, failures and kills: unless a
\* title changed in the middle of a pull, a pull that saw no failure leaves the
\* session's folder whole (pull.py, the self-heal of v0.17.0).
THEOREM PulledIsWhole == LibrarySpec => []OpensWhole
<1>1. LibraryInit => CopiesInvariant
  BY CopiesBegin DEF LibraryInit
<1>2. CopiesInvariant /\ [LibraryNext]_<<accountVars, listVars, copyVars, scene>> => CopiesInvariant'
  <2>1. [LibraryNext]_<<accountVars, listVars, copyVars, scene>> => CopiesNext \/ UNCHANGED copyVars
    BY DEF LibraryNext
  <2> QED
    BY <2>1, CopiesStep
<1> QED
  BY <1>1, <1>2, WholeIsFound, PTL DEF LibrarySpec

(***************************************************************************)
(* The list.                                                               *)
(***************************************************************************)

LEMMA FiniteNumbers ==
  ASSUME NEW S \in SUBSET Numbers
  PROVE  IsFiniteSet(S) /\ Cardinality(S) \in Nat
<1>1. IsFiniteSet(Numbers)
  BY SessionListAssumption, FS_Interval DEF Numbers
<1>2. IsFiniteSet(S)
  BY <1>1, FS_Subset
<1> QED
  BY <1>2, FS_CardinalityType

LEMMA BeforeNumber ==
  ASSUME NEW S \in SUBSET Numbers, NEW x
  PROVE  Before(x, S) \in Nat
<1>1. {y \in S : y > x} \in SUBSET Numbers
  OBVIOUS
<1> QED
  BY <1>1, FiniteNumbers DEF Before

\* The older of two stands behind the newer.
LEMMA OlderIsBehind ==
  ASSUME NEW S \in SUBSET Numbers, NEW x \in S, NEW y \in S, x > y
  PROVE  Before(x, S) < Before(y, S)
<1> DEFINE U == {z \in S : z > x}
           V == {z \in S : z > y}
<1>1. U \in SUBSET V /\ x \in V \ U /\ V \in SUBSET Numbers
  <2>1. \A z \in S : z \in Int
    BY DEF Numbers
  <2>2. \A z \in U : z > y
    BY <2>1
  <2>3. ~(x > x)
    BY <2>1
  <2> QED
    BY <2>2, <2>3
<1>2. IsFiniteSet(V)
  BY <1>1, FiniteNumbers
<1>3. Cardinality(U) <= Cardinality(V) /\ Cardinality(U) # Cardinality(V)
  BY <1>1, <1>2, FS_Subset
<1>4. Cardinality(U) = Before(x, S) /\ Cardinality(V) = Before(y, S)
  BY DEF Before
<1> QED
  BY <1>3, <1>4, BeforeNumber

\* Fewer than all stand before one of them.
LEMMA BeforeOneOfThem ==
  ASSUME NEW S \in SUBSET Numbers, NEW x \in S
  PROVE  Before(x, S) \in 0..(Cardinality(S) - 1)
<1> DEFINE U == {z \in S : z > x}
<1>1. U \in SUBSET S /\ x \in S \ U
  BY SessionListAssumption DEF Numbers
<1>2. Cardinality(U) <= Cardinality(S) /\ Cardinality(U) # Cardinality(S)
  BY <1>1, FiniteNumbers, FS_Subset
<1>3. Cardinality(U) = Before(x, S)
  BY DEF Before
<1> QED
  BY <1>2, <1>3, BeforeNumber, FiniteNumbers

\* Each place of the list is taken by one session.
LEMMA PlacesAreTaken ==
  ASSUME NEW S \in SUBSET Numbers
  PROVE  /\ \A x, y \in S : Before(x, S) = Before(y, S) => x = y
         /\ \A n \in 0..(Cardinality(S) - 1) : \E x \in S : Before(x, S) = n
<1> DEFINE places == 0..(Cardinality(S) - 1)
           f == [x \in S |-> Before(x, S)]
<1>1. \A x, y \in S : Before(x, S) = Before(y, S) => x = y
  <2> SUFFICES ASSUME NEW x \in S, NEW y \in S, x # y PROVE Before(x, S) # Before(y, S)
    OBVIOUS
  <2>1. x > y \/ y > x
    BY SessionListAssumption DEF Numbers
  <2>2. Before(x, S) < Before(y, S) \/ Before(y, S) < Before(x, S)
    BY <2>1, OlderIsBehind
  <2> QED
    BY <2>2, BeforeNumber
<1>2. f \in Injection(S, places)
  BY <1>1, BeforeOneOfThem DEF Injection, IsInjective
<1>3. IsFiniteSet(places) /\ Cardinality(places) = Cardinality(S)
  <2>1. Cardinality(S) \in Nat
    BY FiniteNumbers
  <2> HIDE DEF f
  <2> QED
    BY <2>1, FS_Interval
<1>4. f \in Surjection(S, places)
  BY <1>2, <1>3, FS_Injection
<1> QED
  BY <1>1, <1>4 DEF Surjection

\* The sorted list has every session once.
LEMMA ListIsSorted ==
  ASSUME NEW S \in SUBSET Numbers
  PROVE  /\ NewestFirst(S) \in Seq(Numbers) /\ Len(NewestFirst(S)) = Cardinality(S)
         /\ ToSet(NewestFirst(S)) = S
<1>1. Cardinality(S) \in Nat
  BY FiniteNumbers
<1>2. ASSUME NEW i \in 1..Cardinality(S)
      PROVE  /\ (CHOOSE x \in S : Before(x, S) = i - 1) \in S
             /\ Before(CHOOSE x \in S : Before(x, S) = i - 1, S) = i - 1
  <2>1. i - 1 \in 0..(Cardinality(S) - 1)
    BY <1>1
  <2>2. \E x \in S : Before(x, S) = i - 1
    BY <2>1, PlacesAreTaken
  <2> QED
    BY <2>2
<1>3. /\ DOMAIN NewestFirst(S) = 1..Cardinality(S)
      /\ \A i \in 1..Cardinality(S) : NewestFirst(S)[i] \in S /\ Before(NewestFirst(S)[i], S) = i - 1
  BY <1>2 DEF NewestFirst
<1>4. NewestFirst(S) \in Seq(Numbers) /\ Len(NewestFirst(S)) = Cardinality(S)
  <2>1. NewestFirst(S) \in [1..Cardinality(S) -> Numbers]
    BY <1>2 DEF NewestFirst
  <2> QED
    BY <1>1, <2>1
<1>5. ToSet(NewestFirst(S)) \subseteq S
  BY <1>3 DEF ToSet
<1>6. ASSUME NEW x \in S PROVE x \in ToSet(NewestFirst(S))
  <2>1. PICK i : i = Before(x, S) + 1
    OBVIOUS
  <2>2. i \in 1..Cardinality(S) /\ i - 1 = Before(x, S)
    BY <1>1, <2>1, BeforeOneOfThem
  <2>3. NewestFirst(S)[i] \in S /\ Before(NewestFirst(S)[i], S) = Before(x, S)
    BY <1>3, <2>2
  <2>4. NewestFirst(S)[i] = x
    BY <2>3, PlacesAreTaken
  <2> QED
    BY <1>3, <2>2, <2>4 DEF ToSet
<1> QED
  BY <1>4, <1>5, <1>6

\* A page that ends above one of the sessions is full.
LEMMA PageIsFull ==
  ASSUME NEW S \in SUBSET Numbers, NEW n \in Nat, NEW x \in S, Before(x, S) >= n + PageSize
  PROVE  Cardinality(Page(S, n)) = PageSize
<1> DEFINE places == n..(n + PageSize - 1)
           f == [y \in Page(S, n) |-> Before(y, S)]
<1>1. Page(S, n) \in SUBSET S
  BY DEF Page
<1>2. IsFiniteSet(places) /\ Cardinality(places) = PageSize
  <2>1. PageSize \in Nat /\ PageSize > 0
    BY SessionListAssumption
  <2> HIDE DEF f
  <2> QED
    BY <2>1, FS_Interval
<1>3. f \in Bijection(Page(S, n), places)
  <2>1. f \in [Page(S, n) -> places]
    BY DEF Page
  <2>2. f \in Injection(Page(S, n), places)
    BY <1>1, <2>1, PlacesAreTaken DEF Injection, IsInjective
  <2>3. ASSUME NEW i \in places PROVE \E y \in Page(S, n) : f[y] = i
    <3>1. i \in 0..(Cardinality(S) - 1)
      BY BeforeOneOfThem, BeforeNumber, FiniteNumbers, SessionListAssumption
    <3>2. PICK y \in S : Before(y, S) = i
      BY <3>1, PlacesAreTaken
    <3>3. y \in Page(S, n)
      BY <3>2 DEF Page
    <3> QED
      BY <3>2, <3>3
  <2> QED
    BY <2>1, <2>2, <2>3 DEF Bijection, Surjection
<1>4. IsFiniteSet(Page(S, n))
  BY <1>1, FiniteNumbers
<1>5. ExistsBijection(Page(S, n), places)
  BY <1>3 DEF ExistsBijection
<1> QED
  BY <1>2, <1>4, <1>5, FS_Bijection

LEMMA RowsOfAppended ==
  ASSUME NEW r \in Seq(Numbers), NEW s \in Seq(Numbers)
  PROVE  ToSet(r \o s) = ToSet(r) \cup ToSet(s)
<1>1. /\ \A i \in DOMAIN (r \o s) : (r \o s)[i] = IF i <= Len(r) THEN r[i] ELSE s[i - Len(r)]
      /\ DOMAIN (r \o s) = 1..(Len(r) + Len(s))
      /\ DOMAIN r = 1..Len(r) /\ DOMAIN s = 1..Len(s) /\ Len(r) \in Nat /\ Len(s) \in Nat
  OBVIOUS
<1>2. ToSet(r \o s) \subseteq ToSet(r) \cup ToSet(s)
  <2> SUFFICES ASSUME NEW i \in DOMAIN (r \o s) PROVE (r \o s)[i] \in ToSet(r) \cup ToSet(s)
    BY DEF ToSet
  <2>1. CASE i <= Len(r)
    BY <1>1, <2>1 DEF ToSet
  <2>2. CASE i > Len(r)
    <3>1. i - Len(r) \in DOMAIN s
      BY <1>1, <2>2
    <3> QED
      BY <1>1, <2>2, <3>1 DEF ToSet
  <2> QED
    BY <1>1, <2>1, <2>2
<1>3. ASSUME NEW i \in DOMAIN r PROVE r[i] \in ToSet(r \o s)
  <2>1. i \in DOMAIN (r \o s) /\ (r \o s)[i] = r[i]
    BY <1>1
  <2> QED
    BY <2>1 DEF ToSet
<1>4. ASSUME NEW i \in DOMAIN s PROVE s[i] \in ToSet(r \o s)
  <2>1. Len(r) + i \in DOMAIN (r \o s) /\ (r \o s)[Len(r) + i] = s[i]
    BY <1>1
  <2> QED
    BY <2>1 DEF ToSet
<1> QED
  BY <1>2, <1>3, <1>4 DEF ToSet

(* The types of the accounts, and the requests.                            *)

\* What becomes of the app and its clients, and of the requests.
AppTypeOK ==
  /\ app \in Bindings /\ clients \in Seq(Bindings) /\ api \in DOMAIN clients
  /\ members \in SUBSET Teams
RequestIsSound(r) ==
  /\ r.step \in Asking => r.client \in DOMAIN clients
  /\ r.step \in {"granted", "resolved", "loaded"} => r.secret \in Pairs
RequestsAreSound ==
  /\ call \in [Jobs -> Requests \cup {NoOne}]
  /\ \A j \in Jobs : call[j] # NoOne => RequestIsSound(call[j])

LEMMA AccountsParts ==
  AccountsTypeOK <=>
    /\ AppTypeOK /\ FilesTypeOK /\ RequestsAreSound
    /\ asker \in [Askers -> Threads \cup {NoOne}]
    /\ issued \in [Servers -> Nat] /\ expired \in [Servers -> Nat]
  BY DEF AccountsTypeOK, AppTypeOK, FilesTypeOK, RequestsAreSound, RequestIsSound, At

LEMMA AccountsPartsAfter ==
  ASSUME AppTypeOK', FilesTypeOK', RequestsAreSound', asker' \in [Askers -> Threads \cup {NoOne}],
         issued' \in [Servers -> Nat], expired' \in [Servers -> Nat]
  PROVE  AccountsTypeOK'
  BY DEF AccountsTypeOK, AppTypeOK, FilesTypeOK, RequestsAreSound, RequestIsSound, At

LEMMA RebindTypes ==
  ASSUME AppTypeOK, NEW s \in Servers, NEW k \in Pairs, NEW t \in Teams, Rebind(s, k, t)
  PROVE  /\ app' \in Bindings /\ clients' \in Seq(Bindings) /\ api' \in DOMAIN clients'
         /\ DOMAIN clients \subseteq DOMAIN clients'
<1>1. [server |-> s, token |-> k, team |-> t] \in Bindings
  BY DEF Bindings
<1>2. clients' = Append(clients, [server |-> s, token |-> k, team |-> t])
  <2>1. [server |-> s, token |-> k, team |-> t] = [server |-> s, team |-> t, token |-> k]
    OBVIOUS
  <2> QED
    BY <2>1 DEF Rebind
<1>3. clients' \in Seq(Bindings) /\ Len(clients') = Len(clients) + 1 /\ Len(clients) \in Nat
  BY <1>1, <1>2 DEF AppTypeOK
<1>4. DOMAIN clients' = 1..Len(clients') /\ DOMAIN clients = 1..Len(clients)
  BY <1>3 DEF AppTypeOK
<1> QED
  BY <1>1, <1>3, <1>4 DEF Rebind

\* Copies of the file: unchanged, with a pair for a login, with an entry more.
LEMMA SameFiles ==
  ASSUME FilesTypeOK, UNCHANGED fileVars
  PROVE  FilesTypeOK'
  BY DEF FilesTypeOK, FileIsSound, CopyIsSound, Writes, fileVars

LEMMA FanOutTypes ==
  ASSUME NEW f, NEW a, FileIsSound(f, a), NEW t, NEW k \in Pairs
  PROVE  FileIsSound(FanOut(f, t, k), a) /\ a # NoOne
<1>1. \A u \in DOMAIN f : f[u] \in Entries /\ [f[u] EXCEPT !.pair = k] \in Entries
  BY DEF FileIsSound, Entries
<1>2. DOMAIN FanOut(f, t, k) = DOMAIN f /\ FanOut(f, t, k) \in [DOMAIN f -> Entries]
  BY <1>1 DEF FanOut
<1> QED
  BY <1>2, AccountsAssumption DEF FileIsSound

LEMMA WithEntryTypes ==
  ASSUME NEW f, NEW a, CopyIsSound(f, a), NEW t \in Teams, NEW s \in Servers, NEW k \in Pairs
  PROVE  FileIsSound(WithEntry(f, t, s, k), t)
<1>1. [url |-> s, pair |-> k] \in Entries
  BY DEF Entries
<1>2. DOMAIN f \subseteq Teams /\ \A u \in DOMAIN f : f[u] \in Entries
  BY DEF CopyIsSound, FileIsSound
<1>3. WithEntry(f, t, s, k) \in [DOMAIN f \cup {t} -> Entries]
  BY <1>1, <1>2 DEF WithEntry
<1> QED
  BY <1>2, <1>3 DEF FileIsSound

LEMMA FileIsACopy ==
  ASSUME FilesTypeOK
  PROVE  CopyIsSound(config, active) /\ CopyIsSound(<<>>, NoOne) /\ active # NoOne
  BY AccountsAssumption DEF FilesTypeOK, FileIsSound, CopyIsSound

\* A thread has loaded another copy, or the interface's thread has.
LEMMA OtherCopies ==
  ASSUME FilesTypeOK, UNCHANGED <<config, active>>, torn' \in BOOLEAN,
         \/ UNCHANGED opened
         \/ \E x : \E j \in Jobs : opened' = [opened EXCEPT ![j] = x] /\ CopyIsSound(x.file, x.was),
         \/ writing' = NotWriting \/ UNCHANGED writing
         \/ /\ writing'.team \in Teams /\ writing'.server \in Servers /\ writing'.pair \in Pairs
            /\ CopyIsSound(writing'.file, writing'.was)
  PROVE  FilesTypeOK'
<1>1. DOMAIN opened' = Jobs /\ \A j \in Jobs : CopyIsSound(opened'[j].file, opened'[j].was)
  BY DEF FilesTypeOK
<1>2. /\ CopyIsSound(writing'.file, writing'.was)
      /\ writing'.step # "idle" =>
           writing'.team \in Teams /\ writing'.server \in Servers /\ writing'.pair \in Pairs
  BY DEF FilesTypeOK, NotWriting, CopyIsSound, Writes
<1> QED
  BY <1>1, <1>2 DEF FilesTypeOK, FileIsSound, CopyIsSound, Writes

\* A request that another takes the place of, or that moves on.
LEMMA OneRequest ==
  ASSUME RequestsAreSound, NEW j \in Jobs, NEW r \in Requests \cup {NoOne},
         call' = [call EXCEPT ![j] = r],
         DOMAIN clients \subseteq DOMAIN clients',
         r # NoOne => RequestIsSound(r)'
  PROVE  RequestsAreSound'
<1>1. call' \in [Jobs -> Requests \cup {NoOne}]
  BY DEF RequestsAreSound
<1>2. \A i \in Jobs : call'[i] = IF i = j THEN r ELSE call[i]
  BY DEF RequestsAreSound
<1>3. ASSUME NEW i \in Jobs, call'[i] # NoOne PROVE RequestIsSound(call[i])'
  <2>1. CASE i = j
    BY <2>1, <1>2, <1>3 DEF RequestIsSound
  <2>2. CASE i # j
    BY <2>2, <1>2, <1>3 DEF RequestsAreSound, RequestIsSound
  <2> QED
    BY <2>1, <2>2
<1> QED
  BY <1>1, <1>3 DEF RequestsAreSound

LEMMA SameRequests ==
  ASSUME RequestsAreSound, UNCHANGED call, DOMAIN clients \subseteq DOMAIN clients'
  PROVE  RequestsAreSound'
  BY DEF RequestsAreSound, RequestIsSound

LEMMA AccountsBegin == AccountsInit => AccountsTypeOK
<1> SUFFICES ASSUME AccountsInit PROVE AccountsTypeOK
  OBVIOUS
<1>1. PICK t : t = CHOOSE u \in Configured : TRUE
  OBVIOUS
<1>2. t \in Configured /\ t \in Teams /\ Home[t] \in Servers
  BY <1>1, AccountsAssumption
<1>3. \A s \in Servers : Pair(s, 1) \in Pairs
  BY DEF Pair, Pairs
<1>4. AppTypeOK
  <2>1. app = [server |-> Home[t], token |-> Pair(Home[t], 1), team |-> t] /\ app \in Bindings
    BY <1>1, <1>2, <1>3 DEF AccountsInit, Bindings
  <2>2. clients = <<[server |-> Home[t], team |-> t, token |-> Pair(Home[t], 1)]>>
    BY <1>1 DEF AccountsInit
  <2>3. [server |-> Home[t], team |-> t, token |-> Pair(Home[t], 1)] \in Bindings
    BY <1>2, <1>3 DEF Bindings
  <2> QED
    BY <2>1, <2>2, <2>3 DEF AccountsInit, AppTypeOK
<1>5. FilesTypeOK
  <2>1. \A u \in Configured : u \in Teams /\ Home[u] \in Servers
    BY AccountsAssumption
  <2>2. FileIsSound(config, active)
    BY <1>1, <1>2, <1>3, <2>1 DEF AccountsInit, FileIsSound, Entries
  <2>3. CopyIsSound(Nothing.file, Nothing.was) /\ CopyIsSound(NotWriting.file, NotWriting.was) /\ NotWriting.step = "idle"
    BY DEF CopyIsSound, Nothing, NotWriting
  <2> QED
    BY <2>2, <2>3 DEF AccountsInit, FilesTypeOK, Writes
<1>6. RequestsAreSound
  BY DEF AccountsInit, RequestsAreSound
<1> QED
  BY <1>4, <1>5, <1>6, AccountsParts DEF AccountsInit

LEMMA TeamsAndPairs ==
  ASSUME AccountsTypeOK
  PROVE  /\ \A e \in AllTeams : e.url \in Servers /\ e.token \in Pairs /\ e.slug \in Teams
         /\ app.server \in Servers /\ app.token \in Pairs /\ app.team \in Teams
         /\ \A s \in Servers, n \in Nat : Pair(s, n) \in Pairs
<1>1. app.server \in Servers /\ app.token \in Pairs /\ app.team \in Teams
  BY DEF AccountsTypeOK, Bindings
<1>2. \A t \in DOMAIN config : t \in Teams /\ config[t].url \in Servers /\ config[t].pair \in Pairs
  BY DEF AccountsTypeOK, FilesTypeOK, FileIsSound, Entries
<1> QED
  BY <1>1, <1>2 DEF AllTeams, AccountsTypeOK, Pair, Pairs

\* An asker that moves on.
LEMMA AskerTypes ==
  ASSUME AccountsTypeOK, NEW a \in Askers
  PROVE  /\ \A x \in Threads \cup {NoOne} : [asker EXCEPT ![a] = x] \in [Askers -> Threads \cup {NoOne}]
         /\ asker[a] # NoOne /\ asker[a].step # "url" => asker[a].server \in Servers
<1>1. asker[a] # NoOne /\ asker[a].step # "url" => asker[a].server \in Servers
  <2>1. asker[a] \in Threads \cup {NoOne}
    BY DEF AccountsTypeOK
  <2> QED
    BY <2>1 DEF Threads
<1> QED
  BY <1>1 DEF AccountsTypeOK

LEMMA SwitchTypes ==
  ASSUME AccountsTypeOK, NEW a \in Askers, Switched(a) \/ SignedIn(a)
  PROVE  /\ AppTypeOK' /\ FilesTypeOK' /\ DOMAIN clients \subseteq DOMAIN clients'
         /\ asker' \in [Askers -> Threads \cup {NoOne}]
         /\ issued' \in [Servers -> Nat] /\ expired' \in [Servers -> Nat]
<1>1. AppTypeOK /\ FilesTypeOK
  BY AccountsParts
<1>2. writing.team \in Teams /\ writing.server \in Servers /\ writing.pair \in Pairs
  BY <1>1 DEF Switched, SignedIn, Writes, FilesTypeOK
<1>6. CopyIsSound(NotWriting.file, NotWriting.was) /\ NotWriting.step = "idle"
  BY DEF CopyIsSound, NotWriting
<1>3. /\ app' \in Bindings /\ clients' \in Seq(Bindings) /\ api' \in DOMAIN clients'
      /\ DOMAIN clients \subseteq DOMAIN clients'
  BY <1>1, <1>2, RebindTypes DEF Switched, SignedIn
<1>4. FilesTypeOK'
  <2>1. FileIsSound(config, active)'
    <3>1. CASE UNCHANGED <<config, active>>
      BY <1>1, <3>1 DEF FilesTypeOK, FileIsSound
    <3>2. CASE writing.team \in DOMAIN writing.file /\ config' = writing.file /\ active' = writing.team /\ Switched(a)
      BY <1>1, <3>2 DEF Switched, Writes, FilesTypeOK, CopyIsSound, FileIsSound
    <3> QED
      BY <3>1, <3>2 DEF Switched, SignedIn
  <2> QED
    BY <1>1, <1>6, <2>1 DEF Switched, SignedIn, FilesTypeOK, CopyIsSound, FileIsSound, Writes
<1>5. [step |-> "url"] \in Threads
  BY DEF Threads
<1> QED
  BY <1>3, <1>4, <1>5, AskerTypes DEF Switched, SignedIn, AskIdentity, serverVars, AccountsTypeOK, AppTypeOK

\* The interface's thread loads and saves the file.
LEMMA WritingTypes ==
  ASSUME AccountsTypeOK,
         (\E a \in Askers : SwitchTo(a) \/ Reauth(a)) \/ AddEntry \/ LoadForAll \/ ShareEntry
  PROVE  AccountsTypeOK'
<1>1. AppTypeOK /\ FilesTypeOK /\ RequestsAreSound
  BY AccountsParts
<1>2. UNCHANGED <<app, clients, api, members, asker, call, expired>>
  BY DEF SwitchTo, Reauth, AddEntry, LoadForAll, ShareEntry, appVars, serverVars
<1>3. AppTypeOK' /\ RequestsAreSound'
  BY <1>1, <1>2, SameRequests DEF AppTypeOK
<1>4. issued' \in [Servers -> Nat]
  <2>1. CASE \E a \in Askers : Reauth(a)
    <3>1. PICK s : issued' = [issued EXCEPT ![s] = @ + 1] /\ s = app.server
      BY <2>1 DEF Reauth
    <3>2. s \in Servers
      BY <3>1, TeamsAndPairs
    <3> QED
      BY <3>1, <3>2 DEF AccountsTypeOK
  <2>2. CASE UNCHANGED issued
    BY <2>2 DEF AccountsTypeOK
  <2> QED
    BY <2>1, <2>2 DEF SwitchTo, AddEntry, LoadForAll, ShareEntry, serverVars
<1>5. FilesTypeOK'
  <2>1. CASE \E a \in Askers : SwitchTo(a)
    <3>1. PICK e \in AllTeams : writing' = Writing("switch", e.slug, e.url, e.token)
      BY <2>1 DEF SwitchTo
    <3>2. e.url \in Servers /\ e.token \in Pairs /\ e.slug \in Teams
      BY TeamsAndPairs
    <3>3. /\ writing'.team \in Teams /\ writing'.server \in Servers /\ writing'.pair \in Pairs
          /\ CopyIsSound(writing'.file, writing'.was)
      BY <1>1, <3>1, <3>2, FileIsACopy DEF Writing
    <3> QED
      BY <1>1, <2>1, <3>3, OtherCopies DEF SwitchTo, FilesTypeOK
  <2>2. CASE \E a \in Askers : Reauth(a)
    <3>1. PICK s, k : writing' = Writing("add", app.team, s, k) /\ s = app.server /\ k = Pair(s, issued[s] + 1)
      BY <2>2 DEF Reauth
    <3>2. s \in Servers /\ app.team \in Teams
      BY <3>1, TeamsAndPairs
    <3>3. k \in Pairs
      BY <3>1, <3>2, TeamsAndPairs DEF AccountsTypeOK
    <3>4. /\ writing'.team \in Teams /\ writing'.server \in Servers /\ writing'.pair \in Pairs
          /\ CopyIsSound(writing'.file, writing'.was)
      BY <1>1, <3>1, <3>2, <3>3, FileIsACopy DEF Writing
    <3> QED
      BY <1>1, <2>2, <3>4, OtherCopies DEF Reauth, FilesTypeOK
  <2>3. ASSUME AddEntry \/ LoadForAll \/ ShareEntry
        PROVE  /\ writing.team \in Teams /\ writing.server \in Servers /\ writing.pair \in Pairs
               /\ CopyIsSound(writing.file, writing.was) /\ UNCHANGED <<opened, torn>>
    BY <1>1, <2>3 DEF AddEntry, LoadForAll, ShareEntry, Writes, FilesTypeOK
  <2>4. CASE AddEntry \/ ShareEntry
    <3>1. writing' = Written("added") \/ writing' = Written("shared")
      BY <2>4 DEF AddEntry, ShareEntry
    <3>2. writing'.team \in Teams /\ writing'.server \in Servers /\ writing'.pair \in Pairs
      BY <2>3, <2>4, <3>1 DEF Written
    <3>3. CopyIsSound(writing'.file, writing'.was)
      BY <3>1 DEF CopyIsSound, Written
    <3>4. FileIsSound(config, active)'
      <4>1. CASE AddEntry
        BY <2>3, <4>1, WithEntryTypes DEF AddEntry
      <4>2. CASE UNCHANGED <<config, active>>
        BY <1>1, <4>2 DEF FilesTypeOK
      <4>3. CASE /\ writing.team \in DOMAIN writing.file
                 /\ config' = FanOut(writing.file, writing.team, writing.pair) /\ active' = writing.was
        <5>1. FileIsSound(writing.file, writing.was)
          BY <2>3, <2>4, <4>3 DEF CopyIsSound
        <5> QED
          BY <2>3, <2>4, <4>3, <5>1, FanOutTypes
      <4> QED
        BY <2>4, <4>1, <4>2, <4>3 DEF ShareEntry
    <3> QED
      BY <1>1, <2>3, <2>4, <3>2, <3>3, <3>4 DEF FilesTypeOK, CopyIsSound, FileIsSound, Writes
  <2>5. CASE LoadForAll
    <3>1. writing' = Writing("share", writing.team, writing.server, writing.pair)
      BY <2>5 DEF LoadForAll
    <3>2. /\ writing'.team \in Teams /\ writing'.server \in Servers /\ writing'.pair \in Pairs
          /\ CopyIsSound(writing'.file, writing'.was)
      BY <1>1, <2>3, <2>5, <3>1, FileIsACopy DEF Writing
    <3> QED
      BY <1>1, <2>3, <2>5, <3>2, OtherCopies DEF LoadForAll, FilesTypeOK
  <2> QED
    BY <2>1, <2>2, <2>4, <2>5
<1> QED
  BY <1>2, <1>3, <1>4, <1>5, AccountsPartsAfter DEF AccountsTypeOK

LEMMA SignedInTypes ==
  ASSUME AccountsTypeOK, NEW a \in Askers, SignedIn(a)
  PROVE  AccountsTypeOK'
<1>1. RequestsAreSound'
  BY SwitchTypes, SameRequests, AccountsParts DEF SignedIn
<1> QED
  BY <1>1, SwitchTypes, AccountsPartsAfter

LEMMA AskersType ==
  ASSUME AccountsTypeOK, NEW a \in Askers, AskUrl(a) \/ AskToken(a) \/ ApplyIdentity(a) \/ IdentityLost(a)
  PROVE  AccountsTypeOK'
<1>1. /\ AppTypeOK /\ FilesTypeOK /\ RequestsAreSound /\ UNCHANGED <<call, fileVars, serverVars>>
  BY AccountsParts DEF AskUrl, AskToken, ApplyIdentity, IdentityLost
<1>2. FilesTypeOK' /\ issued' \in [Servers -> Nat] /\ expired' \in [Servers -> Nat]
  BY <1>1, SameFiles DEF serverVars, AccountsTypeOK
<1>3. asker' \in [Askers -> Threads \cup {NoOne}]
  <2>1. \A s \in Servers : [step |-> "token", server |-> s] \in Threads /\ [step |-> "answer", server |-> s] \in Threads
    BY DEF Threads
  <2>2. app.server \in Servers
    BY TeamsAndPairs
  <2>3. AskToken(a) => asker[a].server \in Servers
    BY AskerTypes DEF AskToken
  <2>4. PICK x : x \in Threads \cup {NoOne} /\ asker' = [asker EXCEPT ![a] = x]
    BY <2>1, <2>2, <2>3 DEF AskUrl, AskToken, ApplyIdentity, IdentityLost
  <2> QED
    BY <2>4, AskerTypes
<1>4. AppTypeOK' /\ DOMAIN clients \subseteq DOMAIN clients'
  <2>1. CASE UNCHANGED appVars
    BY <2>1, <1>1 DEF appVars, AppTypeOK
  <2>2. CASE ApplyIdentity(a)
    <3>1. members' \in SUBSET Teams
      BY <2>2 DEF ApplyIdentity, Of
    <3>2. CASE UNCHANGED <<app, clients, api>>
      BY <3>1, <3>2, <1>1 DEF AppTypeOK
    <3>3. CASE \E t \in members' : Rebind(app.server, app.token, t)
      <4>1. PICK t \in Teams : Rebind(app.server, app.token, t)
        BY <3>1, <3>3
      <4>2. app.server \in Servers /\ app.token \in Pairs
        BY TeamsAndPairs
      <4> QED
        BY <3>1, <4>1, <4>2, <1>1, RebindTypes DEF AppTypeOK
    <3> QED
      BY <2>2, <3>2, <3>3 DEF ApplyIdentity
  <2> QED
    BY <2>1, <2>2 DEF AskUrl, AskToken, IdentityLost
<1>5. RequestsAreSound'
  BY <1>1, <1>4, SameRequests
<1> QED
  BY <1>2, <1>3, <1>4, <1>5, AccountsPartsAfter

LEMMA RequestTypes ==
  ASSUME AccountsTypeOK, NEW j \in Jobs, call[j] # NoOne
  PROVE  /\ call[j] \in Requests /\ RequestIsSound(call[j])
         /\ \A s \in {"start", "refresh", "granted", "resolved", "loaded", "again", "served", "failed"} :
              [call[j] EXCEPT !.step = s] \in Requests /\ [call[j] EXCEPT !.step = s].step = s
<1>1. call[j] \in Requests /\ RequestIsSound(call[j])
  BY AccountsParts DEF RequestsAreSound
<1> QED
  BY <1>1 DEF Requests

\* A request that goes on while the accounts stay as they are.
LEMMA OnlyTheRequest ==
  ASSUME AccountsTypeOK, NEW j \in Jobs, NEW r \in Requests \cup {NoOne},
         call' = [call EXCEPT ![j] = r], r # NoOne => RequestIsSound(r),
         UNCHANGED <<app, clients, api, asker, fileVars, expired>>,
         members' \in SUBSET Teams, issued' \in [Servers -> Nat]
  PROVE  AccountsTypeOK'
<1>1. AppTypeOK' /\ FilesTypeOK'
  BY AccountsParts, SameFiles DEF AppTypeOK
<1>2. RequestsAreSound'
  <2>1. r # NoOne => RequestIsSound(r)'
    BY DEF RequestIsSound
  <2> QED
    BY <2>1, OneRequest, AccountsParts
<1> QED
  BY <1>1, <1>2, AccountsPartsAfter DEF AccountsTypeOK

LEMMA RequestsType ==
  ASSUME AccountsTypeOK, NEW j \in Jobs,
         Unanswered(j) \/ Granted(j) \/ NotGranted(j) \/ OpenTeams(j) \/ TeamsRefreshed(j)
  PROVE  AccountsTypeOK'
<1>1. UNCHANGED <<app, clients, api, asker, fileVars, expired>>
  BY DEF Unanswered, Granted, NotGranted, OpenTeams, TeamsRefreshed, appVars, serverVars
<1>2. CASE Unanswered(j)
  <2>1. PICK r : /\ call' = [call EXCEPT ![j] = r]
                 /\ r = IF call[j].kind = "more" \/ call[j].attempt = Attempts
                        THEN [call[j] EXCEPT !.step = "failed"]
                        ELSE IF call[j].cancelled THEN NoOne ELSE [call[j] EXCEPT !.attempt = call[j].attempt + 1]
    BY <1>2 DEF Unanswered
  <2>2. call[j] \in Requests /\ call[j].step = "start"
    BY <1>2, RequestTypes DEF Unanswered, At
  <2>3. r \in Requests \cup {NoOne} /\ (r # NoOne => r.step \in {"failed", "start"})
    BY <2>1, <2>2 DEF Requests
  <2>4. call' = [call EXCEPT ![j] = r]
    BY <2>1
  <2>5. UNCHANGED <<members, issued>>
    BY <1>2 DEF Unanswered, appVars, serverVars
  <2>6. r # NoOne => RequestIsSound(r)
    BY <2>3 DEF RequestIsSound, Asking
  <2>7. members' \in SUBSET Teams /\ issued' \in [Servers -> Nat]
    BY <2>5 DEF AccountsTypeOK
  <2> QED
    BY <1>1, <2>3, <2>4, <2>6, <2>7, OnlyTheRequest
<1>3. CASE Granted(j)
  <2>1. PICK s, k : /\ s = clients[call[j].client].server /\ k = Pair(s, issued[s] + 1)
                    /\ issued' = [issued EXCEPT ![s] = @ + 1]
                    /\ call' = [call EXCEPT ![j].step = "granted", ![j].secret = k]
    BY <1>3 DEF Granted
  <2>2. call[j] \in Requests /\ call[j].step = "refresh" /\ call[j].client \in DOMAIN clients
    BY <1>3, RequestTypes DEF Granted, At, RequestIsSound, Asking
  <2>3. s \in Servers
    <3>1. clients[call[j].client] \in Bindings
      BY <2>2 DEF AccountsTypeOK
    <3> QED
      BY <2>1, <3>1 DEF Bindings
  <2>4. issued[s] \in Nat /\ issued[s] + 1 \in Nat
    BY <2>3 DEF AccountsTypeOK
  <2>5. k \in Pairs
    BY <2>1, <2>3, <2>4, TeamsAndPairs
  <2>6. PICK r : r = [call[j] EXCEPT !.step = "granted", !.secret = k]
    OBVIOUS
  <2>7. r \in Requests /\ r.step = "granted" /\ r.secret = k /\ r.client = call[j].client
    BY <2>2, <2>5, <2>6 DEF Requests
  <2>8. call' = [call EXCEPT ![j] = r]
    BY <2>1, <2>6 DEF AccountsTypeOK
  <2>9. RequestIsSound(r)
    BY <2>2, <2>5, <2>7 DEF RequestIsSound, Asking
  <2>10. issued' \in [Servers -> Nat] /\ members' \in SUBSET Teams
    BY <1>3, <2>1, <2>3, <2>4 DEF Granted, appVars, AccountsTypeOK
  <2> QED
    BY <1>1, <2>7, <2>8, <2>9, <2>10, OnlyTheRequest
<1>4. CASE NotGranted(j)
  <2>1. call[j] # NoOne /\ call' = [call EXCEPT ![j] = [call[j] EXCEPT !.step = "failed"]]
    BY <1>4 DEF NotGranted, At
  <2>2. [call[j] EXCEPT !.step = "failed"] \in Requests /\ [call[j] EXCEPT !.step = "failed"].step = "failed"
    BY <2>1, RequestTypes
  <2> QED
    BY <1>1, <1>4, <2>1, <2>2, OnlyTheRequest DEF NotGranted, RequestIsSound, Asking, AccountsTypeOK, appVars, serverVars
<1>5. CASE OpenTeams(j)
  <2>1. Start(j, "teams") \in Requests /\ Start(j, "teams").step = "start"
    BY DEF Start, Requests
  <2> QED
    BY <1>1, <1>5, <2>1, OnlyTheRequest DEF OpenTeams, RequestIsSound, Asking, AccountsTypeOK, appVars, serverVars
<1>6. CASE TeamsRefreshed(j)
  <2>1. members' \in SUBSET Teams
    BY <1>6 DEF TeamsRefreshed, Of, AccountsTypeOK
  <2> QED
    BY <1>1, <1>6, <2>1, OnlyTheRequest DEF TeamsRefreshed, AccountsTypeOK, serverVars
<1> QED
  BY <1>2, <1>3, <1>4, <1>5, <1>6

\* A thread looks up the entry and loads the file.
LEMMA OpenTypes ==
  ASSUME AccountsTypeOK, NEW j \in Jobs, Resolve(j) \/ Load(j)
  PROVE  AccountsTypeOK'
<1>1. AppTypeOK /\ FilesTypeOK /\ RequestsAreSound
  BY AccountsParts
<1>2. UNCHANGED <<app, clients, api, members, asker, config, active, writing, issued, expired>>
  BY DEF Resolve, Load, appVars, serverVars
<1>3. PICK n \in {"resolved", "loaded"} : call' = [call EXCEPT ![j] = [call[j] EXCEPT !.step = n]]
  BY DEF Resolve, Load
<1>4. call[j] # NoOne /\ call[j].step \in {"granted", "resolved"}
  BY DEF Resolve, Load, At
<1>5. RequestsAreSound'
  <2>1. PICK r : r = [call[j] EXCEPT !.step = n]
    OBVIOUS
  <2>2. call[j] \in Requests /\ RequestIsSound(call[j])
    BY <1>4, RequestTypes
  <2>3. r \in Requests /\ r.step = n /\ r.client = call[j].client /\ r.secret = call[j].secret
    BY <2>1, <2>2 DEF Requests
  <2>4. RequestIsSound(r)'
    BY <1>2, <1>4, <2>2, <2>3 DEF RequestIsSound, Asking
  <2> QED
    BY <1>1, <1>2, <1>3, <2>1, <2>3, <2>4, OneRequest
<1>6. FilesTypeOK'
  <2>1. torn' \in BOOLEAN
    BY <1>1 DEF Resolve, Load, FilesTypeOK
  <2>2. PICK x : opened' = [opened EXCEPT ![j] = x] /\ CopyIsSound(x.file, x.was)
    <3>1. CASE Resolve(j)
      <4>1. PICK x : /\ x = [to |-> EntryOf(clients[call[j].client].team), file |-> <<>>, was |-> NoOne]
                     /\ opened' = [opened EXCEPT ![j] = x]
        BY <3>1 DEF Resolve
      <4>2. x.file = <<>> /\ x.was = NoOne
        BY <4>1
      <4>3. CopyIsSound(x.file, x.was)
        BY <1>1, <4>2, FileIsACopy
      <4> QED
        BY <4>1, <4>3
    <3>2. CASE Load(j)
      <4>1. PICK x : /\ x = [to |-> opened[j].to, file |-> config, was |-> active]
                     /\ opened' = [opened EXCEPT ![j] = x]
        BY <3>2 DEF Load
      <4>2. x.file = config /\ x.was = active
        BY <4>1
      <4>3. CopyIsSound(x.file, x.was)
        BY <1>1, <4>2, FileIsACopy
      <4> QED
        BY <4>1, <4>3
    <3> QED
      BY <3>1, <3>2
  <2> QED
    BY <1>1, <1>2, <2>1, <2>2, OtherCopies
<1>7. AppTypeOK'
  BY <1>1, <1>2 DEF AppTypeOK
<1> QED
  BY <1>2, <1>5, <1>6, <1>7, AccountsPartsAfter DEF AccountsTypeOK

LEMMA KeepTypes ==
  ASSUME AccountsTypeOK, NEW j \in Jobs, Keep(j)
  PROVE  AccountsTypeOK'
<1>1. PICK c, k, o : /\ c = call[j].client /\ k = call[j].secret /\ o = opened[j]
                     /\ \/ /\ o.to \in DOMAIN o.file
                           /\ config' = FanOut(o.file, o.to, k) /\ active' = o.was
                        \/ UNCHANGED <<config, active>>
                     /\ clients' = [clients EXCEPT ![c].token = k]
                     /\ app' = [app EXCEPT !.token = k]
                     /\ call' = [call EXCEPT ![j].step = "again", ![j].secret = NoOne]
                     /\ opened' = [opened EXCEPT ![j] = Nothing]
                     /\ UNCHANGED <<api, members, asker, writing, torn, serverVars>>
  BY DEF Keep
<1>2. /\ call[j] \in Requests /\ c \in DOMAIN clients /\ k \in Pairs /\ call[j] # NoOne
  BY <1>1, RequestTypes DEF Keep, At, RequestIsSound, Asking
<1>3. AppTypeOK' /\ DOMAIN clients' = DOMAIN clients
  <2>1. app' \in Bindings
    BY <1>1, <1>2 DEF AccountsTypeOK, Bindings
  <2>2. \A b \in Bindings : [b EXCEPT !.token = k] \in Bindings
    BY <1>2 DEF Bindings
  <2>3. clients' = [clients EXCEPT ![c] = [clients[c] EXCEPT !.token = k]] /\ clients[c] \in Bindings
    BY <1>1, <1>2 DEF AccountsTypeOK
  <2>4. clients' \in Seq(Bindings) /\ DOMAIN clients' = DOMAIN clients
    BY <1>2, <2>2, <2>3 DEF AccountsTypeOK
  <2> QED
    BY <1>1, <2>1, <2>4 DEF AccountsTypeOK, AppTypeOK
<1>4. FilesTypeOK'
  <2>1. FilesTypeOK
    BY AccountsParts
  <2>2. FileIsSound(config, active)'
    <3>1. CASE UNCHANGED <<config, active>>
      BY <2>1, <3>1 DEF FilesTypeOK, FileIsSound
    <3>2. CASE o.to \in DOMAIN o.file /\ config' = FanOut(o.file, o.to, k) /\ active' = o.was
      <4>1. FileIsSound(o.file, o.was)
        BY <1>1, <2>1, <3>2 DEF FilesTypeOK, CopyIsSound
      <4> QED
        BY <1>2, <3>2, <4>1, FanOutTypes
    <3> QED
      BY <1>1, <3>1, <3>2
  <2>3. CopyIsSound(Nothing.file, Nothing.was)
    BY DEF CopyIsSound, Nothing
  <2>4. DOMAIN opened' = Jobs /\ \A i \in Jobs : CopyIsSound(opened'[i].file, opened'[i].was)
    BY <1>1, <2>1, <2>3 DEF FilesTypeOK
  <2> QED
    BY <1>1, <2>1, <2>2, <2>4 DEF FilesTypeOK, CopyIsSound, FileIsSound, Writes
<1>5. RequestsAreSound'
  <2>1. PICK r : r = [call[j] EXCEPT !.step = "again", !.secret = NoOne]
    OBVIOUS
  <2>2. r \in Requests /\ r.step = "again" /\ r.client = c
    BY <1>1, <1>2, <2>1 DEF Requests
  <2>3. call' = [call EXCEPT ![j] = r]
    BY <1>1, <2>1 DEF AccountsTypeOK
  <2>4. RequestIsSound(r)'
    BY <1>2, <1>3, <2>2 DEF RequestIsSound, Asking
  <2> QED
    BY <1>3, <2>2, <2>3, <2>4, OneRequest, AccountsParts
<1> QED
  BY <1>1, <1>3, <1>4, <1>5, AccountsPartsAfter DEF serverVars, AccountsTypeOK

\* The screen's own requests.
LEMMA AskTypes ==
  ASSUME AccountsTypeOK, NEW j \in Jobs, Ask(j) \/ Again(j)
  PROVE  AccountsTypeOK'
<1>1. UNCHANGED <<app, clients, api, members, asker, fileVars, issued, expired>>
  BY DEF Ask, Again, appVars, serverVars
<1>2. CASE Ask(j)
  <2>1. PICK c, k : /\ c = clients[api] /\ k = RefreshToken(api)
                    /\ call' = [call EXCEPT
                         ![j].client = api,
                         ![j].secret = IF Accepts(c.server, c.token) THEN NoOne ELSE k,
                         ![j].step = IF Accepts(c.server, c.token) THEN IF Serves(j, api) THEN "served" ELSE "failed"
                                     ELSE IF k = NoOne THEN "failed" ELSE "refresh"]
    BY <1>2 DEF Ask
  <2>2. PICK x, n : /\ x = (IF Accepts(c.server, c.token) THEN NoOne ELSE k)
                    /\ n = (IF Accepts(c.server, c.token) THEN IF Serves(j, api) THEN "served" ELSE "failed"
                            ELSE IF k = NoOne THEN "failed" ELSE "refresh")
    OBVIOUS
  <2>3. k \in Pairs \cup {NoOne}
    <3>1. PICK t : t = EntryOf(clients[api].team)
      OBVIOUS
    <3>2. t \in DOMAIN config
      BY <3>1 DEF EntryOf, AccountsTypeOK, FilesTypeOK, FileIsSound
    <3>3. config[t].pair \in Pairs
      BY <3>2 DEF AccountsTypeOK, FilesTypeOK, FileIsSound, Entries
    <3> QED
      BY <2>1, <3>1, <3>3 DEF RefreshToken
  <2>4. x \in Pairs \cup {NoOne} /\ n \in {"served", "failed", "refresh"}
    BY <2>2, <2>3
  <2>5. PICK r : r = [call[j] EXCEPT !.client = api, !.secret = x, !.step = n]
    OBVIOUS
  <2>6. call[j] \in Requests
    BY <1>2, RequestTypes DEF Ask, At
  <2>7. api \in Nat /\ api \in DOMAIN clients
    BY DEF AccountsTypeOK
  <2>8. r \in Requests /\ r.client = api /\ r.step = n
    BY <2>4, <2>5, <2>6, <2>7 DEF Requests
  <2>9. call' = [call EXCEPT ![j] = r]
    BY <2>1, <2>2, <2>5 DEF AccountsTypeOK
  <2>10. RequestIsSound(r)
    BY <2>4, <2>7, <2>8 DEF RequestIsSound, Asking
  <2> QED
    BY <1>1, <2>8, <2>9, <2>10, OnlyTheRequest DEF AccountsTypeOK
<1>3. CASE Again(j)
  <2>1. PICK n \in {"served", "failed"} : call' = [call EXCEPT ![j].step = n]
    BY <1>3 DEF Again
  <2>2. call[j] # NoOne /\ call' = [call EXCEPT ![j] = [call[j] EXCEPT !.step = n]]
    BY <1>3, <2>1 DEF Again, At
  <2>3. [call[j] EXCEPT !.step = n] \in Requests /\ [call[j] EXCEPT !.step = n].step = n
    BY <2>2, RequestTypes
  <2> QED
    BY <1>1, <2>2, <2>3, OnlyTheRequest DEF RequestIsSound, Asking, AccountsTypeOK
<1> QED
  BY <1>2, <1>3

LEMMA AccountsKeep == AccountsTypeOK /\ AccountsNext => AccountsTypeOK'
<1> SUFFICES ASSUME AccountsTypeOK, AccountsNext PROVE AccountsTypeOK'
  OBVIOUS
<1>1. CASE \E s \in Servers : Expire(s)
  <2>1. PICK s \in Servers : Expire(s)
    BY <1>1
  <2>2. expired' \in [Servers -> Nat]
    BY <2>1 DEF Expire, AccountsTypeOK
  <2>3. UNCHANGED <<app, clients, api, members, asker, call, fileVars, issued>>
    BY <2>1 DEF Expire, appVars
  <2>4. FilesTypeOK'
    BY <2>3, SameFiles, AccountsParts
  <2> QED
    BY <2>2, <2>3, <2>4 DEF AccountsTypeOK
<1> QED
  BY <1>1, AskersType, RequestsType, OpenTypes, KeepTypes, WritingTypes, SignedInTypes DEF AccountsNext

(* The requests of the screen.                                             *)

ScreenTypeOK ==
  /\ held \in [Teams -> SUBSET Numbers] /\ made \in Nat
  /\ filter \in BOOLEAN /\ rows \in Seq(Numbers) /\ promise \in SUBSET Numbers
  /\ hasMore \in BOOLEAN /\ mixed \in BOOLEAN
  /\ view \in Views \cup {NoOne} /\ DOMAIN page = Jobs

\* What ListInvariant says of one request.
MoreIsAbove(j) ==
  /\ page[j].offset <= Len(rows)
  /\ call[j].step = "served" /\ page[j].view = view /\ ~mixed =>
       /\ promise \subseteq page[j].all
       /\ \A x \in promise \ ToSet(rows) : Before(x, page[j].all) >= page[j].offset

PageIsSound(j) ==
  Asks(j) =>
    /\ page[j] \in Pages
    /\ Is(j, "refresh") => page[j].offset = 0
    /\ call[j].step \in Asking \cup {"served"} => page[j].view \in Views
    /\ call[j].step = "served" =>
         /\ page[j].answer = Page(page[j].all, page[j].offset)
         /\ ~page[j].stale => page[j].all \subseteq Listed(page[j].view)
    /\ Is(j, "more") /\ ~page[j].stale => MoreIsAbove(j)

LEMMA ListParts ==
  ASSUME ListInvariant
  PROVE  ScreenTypeOK /\ RowsAreSound /\ \A j \in Jobs : PageIsSound(j)
<1>1. ScreenTypeOK /\ RowsAreSound
  BY DEF ListInvariant, ListTypeOK, ScreenTypeOK
<1>2. ASSUME NEW j \in Jobs PROVE PageIsSound(j)
  <2>1. Asks(j) => page[j] \in Pages
    BY DEF ListInvariant, ListTypeOK
  <2>2. Is(j, "more") /\ ~page[j].stale => MoreIsAbove(j)
    BY DEF ListInvariant, MoreIsSound, MoreIsAbove
  <2> QED
    BY <2>1, <2>2 DEF ListInvariant, PagesAreSound, PageIsSound
<1> QED
  BY <1>1, <1>2

LEMMA ListPartsAfter ==
  ASSUME ScreenTypeOK', RowsAreSound', \A j \in Jobs : PageIsSound(j)'
  PROVE  ListInvariant'
<1>1. ListTypeOK'
  BY DEF ScreenTypeOK, PageIsSound, ListTypeOK
<1>2. PagesAreSound'
  BY DEF PagesAreSound, PageIsSound
<1>3. MoreIsSound'
  BY DEF MoreIsSound, PageIsSound, MoreIsAbove, Asks
<1> QED
  BY <1>1, <1>2, <1>3 DEF ListInvariant

\* A request that is as it was, or goes on but is not answered.
GoesOn(j) ==
  Asks(j)' => /\ Asks(j) /\ call'[j].kind = call[j].kind
              /\ call'[j].step \in Asking \cup {"served"} => call[j].step \in Asking \cup {"served"}
              /\ call'[j].step = "served" => call[j].step = "served"

LEMMA PageStays ==
  ASSUME NEW j \in Jobs, PageIsSound(j), GoesOn(j),
         page'[j] = page[j] \/ page'[j] = [page[j] EXCEPT !.stale = TRUE],
         ~page'[j].stale => \A v \in Views : page[j].all \subseteq Listed(v) => page[j].all \subseteq Listed(v)',
         Is(j, "more") /\ ~page'[j].stale =>
           /\ Len(rows) <= Len(rows') /\ Len(rows) \in Nat /\ Len(rows') \in Nat
           /\ page[j].view = view' /\ ~mixed' =>
                /\ ~mixed /\ view' = view /\ promise' = promise
                /\ ToSet(rows) \subseteq ToSet(rows')
  PROVE  PageIsSound(j)'
<1> SUFFICES ASSUME Asks(j)' PROVE PageIsSound(j)'
  BY DEF PageIsSound
<1>1. Asks(j) /\ call'[j].kind = call[j].kind
  BY DEF GoesOn
<1>2. page[j] \in Pages
  BY <1>1 DEF PageIsSound
<1>3. /\ page'[j] \in Pages /\ page'[j].offset = page[j].offset /\ page'[j].view = page[j].view
      /\ page'[j].answer = page[j].answer /\ page'[j].all = page[j].all
      /\ ~page'[j].stale => ~page[j].stale
  BY <1>2 DEF Pages
<1>4. Is(j, "refresh")' => page'[j].offset = 0
  BY <1>1, <1>3 DEF PageIsSound, Is, Asks
<1>5. call'[j].step \in Asking \cup {"served"} => page'[j].view \in Views
  BY <1>1, <1>3 DEF PageIsSound, GoesOn
<1>6. call'[j].step = "served" =>
        /\ page'[j].answer = Page(page'[j].all, page'[j].offset)
        /\ ~page'[j].stale => page'[j].all \subseteq Listed(page[j].view)'
  <2> SUFFICES ASSUME call'[j].step = "served"
               PROVE  /\ page'[j].answer = Page(page'[j].all, page'[j].offset)
                      /\ ~page'[j].stale => page'[j].all \subseteq Listed(page[j].view)'
    OBVIOUS
  <2>1. PICK v : v = page[j].view
    OBVIOUS
  <2>2. /\ v \in Views /\ page[j].answer = Page(page[j].all, page[j].offset)
        /\ ~page[j].stale => page[j].all \subseteq Listed(v)
    BY <1>1, <2>1 DEF PageIsSound, GoesOn
  <2>3. Listed(page[j].view)' = Listed(v)'
    BY <1>3, <2>1 DEF Listed
  <2> QED
    BY <1>3, <2>2, <2>3
<1>7. Is(j, "more")' /\ ~page'[j].stale => MoreIsAbove(j)'
  <2> SUFFICES ASSUME Is(j, "more")', ~page'[j].stale PROVE MoreIsAbove(j)'
    OBVIOUS
  <2>1. Is(j, "more") /\ MoreIsAbove(j)
    BY <1>1, <1>3 DEF Is, PageIsSound, Asks
  <2>2. page'[j].offset <= Len(rows')
    BY <1>2, <1>3, <2>1 DEF MoreIsAbove, Pages
  <2>3. ASSUME call'[j].step = "served", page'[j].view = view', ~mixed'
        PROVE  /\ promise' \subseteq page'[j].all
               /\ \A x \in promise' \ ToSet(rows') : Before(x, page'[j].all) >= page'[j].offset
    <3>1. call[j].step = "served" /\ page[j].view = view /\ ~mixed /\ promise' = promise /\ ToSet(rows) \subseteq ToSet(rows')
      BY <1>3, <2>1, <2>3 DEF GoesOn
    <3> QED
      BY <1>3, <2>1, <3>1 DEF MoreIsAbove
  <2> QED
    BY <2>2, <2>3 DEF MoreIsAbove
<1> QED
  BY <1>3, <1>4, <1>5, <1>6, <1>7 DEF PageIsSound, Listed

\* The rows stay, and the list has not lost any.
LEMMA RowsStay ==
  ASSUME RowsAreSound, UNCHANGED <<rows, hasMore, promise, view>>,
         ~mixed' => /\ ~mixed
                    /\ promise \cup ToSet(rows) \subseteq Listed(view) => promise \cup ToSet(rows) \subseteq Listed(view)'
  PROVE  RowsAreSound'
<1>1. Listed(view') = Listed(view)
  OBVIOUS
<1>2. ASSUME ~mixed', view' \in Views PROVE promise' \cup ToSet(rows') \subseteq Listed(view)'
  BY <1>2 DEF RowsAreSound
<1> QED
  BY <1>2 DEF RowsAreSound

\* A step that neither asks nor answers for the screen.
LEMMA ScreenStays ==
  ASSUME ListInvariant, UNCHANGED listVars, \A j \in Jobs : GoesOn(j)
  PROVE  ListInvariant'
<1>1. ScreenTypeOK'
  BY ListParts DEF listVars, screenVars, ScreenTypeOK
<1>2. \A v : Listed(v)' = Listed(v)
  BY DEF listVars, Listed
<1>3. RowsAreSound'
  BY <1>2, ListParts, RowsStay DEF listVars, screenVars
<1>4. ASSUME NEW j \in Jobs PROVE PageIsSound(j)'
  <2>1. rows \in Seq(Numbers) /\ Len(rows) \in Nat
    BY ListParts DEF ScreenTypeOK
  <2> QED
    BY <1>2, <2>1, ListParts, PageStays DEF listVars, screenVars
<1> QED
  BY <1>1, <1>3, <1>4, ListPartsAfter

\* A request that begins: a refresh, or a page behind the rows.
LEMMA AskKeeps ==
  ASSUME ListInvariant, NEW j \in Jobs, NEW n \in Nat, \A i \in Jobs \ {j} : GoesOn(i),
         (call'[j].kind = "refresh" /\ n = 0) \/ (call'[j].kind = "more" /\ n <= Len(rows)),
         call'[j].step = "start",
         page' = [page EXCEPT ![j] = Asked(n)],
         UNCHANGED <<held, made, rows, hasMore, view, promise, mixed>>, filter' \in BOOLEAN
  PROVE  ListInvariant'
<1>1. ScreenTypeOK'
  BY ListParts DEF ScreenTypeOK
<1>2. \A v : Listed(v)' = Listed(v)
  BY DEF Listed
<1>3. RowsAreSound'
  BY <1>2, ListParts, RowsStay
<1>4. ASSUME NEW i \in Jobs, i # j PROVE PageIsSound(i)'
  <2>1. rows \in Seq(Numbers) /\ Len(rows) \in Nat /\ page'[i] = page[i] /\ GoesOn(i)
    BY <1>4, ListParts DEF ScreenTypeOK
  <2>2. PageIsSound(i)
    BY ListParts
  <2>3. \A v \in Views : page[i].all \subseteq Listed(v) => page[i].all \subseteq Listed(v)'
    BY <1>2
  <2>4. Is(i, "more") /\ ~page'[i].stale =>
         /\ Len(rows) <= Len(rows') /\ Len(rows) \in Nat /\ Len(rows') \in Nat
         /\ page[i].view = view' /\ ~mixed' =>
              /\ ~mixed /\ view' = view /\ promise' = promise
              /\ ToSet(rows) \subseteq ToSet(rows')
    BY <2>1
  <2> QED
    BY <2>1, <2>2, <2>3, <2>4, PageStays
<1>5. PageIsSound(j)'
  <2>1. page'[j] = Asked(n)
    BY ListParts DEF ScreenTypeOK
  <2>2. /\ page'[j] \in Pages /\ page'[j].offset = n
    <3>1. Asked(n) \in Pages /\ Asked(n).offset = n
      BY DEF Asked, Pages
    <3> QED
      BY <2>1, <3>1
  <2>3. Is(j, "more")' => MoreIsAbove(j)'
    BY <2>2 DEF MoreIsAbove, Is
  <2> QED
    BY <2>2, <2>3 DEF PageIsSound, Is, Asking
<1> QED
  BY <1>1, <1>3, <1>4, <1>5, ListPartsAfter

\* A request that is answered now: with a page of the list as it is.
LEMMA ReachKeeps ==
  ASSUME AccountsTypeOK, ListInvariant, NEW j \in Jobs, Reach(j)
  PROVE  ListInvariant'
<1>1. ScreenTypeOK'
  BY ListParts DEF Reach, screenVars, ScreenTypeOK
<1>2. \A v : Listed(v)' = Listed(v)
  BY DEF Reach, Listed
<1>3. RowsAreSound'
  BY <1>2, ListParts, RowsStay DEF Reach, screenVars
<1>4. /\ \A i \in Jobs \ {j} : call'[i] = call[i]
      /\ call[j] # NoOne /\ call'[j].kind = call[j].kind
      /\ call[j].step = "start" => call'[j].client = api
      /\ call[j].step \in {"start", "again"}
  <2>1. call \in [Jobs -> Requests \cup {NoOne}]
    BY DEF AccountsTypeOK
  <2>2. call[j] # NoOne /\ call[j] \in Requests
    BY <2>1 DEF Reach, Ask, Again, At
  <2>3. CASE Ask(j)
    <3>1. PICK x, n : call' = [call EXCEPT ![j].client = api, ![j].secret = x, ![j].step = n]
      BY <2>3 DEF Ask
    <3>2. call' = [call EXCEPT ![j] = [call[j] EXCEPT !.client = api, !.secret = x, !.step = n]]
      BY <2>1, <3>1
    <3> QED
      BY <2>1, <2>2, <2>3, <3>2 DEF Ask, At, Requests
  <2>4. CASE Again(j)
    <3>1. PICK n : call' = [call EXCEPT ![j].step = n]
      BY <2>4 DEF Again
    <3> QED
      BY <2>1, <2>2, <2>4, <3>1 DEF Again, At, Requests
  <2> QED
    BY <2>3, <2>4 DEF Reach
<1>5. ASSUME NEW i \in Jobs, i # j PROVE PageIsSound(i)'
  <2>1. rows \in Seq(Numbers) /\ Len(rows) \in Nat /\ page'[i] = page[i]
    BY <1>5, ListParts DEF ScreenTypeOK, Reach
  <2>2. GoesOn(i)
    BY <1>4, <1>5 DEF GoesOn, Asks, Is
  <2>3. PageIsSound(i) /\ UNCHANGED <<rows, view, promise, mixed>>
    BY ListParts DEF Reach, screenVars
  <2>4. \A v \in Views : page[i].all \subseteq Listed(v) => page[i].all \subseteq Listed(v)'
    BY <1>2
  <2>5. Is(i, "more") /\ ~page'[i].stale =>
         /\ Len(rows) <= Len(rows') /\ Len(rows) \in Nat /\ Len(rows') \in Nat
         /\ page[i].view = view' /\ ~mixed' =>
              /\ ~mixed /\ view' = view /\ promise' = promise
              /\ ToSet(rows) \subseteq ToSet(rows')
    BY <2>1, <2>3
  <2> QED
    BY <2>1, <2>2, <2>3, <2>4, <2>5, PageStays
<1>6. PageIsSound(j)'
  <2> SUFFICES ASSUME Asks(j)' PROVE PageIsSound(j)'
    BY DEF PageIsSound
  <2>1. Asks(j) /\ call[j].kind # "teams" /\ page[j] \in Pages /\ PageIsSound(j)
    BY <1>4, ListParts DEF Asks, Is, PageIsSound
  <2>2. PICK v, ok : /\ v = IF At(j, "start") THEN [team |-> clients[call'[j].client].team, filter |-> filter]
                            ELSE page[j].view
                     /\ ok = (call'[j].step = "served")
                     /\ page' = [page EXCEPT ![j].view = v,
                               ![j].answer = IF ok THEN Page(Listed(v), page[j].offset) ELSE {},
                               ![j].all = IF ok THEN Listed(v) ELSE {}]
    BY <2>1 DEF Reach
  <2>3. v \in Views
    <3>1. CASE At(j, "start")
      <4>1. clients[api] \in Bindings
        BY DEF AccountsTypeOK
      <4>2. filter \in BOOLEAN
        BY ListParts DEF ScreenTypeOK
      <4> QED
        BY <1>4, <2>2, <3>1, <4>1, <4>2 DEF At, Bindings, Views
    <3>2. CASE ~At(j, "start")
      BY <1>4, <2>1, <2>2, <3>2 DEF At, PageIsSound, Asking
    <3> QED
      BY <3>1, <3>2
  <2>4. Listed(v) \in SUBSET Numbers
    BY <2>3, ListParts DEF ScreenTypeOK, Listed, Views
  <2>5. Page(Listed(v), page[j].offset) \in SUBSET Numbers
    BY <2>4 DEF Page
  <2>6. /\ page'[j].offset = page[j].offset /\ page'[j].stale = page[j].stale /\ page'[j].view = v
        /\ ok => page'[j].answer = Page(Listed(v), page[j].offset) /\ page'[j].all = Listed(v)
        /\ page'[j] \in Pages
    <3>1. page'[j] = [page[j] EXCEPT !.view = v,
                               !.answer = IF ok THEN Page(Listed(v), page[j].offset) ELSE {},
                               !.all = IF ok THEN Listed(v) ELSE {}]
      BY <2>2, ListParts DEF ScreenTypeOK
    <3> QED
      BY <2>1, <2>3, <2>4, <2>5, <3>1 DEF Pages
  <2>7. Is(j, "more")' /\ ~page'[j].stale => MoreIsAbove(j)'
    <3> SUFFICES ASSUME Is(j, "more")', ~page'[j].stale PROVE MoreIsAbove(j)'
      OBVIOUS
    <3>1. MoreIsAbove(j) /\ UNCHANGED <<rows, view, promise, mixed>>
      BY <1>4, <2>1, <2>6 DEF PageIsSound, Is, Reach, screenVars
    <3>2. page'[j].offset <= Len(rows')
      BY <2>6, <3>1 DEF MoreIsAbove
    <3>3. ASSUME call'[j].step = "served", v = view, ~mixed
          PROVE  promise \subseteq Listed(v) /\ \A x \in promise \ ToSet(rows) : Before(x, Listed(v)) >= page[j].offset
      <4>1. /\ promise \cup ToSet(rows) \subseteq Listed(v) /\ Cardinality(ToSet(rows)) = Len(rows)
            /\ \A x \in promise \ ToSet(rows), r \in ToSet(rows) : r > x
        BY <2>3, <3>3, ListParts DEF RowsAreSound
      <4>2. ASSUME NEW x \in promise \ ToSet(rows) PROVE Before(x, Listed(v)) >= page[j].offset
        <5>1. ToSet(rows) \in SUBSET {y \in Listed(v) : y > x}
          BY <4>1
        <5>2. {y \in Listed(v) : y > x} \in SUBSET Numbers
          BY <2>4
        <5>3. Len(rows) <= Before(x, Listed(v))
          BY <4>1, <5>1, <5>2, FiniteNumbers, FS_Subset DEF Before
        <5>4. page[j].offset <= Len(rows) /\ page[j].offset \in Nat
          BY <2>1, <3>1 DEF MoreIsAbove, Pages
        <5>5. Before(x, Listed(v)) \in Nat /\ Len(rows) \in Nat
          BY <2>4, BeforeNumber, ListParts DEF ScreenTypeOK
        <5> QED
          BY <5>3, <5>4, <5>5
      <4> QED
        BY <4>1, <4>2
    <3> QED
      BY <2>2, <2>6, <3>1, <3>2, <3>3 DEF MoreIsAbove
  <2>8. Is(j, "refresh")' => page'[j].offset = 0
    BY <1>4, <2>1, <2>6 DEF PageIsSound, Is
  <2>9. call'[j].step = "served" =>
          /\ page'[j].answer = Page(page'[j].all, page'[j].offset)
          /\ page'[j].all \subseteq Listed(page[j].view)'
    <3>1. Listed(page[j].view)' = Listed(v)'
      BY <2>6 DEF Listed
    <3>2. Listed(v)' = Listed(v)
      BY <1>2
    <3> QED
      BY <2>2, <2>6, <3>1, <3>2
  <2> QED
    BY <2>3, <2>6, <2>7, <2>8, <2>9 DEF PageIsSound
<1> QED
  BY <1>1, <1>3, <1>5, <1>6, ListPartsAfter

\* An answer that is appended: what is missing is behind the page, and a page that
\* ends above it is full.
LEMMA MoreKeeps ==
  ASSUME AccountsTypeOK, ListInvariant, NEW j \in Jobs, Is(j, "more"), OnSessionsRefreshed(j)
  PROVE  ListInvariant'
<1>1. PICK p, new : p = page[j] /\ new = p.answer \ ToSet(rows)
  OBVIOUS
<1>2. /\ rows' = rows \o NewestFirst(new) /\ hasMore' = (Cardinality(p.answer) = PageSize)
      /\ mixed' = (mixed \/ p.stale \/ p.view # view)
      /\ page' = [page EXCEPT ![j] = NoOne] /\ call' = [call EXCEPT ![j] = NoOne]
      /\ UNCHANGED <<view, promise, held, filter, made>>
  BY <1>1 DEF OnSessionsRefreshed, MoreAfter
<1>3. /\ p \in Pages /\ p.view \in Views /\ p.answer = Page(p.all, p.offset)
      /\ ~p.stale => MoreIsAbove(j)
      /\ ~p.stale => p.all \subseteq Listed(p.view)
      /\ call[j].step = "served" /\ Asks(j)
  BY <1>1, ListParts DEF PageIsSound, OnSessionsRefreshed, At, Asks
<1>4. /\ p \in Pages /\ p.offset \in Nat /\ p.answer \in SUBSET Numbers /\ p.all \in SUBSET Numbers
      /\ new \in SUBSET Numbers /\ rows \in Seq(Numbers) /\ Len(rows) \in Nat
  BY <1>1, <1>3, ListParts DEF PageIsSound, ScreenTypeOK, Pages
<1>5. /\ rows' \in Seq(Numbers) /\ ToSet(rows') = ToSet(rows) \cup p.answer
      /\ Len(rows') = Len(rows) + Cardinality(new) /\ Cardinality(new) \in Nat /\ Len(rows') \in Nat
  <2>1. /\ NewestFirst(new) \in Seq(Numbers) /\ Len(NewestFirst(new)) = Cardinality(new) /\ ToSet(NewestFirst(new)) = new
    BY <1>4, ListIsSorted
  <2>2. ToSet(rows') = ToSet(rows) \cup new
    BY <1>2, <1>4, <2>1, RowsOfAppended
  <2>3. ToSet(rows) \cup new = ToSet(rows) \cup p.answer
    BY <1>1
  <2>4. rows' \in Seq(Numbers) /\ Len(rows') = Len(rows) + Len(NewestFirst(new))
    <3>1. PICK s \in Seq(Numbers) : s = NewestFirst(new)
      BY <2>1
    <3>2. rows \o s \in Seq(Numbers) /\ Len(rows \o s) = Len(rows) + Len(s)
      BY <1>4
    <3> QED
      BY <1>2, <3>1, <3>2
  <2>5. Cardinality(new) \in Nat
    BY <1>4, FiniteNumbers
  <2> QED
    BY <1>4, <2>1, <2>2, <2>3, <2>4, <2>5
<1>6. Cardinality(ToSet(rows')) = Len(rows')
  <2>0. ToSet(rows) \in SUBSET Numbers
    BY <1>4 DEF ToSet
  <2>1. ToSet(rows) \cap new = {} /\ ToSet(rows') = ToSet(rows) \cup new
    BY <1>1, <1>5
  <2>2. IsFiniteSet(ToSet(rows)) /\ IsFiniteSet(new)
    BY <1>4, <2>0, FiniteNumbers
  <2>3. Cardinality(ToSet(rows')) = Cardinality(ToSet(rows)) + Cardinality(new) - Cardinality({})
    BY <2>1, <2>2, FS_Union
  <2>4. Cardinality(ToSet(rows)) = Len(rows)
    BY ListParts DEF RowsAreSound
  <2> QED
    BY <1>4, <1>5, <2>3, <2>4, FS_EmptySet
<1>7. ScreenTypeOK'
  BY <1>2, <1>5, ListParts DEF ScreenTypeOK
<1>8. \A v : Listed(v)' = Listed(v)
  BY <1>2 DEF Listed
<1>9. RowsAreSound'
  <2>1. ASSUME ~mixed'
        PROVE  /\ view \in Views /\ promise \cup ToSet(rows') \subseteq Listed(view)
               /\ \A x \in promise \ ToSet(rows'), r \in ToSet(rows') : r > x
               /\ ~hasMore' => promise \subseteq ToSet(rows')
    <3>1. ~mixed /\ ~p.stale /\ p.view = view
      BY <1>2, <2>1
    <3>2. /\ promise \subseteq p.all /\ p.all \subseteq Listed(view)
          /\ \A x \in promise \ ToSet(rows) : Before(x, p.all) >= p.offset
      BY <1>1, <1>3, <3>1 DEF MoreIsAbove
    <3>3. /\ view \in Views /\ promise \cup ToSet(rows) \subseteq Listed(view)
          /\ \A x \in promise \ ToSet(rows), r \in ToSet(rows) : r > x
      BY <1>3, <3>1, ListParts DEF RowsAreSound
    <3>4. p.answer \subseteq p.all
      BY <1>3 DEF Page
    <3>5. ASSUME NEW x \in promise \ ToSet(rows') PROVE x \in p.all /\ Before(x, p.all) >= p.offset + PageSize
      <4>1. x \in p.all /\ Before(x, p.all) >= p.offset /\ x \notin p.answer
        BY <1>5, <3>2, <3>5
      <4>2. Before(x, p.all) \notin p.offset..(p.offset + PageSize - 1)
        BY <4>1, <1>3 DEF Page
      <4>3. Before(x, p.all) \in Nat /\ PageSize \in Nat
        BY <1>4, BeforeNumber, SessionListAssumption
      <4> QED
        BY <4>1, <4>2, <4>3, <1>4
    <3>6. ASSUME NEW x \in promise \ ToSet(rows'), NEW r \in ToSet(rows') PROVE r > x
      <4>1. CASE r \in ToSet(rows)
        BY <4>1, <1>5, <3>3, <3>6
      <4>2. CASE r \in p.answer
        <5>1. r \in p.all /\ Before(r, p.all) \in p.offset..(p.offset + PageSize - 1)
          BY <4>2, <1>3 DEF Page
        <5>2. Before(r, p.all) < Before(x, p.all)
          BY <5>1, <3>5, <1>4, BeforeNumber, SessionListAssumption
        <5>3. r \in Int /\ x \in Int
          BY <5>1, <3>5, <1>4 DEF Numbers
        <5>4. ~(x > r) /\ x # r
          BY <5>1, <5>2, <3>5, <1>4, OlderIsBehind, BeforeNumber
        <5> QED
          BY <5>3, <5>4
      <4> QED
        BY <4>1, <4>2, <1>5
    <3>7. ASSUME ~hasMore' PROVE promise \subseteq ToSet(rows')
      <4> SUFFICES ASSUME NEW x \in promise \ ToSet(rows') PROVE FALSE
        OBVIOUS
      <4>1. Cardinality(p.answer) = PageSize
        BY <1>3, <1>4, <3>5, PageIsFull
      <4> QED
        BY <4>1, <3>7, <1>2
    <3> QED
      BY <1>5, <3>2, <3>3, <3>4, <3>6, <3>7
  <2>2. Listed(view)' = Listed(view)
    BY <1>2 DEF Listed
  <2> QED
    BY <1>2, <1>6, <2>1, <2>2 DEF RowsAreSound
<1>10. ASSUME NEW i \in Jobs, i # j PROVE PageIsSound(i)'
  <2>1. page'[i] = page[i] /\ call'[i] = call[i] /\ PageIsSound(i)
    BY <1>2, <1>10, ListParts DEF ScreenTypeOK, AccountsTypeOK
  <2>2. GoesOn(i)
    BY <2>1 DEF GoesOn, Asks, Is
  <2>3. \A v \in Views : page[i].all \subseteq Listed(v) => page[i].all \subseteq Listed(v)'
    BY <1>8
  <2>4. Is(i, "more") /\ ~page'[i].stale =>
         /\ Len(rows) <= Len(rows') /\ Len(rows) \in Nat /\ Len(rows') \in Nat
         /\ page[i].view = view' /\ ~mixed' =>
              /\ ~mixed /\ view' = view /\ promise' = promise
              /\ ToSet(rows) \subseteq ToSet(rows')
    <3>1. ~mixed' => ~mixed
      BY <1>2
    <3>2. Len(rows) <= Len(rows') /\ ToSet(rows) \subseteq ToSet(rows')
      BY <1>4, <1>5
    <3> QED
      BY <1>2, <1>4, <1>5, <3>1, <3>2
  <2> QED
    BY <2>1, <2>2, <2>3, <2>4, PageStays
<1>11. PageIsSound(j)'
  <2>1. call'[j] = NoOne
    BY <1>2 DEF AccountsTypeOK
  <2> QED
    BY <2>1 DEF PageIsSound, Asks, Is
<1> QED
  BY <1>6, <1>7, <1>9, <1>10, <1>11, ListPartsAfter

\* A list that is shown anew: it promises what it is a page of.
LEMMA RefreshedKeeps ==
  ASSUME AccountsTypeOK, ListInvariant, NEW j \in Jobs, Is(j, "refresh"), OnSessionsRefreshed(j)
  PROVE  ListInvariant'
<1>1. PICK p : p = page[j]
  OBVIOUS
<1>2. ~Is(j, "more")
  BY DEF Is
<1>3. /\ rows' = NewestFirst(p.answer) /\ hasMore' = (Cardinality(p.answer) = PageSize)
      /\ view' = p.view /\ promise' = p.all /\ mixed' = p.stale
      /\ page' = [i \in Jobs |-> IF i = j THEN NoOne
                                 ELSE IF Is(i, "more") THEN [page[i] EXCEPT !.stale = TRUE] ELSE page[i]]
      /\ call' = [call EXCEPT ![j] = NoOne]
      /\ UNCHANGED <<held, filter, made>>
  BY <1>1, <1>2 DEF OnSessionsRefreshed, MoreAfter
<1>4. /\ p \in Pages /\ p.view \in Views /\ p.answer = Page(p.all, p.offset) /\ p.offset = 0
      /\ ~p.stale => p.all \subseteq Listed(p.view)
  BY <1>1, ListParts DEF PageIsSound, OnSessionsRefreshed, At, Asks
<1>5. p.answer \in SUBSET Numbers /\ p.all \in SUBSET Numbers /\ p.stale \in BOOLEAN
  BY <1>4 DEF Pages
<1>6. /\ rows' \in Seq(Numbers) /\ ToSet(rows') = p.answer /\ Len(rows') = Cardinality(p.answer)
  BY <1>3, <1>5, ListIsSorted
<1>7. ScreenTypeOK'
  BY <1>3, <1>4, <1>5, <1>6, ListParts DEF ScreenTypeOK
<1>8. \A v : Listed(v)' = Listed(v)
  BY <1>3 DEF Listed
<1>9. RowsAreSound'
  <2>1. p.answer \subseteq p.all
    BY <1>4 DEF Page
  <2>2. ASSUME NEW x \in p.all \ p.answer PROVE Before(x, p.all) >= 0 + PageSize /\ Before(x, p.all) \in Nat
    <3>1. Before(x, p.all) \in Nat /\ PageSize \in Nat
      BY <1>5, BeforeNumber, SessionListAssumption
    <3>2. Before(x, p.all) \notin p.offset..(p.offset + PageSize - 1)
      BY <2>2, <1>4 DEF Page
    <3> QED
      BY <3>1, <3>2, <1>4
  <2>3. ASSUME NEW x \in p.all \ p.answer, NEW r \in p.answer PROVE r > x
    <3>1. r \in p.all /\ Before(r, p.all) \in p.offset..(p.offset + PageSize - 1)
      BY <2>3, <1>4 DEF Page
    <3>2. Before(r, p.all) < Before(x, p.all)
      BY <3>1, <2>2, <1>4, <1>5, SessionListAssumption
    <3>3. r \in Int /\ x \in Int
      BY <3>1, <1>5 DEF Numbers
    <3>4. ~(x > r) /\ x # r
      BY <3>1, <3>2, <1>5, OlderIsBehind, BeforeNumber
    <3> QED
      BY <3>3, <3>4
  <2>4. ASSUME ~hasMore' PROVE p.all \subseteq p.answer
    <3> SUFFICES ASSUME NEW x \in p.all \ p.answer PROVE FALSE
      OBVIOUS
    <3>1. Cardinality(Page(p.all, 0)) = PageSize
      BY <1>5, <2>2, PageIsFull
    <3> QED
      BY <3>1, <2>4, <1>3, <1>4
  <2>5. ~p.stale => p.all \subseteq Listed(view)'
    <3>1. Listed(view)' = Listed(p.view)
      BY <1>3 DEF Listed
    <3> QED
      BY <3>1, <1>4
  <2> QED
    BY <1>3, <1>4, <1>6, <2>1, <2>3, <2>4, <2>5 DEF RowsAreSound
<1>10. ASSUME NEW i \in Jobs, i # j PROVE PageIsSound(i)'
  <2>1. /\ call'[i] = call[i] /\ PageIsSound(i)
        /\ page'[i] = IF Is(i, "more") THEN [page[i] EXCEPT !.stale = TRUE] ELSE page[i]
    BY <1>3, <1>10, ListParts DEF AccountsTypeOK
  <2>2. GoesOn(i)
    BY <2>1 DEF GoesOn, Asks, Is
  <2>3. \A v \in Views : page[i].all \subseteq Listed(v) => page[i].all \subseteq Listed(v)'
    BY <1>8
  <2>4. Is(i, "more") => page'[i].stale
    <3>1. Is(i, "more") => page[i] \in Pages
      BY <2>1 DEF PageIsSound, Asks
    <3> QED
      BY <2>1, <3>1 DEF Pages
  <2> QED
    BY <2>1, <2>2, <2>3, <2>4, PageStays
<1>11. PageIsSound(j)'
  <2>1. call'[j] = NoOne
    BY <1>3 DEF AccountsTypeOK
  <2> QED
    BY <2>1 DEF PageIsSound, Asks, Is
<1> QED
  BY <1>7, <1>9, <1>10, <1>11, ListPartsAfter

LEMMA FailedKeeps ==
  ASSUME AccountsTypeOK, ListInvariant, NEW j \in Jobs, OnRefreshFailed(j)
  PROVE  ListInvariant'
<1>1. /\ call' = [call EXCEPT ![j] = NoOne] /\ page' = [page EXCEPT ![j] = NoOne]
      /\ UNCHANGED <<held, filter, rows, hasMore, view, promise, mixed, made>>
  BY DEF OnRefreshFailed
<1>2. ScreenTypeOK'
  BY <1>1, ListParts DEF ScreenTypeOK
<1>3. \A v : Listed(v)' = Listed(v)
  BY <1>1 DEF Listed
<1>4. RowsAreSound'
  BY <1>1, <1>3, ListParts, RowsStay
<1>5. ASSUME NEW i \in Jobs PROVE PageIsSound(i)'
  <2>1. CASE i = j
    <3>1. call'[i] = NoOne
      BY <1>1, <2>1 DEF AccountsTypeOK
    <3> QED
      BY <3>1 DEF PageIsSound, Asks, Is
  <2>2. CASE i # j
    <3>1. page'[i] = page[i] /\ call'[i] = call[i] /\ PageIsSound(i) /\ Len(rows) \in Nat
      BY <1>1, <2>2, ListParts DEF ScreenTypeOK, AccountsTypeOK
    <3>2. GoesOn(i)
      BY <3>1 DEF GoesOn, Asks, Is
    <3>3. \A v \in Views : page[i].all \subseteq Listed(v) => page[i].all \subseteq Listed(v)'
      BY <1>3
    <3>4. Is(i, "more") /\ ~page'[i].stale =>
           /\ Len(rows) <= Len(rows') /\ Len(rows) \in Nat /\ Len(rows') \in Nat
           /\ page[i].view = view' /\ ~mixed' =>
                /\ ~mixed /\ view' = view /\ promise' = promise
                /\ ToSet(rows) \subseteq ToSet(rows')
      BY <1>1, <3>1
    <3> QED
      BY <3>1, <3>2, <3>3, <3>4, PageStays
  <2> QED
    BY <2>1, <2>2
<1> QED
  BY <1>2, <1>4, <1>5, ListPartsAfter

\* The server's list changes: what it loses is noted.
LEMMA ServerKeeps ==
  ASSUME ListInvariant, NEW lost \in SUBSET Numbers,
         UNCHANGED <<call, filter, rows, hasMore, view, promise>>,
         made' \in Nat, held' \in [Teams -> SUBSET Numbers],
         \A t \in Teams : held[t] \ lost \subseteq held'[t],
         mixed' = (mixed \/ lost \cap (promise \cup ToSet(rows)) # {}),
         page' = [j \in Jobs |-> IF Asks(j) /\ lost \cap page[j].all # {}
                                 THEN [page[j] EXCEPT !.stale = TRUE] ELSE page[j]]
  PROVE  ListInvariant'
<1>1. ScreenTypeOK'
  BY ListParts DEF ScreenTypeOK
<1>2. \A v \in Views : Listed(v) \ lost \subseteq Listed(v)'
  BY DEF Listed, Views
<1>3. RowsAreSound'
  <2>1. ASSUME ~mixed', view \in Views PROVE promise \cup ToSet(rows) \subseteq Listed(view)'
    <3>1. promise \cup ToSet(rows) \subseteq Listed(view) /\ lost \cap (promise \cup ToSet(rows)) = {}
      BY <2>1, ListParts DEF RowsAreSound
    <3>2. Listed(view) \ lost \subseteq Listed(view)'
      <4>1. PICK v : v = view
        OBVIOUS
      <4>2. Listed(v) \ lost \subseteq Listed(v)'
        BY <4>1, <2>1, <1>2
      <4>3. Listed(v)' = Listed(view)' /\ Listed(v) = Listed(view)
        BY <4>1 DEF Listed
      <4> QED
        BY <4>2, <4>3
    <3> QED
      BY <3>1, <3>2
  <2> QED
    BY <2>1, ListParts DEF RowsAreSound
<1>4. ASSUME NEW j \in Jobs PROVE PageIsSound(j)'
  <2>1. /\ PageIsSound(j) /\ Len(rows) \in Nat
        /\ page'[j] = IF Asks(j) /\ lost \cap page[j].all # {} THEN [page[j] EXCEPT !.stale = TRUE] ELSE page[j]
    BY ListParts DEF ScreenTypeOK
  <2>2. GoesOn(j)
    BY DEF GoesOn, Asks, Is
  <2>3. CASE ~Asks(j)
    BY <2>3 DEF PageIsSound, Asks, Is
  <2>4. CASE Asks(j)
    <3>1. page[j] \in Pages
      BY <2>1, <2>4 DEF PageIsSound
    <3>2. ~page'[j].stale => lost \cap page[j].all = {}
      BY <2>1, <2>4, <3>1 DEF Pages
    <3>3. ~page'[j].stale => \A v \in Views : page[j].all \subseteq Listed(v) => page[j].all \subseteq Listed(v)'
      BY <3>2, <1>2
    <3>4. page'[j] = page[j] \/ page'[j] = [page[j] EXCEPT !.stale = TRUE]
      BY <2>1
    <3>5. Is(j, "more") /\ ~page'[j].stale =>
           /\ Len(rows) <= Len(rows') /\ Len(rows) \in Nat /\ Len(rows') \in Nat
           /\ page[j].view = view' /\ ~mixed' =>
                /\ ~mixed /\ view' = view /\ promise' = promise
                /\ ToSet(rows) \subseteq ToSet(rows')
      <4>1. ~mixed' => ~mixed
        OBVIOUS
      <4> QED
        BY <2>1, <4>1
    <3> QED
      BY <2>1, <2>2, <3>3, <3>4, <3>5, PageStays
  <2> QED
    BY <2>3, <2>4
<1> QED
  BY <1>1, <1>3, <1>4, ListPartsAfter

(* The screen's steps.                                                     *)

LEMMA RefreshTypes ==
  ASSUME RequestsAreSound, NEW j \in Jobs, Refresh(j), DOMAIN clients \subseteq DOMAIN clients'
  PROVE  /\ RequestsAreSound' /\ call'[j] = Start(j, "refresh")
         /\ \A i \in Jobs \ {j} : GoesOn(i)
<1>1. call' = [i \in Jobs |-> IF i = j THEN Start(j, "refresh")
                              ELSE IF Is(i, "refresh") THEN [call[i] EXCEPT !.cancelled = TRUE] ELSE call[i]]
  BY DEF Refresh
<1>2. Start(j, "refresh") \in Requests /\ Start(j, "refresh").step = "start"
  BY DEF Start, Requests
<1>3. ASSUME NEW i \in Jobs, Is(i, "refresh")
      PROVE  LET r == [call[i] EXCEPT !.cancelled = TRUE] IN
             /\ r \in Requests /\ r.step = call[i].step /\ r.kind = call[i].kind
             /\ r.client = call[i].client /\ r.secret = call[i].secret
  <2>1. call[i] \in Requests
    BY <1>3 DEF Is, RequestsAreSound
  <2> QED
    BY <2>1 DEF Requests
<1>4. ASSUME NEW i \in Jobs
      PROVE  /\ call'[i] \in Requests \cup {NoOne} /\ (call'[i] # NoOne => RequestIsSound(call[i])')
             /\ i # j => GoesOn(i)
  <2>1. CASE i = j
    BY <1>1, <1>2, <2>1 DEF RequestIsSound, Asking
  <2>2. CASE i # j /\ Is(i, "refresh")
    <3>1. PICK r : r = [call[i] EXCEPT !.cancelled = TRUE]
      OBVIOUS
    <3>2. /\ r \in Requests /\ r.step = call[i].step /\ r.kind = call[i].kind
          /\ r.client = call[i].client /\ r.secret = call[i].secret
      BY <1>3, <2>2, <3>1
    <3>3. call'[i] = r /\ call[i] # NoOne
      BY <1>1, <2>2, <3>1 DEF Is
    <3>4. RequestIsSound(call[i])
      BY <3>3 DEF RequestsAreSound
    <3> QED
      BY <2>2, <3>2, <3>3, <3>4 DEF RequestIsSound, GoesOn, Asks
  <2>3. CASE i # j /\ ~Is(i, "refresh")
    <3>1. call'[i] = call[i]
      BY <1>1, <2>3
    <3> QED
      BY <3>1 DEF RequestsAreSound, RequestIsSound, GoesOn, Asks, Is
  <2> QED
    BY <2>1, <2>2, <2>3
<1> QED
  BY <1>1, <1>2, <1>4 DEF RequestsAreSound

LEMMA RefreshKeeps ==
  ASSUME AccountsTypeOK, ListInvariant, NEW j \in Jobs,
         RefreshNow(j) \/ FilterChosen(j) \/ \E a \in Askers : SwitchTeam(a, j)
  PROVE  AccountsTypeOK' /\ ListInvariant'
<1>1. /\ Refresh(j) /\ page' = [page EXCEPT ![j] = Asked(0)]
      /\ UNCHANGED <<held, made, rows, hasMore, view, promise, mixed>>
  BY DEF RefreshNow, FilterChosen, SwitchTeam, Refresh, screenVars
<1>2. filter' \in BOOLEAN
  <2>1. filter \in BOOLEAN
    BY ListParts DEF ScreenTypeOK
  <2> QED
    BY <2>1 DEF RefreshNow, FilterChosen, SwitchTeam, screenVars
<1>3. /\ AppTypeOK' /\ FilesTypeOK' /\ DOMAIN clients \subseteq DOMAIN clients'
      /\ asker' \in [Askers -> Threads \cup {NoOne}]
      /\ issued' \in [Servers -> Nat] /\ expired' \in [Servers -> Nat]
  <2>1. CASE \E a \in Askers : SwitchTeam(a, j)
    BY <2>1, SwitchTypes DEF SwitchTeam
  <2>2. CASE UNCHANGED <<appVars, asker, fileVars, serverVars>>
    BY <2>2, AccountsParts, SameFiles DEF appVars, serverVars, AppTypeOK
  <2> QED
    BY <2>1, <2>2 DEF RefreshNow, FilterChosen
<1>4. /\ RequestsAreSound' /\ call'[j] = Start(j, "refresh")
      /\ \A i \in Jobs \ {j} : GoesOn(i)
  BY <1>1, <1>3, AccountsParts, RefreshTypes
<1>5. call'[j].kind = "refresh" /\ call'[j].step = "start"
  BY <1>4 DEF Start
<1> QED
  BY <1>1, <1>2, <1>3, <1>4, <1>5, AskKeeps, AccountsPartsAfter

LEMMA LoadMoreKeeps ==
  ASSUME AccountsTypeOK, ListInvariant, NEW j \in Jobs, LoadMore(j)
  PROVE  AccountsTypeOK' /\ ListInvariant'
<1>1. /\ call' = [call EXCEPT ![j] = Start(j, "more")]
      /\ page' = [page EXCEPT ![j] = Asked(Len(rows))]
      /\ UNCHANGED <<app, clients, api, members, asker, fileVars, issued, expired>>
      /\ UNCHANGED <<held, made, filter, rows, hasMore, view, promise, mixed>>
  BY DEF LoadMore, appVars, serverVars
<1>2. Start(j, "more") \in Requests /\ Start(j, "more").step = "start" /\ Start(j, "more").kind = "more"
  BY DEF Start, Requests
<1>3. AccountsTypeOK'
  BY <1>1, <1>2, OnlyTheRequest DEF RequestIsSound, Asking, AccountsTypeOK
<1>4. call'[j] = Start(j, "more") /\ \A i \in Jobs \ {j} : call'[i] = call[i]
  BY <1>1 DEF AccountsTypeOK
<1>5. \A i \in Jobs \ {j} : GoesOn(i)
  BY <1>4 DEF GoesOn, Asks, Is
<1>6. Len(rows) \in Nat /\ Len(rows) <= Len(rows) /\ filter' \in BOOLEAN
  BY <1>1, ListParts DEF ScreenTypeOK
<1> QED
  BY <1>1, <1>2, <1>3, <1>4, <1>5, <1>6, AskKeeps

LEMMA AnswersKeepTypes ==
  ASSUME AccountsTypeOK, NEW j \in Jobs, OnSessionsRefreshed(j) \/ OnRefreshFailed(j)
  PROVE  AccountsTypeOK'
  BY OnlyTheRequest DEF OnSessionsRefreshed, OnRefreshFailed, appVars, serverVars, AccountsTypeOK

LEMMA MadeKeeps ==
  ASSUME ListInvariant, NEW t \in Teams, Made(t)
  PROVE  ListInvariant'
<1>1. /\ made < MaxMade /\ made' = made + 1 /\ held' = [held EXCEPT ![t] = @ \cup {made'}]
      /\ UNCHANGED <<call, filter, rows, hasMore, view, promise, mixed, page>>
  BY DEF Made, accountVars, screenVars
<1>2. held \in [Teams -> SUBSET Numbers] /\ made \in Nat /\ DOMAIN page = Jobs /\ mixed \in BOOLEAN
  BY ListParts DEF ScreenTypeOK
<1>3. made' \in Numbers /\ made' \in Nat
  BY <1>1, <1>2, SessionListAssumption DEF Numbers
<1>4. held' \in [Teams -> SUBSET Numbers] /\ \A u \in Teams : held[u] \ {} \subseteq held'[u]
  BY <1>1, <1>2, <1>3
<1>5. ScreenTypeOK'
  BY <1>1, <1>3, <1>4, ListParts DEF ScreenTypeOK
<1>6. \A v \in Views : Listed(v) \subseteq Listed(v)'
  BY <1>4 DEF Listed, Views
<1>7. RowsAreSound'
  <2>1. ASSUME ~mixed, view \in Views PROVE promise \cup ToSet(rows) \subseteq Listed(view)'
    <3>1. PICK v \in Views : v = view
      BY <2>1
    <3>2. promise \cup ToSet(rows) \subseteq Listed(v)
      BY <2>1, <3>1, ListParts DEF RowsAreSound
    <3>3. Listed(v)' = Listed(view)'
      BY <1>1, <3>1 DEF Listed
    <3> QED
      BY <1>6, <3>2, <3>3
  <2> QED
    BY <1>1, <2>1, ListParts DEF RowsAreSound
<1>8. ASSUME NEW i \in Jobs PROVE PageIsSound(i)'
  <2>1. page'[i] = page[i] /\ PageIsSound(i) /\ Len(rows) \in Nat
    BY <1>1, ListParts DEF ScreenTypeOK
  <2>2. GoesOn(i)
    BY <1>1 DEF GoesOn, Asks, Is
  <2>3. \A v \in Views : page[i].all \subseteq Listed(v) => page[i].all \subseteq Listed(v)'
    BY <1>6
  <2>4. Is(i, "more") /\ ~page'[i].stale =>
         /\ Len(rows) <= Len(rows') /\ Len(rows) \in Nat /\ Len(rows') \in Nat
         /\ page[i].view = view' /\ ~mixed' =>
              /\ ~mixed /\ view' = view /\ promise' = promise
              /\ ToSet(rows) \subseteq ToSet(rows')
    BY <1>1, <2>1
  <2> QED
    BY <2>1, <2>2, <2>3, <2>4, PageStays
<1> QED
  BY <1>5, <1>7, <1>8, ListPartsAfter

LEMMA GoneKeeps ==
  ASSUME ListInvariant, NEW x \in 1..MaxMade, DeleteSession(x) \/ MoveSession(x)
  PROVE  ListInvariant'
<1>1. {x} \in SUBSET Numbers
  BY DEF Numbers
<1>2. Gone(x)
  BY DEF DeleteSession, MoveSession
<1>3. UNCHANGED <<call, filter, rows, hasMore, view, promise, made>>
  BY <1>2 DEF Gone, accountVars
<1>4. mixed' = (mixed \/ {x} \cap (promise \cup ToSet(rows)) # {})
  <2>1. mixed' = (mixed \/ x \in promise \cup ToSet(rows))
    BY <1>2 DEF Gone
  <2>2. (x \in promise \cup ToSet(rows)) = ({x} \cap (promise \cup ToSet(rows)) # {})
    OBVIOUS
  <2> QED
    BY <2>1, <2>2
<1>5. page' = [j \in Jobs |-> IF Asks(j) /\ {x} \cap page[j].all # {}
                              THEN [page[j] EXCEPT !.stale = TRUE] ELSE page[j]]
  <2>1. page' = [j \in Jobs |-> IF Asks(j) /\ x \in page[j].all
                              THEN [page[j] EXCEPT !.stale = TRUE] ELSE page[j]]
    BY <1>2 DEF Gone, Asks
  <2>2. \A j \in Jobs : (x \in page[j].all) = ({x} \cap page[j].all # {})
    OBVIOUS
  <2> QED
    BY <2>1, <2>2
<1>6. /\ held' \in [Teams -> SUBSET Numbers]
      /\ \A t \in Teams : held[t] \ {x} \subseteq held'[t]
  <2>1. held \in [Teams -> SUBSET Numbers]
    BY ListParts DEF ScreenTypeOK
  <2>2. CASE DeleteSession(x)
    BY <2>1, <2>2 DEF DeleteSession
  <2>3. CASE MoveSession(x)
    <3>1. PICK t \in Teams, u \in Teams :
            x \in held[t] /\ u # t /\ held' = [held EXCEPT ![t] = @ \ {x}, ![u] = @ \cup {x}]
      BY <2>3 DEF MoveSession
    <3>2. held[t] \ {x} \in SUBSET Numbers /\ held[u] \cup {x} \in SUBSET Numbers
      BY <1>1, <2>1
    <3>3. \A w \in Teams : held'[w] = IF w = u THEN held[u] \cup {x} ELSE IF w = t THEN held[t] \ {x} ELSE held[w]
      BY <2>1, <3>1
    <3>4. held' \in [Teams -> SUBSET Numbers]
      BY <2>1, <3>1, <3>2
    <3> QED
      BY <3>3, <3>4
  <2> QED
    BY <2>2, <2>3
<1>7. made' \in Nat
  BY <1>3, ListParts DEF ScreenTypeOK
<1> QED
  BY <1>1, <1>3, <1>4, <1>5, <1>6, <1>7, ServerKeeps

\* The accounts answer no request for the screen.
LEMMA AccountsGoOn ==
  ASSUME AccountsTypeOK, AccountsNext, NEW i \in Jobs
  PROVE  GoesOn(i)
<1>1. CASE UNCHANGED call
  BY <1>1 DEF GoesOn, Asks, Is
<1>2. ASSUME NEW j \in Jobs, Unanswered(j) \/ Granted(j) \/ NotGranted(j) \/ TeamsRefreshed(j)
                     \/ Resolve(j) \/ Load(j) \/ Keep(j)
      PROVE  GoesOn(i)
  <2>1. call \in [Jobs -> Requests \cup {NoOne}]
    BY DEF AccountsTypeOK
  <2>2. call[j] # NoOne /\ call[j] \in Requests
    BY <1>2, <2>1 DEF Unanswered, Granted, NotGranted, TeamsRefreshed, Resolve, Load, Keep, At, Is
  <2>3. i # j => call'[i] = call[i]
    BY <1>2, <2>1 DEF Unanswered, Granted, NotGranted, TeamsRefreshed, Resolve, Load, Keep
  <2>4. call'[j] # NoOne =>
          /\ call'[j].kind = call[j].kind
          /\ \/ call'[j].step \in {"failed", "start"}
             \/ call[j].step = "refresh" /\ call'[j].step = "granted"
             \/ call[j].step = "granted" /\ call'[j].step = "resolved"
             \/ call[j].step = "resolved" /\ call'[j].step = "loaded"
             \/ call[j].step = "loaded" /\ call'[j].step = "again"
    <3>1. CASE Unanswered(j)
      BY <2>1, <2>2, <3>1 DEF Unanswered, At, Requests
    <3>2. CASE NotGranted(j)
      BY <2>1, <2>2, <3>2 DEF NotGranted, Requests
    <3>3. CASE TeamsRefreshed(j)
      BY <2>1, <3>3 DEF TeamsRefreshed
    <3>4. CASE Granted(j)
      <4>1. PICK k : call' = [call EXCEPT ![j].step = "granted", ![j].secret = k]
        BY <3>4 DEF Granted
      <4>2. call' = [call EXCEPT ![j] = [call[j] EXCEPT !.step = "granted", !.secret = k]]
        BY <2>1, <4>1
      <4> QED
        BY <2>1, <2>2, <3>4, <4>2 DEF Granted, At, Requests
    <3>5. CASE Keep(j)
      <4>1. call' = [call EXCEPT ![j].step = "again", ![j].secret = NoOne]
        BY <3>5 DEF Keep
      <4>2. call' = [call EXCEPT ![j] = [call[j] EXCEPT !.step = "again", !.secret = NoOne]]
        BY <2>1, <4>1
      <4> QED
        BY <2>1, <2>2, <3>5, <4>2 DEF Keep, At, Requests
    <3>6. CASE Resolve(j) \/ Load(j)
      <4>1. PICK n : call' = [call EXCEPT ![j] = [call[j] EXCEPT !.step = n]]
                     /\ \/ n = "resolved" /\ call[j].step = "granted"
                        \/ n = "loaded" /\ call[j].step = "resolved"
        BY <3>6 DEF Resolve, Load, At
      <4> QED
        BY <2>1, <2>2, <4>1 DEF Requests
    <3> QED
      BY <1>2, <3>1, <3>2, <3>3, <3>4, <3>5, <3>6
  <2>5. CASE i = j
    BY <2>2, <2>4, <2>5 DEF GoesOn, Asks, Is, Asking
  <2>6. CASE i # j
    BY <2>3, <2>6 DEF GoesOn, Asks, Is
  <2> QED
    BY <2>5, <2>6
<1>3. ASSUME NEW j \in Jobs, OpenTeams(j) PROVE GoesOn(i)
  <2>1. call' = [call EXCEPT ![j] = Start(j, "teams")] /\ call \in [Jobs -> Requests \cup {NoOne}]
    BY <1>3 DEF OpenTeams, AccountsTypeOK
  <2>2. i = j => call'[i].kind = "teams"
    BY <2>1 DEF Start
  <2>3. i # j => call'[i] = call[i]
    BY <2>1
  <2> QED
    BY <2>2, <2>3 DEF GoesOn, Asks, Is
<1> QED
  BY <1>1, <1>2, <1>3 DEF AccountsNext, AskUrl, AskToken, ApplyIdentity, IdentityLost, SwitchTo, Reauth, SignedIn,
                              AddEntry, LoadForAll, ShareEntry, Expire

LEMMA ListBegins == SessionListInit => AccountsTypeOK /\ ListInvariant
<1> SUFFICES ASSUME SessionListInit PROVE AccountsTypeOK /\ ListInvariant
  OBVIOUS
<1>1. AccountsTypeOK
  BY AccountsBegin DEF SessionListInit
<1>2. UNION {AtFirst[t] : t \in Teams} \in SUBSET Numbers
  BY SessionListAssumption DEF Numbers
<1>3. Cardinality(UNION {AtFirst[t] : t \in Teams}) \in Nat
  BY <1>2, FiniteNumbers
<1>4. ListTypeOK
  <2>1. \A j \in Jobs : ~Asks(j)
    BY DEF SessionListInit, AccountsInit, Asks, Is
  <2>2. held \in [Teams -> SUBSET Numbers] /\ made \in Nat
    BY <1>3, SessionListAssumption DEF SessionListInit, Numbers
  <2>3. /\ filter \in BOOLEAN /\ promise \in SUBSET Numbers
        /\ hasMore \in BOOLEAN /\ mixed \in BOOLEAN
        /\ view \in Views \cup {NoOne} /\ DOMAIN page = Jobs
    BY DEF SessionListInit
  <2>4. rows = <<>>
    BY DEF SessionListInit
  <2>5. rows \in Seq(Numbers)
    BY <2>4
  <2> QED
    BY <2>1, <2>2, <2>3, <2>5 DEF ListTypeOK
<1>5. PagesAreSound /\ MoreIsSound
  BY DEF SessionListInit, AccountsInit, PagesAreSound, MoreIsSound, Asks, Is
<1>6. RowsAreSound
  <2>1. ToSet(rows) = {} /\ Len(rows) = 0 /\ promise = {} /\ rows = <<>>
    BY DEF SessionListInit, ToSet
  <2> QED
    BY <2>1, FS_EmptySet DEF RowsAreSound
<1> QED
  BY <1>1, <1>4, <1>5, <1>6 DEF ListInvariant

LEMMA ListStep ==
  ASSUME AccountsTypeOK, ListInvariant, [LibraryNext]_<<accountVars, listVars, copyVars, scene>>
  PROVE  AccountsTypeOK' /\ ListInvariant'
<1> DEFINE Same == UNCHANGED <<app, clients, api, members, asker, call, fileVars, issued, expired>>
<1>0. Same => AccountsTypeOK' /\ \A j \in Jobs : GoesOn(j)
  <2>1. Same => FilesTypeOK'
    BY SameFiles, AccountsParts
  <2> QED
    BY <2>1 DEF AccountsTypeOK, GoesOn, Asks, Is
<1>1. CASE UNCHANGED <<accountVars, listVars>>
  <2>1. Same
    BY <1>1 DEF accountVars, appVars, serverVars
  <2> QED
    BY <1>0, <1>1, <2>1, ScreenStays
<1>2. CASE AccountsNext /\ UNCHANGED listVars
  BY <1>2, AccountsKeep, AccountsGoOn, ScreenStays
<1>3. CASE \E j \in Jobs : Unanswered(j) /\ UNCHANGED listVars
  BY <1>2, <1>3 DEF AccountsNext
<1>4. CASE \E j \in Jobs : RefreshNow(j) \/ FilterChosen(j) \/ \E a \in Askers : SwitchTeam(a, j)
  BY <1>4, RefreshKeeps
<1>5. CASE \E j \in Jobs : LoadMore(j)
  BY <1>5, LoadMoreKeeps
<1>6. CASE \E j \in Jobs : Reach(j)
  BY <1>6, ReachKeeps, AskTypes DEF Reach
<1>7. CASE \E j \in Jobs : OnSessionsRefreshed(j)
  <2>1. PICK j \in Jobs : OnSessionsRefreshed(j)
    BY <1>7
  <2>2. Is(j, "more") \/ Is(j, "refresh")
    BY <2>1 DEF OnSessionsRefreshed, At, Is
  <2> QED
    BY <2>1, <2>2, MoreKeeps, RefreshedKeeps, AnswersKeepTypes
<1>8. CASE \E j \in Jobs : OnRefreshFailed(j)
  BY <1>8, FailedKeeps, AnswersKeepTypes
<1>9. CASE \/ \E t \in Teams : Made(t)
           \/ \E x \in 1..MaxMade : DeleteSession(x) \/ MoveSession(x)
  <2>1. UNCHANGED accountVars
    BY <1>9 DEF Made, DeleteSession, MoveSession, Gone
  <2>2. Same
    BY <2>1 DEF accountVars, appVars, serverVars
  <2>3. AccountsTypeOK'
    BY <1>0, <2>2
  <2> QED
    BY <1>9, <2>3, MadeKeeps, GoneKeeps
<1>10. CASE \E a \in Askers : SwitchTo(a) /\ UNCHANGED listVars
  BY <1>2, <1>10 DEF AccountsNext
<1> QED
  BY <1>10, <1>1, <1>2, <1>3, <1>4, <1>5, <1>6, <1>7, <1>8, <1>9
     DEF LibraryNext, AccountScene, ListScene, SessionsNext

\* For any number of teams, sessions, page size, requests and failures: "load more"
\* by a number of rows reaches all that the list had when it was refreshed, and
\* shows none of it twice.
THEOREM PagesReachAll == LibrarySpec => []NothingIsSkipped
<1>1. LibraryInit => AccountsTypeOK /\ ListInvariant
  BY ListBegins DEF LibraryInit
<1>2. AccountsTypeOK /\ ListInvariant /\ [LibraryNext]_<<accountVars, listVars, copyVars, scene>> =>
        AccountsTypeOK' /\ ListInvariant'
  BY ListStep
<1>3. ListInvariant => NothingIsSkipped
  BY DEF ListInvariant, RowsAreSound, NothingIsSkipped
<1> QED
  BY <1>1, <1>2, <1>3, PTL DEF LibrarySpec

(***************************************************************************)
(* One pair for each login.                                                *)
(***************************************************************************)

\* Whoever's pair is written, it is written to every entry of that server.
LEMMA FanOutIsEven ==
  ASSUME NEW f, NEW a, FileIsSound(f, a), NEW t, NEW k, EvenBut(f, t)
  PROVE  Even(FanOut(f, t, k))
<1>1. \A u \in DOMAIN f : "url" \in DOMAIN f[u] /\ "pair" \in DOMAIN f[u]
  BY DEF FileIsSound, Entries
<1>2. DOMAIN FanOut(f, t, k) = DOMAIN f
  BY DEF FanOut
<1>3. \A u \in DOMAIN f :
        /\ FanOut(f, t, k)[u].url = f[u].url
        /\ FanOut(f, t, k)[u].pair = IF f[u].url = f[t].url THEN k ELSE f[u].pair
  BY <1>1 DEF FanOut
<1> QED
  BY <1>2, <1>3 DEF Even, EvenBut

\* An entry more is uneven with those of its own login only.
LEMMA WithEntryIsEvenBut ==
  ASSUME NEW f, NEW t, NEW s, NEW k, Even(f)
  PROVE  HalfEven(WithEntry(f, t, s, k), t)
  BY DEF Even, HalfEven, EvenBut, WithEntry

LEMMA EvenIsHalfEven ==
  ASSUME NEW f, NEW t, Even(f)
  PROVE  HalfEven(f, t) /\ EvenBut(f, t)
  BY DEF Even, HalfEven, EvenBut

\* The interface's thread begins, goes on or ends.
LEMMA WritingStaysEven ==
  ASSUME AccountsTypeOK, ~torn, FileIsEven, WritingIsEven, OpenedIsEven, UNCHANGED <<opened, torn>>,
         \/ \E a \in Askers : SwitchTo(a) \/ Switched(a) \/ Reauth(a) \/ SignedIn(a)
         \/ AddEntry \/ LoadForAll \/ ShareEntry
  PROVE  FileIsEven' /\ WritingIsEven' /\ OpenedIsEven'
<1>1. OpenedIsEven'
  BY DEF OpenedIsEven
<1>2. CASE \E a \in Askers : SwitchTo(a) \/ Reauth(a)
  <2>1. PICK n, t, s, k : n \in {"switch", "add"} /\ writing' = Writing(n, t, s, k)
    BY <1>2 DEF SwitchTo, Reauth
  <2>2. UNCHANGED config /\ Even(config)
    BY <1>2 DEF SwitchTo, Reauth, FileIsEven, HalfDone, Writes
  <2>3. writing'.step = n /\ writing'.file = config
    BY <2>1 DEF Writing
  <2>4. writing'.step # "added" /\ writing'.step # "share"
    BY <2>1, <2>3
  <2> QED
    BY <1>1, <2>2, <2>3, <2>4 DEF FileIsEven, WritingIsEven, HalfDone, Writes
<1>3. CASE \E a \in Askers : Switched(a) \/ SignedIn(a)
  <2>1. writing'.step = "idle"
    BY <1>3 DEF Switched, SignedIn, NotWriting
  <2>2. Even(config')
    BY <1>3 DEF Switched, SignedIn, FileIsEven, WritingIsEven, HalfDone, Writes
  <2> QED
    BY <1>1, <2>1, <2>2 DEF FileIsEven, WritingIsEven, HalfDone, Writes
<1>4. CASE AddEntry
  <2>1. writing' = Written("added") /\ Writes("add")
    BY <1>4 DEF AddEntry
  <2>2. HalfEven(config', writing.team)
    BY <1>4, WithEntryIsEvenBut DEF AddEntry, WritingIsEven
  <2>3. writing'.step = "added" /\ writing'.team = writing.team
    BY <2>1 DEF Written
  <2> QED
    BY <1>1, <2>2, <2>3 DEF FileIsEven, WritingIsEven, HalfDone, Writes
<1>5. CASE LoadForAll
  <2>1. writing' = Writing("share", writing.team, writing.server, writing.pair) /\ HalfDone
    BY <1>5 DEF LoadForAll, HalfDone
  <2>2. HalfEven(config, writing.team) /\ UNCHANGED config
    BY <1>5, <2>1 DEF LoadForAll, FileIsEven
  <2>3. writing.team \notin DOMAIN config => Even(config)
    BY <2>2 DEF HalfEven
  <2>4. writing'.step = "share" /\ writing'.team = writing.team /\ writing'.file = config
    BY <2>1 DEF Writing
  <2> QED
    BY <1>1, <2>2, <2>3, <2>4 DEF FileIsEven, WritingIsEven, HalfDone, Writes
<1>6. CASE ShareEntry
  <2>1. writing' = Written("shared") /\ Writes("share")
    BY <1>6 DEF ShareEntry
  <2>2. Even(config')
    <3>1. CASE writing.team \in DOMAIN writing.file
      <4>1. FileIsSound(writing.file, writing.was)
        BY <2>1, <3>1, AccountsParts DEF Writes, FilesTypeOK, CopyIsSound
      <4>2. EvenBut(writing.file, writing.team)
        BY <2>1, <3>1 DEF WritingIsEven, HalfEven
      <4> QED
        BY <1>6, <3>1, <4>1, <4>2, FanOutIsEven DEF ShareEntry
    <3>2. CASE writing.team \notin DOMAIN writing.file
      BY <1>6, <2>1, <3>2 DEF ShareEntry, WritingIsEven
    <3> QED
      BY <3>1, <3>2
  <2>3. writing'.step = "shared"
    BY <2>1 DEF Written
  <2> QED
    BY <1>1, <2>2, <2>3 DEF FileIsEven, WritingIsEven, HalfDone, Writes
<1> QED
  BY <1>2, <1>3, <1>4, <1>5, <1>6

\* A refresh saves what it has loaded, its own login evened out.
LEMMA KeepIsEven ==
  ASSUME AccountsTypeOK, ~torn, FileIsEven, WritingIsEven, OpenedIsEven, NEW j \in Jobs, Keep(j)
  PROVE  FileIsEven' /\ WritingIsEven' /\ OpenedIsEven'
<1>1. opened' = [opened EXCEPT ![j] = Nothing] /\ UNCHANGED writing /\ DOMAIN opened = Jobs
  BY AccountsParts DEF Keep, FilesTypeOK
<1>2. OpenedIsEven'
  BY <1>1 DEF OpenedIsEven, Nothing
<1>3. UNCHANGED config \/ Even(config')
  <2>1. CASE opened[j].to \in DOMAIN opened[j].file
    <3>1. PICK f, t, k : f = opened[j].file /\ t = opened[j].to /\ config' = FanOut(f, t, k)
      BY <2>1 DEF Keep
    <3>2. FileIsSound(f, opened[j].was)
      BY <2>1, <3>1, AccountsParts DEF FilesTypeOK, CopyIsSound
    <3>3. EvenBut(f, t)
      BY <2>1, <3>1 DEF OpenedIsEven
    <3> QED
      BY <3>1, <3>2, <3>3, FanOutIsEven
  <2>2. CASE opened[j].to \notin DOMAIN opened[j].file
    BY <2>2 DEF Keep
  <2> QED
    BY <2>1, <2>2
<1>4. CASE UNCHANGED config
  BY <1>1, <1>2, <1>4 DEF FileIsEven, WritingIsEven, HalfDone, Writes
<1>5. CASE Even(config')
  BY <1>1, <1>2, <1>5, EvenIsHalfEven DEF FileIsEven, WritingIsEven, HalfDone, Writes
<1> QED
  BY <1>3, <1>4, <1>5

\* It loads the file, between the saves of a sign-in to its own login at the most.
LEMMA LoadIsEven ==
  ASSUME AccountsTypeOK, ~torn', FileIsEven, WritingIsEven, OpenedIsEven, NEW j \in Jobs, Resolve(j) \/ Load(j)
  PROVE  FileIsEven' /\ WritingIsEven' /\ OpenedIsEven'
<1>1. UNCHANGED <<config, writing>> /\ DOMAIN opened = Jobs
  BY AccountsParts DEF Resolve, Load, FilesTypeOK
<1>2. FileIsEven' /\ WritingIsEven'
  BY <1>1 DEF FileIsEven, WritingIsEven, HalfDone, Writes
<1>3. CASE Resolve(j)
  BY <1>1, <1>2, <1>3 DEF Resolve, OpenedIsEven
<1>4. CASE Load(j)
  <2>1. PICK t : t = opened[j].to /\ opened' = [opened EXCEPT ![j] = [to |-> t, file |-> config, was |-> active]]
    BY <1>4 DEF Load
  <2>2. ASSUME t \in DOMAIN config PROVE EvenBut(config, t)
    <3>1. CASE Even(config)
      BY <3>1, EvenIsHalfEven
    <3>2. CASE ~Even(config)
      <4>1. HalfDone /\ writing.team \in DOMAIN config /\ EvenBut(config, writing.team)
        BY <3>2 DEF FileIsEven, HalfEven
      <4>2. ~OfAnother(t)
        BY <1>4, <2>1 DEF Load
      <4>3. config[t].url = config[writing.team].url
        BY <2>2, <4>1, <4>2 DEF OfAnother
      <4> QED
        BY <4>1, <4>3 DEF EvenBut
    <3> QED
      BY <3>1, <3>2
  <2> QED
    BY <1>1, <1>2, <2>1, <2>2 DEF OpenedIsEven
<1> QED
  BY <1>3, <1>4

LEMMA EvenStep ==
  ASSUME AccountsTypeOK, CopiesAreEven, [LibraryNext]_<<accountVars, listVars, copyVars, scene>>
  PROVE  CopiesAreEven'
<1>1. CASE UNCHANGED fileVars
  BY <1>1 DEF CopiesAreEven, FileIsEven, WritingIsEven, OpenedIsEven, HalfDone, Writes, fileVars
<1>2. CASE \/ \E a \in Askers : SwitchTo(a) \/ Switched(a) \/ Reauth(a) \/ SignedIn(a)
           \/ AddEntry \/ LoadForAll \/ ShareEntry
  <2>1. UNCHANGED <<opened, torn>>
    BY <1>2 DEF SwitchTo, Switched, Reauth, SignedIn, AddEntry, LoadForAll, ShareEntry
  <2> QED
    BY <1>2, <2>1, WritingStaysEven DEF CopiesAreEven
<1>3. CASE \E j \in Jobs : Keep(j)
  <2>1. UNCHANGED torn
    BY <1>3 DEF Keep
  <2> QED
    BY <1>3, <2>1, KeepIsEven DEF CopiesAreEven
<1>4. CASE \E j \in Jobs : Resolve(j) \/ Load(j)
  <2>1. ~torn' => ~torn
    BY <1>4 DEF Resolve, Load
  <2> QED
    BY <1>4, <2>1, LoadIsEven DEF CopiesAreEven
<1>5. AccountsNext =>
        \/ UNCHANGED fileVars
        \/ \E a \in Askers : SwitchTo(a) \/ Reauth(a) \/ SignedIn(a)
        \/ AddEntry \/ LoadForAll \/ ShareEntry
        \/ \E j \in Jobs : Resolve(j) \/ Load(j) \/ Keep(j)
  BY DEF AccountsNext, AskUrl, AskToken, ApplyIdentity, IdentityLost, Unanswered, Granted, NotGranted,
         OpenTeams, TeamsRefreshed, Expire
<1>6. SessionsNext => UNCHANGED fileVars \/ \E a \in Askers : SwitchTo(a) \/ Switched(a)
  BY DEF SessionsNext, LoadMore, FilterChosen, Reach, Ask, Again, RefreshNow, OnSessionsRefreshed,
         OnRefreshFailed, SwitchTeam, Made, DeleteSession, MoveSession, Gone, accountVars
<1>7. AccountScene => AccountsNext \/ SessionsNext
  BY DEF AccountScene, SessionsNext
<1>8. ListScene => SessionsNext \/ UNCHANGED fileVars
  BY DEF ListScene, Unanswered
<1>9. UNCHANGED accountVars => UNCHANGED fileVars
  BY DEF accountVars
<1> QED
  BY <1>1, <1>2, <1>3, <1>4, <1>5, <1>6, <1>7, <1>8, <1>9 DEF LibraryNext

\* For any servers, teams, threads, expiries, switches and sign-ins: although
\* nobody locks teams.json, and each thread saves what it loaded over what others
\* saved since, the entries of one server have one pair when no sign-in is between
\* its two saves, unless a refresh of another login loaded the file between them
\* (config.py: "Entries that share an identity now share the pair").
THEOREM LoginsShareThePair == LibrarySpec => []OnePairPerLogin
<1>1. LibraryInit => AccountsTypeOK /\ ListInvariant /\ CopiesAreEven
  <2> SUFFICES ASSUME LibraryInit PROVE AccountsTypeOK /\ ListInvariant /\ CopiesAreEven
    OBVIOUS
  <2>1. AccountsInit
    BY DEF LibraryInit, SessionListInit
  <2>2. config = [u \in Configured |-> [url |-> Home[u], pair |-> Pair(Home[u], 1)]]
    BY <2>1 DEF AccountsInit
  <2>3. Even(config)
    BY <2>2 DEF Even, Pair
  <2>4. \A j \in Jobs : opened[j].file = <<>>
    BY <2>1 DEF AccountsInit, Nothing
  <2>5. CopiesAreEven
    BY <2>1, <2>3, <2>4 DEF CopiesAreEven, FileIsEven, WritingIsEven, OpenedIsEven, HalfDone, Writes, AccountsInit, NotWriting
  <2> QED
    BY <2>5, ListBegins DEF LibraryInit
<1>2. AccountsTypeOK /\ ListInvariant /\ CopiesAreEven /\ [LibraryNext]_<<accountVars, listVars, copyVars, scene>> =>
        AccountsTypeOK' /\ ListInvariant' /\ CopiesAreEven'
  BY ListStep, EvenStep
<1>3. CopiesAreEven => OnePairPerLogin
  BY DEF CopiesAreEven, FileIsEven, OnePairPerLogin
<1> QED
  BY <1>1, <1>2, <1>3, PTL DEF LibrarySpec
================================================================================
