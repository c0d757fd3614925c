---------------------------- MODULE MigrationProofs ----------------------------
(***************************************************************************)
(* Proofs about teams, and the data directory that a start migrates: what  *)
(* there was is served whole, and only a race takes a session's team away. *)
(***************************************************************************)
EXTENDS Migrations, TLAPS

(***************************************************************************)
(* Functions, and uuids.                                                   *)
(***************************************************************************)

LEMMA WithFacts ==
  ASSUME NEW f, NEW x, NEW y
  PROVE  /\ DOMAIN With(f, x, y) = DOMAIN f \cup {x}
         /\ With(f, x, y) = [z \in DOMAIN With(f, x, y) |-> With(f, x, y)[z]]
         /\ With(f, x, y)[x] = y
         /\ \A z \in DOMAIN f : z # x => With(f, x, y)[z] = f[z]
  BY DEF With

LEMMA RestrictFacts ==
  ASSUME NEW f, NEW S
  PROVE  /\ DOMAIN Restrict(f, S) = S
         /\ Restrict(f, S) = [z \in DOMAIN Restrict(f, S) |-> Restrict(f, S)[z]]
         /\ \A z \in S : Restrict(f, S)[z] = f[z]
  BY DEF Restrict

LEMMA FreshFacts ==
  ASSUME minted \subseteq Uuids, minted # Uuids
  PROVE  Fresh \in Uuids /\ Fresh \notin minted /\ Fresh \in Ids
<1>1. \E u \in Uuids : u \notin minted
  OBVIOUS
<1> QED
  BY <1>1 DEF Fresh, Ids

LEMMA SlugsAreMinted == Minted(None) /\ \A s \in Slugs : Minted(s)
  BY TeamsAssumption DEF Minted, Ids

LEMMA MintedGrows ==
  ASSUME minted \subseteq minted'
  PROVE  /\ \A x : Minted(x) => Minted(x)'
         /\ \A h : CarriedIsSound(h) => CarriedIsSound(h)'
  BY DEF Minted, CarriedIsSound

LEMMA IdleFacts == Idle.op = "idle" /\ CarriedIsSound(Idle)
  BY DEF Idle, CarriedIsSound

(***************************************************************************)
(* What the server's threads and the shell do to the teams.                *)
(***************************************************************************)

LEMMA HeldFacts ==
  ASSUME TeamsInvariant, NEW a \in Actors, minted \subseteq minted',
         NEW what, CarriedIsSound(what), held' = [held EXCEPT ![a] = what]
  PROVE  /\ held' = [b \in Actors |-> held'[b]]
         /\ \A b \in Actors : CarriedIsSound(held[b])'
<1>1. held' = [b \in Actors |-> IF b = a THEN what ELSE held[b]]
  BY DEF TeamsInvariant
<1>2. \A b \in Actors : held'[b] = IF b = a THEN what ELSE held[b]
  BY <1>1
<1>3. ASSUME NEW b \in Actors
      PROVE  CarriedIsSound(held[b])'
  <2>1. PICK h : h = held'[b]
    OBVIOUS
  <2>2. CarriedIsSound(h)
    BY <1>2, <2>1 DEF TeamsInvariant
  <2>3. CarriedIsSound(h)'
    BY <2>2, MintedGrows
  <2> QED
    BY <2>1, <2>3 DEF CarriedIsSound
<1> QED
  BY <1>1, <1>2, <1>3

LEMMA BeginFacts ==
  ASSUME TeamsInvariant, NEW a \in Actors, NEW what, CarriedIsSound(what), minted' = minted, Begin(a, what)
  PROVE  /\ held' = [b \in Actors |-> held'[b]]
         /\ \A b \in Actors : CarriedIsSound(held[b])'
         /\ ops' \in Nat /\ ops' # 0
<1>1. held' = [held EXCEPT ![a] = what] /\ ops' = ops + 1 /\ ops \in Nat
  BY DEF Begin, TeamsInvariant
<1>2. minted \subseteq minted' /\ ops + 1 # 0 /\ ops + 1 \in Nat
  BY <1>1
<1>3. /\ held' = [b \in Actors |-> held'[b]]
      /\ \A b \in Actors : CarriedIsSound(held[b])'
  BY <1>1, <1>2, HeldFacts
<1> QED
  BY <1>1, <1>2, <1>3

LEMMA DoneFacts ==
  ASSUME TeamsInvariant, NEW a \in Actors, held[a].op # "idle", minted' = minted, Done(a)
  PROVE  /\ held' = [b \in Actors |-> held'[b]]
         /\ \A b \in Actors : CarriedIsSound(held[b])'
         /\ ops' \in Nat /\ ops' # 0
<1>1. held' = [held EXCEPT ![a] = Idle] /\ ops' = ops /\ ops \in Nat
  BY DEF Done, TeamsInvariant
<1>2. ops # 0
  BY IdleFacts DEF TeamsInvariant
<1> QED
  BY <1>1, <1>2, HeldFacts, IdleFacts

\* A step that changes only what an actor carries.
LEMMA OnlyHeld ==
  ASSUME TeamsInvariant, UNCHANGED <<teams, members, row, minted, up>>,
         held' = [b \in Actors |-> held'[b]], \A b \in Actors : CarriedIsSound(held[b])',
         ops' \in Nat, ops' # 0
  PROVE  TeamsInvariant'
<1>1. \A x : Minted(x)' <=> Minted(x)
  BY DEF Minted
<1> QED
  BY <1>1 DEF TeamsInvariant

LEMMA CreateTeamStep ==
  ASSUME TeamsInvariant, NEW a \in Actors, NEW s \in Slugs, CreateTeam(a, s)
  PROVE  TeamsInvariant' /\ ops' # 0
<1> USE DEF CreateTeam
<1>1. Fresh \in Uuids /\ Fresh \notin minted /\ Fresh \in Ids
  BY FreshFacts DEF TeamsInvariant
<1>2. PICK u : u = Fresh
  OBVIOUS
<1>3. minted' = minted \cup {u} /\ teams' = With(teams, u, s) /\ u \in Uuids /\ u \in Ids
  BY <1>1, <1>2
<1>4. \A x : Minted(x) => Minted(x)'
  BY <1>3, MintedGrows
<1>5. Minted(u)'
  BY <1>3 DEF Minted
<1>6. teams' = [id \in DOMAIN teams' |-> teams'[id]] /\ DOMAIN teams' = DOMAIN teams \cup {u}
  <2>1. PICK t : t = With(teams, u, s)
    OBVIOUS
  <2>2. DOMAIN t = DOMAIN teams \cup {u} /\ t = [id \in DOMAIN t |-> t[id]]
    BY <2>1 DEF With
  <2> QED
    BY <1>3, <2>1, <2>2
<1>7. \A id \in DOMAIN teams' : id \in Ids /\ Minted(id)'
  BY <1>3, <1>4, <1>5, <1>6 DEF TeamsInvariant
<1>8. \A b \in Actors : CarriedIsSound(held[b])'
  <2> SUFFICES ASSUME NEW b \in Actors PROVE CarriedIsSound(held[b])'
    OBVIOUS
  <2>1. PICK h : h = held[b]
    OBVIOUS
  <2>2. CarriedIsSound(h)' /\ held'[b] = h
    BY <1>3, <2>1, MintedGrows DEF TeamsInvariant
  <2> QED
    BY <2>2 DEF CarriedIsSound
<1>9. ops' \in Nat /\ ops' # 0
  BY DEF TeamsInvariant
<1> QED
  BY <1>3, <1>4, <1>6, <1>7, <1>8, <1>9 DEF TeamsInvariant

LEMMA RenameStep ==
  ASSUME TeamsInvariant, NEW a \in Actors,
         (\E x \in Slugs, s \in Slugs : RenameBegin(a, x, s)) \/ RenameEnd(a)
  PROVE  TeamsInvariant' /\ ops' # 0
<1>1. CASE \E x \in Slugs, s \in Slugs : RenameBegin(a, x, s)
  <2>1. PICK id, s : /\ Begin(a, [op |-> "rename", id |-> id, slug |-> s])
                     /\ UNCHANGED <<teams, members, row, dirs, minted, up>>
    BY <1>1 DEF RenameBegin
  <2>2. CarriedIsSound([op |-> "rename", id |-> id, slug |-> s])
    BY DEF CarriedIsSound
  <2> QED
    BY <2>1, <2>2, BeginFacts, OnlyHeld
<1>2. CASE RenameEnd(a)
  <2>1. held[a].op # "idle" /\ Done(a) /\ UNCHANGED <<members, row, minted, up>>
    BY <1>2 DEF RenameEnd, Holds
  <2>2. /\ held' = [b \in Actors |-> held'[b]]
        /\ \A b \in Actors : CarriedIsSound(held[b])'
        /\ ops' \in Nat /\ ops' # 0
    BY <2>1, DoneFacts
  <2>3. teams' = [id \in DOMAIN teams' |-> teams'[id]] /\ DOMAIN teams' = DOMAIN teams
    BY <1>2 DEF RenameEnd, TeamsInvariant
  <2>4. \A x : Minted(x)' <=> Minted(x)
    BY <2>1 DEF Minted
  <2> QED
    BY <2>1, <2>2, <2>3, <2>4 DEF TeamsInvariant
<1> QED
  BY <1>1, <1>2

LEMMA DeleteBeginStep ==
  ASSUME TeamsInvariant, NEW a \in Actors, NEW id, NEW to, DeleteBegin(a, id, to) \/ DeleteCount(a) \/ DeleteDir(a)
  PROVE  TeamsInvariant' /\ ops' # 0
<1>1. CASE DeleteBegin(a, id, to)
  <2>1. CarriedIsSound([op |-> "delete", id |-> id, to |-> to])
    BY <1>1, SlugsAreMinted DEF DeleteBegin, CarriedIsSound, TeamsInvariant
  <2> QED
    BY <1>1, <2>1, BeginFacts, OnlyHeld DEF DeleteBegin
<1>2. CASE DeleteCount(a)
  <2>1. PICK what : what = [op |-> "counted", id |-> held[a].id, to |-> held[a].to,
                            rows |-> Rows(held[a].id) # {}, roster |-> Roster(held[a].id) # {}]
    OBVIOUS
  <2>2. /\ held[a].op = "delete" /\ UNCHANGED <<teams, members, row, minted, up, ops>>
        /\ held' = [held EXCEPT ![a] = what]
    BY <1>2, <2>1 DEF DeleteCount, Holds, TeamsInvariant
  <2>3. CarriedIsSound(held[a])
    BY DEF TeamsInvariant
  <2>4. CarriedIsSound(what)
    BY <2>1, <2>2, <2>3 DEF CarriedIsSound
  <2>5. ops \in Nat /\ ops # 0
    BY <2>2, IdleFacts DEF TeamsInvariant
  <2> QED
    BY <2>2, <2>4, <2>5, HeldFacts, OnlyHeld
<1>3. CASE DeleteDir(a)
  <2>1. held[a].op # "idle" /\ Done(a) /\ UNCHANGED <<teams, members, row, minted, up>>
    BY <1>3 DEF DeleteDir, Holds
  <2> QED
    BY <2>1, DoneFacts, OnlyHeld
<1> QED
  BY <1>1, <1>2, <1>3

\* The transaction of a deletion is rolled back, or takes the team out.
LEMMA DeleteFacts ==
  ASSUME TeamsInvariant, NEW a \in Actors, DeleteTeam(a)
  PROVE  /\ held[a].op \in {"delete", "counted"} /\ UNCHANGED <<minted, up, ops>>
         /\ \/ UNCHANGED <<teams, members, row>> /\ Done(a)
            \/ \E rows \in BOOLEAN :
                 /\ rows => held[a].to # None
                 /\ ~rows => Rows(held[a].id) = {} \/ (a = "cli" /\ held[a].op = "counted" /\ ~held[a].rows)
                 /\ row' = [s \in DOMAIN row |-> IF rows /\ row[s] = held[a].id THEN held[a].to ELSE row[s]]
                 /\ teams' = Restrict(teams, DOMAIN teams \ {held[a].id})
                 /\ members' \subseteq members
                 /\ held' = [held EXCEPT ![a] = [op |-> "rmtree", id |-> held[a].id]]
<1>1. UNCHANGED <<minted, up>>
  BY DEF DeleteTeam
<1>2. CASE a = "api" /\ Holds(a, "delete") /\ DeleteRows(a, Rows(held[a].id) # {}, Roster(held[a].id) # {})
  BY <1>1, <1>2 DEF DeleteRows, Refused, Holds, Done
<1>3. CASE a = "cli" /\ Holds(a, "counted") /\ DeleteRows(a, held[a].rows, held[a].roster)
  <2>1. held[a].rows \in BOOLEAN /\ held[a].roster \in BOOLEAN
    BY <1>3 DEF TeamsInvariant, CarriedIsSound, Holds
  <2> QED
    BY <1>1, <1>3, <2>1 DEF DeleteRows, Refused, Holds, Done
<1> QED
  BY <1>2, <1>3 DEF DeleteTeam

LEMMA DeleteTeamStep ==
  ASSUME TeamsInvariant, NEW a \in Actors, DeleteTeam(a)
  PROVE  TeamsInvariant' /\ ops' # 0
<1>1. held[a].op \in {"delete", "counted"} /\ UNCHANGED <<minted, up, ops>> /\ CarriedIsSound(held[a])
  BY DeleteFacts DEF TeamsInvariant
<1>2. ops \in Nat /\ ops # 0
  BY <1>1, IdleFacts DEF TeamsInvariant
<1>3. CASE UNCHANGED <<teams, members, row>> /\ Done(a)
  <2>1. held[a].op # "idle"
    BY <1>1
  <2> QED
    BY <1>1, <1>3, <2>1, DoneFacts, OnlyHeld
<1>4. CASE \E rows \in BOOLEAN :
             /\ rows => held[a].to # None
             /\ ~rows => Rows(held[a].id) = {} \/ (a = "cli" /\ held[a].op = "counted" /\ ~held[a].rows)
             /\ row' = [s \in DOMAIN row |-> IF rows /\ row[s] = held[a].id THEN held[a].to ELSE row[s]]
             /\ teams' = Restrict(teams, DOMAIN teams \ {held[a].id})
             /\ members' \subseteq members
             /\ held' = [held EXCEPT ![a] = [op |-> "rmtree", id |-> held[a].id]]
  <2>1. PICK rows \in BOOLEAN :
          row' = [s \in DOMAIN row |-> IF rows /\ row[s] = held[a].id THEN held[a].to ELSE row[s]]
    BY <1>4
  <2>2. \A x : Minted(x)' <=> Minted(x)
    BY <1>1 DEF Minted
  <2>3. row' = [s \in DOMAIN row' |-> row'[s]] /\ \A s \in DOMAIN row' : Minted(row[s])'
    <3>1. DOMAIN row' = DOMAIN row /\ row' = [s \in DOMAIN row' |-> row'[s]]
      BY <2>1
    <3>2. \A s \in DOMAIN row : row'[s] = held[a].to \/ row'[s] = row[s]
      BY <2>1
    <3>3. Minted(held[a].to) /\ \A s \in DOMAIN row : Minted(row[s])
      BY <1>1 DEF CarriedIsSound, TeamsInvariant
    <3> QED
      BY <1>1, <3>1, <3>2, <3>3 DEF Minted
  <2>4. /\ teams' = [id \in DOMAIN teams' |-> teams'[id]] /\ DOMAIN teams' \subseteq DOMAIN teams
    <3>1. PICK t : t = Restrict(teams, DOMAIN teams \ {held[a].id})
      OBVIOUS
    <3>2. t = [id \in DOMAIN t |-> t[id]] /\ DOMAIN t \subseteq DOMAIN teams
      BY <3>1 DEF Restrict
    <3> QED
      BY <1>4, <3>1, <3>2
  <2>5. CarriedIsSound([op |-> "rmtree", id |-> held[a].id]) /\ minted \subseteq minted'
    BY <1>1 DEF CarriedIsSound
  <2>6. PICK what : what = [op |-> "rmtree", id |-> held[a].id]
    OBVIOUS
  <2>7. /\ held' = [b \in Actors |-> held'[b]]
        /\ \A b \in Actors : CarriedIsSound(held[b])'
    BY <1>4, <2>5, <2>6, HeldFacts
  <2>8. members' \subseteq members
    BY <1>4
  <2> QED
    BY <1>1, <1>2, <2>2, <2>3, <2>4, <2>7, <2>8 DEF TeamsInvariant
<1> QED
  BY <1>3, <1>4, DeleteFacts

LEMMA MemberStep ==
  ASSUME TeamsInvariant, NEW a \in Actors,
         \/ \E h \in Handles, x \in Slugs : AddMemberBegin(a, h, x)
         \/ AddMemberEnd(a)
         \/ \E h \in Handles, x \in Slugs : RemoveMember(a, h, x)
  PROVE  TeamsInvariant' /\ ops' # 0
<1>1. CASE \E h \in Handles, x \in Slugs : AddMemberBegin(a, h, x)
  <2>1. PICK id, h : /\ Begin(a, [op |-> "add", id |-> id, who |-> h])
                    /\ h \in Handles
                    /\ UNCHANGED <<teams, members, row, dirs, minted, up>>
    BY <1>1 DEF AddMemberBegin
  <2>2. CarriedIsSound([op |-> "add", id |-> id, who |-> h])
    BY <2>1 DEF CarriedIsSound
  <2> QED
    BY <2>1, <2>2, BeginFacts, OnlyHeld
<1>2. CASE AddMemberEnd(a)
  <2>1. held[a].op = "add" /\ Done(a) /\ UNCHANGED <<teams, row, minted, up>>
    BY <1>2 DEF AddMemberEnd, Holds
  <2>2. /\ held' = [b \in Actors |-> held'[b]]
        /\ \A b \in Actors : CarriedIsSound(held[b])'
        /\ ops' \in Nat /\ ops' # 0
    BY <2>1, DoneFacts
  <2>3. \A x : Minted(x)' <=> Minted(x)
    BY <2>1 DEF Minted
  <2>4. held[a].who \in Handles /\ (Live(held[a].id) => held[a].id \in Ids /\ Minted(held[a].id))
    BY <2>1 DEF TeamsInvariant, CarriedIsSound, Live
  <2>5. members' \subseteq Handles \X Ids /\ \A m \in members' : Minted(m[2])
    BY <1>2, <2>4 DEF AddMemberEnd, TeamsInvariant
  <2> QED
    BY <2>1, <2>2, <2>3, <2>5 DEF TeamsInvariant
<1>3. CASE \E h \in Handles, x \in Slugs : RemoveMember(a, h, x)
  <2>1. members' \subseteq members /\ ops' = ops + 1 /\ UNCHANGED <<teams, row, minted, held, up>>
    BY <1>3 DEF RemoveMember
  <2>2. \A x : Minted(x)' <=> Minted(x)
    BY <2>1 DEF Minted
  <2>3. ops' \in Nat /\ ops' # 0
    BY <2>1 DEF TeamsInvariant
  <2>4. \A b \in Actors : CarriedIsSound(held[b])'
    BY <2>1 DEF TeamsInvariant, CarriedIsSound, Minted
  <2> QED
    BY <2>1, <2>2, <2>3, <2>4 DEF TeamsInvariant
<1> QED
  BY <1>1, <1>2, <1>3

\* A step that changes only the sessions, and what an actor carries.
LEMMA RowsAndHeld ==
  ASSUME TeamsInvariant, UNCHANGED <<teams, members, minted, up>>,
         row' = [s \in DOMAIN row' |-> row'[s]], \A s \in DOMAIN row' : Minted(row'[s]),
         held' = [b \in Actors |-> held'[b]], \A b \in Actors : CarriedIsSound(held[b])',
         ops' \in Nat, ops' # 0
  PROVE  TeamsInvariant'
<1>1. \A x : Minted(x)' <=> Minted(x)
  BY DEF Minted
<1>2. \A s \in DOMAIN row' : Minted(row[s])'
  BY DEF Minted
<1> QED
  BY <1>1, <1>2 DEF TeamsInvariant

LEMMA UploadStep ==
  ASSUME TeamsInvariant, (\E h \in Handles, s \in Sessions, id \in Ids : UploadBegin(h, s, id)) \/ UploadEnd
  PROVE  TeamsInvariant' /\ ops' # 0
<1>0. "upload" \in Actors
  BY DEF Actors
<1>1. CASE \E h \in Handles, s \in Sessions, id \in Ids : UploadBegin(h, s, id)
  <2>1. PICK h, s, id : UploadBegin(h, s, id)
    BY <1>1
  <2>2. CarriedIsSound([op |-> "upload", id |-> id, ses |-> s])
    BY <2>1 DEF UploadBegin, Member, CarriedIsSound, TeamsInvariant
  <2> QED
    BY <1>0, <2>1, <2>2, BeginFacts, OnlyHeld DEF UploadBegin
<1>2. CASE UploadEnd
  <2>1. /\ held["upload"].op = "upload" /\ Done("upload") /\ UNCHANGED <<teams, members, minted, up>>
        /\ row' = With(row, held["upload"].ses, held["upload"].id)
    BY <1>2 DEF UploadEnd, Holds
  <2>2. /\ held' = [b \in Actors |-> held'[b]]
        /\ \A b \in Actors : CarriedIsSound(held[b])'
        /\ ops' \in Nat /\ ops' # 0
    BY <1>0, <2>1, DoneFacts
  <2>3. Minted(held["upload"].id)
    BY <1>0, <2>1 DEF TeamsInvariant, CarriedIsSound
  <2>4. PICK s, id : s = held["upload"].ses /\ id = held["upload"].id
    OBVIOUS
  <2>5. row' = [z \in DOMAIN row \cup {s} |-> IF z = s THEN id ELSE row[z]]
    BY <2>1, <2>4 DEF With
  <2>6. row' = [z \in DOMAIN row' |-> row'[z]] /\ \A z \in DOMAIN row' : Minted(row'[z])
    BY <2>3, <2>4, <2>5 DEF TeamsInvariant
  <2> QED
    BY <2>1, <2>2, <2>6, RowsAndHeld
<1> QED
  BY <1>1, <1>2

LEMMA MoveStep ==
  ASSUME TeamsInvariant, (\E h \in Handles, s \in Sessions, x \in Slugs : MoveBegin(h, s, x)) \/ MoveEnd
  PROVE  TeamsInvariant' /\ ops' # 0
<1>0. "api" \in Actors
  BY DEF Actors
<1>1. CASE \E h \in Handles, s \in Sessions, x \in Slugs : MoveBegin(h, s, x)
  <2>1. PICK h, s, x, id : /\ Begin("api", [op |-> "move", ses |-> s, from |-> row[s], id |-> id])
                           /\ Member(h, id)
                           /\ UNCHANGED <<teams, members, row, dirs, minted, up>>
    BY <1>1 DEF MoveBegin
  <2>2. CarriedIsSound([op |-> "move", ses |-> s, from |-> row[s], id |-> id])
    BY <2>1 DEF Member, CarriedIsSound, TeamsInvariant
  <2>3. PICK what : what = [op |-> "move", ses |-> s, from |-> row[s], id |-> id]
    OBVIOUS
  <2> QED
    BY <1>0, <2>1, <2>2, <2>3, BeginFacts, OnlyHeld
<1>2. CASE MoveEnd
  <2>1. held["api"].op = "move" /\ Done("api") /\ UNCHANGED <<teams, members, minted, up>>
    BY <1>2 DEF MoveEnd, Holds
  <2>2. /\ held' = [b \in Actors |-> held'[b]]
        /\ \A b \in Actors : CarriedIsSound(held[b])'
        /\ ops' \in Nat /\ ops' # 0
    BY <1>0, <2>1, DoneFacts
  <2>3. Minted(held["api"].id)
    BY <1>0, <2>1 DEF TeamsInvariant, CarriedIsSound
  <2>4. row' = [z \in DOMAIN row' |-> row'[z]] /\ \A z \in DOMAIN row' : Minted(row'[z])
    BY <1>2, <2>3 DEF MoveEnd, TeamsInvariant
  <2> QED
    BY <2>1, <2>2, <2>4, RowsAndHeld
<1> QED
  BY <1>1, <1>2

LEMMA AdminMoveStep ==
  ASSUME TeamsInvariant, (\E s \in Sessions, x \in Slugs : AdminMoveBegin(s, x)) \/ AdminMoveEnd
  PROVE  TeamsInvariant' /\ ops' # 0
<1>0. "cli" \in Actors
  BY DEF Actors
<1>1. CASE \E s \in Sessions, x \in Slugs : AdminMoveBegin(s, x)
  <2>1. PICK s, x, id : /\ Begin("cli", [op |-> "setteam", ses |-> s, id |-> id])
                         /\ id \in Resolve(x)
                         /\ UNCHANGED <<teams, members, row, dirs, minted, up>>
    BY <1>1 DEF AdminMoveBegin
  <2>2. CarriedIsSound([op |-> "setteam", ses |-> s, id |-> id])
    BY <2>1 DEF Resolve, CarriedIsSound, TeamsInvariant
  <2> QED
    BY <1>0, <2>1, <2>2, BeginFacts, OnlyHeld
<1>2. CASE AdminMoveEnd
  <2>1. held["cli"].op = "setteam" /\ Done("cli") /\ UNCHANGED <<teams, members, minted, up>>
    BY <1>2 DEF AdminMoveEnd, Holds
  <2>2. /\ held' = [b \in Actors |-> held'[b]]
        /\ \A b \in Actors : CarriedIsSound(held[b])'
        /\ ops' \in Nat /\ ops' # 0
    BY <1>0, <2>1, DoneFacts
  <2>3. Minted(held["cli"].id)
    BY <1>0, <2>1 DEF TeamsInvariant, CarriedIsSound
  <2>4. row' = [z \in DOMAIN row' |-> row'[z]] /\ \A z \in DOMAIN row' : Minted(row'[z])
    BY <1>2, <2>3 DEF AdminMoveEnd, TeamsInvariant
  <2> QED
    BY <2>1, <2>2, <2>4, RowsAndHeld
<1> QED
  BY <1>1, <1>2

LEMMA DeleteSessionStep ==
  ASSUME TeamsInvariant, NEW h, NEW s, DeleteSession(h, s)
  PROVE  TeamsInvariant' /\ ops' # 0
<1>1. ops' = ops + 1 /\ UNCHANGED <<teams, members, minted, held, up>> /\ row' = [z \in DOMAIN row \ {s} |-> row[z]]
  BY DEF DeleteSession, Restrict
<1>2. row' = [z \in DOMAIN row' |-> row'[z]] /\ \A z \in DOMAIN row' : Minted(row'[z])
  BY <1>1 DEF TeamsInvariant
<1>3. \A b \in Actors : CarriedIsSound(held[b])'
  BY <1>1 DEF TeamsInvariant, CarriedIsSound, Minted
<1>4. ops' \in Nat /\ ops' # 0 /\ held' = [b \in Actors |-> held'[b]]
  BY <1>1 DEF TeamsInvariant
<1> QED
  BY <1>1, <1>2, <1>3, <1>4, RowsAndHeld

LEMMA AdminStep ==
  ASSUME TeamsInvariant, NEW a \in Actors, Admin(a)
  PROVE  TeamsInvariant' /\ ops' # 0
  BY CreateTeamStep, RenameStep, DeleteBeginStep, DeleteTeamStep, MemberStep DEF Admin

LEMMA WorkKeepsTeams ==
  ASSUME TeamsInvariant, Work
  PROVE  TeamsInvariant' /\ ops' # 0 /\ up' = up
<1>0. "api" \in Actors /\ "cli" \in Actors
  BY DEF Actors
<1>1. TeamsInvariant' /\ ops' # 0
  <2>1. CASE Shell
    BY <1>0, <2>1, AdminStep, AdminMoveStep DEF Shell
  <2>2. CASE Requests
    BY <1>0, <2>2, AdminStep, UploadStep, MoveStep, DeleteSessionStep DEF Requests
  <2> QED
    BY <2>1, <2>2 DEF Work
<1>2. \A a : Admin(a) => up' = up
  BY DEF Admin, CreateTeam, RenameBegin, RenameEnd, DeleteBegin, DeleteCount, DeleteTeam, DeleteDir,
         AddMemberBegin, AddMemberEnd, RemoveMember
<1>3. up' = up
  BY <1>2 DEF Work, Shell, Requests, UploadBegin, UploadEnd, MoveBegin, MoveEnd, AdminMoveBegin, AdminMoveEnd,
              DeleteSession
<1> QED
  BY <1>1, <1>3

(***************************************************************************)
(* The start of the server: a step at a time.                              *)
(***************************************************************************)

LEMMA SlugFacts ==
  ASSUME FilesAreSound
  PROVE  /\ had.slug \in Slugs /\ had.slug \in Ids /\ had.slug # None /\ had.slug \notin Uuids
         /\ Default \in Slugs /\ Default \in Ids /\ Default # None /\ Default \notin Uuids
  BY TeamsAssumption, MigrationsAssumption DEF FilesAreSound, Ids

LEMMA SameTeams ==
  ASSUME TeamsInvariant, UNCHANGED <<teams, members, row, minted, held, ops>>, up' \in BOOLEAN
  PROVE  TeamsInvariant'
<1>1. \A x : Minted(x)' <=> Minted(x)
  BY DEF Minted
<1>2. \A a \in Actors : CarriedIsSound(held[a])'
  BY DEF TeamsInvariant, CarriedIsSound, Minted
<1> QED
  BY <1>1, <1>2 DEF TeamsInvariant

LEMMA SameRollback ==
  ASSUME step' # "remap"
  PROVE  RollbackIsSound'
  BY DEF RollbackIsSound

LEMMA WorkStep ==
  ASSUME MigInvariant, Work
  PROVE  MigInvariant'
<1>1. TeamsInvariant' /\ ops' # 0 /\ up' = up
  BY WorkKeepsTeams DEF MigInvariant
<1>2. step # "remap" /\ UNCHANGED <<applied, step, tx, file, table, legacy, crashes, had>>
  BY DEF Work, migVars
<1>3. StepIsDue'
  BY <1>1, <1>2 DEF MigInvariant, StepIsDue
<1>4. RollbackIsSound' /\ Arriving'
  BY <1>1, <1>2 DEF RollbackIsSound, Arriving
<1> QED
  BY <1>1, <1>2, <1>3, <1>4 DEF MigInvariant, FilesAreSound

\* The steps that read and write nothing but how far the start has come.
LEMMA MarkStep ==
  ASSUME MigInvariant, Boot \/ Additive \/ MarkApplied \/ Serve
  PROVE  MigInvariant'
<1>1. /\ UNCHANGED <<teams, members, row, minted, held, ops, file, table, legacy, had>> /\ up' \in BOOLEAN
      /\ step' # "remap"
  BY DEF Boot, Additive, MarkApplied, Serve, Goto, Start, teamVars, MigInvariant, TeamsInvariant
<1>2. TeamsInvariant' /\ RollbackIsSound' /\ FilesAreSound'
  BY <1>1, SameTeams, SameRollback DEF MigInvariant, FilesAreSound
<1>3. StepIsDue'
  BY DEF MigInvariant, StepIsDue, Boot, Additive, MarkApplied, Serve, At, Goto, Start, All, Uuid, teamVars
<1>4. Arriving'
  <2> SUFFICES ASSUME ops = 0, had.rows \cup had.tokens # {}
               PROVE  Arriving'
    BY <1>1 DEF Arriving
  <2>1. applied \in 0..All /\ StepIsDue /\ Arriving
    BY DEF MigInvariant, StepIsDue
  <2>2. (\A n \in 0..4 : Worked(n)' <=> Worked(n)) /\ applied' \in Nat /\ applied <= applied' /\ step' # "roster"
        /\ (applied' = 0 => applied = 0) /\ step' \notin {"strip", "rename"}
    BY <1>1, <2>1 DEF StepIsDue, Worked, Boot, Additive, MarkApplied, Serve, At, Goto, Start, All, Uuid, teamVars
  <2>5. Unmade => Unmade'
    BY <1>1, <2>1 DEF StepIsDue, Boot, Additive, MarkApplied, Serve, At, Start, All, Uuid, teamVars, Unmade, Goto
  <2>3. TokensArrive'
    BY <1>1, <2>1, <2>2 DEF Arriving, TokensArrive, All, Belong, Live
  <2>4. KeyedBySlug(teams, row) /\ ~Worked(Uuid) => KeyedBySlug(teams, row)' /\ ~Worked(Uuid)'
    BY <1>1, <2>2 DEF KeyedBySlug, InTeam, Uuid
  <2>6. KeyedByUuid(teams, row) /\ applied >= Uuid => KeyedByUuid(teams, row)' /\ (applied >= Uuid)'
    BY <1>1, <2>1, <2>2 DEF KeyedByUuid, InTeam, Uuid, All
  <2> QED
    BY <1>1, <2>1, <2>2, <2>3, <2>4, <2>5, <2>6 DEF Arriving
<1> QED
  BY <1>2, <1>3, <1>4 DEF MigInvariant

\* What is known of the tables while nothing has been served.
LEMMA ArrivingFacts ==
  ASSUME MigInvariant, ops = 0, had.rows \cup had.tokens # {}
  PROVE  /\ TokensArrive /\ (applied = 0 => had.slug = Default)
         /\ Unmade \/ (KeyedBySlug(teams, row) /\ ~Worked(Uuid)) \/ (KeyedByUuid(teams, row) /\ applied >= Uuid)
         /\ applied < Uuid => Unmade \/ (KeyedBySlug(teams, row) /\ ~Worked(Uuid))
         /\ applied \in 0..6
  BY DEF MigInvariant, Arriving, StepIsDue, Uuid, All

\* The steps that touch the tokens, in their file and in their table.
LEMMA TokenStep ==
  ASSUME MigInvariant, BackfillTokens \/ StripTokens \/ ImportTokens \/ RenameTokensFile
  PROVE  MigInvariant'
<1>1. /\ UNCHANGED <<teams, members, row, minted, held, up, ops, applied, legacy, had>> /\ up' \in BOOLEAN
      /\ step' # "remap"
  BY DEF BackfillTokens, StripTokens, ImportTokens, RenameTokensFile, Goto, teamVars, MigInvariant, TeamsInvariant
<1>2. TeamsInvariant' /\ RollbackIsSound'
  BY <1>1, SameTeams, SameRollback DEF MigInvariant
<1>3. file' = [k \in DOMAIN file' |-> file'[k]] /\ DOMAIN file' \subseteq Tokens /\ FilesAreSound'
  BY <1>1 DEF BackfillTokens, StripTokens, ImportTokens, RenameTokensFile, NoFile, MigInvariant, FilesAreSound
<1>4. StepIsDue' /\ applied \in 0..3 /\ (applied = 0 => step = "tokens")
      /\ step' \in {"roster", "mark", "rename"}
  BY DEF MigInvariant, StepIsDue, BackfillTokens, StripTokens, ImportTokens, RenameTokensFile, At, Goto, Start, All,
         Uuid, teamVars
<1>5. Arriving'
  <2> SUFFICES ASSUME ops = 0, had.rows \cup had.tokens # {}
               PROVE  Arriving'
    BY <1>1 DEF Arriving
  <2>1. TokensArrive /\ (applied = 0 => had.slug = Default) /\ (Unmade \/ (KeyedBySlug(teams, row) /\ ~Worked(Uuid)))
    BY <1>4, ArrivingFacts DEF Uuid
  <2>2. ~Unmade
    BY <1>4 DEF Unmade, Start
  <2>3. KeyedBySlug(teams, row)' /\ ~Worked(Uuid)'
    BY <1>1, <1>4, <2>1, <2>2 DEF KeyedBySlug, InTeam, Worked, Uuid
  <2>4. TokensArrive'
    <3>1. CASE BackfillTokens
      BY <1>1, <1>4, <2>1, <3>1 DEF BackfillTokens, TokensArrive, Worked, Goto, Belong, MigInvariant, StepIsDue
    <3>2. CASE StripTokens
      <4>1. applied = 2 /\ step = "strip" /\ step' = "mark" /\ DOMAIN file' = DOMAIN file
        BY <3>2 DEF StripTokens, Goto, MigInvariant, StepIsDue
      <4>2. DOMAIN teams = {had.slug} /\ \A id \in DOMAIN teams : Belong(members, id)
        BY <2>1, <2>2, <4>1 DEF KeyedBySlug, InTeam, TokensArrive
      <4> QED
        BY <1>1, <2>1, <4>1, <4>2 DEF TokensArrive, Worked, Belong
    <3>3. CASE ImportTokens
      BY <1>1, <1>4, <2>1, <3>3 DEF ImportTokens, TokensArrive, Worked, At, Start, Goto, Belong
    <3>4. CASE RenameTokensFile
      BY <1>1, <1>4, <2>1, <3>4 DEF RenameTokensFile, TokensArrive, Worked, Goto, Belong, MigInvariant, StepIsDue
    <3> QED
      BY <3>1, <3>2, <3>3, <3>4
  <2> QED
    BY <1>1, <1>4, <2>1, <2>3, <2>4 DEF Arriving
<1> QED
  BY <1>2, <1>3, <1>4, <1>5 DEF MigInvariant

\* The steps that move the files of single-team data.
LEMMA FileStep ==
  ASSUME MigInvariant, MoveRoster \/ MoveVoiceprints
  PROVE  MigInvariant'
<1>1. /\ UNCHANGED <<teams, members, row, minted, held, up, ops, applied, file, table, had>> /\ up' \in BOOLEAN
      /\ legacy' \subseteq legacy /\ step' # "remap"
  BY DEF MoveRoster, MoveVoiceprints, MoveFile, Goto, MigInvariant, TeamsInvariant
<1>2. TeamsInvariant' /\ RollbackIsSound' /\ FilesAreSound'
  BY <1>1, SameTeams, SameRollback DEF MigInvariant, FilesAreSound
<1>3. /\ StepIsDue' /\ applied \in 0..1 /\ step \notin {"off", Start, "mark"} /\ step' = "mark"
      /\ (applied = 0 => step = "roster")
  BY DEF MigInvariant, StepIsDue, MoveRoster, MoveVoiceprints, Goto, Start, All, Uuid
<1>4. Arriving'
  <2> SUFFICES ASSUME ops = 0, had.rows \cup had.tokens # {}
               PROVE  Arriving'
    BY <1>1 DEF Arriving
  <2>1. TokensArrive /\ (applied = 0 => had.slug = Default) /\ (Unmade \/ (KeyedBySlug(teams, row) /\ ~Worked(Uuid)))
    BY <1>3, ArrivingFacts DEF Uuid
  <2>3. KeyedBySlug(teams, row)' /\ ~Worked(Uuid)'
    BY <1>1, <1>3, <2>1 DEF KeyedBySlug, InTeam, Worked, Uuid, Unmade
  <2>4. TokensArrive'
    BY <1>1, <1>3, <2>1 DEF TokensArrive, Worked, Belong
  <2> QED
    BY <1>1, <1>3, <2>1, <2>3, <2>4 DEF Arriving
<1> QED
  BY <1>2, <1>3, <1>4 DEF MigInvariant

\* Both older migrations make the team of single-team data, unless it is there.
LEMMA LegacyTeamFacts ==
  ASSUME MigInvariant
  PROVE  /\ WithLegacyTeam = [id \in DOMAIN WithLegacyTeam |-> WithLegacyTeam[id]]
         /\ DOMAIN teams \subseteq DOMAIN WithLegacyTeam /\ DOMAIN WithLegacyTeam \subseteq DOMAIN teams \cup {Default}
         /\ \A id \in DOMAIN WithLegacyTeam : id \in Ids /\ Minted(id)
         /\ DOMAIN teams = {} => DOMAIN WithLegacyTeam = {Default} /\ WithLegacyTeam[Default] = None
         /\ Default \in DOMAIN teams => WithLegacyTeam = teams
<1>1. Default \in Ids /\ Default \notin Uuids
  BY SlugFacts DEF MigInvariant
<1>2. PICK t : t = WithLegacyTeam
  OBVIOUS
<1>3. t = teams \/ t = [z \in DOMAIN teams \cup {Default} |-> IF z = Default THEN None ELSE teams[z]]
  BY <1>2 DEF WithLegacyTeam, With
<1>4. DOMAIN teams = {} => t = [z \in DOMAIN teams \cup {Default} |-> IF z = Default THEN None ELSE teams[z]]
  BY <1>2 DEF WithLegacyTeam, With, Keys
<1>5. Default \in DOMAIN teams => t = teams
  BY <1>2 DEF WithLegacyTeam, Keys
<1>6. teams = [id \in DOMAIN teams |-> teams[id]] /\ \A id \in DOMAIN teams : id \in Ids /\ Minted(id)
  BY DEF MigInvariant, TeamsInvariant
<1>7. Minted(Default)
  BY <1>1 DEF Minted
<1>8. t = [id \in DOMAIN t |-> t[id]] /\ DOMAIN teams \subseteq DOMAIN t /\ DOMAIN t \subseteq DOMAIN teams \cup {Default}
  BY <1>3, <1>6
<1> QED
  BY <1>1, <1>2, <1>4, <1>5, <1>6, <1>7, <1>8

LEMMA VoiceprintTeamStep ==
  ASSUME MigInvariant, VoiceprintTeam
  PROVE  MigInvariant'
<1>1. /\ UNCHANGED <<members, row, minted, held, up, ops, applied, tx, file, table, legacy, had>>
      /\ teams' = IF "voices" \in legacy THEN WithLegacyTeam ELSE teams
  BY DEF VoiceprintTeam
<1>2. /\ StepIsDue' /\ applied = 1 /\ step = Start /\ step' = "voices"
  BY DEF MigInvariant, StepIsDue, VoiceprintTeam, At, Goto, Start, All, Uuid
<1>3. /\ teams' = [id \in DOMAIN teams' |-> teams'[id]]
      /\ \A id \in DOMAIN teams' : id \in Ids /\ Minted(id)
  BY <1>1, LegacyTeamFacts DEF MigInvariant, TeamsInvariant
<1>4. TeamsInvariant'
  <2>1. \A x : Minted(x)' <=> Minted(x)
    BY <1>1 DEF Minted
  <2>2. \A a \in Actors : CarriedIsSound(held[a])'
    BY <1>1 DEF MigInvariant, TeamsInvariant, CarriedIsSound, Minted
  <2> QED
    BY <1>1, <1>3, <2>1, <2>2 DEF MigInvariant, TeamsInvariant
<1>5. RollbackIsSound' /\ FilesAreSound'
  BY <1>1, <1>2 DEF MigInvariant, RollbackIsSound, FilesAreSound
<1>6. Arriving'
  <2> SUFFICES ASSUME ops = 0, had.rows \cup had.tokens # {}
               PROVE  Arriving'
    BY <1>1 DEF Arriving
  <2>1. TokensArrive /\ (Unmade \/ (KeyedBySlug(teams, row) /\ ~Worked(Uuid)))
    BY <1>2, ArrivingFacts DEF Uuid
  <2>2. KeyedBySlug(teams, row)
    BY <1>2, <2>1 DEF Unmade
  <2>3. teams' = teams
    BY <1>1, <2>2, LegacyTeamFacts DEF KeyedBySlug, InTeam, MigInvariant, FilesAreSound
  <2>4. KeyedBySlug(teams, row)' /\ ~Worked(Uuid)'
    BY <1>1, <1>2, <2>2, <2>3 DEF KeyedBySlug, InTeam, Worked, Uuid
  <2>5. TokensArrive'
    BY <1>1, <1>2, <2>1, <2>3 DEF TokensArrive, Worked, Belong, Start
  <2> QED
    BY <1>1, <1>2, <2>4, <2>5 DEF Arriving
<1> QED
  BY <1>2, <1>4, <1>5, <1>6 DEF MigInvariant

LEMMA BackfillJobsStep ==
  ASSUME MigInvariant, BackfillJobs
  PROVE  MigInvariant'
<1> DEFINE old == Rows(None) # {} \/ Unassigned # {} \/ "roster" \in legacy
<1>1. /\ UNCHANGED <<members, minted, held, up, ops, applied, tx, file, table, legacy, had>>
      /\ teams' = IF old THEN WithLegacyTeam ELSE teams
      /\ row' = [s \in DOMAIN row |-> IF row[s] = None THEN Default ELSE row[s]]
      /\ applied = 0 /\ step = Start /\ step' = IF old THEN "tokens" ELSE "mark"
  BY DEF BackfillJobs, At, Goto
<1> HIDE DEF old
<1>2. StepIsDue' /\ step' # "remap"
  BY <1>1 DEF MigInvariant, StepIsDue, Start, All, Uuid
<1>3. /\ teams' = [id \in DOMAIN teams' |-> teams'[id]]
      /\ \A id \in DOMAIN teams' : id \in Ids /\ Minted(id)
  BY <1>1, LegacyTeamFacts DEF MigInvariant, TeamsInvariant
<1>4. TeamsInvariant'
  <2>1. \A x : Minted(x)' <=> Minted(x)
    BY <1>1 DEF Minted
  <2>2. \A a \in Actors : CarriedIsSound(held[a])'
    BY <1>1 DEF MigInvariant, TeamsInvariant, CarriedIsSound, Minted
  <2>3. Minted(Default)
    BY SlugsAreMinted, MigrationsAssumption
  <2>4. row' = [s \in DOMAIN row' |-> row'[s]] /\ \A s \in DOMAIN row' : Minted(row'[s])
    BY <1>1, <2>3 DEF MigInvariant, TeamsInvariant
  <2>5. \A s \in DOMAIN row' : Minted(row[s])'
    BY <2>1, <2>4
  <2> QED
    BY <1>1, <1>3, <2>1, <2>2, <2>4, <2>5 DEF MigInvariant, TeamsInvariant
<1>5. RollbackIsSound' /\ FilesAreSound'
  BY <1>1, <1>2 DEF MigInvariant, RollbackIsSound, FilesAreSound
<1>6. Arriving'
  <2> SUFFICES ASSUME ops = 0, had.rows \cup had.tokens # {}
               PROVE  Arriving'
    BY <1>1 DEF Arriving
  <2>1. TokensArrive /\ had.slug = Default /\ (Unmade \/ KeyedBySlug(teams, row))
    BY <1>1, ArrivingFacts DEF Uuid
  <2>2. Default # None
    BY SlugFacts DEF MigInvariant
  <2>3. KeyedBySlug(teams, row)'
    <3>1. CASE Unmade
      <4>1. old
        BY <3>1 DEF Unmade, old, Rows, Unassigned
      <4>2. DOMAIN teams' = {Default} /\ teams'[Default] = None
        BY <1>1, <3>1, <4>1, LegacyTeamFacts DEF Unmade
      <4>3. DOMAIN row' = had.rows /\ \A s \in had.rows : row'[s] = Default
        BY <1>1, <3>1 DEF Unmade
      <4> QED
        BY <1>1, <2>1, <4>2, <4>3 DEF KeyedBySlug, InTeam
    <3>2. CASE KeyedBySlug(teams, row)
      <4>1. Default \in DOMAIN teams
        BY <2>1, <3>2 DEF KeyedBySlug, InTeam
      <4>2. teams' = teams
        BY <1>1, <4>1, LegacyTeamFacts
      <4>3. DOMAIN row' = had.rows /\ \A s \in had.rows : row'[s] = Default
        BY <1>1, <2>1, <2>2, <3>2 DEF KeyedBySlug, InTeam
      <4> QED
        BY <1>1, <2>1, <3>2, <4>2, <4>3 DEF KeyedBySlug, InTeam
    <3> QED
      BY <2>1, <3>1, <3>2
  <2>4. ~Worked(Uuid)'
    BY <1>1 DEF Worked, Uuid
  <2>5. TokensArrive'
    <3>1. ~old => \A k \in DOMAIN file : file[k] # None
      BY DEF old, Unassigned
    <3> QED
      BY <1>1, <2>1, <3>1 DEF TokensArrive, Worked, Belong, Start
  <2> QED
    BY <1>1, <1>2, <2>1, <2>3, <2>4, <2>5 DEF Arriving
<1> QED
  BY <1>2, <1>4, <1>5, <1>6 DEF MigInvariant

\* Without a transaction there is nothing to roll back.
LEMMA BackfillMembershipsStep ==
  ASSUME MigInvariant, BackfillMemberships
  PROVE  MigInvariant'
<1>1. /\ UNCHANGED <<teams, row, minted, held, up, ops, applied, file, table, legacy, had>>
      /\ applied = 2 /\ step = Start
      /\ \/ members' = members /\ step' = "off"
         \/ /\ \A m \in TeamsOfTokens : Live(m[2])
            /\ members' = members \cup TeamsOfTokens /\ step' = "strip"
  BY DEF BackfillMemberships, Fails, At, Goto, MigInvariant, StepIsDue, Start
<1>2. StepIsDue' /\ step' # "remap"
  BY <1>1 DEF MigInvariant, StepIsDue, Start, All, Uuid
<1>3. /\ members' \subseteq Handles \X Ids /\ \A m \in members' : Minted(m[2])
  <2>1. TeamsOfTokens \subseteq Handles \X Ids
    BY MigrationsAssumption DEF TeamsOfTokens, MigInvariant, FilesAreSound
  <2>2. \A m \in TeamsOfTokens : Live(m[2]) => Minted(m[2])
    BY DEF MigInvariant, TeamsInvariant, Live
  <2> QED
    BY <1>1, <2>1, <2>2 DEF MigInvariant, TeamsInvariant
<1>4. TeamsInvariant'
  <2>1. \A x : Minted(x)' <=> Minted(x)
    BY <1>1 DEF Minted
  <2>2. \A a \in Actors : CarriedIsSound(held[a])'
    BY <1>1 DEF MigInvariant, TeamsInvariant, CarriedIsSound, Minted
  <2> QED
    BY <1>1, <1>3, <2>1, <2>2 DEF MigInvariant, TeamsInvariant
<1>5. RollbackIsSound' /\ FilesAreSound'
  BY <1>1, <1>2 DEF MigInvariant, RollbackIsSound, FilesAreSound
<1>6. Arriving'
  <2> SUFFICES ASSUME ops = 0, had.rows \cup had.tokens # {}
               PROVE  Arriving'
    BY <1>1 DEF Arriving
  <2>1. TokensArrive /\ KeyedBySlug(teams, row)
    BY <1>1, ArrivingFacts DEF Uuid, Unmade
  <2>2. KeyedBySlug(teams, row)' /\ ~Worked(Uuid)'
    BY <1>1, <2>1 DEF KeyedBySlug, InTeam, Worked, Uuid
  <2>3. ~Worked(2)' /\ Worked(0) /\ ~Worked(3)' /\ step' # "rename"
    BY <1>1 DEF Worked
  <2>4. step' = "strip" => \A id \in DOMAIN teams : Belong(members, id)'
    <3> SUFFICES ASSUME step' = "strip", NEW k \in had.tokens
                 PROVE  <<Owner[k], had.slug>> \in members'
      BY <1>1, <2>1 DEF KeyedBySlug, InTeam, Belong
    <3>1. k \in DOMAIN file /\ (file[k] = had.slug \/ <<Owner[k], had.slug>> \in members)
      BY <1>1, <2>1, <2>3 DEF TokensArrive
    <3>2. had.slug \in Ids
      BY SlugFacts DEF MigInvariant
    <3>3. file[k] = had.slug => <<Owner[k], had.slug>> \in TeamsOfTokens
      BY <3>1, <3>2 DEF TeamsOfTokens
    <3> QED
      BY <1>1, <3>1, <3>3
  <2>5. TokensArrive'
    BY <1>1, <2>1, <2>3, <2>4 DEF TokensArrive, Worked, Start, Belong
  <2> QED
    BY <1>1, <1>2, <2>2, <2>5 DEF Arriving
<1> QED
  BY <1>2, <1>4, <1>5, <1>6 DEF MigInvariant

LEMMA UuidBeginStep ==
  ASSUME MigInvariant, UuidBegin
  PROVE  MigInvariant'
<1>1. /\ UNCHANGED <<teams, members, row, minted, held, up, ops, applied, file, table, legacy, had>>
      /\ applied = 4 /\ step = Start /\ step' = "remap"
      /\ tx' = [teams |-> teams, row |-> row, members |-> members]
  BY DEF UuidBegin, At, Goto, Uuid, teamVars
<1>2. tx'.teams = teams /\ tx'.row = row /\ tx'.members = members
  BY <1>1
<1>3. TeamsInvariant' /\ FilesAreSound'
  BY <1>1, SameTeams DEF MigInvariant, FilesAreSound, TeamsInvariant
<1>5. StepIsDue'
  BY <1>1 DEF MigInvariant, StepIsDue, Start, All, Uuid
<1>6. RollbackIsSound'
  BY <1>1, <1>2 DEF MigInvariant, TeamsInvariant, RollbackIsSound, Minted, Live
<1>7. Arriving'
  <2> SUFFICES ASSUME ops = 0, had.rows \cup had.tokens # {}
               PROVE  Arriving'
    BY <1>1 DEF Arriving
  <2>1. /\ TokensArrive /\ (KeyedBySlug(teams, row) \/ KeyedByUuid(teams, row))
        /\ (KeyedBySlug(teams, row) /\ ~Worked(Uuid)) \/ (KeyedByUuid(teams, row) /\ applied >= Uuid)
    BY <1>1, ArrivingFacts DEF Unmade
  <2>2. /\ KeyedBySlug(teams, row) => KeyedBySlug(teams, row)' /\ KeyedBySlug(tx.teams, tx.row)'
        /\ KeyedByUuid(teams, row) => KeyedByUuid(teams, row)' /\ KeyedByUuid(tx.teams, tx.row)'
    BY <1>1, <1>2 DEF KeyedBySlug, KeyedByUuid, InTeam
  <2>3. (KeyedBySlug(teams, row)' /\ ~Worked(Uuid)') \/ (KeyedByUuid(teams, row)' /\ applied' >= Uuid)
    BY <1>1, <2>1, <2>2 DEF Worked, Uuid
  <2>4. TokensArrive' /\ \A id \in DOMAIN teams : Belong(members, id)
    BY <1>1, <2>1 DEF TokensArrive, Worked, Belong, Start
  <2>5. \A id \in DOMAIN tx'.teams : Belong(tx.members, id)'
    BY <1>1, <1>2, <2>4 DEF Belong
  <2> QED
    BY <1>1, <2>1, <2>2, <2>3, <2>4, <2>5 DEF Arriving
<1> QED
  BY <1>3, <1>5, <1>6, <1>7 DEF MigInvariant

LEMMA UuidCommitStep ==
  ASSUME MigInvariant, UuidCommit
  PROVE  MigInvariant'
<1>1. /\ UNCHANGED <<teams, members, row, minted, held, up, ops, applied, file, table, legacy, had>>
      /\ step = "remap" /\ applied = 4 /\ step' = "mark"
      /\ \A id \in DOMAIN teams : teams[id] # None
  BY DEF UuidCommit, Goto, Uuid, teamVars, MigInvariant, StepIsDue
<1>2. TeamsInvariant' /\ FilesAreSound'
  BY <1>1, SameTeams DEF MigInvariant, FilesAreSound, TeamsInvariant
<1>3. StepIsDue' /\ RollbackIsSound'
  BY <1>1 DEF MigInvariant, StepIsDue, RollbackIsSound, Start, All, Uuid
<1>4. Arriving'
  <2> SUFFICES ASSUME ops = 0, had.rows \cup had.tokens # {}
               PROVE  Arriving'
    BY <1>1 DEF Arriving
  <2>1. TokensArrive /\ (KeyedBySlug(teams, row) \/ KeyedByUuid(teams, row))
    BY <1>1, ArrivingFacts DEF Unmade
  <2>2. ~KeyedBySlug(teams, row)
    BY <1>1 DEF KeyedBySlug, InTeam
  <2>5. KeyedByUuid(teams, row) => KeyedByUuid(teams, row)'
    BY <1>1 DEF KeyedByUuid, InTeam
  <2>3. KeyedByUuid(teams, row)' /\ applied' >= Uuid
    BY <1>1, <2>1, <2>2, <2>5 DEF Uuid
  <2>4. TokensArrive'
    BY <1>1, <2>1 DEF TokensArrive, Worked, Belong
  <2> QED
    BY <1>1, <2>3, <2>4 DEF Arriving
<1> QED
  BY <1>2, <1>3, <1>4 DEF MigInvariant

\* A failed migration and a crash leave the tables, or restore them.
LEMMA FailFacts ==
  ASSUME MigInvariant, Fails, UNCHANGED minted
  PROVE  /\ step' = "off"
         /\ teams' = [id \in DOMAIN teams' |-> teams'[id]] /\ \A id \in DOMAIN teams' : id \in Ids /\ Minted(id)'
         /\ row' = [s \in DOMAIN row' |-> row'[s]] /\ \A s \in DOMAIN row' : Minted(row[s])'
         /\ members' \subseteq Handles \X Ids /\ \A m \in members' : Minted(m[2])'
<1>1. \A x : Minted(x)' <=> Minted(x)
  BY DEF Minted
<1>2. CASE step = "remap"
  <2>1. /\ tx.teams = [id \in DOMAIN tx.teams |-> tx.teams[id]]
        /\ \A id \in DOMAIN tx.teams : id \in Ids /\ Minted(id)
        /\ tx.row = [s \in DOMAIN tx.row |-> tx.row[s]] /\ \A s \in DOMAIN tx.row : Minted(tx.row[s])
        /\ tx.members \subseteq Handles \X Ids /\ \A m \in tx.members : Minted(m[2])
    BY <1>2 DEF MigInvariant, RollbackIsSound
  <2>2. teams' = tx.teams /\ row' = tx.row /\ members' = tx.members /\ step' = "off"
    BY <1>2 DEF Fails
  <2> QED
    BY <1>1, <2>1, <2>2
<1>3. CASE step # "remap"
  <2>1. teams' = teams /\ row' = row /\ members' = members /\ step' = "off"
    BY <1>3 DEF Fails
  <2> QED
    BY <1>1, <2>1 DEF MigInvariant, TeamsInvariant
<1> QED
  BY <1>2, <1>3

\* What had arrived before the step that fails has arrived after it.
LEMMA FailArrives ==
  ASSUME MigInvariant, Fails, step # "off", UNCHANGED <<ops, had, applied, file, table>>
  PROVE  Arriving'
<1> SUFFICES ASSUME ops = 0, had.rows \cup had.tokens # {}
             PROVE  Arriving'
  BY DEF Arriving
<1>1. step' = "off" /\ StepIsDue
  BY DEF Fails, MigInvariant
<1>2. /\ TokensArrive /\ (applied = 0 => had.slug = Default) /\ applied \in 0..6
      /\ Unmade \/ (KeyedBySlug(teams, row) /\ ~Worked(Uuid)) \/ (KeyedByUuid(teams, row) /\ applied >= Uuid)
  BY ArrivingFacts
<1>3. CASE step = "remap"
  <2>1. applied = 4 /\ teams' = tx.teams /\ row' = tx.row /\ members' = tx.members
    BY <1>1, <1>3 DEF StepIsDue, Uuid, Fails
  <2>2. /\ KeyedBySlug(tx.teams, tx.row) \/ KeyedByUuid(tx.teams, tx.row)
        /\ \A id \in DOMAIN tx.teams : Belong(tx.members, id)
    BY <1>3 DEF MigInvariant, Arriving
  <2>3. KeyedBySlug(tx.teams, tx.row) => KeyedBySlug(teams, row)'
    BY <2>1 DEF KeyedBySlug, InTeam
  <2>4. KeyedByUuid(tx.teams, tx.row) => KeyedByUuid(teams, row)'
    BY <2>1 DEF KeyedByUuid, InTeam
  <2>5. ~Worked(Uuid)' /\ applied' >= Uuid
    BY <1>1, <2>1 DEF Worked, Uuid
  <2>6. \A id \in DOMAIN teams' : Belong(members, id)'
    BY <2>1, <2>2 DEF Belong
  <2>7. TokensArrive'
    BY <1>1, <1>2, <2>1, <2>6 DEF TokensArrive, Worked
  <2> QED
    BY <1>1, <2>1, <2>2, <2>3, <2>4, <2>5, <2>7 DEF Arriving
<1>4. CASE step # "remap"
  <2>1. teams' = teams /\ row' = row /\ members' = members
    BY <1>4 DEF Fails
  <2>2. Unmade => Unmade'
    BY <1>1, <2>1 DEF Unmade
  <2>3. KeyedBySlug(teams, row) => KeyedBySlug(teams, row)'
    BY <2>1 DEF KeyedBySlug, InTeam
  <2>4. KeyedByUuid(teams, row) => KeyedByUuid(teams, row)'
    BY <2>1 DEF KeyedByUuid, InTeam
  <2>5. (~Worked(Uuid) => ~Worked(Uuid)') /\ (applied >= Uuid => applied' >= Uuid)
    BY <1>1, <1>2 DEF Worked, Uuid
  <2>7. TokensArrive'
    BY <1>1, <1>2, <2>1 DEF TokensArrive, Worked, Belong
  <2> QED
    BY <1>1, <1>2, <2>2, <2>3, <2>4, <2>5, <2>7 DEF Arriving
<1> QED
  BY <1>3, <1>4

LEMMA CrashStep ==
  ASSUME MigInvariant, Crash
  PROVE  MigInvariant'
<1>1. /\ Fails /\ step # "off" /\ up' = FALSE /\ held' = [held EXCEPT !["api"] = Idle, !["upload"] = Idle]
      /\ UNCHANGED <<minted, ops, applied, file, table, legacy, had>>
  BY DEF Crash
<1>2. step' = "off"
  BY <1>1, FailFacts
<1>3. StepIsDue' /\ RollbackIsSound' /\ FilesAreSound'
  BY <1>1, <1>2 DEF MigInvariant, StepIsDue, RollbackIsSound, FilesAreSound
<1>4. Arriving'
  BY <1>1, FailArrives
<1>5. /\ held' = [a \in Actors |-> held'[a]] /\ \A a \in Actors : CarriedIsSound(held[a])'
      /\ ops = 0 => \A a \in Actors : held'[a] = Idle
  <2>1. held' = [a \in Actors |-> IF a \in {"api", "upload"} THEN Idle ELSE held[a]]
    BY <1>1 DEF MigInvariant, TeamsInvariant, Actors
  <2>2. ASSUME NEW a \in Actors PROVE CarriedIsSound(held[a])'
    <3>1. PICK h : h = held'[a]
      OBVIOUS
    <3>2. CarriedIsSound(h)
      BY <2>1, <3>1, IdleFacts DEF MigInvariant, TeamsInvariant
    <3> QED
      BY <1>1, <3>1, <3>2 DEF CarriedIsSound, Minted
  <2> QED
    BY <2>1, <2>2 DEF MigInvariant, TeamsInvariant
<1>6. TeamsInvariant'
  <2>1. minted' \subseteq Uuids /\ up' \in BOOLEAN /\ ops' \in Nat
    BY <1>1 DEF MigInvariant, TeamsInvariant
  <2> QED
    BY <1>1, <1>5, <2>1, FailFacts DEF TeamsInvariant
<1> QED
  BY <1>3, <1>4, <1>6 DEF MigInvariant

\* A team that is keyed by its slug gets a uuid that nobody has.
LEMMA RemapFacts ==
  ASSUME MigInvariant, NEW id \in Ids, Remap(id), ~SlugTaken(id, None)
  PROVE  /\ step = "remap" /\ id \in DOMAIN teams /\ teams[id] = None
         /\ UNCHANGED <<step, tx, held, up, ops, applied, file, table, legacy, had>>
         /\ \E u \in Uuids :
              /\ u \notin minted /\ minted' = minted \cup {u}
              /\ teams' = [z \in (DOMAIN teams \ {id}) \cup {u} |-> IF z = u THEN id ELSE teams[z]]
              /\ row' = [s \in DOMAIN row |-> IF row[s] = id THEN u ELSE row[s]]
              /\ members' = {<<m[1], IF m[2] = id THEN u ELSE m[2]>> : m \in members}
<1>1. Fresh \in Uuids /\ Fresh \notin minted
  BY FreshFacts DEF Remap, MigInvariant, TeamsInvariant
<1>2. PICK u : u = Fresh
  OBVIOUS
<1>3. Repoint(id, u) /\ minted' = minted \cup {u}
  BY <1>2 DEF Remap
<1>4. PICK t : t = Restrict(teams, DOMAIN teams \ {id})
  OBVIOUS
<1>5. DOMAIN t = DOMAIN teams \ {id} /\ \A z \in DOMAIN t : t[z] = teams[z]
  BY <1>4 DEF Restrict
<1>6. teams' = [z \in (DOMAIN teams \ {id}) \cup {u} |-> IF z = u THEN id ELSE t[z]]
  BY <1>3, <1>4, <1>5 DEF Repoint, With
<1>7. teams' = [z \in (DOMAIN teams \ {id}) \cup {u} |-> IF z = u THEN id ELSE teams[z]]
  BY <1>5, <1>6
<1>8. /\ step = "remap" /\ id \in DOMAIN teams /\ teams[id] = None
      /\ UNCHANGED <<step, tx, held, up, ops, applied, file, table, legacy, had>>
  BY DEF Remap, Live
<1>9. /\ row' = [s \in DOMAIN row |-> IF row[s] = id THEN u ELSE row[s]]
      /\ members' = {<<m[1], IF m[2] = id THEN u ELSE m[2]>> : m \in members}
  BY <1>3 DEF Repoint
<1> QED
  BY <1>1, <1>2, <1>3, <1>7, <1>8, <1>9

LEMMA RemapStep ==
  ASSUME MigInvariant, NEW id \in Ids, Remap(id)
  PROVE  MigInvariant'
<1>1. CASE SlugTaken(id, None)
  <2>1. Fails /\ UNCHANGED <<minted, held, up, ops, applied, file, table, legacy, had>> /\ step = "remap"
    BY <1>1 DEF Remap
  <2>2. step' = "off"
    BY <2>1, FailFacts
  <2>3. StepIsDue' /\ RollbackIsSound' /\ FilesAreSound'
    BY <2>1, <2>2 DEF MigInvariant, StepIsDue, RollbackIsSound, FilesAreSound
  <2>4. Arriving'
    BY <2>1, FailArrives
  <2>5. \A a \in Actors : CarriedIsSound(held[a])'
    BY <2>1 DEF MigInvariant, TeamsInvariant, CarriedIsSound, Minted
  <2>6. TeamsInvariant'
    <3>1. minted' \subseteq Uuids /\ up' \in BOOLEAN /\ ops' \in Nat /\ held' = [a \in Actors |-> held'[a]]
          /\ (ops' = 0 => \A a \in Actors : held'[a] = Idle)
      BY <2>1 DEF MigInvariant, TeamsInvariant
    <3> QED
      BY <2>1, <2>5, <3>1, FailFacts DEF TeamsInvariant
  <2> QED
    BY <2>3, <2>4, <2>6 DEF MigInvariant
<1>2. CASE ~SlugTaken(id, None)
  <2>1. /\ step = "remap" /\ id \in DOMAIN teams /\ teams[id] = None
        /\ UNCHANGED <<step, tx, held, up, ops, applied, file, table, legacy, had>>
    BY <1>2, RemapFacts
  <2>2. PICK u \in Uuids :
          /\ u \notin minted /\ minted' = minted \cup {u}
          /\ teams' = [z \in (DOMAIN teams \ {id}) \cup {u} |-> IF z = u THEN id ELSE teams[z]]
          /\ row' = [s \in DOMAIN row |-> IF row[s] = id THEN u ELSE row[s]]
          /\ members' = {<<m[1], IF m[2] = id THEN u ELSE m[2]>> : m \in members}
    BY <1>2, RemapFacts
  <2>3. (\A x : Minted(x) => Minted(x)') /\ Minted(u)' /\ u \in Ids
    BY <2>2 DEF Minted, Ids
  <2>4. StepIsDue' /\ FilesAreSound'
    BY <2>1 DEF MigInvariant, StepIsDue, FilesAreSound
  <2>5. TeamsInvariant'
    <3>1. \A z \in DOMAIN teams' : z \in Ids /\ Minted(z)'
      BY <2>2, <2>3 DEF MigInvariant, TeamsInvariant
    <3>2. \A s \in DOMAIN row' : Minted(row[s])'
      <4>1. \A s \in DOMAIN row : Minted(row[s])
        BY DEF MigInvariant, TeamsInvariant
      <4>2. \A s \in DOMAIN row' : s \in DOMAIN row /\ (row'[s] = u \/ row'[s] = row[s])
        BY <2>2
      <4> QED
        BY <2>3, <4>1, <4>2 DEF Minted
    <3>3. members' \subseteq Handles \X Ids /\ \A m \in members' : Minted(m[2])'
      BY <2>2, <2>3 DEF MigInvariant, TeamsInvariant
    <3>4. \A a \in Actors : CarriedIsSound(held[a])'
      <4> SUFFICES ASSUME NEW a \in Actors PROVE CarriedIsSound(held[a])'
        OBVIOUS
      <4>1. PICK h : h = held[a]
        OBVIOUS
      <4>2. CarriedIsSound(h)' /\ held'[a] = h
        BY <2>1, <2>2, <4>1, MintedGrows DEF MigInvariant, TeamsInvariant
      <4> QED
        BY <4>2 DEF CarriedIsSound
    <3>5. teams' = [z \in DOMAIN teams' |-> teams'[z]] /\ row' = [s \in DOMAIN row' |-> row'[s]]
      BY <2>2
    <3>6. minted' \subseteq Uuids /\ up' \in BOOLEAN /\ ops' \in Nat /\ held' = [a \in Actors |-> held'[a]]
          /\ (ops' = 0 => \A a \in Actors : held'[a] = Idle)
      BY <2>1, <2>2 DEF MigInvariant, TeamsInvariant
    <3> QED
      BY <3>1, <3>2, <3>3, <3>4, <3>5, <3>6 DEF TeamsInvariant
  <2>6. RollbackIsSound'
    <3>1. PICK tt, tr, tm : tt = tx.teams /\ tr = tx.row /\ tm = tx.members
      OBVIOUS
    <3>2. /\ tt = [z \in DOMAIN tt |-> tt[z]] /\ \A z \in DOMAIN tt : z \in Ids /\ Minted(z)
          /\ tr = [s \in DOMAIN tr |-> tr[s]] /\ DOMAIN tr = DOMAIN row
          /\ \A s \in DOMAIN tr : Minted(tr[s]) /\ (tr[s] \notin DOMAIN tt => row[s] \notin DOMAIN teams)
          /\ tm \subseteq Handles \X Ids /\ \A m \in tm : Minted(m[2])
      BY <2>1, <3>1 DEF MigInvariant, RollbackIsSound, Live
    <3>3. \A s \in DOMAIN row : Minted(row[s])
      BY DEF MigInvariant, TeamsInvariant
    <3>4. \A s \in DOMAIN tr : tr[s] \notin DOMAIN tt => row'[s] \notin DOMAIN teams'
      BY <2>1, <2>2, <3>2, <3>3 DEF Minted
    <3>5. tx'.teams = tt /\ tx'.row = tr /\ tx'.members = tm /\ DOMAIN row' = DOMAIN row
      BY <2>1, <2>2, <3>1
    <3> QED
      BY <2>3, <3>2, <3>4, <3>5 DEF RollbackIsSound, Live
  <2>7. Arriving'
    <3> SUFFICES ASSUME ops = 0, had.rows \cup had.tokens # {}
                 PROVE  Arriving'
      BY <2>1 DEF Arriving
    <3>1. applied = 4
      BY <2>1 DEF MigInvariant, StepIsDue, Uuid
    <3>2. /\ TokensArrive /\ (KeyedBySlug(teams, row) \/ KeyedByUuid(teams, row))
      BY <3>1, ArrivingFacts DEF Unmade
    <3>3. ~KeyedByUuid(teams, row)
      BY <2>1, SlugFacts DEF KeyedByUuid, InTeam, MigInvariant
    <3>4. DOMAIN teams = {had.slug} /\ id = had.slug /\ DOMAIN row = had.rows /\ \A s \in had.rows : row[s] = id
      BY <2>1, <3>2, <3>3 DEF KeyedBySlug, InTeam
    <3>5. DOMAIN teams' = {u} /\ teams'[u] = had.slug /\ DOMAIN row' = had.rows /\ \A s \in had.rows : row'[s] = u
      BY <2>2, <3>4
    <3>6. KeyedByUuid(teams, row)'
      BY <2>1, <3>5 DEF KeyedByUuid, InTeam
    <3>7. \A k \in had.tokens : <<Owner[k], id>> \in members
      BY <3>1, <3>2, <3>4 DEF TokensArrive, Worked, Belong
    <3>8. ASSUME NEW k \in had.tokens PROVE <<Owner[k], u>> \in members'
      <4>1. PICK m \in members : m = <<Owner[k], id>>
        BY <3>7
      <4>2. m[1] = Owner[k] /\ m[2] = id
        BY <4>1
      <4>3. <<m[1], IF m[2] = id THEN u ELSE m[2]>> \in members'
        BY <2>2
      <4> QED
        BY <4>2, <4>3
    <3>9. TokensArrive'
      <4>1. \A z \in DOMAIN teams' : Belong(members, z)'
        BY <2>1, <3>5, <3>8 DEF Belong
      <4> QED
        BY <2>1, <3>1, <3>2, <4>1 DEF TokensArrive, Worked
    <3>10. (KeyedBySlug(tx.teams, tx.row) \/ KeyedByUuid(tx.teams, tx.row)) /\ \A z \in DOMAIN tx.teams : Belong(tx.members, z)
      BY <2>1 DEF MigInvariant, Arriving
    <3>11. (KeyedBySlug(tx.teams, tx.row) \/ KeyedByUuid(tx.teams, tx.row))' /\ (\A z \in DOMAIN tx.teams : Belong(tx.members, z))'
      <4>1. tx' = tx /\ had' = had
        BY <2>1
      <4>2. KeyedBySlug(tx.teams, tx.row) => KeyedBySlug(tx.teams, tx.row)'
        BY <4>1 DEF KeyedBySlug, InTeam
      <4>3. KeyedByUuid(tx.teams, tx.row) => KeyedByUuid(tx.teams, tx.row)'
        BY <4>1 DEF KeyedByUuid, InTeam
      <4> QED
        BY <3>10, <4>1, <4>2, <4>3 DEF Belong
    <3> QED
      BY <2>1, <3>1, <3>6, <3>9, <3>11 DEF Arriving, Uuid
  <2> QED
    BY <2>4, <2>5, <2>6, <2>7 DEF MigInvariant
<1> QED
  BY <1>1, <1>2

(***************************************************************************)
(* A data directory of any age.                                            *)
(***************************************************************************)

LEMMA DataFacts ==
  /\ Data("fresh") = [teams |-> NoFile, team |-> None, file |-> NoFile, table |-> {}, legacy |-> {}, applied |-> 0]
  /\ Data("single") = [teams |-> NoFile, team |-> None, file |-> [k \in Tokens |-> None], table |-> {},
                       legacy |-> Files, applied |-> 0]
  /\ Data("multi") = [teams |-> [id \in {Other} |-> None], team |-> Other, file |-> [k \in Tokens |-> Other],
                      table |-> {}, legacy |-> {}, applied |-> 2]
  /\ Data("members") = [teams |-> [id \in {Other} |-> None], team |-> Other, file |-> NoFile, table |-> Tokens,
                        legacy |-> {}, applied |-> 4]
  BY DEF Data

LEMMA InitSound == MigInit => MigInvariant
<1> SUFFICES ASSUME MigInit PROVE MigInvariant
  OBVIOUS
<1>1. PICK age \in Ages, ss \in SUBSET Sessions :
        LET d == Data(age)
            old == IF age = "fresh" THEN {} ELSE ss IN
        /\ teams = d.teams
        /\ row = [s \in old |-> d.team]
        /\ members = {<<Owner[k], d.team>> : k \in d.table}
        /\ file = d.file /\ table = d.table /\ legacy = d.legacy /\ applied = d.applied
        /\ had = [rows |-> old, tokens |-> DOMAIN d.file \cup d.table,
                  slug |-> IF age = "single" THEN Default ELSE Other]
        /\ minted = {} /\ held = [a \in Actors |-> Idle] /\ up = FALSE /\ ops = 0 /\ step = "off"
  BY DEF MigInit
<1>2. age \in {"fresh", "single", "multi", "members"}
  BY MigrationsAssumption
<1>3. /\ Other \in Ids /\ Other \notin Uuids /\ Other # None /\ None \notin Uuids /\ Other \in Slugs
  BY TeamsAssumption, MigrationsAssumption DEF Ids
<1>4. PICK old : old = IF age = "fresh" THEN {} ELSE ss
  OBVIOUS
<1>5. /\ minted = {} /\ held = [a \in Actors |-> Idle] /\ up = FALSE /\ ops = 0 /\ step = "off"
  BY <1>1
<1>6. /\ StepIsDue /\ RollbackIsSound
  BY <1>1, <1>2, DataFacts DEF StepIsDue, RollbackIsSound, Start, All, Uuid
<1>7. /\ had.rows = old /\ had.slug = (IF age = "single" THEN Default ELSE Other)
      /\ had.tokens = DOMAIN Data(age).file \cup Data(age).table
      /\ row = [s \in old |-> Data(age).team] /\ teams = Data(age).teams /\ file = Data(age).file
      /\ table = Data(age).table /\ legacy = Data(age).legacy /\ applied = Data(age).applied
      /\ members = {<<Owner[k], Data(age).team>> : k \in Data(age).table}
  BY <1>1, <1>4
<1>8. TeamsInvariant /\ FilesAreSound /\ Arriving
  <2>0. (\A a \in Actors : CarriedIsSound(held[a])) /\ held = [a \in Actors |-> held[a]] /\ Minted(None) /\ Minted(Other)
    BY <1>3, <1>5, IdleFacts DEF Minted
  <2>1. CASE age = "fresh"
    <3>1. /\ teams = NoFile /\ row = [s \in {} |-> None] /\ members = {} /\ file = NoFile /\ legacy = {}
          /\ had.rows = {} /\ had.tokens = {} /\ had.slug = Other
      BY <1>4, <1>7, <2>1, DataFacts DEF NoFile
    <3> QED
      BY <1>5, <2>0, <3>1 DEF TeamsInvariant, FilesAreSound, Arriving, NoFile
  <2>2. CASE age = "single"
    <3>1. /\ teams = NoFile /\ row = [s \in old |-> None] /\ members = {} /\ file = [k \in Tokens |-> None]
          /\ had.rows = old /\ had.tokens = Tokens /\ had.slug = Default /\ applied = 0 /\ table = {}
      BY <1>4, <1>7, <2>2, DataFacts
    <3>2. TeamsInvariant /\ FilesAreSound
      BY <1>5, <2>0, <3>1 DEF TeamsInvariant, FilesAreSound, NoFile
    <3>3. Unmade
      BY <1>5, <3>1 DEF Unmade, NoFile
    <3>4. TokensArrive
      BY <1>5, <3>1 DEF TokensArrive, Worked
    <3> QED
      BY <1>5, <3>1, <3>2, <3>3, <3>4 DEF Arriving
  <2>3. CASE age = "multi"
    <3>1. /\ teams = [id \in {Other} |-> None] /\ row = [s \in old |-> Other] /\ members = {}
          /\ file = [k \in Tokens |-> Other] /\ legacy = {} /\ applied = 2 /\ table = {}
          /\ had.rows = old /\ had.tokens = Tokens /\ had.slug = Other
      BY <1>4, <1>7, <2>3, DataFacts
    <3>2. TeamsInvariant /\ FilesAreSound
      BY <1>3, <1>5, <2>0, <3>1 DEF TeamsInvariant, FilesAreSound
    <3>3. KeyedBySlug(teams, row) /\ ~Worked(Uuid)
      BY <1>5, <3>1 DEF KeyedBySlug, InTeam, Worked, Uuid
    <3>4. TokensArrive
      BY <1>5, <3>1 DEF TokensArrive, Worked
    <3> QED
      BY <1>5, <3>1, <3>2, <3>3, <3>4 DEF Arriving
  <2>4. CASE age = "members"
    <3>1. /\ teams = [id \in {Other} |-> None] /\ row = [s \in old |-> Other]
          /\ members = {<<Owner[k], Other>> : k \in Tokens}
          /\ file = NoFile /\ legacy = {} /\ applied = 4 /\ table = Tokens
          /\ had.rows = old /\ had.tokens = DOMAIN NoFile \cup Tokens /\ had.slug = Other
      BY <1>4, <1>7, <2>4, DataFacts
    <3>2. had.tokens = Tokens
      BY <3>1 DEF NoFile
    <3>6. members \subseteq Handles \X Ids /\ \A m \in members : m[2] = Other
      BY <1>3, <3>1, MigrationsAssumption
    <3>7. TeamsInvariant
      BY <1>3, <1>5, <2>0, <3>1, <3>6 DEF TeamsInvariant
    <3>3. TeamsInvariant /\ FilesAreSound
      BY <3>1, <3>2, <3>7 DEF FilesAreSound, NoFile
    <3>4. KeyedBySlug(teams, row) /\ ~Worked(Uuid)
      BY <1>5, <3>1 DEF KeyedBySlug, InTeam, Worked, Uuid
    <3>5. TokensArrive
      BY <1>5, <3>1, <3>2 DEF TokensArrive, Worked, Belong
    <3> QED
      BY <1>5, <3>1, <3>3, <3>4, <3>5 DEF Arriving
  <2> QED
    BY <1>2, <2>1, <2>2, <2>3, <2>4
<1> QED
  BY <1>6, <1>8 DEF MigInvariant

LEMMA NextSound == MigInvariant /\ [MigNext]_vars => MigInvariant'
<1> SUFFICES ASSUME MigInvariant, [MigNext]_vars PROVE MigInvariant'
  OBVIOUS
<1>1. CASE Migrate
  BY <1>1, BackfillJobsStep, TokenStep, FileStep, VoiceprintTeamStep, BackfillMembershipsStep, UuidBeginStep, RemapStep,
     UuidCommitStep, MarkStep DEF Migrate
<1>2. CASE UNCHANGED vars
  <2>1. UNCHANGED <<teams, members, row, minted, held, up, ops, applied, step, tx, file, table, legacy, had>>
    BY <1>2 DEF vars, teamVars, migVars
  <2>2. TeamsInvariant'
    BY <2>1, SameTeams DEF MigInvariant, TeamsInvariant
  <2>3. StepIsDue' /\ FilesAreSound'
    BY <2>1 DEF MigInvariant, StepIsDue, FilesAreSound
  <2>4. RollbackIsSound'
    BY <2>1 DEF MigInvariant, RollbackIsSound, Minted, Live
  <2>5. Arriving'
    BY <2>1 DEF MigInvariant, Arriving, TokensArrive, Unmade, KeyedBySlug, KeyedByUuid, InTeam, Belong, Worked
  <2> QED
    BY <2>2, <2>3, <2>4, <2>5 DEF MigInvariant
<1>3. CASE Boot \/ Crash \/ Work
  BY <1>3, MarkStep, CrashStep, WorkStep
<1> QED
  BY <1>1, <1>2, <1>3 DEF MigNext

LEMMA InvariantHolds == MigSpec => []MigInvariant
  BY InitSound, NextSound, PTL DEF MigSpec

\* migrations.py:20: after a start that was interrupted anywhere, however
\* often, the server serves every session in the team it was in, every token,
\* and its owner as a member: whatever the age of the data directory.
THEOREM DataArrivesWhole == MigSpec => []ArrivesWhole
<1>1. MigInvariant => ArrivesWhole
  <2> SUFFICES ASSUME MigInvariant, up, ops = 0 PROVE ArrivesWhole
    BY DEF ArrivesWhole
  <2>1. CASE had.rows \cup had.tokens = {}
    BY <2>1 DEF ArrivesWhole
  <2>2. CASE had.rows \cup had.tokens # {}
    <3>1. applied = 6 /\ step = "serving"
      BY DEF MigInvariant, StepIsDue, All
    <3>2. TokensArrive /\ KeyedByUuid(teams, row)
      BY <2>2, <3>1, ArrivingFacts DEF Unmade, Worked, Uuid
    <3>3. PICK u : DOMAIN teams = {u} /\ teams[u] = had.slug /\ DOMAIN row = had.rows /\ \A s \in had.rows : row[s] = u
      BY <3>2 DEF KeyedByUuid, InTeam
    <3>4. had.tokens \subseteq table /\ \A k \in had.tokens : <<Owner[k], u>> \in members
      BY <3>1, <3>2, <3>3 DEF TokensArrive, Worked, Belong
    <3>5. u \in Resolve(had.slug)
      BY <3>3 DEF Resolve
    <3> QED
      BY <3>3, <3>4, <3>5 DEF ArrivesWhole, Live, Member
  <2> QED
    BY <2>1, <2>2
<1> QED
  BY <1>1, InvariantHolds, PTL

(***************************************************************************)
(* Who takes a session's team away.                                        *)
(***************************************************************************)

\* The teams there were are there still, and every session is where it was.
LEMMA NoneMoves ==
  ASSUME NEW s, ~Orphan(s), DOMAIN teams \subseteq DOMAIN teams',
         DOMAIN row' \subseteq DOMAIN row, \A z \in DOMAIN row' : row'[z] = row[z]
  PROVE  ~Orphan(s)'
  BY DEF Orphan, Live

\* What a migration moves it moves to a team there is, and a rollback orphans
\* nothing that the transaction had not found orphaned.
LEMMA MigrationOrphansNone ==
  ASSUME MigInvariant, Migrate \/ Crash \/ Boot, NEW s, ~Orphan(s)
  PROVE  ~Orphan(s)'
<1>1. CASE BackfillJobs
  <2>1. /\ teams' = teams \/ teams' = WithLegacyTeam
        /\ row' = [z \in DOMAIN row |-> IF row[z] = None THEN Default ELSE row[z]]
    BY <1>1 DEF BackfillJobs
  <2>2. DOMAIN teams \subseteq DOMAIN teams'
    BY <2>1, LegacyTeamFacts
  <2>3. \A z \in DOMAIN row : row[z] = None => ~Live(row[z])
    BY TeamsAssumption DEF MigInvariant, TeamsInvariant, Live
  <2> QED
    BY <2>1, <2>2, <2>3 DEF Orphan, Live
<1>2. CASE VoiceprintTeam
  BY <1>2, LegacyTeamFacts, NoneMoves DEF VoiceprintTeam
<1>3. CASE Crash \/ (BackfillMemberships /\ Fails) \/ \E id \in Ids : Remap(id) /\ SlugTaken(id, None)
  <2>1. Fails /\ MigInvariant
    BY <1>3 DEF Crash, Remap
  <2>2. CASE step = "remap"
    <3>1. teams' = tx.teams /\ row' = tx.row
      BY <2>1, <2>2 DEF Fails
    <3> QED
      BY <2>2, <3>1 DEF MigInvariant, RollbackIsSound, Orphan, Live
  <2>3. CASE step # "remap"
    <3>1. teams' = teams /\ row' = row
      BY <2>1, <2>3 DEF Fails
    <3> QED
      BY <3>1, NoneMoves
  <2> QED
    BY <2>2, <2>3
<1>4. CASE \E id \in Ids : Remap(id) /\ ~SlugTaken(id, None)
  <2>1. PICK id \in Ids : Remap(id) /\ ~SlugTaken(id, None)
    BY <1>4
  <2>2. PICK u \in Uuids :
          /\ teams' = [z \in (DOMAIN teams \ {id}) \cup {u} |-> IF z = u THEN id ELSE teams[z]]
          /\ row' = [z \in DOMAIN row |-> IF row[z] = id THEN u ELSE row[z]]
    BY <2>1, RemapFacts, ZenonT(60)
  <2> QED
    BY <2>2 DEF Orphan, Live
<1>5. CASE UNCHANGED <<teams, row>>
  BY <1>5, NoneMoves
<1>6. BackfillMemberships => UNCHANGED <<teams, row>> \/ Fails
  BY DEF BackfillMemberships
<1> QED
  BY <1>1, <1>2, <1>3, <1>4, <1>5, <1>6 DEF Migrate, Boot, BackfillTokens, MoveRoster, MoveVoiceprints, StripTokens,
     ImportTokens, RenameTokensFile, UuidBegin, UuidCommit, Additive, MarkApplied, Serve, teamVars

\* A deletion that has counted the sessions takes them elsewhere or is refused.
LEMMA DeletionOrphansNone ==
  ASSUME TeamsInvariant, NEW a \in Actors, DeleteTeam(a), NEW s, ~Orphan(s),
         ~(held["cli"].op = "counted" /\ ~held["cli"].rows),
         ~(held[a].op \in {"delete", "counted"} /\ held[a].to # None /\ ~Live(held[a].to))
  PROVE  ~Orphan(s)'
<1>1. held[a].op \in {"delete", "counted"} /\ held[a].id # held[a].to
  BY DeleteFacts DEF TeamsInvariant, CarriedIsSound
<1>2. CASE UNCHANGED <<teams, row>>
  BY <1>2, NoneMoves
<1>3. CASE ~UNCHANGED <<teams, row>>
  <2>1. PICK id, to : id = held[a].id /\ to = held[a].to
    OBVIOUS
  <2>2. PICK rows \in BOOLEAN :
          /\ rows => to # None
          /\ ~rows => Rows(id) = {}
          /\ row' = [z \in DOMAIN row |-> IF rows /\ row[z] = id THEN to ELSE row[z]]
          /\ teams' = Restrict(teams, DOMAIN teams \ {id})
    BY <1>3, <2>1, DeleteFacts
  <2>3. DOMAIN teams' = DOMAIN teams \ {id}
    BY <2>2 DEF Restrict
  <2>4. rows => to \in DOMAIN teams /\ to # id
    BY <1>1, <2>1, <2>2 DEF Live
  <2>5. DOMAIN row' = DOMAIN row
    BY <2>2
  <2> SUFFICES ASSUME s \in DOMAIN row PROVE row'[s] \in DOMAIN teams'
    BY <2>5 DEF Orphan, Live
  <2>6. row[s] \in DOMAIN teams
    BY DEF Orphan, Live
  <2>7. ~rows => row[s] # id
    BY <2>2 DEF Rows
  <2> QED
    BY <2>2, <2>3, <2>4, <2>6, <2>7
<1> QED
  BY <1>2, <1>3

\* A row is written with a team that its writer had looked up before.
LEMMA MoveOrphansNone ==
  ASSUME TeamsInvariant, UploadEnd \/ MoveEnd \/ AdminMoveEnd, NEW s, ~Orphan(s), ~Stale
  PROVE  ~Orphan(s)'
<1>1. {"upload", "api", "cli"} \subseteq Actors
  BY DEF Actors
<1>2. CASE UploadEnd
  <2>1. PICK z, id : z = held["upload"].ses /\ id = held["upload"].id
    OBVIOUS
  <2>2. /\ teams' = teams /\ id \in DOMAIN teams
        /\ row' = [y \in DOMAIN row \cup {z} |-> IF y = z THEN id ELSE row[y]]
    BY <1>1, <1>2, <2>1 DEF UploadEnd, Holds, Stale, Live, With
  <2> QED
    BY <2>2 DEF Orphan, Live
<1>3. CASE MoveEnd
  <2>1. PICK z, id : z = held["api"].ses /\ id = held["api"].id
    OBVIOUS
  <2>2. /\ teams' = teams /\ id \in DOMAIN teams
        /\ row' = row \/ row' = [row EXCEPT ![z] = id]
    BY <1>1, <1>3, <2>1 DEF MoveEnd, Holds, Stale, Live
  <2> QED
    BY <2>2 DEF Orphan, Live
<1>4. CASE AdminMoveEnd
  <2>1. PICK z, id : z = held["cli"].ses /\ id = held["cli"].id
    OBVIOUS
  <2>2. /\ teams' = teams /\ id \in DOMAIN teams
        /\ row' = row \/ row' = [row EXCEPT ![z] = id]
    BY <1>1, <1>4, <2>1 DEF AdminMoveEnd, Holds, Stale, Live
  <2> QED
    BY <2>2 DEF Orphan, Live
<1> QED
  BY <1>2, <1>3, <1>4

\* The other requests make teams, rename them and delete sessions.
LEMMA AdminOrphansNone ==
  ASSUME TeamsInvariant, NEW a \in Actors, Admin(a), ~DeleteTeam(a), NEW s, ~Orphan(s)
  PROVE  ~Orphan(s)'
<1>1. CASE \E x \in Slugs : CreateTeam(a, x)
  <2>1. PICK x, u : u = Fresh /\ teams' = With(teams, u, x) /\ row' = row
    BY <1>1 DEF CreateTeam
  <2>2. teams' = [z \in DOMAIN teams \cup {u} |-> IF z = u THEN x ELSE teams[z]]
    BY <2>1 DEF With
  <2> QED
    BY <2>1, <2>2, NoneMoves
<1>2. CASE RenameEnd(a)
  <2>1. DOMAIN teams' = DOMAIN teams /\ row' = row
    BY <1>2 DEF RenameEnd, TeamsInvariant
  <2> QED
    BY <2>1, NoneMoves
<1>3. CASE UNCHANGED <<teams, row>>
  BY <1>3, NoneMoves
<1> QED
  BY <1>1, <1>2, <1>3 DEF Admin, RenameBegin, DeleteBegin, DeleteCount, DeleteDir, AddMemberBegin, AddMemberEnd, RemoveMember

LEMMA WorkOrphansByRaces ==
  ASSUME TeamsInvariant, Work, NEW s, ~Orphan(s), Orphan(s)'
  PROVE  \/ Stale
         \/ held["cli"].op = "counted" /\ ~held["cli"].rows
         \/ \E a \in Actors : held[a].op \in {"delete", "counted"} /\ held[a].to # None /\ ~Live(held[a].to)
<1>0. {"cli", "api"} \subseteq Actors
  BY DEF Actors
<1>1. CASE \E a \in Actors : Admin(a)
  BY <1>1, AdminOrphansNone, DeletionOrphansNone
<1>2. CASE UploadEnd \/ MoveEnd \/ AdminMoveEnd
  BY <1>2, MoveOrphansNone
<1>3. CASE \E h, z : DeleteSession(h, z)
  <2>1. PICK z : teams' = teams /\ row' = [y \in DOMAIN row \ {z} |-> row[y]]
    BY <1>3 DEF DeleteSession, Restrict
  <2> QED
    BY <2>1, NoneMoves
<1>4. CASE UNCHANGED <<teams, row>>
  BY <1>4, NoneMoves
<1> QED
  BY <1>0, <1>1, <1>2, <1>3, <1>4 DEF Work, Shell, Requests, UploadBegin, MoveBegin, AdminMoveBegin

\* queue.py:1080: no migration and no rollback takes a session's team away, and
\* a deletion takes none that it has counted; only an actor that still carries
\* a team somebody has deleted, or an out-of-date count, leaves an orphan.
THEOREM OnlyARaceOrphans == MigSpec => OnlyRacesOrphan
<1>1. ASSUME MigInvariant, [MigNext]_vars
      PROVE  [\A s \in Sessions : ~Orphan(s) /\ Orphan(s)' =>
                \/ Stale
                \/ held["cli"].op = "counted" /\ ~held["cli"].rows
                \/ \E a \in Actors : held[a].op \in {"delete", "counted"} /\ held[a].to # None /\ ~Live(held[a].to)]_vars
  <2>1. CASE UNCHANGED vars
    BY <2>1
  <2>2. CASE Migrate \/ Crash \/ Boot
    BY <1>1, <2>2, MigrationOrphansNone
  <2>3. CASE Work
    BY <1>1, <2>3, WorkOrphansByRaces DEF MigInvariant
  <2> QED
    BY <1>1, <2>1, <2>2, <2>3 DEF MigNext
<1> QED
  BY <1>1, InvariantHolds, PTL DEF MigSpec, OnlyRacesOrphan

(***************************************************************************)
(* A name means one team.                                                  *)
(***************************************************************************)

\* The part of NamesInvariant that is about the teams.
TeamsNamed ==
  /\ TablesOK(teams, row, members) /\ SlugsOK(teams)
  /\ dirs \in [Ids -> SUBSET Files] /\ minted \subseteq Uuids
  /\ held \in [Actors -> Carried] /\ up \in BOOLEAN /\ ops \in Nat

LEMMA CarriedFacts ==
  ASSUME NEW h \in Carried
  PROVE  /\ h.op = "rename" => h.id \in Ids /\ h.slug \in Slugs
         /\ h.op = "delete" => h.id \in Ids /\ h.to \in Ids \cup {None}
         /\ h.op = "counted" => h.id \in Ids /\ h.to \in Ids \cup {None} /\ h.rows \in BOOLEAN /\ h.roster \in BOOLEAN
         /\ h.op = "rmtree" => h.id \in Ids
         /\ h.op = "add" => h.id \in Ids /\ h.who \in Handles
         /\ h.op = "upload" => h.id \in Ids /\ h.ses \in Sessions
         /\ h.op = "move" => h.id \in Ids /\ h.ses \in Sessions
         /\ h.op = "setteam" => h.id \in Ids /\ h.ses \in Sessions
  BY DEF Carried, Idle

LEMMA HeldTypes ==
  ASSUME TeamsNamed, NEW a \in Actors, NEW what \in Carried,
         Begin(a, what) \/ (held' = [held EXCEPT ![a] = what] /\ UNCHANGED ops)
  PROVE  held' \in [Actors -> Carried] /\ ops' \in Nat
  BY DEF TeamsNamed, Begin

LEMMA DoneTypes ==
  ASSUME TeamsNamed, NEW a \in Actors, Done(a)
  PROVE  held' \in [Actors -> Carried] /\ ops' \in Nat
  BY DEF TeamsNamed, Done, Carried

LEMMA ResolvedTypes ==
  ASSUME TeamsNamed, NEW x, NEW id \in Resolve(x)
  PROVE  id \in Ids /\ Live(id)
  BY DEF TeamsNamed, TablesOK, Resolve, Live

\* A new team under a slug nobody has, or under its own name with none in the column.
LEMMA AddedSlug ==
  ASSUME NEW t, SlugsOK(t), NEW id, id \notin DOMAIN t, NEW s,
         s = None \/ \A i \in DOMAIN t : t[i] # s,
         id \in Uuids => s # None
  PROVE  SlugsOK(With(t, id, s))
<1>1. \A z : z \in DOMAIN t \cup {id} => With(t, id, s)[z] = IF z = id THEN s ELSE t[z]
  BY DEF With
<1>2. DOMAIN With(t, id, s) = DOMAIN t \cup {id}
  BY DEF With
<1> QED
  BY <1>1, <1>2 DEF SlugsOK

LEMMA FewerSlugs ==
  ASSUME NEW t, SlugsOK(t), NEW S, S \subseteq DOMAIN t
  PROVE  SlugsOK(Restrict(t, S))
  BY RestrictFacts DEF SlugsOK

LEMMA AddedTypes ==
  ASSUME NEW t, NEW r, NEW m, TablesOK(t, r, m), NEW id \in Ids, NEW s \in Slugs \cup {None}
  PROVE  TablesOK(With(t, id, s), r, m)
  BY DEF TablesOK, With

LEMMA FewerTypes ==
  ASSUME NEW t, NEW r, NEW m, TablesOK(t, r, m), NEW S, S \subseteq DOMAIN t
  PROVE  TablesOK(Restrict(t, S), r, m)
  BY DEF TablesOK, Restrict

LEMMA CreateNames ==
  ASSUME TeamsInvariant, TeamsNamed, NEW a \in Actors, NEW s \in Slugs, CreateTeam(a, s)
  PROVE  TeamsNamed' /\ DOMAIN teams' \cap Slugs \subseteq DOMAIN teams
<1>1. Fresh \in Uuids /\ Fresh \notin minted /\ Fresh \in Ids
  BY FreshFacts DEF TeamsNamed, CreateTeam
<1>2. Fresh \notin DOMAIN teams
  BY <1>1 DEF TeamsInvariant, Minted
<1>3. teams' = With(teams, Fresh, s) /\ minted' = minted \cup {Fresh} /\ ops' = ops + 1
      /\ UNCHANGED <<members, row, dirs, held, up>>
  BY DEF CreateTeam
<1>4. s # None /\ \A i \in DOMAIN teams : teams[i] # s
  BY TeamsAssumption DEF CreateTeam, SlugTaken, Ids, TeamsNamed, TablesOK
<1>5. SlugsOK(With(teams, Fresh, s))
  BY <1>2, <1>4, AddedSlug DEF TeamsNamed
<1>6. TablesOK(With(teams, Fresh, s), row, members)
  BY <1>1, AddedTypes DEF TeamsNamed
<1>7. DOMAIN teams' \cap Slugs \subseteq DOMAIN teams
  <2>1. DOMAIN With(teams, Fresh, s) = DOMAIN teams \cup {Fresh}
    BY DEF With
  <2> QED
    BY <1>1, <1>3, <2>1, TeamsAssumption
<1> QED
  BY <1>1, <1>3, <1>5, <1>6, <1>7 DEF TeamsNamed

LEMMA RenameNames ==
  ASSUME TeamsNamed, NEW a \in Actors,
         RenameEnd(a) \/ \E x \in Slugs, s \in Slugs : RenameBegin(a, x, s)
  PROVE  TeamsNamed' /\ DOMAIN teams' \cap Slugs \subseteq DOMAIN teams
<1>1. CASE RenameEnd(a)
  <2>1. PICK h : h = held[a]
    OBVIOUS
  <2>2. h \in Carried /\ h.op = "rename"
    BY <1>1, <2>1 DEF RenameEnd, Holds, TeamsNamed
  <2>3. h.slug \in Slugs /\ h.slug # None
    BY <2>2, CarriedFacts, TeamsAssumption DEF Ids
  <2>4. held' \in [Actors -> Carried] /\ ops' \in Nat
    BY <1>1, DoneTypes DEF RenameEnd
  <2>5. teams' = teams \/ (/\ teams' = [teams EXCEPT ![h.id] = h.slug]
                          /\ \A i \in DOMAIN teams \ {h.id} : teams[i] # h.slug)
    BY <1>1, <2>1 DEF RenameEnd, SlugTaken
  <2>6. SlugsOK(teams') /\ DOMAIN teams' = DOMAIN teams /\ teams' \in [DOMAIN teams -> Slugs \cup {None}]
    BY <2>3, <2>5 DEF TeamsNamed, TablesOK, SlugsOK
  <2> QED
    BY <1>1, <2>4, <2>6 DEF RenameEnd, TeamsNamed, TablesOK
<1>2. ASSUME NEW x \in Slugs, NEW s \in Slugs, RenameBegin(a, x, s)
      PROVE  TeamsNamed' /\ DOMAIN teams' \cap Slugs \subseteq DOMAIN teams
  <2>1. PICK id \in Resolve(x) : Begin(a, [op |-> "rename", id |-> id, slug |-> s])
    BY <1>2 DEF RenameBegin
  <2>2. [op |-> "rename", id |-> id, slug |-> s] \in Carried
    BY ResolvedTypes DEF Carried
  <2> QED
    BY <1>2, <2>1, <2>2, HeldTypes DEF RenameBegin, TeamsNamed
<1> QED
  BY <1>1, <1>2

LEMMA DeleteNames ==
  ASSUME TeamsInvariant, TeamsNamed, NEW a \in Actors,
         \/ \E id \in Ids, to \in Ids \cup {None} : DeleteBegin(a, id, to)
         \/ DeleteCount(a) \/ DeleteTeam(a) \/ DeleteDir(a)
  PROVE  TeamsNamed' /\ DOMAIN teams' \cap Slugs \subseteq DOMAIN teams
<1>1. ASSUME NEW id \in Ids, NEW to \in Ids \cup {None}, DeleteBegin(a, id, to)
      PROVE  TeamsNamed' /\ DOMAIN teams' \cap Slugs \subseteq DOMAIN teams
  <2>1. [op |-> "delete", id |-> id, to |-> to] \in Carried
    BY DEF Carried
  <2> QED
    BY <1>1, <2>1, HeldTypes DEF DeleteBegin, TeamsNamed
<1>2. PICK h : h = held[a]
  OBVIOUS
<1>3. h \in Carried
  BY <1>2 DEF TeamsNamed
<1>4. CASE DeleteCount(a)
  <2>1. h.op = "delete" /\ h.id \in Ids /\ h.to \in Ids \cup {None}
    BY <1>2, <1>3, <1>4, CarriedFacts DEF DeleteCount, Holds
  <2>2. PICK n : n = [op |-> "counted", id |-> h.id, to |-> h.to,
                      rows |-> Rows(h.id) # {}, roster |-> Roster(h.id) # {}]
    OBVIOUS
  <2>3. n \in Carried
    BY <2>1, <2>2 DEF Carried
  <2>4. held' = [held EXCEPT ![a] = n] /\ UNCHANGED <<teams, members, row, dirs, minted, up, ops>>
    BY <1>2, <1>4, <2>2 DEF DeleteCount
  <2> QED
    BY <2>3, <2>4, HeldTypes DEF TeamsNamed
<1>5. CASE DeleteTeam(a)
  <2>1. h.op \in {"delete", "counted"} /\ \E rows, roster : DeleteRows(a, rows, roster)
    BY <1>2, <1>5 DEF DeleteTeam, Holds
  <2>2. h.id \in Ids /\ h.to \in Ids \cup {None}
    BY <1>3, <2>1, CarriedFacts
  <2>3. UNCHANGED <<dirs, minted, up>>
    BY <1>5 DEF DeleteTeam
  <2>4. CASE Done(a) /\ UNCHANGED <<teams, members, row>>
    BY <2>3, <2>4, DoneTypes DEF TeamsNamed
  <2>5. ASSUME NEW rows,
               /\ row' = [s \in DOMAIN row |-> IF rows /\ row[s] = h.id THEN h.to ELSE row[s]]
               /\ members' = members \ Roster(h.id)
               /\ teams' = Restrict(teams, DOMAIN teams \ {h.id})
               /\ held' = [held EXCEPT ![a] = [op |-> "rmtree", id |-> h.id]]
               /\ UNCHANGED ops
        PROVE  TeamsNamed' /\ DOMAIN teams' \cap Slugs \subseteq DOMAIN teams
    <3>1. [op |-> "rmtree", id |-> h.id] \in Carried
      BY <2>2 DEF Carried
    <3>2. held' \in [Actors -> Carried] /\ ops' \in Nat
      BY <2>5, <3>1, HeldTypes
    <3>3. SlugsOK(teams') /\ TablesOK(teams', row, members)
      BY <2>5, FewerSlugs, FewerTypes DEF TeamsNamed
    <3>4. TablesOK(teams', row', members')
      BY <2>2, <2>5, <3>3 DEF TablesOK
    <3>5. DOMAIN teams' \subseteq DOMAIN teams
      BY <2>5, RestrictFacts
    <3> QED
      BY <2>3, <3>2, <3>3, <3>4, <3>5 DEF TeamsNamed
  <2> QED
    BY <1>2, <2>1, <2>4, <2>5 DEF DeleteRows
<1>6. CASE DeleteDir(a)
  <2>1. h.id \in Ids
    BY <1>2, <1>3, <1>6, CarriedFacts DEF DeleteDir, Holds
  <2>2. dirs' \in [Ids -> SUBSET Files]
    BY <1>2, <1>6, <2>1 DEF DeleteDir, TeamsNamed
  <2> QED
    BY <1>6, <2>2, DoneTypes DEF DeleteDir, TeamsNamed
<1> QED
  BY <1>1, <1>4, <1>5, <1>6

LEMMA MemberNames ==
  ASSUME TeamsNamed, NEW a \in Actors,
         \/ AddMemberEnd(a)
         \/ \E h \in Handles, x \in Slugs : AddMemberBegin(a, h, x) \/ RemoveMember(a, h, x)
  PROVE  TeamsNamed' /\ DOMAIN teams' \cap Slugs \subseteq DOMAIN teams
<1>1. CASE AddMemberEnd(a)
  <2>1. PICK h : h = held[a]
    OBVIOUS
  <2>2. h.id \in Ids /\ h.who \in Handles
    BY <1>1, <2>1, CarriedFacts DEF AddMemberEnd, Holds, TeamsNamed
  <2>3. members' \subseteq Handles \X Ids
    BY <1>1, <2>1, <2>2 DEF AddMemberEnd, TeamsNamed, TablesOK
  <2> QED
    BY <1>1, <2>3, DoneTypes DEF AddMemberEnd, TeamsNamed, TablesOK
<1>2. ASSUME NEW h \in Handles, NEW x \in Slugs, AddMemberBegin(a, h, x)
      PROVE  TeamsNamed' /\ DOMAIN teams' \cap Slugs \subseteq DOMAIN teams
  <2>1. PICK id \in Resolve(x) : Begin(a, [op |-> "add", id |-> id, who |-> h])
    BY <1>2 DEF AddMemberBegin
  <2>2. [op |-> "add", id |-> id, who |-> h] \in Carried
    BY ResolvedTypes DEF Carried
  <2> QED
    BY <1>2, <2>1, <2>2, HeldTypes DEF AddMemberBegin, TeamsNamed
<1>3. ASSUME NEW h \in Handles, NEW x \in Slugs, RemoveMember(a, h, x)
      PROVE  TeamsNamed' /\ DOMAIN teams' \cap Slugs \subseteq DOMAIN teams
  <2>1. members' \subseteq members
    BY <1>3 DEF RemoveMember
  <2> QED
    BY <1>3, <2>1 DEF RemoveMember, TeamsNamed, TablesOK
<1> QED
  BY <1>1, <1>2, <1>3

\* What the rows of sessions are written with.
LEMMA RowTypes ==
  ASSUME TeamsNamed, NEW s \in Sessions, NEW id \in Ids
  PROVE  /\ TablesOK(teams, With(row, s, id), members)
         /\ TablesOK(teams, [row EXCEPT ![s] = id], members)
         /\ TablesOK(teams, Restrict(row, DOMAIN row \ {s}), members)
         /\ \A z \in DOMAIN row : row[z] \in Ids \cup {None}
  BY DEF TeamsNamed, TablesOK, With, Restrict

LEMMA UploadNames ==
  ASSUME TeamsNamed,
         \/ UploadEnd \/ \E h \in Handles, s \in Sessions, id \in Ids : UploadBegin(h, s, id)
         \/ \E h \in Handles, s \in Sessions : DeleteSession(h, s)
  PROVE  TeamsNamed' /\ DOMAIN teams' \cap Slugs \subseteq DOMAIN teams
<1>0. "upload" \in Actors
  BY DEF Actors
<1>1. CASE UploadEnd
  <2>1. PICK h : h = held["upload"]
    OBVIOUS
  <2>2. h.id \in Ids /\ h.ses \in Sessions
    BY <1>0, <1>1, <2>1, CarriedFacts DEF UploadEnd, Holds, TeamsNamed
  <2>3. TablesOK(teams, row', members)
    BY <1>1, <2>1, <2>2, RowTypes DEF UploadEnd
  <2> QED
    BY <1>0, <1>1, <2>3, DoneTypes DEF UploadEnd, TeamsNamed
<1>2. ASSUME NEW h \in Handles, NEW s \in Sessions, NEW id \in Ids, UploadBegin(h, s, id)
      PROVE  TeamsNamed' /\ DOMAIN teams' \cap Slugs \subseteq DOMAIN teams
  <2>1. [op |-> "upload", id |-> id, ses |-> s] \in Carried
    BY DEF Carried
  <2> QED
    BY <1>0, <1>2, <2>1, HeldTypes DEF UploadBegin, TeamsNamed
<1>3. ASSUME NEW h \in Handles, NEW s \in Sessions, DeleteSession(h, s)
      PROVE  TeamsNamed' /\ DOMAIN teams' \cap Slugs \subseteq DOMAIN teams
  <2>1. TablesOK(teams, row', members)
    BY <1>3 DEF DeleteSession, TeamsNamed, TablesOK, Restrict
  <2> QED
    BY <1>3, <2>1 DEF DeleteSession, TeamsNamed
<1> QED
  BY <1>1, <1>2, <1>3

LEMMA MoveNames ==
  ASSUME TeamsNamed,
         \/ MoveEnd \/ \E h \in Handles, s \in Sessions, x \in Slugs : MoveBegin(h, s, x)
         \/ AdminMoveEnd \/ \E s \in Sessions, x \in Slugs : AdminMoveBegin(s, x)
  PROVE  TeamsNamed' /\ DOMAIN teams' \cap Slugs \subseteq DOMAIN teams
<1>0. "api" \in Actors /\ "cli" \in Actors
  BY DEF Actors
<1>1. ASSUME NEW a \in {"api", "cli"}, held[a].op \in {"move", "setteam"}, Done(a),
             row' = row \/ row' = [row EXCEPT ![held[a].ses] = held[a].id],
             UNCHANGED <<teams, members, dirs, minted, up>>
      PROVE  TeamsNamed' /\ DOMAIN teams' \cap Slugs \subseteq DOMAIN teams
  <2>1. PICK h : h = held[a]
    OBVIOUS
  <2>2. h.id \in Ids /\ h.ses \in Sessions
    BY <1>0, <1>1, <2>1, CarriedFacts DEF TeamsNamed
  <2>3. TablesOK(teams, row', members)
    BY <1>1, <2>1, <2>2, RowTypes DEF TeamsNamed
  <2> QED
    BY <1>0, <1>1, <2>3, DoneTypes DEF TeamsNamed
<1>2. ASSUME NEW h \in Handles, NEW s \in Sessions, NEW x \in Slugs, MoveBegin(h, s, x)
      PROVE  TeamsNamed' /\ DOMAIN teams' \cap Slugs \subseteq DOMAIN teams
  <2>1. PICK id \in Resolve(x) : Begin("api", [op |-> "move", ses |-> s, from |-> row[s], id |-> id])
    BY <1>2 DEF MoveBegin
  <2>2. row[s] \in Ids \cup {None}
    BY <1>2 DEF MoveBegin, Visible, TeamsNamed, TablesOK
  <2>3. [op |-> "move", ses |-> s, from |-> row[s], id |-> id] \in Carried
    BY <2>2, ResolvedTypes DEF Carried
  <2> QED
    BY <1>0, <1>2, <2>1, <2>3, HeldTypes DEF MoveBegin, TeamsNamed
<1>3. ASSUME NEW s \in Sessions, NEW x \in Slugs, AdminMoveBegin(s, x)
      PROVE  TeamsNamed' /\ DOMAIN teams' \cap Slugs \subseteq DOMAIN teams
  <2>1. PICK id \in Resolve(x) : Begin("cli", [op |-> "setteam", ses |-> s, id |-> id])
    BY <1>3 DEF AdminMoveBegin
  <2>2. [op |-> "setteam", ses |-> s, id |-> id] \in Carried
    BY ResolvedTypes DEF Carried
  <2> QED
    BY <1>0, <1>3, <2>1, <2>2, HeldTypes DEF AdminMoveBegin, TeamsNamed
<1> QED
  BY <1>1, <1>2, <1>3 DEF MoveEnd, AdminMoveEnd, Holds

LEMMA AdminNames ==
  ASSUME TeamsInvariant, TeamsNamed, NEW a \in Actors, Admin(a)
  PROVE  TeamsNamed' /\ DOMAIN teams' \cap Slugs \subseteq DOMAIN teams
  BY CreateNames, RenameNames, DeleteNames, MemberNames DEF Admin

\* The shell and the requests keep the types, and key no team by a slug.
LEMMA WorkNames ==
  ASSUME TeamsInvariant, TeamsNamed, Shell \/ Requests
  PROVE  TeamsNamed' /\ DOMAIN teams' \cap Slugs \subseteq DOMAIN teams
<1>1. "api" \in Actors /\ "cli" \in Actors
  BY DEF Actors
<1> QED
  BY <1>1, AdminNames, UploadNames, MoveNames DEF Shell, Requests

\* The part of MigTypeOK that is about the files and the start.
StartTyped ==
  /\ applied \in 0..All
  /\ step \in {"off", Start, "tokens", "roster", "voices", "strip", "rename", "remap", "mark", "serving"}
  /\ DOMAIN file \subseteq Tokens /\ file \in [DOMAIN file -> {None, Default, Other, "stripped"}]
  /\ table \subseteq Tokens /\ legacy \subseteq Files /\ crashes \in Nat
  /\ had \in [rows : SUBSET Sessions, tokens : SUBSET Tokens, slug : {Default, Other}]

LEMMA NamesAre ==
  NamesInvariant <=>
    /\ TeamsNamed /\ StartTyped
    /\ IF step = "remap" THEN TablesOK(tx.teams, tx.row, tx.members) /\ SlugsOK(tx.teams) ELSE tx = None
    /\ ~ShellWhileDown => KeysOK(teams) /\ (step = "remap" => KeysOK(tx.teams))
  BY DEF NamesInvariant, MigTypeOK, TeamsNamed, StartTyped

LEMMA NamesAreNext ==
  ASSUME TeamsNamed', StartTyped',
         IF step' = "remap" THEN TablesOK(tx'.teams, tx'.row, tx'.members) /\ SlugsOK(tx'.teams) ELSE tx' = None,
         ~ShellWhileDown => KeysOK(teams)' /\ (step' = "remap" => KeysOK(tx.teams)')
  PROVE  NamesInvariant'
  BY DEF NamesInvariant, MigTypeOK, TeamsNamed, StartTyped, TablesOK, SlugsOK

\* Steps outside the transaction that leave the tables alone.
LEMMA QuietNames ==
  ASSUME NamesInvariant, UNCHANGED <<teams, row, members, minted>>, held' \in [Actors -> Carried],
         up' \in BOOLEAN, ops' \in Nat, dirs' \in [Ids -> SUBSET Files],
         StartTyped', step' # "remap", tx' = None, Worked(Uuid)' => Worked(Uuid)
  PROVE  NamesInvariant'
<1>1. TeamsNamed'
  BY NamesAre DEF TeamsNamed, TablesOK, SlugsOK
<1>2. ~ShellWhileDown => KeysOK(teams)'
  BY NamesAre DEF KeysOK
<1> QED
  BY <1>1, <1>2, NamesAreNext

LEMMA FileNames ==
  ASSUME MigInvariant, NamesInvariant, step # "remap", MoveRoster \/ MoveVoiceprints
  PROVE  NamesInvariant'
<1>1. Default \in Ids
  BY MigrationsAssumption DEF Ids
<1>2. dirs' \in [Ids -> SUBSET Files] /\ legacy' \subseteq Files
  BY <1>1, NamesAre DEF MoveRoster, MoveVoiceprints, MoveFile, TeamsNamed, StartTyped, Files
<1>3. applied # Uuid
  BY DEF MigInvariant, StepIsDue, MoveRoster, MoveVoiceprints, Uuid
<1>4. Worked(Uuid)' => Worked(Uuid)
  BY <1>3 DEF Worked, MoveRoster, MoveVoiceprints
<1>5. StartTyped' /\ step' = "mark"
  BY <1>2, NamesAre DEF MoveRoster, MoveVoiceprints, StartTyped, Goto
<1> QED
  BY <1>2, <1>4, <1>5, NamesAre, QuietNames DEF MoveRoster, MoveVoiceprints, TeamsNamed

LEMMA TokenNames ==
  ASSUME MigInvariant, NamesInvariant, BackfillTokens \/ StripTokens \/ ImportTokens \/ RenameTokensFile
  PROVE  NamesInvariant'
<1>1. step # "remap" /\ step' # "remap" /\ applied # Uuid /\ applied' = applied /\ UNCHANGED <<teamVars, tx, legacy, crashes, had>>
  BY DEF BackfillTokens, StripTokens, ImportTokens, RenameTokensFile, At, Goto, Start, Uuid, MigInvariant, StepIsDue
<1>2. DOMAIN file' \subseteq Tokens /\ file' \in [DOMAIN file' -> {None, Default, Other, "stripped"}] /\ table' \subseteq Tokens
  BY NamesAre DEF BackfillTokens, StripTokens, ImportTokens, RenameTokensFile, StartTyped, NoFile
<1>3. StartTyped'
  BY <1>1, <1>2, NamesAre DEF StartTyped, BackfillTokens, StripTokens, ImportTokens, RenameTokensFile, Goto
<1>4. Worked(Uuid)' => Worked(Uuid)
  BY <1>1 DEF Worked
<1> QED
  BY <1>1, <1>3, <1>4, NamesAre, QuietNames DEF teamVars, TeamsNamed

LEMMA PlainNames ==
  ASSUME MigInvariant, NamesInvariant, Additive \/ MarkApplied \/ Serve \/ Boot
  PROVE  NamesInvariant'
<1>1. /\ step # "remap" /\ step' # "remap" /\ tx' = tx
      /\ UNCHANGED <<teams, row, members, dirs, minted, held, ops, file, table, legacy, crashes, had>>
      /\ up' \in BOOLEAN /\ step' \in {Start, "mark", "serving"}
  BY NamesAre DEF Additive, MarkApplied, Serve, Boot, At, Goto, Start, teamVars, TeamsNamed
<1>2. applied' \in 0..All /\ (Worked(Uuid)' => Worked(Uuid))
  BY DEF Additive, MarkApplied, Serve, Boot, At, Goto, Start, MigInvariant, StepIsDue, Worked, Uuid, All
<1>3. StartTyped'
  BY <1>1, <1>2, NamesAre DEF StartTyped
<1> QED
  BY <1>1, <1>2, <1>3, NamesAre, QuietNames DEF TeamsNamed

\* A team that is made for old data is keyed by its slug.
LEMMA LegacyNames ==
  ASSUME TeamsNamed
  PROVE  /\ SlugsOK(WithLegacyTeam) /\ TablesOK(WithLegacyTeam, row, members)
         /\ ~Worked(Uuid) /\ KeysOK(teams) => KeysOK(WithLegacyTeam)
<1>1. Default \in Slugs /\ Default \in Ids /\ Default \notin Uuids
  BY MigrationsAssumption, TeamsAssumption DEF Ids
<1>2. CASE Default \in Keys
  BY <1>2 DEF WithLegacyTeam, TeamsNamed
<1>3. CASE Default \notin Keys
  <2>1. Default \notin DOMAIN teams /\ WithLegacyTeam = With(teams, Default, None)
    BY <1>3 DEF Keys, WithLegacyTeam
  <2>2. SlugsOK(WithLegacyTeam)
    BY <1>1, <2>1, AddedSlug DEF TeamsNamed
  <2>3. TablesOK(WithLegacyTeam, row, members)
    BY <1>1, <2>1, AddedTypes DEF TeamsNamed
  <2>4. ASSUME ~Worked(Uuid), KeysOK(teams) PROVE KeysOK(WithLegacyTeam)
    BY <2>1, <2>4 DEF KeysOK, With
  <2> QED
    BY <2>2, <2>3, <2>4
<1> QED
  BY <1>2, <1>3

LEMMA OldDataNames ==
  ASSUME MigInvariant, NamesInvariant, BackfillJobs \/ VoiceprintTeam
  PROVE  NamesInvariant'
<1>0. Default \in Ids
  BY MigrationsAssumption DEF Ids
<1>1. /\ applied \in {0, 1} /\ applied' = applied /\ step = Start /\ step' \in {"tokens", "mark", "voices"} /\ tx' = tx
      /\ UNCHANGED <<members, dirs, minted, held, up, ops, file, table, legacy, crashes, had>>
      /\ teams' \in {teams, WithLegacyTeam}
      /\ row' = row \/ row' = [s \in DOMAIN row |-> IF row[s] = None THEN Default ELSE row[s]]
  BY DEF BackfillJobs, VoiceprintTeam, At, Goto
<1>2. ~Worked(Uuid) /\ ~Worked(Uuid)'
  BY <1>1 DEF Worked, Uuid
<1>3. SlugsOK(teams') /\ TablesOK(teams', row, members)
  BY <1>1, NamesAre, LegacyNames DEF TeamsNamed
<1>4. TablesOK(teams', row', members')
  BY <1>0, <1>1, <1>3 DEF TablesOK
<1>5. TeamsNamed'
  BY <1>1, <1>3, <1>4, NamesAre DEF TeamsNamed, SlugsOK, TablesOK
<1>6. ~ShellWhileDown => KeysOK(teams')
  BY <1>1, <1>2, NamesAre, LegacyNames
<1>7. ~ShellWhileDown => KeysOK(teams)'
  BY <1>2, <1>6 DEF KeysOK
<1>8. StartTyped' /\ step' # "remap" /\ tx' = None
  BY <1>1, NamesAre DEF StartTyped, Start
<1> QED
  BY <1>5, <1>7, <1>8, NamesAreNext

\* A start that is given up leaves the tables as they are, or as the transaction found them.
LEMMA GivenUpNames ==
  ASSUME MigInvariant, NamesInvariant, Fails, held' \in [Actors -> Carried], up' \in BOOLEAN, crashes' \in Nat,
         UNCHANGED <<dirs, minted, ops, applied, file, table, legacy, had>>
  PROVE  NamesInvariant'
<1>1. step' = "off" /\ tx' = None
  BY DEF Fails
<1>2. TablesOK(teams', row', members') /\ SlugsOK(teams')
  BY NamesAre DEF Fails, TeamsNamed
<1>3. Worked(Uuid)' => Worked(Uuid)
  BY <1>1 DEF Worked
<1>4. ~ShellWhileDown => KeysOK(teams')
  BY NamesAre DEF Fails
<1>5. ~ShellWhileDown => KeysOK(teams)'
  BY <1>3, <1>4 DEF KeysOK
<1>6. StartTyped'
  BY <1>1, NamesAre DEF StartTyped
<1>7. TeamsNamed'
  BY <1>2, NamesAre DEF TeamsNamed, TablesOK, SlugsOK
<1> QED
  BY <1>1, <1>5, <1>6, <1>7, NamesAreNext

LEMMA MembershipNames ==
  ASSUME MigInvariant, NamesInvariant, BackfillMemberships
  PROVE  NamesInvariant'
<1>1. CASE Fails
  BY <1>1, NamesAre, GivenUpNames DEF BackfillMemberships, TeamsNamed, StartTyped
<1>2. CASE members' = members \cup TeamsOfTokens /\ Goto("strip") /\ UNCHANGED <<teams, row, tx>>
  <2>1. /\ applied = 2 /\ step = Start /\ step' = "strip"
        /\ UNCHANGED <<dirs, minted, held, up, ops, applied, file, table, legacy, crashes, had>>
    BY <1>2 DEF BackfillMemberships, At, Goto
  <2>2. TeamsOfTokens \subseteq Handles \X Ids
    BY NamesAre, MigrationsAssumption DEF TeamsOfTokens, StartTyped
  <2>3. TablesOK(teams', row', members')
    BY <1>2, <2>2, NamesAre DEF TeamsNamed, TablesOK
  <2>4. TeamsNamed'
    BY <1>2, <2>1, <2>3, NamesAre DEF TeamsNamed, TablesOK, SlugsOK
  <2>5. StartTyped' /\ step' # "remap" /\ tx' = None
    BY <1>2, <2>1, NamesAre DEF StartTyped, Start
  <2>6. ~Worked(Uuid)'
    BY <2>1 DEF Worked, Uuid
  <2>7. ~ShellWhileDown => KeysOK(teams)'
    BY <1>2, <2>6, NamesAre DEF KeysOK
  <2> QED
    BY <2>4, <2>5, <2>7, NamesAreNext
<1> QED
  BY <1>1, <1>2 DEF BackfillMemberships

LEMMA TransactionNames ==
  ASSUME MigInvariant, NamesInvariant, UuidBegin \/ UuidCommit
  PROVE  NamesInvariant'
<1>1. /\ UNCHANGED <<teamVars, applied, file, table, legacy, crashes, had>> /\ applied = Uuid
  BY DEF UuidBegin, UuidCommit, At, MigInvariant, StepIsDue
<1>2. TeamsNamed'
  BY <1>1, NamesAre DEF TeamsNamed, TablesOK, SlugsOK, teamVars
<1>3. CASE UuidBegin
  <2>1. step = Start /\ step' = "remap" /\ tx' = [teams |-> teams, row |-> row, members |-> members]
    BY <1>3 DEF UuidBegin, At, Goto
  <2>2. TablesOK(tx'.teams, tx'.row, tx'.members) /\ SlugsOK(tx'.teams)
    BY <2>1, NamesAre DEF TeamsNamed
  <2>3. ~Worked(Uuid) /\ ~Worked(Uuid)'
    BY <1>1, <2>1 DEF Worked, Start, Uuid
  <2>4. ~ShellWhileDown => KeysOK(teams)' /\ KeysOK(tx.teams)'
    BY <1>1, <2>1, <2>3, NamesAre DEF KeysOK, teamVars
  <2>5. StartTyped'
    BY <1>1, <2>1, NamesAre DEF StartTyped
  <2> QED
    BY <1>2, <2>1, <2>2, <2>4, <2>5, NamesAreNext
<1>4. CASE UuidCommit
  <2>1. step' = "mark" /\ tx' = None /\ \A id \in DOMAIN teams : teams[id] # None
    BY <1>4 DEF UuidCommit, Goto
  <2>2. ~ShellWhileDown => KeysOK(teams)'
    BY <1>1, <2>1, NamesAre DEF KeysOK, teamVars
  <2>3. StartTyped'
    BY <1>1, <2>1, NamesAre DEF StartTyped
  <2> QED
    BY <1>2, <2>1, <2>2, <2>3, NamesAreNext
<1> QED
  BY <1>3, <1>4

\* A team gets its uuid, and its old key for a slug.
LEMMA RepointNames ==
  ASSUME MigInvariant, NamesInvariant, NEW id \in Ids, Remap(id), ~SlugTaken(id, None)
  PROVE  NamesInvariant'
<1>0. TeamsInvariant /\ TeamsNamed
  BY NamesAre DEF MigInvariant
<1>1. /\ step = "remap" /\ id \in DOMAIN teams /\ teams[id] = None /\ minted # Uuids
      /\ Repoint(id, Fresh) /\ minted' = minted \cup {Fresh}
      /\ dirs' = [dirs EXCEPT ![Fresh] = dirs[id], ![id] = {}]
      /\ UNCHANGED <<step, tx, held, up, ops, applied, file, table, legacy, crashes, had>>
  BY DEF Remap, Live
<1>2. Fresh \in Uuids /\ Fresh \notin minted /\ Fresh \in Ids
  BY <1>0, <1>1, FreshFacts DEF TeamsNamed
<1>3. Fresh \notin DOMAIN teams
  BY <1>0, <1>2 DEF TeamsInvariant, Minted
<1>4. id \in Slugs /\ id # None
  BY <1>0, <1>1, TeamsAssumption DEF TeamsNamed, SlugsOK, Ids
<1>5. \A i \in DOMAIN teams : teams[i] # id
  BY <1>0, TeamsAssumption DEF SlugTaken, TeamsNamed, TablesOK
<1> DEFINE rest == Restrict(teams, DOMAIN teams \ {id})
<1>6. DOMAIN rest = DOMAIN teams \ {id} /\ \A i \in DOMAIN rest : rest[i] = teams[i]
  BY DEF Restrict
<1>7. SlugsOK(rest) /\ TablesOK(rest, row, members)
  BY <1>0, FewerSlugs, FewerTypes DEF TeamsNamed
<1>8. teams' = With(rest, Fresh, id)
  BY <1>1 DEF Repoint
<1>9. SlugsOK(teams') /\ TablesOK(teams', row, members)
  <2> HIDE DEF rest
  <2>1. Fresh \notin DOMAIN rest /\ \A i \in DOMAIN rest : rest[i] # id
    BY <1>3, <1>5, <1>6
  <2>2. SlugsOK(With(rest, Fresh, id))
    BY <1>4, <1>7, <2>1, AddedSlug
  <2>3. TablesOK(With(rest, Fresh, id), row, members)
    BY <1>2, <1>4, <1>7, AddedTypes
  <2> QED
    BY <1>8, <2>2, <2>3
<1>10. TablesOK(teams', row', members')
  <2>1. row' = [s \in DOMAIN row |-> IF row[s] = id THEN Fresh ELSE row[s]]
        /\ members' = {<<m[1], IF m[2] = id THEN Fresh ELSE m[2]>> : m \in members}
    BY <1>1 DEF Repoint
  <2>2. DOMAIN row' \subseteq Sessions /\ row' \in [DOMAIN row' -> Ids \cup {None}]
    BY <1>0, <1>2, <2>1 DEF TeamsNamed, TablesOK
  <2>3. members' \subseteq Handles \X Ids
    BY <1>0, <1>2, <2>1 DEF TeamsNamed, TablesOK
  <2> QED
    BY <1>9, <2>2, <2>3 DEF TablesOK
<1>11. dirs' \in [Ids -> SUBSET Files]
  BY <1>0, <1>1, <1>2 DEF TeamsNamed
<1>12. TeamsNamed'
  BY <1>0, <1>1, <1>2, <1>9, <1>10, <1>11 DEF TeamsNamed, TablesOK, SlugsOK
<1>13. StartTyped'
  BY <1>1, NamesAre DEF StartTyped
<1>14. Worked(Uuid)' = Worked(Uuid)
  BY <1>1 DEF Worked
<1>15. ~ShellWhileDown => KeysOK(teams)' /\ KeysOK(tx.teams)'
  <2>1. DOMAIN teams' = (DOMAIN teams \ {id}) \cup {Fresh} /\ \A i \in DOMAIN teams \ {id} : teams'[i] = teams[i]
    BY <1>3, <1>6, <1>8 DEF With
  <2>2. Fresh \notin Slugs
    BY <1>2, TeamsAssumption
  <2> QED
    BY <1>1, <1>14, <2>1, <2>2, NamesAre DEF KeysOK
<1>16. step' = "remap" /\ TablesOK(tx'.teams, tx'.row, tx'.members) /\ SlugsOK(tx'.teams)
  BY <1>1, NamesAre
<1> QED
  BY <1>12, <1>13, <1>15, <1>16, NamesAreNext

LEMMA RemapNames ==
  ASSUME MigInvariant, NamesInvariant, NEW id \in Ids, Remap(id)
  PROVE  NamesInvariant'
<1>1. CASE SlugTaken(id, None)
  BY <1>1, NamesAre, GivenUpNames DEF Remap, TeamsNamed, StartTyped
<1> QED
  BY <1>1, RepointNames

LEMMA CrashNames ==
  ASSUME MigInvariant, NamesInvariant, Crash
  PROVE  NamesInvariant'
<1>1. Idle \in Carried
  BY DEF Carried
<1>2. held' \in [Actors -> Carried]
  BY <1>1, NamesAre DEF Crash, TeamsNamed
<1>3. crashes' \in Nat
  BY NamesAre DEF Crash, StartTyped
<1> QED
  BY <1>2, <1>3, GivenUpNames DEF Crash

LEMMA WorkingNames ==
  ASSUME MigInvariant, NamesInvariant, Work
  PROVE  NamesInvariant'
<1>1. TeamsNamed' /\ DOMAIN teams' \cap Slugs \subseteq DOMAIN teams
  BY NamesAre, WorkNames DEF Work, MigInvariant
<1>2. step # "remap" /\ UNCHANGED migVars
  BY DEF Work
<1>3. ASSUME ~ShellWhileDown PROVE KeysOK(teams)'
  <2>1. up
    BY <1>3 DEF Work
  <2>2. Worked(Uuid)
    BY <2>1 DEF MigInvariant, StepIsDue, Worked, Uuid, All
  <2> QED
    BY <1>1, <1>3, <2>2, NamesAre DEF KeysOK
<1>4. StartTyped' /\ tx' = None /\ step' # "remap"
  BY <1>2, NamesAre DEF migVars, StartTyped
<1> QED
  BY <1>1, <1>3, <1>4, NamesAreNext

LEMMA InitNames == MigInit => NamesInvariant
<1> SUFFICES ASSUME MigInit PROVE NamesInvariant
  OBVIOUS
<1>1. PICK age \in Ages, ss \in SUBSET Sessions :
        LET d == Data(age)
            old == IF age = "fresh" THEN {} ELSE ss
        IN /\ teams = d.teams /\ row = [s \in old |-> d.team] /\ members = {<<Owner[k], d.team>> : k \in d.table}
           /\ dirs = [id \in Ids |-> IF id = d.team THEN Files ELSE {}]
           /\ file = d.file /\ table = d.table /\ legacy = d.legacy /\ applied = d.applied
           /\ had = [rows |-> old, tokens |-> DOMAIN d.file \cup d.table,
                     slug |-> IF age = "single" THEN Default ELSE Other]
  BY DEF MigInit
<1>2. minted = {} /\ held = [a \in Actors |-> Idle] /\ up = FALSE /\ ops = 0 /\ step = "off" /\ tx = None /\ crashes = 0
  BY DEF MigInit
<1>3. Other \in Slugs /\ Other \in Ids /\ Other \notin Uuids /\ Owner \in [Tokens -> Handles]
      /\ age \in {"fresh", "single", "multi", "members"}
  BY MigrationsAssumption, TeamsAssumption DEF Ids
<1>4. TablesOK(teams, row, members) /\ SlugsOK(teams) /\ \A id \in DOMAIN teams : teams[id] = None
  BY <1>1, <1>3 DEF Data, NoFile, TablesOK, SlugsOK
<1>5. /\ dirs \in [Ids -> SUBSET Files] /\ table \subseteq Tokens /\ legacy \subseteq Files /\ applied \in {0, 2, 4}
      /\ DOMAIN file \subseteq Tokens /\ file \in [DOMAIN file -> {None, Default, Other, "stripped"}]
      /\ had \in [rows : SUBSET Sessions, tokens : SUBSET Tokens, slug : {Default, Other}]
  BY <1>1, <1>3 DEF Data, NoFile
<1>6. ~Worked(Uuid)
  BY <1>2, <1>5 DEF Worked, Uuid
<1>7. TeamsNamed
  BY <1>2, <1>4, <1>5 DEF TeamsNamed, Carried
<1>8. StartTyped
  BY <1>2, <1>5 DEF StartTyped, All
<1> QED
  BY <1>2, <1>4, <1>6, <1>7, <1>8, NamesAre DEF KeysOK

LEMMA NamesStep == MigInvariant /\ NamesInvariant /\ [MigNext]_vars => NamesInvariant'
<1> SUFFICES ASSUME MigInvariant, NamesInvariant, [MigNext]_vars PROVE NamesInvariant'
  OBVIOUS
<1>1. CASE Migrate
  <2>1. CASE MoveRoster \/ MoveVoiceprints
    BY <2>1, FileNames DEF MoveRoster, MoveVoiceprints
  <2> QED
    BY <1>1, <2>1, TokenNames, PlainNames, OldDataNames, MembershipNames, TransactionNames, RemapNames DEF Migrate
<1>2. CASE UNCHANGED vars
  BY <1>2 DEF vars, teamVars, migVars, NamesInvariant, MigTypeOK, TablesOK, SlugsOK, KeysOK, Worked
<1> QED
  BY <1>1, <1>2, PlainNames, CrashNames, WorkingNames DEF MigNext

LEMMA NamesHold == MigSpec => []NamesInvariant
<1>1. MigInit => NamesInvariant
  BY InitNames
<1>2. MigInvariant /\ NamesInvariant /\ [MigNext]_vars => NamesInvariant'
  BY NamesStep
<1> QED
  BY <1>1, <1>2, InvariantHolds, PTL DEF MigSpec

\* Every variable of the teams and of the start keeps its type.
THEOREM MigrationTypes == MigSpec => []MigTypeOK
<1>1. NamesInvariant => MigTypeOK
  BY DEF NamesInvariant
<1> QED
  BY <1>1, NamesHold, PTL

\* Where the shell keeps off a directory that is being migrated, queue.resolve_team_uuid never
\* has two rows to choose from once the server serves.
THEOREM NamesAreUnambiguous ==
  ASSUME ~ShellWhileDown PROVE MigSpec => []NamesMeanOneTeam
<1>1. MigInvariant /\ NamesInvariant => NamesMeanOneTeam
  <2> SUFFICES ASSUME MigInvariant, NamesInvariant, up, NEW x \in Ids, NEW i \in Resolve(x), NEW j \in Resolve(x)
               PROVE  i = j
    BY DEF NamesMeanOneTeam
  <2>1. Worked(Uuid)
    BY DEF MigInvariant, StepIsDue, Worked, Uuid, All
  <2>2. DOMAIN teams \subseteq Uuids
    BY <2>1, NamesAre DEF TeamsNamed, TablesOK, KeysOK, Ids
  <2>3. \A id \in DOMAIN teams : teams[id] \in Slugs
    BY <2>2, NamesAre DEF TeamsNamed, TablesOK, SlugsOK
  <2>4. i \in DOMAIN teams /\ j \in DOMAIN teams /\ (i = x \/ teams[i] = x) /\ (j = x \/ teams[j] = x)
    BY DEF Resolve
  <2>5. x # None /\ (x \in Uuids => x \notin Slugs)
    BY TeamsAssumption
  <2> QED
    BY <2>2, <2>3, <2>4, <2>5, NamesAre DEF TeamsNamed, SlugsOK
<1> QED
  BY <1>1, InvariantHolds, NamesHold, PTL
================================================================================
