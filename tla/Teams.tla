--------------------------------- MODULE Teams ---------------------------------
(***************************************************************************)
(* Teams, their members, their sessions and their directories: the tables  *)
(* of server/queue.py and what three processes do to them between their    *)
(* transactions: an admin request and an upload in the server, a `vezir    *)
(* team' or `vezir session' command in a shell.  A team used to be keyed   *)
(* by its slug and is keyed by a uuid now, so an argument may be either.   *)
(***************************************************************************)
EXTENDS Naturals, FiniteSets, Functions

CONSTANTS
  Uuids, Slugs, Handles, Sessions,
  MaxOps,  \* bound: operations begun
  None     \* no team: team_id = ''

Actors == {"api", "cli", "upload"}
Ids == Uuids \cup Slugs

ASSUME TeamsAssumption ==
  /\ None \notin Ids
  /\ Uuids \cap Slugs = {}
  /\ IsFiniteSet(Ids)
  /\ MaxOps \in Nat

VARIABLES
  teams,    \* id -> slug (None: a row that predates slugs), of the teams there are
  members,  \* memberships: <<handle, id>>
  row,      \* session -> team_id, of the sessions in jobs
  dirs,     \* id -> the files in teams/<id>/, {} when there is no directory
  minted,   \* the uuids already drawn
  held,     \* what each actor carries from one transaction to the next
  up,       \* the server serves
  ops

teamVars == <<teams, members, row, dirs, minted, held, up, ops>>

Files == {"roster", "voices"}
Idle == [op |-> "idle"]

Live(id) == id \in DOMAIN teams
With(f, x, y) == [z \in DOMAIN f \cup {x} |-> IF z = x THEN y ELSE f[z]]

\* WHERE id = ? OR slug = ?; two rows may match, SQLite returns either.
Resolve(x) == {id \in DOMAIN teams : id = x \/ teams[id] = x}
Fresh == CHOOSE u \in Uuids : u \notin minted
SlugTaken(s, but) == \E id \in DOMAIN teams \ {but} : teams[id] = s

\* The shell works on the file whether the server is up or not.
Runs(a) == a = "cli" \/ up
Begin(a, what) ==
  /\ Runs(a) /\ held[a] = Idle /\ ops < MaxOps
  /\ held' = [held EXCEPT ![a] = what]
  /\ ops' = ops + 1
Done(a) == held' = [held EXCEPT ![a] = Idle] /\ UNCHANGED ops
Holds(a, op) == held[a].op = op

-----------------------------------------------------------------------------
CreateTeam(a, s) ==
  /\ Runs(a) /\ held[a] = Idle /\ ops < MaxOps
  /\ minted # Uuids
  /\ ~SlugTaken(s, None)
  /\ teams' = With(teams, Fresh, s)
  /\ minted' = minted \cup {Fresh}
  /\ ops' = ops + 1
  /\ UNCHANGED <<members, row, dirs, held, up>>

\* The team is resolved in one transaction and renamed in another.
RenameBegin(a, x, s) ==
  \E id \in Resolve(x) :
    /\ Begin(a, [op |-> "rename", id |-> id, slug |-> s])
    /\ UNCHANGED <<teams, members, row, dirs, minted, up>>

RenameEnd(a) ==
  /\ Holds(a, "rename")
  /\ LET id == held[a].id IN
     teams' = IF Live(id) /\ ~SlugTaken(held[a].slug, id)
              THEN [teams EXCEPT ![id] = held[a].slug] ELSE teams
  /\ Done(a)
  /\ UNCHANGED <<members, row, dirs, minted, up>>

-----------------------------------------------------------------------------
Rows(id) == {s \in DOMAIN row : row[s] = id}
Roster(id) == {m \in members : m[2] = id}

DeleteBegin(a, id, to) ==
  /\ Live(id) /\ to \in DOMAIN teams \cup {None} /\ id # to
  /\ Begin(a, [op |-> "delete", id |-> id, to |-> to])
  /\ UNCHANGED <<teams, members, row, dirs, minted, up>>

\* The statement that counts the sessions opens no transaction; the lock that
\* makes the block one step for the server's threads is no other process's.
DeleteCount(a) ==
  /\ a = "cli" /\ Holds(a, "delete")
  /\ held' = [held EXCEPT ![a] = [op |-> "counted", id |-> @.id, to |-> @.to,
                                  rows |-> Rows(@.id) # {}, roster |-> Roster(@.id) # {}]]
  /\ UNCHANGED <<teams, members, row, dirs, minted, up, ops>>

\* One transaction: a refusal or a foreign key (a member who has joined since)
\* rolls everything back.
RefusedForMembers(to, rows, roster) == to = None /\ roster  \* the sessions are not asked for

Refused(to, rows, roster) == to = None /\ (rows \/ roster)

DeleteRows(a, rows, roster) ==
  LET h == held[a]
      refused == Refused(h.to, rows, roster)
      dangling == ~roster /\ Roster(h.id) # {} IN
  IF refused \/ dangling
  THEN Done(a) /\ UNCHANGED <<teams, members, row>>
  ELSE /\ row' = [s \in DOMAIN row |-> IF rows /\ row[s] = h.id THEN h.to ELSE row[s]]
       /\ members' = members \ Roster(h.id)
       /\ teams' = Restrict(teams, DOMAIN teams \ {h.id})
       /\ held' = [held EXCEPT ![a] = [op |-> "rmtree", id |-> h.id]]
       /\ UNCHANGED ops

DeleteTeam(a) ==
  /\ \/ a = "api" /\ Holds(a, "delete") /\ DeleteRows(a, Rows(held[a].id) # {}, Roster(held[a].id) # {})
     \/ a = "cli" /\ Holds(a, "counted") /\ DeleteRows(a, held[a].rows, held[a].roster)
  /\ UNCHANGED <<dirs, minted, up>>

DeleteDir(a) ==
  /\ Holds(a, "rmtree")
  /\ dirs' = [dirs EXCEPT ![held[a].id] = {}]
  /\ Done(a)
  /\ UNCHANGED <<teams, members, row, minted, up>>

-----------------------------------------------------------------------------
AddMemberBegin(a, h, x) ==
  \E id \in Resolve(x) :
    /\ Begin(a, [op |-> "add", id |-> id, who |-> h])
    /\ UNCHANGED <<teams, members, row, dirs, minted, up>>

\* REFERENCES teams(id), with foreign_keys on.
AddMemberEnd(a) ==
  /\ Holds(a, "add")
  /\ members' = IF Live(held[a].id) THEN members \cup {<<held[a].who, held[a].id>>} ELSE members
  /\ Done(a)
  /\ UNCHANGED <<teams, row, dirs, minted, up>>

RemoveMember(a, h, x) ==
  /\ Runs(a) /\ held[a] = Idle /\ ops < MaxOps
  /\ \E id \in Resolve(x) : <<h, id>> \in members /\ members' = members \ {<<h, id>>}
  /\ ops' = ops + 1
  /\ UNCHANGED <<teams, row, dirs, minted, held, up>>

-----------------------------------------------------------------------------
(* Sessions.  jobs.team_id references nothing.                             *)

Member(h, id) == <<h, id>> \in members
Visible(h, s) == s \in DOMAIN row /\ Member(h, row[s])

\* The team is checked when the request comes; the row is written when the
\* recording is complete, minutes later (an import writes it the same way).
UploadBegin(h, s, id) ==
  /\ s \notin DOMAIN row /\ Member(h, id)
  /\ Begin("upload", [op |-> "upload", id |-> id, ses |-> s])
  /\ UNCHANGED <<teams, members, row, dirs, minted, up>>

UploadEnd ==
  /\ Holds("upload", "upload")
  /\ row' = With(row, held["upload"].ses, held["upload"].id)
  /\ Done("upload")
  /\ UNCHANGED <<teams, members, dirs, minted, up>>

\* A member moves a session to another team of his: one conditional update.
MoveBegin(h, s, x) ==
  /\ Visible(h, s)
  /\ \E id \in Resolve(x) :
       /\ id # row[s] /\ Member(h, id)
       /\ Begin("api", [op |-> "move", ses |-> s, from |-> row[s], id |-> id])
  /\ UNCHANGED <<teams, members, row, dirs, minted, up>>

MoveEnd ==
  /\ Holds("api", "move")
  /\ LET h == held["api"] IN
     row' = IF h.ses \in DOMAIN row /\ row[h.ses] = h.from THEN [row EXCEPT ![h.ses] = h.id] ELSE row
  /\ Done("api")
  /\ UNCHANGED <<teams, members, dirs, minted, up>>

\* `vezir session move': the slug is resolved again after the confirmation.
AdminMoveBegin(s, x) ==
  /\ s \in DOMAIN row
  /\ \E id \in Resolve(x) : id # row[s] /\ Begin("cli", [op |-> "setteam", ses |-> s, id |-> id])
  /\ UNCHANGED <<teams, members, row, dirs, minted, up>>

AdminMoveEnd ==
  /\ Holds("cli", "setteam")
  /\ LET h == held["cli"] IN
     row' = IF h.ses \in DOMAIN row THEN [row EXCEPT ![h.ses] = h.id] ELSE row
  /\ Done("cli")
  /\ UNCHANGED <<teams, members, dirs, minted, up>>

DeleteSession(h, s) ==
  /\ up /\ ops < MaxOps /\ Visible(h, s)
  /\ row' = Restrict(row, DOMAIN row \ {s})
  /\ ops' = ops + 1
  /\ UNCHANGED <<teams, members, dirs, minted, held, up>>

-----------------------------------------------------------------------------
Admin(a) ==
  \/ \E s \in Slugs : CreateTeam(a, s)
  \/ \E x \in Slugs, s \in Slugs : RenameBegin(a, x, s)
  \/ RenameEnd(a)
  \/ \E id \in Ids, to \in Ids \cup {None} : DeleteBegin(a, id, to)
  \/ DeleteCount(a)
  \/ DeleteTeam(a)
  \/ DeleteDir(a)
  \/ \E h \in Handles, x \in Slugs : AddMemberBegin(a, h, x)
  \/ AddMemberEnd(a)
  \/ \E h \in Handles, x \in Slugs : RemoveMember(a, h, x)

Shell ==
  \/ Admin("cli")
  \/ \E s \in Sessions, x \in Slugs : AdminMoveBegin(s, x)
  \/ AdminMoveEnd

Requests ==
  \/ Admin("api")
  \/ \E h \in Handles, s \in Sessions, id \in Ids : UploadBegin(h, s, id)
  \/ UploadEnd
  \/ \E h \in Handles, s \in Sessions, x \in Slugs : MoveBegin(h, s, x)
  \/ MoveEnd
  \/ \E h \in Handles, s \in Sessions : DeleteSession(h, s)

-----------------------------------------------------------------------------
Orphan(s) == s \in DOMAIN row /\ ~Live(row[s])

\* An actor that still carries a team somebody has deleted.
Stale == \E a \in Actors : held[a].op \in {"upload", "move", "setteam"} /\ ~Live(held[a].id)

-----------------------------------------------------------------------------
(* Why a session keeps its team: no uuid is drawn twice, and no actor      *)
(* carries a reassignment to the team that it deletes.                     *)

Minted(x) == x \in Uuids => x \in minted
CarriedIsSound(h) ==
  /\ h.op \in {"upload", "move", "setteam"} => Minted(h.id)
  /\ h.op \in {"delete", "counted"} => h.id # h.to /\ Minted(h.to)
  /\ h.op = "counted" => h.rows \in BOOLEAN /\ h.roster \in BOOLEAN
  /\ h.op = "add" => h.who \in Handles

TeamsInvariant ==
  /\ minted \subseteq Uuids /\ up \in BOOLEAN /\ ops \in Nat
  /\ teams = [id \in DOMAIN teams |-> teams[id]] /\ \A id \in DOMAIN teams : id \in Ids /\ Minted(id)
  /\ row = [s \in DOMAIN row |-> row[s]] /\ \A s \in DOMAIN row : Minted(row[s])
  /\ members \subseteq Handles \X Ids /\ \A m \in members : Minted(m[2])
  /\ held = [a \in Actors |-> held[a]] /\ \A a \in Actors : CarriedIsSound(held[a])
  /\ ops = 0 => \A a \in Actors : held[a] = Idle

=================================================================================
