------------------------------- MODULE Migrations -------------------------------
(***************************************************************************)
(* The start of the server on a data directory of any age                  *)
(* (server/migrations.py): ten migrations in order, each recorded when it  *)
(* has succeeded, each of several commits and file moves, with a crash     *)
(* between any two of them; then the teams of module Teams.                *)
(***************************************************************************)
EXTENDS Teams, TLC

CONSTANTS
  Tokens,          \* bearer tokens; the handle and, in old files, the team of each
  Owner,
  Ages,            \* the ages a data directory may have
  Default, Other,  \* the slug single-team data moves to, and an old team's
  ShellWhileDown,  \* may the operator use the shell while the server is down?
  MaxCrashes       \* bound

ASSUME MigrationsAssumption ==
  /\ Owner \in [Tokens -> Handles]
  /\ {Default, Other} \subseteq Slugs /\ Default # Other
  /\ Ages \subseteq {"fresh", "single", "multi", "members"}
  /\ ShellWhileDown \in BOOLEAN
  /\ MaxCrashes \in Nat

VARIABLES
  applied,  \* how many migrations schema_migrations records, a prefix of the list
  step,     \* where the server's start is
  tx,       \* the tables as they were before the transaction of step "remap", or None
  file,     \* tokens.json: its tokens' teams (None: no team_id), or {} when renamed
  table,    \* the tokens table
  legacy,   \* the single-team files still in the data directory
  crashes,
  had       \* what the directory held when the new version was installed

migVars == <<applied, step, tx, file, table, legacy, crashes, had>>
vars == <<teamVars, migVars>>

Uuid == 4    \* how many are applied when the uuid migration is due
All == 6     \* the additive ones (tables, columns) count as one

NoFile == [k \in {} |-> None]
Start == "start"

Data(age) ==
  CASE age = "fresh" -> [teams |-> NoFile, team |-> None, file |-> NoFile, table |-> {}, legacy |-> {}, applied |-> 0]
    [] age = "single" -> [teams |-> NoFile, team |-> None, file |-> [k \in Tokens |-> None], table |-> {},
                          legacy |-> Files, applied |-> 0]
    [] age = "multi" -> [teams |-> [id \in {Other} |-> None], team |-> Other, file |-> [k \in Tokens |-> Other],
                         table |-> {}, legacy |-> {}, applied |-> 2]
    [] age = "members" -> [teams |-> [id \in {Other} |-> None], team |-> Other, file |-> NoFile, table |-> Tokens,
                           legacy |-> {}, applied |-> 4]

MigInit ==
  \E age \in Ages, ss \in SUBSET Sessions :
    LET d == Data(age)
        old == IF age = "fresh" THEN {} ELSE ss IN
    /\ teams = d.teams
    /\ row = [s \in old |-> d.team]
    /\ members = {<<Owner[k], d.team>> : k \in d.table}
    /\ dirs = [id \in Ids |-> IF id = d.team THEN Files ELSE {}]
    /\ file = d.file /\ table = d.table /\ legacy = d.legacy /\ applied = d.applied
    /\ had = [rows |-> old, tokens |-> DOMAIN d.file \cup d.table,
              slug |-> IF age = "single" THEN Default ELSE Other]
    /\ minted = {} /\ held = [a \in Actors |-> Idle] /\ up = FALSE /\ ops = 0
    /\ step = "off" /\ tx = None /\ crashes = 0

-----------------------------------------------------------------------------
Boot ==
  /\ step = "off"
  /\ step' = Start
  /\ UNCHANGED <<teamVars, applied, tx, file, table, legacy, crashes, had>>

At(n) == step = Start /\ applied = n
Goto(s) == step' = s

\* migration <name> FAILED; refusing to start.
Fails ==
  /\ step' = "off" /\ tx' = None
  /\ IF step = "remap" THEN teams' = tx.teams /\ row' = tx.row /\ members' = tx.members
     ELSE UNCHANGED <<teams, row, members>>

Keys == DOMAIN teams \cup {teams[id] : id \in DOMAIN teams}
WithoutLegacyTeam == teams  \* the team is not made

WithLegacyTeam == IF Default \in Keys THEN teams ELSE With(teams, Default, None)
Unassigned == {k \in DOMAIN file : file[k] = None}

\* 0.6.0, committed as one: the legacy team and the sessions that had none.
BackfillJobs ==
  /\ At(0)
  /\ LET old == Rows(None) # {} \/ Unassigned # {} \/ "roster" \in legacy IN
     /\ teams' = IF old THEN WithLegacyTeam ELSE teams
     /\ row' = [s \in DOMAIN row |-> IF row[s] = None THEN Default ELSE row[s]]
     /\ Goto(IF old THEN "tokens" ELSE "mark")
  /\ UNCHANGED <<members, dirs, minted, held, up, ops, applied, tx, file, table, legacy, crashes, had>>

BackfillTokens ==
  /\ step = "tokens"
  /\ file' = [k \in DOMAIN file |-> IF file[k] = None THEN Default ELSE file[k]]
  /\ Goto("roster")
  /\ UNCHANGED <<teamVars, applied, tx, table, legacy, crashes, had>>

\* shutil.move of a file of single-team data, unless it has been moved.
MoveFile(f) ==
  IF f \in legacy /\ f \notin dirs[Default]
  THEN dirs' = [dirs EXCEPT ![Default] = @ \cup {f}] /\ legacy' = legacy \ {f}
  ELSE UNCHANGED <<dirs, legacy>>

MoveRoster ==
  /\ step = "roster"
  /\ MoveFile("roster")
  /\ Goto("mark")
  /\ UNCHANGED <<teams, members, row, minted, held, up, ops, applied, tx, file, table, crashes, had>>

\* 0.6.2
VoiceprintTeam ==
  /\ At(1)
  /\ teams' = IF "voices" \in legacy THEN WithLegacyTeam ELSE teams
  /\ Goto("voices")
  /\ UNCHANGED <<members, row, dirs, minted, held, up, ops, applied, tx, file, table, legacy, crashes, had>>

MoveVoiceprints ==
  /\ step = "voices"
  /\ MoveFile("voices")
  /\ Goto("mark")
  /\ UNCHANGED <<teams, members, row, minted, held, up, ops, applied, tx, file, table, crashes, had>>

\* 0.7.0: INSERT OR IGNORE does not ignore a foreign key.
TeamsOfTokens == {<<Owner[k], file[k]>> : k \in {x \in DOMAIN file : file[x] \in Ids}}

BackfillMemberships ==
  /\ At(2)
  /\ IF \A m \in TeamsOfTokens : Live(m[2])
     THEN members' = members \cup TeamsOfTokens /\ Goto("strip") /\ UNCHANGED <<teams, row, tx>>
     ELSE Fails
  /\ UNCHANGED <<dirs, minted, held, up, ops, applied, file, table, legacy, crashes, had>>

StripTokens ==
  /\ step = "strip"
  /\ file' = [k \in DOMAIN file |-> "stripped"]
  /\ Goto("mark")
  /\ UNCHANGED <<teamVars, applied, tx, table, legacy, crashes, had>>

\* 0.7.2
ImportTokens ==
  /\ At(3)
  /\ table' = table \cup DOMAIN file
  /\ Goto("rename")
  /\ UNCHANGED <<teamVars, applied, tx, file, legacy, crashes, had>>

RenameTokensFile ==
  /\ step = "rename"
  /\ file' = NoFile
  /\ Goto("mark")
  /\ UNCHANGED <<teamVars, applied, tx, table, legacy, crashes, had>>

\* 0.7.4: one transaction for all teams, and a directory renamed within it.
UuidBegin ==
  /\ At(Uuid)
  /\ tx' = [teams |-> teams, row |-> row, members |-> members]
  /\ Goto("remap")
  /\ UNCHANGED <<teamVars, applied, file, table, legacy, crashes, had>>

RepointRowsOnly(id, u) ==  \* the memberships stay with the old id
  /\ teams' = With(Restrict(teams, DOMAIN teams \ {id}), u, id)
  /\ row' = [s \in DOMAIN row |-> IF row[s] = id THEN u ELSE row[s]]
  /\ members' = members

Repoint(id, u) ==
  /\ teams' = With(Restrict(teams, DOMAIN teams \ {id}), u, id)
  /\ row' = [s \in DOMAIN row |-> IF row[s] = id THEN u ELSE row[s]]
  /\ members' = {<<m[1], IF m[2] = id THEN u ELSE m[2]>> : m \in members}

Remap(id) ==
  /\ step = "remap" /\ Live(id) /\ teams[id] = None /\ minted # Uuids
  /\ IF SlugTaken(id, None)
     THEN Fails /\ UNCHANGED <<dirs, minted>>
     ELSE /\ Repoint(id, Fresh)
          /\ minted' = minted \cup {Fresh}
          /\ dirs' = [dirs EXCEPT ![Fresh] = dirs[id], ![id] = {}]
          /\ UNCHANGED <<step, tx>>
  /\ UNCHANGED <<held, up, ops, applied, file, table, legacy, crashes, had>>

UuidCommit ==
  /\ step = "remap" /\ \A id \in DOMAIN teams : teams[id] # None
  /\ tx' = None
  /\ Goto("mark")
  /\ UNCHANGED <<teamVars, applied, file, table, legacy, crashes, had>>

\* 0.10.0 to 0.27.0: tables and columns that may be there already.
Additive ==
  /\ At(Uuid + 1)
  /\ Goto("mark")
  /\ UNCHANGED <<teamVars, applied, tx, file, table, legacy, crashes, had>>

MarkApplied ==
  /\ step = "mark"
  /\ applied' = applied + 1
  /\ Goto(Start)
  /\ UNCHANGED <<teamVars, tx, file, table, legacy, crashes, had>>

Serve ==
  /\ At(All)
  /\ Goto("serving") /\ up' = TRUE
  /\ UNCHANGED <<teams, members, row, dirs, minted, held, ops, applied, tx, file, table, legacy, crashes, had>>

Crash ==
  /\ step # "off" /\ crashes < MaxCrashes
  /\ Fails
  /\ up' = FALSE /\ crashes' = crashes + 1
  /\ held' = [held EXCEPT !["api"] = Idle, !["upload"] = Idle]
  /\ UNCHANGED <<dirs, minted, ops, applied, file, table, legacy, had>>

Migrate ==
  \/ BackfillJobs
  \/ BackfillTokens
  \/ MoveRoster
  \/ VoiceprintTeam
  \/ MoveVoiceprints
  \/ BackfillMemberships
  \/ StripTokens
  \/ ImportTokens
  \/ RenameTokensFile
  \/ UuidBegin
  \/ \E id \in Ids : Remap(id)
  \/ UuidCommit
  \/ Additive
  \/ MarkApplied
  \/ Serve

\* A shell waits for the transaction of a migration (busy_timeout).
Work ==
  /\ step # "remap" /\ (up \/ ShellWhileDown)
  /\ Shell \/ Requests
  /\ UNCHANGED migVars

MigNext == Boot \/ Migrate \/ Crash \/ Work

MigSpec == MigInit /\ [][MigNext]_vars /\ WF_vars(Boot) /\ WF_vars(Migrate)

-----------------------------------------------------------------------------
(* Properties.                                                             *)

\* Whatever the age of the directory and wherever its starts were interrupted,
\* the first thing the server serves is the data it had: every session is in
\* the team it was in, every token is in the table and its owner is a member.
ArrivesWhole ==
  up /\ ops = 0 =>
    /\ \A s \in had.rows : s \in DOMAIN row /\ Live(row[s]) /\ teams[row[s]] = had.slug
    /\ had.tokens \subseteq table
    /\ \A k \in had.tokens : \E id \in Resolve(had.slug) : Member(Owner[k], id)

\* A session loses its team only to somebody who still carried the team when
\* it was deleted, or whose count of its sessions was out of date: deleting a
\* team leaves none of the sessions it has counted.
OnlyRacesOrphan ==
  [][\A s \in Sessions : ~Orphan(s) /\ Orphan(s)' =>
       \/ Stale
       \/ held["cli"].op = "counted" /\ ~held["cli"].rows
       \/ \E a \in Actors : held[a].op \in {"delete", "counted"} /\ held[a].to # None /\ ~Live(held[a].to)]_vars

\* The server comes up after any interrupted start.
ComesUp == []<>up

\* migrations.py:20 "if half of the work happened before a crash, the second
\* attempt must finish without producing duplicates or losing prior work."
\* of the roster and the voiceprints of a team that had sessions.
FilesArrive ==
  up /\ ops = 0 /\ had.rows # {} => \E id \in Resolve(had.slug) : dirs[id] = Files

\* queue.py:1092 "fail loudly when the destination team doesn't exist, instead
\* of silently leaving an orphaned job that's invisible to every token."
EverySessionHasATeam == up => \A s \in Sessions : ~Orphan(s)

-----------------------------------------------------------------------------
(* Why the data arrives whole.                                             *)

StepIsDue ==
  /\ applied \in 0..All
  /\ step \in {"off", Start, "tokens", "roster", "voices", "strip", "rename", "remap", "mark", "serving"}
  /\ step \in {"tokens", "roster"} => applied = 0
  /\ step = "voices" => applied = 1
  /\ step = "strip" => applied = 2
  /\ step = "rename" => applied = 3
  /\ step = "remap" => applied = Uuid
  /\ step = "mark" => applied < All
  /\ up => step = "serving" /\ applied = All

\* What a rollback restores is what the transaction read: it orphans nothing
\* that the transaction had not found orphaned.
RollbackIsSound ==
  step = "remap" =>
    /\ tx.teams = [id \in DOMAIN tx.teams |-> tx.teams[id]]
    /\ \A id \in DOMAIN tx.teams : id \in Ids /\ Minted(id)
    /\ tx.row = [s \in DOMAIN tx.row |-> tx.row[s]] /\ DOMAIN tx.row = DOMAIN row
    /\ \A s \in DOMAIN tx.row : Minted(tx.row[s]) /\ (tx.row[s] \notin DOMAIN tx.teams => ~Live(row[s]))
    /\ tx.members \subseteq Handles \X Ids /\ \A m \in tx.members : Minted(m[2])

\* All there was is in one team, and the owners of the tokens are its members.
InTeam(t, r, id, slug) ==
  DOMAIN t = {id} /\ t[id] = slug /\ DOMAIN r = had.rows /\ \A s \in had.rows : r[s] = id
Belong(m, id) == \A k \in had.tokens : <<Owner[k], id>> \in m

Unmade ==
  /\ applied = 0 /\ step \in {"off", Start}
  /\ DOMAIN teams = {} /\ DOMAIN row = had.rows /\ \A s \in had.rows : row[s] = None
  /\ had.tokens = DOMAIN file /\ \A k \in had.tokens : file[k] = None

KeyedBySlug(t, r) == InTeam(t, r, had.slug, None)
KeyedByUuid(t, r) == \E u \in Uuids : InTeam(t, r, u, had.slug)

\* The migration that is due when n are recorded has done its work.
Worked(n) == applied > n \/ (applied = n /\ step = "mark")

TokensArrive ==
  /\ applied < 3 => had.tokens \subseteq DOMAIN file
  /\ applied < 4 => had.tokens \subseteq DOMAIN file \cup table
  /\ Worked(3) \/ step = "rename" => had.tokens \subseteq table
  /\ applied < 3 => \A k \in had.tokens :
       k \in DOMAIN file =>
         \/ file[k] = None /\ ~Worked(0) /\ step # "roster"
         \/ file[k] = had.slug
         \/ <<Owner[k], had.slug>> \in members
  /\ Worked(2) \/ step = "strip" => \A id \in DOMAIN teams : Belong(members, id)

Arriving ==
  ops = 0 /\ had.rows \cup had.tokens # {} =>
    /\ Unmade \/ (KeyedBySlug(teams, row) /\ ~Worked(Uuid)) \/ (KeyedByUuid(teams, row) /\ applied >= Uuid)
    /\ applied = 0 => had.slug = Default
    /\ TokensArrive
    /\ step = "remap" => /\ KeyedBySlug(tx.teams, tx.row) \/ KeyedByUuid(tx.teams, tx.row)
                         /\ \A id \in DOMAIN tx.teams : Belong(tx.members, id)

FilesAreSound ==
  /\ file = [k \in DOMAIN file |-> file[k]] /\ DOMAIN file \subseteq Tokens
  /\ had.tokens \subseteq Tokens /\ had.slug \in {Default, Other}
  /\ "voices" \in legacy => had.slug = Default

MigInvariant == TeamsInvariant /\ StepIsDue /\ RollbackIsSound /\ Arriving /\ FilesAreSound

-----------------------------------------------------------------------------
(* Why a name means one team.                                              *)

\* "WHERE id = ? OR slug = ?" and fetchone (queue.resolve_team_uuid): while the server serves,
\* no name, slug or uuid, has two rows to choose from, whatever was created and renamed.
NamesMeanOneTeam == up => \A x \in Ids : \A i, j \in Resolve(x) : i = j

\* What an actor may carry.
Carried ==
  {Idle} \cup [op : {"rename"}, id : Ids, slug : Slugs]
         \cup [op : {"delete"}, id : Ids, to : Ids \cup {None}]
         \cup [op : {"counted"}, id : Ids, to : Ids \cup {None}, rows : BOOLEAN, roster : BOOLEAN]
         \cup [op : {"rmtree"}, id : Ids]
         \cup [op : {"add"}, id : Ids, who : Handles]
         \cup [op : {"upload"}, id : Ids, ses : Sessions]
         \cup [op : {"move"}, ses : Sessions, from : Ids \cup {None}, id : Ids]
         \cup [op : {"setteam"}, ses : Sessions, id : Ids]

TablesOK(t, r, m) ==
  /\ DOMAIN t \subseteq Ids /\ t \in [DOMAIN t -> Slugs \cup {None}]
  /\ DOMAIN r \subseteq Sessions /\ r \in [DOMAIN r -> Ids \cup {None}]
  /\ m \subseteq Handles \X Ids

MigTypeOK ==
  /\ TablesOK(teams, row, members)
  /\ dirs \in [Ids -> SUBSET Files]
  /\ minted \subseteq Uuids /\ held \in [Actors -> Carried] /\ up \in BOOLEAN /\ ops \in Nat
  /\ applied \in 0..All
  /\ step \in {"off", Start, "tokens", "roster", "voices", "strip", "rename", "remap", "mark", "serving"}
  /\ IF step = "remap" THEN TablesOK(tx.teams, tx.row, tx.members) ELSE tx = None
  /\ DOMAIN file \subseteq Tokens /\ file \in [DOMAIN file -> {None, Default, Other, "stripped"}]
  /\ table \subseteq Tokens /\ legacy \subseteq Files /\ crashes \in Nat
  /\ had \in [rows : SUBSET Sessions, tokens : SUBSET Tokens, slug : {Default, Other}]

\* The column is UNIQUE; a uuid has a slug from the start.
SlugsOK(t) ==
  /\ \A i, j \in DOMAIN t : t[i] = t[j] /\ t[i] # None => i = j
  /\ \A id \in DOMAIN t \cap Uuids : t[id] # None

\* A team that is still keyed by its slug has none in the column, before the uuid migration.
KeysOK(t) == \A id \in DOMAIN t \cap Slugs : t[id] = None /\ ~Worked(Uuid)

NamesInvariant ==
  /\ MigTypeOK
  /\ SlugsOK(teams) /\ (step = "remap" => SlugsOK(tx.teams))
  /\ ~ShellWhileDown => KeysOK(teams) /\ (step = "remap" => KeysOK(tx.teams))
=================================================================================
