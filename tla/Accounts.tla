-------------------------------- MODULE Accounts --------------------------------
(***************************************************************************)
(* Whom the terminal interface acts for: the server, token and team of the *)
(* app (client/tui/app.py), the client objects bound to them               *)
(* (client/api.py), the memberships, and teams.json (client/config.py).    *)
(* A request is made by a worker thread through the client that is the     *)
(* app's when the thread begins; a 401 makes it refresh the session once.  *)
(* A thread that was superseded or that asks an earlier client goes on.    *)
(* Nothing locks teams.json: whoever changes it loads it and saves it with *)
(* the change, over what others saved in between.                          *)
(***************************************************************************)
EXTENDS Naturals, Sequences, TLC

CONSTANTS
  Servers, Teams,
  Home,        \* the server of a team
  Configured,  \* the teams in teams.json at the start
  Jobs,        \* worker threads with a request
  Askers,      \* threads of _refresh_identity
  Attempts,    \* how often a refresh tries again without an answer
  MaxSwitches, MaxExpiries, MaxLogins, MaxLost, \* bounds
  NoOne

ASSUME AccountsAssumption ==
  /\ Home \in [Teams -> Servers]
  /\ Configured \subseteq Teams /\ Configured # {}
  /\ NoOne \notin Servers \cup Teams

VARIABLES
  app,      \* VezirTuiApp: server, token, team
  clients,  \* every VezirClient made: server, team, token
  api,      \* the app's client
  members,  \* memberships, from the last answer to /api/me
  asker,    \* threads of _refresh_identity
  call,     \* requests in progress
  config,   \* teams.json: the url and the pair of tokens of each entry
  active,   \* ... and its active team
  opened,   \* what a thread that refreshed has loaded of it, and the entry it is to change
  writing,  \* what the user interface's thread is doing to it
  torn,     \* has a thread loaded it, for another login, in the middle of a sign-in?
  issued,   \* server -> the number of the last pair it gave out
  expired,  \* server -> the access tokens up to this number are no longer good
  switches, expiries, logins, losses

appVars == <<app, clients, api, members>>
fileVars == <<config, active, opened, writing, torn>>
serverVars == <<issued, expired>>
boundVars == <<switches, expiries, logins, losses>>
accountVars == <<appVars, asker, call, fileVars, serverVars, boundVars>>

\* The n-th pair of tokens of a server; the access and the refresh token of a
\* pair are told apart by where they are used.
Pair(s, n) == [at |-> s, n |-> n]
Of(s) == {t \in Teams : Home[t] = s}
Accepts(s, k) == k.at = s /\ k.n > expired[s]
Nothing == [to |-> NoOne, file |-> <<>>, was |-> NoOne]
NotWriting == [step |-> "idle", team |-> NoOne, server |-> NoOne, pair |-> NoOne, file |-> <<>>, was |-> NoOne]

AccountsInit ==
  LET t == CHOOSE u \in Configured : TRUE IN
    /\ app = [server |-> Home[t], token |-> Pair(Home[t], 1), team |-> t]
    /\ active = t
    /\ clients = <<[server |-> Home[t], team |-> t, token |-> Pair(Home[t], 1)]>> /\ api = 1
    /\ members = {} /\ asker = [a \in Askers |-> NoOne] /\ call = [j \in Jobs |-> NoOne]
    /\ config = [u \in Configured |-> [url |-> Home[u], pair |-> Pair(Home[u], 1)]]
    /\ opened = [j \in Jobs |-> Nothing] /\ writing = NotWriting /\ torn = FALSE
    /\ issued = [s \in Servers |-> 1] /\ expired = [s \in Servers |-> 0]
    /\ switches = 0 /\ expiries = 0 /\ logins = 0 /\ losses = 0

-----------------------------------------------------------------------------
(* The app. *)

Rebind(s, k, t) ==
  /\ app' = [server |-> s, token |-> k, team |-> t]
  /\ clients' = Append(clients, [server |-> s, team |-> t, token |-> k])
  /\ api' = Len(clients')

\* The thread before is told to stop, and does not look.
AskIdentity(a) == asker[a] = NoOne /\ asker' = [asker EXCEPT ![a] = [step |-> "url"]]

\* all_teams: the entries of teams.json, and the other memberships with the
\* server and the token the app has now.
AllTeams ==
  {[slug |-> t, url |-> config[t].url, token |-> config[t].pair] : t \in DOMAIN config}
    \cup {[slug |-> t, url |-> app.server, token |-> app.token] : t \in members \ DOMAIN config}

\* The interface's thread does one thing at a time.
Writing(step, t, s, k) ==
  [step |-> step, team |-> t, server |-> s, pair |-> k, file |-> config, was |-> active]
Written(step) ==
  [step |-> step, team |-> writing.team, server |-> writing.server, pair |-> writing.pair,
   file |-> <<>>, was |-> NoOne]
Writes(step) == writing.step = step

\* switch_team, for ^t or a row of the Teams tab: set_active_team loads the file ...
SwitchTo(a) ==
  /\ Writes("idle") /\ asker[a] = NoOne
  /\ switches < MaxSwitches /\ switches' = switches + 1
  /\ \E e \in AllTeams :
       /\ e.slug # app.team
       /\ writing' = Writing("switch", e.slug, e.url, e.token)
  /\ UNCHANGED <<appVars, asker, call, config, active, opened, torn, serverVars, expiries, logins, losses>>

\* ... and saves it, if the team is in it.
Switched(a) ==
  /\ Writes("switch")
  /\ IF writing.team \in DOMAIN writing.file
     THEN config' = writing.file /\ active' = writing.team
     ELSE UNCHANGED <<config, active>>
  /\ Rebind(writing.server, writing.pair, writing.team)
  /\ writing' = NotWriting
  /\ AskIdentity(a)
  /\ UNCHANGED <<members, opened, torn, serverVars, boundVars>>

\* The thread reads the url and the token one after the other.
AskUrl(a) ==
  /\ asker[a] # NoOne /\ asker[a].step = "url"
  /\ asker' = [asker EXCEPT ![a] = [step |-> "token", server |-> app.server]]
  /\ UNCHANGED <<appVars, call, fileVars, serverVars, boundVars>>

AskToken(a) ==
  /\ asker[a] # NoOne /\ asker[a].step = "token"
  /\ LET s == asker[a].server IN
     asker' = [asker EXCEPT ![a] = IF Accepts(s, app.token) THEN [step |-> "answer", server |-> s]
                                   ELSE NoOne]
  /\ UNCHANGED <<appVars, call, fileVars, serverVars, boundVars>>

\* The answer is applied whoever the app acts for by now: a team that is not in
\* it is given up for one that is.
ApplyIdentity(a) ==
  /\ Writes("idle")
  /\ asker[a] # NoOne /\ asker[a].step = "answer"
  /\ members' = Of(asker[a].server)
  /\ IF app.team \in members' \/ members' = {} THEN UNCHANGED <<app, clients, api>>
     ELSE \E t \in members' : Rebind(app.server, app.token, t)
  /\ asker' = [asker EXCEPT ![a] = NoOne]
  /\ UNCHANGED <<call, fileVars, serverVars, boundVars>>

IdentityLost(a) ==
  /\ asker[a] # NoOne /\ asker[a].step = "answer"
  /\ losses < MaxLost /\ losses' = losses + 1
  /\ asker' = [asker EXCEPT ![a] = NoOne]
  /\ UNCHANGED <<appVars, call, fileVars, serverVars, switches, expiries, logins>>

-----------------------------------------------------------------------------
(* A request and the refresh it may need. *)

Start(j, kind) == [kind |-> kind, step |-> "start", client |-> 0, secret |-> NoOne, attempt |-> 1,
                   cancelled |-> FALSE]
At(j, step) == call[j] # NoOne /\ call[j].step = step
Is(j, kind) == call[j] # NoOne /\ call[j].kind = kind

\* team_refresh_token: the entry of the client's team, or of the active one; and
\* only for the server that issued it.
EntryOf(t) == IF t \in DOMAIN config THEN t ELSE active
RefreshToken(c) ==
  LET e == config[EntryOf(clients[c].team)] IN
  IF e.url = clients[c].server THEN e.pair ELSE NoOne

\* The server answers a good token of one of its own teams, and /api/me for any;
\* a 401 looks up the refresh token; any other refusal ends the request.
Serves(j, c) == call[j].kind = "teams" \/ Home[clients[c].team] = clients[c].server

Ask(j) ==
  /\ At(j, "start")
  /\ LET c == clients[api]  k == RefreshToken(api) IN
     call' = [call EXCEPT
       ![j].client = api,
       ![j].secret = IF Accepts(c.server, c.token) THEN NoOne ELSE k,
       ![j].step = IF Accepts(c.server, c.token) THEN IF Serves(j, api) THEN "served" ELSE "failed"
                   ELSE IF k = NoOne THEN "failed" ELSE "refresh"]
  /\ UNCHANGED <<appVars, asker, fileVars, serverVars, boundVars>>

\* The network fails before the answer: a refresh waits and begins again, unless
\* it was cancelled; the others end.
Unanswered(j) ==
  /\ At(j, "start")
  /\ losses < MaxLost /\ losses' = losses + 1
  /\ call' = [call EXCEPT ![j] = IF @.kind = "more" \/ @.attempt = Attempts
                                 THEN [@ EXCEPT !.step = "failed"]
                                 ELSE IF @.cancelled THEN NoOne ELSE [@ EXCEPT !.attempt = call[j].attempt + 1]]
  /\ UNCHANGED <<appVars, asker, fileVars, serverVars, switches, expiries, logins>>

Granted(j) ==
  /\ At(j, "refresh")
  /\ LET s == clients[call[j].client].server IN
     /\ call[j].secret.at = s
     /\ issued' = [issued EXCEPT ![s] = @ + 1]
     /\ call' = [call EXCEPT ![j].step = "granted", ![j].secret = Pair(s, issued[s] + 1)]
  /\ UNCHANGED <<appVars, asker, fileVars, expired, boundVars>>

\* The server no longer takes it, or cannot be reached.
NotGranted(j) ==
  /\ At(j, "refresh")
  /\ losses < MaxLost \/ call[j].secret.at # clients[call[j].client].server
  /\ losses' = IF losses < MaxLost THEN losses + 1 ELSE losses
  /\ call' = [call EXCEPT ![j].step = "failed"]
  /\ UNCHANGED <<appVars, asker, fileVars, serverVars, switches, expiries, logins>>

\* Before 0.24.0.
ToOneEntry(f, t, k) == [f EXCEPT ![t].pair = k]

\* fan_out_session: every entry of the same login gets the pair.
FanOut(f, t, k) == [u \in DOMAIN f |-> IF f[u].url = f[t].url THEN [f[u] EXCEPT !.pair = k] ELSE f[u]]

\* refresh_session loads the file for the entry of the client's team, or of what
\* is the active team by now;
Resolve(j) ==
  /\ At(j, "granted")
  /\ opened' = [opened EXCEPT ![j] = [to |-> EntryOf(clients[call[j].client].team), file |-> <<>>, was |-> NoOne]]
  /\ call' = [call EXCEPT ![j].step = "resolved"]
  /\ UNCHANGED <<appVars, asker, config, active, writing, torn, serverVars, boundVars>>

\* A sign-in has saved its own entry and not yet the others of its login.
HalfDone == Writes("added") \/ Writes("share")
OfAnother(t) ==
  HalfDone /\ {t, writing.team} \subseteq DOMAIN config /\ config[t].url # config[writing.team].url

\* fan_out_session loads it again,
Load(j) ==
  /\ At(j, "resolved")
  /\ opened' = [opened EXCEPT ![j] = [to |-> opened[j].to, file |-> config, was |-> active]]
  /\ torn' = (torn \/ OfAnother(opened[j].to))
  /\ call' = [call EXCEPT ![j].step = "loaded"]
  /\ UNCHANGED <<appVars, asker, config, active, writing, serverVars, boundVars>>

\* and saves the pair, unless the entry is gone; the client tells the app, whether
\* it is the app's or not.
Keep(j) ==
  /\ At(j, "loaded")
  /\ LET c == call[j].client  k == call[j].secret  o == opened[j] IN
     /\ IF o.to \in DOMAIN o.file
        THEN config' = FanOut(o.file, o.to, k) /\ active' = o.was
        ELSE UNCHANGED <<config, active>>
     /\ clients' = [clients EXCEPT ![c].token = k]
     /\ app' = [app EXCEPT !.token = k]
     /\ call' = [call EXCEPT ![j].step = "again", ![j].secret = NoOne]
  /\ opened' = [opened EXCEPT ![j] = Nothing]
  /\ UNCHANGED <<api, members, asker, writing, torn, serverVars, boundVars>>

Again(j) ==
  /\ At(j, "again")
  /\ LET c == clients[call[j].client] IN
     call' = [call EXCEPT ![j].step = IF Accepts(c.server, c.token) /\ Serves(j, call[j].client)
                                      THEN "served" ELSE "failed"]
  /\ UNCHANGED <<appVars, asker, fileVars, serverVars, boundVars>>

\* The Teams tab asks /api/me through the client; its answer is kept too.
OpenTeams(j) ==
  /\ call[j] = NoOne /\ \A i \in Jobs : ~Is(i, "teams")
  /\ call' = [call EXCEPT ![j] = Start(j, "teams")]
  /\ UNCHANGED <<appVars, asker, fileVars, serverVars, boundVars>>

TeamsRefreshed(j) ==
  /\ Is(j, "teams") /\ call[j].step \in {"served", "failed"}
  /\ members' = IF call[j].step = "served" THEN Of(clients[call[j].client].server) ELSE members
  /\ call' = [call EXCEPT ![j] = NoOne]
  /\ UNCHANGED <<app, clients, api, asker, fileVars, serverVars, boundVars>>

-----------------------------------------------------------------------------
Expire(s) ==
  /\ expiries < MaxExpiries /\ expired[s] < issued[s]
  /\ expired' = [expired EXCEPT ![s] = issued[s]] /\ expiries' = expiries + 1
  /\ UNCHANGED <<appVars, asker, call, fileVars, issued, switches, logins, losses>>

\* The modal signs in on the app's server; set_team_session loads the file,
Reauth(a) ==
  LET s == app.server  k == Pair(s, issued[s] + 1) IN
  /\ Writes("idle") /\ asker[a] = NoOne
  /\ logins < MaxLogins /\ logins' = logins + 1
  /\ issued' = [issued EXCEPT ![s] = @ + 1]
  /\ writing' = Writing("add", app.team, s, k)
  /\ UNCHANGED <<appVars, asker, call, config, active, opened, torn, expired, switches, expiries, losses>>

WithEntry(f, t, s, k) ==
  [u \in DOMAIN f \cup {t} |-> IF u = t THEN [url |-> s, pair |-> k] ELSE f[u]]

\* saves it with an entry for the team, new or not,
AddEntry ==
  /\ Writes("add")
  /\ config' = WithEntry(writing.file, writing.team, writing.server, writing.pair)
  /\ active' = writing.team
  /\ writing' = Written("added")
  /\ UNCHANGED <<appVars, asker, call, opened, torn, serverVars, boundVars>>

\* and calls fan_out_session, which loads it again
LoadForAll ==
  /\ Writes("added")
  /\ writing' = Writing("share", writing.team, writing.server, writing.pair)
  /\ UNCHANGED <<appVars, asker, call, config, active, opened, torn, serverVars, boundVars>>

\* and saves the pair for all the entries of the login.
ShareEntry ==
  /\ Writes("share")
  /\ IF writing.team \in DOMAIN writing.file
     THEN config' = FanOut(writing.file, writing.team, writing.pair) /\ active' = writing.was
     ELSE UNCHANGED <<config, active>>
  /\ writing' = Written("shared")
  /\ UNCHANGED <<appVars, asker, call, opened, torn, serverVars, boundVars>>

SignedIn(a) ==
  /\ Writes("shared")
  /\ Rebind(writing.server, writing.pair, writing.team)
  /\ writing' = NotWriting
  /\ AskIdentity(a)
  /\ UNCHANGED <<members, call, config, active, opened, torn, serverVars, boundVars>>

AccountsNext ==
  \/ \E a \in Askers : AskUrl(a) \/ AskToken(a) \/ ApplyIdentity(a) \/ IdentityLost(a)
  \/ \E a \in Askers : SwitchTo(a) \/ Reauth(a) \/ SignedIn(a)
  \/ AddEntry \/ LoadForAll \/ ShareEntry
  \/ \E j \in Jobs : Unanswered(j) \/ Granted(j) \/ NotGranted(j) \/ OpenTeams(j) \/ TeamsRefreshed(j)
  \/ \E j \in Jobs : Resolve(j) \/ Load(j) \/ Keep(j)
  \/ \E s \in Servers : Expire(s)

-----------------------------------------------------------------------------
Even(f) == \A t, u \in DOMAIN f : f[t].url = f[u].url => f[t].pair = f[u].pair

\* Entries of one login share one pair: a refresh for any of them, or a new
\* sign-in, is written to all, so that switching teams never goes back to a
\* pair that was rotated away (config.py: "Entries that share an identity now
\* share the pair").  Although copies of the file are saved over each other;
\* except between the two saves of a sign-in, and from then on if a refresh of
\* another login loads the file between them, for it may save it like that.
OnePairPerLogin == ~HalfDone /\ ~torn => Even(config)

\* api.py:204 "persists the new pair to every teams.json entry of the same
\* identity": no entry holds the pair of another server.
PairsStayHome == \A t \in DOMAIN config : config[t].pair.at = config[t].url

\* app.py:338 "Keep self.token in sync when the client silently refreshes":
\* what the snapshot readers take is the token of the client the app uses.
TokenInSync == app.token = clients[api].token

-----------------------------------------------------------------------------
(* The types, for the proofs.                                              *)

Pairs == [at: Servers, n: Nat]
Entries == [url: Servers, pair: Pairs]
Bindings == [server: Servers, team: Teams, token: Pairs]
Requests ==
  [kind: {"refresh", "more", "teams"}, client: Nat, secret: Pairs \cup {NoOne}, attempt: Nat, cancelled: BOOLEAN,
   step: {"start", "refresh", "granted", "resolved", "loaded", "again", "served", "failed"}]
Threads == [step: {"url"}] \cup [step: {"token", "answer"}, server: Servers]


\* teams.json, and a copy of it that a thread has loaded, if it has.
FileIsSound(f, a) == DOMAIN f \subseteq Teams /\ a \in DOMAIN f /\ f \in [DOMAIN f -> Entries]
CopyIsSound(f, a) == IF a = NoOne THEN DOMAIN f = {} ELSE FileIsSound(f, a)

FilesTypeOK ==
  /\ FileIsSound(config, active) /\ torn \in BOOLEAN
  /\ DOMAIN opened = Jobs /\ \A j \in Jobs : CopyIsSound(opened[j].file, opened[j].was)
  /\ CopyIsSound(writing.file, writing.was)
  /\ ~Writes("idle") => writing.team \in Teams /\ writing.server \in Servers /\ writing.pair \in Pairs

Asking == {"refresh", "granted", "resolved", "loaded", "again"}

AccountsTypeOK ==
  /\ app \in Bindings /\ clients \in Seq(Bindings) /\ api \in DOMAIN clients
  /\ members \in SUBSET Teams
  /\ asker \in [Askers -> Threads \cup {NoOne}]
  /\ FilesTypeOK
  /\ issued \in [Servers -> Nat] /\ expired \in [Servers -> Nat]
  /\ call \in [Jobs -> Requests \cup {NoOne}]
  /\ \A j \in Jobs :
       /\ call[j] # NoOne /\ call[j].step \in Asking => call[j].client \in DOMAIN clients
       /\ call[j] # NoOne /\ call[j].step \in {"granted", "resolved", "loaded"} => call[j].secret \in Pairs

-----------------------------------------------------------------------------
(* Why one login has one pair.                                             *)

\* Only the login of t may have more than one.
EvenBut(f, t) ==
  \A u, v \in DOMAIN f : f[u].url = f[v].url => f[u].pair = f[v].pair \/ f[u].url = f[t].url
HalfEven(f, t) == IF t \in DOMAIN f THEN EvenBut(f, t) ELSE Even(f)

\* Whoever saves a copy evens out what may be uneven in it.
FileIsEven == IF HalfDone THEN HalfEven(config, writing.team) ELSE Even(config)
WritingIsEven ==
  /\ Writes("switch") \/ Writes("add") => Even(writing.file)
  /\ Writes("share") => /\ HalfEven(writing.file, writing.team)
                        /\ writing.team \notin DOMAIN writing.file => Even(config)
OpenedIsEven == \A j \in Jobs : opened[j].to \in DOMAIN opened[j].file => EvenBut(opened[j].file, opened[j].to)
CopiesAreEven == ~torn => FileIsEven /\ WritingIsEven /\ OpenedIsEven
=============================================================================
