--------------------------- MODULE RefreshSessions ---------------------------
(***************************************************************************)
(* The session families of one identity (server/sessions_auth.py) and the  *)
(* clients that refresh them (client/api.py, client/config.py).            *)
(*                                                                         *)
(* A family holds one current refresh token.  POST /api/auth/refresh       *)
(* consumes it and answers with a pair whose refresh token is new.  The    *)
(* token consumed last is answered again, with the same pair, within a     *)
(* grace window; any other consumed token ends the family.                 *)
(*                                                                         *)
(* A CALL is one HTTP request of one of the client's processes with the    *)
(* thread that serves it.  The processes share the stored pair             *)
(* (teams.json).  Answers may be lost or late.  rotate() is cut where it   *)
(* opens a new transaction: waiting for the lock, the exchange, the        *)
(* re-check of the identity, the note for the access check.                *)
(*                                                                         *)
(* Time is counted in parts of a second, Hz to one: the database stamps    *)
(* whole seconds and the grace cache does not.  Access tokens are taken to *)
(* be unexpired; the admin bit is data.                                    *)
(***************************************************************************)
EXTENDS Naturals

CONSTANTS
  Sids,      \* the families
  Calls,     \* requests that may be under way at once
  AgentOf,   \* the User-Agent a call is made with
  NoAgent,   \* the User-Agent create_session stores
  NoCall, NoSid,
  Hz,
  Grace,     \* seconds: config.refresh_grace_seconds
  Idle,      \*          config.refresh_idle_ttl_seconds
  Cap,       \*          config.session_max_ttl_seconds
  Reload,    \*          _REVOKED_REFRESH_SEC
  MaxTime, MaxTokens, MaxBoots,  \* bounds of the checked instance
  Faults     \* what may go wrong: "crash", "lookup", "load"

ASSUME NamesAssumption == NoCall \notin Calls /\ NoSid \notin Sids
ASSUME TimesAssumption ==
  /\ Hz \in Nat \ {0}
  /\ Grace \in Nat /\ Idle \in Nat /\ Cap \in Nat /\ Reload \in Nat
  /\ MaxTime \in Nat /\ MaxTokens \in Nat /\ MaxBoots \in Nat

VARIABLES
  now,
  minted,    \* tokens are numbered as they are made
  session,   \* the sessions table
  history,   \* session_refresh_history; to, agent and boot are there for the properties
  cache,     \* _GRACE_CACHE
  lock,      \* the call that holds _ROTATE_LOCK
  call,
  answers,   \* the exchanges the clients were told of
  store,     \* the refresh token in teams.json
  noted,     \* _REVOKED_SIDS
  loadedAt,  \* _REVOKED_LOADED_AT, NotLoaded while _REVOKED_LOADED is false
  unnoted,   \* families a request handler has revoked and not noted yet
  listed,    \* the identity is on the allowlist
  delisting, \* a `vezir npub remove` has yet to revoke the families
  boot, cliRevokedAt, loadFailed  \* for the properties: restarts; revocations by other processes; the last load

server == <<session, history, minted>>
revoked == <<noted, loadedAt, loadFailed, unnoted>>
identity == <<listed, delisting>>
vars == <<now, server, cache, lock, call, answers, store, revoked, identity, boot, cliRevokedAt>>

NoToken == 0
NotLoaded == 0
NoRow == [current |-> NoToken, prev |-> NoToken, rotatedAt |-> 0, idleUntil |-> 0,
          cap |-> 0, revoked |-> FALSE]
NoRequest == [pc |-> "free", token |-> NoToken, to |-> NoToken, at |-> 0, sid |-> NoSid]

\* _now(): whole seconds.  The clock starts at second one.
Second == now \div Hz
Made(s) == session[s].current # NoToken

Init ==
  /\ now = Hz
  /\ minted = 0
  /\ session = [s \in Sids |-> NoRow]
  /\ history = {} /\ cache = {} /\ answers = {}
  /\ lock = NoCall
  /\ call = [c \in Calls |-> NoRequest]
  /\ store = NoToken
  /\ noted = {} /\ unnoted = {} /\ loadedAt = NotLoaded /\ loadFailed = FALSE
  /\ listed = TRUE /\ delisting = FALSE
  /\ boot = 0
  /\ cliRevokedAt = [s \in Sids |-> 0]

Tick ==
  /\ now < MaxTime
  /\ now' = now + 1
  /\ UNCHANGED <<server, cache, lock, call, answers, store, revoked, identity, boot, cliRevokedAt>>

-----------------------------------------------------------------------------
(* The clients.                                                            *)

\* refresh_session: reads the stored refresh token and posts it.
Call(c) ==
  /\ call[c].pc = "free" /\ store # NoToken
  /\ call' = [call EXCEPT ![c] = [NoRequest EXCEPT !.pc = "sent", !.token = store]]
  /\ UNCHANGED <<now, server, cache, lock, answers, store, revoked, identity, boot, cliRevokedAt>>

\* The answer arrives: fan_out_session writes the pair to every entry of the identity.
Deliver(c) ==
  /\ call[c].pc = "answered"
  /\ store' = call[c].to
  /\ call' = [call EXCEPT ![c] = NoRequest]
  /\ UNCHANGED <<now, server, cache, lock, answers, revoked, identity, boot, cliRevokedAt>>

\* The request or its answer is lost, or the client no longer waits for it.
Lose(c) ==
  /\ call[c].pc \in {"sent", "answered"}
  /\ call' = [call EXCEPT ![c] = NoRequest]
  /\ UNCHANGED <<now, server, cache, lock, answers, store, revoked, identity, boot, cliRevokedAt>>

-----------------------------------------------------------------------------
(* The grace cache: pruned whenever it is used.                            *)

Unexpired == {e \in cache : now - e.stored <= Grace * Hz}

\* The pair is cached under the token it holds.
GraceStore(token, to, agent) ==
  cache' = {e \in Unexpired : e.key # token}
             \cup {[key |-> token, to |-> to, agent |-> agent, stored |-> now]}

GraceLookup(token, agent) == {e \in Unexpired : e.key = token /\ e.agent = agent}

-----------------------------------------------------------------------------
(* Login: the identity is looked up, then the family is made.              *)

\* (The instance has families and tokens for so many logins only.)
LookUp(c) ==
  /\ call[c].pc = "free" /\ listed
  /\ minted < MaxTokens /\ \E s \in Sids : ~Made(s)
  /\ call' = [call EXCEPT ![c] = [NoRequest EXCEPT !.pc = "login"]]
  /\ UNCHANGED <<now, server, cache, lock, answers, store, revoked, identity, boot, cliRevokedAt>>

CreateSession(c, s) ==
  /\ call[c].pc = "login" /\ minted < MaxTokens
  /\ ~Made(s)
  /\ minted' = minted + 1
  /\ session' = [session EXCEPT ![s] =
       [NoRow EXCEPT !.current = minted + 1, !.idleUntil = Second + Idle, !.cap = Second + Cap]]
  /\ GraceStore(minted + 1, minted + 1, NoAgent)
  /\ call' = [call EXCEPT ![c] = [NoRequest EXCEPT !.pc = "answered", !.to = minted + 1]]
  /\ UNCHANGED <<now, history, lock, answers, store, revoked, identity, boot, cliRevokedAt>>

-----------------------------------------------------------------------------
(* rotate.                                                                 *)

HistoryOf(token) == {h \in history : h.token = token}

\* (The instance has tokens for so many exchanges only.)
RoomFor(c) == minted < MaxTokens \/ \A s \in Sids : session[s].current # call[c].token

\* Nobody waits for anybody.
EnterUnlocked(c) ==
  /\ call[c].pc = "sent" /\ RoomFor(c)
  /\ lock' = c
  /\ call' = [call EXCEPT ![c].pc = "entered", ![c].at = Second]
  /\ UNCHANGED <<now, server, cache, answers, store, revoked, identity, boot, cliRevokedAt>>

\* The lock is taken and the clock is read.
EnterRotate(c) ==
  /\ call[c].pc = "sent" /\ lock = NoCall /\ RoomFor(c)
  /\ lock' = c
  /\ call' = [call EXCEPT ![c].pc = "entered", ![c].at = Second]
  /\ UNCHANGED <<now, server, cache, answers, store, revoked, identity, boot, cliRevokedAt>>

Earlier(t, u) == IF t <= u THEN t ELSE u

Usable(s, at) == ~session[s].revoked /\ at < session[s].cap /\ at < session[s].idleUntil

\* The current token of a live family: consumed, remembered, replaced.
Exchange(c, s) ==
  /\ call[c].pc = "entered"
  /\ Made(s) /\ session[s].current = call[c].token
  /\ Usable(s, call[c].at)
  /\ minted' = minted + 1
  /\ session' = [session EXCEPT
       ![s].current = minted + 1, ![s].prev = call[c].token, ![s].rotatedAt = call[c].at,
       ![s].idleUntil = Earlier(call[c].at + Idle, session[s].cap)]
  /\ history' = history \cup {[token |-> call[c].token, sid |-> s, to |-> minted + 1,
                               at |-> call[c].at,
                               agent |-> AgentOf[c], boot |-> boot]}
  /\ call' = [call EXCEPT ![c].pc = "recheck", ![c].to = minted + 1, ![c].sid = s]
  /\ UNCHANGED <<now, cache, lock, answers, store, revoked, identity, boot, cliRevokedAt>>

Known(token) == token \in {h.token : h \in history} \cup {session[s].current : s \in Sids}

\* No family knows the token, or its own can no longer be refreshed.
Reject(c) ==
  /\ call[c].pc = "entered"
  /\ \/ ~Known(call[c].token)
     \/ \E s \in Sids :
          Made(s) /\ session[s].current = call[c].token /\ ~Usable(s, call[c].at)
  /\ lock' = NoCall
  /\ call' = [call EXCEPT ![c] = NoRequest]
  /\ UNCHANGED <<now, server, cache, answers, store, revoked, identity, boot, cliRevokedAt>>

InGrace(s, at) ==
  /\ Grace > 0 /\ ~session[s].revoked
  /\ session[s].rotatedAt <= at /\ at - session[s].rotatedAt <= Grace
  /\ at < session[s].cap

Replayable(c, s) ==
  IF InGrace(s, call[c].at) THEN GraceLookup(call[c].token, AgentOf[c]) ELSE {}

\* A replay counts as a rotation: the window starts again.
ReplaySlides(c, s) ==
  /\ call[c].pc = "entered" /\ session[s].prev = call[c].token
  /\ \E e \in Replayable(c, s) :
       /\ call' = [call EXCEPT ![c] = [NoRequest EXCEPT !.pc = "answered", !.to = e.to]]
       /\ answers' = answers \cup {[from |-> call[c].token, to |-> e.to]}
       /\ GraceStore(e.key, e.to, e.agent)
  /\ session' = [session EXCEPT ![s].rotatedAt = call[c].at]
  /\ lock' = NoCall
  /\ UNCHANGED <<now, history, minted, store, revoked, identity, boot, cliRevokedAt>>

\* What the grace path did before there was a cache: a replay mints a token of its own.
ReplayForks(c, s) ==
  /\ call[c].pc = "entered" /\ session[s].prev = call[c].token
  /\ Replayable(c, s) # {}
  /\ minted < MaxTokens
  /\ minted' = minted + 1
  /\ session' = [session EXCEPT ![s].current = minted + 1]
  /\ call' = [call EXCEPT ![c] = [NoRequest EXCEPT !.pc = "answered", !.to = minted + 1]]
  /\ answers' = answers \cup {[from |-> call[c].token, to |-> minted + 1]}
  /\ cache' = Unexpired
  /\ lock' = NoCall
  /\ UNCHANGED <<now, history, store, revoked, identity, boot, cliRevokedAt>>

\* The token consumed last, in the window: the pair it was exchanged for, again.
Replay(c, s) ==
  /\ call[c].pc = "entered" /\ session[s].prev = call[c].token
  /\ \E e \in Replayable(c, s) :
       /\ call' = [call EXCEPT ![c] = [NoRequest EXCEPT !.pc = "answered", !.to = e.to]]
       /\ answers' = answers \cup {[from |-> call[c].token, to |-> e.to]}
  /\ cache' = Unexpired
  /\ lock' = NoCall
  /\ UNCHANGED <<now, server, store, revoked, identity, boot, cliRevokedAt>>

\* revoked = 1 for a set of families.
Revoke(S, by) ==
  /\ session' = [s \in Sids |->
       IF s \in S THEN [session[s] EXCEPT !.revoked = TRUE] ELSE session[s]]
  /\ cliRevokedAt' = [s \in Sids |->
       IF s \in S /\ ~session[s].revoked /\ by = "cli" THEN now ELSE cliRevokedAt[s]]

\* Any other consumed token ends its family.
DetectReuse(c, s) ==
  /\ call[c].pc = "entered" /\ session[s].current # call[c].token
  /\ \E h \in HistoryOf(call[c].token) : h.sid = s
  /\ session[s].prev = call[c].token => Replayable(c, s) = {}
  /\ Revoke({s}, "server")
  /\ cache' = IF session[s].prev = call[c].token /\ InGrace(s, call[c].at) THEN Unexpired ELSE cache
  /\ call' = [call EXCEPT ![c].pc = "refuse", ![c].sid = s]
  /\ UNCHANGED <<now, history, minted, lock, answers, store, revoked, identity, boot>>

\* The session row is believed.
RecheckNothing(c) ==
  /\ call[c].pc = "recheck"
  /\ GraceStore(call[c].token, call[c].to, AgentOf[c])
  /\ answers' = answers \cup {[from |-> call[c].token, to |-> call[c].to]}
  /\ call' = [call EXCEPT ![c] = [NoRequest EXCEPT !.pc = "answered", !.to = call[c].to]]
  /\ lock' = NoCall
  /\ UNCHANGED <<now, server, store, revoked, identity, boot, cliRevokedAt>>

\* The identity is still listed: the pair is made, cached under the consumed token and sent.
Recheck(c) ==
  /\ call[c].pc = "recheck" /\ listed
  /\ GraceStore(call[c].token, call[c].to, AgentOf[c])
  /\ answers' = answers \cup {[from |-> call[c].token, to |-> call[c].to]}
  /\ call' = [call EXCEPT ![c] = [NoRequest EXCEPT !.pc = "answered", !.to = call[c].to]]
  /\ lock' = NoCall
  /\ UNCHANGED <<now, server, store, revoked, identity, boot, cliRevokedAt>>

\* It is not, or the lookup fails.
RecheckFails(c) ==
  /\ call[c].pc = "recheck"
  /\ ~listed \/ "lookup" \in Faults
  /\ Revoke({call[c].sid}, "server")
  /\ call' = [call EXCEPT ![c].pc = "refuse"]
  /\ UNCHANGED <<now, history, minted, cache, lock, answers, store, revoked, identity, boot>>

\* _note_revoked, then 401.
Refuse(c) ==
  /\ call[c].pc = "refuse"
  /\ noted' = noted \cup {call[c].sid}
  /\ lock' = NoCall
  /\ call' = [call EXCEPT ![c] = NoRequest]
  /\ UNCHANGED <<now, server, cache, answers, store, loadedAt, loadFailed, unnoted, identity,
                 boot, cliRevokedAt>>

-----------------------------------------------------------------------------
(* Revocation.                                                             *)

Live == {s \in Sids : Made(s) /\ ~session[s].revoked}

\* Logout and the admin's revocation, in the server ...
RevokeSession(s) ==
  /\ s \in Live
  /\ Revoke({s}, "server")
  /\ unnoted' = unnoted \cup {s}
  /\ UNCHANGED <<now, history, minted, cache, lock, call, answers, store, noted, loadedAt,
                 loadFailed, identity, boot>>

\* ... of all families ...
RevokeAll ==
  /\ Live # {}
  /\ Revoke(Live, "server")
  /\ unnoted' = unnoted \cup {s \in Sids : Made(s)}
  /\ UNCHANGED <<now, history, minted, cache, lock, call, answers, store, noted, loadedAt,
                 loadFailed, identity, boot>>

\* ... noted once the transaction is over.
NoteRevoked(s) ==
  /\ s \in unnoted
  /\ noted' = noted \cup {s} /\ unnoted' = unnoted \ {s}
  /\ UNCHANGED <<now, server, cache, lock, call, answers, store, loadedAt, loadFailed, identity,
                 boot, cliRevokedAt>>

\* `vezir session revoke`, in a process of its own, whose note nobody reads.
CliRevoke(S) ==
  /\ S \subseteq Live /\ S # {}
  /\ Revoke(S, "cli")
  /\ UNCHANGED <<now, history, minted, cache, lock, call, answers, store, revoked, identity, boot>>

Delist ==
  /\ listed /\ ~delisting
  /\ listed' = FALSE /\ delisting' = TRUE
  /\ UNCHANGED <<now, server, cache, lock, call, answers, store, revoked, boot, cliRevokedAt>>

\* _revoke_sessions, a transaction later.
EndSessions ==
  /\ delisting
  /\ delisting' = FALSE
  /\ Revoke(Live, "cli")
  /\ UNCHANGED <<now, history, minted, cache, lock, call, answers, store, revoked, listed, boot>>

Enlist ==
  /\ ~listed /\ ~delisting
  /\ listed' = TRUE
  /\ UNCHANGED <<now, server, cache, lock, call, answers, store, revoked, delisting, boot, cliRevokedAt>>

-----------------------------------------------------------------------------
(* The access check, which asks the database every now and then.           *)

\* Loaded once and for all.
FreshForEver == loadedAt # NotLoaded

\* The revoked set is young enough.
Fresh == loadedAt # NotLoaded /\ now - loadedAt < Reload * Hz

LoadRevoked ==
  /\ ~Fresh
  /\ noted' = noted \cup {s \in Sids : session[s].revoked}
  /\ loadedAt' = now /\ loadFailed' = FALSE
  /\ UNCHANGED <<now, server, cache, lock, call, answers, store, unnoted, identity, boot, cliRevokedAt>>

LoadFails ==
  /\ "load" \in Faults /\ ~Fresh
  /\ loadedAt' = now /\ loadFailed' = TRUE
  /\ UNCHANGED <<now, server, cache, lock, call, answers, store, noted, unnoted, identity, boot,
                 cliRevokedAt>>

\* is_sid_revoked, with the load it makes when it must.
IsSidRevoked(s) == s \in noted \/ (~Fresh /\ session[s].revoked)

-----------------------------------------------------------------------------
\* The server restarts: its threads and its memory are gone, the tables stay.
Crash ==
  /\ "crash" \in Faults /\ boot < MaxBoots
  /\ boot' = boot + 1
  /\ lock' = NoCall /\ cache' = {} /\ noted' = {} /\ unnoted' = {}
  /\ loadedAt' = NotLoaded /\ loadFailed' = FALSE
  /\ call' = [c \in Calls |->
       IF call[c].pc \in {"sent", "answered"} THEN call[c] ELSE NoRequest]
  /\ UNCHANGED <<now, server, answers, store, identity, cliRevokedAt>>

Next ==
  \/ Tick \/ Crash
  \/ \E c \in Calls :
       \/ Call(c) \/ Deliver(c) \/ Lose(c) \/ LookUp(c)
       \/ EnterRotate(c) \/ Reject(c) \/ Recheck(c) \/ RecheckFails(c) \/ Refuse(c)
       \/ \E s \in Sids : CreateSession(c, s) \/ Exchange(c, s) \/ Replay(c, s) \/ DetectReuse(c, s)
  \/ \E s \in Sids : RevokeSession(s) \/ NoteRevoked(s)
  \/ \E S \in SUBSET Sids : CliRevoke(S)
  \/ RevokeAll \/ Delist \/ EndSessions \/ Enlist
  \/ LoadRevoked \/ LoadFails

Spec == Init /\ [][Next]_vars

-----------------------------------------------------------------------------
Token == 0 .. minted
Row == [current : Token, prev : Token, rotatedAt : Nat, idleUntil : Nat, cap : Nat,
        revoked : BOOLEAN]
Agents == {AgentOf[c] : c \in Calls} \cup {NoAgent}
Inside == {"entered", "recheck", "refuse"}
Pcs == {"free", "sent", "login", "answered"} \cup Inside
HistoryRow == [token : Token, sid : Sids, to : Token, at : Nat, agent : Agents, boot : Nat]
Entry == [key : Token, to : Token, agent : Agents, stored : Nat]
Answer == [from : Token, to : Token]
Request == [pc : Pcs, token : Token, to : Token, at : Nat, sid : Sids \cup {NoSid}]

\* Types: tokens are among those made, rows and calls have their shape.
TypeOK ==
  /\ now \in Nat \ {0} /\ minted \in Nat /\ boot \in Nat
  /\ session \in [Sids -> Row]
  /\ history \subseteq HistoryRow
  /\ cache \subseteq Entry
  /\ answers \subseteq Answer
  /\ lock \in Calls \cup {NoCall}
  /\ call \in [Calls -> Request]
  /\ store \in Token
  /\ noted \subseteq Sids /\ unnoted \subseteq Sids
  /\ loadedAt \in Nat /\ loadFailed \in BOOLEAN
  /\ listed \in BOOLEAN /\ delisting \in BOOLEAN
  /\ cliRevokedAt \in [Sids -> Nat]

\* Every answer to a refresh token, however many calls present it and whatever restarts, names
\* the same successor: a family is one chain of tokens (rotate and its grace path).
NeverForked == \A a, b \in answers : a.from = b.from => a.to = b.to

\* A request handler has revoked the family and is about to note it.
Pending(s) == s \in unnoted \/ \E c \in Calls : call[c].pc = "refuse" /\ call[c].sid = s

\* A revoked family's access tokens are refused: at once when the server revoked it (but for
\* the moment until the note), within Reload when another process did, unless the load failed.
RevocationIsSeen ==
  \A s \in Sids : session[s].revoked /\ ~IsSidRevoked(s) =>
    \/ loadFailed
    \/ IF cliRevokedAt[s] = 0
       THEN Pending(s)
       ELSE now - cliRevokedAt[s] < Reload * Hz

\* Once the identity is off the list no token that a refresh has given can be refreshed, be
\* the removal before, during or after that refresh (rotate's re-check, nostr_members.remove).
DelistedIsOut ==
  ~listed /\ ~delisting =>
    \A a \in answers, s \in Sids : a.to = session[s].current => session[s].revoked

\* A consumed token is answered only within Grace of the second of its exchange, however often
\* it was answered in between.
ReplaysEndOnTime ==
  [][\A c \in Calls : call[c].pc = "entered" /\ call'[c].pc = "answered" =>
       \A h \in HistoryOf(call[c].token) : call[c].at <= h.at + Grace]_vars

\* A client that presents the token consumed last again, because its answer was lost or another
\* process was faster, does not end a live family: within the window, from the same program
\* and in the server's same run (the reason for _ROTATE_LOCK).
RetryIsForgiven ==
  [][\A c \in Calls : call[c].pc = "entered" /\ call'[c].pc = "refuse" =>
       \A h \in HistoryOf(call[c].token) :
         ~ /\ session[h.sid].prev = h.token /\ ~session[h.sid].revoked
           /\ call[c].at < session[h.sid].cap
           /\ h.agent = AgentOf[c] /\ h.boot = boot
           /\ Grace > 0 /\ now <= (h.at + Grace) * Hz]_vars

-----------------------------------------------------------------------------
(* What these properties rest on.                                          *)

Rotating(c) == call[c].pc = "recheck"

\* The lock is held by the one call that rotates.
LockOK == \A c \in Calls : lock = c <=> call[c].pc \in Inside

\* Tokens are told apart by what became of them: current of one family, or consumed once.
TokensOK ==
  /\ \A s, t \in Sids : Made(s) /\ session[s].current = session[t].current => s = t
  /\ \A h, g \in history : h.token = g.token => h = g
  /\ \A h \in history : h.token # NoToken /\ h.to # NoToken /\ Made(h.sid)
  /\ \A h \in history, s \in Sids : h.token # session[s].current
  /\ \A s \in Sids : session[s].prev # NoToken =>
       \E h \in history : /\ h.token = session[s].prev /\ h.sid = s
                          /\ h.to = session[s].current /\ h.at = session[s].rotatedAt

\* A rotation whose identity is being re-checked is the family's last one.
RotationOK ==
  /\ \A c \in Calls : Rotating(c) =>
       \E h \in history : /\ h.token = call[c].token /\ h.sid = call[c].sid /\ h.to = call[c].to
                          /\ h.boot = boot /\ h.agent = AgentOf[c]
                          /\ session[h.sid].prev = h.token /\ session[h.sid].current = h.to
  /\ \A c \in Calls : call[c].pc = "refuse" =>
       call[c].sid \in Sids /\ Made(call[c].sid) /\ session[call[c].sid].revoked

\* What the cache holds under a consumed token is its successor, unless the family is over or
\* the rotation is not: until then create_session's own entry may be there.
CacheOK ==
  /\ \A e \in cache : e.key # NoToken
  /\ \A e \in cache, h \in history : h.token = e.key =>
       \/ h.to = e.to
       \/ session[h.sid].revoked
       \/ \E c \in Calls : Rotating(c) /\ call[c].token = e.key

AnswersOK == \A a \in answers : \E h \in history : h.token = a.from /\ h.to = a.to

ChainInvariant == TypeOK /\ LockOK /\ TokensOK /\ RotationOK /\ CacheOK /\ AnswersOK

\* Nothing is stamped later than now or with a later run; a rotation waits for the ones before it.
StampsOK ==
  /\ \A c \in Calls : call[c].at * Hz <= now
  /\ \A h \in history : h.at * Hz <= now /\ h.boot <= boot
  /\ \A s \in Sids : session[s].rotatedAt * Hz <= now
  /\ \A s \in Sids, c \in Calls : call[c].pc = "entered" => session[s].rotatedAt <= call[c].at
  /\ loadedAt <= now

\* A rotation of this run of the server that is still in its window can be replayed.
WindowOK ==
  \A h \in history :
    /\ h.boot = boot /\ session[h.sid].prev = h.token /\ ~session[h.sid].revoked
    /\ now <= (h.at + Grace) * Hz
    => \/ \E c \in Calls : Rotating(c) /\ call[c].token = h.token
       \/ \E e \in cache : e.key = h.token /\ e.agent = h.agent /\ h.at * Hz <= e.stored

\* A revocation the access check does not know of is on its way, or younger than the last load.
RevokedOK ==
  \A s \in Sids :
    /\ IF session[s].revoked THEN Made(s) ELSE cliRevokedAt[s] = 0
    /\ session[s].revoked /\ s \notin noted /\ loadedAt # NotLoaded /\ ~loadFailed =>
         IF cliRevokedAt[s] = 0 THEN Pending(s) ELSE loadedAt <= cliRevokedAt[s]

\* What the cache can replay has been answered already.
ReplaysOK ==
  \A e \in cache : e.key # e.to => \E a \in answers : a.from = e.key /\ a.to = e.to

RefreshInvariant ==
  ChainInvariant /\ StampsOK /\ WindowOK /\ RevokedOK /\ ReplaysOK /\ DelistedIsOut

-----------------------------------------------------------------------------
\* The tables and the answers, seen as lines of tokens.
Chain == INSTANCE TokenChain WITH
  Families <- Sids,
  None <- NoToken,
  head <- [s \in Sids |-> session[s].current],
  links <- {[of |-> h.sid, from |-> h.token, to |-> h.to] : h \in history},
  told <- answers,
  ended <- {s \in Sids : session[s].revoked}

\* Rotation, grace window, reuse detection, revocations and restarts together keep what the
\* docstring of sessions_auth promises: a family's tokens form one line, a client is only ever
\* told the newest, and a family that was revoked has no further token.
ImplementsTokenChain == Chain!Spec
==============================================================================
