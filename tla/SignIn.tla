--------------------------------- MODULE SignIn ---------------------------------
(***************************************************************************)
(* How a person or a device gets a credential: a signed nostr event        *)
(* (server/nip98.py, nostr_auth.py), a Google device grant                 *)
(* (google_auth.py and client/google_login.py), an enrolment code          *)
(* (enroll.py), behind the limiter of module RateLimiter; and the admin    *)
(* who changes the allowlists and revokes tokens in a shell meanwhile      *)
(* (nostr_members.py, google_members.py, auth.py).                         *)
(*                                                                         *)
(* A request is a thread of the server's pool, cut at each access to       *)
(* shared state.  What a session is afterwards is module RefreshSessions.  *)
(***************************************************************************)
EXTENDS RateLimiter, Sequences

CONSTANTS
  Threads,
  Events,           \* signed login events
  Codes,            \* enrolment codes
  Handles,
  Scenes,           \* what is used in a run: sets of the Routes below
  MaxAge, Ahead,    \* how old, and how far ahead of the clock, an event may be
  CodeTtl,
  CreatedAt,        \* when the events were signed
  MaxNow, MaxSessions, MaxChanges, MaxCrashes,  \* bounds
  None

Routes == {"nostr", "signer", "google", "device", "others"}

ASSUME SignInAssumption ==
  /\ "home" \in Callers
  /\ None \notin Handles
  /\ None \notin [github: Handles, admin: BOOLEAN] \cup [expires: Nat, consumed: BOOLEAN]
  /\ MaxAge \in Nat /\ Ahead \in Nat /\ CodeTtl \in Nat
  /\ \A scene \in Scenes : scene \subseteq Routes

VARIABLES
  used,      \* the routes this run uses
  thread,
  consumed,  \* _consumed_ids: event -> expiry
  members,   \* way of signing in -> [github, admin], or None: nostr_members, google_members
  sessions,  \* the families made, in order
  revoking,  \* the handle whose sessions the shell has yet to revoke
  grant,     \* the device grant, as Google sees it
  client,    \* the google client's loop
  code,      \* enroll_codes
  tokens,    \* the bearer tokens there are: the code each came from, and a number
  shown,     \* the tokens a `vezir token revoke' has listed for confirmation, or None
  accepted, changes, abandoned, crashes  \* for the properties and the bounds

signVars == <<thread, consumed, sessions, grant, client>>
adminVars == <<members, revoking, changes, abandoned>>
codeVars == <<code, tokens, shown>>
vars == <<now, limiterVars, used, crashes, accepted, signVars, adminVars, codeVars>>

Ways == {"nostr", "google"}
Idle == [step |-> "idle"]
ReplayTtl == MaxAge + Ahead

SignInInit ==
  /\ now = 0 /\ LimiterInit
  /\ used \in Scenes
  /\ crashes = 0
  /\ thread = [r \in Threads |-> Idle]
  /\ consumed = [e \in {} |-> 0]
  /\ members \in [Ways -> {None} \cup [github : Handles, admin : BOOLEAN]]
  /\ \A way \in Ways \ used : members[way] = None
  /\ sessions = <<>>
  /\ revoking = None
  /\ grant = "none" /\ client = "off"
  /\ code = [c \in Codes |-> None] /\ tokens = {} /\ shown = None
  /\ accepted = {} /\ changes = 0 /\ abandoned = FALSE

Goto(r, what) == thread' = [thread EXCEPT ![r] = what]
At(r, step) == thread[r].step = step

\* A request passes the limiter (429 otherwise) on the address it comes from.
Arrives(r, route) ==
  /\ route \in used /\ At(r, "idle")
  /\ Allows("home") /\ Take("home")

-----------------------------------------------------------------------------
(* POST /api/auth/nostr/login.                                             *)

Fresh(e) == /\ now - CreatedAt[e] <= MaxAge
            /\ CreatedAt[e] - now <= Ahead

LoginRequest(r, e, route) ==
  /\ Arrives(r, route)
  /\ Goto(r, IF Fresh(e) THEN [step |-> "replay", event |-> e] ELSE Idle)
  /\ UNCHANGED <<now, used, crashes, accepted, consumed, sessions, grant, client, adminVars, codeVars>>

NostrLogin(r, e) == LoginRequest(r, e, "nostr")

\* The expired entries are dropped, the rest is looked at; the note is
\* another step, and nothing makes the two one.
CheckReplay(r) ==
  /\ At(r, "replay")
  /\ LET e == thread[r].event
         left == Restrict(consumed, {x \in DOMAIN consumed : consumed[x] > now}) IN
     /\ consumed' = left
     /\ Goto(r, IF e \in DOMAIN left THEN Idle
                ELSE [step |-> "note", event |-> e, at |-> now, seen |-> {<<a.n, a.at>> : a \in {b \in accepted : b.event = e}}])
  /\ UNCHANGED <<now, limiterVars, used, crashes, accepted, sessions, grant, client, adminVars, codeVars>>

NoteFor(ttl, r) ==
  LET e == thread[r].event  t == thread[r].at IN
  /\ At(r, "note")
  /\ consumed' = [x \in DOMAIN consumed \cup {e} |-> IF x = e THEN t + ttl ELSE consumed[x]]
  /\ accepted' = accepted \cup {[event |-> e, at |-> t, n |-> Cardinality(accepted), seen |-> thread[r].seen]}
  /\ Goto(r, [step |-> "lookup", way |-> "nostr"])
  /\ UNCHANGED <<now, limiterVars, used, crashes, sessions, grant, client, adminVars, codeVars>>

NoteForMaxAge(r) == NoteFor(MaxAge, r)  \* the future tolerance is forgotten

Note(r) == NoteFor(ReplayTtl, r)

-----------------------------------------------------------------------------
(* The device grant.  The client polls the server, the server polls Google. *)

GoogleStart(r) ==
  /\ client \in {"off", "failed"} /\ grant = "none"
  /\ Arrives(r, "google")
  /\ grant' = "pending" /\ client' = "waiting"
  /\ UNCHANGED <<now, used, crashes, accepted, thread, consumed, sessions, adminVars, codeVars>>

User ==
  /\ grant = "pending" /\ grant' \in {"approved", "denied", "expired"}
  /\ UNCHANGED <<now, limiterVars, used, crashes, accepted, thread, consumed, sessions, client, adminVars, codeVars>>

\* Google's token endpoint: an approved grant is redeemed by the first request
\* that reaches it, even if the answer is lost and the request is made again.
GooglePoll(r) ==
  /\ client = "waiting" /\ \A x \in Threads : ~At(x, "verify")
  /\ Arrives(r, "google")
  /\ \/ grant = "approved" /\ grant' = "redeemed"
        /\ Goto(r, [step |-> "verify"]) /\ UNCHANGED client
     \/ grant = "approved" /\ grant' = "redeemed" /\ client' = "failed"  \* answer lost, then asked again
        /\ UNCHANGED thread
     \/ grant \in {"denied", "expired", "redeemed"} /\ client' = "failed"
        /\ UNCHANGED <<thread, grant>>
     \/ UNCHANGED <<thread, grant, client>>  \* 202: still pending, or unreachable
  /\ UNCHANGED <<now, used, crashes, accepted, consumed, sessions, adminVars, codeVars>>

\* The keys to check the answer with may be out of reach: the client is told 202.
VerifyIdToken(r) ==
  /\ At(r, "verify")
  /\ \/ Goto(r, [step |-> "lookup", way |-> "google"])
     \/ Goto(r, Idle)
  /\ UNCHANGED <<now, limiterVars, used, crashes, accepted, consumed, sessions, grant, client, adminVars, codeVars>>

\* The client's loop ends by itself: deadline, Esc.
GiveUp ==
  /\ client = "waiting"
  /\ client' = "failed"
  /\ UNCHANGED <<now, limiterVars, used, crashes, accepted, thread, consumed, sessions, grant, adminVars, codeVars>>

-----------------------------------------------------------------------------
(* Both ways end in the allowlist and a new family.                        *)

Answered(r, outcome) ==
  client' = IF thread[r].way = "google" /\ client = "waiting" THEN outcome ELSE client

LookUp(r) ==
  /\ At(r, "lookup")
  /\ LET who == members[thread[r].way] IN
     IF who = None THEN Goto(r, Idle) /\ Answered(r, "failed")
     ELSE /\ Goto(r, [step |-> "create", way |-> thread[r].way, who |-> who, changes |-> changes])
          /\ UNCHANGED client
  /\ UNCHANGED <<now, limiterVars, used, crashes, accepted, consumed, sessions, grant, adminVars, codeVars>>

CreateSession(r) ==
  /\ At(r, "create") /\ Len(sessions) < MaxSessions
  /\ sessions' = Append(sessions, [who |-> thread[r].who, way |-> thread[r].way, live |-> TRUE,
                                   raced |-> thread[r].changes # changes])
  /\ Goto(r, Idle) /\ Answered(r, "in")
  /\ UNCHANGED <<now, limiterVars, used, crashes, accepted, consumed, grant, adminVars, codeVars>>

-----------------------------------------------------------------------------
(* `vezir npub add', `google add', `npub remove', `google remove': one     *)
(* commit changes the list, the next ends the sessions it says must end.   *)

DemotedOnly(old, new) == old # None /\ (new = None \/ (old.admin /\ ~new.admin))  \* not a new handle

EndsSessions(old, new) ==
  old # None /\ (new = None \/ (old.admin /\ ~new.admin) \/ old.github # new.github)

ChangeMember(way, new) ==
  /\ way \in used \/ (way = "nostr" /\ "signer" \in used)
  /\ revoking = None /\ changes < MaxChanges
  /\ new # members[way]
  /\ members' = [members EXCEPT ![way] = new]
  /\ revoking' = IF EndsSessions(members[way], new) THEN members[way].github ELSE None
  /\ changes' = changes + 1
  /\ UNCHANGED <<now, limiterVars, used, crashes, accepted, signVars, codeVars, abandoned>>

RevokeAllFor ==
  /\ revoking # None
  /\ sessions' = [i \in DOMAIN sessions |->
                    [sessions[i] EXCEPT !.live = @ /\ sessions[i].who.github # revoking]]
  /\ revoking' = None
  /\ UNCHANGED <<now, limiterVars, used, crashes, accepted, thread, consumed, grant, client,
                 members, changes, abandoned, codeVars>>

ShellKilled ==
  /\ revoking # None
  /\ revoking' = None /\ abandoned' = TRUE
  /\ UNCHANGED <<now, limiterVars, used, crashes, accepted, signVars, members, changes, codeVars>>

-----------------------------------------------------------------------------
(* Enrolment codes, and the tokens they buy.                               *)

CreateCode(c) ==
  /\ "device" \in used /\ code[c] = None
  /\ code' = [code EXCEPT ![c] = [expires |-> now + CodeTtl, consumed |-> FALSE]]
  /\ UNCHANGED <<now, limiterVars, used, crashes, accepted, signVars, adminVars, tokens, shown>>

UsableTwice(c) == code[c] # None /\ now < code[c].expires

Usable(c) == code[c] # None /\ ~code[c].consumed /\ now < code[c].expires

\* The code is consumed in one transaction and the token made in another.
ExchangeCode(r, c) ==
  /\ Arrives(r, "device")
  /\ IF Usable(c)
     THEN /\ code' = [code EXCEPT ![c].consumed = TRUE]
          /\ Goto(r, [step |-> "issue", code |-> c])
     ELSE UNCHANGED <<code, thread>>
  /\ UNCHANGED <<now, used, crashes, accepted, consumed, sessions, grant, client, adminVars, tokens, shown>>

Issue(r) ==
  /\ At(r, "issue")
  /\ tokens' = tokens \cup {[code |-> thread[r].code, n |-> Cardinality(tokens)]}
  /\ Goto(r, Idle)
  /\ UNCHANGED <<now, limiterVars, used, crashes, accepted, consumed, sessions, grant, client, adminVars, code, shown>>

\* `vezir token revoke' lists what matches, asks, and matches again.
TokenRevokeList ==
  /\ shown = None /\ tokens # {}
  /\ shown' = tokens
  /\ UNCHANGED <<now, limiterVars, used, crashes, accepted, signVars, adminVars, code, tokens>>

RevokeByFilter ==
  /\ shown # None
  /\ tokens' = {} /\ shown' = None
  /\ UNCHANGED <<now, limiterVars, used, crashes, accepted, signVars, adminVars, code>>

-----------------------------------------------------------------------------
OtherRequest(k) ==
  /\ "others" \in used
  /\ Take(k)
  /\ UNCHANGED <<now, used, crashes, accepted, signVars, adminVars, codeVars>>

Tick ==
  /\ now < MaxNow
  /\ now' = now + 1
  /\ UNCHANGED <<limiterVars, used, crashes, accepted, signVars, adminVars, codeVars>>

Restart ==
  /\ crashes < MaxCrashes
  /\ crashes' = crashes + 1
  /\ Forget
  /\ consumed' = [e \in {} |-> 0] /\ accepted' = {}
  /\ thread' = [r \in Threads |-> Idle]
  /\ UNCHANGED <<now, used, sessions, grant, client, adminVars, codeVars>>

SignInNext ==
  \/ \E r \in Threads, e \in Events : NostrLogin(r, e)
  \/ \E r \in Threads : CheckReplay(r)
  \/ \E r \in Threads : Note(r)
  \/ \E r \in Threads : GoogleStart(r)
  \/ \E r \in Threads : GooglePoll(r)
  \/ User \/ GiveUp
  \/ \E r \in Threads : VerifyIdToken(r)
  \/ \E r \in Threads : LookUp(r)
  \/ \E r \in Threads : CreateSession(r)
  \/ \E way \in Ways, new \in {None} \cup [github : Handles, admin : BOOLEAN] : ChangeMember(way, new)
  \/ RevokeAllFor \/ ShellKilled
  \/ \E c \in Codes : CreateCode(c)
  \/ \E r \in Threads, c \in Codes : ExchangeCode(r, c)
  \/ \E r \in Threads : Issue(r)
  \/ TokenRevokeList \/ RevokeByFilter
  \/ \E k \in Callers : OtherRequest(k)
  \/ Tick \/ Restart

SignInSpec == SignInInit /\ [][SignInNext]_vars

-----------------------------------------------------------------------------
(* Properties.                                                             *)

\* nip98.py:47 "once a valid event id has minted a session, it must not be
\* reusable": a request whose check comes after another has noted the event is
\* refused for as long as an event can be accepted, in one life of the server,
\* unless a request that had checked before that one wrote its note after it.
AcceptedOncePerWindow ==
  \A a \in accepted : \A t \in a.seen :
    \/ a.at - t[2] >= ReplayTtl
    \/ \E u \in a.seen : u[1] > t[1] /\ u[2] < t[2]

Entitled(s) ==
  LET m == members[s.way] IN m # None /\ m.github = s.who.github /\ (s.who.admin => m.admin)

\* nostr_members.py:83 "A demotion or a re-pointed handle must not survive in
\* live sessions": a live session says no more than its allowlist does, unless
\* the shell is about to end it or was killed, or its login read the list before.
ChangesEndSessions ==
  \A i \in DOMAIN sessions :
    LET s == sessions[i] IN s.live => Entitled(s) \/ s.raced \/ abandoned \/ revoking = s.who.github

\* enroll.py:171 "two concurrent exchanges of the same code cannot both succeed".
\* A consumed code has bought one token, is about to, or was lost in a restart.
CodeBuysOneToken ==
  \A c \in Codes :
    LET bought == {t \in tokens : t.code = c}
        buying == {r \in Threads : At(r, "issue") /\ thread[r].code = c} IN
    /\ Cardinality(bought) + Cardinality(buying) <= 1
    /\ bought \cup buying # {} => code[c] # None /\ code[c].consumed

\* google_auth.py:373 "The grant is fine; tell the client to keep polling".
PendingIsPending == client = "waiting" /\ grant = "redeemed" => \E r \in Threads : thread[r].step # "idle"

\* cli.py:1023 "show the operator exactly what would be revoked".
RevokesWhatItShowed == shown # None => tokens \subseteq shown

-----------------------------------------------------------------------------
(* Why they hold.                                                          *)

Entries == [github: Handles, admin: BOOLEAN]

ThreadStates ==
  {Idle}
    \cup [step: {"replay"}, event: Events]
    \cup [step: {"note"}, event: Events, at: Nat, seen: SUBSET (Nat \X Nat)]
    \cup [step: {"verify"}]
    \cup [step: {"lookup"}, way: Ways]
    \cup [step: {"create"}, way: Ways, who: Entries, changes: Nat]
    \cup [step: {"issue"}, code: Codes]

SignInTypeOK ==
  /\ thread \in [Threads -> ThreadStates]
  /\ \A e \in DOMAIN consumed : consumed[e] \in Nat
  /\ IsFiniteSet(accepted)
  /\ accepted \subseteq [event: Events, at: Nat, n: Nat, seen: SUBSET (Nat \X Nat)]
  /\ members \in [Ways -> {None} \cup Entries]
  /\ sessions \in Seq([who: Entries, way: Ways, live: BOOLEAN, raced: BOOLEAN])
  /\ revoking \in {None} \cup Handles
  /\ code \in [Codes -> {None} \cup [expires: Nat, consumed: BOOLEAN]]
  /\ changes \in Nat /\ abandoned \in BOOLEAN

\* The notes are numbered in the order in which they are written.
NotesAreNumbered == \A a \in accepted : a.n < Cardinality(accepted)

\* An event whose entry is gone, or overwritten by a note with an older time,
\* may be presented again; no other.
NotesAreKept ==
  \A a \in accepted :
    \/ a.at + ReplayTtl <= IF a.event \in DOMAIN consumed THEN consumed[a.event] ELSE now
    \/ \E u \in accepted : u.event = a.event /\ u.n > a.n /\ u.at < a.at

\* A request that has passed the check has passed it for all it can have seen.
ChecksAreSound ==
  \A r \in Threads : At(r, "note") => \A t \in thread[r].seen :
    \/ thread[r].at - t[2] >= ReplayTtl
    \/ \E u \in thread[r].seen : u[1] > t[1] /\ u[2] < t[2]

\* A login that read the list before it was changed knows that by its count.
LooksAreDated ==
  \A r \in Threads : At(r, "create") =>
    /\ thread[r].changes <= changes
    /\ thread[r].changes = changes => members[thread[r].way] = thread[r].who

\* CodeBuysOneToken, without counting.
Bought(c) == {t \in tokens : t.code = c}
Buying(c) == {r \in Threads : At(r, "issue") /\ thread[r].code = c}
OneBuys ==
  \A c \in Codes :
    /\ \A t, u \in Bought(c) : t = u
    /\ \A r, q \in Buying(c) : r = q
    /\ Bought(c) = {} \/ Buying(c) = {}
    /\ Bought(c) \cup Buying(c) # {} => code[c] # None /\ code[c].consumed

SignInInvariant ==
  /\ SignInTypeOK
  /\ NotesAreNumbered
  /\ NotesAreKept
  /\ ChecksAreSound
  /\ AcceptedOncePerWindow
  /\ LooksAreDated
  /\ ChangesEndSessions
  /\ OneBuys
=================================================================================
