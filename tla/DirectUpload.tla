------------------------------ MODULE DirectUpload ------------------------------
(***************************************************************************)
(* Sessions that arrive in one request: POST /upload, /upload/multi and    *)
(* /api/sessions/import of server/uploads.py, and the clients that retry   *)
(* them (client/uploader.py).  Every attempt that gets past the            *)
(* idempotency cache makes a session of its own, so an attempt's name is   *)
(* also the id of its session.                                             *)
(***************************************************************************)
EXTENDS Integers, FiniteSets

CONSTANTS
  Uploads,     \* logical uploads, each by one client
  Kind,        \* Kind[u]: "single", "multi" or "import"
  MaxAttempts, \* the retries parameter of the uploader
  Patience,    \* read timeouts after which an entry has outlived its TTL
  MaxFailures  \* bound: things that go wrong

ASSUME PatienceAssumption == Patience \in Nat \ {0}
ASSUME AttemptsAssumption == MaxAttempts \in Nat \ {0}
ASSUME KindAssumption == Kind \in [Uploads -> {"single", "multi", "import"}]

VARIABLES
  post,      \* the handler of each attempt
  dirs,      \* session folders: attempt -> "partial" or "whole"
  rows,      \* the attempts whose session is in the job table
  cache,     \* _IDEMPOTENCY: upload -> [session, age]
  sender,    \* the client: [at, attempt, told]
  excused,   \* history: uploads of which two attempts overlapped, or which
             \* the cache has forgotten
  failures

directVars == <<post, dirs, rows, cache, sender, excused, failures>>

Tries == Uploads \X (1..MaxAttempts)

DirectInit ==
  /\ post = [r \in Tries |-> "unsent"]
  /\ dirs = <<>>
  /\ rows = {}
  /\ cache = <<>>
  /\ sender = [u \in Uploads |-> [at |-> "waiting", attempt |-> 1, told |-> <<>>]]
  /\ excused = {}
  /\ failures = 0

Fails == failures < MaxFailures /\ failures' = failures + 1
Now(u) == <<u, sender[u].attempt>>
Under(u) == {r \in Tries : r[1] = u /\ post[r] \in {"receiving", "enqueueing", "inserted"}}
With(f, x, v) == [y \in DOMAIN f \cup {x} |-> IF y = x THEN v ELSE f[y]]
Without(f, S) == [y \in DOMAIN f \ S |-> f[y]]
Becomes(r, pc) == post' = [post EXCEPT ![r] = pc]

-----------------------------------------------------------------------------
(* The server.                                                             *)

RememberedNever(u) == FALSE

\* _idempotency_get: an entry that has not outlived its TTL.  Only the
\* one-shot upload sends a key.
Remembered(u) == u \in DOMAIN cache /\ cache[u].age < Patience

\* The attempt arrives; the cache is asked before the first byte of the body.
Arrive(u) ==
  LET r == Now(u)
  IN  /\ sender[u].at = "waiting" /\ post[r] = "unsent"
      /\ ~Remembered(u)
      /\ Becomes(r, "receiving")
      /\ dirs' = IF Kind[u] = "import" THEN With(dirs, r, "partial") ELSE dirs
      /\ excused' = IF Under(u) # {} THEN excused \cup {u} ELSE excused
      /\ UNCHANGED <<rows, cache, sender, failures>>

\* The answer names the session of the earlier attempt; one that is lost leaves
\* everything as it was.
Replay(u) ==
  /\ sender[u].at = "waiting" /\ post[Now(u)] = "unsent"
  /\ Remembered(u)
  /\ sender' = [sender EXCEPT ![u].at = "done", ![u].told = cache[u].session]
  /\ UNCHANGED <<post, dirs, rows, cache, excused, failures>>

\* open_file and the sinks: into the session's folder, chunk by chunk.
Receive(r) ==
  /\ post[r] = "receiving" /\ r \notin DOMAIN dirs
  /\ dirs' = With(dirs, r, "partial")
  /\ UNCHANGED <<post, rows, cache, sender, excused, failures>>

\* The closing boundary, every check passed.
BodyEnds(r) ==
  /\ post[r] = "receiving" /\ r \in DOMAIN dirs
  /\ Becomes(r, "enqueueing")
  /\ dirs' = With(dirs, r, "whole")
  /\ UNCHANGED <<rows, cache, sender, excused, failures>>

\* A check fails, or the client is gone: nothing stays.
BodyFails(r, pc) ==
  /\ Fails
  /\ post[r] = "receiving"
  /\ pc = "dropped" => r # Now(r[1]) \/ sender[r[1]].at # "waiting"
  /\ Becomes(r, pc)
  /\ dirs' = Without(dirs, {r})
  /\ UNCHANGED <<rows, cache, sender, excused>>

\* queue.enqueue or queue.import_session, in a thread of the pool ...
Insert(r) ==
  /\ post[r] = "enqueueing"
  /\ Becomes(r, "inserted")
  /\ rows' = rows \cup {r}
  /\ UNCHANGED <<dirs, cache, sender, excused, failures>>

\* ... which raises when the database stays locked: a 500 outside the clean-up.
InsertFails(r) ==
  /\ Fails
  /\ post[r] = "enqueueing"
  /\ Becomes(r, "failed")
  /\ UNCHANGED <<dirs, rows, cache, sender, excused>>

\* Back on the event loop: _idempotency_put, and the answer.
Remember(r) ==
  /\ post[r] = "inserted"
  /\ Becomes(r, "stored")
  /\ cache' = IF Kind[r[1]] = "single"
              THEN With(cache, r[1], [session |-> r, age |-> 0]) ELSE cache
  /\ UNCHANGED <<dirs, rows, sender, excused, failures>>

\* The cache is in memory only; folders are not swept.
Restart ==
  /\ Fails
  /\ post' = [r \in Tries |->
       IF post[r] \in {"receiving", "enqueueing", "inserted"} THEN "dead" ELSE post[r]]
  /\ cache' = <<>>
  /\ excused' = excused \cup DOMAIN cache \cup {r[1] : r \in {s \in Tries : post[s] = "inserted"}}
  /\ UNCHANGED <<dirs, rows, sender>>

-----------------------------------------------------------------------------
(* The client.                                                             *)

\* The uploads are retried, an import is not.
TriesAgain(u) ==
  sender' = IF Kind[u] # "import" /\ sender[u].attempt < MaxAttempts
            THEN [sender EXCEPT ![u].attempt = @ + 1]
            ELSE [sender EXCEPT ![u].at = "failed"]

Learned(u) ==
  LET r == Now(u)
  IN  /\ sender[u].at = "waiting"
      /\ \/ /\ post[r] = "stored"
            /\ sender' = [sender EXCEPT ![u].at = "done", ![u].told = r]
         \/ post[r] = "refused" /\ sender' = [sender EXCEPT ![u].at = "failed"]
         \/ post[r] = "failed" /\ TriesAgain(u)
      /\ UNCHANGED <<post, dirs, rows, cache, excused, failures>>

\* The connection breaks, or the answer takes longer than the read timeout,
\* which every entry of the cache gets older by.
GivesUpWaiting(u, slow) ==
  /\ Fails
  /\ sender[u].at = "waiting"
  /\ TriesAgain(u)
  /\ cache' = IF slow THEN [v \in DOMAIN cache |-> [cache[v] EXCEPT !.age = @ + 1]] ELSE cache
  /\ excused' = excused \cup {v \in DOMAIN cache' : cache'[v].age >= Patience}
  /\ UNCHANGED <<post, dirs, rows>>

DirectNext ==
  \/ \E u \in Uploads :
       \/ Arrive(u)
       \/ Replay(u)
       \/ Learned(u)
       \/ \E slow \in BOOLEAN : GivesUpWaiting(u, slow)
  \/ \E r \in Tries :
       \/ Receive(r)
       \/ BodyEnds(r)
       \/ \E pc \in {"refused", "dropped"} : BodyFails(r, pc)
       \/ Insert(r)
       \/ InsertFails(r)
       \/ Remember(r)
  \/ Restart

DirectSpec == DirectInit /\ [][DirectNext]_directVars

-----------------------------------------------------------------------------
(* Properties.                                                             *)

\* A session in the job table has its whole audio, a client that was told of a
\* session finds it there, and a folder without a row is one that a request is
\* still writing, or that a crash or a failed insert left.  A one-shot upload
\* makes one session however often it is sent, unless an attempt came in while
\* an earlier one was still on its way, or the cache had forgotten the first.
OnePerUpload ==
  /\ \A r \in rows : dirs[r] = "whole"
  /\ \A u \in Uploads : sender[u].at = "done" => sender[u].told \in rows
  /\ \A r \in DOMAIN dirs \ rows : post[r] \in {"receiving", "enqueueing", "failed", "dead"}
  /\ \A r, s \in rows :
       r[1] = s[1] /\ r # s => Kind[r[1]] = "multi" \/ r[1] \in excused

\* "a retry after a lost/late response can be deduped server-side instead of
\* creating a SECOND session": not while the first attempt is still at it.
NeverTwice ==
  \A r, s \in rows : Kind[r[1]] = "single" /\ r[1] = s[1] => r = s

\* A refused or broken request leaves no folder behind: one whose insert fails
\* does, and its retry takes another.
NoFolderIsLeft ==
  \A r \in DOMAIN dirs \ rows : post[r] \in {"receiving", "enqueueing", "dead"}

\* What OnePerUpload rests on, as an inductive invariant; its parts follow an
\* attempt from the handler to the job table, the cache and the client.
DirectTypeOK ==
  /\ post \in [Tries -> {"unsent", "receiving", "enqueueing", "inserted", "stored",
                        "refused", "dropped", "failed", "dead"}]
  /\ DOMAIN dirs \subseteq Tries
  /\ rows \subseteq Tries
  /\ DOMAIN cache \subseteq Uploads
  /\ \A u \in DOMAIN cache : cache[u] \in [session : Tries, age : Nat]
  /\ sender \in [Uploads -> [at : {"waiting", "done", "failed"},
                            attempt : 1..MaxAttempts, told : Tries \cup {<<>>}]]

\* A row is written once the body is whole, and stays.
RowsAreWhole ==
  \A r \in Tries :
    /\ r \in rows => post[r] \in {"inserted", "stored", "dead"}
    /\ post[r] \in {"inserted", "stored"} => r \in rows
    /\ r \in rows \/ post[r] = "enqueueing" => r \in DOMAIN dirs /\ dirs[r] = "whole"
    /\ post[r] \in {"unsent", "refused", "dropped"} => r \notin DOMAIN dirs

\* The cache and the client speak of sessions in the table.
ToldOfRows ==
  /\ \A u \in DOMAIN cache : cache[u].session \in rows
  /\ \A u \in Uploads : sender[u].at = "done" => sender[u].told \in rows

ImportIsSentOnce ==
  \A r \in Tries : Kind[r[1]] = "import" =>
    /\ sender[r[1]].attempt = 1
    /\ r[2] # 1 => post[r] = "unsent"

\* While nothing excuses a one-shot upload, one attempt of it is at work or has
\* a row, and the cache speaks for the row as soon as the handler has answered.
OneAtATime ==
  \A r \in Tries : Kind[r[1]] = "single" /\ r[1] \notin excused =>
    /\ \A s \in Tries :
         s[1] = r[1] /\ r \in rows \cup Under(r[1]) /\ s \in rows \cup Under(r[1]) => s = r
    /\ r \in rows =>
         \/ post[r] = "inserted"
         \/ post[r] = "stored" /\ Remembered(r[1])

DirectInvariant ==
  DirectTypeOK /\ RowsAreWhole /\ ToldOfRows /\ ImportIsSentOnce /\ OneAtATime
=============================================================================
