# Vezir in TLA+

Vezir is a server that receives recordings of meetings from a team's clients,
transcribes and labels them with an external program (`millet`), and pushes the
result to the team's git repository. This directory holds TLA+ modules
translated from its source, TLC configurations that check them on small
instances, and proofs checked by TLAPS. Paths such as `queue.py` are under
`src/vezir/server/` unless another directory is given.

Contents: 1 the system, 2 the modules, 3 the runs, 4 fairness, 5 the proofs,
6 what the checks found, 7 what is not modelled, 8 the plan.

## 1. The system

### Processes and threads

* The **server** is one process: an asyncio event loop, a pool of request threads
  (the synchronous FastAPI handlers), and one **worker** thread. SQLite holds what
  must survive; the follow-up queue, all locks and the requests in flight are in
  memory and die with the process.
* **millet** is a subprocess, started by whichever thread needs it, in a `HOME`
  built for one session ("shim").
* The **admin's command line** opens the same database from another process and
  shares no lock with the server.
* **Clients** record, keep a journal, upload, and poll.

### Components, state and operations

| Component | Source | State it keeps | Operations that change it | What must hold |
|---|---|---|---|---|
| Job queue | `queue.py` | `jobs` rows: status, team, sync_enabled, personal, auto_label, sync_error, created_at | `enqueue`, `import_session`, `claim_next`, `update_status`, `requeue_orphans`, `set_*`, `move_job_team`, `set_job_team`, `delete_session` | a claim is exclusive; a move never races the worker; a deleted row stays deleted; an interrupted job is run again |
| Worker | `worker.py` | the job it is on and the row it read; `_TASKS`, `_ACTIVE_TASKS` | `process_one`, four follow-up tasks, `requeue_orphans` at start | one busy session at a time; pushes go to the session's team, on request only; no task key leaks; everything ends |
| Session endpoints | `sessions.py` | none of their own | sync, retry summary, auto-label, share, move, delete | the check is still true when the act happens, or the act checks again |
| Label endpoints | `labels.py` | none of their own | `POST /api/label/{id}` | artifacts have one writer; every accepted map reaches the voiceprints |
| millet runner | `meet_runner.py` | `_SHIM_LOCKS`, `jobs/<id>/HOME`, subprocess and watchdog | fetch, acquire, prune, build, clean up, kill | one user per shim; a slow step is not a hung one |
| Uploads | `uploads.py` | `<id>.part`, `<id>.meta.json`, `_PATCH_LOCKS`, staging quota | create, HEAD, PATCH, finalize, sweep | what is enqueued is the client's file, once |
| Client upload | `src/vezir/client/uploader.py`, `upload_journal.py`, `recovery.py` | offset, attempts; journal entries; outbox | upload, resume, retry, recover | the loop ends; success is reported only of what the server has |
| Imports | `transcript_import.py` | none of its own | register a processed bundle | an import never enters transcription |
| Device sessions | `sessions_auth.py`, `nostr_members.py`, `src/vezir/client/api.py`, `src/vezir/client/config.py` | `sessions`: current and previous refresh hash, expiry, revocation; `session_refresh_history`; `_GRACE_CACHE`, `_ROTATE_LOCK`, `_REVOKED_SIDS`; the client's stored pair | create, rotate, revoke, remove an identity, reload the revoked set | one chain of refresh tokens; a retry is forgiven, a replay outside the grace window revokes; revocations and removals take effect |
| Sign-in | `nip98.py`, `nostr_auth.py`, `google_auth.py`, `enroll.py`, `auth.py`, `nostr_members.py`, `google_members.py`, `src/vezir/client/google_login.py` | `_consumed_ids`, device grants, `enroll_codes`, tokens, allowlists | verify and note an event, poll and redeem a grant, exchange a code, issue and revoke tokens, change an allowlist | an event and a code are used once; a change of the allowlist ends the sessions it must |
| Rate limiter | `ratelimit.py` | `_buckets` | `check`, eviction | forgetting a bucket gives its caller nothing |
| Teams | `queue.py`, `teams.py`, `src/vezir/cli.py` | teams, memberships, `jobs.team_id`, `teams/<id>/` | create, rename, delete with reassignment, add and remove a member, move, upload | no session without a team |
| Migrations | `migrations.py` | `schema_migrations`, tables, files between layouts | ten steps at start-up | what was there is there afterwards, wherever a start was interrupted |
| Attachments | `attachments.py`, `src/vezir/client/attachments.py`, `uploader.py` | `<id>/attachments`, staging folder | store, clean up, stage, retry; the worker's cue frames | all of a request's documents or none |
| Remote signer | `src/vezir/client/nostr/nip46.py`, `login.py` | sockets, bound signer, handled ids, seen events | dial, bind, ask, answer, take over, cancel, close | what is posted was signed, on request, by the signer that read the code |
| Recordings | `src/vezir/client/upload_journal.py`, `recovery.py`, `local.py`, `attachments.py`, `scribe.py` | folders, journal, recorder's metadata, trash | record, stitch, compress, upload, hold, move, discard, salvage | no recording is lost from sight |
| Terminal interface | `src/vezir/client/tui/` | Record tab, review, re-login, Outbox, Sessions tab, detail, app | messages of its threads, the user's keys | what the screen shows is what there is |
| Local copies | `src/vezir/client/pull.py`, `artifacts.py` | folders, `session.json`, manifest | pull, skip, heal, open folder | a partial copy is not taken for a whole one |
| Client accounts | `src/vezir/client/api.py`, `config.py`, `tui/app.py` | `teams.json`, client objects | switch team, refresh, sign in again | one pair of tokens for each login, and at its own server |
| Voiceprints, clips, doctor | `voiceprints.py`, `clips.py`, `src/vezir/doctor.py` | one JSON file per team; none; none | edit; render; diagnose | see section 7 |

`PROJECT.json` lists every component with its status.

### How they interact

Request threads and the worker share the rows, the session directory, the follow-up
queue (`enqueue_task`) and the per-session shim lock. A handler reads a row, checks
it, and acts later on a row that may have changed; the worker reads a row once and
works on it for minutes. The protections are few and specific: `claim_next` marks
and reads in one transaction, `move_job_team` is a conditional UPDATE, a follow-up
and a label POST hold the shim lock, a move tries it without blocking, and the label
endpoint refuses a session that is in the pipeline. Uploads meet the queue only in
`_finalize_resumable` (and its single-request siblings), which calls `enqueue`.

The server and the shells of operators meet in the database and in nothing else: each
transaction is atomic, what is carried from one to the next is not. On a client, three kinds of
process (terminal interface, `vezir scribe`, `vezir local` and `vezir pull`) and the recorders they start meet in the
folders of the recordings; there are no locks, only rereading and renaming. Inside the terminal interface threads send
messages to screens; a number that grows with each recording, or the identity of the client object, says which are stale.

### What is hard

Interleavings of two requests and the worker over one session; a crash between any
two commits; an exception in any step; follow-ups that were admitted on a status
which has changed when they run; a lock registry that is pruned while other threads
fetch from it; a client that retries a request which is still running; requests that suspend
in the middle of a body on one event loop; a start of the server that is killed between two file moves;
relays that drop, repeat and delay; answers to a screen that has gone on to something else. The
`hazards` of `PROJECT.json` give each one with its line and the properties about it.

## 2. The modules

| Module | Lines of code it stands for | What it is |
|---|---|---|
| `JobLifecycle` | `VALID_STATUSES` of `queue.py` | the abstract specification: the life of a session and when a copy of it may reach a repository |
| `JobPipeline` | `queue.py`, `worker.py`, `sessions.py`, `labels.py` | rows, worker, follow-ups, locks, request threads, crashes and exceptions |
| `PipelineProperties` | | what `JobPipeline` promises, its inductive invariant, the refinement, the claims of comments |
| `PipelineProofs` | | the proofs about the pipeline: types, locks, safety, pushes, refinement |
| `ShimLock` | `meet_runner.py`, the users of the lock in `worker.py`, `labels.py`, `sessions.py` | the registry of locks and the shim, at the grain of fetch, acquire and prune |
| `ResumableUpload` | `uploads.py`, `src/vezir/client/uploader.py` | one resumable upload: client loop, PATCH handler, finalization, sweep, faults |
| `UploadProofs` | | its proofs |
| `RefreshSessions` | `sessions_auth.py`, `nostr_members.py`, `src/vezir/client/api.py`, `src/vezir/client/config.py` | the session families of one identity: rotation, grace window, revocation, removal, restarts |
| `TokenChain` | the docstring of `sessions_auth.py` | the abstract specification of rotation: a family is one line of tokens |
| `RefreshProofs` | | the proofs about them: the chain of tokens and the refinement; window, revocation and removal |
| `DirectUpload` | `uploads.py`, `src/vezir/client/uploader.py` | uploads and imports in one request, retries and the idempotency cache |
| `Attachments` | `attachments.py`, `src/vezir/client/attachments.py`, `uploader.py` | the attachments directory of a session among requests, frames and crashes |
| `Watchdog` | `_wait_with_timeout` and its helpers in `meet_runner.py` | how long a step of millet may run, and how it is killed |
| `SessionFolder` | | `ShimLock`, `Watchdog`, `Attachments` and `DirectUpload` as the scenes of one specification |
| `FolderProofs` | | the proofs about lock, watchdog, attachments, one-request uploads, and their composition |
| `Recordings` | `src/vezir/client/` `upload_journal.py`, `recovery.py`, `local.py`, `attachments.py`, `scribe.py`, `pull.py` | folders, journal, scan and upload of recordings, in any process |
| `RecordScreen` | `record_screen.py`, `review_screen.py`, `reauth_screen.py`, `outbox_screen.py` in `src/vezir/client/tui/` | the screens and threads that use them |
| `RecordProofs` | | their proofs |
| `Teams` | `queue.py`, `teams.py`, `src/vezir/cli.py` | teams, members and sessions between a shell and two requests |
| `Migrations` | `migrations.py` | the start of the server on old data, then `Teams` |
| `MigrationProofs` | | the proofs about `Teams` and `Migrations` |
| `RateLimiter` | `ratelimit.py` | one limiter |
| `SignIn` | `nip98.py`, `nostr_auth.py`, `google_auth.py`, `enroll.py`, `auth.py`, the member modules, `google_login.py` | the server's side of getting a credential |
| `Relays`, `RemoteSigner` | `src/vezir/client/nostr/nip46.py`, `login.py` | sockets, and the handshake with a signer over them |
| `NostrSignIn` | | `RemoteSigner` whose post is a request of `SignIn` |
| `SignInProofs` | | the proofs about limiter, sign-in, signer and their composition |
| `Accounts` | `src/vezir/client/api.py`, `config.py`, `tui/app.py` | for whom the terminal interface asks, and with which tokens |
| `SessionList` | `sessions_screen.py`, `detail_screen.py`, `get_sessions` | the list of sessions, over `Accounts` |
| `LocalCopies` | `src/vezir/client/pull.py`, `artifacts.py` | pulled folders, manifest and "open folder" |
| `Library` | | `SessionList` and `LocalCopies` as the scenes of one specification |
| `LibraryProofs` | | the proofs about the local copies, the accounts and the list |
| `MCPipeline`, `MCResumableUpload`, `MCRefreshSessions`, `MCSessionFolder`, `MCRecordScreen`, `MCMigrations`, `MCSignIn`, `MCLibrary` | | model values, tables and symmetry for TLC |

`JobPipeline` has the lock of each session and what two threads inside do to rows, artifacts and pushes; `ShimLock` has one session's lock and the HOME
that it guards. `ResumableUpload` and `DirectUpload` end where the
`Upload` and `Import` actions of `JobPipeline` begin. `SignIn` makes the sessions that `RefreshSessions` goes on with;
`Accounts` holds the client's end of them. `Recordings` takes an upload for one step with an outcome; the two upload modules say what the step is.

A *scene* is a part of a composed specification that a behaviour stays in. Scenes share no variable that both
change, apart from what the module's comment says, so a behaviour of two scenes at once is a shuffle of two behaviours: it
violates a property of one scene exactly if its share does.

### JobPipeline

*State.* One function per column of `jobs`; `audio` and `transcript` for the session
directory (`none`, `empty`, `raw` with unnamed speakers, `named`); `repo[t]` for the
sessions the repository of team `t` holds; `w` for the worker (program counter, job,
team and sync flag it read); `tasks` and `active` for `_TASKS` and `_ACTIVE_TASKS`;
`lock`, `registry` and `mine` for the locks, the one registered for each session and the one each thread has
fetched; `req` for the request threads; `dissolved` for the teams that are deleted. History variables record who asked for a sync, which label
maps were accepted and learned, which threads wait for a lock that has been dropped from the registry (`late`), and whether the session the worker is on
was moved or relabelled under it by somebody whom its lock and status do not stop (`misled`).

*Steps.* A worker action ends at a database commit, at the end of a millet
subprocess, or at a lock operation. A request is two steps or more: `...Check` reads the
row, `...Act` acts. The label request is check, fetch, lock, apply, follow-up; the member's move is check, fetch, try the lock, UPDATE, sync. `Fetch` and `Acquire` are two
steps, as in `meet_runner.session_shim_lock` and its users, and `Cleanup` prunes: a lock that nobody holds is dropped although a thread may have fetched it, and
the next one to fetch is given another. Only `process_one` prunes without the lock, after its final status. `AdminMove` and `DeleteTeam` (with
`reassign_to`) change the team of a session whatever it is doing. `Crash`
(kill or shutdown) may come anywhere and empties what is in memory; `Boot` and
`RequeueOrphans` follow. `Raise` is an exception in a step of the pipeline or of a
follow-up; `RaiseInAutoLabel` is the handler of `reauto_label_session`, which only logs.

*Decisions.*
* `queue.py` runs every function under one process-wide lock, so each is one step.
* An operation that makes two updates with nothing between them that others
  read differently is one step: sync flag and enqueue in `sync_now` and at the end of `move_session`, set and queue in `enqueue_task`.
* A transcription that fails leaves what was on disk or already the new transcript (`LeftOver`): the watchdog may kill
  millet after it has written. With a preset and a transcript it is the summary that has failed, otherwise the session goes to `error`, with the transcript.
* In a session of `Silent` millet may hear nothing, on one attempt and not on the next; in the others it hears something.
* What millet makes of names is external: `--auto` may find names or lose them, and a posted map may name speakers, leave them, or take
  names back (any text is a name, `SPEAKER_00` too). An imported bundle may be without speech.
* `Locks` has one lock for each session and each request thread: an unused object is garbage and comes back as new.
* The admin's `delete_team` is the reassignment of its rows, in its transaction; its directory, members and refusals are in `Teams`.
* `delete_session` commits the rows and then removes the files: two steps.
* Deferred summary, frames, clips, merging of several audio files and video
  extraction are inside `TranscribeOk` and `LabelAndRoute`: they change artifacts the
  properties do not look at. `clipping` sessions are kept apart, because labels are
  optional for them and their audio is kept.
* millet is external. A push reads the artifacts at one moment; it may reach the
  remote and still be reported as failed; success means pushed. Without audio a
  transcription fails.
* A retry with another language or template is admitted whatever `summary_error` is;
  the model always admits it. Re-applying an old label map in `finalize_labels` changes
  nothing. Rows with an empty `team_id` and authorization are left out.
* `createdAt` is the order of arrival, without ties.

### ShimLock

One session, one registry entry, any number of label and move threads and the worker.
Lock objects are values of `Locks`; one that no thread and no registry refers to may
come back as new, so the same small set serves any number of prunes. The several
millet calls of `process_one` are one `job`, in which the shim is built again and again (`NextStep`). A status that lets requests in is
`settled`; it is published before the clean-up, as in the code. The session may be deleted at any time: `DeleteRow`, and later `DeleteHome`, which removes
`jobs/<id>` with the HOME of whatever millet is running in it (`queue.py:721`). Nothing stops that, so the properties about the HOME speak of a session whose
HOME has not been deleted (`session # "gone"`); a follow-up or a label request that was under way goes on and builds a new one.

### ResumableUpload

Byte `i` of the client's file is the number `i`, so "the right file" is a
statement about a sequence of numbers. `req[r]` is a PATCH request with the place of its
chunk, the bytes received and flushed. The client and the server see a broken
connection independently: a request the client has given up (`cut`) may never arrive,
may be streaming, or may be in finalization in a thread when the client is back with
HEAD and the next PATCH. `queued` are the recordings handed to `enqueue`. `sweep` is the
sweeper of the worker thread, which removes part, meta and lock in three steps once
the upload is a day old.

Decisions: one upload id; buffered bytes reach the disk one by one before the close;
HEAD is one step; a restart is at once, and the sweep of a killed server may go on where it
stopped (its steps are idempotent). The magic check, the 401 and 429 branches, the
quota, and a body longer than announced are left out: the client sends a file of
fixed size. A PATCH handler runs on the event loop and gives way only while it waits for the body and for the finalization in a
thread: from the offset check to the opening of the part no other request is at work (`HasLoop`). The second pass
of the sweep (`SweepOrphan`) needs a part that nobody has written for a day; only a stream that is
stuck can be in progress then.

### RefreshSessions

*State.* Tokens are numbered as they are made. `session` and `history` are the two tables, `cache` the grace
cache (consumed token, answer, user agent, time), `lock` the rotation lock, `noted`, `loadedAt` and `unnoted`
the access check's set of revoked families and what a handler has yet to add to it, `store` the
refresh token in the client's `teams.json`, `listed` and `delisting` the allowlist. A `call` is a request
with the thread that serves it. `answers`, `boot`, `cliRevokedAt`, `loadFailed` and three fields of the history rows are there
for the properties.

*Abstraction.* `TokenChain` knows four steps: a family begins, its head is consumed for a new one, a client is told of the last link, families end.
`Chain` reads `head` off the session table, `links` off the history, `told` off the answers and `ended` off the `revoked` column. Lock, cache, clock,
window and restarts are not in it: that they change nothing of what clients can see is what `ImplementsTokenChain` says.

*Steps.* `rotate` is cut where it opens a new transaction: `EnterRotate` takes the lock and reads the clock;
`Exchange`, `Replay`, `DetectReuse` or `Reject` is its transaction; `Recheck` or `RecheckFails` asks the allowlist;
`Refuse` notes the revoked family. Login is the allowlist lookup and then `CreateSession`. Logout and the
admin's revocation are the transaction and, later, the note; `vezir session revoke` and `vezir npub remove` run in
processes of their own, whose notes the server never sees. `Crash` empties lock, cache and notes.

*Time.* `Hz` clock steps make a second: the database stamps whole seconds, the cache does not, and
the window is computed from both. The answer to a call may be lost, or come after any other.

*Decisions.* One identity, so `revoke_all_for` is about all families. Access tokens are taken to be unexpired, which is the
harder case for revocation. The admin bit is data. A load of the revoked set is one step. The pair is
cached in the step that makes it: nothing else looks at that key before, since the lock is held or the token is
not known to anybody yet. Google identities have the same shape.

### DirectUpload

`POST /upload`, `/upload/multi` and an import are one request each. Every attempt that gets past the idempotency cache makes
a session of its own, so `post[r]` is the handler of attempt `r` and `r` is also the session's id. The
cache is asked when the request arrives (`Arrive`, `Replay`), and filled after the row is in the table (`Remember`): `BodyEnds`, `Insert` and
`Remember` are steps of their own, with `Restart` and failures between them. Time is counted in read timeouts of the client,
`Patience` of which outlive an entry. `excused` remembers of which uploads two attempts overlapped, or which the cache has
forgotten. Only the one-shot upload sends a key. A request that was given up before it arrived never arrives; checks that refuse a
body are one outcome; the refresh and retry after a 401 is left out.

### Attachments

Requests run on one event loop and give way only while they wait for the body, so `Begin` is everything up to the first
chunk: what is stored is counted there and the counts are used to the end. `OpenPart`, `Chunk` and `ClosePart` follow the
multipart stream; `Refuse` is the clean-up of `except BaseException`. A stored name is a document's name and the number that
`_unique_path` gives it. The worker's frames land in the same directory. Clients retry on connection errors, up to `Retries`.
Sizes are in chunks. Names that need sanitizing, the description and the read endpoints are left out.

### Watchdog

`Tick` is 0.05 s, the least poll interval, in which the step, or anybody else, writes or not, and its processes
use the CPU or not. `SleepsAgain`, `GoesOn`, `NoProgress` and `BudgetExpires` are the branches of the loop, `PollInterval` its
sleep, `Terminate` and `Kill` the two signals. `seen` is what an observer who misses nothing knows. Both budgets are on (0
turns one off); a machine without `psutil` readings and a millet that survives a killed server are left out. Whoever
writes into the session's folder looks like progress, an upload of attachments too: that is `others`. What the observer calls
standing still is that nobody wrote and nothing ran.

### SessionFolder

The composition of `ShimLock`, `Watchdog`, `Attachments` and `DirectUpload`, a scene each. Its comment says where they meet
and why those places are in the modules already.

### Recordings and RecordScreen

*State.* `disk[r]`: the team whose root the folder is in (or the trash), the audio, journal, metadata of the recorder and
attachments; `capt`: the folders a recorder writes to; `job`: upload workers of any process; `sent`: the sessions made of a
recording. `StateOf` is the classification that the Outbox and `vezir local list` show, in the order in which the code asks. The screens add the Record tab (`tab`), the recorder
thread of each recording (`rt`), the stack of modals and the rows they were opened with.

*Steps.* `MoveFirst`, `Stitch`, `Compress`, `Accept`, `Link` and `SendAttachments` are the upload worker between its
writes to disk; each looks for the folder where it believes it to be (`Finds`, `There`). Actions of the screens are the message handlers and
keys. `Killed` is the end of a process anywhere; its recorder goes on.

*Decisions.* The Outbox scans at the key press, so its rows are fresh, but a modal keeps the row it was opened
with. Messages of a thread are states of that thread: between different threads there is no order. A second Stop
while the first drains, the poll worker, the level meter, titles and options, and failing writes of the journal are left out.
Accepting an upload is one step; what is behind it is `ResumableUpload` and `DirectUpload`.

### Teams and Migrations

`Teams` cuts each admin request, each upload and move and each shell command at its transactions: `...Begin` resolves, `...End` or
`DeleteCount`, `DeleteTeam`, `DeleteDir` write. An argument may be a uuid or a slug, as in `Resolve`. `held` is what each
actor carries. `Migrations` starts the server on a directory of any age: `fresh`, `single` (one team, files in the
data directory), `multi` (teams by slug, tokens with a team), `members` (after 0.6). A migration is marked when it has
succeeded, each commit and each rename is a step, `tx` is what the one transaction of several steps (`step = "remap"`) found, and what `Crash` restores. Once `Serve` has come, the
actions of `Teams` follow on whatever the start produced.

Left out: deletion of smoke-test data, provenance back-fill, added columns (one step, `Additive`), team names and sync settings,
shares (nothing reads them), the contents of the voiceprints, what administrators may see in addition. `ShellWhileDown` lets the
operator use the shell between two attempts to start; it is off in the run (section 6).

### RateLimiter and SignIn

`RateLimiter` is `ratelimit.py` as it stands: a bucket is refilled when it is asked, and when a new caller comes while there are
too many, the full ones go, then those refilled longest ago. Levels are whole numbers because a token is counted in `Window` parts.
`ideal` is the same limiter without forgetting full buckets.

`SignIn` puts requests behind it. A request is a thread, cut at each access to shared state: the limiter, the replay check,
the note, the allowlist, the new session. Google's grant and the client's loop, enrolment codes, the shell's changes of an allowlist (one commit changes
it, the next revokes) and `vezir token revoke` with its dry run are there. `Scenes` says which routes a behaviour uses.

One limiter of the three; checks of structure, signature and URL are one outcome (they read nothing shared); making
and verifying a JWT, the expiry of bearers and `last_used` are left out. `RefreshSessions` goes on where `CreateSession` ends.

### Relays, RemoteSigner and NostrSignIn

`Relays` is the sockets: a thread opens one and registers it, `_wss` keeps it until `close`, dead or not. `RemoteSigner` is
the handshake over them. The signers of people nearby may scan the same code; what one says is heard if any socket is live, and
can be lost, late or delivered twice. `Connect` binds, `TakePubkey` and `TakeEvent` take answers by provenance (the code
does not compare ids), `Rebind` is the take-over, `Republish` and the attempts are the retries. `NostrSignIn` makes the post
a login request of `SignIn`. Left out: `auth_url` challenges, the clock correction, the choice of encryption, two openers of one
relay at once, a second login in one process.

### Accounts, SessionList, LocalCopies and Library

`Accounts`: the app's server, token and team; every client object made (`clients`) with the token it carries; a
request is a worker thread that reads the app's client when it begins, and refreshes once on a 401; `Keep` writes the new
pair to `teams.json`. A server may grant or refuse any refresh token it issued: which one it should is
`RefreshSessions`. One person has one login at a server. Nothing locks `teams.json`: a thread that refreshed resolves its entry (`Resolve`), loads the file (`Load`) and saves
its copy with the change (`Keep`), over what others saved in between; the interface's thread does so to switch team (`SwitchTo`, `Switched`) and twice to sign
in, for the team's entry (`Reauth`, `AddEntry`) and for the others of the login (`LoadForAll`, `ShareEntry`). Between the two saves the login has two pairs (`HalfDone`). `torn` is
set when a refresh of another login loads the file just then: it may save it like that later. What the interface's thread reads to choose an entry
(`all_teams`) and its load in `set_active_team` are one step. Not modelled: other processes (`vezir login`, a second terminal) and a process killed between the two saves, which leaves
the login with two pairs for good.

`SessionList` adds pages. Sessions are numbered by age; the list is newest first; a filter keeps a fixed set. `promise` is what the
list held when it was refreshed. `mixed` is set when a session leaves the list or the rows (pages are counted by rows, so one is
skipped) or a page is appended that was asked for before the refresh, of another team, or with another filter: `NothingIsSkipped` speaks of
the other cases. Sessions made in the same second are not told apart.

`LocalCopies`: `vezir pull` and the terminal interface, each with the manifest as it read it. A file is saved, or the download
fails; the attachments follow (`ListAttachments`, `Attach`), and their failures are logged and nothing more; `session.json` is last; `Note` writes the whole manifest as this process knows it. `crossed` is set when a title
changes in the middle of a pull: two pulls may then fill two folders. One team directory; the search of all folders on the machine is left out.

`Library` has `SessionList` twice: with `Accounts` in full and the list at rest (`accounts`), and with every request answered or lost and the
list in full (`list`). Which answers a request gets is one question, what becomes of the rows another: `OnSessionsRefreshed` uses only the
client's team and the filter.

## 3. The runs

`tlc -workers 2 -config X.cfg M`, with `M` the part of the name before `_`.

| Run (cfg) | Checks | What makes it interesting |
|---|---|---|
| `MCPipeline_moves` | `OneWriterPerSession`, `PushesToOwnTeam` | two request threads race moves and labels of one session over locks that are fetched, acquired and pruned, between two teams, one of them without a target; the admin moves it and deletes its team; against the worker |
| `MCPipeline_followups` | `ActiveIsWhatRuns`, `PushedOnRequest`, `UnattendedPushIsLabelled` | follow-ups of three kinds, speech that is heard or not, labels that give and take names, audio clean-up, and exceptions in any step |
| `MCPipeline_recovery` | `BusyIsDriven`, `ImplementsLifecycle`, `EverySessionSettles`, `EveryTaskEnds` | crashes, exceptions and deletion of a session that may keep a transcript when its transcription fails; safety, refinement, liveness |
| `MCResumableUpload_upload` | `Assembled`, `LongFileOnce`, `DoneIsQueued`, `ClientEnds` | two requests alive at once, all faults |
| `MCRefreshSessions_refresh` | `RevocationIsSeen`, `DelistedIsOut`, `ReplaysEndOnTime`, `RetryIsForgiven`, `ImplementsTokenChain` | two calls at once, lost and late answers, every kind of revocation, a removal at any moment, a failed load, a restart |
| `MCRecordScreen_recordings` | `UnsentIsShown`, `NotMovedWhileWritten` | two uploads of one recording, holds, moves, imports, discards and salvage by three kinds of process, any of which is killed, or its recorder |
| `MCMigrations_teams` | `ArrivesWhole`, `OnlyRacesOrphan`, `ComesUp` | four ages of data, crashes between any two writes, then a shell and two requests on the same teams |
| `MCSignIn_sign_in` | `EvictionGrantsNothing`, `AcceptedOncePerWindow`, `ChangesEndSessions`, `CodeBuysOneToken`, `SignedByTheSigner` | two requests with one event or one code, eviction at every third caller, an allowlist that changes; two signers over two relays that drop and repeat |
| `MCLibrary_library` | `NothingIsSkipped`, `OnePairPerLogin`, `OpensWhole` | pages that overtake each other while the list changes; two servers and three teams; two pulls, failures, a kill, a new title |
| `MCSessionFolder_folder` | `PipelineKeepsItsShim`, `ProcessedKeepsItsShim`, `SparesTheWorking`, `StuckEnds`, `AllOrNothing`, `OnePerUpload` | four scenes: threads over the shim; a step with a child and the watchdog; two clients and the frames; three uploads with retries |
| `MCPipeline_claim_labels` | `LabelsAgainstOwnTeam` is violated | a move comes between the check and the lock of a label request (section 6) |
| `MCPipeline_claim_empty` | `EmptyIsNotPushed` is violated | a transcription fails, an empty transcript stays, and auto-label publishes it (section 6) |

Three properties are proved and were checked, but are not run any more: `TeamIsCurrent` is what `PushesToOwnTeam` rests on,
`NeverForked` from `ImplementsTokenChain`, and `VerifiedStays` is a step on the way to `SignedByTheSigner`. `NamesMeanOneTeam` is proved and was checked on the instance of `teams`. What is an invariant of the proofs (`TypeOK` and the inductive ones: `InductiveInvariant`, `OnceInvariant`, `RefreshInvariant`, `RecordInvariant`,
`MigInvariant` and so on) is not run any more: section 5 proves it, and each was checked by TLC on these instances first.

Bounds, and why they are enough:
* *Sessions.* The properties are about one session, or about one session and the
  worker; what two share is the worker, which is on one of them at a time, and the queue.
* *Request threads.* Two: every race of requests with each other is between the check
  of one and the act of another. One is enough where the race is with the worker.
  The handlers of `moves` are interchangeable, the teams are not (a default team exists).
* *Operations and faults* are chosen per run (`Ops`, `Faults`); together the runs use them all but
  `raise_in_auto_sync`, which is apart from the other exceptions because it has a handler of its
  own and breaks `BusyIsDriven` (section 6). `Clipping` is empty in every run: that labels are optional for those
  sessions, and their audio kept, is covered by the proofs alone.
* *Upload.* Length 3 in chunks of 2 gives a full and a short chunk and a flush between two
  bytes; three attempts let a given-up request meet two successors; one stall (of
  eight) is enough to use the budget up and to reset it.
* *Sessions and refresh.* Two calls give the race the lock is for and a late answer beside a new call. One family:
  families share only the lock, the cache, which is keyed by token, and the client's store. Three tokens are a login and two exchanges, so
  that a token can be current, consumed last, or older. Three seconds, with a grace and a reload period of one and an
  idle period of two, let a window close and a replay try to slide it, a family idle out, and a revocation age past a reload. The hard
  cap is not reached and a second has one step; there the proofs, which hold for every value, say more than the run. `LookUp` and
  `EnterRotate` wait while the instance has no token left for them. One restart.
* *Recordings.* One recording, two teams, two uploads at once (`Jobs`): recordings share only the tab and the staging folder, and
  what a second one does to the first (finding `UploadedAsReviewed`) has been seen with two, which is too much for a run of minutes. `MaxBegun` 3: what the
  user begins and what breaks, together; `MaxSent` 1 session, after which nothing is unsent.
* *Teams.* Five uuids, two slugs, a session, a token, a member; `MaxOps` 4 operations begun is one per actor and one that meets their
  results; two crashes interrupt a start and its repetition.
* *Sign-in.* Two threads; one event, usable on every tick of the run, whose note runs out on the last; one code; two people; one bucket kept of three callers with
  two tokens each; one change of an allowlist, one restart. Two signers and relays, two copies of an answer, three messages on the way, one
  dropped connection, two attempts for the key, three rounds for the signature. Routes are used alone:
  they share the allowlist, which each has, and the limiter, which only says when a request may begin.
* *Library.* Two worker threads (one overtakes the other), one identity thread, pages of two and up to five sessions (two pages, and one that
  shifts), two refreshes, one session gone, one switch, expiry, login and lost answer. Three pulls by two processes, two troubles: one to
  leave a partial copy, one to interrupt the pull that would heal it; two artifacts and one attachment.
  `OnePairPerLogin` needs `torn` only with two switches in addition (one to reach a client of another login, one back); the proof has them.
* *Folder.* Two labelers, a mover and the worker, before and after a deletion. A budget of 7 ticks and a window of 2 give three windows; the poll interval is
  one tick throughout, the proof covers all others. Two documents from one client and one from another against caps of two files, two chunks each and three in
  all, so that each cap can be the one that is hit; one trouble. Three uploads, one of each kind, three attempts, two failures, an entry that is two
  read timeouts old.
* In the pipeline nothing else is bounded: the follow-up queue is bounded by its own de-duplication.

Deadlock is checked in the pipeline's runs. Elsewhere the system may stop: the client's loop ends (`upload`), the clock and the
tokens run out (`refresh`, `sign_in`), every recording is sent or every operation used up (`recordings`, `teams`, `library`), or the step, the uploads and the requests of
a scene are over (`folder`).

Every property has a mutant in `PROJECT.json`: one slip in one definition (a dropped
guard, a lost reset, a wrong status set) with which TLC finds the property violated.
The slips stand before the definitions they vary and are used by nothing else.

## 4. Fairness

`JobPipeline!FairSpec`: the worker thread and an accepted request go on. Nothing makes
clients ask, faults happen, or a dead server start. `EverySessionSettles` and
`EveryTaskEnds` therefore speak of a server that stays up and whose clients come to rest
(`CalmAfterAWhile`): clients that never pause can keep the worker in `_drain_tasks` for
ever, since it claims no job before the follow-ups are drained. Millet ends because of its
watchdog, so its steps are part of the worker's.

`ResumableUpload!FairSpec`: the client's loop goes on and its timeouts fire (httpx has one on
every operation), server threads run, and a closed connection is noticed in the end. Bytes need
not arrive and requests need not get through.

`Migrations!MigSpec`: a server that is down is started, and a start goes on. `ComesUp` is true because the crashes are finitely many; a
shell that works between two attempts can make a migration fail for ever (section 6), so `ShellWhileDown` is off.

The other specifications state safety only and have no fairness.

## 5. The proofs

| Theorem | States | Assumes |
|---|---|---|
| `PipelineProofs!TypeCorrect` | `Spec => []TypeOK` | |
| `PipelineProofs!Invariance` | `Spec => []InductiveInvariant` | |
| `PipelineProofs!NeverAStaleTeam` | `[]TeamIsCurrent` | |
| `PipelineProofs!NeverTwoWriters` | `[]OneWriterPerSession` | |
| `PipelineProofs!NeverToAForeignTeam` | `PushesToOwnTeam` | |
| `PipelineProofs!NeverStuckBusy` | `[]BusyIsDriven` | `NoAutoSyncFault` |
| `PipelineProofs!PipelineImplementsLifecycle` | `ImplementsLifecycle` | `NoAutoSyncFault` |
| `PipelineProofs!NeverUnasked` | `[]PushedOnRequest` | |
| `PipelineProofs!NeverUnlabelled` | `UnattendedPushIsLabelled` | |
| `PipelineProofs!NeverAStaleKey` | `[]ActiveIsWhatRuns` | |
| `FolderProofs!PipelineIsSafe` | `[]PipelineKeepsItsShim` | |
| `FolderProofs!LockSerializes` | `ProcessedIsExclusive` | |
| `FolderProofs!ShimSurvives` | `ProcessedKeepsItsShim` | |
| `FolderProofs!TheWorkingAreSpared` | `[]SparesTheWorking` | |
| `FolderProofs!TheStuckEnd` | `[]StuckEnds` | |
| `FolderProofs!SentOftenStoredOnce` | `[]OnePerUpload` | |
| `FolderProofs!AllOfItOrNothing` | `[]AllOrNothing` | |
| `FolderProofs!EveryPartKeepsItsPromise` | the six properties of `MCSessionFolder_folder`, of the composition | |
| `UploadProofs!UploadTypes` | `[]TypeOK` | |
| `UploadProofs!FileIsAssembled` | `[]Assembled` | |
| `UploadProofs!LongFileIsQueuedOnce` | `[]LongFileOnce` | |
| `UploadProofs!SuccessIsTrue` | `[]DoneIsQueued` | |
| `RefreshProofs!ChainInvariance` | `[]ChainInvariant` | |
| `RefreshProofs!RefreshTypes` | `[]TypeOK` | |
| `RefreshProofs!FamiliesNeverFork` | `[]NeverForked` | |
| `RefreshProofs!RefreshInvariance` | `[]RefreshInvariant` | |
| `RefreshProofs!ReplaysEnd` | `ReplaysEndOnTime` | |
| `RefreshProofs!RetriesAreForgiven` | `RetryIsForgiven` | |
| `RefreshProofs!RefreshImplementsTokenChain` | `ImplementsTokenChain` | |
| `RefreshProofs!RevocationsAreSeen` | `[]RevocationIsSeen` | |
| `RefreshProofs!RemovalIsFinal` | `[]DelistedIsOut` | |
| `SignInProofs!ForgettingGrantsNothing` | `[]EvictionGrantsNothing` | |
| `SignInProofs!NoteKeepsReplaysOut` | `[]AcceptedOncePerWindow` | |
| `SignInProofs!ListsEndSessions` | `[]ChangesEndSessions` | |
| `SignInProofs!OneTokenPerCode` | `[]CodeBuysOneToken` | |
| `SignInProofs!SignedByTheBound` | `[]SignedByTheSigner` | |
| `SignInProofs!TheVerifiedStays` | `VerifiedStays` | |
| `LibraryProofs!PulledIsWhole` | `[]OpensWhole` | |
| `LibraryProofs!LoginsShareThePair` | `[]OnePairPerLogin` | |
| `RecordProofs!NothingUnsentIsHidden` | `[]UnsentIsShown` | |
| `RecordProofs!NoneIsMovedUnderItsRecorder` | `NotMovedWhileWritten` | |
| `MigrationProofs!DataArrivesWhole` | `[]ArrivesWhole` | |
| `MigrationProofs!OnlyARaceOrphans` | `OnlyRacesOrphan` | |
| `MigrationProofs!MigrationTypes` | `[]MigTypeOK` | |
| `MigrationProofs!NamesAreUnambiguous` | `[]NamesMeanOneTeam` | `~ShellWhileDown` |

They hold for every number of sessions, teams, threads, locks, requests, families, clients, recordings, callers, people and restarts, for every
file and chunk size, every clock and every lifetime, every budget and poll interval, every cap, and without the bounds that keep TLC's runs
finite. The theorems of `SignInProofs`, `LibraryProofs` and `EveryPartKeepsItsPromise` are about the composed specifications that the runs check.
The assumptions of the modules are about names and types, and say that lifetimes and sizes are numbers.
`NoAutoSyncFault` says that nothing raises in the sync of an auto-label: the code only logs that, and the session stays busy (section 6). `~ShellWhileDown` says that the operator does not
use the shell on a directory between two attempts to migrate it; if he does, a team keyed by its slug may stand beside one that has that slug (section 6).

*The pipeline.* None of the safety properties is inductive. `InductiveInvariant` adds what
makes them so: the shape of the worker at each program point (`WorkerShape`), that what is
pending is about a session which has arrived (`NamesAreBorn`), that a follow-up, a label apply and a member's move
hold the lock they fetched, which is the session's registered one unless it was dropped while they waited, and that the worker's never is (`LocksAreHeld`), the status the worker left on its session
(`StatusOfWork`) and, the heart of it, that a label request in flight is about a
session which is neither queued nor in the pipeline (`LabelsAreSettled`): only a restart sends
a session back to the queue, and a restart ends the requests. Two threads that have fetched the registered lock have fetched the same one, so at most one
holds it: that is `OneWriterPerSession` but for `late`. `TeamIsCurrent` then
follows because a member's move needs a session that is not busy and the lock, and
each program point of the worker has one or the other; whoever needs neither, or has a dropped lock, sets `misled` until the worker reads a row again; `PushesToOwnTeam` follows from
`TeamIsCurrent` and the gate before the push. The refinement maps `published` to the union
of the repositories; each action is shown to be one action of `JobLifecycle` or a stutter.

*What is pushed.* `SyncIsAsked`: a sync flag, in the row or in what the worker read of it, is on only where somebody asked. `PushIsLabelled`: the
worker came to an unattended push past the check for unnamed speakers, and whoever may take a name back between the check and the push is kept out by the status or
the lock, or has a dropped one and sets `misled`. `TasksAreTracked`: the keys of the queue and of
the follow-up at work are all of `active`, each once.

*The lock.* `LockInvariant`: once `process_one` is over, every thread on its way in has
fetched the lock that is still registered, because the one who prunes holds it, and a
locked entry is not pruned. `StatusInvariant`: before the final status no label request is admitted
and a move never builds a shim. What a deletion does to the HOME is excepted in the properties.

*The upload.* `LockCovers`: whoever works on the part holds the registered lock, or the part is
gone for good (`LostForGood`). `PartIsPrefix`: the part is the file up to the offset the holder works
at, which the offset check establishes and each flush preserves. `LiveIsThere` and `ChunksFit` are the
bookkeeping. Retries, crashes and given-up requests only end requests (`QuietStep`). An upload the
sweep has met is excepted in the property itself. `OnceInvariant` adds why a file of several chunks is queued once: one request at a time is in
the handler's atomic part (`OneHasLoop`), one finalizes (`FinishedOnce`), and a request that was past the 404 check when the meta file went
can at most start a part of its own with the first chunk, to which nobody can add the next one. `AnswersAreTrue` gives `SuccessIsTrue`.

*Uploads in one request.* `OneAtATime`: while no two attempts of an upload have overlapped and its entry has not been forgotten, one attempt is at
work or has a row, and the cache speaks for the row as soon as the handler has answered. `RowsAreWhole` and `ToldOfRows`: a row is of a whole body and
stays, and cache and client speak of rows only.

*Attachments.* `FilesHaveAnOwner` and `WrittenIsOwn`: what the clean-up of a refused request takes is its own, or a cue name, which the worker's
frames may have replaced. So what a stored request has written is there while the directory is (`PartsAreThere`), and what the client moved away is
stored (`MovedIsStored`).

*The sessions.* `ChainInvariant` is about tokens: each is current in one family or was consumed once (`TokensOK`), a rotation under
way is its family's last one (`RotationOK`), and the cache holds a consumed token's successor unless the family is over or the rotation
is not (`CacheOK`: until then `create_session`'s own entry may be there). What was answered is in the history, where a
token has one successor: that is `NeverForked`. The window adds the clock: stamps are never later than now, and a rotation
waits for the ones before it (`StampsOK`); a rotation of this run of the server that is still in its window is
under way or in the cache (`WindowOK`), because the cache prunes later than the window of whole seconds closes. Whoever
presents a token consumed last therefore finds the pair, as the lock keeps him out while the rotation is under way
(`RetryIsForgiven`). `RevokedOK` says where a revocation is that the access check does not know of; `ReplaysOK` that the
cache replays only what was answered already, so that a removed identity gets nothing from it. Frame lemmas (`Frame`, `CallFrame`,
`CacheFrame`, `MoveFrame`, `TimeFrame`, `ListFrame`) say once what most steps leave alone.

*The line of tokens.* A login begins a family of `TokenChain`, an exchange extends it (the new token is one nobody has had, `FreshHead`: tokens are drawn in order), and an answer, from the
exchange or out of the cache, tells a client of the last link. The last one is the hard part: an answer out of the cache is for the token consumed last, and `CacheOK` and `TokensOK` say that
what the cache has for it is the current one. Every other step ends families or is a stutter.

*The watchdog.* The code compares with a baseline that it refreshes only when a window is over, at polls whose distance it computes from
both deadlines. `WatchInvariant` says what makes that sound: a poll never comes after a deadline (`PollIsInTime`), what has not been noticed
yet is no older than the baseline, and the CPU time of the group is the remembered one and what has been used since, unless a child
took its share with it. A step that is reaped therefore wrote nothing for a window (`SparesTheWorking`), and one that stands still is at most
one window behind the baseline and the baseline one window behind it (`StuckEnds`).

*The composition.* A step of `SessionFolder` is a step of the scene's module or leaves its variables alone, so the parts' invariants are the whole's
(`EveryPartKeepsItsPromise`).

*The limiter.* `EvictionGrantsNothing` is inductive with the types. The lemmas are the arithmetic of refilling: in two parts or at once it comes to the same, and
a full bucket is a fresh one at any later time.

*Sign-in.* `NotesAreKept`: an event that was accepted can be presented again only when its entry has run out, or a note with an older time has
overwritten it; a request between check and note has passed the check for all it can have seen (`ChecksAreSound`). `LooksAreDated`: a login that
read the allowlist before a change knows it by the count of changes, so a session that a change should have ended was raced. `OneBuys`: a code
has one thread that redeems it, or one token.

*The remote signer.* `AnswersHaveRequests`: a result is said by whom it was asked of; `TakenIsHandled` and `BoundByTheCode`: nobody is bound
before the connection, and afterwards somebody who has shown the secret, unless bare acknowledgements are allowed.

*The local copies.* `OneFolderEach`: as long as no title changes in the middle of a pull, a session has one folder, and whoever is to fill a folder fills it
(`CopierAims`). `CopierDealt`: what a process has dealt with is whole, what it is dealing with lacks only what is left to download, so a pull that ends clean
leaves whole copies, also when two processes pull and one is killed. Attachments have no part in it: nothing compares them.

*The accounts.* `CopiesAreEven`: the file, and every copy of it that a thread has loaded and will save, has one pair for each login, but for the one login that the thread
is about to even out (`EvenBut`): whoever saves a copy writes its pair to all entries of a login (`FanOutIsEven`). Between the two saves of a sign-in the file
may be uneven for its login; a copy loaded then is even once its own login, the same one, is written, and otherwise sets `torn`.

*The list.* A request for more asks for the rows behind the n-th, and n is how many rows there are. As long as nothing left the list (`mixed`), what the list promised
and has not shown yet is older than every row (`RowsAreSound`), so at least n sessions stand before it whatever was uploaded meanwhile: it is on the page or behind it
(`MoreIsSound`); behind it means that the page is full (`PageIsFull`) and that "load more" stays. The lemmas are about places in a sorted list: each is taken
once (`PlacesAreTaken`), by counting. The requests themselves are the accounts' business: `AccountsKeep` is their types, `AccountsGoOn` that they answer no page.

*The recordings.* `UnsentIsShown` is about files; what makes it true is what the threads and screens carry. `RecordersAreSound`: a folder with audio keeps it, and once its
recorder is gone none comes back. `JobsAreSound` and `ScreensAreSound`: an upload past its first step, and every screen's row that was not shown as
orphaned, are about a recording nobody writes to any more, which is also why no folder is moved under its recorder
(`NotMovedWhileWritten`). `JournalIsKept`: a journal begins with the recording and does not say `done` of an unsent one; hence `StateOf` is
one of the Outbox's states. The actions of the screens, the upload worker and the command line are each shown to keep all of it.

*The data directory.* `ArrivesWhole` speaks of the moment the server first serves; `Arriving` says what is so at each of the ten steps before: the
tables are as they were (`Unmade`), keyed by the slug, or, from the uuid migration on, by one uuid (`KeyedByUuid`); the tokens are in the file, in the
table or on the way (`TokensArrive`), and what the open transaction would restore is one of these too. Each step is shown to keep that, begun on a directory
of any of the four ages, after any number of interrupted starts. `RollbackIsSound`: what a rollback restores orphans nothing that the transaction had not found
orphaned. With `TeamsInvariant` (a uuid is drawn once; nobody carries a reassignment to the team that he deletes; `Minted`) that is
`OnlyRacesOrphan`: a migration moves sessions only to a team there is, a deletion that has counted the sessions takes them along, and what
is left are the actors that still carry a deleted team.

*Names of teams.* `queue.resolve_team_uuid` takes a slug or a uuid and fetches one row of those that match. `NamesMeanOneTeam` says that there is never more than one once the server serves.
`SlugsOK`: no two teams have a slug in common, and a uuid has one from the start, whichever step makes, renames, migrates or restores it. `KeysOK`: what is still keyed by its slug has none in the
column and belongs to a start that has not done the uuid migration. With the types (`MigTypeOK`, where what each actor carries is typed too) they are inductive beside `MigInvariant`.

*What the proofs changed.* `ResumableUpload` let two handlers interleave where the event loop does not, and the proof of `LongFileOnce` failed on it; `HasLoop` is what the
code has (no `await` from `uploads.py:834` to the opening of the part). `StateOf`
was a `CASE` with overlapping arms, of which TLA+ may choose any: it is the code's chain of tests now. `Migrations` told an open transaction from
none by comparing a record with a constant; it is a step of the start now. `OpensWhole` said less than the proof shows and was strengthened.
`NothingIsSkipped` was about a quiet list only and sorted by an operator defined by recursion; a place in the list is the number of newer sessions now, the property
holds at every moment, and it says too that no row is shown twice.

*Model-checked only.* Liveness (`EverySessionSettles`, `EveryTaskEnds`, `ClientEnds`, `ComesUp`): out of reach of the prover. Every other property of the
passing runs is proved.

## 6. What the checks found

Claims of comments, docstrings and help texts that do not hold. Each is a definition of the module it concerns, where one is named; TLC refutes it
when it is added to a configuration. The runs `claim_labels` and `claim_empty` keep two of them refuted. `findings` of `PROJECT.json` quotes the lines.

Server, pipeline:
* `BusyIsDriven` with the fault `raise_in_auto_sync`: "in-progress states that only the single worker ever drives". An
  exception in the sync that follows an auto-label is only logged: the session stays in
  `syncing` until a restart.
* `LabelsAgainstOwnTeam`: a move takes the session's lock so that no job "would label against the
  old team's voiceprints". A label request that read its row before the move and waited for
  the lock does (`claim_labels`).
* `EmptyIsNotPushed`: "never push empty artifacts to the team repo" (`worker.py:1262`, `queue.py:229`). `process_one` keeps that after a transcription that went well; one that fails when
  the transcript is written leaves `error`, which admits auto-label with sync, and that path has no check for an empty transcript (`claim_empty`). An exception
  between transcript and check leads to the same state; of an import without speech it takes Sync now.
* `meet_runner.py:308`: a lock is dropped "once nobody holds or waits on it". The code looks for a holder only, and `process_one` prunes without the lock after its final status. `OneWriterPerSession`
  without its exception (`late`) is violated in 15 steps: a transcription fails, two label requests are admitted, the first fetches the lock, the clean-up drops it, the
  first acquires it, the second fetches a new one and acquires that. A move that waited like the first may change the team under the second or the worker.
* `RequeuedHaveAudio`: re-queuing is safe because millet "re-runs from the audio" (`queue.py:520`). An import without audio whose sync was interrupted has none, nor has
  a session whose audio was deleted before its final status was written (`worker.py:1356`): both end in `error`.
* `EveryMapIsLearned`: duplicates are dropped because the task is "identical"; the key has no
  arguments, so the second label map of a session is answered 200 and never learned.
* `ShimIsMine`: users of the shim hold the lock "for the whole invocation". `process_one`
  does not, and its clean-up comes after the status that lets label requests in.
* `CountsTheChildren`: CPU time "covers millet AND its children"; a child that exits takes its time out of the difference, and a step whose
  children come and go is reaped at work.
* `KillReapsAll`: a child that ignores SIGTERM is left alive once millet itself has gone.

Server, uploads and attachments:
* `NeverTwice`: the idempotency cache is asked before the body and filled after the row, so a retry that overlaps its predecessor, comes
  after a restart, or after the TTL makes a second session.
* `NoFolderIsLeft`: a failed `enqueue` leaves the folder with the recording.
* `CapHolds`, `RefusedForACap`: two attachment requests count what is stored before they wait; together they exceed the caps, and the clean-up of
  one can remove the directory under the other (a 500).
* `StoredOnce`, `NothingHalfWritten`: the client retries what is not idempotent; a server that dies in a body leaves half a file.

Server, teams, data and sign-in:
* `FilesArrive`: the directory of a team is renamed inside a transaction; after a crash the next attempt draws another uuid and the
  files stay behind.
* `EverySessionHasATeam`: an upload or a move that resolved its team before `delete_team` orphans a session; so do two deletes that reassign to each other.
* `src/vezir/cli.py:1761`: the preview of `vezir team delete` compares a uuid with a slug and announces no sessions.
* `PendingIsPending`: when Google's keys cannot be fetched, the grant is gone, and the client polls on for nothing.
* `RevokesWhatItShowed`: `vezir token revoke` applies its filter again after the question.

Client:
* `PairsStayHome`: the new pair of a client without an entry goes to the entries of whatever team is active by then, of
  another server perhaps.
* `TokenInSync`: the client of the old team may overwrite the app's token after a switch.
* `GivesUpLate`: "on a network error it HEADs the session ... and resumes from there". A reset
  connection (`httpx.ReadError`, `WriteError`) is not among the errors it catches.
* `UploadedAsReviewed`: a retry after a sign-in uses the review of whatever was reviewed last.
* `record_screen.py:1196`: pressing Record during an upload makes `is_uploading` stay set; no later upload or import is let in.
* `scribe.py:644`: until the recorder has stopped there is no journal, and a crash leaves a recording the Outbox does not show
  (`UnsentIsShown` speaks of recordings of the terminal interface).
* `src/vezir/client/attachments.py:176`: attachments of an upload that failed ride along with the next recording.
* `OneInFlight`, `MayTakeOver`, `NoSocketAfterClose`: a late answer to an earlier request is taken for the signature, a signer that takes over in the middle of
  signing is compared with the first one's key, a relay that connects late is registered after `close`. `nip46.py:546`: a dead
  socket is never dialled again.
* `ShowsTheChoice`: a late page is appended to a list of another team or filter. `detail_screen.py:1087`: a deleted session stays in the list.
* `pull.py:364`: `session.json` counts as saved, so a pull that got nothing counts as one that worked.

Behaviours seen while modelling that no run is about yet:
* `sessions.py:743` says that personal sessions are never synced; Sync now (`sessions.py:325`) turns the sync
  of a personal session on and queues it.
* `queue.py:232` says that an import never enters the transcription pipeline; one interrupted in
  `syncing` is re-queued (`queue.py:534`) and transcribed.
* `sessions.py:288` names statuses that do not admit a sync; a sync admitted on one status runs on whatever
  status the session has then, `needs_labeling` included.
* `worker.py:1816` says that it mirrors the pipeline's sync gates; it does not ask for a sync target.
* `queue.py:1112`, `queue.py:1225`: the admin's move of a busy session, and the deletion of its team with `reassign_to`, do what `queue.py:1118` guards the member's move
  against; the worker goes on for the old team (`TeamIsCurrent` and `PushesToOwnTeam` except them, `misled`).
* `queue.py:721`: the deletion of a session removes the HOME under a running millet, without lock or status check; so do its files.
* `artifacts.py:113`: an attachment that could not be fetched is never asked for again by `vezir pull`, which skips a folder that has all its artifacts.
* `uploads.py:835`: a file of one chunk can be enqueued twice, by a retry that loads the meta before
  it is unlinked and takes a fresh lock after the drop (`LongFileOnce` is about longer files).
* `uploads.py:911`: a crash between the move of the part and `enqueue` leaves a session directory
  that no row points at; the client then gets 404.
* `uploader.py:823`: after a crash between the last byte and finalization the part is complete, the
  client has nothing to send, and it fails after its last attempt.
* `uploads.py:678`: the sweep may remove the part of an upload in progress, which can go on in a new file;
  what is enqueued then need not be the recording.
* `uploads.py:874`: the comment says that the bytes of an overshooting PATCH are rolled back; they are not.
* `src/vezir/client/config.py:464` says that fan-out is safe because the grace cache replays an identical answer to
  processes that refresh at the same time. That holds for two; a process whose request is delayed while others rotate twice presents a token
  two generations old, and one whose answer is late writes an older pair over a newer one. Both end the family, at once or at the next refresh
  after the window.
* `sessions_auth.py:205` caches the first pair so that "the FIRST rotation being lost still replays"; that rotation overwrites the entry
  before anyone can ask for it, and the entry's user agent is empty. The lost answer is replayed all the same, by the rotation's own entry.
* `sessions_auth.py:341`: a restart between a rotation and the retry of its lost answer ends the family (`RetryIsForgiven` speaks of one run of
  the server); the comment there says so.
* `sessions_auth.py:513`: a failed load counts as a load; the access check then waits a whole period before it asks again.
* `nostr_members.py:99`: a removal that dies between its two transactions leaves the families to their next refresh, where the re-check ends them; the access
  tokens stay good until they expire.
* A lost final answer makes the client report the failure of a recording that is in the queue.
* `upload_multi` sends no `Idempotency-Key`; each of its retries is a new session.
* A step that finishes between the watchdog's last poll and the kill is reported as reaped.
* `ratelimit.py:86`: the check for room comes before the insertion, so `_MAX_BUCKETS` + 1 are kept.
* An enrolment code is lost when the server dies between consuming it and issuing the token; the admin makes another.
* A shell that creates or renames a team between two attempts to start makes the uuid migration fail on every later attempt (`ComesUp` with
  `ShellWhileDown`).
* A cancel during `get_public_key` is swallowed by its retry loop; the login goes on to the next attempt.
* A recording is started twice when Record is pressed again before the first press has been worked on; a slow artifact poll saves into the folder
  of the last recording; the Outbox offers a row that the Record tab is uploading.
* Two pulls at once write the manifest from their own copies: an entry of one is lost and found again through `session.json`. Two sessions of
  the same second and title share a folder.
* `teams.json` is read, changed and written without a lock: two processes that refresh at once lose one pair, and a refresh of another login that loads the file in the
  middle of a sign-in may leave its login with two pairs (`torn`).

## 7. What is not modelled

What each module leaves out is under its name in section 2. Whole parts:
* Listing, reading, clip rendering, frames, summaries' text: they change no state a
  property is about.
* The voiceprint databases: one JSON file per team, which millet reads and rewrites as a whole when it learns, and `vezir voiceprints` when it seeds, removes or merges. At which
  moment of its run millet reads and writes the file is not in this repository, so what an overlap of the two loses cannot be said from it.
* Authorization and visibility: checked on the row the check step reads, not modelled further, but for what a member may see in `Teams`.
* Sound devices and audio tools, the screens for labels and artifacts, layout, `doctor`, argument handling: I/O and wiring.
* `vezir session relabel` beside the worker, in a process of its own without the session's lock; a database that fails in places
  other than those where `Raise` stands for it. Both are hazards of `PROJECT.json` without a property.
* Cryptography: signatures, hashes and the randomness of tokens are assumed.

## 8. The plan

The order was by what can go wrong where tests do not reach.

1. The pipeline with its abstract life cycle, the shim's lock, resumable uploads, device sessions; their proofs: done.
2. Recordings and the screens around them, one-request uploads, attachments, watchdog, teams and migrations, limiter and sign-in, remote signer,
   accounts, session list and local copies: done, with the proofs of their safety.
3. Refinement of `TokenChain`, the admin's moves, paging; locks that are fetched, acquired and pruned in the pipeline, deletion of a session under its millet,
   attachments of pulled copies, the loads and saves of `teams.json`: done. Types of the migrations and names of teams: done.
4. Models still to write: the relabel command beside the worker (a second user of the shim in `JobPipeline`), a worker thread that dies of a failing database, the expiry of access tokens
   in `RefreshSessions`, the caption splitting of clips as a pure algorithm against a reference.

Runs are kept few, one for each question: a composed specification with scenes serves where several modules ask
small ones.
