---------------------------- MODULE ResumableUpload ----------------------------
(***************************************************************************)
(* One resumable upload: the client's loop (client/uploader.py,            *)
(* upload_resumable) and the PATCH handler, finalization and sweep of      *)
(* server/uploads.py.  Byte i of the client's file is the number i.        *)
(*                                                                         *)
(* The connection may fail at any time, on the two sides independently: a  *)
(* request the client has given up may be on its way, streaming, or in     *)
(* finalization when the client comes back with HEAD and another PATCH.    *)
(***************************************************************************)
EXTENDS Naturals, Sequences

CONSTANTS
  Requests,  \* PATCH requests that may be in progress at once
  Length,    \* Upload-Length
  Chunk,     \* bytes per PATCH
  Retries,   \* the client's attempts
  Stalls,    \* 409 answers it takes in a row
  Faults,    \* "timeout", "reset", "crash", "expire"
  NoPart, Free

ASSUME SizesAssumption ==
  /\ Length \in Nat \ {0}
  /\ Chunk \in Nat \ {0}
  /\ Retries \in Nat \ {0}
  /\ Stalls \in Nat
ASSUME FaultsAssumption == Faults \subseteq {"timeout", "reset", "crash", "expire"}
ASSUME NamesAssumption == Free \notin Requests /\ NoPart \notin Seq(Nat)

VARIABLES
  part,    \* <id>.part: the bytes on disk, or NoPart
  meta,    \* whether <id>.meta.json exists
  lock,    \* the registered entry of _PATCH_LOCKS: who holds it
  queued,  \* the recordings enqueued for this upload, in order
  sweep,   \* the sweeper, once the upload is older than its TTL
  req,     \* the PATCH requests, as the server sees them
  c        \* the client

vars == <<part, meta, lock, queued, sweep, req, c>>

Least(m, n) == IF m < n THEN m ELSE n
Prefix(n) == [i \in 1..n |-> i]
File == Prefix(Length)
Size == IF part = NoPart THEN 0 ELSE Len(part)

\* off, len: the chunk's place; got: bytes received, out: bytes flushed;
\* live: the open file is still <id>.part; body: what was moved to a session.
Unused == [at |-> "free", off |-> 0, len |-> 0, got |-> 0, out |-> 0,
           live |-> FALSE, cut |-> FALSE, code |-> 0, body |-> <<>>]

Init ==
  /\ part = <<>>
  /\ meta = TRUE
  /\ lock = Free
  /\ queued = <<>>
  /\ sweep = "young"
  /\ req = [r \in Requests |-> Unused]
  /\ c = [at |-> "ready", off |-> 0, attempt |-> 1, stalls |-> Stalls, why |-> "none"]

Goto(r, from, to) ==
  /\ req[r].at = from
  /\ req' = [req EXCEPT ![r] = [@ EXCEPT !.at = to]]

Answer(r, from, code) ==
  /\ req[r].at = from
  /\ req' = [req EXCEPT ![r] = [@ EXCEPT !.at = "release", !.code = code]]

-----------------------------------------------------------------------------
(* The client.  It waits for the one request it has not given up.          *)

Waiting(r) == c.at = "waiting" /\ req[r].at # "free" /\ ~req[r].cut

\* A caught network error: back off and HEAD, or the error is the result.
Retry ==
  c' = IF c.attempt < Retries
       THEN [c EXCEPT !.at = "head", !.attempt = @ + 1, !.stalls = Stalls]
       ELSE [c EXCEPT !.at = "failed", !.why = "network"]

Send(r) ==
  /\ c.at = "ready"
  /\ c.off < Length
  /\ req[r].at = "free"
  /\ c' = [c EXCEPT !.at = "waiting"]
  /\ req' = [req EXCEPT ![r] = [Unused EXCEPT !.at = "sent", !.off = c.off,
                                              !.len = Least(Chunk, Length - c.off)]]
  /\ UNCHANGED <<part, meta, lock, queued, sweep>>

\* Nothing to send and no 200: the attempt is over, the loop goes on.
Exhausted ==
  /\ c.at = "ready"
  /\ c.off >= Length
  /\ Retry
  /\ UNCHANGED <<part, meta, lock, queued, sweep, req>>

\* HEAD: the server's offset; a 404 leaves the client's own.
Resync ==
  /\ c.at = "head"
  /\ c' = [c EXCEPT !.at = "ready", !.off = IF meta THEN Size ELSE @]
  /\ UNCHANGED <<part, meta, lock, queued, sweep, req>>

\* A timeout, or the server closing: on the answer to a PATCH or to a HEAD.
TimeOut ==
  /\ "timeout" \in Faults
  /\ c.at \in {"waiting", "head"}
  /\ Retry
  /\ req' = [r \in Requests |-> IF Waiting(r) THEN [req[r] EXCEPT !.cut = TRUE]
                                              ELSE req[r]]
  /\ UNCHANGED <<part, meta, lock, queued, sweep>>

\* A reset while reading or writing is not in _RESUMABLE_NET_ERRORS.
Reset ==
  /\ "reset" \in Faults
  /\ c.at \in {"waiting", "head"}
  /\ c' = [c EXCEPT !.at = "failed", !.why = "network"]
  /\ req' = [r \in Requests |-> IF Waiting(r) THEN [req[r] EXCEPT !.cut = TRUE]
                                              ELSE req[r]]
  /\ UNCHANGED <<part, meta, lock, queued, sweep>>

Receive(r, code) ==
  /\ Waiting(r)
  /\ req[r].at = "answered"
  /\ req[r].code = code
  /\ req' = [req EXCEPT ![r] = Unused]
  /\ UNCHANGED <<part, meta, lock, queued, sweep>>

ReceiveNext(r) ==
  /\ Receive(r, 204)
  /\ c' = [c EXCEPT !.at = "ready", !.off = req[r].got,
                    !.stalls = IF req[r].got > c.off THEN Stalls ELSE @]

ReceiveDone(r) ==
  /\ Receive(r, 200)
  /\ c' = [c EXCEPT !.at = "done", !.off = req[r].got]

ReceiveConflictForEver(r) ==
  /\ Receive(r, 409)
  /\ c' = [c EXCEPT !.at = "ready"]

\* 409 carries no Upload-Offset: the same chunk again, a few times.
ReceiveConflict(r) ==
  /\ Receive(r, 409)
  /\ IF c.stalls = 0
     THEN Retry
     ELSE c' = [c EXCEPT !.at = "ready", !.stalls = @ - 1]

ReceiveGone(r) ==
  /\ Receive(r, 404)
  /\ c' = [c EXCEPT !.at = "failed", !.why = "refused"]

ReceiveError(r) ==
  /\ Receive(r, 500)
  /\ Retry

-----------------------------------------------------------------------------
(* resumable_append, on the event loop.                                    *)

\* The request never reaches the server, or its answer is never read.
Lost(r) ==
  /\ req[r].cut
  /\ req[r].at \in {"sent", "answered"}
  /\ req' = [req EXCEPT ![r] = Unused]
  /\ UNCHANGED <<part, meta, lock, queued, sweep, c>>

\* A handler gives way to the others only while it waits for bytes or for its
\* finalization: from the 404 check to the open it has the event loop to itself.
\* The threads, finalizations and the sweep, do not care.
HasLoop(r) == \A q \in Requests \ {r} : req[q].at \notin {"meta", "open"}

\* _owned_meta_or_404.
LoadMeta(r) ==
  /\ HasLoop(r)
  /\ IF meta THEN Goto(r, "sent", "meta") ELSE Answer(r, "sent", 404)
  /\ UNCHANGED <<part, meta, lock, queued, sweep, c>>

TakeLockAnyOffset(r) ==
  /\ IF lock # Free
     THEN Answer(r, "meta", 409) /\ UNCHANGED lock
     ELSE /\ req[r].at = "meta"
          /\ lock' = r
          /\ req' = [req EXCEPT ![r] = [@ EXCEPT !.at = "open"]]
  /\ UNCHANGED <<part, meta, queued, sweep, c>>

\* acquire(blocking=False), stat, and the offset check.
TakeLock(r) ==
  /\ IF lock # Free
     THEN Answer(r, "meta", 409) /\ UNCHANGED lock
     ELSE /\ lock' = r
          /\ IF req[r].off = Size THEN Goto(r, "meta", "open")
                                  ELSE Answer(r, "meta", 409)
  /\ UNCHANGED <<part, meta, queued, sweep, c>>

\* open("ab").
Open(r) ==
  /\ req[r].at = "open"
  /\ part' = IF part = NoPart THEN <<>> ELSE part
  /\ req' = [req EXCEPT ![r] = [@ EXCEPT !.at = "stream", !.got = req[r].off,
                                         !.out = req[r].off, !.live = TRUE]]
  /\ UNCHANGED <<meta, lock, queued, sweep, c>>

\* Bytes arrive, in order; they go to the disk some time before the close.
Arrive(r) ==
  /\ HasLoop(r)
  /\ req[r].at = "stream"
  /\ req[r].got < req[r].off + req[r].len
  /\ req' = [req EXCEPT ![r] = [@ EXCEPT !.got = req[r].got + 1]]
  /\ UNCHANGED <<part, meta, lock, queued, sweep, c>>

Flush(r) ==
  /\ HasLoop(r)
  /\ req[r].at = "stream"
  /\ req[r].out < req[r].got
  /\ req' = [req EXCEPT ![r] = [@ EXCEPT !.out = req[r].out + 1]]
  /\ part' = IF req[r].live THEN Append(part, req[r].out + 1) ELSE part
  /\ UNCHANGED <<meta, lock, queued, sweep, c>>

\* ClientDisconnect: what has arrived stays.
Disconnected(r) ==
  /\ HasLoop(r)
  /\ req[r].cut
  /\ req[r].out = req[r].got
  /\ req[r].got < req[r].off + req[r].len
  /\ Answer(r, "stream", 500)
  /\ UNCHANGED <<part, meta, lock, queued, sweep, c>>

StreamEnd(r) ==
  /\ HasLoop(r)
  /\ req[r].out = req[r].off + req[r].len
  /\ IF req[r].got < Length THEN Answer(r, "stream", 204)
                            ELSE Goto(r, "stream", "replace")
  /\ UNCHANGED <<part, meta, lock, queued, sweep, c>>

\* The finally: a lock that was dropped in between is nobody's.
Release(r) ==
  /\ HasLoop(r)
  /\ Goto(r, "release", "answered")
  /\ lock' = IF lock = r THEN Free ELSE lock
  /\ UNCHANGED <<part, meta, queued, sweep, c>>

-----------------------------------------------------------------------------
(* _finalize_resumable, in a thread of its own.                            *)

\* Whoever still has the file open (after a sweep only) writes elsewhere now.
Replace(r) ==
  /\ IF part = NoPart
     THEN Answer(r, "replace", 500)
     ELSE /\ req[r].at = "replace"
          /\ req' = [q \in Requests |->
                       IF q = r THEN [req[r] EXCEPT !.at = "unlink", !.body = part]
                                ELSE [req[q] EXCEPT !.live = FALSE]]
  /\ part' = NoPart
  /\ UNCHANGED <<meta, lock, queued, sweep, c>>

UnlinkMetaNever(r) ==
  /\ Goto(r, "unlink", "drop")
  /\ UNCHANGED <<part, meta, lock, queued, sweep, c>>

UnlinkMeta(r) ==
  /\ Goto(r, "unlink", "drop")
  /\ meta' = FALSE
  /\ UNCHANGED <<part, lock, queued, sweep, c>>

DropLock(r) ==
  /\ Goto(r, "drop", "enqueue")
  /\ lock' = Free
  /\ UNCHANGED <<part, meta, queued, sweep, c>>

EnqueueLater(r) ==
  /\ Answer(r, "enqueue", 200)
  /\ UNCHANGED <<part, meta, lock, queued, sweep, c>>

Enqueue(r) ==
  /\ Answer(r, "enqueue", 200)
  /\ queued' = Append(queued, req[r].body)
  /\ UNCHANGED <<part, meta, lock, sweep, c>>

-----------------------------------------------------------------------------
(* sweep_abandoned_uploads, in the worker thread.                          *)

SweepStep(from, to) == "expire" \in Faults /\ sweep = from /\ sweep' = to

Expire ==
  /\ meta
  /\ SweepStep("young", "part")
  /\ UNCHANGED <<part, meta, lock, queued, req, c>>

SweepPart ==
  /\ SweepStep("part", "meta")
  /\ part' = NoPart
  /\ req' = [r \in Requests |-> [req[r] EXCEPT !.live = FALSE]]
  /\ UNCHANGED <<meta, lock, queued, c>>

SweepMeta ==
  /\ SweepStep("meta", "lock")
  /\ meta' = FALSE
  /\ UNCHANGED <<part, lock, queued, req, c>>

SweepLock ==
  /\ SweepStep("lock", "swept")
  /\ lock' = Free
  /\ UNCHANGED <<part, meta, queued, req, c>>

\* The second pass: a part without meta that nobody has written for a day.
\* Only a stream can last that long.
SweepOrphan ==
  /\ "expire" \in Faults
  /\ ~meta
  /\ part # NoPart
  /\ \A r \in Requests : req[r].at \in {"free", "sent", "stream", "release", "answered"}
  /\ part' = NoPart
  /\ lock' = Free
  /\ req' = [r \in Requests |-> [req[r] EXCEPT !.live = FALSE]]
  /\ UNCHANGED <<meta, queued, sweep, c>>

-----------------------------------------------------------------------------
(* The server process is killed and started again.                         *)

Crash ==
  /\ "crash" \in Faults
  /\ req' = [r \in Requests |-> Unused]
  /\ lock' = Free
  /\ IF c.at \in {"waiting", "head"} THEN Retry ELSE UNCHANGED c
  /\ UNCHANGED <<part, meta, queued, sweep>>

Server(r) ==
  \/ LoadMeta(r)
  \/ TakeLock(r)
  \/ Open(r)
  \/ Flush(r)
  \/ StreamEnd(r)
  \/ Release(r)
  \/ Replace(r)
  \/ UnlinkMeta(r)
  \/ DropLock(r)
  \/ Enqueue(r)

Client(r) ==
  \/ Send(r)
  \/ ReceiveNext(r)
  \/ ReceiveDone(r)
  \/ ReceiveConflict(r)
  \/ ReceiveGone(r)
  \/ ReceiveError(r)

Next ==
  \/ \E r \in Requests :
       \/ Client(r)
       \/ Server(r)
       \/ Arrive(r)
       \/ Disconnected(r)
       \/ Lost(r)
  \/ Exhausted
  \/ Resync
  \/ TimeOut
  \/ Reset
  \/ Expire
  \/ SweepPart
  \/ SweepMeta
  \/ SweepLock
  \/ SweepOrphan
  \/ Crash

Spec == Init /\ [][Next]_vars

\* The client goes on and times out, threads run, and the server notices in
\* the end that a connection is closed; bytes need not arrive.
FairSpec ==
  /\ Spec
  /\ \A r \in Requests : WF_vars(Client(r)) /\ WF_vars(Server(r))
                         /\ WF_vars(Lost(r)) /\ WF_vars(Disconnected(r))
  /\ WF_vars(Exhausted \/ Resync)
  /\ WF_vars(TimeOut)

-----------------------------------------------------------------------------
(* Properties.                                                             *)

Ats == {"free", "sent", "meta", "open", "stream", "replace", "unlink", "drop",
        "enqueue", "release", "answered"}
Codes == {0, 200, 204, 404, 409, 500}
Contents == Seq(Nat)
RequestStates ==
  [at: Ats, off: Nat, len: Nat, got: Nat, out: Nat, live: BOOLEAN, cut: BOOLEAN,
   code: Codes, body: Contents]
Whys == {"none", "network", "refused"}
ClientAts == {"ready", "waiting", "head", "done", "failed"}
ClientStates ==
  [at: ClientAts, off: Nat, attempt: Nat, stalls: Nat,
   why: Whys]

\* The types of both sides; stalls_left and the attempts are counted in Nat.
TypeOK ==
  /\ part \in Seq(Nat) \cup {NoPart}
  /\ meta \in BOOLEAN
  /\ lock \in Requests \cup {Free}
  /\ queued \in Seq(Seq(Nat))
  /\ sweep \in {"young", "part", "meta", "lock", "swept"}
  /\ req \in [Requests -> RequestStates]
  /\ c \in ClientStates

\* What is enqueued is the client's file: no byte missing, doubled or out of
\* place, whatever drops, retries and restarts went before (_PATCH_LOCKS:
\* interleaved PATCHes would corrupt the audio "while the offset bookkeeping
\* still added up").  The sweep of an upload in progress is excepted.
Assembled ==
  sweep = "young" => \A i \in 1..Len(queued) : queued[i] = File

\* A file of several chunks becomes one session at most, however often the
\* client comes back while the server finalizes.
LongFileOnce ==
  sweep = "young" /\ Chunk < Length => Len(queued) <= 1

\* The client reports success only of a recording that is in the queue.
DoneIsQueued ==
  c.at = "done" => queued # <<>>

\* The client's loop ends: "a server that keeps answering 401/409/429 without
\* progress can't spin forever inside a single attempt".
ClientEnds == <>(c.at \in {"done", "failed"})

\* upload_resumable: "On a network error it HEADs the session ... and resumes
\* from there": the network alone makes it give up only after Retries attempts.
GivesUpLate ==
  c.at = "failed" /\ c.why = "network" => c.attempt = Retries

-----------------------------------------------------------------------------
(* Why the file is assembled, as long as no sweep meets the upload.        *)

Prepares(r) == req[r].at \in {"open", "stream", "replace", "unlink", "drop"}

ChunksFit == \A r \in Requests : req[r].off + req[r].len <= Length

\* An open file that is still the part has not been removed.
LiveIsThere ==
  \A r \in Requests : req[r].at = "stream" /\ req[r].live => part # NoPart

\* Whoever works on the part holds the registered lock, so there is one.
LockCovers ==
  \A r \in Requests :
    /\ Prepares(r) => \/ lock = r
                      \/ part = NoPart /\ req[r].at \in {"stream", "replace"}
    /\ req[r].at = "stream" /\ ~req[r].live => part = NoPart
    /\ req[r].at \in {"stream", "replace"} /\ part = NoPart => ~meta

\* A part that somebody has lost stays lost: nobody can open it again.
LostForGood ==
  (\E r \in Requests : req[r].at \in {"stream", "replace"} /\ part = NoPart)
    => \A q \in Requests : req[q].at \notin {"meta", "open"}

\* The part is the file up to the offset the server works at.
PartIsPrefix ==
  /\ part # NoPart => Len(part) <= Length /\ part = Prefix(Len(part))
  /\ \A r \in Requests :
       /\ req[r].at = "open" => req[r].off = Size
       /\ req[r].at = "stream" =>
            /\ req[r].out <= req[r].got
            /\ req[r].got <= req[r].off + req[r].len
            /\ part # NoPart => Len(part) = req[r].out
       /\ req[r].at = "replace" /\ part # NoPart => part = File
       /\ req[r].at \in {"unlink", "drop", "enqueue"} => req[r].body = File

UploadInvariant ==
  /\ TypeOK
  /\ ChunksFit
  /\ LiveIsThere
  /\ sweep = "young" => LockCovers /\ LostForGood /\ PartIsPrefix
  /\ Assembled

-----------------------------------------------------------------------------
(* Why it is assembled once.                                               *)

Finishes(r) == req[r].at \in {"unlink", "drop", "enqueue"}

ChunksAreShort == \A r \in Requests : req[r].len <= Chunk

OneHasLoop ==
  \A r, q \in Requests :
    req[r].at \in {"meta", "open"} /\ req[q].at \in {"meta", "open"} => r = q

\* An answer of success is given after the enqueue.
AnswersAreTrue ==
  /\ \A r \in Requests : req[r].code = 200 => queued # <<>>
  /\ c.at = "done" => queued # <<>>

\* One finalization at a time, and none after the enqueue; without the meta
\* file, a request that was past the 404 check can only start a part of its
\* own, with the first chunk, and nobody can add the next one.
FinishedOnce ==
  /\ Len(queued) <= 1
  /\ meta => queued = <<>> /\ \A r \in Requests : req[r].at \notin {"drop", "enqueue"}
  /\ \A r \in Requests : Finishes(r) =>
       queued = <<>> /\ \A q \in Requests : Finishes(q) => q = r
  /\ \A r \in Requests : req[r].at \in {"unlink", "drop"} => part = NoPart
  /\ ~meta => \A r \in Requests :
       /\ req[r].at \in {"meta", "replace"} => part = NoPart
       /\ req[r].at = "open" => req[r].off = 0
       /\ req[r].at = "stream" /\ part # NoPart => req[r].off = 0

OnceInvariant ==
  /\ UploadInvariant
  /\ ChunksAreShort
  /\ OneHasLoop
  /\ AnswersAreTrue
  /\ sweep = "young" /\ Chunk < Length => FinishedOnce

=============================================================================
