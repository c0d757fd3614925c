------------------------------ MODULE Attachments ------------------------------
(***************************************************************************)
(* The attachments of one session: server/attachments.py, the clients that *)
(* send documents (client/attachments.py, uploader.upload_attachments) and *)
(* the worker's cue frames, which land in the same directory.              *)
(*                                                                         *)
(* The handlers run on one event loop and give way only while they wait    *)
(* for the next chunk of a body; the worker is a thread of its own.  A     *)
(* request is one attempt of a client.  A stored name is a document's name *)
(* and the number _unique_path puts behind it.                             *)
(***************************************************************************)
EXTENDS Integers, Sequences, FiniteSets, FiniteSetsExt

CONSTANTS
  Clients,
  Docs,       \* Docs[c]: what c has staged, a sequence of [name, size]
  Retries,    \* Retries[c]: the attempts of uploader.upload_attachments
  CueNames,   \* the names of the worker's frames
  MaxCount,   \* max_attachments_per_session
  MaxFile,    \* max_upload_bytes, in chunks
  MaxTotal,   \* max_attachment_bytes_total, in chunks
  MaxTroubles \* bound: crashes, deletions and failed connections together

ASSUME DocsAssumption ==
  \A c \in Clients :
    /\ Retries[c] \in Nat \ {0}
    /\ Len(Docs[c]) \in Nat \ {0} /\ DOMAIN Docs[c] = 1..Len(Docs[c])
    /\ \A i \in DOMAIN Docs[c] : Docs[c][i].size \in Nat

VARIABLES
  there,    \* the session's row and folder exist
  folder,   \* its attachments directory exists
  files,    \* the files in it: [name, by, doc, size, whole]
  attempt,  \* the attempt each client is at
  client,   \* the client's side
  request,  \* the handler's side of each attempt
  frames,   \* the worker
  troubles

attachVars == <<there, folder, files, attempt, client, request, frames, troubles>>

Requests == UNION {{c} \X (1..Retries[c]) : c \in Clients}
FrameWriter == <<"worker", 0>>

\* A handler's locals: nothing was stored before, how much more may be; the part
\* it is at, the chunks of it so far; the names it has created.
Unsent == [pc |-> "unsent", empty |-> FALSE, slots |-> 0, room |-> 0,
           doc |-> 1, sent |-> 0, written |-> {}]
Over(status) == [Unsent EXCEPT !.pc = status]

AttachInit ==
  /\ there = TRUE
  /\ folder = FALSE
  /\ files = {}
  /\ attempt = [c \in Clients |-> 1]
  /\ client = [c \in Clients |-> "staged"]
  /\ request = [r \in Requests |-> Unsent]
  /\ frames = "idle"
  /\ troubles = 0

-----------------------------------------------------------------------------
(* The handler.                                                            *)

Names == {f.name : f \in files}
Stored == Cardinality(files)
Bytes == MapThenSumSet(LAMBDA f : f.size, files)

SameName(name) == <<name, 1>>

\* _unique_path: the first number nobody has.
UniqueName(name) ==
  <<name, Min({i \in 1..(Stored + 1) : <<name, i>> \notin Names})>>

Doc(r) == Docs[r[1]][request[r].doc]
Current(r) == {f \in files : f.by = r /\ f.doc = request[r].doc}
Put(f) == {g \in files : g.name # f.name} \cup {f}

TakeBackNothing(r) == UNCHANGED <<files, folder>>

\* "except BaseException": what this request wrote goes, and the directory too
\* if nothing was stored before and nothing is in there now.
TakeBack(r) ==
  LET left == {f \in files : f.name \notin request[r].written}
  IN  /\ files' = left
      /\ folder' = (folder /\ ~(request[r].empty /\ left = {}))

Answer(r, status) ==
  /\ request' = [request EXCEPT ![r] = Over(status)]
  /\ UNCHANGED <<there, attempt, client, frames, troubles>>

Refuse(r, status) == TakeBack(r) /\ Answer(r, status)

\* upload_attachments up to its first await.
Begin(c) ==
  LET r == <<c, attempt[c]>>
  IN  /\ client[c] = "sending" /\ request[r].pc = "unsent"
      /\ IF ~there \/ Stored >= MaxCount \/ Bytes >= MaxTotal
         THEN /\ request' = [request EXCEPT ![r].pc = "refused"]
              /\ UNCHANGED folder
         ELSE /\ request' = [request EXCEPT
                   ![r].pc = "between", ![r].empty = (files = {}),
                   ![r].slots = MaxCount - Stored, ![r].room = MaxTotal - Bytes]
              /\ folder' = TRUE
      /\ UNCHANGED <<there, files, attempt, client, frames, troubles>>

\* open_file: the part is refused, or its file created, unless the directory
\* has gone.
OpenPart(r) ==
  LET name == UniqueName(Doc(r).name)
  IN  /\ request[r].pc = "between" /\ request[r].doc <= Len(Docs[r[1]])
      /\ \/ /\ Cardinality(request[r].written) >= request[r].slots
            /\ Refuse(r, "refused")
         \/ /\ Cardinality(request[r].written) < request[r].slots
            /\ ~folder
            /\ Refuse(r, "broken")
         \/ /\ Cardinality(request[r].written) < request[r].slots
            /\ folder
            /\ files' = Put([name |-> name, by |-> r, doc |-> request[r].doc,
                             size |-> 0, whole |-> FALSE])
            /\ request' = [request EXCEPT ![r].pc = "inside", ![r].sent = 0,
                                          ![r].written = @ \cup {name}]
            /\ UNCHANGED <<there, folder, attempt, client, frames, troubles>>

\* _AttachmentSink.write: a chunk of the file, with the caps.
Chunk(r) ==
  /\ request[r].pc = "inside" /\ request[r].sent < Doc(r).size
  /\ IF request[r].sent >= MaxFile \/ request[r].room = 0
     THEN Refuse(r, "refused")
     ELSE /\ files' = {IF f \in Current(r) THEN [f EXCEPT !.size = @ + 1] ELSE f : f \in files}
          /\ request' = [request EXCEPT ![r].sent = @ + 1, ![r].room = @ - 1]
          /\ UNCHANGED <<there, folder, attempt, client, frames, troubles>>

ClosePart(r) ==
  /\ request[r].pc = "inside" /\ request[r].sent = Doc(r).size
  /\ files' = {IF f \in Current(r) THEN [f EXCEPT !.whole = TRUE] ELSE f : f \in files}
  /\ request' = [request EXCEPT ![r].pc = "between", ![r].doc = @ + 1]
  /\ UNCHANGED <<there, folder, attempt, client, frames, troubles>>

\* The closing boundary.  What was written is described; a file that is no
\* longer there makes the answer a 500, outside the clean-up.
End(r) ==
  /\ request[r].pc = "between" /\ request[r].doc > Len(Docs[r[1]])
  /\ Answer(r, IF request[r].written \subseteq Names THEN "stored" ELSE "undescribed")
  /\ UNCHANGED <<files, folder>>

\* ClientDisconnect, at the next read of a body whose connection is gone.
Disconnected(r) ==
  /\ request[r].pc \in {"between", "inside"}
  /\ attempt[r[1]] # r[2] \/ client[r[1]] = "kept"
  /\ Refuse(r, "dropped")

-----------------------------------------------------------------------------
(* Everyone else.                                                          *)

Trouble == troubles < MaxTroubles /\ troubles' = troubles + 1

\* send_attachments.
Send(c) ==
  /\ client[c] = "staged"
  /\ client' = [client EXCEPT ![c] = "sending"]
  /\ UNCHANGED <<there, folder, files, attempt, request, frames, troubles>>

\* Stored, the documents leave the staging folder; refused, they stay there.
Learn(c) ==
  LET answer == request[<<c, attempt[c]>>].pc
  IN  /\ client[c] = "sending"
      /\ answer \in {"stored", "refused", "broken", "undescribed"}
      /\ client' = [client EXCEPT ![c] = IF answer = "stored" THEN "moved" ELSE "kept"]
      /\ UNCHANGED <<there, folder, files, attempt, request, frames, troubles>>

\* _RESUMABLE_NET_ERRORS: the connection fails, or the answer does not come in
\* time; another attempt, or the documents stay staged.
NetError(c) ==
  /\ Trouble
  /\ client[c] = "sending"
  /\ IF attempt[c] < Retries[c]
     THEN attempt' = [attempt EXCEPT ![c] = @ + 1] /\ UNCHANGED client
     ELSE client' = [client EXCEPT ![c] = "kept"] /\ UNCHANGED attempt
  /\ UNCHANGED <<there, folder, files, request, frames>>

\* _extract_frames: the old frames go ...
FramesStart ==
  /\ there /\ frames = "idle"
  /\ frames' = "extracting"
  /\ files' = {f \in files : f.name[1] \notin CueNames}
  /\ folder' = TRUE
  /\ UNCHANGED <<there, attempt, client, request, troubles>>

\* ... and the new ones come, each out of a private directory.
Frame(name) ==
  /\ frames = "extracting" /\ folder
  /\ files' = Put([name |-> <<name, 1>>, by |-> FrameWriter, doc |-> 0, size |-> 1, whole |-> TRUE])
  /\ UNCHANGED <<there, folder, attempt, client, request, frames, troubles>>

FramesEnd ==
  /\ frames = "extracting"
  /\ frames' = "over"
  /\ UNCHANGED <<there, folder, files, attempt, client, request, troubles>>

Delete ==
  /\ Trouble
  /\ there
  /\ there' = FALSE
  /\ folder' = FALSE
  /\ files' = {}
  /\ UNCHANGED <<attempt, client, request, frames>>

\* The server dies and comes up again: no handler cleans up, the job is re-run.
CrashServer ==
  /\ Trouble
  /\ request' = [r \in Requests |->
       IF request[r].pc \in {"between", "inside"} THEN Over("dead") ELSE request[r]]
  /\ frames' = IF frames = "extracting" THEN "idle" ELSE frames
  /\ UNCHANGED <<there, folder, files, attempt, client>>

AttachNext ==
  \/ \E c \in Clients : Send(c) \/ Begin(c) \/ Learn(c) \/ NetError(c)
  \/ \E r \in Requests :
       OpenPart(r) \/ Chunk(r) \/ ClosePart(r) \/ End(r) \/ Disconnected(r)
  \/ FramesStart
  \/ \E name \in CueNames : Frame(name)
  \/ FramesEnd
  \/ Delete
  \/ CrashServer

AttachSpec == AttachInit /\ [][AttachNext]_attachVars

-----------------------------------------------------------------------------
(* Properties.                                                             *)

\* "All-or-nothing", among requests that arrive together and a worker that
\* writes into the same directory.  What a request that ended without success
\* wrote is gone; all a successful one wrote is there, whole and its own (but
\* for a document named like a frame, which the worker may replace); and what
\* left the staging folder is on the server.
AllOrNothing ==
  /\ \A f \in files :
       f.by = FrameWriter \/ request[f.by].pc \notin {"unsent", "refused", "broken", "dropped"}
  /\ there => \A r \in Requests : request[r].pc = "stored" =>
       \A i \in DOMAIN Docs[r[1]] :
         \/ Docs[r[1]][i].name \in CueNames
         \/ \E f \in files :
              f.by = r /\ f.doc = i /\ f.whole /\ f.size = Docs[r[1]][i].size
  /\ \A c \in Clients : client[c] = "moved" => \E k \in 1..Retries[c] : request[<<c, k>>].pc = "stored"

\* "accepting more here would store files that silently never reach the team
\* repo": each request counts what was there before it waited for its body, so
\* two of them together exceed the caps.
CapHolds == Stored <= MaxCount /\ Bytes <= MaxTotal

\* "Retries only on connection errors: the request is not idempotent": a read
\* timeout is retried too, and the documents are stored twice.
StoredOnce ==
  \A r, s \in Requests :
    r[1] = s[1] /\ request[r].pc = "stored" /\ request[s].pc = "stored" => r = s

\* A document is refused for a cap: not because another request's clean-up
\* removed the directory that this one had just made sure of.
RefusedForACap == \A r \in Requests : request[r].pc = "broken" => ~there

\* "so a retry starts from the state the caller last saw": not when the server
\* died on the way.
NothingHalfWritten ==
  \A f \in files : ~f.whole => request[f.by].pc \in {"between", "inside"}

\* What AllOrNothing rests on, as an inductive invariant.  A request is open
\* while a handler is at it.
Open(r) == request[r].pc \in {"between", "inside"}
DocNames == UNION {{Docs[c][i].name : i \in DOMAIN Docs[c]} : c \in Clients}

\* room and slots are left out: they decide what is refused, not what is kept.
AttachTypeOK ==
  /\ there \in BOOLEAN /\ folder \in BOOLEAN
  /\ IsFiniteSet(files)
  /\ files \subseteq [name : (DocNames \cup CueNames) \X Nat, by : Requests \cup {FrameWriter},
                      doc : Nat, size : Nat, whole : BOOLEAN]
  /\ \A f, g \in files : f.name = g.name => f = g
  /\ DOMAIN attempt = Clients /\ \A c \in Clients : attempt[c] \in 1..Retries[c]
  /\ client \in [Clients -> {"staged", "sending", "moved", "kept"}]
  /\ DOMAIN request = Requests
  /\ \A r \in Requests :
       /\ DOMAIN request[r] = DOMAIN Unsent
       /\ request[r].pc \in {"unsent", "between", "inside", "stored", "refused",
                            "broken", "undescribed", "dropped", "dead"}
       /\ request[r].doc \in Nat \ {0} /\ request[r].sent \in Nat
       /\ request[r].pc = "unsent" => request[r] = Unsent
       /\ request[r].pc = "inside" => request[r].doc <= Len(Docs[r[1]])

DeletedIsEmpty == ~there => files = {} /\ ~folder

\* A file is a frame, or of a request that has not taken back what it wrote; an
\* open one knows it by name.
FilesHaveAnOwner ==
  \A f \in files : f.by # FrameWriter =>
    /\ request[f.by].pc \notin {"unsent", "refused", "broken", "dropped"}
    /\ Open(f.by) => f.name \in request[f.by].written

\* The names an open request would take back are its own files, those aside that
\* the worker may have replaced: so it takes nobody else's.
WrittenIsOwn ==
  there => \A r \in Requests : Open(r) =>
    \A n \in request[r].written :
      n[1] \in CueNames \/ \E f \in files : f.name = n /\ f.by = r

PartsAreThere ==
  there => \A r \in Requests : \A i \in DOMAIN Docs[r[1]] : Docs[r[1]][i].name \notin CueNames =>
    /\ request[r].pc = "stored" \/ (Open(r) /\ i < request[r].doc) =>
         \E f \in files : /\ f.by = r /\ f.doc = i /\ f.whole
                          /\ f.size = Docs[r[1]][i].size /\ f.name[1] = Docs[r[1]][i].name
    /\ request[r].pc = "inside" /\ i = request[r].doc =>
         \E f \in files : /\ f.by = r /\ f.doc = i
                          /\ f.size = request[r].sent /\ f.name[1] = Docs[r[1]][i].name

MovedIsStored ==
  \A c \in Clients : client[c] = "moved" => \E k \in 1..Retries[c] : request[<<c, k>>].pc = "stored"

AttachInvariant ==
  /\ AttachTypeOK /\ DeletedIsEmpty /\ FilesHaveAnOwner
  /\ WrittenIsOwn /\ PartsAreThere /\ MovedIsStored
=============================================================================
