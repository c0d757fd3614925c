------------------------------- MODULE ShimLock -------------------------------
(***************************************************************************)
(* The per-session lock of server/meet_runner.py and the HOME shim it      *)
(* guards, for one session.  Locks live in a registry (_SHIM_LOCKS): a     *)
(* thread FETCHES the session's lock, then ACQUIRES it, and whoever cleans *)
(* the shim up PRUNES the entry; these are three steps, and another thread *)
(* may fetch a different lock in between.                                  *)
(*                                                                         *)
(* The worker's follow-ups and the label requests hold the lock around     *)
(* millet; a move tries it; worker.process_one runs millet without it, and *)
(* queue.delete_session removes the HOME without it.                       *)
(***************************************************************************)
EXTENDS FiniteSets

CONSTANTS
  Labelers,  \* threads serving POST /api/label/{id}
  Movers,    \* threads serving POST /api/sessions/{id}/move
  Worker,    \* the worker thread
  Locks,     \* lock objects; one nobody refers to is garbage and may be new
  Nobody, NoLock

Threads == Labelers \cup Movers \cup {Worker}

ASSUME ThreadsAssumption ==
  /\ Worker \notin Labelers \cup Movers
  /\ Labelers \cap Movers = {}
  /\ Nobody \notin Threads
ASSUME LocksAssumption == NoLock \notin Locks

VARIABLES
  registry,  \* _SHIM_LOCKS[session]
  held,      \* the lock objects that are locked
  ref,       \* the lock object each thread has fetched
  pc,
  settled,   \* the published status admits label requests and moves
  home,      \* whose shim is under jobs/<session>/HOME
  session    \* "there"; "going": the row is deleted; "gone": the HOME is, too

vars == <<registry, held, ref, pc, settled, home, session>>

Init ==
  /\ registry = NoLock
  /\ held = {}
  /\ ref = [t \in Threads |-> NoLock]
  /\ pc = [t \in Threads |-> "idle"]
  /\ settled \in BOOLEAN  \* FALSE: the session has yet to go through process_one
  /\ home = Nobody
  /\ session = "there"

Step(t, from, to) == pc[t] = from /\ pc' = [pc EXCEPT ![t] = to]

-----------------------------------------------------------------------------
(* The registry.                                                           *)

\* session_shim_lock, atomic under _SHIM_LOCKS_GUARD.
FetchLock(t) ==
  /\ Step(t, "fetch", "acquire")
  /\ \/ /\ registry # NoLock
        /\ ref' = [ref EXCEPT ![t] = registry]
        /\ UNCHANGED registry
     \/ /\ registry = NoLock
        /\ \E l \in Locks \ {ref[u] : u \in Threads} :
             registry' = l /\ ref' = [ref EXCEPT ![t] = l]
  /\ UNCHANGED <<held, settled, home, session>>

Acquire(t) ==
  /\ t \notin Movers
  /\ Step(t, "acquire", "build")
  /\ ref[t] \notin held
  /\ held' = held \cup {ref[t]}
  /\ UNCHANGED <<registry, ref, settled, home, session>>

Release(t) ==
  /\ Step(t, "release", "idle")
  /\ held' = held \ {ref[t]}
  /\ ref' = [ref EXCEPT ![t] = NoLock]
  /\ UNCHANGED <<registry, settled, home, session>>

\* _prune_shim_lock: drop the entry unless it is locked.
Prune(next) ==
  /\ Step(Worker, "prune", next)
  /\ registry' = IF registry \in held THEN registry ELSE NoLock
  /\ UNCHANGED <<held, ref, settled, home, session>>

-----------------------------------------------------------------------------
(* Around millet.                                                          *)

\* run_meet: build_home_shim removes what is there and builds its own.
Build(t) ==
  /\ Step(t, "build", "running")
  /\ home' = t
  /\ UNCHANGED <<registry, held, ref, settled, session>>

\* millet exits: a label request leaves the shim behind, a follow-up goes on
\* to its finally.
Exit(t) ==
  /\ Step(t, "running", IF t = Worker THEN "cleanup" ELSE "release")
  /\ UNCHANGED <<registry, held, ref, settled, home, session>>

\* Nothing to run: no row, no transcript, no folder.
Skip(t) ==
  /\ Step(t, "build", IF t = Worker THEN "cleanup" ELSE "release")
  /\ UNCHANGED <<registry, held, ref, settled, home, session>>

\* cleanup_home_shim.
Cleanup ==
  /\ Step(Worker, "cleanup", "prune")
  /\ home' = Nobody
  /\ UNCHANGED <<registry, held, ref, settled, session>>

StartTaskUnlocked ==
  /\ settled
  /\ Step(Worker, "idle", "build")
  /\ UNCHANGED <<registry, held, ref, settled, home, session>>

\* _run_task: a follow-up of some request.
StartTask ==
  /\ settled
  /\ Step(Worker, "idle", "fetch")
  /\ UNCHANGED <<registry, held, ref, settled, home, session>>

\* process_one takes no lock: the status keeps the label requests out ...
StartJob ==
  /\ ~settled /\ session = "there"
  /\ Step(Worker, "idle", "job")
  /\ home' = Worker
  /\ UNCHANGED <<registry, held, ref, settled, session>>

\* Each of its steps builds the shim anew.
NextStep ==
  /\ pc[Worker] = "job"
  /\ home' = Worker
  /\ UNCHANGED <<registry, held, ref, pc, settled, session>>

\* ... until it publishes the final one, before its finally.
PublishStatus ==
  /\ Step(Worker, "job", "cleanup")
  /\ settled' = TRUE
  /\ UNCHANGED <<registry, held, ref, home, session>>

-----------------------------------------------------------------------------
(* Requests.                                                               *)

LabelRequestAnytime(t) ==
  /\ t \in Labelers
  /\ session = "there"
  /\ Step(t, "idle", "fetch")
  /\ UNCHANGED <<registry, held, ref, settled, home, session>>

LabelRequest(t) ==
  /\ t \in Labelers
  /\ settled /\ session = "there"
  /\ Step(t, "idle", "fetch")
  /\ UNCHANGED <<registry, held, ref, settled, home, session>>

\* A move does not ask for the status before it has the lock.
MoveRequest(t) ==
  /\ t \in Movers
  /\ session = "there"
  /\ Step(t, "idle", "fetch")
  /\ UNCHANGED <<registry, held, ref, settled, home, session>>

\* acquire(blocking=False) around the move's UPDATE, or 409.
TryLock(t) ==
  /\ t \in Movers
  /\ IF ref[t] \in held
     THEN /\ Step(t, "acquire", "idle")
          /\ ref' = [ref EXCEPT ![t] = NoLock]
          /\ UNCHANGED held
     ELSE /\ Step(t, "acquire", "release")
          /\ held' = held \cup {ref[t]}
          /\ UNCHANGED ref
  /\ UNCHANGED <<registry, settled, home, session>>

\* delete_session, at any time and without the lock: the rows first,
DeleteRow ==
  /\ session = "there" /\ session' = "going"
  /\ UNCHANGED <<registry, held, ref, pc, settled, home>>

\* then, last of the folders, jobs/<session>.
DeleteHome ==
  /\ session = "going" /\ session' = "gone"
  /\ home' = Nobody
  /\ UNCHANGED <<registry, held, ref, pc, settled>>

Next ==
  \/ \E t \in Threads :
       \/ FetchLock(t)
       \/ Acquire(t)
       \/ Release(t)
       \/ Build(t)
       \/ Exit(t)
       \/ Skip(t)
       \/ LabelRequest(t)
       \/ MoveRequest(t)
       \/ TryLock(t)
  \/ Prune(IF ref[Worker] = NoLock THEN "idle" ELSE "release")
  \/ Cleanup
  \/ StartTask
  \/ StartJob
  \/ NextStep
  \/ PublishStatus
  \/ DeleteRow
  \/ DeleteHome

Spec == Init /\ [][Next]_vars

-----------------------------------------------------------------------------
(* Properties.                                                             *)

\* The program points at which a thread is inside "with session_shim_lock".
Inside == {"build", "running", "release"}
Holds(t) ==
  \/ pc[t] \in Inside
  \/ pc[t] \in {"cleanup", "prune"} /\ ref[t] # NoLock

TypeOK ==
  /\ registry \in Locks \cup {NoLock}
  /\ held \in SUBSET Locks
  /\ ref \in [Threads -> Locks \cup {NoLock}]
  /\ pc \in [Threads -> Inside \cup {"idle", "fetch", "acquire", "cleanup", "prune", "job"}]
  /\ settled \in BOOLEAN
  /\ home \in Threads \cup {Nobody}
  /\ session \in {"there", "going", "gone"}

\* No two threads are inside, although locks come and go in the registry.
OneHolder ==
  \A t, u \in Threads : Holds(t) /\ Holds(u) => t = u

\* "... so a concurrent operation on the same session cannot rmtree the shim":
\* while a thread's millet runs, its HOME is the one the thread built, unless
\* the session is deleted: that removes a HOME in use.
ShimIsMine ==
  session # "gone" => \A t \in Threads : pc[t] = "running" => home = t

\* "This lock serializes all shim-scoped millet invocations per session":
\* it does so for a session whose pipeline was over from the start.
ProcessedIsExclusive == settled => []OneHolder

\* There, no operation but the deletion of the session removes the HOME
\* another one's millet runs in.
ProcessedKeepsItsShim == settled => []ShimIsMine

\* process_one holds no lock, and yet nobody but a deletion of the session
\* touches the shim it runs millet in until it has published the final status.
PipelineKeepsItsShim ==
  session # "gone" /\ pc[Worker] = "job" => home = Worker

-----------------------------------------------------------------------------
(* Why these hold.                                                         *)

\* The statuses before the final one keep the label requests out, and a move
\* never builds a shim.
StatusInvariant ==
  /\ \A t \in Movers : pc[t] \notin {"build", "running"}
  /\ ~settled => \A t \in Labelers : pc[t] = "idle"
  /\ ~settled => pc[Worker] \in {"idle", "job"}
  /\ pc[Worker] = "job" => ~settled
  /\ PipelineKeepsItsShim

HasLock ==
  \A t \in Threads : pc[t] \in {"acquire"} \cup Inside => ref[t] # NoLock

\* Once process_one is over, everyone on the way in has fetched the lock that
\* is still registered.
LockInvariant ==
  /\ settled /\ pc[Worker] # "job"
  /\ \A t \in Threads :
       /\ pc[t] \in {"acquire", "cleanup", "prune"} \cup Inside
            => registry # NoLock /\ ref[t] = registry
       /\ Holds(t) => registry \in held
  /\ OneHolder
  /\ ShimIsMine

=============================================================================
