---------------------------- MODULE PipelineProofs ----------------------------
(***************************************************************************)
(* The safety properties of JobPipeline, for every set of sessions, teams, *)
(* request threads and label maps: types; one writer, current teams and no *)
(* stuck session, from an inductive invariant; the abstract life cycle;    *)
(* what is pushed, and the keys of the follow-up tasks.                    *)
(***************************************************************************)
EXTENDS PipelineProperties, FiniteSetTheorems, TLAPS

-----------------------------------------------------------------------------
(* Shape: every variable has its type, the worker has a session whenever   *)
(* its program counter says so, and a request in flight names a session.   *)

ShapeInv == TypeOK /\ WorkerShape /\ RequestShape

LEMMA InitShape == Init => ShapeInv
<1> SUFFICES ASSUME Init PROVE ShapeInv
  OBVIOUS
<1>1. w \in WorkerStates /\ WorkerShape
  BY DEF Init, WorkerStates, WorkerPcs, IdleAt, WorkerShape
<1>2. req \in [Handlers -> RequestStates] /\ RequestShape
  BY DEF Init, NoRequest, RequestStates, RequestShape
<1>3. LocksTypeOK
  BY DEF Init, LocksTypeOK
<1>4. tasks \in Seq(Task)
  BY DEF Init
<1>5. team \in [Sessions -> Teams]
  BY TeamsAssumption DEF Init
<1>6. QED
  BY <1>1, <1>2, <1>3, <1>4, <1>5 DEF Init, ShapeInv, TypeOK, Statuses

\* What the building blocks of the actions do to the shape.

LEMMA StatusIsSet ==
  ASSUME TypeOK, NEW s, NEW st \in Statuses
  PROVE  SetStatus(s, st) \in [Sessions -> Statuses]
BY DEF TypeOK, SetStatus

LEMMA TaskIsQueued ==
  ASSUME TypeOK, NEW k \in Kinds, NEW s \in Sessions,
         NEW m \in LabelMaps \cup {NoMap}, NEW p \in BOOLEAN, Enqueue(k, s, m, p)
  PROVE  tasks' \in Seq(Task) /\ active' \in SUBSET (Kinds \X Sessions)
<1>1. [kind |-> k, sid |-> s, map |-> m, publish |-> p] \in Task
  BY DEF Task
<1>2. Append(tasks, [kind |-> k, sid |-> s, map |-> m, publish |-> p]) \in Seq(Task)
  BY <1>1 DEF TypeOK
<1>3. CASE <<k, s>> \in active
  BY <1>3 DEF TypeOK, Enqueue, taskVars
<1>4. CASE <<k, s>> \notin active
  <2>1. <<k, s>> \in Kinds \X Sessions
    OBVIOUS
  <2>2. tasks' \in Seq(Task)
    BY <1>2, <1>4 DEF Enqueue
  <2>3. active' = active \cup {<<k, s>>}
    BY <1>4 DEF Enqueue
  <2>4. QED
    BY <2>1, <2>2, <2>3 DEF TypeOK
<1>5. QED
  BY <1>3, <1>4

\* What the lock operations do to the types.
LEMMA LocksAreTyped ==
  ASSUME TypeOK, NEW th \in Threads, NEW s \in Sessions,
         \/ Fetch(th, s) \/ Acquire(th) \/ Release(th) \/ (LetGo(th) /\ UNCHANGED lock)
         \/ Prune(s) /\ UNCHANGED <<lock, mine>>
         \/ /\ Prune(s)
            /\ lock' = [lock EXCEPT ![mine[th]] = "free"]
            /\ mine' = [mine EXCEPT ![th] = NoLock]
  PROVE  LocksTypeOK'
<1> USE DEF TypeOK, LocksTypeOK
<1>1. CASE Fetch(th, s)
  <2>1. PICK l \in Locks : /\ registry' = [registry EXCEPT ![s] = l]
                           /\ mine' = [mine EXCEPT ![th] = l]
    <3>1. CASE registry[s] # NoLock
      BY <1>1, <3>1 DEF Fetch
    <3>2. CASE registry[s] = NoLock
      <4>1. (CHOOSE u \in Unused : TRUE) \in Unused
        BY <1>1, <3>2 DEF Fetch
      <4>2. (CHOOSE u \in Unused : TRUE) \in Locks
        BY <4>1 DEF Unused
      <4>3. QED
        BY <1>1, <3>2, <4>2 DEF Fetch
    <3>3. QED
      BY <3>1, <3>2
  <2>2. UNCHANGED <<lock, late>>
    BY <1>1 DEF Fetch
  <2>3. QED
    BY <2>1, <2>2
<1>2. CASE Acquire(th)
  BY <1>2 DEF Acquire
<1>3. CASE Release(th)
  BY <1>3 DEF Release, LetGo
<1>4. CASE LetGo(th) /\ UNCHANGED lock
  BY <1>4 DEF LetGo
<1>5. CASE Prune(s) /\ UNCHANGED <<lock, mine>>
  BY <1>5 DEF Prune
<1>6. CASE /\ Prune(s)
           /\ lock' = [lock EXCEPT ![mine[th]] = "free"]
           /\ mine' = [mine EXCEPT ![th] = NoLock]
  BY <1>6 DEF Prune
<1>7. QED
  BY <1>1, <1>2, <1>3, <1>4, <1>5, <1>6

LEMMA WorkerIdles ==
  ASSUME NEW pc \in {"down", "boot", "drain", "claim"}, w' = IdleAt(pc)
  PROVE  w' \in WorkerStates /\ WorkerShape'
BY DEF IdleAt, WorkerStates, WorkerPcs, WorkerShape

LEMMA WorkerGoes ==
  ASSUME ShapeInv, w.pc \notin {"down", "boot", "drain", "claim"},
         NEW pc \in WorkerPcs \ {"down", "boot", "drain", "claim"}, Goto(pc),
         pc \in {"transcribe", "label"} => w.kind = "process",
         pc \in {"lock", "apply", "summarize", "autolabel", "untrack"} => w.kind \in Kinds
  PROVE  w' \in WorkerStates /\ WorkerShape'
BY DEF Goto, WorkerStates, WorkerPcs, WorkerShape, ShapeInv, TypeOK

LEMMA RequestEnds ==
  ASSUME ShapeInv, NEW h \in Handlers, Respond(h)
  PROVE  req' \in [Handlers -> RequestStates] /\ RequestShape'
<1>1. NoRequest \in RequestStates
  BY DEF NoRequest, RequestStates
<1>2. req' \in [Handlers -> RequestStates]
  BY <1>1 DEF Respond, ShapeInv, TypeOK
<1>3. \A g \in Handlers : req'[g] = IF g = h THEN NoRequest ELSE req[g]
  BY DEF Respond, ShapeInv, TypeOK
<1>4. NoRequest.at = "idle"
  BY DEF NoRequest
<1>5. QED
  BY <1>2, <1>3, <1>4 DEF ShapeInv, RequestShape

LEMMA RequestProceeds ==
  ASSUME ShapeInv, NEW h \in Handlers, req[h].at # "idle",
         NEW at \in {"wait", "apply", "update", "publish", "enqueue", "purge"}, req' = [req EXCEPT ![h].at = at]
  PROVE  req' \in [Handlers -> RequestStates] /\ RequestShape'
<1>1. req[h] \in RequestStates
  BY DEF ShapeInv, TypeOK
<1>2. [req[h] EXCEPT !.at = at] \in RequestStates
  BY <1>1 DEF RequestStates
<1>3. req' \in [Handlers -> RequestStates]
  BY <1>2 DEF ShapeInv, TypeOK
<1>4. \A g \in Handlers : req'[g] = IF g = h THEN [req[g] EXCEPT !.at = at] ELSE req[g]
  BY DEF ShapeInv, TypeOK
<1>5. \A g \in Handlers : /\ req'[g].sid = req[g].sid
                          /\ req'[g].op = req[g].op
                          /\ req'[g].src = req[g].src
                          /\ req'[g].dest = req[g].dest
                          /\ g # h => req'[g].at = req[g].at
  BY <1>1, <1>4 DEF RequestStates, ShapeInv, TypeOK
<1>6. QED
  BY <1>3, <1>5 DEF ShapeInv, RequestShape

LEMMA RequestArrives ==
  ASSUME ShapeInv, NEW h \in Handlers, NEW r, Accept(h, r),
         r \in [op: Ops, at: {"act"}, sid: Sessions, src: Teams \cup {NoTeam},
                dest: Teams \cup {NoTeam}, map: LabelMaps \cup {NoMap},
                publish: BOOLEAN],
         r.op = "move" => r.src \in Teams /\ r.dest \in Teams
  PROVE  ShapeInv'
<1>1. r \in RequestStates
  BY DEF RequestStates
<1>2. req' \in [Handlers -> RequestStates]
  BY <1>1 DEF Accept, ShapeInv, TypeOK
<1>3. \A g \in Handlers : req'[g] = IF g = h THEN r ELSE req[g]
  BY DEF Accept, ShapeInv, TypeOK
<1>4. RequestShape'
  BY <1>3 DEF ShapeInv, RequestShape
<1>5. TypeOK' /\ WorkerShape'
  BY <1>2 DEF Accept, ShapeInv, TypeOK, WorkerShape, rowVars, diskVars, taskVars, teamVars,
     lockVars, LocksTypeOK, histVars
<1>6. QED
  BY <1>4, <1>5 DEF ShapeInv

LEMMA WorkerReads ==
  ASSUME ShapeInv, w.sid \in Sessions, w.kind \in Kinds,
         NEW pc \in {"push", "audio", "cleanup", "apply", "summarize", "autolabel"},
         w' = [Reading(w.sid) EXCEPT !.pc = pc]
  PROVE  w' \in WorkerStates /\ WorkerShape'
BY DEF Reading, WorkerStates, WorkerPcs, WorkerShape, ShapeInv, TypeOK

LEMMA ReadingIsTyped ==
  ASSUME ShapeInv, w.sid \in Sessions
  PROVE  Reading(w.sid) \in WorkerStates /\ Reading(w.sid).sid = w.sid
         /\ Reading(w.sid).kind = w.kind
BY DEF Reading, WorkerStates, ShapeInv, TypeOK

LEMMA SyncOrSkipShape ==
  ASSUME ShapeInv, NEW gate, NEW job \in WorkerStates, job.sid \in Sessions,
         job.kind \in Kinds \cup {"process"}, NEW skipTo \in {"audio", "finish"},
         SyncOrSkip(gate, job, skipTo)
  PROVE  /\ w' \in WorkerStates /\ WorkerShape'
         /\ status' \in [Sessions -> Statuses]
<1>1. CASE gate
  <2>1. status' \in [Sessions -> Statuses]
    BY <1>1, StatusIsSet DEF SyncOrSkip, ShapeInv, Statuses, ValidStatuses
  <2>2. w' \in WorkerStates /\ WorkerShape'
    BY <1>1 DEF SyncOrSkip, WorkerStates, WorkerPcs, WorkerShape
  <2>3. QED
    BY <2>1, <2>2
<1>2. CASE ~gate
  <2>1. status' \in [Sessions -> Statuses]
    BY <1>2 DEF SyncOrSkip, ShapeInv, TypeOK
  <2>2. w' = [job EXCEPT !.pc = skipTo]
    BY <1>2 DEF SyncOrSkip
  <2>3. w' \in WorkerStates /\ WorkerShape'
    BY <2>2 DEF WorkerStates, WorkerPcs, WorkerShape
  <2>4. QED
    BY <2>1, <2>3
<1>3. QED
  BY <1>1, <1>2

\* One step per operation.

LEMMA ArrivalsShape ==
  ASSUME ShapeInv, Arrivals PROVE ShapeInv'
<1>1. Cardinality(Born) \in Nat
  <2>1. Born \subseteq Sessions
    BY DEF Born
  <2>2. IsFiniteSet(Born)
    BY <2>1, SessionsAssumption, FS_Subset
  <2>3. QED
    BY <2>2, FS_CardinalityType
<1>2. ASSUME NEW s \in Sessions, NEW t \in Teams, NEW wanted \in BOOLEAN,
             NEW private \in BOOLEAN, NEW auto \in BOOLEAN,
             Upload(s, t, wanted, private, auto)
      PROVE  ShapeInv'
  BY <1>1, <1>2
     DEF Upload, SyncAtUpload, Statuses, ValidStatuses, ShapeInv, TypeOK, RequestShape, WorkerShape, rowVars, diskVars, taskVars, teamVars, lockVars, LocksTypeOK, histVars
<1>3. ASSUME NEW s \in Sessions, NEW t \in Teams, NEW withAudio \in BOOLEAN,
             NEW tr \in {"empty", "raw", "named"}, Import(s, t, withAudio, tr)
      PROVE  ShapeInv'
  BY <1>1, <1>3
     DEF Import, Statuses, ValidStatuses, ShapeInv, TypeOK, RequestShape, WorkerShape, rowVars, diskVars, taskVars, teamVars, lockVars, LocksTypeOK, histVars
<1>4. QED
  BY <1>2, <1>3 DEF Arrivals

LEMMA RequestsShape ==
  ASSUME ShapeInv, Requests PROVE ShapeInv'
<1> DEFINE Arriving ==
      [op: Ops, at: {"act"}, sid: Sessions, src: Teams \cup {NoTeam},
       dest: Teams \cup {NoTeam}, map: LabelMaps \cup {NoMap}, publish: BOOLEAN]
<1> SUFFICES ASSUME NEW h \in Handlers, NEW s \in Sessions,
                    \/ SyncNowCheck(h, s)
                    \/ RetryCheck(h, s)
                    \/ \E publish \in BOOLEAN : AutoLabelCheck(h, s, publish)
                    \/ \E m \in LabelMaps \cup {NoMap} : LabelCheck(h, s, m)
                    \/ \E dest \in Teams, wantSync \in BOOLEAN : MoveCheck(h, s, dest, wantSync)
                    \/ ShareCheck(h, s)
                    \/ DeleteCheck(h, s)
             PROVE  ShapeInv'
  BY DEF Requests
<1>1. ASSUME NEW op \in {"sync", "retry_summary", "share", "delete"},
             Accept(h, Request(op, s))
      PROVE  ShapeInv'
  <2>1. Request(op, s) \in Arriving
    BY <1>1 DEF Accept, Request, NoRequest
  <2>2. Request(op, s).op # "move"
    BY DEF Request, NoRequest
  <2>3. QED
    BY <1>1, <2>1, <2>2, RequestArrives
<1>2. ASSUME NEW publish \in BOOLEAN, AutoLabelCheck(h, s, publish)
      PROVE  ShapeInv'
  <2> DEFINE r == [Request("auto_label", s) EXCEPT !.publish = publish]
  <2>1. Accept(h, r)
    BY <1>2 DEF AutoLabelCheck
  <2>2. r \in Arriving /\ r.op # "move"
    BY <2>1 DEF Accept, Request, NoRequest
  <2> HIDE DEF r
  <2>3. QED
    BY <2>1, <2>2, RequestArrives
<1>3. ASSUME NEW m \in LabelMaps \cup {NoMap}, LabelCheck(h, s, m)
      PROVE  ShapeInv'
  <2> DEFINE r == [Request("label", s) EXCEPT !.src = team[s], !.map = m]
  <2>1. Accept(h, r)
    BY <1>3 DEF LabelCheck
  <2>2. r \in Arriving /\ r.op # "move"
    BY <2>1 DEF Accept, Request, NoRequest, ShapeInv, TypeOK
  <2> HIDE DEF r
  <2>3. QED
    BY <2>1, <2>2, RequestArrives
<1>4. ASSUME NEW dest \in Teams, NEW wantSync \in BOOLEAN, MoveCheck(h, s, dest, wantSync)
      PROVE  ShapeInv'
  <2> DEFINE p == /\ wantSync
                  /\ ~personal[s]
                  /\ status[s] \in PublishAfterMove
                  /\ dest \in SyncTeams
             r == [Request("move", s) EXCEPT !.src = team[s], !.dest = dest, !.publish = p]
  <2>1. Accept(h, r)
    BY <1>4 DEF MoveCheck
  <2>2. p \in BOOLEAN
    OBVIOUS
  <2> HIDE DEF p
  <2>3. r \in Arriving /\ r.src \in Teams /\ r.dest \in Teams
    BY <2>1, <2>2 DEF Accept, Request, NoRequest, ShapeInv, TypeOK
  <2> HIDE DEF r
  <2>4. QED
    BY <2>1, <2>3, RequestArrives
<1>5. QED
  BY <1>1, <1>2, <1>3, <1>4 DEF SyncNowCheck, RetryCheck, ShareCheck, DeleteCheck

LEMMA ActShape ==
  ASSUME ShapeInv, NEW h \in Handlers, Act(h) PROVE ShapeInv'
<1>1. CASE SyncNowAct(h)
  <2>1. req[h].sid \in Sessions
    BY <1>1 DEF SyncNowAct, Acting, ShapeInv, RequestShape
  <2>2. tasks' \in Seq(Task) /\ active' \in SUBSET (Kinds \X Sessions)
    BY <1>1, <2>1, TaskIsQueued DEF SyncNowAct, Kinds, ShapeInv
  <2>3. req' \in [Handlers -> RequestStates] /\ RequestShape'
    BY <1>1, RequestEnds DEF SyncNowAct
  <2>4. QED
    BY <1>1, <2>1, <2>2, <2>3 DEF SyncNowAct, ShapeInv, TypeOK, WorkerShape, rowVars,
       diskVars, taskVars, teamVars, lockVars, LocksTypeOK, histVars
<1>2. CASE TaskAct(h)
  <2>1. /\ req[h].sid \in Sessions
        /\ req[h].op \in Kinds
        /\ req[h].publish \in BOOLEAN
    BY <1>2 DEF TaskAct, Kinds, RequestStates, ShapeInv, TypeOK, RequestShape
  <2>2. tasks' \in Seq(Task) /\ active' \in SUBSET (Kinds \X Sessions)
    BY <1>2, <2>1, TaskIsQueued DEF TaskAct, ShapeInv
  <2>3. req' \in [Handlers -> RequestStates] /\ RequestShape'
    BY <1>2, RequestEnds DEF TaskAct
  <2>4. QED
    BY <1>2, <2>2, <2>3 DEF TaskAct, ShapeInv, TypeOK, WorkerShape, rowVars,
       diskVars, taskVars, teamVars, lockVars, LocksTypeOK, histVars
<1>3. CASE LabelFetch(h) \/ LabelLock(h) \/ MoveFetch(h)
  <2>1. req[h].at # "idle" /\ req[h].sid \in Sessions
    BY <1>3 DEF LabelFetch, LabelLock, MoveFetch, Acting, ShapeInv, RequestShape
  <2>2. req' \in [Handlers -> RequestStates] /\ RequestShape'
    BY <1>3, <2>1, RequestProceeds DEF LabelFetch, LabelLock, MoveFetch
  <2>3. LocksTypeOK'
    BY <1>3, <2>1, LocksAreTyped DEF LabelFetch, LabelLock, MoveFetch, Threads, ShapeInv
  <2>4. QED
    BY <1>3, <2>2, <2>3 DEF LabelFetch, LabelLock, MoveFetch, ShapeInv, TypeOK, WorkerShape,
       rowVars, diskVars, teamVars, taskVars, histVars
<1>4. ASSUME NEW tr \in {"empty", "raw", "named"}, LabelApply(h, tr)
      PROVE  ShapeInv'
  <2>1. req[h].at # "idle" /\ req[h].sid \in Sessions
    BY <1>4 DEF LabelApply, Acting, ShapeInv, RequestShape
  <2>2. req' \in [Handlers -> RequestStates] /\ RequestShape'
    BY <1>4, <2>1, RequestProceeds DEF LabelApply
  <2>3. LocksTypeOK'
    BY <1>4, <2>1, LocksAreTyped DEF LabelApply, Threads, ShapeInv
  <2>4. transcript' \in [Sessions -> {"none", "empty", "raw", "named"}] /\ misled' \in BOOLEAN
    BY <1>4 DEF LabelApply, ShapeInv, TypeOK
  <2>5. QED
    BY <1>4, <2>2, <2>3, <2>4 DEF LabelApply, ShapeInv, TypeOK, WorkerShape, rowVars,
       diskVars, teamVars, taskVars, histVars
<1>5. CASE LabelApplyFails(h)
  <2>1. req[h].sid \in Sessions
    BY <1>5 DEF LabelApplyFails, Acting, ShapeInv, RequestShape
  <2>2. req' \in [Handlers -> RequestStates] /\ RequestShape'
    BY <1>5, RequestEnds DEF LabelApplyFails
  <2>3. LocksTypeOK'
    BY <1>5, <2>1, LocksAreTyped DEF LabelApplyFails, Threads, ShapeInv
  <2>4. QED
    BY <1>5, <2>2, <2>3 DEF LabelApplyFails, ShapeInv, TypeOK, WorkerShape, rowVars,
       diskVars, teamVars, taskVars, histVars
<1>6. CASE LabelFinish(h)
  <2>1. req[h].sid \in Sessions /\ req[h].map \in LabelMaps \cup {NoMap}
    BY <1>6 DEF LabelFinish, Acting, RequestStates, ShapeInv, TypeOK, RequestShape
  <2>2. tasks' \in Seq(Task) /\ active' \in SUBSET (Kinds \X Sessions)
    BY <1>6, <2>1, TaskIsQueued DEF LabelFinish, Kinds, ShapeInv
  <2>3. req' \in [Handlers -> RequestStates] /\ RequestShape'
    BY <1>6, RequestEnds DEF LabelFinish
  <2>4. QED
    BY <1>6, <2>1, <2>2, <2>3 DEF LabelFinish, ShapeInv, TypeOK, WorkerShape, rowVars,
       diskVars, taskVars, teamVars, lockVars, LocksTypeOK, histVars
<1>7. CASE MoveLock(h)
  <2>1. req[h].at # "idle" /\ req[h].sid \in Sessions
    BY <1>7 DEF MoveLock, Acting, ShapeInv, RequestShape
  <2>2. req' \in [Handlers -> RequestStates] /\ RequestShape'
    BY <1>7, <2>1, RequestProceeds, RequestEnds DEF MoveLock
  <2>3. LocksTypeOK'
    BY <1>7, <2>1, LocksAreTyped DEF MoveLock, Threads, ShapeInv
  <2>4. QED
    BY <1>7, <2>2, <2>3 DEF MoveLock, ShapeInv, TypeOK, WorkerShape, rowVars,
       diskVars, teamVars, taskVars, histVars
<1>8. CASE MoveUpdate(h)
  <2>1. req[h].at # "idle" /\ req[h].sid \in Sessions /\ req[h].dest \in Teams
    BY <1>8 DEF MoveUpdate, Acting, ShapeInv, RequestShape
  <2>2. req' \in [Handlers -> RequestStates] /\ RequestShape'
    BY <1>8, <2>1, RequestProceeds, RequestEnds DEF MoveUpdate
  <2>3. LocksTypeOK'
    BY <1>8, <2>1, LocksAreTyped DEF MoveUpdate, Threads, ShapeInv
  <2>4. team' \in [Sessions -> Teams] /\ misled' \in BOOLEAN
    BY <1>8, <2>1 DEF MoveUpdate, ShapeInv, TypeOK
  <2>5. QED
    BY <1>8, <2>2, <2>3, <2>4 DEF MoveUpdate, ShapeInv, TypeOK, WorkerShape, rowVars,
       diskVars, teamVars, taskVars, histVars
<1>9. CASE MovePublish(h)
  <2>1. req[h].sid \in Sessions
    BY <1>9 DEF MovePublish, Acting, ShapeInv, RequestShape
  <2>2. tasks' \in Seq(Task) /\ active' \in SUBSET (Kinds \X Sessions)
    BY <1>9, <2>1, TaskIsQueued DEF MovePublish, Kinds, ShapeInv
  <2>3. req' \in [Handlers -> RequestStates] /\ RequestShape'
    BY <1>9, RequestEnds DEF MovePublish
  <2>4. QED
    BY <1>9, <2>1, <2>2, <2>3 DEF MovePublish, ShapeInv, TypeOK, WorkerShape, rowVars,
       diskVars, teamVars, lockVars, LocksTypeOK, taskVars, histVars
<1>10. CASE ShareAct(h)
  <2>1. req' \in [Handlers -> RequestStates] /\ RequestShape'
    BY <1>10, RequestEnds DEF ShareAct
  <2>2. QED
    BY <1>10, <2>1 DEF ShareAct, ShapeInv, TypeOK, WorkerShape, rowVars,
       diskVars, taskVars, teamVars, lockVars, LocksTypeOK, histVars
<1>11. CASE DeleteRow(h)
  <2>1. req' \in [Handlers -> RequestStates] /\ RequestShape'
    BY <1>11, RequestEnds, RequestProceeds DEF DeleteRow, Acting
  <2>2. QED
    BY <1>11, <2>1 DEF DeleteRow, Statuses, ShapeInv, TypeOK, WorkerShape, rowVars,
       diskVars, taskVars, teamVars, lockVars, LocksTypeOK, histVars
<1>12. CASE DeleteFiles(h)
  <2>1. req' \in [Handlers -> RequestStates] /\ RequestShape'
    BY <1>12, RequestEnds DEF DeleteFiles
  <2>2. QED
    BY <1>12, <2>1 DEF DeleteFiles, ShapeInv, TypeOK, WorkerShape, rowVars,
       diskVars, taskVars, teamVars, lockVars, LocksTypeOK, histVars
<1>13. QED
  BY <1>1, <1>2, <1>3, <1>4, <1>5, <1>6, <1>7, <1>8, <1>9, <1>10, <1>11, <1>12
  DEF Act

\* The worker's steps: w and the status first, then the frame.
LEMMA PollShape ==
  ASSUME ShapeInv,
         \/ Boot \/ RequeueOrphans \/ TasksDrained \/ NothingToClaim \/ Crash
         \/ TakeTask \/ (\E s \in Sessions : Claim(s))
  PROVE  ShapeInv'
<1>1. CASE Boot \/ TasksDrained \/ NothingToClaim
  <2>1. w' \in WorkerStates /\ WorkerShape'
    BY <1>1, WorkerIdles DEF Boot, TasksDrained, NothingToClaim
  <2>2. QED
    BY <1>1, <2>1 DEF Boot, TasksDrained, NothingToClaim, ShapeInv, TypeOK, RequestShape, rowVars,
         diskVars, taskVars, teamVars, lockVars, LocksTypeOK, histVars
<1>2. CASE RequeueOrphans
  <2>1. w' \in WorkerStates /\ WorkerShape'
    BY <1>2, WorkerIdles DEF RequeueOrphans
  <2>2. QED
    BY <1>2, <2>1 DEF RequeueOrphans, Statuses, ValidStatuses, ShapeInv, TypeOK, RequestShape,
       rowVars, diskVars, taskVars, teamVars, lockVars, LocksTypeOK, histVars
<1>3. CASE Crash
  <2>1. w' \in WorkerStates /\ WorkerShape'
    BY <1>3, WorkerIdles DEF Crash
  <2>2. NoRequest \in RequestStates /\ NoRequest.at = "idle"
    BY DEF NoRequest, RequestStates
  <2>3. req' \in [Handlers -> RequestStates] /\ RequestShape'
    BY <1>3, <2>2 DEF Crash, RequestShape
  <2>4. LocksTypeOK'
    BY <1>3 DEF Crash, LocksTypeOK
  <2>5. tasks' \in Seq(Task) /\ active' \in SUBSET (Kinds \X Sessions) /\ misled' \in BOOLEAN
    <3>1. tasks' = <<>> /\ active' = {} /\ misled' = FALSE
      BY <1>3 DEF Crash
    <3>2. tasks' \in Seq(Task)
      BY SMT, <3>1
    <3>3. misled' \in BOOLEAN
      BY Zenon, <3>1
    <3>4. active' \in SUBSET (Kinds \X Sessions)
      BY Zenon, <3>1
    <3>5. QED
      BY <3>2, <3>3, <3>4
  <2>6. UNCHANGED <<rowVars, diskVars, teamVars, asked, labelled, learned>>
    BY <1>3 DEF Crash
  <2>7. QED
    BY <2>1, <2>3, <2>4, <2>5, <2>6 DEF ShapeInv, TypeOK, rowVars, diskVars, teamVars
<1>4. CASE TakeTask
  <2>1. Head(tasks) \in Task /\ Tail(tasks) \in Seq(Task)
    BY <1>4 DEF TakeTask, ShapeInv, TypeOK
  <2>2. w' \in WorkerStates /\ WorkerShape'
    BY <1>4, <2>1 DEF TakeTask, IdleAt, Task, WorkerStates, WorkerPcs, WorkerShape
  <2>3. LocksTypeOK'
    BY <1>4, <2>1, LocksAreTyped DEF TakeTask, Threads, Task, ShapeInv
  <2>4. QED
    BY <1>4, <2>1, <2>2, <2>3 DEF TakeTask, ShapeInv, TypeOK, RequestShape, rowVars,
       diskVars, teamVars, histVars
<1>5. ASSUME NEW s \in Sessions, Claim(s) PROVE ShapeInv'
  <2>1. team[s] \in Teams /\ syncOn[s] \in BOOLEAN
    BY DEF ShapeInv, TypeOK
  <2>2. w' = [IdleAt("transcribe") EXCEPT !.kind = "process", !.sid = s,
                                          !.team = team[s], !.sync = syncOn[s]]
    BY <1>5 DEF Claim
  <2>3. w' \in WorkerStates /\ WorkerShape'
    BY <2>1, <2>2 DEF IdleAt, WorkerStates, WorkerPcs, WorkerShape
  <2>4. QED
    BY <1>5, <2>3 DEF Claim, Statuses, ValidStatuses, ShapeInv, TypeOK, RequestShape, rowVars,
         diskVars, taskVars, teamVars, lockVars, LocksTypeOK, histVars
<1>6. QED
  BY <1>1, <1>2, <1>3, <1>4, <1>5

LEMMA ProcessShape ==
  ASSUME ShapeInv,
         \/ TranscribeOk
         \/ \E tr \in {"none", "empty", "raw", "named"} :
              TranscribeSummaryFailed(tr) \/ TranscribeFailed(tr)
         \/ \E tr \in {"none", "empty", "raw", "named"} : LabelAndRoute(tr)
  PROVE  ShapeInv'
<1>1. w.pc \in {"transcribe", "label"} => w.kind = "process" /\ w.sid \in Sessions
  BY DEF ShapeInv, WorkerShape
<1>2. ASSUME NEW tr \in {"none", "empty", "raw", "named"}, TranscribeOk \/ TranscribeSummaryFailed(tr)
      PROVE  ShapeInv'
  <2>1. w' \in WorkerStates /\ WorkerShape'
    BY <1>1, <1>2, WorkerGoes
       DEF TranscribeOk, TranscribeSummaryFailed, AtPc, WorkerPcs
  <2>2. transcript' \in [Sessions -> {"none", "empty", "raw", "named"}]
    BY <1>2 DEF TranscribeOk, Heard, TranscribeSummaryFailed, ShapeInv, TypeOK
  <2>3. UNCHANGED <<rowVars, audio, teamVars, taskVars, lockVars, req, histVars>>
    BY <1>2 DEF TranscribeOk, TranscribeSummaryFailed
  <2>4. QED
    BY <2>1, <2>2, <2>3 DEF ShapeInv, TypeOK, RequestShape, rowVars, taskVars, teamVars,
       lockVars, LocksTypeOK, histVars
<1>3. ASSUME NEW tr \in {"none", "empty", "raw", "named"}, TranscribeFailed(tr) PROVE ShapeInv'
  <2>1. w' \in WorkerStates /\ WorkerShape'
    BY <1>3, WorkerGoes DEF TranscribeFailed, AtPc, WorkerPcs
  <2>2. status' \in [Sessions -> Statuses]
    BY <1>3, StatusIsSet DEF TranscribeFailed, ShapeInv, Statuses, ValidStatuses
  <2>3. transcript' \in [Sessions -> {"none", "empty", "raw", "named"}]
    BY <1>3 DEF TranscribeFailed, ShapeInv, TypeOK
  <2>4. QED
    BY <1>3, <2>1, <2>2, <2>3 DEF TranscribeFailed, ShapeInv, TypeOK, RequestShape, rowVars,
       diskVars, taskVars, teamVars, lockVars, LocksTypeOK, histVars
<1>4. ASSUME NEW tr \in {"none", "empty", "raw", "named"}, LabelAndRoute(tr)
      PROVE  ShapeInv'
  <2>1. /\ w' \in WorkerStates /\ WorkerShape'
        /\ status' \in [Sessions -> Statuses]
    <3>1. CASE SyncOrSkip(SyncGate(w.sync, w.team), w, "audio")
      BY <1>1, <1>4, <3>1, SyncOrSkipShape DEF LabelAndRoute, AtPc, ShapeInv, TypeOK
    <3>2. CASE Goto("cleanup") /\ \E st \in {"empty", "needs_labeling"} :
                                   status' = SetStatus(w.sid, st)
      BY <1>4, <3>2, WorkerGoes, StatusIsSet
         DEF LabelAndRoute, AtPc, WorkerPcs, ShapeInv, Statuses, ValidStatuses
    <3>3. QED
      BY <1>4, <3>1, <3>2 DEF LabelAndRoute
  <2>2. QED
    BY <1>4, <2>1 DEF LabelAndRoute, ShapeInv, TypeOK, RequestShape, rowVars,
         diskVars, taskVars, teamVars, lockVars, LocksTypeOK, histVars
<1>5. QED
  BY <1>2, <1>3, <1>4

LEMMA EndingShape ==
  ASSUME ShapeInv,
         \/ \E pushed, ok \in BOOLEAN : Push(pushed, ok)
         \/ DropAudio \/ Finish \/ Cleanup \/ Untrack
  PROVE  ShapeInv'
<1>1. ASSUME NEW pushed \in BOOLEAN, NEW ok \in BOOLEAN, Push(pushed, ok)
      PROVE  ShapeInv'
  <2>1. w' \in WorkerStates /\ WorkerShape'
    BY SMT, ZenonT(60), <1>1 DEF Push, AtPc, WorkerStates, WorkerPcs, WorkerShape, ShapeInv, TypeOK
  <2>2. w.sid \in Sessions
    BY <1>1 DEF Push, AtPc, ShapeInv, WorkerShape
  <2>3. repo' \in [Teams -> SUBSET Sessions]
    BY <1>1, <2>2 DEF Push, ShapeInv, TypeOK
  <2>4. QED
    BY <1>1, <2>1, <2>3 DEF Push, ShapeInv, TypeOK, RequestShape, rowVars,
         diskVars, taskVars, teamVars, lockVars, LocksTypeOK, histVars
<1>2. CASE DropAudio
  <2>1. w' \in WorkerStates /\ WorkerShape'
    BY <1>2, WorkerGoes DEF DropAudio, AtPc, WorkerPcs
  <2>2. QED
    BY <1>2, <2>1 DEF DropAudio, ShapeInv, TypeOK, RequestShape, rowVars,
         diskVars, taskVars, teamVars, lockVars, LocksTypeOK, histVars
<1>3. CASE Finish
  <2>1. w' \in WorkerStates /\ WorkerShape'
    BY <1>3, WorkerGoes DEF Finish, AtPc, WorkerPcs
  <2>2. status' \in [Sessions -> Statuses]
    BY <1>3, StatusIsSet DEF Finish, FinalStatus, ShapeInv, Statuses, ValidStatuses
  <2>3. syncErr' \in [Sessions -> BOOLEAN]
    BY <1>3 DEF Finish, ShapeInv, TypeOK, WorkerStates
  <2>4. QED
    BY <1>3, <2>1, <2>2, <2>3 DEF Finish, ShapeInv, TypeOK, RequestShape, rowVars,
         diskVars, taskVars, teamVars, lockVars, LocksTypeOK, histVars
<1>4. CASE Cleanup
  <2>1. w' \in WorkerStates /\ WorkerShape'
    <3>1. CASE w.kind = "process"
      BY <1>4, <3>1, WorkerIdles DEF Cleanup
    <3>2. CASE w.kind # "process"
      BY <1>4, <3>2, WorkerGoes DEF Cleanup, AtPc, WorkerPcs, ShapeInv, WorkerShape
    <3>3. QED
      BY <3>1, <3>2
  <2>2. LocksTypeOK'
    <3>1. w.sid \in Sessions
      BY <1>4 DEF Cleanup, AtPc, ShapeInv, WorkerShape
    <3>2. QED
      BY <1>4, <3>1, LocksAreTyped DEF Cleanup, Threads, ShapeInv
  <2>3. QED
    BY <1>4, <2>1, <2>2 DEF Cleanup, ShapeInv, TypeOK, RequestShape, rowVars,
       diskVars, teamVars, taskVars
<1>5. CASE Untrack
  <2>1. w' \in WorkerStates /\ WorkerShape'
    BY <1>5, WorkerIdles DEF Untrack
  <2>2. QED
    BY <1>5, <2>1 DEF Untrack, ShapeInv, TypeOK, RequestShape, rowVars,
         diskVars, taskVars, teamVars, lockVars, LocksTypeOK, histVars
<1>6. QED
  BY <1>1, <1>2, <1>3, <1>4, <1>5

LEMMA TaskShape ==
  ASSUME ShapeInv,
         \/ StartOnMissingRow \/ StartSync \/ StartFinalize \/ LearnAndFinalize
         \/ StartRetry \/ SummaryDone \/ SummaryFailed \/ StartAutoLabel
         \/ \E tr \in {"none", "empty", "raw", "named"} : AutoLabelAndRoute(tr)
  PROVE  ShapeInv'
<1>1. w.pc \in {"lock", "apply", "summarize", "autolabel"} =>
        w.kind \in Kinds /\ w.sid \in Sessions
  BY DEF ShapeInv, WorkerShape
<1> DEFINE Starts == StartOnMissingRow \/ StartSync \/ StartFinalize \/ StartRetry \/ StartAutoLabel
<1>0. Starts => LocksTypeOK'
  BY LocksAreTyped, <1>1
     DEF StartOnMissingRow, StartSync, StartFinalize, StartRetry, StartAutoLabel, StartTask, AtPc,
         Threads, ShapeInv
<1> HIDE DEF Starts
<1>2. CASE StartOnMissingRow
  <2>1. w' \in WorkerStates /\ WorkerShape'
    BY <1>1, <1>2, WorkerGoes DEF StartOnMissingRow, StartTask, AtPc, WorkerPcs
  <2>2. LocksTypeOK'
    BY <1>0, <1>2 DEF Starts
  <2>3. QED
    BY <1>2, <2>1, <2>2 DEF StartOnMissingRow, ShapeInv, TypeOK, RequestShape, rowVars,
       diskVars, teamVars, taskVars, histVars
<1>3. CASE StartSync
  <2>1. AtPc("lock") /\ SyncOrSkip(SyncGate(Reading(w.sid).sync, Reading(w.sid).team),
                                   Reading(w.sid), "audio")
    BY <1>3 DEF StartSync, StartTask
  <2>2. /\ w' \in WorkerStates /\ WorkerShape'
        /\ status' \in [Sessions -> Statuses]
    BY <1>1, <2>1, ReadingIsTyped, SyncOrSkipShape DEF AtPc
  <2>3. LocksTypeOK'
    BY <1>0, <1>3 DEF Starts
  <2>4. QED
    BY <1>3, <2>2, <2>3 DEF StartSync, ShapeInv, TypeOK, RequestShape, rowVars,
       diskVars, teamVars, taskVars, histVars
<1>4. CASE StartFinalize
  <2>1. w' \in WorkerStates /\ WorkerShape'
    BY <1>1, <1>4, WorkerReads DEF StartFinalize, StartTask, AtPc
  <2>2. LocksTypeOK'
    BY <1>0, <1>4 DEF Starts
  <2>3. QED
    BY <1>4, <2>1, <2>2 DEF StartFinalize, ShapeInv, TypeOK, RequestShape, rowVars,
       diskVars, teamVars, taskVars, histVars
<1>5. CASE LearnAndFinalize
  <2>1. /\ w' \in WorkerStates /\ WorkerShape'
        /\ status' \in [Sessions -> Statuses]
    <3>1. CASE SyncOrSkip(SyncGate(syncOn[w.sid], team[w.sid]), Reading(w.sid), "audio")
      BY <1>1, <1>5, <3>1, ReadingIsTyped, SyncOrSkipShape DEF LearnAndFinalize, AtPc
    <3>2. CASE Goto("cleanup") /\ UNCHANGED status
      BY <1>5, <3>2, WorkerGoes DEF LearnAndFinalize, AtPc, WorkerPcs, ShapeInv, TypeOK
    <3>3. QED
      BY <1>5, <3>1, <3>2 DEF LearnAndFinalize
  <2>2. learned' \in [Sessions -> SUBSET LabelMaps]
    BY <1>5 DEF LearnAndFinalize, ShapeInv, TypeOK, WorkerStates
  <2>3. QED
    BY <1>5, <2>1, <2>2 DEF LearnAndFinalize, ShapeInv, TypeOK, RequestShape, rowVars,
         diskVars, taskVars, teamVars, lockVars, LocksTypeOK, histVars
<1>6. CASE StartRetry
  <2>1. w' \in WorkerStates /\ WorkerShape'
    BY <1>1, <1>6, WorkerReads DEF StartRetry, StartTask, AtPc
  <2>2. status' \in [Sessions -> Statuses]
    BY <1>6, StatusIsSet DEF StartRetry, ShapeInv, Statuses, ValidStatuses
  <2>3. LocksTypeOK'
    BY <1>0, <1>6 DEF Starts
  <2>4. QED
    BY <1>6, <2>1, <2>2, <2>3 DEF StartRetry, ShapeInv, TypeOK, RequestShape, rowVars,
       diskVars, teamVars, taskVars, histVars
<1>7. CASE SummaryDone
  <2>1. /\ w' \in WorkerStates /\ WorkerShape'
        /\ status' \in [Sessions -> Statuses]
    BY <1>1, <1>7, SyncOrSkipShape DEF SummaryDone, AtPc, ShapeInv, TypeOK
  <2>2. QED
    BY <1>7, <2>1 DEF SummaryDone, ShapeInv, TypeOK, RequestShape, rowVars,
         diskVars, taskVars, teamVars, lockVars, LocksTypeOK, histVars
<1>8. CASE SummaryFailed
  <2>1. w' \in WorkerStates /\ WorkerShape'
    BY <1>8, WorkerGoes DEF SummaryFailed, AtPc, WorkerPcs
  <2>2. status' \in [Sessions -> Statuses]
    BY <1>8, StatusIsSet DEF SummaryFailed, ShapeInv, Statuses, ValidStatuses
  <2>3. QED
    BY <1>8, <2>1, <2>2 DEF SummaryFailed, ShapeInv, TypeOK, RequestShape, rowVars,
         diskVars, taskVars, teamVars, lockVars, LocksTypeOK, histVars
<1>9. CASE StartAutoLabel
  <2>1. PICK pc \in {"cleanup", "autolabel"} : w' = [Reading(w.sid) EXCEPT !.pc = pc]
    BY <1>9 DEF StartAutoLabel
  <2>2. w' \in WorkerStates /\ WorkerShape'
    BY <1>1, <1>9, <2>1, WorkerReads DEF StartAutoLabel, StartTask, AtPc
  <2>3. LocksTypeOK'
    BY <1>0, <1>9 DEF Starts
  <2>4. QED
    BY <1>9, <2>2, <2>3 DEF StartAutoLabel, ShapeInv, TypeOK, RequestShape, rowVars,
       diskVars, teamVars, taskVars, histVars
<1>10. ASSUME NEW tr \in {"none", "empty", "raw", "named"}, AutoLabelAndRoute(tr)
       PROVE  ShapeInv'
  <2>1. /\ w' \in WorkerStates /\ WorkerShape'
        /\ status' \in [Sessions -> Statuses]
    <3>1. CASE SyncOrSkip(AutoSyncGate(w.sync, w.team), w, "finish")
      BY <1>1, <1>10, <3>1, SyncOrSkipShape DEF AutoLabelAndRoute, AtPc, ShapeInv, TypeOK
    <3>2. CASE Goto("cleanup") /\ \E st \in {"needs_labeling", "done"} :
                                   status' = SetStatus(w.sid, st)
      BY <1>10, <3>2, WorkerGoes, StatusIsSet
         DEF AutoLabelAndRoute, AtPc, WorkerPcs, ShapeInv, Statuses, ValidStatuses
    <3>3. QED
      BY <1>10, <3>1, <3>2 DEF AutoLabelAndRoute
  <2>2. QED
    BY <1>10, <2>1 DEF AutoLabelAndRoute, ShapeInv, TypeOK, RequestShape, rowVars,
         diskVars, taskVars, teamVars, lockVars, LocksTypeOK, histVars
<1>11. QED
  BY <1>2, <1>3, <1>4, <1>5, <1>6, <1>7, <1>8, <1>9, <1>10

LEMMA FaultShape ==
  ASSUME ShapeInv, Raise \/ RaiseInAutoLabel PROVE ShapeInv'
<1>1. CASE Raise
  <2>1. w' \in WorkerStates /\ WorkerShape'
    BY <1>1, WorkerGoes DEF Raise, WorkerPcs
  <2>2. status' \in [Sessions -> Statuses]
    BY <1>1, StatusIsSet DEF Raise, ShapeInv, Statuses, ValidStatuses
  <2>3. QED
    BY <1>1, <2>1, <2>2 DEF Raise, ShapeInv, TypeOK, RequestShape, rowVars,
         diskVars, taskVars, teamVars, lockVars, LocksTypeOK, histVars
<1>2. CASE RaiseInAutoLabel
  <2>1. w' \in WorkerStates /\ WorkerShape'
    BY <1>2, WorkerGoes DEF RaiseInAutoLabel, AtPc, WorkerPcs
  <2>2. QED
    BY <1>2, <2>1 DEF RaiseInAutoLabel, ShapeInv, TypeOK, RequestShape, rowVars,
         diskVars, taskVars, teamVars, lockVars, LocksTypeOK, histVars
<1>3. QED
  BY <1>1, <1>2

LEMMA AdminMoveShape ==
  ASSUME ShapeInv, NEW s \in Sessions, NEW dest \in Teams, AdminMove(s, dest)
  PROVE  ShapeInv'
BY DEF AdminMove, ShapeInv, TypeOK, WorkerShape, RequestShape, diskVars, taskVars,
   teamVars, lockVars, LocksTypeOK

LEMMA DeleteTeamShape ==
  ASSUME ShapeInv, NEW t \in Teams, NEW dest \in Teams, DeleteTeam(t, dest)
  PROVE  ShapeInv'
BY DEF DeleteTeam, ShapeInv, TypeOK, WorkerShape, RequestShape, diskVars, taskVars,
   lockVars, LocksTypeOK

LEMMA ShapeStep == ShapeInv /\ [Next]_vars => ShapeInv'
<1> SUFFICES ASSUME ShapeInv, [Next]_vars PROVE ShapeInv'
  OBVIOUS
<1>1. CASE UNCHANGED vars
  BY <1>1 DEF vars, ShapeInv, TypeOK, WorkerShape, RequestShape, rowVars, diskVars,
     taskVars, teamVars, lockVars, LocksTypeOK, histVars
<1>2. CASE Next
  BY <1>2, ArrivalsShape, RequestsShape, ActShape, PollShape, ProcessShape,
     EndingShape, TaskShape, FaultShape, AdminMoveShape, DeleteTeamShape DEF Next, Worker
<1>3. QED
  BY <1>1, <1>2

\* Every variable keeps its type, for any number of sessions and threads.
THEOREM TypeCorrect == Spec => []TypeOK
<1>1. Init => ShapeInv
  BY InitShape
<1>2. ShapeInv /\ [Next]_vars => ShapeInv'
  BY ShapeStep
<1>3. ShapeInv => TypeOK
  BY DEF ShapeInv
<1>4. QED
  BY <1>1, <1>2, <1>3, PTL DEF Spec

-----------------------------------------------------------------------------
(* How the actions change a status.                                        *)

\* millet transcribe ends, well or not.
Transcribing ==
  \/ TranscribeOk
  \/ \E tr \in {"none", "empty", "raw", "named"} : TranscribeSummaryFailed(tr) \/ TranscribeFailed(tr)

\* A session is moved by somebody who asks for no lock.
Reassigning ==
  \/ \E s \in Sessions, dest \in Teams : AdminMove(s, dest)
  \/ \E t, dest \in Teams : DeleteTeam(t, dest)

\* The worker's own steps, once it has a session.
OnSession ==
  \/ Transcribing
  \/ \E tr \in {"none", "empty", "raw", "named"} : LabelAndRoute(tr)
  \/ \E pushed, ok \in BOOLEAN : Push(pushed, ok)
  \/ DropAudio
  \/ Finish
  \/ Cleanup
  \/ Untrack
  \/ StartOnMissingRow
  \/ StartSync
  \/ StartFinalize
  \/ LearnAndFinalize
  \/ StartRetry
  \/ SummaryDone
  \/ SummaryFailed
  \/ StartAutoLabel
  \/ \E tr \in {"none", "empty", "raw", "named"} : AutoLabelAndRoute(tr)
  \/ Raise
  \/ RaiseInAutoLabel

\* And the steps that look for one.
Polling ==
  \/ Boot
  \/ TasksDrained
  \/ NothingToClaim
  \/ TakeTask
  \/ Crash

\* What update_status is given after the claim.
Outcomes == {"summarizing", "syncing", "needs_labeling", "done", "sync_failed", "error", "empty"}
WritesStatus == \/ UNCHANGED status
                \/ \E st \in Outcomes : status' = SetStatus(w.sid, st)

LEMMA StatusAfter ==
  ASSUME TypeOK, NEW s, NEW st, status' = SetStatus(s, st)
  PROVE  \A r \in Sessions : \/ status'[r] = status[r]
                             \/ r = s /\ RowExists(r) /\ status'[r] = st
BY DEF SetStatus, TypeOK, RowExists

LEMMA SyncOrSkipWrites ==
  ASSUME NEW gate, NEW job, job.sid = w.sid, NEW skipTo, SyncOrSkip(gate, job, skipTo)
  PROVE  WritesStatus
BY DEF SyncOrSkip, WritesStatus, Outcomes

LEMMA WorkerWritesStatus ==
  ASSUME ShapeInv, OnSession PROVE WritesStatus
<1> USE DEF Outcomes
<1>1. CASE \/ Transcribing
           \/ DropAudio \/ Finish \/ Cleanup \/ Untrack \/ StartOnMissingRow
           \/ StartFinalize
           \/ StartRetry \/ SummaryFailed \/ StartAutoLabel \/ Raise \/ RaiseInAutoLabel
           \/ \E pushed, ok \in BOOLEAN : Push(pushed, ok)
  BY <1>1 DEF WritesStatus, Transcribing, TranscribeOk, TranscribeSummaryFailed,
     TranscribeFailed, Push, DropAudio, Finish, FinalStatus, Cleanup, Untrack,
     StartOnMissingRow, StartFinalize, StartRetry, SummaryFailed, StartAutoLabel, Raise,
     RaiseInAutoLabel, rowVars
<1>2. CASE \E tr \in {"none", "empty", "raw", "named"} : LabelAndRoute(tr)
  BY <1>2, SyncOrSkipWrites DEF LabelAndRoute, WritesStatus
<1>3. CASE StartSync
  BY <1>3, SyncOrSkipWrites, ReadingIsTyped
     DEF StartSync, StartTask, AtPc, ShapeInv, WorkerShape
<1>4. CASE LearnAndFinalize
  BY <1>4, SyncOrSkipWrites, ReadingIsTyped
     DEF LearnAndFinalize, WritesStatus, AtPc, ShapeInv, WorkerShape
<1>5. CASE SummaryDone
  BY <1>5, SyncOrSkipWrites DEF SummaryDone
<1>6. CASE \E tr \in {"none", "empty", "raw", "named"} : AutoLabelAndRoute(tr)
  BY <1>6, SyncOrSkipWrites DEF AutoLabelAndRoute, WritesStatus
<1>7. QED
  BY <1>1, <1>2, <1>3, <1>4, <1>5, <1>6 DEF OnSession

LEMMA NextIs ==
  Next => \/ Arrivals
          \/ Requests
          \/ \E h \in Handlers : Act(h)
          \/ Reassigning
          \/ Polling
          \/ RequeueOrphans
          \/ \E s \in Sessions : Claim(s)
          \/ OnSession
BY DEF Next, Worker, Polling, OnSession, Transcribing, Reassigning

LEMMA RequestsKeep ==
  ASSUME Requests
  PROVE  UNCHANGED <<rowVars, diskVars, teamVars, w, taskVars, lockVars, histVars>>
<1>1. PICK h, r : Accept(h, r)
  BY SMT, ZenonT(60) DEF Requests, SyncNowCheck, RetryCheck, AutoLabelCheck, LabelCheck, MoveCheck,
     ShareCheck, DeleteCheck
<1>2. QED
  BY <1>1 DEF Accept

LEMMA RequestsAccept ==
  ASSUME Requests
  PROVE  \E h, s, r : /\ h \in Handlers /\ s \in Sessions
                       /\ Accept(h, r) /\ r.sid = s /\ r.at = "act"
<1>1. PICK h \in Handlers, s \in Sessions :
        \/ \E op : Accept(h, Request(op, s))
        \/ \E publish : Accept(h, [Request("auto_label", s) EXCEPT !.publish = publish])
        \/ \E m : Accept(h, [Request("label", s) EXCEPT !.src = team[s], !.map = m])
        \/ \E dest, p : Accept(h, [Request("move", s) EXCEPT
                                     !.src = team[s], !.dest = dest, !.publish = p])
  BY SMT, ZenonT(60) DEF Requests, SyncNowCheck, RetryCheck, AutoLabelCheck, LabelCheck, MoveCheck,
     ShareCheck, DeleteCheck
<1>2. PICK r : /\ Accept(h, r)
               /\ \/ \E op : r = Request(op, s)
                  \/ \E publish : r = [Request("auto_label", s) EXCEPT !.publish = publish]
                  \/ \E m : r = [Request("label", s) EXCEPT !.src = team[s], !.map = m]
                  \/ \E dest, p : r = [Request("move", s) EXCEPT
                                         !.src = team[s], !.dest = dest, !.publish = p]
  <2>1. CASE \E op : Accept(h, Request(op, s))
    BY <2>1
  <2>2. CASE \E publish : Accept(h, [Request("auto_label", s) EXCEPT !.publish = publish])
    BY <2>2
  <2>3. CASE \E m : Accept(h, [Request("label", s) EXCEPT !.src = team[s], !.map = m])
    BY <2>3
  <2>4. CASE \E dest, p : Accept(h, [Request("move", s) EXCEPT
                                      !.src = team[s], !.dest = dest, !.publish = p])
    <3>1. PICK dest, p : Accept(h, [Request("move", s) EXCEPT
                                      !.src = team[s], !.dest = dest, !.publish = p])
      BY <2>4
    <3>2. DEFINE moved == [Request("move", s) EXCEPT
                             !.src = team[s], !.dest = dest, !.publish = p]
    <3>3. Accept(h, moved) /\ \E d, q : moved = [Request("move", s) EXCEPT
                                      !.src = team[s], !.dest = d, !.publish = q]
      BY <3>1
    <3>4. QED
      BY ONLY <3>3, Zenon
  <2>5. QED
    BY <1>1, <2>1, <2>2, <2>3, <2>4
<1>3. r.sid = s /\ r.at = "act"
  BY <1>2 DEF Request, NoRequest
<1>4. QED
  BY <1>2, <1>3

LEMMA ActsOnRequest ==
  ASSUME NEW h \in Handlers, Act(h)
  PROVE  /\ w' = w
         /\ req[h].at # "idle"
         /\ \/ Respond(h)
            \/ \E at : req' = [req EXCEPT ![h].at = at]
         /\ \/ UNCHANGED tasks
            \/ \E k, m, p : tasks' = Append(tasks,
                                [kind |-> k, sid |-> req[h].sid, map |-> m, publish |-> p])
<1>1. w' = w
  BY DEF Act, SyncNowAct, TaskAct, LabelFetch, LabelLock, LabelApply, LabelApplyFails,
     LabelFinish, MoveFetch, MoveLock, MoveUpdate, MovePublish, ShareAct, DeleteRow, DeleteFiles
<1>2. req[h].at # "idle"
  BY DEF Act, SyncNowAct, TaskAct, LabelFetch, LabelLock, LabelApply, LabelApplyFails,
     LabelFinish, MoveFetch, MoveLock, MoveUpdate, MovePublish, ShareAct, DeleteRow,
     DeleteFiles, Acting
<1>3. \/ Respond(h)
      \/ \E at : req' = [req EXCEPT ![h].at = at]
  BY DEF Act, SyncNowAct, TaskAct, LabelFetch, LabelLock, LabelApply, LabelApplyFails,
     LabelFinish, MoveFetch, MoveLock, MoveUpdate, MovePublish, ShareAct, DeleteRow, DeleteFiles
<1>4. \/ UNCHANGED tasks
      \/ \E k, m, p : Enqueue(k, req[h].sid, m, p)
  BY DEF Act, SyncNowAct, TaskAct, LabelFetch, LabelLock, LabelApply, LabelApplyFails,
     LabelFinish, MoveFetch, MoveLock, MoveUpdate, MovePublish, ShareAct, DeleteRow,
     DeleteFiles, taskVars
<1>5. \A k, m, p : Enqueue(k, req[h].sid, m, p) =>
        \/ UNCHANGED tasks
        \/ tasks' = Append(tasks,
                     [kind |-> k, sid |-> req[h].sid, map |-> m, publish |-> p])
  BY DEF Enqueue, taskVars
<1>6. QED
  BY <1>1, <1>2, <1>3, <1>4, <1>5

LEMMA ActsOnStatus ==
  ASSUME ShapeInv, NEW h \in Handlers, Act(h)
  PROVE  \A r \in Sessions : \/ status'[r] = status[r]
                             \/ RowExists(r) /\ status'[r] = "gone"
<1>1. CASE DeleteRow(h)
  BY <1>1 DEF DeleteRow, ShapeInv, TypeOK
<1>2. CASE ~DeleteRow(h)
  BY <1>2 DEF Act, SyncNowAct, TaskAct, LabelFetch, LabelLock, LabelApply, LabelApplyFails,
     LabelFinish, MoveFetch, MoveLock, MoveUpdate, MovePublish, ShareAct, DeleteFiles, rowVars
<1>3. QED
  BY <1>1, <1>2

LEMMA ArrivalsOnStatus ==
  ASSUME ShapeInv, Arrivals
  PROVE  \A r \in Sessions : \/ status'[r] = status[r]
                             \/ status[r] = "unborn" /\ status'[r] \in {"queued", "imported"}
BY DEF Arrivals, Upload, Import, ShapeInv, TypeOK

LEMMA ReassigningKeeps ==
  ASSUME Reassigning
  PROVE  UNCHANGED <<status, diskVars, repo, w, taskVars, lockVars, req>>
<1>1. ASSUME NEW s, NEW dest, AdminMove(s, dest)
      PROVE  UNCHANGED <<status, diskVars, repo, w, taskVars, lockVars, req>>
  BY <1>1 DEF AdminMove, teamVars
<1>2. ASSUME NEW t, NEW dest, DeleteTeam(t, dest)
      PROVE  UNCHANGED <<status, diskVars, repo, w, taskVars, lockVars, req>>
  BY <1>2 DEF DeleteTeam
<1>3. QED
  BY <1>1, <1>2 DEF Reassigning

LEMMA BornStaysBorn ==
  ASSUME ShapeInv, Next
  PROVE  \A r \in Sessions : status[r] # "unborn" => status'[r] # "unborn"
<1>0. CASE Reassigning
  BY <1>0, ReassigningKeeps
<1>1. CASE Arrivals
  BY <1>1, ArrivalsOnStatus
<1>2. CASE Requests
  BY <1>2, RequestsKeep DEF rowVars
<1>3. CASE \E h \in Handlers : Act(h)
  BY <1>3, ActsOnStatus
<1>4. CASE Polling
  BY <1>4 DEF Polling, Boot, TasksDrained, NothingToClaim, TakeTask, Crash, rowVars
<1>5. CASE RequeueOrphans \/ \E s \in Sessions : Claim(s)
  BY <1>5 DEF RequeueOrphans, Claim, ShapeInv, TypeOK
<1>6. CASE OnSession
  <2>1. WritesStatus
    BY <1>6, WorkerWritesStatus
  <2>2. QED
    BY <2>1, StatusAfter DEF WritesStatus, ShapeInv, Outcomes
<1>7. QED
  BY <1>0, <1>1, <1>2, <1>3, <1>4, <1>5, <1>6, NextIs

-----------------------------------------------------------------------------
(* Pending and running work is about sessions that have arrived.           *)

\* The worker keeps its session, or drops it.
LEMMA OnSessionKeeps ==
  ASSUME ShapeInv, OnSession
  PROVE  /\ w.pc \notin {"down", "boot", "drain", "claim"}
         /\ \/ w'.pc = "drain"
            \/ w'.sid = w.sid /\ w'.kind = w.kind
         /\ UNCHANGED <<team, tasks, req>>
<1> USE DEF ShapeInv, TypeOK, WorkerStates, AtPc, Goto, rowVars, diskVars, taskVars, teamVars, lockVars, histVars
<1>1. CASE \/ Transcribing
           \/ DropAudio \/ Finish \/ Cleanup \/ Untrack
           \/ SummaryFailed \/ Raise \/ RaiseInAutoLabel
  BY <1>1 DEF Transcribing, TranscribeOk, TranscribeSummaryFailed, TranscribeFailed,
     DropAudio, Finish, Cleanup, Untrack, SummaryFailed, Raise, RaiseInAutoLabel, IdleAt
<1>2. CASE \E pushed, ok \in BOOLEAN : Push(pushed, ok)
  BY <1>2 DEF Push
<1>3. CASE StartOnMissingRow \/ StartSync \/ StartFinalize \/ StartRetry \/ StartAutoLabel
  <2>1. w.pc = "lock" /\ UNCHANGED <<team, tasks, req>>
    BY <1>3 DEF StartOnMissingRow, StartSync, StartFinalize, StartRetry, StartAutoLabel,
       StartTask
  <2>2. \E pc : w' = [w EXCEPT !.pc = pc] \/ w' = [Reading(w.sid) EXCEPT !.pc = pc]
    BY <1>3 DEF StartOnMissingRow, StartSync, StartFinalize, StartRetry, StartAutoLabel,
       SyncOrSkip
  <2>3. QED
    BY <2>1, <2>2 DEF Reading
<1>4. CASE \/ \E tr \in {"none", "empty", "raw", "named"} : LabelAndRoute(tr)
           \/ \E tr \in {"none", "empty", "raw", "named"} : AutoLabelAndRoute(tr)
           \/ SummaryDone
  BY <1>4 DEF LabelAndRoute, AutoLabelAndRoute, SummaryDone, SyncOrSkip
<1>5. CASE LearnAndFinalize
  BY SMT, ZenonT(60), <1>5 DEF LearnAndFinalize, SyncOrSkip, Reading
<1>6. QED
  BY <1>1, <1>2, <1>3, <1>4, <1>5 DEF OnSession

\* A step on a session leads to another program point of that session, or to
\* the drain loop; the pipeline is entered by a claim only.
LEMMA OnSessionGoesOn ==
  ASSUME ShapeInv, OnSession
  PROVE  w'.pc \notin {"down", "boot", "claim", "lock", "transcribe"}
<1> USE DEF ShapeInv, TypeOK, WorkerStates, AtPc, Goto
<1>1. CASE \/ Transcribing
           \/ DropAudio \/ Finish \/ Cleanup \/ Untrack
           \/ SummaryFailed \/ Raise \/ RaiseInAutoLabel
  BY <1>1 DEF Transcribing, TranscribeOk, TranscribeSummaryFailed, TranscribeFailed,
     DropAudio, Finish, Cleanup, Untrack, SummaryFailed, Raise, RaiseInAutoLabel, IdleAt
<1>2. CASE \E pushed, ok \in BOOLEAN : Push(pushed, ok)
  BY <1>2 DEF Push
<1>3. CASE StartOnMissingRow \/ StartSync \/ StartFinalize \/ StartRetry \/ StartAutoLabel
  <2>1. \E pc \in {"cleanup", "push", "audio", "apply", "summarize", "autolabel"} :
           w' = [w EXCEPT !.pc = pc] \/ w' = [Reading(w.sid) EXCEPT !.pc = pc]
    BY <1>3 DEF StartOnMissingRow, StartSync, StartFinalize, StartRetry, StartAutoLabel,
       SyncOrSkip
  <2>2. QED
    BY <2>1 DEF Reading
<1>4. CASE \/ \E tr \in {"none", "empty", "raw", "named"} : LabelAndRoute(tr)
           \/ \E tr \in {"none", "empty", "raw", "named"} : AutoLabelAndRoute(tr)
           \/ SummaryDone
  BY <1>4 DEF LabelAndRoute, AutoLabelAndRoute, SummaryDone, SyncOrSkip
<1>5. CASE LearnAndFinalize
  BY <1>5 DEF LearnAndFinalize, SyncOrSkip, Reading
<1>6. QED
  BY <1>1, <1>2, <1>3, <1>4, <1>5 DEF OnSession

LEMMA NamesStep ==
  ASSUME ShapeInv, NamesAreBorn, [Next]_vars PROVE NamesAreBorn'
<1> USE DEF NamesAreBorn
<1>1. CASE UNCHANGED vars
  BY <1>1 DEF vars, rowVars, taskVars
<1>2. CASE Next
  <2>1. \A r \in Sessions : status[r] # "unborn" => status'[r] # "unborn"
    BY <1>2, BornStaysBorn
  <2>2. \A i \in 1..Len(tasks) : tasks[i] \in Task
    BY DEF ShapeInv, TypeOK
  <2>0. CASE Reassigning
    BY <2>0, ReassigningKeeps DEF taskVars
  <2>3. CASE Arrivals
    BY <2>1, <2>2, <2>3 DEF Arrivals, Upload, Import, taskVars, Task, ShapeInv, WorkerShape,
       RequestShape
  <2>4. CASE Requests
    <3>1. PICK h, s, r : h \in Handlers /\ s \in Sessions /\ Accept(h, r) /\ r.sid = s
      BY <2>4, RequestsAccept
    <3>2. status[s] # "unborn"
      BY <3>1 DEF Accept, RowExists, ValidStatuses
    <3>3. \A g \in Handlers : req'[g] = IF g = h THEN r ELSE req[g]
      BY <3>1 DEF Accept, ShapeInv, TypeOK
    <3>4. QED
      BY <3>1, <3>2, <3>3 DEF Accept, rowVars, taskVars
  <2>5. ASSUME NEW h \in Handlers, Act(h) PROVE NamesAreBorn'
    <3>1. \/ UNCHANGED tasks
          \/ \E k, m, p : tasks' = Append(tasks,
                              [kind |-> k, sid |-> req[h].sid, map |-> m, publish |-> p])
      BY <2>5, ActsOnRequest
    <3>2. req[h].at # "idle" /\ w' = w
      BY <2>5, ActsOnRequest
    <3>3. \A g \in Handlers : req'[g].at # "idle" => req[g].at # "idle" /\ req'[g].sid = req[g].sid
      <4>1. CASE Respond(h)
        BY <4>1 DEF Respond, NoRequest, ShapeInv, TypeOK
      <4>2. CASE \E at : req' = [req EXCEPT ![h].at = at]
        BY <3>2, <4>2 DEF ShapeInv, TypeOK, RequestStates
      <4>3. QED
        BY <2>5, <4>1, <4>2, ActsOnRequest
    <3>4. req[h].sid \in Sessions /\ status[req[h].sid] # "unborn"
      BY <3>2 DEF ShapeInv, RequestShape
    <3>5. \A i \in 1..Len(tasks') : status'[tasks'[i].sid] # "unborn"
      <4>1. CASE UNCHANGED tasks
        BY <2>1, <2>2, <4>1 DEF Task
      <4>2. ASSUME NEW k, NEW m, NEW p,
                   tasks' = Append(tasks, [kind |-> k, sid |-> req[h].sid,
                                           map |-> m, publish |-> p]),
                   NEW i \in 1..Len(tasks')
            PROVE  status'[tasks'[i].sid] # "unborn"
        <5>1. tasks \in Seq(Task) /\ Len(tasks) \in Nat
          BY DEF ShapeInv, TypeOK
        <5>2. \/ i \in 1..Len(tasks) /\ tasks'[i] = tasks[i]
              \/ tasks'[i].sid = req[h].sid
          BY <4>2, <5>1
        <5>3. QED
          BY <2>1, <2>2, <3>4, <5>2 DEF Task
      <4>3. QED
        BY <3>1, <4>1, <4>2
    <3>6. QED
      BY <2>1, <3>2, <3>3, <3>5 DEF ShapeInv, RequestShape, WorkerShape
  <2>6. CASE Polling
    <3>1. CASE Boot \/ TasksDrained \/ NothingToClaim
      BY <3>1 DEF Boot, TasksDrained, NothingToClaim, IdleAt, rowVars, taskVars
    <3>2. CASE Crash
      BY <3>2 DEF Crash, IdleAt, NoRequest, rowVars
    <3>3. CASE TakeTask
      <4>1. 1 \in 1..Len(tasks) /\ Head(tasks) = tasks[1]
        BY <3>3 DEF TakeTask, ShapeInv, TypeOK
      <4>2. w'.sid = Head(tasks).sid
        BY <3>3 DEF TakeTask, IdleAt
      <4>3. Len(tasks') = Len(tasks) - 1
            /\ \A i \in 1..Len(tasks') : tasks'[i] = tasks[i + 1]
        BY <3>3 DEF TakeTask, ShapeInv, TypeOK
      <4>4. \A i \in 1..Len(tasks') : status[tasks'[i].sid] # "unborn"
        <5>1. Len(tasks) \in Nat
          BY DEF ShapeInv, TypeOK
        <5>2. ASSUME NEW i \in 1..Len(tasks')
              PROVE  i + 1 \in 1..Len(tasks) /\ tasks'[i] = tasks[i + 1]
          BY <4>3, <5>1
        <5>3. QED
          BY <5>2
      <4>5. QED
        BY <3>3, <4>1, <4>2, <4>4 DEF TakeTask, rowVars
    <3>4. QED
      BY <2>6, <3>1, <3>2, <3>3 DEF Polling
  <2>7. CASE RequeueOrphans
    BY <2>1, <2>2, <2>7 DEF RequeueOrphans, IdleAt, taskVars, Task, ShapeInv, RequestShape
  <2>8. ASSUME NEW s \in Sessions, Claim(s) PROVE NamesAreBorn'
    <3>1. w'.sid = s /\ status[s] # "unborn"
      BY <2>8 DEF Claim, IdleAt, Queued
    <3>2. QED
      BY <2>1, <2>2, <2>8, <3>1 DEF Claim, taskVars, Task, ShapeInv, RequestShape
  <2>9. CASE OnSession
    <3>1. w'.pc = "drain" \/ w'.sid = w.sid
      BY <2>9, OnSessionKeeps
    <3>2. w.pc \notin {"down", "boot", "drain", "claim"} /\ UNCHANGED <<tasks, req>>
      BY <2>9, OnSessionKeeps
    <3>3. QED
      BY <2>1, <2>2, <3>1, <3>2 DEF Task, ShapeInv, RequestShape, WorkerShape
  <2>10. QED
    BY <1>2, <2>0, <2>3, <2>4, <2>5, <2>6, <2>7, <2>8, <2>9, NextIs
<1>3. QED
  BY <1>1, <1>2

-----------------------------------------------------------------------------
(* Locks.                                                                  *)

\* Nothing another thread waits for or has is disturbed.
OthersStay(th) ==
  \A u \in Threads \ {th} : /\ Waiting(u)' <=> Waiting(u)
                            /\ Holding(u)' <=> Holding(u)
                            /\ mine[u] # NoLock => About(u)' = About(u)

LEMMA RequestsLeaveOthers ==
  ASSUME NEW h \in Handlers, w' = w, \A g \in Handlers \ {h} : req'[g] = req[g]
  PROVE  OthersStay(h)
BY DEF OthersStay, Threads, Waiting, Holding, About

LEMMA WorkerLeavesOthers ==
  ASSUME req' = req PROVE OthersStay("worker")
BY DEF OthersStay, Threads, Waiting, Holding, About

\* What is not disturbed keeps its lock when no lock operation is done.
LEMMA LockStays ==
  ASSUME LocksAreHeld, UNCHANGED lockVars, NEW th \in Threads, OthersStay(th),
         (mine[th] # NoLock) <=> (Waiting(th)' \/ Holding(th)'),
         Holding(th)' => Holding(th),
         mine[th] # NoLock => About(th)' = About(th)
  PROVE  LocksAreHeld'
BY DEF LocksAreHeld, LockIsHeld, OthersStay, lockVars

LEMMA FetchKeeps ==
  ASSUME ShapeInv, LocksAreHeld, NEW th \in Threads, NEW s \in Sessions, Fetch(th, s),
         mine[th] = NoLock, Waiting(th)', ~Holding(th)', About(th)' = s, OthersStay(th)
  PROVE  LocksAreHeld'
<1>1. PICK l \in Locks : /\ registry' = [registry EXCEPT ![s] = l]
                         /\ mine' = [mine EXCEPT ![th] = l]
                         /\ registry[s] # NoLock => registry[s] = l
  <2>1. CASE registry[s] # NoLock
    BY <2>1 DEF Fetch, ShapeInv, TypeOK, LocksTypeOK
  <2>2. CASE registry[s] = NoLock
    <3>1. (CHOOSE u \in Unused : TRUE) \in Locks
      BY <2>2 DEF Fetch, Unused
    <3>2. QED
      BY <2>2, <3>1 DEF Fetch
  <2>3. QED
    BY <2>1, <2>2
<1>2. UNCHANGED <<lock, late>>
  BY DEF Fetch
<1>3. l # NoLock
  BY LocksAssumption
<1>4. registry'[s] = l /\ mine'[th] = l
  BY <1>1 DEF ShapeInv, TypeOK, LocksTypeOK
<1>5. LockIsHeld(th)'
  BY <1>3, <1>4 DEF LockIsHeld
<1>6. ASSUME NEW u \in Threads, u # th PROVE LockIsHeld(u)'
  <2>1. mine'[u] = mine[u] /\ LockIsHeld(u)
    BY <1>1, <1>6 DEF LocksAreHeld, ShapeInv, TypeOK, LocksTypeOK
  <2>2. /\ Waiting(u)' <=> Waiting(u)
        /\ Holding(u)' <=> Holding(u)
        /\ mine[u] # NoLock => About(u)' = About(u)
    BY <1>6 DEF OthersStay
  <2>3. ASSUME mine[u] # NoLock, u \notin late PROVE registry'[About(u)] = mine[u]
    <3>1. registry[About(u)] = mine[u]
      BY <2>1, <2>3 DEF LockIsHeld
    <3>2. CASE About(u) = s
      BY <1>1, <1>4, <2>3, <3>1, <3>2
    <3>3. CASE About(u) # s
      BY <1>1, <3>1, <3>3 DEF ShapeInv, TypeOK, LocksTypeOK
    <3>4. QED
      BY <3>2, <3>3
  <2>4. QED
    BY <1>2, <2>1, <2>2, <2>3 DEF LockIsHeld
<1>7. QED
  BY <1>2, <1>5, <1>6 DEF LocksAreHeld

LEMMA AcquireKeeps ==
  ASSUME ShapeInv, LocksAreHeld, NEW th \in Threads, Acquire(th),
         Waiting(th), ~Waiting(th)', Holding(th)', About(th)' = About(th), OthersStay(th)
  PROVE  LocksAreHeld'
<1>1. mine[th] \in Locks /\ lock[mine[th]] = "free"
  BY DEF LocksAreHeld, LockIsHeld, Acquire, Free, ShapeInv, TypeOK, LocksTypeOK
<1>2. /\ lock' = [lock EXCEPT ![mine[th]] = th]
      /\ UNCHANGED <<registry, mine, late>>
  BY DEF Acquire
<1>3. LockIsHeld(th)'
  BY <1>1, <1>2 DEF LockIsHeld, LocksAreHeld, ShapeInv, TypeOK, LocksTypeOK
<1>4. ASSUME NEW u \in Threads, u # th PROVE LockIsHeld(u)'
  <2>1. LockIsHeld(u) /\ (Waiting(u)' <=> Waiting(u)) /\ (Holding(u)' <=> Holding(u))
        /\ (mine[u] # NoLock => About(u)' = About(u))
    BY <1>4 DEF OthersStay, LocksAreHeld
  <2>2. u # "free"
    BY HandlersAssumption DEF Threads
  <2>3. Holding(u) => mine[u] # mine[th]
    BY <1>1, <2>1, <2>2 DEF LockIsHeld
  <2>4. Holding(u) => lock'[mine[u]] = u
    BY <1>2, <2>1, <2>3 DEF LockIsHeld, ShapeInv, TypeOK, LocksTypeOK
  <2>5. QED
    BY <1>2, <2>1, <2>4 DEF LockIsHeld
<1>5. QED
  BY <1>2, <1>3, <1>4 DEF LocksAreHeld

\* A lock is let go: whoever had it frees it, and who only waited leaves it as it is.
LEMMA LetGoKeeps ==
  ASSUME ShapeInv, LocksAreHeld, NEW th \in Threads, ~Waiting(th)', ~Holding(th)', OthersStay(th),
         mine' = [mine EXCEPT ![th] = NoLock], registry' = registry,
         late' \in {late, late \ {th}},
         \/ UNCHANGED lock
         \/ Holding(th) /\ lock' = [lock EXCEPT ![mine[th]] = "free"]
  PROVE  LocksAreHeld'
<1>1. LockIsHeld(th)'
  BY DEF LockIsHeld, ShapeInv, TypeOK, LocksTypeOK
<1>2. ASSUME NEW u \in Threads, u # th PROVE LockIsHeld(u)'
  <2>1. LockIsHeld(u) /\ (Waiting(u)' <=> Waiting(u)) /\ (Holding(u)' <=> Holding(u))
        /\ (mine[u] # NoLock => About(u)' = About(u))
    BY <1>2 DEF OthersStay, LocksAreHeld
  <2>2. mine'[u] = mine[u] /\ (u \in late' <=> u \in late)
    BY <1>2 DEF ShapeInv, TypeOK, LocksTypeOK
  <2>3. Holding(u) => lock'[mine[u]] = u
    <3>1. CASE UNCHANGED lock
      BY <2>1, <3>1 DEF LockIsHeld
    <3>2. CASE Holding(th) /\ lock' = [lock EXCEPT ![mine[th]] = "free"]
      <4>1. lock[mine[th]] = th
        BY <3>2 DEF LocksAreHeld, LockIsHeld
      <4>2. Holding(u) => mine[u] # mine[th]
        BY <1>2, <2>1, <4>1 DEF LockIsHeld
      <4>3. QED
        BY <2>1, <3>2, <4>2 DEF LockIsHeld, ShapeInv, TypeOK, LocksTypeOK
    <3>3. QED
      BY <3>1, <3>2
  <2>4. QED
    BY <2>1, <2>2, <2>3 DEF LockIsHeld
<1>3. "worker" \notin late'
  BY DEF LocksAreHeld
<1>4. QED
  BY <1>1, <1>2, <1>3 DEF LocksAreHeld

\* process_one drops a free lock: who has fetched it waits for it, and is late from now on.
LEMMA PruneKeeps ==
  ASSUME ShapeInv, LocksAreHeld, w.kind = "process", w.sid \in Sessions, Prune(w.sid),
         UNCHANGED <<lock, mine>>, ~Waiting("worker"), ~Waiting("worker")', ~Holding("worker")',
         OthersStay("worker")
  PROVE  LocksAreHeld'
<1>1. "worker" \in Threads /\ mine["worker"] = NoLock
  BY DEF Threads, LocksAreHeld, LockIsHeld, Holding, Kinds
<1>2. "worker" \notin late' /\ late \subseteq late'
  BY <1>1 DEF Prune, Waits, LocksAreHeld
<1>3. LockIsHeld("worker")'
  BY <1>1 DEF LockIsHeld
<1>4. ASSUME NEW u \in Threads, u # "worker" PROVE LockIsHeld(u)'
  <2>1. LockIsHeld(u) /\ (Waiting(u)' <=> Waiting(u)) /\ (Holding(u)' <=> Holding(u))
        /\ (mine[u] # NoLock => About(u)' = About(u))
    BY <1>4 DEF OthersStay, LocksAreHeld
  <2>2. u # "free"
    BY HandlersAssumption DEF Threads
  <2>3. ASSUME mine[u] # NoLock, u \notin late' PROVE registry'[About(u)] = mine[u]
    <3>1. registry[About(u)] = mine[u]
      BY <1>2, <2>1, <2>3 DEF LockIsHeld
    <3>2. CASE Dropped(w.sid) /\ About(u) = w.sid
      <4>1. lock[mine[u]] = "free"
        BY <3>1, <3>2 DEF Dropped
      <4>2. Waits(u)
        BY <2>2, <2>3, <4>1 DEF Waits
      <4>3. QED
        BY <2>3, <3>1, <3>2, <4>2 DEF Prune
    <3>3. CASE ~(Dropped(w.sid) /\ About(u) = w.sid)
      BY <3>1, <3>3 DEF Prune, ShapeInv, TypeOK, LocksTypeOK
    <3>4. QED
      BY <3>2, <3>3
  <2>4. QED
    BY <2>1, <2>3 DEF LockIsHeld
<1>5. QED
  BY <1>2, <1>3, <1>4 DEF LocksAreHeld

LEMMA ActKeepsLocks ==
  ASSUME ShapeInv, LocksAreHeld, NEW h \in Handlers, Act(h) PROVE LocksAreHeld'
<1> USE HandlersAssumption
<1>1. /\ h \in Threads /\ h # "worker"
      /\ w' = w /\ req[h].sid \in Sessions /\ req[h] \in RequestStates
      /\ req \in [Handlers -> RequestStates]
  BY ActsOnRequest DEF Threads, ShapeInv, TypeOK, RequestShape
<1>2. /\ \A g \in Handlers \ {h} : req'[g] = req[g]
      /\ Respond(h) => req'[h].at = "idle"
      /\ \A at : req' = [req EXCEPT ![h].at = at] => req'[h].at = at /\ req'[h].sid = req[h].sid
  <2>1. \/ Respond(h)
        \/ \E at : req' = [req EXCEPT ![h].at = at]
    BY ActsOnRequest
  <2>2. Respond(h) => /\ \A g \in Handlers \ {h} : req'[g] = req[g]
                      /\ req'[h].at = "idle"
    BY <1>1 DEF Respond, NoRequest
  <2>3. ASSUME NEW at, req' = [req EXCEPT ![h].at = at]
        PROVE  /\ \A g \in Handlers \ {h} : req'[g] = req[g]
               /\ req'[h].at = at /\ req'[h].sid = req[h].sid
    BY <1>1, <2>3 DEF RequestStates
  <2>4. QED
    BY <2>1, <2>2, <2>3
<1>3. OthersStay(h)
  BY <1>1, <1>2, RequestsLeaveOthers
<1>4. /\ Waiting(h) <=> req[h].at = "wait"
      /\ Waiting(h)' <=> req'[h].at = "wait"
      /\ Holding(h) <=> req[h].at \in {"apply", "update"}
      /\ Holding(h)' <=> req'[h].at \in {"apply", "update"}
      /\ About(h) = req[h].sid /\ About(h)' = req'[h].sid
  BY <1>1 DEF Waiting, Holding, About
<1>5. (mine[h] # NoLock) <=> req[h].at \in {"wait", "apply", "update"}
  BY <1>1, <1>4 DEF LocksAreHeld, LockIsHeld
<1>6. CASE LabelFetch(h) \/ MoveFetch(h)
  <2>1. Fetch(h, req[h].sid) /\ req[h].at = "act" /\ req' = [req EXCEPT ![h].at = "wait"]
    BY <1>6 DEF LabelFetch, MoveFetch, Acting
  <2>2. QED
    BY <1>1, <1>2, <1>3, <1>4, <1>5, <2>1, FetchKeeps
<1>7. CASE LabelLock(h) \/ MoveLock(h)
  <2>1. req[h].at = "wait"
    BY <1>7 DEF LabelLock, MoveLock, Acting
  <2>2. CASE Acquire(h) /\ \E at \in {"apply", "update"} : req' = [req EXCEPT ![h].at = at]
    BY <1>1, <1>2, <1>3, <1>4, <2>1, <2>2, AcquireKeeps
  <2>3. CASE LetGo(h) /\ Respond(h) /\ UNCHANGED lock
    BY <1>1, <1>2, <1>3, <1>4, <2>3, LetGoKeeps DEF LetGo
  <2>4. QED
    BY <1>7, <2>2, <2>3 DEF LabelLock, MoveLock
<1>8. CASE \/ LabelApplyFails(h) \/ MoveUpdate(h)
           \/ \E tr \in {"empty", "raw", "named"} : LabelApply(h, tr)
  <2>1. /\ req[h].at \in {"apply", "update"} /\ Release(h)
        /\ \/ Respond(h)
           \/ \E at \in {"publish", "enqueue"} : req' = [req EXCEPT ![h].at = at]
    BY <1>8 DEF LabelApplyFails, LabelApply, MoveUpdate, Acting
  <2>2. QED
    BY <1>1, <1>2, <1>3, <1>4, <2>1, LetGoKeeps DEF Release, LetGo
<1>9. CASE \/ SyncNowAct(h) \/ TaskAct(h) \/ LabelFinish(h) \/ MovePublish(h) \/ ShareAct(h)
           \/ DeleteRow(h) \/ DeleteFiles(h)
  <2>1. /\ req[h].at \in {"act", "enqueue", "publish", "purge"} /\ UNCHANGED lockVars
        /\ Respond(h) \/ req' = [req EXCEPT ![h].at = "purge"]
    BY <1>9 DEF SyncNowAct, TaskAct, LabelFinish, MovePublish, ShareAct, DeleteRow,
       DeleteFiles, Acting
  <2>2. req'[h].at \in {"idle", "purge"}
    BY <1>2, <2>1
  <2>3. QED
    BY <1>1, <1>3, <1>4, <1>5, <2>1, <2>2, LockStays
<1>10. QED
  BY <1>6, <1>7, <1>8, <1>9 DEF Act

\* On a session the worker acquires its lock, lets it go, or keeps it.
LEMMA OnSessionLocks ==
  ASSUME ShapeInv, OnSession, ~Cleanup, ~Untrack
  PROVE  /\ w'.pc \in Working \cup {"cleanup"} /\ w'.sid = w.sid /\ w'.kind = w.kind
         /\ \/ w.pc \in Working /\ UNCHANGED lockVars
            \/ w.pc = "lock" /\ Acquire("worker")
<1> USE DEF ShapeInv, TypeOK, WorkerStates, AtPc, Goto, Working
<1>1. CASE Transcribing \/ DropAudio \/ Finish \/ SummaryFailed \/ Raise \/ RaiseInAutoLabel
  BY <1>1 DEF Transcribing, TranscribeOk, TranscribeSummaryFailed, TranscribeFailed, DropAudio,
     Finish, SummaryFailed, Raise, RaiseInAutoLabel
<1>2. CASE \E pushed, ok \in BOOLEAN : Push(pushed, ok)
  BY <1>2 DEF Push
<1>3. CASE StartOnMissingRow \/ StartSync \/ StartFinalize \/ StartRetry \/ StartAutoLabel
  <2>1. \E pc \in {"cleanup", "push", "audio", "apply", "summarize", "autolabel"} :
           w' = [w EXCEPT !.pc = pc] \/ w' = [Reading(w.sid) EXCEPT !.pc = pc]
    BY <1>3 DEF StartOnMissingRow, StartSync, StartFinalize, StartRetry, StartAutoLabel,
       SyncOrSkip
  <2>2. w.pc = "lock" /\ Acquire("worker")
    BY <1>3 DEF StartOnMissingRow, StartSync, StartFinalize, StartRetry, StartAutoLabel, StartTask
  <2>3. QED
    BY <2>1, <2>2 DEF Reading
<1>4. CASE \/ \E tr \in {"none", "empty", "raw", "named"} : LabelAndRoute(tr)
           \/ \E tr \in {"none", "empty", "raw", "named"} : AutoLabelAndRoute(tr)
           \/ SummaryDone
  BY <1>4 DEF LabelAndRoute, AutoLabelAndRoute, SummaryDone, SyncOrSkip
<1>5. CASE LearnAndFinalize
  BY SMT, ZenonT(60), <1>5 DEF LearnAndFinalize, SyncOrSkip, Reading
<1>6. QED
  BY <1>1, <1>2, <1>3, <1>4, <1>5 DEF OnSession

LEMMA WorkerKeepsLocks ==
  ASSUME ShapeInv, LocksAreHeld, OnSession PROVE LocksAreHeld'
<1>1. /\ "worker" \in Threads /\ req' = req /\ OthersStay("worker")
      /\ w.sid \in Sessions
  BY OnSessionKeeps, WorkerLeavesOthers DEF Threads, ShapeInv, WorkerShape
<1>2. /\ Waiting("worker") <=> w.pc = "lock"
      /\ Waiting("worker")' <=> w'.pc = "lock"
      /\ Holding("worker") <=> w.kind \in Kinds /\ w.pc \in Working \cup {"cleanup"}
      /\ Holding("worker")' <=> w'.kind \in Kinds /\ w'.pc \in Working \cup {"cleanup"}
      /\ About("worker") = w.sid /\ About("worker")' = w'.sid
  BY DEF Waiting, Holding, About
<1>3. (mine["worker"] # NoLock) <=> (Waiting("worker") \/ Holding("worker"))
  BY <1>1 DEF LocksAreHeld, LockIsHeld
<1>4. CASE Cleanup
  <2>1. w.pc = "cleanup" /\ Prune(w.sid)
    BY <1>4 DEF Cleanup, AtPc
  <2>2. CASE w.kind = "process"
    <3>1. w' = IdleAt("drain") /\ UNCHANGED <<lock, mine>>
      BY <1>4, <2>2 DEF Cleanup
    <3>2. w'.pc = "drain"
      BY <3>1 DEF IdleAt
    <3>3. QED
      BY <1>1, <1>2, <2>1, <2>2, <3>1, <3>2, PruneKeeps DEF Working
  <2>3. CASE w.kind # "process"
    <3>1. w.kind \in Kinds
      BY <2>1, <2>3 DEF ShapeInv, WorkerShape
    <3>2. /\ w'.pc = "untrack"
          /\ lock' = [lock EXCEPT ![mine["worker"]] = "free"]
          /\ mine' = [mine EXCEPT !["worker"] = NoLock]
      BY <1>4, <2>3 DEF Cleanup, Goto, ShapeInv, TypeOK, WorkerStates
    <3>3. lock[registry[w.sid]] = "worker"
      BY <1>1, <1>2, <1>3, <2>1, <3>1 DEF LocksAreHeld, LockIsHeld
    <3>4. UNCHANGED <<registry, late>>
      BY <2>1, <3>3 DEF Prune, Dropped
    <3>5. QED
      BY <1>1, <1>2, <2>1, <3>1, <3>2, <3>4, LetGoKeeps DEF Working
  <2>4. QED
    BY <2>2, <2>3
<1>5. CASE Untrack
  <2>1. w.pc = "untrack" /\ w'.pc = "drain" /\ UNCHANGED lockVars
    BY <1>5 DEF Untrack, AtPc, IdleAt
  <2>2. QED
    BY <1>1, <1>2, <1>3, <2>1, LockStays DEF Working
<1>6. CASE ~Cleanup /\ ~Untrack
  <2>1. w'.pc \in Working \cup {"cleanup"} /\ w'.sid = w.sid /\ w'.kind = w.kind
    BY <1>6, OnSessionLocks
  <2>2. CASE w.pc \in Working /\ UNCHANGED lockVars
    BY <1>1, <1>2, <1>3, <2>1, <2>2, LockStays DEF Working
  <2>3. CASE w.pc = "lock" /\ Acquire("worker")
    <3>1. w.kind \in Kinds
      BY <2>3 DEF ShapeInv, WorkerShape
    <3>2. QED
      BY <1>1, <1>2, <2>1, <2>3, <3>1, AcquireKeeps DEF Working
  <2>4. QED
    BY <1>6, <2>2, <2>3, OnSessionLocks
<1>7. QED
  BY <1>4, <1>5, <1>6

LEMMA LocksStep ==
  ASSUME ShapeInv, LocksAreHeld, [Next]_vars PROVE LocksAreHeld'
<1>1. CASE \/ UNCHANGED vars \/ Reassigning \/ Arrivals
  <2>1. UNCHANGED <<w, req, lockVars>>
    BY <1>1, ReassigningKeeps DEF vars, Arrivals, Upload, Import
  <2>2. QED
    BY <2>1 DEF LocksAreHeld, LockIsHeld, Waiting, Holding, About, lockVars
<1>2. CASE Requests
  <2>1. PICK h, r : h \in Handlers /\ Accept(h, r) /\ r.at = "act"
    BY <1>2, RequestsAccept
  <2>2. /\ UNCHANGED <<w, lockVars>> /\ req[h].at = "idle"
        /\ \A g \in Handlers : req'[g] = IF g = h THEN r ELSE req[g]
    BY <2>1 DEF Accept, ShapeInv, TypeOK
  <2>3. h \in Threads /\ h # "worker" /\ OthersStay(h)
    BY <2>1, <2>2, RequestsLeaveOthers, HandlersAssumption DEF Threads
  <2>4. ~Waiting(h) /\ ~Holding(h) /\ ~Waiting(h)' /\ ~Holding(h)'
    BY <2>1, <2>2, <2>3 DEF Waiting, Holding
  <2>5. mine[h] = NoLock
    BY <2>3, <2>4 DEF LocksAreHeld, LockIsHeld
  <2>6. QED
    BY <2>2, <2>3, <2>4, <2>5, LockStays
<1>3. CASE \E h \in Handlers : Act(h)
  BY <1>3, ActKeepsLocks
<1>4. CASE Crash
  <2>1. /\ w'.pc = "down" /\ \A h \in Handlers : req'[h].at = "idle"
        /\ mine' = [th \in Threads |-> NoLock] /\ late' = {}
    BY <1>4 DEF Crash, IdleAt, NoRequest
  <2>2. QED
    BY <2>1 DEF LocksAreHeld, LockIsHeld, Waiting, Holding, Threads, Working
<1>5. CASE TakeTask
  <2>1. /\ w.pc = "drain" /\ w'.pc = "lock" /\ req' = req
        /\ w'.sid = Head(tasks).sid /\ Fetch("worker", Head(tasks).sid)
    BY <1>5 DEF TakeTask, AtPc, IdleAt
  <2>2. Head(tasks).sid \in Sessions
    <3>1. Head(tasks) \in Task
      BY <1>5 DEF TakeTask, ShapeInv, TypeOK
    <3>2. QED
      BY <3>1 DEF Task
  <2>3. "worker" \in Threads /\ mine["worker"] = NoLock
    BY <2>1 DEF Threads, LocksAreHeld, LockIsHeld, Waiting, Holding, Working
  <2>4. QED
    BY <2>1, <2>2, <2>3, FetchKeeps, WorkerLeavesOthers DEF Waiting, Holding, About, Working
<1>6. CASE \/ Boot \/ TasksDrained \/ NothingToClaim \/ RequeueOrphans
           \/ \E s \in Sessions : Claim(s)
  <2>1. /\ w.pc \in {"down", "boot", "drain", "claim"} /\ UNCHANGED <<req, lockVars>>
        /\ \/ w'.pc \in {"boot", "claim", "drain"}
           \/ w'.pc = "transcribe" /\ w'.kind = "process"
    <3>1. CASE Boot \/ TasksDrained \/ NothingToClaim \/ RequeueOrphans
      BY <3>1 DEF Boot, TasksDrained, NothingToClaim, RequeueOrphans, AtPc, IdleAt
    <3>2. CASE \E s \in Sessions : Claim(s)
      BY <3>2 DEF Claim, AtPc, IdleAt
    <3>3. QED
      BY <1>6, <3>1, <3>2
  <2>2. "worker" \in Threads /\ mine["worker"] = NoLock
    BY <2>1 DEF Threads, LocksAreHeld, LockIsHeld, Waiting, Holding, Working
  <2>3. ~Waiting("worker")' /\ ~Holding("worker")'
    BY <2>1 DEF Waiting, Holding, Working, Kinds
  <2>4. QED
    BY <2>1, <2>2, <2>3, LockStays, WorkerLeavesOthers
<1>7. CASE OnSession
  BY <1>7, WorkerKeepsLocks
<1>8. QED
  BY <1>1, <1>2, <1>3, <1>4, <1>5, <1>6, <1>7, NextIs DEF Polling

-----------------------------------------------------------------------------
(* Busy statuses.                                                          *)

\* reauto_label_session leaves the status alone when something under its
\* sync raises; this assumption says that nothing does.
NoAutoSyncFault == "raise_in_auto_sync" \notin Faults

Driven == Working \ {"apply", "autolabel"}

LEMMA OnSessionStatus ==
  ASSUME ShapeInv, NamesAreBorn, StatusOfWork, OnSession
  PROVE  /\ StatusOfWork'
         /\ NoAutoSyncFault /\ BusyIsDriven => (status'[w.sid] \in Busy => w'.pc \in Driven)
<1> DEFINE old == status[w.sid]
           new == status'[w.sid]
<1>1. /\ w \in WorkerStates /\ status \in [Sessions -> Statuses]
      /\ w.sid \in Sessions /\ old # "unborn"
      /\ w.pc \notin {"down", "boot", "drain", "claim"}
  BY OnSessionKeeps DEF ShapeInv, TypeOK, WorkerShape, NamesAreBorn
<1>2. BusyIsDriven => (old \in Busy => w.pc \in Driven)
  BY <1>1 DEF BusyIsDriven, Driven
<1>3. RowExists(w.sid) <=> old # "gone"
  BY <1>1 DEF RowExists, Statuses, ValidStatuses
<1>4. \A st : status' = SetStatus(w.sid, st) => new = IF old = "gone" THEN old ELSE st
  BY <1>1, <1>3 DEF SetStatus
<1>5. \A pc : w' = [w EXCEPT !.pc = pc] => w'.pc = pc /\ w'.sid = w.sid
                                          /\ w'.kind = w.kind /\ w'.err = w.err
  BY <1>1 DEF WorkerStates
<1>6. \A pc : w' = [Reading(w.sid) EXCEPT !.pc = pc] => w'.pc = pc /\ w'.sid = w.sid
                                          /\ w'.kind = w.kind /\ w'.err = w.err
  BY <1>1 DEF WorkerStates, Reading
<1> USE DEF AtPc, Goto, rowVars, Driven, Working, Busy
<1> DEFINE Failing == \E tr \in {"none", "empty", "raw", "named"} : TranscribeFailed(tr)
<1>7. CASE TranscribeOk \/ \E tr \in {"none", "empty", "raw", "named"} : TranscribeSummaryFailed(tr)
  BY <1>1, <1>5, <1>7 DEF TranscribeOk, TranscribeSummaryFailed, StatusOfWork
<1>8. CASE Failing \/ SummaryFailed \/ Raise
  BY <1>1, <1>4, <1>5, <1>8 DEF TranscribeFailed, SummaryFailed, Raise, StatusOfWork
<1>9. CASE \E tr \in {"none", "empty", "raw", "named"} : LabelAndRoute(tr)
  <2>1. \/ w'.pc = "cleanup" /\ new \in {"empty", "needs_labeling", "gone"}
        \/ w'.pc = "push" /\ new \in {"syncing", "gone"}
        \/ w'.pc = "audio" /\ new = old
    BY <1>1, <1>4, <1>5, <1>9 DEF LabelAndRoute, SyncOrSkip
  <2>2. w.pc = "label" /\ w'.sid = w.sid /\ w'.kind = w.kind /\ w'.err = w.err
    BY <1>5, <1>9 DEF LabelAndRoute, SyncOrSkip
  <2>3. QED
    BY <2>1, <2>2 DEF StatusOfWork
<1>10. CASE \E pushed, ok \in BOOLEAN : Push(pushed, ok)
  <2>1. w.pc = "push" /\ w'.sid = w.sid /\ new = old /\ w'.pc \in {"audio", "finish"}
    BY <1>1, <1>10 DEF Push, WorkerStates
  <2>2. QED
    BY <2>1 DEF StatusOfWork
<1>11. CASE DropAudio
  BY <1>1, <1>5, <1>11 DEF DropAudio, StatusOfWork
<1>12. CASE Finish
  <2>1. FinalStatus(w.kind, w.err) \in {"sync_failed", "done"}
    BY DEF FinalStatus
  <2>2. QED
    BY <1>1, <1>4, <1>5, <1>12, <2>1 DEF Finish, StatusOfWork
<1>13. CASE Cleanup
  BY <1>1, <1>2, <1>5, <1>13 DEF Cleanup, StatusOfWork, IdleAt
<1>14. CASE Untrack
  BY <1>1, <1>2, <1>14 DEF Untrack, StatusOfWork, IdleAt
<1>15. CASE StartOnMissingRow
           \/ StartFinalize \/ StartRetry \/ StartAutoLabel
  <2>1. /\ w.pc = "lock" /\ w'.sid = w.sid /\ w'.kind = w.kind /\ w'.err = w.err
        /\ \/ new = old /\ w'.pc \in {"cleanup", "apply", "autolabel"}
           \/ new \in {"summarizing", "gone"} /\ w'.pc = "summarize"
    BY <1>1, <1>4, <1>5, <1>6, <1>15
       DEF StartOnMissingRow, StartFinalize, StartRetry, StartAutoLabel, StartTask
  <2>2. QED
    BY <1>2, <2>1 DEF StatusOfWork
<1>16. CASE StartSync \/ LearnAndFinalize
  <2>1. /\ w.pc \in {"lock", "apply"}
        /\ w.kind # "process"
    BY <1>16 DEF StartSync, LearnAndFinalize, StartTask, ShapeInv, WorkerShape, Kinds
  <2>2. \/ Goto("cleanup") /\ UNCHANGED status
        \/ \E gate : SyncOrSkip(gate, Reading(w.sid), "audio")
    BY <1>16 DEF StartSync, LearnAndFinalize
  <2>3. Reading(w.sid).sid = w.sid
    BY <1>1 DEF Reading, WorkerStates
  <2>4. /\ w'.sid = w.sid /\ w'.kind = w.kind /\ w'.err = w.err
        /\ \/ new = old /\ w'.pc \in {"cleanup", "audio"}
           \/ new \in {"syncing", "gone"} /\ w'.pc = "push"
    BY <1>4, <1>5, <1>6, <2>2, <2>3 DEF SyncOrSkip
  <2>5. QED
    BY <1>2, <2>1, <2>4 DEF StatusOfWork
<1>17. CASE SummaryDone
  <2>1. /\ w.pc = "summarize" /\ w'.sid = w.sid /\ w'.kind = w.kind /\ w'.err = w.err
        /\ w.kind # "process"
        /\ \/ new = old /\ w'.pc = "finish"
           \/ new \in {"syncing", "gone"} /\ w'.pc = "push"
    BY <1>1, <1>4, <1>5, <1>17 DEF SummaryDone, SyncOrSkip, ShapeInv, WorkerShape, Kinds
  <2>2. QED
    BY <2>1 DEF StatusOfWork
<1>18. CASE \E tr \in {"none", "empty", "raw", "named"} : AutoLabelAndRoute(tr)
  <2>1. /\ w.pc = "autolabel" /\ w'.sid = w.sid /\ w'.kind = w.kind /\ w'.err = w.err
        /\ w.kind # "process"
        /\ \/ new \in {"needs_labeling", "done", "gone"} /\ w'.pc = "cleanup"
           \/ new = old /\ w'.pc = "finish"
           \/ new \in {"syncing", "gone"} /\ w'.pc = "push"
    BY <1>1, <1>4, <1>5, <1>18 DEF AutoLabelAndRoute, SyncOrSkip, ShapeInv, WorkerShape, Kinds
  <2>2. QED
    BY <1>2, <2>1 DEF StatusOfWork
<1>19. CASE RaiseInAutoLabel
  BY <1>1, <1>2, <1>5, <1>19 DEF RaiseInAutoLabel, NoAutoSyncFault, StatusOfWork
<1>20. QED
  BY <1>7, <1>8, <1>9, <1>10, <1>11, <1>12, <1>13, <1>14, <1>15, <1>16, <1>17, <1>18, <1>19
     DEF OnSession, Transcribing

LEMMA StatusStep ==
  ASSUME ShapeInv, NamesAreBorn, StatusOfWork, [Next]_vars
  PROVE  StatusOfWork' /\ (NoAutoSyncFault /\ BusyIsDriven => BusyIsDriven')
<1>0. CASE Reassigning
  BY <1>0, ReassigningKeeps DEF taskVars, StatusOfWork, BusyIsDriven
<1>1. CASE UNCHANGED vars
  BY <1>1 DEF vars, rowVars, StatusOfWork, BusyIsDriven
<1>2. CASE Arrivals
  <2>1. /\ w' = w
        /\ \A r \in Sessions : \/ status'[r] = status[r]
                               \/ status[r] = "unborn" /\ status'[r] \in {"queued", "imported"}
    BY <1>2, ArrivalsOnStatus DEF Arrivals, Upload, Import
  <2>2. BusyIsDriven => BusyIsDriven'
    BY <2>1 DEF BusyIsDriven, Busy
  <2>3. w.pc \notin {"down", "boot", "drain", "claim"} => status'[w.sid] = status[w.sid]
    BY <2>1 DEF NamesAreBorn, ShapeInv, WorkerShape
  <2>4. QED
    BY <2>1, <2>2, <2>3 DEF StatusOfWork
<1>3. CASE Requests
  BY <1>3, RequestsKeep DEF rowVars, StatusOfWork, BusyIsDriven
<1>4. ASSUME NEW h \in Handlers, Act(h) 
      PROVE  StatusOfWork' /\ (BusyIsDriven => BusyIsDriven')
  <2>1. /\ w' = w
        /\ \A r \in Sessions : \/ status'[r] = status[r]
                               \/ RowExists(r) /\ status'[r] = "gone"
    BY <1>4, ActsOnStatus, ActsOnRequest
  <2>2. BusyIsDriven => BusyIsDriven'
    BY <2>1 DEF BusyIsDriven, Busy
  <2>3. w.pc \notin {"down", "boot", "drain", "claim"} => status'[w.sid] \in {status[w.sid], "gone"}
    BY <2>1 DEF ShapeInv, WorkerShape
  <2>4. QED
    BY <2>1, <2>2, <2>3 DEF StatusOfWork
<1>5. CASE Polling
  <2>1. /\ status' = status
        /\ w'.err = FALSE
        /\ w'.pc \in {"down", "boot", "drain", "claim", "lock"}
        /\ w'.pc \in {"drain", "claim", "lock"} => w.pc \in {"drain", "claim"}
    <3>1. CASE TakeTask
      BY <3>1 DEF TakeTask, IdleAt, AtPc, rowVars
    <3>2. CASE Boot \/ TasksDrained \/ NothingToClaim \/ Crash
      BY <3>2 DEF Boot, TasksDrained, NothingToClaim, Crash, IdleAt, AtPc, rowVars
    <3>3. QED
      BY <1>5, <3>1, <3>2 DEF Polling
  <2>2. QED
    BY <2>1 DEF StatusOfWork, BusyIsDriven, Working
<1>6. CASE RequeueOrphans
  BY <1>6 DEF RequeueOrphans, Orphanable, Busy, IdleAt, StatusOfWork, BusyIsDriven
<1>7. ASSUME NEW s \in Sessions, Claim(s) 
      PROVE  StatusOfWork' /\ (BusyIsDriven => BusyIsDriven')
  <2>1. /\ w.pc = "claim"
        /\ w'.pc = "transcribe" /\ w'.sid = s /\ w'.err = FALSE
        /\ \A r \in Sessions : status'[r] = IF r = s THEN "transcribing" ELSE status[r]
    BY <1>7 DEF Claim, AtPc, IdleAt, ShapeInv, TypeOK
  <2>2. QED
    BY <2>1 DEF StatusOfWork, BusyIsDriven, Working
<1>8. CASE OnSession
  <2>1. /\ StatusOfWork'
        /\ NoAutoSyncFault /\ BusyIsDriven => (status'[w.sid] \in Busy => w'.pc \in Driven)
    BY <1>8, OnSessionStatus
  <2>2. /\ w.pc \notin {"down", "boot", "drain", "claim"}
        /\ w'.pc = "drain" \/ w'.sid = w.sid
    BY <1>8, OnSessionKeeps
  <2>3. \A r \in Sessions : r # w.sid => status'[r] = status[r]
    BY <1>8, WorkerWritesStatus, StatusAfter DEF WritesStatus, ShapeInv
  <2>4. ASSUME NoAutoSyncFault, BusyIsDriven, NEW r \in Sessions, status'[r] \in Busy
        PROVE  w'.sid = r /\ w'.pc \in Driven
    <3>1. r = w.sid
      BY <2>2, <2>3, <2>4 DEF BusyIsDriven
    <3>2. QED
      BY <2>1, <2>2, <2>4, <3>1 DEF Driven, Working
  <2>5. QED
    BY <2>1, <2>4 DEF BusyIsDriven, Driven
<1>9. QED
  BY <1>0, <1>1, <1>2, <1>3, <1>4, <1>5, <1>6, <1>7, <1>8, NextIs

-----------------------------------------------------------------------------
(* The worker never works for a team the session has left.                 *)

LEMMA RowsAreNotReborn ==
  ASSUME ShapeInv, OnSession
  PROVE  \A r \in Sessions : RowExists(r)' => RowExists(r)
<1>1. WritesStatus
  BY WorkerWritesStatus
<1>2. QED
  BY <1>1, StatusAfter DEF WritesStatus, ShapeInv, RowExists

\* A move finds the session busy, or its lock held, while the worker is on it, unless its
\* lock was dropped.
LEMMA MoveKeepsTeam ==
  ASSUME ShapeInv, LocksAreHeld, StatusOfWork, NEW h \in Handlers, MoveUpdate(h),
         w.pc \in Working, RowExists(w.sid), ~misled'
  PROVE  team'[w.sid] = team[w.sid]
<1> DEFINE s == req[h].sid
<1>1. CASE ~(RowExists(s) /\ MayMove(s, req[h].src))
  BY <1>1 DEF MoveUpdate
<1>2. CASE RowExists(s) /\ MayMove(s, req[h].src)
  <2>1. w.sid \in Sessions /\ w.kind \in Kinds \cup {"process"}
    BY DEF ShapeInv, WorkerShape, Working
  <2>2. CASE w.sid # s
    BY <1>2, <2>1, <2>2 DEF MoveUpdate, ShapeInv, TypeOK
  <2>3. CASE w.sid = s /\ w.kind \in Kinds
    <3>1. h \notin late /\ req[h].at = "update"
      BY <1>2, <2>3 DEF MoveUpdate, OnIt, Acting
    <3>2. h \in Threads /\ "worker" \in Threads /\ h # "worker"
      BY HandlersAssumption DEF Threads
    <3>3. Holding(h) /\ Holding("worker") /\ About(h) = s /\ About("worker") = s
      BY <2>3, <3>1, <3>2 DEF Holding, About
    <3>4. /\ lock[mine[h]] = h /\ registry[s] = mine[h]
          /\ lock[mine["worker"]] = "worker" /\ registry[s] = mine["worker"]
      BY <3>1, <3>2, <3>3 DEF LocksAreHeld, LockIsHeld
    <3>5. QED
      BY <3>2, <3>4
  <2>4. CASE w.sid = s /\ w.kind = "process"
    <3>1. w.pc \notin {"apply", "summarize", "autolabel"}
      BY <2>4 DEF ShapeInv, WorkerShape, Kinds
    <3>2. status[w.sid] \in {"transcribing", "syncing", "gone"}
      BY <2>4, <3>1 DEF StatusOfWork, Working
    <3>3. QED
      BY <1>2, <2>4, <3>2 DEF MayMove, RowExists, ValidStatuses, Busy
  <2>5. QED
    BY <2>1, <2>2, <2>3, <2>4
<1>3. QED
  BY <1>1, <1>2

\* Who moves it without a lock leaves a mark.
LEMMA ReassigningKeepsTeam ==
  ASSUME ShapeInv, Reassigning, w.pc \in Working, ~misled'
  PROVE  ~misled /\ team'[w.sid] = team[w.sid]
<1>1. w.sid \in Sessions
  BY DEF ShapeInv, WorkerShape, Working
<1>2. ASSUME NEW s \in Sessions, NEW dest \in Teams, AdminMove(s, dest)
      PROVE  ~misled /\ team'[w.sid] = team[w.sid]
  <2>1. ~misled /\ s # w.sid
    BY <1>2 DEF AdminMove, OnIt
  <2>2. QED
    BY <1>1, <1>2, <2>1 DEF AdminMove, ShapeInv, TypeOK
<1>3. ASSUME NEW t \in Teams, NEW dest \in Teams, DeleteTeam(t, dest)
      PROVE  ~misled /\ team'[w.sid] = team[w.sid]
  <2>1. ~misled /\ ~(RowExists(w.sid) /\ team[w.sid] = t)
    BY <1>1, <1>3 DEF DeleteTeam, OnIt
  <2>2. QED
    BY <1>1, <1>3, <2>1 DEF DeleteTeam
<1>4. QED
  BY <1>2, <1>3 DEF Reassigning

\* The worker gets to a working point with the team it had, or reads the row.
LEMMA OnSessionTeam ==
  ASSUME ShapeInv, OnSession, w'.pc \in Working
  PROVE  /\ w'.sid = w.sid
         /\ \/ w.pc \in Working /\ w'.team = w.team /\ misled' = misled
            \/ w'.team = team[w.sid]
<1>1. w \in WorkerStates
  BY DEF ShapeInv, TypeOK
<1>2. w'.sid = w.sid
  BY OnSessionKeeps DEF Working
<1> USE DEF AtPc, Goto, Working, histVars
<1>3. CASE \/ Transcribing
           \/ DropAudio \/ Finish \/ Cleanup \/ Untrack
           \/ SummaryFailed \/ Raise \/ RaiseInAutoLabel
  BY <1>1, <1>2, <1>3 DEF Transcribing, TranscribeOk, TranscribeSummaryFailed,
     TranscribeFailed, WorkerStates, DropAudio, Finish, Cleanup, Untrack, SummaryFailed, Raise,
     RaiseInAutoLabel, IdleAt
<1>4. CASE \E pushed, ok \in BOOLEAN : Push(pushed, ok)
  BY <1>1, <1>2, <1>4 DEF Push, WorkerStates
<1>5. CASE StartOnMissingRow
  BY <1>1, <1>5 DEF StartOnMissingRow, WorkerStates
<1>6. CASE StartSync \/ StartFinalize \/ StartRetry \/ StartAutoLabel
  <2>1. \E pc : w' = [Reading(w.sid) EXCEPT !.pc = pc]
    BY <1>6 DEF StartSync, StartFinalize, StartRetry, StartAutoLabel, SyncOrSkip
  <2>2. QED
    BY <1>1, <1>2, <2>1 DEF Reading, WorkerStates
<1>7. CASE \/ \E tr \in {"none", "empty", "raw", "named"} : LabelAndRoute(tr)
           \/ \E tr \in {"none", "empty", "raw", "named"} : AutoLabelAndRoute(tr)
           \/ SummaryDone
  <2>1. w.pc \in Working /\ misled' = misled /\ \E pc : w' = [w EXCEPT !.pc = pc]
    BY <1>7 DEF LabelAndRoute, AutoLabelAndRoute, SummaryDone, SyncOrSkip
  <2>2. QED
    BY <1>1, <1>2, <2>1 DEF WorkerStates
<1>8. CASE LearnAndFinalize
  <2>1. \/ w' = [w EXCEPT !.pc = "cleanup"]
        \/ \E pc : w' = [Reading(w.sid) EXCEPT !.pc = pc]
    BY <1>8 DEF LearnAndFinalize, SyncOrSkip
  <2>2. QED
    BY <1>1, <1>2, <2>1 DEF Reading, WorkerStates
<1>9. QED
  BY <1>3, <1>4, <1>5, <1>6, <1>7, <1>8 DEF OnSession

LEMMA TeamStep ==
  ASSUME ShapeInv, NamesAreBorn, LocksAreHeld, StatusOfWork, TeamIsCurrent, [Next]_vars
  PROVE  TeamIsCurrent'
<1>0. CASE Reassigning
  BY <1>0, ReassigningKeeps, ReassigningKeepsTeam DEF TeamIsCurrent, RowExists
<1> USE DEF TeamIsCurrent, RowExists
<1>1. CASE UNCHANGED vars
  BY <1>1 DEF vars, rowVars, histVars
<1>2. CASE Arrivals
  <2>1. PICK s \in Sessions : /\ w' = w /\ misled' = misled
                              /\ status[s] = "unborn"
                              /\ \A r \in Sessions \ {s} : status'[r] = status[r] /\ team'[r] = team[r]
    BY <1>2 DEF Arrivals, Upload, Import, histVars, ShapeInv, TypeOK
  <2>2. w.pc \in Working => w.sid \in Sessions \ {s}
    BY <2>1 DEF NamesAreBorn, Working, ShapeInv, WorkerShape
  <2>3. QED
    BY <2>1, <2>2
<1>3. CASE Requests
  BY <1>3, RequestsKeep DEF rowVars, histVars
<1>4. ASSUME NEW h \in Handlers, Act(h) PROVE TeamIsCurrent'
  <2>1. /\ w' = w
        /\ \A r \in Sessions : \/ status'[r] = status[r]
                               \/ RowExists(r) /\ status'[r] = "gone"
    BY <1>4, ActsOnStatus, ActsOnRequest
  <2>2. w.pc \in Working => w.sid \in Sessions
    BY DEF ShapeInv, WorkerShape, Working
  <2>3. w.pc \in Working /\ RowExists(w.sid)' => RowExists(w.sid)
    BY <2>1, <2>2 DEF ValidStatuses
  <2>4. ~misled' => ~misled
    BY <1>4 DEF Act, SyncNowAct, TaskAct, LabelFetch, LabelLock, LabelApply, LabelApplyFails,
       LabelFinish, MoveFetch, MoveLock, MoveUpdate, MovePublish, ShareAct, DeleteRow, DeleteFiles,
       histVars
  <2>5. CASE MoveUpdate(h)
    BY <2>1, <2>3, <2>4, <2>5, MoveKeepsTeam
  <2>6. CASE team' = team
    BY <2>1, <2>3, <2>4, <2>6
  <2>7. QED
    BY <1>4, <2>5, <2>6 DEF Act, SyncNowAct, TaskAct, LabelFetch, LabelLock, LabelApply,
       LabelApplyFails, LabelFinish, MoveFetch, MoveLock, MovePublish, ShareAct, DeleteRow,
       DeleteFiles, rowVars
<1>5. CASE Polling \/ RequeueOrphans
  <2>1. w'.pc \notin Working
    <3>1. CASE TakeTask
      BY <3>1 DEF TakeTask, IdleAt, Working
    <3>2. CASE Boot \/ TasksDrained \/ NothingToClaim \/ Crash \/ RequeueOrphans
      BY <3>2 DEF Boot, TasksDrained, NothingToClaim, Crash, RequeueOrphans, IdleAt, Working
    <3>3. QED
      BY <1>5, <3>1, <3>2 DEF Polling
  <2>2. QED
    BY <2>1
<1>6. ASSUME NEW s \in Sessions, Claim(s) PROVE TeamIsCurrent'
  BY <1>6 DEF Claim, IdleAt
<1>7. CASE OnSession
  <2>1. CASE w'.pc \in Working
    <3>1. /\ w'.sid = w.sid
          /\ \/ w.pc \in Working /\ w'.team = w.team /\ misled' = misled
             \/ w'.team = team[w.sid]
      BY <1>7, <2>1, OnSessionTeam
    <3>2. team' = team /\ w.sid \in Sessions
      BY <1>7, OnSessionKeeps DEF ShapeInv, WorkerShape
    <3>3. status'[w.sid] \in ValidStatuses => RowExists(w.sid)
      BY <1>7, <3>2, RowsAreNotReborn
    <3>4. QED
      BY <3>1, <3>2, <3>3
  <2>2. QED
    BY <2>1
<1>8. QED
  BY <1>0, <1>1, <1>2, <1>3, <1>4, <1>5, <1>6, <1>7, NextIs

-----------------------------------------------------------------------------
(* Label requests.                                                         *)

LEMMA LabelsAccepted ==
  ASSUME Requests
  PROVE  \E h, r : /\ h \in Handlers /\ Accept(h, r)
                   /\ r.op = "label" => status[r.sid] \in LabelAdmits
<1>1. PICK h \in Handlers, s \in Sessions :
        \/ \E op \in {"sync", "retry_summary", "share", "delete"} : Accept(h, Request(op, s))
        \/ \E publish : Accept(h, [Request("auto_label", s) EXCEPT !.publish = publish])
        \/ \E m : /\ Accept(h, [Request("label", s) EXCEPT !.src = team[s], !.map = m])
                  /\ status[s] \in LabelAdmits
        \/ \E dest, p : Accept(h, [Request("move", s) EXCEPT
                                     !.src = team[s], !.dest = dest, !.publish = p])
  BY DEF Requests, SyncNowCheck, RetryCheck, AutoLabelCheck, LabelCheck, MoveCheck,
     ShareCheck, DeleteCheck
<1> USE DEF Request, NoRequest
<1>2. CASE \E op \in {"sync", "retry_summary", "share", "delete"} : Accept(h, Request(op, s))
  <2>1. PICK op \in {"sync", "retry_summary", "share", "delete"} : Accept(h, Request(op, s))
    BY <1>2
  <2>2. Request(op, s).op # "label"
    OBVIOUS
  <2>3. QED
    BY <2>1, <2>2
<1>3. CASE \E publish : Accept(h, [Request("auto_label", s) EXCEPT !.publish = publish])
  <2>1. PICK publish : Accept(h, [Request("auto_label", s) EXCEPT !.publish = publish])
    BY <1>3
  <2>2. [Request("auto_label", s) EXCEPT !.publish = publish].op # "label"
    OBVIOUS
  <2>3. QED
    BY <2>1, <2>2
<1>4. CASE \E m : /\ Accept(h, [Request("label", s) EXCEPT !.src = team[s], !.map = m])
                  /\ status[s] \in LabelAdmits
  <2>1. PICK m : /\ Accept(h, [Request("label", s) EXCEPT !.src = team[s], !.map = m])
                 /\ status[s] \in LabelAdmits
    BY <1>4
  <2>2. [Request("label", s) EXCEPT !.src = team[s], !.map = m].sid = s
    OBVIOUS
  <2>3. QED
    BY <2>1, <2>2
<1>5. CASE \E dest, p : Accept(h, [Request("move", s) EXCEPT
                                     !.src = team[s], !.dest = dest, !.publish = p])
  <2>1. PICK dest, p : Accept(h, [Request("move", s) EXCEPT
                                     !.src = team[s], !.dest = dest, !.publish = p])
    BY <1>5
  <2>2. [Request("move", s) EXCEPT !.src = team[s], !.dest = dest, !.publish = p].op # "label"
    OBVIOUS
  <2>3. QED
    BY <2>1, <2>2
<1>6. QED
  BY <1>1, <1>2, <1>3, <1>4, <1>5

\* Nothing but cleanup_home_shim is left to do in the finally.
LEMMA CleanupEnds ==
  ASSUME ShapeInv, OnSession, w.pc = "cleanup"
  PROVE  w'.pc \notin Working
<1>1. Cleanup
  BY DEF OnSession, Transcribing, TranscribeOk, TranscribeSummaryFailed, TranscribeFailed,
     LabelAndRoute, Push, DropAudio, Finish, Untrack, StartOnMissingRow, StartSync,
     StartFinalize, StartTask, LearnAndFinalize, StartRetry, SummaryDone, SummaryFailed,
     StartAutoLabel, AutoLabelAndRoute, Raise, RaiseInAutoLabel, AtPc
<1>2. QED
  BY <1>1 DEF Cleanup, IdleAt, Goto, Working, ShapeInv, TypeOK, WorkerStates

LEMMA LabelsStep ==
  ASSUME ShapeInv, NamesAreBorn, StatusOfWork, LabelsAreSettled, [Next]_vars
  PROVE  LabelsAreSettled'
<1> DEFINE Labels(h) == req[h].op = "label" /\ req[h].at # "idle"
<1> USE DEF LabelsAreSettled
<1>0. CASE Reassigning
  BY <1>0, ReassigningKeeps
<1>1. CASE UNCHANGED vars
  BY <1>1 DEF vars, rowVars
<1>2. CASE Arrivals
  <2>1. /\ w' = w /\ req' = req
        /\ \A r \in Sessions : \/ status'[r] = status[r]
                               \/ status[r] = "unborn" /\ status'[r] \in {"queued", "imported"}
    BY <1>2, ArrivalsOnStatus DEF Arrivals, Upload, Import
  <2>2. \A h \in Handlers : Labels(h) => status'[req[h].sid] = status[req[h].sid]
    BY <2>1 DEF NamesAreBorn, ShapeInv, RequestShape
  <2>3. QED
    BY <2>1, <2>2
<1>3. CASE Requests
  <2>1. PICK h, r : /\ h \in Handlers /\ Accept(h, r)
                    /\ r.op = "label" => status[r.sid] \in LabelAdmits
    BY <1>3, LabelsAccepted
  <2>2. \A g \in Handlers : req'[g] = IF g = h THEN r ELSE req[g]
    BY <2>1 DEF Accept, ShapeInv, TypeOK
  <2>3. w' = w /\ status' = status /\ RowExists(r.sid)
    BY <2>1 DEF Accept, rowVars
  <2>4. w.kind = "process" /\ w.pc \in Working => status[w.sid] \in {"transcribing", "syncing", "gone"}
    BY DEF StatusOfWork, ShapeInv, WorkerShape, Working, Kinds
  <2>5. r.op = "label" => /\ status[r.sid] \notin {"queued", "transcribing"} \cup Busy
                          /\ w.kind = "process" /\ w.pc \in Working => w.sid # r.sid
    BY <2>1, <2>3, <2>4 DEF LabelAdmits, Busy
  <2>6. QED
    BY <2>2, <2>3, <2>5
<1>4. ASSUME NEW h \in Handlers, Act(h) PROVE LabelsAreSettled'
  <2>1. /\ w' = w
        /\ \A r \in Sessions : \/ status'[r] = status[r]
                               \/ RowExists(r) /\ status'[r] = "gone"
    BY <1>4, ActsOnStatus, ActsOnRequest
  <2>2. \A g \in Handlers : req'[g].at # "idle" =>
          req[g].at # "idle" /\ req'[g].sid = req[g].sid /\ req'[g].op = req[g].op
    <3>1. req[h].at # "idle"
      BY <1>4, ActsOnRequest
    <3>2. CASE Respond(h)
      BY <3>2 DEF Respond, NoRequest, ShapeInv, TypeOK
    <3>3. CASE \E at : req' = [req EXCEPT ![h].at = at]
      BY <3>1, <3>3 DEF ShapeInv, TypeOK, RequestStates
    <3>4. QED
      BY <1>4, <3>2, <3>3, ActsOnRequest
  <2>3. QED
    BY <2>1, <2>2 DEF ShapeInv, RequestShape, Busy
<1>5. CASE Crash
  BY <1>5 DEF Crash, NoRequest
<1>6. CASE Boot \/ TasksDrained \/ NothingToClaim \/ TakeTask
  <2>1. /\ status' = status /\ req' = req
        /\ w'.pc \notin Working
        /\ w'.pc \in {"down", "boot"} => w.pc \in {"down", "boot"}
    <3>1. CASE TakeTask
      BY <3>1 DEF TakeTask, IdleAt, AtPc, rowVars, Working
    <3>2. CASE Boot \/ TasksDrained \/ NothingToClaim
      BY <3>2 DEF Boot, TasksDrained, NothingToClaim, IdleAt, AtPc, rowVars, Working
    <3>3. QED
      BY <1>6, <3>1, <3>2
  <2>2. QED
    BY <2>1
<1>7. CASE RequeueOrphans
  <2>1. \A h \in Handlers : Labels(h) => req[h].sid \in Sessions
    BY DEF ShapeInv, RequestShape
  <2>2. QED
    BY <1>7, <2>1 DEF RequeueOrphans, AtPc, IdleAt, Orphanable, Busy, Working
<1>8. ASSUME NEW s \in Sessions, Claim(s) PROVE LabelsAreSettled'
  <2>1. /\ req' = req /\ status[s] = "queued" /\ w'.pc = "transcribe" /\ w'.sid = s
        /\ \A r \in Sessions : r # s => status'[r] = status[r]
    BY <1>8 DEF Claim, IdleAt, Queued, ShapeInv, TypeOK
  <2>2. QED
    BY <2>1 DEF ShapeInv, RequestShape
<1>9. CASE OnSession
  <2>1. /\ req' = req
        /\ w.pc \notin {"down", "boot", "drain", "claim"}
        /\ \/ w'.pc = "drain"
           \/ w'.sid = w.sid /\ w'.kind = w.kind
    BY <1>9, OnSessionKeeps
  <2>2. \A r \in Sessions : status'[r] \in {"queued", "transcribing"} => status'[r] = status[r]
    BY <1>9, WorkerWritesStatus, StatusAfter DEF WritesStatus, Outcomes, ShapeInv
  <2>3. w'.pc \notin {"down", "boot"}
    BY <1>9, OnSessionGoesOn
  <2>4. w'.kind = "process" /\ w'.pc \in Working =>
          w.kind = "process" /\ w.pc \in Working /\ w'.sid = w.sid
    <3>1. ASSUME w'.kind = "process", w'.pc \in Working
          PROVE  w.pc \notin {"lock", "cleanup", "untrack"}
      <4>1. w.kind = "process"
        BY <2>1, <3>1 DEF Working
      <4>2. w.pc \notin {"lock", "untrack"}
        BY <4>1 DEF ShapeInv, WorkerShape, Kinds
      <4>3. w.pc # "cleanup"
        BY <1>9, <3>1, CleanupEnds
      <4>4. QED
        BY <4>2, <4>3
    <3>2. w.pc \in WorkerPcs
      BY DEF ShapeInv, TypeOK, WorkerStates
    <3>3. QED
      BY <2>1, <3>1, <3>2 DEF Working, WorkerPcs
  <2>5. QED
    BY <2>1, <2>2, <2>3, <2>4 DEF ShapeInv, RequestShape
<1>10. QED
  BY <1>0, <1>1, <1>2, <1>3, <1>4, <1>5, <1>6, <1>7, <1>8, <1>9, NextIs DEF Polling

-----------------------------------------------------------------------------
(* The theorems.                                                           *)

\* Only a push changes a repository.
LEMMA RepoChanges ==
  ASSUME Next, repo' # repo
  PROVE  \E pushed, ok \in BOOLEAN : Push(pushed, ok)
<1>1. repo' # repo
  OBVIOUS
<1>0. ~Reassigning
  BY <1>1, ReassigningKeeps
<1>2. ~Arrivals
  BY <1>1 DEF Arrivals, Upload, Import, teamVars
<1>3. ~Requests
  BY <1>1, RequestsKeep DEF teamVars
<1>4. ~(\E h \in Handlers : Act(h))
  BY <1>1 DEF Act, SyncNowAct, TaskAct, LabelFetch, LabelLock, LabelApply, LabelApplyFails,
     LabelFinish, MoveFetch, MoveLock, MoveUpdate, MovePublish, ShareAct, DeleteRow,
     DeleteFiles, teamVars
<1>5. ~(Polling \/ RequeueOrphans \/ \E r \in Sessions : Claim(r))
  BY <1>1 DEF Polling, Boot, TasksDrained, NothingToClaim, TakeTask, Crash, RequeueOrphans,
     Claim, teamVars
<1>6. OnSession => \E pushed, ok \in BOOLEAN : Push(pushed, ok)
  BY <1>1 DEF OnSession, Transcribing, TranscribeOk, TranscribeSummaryFailed, TranscribeFailed,
     LabelAndRoute, DropAudio, Finish, Cleanup, Untrack, StartOnMissingRow, StartSync,
     StartFinalize, LearnAndFinalize, StartRetry, SummaryDone, SummaryFailed, StartAutoLabel,
     AutoLabelAndRoute, Raise, RaiseInAutoLabel, teamVars
<1>7. QED
  BY <1>0, <1>2, <1>3, <1>4, <1>5, <1>6, NextIs

LEMMA InitiallyInvariant ==
  ASSUME Init PROVE InductiveInvariant /\ BusyIsDriven /\ TeamIsCurrent
<1>1. ShapeInv
  BY InitShape
<1>2. w = IdleAt("down") /\ tasks = <<>> /\ \A h \in Handlers : req[h] = NoRequest
  BY DEF Init
<1>3. NamesAreBorn /\ LabelsAreSettled /\ StatusOfWork
  BY <1>2 DEF IdleAt, NoRequest, NamesAreBorn, Working, LabelsAreSettled, StatusOfWork, Kinds
<1>4. LocksAreHeld
  BY <1>2 DEF Init, IdleAt, NoRequest, LocksAreHeld, LockIsHeld, Waiting, Holding, Threads, Working
<1>5. TeamIsCurrent /\ BusyIsDriven
  BY <1>2 DEF IdleAt, TeamIsCurrent, Working, BusyIsDriven
<1>6. QED
  BY <1>1, <1>3, <1>4, <1>5 DEF InductiveInvariant, ShapeInv

LEMMA InvariantStep ==
  ASSUME InductiveInvariant, [Next]_vars
  PROVE  /\ InductiveInvariant'
         /\ NoAutoSyncFault /\ BusyIsDriven => BusyIsDriven'
         /\ TeamIsCurrent => TeamIsCurrent'
<1> USE DEF InductiveInvariant
<1>1. ShapeInv
  BY DEF ShapeInv
<1>2. ShapeInv'
  BY <1>1, ShapeStep
<1>3. QED
  BY <1>1, <1>2, NamesStep, LocksStep, LabelsStep, StatusStep, TeamStep DEF ShapeInv

\* The parts of the argument hold together, whatever the constants are.
THEOREM Invariance == Spec => []InductiveInvariant
<1>1. Init => InductiveInvariant
  BY InitiallyInvariant
<1>2. InductiveInvariant /\ [Next]_vars => InductiveInvariant'
  BY InvariantStep
<1>3. QED
  BY <1>1, <1>2, PTL DEF Spec

\* The worker never works for a team the session has left, for any number of sessions, teams,
\* request threads and locks, unless the session was moved under it: by the admin, by the
\* deletion of its team, or by a member whose lock process_one dropped while it was waited for.
THEOREM NeverAStaleTeam == Spec => []TeamIsCurrent
<1>1. Init => InductiveInvariant /\ TeamIsCurrent
  BY InitiallyInvariant
<1>2. InductiveInvariant /\ TeamIsCurrent /\ [Next]_vars => (InductiveInvariant /\ TeamIsCurrent)'
  BY InvariantStep
<1>3. QED
  BY <1>1, <1>2, PTL DEF Spec

LEMMA OneWriter ==
  ASSUME InductiveInvariant PROVE OneWriterPerSession
<1>1. SUFFICES ASSUME NEW s \in Sessions, NEW g \in Threads, NEW h \in Threads,
                      Inside(g, s), Inside(h, s), g # h, g \notin late, h \notin late
               PROVE  FALSE
  BY DEF OneWriterPerSession
<1>2. \A u \in Threads : Inside(u, s) =>
         /\ About(u) = s
         /\ \/ Holding(u)
            \/ u = "worker" /\ w.kind = "process" /\ w.pc \in Working /\ w.sid = s
  BY DEF Inside, OnIt, Acting, Holding, About, InductiveInvariant, WorkerShape, Working, Threads
<1>3. \A u \in Threads : u # "worker" /\ Inside(u, s) =>
         u \in Handlers /\ req[u].op = "label" /\ req[u].at # "idle" /\ req[u].sid = s
  BY DEF Inside, Acting, Threads
<1>4. Holding(g) /\ Holding(h)
  BY <1>1, <1>2, <1>3 DEF InductiveInvariant, LabelsAreSettled
<1>5. /\ registry[s] = mine[g] /\ lock[mine[g]] = g
      /\ registry[s] = mine[h] /\ lock[mine[h]] = h
  BY <1>1, <1>2, <1>4 DEF InductiveInvariant, LocksAreHeld, LockIsHeld
<1>6. QED
  BY <1>1, <1>5

\* A label request and the worker, or two label requests, have the artifacts of one session in
\* hand at once only if the lock of one of them was dropped while it was waited for.
THEOREM NeverTwoWriters == Spec => []OneWriterPerSession
<1>1. InductiveInvariant => OneWriterPerSession
  BY OneWriter
<1>2. QED
  BY <1>1, Invariance, PTL

\* Every push lands in the repository of the session's own team, unless the session was moved
\* under the worker in one of those ways.
THEOREM NeverToAForeignTeam == Spec => PushesToOwnTeam
<1> DEFINE Own == \A t \in Teams : \A s \in repo'[t] \ repo[t] :
                    RowExists(s) /\ ~misled => team[s] = t /\ t \in SyncTeams
<1>1. InductiveInvariant /\ TeamIsCurrent /\ [Next]_vars => [Own]_vars
  <2>1. SUFFICES ASSUME InductiveInvariant, TeamIsCurrent, Next, NEW t \in Teams, NEW s \in repo'[t] \ repo[t],
                        RowExists(s), ~misled
                 PROVE  team[s] = t /\ t \in SyncTeams
    OBVIOUS
  <2>2. PICK pushed, ok \in BOOLEAN : Push(pushed, ok)
    BY <2>1, RepoChanges
  <2>3. s = w.sid /\ t = w.team /\ t \in SyncTeams /\ w.pc = "push"
    BY <2>1, <2>2 DEF Push, AtPc, InductiveInvariant, TypeOK
  <2>4. QED
    BY <2>1, <2>3 DEF InductiveInvariant, TeamIsCurrent, Working
<1>2. QED
  BY <1>1, Invariance, NeverAStaleTeam, PTL DEF Spec, PushesToOwnTeam

\* As long as no exception hits a sync that auto-label has started, a session
\* shown as busy is the one the worker is on.
THEOREM NeverStuckBusy ==
  ASSUME NoAutoSyncFault PROVE Spec => []BusyIsDriven
<1>1. Init => InductiveInvariant /\ BusyIsDriven
  BY InitiallyInvariant
<1>2. InductiveInvariant /\ BusyIsDriven /\ [Next]_vars => (InductiveInvariant /\ BusyIsDriven)'
  BY InvariantStep
<1>3. QED
  BY <1>1, <1>2, PTL DEF Spec

-----------------------------------------------------------------------------
(* JobPipeline implements JobLifecycle.                                    *)

Published == UNION {repo[t] : t \in Teams}

-----------------------------------------------------------------------------
(* What the worker writes at each program point.                           *)

Writes ==
  \/ w.pc = "transcribe" /\ status' = SetStatus(w.sid, "error")
  \/ w.pc = "label" /\ \E st \in {"empty", "needs_labeling", "syncing", "error"} :
                          status' = SetStatus(w.sid, st)
  \/ w.pc = "summarize" /\ \E st \in {"syncing", "done", "error"} :
                              status' = SetStatus(w.sid, st)
  \/ w.pc \in {"push", "audio", "finish"} /\ status' = SetStatus(w.sid, "error")
  \/ w.pc = "finish" /\ status' = SetStatus(w.sid, "done")
  \/ w.pc = "finish" /\ w.err /\ status' = SetStatus(w.sid, "sync_failed")
  \/ w.pc \in {"lock", "apply", "autolabel"}
       /\ \E st \in {"summarizing", "syncing", "needs_labeling", "done"} :
             status' = SetStatus(w.sid, st)

LEMMA WorkerWrites ==
  ASSUME ShapeInv, OnSession PROVE UNCHANGED status \/ Writes
<1> USE DEF Writes, AtPc, Goto, rowVars
<1>0. CASE Transcribing
  BY <1>0 DEF Transcribing, TranscribeOk, TranscribeSummaryFailed, TranscribeFailed
<1>1. CASE \/ DropAudio \/ Cleanup \/ Untrack \/ StartOnMissingRow
           \/ StartFinalize \/ StartAutoLabel \/ RaiseInAutoLabel
           \/ \E pushed, ok \in BOOLEAN : Push(pushed, ok)
  BY <1>1 DEF DropAudio, Cleanup, Untrack,
     StartOnMissingRow, StartFinalize, StartAutoLabel, RaiseInAutoLabel, Push
<1>2. CASE SummaryFailed \/ Raise
  BY <1>2 DEF SummaryFailed, Raise
<1>3. CASE Finish
  BY <1>3 DEF Finish, FinalStatus
<1>4. CASE \E tr \in {"none", "empty", "raw", "named"} : LabelAndRoute(tr)
  BY <1>4 DEF LabelAndRoute, SyncOrSkip
<1>5. CASE StartSync \/ LearnAndFinalize
  <2>1. w.pc \in {"lock", "apply"}
    BY <1>5 DEF StartSync, StartTask, LearnAndFinalize
  <2>2. \/ UNCHANGED status
        \/ \E gate : SyncOrSkip(gate, Reading(w.sid), "audio")
    BY <1>5 DEF StartSync, LearnAndFinalize
  <2>3. Reading(w.sid).sid = w.sid
    BY DEF Reading, ShapeInv, TypeOK, WorkerStates
  <2>4. QED
    BY <2>1, <2>2, <2>3 DEF SyncOrSkip
<1>6. CASE StartRetry
  BY <1>6 DEF StartRetry, StartTask
<1>7. CASE SummaryDone
  BY <1>7 DEF SummaryDone, SyncOrSkip
<1>8. CASE \E tr \in {"none", "empty", "raw", "named"} : AutoLabelAndRoute(tr)
  BY <1>8 DEF AutoLabelAndRoute, SyncOrSkip
<1>9. QED
  BY SMTT(40), <1>0, <1>1, <1>2, <1>3, <1>4, <1>5, <1>6, <1>7, <1>8 DEF OnSession

-----------------------------------------------------------------------------
(* Steps map to steps.                                                     *)

LEMMA Become ==
  ASSUME TypeOK, NEW s \in Sessions, NEW st, status' = SetStatus(s, st), Published' = Published
  PROVE  status' # status => RowExists(s) /\ Lifecycle!Become(s, st)
BY DEF TypeOK, SetStatus, Lifecycle!Become, Published

\* A status the worker writes is one the life cycle allows at that point.
LEMMA WriteMaps ==
  ASSUME InductiveInvariant, BusyIsDriven, Writes, Published' = Published,
         w.pc \notin {"down", "boot", "drain", "claim"}
  PROVE  UNCHANGED status \/ Lifecycle!Next
<1> DEFINE s == w.sid
<1>1. /\ s \in Sessions /\ TypeOK /\ StatusOfWork
      /\ status[s] \in Statuses /\ status[s] # "unborn"
  BY DEF InductiveInvariant, WorkerShape, NamesAreBorn, TypeOK
<1>2. SUFFICES ASSUME status' # status PROVE Lifecycle!Next
  OBVIOUS
<1>3. PICK st \in Outcomes : status' = SetStatus(s, st)
  BY DEF Writes, Outcomes
<1>4. RowExists(s) /\ Lifecycle!Become(s, st)
  BY <1>1, <1>2, <1>3, Become
<1>5. \A r \in Sessions : status[r] \in Busy => r = s /\ w.pc \in Working \ {"apply", "autolabel"}
  BY <1>1 DEF BusyIsDriven
<1>6. \A x : SetStatus(s, x)[s] = x
  BY <1>1, <1>4 DEF SetStatus, TypeOK
<1>7. \/ w.pc = "transcribe" /\ st = "error"
      \/ w.pc = "label" /\ st \in {"empty", "needs_labeling", "syncing", "error"}
      \/ w.pc = "summarize" /\ st \in {"syncing", "done", "error"}
      \/ w.pc \in {"push", "audio", "finish"} /\ st = "error"
      \/ w.pc = "finish" /\ st = "done"
      \/ w.pc = "finish" /\ w.err /\ st = "sync_failed"
      \/ w.pc \in {"lock", "apply", "autolabel"}
           /\ st \in {"summarizing", "syncing", "needs_labeling", "done"}
  BY <1>3, <1>6 DEF Writes
<1>8. CASE status[s] \in Busy
  <2>1. st \in Lifecycle!After[status[s]]
    BY <1>1, <1>4, <1>5, <1>7, <1>8
       DEF StatusOfWork, RowExists, ValidStatuses, Busy, Working, Lifecycle!After
  <2>2. Lifecycle!Proceed(s)
    BY <1>4, <1>8, <2>1 DEF Lifecycle!Proceed, Lifecycle!Busy, Busy
  <2>3. QED
    BY <1>1, <2>2 DEF Lifecycle!Next
<1>9. CASE status[s] \notin Busy
  <2>1. status[s] \in ValidStatuses \ Busy
    BY <1>4, <1>9 DEF RowExists
  <2>2. st \in {"summarizing", "syncing", "needs_labeling", "done", "error"}
    BY <1>1, <1>7, <2>1 DEF StatusOfWork, ValidStatuses, Busy
  <2>3. Lifecycle!Idle
    BY <1>5, <1>9 DEF Lifecycle!Idle, Lifecycle!Busy, Busy
  <2>4. status[s] \in Lifecycle!Settled \cup {"queued"}
    BY <2>1 DEF ValidStatuses, Busy, Lifecycle!Settled
  <2>5. Lifecycle!FollowUp(s)
    BY <1>4, <2>2, <2>3, <2>4 DEF Lifecycle!FollowUp
  <2>6. QED
    BY <1>1, <2>5 DEF Lifecycle!Next
<1>10. QED
  BY <1>8, <1>9

\* A push is a publication while syncing, or nothing.
LEMMA PushMaps ==
  ASSUME InductiveInvariant, NEW pushed \in BOOLEAN, NEW ok \in BOOLEAN, Push(pushed, ok)
  PROVE  Lifecycle!Next \/ UNCHANGED <<status, Published>>
<1>1. /\ w.pc = "push" /\ w.sid \in Sessions
      /\ status' = status
      /\ status[w.sid] \in {"syncing", "gone"}
  BY DEF Push, AtPc, rowVars, InductiveInvariant, WorkerShape, StatusOfWork
<1>2. CASE ~pushed
  BY <1>1, <1>2 DEF Push, Published
<1>3. CASE pushed
  <2>1. w.team \in Teams /\ repo' = [repo EXCEPT ![w.team] = @ \cup {w.sid}]
    BY <1>3, TeamsAssumption DEF Push
  <2>2. \A t \in Teams : repo'[t] = IF t = w.team THEN repo[t] \cup {w.sid} ELSE repo[t]
    BY <2>1 DEF InductiveInvariant, TypeOK
  <2>3. Published' = Published \cup {w.sid}
    BY <2>1, <2>2 DEF Published
  <2>4. PICK s \in Sessions : s = w.sid
    BY <1>1
  <2>5. Lifecycle!Publish(s)
    BY <1>1, <2>3, <2>4 DEF Lifecycle!Publish, Published
  <2>6. QED
    BY <2>5 DEF Lifecycle!Next
<1>4. QED
  BY <1>2, <1>3

LEMMA StepMaps ==
  ASSUME InductiveInvariant, BusyIsDriven, Next
  PROVE  Lifecycle!Next \/ UNCHANGED <<status, Published>>
<1>1. ShapeInv /\ TypeOK
  BY DEF InductiveInvariant, ShapeInv
<1>2. CASE \E pushed, ok \in BOOLEAN : Push(pushed, ok)
  BY <1>2, PushMaps
<1>3. CASE ~(\E pushed, ok \in BOOLEAN : Push(pushed, ok))
  <2>1. Published' = Published
    BY <1>1, <1>3, RepoChanges DEF Published
  <2>2. CASE Arrivals
    <3>1. PICK s \in Sessions, st \in {"queued", "imported"} :
            status[s] = "unborn" /\ status' = [status EXCEPT ![s] = st]
      BY <2>2 DEF Arrivals, Upload, Import
    <3>2. Lifecycle!Arrive(s)
      BY <2>1, <3>1 DEF Lifecycle!Arrive, Lifecycle!Become, Published
    <3>3. QED
      BY <3>2 DEF Lifecycle!Next
  <2>3. CASE Requests
    BY <2>1, <2>3, RequestsKeep DEF rowVars
  <2>4. ASSUME NEW h \in Handlers, Act(h)
        PROVE  Lifecycle!Next \/ UNCHANGED <<status, Published>>
    <3>1. CASE DeleteRow(h) /\ RowExists(req[h].sid)
      <4>1. status' = [status EXCEPT ![req[h].sid] = "gone"] /\ req[h].sid \in Sessions
        BY <3>1 DEF DeleteRow, Acting, InductiveInvariant, RequestShape
      <4>2. Lifecycle!Remove(req[h].sid)
        BY <2>1, <3>1, <4>1 DEF Lifecycle!Remove, Lifecycle!Become, Lifecycle!Existing,
           Lifecycle!Busy, Lifecycle!Settled, RowExists, ValidStatuses, Published
      <4>3. QED
        BY <4>1, <4>2 DEF Lifecycle!Next
    <3>2. CASE ~(DeleteRow(h) /\ RowExists(req[h].sid))
      BY <2>1, <2>4, <3>2 DEF Act, SyncNowAct, TaskAct, LabelFetch, LabelLock, LabelApply,
         LabelApplyFails, LabelFinish, MoveFetch, MoveLock, MoveUpdate, MovePublish, ShareAct,
         DeleteRow, DeleteFiles, rowVars
    <3>3. QED
      BY <3>1, <3>2
  <2>0. CASE Reassigning
    BY <2>0, <2>1, ReassigningKeeps
  <2>5. CASE Polling
    BY <2>1, <2>5 DEF Polling, Boot, TasksDrained, NothingToClaim, TakeTask, Crash, rowVars
  <2>6. CASE RequeueOrphans
    <3>1. Lifecycle!Recover
      BY <2>1, <2>6 DEF RequeueOrphans, Orphanable, Lifecycle!Recover, Lifecycle!Busy, Published
    <3>2. QED
      BY <3>1 DEF Lifecycle!Next
  <2>7. ASSUME NEW s \in Sessions, Claim(s) PROVE Lifecycle!Next
    <3>1. /\ w.pc = "claim" /\ status[s] = "queued"
          /\ status' = [status EXCEPT ![s] = "transcribing"]
      BY <2>7 DEF Claim, AtPc, Queued
    <3>2. Lifecycle!Idle
      BY <3>1 DEF BusyIsDriven, Working, Lifecycle!Idle, Lifecycle!Busy, Busy
    <3>3. Lifecycle!Begin(s)
      BY <2>1, <3>1, <3>2 DEF Lifecycle!Begin, Lifecycle!Become, Published
    <3>4. QED
      BY <3>3 DEF Lifecycle!Next
  <2>8. CASE OnSession
    <3>1. w.pc \notin {"down", "boot", "drain", "claim"}
      BY <1>1, <2>8, OnSessionKeeps
    <3>2. CASE Writes
      BY <2>1, <3>1, <3>2, WriteMaps
    <3>3. QED
      BY <1>1, <2>1, <2>8, <3>2, WorkerWrites
  <2>9. QED
    BY <2>0, <2>2, <2>3, <2>4, <2>5, <2>6, <2>7, <2>8, NextIs
<1>4. QED
  BY <1>2, <1>3

\* Threads, queue, locks, crashes and exceptions included, the pipeline does
\* to its sessions only what the life cycle allows, as long as no exception
\* hits a sync that auto-label has started.
THEOREM PipelineImplementsLifecycle ==
  ASSUME NoAutoSyncFault PROVE Spec => ImplementsLifecycle
<1>1. Init => Lifecycle!Init
  BY DEF Init, Lifecycle!Init
<1>2. InductiveInvariant /\ BusyIsDriven /\ [Next]_vars => [Lifecycle!Next]_(Lifecycle!vars)
  <2>1. SUFFICES ASSUME InductiveInvariant, BusyIsDriven, [Next]_vars
                 PROVE  Lifecycle!Next \/ UNCHANGED <<status, Published>>
    BY DEF Lifecycle!vars, Published
  <2>2. CASE UNCHANGED vars
    BY <2>2 DEF vars, rowVars, teamVars, Published
  <2>3. QED
    BY <2>1, <2>2, StepMaps
<1>3. QED
  BY <1>1, <1>2, Invariance, NeverStuckBusy, PTL DEF Spec, ImplementsLifecycle, Lifecycle!Spec

-----------------------------------------------------------------------------
(* A session is pushed on request.                                         *)

\* The worker takes a sync flag from the row of its own session, and pushes
\* with the flag on.
LEMMA OnSessionSync ==
  ASSUME ShapeInv, OnSession
  PROVE  /\ UNCHANGED <<syncOn, asked>>
         /\ w'.sync => w'.sid = w.sid /\ (w.sync \/ syncOn[w.sid])
         /\ w'.pc = "push" => w'.sync
<1>1. w \in WorkerStates /\ syncOn \in [Sessions -> BOOLEAN]
  BY DEF ShapeInv, TypeOK
<1>2. UNCHANGED <<syncOn, asked>>
  BY DEF OnSession, Transcribing, TranscribeOk, TranscribeSummaryFailed, TranscribeFailed,
     LabelAndRoute, Push, DropAudio, Finish, Cleanup, Untrack, StartOnMissingRow, StartSync,
     StartFinalize, LearnAndFinalize, StartRetry, SummaryDone, SummaryFailed, StartAutoLabel,
     AutoLabelAndRoute, Raise, RaiseInAutoLabel, rowVars, teamVars, lockVars, histVars
<1>3. \A pc : w' = [w EXCEPT !.pc = pc] => w'.pc = pc /\ w'.sid = w.sid /\ w'.sync = w.sync
  BY <1>1 DEF WorkerStates
<1>4. \A pc : w' = [Reading(w.sid) EXCEPT !.pc = pc] =>
        w'.pc = pc /\ w'.sid = w.sid /\ w'.sync = syncOn[w.sid]
  BY <1>1 DEF WorkerStates, Reading
<1> USE DEF Goto, AtPc
<1>5. CASE \/ Transcribing \/ DropAudio \/ Finish
           \/ StartOnMissingRow \/ SummaryFailed \/ Raise \/ RaiseInAutoLabel
  <2>1. \E pc \in {"label", "cleanup", "finish"} : w' = [w EXCEPT !.pc = pc]
    BY <1>5 DEF Transcribing, TranscribeOk, TranscribeSummaryFailed, TranscribeFailed,
       DropAudio, Finish, StartOnMissingRow, SummaryFailed, Raise, RaiseInAutoLabel
  <2>2. QED
    BY <1>2, <1>3, <2>1
<1>6. CASE Cleanup \/ Untrack
  <2>1. w' = IdleAt("drain") \/ w' = [w EXCEPT !.pc = "untrack"]
    BY <1>6 DEF Cleanup, Untrack
  <2>2. QED
    BY <1>2, <1>3, <2>1 DEF IdleAt
<1>7. CASE \E pushed, ok \in BOOLEAN : Push(pushed, ok)
  <2>1. w'.sid = w.sid /\ w'.sync = w.sync /\ w'.pc \in {"audio", "finish"}
    BY <1>1, <1>7 DEF Push, WorkerStates
  <2>2. QED
    BY <1>2, <2>1
<1>8. CASE \/ \E tr \in {"none", "empty", "raw", "named"} : LabelAndRoute(tr)
           \/ \E tr \in {"none", "empty", "raw", "named"} : AutoLabelAndRoute(tr)
           \/ SummaryDone
  <2>1. \/ \E pc \in {"cleanup", "audio", "finish"} : w' = [w EXCEPT !.pc = pc]
        \/ w' = [w EXCEPT !.pc = "push"] /\ w.sync
    BY <1>8 DEF LabelAndRoute, AutoLabelAndRoute, SummaryDone, SyncOrSkip, SyncGate, AutoSyncGate
  <2>2. QED
    BY <1>2, <1>3, <2>1
<1>9. CASE StartSync \/ LearnAndFinalize \/ StartFinalize \/ StartRetry \/ StartAutoLabel
  <2>1. Reading(w.sid).sync = syncOn[w.sid]
    BY <1>1 DEF Reading, WorkerStates
  <2>2. \/ w' = [w EXCEPT !.pc = "cleanup"]
        \/ \E pc \in {"audio", "apply", "summarize", "cleanup", "autolabel"} :
              w' = [Reading(w.sid) EXCEPT !.pc = pc]
        \/ w' = [Reading(w.sid) EXCEPT !.pc = "push"] /\ syncOn[w.sid]
    BY <1>9, <2>1 DEF StartSync, LearnAndFinalize, StartFinalize, StartRetry, StartAutoLabel,
       SyncOrSkip, SyncGate
  <2>3. QED
    BY <1>2, <1>3, <1>4, <2>2
<1>10. QED
  BY <1>5, <1>6, <1>7, <1>8, <1>9 DEF OnSession

\* A request that turns a row's sync flag on is the one that asks.
LEMMA ActsOnSync ==
  ASSUME ShapeInv, NEW h \in Handlers, Act(h)
  PROVE  /\ asked \subseteq asked' /\ repo' = repo
         /\ \A s \in Sessions : syncOn'[s] => syncOn[s] \/ s \in asked'
<1>1. CASE SyncNowAct(h)
  BY <1>1 DEF SyncNowAct, teamVars, ShapeInv, TypeOK
<1>2. CASE MovePublish(h)
  BY <1>2 DEF MovePublish, teamVars, ShapeInv, TypeOK
<1>3. CASE ~SyncNowAct(h) /\ ~MovePublish(h)
  BY <1>3 DEF Act, TaskAct, LabelFetch, LabelLock, LabelApply, LabelApplyFails, LabelFinish,
     MoveFetch, MoveLock, MoveUpdate, ShareAct, DeleteRow, DeleteFiles, rowVars, teamVars,
     lockVars, histVars
<1>4. QED
  BY <1>1, <1>2, <1>3

LEMMA SyncStep ==
  ASSUME ShapeInv, SyncIsAsked, PushedOnRequest, [Next]_vars
  PROVE  SyncIsAsked' /\ PushedOnRequest'
<1> USE DEF SyncIsAsked, PushedOnRequest
<1>1. CASE UNCHANGED vars
  BY <1>1 DEF vars, rowVars, teamVars, lockVars, histVars
<1>2. CASE Arrivals
  <2>1. w' = w /\ repo' = repo /\ asked \subseteq asked'
    BY <1>2 DEF Arrivals, Upload, Import, teamVars, lockVars, histVars
  <2>2. \A s \in Sessions : syncOn'[s] => syncOn[s] \/ s \in asked'
    BY <1>2 DEF Arrivals, Upload, Import, SyncAtUpload, ShapeInv, TypeOK
  <2>3. QED
    BY <2>1, <2>2
<1>3. CASE Requests
  BY <1>3, RequestsKeep DEF rowVars, teamVars, lockVars, histVars
<1>4. ASSUME NEW h \in Handlers, Act(h) PROVE SyncIsAsked' /\ PushedOnRequest'
  BY <1>4, ActsOnSync, ActsOnRequest
<1>5. CASE Reassigning
  BY <1>5 DEF Reassigning, AdminMove, DeleteTeam, rowVars, teamVars, histVars
<1>6. CASE Polling \/ RequeueOrphans \/ \E s \in Sessions : Claim(s)
  <2>1. UNCHANGED <<syncOn, asked, repo>>
    BY <1>6 DEF Polling, Boot, TasksDrained, NothingToClaim, TakeTask, Crash, RequeueOrphans,
       Claim, rowVars, teamVars, lockVars, histVars
  <2>2. CASE \E s \in Sessions : Claim(s)
    <3>1. PICK s \in Sessions : Claim(s)
      BY <2>2
    <3>2. w'.sid = s /\ w'.sync = syncOn[s] /\ w'.pc = "transcribe"
      BY <3>1 DEF Claim, IdleAt
    <3>3. QED
      BY <2>1, <3>2
  <2>3. CASE Polling \/ RequeueOrphans
    <3>1. w'.sync = FALSE /\ w'.pc # "push"
      <4>1. CASE TakeTask
        BY <4>1 DEF TakeTask, IdleAt
      <4>2. CASE ~TakeTask
        BY <2>3, <4>2 DEF Polling, Boot, TasksDrained, NothingToClaim, Crash, RequeueOrphans,
           IdleAt
      <4>3. QED
        BY <4>1, <4>2
    <3>2. QED
      BY <2>1, <3>1
  <2>4. QED
    BY <1>6, <2>2, <2>3
<1>7. CASE OnSession
  <2>1. w.sid \in Sessions
    BY <1>7, OnSessionKeeps DEF ShapeInv, WorkerShape
  <2>2. SyncIsAsked'
    BY <1>7, <2>1, OnSessionSync
  <2>3. PushedOnRequest'
    <3>1. CASE \E pushed, ok \in BOOLEAN : Push(pushed, ok)
      BY <3>1 DEF Push, AtPc, teamVars, lockVars, histVars, ShapeInv, TypeOK
    <3>2. CASE repo' = repo
      BY <1>7, <3>2, OnSessionSync
    <3>3. CASE repo' # repo
      <4>1. Next
        BY <1>7 DEF OnSession, Transcribing, Next, Worker
      <4>2. QED
        BY <3>1, <3>3, <4>1, RepoChanges
    <3>4. QED
      BY <3>2, <3>3
  <2>4. QED
    BY <2>2, <2>3
<1>8. QED
  BY <1>1, <1>2, <1>3, <1>4, <1>5, <1>6, <1>7, NextIs

\* No repository ever holds a session nobody asked to sync, at the upload, by
\* "Sync now" or with a move, whatever the worker was doing when the request,
\* a crash or a restart came in between (worker's sync gates).
THEOREM NeverUnasked == Spec => []PushedOnRequest
<1>1. Init => ShapeInv /\ SyncIsAsked /\ PushedOnRequest
  BY InitShape DEF Init, IdleAt, SyncIsAsked, PushedOnRequest
<1>2. ShapeInv /\ SyncIsAsked /\ PushedOnRequest /\ [Next]_vars =>
        (ShapeInv /\ SyncIsAsked /\ PushedOnRequest)'
  BY ShapeStep, SyncStep
<1>3. QED
  BY <1>1, <1>2, PTL DEF Spec

-----------------------------------------------------------------------------
(* An unattended push has no unnamed speakers.                             *)

\* Whatever leads to a push by the server itself has just looked at the
\* transcript it pushes.
LEMMA OnSessionLabelled ==
  ASSUME ShapeInv, PushIsLabelled, OnSession,
         w'.pc = "push", w'.kind \in {"process", "auto_label"}
  PROVE  transcript'[w'.sid] = "raw" => w'.sid \in Clipping
<1>1. /\ w \in WorkerStates /\ w.sid \in Sessions
      /\ transcript \in [Sessions -> {"none", "empty", "raw", "named"}]
  BY OnSessionKeeps DEF ShapeInv, TypeOK, WorkerShape
<1>2. w'.sid = w.sid /\ w'.kind = w.kind
  BY OnSessionKeeps
<1>3. \/ \E tr \in {"none", "empty", "raw", "named"} : LabelAndRoute(tr)
      \/ \E tr \in {"none", "empty", "raw", "named"} : AutoLabelAndRoute(tr)
  <2>1. ~(\E pushed, ok \in BOOLEAN : Push(pushed, ok))
    BY <1>1 DEF Push, WorkerStates
  <2>2. \A pc : Goto(pc) => w'.pc = pc
    BY <1>1 DEF Goto, WorkerStates
  <2>3. \A pc : w' = [Reading(w.sid) EXCEPT !.pc = pc] => w'.pc = pc
    BY <1>1 DEF Reading, WorkerStates
  <2>4. /\ ~Transcribing /\ ~DropAudio
        /\ ~Finish /\ ~StartOnMissingRow /\ ~SummaryFailed /\ ~Raise /\ ~RaiseInAutoLabel
        /\ ~Cleanup /\ ~Untrack
    BY <2>2 DEF Transcribing, TranscribeOk, TranscribeSummaryFailed, TranscribeFailed,
       DropAudio, Finish, StartOnMissingRow, SummaryFailed, Raise, RaiseInAutoLabel, Cleanup,
       Untrack, IdleAt
  <2>5. ~StartFinalize /\ ~StartRetry /\ ~StartAutoLabel
    BY <2>3 DEF StartFinalize, StartRetry, StartAutoLabel
  <2>6. ~StartSync
    BY <1>2 DEF StartSync, StartTask
  <2>7. ~LearnAndFinalize /\ ~SummaryDone
    BY <1>2 DEF LearnAndFinalize, SummaryDone, AtPc, PushIsLabelled
  <2>8. QED
    BY <2>1, <2>4, <2>5, <2>6, <2>7 DEF OnSession
<1>4. PICK tr : /\ transcript' = [transcript EXCEPT ![w.sid] = tr]
                /\ \/ Goto("cleanup")
                   \/ ~NeedsHuman(w.sid, tr)
  BY <1>3 DEF LabelAndRoute, AutoLabelAndRoute
<1>5. ~Goto("cleanup")
  BY <1>1 DEF Goto, WorkerStates
<1>6. QED
  BY <1>1, <1>2, <1>4, <1>5 DEF NeedsHuman

LEMMA OnSessionKinds ==
  ASSUME ShapeInv, PushIsLabelled, OnSession
  PROVE  /\ w'.pc = "apply" => w'.kind = "finalize_labels"
         /\ w'.pc = "summarize" => w'.kind = "retry_summary"
<1>1. w \in WorkerStates /\ w.sid \in Sessions
  BY OnSessionKeeps DEF ShapeInv, TypeOK, WorkerShape
<1>2. CASE StartFinalize \/ StartRetry
  <2>1. /\ StartFinalize => w.kind = "finalize_labels" /\ w' = [Reading(w.sid) EXCEPT !.pc = "apply"]
        /\ StartRetry => w.kind = "retry_summary" /\ w' = [Reading(w.sid) EXCEPT !.pc = "summarize"]
    BY DEF StartFinalize, StartRetry, StartTask
  <2>2. \A pc : w' = [Reading(w.sid) EXCEPT !.pc = pc] => w'.pc = pc /\ w'.kind = w.kind
    BY <1>1 DEF Reading, WorkerStates
  <2>3. QED
    BY <1>2, <2>1, <2>2
<1>3. CASE ~StartFinalize /\ ~StartRetry
  <2>1. CASE \E pushed, ok \in BOOLEAN : Push(pushed, ok)
    BY <1>1, <2>1 DEF Push, WorkerStates
  <2>2. CASE Cleanup \/ Untrack
    BY <1>1, <2>2 DEF Cleanup, Untrack, IdleAt, Goto, WorkerStates
  <2>3. CASE ~Cleanup /\ ~Untrack /\ ~(\E pushed, ok \in BOOLEAN : Push(pushed, ok))
    <3>1. \E pc \in {"label", "cleanup", "finish", "audio", "push", "autolabel"} :
            w' = [w EXCEPT !.pc = pc] \/ w' = [Reading(w.sid) EXCEPT !.pc = pc]
      <4>1. CASE \/ Transcribing \/ DropAudio
                 \/ Finish \/ StartOnMissingRow \/ SummaryFailed \/ Raise \/ RaiseInAutoLabel
        BY <4>1 DEF Goto, Transcribing, TranscribeOk, TranscribeSummaryFailed,
           TranscribeFailed, DropAudio, Finish, StartOnMissingRow, SummaryFailed, Raise,
           RaiseInAutoLabel
      <4>2. CASE \/ \E tr \in {"none", "empty", "raw", "named"} : LabelAndRoute(tr)
                 \/ \E tr \in {"none", "empty", "raw", "named"} : AutoLabelAndRoute(tr)
                 \/ SummaryDone
        BY <4>2 DEF Goto, LabelAndRoute, AutoLabelAndRoute, SummaryDone, SyncOrSkip
      <4>3. CASE StartSync \/ LearnAndFinalize \/ StartAutoLabel
        BY <4>3 DEF Goto, StartSync, LearnAndFinalize, StartAutoLabel, SyncOrSkip
      <4>4. QED
        BY <1>3, <2>3, <4>1, <4>2, <4>3 DEF OnSession
    <3>2. \A pc : w' = [w EXCEPT !.pc = pc] \/ w' = [Reading(w.sid) EXCEPT !.pc = pc] =>
            w'.pc = pc
      BY <1>1 DEF Reading, WorkerStates
    <3>3. QED
      BY <3>1, <3>2
  <2>4. QED
    BY <2>1, <2>2, <2>3
<1>4. QED
  BY <1>2, <1>3

\* Another thread brings unnamed speakers back under the worker only if it misleads it.
LEMMA OthersOnTranscript ==
  ASSUME InductiveInvariant, Arrivals \/ \E h \in Handlers : Act(h),
         w.pc = "push", w.kind \in {"process", "auto_label"}, ~misled',
         transcript'[w.sid] = "raw"
  PROVE  transcript[w.sid] = "raw" /\ ~misled
<1>1. ShapeInv /\ w.sid \in Sessions /\ status[w.sid] # "unborn" /\ OnIt(w.sid)
  BY DEF InductiveInvariant, ShapeInv, WorkerShape, NamesAreBorn, OnIt, Working
<1>2. CASE Arrivals
  BY <1>1, <1>2 DEF Arrivals, Upload, Import, histVars, ShapeInv, TypeOK
<1>3. ASSUME NEW h \in Handlers, NEW tr, LabelApply(h, tr)
      PROVE  transcript[w.sid] = "raw" /\ ~misled
  <2>1. req[h].sid = w.sid => h \in late
    <3>1. Inside("worker", w.sid) /\ (req[h].sid = w.sid => Inside(h, w.sid))
      BY <1>1, <1>3, HandlersAssumption DEF Inside, LabelApply
    <3>2. "worker" \notin late /\ h # "worker" /\ h \in Threads /\ "worker" \in Threads
      BY HandlersAssumption DEF InductiveInvariant, LocksAreHeld, Threads
    <3>3. QED
      BY <1>1, <3>1, <3>2, OneWriter DEF OneWriterPerSession
  <2>2. req[h].sid # w.sid
    BY <1>1, <1>3, <2>1 DEF LabelApply
  <2>3. transcript' = [transcript EXCEPT ![req[h].sid] = tr] /\ (misled => misled')
    BY <1>3 DEF LabelApply
  <2>4. QED
    BY <1>1, <2>2, <2>3 DEF ShapeInv, TypeOK
<1>4. ASSUME NEW h \in Handlers, Act(h), ~(\E tr : LabelApply(h, tr))
      PROVE  transcript[w.sid] = "raw" /\ ~misled
  <2>1. misled => misled'
    BY <1>4 DEF Act, SyncNowAct, TaskAct, LabelFetch, LabelLock, LabelApplyFails, LabelFinish,
       MoveFetch, MoveLock, MoveUpdate, MovePublish, ShareAct, DeleteRow, DeleteFiles, histVars
  <2>2. transcript' = transcript \/ DeleteFiles(h)
    BY <1>4 DEF Act, SyncNowAct, TaskAct, LabelFetch, LabelLock, LabelApplyFails, LabelFinish,
       MoveFetch, MoveLock, MoveUpdate, MovePublish, ShareAct, DeleteRow, diskVars
  <2>3. QED
    BY <1>1, <2>1, <2>2 DEF DeleteFiles, ShapeInv, TypeOK
<1>5. QED
  BY <1>2, <1>3, <1>4

LEMMA LabelledStep ==
  ASSUME InductiveInvariant, PushIsLabelled, [Next]_vars PROVE PushIsLabelled'
<1> USE DEF PushIsLabelled
<1>0. ShapeInv
  BY DEF InductiveInvariant, ShapeInv
<1>1. CASE UNCHANGED vars
  BY <1>1 DEF vars, diskVars, histVars
<1>2. CASE Arrivals \/ \E h \in Handlers : Act(h)
  <2>1. w' = w
    BY <1>0, <1>2, ActsOnRequest DEF Arrivals, Upload, Import
  <2>2. QED
    BY <1>2, <2>1, OthersOnTranscript
<1>3. CASE Requests
  BY <1>3, RequestsKeep DEF diskVars, histVars
<1>4. CASE Reassigning
  BY <1>4 DEF Reassigning, AdminMove, DeleteTeam, diskVars
<1>5. CASE Polling \/ RequeueOrphans \/ \E s \in Sessions : Claim(s)
  <2>1. CASE TakeTask
    BY <2>1 DEF TakeTask, IdleAt
  <2>2. CASE \E s \in Sessions : Claim(s)
    BY <2>2 DEF Claim, IdleAt
  <2>3. CASE Boot \/ TasksDrained \/ NothingToClaim \/ Crash \/ RequeueOrphans
    BY <2>3 DEF Boot, TasksDrained, NothingToClaim, Crash, RequeueOrphans, IdleAt
  <2>4. QED
    BY <1>5, <2>1, <2>2, <2>3 DEF Polling
<1>6. CASE OnSession
  BY <1>0, <1>6, OnSessionKinds, OnSessionLabelled
<1>7. QED
  BY <1>0, <1>1, <1>2, <1>3, <1>4, <1>5, <1>6, NextIs

\* Left to itself the server pushes no transcript that still has unnamed
\* speakers, whatever a label request or a deletion does to the transcript
\* between the check and the push, unless a label request whose lock was dropped
\* takes a name back (worker._has_unresolved_speakers).
THEOREM NeverUnlabelled == Spec => UnattendedPushIsLabelled
<1> DEFINE Labelled == \A t \in Teams : \A s \in repo'[t] \ repo[t] :
                         w.kind \in {"process", "auto_label"} /\ transcript[s] = "raw" /\ ~misled
                           => s \in Clipping
<1>1. Init => PushIsLabelled
  BY DEF Init, IdleAt, PushIsLabelled
<1>2. InductiveInvariant /\ PushIsLabelled /\ [Next]_vars => PushIsLabelled'
  BY LabelledStep
<1>3. InductiveInvariant /\ PushIsLabelled /\ [Next]_vars => [Labelled]_vars
  <2>1. SUFFICES ASSUME InductiveInvariant, PushIsLabelled, Next,
                        NEW t \in Teams, NEW s \in repo'[t] \ repo[t],
                        w.kind \in {"process", "auto_label"}, transcript[s] = "raw", ~misled
                 PROVE  s \in Clipping
    OBVIOUS
  <2>2. PICK pushed \in BOOLEAN, ok \in BOOLEAN : Push(pushed, ok)
    BY <2>1, RepoChanges
  <2>3. s = w.sid /\ w.pc = "push"
    BY <2>1, <2>2 DEF Push, AtPc, InductiveInvariant, TypeOK
  <2>4. QED
    BY <2>1, <2>3 DEF PushIsLabelled
<1>4. QED
  BY <1>1, <1>2, <1>3, Invariance, PTL DEF Spec, UnattendedPushIsLabelled

-----------------------------------------------------------------------------
(* The keys of the follow-up tasks.                                        *)

LEMMA EnqueueTracks ==
  ASSUME ShapeInv, TasksAreTracked, UNCHANGED w,
         NEW k \in Kinds, NEW s \in Sessions, NEW m, NEW p, Enqueue(k, s, m, p)
  PROVE  TasksAreTracked'
<1> USE DEF TasksAreTracked
<1>1. CASE <<k, s>> \in active
  BY <1>1 DEF Enqueue, taskVars
<1>2. CASE <<k, s>> \notin active
  <2> DEFINE new == [kind |-> k, sid |-> s, map |-> m, publish |-> p]
  <2>1. tasks \in Seq(Task) /\ Len(tasks) \in Nat
    BY DEF ShapeInv, TypeOK
  <2>2. tasks' = Append(tasks, new) /\ active' = active \cup {<<k, s>>}
    BY <1>2 DEF Enqueue
  <2>3. Key(new) = <<k, s>>
    BY DEF Key
  <2> HIDE DEF new
  <2>4. /\ Len(tasks') = Len(tasks) + 1
        /\ \A i \in 1..Len(tasks) : tasks'[i] = tasks[i]
        /\ tasks'[Len(tasks) + 1] = new
    BY <2>1, <2>2
  <2>5. \A i \in 1..Len(tasks') : \/ i \in 1..Len(tasks) /\ Key(tasks'[i]) = Key(tasks[i])
                                  \/ i = Len(tasks) + 1 /\ Key(tasks'[i]) = <<k, s>>
    BY <2>1, <2>3, <2>4
  <2>6. \A i \in 1..Len(tasks) : Key(tasks[i]) # <<k, s>>
    BY <1>2
  <2>7. \A i \in 1..Len(tasks') : Key(tasks'[i]) \in active'
    BY <2>2, <2>5
  <2>8. \A i, j \in 1..Len(tasks') : Key(tasks'[i]) = Key(tasks'[j]) => i = j
    BY <2>5, <2>6
  <2>9. w'.kind \in Kinds =>
          /\ <<w'.kind, w'.sid>> \in active'
          /\ \A i \in 1..Len(tasks') : Key(tasks'[i]) # <<w'.kind, w'.sid>>
    BY <1>2, <2>2, <2>5
  <2>10. \A key \in active' :
           \/ \E i \in 1..Len(tasks') : Key(tasks'[i]) = key
           \/ w'.kind \in Kinds /\ key = <<w'.kind, w'.sid>>
    <3>1. 1..Len(tasks) \subseteq 1..Len(tasks') /\ Len(tasks) + 1 \in 1..Len(tasks')
      BY <2>1, <2>4
    <3>2. Key(tasks'[Len(tasks) + 1]) = <<k, s>>
      BY <2>3, <2>4
    <3>3. \A i \in 1..Len(tasks) : Key(tasks'[i]) = Key(tasks[i])
      BY <2>4
    <3>4. TAKE key \in active'
    <3>5. CASE key = <<k, s>>
      BY <3>1, <3>2, <3>5
    <3>6. CASE key \in active
      <4>1. CASE \E i \in 1..Len(tasks) : Key(tasks[i]) = key
        BY <3>1, <3>3, <4>1
      <4>2. CASE w.kind \in Kinds /\ key = <<w.kind, w.sid>>
        BY <4>2
      <4>3. QED
        BY <3>6, <4>1, <4>2
    <3>7. QED
      BY <2>2, <3>5, <3>6
  <2>11. QED
    BY <2>7, <2>8, <2>9, <2>10
<1>3. QED
  BY <1>1, <1>2

LEMMA ActTracks ==
  ASSUME ShapeInv, TasksAreTracked, NEW h \in Handlers, Act(h) PROVE TasksAreTracked'
<1>1. w' = w /\ req[h].sid \in Sessions
  BY ActsOnRequest DEF ShapeInv, RequestShape
<1>2. UNCHANGED taskVars \/ \E k \in Kinds : \E m, p : Enqueue(k, req[h].sid, m, p)
  BY DEF Act, SyncNowAct, TaskAct, LabelFetch, LabelLock, LabelApply, LabelApplyFails,
     LabelFinish, MoveFetch, MoveLock, MoveUpdate, MovePublish, ShareAct, DeleteRow,
     DeleteFiles, Kinds
<1>3. CASE UNCHANGED taskVars
  BY <1>1, <1>3 DEF TasksAreTracked, taskVars
<1>4. QED
  BY <1>1, <1>2, <1>3, EnqueueTracks

LEMMA TakeTracks ==
  ASSUME ShapeInv, TasksAreTracked, TakeTask PROVE TasksAreTracked'
<1>1. tasks \in Seq(Task) /\ Len(tasks) \in Nat /\ tasks # <<>> /\ active' = active
  BY DEF TakeTask, ShapeInv, TypeOK
<1>2. /\ 1 \in 1..Len(tasks) /\ tasks[1] \in Task
      /\ Len(tasks') = Len(tasks) - 1
      /\ \A i \in 1..Len(tasks') : tasks'[i] = tasks[i + 1]
  BY <1>1 DEF TakeTask
<1>3. \A i \in 1..Len(tasks') : i + 1 \in 1..Len(tasks) /\ tasks'[i] = tasks[i + 1]
  BY <1>1, <1>2
<1>4. <<w'.kind, w'.sid>> = Key(tasks[1]) /\ w'.kind \in Kinds
  <2>1. w'.kind = tasks[1].kind /\ w'.sid = tasks[1].sid
    BY <1>1 DEF TakeTask, IdleAt
  <2>2. QED
    BY <1>2, <2>1 DEF Key, Task
<1>5. w.kind \notin Kinds
  BY DEF TakeTask, AtPc, ShapeInv, WorkerShape, Kinds
<1>6. \A i \in 1..Len(tasks') : Key(tasks'[i]) \in active'
  BY <1>1, <1>3 DEF TasksAreTracked
<1>7. \A i, j \in 1..Len(tasks') : Key(tasks'[i]) = Key(tasks'[j]) => i = j
  <2>1. TAKE i, j \in 1..Len(tasks')
  <2>2. Key(tasks[i + 1]) = Key(tasks[j + 1]) => i + 1 = j + 1
    BY <1>3 DEF TasksAreTracked
  <2>3. i \in Nat /\ j \in Nat
    BY <1>1, <1>2
  <2>4. QED
    BY <1>3, <2>2, <2>3
<1>8. \A i \in 1..Len(tasks') : Key(tasks'[i]) # Key(tasks[1])
  <2>1. TAKE i \in 1..Len(tasks')
  <2>2. Key(tasks[i + 1]) = Key(tasks[1]) => i + 1 = 1
    BY <1>2, <1>3 DEF TasksAreTracked
  <2>3. i + 1 # 1
    BY <1>1, <1>2
  <2>4. QED
    BY <1>3, <2>2, <2>3
<1>9. \A key \in active : key = Key(tasks[1]) \/ \E i \in 1..Len(tasks') : Key(tasks'[i]) = key
  <2>1. TAKE key \in active
  <2>2. PICK i \in 1..Len(tasks) : Key(tasks[i]) = key
    BY <1>5 DEF TasksAreTracked
  <2>3. CASE i = 1
    BY <2>2, <2>3
  <2>4. CASE i # 1
    <3>1. i - 1 \in 1..Len(tasks') /\ (i - 1) + 1 = i
      BY <1>1, <1>2, <2>4
    <3>2. Key(tasks'[i - 1]) = key
      BY <1>2, <2>2, <3>1
    <3>3. QED
      BY <3>1, <3>2
  <2>5. QED
    BY <2>3, <2>4
<1>10. Key(tasks[1]) \in active'
  BY <1>1, <1>2 DEF TasksAreTracked
<1>11. w'.kind \in Kinds =>
         /\ <<w'.kind, w'.sid>> \in active'
         /\ \A i \in 1..Len(tasks') : Key(tasks'[i]) # <<w'.kind, w'.sid>>
  BY <1>4, <1>8, <1>10
<1>12. \A key \in active' :
         \/ \E i \in 1..Len(tasks') : Key(tasks'[i]) = key
         \/ w'.kind \in Kinds /\ key = <<w'.kind, w'.sid>>
  BY <1>1, <1>4, <1>9
<1>13. TasksAreTracked' <=>
         /\ \A i \in 1..Len(tasks') : Key(tasks'[i]) \in active'
         /\ \A i, j \in 1..Len(tasks') : Key(tasks'[i]) = Key(tasks'[j]) => i = j
         /\ w'.kind \in Kinds =>
              /\ <<w'.kind, w'.sid>> \in active'
              /\ \A i \in 1..Len(tasks') : Key(tasks'[i]) # <<w'.kind, w'.sid>>
         /\ \A key \in active' :
              \/ \E i \in 1..Len(tasks') : Key(tasks'[i]) = key
              \/ w'.kind \in Kinds /\ key = <<w'.kind, w'.sid>>
  BY DEF TasksAreTracked
<1>14. QED
  BY ONLY <1>6, <1>7, <1>11, <1>12, <1>13

\* It comes back to the drain loop from the end of its work only.
LEMMA OnSessionDrains ==
  ASSUME ShapeInv, OnSession, ~Cleanup, ~Untrack
  PROVE  w'.pc # "drain"
<1>1. w \in WorkerStates
  BY DEF ShapeInv, TypeOK
<1>2. \E pc \in WorkerPcs \ {"drain"} :
         \/ w' = [w EXCEPT !.pc = pc]
         \/ w' = [Reading(w.sid) EXCEPT !.pc = pc]
         \/ w'.pc = pc
  <2>1. CASE \/ Transcribing \/ DropAudio
             \/ Finish \/ StartOnMissingRow \/ SummaryFailed \/ Raise \/ RaiseInAutoLabel
    BY <2>1 DEF Goto, Transcribing, TranscribeOk, TranscribeSummaryFailed, TranscribeFailed,
       DropAudio, Finish, StartOnMissingRow, SummaryFailed, Raise, RaiseInAutoLabel, WorkerPcs
  <2>2. CASE \/ \E tr \in {"none", "empty", "raw", "named"} : LabelAndRoute(tr)
             \/ \E tr \in {"none", "empty", "raw", "named"} : AutoLabelAndRoute(tr)
             \/ SummaryDone
    BY <2>2 DEF Goto, LabelAndRoute, AutoLabelAndRoute, SummaryDone, SyncOrSkip, WorkerPcs
  <2>3. CASE \/ StartSync \/ LearnAndFinalize \/ StartAutoLabel \/ StartFinalize
             \/ StartRetry
    BY <2>3 DEF Goto, StartSync, LearnAndFinalize, StartAutoLabel, StartFinalize,
       StartRetry, SyncOrSkip, WorkerPcs
  <2>4. CASE \E pushed, ok \in BOOLEAN : Push(pushed, ok)
    BY <1>1, <2>4 DEF Push, WorkerStates, WorkerPcs
  <2>5. QED
    BY <2>1, <2>2, <2>3, <2>4 DEF OnSession
<1>3. \A pc : w' = [w EXCEPT !.pc = pc] \/ w' = [Reading(w.sid) EXCEPT !.pc = pc] =>
        w'.pc = pc
  BY <1>1 DEF Reading, WorkerStates
<1>4. QED
  BY <1>2, <1>3

LEMMA TrackedStep ==
  ASSUME ShapeInv, TasksAreTracked, [Next]_vars PROVE TasksAreTracked'
<1>1. CASE UNCHANGED vars
  BY <1>1 DEF vars, taskVars, TasksAreTracked
<1>2. CASE Arrivals
  BY <1>2 DEF Arrivals, Upload, Import, taskVars, TasksAreTracked
<1>3. CASE Requests
  BY <1>3, RequestsKeep DEF taskVars, TasksAreTracked
<1>4. ASSUME NEW h \in Handlers, Act(h) PROVE TasksAreTracked'
  BY <1>4, ActTracks
<1>5. CASE Reassigning
  BY <1>5 DEF Reassigning, AdminMove, DeleteTeam, taskVars, TasksAreTracked
<1>6. CASE Boot \/ TasksDrained \/ NothingToClaim \/ RequeueOrphans
           \/ \E s \in Sessions : Claim(s)
  <2>1. UNCHANGED taskVars /\ w.kind = "none"
    BY <1>6 DEF Boot, TasksDrained, NothingToClaim, RequeueOrphans, Claim, AtPc, ShapeInv,
       WorkerShape
  <2>2. w'.kind \in {"none", "process"}
    <3>1. CASE \E s \in Sessions : Claim(s)
      BY <3>1 DEF Claim, IdleAt
    <3>2. CASE Boot \/ TasksDrained \/ NothingToClaim \/ RequeueOrphans
      BY <3>2 DEF Boot, TasksDrained, NothingToClaim, RequeueOrphans, IdleAt
    <3>3. QED
      BY <1>6, <3>1, <3>2
  <2>3. QED
    BY <2>1, <2>2 DEF taskVars, TasksAreTracked, Kinds
<1>7. CASE TakeTask
  BY <1>7, TakeTracks
<1>8. CASE Crash
  BY <1>8 DEF Crash, IdleAt, TasksAreTracked, Kinds
<1>9. CASE OnSession
  <2>1. CASE Untrack
    <3>1. /\ tasks' = tasks /\ active' = active \ {<<w.kind, w.sid>>}
          /\ w.kind \in Kinds /\ w'.kind \notin Kinds
      BY <2>1 DEF Untrack, IdleAt, AtPc, ShapeInv, WorkerShape, Kinds
    <3>2. QED
      BY <3>1 DEF TasksAreTracked
  <2>2. CASE ~Untrack
    <3>1. UNCHANGED taskVars
      BY <1>9, <2>2 DEF OnSession, Transcribing, TranscribeOk, TranscribeSummaryFailed,
         TranscribeFailed, LabelAndRoute, Push, DropAudio, Finish, Cleanup, StartOnMissingRow,
         StartSync, StartFinalize, LearnAndFinalize, StartRetry, SummaryDone, SummaryFailed,
         StartAutoLabel, AutoLabelAndRoute, Raise, RaiseInAutoLabel
    <3>2. \/ w'.sid = w.sid /\ w'.kind = w.kind
          \/ w.kind \notin Kinds /\ w'.kind \notin Kinds
      <4>1. CASE Cleanup
        BY <4>1 DEF Cleanup, Goto, IdleAt, Kinds, ShapeInv, TypeOK, WorkerStates
      <4>2. CASE ~Cleanup
        <5>1. w'.pc # "drain"
          BY <1>9, <2>2, <4>2, OnSessionDrains
        <5>2. QED
          BY <1>9, <5>1, OnSessionKeeps
      <4>3. QED
        BY <4>1, <4>2
    <3>3. QED
      BY <3>1, <3>2 DEF taskVars, TasksAreTracked
  <2>3. QED
    BY <2>1, <2>2
<1>10. QED
  BY <1>1, <1>2, <1>3, <1>4, <1>5, <1>6, <1>7, <1>8, <1>9, NextIs DEF Polling

\* A queue whose elements have distinct keys has as many keys as elements.
LEMMA DistinctKeys ==
  ASSUME NEW q \in Seq(Task), \A i, j \in 1..Len(q) : Key(q[i]) = Key(q[j]) => i = j
  PROVE  /\ IsFiniteSet({Key(q[i]) : i \in 1..Len(q)})
         /\ Cardinality({Key(q[i]) : i \in 1..Len(q)}) = Len(q)
<1> DEFINE keys == {Key(q[i]) : i \in 1..Len(q)}
           f == [i \in 1..Len(q) |-> Key(q[i])]
<1>1. Len(q) \in Nat
  OBVIOUS
<1>2. f \in Bijection(1..Len(q), keys)
  BY DEF Bijection, Injection, IsInjective, Surjection
<1>3. ExistsBijection(1..Len(q), keys)
  BY <1>2 DEF ExistsBijection
<1>4. IsFiniteSet(1..Len(q)) /\ Cardinality(1..Len(q)) = Len(q)
  <2>1. 1 \in Int /\ Len(q) \in Int
    BY <1>1
  <2>2. /\ IsFiniteSet(1..Len(q))
        /\ Cardinality(1..Len(q)) = IF 1 > Len(q) THEN 0 ELSE Len(q) - 1 + 1
    BY <2>1, FS_Interval
  <2>3. (IF 1 > Len(q) THEN 0 ELSE Len(q) - 1 + 1) = Len(q)
    BY <1>1
  <2>4. QED
    BY <2>2, <2>3
<1>5. QED
  BY <1>3, <1>4, FS_Bijection

LEMMA TrackedIsActive ==
  ASSUME ShapeInv, TasksAreTracked PROVE ActiveIsWhatRuns
<1> DEFINE running == IF w.kind \in Kinds THEN {<<w.kind, w.sid>>} ELSE {}
           keys == {Key(tasks[i]) : i \in 1..Len(tasks)}
<1>1. tasks \in Seq(Task) /\ DOMAIN tasks = 1..Len(tasks) /\ Len(tasks) \in Nat
  BY DEF ShapeInv, TypeOK
<1>2. {Key(t) : t \in Pending} = keys
  BY <1>1 DEF Pending
<1>3. active = keys \cup running
  BY DEF TasksAreTracked
<1>4. IsFiniteSet(keys) /\ Cardinality(keys) = Len(tasks)
  BY <1>1, DistinctKeys DEF TasksAreTracked
<1>5. Cardinality(active) = Len(tasks) + Cardinality(running)
  <2>1. CASE w.kind \in Kinds
    <3>1. <<w.kind, w.sid>> \notin keys
      BY <2>1 DEF TasksAreTracked
    <3>2. Cardinality(keys \cup {<<w.kind, w.sid>>}) = Cardinality(keys) + 1
      BY <1>4, <3>1, FS_AddElement
    <3>3. Cardinality({<<w.kind, w.sid>>}) = 1
      BY FS_Singleton
    <3>4. QED
      BY <1>3, <1>4, <2>1, <3>2, <3>3
  <2>2. CASE w.kind \notin Kinds
    <3>1. active = keys /\ running = {}
      BY <1>3, <2>2
    <3>2. Cardinality(running) = 0
      BY <3>1, FS_EmptySet
    <3>3. Cardinality(active) = Len(tasks)
      BY <1>4, <3>1
    <3> HIDE DEF running
    <3>4. QED
      BY <1>1, <3>2, <3>3
  <2>3. QED
    BY <2>1, <2>2
<1>6. QED
  BY <1>2, <1>3, <1>5 DEF ActiveIsWhatRuns

\* No follow-up request is ever dropped for a key that nothing will remove:
\* the keys worker.enqueue_task compares with are those of the queue and of
\* the running follow-up, each once, after any faults and restarts.
THEOREM NeverAStaleKey == Spec => []ActiveIsWhatRuns
<1>1. Init => ShapeInv /\ TasksAreTracked
  BY InitShape DEF Init, IdleAt, TasksAreTracked, Kinds
<1>2. ShapeInv /\ TasksAreTracked /\ [Next]_vars => (ShapeInv /\ TasksAreTracked)'
  BY ShapeStep, TrackedStep
<1>3. ShapeInv /\ TasksAreTracked => ActiveIsWhatRuns
  BY TrackedIsActive
<1>4. QED
  BY <1>1, <1>2, <1>3, PTL DEF Spec

=============================================================================
