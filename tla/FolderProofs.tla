----------------------------- MODULE FolderProofs -----------------------------
(***************************************************************************)
(* Proofs about the parts of SessionFolder: the lock around the HOME shim, *)
(* the watchdog of a step, the attachments, the one-request uploads; and   *)
(* about the four together.                                                *)
(***************************************************************************)
EXTENDS SessionFolder, FiniteSetTheorems, WellFoundedInduction, TLAPS

-----------------------------------------------------------------------------
(* ShimLock, for any number of threads and lock objects.                   *)

\* Whoever acquires or releases a lock has fetched one.
TypeInvariant == TypeOK /\ HasLock

LEMMA TypeStep ==
  ASSUME TypeInvariant, [Next]_vars
  PROVE  TypeInvariant'
<1> USE ThreadsAssumption, LocksAssumption
    DEF TypeInvariant, TypeOK, HasLock, Inside, Step, Threads
<1>1. ASSUME NEW t \in Threads, FetchLock(t)
      PROVE  TypeInvariant'
  BY <1>1 DEF FetchLock
<1>2. ASSUME NEW t \in Threads, Acquire(t)
      PROVE  TypeInvariant'
  BY <1>2 DEF Acquire
<1>3. ASSUME NEW t \in Threads, Release(t)
      PROVE  TypeInvariant'
  BY <1>3 DEF Release
<1>4. ASSUME NEW t \in Threads, Build(t)
      PROVE  TypeInvariant'
  BY <1>4 DEF Build
<1>5. ASSUME NEW t \in Threads, Exit(t)
      PROVE  TypeInvariant'
  BY <1>5 DEF Exit
<1>6. ASSUME NEW t \in Threads, LabelRequest(t)
      PROVE  TypeInvariant'
  BY <1>6 DEF LabelRequest
<1>7. ASSUME NEW t \in Threads, MoveRequest(t)
      PROVE  TypeInvariant'
  BY <1>7 DEF MoveRequest
<1>8. ASSUME NEW t \in Threads, TryLock(t)
      PROVE  TypeInvariant'
  BY <1>8 DEF TryLock
<1>9. CASE Prune(IF ref[Worker] = NoLock THEN "idle" ELSE "release")
  BY <1>9 DEF Prune
<1>10. CASE Cleanup
  BY <1>10 DEF Cleanup
<1>11. CASE StartTask
  BY <1>11 DEF StartTask
<1>12. CASE StartJob
  BY <1>12 DEF StartJob
<1>13. CASE PublishStatus
  BY <1>13 DEF PublishStatus
<1>14. ASSUME NEW t \in Threads, Skip(t)
       PROVE  TypeInvariant'
  BY <1>14 DEF Skip
<1>15. CASE NextStep
  BY <1>15 DEF NextStep
<1>16. CASE DeleteRow
  BY <1>16 DEF DeleteRow
<1>17. CASE DeleteHome
  BY <1>17 DEF DeleteHome
<1>18. CASE UNCHANGED vars
  BY <1>18 DEF vars
<1> QED
  BY <1>1, <1>2, <1>3, <1>4, <1>5, <1>6, <1>7, <1>8, <1>9,
     <1>10, <1>11, <1>12, <1>13, <1>14, <1>15, <1>16, <1>17, <1>18 DEF Next

\* The published status is the lock of process_one.
LEMMA StatusStep ==
  ASSUME TypeInvariant, StatusInvariant, [Next]_vars
  PROVE  StatusInvariant'
<1> USE ThreadsAssumption
    DEF TypeInvariant, TypeOK, StatusInvariant, PipelineKeepsItsShim, Inside, Step, Threads
<1>1. ASSUME NEW t \in Threads, FetchLock(t)
      PROVE  StatusInvariant'
  BY <1>1 DEF FetchLock
<1>2. ASSUME NEW t \in Threads, Acquire(t)
      PROVE  StatusInvariant'
  BY <1>2 DEF Acquire
<1>3. ASSUME NEW t \in Threads, Release(t)
      PROVE  StatusInvariant'
  BY <1>3 DEF Release
<1>4. ASSUME NEW t \in Threads, Build(t)
      PROVE  StatusInvariant'
  BY <1>4 DEF Build
<1>5. ASSUME NEW t \in Threads, Exit(t)
      PROVE  StatusInvariant'
  BY <1>5 DEF Exit
<1>6. ASSUME NEW t \in Threads, LabelRequest(t)
      PROVE  StatusInvariant'
  BY <1>6 DEF LabelRequest
<1>7. ASSUME NEW t \in Threads, MoveRequest(t)
      PROVE  StatusInvariant'
  BY <1>7 DEF MoveRequest
<1>8. ASSUME NEW t \in Threads, TryLock(t)
      PROVE  StatusInvariant'
  BY <1>8 DEF TryLock
<1>9. CASE Prune(IF ref[Worker] = NoLock THEN "idle" ELSE "release")
  BY <1>9 DEF Prune
<1>10. CASE Cleanup
  BY <1>10 DEF Cleanup
<1>11. CASE StartTask
  BY <1>11 DEF StartTask
<1>12. CASE StartJob
  BY <1>12 DEF StartJob
<1>13. CASE PublishStatus
  BY <1>13 DEF PublishStatus
<1>14. ASSUME NEW t \in Threads, Skip(t)
       PROVE  StatusInvariant'
  BY <1>14 DEF Skip
<1>15. CASE NextStep
  BY <1>15 DEF NextStep
<1>16. CASE DeleteRow
  BY <1>16 DEF DeleteRow
<1>17. CASE DeleteHome
  BY <1>17 DEF DeleteHome
<1>18. CASE UNCHANGED vars
  BY <1>18 DEF vars
<1> QED
  BY <1>1, <1>2, <1>3, <1>4, <1>5, <1>6, <1>7, <1>8, <1>9,
     <1>10, <1>11, <1>12, <1>13, <1>14, <1>15, <1>16, <1>17, <1>18 DEF Next

\* After process_one, pruning spares the lock that anybody is waiting for.
LEMMA LockStep ==
  ASSUME TypeInvariant, LockInvariant, [Next]_vars
  PROVE  LockInvariant'
<1> USE ThreadsAssumption, LocksAssumption
    DEF TypeInvariant, TypeOK, HasLock, LockInvariant, OneHolder, ShimIsMine,
        Holds, Inside, Step, Threads
<1>1. ASSUME NEW t \in Threads, FetchLock(t)
      PROVE  LockInvariant'
  BY <1>1 DEF FetchLock
<1>2. ASSUME NEW t \in Threads, Acquire(t)
      PROVE  LockInvariant'
  BY <1>2 DEF Acquire
<1>3. ASSUME NEW t \in Threads, Release(t)
      PROVE  LockInvariant'
  BY <1>3 DEF Release
<1>4. ASSUME NEW t \in Threads, Build(t)
      PROVE  LockInvariant'
  BY <1>4 DEF Build
<1>5. ASSUME NEW t \in Threads, Exit(t)
      PROVE  LockInvariant'
  BY <1>5 DEF Exit
<1>6. ASSUME NEW t \in Threads, LabelRequest(t)
      PROVE  LockInvariant'
  BY <1>6 DEF LabelRequest
<1>7. ASSUME NEW t \in Threads, MoveRequest(t)
      PROVE  LockInvariant'
  BY <1>7 DEF MoveRequest
<1>8. ASSUME NEW t \in Threads, TryLock(t)
      PROVE  LockInvariant'
  BY <1>8 DEF TryLock
<1>9. CASE Prune(IF ref[Worker] = NoLock THEN "idle" ELSE "release")
  BY <1>9 DEF Prune
<1>10. CASE Cleanup
  BY <1>10 DEF Cleanup
<1>11. CASE StartTask
  BY <1>11 DEF StartTask
<1>12. CASE StartJob
  BY <1>12 DEF StartJob
<1>13. CASE PublishStatus
  BY <1>13 DEF PublishStatus
<1>14. ASSUME NEW t \in Threads, Skip(t)
       PROVE  LockInvariant'
  BY <1>14 DEF Skip
<1>15. CASE NextStep
  BY <1>15 DEF NextStep
<1>16. CASE DeleteRow
  BY <1>16 DEF DeleteRow
<1>17. CASE DeleteHome
  BY <1>17 DEF DeleteHome
<1>18. CASE UNCHANGED vars
  BY <1>18 DEF vars
<1> QED
  BY <1>1, <1>2, <1>3, <1>4, <1>5, <1>6, <1>7, <1>8, <1>9,
     <1>10, <1>11, <1>12, <1>13, <1>14, <1>15, <1>16, <1>17, <1>18 DEF Next

-----------------------------------------------------------------------------

LEMMA TypeHolds == Spec => []TypeInvariant
<1>1. Init => TypeInvariant
  BY ThreadsAssumption DEF Init, TypeInvariant, TypeOK, HasLock, Inside, Threads
<1> QED
  BY <1>1, TypeStep, PTL DEF Spec

\* While process_one runs millet without a lock, no request and no follow-up
\* replaces or removes its HOME: they all wait for the final status.  Only a
\* deletion of the session does not.
THEOREM PipelineIsSafe == Spec => []PipelineKeepsItsShim
<1>1. Init => StatusInvariant
  BY ThreadsAssumption DEF Init, StatusInvariant, PipelineKeepsItsShim, Threads
<1>2. StatusInvariant => PipelineKeepsItsShim
  BY DEF StatusInvariant
<1> QED
  BY <1>1, <1>2, TypeHolds, StatusStep, PTL DEF Spec

LEMMA LockHolds == Spec => (settled => []LockInvariant)
<1>1. Init /\ settled => LockInvariant
  BY ThreadsAssumption
     DEF Init, LockInvariant, OneHolder, ShimIsMine, Holds, Inside, Threads
<1> QED
  BY <1>1, TypeHolds, LockStep, PTL DEF Spec

\* The registered lock serializes the follow-ups, label requests and moves of a
\* processed session, although entries of the registry are pruned.
THEOREM LockSerializes == Spec => ProcessedIsExclusive
<1>1. LockInvariant => OneHolder
  BY DEF LockInvariant
<1> QED
  BY <1>1, LockHolds, PTL DEF ProcessedIsExclusive

\* No follow-up or label request of a processed session loses the HOME its
\* millet runs in to another one, nor to a move.
THEOREM ShimSurvives == Spec => ProcessedKeepsItsShim
<1>1. LockInvariant => ShimIsMine
  BY DEF LockInvariant
<1> QED
  BY <1>1, LockHolds, PTL DEF ProcessedKeepsItsShim

-----------------------------------------------------------------------------
(* Watchdog, for any budgets and any poll interval.                        *)

\* A poll never sleeps past the end of the window or of the budget.
LEMMA PollIsInTime ==
  ASSUME NEW quiet \in Nat, NEW run \in Nat, quiet < Window, run < Budget
  PROVE  /\ PollInterval(quiet, run) \in Nat
         /\ quiet + PollInterval(quiet, run) <= Window
         /\ run + PollInterval(quiet, run) <= Budget
<1>1. /\ (Window - quiet) \div 3 \in Int
      /\ (Window - quiet) \div 3 <= Window - quiet
      /\ (Budget - run) \div 3 \in Int
      /\ (Budget - run) \div 3 <= Budget - run
  BY BudgetsAssumption
<1> QED
  BY <1>1, BudgetsAssumption DEF PollInterval, Least

\* The sum over the group, from its parts.
LEMMA GroupCpuIsNat ==
  ASSUME StepTypeOK
  PROVE  GroupCpu \in Nat
BY DEF StepTypeOK, GroupCpu, Procs

\* The invariant holds at first.
LEMMA WatchStarts ==
  ASSUME StepInit
  PROVE  WatchInvariant
<1>1. /\ PollInterval(0, 0) \in Nat
      /\ PollInterval(0, 0) <= Window
      /\ PollInterval(0, 0) <= Budget
  BY PollIsInTime, BudgetsAssumption
<1>2. cpu \in [Procs -> Nat] /\ GroupCpu = 0
  BY DEF StepInit, GroupCpu, Procs
<1>3. /\ seen \in [quiet : Nat, still : Nat, burnt : Nat, turnover : BOOLEAN]
      /\ seen.quiet = 0 /\ seen.still = 0 /\ seen.burnt = 0 /\ ~seen.turnover
  BY DEF StepInit
<1>4. StepTypeOK
  BY <1>1, <1>2, <1>3 DEF StepInit, StepTypeOK
<1>5. SparesTheWorking
  BY DEF StepInit, SparesTheWorking
<1> QED
  BY <1>1, <1>2, <1>3, <1>4, <1>5, BudgetsAssumption DEF StepInit, WatchInvariant

\* A tick ages what was seen, unless something is seen in it.
LEMMA TickKeeps ==
  ASSUME WatchInvariant,
         NEW wrote \in BOOLEAN, NEW others \in BOOLEAN, NEW busy \in SUBSET Procs,
         Tick(wrote, others, busy)
  PROVE  WatchInvariant'
<1> DEFINE own == IF "leader" \in busy THEN 1 ELSE 0
           its == IF "child" \in busy THEN 1 ELSE 0
<1>1. /\ StepTypeOK
      /\ cpu' = [p \in Procs |-> IF p \in busy THEN cpu[p] + 1 ELSE cpu[p]]
  BY DEF WatchInvariant, Tick
<1>2. cpu' \in [Procs -> Nat] /\ GroupCpu' = GroupCpu + own + its
  BY <1>1 DEF StepTypeOK, GroupCpu, Procs
<1>3. /\ seen.quiet \in Nat /\ seen.still \in Nat /\ seen.burnt \in Nat
      /\ seen' \in [quiet : Nat, still : Nat, burnt : Nat, turnover : BOOLEAN]
      /\ seen'.quiet = IF wrote THEN 0 ELSE seen.quiet + 1
      /\ seen'.still = IF wrote \/ others \/ busy # {} THEN 0 ELSE seen.still + 1
      /\ seen'.burnt = IF busy # {} THEN seen.burnt + 1 ELSE seen.burnt
      /\ seen'.turnover = seen.turnover
  <2>1. seen \in [quiet : Nat, still : Nat, burnt : Nat, turnover : BOOLEAN]
    BY <1>1 DEF StepTypeOK
  <2>2. seen' = [quiet |-> IF wrote THEN 0 ELSE seen.quiet + 1,
                 still |-> IF wrote \/ others \/ busy # {} THEN 0 ELSE seen.still + 1,
                 burnt |-> IF busy # {} THEN seen.burnt + 1 ELSE seen.burnt,
                 turnover |-> seen.turnover]
    BY DEF Tick
  <2> QED
    BY <2>1, <2>2
<1>4. /\ busy = {} => own + its = 0
      /\ busy # {} => own + its >= 1 /\ own + its <= 2
  <2>1. busy # {} => "leader" \in busy \/ "child" \in busy
    BY DEF Procs
  <2> QED
    BY <2>1
<1>5. /\ GroupCpu' <= lastCpu' + 2 * seen'.burnt
      /\ ~seen'.turnover => GroupCpu' >= lastCpu' + seen'.burnt
  <2>1. GroupCpu \in Nat /\ lastCpu \in Nat /\ lastCpu' = lastCpu
    BY <1>1, GroupCpuIsNat DEF StepTypeOK, Tick
  <2>2. CASE busy = {}
    BY <2>1, <2>2, <1>2, <1>3, <1>4 DEF WatchInvariant
  <2>3. CASE busy # {}
    BY <2>1, <2>3, <1>2, <1>3, <1>4 DEF WatchInvariant
  <2> QED
    BY <2>2, <2>3
<1>6. StepTypeOK'
  BY <1>1, <1>2, <1>3 DEF StepTypeOK, Tick
<1>7. watcher' = "waiting" =>
        /\ verdict' = "none"
        /\ since' + sleep' <= Window /\ elapsed' + sleep' <= Budget
        /\ seen'.still <= since' + Window
        /\ changed' \/ seen'.burnt > 0 => seen'.still <= since'
  BY <1>1, <1>3, BudgetsAssumption DEF WatchInvariant, StepTypeOK, Tick
<1>8. ~changed' => seen'.quiet >= since'
  BY <1>1, <1>3 DEF WatchInvariant, StepTypeOK, Tick
<1>9. SparesTheWorking'
  BY DEF WatchInvariant, Tick, SparesTheWorking
<1> QED
  BY <1>5, <1>6, <1>7, <1>8, <1>9 DEF WatchInvariant

\* The CPU time of a child leaves the group with it, and is remembered as gone.
LEMMA ChildExitKeeps ==
  ASSUME WatchInvariant, ChildExits
  PROVE  WatchInvariant'
<1>1. /\ StepTypeOK
      /\ cpu["leader"] \in Nat /\ cpu["child"] \in Nat
      /\ cpu' \in [Procs -> Nat]
      /\ cpu'["leader"] = cpu["leader"] /\ cpu'["child"] = 0
  BY DEF WatchInvariant, ChildExits, StepTypeOK, Procs
<1>2. /\ seen' \in [quiet : Nat, still : Nat, burnt : Nat, turnover : BOOLEAN]
      /\ seen'.quiet = seen.quiet /\ seen'.still = seen.still /\ seen'.burnt = seen.burnt
      /\ seen'.turnover = (seen.turnover \/ cpu["child"] > 0)
  BY <1>1 DEF ChildExits, StepTypeOK
<1>3. /\ GroupCpu' <= lastCpu' + 2 * seen'.burnt
      /\ ~seen'.turnover => GroupCpu' >= lastCpu' + seen'.burnt
  BY <1>1, <1>2 DEF WatchInvariant, StepTypeOK, GroupCpu, ChildExits
<1>4. SparesTheWorking'
  BY <1>2 DEF WatchInvariant, SparesTheWorking, ChildExits
<1> QED
  BY <1>1, <1>2, <1>3, <1>4 DEF WatchInvariant, StepTypeOK, ChildExits

\* The watchdog gives up: the window is over, and nothing moved in it.
LEMMA VerdictIsRight ==
  ASSUME WatchInvariant, NoProgress
  PROVE  WatchInvariant'
<1>1. GroupCpu \in Nat /\ GroupCpu' = GroupCpu
  BY GroupCpuIsNat DEF WatchInvariant, NoProgress, GroupCpu
<1>2. seen.quiet >= Window
  BY BudgetsAssumption DEF WatchInvariant, StepTypeOK, NoProgress, Progressed
<1>3. seen.burnt >= Epsilon => seen.turnover
  BY <1>1, BudgetsAssumption DEF WatchInvariant, StepTypeOK, NoProgress, Progressed
<1>4. SparesTheWorking'
  BY <1>2, <1>3 DEF SparesTheWorking, NoProgress
<1> QED
  BY <1>1, <1>4 DEF WatchInvariant, StepTypeOK, NoProgress

\* Progress was seen after the baseline, so it is at most a window old.
LEMMA GoingOnKeeps ==
  ASSUME WatchInvariant, GoesOn
  PROVE  WatchInvariant'
<1>1. GroupCpu \in Nat /\ GroupCpu' = GroupCpu
  BY GroupCpuIsNat DEF WatchInvariant, GoesOn, GroupCpu
<1>2. /\ PollInterval(0, elapsed) \in Nat
      /\ PollInterval(0, elapsed) <= Window
      /\ elapsed + PollInterval(0, elapsed) <= Budget
  BY PollIsInTime, BudgetsAssumption DEF WatchInvariant, StepTypeOK, GoesOn
<1>3. /\ seen' \in [quiet : Nat, still : Nat, burnt : Nat, turnover : BOOLEAN]
      /\ seen'.quiet = seen.quiet /\ seen'.still = seen.still
      /\ seen'.burnt = 0 /\ seen'.turnover = FALSE
  BY DEF WatchInvariant, StepTypeOK, GoesOn, Rebase
<1>4. seen.still <= Window
  BY <1>1, BudgetsAssumption DEF WatchInvariant, StepTypeOK, GoesOn, Wakes, Progressed
<1>5. SparesTheWorking'
  BY DEF WatchInvariant, SparesTheWorking, GoesOn, Wakes
<1>6. StepTypeOK'
  BY <1>1, <1>2, <1>3 DEF WatchInvariant, StepTypeOK, GoesOn, Rebase
<1>7. /\ since' = 0 /\ sleep' = PollInterval(0, elapsed) /\ elapsed' = elapsed
      /\ changed' = FALSE /\ lastCpu' = GroupCpu
      /\ watcher' = "waiting" /\ verdict' = "none"
  BY DEF WatchInvariant, GoesOn, Rebase, Wakes
<1> QED
  BY <1>1, <1>2, <1>3, <1>4, <1>5, <1>6, <1>7, BudgetsAssumption DEF WatchInvariant

LEMMA SleepingKeeps ==
  ASSUME WatchInvariant, SleepsAgain
  PROVE  WatchInvariant'
<1>1. /\ PollInterval(since, elapsed) \in Nat
      /\ since + PollInterval(since, elapsed) <= Window
      /\ elapsed + PollInterval(since, elapsed) <= Budget
  BY PollIsInTime DEF WatchInvariant, StepTypeOK, SleepsAgain
<1>2. GroupCpu' = GroupCpu
  BY DEF SleepsAgain, GroupCpu
<1> QED
  BY <1>1, <1>2 DEF WatchInvariant, StepTypeOK, SparesTheWorking, SleepsAgain

\* The other steps leave what is measured alone.
LEMMA WatchStep ==
  ASSUME WatchInvariant, [StepNext]_stepVars
  PROVE  WatchInvariant'
<1>1. ASSUME NEW wrote \in BOOLEAN, NEW others \in BOOLEAN, NEW busy \in SUBSET Procs,
             Tick(wrote, others, busy)
      PROVE  WatchInvariant'
  BY <1>1, TickKeeps
<1>2. CASE ChildExits
  BY <1>2, ChildExitKeeps
<1>3. CASE NoProgress
  BY <1>3, VerdictIsRight
<1>4. CASE GoesOn
  BY <1>4, GoingOnKeeps
<1>5. CASE SleepsAgain
  BY <1>5, SleepingKeeps
<1>6. CASE ChildStarts
  BY <1>6 DEF WatchInvariant, StepTypeOK, SparesTheWorking, GroupCpu, ChildStarts
<1>7. CASE LeaderExits
  BY <1>7 DEF WatchInvariant, StepTypeOK, SparesTheWorking, GroupCpu, LeaderExits
<1>8. CASE BudgetExpires
  BY <1>8 DEF WatchInvariant, StepTypeOK, SparesTheWorking, GroupCpu, BudgetExpires
<1>9. ASSUME NEW stubborn \in SUBSET Procs, Terminate(stubborn)
      PROVE  WatchInvariant'
  BY <1>9 DEF WatchInvariant, StepTypeOK, SparesTheWorking, GroupCpu, Terminate
<1>10. CASE Kill
  BY <1>10 DEF WatchInvariant, StepTypeOK, SparesTheWorking, GroupCpu, Kill
<1>11. CASE UNCHANGED stepVars
  BY <1>11 DEF WatchInvariant, StepTypeOK, SparesTheWorking, GroupCpu, stepVars
<1> QED
  BY <1>1, <1>2, <1>3, <1>4, <1>5, <1>6, <1>7, <1>8, <1>9, <1>10, <1>11 DEF StepNext

LEMMA WatchInvariance == StepSpec => []WatchInvariant
BY WatchStarts, WatchStep, PTL DEF StepSpec

\* The watchdog reaps no step that wrote anything in the last window, and
\* overlooks CPU time only when a child that used some left the group
\* (_wait_with_timeout, _process_group_cpu_seconds).
THEOREM TheWorkingAreSpared == StepSpec => []SparesTheWorking
<1>1. WatchInvariant => SparesTheWorking
  BY DEF WatchInvariant
<1> QED
  BY <1>1, WatchInvariance, PTL

\* A step at a standstill ends within two windows, any step within the budget,
\* whatever the poll interval (_wait_with_timeout).
THEOREM TheStuckEnd == StepSpec => []StuckEnds
<1>1. WatchInvariant => StuckEnds
  BY BudgetsAssumption DEF WatchInvariant, StepTypeOK, StuckEnds
<1> QED
  BY <1>1, WatchInvariance, PTL

-----------------------------------------------------------------------------
(* DirectUpload, for any uploads and any number of attempts.               *)

LEMMA DirectStarts ==
  ASSUME DirectInit
  PROVE  DirectInvariant
<1> USE AttemptsAssumption, KindAssumption
<1>1. \A u \in Uploads : <<u, 1>> \in Tries
  BY DEF Tries
<1>2. DirectTypeOK
  BY DEF DirectInit, DirectTypeOK
<1>3. RowsAreWhole /\ ToldOfRows /\ ImportIsSentOnce /\ OneAtATime
  BY DEF DirectInit, RowsAreWhole, ToldOfRows, ImportIsSentOnce, OneAtATime, Under, Remembered, Tries
<1> QED
  BY <1>2, <1>3 DEF DirectInvariant

\* A client's attempt is one of the attempts.
LEMMA NowIsATry ==
  ASSUME DirectTypeOK, NEW u \in Uploads
  PROVE  Now(u) \in Tries /\ Now(u)[1] = u /\ Now(u) = <<u, sender[u].attempt>>
BY DEF DirectTypeOK, Now, Tries

SenderTypeOK ==
  sender \in [Uploads -> [at : {"waiting", "done", "failed"},
                        attempt : 1..MaxAttempts, told : Tries \cup {<<>>}]]

LEMMA TriesAgainIsTyped ==
  ASSUME SenderTypeOK, NEW u \in Uploads, TriesAgain(u)
  PROVE  SenderTypeOK'
BY AttemptsAssumption DEF SenderTypeOK, TriesAgain

LEMMA ToldIsTyped ==
  ASSUME SenderTypeOK, NEW u \in Uploads, NEW x \in Tries,
         sender' = [sender EXCEPT ![u].at = "done", ![u].told = x]
  PROVE  SenderTypeOK'
<1> DEFINE T == Tries \cup {<<>>}
<1>1. x \in T
  OBVIOUS
<1>2. sender \in [Uploads -> [at : {"waiting", "done", "failed"}, attempt : 1..MaxAttempts, told : T]]
  BY DEF SenderTypeOK
<1> HIDE DEF T
<1>3. sender' \in [Uploads -> [at : {"waiting", "done", "failed"}, attempt : 1..MaxAttempts, told : T]]
  BY <1>1, <1>2
<1> QED
  BY <1>3 DEF SenderTypeOK, T

LEMMA FailedIsTyped ==
  ASSUME SenderTypeOK, NEW u \in Uploads,
         sender' = [sender EXCEPT ![u].at = "failed"]
  PROVE  SenderTypeOK'
BY DEF SenderTypeOK

\* Types.
LEMMA DirectTypes ==
  ASSUME DirectTypeOK, [DirectNext]_directVars
  PROVE  DirectTypeOK'
<1> USE NowIsATry, AttemptsAssumption DEF DirectTypeOK, Becomes, With, Without, Fails
<1>1. ASSUME NEW u \in Uploads, Arrive(u)
      PROVE  DirectTypeOK'
  BY <1>1 DEF Arrive
<1>2. ASSUME NEW u \in Uploads, Replay(u)
      PROVE  DirectTypeOK'
  <2>0. SenderTypeOK
    BY DEF SenderTypeOK
  <2>1. cache[u].session \in Tries
    BY <1>2 DEF Replay, Remembered
  <2>2. SenderTypeOK'
    BY <1>2, <2>1, <2>0, ToldIsTyped DEF Replay
  <2> QED
    BY <1>2, <2>2 DEF Replay, SenderTypeOK
<1>3. ASSUME NEW u \in Uploads, Learned(u)
      PROVE  DirectTypeOK'
  <2>0. SenderTypeOK
    BY DEF SenderTypeOK
  <2>1. \/ sender' = [sender EXCEPT ![u].at = "done", ![u].told = Now(u)]
        \/ sender' = [sender EXCEPT ![u].at = "failed"]
        \/ TriesAgain(u)
    BY <1>3 DEF Learned
  <2>2. SenderTypeOK'
    BY <2>0, <2>1, NowIsATry, ToldIsTyped, FailedIsTyped, TriesAgainIsTyped
  <2> QED
    BY <1>3, <2>2 DEF Learned, SenderTypeOK
<1>4. ASSUME NEW u \in Uploads, NEW slow \in BOOLEAN, GivesUpWaiting(u, slow)
      PROVE  DirectTypeOK'
  <2>0. SenderTypeOK
    BY DEF SenderTypeOK
  <2>1. SenderTypeOK'
    BY <1>4, <2>0, TriesAgainIsTyped DEF GivesUpWaiting
  <2>2. DOMAIN cache' \subseteq Uploads /\ \A v \in DOMAIN cache' : cache'[v] \in [session : Tries, age : Nat]
    <3>1. CASE cache' = cache
      BY <3>1
    <3>2. CASE cache' = [v \in DOMAIN cache |-> [cache[v] EXCEPT !.age = @ + 1]]
      <4>1. \A v \in DOMAIN cache : [cache[v] EXCEPT !.age = @ + 1] \in [session : Tries, age : Nat]
        OBVIOUS
      <4>2. DOMAIN cache' = DOMAIN cache /\ \A v \in DOMAIN cache : cache'[v] = [cache[v] EXCEPT !.age = @ + 1]
        BY <3>2
      <4> QED
        BY <4>1, <4>2
    <3> QED
      BY <1>4, <3>1, <3>2 DEF GivesUpWaiting
  <2> QED
    BY <1>4, <2>1, <2>2 DEF GivesUpWaiting, SenderTypeOK
<1>5. ASSUME NEW r \in Tries, Receive(r)
      PROVE  DirectTypeOK'
  BY <1>5 DEF Receive
<1>6. ASSUME NEW r \in Tries, BodyEnds(r)
      PROVE  DirectTypeOK'
  BY <1>6 DEF BodyEnds
<1>7. ASSUME NEW r \in Tries, NEW outcome \in {"refused", "dropped"}, BodyFails(r, outcome)
      PROVE  DirectTypeOK'
  BY <1>7 DEF BodyFails
<1>8. ASSUME NEW r \in Tries, Insert(r)
      PROVE  DirectTypeOK'
  BY <1>8 DEF Insert
<1>9. ASSUME NEW r \in Tries, InsertFails(r)
      PROVE  DirectTypeOK'
  BY <1>9 DEF InsertFails
<1>10. ASSUME NEW r \in Tries, Remember(r)
      PROVE  DirectTypeOK'
  <2>1. r[1] \in Uploads
    BY DEF Tries
  <2>2. DOMAIN cache' \subseteq Uploads /\ \A v \in DOMAIN cache' : cache'[v] \in [session : Tries, age : Nat]
    BY <1>10, <2>1 DEF Remember
  <2> QED
    BY <1>10, <2>2 DEF Remember
<1>11. CASE Restart
  BY <1>11 DEF Restart
<1>12. CASE UNCHANGED directVars
  BY <1>12 DEF directVars
<1> QED
  BY <1>1, <1>2, <1>3, <1>4, <1>5, <1>6, <1>7, <1>8, <1>9, <1>10, <1>11, <1>12 DEF DirectNext

\* A row stays, and with it a whole folder (Insert, Receive, BodyEnds).
LEMMA RowsStayWhole ==
  ASSUME DirectTypeOK, RowsAreWhole, [DirectNext]_directVars
  PROVE  RowsAreWhole'
<1> USE NowIsATry DEF DirectTypeOK, RowsAreWhole, Becomes, With, Without, Fails
<1>1. ASSUME NEW u \in Uploads, Arrive(u)
      PROVE  RowsAreWhole'
  BY <1>1 DEF Arrive
<1>2. ASSUME NEW u \in Uploads, Replay(u)
      PROVE  RowsAreWhole'
  BY <1>2 DEF Replay
<1>3. ASSUME NEW u \in Uploads, Learned(u)
      PROVE  RowsAreWhole'
  BY <1>3 DEF Learned, TriesAgain
<1>4. ASSUME NEW u \in Uploads, NEW slow \in BOOLEAN, GivesUpWaiting(u, slow)
      PROVE  RowsAreWhole'
  BY <1>4 DEF GivesUpWaiting, TriesAgain
<1>5. ASSUME NEW r \in Tries, Receive(r)
      PROVE  RowsAreWhole'
  BY <1>5 DEF Receive
<1>6. ASSUME NEW r \in Tries, BodyEnds(r)
      PROVE  RowsAreWhole'
  BY <1>6 DEF BodyEnds
<1>7. ASSUME NEW r \in Tries, NEW outcome \in {"refused", "dropped"}, BodyFails(r, outcome)
      PROVE  RowsAreWhole'
  BY <1>7 DEF BodyFails
<1>8. ASSUME NEW r \in Tries, Insert(r)
      PROVE  RowsAreWhole'
  BY <1>8 DEF Insert
<1>9. ASSUME NEW r \in Tries, InsertFails(r)
      PROVE  RowsAreWhole'
  BY <1>9 DEF InsertFails
<1>10. ASSUME NEW r \in Tries, Remember(r)
      PROVE  RowsAreWhole'
  BY <1>10 DEF Remember
<1>11. CASE Restart
  BY <1>11 DEF Restart
<1>12. CASE UNCHANGED directVars
  BY <1>12 DEF directVars
<1> QED
  BY <1>1, <1>2, <1>3, <1>4, <1>5, <1>6, <1>7, <1>8, <1>9, <1>10, <1>11, <1>12 DEF DirectNext

\* What the cache and the client know stays in the table.
LEMMA ToldStaysTrue ==
  ASSUME DirectTypeOK, RowsAreWhole, ToldOfRows, [DirectNext]_directVars
  PROVE  ToldOfRows'
<1> USE NowIsATry DEF DirectTypeOK, RowsAreWhole, ToldOfRows, Becomes, With, Without, Fails, Remembered
<1>1. ASSUME NEW u \in Uploads, Arrive(u)
      PROVE  ToldOfRows'
  BY <1>1 DEF Arrive
<1>2. ASSUME NEW u \in Uploads, Replay(u)
      PROVE  ToldOfRows'
  BY <1>2 DEF Replay
<1>3. ASSUME NEW u \in Uploads, Learned(u)
      PROVE  ToldOfRows'
  <2>1. CASE post[Now(u)] = "stored" /\ sender' = [sender EXCEPT ![u].at = "done", ![u].told = Now(u)]
    BY <1>3, <2>1 DEF Learned
  <2>2. CASE sender' = [sender EXCEPT ![u].at = "failed"]
    BY <1>3, <2>2 DEF Learned
  <2>3. CASE TriesAgain(u)
    BY <1>3, <2>3 DEF Learned, TriesAgain
  <2> QED
    BY <1>3, <2>1, <2>2, <2>3 DEF Learned
<1>4. ASSUME NEW u \in Uploads, NEW slow \in BOOLEAN, GivesUpWaiting(u, slow)
      PROVE  ToldOfRows'
  BY <1>4 DEF GivesUpWaiting, TriesAgain
<1>5. ASSUME NEW r \in Tries, Receive(r)
      PROVE  ToldOfRows'
  BY <1>5 DEF Receive
<1>6. ASSUME NEW r \in Tries, BodyEnds(r)
      PROVE  ToldOfRows'
  BY <1>6 DEF BodyEnds
<1>7. ASSUME NEW r \in Tries, NEW outcome \in {"refused", "dropped"}, BodyFails(r, outcome)
      PROVE  ToldOfRows'
  BY <1>7 DEF BodyFails
<1>8. ASSUME NEW r \in Tries, Insert(r)
      PROVE  ToldOfRows'
  BY <1>8 DEF Insert
<1>9. ASSUME NEW r \in Tries, InsertFails(r)
      PROVE  ToldOfRows'
  BY <1>9 DEF InsertFails
<1>10. ASSUME NEW r \in Tries, Remember(r)
      PROVE  ToldOfRows'
  BY <1>10 DEF Remember
<1>11. CASE Restart
  BY <1>11 DEF Restart
<1>12. CASE UNCHANGED directVars
  BY <1>12 DEF directVars
<1> QED
  BY <1>1, <1>2, <1>3, <1>4, <1>5, <1>6, <1>7, <1>8, <1>9, <1>10, <1>11, <1>12 DEF DirectNext

\* An import has one attempt.
LEMMA ImportsAreSentOnce ==
  ASSUME DirectTypeOK, ImportIsSentOnce, [DirectNext]_directVars
  PROVE  ImportIsSentOnce'
<1> USE NowIsATry, KindAssumption DEF DirectTypeOK, ImportIsSentOnce, Becomes, With, Without, Fails, Now, Tries
<1>1. ASSUME NEW u \in Uploads, Arrive(u)
      PROVE  ImportIsSentOnce'
  BY <1>1 DEF Arrive
<1>2. ASSUME NEW u \in Uploads, Replay(u)
      PROVE  ImportIsSentOnce'
  BY <1>2 DEF Replay
<1>3. ASSUME NEW u \in Uploads, Learned(u)
      PROVE  ImportIsSentOnce'
  <2>1. CASE sender' = [sender EXCEPT ![u].at = "done", ![u].told = Now(u)]
    BY <1>3, <2>1 DEF Learned
  <2>2. CASE sender' = [sender EXCEPT ![u].at = "failed"]
    BY <1>3, <2>2 DEF Learned
  <2>3. CASE TriesAgain(u)
    BY <1>3, <2>3 DEF Learned, TriesAgain
  <2> QED
    BY <1>3, <2>1, <2>2, <2>3 DEF Learned
<1>4. ASSUME NEW u \in Uploads, NEW slow \in BOOLEAN, GivesUpWaiting(u, slow)
      PROVE  ImportIsSentOnce'
  BY <1>4 DEF GivesUpWaiting, TriesAgain
<1>5. ASSUME NEW r \in Tries, Receive(r)
      PROVE  ImportIsSentOnce'
  BY <1>5 DEF Receive
<1>6. ASSUME NEW r \in Tries, BodyEnds(r)
      PROVE  ImportIsSentOnce'
  BY <1>6 DEF BodyEnds
<1>7. ASSUME NEW r \in Tries, NEW outcome \in {"refused", "dropped"}, BodyFails(r, outcome)
      PROVE  ImportIsSentOnce'
  BY <1>7 DEF BodyFails
<1>8. ASSUME NEW r \in Tries, Insert(r)
      PROVE  ImportIsSentOnce'
  BY <1>8 DEF Insert
<1>9. ASSUME NEW r \in Tries, InsertFails(r)
      PROVE  ImportIsSentOnce'
  BY <1>9 DEF InsertFails
<1>10. ASSUME NEW r \in Tries, Remember(r)
      PROVE  ImportIsSentOnce'
  BY <1>10 DEF Remember
<1>11. CASE Restart
  BY <1>11 DEF Restart
<1>12. CASE UNCHANGED directVars
  BY <1>12 DEF directVars
<1> QED
  BY <1>1, <1>2, <1>3, <1>4, <1>5, <1>6, <1>7, <1>8, <1>9, <1>10, <1>11, <1>12 DEF DirectNext

\* A one-shot upload that nothing excuses is at work once, or has its row and
\* is remembered (Arrive, Remember, GivesUpWaiting and Restart are the steps
\* that could leave it with two).
LEMMA OneAttemptStays ==
  ASSUME DirectTypeOK, RowsAreWhole, OneAtATime, [DirectNext]_directVars
  PROVE  OneAtATime'
<1> USE DEF Under, Remembered, Becomes
<1>1. ASSUME NEW u \in Uploads, Arrive(u)
      PROVE  OneAtATime'
  <2>1. Now(u) \in Tries /\ Now(u)[1] = u
    BY NowIsATry
  <2>2. post' = [post EXCEPT ![Now(u)] = "receiving"] /\ ~Remembered(u)
        /\ UNCHANGED <<rows, cache>> /\ excused \subseteq excused'
        /\ (Under(u) # {} => u \in excused')
    BY <1>1 DEF Arrive
  <2>3. \A s \in Tries : s[1] = u /\ Kind[u] = "single" /\ u \notin excused' => s \notin rows /\ s \notin Under(u)
    BY <2>2 DEF OneAtATime
  <2> QED
    BY <2>1, <2>2, <2>3 DEF OneAtATime, DirectTypeOK
<1>2. ASSUME NEW u \in Uploads, Replay(u)
      PROVE  OneAtATime'
  BY <1>2 DEF Replay, OneAtATime
<1>3. ASSUME NEW u \in Uploads, Learned(u)
      PROVE  OneAtATime'
  BY <1>3 DEF Learned, OneAtATime
<1>4. ASSUME NEW u \in Uploads, NEW slow \in BOOLEAN, GivesUpWaiting(u, slow)
      PROVE  OneAtATime'
  <2>1. DOMAIN cache' = DOMAIN cache /\ \A v \in DOMAIN cache : cache'[v].age \in Nat
    BY <1>4 DEF GivesUpWaiting, DirectTypeOK
  <2>2. UNCHANGED <<post, rows>> /\ excused' = excused \cup {v \in DOMAIN cache' : cache'[v].age >= Patience}
    BY <1>4 DEF GivesUpWaiting
  <2> QED
    BY <2>1, <2>2, PatienceAssumption DEF OneAtATime
<1>5. ASSUME NEW r \in Tries, Receive(r)
      PROVE  OneAtATime'
  BY <1>5 DEF Receive, OneAtATime
<1>6. ASSUME NEW r \in Tries, BodyEnds(r)
      PROVE  OneAtATime'
  BY <1>6 DEF BodyEnds, OneAtATime, DirectTypeOK, RowsAreWhole
<1>7. ASSUME NEW r \in Tries, NEW outcome \in {"refused", "dropped"}, BodyFails(r, outcome)
      PROVE  OneAtATime'
  BY <1>7 DEF BodyFails, OneAtATime, DirectTypeOK, RowsAreWhole
<1>8. ASSUME NEW r \in Tries, Insert(r)
      PROVE  OneAtATime'
  BY <1>8 DEF Insert, OneAtATime, DirectTypeOK, RowsAreWhole
<1>9. ASSUME NEW r \in Tries, InsertFails(r)
      PROVE  OneAtATime'
  BY <1>9 DEF InsertFails, OneAtATime, DirectTypeOK, RowsAreWhole
<1>10. ASSUME NEW r \in Tries, Remember(r)
      PROVE  OneAtATime'
  <2>1. post[r] = "inserted" /\ r \in rows /\ post' = [post EXCEPT ![r] = "stored"] /\ UNCHANGED <<rows, excused>>
    BY <1>10 DEF Remember, RowsAreWhole
  <2>2. Kind[r[1]] = "single" => r[1] \in DOMAIN cache' /\ cache'[r[1]].age = 0
    BY <1>10 DEF Remember, With
  <2>3. \A u \in DOMAIN cache : u # r[1] => u \in DOMAIN cache' /\ cache'[u] = cache[u]
    BY <1>10 DEF Remember, With
  <2> QED
    BY <2>1, <2>2, <2>3, PatienceAssumption DEF OneAtATime, DirectTypeOK
<1>11. CASE Restart
  <2>1. UNCHANGED rows
        /\ \A r \in Tries : post'[r] = IF post[r] \in {"receiving", "enqueueing", "inserted"} THEN "dead" ELSE post[r]
    BY <1>11 DEF Restart
  <2>2. excused' = excused \cup DOMAIN cache \cup {r[1] : r \in {s \in Tries : post[s] = "inserted"}}
    BY <1>11 DEF Restart
  <2>3. \A r \in Tries : r \in rows /\ Kind[r[1]] = "single" => r[1] \in excused'
    BY <2>2 DEF OneAtATime
  <2> QED
    BY <2>1, <2>2, <2>3 DEF OneAtATime
<1>12. CASE UNCHANGED directVars
  BY <1>12 DEF directVars, OneAtATime
<1> QED
  BY <1>1, <1>2, <1>3, <1>4, <1>5, <1>6, <1>7, <1>8, <1>9, <1>10, <1>11, <1>12 DEF DirectNext

LEMMA DirectInvariance == DirectSpec => []DirectInvariant
<1>1. DirectInvariant /\ [DirectNext]_directVars => DirectInvariant'
  BY DirectTypes, RowsStayWhole, ToldStaysTrue, ImportsAreSentOnce, OneAttemptStays DEF DirectInvariant
<1> QED
  BY DirectStarts, <1>1, PTL DEF DirectSpec

\* However often a one-shot upload is sent, and whatever is lost on the way, it
\* makes one session, unless two attempts of it overlapped or the cache had
\* forgotten the first; and a session in the table has all its audio (/upload,
\* /upload/multi, /api/sessions/import and the uploader's retries).
THEOREM SentOftenStoredOnce == DirectSpec => []OnePerUpload
<1>1. ASSUME DirectInvariant
      PROVE  OnePerUpload
  <2> USE <1>1 DEF DirectInvariant
  <2>1. \A r \in rows : r \in Tries /\ dirs[r] = "whole"
    BY DEF DirectTypeOK, RowsAreWhole
  <2>2. \A u \in Uploads : sender[u].at = "done" => sender[u].told \in rows
    BY DEF ToldOfRows
  <2>3. \A r \in DOMAIN dirs \ rows : post[r] \in {"receiving", "enqueueing", "failed", "dead"}
    BY DEF DirectTypeOK, RowsAreWhole
  <2>4. ASSUME NEW r \in rows, NEW s \in rows, r[1] = s[1], r # s,
               Kind[r[1]] # "multi", r[1] \notin excused
        PROVE  FALSE
    <3>1. r \in Tries /\ s \in Tries /\ r[1] \in Uploads
      BY <2>1 DEF Tries
    <3>2. CASE Kind[r[1]] = "single"
      BY <3>1, <3>2, <2>4 DEF OneAtATime
    <3>3. CASE Kind[r[1]] = "import"
      <4>1. post[r] # "unsent" /\ post[s] # "unsent"
        BY <3>1 DEF RowsAreWhole
      <4>2. r[2] = 1 /\ s[2] = 1
        BY <3>1, <3>3, <2>4, <4>1 DEF ImportIsSentOnce
      <4> QED
        BY <3>1, <4>2, <2>4 DEF Tries
    <3> QED
      BY <3>1, <3>2, <3>3, <2>4, KindAssumption
  <2> QED
    BY <2>1, <2>2, <2>3, <2>4 DEF OnePerUpload
<1> QED
  BY <1>1, DirectInvariance, PTL

-----------------------------------------------------------------------------
(* Attachments, for any clients and documents and any caps.                *)

LEMMA RequestIsAPair ==
  ASSUME NEW r \in Requests
  PROVE  /\ r[1] \in Clients /\ r[2] \in 1..Retries[r[1]] /\ r = <<r[1], r[2]>>
         /\ r # FrameWriter
BY DocsAssumption DEF Requests, FrameWriter

LEMMA AttemptIsARequest ==
  ASSUME NEW c \in Clients, NEW k \in 1..Retries[c]
  PROVE  <<c, k>> \in Requests /\ <<c, k>>[1] = c
BY DEF Requests

LEMMA DocumentIsStaged ==
  ASSUME NEW c \in Clients, NEW i \in DOMAIN Docs[c]
  PROVE  /\ i \in Nat \ {0} /\ i <= Len(Docs[c]) /\ Docs[c][i].size \in Nat
         /\ Docs[c][i].name \in DocNames
BY DocsAssumption DEF DocNames

LEMMA UnsentFields ==
  /\ DOMAIN Unsent = {"pc", "empty", "slots", "room", "doc", "sent", "written"}
  /\ Unsent.pc = "unsent" /\ Unsent.doc = 1 /\ Unsent.sent = 0 /\ Unsent.written = {}
BY DEF Unsent

LEMMA OverFields ==
  ASSUME NEW status
  PROVE  /\ DOMAIN Over(status) = DOMAIN Unsent
         /\ Over(status).pc = status /\ Over(status).doc = 1 /\ Over(status).sent = 0
         /\ Over(status).written = {}
BY DEF Unsent, Over

LEMMA MinIsAnElement ==
  ASSUME NEW T \in SUBSET Nat, T # {}
  PROVE  Min(T) \in T
<1> DEFINE Upto == {0..x : x \in T}
<1>1. Upto \subseteq FiniteSubsetsOf(Nat) /\ Upto # {}
  <2>1. \A x \in T : IsFiniteSet(0..x) /\ 0..x \subseteq Nat
    BY FS_Interval
  <2> QED
    BY <2>1 DEF FiniteSubsetsOf
<1>2. PICK S \in Upto : \A R \in Upto : <<R, S>> \notin StrictSubsetOrdering(Nat)
  BY <1>1, FS_StrictSubsetOrderingWellFounded, WFMin
<1>3. PICK m \in T : S = 0..m
  OBVIOUS
<1>4. \A y \in T : m <= y
  <2> SUFFICES ASSUME NEW y \in T, y < m
               PROVE  FALSE
    OBVIOUS
  <2>1. 0..y \subseteq 0..m /\ 0..y # 0..m /\ 0..y \subseteq Nat /\ 0..m \subseteq Nat
    OBVIOUS
  <2>2. <<0..y, 0..m>> \in StrictSubsetOrdering(Nat)
    BY <2>1, ZenonT(30) DEF StrictSubsetOrdering
  <2> QED
    BY <1>2, <1>3, <2>2
<1> QED
  BY <1>4 DEF Min

\* _unique_path finds a name that no file has: there are more numbers up to
\* Stored + 1 than files.
LEMMA UniqueNameIsFree ==
  ASSUME IsFiniteSet(files), NEW name
  PROVE  \E i \in Nat : UniqueName(name) = <<name, i>> /\ <<name, i>> \notin Names
<1> DEFINE Free == {i \in 1..(Stored + 1) : <<name, i>> \notin Names}
           Holder == [i \in 1..(Stored + 1) |-> CHOOSE f \in files : f.name = <<name, i>>]
<1>1. Stored \in Nat
  BY FS_CardinalityType DEF Stored
<1>2. Free # {}
  <2> SUFFICES ASSUME Free = {}
               PROVE  FALSE
    OBVIOUS
  <2>1. \A i \in 1..(Stored + 1) : \E f \in files : f.name = <<name, i>>
    BY DEF Names
  <2>2. \A i \in 1..(Stored + 1) : Holder[i] \in files /\ Holder[i].name = <<name, i>>
    BY <2>1
  <2>3. \A i, j \in 1..(Stored + 1) : Holder[i] = Holder[j] => i = j
    BY <2>2
  <2>4. Holder \in [1..(Stored + 1) -> files]
    BY <2>2
  <2>5. Holder \in Injection(1..(Stored + 1), files)
    BY <2>3, <2>4 DEF Injection, IsInjective
  <2>6. Cardinality(1..(Stored + 1)) <= Stored
    BY <2>5, FS_Injection DEF Stored
  <2>7. Cardinality(1..(Stored + 1)) = Stored + 1
    BY <1>1, FS_Interval
  <2> QED
    BY <1>1, <2>6, <2>7
<1>3. Free \subseteq Nat
  BY <1>1
<1>4. Min(Free) \in Free
  BY <1>2, <1>3, MinIsAnElement
<1>5. UniqueName(name) = <<name, Min(Free)>>
  BY DEF UniqueName
<1> QED
  BY <1>3, <1>4, <1>5

LEMMA AttachStarts ==
  ASSUME AttachInit
  PROVE  AttachInvariant
<1>1. AttachTypeOK
  <2>1. IsFiniteSet({})
    BY FS_EmptySet
  <2>2. \A c \in Clients : 1 \in 1..Retries[c]
    BY DocsAssumption
  <2>3. \A r \in Requests : request[r] = Unsent
    BY DEF AttachInit
  <2>4. DOMAIN attempt = Clients /\ \A c \in Clients : attempt[c] \in 1..Retries[c]
    BY <2>2 DEF AttachInit
  <2>5. /\ there \in BOOLEAN /\ folder \in BOOLEAN /\ files = {}
        /\ client \in [Clients -> {"staged", "sending", "moved", "kept"}] /\ DOMAIN request = Requests
    BY DEF AttachInit
  <2>6. \A r \in Requests :
          /\ DOMAIN request[r] = DOMAIN Unsent
          /\ request[r].pc = "unsent" /\ request[r].doc = 1 /\ request[r].sent = 0
    BY <2>3, UnsentFields
  <2> QED
    BY <2>1, <2>3, <2>4, <2>5, <2>6 DEF AttachTypeOK
<1>2. DeletedIsEmpty /\ FilesHaveAnOwner /\ WrittenIsOwn /\ PartsAreThere /\ MovedIsStored
  BY UnsentFields DEF AttachInit, DeletedIsEmpty, FilesHaveAnOwner, WrittenIsOwn, PartsAreThere, MovedIsStored, Open
<1> QED
  BY <1>1, <1>2 DEF AttachInvariant

\* A request that ends without success takes back its own files and nobody
\* else's, but for those named like a frame (_AttachmentSink, the except clause).
LEMMA RefusalKeeps ==
  ASSUME AttachInvariant, NEW r \in Requests, Open(r),
         NEW status \in {"refused", "broken", "dropped"}, Refuse(r, status)
  PROVE  AttachInvariant'
<1>1. /\ UNCHANGED <<there, attempt, client>>
      /\ DOMAIN request' = Requests
      /\ request'[r] = Over(status)
      /\ \A q \in Requests : q # r => request'[q] = request[q]
  BY DEF AttachInvariant, AttachTypeOK, Refuse, Answer
<1>2. /\ files' = {f \in files : f.name \notin request[r].written}
      /\ folder' \in BOOLEAN /\ (folder' => folder)
  BY DEF AttachInvariant, AttachTypeOK, Refuse, TakeBack
<1>3. request'[r].pc = status /\ ~Open(r)'
  BY <1>1, OverFields DEF Open
<1>4. AttachTypeOK'
  <2>1. IsFiniteSet(files')
    BY <1>2, FS_Subset DEF AttachInvariant, AttachTypeOK
  <2>2. \A q \in Requests :
          /\ DOMAIN request'[q] = DOMAIN Unsent
          /\ request'[q].pc \in {"unsent", "between", "inside", "stored", "refused",
                               "broken", "undescribed", "dropped", "dead"}
          /\ request'[q].doc \in Nat \ {0} /\ request'[q].sent \in Nat
          /\ request'[q].pc = "unsent" => request'[q] = Unsent
          /\ request'[q].pc = "inside" => request'[q].doc <= Len(Docs[q[1]])
    BY <1>1, <1>3, OverFields DEF AttachInvariant, AttachTypeOK
  <2> QED
    BY <1>1, <1>2, <2>1, <2>2 DEF AttachInvariant, AttachTypeOK
<1>5. DeletedIsEmpty'
  BY <1>1, <1>2 DEF AttachInvariant, DeletedIsEmpty
<1>6. FilesHaveAnOwner'
  <2>1. \A f \in files' : f \in files /\ f.by # r
    BY <1>2, RequestIsAPair DEF AttachInvariant, FilesHaveAnOwner
  <2>2. \A f \in files' : f.by \in Requests \cup {FrameWriter}
    BY <2>1 DEF AttachInvariant, AttachTypeOK
  <2> QED
    BY <1>1, <2>1, <2>2 DEF AttachInvariant, FilesHaveAnOwner, Open
<1>7. \A f \in files : there /\ f.by # r /\ f.name[1] \notin CueNames => f \in files'
  BY <1>2 DEF AttachInvariant, WrittenIsOwn, AttachTypeOK
<1>8. WrittenIsOwn'
  BY <1>1, <1>3, <1>7 DEF AttachInvariant, WrittenIsOwn, Open
<1>9. PartsAreThere'
  BY <1>1, <1>3, <1>7 DEF AttachInvariant, PartsAreThere, Open
<1>10. MovedIsStored'
  <2> SUFFICES ASSUME NEW c \in Clients, client[c] = "moved"
               PROVE  \E k \in 1..Retries[c] : request'[<<c, k>>].pc = "stored"
    BY <1>1 DEF MovedIsStored
  <2>1. PICK k \in 1..Retries[c] : request[<<c, k>>].pc = "stored"
    BY DEF AttachInvariant, MovedIsStored
  <2> QED
    BY <1>1, <2>1, AttemptIsARequest DEF Open
<1> QED
  BY <1>4, <1>5, <1>6, <1>8, <1>9, <1>10 DEF AttachInvariant

\* open_file: a new file, under a name nobody has.
LEMMA OpeningKeeps ==
  ASSUME AttachInvariant, NEW r \in Requests, OpenPart(r)
  PROVE  AttachInvariant'
<1> DEFINE name == UniqueName(Doc(r).name)
           new == [name |-> name, by |-> r, doc |-> request[r].doc, size |-> 0, whole |-> FALSE]
<1>1. Open(r) /\ request[r].pc = "between" /\ request[r].doc <= Len(Docs[r[1]])
  BY DEF OpenPart, Open
<1>2. CASE Refuse(r, "refused") \/ Refuse(r, "broken")
  BY <1>1, <1>2, RefusalKeeps
<1>3. CASE /\ folder
           /\ files' = Put(new)
           /\ request' = [request EXCEPT ![r].pc = "inside", ![r].sent = 0,
                                         ![r].written = @ \cup {name}]
           /\ UNCHANGED <<there, folder, attempt, client, frames, troubles>>
  <2>1. PICK i \in Nat : name = <<Doc(r).name, i>> /\ name \notin Names
    BY UniqueNameIsFree DEF AttachInvariant, AttachTypeOK
  <2>2. files' = files \cup {new} /\ \A f \in files : f.name # name
    BY <1>3, <2>1 DEF Put, Names
  <2>3. /\ request[r].doc \in DOMAIN Docs[r[1]] /\ Doc(r).name \in DocNames
        /\ Doc(r) = Docs[r[1]][request[r].doc]
    BY <1>1, RequestIsAPair, DocsAssumption, DocumentIsStaged DEF AttachInvariant, AttachTypeOK, Doc
  <2> HIDE DEF name
  <2>4. /\ DOMAIN request' = Requests /\ DOMAIN request'[r] = DOMAIN request[r]
        /\ request'[r].pc = "inside" /\ request'[r].sent = 0 /\ request'[r].doc = request[r].doc
        /\ request'[r].written = request[r].written \cup {name}
        /\ \A q \in Requests : q # r => request'[q] = request[q]
    BY <1>3, UnsentFields DEF AttachInvariant, AttachTypeOK
  <2>5. /\ new.name = name /\ new.by = r /\ new.doc = request[r].doc /\ new.size = 0
        /\ new \in [name : (DocNames \cup CueNames) \X Nat, by : Requests \cup {FrameWriter},
                    doc : Nat, size : Nat, whole : BOOLEAN]
    BY <2>1, <2>3 DEF AttachInvariant, AttachTypeOK
  <2> HIDE DEF new
  <2>6. AttachTypeOK'
    <3>1. IsFiniteSet(files')
      BY <2>2, FS_AddElement DEF AttachInvariant, AttachTypeOK
    <3>2. \A q \in Requests :
          /\ DOMAIN request'[q] = DOMAIN Unsent
          /\ request'[q].pc \in {"unsent", "between", "inside", "stored", "refused",
                               "broken", "undescribed", "dropped", "dead"}
          /\ request'[q].doc \in Nat \ {0} /\ request'[q].sent \in Nat
          /\ request'[q].pc = "unsent" => request'[q] = Unsent
          /\ request'[q].pc = "inside" => request'[q].doc <= Len(Docs[q[1]])
      BY <1>1, <2>4 DEF AttachInvariant, AttachTypeOK
    <3>3. \A f, g \in files' : f.name = g.name => f = g
      BY <2>2, <2>5 DEF AttachInvariant, AttachTypeOK
    <3> QED
      BY <1>3, <2>2, <2>4, <2>5, <3>1, <3>2, <3>3 DEF AttachInvariant, AttachTypeOK
  <2>7. DeletedIsEmpty'
    BY <1>3 DEF AttachInvariant, DeletedIsEmpty
  <2>8. FilesHaveAnOwner'
    <3> SUFFICES ASSUME NEW f \in files', f.by # FrameWriter
                 PROVE  /\ request'[f.by].pc \notin {"unsent", "refused", "broken", "dropped"}
                        /\ Open(f.by)' => f.name \in request'[f.by].written
      BY DEF FilesHaveAnOwner
    <3>1. CASE f = new
      BY <3>1, <2>4, <2>5
    <3>2. CASE f \in files
      <4>1. f.by \in Requests
        BY <3>2 DEF AttachInvariant, AttachTypeOK
      <4> QED
        BY <4>1, <3>2, <1>1, <2>4 DEF AttachInvariant, FilesHaveAnOwner, Open
    <3> QED
      BY <3>1, <3>2, <2>2
  <2>9. WrittenIsOwn'
    <3> SUFFICES ASSUME there, NEW q \in Requests, Open(q)', NEW n \in request'[q].written, n[1] \notin CueNames
                 PROVE  \E f \in files' : f.name = n /\ f.by = q
      BY <1>3 DEF WrittenIsOwn
    <3>1. CASE q = r /\ n = name
      BY <3>1, <2>2, <2>5
    <3>2. CASE q # r \/ n # name
      <4>1. Open(q) /\ n \in request[q].written
        BY <3>2, <1>1, <2>4 DEF Open
      <4> QED
        BY <4>1, <2>2 DEF AttachInvariant, WrittenIsOwn
    <3> QED
      BY <3>1, <3>2
  <2>10. PartsAreThere'
    <3> SUFFICES ASSUME there, NEW q \in Requests, NEW j \in DOMAIN Docs[q[1]], Docs[q[1]][j].name \notin CueNames
                 PROVE  /\ request'[q].pc = "stored" \/ (Open(q)' /\ j < request'[q].doc) =>
                             \E f \in files' : /\ f.by = q /\ f.doc = j /\ f.whole
                                               /\ f.size = Docs[q[1]][j].size /\ f.name[1] = Docs[q[1]][j].name
                        /\ request'[q].pc = "inside" /\ j = request'[q].doc =>
                             \E f \in files' : /\ f.by = q /\ f.doc = j
                                               /\ f.size = request'[q].sent /\ f.name[1] = Docs[q[1]][j].name
      BY <1>3 DEF PartsAreThere
    <3>1. CASE q = r
      <4>1. new.name[1] = Docs[r[1]][request[r].doc].name
        BY <2>1, <2>3, <2>5
      <4> QED
        BY <3>1, <4>1, <1>1, <2>2, <2>4, <2>5 DEF AttachInvariant, PartsAreThere, Open
    <3>2. CASE q # r
      BY <3>2, <2>2, <2>4 DEF AttachInvariant, PartsAreThere, Open
    <3> QED
      BY <3>1, <3>2
  <2>11. MovedIsStored'
    <3> SUFFICES ASSUME NEW c \in Clients, client[c] = "moved"
                 PROVE  \E k \in 1..Retries[c] : request'[<<c, k>>].pc = "stored"
      BY <1>3 DEF MovedIsStored
    <3>1. PICK k \in 1..Retries[c] : request[<<c, k>>].pc = "stored"
      BY DEF AttachInvariant, MovedIsStored
    <3> QED
      BY <1>1, <2>4, <3>1, AttemptIsARequest
  <2> QED
    BY <2>6, <2>7, <2>8, <2>9, <2>10, <2>11 DEF AttachInvariant
<1> QED
  BY <1>2, <1>3 DEF OpenPart

\* A chunk, or the end of a document: the current file grows or is closed.
LEMMA MarkingKeeps ==
  ASSUME AttachInvariant, NEW r \in Requests, request[r].pc = "inside",
         request[r].sent <= Doc(r).size,
         UNCHANGED <<there, folder, attempt, client>>,
         DOMAIN request' = Requests, DOMAIN request'[r] = DOMAIN request[r],
         \A q \in Requests : q # r => request'[q] = request[q],
         request'[r].written = request[r].written,
         NEW mark, DOMAIN mark = files,
         files' = {mark[f] : f \in files},
         \A f \in files : f \notin Current(r) => mark[f] = f,
         \/ /\ request'[r].pc = "inside" /\ request'[r].doc = request[r].doc
            /\ request'[r].sent = request[r].sent + 1
            /\ \A f \in Current(r) : mark[f] = [f EXCEPT !.size = @ + 1]
         \/ /\ request[r].sent = Doc(r).size
            /\ request'[r].pc = "between" /\ request'[r].doc = request[r].doc + 1
            /\ request'[r].sent = request[r].sent
            /\ \A f \in Current(r) : mark[f] = [f EXCEPT !.whole = TRUE]
  PROVE  AttachInvariant'
<1>1. \A f \in files : /\ mark[f].name = f.name /\ mark[f].by = f.by /\ mark[f].doc = f.doc
                       /\ mark[f] \in [name : (DocNames \cup CueNames) \X Nat, by : Requests \cup {FrameWriter},
                                       doc : Nat, size : Nat, whole : BOOLEAN]
  <2> SUFFICES ASSUME NEW f \in files
               PROVE  /\ mark[f].name = f.name /\ mark[f].by = f.by /\ mark[f].doc = f.doc
                      /\ mark[f] \in [name : (DocNames \cup CueNames) \X Nat, by : Requests \cup {FrameWriter},
                                      doc : Nat, size : Nat, whole : BOOLEAN]
    OBVIOUS
  <2> DEFINE N == (DocNames \cup CueNames) \X Nat
             B == Requests \cup {FrameWriter}
  <2>1. f \in [name : N, by : B, doc : Nat, size : Nat, whole : BOOLEAN]
    BY DEF AttachInvariant, AttachTypeOK
  <2> HIDE DEF N, B
  <2>2. mark[f] = f \/ mark[f] = [f EXCEPT !.size = @ + 1] \/ mark[f] = [f EXCEPT !.whole = TRUE]
    OBVIOUS
  <2>3. /\ mark[f].name = f.name /\ mark[f].by = f.by /\ mark[f].doc = f.doc
        /\ mark[f] \in [name : N, by : B, doc : Nat, size : Nat, whole : BOOLEAN]
    <3>1. CASE mark[f] = f
      BY ONLY <2>1, <3>1
    <3>2. CASE mark[f] = [f EXCEPT !.size = @ + 1]
      <4>1. f.size + 1 \in Nat
        BY ONLY <2>1
      <4> QED
        BY ONLY <2>1, <3>2, <4>1
    <3>3. CASE mark[f] = [f EXCEPT !.whole = TRUE]
      BY ONLY <2>1, <3>3
    <3> QED
      BY <2>2, <3>1, <3>2, <3>3
  <2> QED
    BY <2>3 DEF N, B
<1>2. \A f \in files' : \E g \in files : f = mark[g]
  OBVIOUS
<1>3. Doc(r) = Docs[r[1]][request[r].doc] /\ request[r].doc \in DOMAIN Docs[r[1]]
  BY RequestIsAPair, DocsAssumption DEF AttachInvariant, AttachTypeOK, Doc
<1>4. AttachTypeOK'
  <2>1. IsFiniteSet(files')
    <3>1. [f \in files |-> mark[f]] \in Surjection(files, files')
      BY DEF Surjection
    <3> QED
      BY <3>1, FS_Surjection DEF AttachInvariant, AttachTypeOK
  <2>2. \A q \in Requests :
          /\ DOMAIN request'[q] = DOMAIN Unsent
          /\ request'[q].pc \in {"unsent", "between", "inside", "stored", "refused",
                               "broken", "undescribed", "dropped", "dead"}
          /\ request'[q].doc \in Nat \ {0} /\ request'[q].sent \in Nat
          /\ request'[q].pc = "unsent" => request'[q] = Unsent
          /\ request'[q].pc = "inside" => request'[q].doc <= Len(Docs[q[1]])
    BY DEF AttachInvariant, AttachTypeOK
  <2>3. \A f, g \in files' : f.name = g.name => f = g
    BY <1>1, <1>2 DEF AttachInvariant, AttachTypeOK
  <2>4. files' \subseteq [name : (DocNames \cup CueNames) \X Nat, by : Requests \cup {FrameWriter},
                          doc : Nat, size : Nat, whole : BOOLEAN]
    BY <1>1, <1>2
  <2> QED
    BY <2>1, <2>2, <2>3, <2>4 DEF AttachInvariant, AttachTypeOK
<1>5. DeletedIsEmpty'
  BY DEF AttachInvariant, DeletedIsEmpty
<1>6. FilesHaveAnOwner'
  <2> SUFFICES ASSUME NEW f \in files', f.by # FrameWriter
               PROVE  /\ request'[f.by].pc \notin {"unsent", "refused", "broken", "dropped"}
                      /\ Open(f.by)' => f.name \in request'[f.by].written
    BY DEF FilesHaveAnOwner
  <2>1. PICK g \in files : f = mark[g]
    BY <1>2
  <2>2. f.by = g.by /\ f.name = g.name /\ g.by \in Requests
    BY <1>1, <2>1
  <2> QED
    BY <2>2 DEF AttachInvariant, FilesHaveAnOwner, Open
<1>7. WrittenIsOwn'
  <2> SUFFICES ASSUME there, NEW q \in Requests, Open(q)', NEW n \in request'[q].written, n[1] \notin CueNames
               PROVE  \E f \in files' : f.name = n /\ f.by = q
    BY DEF WrittenIsOwn
  <2>1. Open(q) /\ n \in request[q].written
    BY DEF Open
  <2>2. PICK f \in files : f.name = n /\ f.by = q
    BY <2>1 DEF AttachInvariant, WrittenIsOwn
  <2> QED
    BY <2>2, <1>1
<1>8. PartsAreThere'
  <2> SUFFICES ASSUME there, NEW q \in Requests, NEW j \in DOMAIN Docs[q[1]], Docs[q[1]][j].name \notin CueNames
               PROVE  /\ request'[q].pc = "stored" \/ (Open(q)' /\ j < request'[q].doc) =>
                           \E f \in files' : /\ f.by = q /\ f.doc = j /\ f.whole
                                             /\ f.size = Docs[q[1]][j].size /\ f.name[1] = Docs[q[1]][j].name
                      /\ request'[q].pc = "inside" /\ j = request'[q].doc =>
                           \E f \in files' : /\ f.by = q /\ f.doc = j
                                             /\ f.size = request'[q].sent /\ f.name[1] = Docs[q[1]][j].name
    BY DEF PartsAreThere
  <2>0. j \in Nat /\ request[r].doc \in Nat
    BY RequestIsAPair, DocumentIsStaged DEF AttachInvariant, AttachTypeOK
  <2>1. \A f \in files : f.by # r \/ f.doc # request[r].doc => f \in files'
    BY DEF Current
  <2>2. CASE q # r
    BY <2>1, <2>2 DEF AttachInvariant, PartsAreThere, Open
  <2>3. CASE q = r /\ j # request[r].doc
    <3>1. request'[q].pc # "stored"
      BY <2>3
    <3>2. ASSUME j < request'[q].doc
          PROVE  j < request[q].doc
      BY <2>0, <2>3, <3>2
    <3>3. request'[q].pc = "inside" => j # request'[q].doc
      BY <2>3
    <3> QED
      BY <2>1, <2>3, <3>1, <3>2, <3>3 DEF AttachInvariant, PartsAreThere, Open
  <2>4. CASE q = r /\ j = request[r].doc
    <3>1. PICK f \in files : f.by = q /\ f.doc = j /\ f.size = request[r].sent /\ f.name[1] = Docs[q[1]][j].name
      BY <2>4 DEF AttachInvariant, PartsAreThere, Open
    <3>2. f \in Current(r) /\ mark[f] \in files'
      BY <2>4, <3>1 DEF Current
    <3>3. f \in [name : (DocNames \cup CueNames) \X Nat, by : Requests \cup {FrameWriter},
                 doc : Nat, size : Nat, whole : BOOLEAN]
      BY <3>1 DEF AttachInvariant, AttachTypeOK
    <3>4. CASE /\ request'[r].pc = "inside" /\ request'[r].doc = request[r].doc
               /\ request'[r].sent = request[r].sent + 1
               /\ \A g \in Current(r) : mark[g] = [g EXCEPT !.size = @ + 1]
      <4>0. mark[f] = [f EXCEPT !.size = @ + 1] /\ "size" \in DOMAIN f
        BY <3>2, <3>3, <3>4
      <4>1. mark[f].size = request'[r].sent
        BY <4>0, <3>1, <3>4
      <4>2. ~(j < request'[q].doc)
        BY <2>0, <2>4, <3>4
      <4> QED
        BY <2>4, <3>1, <3>2, <3>4, <4>1, <4>2, <1>1
    <3>5. CASE /\ request[r].sent = Doc(r).size
               /\ request'[r].pc = "between"
               /\ \A g \in Current(r) : mark[g] = [g EXCEPT !.whole = TRUE]
      <4>1. mark[f].size = Docs[q[1]][j].size /\ mark[f].whole
        BY <1>3, <2>4, <3>1, <3>2, <3>3, <3>5
      <4> QED
        BY <2>4, <3>1, <3>2, <3>5, <4>1, <1>1, ZenonT(60)
    <3> QED
      BY <3>4, <3>5
  <2> QED
    BY <2>2, <2>3, <2>4
<1>9. MovedIsStored'
  <2> SUFFICES ASSUME NEW c \in Clients, client[c] = "moved"
               PROVE  \E k \in 1..Retries[c] : request'[<<c, k>>].pc = "stored"
    BY DEF MovedIsStored
  <2>1. PICK k \in 1..Retries[c] : request[<<c, k>>].pc = "stored"
    BY DEF AttachInvariant, MovedIsStored
  <2> QED
    BY <2>1, AttemptIsARequest
<1> QED
  BY <1>4, <1>5, <1>6, <1>7, <1>8, <1>9 DEF AttachInvariant

LEMMA ChunkKeeps ==
  ASSUME AttachInvariant, NEW r \in Requests, Chunk(r)
  PROVE  AttachInvariant'
<1>1. CASE Refuse(r, "refused")
  BY <1>1, RefusalKeeps DEF Chunk, Open
<1>2. CASE /\ files' = {IF f \in Current(r) THEN [f EXCEPT !.size = @ + 1] ELSE f : f \in files}
           /\ request' = [request EXCEPT ![r].sent = @ + 1, ![r].room = @ - 1]
           /\ UNCHANGED <<there, folder, attempt, client, frames, troubles>>
  <2> DEFINE mark == [f \in files |-> IF f \in Current(r) THEN [f EXCEPT !.size = @ + 1] ELSE f]
  <2>1. files' = {mark[f] : f \in files}
    BY <1>2
  <2>2. \A f \in files : f \notin Current(r) => mark[f] = f
    OBVIOUS
  <2>3. \A f \in Current(r) : mark[f] = [f EXCEPT !.size = @ + 1]
    BY DEF Current
  <2>4. DOMAIN mark = files
    OBVIOUS
  <2> HIDE DEF mark
  <2>5. /\ DOMAIN request' = Requests /\ DOMAIN request'[r] = DOMAIN request[r]
        /\ \A q \in Requests : q # r => request'[q] = request[q]
        /\ request'[r].pc = "inside" /\ request'[r].doc = request[r].doc
        /\ request'[r].written = request[r].written /\ request'[r].sent = request[r].sent + 1
    BY <1>2, UnsentFields DEF AttachInvariant, AttachTypeOK, Chunk
  <2>6. request[r].pc = "inside" /\ request[r].sent <= Doc(r).size
    <3>1. Doc(r).size \in Nat
      BY RequestIsAPair, DocsAssumption DEF AttachInvariant, AttachTypeOK, Doc, Chunk
    <3> QED
      BY <3>1 DEF Chunk, AttachInvariant, AttachTypeOK
  <2> QED
    BY <1>2, <2>1, <2>2, <2>3, <2>4, <2>5, <2>6, MarkingKeeps
<1> QED
  BY <1>1, <1>2 DEF Chunk

LEMMA ClosingKeeps ==
  ASSUME AttachInvariant, NEW r \in Requests, ClosePart(r)
  PROVE  AttachInvariant'
<1> DEFINE mark == [f \in files |-> IF f \in Current(r) THEN [f EXCEPT !.whole = TRUE] ELSE f]
<1>1. files' = {mark[f] : f \in files}
  BY DEF ClosePart
<1>2. \A f \in files : f \notin Current(r) => mark[f] = f
  OBVIOUS
<1>3. \A f \in Current(r) : mark[f] = [f EXCEPT !.whole = TRUE]
  BY DEF Current
<1>4. DOMAIN mark = files
  OBVIOUS
<1> HIDE DEF mark
<1>5. /\ DOMAIN request' = Requests /\ DOMAIN request'[r] = DOMAIN request[r]
      /\ \A q \in Requests : q # r => request'[q] = request[q]
      /\ request'[r].pc = "between" /\ request'[r].doc = request[r].doc + 1
      /\ request'[r].written = request[r].written /\ request'[r].sent = request[r].sent
  BY UnsentFields DEF AttachInvariant, AttachTypeOK, ClosePart
<1>6. request[r].pc = "inside" /\ request[r].sent = Doc(r).size /\ request[r].sent <= Doc(r).size
  BY DEF ClosePart, AttachInvariant, AttachTypeOK
<1>7. UNCHANGED <<there, folder, attempt, client>>
  BY DEF ClosePart
<1> QED
  BY <1>1, <1>2, <1>3, <1>4, <1>5, <1>6, <1>7, MarkingKeeps

\* What changes the handler's or the client's side only: a request may begin,
\* with nothing written; one that is open may end, with all its documents there
\* or otherwise than stored; what is over stays.
LEMMA AnsweringKeeps ==
  ASSUME AttachInvariant, UNCHANGED <<there, files>>,
         folder' \in BOOLEAN, ~there => folder' = folder,
         DOMAIN attempt' = Clients, \A c \in Clients : attempt'[c] \in 1..Retries[c],
         client' \in [Clients -> {"staged", "sending", "moved", "kept"}],
         \A c \in Clients : client'[c] = "moved" /\ client[c] # "moved" => request[<<c, attempt[c]>>].pc = "stored",
         DOMAIN request' = Requests,
         \A r \in Requests :
           \/ request'[r] = request[r]
           \/ /\ request[r].pc = "unsent" /\ request'[r].pc \in {"between", "refused"}
              /\ DOMAIN request'[r] = DOMAIN Unsent
              /\ request'[r].doc = 1 /\ request'[r].sent = 0 /\ request'[r].written = {}
           \/ /\ Open(r)
              /\ \/ request'[r] = Over("dead") \/ request'[r] = Over("undescribed")
                 \/ request'[r] = Over("stored") /\ request[r].doc > Len(Docs[r[1]])
  PROVE  AttachInvariant'
<1>0. \A r \in Requests :
        Open(r)' => \/ Open(r) /\ request'[r] = request[r]
                    \/ /\ request[r].pc = "unsent" /\ request'[r].pc = "between"
                       /\ request'[r].doc = 1 /\ request'[r].written = {}
  BY OverFields DEF Open
<1>1. AttachTypeOK'
  <2> SUFFICES ASSUME NEW r \in Requests
               PROVE  /\ DOMAIN request'[r] = DOMAIN Unsent
                      /\ request'[r].pc \in {"unsent", "between", "inside", "stored", "refused",
                                           "broken", "undescribed", "dropped", "dead"}
                      /\ request'[r].doc \in Nat \ {0} /\ request'[r].sent \in Nat
                      /\ request'[r].pc = "unsent" => request'[r] = Unsent
                      /\ request'[r].pc = "inside" => request'[r].doc <= Len(Docs[r[1]])
    BY DEF AttachInvariant, AttachTypeOK
  <2>1. CASE request'[r] = request[r]
    BY <2>1 DEF AttachInvariant, AttachTypeOK
  <2>2. CASE /\ request'[r].pc \in {"between", "refused"} /\ DOMAIN request'[r] = DOMAIN Unsent
             /\ request'[r].doc = 1 /\ request'[r].sent = 0
    BY <2>2
  <2>3. CASE request'[r] = Over("dead") \/ request'[r] = Over("undescribed") \/ request'[r] = Over("stored")
    BY <2>3, OverFields
  <2> QED
    BY <2>1, <2>2, <2>3
<1>2. DeletedIsEmpty'
  BY DEF AttachInvariant, DeletedIsEmpty
<1>3. FilesHaveAnOwner'
  <2> SUFFICES ASSUME NEW f \in files, f.by # FrameWriter
               PROVE  /\ request'[f.by].pc \notin {"unsent", "refused", "broken", "dropped"}
                      /\ Open(f.by)' => f.name \in request'[f.by].written
    BY DEF FilesHaveAnOwner
  <2>1. f.by \in Requests
    BY DEF AttachInvariant, AttachTypeOK
  <2>2. request[f.by].pc # "unsent"
    BY DEF AttachInvariant, FilesHaveAnOwner
  <2> QED
    BY <1>0, <2>1, <2>2, OverFields DEF AttachInvariant, FilesHaveAnOwner
<1>4. WrittenIsOwn'
  BY <1>0 DEF AttachInvariant, WrittenIsOwn
<1>5. there' = there
  OBVIOUS
<1>6. PartsAreThere'
  <2>1. ASSUME there, NEW q \in Requests, NEW j \in DOMAIN Docs[q[1]], Docs[q[1]][j].name \notin CueNames
        PROVE  /\ request'[q].pc = "stored" \/ (Open(q)' /\ j < request'[q].doc) =>
                    \E f \in files' : /\ f.by = q /\ f.doc = j /\ f.whole
                                      /\ f.size = Docs[q[1]][j].size /\ f.name[1] = Docs[q[1]][j].name
               /\ request'[q].pc = "inside" /\ j = request'[q].doc =>
                    \E f \in files' : /\ f.by = q /\ f.doc = j
                                      /\ f.size = request'[q].sent /\ f.name[1] = Docs[q[1]][j].name
    <3>0. files' = files
      OBVIOUS
    <3>1. j \in Nat \ {0} /\ j <= Len(Docs[q[1]]) /\ Len(Docs[q[1]]) \in Nat /\ request[q].doc \in Nat
      BY RequestIsAPair, DocumentIsStaged, DocsAssumption DEF AttachInvariant, AttachTypeOK
    <3>2. CASE request'[q] = request[q]
      BY <2>1, <3>0, <3>2 DEF AttachInvariant, PartsAreThere, Open
    <3>3. CASE request'[q].pc \in {"between", "refused"} /\ request'[q].doc = 1
      BY <3>1, <3>3
    <3>4. CASE request'[q] = Over("dead") \/ request'[q] = Over("undescribed")
      BY <3>4, OverFields DEF Open
    <3>5. CASE Open(q) /\ request'[q] = Over("stored") /\ request[q].doc > Len(Docs[q[1]])
      <4>1. j < request[q].doc
        BY <3>1, <3>5
      <4>2. \E f \in files : /\ f.by = q /\ f.doc = j /\ f.whole
                             /\ f.size = Docs[q[1]][j].size /\ f.name[1] = Docs[q[1]][j].name
        BY <2>1, <3>5, <4>1 DEF AttachInvariant, PartsAreThere
      <4>3. request'[q].pc = "stored"
        BY <3>5, OverFields
      <4> QED
        BY <3>0, <4>2, <4>3
    <3> QED
      BY <3>2, <3>3, <3>4, <3>5
  <2> QED
    BY ONLY <1>5, <2>1 DEF PartsAreThere
<1>7. MovedIsStored'
  <2>1. \A r \in Requests : request[r].pc = "stored" => request'[r].pc = "stored"
    BY DEF Open
  <2> SUFFICES ASSUME NEW c \in Clients, client'[c] = "moved"
               PROVE  \E k \in 1..Retries[c] : request'[<<c, k>>].pc = "stored"
    BY DEF MovedIsStored
  <2>2. \E k \in 1..Retries[c] : request[<<c, k>>].pc = "stored"
    BY DEF AttachInvariant, MovedIsStored, AttachTypeOK
  <2> QED
    BY <2>1, <2>2, AttemptIsARequest
<1> QED
  BY <1>1, <1>2, <1>3, <1>4, <1>6, <1>7 DEF AttachInvariant

\* The worker's frames replace what is named like them, and nothing else.
LEMMA FramingKeeps ==
  ASSUME AttachInvariant, there, UNCHANGED <<there, attempt, client, request>>, folder' \in BOOLEAN,
         NEW frame, files' \subseteq files \cup {frame}, frame.by = FrameWriter,
         frame \in [name : (DocNames \cup CueNames) \X Nat, by : Requests \cup {FrameWriter},
                    doc : Nat, size : Nat, whole : BOOLEAN],
         \A f \in files' : f.name = frame.name => f = frame,
         \A f \in files : f.name[1] \notin CueNames => f \in files'
  PROVE  AttachInvariant'
<1>1. AttachTypeOK'
  <2>1. IsFiniteSet(files')
    <3>1. IsFiniteSet(files \cup {frame})
      BY FS_AddElement DEF AttachInvariant, AttachTypeOK
    <3> QED
      BY <3>1, FS_Subset
  <2>2. \A f, g \in files' : f.name = g.name => f = g
    BY DEF AttachInvariant, AttachTypeOK
  <2>3. files' \subseteq [name : (DocNames \cup CueNames) \X Nat, by : Requests \cup {FrameWriter},
                          doc : Nat, size : Nat, whole : BOOLEAN]
    BY DEF AttachInvariant, AttachTypeOK
  <2> QED
    BY <2>1, <2>2, <2>3 DEF AttachInvariant, AttachTypeOK
<1>2. DeletedIsEmpty' /\ MovedIsStored'
  BY DEF AttachInvariant, DeletedIsEmpty, MovedIsStored
<1>3. FilesHaveAnOwner'
  BY DEF AttachInvariant, FilesHaveAnOwner, Open
<1>4. WrittenIsOwn'
  BY DEF AttachInvariant, WrittenIsOwn, Open
<1>5. PartsAreThere'
  BY DEF AttachInvariant, PartsAreThere, Open
<1> QED
  BY <1>1, <1>2, <1>3, <1>4, <1>5 DEF AttachInvariant

LEMMA AttachStep ==
  ASSUME AttachInvariant, [AttachNext]_attachVars
  PROVE  AttachInvariant'
<1> USE DEF AttachInvariant, AttachTypeOK
<1>1. ASSUME NEW c \in Clients, Send(c)
      PROVE  AttachInvariant'
  <2>1. client' = [client EXCEPT ![c] = "sending"] /\ UNCHANGED <<there, folder, files, attempt, request>>
    BY <1>1 DEF Send
  <2> QED
    BY <2>1, AnsweringKeeps
<1>2. ASSUME NEW c \in Clients, Begin(c)
      PROVE  AttachInvariant'
  <2> DEFINE r == <<c, attempt[c]>>
  <2>1. r \in Requests
    BY AttemptIsARequest
  <2>2. /\ request[r].pc = "unsent" /\ request[r] = Unsent
        /\ UNCHANGED <<there, files, attempt, client>> /\ folder' \in BOOLEAN
        /\ DOMAIN request' = Requests /\ \A q \in Requests : q # r => request'[q] = request[q]
    BY <1>2, <2>1 DEF Begin
  <2>3. ~there => folder' = folder
    BY <1>2 DEF Begin
  <2>4. \/ request' = [request EXCEPT ![r].pc = "refused"]
        \/ request' = [request EXCEPT ![r].pc = "between", ![r].empty = (files = {}),
                   ![r].slots = MaxCount - Stored, ![r].room = MaxTotal - Bytes]
    BY <1>2 DEF Begin
  <2>5. /\ request'[r].pc \in {"between", "refused"} /\ DOMAIN request'[r] = DOMAIN Unsent
        /\ request'[r].doc = 1 /\ request'[r].sent = 0 /\ request'[r].written = {}
    <3>1. CASE request' = [request EXCEPT ![r].pc = "refused"]
      BY <2>1, <2>2, <3>1, UnsentFields
    <3>2. CASE request' = [request EXCEPT ![r].pc = "between", ![r].empty = (files = {}),
                   ![r].slots = MaxCount - Stored, ![r].room = MaxTotal - Bytes]
      <4>1. request'[r] = [request[r] EXCEPT !.pc = "between", !.empty = (files = {}),
                             !.slots = MaxCount - Stored, !.room = MaxTotal - Bytes]
        BY <2>1, <2>2, <3>2
      <4> QED
        BY <2>2, <4>1, UnsentFields
    <3> QED
      BY <2>4, <3>1, <3>2
  <2> HIDE DEF r
  <2> QED
    BY <2>1, <2>2, <2>3, <2>5, AnsweringKeeps
<1>3. ASSUME NEW c \in Clients, Learn(c)
      PROVE  AttachInvariant'
  <2>1. /\ UNCHANGED <<there, folder, files, attempt, request>>
        /\ \/ client' = [client EXCEPT ![c] = "moved"] /\ request[<<c, attempt[c]>>].pc = "stored"
           \/ client' = [client EXCEPT ![c] = "kept"]
    BY <1>3 DEF Learn
  <2> QED
    BY <2>1, AnsweringKeeps
<1>4. ASSUME NEW c \in Clients, NetError(c)
      PROVE  AttachInvariant'
  <2>1. /\ UNCHANGED <<there, folder, files, request>>
        /\ \/ attempt[c] < Retries[c] /\ attempt' = [attempt EXCEPT ![c] = @ + 1] /\ UNCHANGED client
           \/ client' = [client EXCEPT ![c] = "kept"] /\ UNCHANGED attempt
    BY <1>4 DEF NetError
  <2>2. DOMAIN attempt' = Clients /\ \A d \in Clients : attempt'[d] \in 1..Retries[d]
    BY <2>1, DocsAssumption
  <2> QED
    BY <2>1, <2>2, AnsweringKeeps
<1>5. ASSUME NEW r \in Requests, OpenPart(r)
      PROVE  AttachInvariant'
  BY <1>5, OpeningKeeps
<1>6. ASSUME NEW r \in Requests, Chunk(r)
      PROVE  AttachInvariant'
  BY <1>6, ChunkKeeps
<1>7. ASSUME NEW r \in Requests, ClosePart(r)
      PROVE  AttachInvariant'
  BY <1>7, ClosingKeeps
<1>8. ASSUME NEW r \in Requests, End(r)
      PROVE  AttachInvariant'
  <2>1. /\ Open(r) /\ request[r].doc > Len(Docs[r[1]])
        /\ UNCHANGED <<there, folder, files, attempt, client>>
        /\ \/ request' = [request EXCEPT ![r] = Over("stored")]
           \/ request' = [request EXCEPT ![r] = Over("undescribed")]
    BY <1>8 DEF End, Answer, Open
  <2> QED
    BY <2>1, AnsweringKeeps
<1>9. ASSUME NEW r \in Requests, Disconnected(r)
      PROVE  AttachInvariant'
  BY <1>9, RefusalKeeps DEF Disconnected, Open
<1>10. CASE FramesStart
  <2>1. /\ there /\ UNCHANGED <<there, attempt, client, request>> /\ folder' \in BOOLEAN
        /\ files' = {f \in files : f.name[1] \notin CueNames}
    BY <1>10 DEF FramesStart
  <2>2. AttachTypeOK'
    BY <2>1, FS_Subset
  <2>3. DeletedIsEmpty' /\ MovedIsStored' /\ FilesHaveAnOwner'
    BY <2>1 DEF DeletedIsEmpty, MovedIsStored, FilesHaveAnOwner, Open
  <2>4. WrittenIsOwn'
    BY <2>1 DEF WrittenIsOwn, Open
  <2>5. PartsAreThere'
    <3>1. there /\ PartsAreThere /\ UNCHANGED <<there, request>>
      BY <2>1
    <3>2. \A f \in files : f.name[1] \notin CueNames => f \in files'
      BY <2>1
    <3> QED
      BY ONLY <3>1, <3>2 DEF PartsAreThere, Open
  <2> QED
    BY <2>2, <2>3, <2>4, <2>5
<1>11. ASSUME NEW name \in CueNames, Frame(name)
      PROVE  AttachInvariant'
  <2> DEFINE frame == [name |-> <<name, 1>>, by |-> FrameWriter, doc |-> 0, size |-> 1, whole |-> TRUE]
  <2>1. /\ folder /\ UNCHANGED <<there, folder, attempt, client, request>>
        /\ files' = {g \in files : g.name # frame.name} \cup {frame}
    BY <1>11 DEF Frame, Put
  <2>2. there
    BY <2>1 DEF DeletedIsEmpty
  <2>3. /\ frame.by = FrameWriter /\ frame.name[1] \in CueNames
        /\ frame \in [name : (DocNames \cup CueNames) \X Nat, by : Requests \cup {FrameWriter},
                      doc : Nat, size : Nat, whole : BOOLEAN]
    OBVIOUS
  <2> HIDE DEF frame
  <2> QED
    BY <2>1, <2>2, <2>3, FramingKeeps
<1>12. CASE FramesEnd
  BY <1>12, AnsweringKeeps DEF FramesEnd
<1>13. CASE Delete
  <2>1. /\ there' = FALSE /\ folder' = FALSE /\ files' = {} /\ UNCHANGED <<attempt, client, request>>
    BY <1>13 DEF Delete
  <2>2. AttachTypeOK'
    BY <2>1, FS_EmptySet
  <2> QED
    BY <2>1, <2>2 DEF DeletedIsEmpty, FilesHaveAnOwner, WrittenIsOwn, PartsAreThere, MovedIsStored
<1>14. CASE CrashServer
  <2>1. /\ UNCHANGED <<there, folder, files, attempt, client>> /\ DOMAIN request' = Requests
        /\ \A r \in Requests : \/ request'[r] = request[r]
                               \/ Open(r) /\ request'[r] = Over("dead")
    BY <1>14 DEF CrashServer, Open
  <2> QED
    BY <2>1, AnsweringKeeps
<1>15. CASE UNCHANGED attachVars
  BY <1>15, AnsweringKeeps DEF attachVars
<1> QED
  BY <1>1, <1>2, <1>3, <1>4, <1>5, <1>6, <1>7, <1>8, <1>9, <1>10, <1>11, <1>12, <1>13, <1>14, <1>15 DEF AttachNext

LEMMA AttachInvariance == AttachSpec => []AttachInvariant
BY AttachStarts, AttachStep, PTL DEF AttachSpec

\* "All-or-nothing", whatever the requests, the worker and the deletions do to
\* each other in the directory: nothing of a request that ended without success
\* is left, everything of one that was answered with success is there, and only
\* what is on the server left the staging folder (upload_attachments,
\* _AttachmentSink, _unique_path, _extract_frames, send_attachments).
THEOREM AllOfItOrNothing == AttachSpec => []AllOrNothing
<1>1. ASSUME AttachInvariant
      PROVE  AllOrNothing
  <2> USE <1>1 DEF AttachInvariant
  <2>1. \A f \in files :
          f.by = FrameWriter \/ request[f.by].pc \notin {"unsent", "refused", "broken", "dropped"}
    BY DEF FilesHaveAnOwner
  <2>2. there => \A r \in Requests : request[r].pc = "stored" =>
          \A i \in DOMAIN Docs[r[1]] :
            \/ Docs[r[1]][i].name \in CueNames
            \/ \E f \in files :
                 f.by = r /\ f.doc = i /\ f.whole /\ f.size = Docs[r[1]][i].size
    BY DEF PartsAreThere
  <2> QED
    BY <2>1, <2>2 DEF MovedIsStored, AllOrNothing
<1> QED
  BY <1>1, AttachInvariance, PTL

-----------------------------------------------------------------------------
(* The four together.                                                      *)

\* A behaviour of a session's folder is one of each part, so what is proved of
\* a part holds of the folder.
THEOREM EveryPartKeepsItsPromise ==
  FolderSpec =>
    /\ []PipelineKeepsItsShim /\ ProcessedKeepsItsShim
    /\ []SparesTheWorking /\ []StuckEnds
    /\ []AllOrNothing
    /\ []OnePerUpload
<1>1. FolderInit => Init /\ StepInit /\ AttachInit /\ DirectInit
  BY DEF FolderInit
<1>2. [FolderNext]_<<vars, stepVars, attachVars, directVars, scene>> =>
        [Next]_vars /\ [StepNext]_stepVars /\ [AttachNext]_attachVars /\ [DirectNext]_directVars
  BY DEF FolderNext
<1>3. FolderSpec => Spec /\ StepSpec /\ AttachSpec /\ DirectSpec
  BY <1>1, <1>2, PTL DEF FolderSpec, Spec, StepSpec, AttachSpec, DirectSpec
<1> QED
  BY <1>3, PipelineIsSafe, ShimSurvives, TheWorkingAreSpared, TheStuckEnd, AllOfItOrNothing, SentOftenStoredOnce, PTL
=============================================================================
