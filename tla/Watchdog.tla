------------------------------- MODULE Watchdog -------------------------------
(***************************************************************************)
(* _wait_with_timeout of server/meet_runner.py: one millet step, the       *)
(* thread that waits for it, and the two budgets after which that thread   *)
(* kills the step's process group.                                         *)
(*                                                                         *)
(* Time is counted in ticks of the least poll interval (0.05 s).  Only     *)
(* whether the log and the artifacts differ from the remembered ones       *)
(* matters, so the two comparisons are one flag.  Whoever writes into the  *)
(* session's folder raises it: the step, but also an upload of attachments *)
(* or a child that an earlier step left behind.                            *)
(***************************************************************************)
EXTENDS Integers

CONSTANTS
  Budget,   \* VEZIR_MILLET_TIMEOUT, in ticks
  Window,   \* VEZIR_MILLET_WATCHDOG_SECONDS, in ticks
  MaxPoll,  \* _MAX_POLL_SECONDS, in ticks
  Epsilon   \* the CPU time that counts as progress

ASSUME BudgetsAssumption ==  \* both are on; 0 turns one off
  /\ Budget \in Nat \ {0}
  /\ Window \in Nat \ {0}
  /\ MaxPoll \in Nat \ {0}
  /\ Epsilon \in Nat \ {0}

VARIABLES
  watcher,   \* the waiting thread
  verdict,   \* what it returns
  elapsed,   \* since the step started
  since,     \* since last_progress_at
  sleep,     \* until the next poll
  changed,   \* the log or the artifacts differ from the remembered ones
  lastCpu,   \* the remembered CPU time of the group
  leader,    \* millet runs
  child,     \* so does a child of it
  cpu,       \* CPU time of each live process of the group
  seen       \* what an observer who misses nothing knows of the step

stepVars == <<watcher, verdict, elapsed, since, sleep, changed, lastCpu,
              leader, child, cpu, seen>>

Procs == {"leader", "child"}

\* _process_group_cpu_seconds: the live members only.
GroupCpu == cpu["leader"] + cpu["child"]

Least(a, b) == IF a < b THEN a ELSE b

\* _poll_interval, for the times since last_progress_at and since the start.
PollInterval(quiet, run) ==
  LET soon == Least(MaxPoll, Least((Window - quiet) \div 3, (Budget - run) \div 3))
  IN  IF soon < 1 THEN 1 ELSE soon

StepInit ==
  /\ watcher = "waiting"
  /\ verdict = "none"
  /\ elapsed = 0 /\ since = 0
  /\ sleep = PollInterval(0, 0)
  /\ changed = FALSE
  /\ lastCpu = 0
  /\ leader = TRUE
  /\ child = FALSE
  /\ cpu = [p \in Procs |-> 0]
  /\ seen = [quiet |-> 0, still |-> 0, burnt |-> 0, turnover |-> FALSE]

-----------------------------------------------------------------------------
(* The step.                                                               *)

\* A tick in which the step writes or not, somebody else writes into the
\* folder or not, and the processes in busy use the CPU.
Tick(wrote, others, busy) ==
  /\ watcher = "waiting"
  /\ sleep > 0
  /\ "child" \in busy => child
  /\ elapsed' = elapsed + 1
  /\ since' = since + 1
  /\ sleep' = sleep - 1
  /\ changed' = (changed \/ wrote \/ others)
  /\ cpu' = [p \in Procs |-> IF p \in busy THEN cpu[p] + 1 ELSE cpu[p]]
  /\ seen' = [quiet |-> IF wrote THEN 0 ELSE seen.quiet + 1,
              still |-> IF wrote \/ others \/ busy # {} THEN 0 ELSE seen.still + 1,
              burnt |-> IF busy # {} THEN seen.burnt + 1 ELSE seen.burnt,
              turnover |-> seen.turnover]
  /\ UNCHANGED <<watcher, verdict, lastCpu, leader, child>>

ChildStarts ==
  /\ leader /\ ~child
  /\ child' = TRUE
  /\ UNCHANGED <<watcher, verdict, elapsed, since, sleep, changed, lastCpu,
                 leader, cpu, seen>>

\* Its CPU time leaves the group with it.
ChildExits ==
  /\ child
  /\ child' = FALSE
  /\ cpu' = [cpu EXCEPT !["child"] = 0]
  /\ seen' = [seen EXCEPT !.turnover = @ \/ cpu["child"] > 0]
  /\ UNCHANGED <<watcher, verdict, elapsed, since, sleep, changed, lastCpu,
                 leader>>

\* millet exits: proc.wait returns, unless the watcher is about to kill it.
LeaderExits ==
  /\ leader
  /\ leader' = FALSE
  /\ IF watcher = "waiting"
     THEN watcher' = "over" /\ verdict' = "exited"
     ELSE UNCHANGED <<watcher, verdict>>
  /\ UNCHANGED <<elapsed, since, sleep, changed, lastCpu, child, cpu, seen>>

-----------------------------------------------------------------------------
(* The watcher.                                                            *)

ProgressedButCpu == changed

Progressed == changed \/ GroupCpu - lastCpu >= Epsilon

Wakes == watcher = "waiting" /\ sleep = 0 /\ leader

\* The wall clock goes first, whatever the progress.
BudgetExpires ==
  /\ Wakes
  /\ elapsed >= Budget
  /\ watcher' = "term"
  /\ verdict' = "timeout"
  /\ UNCHANGED <<elapsed, since, sleep, changed, lastCpu, leader, child, cpu, seen>>

NoProgress ==
  /\ Wakes
  /\ elapsed < Budget /\ since >= Window
  /\ ~Progressed
  /\ watcher' = "term"
  /\ verdict' = "watchdog"
  /\ UNCHANGED <<elapsed, since, sleep, changed, lastCpu, leader, child, cpu, seen>>

RebaseTimeOnly ==
  /\ since' = 0
  /\ UNCHANGED <<changed, lastCpu, seen>>

\* Progress: what is there now becomes what is remembered.
Rebase ==
  /\ since' = 0
  /\ changed' = FALSE
  /\ lastCpu' = GroupCpu
  /\ seen' = [seen EXCEPT !.burnt = 0, !.turnover = FALSE]

GoesOn ==
  /\ Wakes
  /\ elapsed < Budget /\ since >= Window
  /\ Progressed
  /\ Rebase
  /\ sleep' = PollInterval(0, elapsed)
  /\ UNCHANGED <<watcher, verdict, elapsed, leader, child, cpu>>

SleepsAgain ==
  /\ Wakes
  /\ elapsed < Budget /\ since < Window
  /\ sleep' = PollInterval(since, elapsed)
  /\ UNCHANGED <<watcher, verdict, elapsed, since, changed, lastCpu,
                 leader, child, cpu, seen>>

\* _kill_process_group: SIGTERM to the group, and back as soon as the leader
\* is gone ...
Terminate(stubborn) ==
  /\ watcher = "term"
  /\ leader' = (leader /\ "leader" \in stubborn)
  /\ child' = (child /\ "child" \in stubborn)
  /\ watcher' = IF leader' THEN "kill" ELSE "over"
  /\ UNCHANGED <<verdict, elapsed, since, sleep, changed, lastCpu, cpu, seen>>

\* ... or SIGKILL after the grace period.
Kill ==
  /\ watcher = "kill"
  /\ watcher' = "over"
  /\ leader' = FALSE
  /\ child' = FALSE
  /\ UNCHANGED <<verdict, elapsed, since, sleep, changed, lastCpu, cpu, seen>>

StepNext ==
  \/ \E wrote, others \in BOOLEAN, busy \in SUBSET Procs : Tick(wrote, others, busy)
  \/ ChildStarts
  \/ ChildExits
  \/ LeaderExits
  \/ BudgetExpires
  \/ NoProgress
  \/ GoesOn
  \/ SleepsAgain
  \/ \E stubborn \in SUBSET Procs : Terminate(stubborn)
  \/ Kill

StepSpec == StepInit /\ [][StepNext]_stepVars

-----------------------------------------------------------------------------
(* Properties.                                                             *)

StepTypeOK ==
  /\ watcher \in {"waiting", "term", "kill", "over"}
  /\ verdict \in {"none", "exited", "timeout", "watchdog"}
  /\ elapsed \in Nat /\ since \in Nat /\ sleep \in Nat /\ lastCpu \in Nat
  /\ changed \in BOOLEAN /\ leader \in BOOLEAN /\ child \in BOOLEAN
  /\ cpu \in [Procs -> Nat]
  /\ seen \in [quiet : Nat, still : Nat, burnt : Nat, turnover : BOOLEAN]

\* "... while leaving legitimately quiet-but-working steps untouched": the
\* watchdog reaps a step only when that step has written nothing for a whole
\* window.  CPU time is worth what the sum over the live processes is worth:
\* work is overlooked only if a child that worked left the group meanwhile.
SparesTheWorking ==
  verdict = "watchdog" =>
    /\ seen.quiet >= Window
    /\ seen.burnt >= Epsilon => seen.turnover

\* "... into a minutes-scale failure": the baseline is refreshed only when the
\* window is over, and yet nothing stands still for more than two windows, nor
\* runs past the budget.
StuckEnds ==
  watcher = "waiting" => seen.still <= 2 * Window /\ elapsed <= Budget

\* "this covers millet AND its children": true of one reading, not of the
\* difference of two.  A step whose children come and go is reaped at work.
CountsTheChildren ==
  verdict = "watchdog" => seen.burnt < Epsilon

\* "so the kill reaps all of them": a child that ignores SIGTERM outlives the
\* kill when the leader does not.
KillReapsAll ==
  watcher = "over" /\ verdict \in {"timeout", "watchdog"} => ~child

-----------------------------------------------------------------------------
(* Why these hold.                                                         *)

\* Polls fall on the two deadlines.  Until the flag is raised the step has
\* written nothing since the baseline; nothing observed since then is older than
\* the baseline; and the group's CPU time moves with what was burnt, by as much
\* at least unless a child left.
WatchInvariant ==
  /\ StepTypeOK
  /\ watcher = "waiting" =>
       /\ verdict = "none"
       /\ since + sleep <= Window /\ elapsed + sleep <= Budget
       /\ seen.still <= since + Window
       /\ changed \/ seen.burnt > 0 => seen.still <= since
  /\ ~changed => seen.quiet >= since
  /\ GroupCpu <= lastCpu + 2 * seen.burnt
  /\ ~seen.turnover => GroupCpu >= lastCpu + seen.burnt
  /\ SparesTheWorking
=============================================================================
