------------------------------ MODULE TaskStore ------------------------------
(***************************************************************************)
(* The tables scheduled_tasks and scheduled_task_runs, and the statements  *)
(* internal/scheduledtask/repo.go runs on them.  SQLite serialises the     *)
(* writers, so every transaction of repo.go is one step; what surrounds    *)
(* the transactions (engine, runner, service) is module TaskCenter.        *)
(*                                                                         *)
(* Time is counted in half seconds: an even instant is a whole second,     *)
(* which time.RFC3339Nano prints without a fraction, an odd one has a      *)
(* fraction.  That is all the precision the text comparison needs.         *)
(***************************************************************************)
EXTENDS Integers, Sequences, FiniteSets

CONSTANTS
  Tasks,       \* task ids (app.NewID: never reused)
  Period,      \* distance between two firings of every schedule
  Lease,       \* timeout_seconds + 30, the lifetime of a task's lock
  MaxTime,     \* the clock stops here: bounds the model
  MaxRuns,     \* runs started at most: bounds the model
  Schedules, Policies,  \* the schedule kinds and missed-run policies in use
  Null,        \* SQL NULL, a nil pointer, a row not inserted yet
  Deleted      \* a row that was deleted

ASSUME PeriodAssumption == Period \in Nat \ {0} /\ Period % 2 = 0
ASSUME LeaseAssumption  == Lease \in Nat \ {0} /\ Lease % 2 = 0
(* clock: daily, weekly, monthly and cron expressions; they fire on whole  *)
(* seconds.  interval: the given duration after the previous run.          *)
ASSUME KindsAssumption ==
  /\ Schedules \subseteq {"clock", "interval"}
  /\ Policies \subseteq {"run_once", "skip"}
ASSUME BoundAssumption  == MaxTime \in Nat /\ MaxRuns \in Nat
ASSUME NullAssumption   ==
  /\ Null # Deleted
  /\ Null \notin Nat
  /\ Null \notin Tasks

VARIABLES
  now,      \* the wall clock
  task,     \* scheduled_tasks, by id
  run,      \* scheduled_task_runs, by id
  runSeq    \* run ids handed out so far

storeVars == <<now, task, run, runSeq>>

RunIds == 1..MaxRuns

(* Nothing reads the difference between the statuses idle and error, nor   *)
(* between the ways a run ends: the first of each stands for all.          *)
TaskRow ==
  [enabled : BOOLEAN, status : {"idle", "running", "disabled"},
   sched : Schedules, missed : Policies,
   next : Nat \cup {Null}, lockedBy : Nat, lockedUntil : Nat \cup {Null},
   lastRun : Nat, version : Nat]

RunRow ==
  [task : Tasks, trigger : {"schedule", "manual"},
   status : {"running", "ended", "abandoned"},
   runner : Nat,
   due : Nat \cup {Null}]   \* history only: the firing a scheduled run is for

(* What stands for an absent row is not a row.                             *)
ASSUME AbsentAssumption ==
  Null \notin TaskRow /\ Deleted \notin TaskRow /\ Null \notin RunRow

-----------------------------------------------------------------------------
(* formatTime: SQLite compares the RFC3339Nano texts.  Within one second a *)
(* text without a fraction ends in 'Z', which sorts after the '.' of a     *)
(* text with one.                                                          *)
Second(t) == t \div 2

TextLeq(a, b) ==
  \/ Second(a) < Second(b)
  \/ Second(a) = Second(b) /\ (a = b \/ a % 2 = 1)

(* CompiledSchedule.Next: the first firing strictly after an instant.      *)
NextFire(sched, after) ==
  IF sched = "interval" THEN after + Period
                        ELSE ((after \div Period) + 1) * Period

(* Wrong: every missed firing is kept, whatever the policy.                *)
NextRunAtIgnoringPolicy(row, at) ==
  IF row.next # Null THEN row.next ELSE NextFire(row.sched, at)

(* NextRunAt: a future firing is kept, a missed one is kept by run_once    *)
(* and moved past now by skip.                                             *)
NextRunAt(row, at) ==
  IF row.next # Null /\ (row.next > at \/ row.missed = "run_once")
  THEN row.next
  ELSE NextFire(row.sched, at)

(* The strftime of BeginRunVersion works on now.Unix(), whole seconds.     *)
LockExpiry(at) == at - (at % 2) + Lease

-----------------------------------------------------------------------------
Exists(t) == task[t] \notin {Null, Deleted}

(* taskRunningOrLocked, as of the instant the caller read the clock.       *)
RunningOrLocked(row, at) ==
  row.status = "running" \/ (row.lockedUntil # Null /\ row.lockedUntil > at)

(* Wrong: a lock that expires now is taken for one that has expired.       *)
ExpiredLockTooEarly(row) ==
  row.lockedBy # 0 /\ row.lockedUntil # Null /\ row.lockedUntil <= now

ExpiredLock(row) == row.lockedBy # 0 /\ row.lockedUntil # Null /\ row.lockedUntil < now

Expired(t) == Exists(t) /\ ExpiredLock(task[t])

Recovered(row) ==
  [row EXCEPT !.status = IF row.enabled THEN "idle" ELSE "disabled",
              !.lockedBy = 0, !.lockedUntil = Null, !.version = @ + 1]

(* recoverExpiredLocksTx over the tasks in S: their runs are abandoned and *)
(* their locks released.                                                   *)
RecoveredTasks(S) ==
  [t \in Tasks |->
     IF t \in S /\ Expired(t) THEN Recovered(task[t]) ELSE task[t]]

(* Wrong: the lock goes, the run stays "running".                          *)
RecoveredRunsForgotten(S) == run

RecoveredRuns(S) ==
  [r \in RunIds |->
     IF /\ run[r] # Null
        /\ run[r].status = "running"
        /\ \E t \in S : Expired(t) /\ task[t].lastRun = r
     THEN [run[r] EXCEPT !.status = "abandoned"]
     ELSE run[r]]

(* Wrong: the reconciliation recovers nothing.                             *)
MarkExpiredNothing == UNCHANGED storeVars

MarkExpiredRunningAbandoned ==
  /\ task' = RecoveredTasks(Tasks)
  /\ run' = RecoveredRuns(Tasks)
  /\ UNCHANGED <<now, runSeq>>

(* The WHERE clause of the claim.  version = 0 stands for no expectation.  *)
Claimable(row, trigger, version) ==
  /\ row.enabled
  /\ row.lockedBy = 0 \/ ExpiredLock(row)
  /\ trigger = "schedule" =>
       /\ row.next # Null
       /\ TextLeq(row.next, now)
       /\ version > 0 => row.version = version

ClaimableAfterRecovery(t, trigger, version) ==
  Exists(t) /\ Claimable(RecoveredTasks({t})[t], trigger, version)

Claimed(row, runner, id) ==
  [row EXCEPT !.status = "running", !.lockedBy = runner, !.lockedUntil = LockExpiry(now),
              !.lastRun = id, !.version = @ + 1]

StartedRun(t, trigger, runner, next) ==
  [task |-> t, trigger |-> trigger, status |-> "running", runner |-> runner,
   due |-> IF trigger = "schedule" THEN next ELSE Null]

(* BeginRunVersion, the claim succeeds: recovery, lock and run row commit  *)
(* together.                                                               *)
BeginRun(t, trigger, version, runner) ==
  LET row == RecoveredTasks({t})[t]
      id  == runSeq + 1
  IN /\ runSeq < MaxRuns
     /\ ClaimableAfterRecovery(t, trigger, version)
     /\ task' = [task EXCEPT ![t] = Claimed(row, runner, id)]
     /\ run' = [RecoveredRuns({t}) EXCEPT ![id] = StartedRun(t, trigger, runner, row.next)]
     /\ runSeq' = id
     /\ UNCHANGED now

(* BeginRunVersion, the claim is refused: the recovery commits alone.      *)
BeginRunRefused(t, trigger, version) ==
  /\ ~ClaimableAfterRecovery(t, trigger, version)
  /\ task' = RecoveredTasks({t})
  /\ run' = RecoveredRuns({t})
  /\ UNCHANGED <<now, runSeq>>

(* Nobody changed the row since the claim.                                 *)
ClaimStands(t, r, version, runner) ==
  /\ task[t].version = version
  /\ task[t].lastRun = r
  /\ task[t].lockedBy = runner

Released(row) == [row EXCEPT !.lockedBy = 0, !.lockedUntil = Null]

(* Wrong: the next firing is not moved.                                    *)
FinishedUnscheduled(row) == [Released(row) EXCEPT !.status = "idle", !.version = @ + 1]

Finished(row) ==
  [row EXCEPT !.status = "idle", !.next = NextFire(row.sched, now),
              !.lockedBy = 0, !.lockedUntil = Null, !.version = @ + 1]

(* FinishRun.  The run row becomes terminal if it is still running; the    *)
(* task row is rescheduled only if nobody changed it since the claim;      *)
(* otherwise releaseMatchingLock frees the lock if it is still this run's. *)
FinishRun(t, r, version, runner) ==
  LET live == run[r] # Null /\ run[r].status = "running"
  IN /\ run' = IF live THEN [run EXCEPT ![r].status = "ended"] ELSE run
     /\ task' =
          IF ~Exists(t) THEN task
          ELSE IF live /\ ClaimStands(t, r, version, runner)
          THEN [task EXCEPT ![t] = Finished(task[t])]
          ELSE IF task[t].lastRun = r /\ task[t].lockedBy = runner
          THEN [task EXCEPT ![t] = Released(task[t])]
          ELSE task
     /\ UNCHANGED <<now, runSeq>>

(* Wrong: the statement does not compare the version.                      *)
UpdateNextRunBlindly(t, version) == Exists(t)

(* UpdateNextRun, the compare-and-set on version and its two outcomes.     *)
UpdateNextRunMatches(t, version) == Exists(t) /\ task[t].version = version

Rescheduled(row, next) == [row EXCEPT !.next = next, !.status = "idle", !.version = @ + 1]

UpdateNextRun(t, version, next) ==
  /\ UpdateNextRunMatches(t, version)
  /\ task' = [task EXCEPT ![t] = Rescheduled(task[t], next)]
  /\ UNCHANGED <<now, run, runSeq>>

(* Create, Update and buildTask: an enabled task gets its first firing     *)
(* after now; Update leaves the lock and the last run alone.               *)
BuiltStatus(enabled) == IF enabled THEN "idle" ELSE "disabled"
BuiltNext(enabled, sched) == IF enabled THEN NextFire(sched, now) ELSE Null

NewRow(enabled, sched, missed) ==
  [enabled |-> enabled, status |-> BuiltStatus(enabled),
   sched |-> sched, missed |-> missed, next |-> BuiltNext(enabled, sched),
   lockedBy |-> 0, lockedUntil |-> Null, lastRun |-> 0, version |-> 1]

CreateRow(t, enabled, sched, missed) ==
  /\ task[t] = Null
  /\ task' = [task EXCEPT ![t] = NewRow(enabled, sched, missed)]
  /\ UNCHANGED <<now, run, runSeq>>

Edited(row, enabled, sched, missed) ==
  [row EXCEPT !.enabled = enabled, !.status = BuiltStatus(enabled),
              !.sched = sched, !.missed = missed,
              !.next = BuiltNext(enabled, sched), !.version = @ + 1]

UpdateRow(t, enabled, sched, missed) ==
  /\ Exists(t)
  /\ task' = [task EXCEPT ![t] = Edited(task[t], enabled, sched, missed)]
  /\ UNCHANGED <<now, run, runSeq>>

(* SetEnabled: unconditional, the caller brings the next firing it read.   *)
Toggled(row, enabled, next) ==
  [row EXCEPT !.enabled = enabled, !.status = BuiltStatus(enabled),
              !.next = IF enabled THEN next ELSE Null, !.version = @ + 1]

SetEnabledRow(t, enabled, next) ==
  /\ task' = IF Exists(t) THEN [task EXCEPT ![t] = Toggled(task[t], enabled, next)] ELSE task
  /\ UNCHANGED <<now, run, runSeq>>

(* Delete; the foreign key deletes the task's runs with it.                *)
DeleteRow(t) ==
  /\ Exists(t)
  /\ task' = [task EXCEPT ![t] = Deleted]
  /\ run' = [r \in RunIds |-> IF run[r] # Null /\ run[r].task = t THEN Null ELSE run[r]]
  /\ UNCHANGED <<now, runSeq>>

(* PruneRuns: any set of terminal rows, the age and the count limit left   *)
(* open.  One row at a time is enough: nothing reads several at once.      *)
PruneRun(r) ==
  /\ run[r] # Null
  /\ run[r].status # "running"
  /\ run' = [run EXCEPT ![r] = Null]
  /\ UNCHANGED <<now, task, runSeq>>

Tick == now < MaxTime /\ now' = now + 1 /\ UNCHANGED <<task, run, runSeq>>

StoreTypeOK ==
  /\ now \in Nat
  /\ task \in [Tasks -> TaskRow \cup {Null, Deleted}]
  /\ run \in [RunIds -> RunRow \cup {Null}]
  /\ runSeq \in 0..MaxRuns
=============================================================================
