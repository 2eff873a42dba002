------------------------------ MODULE TaskCenter ------------------------------
(***************************************************************************)
(* The scheduled-task centre of the panel process: the engine (one loop    *)
(* goroutine over an in-memory heap of next firings, and the dispatch      *)
(* workers), the runner (the semaphore, the claim and the completion of a  *)
(* run) and the service the HTTP handlers call.  They share the tables of  *)
(* module TaskStore, and the process may be killed and started again at    *)
(* any instant.                                                            *)
(*                                                                         *)
(* The engine's heap is a cache of next_run_at and version.  Whoever       *)
(* changes a row calls ReloadTask afterwards, which marks the task dirty   *)
(* and wakes the loop; a periodic reconciliation reads everything again.   *)
(* Between two database calls of the loop, the workers and the service may *)
(* do anything.  One action is one database call with the memory           *)
(* operations around it: the heap is touched by the loop alone.            *)
(***************************************************************************)
EXTENDS TaskStore

CONSTANTS
  DispatchWorkers, ManualWorkers,   \* the goroutines that execute runs
  MaxConcurrent,                    \* Runner.sem
  DispatchQueueSize, ManualQueueSize,
  MaxBoots, MaxEdits, MaxFaults  \* bounds of the model

ASSUME WorkersAssumption == DispatchWorkers \cap ManualWorkers = {}
ASSUME CapacityAssumption ==
  /\ MaxConcurrent \in Nat \ {0}
  /\ DispatchQueueSize \in Nat \ {0}
  /\ ManualQueueSize \in Nat   \* 0 leaves the manual runs out of an instance
ASSUME BudgetAssumption ==
  MaxBoots \in Nat /\ MaxEdits \in Nat /\ MaxFaults \in Nat

Workers == DispatchWorkers \cup ManualWorkers

VARIABLES
  phase,    \* "down", "starting" (Engine.Start is running), "up"
  epoch,    \* the process's runnerID; 0 before the first start
  bootAt,   \* history only: when the process started
  heap,     \* Engine.byID and items: the next firing and version held of a task
  dirty,    \* Engine.dirty
  wake,     \* Engine.wake holds its one token
  loop,     \* where the loop goroutine is, and its local variables
  queue,    \* Engine.dispatch
  manual,   \* Service.manual
  worker,   \* where each worker goroutine is, and the run it executes
  pending,  \* tasks a service call changed and has yet to call ReloadTask for
  toggle,   \* a SetEnabled call between its read and its write
  spent     \* what has been used of the model's bounds

memVars  == <<phase, epoch, bootAt, heap, dirty, wake, loop, queue, manual,
              worker, pending, toggle, spent>>
vars     == <<storeVars, memVars>>

(* What the loop never writes, and what a worker never writes.             *)
aroundLoop   == <<epoch, bootAt, manual, worker, pending, toggle>>
aroundWorker == <<phase, epoch, bootAt, heap, dirty, wake, loop, queue, manual,
                  pending, toggle>>

HeapItem == [next : Nat, version : Nat]
Job      == [task : Tasks, version : Nat]
LoopRow  == [pc : {"idle", "list", "work", "due"},
             at : Nat,                               \* its last time.Now()
             todo : SUBSET Tasks,                    \* dirty ids not yet read
             snap : [Tasks -> TaskRow \cup {Null}],  \* rows read, not yet loaded
             refresh : Tasks \cup {Null}]            \* rescheduled, to be read again
WorkerRow == [pc : {"idle", "wait", "running", "reload"},
              task : Tasks \cup {Null}, trigger : {"schedule", "manual"},
              version : Nat,                         \* expected, then claimed
              run : 0..MaxRuns]
ToggleRow == [task : Tasks, enabled : BOOLEAN, next : Nat \cup {Null}]
Budget    == [boots : 0..MaxBoots, edits : 0..MaxEdits, faults : 0..MaxFaults]

(* An empty place of the index is not an item.                             *)
ASSUME ItemAssumption == Null \notin HeapItem

NoRows     == [t \in Tasks |-> Null]
IdleLoop   == [pc |-> "idle", at |-> 0, todo |-> {}, snap |-> NoRows, refresh |-> Null]
IdleWorker == [pc |-> "idle", task |-> Null, trigger |-> "manual", version |-> 0, run |-> 0]

TypeOK ==
  /\ StoreTypeOK
  /\ phase \in {"down", "starting", "up"}
  /\ epoch \in Nat
  /\ bootAt \in Nat
  /\ heap \in [Tasks -> HeapItem \cup {Null}]
  /\ dirty \in SUBSET Tasks
  /\ wake \in BOOLEAN
  /\ loop \in LoopRow
  /\ queue \in Seq(Job) /\ Len(queue) <= DispatchQueueSize
  /\ manual \in Seq(Tasks) /\ Len(manual) <= ManualQueueSize
  /\ worker \in [Workers -> WorkerRow]
  /\ pending \in SUBSET Tasks
  /\ toggle \in ToggleRow \cup {Null}
  /\ spent \in Budget

Init ==
  /\ now = 0
  /\ task = [t \in Tasks |-> Null]
  /\ run = [r \in RunIds |-> Null]
  /\ runSeq = 0
  /\ phase = "down"
  /\ epoch = 0
  /\ bootAt = 0
  /\ heap = NoRows
  /\ dirty = {}
  /\ wake = FALSE
  /\ loop = IdleLoop
  /\ queue = <<>>
  /\ manual = <<>>
  /\ worker = [w \in Workers |-> IdleWorker]
  /\ pending = {}
  /\ toggle = Null
  /\ spent = [boots |-> 0, edits |-> 0, faults |-> 0]

Fault  == spent.faults < MaxFaults /\ spent' = [spent EXCEPT !.faults = @ + 1]
Edit   == spent.edits < MaxEdits /\ spent' = [spent EXCEPT !.edits = @ + 1]

-----------------------------------------------------------------------------
(* The process.                                                            *)

(* NewRunner (a new runnerID), NewService and its workers; Engine.Start    *)
(* follows with Reconcile.                                                 *)
Boot ==
  /\ phase = "down"
  /\ spent.boots < MaxBoots
  /\ spent' = [spent EXCEPT !.boots = @ + 1]
  /\ phase' = "starting"
  /\ epoch' = epoch + 1
  /\ bootAt' = now
  /\ UNCHANGED <<storeVars, heap, dirty, wake, loop, queue, manual, worker,
                 pending, toggle>>

(* All memory is gone; the tables are as the last commit left them.        *)
MemoryLost ==
  /\ phase' = "down"
  /\ heap' = NoRows
  /\ dirty' = {}
  /\ wake' = FALSE
  /\ loop' = IdleLoop
  /\ queue' = <<>>
  /\ manual' = <<>>
  /\ worker' = [w \in Workers |-> IdleWorker]
  /\ pending' = {}
  /\ toggle' = Null
  /\ UNCHANGED <<epoch, bootAt>>

Crash ==
  /\ phase # "down"
  /\ MemoryLost
  /\ UNCHANGED <<storeVars, spent>>

(* Wrong: the loop is not woken.                                           *)
ReloadUnwoken(t) == dirty' = dirty \cup {t} /\ UNCHANGED wake

(* ReloadTask: recorded first, woken second.                               *)
ReloadTask(t) == dirty' = dirty \cup {t} /\ wake' = TRUE

-----------------------------------------------------------------------------
(* The engine's loop.                                                      *)

NothingToLoad == loop.snap = NoRows /\ loop.refresh = Null
Remove(t)     == heap' = [heap EXCEPT ![t] = Null]

(* upsert ends in notifyWake.                                              *)
Upsert(t, next, version) ==
  heap' = [heap EXCEPT ![t] = [next |-> next, version |-> version]] /\ wake' = TRUE

(* reconcile, run by Start and by the ticker: the expired locks first.     *)
Reconcile ==
  /\ phase # "down" /\ loop.pc = "idle"
  /\ MarkExpiredRunningAbandoned
  /\ loop' = [loop EXCEPT !.pc = "list", !.at = now]
  /\ UNCHANGED <<aroundLoop, phase, heap, dirty, wake, queue, spent>>

(* Wrong: the list only prunes the heap, nothing is loaded from it.        *)
ReconcileListUnread ==
  /\ loop.pc = "list"
  /\ loop' = [loop EXCEPT !.pc = "work"]
  /\ heap' = [t \in Tasks |-> IF Exists(t) /\ task[t].enabled THEN heap[t] ELSE Null]
  /\ UNCHANGED <<storeVars, aroundLoop, phase, dirty, wake, queue, spent>>

(* Then ListEnabled, and the heap loses what is not in the list.           *)
ReconcileList ==
  LET listed == {t \in Tasks : Exists(t) /\ task[t].enabled}
  IN /\ loop.pc = "list"
     /\ loop' = [loop EXCEPT !.pc = "work",
                   !.snap = [t \in Tasks |-> IF t \in listed THEN task[t] ELSE Null]]
     /\ heap' = [t \in Tasks |-> IF t \in listed THEN heap[t] ELSE Null]
     /\ UNCHANGED <<storeVars, aroundLoop, phase, dirty, wake, queue, spent>>

(* Either statement of reconcile fails: Start gives up and the process     *)
(* ends; the loop warns and goes on to drainDirty.                         *)
ReconcileFails ==
  /\ phase # "down"
  /\ loop.pc \in {"idle", "list"}
  /\ Fault
  /\ \/ phase = "starting" /\ MemoryLost
     \/ /\ phase = "up"
        /\ loop' = [loop EXCEPT !.pc = "work"]
        /\ UNCHANGED <<aroundLoop, phase, heap, dirty, wake, queue>>
  /\ UNCHANGED storeVars

Wake ==
  /\ phase = "up" /\ loop.pc = "idle" /\ wake
  /\ wake' = FALSE
  /\ loop' = [loop EXCEPT !.pc = "work"]
  /\ UNCHANGED <<storeVars, aroundLoop, phase, heap, dirty, queue, spent>>

(* drainDirty takes the whole set; an empty one ends it, and ends Start.   *)
DrainDirty ==
  /\ loop.pc = "work" /\ NothingToLoad /\ loop.todo = {}
  /\ dirty' = {}
  /\ IF dirty = {}
     THEN loop' = IdleLoop /\ phase' = "up"
     ELSE loop' = [loop EXCEPT !.todo = dirty] /\ UNCHANGED phase
  /\ UNCHANGED <<storeVars, aroundLoop, heap, wake, queue, spent>>

(* reloadTask: Get, which may fail and then the task is dropped.           *)
ReloadDirty(t) ==
  /\ loop.pc = "work" /\ NothingToLoad /\ t \in loop.todo
  /\ IF Exists(t) /\ task[t].enabled
     THEN /\ loop' = [loop EXCEPT !.todo = @ \ {t}, !.snap[t] = task[t], !.at = now]
          /\ UNCHANGED heap
     ELSE loop' = [loop EXCEPT !.todo = @ \ {t}] /\ Remove(t)
  /\ UNCHANGED <<storeVars, aroundLoop, phase, dirty, wake, queue, spent>>

ReloadDirtyFails(t) ==
  /\ loop.pc = "work" /\ NothingToLoad /\ t \in loop.todo
  /\ Fault
  /\ loop' = [loop EXCEPT !.todo = @ \ {t}]
  /\ UNCHANGED <<storeVars, aroundLoop, phase, heap, dirty, wake, queue>>

(* loadTask, of a row that is running or locked: a completion or an expiry *)
(* brings it back.                                                         *)
Loading(t) == loop.pc \in {"work", "due"} /\ loop.refresh = Null /\ loop.snap[t] # Null
Loaded     == [t \in Tasks |-> [loop EXCEPT !.snap[t] = Null]]

LoadLocked(t) ==
  /\ Loading(t)
  /\ RunningOrLocked(loop.snap[t], loop.at)
  /\ Remove(t)
  /\ loop' = Loaded[t]
  /\ UNCHANGED <<storeVars, aroundLoop, phase, dirty, wake, queue, spent>>

(* loadTask, the firing stands.                                            *)
LoadIndexed(t) ==
  /\ Loading(t)
  /\ ~RunningOrLocked(loop.snap[t], loop.at)
  /\ NextRunAt(loop.snap[t], loop.at) = loop.snap[t].next
  /\ Upsert(t, loop.snap[t].next, loop.snap[t].version)
  /\ loop' = Loaded[t]
  /\ UNCHANGED <<storeVars, aroundLoop, phase, dirty, queue, spent>>

(* loadTask, the firing moves: the row is rescheduled if it is still the   *)
(* one that was read, and read again if it is not.                         *)
Rescheduling(t) ==
  /\ Loading(t)
  /\ ~RunningOrLocked(loop.snap[t], loop.at)
  /\ NextRunAt(loop.snap[t], loop.at) # loop.snap[t].next

LoadRescheduled(t) ==
  /\ Rescheduling(t)
  /\ UpdateNextRun(t, loop.snap[t].version, NextRunAt(loop.snap[t], loop.at))
  /\ loop' = [Loaded[t] EXCEPT !.refresh = t]
  /\ UNCHANGED <<aroundLoop, phase, heap, dirty, wake, queue, spent>>

LoadOutdated(t) ==
  /\ Rescheduling(t)
  /\ ~UpdateNextRunMatches(t, loop.snap[t].version)
  /\ Remove(t)
  /\ ReloadTask(t)
  /\ loop' = Loaded[t]
  /\ UNCHANGED <<storeVars, aroundLoop, phase, queue, spent>>

LoadFails(t) ==
  /\ Rescheduling(t)
  /\ Fault
  /\ loop' = Loaded[t]
  /\ UNCHANGED <<storeVars, aroundLoop, phase, heap, dirty, wake, queue>>

(* The second Get of loadTask, and the row it indexes.                     *)
Refresh ==
  LET t == loop.refresh
  IN /\ t # Null
     /\ loop' = [loop EXCEPT !.refresh = Null]
     /\ IF ~Exists(t) \/ ~task[t].enabled \/ task[t].next = Null
        THEN UNCHANGED <<heap, wake>>
        ELSE IF RunningOrLocked(task[t], now)
             THEN Remove(t) /\ UNCHANGED wake
             ELSE Upsert(t, task[t].next, task[t].version)
     /\ UNCHANGED <<storeVars, aroundLoop, phase, dirty, queue, spent>>

RefreshFails ==
  /\ loop.refresh # Null
  /\ Fault
  /\ loop' = [loop EXCEPT !.refresh = Null]
  /\ UNCHANGED <<storeVars, aroundLoop, phase, heap, dirty, wake, queue>>

(* dispatchDue, one heap item: the timer fired, or the pass goes on.  The  *)
(* item is checked against the row before it is sent.                      *)
Due(t) ==
  /\ heap[t] # Null /\ heap[t].next <= now
  /\ \A u \in Tasks : heap[u] # Null => heap[t].next <= heap[u].next

Dispatching(t) ==
  /\ phase = "up" /\ loop.pc \in {"idle", "due"} /\ NothingToLoad
  /\ Due(t)

Runnable(t) ==
  /\ Exists(t) /\ task[t].enabled /\ task[t].next # Null
  /\ ~RunningOrLocked(task[t], now)

Fresh(t) == task[t].version = heap[t].version /\ task[t].next = heap[t].next

DuePass == [IdleLoop EXCEPT !.pc = "due"]

DispatchParked(t) ==
  /\ Dispatching(t)
  /\ ~Runnable(t)
  /\ Remove(t)
  /\ loop' = DuePass
  /\ UNCHANGED <<storeVars, aroundLoop, phase, dirty, wake, queue, spent>>

DispatchStale(t) ==
  /\ Dispatching(t)
  /\ Runnable(t) /\ ~Fresh(t)
  /\ Remove(t)
  /\ loop' = [DuePass EXCEPT !.at = now, !.snap[t] = task[t]]
  /\ UNCHANGED <<storeVars, aroundLoop, phase, dirty, wake, queue, spent>>

DispatchSent(t) ==
  /\ Dispatching(t)
  /\ Runnable(t) /\ Fresh(t)
  /\ Len(queue) < DispatchQueueSize
  /\ queue' = Append(queue, [task |-> t, version |-> task[t].version])
  /\ Remove(t)
  /\ loop' = DuePass
  /\ UNCHANGED <<storeVars, aroundLoop, phase, dirty, wake, spent>>

DispatchFails(t) ==
  /\ Dispatching(t)
  /\ Fault
  /\ Remove(t)
  /\ ReloadTask(t)
  /\ loop' = DuePass
  /\ UNCHANGED <<storeVars, aroundLoop, phase, queue>>

(* Nothing more is due, or the queue is full and the item stays.           *)
DispatchEnds ==
  /\ loop.pc = "due" /\ NothingToLoad
  /\ \A t \in Tasks : Due(t) =>
       Runnable(t) /\ Fresh(t) /\ Len(queue) = DispatchQueueSize
  /\ loop' = IdleLoop
  /\ UNCHANGED <<storeVars, aroundLoop, phase, heap, dirty, wake, queue,
                 spent>>

-----------------------------------------------------------------------------
(* The workers and the runner.                                             *)

TakeDispatch(w) ==
  /\ phase = "up" /\ worker[w].pc = "idle" /\ queue # <<>>
  /\ worker' = [worker EXCEPT ![w] =
                  [pc |-> "wait", task |-> Head(queue).task, trigger |-> "schedule",
                   version |-> Head(queue).version, run |-> 0]]
  /\ queue' = Tail(queue)
  /\ UNCHANGED <<storeVars, phase, epoch, bootAt, heap, dirty, wake, loop,
                 manual, pending, toggle, spent>>

TakeManual(w) ==
  /\ phase # "down" /\ worker[w].pc = "idle" /\ manual # <<>>
  /\ worker' = [worker EXCEPT ![w] =
                  [pc |-> "wait", task |-> Head(manual), trigger |-> "manual",
                   version |-> 0, run |-> 0]]
  /\ manual' = Tail(manual)
  /\ UNCHANGED <<storeVars, phase, epoch, bootAt, heap, dirty, wake, loop,
                 queue, pending, toggle, spent>>

(* RunVersion: a slot of the semaphore, then the claim.                    *)
HasSlot(w) ==
  /\ worker[w].pc = "wait"
  /\ Cardinality({v \in Workers : worker[v].pc = "running"}) < MaxConcurrent

Claim(w) ==
  LET t == worker[w].task
  IN /\ HasSlot(w)
     /\ BeginRun(t, worker[w].trigger, worker[w].version, epoch)
     /\ worker' = [worker EXCEPT ![w].pc = "running", ![w].run = runSeq',
                                 ![w].version = task'[t].version]
     /\ UNCHANGED <<aroundWorker, spent>>

RunReturns(w) ==
  worker' = [worker EXCEPT ![w] = [IdleWorker EXCEPT !.pc = "reload", !.task = worker[w].task]]

ClaimRefused(w) ==
  /\ HasSlot(w)
  /\ BeginRunRefused(worker[w].task, worker[w].trigger, worker[w].version)
  /\ RunReturns(w)
  /\ UNCHANGED <<aroundWorker, spent>>

ClaimFails(w) ==
  /\ HasSlot(w)
  /\ Fault
  /\ RunReturns(w)
  /\ UNCHANGED <<storeVars, aroundWorker>>

(* The handler returned, panicked, timed out or was cancelled, and the     *)
(* deferred function of run wrote the outcome; or it could not.            *)
Finish(w) ==
  /\ worker[w].pc = "running"
  /\ FinishRun(worker[w].task, worker[w].run, worker[w].version, epoch)
  /\ RunReturns(w)
  /\ UNCHANGED <<aroundWorker, spent>>

FinishFails(w) ==
  /\ worker[w].pc = "running"
  /\ Fault
  /\ RunReturns(w)
  /\ UNCHANGED <<storeVars, aroundWorker>>

(* defer r.reload                                                          *)
ReloadAfterRun(w) ==
  /\ worker[w].pc = "reload"
  /\ ReloadTask(worker[w].task)
  /\ worker' = [worker EXCEPT ![w] = IdleWorker]
  /\ UNCHANGED <<storeVars, phase, epoch, bootAt, heap, loop, queue, manual,
                 pending, toggle, spent>>

-----------------------------------------------------------------------------
(* The service.                                                            *)

aroundService == <<phase, epoch, bootAt, heap, dirty, wake, loop, queue, worker>>

(* Create, CreateSourceIfMissing and UpsertSource of a new source; the     *)
(* registrations at start create tasks before Engine.Start.                *)
Create(t, enabled, sched, missed) ==
  /\ phase # "down"
  /\ CreateRow(t, enabled, sched, missed)
  /\ pending' = pending \cup {t}
  /\ UNCHANGED <<aroundService, manual, toggle, spent>>

(* Update and UpsertSource with the version the row has; with another one  *)
(* the statement changes nothing.                                          *)
Update(t, enabled, sched, missed) ==
  /\ phase # "down"
  /\ Edit
  /\ UpdateRow(t, enabled, sched, missed)
  /\ pending' = pending \cup {t}
  /\ UNCHANGED <<aroundService, manual, toggle>>

(* SetEnabled reads the row, keeps the firing it found there (or computes  *)
(* one), and writes it back whatever happened in between.                  *)
SetEnabledRead(t, enabled) ==
  /\ phase = "up" /\ toggle = Null /\ Exists(t)
  /\ Edit
  /\ toggle' = [task |-> t, enabled |-> enabled,
                next |-> IF enabled /\ task[t].next = Null
                         THEN NextFire(task[t].sched, now) ELSE task[t].next]
  /\ UNCHANGED <<storeVars, aroundService, manual, pending>>

SetEnabledWrite ==
  /\ toggle # Null
  /\ SetEnabledRow(toggle.task, toggle.enabled, toggle.next)
  /\ pending' = pending \cup {toggle.task}
  /\ toggle' = Null
  /\ UNCHANGED <<aroundService, manual, spent>>

Delete(t) ==
  /\ phase = "up"
  /\ Edit
  /\ DeleteRow(t)
  /\ pending' = pending \cup {t}
  /\ UNCHANGED <<aroundService, manual, toggle>>

(* reload, the last statement of each of them.                             *)
ServiceReload(t) ==
  /\ t \in pending
  /\ pending' = pending \ {t}
  /\ ReloadTask(t)
  /\ UNCHANGED <<storeVars, phase, epoch, bootAt, heap, loop, queue, manual,
                 worker, toggle, spent>>

RunNow(t) ==
  /\ phase = "up" /\ Exists(t) /\ task[t].enabled
  /\ Len(manual) < ManualQueueSize
  /\ manual' = Append(manual, t)
  /\ UNCHANGED <<storeVars, aroundService, pending, toggle, spent>>

(* The hourly retention pass of the server.                                *)
Prune(r) ==
  /\ phase = "up"
  /\ Edit
  /\ PruneRun(r)
  /\ UNCHANGED <<aroundService, manual, pending, toggle>>

(* Time starts with the first start.                                       *)
Clock == epoch > 0 /\ Tick /\ UNCHANGED memVars

-----------------------------------------------------------------------------
LoopStep ==
  \/ Reconcile
  \/ ReconcileList
  \/ Wake
  \/ DrainDirty
  \/ Refresh
  \/ DispatchEnds
  \/ \E t \in Tasks :
       \/ ReloadDirty(t)
       \/ LoadLocked(t) \/ LoadIndexed(t) \/ LoadRescheduled(t) \/ LoadOutdated(t)
       \/ DispatchParked(t) \/ DispatchStale(t) \/ DispatchSent(t)

WorkerStep(w) ==
  \/ w \in DispatchWorkers /\ TakeDispatch(w)
  \/ w \in ManualWorkers /\ TakeManual(w)
  \/ Claim(w)
  \/ ClaimRefused(w)
  \/ Finish(w)
  \/ ReloadAfterRun(w)

ServiceStep ==
  \/ SetEnabledWrite
  \/ \E t \in Tasks :
       \/ \E enabled \in BOOLEAN, sched \in Schedules, missed \in Policies :
            Create(t, enabled, sched, missed) \/ Update(t, enabled, sched, missed)
       \/ \E enabled \in BOOLEAN : SetEnabledRead(t, enabled)
       \/ Delete(t)
       \/ ServiceReload(t)
       \/ RunNow(t)

DbFault ==
  \/ ReconcileFails
  \/ RefreshFails
  \/ \E t \in Tasks : ReloadDirtyFails(t) \/ LoadFails(t) \/ DispatchFails(t)
  \/ \E w \in Workers : ClaimFails(w) \/ FinishFails(w)

Next ==
  \/ Boot
  \/ Crash
  \/ LoopStep
  \/ \E w \in Workers : WorkerStep(w)
  \/ ServiceStep
  \/ DbFault
  \/ \E r \in RunIds : Prune(r)
  \/ Clock

Spec == Init /\ [][Next]_vars

(* The loop's select and drain always go on, and so do the workers and the *)
(* service calls.  A handler ends, for it runs under a timeout.  The       *)
(* ticker and the timer are ready again and again, and Go's select picks   *)
(* among the ready cases at random: none of them is passed over for ever.  *)
Fairness ==
  /\ WF_vars(LoopStep)
  /\ SF_vars(Reconcile)
  /\ SF_vars(Wake)
  /\ \A t \in Tasks : SF_vars(DispatchSent(t))
  /\ \A w \in Workers : WF_vars(WorkerStep(w))
  /\ \A t \in Tasks : WF_vars(ServiceReload(t))
  /\ WF_vars(Clock)

FairSpec == Spec /\ Fairness

-----------------------------------------------------------------------------
(* Safety.                                                                 *)

Locked(t)    == Exists(t) /\ task[t].lockedBy # 0
Running(r)   == run[r] # Null /\ run[r].status = "running"

(* A run is in progress exactly when its task's lock names it: no run      *)
(* outlives its lock, no lock outlives its run, and a task never has two   *)
(* runs in progress, whatever is edited, recovered, retried or restarted   *)
(* between the claim and the completion.                                   *)
LockMatchesRun ==
  /\ \A t \in Tasks : Locked(t) =>
       /\ task[t].lockedUntil # Null
       /\ task[t].lastRun \in RunIds
       /\ Running(task[t].lastRun)
       /\ run[task[t].lastRun].task = t
       /\ run[task[t].lastRun].runner = task[t].lockedBy
  /\ \A r \in RunIds : Running(r) =>
       /\ Locked(run[r].task)
       /\ task[run[r].task].lastRun = r

(* A task that is switched off stays parked, without a next firing, even   *)
(* when a run of it ends or its lock is recovered afterwards; one that is  *)
(* on always has a next firing; and a row that says "running" is locked.   *)
DisabledIsParked ==
  \A t \in Tasks : Exists(t) =>
    /\ task[t].enabled <=> task[t].next # Null
    /\ task[t].enabled <=> task[t].status # "disabled"
    /\ task[t].status = "running" => Locked(t)

(* One firing is executed once: two scheduled runs of a task that both     *)
(* reached their end were not for the same firing.  A run that was         *)
(* abandoned, by a crash or a lost completion, is made up for.             *)
OncePerFiring ==
  \A r1, r2 \in RunIds :
    /\ run[r1] # Null /\ run[r2] # Null /\ r1 # r2
    /\ run[r1].task = run[r2].task
    /\ run[r1].trigger = "schedule" /\ run[r2].trigger = "schedule"
    /\ run[r1].status # "abandoned"
    => run[r1].due # run[r2].due \/ run[r2].status = "abandoned"

(* That holds through crashes, expiries and failing statements as long as  *)
(* nobody edits: a toggle writes back a firing that a run has used.        *)
FiresOnce == spent.edits = 0 => OncePerFiring

(* A firing that a task with the skip policy missed while the process was  *)
(* down is never executed: a scheduled claim of it is for a firing after   *)
(* the start.  Again as long as nobody edits: a toggle may write a firing  *)
(* it read before loadTask moved it back between loadTask's UpdateNextRun  *)
(* and its second Get, and what the second Get finds is indexed as it is.  *)
SkipsWhatItMissed ==
  [][\A t \in Tasks :
       (/\ spent.edits = 0 /\ Exists(t) /\ task[t].missed = "skip"
        /\ runSeq' > runSeq
        /\ run'[runSeq'].task = t /\ run'[runSeq'].trigger = "schedule")
       => task[t].next >= bootAt]_vars

(* The engine's index never loses a task nor keeps a stale firing of it:   *)
(* while the process is up, an enabled task without a lock is indexed with *)
(* its own firing and version, or somebody who will look at it again holds *)
(* it: the loop, a worker, a queue, or a service call about to reload.     *)
(* A dirty task counts only if the loop is awake or its wake token is set. *)
(* A failed database call may lose a task until the next reconciliation.   *)
Indexed(t) == heap[t] # Null /\ Fresh(t)

Attended(t) ==
  \/ t \in dirty /\ (wake \/ loop.pc \in {"list", "work"})
  \/ t \in loop.todo \/ loop.snap[t] # Null \/ loop.refresh = t \/ loop.pc = "list"
  \/ t \in pending
  \/ \E w \in Workers : worker[w].task = t
  \/ \E i \in 1..Len(queue) : queue[i].task = t

NothingForgotten ==
  phase = "up" /\ spent.faults = 0 =>
    \A t \in Tasks :
      Exists(t) /\ task[t].enabled /\ ~Locked(t) => Indexed(t) \/ Attended(t)

(* The claim of a firing that came, of a row nobody holds or has changed,  *)
(* succeeds: the engine runs a due task at once.                           *)
DueFiringIsClaimed ==
  [][\A w \in Workers, t \in Tasks :
       (/\ worker[w].pc = "wait" /\ worker[w].trigger = "schedule" /\ worker[w].task = t
        /\ worker'[w].pc = "reload"
        /\ Exists(t) /\ task[t].enabled /\ ~Locked(t)
        /\ task[t].version = worker[w].version)
       => task[t].next > now]_vars

-----------------------------------------------------------------------------
(* TaskCenter implements TaskLease.                                        *)
Leases == INSTANCE TaskLease WITH
  Runs    <- RunIds,
  None    <- 0,
  Term    <- Lease - 1,
  clock   <- now,
  holder  <- [t \in Tasks |-> IF Locked(t) THEN task[t].lastRun ELSE 0],
  expiry  <- [t \in Tasks |-> IF Locked(t) THEN task[t].lockedUntil ELSE 0],
  outcome <- [r \in RunIds |->
                IF run[r] = Null THEN IF r <= runSeq THEN "forgotten" ELSE "none"
                ELSE IF run[r].status = "running" THEN "running"
                ELSE IF run[r].status = "abandoned" THEN "abandoned" ELSE "done"]

(* Claims, completions, recoveries, edits, deletions and restarts of the   *)
(* panel are steps of the lease protocol: a task is leased to one run at a *)
(* time, for at least its timeout and 30 seconds, and a run that ended or  *)
(* was abandoned stays so.                                                 *)
ImplementsLease == Leases!LeaseSpec

-----------------------------------------------------------------------------
(* Liveness, up to the bounds of the model.                                *)

BoundReached == runSeq = MaxRuns

(* A run_once task whose firing came is claimed, edited, switched off or   *)
(* deleted, or the process stops: not even a lost reload (a database call  *)
(* that failed) loses it for good, for the reconciliation finds it.        *)
DueTask(t) ==
  /\ phase = "up" /\ Exists(t) /\ task[t].enabled /\ task[t].missed = "run_once"
  /\ task[t].next <= now /\ ~Locked(t)

DueIsClaimed ==
  \A t \in Tasks : DueTask(t) ~> (~DueTask(t) \/ BoundReached)

(* A lock does not outlive its expiry for ever, though its owner died with *)
(* an earlier process: the reconciliation takes it back.                   *)
ExpiredIsRecovered ==
  \A t \in Tasks : (phase = "up" /\ Expired(t)) ~> (~Expired(t) \/ phase # "up")
=============================================================================
