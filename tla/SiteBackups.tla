------------------------------ MODULE SiteBackups ------------------------------
(* The backups of a site: the jobs of the panel that make, restore and      *)
(* remove them (internal/sitebackup/service.go), the agent's side of the    *)
(* archive (internal/agent/site_backup_handlers.go), and the streams over   *)
(* which a browser follows a job (internal/sse, internal/api/sse_handler).  *)
(*                                                                          *)
(* A thread is a goroutine of the panel: a job admitted by tryAdmit, or the *)
(* request that deletes a backup.  A call of the agent is a record of its   *)
(* own in `agent', for the agent goes on when the panel has given it up.    *)
(* The site is a version number of each part; 0 is a part that is not       *)
(* there.  Restores and the edits of the panel take transactionMu (`mu');   *)
(* the making of an archive does not, and reads one part after the other.   *)
EXTENDS Naturals, FiniteSets

CONSTANTS
  MaxBackups,    \* bound: backups made
  MaxWorkers,    \* bound: goroutines of the panel at a time
  MaxTasks,      \* bound: tasks started from the browser
  Made,          \* the types of backups that are made
  Chosen,        \* what the request of a restore may choose, {} for nothing
  JobSlots,      \* cap(svc.jobSlots)
  Retention,     \* retention_count of the scheduled backup
  MaxEdits,      \* bound: versions of the parts
  MaxFaults,     \* bound: failures, panics and lost answers
  MaxJobs,       \* bound: jobs and requests
  NoBackup

ASSUME JobsAssumption ==
  /\ JobSlots \in Nat \ {0} /\ Retention \in Nat \ {0}
  /\ Made \subseteq {"config", "ssl", "root", "full"}
  /\ Chosen \subseteq SUBSET {"config", "ssl", "root"}
  /\ MaxBackups \in Nat /\ MaxWorkers \in Nat /\ MaxTasks \in Nat

VARIABLES
  row,           \* the table site_backups: status, type and second of creation
  archive,       \* the archives on the agent's disk
  files,         \* the site on the agent's disk
  proc,          \* what each goroutine of the panel is doing
  agent,         \* the agent's handling of each goroutine's call
  mu,            \* the goroutine whose call holds transactionMu
  stream,        \* the hub's streams of the tasks that are not pruned yet
  follower,      \* a browser that follows a task
  phase,         \* the panel is up, closing or down
  used           \* what the bounds count

backupVars == <<row, archive, files, proc, agent, mu, stream, follower, phase, used>>

Backups == 1..MaxBackups
Workers == 1..MaxWorkers
Tasks == 1..MaxTasks

Parts == {"config", "ssl", "root"}

\* addBackupEntries: the parts that an archive of a type holds.
PartsOf(type) == IF type = "full" THEN Parts ELSE {type}

\* The order of the entries in an archive.
NextPart(parts) ==
  IF "config" \in parts THEN "config" ELSE IF "ssl" \in parts THEN "ssl" ELSE "root"

Nothing == [p \in Parts |-> 0]

(* normalizeRestoreOptions: an empty choice is what the backup was made of. *)
Normalized(scope, type) == IF scope = {} THEN PartsOf(type) ELSE scope

(* snapshotType: the archive that a restore makes of what it will replace.  *)
SnapshotType(scope) ==
  IF scope = Parts THEN "full"
  ELSE IF "root" \in scope THEN "root"
  ELSE IF "ssl" \in scope THEN "ssl" ELSE "config"

\* What an archive holds, a row of the table, and what a goroutine is doing.
ArchiveContent == [Parts -> Nat]

BackupRow == [status : {"pending", "success", "failed", "deleted"},
              type : {"config", "ssl", "root", "full"}, at : Nat]

JobRecord ==
  [op : {"create", "scheduled", "restore", "delete"},
   pc : {"row", "fetch", "remove", "lease", "call", "mark", "list", "sweep", "swept", "finish", "end"},
   b : Backups \cup {NoBackup}, type : {"config", "ssl", "root", "full"}, scope : SUBSET Parts,
   task : Tasks \cup {NoBackup}, ok : BOOLEAN, list : SUBSET Backups]

ASSUME RecordAssumption == NoBackup \notin ArchiveContent \cup BackupRow \cup JobRecord

Running == {t \in Workers : proc[t] # NoBackup}
Jobs == {t \in Running : proc[t].op # "delete"}
Live(b) == row[b] # NoBackup /\ row[b].status # "deleted"

BackupsInit ==
  /\ row = [b \in Backups |-> NoBackup] /\ archive = [b \in Backups |-> NoBackup]
  /\ files = [p \in Parts |-> 1]
  /\ proc = [t \in Workers |-> NoBackup] /\ agent = [t \in Workers |-> NoBackup]
  /\ mu = NoBackup
  /\ stream = [k \in Tasks |-> "none"]
  /\ follower = NoBackup
  /\ phase = "up"
  /\ used = [jobs |-> 0, faults |-> 0, edits |-> 0, raced |-> FALSE]

Fault == used.faults < MaxFaults /\ used' = [used EXCEPT !.faults = @ + 1]

-----------------------------------------------------------------------------
(* Admission and tasks.                                                     *)

\* tryAdmit: under jobsMu, a slot and a place in the wait group, or nothing.
TryAdmit == phase = "up" /\ Cardinality(Jobs) < JobSlots

\* newTask: an entry of svc.tasks and a stream, under an identity that no
\* task has that can still be followed.
NewTask(k) ==
  /\ stream[k] = "none" /\ \A j \in 1..k-1 : stream[j] # "none"
  /\ stream' = [stream EXCEPT ![k] = "open"]

Begin(t, p) ==
  /\ \A u \in 1..t : (proc[u] = NoBackup /\ agent[u] = NoBackup) <=> u = t
  /\ used.jobs < MaxJobs
  /\ proc' = [proc EXCEPT ![t] = p]
  /\ used' = [used EXCEPT !.jobs = @ + 1]

Process(op, pc, b, type, scope, k) ==
  [op |-> op, pc |-> pc, b |-> b, type |-> type, scope |-> scope, task |-> k,
   ok |-> FALSE, list |-> {}]

At(t, op, pc) == proc[t] # NoBackup /\ proc[t].op = op /\ proc[t].pc = pc
Goto(t, pc, ok) == proc' = [proc EXCEPT ![t].pc = pc, ![t].ok = ok]

\* StartCreate, and RunScheduled, which has no task and cleans up afterwards.
StartCreate(t) ==
  /\ TryAdmit
  /\ \E k \in Tasks, type \in Made :
       NewTask(k) /\ Begin(t, Process("create", "row", NoBackup, type, {}, k))
  /\ UNCHANGED <<row, archive, files, agent, mu, follower, phase>>

RunScheduled(t) ==
  /\ TryAdmit
  /\ Begin(t, Process("scheduled", "row", NoBackup, "full", {}, NoBackup))
  /\ UNCHANGED <<row, archive, files, agent, mu, stream, follower, phase>>

\* StartRestore: any backup that is not deleted, a failed or pending one too.
StartRestore(t) ==
  /\ TryAdmit
  /\ \E b \in Backups, k \in Tasks, scope \in Chosen :
       /\ Live(b) /\ NewTask(k)
       /\ Begin(t, Process("restore", "fetch", b, row[b].type, Normalized(scope, row[b].type), k))
  /\ UNCHANGED <<row, archive, files, agent, mu, follower, phase>>

StartDelete(t) ==
  /\ phase = "up"
  /\ \E b \in Backups :
       Live(b) /\ Begin(t, Process("delete", "remove", b, row[b].type, {}, NoBackup))
  /\ UNCHANGED <<row, archive, files, agent, mu, stream, follower, phase>>

-----------------------------------------------------------------------------
(* Calls of the agent.                                                      *)

\* WithBackup and RestoreBackup: a call about the configuration waits for the
\* site's lease and holds it until it returns.
Configures(t) == "config" \in IF proc[t].op = "restore" THEN proc[t].scope ELSE PartsOf(proc[t].type)
LeaseFree == \A u \in Running : proc[u].pc = "call" => ~Configures(u)

Call(t) ==
  /\ proc[t] # NoBackup /\ proc[t].pc = "lease"
  /\ Configures(t) => LeaseFree
  /\ Goto(t, "call", FALSE)
  /\ agent' = [agent EXCEPT ![t] =
       [pc |-> IF proc[t].op = "restore" THEN "lock" ELSE "read", b |-> proc[t].b,
        todo |-> PartsOf(proc[t].type), got |-> Nothing, scope |-> proc[t].scope,
        created |-> {}, before |-> Nothing, left |-> FALSE, ans |-> "none"]]
  /\ UNCHANGED <<row, archive, files, mu, stream, follower, phase, used>>

AgentAt(t, pc) == agent[t] # NoBackup /\ agent[t].ans = "none" /\ agent[t].pc = pc

\* An answer that nobody waits for any more is dropped.
Reply(t, ans) ==
  agent' = [agent EXCEPT ![t] = IF agent[t].left THEN NoBackup ELSE [@ EXCEPT !.ans = ans]]

(* The request's context ended (time limit or shutdown): the agent notices  *)
(* at its next look at the context, or not any more.                        *)
GiveUp(t, next) ==
  /\ agent[t] # NoBackup /\ agent[t].ans = "none" /\ ~agent[t].left
  /\ phase = "up" => used.faults < MaxFaults
  /\ agent' = [agent EXCEPT ![t].left = TRUE]
  /\ Goto(t, next, FALSE)
  /\ used' = IF phase = "up" THEN [used EXCEPT !.faults = @ + 1] ELSE used

Answered(t, next) ==
  /\ agent[t] # NoBackup /\ ~agent[t].left /\ agent[t].ans # "none"
  /\ agent' = [agent EXCEPT ![t] = NoBackup]
  /\ Goto(t, next, agent[t].ans = "ok")

-----------------------------------------------------------------------------
(* Making a backup: Create and createSiteBackup.                            *)

Creating(t, pc) == At(t, "create", pc) \/ At(t, "scheduled", pc)
AfterCreate(t, ok) == IF proc[t].op = "create" THEN "finish" ELSE IF ok THEN "list" ELSE "end"

\* Seconds go by or not between two insertions.
LastSecond == IF \A b \in Backups : row[b] = NoBackup THEN 0
              ELSE CHOOSE n \in {row[b].at : b \in {c \in Backups : row[c] # NoBackup}} :
                     \A b \in Backups : row[b] # NoBackup => row[b].at <= n

InsertRow(t) ==
  /\ Creating(t, "row")
  /\ \E b \in Backups, tick \in {0, 1} :
       /\ row[b] = NoBackup /\ \A c \in 1..b-1 : row[c] # NoBackup
       /\ row' = [row EXCEPT ![b] = [status |-> "pending", type |-> proc[t].type, at |-> LastSecond + tick]]
       /\ proc' = [proc EXCEPT ![t].b = b, ![t].pc = "lease"]
  /\ UNCHANGED <<archive, files, agent, mu, stream, follower, phase, used>>

InsertFails(t) ==
  /\ Creating(t, "row")
  /\ Fault /\ Goto(t, AfterCreate(t, FALSE), FALSE)
  /\ UNCHANGED <<row, archive, files, agent, mu, stream, follower, phase>>

ReadPart(t) ==
  /\ AgentAt(t, "read")
  /\ LET p == NextPart(agent[t].todo)
     IN agent' = [agent EXCEPT ![t].got[p] = files[p], ![t].todo = @ \ {p},
                               ![t].pc = IF agent[t].todo = {p} THEN "rename" ELSE "read"]
  /\ UNCHANGED <<row, archive, files, proc, mu, stream, follower, phase, used>>

\* The temporary file becomes the archive.
Store(t) ==
  /\ AgentAt(t, "rename")
  /\ archive' = [archive EXCEPT ![agent[t].b] = agent[t].got]
  /\ Reply(t, "ok")
  /\ UNCHANGED <<row, files, proc, mu, stream, follower, phase, used>>

\* A file that is no file, a budget exceeded, a full disk, the context's end.
CreateFails(t) ==
  /\ AgentAt(t, "read") \/ AgentAt(t, "rename")
  /\ IF agent[t].left THEN used' = used ELSE Fault
  /\ Reply(t, "failed")
  /\ UNCHANGED <<row, archive, files, proc, mu, stream, follower, phase>>

CreateReturns(t) ==
  /\ Creating(t, "call")
  /\ \/ Answered(t, "mark") /\ used' = used
     \/ GiveUp(t, "mark")
  /\ UNCHANGED <<row, archive, files, mu, stream, follower, phase>>

\* MarkFinished, whose error is ignored and which looks at no status.
MarkFinished(t) ==
  /\ Creating(t, "mark")
  /\ \/ /\ row' = [row EXCEPT ![proc[t].b].status = IF proc[t].ok THEN "success" ELSE "failed"]
        /\ used' = used
     \/ Fault /\ row' = row
  /\ Goto(t, AfterCreate(t, proc[t].ok), proc[t].ok)
  /\ UNCHANGED <<archive, files, agent, mu, stream, follower, phase>>

-----------------------------------------------------------------------------
(* cleanupRetention: what is beyond the newest Retention successful ones,   *)
(* in an order that a second with two backups leaves open.                  *)

WithStatus(statuses) == {b \in Backups : row[b] # NoBackup /\ row[b].status \in statuses}

\* ListSuccessfulBySiteID.
ListedAll == WithStatus({"pending", "success", "failed"})
Listed == WithStatus({"success"})

Newest(kept) ==
  /\ kept \subseteq Listed
  /\ Cardinality(kept) = IF Cardinality(Listed) < Retention THEN Cardinality(Listed) ELSE Retention
  /\ \A b \in kept, c \in Listed \ kept : row[b].at >= row[c].at

ListSuccessful(t) ==
  /\ At(t, "scheduled", "list")
  /\ \E kept \in SUBSET Backups :
       /\ Newest(kept)
       /\ proc' = [proc EXCEPT ![t].list = Listed \ kept,
                               ![t].pc = IF Listed = kept THEN "end" ELSE "sweep"]
  /\ UNCHANGED <<row, archive, files, agent, mu, stream, follower, phase, used>>

\* A removal that fails leaves the backup for the next run.
Sweep(t) ==
  /\ At(t, "scheduled", "sweep") /\ proc[t].list # {}
  /\ \E b \in proc[t].list :
       \/ /\ archive' = [archive EXCEPT ![b] = NoBackup] /\ used' = used
          /\ proc' = [proc EXCEPT ![t].b = b, ![t].list = @ \ {b}, ![t].pc = "swept"]
       \/ /\ Fault /\ archive' = archive
          /\ proc' = [proc EXCEPT ![t].list = @ \ {b}]
  /\ UNCHANGED <<row, files, agent, mu, stream, follower, phase>>

\* MarkDeleted, whose error is ignored here.
Swept(t) ==
  /\ At(t, "scheduled", "swept")
  /\ \/ row' = [row EXCEPT ![proc[t].b].status = "deleted"] /\ used' = used
     \/ Fault /\ row' = row
  /\ Goto(t, "sweep", TRUE)
  /\ UNCHANGED <<archive, files, agent, mu, stream, follower, phase>>

-----------------------------------------------------------------------------
(* Delete: the file, then the row.                                          *)

RemoveArchive(t) ==
  /\ At(t, "delete", "remove")
  /\ \/ /\ archive' = [archive EXCEPT ![proc[t].b] = NoBackup] /\ Goto(t, "mark", TRUE)
        /\ used' = [used EXCEPT !.raced = @ \/ row[proc[t].b].status = "pending"]
     \/ Fault /\ Goto(t, "end", FALSE) /\ archive' = archive
  /\ UNCHANGED <<row, files, agent, mu, stream, follower, phase>>

MarkDeleted(t) ==
  /\ At(t, "delete", "mark")
  /\ \/ row' = [row EXCEPT ![proc[t].b].status = "deleted"] /\ used' = used
     \/ Fault /\ row' = row
  /\ Goto(t, "end", TRUE)
  /\ UNCHANGED <<archive, files, agent, mu, stream, follower, phase>>

-----------------------------------------------------------------------------
(* Restore and restoreSiteBackup.                                           *)

\* The bundle of policies in the archive is read before the configuration is
\* restored.
Fetch(t) ==
  /\ At(t, "restore", "fetch")
  /\ IF "config" \in proc[t].scope /\ archive[proc[t].b] = NoBackup
       THEN Goto(t, "finish", FALSE)
       ELSE Goto(t, "lease", FALSE)
  /\ UNCHANGED <<row, archive, files, agent, mu, stream, follower, phase, used>>

\* The lock, the look at the archive, and the snapshot of what is replaced.
Snapshot(t) ==
  /\ AgentAt(t, "lock") /\ mu = NoBackup
  /\ LET kept == PartsOf(SnapshotType(agent[t].scope))
     IN IF archive[agent[t].b] = NoBackup
          THEN Reply(t, "failed") /\ mu' = mu
          ELSE /\ mu' = t
               /\ agent' = [agent EXCEPT ![t].pc = "extract", ![t].todo = agent[t].scope,
                    ![t].before = files, ![t].got = [p \in Parts |-> IF p \in kept THEN files[p] ELSE 0]]
  /\ UNCHANGED <<row, archive, files, proc, stream, follower, phase, used>>

\* The request's context is looked at before the lock only by the server.
SnapshotFails(t) ==
  /\ AgentAt(t, "lock") /\ mu = NoBackup
  /\ IF agent[t].left THEN used' = used ELSE Fault
  /\ Reply(t, "failed")
  /\ UNCHANGED <<row, archive, files, proc, mu, stream, follower, phase>>

\* One entry after the other; a part that the archive lacks is left alone.
Extracted(t, content) ==
  LET p == NextPart(agent[t].todo)
  IN /\ files' = IF content[p] = 0 THEN files ELSE [files EXCEPT ![p] = content[p]]
     /\ agent' = [agent EXCEPT ![t].todo = @ \ {p},
                    ![t].created = IF files[p] = 0 /\ content[p] # 0 THEN @ \cup {p} ELSE @]

Extract(t) ==
  /\ AgentAt(t, "extract") /\ agent[t].todo # {} /\ archive[agent[t].b] # NoBackup
  /\ Extracted(t, archive[agent[t].b])
  /\ UNCHANGED <<row, archive, proc, mu, stream, follower, phase, used>>

\* What the failed extraction has made is removed, then the snapshot is
\* extracted over what it has replaced.
TurnBack(t, removed) ==
  /\ files' = [p \in Parts |-> IF p \in removed THEN 0 ELSE files[p]]
  /\ agent' = [agent EXCEPT ![t].pc = "back", ![t].todo = agent[t].scope]

ExtractFails(t) ==
  /\ AgentAt(t, "extract") /\ agent[t].todo # {}
  /\ IF agent[t].left \/ archive[agent[t].b] = NoBackup THEN used' = used ELSE Fault
  /\ TurnBack(t, agent[t].created)
  /\ UNCHANGED <<row, archive, proc, mu, stream, follower, phase>>

\* nginx -t, over whatever the other sites hold, when it may have changed.
Tested(t) ==
  /\ AgentAt(t, "extract") /\ agent[t].todo = {}
  /\ IF agent[t].scope = {"root"}
       THEN Reply(t, "ok") /\ mu' = NoBackup /\ files' = files
       ELSE \/ /\ \E ans \in {"ok", "failed"} : Reply(t, ans)     \* passed, and the reload
               /\ mu' = NoBackup /\ files' = files
            \/ TurnBack(t, {}) /\ mu' = mu
  /\ UNCHANGED <<row, archive, proc, stream, follower, phase, used>>

Back(t) ==
  /\ AgentAt(t, "back") /\ agent[t].todo # {}
  /\ Extracted(t, agent[t].got)
  /\ UNCHANGED <<row, archive, proc, mu, stream, follower, phase, used>>

RolledBack(t) ==
  /\ AgentAt(t, "back") /\ agent[t].todo = {}
  /\ Reply(t, "undone") /\ mu' = NoBackup
  /\ UNCHANGED <<row, archive, files, proc, stream, follower, phase, used>>

BackFails(t) ==
  /\ AgentAt(t, "back") /\ agent[t].todo # {} /\ Fault
  /\ Reply(t, "stuck") /\ mu' = NoBackup
  /\ UNCHANGED <<row, archive, files, proc, stream, follower, phase>>

RestoreReturns(t) ==
  /\ At(t, "restore", "call")
  /\ \/ Answered(t, "finish") /\ used' = used
     \/ GiveUp(t, "finish")
  /\ UNCHANGED <<row, archive, files, mu, stream, follower, phase>>

-----------------------------------------------------------------------------
(* The end of a job: finishTask, releaseJob.                                *)

\* A panic anywhere in the job ends it as failed.
PanicUnseen(t) ==
  /\ proc[t] # NoBackup /\ proc[t].task # NoBackup /\ proc[t].pc # "finish" /\ agent[t] = NoBackup
  /\ Fault /\ proc' = [proc EXCEPT ![t] = NoBackup]
  /\ UNCHANGED <<row, archive, files, agent, mu, stream, follower, phase>>

Panic(t) ==
  /\ proc[t] # NoBackup /\ proc[t].task # NoBackup /\ proc[t].pc # "finish" /\ agent[t] = NoBackup
  /\ Fault /\ Goto(t, "finish", FALSE)
  /\ UNCHANGED <<row, archive, files, agent, mu, stream, follower, phase>>

\* The entry, the event with it and the end of the stream, to who follows it;
\* a stream that the shutdown has closed is made again and nobody sees it.
FinishTask(t) ==
  /\ proc[t] # NoBackup /\ proc[t].pc = "finish"
  /\ LET k == proc[t].task
     IN /\ stream' = [stream EXCEPT ![k] = "done"]
        /\ follower' = IF follower = [task |-> k, saw |-> "waiting"]
                         THEN [task |-> k, saw |-> "end"] ELSE follower
  /\ proc' = [proc EXCEPT ![t] = NoBackup]
  /\ UNCHANGED <<row, archive, files, agent, mu, phase, used>>

Return(t) ==
  /\ proc[t] # NoBackup
  /\ proc[t].pc = "end" \/ (proc[t].pc = "sweep" /\ proc[t].list = {})
  /\ proc' = [proc EXCEPT ![t] = NoBackup]
  /\ UNCHANGED <<row, archive, files, agent, mu, stream, follower, phase, used>>

-----------------------------------------------------------------------------
(* Streams: GetStream, SubscribeSnapshot and the loop of serveSSE.          *)

Follow(k) ==
  /\ follower = NoBackup /\ phase = "up" /\ stream[k] \in {"open", "done"}
  /\ follower' = [task |-> k, saw |-> IF stream[k] = "open" THEN "waiting" ELSE "end"]
  /\ UNCHANGED <<row, archive, files, proc, agent, mu, stream, phase, used>>

\* The browser has what it wants, or goes away.
Unfollow ==
  /\ follower # NoBackup /\ follower.saw # "waiting" /\ follower' = NoBackup
  /\ UNCHANGED <<row, archive, files, proc, agent, mu, stream, phase, used>>

\* PruneClosedBefore and PruneTasksBefore, a time after the task's end.
Prune(k) ==
  /\ phase = "up" /\ stream[k] = "done"
  /\ stream' = [stream EXCEPT ![k] = "none"]
  /\ UNCHANGED <<row, archive, files, proc, agent, mu, follower, phase, used>>

-----------------------------------------------------------------------------
(* Other writers of the site, and the end of the panel.                     *)

\* A transaction of the panel: it makes, changes or removes a part.
Edit(p) ==
  /\ mu = NoBackup /\ used.edits < MaxEdits
  /\ used' = [used EXCEPT !.edits = @ + 1]
  /\ \E v \in {0, used.edits + 2} : files[p] # v /\ files' = [files EXCEPT ![p] = v]
  /\ UNCHANGED <<row, archive, proc, agent, mu, stream, follower, phase>>

\* Cancel: the root context, and every stream, whose followers are cut.
Close ==
  /\ phase = "up" /\ phase' = "closing"
  /\ stream' = [k \in Tasks |-> "none"]
  /\ follower' = IF follower # NoBackup THEN [follower EXCEPT !.saw = IF @ = "waiting" THEN "cut" ELSE @]
                 ELSE follower
  /\ UNCHANGED <<row, archive, files, proc, agent, mu, used>>

\* Service.Close has waited for the jobs, and the process ends.
Closed ==
  /\ phase = "closing" /\ Jobs = {}
  /\ phase' = "down"
  /\ proc' = [t \in Workers |-> NoBackup] /\ agent' = [t \in Workers |-> IF agent[t] = NoBackup THEN NoBackup
                                                        ELSE [agent[t] EXCEPT !.left = TRUE]]
  /\ used' = [used EXCEPT !.raced = @ \/ Running # {}]
  /\ UNCHANGED <<row, archive, files, mu, stream, follower>>

Panel(t) ==
  \/ InsertRow(t) \/ InsertFails(t) \/ Call(t) \/ CreateReturns(t) \/ MarkFinished(t)
  \/ ListSuccessful(t) \/ Sweep(t) \/ Swept(t) \/ RemoveArchive(t) \/ MarkDeleted(t)
  \/ Fetch(t) \/ RestoreReturns(t) \/ FinishTask(t) \/ Return(t)

Agent(t) ==
  \/ ReadPart(t) \/ Store(t) \/ CreateFails(t) \/ Snapshot(t) \/ SnapshotFails(t)
  \/ Extract(t) \/ ExtractFails(t) \/ Tested(t) \/ Back(t) \/ RolledBack(t) \/ BackFails(t)

BackupsNext ==
  \/ \E t \in Workers : StartCreate(t) \/ RunScheduled(t) \/ StartRestore(t) \/ StartDelete(t)
  \/ \E t \in Workers : Panel(t) \/ Agent(t) \/ Panic(t)
  \/ \E k \in Tasks : Follow(k) \/ Prune(k)
  \/ Unfollow
  \/ \E p \in Parts : Edit(p)
  \/ Close \/ Closed

BackupsSpec ==
  /\ BackupsInit /\ [][BackupsNext]_backupVars
  /\ \A t \in Workers : WF_backupVars(Panel(t)) /\ WF_backupVars(Agent(t))

-----------------------------------------------------------------------------
(* A backup shown as successful can be downloaded and restored, while none  *)
(* is being removed and unless a pending one was removed or a statement     *)
(* failed.                                                                  *)
SuccessHasArchive ==
  ~used.raced /\ used.faults = 0 =>
    \A b \in WithStatus({"success"}) : archive[b] # NoBackup
       \/ \E t \in Running : proc[t].b = b /\ proc[t].pc \in {"mark", "swept"}

(* Who follows a job learns its end, whatever fails in it, as long as the   *)
(* panel runs.                                                              *)
FollowersLearnTheEnd ==
  (follower # NoBackup /\ follower.saw = "waiting")
    ~> (follower # NoBackup /\ follower.saw # "waiting")

(* A restore that answers that it was undone has left the site as it was.   *)
RestoreIsUndone ==
  [][\A t \in Workers : RolledBack(t) => files = agent[t].before]_backupVars
=============================================================================
