# A formal model of NxPanel

NxPanel manages the sites of one nginx host. It is two Go processes: the
**panel** (`cmd/nxpanel-api`, HTTP API, SQLite, background jobs) and the
**agent** (`cmd/nxpanel-agent`, a privileged process that writes the nginx
configuration, tests and reloads nginx). The panel decides, the agent carries
out; each can die, time out or fail without the other. This directory holds TLA+
modules of the parts where that is hard, TLC configurations that check them on
small instances, and TLAPS proofs of what holds for instances of any size.

    TaskStore, TaskCenter, TaskLease   scheduled tasks; the claim protocol they implement
    AgentTransaction                   the agent's file transactions and nginx
    Sites, SiteMaintenance             site rows and files; maintenance; their composition
    AccessPolicies, AccessLimits,      access policies; accounts and older rules; reverse
      SiteProxies, AccessControl         proxies; GeoIP updates and restores; their composition
    Certificates, AcmeOrders           certificates of sites; orders and jobs; their composition
    Login                              passwords, sessions, tokens, two-factor login
    SiteBackups                        backup jobs, archives, restores, event streams
    SharedConfig                       main configuration, upstreams, default server
    PanelSettings                      the configuration file of panel and agent
    LogAnalysis                        access log, rotation, cursors, counts
    FileManager                        the file manager's requests
    GeoRules                           country rules of sites without an access policy
    SiteIncludes                       hotlink rules and custom locations of a site
    MC*.tla, *.cfg                     instances of the above for TLC
    *Proofs.tla                        theorems, one module per component
    PROJECT.json                       components, runs, mutants, source map, findings,
                                       hazards, theorems

Paths below are relative to the repository; `repo.go` without a directory is
`internal/scheduledtask/repo.go` and so on within a section.

## 1. The system

| Component | State | Operations | What makes it correct |
|---|---|---|---|
| **scheduled tasks** `internal/scheduledtask` | tables `scheduled_tasks` (definition, `next_run_at`, lock, version) and `scheduled_task_runs`; in memory a heap of next firings, a dirty set, a wake token, two bounded queues, a semaphore | the engine's loop (reconcile, drain, load, dispatch), workers (claim, run handler, finish, reload), service calls (create, update, toggle, delete, run now), pruning | a task has one run at a time; a firing runs once; nothing due is forgotten; locks of dead processes are recovered; disabled tasks stay parked |
| **agent transactions** `internal/agent` | the files, the nginx master, `transactionMu` | check hashes, back up, apply changes, `nginx -t`, reload or start, wait for new workers, roll back | all or nothing; nginx serves the files after an ok; maintenance survives every other write |
| **sites, site maintenance** `internal/sites`, `internal/maintenance` | site rows, maintenance rows with a pending state, `sites-available`, `sites-enabled`, pages | create, import, edit, rename, enable, disable, delete, replace a certificate; begin, transaction, confirm, reconcile | row and files agree or the row says pending; a site in maintenance is edited by nobody |
| **access control** `internal/accesspolicy`, `accesslimit`, `proxy`, `geoaccess` | desired and applied versions, accounts, older rules, proxy rows; includes and password files; per-site leases | save, apply, refresh, migrate, edit accounts and proxies, update the GeoIP database, back up and restore | what is applied is served; who was revoked is out; no edit is lost |
| **ACME, certificates** `internal/acme`, `internal/ssl` | orders, `site_ssl`, the certificate store, jobs, `certificateMu` | upload, deploy, replace, remove, issue, renew, sweep | nginx never loads a missing file; the row is what is served; every order ends |
| **login** `internal/auth`, `internal/twofa` | account, sessions, temporary tokens with their counts, codes | log in, second factor, change of password, two-factor on and off, logout, purge | a code or token lets in once; sessions are capped; a new password ends old sessions |
| **site backups, event streams** `internal/sitebackup`, `internal/sse` | jobs and slots in memory, rows, archives, stream history | admit, archive, retain, restore with a snapshot, delete, follow, shut down | a successful backup has its archive; a follower learns the end |
| **shared configuration** `internal/nginxconf`, `upstream`, `settings` | main file, upstream rows and recorded hash, default server | save, sync, choose the default, install the include | the files load together whoever wrote last |
| **panel settings** `internal/app`, `settings` | one file, each process's copy in memory | start, update, write back, edit by hand | a restart keeps the way in |
| **log analysis** `internal/accessanalysis`, `internal/agent` | log files, cursors, counts, running jobs | write, rotate, scan, save, restart | a line is counted once |
| **file manager** `internal/agent`, `internal/api` | the site's files | write, remove, move, copy, compress, extract | the answer says what happened |
| **country rules** `internal/geoaccess` | rows, one file for all sites, bodies, includes | enable, edit, reorder, sync, install, reconcile | an applied row is what is served |
| **site includes** `internal/hotlink`, `rewrite` | rows, recorded hash, two include files | edit rules, save by hash, apply a template | file and rows agree; a save replaces what its editor saw |
| the rest (text functions, validation, transport, metrics, wiring, front end, installers) | none that other parts rely on | | not modelled; see section 16 |

**Interaction.** HTTP handlers and background jobs of the panel call the agent
over HTTP; an answer may be lost though the work was done. All panel state is in
one SQLite file whose writers are serialised. Scheduled tasks run handlers that
the other components register (renewal, backup, refresh, analysis, retention).
Every write to the nginx configuration ends in an agent transaction, except the
unlocked handlers of the agent listed under the hazards. The nginx master
re-reads the files some time after it is signalled.

**What is hard.** The memory of the task engine is a cache of rows that
others change; both processes can die between any two statements; nginx reloads
asynchronously; timeouts leave work done but unconfirmed; and several
writers touch one configuration file. `PROJECT.json` lists these as hazards with
their source lines and, where a run covers them, the properties.

## 2. Plan

Most important first; every module keeps its parameters as CONSTANTS with
named assumptions, has one action per operation and no RECURSIVE operator.

1. Scheduled tasks, with the lease protocol they implement. *Done, proved.*
2. Agent transactions. *Done, proved.*
3. Sites and their maintenance, composed. *Done, proved.*
4. Access control: policies, accounts, older rules, proxies, GeoIP updates,
   restores, composed. *Done, proved.*
5. Certificates and ACME orders, composed. *Done, proved.*
6. Login. *Done, proved.*
7. Around the sites: backups and event streams, shared configuration, panel
   settings, log analysis, file manager, country rules, includes. *Done, proved.*

The desired/applied register planned at first as an abstract specification of policies,
proxies and upstreams was given up: a policy's apply may be refused and keep
the applied version, a proxy has no applied version, and an upstream records a
hash only; what they have in common is the property each module states
(`AppliedIsServed`, `LinkedRuleFollows`, `SyncedIsTrue`). `TaskLease` is the abstract specification
that has a protocol of its own to state.

There is one run per composition and question, and a run that refutes a documented claim
only where the claim is wrong.

## 3. Scheduled tasks

**TaskStore** has one action or operator per transaction of `repo.go`:
`BeginRun`/`BeginRunRefused` (BeginRunVersion with `recoverExpiredLocksTx`),
`FinishRun` (with `releaseMatchingLock`), `UpdateNextRun`,
`MarkExpiredRunningAbandoned`, `CreateRow`, `UpdateRow`, `SetEnabledRow`,
`DeleteRow`, `PruneRun`. The WHERE clauses are the guards; the version columns
are kept. `TextLeq` is SQLite's comparison of RFC3339Nano texts: time is
counted in half seconds, because what matters is whether an instant has a
fraction. `NextFire` and `NextRunAt` are `schedule.go`.

**TaskCenter** adds the process. `phase` and `epoch` are the process and its
`runnerID`; `heap`, `dirty`, `wake`, `queue` are fields of `Engine`, `manual` is
`Service.manual`; `loop` and `worker` hold the program counter and local
variables of the goroutines. One action is one database call with the
memory operations around it, so between any two calls of the loop (for
example between `Get` and `UpdateNextRun` in `loadTask`) the workers, the service
and the clock may move. `pending` and `toggle` are service calls between two of
their own statements. Each database call has a variant that fails
(`ReconcileFails`, `LoadFails`, `DispatchFails`, `ClaimFails`, `FinishFails`, ...);
`Crash` may strike anywhere, and `Boot` starts a new process with a new epoch. A
graceful `Stop` is workers that finish followed by `Crash`.

**TaskLease** is what the claim protocol promises without tables, versions or
queues. The refinement mapping reads `holder` from `last_run_id` of a locked row and
`expiry` from `locked_until`; `Term` is `Lease - 1` because `BeginRunVersion`
truncates the clock to whole seconds before it adds the lease.

| Run | Question | Instance | States |
|---|---|---|---|
| `tasks` | Do locks, runs and firings stay in step, is nothing due lost or run twice, and is every step one of the lease, through a crash, a restart and a failing statement, or an edit, a toggle, a deletion, manual runs and pruning at any point? | 1 task, a dispatch and a manual worker, 2 boots, 1 edit or 1 failing statement, 5 half seconds, 2 runs | 0.65 M |
| `tasks_liveness` | Is a due task claimed and an expired lock recovered in the end? | 1 task, 2 boots, a crash and a failing statement, no symmetry, 6 half seconds, `FairSpec` | 0.54 M |
| `tasks_refused` | Refuted: a due firing is claimed at once | finding 1 | - |
| `tasks_makeup` | Refuted: a firing runs once, with toggles | finding 2 | - |

*Bounds.* A firing takes two half seconds to come round and a lease two to expire, so
five instants hold a firing, a missed firing, an expiry and a second run. Two
runs are enough for every property that compares runs, because each
concerns a pair. Two boots make one crash with a recovery. One failing
statement is placed at every call, one edit at every point. The constraint
`ByHandOrFault` of MCTaskCenter keeps the two apart: a history has edits or manual runs, then of
a clock task with the skip policy, in its first process and without a fault, both of them only within the first
second; or it has restarts and the fault. Both at once are too many states; the proofs
of section 17 need no such constraint. Deadlock is not checked:
when the bounds are used up and nothing is due the system really rests.

*Provisos.* `FiresOnce` and `SkipsWhatItMissed` hold as long as nobody edits. For
`FiresOnce` that is finding 2. For the skip policy it is a race that no test reaches and that
the instance of `tasks` is too small for; the attempt to prove the
property without the proviso led to it: `loadTask` moves a missed firing on by `UpdateNextRun`, a toggle
that had read the missed one writes it back, and the second `Get` of
`loadTask` indexes the row as it finds it, without looking at the policy again. `NothingForgotten` excepts a
failing statement, after which the next reconciliation finds the task (`DueIsClaimed`).

*Fairness* (`FairSpec`). The loop, each worker, the pending reloads of service calls
and the clock are weakly fair: nothing holds them up for ever, a handler runs
under a timeout, and database calls return. `Reconcile`, `Wake` and
`DispatchSent` are strongly fair: the ticker, the wake token and the timer are
cases of one Go `select`, which picks among the ready ones at random, so a
case that is ready again and again is taken. No fairness is assumed of
edits, boots, crashes or failures. The liveness properties hold up to the end of the
bounded history (`BoundReached`), and the run has four run ids and a second boot so that the end is not
near the beginning: a lock left by a process that died is recovered by the next one.

*Left out.* The error branches of `NextRunAt`/`CompileSchedule` (a stored schedule
was validated); the difference between the ways a run ends; the choice
of rows in `PruneRuns` (any ended row may go); a clock that steps back.

## 4. Agent transactions

**AgentTransaction** is `transaction.go` and the transaction handler of
`handlers.go`. `transactionMu` is held from before the hash checks to the answer, so
one variable `tx` holds the handler that owns the lock: `Accept`, `Prepare` (aliases,
hashes, `ValidateMaintenanceWrite`, backups) or `Refuse`; `ApplyOne`, `Unlink`/`Relink`
(`applyOne`; replacing a link is two system calls); `TestPasses`/`TestFails`;
`Reload`, `ReloadFails`, `ReloadFindsNoMaster`, `StartSucceeds`, `StartFails`
(`nginx_executor.go`); `Ready`/`ReadyTimesOut` (`reload_barrier.go`);
`RollbackOne`, `RollbackMisses`, `RollbackDone`, `RollbackFails`. `FilesWrite` is the
file handler that takes the lock, `ManualReload` the one that does not. A crash of the agent leaves
the disk as it is: there is no journal.

`master` is nginx: `hup` is a signal it has yet to see (signals merge), `reading`
what it loaded before its workers are replaced, `live` what the workers serve. An invalid
configuration keeps the old one. `nginx -s reload` only signals.

A body is a text with or without the maintenance block; `Broken` are the texts
nginx rejects; `CertPatches` stands for the exact replacement of
certificate arguments that `ValidateMaintenanceWrite` allows. Equal hashes are equal
bodies. A link may lead to any file of `Available`, because enabling a renamed site links
the file of its domain of today (`internal/sites/service.go`). A request that says what it expects of a
file is the only one to touch it and changes no other file of the sites
(`RequestsAssumption`): maintenance and certificate deployments write one configuration, and
beside it pages, certificates and checks. `MCAgentTransaction` gives the requests that `internal/sites`,
`internal/maintenance`, `internal/ssl` and the editors send for one site.

| Run | Question | Instance | States |
|---|---|---|---|
| `agent_tx` | All or nothing, maintenance kept, an ok means live | 3 of 11 requests, 1 manual reload, 1 fault (failing command or write, dying agent or nginx) | 2.3 M |
| `agent_rollback` | Refuted: a rollback restores the original files | finding 3 | - |

*Bounds.* Three transactions are a transition to maintenance, a patch or an edit within it, and the
way back or a failure; one reload without the lock and one fault are placed
at every point. The site has a file, a link and a file beside it, which is what the longest request
touches. Deadlock is not checked: a host without requests rests.

*What holds only with a proviso*, each visible in a definition:

- `ConfirmedIsLive` has the conjunct `tx.alone`. The barrier waits for other workers
  than those of the beginning; it cannot tell whose reload replaced them, so
  a reload under way may satisfy it. A crashed worker's replacement
  could too; worker crashes are not modelled.
- `AllOrNothing` excuses `halfRolledBack`: `Rollback` stops at its first failed write, and
  ignores failed removals, and the handler answers the same as after a full
  one (`handlers.go`).
- `RestingNginxServesDisk` is about the last answer being ok: after a failed
  transaction whose killed reload had been signalled, nginx may have loaded files
  that were rolled back since.
- A crash leaves whatever was written; `MaintenanceHolds` still holds then.
- `MaintenanceHolds` excepts a link that the transaction itself has just made to a file in
  maintenance (`NewLink`): when it is rolled back, it no longer leads there.
- A reload can be lost: if the next transaction writes a broken text before the
  master reads the files, the master keeps the old configuration. The next
  reload repairs it.

*Left out.* mkdir, chown and truncate changes; links of links; the re-check of an
alias between resolving and backing up (part of `Prepare`); requests that end
while they wait for the lock (they change nothing); the unlocked handlers, which
the panel refuses for a site under maintenance (`internal/api/maintenance_handler.go`)
and which module 3 of the plan takes up.

## 5. Sites and maintenance

**Sites** is `internal/sites/service.go` with the configuration editor, the
repositories it writes and the background work on the same file;
**SiteMaintenance** is `internal/maintenance/service.go` and the composition.
`rows` and `states` are the tables `sites` and `site_maintenance`, `disk` is what the
agent wrote: a configuration (whose it is, its server name, the rest of its text, its certificate, its maintenance
block), a link and a page per site. `http` is the one mutating request that
`configurationWriteMu` lets in (`internal/api/maintenance_handler.go`), `job` one piece of work that does not take
it (renewal, refresh of log paths, deployment), `late` a call of the agent that the panel gave
up and that is still carried out. A call is one step, which the theorem `TransactionsAreAtomic`
justifies: it is all or nothing to whoever reads under the lock. `Begin`
records what is wanted, `Call` writes, `Confirm` records what is there;
reconciliation repeats the transaction. `guardMaintenanceWrites` is the guard `Blocked`.

Run `sites`: 2 sites, 2 domains, 1 file nginx had before, 5 requests, 1 job, 1 fault (a refused or lost
call, a failed confirmation, a crash). Five requests are a creation, an enabling, a renaming, a maintenance
and its end or an operation on the second site. `MaintenanceIsKnown` and
`SyncedIsInstalled` hold without proviso. The others except `spent.lost` (an answer was
lost, and with it a file may have been written that no row knows) and `spent.stale` (background work wrote
a row or a file back as it had read it before); `MaintenanceIsServed` also excepts `spent.astray`: `Enable`
links the file of the domain of today (`sites/service.go`), while the row still names the file of
the domain the site was created under, so a renamed site that is enabled is served from elsewhere. The case came
up in the attempt to prove the property. A row that outlives its files (a failed deletion) is excepted too.

*Left out.* Request parsing, ownership checks, versions (requests are
serialised), parameters that the properties do not tell apart, moving of site directories.

## 6. Access control

**AccessPolicies** is `internal/accesspolicy` (desired and applied versions, leases,
`Apply`, refreshes, migration of the older rules), **AccessLimits** `internal/accesslimit`
(accounts, basic authentication, address rules), **SiteProxies** `internal/proxy` with
`accesspolicy/proxy.go` (the rule linked to a proxy), **AccessControl** the GeoIP update
of `internal/geoaccess`, backups and restores of policies, and the
composition. Three threads: the request (`http`), the scheduled update (`geo`), the backup or restore. The
site's lease, the proxies' `writeMu` and the policies' `mu` are taken in this order and
released together: one `lock`. `files` is what nginx loads: the include of the rules or of the policy, the
password file, the password slots of a policy, the proxy blocks.

Run `access`: 1 site, 2 accounts with 2 passwords, 2 paths, 3 operations, 1 fault. An
edit, a revocation and the update beside them are three operations. The provisos are
history variables named in `spent.mishaps`:

- `lost`, `adrift`: an answer was lost; a thread failed after its files were written.
- `overlap`: a GeoIP update wrote back what it had read before a policy took the site over (`applyAll` takes no lease).
- `older`: a restore of a backup from before the policies starts versions anew and brings the old password file; `restored`: a restore beside an update or a proxy change.
- `ahead`: the change of a proxy whose files could not be written leaves the row ahead of them.
- `outrun`, `taken back`: a policy was applied while an update ran; an update failed and the old generation came back.
- `changed`, `halfway`, `unknown`: three ways in which an account that is gone is let in, which this run's bounds do not
  all reach and the proof of `RevokedIsOut` showed. A restore compares the accounts (`prepareBackupAccounts`), and one
  deleted before `commitBackupPolicy`, which does not look again, is in its files: `DeleteAuthAccount` checks the policies and
  deletes later (`accesslimit/service.go:368-394`). `UpdateAuthAccount` only logs that the refresh after its rollback failed
  (`service.go:357-361`). A policy that was written, could not be marked and was saved anew without success is served, but it is
  neither desired nor applied, so that nothing keeps its accounts from being deleted.

*Left out.* Address and extension rules (they rewrite the same file), rate
limits, a proxy's own passwords and cache rules, uncertain first activations beyond `service.go:62`,
accounts in a bundle other than those of its last rendering.

## 7. Certificates and ACME orders

**Certificates** is `internal/ssl` with its tables: the site's row (`ssl`), the store's
entry (`entries`, `links`), the path in the configuration (`conf`), and the
files. `mu` is `certificateMu`. **AcmeOrders** is `internal/acme`: an order is a row, a
job the goroutine that works for it; `thread` holds the program counters of the request and the jobs. A job
writes the challenge, waits for the authority, saves, records, deploys under
`certificateMu`, and retires the order it renews. At most one job works for a site and `JobSlots` at a
time; nothing takes up an order after a restart, which is what the code does. Every status update may fail, as may
the rollback of a row; the code logs that and goes on, or fails the job. So an order whose failure could not be saved stays in
progress without a job (`Unsaved`, `spent.left`), and a renewal whose end (`CompleteRenewal`) the database refuses
marks the new order with an error, which may be the end of the automatic renewal of the site.

Run `certificates`: a site of the panel's and an imported one (without markers), 2
orders, 3 requests or 2 and a fault, 1 sweep. Provisos: `mishap` (a call went astray), `stale` (a job
wrote back an older configuration), `edited` (the user edited the file), `left` (orders the panel was stopped over, or could
not mark as failed). *Fairness:* the agent and the
authority answer or time out and Go's mutexes do not starve, so a request that can
go on does (weak) and a job gets its turn at the mutex (strong); `JobsEnd` uses it. The other four
properties are proved (section 17).

*Left out.* The protocol with the authority (one outcome per attempt), accounts and DNS credentials, inspection
of certificates, sites in maintenance (refused; section 5).

## 8. Login

**Login** is `internal/auth`, `internal/twofa` and their handlers: one administrator,
several requests side by side (`proc`), one step per statement of the database and per critical section of the
token store. Passwords, secrets and sets of codes are numbered as
they come into use. A session records under which password it was opened
(the comment at `internal/db/repo/session_repo.go:75`). Run `login`: 2 requests at a time, 2 recovery codes, 2 valid
one-time passwords, `max_sessions` 1, 2 tokens, 2 attempts, 7 requests.

What the code does and the properties therefore do not exclude: replay protection remembers only the last
one-time password; two concurrent activations overwrite each other; a temporary token and a
login past its password comparison survive a change of password, and the session they open
counts as opened under the password of its insertion.

*Left out.* Budgets and captcha, address and browser checks (all requests
come from one), the failing count loop, the first set-up.

## 9. Backups and event streams

**SiteBackups** has a thread per job admitted by `tryAdmit` and per deletion
(`internal/sitebackup/service.go`), a record per call of the agent (`internal/agent/site_backup_handlers.go`), which goes on when the
panel gave it up, and a follower of a job's stream (`internal/sse`). The making of an archive reads one part
after the other without `transactionMu`, which restores and edits take. Part of run `host`
and run `restore_rollback` (finding 4). `FollowersLearnTheEnd` assumes that the steps of a goroutine and of
the agent's handler are weakly fair. A subscriber's channel has 256 places and the stream of a backup carries three events, so
none is dropped; the log of an ACME order is longer and may lose its end marker (`sse/hub.go:143`), which is not modelled. *Left out:* the outcome of `nginx -t` is free; edits by
the file manager; the refusal in maintenance; `refreshSSLMetadata`; schedules of the older
form. A pending row stays pending after a panic or a crash, as in the code.

## 10. Shared configuration

**SharedConfig** is the main configuration (`internal/nginxconf`), upstreams (`internal/upstream`), the default server and the
catch-all of HTTPS (`internal/settings`), and the proxy cache. A file is what the others depend on. `http`
is the request, `job` a renewal beside it, `old` a call that was given up.
`EveryFileLoads` excepts the include, whose installation the agent does outside
its lock, beside a transaction or a second installation (`overlap`: `ensureIncludeViaMainConf` restores the main file as
it read it, so the one that fails can take back what the one that succeeded has written, after it has answered; the attempt to prove the
property without it led to this); `SyncedIsTrue` excepts a lost answer or record (`unsure`) and a call that came late
(`late`): the recorded hash is of the content, so a content that comes back looks
synchronised. A default site that is cleared while its file cannot be read is cleared in the setting alone (`settings/service.go:464`,
the last disjunct of `ReadForDefault`), and `UpdateDefaultSite` beside a renewal can lose `default_server` silently;
no property claims otherwise.

## 11. Panel settings

**PanelSettings** is the file that panel and agent share (`internal/app/config.go`): each
reads it at its start, the agent writes it from its own memory for the
panel. `EntryIsOnFile` is the comment at `config.go:1280` (the random entry is written back so that the
administrator does not lose it at a restart). `count.why` names what it excepts: a failed or halfway refused
update, a path that could not be saved, both processes making one up, an edit by hand beside them.

## 12. Log analysis

**LogAnalysis** is rotation (`internal/agent/log_rotation.go`), the scan
(`access_analysis_handler.go`) and the cursor with the sums (`internal/accessanalysis`). `CountedOnce` excepts
(`tally.again`) scans that include rotated files, which begin with their first line each time, and an inode that
comes back.

## 13. File manager

**FileManager** is the agent's handlers that change files and the panel's requests, one at a
time, beside a call that was given up and goes on until it looks at its context. Uploads, writes and extracted entries are renamed into
place. A copy goes over its files one after the other, opens the target in place and fills it through the descriptor: `at` and `src` are
the files it has open, by the names they have now (`Tracked`), so a file that is moved while it is filled goes on being filled under its new
name, and one that was removed or replaced is filled by nobody's name. A copy that fails leaves the targets it had finished, the cleaning
after a failed extraction may leave files (`kept`), and the answer says neither.

`AnswersHold` says that a file holds what the last answers about it allow. It excepts the files of which nothing is sure
(`unsure`): those a call given up may still change, by name or through what it has open, until it has ended and a later answer settles them.
Beside an extraction that was given up that is every file. The run has two files; a copy that has finished two targets before it fails is reached
by the proof alone. *Left out:* directories, owners, modes, the maintenance block, the numbers of the
archive budgets, parsing of uploads. A failed removal is answered as success for what was removed.

## 14. Country rules

**GeoRules** is `internal/geoaccess/service.go` for sites without a policy:
`country` the rows of sites and rules, `geoFiles` the file for all sites, the bodies and the
includes, `change` the operation under `mutationMu`, `adrift` and `loose` the sites whose files or include a
call may have left behind (a lost or late call, a failed synchronisation of
addresses) until they are written again. *Left out:* failures of saves the code ignores, preconditions of the database's installation;
sites under a policy are in AccessControl.

## 15. Site includes

**SiteIncludes** is `internal/hotlink` and `internal/rewrite`: two include files of a site, the rows of
one and the recorded hash of the other, and two editors. `apart` names what may differ: after a lost answer,
a refused change whose row is kept, a hash that could not be saved, an edit by somebody else. Readings may fail. A
file that cannot be read is shown as an empty text with the row's hash, and a template is then appended to nothing; a row that cannot be read is not
compared with the editor's hash. `IncludesFollowRows` claims that a save replaces only what its editor was shown for editors that are `sure`: their
answer showed the file as it was, with its own hash. It does not claim it of the others, nor of a save without an expected hash: there the code does
replace a text its editor did not see.

*The run `host`.* Sections 9 to 15 are checked by one run. The parts share no variable, so a
behaviour of all of them is one of each with steps of the others between: `part` picks one at the
beginning, `Still` keeps the rest in their initial states, and `Bounded'` says how
much happens together in each part: three to five operations and faults, which is
an operation, another beside or after it, and a fault, with a restart where there is one.

## 16. Not modelled

Text functions (`internal/nginx`, `nginxpatch`, `parser`), path policy and request
validation, transport, metrics, the wiring of the HTTP
server, opening and migrating the database, the front end and the installers: they
keep no state that another part relies on, or what the models need of them is
abstracted there (a patch keeps the maintenance block, a text is loadable or not).
Known hazards without a property: old backups are removed by a goroutine without the lock
(`internal/agent/backup_cleanup.go:17`), the removal of files does not look at the maintenance
block, two browsers race for the first set-up. Known weaknesses that the models take and the properties except, each by name:

- an installation of the include beside a transaction leaves files that do not load (`internal/agent/nginx_handlers.go:290`; section 10);
- a login past its password comparison keeps the session it inserts after the other sessions were closed (`internal/auth/service.go:209`; section 8);
- a custom location whose file could not be read is saved over, the comparison of hashes notwithstanding (`internal/rewrite/service.go:413`; section 15);
- an order whose failure could not be saved stays in progress for ever (`internal/acme/service.go:516`; section 7);
- an abandoned copy goes on filling a file that was moved, an abandoned extraction removes files by name (section 13);
- a scan that takes rotated files in counts their lines again (section 12).

`PROJECT.json` lists, per component, what is left out.

## 17. Proofs

Every theorem is proved for any values of the constants, from the assumptions named in the
modules (disjoint model values, positive capacities, natural bounds).

**TaskCenterProofs.**

- `TypeCorrect`, `LockCorrect` (`LockMatchesRun`), from `Invariant`: `Spec => []IInv`.
  `LockMatchesRun` is not inductive: a completion writes by run id and runner, and
  the proof has to know whose they are. `IInv` adds `RunsNumbered` (ids not handed out
  have no row, so a claim's id is new), `WorkersOwn` (the run a worker executes is of
  its task and of this process), `Started` (epoch 0 is nobody's lock), `LoopRests`
  (the loop rests while the process is down) and the types. The proof first shows what each statement of
  TaskStore does to `StoreInv` and that no
  statement gives a run to another task or runner (`RunsKept`); then each action of TaskCenter is one
  statement or none, and what it does in memory.
- `LeaseRefinement`: `Spec => ImplementsLease`. Each statement is a step or a stutter of TaskLease under the
  refinement mapping; a deletion forgets runs, a recovery is an expiry, and a claim that recovers first is both.
- `ParkedCorrect` (`DisabledIsParked`), from `ParkedInvariant`: **versions tell definitions**. A completion restores a
  firing only if the row has the version the claim wrote, and the loop moves a firing only if it has the version it read; so
  what a worker or the loop remembers of a version is what the row says as long as it has that version.
- `FiresCorrect` (`FiresOnce`), from `FiresInvariant`: without edits **a firing only moves forward**. The run in
  progress was claimed for a firing at or before the row's, one that ended for one before it (`FiringsUsed`), and two runs that
  count differ (`RunsDiffer`); the worker's version and the row's firing tell whether its completion moves on (`ClaimsHold`).
- `SkipCorrect` (`SkipsWhatItMissed`), from `SkipInvariant`: what is indexed, queued or waited with is
  a firing after the start or a version the row has left, and a version that was left does not come back (`RowsMoved`).

- `NothingIsForgotten` (`NothingForgotten`), from `WatchInvariant`: a task that is due is with a worker, indexed at its
  version, or something is left that makes the loop look: the dirty mark, the wake token, a loop past its wait, or a call about to mark it.

**AgentTransactionProofs.**

- `AgentTypeCorrect` and `RestCorrect` (`RestingNginxServesDisk`), from `AgentInvariant`. The property speaks of the
  moments when nothing is under way; its inductive form `Settled` says what holds on the way there: once a
  transaction has passed its reload, the files can be loaded, and either the signal
  is still to be seen, or what the master has loaded, or what it serves, is the disk.
  It needs that a master that is down has no signal and no loaded configuration
  (`MasterOK`), and the types need that every backup has its change, that the change in
  turn exists, and that a change whose alias was followed is no link (`TxOK`).
- `TransactionsAreAtomic` (`AllOrNothing`), from `HistoryInvariant`. Forwards: each change carried out and not replaced
  by a later one is in effect, so that at the end all are (`LastIsInEffect`). Backwards: what undoing the
  backups still to come leaves is what a reader found when the transaction began. A rollback writes bodies where
  links were, so the disks differ; the invariant compares what paths lead to, and bounds what a path may hold by its
  backup, nothing, or a change of the request (`Bounded`).
- `MaintenanceIsKept` (`MaintenanceHolds`), from the same. `ValidateMaintenanceWrite` looks before the first write, the
  property speaks of every later one: a change that touches a file in maintenance expects what it finds, so it is the
  only one to touch it (`TouchesProtected`), and the link through which the file is served is touched by none (`LinkIsSafe`).
- `ConfirmedIsServed` (`ConfirmedIsLive`), from `AloneInvariant`: nothing is pending before the transaction tells nginx
  (`Untold`), so the first workers after that are those that read its files (`ToldOnce`, `Obeyed`).

**SitesProofs.**

- `SitesTyped`, `MaintenanceKnown` (`MaintenanceIsKnown`) and `SyncedInstalled` (`SyncedIsInstalled`), from `SiteInvariant`. A block on
  the disk belongs to a site that the panel flags or holds pending. For that to be inductive, everything that will
  write (the request, the job, a call given up) must leave maintenance alone or be the one pending
  transition, and two sites must not share a file.
- `PendingReconciled` (`PendingCanBeReconciled`), from `PendInvariant`: until an answer is lost, a pending site has its file
  and nothing under way removes it.
- `MaintenanceServed` (`MaintenanceIsServed`) and `TakenOverCorrect` (`TakenOverAfterRename`), from `HeldInvariant`: the link of an
  enabled site leads to its file, and what is being written keeps the owner of what it replaces.

**LoginProofs.** `LoginTypeCorrect`, `CodesCountOnce`, `TokensAreCounted`, `SessionsAreCapped`, `OldSessionsAreClosed`, from
`LoginInvariant`: what each thread still holds of what it read is consistent with the tables (`Present`), the ids and
codes yet to come are new (`TokensNew`, `CodesNew`), and the sessions that exceed the cap are matched by threads
past their count (`Capped`).

**HostProofs.** Six parts of sections 10 to 15, each with its own inductive invariant.

- `EntryStaysOnFile` (`EntryIsOnFile`), from `PanelInvariant`: what the panel enforces is what it has in memory, and both are on file but
  for a request on its way; until the agent has written it, what it would write is its own memory with the request's
  fields, so the agent's memory must agree with the file in all others.
- `LinesCountedOnce` (`CountedOnce`), from `LogInvariant`: what is counted is, file by file, what lies before the cursor; a scan under way holds a
  stretch that begins where the cursor was when it read it, and no second scan saves between, because a job is admitted once
  per process and the start of a process forgets the others.
- `RowsAreServed` (`GeoRowsAreServed`), from `GeoInvariant`: while an answer is outstanding the files
  agree with the former rows and settings, which the operation remembers (`Remembered`); without one with
  the present ones (`BodiesServed`, `IncludesServed`).
- `IncludesCorrect` (`IncludesFollowRows`), from `IncludesInvariant`: a refusal goes back to what the file
  holds, the recorded hash is the file's but for a save under way, and an editor that was shown the file with its own hash, and whose save
  would be taken, shows what it would replace (`ReplacesSeen`, `SureOfText`); a failing reading makes an editor unsure.
- `SuccessfulHasArchive` (`SuccessHasArchive`), from `BackupsInvariant`. As long as no statement failed and no pending backup was removed (`Calm`,
  the property's own condition), what a goroutine removes was settled before it was listed (`Removes`); the row of what it makes stays pending, and its archive
  is stored once the agent has answered so (`Makes`); and no two goroutines make the same backup (`Apart`). What is listed for the retention may be
  settled by someone else meanwhile, but never becomes pending again, so that no removal meets an archive that is being made.
- `AnswersAlwaysHold` (`AnswersHold`), from `FilesInvariant`. The answers speak of a file only when a call has ended, so the invariant says of each
  step what the answer will make of it (`Tells`): an extraction under way has its entry in every file that is done, it knows of the next one
  whether it was there, and what it has noted for the cleaning was not there before. A call given up may change only files of
  which nothing is sure, by name (`MayChange`) or through what it has open (`Holds`), and a step that renames a file carries this along
  (`Pursued`); until such a call ends, an answer makes nothing sure again.

**SharedProofs.** `EveryFileAlwaysLoads` (`EveryFileLoads`) and `SyncedIsAlwaysTrue` (`SyncedIsTrue`), from `SharedInvariant`. Between the
first change and the test the files need not load; what is invariant is that what the call under way would put back loads together with
the files as they are (`FilesLoad`), for a transaction the files it changed, for an installation the main file. `PoolsFollow` says
of the upstreams that the record is what the disk holds or would go back to, until the transaction has passed; then that the disk holds what the request
rendered, which is what will be recorded.

**AcmeOrdersProofs.**

- `CInvariant`: the types; `certificateMu` is held by exactly the thread that has written, or is about to change, a row or
  the store (`LockInv`); the transaction of each thread writes what its operation says (`Writes`); orders are numbered
  without a gap, so a new one is new (`NumbersInv`). `TypeOK` of the run leaves the threads' transactions out, which TLC
  cannot enumerate; here they are typed.
- `OInvariant`, and from it `OrdersAreWorkedOnOrSettled` (`WorkedOnOrSettled`): a job works for the site of its order and of the
  older order it renews, which is why no two jobs meet at one order (`JobSites`); no order is done before its job has
  settled it (`NotYet`); a redeployment keeps all jobs of its site away (`RedeployInv`). What ends without a saved status is in `left`.
- `AutomaticRenewalSurvives` (`RenewalSurvives`): what a job does to the row of its order cannot take the newest clean order
  of a site away, unless a clean one with the same setting takes its place or the database refuses the end of a renewal.
- `ServedFilesAreThere` (`ServedFilesExist`) and `RowsAreServed` (`RowIsServed`), from `SInvariant`. Both
  speak of moments between operations, and three records have to be followed through them: while the mutex
  is held, the row of one site is ahead of its configuration and the row to go back to is the one in `undo` (`Ahead`), or the
  configuration is ahead of the row (`Swapped`); a file of the store belongs to its entry, which is the oldest of its
  certificate, so that an adoption of the same certificate finds this entry and no other (`FileInv`, `OldestInv`); and an
  imported site names only what it came with or an entry that is linked to it (`UnmarkedInv`). That is what makes a
  deletion from the store safe: the entry has no associated site, so nobody names its file (`DeleteInv`). The
  deletion of a site, which does not take the mutex, is safe because nginx tests it. The attempt showed that a replacement of a
  certificate relies on the hash it sends: with the mutex held but the site's removal not excluded, only the
  expected hash keeps it from writing the configuration of a site that is being removed.

**AccessProofs.** Of the access control of section 6, for any number of sites, accounts, operations and failures.

- `AccessInvariant`: the types; the lock is held by exactly the thread that writes policies or restores; and the row a thread
  works on is still the one it read, or has moved on in a way that its version shows (`Bounds`, `Reads`). From it
  `EditReplacesWhatItShowed` (`NoLostEdit`): an editor whose version is the row's shows what the row has. And
  `RefreshWritesWhatIsInForce` (`RefreshKeepsPolicy`, which no run lists): the refresh reads again under the lock.
- `ServedAsShown` (`AppliedIsServed`), from `ServedInv`: a row marked as applied agrees with the files, except between a restore's
  files and its rows; what a thread has written, and has yet to mark, is in the files until it does; and what a backup
  would bring back agrees with the policy it has beside it, so that a restore cannot separate them.
- `LinkedRuleAlwaysFollows` (`LinkedRuleFollows`), from `LinkInv`: the policy that is wanted follows the proxy's row, and nginx's blocks
  follow it too unless a change of the proxy is on its way or was saved and not applied; the first apply after that carries the block as well.
- `UpdateReachesEveryPolicy` (`GeoIsCurrent`), from `GeoInv`: a policy in force is rendered from the present generation, or the update has
  yet to come to it (`Pending`: it is among the sites to do, or the update will end in an error), or a restore is under way. What a request is
  about to write was rendered from this generation or the update has still to come; that the two take the same lock decides it.
- `RevokedLoginIsOut` (`RevokedIsOut`), from `RevokeInv`: whom the files of a site let in, or the update is about to, is an account
  that is still enabled with that password, or the request that changed it has yet to come to this site (`LetOk`, `Awaits`). A refresh
  finds the sites by what the rows and rules name, so the files may let in only whom these name (`KnownOk`, `RulesOk`), and a
  policy's files are there only where its row, or the request that is about to mark it, says so (`KindOk`). What a
  request has rendered are accounts that are live, and no other request changes one before it is answered (`RevokeTx`); the update does not exclude the
  requests, so what it has rendered counts as let in before it is written (`Lets`).

**Only model-checked.** The liveness properties `DueIsClaimed`, `ExpiredIsRecovered`, `JobsEnd` and `FollowersLearnTheEnd` (fairness
and ENABLED are beyond the prover). `RollbackRestoresFiles` and the other refuted claims are not
theorems. Nothing here uses induction over data or recursive operators.

## 18. Findings

1. **A due firing is refused within its second** (`tasks_refused`). The claim asks
   for `next_run_at <= now` on RFC3339Nano texts (`repo.go:299`, `repo.go:498`). A
   whole second is printed without a fraction and sorts after all fractions of its
   own second, so the engine dispatches and the claim refuses, over and over
   until the next second; a task with the skip policy that is loaded in between is moved
   past the firing without having run.
2. **A toggle brings back a used firing** (`tasks_makeup`). `SetEnabled(true)` writes back
   `next_run_at` as it read it, with no version check (`service.go:187-203`,
   `repo.go:135`); a run that used the firing in between is repeated. (The same write can bring
   back a firing that the skip policy had passed over: section 3.)
3. **A rollback does not restore links** (`agent_rollback`). `backup` reads through a
   link and `Rollback` writes a regular file (`internal/agent/transaction.go:168`). In the run an `Enable` replaces an older link by one
   to a file that is not there (that of the primary domain of a renamed or imported site), `nginx -t` fails, and the rollback leaves a
   regular file where the link was. Every failed change of a link ends like this, a removal (`Disable`) too.
4. **A restore that failed is not undone** (`restore_rollback`). The snapshot of a restore of
   configuration and certificates without the site's directory is an "ssl" archive, which
   holds no configuration (`internal/agent/site_backup_handlers.go:516`); the answer says that
   it was rolled back (line 361), with the backup's configuration in place.

## 19. Running

    tlc -workers 2 -config tasks.cfg MCTaskCenter.tla
    tlc -workers 2 -config agent_tx.cfg MCAgentTransaction.tla
    tlc -workers 2 -config host.cfg MCHost.tla
    tlapm TaskCenterProofs.tla

A run's module is in `PROJECT.json` under `runs`; the longest take about three minutes with two workers.
