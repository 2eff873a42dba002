---- MODULE MCHost ----
(* The parts of the system around the sites: backups, shared configuration,  *)
(* settings of the panel, log analysis, file manager, country rules and the  *)
(* includes of a site.  They share no                                        *)
(* variable, so a behaviour of all of them is one of each of them with steps *)
(* of the others between: `part' picks one at the beginning, and the others  *)
(* stay in their initial states.                                             *)
EXTENDS SiteBackups, SharedConfig, PanelSettings, LogAnalysis, FileManager,
        GeoRules, SiteIncludes

VARIABLE part

hostVars == <<part, backupVars, sharedVars, panelVars, logVars, fileVars, geoVars,
             includeVars>>

HostInit ==
  /\ part \in {"backups", "shared", "panel", "log", "files", "geo", "includes"}
  /\ BackupsInit /\ SharedInit /\ PanelInit /\ LogInit /\ FilesInit
  /\ GeoInit /\ IncludesInit
  /\ part # "panel" => file = [entry |-> Wrong, limit |-> CHOOSE l \in Limits : TRUE]
  /\ part # "files" => tree = [n \in Names |-> 1]

Often(happened) == IF happened THEN 1 ELSE 0

\* How much happens together in each part.
Bounded ==
  /\ used.jobs + used.faults + used.edits + Often(follower # NoBackup) + Often(phase # "up") <= 3
  /\ count.starts + count.changes + count.troubles <= 5
  /\ spent.ops + spent.faults <= 4
  /\ Cardinality({l \in Written : day[l] # 0}) + tally.scans + tally.cuts + tally.breaks + today <= 6
  /\ tried.requests + tried.mishaps <= 4
  /\ geoUsed.ops + geoUsed.faults <= 4
  /\ includeUsed.ops + includeUsed.faults <= 3

\* The others do not move, and the bounds are kept.
Still ==
  /\ UNCHANGED part
  /\ (part # "backups" => UNCHANGED backupVars)
  /\ (part # "shared" => UNCHANGED sharedVars)
  /\ (part # "panel" => UNCHANGED panelVars)
  /\ (part # "log" => UNCHANGED logVars)
  /\ (part # "files" => UNCHANGED fileVars)
  /\ (part # "geo" => UNCHANGED geoVars)
  /\ (part # "includes" => UNCHANGED includeVars)
  /\ Bounded'

HostNext ==
  \/ \E t \in Workers :
       \/ part = "backups" /\ StartCreate(t) /\ Still
       \/ part = "backups" /\ RunScheduled(t) /\ Still
       \/ part = "backups" /\ StartRestore(t) /\ Still
       \/ part = "backups" /\ StartDelete(t) /\ Still
       \/ part = "backups" /\ InsertRow(t) /\ Still
       \/ part = "backups" /\ InsertFails(t) /\ Still
       \/ part = "backups" /\ Call(t) /\ Still
       \/ part = "backups" /\ CreateReturns(t) /\ Still
       \/ part = "backups" /\ MarkFinished(t) /\ Still
       \/ part = "backups" /\ ListSuccessful(t) /\ Still
       \/ part = "backups" /\ Sweep(t) /\ Still
       \/ part = "backups" /\ Swept(t) /\ Still
       \/ part = "backups" /\ RemoveArchive(t) /\ Still
       \/ part = "backups" /\ MarkDeleted(t) /\ Still
       \/ part = "backups" /\ Fetch(t) /\ Still
       \/ part = "backups" /\ RestoreReturns(t) /\ Still
       \/ part = "backups" /\ FinishTask(t) /\ Still
       \/ part = "backups" /\ Return(t) /\ Still
       \/ part = "backups" /\ ReadPart(t) /\ Still
       \/ part = "backups" /\ Store(t) /\ Still
       \/ part = "backups" /\ CreateFails(t) /\ Still
       \/ part = "backups" /\ Snapshot(t) /\ Still
       \/ part = "backups" /\ SnapshotFails(t) /\ Still
       \/ part = "backups" /\ Extract(t) /\ Still
       \/ part = "backups" /\ ExtractFails(t) /\ Still
       \/ part = "backups" /\ Tested(t) /\ Still
       \/ part = "backups" /\ Back(t) /\ Still
       \/ part = "backups" /\ RolledBack(t) /\ Still
       \/ part = "backups" /\ BackFails(t) /\ Still
       \/ part = "backups" /\ Panic(t) /\ Still
  \/ \E k \in Tasks : part = "backups" /\ Follow(k) /\ Still
  \/ \E k \in Tasks : part = "backups" /\ Prune(k) /\ Still
  \/ \E p \in Parts : part = "backups" /\ Edit(p) /\ Still
  \/ part = "backups" /\ Unfollow /\ Still
  \/ part = "backups" /\ Close /\ Still
  \/ part = "backups" /\ Closed /\ Still
  \/ \E u \in Pools : part = "shared" /\ SaveUpstream(u) /\ Still
  \/ \E s \in Sites : part = "shared" /\ ChangeProxy(s) /\ Still
  \/ \E s \in Sites : part = "shared" /\ Renew(s) /\ Still
  \/ \E s \in Sites \cup {None} : part = "shared" /\ UpdateDefaultSite(s) /\ Still
  \/ \E on \in BOOLEAN : part = "shared" /\ UpdateHTTPSHijack(on) /\ Still
  \/ part = "shared" /\ SyncUpstreams /\ Still
  \/ part = "shared" /\ SaveNginxConf /\ Still
  \/ part = "shared" /\ SaveNginxParameters /\ Still
  \/ part = "shared" /\ EnsureInclude /\ Still
  \/ part = "shared" /\ ReadForProxy /\ Still
  \/ part = "shared" /\ ReadForDefault /\ Still
  \/ part = "shared" /\ ReadForParameters /\ Still
  \/ part = "shared" /\ ReadForRenewal /\ Still
  \/ \E c \in Calls :
       \/ part = "shared" /\ Refuse(c) /\ Still
       \/ part = "shared" /\ Apply(c) /\ Still
       \/ part = "shared" /\ Keep(c) /\ Still
       \/ part = "shared" /\ RollBack(c) /\ Still
       \/ part = "shared" /\ Look(c) /\ Still
       \/ part = "shared" /\ WriteInclude(c) /\ Still
       \/ part = "shared" /\ TestInclude(c) /\ Still
  \/ \E t \in Threads :
       \/ part = "shared" /\ CallReturns(t) /\ Still
       \/ part = "shared" /\ Unreached(t) /\ Still
       \/ part = "shared" /\ Finish(t) /\ Still
  \/ part = "shared" /\ Abandon /\ Still
  \/ part = "shared" /\ RecordApplied /\ Still
  \/ part = "shared" /\ SetSetting /\ Still
  \/ part = "shared" /\ SetFails /\ Still
  \/ \E p \in Processes :
       \/ part = "panel" /\ Load(p) /\ Still
       \/ part = "panel" /\ SaveEntry(p) /\ Still
       \/ part = "panel" /\ Serve(p) /\ Still
       \/ part = "panel" /\ Stop(p) /\ Still
  \/ part = "panel" /\ Update /\ Still
  \/ part = "panel" /\ UpdateRefused /\ Still
  \/ part = "panel" /\ CallAgent /\ Still
  \/ part = "panel" /\ WriteFields /\ Still
  \/ part = "panel" /\ WriteFails /\ Still
  \/ part = "panel" /\ GoLive /\ Still
  \/ part = "panel" /\ UpdateFails /\ Still
  \/ part = "panel" /\ Persist /\ Still
  \/ part = "panel" /\ EditFile /\ Still
  \/ \E l \in Written : part = "log" /\ WriteLine(l) /\ Still
  \/ part = "log" /\ NextDay /\ Still
  \/ part = "log" /\ Rename /\ Still
  \/ part = "log" /\ Reopen /\ Still
  \/ part = "log" /\ ReopenFails /\ Still
  \/ part = "log" /\ Cleanup /\ Still
  \/ part = "log" /\ Age /\ Still
  \/ part = "log" /\ Restart /\ Still
  \/ \E s \in Scanners :
       \/ part = "log" /\ Admit(s) /\ Still
       \/ part = "log" /\ CreateJob(s) /\ Still
       \/ part = "log" /\ GetCursor(s) /\ Still
       \/ part = "log" /\ ReadLog(s) /\ Still
       \/ part = "log" /\ Save(s) /\ Still
       \/ part = "log" /\ Fail(s) /\ Still
       \/ part = "log" /\ Release(s) /\ Still
  \/ \E n \in Names : part = "files" /\ AskWrite(n) /\ Still
  \/ \E s \in SUBSET Names : part = "files" /\ AskRemove(s) /\ Still
  \/ \E s \in SUBSET Names : part = "files" /\ AskCompress(s) /\ Still
  \/ \E n, m \in Names : part = "files" /\ AskMove(n, m) /\ Still
  \/ \E s \in SUBSET Names, aim \in [Names -> Names] : part = "files" /\ AskCopy(s, aim) /\ Still
  \/ part = "files" /\ AskExtract /\ Still
  \/ part = "files" /\ FileAnswered /\ Still
  \/ part = "files" /\ StopWaiting /\ Still
  \/ \E h \in Hands :
       \/ part = "files" /\ Put(h) /\ Still
       \/ part = "files" /\ PutFails(h) /\ Still
       \/ part = "files" /\ RemoveOne(h) /\ Still
       \/ part = "files" /\ Removed(h) /\ Still
       \/ part = "files" /\ MoveFile(h) /\ Still
       \/ part = "files" /\ MoveFails(h) /\ Still
       \/ part = "files" /\ Open(h) /\ Still
       \/ part = "files" /\ Fill(h) /\ Still
       \/ part = "files" /\ CopyFails(h) /\ Still
       \/ part = "files" /\ Pack(h) /\ Still
       \/ part = "files" /\ Packed(h) /\ Still
       \/ part = "files" /\ PackFails(h) /\ Still
       \/ part = "files" /\ Preflight(h) /\ Still
       \/ part = "files" /\ PreflightFails(h) /\ Still
       \/ part = "files" /\ LookAtEntry(h) /\ Still
       \/ part = "files" /\ Entry(h) /\ Still
       \/ part = "files" /\ AllExtracted(h) /\ Still
       \/ part = "files" /\ EntryFails(h) /\ Still
       \/ part = "files" /\ CleanOne(h) /\ Still
       \/ part = "files" /\ Cleaned(h) /\ Still
  \/ \E s \in GeoSites :
       \/ part = "geo" /\ EnableSite(s) /\ Still
       \/ part = "geo" /\ DisableSite(s) /\ Still
       \/ part = "geo" /\ UpdateSiteAccess(s) /\ Still
       \/ part = "geo" /\ SyncAfterIPChange(s) /\ Still
       \/ part = "geo" /\ CreateRule(s) /\ Still
       \/ part = "geo" /\ UpdateRule(s) /\ Still
       \/ part = "geo" /\ DeleteRule(s) /\ Still
       \/ part = "geo" /\ ReorderRules(s) /\ Still
       \/ part = "geo" /\ ReconcileDisabled(s) /\ Still
  \/ part = "geo" /\ UpdateTrustedProxies /\ Still
  \/ part = "geo" /\ InstallDatabase /\ Still
  \/ part = "geo" /\ GeoCommit /\ Still
  \/ part = "geo" /\ GeoRefused /\ Still
  \/ part = "geo" /\ GeoLost /\ Still
  \/ part = "geo" /\ GeoMarked /\ Still
  \/ part = "geo" /\ GeoBack /\ Still
  \/ part = "geo" /\ GeoLate /\ Still
  \/ part = "geo" /\ GeoCrash /\ Still
  \/ part = "geo" /\ Reconcile /\ Still
  \/ part = "geo" /\ ReconcileDone /\ Still
  \/ \E r \in Rules :
       \/ part = "includes" /\ CreateHotlink(r) /\ Still
       \/ part = "includes" /\ UpdateHotlink(r) /\ Still
       \/ part = "includes" /\ DeleteHotlink(r) /\ Still
  \/ \E e \in Editors :
       \/ part = "includes" /\ GetFile(e) /\ Still
       \/ part = "includes" /\ GetHash(e) /\ Still
       \/ part = "includes" /\ SaveLocation(e) /\ Still
       \/ part = "includes" /\ ApplyTemplate(e) /\ Still
  \/ part = "includes" /\ IncludeCommit /\ Still
  \/ part = "includes" /\ IncludeDone /\ Still
  \/ part = "includes" /\ IncludeFails /\ Still
  \/ part = "includes" /\ IncludeCrash /\ Still
  \/ part = "includes" /\ IncludeLate /\ Still
  \/ part = "includes" /\ OtherEdit /\ Still

HostSpec ==
  /\ HostInit /\ [][HostNext]_hostVars
  /\ \A t \in Workers : WF_backupVars(Panel(t)) /\ WF_backupVars(Agent(t))
====
