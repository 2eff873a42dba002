--------------------------------- MODULE Sites ---------------------------------
(***************************************************************************)
(* Sites: a row in the panel's database and files the agent writes.        *)
(* internal/sites/service.go, with the configuration editor, the           *)
(* repositories it writes and what certificate jobs do to the same file in *)
(* the background.  SiteMaintenance adds maintenance and composes them.    *)
(*                                                                         *)
(* configurationWriteMu lets one mutating request run at a time; http is   *)
(* that request.  Jobs and GET handlers do not take it; one of them runs   *)
(* at a time here.  A call of the agent is one step (AgentTransaction      *)
(* shows that it is all or nothing), whose answer may be lost: the panel   *)
(* gives up after its timeout and the agent, which holds its lock, goes on.*)
(*                                                                         *)
(* A configuration is kept as whose it is, the server name it answers to,  *)
(* the rest of its text, its certificate and its maintenance block.        *)
(***************************************************************************)
EXTENDS Naturals, FiniteSets

CONSTANTS
  SiteIds,
  Domains,    \* a primary domain also names the site's files when it is created
  Foreign,    \* configuration files nginx had before the panel
  Texts, Certs,
  Htmls,      \* maintenance pages
  Null, Absent,
  MaxRequests, MaxJobs, MaxFaults   \* bounds of the model

Confs == Domains \cup Foreign       \* configuration files, by name
Tls   == Certs \cup {"plain", "challenge"}
Body  == [owner : SiteIds \cup {Null}, domain : Domains, text : Texts, tls : Tls,
          maint : BOOLEAN]

(* A site's row: conf is ConfigPath, name the domain its other files are   *)
(* named for, logs where an imported site's row says it logs (its text).   *)
Row == [domain : Domains, conf : Confs, name : Domains, enabled : BOOLEAN,
        logs : Texts \cup {Null}, flag : BOOLEAN]

ASSUME SitesAssumption ==
  /\ Domains \cap Foreign = {} /\ Absent \notin Body \cup Domains \cup Htmls
  /\ Certs \cap {"plain", "challenge"} = {} /\ Null \notin SiteIds \cup Row \cup Body \cup Htmls
  /\ MaxRequests \in Nat /\ MaxJobs \in Nat /\ MaxFaults \in Nat

VARIABLES
  rows,      \* sites: the row of each site, or Null
  states,    \* site_maintenance: the maintenance row of each site
  default,   \* maintenance_defaults.html
  disk,      \* the files: conf, link (sites-enabled) and page (maintenance)
  http,      \* the request that holds configurationWriteMu, or Null
  job,       \* the background work, or Null
  late,      \* the transaction whose caller gave up, or Null
  spent      \* what has been used of the bounds

vars == <<rows, states, default, disk, http, job, late, spent>>
tables == <<rows, states, default>>

-----------------------------------------------------------------------------
Live         == {s \in SiteIds : rows[s] # Null}
Imported(r)  == r.conf \in Foreign             \* ConfigPath = EnabledPath
ConfOf(s)    == disk.conf[rows[s].conf]
Rowless      == [desired |-> FALSE, html |-> Null, pending |-> FALSE]

(* UNIQUE: primary_domain, config_path, enabled_path, rewrite_path.        *)
Unique(s, r) ==
  \A o \in Live \ {s} :
    rows[o].domain # r.domain /\ rows[o].conf # r.conf /\ rows[o].name # r.name

Insert(s, r) ==
  IF Unique(s, r) THEN rows' = [rows EXCEPT ![s] = r] ELSE UNCHANGED rows

(* SiteRepo.Update writes every column but the paths and the maintenance   *)
(* flag; its callers ignore its error.                                     *)
Overwrite(s, r) ==
  LET new == [r EXCEPT !.flag = rows[s].flag, !.conf = rows[s].conf, !.name = rows[s].name]
  IN IF s \in Live /\ Unique(s, new)
     THEN rows' = [rows EXCEPT ![s] = new] ELSE UNCHANGED rows

(* SiteRepo.Delete; site_maintenance cascades.                             *)
DeleteRow(s) ==
  /\ rows' = [rows EXCEPT ![s] = Null]
  /\ states' = [states EXCEPT ![s] = Rowless]

Blocked(s) == rows[s].flag \/ states[s].pending

-----------------------------------------------------------------------------
(* A transaction: what it writes, the hash it expects of the configuration *)
(* it writes, whether it is a maintenance transition, whether nginx must   *)
(* accept the result.                                                      *)
Nothing == [x \in {} |-> Absent]
Quiet   == [conf |-> Nothing, link |-> Nothing, page |-> Nothing, hash |-> Null,
            transition |-> FALSE, test |-> TRUE]

Write(p, b)     == [Quiet EXCEPT !.conf = [x \in {p} |-> b]]
LinkTo(p, d)    == [Quiet EXCEPT !.link = [x \in {p} |-> d]]
Unlink(r)       == IF Imported(r) THEN Write(r.conf, Absent) ELSE LinkTo(r.name, Absent)
Erase(r)        == [Unlink(r) EXCEPT !.conf = [x \in {r.conf} |-> Absent]]

Updated(old, new) == [x \in DOMAIN old |-> IF x \in DOMAIN new THEN new[x] ELSE old[x]]
After(d, t) == [conf |-> Updated(d.conf, t.conf), link |-> Updated(d.link, t.link),
                page |-> Updated(d.page, t.page)]

(* A link beside an imported file points to a directory that is not there. *)
Behind(d, l) == IF l \in Domains /\ d.link[l] \in Domains THEN d.conf[d.link[l]] ELSE Absent
Protected(b) == b # Absent /\ b.maint

(* ValidateMaintenanceWrite; only a write that says what it expects may    *)
(* touch a protected file.                                                 *)
KeepsMaintenance(t, old, new) ==
  /\ t.hash # Null /\ new # Absent
  /\ IF t.transition THEN new = [old EXCEPT !.maint = new.maint]
     ELSE new = [old EXCEPT !.tls = new.tls] /\ (new.tls = old.tls \/ {old.tls, new.tls} \subseteq Certs)

Loadable(d) == \A l \in DOMAIN d.link : d.link[l] # Absent => Behind(d, l) # Absent

(* Wrong: the agent trusts the panel to leave files in maintenance alone.  *)
AcceptsAnyWrite(d, t) ==
  /\ \A p \in DOMAIN t.conf : t.hash # Null => d.conf[p] = t.hash
  /\ t.test => Loadable(After(d, t))

Acceptable(d, t) ==
  /\ \A p \in DOMAIN t.conf :
       /\ t.hash # Null => d.conf[p] = t.hash
       /\ Protected(d.conf[p]) \/ Protected(t.conf[p]) => KeepsMaintenance(t, d.conf[p], t.conf[p])
  /\ \A l \in DOMAIN t.link : ~Protected(Behind(d, l))
  /\ t.test => Loadable(After(d, t))

-----------------------------------------------------------------------------
(* Requests.                                                               *)

Fault == spent.faults < MaxFaults /\ spent' = [spent EXCEPT !.faults = @ + 1]
Lost  ==
  /\ spent.faults < MaxFaults
  /\ spent' = [spent EXCEPT !.faults = @ + 1, !.lost = TRUE]

Serve ==
  /\ http = Null /\ spent.requests < MaxRequests
  /\ spent' = [spent EXCEPT !.requests = @ + 1]

(* The handler has read and checked; it calls the agent next.              *)
Calling(op, s, r, t) ==
  http' = [op |-> op, pc |-> "call", site |-> s, row |-> r, tx |-> t, want |-> FALSE, todo |-> {}]

Call ==
  /\ http # Null /\ http.pc = "call" /\ late = Null
  /\ \/ /\ Acceptable(disk, http.tx)
        /\ disk' = After(disk, http.tx) /\ http' = [http EXCEPT !.pc = "done"]
        /\ UNCHANGED spent
     \/ /\ (~Acceptable(disk, http.tx) /\ UNCHANGED spent) \/ Fault
        /\ http' = [http EXCEPT !.pc = "failed"] /\ UNCHANGED disk
  /\ UNCHANGED <<tables, job, late>>

(* The client's timeout while the agent holds the lock for this request.   *)
GiveUp ==
  /\ http # Null /\ http.pc = "call" /\ late = Null
  /\ Lost
  /\ late' = http.tx /\ http' = [http EXCEPT !.pc = "failed"]
  /\ UNCHANGED <<tables, disk, job>>

LateEnds ==
  /\ late # Null
  /\ disk' = IF Acceptable(disk, late) THEN After(disk, late) ELSE disk
  /\ late' = Null
  /\ UNCHANGED <<tables, http, job, spent>>

(* The panel stops: the request and the background work are forgotten.     *)
Crash ==
  /\ Lost
  /\ http' = Null /\ job' = Null
  /\ \/ UNCHANGED late
     \/ \E caller \in {http, job} \ {Null} :
          caller.pc = "call" /\ late = Null /\ late' = caller.tx
  /\ UNCHANGED <<tables, disk>>

Finishing(op) == http # Null /\ http.op = op /\ http.pc = "done"
EndRequest    == http' = Null

(* An error of the agent is answered; nothing was written to the database. *)
FailRequest ==
  /\ http # Null /\ http.pc = "failed" /\ http.op # "maintain"
  /\ EndRequest
  /\ UNCHANGED <<tables, disk, job, late, spent>>

-----------------------------------------------------------------------------
(* Wrong: nobody looks whether the domain is taken.                        *)
AnyDomain(s, d) == TRUE

(* GetByPrimaryDomain.                                                     *)
FreeDomain(s, d) == \A o \in Live \ {s} : rows[o].domain # d

(* An id is never used again.                                              *)
ServeNew(s) ==
  /\ http = Null /\ spent.requests < MaxRequests /\ s \notin spent.ids
  /\ spent' = [spent EXCEPT !.requests = @ + 1, !.ids = @ \cup {s}]

StartCreate(s, d, enable) ==
  /\ ServeNew(s)
  /\ FreeDomain(s, d)
  /\ \E text \in Texts :
       LET body == [owner |-> s, domain |-> d, text |-> text, tls |-> "plain", maint |-> FALSE]
           link == IF enable THEN [x \in {d} |-> d] ELSE Nothing
       IN Calling("create", s,
            [domain |-> d, conf |-> d, name |-> d, enabled |-> enable, logs |-> Null, flag |-> FALSE],
            [Write(d, body) EXCEPT !.link = link])
  /\ UNCHANGED <<tables, disk, job, late>>

(* The row comes last; if it is refused the files stay.                    *)
FinishCreate ==
  /\ Finishing("create") /\ EndRequest
  /\ Insert(http.site, http.row)
  /\ UNCHANGED <<states, default, disk, job, late, spent>>

StartImport(s, f) ==
  /\ ServeNew(s) /\ f \in Foreign
  /\ disk.conf[f] # Absent
  /\ LET body == disk.conf[f]
     IN /\ FreeDomain(s, body.domain)
        /\ Calling("create", s,
             [domain |-> body.domain, conf |-> f, name |-> body.domain, enabled |-> TRUE,
              logs |-> body.text, flag |-> FALSE],
             [Quiet EXCEPT !.test = FALSE])
  /\ UNCHANGED <<tables, disk, job, late>>

(* What an edit starts from: the row and the file it reads, past the       *)
(* guard of maintenance.  The markers are in the files the panel made.     *)
Editable(s) == s \in Live /\ ~Blocked(s) /\ ConfOf(s) # Absent
Marked(s)   == ConfOf(s).owner # Null

StartUpdate(s, d, text) ==
  /\ Serve /\ Editable(s) /\ Marked(s)
  /\ FreeDomain(s, d)
  /\ Calling("edit", s, [rows[s] EXCEPT !.domain = d],
       Write(rows[s].conf, [ConfOf(s) EXCEPT !.domain = d, !.text = text]))
  /\ UNCHANGED <<tables, disk, job, late>>

StartUpdateDocument(s, text) ==
  /\ Serve /\ Editable(s) /\ Marked(s)
  /\ Calling("edit", s, rows[s], Write(rows[s].conf, [ConfOf(s) EXCEPT !.text = text]))
  /\ UNCHANGED <<tables, disk, job, late>>

(* The editor takes any text.  Nobody compares its server name with the    *)
(* other sites'.                                                           *)
StartSave(s, d, text) ==
  /\ Serve /\ Editable(s)
  /\ Calling("edit", s,
       IF Marked(s) THEN [rows[s] EXCEPT !.domain = d]
       ELSE IF d = rows[s].domain THEN [rows[s] EXCEPT !.logs = text] ELSE rows[s],
       Write(rows[s].conf, [ConfOf(s) EXCEPT !.domain = d, !.text = text]))
  /\ UNCHANGED <<tables, disk, job, late>>

FinishEdit ==
  /\ Finishing("edit") /\ EndRequest
  /\ Overwrite(http.site, http.row)
  /\ UNCHANGED <<states, default, disk, job, late, spent>>

(* The link goes to the file named for the domain of today.                *)
StartEnable(s) ==
  /\ Serve /\ s \in Live /\ ~Blocked(s) /\ ~rows[s].enabled
  /\ Calling("enable", s, Null, LinkTo(IF Imported(rows[s]) THEN rows[s].conf ELSE rows[s].name, rows[s].domain))
  /\ UNCHANGED <<tables, disk, job, late>>

(* History only: a link leads to the file of another name than its own, or *)
(* a row has outlived its files.                                           *)
NoteAstray(b) == spent' = [spent EXCEPT !.astray = @ \/ b]
Renamed(r)    == ~Imported(r) /\ r.domain # r.conf

(* UpdateStatus.                                                           *)
FinishEnable ==
  /\ Finishing("enable") /\ EndRequest
  /\ rows' = [rows EXCEPT ![http.site].enabled = TRUE]
  /\ NoteAstray(Renamed(rows[http.site]))
  /\ UNCHANGED <<states, default, disk, job, late>>

(* checkImportedOwnership reads the file of an enabled imported site.      *)
Owned(s) == Imported(rows[s]) /\ rows[s].enabled => ConfOf(s) # Absent

(* Wrong: a site in maintenance may be disabled or deleted.                *)
RemovableAnyTime(s) == s \in Live /\ Owned(s)
Removable(s)        == s \in Live /\ ~Blocked(s) /\ Owned(s)

StartDisable(s) ==
  /\ Serve /\ Removable(s) /\ rows[s].enabled
  /\ Calling("disable", s, Null, Unlink(rows[s]))
  /\ UNCHANGED <<tables, disk, job, late>>

(* A request is not the absence of one.                                    *)
ASSUME RequestAssumption ==
  \A op \in {"disable", "delete"}, s \in SiteIds, r \in Row : \A t \in {Unlink(r), Erase(r)} :
    Null # [op |-> op, pc |-> "done", site |-> s, row |-> Null, tx |-> t, want |-> FALSE, todo |-> {}]

FinishDisable ==
  /\ Finishing("disable") /\ EndRequest
  /\ rows' = [rows EXCEPT ![http.site].enabled = FALSE]
  /\ UNCHANGED <<states, default, disk, job, late, spent>>

StartDelete(s) ==
  /\ Serve /\ Removable(s)
  /\ Calling("delete", s, Null, Erase(rows[s]))
  /\ UNCHANGED <<tables, disk, job, late>>

Kept ==
  /\ spent.faults < MaxFaults
  /\ spent' = [spent EXCEPT !.faults = @ + 1, !.astray = TRUE]

(* The root directory is removed between the transaction and the row.      *)
FinishDelete ==
  /\ Finishing("delete") /\ EndRequest
  /\ \/ DeleteRow(http.site) /\ UNCHANGED spent
     \/ Kept /\ UNCHANGED <<rows, states>>
  /\ UNCHANGED <<default, disk, job, late>>

(* ReplaceCertificate: the certificate's arguments only, in maintenance    *)
(* too.                                                                    *)
StartReplace(s, c) ==
  /\ Serve /\ s \in Live /\ ConfOf(s) # Absent /\ ConfOf(s).tls \in Certs
  /\ Calling("replace", s, Null,
       [Write(rows[s].conf, [ConfOf(s) EXCEPT !.tls = c]) EXCEPT !.hash = ConfOf(s)])
  /\ UNCHANGED <<tables, disk, job, late>>

FinishReplace ==
  /\ Finishing("replace") /\ EndRequest
  /\ UNCHANGED <<tables, disk, job, late, spent>>

-----------------------------------------------------------------------------
(* In the background.  RefreshLogPaths runs in a GET handler: it reads the *)
(* row, then the file of an imported site, and writes the whole row.       *)

Background(j) ==
  /\ job = Null /\ spent.jobs < MaxJobs
  /\ spent' = [spent EXCEPT !.jobs = @ + 1] /\ job' = j

(* History only: a row or a file that changed since the work read it is    *)
(* overwritten with what it was made from.                                 *)
NoteStale(b)   == spent' = [spent EXCEPT !.stale = @ \/ b]
StaleRow(s, r) == s \in Live /\ [rows[s] EXCEPT !.logs = r.logs, !.flag = r.flag] # r
StaleFile(t)   == \E p \in DOMAIN t.conf : [t.conf[p] EXCEPT !.tls = "plain"] # disk.conf[p]

RefreshStart(s) ==
  /\ s \in Live /\ Imported(rows[s])
  /\ Background([kind |-> "refresh", pc |-> "write", site |-> s, row |-> rows[s], tx |-> Quiet])
  /\ UNCHANGED <<tables, disk, http, late>>

RefreshLogPaths ==
  /\ job # Null /\ job.kind = "refresh"
  /\ job' = Null
  /\ LET body == disk.conf[job.row.conf]
         new  == [job.row EXCEPT !.logs = body.text]
     IN IF body # Absent /\ body.domain = job.row.domain /\ new # job.row
        THEN Overwrite(job.site, new) /\ NoteStale(StaleRow(job.site, new))
        ELSE UNCHANGED <<rows, spent>>
  /\ UNCHANGED <<states, default, disk, http, late>>

(* prepareChallengeConfig: read, patch, write, expecting no hash.          *)
ChallengeStart(s) ==
  /\ s \in Live /\ rows[s].enabled /\ ConfOf(s) # Absent /\ Marked(s) /\ ConfOf(s).tls = "plain"
  /\ Background([kind |-> "challenge", pc |-> "call", site |-> s, row |-> rows[s],
            tx |-> Write(rows[s].conf, [ConfOf(s) EXCEPT !.tls = "challenge"])])
  /\ UNCHANGED <<tables, disk, http, late>>

(* DeployFromStore: it expects the file it read, and writes the whole row. *)
DeployStart(s, c) ==
  /\ s \in Live /\ ~Blocked(s) /\ ConfOf(s) # Absent /\ Marked(s)
  /\ Background([kind |-> "deploy", pc |-> "call", site |-> s, row |-> rows[s],
            tx |-> [Write(rows[s].conf, [ConfOf(s) EXCEPT !.tls = c]) EXCEPT !.hash = ConfOf(s)]])
  /\ UNCHANGED <<tables, disk, http, late>>

JobCall ==
  /\ job # Null /\ job.pc = "call" /\ late = Null
  /\ IF Acceptable(disk, job.tx)
     THEN /\ disk' = After(disk, job.tx)
          /\ job' = IF job.kind = "deploy" THEN [job EXCEPT !.pc = "store"] ELSE Null
          /\ NoteStale(job.kind = "challenge" /\ StaleFile(job.tx))
     ELSE job' = Null /\ UNCHANGED <<disk, spent>>
  /\ UNCHANGED <<tables, http, late>>

JobGivesUp ==
  /\ job # Null /\ job.pc = "call" /\ late = Null
  /\ Lost
  /\ late' = job.tx /\ job' = Null
  /\ UNCHANGED <<tables, disk, http>>

DeployFinish ==
  /\ job # Null /\ job.pc = "store"
  /\ job' = Null
  /\ Overwrite(job.site, job.row) /\ NoteStale(StaleRow(job.site, job.row))
  /\ UNCHANGED <<states, default, disk, http, late>>
=============================================================================
