---------------------------- MODULE SiteMaintenance ----------------------------
(***************************************************************************)
(* Maintenance of a site: internal/maintenance/service.go and its tables,  *)
(* composed with the sites of Sites.                                       *)
(*                                                                         *)
(* The database says first what is wanted (pending), the agent then writes *)
(* the page and the block, and the database confirms.  Until it does, and  *)
(* while a site is in maintenance, the panel refuses to edit the site.     *)
(* Versions are left out: requests are serialised, so the version one read *)
(* is the one it bumps, and a stale page is refused and changes nothing.   *)
(***************************************************************************)
EXTENDS Sites

Effective(html) == IF html = Null THEN default ELSE html

(* Wrong: a disabled site may be put in maintenance.                       *)
MayMaintainDisabled(s, on) ==
  s \in Live /\ ConfOf(s) # Absent /\ ConfOf(s).domain = rows[s].domain

(* What nginx loads is behind its links and in the files it had before the *)
(* panel: two of one server name and it warns of a conflict.               *)
LoadedAt(l) == IF l \in Foreign THEN disk.conf[l] ELSE Behind(disk, l)

Conflicting ==
  \E l, o \in {x \in Confs : LoadedAt(x) # Absent} :
    l # o /\ LoadedAt(l).domain = LoadedAt(o).domain

(* update, from reading the site to store.Begin.  A site is put in         *)
(* maintenance only when it is enabled and the server can be found.        *)
MayMaintain(s, on) ==
  /\ s \in Live /\ ConfOf(s) # Absent /\ ConfOf(s).domain = rows[s].domain
  /\ on => rows[s].enabled /\ ~Conflicting

(* Wrong: what is wanted is recorded when it is confirmed.                 *)
BeginUnrecorded(s, on, html) ==
  states' = [states EXCEPT ![s] = [desired |-> on, html |-> html, pending |-> @.pending]]

Begin(s, on, html) ==
  states' = [states EXCEPT ![s] = [desired |-> on, html |-> html, pending |-> TRUE]]

Confirm(s, on) ==
  /\ states' = [states EXCEPT ![s].pending = FALSE]
  /\ rows' = [rows EXCEPT ![s].flag = on]

(* The page and the block, in one transaction that expects the file read.  *)
Transition(s, on, html) ==
  [Write(rows[s].conf, [ConfOf(s) EXCEPT !.maint = on])
     EXCEPT !.page = IF on THEN [x \in {s} |-> Effective(html)] ELSE Nothing,
            !.hash = ConfOf(s), !.transition = TRUE]

(* Already out of maintenance: only the settings change.                   *)
OnlySettings(s, on) == ~on /\ ~rows[s].flag /\ ~states[s].pending /\ ~ConfOf(s).maint

Maintain(s, on, html, todo) ==
  /\ Begin(s, on, html)
  /\ http' = [op |-> "maintain", pc |-> IF OnlySettings(s, on) THEN "done" ELSE "call",
              site |-> s, row |-> Null, tx |-> Transition(s, on, html), want |-> on, todo |-> todo]

StartMaintain(s, on, html) ==
  /\ Serve /\ MayMaintain(s, on)
  /\ Maintain(s, on, html, {})
  /\ UNCHANGED <<rows, default, disk, job, late>>

(* SetDefaults goes on with the next of its sites.                         *)
NextOf(todo) ==
  http' = IF todo = {} THEN Null
          ELSE [op |-> "defaults", pc |-> "next", site |-> Null, row |-> Null, tx |-> Quiet,
                want |-> FALSE, todo |-> todo]

(* Confirmed, or the confirmation fails and the site stays pending.        *)
FinishMaintain ==
  /\ Finishing("maintain") /\ NextOf(http.todo)
  /\ \/ Confirm(http.site, http.want) /\ UNCHANGED spent
     \/ Fault /\ UNCHANGED <<rows, states>>
  /\ UNCHANGED <<default, disk, job, late>>

FailMaintain ==
  /\ http # Null /\ http.op = "maintain" /\ http.pc = "failed"
  /\ NextOf(http.todo)
  /\ UNCHANGED <<tables, disk, job, late, spent>>

(* SetDefaults: every site that inherits the page and wants maintenance is *)
(* pending until it is applied anew.                                       *)
Inherits(s) == s \in Live /\ states[s].html = Null /\ states[s].desired

MarkInheriting ==
  states' = [s \in SiteIds |-> [states[s] EXCEPT !.pending = @ \/ Inherits(s)]]

SetDefaults(html) ==
  /\ Serve
  /\ default' = html
  /\ MarkInheriting
  /\ NextOf({s \in SiteIds : Inherits(s)})
  /\ UNCHANGED <<rows, disk, job, late>>

DefaultsNext ==
  /\ http # Null /\ http.op = "defaults"
  /\ \E s \in http.todo :
       IF MayMaintain(s, states[s].desired)
       THEN Maintain(s, states[s].desired, states[s].html, http.todo \ {s})
       ELSE NextOf(http.todo \ {s}) /\ UNCHANGED states
  /\ UNCHANGED <<rows, default, disk, job, late, spent>>

-----------------------------------------------------------------------------
(* A panel with no sites beside an nginx that has some.                    *)
Init ==
  /\ rows = [s \in SiteIds |-> Null]
  /\ states = [s \in SiteIds |-> Rowless]
  /\ default \in Htmls
  /\ \E file \in [Foreign -> [owner : {Null}, domain : Domains, text : Texts, tls : {"plain"},
                              maint : {FALSE}]] :
       disk = [conf |-> [p \in Confs |-> IF p \in Foreign THEN file[p] ELSE Absent],
               link |-> [p \in Confs |-> Absent], page |-> [s \in SiteIds |-> Absent]]
  /\ http = Null /\ job = Null /\ late = Null
  /\ spent = [requests |-> 0, ids |-> {}, jobs |-> 0, faults |-> 0, lost |-> FALSE,
            stale |-> FALSE, astray |-> FALSE]

Request ==
  \E s \in SiteIds :
    \/ \E d \in Domains, b \in BOOLEAN : StartCreate(s, d, b)
    \/ \E c \in Certs : StartReplace(s, c)
    \/ \E f \in Foreign : StartImport(s, f)
    \/ \E d \in Domains, text \in Texts : StartUpdate(s, d, text) \/ StartSave(s, d, text)
    \/ \E text \in Texts : StartUpdateDocument(s, text)
    \/ StartEnable(s) \/ StartDisable(s) \/ StartDelete(s)
    \/ \E b \in BOOLEAN, html \in Htmls \cup {Null} : StartMaintain(s, b, html)

Handler ==
  \/ Call \/ FailRequest
  \/ FinishCreate \/ FinishEdit \/ FinishEnable \/ FinishDisable \/ FinishDelete
  \/ FinishReplace \/ FinishMaintain \/ FailMaintain \/ DefaultsNext

Work ==
  \/ \E s \in SiteIds : RefreshStart(s) \/ ChallengeStart(s)
  \/ \E s \in SiteIds, c \in Certs : DeployStart(s, c)
  \/ RefreshLogPaths \/ JobCall \/ JobGivesUp \/ DeployFinish

Next ==
  \/ Request \/ \E html \in Htmls : SetDefaults(html)
  \/ Handler \/ Work
  \/ GiveUp \/ LateEnds \/ Crash

Spec == Init /\ [][Next]_vars

-----------------------------------------------------------------------------
TypeOK ==
  /\ rows \in [SiteIds -> Row \cup {Null}]
  /\ states \in [SiteIds -> [desired : BOOLEAN, html : Htmls \cup {Null}, pending : BOOLEAN]]
  /\ default \in Htmls
  /\ disk.conf \in [Confs -> Body \cup {Absent}]
  /\ disk.link \in [Confs -> Domains \cup {Absent}]
  /\ disk.page \in [SiteIds -> Htmls \cup {Absent}]
  /\ http # Null => http.site \in SiteIds \cup {Null} /\ http.todo \subseteq SiteIds
  /\ job # Null => job.site \in SiteIds

InMaintenance(s) == ConfOf(s) # Absent /\ ConfOf(s).maint

(* Whenever a file holds the maintenance block, the panel knows: the site  *)
(* is flagged or waits for reconciliation, so guardMaintenanceWrites, the  *)
(* deletion and the certificate handlers refuse it, whatever was lost.     *)
MaintenanceIsKnown == \A s \in Live : InMaintenance(s) => Blocked(s)

(* A site shown as synced has on the disk what is shown: the block when it *)
(* is wanted and only then, and with it the page in force, its own or the  *)
(* default of today.                                                       *)
SyncedIsInstalled ==
  \A s \in Live : ~states[s].pending =>
    /\ rows[s].flag = states[s].desired
    /\ rows[s].flag => InMaintenance(s) /\ disk.page[s] = Effective(states[s].html)

(* The site whose maintenance is confirmed is one nginx serves: its link   *)
(* is there and leads to its file, unless an answer was lost, background   *)
(* work wrote an older row back, a row outlived its files, or a site was   *)
(* enabled while it went by another domain than the one its file is named  *)
(* for: then the link leads elsewhere and its visitors see no maintenance. *)
MaintenanceIsServed ==
  ~spent.lost /\ ~spent.stale /\ ~spent.astray =>
    \A s \in Live : rows[s].flag /\ ~Imported(rows[s]) =>
      Behind(disk, rows[s].name) = ConfOf(s)

(* A pending site can be reconciled, that is, its file is there to read:   *)
(* otherwise every edit, its deletion, and the panel's file manager stay   *)
(* refused.  A lost answer can take the file away.                         *)
PendingCanBeReconciled ==
  ~spent.lost => \A s \in Live : states[s].pending => ConfOf(s) # Absent

(* A file of one site becomes another's only when the first goes by        *)
(* another domain than the one its file is named for, unless an answer was *)
(* lost or background work wrote an older row or file back.                *)
TakenOverAfterRename ==
  [][~spent'.lost /\ ~spent'.stale => \A s \in Live :
       /\ rows'[s] # Null /\ ConfOf(s) # Absent /\ ConfOf(s).owner = s
       /\ disk'.conf[rows[s].conf] # Absent /\ disk'.conf[rows[s].conf].owner # s
       => rows[s].domain # rows[s].conf]_vars
=============================================================================
