-------------------------------- MODULE GeoRules --------------------------------
(* Country rules of sites that have no access policy                         *)
(* (internal/geoaccess/service.go): rows of the sites and of their rules, the *)
(* row with trusted proxies and database, and the files made from them: one   *)
(* for all sites, one body per site, and an include in each site's            *)
(* access-limit file.  mutationMu lets one operation run at a time; a         *)
(* transaction that the panel no longer waits for is carried out late.  What  *)
(* rules, default answer, proxies and database say is a number each.          *)
EXTENDS Naturals, FiniteSets

CONSTANTS
  GeoSites,
  AllSites,         \* affectedSiteID = "": the operation is about no one site
  Quiet,
  MaxRules,      \* maxRules
  MaxGeoOps,     \* bound: operations
  MaxGeoFaults   \* bound: refusals, lost answers, crashes

Statuses == {"disabled", "pending", "applied", "error"}
SiteRow == [on : BOOLEAN, status : Statuses, rule : Nat, rules : Nat]
GeoTransaction ==
  [site : GeoSites \cup {AllSites}, on : SUBSET GeoSites, rules : [GeoSites -> Nat], proxies : Nat]
Change ==
  [op : {"site", "again", "sync", "settings", "close", "start"}, site : GeoSites \cup {AllSites},
   pc : {"call", "mark", "back"}, was : [GeoSites -> SiteRow], had : Nat, tx : GeoTransaction]

ASSUME GeoAssumption ==
  /\ AllSites \notin GeoSites /\ Quiet \notin Change \cup GeoTransaction
  /\ MaxRules \in Nat /\ MaxGeoOps \in Nat /\ MaxGeoFaults \in Nat

VARIABLES
  country,       \* site_geo_settings and site_geo_rules of each site
  proxies,       \* geoip_settings
  geoFiles,      \* body of each site, sites that include it, file for all
  change,        \* the operation under mutationMu
  strayGeo,      \* a transaction that nobody waits for
  geoPhase,      \* start of the panel
  adrift,        \* history: sites whose files a lost call may have changed
  loose,         \* history: the same for the sites' includes
  geoUsed        \* what the bounds count

geoVars == <<country, proxies, geoFiles, change, strayGeo, geoPhase, adrift, loose, geoUsed>>

NoRules == [s \in GeoSites |-> 0]

GeoInit ==
  /\ country = [s \in GeoSites |-> [on |-> FALSE, status |-> "disabled", rule |-> 1, rules |-> 0]]
  /\ proxies = 1
  /\ geoFiles = [body |-> NoRules, marked |-> {}, proxies |-> 0, rules |-> NoRules]
  /\ change = Quiet /\ strayGeo = Quiet /\ geoPhase = "up"
  /\ adrift = {} /\ loose = {} /\ geoUsed = [ops |-> 0, faults |-> 0]

GeoFault == geoUsed.faults < MaxGeoFaults /\ geoUsed' = [geoUsed EXCEPT !.faults = @ + 1]

-----------------------------------------------------------------------------
(* applyAll: every enabled site is written anew, but only the affected one's *)
(* access-limit file is patched, or all enabled ones' when it is about none.  *)

ListEnabled(rows) == {s \in GeoSites : rows[s].on}
ListPendingDisabled == {s \in GeoSites : ~country[s].on /\ country[s].status = "pending"}

RenderConfiguration(rows, site, p) ==
  LET on == ListEnabled(rows) IN
  [site  |-> site, on |-> on,
   rules |-> [s \in GeoSites |-> IF s \in on THEN rows[s].rule ELSE 0],
   proxies |-> IF on = {} THEN 0 ELSE p]

PatchTargets(tx) == IF tx.site = AllSites THEN tx.on ELSE {tx.site}

PatchAccessLimit(tx) ==
  (geoFiles.marked \ PatchTargets(tx)) \cup (PatchTargets(tx) \cap tx.on)

WrittenBy(tx) ==
  [body   |-> [s \in GeoSites |-> IF s \in tx.on \cup PatchTargets(tx) THEN tx.rules[s]
                                  ELSE geoFiles.body[s]],
   marked |-> PatchAccessLimit(tx),
   proxies |-> tx.proxies, rules |-> tx.rules]

\* nginx -t: an included body has its file and the variables it uses.
NginxLoads(files) == \A s \in files.marked : files.body[s] # 0 /\ files.rules[s] # 0

\* The rows are changed; with no site enabled and none affected that is all.
ApplyAll(op, site, rows, p) ==
  /\ country' = rows /\ proxies' = p
  /\ change' = IF site = AllSites /\ ListEnabled(rows) = {} THEN Quiet
               ELSE [op |-> op, site |-> site, pc |-> "call", was |-> country, had |-> proxies,
                     tx |-> RenderConfiguration(rows, site, p)]
  /\ UNCHANGED <<geoFiles, strayGeo, adrift, loose>>

Request ==
  /\ geoPhase = "up" /\ change = Quiet /\ geoUsed.ops < MaxGeoOps
  /\ geoUsed' = [geoUsed EXCEPT !.ops = @ + 1] /\ UNCHANGED geoPhase

Row(s, row) == [country EXCEPT ![s] = row]
New == geoUsed.ops + 2

-----------------------------------------------------------------------------
(* The operations.                                                           *)

EnableSite(s) ==
  /\ Request /\ ~country[s].on
  /\ ApplyAll("site", s, Row(s, [country[s] EXCEPT !.on = TRUE, !.status = "pending"]), proxies)

DisableSite(s) ==
  /\ Request
  /\ \/ /\ country[s].on
        /\ ApplyAll("site", s, Row(s, [country[s] EXCEPT !.on = FALSE, !.status = "pending"]), proxies)
     \/ s \in ListPendingDisabled /\ ApplyAll("again", s, country, proxies)

\* The default answer of a site; without rules in force only its row changes.
OnlyRow(rows) ==
  country' = rows /\ UNCHANGED <<proxies, geoFiles, change, strayGeo, adrift, loose>>

UpdateSiteAccess(s) ==
  /\ Request
  /\ LET row == [country[s] EXCEPT !.rule = New] IN
     IF country[s].on THEN ApplyAll("site", s, Row(s, [row EXCEPT !.status = "pending"]), proxies)
     ELSE OnlyRow(Row(s, row))

\* A rule that is off, and the rules of a site without them in force, are rows.
ChangeRules(s, rules, counts) ==
  /\ Request
  /\ LET rows == Row(s, [country[s] EXCEPT !.rules = rules, !.rule = IF counts THEN New ELSE @]) IN
     IF country[s].on /\ counts THEN ApplyAll("site", s, rows, proxies) ELSE OnlyRow(rows)

CreateRule(s) ==
  country[s].rules < MaxRules /\ \E enabled \in BOOLEAN : ChangeRules(s, country[s].rules + 1, enabled)
UpdateRule(s) ==
  country[s].rules > 0 /\ \E enabled \in BOOLEAN : ChangeRules(s, country[s].rules, enabled)
DeleteRule(s) ==
  country[s].rules > 0 /\ \E enabled \in BOOLEAN : ChangeRules(s, country[s].rules - 1, enabled)
ReorderRules(s) == country[s].rules > 0 /\ ChangeRules(s, country[s].rules, TRUE)

\* The IP rules of the access limits are exceptions from the country rules.
\* Their rows are changed by then, and stay so if this fails.
SyncAfterIPChange(s) ==
  /\ Request /\ country[s].on
  /\ ApplyAll("sync", s, Row(s, [country[s] EXCEPT !.rule = New]), proxies)

UpdateTrustedProxies == Request /\ ApplyAll("settings", AllSites, country, New)
InstallDatabase == Request /\ ApplyAll("settings", AllSites, country, New)

-----------------------------------------------------------------------------
(* The transaction, and what the panel makes of its answer.                  *)

Applying(pc) == change # Quiet /\ change.pc = pc
Scope(c) == IF c.site = AllSites THEN GeoSites ELSE {c.site}

GeoCommit ==
  /\ Applying("call") /\ NginxLoads(WrittenBy(change.tx))
  /\ geoFiles' = WrittenBy(change.tx) /\ change' = [change EXCEPT !.pc = "mark"]
  /\ adrift' = (adrift \ change.tx.on) \ PatchTargets(change.tx)
  /\ loose' = loose \ PatchTargets(change.tx)
  /\ UNCHANGED <<country, proxies, strayGeo, geoPhase, geoUsed>>

GeoRefused ==
  /\ Applying("call") /\ (GeoFault \/ (~NginxLoads(WrittenBy(change.tx)) /\ UNCHANGED geoUsed))
  /\ change' = [change EXCEPT !.pc = "back"]
  /\ UNCHANGED <<country, proxies, geoFiles, strayGeo, geoPhase, adrift, loose>>

Lost(c) == adrift' = adrift \cup Scope(c) /\ loose' = loose \cup Scope(c)

\* The call is given up, before the agent carries it out or after.
GeoLost ==
  /\ Applying("call") \/ Applying("mark")
  /\ GeoFault /\ Lost(change)
  /\ (Applying("call") => strayGeo = Quiet)
  /\ strayGeo' = IF change.pc = "call" THEN change.tx ELSE strayGeo
  /\ change' = [change EXCEPT !.pc = "back"]
  /\ UNCHANGED <<country, proxies, geoFiles, geoPhase>>

\* The sites as they were listed become `applied', the affected one `disabled'.
GeoMarked ==
  /\ Applying("mark")
  /\ country' = [s \in GeoSites |->
       IF s \in change.tx.on THEN [country[s] EXCEPT !.status = "applied"]
       ELSE IF s = change.site THEN [country[s] EXCEPT !.status = "disabled"] ELSE country[s]]
  /\ change' = Quiet
  /\ UNCHANGED <<proxies, geoFiles, strayGeo, geoPhase, adrift, loose, geoUsed>>

RestoreSiteSettings(s) == Row(s, [change.was[s] EXCEPT !.status = "error"])
MarkSiteError(sites) ==
  [s \in GeoSites |-> IF s \in sites THEN [country[s] EXCEPT !.status = "error"] ELSE country[s]]

(* Wrong: proxies that nginx refused stay in the settings.                   *)
SettingsKept == proxies

SettingsBack == IF change.op = "settings" THEN change.had ELSE proxies

GeoBack ==
  /\ Applying("back")
  /\ country' = CASE change.op = "site" -> RestoreSiteSettings(change.site)
                  [] change.op = "start" -> MarkSiteError(ListEnabled(country))
                  [] OTHER -> country
  /\ proxies' = SettingsBack
  /\ geoPhase' = IF change.op \in {"start", "close"} THEN "up" ELSE geoPhase
  /\ adrift' = adrift \cup {s \in GeoSites : change.op = "sync" /\ s = change.site}
  /\ change' = Quiet
  /\ UNCHANGED <<geoFiles, strayGeo, loose, geoUsed>>

GeoLate ==
  /\ strayGeo # Quiet /\ strayGeo' = Quiet
  /\ \/ /\ NginxLoads(WrittenBy(strayGeo)) /\ geoFiles' = WrittenBy(strayGeo)
        /\ adrift' = GeoSites /\ loose' = loose \cup PatchTargets(strayGeo)
     \/ UNCHANGED <<geoFiles, adrift, loose>>
  /\ UNCHANGED <<country, proxies, change, geoPhase, geoUsed>>

-----------------------------------------------------------------------------
(* Restart: sites whose rules were being taken away first, and if there were *)
(* such, nothing else; the panel serves whatever comes of it.                *)

GeoCrash ==
  /\ geoPhase = "up" /\ change # Quiet /\ GeoFault /\ Lost(change)
  /\ strayGeo' \in {strayGeo} \cup {change.tx : n \in IF Applying("call") /\ strayGeo = Quiet THEN {1} ELSE {}}
  /\ change' = Quiet /\ geoPhase' = "start"
  /\ UNCHANGED <<country, proxies, geoFiles>>

ReconcileDisabled(s) ==
  /\ geoPhase \in {"start", "closing"} /\ change = Quiet /\ s \in ListPendingDisabled
  /\ ApplyAll("close", s, country, proxies) /\ geoPhase' = "closing"
  /\ UNCHANGED geoUsed

Reconcile ==
  /\ geoPhase = "start" /\ change = Quiet /\ ListPendingDisabled = {}
  /\ ApplyAll("start", AllSites, country, proxies) /\ geoPhase' = "serving"
  /\ UNCHANGED geoUsed

ReconcileDone ==
  /\ change = Quiet
  /\ geoPhase = "serving" \/ (geoPhase = "closing" /\ ListPendingDisabled = {})
  /\ geoPhase' = "up"
  /\ UNCHANGED <<country, proxies, geoFiles, change, strayGeo, adrift, loose, geoUsed>>

GeoNext ==
  \/ \E s \in GeoSites :
       \/ EnableSite(s) \/ DisableSite(s) \/ UpdateSiteAccess(s) \/ SyncAfterIPChange(s)
       \/ CreateRule(s) \/ UpdateRule(s) \/ DeleteRule(s) \/ ReorderRules(s)
       \/ ReconcileDisabled(s)
  \/ UpdateTrustedProxies \/ InstallDatabase
  \/ GeoCommit \/ GeoRefused \/ GeoLost \/ GeoMarked \/ GeoBack \/ GeoLate
  \/ GeoCrash \/ Reconcile \/ ReconcileDone

GeoSpec == GeoInit /\ [][GeoNext]_geoVars

-----------------------------------------------------------------------------
(* What the row of a site calls applied is what nginx serves it: the rules   *)
(* and the default answer of the rows, with the proxies of the settings; and  *)
(* the site includes them exactly while its rules are in force.  A site that  *)
(* a lost call was about is excepted until its files are written again, and   *)
(* its include until its own access-limit file is patched again: an operation *)
(* on another site marks it applied without that.                             *)
GeoRowsAreServed ==
  geoPhase = "up" /\ change = Quiet =>
    \A s \in GeoSites :
      /\ country[s].on /\ country[s].status = "applied" /\ s \notin adrift =>
           /\ geoFiles.body[s] = country[s].rule /\ geoFiles.rules[s] = country[s].rule
           /\ geoFiles.proxies = proxies
      /\ country[s].status \in {"applied", "disabled"} /\ s \notin loose =>
           (s \in geoFiles.marked <=> country[s].on)
=============================================================================
