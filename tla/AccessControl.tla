------------------------------ MODULE AccessControl ------------------------------
(***************************************************************************)
(* What runs beside the requests: the scheduled update of the GeoIP        *)
(* database (internal/geoaccess) and the backups and restores of a site    *)
(* (internal/sitebackup, internal/accesspolicy/backup.go), composed with   *)
(* the policies, accounts, rules and proxies.                              *)
(***************************************************************************)
EXTENDS SiteProxies

-----------------------------------------------------------------------------
(* A new generation was downloaded, or uploaded, and can be read.          *)
InstallGeneration == geo' = geo + 1

(* activateDatabase: the new generation is stored first.                   *)
StartUpdate ==
  /\ Begin("geo") /\ InstallGeneration
  /\ Becomes("geo", [Idle EXCEPT !.op = "geo", !.doing = "geo", !.pc = "read"])
  /\ UNCHANGED <<policy, accounts, rules, proxies, files, backups, editor, lock>>

(* applyAll reads the files of the sites with older country rules that no  *)
(* policy manages, takes no lease, and writes them back.                   *)
ReadGeoSites ==
  /\ At("geo", "geo", "read")
  /\ LET sites == {s \in GeoSites : ~Managed(s)}
     IN Becomes("geo",
          IF sites = {} THEN StartRefresh(proc["geo"])
          ELSE [proc["geo"] EXCEPT !.pc = "call",
                  !.tx = [Quiet EXCEPT !.access = [s \in sites |-> [files.access[s] EXCEPT !.geo = geo]],
                                       !.main = [s \in sites |-> files.main[s]]]])
  /\ UNCHANGED <<tables, files, backups, editor, lock, spent>>

GeoApplied ==
  /\ At("geo", "geo", "done")
  /\ Becomes("geo", StartRefresh(proc["geo"]))
  /\ UNCHANGED <<tables, files, backups, editor, lock, spent>>

(* The old generation comes back; what was applied is not looked at.       *)
GeoFailed ==
  /\ At("geo", "geo", "failed")
  /\ geo' = geo - 1 /\ Ends("geo") /\ Note("taken back", TRUE)
  /\ UNCHANGED <<policy, accounts, rules, proxies, files, backups, editor, lock>>

GeoRefreshed ==
  /\ proc["geo"] # Null /\ RefreshEnded("geo")
  /\ Ends("geo")
  /\ Note("adrift", proc["geo"].errs)
  /\ UNCHANGED <<tables, files, backups, editor, lock>>

-----------------------------------------------------------------------------
(* WithBackup: under the locks; a site without a policy in force saves no  *)
(* bundle.  The older rule's password file is not among the paths.         *)
Backup(s) ==
  /\ Begin("backup") /\ lock = Null /\ ~RuleWriting(s)
  /\ backups' = [backups EXCEPT ![s] =
       [access |-> files.access[s], main |-> files.main[s], slots |-> files.slots[s],
        bundle |-> IF Managed(s) THEN files.slots[s].policy ELSE Null]]
  /\ UNCHANGED <<tables, files, editor, lock, proc>>

(* prepareBackupAccounts: an account that is still there is as it was.     *)
Unchanged(b) == \A a \in b.bundle.users : accounts[a] \in {Null, b.slots.accounts[a]}

(* The agent overwrites what the archive holds and removes nothing else.   *)
StartRestore(s) ==
  /\ Begin("backup") /\ backups[s] # Null
  /\ Take("backup") /\ ~RuleWriting(s)
  /\ LET b == backups[s]
     IN /\ b.bundle # Null => Unchanged(b)
        /\ Becomes("backup", [Idle EXCEPT !.op = "restore", !.doing = "restore", !.pc = "call", !.site = s,
             !.p = b.bundle,
             !.row = IF b.bundle = Null THEN {} ELSE {a \in b.bundle.users : accounts[a] = Null},
             !.tx = [Quiet EXCEPT !.access = Only(s, b.access), !.main = Only(s, b.main),
                       !.slots = IF b.bundle = Null THEN Nothing ELSE Only(s, b.slots)]])
  /\ UNCHANGED <<tables, files, backups, editor>>

Refreshing == \E t \in Threads : proc[t] # Null /\ proc[t].op \in {"account", "geo"}

(* commitBackupPolicy: the saved accounts that are gone come back, and the *)
(* policy is in force at the next version; without a bundle the row goes.  *)
Restored(s, p) ==
  LET v == IF policy[s] = Null THEN 1 ELSE policy[s].version + 1
  IN IF p = Null THEN Null
     ELSE [mode |-> "unified", version |-> v, desired |-> p, applied |-> p, at |-> v,
           status |-> "applied", fromProxy |-> FALSE]

(* An account of the bundle was changed since it was compared.             *)
Outdated(s, p, new) == p # Null /\ \E a \in p.users \ new : accounts[a] # backups[s].slots.accounts[a]

CommitRestore ==
  /\ At("backup", "restore", "done")
  /\ LET s   == proc["backup"].site
         p   == proc["backup"].p
         new == proc["backup"].row
     IN \/ /\ \A a \in new : accounts[a] = Null
           /\ policy' = [policy EXCEPT ![s] = Restored(s, p)]
           /\ accounts' = Rewritten([a \in new |-> backups[s].slots.accounts[a]], accounts)
           /\ spent' = [spent EXCEPT !.mishaps = @ \cup
                (IF Refreshing THEN {"overlap"} ELSE {}) \cup (IF p = Null THEN {"older"} ELSE {"restored"})
                \cup (IF Outdated(s, p, new) THEN {"changed"} ELSE {})]
        \/ /\ (\E a \in new : accounts[a] # Null) /\ UNCHANGED <<policy, accounts>>
           /\ Note("adrift", TRUE)
        \/ Lost /\ UNCHANGED <<policy, accounts>>
  /\ Free /\ Ends("backup")
  /\ UNCHANGED <<rules, proxies, geo, files, backups, editor>>

FailRestore ==
  /\ At("backup", "restore", "failed")
  /\ Free /\ Ends("backup")
  /\ UNCHANGED <<tables, files, backups, editor, spent>>

(* The panel stops; a transaction that was under way may still be carried  *)
(* out.  An open editor is in the browser.                                 *)
Crash ==
  /\ proc # [t \in Threads |-> Null] /\ Lost
  /\ proc' = [t \in Threads |-> Null] /\ lock' = Null
  /\ \/ UNCHANGED files
     \/ \E t \in Threads : proc[t] # Null /\ proc[t].pc = "call" /\ files' = After(proc[t].tx)
  /\ UNCHANGED <<tables, backups, editor>>

-----------------------------------------------------------------------------
(* Sites the panel made start under the empty policy (FinishSiteCreate),   *)
(* which may have been saved since; the others have their older rules.     *)
InForce(p) ==
  [mode |-> "unified", version |-> 1, desired |-> p, applied |-> p, at |-> 1,
   status |-> "applied", fromProxy |-> FALSE]

Init ==
  /\ policy \in [Sites -> {Null, InForce(Open), InForce([Open EXCEPT !.users = Accounts])}]
  /\ \E pw \in Passwords : accounts = [a \in Accounts |-> [pw |-> pw, on |-> TRUE]]
  /\ rules \in [Sites -> SUBSET Accounts] /\ \A s \in Sites : policy[s] # Null => rules[s] = {}
  /\ proxies \in [Sites -> {x \in Proxy : x.on} \cup {Null}] /\ geo = 0
  /\ LET admitted == [s \in Sites |-> Admitted(rules[s])]
     IN files = [access |-> [s \in Sites |->
                   [kind |-> IF Managed(s) THEN "policy" ELSE "rules",
                    policy |-> IF Managed(s) THEN policy[s].applied ELSE [Open EXCEPT !.users = rules[s]],
                    geo |-> 0]],
                 slots |-> [s \in Sites |-> Snapshot(IF Managed(s) THEN policy[s].applied ELSE Open)],
                 htpasswd |-> admitted,
                 main |-> proxies]
  /\ backups = [s \in Sites |-> Null] /\ editor = Null /\ lock = Null
  /\ proc = [t \in Threads |-> Null]
  /\ spent = [ops |-> 0, faults |-> 0, mishaps |-> {}]

Request ==
  \/ \E s \in Sites :
       \/ OpenEditor(s) \/ Sync(s) \/ SyncProxy(s)
       \/ DeleteAuthRule(s) \/ EditDenyRules(s) \/ EditIPLimitRules(s)
       \/ DeleteProxy(s)
       \/ \E users \in SUBSET Accounts : CreateAuthRule(s, users) \/ UpdateAuthRule(s, users)
       \/ \E new \in Proxy : CreateProxy(s, new) \/ UpdateProxy(s, new)
  \/ \E users \in SUBSET Accounts, link \in Paths \cup {Null} : Save(users, link)
  \/ \E a \in Accounts :
       \/ DeleteAccount(a)
       \/ \E pw \in Passwords : CreateAccount(a, pw)
       \/ \E new \in Account : UpdateAccount(a, new)

Handler ==
  \/ FinishApply \/ FailApply
  \/ WriteAccount \/ PoliciesRefreshed \/ RulesRefreshed \/ AccountDeleted
  \/ RuleWritten \/ RuleFailed \/ RenderProxy \/ FinishProxy
  \/ \E s \in Sites : RefreshRules(s)

Refresh ==
  \E t \in Threads : RefreshLock(t) \/ RefreshMark(t) \/ \E s \in Sites : RefreshRead(t, s)

Beside ==
  \/ StartUpdate \/ ReadGeoSites \/ GeoApplied \/ GeoFailed \/ GeoRefreshed
  \/ CommitRestore \/ FailRestore
  \/ \E s \in Sites : Backup(s) \/ StartRestore(s)

Next ==
  \/ Request \/ Handler \/ Refresh \/ Beside
  \/ \E t \in Threads : Call(t)
  \/ Crash

Spec == Init /\ [][Next]_vars

-----------------------------------------------------------------------------
TypeOK ==
  /\ policy \in [Sites -> Row \cup {Null}]
  /\ accounts \in [Accounts -> Account \cup {Null}]
  /\ rules \in [Sites -> SUBSET Accounts]
  /\ proxies \in [Sites -> Proxy \cup {Null}] /\ geo \in Nat
  /\ files.access \in [Sites -> [kind : {"rules", "policy"}, policy : Policy, geo : Nat]]
  /\ \A s \in Sites : /\ files.slots[s].policy \in Policy
                    /\ files.slots[s].accounts \in [files.slots[s].policy.users -> Account]
  /\ files.htpasswd \in [Sites -> SUBSET (Accounts \X Passwords)]
  /\ files.main \in [Sites -> Proxy \cup {Null}]
  /\ lock \in Threads \cup {Null}
  /\ lock # Null => proc[lock] # Null

(* No answer was lost and no thread failed after its files were written.   *)
Without(mishaps) == spent.mishaps \cap mishaps = {}
Steady == Without({"lost", "adrift"})

(* A policy shown as applied is the one nginx serves (whether a linked rule *)
(* is on follows its proxy, not the row), unless an answer was             *)
(* lost or a GeoIP update wrote back what it had read before.              *)
AppliedIsServed ==
  Steady /\ Without({"overlap"}) /\ proc["geo"] = Null =>
    \A s \in Sites : policy[s] # Null /\ policy[s].status = "applied" /\ ~Leased(s) =>
      /\ files.access[s].kind = "policy"
      /\ [files.access[s].policy EXCEPT !.off = policy[s].applied.off] = policy[s].applied

Served(s) ==
  IF files.access[s].kind = "policy" THEN LetIn(files.slots[s].accounts)
  ELSE IF files.access[s].policy.users = {} THEN {} ELSE files.htpasswd[s]

(* Once the change of an account is answered, no site lets in its old      *)
(* password, a disabled or a deleted account, unless a change could        *)
(* neither be carried out nor undone, or a restore or an unmarked policy    *)
(* brought the account back.                                               *)
RevokedIsOut ==
  Steady /\ Without({"overlap", "older", "changed", "halfway", "unknown"})
    /\ (proc["http"] = Null \/ proc["http"].op # "account") =>
    \A s \in Sites : ~Leased(s) => \A c \in Served(s) : Enabled(c[1]) /\ accounts[c[1]].pw = c[2]

(* A save replaces what its editor showed and nothing else, as long as no  *)
(* backup from before the policies starts the versions anew.               *)
NoLostEdit ==
  [][Without({"older"}) /\ editor # Null /\ editor' = Null =>
       IF policy[editor.site] = Null THEN editor.seen = Null
       ELSE policy[editor.site].desired = editor.seen]_vars

(* A refresh writes the policy in force and no other: not an edit that     *)
(* waits, nor what was in force when it began.                             *)
RefreshKeepsPolicy ==
  [][Without({"older"}) => \A t \in Threads :
       At(t, "refresh", "call") /\ files' # files /\ proc'[t] # proc[t] =>
         policy[proc[t].site] # Null /\ proc[t].p = policy[proc[t].site].applied]_vars

(* The rule linked to a proxy guards the path at which nginx serves it and *)
(* is off only with it, however the proxy and the policy are changed in    *)
(* turn, as long as no change of a proxy was given up without a trace.     *)
LinkedRuleFollows ==
  Steady /\ Without({"ahead", "overlap", "restored", "older"}) /\ lock = Null =>
    \A s \in Sites :
      LET p == files.access[s].policy
      IN policy[s] # Null /\ policy[s].status = "applied" /\ p.link # Null =>
           /\ files.main[s] # Null /\ p.link = files.main[s].path
           /\ p.off = ~files.main[s].on

(* When an update has ended every policy in force is rendered from the     *)
(* database of today, those aside that were rendered before the update and *)
(* marked after it began.                                                  *)
GeoIsCurrent ==
  Steady /\ Without({"overlap", "outrun", "taken back", "restored", "older"}) /\ proc["geo"] = Null =>
    \A s \in Sites : policy[s] # Null /\ policy[s].status = "applied" /\ ~Leased(s) =>
      files.access[s].geo = geo
=============================================================================
