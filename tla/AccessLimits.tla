------------------------------ MODULE AccessLimits ------------------------------
(***************************************************************************)
(* Accounts and the older access rules: internal/accesslimit.  A site's    *)
(* older rules are kept as the accounts of its password rule; its address  *)
(* and extension rules only rewrite the same file.                         *)
(***************************************************************************)
EXTENDS AccessPolicies

(* A rule is being written on s, under the site's lease; it never waits    *)
(* for the lock.                                                           *)
RuleWriting(s) == proc["http"] # Null /\ proc["http"].op = "rule" /\ proc["http"].site = s
Leased(s)      == lock # Null /\ proc[lock].op # "proxy" /\ proc[lock].site = s

(* ensureAccountCanBeDisabled: sites under a policy are the policy's.      *)
RulesAllow(a) ==
  \A s \in Sites : a \in rules[s] /\ ~Managed(s) => \E o \in rules[s] \ {a} : Enabled(o)

(* A name that nobody has, with a password.                                *)
NewAccount(a, pw) ==
  accounts[a] = Null /\ accounts' = [accounts EXCEPT ![a] = [pw |-> pw, on |-> TRUE]]

CreateAccount(a, pw) ==
  /\ NewAccount(a, pw) /\ Serve
  /\ UNCHANGED <<policy, rules, proxies, geo, files, backups, editor, lock, proc>>

(* UpdateAuthAccount up to its checks; the policies' needs the lock.       *)
UpdateAccount(a, new) ==
  /\ accounts[a] \notin {Null, new} /\ Serve /\ lock = Null
  /\ PoliciesAllow(a, new)
  /\ ~new.on => RulesAllow(a)
  /\ Becomes("http", [Idle EXCEPT !.op = "account", !.doing = "write", !.account = a,
                        !.row = [old |-> accounts[a], new |-> new]])
  /\ UNCHANGED <<tables, files, backups, editor, lock>>

WriteAccount ==
  /\ At("http", "write", "")
  /\ accounts' = [accounts EXCEPT ![proc["http"].account] = proc["http"].row.new]
  /\ Becomes("http", StartRefresh(proc["http"]))
  /\ UNCHANGED <<policy, rules, proxies, geo, files, backups, editor, lock, spent>>

(* Wrong: the account keeps its new row when a site could not follow.      *)
GiveUpAccount ==
  /\ Ends("http")
  /\ UNCHANGED <<accounts, spent>>

(* The old row comes back and the references are refreshed again; what     *)
(* fails then is only logged.                                              *)
UndoAccount ==
  IF proc["http"].undoing
  THEN Ends("http") /\ Note("halfway", TRUE) /\ UNCHANGED accounts
  ELSE /\ accounts' = [accounts EXCEPT ![proc["http"].account] = proc["http"].row.old]
       /\ Becomes("http", StartRefresh([proc["http"] EXCEPT !.undoing = TRUE]))
       /\ UNCHANGED spent

(* refreshAccountReferences: the policies first, then the older rules.     *)
PoliciesRefreshed ==
  /\ proc["http"] # Null /\ proc["http"].op = "account" /\ RefreshEnded("http")
  /\ IF proc["http"].errs THEN UndoAccount
     ELSE /\ Becomes("http", [proc["http"] EXCEPT !.doing = "rules",
                                !.todo = {s \in Sites : proc["http"].account \in rules[s]}])
          /\ UNCHANGED <<accounts, spent>>
  /\ UNCHANGED <<policy, rules, proxies, geo, files, backups, editor, lock>>

(* The access-limit file and the configuration that includes it, read and  *)
(* written back; with it the password file.                                *)
RulesFiles(s, users) ==
  [Quiet EXCEPT !.access = Only(s, [kind |-> "rules", policy |-> [Open EXCEPT !.users = users], geo |-> geo]),
                !.main = Only(s, files.main[s])]

(* Sites whose policy has been confirmed are left to the policy.           *)
LeftToPolicy(s) == Managed(s)

RefreshRules(s) ==
  /\ At("http", "rules", "next") /\ proc["http"].op = "account" /\ s \in proc["http"].todo
  /\ \/ LeftToPolicy(s) /\ Becomes("http", [proc["http"] EXCEPT !.todo = @ \ {s}]) /\ UNCHANGED <<accounts, spent>>
     \/ ~LeftToPolicy(s) /\ Admitted(rules[s]) = {} /\ UndoAccount
     \/ /\ ~LeftToPolicy(s) /\ Admitted(rules[s]) # {}
        /\ Becomes("http", [proc["http"] EXCEPT !.pc = "call", !.site = s,
             !.tx = [RulesFiles(s, rules[s]) EXCEPT !.htpasswd = Only(s, Admitted(rules[s]))]])
        /\ UNCHANGED <<accounts, spent>>
  /\ UNCHANGED <<policy, rules, proxies, geo, files, backups, editor, lock>>

RulesRefreshed ==
  /\ proc["http"] # Null /\ proc["http"].op = "account"
  /\ \/ /\ At("http", "rules", "done")
        /\ Becomes("http", [proc["http"] EXCEPT !.pc = "next", !.todo = @ \ {proc["http"].site}])
        /\ UNCHANGED <<accounts, spent>>
     \/ At("http", "rules", "failed") /\ UndoAccount
     \/ /\ At("http", "rules", "next") /\ proc["http"].todo = {}
        /\ Ends("http") /\ UNCHANGED <<accounts, spent>>
  /\ UNCHANGED <<policy, rules, proxies, geo, files, backups, editor, lock>>

(* DeleteAuthAccount; the database keeps an account a rule row names.      *)
DeleteAccount(a) ==
  /\ accounts[a] # Null /\ Serve /\ lock = Null
  /\ PoliciesAllow(a, Null) /\ \A s \in Sites : a \notin rules[s]
  /\ Becomes("http", [Idle EXCEPT !.op = "account", !.doing = "delete", !.account = a])
  /\ UNCHANGED <<tables, files, backups, editor, lock>>

AccountDeleted ==
  /\ At("http", "delete", "")
  /\ accounts' = [accounts EXCEPT ![proc["http"].account] = Null]
  /\ Ends("http")
  /\ UNCHANGED <<policy, rules, proxies, geo, files, backups, editor, lock, spent>>

-----------------------------------------------------------------------------
(* The older rules change under the lease of a site that has no policy     *)
(* (LegacyLease).  The row comes first, then renderAndApply.               *)
StartRule(s, users) ==
  /\ policy[s] = Null /\ ~Leased(s) /\ Serve
  /\ rules' = [rules EXCEPT ![s] = users]
  /\ Becomes("http", [Idle EXCEPT !.op = "rule", !.doing = "rules", !.pc = "call", !.site = s,
       !.row = [old |-> rules[s], new |-> users],
       !.tx = IF users = rules[s] THEN RulesFiles(s, users)
              ELSE [RulesFiles(s, users) EXCEPT !.htpasswd = Only(s, Admitted(users))]])
  /\ UNCHANGED <<policy, accounts, proxies, geo, files, backups, editor, lock>>

(* validateSelectableAccounts.                                             *)
Selectable(users) == users # {} /\ \A a \in users : Enabled(a)

CreateAuthRule(s, users) == rules[s] = {} /\ Selectable(users) /\ StartRule(s, users)
UpdateAuthRule(s, users) == rules[s] \notin {{}, users} /\ Selectable(users) /\ StartRule(s, users)
DeleteAuthRule(s)        == rules[s] # {} /\ StartRule(s, {})

(* The rules of paths and of addresses leave the accounts.  That the       *)
(* addresses are exceptions from country rules is in GeoRules.             *)
EditDenyRules(s)    == StartRule(s, rules[s])
EditIPLimitRules(s) == StartRule(s, rules[s])

RuleWritten ==
  /\ proc["http"] # Null /\ proc["http"].op = "rule" /\ At("http", "rules", "done")
  /\ Ends("http")
  /\ UNCHANGED <<tables, files, backups, editor, lock, spent>>

(* The row goes back, unless it was deleted.                               *)
RuleFailed ==
  /\ proc["http"] # Null /\ proc["http"].op = "rule" /\ At("http", "rules", "failed")
  /\ LET s == proc["http"].site
         row == proc["http"].row
     IN IF row.new = {} THEN Note("adrift", TRUE) /\ UNCHANGED rules
        ELSE rules' = [rules EXCEPT ![s] = row.old] /\ UNCHANGED spent
  /\ Ends("http")
  /\ UNCHANGED <<policy, accounts, proxies, geo, files, backups, editor, lock>>
=============================================================================
