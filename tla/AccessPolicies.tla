----------------------------- MODULE AccessPolicies -----------------------------
(***************************************************************************)
(* Access policies of sites: internal/accesspolicy, with the row it keeps  *)
(* (site_access_policies) and the files it compiles.  AccessLimits adds    *)
(* the accounts and the older rules, SiteProxies the reverse proxies,      *)
(* AccessControl backups and GeoIP, and composes them.                     *)
(*                                                                         *)
(* Three threads: the request that holds configurationWriteMu ("http"),    *)
(* the scheduled GeoIP update ("geo") and the backup or restore of a site  *)
(* ("backup").  A site's lease, the proxies' writeMu and the policies' mu  *)
(* are taken in this order and released together, and the last two are one *)
(* for all sites: they are one lock here.                                  *)
(*                                                                         *)
(* A call of the agent is all or nothing (AgentTransaction shows it); its  *)
(* answer may be lost.  A policy is kept as the accounts its password rule *)
(* admits and the path of the rule that is linked to the site's proxy.     *)
(***************************************************************************)
EXTENDS Naturals, FiniteSets

CONSTANTS
  Sites, Accounts, Passwords, Paths,
  GeoSites,                 \* sites with the older country rules on
  Null,
  MaxOps, MaxFaults         \* bounds of the model

Policy  == [users : SUBSET Accounts, link : Paths \cup {Null}, off : BOOLEAN]
Proxy   == [path : Paths, on : BOOLEAN]
Account == [pw : Passwords, on : BOOLEAN]
Threads == {"http", "geo", "backup"}

(* A row, the two files of a site, and what a transaction writes of some.  *)
Row == [mode : {"legacy", "unified"}, version : Nat, desired : Policy, applied : Policy \cup {Null},
        at : Nat, status : {"pending", "applied", "error"}, fromProxy : BOOLEAN]

Access  == [kind : {"rules", "policy"}, policy : Policy, geo : Nat]
Slots   == {x \in [policy : Policy, accounts : UNION {[u -> Account] : u \in SUBSET Accounts}] :
              DOMAIN x.accounts = x.policy.users}
Logins  == SUBSET (Accounts \X Passwords)
Some(V) == UNION {[d -> V] : d \in SUBSET Sites}
Changes == [access : Some(Access), slots : Some(Slots), htpasswd : Some(Logins),
            main : Some(Proxy \cup {Null})]

(* A backup, an open editor, and what a thread is doing.                   *)
Saved  == [access : Access, main : Proxy \cup {Null}, slots : Slots, bundle : Policy \cup {Null}]
Editor == [site : Sites, version : Nat, seen : Policy \cup {Null}]
Work   ==
  [op : {"", "save", "sync", "proxy", "account", "rule", "geo", "restore"},
   doing : {"", "apply", "proxy", "write", "delete", "refresh", "rules", "geo", "restore"},
   pc : {"", "read", "render", "next", "lock", "call", "done", "failed"},
   site : Sites \cup {Null}, p : Policy \cup {Null}, v : Nat, tx : Changes, todo : SUBSET Sites,
   errs : BOOLEAN, account : Accounts \cup {Null}, undoing : BOOLEAN,
   row : {Null} \cup [old : Account, new : Account] \cup [old : SUBSET Accounts, new : SUBSET Accounts]
           \cup SUBSET Accounts]

ASSUME AccessAssumption ==
  /\ GeoSites \subseteq Sites /\ MaxOps \in Nat /\ MaxFaults \in Nat
  /\ Null \notin Sites \cup Accounts \cup Passwords \cup Paths \cup Threads
  /\ Null \notin Policy \cup Proxy \cup Account \cup Row \cup Saved \cup Editor \cup Work

(* newSitePolicy: no rules, everything is let in.                          *)
Open == [users |-> {}, link |-> Null, off |-> FALSE]

VARIABLES
  policy,    \* site_access_policies: the row of each site, or Null
  accounts,  \* auth_accounts, by user name: a row or Null
  rules,     \* site_auth_rules: the accounts of the site's older password rule
  proxies,   \* site_proxies: the site's proxy, or Null
  geo,       \* geoip_settings: the database and the trusted proxies, as a generation
  files,     \* what the agent's nginx reads: access, slots, htpasswd, main
  backups,   \* the site's backup, or Null
  editor,    \* an open policy editor: the site, the version and the policy it read
  lock,      \* who holds the locks, or Null
  proc,      \* what each thread is doing, or Null
  spent      \* what has been used of the bounds, and what has gone wrong

tables == <<policy, accounts, rules, proxies, geo>>
vars == <<tables, files, backups, editor, lock, proc, spent>>

-----------------------------------------------------------------------------
(* The row.                                                                *)

Managed(s) == policy[s] # Null /\ policy[s].mode = "unified"

(* Wrong: the policy is stored whatever version its editor read.           *)
AnyVersion(s, v) == TRUE

PoliciesOf(s) == IF policy[s] = Null THEN {}
                 ELSE {policy[s].desired} \cup (IF policy[s].applied = Null THEN {} ELSE {policy[s].applied})

AtVersion(s, v) == IF policy[s] = Null THEN v = 0 ELSE policy[s].version = v

(* What SaveDesired stores; the mode changes only when it is applied.      *)
Desired(s, p, fromProxy) ==
  IF policy[s] = Null
  THEN [mode |-> "legacy", version |-> 1, desired |-> p, applied |-> Null, at |-> 0,
        status |-> "pending", fromProxy |-> fromProxy]
  ELSE [policy[s] EXCEPT !.version = @ + 1, !.desired = p, !.status = "pending", !.fromProxy = fromProxy]

(* MarkApplied; it refuses another version.                                *)
MarkApplied(s, v) ==
  policy' = IF policy[s] # Null /\ policy[s].version = v
            THEN [policy EXCEPT ![s].mode = "unified", ![s].applied = policy[s].desired,
                    ![s].at = v, ![s].status = "applied"]
            ELSE policy

MarkError(s, v) ==
  policy' = IF policy[s] # Null /\ policy[s].version = v
            THEN [policy EXCEPT ![s].status = "error"] ELSE policy

-----------------------------------------------------------------------------
(* Rendering: renderContext, authBody and Compile.                         *)

Enabled(a) == accounts[a] # Null /\ accounts[a].on

(* Every account exists and one of them is enabled.                        *)
Renderable(p) ==
  /\ \A a \in p.users : accounts[a] # Null
  /\ p.users # {} => \E a \in p.users : Enabled(a)

Admitted(users) == {<<a, accounts[a].pw>> : a \in {u \in users : Enabled(u)}}

(* resolveSources: the rule follows a proxy that is there, at its path.    *)
Resolvable(s, p) == p.link # Null => proxies[s] # Null /\ proxies[s].path = p.link
Resolved(s, p)   == [p EXCEPT !.off = p.link # Null /\ ~proxies[s].on]

(* The bundle kept for backups: the policy and the accounts it names, as    *)
(* they are; the password files hold the enabled ones.                     *)
Snapshot(p)  == [policy |-> p, accounts |-> [a \in p.users |-> accounts[a]]]
LetIn(kept)  == {<<a, kept[a].pw>> : a \in {u \in DOMAIN kept : kept[u].on}}

(* A transaction says what it writes of each site: access (the access-     *)
(* limit file), slots (the policy's password files and bundle), htpasswd   *)
(* (the older rule's) and main (the proxies in the site's configuration).  *)
Nothing  == [s \in {} |-> Null]
Quiet    == [access |-> Nothing, slots |-> Nothing, htpasswd |-> Nothing, main |-> Nothing]
Only(s, x) == [r \in {s} |-> x]
Rewritten(new, old) == [s \in DOMAIN old |-> IF s \in DOMAIN new THEN new[s] ELSE old[s]]
After(t) == [access |-> Rewritten(t.access, files.access), slots |-> Rewritten(t.slots, files.slots),
             htpasswd |-> Rewritten(t.htpasswd, files.htpasswd), main |-> Rewritten(t.main, files.main)]

(* buildFiles.                                                             *)
PolicyFiles(s, p) ==
  [Quiet EXCEPT !.access = Only(s, [kind |-> "policy", policy |-> p, geo |-> geo]),
                !.slots = Only(s, Snapshot(p))]

-----------------------------------------------------------------------------
(* Threads.                                                                *)

Begin(t) ==
  /\ proc[t] = Null /\ spent.ops < MaxOps
  /\ spent' = [spent EXCEPT !.ops = @ + 1]
Serve == Begin("http")

Fault == spent.faults < MaxFaults /\ spent' = [spent EXCEPT !.faults = @ + 1]
Lost  == spent.faults < MaxFaults /\ spent' = [spent EXCEPT !.faults = @ + 1, !.mishaps = @ \cup {"lost"}]

(* History only: what the properties have to make an exception for.        *)
Note(mishap, b) == spent' = [spent EXCEPT !.mishaps = IF b THEN @ \cup {mishap} ELSE @]

Idle == [op |-> "", doing |-> "", pc |-> "", site |-> Null, p |-> Null, v |-> 0, tx |-> Quiet,
         todo |-> {}, errs |-> FALSE, account |-> Null, row |-> Null, undoing |-> FALSE]

At(t, doing, pc) == proc[t] # Null /\ proc[t].doing = doing /\ proc[t].pc = pc
Becomes(t, r)    == proc' = [proc EXCEPT ![t] = r]
Ends(t)          == Becomes(t, Null)

Take(t) == lock = Null /\ lock' = t

(* Wrong: a lock is not given back.                                        *)
Kept    == UNCHANGED lock

Free    == lock' = Null

(* The GeoIP update writes back a file that has changed since it read it.  *)
Overwrites(t) ==
  t = "geo" /\ proc[t].doing = "geo" /\
    \E s \in DOMAIN proc[t].tx.access :
      \/ [files.access[s] EXCEPT !.geo = geo] # proc[t].tx.access[s]
      \/ files.main[s] # proc[t].tx.main[s]

(* The agent's answer: done, refused or failed, or lost with the           *)
(* transaction carried out or not.                                         *)
Call(t) ==
  /\ proc[t] # Null /\ proc[t].pc = "call"
  /\ \/ /\ files' = After(proc[t].tx) /\ Becomes(t, [proc[t] EXCEPT !.pc = "done"])
        /\ Note("overlap", Overwrites(t))
     \/ Fault /\ Becomes(t, [proc[t] EXCEPT !.pc = "failed"]) /\ UNCHANGED files
     \/ Lost /\ Becomes(t, [proc[t] EXCEPT !.pc = "failed"]) /\ files' = After(proc[t].tx)
  /\ UNCHANGED <<tables, backups, editor, lock>>

(* A change that was rendered before a GeoIP update and is marked after it *)
(* began: the refresh never sees it, or drops the version it read.         *)
NoteFinish(t) == Note("outrun", proc[t].tx.access[proc[t].site].geo # geo)

-----------------------------------------------------------------------------
(* The editor opens a site's policy; saving sends back the version it read.*)
OpenEditor(s) ==
  /\ editor = Null
  /\ editor' = IF policy[s] = Null THEN [site |-> s, version |-> 0, seen |-> Null]
               ELSE [site |-> s, version |-> policy[s].version, seen |-> policy[s].desired]
  /\ UNCHANGED <<tables, files, backups, lock, proc, spent>>

(* Save, up to the call: under the locks the policy is resolved and        *)
(* rendered again, and stored.  A refusal changes nothing.                 *)
Save(users, link) ==
  /\ editor # Null /\ Serve /\ Take("http")
  /\ LET s == editor.site
         p == Resolved(s, [users |-> users, link |-> link, off |-> FALSE])
     IN /\ Resolvable(s, [users |-> users, link |-> link, off |-> FALSE]) /\ Renderable(p)
        /\ policy[s] # Null => ~policy[s].fromProxy \/ policy[s].status = "applied"
        /\ AtVersion(s, editor.version)
        /\ policy' = [policy EXCEPT ![s] = Desired(s, p, FALSE)]
        /\ Becomes("http", [Idle EXCEPT !.op = "save", !.doing = "apply", !.pc = "call", !.site = s,
                              !.p = p, !.v = editor.version + 1, !.tx = PolicyFiles(s, p)])
  /\ editor' = Null
  /\ UNCHANGED <<accounts, rules, proxies, geo, files, backups>>

(* Sync of what is stored; of a change the proxies made, SyncProxy.        *)
Sync(s) ==
  /\ policy[s] # Null /\ ~(policy[s].fromProxy /\ policy[s].status # "applied")
  /\ Renderable(policy[s].desired) /\ Serve
  /\ IF Resolvable(s, policy[s].desired)
     THEN /\ Take("http")
          /\ LET p == Resolved(s, policy[s].desired)
             IN Becomes("http", [Idle EXCEPT !.op = "sync", !.doing = "apply", !.pc = "call", !.site = s,
                                   !.p = p, !.v = policy[s].version, !.tx = PolicyFiles(s, p)])
          /\ UNCHANGED policy
     ELSE lock = Null /\ MarkError(s, policy[s].version) /\ UNCHANGED <<lock, proc>>
  /\ UNCHANGED <<accounts, rules, proxies, geo, files, backups, editor>>

(* The rest of apply; the database may fail after the agent, which leaves a *)
(* first policy served and not yet in force.                               *)
FinishApply ==
  /\ At("http", "apply", "done")
  /\ LET s == proc["http"].site
     IN \/ /\ MarkApplied(s, proc["http"].v)
           /\ NoteFinish("http")
        \/ (IF Managed(s) THEN Fault ELSE Lost) /\ MarkError(s, proc["http"].v)
  /\ Free /\ Ends("http")
  /\ UNCHANGED <<accounts, rules, proxies, geo, files, backups, editor>>

(* History: after a change that failed, nginx serves a policy that is      *)
(* neither wanted nor was in force: an earlier one that could not be marked. *)
NoteUnknown(s) ==
  Note("unknown", Managed(s) /\ \A p \in PoliciesOf(s) : p.users # files.slots[s].policy.users)

FailApply ==
  /\ At("http", "apply", "failed")
  /\ MarkError(proc["http"].site, proc["http"].v) /\ NoteUnknown(proc["http"].site)
  /\ Free /\ Ends("http")
  /\ UNCHANGED <<accounts, rules, proxies, geo, files, backups, editor>>

-----------------------------------------------------------------------------
(* RefreshActive, by thread t: the policies in force are applied anew, one *)
(* site after the other; an error does not stop it.                        *)

(* Wrong: the policies that are up to date are left as they are.           *)
StartRepair(r) == [r EXCEPT !.doing = "refresh", !.pc = "next", !.errs = FALSE,
                            !.todo = {s \in Sites : policy[s] # Null /\ policy[s].status # "applied"}]

StartRefresh(r) == [r EXCEPT !.doing = "refresh", !.pc = "next", !.errs = FALSE,
                             !.todo = {s \in Sites : policy[s] # Null}]
RefreshNext(t, bad) ==
  Becomes(t, [proc[t] EXCEPT !.pc = "next", !.todo = @ \ {proc[t].site}, !.errs = @ \/ bad])

(* GetApplied, before any lock.                                            *)
RefreshRead(t, s) ==
  /\ At(t, "refresh", "next") /\ s \in proc[t].todo
  /\ IF Managed(s) /\ Renderable(policy[s].applied)
     THEN Becomes(t, [proc[t] EXCEPT !.pc = "lock", !.site = s, !.p = policy[s].applied, !.v = policy[s].at])
     ELSE Becomes(t, [proc[t] EXCEPT !.todo = @ \ {s}, !.errs = @ \/ Managed(s)])
  /\ UNCHANGED <<tables, files, backups, editor, lock, spent>>

(* Wrong: what was read is taken to be in force still.                     *)
StillThere(s, v) == policy[s] # Null

(* What was read is the policy in force.                                   *)
StillApplied(s, v) == policy[s] # Null /\ policy[s].at = v

RefreshLock(t) ==
  /\ At(t, "refresh", "lock") /\ lock = Null
  /\ LET s == proc[t].site
         p == proc[t].p
     IN \/ /\ ~StillApplied(s, proc[t].v)
           /\ RefreshNext(t, FALSE) /\ UNCHANGED <<policy, lock>>
        \/ /\ StillApplied(s, proc[t].v) /\ ~Renderable(p)
           /\ RefreshNext(t, TRUE) /\ MarkError(s, proc[t].v) /\ UNCHANGED lock
        \/ /\ StillApplied(s, proc[t].v) /\ Renderable(p)
           /\ Take(t) /\ Becomes(t, [proc[t] EXCEPT !.pc = "call", !.tx = PolicyFiles(s, p)])
           /\ UNCHANGED policy
  /\ UNCHANGED <<accounts, rules, proxies, geo, files, backups, editor, spent>>

(* The row is marked only when what is wanted is what was applied.         *)
RefreshMark(t) ==
  /\ At(t, "refresh", "done") \/ At(t, "refresh", "failed")
  /\ Free /\ RefreshNext(t, proc[t].pc = "failed")
  /\ IF proc[t].pc = "done" THEN MarkApplied(proc[t].site, proc[t].v)
     ELSE MarkError(proc[t].site, proc[t].v)
  /\ UNCHANGED <<accounts, rules, proxies, geo, files, backups, editor, spent>>

RefreshEnded(t) == At(t, "refresh", "next") /\ proc[t].todo = {}

-----------------------------------------------------------------------------
(* What an account change would do to the policies, wanted and in force    *)
(* (CheckAccountChange): none is left without its account, nor an enabled  *)
(* account.                                                                *)
PoliciesAllow(a, new) ==
  \A s \in Sites : \A p \in PoliciesOf(s) : a \in p.users =>
    /\ new # Null
    /\ new.on \/ \E o \in p.users \ {a} : Enabled(o)
=============================================================================
