----------------------------- MODULE AccessProofs -----------------------------
(***************************************************************************)
(* Theorems about AccessControl for every value of the constants: an edit  *)
(* replaces what its editor showed, a refresh writes the policy in force,  *)
(* a policy shown as applied is the one nginx serves, the rule linked to a *)
(* proxy follows it, an update of the GeoIP database reaches every policy  *)
(* in force, and a login that was revoked is let in nowhere.               *)
(***************************************************************************)
EXTENDS AccessControl, TLAPS

-----------------------------------------------------------------------------
(* Types.                                                                  *)

Mishaps == {"lost", "adrift", "overlap", "outrun", "ahead", "taken back", "restored", "older",
            "changed", "halfway", "unknown"}
Spent   == [ops : Nat, faults : Nat, mishaps : SUBSET Mishaps]
Files   == [access : [Sites -> Access], slots : [Sites -> Slots], htpasswd : [Sites -> Logins],
            main : [Sites -> Proxy \cup {Null}]]

AccessTyped ==
  /\ policy \in [Sites -> Row \cup {Null}]
  /\ accounts \in [Accounts -> Account \cup {Null}]
  /\ rules \in [Sites -> SUBSET Accounts]
  /\ proxies \in [Sites -> Proxy \cup {Null}]
  /\ geo \in Nat
  /\ files \in Files
  /\ backups \in [Sites -> Saved \cup {Null}]
  /\ editor \in Editor \cup {Null}
  /\ lock \in Threads \cup {Null}
  /\ proc \in [Threads -> Work \cup {Null}]
  /\ spent \in Spent

-----------------------------------------------------------------------------
(* What a thread is doing: the shape of its record, by operation.          *)

Answers == {"call", "done", "failed"}
Switch  == [old : Account, new : Account]
Turn    == [old : SUBSET Accounts, new : SUBSET Accounts]

Writes(r, a, sl, m) ==
  /\ DOMAIN r.tx.access = a /\ DOMAIN r.tx.slots = sl /\ DOMAIN r.tx.main = m

WritesPolicy(r) ==
  /\ r.site \in Sites /\ r.p \in Policy
  /\ r.tx.access[r.site].kind = "policy" /\ r.tx.access[r.site].policy = r.p
  /\ r.tx.slots[r.site].policy = r.p
  /\ r.tx.htpasswd = Nothing

ApplyShape(r) ==
  /\ r.doing = "apply" /\ r.pc \in Answers
  /\ Writes(r, {r.site}, {r.site}, {}) /\ WritesPolicy(r)

ProxyShape(r) ==
  /\ r.doing = "proxy" /\ r.site \in Sites
  /\ \/ r.pc = "render" /\ r.p = Null
     \/ r.pc \in Answers /\ r.p = Null /\ Writes(r, {}, {}, {r.site}) /\ r.tx.htpasswd = Nothing
     \/ r.pc \in Answers /\ Writes(r, {r.site}, {r.site}, {r.site}) /\ WritesPolicy(r)

RefreshShape(r) ==
  /\ r.doing = "refresh"
  /\ \/ r.pc = "next"
     \/ r.pc = "lock" /\ r.site \in r.todo /\ r.p \in Policy /\ r.v > 0
     \/ /\ r.pc \in Answers /\ r.site \in r.todo /\ r.v > 0
        /\ Writes(r, {r.site}, {r.site}, {}) /\ WritesPolicy(r)

RulesShape(r) ==
  /\ r.doing = "rules" /\ r.pc \in Answers /\ r.site \in Sites
  /\ Writes(r, {r.site}, {}, {r.site}) /\ DOMAIN r.tx.htpasswd \subseteq {r.site}
  /\ r.tx.access[r.site].kind = "rules"

AccountShape(r) ==
  /\ r.account \in Accounts
  /\ \/ r.doing = "delete" /\ r.pc = ""
     \/ /\ r.row \in Switch
        /\ \/ r.doing = "write" /\ r.pc = ""
           \/ RefreshShape(r)
           \/ r.doing = "rules" /\ r.pc = "next"
           \/ RulesShape(r) /\ r.site \in r.todo

RuleShape(r) == RulesShape(r) /\ r.row \in Turn

GeoShape(r) ==
  \/ r.doing = "geo" /\ r.pc = "read"
  \/ /\ r.doing = "geo" /\ r.pc \in Answers
     /\ Writes(r, DOMAIN r.tx.access, {}, DOMAIN r.tx.access) /\ r.tx.htpasswd = Nothing
  \/ RefreshShape(r)

RestoreShape(r) ==
  /\ r.doing = "restore" /\ r.pc \in Answers /\ r.site \in Sites /\ r.row \in SUBSET Accounts
  /\ Writes(r, {r.site}, IF r.p = Null THEN {} ELSE {r.site}, {r.site}) /\ r.tx.htpasswd = Nothing

Shape(t, r) ==
  \/ t = "http" /\ r.op \in {"save", "sync"} /\ ApplyShape(r)
  \/ t = "http" /\ r.op = "proxy" /\ ProxyShape(r)
  \/ t = "http" /\ r.op = "account" /\ AccountShape(r)
  \/ t = "http" /\ r.op = "rule" /\ RuleShape(r)
  \/ t = "geo" /\ r.op = "geo" /\ GeoShape(r)
  \/ t = "backup" /\ r.op = "restore" /\ RestoreShape(r)

Shaped == \A t \in Threads : proc[t] # Null => Shape(t, proc[t])

(* Who holds the lock.                                                     *)
Holding(r) ==
  r # Null /\ (r.doing \in {"apply", "proxy", "restore"} \/ (r.doing = "refresh" /\ r.pc \in Answers))
Locked == \A t \in Threads : lock = t <=> Holding(proc[t])

(* The older policy is confirmed at some version, the newer one follows.   *)
RowOk(r) ==
  /\ r.version > 0 /\ r.at <= r.version
  /\ r.at = r.version => r.desired = r.applied
  /\ r.status = "applied" => r.at = r.version
  /\ r.mode = "unified" <=> r.at > 0
  /\ r.at > 0 => r.applied \in Policy
Rows == \A s \in Sites : policy[s] # Null => RowOk(policy[s])

(* What an open editor has seen, unless versions have started anew.        *)
Edits ==
  Without({"older"}) /\ editor # Null =>
    IF policy[editor.site] = Null THEN editor.version = 0 /\ editor.seen = Null
    ELSE /\ editor.version <= policy[editor.site].version
         /\ editor.version = policy[editor.site].version => policy[editor.site].desired = editor.seen

(* A backup with a bundle was taken of a site under its policy.            *)
Bundled ==
  \A s \in Sites : backups[s] # Null /\ backups[s].bundle # Null =>
    backups[s].bundle = backups[s].slots.policy /\ Managed(s)

(* What a thread knows of the tables, whoever else is at work.             *)
Same(p, q) == p.users = q.users /\ p.link = q.link

BoundApply(r) ==
  r.doing = "apply" =>
    policy[r.site] # Null /\ policy[r.site].version = r.v /\ Same(policy[r.site].desired, r.p)
BoundProxy(r) ==
  r.doing = "proxy" =>
    /\ r.pc = "render" => policy[r.site] = Null \/ Managed(r.site)
    /\ r.pc # "render" /\ r.p = Null => policy[r.site] = Null
    /\ r.p # Null => /\ Managed(r.site) /\ policy[r.site].version = r.v /\ policy[r.site].at < r.v
                     /\ policy[r.site].desired = r.p
BoundRefresh(r) ==
  r.doing = "refresh" /\ r.pc \in Answers => policy[r.site] # Null /\ policy[r.site].at = r.v
BoundRule(r) ==
  /\ r.op = "rule" => policy[r.site] = Null /\ (proc["backup"] # Null => proc["backup"].site # r.site)
  /\ r.doing = "rules" /\ r.pc \in Answers => ~Managed(r.site)
BoundRestore(r) ==
  r.doing = "restore" =>
    /\ backups[r.site] # Null /\ r.p = backups[r.site].bundle
    /\ r.tx.access[r.site] = backups[r.site].access /\ r.tx.main[r.site] = backups[r.site].main
    /\ r.p # Null => r.tx.slots[r.site] = backups[r.site].slots /\ r.row \subseteq r.p.users
    /\ r.p = Null => r.row = {}
Bound(r) == BoundApply(r) /\ BoundProxy(r) /\ BoundRefresh(r) /\ BoundRule(r) /\ BoundRestore(r)
Bounds == \A t \in Threads : proc[t] # Null => Bound(proc[t])

GeoStarted == proc["geo"] # Null => geo > 0

(* What a refresh has read is in force, or was before the one in force.    *)
Fresh == Without({"older"}) \/ Without({"overlap"})
Read(r) ==
  /\ r.doing = "refresh" /\ r.pc = "lock" =>
       /\ policy[r.site] # Null /\ r.v <= policy[r.site].at
       /\ policy[r.site].at = r.v => policy[r.site].applied = r.p
  /\ r.doing = "refresh" /\ r.pc \in Answers => policy[r.site].applied = r.p
Reads == Fresh => \A t \in Threads : proc[t] # Null => Read(proc[t])

AccessInv ==
  /\ AccessTyped /\ Shaped /\ Locked
  /\ Rows /\ Edits /\ Bundled /\ Bounds /\ GeoStarted /\ Reads

-----------------------------------------------------------------------------
(* Operators.                                                              *)

LEMMA QuietTyped == Quiet \in Changes /\ Nothing = [s \in {} |-> Null]
<1>1. Nothing \in Some(Access) /\ Nothing \in Some(Slots) /\ Nothing \in Some(Logins)
      /\ Nothing \in Some(Proxy \cup {Null})
  BY ZenonT(30) DEF Nothing, Some
<1>2. QED
  BY <1>1 DEF Quiet, Changes, Nothing

LEMMA OnlyTyped ==
  ASSUME NEW V, NEW s \in Sites, NEW x \in V
  PROVE  Only(s, x) \in Some(V) /\ DOMAIN Only(s, x) = {s} /\ Only(s, x)[s] = x
<1>1. {s} \in SUBSET Sites /\ Only(s, x) \in [{s} -> V]
  BY DEF Only
<1>2. [{s} -> V] \in {[d -> V] : d \in SUBSET Sites}
  BY <1>1
<1>3. Only(s, x) \in Some(V)
  BY <1>1, <1>2 DEF Some
<1>4. QED
  BY <1>3 DEF Only

LEMMA RewrittenTyped ==
  ASSUME NEW V, NEW old \in [Sites -> V], NEW new \in Some(V)
  PROVE  /\ Rewritten(new, old) \in [Sites -> V]
         /\ DOMAIN new \subseteq Sites
         /\ \A s \in Sites : Rewritten(new, old)[s] = IF s \in DOMAIN new THEN new[s] ELSE old[s]
BY DEF Some, Rewritten

LEMMA AfterTyped ==
  ASSUME AccessTyped, NEW x \in Changes
  PROVE  /\ After(x) \in Files
         /\ \A s \in Sites :
              /\ After(x).access[s] = IF s \in DOMAIN x.access THEN x.access[s] ELSE files.access[s]
              /\ After(x).slots[s] = IF s \in DOMAIN x.slots THEN x.slots[s] ELSE files.slots[s]
              /\ After(x).htpasswd[s] = IF s \in DOMAIN x.htpasswd THEN x.htpasswd[s] ELSE files.htpasswd[s]
              /\ After(x).main[s] = IF s \in DOMAIN x.main THEN x.main[s] ELSE files.main[s]
BY RewrittenTyped DEF AccessTyped, Files, Changes, After

LEMMA IdleTyped ==
  /\ Idle \in Work
  /\ Idle.op = "" /\ Idle.doing = "" /\ Idle.pc = "" /\ Idle.site = Null /\ Idle.p = Null /\ Idle.v = 0
  /\ Idle.tx = Quiet /\ Idle.todo = {} /\ Idle.errs = FALSE /\ Idle.account = Null /\ Idle.row = Null
  /\ Idle.undoing = FALSE
BY QuietTyped DEF Idle, Work

LEMMA OpenTyped == Open \in Policy
BY DEF Open, Policy

LEMMA SnapshotTyped ==
  ASSUME AccessTyped, NEW p \in Policy, Renderable(p)
  PROVE  Snapshot(p) \in Slots /\ Snapshot(p).policy = p
         /\ Snapshot(p).accounts = [a \in p.users |-> accounts[a]]
BY DEF Policy, AccessTyped, Renderable, Snapshot, Slots

(* The files of a policy.                                                  *)
LEMMA PolicyFilesTyped ==
  ASSUME AccessTyped, NEW s \in Sites, NEW p \in Policy, Renderable(p)
  PROVE  /\ PolicyFiles(s, p) \in Changes
         /\ DOMAIN PolicyFiles(s, p).access = {s} /\ DOMAIN PolicyFiles(s, p).slots = {s}
         /\ DOMAIN PolicyFiles(s, p).main = {} /\ PolicyFiles(s, p).htpasswd = Nothing
         /\ PolicyFiles(s, p).access[s].kind = "policy" /\ PolicyFiles(s, p).access[s].policy = p
         /\ PolicyFiles(s, p).access[s].geo = geo
         /\ PolicyFiles(s, p).slots[s] = Snapshot(p) /\ PolicyFiles(s, p).slots[s].policy = p
<1>1. [kind |-> "policy", policy |-> p, geo |-> geo] \in Access
  BY DEF Access, AccessTyped
<1> DEFINE a == Only(s, [kind |-> "policy", policy |-> p, geo |-> geo])
           sl == Only(s, Snapshot(p))
<1>2. /\ a \in Some(Access) /\ DOMAIN a = {s} /\ a[s] = [kind |-> "policy", policy |-> p, geo |-> geo]
  BY <1>1, OnlyTyped
<1>3. /\ sl \in Some(Slots) /\ DOMAIN sl = {s} /\ sl[s] = Snapshot(p)
  BY SnapshotTyped, OnlyTyped, ZenonT(30)
<1> HIDE DEF a, sl
<1>4. PolicyFiles(s, p) = [Quiet EXCEPT !.access = a, !.slots = sl]
  BY DEF PolicyFiles, a, sl
<1>5. Quiet \in Changes /\ Quiet.main = Nothing /\ Quiet.htpasswd = Nothing
  BY QuietTyped DEF Quiet
<1>6. /\ PolicyFiles(s, p) \in Changes /\ PolicyFiles(s, p).access = a /\ PolicyFiles(s, p).slots = sl
      /\ PolicyFiles(s, p).main = Nothing /\ PolicyFiles(s, p).htpasswd = Nothing
  BY <1>2, <1>3, <1>4, <1>5 DEF Changes
<1>7. Snapshot(p).policy = p
  BY SnapshotTyped
<1>8. DOMAIN Nothing = {}
  BY QuietTyped
<1> HIDE DEF a, sl
<1>9. QED
  BY <1>2, <1>3, <1>6, <1>7, <1>8

(* The files of the older rules.                                           *)
LEMMA RulesFilesTyped ==
  ASSUME AccessTyped, NEW s \in Sites, NEW users \in SUBSET Accounts
  PROVE  /\ RulesFiles(s, users) \in Changes
         /\ DOMAIN RulesFiles(s, users).access = {s} /\ RulesFiles(s, users).slots = Nothing
         /\ DOMAIN RulesFiles(s, users).main = {s} /\ RulesFiles(s, users).htpasswd = Nothing
         /\ RulesFiles(s, users).access[s].kind = "rules"
         /\ RulesFiles(s, users).access[s].policy.users = users
         /\ RulesFiles(s, users).main[s] = files.main[s]
<1>0. PICK p : p = [Open EXCEPT !.users = users]
  OBVIOUS
<1>1. p \in Policy /\ p.users = users
  BY <1>0, OpenTyped DEF Policy
<1>2. [kind |-> "rules", policy |-> p, geo |-> geo] \in Access
  BY <1>1 DEF Access, AccessTyped
<1>3. PICK x \in Proxy \cup {Null} : x = files.main[s]
  BY DEF AccessTyped, Files
<1> DEFINE a == Only(s, [kind |-> "rules", policy |-> p, geo |-> geo])
           m == Only(s, x)
<1>4. /\ a \in Some(Access) /\ DOMAIN a = {s} /\ a[s] = [kind |-> "rules", policy |-> p, geo |-> geo]
  BY <1>2, OnlyTyped
<1>5. /\ m \in Some(Proxy \cup {Null}) /\ DOMAIN m = {s} /\ m[s] = x
  <2>1. PICK V : V = Proxy \cup {Null} /\ x \in V
    BY <1>3
  <2>2. x \in V
    BY <2>1
  <2>3. Only(s, x) \in Some(V) /\ DOMAIN Only(s, x) = {s} /\ Only(s, x)[s] = x
    BY <2>2, OnlyTyped
  <2>4. QED
    BY <2>1, <2>3
<1> HIDE DEF a, m
<1>6. RulesFiles(s, users) = [Quiet EXCEPT !.access = a, !.main = m]
  BY <1>0, <1>3 DEF RulesFiles, a, m
<1>7. Quiet \in Changes /\ Quiet.slots = Nothing /\ Quiet.htpasswd = Nothing
  BY QuietTyped DEF Quiet
<1>8. /\ RulesFiles(s, users) \in Changes /\ RulesFiles(s, users).access = a /\ RulesFiles(s, users).main = m
      /\ RulesFiles(s, users).slots = Nothing /\ RulesFiles(s, users).htpasswd = Nothing
  BY <1>4, <1>5, <1>6, <1>7 DEF Changes
<1>9. QED
  BY <1>1, <1>3, <1>4, <1>5, <1>8

LEMMA AdmittedTyped ==
  ASSUME AccessTyped, NEW users \in SUBSET Accounts
  PROVE  /\ Admitted(users) \in Logins
         /\ \A c \in Admitted(users) : /\ c[1] \in users /\ Enabled(c[1]) /\ accounts[c[1]].pw = c[2]
BY DEF AccessTyped, Enabled, Admitted, Logins, Account

(* The bounds are only ever used up.                                       *)
Grows == spent' \in Spent /\ spent.mishaps \subseteq spent'.mishaps

LEMMA BeginGrows == ASSUME AccessTyped, NEW t \in Threads, Begin(t) PROVE Grows /\ spent'.mishaps = spent.mishaps
BY DEF AccessTyped, Spent, Begin, Grows

LEMMA FaultGrows == ASSUME AccessTyped, Fault PROVE Grows /\ spent'.mishaps = spent.mishaps
BY DEF AccessTyped, Spent, Fault, Grows

LEMMA LostGrows == ASSUME AccessTyped, Lost PROVE Grows /\ "lost" \in spent'.mishaps
<1>1. PICK n \in Nat : n = spent.faults + 1
  BY DEF AccessTyped, Spent
<1>2. PICK m \in SUBSET Mishaps : m = spent.mishaps \cup {"lost"}
  BY DEF AccessTyped, Spent, Mishaps
<1>3. spent' = [spent EXCEPT !.faults = n, !.mishaps = m]
  BY <1>1, <1>2 DEF Lost
<1>4. QED
  BY <1>1, <1>2, <1>3 DEF Grows, AccessTyped, Spent

LEMMA StrandGrows == ASSUME AccessTyped, Strand PROVE Grows /\ "ahead" \in spent'.mishaps
<1>1. PICK n \in Nat : n = spent.faults + 1
  BY DEF AccessTyped, Spent
<1>2. PICK m \in SUBSET Mishaps : m = spent.mishaps \cup {"ahead"}
  BY DEF AccessTyped, Spent, Mishaps
<1>3. spent' = [spent EXCEPT !.faults = n, !.mishaps = m]
  BY <1>1, <1>2 DEF Strand
<1>4. QED
  BY <1>1, <1>2, <1>3 DEF Grows, AccessTyped, Spent

LEMMA NoteGrows ==
  ASSUME AccessTyped, NEW m \in Mishaps, NEW b \in BOOLEAN, Note(m, b)
  PROVE  Grows /\ (b => m \in spent'.mishaps) /\ (~b => spent'.mishaps = spent.mishaps)
BY DEF AccessTyped, Spent, Note, Grows

LEMMA StillGrows == ASSUME AccessTyped, UNCHANGED spent PROVE Grows /\ spent'.mishaps = spent.mishaps
BY DEF Grows, AccessTyped

(* What has not gone wrong had not gone wrong before.                      *)
LEMMA WithoutBack == ASSUME Grows, NEW m, Without(m)' PROVE Without(m)
BY DEF Grows, Without

-----------------------------------------------------------------------------
(* Steps of one thread.                                                    *)

LockGoes(t, q) ==
  /\ Holding(q) => lock' = t /\ lock \in {Null, t}
  /\ ~Holding(q) => lock' = IF lock = t THEN Null ELSE lock

Steps(t, q) ==
  /\ q \in Work \cup {Null} /\ proc' = [proc EXCEPT ![t] = q]
  /\ q # Null => Shape(t, q)
  /\ LockGoes(t, q)

LEMMA NullIsNone ==
  /\ Null \notin Threads /\ Null \notin Sites /\ Null \notin Accounts /\ Null \notin Policy /\ Null \notin Proxy
  /\ Null \notin Account /\ Null \notin Row /\ Null \notin Saved /\ Null \notin Editor /\ Null \notin Work
BY AccessAssumption

LEMMA ThreadStep ==
  ASSUME AccessTyped, Shaped, Locked, NEW t \in Threads, NEW q, Steps(t, q)
  PROVE  /\ proc' \in [Threads -> Work \cup {Null}] /\ lock' \in Threads \cup {Null}
         /\ Shaped' /\ Locked'
         /\ proc'[t] = q /\ \A u \in Threads \ {t} : proc'[u] = proc[u]
<1>1. proc \in [Threads -> Work \cup {Null}] /\ lock \in Threads \cup {Null}
  BY DEF AccessTyped
<1>2. /\ proc' \in [Threads -> Work \cup {Null}] /\ proc'[t] = q
      /\ \A u \in Threads \ {t} : proc'[u] = proc[u]
  BY <1>1 DEF Steps
<1>3. lock' \in Threads \cup {Null}
  BY <1>1 DEF Steps, LockGoes
<1>4. \A u \in Threads : proc'[u] # Null => Shape(u, proc'[u])
  BY <1>2 DEF Steps, Shaped
<1>5. \A u \in Threads : lock' = u <=> Holding(proc'[u])
  <2> SUFFICES ASSUME NEW u \in Threads PROVE lock' = u <=> Holding(proc'[u])
    OBVIOUS
  <2>1. CASE u = t
    BY <2>1, <1>2, NullIsNone DEF Steps, LockGoes
  <2>2. CASE u # t
    BY <2>2, <1>2, NullIsNone DEF Locked, Steps, LockGoes
  <2>3. QED
    BY <2>1, <2>2
<1>6. Shaped'
  BY <1>4 DEF Shaped, Shape, ApplyShape, ProxyShape, AccountShape, RuleShape, GeoShape, RestoreShape,
     RefreshShape, RulesShape, Writes, WritesPolicy
<1>7. Locked'
  BY <1>5 DEF Locked, Holding
<1>8. QED
  BY <1>2, <1>3, <1>6, <1>7

(* Threads have their own operations.                                      *)
LEMMA ThreadOps ==
  ASSUME NEW t \in Threads, NEW r, Shape(t, r)
  PROVE  /\ t = "http" <=> r.op \in {"save", "sync", "proxy", "account", "rule"}
         /\ t = "geo" <=> r.op = "geo"
         /\ t = "backup" <=> r.op = "restore"
         /\ r.doing = "apply" <=> r.op \in {"save", "sync"}
         /\ r.doing = "proxy" <=> r.op = "proxy"
         /\ r.doing \in {"write", "delete"} => r.op = "account"
         /\ r.doing = "refresh" => r.op \in {"account", "geo"}
         /\ r.doing = "rules" => r.op \in {"account", "rule"}
         /\ r.op = "rule" => r.doing = "rules"
         /\ r.doing = "geo" => r.op = "geo"
         /\ r.doing = "restore" <=> r.op = "restore"
<1>1. CASE t = "http" /\ r.op \in {"save", "sync"} /\ ApplyShape(r)
  BY <1>1 DEF ApplyShape
<1>2. CASE t = "http" /\ r.op = "proxy" /\ ProxyShape(r)
  BY <1>2 DEF ProxyShape
<1>3. CASE t = "http" /\ r.op = "account" /\ AccountShape(r)
  BY <1>3 DEF AccountShape, RefreshShape, RulesShape
<1>4. CASE t = "http" /\ r.op = "rule" /\ RuleShape(r)
  BY <1>4 DEF RuleShape, RulesShape
<1>5. CASE t = "geo" /\ r.op = "geo" /\ GeoShape(r)
  BY <1>5 DEF GeoShape, RefreshShape
<1>6. CASE t = "backup" /\ r.op = "restore" /\ RestoreShape(r)
  BY <1>6 DEF RestoreShape
<1>7. QED
  BY <1>1, <1>2, <1>3, <1>4, <1>5, <1>6 DEF Shape

(* The shape of a refresh, of older rules and of the rest, by what is done. *)
LEMMA ShapeBack ==
  ASSUME NEW t \in Threads, NEW r, Shape(t, r)
  PROVE  /\ r.doing = "apply" => ApplyShape(r)
         /\ r.doing = "proxy" => ProxyShape(r)
         /\ r.doing = "refresh" => RefreshShape(r)
         /\ r.op = "account" => AccountShape(r)
         /\ r.op = "rule" => RuleShape(r)
         /\ r.doing = "rules" /\ r.pc # "next" => RulesShape(r)
         /\ r.op = "geo" => GeoShape(r)
         /\ r.doing = "restore" => RestoreShape(r)
<1>1. CASE t = "http" /\ r.op \in {"save", "sync"} /\ ApplyShape(r)
  BY <1>1 DEF ApplyShape
<1>2. CASE t = "http" /\ r.op = "proxy" /\ ProxyShape(r)
  BY <1>2 DEF ProxyShape
<1>3. CASE t = "http" /\ r.op = "account" /\ AccountShape(r)
  BY <1>3 DEF AccountShape, RefreshShape, RulesShape
<1>4. CASE t = "http" /\ r.op = "rule" /\ RuleShape(r)
  BY <1>4 DEF RuleShape, RulesShape
<1>5. CASE t = "geo" /\ r.op = "geo" /\ GeoShape(r)
  BY <1>5 DEF GeoShape, RefreshShape
<1>6. CASE t = "backup" /\ r.op = "restore" /\ RestoreShape(r)
  BY <1>6 DEF RestoreShape
<1>7. QED
  BY <1>1, <1>2, <1>3, <1>4, <1>5, <1>6 DEF Shape

(* A thread at work on a site has one.                                     *)
LEMMA SiteOf ==
  ASSUME NEW t \in Threads, NEW r \in Work, Shape(t, r),
         \/ r.doing \in {"apply", "proxy", "restore"} \/ r.op = "rule"
         \/ r.doing = "refresh" /\ r.pc # "next"
         \/ r.doing = "rules" /\ r.pc # "next"
  PROVE  r.site \in Sites
BY ShapeBack DEF Work, ApplyShape, WritesPolicy, ProxyShape, RestoreShape, RuleShape, RulesShape,
   RefreshShape

(* The answer to a call keeps the shape.                                   *)
LEMMA Answered ==
  ASSUME NEW t \in Threads, NEW r \in Work, Shape(t, r), r.pc = "call",
         NEW x \in {"done", "failed"}, NEW q, q = [r EXCEPT !.pc = x]
  PROVE  /\ q \in Work /\ Shape(t, q)
         /\ q.op = r.op /\ q.doing = r.doing /\ q.pc = x /\ q.site = r.site /\ q.p = r.p /\ q.v = r.v
         /\ q.tx = r.tx /\ q.todo = r.todo /\ q.errs = r.errs /\ q.account = r.account /\ q.row = r.row
         /\ q.undoing = r.undoing
         /\ Holding(q) <=> Holding(r)
<1>1. q \in Work
  BY DEF Work
<1>2. /\ q.op = r.op /\ q.doing = r.doing /\ q.pc = x /\ q.site = r.site /\ q.p = r.p /\ q.v = r.v
      /\ q.tx = r.tx /\ q.todo = r.todo /\ q.errs = r.errs /\ q.account = r.account /\ q.row = r.row
      /\ q.undoing = r.undoing
  BY DEF Work
<1>3. q # Null /\ r # Null
  BY <1>1, NullIsNone
<1>4. Holding(q) <=> Holding(r)
  BY <1>2, <1>3 DEF Holding, Answers
<1>5. Shape(t, q)
  <2>1. CASE t = "http" /\ r.op \in {"save", "sync"} /\ ApplyShape(r)
    BY <2>1, <1>2 DEF ApplyShape, Answers, Writes, WritesPolicy, Shape
  <2>2. CASE t = "http" /\ r.op = "proxy" /\ ProxyShape(r)
    BY <2>2, <1>2 DEF ProxyShape, Answers, Writes, WritesPolicy, Shape
  <2>3. CASE t = "http" /\ r.op = "account" /\ AccountShape(r)
    BY <2>3, <1>2 DEF AccountShape, RefreshShape, RulesShape, Answers, Writes, WritesPolicy, Shape
  <2>4. CASE t = "http" /\ r.op = "rule" /\ RuleShape(r)
    BY <2>4, <1>2 DEF RuleShape, RulesShape, Answers, Writes, Shape
  <2>5. CASE t = "geo" /\ r.op = "geo" /\ GeoShape(r)
    BY <2>5, <1>2 DEF GeoShape, RefreshShape, Answers, Writes, WritesPolicy, Shape
  <2>6. CASE t = "backup" /\ r.op = "restore" /\ RestoreShape(r)
    BY <2>6, <1>2 DEF RestoreShape, Answers, Writes, Shape
  <2>7. QED
    BY <2>1, <2>2, <2>3, <2>4, <2>5, <2>6 DEF Shape
<1>6. QED
  BY <1>1, <1>2, <1>4, <1>5

-----------------------------------------------------------------------------
(* What a step keeps of the rest.                                          *)

OtherTables ==
  /\ accounts' \in [Accounts -> Account \cup {Null}] /\ rules' \in [Sites -> SUBSET Accounts]
  /\ proxies' \in [Sites -> Proxy \cup {Null}] /\ geo' \in Nat
  /\ files' \in Files /\ (proc'["geo"] # Null => geo' > 0)

LEMMA SameTables ==
  ASSUME AccessInv, UNCHANGED <<accounts, rules, proxies, geo, files>>,
         proc'["geo"] # Null => proc["geo"] # Null
  PROVE  OtherTables
BY DEF AccessInv, AccessTyped, GeoStarted, OtherTables

(* Nothing of the policies, the backups and the editor changes.            *)
LEMMA QuietStep ==
  ASSUME AccessInv, NEW t \in Threads, NEW q, Steps(t, q), Grows, OtherTables,
         UNCHANGED <<policy, backups, editor>>,
         q # Null => Bound(q)' /\ (Fresh => Read(q)'),
         t = "backup" /\ q # Null => ~RuleWriting(q.site)
  PROVE  AccessInv'
<1>1. /\ proc' \in [Threads -> Work \cup {Null}] /\ lock' \in Threads \cup {Null}
      /\ Shaped' /\ Locked'
      /\ proc'[t] = q /\ \A u \in Threads \ {t} : proc'[u] = proc[u]
  BY ThreadStep DEF AccessInv
<1>2. AccessTyped'
  BY <1>1 DEF AccessInv, AccessTyped, OtherTables, Grows
<1>3. Rows'
  BY DEF AccessInv, Rows, RowOk
<1>4. Edits'
  BY WithoutBack DEF AccessInv, Edits
<1>5. Bundled'
  BY DEF AccessInv, Bundled, Managed
<1>6. Bounds'
  <2> SUFFICES ASSUME NEW u \in Threads, proc'[u] # Null PROVE Bound(proc[u])' /\ TRUE
    BY DEF Bounds
  <2>1. CASE u = t
    BY <2>1, <1>1
  <2>2. CASE u # t
    <3>1. proc'[u] = proc[u] /\ proc[u] # Null /\ Bound(proc[u])
      BY <2>2, <1>1 DEF AccessInv, Bounds
    <3>2. PICK r : r = proc[u]
      OBVIOUS
    <3>3. Bound(r)
      BY <3>1, <3>2
    <3>4. r.op = "rule" => (proc'["backup"] # Null => proc'["backup"].site # r.site)
      <4>1. CASE t = "backup"
        BY <2>2, <4>1, <3>1, <3>2, ThreadOps, <1>1 DEF Threads, AccessInv, Shaped, RuleWriting
      <4>2. CASE t # "backup"
        BY <4>2, <3>3, <1>1 DEF Bound, BoundRule, Threads
      <4>3. QED
        BY <4>1, <4>2
    <3>5. Bound(r)'
      BY <3>3, <3>4 DEF Bound, BoundApply, BoundProxy, BoundRefresh, BoundRule, BoundRestore, Managed
    <3>6. QED
      BY <3>1, <3>2, <3>5
  <2>3. QED
    BY <2>1, <2>2
<1>7. GeoStarted'
  BY DEF OtherTables, GeoStarted
<1>8. Reads'
  BY WithoutBack, <1>1 DEF Reads, Fresh, AccessInv, Read
<1>9. QED
  BY <1>1, <1>2, <1>3, <1>4, <1>5, <1>6, <1>7, <1>8 DEF AccessInv

(* A row is marked: its version and what is wanted stay.                   *)
Onward(s) ==
  /\ policy'[s] = Null <=> policy[s] = Null
  /\ policy[s] # Null =>
       /\ policy'[s].version = policy[s].version /\ policy'[s].desired = policy[s].desired
       /\ policy'[s].fromProxy = policy[s].fromProxy
       /\ policy[s].at <= policy'[s].at
       /\ policy'[s].at = policy[s].at /\ policy[s].at > 0 => policy'[s].applied = policy[s].applied
       /\ Managed(s) => Managed(s)'
Standing(s) ==
  policy[s] # Null => /\ policy'[s].at = policy[s].at /\ policy'[s].applied = policy[s].applied
                      /\ policy'[s].mode = policy[s].mode
Marks == policy' \in [Sites -> Row \cup {Null}] /\ Rows' /\ \A s \in Sites : Onward(s)

LEMMA RowFields ==
  ASSUME NEW r \in Row
  PROVE  /\ r.mode \in {"legacy", "unified"} /\ r.version \in Nat /\ r.desired \in Policy
         /\ r.applied \in Policy \cup {Null} /\ r.at \in Nat /\ r.status \in {"pending", "applied", "error"}
         /\ r.fromProxy \in BOOLEAN /\ r # Null
BY NullIsNone DEF Row

LEMMA MarkErrorMarks ==
  ASSUME AccessTyped, Rows, NEW s \in Sites, NEW v, MarkError(s, v)
  PROVE  Marks /\ \A r \in Sites : Standing(r) /\ (policy'[r].status = "applied" => policy'[r] = policy[r])
<1>1. CASE policy' = policy
  BY <1>1, RowFields DEF Marks, Onward, Standing, Managed, AccessTyped, Rows, RowOk
<1>2. CASE policy[s] # Null /\ policy' = [policy EXCEPT ![s].status = "error"]
  <2>1. PICK old \in Row : old = policy[s]
    BY <1>2 DEF AccessTyped
  <2>2. PICK new : new = [old EXCEPT !.status = "error"]
    OBVIOUS
  <2>3. /\ new \in Row /\ new.mode = old.mode /\ new.version = old.version /\ new.desired = old.desired
        /\ new.applied = old.applied /\ new.at = old.at /\ new.status = "error" /\ new.fromProxy = old.fromProxy
    BY <2>2 DEF Row
  <2>4. policy' = [policy EXCEPT ![s] = new]
    BY <1>2, <2>1, <2>2
  <2>5. /\ policy' \in [Sites -> Row \cup {Null}] /\ policy'[s] = new
        /\ \A r \in Sites \ {s} : policy'[r] = policy[r]
    BY <2>3, <2>4 DEF AccessTyped
  <2>6. RowOk(old) /\ RowOk(new)
    BY <1>2, <2>1, <2>3 DEF Rows, RowOk
  <2>7. Rows'
    BY <2>5, <2>6 DEF Rows, RowOk
  <2>8. \A r \in Sites : Onward(r) /\ Standing(r)
    <3> TAKE r \in Sites
    <3>1. CASE r = s
      BY <3>1, <1>2, <2>1, <2>3, <2>5, RowFields DEF Onward, Standing, Managed
    <3>2. CASE r # s
      BY <3>2, <2>5, RowFields DEF Onward, Standing, Managed, AccessTyped
    <3>3. QED
      BY <3>1, <3>2
  <2>9. \A r \in Sites : policy'[r].status = "applied" => policy'[r] = policy[r]
    BY <2>3, <2>5
  <2>10. QED
    BY <2>5, <2>7, <2>8, <2>9 DEF Marks
<1>3. QED
  BY <1>1, <1>2 DEF MarkError

LEMMA MarkAppliedMarks ==
  ASSUME AccessTyped, Rows, NEW s \in Sites, NEW v, MarkApplied(s, v)
  PROVE  /\ Marks
         /\ \A r \in Sites \ {s} : policy'[r] = policy[r] /\ Standing(r)
         /\ Managed(s)' => policy[s] # Null /\ (Managed(s) \/ policy[s].version = v)
         /\ policy' = policy \/
              (policy[s] # Null /\ policy[s].version = v /\ policy'[s].status = "applied" /\ policy'[s].at = v
                 /\ policy'[s].applied = policy[s].desired /\ Managed(s)')
<1>1. CASE policy' = policy
  BY <1>1, RowFields DEF Marks, Onward, Standing, Managed, AccessTyped, Rows, RowOk
<1>2. CASE /\ policy[s] # Null /\ policy[s].version = v
           /\ policy' = [policy EXCEPT ![s].mode = "unified", ![s].applied = policy[s].desired,
                           ![s].at = v, ![s].status = "applied"]
  <2>1. PICK old \in Row : old = policy[s]
    BY <1>2 DEF AccessTyped
  <2>2. PICK new : new = [old EXCEPT !.mode = "unified", !.applied = old.desired, !.at = v, !.status = "applied"]
    OBVIOUS
  <2>3. v \in Nat /\ v = old.version /\ old.desired \in Policy
    BY <1>2, <2>1, RowFields
  <2>4. /\ new \in Row /\ new.mode = "unified" /\ new.version = old.version /\ new.desired = old.desired
        /\ new.applied = old.desired /\ new.at = v /\ new.status = "applied" /\ new.fromProxy = old.fromProxy
    BY <2>2, <2>3 DEF Row
  <2>5. policy' = [policy EXCEPT ![s] = new]
    BY <1>2, <2>1, <2>2 DEF AccessTyped
  <2>6. /\ policy' \in [Sites -> Row \cup {Null}] /\ policy'[s] = new
        /\ \A r \in Sites \ {s} : policy'[r] = policy[r]
    BY <2>4, <2>5 DEF AccessTyped
  <2>7. RowOk(old)
    BY <1>2, <2>1 DEF Rows
  <2>8. RowOk(new)
    BY <2>3, <2>4, <2>7, RowFields DEF RowOk
  <2>9. Rows'
    BY <2>6, <2>8 DEF Rows, RowOk
  <2>10. \A r \in Sites \ {s} : Onward(r) /\ Standing(r)
    BY <2>6, RowFields DEF Onward, Standing, Managed, AccessTyped
  <2>11. Onward(s) /\ Managed(s)'
    BY <1>2, <2>1, <2>3, <2>4, <2>6, <2>7, RowFields DEF Onward, Managed, RowOk
  <2>12. QED
    BY <1>2, <2>4, <2>6, <2>9, <2>10, <2>11, <2>1, <2>3 DEF Marks
<1>3. QED
  BY <1>1, <1>2 DEF MarkApplied

LEMMA OnwardEdits ==
  ASSUME AccessInv, Marks, UNCHANGED <<editor, backups>>, Grows
  PROVE  Edits' /\ Bundled'
BY WithoutBack DEF Marks, AccessInv, AccessTyped, Editor, Edits, Onward, Bundled, Managed

LEMMA OnwardStep ==
  ASSUME AccessInv, NEW t \in Threads, NEW q, Steps(t, q), Grows,
         UNCHANGED <<accounts, rules, proxies, geo, files, backups, editor>>,
         Marks, lock = t \/ \A s \in Sites : Standing(s),
         t = "http" \/ \A s \in Sites : Managed(s)' => Managed(s),
         q # Null => proc[t] # Null, t = "backup" => q = Null,
         q # Null => q.doing = "refresh" /\ q.pc = "next"
  PROVE  AccessInv'
<1>1. /\ proc' \in [Threads -> Work \cup {Null}] /\ lock' \in Threads \cup {Null}
      /\ Shaped' /\ Locked'
      /\ proc'[t] = q /\ \A u \in Threads \ {t} : proc'[u] = proc[u]
  BY ThreadStep DEF AccessInv
<1>2. proc'["geo"] # Null => proc["geo"] # Null
  BY <1>1 DEF Threads
<1>3. AccessTyped'
  BY <1>1 DEF AccessInv, AccessTyped, Marks, Grows
<1>4. Edits' /\ Bundled' /\ Rows'
  BY OnwardEdits DEF Marks
<1>5. GeoStarted'
  BY <1>2 DEF AccessInv, GeoStarted
<1>6. \A s \in Sites : Onward(s)
  BY DEF Marks
<1>7. ASSUME NEW u \in Threads \ {t}, proc[u] # Null
      PROVE  Bound(proc[u])' /\ (Fresh => Read(proc[u])')
  <2>1. PICK r \in Work : r = proc[u]
    BY <1>7 DEF AccessInv, AccessTyped
  <2>2. Shape(u, r) /\ Bound(r) /\ (Fresh => Read(r)) /\ (lock = u <=> Holding(r)) /\ r # Null
    BY <1>7, <2>1 DEF AccessInv, Shaped, Bounds, Reads, Locked
  <2>3. u # "http" => ~(r.doing = "rules") /\ r.op # "rule"
    BY <2>2, ThreadOps
  <2>4. CASE lock = t
    <3>1. ~Holding(r)
      BY <2>2, <2>4
    <3>2. r.doing \notin {"apply", "proxy", "restore"} /\ (r.doing = "refresh" => r.pc \notin Answers)
      BY <2>2, <3>1 DEF Holding
    <3>3. r.op = "rule" \/ (r.doing = "rules" /\ r.pc \in Answers) \/ (r.doing = "refresh" /\ r.pc = "lock") =>
            r.site \in Sites
      BY <2>2, SiteOf DEF Answers
    <3>4. r.op = "rule" => policy'[r.site] = Null /\ (proc'["backup"] # Null => proc'["backup"].site # r.site)
      BY <2>2, <3>3, <1>6, <1>1 DEF Bound, BoundRule, Onward, Threads
    <3>5. r.doing = "rules" /\ r.pc \in Answers => ~Managed(r.site)'
      BY <2>2, <2>3, <3>3 DEF Bound, BoundRule
    <3>6. Bound(r)'
      BY <3>2, <3>4, <3>5 DEF Bound, BoundApply, BoundProxy, BoundRefresh, BoundRule, BoundRestore
    <3>7. Fresh => Read(r)'
      <4>1. CASE r.doing = "refresh" /\ r.pc = "lock"
        <5>1. r.site \in Sites /\ r.v \in Nat /\ r.v > 0
          BY <3>3, <4>1, <2>2, ShapeBack DEF RefreshShape, Work, Answers
        <5>2. Fresh => policy[r.site] \in Row
          BY <5>1, <4>1, <2>2 DEF Read, AccessInv, AccessTyped
        <5>3. policy'[r.site] \in Row \cup {Null}
          BY <5>1, <1>3 DEF AccessTyped
        <5>4. QED
          BY <5>1, <5>2, <5>3, <4>1, <2>2, <1>6, RowFields DEF Read, Onward, Answers
      <4>2. CASE ~(r.doing = "refresh" /\ r.pc = "lock")
        BY <4>2, <3>2 DEF Read
      <4>3. QED
        BY <4>1, <4>2
    <3>8. r = proc'[u]
      BY <1>1, <2>1
    <3>9. QED
      BY <3>6, <3>7, <3>8
  <2>5. CASE \A s \in Sites : Standing(s)
    <3>1. /\ r.doing \in {"apply", "proxy", "restore"} \/ r.op = "rule" => r.site \in Sites
          /\ r.doing \in {"refresh", "rules"} /\ r.pc # "next" => r.site \in Sites
      BY <2>2, SiteOf
    <3>2. r.site \in Sites => Onward(r.site) /\ Standing(r.site) /\ (Managed(r.site)' <=> Managed(r.site))
      BY <2>5, <1>6 DEF Managed, Standing, Onward
    <3>3. BoundApply(r)' /\ BoundRefresh(r)'
      BY <2>2, <3>1, <3>2 DEF Bound, BoundApply, BoundRefresh, Onward, Standing, Answers
    <3>4. BoundProxy(r)'
      BY <2>2, <3>1, <3>2 DEF Bound, BoundProxy, Onward, Standing, Managed
    <3>5. BoundRule(r)'
      BY <2>2, <1>1, <3>1, <3>2 DEF Bound, BoundRule, Threads, Onward, Answers
    <3>6. BoundRestore(r)'
      BY <2>2 DEF Bound, BoundRestore
    <3>7. Fresh => Read(r)'
      BY <2>2, <3>1, <3>2 DEF Read, Onward, Standing, Answers
    <3>8. Bound(r)'
      BY <3>3, <3>4, <3>5, <3>6 DEF Bound
    <3>9. r = proc'[u]
      BY <1>1, <2>1
    <3>10. QED
      BY <3>7, <3>8, <3>9
  <2>6. QED
    BY <2>4, <2>5
<1>8. q # Null => Bound(q)' /\ Read(q)'
  <2>1. q # Null => Shape(t, q)
    BY DEF Steps
  <2>2. q # Null => q.op # "rule"
    BY <2>1, ThreadOps
  <2>3. QED
    BY <2>2 DEF Bound, BoundApply, BoundProxy, BoundRefresh, BoundRule, BoundRestore, Read, Answers
<1>9. Bounds'
  BY <1>1, <1>7, <1>8 DEF Bounds
<1>10. Reads'
  BY WithoutBack, <1>1, <1>7, <1>8 DEF Fresh, Reads
<1>11. QED
  BY <1>1, <1>3, <1>4, <1>5, <1>9, <1>10 DEF AccessInv

LEMMA Actor ==
  ASSUME AccessInv, NEW t \in Threads, proc[t] # Null
  PROVE  /\ proc[t] \in Work /\ Shape(t, proc[t]) /\ Bound(proc[t]) /\ (Fresh => Read(proc[t]))
         /\ (lock = t <=> Holding(proc[t]))
         /\ proc[t].todo \in SUBSET Sites /\ proc[t].errs \in BOOLEAN /\ proc[t].tx \in Changes
         /\ proc[t].site \in Sites \cup {Null} /\ proc[t].p \in Policy \cup {Null} /\ proc[t].v \in Nat
BY DEF AccessInv, AccessTyped, Shaped, Bounds, Reads, Locked, Work

(* The step of a thread that goes on at the same place keeps what it knows. *)
LEMMA SameBound ==
  ASSUME NEW r, NEW q, Bound(r), q.op = r.op, q.doing = r.doing, q.site = r.site, q.p = r.p, q.v = r.v,
         q.tx = r.tx, q.row = r.row,
         r.pc \in Answers, q.pc \in Answers,
         UNCHANGED <<policy, backups>>, r.op = "rule" => proc'["backup"] = proc["backup"]
  PROVE  Bound(q)' /\ (Read(r) => Read(q)')
<1>1. BoundApply(q)' /\ BoundRefresh(q)'
  BY DEF Bound, BoundApply, BoundRefresh
<1>2. BoundProxy(q)'
  BY DEF Bound, BoundProxy, Managed, Answers
<1>3. BoundRule(q)'
  BY DEF Bound, BoundRule, Managed
<1>4. BoundRestore(q)'
  BY DEF Bound, BoundRestore
<1>5. Read(r) => Read(q)'
  BY DEF Read, Answers
<1>6. QED
  BY <1>1, <1>2, <1>3, <1>4, <1>5 DEF Bound

(* A rule is written where nothing is restored.                            *)
LEMMA RuleApart ==
  ASSUME AccessInv, proc["backup"] # Null
  PROVE  ~RuleWriting(proc["backup"].site)
BY DEF AccessInv, Bounds, Bound, BoundRule, RuleWriting, Threads

(* What a call leaves.                                                     *)
CallTo(t, x) ==
  /\ proc[t] # Null /\ proc[t].pc = "call" /\ proc' = [proc EXCEPT ![t] = [proc[t] EXCEPT !.pc = x]]
  /\ files' \in {files, After(proc[t].tx)}
  /\ x = "done" => files' = After(proc[t].tx)
  /\ Grows

LEMMA CallCases ==
  ASSUME AccessInv, NEW t \in Threads, Call(t)
  PROVE  /\ UNCHANGED <<tables, backups, editor, lock>>
         /\ CallTo(t, "done") \/ CallTo(t, "failed")
         /\ CallTo(t, "done") \/ files' = files \/ "lost" \in spent'.mishaps
         /\ Overwrites(t) => ~CallTo(t, "done") \/ "overlap" \in spent'.mishaps
<1>0. AccessTyped
  BY DEF AccessInv
<1>1. CASE /\ files' = After(proc[t].tx) /\ Becomes(t, [proc[t] EXCEPT !.pc = "done"])
           /\ Note("overlap", Overwrites(t))
  BY <1>0, <1>1, NoteGrows DEF Overwrites, Mishaps, Call, CallTo, Becomes
<1>2. CASE Fault /\ Becomes(t, [proc[t] EXCEPT !.pc = "failed"]) /\ UNCHANGED files
  <2>1. CallTo(t, "failed")
    BY <1>0, <1>2, FaultGrows DEF Call, CallTo, Becomes
  <2>2. CallTo(t, "done") => FALSE
    BY <1>0, <1>2 DEF AccessTyped, CallTo, Becomes, Work
  <2>3. QED
    BY <1>2, <2>1, <2>2 DEF Call
<1>3. CASE Lost /\ Becomes(t, [proc[t] EXCEPT !.pc = "failed"]) /\ files' = After(proc[t].tx)
  <2>1. CallTo(t, "failed") /\ "lost" \in spent'.mishaps
    BY <1>0, <1>3, LostGrows DEF Call, CallTo, Becomes
  <2>2. CallTo(t, "done") => FALSE
    BY <1>0, <1>3 DEF AccessTyped, CallTo, Becomes, Work
  <2>3. QED
    BY <1>3, <2>1, <2>2 DEF Call
<1>4. QED
  BY <1>1, <1>2, <1>3 DEF Call

LEMMA CallInv == ASSUME AccessInv, NEW t \in Threads, Call(t) PROVE AccessInv'
<1>1. PICK x \in {"done", "failed"} : CallTo(t, x)
  BY CallCases
<1>2. UNCHANGED <<tables, backups, editor, lock>>
  BY CallCases
<1>3. PICK r \in Work : r = proc[t]
  BY <1>1, Actor DEF CallTo
<1>4. /\ r # Null /\ r.pc = "call" /\ Shape(t, r) /\ Bound(r) /\ (Fresh => Read(r)) /\ (lock = t <=> Holding(r))
      /\ r.tx \in Changes
  BY <1>1, <1>3, Actor DEF CallTo
<1>5. PICK q : q = [r EXCEPT !.pc = x]
  OBVIOUS
<1>6. /\ q \in Work /\ Shape(t, q)
      /\ q.op = r.op /\ q.doing = r.doing /\ q.pc = x /\ q.site = r.site /\ q.p = r.p /\ q.v = r.v
      /\ q.tx = r.tx /\ q.row = r.row
      /\ Holding(q) <=> Holding(r)
  BY <1>3, <1>4, <1>5, Answered
<1>7. Steps(t, q)
  BY <1>1, <1>2, <1>3, <1>4, <1>5, <1>6 DEF Steps, LockGoes, CallTo
<1>8. files' \in Files
  BY <1>1, <1>3, <1>4, AfterTyped DEF CallTo, AccessInv, AccessTyped
<1>9. proc'["geo"] # Null => proc["geo"] # Null
  BY <1>1 DEF CallTo, AccessInv, AccessTyped, Threads
<1>10. OtherTables
  BY <1>2, <1>8, <1>9 DEF OtherTables, tables, AccessInv, AccessTyped, GeoStarted
<1>11. r.op = "rule" => proc'["backup"] = proc["backup"]
  BY <1>4, ThreadOps, <1>1 DEF CallTo, AccessInv, AccessTyped, Threads
<1>12. Bound(q)' /\ (Fresh => Read(q)')
  BY <1>2, <1>4, <1>6, <1>11, SameBound DEF Answers, tables
<1>13. t = "backup" => ~RuleWriting(q.site)
  BY <1>3, <1>4, <1>6, RuleApart
<1>14. UNCHANGED <<policy, backups, editor>>
  BY <1>2 DEF tables
<1>15. Grows
  BY <1>1 DEF CallTo
<1>16. QED
  BY <1>7, <1>10, <1>12, <1>13, <1>14, <1>15, QuietStep

(* Steps beside the threads that leave the policies.                       *)
LEMMA ApartStep ==
  ASSUME AccessInv, UNCHANGED <<policy, rules, proxies, geo, files, lock, proc>>, Grows,
         accounts' \in [Accounts -> Account \cup {Null}], backups' \in [Sites -> Saved \cup {Null}],
         editor' \in Editor \cup {Null}, Edits', Bundled',
         UNCHANGED backups \/ proc["backup"] = Null
  PROVE  AccessInv'
<1>1. AccessTyped'
  BY DEF AccessInv, AccessTyped, Grows
<1>2. Shaped' /\ Locked'
  <2>1. \A u \in Threads : /\ proc'[u] # Null => Shape(u, proc'[u])
                           /\ lock' = u <=> Holding(proc'[u])
    BY DEF AccessInv, Shaped, Locked
  <2>2. Shaped'
    BY <2>1 DEF Shaped, Shape, ApplyShape, ProxyShape, AccountShape, RuleShape, GeoShape, RestoreShape,
       RefreshShape, RulesShape, Writes, WritesPolicy
  <2>3. Locked'
    BY <2>1 DEF Locked, Holding
  <2>4. QED
    BY <2>2, <2>3
<1>3. Rows' /\ GeoStarted'
  BY DEF AccessInv, Rows, RowOk, GeoStarted
<1>4. Bounds'
  <2> SUFFICES ASSUME NEW u \in Threads, proc[u] # Null PROVE Bound(proc[u])'
    BY DEF Bounds
  <2>1. Bound(proc[u]) /\ Shape(u, proc[u])
    BY DEF AccessInv, Bounds, Shaped
  <2>2. u # "backup" => proc[u].doing # "restore"
    BY <2>1, ThreadOps
  <2>3. UNCHANGED backups \/ u # "backup"
    OBVIOUS
  <2>4. BoundApply(proc[u])' /\ BoundRefresh(proc[u])' /\ BoundProxy(proc[u])' /\ BoundRule(proc[u])'
    BY <2>1 DEF Bound, BoundApply, BoundRefresh, BoundProxy, BoundRule, Managed
  <2>5. BoundRestore(proc[u])'
    BY <2>1, <2>2, <2>3 DEF Bound, BoundRestore
  <2>6. QED
    BY <2>4, <2>5 DEF Bound
<1>5. Reads'
  BY WithoutBack DEF AccessInv, Reads, Read, Fresh
<1>6. QED
  BY <1>1, <1>2, <1>3, <1>4, <1>5 DEF AccessInv

LEMMA OpenEditorInv == ASSUME AccessInv, NEW s \in Sites, OpenEditor(s) PROVE AccessInv'
<1>0. AccessTyped /\ Rows
  BY DEF AccessInv
<1>1. Grows
  BY <1>0, StillGrows DEF OpenEditor
<1>2. PICK e : e = editor'
  OBVIOUS
<1>3. /\ e.site = s
      /\ IF policy[s] = Null THEN e.version = 0 /\ e.seen = Null
         ELSE e.version = policy[s].version /\ e.seen = policy[s].desired
      /\ e \in Editor
  BY <1>0, <1>2, RowFields DEF OpenEditor, AccessTyped, Editor
<1>4. Edits'
  BY <1>0, RowFields, <1>2, <1>3 DEF OpenEditor, AccessTyped, tables, Edits
<1>5. Bundled'
  BY DEF OpenEditor, AccessInv, Bundled, Managed, tables
<1>6. QED
  BY <1>0, <1>1, <1>2, <1>3, <1>4, <1>5, ApartStep DEF OpenEditor, tables, AccessTyped

LEMMA CreateAccountInv ==
  ASSUME AccessInv, NEW a \in Accounts, NEW pw \in Passwords, CreateAccount(a, pw)
  PROVE  AccessInv'
<1>0. AccessTyped
  BY DEF AccessInv
<1>1. Grows
  BY <1>0, BeginGrows DEF CreateAccount, Serve, Threads
<1>2. accounts' \in [Accounts -> Account \cup {Null}]
  BY <1>0 DEF CreateAccount, NewAccount, AccessTyped, Account
<1>3. Edits' /\ Bundled'
  BY <1>1, WithoutBack DEF CreateAccount, AccessInv, Edits, Bundled, Managed
<1>4. QED
  BY <1>0, <1>1, <1>2, <1>3, ApartStep DEF CreateAccount, AccessTyped

LEMMA DesiredRow ==
  ASSUME AccessTyped, Rows, NEW s \in Sites, NEW p \in Policy, NEW f \in BOOLEAN, NEW new, new = Desired(s, p, f)
  PROVE  /\ new \in Row /\ RowOk(new) /\ new # Null
         /\ new.version = (IF policy[s] = Null THEN 1 ELSE policy[s].version + 1)
         /\ new.desired = p /\ new.status = "pending" /\ new.fromProxy = f
         /\ new.at = (IF policy[s] = Null THEN 0 ELSE policy[s].at) /\ new.at < new.version
         /\ policy[s] # Null => new.mode = policy[s].mode /\ new.applied = policy[s].applied
         /\ policy[s] = Null => new.mode = "legacy"
<1>1. CASE policy[s] = Null
  BY <1>1, NullIsNone DEF Desired, Row, RowOk
<1>2. CASE policy[s] # Null
  <2>1. PICK old \in Row : old = policy[s]
    BY <1>2 DEF AccessTyped
  <2>2. PICK n \in Nat : n = old.version + 1
    BY <2>1, RowFields
  <2>3. new = [old EXCEPT !.version = n, !.desired = p, !.status = "pending", !.fromProxy = f]
    BY <1>2, <2>1, <2>2 DEF Desired
  <2>4. /\ new \in Row /\ new.version = n /\ new.desired = p /\ new.status = "pending" /\ new.fromProxy = f
        /\ new.at = old.at /\ new.mode = old.mode /\ new.applied = old.applied
    BY <2>3 DEF Row
  <2>5. RowOk(old)
    BY <1>2, <2>1 DEF Rows
  <2>6. old.version \in Nat /\ old.at \in Nat /\ new # Null
    BY <2>4, RowFields
  <2>7. RowOk(new)
    BY <2>2, <2>4, <2>5, <2>6 DEF RowOk
  <2>8. old.at < n
    BY <2>2, <2>5, <2>6 DEF RowOk
  <2>9. QED
    BY <1>2, <2>1, <2>2, <2>4, <2>6, <2>7, <2>8
<1>3. QED
  BY <1>1, <1>2

(* Nobody else knows anything of what is wanted when the requests have the *)
(* lock.                                                                   *)
LEMMA LockedOut ==
  ASSUME AccessInv, NEW t \in Threads, lock \in {Null, t}, NEW u \in Threads \ {t}, proc[u] # Null
  PROVE  /\ u # "backup"
         /\ proc[u].doing \notin {"apply", "proxy", "restore"}
         /\ proc[u].doing = "refresh" => proc[u].pc \notin Answers
BY NullIsNone, Actor, ThreadOps DEF AccessInv, Locked, Holding

LEMMA DesiredStep ==
  ASSUME AccessInv, NEW s \in Sites, NEW p \in Policy, NEW f \in BOOLEAN, NEW q \in Work,
         policy' = [policy EXCEPT ![s] = Desired(s, p, f)], Steps("http", q), lock' = "http", Grows,
         UNCHANGED <<accounts, rules, proxies, geo, files, backups>>, editor' \in {editor, Null},
         Bound(q)', Read(q)'
  PROVE  AccessInv'
<1>0. AccessTyped /\ Rows /\ "http" \in Threads
  BY DEF AccessInv, Threads
<1>1. /\ proc' \in [Threads -> Work \cup {Null}] /\ lock' \in Threads \cup {Null}
      /\ Shaped' /\ Locked'
      /\ proc'["http"] = q /\ \A u \in Threads \ {"http"} : proc'[u] = proc[u]
  BY <1>0, ThreadStep DEF AccessInv
<1>2. PICK new : new = Desired(s, p, f)
  OBVIOUS
<1>3. /\ new \in Row /\ RowOk(new) /\ new # Null
      /\ new.version = (IF policy[s] = Null THEN 1 ELSE policy[s].version + 1)
      /\ new.desired = p /\ new.at = (IF policy[s] = Null THEN 0 ELSE policy[s].at)
      /\ policy[s] # Null => new.mode = policy[s].mode /\ new.applied = policy[s].applied
  BY <1>0, <1>2, DesiredRow
<1>4. /\ policy' \in [Sites -> Row \cup {Null}] /\ policy'[s] = new
      /\ \A r \in Sites \ {s} : policy'[r] = policy[r]
  BY <1>0, <1>2, <1>3 DEF AccessTyped
<1>5. AccessTyped'
  BY <1>0, <1>1, <1>4 DEF AccessTyped, Grows
<1>6. Rows'
  BY <1>0, <1>3, <1>4 DEF Rows, RowOk
<1>7. Edits'
  BY WithoutBack, <1>0, RowFields, <1>3, <1>4 DEF Edits, AccessTyped, Editor, AccessInv
<1>8. Bundled'
  BY <1>3, <1>4 DEF AccessInv, Bundled, Managed
<1>9. ASSUME NEW u \in Threads \ {"http"}, proc[u] # Null, NEW r, r = proc[u]
      PROVE  Bound(r)' /\ (Fresh => Read(r)')
  <2>1. lock \in {Null, "http"}
    BY NullIsNone, <1>0 DEF Steps, LockGoes
  <2>2. /\ r.doing \notin {"apply", "proxy", "restore"} /\ (r.doing = "refresh" => r.pc \notin Answers)
        /\ u = "geo"
    BY <1>0, <1>9, <2>1, LockedOut DEF Threads
  <2>3. r \in Work /\ Shape(u, r) /\ (Fresh => Read(r))
    BY <1>9, Actor
  <2>4. r.doing # "rules" /\ r.op # "rule"
    BY <2>2, <2>3, ThreadOps
  <2>5. Bound(r)'
    BY <2>2, <2>4 DEF Bound, BoundApply, BoundProxy, BoundRefresh, BoundRule, BoundRestore
  <2>6. r.doing = "refresh" /\ r.pc = "lock" => r.site \in Sites
    BY <2>3, SiteOf
  <2>7. Fresh => Read(r)'
    BY <2>2, <2>3, <2>6, <1>3, <1>4 DEF Read, Answers
  <2>8. QED
    BY <2>5, <2>7
<1>10. Bounds'
  BY <1>1, <1>9 DEF Bounds
<1>11. Reads'
  BY WithoutBack, <1>1, <1>9 DEF Fresh, Reads
<1>12. GeoStarted'
  BY <1>1 DEF AccessInv, GeoStarted, Threads
<1>13. QED
  BY <1>1, <1>5, <1>6, <1>7, <1>8, <1>10, <1>11, <1>12 DEF AccessInv

(* What a request or a thread starts with.                                 *)
LEMMA ResolvedTyped ==
  ASSUME AccessTyped, NEW s \in Sites, NEW p \in Policy, Resolvable(s, p)
  PROVE  Resolved(s, p) \in Policy /\ Same(Resolved(s, p), p)
         /\ Resolved(s, p).off = (p.link # Null /\ ~proxies[s].on)
BY DEF Resolvable, AccessTyped, Resolved, Policy, Same

ApplyRecord(op, s, p, v) ==
  [Idle EXCEPT !.op = op, !.doing = "apply", !.pc = "call", !.site = s, !.p = p, !.v = v,
     !.tx = PolicyFiles(s, p)]

LEMMA Applies ==
  ASSUME AccessInv, proc["http"] = Null, NEW s \in Sites, NEW p \in Policy, Renderable(p), NEW v \in Nat,
         NEW op \in {"save", "sync"}, lock = Null, lock' = "http",
         NEW q, q = ApplyRecord(op, s, p, v), Becomes("http", q)
  PROVE  /\ Steps("http", q) /\ q \in Work
         /\ q.op = op /\ q.doing = "apply" /\ q.pc = "call" /\ q.site = s /\ q.p = p /\ q.v = v
         /\ q.tx = PolicyFiles(s, p)
<1>0. AccessTyped
  BY DEF AccessInv
<1>1. PICK x : x = PolicyFiles(s, p)
  OBVIOUS
<1>2. /\ x \in Changes /\ DOMAIN x.access = {s} /\ DOMAIN x.slots = {s} /\ DOMAIN x.main = {}
      /\ x.htpasswd = Nothing
      /\ x.access[s].kind = "policy" /\ x.access[s].policy = p /\ x.slots[s].policy = p
  BY <1>0, <1>1, PolicyFilesTyped
<1>3. q = [Idle EXCEPT !.op = op, !.doing = "apply", !.pc = "call", !.site = s, !.p = p, !.v = v, !.tx = x]
  BY <1>1 DEF ApplyRecord
<1>4. /\ q \in Work
      /\ q.op = op /\ q.doing = "apply" /\ q.pc = "call" /\ q.site = s /\ q.p = p /\ q.v = v /\ q.tx = x
  BY <1>2, <1>3, IdleTyped, ZenonT(30) DEF Work
<1>5. ApplyShape(q)
  BY <1>2, <1>4 DEF ApplyShape, Answers, Writes, WritesPolicy
<1>6. q # Null
  BY <1>4, NullIsNone
<1>7. Steps("http", q)
  BY <1>4, <1>5, <1>6 DEF Steps, Shape, LockGoes, Holding, Becomes
<1>8. QED
  BY <1>1, <1>4, <1>7

LEMMA SaveInv ==
  ASSUME AccessInv, NEW users \in SUBSET Accounts, NEW link \in Paths \cup {Null}, Save(users, link)
  PROVE  AccessInv'
<1>0. AccessTyped /\ Rows
  BY DEF AccessInv
<1>1. PICK e \in Editor : e = editor
  BY <1>0 DEF Save, AccessTyped
<1>2. PICK s \in Sites : s = e.site
  BY DEF Editor
<1>3. PICK p0 : p0 = [users |-> users, link |-> link, off |-> FALSE]
  OBVIOUS
<1>4. p0 \in Policy
  BY <1>3 DEF Policy
<1>5. PICK p : p = Resolved(s, p0)
  OBVIOUS
<1>6. /\ Resolvable(s, p0) /\ Renderable(p) /\ AtVersion(s, e.version)
      /\ policy' = [policy EXCEPT ![s] = Desired(s, p, FALSE)]
      /\ Becomes("http", [Idle EXCEPT !.op = "save", !.doing = "apply", !.pc = "call", !.site = s,
                            !.p = p, !.v = e.version + 1, !.tx = PolicyFiles(s, p)])
      /\ Serve /\ Take("http") /\ editor' = Null
      /\ UNCHANGED <<accounts, rules, proxies, geo, files, backups>>
  BY <1>1, <1>2, <1>3, <1>5 DEF Save
<1>7. p \in Policy
  BY <1>0, <1>4, <1>5, <1>6, ResolvedTyped
<1>8. PICK v \in Nat : v = e.version + 1
  BY DEF Editor
<1>9. PICK q : q = ApplyRecord("save", s, p, v)
  OBVIOUS
<1>10. Becomes("http", q)
  BY <1>6, <1>8, <1>9 DEF ApplyRecord
<1>11. proc["http"] = Null /\ lock = Null /\ lock' = "http"
  BY <1>6 DEF Serve, Begin, Take
<1>12. /\ Steps("http", q) /\ q \in Work
       /\ q.op = "save" /\ q.doing = "apply" /\ q.pc = "call" /\ q.site = s /\ q.p = p /\ q.v = v
  <2>1. PICK op \in {"save", "sync"} : op = "save"
    OBVIOUS
  <2>2. q = ApplyRecord(op, s, p, v)
    BY <1>9, <2>1
  <2>3. Renderable(p)
    BY <1>6
  <2>4. /\ Steps("http", q) /\ q \in Work
        /\ q.op = op /\ q.doing = "apply" /\ q.pc = "call" /\ q.site = s /\ q.p = p /\ q.v = v
    BY <2>1, <2>2, <2>3, <1>2, <1>7, <1>8, <1>10, <1>11, Applies
  <2>5. QED
    BY <2>1, <2>4
<1>13. PICK f \in BOOLEAN, new \in {Desired(s, p, FALSE)} : f = FALSE /\ new = Desired(s, p, f)
  OBVIOUS
<1>14. new # Null /\ new.version = v /\ new.desired = p /\ policy'[s] = new
  <2>1. /\ new # Null /\ new.desired = p
        /\ new.version = (IF policy[s] = Null THEN 1 ELSE policy[s].version + 1)
    BY <1>0, <1>2, <1>7, <1>13, DesiredRow
  <2>2. policy'[s] = new
    BY <1>0, <1>2, <1>6, <1>13 DEF AccessTyped
  <2>3. IF policy[s] = Null THEN e.version = 0 ELSE policy[s].version = e.version
    BY <1>6 DEF AtVersion
  <2>4. new.version = v
    BY <2>1, <2>3, <1>8
  <2>5. QED
    BY <2>1, <2>2, <2>4
<1>15. Bound(q)' /\ Read(q)'
  BY <1>12, <1>14 DEF Bound, BoundApply, BoundProxy, BoundRefresh, BoundRule, BoundRestore, Read, Same
<1>16. Grows
  BY <1>0, <1>6, BeginGrows DEF Serve, Threads
<1>17. QED
  BY <1>2, <1>6, <1>7, <1>11, <1>12, <1>15, <1>16, DesiredStep

LEMMA SyncInv == ASSUME AccessInv, NEW s \in Sites, Sync(s) PROVE AccessInv'
<1>0. AccessTyped /\ Rows /\ "http" \in Threads
  BY DEF AccessInv, Threads
<1>1. PICK old \in Row : old = policy[s]
  BY <1>0 DEF Sync, AccessTyped
<1>2. old.desired \in Policy /\ old.version \in Nat /\ policy[s] # Null
  BY <1>1, RowFields
<1>3. Grows /\ proc["http"] = Null /\ lock = Null
  BY <1>0, BeginGrows DEF Sync, Serve, Begin, Take
<1>4. UNCHANGED <<accounts, rules, proxies, geo, files, backups, editor>>
  BY DEF Sync
<1>5. CASE Resolvable(s, old.desired)
  <2>1. PICK p : p = Resolved(s, old.desired)
    OBVIOUS
  <2>2. p \in Policy /\ Same(old.desired, p) /\ p.users = old.desired.users
    BY <1>0, <1>2, <1>5, <2>1, ResolvedTyped DEF Same
  <2>3. Renderable(p)
    BY <1>1, <2>2 DEF Sync, Renderable
  <2>4. PICK op \in {"save", "sync"} : op = "sync"
    OBVIOUS
  <2>5. PICK q : q = ApplyRecord(op, s, p, old.version)
    OBVIOUS
  <2>6. Becomes("http", q) /\ lock' = "http" /\ UNCHANGED policy
    BY <1>1, <1>5, <2>1, <2>4, <2>5 DEF Sync, Take, ApplyRecord
  <2>7. /\ Steps("http", q) /\ q \in Work
        /\ q.op = op /\ q.doing = "apply" /\ q.pc = "call" /\ q.site = s /\ q.p = p /\ q.v = old.version
    BY <1>2, <1>3, <2>2, <2>3, <2>4, <2>5, <2>6, Applies
  <2>8. policy'[s] = old
    BY <1>1, <2>6
  <2>9. Bound(q)' /\ Read(q)'
    BY <1>1, <1>2, <2>2, <2>4, <2>7, <2>8 DEF Bound, BoundApply, BoundProxy, BoundRefresh, BoundRule, BoundRestore,
       Read, Same
  <2>10. proc'["geo"] # Null => proc["geo"] # Null
    BY <1>0, <2>6 DEF Becomes, AccessTyped, Threads
  <2>11. OtherTables
    BY <1>4, <2>10, SameTables
  <2>12. QED
    BY <1>0, <1>3, <1>4, <2>6, <2>7, <2>9, <2>11, QuietStep
<1>6. CASE ~Resolvable(s, old.desired)
  <2>1. MarkError(s, old.version) /\ UNCHANGED <<lock, proc>>
    BY <1>1, <1>6 DEF Sync
  <2>2. Marks /\ \A r \in Sites : Standing(r)
    BY <1>0, <2>1, MarkErrorMarks
  <2>3. Steps("http", Null)
    BY <1>0, <1>3, <2>1, NullIsNone DEF Steps, LockGoes, Holding, AccessTyped
  <2>4. QED
    BY <1>0, <1>3, <1>4, <2>2, <2>3, OnwardStep
<1>7. QED
  BY <1>5, <1>6

(* A thread gives the lock back and is done.                               *)
LEMMA Released ==
  ASSUME AccessInv, NEW t \in Threads, proc[t] # Null, Holding(proc[t]), Free, Ends(t)
  PROVE  Steps(t, Null) /\ lock = t
BY Actor DEF Steps, LockGoes, Holding, Free, Ends, Becomes

LEMMA FinishApplyInv == ASSUME AccessInv, FinishApply PROVE AccessInv'
<1>0. AccessTyped /\ Rows /\ "http" \in Threads
  BY DEF AccessInv, Threads
<1>1. PICK r \in Work : r = proc["http"]
  BY <1>0, Actor DEF FinishApply, At
<1>2. r # Null /\ r.doing = "apply" /\ r.pc = "done" /\ Shape("http", r)
  BY <1>0, <1>1, Actor DEF FinishApply, At
<1>3. r.site \in Sites
  BY <1>0, <1>2, SiteOf
<1>4. Steps("http", Null) /\ lock = "http"
  BY <1>0, <1>1, <1>2, Released DEF FinishApply, Holding
<1>5. CASE MarkApplied(r.site, r.v) /\ NoteFinish("http")
  <2>1. Marks
    BY <1>0, <1>3, <1>5, MarkAppliedMarks
  <2>2. PICK b \in BOOLEAN : b = (proc["http"].tx.access[proc["http"].site].geo # geo)
    OBVIOUS
  <2>3. Grows
    BY <1>0, <1>5, <2>2, NoteGrows DEF NoteFinish, Mishaps
  <2>4. QED
    BY <1>0, <1>4, <2>1, <2>3, OnwardStep DEF FinishApply
<1>6. CASE (IF Managed(r.site) THEN Fault ELSE Lost) /\ MarkError(r.site, r.v)
  <2>1. Marks
    BY <1>0, <1>3, <1>6, MarkErrorMarks
  <2>2. Grows
    BY <1>0, <1>6, FaultGrows, LostGrows
  <2>3. QED
    BY <1>0, <1>4, <2>1, <2>2, OnwardStep DEF FinishApply
<1>7. QED
  BY <1>1, <1>5, <1>6 DEF FinishApply

LEMMA FailApplyInv == ASSUME AccessInv, FailApply PROVE AccessInv'
BY Actor, SiteOf, Released, MarkErrorMarks, NoteGrows, OnwardStep DEF AccessInv, Threads,
   FailApply, At, Holding, NoteUnknown, Mishaps

-----------------------------------------------------------------------------
(* Refreshing.                                                             *)

NextOf(r, todo, errs) == [r EXCEPT !.pc = "next", !.todo = todo, !.errs = errs]

LEMMA NextRecord ==
  ASSUME NEW t \in Threads, NEW r \in Work, Shape(t, r), r.doing = "refresh",
         NEW todo \in SUBSET Sites, NEW errs \in BOOLEAN,
         NEW q, q = NextOf(r, todo, errs)
  PROVE  /\ q \in Work /\ q # Null /\ Shape(t, q) /\ ~Holding(q)
         /\ q.op = r.op /\ q.doing = "refresh" /\ q.pc = "next" /\ q.todo = todo /\ q.errs = errs
         /\ q.account = r.account /\ q.row = r.row /\ q.undoing = r.undoing
<1>1. /\ q \in Work
      /\ q.op = r.op /\ q.doing = "refresh" /\ q.pc = "next" /\ q.todo = todo /\ q.errs = errs
      /\ q.account = r.account /\ q.row = r.row /\ q.undoing = r.undoing
  BY DEF Work, NextOf
<1>2. q # Null
  BY <1>1, NullIsNone
<1>3. ~Holding(q)
  BY <1>1 DEF Holding, Answers
<1>4. RefreshShape(q)
  BY <1>1 DEF RefreshShape
<1>5. (t = "http" /\ r.op = "account") \/ (t = "geo" /\ r.op = "geo")
  BY ThreadOps DEF Threads
<1>6. t = "http" => r.account \in Accounts /\ r.row \in Switch
  BY <1>5, ShapeBack DEF AccountShape
<1>7. Shape(t, q)
  BY <1>1, <1>4, <1>5, <1>6 DEF Shape, AccountShape, GeoShape
<1>8. QED
  BY <1>1, <1>2, <1>3, <1>7

LEMMA RefreshNextSteps ==
  ASSUME AccessInv, NEW t \in Threads, proc[t] # Null, proc[t].doing = "refresh", NEW bad \in BOOLEAN,
         RefreshNext(t, bad), lock' = IF lock = t THEN Null ELSE lock,
         NEW q, q = proc'[t]
  PROVE  /\ Steps(t, q) /\ q \in Work /\ q # Null
         /\ q.op = proc[t].op /\ q.doing = "refresh" /\ q.pc = "next"
         /\ q.todo = proc[t].todo \ {proc[t].site} /\ q.errs = (proc[t].errs \/ bad)
         /\ q.account = proc[t].account /\ q.row = proc[t].row /\ q.undoing = proc[t].undoing
<1>1. PICK r \in Work : r = proc[t]
  BY Actor
<1>2. Shape(t, r) /\ r.todo \in SUBSET Sites /\ r.errs \in BOOLEAN
  BY <1>1, Actor
<1>3. PICK todo \in SUBSET Sites, errs \in BOOLEAN : todo = r.todo \ {r.site} /\ errs = (r.errs \/ bad)
  BY <1>2
<1>4. proc' = [proc EXCEPT ![t] = NextOf(r, todo, errs)]
  BY <1>1, <1>3 DEF RefreshNext, Becomes, NextOf
<1>5. q = NextOf(r, todo, errs) /\ proc' = [proc EXCEPT ![t] = q]
  BY <1>4 DEF AccessInv, AccessTyped
<1>6. /\ q \in Work /\ q # Null /\ Shape(t, q) /\ ~Holding(q)
      /\ q.op = r.op /\ q.doing = "refresh" /\ q.pc = "next" /\ q.todo = todo /\ q.errs = errs
      /\ q.account = r.account /\ q.row = r.row /\ q.undoing = r.undoing
  BY <1>1, <1>2, <1>3, <1>5, NextRecord
<1>7. QED
  BY <1>1, <1>3, <1>5, <1>6 DEF Steps, LockGoes

(* A record that has nothing to be bound to.                               *)
LEMMA Unbound ==
  ASSUME NEW q, q.doing \notin {"apply", "proxy", "restore"}, q.op # "rule",
         q.doing = "refresh" => q.pc \notin Answers, q.doing = "rules" => q.pc \notin Answers
  PROVE  Bound(q)' /\ (~(q.doing = "refresh" /\ q.pc = "lock") => Read(q)')
BY DEF Bound, BoundApply, BoundProxy, BoundRefresh, BoundRule, BoundRestore, Read

LEMMA RefreshReadInv ==
  ASSUME AccessInv, NEW t \in Threads, NEW s \in Sites, RefreshRead(t, s)
  PROVE  AccessInv'
<1>0. AccessTyped /\ Rows
  BY DEF AccessInv
<1>1. PICK r \in Work : r = proc[t]
  BY Actor DEF RefreshRead, At
<1>2. /\ r # Null /\ r.doing = "refresh" /\ r.pc = "next" /\ Shape(t, r) /\ (lock = t <=> Holding(r))
      /\ s \in r.todo /\ r.todo \in SUBSET Sites /\ r.errs \in BOOLEAN
  BY <1>1, Actor DEF RefreshRead, At
<1>3. lock # t /\ lock' = lock
  BY <1>2 DEF Holding, Answers, RefreshRead
<1>4. (t = "http" /\ r.op = "account") \/ (t = "geo" /\ r.op = "geo")
  BY <1>2, ThreadOps DEF Threads
<1>5. Grows /\ UNCHANGED <<policy, backups, editor>>
  BY <1>0, StillGrows DEF RefreshRead, tables
<1>6. CASE Managed(s) /\ Renderable(policy[s].applied)
  <2>1. PICK old \in Row : old = policy[s]
    BY <1>0, <1>6 DEF Managed, AccessTyped
  <2>2. policy[s] # Null /\ old.at > 0 /\ old.applied \in Policy /\ old.at \in Nat
    BY <1>0, <1>6, <2>1, RowFields DEF Managed, Rows, RowOk
  <2>3. PICK q : q = [r EXCEPT !.pc = "lock", !.site = s, !.p = old.applied, !.v = old.at]
    OBVIOUS
  <2>4. /\ q \in Work
        /\ q.op = r.op /\ q.doing = "refresh" /\ q.pc = "lock" /\ q.site = s /\ q.p = old.applied /\ q.v = old.at
        /\ q.todo = r.todo /\ q.account = r.account /\ q.row = r.row
    BY <1>2, <2>2, <2>3 DEF Work
  <2>5. RefreshShape(q)
    BY <1>2, <2>2, <2>4 DEF RefreshShape
  <2>6. t = "http" => r.account \in Accounts /\ r.row \in Switch
    BY <1>2, <1>4, ShapeBack DEF AccountShape
  <2>7. Shape(t, q)
    BY <2>4, <2>5, <2>6, <1>4 DEF Shape, AccountShape, GeoShape
  <2>8. proc' = [proc EXCEPT ![t] = q]
    BY <1>1, <1>6, <2>1, <2>3 DEF RefreshRead, Becomes
  <2>9. Steps(t, q)
    BY <1>3, <2>4, <2>7, <2>8, NullIsNone DEF Steps, LockGoes, Holding, Answers
  <2>10. Bound(q)'
    BY <1>4, <2>4, Unbound DEF Answers
  <2>11. policy'[s] = old /\ old # Null
    BY <1>5, <2>1, <2>2
  <2>12. Read(q)'
    BY <2>2, <2>4, <2>11 DEF Read, Answers
  <2>13. proc'["geo"] # Null => proc["geo"] # Null
    BY <1>0, <1>1, <1>2, <2>8 DEF AccessTyped, Threads
  <2>14. OtherTables
    BY <2>13, SameTables DEF RefreshRead, tables
  <2>15. t # "backup"
    BY <1>4
  <2>16. QED
    BY <1>5, <2>9, <2>10, <2>12, <2>14, <2>15, QuietStep
<1>7. CASE ~(Managed(s) /\ Renderable(policy[s].applied))
  <2>1. PICK todo \in SUBSET Sites, errs \in BOOLEAN : todo = r.todo \ {s} /\ errs = (r.errs \/ Managed(s))
    BY <1>2 DEF Managed
  <2>2. PICK q : q = NextOf(r, todo, errs)
    OBVIOUS
  <2>3. /\ q \in Work /\ q # Null /\ Shape(t, q) /\ ~Holding(q)
        /\ q.op = r.op /\ q.doing = "refresh" /\ q.pc = "next"
    <3>1. todo \in SUBSET Sites /\ errs \in BOOLEAN /\ r \in Work /\ Shape(t, r) /\ r.doing = "refresh"
      BY <1>1, <1>2, <2>1
    <3>2. QED
      BY <3>1, <2>2, NextRecord
  <2>4. [r EXCEPT !.todo = todo, !.errs = errs] = q
    BY <1>1, <1>2, <2>2 DEF Work, NextOf
  <2>5. proc' = [proc EXCEPT ![t] = q]
    BY <1>1, <1>7, <2>1, <2>4 DEF RefreshRead, Becomes
  <2>6. Steps(t, q)
    BY <1>3, <2>3, <2>5 DEF Steps, LockGoes
  <2>7. Bound(q)' /\ Read(q)'
    BY <1>4, <2>3, Unbound DEF Answers
  <2>8. proc'["geo"] # Null => proc["geo"] # Null
    BY <1>0, <1>1, <1>2, <2>5 DEF AccessTyped, Threads
  <2>9. OtherTables
    BY <2>8, SameTables DEF RefreshRead, tables
  <2>10. t # "backup"
    BY <1>4
  <2>11. QED
    BY <1>5, <2>6, <2>7, <2>9, <2>10, QuietStep
<1>8. QED
  BY <1>6, <1>7

LEMMA CallRecord ==
  ASSUME NEW r \in Work, NEW x \in Changes, NEW q, q = [r EXCEPT !.pc = "call", !.tx = x]
  PROVE  /\ q \in Work
         /\ q.op = r.op /\ q.doing = r.doing /\ q.pc = "call" /\ q.site = r.site /\ q.p = r.p /\ q.v = r.v
         /\ q.todo = r.todo /\ q.errs = r.errs /\ q.account = r.account /\ q.row = r.row
         /\ q.undoing = r.undoing /\ q.tx = x
BY DEF Work

LEMMA RefreshLockInv == ASSUME AccessInv, NEW t \in Threads, RefreshLock(t) PROVE AccessInv'
<1>0. AccessTyped /\ Rows
  BY DEF AccessInv
<1>1. PICK r \in Work : r = proc[t]
  BY Actor DEF RefreshLock, At
<1>2. /\ r # Null /\ r.doing = "refresh" /\ r.pc = "lock" /\ Shape(t, r) /\ (lock = t <=> Holding(r))
      /\ (Fresh => Read(r)) /\ proc[t] # Null
  BY <1>1, Actor DEF RefreshLock, At
<1>3. r.site \in Sites /\ r.site \in r.todo /\ r.p \in Policy /\ r.v \in Nat /\ r.v > 0
  BY <1>2, SiteOf, ShapeBack DEF RefreshShape, Work, Answers
<1>4. lock # t /\ lock = Null /\ t # Null
  BY <1>2, NullIsNone DEF Holding, Answers, RefreshLock
<1>5. (t = "http" /\ r.op = "account") \/ (t = "geo" /\ r.op = "geo")
  BY <1>2, ThreadOps DEF Threads
<1>6. Grows /\ UNCHANGED <<accounts, rules, proxies, geo, files, backups, editor>>
  BY <1>0, StillGrows DEF RefreshLock
<1>7. CASE RefreshNext(t, FALSE) /\ UNCHANGED <<policy, lock>>
  <2>1. PICK q : q = proc'[t]
    OBVIOUS
  <2>2. PICK bad \in BOOLEAN : bad = FALSE
    OBVIOUS
  <2>3. RefreshNext(t, bad) /\ lock' = IF lock = t THEN Null ELSE lock
    BY <1>4, <1>7, <2>2
  <2>4. Steps(t, q) /\ q \in Work /\ q # Null /\ q.op = r.op /\ q.doing = "refresh" /\ q.pc = "next"
    BY <1>1, <1>2, <2>2, <2>3, <2>1, RefreshNextSteps
  <2>5. Bound(q)' /\ Read(q)'
    BY <1>5, <2>4, Unbound DEF Answers
  <2>6. proc'["geo"] # Null => proc["geo"] # Null
    BY <1>0, <1>2, <2>4 DEF AccessTyped, Threads, Steps
  <2>7. OtherTables
    BY <1>6, <2>6, SameTables
  <2>8. t # "backup"
    BY <1>5
  <2>9. QED
    BY <1>6, <1>7, <2>4, <2>5, <2>7, <2>8, QuietStep
<1>8. CASE RefreshNext(t, TRUE) /\ MarkError(r.site, r.v) /\ UNCHANGED lock
  <2>1. PICK q : q = proc'[t]
    OBVIOUS
  <2>2. PICK bad \in BOOLEAN : bad = TRUE
    OBVIOUS
  <2>3. RefreshNext(t, bad) /\ lock' = IF lock = t THEN Null ELSE lock
    BY <1>4, <1>8, <2>2
  <2>4. Steps(t, q) /\ q \in Work /\ q # Null /\ q.op = r.op /\ q.doing = "refresh" /\ q.pc = "next"
    <3>1. /\ bad \in BOOLEAN /\ proc[t] # Null /\ proc[t].doing = "refresh" /\ RefreshNext(t, bad)
          /\ lock' = IF lock = t THEN Null ELSE lock
      BY <1>1, <1>2, <2>2, <2>3
    <3>2. QED
      BY <1>1, <2>1, <3>1, RefreshNextSteps
  <2>5. Marks /\ \A s \in Sites : Standing(s)
    BY <1>0, <1>3, <1>8, MarkErrorMarks
  <2>6. \A s \in Sites : Managed(s)' => Managed(s)
    BY <2>5 DEF Marks, Onward, Standing, Managed
  <2>7. t # "backup"
    BY <1>5
  <2>8. QED
    BY <1>2, <1>6, <2>4, <2>5, <2>6, <2>7, OnwardStep
<1>9. CASE /\ StillApplied(r.site, r.v) /\ Renderable(r.p) /\ Take(t)
           /\ Becomes(t, [r EXCEPT !.pc = "call", !.tx = PolicyFiles(r.site, r.p)]) /\ UNCHANGED policy
  <2>1. PICK x : x = PolicyFiles(r.site, r.p)
    OBVIOUS
  <2>2. /\ x \in Changes /\ DOMAIN x.access = {r.site} /\ DOMAIN x.slots = {r.site} /\ DOMAIN x.main = {}
        /\ x.htpasswd = Nothing
        /\ x.access[r.site].kind = "policy" /\ x.access[r.site].policy = r.p /\ x.slots[r.site].policy = r.p
    BY <1>0, <1>3, <1>9, <2>1, PolicyFilesTyped
  <2>3. PICK q : q = [r EXCEPT !.pc = "call", !.tx = x]
    OBVIOUS
  <2>4. /\ q \in Work /\ q # Null
        /\ q.op = r.op /\ q.doing = "refresh" /\ q.pc = "call" /\ q.site = r.site /\ q.p = r.p /\ q.v = r.v
        /\ q.todo = r.todo /\ q.account = r.account /\ q.row = r.row /\ q.tx = x
    <3>1. q \in Work
      BY <2>2, <1>1, <2>3, CallRecord
    <3>2. /\ q.op = r.op /\ q.doing = r.doing /\ q.pc = "call" /\ q.site = r.site /\ q.p = r.p /\ q.v = r.v
          /\ q.todo = r.todo /\ q.account = r.account /\ q.row = r.row /\ q.tx = x
      BY <1>1, <2>3 DEF Work
    <3>3. QED
      BY <1>2, <3>1, <3>2, NullIsNone
  <2>5. RefreshShape(q)
    BY <1>3, <2>2, <2>4 DEF RefreshShape, Answers, Writes, WritesPolicy
  <2>6. t = "http" => r.account \in Accounts /\ r.row \in Switch
    BY <1>2, <1>5, ShapeBack DEF AccountShape
  <2>7. Shape(t, q)
    BY <2>4, <2>5, <2>6, <1>5 DEF Shape, AccountShape, GeoShape
  <2>8. proc' = [proc EXCEPT ![t] = q] /\ lock' = t
    BY <1>9, <2>1, <2>3 DEF Becomes, Take
  <2>9. Steps(t, q)
    BY <1>4, <2>4, <2>7, <2>8 DEF Steps, LockGoes, Holding, Answers
  <2>10. policy[r.site] # Null /\ policy[r.site].at = r.v
    BY <1>9 DEF StillApplied
  <2>11. Bound(q)'
    BY <1>5, <1>9, <2>4, <2>10 DEF Bound, BoundApply, BoundProxy, BoundRefresh, BoundRule, BoundRestore
  <2>12. Fresh => Read(q)'
    BY <1>2, <1>9, <2>4, <2>10 DEF Read
  <2>13. proc'["geo"] # Null => proc["geo"] # Null
    BY <1>0, <1>2, <2>8 DEF AccessTyped, Threads
  <2>14. OtherTables
    BY <1>6, <2>13, SameTables
  <2>15. t # "backup"
    BY <1>5
  <2>16. QED
    BY <1>6, <1>9, <2>9, <2>11, <2>12, <2>14, <2>15, QuietStep
<1>10. QED
  BY <1>1, <1>7, <1>8, <1>9 DEF RefreshLock

LEMMA RefreshMarkInv == ASSUME AccessInv, NEW t \in Threads, RefreshMark(t) PROVE AccessInv'
<1>0. AccessTyped /\ Rows
  BY DEF AccessInv
<1>1. PICK r \in Work : r = proc[t]
  BY Actor DEF RefreshMark, At
<1>2. /\ r # Null /\ r.doing = "refresh" /\ r.pc \in {"done", "failed"} /\ Shape(t, r)
      /\ Bound(r) /\ (lock = t <=> Holding(r)) /\ proc[t] # Null
  BY <1>1, Actor DEF RefreshMark, At
<1>3. r.site \in Sites /\ r.v \in Nat /\ r.v > 0
  BY <1>2, SiteOf, ShapeBack DEF RefreshShape, Work, Answers
<1>4. lock = t
  BY <1>2 DEF Holding, Answers
<1>5. (t = "http" /\ r.op = "account") \/ (t = "geo" /\ r.op = "geo")
  BY <1>2, ThreadOps DEF Threads
<1>6. Grows /\ UNCHANGED <<accounts, rules, proxies, geo, files, backups, editor>>
  BY <1>0, StillGrows DEF RefreshMark
<1>7. PICK q : q = proc'[t]
  OBVIOUS
<1>8. Steps(t, q) /\ q \in Work /\ q # Null /\ q.op = r.op /\ q.doing = "refresh" /\ q.pc = "next"
  <2>1. PICK bad \in BOOLEAN : bad = (r.pc = "failed")
    OBVIOUS
  <2>2. RefreshNext(t, bad) /\ lock' = IF lock = t THEN Null ELSE lock
    BY <1>1, <1>4, <2>1 DEF RefreshMark, Free
  <2>3. /\ bad \in BOOLEAN /\ proc[t] # Null /\ proc[t].doing = "refresh" /\ RefreshNext(t, bad)
        /\ lock' = IF lock = t THEN Null ELSE lock
    BY <1>1, <1>2, <2>1, <2>2
  <2>4. QED
    BY <1>1, <1>7, <2>3, RefreshNextSteps
<1>9. policy[r.site] # Null /\ policy[r.site].at = r.v
  BY <1>2 DEF Bound, BoundRefresh, Answers
<1>10. Managed(r.site)
  BY <1>0, <1>3, <1>9 DEF Rows, RowOk, Managed
<1>11. Marks /\ \A s \in Sites : Managed(s)' => Managed(s)
  <2>1. CASE MarkApplied(r.site, r.v)
    BY <1>0, <1>3, <2>1, MarkAppliedMarks, <1>10 DEF Marks, Onward, Standing, Managed
  <2>2. CASE MarkError(r.site, r.v)
    BY <1>0, <1>3, <2>2, MarkErrorMarks DEF Marks, Onward, Standing, Managed
  <2>3. QED
    BY <1>1, <2>1, <2>2 DEF RefreshMark
<1>12. t # "backup"
  BY <1>5
<1>13. QED
  BY <1>2, <1>4, <1>6, <1>8, <1>11, <1>12, OnwardStep

-----------------------------------------------------------------------------
(* Accounts and the older rules.                                           *)

(* A step of the requests without the lock.                                *)
LEMMA RequestStep ==
  ASSUME AccessInv, NEW q \in Work \cup {Null}, Becomes("http", q), lock' = lock, ~Holding(proc["http"]),
         q # Null => Shape("http", q) /\ ~Holding(q) /\ Bound(q)' /\ Read(q)', Grows,
         accounts' \in [Accounts -> Account \cup {Null}], rules' \in [Sites -> SUBSET Accounts],
         UNCHANGED <<policy, proxies, geo, files, backups, editor>>
  PROVE  AccessInv'
<1>0. AccessTyped /\ "http" \in Threads
  BY DEF AccessInv, Threads
<1>1. lock # "http"
  BY <1>0 DEF AccessInv, Locked
<1>2. Steps("http", q)
  BY <1>1 DEF Steps, LockGoes, Becomes, Holding
<1>3. proc'["geo"] # Null => proc["geo"] # Null
  BY <1>0 DEF Becomes, AccessTyped, Threads
<1>4. OtherTables
  BY <1>0, <1>3 DEF OtherTables, AccessInv, AccessTyped, GeoStarted
<1>5. QED
  BY <1>0, <1>2, <1>4, QuietStep

LEMMA UpdateAccountInv ==
  ASSUME AccessInv, NEW a \in Accounts, NEW new \in Account, UpdateAccount(a, new)
  PROVE  AccessInv'
<1>0. AccessTyped
  BY DEF AccessInv
<1>1. Grows /\ proc["http"] = Null
  BY <1>0, BeginGrows DEF UpdateAccount, Serve, Begin, Threads
<1>2. PICK x : x = [old |-> accounts[a], new |-> new]
  OBVIOUS
<1>3. x \in Switch
  BY <1>0, <1>2 DEF UpdateAccount, AccessTyped, Switch
<1>4. PICK q : q = [Idle EXCEPT !.op = "account", !.doing = "write", !.account = a, !.row = x]
  OBVIOUS
<1>5. /\ q \in Work /\ q.op = "account" /\ q.doing = "write" /\ q.pc = "" /\ q.account = a /\ q.row = x
  BY <1>3, <1>4, IdleTyped DEF Work, Switch
<1>6. Shape("http", q) /\ ~Holding(q)
  BY <1>3, <1>5 DEF Shape, AccountShape, Holding
<1>7. Bound(q)' /\ Read(q)'
  BY <1>5, Unbound
<1>8. Becomes("http", q) /\ lock' = lock
  BY <1>2, <1>4 DEF UpdateAccount
<1>9. QED
  BY <1>0, <1>1, <1>5, <1>6, <1>7, <1>8, RequestStep DEF UpdateAccount, tables, AccessTyped, Holding

LEMMA StartRefreshTyped ==
  ASSUME NEW r \in Work, NEW q, q = StartRefresh(r)
  PROVE  /\ q \in Work /\ q.doing = "refresh" /\ q.pc = "next" /\ q.errs = FALSE
         /\ q.todo = {s \in Sites : policy[s] # Null}
         /\ q.op = r.op /\ q.account = r.account /\ q.row = r.row /\ q.undoing = r.undoing
         /\ RefreshShape(q) /\ ~Holding(q)
BY DEF StartRefresh, Work, RefreshShape, Holding, Answers

LEMMA WriteAccountInv == ASSUME AccessInv, WriteAccount PROVE AccessInv'
<1>0. AccessTyped /\ "http" \in Threads
  BY DEF AccessInv, Threads
<1>1. PICK r \in Work : r = proc["http"]
  BY <1>0, Actor DEF WriteAccount, At
<1>2. r # Null /\ r.doing = "write" /\ r.pc = "" /\ Shape("http", r) /\ proc["http"] # Null
  BY <1>0, <1>1, Actor DEF WriteAccount, At
<1>3. r.op = "account" /\ AccountShape(r)
  BY <1>0, <1>2, ThreadOps, ShapeBack
<1>4. r.account \in Accounts /\ r.row \in Switch
  BY <1>2, <1>3 DEF AccountShape
<1>5. accounts' \in [Accounts -> Account \cup {Null}]
  BY <1>0, <1>1, <1>4 DEF WriteAccount, AccessTyped, Switch
<1>6. PICK q : q = StartRefresh(r)
  OBVIOUS
<1>7. /\ q \in Work /\ q.doing = "refresh" /\ q.pc = "next" /\ q.op = "account" /\ q.account = r.account
      /\ q.row = r.row /\ RefreshShape(q) /\ ~Holding(q)
  BY <1>1, <1>3, <1>6, StartRefreshTyped
<1>8. Shape("http", q)
  BY <1>4, <1>7 DEF Shape, AccountShape
<1>9. Bound(q)' /\ Read(q)'
  BY <1>7, Unbound DEF Answers
<1>10. Becomes("http", q) /\ lock' = lock
  BY <1>1, <1>6 DEF WriteAccount
<1>11. ~Holding(proc["http"])
  BY <1>1, <1>2 DEF Holding
<1>12. Grows
  BY <1>0, StillGrows DEF WriteAccount
<1>13. QED
  BY <1>0, <1>5, <1>7, <1>8, <1>9, <1>10, <1>11, <1>12, RequestStep DEF WriteAccount, AccessTyped

(* What undoing does to the account and the thread.                        *)
LEMMA UndoCases ==
  ASSUME AccessInv, proc["http"] # Null, proc["http"].op = "account", proc["http"].row \in Switch,
         proc["http"].account \in Accounts, UndoAccount
  PROVE  /\ accounts' \in [Accounts -> Account \cup {Null}] /\ Grows
         /\ \/ Ends("http") /\ "halfway" \in spent'.mishaps /\ UNCHANGED accounts
            \/ \E q \in Work :
                 /\ Becomes("http", q) /\ UNCHANGED spent
                 /\ accounts' = [accounts EXCEPT ![proc["http"].account] = proc["http"].row.old]
                 /\ q.doing = "refresh" /\ q.pc = "next" /\ q.op = "account" /\ q.errs = FALSE
                 /\ q.todo = {s \in Sites : policy[s] # Null}
                 /\ q.account = proc["http"].account /\ q.row = proc["http"].row
                 /\ Shape("http", q) /\ ~Holding(q)
<1>0. AccessTyped /\ "http" \in Threads
  BY DEF AccessInv, Threads
<1>1. PICK r \in Work : r = proc["http"]
  BY <1>0, Actor
<1>2. CASE r.undoing
  BY <1>1, <1>2, <1>0, NoteGrows DEF UndoAccount, Mishaps, AccessTyped
<1>3. CASE ~r.undoing
  <2>1. PICK r1 : r1 = [r EXCEPT !.undoing = TRUE]
    OBVIOUS
  <2>2. r1 \in Work /\ r1.op = r.op /\ r1.account = r.account /\ r1.row = r.row
    BY <1>1, <2>1 DEF Work
  <2>3. PICK q : q = StartRefresh(r1)
    OBVIOUS
  <2>4. /\ q \in Work /\ q.doing = "refresh" /\ q.pc = "next" /\ q.errs = FALSE
        /\ q.todo = {s \in Sites : policy[s] # Null}
        /\ q.op = r.op /\ q.account = r.account /\ q.row = r.row
        /\ RefreshShape(q) /\ ~Holding(q)
    BY <2>2, <2>3, StartRefreshTyped
  <2>5. Shape("http", q)
    BY <1>1, <2>4 DEF Shape, AccountShape
  <2>6. /\ Becomes("http", q) /\ UNCHANGED spent
        /\ accounts' = [accounts EXCEPT ![proc["http"].account] = proc["http"].row.old]
    BY <1>1, <1>3, <2>1, <2>3 DEF UndoAccount
  <2>7. accounts' \in [Accounts -> Account \cup {Null}]
    BY <1>0, <2>6 DEF AccessTyped, Switch
  <2>8. Grows
    BY <1>0, <2>6, StillGrows
  <2>9. QED
    BY <1>1, <2>4, <2>5, <2>6, <2>7, <2>8
<1>4. QED
  BY <1>2, <1>3

LEMMA UndoInv ==
  ASSUME AccessInv, proc["http"] # Null, proc["http"].op = "account", proc["http"].row \in Switch,
         proc["http"].account \in Accounts, UndoAccount, ~Holding(proc["http"]),
         UNCHANGED <<policy, rules, proxies, geo, files, backups, editor, lock>>
  PROVE  AccessInv'
<1>0. AccessTyped
  BY DEF AccessInv
<1>1. accounts' \in [Accounts -> Account \cup {Null}] /\ Grows
  BY UndoCases
<1>2. CASE Ends("http")
  BY <1>0, <1>1, <1>2, RequestStep DEF Ends, AccessTyped
<1>3. CASE \E q \in Work : /\ Becomes("http", q) /\ q.doing = "refresh" /\ q.pc = "next" /\ q.op = "account"
                           /\ Shape("http", q) /\ ~Holding(q)
  BY <1>3, Unbound, <1>0, <1>1, RequestStep DEF Answers, AccessTyped
<1>4. QED
  BY <1>2, <1>3, UndoCases

LEMMA PoliciesRefreshedInv == ASSUME AccessInv, PoliciesRefreshed PROVE AccessInv'
<1>0. AccessTyped /\ "http" \in Threads
  BY DEF AccessInv, Threads
<1>1. PICK r \in Work : r = proc["http"]
  BY <1>0, Actor DEF PoliciesRefreshed
<1>2. r # Null /\ r.op = "account" /\ r.doing = "refresh" /\ r.pc = "next" /\ Shape("http", r) /\ proc["http"] # Null
  BY <1>0, <1>1, Actor DEF PoliciesRefreshed, RefreshEnded, At
<1>3. r.account \in Accounts /\ r.row \in Switch
  BY <1>0, <1>2, ShapeBack DEF AccountShape
<1>4. ~Holding(proc["http"])
  BY <1>1, <1>2 DEF Holding, Answers
<1>5. CASE UndoAccount
  BY <1>1, <1>2, <1>3, <1>4, <1>5, UndoInv DEF PoliciesRefreshed
<1>6. CASE /\ Becomes("http", [proc["http"] EXCEPT !.doing = "rules",
                                 !.todo = {s \in Sites : proc["http"].account \in rules[s]}])
           /\ UNCHANGED <<accounts, spent>>
  <2>1. PICK todo \in SUBSET Sites : todo = {s \in Sites : proc["http"].account \in rules[s]}
    OBVIOUS
  <2>2. PICK q : q = [r EXCEPT !.doing = "rules", !.todo = todo]
    OBVIOUS
  <2>3. /\ q \in Work /\ q.doing = "rules" /\ q.todo = todo
        /\ q.op = r.op /\ q.pc = r.pc /\ q.account = r.account /\ q.row = r.row
    BY <2>2 DEF Work
  <2>4. Shape("http", q) /\ ~Holding(q)
    BY <1>2, <1>3, <2>3 DEF Shape, AccountShape, Holding
  <2>5. Bound(q)' /\ Read(q)'
    BY <1>2, <2>3, Unbound DEF Answers
  <2>6. Becomes("http", q)
    BY <1>1, <1>6, <2>1, <2>2
  <2>7. Grows
    BY <1>0, <1>6, StillGrows
  <2>8. QED
    BY <1>0, <1>4, <1>6, <2>3, <2>4, <2>5, <2>6, <2>7, RequestStep DEF PoliciesRefreshed, AccessTyped
<1>7. QED
  BY <1>5, <1>6 DEF PoliciesRefreshed

(* The transaction that writes an older password rule and its file.        *)
PasswordFiles(s, users) == [RulesFiles(s, users) EXCEPT !.htpasswd = Only(s, Admitted(users))]

LEMMA PasswordFileTyped ==
  ASSUME AccessTyped, NEW s \in Sites, NEW users \in SUBSET Accounts,
         NEW x, x = PasswordFiles(s, users)
  PROVE  /\ x \in Changes
         /\ DOMAIN x.access = {s} /\ DOMAIN x.slots = {} /\ DOMAIN x.main = {s} /\ DOMAIN x.htpasswd = {s}
         /\ x.access[s].kind = "rules" /\ x.access[s].policy.users = users /\ x.main[s] = files.main[s]
         /\ x.htpasswd[s] = Admitted(users)
<1>1. PICK f : f = RulesFiles(s, users)
  OBVIOUS
<1>2. /\ f \in Changes /\ DOMAIN f.access = {s} /\ f.slots = Nothing /\ DOMAIN f.main = {s}
      /\ f.access[s].kind = "rules" /\ f.access[s].policy.users = users /\ f.main[s] = files.main[s]
  BY <1>1, RulesFilesTyped
<1>3. PICK l \in Logins : l = Admitted(users)
  BY AdmittedTyped
<1>4. PICK h : h = Only(s, l)
  OBVIOUS
<1>5. h \in Some(Logins) /\ DOMAIN h = {s} /\ h[s] = l
  BY <1>3, <1>4, OnlyTyped
<1>6. x = [f EXCEPT !.htpasswd = h]
  BY <1>1, <1>3, <1>4 DEF PasswordFiles
<1>7. x \in Changes /\ x.access = f.access /\ x.slots = f.slots /\ x.main = f.main /\ x.htpasswd = h
  BY <1>2, <1>5, <1>6 DEF Changes
<1>8. QED
  BY <1>2, <1>3, <1>5, <1>7, QuietTyped

LEMMA RefreshRulesInv == ASSUME AccessInv, NEW s \in Sites, RefreshRules(s) PROVE AccessInv'
<1>0. AccessTyped /\ "http" \in Threads
  BY DEF AccessInv, Threads
<1>1. PICK r \in Work : r = proc["http"]
  BY <1>0, Actor DEF RefreshRules, At
<1>2. /\ r # Null /\ r.op = "account" /\ r.doing = "rules" /\ r.pc = "next" /\ Shape("http", r)
      /\ proc["http"] # Null /\ s \in r.todo /\ r.todo \in SUBSET Sites
  BY <1>0, <1>1, Actor DEF RefreshRules, At
<1>3. r.account \in Accounts /\ r.row \in Switch
  BY <1>0, <1>2, ShapeBack DEF AccountShape, RefreshShape
<1>4. ~Holding(proc["http"])
  BY <1>1, <1>2 DEF Holding, Answers
<1>5. CASE UndoAccount
  BY <1>1, <1>2, <1>3, <1>4, <1>5, UndoInv DEF RefreshRules
<1>6. CASE Becomes("http", [proc["http"] EXCEPT !.todo = @ \ {s}]) /\ UNCHANGED <<accounts, spent>>
  <2>1. PICK todo \in SUBSET Sites : todo = r.todo \ {s}
    BY <1>2
  <2>2. PICK q : q = [r EXCEPT !.todo = todo]
    OBVIOUS
  <2>3. /\ q \in Work /\ q.todo = todo /\ q.doing = r.doing
        /\ q.op = r.op /\ q.pc = r.pc /\ q.account = r.account /\ q.row = r.row
    BY <2>2 DEF Work
  <2>4. Shape("http", q) /\ ~Holding(q)
    BY <1>2, <1>3, <2>3 DEF Shape, AccountShape, Holding
  <2>5. Bound(q)' /\ Read(q)'
    BY <1>2, <2>3, Unbound DEF Answers
  <2>6. Becomes("http", q)
    BY <1>1, <1>6, <2>1, <2>2
  <2>7. Grows
    BY <1>0, <1>6, StillGrows
  <2>8. QED
    BY <1>0, <1>4, <1>6, <2>3, <2>4, <2>5, <2>6, <2>7, RequestStep DEF RefreshRules, AccessTyped
<1>7. CASE /\ ~Managed(s)
           /\ Becomes("http", [proc["http"] EXCEPT !.pc = "call", !.site = s,
                !.tx = [RulesFiles(s, rules[s]) EXCEPT !.htpasswd = Only(s, Admitted(rules[s]))]])
           /\ UNCHANGED <<accounts, spent>>
  <2>1. PICK x : x = PasswordFiles(s, rules[s])
    OBVIOUS
  <2>2. rules[s] \in SUBSET Accounts
    BY <1>0 DEF AccessTyped
  <2>3. /\ x \in Changes
        /\ DOMAIN x.access = {s} /\ DOMAIN x.slots = {} /\ DOMAIN x.main = {s} /\ DOMAIN x.htpasswd = {s}
        /\ x.access[s].kind = "rules"
    BY <1>0, <2>1, <2>2, PasswordFileTyped
  <2>4. PICK q : q = [r EXCEPT !.pc = "call", !.site = s, !.tx = x]
    OBVIOUS
  <2>5. x \in Changes
    BY <2>3
  <2>6. q \in Work
    BY <2>4, <2>5 DEF Work
  <2>7. /\ q.op = r.op /\ q.doing = "rules" /\ q.pc = "call" /\ q.site = s /\ q.todo = r.todo
        /\ q.account = r.account /\ q.row = r.row /\ q.tx = x
    BY <1>2, <2>4 DEF Work
  <2>8. RulesShape(q)
    BY <2>3, <2>7 DEF RulesShape, Answers, Writes
  <2>9. Shape("http", q) /\ ~Holding(q)
    BY <1>2, <1>3, <2>7, <2>8 DEF Shape, AccountShape, Holding
  <2>10. policy' = policy
    BY DEF RefreshRules
  <2>11. Bound(q)' /\ Read(q)'
    BY <1>2, <1>7, <2>7, <2>10 DEF Bound, BoundApply, BoundProxy, BoundRefresh, BoundRule, BoundRestore, Read, Managed
  <2>12. Becomes("http", q)
    BY <1>1, <1>7, <2>1, <2>4 DEF PasswordFiles
  <2>13. Grows
    BY <1>0, <1>7, StillGrows
  <2>14. QED
    BY <1>0, <1>4, <1>7, <2>6, <2>9, <2>11, <2>12, <2>13, RequestStep DEF RefreshRules, AccessTyped
<1>8. QED
  BY <1>5, <1>6, <1>7 DEF RefreshRules, LeftToPolicy

LEMMA RulesRefreshedInv == ASSUME AccessInv, RulesRefreshed PROVE AccessInv'
<1>0. AccessTyped /\ "http" \in Threads
  BY DEF AccessInv, Threads
<1>1. PICK r \in Work : r = proc["http"]
  BY <1>0, Actor DEF RulesRefreshed
<1>2. /\ r # Null /\ r.op = "account" /\ r.doing = "rules" /\ Shape("http", r)
      /\ proc["http"] # Null /\ r.todo \in SUBSET Sites
  BY <1>0, <1>1, Actor DEF RulesRefreshed, At
<1>3. r.account \in Accounts /\ r.row \in Switch
  BY <1>0, <1>2, ShapeBack DEF AccountShape, RefreshShape
<1>4. ~Holding(proc["http"])
  BY <1>1, <1>2 DEF Holding
<1>5. CASE UndoAccount
  BY <1>1, <1>2, <1>3, <1>4, <1>5, UndoInv DEF RulesRefreshed
<1>6. CASE Becomes("http", [proc["http"] EXCEPT !.pc = "next", !.todo = @ \ {proc["http"].site}])
           /\ UNCHANGED <<accounts, spent>>
  <2>1. PICK todo \in SUBSET Sites : todo = r.todo \ {r.site}
    BY <1>2
  <2>2. PICK q : q = [r EXCEPT !.pc = "next", !.todo = todo]
    OBVIOUS
  <2>3. /\ q \in Work /\ q.todo = todo /\ q.doing = r.doing
        /\ q.op = r.op /\ q.pc = "next" /\ q.account = r.account /\ q.row = r.row
    BY <2>2 DEF Work
  <2>4. Shape("http", q) /\ ~Holding(q)
    BY <1>2, <1>3, <2>3 DEF Shape, AccountShape, Holding
  <2>5. Bound(q)' /\ Read(q)'
    BY <1>2, <2>3, Unbound DEF Answers
  <2>6. Becomes("http", q)
    BY <1>1, <1>6, <2>1, <2>2
  <2>7. Grows
    BY <1>0, <1>6, StillGrows
  <2>8. QED
    BY <1>0, <1>4, <1>6, <2>3, <2>4, <2>5, <2>6, <2>7, RequestStep DEF RulesRefreshed, AccessTyped
<1>7. CASE Ends("http") /\ UNCHANGED <<accounts, spent>>
  BY <1>0, <1>4, <1>7, StillGrows, RequestStep DEF Ends, AccessTyped, RulesRefreshed
<1>8. QED
  BY <1>5, <1>6, <1>7 DEF RulesRefreshed

LEMMA DeleteAccountInv == ASSUME AccessInv, NEW a \in Accounts, DeleteAccount(a) PROVE AccessInv'
<1>0. AccessTyped
  BY DEF AccessInv
<1>1. Grows /\ proc["http"] = Null
  BY <1>0, BeginGrows DEF DeleteAccount, Serve, Begin, Threads
<1>2. PICK q : q = [Idle EXCEPT !.op = "account", !.doing = "delete", !.account = a]
  OBVIOUS
<1>3. /\ q \in Work /\ q.op = "account" /\ q.doing = "delete" /\ q.pc = "" /\ q.account = a
  BY <1>2, IdleTyped DEF Work
<1>4. Shape("http", q) /\ ~Holding(q)
  BY <1>3 DEF Shape, AccountShape, Holding
<1>5. Bound(q)' /\ Read(q)'
  BY <1>3, Unbound
<1>6. Becomes("http", q) /\ lock' = lock
  BY <1>2 DEF DeleteAccount
<1>7. QED
  BY <1>0, <1>1, <1>3, <1>4, <1>5, <1>6, RequestStep DEF DeleteAccount, tables, AccessTyped, Holding

LEMMA AccountDeletedInv == ASSUME AccessInv, AccountDeleted PROVE AccessInv'
BY StillGrows, RequestStep DEF AccessInv, Threads, AccountDeleted, AccessTyped, At, Holding, Ends

LEMMA StartRuleInv ==
  ASSUME AccessInv, NEW s \in Sites, NEW users \in SUBSET Accounts, StartRule(s, users)
  PROVE  AccessInv'
<1>0. AccessTyped /\ "http" \in Threads /\ "backup" \in Threads
  BY DEF AccessInv, Threads
<1>1. Grows /\ proc["http"] = Null
  BY <1>0, BeginGrows DEF StartRule, Serve, Begin
<1>2. rules[s] \in SUBSET Accounts /\ rules' \in [Sites -> SUBSET Accounts]
  BY <1>0 DEF StartRule, AccessTyped
<1>3. PICK x : x = IF users = rules[s] THEN RulesFiles(s, users) ELSE PasswordFiles(s, users)
  OBVIOUS
<1>4. /\ x \in Changes
      /\ DOMAIN x.access = {s} /\ DOMAIN x.slots = {} /\ DOMAIN x.main = {s} /\ DOMAIN x.htpasswd \subseteq {s}
      /\ x.access[s].kind = "rules"
  BY <1>0, <1>3, RulesFilesTyped, QuietTyped, PasswordFileTyped
<1>5. PICK y : y = [old |-> rules[s], new |-> users]
  OBVIOUS
<1>6. y \in Turn
  BY <1>2, <1>5 DEF Turn
<1>7. PICK q : q = [Idle EXCEPT !.op = "rule", !.doing = "rules", !.pc = "call", !.site = s, !.row = y, !.tx = x]
  OBVIOUS
<1>8. x \in Changes
  BY <1>4
<1>9. /\ q \in Work /\ q.op = "rule" /\ q.doing = "rules" /\ q.pc = "call" /\ q.site = s /\ q.row = y /\ q.tx = x
  BY <1>6, <1>7, <1>8, IdleTyped DEF Work, Turn
<1>10. RulesShape(q)
  BY <1>4, <1>9 DEF RulesShape, Answers, Writes
<1>11. Shape("http", q) /\ ~Holding(q)
  BY <1>6, <1>9, <1>10 DEF Shape, RuleShape, Holding
<1>12. Becomes("http", q) /\ lock' = lock /\ policy' = policy
  BY <1>3, <1>5, <1>7 DEF StartRule, PasswordFiles
<1>13. proc["backup"] # Null => proc["backup"].site # s
  BY <1>0, Actor, ThreadOps, NullIsNone DEF Holding, StartRule, Leased
<1>14. proc'["backup"] = proc["backup"]
  BY <1>0, <1>12 DEF Becomes, AccessTyped
<1>15. policy[s] = Null
  BY DEF StartRule
<1>16. Bound(q)' /\ Read(q)'
  BY <1>9, <1>12, <1>13, <1>14, <1>15 DEF Bound, BoundApply, BoundProxy, BoundRefresh, BoundRule, BoundRestore,
     Read, Managed
<1>17. QED
  BY <1>0, <1>1, <1>2, <1>9, <1>11, <1>12, <1>16, RequestStep DEF StartRule, AccessTyped, Holding

LEMMA RuleRequestsInv ==
  ASSUME AccessInv, NEW s \in Sites,
         \/ DeleteAuthRule(s) \/ EditDenyRules(s) \/ EditIPLimitRules(s)
         \/ \E users \in SUBSET Accounts : CreateAuthRule(s, users) \/ UpdateAuthRule(s, users)
  PROVE  AccessInv'
BY StartRuleInv DEF AccessInv, AccessTyped, DeleteAuthRule, EditDenyRules, EditIPLimitRules,
   CreateAuthRule, UpdateAuthRule

LEMMA RuleEndsInv == ASSUME AccessInv, RuleWritten \/ RuleFailed PROVE AccessInv'
<1>0. AccessTyped /\ "http" \in Threads
  BY DEF AccessInv, Threads
<1>1. PICK r \in Work : r = proc["http"]
  BY <1>0, Actor DEF RuleWritten, RuleFailed
<1>2. r # Null /\ r.op = "rule" /\ r.doing = "rules" /\ Shape("http", r) /\ proc["http"] # Null
  BY <1>0, <1>1, Actor DEF RuleWritten, RuleFailed, At
<1>3. r.row \in Turn /\ r.site \in Sites
  BY <1>0, <1>2, ShapeBack DEF RuleShape, RulesShape
<1>4. ~Holding(proc["http"])
  BY <1>1, <1>2 DEF Holding
<1>5. Grows /\ rules' \in [Sites -> SUBSET Accounts]
  <2>1. CASE RuleWritten
    BY <1>0, <2>1, StillGrows DEF RuleWritten, tables, AccessTyped
  <2>2. CASE RuleFailed
    BY <1>0, NoteGrows, <1>3, StillGrows, <1>1, <2>2 DEF Mishaps, AccessTyped, Turn, RuleFailed
  <2>3. QED
    BY <2>1, <2>2
<1>6. QED
  BY <1>0, <1>4, <1>5, RequestStep DEF RuleWritten, RuleFailed, Ends, tables, AccessTyped

-----------------------------------------------------------------------------
(* The proxies.                                                            *)

LEMMA ProxyStarts ==
  ASSUME AccessInv, NEW s \in Sites, policy[s] = Null \/ Managed(s), Serve, Take("http"),
         Becomes("http", [Idle EXCEPT !.op = "proxy", !.doing = "proxy", !.pc = "render", !.site = s]),
         proxies' \in [Sites -> Proxy \cup {Null}],
         UNCHANGED <<policy, accounts, rules, geo, files, backups, editor>>
  PROVE  AccessInv'
<1>0. AccessTyped /\ "http" \in Threads
  BY DEF AccessInv, Threads
<1>1. Grows /\ proc["http"] = Null /\ lock = Null /\ lock' = "http"
  BY <1>0, BeginGrows DEF Serve, Begin, Take
<1>2. PICK q : q = [Idle EXCEPT !.op = "proxy", !.doing = "proxy", !.pc = "render", !.site = s]
  OBVIOUS
<1>3. q \in Work
  BY <1>2, IdleTyped DEF Work
<1>4. q.op = "proxy" /\ q.doing = "proxy" /\ q.pc = "render" /\ q.site = s /\ q.p = Null
  BY <1>2, IdleTyped DEF Work
<1>5. ProxyShape(q) /\ q # Null
  BY <1>3, <1>4, NullIsNone DEF ProxyShape
<1>6. Steps("http", q)
  BY <1>1, <1>2, <1>3, <1>4, <1>5 DEF Steps, Shape, LockGoes, Holding, Becomes
<1>7. Bound(q)' /\ Read(q)'
  BY <1>4 DEF Bound, BoundApply, BoundProxy, BoundRefresh, BoundRule, BoundRestore, Read, Managed
<1>8. proc'["geo"] # Null => proc["geo"] # Null
  BY <1>0, <1>6 DEF Steps, AccessTyped, Threads
<1>9. OtherTables
  BY <1>0, <1>8 DEF OtherTables, AccessTyped, AccessInv, GeoStarted
<1>10. QED
  BY <1>0, <1>1, <1>6, <1>7, <1>9, QuietStep

LEMMA ProxyRequestsInv ==
  ASSUME AccessInv, NEW s \in Sites,
         SyncProxy(s) \/ DeleteProxy(s) \/ \E new \in Proxy : CreateProxy(s, new) \/ UpdateProxy(s, new)
  PROVE  AccessInv'
<1>0. AccessTyped
  BY DEF AccessInv
<1>1. CASE SyncProxy(s)
  BY <1>1, <1>0, ProxyStarts DEF SyncProxy, ProxyGuard, tables, AccessTyped
<1>2. CASE \E new \in Proxy \cup {Null} : WriteProxy(s, new)
  <2>1. PICK new \in Proxy \cup {Null} : WriteProxy(s, new)
    BY <1>2
  <2>2. policy[s] = Null \/ Managed(s)
    BY <2>1 DEF WriteProxy, ProxyGuard
  <2>3. proxies' \in [Sites -> Proxy \cup {Null}]
    BY <1>0, <2>1 DEF WriteProxy, AccessTyped
  <2>4. QED
    BY <2>1, <2>2, <2>3, ProxyStarts DEF WriteProxy
<1>3. QED
  BY <1>1, <1>2 DEF DeleteProxy, CreateProxy, UpdateProxy

LEMMA RelinkedTyped ==
  ASSUME NEW p \in Policy, NEW x \in Proxy \cup {Null}
  PROVE  /\ Relinked(p, x) \in Policy /\ Relinked(p, x).users = p.users
         /\ IF p.link = Null \/ x = Null THEN Relinked(p, x).link = Null /\ Relinked(p, x).off = FALSE
            ELSE Relinked(p, x).link = x.path /\ Relinked(p, x).off = ~x.on
<1>1. CASE p.link = Null \/ x = Null
  BY <1>1 DEF Relinked, Policy
<1>2. CASE ~(p.link = Null \/ x = Null)
  BY <1>2 DEF Proxy, Relinked, Policy
<1>3. QED
  BY <1>1, <1>2

(* The transaction that writes the proxies of a site, and its policy.      *)
ProxyFiles(s, p) == [PolicyFiles(s, p) EXCEPT !.main = Only(s, proxies[s])]
MainFiles(s)     == [Quiet EXCEPT !.main = Only(s, proxies[s])]

LEMMA MainTyped ==
  ASSUME AccessTyped, NEW s \in Sites, NEW m, m = Only(s, proxies[s])
  PROVE  m \in Some(Proxy \cup {Null}) /\ DOMAIN m = {s} /\ m[s] = proxies[s]
BY OnlyTyped DEF AccessTyped

LEMMA ProxyFilesTyped ==
  ASSUME AccessTyped, NEW s \in Sites, NEW p \in Policy, Renderable(p),
         NEW x, x = ProxyFiles(s, p)
  PROVE  /\ x \in Changes
         /\ DOMAIN x.access = {s} /\ DOMAIN x.slots = {s} /\ DOMAIN x.main = {s} /\ x.htpasswd = Nothing
         /\ x.access[s].kind = "policy" /\ x.access[s].policy = p /\ x.access[s].geo = geo
         /\ x.slots[s] = Snapshot(p) /\ x.slots[s].policy = p /\ x.main[s] = proxies[s]
<1>1. PICK f : f = PolicyFiles(s, p)
  OBVIOUS
<1>2. /\ f \in Changes
      /\ DOMAIN f.access = {s} /\ DOMAIN f.slots = {s} /\ f.htpasswd = Nothing
      /\ f.access[s].kind = "policy" /\ f.access[s].policy = p /\ f.access[s].geo = geo
      /\ f.slots[s] = Snapshot(p) /\ f.slots[s].policy = p
  BY <1>1, PolicyFilesTyped
<1>3. PICK m : m = Only(s, proxies[s])
  OBVIOUS
<1>7. m \in Some(Proxy \cup {Null}) /\ DOMAIN m = {s} /\ m[s] = proxies[s]
  BY <1>3, MainTyped
<1>4. x = [f EXCEPT !.main = m]
  BY <1>1, <1>3 DEF ProxyFiles
<1>5. x \in Changes /\ x.access = f.access /\ x.slots = f.slots /\ x.htpasswd = f.htpasswd /\ x.main = m
  BY <1>2, <1>7, <1>4 DEF Changes
<1>6. QED
  BY <1>2, <1>7, <1>5

LEMMA MainFilesTyped ==
  ASSUME AccessTyped, NEW s \in Sites, NEW x, x = MainFiles(s)
  PROVE  /\ x \in Changes
         /\ DOMAIN x.access = {} /\ DOMAIN x.slots = {} /\ DOMAIN x.main = {s} /\ x.htpasswd = Nothing
         /\ x.main[s] = proxies[s]
BY MainTyped, QuietTyped DEF Quiet, Changes, MainFiles

LEMMA RenderProxyInv == ASSUME AccessInv, RenderProxy PROVE AccessInv'
<1>0. AccessTyped /\ Rows /\ "http" \in Threads
  BY DEF AccessInv, Threads
<1>1. PICK r \in Work : r = proc["http"]
  BY <1>0, Actor DEF RenderProxy, At
<1>2. /\ r # Null /\ r.doing = "proxy" /\ r.pc = "render" /\ Shape("http", r) /\ proc["http"] # Null
      /\ Bound(r) /\ (lock = "http" <=> Holding(r))
  BY <1>0, <1>1, Actor DEF RenderProxy, At
<1>3. lock = "http" /\ r.op = "proxy" /\ r.p = Null
  BY <1>0, <1>2, ThreadOps, ShapeBack DEF Holding, ProxyShape, Answers
<1>4. PICK s \in Sites : s = r.site
  BY <1>0, <1>2, SiteOf
<1>5. PICK m : m = Only(s, proxies[s])
  OBVIOUS
<1>6. UNCHANGED <<accounts, rules, proxies, geo, files, backups, editor>>
  BY DEF RenderProxy
<1>7. PICK p : p = Relinked(policy[s].desired, proxies[s])
  OBVIOUS
<1>8. CASE /\ Managed(s) /\ Renderable(p)
           /\ policy' = [policy EXCEPT ![s] = Desired(s, p, TRUE)]
           /\ Becomes("http", [r EXCEPT !.pc = "call", !.v = policy[s].version + 1,
                                 !.p = p, !.tx = [PolicyFiles(s, p) EXCEPT !.main = m]])
           /\ UNCHANGED <<lock, spent>>
  <2>1. PICK old \in Row : old = policy[s]
    BY <1>0, <1>8 DEF Managed, AccessTyped
  <2>2. policy[s] # Null /\ old.desired \in Policy /\ old.version \in Nat
    BY <2>1, RowFields
  <2>3. p \in Policy
    BY <1>0, <1>7, <2>1, <2>2, RelinkedTyped DEF AccessTyped
  <2>4. PICK x : x = ProxyFiles(s, p)
    OBVIOUS
  <2>5. /\ x \in Changes
        /\ DOMAIN x.access = {s} /\ DOMAIN x.slots = {s} /\ DOMAIN x.main = {s} /\ x.htpasswd = Nothing
        /\ x.access[s].kind = "policy" /\ x.access[s].policy = p /\ x.slots[s].policy = p
    <3>1. Renderable(p)
      BY <1>8
    <3>2. QED
      BY <1>0, <1>4, <1>5, <2>3, <2>4, <3>1, ProxyFilesTyped
  <2>6. PICK n \in Nat : n = old.version + 1
    BY <2>2
  <2>7. PICK q : q = [r EXCEPT !.pc = "call", !.v = n, !.p = p, !.tx = x]
    OBVIOUS
  <2>8. /\ q \in Work /\ q.op = "proxy" /\ q.doing = "proxy" /\ q.pc = "call" /\ q.v = n /\ q.p = p /\ q.tx = x
        /\ q.site = s
    <3>1. x \in Changes
      BY <2>5
    <3>2. q \in Work
      BY <2>3, <2>7, <3>1 DEF Work
    <3>3. /\ q.op = r.op /\ q.doing = r.doing /\ q.pc = "call" /\ q.v = n /\ q.p = p /\ q.tx = x
          /\ q.site = r.site
      BY <1>1, <2>7 DEF Work
    <3>4. QED
      BY <1>2, <1>3, <1>4, <3>2, <3>3
  <2>9. q # Null /\ p # Null
    BY <2>3, <2>8, NullIsNone
  <2>10. ProxyShape(q)
    BY <2>3, <2>5, <2>8 DEF ProxyShape, Answers, Writes, WritesPolicy
  <2>11. Becomes("http", q) /\ lock' = "http"
    BY <1>3, <1>5, <1>8, <2>1, <2>4, <2>6, <2>7 DEF ProxyFiles
  <2>12. Steps("http", q)
    BY <1>3, <2>8, <2>9, <2>10, <2>11 DEF Steps, Shape, LockGoes, Holding, Becomes
  <2>13. PICK f \in BOOLEAN : f = TRUE
    OBVIOUS
  <2>19. PICK new : new = Desired(s, p, f)
    OBVIOUS
  <2>14. /\ new # Null /\ new.version = n /\ new.desired = p /\ new.at < n /\ new.mode = "unified"
         /\ policy'[s] = new
    <3>1. /\ new # Null /\ new.version = (IF policy[s] = Null THEN 1 ELSE policy[s].version + 1)
          /\ new.desired = p /\ new.at < new.version
          /\ policy[s] # Null => new.mode = policy[s].mode
      BY <1>0, <1>4, <2>3, <2>19, DesiredRow
    <3>2. policy'[s] = new
      BY <1>0, <1>4, <1>8, <2>19, <2>13 DEF AccessTyped
    <3>3. QED
      BY <1>8, <2>1, <2>2, <2>6, <3>1, <3>2 DEF Managed
  <2>15. Bound(q)' /\ Read(q)'
    BY <2>8, <2>9, <2>14 DEF Bound, BoundApply, BoundProxy, BoundRefresh, BoundRule, BoundRestore, Read, Managed
  <2>16. Grows
    BY <1>0, <1>8, StillGrows
  <2>17. policy' = [policy EXCEPT ![s] = Desired(s, p, f)]
    BY <1>8, <2>13
  <2>18. QED
    BY <1>6, <2>3, <2>8, <2>11, <2>12, <2>15, <2>16, <2>17, DesiredStep
<1>9. CASE /\ ~Managed(s)
           /\ Becomes("http", [r EXCEPT !.pc = "call", !.tx = [Quiet EXCEPT !.main = m]])
           /\ UNCHANGED <<policy, lock, spent>>
  <2>1. PICK x : x = MainFiles(s)
    OBVIOUS
  <2>2. /\ x \in Changes
        /\ DOMAIN x.access = {} /\ DOMAIN x.slots = {} /\ DOMAIN x.main = {s} /\ x.htpasswd = Nothing
    BY <1>0, <1>4, <1>5, <2>1, MainFilesTyped
  <2>3. PICK q : q = [r EXCEPT !.pc = "call", !.tx = x]
    OBVIOUS
  <2>4. x \in Changes
    BY <2>2
  <2>5. /\ q \in Work
        /\ q.op = "proxy" /\ q.doing = "proxy" /\ q.pc = "call" /\ q.site = s /\ q.p = Null /\ q.tx = x
    <3>1. q \in Work
      BY <1>1, <2>3, <2>4, CallRecord
    <3>2. q.op = r.op /\ q.doing = r.doing /\ q.pc = "call" /\ q.site = r.site /\ q.p = r.p /\ q.tx = x
      BY <1>1, <2>3 DEF Work
    <3>3. QED
      BY <1>2, <1>3, <1>4, <3>1, <3>2
  <2>6. ProxyShape(q) /\ q # Null
    BY <2>2, <2>5, NullIsNone DEF ProxyShape, Answers, Writes
  <2>7. Becomes("http", q)
    BY <1>5, <1>9, <2>1, <2>3 DEF MainFiles
  <2>8. Steps("http", q)
    BY <1>3, <1>9, <2>5, <2>6, <2>7 DEF Steps, Shape, LockGoes, Holding, Becomes
  <2>9. policy[s] = Null
    BY <1>2, <1>4, <1>9 DEF Bound, BoundProxy
  <2>10. Bound(q)' /\ Read(q)'
    BY <1>9, <2>5, <2>9 DEF Bound, BoundApply, BoundProxy, BoundRefresh, BoundRule, BoundRestore, Read, Managed
  <2>11. proc'["geo"] # Null => proc["geo"] # Null
    BY <1>0, <2>8 DEF Steps, AccessTyped, Threads
  <2>12. OtherTables
    BY <1>6, <2>11, SameTables
  <2>19. QED
    BY <1>0, <1>6, <1>9, <2>8, <2>10, <2>12, StillGrows, QuietStep
<1>10. CASE /\ \/ Managed(s) /\ ~Renderable(p) /\ Note("ahead", TRUE)
               \/ Strand
            /\ Free /\ Ends("http") /\ UNCHANGED policy
  <2>1. Steps("http", Null)
    BY <1>0, <1>1, <1>2, <1>10, Released DEF Holding
  <2>2. PICK b \in BOOLEAN : b = TRUE
    OBVIOUS
  <2>3. "ahead" \in Mishaps
    BY DEF Mishaps
  <2>4. Note("ahead", b) => Grows
    BY <1>0, <2>3, NoteGrows
  <2>5. Grows
    BY <1>0, <1>10, <2>2, <2>4, StrandGrows
  <2>6. proc'["geo"] # Null => proc["geo"] # Null
    BY <1>0, <2>1 DEF Steps, AccessTyped, Threads
  <2>7. OtherTables
    BY <1>6, <2>6, SameTables
  <2>8. QED
    BY <1>0, <1>6, <1>10, <2>1, <2>5, <2>7, QuietStep
<1>11. QED
  BY <1>1, <1>4, <1>5, <1>7, <1>8, <1>9, <1>10 DEF RenderProxy

LEMMA SameMarks == ASSUME AccessTyped, Rows, UNCHANGED policy PROVE Marks
BY RowFields DEF Marks, Onward, Managed, AccessTyped, Rows, RowOk

LEMMA FinishProxyInv == ASSUME AccessInv, FinishProxy PROVE AccessInv'
<1>0. AccessTyped /\ Rows /\ "http" \in Threads
  BY DEF AccessInv, Threads
<1>1. PICK r \in Work : r = proc["http"]
  BY <1>0, Actor DEF FinishProxy, At
<1>2. r # Null /\ r.doing = "proxy" /\ r.pc \in {"done", "failed"} /\ Shape("http", r) /\ proc["http"] # Null
  BY <1>0, <1>1, Actor DEF FinishProxy, At
<1>3. r.site \in Sites
  BY <1>0, <1>2, SiteOf
<1>4. Steps("http", Null) /\ lock = "http"
  BY <1>0, <1>1, <1>2, Released DEF FinishProxy, Holding
<1>5. UNCHANGED <<accounts, rules, proxies, geo, files, backups, editor>>
  BY DEF FinishProxy
<1>6. Grows /\ Marks
  <2>1. CASE Note("ahead", r.pc = "failed") /\ UNCHANGED policy
    BY <2>1, <1>0, NoteGrows, SameMarks DEF Mishaps
  <2>2. CASE MarkApplied(r.site, r.v) /\ NoteFinish("http")
    BY <2>2, <1>0, <1>3, NoteGrows, MarkAppliedMarks DEF NoteFinish, Mishaps
  <2>3. CASE Fault /\ UNCHANGED policy
    BY <1>0, <2>3, FaultGrows, SameMarks
  <2>4. CASE MarkError(r.site, r.v) /\ NoteUnknown(r.site)
    BY <2>4, <1>0, <1>3, NoteGrows, MarkErrorMarks DEF NoteUnknown, Mishaps
  <2>5. QED
    BY <1>1, <2>1, <2>2, <2>3, <2>4 DEF FinishProxy
<1>7. QED
  BY <1>0, <1>4, <1>5, <1>6, OnwardStep

-----------------------------------------------------------------------------
(* The GeoIP update.                                                       *)

LEMMA GeoStep ==
  ASSUME AccessInv, NEW q \in Work \cup {Null}, Becomes("geo", q), lock' = lock, ~Holding(proc["geo"]),
         q # Null => Shape("geo", q) /\ ~Holding(q) /\ geo' > 0 /\ (q.doing = "refresh" => q.pc = "next"),
         Grows, geo' \in Nat,
         UNCHANGED <<policy, accounts, rules, proxies, files, backups, editor>>
  PROVE  AccessInv'
<1>0. AccessTyped /\ "geo" \in Threads
  BY DEF AccessInv, Threads
<1>1. lock # "geo"
  BY <1>0 DEF AccessInv, Locked
<1>2. Steps("geo", q)
  BY <1>1 DEF Steps, LockGoes, Becomes, Holding
<1>3. proc'["geo"] = q
  BY <1>0 DEF Becomes, AccessTyped
<1>4. OtherTables
  BY <1>0, <1>3 DEF OtherTables, AccessTyped
<1>5. q # Null => q.op = "geo" /\ q.doing \notin {"apply", "proxy", "restore", "rules"}
  BY <1>0, ThreadOps
<1>6. q # Null => Bound(q)' /\ Read(q)'
  BY <1>5, Unbound DEF Answers
<1>7. QED
  BY <1>0, <1>2, <1>4, <1>6, QuietStep

(* The geo thread, between its steps.                                      *)
LEMMA GeoActor ==
  ASSUME AccessInv, proc["geo"] # Null
  PROVE  /\ proc["geo"] \in Work /\ Shape("geo", proc["geo"]) /\ proc["geo"].op = "geo" /\ geo > 0
         /\ proc["geo"].doing = "geo" => ~Holding(proc["geo"])
         /\ proc["geo"].pc = "next" => ~Holding(proc["geo"])
BY Actor, ThreadOps DEF Threads, AccessInv, GeoStarted, Holding, Answers

LEMMA StartUpdateInv == ASSUME AccessInv, StartUpdate PROVE AccessInv'
<1>0. AccessTyped /\ "geo" \in Threads
  BY DEF AccessInv, Threads
<1>1. Grows /\ proc["geo"] = Null
  BY <1>0, BeginGrows DEF StartUpdate, Begin
<1>2. PICK q : q = [Idle EXCEPT !.op = "geo", !.doing = "geo", !.pc = "read"]
  OBVIOUS
<1>3. q \in Work /\ q.op = "geo" /\ q.doing = "geo" /\ q.pc = "read"
  BY <1>2, IdleTyped DEF Work
<1>4. Shape("geo", q) /\ ~Holding(q)
  BY <1>3 DEF Shape, GeoShape, Holding
<1>5. geo' \in Nat /\ geo' > 0
  BY <1>0 DEF StartUpdate, InstallGeneration, AccessTyped
<1>6. Becomes("geo", q) /\ lock' = lock
  BY <1>2 DEF StartUpdate
<1>7. QED
  BY <1>1, <1>3, <1>4, <1>5, <1>6, GeoStep DEF StartUpdate, Holding

(* What the update writes back.                                            *)
GeoFiles(sites) == [Quiet EXCEPT !.access = [s \in sites |-> [files.access[s] EXCEPT !.geo = geo]],
                                 !.main = [s \in sites |-> files.main[s]]]

LEMMA GeoFilesTyped ==
  ASSUME AccessTyped, NEW sites \in SUBSET Sites, NEW x, x = GeoFiles(sites)
  PROVE  /\ x \in Changes
         /\ DOMAIN x.access = sites /\ DOMAIN x.slots = {} /\ DOMAIN x.main = sites /\ x.htpasswd = Nothing
         /\ \A s \in sites : /\ x.access[s].kind = files.access[s].kind
                             /\ x.access[s].policy = files.access[s].policy
                             /\ x.access[s].geo = geo /\ x.main[s] = files.main[s]
<1>1. PICK a : a = [s \in sites |-> [files.access[s] EXCEPT !.geo = geo]]
  OBVIOUS
<1>2. PICK m : m = [s \in sites |-> files.main[s]]
  OBVIOUS
<1>3. files.access \in [Sites -> Access] /\ files.main \in [Sites -> Proxy \cup {Null}] /\ geo \in Nat
  BY DEF AccessTyped, Files
<1>4. \A s \in sites : /\ [files.access[s] EXCEPT !.geo = geo] \in Access
                       /\ [files.access[s] EXCEPT !.geo = geo].kind = files.access[s].kind
                       /\ [files.access[s] EXCEPT !.geo = geo].policy = files.access[s].policy
                       /\ [files.access[s] EXCEPT !.geo = geo].geo = geo
  <2> TAKE s \in sites
  <2>1. files.access[s] \in Access
    BY <1>3
  <2>2. QED
    BY <1>3, <2>1 DEF Access
<1>5. a \in [sites -> Access] /\ m \in [sites -> Proxy \cup {Null}]
  BY <1>1, <1>2, <1>3, <1>4
<1>6. a \in Some(Access)
  BY <1>5 DEF Some
<1>7. m \in Some(Proxy \cup {Null})
  BY <1>5 DEF Some
<1>8. Quiet \in Changes /\ Quiet.slots = Nothing /\ Quiet.htpasswd = Nothing /\ DOMAIN Nothing = {}
  BY QuietTyped DEF Quiet
<1>9. x = [Quiet EXCEPT !.access = a, !.main = m]
  BY <1>1, <1>2 DEF GeoFiles
<1>10. x \in Changes /\ x.access = a /\ x.slots = Nothing /\ x.htpasswd = Nothing /\ x.main = m
  BY <1>6, <1>7, <1>8, <1>9 DEF Changes
<1>11. /\ DOMAIN x.access = sites /\ DOMAIN x.slots = {} /\ DOMAIN x.main = sites /\ x.htpasswd = Nothing
  BY <1>1, <1>2, <1>8, <1>10
<1>12. \A s \in sites : /\ x.access[s] = [files.access[s] EXCEPT !.geo = geo] /\ x.main[s] = files.main[s]
  BY <1>1, <1>2, <1>10
<1>13. QED
  BY <1>4, <1>10, <1>11, <1>12

LEMMA GeoToRefresh ==
  ASSUME AccessInv, proc["geo"] # Null, proc["geo"].doing = "geo", Becomes("geo", StartRefresh(proc["geo"])),
         UNCHANGED <<tables, files, backups, editor, lock, spent>>
  PROVE  AccessInv'
<1>0. AccessTyped /\ "geo" \in Threads
  BY DEF AccessInv, Threads
<1>1. PICK r \in Work : r = proc["geo"]
  BY <1>0, Actor
<1>2. r.op = "geo" /\ ~Holding(proc["geo"]) /\ geo > 0
  BY <1>1, GeoActor
<1>3. PICK q : q = StartRefresh(r)
  OBVIOUS
<1>4. q \in Work /\ q.doing = "refresh" /\ q.pc = "next" /\ q.op = r.op /\ RefreshShape(q) /\ ~Holding(q)
  BY <1>3, StartRefreshTyped
<1>5. Shape("geo", q)
  BY <1>2, <1>4 DEF Shape, GeoShape
<1>6. Grows
  BY <1>0, StillGrows
<1>7. QED
  BY <1>0, <1>1, <1>2, <1>3, <1>4, <1>5, <1>6, GeoStep DEF tables, AccessTyped

LEMMA ReadGeoSitesInv == ASSUME AccessInv, ReadGeoSites PROVE AccessInv'
<1>0. AccessTyped /\ "geo" \in Threads /\ GeoSites \subseteq Sites
  BY AccessAssumption DEF AccessInv, Threads
<1>1. PICK r \in Work : r = proc["geo"]
  BY <1>0, Actor DEF ReadGeoSites, At
<1>2. proc["geo"] # Null /\ r.doing = "geo" /\ r.pc = "read"
  BY <1>1 DEF ReadGeoSites, At
<1>3. r.op = "geo" /\ ~Holding(proc["geo"]) /\ geo > 0
  BY <1>1, <1>2, GeoActor
<1>4. PICK sites \in SUBSET Sites : sites = {s \in GeoSites : ~Managed(s)}
  BY <1>0
<1>5. CASE sites = {}
  BY <1>4, <1>5, <1>1, <1>2, GeoToRefresh DEF ReadGeoSites
<1>6. CASE sites # {}
  <2>1. PICK x : x = GeoFiles(sites)
    OBVIOUS
  <2>2. /\ x \in Changes
        /\ DOMAIN x.access = sites /\ DOMAIN x.slots = {} /\ DOMAIN x.main = sites /\ x.htpasswd = Nothing
    BY <1>0, <2>1, GeoFilesTyped
  <2>3. PICK q : q = [r EXCEPT !.pc = "call", !.tx = x]
    OBVIOUS
  <2>4. x \in Changes
    BY <2>2
  <2>5. q \in Work
    BY <2>3, <2>4, CallRecord
  <2>6. q.op = "geo" /\ q.doing = "geo" /\ q.pc = "call" /\ q.tx = x
    BY <1>2, <1>3, <2>3 DEF Work
  <2>7. Shape("geo", q) /\ ~Holding(q)
    BY <2>2, <2>6 DEF Shape, GeoShape, Holding, Answers, Writes
  <2>8. Becomes("geo", q)
    BY <1>1, <1>4, <1>6, <2>1, <2>3 DEF ReadGeoSites, GeoFiles
  <2>9. Grows
    BY <1>0, StillGrows DEF ReadGeoSites
  <2>10. QED
    BY <1>0, <1>3, <2>5, <2>6, <2>7, <2>8, <2>9, GeoStep DEF tables, ReadGeoSites, AccessTyped
<1>7. QED
  BY <1>5, <1>6

LEMMA GeoEndsInv == ASSUME AccessInv, GeoApplied \/ GeoFailed \/ GeoRefreshed PROVE AccessInv'
<1>0. AccessTyped /\ "geo" \in Threads /\ geo \in Nat
  BY DEF AccessInv, Threads, AccessTyped
<1>1. CASE GeoApplied
  BY <1>1, GeoToRefresh DEF GeoApplied, At
<1>2. CASE GeoFailed
  <2>1. PICK b \in BOOLEAN : b = TRUE
    OBVIOUS
  <2>2. Note("taken back", b) /\ "taken back" \in Mishaps
    BY <1>2, <2>1 DEF GeoFailed, Mishaps
  <2>3. Grows
    BY <1>0, <2>2, NoteGrows
  <2>4. geo > 0 /\ ~Holding(proc["geo"])
    BY <1>2, GeoActor DEF GeoFailed, At
  <2>5. geo' \in Nat
    <3>1. geo - 1 \in Nat
      BY <1>0, <2>4
    <3>2. geo' = geo - 1
      BY <1>2 DEF GeoFailed
    <3>3. QED
      BY <3>1, <3>2
  <2>6. Becomes("geo", Null)
    BY <1>2 DEF GeoFailed, Ends
  <2>7. QED
    BY <1>2, <2>3, <2>4, <2>5, <2>6, GeoStep DEF GeoFailed
<1>3. CASE GeoRefreshed
  BY <1>0, <1>3, Actor, NoteGrows, GeoActor, GeoStep DEF GeoRefreshed, Mishaps, RefreshEnded, At,
     Ends, tables
<1>4. QED
  BY <1>1, <1>2, <1>3

-----------------------------------------------------------------------------
(* Backups.                                                                *)

LEMMA BackupInv == ASSUME AccessInv, NEW s \in Sites, Backup(s) PROVE AccessInv'
<1>0. AccessTyped /\ Rows /\ "backup" \in Threads
  BY DEF AccessInv, Threads
<1>1. Grows /\ proc["backup"] = Null
  BY <1>0, BeginGrows DEF Backup, Begin
<1>2. PICK sl \in Slots : sl = files.slots[s]
  BY <1>0 DEF AccessTyped, Files
<1>3. sl.policy \in Policy
  BY DEF Slots
<1>4. PICK p \in Policy \cup {Null} : p = IF Managed(s) THEN sl.policy ELSE Null
  BY <1>3
<1>5. PICK b : b = [access |-> files.access[s], main |-> files.main[s], slots |-> sl, bundle |-> p]
  OBVIOUS
<1>6. b \in Saved
  BY <1>0, <1>5 DEF Saved, AccessTyped, Files
<1>7. backups' = [backups EXCEPT ![s] = b]
  BY <1>2, <1>4, <1>5 DEF Backup
<1>8. backups' \in [Sites -> Saved \cup {Null}]
  BY <1>0, <1>6, <1>7 DEF AccessTyped
<1>9. b.bundle # Null => b.bundle = b.slots.policy /\ Managed(s)
  BY <1>4, <1>5
<1>10. Bundled'
  BY <1>0, <1>7, <1>9 DEF AccessInv, Bundled, Managed, AccessTyped, Backup, tables
<1>11. Edits'
  BY <1>1, WithoutBack DEF AccessInv, Edits, Backup, tables
<1>12. QED
  BY <1>0, <1>1, <1>8, <1>10, <1>11, ApartStep DEF Backup, tables, AccessTyped

RestoreFiles(s, b) ==
  [Quiet EXCEPT !.access = Only(s, b.access), !.main = Only(s, b.main),
                !.slots = IF b.bundle = Null THEN Nothing ELSE Only(s, b.slots)]

LEMMA RestoreFilesTyped ==
  ASSUME NEW s \in Sites, NEW b \in Saved, NEW x, x = RestoreFiles(s, b)
  PROVE  /\ x \in Changes
         /\ DOMAIN x.access = {s} /\ DOMAIN x.slots = (IF b.bundle = Null THEN {} ELSE {s})
         /\ DOMAIN x.main = {s} /\ x.htpasswd = Nothing
         /\ x.access[s] = b.access /\ x.main[s] = b.main
         /\ b.bundle # Null => x.slots[s] = b.slots
<1>1. b.access \in Access /\ b.main \in Proxy \cup {Null} /\ b.slots \in Slots
  BY DEF Saved
<1>2. PICK a : a = Only(s, b.access)
  OBVIOUS
<1>3. a \in Some(Access) /\ DOMAIN a = {s} /\ a[s] = b.access
  BY <1>1, <1>2, OnlyTyped
<1>4. PICK m : m = Only(s, b.main)
  OBVIOUS
<1>5. m \in Some(Proxy \cup {Null}) /\ DOMAIN m = {s} /\ m[s] = b.main
  <2>1. PICK V : V = Proxy \cup {Null}
    OBVIOUS
  <2>2. b.main \in V
    BY <1>1, <2>1
  <2>3. m \in Some(V) /\ DOMAIN m = {s} /\ m[s] = b.main
    BY <1>4, <2>2, OnlyTyped
  <2>4. QED
    BY <2>1, <2>3
<1>6. PICK o : o = Only(s, b.slots)
  OBVIOUS
<1>7. o \in Some(Slots) /\ DOMAIN o = {s} /\ o[s] = b.slots
  BY <1>1, <1>6, OnlyTyped
<1>8. Quiet \in Changes /\ Nothing \in Some(Slots) /\ DOMAIN Nothing = {} /\ Quiet.htpasswd = Nothing
  BY QuietTyped DEF Quiet, Changes
<1>9. PICK l \in Some(Slots) : l = IF b.bundle = Null THEN Nothing ELSE o
  BY <1>7, <1>8
<1>10. x = [Quiet EXCEPT !.access = a, !.main = m, !.slots = l]
  BY <1>2, <1>4, <1>6, <1>9 DEF RestoreFiles
<1>11. x \in Changes /\ x.access = a /\ x.main = m /\ x.slots = l /\ x.htpasswd = Nothing
  BY <1>3, <1>5, <1>8, <1>10 DEF Changes
<1>12. QED
  BY <1>3, <1>5, <1>7, <1>8, <1>9, <1>11

LEMMA StartRestoreInv == ASSUME AccessInv, NEW s \in Sites, StartRestore(s) PROVE AccessInv'
<1>0. AccessTyped /\ "backup" \in Threads
  BY DEF AccessInv, Threads
<1>1. Grows /\ proc["backup"] = Null /\ lock = Null /\ lock' = "backup"
  BY <1>0, BeginGrows DEF StartRestore, Begin, Take
<1>2. PICK b \in Saved : b = backups[s]
  BY <1>0 DEF StartRestore, AccessTyped
<1>3. b.bundle \in Policy \cup {Null}
  BY DEF Saved
<1>4. PICK x : x = RestoreFiles(s, b)
  OBVIOUS
<1>5. /\ x \in Changes
      /\ DOMAIN x.access = {s} /\ DOMAIN x.slots = (IF b.bundle = Null THEN {} ELSE {s})
      /\ DOMAIN x.main = {s} /\ x.htpasswd = Nothing
      /\ x.access[s] = b.access /\ x.main[s] = b.main
      /\ b.bundle # Null => x.slots[s] = b.slots
  BY <1>4, RestoreFilesTyped
<1>6. PICK gone : gone = IF b.bundle = Null THEN {} ELSE {a \in b.bundle.users : accounts[a] = Null}
  OBVIOUS
<1>7. /\ gone \in SUBSET Accounts
      /\ b.bundle # Null => gone \subseteq b.bundle.users
      /\ b.bundle = Null => gone = {}
  BY <1>3, <1>6 DEF Policy
<1>8. PICK q : q = [Idle EXCEPT !.op = "restore", !.doing = "restore", !.pc = "call", !.site = s,
                      !.p = b.bundle, !.row = gone, !.tx = x]
  OBVIOUS
<1>9. q \in Work
  BY <1>5, <1>7, <1>3, <1>8, IdleTyped DEF Work
<1>10. /\ q.op = "restore" /\ q.doing = "restore" /\ q.pc = "call" /\ q.site = s /\ q.p = b.bundle
       /\ q.row = gone /\ q.tx = x
  BY <1>8, IdleTyped DEF Work
<1>11. RestoreShape(q) /\ q # Null
  BY <1>5, <1>7, <1>9, <1>10, NullIsNone DEF RestoreShape, Answers, Writes
<1>12. Becomes("backup", q)
  BY <1>2, <1>4, <1>6, <1>8 DEF StartRestore, RestoreFiles
<1>13. Steps("backup", q)
  BY <1>1, <1>9, <1>10, <1>11, <1>12 DEF Steps, Shape, LockGoes, Holding, Becomes
<1>14. UNCHANGED <<tables, files, backups, editor>> /\ ~RuleWriting(s)
  BY DEF StartRestore
<1>15. backups'[s] = b /\ b # Null
  BY <1>2, <1>14, NullIsNone
<1>16. Bound(q)' /\ Read(q)'
  BY <1>5, <1>7, <1>10, <1>15 DEF Bound, BoundApply, BoundProxy, BoundRefresh, BoundRule, BoundRestore, Read
<1>17. proc'["geo"] # Null => proc["geo"] # Null
  BY <1>0, <1>12 DEF Becomes, AccessTyped, Threads
<1>18. OtherTables
  BY <1>14, <1>17, SameTables DEF tables
<1>19. QED
  BY <1>0, <1>1, <1>10, <1>13, <1>14, <1>16, <1>18, QuietStep DEF tables

(* A site's row after a restore.                                           *)
InForceAgain(s, p, r) ==
  /\ r \in Row /\ r # Null /\ RowOk(r) /\ r.mode = "unified" /\ r.desired = p /\ r.applied = p
  /\ r.status = "applied" /\ r.at = r.version /\ r.fromProxy = FALSE
  /\ r.version = (IF policy[s] = Null THEN 1 ELSE policy[s].version + 1)

LEMMA RestoredRow ==
  ASSUME AccessTyped, NEW s \in Sites, NEW p \in Policy
  PROVE  InForceAgain(s, p, Restored(s, p))
<1>0. PICK new : new = Restored(s, p)
  OBVIOUS
<1>1. PICK v \in Nat : v = (IF policy[s] = Null THEN 1 ELSE policy[s].version + 1) /\ v > 0
  BY RowFields DEF AccessTyped
<1>2. new = [mode |-> "unified", version |-> v, desired |-> p, applied |-> p, at |-> v,
             status |-> "applied", fromProxy |-> FALSE]
  BY <1>0, <1>1, NullIsNone DEF Restored
<1>3. new \in Row
  BY <1>1, <1>2 DEF Row
<1>4. /\ new.mode = "unified" /\ new.desired = p /\ new.applied = p /\ new.status = "applied"
      /\ new.at = v /\ new.version = v /\ new.fromProxy = FALSE
  BY <1>2
<1>5. RowOk(new) /\ new # Null
  BY <1>1, <1>3, <1>4, NullIsNone DEF RowOk
<1>6. QED
  BY <1>0, <1>1, <1>3, <1>4, <1>5 DEF InForceAgain

LEMMA RestoredNone == ASSUME NEW s PROVE Restored(s, Null) = Null
BY DEF Restored

(* The restore is committed.                                               *)
Committed ==
  LET s   == proc["backup"].site
      p   == proc["backup"].p
      new == proc["backup"].row
  IN /\ \A a \in new : accounts[a] = Null
     /\ policy' = [policy EXCEPT ![s] = Restored(s, p)]
     /\ accounts' = Rewritten([a \in new |-> backups[s].slots.accounts[a]], accounts)
     /\ spent' = [spent EXCEPT !.mishaps = @ \cup
          (IF Refreshing THEN {"overlap"} ELSE {}) \cup (IF p = Null THEN {"older"} ELSE {"restored"})
          \cup (IF Outdated(s, p, new) THEN {"changed"} ELSE {})]

LEMMA CommittedFacts ==
  ASSUME AccessInv, At("backup", "restore", "done"), Committed, NEW r, r = proc["backup"]
  PROVE  /\ r \in Work /\ r.site \in Sites /\ r.p \in Policy \cup {Null} /\ r.row \in SUBSET Accounts
         /\ lock = "backup" /\ Holding(r) /\ r # Null /\ r.doing = "restore"
         /\ backups[r.site] \in Saved /\ r.p = backups[r.site].bundle
         /\ r.p # Null => /\ r.row \subseteq r.p.users /\ Managed(r.site)
                          /\ backups[r.site].slots \in Slots /\ backups[r.site].slots.policy = r.p
                          /\ backups[r.site].slots.accounts \in [r.p.users -> Account]
         /\ r.p = Null => r.row = {}
         /\ policy' = [policy EXCEPT ![r.site] = Restored(r.site, r.p)]
         /\ policy' \in [Sites -> Row \cup {Null}] /\ policy'[r.site] = Restored(r.site, r.p)
         /\ \A s \in Sites \ {r.site} : policy'[s] = policy[s]
         /\ accounts' \in [Accounts -> Account \cup {Null}]
         /\ \A a \in Accounts : /\ a \in r.row => accounts[a] = Null /\ accounts'[a] = backups[r.site].slots.accounts[a]
                                /\ a \notin r.row => accounts'[a] = accounts[a]
         /\ Grows
         /\ Refreshing => "overlap" \in spent'.mishaps
         /\ r.p = Null => "older" \in spent'.mishaps
         /\ r.p # Null => "restored" \in spent'.mishaps
         /\ Outdated(r.site, r.p, r.row) => "changed" \in spent'.mishaps
<1>0. AccessTyped /\ Rows /\ "backup" \in Threads
  BY DEF AccessInv, Threads
<1>1. /\ r \in Work /\ r # Null /\ r.doing = "restore" /\ r.pc = "done" /\ Shape("backup", r) /\ Bound(r)
      /\ (lock = "backup" <=> Holding(r)) /\ r.p \in Policy \cup {Null}
  BY <1>0, Actor DEF At
<1>2. r.site \in Sites /\ r.row \in SUBSET Accounts
  BY <1>0, <1>1, ShapeBack DEF RestoreShape
<1>3. Holding(r) /\ lock = "backup"
  BY <1>1 DEF Holding
<1>4. /\ backups[r.site] # Null /\ r.p = backups[r.site].bundle
      /\ r.p # Null => r.row \subseteq r.p.users
      /\ r.p = Null => r.row = {}
  BY <1>1 DEF Bound, BoundRestore
<1>5. PICK b \in Saved : b = backups[r.site]
  BY <1>0, <1>2, <1>4 DEF AccessTyped
<1>6. b.slots \in Slots
  BY DEF Saved
<1>7. r.p # Null => Managed(r.site) /\ b.slots.policy = r.p
  BY <1>2, <1>4, <1>5 DEF AccessInv, Bundled
<1>8. r.p # Null => b.slots.accounts \in [r.p.users -> Account]
  BY <1>6, <1>7 DEF Slots
<1>9. policy' = [policy EXCEPT ![r.site] = Restored(r.site, r.p)]
  BY DEF Committed
<1>10. Restored(r.site, r.p) \in Row \cup {Null}
  <2>1. CASE r.p = Null
    BY <2>1, RestoredNone
  <2>2. CASE r.p \in Policy
    BY <1>0, <1>2, <2>2, RestoredRow DEF InForceAgain
  <2>3. QED
    BY <1>1, <2>1, <2>2
<1>11. /\ policy' \in [Sites -> Row \cup {Null}] /\ policy'[r.site] = Restored(r.site, r.p)
       /\ \A s \in Sites \ {r.site} : policy'[s] = policy[s]
  BY <1>0, <1>2, <1>9, <1>10 DEF AccessTyped
<1>12. \A a \in r.row : accounts[a] = Null
  BY DEF Committed
<1>13. PICK g : g = [a \in r.row |-> b.slots.accounts[a]]
  OBVIOUS
<1>14. g \in [r.row -> Account]
  BY <1>4, <1>8, <1>13
<1>15. accounts' = [a \in Accounts |-> IF a \in r.row THEN g[a] ELSE accounts[a]]
  BY <1>0, <1>5, <1>13 DEF Committed, Rewritten, AccessTyped
<1>16. accounts' \in [Accounts -> Account \cup {Null}]
  BY <1>0, <1>14, <1>15 DEF AccessTyped
<1>17. \A a \in Accounts : /\ a \in r.row => accounts'[a] = b.slots.accounts[a]
                           /\ a \notin r.row => accounts'[a] = accounts[a]
  BY <1>2, <1>13, <1>15
<1>18. PICK m \in SUBSET Mishaps :
         m = spent.mishaps \cup
          (IF Refreshing THEN {"overlap"} ELSE {}) \cup (IF r.p = Null THEN {"older"} ELSE {"restored"})
          \cup (IF Outdated(r.site, r.p, r.row) THEN {"changed"} ELSE {})
  BY <1>0 DEF AccessTyped, Spent, Mishaps
<1>19. spent' = [spent EXCEPT !.mishaps = m]
  BY <1>18 DEF Committed
<1>20. spent'.mishaps = m /\ spent' \in Spent
  BY <1>0, <1>19 DEF AccessTyped, Spent
<1>21. Grows
  BY <1>18, <1>20 DEF Grows
<1>22. QED
  BY <1>1, <1>2, <1>3, <1>4, <1>5, <1>6, <1>7, <1>8, <1>9, <1>11, <1>12, <1>16, <1>17, <1>18, <1>20, <1>21

LEMMA CommittedInv ==
  ASSUME AccessInv, At("backup", "restore", "done"), Committed, Free, Ends("backup"),
         UNCHANGED <<rules, proxies, geo, files, backups, editor>>
  PROVE  AccessInv'
<1>0. AccessTyped /\ Rows /\ "backup" \in Threads
  BY DEF AccessInv, Threads
<1>1. PICK r : r = proc["backup"]
  OBVIOUS
<1>2. /\ r \in Work /\ r.site \in Sites /\ r.p \in Policy \cup {Null}
      /\ lock = "backup" /\ Holding(r) /\ r # Null /\ r.doing = "restore"
      /\ backups[r.site] \in Saved /\ r.p = backups[r.site].bundle
      /\ r.p # Null => Managed(r.site)
      /\ policy' \in [Sites -> Row \cup {Null}] /\ policy'[r.site] = Restored(r.site, r.p)
      /\ \A s \in Sites \ {r.site} : policy'[s] = policy[s]
      /\ accounts' \in [Accounts -> Account \cup {Null}]
      /\ Grows
      /\ Refreshing => "overlap" \in spent'.mishaps
      /\ r.p = Null => "older" \in spent'.mishaps
  BY <1>1, CommittedFacts
<1>3. PICK new : new = Restored(r.site, r.p)
  OBVIOUS
<1>4. /\ r.p = Null => new = Null
      /\ r.p # Null => /\ new \in Row /\ new # Null /\ RowOk(new) /\ new.mode = "unified" /\ new.at = new.version
                       /\ policy[r.site] = Null => new.version = 1
                       /\ policy[r.site] # Null => new.version = policy[r.site].version + 1
  <2>1. CASE r.p = Null
    BY <1>3, <2>1, RestoredNone
  <2>2. CASE r.p \in Policy
    <3>1. InForceAgain(r.site, r.p, new)
      BY <1>0, <1>2, <1>3, <2>2, RestoredRow
    <3>2. QED
      BY <2>2, <3>1, NullIsNone DEF InForceAgain
  <2>3. QED
    BY <1>2, <2>1, <2>2
<1>5. Steps("backup", Null)
  BY <1>0, <1>1, <1>2, Released
<1>6. /\ proc' \in [Threads -> Work \cup {Null}] /\ lock' \in Threads \cup {Null}
      /\ Shaped' /\ Locked'
      /\ proc'["backup"] = Null /\ \A u \in Threads \ {"backup"} : proc'[u] = proc[u]
  BY <1>0, <1>5, ThreadStep DEF AccessInv
<1>7. AccessTyped'
  BY <1>0, <1>2, <1>6 DEF AccessTyped, Grows
<1>8. Rows'
  BY <1>0, <1>2, <1>3, <1>4 DEF Rows, RowOk
<1>9. \A s \in Sites : policy[s] # Null => policy[s].version \in Nat /\ policy[s].at \in Nat
  BY <1>0, RowFields DEF AccessTyped
<1>10. Edits'
  <2> SUFFICES ASSUME Without({"older"})', editor # Null
               PROVE  IF policy'[editor.site] = Null THEN editor.version = 0 /\ editor.seen = Null
                      ELSE /\ editor.version <= policy'[editor.site].version
                           /\ editor.version = policy'[editor.site].version =>
                                policy'[editor.site].desired = editor.seen
    BY DEF Edits
  <2>1. r.p # Null /\ Without({"older"})
    BY <1>2, WithoutBack DEF Without
  <2>2. editor \in Editor
    BY <1>0 DEF AccessTyped
  <2>3. editor.site \in Sites /\ editor.version \in Nat
    BY <2>2 DEF Editor
  <2>4. IF policy[editor.site] = Null THEN editor.version = 0 /\ editor.seen = Null
        ELSE /\ editor.version <= policy[editor.site].version
             /\ editor.version = policy[editor.site].version => policy[editor.site].desired = editor.seen
    BY <2>1 DEF AccessInv, Edits
  <2>5. QED
    BY <2>1, <2>3, <2>4, <1>2, <1>3, <1>4, <1>9
<1>11. Bundled'
  BY <1>2, <1>3, <1>4 DEF AccessInv, Bundled, Managed
<1>12. ASSUME NEW u \in Threads \ {"backup"}, proc[u] # Null, NEW w, w = proc[u]
       PROVE  Bound(w)' /\ (Fresh' => Read(w)')
  <2>1. w.doing \notin {"apply", "proxy", "restore"} /\ (w.doing = "refresh" => w.pc \notin Answers)
    BY <1>0, <1>2, <1>12, LockedOut
  <2>2. w \in Work /\ Shape(u, w) /\ Bound(w) /\ (Fresh => Read(w))
    BY <1>12, Actor
  <2>3. w.op = "rule" => w.site # r.site /\ w.site \in Sites
    BY <2>2, SiteOf, <1>1, <1>2 DEF Bound, BoundRule
  <2>4. w.doing = "rules" /\ w.pc \in Answers => ~Managed(w.site)'
    BY <2>2, SiteOf, <1>2, <1>3, <1>4 DEF Answers, Bound, BoundRule, Managed
  <2>5. w.op = "rule" => policy'[w.site] = Null
    BY <1>2, <2>2, <2>3 DEF Bound, BoundRule
  <2>6. Bound(w)'
    BY <1>6, <2>1, <2>4, <2>5 DEF Bound, BoundApply, BoundProxy, BoundRefresh, BoundRule, BoundRestore
  <2>7. Fresh' => Read(w)'
    <3> SUFFICES ASSUME Fresh', w.doing = "refresh", w.pc = "lock"
                 PROVE  /\ policy'[w.site] # Null /\ w.v <= policy'[w.site].at
                        /\ policy'[w.site].at = w.v => policy'[w.site].applied = w.p
      BY <2>1 DEF Read
    <3>1. Fresh
      BY <1>2, WithoutBack DEF Fresh
    <3>2. w.site \in Sites /\ w.v \in Nat
      BY <2>2, SiteOf DEF Work
    <3>3. /\ policy[w.site] # Null /\ w.v <= policy[w.site].at
          /\ policy[w.site].at = w.v => policy[w.site].applied = w.p
      BY <2>2, <3>1 DEF Read
    <3>4. CASE w.site # r.site
      BY <1>2, <3>2, <3>3, <3>4
    <3>5. CASE w.site = r.site
      <4>1. w.op \in {"account", "geo"}
        BY <2>2, ThreadOps
      <4>2. Refreshing
        BY <1>12, <4>1 DEF Refreshing
      <4>3. r.p # Null
        BY <1>2, <4>2 DEF Fresh, Without
      <4>4. policy[r.site].at <= policy[r.site].version
        BY <1>0, <1>2, <3>3, <3>5 DEF Rows, RowOk
      <4>5. w.v < new.at
        BY <1>2, <1>4, <1>9, <3>2, <3>3, <3>5, <4>3, <4>4
      <4>6. QED
        BY <1>2, <1>3, <1>4, <3>5, <4>3, <4>5, <3>2, RowFields
    <3>6. QED
      BY <3>4, <3>5
  <2>8. QED
    BY <2>6, <2>7
<1>13. Bounds'
  BY <1>6, <1>12 DEF Bounds
<1>14. Reads'
  BY <1>6, <1>12 DEF Reads
<1>15. GeoStarted'
  BY <1>6 DEF AccessInv, GeoStarted, Threads
<1>16. QED
  BY <1>6, <1>7, <1>8, <1>10, <1>11, <1>13, <1>14, <1>15 DEF AccessInv

LEMMA RestoreEndsInv == ASSUME AccessInv, CommitRestore \/ FailRestore PROVE AccessInv'
<1>0. AccessTyped /\ "backup" \in Threads
  BY DEF AccessInv, Threads
<1>1. /\ proc["backup"] # Null /\ proc["backup"].doing = "restore" /\ Free /\ Ends("backup")
      /\ UNCHANGED <<rules, proxies, geo, files, backups, editor>>
  BY DEF CommitRestore, FailRestore, At, tables
<1>2. Steps("backup", Null)
  BY <1>0, <1>1, Released DEF Holding
<1>3. CASE Grows /\ UNCHANGED <<policy, accounts>>
  BY <1>0, <1>1, <1>3, SameTables, <1>2, QuietStep DEF Ends, Becomes, AccessTyped, Threads
<1>4. CASE At("backup", "restore", "done") /\ Committed
  BY <1>1, <1>4, CommittedInv
<1>5. ASSUME Note("adrift", TRUE) PROVE Grows
  BY <1>5, <1>0, NoteGrows DEF Mishaps
<1>6. Lost => Grows
  BY <1>0, LostGrows
<1>7. UNCHANGED spent => Grows
  BY <1>0, StillGrows
<1>8. CASE CommitRestore
  BY <1>3, <1>4, <1>5, <1>6, <1>8 DEF CommitRestore, Committed
<1>9. CASE FailRestore
  BY <1>3, <1>7, <1>9 DEF FailRestore, tables
<1>10. QED
  BY <1>8, <1>9

-----------------------------------------------------------------------------
(* The panel stops.                                                        *)

LEMMA CrashFacts ==
  ASSUME AccessInv, Crash
  PROVE  /\ \A t \in Threads : proc'[t] = Null
         /\ lock' = Null /\ Grows /\ "lost" \in spent'.mishaps /\ files' \in Files
         /\ UNCHANGED <<policy, accounts, rules, proxies, geo, backups, editor>>
<1>0. AccessTyped
  BY DEF AccessInv
<1>1. files' \in Files
  <2>1. CASE UNCHANGED files
    BY <1>0, <2>1 DEF AccessTyped
  <2>2. CASE \E t \in Threads : proc[t] # Null /\ proc[t].pc = "call" /\ files' = After(proc[t].tx)
    BY <2>2, Actor, <1>0, AfterTyped
  <2>3. QED
    BY <2>1, <2>2 DEF Crash
<1>2. Grows /\ "lost" \in spent'.mishaps
  BY <1>0, LostGrows DEF Crash
<1>3. QED
  BY <1>1, <1>2 DEF Crash, tables

LEMMA CrashInv == ASSUME AccessInv, Crash PROVE AccessInv'
<1>0. AccessTyped
  BY DEF AccessInv
<1>1. /\ \A t \in Threads : proc'[t] = Null
      /\ lock' = Null /\ Grows /\ files' \in Files
      /\ UNCHANGED <<policy, accounts, rules, proxies, geo, backups, editor>>
  BY CrashFacts
<1>2. proc' \in [Threads -> Work \cup {Null}]
  BY DEF Crash
<1>3. AccessTyped'
  BY <1>0, <1>1, <1>2 DEF AccessTyped, Grows
<1>4. Shaped' /\ Bounds' /\ Reads' /\ GeoStarted'
  BY <1>1 DEF Shaped, Bounds, Reads, GeoStarted, Threads
<1>5. Locked'
  BY <1>1, NullIsNone DEF Locked, Holding
<1>6. Rows' /\ Bundled'
  BY <1>1 DEF AccessInv, Rows, RowOk, Bundled, Managed
<1>7. Edits'
  BY <1>1, WithoutBack DEF AccessInv, Edits
<1>8. QED
  BY <1>3, <1>4, <1>5, <1>6, <1>7 DEF AccessInv

-----------------------------------------------------------------------------
(* The invariant.                                                          *)

(* A policy in force from the start.                                       *)
LEMMA InForceTyped ==
  ASSUME NEW p \in Policy
  PROVE  /\ InForce(p) \in Row /\ RowOk(InForce(p))
         /\ InForce(p).mode = "unified" /\ InForce(p).version = 1 /\ InForce(p).at = 1
         /\ InForce(p).desired = p /\ InForce(p).applied = p /\ InForce(p).status = "applied"
         /\ InForce(p).fromProxy = FALSE
BY NullIsNone DEF InForce, Row, RowOk

(* The policy each site starts with, and the accounts it lets in.          *)
Started(s) == IF Managed(s) THEN policy[s].applied ELSE Open

LEMMA InitFacts ==
  ASSUME Init
  PROVE  /\ policy \in [Sites -> Row \cup {Null}] /\ accounts \in [Accounts -> Account]
         /\ \A a \in Accounts : Enabled(a)
         /\ \A s \in Sites : policy[s] # Null =>
              /\ RowOk(policy[s]) /\ policy[s].mode = "unified" /\ policy[s].version = 1 /\ policy[s].at = 1
              /\ policy[s].status = "applied" /\ policy[s].fromProxy = FALSE
              /\ policy[s].desired = policy[s].applied /\ policy[s].applied \in Policy
              /\ policy[s].applied.link = Null /\ policy[s].applied.off = FALSE
         /\ \A s \in Sites : Started(s) \in Policy
<1>1. PICK pw \in Passwords : accounts = [a \in Accounts |-> [pw |-> pw, on |-> TRUE]]
  BY DEF Init
<1>2. accounts \in [Accounts -> Account]
  BY <1>1 DEF Account
<1>3. \A a \in Accounts : Enabled(a)
  BY <1>1, <1>2, NullIsNone DEF Enabled
<1>4. PICK all : all = [Open EXCEPT !.users = Accounts]
  OBVIOUS
<1>5. Open \in Policy /\ Open.link = Null /\ Open.off = FALSE
  BY OpenTyped DEF Open
<1>6. all \in Policy /\ all.link = Null /\ all.off = FALSE
  BY <1>4, <1>5 DEF Policy
<1>7. ASSUME NEW s \in Sites, policy[s] # Null
      PROVE  \E p \in Policy : policy[s] = InForce(p) /\ p.link = Null /\ p.off = FALSE
  BY <1>4, <1>7, <1>5, <1>6 DEF Init
<1>8. \A s \in Sites : policy[s] # Null =>
        /\ policy[s] \in Row
        /\ RowOk(policy[s]) /\ policy[s].mode = "unified" /\ policy[s].version = 1 /\ policy[s].at = 1
        /\ policy[s].status = "applied" /\ policy[s].fromProxy = FALSE
        /\ policy[s].desired = policy[s].applied /\ policy[s].applied \in Policy
        /\ policy[s].applied.link = Null /\ policy[s].applied.off = FALSE
  <2> SUFFICES ASSUME NEW s \in Sites, policy[s] # Null
               PROVE  /\ policy[s] \in Row
                      /\ RowOk(policy[s]) /\ policy[s].mode = "unified" /\ policy[s].version = 1
                      /\ policy[s].at = 1 /\ policy[s].status = "applied" /\ policy[s].fromProxy = FALSE
                      /\ policy[s].desired = policy[s].applied /\ policy[s].applied \in Policy
                      /\ policy[s].applied.link = Null /\ policy[s].applied.off = FALSE
    OBVIOUS
  <2>1. PICK p \in Policy : policy[s] = InForce(p) /\ p.link = Null /\ p.off = FALSE
    BY <1>7
  <2>2. InForce(p) \in Row /\ RowOk(InForce(p)) /\ InForce(p).applied = p
    BY InForceTyped
  <2>3. /\ InForce(p).mode = "unified" /\ InForce(p).version = 1 /\ InForce(p).at = 1
        /\ InForce(p).desired = p /\ InForce(p).status = "applied" /\ InForce(p).fromProxy = FALSE
    BY InForceTyped
  <2>4. QED
    BY <2>1, <2>2, <2>3
<1>9. policy \in [Sites -> Row \cup {Null}]
  BY <1>8 DEF Init
<1>10. \A s \in Sites : Started(s) \in Policy
  BY <1>5, <1>8 DEF Started, Managed
<1>11. QED
  BY <1>2, <1>3, <1>8, <1>9, <1>10

LEMMA InitFiles ==
  ASSUME Init
  PROVE  /\ files \in Files
         /\ \A s \in Sites :
              /\ files.access[s].kind = (IF Managed(s) THEN "policy" ELSE "rules") /\ files.access[s].geo = 0
              /\ Managed(s) => files.access[s].policy = policy[s].applied
              /\ ~Managed(s) => files.access[s].policy.users = rules[s]
              /\ files.slots[s] = Snapshot(Started(s)) /\ files.slots[s].policy = Started(s)
              /\ files.slots[s].accounts = [a \in Started(s).users |-> accounts[a]]
              /\ files.htpasswd[s] = Admitted(rules[s]) /\ files.main[s] = proxies[s]
<1>1. /\ policy \in [Sites -> Row \cup {Null}] /\ accounts \in [Accounts -> Account]
      /\ \A s \in Sites : Started(s) \in Policy
      /\ \A s \in Sites : policy[s] # Null => policy[s].applied \in Policy
  BY InitFacts
<1>2. rules \in [Sites -> SUBSET Accounts]
  BY DEF Init
<1>3. proxies \in [Sites -> Proxy \cup {Null}]
  BY DEF Init
<1>4. PICK a : a = [s \in Sites |->
                   [kind |-> IF Managed(s) THEN "policy" ELSE "rules",
                    policy |-> IF Managed(s) THEN policy[s].applied ELSE [Open EXCEPT !.users = rules[s]],
                    geo |-> 0]]
  OBVIOUS
<1>5. PICK l : l = [s \in Sites |-> Snapshot(Started(s))]
  OBVIOUS
<1>6. PICK h : h = [s \in Sites |-> Admitted(rules[s])]
  OBVIOUS
<1>7. files = [access |-> a, slots |-> l, htpasswd |-> h, main |-> proxies]
  BY <1>4, <1>5, <1>6 DEF Init, Started
<1>8. \A s \in Sites : [Open EXCEPT !.users = rules[s]] \in Policy /\ [Open EXCEPT !.users = rules[s]].users = rules[s]
  BY <1>2, OpenTyped DEF Policy
<1>9. a \in [Sites -> Access]
  BY <1>1, <1>8, <1>4 DEF Managed, Access
<1>10. \A s \in Sites : /\ a[s].kind = (IF Managed(s) THEN "policy" ELSE "rules") /\ a[s].geo = 0
                        /\ Managed(s) => a[s].policy = policy[s].applied
                        /\ ~Managed(s) => a[s].policy.users = rules[s]
  BY <1>4, <1>8
<1>11. \A s \in Sites : /\ l[s] = Snapshot(Started(s)) /\ l[s].policy = Started(s)
                        /\ l[s].accounts = [x \in Started(s).users |-> accounts[x]]
  BY <1>5 DEF Snapshot
<1>12. \A s \in Sites : Snapshot(Started(s)) \in Slots
  <2> TAKE s \in Sites
  <2>1. PICK p \in Policy : p = Started(s)
    BY <1>1
  <2>2. p.users \in SUBSET Accounts
    BY DEF Policy
  <2>3. [x \in p.users |-> accounts[x]] \in [p.users -> Account]
    BY <1>1, <2>2
  <2>4. QED
    BY <2>1, <2>2, <2>3 DEF Snapshot, Slots
<1>13. l \in [Sites -> Slots]
  BY <1>5, <1>12
<1>14. h \in [Sites -> Logins]
  BY <1>1, <1>2, <1>6 DEF Admitted, Logins, Account
<1>15. files \in Files
  BY <1>3, <1>7, <1>9, <1>13, <1>14 DEF Files
<1>16. QED
  BY <1>6, <1>7, <1>10, <1>11, <1>15

LEMMA AccessInit == ASSUME Init PROVE AccessInv
<1>1. /\ policy \in [Sites -> Row \cup {Null}] /\ accounts \in [Accounts -> Account]
      /\ \A s \in Sites : policy[s] # Null => RowOk(policy[s])
  BY InitFacts
<1>2. files \in Files
  BY InitFiles
<1>3. spent \in Spent
  BY DEF Init, Spent
<1>4. AccessTyped
  BY <1>1, <1>2, <1>3 DEF Init, AccessTyped
<1>5. Shaped /\ Bounds /\ Reads /\ GeoStarted
  BY DEF Init, Shaped, Bounds, Reads, GeoStarted, Threads
<1>6. Locked
  BY NullIsNone DEF Init, Locked, Holding
<1>7. Rows /\ Edits /\ Bundled
  BY <1>1 DEF Init, Rows, Edits, Bundled
<1>8. QED
  BY <1>4, <1>5, <1>6, <1>7 DEF AccessInv

LEMMA AccessStutter == ASSUME AccessInv, UNCHANGED vars PROVE AccessInv'
BY StillGrows, ApartStep DEF AccessInv, vars, tables, Edits, Bundled, Managed, Without, AccessTyped

LEMMA AccessNext == ASSUME AccessInv, Next PROVE AccessInv'
<1>1. CASE Request
  <2>1. ASSUME NEW s \in Sites, OpenEditor(s) \/ Sync(s) PROVE AccessInv'
    BY <2>1, OpenEditorInv, SyncInv
  <2>2. ASSUME NEW s \in Sites,
               SyncProxy(s) \/ DeleteProxy(s) \/ \E new \in Proxy : CreateProxy(s, new) \/ UpdateProxy(s, new)
        PROVE  AccessInv'
    BY <2>2, ProxyRequestsInv
  <2>3. ASSUME NEW s \in Sites,
               \/ DeleteAuthRule(s) \/ EditDenyRules(s) \/ EditIPLimitRules(s)
               \/ \E users \in SUBSET Accounts : CreateAuthRule(s, users) \/ UpdateAuthRule(s, users)
        PROVE  AccessInv'
    BY <2>3, RuleRequestsInv
  <2>4. ASSUME NEW users \in SUBSET Accounts, NEW link \in Paths \cup {Null}, Save(users, link) PROVE AccessInv'
    BY <2>4, SaveInv
  <2>5. ASSUME NEW a \in Accounts,
               \/ DeleteAccount(a)
               \/ \E pw \in Passwords : CreateAccount(a, pw)
               \/ \E new \in Account : UpdateAccount(a, new)
        PROVE  AccessInv'
    BY <2>5, DeleteAccountInv, CreateAccountInv, UpdateAccountInv
  <2>6. QED
    BY <1>1, <2>1, <2>2, <2>3, <2>4, <2>5 DEF Request
<1>2. CASE Handler
  BY <1>2, FinishApplyInv, FailApplyInv, WriteAccountInv, PoliciesRefreshedInv, RulesRefreshedInv,
     AccountDeletedInv, RuleEndsInv, RenderProxyInv, FinishProxyInv, RefreshRulesInv DEF Handler
<1>3. CASE Refresh
  BY <1>3, RefreshLockInv, RefreshMarkInv, RefreshReadInv DEF Refresh
<1>4. CASE Beside
  BY <1>4, StartUpdateInv, ReadGeoSitesInv, GeoEndsInv, RestoreEndsInv, BackupInv, StartRestoreInv DEF Beside
<1>5. CASE (\E t \in Threads : Call(t)) \/ Crash
  BY <1>5, CallInv, CrashInv
<1>6. QED
  BY <1>1, <1>2, <1>3, <1>4, <1>5 DEF Next

(* The state of the policies, the accounts, the files and the threads has  *)
(* its types; who holds the locks, which row a thread works on and what a  *)
(* refresh has read are what the threads take them for.                    *)
THEOREM AccessInvariant == Spec => []AccessInv
<1>1. ASSUME AccessInv, [Next]_vars PROVE AccessInv'
  BY <1>1, AccessNext, AccessStutter
<1>2. QED
  BY <1>1, AccessInit, PTL DEF Spec

(* NoLostEdit: a save replaces what its editor showed and nothing else.    *)
THEOREM EditReplacesWhatItShowed == Spec => NoLostEdit
<1>1. ASSUME AccessInv, [Next]_vars, Without({"older"}), editor # Null, editor' = Null
      PROVE  IF policy[editor.site] = Null THEN editor.seen = Null
             ELSE policy[editor.site].desired = editor.seen
  <2>1. /\ IF policy[editor.site] = Null THEN editor.version = 0 /\ editor.seen = Null
           ELSE editor.version = policy[editor.site].version => policy[editor.site].desired = editor.seen
    BY <1>1 DEF AccessInv, Edits
  <2>2. UNCHANGED editor \/ \E users \in SUBSET Accounts, link \in Paths \cup {Null} : Save(users, link)
    <3>1. CASE Request
      BY <1>1, <3>1 DEF Request, OpenEditor, Sync, SyncProxy, DeleteAuthRule, EditDenyRules, EditIPLimitRules,
         DeleteProxy, CreateAuthRule, UpdateAuthRule, StartRule, CreateProxy, UpdateProxy, WriteProxy,
         DeleteAccount, CreateAccount, UpdateAccount
    <3>2. CASE Handler
      BY <3>2 DEF Handler, FinishApply, FailApply, WriteAccount, PoliciesRefreshed, RulesRefreshed, AccountDeleted,
         RuleWritten, RuleFailed, RenderProxy, FinishProxy, RefreshRules
    <3>3. CASE Refresh
      BY <3>3 DEF Refresh, RefreshLock, RefreshMark, RefreshRead
    <3>4. CASE Beside
      BY <3>4 DEF Beside, StartUpdate, ReadGeoSites, GeoApplied, GeoFailed, GeoRefreshed, CommitRestore, FailRestore,
         Backup, StartRestore
    <3>5. CASE (\E t \in Threads : Call(t)) \/ Crash \/ UNCHANGED vars
      BY <3>5 DEF Call, Crash, vars
    <3>6. QED
      BY <1>1, <3>1, <3>2, <3>3, <3>4, <3>5 DEF Next
  <2>3. policy[editor.site] # Null => editor.version = policy[editor.site].version
    BY <1>1, <2>2 DEF Save, AtVersion
  <2>4. QED
    BY <2>1, <2>3
<1>2. ASSUME AccessInv, [Next]_vars
      PROVE  Without({"older"}) /\ editor # Null /\ editor' = Null =>
               IF policy[editor.site] = Null THEN editor.seen = Null
               ELSE policy[editor.site].desired = editor.seen
  BY <1>1, <1>2
<1>3. QED
  BY <1>2, AccessInvariant, PTL DEF Spec, NoLostEdit

(* RefreshKeepsPolicy: a refresh writes the policy in force and no other.  *)
THEOREM RefreshWritesWhatIsInForce == Spec => RefreshKeepsPolicy
<1>1. ASSUME AccessInv, Without({"older"}), NEW t \in Threads, At(t, "refresh", "call")
      PROVE  policy[proc[t].site] # Null /\ proc[t].p = policy[proc[t].site].applied
  BY <1>1, Actor DEF At, Fresh, Bound, BoundRefresh, Read, Answers
<1>2. ASSUME AccessInv, [Next]_vars
      PROVE  Without({"older"}) => \A t \in Threads :
               At(t, "refresh", "call") /\ files' # files /\ proc'[t] # proc[t] =>
                 policy[proc[t].site] # Null /\ proc[t].p = policy[proc[t].site].applied
  BY <1>1, <1>2
<1>3. QED
  BY <1>2, AccessInvariant, PTL DEF Spec, RefreshKeepsPolicy

-----------------------------------------------------------------------------
(* Steps of one thread other than the answer to a call.                    *)

Moves(t) ==
  /\ \A u \in Threads \ {t} : proc'[u] = proc[u]
  /\ proc'[t] # Null => proc'[t].pc # "done"

LEMMA MovesTo ==
  ASSUME AccessTyped, NEW t \in Threads, NEW q, Becomes(t, q), q # Null => q.pc # "done"
  PROVE  Moves(t) /\ proc'[t] = q
BY DEF Moves, Becomes, AccessTyped

LEMMA RequestMoves ==
  ASSUME AccessInv, Request
  PROVE  \/ Grows /\ UNCHANGED proc
         \/ /\ Moves("http") /\ Grows /\ spent'.mishaps = spent.mishaps /\ proc["http"] = Null
<1>0. AccessTyped /\ "http" \in Threads
  BY DEF AccessInv, Threads
<1>1. Serve => Grows /\ spent'.mishaps = spent.mishaps /\ proc["http"] = Null
  BY <1>0, BeginGrows DEF Serve, Begin
<1>2. UNCHANGED spent => Grows
  BY <1>0, StillGrows
<1>3. ASSUME NEW s \in Sites, NEW users, StartRule(s, users) PROVE Moves("http") /\ Serve
  BY IdleTyped, <1>0, <1>3, MovesTo DEF Work, StartRule
<1>4. ASSUME NEW s \in Sites, Becomes("http", [Idle EXCEPT !.op = "proxy", !.doing = "proxy", !.pc = "render", !.site = s])
      PROVE  Moves("http")
  BY IdleTyped, <1>0, <1>4, MovesTo DEF Work
<1>5. ASSUME NEW op, NEW s, NEW p, NEW v, Becomes("http", ApplyRecord(op, s, p, v)) PROVE Moves("http")
  BY IdleTyped, <1>0, <1>5, MovesTo DEF Work, ApplyRecord
<1>6. ASSUME NEW a, DeleteAccount(a) \/ \E new \in Account : UpdateAccount(a, new)
      PROVE  Moves("http") /\ Serve
  <2>1. CASE DeleteAccount(a)
    BY IdleTyped, <1>0, <2>1, MovesTo DEF Work, DeleteAccount
  <2>2. ASSUME NEW new, UpdateAccount(a, new) PROVE Moves("http") /\ Serve
    BY IdleTyped, <1>0, <2>2, MovesTo DEF Work, UpdateAccount
  <2>3. QED
    BY <1>6, <2>1, <2>2
<1>7. ASSUME NEW s \in Sites, OpenEditor(s) PROVE Grows /\ UNCHANGED proc
  BY <1>2, <1>7 DEF OpenEditor
<1>8. ASSUME NEW a \in Accounts, NEW pw \in Passwords, CreateAccount(a, pw) PROVE Grows /\ UNCHANGED proc
  BY <1>1, <1>8 DEF CreateAccount
<1>9. ASSUME NEW s \in Sites, Sync(s) PROVE (Grows /\ UNCHANGED proc) \/ (Moves("http") /\ Serve)
  <2>1. CASE Resolvable(s, policy[s].desired)
    BY <1>9, <2>1, <1>5 DEF Sync, ApplyRecord
  <2>2. CASE ~Resolvable(s, policy[s].desired)
    BY <1>1, <1>9, <2>2 DEF Sync
  <2>3. QED
    BY <2>1, <2>2
<1>10. ASSUME NEW users \in SUBSET Accounts, NEW link \in Paths \cup {Null}, Save(users, link)
       PROVE  Moves("http") /\ Serve
  BY <1>10, <1>5 DEF Save, ApplyRecord
<1>11. ASSUME NEW s \in Sites, DeleteAuthRule(s) \/ EditDenyRules(s) \/ EditIPLimitRules(s) \/
               \E users \in SUBSET Accounts : CreateAuthRule(s, users) \/ UpdateAuthRule(s, users)
       PROVE  Moves("http") /\ Serve
  BY <1>3, <1>11 DEF DeleteAuthRule, EditDenyRules, EditIPLimitRules, CreateAuthRule, UpdateAuthRule
<1>12. ASSUME NEW s \in Sites,
              SyncProxy(s) \/ DeleteProxy(s) \/ \E new \in Proxy : CreateProxy(s, new) \/ UpdateProxy(s, new)
       PROVE  Moves("http") /\ Serve
  BY <1>4, <1>12 DEF SyncProxy, DeleteProxy, CreateProxy, UpdateProxy, WriteProxy
<1>13. (Grows /\ UNCHANGED proc) \/ (Moves("http") /\ Serve)
  BY <1>6, <1>7, <1>8, <1>9, <1>10, <1>11, <1>12 DEF Request
<1>14. QED
  BY <1>1, <1>13

LEMMA NoteKeeps == ASSUME AccessTyped, NEW m \in Mishaps, NEW b, Note(m, b) PROVE Grows
BY DEF AccessTyped, Spent, Note, Grows

LEMMA NotesGrow ==
  ASSUME AccessTyped
  PROVE  /\ NoteFinish("http") => Grows
         /\ \A s : NoteUnknown(s) => Grows
BY NoteGrows DEF NoteFinish, Mishaps, NoteUnknown

(* A refresh is begun, by whoever.                                         *)
LEMMA StartMoves ==
  ASSUME AccessTyped, NEW t \in Threads, NEW r \in Work, Becomes(t, StartRefresh(r))
  PROVE  Moves(t)
BY StartRefreshTyped, MovesTo

LEMMA HandlerMoves == ASSUME AccessInv, Handler PROVE Moves("http") /\ Grows /\ proc["http"] # Null
<1>0. AccessTyped /\ "http" \in Threads
  BY DEF AccessInv, Threads
<1>1. proc["http"] # Null
  BY DEF Handler, FinishApply, FailApply, WriteAccount, PoliciesRefreshed, RulesRefreshed, AccountDeleted,
     RuleWritten, RuleFailed, RenderProxy, FinishProxy, RefreshRules, At
<1>2. PICK r \in Work : r = proc["http"]
  BY <1>0, <1>1, Actor
<1>3. Shape("http", r) /\ r # Null
  BY <1>0, <1>1, <1>2, Actor
<1>4. UNCHANGED spent => Grows
  BY <1>0, StillGrows
<1>6. Ends("http") => Moves("http")
  BY <1>0, MovesTo DEF Ends
<1>7. r.op = "account" /\ (r.doing = "refresh" \/ r.doing = "rules") => r.row \in Switch /\ r.account \in Accounts
  BY <1>0, <1>3, ShapeBack DEF AccountShape
<1>8. ASSUME UndoAccount, r.op = "account", r.doing = "refresh" \/ r.doing = "rules" PROVE Moves("http") /\ Grows
  <2>1. /\ Grows
        /\ \/ Ends("http")
           \/ \E q \in Work : Becomes("http", q) /\ q.pc = "next"
    BY <1>1, <1>2, <1>7, <1>8, UndoCases
  <2>2. ASSUME NEW q \in Work, Becomes("http", q) /\ q.pc = "next" PROVE Moves("http")
    BY <1>0, <2>2, MovesTo
  <2>3. QED
    BY <1>6, <2>1, <2>2
<1>9. CASE FinishApply \/ FailApply
  <2>1. Grows
    BY <1>0, <1>9, NotesGrow, FaultGrows, LostGrows DEF FinishApply, FailApply
  <2>2. Ends("http")
    BY <1>9 DEF FinishApply, FailApply
  <2>3. QED
    BY <1>1, <1>6, <2>1, <2>2
<1>10. CASE WriteAccount
  BY <1>2, <1>10, <1>0, <1>1, <1>4, StartMoves DEF WriteAccount
<1>11. CASE PoliciesRefreshed
  <2>1. r.op = "account" /\ r.doing = "refresh" /\ r.pc = "next"
    BY <1>2, <1>11 DEF PoliciesRefreshed, RefreshEnded, At
  <2>2. ASSUME NEW todo, Becomes("http", [r EXCEPT !.doing = "rules", !.todo = todo]) PROVE Moves("http")
    BY <2>1, <1>0, <2>2, MovesTo DEF Work
  <2>3. QED
    BY <1>1, <1>2, <1>4, <1>8, <1>11, <2>1, <2>2 DEF PoliciesRefreshed
<1>12. CASE RulesRefreshed
  <2>1. r.op = "account" /\ r.doing = "rules"
    BY <1>2, <1>12 DEF RulesRefreshed, At
  <2>2. ASSUME NEW todo, Becomes("http", [r EXCEPT !.pc = "next", !.todo = todo]) PROVE Moves("http")
    BY <2>1, <1>0, <2>2, MovesTo DEF Work
  <2>3. QED
    BY <1>1, <1>2, <1>4, <1>6, <1>8, <1>12, <2>1, <2>2 DEF RulesRefreshed
<1>13. CASE \E s \in Sites : RefreshRules(s)
  <2>1. PICK s \in Sites : RefreshRules(s)
    BY <1>13
  <2>2. r.op = "account" /\ r.doing = "rules" /\ r.pc = "next"
    BY <1>2, <2>1 DEF RefreshRules, At
  <2>3. ASSUME NEW todo, Becomes("http", [r EXCEPT !.todo = todo]) PROVE Moves("http")
    BY <2>2, <1>0, <2>3, MovesTo DEF Work
  <2>4. ASSUME NEW x, Becomes("http", [r EXCEPT !.pc = "call", !.site = s, !.tx = x]) PROVE Moves("http")
    BY <2>2, <1>0, <2>4, MovesTo DEF Work
  <2>5. QED
    <3>1. /\ r.op = "account" /\ r.doing = "rules" /\ r.pc = "next"
          /\ \/ Becomes("http", [r EXCEPT !.todo = r.todo \ {s}]) /\ UNCHANGED spent
             \/ UndoAccount
             \/ /\ \E x : Becomes("http", [r EXCEPT !.pc = "call", !.site = s, !.tx = x])
                /\ UNCHANGED spent
      BY <1>2, <2>1, <2>2 DEF RefreshRules
    <3>2. QED
      BY <1>1, <1>4, <1>8, <2>3, <2>4, <3>1
<1>14. CASE AccountDeleted \/ RuleWritten \/ RuleFailed
  BY <1>14, <1>0, NoteGrows, <1>1, <1>4, <1>6 DEF AccountDeleted, RuleWritten, RuleFailed, Mishaps
<1>15. CASE RenderProxy
  <2>1. r.pc = "render"
    BY <1>2, <1>15 DEF RenderProxy, At
  <2>2. ASSUME NEW v, NEW p, NEW x, Becomes("http", [r EXCEPT !.pc = "call", !.v = v, !.p = p, !.tx = x])
        PROVE  Moves("http")
    BY <1>0, <2>2, MovesTo DEF Work
  <2>3. ASSUME NEW x, Becomes("http", [r EXCEPT !.pc = "call", !.tx = x]) PROVE Moves("http")
    BY <1>0, <2>3, MovesTo DEF Work
  <2>4. QED
    <3>1. PICK b \in BOOLEAN : b = TRUE
      OBVIOUS
    <3>2. Note("ahead", b) => Grows
      BY <1>0, <3>1, NoteGrows DEF Mishaps
    <3>3. \/ (UNCHANGED spent /\ \E v, p, x : Becomes("http", [r EXCEPT !.pc = "call", !.v = v, !.p = p, !.tx = x]))
          \/ (UNCHANGED spent /\ \E x : Becomes("http", [r EXCEPT !.pc = "call", !.tx = x]))
          \/ ((Note("ahead", b) \/ Strand) /\ Ends("http"))
      BY <1>2, <1>15, <3>1 DEF RenderProxy
    <3>4. QED
      BY <1>0, <1>1, <1>4, <1>6, <2>2, <2>3, <3>2, <3>3, StrandGrows
<1>16. CASE FinishProxy
  <2>1. PICK b \in BOOLEAN : b = (proc["http"].pc = "failed")
    OBVIOUS
  <2>2. Note("ahead", b) => Grows
    BY <1>0, <2>1, NoteGrows DEF Mishaps
  <2>3. /\ Ends("http")
        /\ (Note("ahead", b) \/ NoteFinish("http") \/ Fault \/ \E s : NoteUnknown(s))
    BY <1>16, <2>1 DEF FinishProxy
  <2>4. QED
    BY <1>0, <1>1, <1>6, <2>2, <2>3, NotesGrow, FaultGrows
<1>17. QED
  BY <1>1, <1>9, <1>10, <1>11, <1>12, <1>13, <1>14, <1>15, <1>16 DEF Handler

LEMMA RefreshMoves ==
  ASSUME AccessInv, NEW t \in Threads, RefreshLock(t) \/ RefreshMark(t) \/ \E s \in Sites : RefreshRead(t, s)
  PROVE  Moves(t) /\ Grows /\ UNCHANGED spent /\ proc[t] # Null /\ proc[t].doing = "refresh" /\ t # "backup"
<1>0. AccessTyped
  BY DEF AccessInv
<1>1. proc[t] # Null /\ proc[t].doing = "refresh" /\ UNCHANGED spent
  BY DEF RefreshLock, RefreshMark, RefreshRead, At
<1>2. PICK r \in Work : r = proc[t]
  BY <1>1, Actor
<1>3. t # "backup"
  BY <1>1, <1>2, Actor, ThreadOps
<1>4. ASSUME NEW todo, NEW errs, Becomes(t, [r EXCEPT !.pc = "next", !.todo = todo, !.errs = errs]) PROVE Moves(t)
  BY <1>0, <1>4, MovesTo DEF Work
<1>5. ASSUME RefreshLock(t) PROVE Moves(t)
  <2>1. ASSUME NEW x, Becomes(t, [r EXCEPT !.pc = "call", !.tx = x]) PROVE Moves(t)
    BY <1>0, <2>1, MovesTo DEF Work
  <2>2. QED
    BY <1>2, <1>5, <1>4, <2>1 DEF RefreshLock, RefreshNext
<1>6. ASSUME RefreshMark(t) PROVE Moves(t)
  BY <1>6, <1>2, <1>4 DEF RefreshMark, RefreshNext
<1>7. ASSUME \E s \in Sites : RefreshRead(t, s) PROVE Moves(t)
  <2>1. PICK s \in Sites : RefreshRead(t, s)
    BY <1>7
  <2>2. ASSUME NEW p, NEW v, Becomes(t, [r EXCEPT !.pc = "lock", !.site = s, !.p = p, !.v = v]) PROVE Moves(t)
    BY <1>0, <2>2, MovesTo DEF Work
  <2>3. ASSUME NEW todo, NEW errs, Becomes(t, [r EXCEPT !.todo = todo, !.errs = errs]) PROVE Moves(t)
    BY <1>2, <2>1, <1>0, <2>3, MovesTo DEF RefreshRead, At, Work
  <2>4. QED
    BY <1>2, <2>1, <2>2, <2>3 DEF RefreshRead
<1>8. QED
  BY <1>0, <1>1, <1>3, <1>5, <1>6, <1>7, StillGrows

LEMMA BesideMoves ==
  ASSUME AccessInv, Beside
  PROVE  /\ Grows
         /\ \/ UNCHANGED proc /\ proc["backup"] = Null
            \/ Moves("geo")
            \/ Moves("backup") /\ (proc["backup"] = Null \/ FailRestore \/ CommitRestore)
<1>0. AccessTyped /\ "geo" \in Threads /\ "backup" \in Threads
  BY DEF AccessInv, Threads
<1>1. UNCHANGED spent => Grows
  BY <1>0, StillGrows
<1>2. \A m \in Mishaps : \A b : Note(m, b) => Grows
  BY <1>0, NoteKeeps
<1>3. \A t \in Threads : Begin(t) => Grows /\ proc[t] = Null
  BY <1>0, BeginGrows DEF Begin
<1>4. \A t \in Threads : Ends(t) => Moves(t)
  BY <1>0, MovesTo DEF Ends
<1>5. proc["geo"] # Null => proc["geo"] \in Work
  BY <1>0, Actor
<1>6. CASE StartUpdate
  BY IdleTyped, <1>0, <1>3, <1>6, MovesTo DEF Work, StartUpdate
<1>7. CASE ReadGeoSites
  <2>1. PICK r \in Work : r = proc["geo"]
    BY <1>5, <1>7 DEF ReadGeoSites, At
  <2>2. ASSUME NEW x, Becomes("geo", [r EXCEPT !.pc = "call", !.tx = x]) PROVE Moves("geo")
    BY <1>0, <2>2, MovesTo DEF Work
  <2>3. Becomes("geo", StartRefresh(r)) => Moves("geo")
    BY <1>0, StartMoves
  <2>4. QED
    BY <1>1, <1>7, <2>1, <2>2, <2>3 DEF ReadGeoSites
<1>8. CASE GeoApplied
  BY <1>0, <1>1, <1>5, <1>8, StartMoves DEF GeoApplied, At
<1>9. CASE GeoFailed \/ GeoRefreshed
  BY <1>0, <1>2, <1>4, <1>9 DEF GeoFailed, GeoRefreshed, Mishaps
<1>10. CASE CommitRestore
  <2>1. Grows
    BY CommittedFacts, <1>0, <1>2, <1>10, LostGrows DEF CommitRestore, Committed, Mishaps
  <2>2. QED
    BY <1>0, <1>4, <1>10, <2>1 DEF CommitRestore
<1>11. CASE FailRestore
  BY <1>0, <1>1, <1>4, <1>11 DEF FailRestore
<1>12. CASE \E s \in Sites : Backup(s)
  BY <1>0, <1>3, <1>12 DEF Backup
<1>13. CASE \E s \in Sites : StartRestore(s)
  <2>1. PICK s \in Sites : StartRestore(s)
    BY <1>13
  <2>2. ASSUME NEW p, NEW row, NEW x,
               Becomes("backup", [Idle EXCEPT !.op = "restore", !.doing = "restore", !.pc = "call", !.site = s,
                                    !.p = p, !.row = row, !.tx = x])
        PROVE  Moves("backup")
    BY IdleTyped, <1>0, <2>2, MovesTo DEF Work
  <2>3. QED
    BY <1>0, <1>3, <2>1, <2>2 DEF StartRestore
<1>14. QED
  BY <1>6, <1>7, <1>8, <1>9, <1>10, <1>11, <1>12, <1>13 DEF Beside

-----------------------------------------------------------------------------
(* A policy shown as applied is served: the inductive invariant.           *)

Good == Without({"lost", "adrift", "overlap"})

(* The files of s are its backup's, the tables are not yet.                *)
Restoring(s) == proc["backup"] # Null /\ proc["backup"].pc = "done" /\ proc["backup"].site = s

Agrees(s) ==
  policy[s] # Null /\ policy[s].status = "applied" =>
    files.access[s].kind = "policy" /\ Same(files.access[s].policy, policy[s].applied)
InForceServed(s) ==
  Managed(s) => files.access[s].kind = "policy" /\ files.slots[s].policy = files.access[s].policy
SavedServed(s) ==
  backups[s] # Null /\ backups[s].bundle # Null =>
    backups[s].access.kind = "policy" /\ backups[s].access.policy = backups[s].bundle

(* A thread whose call was answered finds what it wrote.                   *)
Written(r) ==
  /\ r.doing \in {"apply", "refresh", "proxy"} /\ r.pc = "done" /\ r.p # Null =>
       /\ files.access[r.site].kind = "policy" /\ files.access[r.site].policy = r.p
       /\ files.slots[r.site].policy = r.p
  /\ r.doing = "restore" /\ r.pc = "done" /\ r.p # Null =>
       /\ files.access[r.site].kind = "policy" /\ files.access[r.site].policy = r.p
       /\ files.slots[r.site] = backups[r.site].slots

ServedInv == Good =>
  /\ \A s \in Sites : SavedServed(s) /\ (Restoring(s) \/ (Agrees(s) /\ InForceServed(s)))
  /\ \A t \in Threads : proc[t] # Null => Written(proc[t])

(* No policy is newly shown as applied, nor newly in force.                *)
Settled ==
  \A s \in Sites : /\ policy'[s] # Null /\ policy'[s].status = "applied" => policy'[s] = policy[s]
                   /\ Managed(s)' => Managed(s)

LEMMA GoodBack == ASSUME Grows, Good' PROVE Good
BY WithoutBack DEF Good

LEMMA ServedQuiet ==
  ASSUME AccessInv, ServedInv, NEW t \in Threads, Moves(t), Grows, UNCHANGED <<files, backups>>, Settled,
         t = "backup" /\ proc[t] # Null => proc[t].pc # "done"
  PROVE  ServedInv'
<1>1. SUFFICES ASSUME Good' PROVE ServedInv'
  BY DEF ServedInv
<1>2. /\ \A s \in Sites : SavedServed(s) /\ (Restoring(s) \/ (Agrees(s) /\ InForceServed(s)))
      /\ \A u \in Threads : proc[u] # Null => Written(proc[u])
  BY <1>1, GoodBack DEF ServedInv
<1>3. ASSUME NEW s \in Sites PROVE SavedServed(s)' /\ (Restoring(s)' \/ (Agrees(s)' /\ InForceServed(s)'))
  BY <1>2 DEF SavedServed, Restoring, Moves, Threads, Settled, Agrees, InForceServed
<1>4. ASSUME NEW u \in Threads, proc'[u] # Null PROVE Written(proc[u])'
  BY <1>2, <1>4 DEF Moves, Written
<1>5. QED
  BY <1>3, <1>4 DEF ServedInv

(* What a thread has written is marked as applied.                         *)
LEMMA ServedMarked ==
  ASSUME AccessInv, ServedInv, NEW t \in {"http", "geo"}, Moves(t), Grows, UNCHANGED <<files, backups>>,
         NEW r, r = proc[t], r # Null, r.doing \in {"apply", "refresh", "proxy"}, r.pc = "done", r.p # Null,
         r.site \in Sites, MarkApplied(r.site, r.v),
         Good => (policy[r.site] # Null /\ policy[r.site].version = r.v => Same(policy[r.site].desired, r.p))
  PROVE  ServedInv'
<1>0. AccessTyped /\ Rows /\ t \in Threads /\ t # "backup" /\ "backup" \in Threads
  BY DEF AccessInv, Threads
<1>1. SUFFICES ASSUME Good' PROVE ServedInv'
  BY DEF ServedInv
<1>2. Good
  BY <1>1, GoodBack
<1>3. /\ \A s \in Sites : SavedServed(s) /\ (Restoring(s) \/ (Agrees(s) /\ InForceServed(s)))
      /\ \A u \in Threads : proc[u] # Null => Written(proc[u])
  BY <1>2 DEF ServedInv
<1>4. Written(r)
  BY <1>0, <1>3
<1>5. /\ \A s \in Sites \ {r.site} : policy'[s] = policy[s]
      /\ policy' = policy \/
           (policy[r.site] # Null /\ policy[r.site].version = r.v /\ policy'[r.site].applied = policy[r.site].desired)
  BY <1>0, MarkAppliedMarks
<1>6. ASSUME NEW s \in Sites PROVE SavedServed(s)' /\ (Restoring(s)' \/ (Agrees(s)' /\ InForceServed(s)'))
  <2>1. SavedServed(s)'
    BY <1>3 DEF SavedServed
  <2>2. CASE Restoring(s)
    BY <1>0, <2>1, <2>2 DEF Restoring, Moves
  <2>3. CASE Agrees(s) /\ InForceServed(s) /\ policy'[s] = policy[s]
    BY <2>1, <2>3 DEF Agrees, InForceServed, Managed
  <2>4. CASE s = r.site /\ policy' # policy
    BY <1>4, <2>4, <1>2, <1>5, <2>1 DEF Written, Agrees, InForceServed, Same
  <2>5. QED
    BY <1>3, <1>5, <2>2, <2>3, <2>4
<1>7. ASSUME NEW u \in Threads, proc'[u] # Null PROVE Written(proc[u])'
  BY <1>3, <1>7 DEF Moves, Written
<1>8. QED
  BY <1>6, <1>7 DEF ServedInv

(* Which steps settle.                                                     *)
LEMMA SameSettled == ASSUME UNCHANGED policy PROVE Settled
BY DEF Settled, Managed

LEMMA ErrorSettled ==
  ASSUME AccessTyped, Rows, NEW s \in Sites, NEW v, MarkError(s, v)
  PROVE  Settled
BY MarkErrorMarks DEF MarkError, AccessTyped, Settled, Standing, Managed

LEMMA DesiredSettled ==
  ASSUME AccessTyped, Rows, NEW s \in Sites, NEW p \in Policy, NEW f \in BOOLEAN,
         policy' = [policy EXCEPT ![s] = Desired(s, p, f)]
  PROVE  Settled
BY DesiredRow DEF AccessTyped, Settled, Managed

LEMMA SaveRow ==
  ASSUME AccessInv, NEW users \in SUBSET Accounts, NEW link \in Paths \cup {Null}, Save(users, link)
  PROVE  \E s \in Sites, p \in Policy : policy' = [policy EXCEPT ![s] = Desired(s, p, FALSE)]
BY ResolvedTyped DEF AccessInv, Save, AccessTyped, Editor, Policy

LEMMA RequestSettled == ASSUME AccessInv, Request PROVE Settled /\ UNCHANGED <<files, backups>>
<1>0. AccessTyped /\ Rows
  BY DEF AccessInv
<1>1. ASSUME NEW users \in SUBSET Accounts, NEW link \in Paths \cup {Null}, Save(users, link)
      PROVE  Settled /\ UNCHANGED <<files, backups>>
  BY <1>1, SaveRow, <1>0, DesiredSettled DEF Save
<1>2. ASSUME NEW s \in Sites, Sync(s) PROVE Settled /\ UNCHANGED <<files, backups>>
  BY <1>2, <1>0, SameSettled, ErrorSettled DEF Sync
<1>3. ASSUME NEW s \in Sites,
             \/ OpenEditor(s) \/ SyncProxy(s) \/ DeleteAuthRule(s) \/ EditDenyRules(s) \/ EditIPLimitRules(s)
             \/ DeleteProxy(s)
             \/ \E users \in SUBSET Accounts : CreateAuthRule(s, users) \/ UpdateAuthRule(s, users)
             \/ \E new \in Proxy : CreateProxy(s, new) \/ UpdateProxy(s, new)
      PROVE  UNCHANGED <<policy, files, backups>>
  BY <1>3 DEF OpenEditor, SyncProxy, DeleteAuthRule, EditDenyRules, EditIPLimitRules, DeleteProxy, CreateAuthRule,
     UpdateAuthRule, CreateProxy, UpdateProxy, StartRule, WriteProxy, tables
<1>4. ASSUME NEW a \in Accounts,
             \/ DeleteAccount(a)
             \/ \E pw \in Passwords : CreateAccount(a, pw)
             \/ \E new \in Account : UpdateAccount(a, new)
      PROVE  UNCHANGED <<policy, files, backups>>
  BY <1>4 DEF DeleteAccount, CreateAccount, UpdateAccount, tables
<1>5. QED
  BY <1>1, <1>2, <1>3, <1>4, SameSettled DEF Request

LEMMA ServedStill ==
  ASSUME ServedInv, Settled, Grows, UNCHANGED <<files, backups, proc>>
  PROVE  ServedInv'
BY GoodBack DEF ServedInv, SavedServed, Restoring, Agrees, InForceServed, Settled, Written

LEMMA RequestServed == ASSUME AccessInv, ServedInv, Request PROVE ServedInv'
BY RequestSettled, ServedStill, ServedQuiet, RequestMoves DEF AccessInv, Threads

LEMMA HandlerFiles == ASSUME Handler PROVE UNCHANGED <<files, backups>>
BY DEF Handler, FinishApply, FailApply, WriteAccount, PoliciesRefreshed, RulesRefreshed, AccountDeleted,
   RuleWritten, RuleFailed, RenderProxy, FinishProxy, RefreshRules, tables

LEMMA HandlerServed == ASSUME AccessInv, ServedInv, Handler PROVE ServedInv'
<1>0. AccessTyped /\ Rows /\ "http" \in Threads /\ "http" # "backup"
  BY DEF AccessInv, Threads
<1>1. Moves("http") /\ Grows /\ proc["http"] # Null /\ UNCHANGED <<files, backups>>
  BY HandlerMoves, HandlerFiles
<1>2. PICK r \in Work : r = proc["http"]
  BY <1>0, <1>1, Actor
<1>3. r # Null /\ Shape("http", r) /\ Bound(r)
  BY <1>0, <1>1, <1>2, Actor
<1>4. Settled => ServedInv'
  BY <1>0, <1>1, ServedQuiet
<1>5. ASSUME r.doing \in {"apply", "proxy"}, r.p # Null, r.pc = "done", MarkApplied(r.site, r.v) PROVE ServedInv'
  <2>1. r.site \in Sites
    BY <1>0, <1>3, <1>5, SiteOf
  <2>2. Same(policy[r.site].desired, r.p)
    BY <1>3, <1>5 DEF Bound, BoundApply, BoundProxy, Same
  <2>3. PICK t \in {"http", "geo"} : t = "http"
    OBVIOUS
  <2>4. Moves(t) /\ r = proc[t]
    BY <1>1, <1>2, <2>3
  <2>5. r.doing \in {"apply", "refresh", "proxy"}
    BY <1>5
  <2>6. QED
    BY <1>1, <1>3, <1>5, <2>1, <2>2, <2>4, <2>5, ServedMarked
<1>6. ASSUME NEW s, s = r.site, NEW v, r.doing \in {"apply", "proxy"}, MarkError(s, v) PROVE Settled
  BY <1>0, <1>3, <1>6, SiteOf, ErrorSettled
<1>7. CASE FinishApply
  <2>1. r.doing = "apply" /\ r.pc = "done"
    BY <1>2, <1>7 DEF FinishApply, At
  <2>2. r.p # Null
    BY <1>0, <1>3, <2>1, ShapeBack, NullIsNone DEF ApplyShape, WritesPolicy
  <2>3. MarkApplied(r.site, r.v) \/ MarkError(r.site, r.v)
    BY <1>2, <1>7 DEF FinishApply
  <2>4. QED
    BY <1>4, <1>5, <1>6, <2>1, <2>2, <2>3
<1>8. CASE FailApply
  BY <1>2, <1>4, <1>6, <1>8 DEF FailApply, At
<1>9. CASE FinishProxy
  BY <1>2, <1>9, <1>4, <1>5, <1>6, SameSettled DEF FinishProxy, At
<1>10. CASE RenderProxy
  <2>1. r.doing = "proxy"
    BY <1>2, <1>10 DEF RenderProxy, At
  <2>2. PICK s \in Sites : s = r.site
    BY <1>0, <1>3, <2>1, SiteOf
  <2>3. PICK p : p = Relinked(policy[s].desired, proxies[s])
    OBVIOUS
  <2>4. PICK f \in BOOLEAN : f = TRUE
    OBVIOUS
  <2>5. \/ UNCHANGED policy
        \/ Managed(s) /\ policy' = [policy EXCEPT ![s] = Desired(s, p, f)]
    BY <1>2, <1>10, <2>2, <2>3, <2>4 DEF RenderProxy
  <2>6. Managed(s) => p \in Policy
    <3>1. ASSUME Managed(s) PROVE p \in Policy
      <4>1. PICK old \in Row : old = policy[s]
        BY <1>0, <2>2, <3>1 DEF Managed, AccessTyped
      <4>2. old.desired \in Policy /\ proxies[s] \in Proxy \cup {Null}
        BY <1>0, <2>2, <4>1, RowFields DEF AccessTyped
      <4>3. QED
        BY <2>3, <4>1, <4>2, RelinkedTyped
    <3>2. QED
      BY <3>1
  <2>7. QED
    BY <1>0, <1>4, <2>2, <2>5, <2>6, SameSettled, DesiredSettled
<1>11. CASE WriteAccount \/ PoliciesRefreshed \/ RulesRefreshed \/ AccountDeleted \/ RuleWritten \/ RuleFailed
            \/ \E s \in Sites : RefreshRules(s)
  BY <1>11, <1>4, SameSettled DEF WriteAccount, PoliciesRefreshed, RulesRefreshed, AccountDeleted,
     RuleWritten, RuleFailed, RefreshRules, tables
<1>12. QED
  BY <1>7, <1>8, <1>9, <1>10, <1>11 DEF Handler

LEMMA RefreshServed ==
  ASSUME AccessInv, ServedInv, NEW t \in Threads, RefreshLock(t) \/ RefreshMark(t) \/ \E s \in Sites : RefreshRead(t, s)
  PROVE  ServedInv'
<1>0. AccessTyped /\ Rows
  BY DEF AccessInv
<1>1. Moves(t) /\ Grows /\ proc[t] # Null /\ proc[t].doing = "refresh" /\ t # "backup"
  BY RefreshMoves
<1>2. UNCHANGED <<files, backups>>
  BY DEF RefreshLock, RefreshMark, RefreshRead, tables
<1>3. PICK r \in Work : r = proc[t]
  BY <1>1, Actor
<1>4. r # Null /\ Shape(t, r) /\ Bound(r) /\ (Fresh => Read(r)) /\ r.doing = "refresh"
  BY <1>1, <1>3, Actor
<1>5. Settled => ServedInv'
  BY <1>1, <1>2, ServedQuiet
<1>6. ASSUME NEW s \in Sites, NEW v, MarkError(s, v) PROVE Settled
  BY <1>0, <1>6, ErrorSettled
<1>7. CASE RefreshLock(t)
  <2>1. r.pc = "lock"
    BY <1>3, <1>7 DEF RefreshLock, At
  <2>2. r.site \in Sites
    BY <1>4, <2>1, SiteOf
  <2>3. UNCHANGED policy \/ MarkError(r.site, r.v)
    BY <1>3, <1>7 DEF RefreshLock
  <2>4. QED
    BY <1>5, <1>6, <2>2, <2>3, SameSettled
<1>8. CASE RefreshMark(t)
  <2>1. r.pc \in {"done", "failed"}
    BY <1>3, <1>8 DEF RefreshMark, At
  <2>2. r.site \in Sites
    BY <1>4, <2>1, SiteOf
  <2>3. CASE r.pc = "done"
    <3>1. MarkApplied(r.site, r.v)
      BY <1>3, <1>8, <2>3 DEF RefreshMark
    <3>2. r.p # Null /\ policy[r.site] # Null /\ policy[r.site].at = r.v
      BY <1>4, <2>3, ShapeBack, NullIsNone DEF RefreshShape, WritesPolicy, Bound, BoundRefresh, Answers
    <3>3. Good => policy[r.site].applied = r.p
      BY <1>4, <2>3 DEF Good, Fresh, Without, Read, Answers
    <3>4. Good => (policy[r.site] # Null /\ policy[r.site].version = r.v => Same(policy[r.site].desired, r.p))
      BY <1>0, <2>2, <3>2, <3>3 DEF Same, Rows, RowOk
    <3>5. t \in {"http", "geo"} /\ r.doing \in {"apply", "refresh", "proxy"}
      BY <1>1, <1>4 DEF Threads
    <3>6. QED
      BY <1>1, <1>2, <1>3, <1>4, <2>2, <2>3, <3>1, <3>2, <3>4, <3>5, ServedMarked
  <2>4. CASE r.pc = "failed"
    BY <1>3, <1>8, <2>4, <1>5, <1>6, <2>2 DEF RefreshMark
  <2>5. QED
    BY <2>1, <2>3, <2>4
<1>9. CASE \E s \in Sites : RefreshRead(t, s)
  BY <1>5, <1>9, SameSettled DEF RefreshRead, tables
<1>10. QED
  BY <1>7, <1>8, <1>9

LEMMA CommittedServed == ASSUME AccessInv, ServedInv, At("backup", "restore", "done"), Committed, Ends("backup"),
                                UNCHANGED <<files, backups>>
                         PROVE  ServedInv'
<1>0. AccessTyped /\ Bundled /\ "backup" \in Threads /\ proc["backup"] # Null /\ proc["backup"].pc = "done"
  BY DEF AccessInv, Threads, At
<1>1. PICK r : r = proc["backup"]
  OBVIOUS
<1>2. /\ r.site \in Sites /\ r.p \in Policy \cup {Null} /\ r.doing = "restore" /\ r.pc = "done"
      /\ Grows /\ backups[r.site] \in Saved
      /\ r.p # Null => backups[r.site].slots.policy = r.p
      /\ policy'[r.site] = Restored(r.site, r.p)
      /\ \A s \in Sites \ {r.site} : policy'[s] = policy[s]
  BY <1>0, <1>1, CommittedFacts
<1>3. SUFFICES ASSUME Good' PROVE ServedInv'
  BY DEF ServedInv
<1>4. /\ \A s \in Sites : SavedServed(s) /\ (Restoring(s) \/ (Agrees(s) /\ InForceServed(s)))
      /\ \A u \in Threads : proc[u] # Null => Written(proc[u])
  BY <1>2, <1>3, GoodBack DEF ServedInv
<1>5. ASSUME NEW s \in Sites PROVE SavedServed(s)' /\ Agrees(s)' /\ InForceServed(s)'
  <2>1. SavedServed(s)'
    BY <1>4 DEF SavedServed
  <2>2. CASE s # r.site
    BY <1>1, <1>2, <1>4, <2>1, <2>2 DEF Restoring, Agrees, InForceServed, Managed
  <2>3. CASE s = r.site /\ r.p = Null
    BY <1>2, <2>1, <2>3, RestoredNone DEF Agrees, InForceServed, Managed
  <2>4. CASE s = r.site /\ r.p # Null
    <3>1. r.p \in Policy
      BY <1>2, <2>4
    <3>2. InForceAgain(s, r.p, policy'[s])
      BY <1>0, <1>2, <2>4, <3>1, RestoredRow
    <3>3. files.access[s].kind = "policy" /\ files.access[s].policy = r.p /\ files.slots[s].policy = r.p
      BY <1>0, <1>1, <1>2, <1>4, <2>4 DEF Written
    <3>4. QED
      BY <2>1, <3>2, <3>3 DEF InForceAgain, Agrees, InForceServed, Same
  <2>5. QED
    BY <2>2, <2>3, <2>4
<1>6. ASSUME NEW u \in Threads, proc'[u] # Null PROVE Written(proc[u])'
  BY <1>0, <1>6, <1>4 DEF Ends, Becomes, AccessTyped, Written
<1>7. QED
  BY <1>5, <1>6 DEF ServedInv

LEMMA BackupServed == ASSUME AccessInv, ServedInv, NEW s \in Sites, Backup(s) PROVE ServedInv'
<1>0. AccessTyped /\ "backup" \in Threads
  BY DEF AccessInv, Threads
<1>1. /\ UNCHANGED <<policy, files, proc>> /\ proc["backup"] = Null
      /\ backups' = [backups EXCEPT ![s] =
           [access |-> files.access[s], main |-> files.main[s], slots |-> files.slots[s],
            bundle |-> IF Managed(s) THEN files.slots[s].policy ELSE Null]]
  BY DEF Backup, Begin, tables
<1>2. Grows
  BY <1>0, BeginGrows DEF Backup
<1>3. SUFFICES ASSUME Good' PROVE ServedInv'
  BY DEF ServedInv
<1>4. /\ \A u \in Sites : SavedServed(u) /\ (Restoring(u) \/ (Agrees(u) /\ InForceServed(u)))
      /\ \A u \in Threads : proc[u] # Null => Written(proc[u])
  BY <1>2, <1>3, GoodBack DEF ServedInv
<1>5. ASSUME NEW u \in Sites PROVE SavedServed(u)' /\ Agrees(u)' /\ InForceServed(u)'
  <2>1. Agrees(u) /\ InForceServed(u)
    BY <1>1, <1>4 DEF Restoring
  <2>2. Agrees(u)' /\ InForceServed(u)'
    BY <1>1, <2>1 DEF Agrees, InForceServed, Managed
  <2>3. SavedServed(u)'
    BY <1>0, <1>1, <2>1, <1>4 DEF SavedServed, InForceServed, AccessTyped
  <2>4. QED
    BY <2>2, <2>3
<1>6. ASSUME NEW u \in Threads, proc'[u] # Null PROVE Written(proc[u])'
  BY <1>1, <1>6, Actor, ThreadOps, <1>4 DEF Written
<1>7. QED
  BY <1>5, <1>6 DEF ServedInv

LEMMA NotGood == ASSUME {"lost", "adrift", "overlap"} \cap spent'.mishaps # {} PROVE ~Good'
BY DEF Good, Without

LEMMA BesideServed == ASSUME AccessInv, ServedInv, Beside PROVE ServedInv'
<1>0. AccessTyped /\ "backup" \in Threads /\ "geo" \in Threads
  BY DEF AccessInv, Threads
<1>1. CASE CommitRestore
  <2>1. CASE Committed
    BY <1>1, <2>1, CommittedServed DEF CommitRestore
  <2>2. CASE Note("adrift", TRUE) \/ Lost
    BY <1>0, NoteGrows, <2>2, LostGrows, NotGood DEF Mishaps, ServedInv
  <2>3. QED
    BY <1>1, <2>1, <2>2 DEF CommitRestore, Committed
<1>2. CASE \E s \in Sites : Backup(s)
  BY <1>2, BackupServed
<1>3. CASE /\ StartUpdate \/ ReadGeoSites \/ GeoApplied \/ GeoFailed \/ GeoRefreshed \/ FailRestore
              \/ \E s \in Sites : StartRestore(s)
           /\ ~CommitRestore
  <2>1. UNCHANGED <<policy, files, backups>>
    BY <1>3 DEF StartUpdate, ReadGeoSites, GeoApplied, GeoFailed, GeoRefreshed, FailRestore, StartRestore, tables
  <2>2. /\ Grows
        /\ \/ UNCHANGED proc
           \/ Moves("geo")
           \/ Moves("backup") /\ (proc["backup"] = Null \/ FailRestore)
    BY <1>3, BesideMoves
  <2>3. Settled
    BY <2>1, SameSettled
  <2>4. CASE UNCHANGED proc
    BY <2>1, <2>2, <2>3, <2>4, ServedStill
  <2>5. CASE Moves("geo")
    BY <1>0, <2>1, <2>2, <2>3, <2>5, ServedQuiet
  <2>6. CASE Moves("backup") /\ (proc["backup"] = Null \/ FailRestore)
    BY <1>0, <2>1, <2>2, <2>3, <2>6, ServedQuiet DEF FailRestore, At
  <2>7. QED
    BY <2>2, <2>4, <2>5, <2>6
<1>4. QED
  BY <1>1, <1>2, <1>3 DEF Beside

(* What the answer of a call changes, when none was lost.                  *)
CallFiles(r) ==
  \A s \in Sites :
    /\ files'.access[s] = IF s \in DOMAIN r.tx.access THEN r.tx.access[s] ELSE files.access[s]
    /\ files'.slots[s] = IF s \in DOMAIN r.tx.slots THEN r.tx.slots[s] ELSE files.slots[s]
    /\ files'.htpasswd[s] = IF s \in DOMAIN r.tx.htpasswd THEN r.tx.htpasswd[s] ELSE files.htpasswd[s]
    /\ files'.main[s] = IF s \in DOMAIN r.tx.main THEN r.tx.main[s] ELSE files.main[s]

AnsweredBy(t, r, q) ==
  /\ r \in Work /\ r = proc[t] /\ r # Null /\ r.pc = "call" /\ Shape(t, r) /\ Bound(r) /\ (Fresh => Read(r))
  /\ q \in Work /\ q # Null /\ proc'[t] = q /\ \A u \in Threads \ {t} : proc'[u] = proc[u]
  /\ q.op = r.op /\ q.doing = r.doing /\ q.pc = "done" /\ q.site = r.site /\ q.p = r.p /\ q.v = r.v
  /\ q.tx = r.tx /\ q.todo = r.todo /\ q.errs = r.errs /\ q.account = r.account /\ q.row = r.row
  /\ q.undoing = r.undoing
  /\ Holding(q) <=> Holding(r)
  /\ CallFiles(r)
  /\ ~Overwrites(t)

LEMMA CallEnds ==
  ASSUME AccessInv, NEW t \in Threads, Call(t)
  PROVE  /\ Grows /\ UNCHANGED <<tables, backups, editor, lock>>
         /\ \/ {"lost", "overlap"} \cap spent'.mishaps # {}
            \/ /\ UNCHANGED files /\ Moves(t) /\ proc[t] # Null /\ proc[t].pc = "call"
               /\ \E q \in Work : q = [proc[t] EXCEPT !.pc = "failed"] /\ proc'[t] = q
            \/ \E r, q \in Work : AnsweredBy(t, r, q)
<1>0. AccessTyped
  BY DEF AccessInv
<1>1. /\ UNCHANGED <<tables, backups, editor, lock>>
      /\ CallTo(t, "done") \/ CallTo(t, "failed")
      /\ CallTo(t, "done") \/ files' = files \/ "lost" \in spent'.mishaps
      /\ Overwrites(t) => ~CallTo(t, "done") \/ "overlap" \in spent'.mishaps
  BY CallCases
<1>2. PICK r \in Work : r = proc[t]
  BY <1>1, Actor DEF CallTo
<1>3. r # Null /\ r.pc = "call" /\ Shape(t, r) /\ Bound(r) /\ (Fresh => Read(r)) /\ r.tx \in Changes /\ Grows
  BY <1>1, <1>2, Actor DEF CallTo
<1>4. CASE CallTo(t, "failed") /\ files' = files
  <2>1. PICK q : q = [r EXCEPT !.pc = "failed"]
    OBVIOUS
  <2>2. q \in Work /\ q.pc = "failed"
    BY <2>1 DEF Work
  <2>3. Moves(t) /\ proc'[t] = q
    BY <1>0, <1>2, <1>4, <2>1, <2>2 DEF CallTo, Moves, AccessTyped
  <2>4. QED
    BY <1>1, <1>2, <1>3, <1>4, <2>1, <2>2, <2>3
<1>5. CASE CallTo(t, "done") /\ "overlap" \notin spent'.mishaps
  <2>1. PICK x \in {"done", "failed"} : x = "done"
    OBVIOUS
  <2>2. PICK q : q = [r EXCEPT !.pc = x]
    OBVIOUS
  <2>3. /\ q \in Work /\ Shape(t, q)
        /\ q.op = r.op /\ q.doing = r.doing /\ q.pc = x /\ q.site = r.site /\ q.p = r.p /\ q.v = r.v
        /\ q.tx = r.tx /\ q.todo = r.todo /\ q.errs = r.errs /\ q.account = r.account /\ q.row = r.row
        /\ q.undoing = r.undoing
        /\ Holding(q) <=> Holding(r)
    BY <1>3, <2>1, <2>2, Answered
  <2>4. proc'[t] = q /\ \A u \in Threads \ {t} : proc'[u] = proc[u]
    BY <1>0, <1>2, <1>5, <2>1, <2>2 DEF CallTo, AccessTyped
  <2>5. CallFiles(r)
    BY <1>2, <1>5, <1>0, <1>3, AfterTyped DEF CallTo, CallFiles
  <2>6. q # Null
    BY <2>3, NullIsNone
  <2>7. ~Overwrites(t)
    BY <1>1, <1>5
  <2>8. AnsweredBy(t, r, q)
    BY <1>2, <1>3, <2>1, <2>3, <2>4, <2>5, <2>6, <2>7 DEF AnsweredBy
  <2>9. QED
    BY <1>1, <1>3, <2>3, <2>8
<1>6. QED
  BY <1>1, <1>3, <1>4, <1>5

KeptAt(s) ==
  /\ files'.access[s].kind = files.access[s].kind /\ files'.access[s].policy = files.access[s].policy
  /\ files'.slots[s] = files.slots[s]

(* The GeoIP update writes back what it read.                              *)
LEMMA GeoKeeps ==
  ASSUME AccessInv, NEW t \in Threads, NEW r, NEW q, AnsweredBy(t, r, q), r.doing = "geo", NEW s \in Sites
  PROVE  /\ KeptAt(s) /\ files'.main[s] = files.main[s] /\ files'.htpasswd[s] = files.htpasswd[s]
         /\ s \in DOMAIN r.tx.access => files'.access[s].geo = r.tx.access[s].geo
         /\ s \notin DOMAIN r.tx.access => files'.access[s] = files.access[s]
<1>0. AccessTyped
  BY DEF AccessInv
<1>1. r.op = "geo" /\ t = "geo" /\ r.tx.htpasswd = Nothing /\ Writes(r, DOMAIN r.tx.access, {}, DOMAIN r.tx.access)
  BY ThreadOps, ShapeBack DEF AnsweredBy, GeoShape, RefreshShape
<1>2. CASE s \in DOMAIN r.tx.access
  <2>1. [files.access[s] EXCEPT !.geo = geo] = r.tx.access[s] /\ files.main[s] = r.tx.main[s]
    BY <1>1, <1>2 DEF AnsweredBy, Overwrites
  <2>2. files.access[s] \in Access
    BY <1>0 DEF AccessTyped, Files
  <2>3. r.tx.access[s].kind = files.access[s].kind /\ r.tx.access[s].policy = files.access[s].policy
    BY <2>1, <2>2 DEF Access
  <2>4. QED
    BY <1>1, <1>2, <2>1, <2>3 DEF AnsweredBy, CallFiles, KeptAt, Writes, Nothing
<1>3. CASE s \notin DOMAIN r.tx.access
  BY <1>1, <1>3 DEF AnsweredBy, CallFiles, KeptAt, Writes, Nothing
<1>4. QED
  BY <1>2, <1>3

(* Whatever is called writes one site, or is the GeoIP update.             *)
LEMMA CallKeeps ==
  ASSUME AccessInv, NEW t \in Threads, NEW r, NEW q, AnsweredBy(t, r, q)
  PROVE  /\ r.doing \in {"apply", "proxy", "refresh", "rules", "restore", "geo"}
         /\ r.doing # "geo" => /\ r.site \in Sites
                               /\ \A s \in Sites \ {r.site} : files'.access[s] = files.access[s] /\ files'.slots[s] = files.slots[s]
                                      /\ files'.htpasswd[s] = files.htpasswd[s] /\ files'.main[s] = files.main[s]
<1>1. r \in Work /\ Shape(t, r) /\ r.pc = "call" /\ CallFiles(r)
  BY DEF AnsweredBy
<1>2. r.doing \in {"apply", "proxy", "refresh", "rules", "restore", "geo"}
  BY <1>1 DEF Shape, ApplyShape, ProxyShape, AccountShape, RefreshShape, RulesShape, RuleShape, GeoShape, RestoreShape
<1>3. ASSUME r.doing # "geo" PROVE r.site \in Sites
  BY <1>1, <1>2, <1>3, SiteOf
<1>4. ASSUME r.doing # "geo"
      PROVE  /\ DOMAIN r.tx.access \subseteq {r.site} /\ DOMAIN r.tx.slots \subseteq {r.site}
             /\ DOMAIN r.tx.htpasswd \subseteq {r.site} /\ DOMAIN r.tx.main \subseteq {r.site}
  BY <1>1, ShapeBack, <1>2, <1>4 DEF ApplyShape, Writes, WritesPolicy, Nothing, ProxyShape,
     RefreshShape, RulesShape, RestoreShape
<1>5. QED
  BY <1>1, <1>2, <1>3, <1>4 DEF CallFiles

(* A backup with a bundle, a site being refreshed: under a policy.         *)
LEMMA UnderPolicy ==
  ASSUME AccessInv, NEW t \in Threads, proc[t] # Null,
         \/ proc[t].doing = "refresh" /\ proc[t].pc \in Answers
         \/ proc[t].doing = "restore" /\ proc[t].p # Null
         \/ proc[t].doing = "proxy" /\ proc[t].p # Null
  PROVE  proc[t].site \in Sites /\ Managed(proc[t].site)
<1>1. PICK r \in Work : r = proc[t]
  BY Actor
<1>2. Shape(t, r) /\ Bound(r) /\ Rows /\ Bundled
  BY <1>1, Actor DEF AccessInv
<1>3. r.site \in Sites
  BY <1>1, <1>2, SiteOf DEF Answers
<1>4. CASE r.doing = "refresh" /\ r.pc \in Answers
  BY <1>2, <1>4, ShapeBack, <1>1, <1>3 DEF RefreshShape, Answers, Bound, BoundRefresh, Rows, RowOk,
     Managed
<1>5. CASE r.doing = "restore" /\ r.p # Null
  BY <1>1, <1>2, <1>3, <1>5 DEF Bound, BoundRestore, Bundled
<1>6. CASE r.doing = "proxy" /\ r.p # Null
  BY <1>1, <1>2, <1>3, <1>6 DEF Bound, BoundProxy
<1>7. QED
  BY <1>1, <1>4, <1>5, <1>6

LEMMA OthersWritten ==
  ASSUME AccessInv, NEW t \in Threads, NEW r, NEW q, AnsweredBy(t, r, q), UNCHANGED backups,
         NEW u \in Threads \ {t}, proc[u] # Null, Written(proc[u])
  PROVE  Written(proc[u])'
<1>1. PICK w \in Work : w = proc[u]
  BY Actor
<1>2. w # Null /\ Shape(u, w) /\ (lock = u <=> Holding(w)) /\ (lock = t <=> Holding(r)) /\ proc'[u] = w
  BY <1>1, Actor DEF AnsweredBy
<1>3. SUFFICES ASSUME w.pc = "done", w.doing \in {"apply", "refresh", "proxy", "restore"}, w.p # Null
               PROVE  Written(w)'
  BY <1>1, <1>2 DEF Written
<1>4. ~Holding(r) /\ w.site \in Sites
  BY <1>1, <1>2, <1>3, SiteOf DEF Holding, Answers
<1>5. r.doing \in {"rules", "geo"}
  BY <1>4, CallKeeps DEF Holding, AnsweredBy, Answers
<1>6. KeptAt(w.site)
  <2>1. CASE r.doing = "geo"
    BY <1>4, <2>1, GeoKeeps
  <2>2. CASE r.doing = "rules"
    <3>1. t = "http" /\ ~Managed(r.site)
      BY <2>2, ThreadOps DEF AnsweredBy, Bound, BoundRule, Answers
    <3>2. w.doing \in {"refresh", "restore"}
      BY <1>1, <1>2, <1>3, <3>1, ThreadOps
    <3>3. Managed(w.site)
      BY <1>1, <1>2, <1>3, <3>2, UnderPolicy DEF Answers
    <3>4. w.site # r.site
      BY <3>1, <3>3
    <3>5. QED
      BY <1>4, <2>2, <3>4, CallKeeps DEF KeptAt
  <2>3. QED
    BY <1>5, <2>1, <2>2
<1>7. QED
  BY <1>1, <1>6 DEF Written, KeptAt

LEMMA AnsweredServed ==
  ASSUME AccessInv, ServedInv, NEW t \in Threads, NEW r, NEW q, AnsweredBy(t, r, q), Grows,
         UNCHANGED <<policy, backups>>
  PROVE  ServedInv'
<1>0. AccessTyped /\ Rows /\ Locked /\ "backup" \in Threads
  BY DEF AccessInv, Threads
<1>1. SUFFICES ASSUME Good' PROVE ServedInv'
  BY DEF ServedInv
<1>2. Good /\ Fresh
  BY <1>1, GoodBack DEF Good, Fresh, Without
<1>3. /\ \A s \in Sites : SavedServed(s) /\ (Restoring(s) \/ (Agrees(s) /\ InForceServed(s)))
      /\ \A u \in Threads : proc[u] # Null => Written(proc[u])
  BY <1>2 DEF ServedInv
<1>4. /\ r \in Work /\ r = proc[t] /\ r # Null /\ r.pc = "call" /\ Shape(t, r) /\ Bound(r) /\ Read(r)
      /\ q.doing = r.doing /\ q.pc = "done" /\ q.site = r.site /\ q.p = r.p /\ proc'[t] = q /\ q # Null
      /\ \A u \in Threads \ {t} : proc'[u] = proc[u]
      /\ CallFiles(r)
  BY <1>2 DEF AnsweredBy
<1>5. \A s \in Sites : SavedServed(s)'
  BY <1>3 DEF SavedServed
<1>6. \A s \in Sites : Restoring(s) => Restoring(s)'
  BY <1>0, <1>4 DEF Restoring
<1>7. ASSUME NEW s \in Sites, KeptAt(s), Restoring(s) \/ (Agrees(s) /\ InForceServed(s))
      PROVE  Restoring(s)' \/ (Agrees(s)' /\ InForceServed(s)')
  BY <1>6, <1>7 DEF KeptAt, Agrees, InForceServed, Managed
<1>8. ASSUME Written(q)',
             r.doing # "geo" => \/ Restoring(r.site)'
                                \/ Agrees(r.site)' /\ InForceServed(r.site)'
      PROVE  ServedInv'
  <2>1. ASSUME NEW s \in Sites PROVE Restoring(s)' \/ (Agrees(s)' /\ InForceServed(s)')
    <3>1. CASE r.doing = "geo"
      BY <3>1, GeoKeeps, <1>3, <1>7
    <3>2. CASE r.doing # "geo" /\ s # r.site
      BY <3>2, CallKeeps, <1>3, <1>7 DEF KeptAt
    <3>3. CASE r.doing # "geo" /\ s = r.site
      BY <1>8, <3>3
    <3>4. QED
      BY <3>1, <3>2, <3>3
  <2>2. ASSUME NEW u \in Threads, proc'[u] # Null PROVE Written(proc[u])'
    BY <1>4, <1>8, <1>3, <2>2, OthersWritten
  <2>3. QED
    BY <1>5, <2>1, <2>2 DEF ServedInv
<1>9. r.doing # "geo" => r.site \in Sites
  BY CallKeeps
<1>10. CASE r.doing \in {"apply", "refresh", "proxy"} /\ r.p # Null
  <2>1. /\ files'.access[r.site].kind = "policy" /\ files'.access[r.site].policy = r.p
        /\ files'.slots[r.site].policy = r.p
    BY <1>4, <1>10, ShapeBack DEF ApplyShape, RefreshShape, ProxyShape, Writes, CallFiles,
       WritesPolicy
  <2>2. Written(q)'
    BY <1>4, <1>10, <2>1 DEF Written
  <2>3. policy[r.site] # Null /\ policy[r.site].status = "applied" => Same(r.p, policy[r.site].applied)
    <3>1. CASE r.doing = "apply"
      BY <1>0, <1>4, <1>9, <1>10, <3>1 DEF Bound, BoundApply, Rows, RowOk, Same
    <3>2. CASE r.doing = "refresh"
      BY <1>4, <3>2 DEF Read, Same, Answers
    <3>3. CASE r.doing = "proxy"
      <4>1. policy[r.site].version = r.v /\ policy[r.site].at < r.v
        BY <1>4, <1>10, <3>3 DEF Bound, BoundProxy
      <4>2. policy[r.site] # Null => policy[r.site].at \in Nat /\ r.v \in Nat
        BY <1>0, <1>4, <1>9, <1>10, RowFields, ZenonT(30) DEF AccessTyped, Work
      <4>3. QED
        BY <1>0, <1>9, <1>10, <4>1, <4>2 DEF Rows, RowOk
    <3>4. QED
      BY <1>10, <3>1, <3>2, <3>3
  <2>4. Agrees(r.site)' /\ InForceServed(r.site)'
    BY <2>1, <2>3 DEF Agrees, InForceServed
  <2>5. QED
    BY <1>8, <2>2, <2>4
<1>11. CASE r.doing = "proxy" /\ r.p = Null
  <2>1. KeptAt(r.site)
    BY <1>4, <1>11, ShapeBack, NullIsNone, <1>9 DEF ProxyShape, Writes, WritesPolicy, CallFiles,
       KeptAt
  <2>2. Written(q)'
    BY <1>4, <1>11 DEF Written
  <2>3. QED
    BY <1>3, <1>7, <1>8, <1>9, <1>11, <2>1, <2>2
<1>12. CASE r.doing = "rules"
  <2>1. ~Managed(r.site)
    BY <1>4, <1>12 DEF Bound, BoundRule, Answers
  <2>2. policy[r.site] # Null => policy[r.site].status # "applied"
    BY <1>0, <1>9, <1>12, RowFields, <2>1 DEF AccessTyped, Rows, RowOk, Managed
  <2>3. Agrees(r.site)' /\ InForceServed(r.site)'
    BY <2>1, <2>2 DEF Agrees, InForceServed, Managed
  <2>4. Written(q)'
    BY <1>4, <1>12 DEF Written
  <2>5. QED
    BY <1>8, <2>3, <2>4
<1>13. CASE r.doing = "restore"
  <2>1. t = "backup"
    BY <1>4, <1>13, ThreadOps
  <2>2. Restoring(r.site)'
    BY <1>4, <2>1 DEF Restoring
  <2>3. Written(q)'
    <3>1. SUFFICES ASSUME r.p # Null PROVE Written(q)'
      BY <1>4, <1>13 DEF Written
    <3>2. Writes(r, {r.site}, {r.site}, {r.site})
      BY <1>4, <1>13, <3>1, ShapeBack DEF RestoreShape
    <3>3. /\ backups[r.site] # Null /\ r.p = backups[r.site].bundle
          /\ r.tx.access[r.site] = backups[r.site].access /\ r.tx.slots[r.site] = backups[r.site].slots
      BY <1>4, <1>13, <3>1 DEF Bound, BoundRestore
    <3>4. backups[r.site].access.kind = "policy" /\ backups[r.site].access.policy = r.p
      BY <1>3, <1>9, <1>13, <3>1, <3>3 DEF SavedServed
    <3>5. files'.access[r.site] = r.tx.access[r.site] /\ files'.slots[r.site] = r.tx.slots[r.site]
      BY <1>4, <1>9, <1>13, <3>2 DEF CallFiles, Writes
    <3>6. QED
      BY <1>4, <1>13, <3>3, <3>4, <3>5 DEF Written
  <2>4. QED
    BY <1>8, <2>2, <2>3
<1>14. CASE r.doing = "geo"
  BY <1>4, <1>8, <1>14 DEF Written
<1>15. r.doing \in {"apply", "refresh"} => r.p # Null
  BY <1>4, ShapeBack, NullIsNone DEF ApplyShape, RefreshShape, WritesPolicy, Answers
<1>16. r.doing \in {"apply", "proxy", "refresh", "rules", "restore", "geo"}
  BY CallKeeps
<1>17. QED
  BY <1>10, <1>11, <1>12, <1>13, <1>14, <1>15, <1>16

LEMMA CallServed == ASSUME AccessInv, ServedInv, NEW t \in Threads, Call(t) PROVE ServedInv'
BY CallEnds, NotGood, SameSettled, ServedQuiet, AnsweredServed DEF tables, ServedInv

LEMMA CrashServed == ASSUME AccessInv, Crash PROVE ServedInv'
BY CrashFacts, NotGood DEF ServedInv

LEMMA ServedInit == ASSUME Init PROVE ServedInv
BY InitFiles, InitFacts DEF Init, ServedInv, SavedServed, Agrees, InForceServed, Managed, Started,
   Same

LEMMA ServedNext == ASSUME AccessInv, ServedInv, Next PROVE ServedInv'
BY CallServed, RefreshServed, RequestServed, HandlerServed, BesideServed, CrashServed DEF Refresh,
   Next

LEMMA ServedStutter == ASSUME ServedInv, UNCHANGED vars PROVE ServedInv'
BY DEF ServedInv, Good, Without, SavedServed, Restoring, Agrees, InForceServed, Managed, Written, vars, tables

LEMMA RecordOf ==
  ASSUME NEW p \in Policy, NEW q \in Policy, Same(p, q)
  PROVE  [p EXCEPT !.off = q.off] = q
BY DEF Policy, Same

(* A policy shown as applied is the one nginx serves, whatever requests,   *)
(* refreshes, updates, backups and restores did in turn                    *)
(* (accesspolicy/service.go apply, RefreshActive; backup.go).              *)
THEOREM ServedAsShown == Spec => []AppliedIsServed
<1>1. ASSUME AccessInv, ServedInv PROVE AppliedIsServed
  <2>1. SUFFICES ASSUME Good, NEW s \in Sites, policy[s] # Null, policy[s].status = "applied", ~Leased(s)
                 PROVE  /\ files.access[s].kind = "policy"
                        /\ [files.access[s].policy EXCEPT !.off = policy[s].applied.off] = policy[s].applied
    BY DEF AppliedIsServed, Good, Steady, Without
  <2>2. AccessTyped /\ Rows /\ "backup" \in Threads
    BY <1>1 DEF AccessInv, Threads
  <2>3. ~Restoring(s)
    BY <1>1, <2>2, Actor, ThreadOps, <2>1, NullIsNone DEF Restoring, Holding, Leased
  <2>4. Agrees(s)
    BY <1>1, <2>1, <2>3 DEF ServedInv
  <2>5. policy[s].applied \in Policy
    BY <2>1, <2>2 DEF AccessTyped, Rows, RowOk
  <2>6. files.access[s].policy \in Policy
    BY <2>2 DEF AccessTyped, Files, Access
  <2>7. QED
    BY <2>1, <2>4, <2>5, <2>6, RecordOf DEF Agrees
<1>2. Init => AccessInv /\ ServedInv
  BY AccessInit, ServedInit
<1>3. ASSUME AccessInv /\ ServedInv, [Next]_vars PROVE (AccessInv /\ ServedInv)'
  BY <1>3, AccessNext, AccessStutter, ServedNext, ServedStutter
<1>4. QED
  BY <1>1, <1>2, <1>3, PTL DEF Spec

-----------------------------------------------------------------------------
(* The rule linked to a proxy follows it: the inductive invariant.         *)

GoodL == Without({"lost", "adrift", "overlap", "ahead", "restored", "older"})

Follows(p, x) ==
  IF p.link = Null THEN ~p.off ELSE x # Null /\ p.link = x.path /\ p.off = ~x.on

Proxying(s) == proc["http"] # Null /\ proc["http"].doing = "proxy" /\ proc["http"].site = s
ToRender(s) == Proxying(s) /\ proc["http"].pc = "render"

MainOk(s) ==
  \/ files.main[s] = proxies[s]
  \/ policy[s] # Null /\ policy[s].fromProxy /\ policy[s].at < policy[s].version
  \/ Proxying(s)
DesiredOk(s) == policy[s] # Null => Follows(policy[s].desired, proxies[s]) \/ ToRender(s)
FromOk(s)    == policy[s] # Null /\ policy[s].fromProxy => Managed(s)
ExactOk(s)   ==
  policy[s] # Null /\ policy[s].status = "applied" => files.access[s].policy = policy[s].applied
LinkAt(s)    == DesiredOk(s) /\ FromOk(s) /\ (Restoring(s) \/ (MainOk(s) /\ ExactOk(s)))

(* What the request that applies a policy, a proxy or the older rules knows.*)
LinkTx(r) ==
  /\ r.doing = "apply" => policy[r.site].desired = r.p /\ files.main[r.site] = proxies[r.site]
  /\ r.doing = "proxy" /\ r.pc \in Answers => r.tx.main[r.site] = proxies[r.site]
  /\ r.doing = "proxy" /\ r.pc = "done" => files.main[r.site] = proxies[r.site]
  /\ r.doing = "proxy" /\ r.p # Null => policy[r.site].fromProxy
  /\ r.doing = "rules" /\ r.pc \in Answers => Restoring(r.site) \/ r.tx.main[r.site] = proxies[r.site]

LinkInv == GoodL =>
  /\ \A s \in Sites : LinkAt(s)
  /\ proc["http"] # Null => LinkTx(proc["http"])

LEMMA GoodLBack == ASSUME Grows, GoodL' PROVE GoodL
BY WithoutBack DEF GoodL

LEMMA GoodLGood == GoodL => Good /\ Fresh
BY DEF GoodL, Good, Fresh, Without

LEMMA NotGoodL ==
  ASSUME {"lost", "adrift", "overlap", "ahead", "restored", "older"} \cap spent'.mishaps # {}
  PROVE  ~GoodL'
BY DEF GoodL, Without

(* The row of s is as it was, but for what is shown of it.                 *)
StatusOnly(s) ==
  /\ policy'[s] = Null <=> policy[s] = Null
  /\ policy[s] # Null => /\ policy'[s].desired = policy[s].desired /\ policy'[s].applied = policy[s].applied
                         /\ policy'[s].at = policy[s].at /\ policy'[s].version = policy[s].version
                         /\ policy'[s].fromProxy = policy[s].fromProxy /\ policy'[s].mode = policy[s].mode
  /\ policy'[s] # Null /\ policy'[s].status = "applied" =>
       policy[s].status = "applied" \/ files.access[s].policy = policy[s].applied

LinkSame(s) ==
  /\ StatusOnly(s) /\ proxies'[s] = proxies[s]
  /\ files'.main[s] = files.main[s] /\ files'.access[s].policy = files.access[s].policy
  /\ Restoring(s) => Restoring(s)'
  /\ Proxying(s) => Proxying(s)'
  /\ ToRender(s) => ToRender(s)'

LEMMA LinkAtSame == ASSUME NEW s, LinkAt(s), LinkSame(s) PROVE LinkAt(s)'
BY DEF LinkAt, LinkSame, StatusOnly, DesiredOk, FromOk, Managed, MainOk, ExactOk

LEMMA LinkStep ==
  ASSUME LinkInv, Grows,
         GoodL => \A s \in Sites : LinkSame(s) \/ LinkAt(s)',
         GoodL /\ proc'["http"] # Null => LinkTx(proc["http"])'
  PROVE  LinkInv'
BY GoodLBack, LinkAtSame DEF LinkInv

(* A step beside the requests.                                             *)
LEMMA LinkBeside ==
  ASSUME AccessInv, LinkInv, Grows, proc'["http"] = proc["http"],
         GoodL => \A s \in Sites : LinkSame(s)
  PROVE  LinkInv'
<1>1. ASSUME GoodL, proc["http"] # Null PROVE LinkTx(proc["http"])'
  <2>1. "http" \in Threads
    BY DEF Threads
  <2>2. PICK r \in Work : r = proc["http"]
    BY <1>1, <2>1, Actor
  <2>3. Shape("http", r) /\ LinkTx(r) /\ Bound(r)
    BY <1>1, <2>1, <2>2, Actor DEF LinkInv
  <2>4. CASE r.doing \in {"apply", "proxy"} \/ (r.doing = "rules" /\ r.pc \in Answers)
    BY <2>1, <2>3, <2>4, SiteOf, <1>1, <2>2 DEF Answers, Bound, BoundApply, BoundProxy, Managed,
       LinkTx, LinkSame, StatusOnly
  <2>5. CASE ~(r.doing \in {"apply", "proxy"} \/ (r.doing = "rules" /\ r.pc \in Answers))
    BY <2>2, <2>5 DEF LinkTx
  <2>6. QED
    BY <2>4, <2>5
<1>2. QED
  BY <1>1, LinkStep

LEMMA SameStatus == ASSUME UNCHANGED policy, NEW s PROVE StatusOnly(s)
BY DEF StatusOnly

LEMMA ErrorStatus ==
  ASSUME AccessTyped, NEW s \in Sites, NEW v, MarkError(s, v), NEW u \in Sites
  PROVE  StatusOnly(u)
<1>1. CASE policy' = policy
  BY <1>1, SameStatus
<1>2. CASE policy[s] # Null /\ policy' = [policy EXCEPT ![s].status = "error"]
  BY <1>2, RowFields DEF AccessTyped, Row, StatusOnly
<1>3. QED
  BY <1>1, <1>2 DEF MarkError

(* A refresh marks what is applied already.                                *)
LEMMA RefreshedStatus ==
  ASSUME AccessTyped, Rows, NEW s \in Sites, NEW v, MarkApplied(s, v),
         policy[s] # Null, policy[s].at = v, v \in Nat, v > 0, files.access[s].policy = policy[s].applied,
         NEW u \in Sites
  PROVE  StatusOnly(u)
<1>1. CASE policy' = policy
  BY <1>1, SameStatus
<1>2. CASE policy[s].version = v /\ policy' = [policy EXCEPT ![s].mode = "unified", ![s].applied = policy[s].desired,
                                                 ![s].at = v, ![s].status = "applied"]
  BY <1>2, RowFields, NullIsNone DEF AccessTyped, Rows, RowOk, Row, StatusOnly
<1>3. QED
  BY <1>1, <1>2 DEF MarkApplied

(* A refresh goes on.                                                      *)
LEMMA RefreshOn ==
  ASSUME AccessInv, NEW t \in Threads, RefreshLock(t) \/ RefreshMark(t) \/ \E s \in Sites : RefreshRead(t, s)
  PROVE  \E r \in Work : /\ r = proc[t] /\ proc'[t].doing = "refresh" /\ proc'[t].op = r.op
                         /\ \A u \in Threads \ {t} : proc'[u] = proc[u]
<1>0. AccessTyped
  BY DEF AccessInv
<1>1. PICK r \in Work : r = proc[t]
  BY RefreshMoves, Actor
<1>2. r.doing = "refresh"
  BY <1>1, RefreshMoves
<1>3. ASSUME NEW q, Becomes(t, q), q.doing = r.doing, q.op = r.op
      PROVE  /\ proc'[t].doing = "refresh" /\ proc'[t].op = r.op
             /\ \A u \in Threads \ {t} : proc'[u] = proc[u]
  BY <1>0, <1>2, <1>3 DEF Becomes, AccessTyped
<1>4. ASSUME NEW bad, RefreshNext(t, bad) PROVE \E q : Becomes(t, q) /\ q.doing = r.doing /\ q.op = r.op
  <2>1. PICK q : q = [r EXCEPT !.pc = "next", !.todo = r.todo \ {r.site}, !.errs = r.errs \/ bad]
    OBVIOUS
  <2>2. q.doing = r.doing /\ q.op = r.op
    BY <2>1 DEF Work
  <2>3. Becomes(t, q)
    BY <1>1, <1>4, <2>1 DEF RefreshNext
  <2>4. QED
    BY <2>2, <2>3
<1>5. CASE RefreshLock(t)
  <2>1. \/ \E bad : RefreshNext(t, bad)
        \/ \E x : Becomes(t, [r EXCEPT !.pc = "call", !.tx = x])
    BY <1>1, <1>5 DEF RefreshLock
  <2>2. ASSUME NEW x, Becomes(t, [r EXCEPT !.pc = "call", !.tx = x])
        PROVE  \E q : Becomes(t, q) /\ q.doing = r.doing /\ q.op = r.op
    <3>1. PICK q : q = [r EXCEPT !.pc = "call", !.tx = x]
      OBVIOUS
    <3>2. q.doing = r.doing /\ q.op = r.op
      BY <3>1 DEF Work
    <3>3. QED
      BY <2>2, <3>1, <3>2
  <2>3. QED
    BY <1>1, <1>3, <1>4, <2>1, <2>2
<1>6. CASE RefreshMark(t)
  BY <1>6, <1>1, <1>3, <1>4 DEF RefreshMark
<1>7. CASE \E s \in Sites : RefreshRead(t, s)
  <2>1. PICK s \in Sites : RefreshRead(t, s)
    BY <1>7
  <2>2. CASE Managed(s) /\ Renderable(policy[s].applied)
    BY <1>1, <2>1, <2>2, <1>3 DEF Work, RefreshRead
  <2>3. CASE ~(Managed(s) /\ Renderable(policy[s].applied))
    BY <1>1, <2>1, <2>3, <1>3 DEF Work, RefreshRead
  <2>4. QED
    BY <2>2, <2>3
<1>8. QED
  BY <1>5, <1>6, <1>7

LEMMA RefreshLinked ==
  ASSUME AccessInv, ServedInv, LinkInv, NEW t \in Threads,
         RefreshLock(t) \/ RefreshMark(t) \/ \E s \in Sites : RefreshRead(t, s)
  PROVE  LinkInv'
<1>0. AccessTyped /\ Rows /\ "backup" \in Threads /\ "http" \in Threads
  BY DEF AccessInv, Threads
<1>1. Moves(t) /\ Grows /\ proc[t] # Null /\ proc[t].doing = "refresh" /\ t # "backup"
  BY RefreshMoves
<1>2. UNCHANGED <<files, backups, proxies>>
  BY DEF RefreshLock, RefreshMark, RefreshRead, tables
<1>3. PICK r \in Work : r = proc[t] /\ proc'[t].doing = "refresh" /\ \A u \in Threads \ {t} : proc'[u] = proc[u]
  BY RefreshOn
<1>4. r # Null /\ Shape(t, r) /\ Bound(r) /\ (Fresh => Read(r)) /\ r.doing = "refresh"
  BY <1>1, <1>3, Actor
<1>5. ASSUME GoodL, NEW u \in Sites PROVE StatusOnly(u)
  <2>1. CASE RefreshLock(t)
    <3>1. r.pc = "lock"
      BY <1>3, <2>1 DEF RefreshLock, At
    <3>2. r.site \in Sites
      BY <1>4, <3>1, SiteOf
    <3>3. UNCHANGED policy \/ MarkError(r.site, r.v)
      BY <1>3, <2>1 DEF RefreshLock
    <3>4. QED
      BY <1>0, <1>5, <3>2, <3>3, SameStatus, ErrorStatus
  <2>2. CASE RefreshMark(t)
    <3>1. r.pc \in {"done", "failed"}
      BY <1>3, <2>2 DEF RefreshMark, At
    <3>2. r.site \in Sites
      BY <1>4, <3>1, SiteOf
    <3>3. CASE r.pc = "done"
      <4>1. MarkApplied(r.site, r.v)
        BY <1>3, <2>2, <3>3 DEF RefreshMark
      <4>2. r.p # Null /\ policy[r.site] # Null /\ policy[r.site].at = r.v /\ r.v > 0 /\ r.v \in Nat
        BY <1>4, <3>3, ShapeBack, NullIsNone DEF RefreshShape, WritesPolicy, Bound, BoundRefresh, Answers, Work
      <4>3. policy[r.site].applied = r.p
        BY <1>4, <1>5, <3>3, GoodLGood DEF Read, Answers
      <4>4. files.access[r.site].policy = r.p
        BY <1>3, <1>4, <1>5, <3>3, <4>2, GoodLGood DEF ServedInv, Written
      <4>5. QED
        BY <1>0, <1>5, <3>2, <4>1, <4>2, <4>3, <4>4, RefreshedStatus
    <3>4. CASE r.pc = "failed"
      <4>1. MarkError(r.site, r.v)
        BY <1>3, <2>2, <3>4 DEF RefreshMark
      <4>2. QED
        BY <1>0, <1>5, <3>2, <4>1, ErrorStatus
    <3>5. QED
      BY <3>1, <3>3, <3>4
  <2>3. CASE \E s \in Sites : RefreshRead(t, s)
    BY <2>3, SameStatus DEF RefreshRead, tables
  <2>4. QED
    BY <2>1, <2>2, <2>3
<1>6. ASSUME GoodL, NEW s \in Sites PROVE LinkSame(s)
  BY <1>5, <1>6, <1>0, <1>1, <1>3, <1>2 DEF Proxying, LinkSame, Restoring, ToRender
<1>7. ASSUME t = "http" PROVE LinkTx(proc["http"])'
  BY <1>3, <1>7 DEF LinkTx
<1>8. CASE t = "http"
  BY <1>1, <1>6, <1>7, <1>8, LinkStep
<1>9. CASE t # "http"
  BY <1>0, <1>1, <1>3, <1>6, <1>9, LinkBeside
<1>10. QED
  BY <1>8, <1>9

LEMMA BesideLinked == ASSUME AccessInv, LinkInv, Beside PROVE LinkInv'
<1>0. AccessTyped /\ "backup" \in Threads /\ "geo" \in Threads /\ "http" \in Threads
  BY DEF AccessInv, Threads
<1>1. CASE CommitRestore
  <2>1. CASE Committed
    BY <1>1, <2>1, CommittedFacts, NotGoodL DEF CommitRestore, LinkInv
  <2>2. CASE Note("adrift", TRUE) \/ Lost
    BY <1>0, NoteGrows, <2>2, LostGrows, NotGoodL DEF Mishaps, LinkInv
  <2>3. QED
    BY <1>1, <2>1, <2>2 DEF CommitRestore, Committed
<1>2. CASE /\ StartUpdate \/ ReadGeoSites \/ GeoApplied \/ GeoFailed \/ GeoRefreshed \/ FailRestore
              \/ \E s \in Sites : Backup(s) \/ StartRestore(s)
           /\ ~CommitRestore
  <2>1. UNCHANGED <<policy, files, proxies>>
    BY <1>2 DEF StartUpdate, ReadGeoSites, GeoApplied, GeoFailed, GeoRefreshed, FailRestore, StartRestore, Backup,
       tables
  <2>2. /\ Grows
        /\ \/ UNCHANGED proc
           \/ Moves("geo")
           \/ Moves("backup") /\ (proc["backup"] = Null \/ FailRestore)
    BY <1>2, BesideMoves
  <2>3. /\ proc'["http"] = proc["http"]
        /\ \A s \in Sites : Restoring(s) => Restoring(s)'
    BY <1>0, <2>2 DEF Restoring, Moves, FailRestore, At
  <2>4. \A s \in Sites : LinkSame(s)
    BY <2>1, <2>3, SameStatus DEF LinkSame, Proxying, ToRender
  <2>5. QED
    BY <2>2, <2>3, <2>4, LinkBeside
<1>3. QED
  BY <1>1, <1>2 DEF Beside

(* While a request holds the lock no other call writes its site.           *)
LEMMA MainKept ==
  ASSUME AccessInv, NEW t \in Threads \ {"http"}, NEW r, NEW q, AnsweredBy(t, r, q),
         proc["http"] # Null, proc["http"].doing \in {"apply", "proxy"}
  PROVE  files'.main[proc["http"].site] = files.main[proc["http"].site]
BY Actor, SiteOf, CallKeeps, ThreadOps, GeoKeeps DEF AccessInv, Threads, Holding, Locked,
   AnsweredBy, Answers

LEMMA AnsweredLinked ==
  ASSUME AccessInv, LinkInv, NEW t \in Threads, NEW r, NEW q, AnsweredBy(t, r, q), Grows,
         UNCHANGED <<policy, proxies, backups>>
  PROVE  LinkInv'
<1>0. AccessTyped /\ Rows /\ "backup" \in Threads /\ "http" \in Threads
  BY DEF AccessInv, Threads
<1>1. SUFFICES ASSUME GoodL PROVE LinkInv'
  BY GoodLBack DEF LinkInv
<1>2. /\ \A s \in Sites : LinkAt(s)
      /\ proc["http"] # Null => LinkTx(proc["http"])
  BY <1>1 DEF LinkInv
<1>3. /\ r \in Work /\ r = proc[t] /\ r # Null /\ r.pc = "call" /\ Shape(t, r) /\ Bound(r) /\ Read(r)
      /\ q.doing = r.doing /\ q.pc = "done" /\ q.site = r.site /\ q.p = r.p /\ q.tx = r.tx /\ proc'[t] = q /\ q # Null
      /\ \A u \in Threads \ {t} : proc'[u] = proc[u]
      /\ CallFiles(r)
  BY <1>1, GoodLGood DEF AnsweredBy
<1>4. \A s \in Sites : /\ Restoring(s) => Restoring(s)'
                       /\ Proxying(s) => Proxying(s)'
                       /\ ToRender(s) => ToRender(s)'
  BY <1>0, <1>3 DEF Restoring, Proxying, ToRender
<1>5. ASSUME NEW s \in Sites, files'.main[s] = files.main[s], files'.access[s].policy = files.access[s].policy
      PROVE  LinkSame(s)
  BY <1>4, <1>5, SameStatus DEF LinkSame
<1>6. ASSUME NEW s \in Sites, Restoring(s) \/ (MainOk(s)' /\ ExactOk(s)') PROVE LinkAt(s)'
  BY <1>2, <1>4, <1>6 DEF LinkAt, DesiredOk, FromOk, Managed
<1>7. r.doing # "geo" => r.site \in Sites
  BY CallKeeps
<1>8. policy[r.site] # Null /\ policy[r.site].status = "applied" /\ r.doing # "geo" =>
        policy[r.site].at = policy[r.site].version /\ policy[r.site].at \in Nat /\ policy[r.site].at > 0
          /\ policy[r.site].desired = policy[r.site].applied
  BY <1>0, <1>7, RowFields DEF AccessTyped, Rows, RowOk
<1>9. ASSUME r.doing # "geo" PROVE LinkSame(r.site) \/ LinkAt(r.site)'
  <2>1. CASE r.doing \in {"apply", "refresh"}
    <3>1. Writes(r, {r.site}, {r.site}, {}) /\ WritesPolicy(r)
      BY <1>3, <2>1, ShapeBack DEF ApplyShape, RefreshShape
    <3>2. files'.main[r.site] = files.main[r.site] /\ files'.access[r.site].policy = r.p
      BY <1>3, <3>1 DEF CallFiles, Writes, WritesPolicy
    <3>3. policy[r.site] # Null /\ policy[r.site].status = "applied" => r.p = policy[r.site].applied
      <4>1. CASE r.doing = "apply"
        BY <1>3, <4>1, ThreadOps, <1>2, <1>8 DEF LinkTx
      <4>2. CASE r.doing = "refresh"
        BY <1>3, <4>2 DEF Read, Answers
      <4>3. QED
        BY <2>1, <4>1, <4>2
    <3>4. ExactOk(r.site)'
      BY <3>2, <3>3 DEF ExactOk
    <3>5. MainOk(r.site) => MainOk(r.site)'
      BY <1>4, <1>7, <1>9, <3>2 DEF MainOk
    <3>6. Restoring(r.site) \/ MainOk(r.site)
      BY <1>2, <1>7, <1>9 DEF LinkAt
    <3>7. QED
      BY <1>6, <1>7, <1>9, <3>4, <3>5, <3>6
  <2>2. CASE r.doing \in {"proxy", "rules"}
    <3>1. files'.main[r.site] = r.tx.main[r.site]
      BY <1>3, <2>2, ShapeBack, <1>7, <1>9 DEF ProxyShape, RulesShape, Writes, CallFiles
    <3>2. t = "http"
      BY <1>3, <2>2, ThreadOps
    <3>3. Restoring(r.site) \/ r.tx.main[r.site] = proxies[r.site]
      BY <1>2, <1>3, <2>2, <3>2 DEF LinkTx, Answers
    <3>4. ~(policy[r.site] # Null /\ policy[r.site].status = "applied")
      <4>1. CASE r.doing = "proxy" /\ r.p = Null
        BY <1>3, <4>1 DEF Bound, BoundProxy
      <4>2. CASE r.doing = "proxy" /\ r.p # Null
        BY <1>3, <1>8, <4>2 DEF Bound, BoundProxy
      <4>3. CASE r.doing = "rules"
        BY <1>3, <4>3, <1>0, <1>7, <1>8 DEF Bound, BoundRule, Answers, Rows, RowOk, Managed
      <4>4. QED
        BY <2>2, <4>1, <4>2, <4>3
    <3>5. ExactOk(r.site)'
      BY <3>4 DEF ExactOk
    <3>6. Restoring(r.site) \/ MainOk(r.site)'
      BY <3>1, <3>3 DEF MainOk
    <3>7. QED
      BY <1>6, <1>7, <1>9, <3>5, <3>6
  <2>3. CASE r.doing = "restore"
    BY <1>3, <2>3, ThreadOps, <1>2, <1>7, <1>4 DEF Restoring, LinkAt, DesiredOk, FromOk, Managed
  <2>4. QED
    BY <1>9, <2>1, <2>2, <2>3, CallKeeps
<1>10. ASSUME NEW s \in Sites PROVE LinkSame(s) \/ LinkAt(s)'
  BY <1>5, GeoKeeps, CallKeeps, <1>9 DEF KeptAt
<1>11. ASSUME proc'["http"] # Null PROVE LinkTx(proc["http"])'
  <2>1. CASE t = "http"
    <3>1. LinkTx(r)
      BY <1>2, <1>3, <2>1
    <3>2. ASSUME r.doing = "apply" PROVE files'.main[r.site] = files.main[r.site]
      BY <1>3, <3>2, ShapeBack, <1>7 DEF ApplyShape, Writes, CallFiles
    <3>3. ASSUME r.doing = "proxy" PROVE files'.main[r.site] = r.tx.main[r.site]
      BY <1>3, <3>3, ShapeBack, <1>7 DEF ProxyShape, Writes, CallFiles
    <3>4. r.doing = "rules" /\ Restoring(r.site) => Restoring(r.site)'
      BY <1>4, <1>7
    <3>5. LinkTx(q)'
      BY <1>3, <3>1, <3>2, <3>3, <3>4 DEF LinkTx, Answers
    <3>6. QED
      BY <1>3, <2>1, <3>5
  <2>2. CASE t # "http"
    <3>1. PICK w \in Work : w = proc["http"] /\ proc'["http"] = w
      BY <1>0, <1>3, <1>11, <2>2, Actor
    <3>2. LinkTx(w) /\ Shape("http", w)
      BY <1>0, <1>2, <1>3, <1>11, <2>2, <3>1, Actor
    <3>3. w.doing \in {"apply", "proxy"} => files'.main[w.site] = files.main[w.site]
      BY <1>0, <1>3, <1>11, <2>2, <3>1, MainKept
    <3>4. w.doing = "rules" /\ w.pc \in Answers /\ Restoring(w.site) => Restoring(w.site)'
      BY <1>0, <1>4, <3>2, SiteOf DEF Answers
    <3>5. LinkTx(w)'
      BY <3>2, <3>3, <3>4 DEF LinkTx
    <3>6. QED
      BY <3>1, <3>5
  <2>3. QED
    BY <2>1, <2>2
<1>12. QED
  BY <1>10, <1>11, LinkStep

LEMMA CallLinked == ASSUME AccessInv, LinkInv, NEW t \in Threads, Call(t) PROVE LinkInv'
<1>0. "http" \in Threads /\ "backup" \in Threads
  BY DEF Threads
<1>1. Grows /\ UNCHANGED <<policy, proxies, backups>>
  BY CallEnds DEF tables
<1>2. CASE {"lost", "overlap"} \cap spent'.mishaps # {}
  BY <1>2, NotGoodL DEF LinkInv
<1>3. ASSUME NEW q \in Work, q = [proc[t] EXCEPT !.pc = "failed"], proc'[t] = q, UNCHANGED files, Moves(t),
             proc[t] # Null, proc[t].pc = "call"
      PROVE  LinkInv'
  <2>1. PICK r \in Work : r = proc[t]
    BY <1>3, Actor
  <2>2. q.doing = r.doing /\ q.site = r.site /\ q.p = r.p /\ q.tx = r.tx /\ q.pc = "failed" /\ q # Null /\ r.pc = "call"
    BY <1>3, <2>1, NullIsNone DEF Work
  <2>3. \A s \in Sites : LinkSame(s)
    <3>1. ASSUME NEW s \in Sites
          PROVE  /\ Restoring(s) => Restoring(s)'
                 /\ Proxying(s) => Proxying(s)'
                 /\ ToRender(s) => ToRender(s)'
      <4>1. CASE t = "http"
        BY <1>0, <1>3, <2>1, <2>2, <4>1 DEF Restoring, Proxying, ToRender, Moves
      <4>2. CASE t # "http"
        BY <1>0, <1>3, <2>1, <2>2, <4>2 DEF Restoring, Proxying, ToRender, Moves
      <4>3. QED
        BY <4>1, <4>2
    <3>2. QED
      BY <1>1, <1>3, <3>1, SameStatus DEF LinkSame
  <2>4. CASE t # "http"
    BY <1>0, <1>1, <1>3, <2>3, <2>4, LinkBeside DEF Moves
  <2>5. CASE t = "http"
    <3>1. ASSUME GoodL PROVE LinkTx(q)'
      <4>1. LinkTx(r)
        BY <1>3, <2>1, <2>5, <3>1 DEF LinkInv
      <4>2. Shape(t, r)
        BY <1>3, <2>1, Actor
      <4>3. r.doing = "rules" /\ Restoring(r.site) => Restoring(r.site)'
        BY <2>2, <2>3, <4>2, SiteOf DEF LinkSame
      <4>4. QED
        BY <1>1, <1>3, <2>2, <4>1, <4>3 DEF LinkTx, Answers
    <3>2. QED
      BY <1>1, <1>3, <2>3, <2>5, <3>1, LinkStep
  <2>6. QED
    BY <2>4, <2>5
<1>4. ASSUME NEW r \in Work, NEW q \in Work, AnsweredBy(t, r, q) PROVE LinkInv'
  BY <1>1, <1>4, AnsweredLinked
<1>5. QED
  BY <1>2, <1>3, <1>4, CallEnds

LEMMA CrashLinked == ASSUME AccessInv, Crash PROVE LinkInv'
BY CrashFacts, NotGoodL DEF LinkInv

LEMMA LinkInit == ASSUME Init PROVE LinkInv
<1>1. /\ \A s \in Sites : files.access[s].kind = (IF Managed(s) THEN "policy" ELSE "rules")
      /\ \A s \in Sites : /\ Managed(s) => files.access[s].policy = policy[s].applied
                          /\ files.main[s] = proxies[s]
  BY InitFiles
<1>2. \A s \in Sites : policy[s] # Null =>
        /\ policy[s].mode = "unified" /\ policy[s].desired = policy[s].applied
        /\ policy[s].applied.link = Null /\ policy[s].applied.off = FALSE
  BY InitFacts
<1>3. \A t \in Threads : proc[t] = Null
  BY DEF Init
<1>4. "http" \in Threads
  BY DEF Threads
<1>5. QED
  BY <1>1, <1>2, <1>3, <1>4 DEF LinkInv, LinkAt, DesiredOk, FromOk, MainOk, ExactOk, Follows, Managed

LEMMA LinkStutter == ASSUME LinkInv, UNCHANGED vars PROVE LinkInv'
BY DEF LinkInv, GoodL, Without, LinkAt, DesiredOk, FromOk, MainOk, ExactOk, Restoring, Proxying, ToRender, Managed,
   LinkTx, vars, tables

-----------------------------------------------------------------------------
(* What the requests do next, field by field.                              *)

LEMMA Turned ==
  ASSUME AccessTyped, NEW t \in Threads, NEW q, Becomes(t, q)
  PROVE  proc'[t] = q /\ \A u \in Threads \ {t} : proc'[u] = proc[u]
BY DEF Becomes, AccessTyped

(* A rule of s is being written: for users, instead of what it was for.    *)
RuleOf(q, s, users) ==
  /\ q # Null /\ q.op = "rule" /\ q.doing = "rules" /\ q.pc = "call" /\ q.site = s
  /\ q.row.old = rules[s] /\ q.row.new = users
  /\ DOMAIN q.tx.access = {s} /\ DOMAIN q.tx.slots = {} /\ DOMAIN q.tx.main = {s}
  /\ q.tx.access[s].kind = "rules" /\ q.tx.access[s].policy.users = users /\ q.tx.main[s] = files.main[s]
  /\ users = rules[s] => DOMAIN q.tx.htpasswd = {}
  /\ users # rules[s] => DOMAIN q.tx.htpasswd = {s} /\ q.tx.htpasswd[s] = Admitted(users)

LEMMA RuleStarts ==
  ASSUME AccessInv, NEW s \in Sites, NEW users \in SUBSET Accounts, StartRule(s, users)
  PROVE  /\ proc["http"] = Null /\ Grows /\ spent'.mishaps = spent.mishaps /\ policy[s] = Null /\ ~Leased(s)
         /\ rules' = [rules EXCEPT ![s] = users]
         /\ UNCHANGED <<policy, accounts, proxies, geo, files, backups, editor, lock>>
         /\ \E q \in Work : Becomes("http", q) /\ RuleOf(q, s, users)
<1>0. AccessTyped /\ "http" \in Threads
  BY DEF AccessInv, Threads
<1>1. Grows /\ proc["http"] = Null /\ spent'.mishaps = spent.mishaps
  BY <1>0, BeginGrows DEF StartRule, Serve, Begin
<1>2. rules[s] \in SUBSET Accounts
  BY <1>0 DEF AccessTyped
<1>3. PICK x : x = IF users = rules[s] THEN RulesFiles(s, users) ELSE PasswordFiles(s, users)
  OBVIOUS
<1>4. /\ x \in Changes
      /\ DOMAIN x.access = {s} /\ DOMAIN x.slots = {} /\ DOMAIN x.main = {s}
      /\ x.access[s].kind = "rules" /\ x.access[s].policy.users = users /\ x.main[s] = files.main[s]
      /\ users = rules[s] => DOMAIN x.htpasswd = {}
      /\ users # rules[s] => DOMAIN x.htpasswd = {s} /\ x.htpasswd[s] = Admitted(users)
  BY <1>0, <1>3, RulesFilesTyped, QuietTyped, PasswordFileTyped
<1>5. PICK y : y = [old |-> rules[s], new |-> users]
  OBVIOUS
<1>6. y \in Turn /\ y.old = rules[s] /\ y.new = users
  BY <1>2, <1>5 DEF Turn
<1>7. PICK q : q = [Idle EXCEPT !.op = "rule", !.doing = "rules", !.pc = "call", !.site = s, !.row = y, !.tx = x]
  OBVIOUS
<1>8. x \in Changes
  BY <1>4
<1>9. /\ q \in Work /\ q.op = "rule" /\ q.doing = "rules" /\ q.pc = "call" /\ q.site = s /\ q.row = y /\ q.tx = x
  BY <1>6, <1>7, <1>8, IdleTyped DEF Work, Turn
<1>10. q # Null
  BY <1>9, NullIsNone
<1>11. Becomes("http", q)
  BY <1>3, <1>5, <1>7 DEF StartRule, PasswordFiles
<1>12. RuleOf(q, s, users)
  BY <1>4, <1>6, <1>9, <1>10 DEF RuleOf
<1>13. QED
  BY <1>1, <1>9, <1>11, <1>12 DEF StartRule

(* The rest of the request that changes an account.                        *)
GoesOn(q, r, doing, todo) ==
  /\ q # Null /\ q.op = "account" /\ q.doing = doing /\ q.pc = "next" /\ q.todo = todo
  /\ q.account = r.account /\ q.row = r.row
  /\ doing = "refresh" => q.errs = FALSE
  /\ Becomes("http", q)

Undone(r) ==
  \/ Ends("http") /\ "halfway" \in spent'.mishaps /\ UNCHANGED accounts
  \/ /\ accounts' = [accounts EXCEPT ![r.account] = r.row.old] /\ UNCHANGED spent
     /\ \E q \in Work : GoesOn(q, r, "refresh", {s \in Sites : policy[s] # Null})

LEMMA UndoneIs ==
  ASSUME AccessInv, proc["http"] # Null, proc["http"].op = "account", proc["http"].row \in Switch,
         proc["http"].account \in Accounts, UndoAccount
  PROVE  Undone(proc["http"])
BY UndoCases, NullIsNone DEF Undone, GoesOn

LEMMA WrittenOn ==
  ASSUME AccessInv, WriteAccount, NEW r, r = proc["http"]
  PROVE  /\ r \in Work /\ r # Null /\ r.op = "account" /\ r.account \in Accounts /\ r.row \in Switch
         /\ accounts' = [accounts EXCEPT ![r.account] = r.row.new]
         /\ UNCHANGED <<policy, rules, proxies, geo, files, backups, editor, lock, spent>>
         /\ \E q \in Work : GoesOn(q, r, "refresh", {s \in Sites : policy[s] # Null})
<1>0. AccessTyped /\ "http" \in Threads
  BY DEF AccessInv, Threads
<1>1. r \in Work /\ r # Null /\ Shape("http", r) /\ r.doing = "write" /\ r.pc = ""
  BY <1>0, Actor DEF WriteAccount, At
<1>2. r.op = "account"
  BY <1>0, <1>1, ThreadOps
<1>3. r.account \in Accounts /\ r.row \in Switch
  BY <1>0, <1>1, <1>2, ShapeBack DEF AccountShape
<1>4. PICK q : q = StartRefresh(r)
  OBVIOUS
<1>5. /\ q \in Work /\ q.doing = "refresh" /\ q.pc = "next" /\ q.errs = FALSE
      /\ q.todo = {s \in Sites : policy[s] # Null}
      /\ q.op = r.op /\ q.account = r.account /\ q.row = r.row
  BY <1>1, <1>4, StartRefreshTyped, ZenonT(30)
<1>6. Becomes("http", q)
  BY <1>4 DEF WriteAccount
<1>7. GoesOn(q, r, "refresh", {s \in Sites : policy[s] # Null})
  BY <1>2, <1>5, <1>6, NullIsNone DEF GoesOn
<1>8. QED
  BY <1>1, <1>2, <1>3, <1>5, <1>7 DEF WriteAccount

AccountIs(r) == r \in Work /\ r # Null /\ r.op = "account" /\ r.account \in Accounts /\ r.row \in Switch

LEMMA PoliciesOn ==
  ASSUME AccessInv, PoliciesRefreshed, NEW r, r = proc["http"]
  PROVE  /\ AccountIs(r) /\ r.doing = "refresh" /\ r.pc = "next" /\ r.todo = {}
         /\ UNCHANGED <<policy, rules, proxies, geo, files, backups, editor, lock>>
         /\ \/ r.errs /\ Undone(r)
            \/ /\ ~r.errs /\ UNCHANGED <<accounts, spent>>
               /\ \E q \in Work : GoesOn(q, r, "rules", {s \in Sites : r.account \in rules[s]})
<1>0. AccessTyped /\ "http" \in Threads
  BY DEF AccessInv, Threads
<1>1. r \in Work /\ r # Null /\ Shape("http", r) /\ r.op = "account" /\ r.doing = "refresh" /\ r.pc = "next" /\ r.todo = {}
  BY <1>0, Actor DEF PoliciesRefreshed, RefreshEnded, At
<1>2. r.account \in Accounts /\ r.row \in Switch
  BY <1>0, <1>1, ShapeBack DEF AccountShape
<1>3. CASE r.errs
  BY <1>3, <1>1, <1>2, UndoneIs DEF PoliciesRefreshed, AccountIs
<1>4. CASE ~r.errs
  <2>1. PICK todo \in SUBSET Sites : todo = {s \in Sites : r.account \in rules[s]}
    OBVIOUS
  <2>2. PICK q : q = [r EXCEPT !.doing = "rules", !.todo = todo]
    OBVIOUS
  <2>3. /\ q \in Work /\ q.op = r.op /\ q.doing = "rules" /\ q.pc = r.pc /\ q.todo = todo
        /\ q.account = r.account /\ q.row = r.row
    BY <1>1, <2>2 DEF Work
  <2>4. Becomes("http", q) /\ UNCHANGED <<accounts, spent>>
    BY <1>4, <2>1, <2>2 DEF PoliciesRefreshed
  <2>5. GoesOn(q, r, "rules", todo)
    BY <1>1, <2>3, <2>4, NullIsNone DEF GoesOn
  <2>6. QED
    BY <1>1, <1>2, <1>4, <2>1, <2>3, <2>4, <2>5 DEF PoliciesRefreshed, AccountIs
<1>5. QED
  BY <1>3, <1>4

RulesCall(q, r, s) ==
  /\ q # Null /\ q.op = "account" /\ q.doing = "rules" /\ q.pc = "call" /\ q.site = s /\ q.todo = r.todo
  /\ q.account = r.account /\ q.row = r.row
  /\ DOMAIN q.tx.access = {s} /\ DOMAIN q.tx.slots = {} /\ DOMAIN q.tx.main = {s} /\ DOMAIN q.tx.htpasswd = {s}
  /\ q.tx.access[s].kind = "rules" /\ q.tx.access[s].policy.users = rules[s] /\ q.tx.main[s] = files.main[s]
  /\ q.tx.htpasswd[s] = Admitted(rules[s])
  /\ Becomes("http", q)

LEMMA RulesOn ==
  ASSUME AccessInv, NEW s \in Sites, RefreshRules(s), NEW r, r = proc["http"]
  PROVE  /\ AccountIs(r) /\ r.doing = "rules" /\ r.pc = "next" /\ s \in r.todo
         /\ UNCHANGED <<policy, rules, proxies, geo, files, backups, editor, lock>>
         /\ \/ /\ Managed(s) /\ UNCHANGED <<accounts, spent>>
               /\ \E q \in Work : GoesOn(q, r, "rules", r.todo \ {s})
            \/ ~Managed(s) /\ Undone(r)
            \/ /\ ~Managed(s) /\ UNCHANGED <<accounts, spent>>
               /\ \E q \in Work : RulesCall(q, r, s)
<1>0. AccessTyped /\ "http" \in Threads
  BY DEF AccessInv, Threads
<1>1. /\ r \in Work /\ r # Null /\ Shape("http", r) /\ r.op = "account" /\ r.doing = "rules" /\ r.pc = "next"
      /\ s \in r.todo /\ r.todo \in SUBSET Sites
  BY <1>0, Actor DEF RefreshRules, At
<1>2. r.account \in Accounts /\ r.row \in Switch
  BY <1>0, <1>1, ShapeBack DEF AccountShape, RefreshShape
<1>3. AccountIs(r) /\ UNCHANGED <<policy, rules, proxies, geo, files, backups, editor, lock>>
  BY <1>1, <1>2 DEF AccountIs, RefreshRules
<1>4. CASE ~Managed(s) /\ UndoAccount
  BY <1>1, <1>2, <1>3, <1>4, UndoneIs
<1>5. CASE Managed(s) /\ Becomes("http", [proc["http"] EXCEPT !.todo = @ \ {s}]) /\ UNCHANGED <<accounts, spent>>
  <2>1. PICK todo \in SUBSET Sites : todo = r.todo \ {s}
    BY <1>1
  <2>2. PICK q : q = [r EXCEPT !.todo = todo]
    OBVIOUS
  <2>3. /\ q \in Work /\ q.todo = todo /\ q.doing = r.doing
        /\ q.op = r.op /\ q.pc = r.pc /\ q.account = r.account /\ q.row = r.row
    BY <1>1, <2>2 DEF Work
  <2>4. Becomes("http", q)
    BY <1>5, <2>1, <2>2
  <2>5. GoesOn(q, r, "rules", todo)
    BY <1>1, <2>3, <2>4, NullIsNone DEF GoesOn
  <2>6. QED
    BY <1>1, <1>3, <1>5, <2>1, <2>3, <2>5
<1>6. CASE /\ ~Managed(s)
           /\ Becomes("http", [proc["http"] EXCEPT !.pc = "call", !.site = s,
                !.tx = [RulesFiles(s, rules[s]) EXCEPT !.htpasswd = Only(s, Admitted(rules[s]))]])
           /\ UNCHANGED <<accounts, spent>>
  <2>1. PICK x : x = PasswordFiles(s, rules[s])
    OBVIOUS
  <2>2. rules[s] \in SUBSET Accounts
    BY <1>0 DEF AccessTyped
  <2>3. /\ x \in Changes
        /\ DOMAIN x.access = {s} /\ DOMAIN x.slots = {} /\ DOMAIN x.main = {s} /\ DOMAIN x.htpasswd = {s}
        /\ x.access[s].kind = "rules" /\ x.access[s].policy.users = rules[s] /\ x.main[s] = files.main[s]
        /\ x.htpasswd[s] = Admitted(rules[s])
    BY <1>0, <2>1, <2>2, PasswordFileTyped
  <2>4. PICK q : q = [r EXCEPT !.pc = "call", !.site = s, !.tx = x]
    OBVIOUS
  <2>5. x \in Changes
    BY <2>3
  <2>6. q \in Work
    BY <1>1, <2>4, <2>5 DEF Work
  <2>7. /\ q.op = r.op /\ q.doing = r.doing /\ q.pc = "call" /\ q.site = s /\ q.todo = r.todo
        /\ q.account = r.account /\ q.row = r.row /\ q.tx = x
    BY <1>1, <2>4 DEF Work
  <2>8. Becomes("http", q) /\ q # Null
    BY <1>6, <2>1, <2>4, <2>6, NullIsNone DEF PasswordFiles
  <2>9. RulesCall(q, r, s)
    BY <1>1, <2>3, <2>7, <2>8 DEF RulesCall
  <2>10. QED
    BY <1>1, <1>3, <1>6, <2>6, <2>9
<1>7. QED
  BY <1>4, <1>5, <1>6 DEF RefreshRules, LeftToPolicy

LEMMA RulesAnswered ==
  ASSUME AccessInv, RulesRefreshed, NEW r, r = proc["http"]
  PROVE  /\ AccountIs(r) /\ r.doing = "rules"
         /\ UNCHANGED <<policy, rules, proxies, geo, files, backups, editor, lock>>
         /\ \/ /\ r.pc = "done" /\ r.site \in Sites /\ UNCHANGED <<accounts, spent>>
               /\ \E q \in Work : GoesOn(q, r, "rules", r.todo \ {r.site})
            \/ r.pc = "failed" /\ Undone(r)
            \/ r.pc = "next" /\ r.todo = {} /\ Ends("http") /\ UNCHANGED <<accounts, spent>>
<1>0. AccessTyped /\ "http" \in Threads
  BY DEF AccessInv, Threads
<1>1. /\ r \in Work /\ r # Null /\ Shape("http", r) /\ r.op = "account" /\ r.doing = "rules" /\ r.todo \in SUBSET Sites
  BY <1>0, Actor DEF RulesRefreshed, At
<1>2. r.account \in Accounts /\ r.row \in Switch
  BY <1>0, <1>1, ShapeBack DEF AccountShape, RefreshShape
<1>3. AccountIs(r) /\ UNCHANGED <<policy, rules, proxies, geo, files, backups, editor, lock>>
  BY <1>1, <1>2 DEF AccountIs, RulesRefreshed
<1>4. CASE r.pc = "failed" /\ UndoAccount
  BY <1>1, <1>2, <1>3, <1>4, UndoneIs
<1>5. CASE /\ r.pc = "done" /\ Becomes("http", [proc["http"] EXCEPT !.pc = "next", !.todo = @ \ {proc["http"].site}])
           /\ UNCHANGED <<accounts, spent>>
  <2>1. PICK todo \in SUBSET Sites : todo = r.todo \ {r.site}
    BY <1>1
  <2>2. PICK q : q = [r EXCEPT !.pc = "next", !.todo = todo]
    OBVIOUS
  <2>3. /\ q \in Work /\ q.todo = todo /\ q.doing = r.doing
        /\ q.op = r.op /\ q.pc = "next" /\ q.account = r.account /\ q.row = r.row
    BY <1>1, <2>2 DEF Work
  <2>4. Becomes("http", q)
    BY <1>5, <2>1, <2>2
  <2>5. GoesOn(q, r, "rules", todo)
    BY <1>1, <2>3, <2>4, NullIsNone DEF GoesOn
  <2>6. r.site \in Sites
    BY <1>0, <1>1, <1>5, SiteOf
  <2>7. QED
    BY <1>1, <1>3, <1>5, <2>1, <2>3, <2>5, <2>6
<1>6. CASE r.pc = "next" /\ r.todo = {} /\ Ends("http") /\ UNCHANGED <<accounts, spent>>
  BY <1>1, <1>3, <1>6
<1>7. QED
  BY <1>4, <1>5, <1>6 DEF RulesRefreshed, At

-----------------------------------------------------------------------------
(* The steps of the requests keep the rule linked to its proxy.            *)

LEMMA LinkTurn ==
  ASSUME AccessInv, LinkInv, NEW q, Becomes("http", q), Grows, UNCHANGED <<files, proxies>>,
         proc["http"] = Null \/ proc["http"].doing # "proxy",
         GoodL => \A s \in Sites : StatusOnly(s),
         GoodL /\ q # Null => LinkTx(q)'
  PROVE  LinkInv'
<1>0. AccessTyped /\ "http" \in Threads /\ "backup" \in Threads \ {"http"}
  BY DEF AccessInv, Threads
<1>1. proc'["http"] = q /\ proc'["backup"] = proc["backup"]
  BY <1>0, Turned
<1>2. ASSUME GoodL, NEW s \in Sites PROVE LinkSame(s)
  BY <1>1, <1>2 DEF Restoring, Proxying, LinkSame, ToRender
<1>3. ASSUME GoodL, proc'["http"] # Null PROVE LinkTx(proc["http"])'
  BY <1>1, <1>3
<1>4. QED
  BY <1>2, <1>3, LinkStep

LEMMA QuietTx ==
  ASSUME NEW q, q.doing \notin {"apply", "proxy"}, q.doing = "rules" => q.pc \notin Answers
  PROVE  LinkTx(q)'
BY DEF LinkTx

(* Without the lock nothing is being restored, nor a proxy written.        *)
LEMMA NotRestoring == ASSUME AccessInv, NEW s, Restoring(s) PROVE lock = "backup"
BY Actor, ThreadOps DEF Threads, Restoring, Holding

LEMMA NotProxying == ASSUME AccessInv, NEW s, Proxying(s) PROVE lock = "http"
BY Actor DEF Threads, Proxying, Holding

LEMMA FreeAt ==
  ASSUME AccessInv, LinkInv, GoodL, lock = Null, NEW s \in Sites
  PROVE  /\ ~Restoring(s) /\ ~Proxying(s) /\ ~ToRender(s)
         /\ DesiredOk(s) /\ FromOk(s) /\ MainOk(s) /\ ExactOk(s)
BY NotRestoring, NotProxying, NullIsNone DEF Threads, LinkInv, LinkAt, ToRender

LEMMA RulesMain ==
  ASSUME LinkInv, GoodL, NEW s \in Sites, ~Managed(s), ~Proxying(s)
  PROVE  Restoring(s) \/ files.main[s] = proxies[s]
BY DEF LinkInv, LinkAt, FromOk, MainOk

LEMMA RuleLinked ==
  ASSUME AccessInv, LinkInv, NEW s \in Sites, NEW users \in SUBSET Accounts, StartRule(s, users)
  PROVE  LinkInv'
<1>1. /\ proc["http"] = Null /\ Grows /\ policy[s] = Null
      /\ UNCHANGED <<policy, proxies, files>>
      /\ \E q \in Work : Becomes("http", q) /\ RuleOf(q, s, users)
  BY RuleStarts
<1>2. PICK q \in Work : Becomes("http", q) /\ RuleOf(q, s, users)
  BY <1>1
<1>3. q.doing = "rules" /\ q.site = s /\ q.tx.main[s] = files.main[s]
  BY <1>2 DEF RuleOf
<1>4. ASSUME GoodL PROVE LinkTx(q)'
  BY <1>1, <1>4, RulesMain, <1>2, Turned, <1>3 DEF Managed, Proxying, Restoring, Threads,
     AccessInv, LinkTx
<1>5. QED
  BY <1>1, <1>2, <1>4, LinkTurn, SameStatus

LEMMA AccountRequestsLinked ==
  ASSUME AccessInv, LinkInv, NEW a \in Accounts, DeleteAccount(a) \/ \E new \in Account : UpdateAccount(a, new)
  PROVE  LinkInv'
<1>0. AccessTyped
  BY DEF AccessInv
<1>1. /\ Grows /\ proc["http"] = Null
      /\ UNCHANGED <<policy, proxies, files>>
  BY <1>0, BeginGrows DEF DeleteAccount, UpdateAccount, Serve, Begin, Threads, tables
<1>2. PICK q : Becomes("http", q) /\ q.doing \in {"write", "delete"}
  <2>1. CASE DeleteAccount(a)
    <3>1. PICK q : q = [Idle EXCEPT !.op = "account", !.doing = "delete", !.account = a]
      OBVIOUS
    <3>2. q.doing = "delete"
      BY <3>1, IdleTyped DEF Work
    <3>3. QED
      BY <2>1, <3>1, <3>2 DEF DeleteAccount
  <2>2. CASE \E new \in Account : UpdateAccount(a, new)
    <3>1. PICK new \in Account : UpdateAccount(a, new)
      BY <2>2
    <3>2. PICK q : q = [Idle EXCEPT !.op = "account", !.doing = "write", !.account = a,
                         !.row = [old |-> accounts[a], new |-> new]]
      OBVIOUS
    <3>3. q.doing = "write"
      BY <3>2, IdleTyped DEF Work
    <3>4. QED
      BY <3>1, <3>2, <3>3 DEF UpdateAccount
  <2>3. QED
    BY <2>1, <2>2
<1>3. LinkTx(q)'
  BY <1>2, QuietTx
<1>4. QED
  BY <1>1, <1>2, <1>3, LinkTurn, SameStatus

LEMMA ResolvedFollows ==
  ASSUME AccessTyped, NEW s \in Sites, NEW p \in Policy, Resolvable(s, p)
  PROVE  Follows(Resolved(s, p), proxies[s])
<1>1. Same(Resolved(s, p), p) /\ Resolved(s, p).off = (p.link # Null /\ ~proxies[s].on)
  BY ResolvedTyped
<1>2. p.link # Null => proxies[s] # Null /\ proxies[s].path = p.link
  BY DEF Resolvable
<1>3. CASE p.link = Null
  BY <1>1, <1>3 DEF Same, Follows
<1>4. CASE p.link # Null
  BY <1>2, <1>4, <1>1 DEF AccessTyped, Proxy, Same, Follows
<1>5. QED
  BY <1>3, <1>4

(* A request that applies p at site s has begun.                           *)
Applying(q, s, p) ==
  /\ q # Null /\ q.doing = "apply" /\ q.pc = "call" /\ q.site = s /\ q.p = p /\ q.tx = PolicyFiles(s, p)
  /\ Becomes("http", q)

LEMMA SaveFacts ==
  ASSUME AccessInv, NEW users \in SUBSET Accounts, NEW link \in Paths \cup {Null}, Save(users, link)
  PROVE  /\ proc["http"] = Null /\ lock = Null /\ Grows /\ spent'.mishaps = spent.mishaps
         /\ UNCHANGED <<accounts, rules, proxies, geo, files, backups>>
         /\ \E s \in Sites, p \in Policy :
              /\ policy' = [policy EXCEPT ![s] = Desired(s, p, FALSE)]
              /\ policy[s] # Null => ~policy[s].fromProxy \/ policy[s].status = "applied"
              /\ Renderable(p) /\ Follows(p, proxies[s])
              /\ \E q \in Work : Applying(q, s, p)
<1>0. AccessTyped
  BY DEF AccessInv
<1>1. PICK e \in Editor : e = editor
  BY <1>0 DEF Save, AccessTyped
<1>2. PICK s \in Sites : s = e.site
  BY DEF Editor
<1>3. PICK p0 : p0 = [users |-> users, link |-> link, off |-> FALSE]
  OBVIOUS
<1>4. p0 \in Policy
  BY <1>3 DEF Policy
<1>5. PICK p : p = Resolved(s, p0)
  OBVIOUS
<1>6. /\ Resolvable(s, p0) /\ Renderable(p)
      /\ policy' = [policy EXCEPT ![s] = Desired(s, p, FALSE)]
      /\ policy[s] # Null => ~policy[s].fromProxy \/ policy[s].status = "applied"
      /\ Becomes("http", [Idle EXCEPT !.op = "save", !.doing = "apply", !.pc = "call", !.site = s,
                            !.p = p, !.v = e.version + 1, !.tx = PolicyFiles(s, p)])
      /\ Serve /\ Take("http")
      /\ UNCHANGED <<accounts, rules, proxies, geo, files, backups>>
  BY <1>1, <1>2, <1>3, <1>5 DEF Save
<1>7. p \in Policy
  BY <1>0, <1>4, <1>5, <1>6, ResolvedTyped
<1>8. PICK v \in Nat : v = e.version + 1
  BY DEF Editor
<1>9. PICK q : q = ApplyRecord("save", s, p, v)
  OBVIOUS
<1>10. Becomes("http", q)
  BY <1>6, <1>8, <1>9 DEF ApplyRecord
<1>11. proc["http"] = Null /\ lock = Null /\ lock' = "http"
  BY <1>6 DEF Serve, Begin, Take
<1>12. q \in Work /\ q.doing = "apply" /\ q.pc = "call" /\ q.site = s /\ q.p = p /\ q.tx = PolicyFiles(s, p)
  <2>1. PICK op \in {"save", "sync"} : op = "save"
    OBVIOUS
  <2>2. q = ApplyRecord(op, s, p, v)
    BY <1>9, <2>1
  <2>3. Renderable(p)
    BY <1>6
  <2>4. QED
    BY <2>1, <2>2, <2>3, <1>2, <1>7, <1>8, <1>10, <1>11, Applies
<1>13. Follows(p, proxies[s])
  BY <1>0, <1>2, <1>4, <1>5, <1>6, ResolvedFollows
<1>14. Applying(q, s, p)
  BY <1>10, <1>12, NullIsNone DEF Applying
<1>15. Grows /\ spent'.mishaps = spent.mishaps
  BY <1>0, <1>6, BeginGrows DEF Serve, Threads
<1>16. QED
  BY <1>2, <1>6, <1>7, <1>11, <1>12, <1>13, <1>14, <1>15

LEMMA SaveLinked ==
  ASSUME AccessInv, LinkInv, NEW users \in SUBSET Accounts, NEW link \in Paths \cup {Null}, Save(users, link)
  PROVE  LinkInv'
<1>0. AccessTyped /\ Rows /\ "http" \in Threads /\ "backup" \in Threads \ {"http"}
  BY DEF AccessInv, Threads
<1>1. proc["http"] = Null /\ lock = Null /\ Grows /\ UNCHANGED <<proxies, files>>
  BY SaveFacts
<1>2. PICK s \in Sites, p \in Policy :
        /\ policy' = [policy EXCEPT ![s] = Desired(s, p, FALSE)]
        /\ policy[s] # Null => ~policy[s].fromProxy \/ policy[s].status = "applied"
        /\ Follows(p, proxies[s])
        /\ \E q \in Work : Applying(q, s, p)
  BY SaveFacts
<1>3. PICK q \in Work : Applying(q, s, p)
  BY <1>2
<1>4. PICK f \in BOOLEAN : f = FALSE
  OBVIOUS
<1>5. PICK new : new = Desired(s, p, f)
  OBVIOUS
<1>6. new # Null /\ new.desired = p /\ new.status = "pending" /\ new.fromProxy = f
  BY <1>0, <1>5, DesiredRow
<1>7. policy'[s] = new /\ \A u \in Sites \ {s} : policy'[u] = policy[u]
  BY <1>0, <1>2, <1>4, <1>5 DEF AccessTyped
<1>8. proc'["http"] = q /\ proc'["backup"] = proc["backup"]
  BY <1>0, <1>3, Turned DEF Applying
<1>9. ASSUME GoodL PROVE files.main[s] = proxies[s]
  BY <1>1, <1>9, FreeAt, <1>0, RowFields, <1>2 DEF AccessTyped, Rows, RowOk, MainOk
<1>10. ASSUME GoodL, NEW u \in Sites PROVE LinkSame(u) \/ LinkAt(u)'
  <2>1. CASE u = s
    BY <1>1, <1>2, <1>4, <1>6, <1>7, <1>9, <1>10, <2>1 DEF LinkAt, DesiredOk, FromOk, MainOk, ExactOk
  <2>2. CASE u # s
    BY <1>7, <1>10, <2>2, <1>1, <1>8 DEF StatusOnly, LinkSame, Restoring, Proxying, ToRender
  <2>3. QED
    BY <2>1, <2>2
<1>11. ASSUME GoodL PROVE LinkTx(q)'
  BY <1>1, <1>3, <1>6, <1>7, <1>9, <1>11 DEF Applying, LinkTx
<1>12. QED
  BY <1>1, <1>8, <1>10, <1>11, LinkStep

LEMMA SameFollow ==
  ASSUME NEW p \in Policy, NEW q \in Policy, NEW x \in Proxy \cup {Null}, Same(p, q), Follows(p, x), Follows(q, x)
  PROVE  p = q
BY DEF Policy, Same, Follows

LEMMA SyncFacts ==
  ASSUME AccessInv, NEW s \in Sites, Sync(s)
  PROVE  /\ policy[s] # Null /\ (policy[s].fromProxy => policy[s].status = "applied") /\ lock = Null /\ Grows
         /\ proc["http"] = Null /\ spent'.mishaps = spent.mishaps
         /\ UNCHANGED <<accounts, rules, proxies, geo, files, backups, editor>>
         /\ \/ UNCHANGED proc /\ \E v : MarkError(s, v)
            \/ /\ UNCHANGED policy
               /\ \E p \in Policy : /\ Renderable(p) /\ Same(p, policy[s].desired) /\ Follows(p, proxies[s])
                                    /\ \E q \in Work : Applying(q, s, p)
<1>0. AccessTyped
  BY DEF AccessInv
<1>1. PICK old \in Row : old = policy[s]
  BY <1>0 DEF Sync, AccessTyped
<1>2. PICK p0 \in Policy : p0 = old.desired
  BY RowFields
<1>3. /\ policy[s] # Null /\ (policy[s].fromProxy => policy[s].status = "applied") /\ lock = Null
      /\ UNCHANGED <<accounts, rules, proxies, geo, files, backups, editor>>
      /\ Serve /\ Renderable(p0)
  BY <1>1, <1>2 DEF Sync, Take
<1>4. proc["http"] = Null /\ Grows /\ spent'.mishaps = spent.mishaps
  BY <1>0, <1>3, BeginGrows DEF Serve, Begin, Threads
<1>5. CASE ~Resolvable(s, p0)
  BY <1>1, <1>2, <1>3, <1>4, <1>5 DEF Sync
<1>6. CASE Resolvable(s, p0)
  <2>1. PICK p : p = Resolved(s, p0)
    OBVIOUS
  <2>2. p \in Policy /\ Same(p, p0)
    BY <1>0, <1>2, <1>6, <2>1, ResolvedTyped
  <2>3. Renderable(p)
    BY <1>3, <2>2 DEF Renderable, Same
  <2>4. PICK v \in Nat : v = old.version
    BY RowFields
  <2>5. PICK q : q = ApplyRecord("sync", s, p, v)
    OBVIOUS
  <2>6. Becomes("http", q) /\ lock' = "http" /\ UNCHANGED policy
    BY <1>1, <1>2, <1>6, <2>1, <2>4, <2>5 DEF Sync, Take, ApplyRecord
  <2>7. q \in Work /\ q.doing = "apply" /\ q.pc = "call" /\ q.site = s /\ q.p = p /\ q.tx = PolicyFiles(s, p)
    <3>1. PICK op \in {"save", "sync"} : op = "sync"
      OBVIOUS
    <3>2. q = ApplyRecord(op, s, p, v)
      BY <2>5, <3>1
    <3>3. QED
      BY <1>3, <1>4, <2>2, <2>3, <2>4, <2>6, <3>1, <3>2, Applies
  <2>8. Follows(p, proxies[s])
    BY <1>0, <1>2, <1>6, <2>1, ResolvedFollows
  <2>9. Applying(q, s, p)
    BY <2>6, <2>7, NullIsNone DEF Applying
  <2>10. QED
    BY <1>1, <1>2, <1>3, <1>4, <2>2, <2>3, <2>6, <2>7, <2>8, <2>9
<1>7. QED
  BY <1>5, <1>6

LEMMA SyncLinked == ASSUME AccessInv, LinkInv, NEW s \in Sites, Sync(s) PROVE LinkInv'
<1>0. AccessTyped /\ Rows
  BY DEF AccessInv
<1>1. /\ policy[s] # Null /\ (policy[s].fromProxy => policy[s].status = "applied") /\ lock = Null /\ Grows
      /\ proc["http"] = Null /\ UNCHANGED <<proxies, files>>
  BY SyncFacts
<1>2. CASE UNCHANGED proc /\ \E v : MarkError(s, v)
  BY <1>2, <1>0, <1>1, ErrorStatus, LinkBeside DEF LinkSame, Restoring, Proxying, ToRender
<1>3. ASSUME UNCHANGED policy, NEW p \in Policy, Same(p, policy[s].desired), Follows(p, proxies[s]),
             NEW q \in Work, Applying(q, s, p)
      PROVE  LinkInv'
  <2>1. ASSUME GoodL PROVE LinkTx(q)'
    <3>1. MainOk(s) /\ ~Proxying(s) /\ ~ToRender(s) /\ DesiredOk(s)
      BY <1>1, <2>1, FreeAt
    <3>2. policy[s].status = "applied" => policy[s].at = policy[s].version /\ policy[s].at \in Nat
      BY <1>0, <1>1, RowFields DEF AccessTyped, Rows, RowOk
    <3>3. files.main[s] = proxies[s]
      BY <1>1, <3>1, <3>2 DEF MainOk
    <3>4. Follows(policy[s].desired, proxies[s]) /\ policy[s].desired \in Policy /\ proxies[s] \in Proxy \cup {Null}
      BY <1>0, <1>1, <3>1, RowFields DEF DesiredOk, AccessTyped
    <3>5. policy[s].desired = p
      BY <1>3, <3>4, SameFollow
    <3>6. QED
      BY <1>1, <1>3, <3>3, <3>5 DEF Applying, LinkTx
  <2>2. QED
    BY <1>1, <1>3, <2>1, LinkTurn, SameStatus DEF Applying
<1>4. QED
  BY <1>2, <1>3, SyncFacts

LEMMA ProxyFacts ==
  ASSUME AccessInv, NEW s \in Sites, SyncProxy(s) \/ \E new \in Proxy \cup {Null} : WriteProxy(s, new)
  PROVE  /\ proc["http"] = Null /\ lock = Null /\ Grows /\ spent'.mishaps = spent.mishaps
         /\ \A u \in Sites \ {s} : proxies'[u] = proxies[u]
         /\ UNCHANGED <<policy, accounts, rules, geo, files, backups, editor>>
         /\ \E q \in Work : q.doing = "proxy" /\ q.pc = "render" /\ q.site = s /\ q.p = Null /\ Becomes("http", q)
<1>0. AccessTyped
  BY DEF AccessInv
<1>1. /\ Serve /\ Take("http")
      /\ Becomes("http", [Idle EXCEPT !.op = "proxy", !.doing = "proxy", !.pc = "render", !.site = s])
      /\ \A u \in Sites \ {s} : proxies'[u] = proxies[u]
      /\ UNCHANGED <<policy, accounts, rules, geo, files, backups, editor>>
  BY <1>0 DEF SyncProxy, WriteProxy, AccessTyped, tables
<1>2. proc["http"] = Null /\ lock = Null /\ Grows /\ spent'.mishaps = spent.mishaps
  BY <1>0, <1>1, BeginGrows DEF Serve, Begin, Take, Threads
<1>3. PICK q : q = [Idle EXCEPT !.op = "proxy", !.doing = "proxy", !.pc = "render", !.site = s]
  OBVIOUS
<1>4. q \in Work /\ q.doing = "proxy" /\ q.pc = "render" /\ q.site = s /\ q.p = Null
  BY <1>3, IdleTyped DEF Work
<1>5. QED
  BY <1>1, <1>2, <1>3, <1>4

LEMMA ProxyRequestLinked ==
  ASSUME AccessInv, LinkInv, NEW s \in Sites, SyncProxy(s) \/ \E new \in Proxy \cup {Null} : WriteProxy(s, new)
  PROVE  LinkInv'
<1>0. AccessTyped /\ "http" \in Threads /\ "backup" \in Threads \ {"http"}
  BY DEF AccessInv, Threads
<1>1. /\ proc["http"] = Null /\ lock = Null /\ Grows
      /\ \A u \in Sites \ {s} : proxies'[u] = proxies[u]
      /\ UNCHANGED <<policy, files>>
  BY ProxyFacts
<1>2. PICK q \in Work : q.doing = "proxy" /\ q.pc = "render" /\ q.site = s /\ q.p = Null /\ Becomes("http", q)
  BY ProxyFacts
<1>3. proc'["http"] = q /\ proc'["backup"] = proc["backup"] /\ q # Null
  BY <1>0, <1>2, Turned, NullIsNone
<1>4. Proxying(s)' /\ ToRender(s)'
  BY <1>2, <1>3 DEF Proxying, ToRender
<1>5. ASSUME GoodL, NEW u \in Sites PROVE LinkSame(u) \/ LinkAt(u)'
  BY <1>1, <1>5, FreeAt, <1>4, SameStatus DEF LinkAt, DesiredOk, FromOk, MainOk, ExactOk, Managed,
     LinkSame
<1>6. LinkTx(q)'
  BY <1>2 DEF LinkTx, Answers
<1>7. QED
  BY <1>1, <1>3, <1>5, <1>6, LinkStep

LEMMA RequestLinked == ASSUME AccessInv, LinkInv, Request PROVE LinkInv'
<1>0. AccessTyped
  BY DEF AccessInv
<1>1. ASSUME NEW users \in SUBSET Accounts, NEW link \in Paths \cup {Null}, Save(users, link) PROVE LinkInv'
  BY <1>1, SaveLinked
<1>2. ASSUME NEW s \in Sites, Sync(s) PROVE LinkInv'
  BY <1>2, SyncLinked
<1>3. ASSUME NEW s \in Sites,
             \/ SyncProxy(s) \/ DeleteProxy(s)
             \/ \E new \in Proxy : CreateProxy(s, new) \/ UpdateProxy(s, new)
      PROVE  LinkInv'
  BY <1>3, ProxyRequestLinked DEF DeleteProxy, CreateProxy, UpdateProxy
<1>4. ASSUME NEW s \in Sites,
             \/ DeleteAuthRule(s) \/ EditDenyRules(s) \/ EditIPLimitRules(s)
             \/ \E users \in SUBSET Accounts : CreateAuthRule(s, users) \/ UpdateAuthRule(s, users)
      PROVE  LinkInv'
  BY <1>0, <1>4, RuleLinked DEF AccessTyped, DeleteAuthRule, EditDenyRules, EditIPLimitRules,
     CreateAuthRule, UpdateAuthRule
<1>5. ASSUME NEW a \in Accounts, DeleteAccount(a) \/ \E new \in Account : UpdateAccount(a, new) PROVE LinkInv'
  BY <1>5, AccountRequestsLinked
<1>6. ASSUME UNCHANGED <<policy, proxies, files, proc>>, Grows PROVE LinkInv'
  BY <1>6, LinkBeside, SameStatus DEF LinkSame, Restoring, Proxying, ToRender
<1>7. ASSUME NEW s \in Sites, OpenEditor(s) PROVE LinkInv'
  BY <1>0, <1>7, StillGrows, <1>6 DEF OpenEditor, tables
<1>8. ASSUME NEW a \in Accounts, NEW pw \in Passwords, CreateAccount(a, pw) PROVE LinkInv'
  BY <1>0, <1>8, BeginGrows, <1>6 DEF CreateAccount, Serve, Threads
<1>9. QED
  BY <1>1, <1>2, <1>3, <1>4, <1>5, <1>7, <1>8 DEF Request

(* What a step of an account's request leaves to do next.                  *)
Light(q) ==
  q # Null => \/ q.doing = "refresh" /\ q.pc = "next"
              \/ q.doing = "rules" /\ q.pc \notin Answers
              \/ \E s \in Sites : /\ ~Managed(s) /\ q.doing = "rules" /\ q.pc = "call" /\ q.site = s
                                  /\ q.tx.main[s] = files.main[s]

LEMMA UndoneLight ==
  ASSUME NEW r, Undone(r)
  PROVE  \E q : Becomes("http", q) /\ Light(q)
BY DEF Ends, Light, GoesOn, Undone

LEMMA AccountStepsLight ==
  ASSUME AccessInv,
         WriteAccount \/ PoliciesRefreshed \/ RulesRefreshed \/ AccountDeleted \/ \E s \in Sites : RefreshRules(s)
  PROVE  /\ proc["http"] # Null /\ proc["http"].doing \notin {"apply", "proxy"}
         /\ UNCHANGED <<policy, proxies, files>>
         /\ \E q : Becomes("http", q) /\ Light(q)
<1>0. UNCHANGED <<policy, proxies, files>>
  BY DEF WriteAccount, PoliciesRefreshed, RulesRefreshed, AccountDeleted, RefreshRules
<1>1. PICK r : r = proc["http"]
  OBVIOUS
<1>2. CASE WriteAccount
  BY <1>0, <1>1, <1>2, WrittenOn DEF GoesOn, Light, WriteAccount, At
<1>3. CASE PoliciesRefreshed
  BY <1>1, <1>3, PoliciesOn, <1>0, UndoneLight DEF AccountIs, GoesOn, Light, Answers
<1>4. CASE RulesRefreshed
  BY <1>1, <1>4, RulesAnswered, <1>0, UndoneLight DEF AccountIs, GoesOn, Light, Answers, Ends
<1>5. CASE AccountDeleted
  BY <1>0, <1>5 DEF AccountDeleted, At, Ends, Light
<1>6. ASSUME NEW s \in Sites, RefreshRules(s)
      PROVE  proc["http"] # Null /\ proc["http"].doing \notin {"apply", "proxy"} /\ \E q : Becomes("http", q) /\ Light(q)
  BY <1>1, <1>6, RulesOn, UndoneLight DEF AccountIs, GoesOn, Light, Answers, RulesCall
<1>7. QED
  BY <1>0, <1>2, <1>3, <1>4, <1>5, <1>6

LEMMA AccountStepsLinked ==
  ASSUME AccessInv, LinkInv, Grows,
         WriteAccount \/ PoliciesRefreshed \/ RulesRefreshed \/ AccountDeleted \/ \E s \in Sites : RefreshRules(s)
  PROVE  LinkInv'
<1>1. /\ proc["http"] # Null /\ proc["http"].doing \notin {"apply", "proxy"}
      /\ UNCHANGED <<policy, proxies, files>>
      /\ \E q : Becomes("http", q) /\ Light(q)
  BY AccountStepsLight
<1>2. PICK q : Becomes("http", q) /\ Light(q)
  BY <1>1
<1>3. ASSUME GoodL, q # Null PROVE LinkTx(q)'
  <2>1. CASE q.doing = "refresh" \/ (q.doing = "rules" /\ q.pc \notin Answers)
    BY <2>1 DEF LinkTx
  <2>2. ASSUME NEW s \in Sites, ~Managed(s), q.doing = "rules", q.pc = "call", q.site = s,
               q.tx.main[s] = files.main[s]
        PROVE  LinkTx(q)'
    BY <1>1, <1>3, <2>2, RulesMain, <1>2, Turned DEF Proxying, Restoring, Threads, AccessInv,
       LinkTx
  <2>3. QED
    BY <1>2, <1>3, <2>1, <2>2 DEF Light
<1>4. QED
  BY <1>1, <1>2, <1>3, LinkTurn, SameStatus

LEMMA RuleEndsLinked == ASSUME AccessInv, LinkInv, Grows, RuleWritten \/ RuleFailed PROVE LinkInv'
BY LinkTurn, SameStatus DEF RuleWritten, RuleFailed, At, Ends, tables

(* The row of a change that was applied.                                   *)
LEMMA MarkedRow ==
  ASSUME AccessTyped, NEW s \in Sites, NEW v \in Nat, MarkApplied(s, v), policy[s] # Null, policy[s].version = v
  PROVE  /\ policy'[s] # Null /\ policy'[s].mode = "unified" /\ policy'[s].status = "applied"
         /\ policy'[s].applied = policy[s].desired /\ policy'[s].desired = policy[s].desired
         /\ policy'[s].at = v /\ policy'[s].version = v /\ policy'[s].fromProxy = policy[s].fromProxy
         /\ \A u \in Sites \ {s} : policy'[u] = policy[u]
<1>1. PICK old \in Row : old = policy[s]
  BY DEF AccessTyped
<1>2. PICK new : new = [old EXCEPT !.mode = "unified", !.applied = old.desired, !.at = v, !.status = "applied"]
  OBVIOUS
<1>3. /\ new.mode = "unified" /\ new.applied = old.desired /\ new.at = v /\ new.status = "applied"
      /\ new.desired = old.desired /\ new.version = old.version /\ new.fromProxy = old.fromProxy
  BY <1>1, <1>2 DEF Row
<1>4. new \in Row
  BY <1>1, <1>2, RowFields DEF Row
<1>5. new # Null
  BY <1>4, NullIsNone
<1>6. policy' = [policy EXCEPT ![s] = new]
  BY <1>1, <1>2 DEF MarkApplied
<1>7. policy'[s] = new /\ \A u \in Sites \ {s} : policy'[u] = policy[u]
  BY <1>6 DEF AccessTyped
<1>8. QED
  BY <1>1, <1>3, <1>5, <1>7

LEMMA MarkLinked ==
  ASSUME AccessInv, ServedInv, LinkInv, Grows, NEW r \in Work, r = proc["http"], r # Null,
         r.doing \in {"apply", "proxy"}, r.pc = "done", r.p # Null, MarkApplied(r.site, r.v), Ends("http"),
         UNCHANGED <<files, proxies>>
  PROVE  LinkInv'
<1>0. AccessTyped /\ Rows /\ "http" \in Threads /\ "backup" \in Threads \ {"http"}
  BY DEF AccessInv, Threads
<1>1. Shape("http", r) /\ Bound(r)
  BY <1>0, Actor
<1>2. PICK s \in Sites : s = r.site
  BY <1>0, <1>1, SiteOf
<1>3. proc'["http"] = Null /\ proc'["backup"] = proc["backup"]
  BY <1>0, Turned DEF Ends
<1>4. PICK v \in Nat : v = r.v
  BY DEF Work
<1>5. policy[s] # Null /\ policy[s].version = v /\ MarkApplied(s, v)
  BY <1>1, <1>2, <1>4 DEF Bound, BoundApply, BoundProxy, Managed
<1>6. /\ policy'[s] # Null /\ policy'[s].mode = "unified" /\ policy'[s].status = "applied"
      /\ policy'[s].applied = policy[s].desired /\ policy'[s].desired = policy[s].desired
      /\ \A u \in Sites \ {s} : policy'[u] = policy[u]
  BY <1>0, <1>5, MarkedRow
<1>7. ASSUME GoodL PROVE LinkAt(s)'
  <2>1. policy[s].desired = r.p /\ files.main[s] = proxies[s]
    BY <1>1, <1>2, <1>7 DEF LinkInv, LinkTx, Bound, BoundProxy
  <2>2. files.access[s].policy = r.p
    BY <1>0, <1>2, <1>7, GoodLGood DEF ServedInv, Written
  <2>3. Follows(policy[s].desired, proxies[s])
    BY <1>5, <1>7 DEF ToRender, LinkInv, LinkAt, DesiredOk
  <2>4. QED
    BY <1>6, <2>1, <2>2, <2>3 DEF LinkAt, DesiredOk, FromOk, MainOk, ExactOk, Managed
<1>8. ASSUME GoodL, NEW u \in Sites PROVE LinkSame(u) \/ LinkAt(u)'
  <2>1. CASE u = s
    BY <1>7, <1>8, <2>1
  <2>2. CASE u # s
    BY <1>6, <1>8, <2>2, <1>2, <1>3 DEF StatusOnly, Proxying, LinkSame, Restoring, ToRender
  <2>3. QED
    BY <2>1, <2>2
<1>9. QED
  BY <1>3, <1>8, LinkStep

LEMMA ApplyEndsLinked ==
  ASSUME AccessInv, ServedInv, LinkInv, Grows, FinishApply \/ FailApply
  PROVE  LinkInv'
<1>0. AccessTyped /\ "http" \in Threads
  BY DEF AccessInv, Threads
<1>1. PICK r \in Work : r = proc["http"]
  BY <1>0, Actor DEF FinishApply, FailApply, At
<1>2. r # Null /\ r.doing = "apply" /\ Shape("http", r)
  BY <1>0, <1>1, Actor DEF FinishApply, FailApply, At
<1>3. UNCHANGED <<files, proxies>> /\ Ends("http")
  BY DEF FinishApply, FailApply
<1>4. PICK s \in Sites : s = r.site
  BY <1>0, <1>2, SiteOf
<1>5. ASSUME MarkApplied(r.site, r.v), r.pc = "done" PROVE LinkInv'
  <2>1. r.p # Null
    BY <1>0, <1>2, ShapeBack, NullIsNone DEF ApplyShape, WritesPolicy
  <2>2. QED
    BY <1>1, <1>2, <1>3, <1>5, <2>1, MarkLinked
<1>6. ASSUME MarkError(r.site, r.v) PROVE LinkInv'
  <2>1. PICK q, v : q = Null /\ v = r.v
    OBVIOUS
  <2>2. \A u \in Sites : StatusOnly(u)
    BY <1>0, <1>4, <1>6, <2>1, ErrorStatus
  <2>3. QED
    BY <1>1, <1>2, <1>3, <2>1, <2>2, LinkTurn DEF Ends
<1>7. QED
  BY <1>1, <1>5, <1>6 DEF FinishApply, FailApply, At

LEMMA FinishProxyLinked ==
  ASSUME AccessInv, ServedInv, LinkInv, Grows, FinishProxy
  PROVE  LinkInv'
<1>0. AccessTyped /\ Rows /\ "http" \in Threads /\ "backup" \in Threads \ {"http"}
  BY DEF AccessInv, Threads
<1>1. PICK r \in Work : r = proc["http"]
  BY <1>0, Actor DEF FinishProxy, At
<1>2. r # Null /\ r.doing = "proxy" /\ r.pc \in {"done", "failed"} /\ Shape("http", r) /\ Bound(r)
  BY <1>0, <1>1, Actor DEF FinishProxy, At
<1>3. UNCHANGED <<files, proxies>> /\ Ends("http")
  BY DEF FinishProxy
<1>4. PICK s \in Sites : s = r.site
  BY <1>0, <1>2, SiteOf
<1>5. proc'["http"] = Null /\ proc'["backup"] = proc["backup"]
  BY <1>0, <1>3, Turned DEF Ends
<1>6. ASSUME \A u \in Sites : StatusOnly(u),
             GoodL => \/ files.main[s] = proxies[s]
                      \/ policy[s] # Null /\ policy[s].fromProxy /\ policy[s].at < policy[s].version
      PROVE  LinkInv'
  <2>1. ASSUME GoodL, NEW u \in Sites PROVE LinkSame(u) \/ LinkAt(u)'
    <3>1. CASE u # s
      BY <1>1, <1>4, <3>1, <1>3, <1>5, <1>6 DEF Proxying, LinkSame, Restoring, ToRender
    <3>2. CASE u = s
      <4>1. LinkAt(s) /\ ~ToRender(s) /\ StatusOnly(s)
        BY <1>1, <1>2, <1>6, <2>1 DEF LinkInv, ToRender
      <4>2. DesiredOk(s)'
        BY <1>3, <4>1 DEF LinkAt, DesiredOk, StatusOnly
      <4>3. FromOk(s)'
        BY <4>1 DEF LinkAt, FromOk, StatusOnly, Managed
      <4>4. MainOk(s)'
        BY <1>3, <1>6, <2>1, <4>1 DEF MainOk, StatusOnly
      <4>5. ExactOk(s) => ExactOk(s)'
        BY <1>3, <4>1 DEF ExactOk, StatusOnly
      <4>6. Restoring(s) => Restoring(s)'
        BY <1>5 DEF Restoring
      <4>7. QED
        BY <3>2, <4>1, <4>2, <4>3, <4>4, <4>5, <4>6 DEF LinkAt
    <3>3. QED
      BY <3>1, <3>2
  <2>2. QED
    BY <1>5, <2>1, LinkStep
<1>7. GoodL /\ r.pc = "done" => files.main[s] = proxies[s]
  BY <1>1, <1>2, <1>4 DEF LinkInv, LinkTx
<1>8. CASE r.p = Null /\ Note("ahead", r.pc = "failed") /\ UNCHANGED policy
  <2>1. CASE r.pc = "failed"
    BY <1>8, <1>0, <2>1, NoteGrows, NotGoodL DEF Mishaps, LinkInv
  <2>2. CASE r.pc = "done"
    BY <1>6, <1>7, <1>8, <2>2, SameStatus
  <2>3. QED
    BY <1>2, <2>1, <2>2
<1>9. CASE r.p # Null /\ r.pc = "done" /\ MarkApplied(r.site, r.v)
  BY <1>1, <1>2, <1>3, <1>9, MarkLinked
<1>10. CASE r.p # Null /\ r.pc = "done" /\ UNCHANGED policy
  BY <1>6, <1>7, <1>10, SameStatus
<1>11. CASE r.p # Null /\ MarkError(r.site, r.v)
  <2>1. PICK v : v = r.v
    OBVIOUS
  <2>2. \A u \in Sites : StatusOnly(u)
    BY <1>0, <1>4, <1>11, <2>1, ErrorStatus
  <2>3. policy[s] # Null /\ policy[s].at < policy[s].version
    BY <1>2, <1>4, <1>11 DEF Bound, BoundProxy, Managed
  <2>4. GoodL => policy[s].fromProxy
    BY <1>1, <1>2, <1>4, <1>11 DEF LinkInv, LinkTx
  <2>5. QED
    BY <1>6, <2>2, <2>3, <2>4
<1>12. QED
  BY <1>1, <1>8, <1>9, <1>10, <1>11 DEF FinishProxy

(* The proxies of s are written, with the policy p or without one.         *)
Prepared(q, s, p) ==
  /\ q # Null /\ q.doing = "proxy" /\ q.pc = "call" /\ q.site = s /\ q.p = p /\ q.tx = ProxyFiles(s, p)
  /\ Becomes("http", q) /\ policy' = [policy EXCEPT ![s] = Desired(s, p, TRUE)] /\ UNCHANGED spent
Unprepared(q, s) ==
  /\ q # Null /\ q.doing = "proxy" /\ q.pc = "call" /\ q.site = s /\ q.p = Null /\ q.tx = MainFiles(s)
  /\ Becomes("http", q) /\ UNCHANGED <<policy, spent>>

LEMMA RenderFacts ==
  ASSUME AccessInv, RenderProxy
  PROVE  /\ UNCHANGED <<accounts, rules, proxies, geo, files, backups, editor>>
         /\ \E r \in Work, s \in Sites :
              /\ r = proc["http"] /\ r # Null /\ r.doing = "proxy" /\ r.pc = "render" /\ r.site = s
              /\ \/ /\ Managed(s)
                    /\ \E p \in Policy : /\ Renderable(p) /\ p = Relinked(policy[s].desired, proxies[s])
                                         /\ \E q \in Work : Prepared(q, s, p)
                 \/ policy[s] = Null /\ \E q \in Work : Unprepared(q, s)
                 \/ "ahead" \in spent'.mishaps /\ Ends("http") /\ UNCHANGED policy
<1>0. AccessTyped /\ Rows /\ "http" \in Threads
  BY DEF AccessInv, Threads
<1>1. PICK r \in Work : r = proc["http"]
  BY <1>0, Actor DEF RenderProxy, At
<1>2. r # Null /\ r.doing = "proxy" /\ r.pc = "render" /\ Shape("http", r) /\ Bound(r)
  BY <1>0, <1>1, Actor DEF RenderProxy, At
<1>3. r.p = Null
  BY <1>0, <1>2, ThreadOps, ShapeBack DEF ProxyShape, Answers
<1>4. PICK s \in Sites : s = r.site
  BY <1>0, <1>2, SiteOf
<1>5. PICK m : m = Only(s, proxies[s])
  OBVIOUS
<1>6. UNCHANGED <<accounts, rules, proxies, geo, files, backups, editor>>
  BY DEF RenderProxy
<1>7. PICK p : p = Relinked(policy[s].desired, proxies[s])
  OBVIOUS
<1>8. CASE /\ Managed(s) /\ Renderable(p)
           /\ policy' = [policy EXCEPT ![s] = Desired(s, p, TRUE)]
           /\ Becomes("http", [r EXCEPT !.pc = "call", !.v = policy[s].version + 1,
                                 !.p = p, !.tx = [PolicyFiles(s, p) EXCEPT !.main = m]])
           /\ UNCHANGED <<lock, spent>>
  <2>1. PICK old \in Row : old = policy[s]
    BY <1>0, <1>8 DEF Managed, AccessTyped
  <2>2. policy[s] # Null /\ old.desired \in Policy /\ old.version \in Nat
    BY <2>1, RowFields
  <2>3. p \in Policy
    BY <1>0, <1>7, <2>1, <2>2, RelinkedTyped DEF AccessTyped
  <2>4. PICK x : x = ProxyFiles(s, p)
    OBVIOUS
  <2>5. x \in Changes
    <3>1. Renderable(p)
      BY <1>8
    <3>2. QED
      BY <1>0, <1>4, <1>5, <2>3, <2>4, <3>1, ProxyFilesTyped
  <2>6. PICK n \in Nat : n = old.version + 1
    BY <2>2
  <2>7. PICK q : q = [r EXCEPT !.pc = "call", !.v = n, !.p = p, !.tx = x]
    OBVIOUS
  <2>8. q \in Work
    BY <2>3, <2>5, <2>7 DEF Work
  <2>9. q.doing = r.doing /\ q.pc = "call" /\ q.p = p /\ q.tx = x /\ q.site = r.site
    BY <1>1, <2>7 DEF Work
  <2>10. Becomes("http", q)
    BY <1>5, <1>8, <2>1, <2>4, <2>6, <2>7 DEF ProxyFiles
  <2>11. Prepared(q, s, p)
    BY <1>2, <1>4, <1>8, <2>4, <2>8, <2>9, <2>10, NullIsNone DEF Prepared
  <2>12. QED
    BY <1>1, <1>2, <1>4, <1>6, <1>7, <1>8, <2>3, <2>8, <2>11
<1>9. CASE /\ ~Managed(s)
           /\ Becomes("http", [r EXCEPT !.pc = "call", !.tx = [Quiet EXCEPT !.main = m]])
           /\ UNCHANGED <<policy, lock, spent>>
  <2>1. PICK x : x = MainFiles(s)
    OBVIOUS
  <2>2. x \in Changes
    BY <1>0, <1>4, <2>1, MainFilesTyped
  <2>3. PICK q : q = [r EXCEPT !.pc = "call", !.tx = x]
    OBVIOUS
  <2>4. q \in Work
    BY <1>1, <2>2, <2>3, CallRecord
  <2>5. q.doing = r.doing /\ q.pc = "call" /\ q.site = r.site /\ q.p = r.p /\ q.tx = x
    BY <1>1, <2>3 DEF Work
  <2>6. Becomes("http", q)
    BY <1>5, <1>9, <2>1, <2>3 DEF MainFiles
  <2>7. policy[s] = Null
    BY <1>2, <1>4, <1>9 DEF Bound, BoundProxy
  <2>8. Unprepared(q, s)
    BY <1>2, <1>3, <1>4, <1>9, <2>1, <2>4, <2>5, <2>6, NullIsNone DEF Unprepared
  <2>9. QED
    BY <1>1, <1>2, <1>4, <1>6, <2>4, <2>7, <2>8
<1>10. CASE /\ \/ Managed(s) /\ ~Renderable(p) /\ Note("ahead", TRUE)
               \/ Strand
            /\ Ends("http") /\ UNCHANGED policy
  <2>1. PICK b \in BOOLEAN : b = TRUE
    OBVIOUS
  <2>2. "ahead" \in Mishaps
    BY DEF Mishaps
  <2>3. Note("ahead", b) => "ahead" \in spent'.mishaps
    BY <1>0, <2>1, <2>2, NoteGrows
  <2>4. "ahead" \in spent'.mishaps
    BY <1>0, <1>10, <2>1, <2>3, StrandGrows
  <2>5. QED
    BY <1>1, <1>2, <1>4, <1>6, <1>10, <2>4
<1>11. QED
  BY <1>1, <1>4, <1>5, <1>7, <1>8, <1>9, <1>10 DEF RenderProxy

LEMMA RelinkedFollows ==
  ASSUME NEW p \in Policy, NEW x \in Proxy \cup {Null}
  PROVE  Follows(Relinked(p, x), x)
<1>1. IF p.link = Null \/ x = Null THEN Relinked(p, x).link = Null /\ Relinked(p, x).off = FALSE
      ELSE Relinked(p, x).link = x.path /\ Relinked(p, x).off = ~x.on
  BY RelinkedTyped
<1>2. x # Null => x.path # Null
  BY AccessAssumption DEF AccessAssumption, Proxy
<1>3. QED
  BY <1>1, <1>2 DEF Follows

LEMMA RenderLinked == ASSUME AccessInv, LinkInv, Grows, RenderProxy PROVE LinkInv'
<1>0. AccessTyped /\ Rows /\ "http" \in Threads /\ "backup" \in Threads \ {"http"}
  BY DEF AccessInv, Threads
<1>1. UNCHANGED <<proxies, files>>
  BY RenderFacts
<1>2. PICK r \in Work, s \in Sites :
        /\ r = proc["http"] /\ r # Null /\ r.doing = "proxy" /\ r.pc = "render" /\ r.site = s
        /\ \/ /\ Managed(s)
              /\ \E p \in Policy : /\ Renderable(p) /\ p = Relinked(policy[s].desired, proxies[s])
                                   /\ \E q \in Work : Prepared(q, s, p)
           \/ policy[s] = Null /\ \E q \in Work : Unprepared(q, s)
           \/ "ahead" \in spent'.mishaps
  BY RenderFacts
<1>3. ASSUME NEW q, Becomes("http", q), q # Null, q.doing = "proxy", q.site = s,
             \A u \in Sites \ {s} : policy'[u] = policy[u],
             GoodL => LinkAt(s)' /\ LinkTx(q)'
      PROVE  LinkInv'
  <2>1. proc'["http"] = q /\ proc'["backup"] = proc["backup"]
    BY <1>0, <1>3, Turned
  <2>2. ASSUME GoodL, NEW u \in Sites PROVE LinkSame(u) \/ LinkAt(u)'
    <3>1. CASE u # s
      BY <1>2, <1>3, <3>1, <1>1, <2>1 DEF StatusOnly, Proxying, LinkSame, Restoring, ToRender
    <3>2. QED
      BY <1>3, <2>2, <3>1
  <2>3. QED
    BY <1>3, <2>1, <2>2, LinkStep
<1>4. ASSUME Managed(s), NEW p \in Policy, p = Relinked(policy[s].desired, proxies[s]), Renderable(p),
             NEW q \in Work, Prepared(q, s, p)
      PROVE  LinkInv'
  <2>1. PICK old \in Row : old = policy[s] /\ old # Null
    BY <1>0, <1>4 DEF Managed, AccessTyped
  <2>2. Follows(p, proxies[s])
    BY <1>0, <1>4, <2>1, RowFields, RelinkedFollows DEF AccessTyped
  <2>10. PICK f \in BOOLEAN : f = TRUE
    OBVIOUS
  <2>3. PICK new : new = Desired(s, p, f)
    OBVIOUS
  <2>4. /\ new # Null /\ new.desired = p /\ new.status = "pending" /\ new.fromProxy = f /\ new.mode = old.mode
        /\ new.at < new.version
    BY <1>0, <1>4, <2>1, <2>3, DesiredRow
  <2>5. policy'[s] = new /\ \A u \in Sites \ {s} : policy'[u] = policy[u]
    BY <1>0, <1>4, <2>3, <2>10 DEF Prepared, AccessTyped
  <2>6. LinkAt(s)'
    BY <1>1, <1>4, <2>1, <2>2, <2>10, <2>4, <2>5 DEF LinkAt, DesiredOk, FromOk, MainOk, ExactOk, Managed
  <2>7. q.tx.main[s] = proxies[s]
    BY <1>0, <1>4, ProxyFilesTyped DEF Prepared
  <2>8. LinkTx(q)'
    BY <1>1, <1>4, <2>10, <2>4, <2>5, <2>7 DEF Prepared, LinkTx
  <2>9. QED
    BY <1>3, <1>4, <2>5, <2>6, <2>8 DEF Prepared
<1>5. ASSUME policy[s] = Null, NEW q \in Work, Unprepared(q, s) PROVE LinkInv'
  <2>1. q.tx.main[s] = proxies[s]
    BY <1>0, <1>5, MainFilesTyped DEF Unprepared
  <2>2. LinkTx(q)'
    BY <1>1, <1>5, <2>1 DEF Unprepared, LinkTx
  <2>3. proc'["http"] = q
    BY <1>0, <1>5, Turned DEF Unprepared
  <2>4. LinkAt(s)'
    BY <1>5, <2>3 DEF Unprepared, LinkAt, DesiredOk, FromOk, MainOk, ExactOk, Proxying
  <2>5. QED
    BY <1>3, <1>5, <2>2, <2>4 DEF Unprepared
<1>6. CASE "ahead" \in spent'.mishaps
  BY <1>6, NotGoodL DEF LinkInv
<1>7. QED
  BY <1>2, <1>4, <1>5, <1>6

LEMMA HandlerLinked == ASSUME AccessInv, ServedInv, LinkInv, Handler PROVE LinkInv'
BY HandlerMoves, AccountStepsLinked, RuleEndsLinked, ApplyEndsLinked, FinishProxyLinked,
   RenderLinked DEF Handler

LEMMA LinkNext == ASSUME AccessInv, ServedInv, LinkInv, Next PROVE LinkInv'
BY CallLinked, RefreshLinked, RequestLinked, HandlerLinked, BesideLinked, CrashLinked DEF Refresh,
   Next

(* The rule linked to a proxy guards the path at which nginx serves it and *)
(* is off only with it, however the two are changed in turn                *)
(* (accesspolicy/proxy.go PrepareProxyChange, ProxyWriteGuard;             *)
(* proxy/service.go applyNginxConfig).                                     *)
THEOREM LinkedRuleAlwaysFollows == Spec => []LinkedRuleFollows
<1>1. ASSUME AccessInv, ServedInv, LinkInv PROVE LinkedRuleFollows
  <2>1. SUFFICES ASSUME GoodL, lock = Null, NEW s \in Sites, policy[s] # Null, policy[s].status = "applied",
                        files.access[s].policy.link # Null
                 PROVE  /\ files.main[s] # Null /\ files.access[s].policy.link = files.main[s].path
                        /\ files.access[s].policy.off = ~files.main[s].on
    BY DEF LinkedRuleFollows, GoodL, Steady, Without
  <2>2. AccessTyped /\ Rows
    BY <1>1 DEF AccessInv
  <2>3. /\ ~Proxying(s) /\ ~ToRender(s)
        /\ DesiredOk(s) /\ MainOk(s) /\ ExactOk(s)
    BY <1>1, <2>1, FreeAt
  <2>4. policy[s].at = policy[s].version /\ policy[s].at \in Nat /\ policy[s].desired = policy[s].applied
    BY <2>1, <2>2, RowFields DEF AccessTyped, Rows, RowOk
  <2>5. files.main[s] = proxies[s]
    BY <2>3, <2>4 DEF MainOk
  <2>6. files.access[s].policy = policy[s].applied /\ Follows(policy[s].applied, proxies[s])
    BY <2>1, <2>3, <2>4 DEF ExactOk, DesiredOk
  <2>7. QED
    BY <2>1, <2>5, <2>6 DEF Follows
<1>2. Init => AccessInv /\ ServedInv /\ LinkInv
  BY AccessInit, ServedInit, LinkInit
<1>3. ASSUME AccessInv /\ ServedInv /\ LinkInv, [Next]_vars PROVE (AccessInv /\ ServedInv /\ LinkInv)'
  BY <1>3, AccessNext, AccessStutter, ServedNext, ServedStutter, LinkNext, LinkStutter
<1>4. QED
  BY <1>1, <1>2, <1>3, PTL DEF Spec

-----------------------------------------------------------------------------
(* The steps of a refresh, field by field.                                 *)

Refresher(t, r, pcs) ==
  /\ r \in Work /\ r = proc[t] /\ r # Null /\ r.doing = "refresh" /\ r.pc \in pcs /\ Shape(t, r) /\ Bound(r)
  /\ (Fresh => Read(r)) /\ t # "backup" /\ r.todo \in SUBSET Sites /\ r.errs \in BOOLEAN

Refreshes(t, q, r, pc, todo, bad) ==
  /\ q # Null /\ q.op = r.op /\ q.doing = "refresh" /\ q.pc = pc /\ q.todo = todo /\ q.errs = (r.errs \/ bad)
  /\ q.account = r.account /\ q.row = r.row /\ Becomes(t, q)

LEMMA RefresherIs ==
  ASSUME AccessInv, NEW t \in Threads, proc[t] # Null, proc[t].doing = "refresh"
  PROVE  \E r \in Work : Refresher(t, r, {proc[t].pc})
BY Actor, ThreadOps DEF Refresher

LEMMA ReadFacts ==
  ASSUME AccessInv, NEW t \in Threads, NEW s \in Sites, RefreshRead(t, s)
  PROVE  /\ UNCHANGED <<tables, files, backups, editor, lock, spent>>
         /\ \E r, q \in Work :
              /\ Refresher(t, r, {"next"}) /\ s \in r.todo
              /\ \/ /\ Managed(s) /\ Renderable(policy[s].applied) /\ Refreshes(t, q, r, "lock", r.todo, FALSE)
                    /\ q.site = s /\ q.p = policy[s].applied /\ q.v = policy[s].at
                 \/ /\ ~(Managed(s) /\ Renderable(policy[s].applied))
                    /\ Refreshes(t, q, r, "next", r.todo \ {s}, Managed(s))
<1>0. AccessTyped /\ Rows
  BY DEF AccessInv
<1>1. PICK r \in Work : Refresher(t, r, {proc[t].pc})
  BY RefresherIs DEF RefreshRead, At
<1>2. r.pc = "next" /\ s \in r.todo /\ Refresher(t, r, {"next"})
  BY <1>1 DEF RefreshRead, At, Refresher
<1>3. UNCHANGED <<tables, files, backups, editor, lock, spent>>
  BY DEF RefreshRead
<1>4. CASE Managed(s) /\ Renderable(policy[s].applied)
  <2>1. PICK p \in Policy : p = policy[s].applied
    BY <1>0, <1>4, RowFields DEF Managed, AccessTyped, Rows, RowOk
  <2>2. PICK v \in Nat : v = policy[s].at
    BY <1>0, <1>4, RowFields DEF Managed, AccessTyped
  <2>3. PICK q : q = [r EXCEPT !.pc = "lock", !.site = s, !.p = p, !.v = v]
    OBVIOUS
  <2>4. q \in Work
    <3>1. r \in Work /\ p \in Policy /\ v \in Nat /\ s \in Sites
      BY <1>1, <2>1, <2>2
    <3>2. QED
      BY <3>1, <2>3 DEF Work
  <2>5. /\ q.op = r.op /\ q.doing = r.doing /\ q.pc = "lock" /\ q.todo = r.todo /\ q.errs = r.errs
        /\ q.account = r.account /\ q.row = r.row /\ q.site = s /\ q.p = p /\ q.v = v
    BY <1>1, <2>3 DEF Work, Refresher
  <2>6. Becomes(t, q)
    BY <1>1, <1>4, <2>1, <2>2, <2>3 DEF RefreshRead, Refresher
  <2>7. Refreshes(t, q, r, "lock", r.todo, FALSE)
    BY <1>1, <2>4, <2>5, <2>6, NullIsNone DEF Refreshes, Refresher
  <2>8. QED
    BY <1>2, <1>3, <1>4, <2>1, <2>2, <2>4, <2>5, <2>7
<1>5. CASE ~(Managed(s) /\ Renderable(policy[s].applied))
  <2>1. PICK b \in BOOLEAN : b = Managed(s)
    BY DEF Managed
  <2>2. PICK todo \in SUBSET Sites, errs \in BOOLEAN : todo = r.todo \ {s} /\ errs = (r.errs \/ b)
    BY <1>1 DEF Refresher
  <2>3. PICK q : q = [r EXCEPT !.todo = todo, !.errs = errs]
    OBVIOUS
  <2>4. q \in Work
    BY <1>1, <2>3, ZenonT(30) DEF Work, Refresher
  <2>5. /\ q.op = r.op /\ q.doing = r.doing /\ q.pc = r.pc /\ q.todo = todo /\ q.errs = errs
        /\ q.account = r.account /\ q.row = r.row
    BY <1>1, <2>3 DEF Work, Refresher
  <2>6. Becomes(t, q)
    BY <1>1, <1>5, <2>1, <2>2, <2>3 DEF RefreshRead, Refresher
  <2>7. Refreshes(t, q, r, "next", r.todo \ {s}, Managed(s))
    BY <1>1, <1>2, <2>1, <2>2, <2>4, <2>5, <2>6, NullIsNone DEF Refreshes, Refresher
  <2>8. QED
    BY <1>2, <1>3, <1>5, <2>4, <2>7
<1>6. QED
  BY <1>4, <1>5

LEMMA NextFacts ==
  ASSUME AccessInv, NEW t \in Threads, NEW r \in Work, Refresher(t, r, {r.pc}), NEW bad \in BOOLEAN, RefreshNext(t, bad)
  PROVE  \E q \in Work : Refreshes(t, q, r, "next", r.todo \ {r.site}, bad)
<1>1. PICK todo \in SUBSET Sites, errs \in BOOLEAN : todo = r.todo \ {r.site} /\ errs = (r.errs \/ bad)
  BY DEF Refresher
<1>2. PICK q : q = NextOf(r, todo, errs)
  OBVIOUS
<1>3. /\ q \in Work /\ q # Null
      /\ q.op = r.op /\ q.doing = "refresh" /\ q.pc = "next" /\ q.todo = todo /\ q.errs = errs
      /\ q.account = r.account /\ q.row = r.row
  BY <1>2, NextRecord DEF Refresher
<1>4. Becomes(t, q)
  BY <1>1, <1>2 DEF RefreshNext, NextOf, Refresher
<1>5. QED
  BY <1>1, <1>3, <1>4 DEF Refreshes

LEMMA LockFacts ==
  ASSUME AccessInv, NEW t \in Threads, RefreshLock(t)
  PROVE  /\ UNCHANGED <<accounts, rules, proxies, geo, files, backups, editor, spent>> /\ lock = Null
         /\ \E r, q \in Work :
              /\ Refresher(t, r, {"lock"}) /\ r.site \in Sites /\ r.site \in r.todo /\ r.p \in Policy /\ r.v > 0
              /\ \/ /\ ~StillApplied(r.site, r.v) /\ UNCHANGED policy
                    /\ Refreshes(t, q, r, "next", r.todo \ {r.site}, FALSE)
                 \/ /\ StillApplied(r.site, r.v) /\ MarkError(r.site, r.v)
                    /\ Refreshes(t, q, r, "next", r.todo \ {r.site}, TRUE)
                 \/ /\ StillApplied(r.site, r.v) /\ Renderable(r.p) /\ UNCHANGED policy
                    /\ Refreshes(t, q, r, "call", r.todo, FALSE)
                    /\ q.site = r.site /\ q.p = r.p /\ q.v = r.v /\ q.tx = PolicyFiles(r.site, r.p)
<1>0. AccessTyped
  BY DEF AccessInv
<1>1. PICK r \in Work : Refresher(t, r, {proc[t].pc})
  BY RefresherIs DEF RefreshLock, At
<1>2. r.pc = "lock" /\ Refresher(t, r, {"lock"}) /\ Refresher(t, r, {r.pc}) /\ r = proc[t]
  BY <1>1 DEF RefreshLock, At, Refresher
<1>3. r.site \in Sites /\ r.site \in r.todo /\ r.p \in Policy /\ r.v > 0
  BY <1>2, SiteOf, ShapeBack DEF Refresher, RefreshShape, Answers
<1>4. UNCHANGED <<accounts, rules, proxies, geo, files, backups, editor, spent>> /\ lock = Null
  BY DEF RefreshLock
<1>5. PICK no \in BOOLEAN : no = FALSE
  OBVIOUS
<1>6. PICK yes \in BOOLEAN : yes = TRUE
  OBVIOUS
<1>7. CASE ~StillApplied(r.site, r.v) /\ RefreshNext(t, no) /\ UNCHANGED policy
  BY <1>2, <1>7, NextFacts, <1>3, <1>4, <1>5
<1>8. CASE StillApplied(r.site, r.v) /\ RefreshNext(t, yes) /\ MarkError(r.site, r.v)
  BY <1>2, <1>8, NextFacts, <1>3, <1>4, <1>6
<1>9. CASE /\ StillApplied(r.site, r.v) /\ Renderable(r.p)
           /\ Becomes(t, [r EXCEPT !.pc = "call", !.tx = PolicyFiles(r.site, r.p)]) /\ UNCHANGED policy
  <2>1. PICK x : x = PolicyFiles(r.site, r.p)
    OBVIOUS
  <2>2. x \in Changes
    BY <1>0, <1>3, <1>9, <2>1, PolicyFilesTyped
  <2>3. PICK q : q = [r EXCEPT !.pc = "call", !.tx = x]
    OBVIOUS
  <2>4. q \in Work
    BY <2>2, <2>3, CallRecord
  <2>5. /\ q.op = r.op /\ q.doing = r.doing /\ q.pc = "call" /\ q.site = r.site /\ q.p = r.p /\ q.v = r.v
        /\ q.todo = r.todo /\ q.errs = r.errs /\ q.account = r.account /\ q.row = r.row /\ q.tx = x
    BY <2>3 DEF Work
  <2>6. Becomes(t, q)
    BY <1>9, <2>1, <2>3
  <2>7. Refreshes(t, q, r, "call", r.todo, FALSE)
    BY <1>2, <2>4, <2>5, <2>6, NullIsNone DEF Refreshes, Refresher
  <2>8. QED
    BY <1>2, <1>3, <1>4, <1>9, <2>1, <2>4, <2>5, <2>7
<1>10. QED
  BY <1>2, <1>5, <1>6, <1>7, <1>8, <1>9 DEF RefreshLock

LEMMA MarkFacts ==
  ASSUME AccessInv, NEW t \in Threads, RefreshMark(t)
  PROVE  /\ UNCHANGED <<accounts, rules, proxies, geo, files, backups, editor, spent>> /\ lock = t
         /\ \E r, q \in Work :
              /\ Refresher(t, r, {"done", "failed"}) /\ r.site \in Sites /\ r.site \in r.todo /\ r.p # Null
              /\ policy[r.site] # Null /\ policy[r.site].at = r.v /\ r.v > 0 /\ r.v \in Nat
              /\ Refreshes(t, q, r, "next", r.todo \ {r.site}, r.pc = "failed")
              /\ \/ r.pc = "done" /\ MarkApplied(r.site, r.v)
                 \/ r.pc = "failed" /\ MarkError(r.site, r.v)
<1>1. PICK r \in Work : Refresher(t, r, {proc[t].pc})
  BY RefresherIs DEF RefreshMark, At
<1>2. r.pc \in {"done", "failed"} /\ Refresher(t, r, {"done", "failed"}) /\ Refresher(t, r, {r.pc}) /\ r = proc[t]
  BY <1>1 DEF RefreshMark, At, Refresher
<1>3. r.site \in Sites /\ r.site \in r.todo /\ r.p # Null /\ r.v > 0 /\ r.v \in Nat
  BY <1>2, SiteOf, ShapeBack, NullIsNone, ZenonT(30) DEF Refresher, RefreshShape, Answers, WritesPolicy, Work
<1>4. policy[r.site] # Null /\ policy[r.site].at = r.v
  BY <1>2 DEF Refresher, Bound, BoundRefresh, Answers
<1>5. UNCHANGED <<accounts, rules, proxies, geo, files, backups, editor, spent>>
  BY DEF RefreshMark
<1>6. lock = t
  BY <1>2, Actor DEF Refresher, Holding, Answers
<1>7. PICK b \in BOOLEAN : b = (r.pc = "failed")
  OBVIOUS
<1>8. RefreshNext(t, b)
  BY <1>2, <1>7 DEF RefreshMark
<1>9. PICK q \in Work : Refreshes(t, q, r, "next", r.todo \ {r.site}, b)
  BY <1>2, <1>8, NextFacts
<1>10. \/ r.pc = "done" /\ MarkApplied(r.site, r.v)
       \/ r.pc = "failed" /\ MarkError(r.site, r.v)
  BY <1>2 DEF RefreshMark
<1>11. QED
  BY <1>2, <1>3, <1>4, <1>5, <1>6, <1>7, <1>9, <1>10

-----------------------------------------------------------------------------
(* An update of the database reaches every policy: the inductive invariant.*)

GoodG == Without({"lost", "adrift", "overlap", "outrun", "taken back", "restored", "older"})

Current(s) == files.access[s].geo = geo

(* The update under way has not come to s, or could not do it.             *)
Pending(s) ==
  /\ proc["geo"] # Null
  /\ \/ proc["geo"].doing = "geo" \/ proc["geo"].errs
     \/ s \in proc["geo"].todo /\ (proc["geo"].pc = "lock" /\ proc["geo"].site = s => policy[s].at = proc["geo"].v)

GeoAt(s) ==
  policy[s] # Null /\ policy[s].status = "applied" => Current(s) \/ Pending(s) \/ Restoring(s)

(* What the update writes, and what a request does.                        *)
GeoTx(r) ==
  /\ r.doing = "geo" /\ r.pc \in Answers => \A s \in DOMAIN r.tx.access : r.tx.access[s].geo = geo
  /\ r.doing = "refresh" /\ r.pc \in Answers => r.tx.access[r.site].geo = geo /\ (r.pc = "done" => Current(r.site))
FormTx(r) ==
  /\ r.doing \in {"apply", "proxy"} /\ r.p # Null /\ r.pc \in Answers =>
       r.tx.access[r.site].geo <= geo /\ (r.pc = "done" /\ r.tx.access[r.site].geo = geo => Current(r.site))
  /\ r.doing = "apply" /\ r.pc \in Answers /\ policy[r.site].status = "applied" =>
       r.tx.access[r.site].geo = geo \/ Pending(r.site)
  /\ r.doing = "refresh" /\ r.pc \in Answers =>
       (r.tx.access[r.site].geo = geo /\ (r.pc = "done" => Current(r.site))) \/ Pending(r.site)

GeoInv == GoodG =>
  /\ \A s \in Sites : GeoAt(s)
  /\ proc["geo"] # Null => GeoTx(proc["geo"])
  /\ proc["http"] # Null => FormTx(proc["http"])

LEMMA GoodGBack == ASSUME Grows, GoodG' PROVE GoodG
BY WithoutBack DEF GoodG

LEMMA NotGoodG ==
  ASSUME {"lost", "adrift", "overlap", "outrun", "taken back", "restored", "older"} \cap spent'.mishaps # {}
  PROVE  ~GoodG'
BY DEF GoodG, Without

LEMMA GeoStutter == ASSUME GeoInv, UNCHANGED vars PROVE GeoInv'
BY DEF GeoInv, GoodG, Without, GeoAt, Current, Pending, Restoring, GeoTx, FormTx, vars, tables

(* A step of a request: q is what it does next.                            *)
LEMMA GeoHttp ==
  ASSUME AccessTyped, GeoInv, Grows, NEW q, Becomes("http", q), UNCHANGED <<files, geo>>,
         GoodG' => \A s \in Sites : policy'[s] # Null /\ policy'[s].status = "applied" =>
                                      policy'[s] = policy[s] \/ GeoAt(s)',
         GoodG' /\ q # Null => FormTx(q)'
  PROVE  GeoInv'
<1>1. SUFFICES ASSUME GoodG' PROVE GeoInv'
  BY DEF GeoInv
<1>2. /\ \A s \in Sites : GeoAt(s)
      /\ proc["geo"] # Null => GeoTx(proc["geo"])
  BY <1>1, GoodGBack DEF GeoInv
<1>3. proc'["http"] = q /\ proc'["geo"] = proc["geo"] /\ proc'["backup"] = proc["backup"]
  BY Turned DEF Threads
<1>4. ASSUME NEW s \in Sites PROVE GeoAt(s)'
  BY <1>2, <1>3, <1>1 DEF GeoAt, Current, Pending, Restoring
<1>5. proc'["geo"] # Null => GeoTx(proc["geo"])'
  BY <1>2, <1>3 DEF GeoTx, Current
<1>6. QED
  BY <1>1, <1>3, <1>4, <1>5 DEF GeoInv

LEMMA GeoStill ==
  ASSUME AccessTyped, GeoInv, Grows, UNCHANGED <<files, geo, proc>>, Settled,
         proc["http"] # Null => proc["http"].doing \notin {"apply", "refresh"} \/ UNCHANGED policy
  PROVE  GeoInv'
BY GoodGBack DEF GeoInv, GeoAt, Current, Pending, Restoring, Settled, GeoTx, FormTx

(* A record that writes no policy.                                         *)
Plain(q) ==
  q # Null => \/ q.doing \notin {"apply", "proxy", "refresh"}
              \/ q.doing = "refresh" /\ q.pc \notin Answers
              \/ q.doing = "proxy" /\ q.p = Null

LEMMA PlainTx == ASSUME NEW q, q # Null, Plain(q) PROVE FormTx(q)'
BY DEF Plain, FormTx

LEMMA RequestPlain ==
  ASSUME AccessInv, Request
  PROVE  /\ Grows /\ UNCHANGED <<files, geo, backups>>
         /\ \/ UNCHANGED proc /\ (UNCHANGED policy \/ proc["http"] = Null)
            \/ /\ proc["http"] = Null
               /\ \E q : /\ Becomes("http", q)
                         /\ Plain(q) \/ \E s \in Sites, p \in Policy : Renderable(p) /\ Applying(q, s, p)
<1>0. AccessTyped
  BY DEF AccessInv
<1>1. ASSUME NEW users \in SUBSET Accounts, NEW link \in Paths \cup {Null}, Save(users, link)
      PROVE  /\ Grows /\ UNCHANGED <<files, geo, backups>> /\ proc["http"] = Null
             /\ \E q : Becomes("http", q) /\ \E s \in Sites, p \in Policy : Renderable(p) /\ Applying(q, s, p)
  BY <1>1, SaveFacts DEF Applying
<1>2. ASSUME NEW s \in Sites, Sync(s)
      PROVE  /\ Grows /\ UNCHANGED <<files, geo, backups>> /\ proc["http"] = Null
             /\ \/ UNCHANGED proc
                \/ \E q : Becomes("http", q) /\ \E u \in Sites, p \in Policy : Renderable(p) /\ Applying(q, u, p)
  BY <1>2, SyncFacts DEF Applying
<1>3. ASSUME NEW s \in Sites,
             \/ SyncProxy(s) \/ DeleteProxy(s)
             \/ \E new \in Proxy : CreateProxy(s, new) \/ UpdateProxy(s, new)
      PROVE  /\ Grows /\ UNCHANGED <<files, geo, backups>> /\ proc["http"] = Null
             /\ \E q : Becomes("http", q) /\ Plain(q)
  BY <1>3, ProxyFacts DEF DeleteProxy, CreateProxy, UpdateProxy, Plain
<1>4. ASSUME NEW s \in Sites,
             \/ DeleteAuthRule(s) \/ EditDenyRules(s) \/ EditIPLimitRules(s)
             \/ \E users \in SUBSET Accounts : CreateAuthRule(s, users) \/ UpdateAuthRule(s, users)
      PROVE  /\ Grows /\ UNCHANGED <<files, geo, backups>> /\ proc["http"] = Null
             /\ \E q : Becomes("http", q) /\ Plain(q)
  BY <1>0, <1>4, RuleStarts DEF AccessTyped, DeleteAuthRule, EditDenyRules, EditIPLimitRules,
     CreateAuthRule, UpdateAuthRule, RuleOf, Plain
<1>5. ASSUME NEW a \in Accounts, DeleteAccount(a) \/ \E new \in Account : UpdateAccount(a, new)
      PROVE  /\ Grows /\ UNCHANGED <<files, geo, backups>> /\ proc["http"] = Null
             /\ \E q : Becomes("http", q) /\ Plain(q)
  <2>1. Grows /\ proc["http"] = Null /\ UNCHANGED <<files, geo, backups>>
    BY <1>0, <1>5, BeginGrows DEF DeleteAccount, UpdateAccount, Serve, Begin, Threads, tables
  <2>2. CASE DeleteAccount(a)
    <3>1. PICK q : q = [Idle EXCEPT !.op = "account", !.doing = "delete", !.account = a]
      OBVIOUS
    <3>2. q.doing = "delete"
      BY <3>1, IdleTyped DEF Work
    <3>3. QED
      BY <2>1, <2>2, <3>1, <3>2 DEF DeleteAccount, Plain
  <2>3. CASE \E new \in Account : UpdateAccount(a, new)
    <3>1. PICK new \in Account : UpdateAccount(a, new)
      BY <2>3
    <3>2. PICK q : q = [Idle EXCEPT !.op = "account", !.doing = "write", !.account = a,
                         !.row = [old |-> accounts[a], new |-> new]]
      OBVIOUS
    <3>3. q.doing = "write"
      BY <3>2, IdleTyped DEF Work
    <3>4. QED
      BY <2>1, <3>1, <3>2, <3>3 DEF UpdateAccount, Plain
  <2>4. QED
    BY <1>5, <2>2, <2>3
<1>6. ASSUME NEW s \in Sites, OpenEditor(s)
      PROVE  Grows /\ UNCHANGED <<files, geo, backups, proc, policy>>
  BY <1>0, <1>6, StillGrows DEF OpenEditor, tables
<1>7. ASSUME NEW a \in Accounts, NEW pw \in Passwords, CreateAccount(a, pw)
      PROVE  Grows /\ UNCHANGED <<files, geo, backups, proc, policy>>
  BY <1>0, <1>7, BeginGrows DEF CreateAccount, Serve, Threads
<1>8. QED
  BY <1>1, <1>2, <1>3, <1>4, <1>5, <1>6, <1>7 DEF Request

LEMMA ApplyingTx ==
  ASSUME AccessTyped, NEW q, NEW s \in Sites, NEW p \in Policy, Renderable(p), Applying(q, s, p), UNCHANGED geo
  PROVE  FormTx(q)'
BY PolicyFilesTyped DEF AccessTyped, Applying, FormTx

LEMMA RequestGeo == ASSUME AccessInv, GeoInv, Request PROVE GeoInv'
<1>0. AccessTyped
  BY DEF AccessInv
<1>1. Settled /\ Grows /\ UNCHANGED <<files, geo>>
  BY RequestSettled, RequestPlain
<1>2. CASE UNCHANGED proc /\ (UNCHANGED policy \/ proc["http"] = Null)
  BY <1>0, <1>1, <1>2, GeoStill
<1>3. ASSUME NEW q, Becomes("http", q),
             Plain(q) \/ \E s \in Sites, p \in Policy : Renderable(p) /\ Applying(q, s, p)
      PROVE  GeoInv'
  BY <1>0, <1>1, <1>3, PlainTx, ApplyingTx, GeoHttp DEF Settled
<1>4. QED
  BY <1>2, <1>3, RequestPlain

(* A request marks what it wrote, which is of today's database.            *)
LEMMA MarkGeo ==
  ASSUME AccessInv, GeoInv, Grows, NEW r \in Work, r = proc["http"], r # Null,
         r.doing \in {"apply", "proxy"}, r.pc = "done", r.p # Null, r.site \in Sites, MarkApplied(r.site, r.v),
         NoteFinish("http"), Ends("http"), UNCHANGED <<files, geo>>
  PROVE  GeoInv'
<1>0. AccessTyped /\ Rows
  BY DEF AccessInv
<1>1. PICK b \in BOOLEAN : b = (r.tx.access[r.site].geo # geo)
  OBVIOUS
<1>2. Note("outrun", b) /\ "outrun" \in Mishaps
  BY <1>1 DEF NoteFinish, Mishaps
<1>3. b => "outrun" \in spent'.mishaps
  BY <1>0, <1>2, NoteGrows
<1>4. ASSUME GoodG' PROVE Current(r.site)
  BY <1>1, <1>3, <1>4, NotGoodG, GoodGBack DEF GeoInv, FormTx, Answers
<1>5. \A s \in Sites \ {r.site} : policy'[s] = policy[s]
  BY <1>0, MarkAppliedMarks
<1>6. PICK q : q = Null
  OBVIOUS
<1>7. GoodG' => \A s \in Sites : policy'[s] # Null /\ policy'[s].status = "applied" =>
                                   policy'[s] = policy[s] \/ GeoAt(s)'
  BY <1>4, <1>5 DEF GeoAt, Current
<1>8. QED
  BY <1>0, <1>6, <1>7, GeoHttp DEF Ends

(* A request ends, or goes on without a policy, after none was applied.    *)
LEMMA GeoPlain ==
  ASSUME AccessTyped, GeoInv, Grows, Settled, NEW q, Becomes("http", q), Plain(q), UNCHANGED <<files, geo>>
  PROVE  GeoInv'
BY GeoHttp, PlainTx DEF Settled

LEMMA HandlerGeo == ASSUME AccessInv, GeoInv, Handler PROVE GeoInv'
<1>0. AccessTyped /\ Rows /\ "http" \in Threads
  BY DEF AccessInv, Threads
<1>1. Grows /\ proc["http"] # Null /\ UNCHANGED <<files, backups>>
  BY HandlerMoves, HandlerFiles
<1>2. UNCHANGED geo
  BY DEF Handler, FinishApply, FailApply, WriteAccount, PoliciesRefreshed, RulesRefreshed, AccountDeleted,
   RuleWritten, RuleFailed, RenderProxy, FinishProxy, RefreshRules, tables
<1>3. PICK r \in Work : r = proc["http"]
  BY <1>0, <1>1, Actor
<1>4. r # Null /\ Shape("http", r) /\ Bound(r)
  BY <1>0, <1>1, <1>3, Actor
<1>5. PICK n : n = Null
  OBVIOUS
<1>6. Plain(n)
  BY <1>5 DEF Plain
<1>7. ASSUME Settled, Ends("http") PROVE GeoInv'
  BY <1>0, <1>1, <1>2, <1>5, <1>6, <1>7, GeoPlain DEF Ends
<1>8. ASSUME r.doing \in {"apply", "proxy"}, r.p # Null, r.pc = "done", MarkApplied(r.site, r.v), NoteFinish("http"),
             Ends("http")
      PROVE  GeoInv'
  <2>1. r.site \in Sites
    BY <1>0, <1>4, <1>8, SiteOf
  <2>2. QED
    BY <1>1, <1>2, <1>3, <1>4, <1>8, <2>1, MarkGeo
<1>9. ASSUME r.doing \in {"apply", "proxy"}, MarkError(r.site, r.v), Ends("http") PROVE GeoInv'
  BY <1>0, <1>4, <1>9, SiteOf, <1>7, ErrorSettled
<1>10. CASE FinishApply
  <2>1. r.doing = "apply" /\ r.pc = "done" /\ Ends("http")
    BY <1>3, <1>10 DEF FinishApply, At
  <2>2. r.p # Null
    BY <1>0, <1>4, <2>1, ShapeBack, NullIsNone DEF ApplyShape, WritesPolicy
  <2>3. (MarkApplied(r.site, r.v) /\ NoteFinish("http")) \/ MarkError(r.site, r.v)
    BY <1>3, <1>10 DEF FinishApply
  <2>4. QED
    BY <1>8, <1>9, <2>1, <2>2, <2>3
<1>11. CASE FailApply
  BY <1>3, <1>9, <1>11 DEF FailApply, At
<1>12. CASE FinishProxy
  BY <1>3, <1>12, <1>7, <1>8, <1>9, SameSettled DEF FinishProxy, At
<1>13. CASE WriteAccount \/ PoliciesRefreshed \/ RulesRefreshed \/ AccountDeleted \/ \E s \in Sites : RefreshRules(s)
  <2>1. UNCHANGED policy
    BY <1>13, AccountStepsLight
  <2>2. PICK q : Becomes("http", q) /\ Light(q)
    BY <1>13, AccountStepsLight
  <2>3. Plain(q)
    BY <2>2 DEF Light, Plain, Answers
  <2>4. QED
    BY <1>0, <1>1, <1>2, <2>1, <2>2, <2>3, SameSettled, GeoPlain
<1>14. CASE RuleWritten \/ RuleFailed
  BY <1>7, <1>14, SameSettled DEF RuleWritten, RuleFailed, tables
<1>15. CASE RenderProxy
  <2>1. PICK s \in Sites :
          \/ /\ Managed(s)
             /\ \E p \in Policy : /\ Renderable(p)
                                  /\ \E q \in Work : Prepared(q, s, p)
          \/ \E q \in Work : Unprepared(q, s)
          \/ Ends("http") /\ UNCHANGED policy
    BY <1>15, RenderFacts
  <2>2. ASSUME NEW p \in Policy, Renderable(p), NEW q \in Work, Prepared(q, s, p) PROVE GeoInv'
    <3>1. PICK f \in BOOLEAN : f = TRUE
      OBVIOUS
    <3>2. Settled
      BY <1>0, <2>2, <3>1, DesiredSettled DEF Prepared
    <3>3. PICK x : x = ProxyFiles(s, p)
      OBVIOUS
    <3>4. x.access[s].geo = geo
      BY <1>0, <2>2, <3>3, ProxyFilesTyped
    <3>5. geo \in Nat
      BY <1>0 DEF AccessTyped
    <3>6. FormTx(q)'
      BY <1>2, <2>2, <3>3, <3>4, <3>5 DEF Prepared, FormTx
    <3>7. QED
      BY <1>0, <1>1, <1>2, <2>2, <3>2, <3>6, GeoHttp DEF Prepared, Settled
  <2>3. ASSUME NEW q \in Work, Unprepared(q, s) PROVE GeoInv'
    BY <2>3, <1>0, <1>1, <1>2, SameSettled, GeoPlain DEF Unprepared, Plain
  <2>4. QED
    BY <1>7, <2>1, <2>2, <2>3, SameSettled
<1>16. QED
  BY <1>10, <1>11, <1>12, <1>13, <1>14, <1>15 DEF Handler

LEMMA RefreshGeo ==
  ASSUME AccessInv, GeoInv,
         RefreshLock("http") \/ RefreshMark("http") \/ \E s \in Sites : RefreshRead("http", s)
  PROVE  GeoInv'
<1>0. AccessTyped /\ Rows /\ "http" \in Threads /\ "geo" \in Threads /\ "geo" # "http"
  BY DEF AccessInv, Threads
<1>9. PICK t \in Threads : t = "http"
  BY <1>0
<1>1. Grows
  BY <1>0, RefreshMoves
<1>2. UNCHANGED <<files, geo>>
  BY DEF RefreshLock, RefreshMark, RefreshRead, tables
<1>3. ASSUME NEW q, NEW r, NEW pc \in {"next", "lock"}, NEW todo, NEW bad, Refreshes(t, q, r, pc, todo, bad)
      PROVE  Becomes("http", q) /\ Plain(q)
  BY <1>3, <1>9 DEF Refreshes, Plain, Answers
<1>4. ASSUME NEW s \in Sites, RefreshRead(t, s) PROVE GeoInv'
  <2>1. PICK r, q \in Work : \/ Refreshes(t, q, r, "lock", r.todo, FALSE)
                             \/ Refreshes(t, q, r, "next", r.todo \ {s}, Managed(s))
    BY <1>4, ReadFacts
  <2>2. Becomes("http", q) /\ Plain(q)
    BY <1>3, <2>1
  <2>3. UNCHANGED policy
    BY <1>4 DEF RefreshRead, tables
  <2>4. QED
    BY <1>0, <1>1, <1>2, <2>2, <2>3, SameSettled, GeoPlain
<1>5. CASE RefreshLock(t)
  <2>1. PICK r, q \in Work :
              /\ r.site \in Sites /\ r.p \in Policy
              /\ \/ /\ UNCHANGED policy
                    /\ Refreshes(t, q, r, "next", r.todo \ {r.site}, FALSE)
                 \/ /\ MarkError(r.site, r.v)
                    /\ Refreshes(t, q, r, "next", r.todo \ {r.site}, TRUE)
                 \/ /\ Renderable(r.p) /\ UNCHANGED policy
                    /\ Refreshes(t, q, r, "call", r.todo, FALSE)
                    /\ q.site = r.site /\ q.p = r.p /\ q.v = r.v /\ q.tx = PolicyFiles(r.site, r.p)
    BY <1>5, LockFacts
  <2>2. Settled
    BY <1>0, <2>1, SameSettled, ErrorSettled
  <2>3. CASE /\ Renderable(r.p) /\ Refreshes(t, q, r, "call", r.todo, FALSE)
             /\ q.site = r.site /\ q.tx = PolicyFiles(r.site, r.p)
    <3>1. PICK s \in Sites, p \in Policy : s = r.site /\ p = r.p
      BY <2>1
    <3>2. q.tx.access[s].geo = geo
      BY <1>0, <2>3, <3>1, PolicyFilesTyped
    <3>3. FormTx(q)' /\ Becomes("http", q)
      BY <1>2, <1>9, <2>3, <3>1, <3>2 DEF Refreshes, FormTx
    <3>4. QED
      BY <1>0, <1>1, <1>2, <2>2, <3>3, GeoHttp DEF Settled
  <2>4. CASE \/ Refreshes(t, q, r, "next", r.todo \ {r.site}, FALSE)
             \/ Refreshes(t, q, r, "next", r.todo \ {r.site}, TRUE)
    <3>1. Becomes("http", q) /\ Plain(q)
      BY <1>3, <2>4
    <3>2. QED
      BY <1>0, <1>1, <1>2, <2>2, <3>1, GeoPlain
  <2>5. QED
    BY <2>1, <2>3, <2>4
<1>6. CASE RefreshMark(t)
  <2>1. PICK r, q \in Work :
              /\ Refresher(t, r, {"done", "failed"}) /\ r.site \in Sites
              /\ policy[r.site] # Null /\ policy[r.site].at = r.v /\ r.v \in Nat
              /\ Refreshes(t, q, r, "next", r.todo \ {r.site}, r.pc = "failed")
              /\ \/ r.pc = "done" /\ MarkApplied(r.site, r.v)
                 \/ r.pc = "failed" /\ MarkError(r.site, r.v)
    BY <1>6, MarkFacts
  <2>2. Becomes("http", q) /\ Plain(q)
    BY <1>3, <2>1
  <2>3. CASE MarkError(r.site, r.v)
    BY <1>0, <1>1, <1>2, <2>1, <2>2, <2>3, ErrorSettled, GeoPlain
  <2>4. CASE r.pc = "done" /\ MarkApplied(r.site, r.v)
    <3>1. PICK s \in Sites : s = r.site
      BY <2>1
    <3>2. /\ \A u \in Sites \ {s} : policy'[u] = policy[u]
          /\ policy'[s] = policy[s] \/ policy'[s].at = policy[s].at
      BY <1>0, <2>1, <2>4, <3>1, MarkAppliedMarks
    <3>3. proc'["geo"] = proc["geo"]
      BY <1>0, <2>2, Turned
    <3>4. ASSUME GoodG' PROVE Current(s) \/ Pending(s)
      <4>1. FormTx(r)
        BY <1>9, <2>1, <3>4, <1>1, GoodGBack DEF GeoInv, Refresher
      <4>2. QED
        BY <2>1, <2>4, <3>1, <4>1 DEF FormTx, Refresher, Answers
    <3>5. Current(s) \/ Pending(s) => Current(s)' \/ Pending(s)'
      BY <1>2, <3>2, <3>3 DEF Current, Pending
    <3>6. GoodG' => \A u \in Sites : policy'[u] # Null /\ policy'[u].status = "applied" =>
                                       policy'[u] = policy[u] \/ GeoAt(u)'
      BY <3>2, <3>4, <3>5 DEF GeoAt
    <3>7. q # Null => FormTx(q)'
      BY <2>2, PlainTx
    <3>8. QED
      BY <1>0, <1>1, <1>2, <2>2, <3>6, <3>7, GeoHttp
  <2>5. QED
    BY <2>1, <2>3, <2>4
<1>7. QED
  BY <1>4, <1>5, <1>6, <1>9

(* A step of the update: q is what it does next.                           *)
LEMMA GeoTurn ==
  ASSUME AccessTyped, GeoInv, Grows, NEW q, Becomes("geo", q), UNCHANGED <<files, geo>>,
         GoodG /\ GoodG' => (\A s \in Sites : GeoAt(s)') /\ (q # Null => GeoTx(q)'),
         GoodG /\ GoodG' /\ proc["http"] # Null => FormTx(proc["http"])'
  PROVE  GeoInv'
BY GoodGBack, Turned DEF GeoInv, Threads, GeoTx

(* No request is writing while another thread, or nobody, has the lock.    *)
LEMMA QuietForm ==
  ASSUME AccessInv, lock # "http", proc["http"] # Null, proc'["http"] = proc["http"]
  PROVE  FormTx(proc["http"])'
BY DEF Threads, AccessInv, Locked, Holding, FormTx

(* Where the update still has to go.                                       *)
LEMMA PendingOn ==
  ASSUME AccessTyped, NEW q, NEW r, NEW pc, NEW todo, NEW bad \in BOOLEAN, Refreshes("geo", q, r, pc, todo, bad),
         r = proc["geo"], r # Null, r.doing = "refresh", r.errs \in BOOLEAN, NEW s
  PROVE  /\ Pending(s) <=> \/ r.errs
                           \/ s \in r.todo /\ (r.pc = "lock" /\ r.site = s => policy[s].at = r.v)
         /\ Pending(s)' <=> \/ r.errs \/ bad
                            \/ s \in todo /\ (pc = "lock" /\ q.site = s => policy'[s].at = q.v)
BY Turned DEF Refreshes, Threads, Pending

LEMMA AppliedManaged ==
  ASSUME AccessTyped, Rows, NEW s \in Sites, policy[s] # Null, policy[s].status = "applied"
  PROVE  Managed(s)
BY RowFields DEF AccessTyped, Rows, RowOk, Managed

(* A step of the update that leaves nothing out.                           *)
LEMMA PendingKept ==
  ASSUME AccessInv, GeoInv, Grows, NEW q, Becomes("geo", q), UNCHANGED <<policy, files, geo>>,
         GoodG' => \A u \in Sites : Managed(u) /\ Pending(u) => Pending(u)',
         q # Null => GeoTx(q)'
  PROVE  GeoInv'
<1>0. AccessTyped /\ Rows /\ "geo" \in Threads /\ "http" \in Threads /\ "backup" \in Threads
      /\ "geo" # "http" /\ "geo" # "backup"
  BY DEF AccessInv, Threads
<1>5. proc'["http"] = proc["http"] /\ proc'["backup"] = proc["backup"]
  BY <1>0, Turned
<1>7. ASSUME GoodG, GoodG', NEW u \in Sites PROVE GeoAt(u)'
  BY <1>7, <1>0, AppliedManaged, <1>5 DEF GeoAt, GeoInv, Current, Restoring
<1>8. ASSUME GoodG, GoodG', proc["http"] # Null PROVE FormTx(proc["http"])'
  <2>1. PICK w \in Work : w = proc["http"]
    BY <1>0, <1>8, Actor
  <2>2. FormTx(w) /\ Shape("http", w)
    BY <1>0, <1>8, <2>1, Actor DEF GeoInv
  <2>3. ASSUME w.doing = "refresh", w.pc \in Answers, Pending(w.site) PROVE Pending(w.site)'
    BY <1>0, <1>8, <2>1, <2>3, UnderPolicy
  <2>4. ASSUME w.doing = "apply", w.pc \in Answers, policy[w.site].status = "applied", Pending(w.site)
        PROVE  Pending(w.site)'
    <3>1. w.site \in Sites /\ Bound(w)
      BY <1>0, <1>8, <2>1, <2>2, <2>4, SiteOf, Actor
    <3>2. policy[w.site] # Null
      BY <2>4, <3>1 DEF Bound, BoundApply
    <3>3. QED
      BY <1>0, <1>8, <2>4, <3>1, <3>2, AppliedManaged
  <2>6. FormTx(w)'
    BY <2>2, <2>3, <2>4 DEF FormTx, Current
  <2>7. QED
    BY <1>5, <2>1, <2>6
<1>11. QED
  BY <1>0, <1>7, <1>8, GeoTurn

LEMMA UpdateRead ==
  ASSUME AccessInv, GeoInv, NEW s \in Sites, RefreshRead("geo", s)
  PROVE  GeoInv'
<1>0. AccessTyped /\ Rows /\ "geo" \in Threads /\ "http" \in Threads /\ "backup" \in Threads
      /\ "geo" # "http" /\ "geo" # "backup"
  BY DEF AccessInv, Threads
<1>9. PICK t \in Threads : t = "geo"
  BY <1>0
<1>1. UNCHANGED <<tables, files, spent>> /\ Grows
  BY <1>0, StillGrows DEF RefreshRead
<1>2. PICK r, q \in Work :
         /\ Refresher(t, r, {"next"}) /\ s \in r.todo
         /\ \/ /\ Refreshes(t, q, r, "lock", r.todo, FALSE)
               /\ q.site = s /\ q.v = policy[s].at
            \/ Refreshes(t, q, r, "next", r.todo \ {s}, Managed(s))
  <2>1. RefreshRead(t, s)
    BY <1>9
  <2>2. PICK r, q \in Work :
              /\ Refresher(t, r, {"next"}) /\ s \in r.todo
              /\ \/ /\ Managed(s) /\ Renderable(policy[s].applied) /\ Refreshes(t, q, r, "lock", r.todo, FALSE)
                    /\ q.site = s /\ q.p = policy[s].applied /\ q.v = policy[s].at
                 \/ /\ ~(Managed(s) /\ Renderable(policy[s].applied))
                    /\ Refreshes(t, q, r, "next", r.todo \ {s}, Managed(s))
    BY <2>1, ReadFacts
  <2>3. QED
    BY <2>2
<1>3. Becomes("geo", q) /\ q # Null /\ q.pc \notin Answers
  BY <1>2, <1>9 DEF Refreshes, Answers
<1>4. /\ r = proc["geo"] /\ r # Null /\ r.doing = "refresh" /\ r.errs \in BOOLEAN /\ r.pc = "next"
  BY <1>2, <1>9 DEF Refresher
<1>5. UNCHANGED policy
  BY <1>1 DEF tables
<1>6. ASSUME NEW u \in Sites, Pending(u), Managed(u) PROVE Pending(u)'
  <2>1. CASE Refreshes("geo", q, r, "lock", r.todo, FALSE) /\ q.site = s /\ q.v = policy[s].at
    <3>1. PICK b \in BOOLEAN : b = FALSE
      OBVIOUS
    <3>2. PICK todo, pc : todo = r.todo /\ pc = "lock"
      OBVIOUS
    <3>3. Refreshes("geo", q, r, pc, todo, b)
      BY <2>1, <3>1, <3>2
    <3>4. Pending(u) <=> r.errs \/ (u \in r.todo /\ (r.pc = "lock" /\ r.site = u => policy[u].at = r.v))
      BY <1>0, <1>4, <3>3, PendingOn
    <3>5. Pending(u)' <=> r.errs \/ b \/ (u \in todo /\ (pc = "lock" /\ q.site = u => policy'[u].at = q.v))
      BY <1>0, <1>4, <3>3, PendingOn
    <3>6. QED
      BY <1>5, <1>6, <2>1, <3>2, <3>4, <3>5
  <2>2. CASE Refreshes("geo", q, r, "next", r.todo \ {s}, Managed(s))
    <3>1. PICK b \in BOOLEAN : b = Managed(s)
      BY DEF Managed
    <3>2. PICK todo : todo = r.todo \ {s}
      OBVIOUS
    <3>3. QED
      BY <1>0, <1>4, <1>5, <1>6, <2>2, <3>1, <3>2, PendingOn
  <2>3. QED
    BY <1>2, <1>9, <2>1, <2>2
<1>10. GeoTx(q)'
  BY <1>2, <1>3 DEF GeoTx, Refreshes
<1>11. QED
  BY <1>0, <1>1, <1>3, <1>5, <1>6, <1>10, PendingKept DEF tables

LEMMA UpdateLock == ASSUME AccessInv, GeoInv, RefreshLock("geo") PROVE GeoInv'
<1>0. AccessTyped /\ Rows /\ "geo" \in Threads /\ "http" \in Threads /\ "backup" \in Threads
      /\ "geo" # "http" /\ "geo" # "backup" /\ geo \in Nat
  BY DEF AccessInv, Threads, AccessTyped
<1>9. PICK t \in Threads : t = "geo" /\ RefreshLock(t)
  BY <1>0
<1>1. UNCHANGED <<geo, files, spent>> /\ Grows /\ lock = Null
  BY <1>0, StillGrows DEF RefreshLock
<1>2. PICK r, q \in Work :
              /\ Refresher(t, r, {"lock"}) /\ r.site \in Sites /\ r.site \in r.todo /\ r.p \in Policy /\ r.v > 0
              /\ \/ /\ ~StillApplied(r.site, r.v) /\ UNCHANGED policy
                    /\ Refreshes(t, q, r, "next", r.todo \ {r.site}, FALSE)
                 \/ /\ StillApplied(r.site, r.v) /\ MarkError(r.site, r.v)
                    /\ Refreshes(t, q, r, "next", r.todo \ {r.site}, TRUE)
                 \/ /\ StillApplied(r.site, r.v) /\ Renderable(r.p) /\ UNCHANGED policy
                    /\ Refreshes(t, q, r, "call", r.todo, FALSE)
                    /\ q.site = r.site /\ q.p = r.p /\ q.v = r.v /\ q.tx = PolicyFiles(r.site, r.p)
  BY <1>9, LockFacts
<1>3. Becomes("geo", q) /\ q # Null /\ q.doing = "refresh"
  BY <1>2, <1>9 DEF Refreshes
<1>4. /\ r = proc["geo"] /\ r # Null /\ r.doing = "refresh" /\ r.errs \in BOOLEAN /\ r.pc = "lock"
  BY <1>2, <1>9 DEF Refresher
<1>5. proc'["http"] = proc["http"] /\ proc'["backup"] = proc["backup"]
  BY <1>0, <1>3, Turned
<1>6. Settled
  BY <1>0, <1>2, SameSettled, ErrorSettled
<1>7. PICK no \in BOOLEAN, yes \in BOOLEAN : no = FALSE /\ yes = TRUE
  OBVIOUS
<1>8. ASSUME NEW u \in Sites, Pending(u), policy[u] # Null PROVE Pending(u)'
  <2>1. CASE ~StillApplied(r.site, r.v) /\ UNCHANGED policy /\ Refreshes(t, q, r, "next", r.todo \ {r.site}, FALSE)
    <3>1. PICK todo, pc : todo = r.todo \ {r.site} /\ pc = "next"
      OBVIOUS
    <3>2. Refreshes("geo", q, r, pc, todo, no)
      BY <1>7, <1>9, <2>1, <3>1
    <3>3. Pending(u) <=> r.errs \/ (u \in r.todo /\ (r.pc = "lock" /\ r.site = u => policy[u].at = r.v))
      BY <1>0, <1>4, <3>2, PendingOn
    <3>4. Pending(u)' <=> r.errs \/ no \/ (u \in todo /\ (pc = "lock" /\ q.site = u => policy'[u].at = q.v))
      BY <1>0, <1>4, <3>2, PendingOn
    <3>5. QED
      BY <1>4, <1>7, <1>8, <2>1, <3>1, <3>3, <3>4 DEF StillApplied
  <2>2. CASE Refreshes(t, q, r, "next", r.todo \ {r.site}, TRUE)
    BY <1>7, <1>9, <2>2, <1>0, <1>4, PendingOn
  <2>3. CASE Refreshes(t, q, r, "call", r.todo, FALSE)
    <3>1. PICK todo, pc : todo = r.todo /\ pc = "call"
      OBVIOUS
    <3>2. Refreshes("geo", q, r, pc, todo, no)
      BY <1>7, <1>9, <2>3, <3>1
    <3>3. Pending(u) <=> r.errs \/ (u \in r.todo /\ (r.pc = "lock" /\ r.site = u => policy[u].at = r.v))
      BY <1>0, <1>4, <3>2, PendingOn
    <3>4. Pending(u)' <=> r.errs \/ no \/ (u \in todo /\ (pc = "lock" /\ q.site = u => policy'[u].at = q.v))
      BY <1>0, <1>4, <3>2, PendingOn
    <3>5. QED
      BY <1>4, <1>7, <1>8, <2>3, <3>1, <3>3, <3>4
  <2>4. QED
    BY <1>2, <2>1, <2>2, <2>3
<1>10. ASSUME GoodG, NEW u \in Sites PROVE GeoAt(u)'
  BY <1>6, <1>10, <1>1, <1>5, <1>8 DEF GeoAt, Settled, GeoInv, Current, Restoring
<1>11. proc["http"] # Null => FormTx(proc["http"])'
  BY <1>0, <1>1, <1>5, NullIsNone, QuietForm
<1>12. GeoTx(q)'
  <2>1. CASE q.pc = "next"
    BY <1>3, <2>1 DEF GeoTx, Answers
  <2>2. CASE Renderable(r.p) /\ q.pc = "call" /\ q.site = r.site /\ q.tx = PolicyFiles(r.site, r.p)
    BY <1>2, <1>0, <2>2, PolicyFilesTyped, <1>1, <1>3 DEF GeoTx
  <2>3. QED
    BY <1>2, <2>1, <2>2 DEF Refreshes
<1>13. QED
  BY <1>0, <1>1, <1>3, <1>10, <1>11, <1>12, GeoTurn

LEMMA UpdateMark == ASSUME AccessInv, GeoInv, RefreshMark("geo") PROVE GeoInv'
<1>0. AccessTyped /\ Rows /\ "geo" \in Threads /\ "http" \in Threads /\ "backup" \in Threads
      /\ "geo" # "http" /\ "geo" # "backup"
  BY DEF AccessInv, Threads
<1>9. PICK t \in Threads : t = "geo" /\ RefreshMark(t)
  BY <1>0
<1>1. UNCHANGED <<geo, files, spent>> /\ Grows /\ lock # "http"
  BY <1>0, <1>9, StillGrows, MarkFacts DEF RefreshMark
<1>2. PICK r, q \in Work :
              /\ Refresher(t, r, {"done", "failed"}) /\ r.site \in Sites /\ r.site \in r.todo
              /\ policy[r.site] # Null
              /\ Refreshes(t, q, r, "next", r.todo \ {r.site}, r.pc = "failed")
              /\ \/ r.pc = "done" /\ MarkApplied(r.site, r.v)
                 \/ r.pc = "failed" /\ MarkError(r.site, r.v)
  BY <1>9, MarkFacts
<1>3. Becomes("geo", q) /\ q # Null /\ q.doing = "refresh" /\ q.pc = "next"
  BY <1>2, <1>9 DEF Refreshes
<1>4. /\ r = proc["geo"] /\ r # Null /\ r.doing = "refresh" /\ r.errs \in BOOLEAN /\ r.pc \in {"done", "failed"}
  BY <1>2, <1>9 DEF Refresher
<1>5. proc'["http"] = proc["http"] /\ proc'["backup"] = proc["backup"]
  BY <1>0, <1>3, Turned
<1>6. PICK b \in BOOLEAN, pc \in {"next"}, todo \in {r.todo \ {r.site}} : b = (r.pc = "failed")
  OBVIOUS
<1>7. Refreshes("geo", q, r, pc, todo, b)
  BY <1>2, <1>6, <1>9
<1>8. ASSUME NEW u \in Sites, Pending(u), b \/ u # r.site PROVE Pending(u)'
  <2>3. Pending(u) <=> r.errs \/ (u \in r.todo /\ (r.pc = "lock" /\ r.site = u => policy[u].at = r.v))
    BY <1>0, <1>4, <1>7, PendingOn
  <2>4. Pending(u)' <=> r.errs \/ b \/ (u \in todo /\ (pc = "lock" /\ q.site = u => policy'[u].at = q.v))
    BY <1>0, <1>4, <1>7, PendingOn
  <2>5. QED
    BY <1>4, <1>6, <1>8, <2>3, <2>4
<1>10. ASSUME GoodG, NEW u \in Sites PROVE GeoAt(u)'
  <2>1. SUFFICES ASSUME policy'[u] # Null, policy'[u].status = "applied" PROVE GeoAt(u)'
    BY DEF GeoAt
  <2>2. CASE u = r.site /\ r.pc = "done"
    BY <1>4, <1>10, <2>2, <1>1 DEF GeoInv, GeoTx, Answers, GeoAt, Current
  <2>3. CASE u # r.site \/ r.pc = "failed"
    <3>1. policy'[u] = policy[u]
      <4>1. CASE r.pc = "done"
        BY <1>0, <1>2, <2>3, <4>1, MarkAppliedMarks
      <4>2. CASE r.pc = "failed"
        BY <1>0, <1>2, <2>1, <4>2, ErrorSettled DEF Settled
      <4>3. QED
        BY <1>4, <4>1, <4>2
    <3>2. Current(u) \/ Pending(u) \/ Restoring(u)
      BY <1>10, <2>1, <3>1 DEF GeoInv, GeoAt
    <3>3. Current(u)' \/ Pending(u)' \/ Restoring(u)'
      BY <1>1, <1>5, <1>6, <1>8, <2>3, <3>2 DEF Current, Restoring
    <3>4. QED
      BY <3>3 DEF GeoAt
  <2>4. QED
    BY <1>4, <2>2, <2>3
<1>11. proc["http"] # Null => FormTx(proc["http"])'
  BY <1>1, <1>5, QuietForm
<1>12. GeoTx(q)'
  BY <1>3 DEF GeoTx, Answers
<1>13. QED
  BY <1>0, <1>1, <1>3, <1>10, <1>11, <1>12, GeoTurn

LEMMA WrittenGeo ==
  ASSUME NEW r \in Work, NEW s \in DOMAIN r.tx.access
  PROVE  r.tx.access[s] \in Access /\ r.tx.access[s].geo \in Nat
<1>1. PICK f : f = r.tx.access
  OBVIOUS
<1>2. f \in Some(Access)
  BY <1>1 DEF Work, Changes
<1>3. f[s] \in Access
  BY <1>1, <1>2 DEF Some
<1>4. QED
  BY <1>1, <1>3 DEF Access

LEMMA StartUpdateGeo == ASSUME AccessInv, GeoInv, StartUpdate PROVE GeoInv'
<1>0. AccessTyped /\ geo \in Nat /\ "geo" \in Threads /\ "http" \in Threads /\ "geo" # "http"
  BY DEF AccessInv, AccessTyped, Threads
<1>1. PICK q : q = [Idle EXCEPT !.op = "geo", !.doing = "geo", !.pc = "read"]
  OBVIOUS
<1>2. q.doing = "geo" /\ q.pc = "read"
  BY <1>1, IdleTyped DEF Work
<1>3. /\ geo' = geo + 1 /\ proc["geo"] = Null /\ Becomes("geo", q) /\ UNCHANGED <<policy, files>>
  BY <1>1 DEF StartUpdate, InstallGeneration, Begin
<1>4. proc'["geo"] = q /\ proc'["http"] = proc["http"]
  BY <1>0, <1>3, Turned
<1>5. Grows
  BY <1>0, BeginGrows DEF StartUpdate
<1>6. SUFFICES ASSUME GoodG' PROVE GeoInv'
  BY DEF GeoInv
<1>7. \A s : Pending(s)' \/ q = Null
  BY <1>2, <1>4 DEF Pending
<1>8. q # Null
  <2>1. q \in Work
    BY <1>1, IdleTyped DEF Work
  <2>2. QED
    BY <2>1, NullIsNone
<1>9. \A s \in Sites : GeoAt(s)'
  BY <1>7, <1>8 DEF GeoAt
<1>10. GeoTx(q)'
  BY <1>2 DEF GeoTx, Answers
<1>11. ASSUME proc["http"] # Null PROVE FormTx(proc["http"])'
  <2>1. PICK w \in Work : w = proc["http"]
    BY <1>0, <1>11, Actor
  <2>2. FormTx(w) /\ Shape("http", w)
    BY <1>0, <1>5, <1>6, <1>11, <2>1, Actor, GoodGBack DEF GeoInv
  <2>3. ASSUME w.doing \in {"apply", "proxy"}, w.p # Null, w.pc \in Answers
        PROVE  w.tx.access[w.site].geo <= geo' /\ w.tx.access[w.site].geo # geo'
    <3>1. w.site \in DOMAIN w.tx.access
      <4>1. CASE w.doing = "apply"
        BY <1>0, <2>2, <4>1, ShapeBack DEF ApplyShape, Writes
      <4>2. CASE w.doing = "proxy"
        BY <1>0, <2>2, <4>2, ShapeBack, <2>3 DEF ProxyShape, Writes, Answers
      <4>3. QED
        BY <2>3, <4>1, <4>2
    <3>2. w.tx.access[w.site].geo \in Nat
      BY <3>1, WrittenGeo
    <3>3. w.tx.access[w.site].geo <= geo
      BY <2>2, <2>3 DEF FormTx
    <3>4. QED
      BY <1>0, <1>3, <3>2, <3>3
  <2>4. FormTx(w)'
    BY <1>7, <1>8, <2>3 DEF FormTx
  <2>5. QED
    BY <1>4, <2>1, <2>4
<1>12. QED
  BY <1>4, <1>9, <1>10, <1>11 DEF GeoInv

LEMMA RefreshPending ==
  ASSUME AccessTyped, NEW r \in Work, Becomes("geo", StartRefresh(r)), UNCHANGED policy
  PROVE  \E q \in Work : /\ Becomes("geo", q) /\ q # Null /\ q.doing = "refresh" /\ q.pc = "next"
                        /\ \A u \in Sites : policy[u] # Null => Pending(u)'
<1>1. PICK q : q = StartRefresh(r)
  OBVIOUS
<1>2. q \in Work /\ q.doing = "refresh" /\ q.pc = "next" /\ q.todo = {s \in Sites : policy[s] # Null}
  BY <1>1, StartRefreshTyped
<1>3. proc'["geo"] = q /\ q # Null
  BY <1>1, <1>2, Turned, NullIsNone DEF Threads
<1>4. QED
  BY <1>1, <1>2, <1>3 DEF Pending

LEMMA ToRefreshGeo ==
  ASSUME AccessInv, GeoInv, proc["geo"] # Null, Becomes("geo", StartRefresh(proc["geo"])),
         UNCHANGED <<tables, files, spent>>
  PROVE  GeoInv'
BY Actor, StillGrows, RefreshPending, PendingKept DEF AccessInv, Threads, tables, GeoTx, Answers,
   Managed

LEMMA ReadSitesGeo == ASSUME AccessInv, GeoInv, ReadGeoSites PROVE GeoInv'
<1>0. AccessTyped /\ "geo" \in Threads /\ GeoSites \subseteq Sites
  BY AccessAssumption DEF AccessInv, Threads
<1>1. PICK r \in Work : r = proc["geo"] /\ r # Null /\ r.doing = "geo"
  BY <1>0, Actor DEF ReadGeoSites, At
<1>2. PICK sites \in SUBSET Sites : sites = {s \in GeoSites : ~Managed(s)}
  BY <1>0
<1>3. UNCHANGED <<tables, files, spent>>
  BY DEF ReadGeoSites
<1>4. CASE sites = {}
  BY <1>2, <1>4, <1>1, <1>3, ToRefreshGeo DEF ReadGeoSites
<1>5. CASE sites # {}
  <2>1. PICK x : x = GeoFiles(sites)
    OBVIOUS
  <2>2. x \in Changes /\ DOMAIN x.access = sites /\ \A s \in sites : x.access[s].geo = geo
    BY <1>0, <2>1, GeoFilesTyped
  <2>3. PICK q : q = [r EXCEPT !.pc = "call", !.tx = x]
    OBVIOUS
  <2>4. q.doing = "geo" /\ q.pc = "call" /\ q.tx = x /\ q \in Work
    BY <1>1, <2>2, <2>3, CallRecord, ZenonT(30) DEF Work
  <2>5. Becomes("geo", q)
    BY <1>1, <1>2, <1>5, <2>1, <2>3 DEF ReadGeoSites, GeoFiles
  <2>6. proc'["geo"] = q /\ q # Null
    BY <1>0, <2>4, <2>5, Turned, NullIsNone
  <2>7. \A u \in Sites : Pending(u)'
    BY <2>4, <2>6 DEF Pending
  <2>8. Grows /\ UNCHANGED <<policy, files, geo>>
    BY <1>0, <1>3, StillGrows DEF tables
  <2>9. GeoTx(q)'
    BY <2>2, <2>4, <2>8 DEF GeoTx
  <2>10. QED
    BY <2>5, <2>7, <2>8, <2>9, PendingKept
<1>6. QED
  BY <1>4, <1>5

LEMMA UpdateEndsGeo == ASSUME AccessInv, GeoInv, GeoApplied \/ GeoFailed \/ GeoRefreshed PROVE GeoInv'
<1>0. AccessTyped /\ "geo" \in Threads
  BY DEF AccessInv, Threads
<1>1. CASE GeoApplied
  BY <1>1, ToRefreshGeo DEF GeoApplied, At
<1>2. CASE GeoFailed
  BY <1>2, <1>0, NoteGrows, NotGoodG DEF GeoFailed, Mishaps, GeoInv
<1>3. CASE GeoRefreshed
  BY <1>0, <1>3, Actor, NoteGrows, NotGoodG, PendingKept DEF GeoRefreshed, RefreshEnded, At, Work,
     Mishaps, Pending, Ends, tables
<1>4. QED
  BY <1>1, <1>2, <1>3

LEMMA RestoresGeo ==
  ASSUME AccessInv, GeoInv, CommitRestore \/ FailRestore \/ \E s \in Sites : Backup(s) \/ StartRestore(s)
  PROVE  GeoInv'
<1>0. AccessTyped /\ "backup" \in Threads /\ "geo" \in Threads /\ "http" \in Threads
      /\ "backup" # "geo" /\ "backup" # "http"
  BY DEF AccessInv, Threads
<1>1. CASE CommitRestore
  <2>1. CASE Committed
    BY <1>1, <2>1, CommittedFacts, NotGoodG DEF CommitRestore, GeoInv
  <2>2. CASE Note("adrift", TRUE) \/ Lost
    BY <1>0, NoteGrows, <2>2, LostGrows, NotGoodG DEF Mishaps, GeoInv
  <2>3. QED
    BY <1>1, <2>1, <2>2 DEF CommitRestore, Committed
<1>2. CASE FailRestore \/ \E s \in Sites : Backup(s) \/ StartRestore(s)
  <2>1. UNCHANGED <<policy, files, geo>>
    BY <1>2 DEF FailRestore, StartRestore, Backup, tables
  <2>2. Grows
    BY <1>2, BesideMoves DEF Beside
  <2>3. /\ proc'["http"] = proc["http"] /\ proc'["geo"] = proc["geo"]
        /\ \A s \in Sites : Restoring(s) => Restoring(s)'
    <3>1. CASE FailRestore
      BY <1>0, <3>1 DEF FailRestore, At, Ends, Becomes, AccessTyped, Restoring
    <3>2. ASSUME NEW s \in Sites, Backup(s)
          PROVE  UNCHANGED proc
      BY <3>2 DEF Backup
    <3>3. ASSUME NEW s \in Sites, StartRestore(s)
          PROVE  /\ proc'["http"] = proc["http"] /\ proc'["geo"] = proc["geo"]
                 /\ proc["backup"] = Null
      BY <1>0, <3>3 DEF StartRestore, Begin, Becomes, AccessTyped
    <3>4. QED
      BY <1>2, <3>1, <3>2, <3>3 DEF Restoring
  <2>4. SUFFICES ASSUME GoodG' PROVE GeoInv'
    BY DEF GeoInv
  <2>5. /\ \A s \in Sites : GeoAt(s)
        /\ proc["geo"] # Null => GeoTx(proc["geo"])
        /\ proc["http"] # Null => FormTx(proc["http"])
    BY <2>2, <2>4, GoodGBack DEF GeoInv
  <2>6. \A s \in Sites : GeoAt(s)'
    BY <2>1, <2>3, <2>5 DEF GeoAt, Current, Pending
  <2>7. proc'["geo"] # Null => GeoTx(proc["geo"])'
    BY <2>1, <2>3, <2>5 DEF GeoTx, Current
  <2>8. proc'["http"] # Null => FormTx(proc["http"])'
    BY <2>1, <2>3, <2>5 DEF FormTx, Current, Pending
  <2>9. QED
    BY <2>6, <2>7, <2>8 DEF GeoInv
<1>3. QED
  BY <1>1, <1>2

LEMMA BesideGeo == ASSUME AccessInv, GeoInv, Beside PROVE GeoInv'
BY StartUpdateGeo, ReadSitesGeo, UpdateEndsGeo, RestoresGeo DEF Beside

LEMMA CrashGeo == ASSUME AccessInv, Crash PROVE GeoInv'
BY CrashFacts, NotGoodG DEF GeoInv

LEMMA GeoInit == ASSUME Init PROVE GeoInv
BY InitFiles DEF Init, GeoInv, GeoAt, Current, Threads

(* What the answered thread wrote is what its site has.                    *)
LEMMA WroteAccess ==
  ASSUME AccessInv, NEW t \in Threads, NEW r, NEW q, AnsweredBy(t, r, q), r.doing \in {"apply", "proxy", "refresh"},
         r.p # Null
  PROVE  r.site \in Sites /\ files'.access[r.site] = r.tx.access[r.site]
<1>1. r.site \in Sites
  BY CallKeeps
<1>2. Shape(t, r) /\ CallFiles(r) /\ r.pc = "call"
  BY DEF AnsweredBy
<1>3. r.site \in DOMAIN r.tx.access
  <2>1. CASE r.doing = "apply"
    BY <1>2, <2>1, ShapeBack DEF ApplyShape, Writes
  <2>2. CASE r.doing = "refresh"
    BY <1>2, <2>2, ShapeBack DEF RefreshShape, Writes
  <2>3. CASE r.doing = "proxy"
    BY <1>2, <2>3, ShapeBack DEF ProxyShape, Writes
  <2>4. QED
    BY <2>1, <2>2, <2>3
<1>4. QED
  BY <1>1, <1>2, <1>3 DEF CallFiles

(* A site that is being written, or was, is not touched meanwhile.         *)
LEMMA CurrentKept ==
  ASSUME AccessInv, NEW t \in Threads, NEW r, NEW q, AnsweredBy(t, r, q), UNCHANGED geo,
         r.doing = "geo" => GeoTx(r),
         NEW u \in Threads \ {t}, proc[u] # Null, Holding(proc[u]), proc[u].doing = "refresh" \/ u = "http",
         Current(proc[u].site)
  PROVE  Current(proc[u].site)'
<1>1. PICK w \in Work : w = proc[u]
  BY Actor
<1>2. w # Null /\ Shape(u, w) /\ Holding(w) /\ (lock = u <=> Holding(w)) /\ (lock = t <=> Holding(r)) /\ proc'[u] = w
  BY <1>1, Actor DEF AnsweredBy
<1>3. PICK s \in Sites : s = w.site
  BY <1>1, <1>2, SiteOf DEF Holding, Answers
<1>4. r.doing \in {"rules", "geo"}
  BY <1>2, CallKeeps DEF Holding, AnsweredBy, Answers
<1>5. CASE r.doing = "geo"
  BY <1>5, GeoKeeps, <1>1, <1>3, <1>2 DEF GeoTx, AnsweredBy, Answers, Current
<1>6. CASE r.doing = "rules"
  <2>1. t = "http" /\ ~Managed(r.site)
    BY <1>6, ThreadOps DEF AnsweredBy, Bound, BoundRule, Answers
  <2>2. w.doing = "refresh" /\ w.pc \in Answers
    BY <1>1, <1>2, <2>1 DEF Holding
  <2>3. Managed(w.site)
    BY <1>1, <1>2, <2>2, UnderPolicy
  <2>4. files'.access[s] = files.access[s]
    BY <1>3, <1>6, <2>1, <2>3, CallKeeps
  <2>5. Current(s)'
    BY <1>1, <1>3, <2>4 DEF Current
  <2>6. QED
    BY <1>1, <1>2, <1>3, <2>5
<1>7. QED
  BY <1>4, <1>5, <1>6

LEMMA AnsweredGeo ==
  ASSUME AccessInv, GeoInv, NEW t \in Threads, NEW r, NEW q, AnsweredBy(t, r, q), Grows, UNCHANGED <<policy, geo>>
  PROVE  GeoInv'
<1>0. AccessTyped /\ Rows /\ "backup" \in Threads /\ "http" \in Threads /\ "geo" \in Threads
  BY DEF AccessInv, Threads
<1>1. SUFFICES ASSUME GoodG' PROVE GeoInv'
  BY DEF GeoInv
<1>2. /\ \A s \in Sites : GeoAt(s)
      /\ proc["geo"] # Null => GeoTx(proc["geo"])
      /\ proc["http"] # Null => FormTx(proc["http"])
  BY <1>1, GoodGBack DEF GeoInv
<1>3. /\ r \in Work /\ r = proc[t] /\ r # Null /\ r.pc = "call" /\ Shape(t, r) /\ Bound(r)
      /\ q.doing = r.doing /\ q.pc = "done" /\ q.site = r.site /\ q.p = r.p /\ proc'[t] = q /\ q # Null
      /\ q.tx = r.tx /\ q.todo = r.todo /\ q.errs = r.errs
      /\ \A u \in Threads \ {t} : proc'[u] = proc[u]
  BY DEF AnsweredBy
<1>4. ASSUME NEW s PROVE (Restoring(s) => Restoring(s)') /\ (Pending(s) => Pending(s)')
  <2>1. Restoring(s) => Restoring(s)'
    BY <1>0, <1>3 DEF Restoring
  <2>2. Pending(s) => Pending(s)'
    BY <1>0, <1>3 DEF Pending
  <2>3. QED
    BY <2>1, <2>2
<1>5. /\ r.doing \in {"apply", "proxy", "refresh", "rules", "restore", "geo"}
      /\ r.doing # "geo" => /\ r.site \in Sites
                            /\ \A s \in Sites \ {r.site} : files'.access[s] = files.access[s]
  BY CallKeeps
<1>6. r.doing \in {"apply", "refresh"} => r.p # Null
  BY <1>3, ShapeBack, NullIsNone DEF ApplyShape, RefreshShape, WritesPolicy, Answers
<1>7. r.doing = "geo" => GeoTx(r)
  BY <1>3, ThreadOps, <1>2
<1>8. r.doing \in {"apply", "proxy"} => t = "http"
  BY <1>3, ThreadOps
<1>9. r.doing = "refresh" => t \in {"http", "geo"}
  BY <1>3, ThreadOps DEF Threads
<1>10. t = "http" => FormTx(r)
  BY <1>2, <1>3
<1>11. t = "geo" => GeoTx(r)
  BY <1>2, <1>3
<1>12. ASSUME NEW s \in Sites PROVE GeoAt(s)'
  <2>1. SUFFICES ASSUME policy[s] # Null, policy[s].status = "applied"
                 PROVE  Current(s)' \/ Pending(s)' \/ Restoring(s)'
    BY DEF GeoAt
  <2>2. Current(s) \/ Pending(s) \/ Restoring(s)
    BY <1>2, <2>1 DEF GeoAt
  <2>3. CASE r.doing = "geo"
    BY <2>3, GeoKeeps, <1>3, <1>7, <1>4, <2>2 DEF GeoTx, Answers, Current
  <2>4. CASE r.doing # "geo" /\ s # r.site
    BY <1>4, <1>5, <2>2, <2>4 DEF Current
  <2>5. CASE s = r.site /\ r.doing = "apply"
    <3>1. files'.access[s] = r.tx.access[s]
      BY <1>6, <2>5, WroteAccess
    <3>2. r.tx.access[s].geo = geo \/ Pending(s)
      BY <1>3, <1>8, <1>10, <2>1, <2>5 DEF FormTx, Answers
    <3>3. QED
      BY <1>4, <3>1, <3>2 DEF Current
  <2>6. CASE s = r.site /\ r.doing = "refresh"
    <3>1. files'.access[s] = r.tx.access[s]
      BY <1>6, <2>6, WroteAccess
    <3>2. r.tx.access[s].geo = geo \/ Pending(s)
      BY <1>3, <1>9, <1>10, <1>11, <2>6 DEF FormTx, GeoTx, Answers
    <3>3. QED
      BY <1>4, <3>1, <3>2 DEF Current
  <2>7. CASE s = r.site /\ r.doing = "proxy"
    <3>1. r.p # Null => policy[s].version = r.v /\ policy[s].at < r.v
      BY <1>3, <2>7 DEF Bound, BoundProxy
    <3>2. policy[s].at \in Nat /\ r.v \in Nat
      <4>1. policy[s].at \in Nat
        BY <1>0, <2>1, RowFields DEF AccessTyped
      <4>2. r \in Work
        BY <1>3
      <4>3. QED
        BY <4>1, <4>2 DEF Work
    <3>3. r.p = Null
      BY <1>0, <2>1, <3>1, <3>2 DEF Rows, RowOk
    <3>4. policy[s] = Null
      BY <1>3, <2>7, <3>3 DEF Bound, BoundProxy
    <3>5. QED
      BY <2>1, <3>4
  <2>8. CASE s = r.site /\ r.doing = "rules"
    BY <1>3, <2>8, <1>0, <2>1, AppliedManaged DEF Bound, BoundRule, Answers
  <2>9. CASE s = r.site /\ r.doing = "restore"
    BY <1>3, <2>9, ThreadOps DEF Restoring
  <2>10. QED
    BY <1>5, <2>3, <2>4, <2>5, <2>6, <2>7, <2>8, <2>9
<1>13. ASSUME proc'["geo"] # Null PROVE GeoTx(proc["geo"])'
  <2>1. CASE t = "geo"
    BY <1>6, WroteAccess, <1>3, <1>11, <2>1 DEF GeoTx, Current, Answers
  <2>2. CASE t # "geo"
    <3>1. PICK w \in Work : w = proc["geo"] /\ proc'["geo"] = w
      BY <1>0, <1>3, <1>13, <2>2, Actor
    <3>2. GeoTx(w) /\ w # Null
      BY <1>2, <1>13, <3>1
    <3>3. ASSUME w.doing = "refresh", w.pc = "done" PROVE Current(w.site)'
      <4>1. Current(w.site) /\ Holding(w)
        BY <3>2, <3>3 DEF GeoTx, Holding, Answers
      <4>2. QED
        BY <1>0, <1>7, <2>2, <3>1, <3>2, <3>3, <4>1, CurrentKept
    <3>4. GeoTx(w)'
      BY <3>2, <3>3 DEF GeoTx
    <3>5. QED
      BY <3>1, <3>4
  <2>3. QED
    BY <2>1, <2>2
<1>14. ASSUME proc'["http"] # Null PROVE FormTx(proc["http"])'
  <2>1. CASE t = "http"
    BY WroteAccess, <1>3, <1>4, <1>6, <1>10, <2>1 DEF FormTx, Current, Answers
  <2>2. CASE t # "http"
    <3>1. PICK w \in Work : w = proc["http"] /\ proc'["http"] = w
      BY <1>0, <1>3, <1>14, <2>2, Actor
    <3>2. FormTx(w) /\ w # Null
      BY <1>2, <1>14, <3>1
    <3>3. ASSUME w.doing \in {"apply", "proxy", "refresh"}, w.pc \in Answers, Current(w.site) PROVE Current(w.site)'
      <4>1. Holding(w)
        BY <3>2, <3>3 DEF Holding
      <4>2. QED
        BY <1>0, <1>7, <2>2, <3>1, <3>2, <3>3, <4>1, CurrentKept
    <3>4. FormTx(w)'
      BY <1>4, <3>2, <3>3 DEF FormTx
    <3>5. QED
      BY <3>1, <3>4
  <2>3. QED
    BY <2>1, <2>2
<1>15. QED
  BY <1>12, <1>13, <1>14 DEF GeoInv

LEMMA CallGeo == ASSUME AccessInv, GeoInv, NEW t \in Threads, Call(t) PROVE GeoInv'
<1>0. AccessTyped /\ "backup" \in Threads /\ "http" \in Threads /\ "geo" \in Threads
  BY DEF AccessInv, Threads
<1>1. Grows /\ UNCHANGED <<policy, geo>>
  BY CallEnds DEF tables
<1>2. CASE {"lost", "overlap"} \cap spent'.mishaps # {}
  BY <1>2, NotGoodG DEF GeoInv
<1>3. ASSUME NEW q \in Work, q = [proc[t] EXCEPT !.pc = "failed"], proc'[t] = q, UNCHANGED files, Moves(t),
             proc[t] # Null, proc[t].pc = "call"
      PROVE  GeoInv'
  <2>1. PICK r \in Work : r = proc[t]
    BY <1>3, Actor
  <2>2. /\ q.doing = r.doing /\ q.site = r.site /\ q.p = r.p /\ q.tx = r.tx /\ q.pc = "failed"
        /\ q.todo = r.todo /\ q.errs = r.errs
    BY <1>3, <2>1 DEF Work
  <2>3. q # Null /\ r # Null /\ r.pc = "call" /\ proc'[t] = q /\ \A u \in Threads \ {t} : proc'[u] = proc[u]
    BY <1>3, <2>1, NullIsNone DEF Moves
  <2>4. SUFFICES ASSUME GoodG' PROVE GeoInv'
    BY DEF GeoInv
  <2>5. /\ \A s \in Sites : GeoAt(s)
        /\ proc["geo"] # Null => GeoTx(proc["geo"])
        /\ proc["http"] # Null => FormTx(proc["http"])
    BY <1>1, <2>4, GoodGBack DEF GeoInv
  <2>6. ASSUME NEW s PROVE (Restoring(s) => Restoring(s)') /\ (Pending(s) => Pending(s)')
    <3>1. Restoring(s) => Restoring(s)'
      BY <1>0, <2>1, <2>3 DEF Restoring
    <3>2. Pending(s) => Pending(s)'
      BY <1>0, <1>1, <2>1, <2>2, <2>3 DEF Pending
    <3>3. QED
      BY <3>1, <3>2
  <2>7. \A s \in Sites : GeoAt(s)'
    BY <1>1, <1>3, <2>5, <2>6 DEF GeoAt, Current
  <2>8. ASSUME proc'["geo"] # Null PROVE GeoTx(proc["geo"])'
    <3>1. CASE t = "geo"
      BY <2>1, <2>3, <2>5, <3>1, <1>1, <2>2 DEF GeoTx, Answers
    <3>2. CASE t # "geo"
      BY <1>0, <1>1, <1>3, <2>3, <2>5, <2>8, <3>2 DEF GeoTx, Current
    <3>3. QED
      BY <3>1, <3>2
  <2>9. ASSUME proc'["http"] # Null PROVE FormTx(proc["http"])'
    <3>1. CASE t = "http"
      <4>1. FormTx(r)
        BY <2>1, <2>3, <2>5, <3>1
      <4>2. FormTx(q)'
        BY <1>1, <2>2, <2>3, <2>6, <4>1 DEF FormTx, Answers
      <4>3. QED
        BY <2>3, <3>1, <4>2
    <3>2. CASE t # "http"
      <4>1. PICK w : w = proc["http"] /\ proc'["http"] = w
        BY <1>0, <2>3, <3>2
      <4>2. FormTx(w)
        BY <2>5, <2>9, <4>1
      <4>3. FormTx(w)'
        BY <1>1, <1>3, <2>6, <4>2 DEF FormTx, Current
      <4>4. QED
        BY <4>1, <4>3
    <3>3. QED
      BY <3>1, <3>2
  <2>10. QED
    BY <2>7, <2>8, <2>9 DEF GeoInv
<1>4. ASSUME NEW r \in Work, NEW q \in Work, AnsweredBy(t, r, q) PROVE GeoInv'
  BY <1>1, <1>4, AnsweredGeo
<1>5. QED
  BY <1>2, <1>3, <1>4, CallEnds

LEMMA GeoNext == ASSUME AccessInv, GeoInv, Next PROVE GeoInv'
<1>1. ASSUME NEW t \in Threads, Call(t) PROVE GeoInv'
  BY <1>1, CallGeo
<1>2. ASSUME NEW t \in Threads, RefreshLock(t) \/ RefreshMark(t) \/ \E s \in Sites : RefreshRead(t, s)
      PROVE  GeoInv'
  BY <1>2, RefreshMoves, RefreshGeo, UpdateRead, UpdateLock, UpdateMark DEF Threads
<1>3. CASE Refresh
  BY <1>2, <1>3 DEF Refresh
<1>4. QED
  BY <1>1, <1>3, RequestGeo, HandlerGeo, BesideGeo, CrashGeo DEF Next

(* When an update of the database has ended, every policy in force is      *)
(* rendered from it, whoever changed a policy meanwhile (geoaccess         *)
(* activateDatabase, applyAll; accesspolicy RefreshActive).                *)
THEOREM UpdateReachesEveryPolicy == Spec => []GeoIsCurrent
<1>1. ASSUME AccessInv, GeoInv PROVE GeoIsCurrent
  <2>1. SUFFICES ASSUME GoodG, proc["geo"] = Null, NEW s \in Sites, policy[s] # Null,
                        policy[s].status = "applied", ~Leased(s)
                 PROVE  files.access[s].geo = geo
    BY DEF GeoIsCurrent, GoodG, Steady, Without
  <2>2. "backup" \in Threads /\ AccessTyped
    BY <1>1 DEF Threads, AccessInv
  <2>3. ~Restoring(s)
    <3>1. SUFFICES ASSUME Restoring(s) PROVE FALSE
      OBVIOUS
    <3>2. lock = "backup"
      BY <1>1, <3>1, NotRestoring
    <3>3. Shape("backup", proc["backup"]) /\ proc["backup"] # Null
      BY <1>1, <2>2, <3>1, Actor DEF Restoring
    <3>4. proc["backup"].op = "restore"
      BY <2>2, <3>3, ThreadOps
    <3>5. QED
      BY <2>1, <2>2, <3>1, <3>2, <3>4, NullIsNone DEF Leased, Restoring
  <2>4. QED
    BY <1>1, <2>1, <2>3 DEF GeoInv, GeoAt, Current, Pending
<1>2. Init => AccessInv /\ GeoInv
  BY AccessInit, GeoInit
<1>3. ASSUME AccessInv /\ GeoInv, [Next]_vars PROVE (AccessInv /\ GeoInv)'
  BY <1>3, AccessNext, AccessStutter, GeoNext, GeoStutter
<1>4. QED
  BY <1>1, <1>2, <1>3, PTL DEF Spec

-----------------------------------------------------------------------------
(* A revoked login is out: the inductive invariant.                        *)
GoodR == Without({"lost", "adrift", "overlap", "older", "changed", "halfway", "unknown"})

Live(c) == Enabled(c[1]) /\ accounts[c[1]].pw = c[2]

(* The older rule of s, as the files have it.                              *)
Ruling(s) ==
  proc["http"] # Null /\ proc["http"].op = "rule" /\ proc["http"].pc # "done" /\ proc["http"].site = s
Ruled(s)  == IF Ruling(s) THEN proc["http"].row.old ELSE rules[s]
RulesOk(s) ==
  files.access[s].kind = "rules" =>
    /\ files.access[s].policy.users = Ruled(s)
    /\ Ruled(s) # {} => \A c \in files.htpasswd[s] : c[1] \in Ruled(s)

(* Whom the files of a policy let in is known to its row, or to the        *)
(* request that is about to say so.                                        *)
Installing(s) ==
  /\ proc["http"] # Null /\ proc["http"].doing \in {"apply", "proxy"} /\ proc["http"].p # Null
  /\ proc["http"].site = s
KindOk(s)  == files.access[s].kind = "policy" => Managed(s) \/ (Installing(s) /\ proc["http"].pc = "done")
KnownOk(s) == Managed(s) => Installing(s) \/ \E p \in PoliciesOf(s) : p.users = files.slots[s].policy.users
FilesOk(s) == RulesOk(s) /\ KindOk(s) /\ KnownOk(s)

(* The request that changes the account has yet to come to s.              *)
Awaits(s, c) ==
  /\ proc["http"] # Null /\ proc["http"].op = "account" /\ c[1] = proc["http"].account
  /\ \/ proc["http"].doing = "refresh" /\ (proc["http"].errs \/ s \in proc["http"].todo \/ ~Managed(s))
     \/ proc["http"].doing = "rules" /\ s \in proc["http"].todo /\ ~Managed(s)

(* Whom s lets in, or will when the update has written it.                 *)
Lets(s, c) ==
  \/ c \in Served(s) /\ ~Restoring(s)
  \/ /\ proc["geo"] # Null /\ proc["geo"].doing = "refresh" /\ proc["geo"].pc = "call" /\ proc["geo"].site = s
     /\ c \in LetIn(proc["geo"].tx.slots[s].accounts)
LetOk(s) == \A c \in Accounts \X Passwords : Lets(s, c) => Live(c) \/ Awaits(s, c)

(* What the request writes, and has written.                               *)
AllLive(kept) == \A c \in LetIn(kept) : Live(c)
RulesTx(r) ==
  r.doing = "rules" /\ r.pc \in Answers =>
    /\ r.tx.access[r.site].policy.users = rules[r.site]
    /\ r.site \in DOMAIN r.tx.htpasswd =>
         \A c \in r.tx.htpasswd[r.site] : Live(c) /\ c[1] \in rules[r.site]
    /\ r.op = "rule" /\ r.site \notin DOMAIN r.tx.htpasswd => r.row.old = rules[r.site]
    /\ r.op = "account" => /\ r.site \in DOMAIN r.tx.htpasswd
                           /\ r.pc = "done" => Restoring(r.site) \/ \A c \in Served(r.site) : Live(c)
RevokeTx(r) ==
  /\ r.doing \in {"apply", "proxy"} /\ r.p # Null /\ r.pc = "call" => AllLive(r.tx.slots[r.site].accounts)
  /\ r.doing = "refresh" /\ r.pc = "lock" => policy[r.site].at = r.v
  /\ r.doing = "refresh" /\ r.pc = "call" => AllLive(r.tx.slots[r.site].accounts)
  /\ r.doing = "refresh" /\ r.pc = "done" => AllLive(files.slots[r.site].accounts)
  /\ RulesTx(r)
  /\ r.doing = "delete" =>
       \A s \in Sites : r.account \notin rules[s] /\ \A p \in PoliciesOf(s) : r.account \notin p.users

RevokeAt(s) == LetOk(s) /\ (Restoring(s) \/ FilesOk(s))
RevokeInv == GoodR =>
  /\ \A s \in Sites : RevokeAt(s)
  /\ proc["http"] # Null => RevokeTx(proc["http"])

LEMMA GoodRBack == ASSUME Grows, GoodR' PROVE GoodR
BY WithoutBack DEF GoodR

LEMMA GoodRGood == GoodR => Good /\ Fresh
BY DEF GoodR, Good, Fresh, Without

LEMMA NotGoodR ==
  ASSUME {"lost", "adrift", "overlap", "older", "changed", "halfway", "unknown"} \cap spent'.mishaps # {}
  PROVE  ~GoodR'
BY DEF GoodR, Without

LEMMA RevokeStep ==
  ASSUME RevokeInv, Grows,
         GoodR /\ GoodR' => \A s \in Sites : RevokeAt(s)',
         GoodR /\ GoodR' /\ proc'["http"] # Null => RevokeTx(proc["http"])'
  PROVE  RevokeInv'
BY GoodRBack DEF RevokeInv

(* The policies of s, wanted and in force, stay.                           *)
RowStays(s) == (Managed(s)' <=> Managed(s)) /\ PoliciesOf(s)' = PoliciesOf(s) /\ policy'[s].at = policy[s].at

LEMMA StatusStays == ASSUME NEW s, StatusOnly(s) PROVE RowStays(s)
BY DEF StatusOnly, RowStays, Managed, PoliciesOf

LEMMA LetsSame ==
  ASSUME NEW s, NEW c, UNCHANGED files, proc'["geo"] = proc["geo"], Restoring(s)' <=> Restoring(s)
  PROVE  Lets(s, c)' <=> Lets(s, c)
BY DEF Lets, Served, LetIn

(* The files of s and what is known of them stay.                          *)
LEMMA FilesKept ==
  ASSUME UNCHANGED files, NEW s, FilesOk(s), Ruled(s)' = Ruled(s), ~Installing(s),
         Managed(s) => Managed(s)',
         Managed(s)' => Installing(s)' \/ (Managed(s) /\ PoliciesOf(s)' = PoliciesOf(s))
  PROVE  FilesOk(s)'
BY DEF FilesOk, RulesOk, KindOk, KnownOk

LEMMA FilesSame ==
  ASSUME UNCHANGED <<files, rules>>, NEW s, FilesOk(s), RowStays(s), proc'["http"] = proc["http"]
  PROVE  FilesOk(s)'
BY DEF FilesOk, RulesOk, KindOk, KnownOk, RowStays, Ruled, Ruling, Installing

LEMMA AwaitsSame ==
  ASSUME NEW s, NEW c, Managed(s)' <=> Managed(s), proc'["http"] = proc["http"]
  PROVE  Awaits(s, c)' <=> Awaits(s, c)
BY DEF Awaits

LEMMA LiveSame == ASSUME UNCHANGED accounts, NEW c PROVE Live(c)' <=> Live(c)
BY DEF Live, Enabled

(* No account goes and none is changed.                                    *)
AccountsStay == \A a \in Accounts : accounts[a] # Null => accounts'[a] = accounts[a]

LEMMA LiveStays == ASSUME AccountsStay, NEW c, c[1] \in Accounts, Live(c) PROVE Live(c)'
BY DEF AccountsStay, Live, Enabled

LEMMA LoginOf == ASSUME NEW c \in Accounts \X Passwords PROVE c[1] \in Accounts
OBVIOUS

(* What the requests know when others step.                                *)
LEMMA RevokeTxSame ==
  ASSUME AccessInv, proc["http"] # Null, RevokeTx(proc["http"]), proc'["http"] = proc["http"],
         UNCHANGED <<files, rules, accounts>>, \A s \in Sites : RowStays(s), \A s : Restoring(s) => Restoring(s)'
  PROVE  RevokeTx(proc["http"])'
<1>0. "http" \in Threads
  BY DEF Threads
<1>1. PICK r \in Work : r = proc["http"] /\ Shape("http", r)
  BY <1>0, Actor
<1>2. r.doing = "refresh" /\ r.pc = "lock" => r.site \in Sites
  BY <1>0, <1>1, SiteOf
<1>3. RevokeTx(r) /\ proc'["http"] = r
  BY <1>1
<1>4. AllLive(r.tx.slots[r.site].accounts) => AllLive(r.tx.slots[r.site].accounts)'
  BY LiveSame DEF AllLive, LetIn
<1>5. AllLive(files.slots[r.site].accounts) => AllLive(files.slots[r.site].accounts)'
  BY LiveSame DEF AllLive, LetIn
<1>6. RulesTx(r) => RulesTx(r)'
  BY LiveSame DEF RulesTx, Served, LetIn
<1>7. r.doing = "refresh" /\ r.pc = "lock" => policy'[r.site].at = r.v
  BY <1>2, <1>3 DEF RevokeTx, RowStays
<1>8. (\A s \in Sites : r.account \notin rules[s] /\ \A p \in PoliciesOf(s) : r.account \notin p.users)
        => (\A s \in Sites : r.account \notin rules'[s] /\ \A p \in PoliciesOf(s)' : r.account \notin p.users)
  BY DEF RowStays
<1>9. RevokeTx(r)'
  BY <1>3, <1>4, <1>5, <1>6, <1>7, <1>8 DEF RevokeTx
<1>10. QED
  BY <1>3, <1>9

(* A step that leaves the requests, the update and what they work on.      *)
LEMMA RevokeSame ==
  ASSUME AccessInv, RevokeInv, Grows, UNCHANGED <<files, policy, accounts, rules>>,
         proc'["http"] = proc["http"], proc'["geo"] = proc["geo"], \A s : Restoring(s)' <=> Restoring(s)
  PROVE  RevokeInv'
<1>1. \A s : RowStays(s)
  BY DEF RowStays, Managed, PoliciesOf
<1>2. ASSUME GoodR, NEW s \in Sites, RevokeAt(s) PROVE RevokeAt(s)'
  <2>1. LetOk(s)'
    BY <1>1, <1>2, LetsSame, LiveSame, AwaitsSame DEF RevokeAt, LetOk, RowStays
  <2>2. Restoring(s)' \/ FilesOk(s)'
    BY <1>1, <1>2, FilesSame DEF RevokeAt
  <2>3. QED
    BY <2>1, <2>2 DEF RevokeAt
<1>3. GoodR /\ proc'["http"] # Null => RevokeTx(proc["http"])'
  BY <1>1, RevokeTxSame DEF RevokeInv
<1>4. QED
  BY <1>2, <1>3, RevokeStep DEF RevokeInv

LEMMA RevokeStutter == ASSUME AccessInv, RevokeInv, UNCHANGED vars PROVE RevokeInv'
<1>1. UNCHANGED <<files, policy, accounts, rules, proc, spent>>
  BY DEF vars, tables
<1>2. QED
  BY <1>1, StillGrows, RevokeSame DEF Restoring, AccessInv

(* A step of a request that changes no account.                            *)
LEMMA RevokeTurn ==
  ASSUME AccessInv, RevokeInv, NEW q, Becomes("http", q), Grows, UNCHANGED files,
         proc["http"] = Null \/ proc["http"].op # "account", AccountsStay,
         GoodR /\ GoodR' => \A s \in Sites : FilesOk(s) => FilesOk(s)',
         GoodR /\ GoodR' /\ q # Null => RevokeTx(q)'
  PROVE  RevokeInv'
<1>1. proc'["http"] = q /\ proc'["geo"] = proc["geo"] /\ proc'["backup"] = proc["backup"]
  BY Turned DEF Threads, AccessInv
<1>2. \A s : Restoring(s)' <=> Restoring(s)
  BY <1>1 DEF Restoring
<1>3. ASSUME GoodR, GoodR', NEW s \in Sites, RevokeAt(s) PROVE RevokeAt(s)'
  <2>1. ASSUME NEW c \in Accounts \X Passwords, Lets(s, c)' PROVE Live(c)'
    <3>1. Lets(s, c) /\ ~Awaits(s, c)
      BY <1>1, <1>2, <2>1, LetsSame DEF Awaits
    <3>2. Live(c)
      BY <1>3, <3>1 DEF RevokeAt, LetOk
    <3>3. QED
      BY <3>2, LoginOf, LiveStays
  <2>2. QED
    BY <1>2, <1>3, <2>1 DEF RevokeAt, LetOk
<1>4. QED
  BY <1>1, <1>3, RevokeStep DEF RevokeInv

(* A step of the request that changes an account.                          *)
LEMMA AccountTurn ==
  ASSUME AccessInv, RevokeInv, NEW q, Becomes("http", q), Grows, UNCHANGED <<files, rules>>,
         proc["http"] # Null, proc["http"].op = "account", q # Null => q.op = "account",
         \A s \in Sites : RowStays(s),
         GoodR /\ GoodR' => \A s \in Sites : \A c \in Accounts \X Passwords :
           Lets(s, c) /\ (Live(c) \/ Awaits(s, c)) => Live(c)' \/ Awaits(s, c)',
         GoodR /\ GoodR' /\ q # Null => RevokeTx(q)'
  PROVE  RevokeInv'
<1>0. "http" \in Threads
  BY DEF Threads
<1>1. proc'["http"] = q /\ proc'["geo"] = proc["geo"] /\ proc'["backup"] = proc["backup"]
  BY Turned DEF Threads, AccessInv
<1>2. \A s : Restoring(s)' <=> Restoring(s)
  BY <1>1 DEF Restoring
<1>3. proc["http"].doing \notin {"apply", "proxy"}
  BY <1>0, Actor, ThreadOps
<1>4. ASSUME GoodR, GoodR', NEW s \in Sites, RevokeAt(s) PROVE RevokeAt(s)'
  <2>1. LetOk(s)'
    BY <1>1, <1>2, <1>4, LetsSame DEF RevokeAt, LetOk
  <2>2. ~Installing(s) /\ Ruled(s)' = Ruled(s)
    BY <1>1, <1>3 DEF Installing, Ruled, Ruling
  <2>3. FilesOk(s) => FilesOk(s)'
    BY <2>2, FilesKept DEF RowStays
  <2>4. QED
    BY <1>2, <1>4, <2>1, <2>3 DEF RevokeAt
<1>5. QED
  BY <1>1, <1>4, RevokeStep DEF RevokeInv

(* A step of the update.                                                   *)
LEMMA UpdateTurn ==
  ASSUME AccessInv, RevokeInv, NEW q, Becomes("geo", q), Grows, UNCHANGED <<files, rules, accounts>>,
         \A s \in Sites : RowStays(s),
         q # Null /\ q.doing = "refresh" /\ q.pc = "call" => AllLive(q.tx.slots[q.site].accounts)
  PROVE  RevokeInv'
<1>0. "geo" \in Threads
  BY DEF Threads
<1>1. proc'["geo"] = q /\ proc'["http"] = proc["http"] /\ proc'["backup"] = proc["backup"]
  BY <1>0, Turned DEF Threads, AccessInv
<1>2. \A s : Restoring(s)' <=> Restoring(s)
  BY <1>1 DEF Restoring
<1>3. ASSUME GoodR, NEW s \in Sites, RevokeAt(s) PROVE RevokeAt(s)'
  <2>1. ASSUME NEW c \in Accounts \X Passwords, Lets(s, c)' PROVE Live(c)' \/ Awaits(s, c)'
    <3>1. Lets(s, c) \/ Live(c)
      BY <1>1, <1>2, <2>1 DEF Lets, Served, LetIn, AllLive
    <3>2. QED
      BY <1>1, <1>3, <3>1, LiveSame, AwaitsSame DEF RevokeAt, LetOk, RowStays
  <2>2. Restoring(s)' \/ FilesOk(s)'
    BY <1>1, <1>2, <1>3, FilesSame DEF RevokeAt
  <2>3. QED
    BY <2>1, <2>2 DEF RevokeAt, LetOk
<1>4. GoodR /\ proc'["http"] # Null => RevokeTx(proc["http"])'
  BY <1>1, <1>2, RevokeTxSame DEF RevokeInv
<1>5. QED
  BY <1>3, <1>4, RevokeStep DEF RevokeInv

(* Where the update is about to write, or a policy is refreshed.           *)
LEMMA LetsByUpdate ==
  ASSUME AccessInv, NEW r, r = proc["geo"], r # Null, r.doing = "refresh", r.pc = "call"
  PROVE  /\ r.site \in Sites /\ Managed(r.site) /\ lock = "geo"
         /\ Fresh => policy[r.site].applied = r.p /\ r.p # Null
         /\ r.tx.slots[r.site] \in Slots /\ r.tx.slots[r.site].policy = r.p
<1>0. "geo" \in Threads
  BY DEF Threads
<1>1. r \in Work /\ Shape("geo", r) /\ (Fresh => Read(r)) /\ (lock = "geo" <=> Holding(r)) /\ r.tx \in Changes
  BY <1>0, Actor
<1>2. RefreshShape(r)
  BY <1>0, <1>1, ShapeBack
<1>3. WritesPolicy(r) /\ DOMAIN r.tx.slots = {r.site} /\ r.pc \in Answers
  BY <1>2 DEF RefreshShape, Writes, Answers
<1>4. r.tx.slots[r.site] \in Slots
  BY <1>1, <1>3 DEF Changes, Some
<1>5. Managed(r.site)
  BY <1>0, <1>3, UnderPolicy
<1>6. QED
  BY <1>1, <1>3, <1>4, <1>5, NullIsNone DEF Holding, Read, WritesPolicy

(* What a site without a policy lets in while an account is changed.       *)
LEMMA LetsByRule ==
  ASSUME AccessInv, RevokeInv, GoodR, proc["http"] # Null, proc["http"].op = "account",
         NEW s \in Sites, NEW c, Lets(s, c), ~Managed(s)
  PROVE  c[1] \in rules[s] /\ c \in Served(s) /\ ~Restoring(s)
<1>0. "http" \in Threads
  BY DEF Threads
<1>1. c \in Served(s) /\ ~Restoring(s)
  BY LetsByUpdate DEF Lets
<1>2. RulesOk(s) /\ KindOk(s)
  BY <1>1 DEF RevokeInv, RevokeAt, FilesOk
<1>3. ~Installing(s) /\ Ruled(s) = rules[s]
  BY <1>0, Actor, ThreadOps DEF Installing, Ruled, Ruling
<1>4. files.access[s].kind \in {"rules", "policy"}
  BY DEF AccessInv, AccessTyped, Files, Access
<1>5. files.access[s].kind = "rules"
  BY <1>2, <1>3, <1>4 DEF KindOk
<1>6. QED
  BY <1>1, <1>2, <1>3, <1>5 DEF RulesOk, Served

(* The account is rewritten; every policy and every rule that names it is  *)
(* refreshed next.                                                         *)
LEMMA AnewRevoked ==
  ASSUME AccessInv, RevokeInv, NEW r, r = proc["http"], AccountIs(r), NEW x \in Account,
         accounts' = [accounts EXCEPT ![r.account] = x], UNCHANGED <<policy, rules, files, spent>>,
         NEW q, GoesOn(q, r, "refresh", {s \in Sites : policy[s] # Null})
  PROVE  RevokeInv'
<1>1. Becomes("http", q) /\ q.op = "account" /\ proc["http"] # Null /\ proc["http"].op = "account"
  BY DEF GoesOn, AccountIs
<1>2. Grows /\ \A s \in Sites : RowStays(s)
  BY StillGrows, SameStatus, StatusStays DEF AccessInv
<1>3. proc'["http"] = q
  BY <1>1, Turned DEF Threads, AccessInv
<1>4. ASSUME NEW s \in Sites, NEW c \in Accounts \X Passwords, Live(c) \/ Awaits(s, c)
      PROVE  Live(c)' \/ Awaits(s, c)'
  <2>1. CASE c[1] = r.account
    BY <1>3, <2>1 DEF GoesOn, Awaits, Managed
  <2>2. CASE c[1] # r.account
    BY <1>4, <2>2, LoginOf DEF Awaits, Live, Enabled, AccessInv, AccessTyped
  <2>3. QED
    BY <2>1, <2>2
<1>5. RevokeTx(q)'
  BY DEF GoesOn, RevokeTx, RulesTx, Answers
<1>6. QED
  BY <1>1, <1>2, <1>4, <1>5, AccountTurn

LEMMA UndoneRevoked ==
  ASSUME AccessInv, RevokeInv, NEW r, r = proc["http"], AccountIs(r), Undone(r), Grows,
         UNCHANGED <<policy, rules, files>>
  PROVE  RevokeInv'
<1>1. r.row.old \in Account
  BY DEF AccountIs, Switch
<1>2. CASE "halfway" \in spent'.mishaps
  BY <1>2, NotGoodR, RevokeStep
<1>3. CASE "halfway" \notin spent'.mishaps
  BY <1>1, <1>3, AnewRevoked DEF Undone
<1>4. QED
  BY <1>2, <1>3

(* A step of the account's request that leaves the account.                *)
LEMMA AccountOn ==
  ASSUME AccessInv, RevokeInv, NEW r, r = proc["http"], AccountIs(r), UNCHANGED <<accounts, policy, rules, files, spent>>,
         NEW q, Becomes("http", q), q # Null => q.op = "account" /\ q.account = r.account,
         GoodR => \A s \in Sites : \A c \in Accounts \X Passwords : Lets(s, c) /\ Awaits(s, c) => Live(c) \/ Awaits(s, c)',
         GoodR /\ q # Null => RevokeTx(q)'
  PROVE  RevokeInv'
<1>1. Grows /\ \A s \in Sites : RowStays(s)
  BY StillGrows, SameStatus, StatusStays DEF AccessInv
<1>2. proc["http"] # Null /\ proc["http"].op = "account" /\ (q # Null => q.op = "account")
  BY DEF AccountIs
<1>3. QED
  BY <1>1, <1>2, LiveSame, AccountTurn

LEMMA WriteRevoked == ASSUME AccessInv, RevokeInv, WriteAccount PROVE RevokeInv'
<1>1. PICK r : r = proc["http"]
  OBVIOUS
<1>2. AccountIs(r) /\ r.row.new \in Account
  BY <1>1, WrittenOn DEF AccountIs, Switch
<1>3. QED
  BY <1>1, <1>2, WrittenOn, AnewRevoked

LEMMA PoliciesRevoked == ASSUME AccessInv, RevokeInv, PoliciesRefreshed PROVE RevokeInv'
<1>1. PICK r : r = proc["http"]
  OBVIOUS
<1>2. /\ AccountIs(r) /\ r.doing = "refresh" /\ r.pc = "next" /\ r.todo = {}
      /\ UNCHANGED <<policy, rules, proxies, geo, files, backups, editor, lock>>
  BY <1>1, PoliciesOn
<1>3. CASE r.errs /\ Undone(r)
  <2>1. Grows
    BY HandlerMoves DEF Handler
  <2>2. QED
    BY <1>1, <1>2, <1>3, <2>1, UndoneRevoked
<1>4. ASSUME ~r.errs, UNCHANGED <<accounts, spent>>,
             NEW q \in Work, GoesOn(q, r, "rules", {s \in Sites : r.account \in rules[s]})
      PROVE  RevokeInv'
  <2>1. proc'["http"] = q /\ Becomes("http", q)
    BY <1>4, Turned DEF GoesOn, Threads, AccessInv
  <2>2. ASSUME GoodR, NEW s \in Sites, NEW c \in Accounts \X Passwords, Lets(s, c), Awaits(s, c)
        PROVE  Awaits(s, c)'
    <3>1. ~Managed(s) /\ c[1] = r.account
      BY <1>1, <1>2, <1>4, <2>2 DEF Awaits
    <3>2. c[1] \in rules[s]
      BY <1>1, <1>2, <2>2, <3>1, LetsByRule DEF AccountIs
    <3>3. QED
      BY <1>2, <1>4, <2>1, <3>1, <3>2 DEF Awaits, GoesOn, Managed
  <2>3. RevokeTx(q)'
    BY <1>4 DEF GoesOn, RevokeTx, RulesTx, Answers
  <2>4. QED
    BY <1>1, <1>2, <1>4, <2>1, <2>2, <2>3, AccountOn DEF GoesOn
<1>5. QED
  BY <1>1, <1>3, <1>4, PoliciesOn

LEMMA RulesRevoked == ASSUME AccessInv, RevokeInv, NEW s \in Sites, RefreshRules(s) PROVE RevokeInv'
<1>1. PICK r : r = proc["http"]
  OBVIOUS
<1>2. /\ AccountIs(r) /\ r.doing = "rules" /\ r.pc = "next" /\ s \in r.todo
      /\ UNCHANGED <<policy, rules, proxies, geo, files, backups, editor, lock>>
  BY <1>1, RulesOn
<1>3. ASSUME Managed(s), UNCHANGED <<accounts, spent>>, NEW q \in Work, GoesOn(q, r, "rules", r.todo \ {s})
      PROVE  RevokeInv'
  <2>1. proc'["http"] = q /\ Becomes("http", q)
    BY <1>3, Turned DEF GoesOn, Threads, AccessInv
  <2>2. ASSUME NEW u \in Sites, NEW c \in Accounts \X Passwords, Awaits(u, c) PROVE Awaits(u, c)'
    BY <1>1, <1>2, <1>3, <2>1, <2>2 DEF Awaits, GoesOn, Managed
  <2>3. RevokeTx(q)'
    BY <1>3 DEF GoesOn, RevokeTx, RulesTx, Answers
  <2>4. QED
    BY <1>1, <1>2, <1>3, <2>1, <2>2, <2>3, AccountOn DEF GoesOn
<1>4. CASE ~Managed(s) /\ Undone(r)
  <2>1. Grows
    BY HandlerMoves DEF Handler
  <2>2. QED
    BY <1>1, <1>2, <1>4, <2>1, UndoneRevoked
<1>5. ASSUME UNCHANGED <<accounts, spent>>, NEW q \in Work, RulesCall(q, r, s) PROVE RevokeInv'
  <2>1. proc'["http"] = q /\ Becomes("http", q)
    BY <1>5, Turned DEF RulesCall, Threads, AccessInv
  <2>2. ASSUME NEW u \in Sites, NEW c \in Accounts \X Passwords, Awaits(u, c) PROVE Awaits(u, c)'
    BY <1>1, <1>2, <1>5, <2>1, <2>2 DEF Awaits, RulesCall, Managed
  <2>3. \A c \in Admitted(rules[s]) : Live(c) /\ c[1] \in rules[s]
    BY AdmittedTyped DEF AccessInv, AccessTyped, Live
  <2>4. RulesTx(q)'
    BY <1>2, <1>5, <2>3, LiveSame DEF RulesCall, RulesTx
  <2>5. RevokeTx(q)'
    BY <1>5, <2>4 DEF RulesCall, RevokeTx
  <2>6. QED
    BY <1>1, <1>2, <1>5, <2>1, <2>2, <2>5, AccountOn DEF RulesCall
<1>6. QED
  BY <1>1, <1>3, <1>4, <1>5, RulesOn

LEMMA RulesEndRevoked == ASSUME AccessInv, RevokeInv, RulesRefreshed PROVE RevokeInv'
<1>0. "http" \in Threads
  BY DEF Threads
<1>1. PICK r : r = proc["http"]
  OBVIOUS
<1>2. /\ AccountIs(r) /\ r.doing = "rules"
      /\ UNCHANGED <<policy, rules, proxies, geo, files, backups, editor, lock>>
  BY <1>1, RulesAnswered
<1>3. ASSUME r.pc = "done", r.site \in Sites, UNCHANGED <<accounts, spent>>,
             NEW q \in Work, GoesOn(q, r, "rules", r.todo \ {r.site})
      PROVE  RevokeInv'
  <2>1. proc'["http"] = q /\ Becomes("http", q)
    BY <1>3, Turned DEF GoesOn, Threads, AccessInv
  <2>2. ASSUME GoodR, NEW u \in Sites, NEW c \in Accounts \X Passwords, Lets(u, c), Awaits(u, c)
        PROVE  Live(c) \/ Awaits(u, c)'
    <3>1. CASE u # r.site
      BY <1>1, <1>2, <1>3, <2>1, <2>2, <3>1 DEF Awaits, GoesOn, Managed
    <3>2. CASE u = r.site
      <4>1. ~Managed(u)
        BY <1>1, <1>2, <2>2 DEF Awaits
      <4>2. c \in Served(u) /\ ~Restoring(u)
        BY <1>1, <1>2, <2>2, <4>1, LetsByRule DEF AccountIs
      <4>3. RulesTx(r)
        BY <1>1, <1>2, <2>2 DEF RevokeInv, RevokeTx, AccountIs
      <4>4. QED
        BY <1>2, <1>3, <3>2, <4>2, <4>3 DEF RulesTx, Answers, AccountIs
    <3>3. QED
      BY <3>1, <3>2
  <2>3. RevokeTx(q)'
    BY <1>3 DEF GoesOn, RevokeTx, RulesTx, Answers
  <2>4. QED
    BY <1>1, <1>2, <1>3, <2>1, <2>2, <2>3, AccountOn DEF GoesOn
<1>4. CASE r.pc = "failed" /\ Undone(r)
  <2>1. Grows
    BY HandlerMoves DEF Handler
  <2>2. QED
    BY <1>1, <1>2, <1>4, <2>1, UndoneRevoked
<1>5. CASE r.pc = "next" /\ r.todo = {} /\ Ends("http") /\ UNCHANGED <<accounts, spent>>
  <2>1. \A u \in Sites : \A c \in Accounts \X Passwords : ~Awaits(u, c)
    BY <1>1, <1>2, <1>5 DEF Awaits
  <2>2. QED
    BY <1>1, <1>2, <1>5, <2>1, AccountOn DEF Ends
<1>6. QED
  BY <1>1, <1>3, <1>4, <1>5, RulesAnswered

(* No site lets in an account that no rule and no policy names.            *)
LEMMA Unnamed ==
  ASSUME AccessInv, RevokeInv, GoodR, NEW r, r = proc["http"], r # Null, r.doing = "delete",
         NEW s \in Sites, NEW c, Lets(s, c)
  PROVE  c[1] # r.account
<1>0. "http" \in Threads
  BY DEF Threads
<1>1. r.op = "account"
  BY <1>0, Actor, ThreadOps
<1>2. r.account \notin rules[s] /\ \A p \in PoliciesOf(s) : r.account \notin p.users
  BY DEF RevokeInv, RevokeTx
<1>3. CASE ~Managed(s)
  BY <1>1, <1>2, <1>3, LetsByRule
<1>4. ASSUME Managed(s), NEW x \in Slots, c \in LetIn(x.accounts), NEW p \in PoliciesOf(s), p.users = x.policy.users
      PROVE  c[1] # r.account
  BY <1>2, <1>4 DEF LetIn, Slots
<1>5. ASSUME Managed(s), c \in Served(s), ~Restoring(s) PROVE c[1] # r.account
  <2>1. FilesOk(s) /\ ~Installing(s) /\ Ruled(s) = rules[s]
    BY <1>1, <1>5 DEF RevokeInv, RevokeAt, Installing, Ruled, Ruling
  <2>2. files.slots[s] \in Slots
    BY DEF AccessInv, AccessTyped, Files
  <2>3. CASE files.access[s].kind = "policy"
    BY <1>4, <1>5, <2>1, <2>2, <2>3 DEF FilesOk, KnownOk, Served
  <2>4. CASE files.access[s].kind # "policy"
    <3>1. files.access[s].kind = "rules"
      BY <2>4 DEF AccessInv, AccessTyped, Files, Access
    <3>2. QED
      BY <1>2, <1>5, <2>1, <3>1 DEF FilesOk, RulesOk, Served
  <2>5. QED
    BY <2>3, <2>4
<1>6. ASSUME Managed(s), proc["geo"] # Null, proc["geo"].doing = "refresh", proc["geo"].pc = "call",
             proc["geo"].site = s, c \in LetIn(proc["geo"].tx.slots[s].accounts)
      PROVE  c[1] # r.account
  <2>1. /\ proc["geo"].tx.slots[s] \in Slots /\ proc["geo"].tx.slots[s].policy = proc["geo"].p
        /\ policy[s].applied = proc["geo"].p /\ proc["geo"].p # Null
    BY <1>6, LetsByUpdate, GoodRGood
  <2>2. proc["geo"].p \in PoliciesOf(s)
    BY <1>6, <2>1 DEF PoliciesOf, Managed
  <2>3. QED
    BY <1>4, <1>6, <2>1, <2>2
<1>7. QED
  BY <1>3, <1>5, <1>6 DEF Lets

LEMMA DeletedRevoked == ASSUME AccessInv, RevokeInv, AccountDeleted PROVE RevokeInv'
<1>0. "http" \in Threads
  BY DEF Threads
<1>1. PICK r \in Work : r = proc["http"] /\ r # Null /\ r.doing = "delete" /\ r.op = "account"
  BY <1>0, Actor, ThreadOps DEF AccountDeleted, At
<1>2. /\ accounts' = [accounts EXCEPT ![r.account] = Null] /\ Becomes("http", Null)
      /\ UNCHANGED <<policy, rules, proxies, geo, files, backups, editor, lock, spent>>
  BY <1>1 DEF AccountDeleted, Ends
<1>3. Grows /\ \A s \in Sites : RowStays(s)
  BY <1>2, StillGrows, SameStatus, StatusStays DEF AccessInv
<1>4. ASSUME GoodR, NEW s \in Sites, NEW c \in Accounts \X Passwords, Lets(s, c), Live(c) \/ Awaits(s, c)
      PROVE  Live(c)'
  <2>1. c[1] # r.account /\ ~Awaits(s, c)
    BY <1>1, <1>4, Unnamed DEF Awaits
  <2>2. accounts'[c[1]] = accounts[c[1]]
    BY <1>2, <2>1, LoginOf DEF AccessInv, AccessTyped
  <2>3. QED
    BY <1>4, <2>1, <2>2 DEF Live, Enabled
<1>5. QED
  BY <1>1, <1>2, <1>3, <1>4, AccountTurn

(* A policy is rendered with the accounts as they are.                     *)
LEMMA SnapshotLive ==
  ASSUME AccessTyped, NEW p \in Policy, Renderable(p)
  PROVE  AllLive(Snapshot(p).accounts)
<1>1. Snapshot(p).accounts = [a \in p.users |-> accounts[a]]
  BY SnapshotTyped
<1>2. QED
  BY <1>1 DEF AllLive, LetIn, Live, Enabled, Renderable

LEMMA RenderedLive ==
  ASSUME AccessTyped, NEW s \in Sites, NEW p \in Policy, Renderable(p)
  PROVE  AllLive(PolicyFiles(s, p).slots[s].accounts)
<1>1. PolicyFiles(s, p).slots[s] = Snapshot(p)
  BY PolicyFilesTyped
<1>2. QED
  BY <1>1, SnapshotLive

LEMMA AllLiveStays == ASSUME UNCHANGED accounts, NEW q, NEW s, AllLive(q.tx.slots[s].accounts)
                      PROVE  AllLive(q.tx.slots[s].accounts)'
BY LiveSame DEF AllLive, LetIn

(* The refresh of an account's request: its account is still awaited.      *)
LEMMA RefreshTurn ==
  ASSUME AccessInv, RevokeInv, NEW r \in Work, r = proc["http"], r # Null, r.doing = "refresh",
         NEW q, NEW pc, NEW todo, NEW bad \in BOOLEAN, Refreshes("http", q, r, pc, todo, bad),
         UNCHANGED <<accounts, rules, files, spent>>, \A s \in Sites : RowStays(s),
         GoodR => \A s \in Sites : \A c \in Accounts \X Passwords :
           Lets(s, c) /\ s \in r.todo /\ Managed(s) => bad \/ s \in todo \/ Live(c),
         GoodR => RevokeTx(q)'
  PROVE  RevokeInv'
<1>0. "http" \in Threads
  BY DEF Threads
<1>1. r.op = "account" /\ Becomes("http", q) /\ q # Null /\ q.op = "account"
  BY <1>0, Actor, ThreadOps DEF Refreshes, Threads
<1>2. proc'["http"] = q
  BY <1>0, <1>1, Turned DEF AccessInv
<1>3. ASSUME GoodR, NEW s \in Sites, NEW c \in Accounts \X Passwords, Lets(s, c), Live(c) \/ Awaits(s, c)
      PROVE  Live(c)' \/ Awaits(s, c)'
  <2>1. CASE Live(c)
    BY <2>1, LiveSame
  <2>2. CASE Awaits(s, c)
    <3>1. c[1] = q.account /\ (r.errs \/ s \in r.todo \/ ~Managed(s))
      BY <2>2 DEF Awaits, Refreshes
    <3>2. q.errs \/ s \in q.todo \/ ~Managed(s) \/ Live(c)
      BY <1>3, <3>1 DEF Refreshes
    <3>3. (Managed(s)' <=> Managed(s)) /\ (Live(c)' <=> Live(c)) /\ q.doing = "refresh"
      BY LiveSame DEF RowStays, Refreshes
    <3>4. QED
      BY <1>1, <1>2, <3>1, <3>2, <3>3 DEF Awaits
  <2>3. QED
    BY <1>3, <2>1, <2>2
<1>4. QED
  BY <1>1, <1>3, StillGrows, AccountTurn DEF AccessInv

LEMMA ReadRevoked ==
  ASSUME AccessInv, RevokeInv, NEW s \in Sites, RefreshRead("http", s)
  PROVE  RevokeInv'
<1>0. "http" \in Threads
  BY DEF Threads
<1>1. PICK t \in Threads : t = "http"
  BY <1>0
<1>2. RefreshRead(t, s)
  BY <1>1
<1>3. UNCHANGED <<tables, files, backups, editor, lock, spent>>
  BY <1>2, ReadFacts
<1>4. UNCHANGED <<policy, accounts, rules, files, spent>> /\ \A u \in Sites : RowStays(u)
  BY <1>3, SameStatus, StatusStays DEF tables
<1>5. PICK r \in Work, q \in Work :
        /\ Refresher(t, r, {"next"}) /\ s \in r.todo
        /\ \/ /\ Managed(s) /\ Renderable(policy[s].applied) /\ Refreshes(t, q, r, "lock", r.todo, FALSE)
              /\ q.site = s /\ q.p = policy[s].applied /\ q.v = policy[s].at
           \/ /\ ~(Managed(s) /\ Renderable(policy[s].applied))
              /\ Refreshes(t, q, r, "next", r.todo \ {s}, Managed(s))
  BY <1>2, ReadFacts
<1>6. r = proc["http"] /\ r # Null /\ r.doing = "refresh"
  BY <1>1, <1>5 DEF Refresher
<1>7. CASE Refreshes(t, q, r, "lock", r.todo, FALSE) /\ q.site = s /\ q.v = policy[s].at
  <2>1. RevokeTx(q)'
    BY <1>4, <1>7 DEF Refreshes, RevokeTx, RulesTx
  <2>2. QED
    BY <1>1, <1>4, <1>6, <1>7, <2>1, RefreshTurn
<1>8. CASE Refreshes(t, q, r, "next", r.todo \ {s}, Managed(s))
  <2>1. RevokeTx(q)'
    BY <1>8 DEF Refreshes, RevokeTx, RulesTx
  <2>2. PICK b \in BOOLEAN : b = Managed(s)
    BY DEF Managed
  <2>3. Refreshes("http", q, r, "next", r.todo \ {s}, b)
    BY <1>1, <1>8, <2>2
  <2>4. \A u \in Sites : u \in r.todo /\ Managed(u) => b \/ u \in r.todo \ {s}
    BY <2>2
  <2>5. QED
    BY <1>4, <1>6, <2>1, <2>3, <2>4, RefreshTurn
<1>9. QED
  BY <1>5, <1>7, <1>8

LEMMA LockRevoked == ASSUME AccessInv, RevokeInv, RefreshLock("http") PROVE RevokeInv'
<1>1. PICK t \in Threads : t = "http"
  BY DEF Threads
<1>2. RefreshLock(t)
  BY <1>1
<1>3. UNCHANGED <<accounts, rules, proxies, geo, files, backups, editor, spent>> /\ lock = Null
  BY <1>2, LockFacts
<1>4. PICK r \in Work, q \in Work :
        /\ Refresher(t, r, {"lock"}) /\ r.site \in Sites /\ r.site \in r.todo /\ r.p \in Policy /\ r.v > 0
        /\ \/ /\ ~StillApplied(r.site, r.v) /\ UNCHANGED policy
              /\ Refreshes(t, q, r, "next", r.todo \ {r.site}, FALSE)
           \/ /\ StillApplied(r.site, r.v) /\ MarkError(r.site, r.v)
              /\ Refreshes(t, q, r, "next", r.todo \ {r.site}, TRUE)
           \/ /\ StillApplied(r.site, r.v) /\ Renderable(r.p) /\ UNCHANGED policy
              /\ Refreshes(t, q, r, "call", r.todo, FALSE)
              /\ q.site = r.site /\ q.p = r.p /\ q.v = r.v /\ q.tx = PolicyFiles(r.site, r.p)
  BY <1>2, LockFacts
<1>5. r = proc["http"] /\ r # Null /\ r.doing = "refresh" /\ r.pc = "lock" /\ (Fresh => Read(r))
  BY <1>1, <1>4 DEF Refresher
<1>6. GoodR => StillApplied(r.site, r.v)
  BY <1>5, GoodRGood DEF Read, RevokeInv, RevokeTx, StillApplied
<1>7. CASE ~StillApplied(r.site, r.v) /\ UNCHANGED policy /\ Refreshes(t, q, r, "next", r.todo \ {r.site}, FALSE)
  <2>1. Grows /\ ~GoodR
    BY <1>3, <1>6, <1>7, StillGrows DEF AccessInv
  <2>2. QED
    BY <2>1, RevokeStep
<1>8. CASE MarkError(r.site, r.v) /\ Refreshes(t, q, r, "next", r.todo \ {r.site}, TRUE)
  <2>1. RevokeTx(q)'
    BY <1>8 DEF Refreshes, RevokeTx, RulesTx
  <2>2. \A u \in Sites : RowStays(u)
    BY <1>4, <1>8, ErrorStatus, StatusStays DEF AccessInv
  <2>3. QED
    BY <1>1, <1>3, <1>5, <1>8, <2>1, <2>2, RefreshTurn
<1>9. CASE /\ Renderable(r.p) /\ UNCHANGED policy
           /\ Refreshes(t, q, r, "call", r.todo, FALSE)
           /\ q.site = r.site /\ q.p = r.p /\ q.v = r.v /\ q.tx = PolicyFiles(r.site, r.p)
  <2>1. AllLive(q.tx.slots[q.site].accounts)
    BY <1>4, <1>9, RenderedLive DEF AccessInv
  <2>2. AllLive(q.tx.slots[q.site].accounts)'
    BY <1>3, <2>1, AllLiveStays
  <2>3. RevokeTx(q)'
    BY <1>9, <2>2 DEF Refreshes, RevokeTx, RulesTx
  <2>4. \A u \in Sites : RowStays(u)
    BY <1>9, SameStatus, StatusStays
  <2>5. QED
    BY <1>1, <1>3, <1>5, <1>9, <2>3, <2>4, RefreshTurn
<1>10. QED
  BY <1>4, <1>7, <1>8, <1>9

LEMMA MarkRevoked == ASSUME AccessInv, ServedInv, RevokeInv, RefreshMark("http") PROVE RevokeInv'
<1>1. PICK t \in Threads : t = "http"
  BY DEF Threads
<1>2. RefreshMark(t)
  BY <1>1
<1>3. UNCHANGED <<accounts, rules, proxies, geo, files, backups, editor, spent>> /\ lock = "http"
  BY <1>1, <1>2, MarkFacts
<1>4. PICK r \in Work, q \in Work :
        /\ Refresher(t, r, {"done", "failed"}) /\ r.site \in Sites /\ r.site \in r.todo /\ r.p # Null
        /\ policy[r.site] # Null /\ policy[r.site].at = r.v /\ r.v > 0 /\ r.v \in Nat
        /\ Refreshes(t, q, r, "next", r.todo \ {r.site}, r.pc = "failed")
        /\ \/ r.pc = "done" /\ MarkApplied(r.site, r.v)
           \/ r.pc = "failed" /\ MarkError(r.site, r.v)
  BY <1>2, MarkFacts
<1>5. r = proc["http"] /\ r # Null /\ r.doing = "refresh" /\ (Fresh => Read(r))
  BY <1>1, <1>4 DEF Refresher
<1>6. RevokeTx(q)'
  BY <1>4 DEF Refreshes, RevokeTx, RulesTx
<1>7. CASE r.pc = "failed" /\ MarkError(r.site, r.v)
  <2>1. Refreshes("http", q, r, "next", r.todo \ {r.site}, TRUE)
    BY <1>1, <1>4, <1>7
  <2>2. \A u \in Sites : RowStays(u)
    BY <1>4, <1>7, ErrorStatus, StatusStays DEF AccessInv
  <2>3. QED
    BY <1>3, <1>5, <1>6, <2>1, <2>2, RefreshTurn
<1>8. ASSUME r.pc = "done", MarkApplied(r.site, r.v), GoodR PROVE RevokeInv'
  <2>1. Refreshes("http", q, r, "next", r.todo \ {r.site}, FALSE)
    BY <1>1, <1>4, <1>8
  <2>2. Written(r) /\ policy[r.site].applied = r.p
    BY <1>1, <1>5, <1>8, GoodRGood DEF ServedInv, Read, Answers
  <2>3. files.access[r.site].policy = policy[r.site].applied /\ files.access[r.site].kind = "policy"
    BY <1>4, <1>5, <1>8, <2>2 DEF Written
  <2>4. \A u \in Sites : RowStays(u)
    BY <1>4, <1>8, <2>3, RefreshedStatus, StatusStays DEF AccessInv
  <2>5. AllLive(files.slots[r.site].accounts)
    BY <1>5, <1>8 DEF RevokeInv, RevokeTx
  <2>6. ASSUME NEW c, Lets(r.site, c) PROVE Live(c)
    <3>1. c \in Served(r.site)
      BY <1>3, <2>6, LetsByUpdate DEF Lets
    <3>2. QED
      BY <2>3, <2>5, <3>1 DEF Served, AllLive
  <2>7. \A u \in Sites : \A c \in Accounts \X Passwords :
          Lets(u, c) /\ u \in r.todo /\ Managed(u) => FALSE \/ u \in r.todo \ {r.site} \/ Live(c)
    BY <2>6
  <2>8. QED
    BY <1>3, <1>5, <1>6, <2>1, <2>4, <2>7, RefreshTurn
<1>9. CASE r.pc = "done" /\ MarkApplied(r.site, r.v) /\ ~GoodR
  <2>1. Grows
    BY <1>3, StillGrows DEF AccessInv
  <2>2. QED
    BY <1>9, <2>1, RevokeStep
<1>10. QED
  BY <1>4, <1>7, <1>8, <1>9

(* A request begins.                                                       *)
LEMMA RequestTurn ==
  ASSUME AccessInv, AccessInv', RevokeInv, proc["http"] = Null, NEW q, Becomes("http", q), Grows,
         UNCHANGED <<files, rules>>, AccountsStay,
         q # Null => q.doing # "rules",
         \A s \in Sites : RowStays(s) \/ ((Managed(s) => Managed(s)') /\ Installing(s)'),
         GoodR /\ q # Null => RevokeTx(q)'
  PROVE  RevokeInv'
<1>0. "http" \in Threads
  BY DEF Threads
<1>1. proc'["http"] = q
  BY <1>0, Turned DEF AccessInv
<1>2. q # Null => Shape("http", q)
  BY <1>0, <1>1 DEF AccessInv, Shaped
<1>3. q # Null => q.op # "rule"
  BY <1>0, <1>2, ThreadOps
<1>4. ASSUME NEW s \in Sites, FilesOk(s) PROVE FilesOk(s)'
  <2>1. ~Installing(s) /\ Ruled(s)' = Ruled(s)
    BY <1>1, <1>3 DEF Installing, Ruled, Ruling
  <2>2. QED
    BY <1>4, <2>1, FilesKept DEF RowStays
<1>5. QED
  BY <1>4, RevokeTurn

(* A request begins or is over, and policies are as they were.             *)
LEMMA PlainRequest ==
  ASSUME AccessInv, AccessInv', RevokeInv, proc["http"] = Null, NEW q, Becomes("http", q), Grows,
         UNCHANGED <<files, rules>>, AccountsStay, \A s \in Sites : RowStays(s),
         q # Null => q.doing \in {"write", "delete", "proxy"},
         q # Null /\ q.doing = "proxy" => q.p = Null,
         q # Null /\ q.doing = "delete" =>
           \A s \in Sites : q.account \notin rules[s] /\ \A p \in PoliciesOf(s) : q.account \notin p.users
  PROVE  RevokeInv'
<1>1. q # Null => RevokeTx(q)'
  BY DEF RevokeTx, RulesTx, RowStays
<1>2. QED
  BY <1>1, RequestTurn

LEMMA ApplyRevoked ==
  ASSUME AccessInv, AccessInv', RevokeInv, proc["http"] = Null, Grows, UNCHANGED <<files, rules, accounts>>,
         NEW s \in Sites, NEW p \in Policy, Renderable(p), NEW q, Applying(q, s, p),
         \A u \in Sites \ {s} : policy'[u] = policy[u], Managed(s) => Managed(s)'
  PROVE  RevokeInv'
<1>1. proc'["http"] = q
  BY Turned DEF Applying, Threads, AccessInv
<1>2. Installing(s)'
  BY <1>1, NullIsNone DEF Applying, Installing
<1>3. \A u \in Sites \ {s} : RowStays(u)
  BY DEF RowStays, Managed, PoliciesOf
<1>4. AllLive(q.tx.slots[q.site].accounts)
  BY RenderedLive DEF AccessInv, Applying
<1>5. AllLive(q.tx.slots[q.site].accounts)'
  BY <1>4, AllLiveStays
<1>6. RevokeTx(q)'
  BY <1>5 DEF Applying, RevokeTx, RulesTx
<1>7. QED
  BY <1>2, <1>3, <1>6, RequestTurn DEF Applying, AccountsStay

LEMMA SaveRevoked ==
  ASSUME AccessInv, AccessInv', RevokeInv, NEW users \in SUBSET Accounts, NEW link \in Paths \cup {Null}, Save(users, link)
  PROVE  RevokeInv'
<1>1. /\ proc["http"] = Null /\ Grows /\ UNCHANGED <<accounts, rules, proxies, geo, files, backups>>
  BY SaveFacts
<1>2. PICK s \in Sites, p \in Policy :
        /\ policy' = [policy EXCEPT ![s] = Desired(s, p, FALSE)] /\ Renderable(p)
        /\ \E q \in Work : Applying(q, s, p)
  BY SaveFacts
<1>3. policy'[s] = Desired(s, p, FALSE) /\ \A u \in Sites \ {s} : policy'[u] = policy[u]
  BY <1>2 DEF AccessInv, AccessTyped
<1>4. Managed(s) => Managed(s)'
  <2>0. PICK f \in BOOLEAN : f = FALSE
    OBVIOUS
  <2>1. PICK new : new = Desired(s, p, f)
    OBVIOUS
  <2>2. new # Null /\ (policy[s] # Null => new.mode = policy[s].mode)
    BY <2>1, DesiredRow DEF AccessInv
  <2>3. QED
    BY <1>3, <2>0, <2>1, <2>2 DEF Managed
<1>5. QED
  BY <1>1, <1>2, <1>3, <1>4, ApplyRevoked

(* Nothing is begun.                                                       *)
LEMMA NothingBegun ==
  ASSUME AccessTyped, UNCHANGED proc, proc["http"] = Null
  PROVE  Becomes("http", Null)
BY DEF AccessTyped, Becomes, Threads

LEMMA SyncRevoked == ASSUME AccessInv, AccessInv', RevokeInv, NEW s \in Sites, Sync(s) PROVE RevokeInv'
<1>1. /\ Grows /\ proc["http"] = Null /\ UNCHANGED <<accounts, rules, proxies, geo, files, backups, editor>>
      /\ \/ UNCHANGED proc /\ \E v : MarkError(s, v)
         \/ /\ UNCHANGED policy
            /\ \E p \in Policy : Renderable(p) /\ \E q \in Work : Applying(q, s, p)
  BY SyncFacts
<1>2. CASE UNCHANGED proc /\ \E v : MarkError(s, v)
  <2>1. \A u \in Sites : RowStays(u)
    BY <1>2, ErrorStatus, StatusStays DEF AccessInv
  <2>2. QED
    BY <1>1, <1>2, <2>1, NothingBegun, PlainRequest DEF AccessInv, AccountsStay
<1>3. CASE UNCHANGED policy /\ \E p \in Policy : Renderable(p) /\ \E q \in Work : Applying(q, s, p)
  BY <1>1, <1>3, ApplyRevoked DEF Managed
<1>4. QED
  BY <1>1, <1>2, <1>3

LEMMA ProxyRequestRevoked ==
  ASSUME AccessInv, AccessInv', RevokeInv, NEW s \in Sites, SyncProxy(s) \/ \E new \in Proxy \cup {Null} : WriteProxy(s, new)
  PROVE  RevokeInv'
<1>1. /\ proc["http"] = Null /\ Grows
      /\ UNCHANGED <<policy, accounts, rules, geo, files, backups, editor>>
      /\ \E q \in Work : q.doing = "proxy" /\ q.p = Null /\ Becomes("http", q)
  BY ProxyFacts
<1>2. \A u \in Sites : RowStays(u)
  BY <1>1, SameStatus, StatusStays
<1>3. QED
  BY <1>1, <1>2, PlainRequest DEF AccountsStay

LEMMA AccountRequestsRevoked ==
  ASSUME AccessInv, AccessInv', RevokeInv, NEW a \in Accounts, DeleteAccount(a) \/ \E new \in Account : UpdateAccount(a, new)
  PROVE  RevokeInv'
<1>0. AccessTyped
  BY DEF AccessInv
<1>1. /\ Grows /\ proc["http"] = Null /\ UNCHANGED <<policy, accounts, rules, files>>
  BY <1>0, BeginGrows DEF DeleteAccount, UpdateAccount, Serve, Begin, Threads, tables
<1>2. PICK q : Becomes("http", q) /\ q.doing \in {"write", "delete"} /\
                 (q.doing = "delete" => q.account = a /\ DeleteAccount(a))
  <2>1. CASE DeleteAccount(a)
    <3>1. PICK q : q = [Idle EXCEPT !.op = "account", !.doing = "delete", !.account = a]
      OBVIOUS
    <3>2. q.doing = "delete" /\ q.account = a
      BY <3>1, IdleTyped DEF Work
    <3>3. QED
      BY <2>1, <3>1, <3>2 DEF DeleteAccount
  <2>2. CASE \E new \in Account : UpdateAccount(a, new)
    <3>1. PICK new \in Account : UpdateAccount(a, new)
      BY <2>2
    <3>2. PICK q : q = [Idle EXCEPT !.op = "account", !.doing = "write", !.account = a,
                         !.row = [old |-> accounts[a], new |-> new]]
      OBVIOUS
    <3>3. q.doing = "write"
      BY <3>2, IdleTyped DEF Work
    <3>4. QED
      BY <3>1, <3>2, <3>3 DEF UpdateAccount
  <2>3. QED
    BY <2>1, <2>2
<1>3. q.doing = "delete" =>
        \A s \in Sites : q.account \notin rules[s] /\ \A p \in PoliciesOf(s) : q.account \notin p.users
  BY <1>2 DEF DeleteAccount, PoliciesAllow
<1>4. \A u \in Sites : RowStays(u)
  BY <1>1, SameStatus, StatusStays
<1>5. QED
  BY <1>1, <1>2, <1>3, <1>4, PlainRequest DEF AccountsStay

LEMMA RuleRevoked ==
  ASSUME AccessInv, RevokeInv, NEW s \in Sites, NEW users \in SUBSET Accounts, StartRule(s, users)
  PROVE  RevokeInv'
<1>1. /\ proc["http"] = Null /\ Grows /\ rules' = [rules EXCEPT ![s] = users]
      /\ UNCHANGED <<policy, accounts, proxies, geo, files, backups, editor, lock>>
      /\ \E q \in Work : Becomes("http", q) /\ RuleOf(q, s, users)
  BY RuleStarts
<1>2. PICK q \in Work : Becomes("http", q) /\ RuleOf(q, s, users)
  BY <1>1
<1>3. proc'["http"] = q
  BY <1>2, Turned DEF Threads, AccessInv
<1>4. rules'[s] = users /\ \A u \in Sites \ {s} : rules'[u] = rules[u]
  BY <1>1 DEF AccessInv, AccessTyped
<1>5. ASSUME NEW u \in Sites, FilesOk(u) PROVE FilesOk(u)'
  <2>1. ~Installing(u) /\ Ruled(u) = rules[u]
    BY <1>1 DEF Installing, Ruled, Ruling
  <2>2. Ruled(u)' = rules[u]
    BY <1>2, <1>3, <1>4 DEF Ruled, Ruling, RuleOf
  <2>3. RowStays(u)
    BY <1>1, SameStatus, StatusStays
  <2>4. QED
    BY <1>1, <1>5, <2>1, <2>2, <2>3, FilesKept DEF RowStays
<1>6. \A c \in Admitted(users) : Live(c) /\ c[1] \in users
  BY AdmittedTyped DEF AccessInv, Live
<1>7. RulesTx(q)'
  BY <1>1, <1>2, <1>4, <1>6, LiveSame DEF RuleOf, RulesTx
<1>8. RevokeTx(q)'
  BY <1>2, <1>7 DEF RuleOf, RevokeTx
<1>9. QED
  BY <1>1, <1>2, <1>5, <1>8, RevokeTurn DEF AccountsStay

LEMMA RequestRevoked == ASSUME AccessInv, AccessInv', RevokeInv, Request PROVE RevokeInv'
<1>0. AccessTyped
  BY DEF AccessInv
<1>1. ASSUME NEW users \in SUBSET Accounts, NEW link \in Paths \cup {Null}, Save(users, link) PROVE RevokeInv'
  BY <1>1, SaveRevoked
<1>2. ASSUME NEW s \in Sites, Sync(s) PROVE RevokeInv'
  BY <1>2, SyncRevoked
<1>3. ASSUME NEW s \in Sites,
             \/ SyncProxy(s) \/ DeleteProxy(s)
             \/ \E new \in Proxy : CreateProxy(s, new) \/ UpdateProxy(s, new)
      PROVE  RevokeInv'
  BY <1>3, ProxyRequestRevoked DEF DeleteProxy, CreateProxy, UpdateProxy
<1>4. ASSUME NEW s \in Sites,
             \/ DeleteAuthRule(s) \/ EditDenyRules(s) \/ EditIPLimitRules(s)
             \/ \E users \in SUBSET Accounts : CreateAuthRule(s, users) \/ UpdateAuthRule(s, users)
      PROVE  RevokeInv'
  BY <1>0, <1>4, RuleRevoked DEF AccessTyped, DeleteAuthRule, EditDenyRules, EditIPLimitRules,
     CreateAuthRule, UpdateAuthRule
<1>5. ASSUME NEW a \in Accounts, DeleteAccount(a) \/ \E new \in Account : UpdateAccount(a, new) PROVE RevokeInv'
  BY <1>5, AccountRequestsRevoked
<1>6. ASSUME NEW s \in Sites, OpenEditor(s) PROVE RevokeInv'
  BY <1>0, <1>6, StillGrows, RevokeSame DEF OpenEditor, tables, Restoring
<1>7. ASSUME NEW a \in Accounts, NEW pw \in Passwords, CreateAccount(a, pw) PROVE RevokeInv'
  <2>1. Grows /\ proc["http"] = Null /\ UNCHANGED <<policy, rules, files, proc>>
    BY <1>0, <1>7, BeginGrows DEF CreateAccount, Serve, Begin, Threads
  <2>2. AccountsStay /\ \A u \in Sites : RowStays(u)
    BY <1>0, <1>7, <2>1, SameStatus, StatusStays DEF CreateAccount, NewAccount, AccountsStay, AccessTyped
  <2>3. QED
    BY <1>0, <2>1, <2>2, NothingBegun, PlainRequest
<1>8. QED
  BY <1>1, <1>2, <1>3, <1>4, <1>5, <1>6, <1>7 DEF Request

(* The request that changed the policy or the proxy of s ends.             *)
LEMMA InstallEnds ==
  ASSUME AccessInv, RevokeInv, Grows, NEW r \in Work, r = proc["http"], r # Null, r.doing \in {"apply", "proxy"},
         Ends("http"), UNCHANGED <<files, rules, accounts>>, NEW s \in Sites, s = r.site,
         \A u \in Sites \ {s} : RowStays(u), Managed(s) => Managed(s)', r.p = Null => RowStays(s),
         GoodR /\ GoodR' /\ r.p # Null =>
           /\ r.pc = "done" => Managed(s)'
           /\ Managed(s)' => \E p \in PoliciesOf(s)' : p.users = files.slots[s].policy.users
  PROVE  RevokeInv'
<1>0. "http" \in Threads
  BY DEF Threads
<1>1. proc'["http"] = Null
  BY <1>0, Turned DEF Ends, AccessInv
<1>2. r.op \notin {"account", "rule"}
  BY <1>0, Actor, ThreadOps
<1>3. ASSUME NEW u \in Sites PROVE Ruled(u)' = Ruled(u)
  BY <1>1, <1>2 DEF Ruled, Ruling
<1>4. ASSUME GoodR, GoodR', NEW u \in Sites, FilesOk(u) PROVE FilesOk(u)'
  <2>1. CASE ~Installing(u)
    <3>1. RowStays(u)
      BY <2>1 DEF Installing
    <3>2. QED
      BY <1>3, <1>4, <2>1, <3>1, FilesKept DEF RowStays
  <2>2. CASE Installing(u)
    <3>1. u = s /\ r.p # Null
      BY <2>2 DEF Installing
    <3>2. RulesOk(u)'
      BY <1>3, <1>4 DEF FilesOk, RulesOk
    <3>3. KindOk(u)' /\ KnownOk(u)'
      BY <1>4, <3>1 DEF FilesOk, KindOk, KnownOk
    <3>4. QED
      BY <3>2, <3>3 DEF FilesOk
  <2>3. QED
    BY <2>1, <2>2
<1>5. QED
  BY <1>2, <1>4, RevokeTurn DEF AccountsStay, Ends

LEMMA MarkedRevoked ==
  ASSUME AccessInv, ServedInv, RevokeInv, Grows, NEW r \in Work, r = proc["http"], r # Null, r.doing \in {"apply", "proxy"},
         r.pc = "done", r.p # Null, NEW s \in Sites, s = r.site, Ends("http"), UNCHANGED <<files, rules, accounts>>,
         \/ MarkApplied(s, r.v)
         \/ MarkError(s, r.v) /\ (Managed(s) \/ ~GoodR')
         \/ UNCHANGED policy /\ r.doing = "proxy"
  PROVE  RevokeInv'
<1>0. "http" \in Threads /\ AccessTyped
  BY DEF Threads, AccessInv
<1>1. Bound(r)
  BY <1>0, Actor
<1>2. policy[s] # Null /\ policy[s].version = r.v /\ Same(policy[s].desired, r.p) /\ (r.doing = "proxy" => Managed(s))
  BY <1>1 DEF Bound, BoundApply, BoundProxy, Same, Managed
<1>3. GoodR => files.slots[s].policy = r.p
  BY <1>0, GoodRGood DEF ServedInv, Written
<1>4. policy[s].desired \in PoliciesOf(s)
  BY <1>2 DEF PoliciesOf
<1>5. CASE MarkApplied(s, r.v)
  <2>1. PICK v \in Nat : v = r.v
    BY DEF Work
  <2>2. /\ policy'[s] # Null /\ policy'[s].mode = "unified" /\ policy'[s].desired = policy[s].desired
        /\ \A u \in Sites \ {s} : policy'[u] = policy[u]
    BY <1>0, <1>2, <1>5, <2>1, MarkedRow
  <2>3. Managed(s)' /\ \A u \in Sites \ {s} : RowStays(u)
    BY <2>2 DEF Managed, RowStays, PoliciesOf
  <2>4. policy[s].desired \in PoliciesOf(s)'
    BY <2>2 DEF PoliciesOf
  <2>5. QED
    BY <1>2, <1>3, <2>3, <2>4, InstallEnds DEF Same
<1>6. ASSUME MarkError(s, r.v) \/ UNCHANGED policy, Managed(s) \/ ~GoodR' PROVE RevokeInv'
  <2>1. PICK v : v = r.v
    OBVIOUS
  <2>2. \A u \in Sites : RowStays(u)
    BY <1>0, <1>6, <2>1, ErrorStatus, SameStatus, StatusStays
  <2>3. policy[s].desired \in PoliciesOf(s)'
    BY <1>4, <2>2 DEF RowStays
  <2>4. QED
    BY <1>2, <1>3, <1>6, <2>2, <2>3, InstallEnds DEF Same, RowStays
<1>7. QED
  BY <1>2, <1>5, <1>6

(* What was not carried out: the files are of a policy that is known.      *)
LEMMA FailedRevoked ==
  ASSUME AccessInv, RevokeInv, Grows, NEW r \in Work, r = proc["http"], r # Null, r.doing \in {"apply", "proxy"},
         r.pc = "failed", NEW s \in Sites, s = r.site, Ends("http"), UNCHANGED <<files, rules, accounts>>,
         MarkError(s, r.v), NoteUnknown(s)
  PROVE  RevokeInv'
<1>1. PICK v : v = r.v
  OBVIOUS
<1>2. \A u \in Sites : RowStays(u)
  BY <1>1, ErrorStatus, StatusStays DEF AccessInv
<1>3. PICK b \in BOOLEAN : b = (Managed(s) /\ \A p \in PoliciesOf(s) : p.users # files.slots[s].policy.users)
  BY DEF Managed
<1>4. Note("unknown", b)
  BY <1>3 DEF NoteUnknown
<1>5. b => ~GoodR'
  BY <1>4, NoteGrows, NotGoodR DEF AccessInv, Mishaps
<1>6. QED
  BY <1>2, <1>3, <1>5, InstallEnds DEF RowStays

LEMMA ApplyEndsRevoked ==
  ASSUME AccessInv, ServedInv, RevokeInv, Grows, FinishApply \/ FailApply
  PROVE  RevokeInv'
<1>0. AccessTyped /\ "http" \in Threads
  BY DEF AccessInv, Threads
<1>1. PICK r \in Work : r = proc["http"]
  BY <1>0, Actor DEF FinishApply, FailApply, At
<1>2. r # Null /\ r.doing = "apply" /\ Shape("http", r)
  BY <1>0, <1>1, Actor DEF FinishApply, FailApply, At
<1>3. UNCHANGED <<files, rules, accounts>> /\ Ends("http")
  BY DEF FinishApply, FailApply
<1>4. PICK s \in Sites : s = r.site
  BY <1>0, <1>2, SiteOf
<1>5. r.p # Null
  BY <1>0, <1>2, ShapeBack, NullIsNone DEF ApplyShape, WritesPolicy
<1>6. CASE FailApply
  BY <1>1, <1>2, <1>3, <1>4, <1>6, FailedRevoked DEF FailApply, At
<1>7. CASE FinishApply
  <2>1. r.pc = "done"
    BY <1>1, <1>7 DEF FinishApply, At
  <2>2. MarkApplied(s, r.v) \/ (MarkError(s, r.v) /\ (Managed(s) \/ Lost))
    BY <1>1, <1>4, <1>7 DEF FinishApply
  <2>3. Lost => ~GoodR'
    BY <1>0, LostGrows, NotGoodR
  <2>4. QED
    BY <1>1, <1>2, <1>3, <1>4, <1>5, <2>1, <2>2, <2>3, MarkedRevoked
<1>8. QED
  BY <1>6, <1>7

LEMMA FinishProxyRevoked ==
  ASSUME AccessInv, ServedInv, RevokeInv, Grows, FinishProxy
  PROVE  RevokeInv'
<1>0. AccessTyped /\ "http" \in Threads
  BY DEF AccessInv, Threads
<1>1. PICK r \in Work : r = proc["http"]
  BY <1>0, Actor DEF FinishProxy, At
<1>2. r # Null /\ r.doing = "proxy" /\ r.pc \in {"done", "failed"} /\ Shape("http", r)
  BY <1>0, <1>1, Actor DEF FinishProxy, At
<1>3. UNCHANGED <<files, rules, accounts>> /\ Ends("http")
  BY DEF FinishProxy
<1>4. PICK s \in Sites : s = r.site
  BY <1>0, <1>2, SiteOf
<1>5. CASE r.p = Null /\ UNCHANGED policy
  <2>1. \A u \in Sites : RowStays(u)
    BY <1>5, SameStatus, StatusStays
  <2>2. QED
    BY <1>1, <1>2, <1>3, <1>4, <1>5, <2>1, InstallEnds DEF RowStays
<1>6. CASE r.p # Null /\ r.pc = "done" /\ (MarkApplied(s, r.v) \/ UNCHANGED policy)
  BY <1>1, <1>2, <1>3, <1>4, <1>6, MarkedRevoked
<1>7. CASE r.p # Null /\ r.pc = "failed" /\ MarkError(s, r.v) /\ NoteUnknown(s)
  BY <1>1, <1>2, <1>3, <1>4, <1>7, FailedRevoked
<1>8. QED
  BY <1>1, <1>4, <1>5, <1>6, <1>7 DEF FinishProxy

LEMMA RenderRevoked == ASSUME AccessInv, RevokeInv, Grows, RenderProxy PROVE RevokeInv'
<1>0. "http" \in Threads /\ AccessTyped
  BY DEF Threads, AccessInv
<1>1. UNCHANGED <<accounts, rules, proxies, geo, files, backups, editor>>
  BY RenderFacts
<1>2. PICK r \in Work, s \in Sites :
        /\ r = proc["http"] /\ r # Null /\ r.doing = "proxy" /\ r.pc = "render" /\ r.site = s
        /\ \/ /\ Managed(s)
              /\ \E p \in Policy : /\ Renderable(p) /\ p = Relinked(policy[s].desired, proxies[s])
                                   /\ \E q \in Work : Prepared(q, s, p)
           \/ policy[s] = Null /\ \E q \in Work : Unprepared(q, s)
           \/ "ahead" \in spent'.mishaps /\ Ends("http") /\ UNCHANGED policy
  BY RenderFacts
<1>3. r.p = Null /\ r.op = "proxy"
  BY <1>0, <1>2, Actor, ShapeBack, ThreadOps DEF ProxyShape, Answers
<1>4. ASSUME NEW q, Becomes("http", q), q # Null => q.doing = "proxy" /\ q.op # "rule",
             \A u \in Sites : RowStays(u) \/ ((Managed(u) => Managed(u)') /\ Installing(u)'),
             q # Null => RevokeTx(q)'
      PROVE  RevokeInv'
  <2>1. proc'["http"] = q
    BY <1>0, <1>4, Turned
  <2>2. ASSUME NEW u \in Sites, FilesOk(u) PROVE FilesOk(u)'
    <3>1. ~Installing(u) /\ Ruled(u)' = Ruled(u)
      BY <1>1, <1>2, <1>3, <1>4, <2>1 DEF Installing, Ruled, Ruling
    <3>2. QED
      BY <1>1, <1>4, <2>2, <3>1, FilesKept DEF RowStays
  <2>3. QED
    BY <1>1, <1>2, <1>3, <1>4, <2>2, RevokeTurn DEF AccountsStay
<1>5. ASSUME Managed(s), NEW p \in Policy, Renderable(p), NEW q \in Work, Prepared(q, s, p), q.op # "rule"
      PROVE  RevokeInv'
  <2>1. proc'["http"] = q /\ policy'[s] = Desired(s, p, TRUE) /\ \A u \in Sites \ {s} : policy'[u] = policy[u]
    BY <1>0, <1>5, Turned DEF Prepared, AccessTyped
  <2>0. PICK f \in BOOLEAN : f = TRUE
    OBVIOUS
  <2>2. PICK new : new = Desired(s, p, f)
    OBVIOUS
  <2>3. new # Null /\ new.mode = "unified"
    <3>1. policy[s] # Null /\ policy[s].mode = "unified"
      BY <1>5 DEF Managed
    <3>2. new # Null /\ (policy[s] # Null => new.mode = policy[s].mode)
      <4>1. AccessTyped /\ Rows /\ f \in BOOLEAN /\ new = Desired(s, p, f)
        BY <2>2 DEF AccessInv
      <4>2. QED
        BY <4>1, DesiredRow
    <3>3. QED
      BY <3>1, <3>2
  <2>4. Managed(s)' /\ Installing(s)'
    BY <1>5, <2>0, <2>1, <2>2, <2>3, NullIsNone DEF Managed, Installing, Prepared
  <2>5. \A u \in Sites \ {s} : RowStays(u)
    BY <2>1 DEF RowStays, Managed, PoliciesOf
  <2>6. ProxyFiles(s, p).slots[s] = Snapshot(p)
    BY <1>0, <1>5, ProxyFilesTyped
  <2>7. AllLive(q.tx.slots[q.site].accounts)
    BY <1>0, <1>5, <2>6, SnapshotLive DEF Prepared
  <2>8. AllLive(q.tx.slots[q.site].accounts)'
    BY <1>1, <2>7, AllLiveStays
  <2>9. RevokeTx(q)'
    BY <1>5, <2>8 DEF Prepared, RevokeTx, RulesTx
  <2>10. QED
    BY <1>4, <1>5, <2>4, <2>5, <2>9 DEF Prepared
<1>6. ASSUME NEW q \in Work, Unprepared(q, s), q.op # "rule" PROVE RevokeInv'
  <2>1. RevokeTx(q)'
    BY <1>6 DEF Unprepared, RevokeTx, RulesTx
  <2>2. QED
    BY <1>4, <1>6, <2>1, SameStatus, StatusStays DEF Unprepared
<1>7. ASSUME Ends("http"), UNCHANGED policy PROVE RevokeInv'
  BY <1>4, <1>7, SameStatus, StatusStays DEF Ends
<1>8. ASSUME NEW q, q # Null, Becomes("http", q), q.doing = "proxy" PROVE q.op # "rule"
  <2>1. RenderProxy
    OBVIOUS
  <2>2. AccessInv'
    BY RenderProxyInv
  <2>3. Shape("http", q)
    BY <1>0, <1>8, <2>2, Turned DEF AccessInv, Shaped
  <2>4. QED
    BY <1>0, <1>8, <2>3, ThreadOps
<1>9. QED
  BY <1>2, <1>5, <1>6, <1>7, <1>8 DEF Prepared, Unprepared

LEMMA RuleEndsRevoked == ASSUME AccessInv, RevokeInv, Grows, RuleWritten \/ RuleFailed PROVE RevokeInv'
<1>0. AccessTyped /\ "http" \in Threads
  BY DEF AccessInv, Threads
<1>1. PICK r \in Work : r = proc["http"]
  BY <1>0, Actor DEF RuleWritten, RuleFailed
<1>2. r # Null /\ r.op = "rule" /\ r.doing = "rules" /\ Shape("http", r)
  BY <1>0, <1>1, Actor DEF RuleWritten, RuleFailed, At
<1>3. UNCHANGED <<files, policy, accounts>> /\ Ends("http")
  BY DEF RuleWritten, RuleFailed, tables
<1>4. proc'["http"] = Null
  BY <1>0, <1>3, Turned DEF Ends
<1>5. \A u \in Sites : ~Installing(u) /\ RowStays(u)
  BY <1>1, <1>2, <1>3, SameStatus, StatusStays DEF Installing
<1>6. GoodR' => \A u \in Sites : Ruled(u)' = Ruled(u)
  <2>1. CASE RuleWritten
    BY <1>1, <1>4, <2>1 DEF RuleWritten, At, Ruled, Ruling, tables
  <2>2. CASE RuleFailed
    <3>1. CASE Note("adrift", TRUE)
      BY <1>0, <3>1, NoteGrows, NotGoodR DEF Mishaps
    <3>2. CASE rules' = [rules EXCEPT ![r.site] = r.row.old]
      BY <1>0, <1>1, <1>2, <1>4, <2>2, <3>2 DEF RuleFailed, At, Ruled, Ruling, AccessTyped
    <3>3. QED
      BY <1>1, <2>2, <3>1, <3>2 DEF RuleFailed
  <2>3. QED
    BY <2>1, <2>2
<1>7. GoodR' => \A u \in Sites : FilesOk(u) => FilesOk(u)'
  BY <1>3, <1>5, <1>6, FilesKept DEF RowStays
<1>8. QED
  BY <1>1, <1>2, <1>3, <1>7, RevokeTurn DEF Ends, AccountsStay

LEMMA HandlerRevoked == ASSUME AccessInv, ServedInv, RevokeInv, Handler PROVE RevokeInv'
BY HandlerMoves, WriteRevoked, PoliciesRevoked, RulesRevoked, RulesEndRevoked, DeletedRevoked, RuleEndsRevoked,
   ApplyEndsRevoked, FinishProxyRevoked, RenderRevoked DEF Handler

(* The steps of the update.                                                *)
LEMMA UpdateReadRevoked ==
  ASSUME AccessInv, RevokeInv, NEW s \in Sites, RefreshRead("geo", s)
  PROVE  RevokeInv'
<1>1. PICK t \in Threads : t = "geo"
  BY DEF Threads
<1>2. RefreshRead(t, s)
  BY <1>1
<1>3. UNCHANGED <<tables, files, backups, editor, lock, spent>>
  BY <1>2, ReadFacts
<1>4. PICK q : Becomes("geo", q) /\ q.pc # "call"
  BY <1>1, <1>2, ReadFacts DEF Refreshes
<1>5. \A u \in Sites : RowStays(u)
  BY <1>3, SameStatus, StatusStays DEF tables
<1>6. QED
  BY <1>3, <1>4, <1>5, StillGrows, UpdateTurn DEF tables, AccessInv

LEMMA UpdateLockRevoked == ASSUME AccessInv, RevokeInv, RefreshLock("geo") PROVE RevokeInv'
<1>1. PICK t \in Threads : t = "geo"
  BY DEF Threads
<1>2. RefreshLock(t)
  BY <1>1
<1>3. UNCHANGED <<accounts, rules, proxies, geo, files, backups, editor, spent>> /\ lock = Null
  BY <1>2, LockFacts
<1>4. PICK r \in Work, q \in Work :
        /\ r.site \in Sites /\ r.p \in Policy
        /\ \/ UNCHANGED policy /\ Refreshes(t, q, r, "next", r.todo \ {r.site}, FALSE)
           \/ MarkError(r.site, r.v) /\ Refreshes(t, q, r, "next", r.todo \ {r.site}, TRUE)
           \/ /\ Renderable(r.p) /\ UNCHANGED policy /\ Refreshes(t, q, r, "call", r.todo, FALSE)
              /\ q.site = r.site /\ q.tx = PolicyFiles(r.site, r.p)
  BY <1>2, LockFacts
<1>5. Becomes("geo", q)
  BY <1>1, <1>4 DEF Refreshes
<1>6. q.pc = "call" => AllLive(q.tx.slots[q.site].accounts)
  BY <1>4, RenderedLive DEF AccessInv, Refreshes
<1>7. PICK v : v = r.v
  OBVIOUS
<1>8. \A u \in Sites : RowStays(u)
  BY <1>4, <1>7, ErrorStatus, SameStatus, StatusStays DEF AccessInv
<1>9. QED
  BY <1>3, <1>5, <1>6, <1>8, StillGrows, UpdateTurn DEF AccessInv

LEMMA UpdateMarkRevoked == ASSUME AccessInv, ServedInv, RevokeInv, RefreshMark("geo") PROVE RevokeInv'
<1>1. PICK t \in Threads : t = "geo"
  BY DEF Threads
<1>2. RefreshMark(t)
  BY <1>1
<1>3. UNCHANGED <<accounts, rules, proxies, geo, files, backups, editor, spent>> /\ Grows
  BY <1>2, MarkFacts, StillGrows DEF AccessInv
<1>4. PICK r \in Work, q \in Work :
        /\ Refresher(t, r, {"done", "failed"}) /\ r.site \in Sites /\ r.site \in r.todo /\ r.p # Null
        /\ policy[r.site] # Null /\ policy[r.site].at = r.v /\ r.v > 0 /\ r.v \in Nat
        /\ Refreshes(t, q, r, "next", r.todo \ {r.site}, r.pc = "failed")
        /\ \/ r.pc = "done" /\ MarkApplied(r.site, r.v)
           \/ r.pc = "failed" /\ MarkError(r.site, r.v)
  BY <1>2, MarkFacts
<1>5. Becomes("geo", q) /\ q.pc = "next"
  BY <1>1, <1>4 DEF Refreshes
<1>6. ASSUME GoodR PROVE \A u \in Sites : RowStays(u)
  <2>1. CASE r.pc = "failed" /\ MarkError(r.site, r.v)
    BY <1>4, <2>1, ErrorStatus, StatusStays DEF AccessInv
  <2>2. CASE r.pc = "done" /\ MarkApplied(r.site, r.v)
    <3>1. Written(r) /\ policy[r.site].applied = r.p
      BY <1>4, <1>6, <2>2, GoodRGood DEF ServedInv, Read, Answers, Refresher
    <3>2. files.access[r.site].policy = policy[r.site].applied
      BY <1>4, <2>2, <3>1 DEF Written, Refresher
    <3>3. QED
      BY <1>4, <2>2, <3>2, RefreshedStatus, StatusStays DEF AccessInv
  <2>3. QED
    BY <1>4, <2>1, <2>2
<1>7. CASE GoodR
  BY <1>3, <1>5, <1>6, <1>7, UpdateTurn
<1>8. CASE ~GoodR
  BY <1>3, <1>8, RevokeStep
<1>9. QED
  BY <1>7, <1>8

LEMMA UpdateStepsRevoked ==
  ASSUME AccessInv, RevokeInv, StartUpdate \/ ReadGeoSites \/ GeoApplied \/ GeoFailed \/ GeoRefreshed
  PROVE  RevokeInv'
<1>0. AccessTyped /\ "geo" \in Threads
  BY DEF AccessInv, Threads
<1>1. UNCHANGED <<policy, accounts, rules, files>> /\ Grows
  <2>1. StartUpdate => Grows
    BY <1>0, BeginGrows DEF StartUpdate
  <2>2. ReadGeoSites \/ GeoApplied => Grows
    BY <1>0, StillGrows DEF ReadGeoSites, GeoApplied
  <2>3. GeoFailed \/ GeoRefreshed => Grows
    BY <1>0, NoteKeeps DEF GeoFailed, GeoRefreshed, Mishaps
  <2>4. UNCHANGED <<policy, accounts, rules, files>>
    BY DEF StartUpdate, ReadGeoSites, GeoApplied, GeoFailed, GeoRefreshed, tables
  <2>5. QED
    BY <2>1, <2>2, <2>3, <2>4
<1>2. \A u \in Sites : RowStays(u)
  BY <1>1, SameStatus, StatusStays
<1>3. ASSUME NEW q, Becomes("geo", q), q = Null \/ q.doing # "refresh" \/ q.pc # "call" PROVE RevokeInv'
  BY <1>1, <1>2, <1>3, UpdateTurn
<1>4. CASE StartUpdate
  BY <1>3, <1>4, IdleTyped DEF StartUpdate, Work
<1>5. CASE ReadGeoSites \/ GeoApplied
  <2>1. PICK r \in Work : r = proc["geo"] /\ r.doing = "geo"
    BY <1>0, <1>5, Actor DEF ReadGeoSites, GeoApplied, At
  <2>2. CASE Becomes("geo", StartRefresh(r))
    BY <1>3, <2>2, StartRefreshTyped
  <2>3. ASSUME NEW x, Becomes("geo", [r EXCEPT !.pc = "call", !.tx = x]) PROVE RevokeInv'
    <3>1. PICK q : q = [r EXCEPT !.pc = "call", !.tx = x]
      OBVIOUS
    <3>2. q.doing = "geo"
      BY <2>1, <3>1 DEF Work
    <3>3. QED
      BY <1>3, <2>3, <3>1, <3>2
  <2>4. QED
    BY <1>5, <2>1, <2>2, <2>3 DEF ReadGeoSites, GeoApplied
<1>6. CASE GeoFailed \/ GeoRefreshed
  BY <1>3, <1>6 DEF GeoFailed, GeoRefreshed, Ends
<1>7. QED
  BY <1>4, <1>5, <1>6

(* The steps of a backup that leave the tables.                            *)
LEMMA BackupsRevoked ==
  ASSUME AccessInv, RevokeInv, FailRestore \/ \E s \in Sites : Backup(s) \/ StartRestore(s)
  PROVE  RevokeInv'
<1>0. AccessTyped /\ "backup" \in Threads /\ "http" \in Threads /\ "geo" \in Threads
  BY DEF AccessInv, Threads
<1>1. UNCHANGED <<policy, accounts, rules, files>> /\ Grows
  <2>1. \A s \in Sites : Backup(s) \/ StartRestore(s) => Grows
    BY <1>0, BeginGrows DEF Backup, StartRestore
  <2>2. FailRestore => Grows
    BY <1>0, StillGrows DEF FailRestore
  <2>3. UNCHANGED <<policy, accounts, rules, files>>
    BY DEF Backup, StartRestore, FailRestore, tables
  <2>4. QED
    BY <2>1, <2>2, <2>3
<1>2. ASSUME NEW q, Becomes("backup", q), q = Null \/ q.pc = "call",
             proc["backup"] = Null \/ proc["backup"].pc # "done"
      PROVE  RevokeInv'
  <2>1. proc'["http"] = proc["http"] /\ proc'["geo"] = proc["geo"] /\ proc'["backup"] = q
    BY <1>0, <1>2, Turned
  <2>2. \A s : Restoring(s)' <=> Restoring(s)
    BY <1>2, <2>1 DEF Restoring
  <2>3. QED
    BY <1>1, <2>1, <2>2, RevokeSame
<1>3. CASE FailRestore
  BY <1>2, <1>3 DEF FailRestore, Ends, At
<1>4. CASE \E s \in Sites : Backup(s)
  BY <1>1, <1>4, RevokeSame DEF Backup, Restoring
<1>5. CASE \E s \in Sites : StartRestore(s)
  <2>1. PICK s \in Sites : StartRestore(s)
    BY <1>5
  <2>2. ASSUME NEW p, NEW row, NEW x,
               Becomes("backup", [Idle EXCEPT !.op = "restore", !.doing = "restore", !.pc = "call", !.site = s,
                                    !.p = p, !.row = row, !.tx = x])
        PROVE  RevokeInv'
    BY IdleTyped, <1>2, <2>1, <2>2 DEF Work, StartRestore, Begin
  <2>3. QED
    BY <2>1, <2>2 DEF StartRestore
<1>6. QED
  BY <1>3, <1>4, <1>5

LEMMA CrashRevoked == ASSUME AccessInv, Crash PROVE RevokeInv'
BY CrashFacts, NotGoodR DEF RevokeInv

LEMMA RevokeInit == ASSUME Init PROVE RevokeInv
<1>1. AccessTyped /\ proc["http"] = Null /\ proc["geo"] = Null /\ proc["backup"] = Null
  BY AccessInit DEF Init, AccessInv, Threads
<1>2. ASSUME NEW s \in Sites PROVE RevokeAt(s)
  <2>1. /\ files.access[s].kind = (IF Managed(s) THEN "policy" ELSE "rules")
        /\ ~Managed(s) => files.access[s].policy.users = rules[s]
        /\ files.slots[s].policy = Started(s)
        /\ files.slots[s].accounts = [a \in Started(s).users |-> accounts[a]]
        /\ files.htpasswd[s] = Admitted(rules[s])
    BY InitFiles
  <2>2. \A a \in Accounts : Enabled(a)
    BY InitFacts
  <2>3. PICK users \in SUBSET Accounts : users = rules[s]
    BY <1>1 DEF AccessTyped
  <2>4. \A c \in files.htpasswd[s] : c[1] \in rules[s] /\ Live(c)
    BY <1>1, <2>1, <2>3, AdmittedTyped DEF Live
  <2>5. PICK p \in Policy : p = Started(s)
    BY InitFacts
  <2>6. p.users \subseteq Accounts
    BY DEF Policy
  <2>7. AllLive(files.slots[s].accounts)
    BY <2>1, <2>2, <2>5, <2>6 DEF AllLive, LetIn, Live, Enabled
  <2>8. \A c \in Served(s) : Live(c)
    BY <2>4, <2>7 DEF Served, AllLive
  <2>9. LetOk(s)
    BY <1>1, <2>8 DEF LetOk, Lets
  <2>10. RulesOk(s) /\ KindOk(s)
    BY <1>1, <2>1, <2>4 DEF RulesOk, KindOk, Ruled, Ruling
  <2>11. KnownOk(s)
    BY <2>1, InitFacts DEF KnownOk, PoliciesOf, Started, Managed
  <2>12. QED
    BY <2>9, <2>10, <2>11 DEF RevokeAt, FilesOk
<1>3. QED
  BY <1>1, <1>2 DEF RevokeInv

(* A committed restore: the accounts of the bundle are as its files say.   *)
LEMMA CommittedRevoked ==
  ASSUME AccessInv, ServedInv, RevokeInv, At("backup", "restore", "done"), Committed, Ends("backup"),
         UNCHANGED <<files, rules, backups>>
  PROVE  RevokeInv'
<1>0. /\ AccessTyped /\ Rows /\ "backup" \in Threads /\ "http" \in Threads /\ "geo" \in Threads
      /\ proc["backup"] # Null /\ proc["backup"].pc = "done"
  BY DEF AccessInv, Threads, At
<1>1. PICK r : r = proc["backup"]
  OBVIOUS
<1>2. /\ r \in Work /\ r.site \in Sites /\ r.p \in Policy \cup {Null} /\ r.doing = "restore" /\ r.pc = "done"
      /\ lock = "backup" /\ Grows /\ backups[r.site] \in Saved
      /\ r.p # Null => backups[r.site].slots.policy = r.p /\ backups[r.site].slots.accounts \in [r.p.users -> Account]
      /\ policy'[r.site] = Restored(r.site, r.p)
      /\ \A s \in Sites \ {r.site} : policy'[s] = policy[s]
      /\ \A a \in Accounts : /\ a \in r.row => accounts[a] = Null /\ accounts'[a] = backups[r.site].slots.accounts[a]
                             /\ a \notin r.row => accounts'[a] = accounts[a]
      /\ Refreshing => "overlap" \in spent'.mishaps
      /\ r.p = Null => "older" \in spent'.mishaps
      /\ Outdated(r.site, r.p, r.row) => "changed" \in spent'.mishaps
  BY <1>0, <1>1, CommittedFacts
<1>3. SUFFICES ASSUME GoodR, GoodR' PROVE (\A s \in Sites : RevokeAt(s)') /\ (proc'["http"] # Null => RevokeTx(proc["http"])')
  BY <1>2, RevokeStep
<1>4. r.p \in Policy /\ ~Refreshing /\ ~Outdated(r.site, r.p, r.row)
  BY <1>2, <1>3, NotGoodR
<1>5. proc'["backup"] = Null /\ proc'["http"] = proc["http"] /\ proc'["geo"] = proc["geo"]
  BY <1>0, Turned DEF Ends
<1>6. proc["geo"] = Null
  BY <1>0, <1>4, Actor, ThreadOps DEF Refreshing
<1>7. proc["http"] = Null \/ (proc["http"].op = "rule" /\ proc["http"].doing = "rules")
  <2>1. SUFFICES ASSUME proc["http"] # Null PROVE proc["http"].op = "rule" /\ proc["http"].doing = "rules"
    OBVIOUS
  <2>2. PICK w \in Work : w = proc["http"]
    BY <1>0, <2>1, Actor
  <2>3. Shape("http", w) /\ ~Holding(w) /\ w.op # "account"
    BY <1>0, <1>2, <1>4, <2>1, <2>2, Actor DEF Refreshing
  <2>4. QED
    BY <1>0, <2>1, <2>2, <2>3, ThreadOps DEF Holding
<1>8. AccountsStay
  BY <1>2 DEF AccountsStay
<1>9. \A s : ~Restoring(s)'
  BY <1>5 DEF Restoring
<1>10. ASSUME NEW s \in Sites \ {r.site} PROVE RevokeAt(s)'
  <2>1. RowStays(s) /\ ~Restoring(s)
    BY <1>1, <1>2, <1>10 DEF RowStays, Managed, PoliciesOf, Restoring
  <2>2. LetOk(s) /\ FilesOk(s)
    BY <1>3, <2>1 DEF RevokeInv, RevokeAt
  <2>3. FilesOk(s)'
    BY <1>5, <2>1, <2>2, FilesSame
  <2>4. ASSUME NEW c \in Accounts \X Passwords, Lets(s, c)' PROVE Live(c)'
    <3>1. Lets(s, c)
      BY <1>5, <1>9, <2>1, <2>4, LetsSame
    <3>2. Live(c)
      BY <1>7, <2>2, <3>1 DEF LetOk, Awaits
    <3>3. QED
      BY <1>8, <3>2, LoginOf, LiveStays
  <2>5. QED
    BY <2>3, <2>4 DEF RevokeAt, LetOk
<1>11. ASSUME NEW s \in Sites, s = r.site PROVE RevokeAt(s)'
  <2>1. PICK kept : kept = backups[s].slots.accounts
    OBVIOUS
  <2>2. Written(r)
    BY <1>0, <1>1, <1>3, GoodRGood DEF ServedInv
  <2>3. /\ files.access[s].kind = "policy" /\ files.access[s].policy = r.p
        /\ files.slots[s].policy = r.p /\ files.slots[s].accounts = kept
    BY <1>2, <1>4, <1>11, <2>1, <2>2, NullIsNone DEF Written
  <2>4. InForceAgain(s, r.p, policy'[s])
    BY <1>0, <1>2, <1>4, <1>11, RestoredRow
  <2>5. Managed(s)' /\ r.p \in PoliciesOf(s)'
    BY <2>4 DEF InForceAgain, Managed, PoliciesOf
  <2>6. FilesOk(s)'
    BY <2>3, <2>5 DEF FilesOk, RulesOk, KindOk, KnownOk
  <2>7. kept \in [r.p.users -> Account] /\ r.p.users \subseteq Accounts
    BY <1>2, <1>4, <1>11, <2>1, NullIsNone DEF Policy
  <2>8. ASSUME NEW a \in r.p.users PROVE accounts'[a] = kept[a] /\ kept[a] # Null
    <3>1. a \notin r.row => accounts[a] = kept[a]
      BY <1>4, <1>11, <2>1, <2>8, NullIsNone DEF Outdated
    <3>2. QED
      BY <1>2, <1>11, <2>1, <2>7, <2>8, <3>1, NullIsNone
  <2>9. AllLive(kept)'
    BY <2>7, <2>8 DEF AllLive, LetIn, Live, Enabled
  <2>10. \A c : Lets(s, c)' => Live(c)'
    BY <1>5, <1>6, <2>3, <2>9 DEF Lets, Served, AllLive, LetIn
  <2>11. QED
    BY <2>6, <2>10 DEF RevokeAt, LetOk
<1>12. ASSUME proc["http"] # Null PROVE RevokeTx(proc["http"])'
  <2>1. PICK w \in Work : w = proc["http"] /\ w.op = "rule" /\ w.doing = "rules"
    BY <1>0, <1>7, <1>12, Actor
  <2>2. RulesTx(w)
    BY <1>3, <1>12, <2>1 DEF RevokeInv, RevokeTx
  <2>3. RulesTx(w)'
    <3>1. SUFFICES ASSUME w.pc \in Answers PROVE RulesTx(w)'
      BY DEF RulesTx
    <3>2. PICK s \in Sites : s = w.site
      BY <1>0, <1>12, <2>1, SiteOf, Actor
    <3>3. rules[s] \subseteq Accounts
      BY <1>0 DEF AccessTyped
    <3>4. \A c : c[1] \in rules[s] /\ Live(c) => Live(c)'
      BY <1>8, <3>3, LiveStays
    <3>5. QED
      BY <2>1, <2>2, <3>1, <3>2, <3>4 DEF RulesTx
  <2>4. RevokeTx(w)'
    BY <2>1, <2>3 DEF RevokeTx
  <2>5. QED
    BY <1>5, <2>1, <2>4
<1>13. QED
  BY <1>5, <1>10, <1>11, <1>12

LEMMA BesideRevoked == ASSUME AccessInv, ServedInv, RevokeInv, Beside PROVE RevokeInv'
<1>0. AccessTyped
  BY DEF AccessInv
<1>1. CASE CommitRestore
  <2>1. CASE Committed
    BY <1>1, <2>1, CommittedRevoked DEF CommitRestore
  <2>2. CASE Note("adrift", TRUE) \/ Lost
    BY <1>0, NoteGrows, <2>2, LostGrows, NotGoodR DEF Mishaps, RevokeInv
  <2>3. QED
    BY <1>1, <2>1, <2>2 DEF CommitRestore, Committed
<1>2. QED
  BY <1>1, UpdateStepsRevoked, BackupsRevoked DEF Beside

LEMMA RefreshRevoked ==
  ASSUME AccessInv, ServedInv, RevokeInv, Refresh
  PROVE  RevokeInv'
<1>1. PICK t \in Threads : RefreshLock(t) \/ RefreshMark(t) \/ \E s \in Sites : RefreshRead(t, s)
  BY DEF Refresh
<1>2. t # "backup"
  <2>1. proc[t] # Null /\ proc[t].doing = "refresh"
    BY <1>1 DEF RefreshLock, RefreshMark, RefreshRead, At
  <2>2. QED
    BY <2>1, RefresherIs DEF Refresher
<1>3. CASE t = "http"
  BY <1>1, <1>3, ReadRevoked, LockRevoked, MarkRevoked
<1>4. CASE t = "geo"
  BY <1>1, <1>4, UpdateReadRevoked, UpdateLockRevoked, UpdateMarkRevoked
<1>5. QED
  BY <1>2, <1>3, <1>4 DEF Threads

(* The answer to a call: where it wrote nothing that matters.              *)
LEMMA CallElsewhere ==
  ASSUME AccessInv, NEW t \in Threads, NEW r, NEW q, AnsweredBy(t, r, q), UNCHANGED <<policy, accounts, rules>>,
         NEW s \in Sites, KeptAt(s), files'.htpasswd[s] = files.htpasswd[s],
         r.doing \in {"geo", "proxy"} \/ s # r.site, RevokeAt(s)
  PROVE  RevokeAt(s)'
<1>0. "http" \in Threads /\ "geo" \in Threads /\ "backup" \in Threads
  BY DEF Threads
<1>1. /\ t = "http" => proc'["http"] = q /\ proc["http"] = r
      /\ t # "http" => proc'["http"] = proc["http"]
  BY <1>0 DEF AnsweredBy
<1>2. Shape(t, r) /\ (r.doing \in {"geo", "proxy"} => r.op # "rule" /\ r.op # "restore") /\ (t = "backup" => r.op = "restore")
  BY ThreadOps DEF AnsweredBy
<1>3. Restoring(s)' <=> Restoring(s)
  BY <1>0, <1>2, ThreadOps DEF AnsweredBy, Restoring
<1>4. Ruled(s)' = Ruled(s) /\ (Installing(s)' <=> Installing(s))
  <2>1. CASE t # "http"
    BY <1>1, <2>1 DEF Ruled, Ruling, Installing
  <2>2. CASE t = "http"
    BY <1>1, <1>2, <2>2 DEF Ruled, Ruling, Installing, AnsweredBy
  <2>3. QED
    BY <2>1, <2>2
<1>5. Managed(s)' = Managed(s) /\ PoliciesOf(s)' = PoliciesOf(s)
  BY DEF Managed, PoliciesOf
<1>6. FilesOk(s) => FilesOk(s)'
  <2>1. RulesOk(s) => RulesOk(s)'
    BY <1>4 DEF RulesOk, KeptAt
  <2>2. KindOk(s) => KindOk(s)'
    BY <1>1, <1>4, <1>5 DEF KindOk, KeptAt, AnsweredBy
  <2>3. KnownOk(s) => KnownOk(s)'
    BY <1>4, <1>5 DEF KnownOk, KeptAt
  <2>4. QED
    BY <2>1, <2>2, <2>3 DEF FilesOk
<1>7. ASSUME NEW c, Lets(s, c)' PROVE Lets(s, c)
  <2>1. Served(s)' = Served(s)
    BY DEF Served, KeptAt
  <2>2. t # "geo" => proc'["geo"] = proc["geo"]
    BY <1>0 DEF AnsweredBy
  <2>3. t = "geo" => proc'["geo"].pc = "done"
    BY DEF AnsweredBy
  <2>4. CASE t = "geo"
    BY <1>3, <1>7, <2>1, <2>3, <2>4 DEF Lets
  <2>5. CASE t # "geo"
    BY <1>3, <1>7, <2>1, <2>2, <2>5 DEF Lets
  <2>6. QED
    BY <2>4, <2>5
<1>8. ASSUME NEW c, Awaits(s, c) PROVE Awaits(s, c)'
  BY <1>1, <1>5, <1>8 DEF Awaits, AnsweredBy
<1>9. QED
  BY <1>3, <1>6, <1>7, <1>8, LiveSame DEF RevokeAt, LetOk

(* What the requests know when another thread is answered.                 *)
LEMMA OthersTx ==
  ASSUME AccessInv, NEW t \in Threads \ {"http"}, NEW r, NEW q, AnsweredBy(t, r, q),
         UNCHANGED <<policy, accounts, rules>>, proc["http"] # Null, RevokeTx(proc["http"])
  PROVE  RevokeTx(proc["http"])'
<1>0. "http" \in Threads /\ "backup" \in Threads
  BY DEF Threads
<1>1. PICK w \in Work : w = proc["http"]
  BY <1>0, Actor
<1>2. w # Null /\ Shape("http", w) /\ (lock = "http" <=> Holding(w)) /\ (lock = t <=> Holding(r)) /\ proc'["http"] = w
      /\ Bound(w) /\ proc[t] = r /\ r # Null /\ Shape(t, r) /\ r.pc = "call"
  BY <1>0, <1>1, Actor DEF AnsweredBy
<1>3. r.doing \in {"refresh", "restore", "geo"}
  BY <1>2, CallKeeps, ThreadOps
<1>4. ASSUME NEW s \in Sites, r.doing = "geo" \/ s # r.site
      PROVE  files'.access[s].kind = files.access[s].kind /\ files'.access[s].policy = files.access[s].policy
             /\ files'.slots[s] = files.slots[s] /\ files'.htpasswd[s] = files.htpasswd[s]
  BY <1>4, GeoKeeps, CallKeeps DEF KeptAt
<1>5. w.doing = "refresh" /\ w.pc = "done" /\ AllLive(files.slots[w.site].accounts) => AllLive(files.slots[w.site].accounts)'
  <2>1. SUFFICES ASSUME w.doing = "refresh", w.pc = "done", AllLive(files.slots[w.site].accounts)
                 PROVE  AllLive(files.slots[w.site].accounts)'
    OBVIOUS
  <2>2. w.site \in Sites
    BY <1>0, <1>1, <1>2, <2>1, SiteOf
  <2>3. r.doing = "geo"
    BY <1>2, <1>3, <2>1 DEF Holding, Answers
  <2>4. files'.slots[w.site] = files.slots[w.site]
    BY <1>4, <2>2, <2>3
  <2>5. QED
    BY <2>1, <2>4, LiveSame DEF AllLive, LetIn
<1>6. RulesTx(w) => RulesTx(w)'
  <2>1. SUFFICES ASSUME RulesTx(w), w.doing = "rules", w.pc \in Answers PROVE RulesTx(w)'
    BY DEF RulesTx
  <2>2. w.site \in Sites /\ ~Managed(w.site)
    BY <1>0, <1>1, <1>2, <2>1, SiteOf DEF Bound, BoundRule, Answers
  <2>3. Restoring(w.site) => Restoring(w.site)'
    BY <1>0, <1>2 DEF Restoring, AnsweredBy
  <2>4. CASE r.doing = "restore" /\ w.site = r.site
    <3>1. t = "backup"
      BY <1>2, <2>4, ThreadOps
    <3>2. Restoring(w.site)'
      BY <2>4, <3>1 DEF Restoring, AnsweredBy
    <3>3. QED
      BY <2>1, <3>2, LiveSame DEF RulesTx
  <2>5. CASE r.doing = "geo" \/ w.site # r.site
    <3>1. Served(w.site)' = Served(w.site)
      BY <1>4, <2>2, <2>5 DEF Served
    <3>2. QED
      BY <2>1, <2>3, <3>1, LiveSame DEF RulesTx
  <2>6. CASE r.doing = "refresh" /\ w.site = r.site
    BY <1>2, <2>2, <2>6, UnderPolicy DEF Answers
  <2>7. QED
    BY <1>3, <2>4, <2>5, <2>6
<1>7. AllLive(w.tx.slots[w.site].accounts) => AllLive(w.tx.slots[w.site].accounts)'
  BY AllLiveStays
<1>8. \A s : PoliciesOf(s)' = PoliciesOf(s)
  BY DEF PoliciesOf
<1>9. RevokeTx(w)'
  BY <1>1, <1>5, <1>6, <1>7, <1>8 DEF RevokeTx
<1>10. QED
  BY <1>1, <1>2, <1>9

(* A policy is written.                                                    *)
LEMMA WrotePolicy ==
  ASSUME AccessInv, NEW t \in Threads, NEW r, NEW q, AnsweredBy(t, r, q), r.doing \in {"apply", "proxy", "refresh"},
         r.p # Null, UNCHANGED accounts, NEW s \in Sites, s = r.site,
         \A c \in Accounts \X Passwords : c \in LetIn(r.tx.slots[s].accounts) => Live(c) \/ Awaits(s, c)',
         Installing(s)' \/ (Managed(s)' /\ \E p \in PoliciesOf(s)' : p.users = r.p.users)
  PROVE  RevokeAt(s)' /\ files'.slots[s] = r.tx.slots[s]
<1>0. "http" \in Threads /\ "geo" \in Threads /\ "backup" \in Threads
  BY DEF Threads
<1>1. Shape(t, r) /\ CallFiles(r) /\ r.pc = "call" /\ Holding(r) /\ lock = t
  BY Actor DEF AnsweredBy, Holding, Answers
<1>2. DOMAIN r.tx.slots = {s} /\ WritesPolicy(r)
  <2>1. CASE r.doing = "apply"
    BY <1>1, <2>1, ShapeBack DEF ApplyShape, Writes
  <2>2. CASE r.doing = "refresh"
    BY <1>1, <2>2, ShapeBack DEF RefreshShape, Writes, Answers
  <2>3. CASE r.doing = "proxy"
    BY <1>1, <2>3, ShapeBack DEF ProxyShape, Writes
  <2>4. QED
    BY <2>1, <2>2, <2>3
<1>3. files'.slots[s] = r.tx.slots[s] /\ files'.access[s] = r.tx.access[s]
  BY <1>1, <1>2, WroteAccess DEF CallFiles
<1>4. files'.access[s].kind = "policy" /\ files'.slots[s].policy = r.p
  BY <1>2, <1>3 DEF WritesPolicy
<1>5. ASSUME NEW c, Lets(s, c)' PROVE c \in LetIn(r.tx.slots[s].accounts)
  <2>1. ~(proc'["geo"] # Null /\ proc'["geo"].doing = "refresh" /\ proc'["geo"].pc = "call")
    <3>1. CASE t = "geo"
      BY <3>1 DEF AnsweredBy
    <3>2. CASE t # "geo"
      BY <1>0, <1>1, <3>2, LetsByUpdate DEF AnsweredBy
    <3>3. QED
      BY <3>1, <3>2
  <2>2. QED
    BY <1>3, <1>4, <1>5, <2>1 DEF Lets, Served, LetIn
<1>6. LetOk(s)'
  BY <1>5, LiveSame DEF LetOk
<1>7. (Installing(s)' => proc'["http"].pc = "done") => FilesOk(s)'
  BY <1>4 DEF FilesOk, RulesOk, KindOk, KnownOk
<1>8. Installing(s)' => proc'["http"].pc = "done"
  <2>1. CASE t = "http"
    BY <2>1 DEF AnsweredBy
  <2>2. ASSUME t # "http", Installing(s)' PROVE FALSE
    <3>1. proc'["http"] = proc["http"]
      BY <1>0, <2>2 DEF AnsweredBy
    <3>2. Holding(proc["http"])
      BY <2>2, <3>1 DEF Installing, Holding
    <3>3. QED
      BY <1>0, <1>1, <2>2, <3>2 DEF AccessInv, Locked
  <2>3. QED
    BY <2>1, <2>2
<1>9. QED
  BY <1>3, <1>6, <1>7, <1>8 DEF RevokeAt

(* An older rule is written.                                               *)
LEMMA WroteRules ==
  ASSUME AccessInv, RevokeInv, GoodR, NEW t \in Threads, NEW r, NEW q, AnsweredBy(t, r, q), r.doing = "rules",
         UNCHANGED <<policy, accounts, rules>>, NEW s \in Sites, s = r.site
  PROVE  RevokeAt(s)' /\ RevokeTx(q)'
<1>0. AccessTyped /\ "http" \in Threads /\ "geo" \in Threads /\ "backup" \in Threads
  BY DEF Threads, AccessInv
<1>1. /\ t = "http" /\ r = proc["http"] /\ r # Null /\ proc'["http"] = q /\ proc'["geo"] = proc["geo"]
      /\ proc'["backup"] = proc["backup"] /\ r.op \in {"rule", "account"} /\ RulesShape(r) /\ CallFiles(r) /\ Bound(r)
      /\ r.pc = "call" /\ q.pc = "done"
      /\ q.op = r.op /\ q.doing = r.doing /\ q.site = r.site /\ q.p = r.p /\ q.tx = r.tx /\ q.row = r.row
  BY <1>0, ThreadOps, ShapeBack DEF AnsweredBy
<1>2. ~Managed(s) /\ (r.op = "rule" => ~Restoring(s))
  BY <1>1 DEF Bound, BoundRule, Answers, Restoring
<1>3. ~Managed(s)'
  BY <1>2 DEF Managed
<1>4. PICK old : old = files.access[s].policy.users
  OBVIOUS
<1>5. /\ r.tx.access[s].policy.users = rules[s]
      /\ s \in DOMAIN r.tx.htpasswd => \A c \in r.tx.htpasswd[s] : Live(c) /\ c[1] \in rules[s]
      /\ r.op = "rule" /\ s \notin DOMAIN r.tx.htpasswd => r.row.old = rules[s]
      /\ r.op = "account" => s \in DOMAIN r.tx.htpasswd
  BY <1>1 DEF RevokeInv, RevokeTx, RulesTx, Answers
<1>6. files'.access[s].kind = "rules" /\ files'.access[s].policy.users = rules[s]
  BY <1>1, <1>5 DEF RulesShape, Writes, CallFiles
<1>7. ASSUME s \notin DOMAIN r.tx.htpasswd, rules[s] # {}
      PROVE  /\ \A c \in files.htpasswd[s] : c[1] \in rules[s]
             /\ \A c \in Accounts \X Passwords : c \in files.htpasswd[s] => Live(c)
  <2>1. r.op = "rule" /\ ~Restoring(s) /\ r.row.old = rules[s]
    BY <1>1, <1>2, <1>5, <1>7
  <2>2. RulesOk(s) /\ KindOk(s) /\ LetOk(s)
    BY <2>1 DEF RevokeInv, RevokeAt, FilesOk
  <2>3. files.access[s].kind = "rules"
    <3>1. files.access[s].kind \in {"rules", "policy"}
      BY <1>0 DEF AccessTyped, Files, Access
    <3>2. QED
      BY <1>1, <1>2, <2>2, <3>1 DEF KindOk, Installing
  <2>4. Ruled(s) = rules[s]
    BY <1>1, <2>1 DEF Ruled
  <2>5. files.access[s].policy.users = rules[s] /\ \A c \in files.htpasswd[s] : c[1] \in rules[s]
    BY <1>7, <2>2, <2>3, <2>4 DEF RulesOk
  <2>6. ASSUME NEW c \in Accounts \X Passwords, c \in files.htpasswd[s] PROVE Live(c)
    <3>1. Lets(s, c)
      BY <1>7, <2>1, <2>3, <2>5, <2>6 DEF Lets, Served
    <3>2. ~Awaits(s, c)
      BY <1>1, <2>1 DEF Awaits
    <3>3. QED
      BY <2>2, <3>1, <3>2 DEF LetOk
  <2>7. QED
    BY <2>5, <2>6
<1>8. files'.htpasswd[s] = (IF s \in DOMAIN r.tx.htpasswd THEN r.tx.htpasswd[s] ELSE files.htpasswd[s])
  BY <1>1 DEF CallFiles
<1>9. Ruled(s)' = rules[s]
  BY <1>1 DEF Ruled, Ruling
<1>10. FilesOk(s)'
  BY <1>3, <1>5, <1>6, <1>7, <1>8, <1>9 DEF FilesOk, RulesOk, KindOk, KnownOk
<1>11. ASSUME NEW c \in Accounts \X Passwords, Lets(s, c)' PROVE Live(c)
  <2>1. ~(proc["geo"] # Null /\ proc["geo"].doing = "refresh" /\ proc["geo"].pc = "call" /\ proc["geo"].site = s)
    BY <1>2, LetsByUpdate
  <2>2. rules[s] # {} /\ c \in files'.htpasswd[s]
    BY <1>1, <1>6, <1>11, <2>1 DEF Lets, Served
  <2>3. QED
    BY <1>5, <1>7, <1>8, <2>2
<1>12. RevokeAt(s)'
  BY <1>10, <1>11, LiveSame DEF RevokeAt, LetOk
<1>13. RulesTx(q)'
  <2>1. r.op = "account" => \A c \in Served(s)' : Live(c)'
    BY <1>5, <1>6, <1>8, LiveSame DEF Served
  <2>2. QED
    BY <1>1, <1>5, <2>1, LiveSame DEF RulesTx
<1>14. QED
  BY <1>1, <1>12, <1>13 DEF RevokeTx

(* A call was answered.                                                    *)
LEMMA AnsweredRevoked ==
  ASSUME AccessInv, RevokeInv, NEW t \in Threads, NEW r, NEW q, AnsweredBy(t, r, q), Grows,
         UNCHANGED <<policy, accounts, rules>>
  PROVE  RevokeInv'
<1>0. AccessTyped /\ "http" \in Threads /\ "geo" \in Threads /\ "backup" \in Threads
  BY DEF Threads, AccessInv
<1>1. SUFFICES ASSUME GoodR, GoodR' PROVE (\A s \in Sites : RevokeAt(s)') /\ (proc'["http"] # Null => RevokeTx(proc["http"])')
  BY RevokeStep
<1>2. \A s \in Sites : RevokeAt(s)
  BY <1>1 DEF RevokeInv
<1>3. /\ r \in Work /\ r = proc[t] /\ r # Null /\ r.pc = "call" /\ Shape(t, r) /\ Bound(r) /\ Read(r) /\ proc'[t] = q
      /\ q # Null /\ q.pc = "done" /\ q.op = r.op /\ q.doing = r.doing /\ q.site = r.site /\ q.p = r.p /\ q.tx = r.tx
  BY <1>1, GoodRGood DEF AnsweredBy
<1>4. /\ r.doing \in {"apply", "proxy", "refresh", "rules", "restore", "geo"}
      /\ r.doing # "geo" => r.site \in Sites
  BY CallKeeps
<1>5. ASSUME NEW s \in Sites, r.doing = "geo" \/ s # r.site PROVE RevokeAt(s)'
  <2>1. KeptAt(s) /\ files'.htpasswd[s] = files.htpasswd[s]
    BY <1>5, GeoKeeps, CallKeeps DEF KeptAt
  <2>2. QED
    BY <1>2, <1>5, <2>1, CallElsewhere
<1>6. t # "http" /\ proc'["http"] # Null => RevokeTx(proc["http"])'
  <2>1. SUFFICES ASSUME t # "http", proc'["http"] # Null PROVE RevokeTx(proc["http"])'
    OBVIOUS
  <2>2. proc["http"] # Null
    BY <1>0, <2>1 DEF AnsweredBy
  <2>3. QED
    BY <1>1, <2>1, <2>2, OthersTx DEF RevokeInv
<1>7. t = "http" => RevokeTx(r)
  BY <1>1, <1>3 DEF RevokeInv
<1>8. CASE r.doing = "geo"
  <2>1. t # "http"
    BY <1>3, <1>8, ThreadOps
  <2>2. QED
    BY <1>5, <1>6, <1>8, <2>1
<1>9. CASE r.doing = "restore"
  <2>1. t = "backup"
    BY <1>3, <1>9, ThreadOps
  <2>2. ASSUME NEW s \in Sites, s = r.site PROVE RevokeAt(s)'
    <3>1. Restoring(s)'
      BY <1>3, <2>1, <2>2 DEF Restoring
    <3>2. ~(proc'["geo"] # Null /\ proc'["geo"].doing = "refresh" /\ proc'["geo"].pc = "call")
      <4>1. lock = "backup"
        BY <1>0, <1>3, <1>9, <2>1, Actor DEF Holding
      <4>2. proc'["geo"] = proc["geo"]
        BY <1>0, <2>1 DEF AnsweredBy
      <4>3. QED
        BY <4>1, <4>2, LetsByUpdate
    <3>3. QED
      BY <3>1, <3>2 DEF RevokeAt, LetOk, Lets
  <2>3. QED
    BY <1>5, <1>6, <2>1, <2>2
<1>10. CASE r.doing = "rules"
  <2>1. t = "http"
    BY <1>3, <1>10, ThreadOps
  <2>2. \A s \in Sites : s = r.site => RevokeAt(s)' /\ RevokeTx(q)'
    BY <1>1, <1>10, WroteRules
  <2>3. QED
    BY <1>3, <1>4, <1>5, <1>10, <2>1, <2>2
<1>11. CASE r.doing = "proxy" /\ r.p = Null
  <2>1. t = "http" /\ ProxyShape(r) /\ CallFiles(r)
    BY <1>3, <1>11, ThreadOps, ShapeBack DEF AnsweredBy
  <2>2. ASSUME NEW s \in Sites PROVE RevokeAt(s)'
    <3>1. DOMAIN r.tx.access = {} /\ DOMAIN r.tx.slots = {} /\ r.tx.htpasswd = Nothing
      BY <1>3, <1>11, <2>1, NullIsNone DEF ProxyShape, Writes, WritesPolicy
    <3>2. KeptAt(s) /\ files'.htpasswd[s] = files.htpasswd[s]
      BY <2>1, <3>1 DEF CallFiles, KeptAt, Nothing
    <3>3. QED
      BY <1>2, <1>11, <3>2, CallElsewhere
  <2>3. RevokeTx(q)'
    BY <1>3, <1>11 DEF RevokeTx, RulesTx
  <2>4. QED
    BY <1>3, <2>1, <2>2, <2>3
<1>12. CASE r.doing \in {"apply", "proxy"} /\ r.p # Null
  <2>1. t = "http"
    BY <1>3, <1>12, ThreadOps
  <2>2. AllLive(r.tx.slots[r.site].accounts)
    BY <1>3, <1>7, <1>12, <2>1 DEF RevokeTx
  <2>3. ASSUME NEW s \in Sites, s = r.site PROVE RevokeAt(s)'
    <3>1. Installing(s)'
      BY <1>3, <1>12, <2>1, <2>3 DEF Installing, AnsweredBy
    <3>2. QED
      BY <1>12, <2>2, <2>3, <3>1, WrotePolicy DEF AllLive
  <2>4. RevokeTx(q)'
    BY <1>3, <1>12 DEF RevokeTx, RulesTx
  <2>5. QED
    BY <1>3, <1>5, <2>1, <2>3, <2>4
<1>13. CASE r.doing = "refresh"
  <2>1. /\ t \in {"http", "geo"} /\ r.site \in Sites /\ Managed(r.site) /\ r.p = policy[r.site].applied
        /\ r.p \in Policy /\ RefreshShape(r)
    BY <1>3, <1>13, ThreadOps, ShapeBack, UnderPolicy DEF Read, Answers, RefreshShape, WritesPolicy, Threads
  <2>2. PICK s \in Sites : s = r.site
    BY <2>1
  <2>3. Managed(s)' /\ r.p \in PoliciesOf(s)'
    BY <2>1, <2>2, NullIsNone DEF Managed, PoliciesOf
  <2>4. ASSUME NEW c \in Accounts \X Passwords, c \in LetIn(r.tx.slots[s].accounts) PROVE Live(c) \/ Awaits(s, c)'
    <3>1. CASE t = "http"
      BY <1>3, <1>7, <1>13, <2>2, <2>4, <3>1 DEF RevokeTx, AllLive
    <3>2. CASE t = "geo"
      <4>1. Lets(s, c)
        BY <1>3, <1>13, <2>2, <2>4, <3>2 DEF Lets
      <4>2. proc'["http"] = proc["http"] /\ Managed(s)' = Managed(s)
        BY <1>0, <3>2 DEF AnsweredBy, Managed
      <4>3. Awaits(s, c) => Awaits(s, c)'
        BY <4>2, AwaitsSame
      <4>4. QED
        BY <1>2, <4>1, <4>3 DEF RevokeAt, LetOk
    <3>3. QED
      BY <2>1, <3>1, <3>2
  <2>5. RevokeAt(s)' /\ files'.slots[s] = r.tx.slots[s]
    BY <1>13, <2>1, <2>2, <2>3, <2>4, NullIsNone, WrotePolicy
  <2>6. t = "http" => RevokeTx(q)'
    <3>1. SUFFICES ASSUME t = "http" PROVE RevokeTx(q)'
      OBVIOUS
    <3>2. AllLive(r.tx.slots[s].accounts)
      BY <1>3, <1>7, <1>13, <2>2, <3>1 DEF RevokeTx
    <3>3. AllLive(files.slots[s].accounts)'
      BY <2>5, <3>2, LiveSame DEF AllLive, LetIn
    <3>4. QED
      BY <1>3, <1>13, <2>2, <3>3 DEF RevokeTx, RulesTx
  <2>7. QED
    BY <1>3, <1>5, <1>6, <2>2, <2>5, <2>6
<1>14. \/ r.doing = "geo" \/ r.doing = "restore" \/ r.doing = "rules" \/ (r.doing = "proxy" /\ r.p = Null)
       \/ (r.doing \in {"apply", "proxy"} /\ r.p # Null) \/ r.doing = "refresh" \/ r.doing = "apply"
  BY <1>4
<1>15. r.doing = "apply" => r.p # Null
  BY <1>3, ShapeBack, NullIsNone DEF ApplyShape, WritesPolicy
<1>16. QED
  BY <1>8, <1>9, <1>10, <1>11, <1>12, <1>13, <1>14, <1>15

(* A call failed: nothing was written.                                     *)
LEMMA UnansweredRevoked ==
  ASSUME AccessInv, RevokeInv, NEW t \in Threads, NEW r \in Work, r = proc[t], r # Null, r.pc = "call",
         NEW q \in Work, q = [r EXCEPT !.pc = "failed"], Becomes(t, q), Grows,
         UNCHANGED <<policy, accounts, rules, files>>
  PROVE  RevokeInv'
<1>0. AccessTyped /\ "http" \in Threads /\ "geo" \in Threads /\ "backup" \in Threads
  BY DEF Threads, AccessInv
<1>1. /\ q.pc = "failed" /\ q.op = r.op /\ q.doing = r.doing /\ q.site = r.site /\ q.p = r.p /\ q.tx = r.tx /\ q.row = r.row
      /\ q.todo = r.todo /\ q.errs = r.errs /\ q.account = r.account /\ q # Null
  <2>1. PICK x \in {"done", "failed"} : x = "failed"
    OBVIOUS
  <2>2. Shape(t, r) /\ q = [r EXCEPT !.pc = x]
    BY <2>1, Actor
  <2>3. QED
    BY <2>1, <2>2, Answered, NullIsNone
<1>2. proc'[t] = q /\ \A u \in Threads \ {t} : proc'[u] = proc[u]
  BY <1>0, Turned
<1>3. \A s \in Sites : RowStays(s)
  BY SameStatus, StatusStays
<1>4. CASE t = "backup"
  <2>1. \A s : Restoring(s)' <=> Restoring(s)
    BY <1>1, <1>2, <1>4 DEF Restoring
  <2>2. QED
    BY <1>0, <1>2, <1>4, <2>1, RevokeSame
<1>5. CASE t = "geo"
  BY <1>1, <1>3, <1>5, UpdateTurn
<1>6. CASE t = "http"
  <2>1. proc'["http"] = q /\ proc["http"] = r
    BY <1>2, <1>6
  <2>2. GoodR /\ GoodR' /\ q # Null => RevokeTx(q)'
    <3>1. SUFFICES ASSUME GoodR PROVE RevokeTx(q)'
      OBVIOUS
    <3>2. RevokeTx(r)
      BY <2>1, <3>1 DEF RevokeInv
    <3>3. RulesTx(q)'
      BY <1>1, <3>2, LiveSame DEF RevokeTx, RulesTx, Answers
    <3>4. \A s : PoliciesOf(s)' = PoliciesOf(s)
      BY DEF PoliciesOf
    <3>5. QED
      BY <1>1, <3>2, <3>3, <3>4 DEF RevokeTx
  <2>3. CASE r.op # "account"
    <3>1. ASSUME NEW s \in Sites, FilesOk(s) PROVE FilesOk(s)'
      <4>1. Ruled(s)' = Ruled(s) /\ (Installing(s)' <=> Installing(s))
        BY <1>1, <2>1 DEF Ruled, Ruling, Installing
      <4>2. QED
        BY <2>1, <3>1, <4>1, <1>3 DEF FilesOk, RulesOk, KindOk, KnownOk, RowStays
    <3>2. QED
      BY <1>6, <2>1, <2>2, <2>3, <3>1, RevokeTurn DEF AccountsStay
  <2>4. CASE r.op = "account"
    <3>1. ASSUME NEW s \in Sites, NEW c, Live(c) \/ Awaits(s, c) PROVE Live(c)' \/ Awaits(s, c)'
      BY <1>1, <1>3, <2>1, <3>1, LiveSame, NullIsNone DEF Awaits, RowStays
    <3>2. QED
      BY <1>1, <1>3, <1>6, <2>1, <2>2, <2>4, <3>1, AccountTurn
  <2>5. QED
    BY <2>3, <2>4
<1>7. QED
  BY <1>4, <1>5, <1>6 DEF Threads

LEMMA CallRevoked == ASSUME AccessInv, RevokeInv, NEW t \in Threads, Call(t) PROVE RevokeInv'
<1>1. Grows /\ UNCHANGED <<policy, accounts, rules>>
  BY CallEnds DEF tables
<1>2. CASE {"lost", "overlap"} \cap spent'.mishaps # {}
  BY <1>2, NotGoodR DEF RevokeInv
<1>3. CASE /\ UNCHANGED files /\ Moves(t) /\ proc[t] # Null /\ proc[t].pc = "call"
           /\ \E q \in Work : q = [proc[t] EXCEPT !.pc = "failed"] /\ proc'[t] = q
  <2>1. PICK q \in Work : q = [proc[t] EXCEPT !.pc = "failed"] /\ proc'[t] = q
    BY <1>3
  <2>2. PICK r \in Work : r = proc[t]
    BY <1>3, Actor
  <2>3. PICK x : Becomes(t, x)
    BY DEF Call
  <2>4. Becomes(t, q)
    BY <2>1, <2>3, Turned DEF AccessInv
  <2>5. QED
    BY <1>1, <1>3, <2>1, <2>2, <2>4, UnansweredRevoked
<1>4. CASE \E r, q \in Work : AnsweredBy(t, r, q)
  BY <1>1, <1>4, AnsweredRevoked
<1>5. QED
  BY <1>2, <1>3, <1>4, CallEnds

LEMMA RevokeNext == ASSUME AccessInv, ServedInv, RevokeInv, Next PROVE RevokeInv'
<1>1. AccessInv'
  BY AccessNext
<1>2. QED
  BY <1>1, RequestRevoked, HandlerRevoked, RefreshRevoked, BesideRevoked, CallRevoked, CrashRevoked DEF Next

(* Once the change of an account is answered no site lets in its old       *)
(* password, nor a disabled or a deleted account, unless the change could  *)
(* neither be carried out nor undone, or a restore or an unmarked policy   *)
(* brought the account back (authaccount/service.go Update, Delete;        *)
(* accesslimit/service.go RefreshAccountRules).                            *)
THEOREM RevokedLoginIsOut == Spec => []RevokedIsOut
<1>1. ASSUME AccessInv, RevokeInv PROVE RevokedIsOut
  <2>1. SUFFICES ASSUME GoodR, proc["http"] = Null \/ proc["http"].op # "account",
                        NEW s \in Sites, ~Leased(s), NEW c \in Served(s)
                 PROVE  Live(c)
    BY DEF RevokedIsOut, GoodR, Steady, Without, Live
  <2>2. "backup" \in Threads /\ AccessTyped
    BY <1>1 DEF Threads, AccessInv
  <2>3. ~Restoring(s)
    <3>1. SUFFICES ASSUME Restoring(s) PROVE FALSE
      OBVIOUS
    <3>2. lock = "backup"
      BY <1>1, <3>1, NotRestoring
    <3>3. Shape("backup", proc["backup"]) /\ proc["backup"] # Null
      BY <1>1, <2>2, <3>1, Actor DEF Restoring
    <3>4. proc["backup"].op = "restore"
      BY <2>2, <3>3, ThreadOps
    <3>5. QED
      BY <2>1, <2>2, <3>1, <3>2, <3>4, NullIsNone DEF Leased, Restoring
  <2>4. c \in Accounts \X Passwords
    <3>1. files.slots[s] \in Slots /\ files.htpasswd[s] \subseteq Accounts \X Passwords
      BY <2>2 DEF AccessTyped, Files, Logins
    <3>2. PICK users \in SUBSET Accounts : files.slots[s].accounts \in [users -> Account]
      BY <3>1 DEF Slots
    <3>3. LetIn(files.slots[s].accounts) \subseteq Accounts \X Passwords
      BY <3>2 DEF LetIn, Account
    <3>4. QED
      BY <2>1, <3>1, <3>3 DEF Served
  <2>5. LetOk(s) /\ Lets(s, c) /\ ~Awaits(s, c)
    BY <1>1, <2>1, <2>3 DEF RevokeInv, RevokeAt, Lets, Awaits
  <2>6. QED
    BY <2>4, <2>5 DEF LetOk
<1>2. Init => AccessInv /\ ServedInv /\ RevokeInv
  BY AccessInit, ServedInit, RevokeInit
<1>3. ASSUME AccessInv /\ ServedInv /\ RevokeInv, [Next]_vars PROVE (AccessInv /\ ServedInv /\ RevokeInv)'
  BY <1>3, AccessNext, AccessStutter, ServedNext, ServedStutter, RevokeNext, RevokeStutter
<1>4. QED
  BY <1>1, <1>2, <1>3, PTL DEF Spec
====
