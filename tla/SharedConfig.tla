------------------------------ MODULE SharedConfig ------------------------------
(* The files of nginx that all sites share: the main configuration           *)
(* (internal/nginxconf), the upstreams (internal/upstream), the default      *)
(* server and the catch-all of HTTPS (internal/settings), and the cache that *)
(* the reverse proxies share (internal/proxy), with the transactions and the *)
(* installation of the include on the agent's side (internal/agent).         *)
(*                                                                           *)
(* configurationWriteMu lets one request that changes something run at a     *)
(* time (`http'); a renewal in the background (`job') rewrites the file of a *)
(* site beside it, and a call that the panel has given up (`old') goes on.   *)
(* A file is what the others depend on: the text of the main configuration   *)
(* and whether it has the include, the servers of each upstream, and of a    *)
(* site the upstream it names, default_server and the use of the cache.      *)
EXTENDS Naturals, FiniteSets

CONSTANTS
  Pools,         \* upstreams
  Sites,         \* sites that listen on port 80
  SslSites,      \* those that listen on port 443 too
  MaxVersion,    \* bound: contents of an upstream, and texts of the main file
  MaxOps,        \* bound: requests and renewals
  MaxOpFaults,   \* bound: failures, lost answers
  None

Common == {"main", "pools", "https", "cache"}
SharedFiles == Sites \cup Common
Threads == {"http", "job"}
Calls == Threads \cup {"old"}

\* What a file can hold; what a request and the agent's side of it are.
Main == [text : Nat, include : BOOLEAN]
SiteFile == [up : Pools \cup {None}, cache : BOOLEAN, default : BOOLEAN]
Servers == [Pools -> Nat]
Content == Main \cup SiteFile \cup Servers \cup BOOLEAN
Changes == UNION {[some -> Content] : some \in SUBSET SharedFiles}
PanelRequest == [op : {"pools", "proxy", "default", "hijack", "main", "include", "renew"},
            pc : {"read", "call", "done"}, site : Sites \cup {None},
            value : Servers \cup BOOLEAN \cup Sites \cup {None}]
AgentCall == [do : {"files", "include"}, pc : {"lock", "test", "look", "write"}, changes : Changes,
         before : Changes \cup Main, test : BOOLEAN, left : BOOLEAN, ans : {"none", "ok", "failed"}]

ASSUME SharedAssumption ==
  /\ SslSites \subseteq Sites /\ MaxVersion \in Nat \ {0}
  /\ \A s \in Sites : s # None /\ s \notin Common
  /\ None \notin Calls /\ None \notin Servers /\ None \notin PanelRequest /\ None \notin AgentCall

VARIABLES
  pool,          \* the tables of upstreams: content, 0 for none
  uses,          \* site_proxy: the upstream, and the cache of nginx
  setting,       \* the settings default_site and https_hijack
  applied,       \* nginx_upstream_applied_state: what the hash is of
  disk,          \* the files
  lock,          \* the call that holds transactionMu
  request,       \* what each goroutine of the panel is doing
  call,          \* the agent's side of its call
  spent          \* what the bounds count; history: an answer or a record about
                 \* the upstreams is missing, a call that was given up applied
                 \* them, the include was installed beside a transaction or
                 \* beside another installation

sharedVars == <<pool, uses, setting, applied, disk, lock, request, call, spent>>
rows == <<pool, uses, setting, applied>>

Broken == 0

Only(f, content) == [g \in {f} |-> content]
\* The files once some of them were written.
Rewritten(changes, d) == [f \in DOMAIN d |-> IF f \in DOMAIN changes THEN changes[f] ELSE d[f]]

(* What nginx -t makes of the files: without the include it reads none of    *)
(* the panel's; two default servers of a port, an upstream or a cache zone   *)
(* that is not there are errors.                                             *)
Loads(d) ==
  /\ d["main"].text # Broken
  /\ d["main"].include =>
       LET defaults == {s \in Sites : d[s].default}
       IN /\ \A s \in Sites : d[s].up # None => d["pools"][d[s].up] # 0
          /\ Cardinality(defaults) <= 1
          /\ d["https"] => defaults \cap SslSites = {}
          /\ \A s \in Sites : d[s].cache => d["cache"]

SharedInit ==
  /\ pool = [u \in Pools |-> 0]
  /\ uses = [s \in Sites |-> [up |-> None, cache |-> FALSE]]
  /\ setting = [default |-> None, hijack |-> FALSE]
  /\ applied = None
  /\ disk = [f \in SharedFiles |->
       CASE f = "main"               -> [text |-> 1, include |-> FALSE]
         [] f = "pools"              -> pool
         [] f \in {"https", "cache"} -> FALSE
         [] OTHER                    -> [up |-> None, cache |-> FALSE, default |-> FALSE]]
  /\ lock = None
  /\ request = [t \in Threads |-> None]
  /\ call = [c \in Calls |-> None]
  /\ spent = [ops |-> 0, faults |-> 0, unsure |-> FALSE, late |-> FALSE, overlap |-> FALSE]

Failing == spent.faults < MaxOpFaults /\ spent' = [spent EXCEPT !.faults = @ + 1]

-----------------------------------------------------------------------------
(* Requests.  One begins with a row, or with a look at a file, and then      *)
(* sends what the files shall be.                                            *)

Idle(t) == request[t] = None /\ call[t] = None /\ spent.ops < MaxOps

Requested(t, op, pc, site, value) ==
  /\ request' = [request EXCEPT ![t] = [op |-> op, pc |-> pc, site |-> site, value |-> value]]
  /\ spent' = [spent EXCEPT !.ops = @ + 1]

(* Wrong: nothing looks at the files before the reload.                      *)
Untested(changes) ==
  [do |-> "files", pc |-> "lock", changes |-> changes, before |-> << >>,
   test |-> FALSE, left |-> FALSE, ans |-> "none"]

Transaction(changes) ==
  [do |-> "files", pc |-> "lock", changes |-> changes, before |-> << >>,
   test |-> TRUE, left |-> FALSE, ans |-> "none"]

Send(t, changes) == call' = [call EXCEPT ![t] = Transaction(changes)]

\* Create, Update, Delete, Sync: under s.mu the rows, then all of them as one
\* file.  An upstream that a proxy's row names is not deleted.
Referenced(u) == \E s \in Sites : uses[s].up = u

WritePool(u) ==
  \E v \in 0..MaxVersion :
    /\ pool[u] = 0 => v # 0
    /\ v = 0 => ~Referenced(u)
    /\ pool' = [pool EXCEPT ![u] = v]

SaveUpstream(u) ==
  /\ Idle("http")
  /\ WritePool(u)
  /\ Requested("http", "pools", "call", None, pool') /\ Send("http", Only("pools", pool'))
  /\ UNCHANGED <<uses, setting, applied, disk, lock>>

SyncUpstreams ==
  /\ Idle("http")
  /\ Requested("http", "pools", "call", None, pool) /\ Send("http", Only("pools", pool))
  /\ UNCHANGED <<rows, disk, lock>>

\* resolveTarget: an address, or an upstream that there is.
Targets == {None} \cup {u \in Pools : pool[u] # 0}

\* The row of a site's proxies, and then its file.
ChangeProxy(s) ==
  /\ Idle("http")
  /\ \E u \in Targets, c \in BOOLEAN :
       uses[s] # [up |-> u, cache |-> c] /\ uses' = [uses EXCEPT ![s] = [up |-> u, cache |-> c]]
  /\ Requested("http", "proxy", "read", s, None)
  /\ UNCHANGED <<pool, setting, applied, disk, lock, call>>

UpdateDefaultSite(new) ==
  /\ Idle("http")
  /\ IF new = setting.default THEN Requested("http", "default", "done", None, new)
     ELSE Requested("http", "default", "read", setting.default, new)
  /\ UNCHANGED <<rows, disk, lock, call>>

\* ensureSelfSignedCert writes its certificate before, in files of its own.
UpdateHTTPSHijack(on) ==
  /\ Idle("http")
  /\ Requested("http", "hijack", "call", None, on) /\ Send("http", Only("https", on))
  /\ UNCHANGED <<rows, disk, lock>>

SaveNginxConf ==
  /\ Idle("http")
  /\ Requested("http", "main", "call", None, None)
  /\ \E x \in 0..MaxVersion, i \in BOOLEAN : Send("http", Only("main", [text |-> x, include |-> i]))
  /\ UNCHANGED <<rows, disk, lock>>

SaveNginxParameters ==
  /\ Idle("http") /\ Requested("http", "main", "read", None, None)
  /\ UNCHANGED <<rows, disk, lock, call>>

EnsureInclude ==
  /\ Idle("http") /\ Requested("http", "include", "call", None, None)
  /\ call' = [call EXCEPT !["http"] = [Transaction(<< >>) EXCEPT !.do = "include", !.pc = "look"]]
  /\ UNCHANGED <<rows, disk, lock>>

Renew(s) ==
  /\ Idle("job") /\ Requested("job", "renew", "read", s, None)
  /\ UNCHANGED <<rows, disk, lock, call>>

-----------------------------------------------------------------------------
(* What is written comes from what is read here.                             *)

Reading(t, op) == request[t] # None /\ request[t].op = op /\ request[t].pc = "read"
Sent(t) == request' = [request EXCEPT ![t].pc = "call"]

\* applyNginxConfig: the file of the site, and the file of the cache, which
\* all sites share and which goes when this site needs none.
ReadForProxy ==
  /\ Reading("http", "proxy")
  /\ LET s == request["http"].site
         file == [disk[s] EXCEPT !.up = uses[s].up, !.cache = uses[s].cache]
     IN Send("http", [f \in {s, "cache"} |-> IF f = s THEN file ELSE uses[s].cache])
  /\ Sent("http")
  /\ UNCHANGED <<rows, disk, lock, spent>>

\* A failure to read the old default's file only leaves it as it is; without a
\* new one nothing is sent, and the setting is written all the same.
ReadForDefault ==
  /\ Reading("http", "default")
  /\ LET old     == request["http"].site
         new     == request["http"].value
         File(s) == [disk[s] EXCEPT !.default = (s = new)]
     IN \/ Send("http", [s \in {old, new} \ {None} |-> File(s)]) /\ Sent("http") /\ spent' = spent
        \/ None \notin {old, new} /\ Send("http", Only(new, File(new))) /\ Sent("http") /\ Failing
        \/ new = None /\ request' = [request EXCEPT !["http"].pc = "done"] /\ call' = call /\ Failing
  /\ UNCHANGED <<rows, disk, lock>>

\* ApplyParameters changes the text around the include.
ReadForParameters ==
  /\ Reading("http", "main")
  /\ \E x \in 0..MaxVersion : Send("http", Only("main", [disk["main"] EXCEPT !.text = x]))
  /\ Sent("http")
  /\ UNCHANGED <<rows, disk, lock, spent>>

ReadForRenewal ==
  /\ Reading("job", "renew")
  /\ LET s == request["job"].site IN Send("job", Only(s, disk[s]))
  /\ Sent("job")
  /\ UNCHANGED <<rows, disk, lock, spent>>

-----------------------------------------------------------------------------
(* The agent: a transaction holds transactionMu from its first change to     *)
(* the answer; the installation of the include does not.                     *)

Doing(c, what, pc) ==
  call[c] # None /\ call[c].ans = "none" /\ call[c].do = what /\ call[c].pc = pc

ReplyTo(c, ans) == call' = [call EXCEPT ![c] = IF @.left THEN None ELSE [@ EXCEPT !.ans = ans]]

Touches(c, f) == call[c] # None /\ call[c].ans = "none" /\ f \in DOMAIN call[c].changes
Installing == \E c \in Calls : call[c] # None /\ call[c].do = "include" /\ call[c].ans = "none"
                                /\ call[c].pc # "look"

\* The end of the request's context is seen under the lock, or not yet.
Refuse(c) ==
  /\ Doing(c, "files", "lock") /\ lock = None /\ call[c].left
  /\ ReplyTo(c, "failed")
  /\ UNCHANGED <<rows, disk, lock, request, spent>>

Apply(c) ==
  /\ Doing(c, "files", "lock") /\ lock = None /\ lock' = c
  /\ disk' = Rewritten(call[c].changes, disk)
  /\ call' = [call EXCEPT ![c].pc = "test", ![c].before = [f \in DOMAIN call[c].changes |-> disk[f]]]
  /\ spent' = [spent EXCEPT !.late = @ \/ (call[c].left /\ Touches(c, "pools")),
                            !.overlap = @ \/ Installing]
  /\ UNCHANGED <<rows, request>>

Keep(c) ==
  /\ Doing(c, "files", "test") /\ (call[c].test => Loads(disk))
  /\ ReplyTo(c, "ok") /\ lock' = None
  /\ UNCHANGED <<rows, disk, request, spent>>

\* nginx -t, the reload, or the context's end.
RollBack(c) ==
  /\ Doing(c, "files", "test")
  /\ IF (call[c].test /\ ~Loads(disk)) \/ call[c].left THEN spent' = spent ELSE Failing
  /\ disk' = Rewritten(call[c].before, disk)
  /\ ReplyTo(c, "failed") /\ lock' = None
  /\ UNCHANGED <<rows, request>>

\* handleNginxEnsureInclude: there already, or the main file is read.
Look(c) ==
  /\ Doing(c, "include", "look")
  /\ IF disk["main"].include /\ Loads(disk)
       THEN ReplyTo(c, "ok") /\ spent' = spent
       ELSE /\ call' = [call EXCEPT ![c].pc = "write", ![c].before = disk["main"]]
            /\ spent' = [spent EXCEPT !.overlap = @ \/ lock # None \/ Installing]
  /\ UNCHANGED <<rows, disk, lock, request>>

WriteInclude(c) ==
  /\ Doing(c, "include", "write")
  /\ disk' = [disk EXCEPT !["main"] = [call[c].before EXCEPT !.include = TRUE]]
  /\ call' = [call EXCEPT ![c].pc = "test"]
  /\ UNCHANGED <<rows, lock, request, spent>>

TestInclude(c) ==
  /\ Doing(c, "include", "test")
  /\ IF Loads(disk) THEN ReplyTo(c, "ok") /\ disk' = disk
     ELSE ReplyTo(c, "failed") /\ disk' = [disk EXCEPT !["main"] = call[c].before]
  /\ UNCHANGED <<rows, lock, request, spent>>

-----------------------------------------------------------------------------
(* The answer.                                                               *)

Ends(t) == request' = [request EXCEPT ![t] = None]

(* Wrong: what the agent answered is not looked at.                          *)
ReturnsAnyway(t) ==
  /\ call[t] # None /\ call[t].ans # "none"
  /\ call' = [call EXCEPT ![t] = None] /\ request' = [request EXCEPT ![t].pc = "done"]
  /\ UNCHANGED <<rows, disk, lock, spent>>

\* A failed call leaves the rows as they are, ahead of the files.
CallReturns(t) ==
  /\ call[t] # None /\ call[t].ans # "none"
  /\ call' = [call EXCEPT ![t] = None]
  /\ IF call[t].ans = "ok" THEN request' = [request EXCEPT ![t].pc = "done"] ELSE Ends(t)
  /\ UNCHANGED <<rows, disk, lock, spent>>

\* The agent is not reached.
Unreached(t) ==
  /\ call[t] # None /\ call[t].pc \in {"lock", "look"} /\ call[t].ans = "none" /\ Failing
  /\ call' = [call EXCEPT ![t] = None] /\ Ends(t)
  /\ UNCHANGED <<rows, disk, lock>>

\* Nobody waits for the answer any more, which the panel takes for a failure.
Abandon ==
  /\ call["http"] # None /\ call["http"].ans = "none" /\ call["old"] = None
  /\ spent.faults < MaxOpFaults
  /\ spent' = [spent EXCEPT !.faults = @ + 1, !.unsure = @ \/ Touches("http", "pools")]
  /\ call' = [call EXCEPT !["http"] = None, !["old"] = [call["http"] EXCEPT !.left = TRUE]]
  /\ lock' = IF lock = "http" THEN "old" ELSE lock
  /\ Ends("http")
  /\ UNCHANGED <<rows, disk>>

Done(t, op) == request[t] # None /\ request[t].op = op /\ request[t].pc = "done"

\* RecordApplied: what was rendered for this request.
RecordApplied ==
  /\ Done("http", "pools")
  /\ \/ applied' = request["http"].value /\ spent' = [spent EXCEPT !.unsure = FALSE]
     \/ /\ spent.faults < MaxOpFaults /\ applied' = applied
        /\ spent' = [spent EXCEPT !.faults = @ + 1, !.unsure = TRUE]
  /\ Ends("http")
  /\ UNCHANGED <<pool, uses, setting, disk, lock, call>>

SetSetting ==
  /\ \/ Done("http", "default") /\ setting' = [setting EXCEPT !.default = request["http"].value]
     \/ Done("http", "hijack") /\ setting' = [setting EXCEPT !.hijack = request["http"].value]
  /\ Ends("http")
  /\ UNCHANGED <<pool, uses, applied, disk, lock, call, spent>>

SetFails ==
  /\ Done("http", "default") \/ Done("http", "hijack")
  /\ Failing /\ Ends("http")
  /\ UNCHANGED <<rows, disk, lock, call>>

Finish(t) ==
  /\ \E op \in {"proxy", "main", "include", "renew"} : Done(t, op)
  /\ Ends(t)
  /\ UNCHANGED <<rows, disk, lock, call, spent>>

SharedNext ==
  \/ \E u \in Pools : SaveUpstream(u)
  \/ SyncUpstreams
  \/ \E s \in Sites : ChangeProxy(s) \/ Renew(s)
  \/ \E s \in Sites \cup {None} : UpdateDefaultSite(s)
  \/ \E on \in BOOLEAN : UpdateHTTPSHijack(on)
  \/ SaveNginxConf \/ SaveNginxParameters \/ EnsureInclude
  \/ ReadForProxy \/ ReadForDefault \/ ReadForParameters \/ ReadForRenewal
  \/ \E c \in Calls : Refuse(c) \/ Apply(c) \/ Keep(c) \/ RollBack(c)
                      \/ Look(c) \/ WriteInclude(c) \/ TestInclude(c)
  \/ \E t \in Threads : CallReturns(t) \/ Unreached(t) \/ Finish(t)
  \/ Abandon \/ RecordApplied \/ SetSetting \/ SetFails

SharedSpec == SharedInit /\ [][SharedNext]_sharedVars

-----------------------------------------------------------------------------
(* Between transactions the files load, whichever request, renewal or        *)
(* abandoned call wrote them last: one site's change cannot leave another's  *)
(* upstream, cache or default server broken.  Unless the include was         *)
(* installed, outside the lock, beside a transaction or another              *)
(* installation, which restores the main file that it has read.              *)
EveryFileLoads ==
  lock = None /\ ~Installing /\ ~spent.overlap => Loads(disk)

(* What the panel shows as synchronised is on the disk: the hash recorded    *)
(* last equals that of the rows only if the file holds them, unless an       *)
(* answer or a record was lost since or a lost call came late.               *)
SyncedIsTrue ==
  ~spent.unsure /\ ~spent.late /\ request["http"] = None /\ applied = pool => disk["pools"] = pool
=============================================================================
