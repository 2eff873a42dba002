------------------------------- MODULE SiteProxies -------------------------------
(***************************************************************************)
(* The reverse proxy of a site and the policy rule that follows it:        *)
(* internal/proxy/service.go with internal/accesspolicy/proxy.go.  The     *)
(* proxies' own passwords and caches, and their upstreams, are left out.   *)
(***************************************************************************)
EXTENDS AccessLimits

(* ProxyWriteGuard.                                                        *)
ProxyGuard(s, sync) ==
  policy[s] # Null =>
    Managed(s) /\ (policy[s].status = "applied" \/ (sync /\ policy[s].fromProxy))

(* The row first, under writeMu; the files follow (RenderProxy).           *)
WriteProxy(s, new) ==
  /\ ProxyGuard(s, FALSE) /\ Serve /\ Take("http")
  /\ proxies' = [proxies EXCEPT ![s] = new]
  /\ Becomes("http", [Idle EXCEPT !.op = "proxy", !.doing = "proxy", !.pc = "render", !.site = s])
  /\ UNCHANGED <<policy, accounts, rules, geo, files, backups, editor>>

CreateProxy(s, new) == proxies[s] = Null /\ WriteProxy(s, new)
UpdateProxy(s, new) == proxies[s] \notin {Null, new} /\ WriteProxy(s, new)
DeleteProxy(s)      == proxies[s] # Null /\ WriteProxy(s, Null)

SyncProxy(s) ==
  /\ ProxyGuard(s, TRUE) /\ Serve /\ Take("http")
  /\ Becomes("http", [Idle EXCEPT !.op = "proxy", !.doing = "proxy", !.pc = "render", !.site = s])
  /\ UNCHANGED <<tables, files, backups, editor>>

(* Wrong: the linked rule keeps the path it had.                           *)
Unlinked(p, proxy) ==
  IF proxy = Null THEN [p EXCEPT !.link = Null, !.off = FALSE]
  ELSE [p EXCEPT !.off = p.link # Null /\ ~proxy.on]

(* The linked rule follows the proxy's path and switch, and goes with it.  *)
Relinked(p, proxy) ==
  IF p.link = Null \/ proxy = Null THEN [p EXCEPT !.link = Null, !.off = FALSE]
  ELSE [p EXCEPT !.link = proxy.path, !.off = ~proxy.on]

(* History: the proxy's row is ahead of the files and nothing says so.     *)
Strand ==
  spent.faults < MaxFaults /\ spent' = [spent EXCEPT !.faults = @ + 1, !.mishaps = @ \cup {"ahead"}]

(* applyNginxConfig up to the call, with PrepareProxyChange; what fails    *)
(* here leaves the row ahead of the files.                                 *)
RenderProxy ==
  /\ At("http", "proxy", "render")
  /\ LET s    == proc["http"].site
         p    == Relinked(policy[s].desired, proxies[s])
         main == Only(s, proxies[s])
     IN \/ /\ Managed(s) /\ Renderable(p)
           /\ policy' = [policy EXCEPT ![s] = Desired(s, p, TRUE)]
           /\ Becomes("http", [proc["http"] EXCEPT !.pc = "call", !.v = policy[s].version + 1,
                                 !.p = p, !.tx = [PolicyFiles(s, p) EXCEPT !.main = main]])
           /\ UNCHANGED <<lock, spent>>
        \/ /\ ~Managed(s)
           /\ Becomes("http", [proc["http"] EXCEPT !.pc = "call", !.tx = [Quiet EXCEPT !.main = main]])
           /\ UNCHANGED <<policy, lock, spent>>
        \/ /\ \/ Managed(s) /\ ~Renderable(p) /\ Note("ahead", TRUE)
              \/ Strand
           /\ Free /\ Ends("http") /\ UNCHANGED policy
  /\ UNCHANGED <<accounts, rules, proxies, geo, files, backups, editor>>

(* finishPolicy, which the database may refuse; the site had a policy to   *)
(* prepare when p is not Null.                                             *)
FinishProxy ==
  /\ At("http", "proxy", "done") \/ At("http", "proxy", "failed")
  /\ LET s == proc["http"].site
         v == proc["http"].v
     IN \/ proc["http"].p = Null /\ Note("ahead", proc["http"].pc = "failed") /\ UNCHANGED policy
        \/ proc["http"].p # Null /\ proc["http"].pc = "done" /\ MarkApplied(s, v) /\ NoteFinish("http")
        \/ proc["http"].p # Null /\ proc["http"].pc = "done" /\ Fault /\ UNCHANGED policy
        \/ proc["http"].p # Null /\ proc["http"].pc = "failed" /\ MarkError(s, v) /\ NoteUnknown(s)
  /\ Free /\ Ends("http")
  /\ UNCHANGED <<accounts, rules, proxies, geo, files, backups, editor>>
=============================================================================
