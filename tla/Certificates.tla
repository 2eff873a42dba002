------------------------------ MODULE Certificates ------------------------------
(***************************************************************************)
(* Certificates: internal/ssl/service.go, discovery.go, replacement.go and *)
(* their tables, with the deletion of a site's certificate files           *)
(* (internal/sites/service.go).  AcmeOrders adds the jobs that obtain them *)
(* and composes both.                                                      *)
(*                                                                         *)
(* Three records speak of one certificate: the site's row (site_ssl), the  *)
(* store's entry (certificates) and the path in the site's configuration,  *)
(* the only one nginx reads.  certificateMu is held by one operation of    *)
(* this service at a time; the other requests and the jobs do not hold it. *)
(* A thread is the request in progress or a job.  A call of the agent is   *)
(* one step; its answer may be lost after it took effect.                  *)
(*                                                                         *)
(* A certificate and its key are one file here; a configuration is the     *)
(* path it names, or Null when it speaks plain HTTP.  Sites in maintenance *)
(* are refused and change nothing, so they are left to SiteMaintenance.    *)
(***************************************************************************)
EXTENDS Naturals, FiniteSets

CONSTANTS
  Sites,
  Marked,        \* the sites whose configuration has the panel's markers
  Certs,         \* certificates users bring
  Outside,       \* certificate files that are not the panel's
  MaxEntries, MaxOrders, MaxRequests, MaxFaults,    \* bounds of the model
  Null, Absent,
  Gone           \* a deleted order

Entries == 1..MaxEntries
Orders  == 1..MaxOrders          \* an order's number is also its certificate
Req     == 0                     \* the request in progress
Threads == {Req} \cup Orders
Bytes   == Certs \cup Orders

ASSUME CertificatesAssumption ==
  /\ Marked \subseteq Sites
  /\ MaxEntries \in Nat /\ MaxEntries >= MaxRequests + MaxOrders   \* never in short supply
  /\ MaxOrders \in Nat /\ MaxRequests \in Nat /\ MaxFaults \in Nat
  /\ Null \notin Sites \cup Bytes \cup Threads /\ Absent \notin Bytes \cup {Null}
  /\ Gone # Null

Manual(s)  == <<"manual", s>>          \* ssl/<site>/
Stored(k)  == <<"store", k>>           \* ssl-store/<entry>/
Issued(o)  == <<"issued", o>>          \* ssl/<site>/le-<order>/
External(x) == <<"outside", x>>
Paths == {Manual(s) : s \in Sites} \cup {Stored(k) : k \in Entries}
           \cup {Issued(o) : o \in Orders} \cup {External(x) : x \in Outside}

ASSUME PathsAssumption == Null \notin Paths /\ Absent \notin Paths

VARIABLES
  live,      \* sites: the sites there are
  ssl,       \* site_ssl
  entries,   \* certificates
  links,     \* certificate_sites: the entry adopted for a site
  orders,    \* acme_orders
  files,     \* the certificate files
  conf,      \* what each site's configuration names
  thread,    \* the request and the jobs, or Null
  mu,        \* certificateMu: the thread that holds it
  sweep,     \* the scheduled renewal in progress, or Null
  lastEntry, \* the last number given to an entry
  spent      \* what has been used of the bounds, and what went wrong so far

tables == <<live, ssl, entries, links, orders, lastEntry>>
disk   == <<files, conf>>
vars   == <<tables, disk, thread, mu, sweep, spent>>

-----------------------------------------------------------------------------
(* Rows.                                                                   *)
SslRow == [mode : {"manual_pem", "existing_files", "from_store", "disabled"},
           path : Paths \cup {Null}, sha : Bytes \cup {Null}, entry : Entries \cup {Null}]
Entry  == [path : Paths, sha : Bytes, source : {"panel", "external"}]

(* What a configuration names, and a transaction of the agent: the files   *)
(* and the configurations written, the path the configuration must still   *)
(* name, whether nginx must load the result.                               *)
Named        == Paths \cup {Null, Absent}
Partly(S, T) == UNION {[D -> T] : D \in SUBSET S}
Tx(sites)    == [files : Partly(Paths, Bytes \cup {Absent}), conf : Partly(sites, Named),
                 hash : SUBSET Named, test : BOOLEAN]

ReqPlaces == {"admitted", "call", "done", "failed"}
JobPlaces == {"prepare", "challenge", "ask", "save", "record", "deploy", "install", "settle",
              "rollback", "complete", "failing"}
Thread(sites) ==
  [op : {"use", "disable", "deploy", "upload", "delete", "replace", "site", "redeploy",
         "obtain", "forced"},
   pc : ReqPlaces \cup JobPlaces,
   site : sites \cup {Null}, entry : Entries \cup {Null}, order : Orders \cup {Null},
   tx : Tx(sites), undo : SslRow \cup {Null}]

ASSUME NothingAssumption == Null \notin SslRow /\ Null \notin Entry /\ Null \notin Thread(Sites)

Naming(mode, p, c, k) == [mode |-> mode, path |-> p, sha |-> c, entry |-> k]
Enabled(s) == ssl[s] # Null /\ ssl[s].mode # "disabled"

Known(o)     == orders[o] \notin {Null, Gone}
Kept         == {k \in Entries : entries[k] # Null}
BySHA256(c)  == {k \in Kept : entries[k].sha = c}
NextEntry    == lastEntry + 1

(* managedCertificatePaths: below ssl/ or ssl-store/ of the panel.         *)
ManagedPath(p) == p[1] # "outside"

CertificateSource(k) ==
  IF entries[k].source = "external" \/ ~ManagedPath(entries[k].path) THEN "external" ELSE "panel"

CountByCertStoreID(k) ==
  Cardinality({s \in live : Enabled(s) /\ ssl[s].entry = k})

CountOtherSitesByCertPath(s, p) ==
  Cardinality({o \in live \ {s} : Enabled(o) /\ ssl[o].path = p})

(* Wrong: only the sites deployed from the store count.                    *)
DeployedSites(k) == {s \in live : Enabled(s) /\ ssl[s].entry = k}

AssociatedSites(k) ==
  {s \in live :
     \/ links[s] = k
     \/ ssl[s] # Null /\ (ssl[s].entry = k \/ ssl[s].path = entries[k].path \/ ssl[s].sha = entries[k].sha)}

NewEntry(p, c, source) ==
  /\ NextEntry \in Entries /\ lastEntry' = NextEntry
  /\ entries' = [entries EXCEPT ![NextEntry] = [path |-> p, sha |-> c, source |-> source]]

(* AdoptExternal: the oldest entry of that certificate, or a new one; the  *)
(* site's association, and its row when there is one.                      *)
AdoptExternal(s, p, c) ==
  LET known == BySHA256(c)
      k == IF known = {} THEN NextEntry ELSE CHOOSE i \in known : \A j \in known : i <= j
  IN /\ IF known = {} THEN NewEntry(p, c, "external") ELSE UNCHANGED <<entries, lastEntry>>
     /\ links' = [links EXCEPT ![s] = k]
     /\ ssl' = IF ssl[s] = Null THEN ssl
               ELSE [ssl EXCEPT ![s] = [@ EXCEPT !.path = p, !.sha = c, !.entry = k]]

ForgetExternal(k) ==
  /\ links' = [s \in Sites |-> IF links[s] = k THEN Null ELSE links[s]]
  /\ ssl' = [s \in Sites |->
       IF ssl[s] # Null /\ ssl[s].entry = k THEN [ssl[s] EXCEPT !.entry = Null] ELSE ssl[s]]
  /\ entries' = [entries EXCEPT ![k] = Null]

(* syncToStore, after the files of path p were put to use.                 *)
SyncToStore(p, c) ==
  IF BySHA256(c) # {} THEN UNCHANGED <<entries, lastEntry>>
  ELSE NewEntry(p, c, IF ManagedPath(p) THEN "panel" ELSE "external")

(* A row that cannot be rolled back is only logged (FailConfigure).        *)
(* Wrong: the row stays ahead of the configuration.                        *)
RollbackNothing(s, previous) == UNCHANGED ssl

RollbackSSL(s, previous) == ssl' = [ssl EXCEPT ![s] = previous]

-----------------------------------------------------------------------------
(* Transactions.                                                           *)
Nothing   == [x \in {} |-> Absent]
NoTx      == [files |-> Nothing, conf |-> Nothing, hash |-> {}, test |-> TRUE]
Put(p, c) == [x \in {p} |-> c]

Over(old, new) == [x \in DOMAIN old |-> IF x \in DOMAIN new THEN new[x] ELSE old[x]]

(* nginx reads the certificate of every configuration.                     *)
Loads(fs, cs) == \A s \in Sites : cs[s] \in Paths => fs[cs[s]] # Absent

Acceptable(tx) ==
  /\ \A s \in DOMAIN tx.conf : tx.hash # {} => conf[s] \in tx.hash
  /\ tx.test => Loads(Over(files, tx.files), Over(conf, tx.conf))

Install(tx) == files' = Over(files, tx.files) /\ conf' = Over(conf, tx.conf)

Fault    == spent.faults < MaxFaults /\ spent' = [spent EXCEPT !.faults = @ + 1]
(* A fault after which the records and the disk may differ.                *)
Mishap   == spent.faults < MaxFaults /\ spent' = [spent EXCEPT !.faults = @ + 1, !.mishap = TRUE]

(* The thread's call of the agent: done, refused or failed, or done with   *)
(* its answer lost.                                                        *)
Called(t, onSuccess, onFailure) ==
  \/ /\ Acceptable(thread[t].tx)
     /\ Install(thread[t].tx) /\ thread' = [thread EXCEPT ![t].pc = onSuccess]
     /\ UNCHANGED spent
  \/ /\ (~Acceptable(thread[t].tx) /\ UNCHANGED spent) \/ Fault
     /\ thread' = [thread EXCEPT ![t].pc = onFailure]
     /\ UNCHANGED disk
  \/ /\ Acceptable(thread[t].tx) /\ Mishap
     /\ Install(thread[t].tx) /\ thread' = [thread EXCEPT ![t].pc = onFailure]

-----------------------------------------------------------------------------
(* Requests.  Those that hold certificateMu take it here.  A request that  *)
(* is refused changes nothing and is not a step.                           *)
Serve ==
  /\ thread[Req] = Null /\ spent.requests < MaxRequests

Served == Serve /\ spent' = [spent EXCEPT !.requests = @ + 1]

Request(op, pc, s, k, o, tx) ==
  thread' = [thread EXCEPT ![Req] =
    [op |-> op, pc |-> pc, site |-> s, entry |-> k, order |-> o, tx |-> tx,
     undo |-> IF s \in live THEN ssl[s] ELSE Null]]

Locked(t) == mu = Null /\ mu' = t

(* Wrong: an early return keeps the mutex.                                 *)
KeepLock == UNCHANGED mu

Unlock   == mu' = Null

Renderable(s) == s \in Marked /\ conf[s] # Absent

(* ManualPEM, ExistingFiles and Disable write the row first.  renderConfig *)
(* needs the panel's markers; when it fails they leave the row as it is.   *)
Configure(op, s, mode, p, c, written) ==
  /\ Serve /\ mu = Null /\ s \in live
  /\ ssl' = [ssl EXCEPT ![s] = Naming(mode, p, c, Null)]
  /\ \/ /\ Renderable(s)
        /\ Request(op, "call", s, Null, Null, [NoTx EXCEPT !.files = written, !.conf = Put(s, p)])
        /\ mu' = Req /\ Served
     \/ /\ IF Renderable(s)
           THEN /\ spent.faults < MaxFaults
                /\ spent' = [spent EXCEPT !.requests = @ + 1, !.faults = @ + 1, !.mishap = TRUE]
           ELSE Served
        /\ UNCHANGED <<thread, mu>>
  /\ UNCHANGED <<live, entries, links, orders, lastEntry, disk, sweep>>

ManualPEM(s, c) == Configure("use", s, "manual_pem", Manual(s), c, Put(Manual(s), c))

ExistingFiles(s, p) ==
  files[p] # Absent /\ Configure("use", s, "existing_files", p, files[p], Nothing)

(* The site's own files may go too, if the store does not know them.       *)
Disable(s, deleteManaged) ==
  LET own == deleteManaged /\ ssl[s] # Null /\ ssl[s].mode = "manual_pem"
             /\ BySHA256(ssl[s].sha) = {}
  IN Configure("disable", s, "disabled", Null, Null,
       IF own THEN Put(ssl[s].path, Absent) ELSE Nothing)

(* DeployFromStore looks for the markers before it writes the row; it is   *)
(* called by requests and by jobs.                                         *)
Deployable(s, k) ==
  /\ k \in Kept /\ CertificateSource(k) = "panel"
  /\ s \in live \cap Marked /\ conf[s] # Absent /\ files[entries[k].path] # Absent

Deployment(s, k) ==
  [NoTx EXCEPT !.conf = Put(s, entries[k].path), !.hash = {conf[s]}]

Deploying(s, k) ==
  ssl' = [ssl EXCEPT ![s] = Naming("from_store", entries[k].path, files[entries[k].path], k)]

DeployFromStore(s, k) ==
  /\ Served /\ Locked(Req) /\ Deployable(s, k)
  /\ Deploying(s, k)
  /\ Request("deploy", "call", s, k, Null, Deployment(s, k))
  /\ UNCHANGED <<live, entries, links, orders, lastEntry, disk, sweep>>

UploadToStore(c) ==
  /\ Served /\ Locked(Req) /\ BySHA256(c) = {}
  /\ NewEntry(Stored(NextEntry), c, "panel")
  /\ Request("upload", "call", Null, NextEntry, Null,
       [NoTx EXCEPT !.files = Put(Stored(NextEntry), c), !.test = FALSE])
  /\ UNCHANGED <<live, ssl, links, orders, disk, sweep>>

(* An entry of the panel's goes with its files, unless a site has to do    *)
(* with it; nginx is not asked.                                            *)
DeleteFromStore(k) ==
  /\ Served /\ mu = Null /\ k \in Kept
  /\ IF CertificateSource(k) = "external"
     THEN ForgetExternal(k) /\ UNCHANGED <<thread, mu>>
     ELSE /\ CountByCertStoreID(k) = 0 /\ AssociatedSites(k) = {}
          /\ Request("delete", "call", Null, k, Null,
               [NoTx EXCEPT !.files = Put(entries[k].path, Absent), !.test = FALSE])
          /\ mu' = Req
          /\ UNCHANGED <<ssl, entries, links>>
  /\ UNCHANGED <<live, orders, lastEntry, disk, sweep>>

(* What the scan of a site's configuration finds.                          *)
Scanned(s) == s \in live /\ conf[s] \in Paths /\ files[conf[s]] # Absent

AdoptCertificate(s) ==
  /\ Served /\ mu = Null /\ Scanned(s)
  /\ AdoptExternal(s, conf[s], files[conf[s]])
  /\ UNCHANGED <<live, orders, disk, thread, mu, sweep>>

(* Only the store's own, unchanged files, and only while the configuration *)
(* is the one that was previewed.                                          *)
ReplaceCertificate(s, k) ==
  /\ Served /\ Locked(Req) /\ Scanned(s)
  /\ k \in Kept /\ entries[k].source = "panel" /\ entries[k].path[1] = "store"
  /\ files[entries[k].path] = entries[k].sha
  /\ Request("replace", "call", s, k, Null, Deployment(s, k))
  /\ UNCHANGED <<tables, disk, sweep>>

-----------------------------------------------------------------------------
(* The end of a request.                                                   *)
Ending(op, pc) == thread[Req] # Null /\ thread[Req].op = op /\ thread[Req].pc = pc
Ended == thread' = [thread EXCEPT ![Req] = Null]

CallOfRequest ==
  /\ thread[Req] # Null /\ thread[Req].pc = "call"
  /\ Called(Req, "done", "failed")
  /\ UNCHANGED <<tables, mu, sweep>>

FinishUse ==
  LET s == thread[Req].site IN
  /\ Ending("use", "done") /\ Ended /\ Unlock
  /\ \/ SyncToStore(ssl[s].path, ssl[s].sha) /\ UNCHANGED spent
     \/ Fault /\ UNCHANGED <<entries, lastEntry>>
  /\ UNCHANGED <<live, ssl, links, orders, disk, sweep>>

FinishPlain ==
  /\ \/ \E op \in {"disable", "deploy", "upload"} : Ending(op, "done")
     \/ \E op \in {"delete", "replace"} : Ending(op, "failed")
  /\ Ended /\ Unlock
  /\ UNCHANGED <<tables, disk, sweep, spent>>

FailConfigure ==
  /\ \E op \in {"use", "disable", "deploy", "redeploy"} : Ending(op, "failed")
  /\ Ended /\ Unlock
  /\ \/ RollbackSSL(thread[Req].site, thread[Req].undo) /\ UNCHANGED spent
     \/ Mishap /\ UNCHANGED ssl
  /\ UNCHANGED <<live, entries, links, orders, lastEntry, disk, sweep>>

FailUpload ==
  /\ Ending("upload", "failed") /\ Ended /\ Unlock
  /\ entries' = [entries EXCEPT ![thread[Req].entry] = Null]
  /\ UNCHANGED <<live, ssl, links, orders, lastEntry, disk, sweep, spent>>

(* The files are gone; if the row stays, the deletion can be asked again.  *)
FinishDelete ==
  /\ Ending("delete", "done") /\ Ended /\ Unlock
  /\ \/ entries' = [entries EXCEPT ![thread[Req].entry] = Null] /\ UNCHANGED spent
     \/ Fault /\ UNCHANGED entries
  /\ UNCHANGED <<live, ssl, links, orders, lastEntry, disk, sweep>>

(* The association follows the configuration.                              *)
FinishReplace ==
  LET s == thread[Req].site
      e == entries[thread[Req].entry] IN
  /\ Ending("replace", "done") /\ Ended /\ Unlock
  /\ \/ AdoptExternal(s, e.path, e.sha) /\ UNCHANGED spent
     \/ Mishap /\ UNCHANGED <<entries, links, ssl, lastEntry>>
  /\ UNCHANGED <<live, orders, disk, sweep>>

-----------------------------------------------------------------------------
(* Sites.Delete does not hold certificateMu.  With the site go its rows    *)
(* (ON DELETE CASCADE), its configuration and, if asked, the files its row *)
(* names, unless another site's row names them.                            *)
DeleteSite(s, deleteSSL) ==
  /\ Served /\ s \in live
  /\ LET named == deleteSSL /\ ssl[s] # Null /\ ssl[s].path # Null IN
     /\ named => CountOtherSitesByCertPath(s, ssl[s].path) = 0
     /\ Request("site", "call", s, Null, Null,
          [NoTx EXCEPT !.conf = Put(s, Absent),
                       !.files = IF named THEN Put(ssl[s].path, Absent) ELSE Nothing])
  /\ UNCHANGED <<tables, disk, mu, sweep>>

FinishDeleteSite ==
  LET s == thread[Req].site IN
  /\ Ending("site", "done") /\ Ended
  /\ live' = live \ {s}
  /\ ssl' = [ssl EXCEPT ![s] = Null] /\ links' = [links EXCEPT ![s] = Null]
  /\ orders' = [o \in Orders |-> IF Known(o) /\ orders[o].site = s THEN Gone ELSE orders[o]]
  /\ UNCHANGED <<entries, lastEntry, disk, mu, sweep, spent>>

FailDeleteSite ==
  /\ Ending("site", "failed") /\ Ended
  /\ UNCHANGED <<tables, disk, mu, sweep, spent>>

(* The editor of configurations takes any path nginx can load; the rows do *)
(* not follow.                                                             *)
EditConfiguration(s, p) ==
  /\ Serve /\ s \in live /\ conf[s] # Absent /\ p # conf[s]
  /\ Loads(files, [conf EXCEPT ![s] = p])
  /\ conf' = [conf EXCEPT ![s] = p]
  /\ spent' = [spent EXCEPT !.requests = @ + 1, !.edited = @ \cup {s}]
  /\ UNCHANGED <<tables, files, thread, mu, sweep>>
=============================================================================
