------------------------------- MODULE AcmeOrders -------------------------------
(***************************************************************************)
(* Certificates obtained by ACME: internal/acme, its orders and jobs,      *)
(* composed with the certificates of Certificates.                         *)
(*                                                                         *)
(* An order is a row; a job is the goroutine that works for it.  At most   *)
(* one job works for a site and at most JobSlots at a time.  A job writes  *)
(* the challenge into the site's configuration, waits for the authority,   *)
(* saves the files, records the certificate, deploys it under              *)
(* certificateMu and, when it renews, retires the order it renews.  Until  *)
(* it ends it is at any of these points when users act on the same site.   *)
(* Nothing takes up an order after a restart.                              *)
(***************************************************************************)
EXTENDS Certificates

CONSTANTS
  JobSlots,      \* maxConcurrent
  MaxSweeps      \* bound of the model: scheduled renewals

ASSUME AcmeAssumption == JobSlots \in Nat \ {0} /\ MaxSweeps \in Nat

Order == [site : Sites, status : {"pending", "processing", "failed", "pre_validation_failed", "success"},
          err : {"", "error", "deployment_pending", "deployment_failed", "renewal_finalize_failed"},
          entry : Entries \cup {Null}, auto : BOOLEAN]

(* The orders still to be renewed, with their sites, and the one waited for. *)
Sweep(sites) == [todo : Partly(Orders, sites), waiting : Orders \cup {Null}]

ASSUME OrderAssumption == Null \notin Order /\ Null \notin Sweep(Sites) /\ Gone \notin Order

Jobs      == {o \in Orders : thread[o] # Null}
NextOrder == Cardinality({o \in Orders : orders[o] # Null}) + 1

(* UpdateOrderStatus, of no effect on a deleted order.                     *)
Mark(os, o, status, err) ==
  IF Known(o) THEN [os EXCEPT ![o].status = status, ![o].err = err] ELSE os

(* The same where an error of the database changes nothing further on.     *)
MarkIfSaved(o, status, err) ==
  \/ orders' = Mark(orders, o, status, err) /\ UNCHANGED spent
  \/ Fault /\ UNCHANGED orders

-----------------------------------------------------------------------------
(* admitSite: activeSites and the slots.                                   *)
Busy == {thread[o].site : o \in Jobs}
          \cup {s \in Sites : thread[Req] # Null /\ thread[Req].op = "redeploy"
                                /\ thread[Req].site = s}

Admits(s) == s \notin Busy /\ Cardinality(Busy) < JobSlots

(* The order's row and its job; by the request or the sweep it comes from. *)
Launch(s, auto, previous, forced) ==
  /\ NextOrder \in Orders /\ Admits(s)
  /\ orders' = [orders EXCEPT ![NextOrder] =
       [site |-> s, status |-> "pending", err |-> "", entry |-> Null, auto |-> auto]]
  /\ thread' = [thread EXCEPT ![NextOrder] =
       [op |-> IF forced THEN "forced" ELSE "obtain", pc |-> "prepare", site |-> s, entry |-> Null,
        order |-> previous, tx |-> NoTx, undo |-> Null]]

ApplyCertificate(s) ==
  /\ Served /\ s \in live
  /\ Launch(s, TRUE, Null, FALSE)
  /\ UNCHANGED <<live, ssl, entries, links, lastEntry, disk, mu, sweep>>

(* An order whose own check of the challenge failed, without that check.   *)
ForceObtain(o) ==
  /\ Served /\ Known(o) /\ orders[o].status = "pre_validation_failed"
  /\ Launch(orders[o].site, orders[o].auto, Null, TRUE)
  /\ UNCHANGED <<live, ssl, entries, links, lastEntry, disk, mu, sweep>>

(* Any order can be renewed, one already retired too.                      *)
RenewOrder(o) ==
  /\ Served /\ Known(o)
  /\ Launch(orders[o].site, orders[o].auto, o, FALSE)
  /\ UNCHANGED <<live, ssl, entries, links, lastEntry, disk, mu, sweep>>

DeleteOrder(o) ==
  /\ Served /\ Known(o)
  /\ orders' = [orders EXCEPT ![o] = Gone]
  /\ UNCHANGED <<live, ssl, entries, links, lastEntry, disk, thread, mu, sweep>>

SetAutoRenew(o, on) ==
  /\ Served /\ Known(o) /\ orders[o].auto # on
  /\ orders' = [orders EXCEPT ![o].auto = on]
  /\ UNCHANGED <<live, ssl, entries, links, lastEntry, disk, thread, mu, sweep>>

(* DeployOrder is admitted as a job is, then waits for certificateMu.      *)
DeployOrder(o) ==
  /\ Served /\ Known(o) /\ orders[o].status = "success" /\ orders[o].entry # Null
  /\ Admits(orders[o].site)
  /\ Request("redeploy", "admitted", orders[o].site, orders[o].entry, o, NoTx)
  /\ UNCHANGED <<tables, disk, mu, sweep>>

RedeployLocks ==
  LET s == thread[Req].site
      k == thread[Req].entry IN
  /\ Ending("redeploy", "admitted") /\ mu = Null
  /\ IF Deployable(s, k)
     THEN /\ Deploying(s, k) /\ mu' = Req
          /\ Request("redeploy", "call", s, k, thread[Req].order, Deployment(s, k))
     ELSE Ended /\ UNCHANGED <<ssl, mu>>
  /\ UNCHANGED <<live, entries, links, orders, lastEntry, disk, sweep, spent>>

FinishRedeploy ==
  /\ Ending("redeploy", "done") /\ Ended /\ Unlock
  /\ MarkIfSaved(thread[Req].order, "success", "")
  /\ UNCHANGED <<live, ssl, entries, links, lastEntry, disk, sweep>>

-----------------------------------------------------------------------------
(* The job of order o.                                                     *)
At(o, pc)   == thread[o] # Null /\ thread[o].pc = pc
GoOn(o, pc) == thread' = [thread EXCEPT ![o].pc = pc]
JobEnded(o) == thread' = [thread EXCEPT ![o] = Null]

(* prepareChallengeConfig reads the configuration and writes it back with  *)
(* the challenge, whatever it has become; it may be there already.  Before *)
(* that the order says that it is processed, or the job fails.             *)
JobPrepare(o) ==
  LET s == thread[o].site IN
  /\ At(o, "prepare")
  /\ \/ /\ orders' = Mark(orders, o, "processing", "") /\ UNCHANGED spent
        /\ IF s \notin live \/ conf[s] = Absent THEN GoOn(o, "failing")
           ELSE \/ GoOn(o, "ask")
                \/ thread' = [thread EXCEPT ![o].pc = "challenge", ![o].tx = [NoTx EXCEPT !.conf = Put(s, conf[s])]]
     \/ Fault /\ GoOn(o, "failing") /\ UNCHANGED orders
  /\ UNCHANGED <<live, ssl, entries, links, lastEntry, disk, mu, sweep>>

JobChallenge(o) ==
  LET s == thread[o].site IN
  /\ At(o, "challenge")
  /\ \/ /\ Acceptable(thread[o].tx)
        /\ Install(thread[o].tx) /\ GoOn(o, "ask")
        /\ spent' = [spent EXCEPT !.stale = @ \/ conf[s] # thread[o].tx.conf[s]]
     \/ /\ (~Acceptable(thread[o].tx) /\ UNCHANGED spent) \/ Fault
        /\ GoOn(o, "failing") /\ UNCHANGED disk
  /\ UNCHANGED <<tables, mu, sweep>>

(* Wrong: the failed check is only logged.                                 *)
UnmarkedFailure(o) == UNCHANGED orders

PreValidationFailed(o) == orders' = Mark(orders, o, "pre_validation_failed", "error")

(* No account with the authority, the answer to its challenge cannot be    *)
(* put in place, or the order's progress cannot be saved.                  *)
Unprepared(o) == GoOn(o, "failing")

(* The authority answers, or the panel's own check of the challenge fails. *)
JobAsk(o) ==
  /\ At(o, "ask")
  /\ \/ /\ thread' = [thread EXCEPT ![o].pc = "save", ![o].tx = [NoTx EXCEPT !.files = Put(Issued(o), o)]]
        /\ UNCHANGED orders
     \/ Unprepared(o) /\ UNCHANGED orders
     \/ thread[o].op = "obtain" /\ PreValidationFailed(o) /\ JobEnded(o)
  /\ UNCHANGED <<live, ssl, entries, links, lastEntry, disk, mu, sweep, spent>>

JobSave(o) ==
  /\ At(o, "save") /\ Called(o, "record", "failing")
  /\ UNCHANGED <<tables, mu, sweep>>

(* The order stays as it is: the error is only logged.                     *)
Unsaved(o) ==
  /\ spent.faults < MaxFaults /\ UNCHANGED orders
  /\ spent' = [spent EXCEPT !.faults = @ + 1, !.left = @ \cup {o}]

(* failOrder.                                                              *)
JobFail(o) ==
  /\ At(o, "failing") /\ JobEnded(o)
  /\ \/ orders' = Mark(orders, o, "failed", "error") /\ UNCHANGED spent
     \/ Unsaved(o)
  /\ UNCHANGED <<live, ssl, entries, links, lastEntry, disk, mu, sweep>>

(* The entry, then the order: issued, not yet deployed.                    *)
JobRecord(o) ==
  /\ At(o, "record")
  /\ \/ /\ NewEntry(Issued(o), o, "panel")
        /\ orders' = IF Known(o) THEN [Mark(orders, o, "success", "deployment_pending")
                                         EXCEPT ![o].entry = NextEntry]
                     ELSE orders
        /\ thread' = [thread EXCEPT ![o].pc = "deploy", ![o].entry = NextEntry]
        /\ UNCHANGED spent
     \/ /\ Fault /\ GoOn(o, "failing")
        /\ NewEntry(Issued(o), o, "panel") \/ UNCHANGED <<entries, lastEntry>>
        /\ UNCHANGED orders
  /\ UNCHANGED <<live, ssl, links, disk, mu, sweep>>

JobDeploy(o) ==
  LET s == thread[o].site
      k == thread[o].entry IN
  /\ At(o, "deploy") /\ mu = Null
  /\ IF Deployable(s, k)
     THEN /\ Deploying(s, k) /\ mu' = o
          /\ thread' = [thread EXCEPT ![o].pc = "install", ![o].tx = Deployment(s, k), ![o].undo = ssl[s]]
          /\ UNCHANGED <<orders, spent>>
     ELSE /\ MarkIfSaved(o, "success", "deployment_failed") /\ JobEnded(o)
          /\ UNCHANGED <<ssl, mu>>
  /\ UNCHANGED <<live, entries, links, lastEntry, disk, sweep>>

JobInstall(o) ==
  /\ At(o, "install") /\ Called(o, "settle", "rollback")
  /\ UNCHANGED <<tables, mu, sweep>>

JobRollback(o) ==
  /\ At(o, "rollback") /\ JobEnded(o) /\ Unlock
  /\ \/ /\ RollbackSSL(thread[o].site, thread[o].undo)
        /\ MarkIfSaved(o, "success", "deployment_failed")
     \/ Mishap /\ UNCHANGED ssl /\ orders' = Mark(orders, o, "success", "deployment_failed")
  /\ UNCHANGED <<live, entries, links, lastEntry, disk, sweep>>

(* The end of saveAndDeploy.  An error of the database fails the order, if *)
(* it lets it.                                                             *)
JobSettle(o) ==
  /\ At(o, "settle") /\ Unlock
  /\ \/ /\ orders' = Mark(orders, o, "success", "")
        /\ IF thread[o].order = Null THEN JobEnded(o) ELSE GoOn(o, "complete")
        /\ UNCHANGED spent
     \/ /\ Fault /\ JobEnded(o)
        /\ orders' \in {Mark(orders, o, "failed", "error"), orders}
  /\ UNCHANGED <<live, ssl, entries, links, lastEntry, disk, sweep>>

(* Wrong: the old order is retired before its setting is copied.           *)
RetireFirst(os, old, new) == [os EXCEPT ![old].auto = FALSE, ![new].auto = FALSE]

(* CompleteRenewal: the new order takes over the setting of the old one.   *)
Retire(os, old, new) == [os EXCEPT ![new].auto = os[old].auto, ![old].auto = FALSE]

JobComplete(o) ==
  LET old == thread[o].order IN
  /\ At(o, "complete") /\ JobEnded(o)
  /\ \/ /\ Known(old) /\ Known(o) /\ orders[o].status = "success" /\ orders[o].err = ""
        /\ orders' = Retire(orders, old, o) /\ UNCHANGED spent
     \/ /\ ~(Known(old) /\ Known(o) /\ orders[o].status = "success" /\ orders[o].err = "")
        /\ MarkIfSaved(o, "success", "renewal_finalize_failed")
     \/ Fault /\ orders' \in {Mark(orders, o, "success", "renewal_finalize_failed"), orders}
  /\ UNCHANGED <<live, ssl, entries, links, lastEntry, disk, mu, sweep>>

-----------------------------------------------------------------------------
(* The scheduled renewal.  It reads its list once and waits for each job.  *)
Clean(s) == {o \in Orders : Known(o) /\ orders[o].site = s /\ orders[o].status = "success"
                              /\ orders[o].err = ""}
Newest(s)    == CHOOSE o \in Clean(s) : \A p \in Clean(s) : p <= o
Renewable(s) == Clean(s) # {} /\ orders[Newest(s)].auto

ListExpiringOrders == {Newest(s) : s \in {x \in Sites : Renewable(x)}}

RunScheduledRenewal ==
  /\ sweep = Null /\ spent.sweeps < MaxSweeps
  /\ \E due \in SUBSET ListExpiringOrders \ {{}} :
       sweep' = [todo |-> [o \in due |-> orders[o].site], waiting |-> Null]
  /\ spent' = [spent EXCEPT !.sweeps = @ + 1]
  /\ UNCHANGED <<tables, disk, thread, mu>>

Others(o) == [p \in DOMAIN sweep.todo \ {o} |-> sweep.todo[p]]

RenewOrderForScheduledTask(o) ==
  /\ sweep # Null /\ sweep.waiting = Null /\ o \in DOMAIN sweep.todo
  /\ IF sweep.todo[o] \in live /\ Admits(sweep.todo[o])
     THEN /\ Launch(sweep.todo[o], TRUE, o, FALSE)
          /\ sweep' = [todo |-> Others(o), waiting |-> NextOrder]
     ELSE sweep' = [sweep EXCEPT !.todo = Others(o)] /\ UNCHANGED <<orders, thread>>
  /\ UNCHANGED <<live, ssl, entries, links, lastEntry, disk, mu, spent>>

SweepGoesOn ==
  /\ sweep # Null
  /\ \/ sweep.waiting # Null /\ thread[sweep.waiting] = Null /\ sweep' = [sweep EXCEPT !.waiting = Null]
     \/ sweep.waiting = Null /\ DOMAIN sweep.todo = {} /\ sweep' = Null
  /\ UNCHANGED <<tables, disk, thread, mu, spent>>

-----------------------------------------------------------------------------
(* The panel stops and starts again; one call may still take effect.       *)
Crash ==
  /\ \E t \in Threads : thread[t] # Null
  /\ spent.faults < MaxFaults
  /\ spent' = [spent EXCEPT !.faults = @ + 1, !.mishap = TRUE, !.left = @ \cup Jobs]
  /\ thread' = [t \in Threads |-> Null] /\ mu' = Null /\ sweep' = Null
  /\ \/ UNCHANGED disk
     \/ \E t \in Threads : thread[t] # Null /\ thread[t].pc \in {"call", "save", "install", "challenge"}
                             /\ Acceptable(thread[t].tx) /\ Install(thread[t].tx)
  /\ UNCHANGED tables

Init ==
  /\ live = Sites
  /\ ssl = [s \in Sites |-> Null] /\ links = [s \in Sites |-> Null]
  /\ entries = [k \in Entries |-> Null] /\ lastEntry = 0
  /\ orders = [o \in Orders |-> Null]
  /\ \E outside \in [Outside -> Certs] :
       files = [p \in Paths |-> IF p[1] = "outside" THEN outside[p[2]] ELSE Absent]
  /\ conf \in [Sites -> {External(x) : x \in Outside} \cup {Null}]
  /\ \A s \in Marked : conf[s] = Null
  /\ thread = [t \in Threads |-> Null] /\ mu = Null /\ sweep = Null
  /\ spent = [requests |-> 0, faults |-> 0, sweeps |-> 0, mishap |-> FALSE, stale |-> FALSE,
              left |-> {}, edited |-> {}]

Requests ==
  \/ \E s \in Sites :
       \/ \E c \in Certs : ManualPEM(s, c)
       \/ \E p \in Paths : ExistingFiles(s, p) \/ EditConfiguration(s, p)
       \/ \E b \in BOOLEAN : Disable(s, b) \/ DeleteSite(s, b)
       \/ \E k \in Entries : DeployFromStore(s, k) \/ ReplaceCertificate(s, k)
       \/ AdoptCertificate(s) \/ ApplyCertificate(s)
  \/ \E c \in Certs : UploadToStore(c)
  \/ \E k \in Entries : DeleteFromStore(k)
  \/ \E o \in Orders :
       \/ ForceObtain(o) \/ RenewOrder(o) \/ DeleteOrder(o) \/ DeployOrder(o)
       \/ \E b \in BOOLEAN : SetAutoRenew(o, b)

RequestGoesOn ==
  \/ CallOfRequest \/ FinishUse \/ FinishPlain \/ FailConfigure \/ FailUpload \/ FinishDelete
  \/ FinishReplace \/ FinishDeleteSite \/ FailDeleteSite \/ RedeployLocks \/ FinishRedeploy

JobGoesOn(o) ==
  \/ JobPrepare(o) \/ JobChallenge(o) \/ JobAsk(o) \/ JobSave(o) \/ JobFail(o) \/ JobRecord(o)
  \/ JobDeploy(o) \/ JobInstall(o) \/ JobRollback(o) \/ JobSettle(o) \/ JobComplete(o)

SweepSteps ==
  RunScheduledRenewal \/ (\E o \in Orders : RenewOrderForScheduledTask(o)) \/ SweepGoesOn

Next ==
  \/ Requests \/ RequestGoesOn
  \/ \E o \in Orders : JobGoesOn(o)
  \/ SweepSteps \/ Crash

(* The agent and the authority answer or time out, and Go's mutexes do not *)
(* starve: a request and a job that can go on do.                          *)
Fairness ==
  /\ WF_vars(RequestGoesOn) /\ WF_vars(SweepGoesOn)
  /\ \A o \in Orders : SF_vars(JobGoesOn(o))

Spec == Init /\ [][Next]_vars /\ Fairness

-----------------------------------------------------------------------------
(* The threads' types are in the proofs: TLC cannot test that a function is *)
(* one of the transactions.                                                *)
TypeOK ==
  /\ live \subseteq Sites
  /\ ssl \in [Sites -> SslRow \cup {Null}] /\ links \in [Sites -> Entries \cup {Null}]
  /\ entries \in [Entries -> Entry \cup {Null}] /\ lastEntry \in 0..MaxEntries
  /\ orders \in [Orders -> Order \cup {Null, Gone}]
  /\ files \in [Paths -> Bytes \cup {Absent}]
  /\ conf \in [Sites -> Paths \cup {Null, Absent}]
  /\ mu \in Threads \cup {Null} /\ (mu # Null => thread[mu] # Null)

(* What nginx is told to load is there, so the next reload of any site     *)
(* works: deletions look at the database, so this holds while no call went *)
(* astray, no old configuration was written back and users do not edit.    *)
ServedFilesExist ==
  ~spent.mishap /\ ~spent.stale =>
    \A s \in Sites \ spent.edited : conf[s] \in Paths => files[conf[s]] # Absent

(* Between operations, what the panel shows of a site's certificate is     *)
(* what its configuration says, after refusals and failed transactions     *)
(* too.  (An imported site has no markers: see ManualPEM.)                 *)
RowIsServed ==
  ~spent.mishap /\ ~spent.stale /\ mu = Null =>
    \A s \in (live \cap Marked) \ spent.edited : conf[s] # Absent =>
      IF Enabled(s) THEN conf[s] = ssl[s].path ELSE conf[s] = Null

(* An order says it is worked on only while it is, whatever way its job    *)
(* ends and whatever else fails: unless the panel was stopped while its    *)
(* job ran, or the database refused to save that it failed.  Nothing takes *)
(* up such an order again.                                                 *)
WorkedOnOrSettled ==
  \A o \in Orders \ spent.left :
    Known(o) /\ orders[o].status \in {"pending", "processing"} => thread[o] # Null

(* A site that is renewed automatically stays so, whatever fails, until a  *)
(* request stops it.  Three requests stop it later on, at the end of a job:*)
(* the renewal of an order that is not renewed automatically, turning that *)
(* off meanwhile, and deleting the order that is being renewed.  And a     *)
(* renewal whose end the database refuses may: ListExpiringOrders leaves   *)
(* out the order that says so, and the site may have no other to renew.    *)
RenewalSurvives ==
  [][\A s \in live' : Renewable(s) /\ ~Renewable(s)' =>
       \/ spent'.requests > spent.requests
       \/ thread[Req] # Null /\ thread[Req].op = "redeploy"
       \/ \E o \in Jobs : ~Known(o) \/ ~orders[o].auto
            \/ (thread[o].order # Null /\ (~Known(thread[o].order) \/ ~orders[thread[o].order].auto))
            \/ (thread[o].pc = "complete" /\ Known(o)' /\ orders'[o].err = "renewal_finalize_failed")]_vars

(* Every job ends and frees its site and its slot.                         *)
JobsEnd == \A o \in Orders : thread[o] # Null ~> thread[o] = Null
=============================================================================
