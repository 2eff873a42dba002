--------------------------- MODULE AgentTransaction ---------------------------
(***************************************************************************)
(* The file transactions of the agent: internal/agent/transaction.go and   *)
(* the handler that runs one, tests nginx, reloads it and rolls the files  *)
(* back when that fails.  transactionMu lets one transaction run at a time *)
(* and the lock is held to the end, so one variable, tx, holds the handler *)
(* that owns it.  A manual reload does not take the lock, the nginx master *)
(* reloads when it gets to it, and the agent may die anywhere.             *)
(*                                                                         *)
(* A file is what a path holds: a body, a link, or nothing.  Of a body the *)
(* model keeps what the code tells apart: which text it has, whether nginx *)
(* accepts it, and whether it holds the maintenance block.  mkdir, chown   *)
(* and truncate (which no caller sends) are left out.                      *)
(***************************************************************************)
EXTENDS Naturals, Sequences

CONSTANTS
  Confs,        \* regular files: sites-available and what it includes
  Links,        \* sites-enabled, the directory nginx includes
  Available,    \* the files of sites-available, which links may lead to
  Texts,        \* what a configuration says, the maintenance block apart
  Broken,       \* the texts nginx rejects
  CertPatches,  \* <<old, new>>: new is old with another certificate
  Requests,     \* the transactions the panel sends
  Absent,       \* nothing at a path
  Null,
  MaxRequests, MaxReloads, MaxFaults   \* bounds of the model

Paths == Confs \cup Links
Body  == [text : Texts, maint : BOOLEAN]
Node  == Body \cup Confs \cup {Absent}   \* a conf is a link to it

(* FileChange.  expect stands for expected_hash: equal hashes, equal body. *)
Change ==
  [type : {"write", "remove", "symlink", "check"}, path : Paths,
   to : Confs \cup {Null}, body : Body \cup {Null}, expect : Body \cup {Null},
   follow : BOOLEAN, transition : BOOLEAN]
Request == [changes : Seq(Change), test : BOOLEAN, reload : BOOLEAN]

ASSUME PathsAssumption ==
  /\ Confs \cap Links = {} /\ Available \subseteq Confs
  /\ Absent \notin Body \cup Confs /\ Null \notin Node
  /\ Body \cap Confs = {}
ASSUME TextsAssumption == Broken \subseteq Texts /\ CertPatches \subseteq Texts \X Texts
(* What the handler refuses before it takes the lock is not in Requests.   *)
(* A request that says what it expects of a file changes that file once,   *)
(* and no other file of the sites: the rest are pages, certificates, keys. *)
OfSites(p) == p \in Links \cup Available

ASSUME RequestsAssumption ==
  /\ Requests \subseteq Request
  /\ \A r \in Requests : r.changes # <<>>
  /\ \A r \in Requests : \A i \in DOMAIN r.changes :
       LET ch == r.changes[i]
       IN /\ ch.type = "write" <=> ch.body # Null
          /\ ch.type = "symlink" <=> ch.to # Null
          /\ ch.to # Null => ch.path \in Links /\ ch.to \in Available
          /\ ch.transition => r.test /\ r.reload /\ ch.expect # Null
          /\ ch.expect # Null => \A j \in DOMAIN r.changes \ {i} :
               r.changes[j].type # "check" =>
                 /\ r.changes[j].path # ch.path
                 /\ ~(OfSites(r.changes[j].path) /\ OfSites(ch.path))
ASSUME BudgetAssumption == MaxRequests \in Nat /\ MaxReloads \in Nat /\ MaxFaults \in Nat

VARIABLES
  disk,     \* what each path holds
  master,   \* the nginx master process
  tx,       \* the transaction that holds transactionMu
  answer,   \* what the last one answered
  spent     \* what has been used of the bounds

vars == <<disk, master, tx, answer, spent>>

-----------------------------------------------------------------------------
(* Reading the disk.                                                       *)

Resolve(d, p) == IF d[p] \in Confs THEN d[p] ELSE p
Content(d, p) == d[Resolve(d, p)]
Contents(d)   == [p \in Paths |-> Content(d, p)]

Served(d)   == [l \in Links |-> Content(d, l)]
Loadable(d) ==
  \A l \in Links : d[l] # Absent =>
    Content(d, l) # Absent /\ Content(d, l).text \notin Broken

HasMaintenance(body) == body # Absent /\ body.maint

-----------------------------------------------------------------------------
Snapshot == [Links -> Body \cup {Absent}]
Master   ==
  [up : BOOLEAN,
   live : Snapshot,                 \* what the workers serve
   gen : Nat,                       \* which workers they are
   hup : BOOLEAN,                   \* a reload signal the master has yet to see
   reading : Snapshot \cup {Null}]  \* loaded, the workers not replaced yet
Tx ==
  [pc : {"prepare", "apply", "relink", "test", "reload", "start", "ready", "rollback"},
   req : Requests,
   changes : Seq(Change),            \* with the aliases resolved
   backups : Seq(Body \cup {Absent, Null}),
   i : Nat,                          \* the change or backup in turn
   gen : Nat,                        \* the workers when it began
   missed : BOOLEAN,                 \* history only: the rollback left a new file
   before : [Paths -> Node],         \* history only: the disk when it began
   alone : BOOLEAN]                  \* history only: no other reload since then

(* What stands for nothing is not something.                               *)
ASSUME NothingAssumption == Null \notin Snapshot /\ Null \notin Tx

(* "stored" and "reloaded" are the same answer, ok, without and with a     *)
(* reload; so are "rolledBack" and "halfRolledBack", whose difference the  *)
(* handler ignores.                                                        *)
Answers == {"none", "stored", "reloaded", "refused", "unconfirmed", "rolledBack",
            "halfRolledBack", "crashed"}

TypeOK ==
  /\ disk \in [Paths -> Node] /\ \A c \in Confs : disk[c] \notin Confs
  /\ master \in Master
  /\ tx \in Tx \cup {Null}
  /\ tx # Null => tx.i <= Len(tx.changes) + (IF tx.pc = "rollback" THEN 0 ELSE 1)
  /\ answer \in Answers
  /\ spent \in [requests : 0..MaxRequests, reloads : 0..MaxReloads, faults : 0..MaxFaults]

(* A host that runs: every site is absent, available or enabled, and nginx *)
(* serves what is on the disk.                                             *)
Init ==
  /\ disk \in [Paths -> Node]
  /\ \A c \in Confs : disk[c] \in Body => disk[c].text \notin Broken /\ ~disk[c].maint
  /\ \A c \in Confs : disk[c] \notin Confs
  /\ \A l \in Links : disk[l] = Absent \/ (disk[l] \in Available /\ Content(disk, l) # Absent)
  /\ master = [up |-> TRUE, live |-> Served(disk), gen |-> 0, hup |-> FALSE, reading |-> Null]
  /\ tx = Null
  /\ answer = "none"
  /\ spent = [requests |-> 0, reloads |-> 0, faults |-> 0]

Fault == spent.faults < MaxFaults /\ spent' = [spent EXCEPT !.faults = @ + 1]

(* What a killed reload and a start do to nginx.                           *)
ReloadKilled == master' \in {master, [master EXCEPT !.hup = master.up]}
Started      == master' = [master EXCEPT !.up = TRUE, !.live = Served(disk), !.gen = @ + 1]

At(pc)      == tx # Null /\ tx.pc = pc
Goto(pc)    == tx' = [tx EXCEPT !.pc = pc] /\ UNCHANGED answer
Finish(ans) == tx' = Null /\ answer' = ans

-----------------------------------------------------------------------------
(* The handler takes the lock.  For maintenance it first records which     *)
(* workers nginx has.                                                      *)

NeedsBarrier(r) ==
  /\ r.reload
  /\ \E i \in DOMAIN r.changes :
       r.changes[i].transition \/ (r.changes[i].body # Null /\ r.changes[i].body.maint)

Accept(r) ==
  /\ tx = Null
  /\ spent.requests < MaxRequests
  /\ spent' = [spent EXCEPT !.requests = @ + 1]
  /\ tx' = [pc |-> "prepare", req |-> r, changes |-> <<>>, backups |-> <<>>, i |-> 1,
            gen |-> master.gen, missed |-> FALSE, before |-> disk,
            alone |-> ~master.hup /\ master.reading = Null]
  /\ UNCHANGED <<disk, master, answer>>

(* Apply, until its first write: follow the aliases, compare the hashes,   *)
(* respect the maintenance block, back everything up.                      *)
Resolved(d, ch) == IF ch.follow THEN [ch EXCEPT !.path = Resolve(d, ch.path)] ELSE ch

FollowAllowed(d, ch) ==
  ch.follow => ch.type \in {"write", "check"} /\ ch.expect # Null /\ Content(d, ch.path) # Absent

HashHolds(d, ch) ==
  /\ ch.type = "check" => ch.expect # Null
  /\ ch.expect # Null => ch.type \in {"write", "check"} /\ d[ch.path] = ch.expect

(* ValidateMaintenanceWrite: a transition only adds or removes the block,  *)
(* anything else keeps it and replaces certificates at most.               *)
MaintenanceWrite(old, ch) ==
  IF ch.transition
  THEN ch.body.text = old.text
  ELSE /\ ch.body.maint = old.maint
       /\ ch.body.text = old.text \/ <<old.text, ch.body.text>> \in CertPatches

(* Wrong: only writes are held back by the maintenance block.              *)
MaintenanceAllowsRemoval(d, ch) ==
  LET old == Content(d, ch.path)
  IN /\ ch.type = "write"
     /\ (HasMaintenance(old) \/ ch.body.maint)
     => ch.expect # Null /\ MaintenanceWrite(old, ch)

MaintenanceAllows(d, ch) ==
  LET old == Content(d, ch.path)
  IN /\ ch.type # "check"
     /\ (HasMaintenance(old) \/ (ch.type = "write" /\ ch.body.maint))
     => ch.type = "write" /\ ch.expect # Null /\ MaintenanceWrite(old, ch)

Acceptable(d, r) ==
  \A i \in DOMAIN r.changes :
    LET ch == Resolved(d, r.changes[i])
    IN FollowAllowed(d, r.changes[i]) /\ HashHolds(d, ch) /\ MaintenanceAllows(d, ch)

(* Wrong: a link is taken for a missing file.                              *)
BackupOfFiles(d, ch) ==
  IF ch.type = "check" THEN Null ELSE IF d[ch.path] \in Body THEN d[ch.path] ELSE Absent

(* backup reads through a link, and records a missing file as Absent.      *)
Backup(d, ch) == IF ch.type = "check" THEN Null ELSE Content(d, ch.path)

Prepare ==
  /\ At("prepare")
  /\ Acceptable(disk, tx.req)
  /\ LET changes == [i \in DOMAIN tx.req.changes |-> Resolved(disk, tx.req.changes[i])]
     IN tx' = [tx EXCEPT !.pc = "apply", !.changes = changes,
                 !.backups = [i \in DOMAIN changes |-> Backup(disk, changes[i])]]
  /\ UNCHANGED <<disk, master, answer, spent>>

(* Nothing was written: a precondition fails, or the workers cannot be     *)
(* seen, or a backup fails.                                                *)
Refuse ==
  /\ At("prepare")
  /\ \/ ~Acceptable(disk, tx.req) /\ UNCHANGED spent
     \/ Fault
  /\ Finish("refused")
  /\ UNCHANGED <<disk, master>>

-----------------------------------------------------------------------------
(* applyOne.                                                               *)

Applied(d, ch) ==
  CASE ch.type = "write"  -> [d EXCEPT ![ch.path] = ch.body]
    [] ch.type = "remove" -> [d EXCEPT ![ch.path] = Absent]
    [] OTHER              -> d

InTurn == At("apply") /\ tx.i <= Len(tx.changes)

ApplyOne ==
  /\ InTurn /\ tx.changes[tx.i].type # "symlink"
  /\ disk' = Applied(disk, tx.changes[tx.i])
  /\ tx' = [tx EXCEPT !.i = @ + 1]
  /\ UNCHANGED <<master, answer, spent>>

(* A link is removed, then made.                                           *)
Unlink ==
  /\ InTurn /\ tx.changes[tx.i].type = "symlink"
  /\ disk' = [disk EXCEPT ![tx.changes[tx.i].path] = Absent]
  /\ Goto("relink")
  /\ UNCHANGED <<master, spent>>

Relink ==
  /\ At("relink")
  /\ disk' = [disk EXCEPT ![tx.changes[tx.i].path] = tx.changes[tx.i].to]
  /\ tx' = [tx EXCEPT !.pc = "apply", !.i = @ + 1]
  /\ UNCHANGED <<master, answer, spent>>

RollBack ==
  tx' = [tx EXCEPT !.pc = "rollback", !.i = Len(tx.changes)] /\ UNCHANGED answer

ApplyFails ==
  /\ InTurn \/ At("relink")
  /\ Fault
  /\ RollBack
  /\ UNCHANGED <<disk, master>>

Answered == Finish(IF tx.req.reload THEN "reloaded" ELSE "stored")
Reloaded == IF NeedsBarrier(tx.req) THEN Goto("ready") ELSE Answered

(* Wrong: a configuration that passed the test is not reloaded.            *)
TestedOnly == Answered

Tested == IF tx.req.reload THEN Goto("reload") ELSE Answered

ApplyDone ==
  /\ At("apply") /\ tx.i > Len(tx.changes)
  /\ IF tx.req.test THEN Goto("test") ELSE Tested
  /\ UNCHANGED <<disk, master, spent>>

-----------------------------------------------------------------------------
(* nginx -t, nginx -s reload (which tests again before it signals), and    *)
(* the start of an nginx that does not run.  Any command may fail, or be   *)
(* killed when the request ends.                                           *)

TestPasses ==
  /\ At("test") /\ Loadable(disk)
  /\ Tested
  /\ UNCHANGED <<disk, master, spent>>

TestFails ==
  /\ At("test")
  /\ (~Loadable(disk) /\ UNCHANGED spent) \/ Fault
  /\ RollBack
  /\ UNCHANGED <<disk, master>>

Reload ==
  /\ At("reload") /\ master.up /\ Loadable(disk)
  /\ master' = [master EXCEPT !.hup = TRUE]
  /\ Reloaded
  /\ UNCHANGED <<disk, spent>>

(* A reload that was killed may have sent its signal.                      *)
ReloadFails ==
  /\ At("reload")
  /\ \/ ~Loadable(disk) /\ UNCHANGED <<spent, master>>
     \/ Fault /\ ReloadKilled
  /\ RollBack
  /\ UNCHANGED disk

(* isNginxReloadPIDError: there is no master.                              *)
ReloadFindsNoMaster ==
  /\ At("reload") /\ ~master.up /\ Loadable(disk)
  /\ Goto("start")
  /\ UNCHANGED <<disk, master, spent>>

(* If somebody else has started nginx meanwhile, systemd has nothing to do  *)
(* and says so, while a second nginx would find its ports taken.           *)
StartSucceeds ==
  /\ At("start")
  /\ IF master.up THEN UNCHANGED master ELSE Loadable(disk) /\ Started
  /\ Reloaded
  /\ UNCHANGED <<disk, spent>>

StartFails ==
  /\ At("start")
  /\ ((master.up \/ ~Loadable(disk)) /\ UNCHANGED spent) \/ Fault
  /\ RollBack
  /\ UNCHANGED <<disk, master>>

(* Wrong: any running nginx will do.                                       *)
GenerationRunning == master.up

(* The barrier: the workers of the beginning are gone and others are here; *)
(* or the request ends first, and the files stay.                          *)
GenerationSwitched == master.up /\ master.gen # tx.gen

Ready ==
  /\ At("ready") /\ GenerationSwitched
  /\ Answered
  /\ UNCHANGED <<disk, master, spent>>

ReadyTimesOut ==
  /\ At("ready")
  /\ Finish("unconfirmed")
  /\ UNCHANGED <<disk, master, spent>>

-----------------------------------------------------------------------------
(* Rollback: the last backup first, and the first one that fails ends it.  *)

Restored(d, ch, backup) == IF backup = Null THEN d ELSE [d EXCEPT ![ch.path] = backup]

RollbackOne ==
  /\ At("rollback") /\ tx.i > 0
  /\ disk' = Restored(disk, tx.changes[tx.i], tx.backups[tx.i])
  /\ tx' = [tx EXCEPT !.i = @ - 1]
  /\ UNCHANGED <<master, answer, spent>>

(* The failed removal of a file that was not there before is ignored.      *)
RollbackMisses ==
  /\ At("rollback") /\ tx.i > 0 /\ tx.backups[tx.i] = Absent
  /\ Fault
  /\ tx' = [tx EXCEPT !.i = @ - 1, !.missed = TRUE]
  /\ UNCHANGED <<disk, master, answer>>

RollbackDone ==
  /\ At("rollback") /\ tx.i = 0
  /\ Finish(IF tx.missed THEN "halfRolledBack" ELSE "rolledBack")
  /\ UNCHANGED <<disk, master, spent>>

RollbackFails ==
  /\ At("rollback") /\ tx.i > 0 /\ tx.backups[tx.i] \in Body
  /\ Fault
  /\ Finish("halfRolledBack")
  /\ UNCHANGED <<disk, master>>

(* The agent dies.  There is no journal: the disk stays as it is.          *)
Crash ==
  /\ tx # Null
  /\ Fault
  /\ Finish("crashed")
  /\ UNCHANGED <<disk, master>>

-----------------------------------------------------------------------------
(* The other handlers: a file the file manager writes, under the lock, and *)
(* a reload, without it.                                                   *)

FilesWrite(p, body) ==
  /\ tx = Null
  /\ spent.requests < MaxRequests
  /\ spent' = [spent EXCEPT !.requests = @ + 1]
  /\ ~HasMaintenance(Content(disk, p))
  /\ disk' = [disk EXCEPT ![p] = body]
  /\ answer' = "stored"
  /\ UNCHANGED <<master, tx>>

ManualReload ==
  /\ spent.reloads < MaxReloads
  /\ spent' = [spent EXCEPT !.reloads = @ + 1]
  /\ Loadable(disk)
  /\ IF master.up THEN master' = [master EXCEPT !.hup = TRUE] ELSE Started
  /\ tx' = IF tx = Null THEN tx ELSE [tx EXCEPT !.alone = FALSE]
  /\ UNCHANGED <<disk, answer>>

-----------------------------------------------------------------------------
(* nginx.  The master loads what it finds when it sees the signal, keeps   *)
(* what it has if that is wrong, and replaces its workers.                 *)

MasterReads ==
  /\ master.up /\ master.hup /\ master.reading = Null
  /\ master' = [master EXCEPT !.hup = FALSE,
                   !.reading = IF Loadable(disk) THEN Served(disk) ELSE Null]
  /\ UNCHANGED <<disk, tx, answer, spent>>

MasterSwitches ==
  /\ master.reading # Null
  /\ master' = [master EXCEPT !.live = master.reading, !.gen = @ + 1, !.reading = Null]
  /\ UNCHANGED <<disk, tx, answer, spent>>

MasterStops ==
  /\ master.up
  /\ Fault
  /\ master' = [master EXCEPT !.up = FALSE, !.hup = FALSE, !.reading = Null]
  /\ UNCHANGED <<disk, tx, answer>>

-----------------------------------------------------------------------------
TxStep ==
  \/ Prepare \/ Refuse
  \/ ApplyOne \/ Unlink \/ Relink \/ ApplyFails \/ ApplyDone
  \/ TestPasses \/ TestFails
  \/ Reload \/ ReloadFails \/ ReloadFindsNoMaster \/ StartSucceeds \/ StartFails
  \/ Ready \/ ReadyTimesOut
  \/ RollbackOne \/ RollbackMisses \/ RollbackDone \/ RollbackFails

Next ==
  \/ \E r \in Requests : Accept(r)
  \/ TxStep
  \/ Crash
  \/ \E p \in Paths, text \in Texts : FilesWrite(p, [text |-> text, maint |-> FALSE])
  \/ ManualReload
  \/ MasterReads \/ MasterSwitches \/ MasterStops

Spec == Init /\ [][Next]_vars

-----------------------------------------------------------------------------
(* A transaction that ends without a crash has either done all it was      *)
(* asked for or changed nothing that a reader of the files can see; a      *)
(* rollback that fails in part is the exception the handler conceals.      *)
InEffect(d, ch) ==
  CASE ch.type = "write"   -> d[ch.path] = ch.body
    [] ch.type = "remove"  -> d[ch.path] = Absent
    [] ch.type = "symlink" -> d[ch.path] = ch.to
    [] ch.type = "check"   -> d[ch.path] = ch.expect

Last(i) == \A j \in DOMAIN tx.changes : j > i => tx.changes[j].path # tx.changes[i].path

AllOrNothing ==
  [][tx # Null /\ tx' = Null =>
       /\ answer' \in {"stored", "reloaded", "unconfirmed"} =>
            \A i \in DOMAIN tx.changes : Last(i) => InEffect(disk', tx.changes[i])
       /\ answer' \in {"refused", "rolledBack"} => Contents(disk') = Contents(tx.before)]_vars

(* A file in maintenance stays in maintenance, and what it says the same   *)
(* but for certificates, until a maintenance transition; and the link      *)
(* through which it is served stays: no edit, removal, relinking, file     *)
(* write, failure, rollback or crash ends it.  Only a link that the        *)
(* transaction has just made may go with it when it is rolled back.        *)
Kept(old, new) ==
  /\ HasMaintenance(new)
  /\ new.text = old.text \/ <<old.text, new.text>> \in CertPatches \/ <<new.text, old.text>> \in CertPatches

NewLink(p) == tx # Null /\ disk[p] \in Confs /\ disk[p] # tx.before[p]

MaintenanceHolds ==
  [][\A p \in Paths :
       HasMaintenance(Content(disk, p)) /\ ~NewLink(p) =>
         \/ Kept(Content(disk, p), Content(disk', p))
         \/ /\ tx # Null
            /\ \E i \in DOMAIN tx.changes :
                 tx.changes[i].transition /\ tx.changes[i].path = Resolve(disk, p)
            /\ Content(disk', p) # Absent /\ Content(disk', p).text = Content(disk, p).text]_vars

(* When a maintenance transition is answered ok, nginx serves it: provided *)
(* that no other reload was under way when it began or was asked for       *)
(* since.                                                                  *)
ConfirmedIsLive ==
  [][At("ready") /\ tx' = Null /\ answer' = "reloaded" /\ tx.alone
       => master.live = Served(disk)]_vars

(* After an ok with a reload, and with nothing under way since, nginx      *)
(* serves what is on the disk, however many reloads were signalled, merged *)
(* or overtaken.                                                           *)
AtRest == tx = Null /\ master.up /\ ~master.hup /\ master.reading = Null

RestingNginxServesDisk == AtRest /\ answer = "reloaded" => master.live = Served(disk)

(* transaction.go: a failed test or reload restores the original files.    *)
RollbackRestoresFiles ==
  [][tx # Null /\ tx' = Null /\ answer' = "rolledBack" => disk' = tx.before]_vars
=============================================================================
