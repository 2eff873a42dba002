------------------------ MODULE AgentTransactionProofs ------------------------
(***************************************************************************)
(* Theorems about AgentTransaction for every value of the constants.       *)
(***************************************************************************)
EXTENDS AgentTransaction, TLAPS

-----------------------------------------------------------------------------
(* The inductive invariant.                                                *)

DiskOK(d) == d \in [Paths -> Node] /\ \A c \in Confs : d[c] \notin Confs

(* A master that is down has nothing to do.                                *)
MasterOK(m) == m \in Master /\ (~m.up => ~m.hup /\ m.reading = Null)

(* What Apply relies on when it carries out a change.                      *)
WellFormed(ch) ==
  /\ ch.type = "write" => ch.body \in Body
  /\ ch.type = "symlink" => ch.path \in Links /\ ch.to \in Confs

TxOK(t) ==
  /\ t \in Tx
  /\ t.i <= Len(t.changes) + 1
  /\ t.pc = "prepare" => t.i = 1
  /\ t.pc = "rollback" => t.i <= Len(t.changes)
  /\ t.pc # "rollback" => t.i >= 1
  /\ Len(t.backups) = Len(t.changes)
  /\ \A i \in DOMAIN t.changes : WellFormed(t.changes[i])
  /\ t.pc = "relink" => t.i \in DOMAIN t.changes /\ t.changes[t.i].type = "symlink"

(* From the reload to the next transaction the files can be loaded, and    *)
(* they are served, about to be served, or about to be read.               *)
PastReload(t, ans) ==
  \/ t # Null /\ t.pc \in {"start", "ready"}
  \/ t = Null /\ ans = "reloaded"

ServesOrWill(m, d) ==
  \/ ~m.up
  \/ m.hup
  \/ m.reading # Null /\ m.reading = Served(d)
  \/ m.reading = Null /\ m.live = Served(d)

Settled(t, ans, m, d) == PastReload(t, ans) => Loadable(d) /\ ServesOrWill(m, d)

Spent == [requests : 0..MaxRequests, reloads : 0..MaxReloads, faults : 0..MaxFaults]

AInv ==
  /\ DiskOK(disk)
  /\ MasterOK(master)
  /\ tx # Null => TxOK(tx)
  /\ answer \in Answers
  /\ spent \in Spent
  /\ Settled(tx, answer, master, disk)

(* It contains the type invariant.                                         *)
LEMMA AInvTyped == AInv => TypeOK
<1> SUFFICES ASSUME AInv
             PROVE  TypeOK
  OBVIOUS
<1>1. tx \in Tx \cup {Null}
  BY DEF AInv, TxOK
<1>2. tx # Null => tx.i <= Len(tx.changes) + (IF tx.pc = "rollback" THEN 0 ELSE 1)
  BY <1>1 DEF Tx, AInv, TxOK
<1>3. QED
  BY <1>1, <1>2 DEF AInv, TypeOK, DiskOK, MasterOK, Spent

-----------------------------------------------------------------------------
(* Reading the disk.                                                       *)

(* Every path leads to a body or to nothing.                               *)
LEMMA ContentType ==
  ASSUME NEW d, DiskOK(d), NEW p \in Paths
  PROVE  Resolve(d, p) \in Paths /\ Content(d, p) \in Body \cup {Absent}
<1>1. d[p] \in Node
  BY DEF DiskOK
<1>2. CASE d[p] \in Confs
  BY <1>2 DEF Resolve, Paths, DiskOK, Content, Node
<1>3. CASE d[p] \notin Confs
  BY <1>1, <1>3 DEF Resolve, Content, Node
<1>4. QED
  BY <1>2, <1>3

(* What the links lead to is what nginx can serve.                         *)
LEMMA ServedType ==
  ASSUME NEW d, DiskOK(d)
  PROVE  Served(d) \in Snapshot
BY ContentType DEF Paths, Served, Snapshot

(* Replacing what a path holds, by anything but a link at a regular file.  *)
LEMMA DiskUpdate ==
  ASSUME NEW d, DiskOK(d), NEW p \in Paths, NEW n \in Node,
         p \in Links \/ n \notin Confs
  PROVE  DiskOK([d EXCEPT ![p] = n])
BY PathsAssumption DEF DiskOK, Paths

-----------------------------------------------------------------------------
(* Changes.                                                                *)

(* A function on the indices of a sequence is a sequence as long.          *)
LEMMA MappedSeq ==
  ASSUME NEW S, NEW T, NEW s \in Seq(S), NEW f \in [DOMAIN s -> T]
  PROVE  f \in Seq(T) /\ Len(f) = Len(s) /\ DOMAIN f = DOMAIN s
OBVIOUS

(* An accepted change keeps its form when its alias is followed.           *)
LEMMA ResolvedChange ==
  ASSUME NEW d, DiskOK(d), NEW r \in Requests, Acceptable(d, r), NEW i \in DOMAIN r.changes
  PROVE  LET ch == Resolved(d, r.changes[i])
         IN ch \in Change /\ WellFormed(ch) /\ Backup(d, ch) \in Body \cup {Absent, Null}
<1> DEFINE old == r.changes[i]
           ch  == Resolved(d, old)
<1>1. r.changes \in Seq(Change)
  BY RequestsAssumption DEF Request
<1>2. old \in Change
  BY <1>1
<1>3. /\ old.type = "write" <=> old.body # Null
      /\ old.type = "symlink" <=> old.to # Null
      /\ old.to # Null => old.path \in Links /\ old.to \in Confs
  BY RequestsAssumption, PathsAssumption
<1>4. old.follow => old.type \in {"write", "check"}
  BY DEF Acceptable, FollowAllowed
<1>5. WellFormed(old)
  BY <1>2, <1>3, PathsAssumption DEF WellFormed, Change
<1>6. old.path \in Paths /\ Resolve(d, old.path) \in Paths
  BY <1>2, ContentType DEF Change
<1>7. ch \in Change /\ ch.type = old.type /\ ch.body = old.body /\ ch.to = old.to
  BY <1>2, <1>6 DEF Resolved, Change
<1>8. ch.type = "symlink" => ch = old
  BY <1>4, <1>7 DEF Resolved
<1>9. WellFormed(ch)
  BY <1>5, <1>7, <1>8 DEF WellFormed
<1>10. Backup(d, ch) \in Body \cup {Absent, Null}
  BY <1>7, ContentType DEF Change, Backup
<1>11. QED
  BY <1>7, <1>9, <1>10

-----------------------------------------------------------------------------
(* The pieces of the state that the steps change.                          *)

(* Using up a fault stays within the bound.                                *)
LEMMA FaultSpends ==
  ASSUME spent \in Spent, Fault
  PROVE  spent' \in Spent
BY BudgetAssumption DEF Fault, Spent

(* Moving the program counter, except to the places that ask for more.     *)
LEMMA TxMoves ==
  ASSUME NEW t, TxOK(t), t.pc # "rollback",
         NEW pc \in {"apply", "test", "reload", "start", "ready"}
  PROVE  /\ TxOK([t EXCEPT !.pc = pc])
         /\ [t EXCEPT !.pc = pc] # Null
         /\ [t EXCEPT !.pc = pc].pc = pc
<1> DEFINE u == [t EXCEPT !.pc = pc]
<1>1. u \in Tx /\ u.pc = pc /\ u.i = t.i /\ u.changes = t.changes /\ u.backups = t.backups
  BY DEF TxOK, Tx
<1>2. t.i \in Nat /\ Len(t.changes) \in Nat
  BY DEF TxOK, Tx
<1>3. t.i <= Len(t.changes) + 1 /\ t.i >= 1
  BY <1>2 DEF TxOK
<1>4. u # Null
  BY <1>1, NothingAssumption
<1>5. QED
  BY <1>1, <1>3, <1>4 DEF TxOK

(* Starting the rollback with the last backup.                             *)
LEMMA TxRollsBack ==
  ASSUME tx # Null, TxOK(tx), answer \in Answers, RollBack
  PROVE  TxOK(tx') /\ tx' # Null /\ tx'.pc = "rollback" /\ answer' = answer
<1>1. Len(tx.changes) \in Nat
  BY DEF TxOK, Tx
<1>2. tx' \in Tx /\ tx'.pc = "rollback" /\ tx'.i = Len(tx.changes)
        /\ tx'.changes = tx.changes /\ tx'.backups = tx.backups
  BY <1>1 DEF TxOK, Tx, RollBack
<1>3. tx' # Null
  BY <1>2, NothingAssumption
<1>4. QED
  BY <1>1, <1>2, <1>3 DEF TxOK, RollBack

(* A reload that was killed may have told nginx.                           *)
LEMMA ReloadKilledKeeps ==
  ASSUME MasterOK(master), ReloadKilled
  PROVE  MasterOK(master')
BY DEF MasterOK, Master, ReloadKilled

(* An nginx that starts serves what it finds.                              *)
LEMMA StartedServes ==
  ASSUME DiskOK(disk), MasterOK(master), Started, ~master.up
  PROVE  MasterOK(master') /\ ServesOrWill(master', disk)
<1>1. Served(disk) \in Snapshot /\ master \in Master /\ ~master.hup /\ master.reading = Null
  BY ServedType DEF MasterOK
<1>2. master' = [master EXCEPT !.up = TRUE, !.live = Served(disk), !.gen = @ + 1]
  BY DEF Started
<1>3. master.gen + 1 \in Nat
  BY <1>1 DEF Master
<1>4. master' \in Master
  BY <1>1, <1>2, <1>3 DEF Master
<1>5. master'.up /\ master'.reading = Null /\ master'.live = Served(disk)
  BY <1>1, <1>2 DEF Master
<1>6. QED
  BY <1>4, <1>5 DEF MasterOK, ServesOrWill

(* An nginx that is told to reload will look at the files.                 *)
LEMMA SignalledWill ==
  ASSUME MasterOK(master), master.up, master' = [master EXCEPT !.hup = TRUE], NEW d
  PROVE  MasterOK(master') /\ ServesOrWill(master', d)
BY DEF MasterOK, Master, ServesOrWill

-----------------------------------------------------------------------------
(* The steps of a transaction.                                             *)

(* Taking the lock.                                                        *)
LEMMA AcceptKeeps ==
  ASSUME AInv, NEW r \in Requests, Accept(r)
  PROVE  AInv'
<1>1. DiskOK(disk) /\ MasterOK(master) /\ spent \in Spent /\ answer \in Answers
  BY DEF AInv
<1>2. tx' \in Tx /\ tx'.pc = "prepare" /\ tx'.i = 1 /\ tx'.changes = <<>> /\ tx'.backups = <<>>
  BY <1>1 DEF MasterOK, Master, DiskOK, Accept, Tx
<1>3. tx' # Null
  BY <1>2, NothingAssumption
<1>4. TxOK(tx')
  BY <1>2 DEF TxOK
<1>5. spent' \in Spent
  BY <1>1, BudgetAssumption DEF Accept, Spent
<1>6. QED
  BY <1>1, <1>2, <1>3, <1>4, <1>5 DEF Accept, AInv, Settled, PastReload

(* The four ways a step can go on: answering, going back, and going on     *)
(* after the test and after the reload.                                    *)
LEMMA FinishKeeps ==
  ASSUME DiskOK(disk'), MasterOK(master'), spent' \in Spent, NEW ans \in Answers, Finish(ans),
         ans = "reloaded" => Loadable(disk') /\ ServesOrWill(master', disk')
  PROVE  AInv'
BY DEF Finish, AInv, Settled, PastReload

(* Going back.                                                             *)
LEMMA RollBackKeeps ==
  ASSUME AInv, tx # Null, RollBack, disk' = disk, MasterOK(master'), spent' \in Spent
  PROVE  AInv'
BY TxRollsBack DEF AInv, Settled, PastReload

(* Moving on to a place before the end of the reload.                      *)
LEMMA GotoKeeps ==
  ASSUME AInv, tx # Null, tx.pc # "rollback", NEW pc \in {"apply", "test", "reload"}, Goto(pc),
         disk' = disk, master' = master, spent' \in Spent
  PROVE  AInv'
<1>1. TxOK(tx) /\ answer \in Answers /\ DiskOK(disk) /\ MasterOK(master)
  BY DEF AInv
<1>2. tx' = [tx EXCEPT !.pc = pc] /\ answer' = answer
  BY DEF Goto
<1>3. pc \in {"apply", "test", "reload", "start", "ready"}
  OBVIOUS
<1>4. TxOK(tx') /\ tx' # Null /\ tx'.pc = pc
  BY <1>1, <1>2, <1>3, TxMoves
<1>5. QED
  BY <1>1, <1>2, <1>4 DEF AInv, Settled, PastReload

(* Waiting at a place after the reload, with the files in order.           *)
LEMMA PastReloadKeeps ==
  ASSUME AInv, tx # Null, tx.pc # "rollback", NEW pc \in {"start", "ready"}, Goto(pc),
         disk' = disk, MasterOK(master'), spent' \in Spent,
         Loadable(disk), ServesOrWill(master', disk)
  PROVE  AInv'
BY TxMoves DEF AInv, Goto, Settled

(* Going on after the test, or after the changes if there is none.         *)
LEMMA TestedKeeps ==
  ASSUME AInv, tx # Null, tx.pc # "rollback", Tested, disk' = disk, master' = master, spent' \in Spent
  PROVE  AInv'
<1>1. CASE tx.req.reload
  BY <1>1, GotoKeeps DEF Tested
<1>2. CASE ~tx.req.reload
  BY <1>2, FinishKeeps DEF Tested, Answered, AInv, Answers
<1>3. QED
  BY <1>1, <1>2

(* Going on after the reload, or after the start.                          *)
LEMMA ReloadedKeeps ==
  ASSUME AInv, tx # Null, tx.pc # "rollback", Reloaded, disk' = disk, MasterOK(master'), spent' \in Spent,
         Loadable(disk), ServesOrWill(master', disk)
  PROVE  AInv'
<1>1. CASE NeedsBarrier(tx.req)
  BY <1>1, PastReloadKeeps DEF Reloaded
<1>2. CASE ~NeedsBarrier(tx.req)
  BY <1>2, FinishKeeps DEF Reloaded, Answered, Answers, AInv
<1>3. QED
  BY <1>1, <1>2

(* Resolving and backing up.                                               *)
LEMMA PrepareKeeps ==
  ASSUME AInv, Prepare
  PROVE  AInv' /\ tx' # Null
<1> DEFINE old     == tx.req.changes
           changes == [i \in DOMAIN old |-> Resolved(disk, old[i])]
           backups == [i \in DOMAIN changes |-> Backup(disk, changes[i])]
<1>1. tx # Null /\ TxOK(tx) /\ DiskOK(disk) /\ answer \in Answers /\ tx.pc = "prepare"
  BY DEF AInv, Prepare, At
<1>2. tx.req \in Requests /\ Acceptable(disk, tx.req)
  BY <1>1 DEF Prepare, TxOK, Tx
<1>3. old \in Seq(Change)
  BY <1>2, RequestsAssumption DEF Request
<1>4. \A i \in DOMAIN old :
        changes[i] \in Change /\ WellFormed(changes[i])
          /\ Backup(disk, changes[i]) \in Body \cup {Absent, Null}
  BY <1>1, <1>2, ResolvedChange
<1>5. changes \in Seq(Change) /\ DOMAIN changes = DOMAIN old
  <2>1. changes \in [DOMAIN old -> Change]
    BY <1>4
  <2> HIDE DEF changes
  <2>2. QED
    BY <1>3, <2>1, MappedSeq
<1>6. backups \in Seq(Body \cup {Absent, Null}) /\ Len(backups) = Len(changes)
  <2>1. \A i \in DOMAIN changes : Backup(disk, changes[i]) \in Body \cup {Absent, Null}
    BY <1>4, <1>5
  <2>2. backups \in [DOMAIN changes -> Body \cup {Absent, Null}]
    BY <2>1
  <2> HIDE DEF changes, backups
  <2>3. QED
    BY <1>5, <2>2, MappedSeq
<1>7. tx' = [tx EXCEPT !.pc = "apply", !.changes = changes, !.backups = backups]
  BY DEF Prepare
<1>8. Len(changes) \in Nat
  BY <1>5
<1>9. \A i \in DOMAIN changes : WellFormed(changes[i])
  BY <1>4, <1>5
<1>10. tx.i = 1
  BY <1>1 DEF TxOK
<1> HIDE DEF changes, backups
<1>11. tx' \in Tx /\ tx'.pc = "apply" /\ tx'.i = tx.i /\ tx'.changes = changes /\ tx'.backups = backups
  BY <1>1, <1>5, <1>6, <1>7 DEF TxOK, Tx
<1>12. tx' # Null
  BY <1>11, NothingAssumption
<1>13. TxOK(tx')
  BY <1>6, <1>8, <1>9, <1>10, <1>11 DEF TxOK
<1>14. QED
  BY <1>1, <1>11, <1>12, <1>13 DEF Prepare, AInv, Settled, PastReload

(* Carrying out a change.                                                  *)
LEMMA InTurnFacts ==
  ASSUME AInv, InTurn
  PROVE  /\ tx # Null /\ TxOK(tx) /\ DiskOK(disk) /\ answer \in Answers
         /\ tx.pc = "apply" /\ tx.i \in DOMAIN tx.changes
         /\ tx.changes[tx.i] \in Change /\ WellFormed(tx.changes[tx.i])
BY DEF AInv, InTurn, At, TxOK, Tx

(* The next change.                                                        *)
LEMMA TxAdvances ==
  ASSUME NEW t, TxOK(t), t.i \in DOMAIN t.changes
  PROVE  /\ TxOK([t EXCEPT !.pc = "apply", !.i = @ + 1])
         /\ [t EXCEPT !.pc = "apply", !.i = @ + 1] # Null
         /\ [t EXCEPT !.pc = "apply", !.i = @ + 1].pc = "apply"
<1> DEFINE u == [t EXCEPT !.pc = "apply", !.i = @ + 1]
<1>1. t.changes \in Seq(Change) /\ t.i \in Nat /\ t.i <= Len(t.changes)
  BY DEF TxOK, Tx
<1>2. t \in Tx /\ t.i + 1 \in Nat
  BY <1>1 DEF TxOK
<1>3. u \in Tx /\ u.pc = "apply" /\ u.i = t.i + 1
  BY <1>2 DEF Tx
<1>4. u.changes = t.changes /\ u.backups = t.backups
  BY <1>2 DEF Tx
<1>5. u # Null
  BY <1>3, NothingAssumption
<1>6. u.i <= Len(u.changes) + 1 /\ u.i >= 1
  BY <1>1, <1>3, <1>4
<1>7. QED
  BY <1>3, <1>4, <1>5, <1>6 DEF TxOK

(* A file written or removed.                                              *)
LEMMA ApplyOneKeeps ==
  ASSUME AInv, ApplyOne
  PROVE  AInv'
<1> DEFINE ch == tx.changes[tx.i]
<1>1. /\ tx # Null /\ TxOK(tx) /\ DiskOK(disk) /\ tx.pc = "apply" /\ tx.i \in DOMAIN tx.changes
      /\ ch \in Change /\ WellFormed(ch)
  BY InTurnFacts DEF ApplyOne
<1>2. DiskOK(disk')
  <2>1. ch.path \in Paths
    BY <1>1 DEF Change
  <2>2. CASE ch.type = "write"
    <3>1. ch.body \in Node /\ ch.body \notin Confs
      BY <1>1, <2>2, PathsAssumption DEF WellFormed, Node
    <3>2. disk' = [disk EXCEPT ![ch.path] = ch.body]
      BY <2>2 DEF ApplyOne, Applied
    <3>3. QED
      BY <1>1, <2>1, <3>1, <3>2, DiskUpdate
  <2>3. CASE ch.type = "remove"
    <3>1. Absent \in Node /\ Absent \notin Confs
      BY PathsAssumption DEF Node
    <3>2. disk' = [disk EXCEPT ![ch.path] = Absent]
      BY <2>3 DEF ApplyOne, Applied
    <3>3. QED
      BY <1>1, <2>1, <3>1, <3>2, DiskUpdate
  <2>4. CASE ch.type \notin {"write", "remove"}
    BY <1>1, <2>4 DEF ApplyOne, Applied
  <2>5. QED
    BY <2>2, <2>3, <2>4
<1>3. tx' = [tx EXCEPT !.pc = "apply", !.i = @ + 1]
  BY <1>1 DEF ApplyOne, TxOK, Tx
<1>4. TxOK(tx') /\ tx' # Null /\ tx'.pc = "apply"
  BY <1>1, <1>3, TxAdvances
<1>5. QED
  BY <1>2, <1>4 DEF ApplyOne, AInv, Settled, PastReload

(* A link removed to be replaced.                                          *)
LEMMA UnlinkKeeps ==
  ASSUME AInv, Unlink
  PROVE  AInv'
<1> DEFINE ch == tx.changes[tx.i]
<1>1. /\ tx # Null /\ TxOK(tx) /\ DiskOK(disk) /\ tx.pc = "apply" /\ tx.i \in DOMAIN tx.changes
      /\ ch \in Change /\ ch.type = "symlink"
  BY InTurnFacts DEF Unlink
<1>2. ch.path \in Paths /\ Absent \in Node /\ Absent \notin Confs
  BY <1>1, PathsAssumption DEF Change, Node
<1>3. DiskOK(disk')
  BY <1>1, <1>2, DiskUpdate DEF Unlink
<1>4. tx' = [tx EXCEPT !.pc = "relink"] /\ answer' = answer
  BY DEF Unlink, Goto
<1>5. tx' \in Tx /\ tx'.pc = "relink" /\ tx'.i = tx.i /\ tx'.changes = tx.changes /\ tx'.backups = tx.backups
  BY <1>1, <1>4 DEF TxOK, Tx
<1>6. tx' # Null
  BY <1>5, NothingAssumption
<1>7. TxOK(tx')
  BY <1>1, <1>5 DEF TxOK
<1>8. QED
  BY <1>3, <1>4, <1>5, <1>6, <1>7 DEF Unlink, AInv, Settled, PastReload

(* The link made.                                                          *)
LEMMA RelinkKeeps ==
  ASSUME AInv, Relink
  PROVE  AInv'
<1> DEFINE ch == tx.changes[tx.i]
<1>1. /\ tx # Null /\ TxOK(tx) /\ DiskOK(disk) /\ tx.i \in DOMAIN tx.changes
      /\ ch.type = "symlink" /\ WellFormed(ch)
  BY DEF AInv, Relink, At, TxOK
<1>2. ch.path \in Links /\ ch.path \in Paths /\ ch.to \in Node
  BY <1>1 DEF WellFormed, Paths, Node
<1>3. DiskOK(disk')
  BY <1>1, <1>2, DiskUpdate DEF Relink
<1>4. TxOK(tx') /\ tx' # Null /\ tx'.pc = "apply"
  BY <1>1, TxAdvances DEF Relink
<1>5. QED
  BY <1>3, <1>4 DEF Relink, AInv, Settled, PastReload

(* A change that cannot be made.                                           *)
LEMMA ApplyFailsKeeps ==
  ASSUME AInv, ApplyFails
  PROVE  AInv'
BY FaultSpends, RollBackKeeps DEF ApplyFails, InTurn, At, AInv

(* All changes made.                                                       *)
LEMMA ApplyDoneKeeps ==
  ASSUME AInv, ApplyDone
  PROVE  AInv'
BY GotoKeeps, TestedKeeps DEF AInv, ApplyDone, At

(* Testing, reloading, starting.                                           *)
LEMMA TestKeeps ==
  ASSUME AInv, TestPasses \/ TestFails
  PROVE  AInv'
<1>1. /\ tx # Null /\ tx.pc # "rollback"
      /\ disk' = disk /\ master' = master /\ MasterOK(master)
  BY DEF AInv, TestPasses, TestFails, At
<1>2. spent' \in Spent
  BY FaultSpends DEF AInv, TestPasses, TestFails
<1>3. CASE TestPasses
  BY <1>1, <1>2, <1>3, TestedKeeps DEF TestPasses
<1>4. CASE TestFails
  <2>1. MasterOK(master') /\ RollBack
    BY <1>1, <1>4 DEF TestFails
  <2>2. QED
    BY <1>1, <1>2, <2>1, RollBackKeeps
<1>5. QED
  BY <1>3, <1>4

(* The reload is signalled.                                                *)
LEMMA ReloadKeeps ==
  ASSUME AInv, Reload
  PROVE  AInv'
BY SignalledWill, ReloadedKeeps DEF AInv, Reload, At

(* The reload fails, its signal sent or not.                               *)
LEMMA ReloadFailsKeeps ==
  ASSUME AInv, ReloadFails
  PROVE  AInv'
BY FaultSpends, ReloadKilledKeeps, RollBackKeeps DEF AInv, ReloadFails, At

(* There is no nginx to reload.                                            *)
LEMMA ReloadFindsNoMasterKeeps ==
  ASSUME AInv, ReloadFindsNoMaster
  PROVE  AInv'
BY PastReloadKeeps DEF AInv, ReloadFindsNoMaster, At, ServesOrWill

(* nginx is started, by the handler or by somebody else.                   *)
LEMMA StartKeeps ==
  ASSUME AInv, StartSucceeds \/ StartFails
  PROVE  AInv'
<1>1. tx # Null /\ tx.pc = "start" /\ disk' = disk /\ MasterOK(master) /\ DiskOK(disk)
  BY DEF AInv, StartSucceeds, StartFails, At
<1>2. Loadable(disk) /\ ServesOrWill(master, disk)
  BY <1>1 DEF AInv, Settled, PastReload
<1>3. spent' \in Spent
  BY FaultSpends DEF AInv, StartSucceeds, StartFails
<1>4. CASE StartSucceeds
  <2>1. MasterOK(master') /\ ServesOrWill(master', disk)
    BY <1>1, <1>2, <1>4, StartedServes DEF StartSucceeds
  <2>2. QED
    BY <1>1, <1>2, <1>3, <1>4, <2>1, ReloadedKeeps DEF StartSucceeds
<1>5. CASE StartFails
  <2>1. MasterOK(master') /\ RollBack
    BY <1>1, <1>5 DEF StartFails
  <2>2. QED
    BY <1>1, <1>3, <2>1, RollBackKeeps
<1>6. QED
  BY <1>4, <1>5

(* The barrier.                                                            *)
LEMMA ReadyKeeps ==
  ASSUME AInv, Ready \/ ReadyTimesOut
  PROVE  AInv'
<1>1. /\ tx # Null /\ tx.pc = "ready" /\ disk' = disk /\ master' = master
      /\ DiskOK(disk') /\ MasterOK(master') /\ spent' \in Spent
  BY DEF AInv, Ready, ReadyTimesOut, At
<1>2. Loadable(disk') /\ ServesOrWill(master', disk')
  BY <1>1 DEF AInv, Settled, PastReload
<1>3. PICK ans \in Answers : Finish(ans)
  BY DEF Ready, ReadyTimesOut, Answered, Answers
<1>4. QED
  BY <1>1, <1>2, <1>3, FinishKeeps

(* The rollback.                                                           *)
LEMMA RollbackFacts ==
  ASSUME AInv, At("rollback"), tx.i > 0
  PROVE  /\ tx # Null /\ TxOK(tx) /\ DiskOK(disk) /\ MasterOK(master) /\ answer \in Answers
         /\ tx.changes[tx.i] \in Change
         /\ tx.backups[tx.i] \in Body \cup {Absent, Null}
         /\ tx.i - 1 \in Nat
BY DEF AInv, At, TxOK, Tx

(* One backup fewer, whether or not the removal was missed.                *)
LEMMA TxRetreats ==
  ASSUME NEW t, TxOK(t), t.pc = "rollback", t.i - 1 \in Nat, NEW m \in BOOLEAN,
         NEW u, u = [t EXCEPT !.i = @ - 1, !.missed = m]
  PROVE  TxOK(u) /\ u # Null /\ u.pc = "rollback"
<1>1. t.i \in Nat /\ Len(t.changes) \in Nat
  BY DEF TxOK, Tx
<1>2. u \in Tx /\ u.pc = "rollback" /\ u.i = t.i - 1 /\ u.changes = t.changes /\ u.backups = t.backups
  BY DEF TxOK, Tx
<1>3. u # Null
  BY <1>2, NothingAssumption
<1>4. u.i <= Len(u.changes)
  BY <1>1, <1>2 DEF TxOK
<1>5. u.i <= Len(u.changes) + 1
  BY <1>1, <1>2, <1>4
<1>6. QED
  BY <1>2, <1>3, <1>4, <1>5 DEF TxOK

(* A backup restored.                                                      *)
LEMMA RollbackOneKeeps ==
  ASSUME AInv, RollbackOne
  PROVE  AInv'
<1> DEFINE ch     == tx.changes[tx.i]
           backup == tx.backups[tx.i]
<1>1. /\ tx # Null /\ TxOK(tx) /\ DiskOK(disk) /\ tx.i - 1 \in Nat
      /\ ch \in Change /\ backup \in Body \cup {Absent, Null}
  BY RollbackFacts DEF RollbackOne
<1>2. DiskOK(disk')
  <2>1. CASE backup = Null
    BY <1>1, <2>1 DEF RollbackOne, Restored
  <2>2. CASE backup # Null
    <3>1. ch.path \in Paths /\ backup \in Node /\ backup \notin Confs
      BY <1>1, <2>2, PathsAssumption DEF Change, Node
    <3>2. disk' = [disk EXCEPT ![ch.path] = backup]
      BY <2>2 DEF RollbackOne, Restored
    <3>3. QED
      BY <1>1, <3>1, <3>2, DiskUpdate
  <2>3. QED
    BY <2>1, <2>2
<1>3. tx.missed \in BOOLEAN /\ tx.pc = "rollback"
  BY <1>1 DEF RollbackOne, At, TxOK, Tx
<1>4. tx' = [tx EXCEPT !.i = @ - 1, !.missed = tx.missed]
  BY <1>1 DEF RollbackOne, TxOK, Tx
<1>5. TxOK(tx') /\ tx' # Null /\ tx'.pc = "rollback"
  BY <1>1, <1>3, <1>4, TxRetreats
<1>6. QED
  BY <1>2, <1>5 DEF RollbackOne, AInv, Settled, PastReload

(* A new file that stays.                                                  *)
LEMMA RollbackMissesKeeps ==
  ASSUME AInv, RollbackMisses
  PROVE  AInv'
BY RollbackFacts, TxRetreats, FaultSpends DEF RollbackMisses, At, AInv, Settled, PastReload

(* The steps that end a transaction with another answer than ok.           *)
LEMMA EndKeeps ==
  ASSUME AInv, Refuse \/ RollbackDone \/ RollbackFails \/ Crash
  PROVE  AInv'
<1>1. disk' = disk /\ master' = master
  BY DEF Refuse, RollbackDone, RollbackFails, Crash
<1>2. DiskOK(disk') /\ MasterOK(master')
  BY <1>1 DEF AInv
<1>3. spent' \in Spent
  BY FaultSpends DEF AInv, Refuse, RollbackDone, RollbackFails, Crash
<1>4. PICK ans \in Answers \ {"reloaded"} : Finish(ans)
  BY DEF Refuse, RollbackDone, RollbackFails, Crash, Answers
<1>5. QED
  BY <1>2, <1>3, <1>4, FinishKeeps

-----------------------------------------------------------------------------
(* The other handlers and nginx.                                           *)

(* The file manager writes a file.                                         *)
LEMMA FilesWriteKeeps ==
  ASSUME AInv, NEW p \in Paths, NEW text \in Texts,
         FilesWrite(p, [text |-> text, maint |-> FALSE])
  PROVE  AInv'
<1>1. [text |-> text, maint |-> FALSE] \in Body
  BY DEF Body
<1>2. [text |-> text, maint |-> FALSE] \in Node /\ [text |-> text, maint |-> FALSE] \notin Confs
  BY <1>1, PathsAssumption DEF Node
<1>3. DiskOK(disk')
  BY <1>2, DiskUpdate DEF AInv, FilesWrite
<1>4. spent' \in Spent
  BY BudgetAssumption DEF AInv, FilesWrite, Spent
<1>5. QED
  BY <1>3, <1>4 DEF FilesWrite, AInv, Answers, Settled, PastReload

(* A reload without the lock.                                              *)
LEMMA ManualReloadKeeps ==
  ASSUME AInv, ManualReload
  PROVE  AInv'
<1>1. DiskOK(disk) /\ MasterOK(master) /\ answer \in Answers /\ Loadable(disk)
        /\ disk' = disk /\ answer' = answer
  BY DEF AInv, ManualReload
<1>2. MasterOK(master') /\ ServesOrWill(master', disk)
  BY <1>1, SignalledWill, StartedServes DEF ManualReload
<1>3. spent' \in Spent
  BY BudgetAssumption DEF AInv, ManualReload, Spent
<1>4. CASE tx = Null
  BY <1>1, <1>2, <1>3, <1>4 DEF ManualReload, AInv, Settled
<1>5. CASE tx # Null
  <2>1. TxOK(tx) /\ tx' = [tx EXCEPT !.alone = FALSE]
    BY <1>5 DEF AInv, ManualReload
  <2>2. tx' \in Tx /\ tx'.pc = tx.pc /\ tx'.i = tx.i /\ tx'.changes = tx.changes
          /\ tx'.backups = tx.backups
    BY <2>1 DEF TxOK, Tx
  <2>3. TxOK(tx')
    BY <2>1, <2>2 DEF TxOK
  <2>4. QED
    BY <1>1, <1>2, <1>3, <2>3 DEF AInv, Settled
<1>6. QED
  BY <1>4, <1>5

(* The master reads the files, replaces its workers, or stops: what it     *)
(* will serve stays the same unless the files did not load.                *)
LEMMA MasterKeeps ==
  ASSUME AInv, MasterReads \/ MasterSwitches \/ MasterStops
  PROVE  AInv'
<1>1. /\ MasterOK(master) /\ master \in Master /\ Served(disk) \in Snapshot
      /\ disk' = disk /\ tx' = tx /\ answer' = answer
  BY ServedType DEF AInv, MasterOK, MasterReads, MasterSwitches, MasterStops
<1>2. spent' \in Spent
  BY FaultSpends DEF AInv, MasterReads, MasterSwitches, MasterStops
<1>3. MasterOK(master')
  <2>1. CASE MasterReads
    BY <1>1, <2>1 DEF MasterReads, MasterOK, Master
  <2>2. CASE MasterSwitches
    <3>1. master.gen + 1 \in Nat /\ master.reading \in Snapshot
      BY <1>1, <2>2 DEF MasterSwitches, Master
    <3>2. master' = [master EXCEPT !.live = master.reading, !.gen = @ + 1, !.reading = Null]
      BY <2>2 DEF MasterSwitches
    <3>3. master' \in Master
      BY <1>1, <3>1, <3>2 DEF Master
    <3>4. master'.up = master.up /\ master'.hup = master.hup /\ master'.reading = Null
      BY <1>1, <3>2 DEF Master
    <3>5. QED
      BY <1>1, <3>3, <3>4 DEF MasterOK
  <2>3. CASE MasterStops
    BY <1>1, <2>3 DEF MasterStops, MasterOK, Master
  <2>4. QED
    BY <2>1, <2>2, <2>3
<1>4. ASSUME Loadable(disk), ServesOrWill(master, disk)
      PROVE  ServesOrWill(master', disk)
  BY <1>1, <1>4, NothingAssumption DEF MasterReads, ServesOrWill, Master, MasterSwitches,
     MasterStops
<1>5. QED
  BY <1>1, <1>2, <1>3, <1>4 DEF AInv, Settled

-----------------------------------------------------------------------------
(* Together.                                                               *)

(* The host runs and serves its files.                                     *)
LEMMA InitAInv == Init => AInv
<1> SUFFICES ASSUME Init
             PROVE  AInv
  OBVIOUS
<1>1. DiskOK(disk)
  BY DEF Init, DiskOK
<1>2. MasterOK(master)
  BY <1>1, ServedType DEF Init, MasterOK, Master
<1>3. spent \in Spent
  BY BudgetAssumption DEF Init, Spent
<1>4. QED
  BY <1>1, <1>2, <1>3 DEF Init, AInv, Answers, Settled, PastReload

(* Nothing changes.                                                        *)
LEMMA StutterKeeps == AInv /\ UNCHANGED vars => AInv'
BY DEF AInv, vars, Settled, PastReload

(* Every step of a transaction keeps the invariant.                        *)
LEMMA TxStepKeeps ==
  ASSUME AInv, TxStep
  PROVE  AInv'
<1>1. CASE Prepare \/ ApplyOne \/ Unlink \/ Relink
  BY <1>1, PrepareKeeps, ApplyOneKeeps, UnlinkKeeps, RelinkKeeps
<1>2. CASE ApplyFails \/ ApplyDone \/ TestPasses \/ TestFails
  BY <1>2, ApplyFailsKeeps, ApplyDoneKeeps, TestKeeps
<1>3. CASE Reload \/ ReloadFails \/ ReloadFindsNoMaster \/ StartSucceeds \/ StartFails
  BY <1>3, ReloadKeeps, ReloadFailsKeeps, ReloadFindsNoMasterKeeps, StartKeeps
<1>4. CASE Ready \/ ReadyTimesOut
  BY <1>4, ReadyKeeps
<1>5. CASE RollbackOne \/ RollbackMisses
  BY <1>5, RollbackOneKeeps, RollbackMissesKeeps
<1>6. CASE Refuse \/ RollbackDone \/ RollbackFails
  BY <1>6, EndKeeps
<1>7. QED
  BY <1>1, <1>2, <1>3, <1>4, <1>5, <1>6 DEF TxStep

(* Every step keeps the invariant.                                         *)
LEMMA NextKeeps == AInv /\ [Next]_vars => AInv'
<1> SUFFICES ASSUME AInv, [Next]_vars
             PROVE  AInv'
  OBVIOUS
<1>1. CASE \E r \in Requests : Accept(r)
  BY <1>1, AcceptKeeps
<1>2. CASE TxStep
  BY <1>2, TxStepKeeps
<1>3. CASE Crash
  BY <1>3, EndKeeps
<1>4. CASE \E p \in Paths, text \in Texts : FilesWrite(p, [text |-> text, maint |-> FALSE])
  BY <1>4, FilesWriteKeeps
<1>5. CASE ManualReload
  BY <1>5, ManualReloadKeeps
<1>6. CASE MasterReads \/ MasterSwitches \/ MasterStops
  BY <1>6, MasterKeeps
<1>7. CASE UNCHANGED vars
  BY <1>7, StutterKeeps
<1>8. QED
  BY <1>1, <1>2, <1>3, <1>4, <1>5, <1>6, <1>7 DEF Next

(* The inductive invariant holds in every reachable state, whatever the    *)
(* panel sends and whatever fails.                                         *)
THEOREM AgentInvariant == Spec => []AInv
<1>1. Init => AInv
  BY InitAInv
<1>2. AInv /\ [Next]_vars => AInv'
  BY NextKeeps
<1>3. QED
  BY <1>1, <1>2, PTL DEF Spec

(* Files, nginx and the transaction keep their types: no link is followed  *)
(* twice, and neither the changes nor the backups are overrun.             *)
THEOREM AgentTypeCorrect == Spec => []TypeOK
<1>1. QED
  BY AInvTyped, AgentInvariant, PTL

(* After an ok with a reload, nginx serves what is on the disk as soon as  *)
(* it is at rest, whatever reloads were merged with or overtook it.        *)
THEOREM RestCorrect == Spec => []RestingNginxServesDisk
<1>1. AInv => RestingNginxServesDisk
  BY DEF AInv, Settled, PastReload, ServesOrWill, RestingNginxServesDisk, AtRest
<1>2. QED
  BY <1>1, AgentInvariant, PTL

-----------------------------------------------------------------------------
(* What a transaction remembers of the disk it found, and how far it is.   *)

LinksOK(d) == \A l \in Links : d[l] \in Confs => d[l] \in Available

(* The changes and backups are those of the disk the transaction found.    *)
Prepared(t) ==
  /\ Acceptable(t.before, t.req)
  /\ DOMAIN t.changes = DOMAIN t.req.changes
  /\ \A j \in DOMAIN t.changes :
       /\ t.changes[j] = Resolved(t.before, t.req.changes[j])
       /\ t.backups[j] = Backup(t.before, t.changes[j])

Touches(t, j, p) == t.changes[j].type # "check" /\ t.changes[j].path = p

Final(ch) == IF ch.type = "write" THEN ch.body ELSE IF ch.type = "remove" THEN Absent ELSE ch.to

(* A path holds what it held, or something a change of it has put there.   *)
Bounded(t, d) ==
  \A p \in Paths :
    \/ d[p] = t.before[p]
    \/ \E j \in DOMAIN t.changes :
         Touches(t, j, p) /\ d[p] \in {t.backups[j], Absent, Final(t.changes[j])}

(* On the way forward the last change of a path is in effect, ...          *)
Begun(t, k) == k < t.i \/ (t.pc = "relink" /\ k = t.i)

Forward(t, d) ==
  \A j \in DOMAIN t.changes :
    /\ j < t.i /\ t.changes[j].type # "check"
    /\ \A k \in DOMAIN t.changes : j < k /\ Begun(t, k) => ~Touches(t, k, t.changes[j].path)
    => d[t.changes[j].path] = Final(t.changes[j])

(* ... on the way back a path that was restored holds what one read there. *)
Backward(t, d) ==
  ~t.missed => \A p \in Paths :
    (\E k \in DOMAIN t.changes : k > t.i /\ Touches(t, k, p)) => d[p] = Content(t.before, p)

HistOK(t, d) ==
  /\ DiskOK(t.before) /\ LinksOK(t.before)
  /\ t.pc = "prepare" => d = t.before
  /\ t.pc # "prepare" => Prepared(t)
  /\ Bounded(t, d)
  /\ t.pc \in {"test", "reload", "start", "ready"} => t.i > Len(t.changes)
  /\ t.pc \notin {"prepare", "rollback"} => Forward(t, d)
  /\ t.pc = "rollback" => Backward(t, d)

HInv == LinksOK(disk) /\ (tx # Null => HistOK(tx, disk))

LEMMA ChangeAt ==
  ASSUME NEW t, TxOK(t), NEW j \in DOMAIN t.changes
  PROVE  t.changes[j] \in Change /\ t.changes[j].path \in Paths /\ j \in Nat
<1>1. t.changes \in Seq(Change)
  BY DEF TxOK, Tx
<1>2. t.changes[j] \in Change /\ j \in Nat
  BY <1>1
<1>3. QED
  BY <1>2 DEF Change

(* Transactions that differ in their place alone.                          *)
Alike(t, u) ==
  u.req = t.req /\ u.changes = t.changes /\ u.backups = t.backups /\ u.before = t.before

(* Moving on, or to the rollback, changes nothing that was done.           *)
LEMMA HistGoesOn ==
  ASSUME NEW t, NEW u, NEW d, HistOK(t, d), Alike(t, u), u.i = t.i, u.missed = t.missed,
         \/ u.pc = t.pc
         \/ /\ t.pc \in {"apply", "test", "reload", "start"} /\ t.i > Len(t.changes)
            /\ u.pc \in {"test", "reload", "start", "ready"}
  PROVE  HistOK(u, d)
<1>1. Bounded(u, d) /\ (Prepared(t) => Prepared(u)) /\ (Backward(t, d) => Backward(u, d))
  BY DEF HistOK, Alike, Bounded, Prepared, Backward, Touches
<1>2. u.pc = t.pc \/ (t.pc # "relink" /\ u.pc # "relink")
  OBVIOUS
<1>3. Forward(t, d) => Forward(u, d)
  BY <1>2 DEF Alike, Forward, Touches, Begun
<1>4. QED
  BY <1>1, <1>3 DEF HistOK, Alike

LEMMA HistRollsBack ==
  ASSUME NEW t, NEW u, NEW d, TxOK(t), HistOK(t, d), t.pc # "prepare", Alike(t, u),
         u.pc = "rollback", u.i = Len(t.changes)
  PROVE  HistOK(u, d)
<1>1. Bounded(u, d) /\ Prepared(u)
  BY DEF HistOK, Alike, Bounded, Prepared, Touches
<1>2. \A k \in DOMAIN t.changes : k <= Len(t.changes) /\ k \in Nat /\ Len(t.changes) \in Nat
  BY DEF TxOK, Tx
<1>3. Backward(u, d)
  BY <1>2 DEF Backward, Alike
<1>4. QED
  BY <1>1, <1>3 DEF HistOK, Alike

(* Carrying out a change.                                                  *)
LEMMA HistApplies ==
  ASSUME NEW t, NEW u, NEW d, NEW e, TxOK(t), HistOK(t, d), Alike(t, u), DiskOK(d),
         t.pc \in {"apply", "relink"}, u.pc = "apply", t.i \in DOMAIN t.changes, u.i = t.i + 1,
         t.changes[t.i].path \in Paths,
         e = IF t.changes[t.i].type = "check" THEN d
             ELSE [d EXCEPT ![t.changes[t.i].path] = Final(t.changes[t.i])],
         t.pc = "relink" => t.changes[t.i].type # "check"
  PROVE  HistOK(u, e)
<1>1. \A k \in DOMAIN t.changes : k \in Nat
  BY ChangeAt
<1>2. \A p \in Paths : e[p] = IF Touches(t, t.i, p) THEN Final(t.changes[t.i]) ELSE d[p]
  BY DEF Touches, DiskOK
<1>3. Bounded(u, e)
  BY <1>2 DEF HistOK, Alike, Bounded, Touches
<1>4. Prepared(u)
  BY DEF HistOK, Alike, Prepared
<1>5. Forward(u, e)
  <2> SUFFICES ASSUME NEW j \in DOMAIN t.changes, j < t.i + 1, t.changes[j].type # "check",
                      \A k \in DOMAIN t.changes : j < k /\ k < t.i + 1 =>
                         ~Touches(t, k, t.changes[j].path)
               PROVE  e[t.changes[j].path] = Final(t.changes[j])
    BY DEF Forward, Begun, Touches, Alike
  <2>1. t.changes[j].path \in Paths
    BY ChangeAt
  <2>2. CASE j = t.i
    BY <1>2, <2>1, <2>2 DEF Touches
  <2>3. CASE j # t.i
    <3>1. j < t.i
      BY <1>1, <2>3
    <3>2. ~Touches(t, t.i, t.changes[j].path)
      BY <1>1, <3>1
    <3>3. \A k \in DOMAIN t.changes : j < k /\ Begun(t, k) => ~Touches(t, k, t.changes[j].path)
      BY <1>1 DEF Begun
    <3>4. d[t.changes[j].path] = Final(t.changes[j])
      BY <3>1, <3>3 DEF HistOK, Forward
    <3>5. QED
      BY <1>2, <2>1, <3>2, <3>4
  <2>4. QED
    BY <2>2, <2>3
<1>6. QED
  BY <1>3, <1>4, <1>5 DEF HistOK, Alike

LEMMA HistUnlinks ==
  ASSUME NEW t, NEW u, NEW d, NEW e, TxOK(t), HistOK(t, d), Alike(t, u), DiskOK(d),
         t.pc = "apply", u.pc = "relink", t.i \in DOMAIN t.changes, u.i = t.i,
         t.changes[t.i].path \in Paths, t.changes[t.i].type = "symlink",
         e = [d EXCEPT ![t.changes[t.i].path] = Absent]
  PROVE  HistOK(u, e)
<1>1. \A k \in DOMAIN t.changes : k \in Nat
  BY ChangeAt
<1>2. \A p \in Paths : e[p] = IF Touches(t, t.i, p) THEN Absent ELSE d[p]
  BY DEF Touches, DiskOK
<1>3. Bounded(u, e)
  BY <1>2 DEF HistOK, Alike, Bounded, Touches
<1>4. Prepared(u)
  BY DEF HistOK, Alike, Prepared
<1>5. Forward(u, e)
  BY ChangeAt, <1>1, <1>2 DEF Forward, Begun, Touches, Alike, HistOK
<1>6. QED
  BY <1>3, <1>4, <1>5 DEF HistOK, Alike

(* Restoring a backup, or failing to remove what was not there before.     *)
LEMMA HistRestores ==
  ASSUME NEW t, NEW u, NEW d, NEW e, TxOK(t), HistOK(t, d), Alike(t, u), DiskOK(d),
         t.pc = "rollback", u.pc = "rollback", t.i > 0, u.i = t.i - 1,
         \/ e = Restored(d, t.changes[t.i], t.backups[t.i]) /\ u.missed = t.missed
         \/ e = d /\ u.missed = TRUE
  PROVE  HistOK(u, e)
<1>1. t.i \in DOMAIN t.changes /\ \A k \in DOMAIN t.changes : k \in Nat
  BY DEF TxOK, Tx
<1>2. t.changes[t.i] \in Change /\ t.changes[t.i].path \in Paths
  BY <1>1, ChangeAt
<1>3. Prepared(t) /\ Prepared(u) /\ t.backups[t.i] = Backup(t.before, t.changes[t.i])
  BY <1>1 DEF HistOK, Alike, Prepared
<1>4. CASE e = d /\ u.missed = TRUE
  BY <1>4, <1>3 DEF HistOK, Alike, Bounded, Touches, Backward
<1>5. CASE e = Restored(d, t.changes[t.i], t.backups[t.i]) /\ u.missed = t.missed
  <2>1. t.backups[t.i] = Null <=> t.changes[t.i].type = "check"
    <3>1. Content(t.before, t.changes[t.i].path) \in Body \cup {Absent}
      BY <1>2, ContentType DEF HistOK
    <3>2. QED
      BY <1>3, <3>1, PathsAssumption DEF Backup, Node
  <2>2. \A p \in Paths : e[p] = IF Touches(t, t.i, p) THEN t.backups[t.i] ELSE d[p]
    BY <1>5, <2>1, <1>2 DEF Touches, DiskOK, Restored
  <2>3. \A p \in Paths : Touches(t, t.i, p) => t.backups[t.i] = Content(t.before, p)
    BY <1>3 DEF Backup, Touches
  <2>4. Bounded(u, e)
    BY <1>1, <2>2 DEF HistOK, Alike, Bounded, Touches
  <2>5. Backward(u, e)
    <3> SUFFICES ASSUME ~t.missed, NEW p \in Paths, NEW k \in DOMAIN t.changes, k > t.i - 1,
                        Touches(t, k, p)
                 PROVE  e[p] = Content(t.before, p)
      BY <1>5 DEF Backward, Alike, Touches
    <3>1. CASE Touches(t, t.i, p)
      BY <2>2, <2>3, <3>1
    <3>2. CASE ~Touches(t, t.i, p)
      BY <1>1, <3>2, <2>2 DEF HistOK, Backward
    <3>3. QED
      BY <3>1, <3>2
  <2>6. QED
    BY <1>3, <2>4, <2>5 DEF HistOK, Alike
<1>6. QED
  BY <1>4, <1>5

-----------------------------------------------------------------------------
(* The history of the steps.                                               *)

(* A link that is put on the disk leads to a file of the sites.            *)
LEMMA LinksUpdate ==
  ASSUME NEW d, DiskOK(d), LinksOK(d), NEW p \in Paths, NEW n, n \notin Confs \/ n \in Available
  PROVE  LinksOK([d EXCEPT ![p] = n])
BY DEF LinksOK, DiskOK, Paths

(* What the request asks of a change is what the change does.              *)
LEMMA SymlinkLeads ==
  ASSUME NEW t, TxOK(t), Prepared(t), NEW j \in DOMAIN t.changes, t.changes[j].type = "symlink"
  PROVE  t.changes[j].to \in Available
<1>1. t.req \in Requests /\ j \in DOMAIN t.req.changes
  BY DEF TxOK, Tx, Prepared
<1>2. PICK ch : ch = t.req.changes[j]
  OBVIOUS
<1>3. (ch.type = "symlink" <=> ch.to # Null) /\ (ch.to # Null => ch.to \in Available)
  BY <1>1, <1>2, RequestsAssumption
<1>4. ch \in Change
  BY <1>1, RequestsAssumption, <1>2 DEF Request
<1>5. t.changes[j].type = ch.type /\ t.changes[j].to = ch.to
  BY <1>2, <1>4 DEF Prepared, Resolved, Change
<1>6. QED
  BY <1>3, <1>5

LEMMA AcceptHist ==
  ASSUME AInv, HInv, NEW r \in Requests, Accept(r)
  PROVE  HInv'
BY DEF Accept, AInv, HInv, Bounded, HistOK

LEMMA PrepareHist ==
  ASSUME AInv, HInv, Prepare
  PROVE  HInv'
<1>1. tx # Null /\ TxOK(tx) /\ tx.pc = "prepare" /\ HistOK(tx, disk) /\ disk' = disk /\ LinksOK(disk)
  BY DEF AInv, HInv, Prepare, At
<1>2. PICK changes : changes = [i \in DOMAIN tx.req.changes |-> Resolved(disk, tx.req.changes[i])]
  OBVIOUS
<1>3. PICK backups : backups = [i \in DOMAIN changes |-> Backup(disk, changes[i])]
  OBVIOUS
<1>4. tx' = [tx EXCEPT !.pc = "apply", !.changes = changes, !.backups = backups]
  BY <1>2, <1>3 DEF Prepare
<1>5. /\ tx'.pc = "apply" /\ tx'.changes = changes /\ tx'.backups = backups
      /\ tx'.before = tx.before /\ tx'.req = tx.req /\ tx'.i = 1
  BY <1>1, <1>4 DEF TxOK, Tx
<1>6. disk = tx.before /\ DiskOK(tx.before) /\ LinksOK(tx.before) /\ Acceptable(tx.before, tx.req)
  BY <1>1 DEF HistOK, Prepare
<1>7. Prepared(tx')
  BY <1>2, <1>3, <1>5, <1>6 DEF Prepared
<1>8. Bounded(tx', disk')
  BY <1>1, <1>5, <1>6 DEF Bounded
<1>9. Forward(tx', disk')
  <2>1. \A j \in DOMAIN changes : j \in Nat /\ ~(j < 1)
    BY <1>1, RequestsAssumption, <1>2 DEF TxOK, Tx, Request
  <2>2. QED
    BY <1>5, <2>1 DEF Forward
<1>10. HistOK(tx', disk')
  BY <1>5, <1>6, <1>7, <1>8, <1>9 DEF HistOK
<1>11. QED
  BY <1>1, <1>10 DEF HInv

LEMMA ApplyOneHist ==
  ASSUME AInv, HInv, ApplyOne
  PROVE  HInv'
<1>1. PICK ch \in Change : ch = tx.changes[tx.i]
  BY InTurnFacts DEF ApplyOne
<1>2. /\ tx # Null /\ TxOK(tx) /\ DiskOK(disk) /\ tx.pc = "apply" /\ tx.i \in DOMAIN tx.changes
      /\ WellFormed(ch) /\ ch.path \in Paths /\ ch.type # "symlink" /\ HistOK(tx, disk) /\ LinksOK(disk)
  BY <1>1, InTurnFacts DEF ApplyOne, Change, HInv
<1>3. ch.type \in {"write", "remove", "check"}
  BY <1>2 DEF Change
<1>4. disk' = IF ch.type = "check" THEN disk ELSE [disk EXCEPT ![ch.path] = Final(ch)]
  BY <1>1, <1>3 DEF ApplyOne, Applied, Final
<1>5. tx'.pc = "apply" /\ tx'.i = tx.i + 1 /\ Alike(tx, tx')
  BY <1>2 DEF ApplyOne, TxOK, Tx, Alike
<1>6. HistOK(tx', disk')
  BY <1>1, <1>2, <1>4, <1>5, HistApplies
<1>7. ch.type # "check" => Final(ch) \notin Confs
  BY <1>2, <1>3, PathsAssumption DEF Final, WellFormed
<1>8. LinksOK(disk')
  BY <1>2, <1>4, <1>7, LinksUpdate
<1>9. QED
  BY <1>6, <1>8 DEF HInv

LEMMA UnlinkHist ==
  ASSUME AInv, HInv, Unlink
  PROVE  HInv'
<1>1. PICK ch \in Change : ch = tx.changes[tx.i]
  BY InTurnFacts DEF Unlink
<1>2. /\ tx # Null /\ TxOK(tx) /\ DiskOK(disk) /\ tx.pc = "apply" /\ tx.i \in DOMAIN tx.changes
      /\ ch.path \in Paths /\ ch.type = "symlink" /\ HistOK(tx, disk) /\ LinksOK(disk)
  BY <1>1, InTurnFacts DEF Unlink, Change, HInv
<1>3. disk' = [disk EXCEPT ![ch.path] = Absent]
  BY <1>1 DEF Unlink
<1>4. tx'.pc = "relink" /\ tx'.i = tx.i /\ Alike(tx, tx')
  BY <1>2 DEF Unlink, Goto, TxOK, Tx, Alike
<1>5. HistOK(tx', disk')
  BY <1>1, <1>2, <1>3, <1>4, HistUnlinks
<1>6. LinksOK(disk')
  BY <1>2, <1>3, LinksUpdate, PathsAssumption
<1>7. QED
  BY <1>5, <1>6 DEF HInv

LEMMA RelinkHist ==
  ASSUME AInv, HInv, Relink
  PROVE  HInv'
<1>1. /\ tx # Null /\ TxOK(tx) /\ DiskOK(disk) /\ tx.pc = "relink" /\ tx.i \in DOMAIN tx.changes
      /\ tx.changes[tx.i].type = "symlink" /\ HistOK(tx, disk) /\ LinksOK(disk)
  BY DEF AInv, HInv, Relink, At, TxOK
<1>2. PICK ch \in Change : ch = tx.changes[tx.i]
  BY <1>1, ChangeAt
<1>3. ch.path \in Paths /\ Final(ch) = ch.to
  BY <1>1, <1>2 DEF Change, Final
<1>4. disk' = [disk EXCEPT ![ch.path] = Final(ch)]
  BY <1>2, <1>3 DEF Relink
<1>5. tx'.pc = "apply" /\ tx'.i = tx.i + 1 /\ Alike(tx, tx')
  BY <1>1 DEF Relink, TxOK, Tx, Alike
<1>6. HistOK(tx', disk')
  BY <1>1, <1>2, <1>3, <1>4, <1>5, HistApplies
<1>7. ch.to \in Available
  BY <1>1, <1>2, SymlinkLeads DEF HistOK
<1>8. LinksOK(disk')
  BY <1>1, <1>3, <1>4, <1>7, LinksUpdate
<1>9. QED
  BY <1>6, <1>8 DEF HInv

(* Every way to the rollback.                                              *)
LEMMA RollBackHist ==
  ASSUME AInv, HInv, tx # Null, tx.pc # "prepare", RollBack, disk' = disk
  PROVE  HInv'
<1>1. TxOK(tx) /\ HistOK(tx, disk) /\ LinksOK(disk)
  BY DEF AInv, HInv
<1>2. tx'.pc = "rollback" /\ tx'.i = Len(tx.changes) /\ Alike(tx, tx')
  BY <1>1 DEF RollBack, TxOK, Tx, Alike
<1>3. HistOK(tx', disk')
  BY <1>1, <1>2, HistRollsBack
<1>4. QED
  BY <1>1, <1>3 DEF HInv

(* Going on without a change of the disk, or ending.                       *)
LEMMA GotoHist ==
  ASSUME AInv, HInv, tx # Null, NEW pc \in {"test", "reload", "start", "ready"},
         tx.pc \in {"apply", "test", "reload", "start"}, tx.i > Len(tx.changes), Goto(pc), disk' = disk
  PROVE  HInv'
<1>1. TxOK(tx) /\ HistOK(tx, disk) /\ LinksOK(disk)
  BY DEF AInv, HInv
<1>2. tx'.pc = pc /\ tx'.i = tx.i /\ tx'.missed = tx.missed /\ Alike(tx, tx')
  BY <1>1 DEF Goto, TxOK, Tx, Alike
<1>3. HistOK(tx', disk')
  BY <1>1, <1>2, HistGoesOn
<1>4. QED
  BY <1>1, <1>3 DEF HInv

LEMMA EndHist ==
  ASSUME HInv, tx' = Null, disk' = disk
  PROVE  HInv'
BY DEF HInv

LEMMA ReloadedHist ==
  ASSUME AInv, HInv, tx # Null, tx.pc \in {"apply", "test", "reload", "start"},
         tx.i > Len(tx.changes), disk' = disk, Tested \/ Reloaded
  PROVE  HInv'
BY EndHist, GotoHist DEF Answered, Finish, Tested, Reloaded

(* The steps of a transaction that write nothing.                          *)
LEMMA QuietHist ==
  ASSUME AInv, HInv,
         \/ Refuse \/ ApplyFails \/ ApplyDone \/ TestPasses \/ TestFails
         \/ Reload \/ ReloadFails \/ ReloadFindsNoMaster \/ StartSucceeds \/ StartFails
         \/ Ready \/ ReadyTimesOut \/ RollbackDone \/ RollbackFails \/ Crash
  PROVE  HInv'
<1>1. tx # Null /\ disk' = disk
  BY DEF Refuse, ApplyFails, ApplyDone, TestPasses, TestFails, Reload, ReloadFails,
     ReloadFindsNoMaster, StartSucceeds, StartFails, Ready, ReadyTimesOut, RollbackDone,
     RollbackFails, Crash, At, InTurn
<1>2. TxOK(tx) /\ HistOK(tx, disk)
  BY <1>1 DEF AInv, HInv
<1>3. CASE Refuse \/ Ready \/ ReadyTimesOut \/ RollbackDone \/ RollbackFails \/ Crash
  BY <1>1, <1>3, EndHist DEF Refuse, Ready, ReadyTimesOut, RollbackDone, RollbackFails, Crash,
     Finish, Answered
<1>4. CASE ApplyFails \/ TestFails \/ ReloadFails \/ StartFails
  BY <1>1, <1>4, RollBackHist DEF ApplyFails, InTurn, TestFails, ReloadFails, StartFails, At
<1>5. CASE ApplyDone
  <2>1. tx.pc = "apply" /\ tx.i > Len(tx.changes)
    BY <1>5 DEF ApplyDone, At
  <2>2. Goto("test") \/ Tested
    BY <1>5 DEF ApplyDone
  <2>3. QED
    BY <1>1, <2>1, <2>2, GotoHist, ReloadedHist
<1>6. CASE TestPasses \/ Reload \/ StartSucceeds
  <2>1. tx.pc \in {"test", "reload", "start"} /\ tx.i > Len(tx.changes)
    BY <1>2, <1>6 DEF TestPasses, Reload, StartSucceeds, At, HistOK
  <2>2. Tested \/ Reloaded
    BY <1>6 DEF TestPasses, Reload, StartSucceeds
  <2>3. QED
    BY <1>1, <2>1, <2>2, ReloadedHist
<1>7. CASE ReloadFindsNoMaster
  <2>1. tx.pc = "reload" /\ tx.i > Len(tx.changes)
    BY <1>2, <1>7 DEF ReloadFindsNoMaster, At, HistOK
  <2>2. QED
    BY <1>1, <1>7, <2>1, GotoHist DEF ReloadFindsNoMaster
<1>8. QED
  BY <1>3, <1>4, <1>5, <1>6, <1>7

LEMMA RollbackHist ==
  ASSUME AInv, HInv, RollbackOne \/ RollbackMisses
  PROVE  HInv'
<1>1. /\ tx # Null /\ TxOK(tx) /\ DiskOK(disk) /\ tx.pc = "rollback" /\ tx.i > 0
      /\ HistOK(tx, disk) /\ LinksOK(disk)
  BY DEF AInv, HInv, RollbackOne, RollbackMisses, At
<1>2. tx.i \in Nat /\ tx.missed \in BOOLEAN /\ tx \in Tx
  BY <1>1 DEF TxOK, Tx
<1>3. PICK c : c = tx.changes[tx.i]
  OBVIOUS
<1>4. PICK b : b = tx.backups[tx.i]
  OBVIOUS
<1>5. c.path \in Paths /\ b \in Body \cup {Absent, Null}
  BY <1>1, <1>3, <1>4, RollbackFacts DEF RollbackOne, RollbackMisses, Change, At
<1>6. CASE RollbackOne
  <2>1. disk' = Restored(disk, c, b) /\ tx' = [tx EXCEPT !.i = @ - 1]
    BY <1>3, <1>4, <1>6 DEF RollbackOne
  <2>2. tx'.pc = "rollback" /\ tx'.i = tx.i - 1 /\ tx'.missed = tx.missed /\ Alike(tx, tx')
    BY <1>1, <1>2, <2>1 DEF Tx, Alike
  <2>3. HistOK(tx', disk')
    BY <1>1, <1>3, <1>4, <2>1, <2>2, HistRestores
  <2>4. LinksOK(disk')
    <3>1. b \notin Confs
      BY <1>5, PathsAssumption DEF Node
    <3>2. QED
      BY <1>1, <1>5, <2>1, <3>1, LinksUpdate DEF Restored
  <2>5. QED
    BY <2>3, <2>4 DEF HInv
<1>7. CASE RollbackMisses
  <2>1. disk' = disk /\ tx' = [tx EXCEPT !.i = @ - 1, !.missed = TRUE]
    BY <1>7 DEF RollbackMisses
  <2>2. tx'.pc = "rollback" /\ tx'.i = tx.i - 1 /\ tx'.missed = TRUE /\ Alike(tx, tx')
    BY <1>1, <1>2, <2>1 DEF Tx, Alike
  <2>3. HistOK(tx', disk')
    BY <1>1, <2>1, <2>2, HistRestores
  <2>4. QED
    BY <1>1, <2>1, <2>3 DEF HInv
<1>8. QED
  BY <1>6, <1>7

LEMMA OthersHist ==
  ASSUME AInv, HInv,
         \/ \E p \in Paths, text \in Texts : FilesWrite(p, [text |-> text, maint |-> FALSE])
         \/ ManualReload \/ MasterReads \/ MasterSwitches \/ MasterStops \/ UNCHANGED vars
  PROVE  HInv'
<1>1. CASE \E p \in Paths, text \in Texts : FilesWrite(p, [text |-> text, maint |-> FALSE])
  <2>1. PICK p \in Paths, text \in Texts : FilesWrite(p, [text |-> text, maint |-> FALSE])
    BY <1>1
  <2>2. PICK b : b = [text |-> text, maint |-> FALSE]
    OBVIOUS
  <2>3. b \in Body /\ b \notin Confs
    BY <2>2, PathsAssumption DEF Body
  <2>4. disk' = [disk EXCEPT ![p] = b] /\ tx' = Null
    BY <2>1, <2>2 DEF FilesWrite
  <2>5. LinksOK(disk')
    BY <2>3, <2>4, LinksUpdate DEF AInv, HInv
  <2>6. QED
    BY <2>4, <2>5 DEF HInv
<1>2. CASE ManualReload
  <2>1. disk' = disk /\ tx' = IF tx = Null THEN tx ELSE [tx EXCEPT !.alone = FALSE]
    BY <1>2 DEF ManualReload
  <2>2. CASE tx = Null
    BY <2>1, <2>2 DEF HInv
  <2>3. CASE tx # Null
    BY <2>3, <2>1, HistGoesOn DEF AInv, HInv, TxOK, Tx, Alike
  <2>4. QED
    BY <2>2, <2>3
<1>3. CASE MasterReads \/ MasterSwitches \/ MasterStops \/ UNCHANGED vars
  BY <1>3 DEF MasterReads, MasterSwitches, MasterStops, vars, HInv
<1>4. QED
  BY <1>1, <1>2, <1>3

LEMMA HistNext == AInv /\ HInv /\ [Next]_vars => HInv'
<1> SUFFICES ASSUME AInv, HInv, [Next]_vars
             PROVE  HInv'
  OBVIOUS
<1>1. CASE \E r \in Requests : Accept(r)
  BY <1>1, AcceptHist
<1>2. CASE TxStep \/ Crash
  <2>1. CASE Prepare \/ ApplyOne \/ Unlink \/ Relink
    BY <2>1, PrepareHist, ApplyOneHist, UnlinkHist, RelinkHist
  <2>2. CASE RollbackOne \/ RollbackMisses
    BY <2>2, RollbackHist
  <2>3. CASE ~(Prepare \/ ApplyOne \/ Unlink \/ Relink \/ RollbackOne \/ RollbackMisses)
    BY <1>2, <2>3, QuietHist DEF TxStep
  <2>4. QED
    BY <2>1, <2>2, <2>3
<1>3. CASE ~(\E r \in Requests : Accept(r)) /\ ~(TxStep \/ Crash)
  BY <1>3, OthersHist DEF Next
<1>4. QED
  BY <1>1, <1>2, <1>3

(* What every step keeps of the history: a path that a transaction touches *)
(* holds what it was, what a change has put there or what was restored.    *)
THEOREM HistoryInvariant == Spec => []HInv
<1>1. Init => HInv
  BY PathsAssumption DEF Init, HInv, LinksOK, Paths
<1>2. AInv /\ HInv /\ [Next]_vars => HInv'
  BY HistNext
<1>3. QED
  BY <1>1, <1>2, AgentInvariant, PTL DEF Spec

-----------------------------------------------------------------------------
(* What was asked for is there, or nothing has changed.                    *)

(* What a change of a request asks for survives the resolving of aliases.  *)
LEMMA RequestedChange ==
  ASSUME NEW t, TxOK(t), Prepared(t), DiskOK(t.before), LinksOK(t.before), NEW j \in DOMAIN t.changes
  PROVE  /\ t.req.changes[j] \in Change /\ j \in DOMAIN t.req.changes /\ t.req \in Requests
         /\ t.changes[j].type = t.req.changes[j].type
         /\ t.changes[j].expect = t.req.changes[j].expect
         /\ t.changes[j].transition = t.req.changes[j].transition
         /\ t.changes[j].body = t.req.changes[j].body
         /\ \/ t.changes[j].path = t.req.changes[j].path
            \/ t.req.changes[j].path \in Links /\ t.changes[j].path \in Available
         /\ OfSites(t.changes[j].path) => OfSites(t.req.changes[j].path)
         /\ HashHolds(t.before, t.changes[j]) /\ MaintenanceAllows(t.before, t.changes[j])
<1>1. t.req \in Requests /\ j \in DOMAIN t.req.changes
  BY DEF TxOK, Tx, Prepared
<1>2. PICK old : old = t.req.changes[j]
  OBVIOUS
<1>3. PICK ch : ch = t.changes[j]
  OBVIOUS
<1>4. old \in Change
  BY <1>1, RequestsAssumption, <1>2 DEF Request
<1>5. ch = Resolved(t.before, old)
  BY <1>2, <1>3 DEF Prepared
<1>6. /\ ch.type = old.type /\ ch.expect = old.expect /\ ch.transition = old.transition
      /\ ch.body = old.body
      /\ ch.path = old.path \/ (ch.path = t.before[old.path] /\ t.before[old.path] \in Confs)
  BY <1>4, <1>5 DEF Resolved, Resolve, Change
<1>7. old.path \in Paths
  BY <1>4 DEF Change
<1>8. t.before[old.path] \in Confs => old.path \in Links /\ t.before[old.path] \in Available
  BY <1>7 DEF DiskOK, LinksOK, Paths
<1>9. HashHolds(t.before, ch) /\ MaintenanceAllows(t.before, ch)
  BY <1>1, <1>2, <1>5 DEF Prepared, Acceptable
<1>10. QED
  BY <1>1, <1>2, <1>3, <1>4, <1>6, <1>8, <1>9 DEF OfSites

(* What a change expects of a path is what no other change touches.        *)
LEMMA NoOtherTouches ==
  ASSUME NEW t, TxOK(t), Prepared(t), DiskOK(t.before), LinksOK(t.before),
         NEW j \in DOMAIN t.changes, NEW k \in DOMAIN t.changes, j # k,
         t.changes[j].expect # Null, t.changes[k].type # "check"
  PROVE  /\ t.changes[k].path # t.changes[j].path
         /\ ~(OfSites(t.changes[k].path) /\ OfSites(t.changes[j].path))
BY RequestedChange, RequestsAssumption DEF OfSites

(* The steps between.                                                      *)
LEMMA TxStays ==
  ASSUME AInv,
         \/ Prepare \/ ApplyOne \/ Unlink \/ Relink \/ ApplyFails \/ TestFails \/ ReloadFails
         \/ ReloadFindsNoMaster \/ StartFails \/ RollbackOne \/ RollbackMisses
  PROVE  tx' # Null
<1>1. tx # Null /\ TxOK(tx)
  BY DEF AInv, Prepare, ApplyOne, Unlink, Relink, ApplyFails, TestFails, ReloadFails,
     ReloadFindsNoMaster, StartFails, RollbackOne, RollbackMisses, At, InTurn
<1>2. tx \in Tx /\ tx.i \in Nat /\ Len(tx.changes) \in Nat
  BY <1>1 DEF TxOK, Tx
<1>3. CASE Prepare
  BY <1>3, PrepareKeeps
<1>4. CASE ApplyOne \/ Relink
  <2>1. tx.i + 1 \in Nat
    BY <1>2
  <2>2. tx' = [tx EXCEPT !.i = tx.i + 1] \/ tx' = [tx EXCEPT !.pc = "apply", !.i = tx.i + 1]
    BY <1>4 DEF ApplyOne, Relink
  <2>3. tx' \in Tx
    BY <1>2, <2>1, <2>2 DEF Tx
  <2>4. QED
    BY <2>3, NothingAssumption
<1>5. CASE Unlink \/ ReloadFindsNoMaster
  BY <1>2, <1>5, NothingAssumption DEF Unlink, ReloadFindsNoMaster, Goto, Tx
<1>6. CASE ApplyFails \/ TestFails \/ ReloadFails \/ StartFails
  <2>1. RollBack
    BY <1>6 DEF ApplyFails, TestFails, ReloadFails, StartFails
  <2>2. tx' \in Tx
    BY <1>2, <2>1 DEF RollBack, Tx
  <2>3. QED
    BY <2>2, NothingAssumption
<1>7. CASE RollbackOne \/ RollbackMisses
  <2>1. tx.i - 1 \in Nat
    BY <1>2, <1>7 DEF RollbackOne, RollbackMisses
  <2>2. tx' \in Tx
    BY <1>2, <1>7, <2>1 DEF RollbackOne, RollbackMisses, Tx
  <2>3. QED
    BY <2>2, NothingAssumption
<1>8. QED
  BY <1>3, <1>4, <1>5, <1>6, <1>7

(* An answer that is a kind of ok comes after the last change.             *)
LEMMA OkIsLast ==
  ASSUME AInv, HInv, TxStep, tx # Null, tx' = Null, answer' \in {"stored", "reloaded", "unconfirmed"}
  PROVE  disk' = disk /\ tx.i > Len(tx.changes) /\ tx.pc \in {"apply", "test", "reload", "start", "ready"}
<1>1. CASE ApplyDone
  BY <1>1 DEF ApplyDone, At
<1>2. CASE TestPasses \/ Reload \/ StartSucceeds \/ Ready \/ ReadyTimesOut
  BY <1>2 DEF TestPasses, Reload, StartSucceeds, Ready, ReadyTimesOut, At, HInv, HistOK
<1>3. CASE Refuse \/ RollbackDone \/ RollbackFails
  BY <1>3 DEF Refuse, RollbackDone, RollbackFails, Finish
<1>4. CASE Prepare \/ ApplyOne \/ Unlink \/ Relink \/ ApplyFails \/ TestFails \/ ReloadFails
           \/ ReloadFindsNoMaster \/ StartFails \/ RollbackOne \/ RollbackMisses
  BY <1>4, TxStays
<1>5. QED
  BY <1>1, <1>2, <1>3, <1>4 DEF TxStep

(* A change that is the last of its path is in effect.                     *)
LEMMA LastIsInEffect ==
  ASSUME NEW t, NEW d, TxOK(t), HistOK(t, d), t.pc \in {"apply", "test", "reload", "start", "ready"},
         t.i > Len(t.changes), NEW j \in DOMAIN t.changes,
         \A k \in DOMAIN t.changes : k > j => t.changes[k].path # t.changes[j].path
  PROVE  InEffect(d, t.changes[j])
<1>1. PICK ch \in Change : ch = t.changes[j]
  BY ChangeAt
<1>2. Prepared(t) /\ Forward(t, d) /\ Bounded(t, d) /\ DiskOK(t.before) /\ LinksOK(t.before)
  BY DEF HistOK
<1>3. j < t.i /\ ch.path \in Paths /\ WellFormed(ch)
  BY <1>1 DEF TxOK, Tx, Change
<1>4. CASE ch.type # "check"
  <2>1. d[ch.path] = Final(ch)
    BY <1>1, <1>2, <1>3, <1>4 DEF Forward, Touches
  <2>2. QED
    BY <1>1, <1>4, <2>1 DEF InEffect, Final, Change
<1>5. CASE ch.type = "check"
  <2>1. ch.expect # Null /\ t.before[ch.path] = ch.expect
    BY <1>1, <1>2, <1>5, RequestedChange DEF HashHolds
  <2>2. \A k \in DOMAIN t.changes : ~Touches(t, k, ch.path)
    BY <1>1, <1>2, <1>5, <2>1, NoOtherTouches DEF Touches
  <2>3. d[ch.path] = t.before[ch.path]
    BY <1>2, <1>3, <2>2 DEF Bounded
  <2>4. QED
    BY <1>1, <1>5, <2>1, <2>3 DEF InEffect
<1>6. QED
  BY <1>4, <1>5

(* A rollback to the end leaves everything as one would have read it.      *)
LEMMA RestoredReads ==
  ASSUME NEW t, NEW d, TxOK(t), HistOK(t, d), t.pc = "rollback", t.i = 0, ~t.missed
  PROVE  Contents(d) = Contents(t.before)
<1> SUFFICES ASSUME NEW p \in Paths
             PROVE  Content(d, p) = Content(t.before, p)
  BY DEF Contents
<1>1. \A q \in Paths : d[q] = t.before[q] \/ d[q] = Content(t.before, q)
  <2> SUFFICES ASSUME NEW q \in Paths, d[q] # t.before[q]
               PROVE  d[q] = Content(t.before, q)
    OBVIOUS
  <2>1. PICK j \in DOMAIN t.changes : Touches(t, j, q)
    BY DEF HistOK, Bounded
  <2>2. j > t.i
    BY DEF TxOK, Tx
  <2>3. QED
    BY <2>1, <2>2 DEF HistOK, Backward
<1>2. /\ DiskOK(t.before) /\ Content(t.before, p) \in Body \cup {Absent}
      /\ Content(t.before, p) \notin Confs
  BY ContentType, PathsAssumption DEF HistOK
<1>3. CASE d[p] = Content(t.before, p)
  BY <1>2, <1>3 DEF Content, Resolve
<1>4. CASE d[p] = t.before[p]
  <2>1. CASE d[p] \in Confs
    <3>1. PICK c \in Confs : c = d[p]
      BY <2>1
    <3>2. t.before[c] \notin Confs /\ c \in Paths
      BY <1>2 DEF DiskOK, Paths
    <3>3. Content(t.before, c) = t.before[c]
      BY <3>2 DEF Content, Resolve
    <3>4. d[c] = t.before[c]
      BY <1>1, <3>2, <3>3
    <3>5. QED
      BY <1>4, <3>1, <3>4 DEF Content, Resolve
  <2>2. CASE d[p] \notin Confs
    BY <1>4, <2>2 DEF Content, Resolve
  <2>3. QED
    BY <2>1, <2>2
<1>5. QED
  BY <1>1, <1>3, <1>4

(* A transaction is all or nothing for whoever reads the files, whatever   *)
(* the panel asks for and however the test, the reload or a change fails.  *)
THEOREM TransactionsAreAtomic == Spec => AllOrNothing
<1>1. ASSUME AInv, HInv, [Next]_vars, tx # Null, tx' = Null
      PROVE  /\ answer' \in {"stored", "reloaded", "unconfirmed"} =>
                  \A i \in DOMAIN tx.changes : Last(i) => InEffect(disk', tx.changes[i])
             /\ answer' \in {"refused", "rolledBack"} => Contents(disk') = Contents(tx.before)
  <2>1. TxOK(tx) /\ HistOK(tx, disk)
    BY <1>1 DEF AInv, HInv
  <2>2. TxStep \/ Crash
    <3>1. ManualReload => tx' # Null
      BY <1>1, <2>1, NothingAssumption DEF ManualReload, TxOK, Tx
    <3>2. QED
      BY <1>1, <3>1 DEF Next, Accept, FilesWrite, MasterReads, MasterSwitches, MasterStops, vars
  <2>3. CASE Crash
    BY <2>3 DEF Crash, Finish
  <2>4. CASE TxStep
    <3>1. ASSUME answer' \in {"stored", "reloaded", "unconfirmed"},
                 NEW i \in DOMAIN tx.changes, Last(i)
          PROVE  InEffect(disk', tx.changes[i])
      <4>1. disk' = disk /\ tx.i > Len(tx.changes) /\ tx.pc \in {"apply", "test", "reload", "start", "ready"}
        BY <1>1, <2>4, <3>1, OkIsLast
      <4>2. InEffect(disk, tx.changes[i])
        BY <2>1, <3>1, <4>1, LastIsInEffect DEF Last
      <4>3. QED
        BY <4>1, <4>2 DEF InEffect
    <3>2. ASSUME answer' \in {"refused", "rolledBack"}
          PROVE  Contents(disk') = Contents(tx.before)
      <4>1. Refuse \/ RollbackDone
        <5>1. ~(Prepare \/ ApplyOne \/ Unlink \/ Relink \/ ApplyFails \/ TestFails \/ ReloadFails
                \/ ReloadFindsNoMaster \/ StartFails \/ RollbackOne \/ RollbackMisses)
          BY <1>1, TxStays
        <5>2. ~(ApplyDone \/ TestPasses \/ Reload \/ StartSucceeds \/ Ready)
          <6>1. Answered => answer' \in {"stored", "reloaded"}
            BY DEF Answered, Finish
          <6>2. \A pc \in {"test", "reload", "start", "ready"} : Goto(pc) => tx' # Null
            BY <2>1, NothingAssumption DEF Goto, TxOK, Tx
          <6>3. QED
            BY <1>1, <3>2, <6>1, <6>2 DEF ApplyDone, TestPasses, Reload, StartSucceeds, Ready, Tested, Reloaded
        <5>3. ~(ReadyTimesOut \/ RollbackFails)
          BY <3>2 DEF ReadyTimesOut, RollbackFails, Finish
        <5>4. QED
          BY <2>4, <5>1, <5>2, <5>3 DEF TxStep
      <4>2. CASE Refuse
        BY <2>1, <4>2 DEF Refuse, At, HistOK, Contents
      <4>3. CASE RollbackDone
        <5>1. tx.pc = "rollback" /\ tx.i = 0 /\ disk' = disk
          BY <4>3 DEF RollbackDone, At
        <5>2. ~tx.missed
          BY <3>2, <4>3 DEF RollbackDone, Finish
        <5>3. Contents(disk) = Contents(tx.before)
          BY <2>1, <5>1, <5>2, RestoredReads
        <5>4. QED
          BY <5>1, <5>3 DEF Contents
      <4>4. QED
        BY <4>1, <4>2, <4>3
    <3>3. QED
      BY <3>1, <3>2
  <2>5. QED
    BY <2>2, <2>3, <2>4
<1>2. QED
  BY <1>1, AgentInvariant, HistoryInvariant, PTL DEF Spec, AllOrNothing

-----------------------------------------------------------------------------
(* Maintenance.                                                            *)

(* A change that touches a file in maintenance says what it expects, and   *)
(* is the only one to touch it.                                            *)
LEMMA TouchesProtected ==
  ASSUME NEW t, NEW d, TxOK(t), HistOK(t, d), Prepared(t), NEW q \in Paths,
         HasMaintenance(d[q]), d[q] \in Body, NEW k \in DOMAIN t.changes, Touches(t, k, q)
  PROVE  /\ t.changes[k].type = "write" /\ t.changes[k].expect # Null
         /\ t.before[q] = t.changes[k].expect
         /\ t.changes[k].body \in Body
         /\ d[q] = t.before[q] \/ d[q] = t.changes[k].body
         /\ t.backups[k] = t.before[q]
         /\ HasMaintenance(t.before[q]) \/ t.changes[k].body.maint =>
              MaintenanceWrite(t.before[q], t.changes[k])
<1>1. DiskOK(t.before) /\ LinksOK(t.before) /\ Bounded(t, d)
  BY DEF HistOK
<1>2. \A j \in DOMAIN t.changes : Touches(t, j, q) =>
        /\ t.changes[j].type # "check" /\ t.changes[j].path = q
        /\ t.backups[j] = Content(t.before, q)
        /\ WellFormed(t.changes[j]) /\ t.changes[j].type \in {"write", "remove", "symlink"}
        /\ HashHolds(t.before, t.changes[j]) /\ MaintenanceAllows(t.before, t.changes[j])
  BY ChangeAt, <1>1, RequestedChange DEF Touches, Prepared, Backup, TxOK, Change
<1>3. PICK j \in DOMAIN t.changes :
        Touches(t, j, q) /\ t.changes[j].type = "write" /\ t.changes[j].expect # Null
  <2>1. CASE HasMaintenance(Content(t.before, q))
    BY <1>2, <2>1 DEF MaintenanceAllows
  <2>2. CASE ~HasMaintenance(Content(t.before, q))
    <3>1. d[q] # t.before[q]
      BY PathsAssumption, <2>2 DEF Content, Resolve
    <3>2. PICK j \in DOMAIN t.changes :
            Touches(t, j, q) /\ d[q] \in {t.backups[j], Absent, Final(t.changes[j])}
      BY <1>1, <3>1 DEF Bounded
    <3>3. d[q] # t.backups[j] /\ d[q] # Absent
      BY <1>2, <2>2, <3>2 DEF HasMaintenance
    <3>4. t.changes[j].type = "write" /\ d[q] = t.changes[j].body
      <4>1. d[q] = Final(t.changes[j]) /\ d[q] \notin Confs /\ d[q] # Absent
        BY <3>2, <3>3, PathsAssumption
      <4>2. QED
        BY <1>2, <3>2, <4>1 DEF Final, WellFormed
    <3>5. t.changes[j].expect # Null
      BY <1>2, <3>2, <3>4 DEF MaintenanceAllows, HasMaintenance
    <3>6. QED
      BY <3>2, <3>4, <3>5
  <2>3. QED
    BY <2>1, <2>2
<1>4. j = k
  BY <1>1, <1>2, <1>3, NoOtherTouches DEF Touches
<1>5. t.before[q] = t.changes[k].expect /\ t.changes[k].expect \in Body /\ t.changes[k].body \in Body
  <2>1. t.changes[k].expect \in Body \cup {Null} /\ t.changes[k].body \in Body
    BY <1>2, <1>3, <1>4, ChangeAt DEF Change, WellFormed
  <2>2. QED
    BY <1>2, <1>3, <1>4, <2>1 DEF HashHolds
<1>6. Content(t.before, q) = t.before[q]
  BY <1>5, PathsAssumption DEF Content, Resolve
<1>7. d[q] = t.before[q] \/ d[q] = t.changes[k].body
  <2> SUFFICES ASSUME d[q] # t.before[q]
               PROVE  d[q] = t.changes[k].body
    OBVIOUS
  <2>1. PICK i \in DOMAIN t.changes :
          Touches(t, i, q) /\ d[q] \in {t.backups[i], Absent, Final(t.changes[i])}
    BY <1>1 DEF Bounded
  <2>2. i = k
    BY <1>1, <1>3, <1>4, <2>1, NoOtherTouches DEF Touches
  <2>3. QED
    BY <1>2, <1>3, <1>4, <1>6, <2>1, <2>2 DEF Final, HasMaintenance
<1>8. HasMaintenance(t.before[q]) \/ t.changes[k].body.maint =>
        MaintenanceWrite(t.before[q], t.changes[k])
  BY <1>2, <1>3, <1>4, <1>6 DEF MaintenanceAllows
<1>9. QED
  BY <1>2, <1>3, <1>4, <1>5, <1>6, <1>7, <1>8

(* A link to a file in maintenance is touched by nobody, unless the        *)
(* transaction has made it.                                                *)
LEMMA LinkIsSafe ==
  ASSUME NEW t, NEW d, TxOK(t), HistOK(t, d), Prepared(t), DiskOK(d), NEW p \in Paths,
         NEW q \in Confs, d[p] = q, t.before[p] = q, d[q] \in Body, HasMaintenance(d[q]),
         NEW k \in DOMAIN t.changes
  PROVE  ~Touches(t, k, p)
<1> SUFFICES ASSUME Touches(t, k, p)
             PROVE  FALSE
  OBVIOUS
<1>1. DiskOK(t.before) /\ LinksOK(t.before) /\ Bounded(t, d) /\ q \in Paths
  BY DEF HistOK, Paths
<1>2. p \in Links /\ q \in Available /\ p # q
  BY <1>1, PathsAssumption DEF DiskOK, LinksOK, Paths
<1>3. /\ t.changes[k].type # "check" /\ t.changes[k].path = p
      /\ HashHolds(t.before, t.changes[k]) /\ MaintenanceAllows(t.before, t.changes[k])
      /\ t.changes[k].expect \in Body \cup {Null}
  BY <1>1, RequestedChange, ChangeAt DEF Touches, Change
<1>4. Content(t.before, p) = t.before[q]
  BY DEF Content, Resolve
<1>5. ~HasMaintenance(t.before[q])
  BY <1>3, <1>4, PathsAssumption DEF MaintenanceAllows, HashHolds
<1>6. PICK j \in DOMAIN t.changes : Touches(t, j, q)
  BY <1>1, <1>5 DEF Bounded
<1>7. t.changes[j].expect # Null
  BY <1>1, <1>6, TouchesProtected
<1>8. j # k
  BY <1>2, <1>3, <1>6 DEF Touches
<1>9. QED
  BY <1>1, <1>2, <1>3, <1>6, <1>7, <1>8, NoOtherTouches DEF Touches, OfSites

(* Steps that do not write keep everything.                                *)
LEMMA KeptIsKept ==
  ASSUME NEW b, HasMaintenance(b)
  PROVE  Kept(b, b)
BY DEF Kept

(* What a step of a transaction does to a path.                            *)
LEMMA WritesOneChange ==
  ASSUME AInv, HInv, ApplyOne \/ Unlink \/ Relink \/ RollbackOne
  PROVE  /\ tx # Null /\ TxOK(tx) /\ HistOK(tx, disk) /\ Prepared(tx) /\ tx.i \in DOMAIN tx.changes
         /\ \A p \in Paths :
              /\ ~Touches(tx, tx.i, p) => disk'[p] = disk[p]
              /\ Touches(tx, tx.i, p) /\ tx.changes[tx.i].type = "write" =>
                   disk'[p] \in {tx.changes[tx.i].body, tx.backups[tx.i]}
<1>1. /\ tx # Null /\ TxOK(tx) /\ HistOK(tx, disk) /\ DiskOK(disk)
      /\ tx.pc \in {"apply", "relink", "rollback"}
  BY DEF AInv, HInv, ApplyOne, Unlink, Relink, RollbackOne, InTurn, At
<1>2. Prepared(tx)
  BY <1>1 DEF HistOK
<1>3. tx.i \in DOMAIN tx.changes
  <2>1. CASE ApplyOne \/ Unlink
    BY <2>1, InTurnFacts DEF ApplyOne, Unlink
  <2>2. CASE Relink
    BY <1>1, <2>2 DEF Relink, At, TxOK
  <2>3. CASE RollbackOne
    BY <1>1, <2>3 DEF RollbackOne, At, TxOK, Tx
  <2>4. QED
    BY <2>1, <2>2, <2>3
<1>4. PICK ch \in Change : ch = tx.changes[tx.i]
  BY <1>1, <1>3, ChangeAt
<1>5. PICK b : b = tx.backups[tx.i]
  OBVIOUS
<1>6. ch.path \in Paths
  BY <1>4 DEF Change
<1>7. \/ ch.type = "check" /\ disk' = disk
      \/ ch.type # "check" /\ \E n : disk' = [disk EXCEPT ![ch.path] = n] /\ (ch.type = "write" => n \in {ch.body, b})
  <2>1. CASE ApplyOne
    BY <1>4, <2>1 DEF ApplyOne, Change, Applied
  <2>2. CASE Unlink \/ Relink
    BY <1>1, <1>4, <2>2 DEF Unlink, Relink, At, TxOK
  <2>3. CASE RollbackOne
    <3>1. disk' = Restored(disk, ch, b) /\ b = Backup(tx.before, ch)
      BY <1>2, <1>3, <1>4, <1>5, <2>3 DEF RollbackOne, Prepared
    <3>2. b = Null <=> ch.type = "check"
      <4>1. Content(tx.before, ch.path) \in Body \cup {Absent}
        BY <1>1, <1>6, ContentType DEF HistOK
      <4>2. QED
        BY <3>1, <4>1, PathsAssumption DEF Backup, Node
    <3>3. QED
      BY <3>1, <3>2 DEF Restored
  <2>4. QED
    BY <2>1, <2>2, <2>3
<1>8. QED
  BY <1>1, <1>2, <1>3, <1>4, <1>5, <1>6, <1>7 DEF Touches, DiskOK

MaintenanceKept(p) ==
  \/ Kept(Content(disk, p), Content(disk', p))
  \/ /\ tx # Null
     /\ \E i \in DOMAIN tx.changes :
          tx.changes[i].transition /\ tx.changes[i].path = Resolve(disk, p)
     /\ Content(disk', p) # Absent /\ Content(disk', p).text = Content(disk, p).text

LEMMA WritesKeepMaintenance ==
  ASSUME AInv, HInv, ApplyOne \/ Unlink \/ Relink \/ RollbackOne,
         NEW p \in Paths, HasMaintenance(Content(disk, p)), ~NewLink(p)
  PROVE  MaintenanceKept(p)
<1>1. /\ tx # Null /\ TxOK(tx) /\ HistOK(tx, disk) /\ Prepared(tx) /\ tx.i \in DOMAIN tx.changes
      /\ \A x \in Paths :
           /\ ~Touches(tx, tx.i, x) => disk'[x] = disk[x]
           /\ Touches(tx, tx.i, x) /\ tx.changes[tx.i].type = "write" =>
                disk'[x] \in {tx.changes[tx.i].body, tx.backups[tx.i]}
  BY WritesOneChange
<1>2. DiskOK(disk)
  BY DEF AInv
<1>3. PICK q \in Paths : q = Resolve(disk, p)
  BY <1>2, ContentType
<1>4. Content(disk, p) = disk[q] /\ disk[q] \in Body /\ HasMaintenance(disk[q]) /\ disk[q] \notin Confs
  BY <1>2, <1>3, ContentType, PathsAssumption DEF Content, HasMaintenance
<1>5. disk'[q] \notin Confs => Content(disk', p) = disk'[q]
  <2>1. CASE p = q
    BY <2>1 DEF Content, Resolve
  <2>2. CASE p # q
    <3>1. q \in Confs /\ disk[p] = q /\ tx.before[p] = q
      BY <1>1, <1>3, <2>2 DEF Resolve, NewLink
    <3>2. ~Touches(tx, tx.i, p)
      BY <1>1, <1>2, <1>4, <3>1, LinkIsSafe
    <3>3. disk'[p] = q
      BY <1>1, <3>1, <3>2
    <3>4. QED
      BY <3>1, <3>3 DEF Content, Resolve
  <2>3. QED
    BY <2>1, <2>2
<1>6. CASE ~Touches(tx, tx.i, q)
  <2>1. disk'[q] = disk[q]
    BY <1>1, <1>6
  <2>2. Content(disk', p) = Content(disk, p)
    BY <1>4, <1>5, <2>1
  <2>3. QED
    BY <2>2, KeptIsKept DEF MaintenanceKept
<1>7. CASE Touches(tx, tx.i, q)
  <2>1. PICK ch : ch = tx.changes[tx.i]
    OBVIOUS
  <2>2. PICK old : old = tx.before[q]
    OBVIOUS
  <2>3. /\ ch.type = "write" /\ ch.body \in Body /\ old = ch.expect /\ tx.backups[tx.i] = old
        /\ disk[q] \in {old, ch.body}
        /\ HasMaintenance(old) \/ ch.body.maint => MaintenanceWrite(old, ch)
        /\ old \in Body
    <3>1. ch.expect \in Body \cup {Null}
      BY <1>1, <2>1, ChangeAt DEF Change
    <3>2. QED
      BY <1>1, <1>4, <1>7, <2>1, <2>2, <3>1, TouchesProtected
  <2>4. PICK new \in Body : disk'[q] = new /\ new \in {old, ch.body}
    BY <1>1, <1>7, <2>1, <2>3
  <2>5. Content(disk', p) = new
    BY <1>5, <2>4, PathsAssumption
  <2>6. MaintenanceWrite(old, ch)
    BY <1>4, <2>3 DEF HasMaintenance
  <2>7. PICK now \in Body : now = disk[q]
    BY <1>4
  <2>8. now.maint /\ new # Absent /\ now # Absent
    BY <1>4, <2>7, PathsAssumption DEF HasMaintenance
  <2>9. CASE ch.transition
    <3>1. new.text = now.text
      BY <2>3, <2>4, <2>6, <2>7, <2>9 DEF MaintenanceWrite
    <3>2. ch.path = q
      BY <1>7, <2>1 DEF Touches
    <3>3. QED
      BY <1>1, <1>3, <1>4, <2>1, <2>5, <2>7, <2>8, <2>9, <3>1, <3>2 DEF MaintenanceKept
  <2>10. CASE ~ch.transition
    <3>1. ch.body.maint = old.maint /\ (ch.body.text = old.text \/ <<old.text, ch.body.text>> \in CertPatches)
      BY <2>6, <2>10 DEF MaintenanceWrite
    <3>2. Kept(now, new)
      BY <2>3, <2>4, <2>7, <2>8, <3>1 DEF Kept, HasMaintenance
    <3>3. QED
      BY <1>4, <2>5, <2>7, <3>2 DEF MaintenanceKept
  <2>11. QED
    BY <2>9, <2>10
<1>8. QED
  BY <1>6, <1>7

LEMMA FilesWriteKeepsMaintenance ==
  ASSUME AInv, NEW f \in Paths, NEW text \in Texts, FilesWrite(f, [text |-> text, maint |-> FALSE]),
         NEW p \in Paths, HasMaintenance(Content(disk, p))
  PROVE  Kept(Content(disk, p), Content(disk', p))
<1>1. DiskOK(disk)
  BY DEF AInv
<1>2. PICK b : b = [text |-> text, maint |-> FALSE]
  OBVIOUS
<1>3. disk' = [disk EXCEPT ![f] = b] /\ ~HasMaintenance(Content(disk, f))
  BY <1>2 DEF FilesWrite
<1>4. PICK q \in Paths : q = Resolve(disk, p)
  BY <1>1, ContentType
<1>5. Content(disk, p) = disk[q] /\ disk[q] \in Body /\ disk[q] \notin Confs
  BY <1>1, <1>4, ContentType, PathsAssumption DEF Content, HasMaintenance
<1>6. f # p /\ f # q
  BY <1>5, <1>3 DEF Content, Resolve
<1>7. disk'[p] = disk[p] /\ disk'[q] = disk[q]
  BY <1>1, <1>3, <1>6 DEF DiskOK
<1>8. Content(disk', p) = Content(disk, p)
  BY <1>4, <1>5, <1>7 DEF Content, Resolve
<1>9. QED
  BY <1>8, KeptIsKept

(* Only these steps write.                                                 *)
LEMMA OnlyThese ==
  ASSUME [Next]_vars
  PROVE  \/ ApplyOne \/ Unlink \/ Relink \/ RollbackOne
         \/ \E p \in Paths, text \in Texts : FilesWrite(p, [text |-> text, maint |-> FALSE])
         \/ disk' = disk
<1>1. CASE TxStep \/ Crash
  BY <1>1 DEF TxStep, Prepare, Refuse, ApplyFails, ApplyDone, TestPasses, TestFails, Reload, ReloadFails,
     ReloadFindsNoMaster, StartSucceeds, StartFails, Ready, ReadyTimesOut, RollbackMisses, RollbackDone,
     RollbackFails, Crash
<1>2. CASE ~(TxStep \/ Crash)
  BY <1>2 DEF Next, Accept, ManualReload, MasterReads, MasterSwitches, MasterStops, vars
<1>3. QED
  BY <1>1, <1>2

(* Maintenance ends by a maintenance transition, whatever else is asked    *)
(* for, fails or is undone: what ValidateMaintenanceWrite compares before  *)
(* the first write is still true at every write and at every restoration.  *)
THEOREM MaintenanceIsKept == Spec => MaintenanceHolds
<1>1. ASSUME AInv, HInv, [Next]_vars, NEW p \in Paths, HasMaintenance(Content(disk, p)), ~NewLink(p)
      PROVE  MaintenanceKept(p)
  <2>1. CASE ApplyOne \/ Unlink \/ Relink \/ RollbackOne
    BY <1>1, <2>1, WritesKeepMaintenance
  <2>2. CASE \E f \in Paths, text \in Texts : FilesWrite(f, [text |-> text, maint |-> FALSE])
    BY <1>1, <2>2, FilesWriteKeepsMaintenance DEF MaintenanceKept
  <2>3. CASE disk' = disk
    BY <2>3, <1>1, KeptIsKept DEF Content, Resolve, MaintenanceKept
  <2>4. QED
    BY <1>1, <2>1, <2>2, <2>3, OnlyThese
<1>2. ASSUME AInv, HInv, [Next]_vars
      PROVE  \A p \in Paths :
               HasMaintenance(Content(disk, p)) /\ ~NewLink(p) =>
                 \/ Kept(Content(disk, p), Content(disk', p))
                 \/ /\ tx # Null
                    /\ \E i \in DOMAIN tx.changes :
                         tx.changes[i].transition /\ tx.changes[i].path = Resolve(disk, p)
                    /\ Content(disk', p) # Absent /\ Content(disk', p).text = Content(disk, p).text
  BY <1>1, <1>2 DEF MaintenanceKept
<1>3. QED
  BY <1>2, AgentInvariant, HistoryInvariant, PTL DEF Spec, MaintenanceHolds

-----------------------------------------------------------------------------
(* The answer and nginx.                                                   *)

BeforeReload == {"prepare", "apply", "relink", "test", "reload", "start"}

(* While nobody else reloads: nginx has been told nothing before the       *)
(* transaction tells it, so that the first workers after that are the ones *)
(* that read its files.                                                    *)
Untold(t, m)     == m.gen = t.gen /\ ~m.hup /\ m.reading = Null
ToldOnce(t, m, d) == m.gen = t.gen /\ (m.reading # Null => ~m.hup /\ m.reading = Served(d))
Obeyed(m, d)     == m.live = Served(d) /\ ~m.hup /\ m.reading = Null

AloneOK(t, m, d) ==
  t.alone =>
    /\ t.pc \in BeforeReload => Untold(t, m)
    /\ t.pc = "ready" => ToldOnce(t, m, d) \/ Obeyed(m, d)

AloneInv == tx # Null => AloneOK(tx, master, disk)

(* What the steps do to the part of the transaction that this is about.    *)
LEMMA SameTx ==
  ASSUME AInv, tx # Null
  PROVE  /\ Prepare \/ ApplyOne \/ Unlink \/ Relink \/ RollbackOne \/ RollbackMisses =>
              tx'.gen = tx.gen /\ tx'.alone = tx.alone
         /\ Prepare \/ ApplyOne \/ Unlink \/ Relink => tx'.pc \in {"apply", "relink"} /\ tx.pc \in BeforeReload
         /\ RollbackOne \/ RollbackMisses => tx'.pc = "rollback"
         /\ RollBack => tx'.pc = "rollback"
         /\ \A pc \in {"test", "reload", "start", "ready"} : Goto(pc) =>
              tx'.pc = pc /\ tx'.gen = tx.gen /\ tx'.alone = tx.alone
<1>1. tx \in Tx
  BY DEF AInv, TxOK
<1>2. /\ Prepare => tx'.gen = tx.gen /\ tx'.alone = tx.alone /\ tx'.pc = "apply" /\ tx.pc = "prepare"
      /\ ApplyOne => tx'.gen = tx.gen /\ tx'.alone = tx.alone /\ tx'.pc = "apply" /\ tx.pc = "apply"
      /\ Relink => tx'.gen = tx.gen /\ tx'.alone = tx.alone /\ tx'.pc = "apply" /\ tx.pc = "relink"
  BY <1>1 DEF Prepare, ApplyOne, Relink, InTurn, At, Tx
<1>3. Unlink => tx'.gen = tx.gen /\ tx'.alone = tx.alone /\ tx'.pc = "relink" /\ tx.pc = "apply"
  BY <1>1 DEF Unlink, Goto, InTurn, At, Tx
<1>4. RollbackOne \/ RollbackMisses => tx'.gen = tx.gen /\ tx'.alone = tx.alone /\ tx'.pc = "rollback"
  BY <1>1 DEF RollbackOne, RollbackMisses, At, Tx
<1>5. RollBack => tx'.pc = "rollback"
  BY <1>1 DEF RollBack, Tx
<1>6. \A pc \in {"test", "reload", "start", "ready"} : Goto(pc) =>
        tx'.pc = pc /\ tx'.gen = tx.gen /\ tx'.alone = tx.alone
  BY <1>1 DEF Goto, Tx
<1>7. QED
  BY <1>2, <1>3, <1>4, <1>5, <1>6 DEF BeforeReload

(* Steps of the transaction before it tells nginx.                         *)
LEMMA EarlyStepsAlone ==
  ASSUME AInv, AloneInv, tx' # Null,
         \/ Prepare \/ ApplyOne \/ Unlink \/ Relink \/ ApplyDone \/ TestPasses \/ ReloadFindsNoMaster
  PROVE  AloneInv'
<1>1. tx # Null /\ tx.pc \in BeforeReload /\ master' = master
  <2>1. tx # Null
    BY DEF Prepare, ApplyOne, Unlink, Relink, ApplyDone, TestPasses, ReloadFindsNoMaster, InTurn, At
  <2>2. tx.pc \in BeforeReload
    BY DEF Prepare, ApplyOne, Unlink, Relink, ApplyDone, TestPasses, ReloadFindsNoMaster, InTurn, At,
           BeforeReload
  <2>3. master' = master
    BY DEF Prepare, ApplyOne, Unlink, Relink, ApplyDone, TestPasses, ReloadFindsNoMaster
  <2>4. QED
    BY <2>1, <2>2, <2>3
<1>2. tx'.gen = tx.gen /\ tx'.alone = tx.alone /\ tx'.pc # "ready"
  <2>1. CASE Prepare \/ ApplyOne \/ Unlink \/ Relink
    BY <1>1, <2>1, SameTx
  <2>2. CASE ApplyDone \/ TestPasses \/ ReloadFindsNoMaster
    <3>1. \E pc \in {"test", "reload", "start"} : Goto(pc)
      BY <2>2 DEF ApplyDone, TestPasses, ReloadFindsNoMaster, Tested, Answered, Finish
    <3>2. QED
      BY <1>1, <3>1, SameTx
  <2>3. QED
    BY <2>1, <2>2
<1>3. tx.alone => Untold(tx, master)
  BY <1>1 DEF AloneInv, AloneOK
<1>4. QED
  BY <1>1, <1>2, <1>3 DEF AloneInv, AloneOK, Untold

(* A rollback promises nothing of nginx.                                   *)
LEMMA RollbackAlone ==
  ASSUME AInv, tx # Null,
         RollBack \/ RollbackOne \/ RollbackMisses
  PROVE  AloneInv'
BY SameTx DEF AloneInv, AloneOK, BeforeReload

(* Telling nginx, or starting it.                                          *)
LEMMA ReloadAlone ==
  ASSUME AInv, AloneInv, tx' # Null, Reload \/ StartSucceeds
  PROVE  AloneInv'
<1>1. tx # Null /\ tx.pc \in {"reload", "start"} /\ MasterOK(master) /\ disk' = disk
  BY DEF AInv, Reload, StartSucceeds, At
<1>2. tx'.pc = "ready" /\ tx'.gen = tx.gen /\ tx'.alone = tx.alone
  BY <1>1, SameTx DEF Reload, StartSucceeds, Reloaded, Answered, Finish
<1>3. tx.alone => Untold(tx, master)
  BY <1>1 DEF AloneInv, AloneOK, BeforeReload
<1>4. CASE master' = [master EXCEPT !.hup = TRUE]
  <2>1. master'.gen = master.gen /\ master'.reading = master.reading
    BY <1>1, <1>4 DEF MasterOK, Master
  <2>2. tx.alone => ToldOnce(tx, master', disk)
    BY <1>3, <2>1 DEF Untold, ToldOnce
  <2>3. QED
    BY <1>1, <1>2, <2>2 DEF AloneInv, AloneOK, BeforeReload, ToldOnce
<1>5. CASE master' = master
  <2>1. tx.alone => ToldOnce(tx, master', disk)
    BY <1>3, <1>5 DEF Untold, ToldOnce
  <2>2. QED
    BY <1>1, <1>2, <2>1 DEF AloneInv, AloneOK, BeforeReload, ToldOnce
<1>6. CASE Started
  <2>1. master'.live = Served(disk) /\ master'.hup = master.hup /\ master'.reading = master.reading
    BY <1>1, <1>6 DEF MasterOK, Master, Started
  <2>2. tx.alone => Obeyed(master', disk)
    BY <1>3, <2>1 DEF Untold, Obeyed
  <2>3. QED
    BY <1>1, <1>2, <2>2 DEF AloneInv, AloneOK, BeforeReload, Obeyed
<1>7. QED
  BY <1>4, <1>5, <1>6 DEF Reload, StartSucceeds

(* nginx does what it was told.                                            *)
LEMMA MasterAlone ==
  ASSUME AInv, AloneInv, MasterReads \/ MasterSwitches \/ MasterStops
  PROVE  AloneInv'
<1> SUFFICES ASSUME tx # Null, tx.alone
             PROVE  AloneInv'
  BY DEF AloneInv, AloneOK, MasterReads, MasterSwitches, MasterStops
<1>1. tx' = tx /\ disk' = disk /\ MasterOK(master) /\ DiskOK(disk)
  BY DEF AInv, MasterReads, MasterSwitches, MasterStops
<1>2. CASE tx.pc \in BeforeReload
  <2>1. Untold(tx, master)
    BY <1>2 DEF AloneInv, AloneOK
  <2>2. MasterStops
    BY <2>1 DEF MasterReads, MasterSwitches, Untold
  <2>3. master'.gen = master.gen /\ ~master'.hup /\ master'.reading = Null
    BY <1>1, <2>2 DEF MasterStops, MasterOK, Master
  <2>4. QED
    BY <1>1, <1>2, <2>1, <2>3 DEF AloneInv, AloneOK, BeforeReload, Untold
<1>3. CASE tx.pc = "ready"
  <2>1. ToldOnce(tx, master, disk) \/ Obeyed(master, disk)
    BY <1>3 DEF AloneInv, AloneOK
  <2>2. ToldOnce(tx, master', disk) \/ Obeyed(master', disk)
    <3>1. CASE MasterReads
      BY <3>1, <1>1, <2>1 DEF MasterReads, MasterOK, Master, ToldOnce, Obeyed
    <3>2. CASE MasterSwitches
      BY <2>1, <3>2, <1>1 DEF MasterSwitches, ToldOnce, Obeyed, MasterOK, Master
    <3>3. CASE MasterStops
      BY <1>1, <3>3, <2>1 DEF MasterStops, MasterOK, Master, ToldOnce, Obeyed
    <3>4. QED
      BY <3>1, <3>2, <3>3
  <2>3. QED
    BY <1>1, <1>3, <2>2 DEF AloneInv, AloneOK, BeforeReload
<1>4. CASE tx.pc \notin BeforeReload /\ tx.pc # "ready"
  BY <1>1, <1>4 DEF AloneInv, AloneOK
<1>5. QED
  BY <1>2, <1>3, <1>4

(* Another reload ends the claim.                                          *)
LEMMA ManualReloadAlone ==
  ASSUME AInv, ManualReload
  PROVE  AloneInv'
<1> SUFFICES ASSUME tx # Null, tx' = [tx EXCEPT !.alone = FALSE]
             PROVE  AloneInv'
  BY DEF ManualReload, AloneInv
<1>1. tx \in Tx
  BY DEF AInv, TxOK
<1>2. tx'.alone = FALSE
  BY <1>1 DEF Tx
<1>3. QED
  BY <1>2 DEF AloneInv, AloneOK

(* Taking the lock.                                                        *)
LEMMA AcceptAlone ==
  ASSUME AInv, NEW r \in Requests, Accept(r)
  PROVE  AloneInv'
BY DEF Accept, Untold, AloneInv, AloneOK

LEMMA TxStepAlone ==
  ASSUME AInv, AloneInv, TxStep
  PROVE  AloneInv'
<1> SUFFICES ASSUME tx' # Null
             PROVE  AloneInv'
  BY DEF AloneInv
<1>1. CASE Prepare \/ ApplyOne \/ Unlink \/ Relink \/ ApplyDone \/ TestPasses \/ ReloadFindsNoMaster
  BY <1>1, EarlyStepsAlone
<1>2. CASE Reload \/ StartSucceeds
  BY <1>2, ReloadAlone
<1>3. CASE ApplyFails \/ TestFails \/ ReloadFails \/ StartFails \/ RollbackOne \/ RollbackMisses
  <2>1. tx # Null /\ (RollBack \/ RollbackOne \/ RollbackMisses)
    BY <1>3 DEF ApplyFails, TestFails, ReloadFails, StartFails, RollbackOne, RollbackMisses, InTurn, At
  <2>2. QED
    BY <2>1, RollbackAlone
<1>4. CASE Refuse \/ Ready \/ ReadyTimesOut \/ RollbackDone \/ RollbackFails
  BY <1>4 DEF Refuse, Ready, ReadyTimesOut, RollbackDone, RollbackFails, Answered, Finish
<1>5. QED
  BY <1>1, <1>2, <1>3, <1>4 DEF TxStep

(* Until another reload is asked for, nginx does nothing but what the      *)
(* transaction tells it.                                                   *)
THEOREM AloneInvariant == Spec => []AloneInv
<1>1. Init => AloneInv
  BY DEF Init, AloneInv
<1>2. ASSUME AInv, AloneInv, [Next]_vars
      PROVE  AloneInv'
  <2>1. CASE \E r \in Requests : Accept(r)
    BY <1>2, <2>1, AcceptAlone
  <2>2. CASE TxStep
    BY <1>2, <2>2, TxStepAlone
  <2>3. CASE Crash
    BY <2>3 DEF Crash, Finish, AloneInv
  <2>4. CASE \E p \in Paths, text \in Texts : FilesWrite(p, [text |-> text, maint |-> FALSE])
    BY <2>4 DEF FilesWrite, AloneInv
  <2>5. CASE ManualReload
    BY <1>2, <2>5, ManualReloadAlone
  <2>6. CASE MasterReads \/ MasterSwitches \/ MasterStops
    BY <1>2, <2>6, MasterAlone
  <2>7. CASE UNCHANGED vars
    BY <1>2, <2>7 DEF vars, AloneInv
  <2>8. QED
    BY <1>2, <2>1, <2>2, <2>3, <2>4, <2>5, <2>6, <2>7 DEF Next
<1>3. QED
  BY <1>1, <1>2, AgentInvariant, PTL DEF Spec

(* A maintenance transition that is answered ok is served, however many    *)
(* reloads were under way before: provided that none was left over or      *)
(* asked for while it ran.                                                 *)
THEOREM ConfirmedIsServed == Spec => ConfirmedIsLive
<1>1. ASSUME AInv, AloneInv, [Next]_vars,
             At("ready"), tx' = Null, answer' = "reloaded", tx.alone
      PROVE  master.live = Served(disk)
  <2>1. tx # Null /\ tx.pc = "ready" /\ tx \in Tx
    BY <1>1 DEF At, AInv, TxOK
  <2>2. Ready
    <3>1. CASE TxStep
      BY <1>1, <2>1, <3>1 DEF TxStep, Prepare, Refuse, ApplyOne, Unlink, Relink, ApplyFails, ApplyDone, InTurn,
         TestPasses, TestFails, Reload, ReloadFails, ReloadFindsNoMaster, StartSucceeds, StartFails, ReadyTimesOut,
         RollbackOne, RollbackMisses, RollbackDone, RollbackFails, At, Finish
    <3>2. CASE ~TxStep
      <4>1. ManualReload => tx' # Null
        <5>1. ManualReload => tx' \in Tx
          BY <2>1 DEF ManualReload, Tx
        <5>2. QED
          BY <5>1, NothingAssumption
      <4>2. QED
        BY <1>1, <2>1, <3>2, <4>1 DEF Next, Accept, Crash, Finish, FilesWrite, MasterReads, MasterSwitches,
           MasterStops, vars
    <3>3. QED
      BY <3>1, <3>2
  <2>3. ToldOnce(tx, master, disk) \/ Obeyed(master, disk)
    BY <1>1, <2>1 DEF AloneInv, AloneOK
  <2>4. master.gen # tx.gen
    BY <2>2 DEF Ready, GenerationSwitched
  <2>5. QED
    BY <2>3, <2>4 DEF ToldOnce, Obeyed
<1>2. ASSUME AInv, AloneInv, [Next]_vars
      PROVE  At("ready") /\ tx' = Null /\ answer' = "reloaded" /\ tx.alone => master.live = Served(disk)
  BY <1>1, <1>2
<1>3. QED
  BY <1>2, AgentInvariant, AloneInvariant, PTL DEF Spec, ConfirmedIsLive
=============================================================================
