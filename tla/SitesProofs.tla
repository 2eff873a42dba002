------------------------------ MODULE SitesProofs ------------------------------
(***************************************************************************)
(* Proofs about Sites and SiteMaintenance: whatever is lost, a file in     *)
(* maintenance is one the panel knows of, and what is shown as synced is   *)
(* installed; until an answer is lost a pending site can be reconciled, a  *)
(* site in maintenance is served, and no site's file is another's.         *)
(***************************************************************************)
EXTENDS SiteMaintenance, TLAPS

(* A transaction of the right types; one that leaves maintenance alone; and *)
(* the one that puts s in maintenance or out of it.                        *)
TxOK(t) ==
  /\ DOMAIN t.conf \subseteq Confs /\ \A p \in DOMAIN t.conf : t.conf[p] \in Body \cup {Absent}
  /\ DOMAIN t.link \subseteq Confs /\ \A l \in DOMAIN t.link : t.link[l] \in Domains \cup {Absent}
  /\ \A s \in DOMAIN t.page : t.page[s] \in Htmls
  /\ t.hash \in Body \cup {Null} /\ t.transition \in BOOLEAN

Plain(t) == t.transition = FALSE /\ DOMAIN t.page = {}

Moves(t, s, on) ==
  /\ DOMAIN t.conf = {rows[s].conf}
  /\ t.conf[rows[s].conf] \in Body /\ t.conf[rows[s].conf].maint = on
  /\ DOMAIN t.page = IF on THEN {s} ELSE {}
  /\ on => t.page[s] = Effective(states[s].html)

DiskOK(d) ==
  /\ d.conf \in [Confs -> Body \cup {Absent}]
  /\ d.link \in [Confs -> Domains \cup {Absent}]
  /\ d.page \in [SiteIds -> Htmls \cup {Absent}]

TablesOK ==
  /\ rows \in [SiteIds -> Row \cup {Null}]
  /\ states \in [SiteIds -> [desired : BOOLEAN, html : Htmls \cup {Null}, pending : BOOLEAN]]
  /\ default \in Htmls

(* Ids are new, the paths of two sites differ, a site without a row has no *)
(* maintenance, and one that is not pending has its flag.                  *)
RowsInv ==
  /\ Live \subseteq spent.ids
  /\ \A s, o \in Live : s # o => rows[s].conf # rows[o].conf /\ rows[s].name # rows[o].name
  /\ \A s \in SiteIds : rows[s] = Null => states[s] = Rowless
  /\ \A s \in Live : ~states[s].pending => rows[s].flag = states[s].desired

(* Any file that holds the block is that of a site the panel will not edit. *)
KnownInv ==
  \A p \in Confs : Protected(disk.conf[p]) => \E s \in Live : rows[s].conf = p /\ Blocked(s)

(* The transaction that nobody waits for leaves maintenance alone, or moves *)
(* a site that is pending still.                                           *)
LateInv ==
  late # Null =>
    /\ TxOK(late)
    /\ ~Plain(late) => \E s \in Live :
         states[s].pending /\ DOMAIN late.conf = {rows[s].conf} /\ DOMAIN late.page \subseteq {s}

SyncInv ==
  \A s \in Live : ~states[s].pending /\ rows[s].flag =>
    InMaintenance(s) /\ disk.page[s] = Effective(states[s].html)

JobInv ==
  job # Null => job.site \in SiteIds /\ job.row \in Row /\ TxOK(job.tx) /\ Plain(job.tx)

(* What is wanted of s is there, and no late transaction will undo it.     *)
Installed(s, on) ==
  /\ IF on THEN InMaintenance(s) /\ disk.page[s] = Effective(states[s].html) ELSE ~InMaintenance(s)
  /\ late # Null /\ ~Plain(late) => rows[s].conf \notin DOMAIN late.conf

Ops == {"create", "edit", "enable", "disable", "delete", "replace", "maintain", "defaults"}

HttpInv ==
  http # Null =>
    /\ http.op \in Ops /\ http.todo \subseteq SiteIds
    /\ http.op # "defaults" => http.site \in SiteIds /\ TxOK(http.tx)
    /\ http.op \notin {"maintain", "defaults"} => Plain(http.tx)
    /\ http.op = "defaults" => http.pc = "next" /\ http.site = Null
    /\ http.op = "create" => http.row \in Row /\ ~http.row.flag /\ http.site \in spent.ids \ Live
    /\ http.op = "edit" => http.row \in Row
    /\ http.op \notin {"create", "defaults"} => http.site \in Live
    /\ http.op \in {"edit", "enable", "disable", "delete"} => ~Blocked(http.site)
    /\ http.op = "maintain" =>
         /\ http.want \in BOOLEAN
         /\ states[http.site].pending /\ states[http.site].desired = http.want
         /\ http.pc = "call" => Moves(http.tx, http.site, http.want)
         /\ http.pc = "done" => Installed(http.site, http.want)

SpentOK ==
  spent \in [requests : Nat, ids : SUBSET SiteIds, jobs : Nat, faults : Nat, lost : BOOLEAN,
             stale : BOOLEAN, astray : BOOLEAN]

SiteInv ==
  /\ TablesOK /\ DiskOK(disk) /\ SpentOK
  /\ RowsInv /\ KnownInv /\ SyncInv
  /\ HttpInv /\ JobInv /\ LateInv

-----------------------------------------------------------------------------
(* What a transaction does to the files.                                   *)

LEMMA AfterOK ==
  ASSUME NEW d, DiskOK(d), NEW t, TxOK(t)
  PROVE  /\ DiskOK(After(d, t))
         /\ \A p \in Confs : After(d, t).conf[p] =
              IF p \in DOMAIN t.conf THEN t.conf[p] ELSE d.conf[p]
         /\ \A l \in Confs : After(d, t).link[l] =
              IF l \in DOMAIN t.link THEN t.link[l] ELSE d.link[l]
         /\ \A s \in SiteIds : After(d, t).page[s] =
              IF s \in DOMAIN t.page THEN t.page[s] ELSE d.page[s]
<1>1. \A p \in Confs : After(d, t).conf[p] = IF p \in DOMAIN t.conf THEN t.conf[p] ELSE d.conf[p]
  BY DEF After, Updated, DiskOK
<1>2. \A l \in Confs : After(d, t).link[l] = IF l \in DOMAIN t.link THEN t.link[l] ELSE d.link[l]
  BY DEF After, Updated, DiskOK
<1>3. \A s \in SiteIds : After(d, t).page[s] = IF s \in DOMAIN t.page THEN t.page[s] ELSE d.page[s]
  BY DEF After, Updated, DiskOK
<1>4. After(d, t).conf \in [Confs -> Body \cup {Absent}]
  BY DEF After, Updated, DiskOK, TxOK
<1>5. After(d, t).link \in [Confs -> Domains \cup {Absent}]
  BY DEF After, Updated, DiskOK, TxOK
<1>6. After(d, t).page \in [SiteIds -> Htmls \cup {Absent}]
  BY DEF After, Updated, DiskOK, TxOK
<1>7. QED
  BY <1>1, <1>2, <1>3, <1>4, <1>5, <1>6 DEF DiskOK

(* A transaction that is not a transition, and that the agent accepts,     *)
(* leaves every block and every page as they are.                          *)
LEMMA PlainKeeps ==
  ASSUME NEW d, DiskOK(d), NEW t, TxOK(t), Plain(t), Acceptable(d, t)
  PROVE  /\ \A p \in Confs : Protected(After(d, t).conf[p]) <=> Protected(d.conf[p])
         /\ \A s \in SiteIds : After(d, t).page[s] = d.page[s]
<1>1. ASSUME NEW p \in Confs
      PROVE  Protected(After(d, t).conf[p]) <=> Protected(d.conf[p])
  <2>1. CASE p \notin DOMAIN t.conf
    BY <2>1, AfterOK
  <2>2. CASE p \in DOMAIN t.conf /\ ~Protected(d.conf[p]) /\ ~Protected(t.conf[p])
    BY <2>2, AfterOK
  <2>3. CASE p \in DOMAIN t.conf /\ (Protected(d.conf[p]) \/ Protected(t.conf[p]))
    <3>1. KeepsMaintenance(t, d.conf[p], t.conf[p]) /\ (t.hash # Null => d.conf[p] = t.hash)
      BY <2>3 DEF Acceptable
    <3>2. PICK old \in Body : old = d.conf[p]
      BY <3>1 DEF KeepsMaintenance, TxOK
    <3>3. PICK new \in Body : new = t.conf[p]
      BY <2>3, <3>1 DEF KeepsMaintenance, TxOK
    <3>4. new = [old EXCEPT !.tls = new.tls]
      BY <3>1, <3>2, <3>3 DEF KeepsMaintenance, Plain
    <3>5. new.maint = old.maint
      BY <3>4 DEF Body
    <3>6. After(d, t).conf[p] = new
      BY <2>3, <3>3, AfterOK
    <3>7. old # Absent /\ new # Absent
      BY SitesAssumption
    <3>8. QED
      BY <3>2, <3>5, <3>6, <3>7 DEF Protected
  <2>4. QED
    BY <2>1, <2>2, <2>3
<1>2. \A s \in SiteIds : After(d, t).page[s] = d.page[s]
  BY AfterOK DEF Plain
<1>3. QED
  BY <1>1, <1>2

(* What the handlers build.                                                *)
LEMMA QuietOK ==
  /\ TxOK(Quiet) /\ Plain(Quiet)
  /\ DOMAIN Quiet.conf = {} /\ DOMAIN Quiet.link = {} /\ DOMAIN Quiet.page = {}
  /\ Quiet.hash = Null
BY DEF Quiet, Nothing, TxOK, Plain

LEMMA WriteOK ==
  ASSUME NEW p \in Confs, NEW b \in Body \cup {Absent}
  PROVE  /\ TxOK(Write(p, b)) /\ Plain(Write(p, b))
         /\ DOMAIN Write(p, b).conf = {p} /\ Write(p, b).conf[p] = b
         /\ DOMAIN Write(p, b).link = {} /\ Write(p, b).hash = Null
BY DEF Write, Quiet, Nothing, TxOK, Plain

LEMMA LinkToOK ==
  ASSUME NEW l \in Confs, NEW d \in Domains \cup {Absent}
  PROVE  /\ TxOK(LinkTo(l, d)) /\ Plain(LinkTo(l, d))
         /\ DOMAIN LinkTo(l, d).link = {l} /\ LinkTo(l, d).link[l] = d
         /\ DOMAIN LinkTo(l, d).conf = {}
BY DEF LinkTo, Quiet, Nothing, TxOK, Plain

LEMMA UnlinkOK ==
  ASSUME NEW r \in Row
  PROVE  /\ TxOK(Unlink(r)) /\ Plain(Unlink(r))
         /\ DOMAIN Unlink(r).conf = IF Imported(r) THEN {r.conf} ELSE {}
         /\ \A p \in DOMAIN Unlink(r).conf : Unlink(r).conf[p] = Absent
         /\ DOMAIN Unlink(r).link \subseteq {r.name}
<1>1. r.conf \in Confs /\ r.name \in Confs
  BY DEF Row, Confs
<1>2. CASE Imported(r)
  BY <1>1, <1>2, WriteOK DEF Unlink
<1>3. CASE ~Imported(r)
  BY <1>1, <1>3, LinkToOK DEF Unlink
<1>4. QED
  BY <1>2, <1>3

(* The same with the hash of what was read, with a link beside it, or with *)
(* the removal of the configuration.                                       *)
LEMMA GuardedOK ==
  ASSUME NEW p \in Confs, NEW b \in Body, NEW h \in Body
  PROVE  LET t == [Write(p, b) EXCEPT !.hash = h]
         IN /\ TxOK(t) /\ Plain(t)
            /\ DOMAIN t.conf = {p} /\ t.conf[p] = b /\ DOMAIN t.link = {} /\ t.hash = h
BY DEF Write, Quiet, Nothing, TxOK, Plain

LEMMA LinkedOK ==
  ASSUME NEW d \in Domains, NEW b \in Body, NEW on \in BOOLEAN,
         NEW link, link = IF on THEN [x \in {d} |-> d] ELSE Nothing
  PROVE  LET t == [Write(d, b) EXCEPT !.link = link]
         IN /\ TxOK(t) /\ Plain(t)
            /\ DOMAIN t.conf = {d} /\ t.conf[d] = b
            /\ DOMAIN t.link = (IF on THEN {d} ELSE {}) /\ \A l \in DOMAIN t.link : t.link[l] = l
            /\ t.hash = Null
<1>1. CASE on
  BY <1>1 DEF Write, Quiet, Nothing, TxOK, Plain, Confs
<1>2. CASE ~on
  BY <1>2 DEF Write, Quiet, Nothing, TxOK, Plain, Confs
<1>3. QED
  BY <1>1, <1>2

LEMMA ErasedOK ==
  ASSUME NEW r \in Row
  PROVE  LET t == Erase(r)
         IN /\ TxOK(t) /\ Plain(t)
            /\ DOMAIN t.conf = {r.conf} /\ t.conf[r.conf] = Absent
            /\ DOMAIN t.link \subseteq {r.name}
<1>1. r.conf \in Confs /\ r.name \in Confs
  BY DEF Row, Confs
<1>2. CASE Imported(r)
  BY <1>1, <1>2 DEF Erase, Unlink, Write, Quiet, Nothing, TxOK, Plain
<1>3. CASE ~Imported(r)
  BY <1>1, <1>3 DEF Erase, Unlink, LinkTo, Quiet, Nothing, TxOK, Plain
<1>4. QED
  BY <1>2, <1>3

-----------------------------------------------------------------------------
(* Steps that leave the tables, the files and the late transaction alone.  *)

LEMMA QuietStep ==
  ASSUME SiteInv, UNCHANGED <<tables, disk, late>>, SpentOK', spent.ids \subseteq spent'.ids,
         HttpInv', JobInv'
  PROVE  SiteInv'
<1> USE DEF tables
<1>1. TablesOK' /\ DiskOK(disk)'
  BY DEF SiteInv, TablesOK, DiskOK
<1>2. RowsInv'
  BY DEF SiteInv, RowsInv, Live
<1>3. KnownInv'
  BY DEF SiteInv, KnownInv, Live, Blocked
<1>4. SyncInv'
  BY DEF SiteInv, SyncInv, Live, InMaintenance, ConfOf, Effective
<1>5. LateInv'
  BY DEF SiteInv, LateInv, Live
<1>6. QED
  BY <1>1, <1>2, <1>3, <1>4, <1>5 DEF SiteInv

(* A request that has read and checked what it needs.                      *)
LEMMA CallingOK ==
  ASSUME SiteInv, UNCHANGED <<tables, disk, job, late>>, SpentOK', spent.ids \subseteq spent'.ids,
         NEW op \in {"create", "edit", "enable", "disable", "delete", "replace"},
         NEW s \in SiteIds, NEW r, NEW t, Calling(op, s, r, t),
         TxOK(t), Plain(t),
         op = "create" => r \in Row /\ ~r.flag /\ s \in spent'.ids \ Live,
         op = "edit" => r \in Row,
         op # "create" => s \in Live,
         op \in {"edit", "enable", "disable", "delete"} => ~Blocked(s)
  PROVE  SiteInv'
<1>1. /\ http'.op = op /\ http'.pc = "call" /\ http'.site = s /\ http'.row = r /\ http'.tx = t
      /\ http'.todo = {}
  BY DEF Calling
<1>2. Live' = Live /\ (Blocked(s)' <=> Blocked(s))
  BY DEF tables, Live, Blocked
<1>3. TxOK(http'.tx) /\ Plain(http'.tx)
  BY <1>1
<1>4. HttpInv'
  BY <1>1, <1>2, <1>3 DEF HttpInv, Ops, TxOK, Plain
<1>5. JobInv'
  BY DEF SiteInv, JobInv, TxOK, Plain
<1>6. QED
  BY <1>4, <1>5, QuietStep

LEMMA SpentServe ==
  ASSUME SpentOK, Serve
  PROVE  SpentOK' /\ spent'.ids = spent.ids
BY DEF SpentOK, Serve

LEMMA SpentServeNew ==
  ASSUME SpentOK, NEW s \in SiteIds, ServeNew(s)
  PROVE  SpentOK' /\ spent.ids \subseteq spent'.ids /\ s \in spent'.ids \ spent.ids
<1>1. PICK ids \in SUBSET SiteIds : ids = spent.ids \cup {s}
  BY DEF SpentOK
<1>2. PICK n \in Nat : n = spent.requests + 1
  BY DEF SpentOK
<1>3. spent' = [spent EXCEPT !.requests = n, !.ids = ids] /\ s \notin spent.ids
  BY <1>1, <1>2 DEF ServeNew
<1>4. SpentOK' /\ spent'.ids = ids
  BY <1>3 DEF SpentOK
<1>5. QED
  BY <1>1, <1>3, <1>4

(* What a live site's row and file are.                                    *)
LEMMA LiveRow ==
  ASSUME TablesOK, DiskOK(disk), NEW s \in Live
  PROVE  /\ s \in SiteIds /\ rows[s] \in Row /\ rows[s].conf \in Confs
         /\ ConfOf(s) # Absent => ConfOf(s) \in Body
BY DEF TablesOK, DiskOK, Live, Row, ConfOf

LEMMA CreateInv ==
  ASSUME SiteInv, NEW s \in SiteIds, NEW d \in Domains, NEW b \in BOOLEAN, StartCreate(s, d, b)
  PROVE  SiteInv'
<1>1. PICK text \in Texts :
        LET body == [owner |-> s, domain |-> d, text |-> text, tls |-> "plain", maint |-> FALSE]
            link == IF b THEN [x \in {d} |-> d] ELSE Nothing
        IN Calling("create", s,
             [domain |-> d, conf |-> d, name |-> d, enabled |-> b, logs |-> Null, flag |-> FALSE],
             [Write(d, body) EXCEPT !.link = link])
  BY DEF StartCreate
<1> DEFINE body == [owner |-> s, domain |-> d, text |-> text, tls |-> "plain", maint |-> FALSE]
           link == IF b THEN [x \in {d} |-> d] ELSE Nothing
           r == [domain |-> d, conf |-> d, name |-> d, enabled |-> b, logs |-> Null, flag |-> FALSE]
<1>2. body \in Body
  BY DEF Body, Tls
<1>3. r \in Row /\ ~r.flag
  BY DEF Row, Confs
<1>4. TxOK([Write(d, body) EXCEPT !.link = link]) /\ Plain([Write(d, body) EXCEPT !.link = link])
  BY <1>2, LinkedOK
<1>5. SpentOK' /\ spent.ids \subseteq spent'.ids /\ s \in spent'.ids \ Live
  BY SpentServeNew DEF StartCreate, SiteInv, RowsInv
<1>6. UNCHANGED <<tables, disk, job, late>>
  BY DEF StartCreate
<1>7. QED
  BY <1>1, <1>3, <1>4, <1>5, <1>6, CallingOK

LEMMA ImportInv ==
  ASSUME SiteInv, NEW s \in SiteIds, NEW f \in Foreign, StartImport(s, f)
  PROVE  SiteInv'
<1>1. PICK body \in Body : body = disk.conf[f]
  BY DEF StartImport, SiteInv, DiskOK, Confs
<1> DEFINE r == [domain |-> body.domain, conf |-> f, name |-> body.domain, enabled |-> TRUE,
                 logs |-> body.text, flag |-> FALSE]
<1>2. Calling("create", s, r, [Quiet EXCEPT !.test = FALSE])
  BY <1>1 DEF StartImport
<1>3. r \in Row /\ ~r.flag
  BY DEF Row, Body, Confs
<1>4. TxOK([Quiet EXCEPT !.test = FALSE]) /\ Plain([Quiet EXCEPT !.test = FALSE])
  BY DEF Quiet, Nothing, TxOK, Plain
<1>5. SpentOK' /\ spent.ids \subseteq spent'.ids /\ s \in spent'.ids \ Live
  BY SpentServeNew DEF StartImport, SiteInv, RowsInv
<1>6. UNCHANGED <<tables, disk, job, late>>
  BY DEF StartImport
<1>7. QED
  BY <1>2, <1>3, <1>4, <1>5, <1>6, CallingOK

(* An edit: the row it means to write, and the file it read with another   *)
(* server name or text.                                                    *)
LEMMA EditInv ==
  ASSUME SiteInv, NEW s \in SiteIds, NEW d \in Domains, NEW text \in Texts,
         \/ StartUpdate(s, d, text) \/ StartUpdateDocument(s, text) \/ StartSave(s, d, text)
  PROVE  SiteInv'
<1>1. /\ Serve /\ Editable(s) /\ UNCHANGED <<tables, disk, job, late>>
  BY DEF StartUpdate, StartUpdateDocument, StartSave
<1>2. PICK row \in Row : row = rows[s]
  BY <1>1, LiveRow DEF SiteInv, Editable
<1>3. PICK body \in Body : body = ConfOf(s)
  BY <1>1, LiveRow DEF SiteInv, Editable
<1>4. row.conf \in Confs /\ s \in Live /\ ~Blocked(s)
  BY <1>1, <1>2 DEF Row, Editable
<1>5. /\ SpentOK' /\ spent'.ids = spent.ids
  BY <1>1, SpentServe DEF SiteInv
<1>6. ASSUME NEW r \in Row, NEW b \in Body, Calling("edit", s, r, Write(row.conf, b))
      PROVE  SiteInv'
  BY <1>1, <1>4, <1>5, <1>6, WriteOK, CallingOK
<1>7. CASE StartUpdate(s, d, text)
  <2>1. [row EXCEPT !.domain = d] \in Row
    BY DEF Row
  <2>2. [body EXCEPT !.domain = d, !.text = text] \in Body
    BY DEF Body
  <2>3. Calling("edit", s, [row EXCEPT !.domain = d],
                Write(row.conf, [body EXCEPT !.domain = d, !.text = text]))
    BY <1>2, <1>3, <1>7 DEF StartUpdate
  <2>4. QED
    BY <1>6, <2>1, <2>2, <2>3
<1>8. CASE StartUpdateDocument(s, text)
  <2>1. [body EXCEPT !.text = text] \in Body
    BY DEF Body
  <2>2. Calling("edit", s, row, Write(row.conf, [body EXCEPT !.text = text]))
    BY <1>2, <1>3, <1>8 DEF StartUpdateDocument
  <2>3. QED
    BY <1>6, <2>1, <2>2
<1>9. CASE StartSave(s, d, text)
  <2> DEFINE r == IF Marked(s) THEN [row EXCEPT !.domain = d]
                  ELSE IF d = row.domain THEN [row EXCEPT !.logs = text] ELSE row
  <2>1. PICK new \in Row : new = r
    BY DEF Row
  <2>2. [body EXCEPT !.domain = d, !.text = text] \in Body
    BY DEF Body
  <2>3. Calling("edit", s, new, Write(row.conf, [body EXCEPT !.domain = d, !.text = text]))
    BY <1>2, <1>3, <1>9, <2>1 DEF StartSave
  <2>4. QED
    BY <1>6, <2>2, <2>3
<1>10. QED
  BY <1>7, <1>8, <1>9

LEMMA StatusInv ==
  ASSUME SiteInv, NEW s \in SiteIds, StartEnable(s) \/ StartDisable(s) \/ StartDelete(s)
  PROVE  SiteInv'
<1>1. /\ Serve /\ s \in Live /\ ~Blocked(s) /\ UNCHANGED <<tables, disk, job, late>>
  BY DEF StartEnable, StartDisable, StartDelete, Removable
<1>2. PICK row \in Row : row = rows[s]
  BY <1>1, LiveRow DEF SiteInv
<1>3. /\ SpentOK' /\ spent'.ids = spent.ids
  BY <1>1, SpentServe DEF SiteInv
<1>4. ASSUME NEW op \in {"enable", "disable", "delete"}, NEW t, TxOK(t), Plain(t),
             Calling(op, s, Null, t)
      PROVE  SiteInv'
  BY <1>1, <1>3, <1>4, CallingOK
<1>5. CASE StartEnable(s)
  <2>1. PICK l \in Confs : l = IF Imported(row) THEN row.conf ELSE row.name
    BY DEF Row, Confs
  <2>2. Calling("enable", s, Null, LinkTo(l, row.domain))
    BY <1>2, <1>5, <2>1 DEF StartEnable
  <2>3. row.domain \in Domains \cup {Absent}
    BY DEF Row
  <2>4. QED
    BY <1>4, <2>2, <2>3, LinkToOK
<1>6. CASE StartDisable(s)
  <2>1. Calling("disable", s, Null, Unlink(row))
    BY <1>2, <1>6 DEF StartDisable
  <2>2. QED
    BY <1>4, <2>1, UnlinkOK
<1>7. CASE StartDelete(s)
  <2>1. Calling("delete", s, Null, Erase(row))
    BY <1>2, <1>7 DEF StartDelete
  <2>2. QED
    BY <1>4, <2>1, ErasedOK
<1>8. QED
  BY <1>5, <1>6, <1>7

LEMMA ReplaceInv ==
  ASSUME SiteInv, NEW s \in SiteIds, NEW c \in Certs, StartReplace(s, c)
  PROVE  SiteInv'
<1>1. /\ Serve /\ s \in Live /\ ConfOf(s) # Absent /\ UNCHANGED <<tables, disk, job, late>>
  BY DEF StartReplace
<1>2. PICK body \in Body : body = ConfOf(s)
  BY <1>1, LiveRow DEF SiteInv
<1>3. PICK p \in Confs : p = rows[s].conf
  BY <1>1, LiveRow DEF SiteInv
<1>4. [body EXCEPT !.tls = c] \in Body
  BY DEF Body, Tls
<1>5. Calling("replace", s, Null, [Write(p, [body EXCEPT !.tls = c]) EXCEPT !.hash = body])
  BY <1>2, <1>3 DEF StartReplace
<1>6. SpentOK' /\ spent'.ids = spent.ids
  BY <1>1, SpentServe DEF SiteInv
<1>7. QED
  BY <1>1, <1>4, <1>5, <1>6, GuardedOK, CallingOK

-----------------------------------------------------------------------------
(* Background work begins, and requests that end without writing.          *)

LEMMA BackgroundInv ==
  ASSUME SiteInv, NEW s \in SiteIds,
         RefreshStart(s) \/ ChallengeStart(s) \/ (\E c \in Certs : DeployStart(s, c))
  PROVE  SiteInv'
<1>1. /\ s \in Live /\ UNCHANGED <<tables, disk, http, late>> /\ (s \in Live)'
  BY DEF RefreshStart, ChallengeStart, DeployStart, tables, Live
<1>2. PICK row \in Row : row = rows[s]
  BY <1>1, LiveRow DEF SiteInv
<1>3. SpentOK' /\ spent'.ids = spent.ids
  <2>1. spent' = [spent EXCEPT !.jobs = @ + 1]
    BY DEF RefreshStart, ChallengeStart, DeployStart, Background
  <2>2. QED
    BY <2>1 DEF SpentOK, SiteInv
<1>4. JobInv'
  <2>1. CASE RefreshStart(s)
    <3>1. job' = [kind |-> "refresh", pc |-> "write", site |-> s, row |-> row, tx |-> Quiet]
      BY <1>2, <2>1 DEF RefreshStart, Background
    <3>2. QED
      BY <3>1, QuietOK DEF JobInv, TxOK, Plain
  <2>2. CASE ChallengeStart(s) \/ (\E c \in Certs : DeployStart(s, c))
    <3>1. ConfOf(s) # Absent
      BY <2>2 DEF ChallengeStart, DeployStart
    <3>2. PICK body \in Body : body = ConfOf(s)
      BY <1>1, <3>1, LiveRow DEF SiteInv
    <3>3. row.conf \in Confs
      BY DEF Row
    <3>4. CASE ChallengeStart(s)
      <4>1. [body EXCEPT !.tls = "challenge"] \in Body
        BY DEF Body, Tls
      <4>2. job' = [kind |-> "challenge", pc |-> "call", site |-> s, row |-> row,
                    tx |-> Write(row.conf, [body EXCEPT !.tls = "challenge"])]
        BY <1>2, <3>2, <3>4 DEF ChallengeStart, Background
      <4>3. PICK t : t = Write(row.conf, [body EXCEPT !.tls = "challenge"])
        OBVIOUS
      <4>4. TxOK(t) /\ Plain(t)
        BY <3>3, <4>1, <4>3, WriteOK
      <4>5. job'.site = s /\ job'.row = row /\ job'.tx = t
        BY <4>2, <4>3
      <4>6. QED
        BY <4>4, <4>5 DEF JobInv, TxOK, Plain
    <3>5. CASE \E c \in Certs : DeployStart(s, c)
      <4>1. PICK c \in Certs : DeployStart(s, c)
        BY <3>5
      <4>2. [body EXCEPT !.tls = c] \in Body
        BY DEF Body, Tls
      <4>3. job' = [kind |-> "deploy", pc |-> "call", site |-> s, row |-> row,
                    tx |-> [Write(row.conf, [body EXCEPT !.tls = c]) EXCEPT !.hash = body]]
        BY <1>2, <3>2, <4>1 DEF DeployStart, Background
      <4>4. PICK t : t = [Write(row.conf, [body EXCEPT !.tls = c]) EXCEPT !.hash = body]
        OBVIOUS
      <4>5. TxOK(t) /\ Plain(t)
        BY <3>3, <4>2, <4>4, GuardedOK
      <4>6. job'.site = s /\ job'.row = row /\ job'.tx = t
        BY <4>3, <4>4
      <4>7. QED
        BY <4>5, <4>6 DEF JobInv, TxOK, Plain
    <3>6. QED
      BY <2>2, <3>4, <3>5
  <2>3. QED
    BY <2>1, <2>2
<1>5. HttpInv'
  <2>1. /\ Live' = Live /\ spent'.ids = spent.ids
        /\ UNCHANGED <<rows, states, default, disk, http, late>>
    BY <1>1, <1>3 DEF tables, Live
  <2>2. QED
    BY <2>1 DEF SiteInv, HttpInv, Blocked, Moves, Installed, InMaintenance, ConfOf, Effective
<1>6. QED
  BY <1>1, <1>3, <1>4, <1>5, QuietStep

LEMMA NextOfInv ==
  ASSUME NEW todo \in SUBSET SiteIds, NextOf(todo)
  PROVE  HttpInv'
<1>1. CASE todo = {}
  BY <1>1 DEF NextOf, HttpInv
<1>2. CASE todo # {}
  <2>1. /\ http'.op = "defaults" /\ http'.pc = "next" /\ http'.site = Null /\ http'.todo = todo
    BY <1>2 DEF NextOf
  <2>2. QED
    BY <2>1 DEF HttpInv, Ops
<1>3. QED
  BY <1>1, <1>2

LEMMA EndedInv ==
  ASSUME SiteInv, FailRequest \/ FailMaintain \/ FinishReplace
  PROVE  SiteInv'
<1>1. UNCHANGED <<tables, disk, job, late, spent>>
  BY DEF FailRequest, FailMaintain, FinishReplace
<1>2. HttpInv'
  <2>1. CASE FailRequest \/ FinishReplace
    BY <2>1 DEF FailRequest, FinishReplace, EndRequest, HttpInv
  <2>2. CASE FailMaintain
    <3>1. PICK todo \in SUBSET SiteIds : todo = http.todo
      BY <2>2 DEF FailMaintain, SiteInv, HttpInv
    <3>2. NextOf(todo)
      BY <2>2, <3>1 DEF FailMaintain
    <3>3. QED
      BY <3>2, NextOfInv
  <2>3. QED
    BY <2>1, <2>2
<1>3. JobInv' /\ SpentOK'
  BY <1>1 DEF SiteInv, JobInv, SpentOK, TxOK, Plain
<1>4. QED
  BY <1>1, <1>2, <1>3, QuietStep

-----------------------------------------------------------------------------
(* Transactions.                                                           *)

(* One that leaves maintenance alone.                                      *)
LEMMA PlainWrites ==
  ASSUME SiteInv, UNCHANGED tables, NEW t, TxOK(t), Plain(t), Acceptable(disk, t),
         disk' = After(disk, t), late' = late \/ late' = Null
  PROVE  /\ DiskOK(disk)' /\ KnownInv' /\ SyncInv'
         /\ \A s \in Live : \A on \in BOOLEAN : Installed(s, on) => Installed(s, on)'
<1> USE DEF tables
<1>1. DiskOK(disk) /\ DiskOK(disk')
  BY AfterOK DEF SiteInv
<1>2. \A p \in Confs : Protected(disk'.conf[p]) <=> Protected(disk.conf[p])
  BY <1>1, PlainKeeps
<1>3. \A s \in SiteIds : disk'.page[s] = disk.page[s]
  BY <1>1, PlainKeeps
<1>4. \A s \in Live : (InMaintenance(s)' <=> InMaintenance(s)) /\ s \in SiteIds /\ rows[s].conf \in Confs
  BY <1>2, LiveRow DEF SiteInv, InMaintenance, ConfOf, Protected
<1>5. KnownInv'
  BY <1>2 DEF SiteInv, KnownInv, Live, Blocked
<1>6. SyncInv'
  BY <1>3, <1>4 DEF SiteInv, SyncInv, Live, Effective
<1>7. \A s \in Live : \A on \in BOOLEAN : Installed(s, on) => Installed(s, on)'
  BY <1>3, <1>4 DEF Installed, Effective
<1>8. DiskOK(disk)'
  BY <1>1 DEF DiskOK
<1>9. QED
  BY <1>5, <1>6, <1>7, <1>8

(* One that moves a pending site.                                          *)
LEMMA MoveWrites ==
  ASSUME SiteInv, UNCHANGED tables, NEW t, TxOK(t), disk' = After(disk, t),
         NEW s0 \in Live, states[s0].pending, DOMAIN t.conf = {rows[s0].conf}, DOMAIN t.page \subseteq {s0}
  PROVE  /\ DiskOK(disk)' /\ KnownInv' /\ SyncInv'
         /\ \A s \in Live : s # s0 =>
              (InMaintenance(s)' <=> InMaintenance(s)) /\ disk'.page[s] = disk.page[s]
<1> USE DEF tables
<1>1. DiskOK(disk) /\ DiskOK(disk')
  BY AfterOK DEF SiteInv
<1>2. \A p \in Confs : p # rows[s0].conf => disk'.conf[p] = disk.conf[p]
  BY <1>1, AfterOK
<1>3. \A s \in SiteIds : s # s0 => disk'.page[s] = disk.page[s]
  BY <1>1, AfterOK
<1>4. \A s \in Live : s # s0 => rows[s].conf # rows[s0].conf
  BY DEF SiteInv, RowsInv
<1>5. \A s \in Live : s \in SiteIds /\ rows[s].conf \in Confs
  BY LiveRow DEF SiteInv
<1>6. \A s \in Live : s # s0 =>
        (InMaintenance(s)' <=> InMaintenance(s)) /\ disk'.page[s] = disk.page[s]
  BY <1>2, <1>3, <1>4, <1>5 DEF InMaintenance, ConfOf
<1>7. KnownInv'
  <2>1. ASSUME NEW p \in Confs, Protected(disk'.conf[p])
        PROVE  \E s \in Live : rows[s].conf = p /\ Blocked(s)
    <3>1. CASE p = rows[s0].conf
      BY <3>1 DEF Blocked
    <3>2. CASE p # rows[s0].conf
      BY <1>2, <2>1, <3>2 DEF SiteInv, KnownInv
    <3>3. QED
      BY <3>1, <3>2
  <2>2. QED
    BY <2>1 DEF KnownInv, Live, Blocked
<1>8. SyncInv'
  BY <1>6 DEF SiteInv, SyncInv, Live, Effective
<1>9. DiskOK(disk)'
  BY <1>1 DEF DiskOK
<1>10. QED
  BY <1>6, <1>7, <1>8, <1>9

LEMMA CallInv ==
  ASSUME SiteInv, Call
  PROVE  SiteInv'
<1>1. /\ http # Null /\ http.pc = "call" /\ late = Null /\ UNCHANGED <<tables, job, late>>
  BY DEF Call
<1>2. /\ TablesOK' /\ RowsInv' /\ JobInv' /\ LateInv' /\ SpentOK'
  <2>1. SpentOK' /\ spent'.ids = spent.ids
    BY DEF Call, Fault, SiteInv, SpentOK
  <2>2. TablesOK' /\ RowsInv' /\ JobInv' /\ LateInv'
    BY <1>1, <2>1 DEF SiteInv, TablesOK, RowsInv, JobInv, LateInv, Live, tables, TxOK, Plain
  <2>3. QED
    BY <2>1, <2>2
<1>3. /\ http.op \in Ops \ {"defaults"} /\ http.site \in SiteIds /\ TxOK(http.tx)
      /\ spent'.ids = spent.ids
  BY <1>1 DEF SiteInv, HttpInv, Call, Fault, SpentOK
<1>4. PICK t : t = http.tx
  OBVIOUS
<1>5. ASSUME NEW pc, http' = [http EXCEPT !.pc = pc], pc \in {"done", "failed"},
             http.op = "maintain" /\ pc = "done" => Installed(http.site, http.want)'
      PROVE  HttpInv'
  <2>1. /\ http'.op = http.op /\ http'.pc = pc /\ http'.site = http.site /\ http'.tx = http.tx
        /\ http'.row = http.row /\ http'.todo = http.todo /\ http'.want = http.want
    BY <1>5
  <2>2. UNCHANGED <<rows, states, default>> /\ Live' = Live /\ spent'.ids = spent.ids
    BY <1>1, <1>3 DEF tables, Live
  <2>3. PICK s : s = http.site
    OBVIOUS
  <2>4. Blocked(s)' <=> Blocked(s)
    BY <2>2 DEF Blocked
  <2>5. TxOK(http'.tx) /\ (Plain(http'.tx) <=> Plain(http.tx))
    BY <1>3, <2>1
  <2>6. http.op = "maintain" /\ pc = "done" => Installed(s, http.want)'
    BY <1>5, <2>3
  <2>7. QED
    BY <1>1, <1>3, <1>5, <2>1, <2>2, <2>3, <2>4, <2>5, <2>6
    DEF SiteInv, HttpInv, TxOK, Plain, Installed, InMaintenance, ConfOf, Effective
<1>6. CASE http' = [http EXCEPT !.pc = "failed"] /\ UNCHANGED disk
  <2>1. HttpInv'
    BY <1>5, <1>6
  <2>2. KnownInv' /\ SyncInv' /\ DiskOK(disk)'
    BY <1>1, <1>6 DEF SiteInv, KnownInv, SyncInv, DiskOK, tables, Live, Blocked, InMaintenance, ConfOf, Effective
  <2>3. QED
    BY <1>2, <2>1, <2>2 DEF SiteInv
<1>7. CASE Acceptable(disk, http.tx) /\ disk' = After(disk, http.tx) /\ http' = [http EXCEPT !.pc = "done"]
  <2>1. Acceptable(disk, t) /\ disk' = After(disk, t) /\ TxOK(t)
    BY <1>3, <1>4, <1>7
  <2>2. CASE http.op # "maintain"
    <3>1. Plain(t)
      BY <1>1, <1>3, <1>4, <2>2 DEF SiteInv, HttpInv
    <3>2. DiskOK(disk)' /\ KnownInv' /\ SyncInv'
      BY <1>1, <2>1, <3>1, PlainWrites
    <3>3. HttpInv'
      BY <1>5, <1>7, <2>2
    <3>4. QED
      BY <1>2, <3>2, <3>3 DEF SiteInv
  <2>3. CASE http.op = "maintain"
    <3>1. PICK s0 \in Live : s0 = http.site
      BY <1>1, <2>3 DEF SiteInv, HttpInv
    <3>2. PICK on \in BOOLEAN : on = http.want
      BY <1>1, <2>3 DEF SiteInv, HttpInv
    <3>3. states[s0].pending /\ Moves(t, s0, on)
      BY <1>1, <1>4, <2>3, <3>1, <3>2 DEF SiteInv, HttpInv
    <3>4. DiskOK(disk)' /\ KnownInv' /\ SyncInv'
      BY <1>1, <2>1, <3>3, MoveWrites DEF Moves
    <3>5. Installed(s0, on)'
      <4>1. /\ disk'.conf[rows[s0].conf] = t.conf[rows[s0].conf]
            /\ on => disk'.page[s0] = t.page[s0]
        BY <2>1, <3>3, AfterOK, LiveRow DEF SiteInv, Moves
      <4>2. UNCHANGED <<rows, states, default>>
        BY <1>1 DEF tables
      <4>3. ConfOf(s0)' # Absent /\ (ConfOf(s0)').maint = on
        BY <3>3, <4>1, <4>2, SitesAssumption DEF Moves, ConfOf
      <4>4. on => disk'.page[s0] = Effective(states[s0].html)'
        BY <3>3, <4>1, <4>2 DEF Moves, Effective
      <4>5. QED
        BY <1>1, <4>3, <4>4 DEF Installed, InMaintenance
    <3>6. HttpInv'
      BY <1>5, <1>7, <3>1, <3>2, <3>5
    <3>7. QED
      BY <1>2, <3>4, <3>6 DEF SiteInv
  <2>4. QED
    BY <2>2, <2>3
<1>8. QED
  BY <1>6, <1>7 DEF Call

(* The request that is on its way may be anything the agent still does.    *)
LEMMA GivenUp ==
  ASSUME SiteInv, http # Null, http.pc = "call"
  PROVE  TxOK(http.tx) /\ (~Plain(http.tx) => \E s \in Live :
           states[s].pending /\ DOMAIN http.tx.conf = {rows[s].conf} /\ DOMAIN http.tx.page \subseteq {s})
<1>1. http.op \in Ops \ {"defaults"} /\ TxOK(http.tx)
  BY DEF SiteInv, HttpInv
<1>2. CASE http.op # "maintain"
  BY <1>1, <1>2 DEF SiteInv, HttpInv
<1>3. CASE http.op = "maintain"
  <2>1. PICK s \in Live : s = http.site
    BY <1>3 DEF SiteInv, HttpInv
  <2>2. states[s].pending /\ Moves(http.tx, s, http.want)
    BY <1>3, <2>1 DEF SiteInv, HttpInv
  <2>3. QED
    BY <1>1, <2>2 DEF Moves
<1>4. QED
  BY <1>2, <1>3

LEMMA SpentLost ==
  ASSUME SpentOK, Lost
  PROVE  SpentOK' /\ spent'.ids = spent.ids /\ spent'.lost
<1>1. spent' = [spent EXCEPT !.faults = @ + 1, !.lost = TRUE]
  BY DEF Lost
<1>2. PICK n \in Nat : n = spent.faults + 1
  BY DEF SpentOK
<1>3. spent' = [spent EXCEPT !.faults = n, !.lost = TRUE]
  BY <1>1, <1>2
<1>4. SpentOK'
  BY <1>3 DEF SpentOK
<1>5. spent'.ids = spent.ids /\ spent'.lost
  BY <1>3 DEF SpentOK
<1>6. QED
  BY <1>4, <1>5

(* Steps that only change who waits for what.                              *)
LEMMA TablesStay ==
  ASSUME SiteInv, UNCHANGED <<tables, disk>>, SpentOK', spent'.ids = spent.ids,
         HttpInv', JobInv', LateInv'
  PROVE  SiteInv'
<1> USE DEF tables
<1>1. TablesOK' /\ DiskOK(disk)'
  BY DEF SiteInv, TablesOK, DiskOK
<1>2. RowsInv'
  BY DEF SiteInv, RowsInv, Live
<1>3. KnownInv'
  BY DEF SiteInv, KnownInv, Live, Blocked
<1>4. SyncInv'
  BY DEF SiteInv, SyncInv, Live, InMaintenance, ConfOf, Effective
<1>5. QED
  BY <1>1, <1>2, <1>3, <1>4 DEF SiteInv

LEMMA GiveUpInv ==
  ASSUME SiteInv, GiveUp
  PROVE  SiteInv'
<1>1. /\ http # Null /\ http.pc = "call" /\ late' = http.tx /\ http' = [http EXCEPT !.pc = "failed"]
      /\ Lost /\ UNCHANGED <<tables, disk, job>>
  BY DEF GiveUp
<1>2. SpentOK' /\ spent'.ids = spent.ids
  BY <1>1, SpentLost DEF SiteInv
<1>3. Live' = Live /\ UNCHANGED <<rows, states, default>>
  BY <1>1 DEF tables, Live
<1>4. LateInv'
  <2>1. PICK t : t = http.tx
    OBVIOUS
  <2>2. TxOK(t) /\ (~Plain(t) => \E s \in Live :
           states[s].pending /\ DOMAIN t.conf = {rows[s].conf} /\ DOMAIN t.page \subseteq {s})
    BY <1>1, <2>1, GivenUp
  <2>3. late' = t
    BY <1>1, <2>1
  <2>4. QED
    BY <1>3, <2>2, <2>3 DEF LateInv, TxOK, Plain
<1>5. HttpInv'
  <2>1. /\ http'.op = http.op /\ http'.pc = "failed" /\ http'.site = http.site /\ http'.tx = http.tx
        /\ http'.row = http.row /\ http'.todo = http.todo /\ http'.want = http.want
    BY <1>1 DEF SiteInv, HttpInv
  <2>2. PICK s : s = http.site
    OBVIOUS
  <2>3. Blocked(s)' <=> Blocked(s)
    BY <1>3 DEF Blocked
  <2>4. QED
    BY <1>1, <1>2, <1>3, <2>1, <2>2, <2>3 DEF SiteInv, HttpInv, TxOK, Plain
<1>6. JobInv'
  BY <1>1 DEF SiteInv, JobInv, TxOK, Plain
<1>7. QED
  BY <1>1, <1>2, <1>4, <1>5, <1>6, TablesStay

(* What the other request knows stays so while the work is in the hands of *)
(* the agent.                                                              *)
LEMMA HttpStays ==
  ASSUME SiteInv, UNCHANGED <<states, default, http>>, spent'.ids = spent.ids, Live' = Live,
         \A s \in Live : rows'[s].conf = rows[s].conf /\ rows'[s].flag = rows[s].flag,
         \A s \in Live : \A on \in BOOLEAN :
           (s = http.site /\ http.op = "maintain") /\ Installed(s, on) => Installed(s, on)'
  PROVE  HttpInv'
<1>1. \A s \in Live : Blocked(s)' <=> Blocked(s)
  BY DEF Blocked
<1>2. \A s \in Live : \A on : Moves(http.tx, s, on) => Moves(http.tx, s, on)'
  BY DEF Moves, Effective
<1>3. http # Null /\ http.op = "maintain" /\ http.pc = "done" => Installed(http.site, http.want)'
  <2> SUFFICES ASSUME http # Null, http.op = "maintain", http.pc = "done"
               PROVE  Installed(http.site, http.want)'
    OBVIOUS
  <2>1. PICK s \in Live : s = http.site
    BY DEF SiteInv, HttpInv
  <2>2. PICK on \in BOOLEAN : on = http.want
    BY DEF SiteInv, HttpInv
  <2>3. Installed(s, on)
    BY <2>1, <2>2 DEF SiteInv, HttpInv
  <2>4. Installed(s, on)'
    BY <2>1, <2>3
  <2>5. s = http'.site /\ on = http'.want
    BY <2>1, <2>2
  <2>6. QED
    BY <2>4, <2>5
<1>4. QED
  BY <1>1, <1>2, <1>3 DEF SiteInv, HttpInv, TxOK, Plain

LEMMA JobGivesUpInv ==
  ASSUME SiteInv, JobGivesUp
  PROVE  SiteInv'
<1>1. /\ job # Null /\ late = Null /\ late' = job.tx /\ job' = Null
      /\ Lost /\ UNCHANGED <<tables, disk, http>>
  BY DEF JobGivesUp
<1>2. SpentOK' /\ spent'.ids = spent.ids
  BY <1>1, SpentLost DEF SiteInv
<1>3. Live' = Live /\ UNCHANGED <<rows, states, default>>
  BY <1>1 DEF tables, Live
<1>4. TxOK(late') /\ Plain(late')
  BY <1>1 DEF SiteInv, JobInv
<1>5. LateInv'
  BY <1>4 DEF LateInv, TxOK, Plain
<1>6. \A s \in Live : \A on \in BOOLEAN : Installed(s, on) => Installed(s, on)'
  BY <1>1, <1>3, <1>4 DEF Installed, InMaintenance, ConfOf, Effective, Plain
<1>7. HttpInv'
  BY <1>1, <1>2, <1>3, <1>6, HttpStays
<1>8. JobInv'
  BY <1>1 DEF JobInv
<1>9. QED
  BY <1>1, <1>2, <1>5, <1>7, <1>8, TablesStay

LEMMA CrashInv ==
  ASSUME SiteInv, Crash
  PROVE  SiteInv'
<1>1. /\ Lost /\ http' = Null /\ job' = Null /\ UNCHANGED <<tables, disk>>
  BY DEF Crash
<1>2. SpentOK' /\ spent'.ids = spent.ids
  BY <1>1, SpentLost DEF SiteInv
<1>3. Live' = Live /\ UNCHANGED <<rows, states, default>>
  BY <1>1 DEF tables, Live
<1>4. LateInv'
  <2>1. CASE UNCHANGED late
    BY <1>3, <2>1 DEF SiteInv, LateInv, TxOK, Plain
  <2>2. ASSUME NEW caller \in {http, job} \ {Null}, caller.pc = "call", late' = caller.tx
        PROVE  LateInv'
    <3>1. PICK t : t = caller.tx
      OBVIOUS
    <3>2. TxOK(t) /\ (~Plain(t) => \E s \in Live :
             states[s].pending /\ DOMAIN t.conf = {rows[s].conf} /\ DOMAIN t.page \subseteq {s})
      <4>1. CASE caller = http
        BY <2>2, <3>1, <4>1, GivenUp
      <4>2. CASE caller = job
        BY <3>1, <4>2 DEF SiteInv, JobInv
      <4>3. QED
        BY <4>1, <4>2
    <3>3. late' = t
      BY <2>2, <3>1
    <3>4. QED
      BY <1>3, <3>2, <3>3 DEF LateInv, TxOK, Plain
  <2>3. QED
    BY <2>1, <2>2 DEF Crash
<1>5. HttpInv' /\ JobInv'
  BY <1>1 DEF HttpInv, JobInv
<1>6. QED
  BY <1>1, <1>2, <1>4, <1>5, TablesStay

(* The agent ends what nobody waits for.                                   *)
LEMMA LateEndsInv ==
  ASSUME SiteInv, LateEnds
  PROVE  SiteInv'
<1>1. late # Null /\ late' = Null /\ UNCHANGED <<tables, http, job, spent>>
  BY DEF LateEnds
<1>2. Live' = Live /\ UNCHANGED <<rows, states, default>>
  BY <1>1 DEF tables, Live
<1>3. TablesOK' /\ SpentOK' /\ RowsInv' /\ JobInv' /\ LateInv'
  BY <1>1, <1>2 DEF SiteInv, TablesOK, SpentOK, RowsInv, JobInv, LateInv, TxOK, Plain
<1>4. PICK t : t = late
  OBVIOUS
<1>5. TxOK(t)
  BY <1>1, <1>4 DEF SiteInv, LateInv
<1>6. CASE ~Acceptable(disk, t)
  <2>1. UNCHANGED disk
    BY <1>4, <1>6 DEF LateEnds
  <2>2. KnownInv' /\ SyncInv' /\ DiskOK(disk)'
    BY <1>1, <1>2, <2>1 DEF SiteInv, KnownInv, SyncInv, DiskOK, Live, Blocked, InMaintenance, ConfOf, Effective
  <2>3. \A s \in Live : \A on \in BOOLEAN : Installed(s, on) => Installed(s, on)'
    BY <1>1, <1>2, <2>1 DEF Installed, InMaintenance, ConfOf, Effective
  <2>4. HttpInv'
    BY <1>1, <1>2, <2>3, HttpStays
  <2>5. QED
    BY <1>3, <2>2, <2>4 DEF SiteInv
<1>7. CASE Acceptable(disk, t) /\ Plain(t)
  <2>1. disk' = After(disk, t)
    BY <1>4, <1>7 DEF LateEnds
  <2>2. /\ KnownInv' /\ SyncInv' /\ DiskOK(disk)'
        /\ \A s \in Live : \A on \in BOOLEAN : Installed(s, on) => Installed(s, on)'
    BY <1>1, <1>5, <1>7, <2>1, PlainWrites
  <2>3. HttpInv'
    BY <1>1, <1>2, <2>2, HttpStays
  <2>4. QED
    BY <1>3, <2>2, <2>3 DEF SiteInv
<1>8. CASE Acceptable(disk, t) /\ ~Plain(t)
  <2>1. disk' = After(disk, t)
    BY <1>4, <1>8 DEF LateEnds
  <2>2. PICK s0 \in Live :
          states[s0].pending /\ DOMAIN t.conf = {rows[s0].conf} /\ DOMAIN t.page \subseteq {s0}
    BY <1>1, <1>4, <1>8 DEF SiteInv, LateInv
  <2>3. /\ KnownInv' /\ SyncInv' /\ DiskOK(disk)'
        /\ \A s \in Live : s # s0 =>
             (InMaintenance(s)' <=> InMaintenance(s)) /\ disk'.page[s] = disk.page[s]
    BY <1>1, <1>5, <2>1, <2>2, MoveWrites
  <2>4. \A s \in Live : \A on \in BOOLEAN : Installed(s, on) => Installed(s, on)'
    <3> SUFFICES ASSUME NEW s \in Live, NEW on \in BOOLEAN, Installed(s, on)
                 PROVE  Installed(s, on)'
      OBVIOUS
    <3>1. rows[s].conf \notin DOMAIN t.conf
      BY <1>1, <1>4, <1>8 DEF Installed
    <3>2. s # s0
      BY <2>2, <3>1
    <3>3. QED
      BY <1>1, <1>2, <2>3, <3>2 DEF Installed, Effective
  <2>5. HttpInv'
    BY <1>1, <1>2, <2>4, HttpStays
  <2>6. QED
    BY <1>3, <2>3, <2>5 DEF SiteInv
<1>9. QED
  BY <1>6, <1>7, <1>8

LEMMA SpentNoted ==
  ASSUME SpentOK, NEW b \in BOOLEAN, NoteStale(b) \/ NoteAstray(b)
  PROVE  SpentOK' /\ spent'.ids = spent.ids
BY DEF SpentOK, NoteStale, NoteAstray

LEMMA JobCallInv ==
  ASSUME SiteInv, JobCall
  PROVE  SiteInv'
<1>1. job # Null /\ late = Null /\ UNCHANGED <<tables, http, late>>
  BY DEF JobCall
<1>2. Live' = Live /\ UNCHANGED <<rows, states, default>>
  BY <1>1 DEF tables, Live
<1>3. SpentOK' /\ spent'.ids = spent.ids
  <2>1. CASE UNCHANGED spent
    BY <2>1 DEF SiteInv, SpentOK
  <2>2. CASE NoteStale(job.kind = "challenge" /\ StaleFile(job.tx))
    <3>1. PICK b \in BOOLEAN : b = (job.kind = "challenge" /\ StaleFile(job.tx))
      OBVIOUS
    <3>2. QED
      BY <2>2, <3>1, SpentNoted DEF SiteInv
  <2>3. QED
    BY <2>1, <2>2 DEF JobCall
<1>4. TablesOK' /\ RowsInv' /\ LateInv'
  BY <1>1, <1>2, <1>3 DEF SiteInv, TablesOK, RowsInv, LateInv
<1>5. JobInv'
  <2>1. CASE job' = Null
    BY <2>1 DEF JobInv
  <2>2. CASE job' = [job EXCEPT !.pc = "store"]
    <3>1. job'.site = job.site /\ job'.row = job.row /\ job'.tx = job.tx
      BY <2>2
    <3>2. QED
      BY <1>1, <3>1 DEF SiteInv, JobInv, TxOK, Plain
  <2>3. QED
    BY <2>1, <2>2 DEF JobCall
<1>6. PICK t : t = job.tx
  OBVIOUS
<1>7. TxOK(t) /\ Plain(t)
  BY <1>1, <1>6 DEF SiteInv, JobInv
<1>8. CASE Acceptable(disk, t) /\ disk' = After(disk, t)
  <2>1. /\ KnownInv' /\ SyncInv' /\ DiskOK(disk)'
        /\ \A s \in Live : \A on \in BOOLEAN : Installed(s, on) => Installed(s, on)'
    BY <1>1, <1>7, <1>8, PlainWrites
  <2>2. HttpInv'
    BY <1>1, <1>2, <1>3, <2>1, HttpStays
  <2>3. QED
    BY <1>3, <1>4, <1>5, <2>1, <2>2 DEF SiteInv
<1>9. CASE UNCHANGED disk
  <2>1. \A s \in Live : \A on \in BOOLEAN : Installed(s, on) => Installed(s, on)'
    BY <1>1, <1>2, <1>9 DEF Installed, InMaintenance, ConfOf, Effective
  <2>2. HttpInv'
    BY <1>1, <1>2, <1>3, <2>1, HttpStays
  <2>3. QED
    BY <1>1, <1>3, <1>4, <1>5, <1>9, <2>2, TablesStay
<1>10. QED
  BY <1>6, <1>8, <1>9 DEF JobCall

-----------------------------------------------------------------------------
(* The database.                                                           *)

(* SiteRepo.Update changes neither the paths nor the flag of any row, and  *)
(* makes none.                                                             *)
LEMMA OverwriteKeeps ==
  ASSUME TablesOK, NEW s \in SiteIds, NEW r \in Row, Overwrite(s, r)
  PROVE  /\ rows' \in [SiteIds -> Row \cup {Null}] /\ Live' = Live
         /\ \A o \in Live : /\ rows'[o].conf = rows[o].conf /\ rows'[o].flag = rows[o].flag
                            /\ rows'[o].name = rows[o].name
         /\ \A o \in SiteIds : o # s => rows'[o] = rows[o]
         /\ s \in Live => rows'[s] = rows[s] \/
              rows'[s] = [r EXCEPT !.flag = rows[s].flag, !.conf = rows[s].conf, !.name = rows[s].name]
<1>1. CASE UNCHANGED rows
  BY <1>1 DEF TablesOK, Live
<1>2. CASE ~UNCHANGED rows
  <2>1. s \in Live
    BY <1>2 DEF Overwrite
  <2>2. PICK old \in Row : old = rows[s]
    BY <2>1 DEF TablesOK, Live
  <2>3. PICK new : new = [r EXCEPT !.flag = old.flag, !.conf = old.conf, !.name = old.name]
    OBVIOUS
  <2>4. /\ new \in Row /\ new.conf = old.conf /\ new.flag = old.flag /\ new.name = old.name
    BY <2>3 DEF Row
  <2>5. rows' = [rows EXCEPT ![s] = new]
    BY <1>2, <2>2, <2>3 DEF Overwrite
  <2>6. rows' \in [SiteIds -> Row \cup {Null}] /\ rows'[s] = new
    BY <2>4, <2>5 DEF TablesOK
  <2>7. \A o \in SiteIds : o # s => rows'[o] = rows[o]
    BY <2>5 DEF TablesOK
  <2>8. new # Null
    BY <2>4, SitesAssumption
  <2>9. Live' = Live
    BY <2>1, <2>6, <2>7, <2>8 DEF Live
  <2>10. QED
    BY <2>1, <2>2, <2>3, <2>4, <2>6, <2>7, <2>9 DEF Live
<1>3. QED
  BY <1>1, <1>2

LEMMA OverwriteInv ==
  ASSUME SiteInv, NEW s \in SiteIds, NEW r \in Row, Overwrite(s, r),
         UNCHANGED <<states, default, disk, late>>, SpentOK', spent'.ids = spent.ids,
         http' = http \/ http' = Null, job' = job \/ job' = Null
  PROVE  SiteInv'
<1>1. /\ TablesOK' /\ Live' = Live
      /\ \A o \in Live : /\ rows'[o].conf = rows[o].conf /\ rows'[o].flag = rows[o].flag
                         /\ rows'[o].name = rows[o].name
  BY OverwriteKeeps DEF SiteInv, TablesOK
<1>2. \A o \in SiteIds : o \in Live <=> rows[o] # Null
  BY DEF Live
<1>3. RowsInv'
  <2>1. \A o \in SiteIds : rows'[o] = Null => states'[o] = Rowless
    BY <1>1 DEF SiteInv, RowsInv, Live
  <2>2. QED
    BY <1>1, <2>1 DEF SiteInv, RowsInv
<1>4. \A o \in Live : Blocked(o)' <=> Blocked(o)
  BY <1>1 DEF Blocked
<1>5. \A o \in Live : (InMaintenance(o)' <=> InMaintenance(o))
  BY <1>1 DEF InMaintenance, ConfOf
<1>6. KnownInv'
  BY <1>1, <1>4 DEF SiteInv, KnownInv
<1>7. SyncInv'
  BY <1>1, <1>5 DEF SiteInv, SyncInv, Effective
<1>8. LateInv'
  BY <1>1 DEF SiteInv, LateInv, TxOK, Plain
<1>9. DiskOK(disk)'
  BY DEF SiteInv, DiskOK
<1>10. JobInv'
  BY DEF SiteInv, JobInv, TxOK, Plain
<1>11. HttpInv'
  <2>1. CASE http' = Null
    BY <2>1 DEF HttpInv
  <2>2. CASE http' = http
    <3>1. \A o \in Live : \A on \in BOOLEAN : Installed(o, on) => Installed(o, on)'
      BY <1>1, <1>5 DEF Installed, Effective
    <3>2. QED
      BY <1>1, <2>2, <3>1, HttpStays
  <2>3. QED
    BY <2>1, <2>2
<1>12. QED
  BY <1>1, <1>3, <1>6, <1>7, <1>8, <1>9, <1>10, <1>11 DEF SiteInv

LEMMA FinishEditInv ==
  ASSUME SiteInv, FinishEdit
  PROVE  SiteInv'
<1>1. PICK s \in SiteIds : s = http.site
  BY DEF FinishEdit, Finishing, SiteInv, HttpInv
<1>2. PICK r \in Row : r = http.row
  BY DEF FinishEdit, Finishing, SiteInv, HttpInv
<1>3. Overwrite(s, r)
  BY <1>1, <1>2 DEF FinishEdit
<1>4. SpentOK' /\ spent'.ids = spent.ids
  BY DEF FinishEdit, SiteInv, SpentOK
<1>5. QED
  BY <1>3, <1>4, OverwriteInv DEF FinishEdit, EndRequest

LEMMA RefreshInv ==
  ASSUME SiteInv, RefreshLogPaths
  PROVE  SiteInv'
<1>1. job # Null /\ job' = Null /\ UNCHANGED <<states, default, disk, http, late>>
  BY DEF RefreshLogPaths
<1>2. PICK s \in SiteIds : s = job.site
  BY <1>1 DEF SiteInv, JobInv
<1>3. PICK row \in Row : row = job.row
  BY <1>1 DEF SiteInv, JobInv
<1>4. PICK body : body = disk.conf[row.conf]
  OBVIOUS
<1>5. CASE UNCHANGED <<rows, spent>>
  <2>1. SpentOK' /\ HttpInv' /\ JobInv'
    <3>1. \A o \in Live : \A on \in BOOLEAN : Installed(o, on) => Installed(o, on)'
      BY <1>1, <1>5 DEF Installed, InMaintenance, ConfOf, Effective
    <3>2. HttpInv'
      BY <1>1, <1>5, <3>1, HttpStays DEF Live
    <3>3. QED
      BY <1>1, <1>5, <3>2 DEF SiteInv, SpentOK, JobInv
  <2>2. QED
    BY <1>1, <1>5, <2>1, QuietStep DEF tables
<1>6. CASE ~UNCHANGED <<rows, spent>>
  <2>1. body # Absent
    BY <1>3, <1>4, <1>6 DEF RefreshLogPaths
  <2>2. body \in Body
    BY <1>4, <2>1 DEF SiteInv, DiskOK, Row
  <2>3. PICK new \in Row : new = [row EXCEPT !.logs = body.text]
    BY <2>2 DEF Row, Body
  <2>4. Overwrite(s, new) /\ NoteStale(StaleRow(s, new))
    BY <1>2, <1>3, <1>4, <1>6, <2>3 DEF RefreshLogPaths
  <2>5. StaleRow(s, new) \in BOOLEAN
    BY DEF StaleRow
  <2>6. SpentOK' /\ spent'.ids = spent.ids
    BY <2>4, <2>5, SpentNoted DEF SiteInv
  <2>7. QED
    BY <1>1, <2>4, <2>6, OverwriteInv
<1>7. QED
  BY <1>5, <1>6

LEMMA DeployFinishInv ==
  ASSUME SiteInv, DeployFinish
  PROVE  SiteInv'
<1>1. job # Null /\ job' = Null /\ UNCHANGED <<states, default, disk, http, late>>
  BY DEF DeployFinish
<1>2. PICK s \in SiteIds : s = job.site
  BY <1>1 DEF SiteInv, JobInv
<1>3. PICK row \in Row : row = job.row
  BY <1>1 DEF SiteInv, JobInv
<1>4. Overwrite(s, row) /\ NoteStale(StaleRow(s, row))
  BY <1>2, <1>3 DEF DeployFinish
<1>5. StaleRow(s, row) \in BOOLEAN
  BY DEF StaleRow
<1>6. SpentOK' /\ spent'.ids = spent.ids
  BY <1>4, <1>5, SpentNoted DEF SiteInv
<1>7. QED
  BY <1>1, <1>4, <1>6, OverwriteInv

LEMMA FinishCreateInv ==
  ASSUME SiteInv, FinishCreate
  PROVE  SiteInv'
<1>1. http # Null /\ http.op = "create" /\ http' = Null /\ UNCHANGED <<states, default, disk, job, late, spent>>
  BY DEF FinishCreate, Finishing, EndRequest
<1>2. PICK s \in SiteIds : s = http.site
  BY <1>1 DEF SiteInv, HttpInv
<1>3. PICK r \in Row : r = http.row
  BY <1>1 DEF SiteInv, HttpInv
<1>4. ~r.flag /\ s \in spent.ids /\ rows[s] = Null /\ states[s] = Rowless
  BY <1>1, <1>2, <1>3 DEF SiteInv, HttpInv, RowsInv, Live
<1>5. CASE UNCHANGED rows
  <2>1. HttpInv' /\ JobInv' /\ SpentOK'
    BY <1>1 DEF HttpInv, SiteInv, JobInv, SpentOK, TxOK, Plain
  <2>2. QED
    BY <1>1, <1>5, <2>1, QuietStep DEF tables
<1>6. CASE ~UNCHANGED rows
  <2>1. Unique(s, r) /\ rows' = [rows EXCEPT ![s] = r]
    BY <1>2, <1>3, <1>6 DEF FinishCreate, Insert
  <2>2. /\ rows' \in [SiteIds -> Row \cup {Null}] /\ rows'[s] = r
        /\ \A o \in SiteIds : o # s => rows'[o] = rows[o]
    BY <2>1 DEF SiteInv, TablesOK
  <2>3. r # Null /\ s \notin Live
    BY <1>4, SitesAssumption DEF Live
  <2>4. Live' = Live \cup {s}
    BY <2>2, <2>3 DEF Live
  <2>5. \A o \in Live : rows'[o] = rows[o] /\ o # s /\ o \in SiteIds
    BY <2>2, <2>3 DEF Live
  <2>6. TablesOK' /\ DiskOK(disk)' /\ SpentOK'
    BY <1>1, <2>2 DEF SiteInv, TablesOK, DiskOK, SpentOK
  <2>7. RowsInv'
    <3>1. Live' \subseteq spent'.ids
      BY <1>1, <1>4, <2>4 DEF SiteInv, RowsInv
    <3>2. \A o, q \in Live' : o # q => rows'[o].conf # rows'[q].conf /\ rows'[o].name # rows'[q].name
      <4>1. \A o \in Live : rows[o].conf # r.conf /\ rows[o].name # r.name
        BY <2>1, <2>5 DEF Unique
      <4>2. QED
        BY <2>2, <2>4, <2>5, <4>1 DEF SiteInv, RowsInv
    <3>3. \A o \in SiteIds : rows'[o] = Null => states'[o] = Rowless
      BY <1>1, <2>2, <2>3 DEF SiteInv, RowsInv
    <3>4. \A o \in Live' : ~states'[o].pending => rows'[o].flag = states'[o].desired
      <4>1. rows'[s].flag = FALSE /\ states'[s].desired = FALSE
        BY <1>1, <1>3, <1>4, <2>2 DEF Rowless, Row
      <4>2. \A o \in Live : states'[o] = states[o]
        BY <1>1
      <4>3. QED
        BY <2>4, <2>5, <4>1, <4>2 DEF SiteInv, RowsInv
    <3>5. QED
      BY <3>1, <3>2, <3>3, <3>4 DEF RowsInv
  <2>8. KnownInv'
    BY <1>1, <2>4, <2>5 DEF SiteInv, KnownInv, Blocked
  <2>9. SyncInv'
    BY <1>1, <1>4, <2>2, <2>4, <2>5 DEF SiteInv, SyncInv, InMaintenance, ConfOf, Effective
  <2>10. LateInv'
    BY <1>1, <2>4, <2>5 DEF SiteInv, LateInv, TxOK, Plain
  <2>11. HttpInv' /\ JobInv'
    BY <1>1 DEF HttpInv, SiteInv, JobInv, TxOK, Plain
  <2>12. QED
    BY <2>6, <2>7, <2>8, <2>9, <2>10, <2>11 DEF SiteInv
<1>7. QED
  BY <1>5, <1>6

(* UpdateStatus.                                                           *)
LEMMA StatusWritten ==
  ASSUME SiteInv, NEW s \in Live, NEW on \in BOOLEAN, rows' = [rows EXCEPT ![s].enabled = on],
         http' = Null, UNCHANGED <<states, default, disk, job, late>>, SpentOK',
         spent'.ids = spent.ids
  PROVE  SiteInv'
<1>1. PICK old \in Row : old = rows[s]
  BY LiveRow DEF SiteInv
<1>2. PICK new \in Row : new = [old EXCEPT !.enabled = on]
  BY DEF Row
<1>3. new.conf = old.conf /\ new.name = old.name /\ new.flag = old.flag /\ new # Null
  BY <1>2, SitesAssumption DEF Row
<1>4. rows' = [rows EXCEPT ![s] = new]
  BY <1>1, <1>2
<1>5. /\ rows' \in [SiteIds -> Row \cup {Null}] /\ rows'[s] = new
      /\ \A o \in SiteIds : o # s => rows'[o] = rows[o]
  BY <1>4 DEF SiteInv, TablesOK, Live
<1>6. /\ Live' = Live
      /\ \A o \in Live : /\ rows'[o].conf = rows[o].conf /\ rows'[o].flag = rows[o].flag
                         /\ rows'[o].name = rows[o].name
  BY <1>1, <1>3, <1>5 DEF Live
<1>7. TablesOK' /\ DiskOK(disk)'
  BY <1>5 DEF SiteInv, TablesOK, DiskOK
<1>8. RowsInv'
  <2>1. \A o \in SiteIds : rows'[o] = Null => states'[o] = Rowless
    BY <1>3, <1>5 DEF SiteInv, RowsInv
  <2>2. QED
    BY <1>6, <2>1 DEF SiteInv, RowsInv
<1>9. KnownInv'
  BY <1>6 DEF SiteInv, KnownInv, Blocked
<1>10. SyncInv'
  BY <1>6 DEF SiteInv, SyncInv, InMaintenance, ConfOf, Effective
<1>11. LateInv' /\ HttpInv' /\ JobInv'
  BY <1>6 DEF SiteInv, LateInv, HttpInv, JobInv, TxOK, Plain
<1>12. QED
  BY <1>7, <1>8, <1>9, <1>10, <1>11 DEF SiteInv

LEMMA FinishStatusInv ==
  ASSUME SiteInv, FinishEnable \/ FinishDisable
  PROVE  SiteInv'
<1>1. PICK s \in Live : s = http.site
  BY DEF FinishEnable, FinishDisable, Finishing, SiteInv, HttpInv
<1>2. SpentOK' /\ spent'.ids = spent.ids
  <2>1. CASE FinishEnable
    <3>1. PICK b \in BOOLEAN : b = Renamed(rows[http.site])
      BY DEF Renamed
    <3>2. QED
      BY <2>1, <3>1, SpentNoted DEF SiteInv, FinishEnable
  <2>2. CASE FinishDisable
    BY <2>2 DEF FinishDisable, SiteInv, SpentOK
  <2>3. QED
    BY <2>1, <2>2
<1>3. PICK on \in BOOLEAN : rows' = [rows EXCEPT ![s].enabled = on]
  BY <1>1 DEF FinishEnable, FinishDisable
<1>4. http' = Null /\ UNCHANGED <<states, default, disk, job, late>>
  BY DEF FinishEnable, FinishDisable, EndRequest
<1>5. QED
  BY <1>2, <1>3, <1>4, StatusWritten

LEMMA FinishDeleteInv ==
  ASSUME SiteInv, FinishDelete
  PROVE  SiteInv'
<1>1. /\ http # Null /\ http.op = "delete" /\ http' = Null
      /\ UNCHANGED <<default, disk, job, late>>
  BY DEF FinishDelete, Finishing, EndRequest
<1>2. PICK s \in Live : s = http.site
  BY <1>1 DEF SiteInv, HttpInv
<1>3. ~Blocked(s)
  BY <1>1, <1>2 DEF SiteInv, HttpInv
<1>4. HttpInv' /\ JobInv'
  BY <1>1 DEF HttpInv, SiteInv, JobInv, TxOK, Plain
<1>5. CASE Kept /\ UNCHANGED <<rows, states>>
  <2>1. PICK n \in Nat : n = spent.faults + 1
    BY DEF SiteInv, SpentOK
  <2>2. spent' = [spent EXCEPT !.faults = n, !.astray = TRUE]
    BY <1>5, <2>1 DEF Kept
  <2>3. SpentOK'
    BY <2>2 DEF SpentOK, SiteInv
  <2>4. spent'.ids = spent.ids
    BY <2>2 DEF SpentOK, SiteInv
  <2>5. QED
    BY <1>1, <1>4, <1>5, <2>3, <2>4, QuietStep DEF tables
<1>6. CASE DeleteRow(s) /\ UNCHANGED spent
  <2>1. rows' = [rows EXCEPT ![s] = Null] /\ states' = [states EXCEPT ![s] = Rowless]
    BY <1>6 DEF DeleteRow
  <2>2. /\ rows' \in [SiteIds -> Row \cup {Null}] /\ rows'[s] = Null
        /\ \A o \in SiteIds : o # s => rows'[o] = rows[o]
    BY <2>1 DEF SiteInv, TablesOK, Live
  <2>3. /\ states' \in [SiteIds -> [desired : BOOLEAN, html : Htmls \cup {Null}, pending : BOOLEAN]]
        /\ states'[s] = Rowless /\ \A o \in SiteIds : o # s => states'[o] = states[o]
    BY <2>1 DEF SiteInv, TablesOK, Live, Rowless
  <2>4. Live' = Live \ {s}
    BY <2>2 DEF Live
  <2>5. \A o \in Live : o # s => rows'[o] = rows[o] /\ states'[o] = states[o]
    BY <2>2, <2>3 DEF Live
  <2>6. TablesOK' /\ DiskOK(disk)' /\ SpentOK'
    BY <1>1, <1>6, <2>2, <2>3 DEF SiteInv, TablesOK, DiskOK, SpentOK
  <2>7. RowsInv'
    <3>1. \A o \in SiteIds : rows'[o] = Null => states'[o] = Rowless
      BY <2>2, <2>3 DEF SiteInv, RowsInv
    <3>2. QED
      BY <1>6, <2>4, <2>5, <3>1 DEF SiteInv, RowsInv
  <2>8. KnownInv'
    BY <1>1, <1>3, <2>4, <2>5 DEF SiteInv, KnownInv, Blocked
  <2>9. SyncInv'
    BY <1>1, <2>4, <2>5 DEF SiteInv, SyncInv, InMaintenance, ConfOf, Effective
  <2>10. LateInv'
    BY <1>1, <1>3, <2>4, <2>5 DEF SiteInv, LateInv, TxOK, Plain, Blocked
  <2>11. QED
    BY <1>4, <2>6, <2>7, <2>8, <2>9, <2>10 DEF SiteInv
<1>7. QED
  BY <1>2, <1>5, <1>6 DEF FinishDelete

-----------------------------------------------------------------------------
(* Maintenance.                                                            *)

LEMMA TransitionOK ==
  ASSUME SiteInv, NEW s \in Live, ConfOf(s) # Absent, NEW on \in BOOLEAN,
         NEW html \in Htmls \cup {Null}, NEW todo \in SUBSET SiteIds, Maintain(s, on, html, todo)
  PROVE  /\ TxOK(http'.tx) /\ DOMAIN http'.tx.conf = {rows[s].conf} /\ http'.tx.conf[rows[s].conf] \in Body
         /\ http'.tx.conf[rows[s].conf].maint = on /\ http'.tx.conf[rows[s].conf].owner = ConfOf(s).owner
         /\ DOMAIN http'.tx.page = (IF on THEN {s} ELSE {}) /\ (on => http'.tx.page[s] = Effective(html))
         /\ DOMAIN http'.tx.link = {} /\ http'.tx.hash = ConfOf(s)
<1>1. PICK t : t = Transition(s, on, html)
  OBVIOUS
<1>2. PICK body \in Body : body = ConfOf(s)
  BY LiveRow DEF SiteInv
<1>3. PICK p \in Confs : p = rows[s].conf
  BY LiveRow DEF SiteInv
<1>4. PICK h \in Htmls : h = Effective(html)
  BY DEF Effective, SiteInv, TablesOK
<1>5. PICK new \in Body : new = [body EXCEPT !.maint = on] /\ new.maint = on /\ new.owner = body.owner
  <2>1. [body EXCEPT !.maint = on] \in Body
    BY DEF Body
  <2>2. [body EXCEPT !.maint = on].maint = on /\ [body EXCEPT !.maint = on].owner = body.owner
    BY DEF Body
  <2>3. QED
    BY <2>1, <2>2
<1>6. http'.tx = t
  BY <1>1 DEF Maintain
<1>7. s \in SiteIds
  BY DEF Live
<1>8. CASE on
  <2>1. t = [Write(p, new) EXCEPT !.page = [x \in {s} |-> h], !.hash = body, !.transition = TRUE]
    BY <1>2, <1>3, <1>4, <1>5, <1>8, <1>1 DEF Transition
  <2>2. /\ TxOK(t) /\ DOMAIN t.conf = {p} /\ t.conf[p] = new
        /\ DOMAIN t.page = {s} /\ t.page[s] = h /\ DOMAIN t.link = {} /\ t.hash = body
    BY <1>7, <2>1 DEF Write, Quiet, Nothing, TxOK
  <2>3. QED
    BY <1>2, <1>3, <1>4, <1>5, <1>8, <1>6, <2>2
<1>9. CASE ~on
  <2>1. t = [Write(p, new) EXCEPT !.page = Nothing, !.hash = body, !.transition = TRUE]
    BY <1>2, <1>3, <1>4, <1>5, <1>9, <1>1 DEF Transition
  <2>2. /\ TxOK(t) /\ DOMAIN t.conf = {p} /\ t.conf[p] = new
        /\ DOMAIN t.page = {} /\ DOMAIN t.link = {} /\ t.hash = body
    BY <2>1 DEF Write, Quiet, Nothing, TxOK
  <2>3. QED
    BY <1>2, <1>3, <1>5, <1>9, <1>6, <2>2
<1>10. QED
  BY <1>8, <1>9

LEMMA MaintainInv ==
  ASSUME SiteInv, NEW s \in Live, ConfOf(s) # Absent, NEW on \in BOOLEAN,
         NEW html \in Htmls \cup {Null}, NEW todo \in SUBSET SiteIds, Maintain(s, on, html, todo),
         UNCHANGED <<rows, default, disk, job, late>>, SpentOK', spent'.ids = spent.ids
  PROVE  SiteInv'
<1>1. PICK body \in Body : body = ConfOf(s)
  BY LiveRow DEF SiteInv
<1>2. PICK p \in Confs : p = rows[s].conf
  BY LiveRow DEF SiteInv
<1>3. s \in SiteIds /\ Live' = Live
  BY DEF Live
<1>4. PICK h \in Htmls : h = Effective(html)
  BY DEF Effective, SiteInv, TablesOK
<1>6. PICK t : t = http'.tx
  OBVIOUS
<1>7. /\ TxOK(t) /\ DOMAIN t.conf = {p} /\ t.conf[p] \in Body /\ t.conf[p].maint = on
      /\ DOMAIN t.page = (IF on THEN {s} ELSE {}) /\ (on => t.page[s] = h)
  BY <1>2, <1>4, <1>6, TransitionOK
<1>9. PICK pc : pc = IF OnlySettings(s, on) THEN "done" ELSE "call"
  OBVIOUS
<1>10. /\ http'.op = "maintain" /\ http'.pc = pc /\ http'.site = s /\ http'.tx = t
       /\ http'.want = on /\ http'.todo = todo
  BY <1>6, <1>9 DEF Maintain
<1>11. /\ states' \in [SiteIds -> [desired : BOOLEAN, html : Htmls \cup {Null}, pending : BOOLEAN]]
       /\ states'[s].pending /\ states'[s].desired = on /\ states'[s].html = html
       /\ \A o \in SiteIds : o # s => states'[o] = states[o]
  BY <1>3 DEF Maintain, Begin, SiteInv, TablesOK
<1>12. TablesOK' /\ DiskOK(disk)'
  BY <1>11 DEF SiteInv, TablesOK, DiskOK
<1>13. RowsInv'
  <2>1. \A o \in SiteIds : rows'[o] = Null => states'[o] = Rowless
    BY <1>11 DEF SiteInv, RowsInv, Live
  <2>2. \A o \in Live : ~states'[o].pending => rows'[o].flag = states'[o].desired
    BY <1>11 DEF SiteInv, RowsInv, Live
  <2>3. QED
    BY <1>3, <2>1, <2>2 DEF SiteInv, RowsInv
<1>14. \A o \in Live : Blocked(o) => Blocked(o)'
  BY <1>11 DEF Blocked, Live
<1>15. KnownInv'
  BY <1>3, <1>14 DEF SiteInv, KnownInv
<1>16. SyncInv'
  BY <1>3, <1>11 DEF SiteInv, SyncInv, Live, InMaintenance, ConfOf, Effective
<1>17. LateInv'
  BY <1>3, <1>11 DEF SiteInv, LateInv, TxOK, Plain, Live
<1>18. JobInv'
  BY DEF SiteInv, JobInv, TxOK, Plain
<1>19. Moves(t, s, on)'
  <2>1. Effective(states[s].html)' = h
    BY <1>4, <1>11 DEF Effective
  <2>2. QED
    BY <1>2, <1>7, <2>1 DEF Moves
<1>20. pc = "done" => Installed(s, on)'
  <2> SUFFICES ASSUME OnlySettings(s, on)
               PROVE  Installed(s, on)'
    BY <1>9
  <2>1. ~on /\ ~states[s].pending /\ ~InMaintenance(s)'
    BY DEF OnlySettings, InMaintenance, ConfOf
  <2>2. late # Null /\ ~Plain(late) => rows[s].conf \notin DOMAIN late.conf
    <3> SUFFICES ASSUME late # Null, ~Plain(late)
                 PROVE  rows[s].conf \notin DOMAIN late.conf
      OBVIOUS
    <3>1. PICK o \in Live : states[o].pending /\ DOMAIN late.conf = {rows[o].conf}
      BY DEF SiteInv, LateInv
    <3>2. o # s
      BY <2>1, <3>1
    <3>3. QED
      BY <3>1, <3>2 DEF SiteInv, RowsInv
  <2>3. QED
    BY <2>1, <2>2 DEF Installed, Plain
<1>21. HttpInv'
  <2>1. TxOK(http'.tx)
    BY <1>7, <1>10
  <2>2. s \in SiteIds /\ s \in Live'
    BY <1>3
  <2>3. pc = "call" => Moves(http.tx, http.site, http.want)'
    <3>1. t = http'.tx /\ s = http'.site /\ on = http'.want
      BY <1>10
    <3>2. QED
      BY <1>19, <3>1 DEF Moves, Effective
  <2>4. pc = "done" => Installed(http.site, http.want)'
    <3>1. s = http'.site /\ on = http'.want
      BY <1>10
    <3>2. QED
      BY <1>20, <3>1 DEF Installed, InMaintenance, ConfOf, Effective
  <2>5. QED
    BY <1>10, <1>11, <2>1, <2>2, <2>3, <2>4 DEF HttpInv, Ops, TxOK
<1>22. QED
  BY <1>12, <1>13, <1>15, <1>16, <1>17, <1>18, <1>21 DEF SiteInv

LEMMA StartMaintainInv ==
  ASSUME SiteInv, NEW s \in SiteIds, NEW on \in BOOLEAN, NEW html \in Htmls \cup {Null},
         StartMaintain(s, on, html)
  PROVE  SiteInv'
<1>1. /\ Serve /\ s \in Live /\ ConfOf(s) # Absent /\ Maintain(s, on, html, {})
      /\ UNCHANGED <<rows, default, disk, job, late>>
  BY DEF StartMaintain, MayMaintain
<1>2. SpentOK' /\ spent'.ids = spent.ids
  BY <1>1, SpentServe DEF SiteInv
<1>3. QED
  BY <1>1, <1>2, MaintainInv

LEMMA DefaultsNextInv ==
  ASSUME SiteInv, DefaultsNext
  PROVE  SiteInv'
<1>1. http # Null /\ UNCHANGED <<rows, default, disk, job, late, spent>>
  BY DEF DefaultsNext
<1>2. PICK s \in http.todo :
        IF MayMaintain(s, states[s].desired)
        THEN Maintain(s, states[s].desired, states[s].html, http.todo \ {s})
        ELSE NextOf(http.todo \ {s}) /\ UNCHANGED states
  BY DEF DefaultsNext
<1>3. PICK todo \in SUBSET SiteIds : todo = http.todo \ {s}
  BY <1>1 DEF SiteInv, HttpInv
<1>4. s \in SiteIds
  BY <1>1 DEF SiteInv, HttpInv
<1>5. SpentOK' /\ spent'.ids = spent.ids
  BY <1>1 DEF SiteInv, SpentOK
<1>6. CASE MayMaintain(s, states[s].desired)
  <2>1. PICK on \in BOOLEAN : on = states[s].desired
    BY <1>4 DEF SiteInv, TablesOK
  <2>2. PICK html \in Htmls \cup {Null} : html = states[s].html
    BY <1>4 DEF SiteInv, TablesOK
  <2>3. Maintain(s, on, html, todo)
    BY <1>2, <1>3, <1>6, <2>1, <2>2
  <2>4. s \in Live /\ ConfOf(s) # Absent
    BY <1>6 DEF MayMaintain
  <2>5. QED
    BY <1>1, <1>5, <2>3, <2>4, MaintainInv
<1>7. CASE ~MayMaintain(s, states[s].desired)
  <2>1. NextOf(todo) /\ UNCHANGED states
    BY <1>2, <1>3, <1>7
  <2>2. HttpInv'
    BY <2>1, NextOfInv
  <2>3. JobInv'
    BY <1>1 DEF SiteInv, JobInv, TxOK, Plain
  <2>4. QED
    BY <1>1, <1>5, <2>1, <2>2, <2>3, QuietStep DEF tables
<1>8. QED
  BY <1>6, <1>7

(* A default page: the sites that inherit it become pending, the others    *)
(* show a page of their own.                                               *)
LEMMA SetDefaultsInv ==
  ASSUME SiteInv, NEW html \in Htmls, SetDefaults(html)
  PROVE  SiteInv'
<1>1. /\ Serve /\ default' = html /\ MarkInheriting /\ UNCHANGED <<rows, disk, job, late>>
  BY DEF SetDefaults
<1>2. SpentOK' /\ spent'.ids = spent.ids
  BY <1>1, SpentServe DEF SiteInv
<1>3. Live' = Live
  BY <1>1 DEF Live
<1>4. \A s \in SiteIds :
        /\ states'[s].desired = states[s].desired /\ states'[s].html = states[s].html
        /\ states'[s].pending = (states[s].pending \/ Inherits(s))
        /\ s \notin Live => states'[s] = states[s]
  <2> SUFFICES ASSUME NEW s \in SiteIds
               PROVE  /\ states'[s].desired = states[s].desired /\ states'[s].html = states[s].html
                      /\ states'[s].pending = (states[s].pending \/ Inherits(s))
                      /\ s \notin Live => states'[s] = states[s]
    OBVIOUS
  <2>1. PICK st \in [desired : BOOLEAN, html : Htmls \cup {Null}, pending : BOOLEAN] : st = states[s]
    BY DEF SiteInv, TablesOK
  <2>2. PICK b \in BOOLEAN : b = (st.pending \/ Inherits(s))
    OBVIOUS
  <2>3. states'[s] = [st EXCEPT !.pending = b]
    BY <1>1, <2>1, <2>2 DEF MarkInheriting
  <2>4. s \notin Live => b = st.pending
    BY <2>2 DEF Inherits
  <2>5. QED
    BY <2>1, <2>2, <2>3, <2>4
<1>5. states' \in [SiteIds -> [desired : BOOLEAN, html : Htmls \cup {Null}, pending : BOOLEAN]]
  <2>1. \A s \in SiteIds : [states[s] EXCEPT !.pending = @ \/ Inherits(s)]
                             \in [desired : BOOLEAN, html : Htmls \cup {Null}, pending : BOOLEAN]
    BY DEF SiteInv, TablesOK, Inherits
  <2>2. QED
    BY <1>1, <2>1 DEF MarkInheriting
<1>6. TablesOK' /\ DiskOK(disk)'
  BY <1>1, <1>5 DEF SiteInv, TablesOK, DiskOK
<1>7. RowsInv'
  <2>1. \A o \in SiteIds : rows'[o] = Null => states'[o] = Rowless
    BY <1>1, <1>4 DEF SiteInv, RowsInv, Live
  <2>2. \A o \in Live : ~states'[o].pending => rows'[o].flag = states'[o].desired
    BY <1>1, <1>4 DEF SiteInv, RowsInv, Live
  <2>3. QED
    BY <1>1, <1>2, <1>3, <2>1, <2>2 DEF SiteInv, RowsInv
<1>8. \A o \in Live : Blocked(o) => Blocked(o)'
  BY <1>1, <1>4 DEF Blocked, Live
<1>9. KnownInv'
  BY <1>1, <1>3, <1>8 DEF SiteInv, KnownInv
<1>10. SyncInv'
  <2> SUFFICES ASSUME NEW s \in Live, ~states'[s].pending, rows[s].flag
               PROVE  InMaintenance(s)' /\ disk'.page[s] = Effective(states[s].html)'
    BY <1>1, <1>3 DEF SyncInv
  <2>1. s \in SiteIds
    BY DEF Live
  <2>2. ~states[s].pending /\ ~Inherits(s)
    BY <1>4, <2>1
  <2>3. states[s].desired
    BY <2>2 DEF SiteInv, RowsInv
  <2>4. states[s].html # Null
    BY <2>2, <2>3 DEF Inherits
  <2>5. InMaintenance(s) /\ disk.page[s] = states[s].html
    BY <2>2, <2>4 DEF SiteInv, SyncInv, Effective
  <2>6. states'[s].html = states[s].html
    BY <1>4, <2>1
  <2>7. QED
    BY <1>1, <2>4, <2>5, <2>6 DEF InMaintenance, ConfOf, Effective
<1>11. LateInv'
  BY <1>1, <1>3, <1>4 DEF SiteInv, LateInv, TxOK, Plain, Live
<1>12. JobInv'
  BY <1>1 DEF SiteInv, JobInv, TxOK, Plain
<1>13. HttpInv'
  <2>1. PICK todo \in SUBSET SiteIds : todo = {s \in SiteIds : Inherits(s)}
    OBVIOUS
  <2>2. NextOf(todo)
    BY <2>1 DEF SetDefaults
  <2>3. QED
    BY <2>2, NextOfInv
<1>14. QED
  BY <1>2, <1>6, <1>7, <1>9, <1>10, <1>11, <1>12, <1>13 DEF SiteInv


(* Confirmed: what the transaction put there is what the row now says.     *)
LEMMA ConfirmInv ==
  ASSUME SiteInv, NEW s \in Live, NEW on \in BOOLEAN, Confirm(s, on),
         states[s].desired = on, Installed(s, on),
         UNCHANGED <<default, disk, job, late, spent>>, HttpInv'
  PROVE  SiteInv'
<1>1. PICK old \in Row : old = rows[s]
  BY LiveRow DEF SiteInv
<1>2. PICK new \in Row : new = [old EXCEPT !.flag = on]
  BY DEF Row
<1>3. new.conf = old.conf /\ new.name = old.name /\ new.flag = on /\ new # Null
  BY <1>2, SitesAssumption DEF Row
<1>4. rows' = [rows EXCEPT ![s] = new]
  BY <1>1, <1>2 DEF Confirm
<1>5. /\ rows' \in [SiteIds -> Row \cup {Null}] /\ rows'[s] = new
      /\ \A o \in SiteIds : o # s => rows'[o] = rows[o]
  BY <1>4 DEF SiteInv, TablesOK, Live
<1>6. /\ Live' = Live /\ rows'[s].flag = on
      /\ \A o \in Live : /\ rows'[o].conf = rows[o].conf /\ rows'[o].name = rows[o].name
                         /\ o # s => rows'[o].flag = rows[o].flag
  BY <1>1, <1>3, <1>5 DEF Live
<1>7. PICK st \in [desired : BOOLEAN, html : Htmls \cup {Null}, pending : BOOLEAN] :
        st = states[s] /\ st.desired = on
  BY DEF SiteInv, TablesOK, Live
<1>8. /\ states' \in [SiteIds -> [desired : BOOLEAN, html : Htmls \cup {Null}, pending : BOOLEAN]]
      /\ states'[s].desired = on /\ states'[s].html = states[s].html /\ states'[s].pending = FALSE
      /\ \A o \in SiteIds : o # s => states'[o] = states[o]
  <2>1. PICK neu \in [desired : BOOLEAN, html : Htmls \cup {Null}, pending : BOOLEAN] :
          /\ neu = [st EXCEPT !.pending = FALSE]
          /\ neu.desired = on /\ neu.html = st.html /\ neu.pending = FALSE
    <3>1. [st EXCEPT !.pending = FALSE] \in [desired : BOOLEAN, html : Htmls \cup {Null}, pending : BOOLEAN]
      OBVIOUS
    <3>2. [st EXCEPT !.pending = FALSE].desired = on /\ [st EXCEPT !.pending = FALSE].html = st.html
          /\ [st EXCEPT !.pending = FALSE].pending = FALSE
      BY <1>7
    <3>3. QED
      BY <3>1, <3>2
  <2>2. states' = [states EXCEPT ![s] = neu]
    BY <1>7, <2>1 DEF Confirm
  <2>3. s \in SiteIds
    BY DEF Live
  <2>4. QED
    BY <1>7, <2>1, <2>2, <2>3 DEF SiteInv, TablesOK
<1>9. TablesOK' /\ DiskOK(disk)' /\ SpentOK'
  BY <1>5, <1>8 DEF SiteInv, TablesOK, DiskOK, SpentOK
<1>10. RowsInv'
  <2>1. \A o \in SiteIds : rows'[o] = Null => states'[o] = Rowless
    BY <1>3, <1>5, <1>8 DEF SiteInv, RowsInv
  <2>2. \A o \in Live : ~states'[o].pending => rows'[o].flag = states'[o].desired
    BY <1>6, <1>8 DEF SiteInv, RowsInv, Live
  <2>3. QED
    BY <1>6, <2>1, <2>2 DEF SiteInv, RowsInv
<1>11. KnownInv'
  <2> SUFFICES ASSUME NEW p \in Confs, Protected(disk.conf[p])
               PROVE  \E o \in Live : rows'[o].conf = p /\ Blocked(o)'
    BY <1>6 DEF KnownInv
  <2>1. PICK o \in Live : rows[o].conf = p /\ Blocked(o)
    BY DEF SiteInv, KnownInv
  <2>2. CASE o # s
    <3>1. o \in SiteIds
      BY DEF Live
    <3>2. QED
      BY <1>6, <1>8, <2>1, <2>2, <3>1 DEF Blocked
  <2>3. CASE o = s
    <3>1. on
      BY <2>1, <2>3 DEF Installed, InMaintenance, ConfOf, Protected
    <3>2. QED
      BY <1>6, <2>1, <2>3, <3>1 DEF Blocked
  <2>4. QED
    BY <2>2, <2>3
<1>12. SyncInv'
  <2> SUFFICES ASSUME NEW o \in Live, ~states'[o].pending, rows'[o].flag
               PROVE  InMaintenance(o)' /\ disk'.page[o] = Effective(states[o].html)'
    BY <1>6 DEF SyncInv
  <2>1. CASE o = s
    BY <1>6, <1>8, <2>1 DEF Installed, InMaintenance, ConfOf, Effective
  <2>2. CASE o # s
    <3>1. states'[o] = states[o] /\ rows'[o].flag = rows[o].flag /\ rows'[o].conf = rows[o].conf
      BY <1>6, <1>8, <2>2 DEF Live
    <3>2. InMaintenance(o) /\ disk.page[o] = Effective(states[o].html)
      BY <3>1 DEF SiteInv, SyncInv
    <3>3. QED
      BY <3>1, <3>2 DEF InMaintenance, ConfOf, Effective
  <2>3. QED
    BY <2>1, <2>2
<1>13. LateInv'
  <2> SUFFICES ASSUME late # Null, ~Plain(late)
               PROVE  \E o \in Live' : states'[o].pending /\ DOMAIN late.conf = {rows'[o].conf}
                                       /\ DOMAIN late.page \subseteq {o}
    BY DEF SiteInv, LateInv, TxOK, Plain
  <2>1. PICK o \in Live : states[o].pending /\ DOMAIN late.conf = {rows[o].conf}
                          /\ DOMAIN late.page \subseteq {o}
    BY DEF SiteInv, LateInv
  <2>2. o # s
    BY <2>1 DEF Installed
  <2>3. QED
    BY <1>6, <1>8, <2>1, <2>2 DEF Live
<1>14. JobInv'
  BY DEF SiteInv, JobInv, TxOK, Plain
<1>15. QED
  BY <1>9, <1>10, <1>11, <1>12, <1>13, <1>14 DEF SiteInv

LEMMA FinishMaintainInv ==
  ASSUME SiteInv, FinishMaintain
  PROVE  SiteInv'
<1>1. http # Null /\ http.op = "maintain" /\ http.pc = "done" /\ UNCHANGED <<default, disk, job, late>>
  BY DEF FinishMaintain, Finishing
<1>2. PICK s \in Live : s = http.site
  BY <1>1 DEF SiteInv, HttpInv
<1>3. PICK on \in BOOLEAN : on = http.want
  BY <1>1 DEF SiteInv, HttpInv
<1>4. PICK todo \in SUBSET SiteIds : todo = http.todo
  BY <1>1 DEF SiteInv, HttpInv
<1>5. NextOf(todo)
  BY <1>4 DEF FinishMaintain
<1>6. HttpInv'
  BY <1>5, NextOfInv
<1>7. CASE Confirm(http.site, http.want) /\ UNCHANGED spent
  <2>1. Confirm(s, on)
    BY <1>2, <1>3, <1>7
  <2>2. states[s].desired = on /\ Installed(s, on)
    BY <1>1, <1>2, <1>3 DEF SiteInv, HttpInv
  <2>3. QED
    BY <1>1, <1>6, <1>7, <2>1, <2>2, ConfirmInv
<1>8. CASE Fault /\ UNCHANGED <<rows, states>>
  <2>1. PICK n \in Nat : n = spent.faults + 1
    BY DEF SiteInv, SpentOK
  <2>2. spent' = [spent EXCEPT !.faults = n]
    BY <1>8, <2>1 DEF Fault
  <2>3. SpentOK'
    BY <2>2 DEF SpentOK, SiteInv
  <2>4. spent'.ids = spent.ids
    BY <2>2 DEF SpentOK, SiteInv
  <2>5. JobInv'
    BY <1>1 DEF SiteInv, JobInv, TxOK, Plain
  <2>6. QED
    BY <1>1, <1>6, <1>8, <2>3, <2>4, <2>5, QuietStep DEF tables
<1>9. QED
  BY <1>7, <1>8 DEF FinishMaintain

LEMMA RequestInv ==
  ASSUME SiteInv, Request
  PROVE  SiteInv'
<1>1. PICK s \in SiteIds :
        \/ \E d \in Domains, b \in BOOLEAN : StartCreate(s, d, b)
        \/ \E c \in Certs : StartReplace(s, c)
        \/ \E f \in Foreign : StartImport(s, f)
        \/ \E d \in Domains, text \in Texts : StartUpdate(s, d, text) \/ StartSave(s, d, text)
        \/ \E text \in Texts : StartUpdateDocument(s, text)
        \/ StartEnable(s) \/ StartDisable(s) \/ StartDelete(s)
        \/ \E b \in BOOLEAN, html \in Htmls \cup {Null} : StartMaintain(s, b, html)
  BY DEF Request
<1>2. CASE \E d \in Domains, b \in BOOLEAN : StartCreate(s, d, b)
  BY <1>2, CreateInv
<1>3. CASE \E c \in Certs : StartReplace(s, c)
  BY <1>3, ReplaceInv
<1>4. CASE \E f \in Foreign : StartImport(s, f)
  BY <1>4, ImportInv
<1>5. CASE \E d \in Domains, text \in Texts : StartUpdate(s, d, text) \/ StartSave(s, d, text)
  BY <1>5, EditInv
<1>6. CASE \E text \in Texts : StartUpdateDocument(s, text)
  <2>1. PICK text \in Texts : StartUpdateDocument(s, text)
    BY <1>6
  <2>2. CASE Domains = {}
    <3>1. s \in Live
      BY <2>1 DEF StartUpdateDocument, Editable
    <3>2. rows[s] \in Row
      BY <3>1, LiveRow DEF SiteInv
    <3>3. QED
      BY <2>2, <3>2 DEF Row
  <2>3. CASE Domains # {}
    BY <2>1, <2>3, EditInv
  <2>4. QED
    BY <2>2, <2>3
<1>7. CASE StartEnable(s) \/ StartDisable(s) \/ StartDelete(s)
  BY <1>7, StatusInv
<1>8. CASE \E b \in BOOLEAN, html \in Htmls \cup {Null} : StartMaintain(s, b, html)
  BY <1>8, StartMaintainInv
<1>9. QED
  BY <1>1, <1>2, <1>3, <1>4, <1>5, <1>6, <1>7, <1>8

LEMMA HandlerInv ==
  ASSUME SiteInv, Handler
  PROVE  SiteInv'
<1>1. CASE Call
  BY <1>1, CallInv
<1>2. CASE FailRequest \/ FailMaintain \/ FinishReplace
  BY <1>2, EndedInv
<1>3. CASE FinishCreate
  BY <1>3, FinishCreateInv
<1>4. CASE FinishEdit
  BY <1>4, FinishEditInv
<1>5. CASE FinishEnable \/ FinishDisable
  BY <1>5, FinishStatusInv
<1>6. CASE FinishDelete
  BY <1>6, FinishDeleteInv
<1>7. CASE FinishMaintain
  BY <1>7, FinishMaintainInv
<1>8. CASE DefaultsNext
  BY <1>8, DefaultsNextInv
<1>9. QED
  BY <1>1, <1>2, <1>3, <1>4, <1>5, <1>6, <1>7, <1>8 DEF Handler

LEMMA WorkInv ==
  ASSUME SiteInv, Work
  PROVE  SiteInv'
<1>1. CASE \E s \in SiteIds : RefreshStart(s) \/ ChallengeStart(s)
  BY <1>1, BackgroundInv
<1>2. CASE \E s \in SiteIds, c \in Certs : DeployStart(s, c)
  BY <1>2, BackgroundInv
<1>3. CASE RefreshLogPaths
  BY <1>3, RefreshInv
<1>4. CASE JobCall
  BY <1>4, JobCallInv
<1>5. CASE JobGivesUp
  BY <1>5, JobGivesUpInv
<1>6. CASE DeployFinish
  BY <1>6, DeployFinishInv
<1>7. QED
  BY <1>1, <1>2, <1>3, <1>4, <1>5, <1>6 DEF Work

LEMMA SiteNext ==
  ASSUME SiteInv, [Next]_vars
  PROVE  SiteInv'
<1>1. CASE Request
  BY <1>1, RequestInv
<1>2. CASE \E html \in Htmls : SetDefaults(html)
  BY <1>2, SetDefaultsInv
<1>3. CASE Handler
  BY <1>3, HandlerInv
<1>4. CASE Work
  BY <1>4, WorkInv
<1>5. CASE GiveUp
  BY <1>5, GiveUpInv
<1>6. CASE LateEnds
  BY <1>6, LateEndsInv
<1>7. CASE Crash
  BY <1>7, CrashInv
<1>8. CASE UNCHANGED vars
  <2>1. UNCHANGED <<tables, disk, late, spent, http, job>>
    BY <1>8 DEF vars, tables
  <2>2. SpentOK' /\ spent'.ids = spent.ids
    BY <2>1 DEF SiteInv, SpentOK
  <2>3. LateInv' /\ JobInv'
    BY <2>1 DEF SiteInv, LateInv, JobInv, TxOK, Plain, tables, Live
  <2>4. HttpInv'
    <3>1. \A s \in Live : \A on \in BOOLEAN : Installed(s, on) => Installed(s, on)'
      BY <2>1 DEF Installed, InMaintenance, ConfOf, Effective, Plain, tables
    <3>2. Live' = Live /\ UNCHANGED <<rows, states, default, http>>
      BY <2>1 DEF tables, Live
    <3>3. QED
      BY <2>2, <3>1, <3>2, HttpStays
  <2>5. QED
    BY <2>1, <2>2, <2>3, <2>4, TablesStay
<1>9. QED
  BY <1>1, <1>2, <1>3, <1>4, <1>5, <1>6, <1>7, <1>8 DEF Next

LEMMA SiteInit ==
  ASSUME Init
  PROVE  SiteInv
<1>1. PICK file \in [Foreign -> [owner : {Null}, domain : Domains, text : Texts, tls : {"plain"},
                                 maint : {FALSE}]] :
        disk = [conf |-> [p \in Confs |-> IF p \in Foreign THEN file[p] ELSE Absent],
                link |-> [p \in Confs |-> Absent], page |-> [s \in SiteIds |-> Absent]]
  BY DEF Init
<1>2. \A p \in Foreign : file[p] \in Body /\ ~file[p].maint
  BY DEF Body, Tls
<1>3. \A p \in Confs : disk.conf[p] \in Body \cup {Absent} /\ ~Protected(disk.conf[p])
  BY <1>1, <1>2 DEF Protected
<1>4. DiskOK(disk)
  BY <1>1, <1>3 DEF DiskOK
<1>5. Live = {}
  BY DEF Init, Live
<1>6. TablesOK
  BY DEF Init, TablesOK, Rowless
<1>7. SpentOK
  BY DEF Init, SpentOK
<1>8. RowsInv
  BY <1>5 DEF RowsInv, Init
<1>9. KnownInv /\ SyncInv
  BY <1>3, <1>5 DEF KnownInv, SyncInv
<1>10. HttpInv /\ JobInv /\ LateInv
  BY DEF Init, HttpInv, JobInv, LateInv
<1>11. QED
  BY <1>4, <1>6, <1>7, <1>8, <1>9, <1>10 DEF SiteInv

(* What every step keeps, whatever fails or is lost: the files that hold   *)
(* the block, the answers under way and the transactions that nobody waits *)
(* for all belong to sites the panel refuses to edit.                      *)
THEOREM SiteInvariant == Spec => []SiteInv
<1>1. Init => SiteInv
  BY SiteInit
<1>2. SiteInv /\ [Next]_vars => SiteInv'
  BY SiteNext
<1>3. QED
  BY <1>1, <1>2, PTL DEF Spec

(* guardMaintenanceWrites, the deletion and the certificate handlers trust *)
(* the tables: a site whose file holds the block is flagged or pending.    *)
THEOREM MaintenanceKnown == Spec => []MaintenanceIsKnown
<1>1. SiteInv => MaintenanceIsKnown
  <2> SUFFICES ASSUME SiteInv, NEW s \in Live, InMaintenance(s)
               PROVE  Blocked(s)
    BY DEF MaintenanceIsKnown
  <2>1. rows[s].conf \in Confs /\ Protected(disk.conf[rows[s].conf])
    BY LiveRow DEF SiteInv, InMaintenance, ConfOf, Protected
  <2>2. PICK o \in Live : rows[o].conf = rows[s].conf /\ Blocked(o)
    BY <2>1 DEF SiteInv, KnownInv
  <2>3. o = s
    BY <2>2 DEF SiteInv, RowsInv
  <2>4. QED
    BY <2>2, <2>3
<1>2. QED
  BY <1>1, SiteInvariant, PTL

(* Confirm marks a site synced only when the page and the block it was     *)
(* asked for are there, and nothing undoes them unseen: no late answer,    *)
(* no deployment, no change of the default page.                           *)
THEOREM SyncedInstalled == Spec => []SyncedIsInstalled
<1>1. SiteInv => SyncedIsInstalled
  BY DEF SiteInv, SyncedIsInstalled, RowsInv, SyncInv
<1>2. QED
  BY <1>1, SiteInvariant, PTL

(* The type invariant is part of the invariant.                            *)
THEOREM SitesTyped == Spec => []TypeOK
<1>1. SiteInv => TypeOK
  <2> SUFFICES ASSUME SiteInv
               PROVE  TypeOK
    OBVIOUS
  <2>1. http # Null => http.site \in SiteIds \cup {Null} /\ http.todo \subseteq SiteIds
    BY DEF SiteInv, HttpInv
  <2>2. QED
    BY <2>1 DEF SiteInv, TypeOK, TablesOK, DiskOK, JobInv
<1>2. QED
  BY <1>1, SiteInvariant, PTL
-----------------------------------------------------------------------------
(* What a request, and what background work, asks of the agent.            *)

Stays(t) == \A p \in DOMAIN t.conf : t.conf[p] # Absent

OwnName(r) == ~Imported(r) => r.name = r.conf

LinkOf(r) == IF Imported(r) THEN r.conf ELSE r.name

Asks(op, s, r, t) ==
  /\ op \in Ops \ {"maintain", "defaults"}
  /\ op = "create" =>
       /\ \A o \in Live : rows[o].domain # r.domain
       /\ OwnName(r) /\ Stays(t) /\ DOMAIN t.conf \subseteq {r.domain}
       /\ DOMAIN t.link \subseteq {r.name} /\ \A l \in DOMAIN t.link : t.link[l] = l
       /\ ~Imported(r) /\ r.enabled => r.name \in DOMAIN t.link
  /\ op = "edit" => r.enabled = rows[s].enabled
  /\ op \in {"edit", "replace"} =>
       /\ DOMAIN t.conf = {rows[s].conf} /\ DOMAIN t.link = {} /\ ConfOf(s) # Absent
       /\ t.conf[rows[s].conf] # Absent /\ t.conf[rows[s].conf].owner = ConfOf(s).owner
  /\ op = "enable" =>
       /\ ~rows[s].enabled /\ DOMAIN t.conf = {} /\ DOMAIN t.link = {LinkOf(rows[s])}
       /\ t.link[LinkOf(rows[s])] = rows[s].domain
  /\ op \in {"disable", "delete"} =>
       /\ DOMAIN t.conf \subseteq {rows[s].conf} /\ DOMAIN t.link \subseteq {rows[s].name}
       /\ \A p \in DOMAIN t.conf : t.conf[p] = Absent
       /\ r = Null /\ \E q \in Row : t \in {Unlink(q), Erase(q)}

Asked(s) ==
  \E op \in Ops \ {"maintain", "defaults"} : \E r, t :
    /\ Calling(op, s, r, t) /\ Asks(op, s, r, t) /\ (op # "create" => s \in Live)
    /\ UNCHANGED <<tables, disk, job, late>>

LEMMA CreateAsks ==
  ASSUME SiteInv, NEW s \in SiteIds,
         \/ \E d \in Domains, b \in BOOLEAN : StartCreate(s, d, b)
         \/ \E f \in Foreign : StartImport(s, f)
  PROVE  Asked(s)
<1>1. CASE \E d \in Domains, b \in BOOLEAN : StartCreate(s, d, b)
  <2>1. PICK d \in Domains, b \in BOOLEAN : StartCreate(s, d, b)
    BY <1>1
  <2>2. PICK text \in Texts :
          LET body == [owner |-> s, domain |-> d, text |-> text, tls |-> "plain", maint |-> FALSE]
              link == IF b THEN [x \in {d} |-> d] ELSE Nothing
          IN Calling("create", s,
               [domain |-> d, conf |-> d, name |-> d, enabled |-> b, logs |-> Null, flag |-> FALSE],
               [Write(d, body) EXCEPT !.link = link])
    BY <2>1 DEF StartCreate
  <2>3. PICK body \in Body : body = [owner |-> s, domain |-> d, text |-> text, tls |-> "plain", maint |-> FALSE]
    BY DEF Body, Tls
  <2>4. PICK link : link = IF b THEN [x \in {d} |-> d] ELSE Nothing
    OBVIOUS
  <2>5. PICK r \in Row : r = [domain |-> d, conf |-> d, name |-> d, enabled |-> b, logs |-> Null, flag |-> FALSE]
    BY DEF Row, Confs
  <2>6. PICK t : t = [Write(d, body) EXCEPT !.link = link]
    OBVIOUS
  <2>7. Calling("create", s, r, t)
    BY <2>2, <2>3, <2>4, <2>5, <2>6
  <2>8. /\ DOMAIN t.conf = {d} /\ t.conf[d] = body
        /\ DOMAIN t.link = (IF b THEN {d} ELSE {}) /\ \A l \in DOMAIN t.link : t.link[l] = l
    <3>1. CASE b
      BY <2>4, <2>6, <3>1 DEF Write, Quiet, Nothing
    <3>2. CASE ~b
      BY <2>4, <2>6, <3>2 DEF Write, Quiet, Nothing
    <3>3. QED
      BY <3>1, <3>2
  <2>9. r.domain = d /\ r.conf = d /\ r.name = d /\ r.enabled = b
    BY <2>5
  <2>10. \A o \in Live : rows[o].domain # d
    <3>1. s \notin Live
      BY <2>1 DEF StartCreate, ServeNew, SiteInv, RowsInv
    <3>2. QED
      BY <2>1, <3>1 DEF StartCreate, FreeDomain
  <2>11. Stays(t) /\ OwnName(r)
    BY <2>8, <2>9, SitesAssumption DEF Stays, OwnName
  <2>12. Asks("create", s, r, t)
    BY <2>8, <2>9, <2>10, <2>11 DEF Asks, Ops
  <2>13. QED
    BY <2>1, <2>7, <2>12 DEF Asked, Ops, StartCreate
<1>2. CASE \E f \in Foreign : StartImport(s, f)
  <2>1. PICK f \in Foreign : StartImport(s, f)
    BY <1>2
  <2>2. PICK body \in Body : body = disk.conf[f]
    BY <2>1 DEF StartImport, SiteInv, DiskOK, Confs
  <2>3. PICK r : r = [domain |-> body.domain, conf |-> f, name |-> body.domain, enabled |-> TRUE,
                      logs |-> body.text, flag |-> FALSE]
    OBVIOUS
  <2>4. PICK t : t = [Quiet EXCEPT !.test = FALSE]
    OBVIOUS
  <2>5. Calling("create", s, r, t)
    BY <2>1, <2>2, <2>3, <2>4 DEF StartImport
  <2>6. DOMAIN t.conf = {} /\ DOMAIN t.link = {}
    BY <2>4 DEF Quiet, Nothing
  <2>7. r.domain = body.domain /\ r.conf = f
    BY <2>3
  <2>8. \A o \in Live : rows[o].domain # body.domain
    <3>1. s \notin Live
      BY <2>1 DEF StartImport, ServeNew, SiteInv, RowsInv
    <3>2. QED
      BY <2>1, <2>2, <3>1 DEF StartImport, FreeDomain
  <2>9. Stays(t) /\ OwnName(r) /\ Imported(r)
    BY <2>1, <2>6, <2>7 DEF Stays, OwnName, Imported
  <2>10. Asks("create", s, r, t)
    BY <2>6, <2>7, <2>8, <2>9 DEF Asks, Ops
  <2>11. QED
    BY <2>1, <2>5, <2>10 DEF Asked, Ops, StartImport
<1>3. QED
  BY <1>1, <1>2

LEMMA EditAsks ==
  ASSUME SiteInv, NEW s \in SiteIds, NEW d \in Domains, NEW text \in Texts,
         \/ StartUpdate(s, d, text) \/ StartUpdateDocument(s, text) \/ StartSave(s, d, text)
  PROVE  Asked(s)
<1>1. /\ Serve /\ s \in Live /\ ConfOf(s) # Absent /\ UNCHANGED <<tables, disk, job, late>>
  BY DEF StartUpdate, StartUpdateDocument, StartSave, Editable
<1>2. PICK row \in Row : row = rows[s]
  BY <1>1, LiveRow DEF SiteInv
<1>3. PICK body \in Body : body = ConfOf(s)
  BY <1>1, LiveRow DEF SiteInv
<1>4. row.conf \in Confs
  BY DEF Row
<1>5. ASSUME NEW r, r.enabled = row.enabled, NEW t, NEW b,
             b # Absent, b.owner = body.owner, t = Write(row.conf, b), Calling("edit", s, r, t)
      PROVE  Asked(s)
  <2>1. DOMAIN t.conf = {row.conf} /\ t.conf[row.conf] = b /\ DOMAIN t.link = {}
    BY <1>5 DEF Write, Quiet, Nothing
  <2>2. Asks("edit", s, r, t)
    BY <1>1, <1>2, <1>3, <1>5, <2>1 DEF Asks, Ops
  <2>3. QED
    BY <1>1, <1>5, <2>2 DEF Asked, Ops
<1>6. PICK b \in Body : b = [body EXCEPT !.domain = d, !.text = text]
  BY DEF Body
<1>7. PICK c \in Body : c = [body EXCEPT !.text = text]
  BY DEF Body
<1>8. b.owner = body.owner /\ c.owner = body.owner /\ b # Absent /\ c # Absent
  BY <1>6, <1>7, SitesAssumption DEF Body
<1>9. PICK r : r = [row EXCEPT !.domain = d]
  OBVIOUS
<1>10. PICK q : q = [row EXCEPT !.logs = text]
  OBVIOUS
<1>11. r.enabled = row.enabled /\ q.enabled = row.enabled
  BY <1>9, <1>10 DEF Row
<1>12. CASE StartUpdate(s, d, text)
  <2>1. Calling("edit", s, r, Write(row.conf, b))
    BY <1>2, <1>3, <1>6, <1>9, <1>12 DEF StartUpdate
  <2>2. QED
    BY <1>5, <1>8, <1>11, <2>1
<1>13. CASE StartUpdateDocument(s, text)
  <2>1. Calling("edit", s, row, Write(row.conf, c))
    BY <1>2, <1>3, <1>7, <1>13 DEF StartUpdateDocument
  <2>2. QED
    BY <1>5, <1>8, <2>1
<1>14. CASE StartSave(s, d, text)
  <2>1. PICK new \in {r, q, row} :
          new = IF Marked(s) THEN r ELSE IF d = row.domain THEN q ELSE row
    OBVIOUS
  <2>2. Calling("edit", s, new, Write(row.conf, b))
    BY <1>2, <1>3, <1>6, <1>9, <1>10, <1>14, <2>1 DEF StartSave
  <2>3. QED
    BY <1>5, <1>8, <1>11, <2>1, <2>2
<1>15. QED
  BY <1>12, <1>13, <1>14

LEMMA ReplaceAsks ==
  ASSUME SiteInv, NEW s \in SiteIds, NEW c \in Certs, StartReplace(s, c)
  PROVE  Asked(s)
<1>1. /\ Serve /\ s \in Live /\ ConfOf(s) # Absent /\ UNCHANGED <<tables, disk, job, late>>
  BY DEF StartReplace
<1>2. PICK body \in Body : body = ConfOf(s)
  BY <1>1, LiveRow DEF SiteInv
<1>3. PICK p \in Confs : p = rows[s].conf
  BY <1>1, LiveRow DEF SiteInv
<1>4. PICK b \in Body : b = [body EXCEPT !.tls = c]
  BY DEF Body, Tls
<1>5. b.owner = body.owner /\ b # Absent
  BY <1>4, SitesAssumption DEF Body
<1>6. PICK t : t = [Write(p, b) EXCEPT !.hash = body]
  OBVIOUS
<1>7. Calling("replace", s, Null, t)
  BY <1>2, <1>3, <1>4, <1>6 DEF StartReplace
<1>8. DOMAIN t.conf = {p} /\ t.conf[p] = b /\ DOMAIN t.link = {}
  BY <1>6 DEF Write, Quiet, Nothing
<1>9. Asks("replace", s, Null, t)
  BY <1>1, <1>2, <1>3, <1>5, <1>8 DEF Asks, Ops
<1>10. QED
  BY <1>1, <1>7, <1>9 DEF Asked, Ops

LEMMA StatusAsks ==
  ASSUME SiteInv, NEW s \in SiteIds, StartEnable(s) \/ StartDisable(s) \/ StartDelete(s)
  PROVE  Asked(s)
<1>1. /\ Serve /\ s \in Live /\ UNCHANGED <<tables, disk, job, late>>
  BY DEF StartEnable, StartDisable, StartDelete, Removable
<1>2. PICK row \in Row : row = rows[s]
  BY <1>1, LiveRow DEF SiteInv
<1>3. row.conf \in Confs /\ row.name \in Confs
  BY DEF Row, Confs
<1>4. CASE StartEnable(s)
  <2>1. PICK t : t = LinkTo(LinkOf(row), row.domain)
    OBVIOUS
  <2>2. Calling("enable", s, Null, t)
    BY <1>2, <1>4, <2>1 DEF StartEnable, LinkOf
  <2>3. DOMAIN t.conf = {} /\ DOMAIN t.link = {LinkOf(row)} /\ t.link[LinkOf(row)] = row.domain
    BY <2>1 DEF LinkTo, Quiet, Nothing
  <2>4. Asks("enable", s, Null, t)
    BY <1>2, <1>4, <2>3 DEF Asks, Ops, StartEnable
  <2>5. QED
    BY <1>1, <2>2, <2>4 DEF Asked, Ops
<1>5. CASE StartDisable(s)
  <2>1. PICK t : t = Unlink(row)
    OBVIOUS
  <2>2. Calling("disable", s, Null, t)
    BY <1>2, <1>5, <2>1 DEF StartDisable
  <2>3. /\ DOMAIN t.conf \subseteq {row.conf} /\ DOMAIN t.link \subseteq {row.name}
        /\ \A p \in DOMAIN t.conf : t.conf[p] = Absent
    BY <2>1, UnlinkOK
  <2>4. Asks("disable", s, Null, t)
    BY <1>2, <2>1, <2>3 DEF Asks, Ops
  <2>5. QED
    BY <1>1, <2>2, <2>4 DEF Asked, Ops
<1>6. CASE StartDelete(s)
  <2>1. PICK t : t = Erase(row)
    OBVIOUS
  <2>2. Calling("delete", s, Null, t)
    BY <1>2, <1>6, <2>1 DEF StartDelete
  <2>3. /\ DOMAIN t.conf \subseteq {row.conf} /\ DOMAIN t.link \subseteq {row.name}
        /\ \A p \in DOMAIN t.conf : t.conf[p] = Absent
    BY <2>1, ErasedOK
  <2>4. Asks("delete", s, Null, t)
    BY <1>2, <2>1, <2>3 DEF Asks, Ops
  <2>5. QED
    BY <1>1, <2>2, <2>4 DEF Asked, Ops
<1>7. QED
  BY <1>4, <1>5, <1>6

(* A request asks for one of these, or for maintenance.                    *)
LEMMA RequestAsks ==
  ASSUME SiteInv, Request
  PROVE  \/ \E s \in SiteIds : Asked(s)
         \/ \E s \in Live, on \in BOOLEAN, html \in Htmls \cup {Null} : StartMaintain(s, on, html)
<1>1. PICK s \in SiteIds :
        \/ \E d \in Domains, b \in BOOLEAN : StartCreate(s, d, b)
        \/ \E c \in Certs : StartReplace(s, c)
        \/ \E f \in Foreign : StartImport(s, f)
        \/ \E d \in Domains, text \in Texts : StartUpdate(s, d, text) \/ StartSave(s, d, text)
        \/ \E text \in Texts : StartUpdateDocument(s, text)
        \/ StartEnable(s) \/ StartDisable(s) \/ StartDelete(s)
        \/ \E b \in BOOLEAN, html \in Htmls \cup {Null} : StartMaintain(s, b, html)
  BY DEF Request
<1>2. CASE (\E d \in Domains, b \in BOOLEAN : StartCreate(s, d, b)) \/ (\E f \in Foreign : StartImport(s, f))
  BY <1>2, CreateAsks
<1>3. CASE \E c \in Certs : StartReplace(s, c)
  BY <1>3, ReplaceAsks
<1>4. CASE \E d \in Domains, text \in Texts : StartUpdate(s, d, text) \/ StartSave(s, d, text)
  BY <1>4, EditAsks
<1>5. CASE \E text \in Texts : StartUpdateDocument(s, text)
  <2>1. PICK text \in Texts : StartUpdateDocument(s, text)
    BY <1>5
  <2>2. s \in Live
    BY <2>1 DEF StartUpdateDocument, Editable
  <2>3. PICK d \in Domains : d = rows[s].domain
    BY <2>2, LiveRow DEF SiteInv, Row
  <2>4. QED
    BY <2>1, <2>3, EditAsks
<1>6. CASE StartEnable(s) \/ StartDisable(s) \/ StartDelete(s)
  BY <1>6, StatusAsks
<1>7. CASE \E b \in BOOLEAN, html \in Htmls \cup {Null} : StartMaintain(s, b, html)
  BY <1>7 DEF StartMaintain, MayMaintain
<1>8. QED
  BY <1>1, <1>2, <1>3, <1>4, <1>5, <1>6, <1>7

(* Background work links nothing and removes nothing; if it expects a file *)
(* it writes that file's owner.                                            *)
JobAsks(t) ==
  /\ Stays(t) /\ DOMAIN t.link = {}
  /\ t.hash # Null => \A p \in DOMAIN t.conf : t.conf[p].owner = t.hash.owner

LEMMA BackgroundAsks ==
  ASSUME SiteInv, NEW s \in SiteIds,
         RefreshStart(s) \/ ChallengeStart(s) \/ (\E c \in Certs : DeployStart(s, c))
  PROVE  /\ JobAsks(job'.tx) /\ UNCHANGED <<tables, disk, http, late>>
         /\ job'.kind \in {"refresh", "challenge", "deploy"}
         /\ job'.kind = "refresh" => job'.pc # "call"
         /\ job'.kind = "deploy" => job'.tx.hash # Null
<1>1. s \in Live /\ UNCHANGED <<tables, disk, http, late>>
  BY DEF RefreshStart, ChallengeStart, DeployStart
<1>2. CASE RefreshStart(s)
  <2>1. PICK t : t = Quiet
    OBVIOUS
  <2>2. job'.tx = t /\ job'.pc = "write" /\ job'.kind = "refresh"
    BY <1>2, <2>1 DEF RefreshStart, Background
  <2>3. DOMAIN t.conf = {} /\ DOMAIN t.link = {}
    BY <2>1 DEF Quiet, Nothing
  <2>4. QED
    BY <1>1, <2>2, <2>3 DEF JobAsks, Stays
<1>3. CASE ChallengeStart(s) \/ (\E c \in Certs : DeployStart(s, c))
  <2>1. PICK p \in Confs : p = rows[s].conf
    BY <1>1, LiveRow DEF SiteInv
  <2>2. PICK body \in Body : body = ConfOf(s)
    BY <1>1, <1>3, LiveRow DEF SiteInv, ChallengeStart, DeployStart
  <2>3. CASE ChallengeStart(s)
    <3>1. PICK b \in Body : b = [body EXCEPT !.tls = "challenge"]
      BY DEF Body, Tls
    <3>2. job'.tx = Write(p, b) /\ job'.kind = "challenge"
      BY <2>1, <2>2, <2>3, <3>1 DEF ChallengeStart, Background
    <3>3. QED
      BY <1>1, <3>2, WriteOK, SitesAssumption DEF JobAsks, Stays
  <2>4. CASE \E c \in Certs : DeployStart(s, c)
    <3>1. PICK c \in Certs : DeployStart(s, c)
      BY <2>4
    <3>2. PICK b \in Body : b = [body EXCEPT !.tls = c] /\ b.owner = body.owner
      <4>1. [body EXCEPT !.tls = c] \in Body
        BY DEF Body, Tls
      <4>2. [body EXCEPT !.tls = c].owner = body.owner
        BY DEF Body
      <4>3. QED
        BY <4>1, <4>2
    <3>3. PICK t : t = [Write(p, b) EXCEPT !.hash = body]
      OBVIOUS
    <3>4. job'.tx = t /\ job'.kind = "deploy"
      BY <2>1, <2>2, <3>1, <3>2, <3>3 DEF DeployStart, Background
    <3>5. DOMAIN t.conf = {p} /\ t.conf[p] = b /\ DOMAIN t.link = {} /\ t.hash = body
      BY <3>3 DEF Write, Quiet, Nothing
    <3>6. JobAsks(t)
      BY <3>2, <3>5, SitesAssumption DEF JobAsks, Stays
    <3>7. t.hash # Null
      BY <3>5, SitesAssumption
    <3>8. QED
      BY <1>1, <3>4, <3>6, <3>7 DEF JobAsks, Stays
  <2>5. QED
    BY <1>3, <2>3, <2>4
<1>4. QED
  BY <1>2, <1>3

(* What has been lost, overwritten or led astray stays so.                 *)
LEMMA HistoryGrows ==
  ASSUME SiteInv, [Next]_vars
  PROVE  /\ spent.lost => spent'.lost
         /\ spent.stale => spent'.stale
         /\ spent.astray => spent'.astray
<1>1. ASSUME \/ UNCHANGED spent \/ Serve \/ (\E s \in SiteIds : ServeNew(s)) \/ Fault \/ Lost \/ Kept
             \/ (\E b : NoteAstray(b)) \/ (\E b : NoteStale(b)) \/ (\E j : Background(j))
      PROVE  /\ spent.lost => spent'.lost
             /\ spent.stale => spent'.stale
             /\ spent.astray => spent'.astray
  BY <1>1 DEF SiteInv, SpentOK, Serve, ServeNew, Fault, Lost, Kept, NoteAstray, NoteStale, Background
<1>2. CASE Request \/ (\E html \in Htmls : SetDefaults(html))
  BY <1>1, <1>2 DEF Request, StartCreate, StartReplace, StartImport, StartUpdate, StartSave,
     StartUpdateDocument, StartEnable, StartDisable, StartDelete, StartMaintain, SetDefaults
<1>3. CASE Handler
  BY <1>1, <1>3 DEF Handler, Call, FailRequest, FinishCreate, FinishEdit, FinishEnable, FinishDisable,
     FinishDelete, FinishReplace, FinishMaintain, FailMaintain, DefaultsNext
<1>4. CASE Work
  BY <1>1, <1>4 DEF Work, RefreshStart, ChallengeStart, DeployStart, RefreshLogPaths, JobCall,
     JobGivesUp, DeployFinish
<1>5. CASE GiveUp \/ LateEnds \/ Crash \/ UNCHANGED vars
  BY <1>1, <1>5 DEF GiveUp, LateEnds, Crash, vars
<1>6. QED
  BY <1>2, <1>3, <1>4, <1>5 DEF Next
-----------------------------------------------------------------------------
(* A pending site has its file: until an answer is lost a file goes only   *)
(* with its own site, whose deletion waits for no reconciliation.          *)

Goes(op, s, t) ==
  \/ Stays(t)
  \/ op \in {"disable", "delete"} /\ DOMAIN t.conf \subseteq {rows[s].conf}

HttpPend == http # Null /\ http.op # "defaults" => Goes(http.op, http.site, http.tx)
JobPend  == job # Null => Stays(job.tx)

PendInv ==
  ~spent.lost =>
    /\ late = Null /\ JobPend /\ HttpPend
    /\ \A s \in Live : states[s].pending => ConfOf(s) # Absent

(* Sites become pending only with their file, and the disk stays.          *)
LEMMA PendStep ==
  ASSUME PendInv, spent.lost => spent'.lost, UNCHANGED <<disk, late>>,
         \A s \in Live' : states'[s].pending =>
           s \in Live /\ rows'[s].conf = rows[s].conf /\ (states[s].pending \/ ConfOf(s) # Absent),
         ~spent.lost => JobPend' /\ HttpPend'
  PROVE  PendInv'
BY DEF PendInv, ConfOf

LEMMA PendWrite ==
  ASSUME SiteInv, PendInv, ~spent.lost, NEW t, TxOK(t), disk' = After(disk, t), UNCHANGED tables,
         NEW op, NEW s \in SiteIds, Goes(op, s, t), ~Stays(t) => s \in Live /\ ~states[s].pending
  PROVE  \A o \in Live' : states'[o].pending => ConfOf(o)' # Absent
<1> SUFFICES ASSUME NEW o \in Live, states[o].pending
             PROVE  ConfOf(o)' # Absent
  BY DEF tables, Live
<1>1. rows[o].conf \in Confs /\ ConfOf(o) # Absent
  BY LiveRow DEF SiteInv, PendInv
<1>2. disk'.conf[rows[o].conf] = IF rows[o].conf \in DOMAIN t.conf THEN t.conf[rows[o].conf]
                                 ELSE disk.conf[rows[o].conf]
  BY <1>1, AfterOK DEF SiteInv
<1>3. CASE Stays(t)
  BY <1>1, <1>2, <1>3 DEF Stays, ConfOf, tables
<1>4. CASE ~Stays(t)
  <2>1. o # s /\ s \in Live
    BY <1>4
  <2>2. rows[o].conf \notin DOMAIN t.conf
    BY <1>4, <2>1 DEF Goes, SiteInv, RowsInv
  <2>3. QED
    BY <1>1, <1>2, <2>2 DEF ConfOf, tables
<1>5. QED
  BY <1>3, <1>4

(* Handlers and work that end, and those that write rows.                  *)
LEMMA PendEnds ==
  ASSUME SiteInv, PendInv, spent.lost => spent'.lost, UNCHANGED <<disk, late>>,
         http' = http \/ http' = Null, job' = job \/ job' = Null \/ (job # Null /\ job' = [job EXCEPT !.pc = "store"]),
         UNCHANGED states, Live' = Live, \A s \in Live : rows'[s].conf = rows[s].conf
  PROVE  PendInv'
<1>1. ~spent.lost => JobPend'
  <2>1. CASE job' = job \/ job' = Null
    BY <2>1 DEF PendInv, JobPend, Stays
  <2>2. CASE job # Null /\ job' = [job EXCEPT !.pc = "store"]
    <3>1. job'.tx = job.tx
      BY <2>2
    <3>2. QED
      BY <2>2, <3>1 DEF PendInv, JobPend, Stays
  <2>3. QED
    BY <2>1, <2>2
<1>2. ~spent.lost => HttpPend'
  BY DEF PendInv, HttpPend, Goes, Stays, SiteInv, HttpInv
<1>3. QED
  BY <1>1, <1>2, PendStep

LEMMA PendMaintain ==
  ASSUME SiteInv, PendInv, spent.lost => spent'.lost, NEW s \in Live, NEW on \in BOOLEAN,
         NEW html \in Htmls \cup {Null}, NEW todo \in SUBSET SiteIds, Maintain(s, on, html, todo),
         ConfOf(s) # Absent, UNCHANGED <<rows, disk, job, late>>
  PROVE  PendInv'
<1>1. http'.site = s /\ Stays(http'.tx)
  <2>1. DOMAIN http'.tx.conf = {rows[s].conf} /\ http'.tx.conf[rows[s].conf] \in Body
    BY TransitionOK
  <2>2. http'.site = s
    BY DEF Maintain
  <2>3. QED
    BY <2>1, <2>2, SitesAssumption DEF Stays
<1>2. HttpPend'
  BY <1>1 DEF HttpPend, Goes, Stays
<1>3. ~spent.lost => JobPend'
  BY DEF PendInv, JobPend, Stays
<1>4. \A o \in Live' : states'[o].pending =>
        o \in Live /\ rows'[o].conf = rows[o].conf /\ (states[o].pending \/ ConfOf(o) # Absent)
  BY DEF Maintain, Begin, SiteInv, TablesOK, Live
<1>5. QED
  BY <1>2, <1>3, <1>4, PendStep

LEMMA PendRequest ==
  ASSUME SiteInv, PendInv, spent.lost => spent'.lost, Request
  PROVE  PendInv'
<1>1. CASE \E s \in SiteIds : Asked(s)
  <2>1. PICK s, op, r, t :
          /\ s \in SiteIds /\ op \in Ops \ {"maintain", "defaults"}
          /\ Calling(op, s, r, t) /\ Asks(op, s, r, t)
          /\ UNCHANGED <<tables, disk, job, late>>
    BY <1>1 DEF Asked
  <2>2. http'.op = op /\ http'.site = s /\ http'.tx = t
    BY <2>1 DEF Calling
  <2>3. Goes(op, s, t)
    BY <2>1 DEF Asks, Goes, Stays, Ops
  <2>4. HttpPend'
    BY <2>1, <2>2, <2>3 DEF HttpPend, Goes, Stays, tables
  <2>5. ~spent.lost => JobPend'
    BY <2>1 DEF PendInv, JobPend, Stays
  <2>6. QED
    BY <2>1, <2>4, <2>5, PendStep DEF tables, Live
<1>2. CASE \E s \in Live, on \in BOOLEAN, html \in Htmls \cup {Null} : StartMaintain(s, on, html)
  <2>1. PICK s \in Live, on \in BOOLEAN, html \in Htmls \cup {Null} : StartMaintain(s, on, html)
    BY <1>2
  <2>2. /\ ConfOf(s) # Absent /\ Maintain(s, on, html, {}) /\ UNCHANGED <<rows, disk, job, late>>
    BY <2>1 DEF StartMaintain, MayMaintain
  <2>3. {} \in SUBSET SiteIds
    OBVIOUS
  <2>4. QED
    BY <2>2, <2>3, PendMaintain
<1>3. QED
  BY <1>1, <1>2, RequestAsks

(* The sites a default page makes pending want maintenance and are synced, *)
(* or are pending already.                                                 *)
LEMMA PendDefaults ==
  ASSUME SiteInv, PendInv, spent.lost => spent'.lost, NEW html \in Htmls, SetDefaults(html)
  PROVE  PendInv'
<1>1. /\ MarkInheriting /\ UNCHANGED <<rows, disk, job, late>>
  BY DEF SetDefaults
<1>2. HttpPend'
  BY DEF SetDefaults, NextOf, HttpPend
<1>3. ~spent.lost => JobPend'
  BY <1>1 DEF PendInv, JobPend, Stays
<1>4. ASSUME NEW s \in Live, states'[s].pending
      PROVE  states[s].pending \/ ConfOf(s) # Absent
  <2>1. PICK st \in [desired : BOOLEAN, html : Htmls \cup {Null}, pending : BOOLEAN] : st = states[s]
    BY DEF SiteInv, TablesOK, Live
  <2>2. PICK b \in BOOLEAN : b = (st.pending \/ Inherits(s))
    OBVIOUS
  <2>3. states'[s] = [st EXCEPT !.pending = b]
    BY <1>1, <2>1, <2>2 DEF MarkInheriting, Live
  <2>4. states[s].pending \/ Inherits(s)
    BY <1>4, <2>1, <2>2, <2>3
  <2>5. ~states[s].pending => rows[s].flag
    BY <2>4 DEF Inherits, SiteInv, RowsInv
  <2>6. QED
    BY <2>5 DEF SiteInv, SyncInv, InMaintenance
<1>5. Live' = Live
  BY <1>1 DEF Live
<1>6. QED
  BY <1>1, <1>2, <1>3, <1>4, <1>5, PendStep

LEMMA PendCall ==
  ASSUME SiteInv, PendInv, spent.lost => spent'.lost, Call
  PROVE  PendInv'
<1>1. /\ http # Null /\ http.pc = "call" /\ late = Null /\ UNCHANGED <<tables, job, late>>
  BY DEF Call
<1>2. /\ http.op \in Ops \ {"defaults"} /\ http.site \in SiteIds /\ TxOK(http.tx)
  BY <1>1 DEF SiteInv, HttpInv
<1>3. PICK pc : http' = [http EXCEPT !.pc = pc]
  BY DEF Call
<1>4. http'.op = http.op /\ http'.site = http.site /\ http'.tx = http.tx
  BY <1>3
<1>5. ~spent.lost => HttpPend'
  BY <1>1, <1>2, <1>4 DEF PendInv, HttpPend, Goes, Stays, tables
<1>6. ~spent.lost => JobPend'
  BY <1>1 DEF PendInv, JobPend, Stays
<1>7. CASE UNCHANGED disk
  BY <1>1, <1>5, <1>6, <1>7, PendStep DEF tables, Live
<1>8. CASE disk' = After(disk, http.tx)
  <2>1. PICK t : t = http.tx
    OBVIOUS
  <2>2. PICK s \in SiteIds : s = http.site
    BY <1>2
  <2>3. PICK op : op = http.op
    OBVIOUS
  <2>4. TxOK(t) /\ disk' = After(disk, t)
    BY <1>2, <1>8, <2>1
  <2>5. ~spent.lost => Goes(op, s, t)
    BY <1>1, <1>2, <2>1, <2>2, <2>3 DEF PendInv, HttpPend
  <2>6. ~spent.lost /\ ~Stays(t) => s \in Live /\ ~states[s].pending
    <3>1. ~spent.lost /\ ~Stays(t) => op \in {"disable", "delete"}
      BY <2>5 DEF Goes
    <3>2. op \in {"disable", "delete"} => s \in Live /\ ~Blocked(s)
      BY <1>1, <2>2, <2>3 DEF SiteInv, HttpInv
    <3>3. QED
      BY <3>1, <3>2 DEF Blocked
  <2>7. ~spent.lost => \A o \in Live' : states'[o].pending => ConfOf(o)' # Absent
    BY <1>1, <2>4, <2>5, <2>6, PendWrite
  <2>8. QED
    BY <1>1, <1>5, <1>6, <2>7 DEF PendInv
<1>9. QED
  BY <1>7, <1>8 DEF Call

LEMMA PendHandler ==
  ASSUME SiteInv, PendInv, spent.lost => spent'.lost, Handler
  PROVE  PendInv'
<1>1. CASE Call
  BY <1>1, PendCall
<1>2. CASE FailRequest \/ FinishReplace
  BY <1>2, PendEnds DEF FailRequest, FinishReplace, EndRequest, tables, Live
<1>3. CASE FinishEdit
  <2>1. PICK s \in SiteIds : s = http.site
    BY <1>3 DEF FinishEdit, Finishing, SiteInv, HttpInv
  <2>2. PICK r \in Row : r = http.row
    BY <1>3 DEF FinishEdit, Finishing, SiteInv, HttpInv
  <2>3. Live' = Live /\ \A o \in Live : rows'[o].conf = rows[o].conf
    BY <1>3, <2>1, <2>2, OverwriteKeeps DEF FinishEdit, SiteInv
  <2>4. QED
    BY <1>3, <2>3, PendEnds DEF FinishEdit, EndRequest
<1>4. CASE FinishEnable \/ FinishDisable
  <2>1. PICK s \in Live : s = http.site
    BY <1>4 DEF FinishEnable, FinishDisable, Finishing, SiteInv, HttpInv
  <2>2. PICK on \in BOOLEAN : rows' = [rows EXCEPT ![s].enabled = on]
    BY <1>4, <2>1 DEF FinishEnable, FinishDisable
  <2>3. PICK old \in Row : old = rows[s]
    BY LiveRow DEF SiteInv
  <2>4. PICK new \in Row : new = [old EXCEPT !.enabled = on]
    BY DEF Row
  <2>5. new.conf = old.conf /\ new # Null
    BY <2>4, SitesAssumption DEF Row
  <2>6. rows' = [rows EXCEPT ![s] = new]
    BY <2>2, <2>3, <2>4
  <2>7. Live' = Live /\ \A o \in Live : rows'[o].conf = rows[o].conf
    BY <2>3, <2>5, <2>6 DEF Live, SiteInv, TablesOK
  <2>8. QED
    BY <1>4, <2>7, PendEnds DEF FinishEnable, FinishDisable, EndRequest
<1>5. CASE FinishCreate \/ FinishDelete \/ FinishMaintain \/ FailMaintain
  <2>1. UNCHANGED <<disk, job, late>>
    BY <1>5 DEF FinishCreate, FinishDelete, FinishMaintain, FailMaintain
  <2>2. HttpPend'
    BY <1>5 DEF FinishCreate, FinishDelete, FinishMaintain, FailMaintain, EndRequest, NextOf, HttpPend
  <2>3. ~spent.lost => JobPend'
    BY <2>1 DEF PendInv, JobPend, Stays
  <2>4. ASSUME NEW s \in Live', states'[s].pending
        PROVE  s \in Live /\ rows'[s].conf = rows[s].conf /\ (states[s].pending \/ ConfOf(s) # Absent)
    <3>1. CASE FinishCreate
      <4>1. s \in Live => rows'[s] = rows[s]
        BY <3>1 DEF FinishCreate, Finishing, Insert, SiteInv, HttpInv, TablesOK, Live
      <4>2. s \in Live
        BY <2>4, <3>1 DEF FinishCreate, SiteInv, RowsInv, Rowless, Live
      <4>3. QED
        BY <2>4, <3>1, <4>1, <4>2 DEF FinishCreate
    <3>2. CASE FinishDelete
      <4>1. PICK o \in SiteIds : o = http.site
        BY <3>2 DEF FinishDelete, Finishing, SiteInv, HttpInv
      <4>2. CASE DeleteRow(o)
        <5>1. s # o
          BY <4>1, <4>2 DEF DeleteRow, Live, SiteInv, TablesOK
        <5>2. QED
          BY <2>4, <4>1, <4>2, <5>1 DEF DeleteRow, Live, SiteInv, TablesOK
      <4>3. CASE UNCHANGED <<rows, states>>
        BY <2>4, <4>3 DEF Live
      <4>4. QED
        BY <3>2, <4>1, <4>2, <4>3 DEF FinishDelete
    <3>3. CASE FinishMaintain
      <4>1. PICK o \in Live : o = http.site
        BY <3>3 DEF FinishMaintain, Finishing, SiteInv, HttpInv
      <4>2. CASE Confirm(o, http.want)
        <5>1. PICK old \in Row : old = rows[o]
          BY LiveRow DEF SiteInv
        <5>2. PICK new : new = [old EXCEPT !.flag = http.want]
          OBVIOUS
        <5>3. rows' = [rows EXCEPT ![o] = new] /\ new.conf = old.conf
          BY <4>2, <5>1, <5>2 DEF Confirm, Row
        <5>4. s \in Live /\ rows'[s].conf = rows[s].conf
          BY <5>1, <5>3 DEF Live, SiteInv, TablesOK
        <5>5. states'[o].pending = FALSE /\ (s # o => states'[s] = states[s])
          BY <4>2, <5>4 DEF Confirm, Live, SiteInv, TablesOK
        <5>6. QED
          BY <2>4, <5>4, <5>5
      <4>3. CASE UNCHANGED <<rows, states>>
        BY <2>4, <4>3 DEF Live
      <4>4. QED
        BY <3>3, <4>1, <4>2, <4>3 DEF FinishMaintain
    <3>4. CASE FailMaintain
      BY <2>4, <3>4 DEF FailMaintain, tables, Live
    <3>5. QED
      BY <1>5, <3>1, <3>2, <3>3, <3>4
  <2>5. QED
    BY <2>1, <2>2, <2>3, <2>4, PendStep
<1>6. CASE DefaultsNext
  <2>1. http # Null /\ UNCHANGED <<rows, disk, job, late>>
    BY <1>6 DEF DefaultsNext
  <2>2. PICK s \in http.todo :
          IF MayMaintain(s, states[s].desired)
          THEN Maintain(s, states[s].desired, states[s].html, http.todo \ {s})
          ELSE NextOf(http.todo \ {s}) /\ UNCHANGED states
    BY <1>6 DEF DefaultsNext
  <2>3. PICK todo \in SUBSET SiteIds : todo = http.todo \ {s}
    BY <2>1 DEF SiteInv, HttpInv
  <2>4. CASE MayMaintain(s, states[s].desired)
    <3>1. s \in Live /\ ConfOf(s) # Absent
      BY <2>4 DEF MayMaintain
    <3>2. PICK on \in BOOLEAN : on = states[s].desired
      BY <3>1 DEF SiteInv, TablesOK, Live
    <3>3. PICK html \in Htmls \cup {Null} : html = states[s].html
      BY <3>1 DEF SiteInv, TablesOK, Live
    <3>4. Maintain(s, on, html, todo)
      BY <2>2, <2>3, <2>4, <3>2, <3>3
    <3>5. QED
      BY <2>1, <3>1, <3>4, PendMaintain
  <2>5. CASE ~MayMaintain(s, states[s].desired)
    <3>1. HttpPend' /\ UNCHANGED states
      BY <2>2, <2>5 DEF NextOf, HttpPend
    <3>2. ~spent.lost => JobPend'
      BY <2>1 DEF PendInv, JobPend, Stays
    <3>3. QED
      BY <2>1, <3>1, <3>2, PendStep DEF Live
  <2>6. QED
    BY <2>4, <2>5
<1>7. QED
  BY <1>1, <1>2, <1>3, <1>4, <1>5, <1>6 DEF Handler

LEMMA PendWork ==
  ASSUME SiteInv, PendInv, spent.lost => spent'.lost, Work
  PROVE  PendInv'
<1>1. ASSUME NEW s \in SiteIds, RefreshStart(s) \/ ChallengeStart(s) \/ (\E c \in Certs : DeployStart(s, c))
      PROVE  PendInv'
  <2>1. JobAsks(job'.tx) /\ UNCHANGED <<tables, disk, http, late>>
    BY <1>1, BackgroundAsks
  <2>2. JobPend'
    BY <2>1 DEF JobAsks, JobPend, Stays
  <2>3. ~spent.lost => HttpPend'
    BY <2>1 DEF PendInv, HttpPend, Goes, Stays, tables
  <2>4. QED
    BY <2>1, <2>2, <2>3, PendStep DEF tables, Live
<1>2. CASE RefreshLogPaths
  <2>1. CASE UNCHANGED rows
    BY <1>2, <2>1, PendEnds DEF RefreshLogPaths, Live
  <2>2. CASE ~UNCHANGED rows
    <3>1. PICK s \in SiteIds : s = job.site
      BY <1>2 DEF RefreshLogPaths, SiteInv, JobInv
    <3>2. PICK row \in Row : row = job.row
      BY <1>2 DEF RefreshLogPaths, SiteInv, JobInv
    <3>3. PICK body : body = disk.conf[row.conf]
      OBVIOUS
    <3>4. body # Absent
      BY <1>2, <2>2, <3>2, <3>3 DEF RefreshLogPaths
    <3>5. body \in Body
      BY <3>3, <3>4 DEF SiteInv, DiskOK, Row
    <3>6. PICK new \in Row : new = [row EXCEPT !.logs = body.text]
      BY <3>5 DEF Row, Body
    <3>7. Overwrite(s, new)
      BY <1>2, <2>2, <3>1, <3>2, <3>3, <3>6 DEF RefreshLogPaths
    <3>8. Live' = Live /\ \A o \in Live : rows'[o].conf = rows[o].conf
      BY <3>7, OverwriteKeeps DEF SiteInv
    <3>9. QED
      BY <1>2, <3>8, PendEnds DEF RefreshLogPaths
  <2>3. QED
    BY <2>1, <2>2
<1>3. CASE JobCall
  <2>1. job # Null /\ UNCHANGED <<tables, http, late>>
    BY <1>3 DEF JobCall
  <2>2. CASE UNCHANGED disk
    <3>1. job' = Null \/ job' = [job EXCEPT !.pc = "store"]
      BY <1>3 DEF JobCall
    <3>2. QED
      BY <2>1, <2>2, <3>1, PendEnds DEF tables, Live
  <2>3. CASE disk' = After(disk, job.tx)
    <3>1. ~spent.lost => JobPend' /\ HttpPend'
      <4>1. job' = Null \/ job' = [job EXCEPT !.pc = "store"]
        BY <1>3 DEF JobCall
      <4>2. job' # Null => job'.tx = job.tx
        <5>1. CASE job' = Null
          BY <5>1
        <5>2. CASE job' = [job EXCEPT !.pc = "store"]
          BY <5>2
        <5>3. QED
          BY <4>1, <5>1, <5>2
      <4>3. QED
        BY <2>1, <4>2 DEF PendInv, JobPend, HttpPend, Goes, Stays, tables
    <3>2. PICK t : t = job.tx
      OBVIOUS
    <3>3. PICK s \in SiteIds : s = job.site
      BY <2>1 DEF SiteInv, JobInv
    <3>4. TxOK(t) /\ disk' = After(disk, t) /\ (~spent.lost => Stays(t))
      BY <2>1, <2>3, <3>2 DEF SiteInv, JobInv, PendInv, JobPend
    <3>5. ~spent.lost => \A o \in Live' : states'[o].pending => ConfOf(o)' # Absent
      BY <2>1, <3>4, PendWrite DEF Goes
    <3>6. QED
      BY <2>1, <3>1, <3>5 DEF PendInv
  <2>4. QED
    BY <1>3, <2>2, <2>3 DEF JobCall
<1>4. CASE JobGivesUp
  <2>1. spent'.lost
    BY <1>4, SpentLost DEF JobGivesUp, SiteInv
  <2>2. QED
    BY <2>1 DEF PendInv
<1>5. CASE DeployFinish
  <2>1. PICK s \in SiteIds : s = job.site
    BY <1>5 DEF DeployFinish, SiteInv, JobInv
  <2>2. PICK row \in Row : row = job.row
    BY <1>5 DEF DeployFinish, SiteInv, JobInv
  <2>3. Overwrite(s, row)
    BY <1>5, <2>1, <2>2 DEF DeployFinish
  <2>4. Live' = Live /\ \A o \in Live : rows'[o].conf = rows[o].conf
    BY <2>3, OverwriteKeeps DEF SiteInv
  <2>5. QED
    BY <1>5, <2>4, PendEnds DEF DeployFinish
<1>6. QED
  BY <1>1, <1>2, <1>3, <1>4, <1>5 DEF Work

LEMMA PendNext ==
  ASSUME SiteInv, PendInv, [Next]_vars
  PROVE  PendInv'
<1>1. spent.lost => spent'.lost
  BY HistoryGrows
<1>2. CASE Request
  BY <1>1, <1>2, PendRequest
<1>3. CASE \E html \in Htmls : SetDefaults(html)
  BY <1>1, <1>3, PendDefaults
<1>4. CASE Handler
  BY <1>1, <1>4, PendHandler
<1>5. CASE Work
  BY <1>1, <1>5, PendWork
<1>6. CASE GiveUp \/ Crash
  <2>1. spent'.lost
    BY <1>6, SpentLost DEF GiveUp, Crash, SiteInv
  <2>2. QED
    BY <2>1 DEF PendInv
<1>7. CASE LateEnds
  <2>1. spent.lost
    BY <1>7 DEF LateEnds, PendInv
  <2>2. QED
    BY <1>1, <2>1 DEF PendInv
<1>8. CASE UNCHANGED vars
  BY <1>1, <1>8, PendEnds DEF vars, Live
<1>9. QED
  BY <1>2, <1>3, <1>4, <1>5, <1>6, <1>7, <1>8 DEF Next

(* What every step keeps of the pending sites: until an answer is lost,    *)
(* their files are there and no transaction under way takes one away.      *)
THEOREM PendInvariant == Spec => []PendInv
<1>1. Init => PendInv
  BY DEF Init, PendInv, JobPend, HttpPend, Live
<1>2. SiteInv /\ PendInv /\ [Next]_vars => PendInv'
  BY PendNext
<1>3. QED
  BY <1>1, <1>2, SiteInvariant, PTL DEF Spec

(* Reconcile reads the site's file first: a pending site still has it, so  *)
(* the refusals of guardMaintenanceWrites can end, unless an answer was    *)
(* lost on the way.                                                        *)
THEOREM PendingReconciled == Spec => []PendingCanBeReconciled
<1>1. PendInv => PendingCanBeReconciled
  BY DEF PendInv, PendingCanBeReconciled
<1>2. QED
  BY <1>1, PendInvariant, PTL
-----------------------------------------------------------------------------
(* Whose a file is and where a link leads.                                 *)

JobOwn ==
  job # Null =>
    /\ job.tx.hash # Null => \A p \in DOMAIN job.tx.conf : job.tx.conf[p].owner = job.tx.hash.owner
    /\ job.kind \in {"refresh", "challenge", "deploy"}
    /\ job.kind = "refresh" => job.pc # "call"
    /\ job.kind = "deploy" => job.tx.hash # Null

(* The file a request writes belongs to whom it did.                       *)
HttpOwn ==
  http # Null =>
    /\ http.op = "create" =>
         /\ \A o \in Live : rows[o].domain # http.row.domain
         /\ DOMAIN http.tx.conf \subseteq {http.row.domain}
    /\ http.op \in {"edit", "replace", "maintain"} /\ http.pc = "call" =>
         \A p \in DOMAIN http.tx.conf :
            disk.conf[p] # Absent /\ http.tx.conf[p] # Absent
            /\ http.tx.conf[p].owner = disk.conf[p].owner
    /\ http.op = "enable" => DOMAIN http.tx.conf = {}
    /\ http.op \in {"disable", "delete"} => \A p \in DOMAIN http.tx.conf : http.tx.conf[p] = Absent

OwnInv == ~spent.lost /\ ~spent.stale => JobOwn /\ HttpOwn

(* The link of an enabled site leads to its file, but for the one that is  *)
(* just disabled or deleted.                                               *)
Unlinking(s) ==
  http # Null /\ http.op \in {"disable", "delete"} /\ http.pc = "done" /\ http.site = s

LinkOK(s) ==
  /\ ~Imported(rows[s]) /\ rows[s].enabled => disk.link[rows[s].name] = rows[s].conf \/ Unlinking(s)
  /\ rows[s].flag => rows[s].enabled

JobLinks == job # Null => DOMAIN job.tx.link = {}

Removing(op, pc, s, t) ==
  [op |-> op, pc |-> pc, site |-> s, row |-> Null, tx |-> t, want |-> FALSE, todo |-> {}]

Removal(q) ==
  \E op \in {"disable", "delete"}, pc \in {"call", "done", "failed"}, s \in SiteIds, r \in Row :
    \E t \in {Unlink(r), Erase(r)} : q = Removing(op, pc, s, t)

HttpLinks ==
  http # Null =>
    /\ http.op = "create" =>
         /\ DOMAIN http.tx.link \subseteq {http.row.name}
         /\ \A l \in DOMAIN http.tx.link : http.tx.link[l] = l
         /\ ~Imported(http.row) /\ http.row.enabled =>
              /\ http.row.name \in DOMAIN http.tx.link
              /\ http.pc = "done" => disk.link[http.row.name] = http.row.name
    /\ http.op = "edit" => http.row.enabled = rows[http.site].enabled
    /\ http.op = "enable" =>
         /\ ~rows[http.site].enabled
         /\ DOMAIN http.tx.link = {LinkOf(rows[http.site])}
         /\ http.tx.link[LinkOf(rows[http.site])] = rows[http.site].domain
         /\ http.pc = "done" => disk.link[LinkOf(rows[http.site])] = rows[http.site].domain
    /\ http.op \in {"disable", "delete"} =>
         DOMAIN http.tx.link \subseteq {rows[http.site].name} /\ Removal(http)
    /\ http.op \in {"edit", "replace", "maintain"} => DOMAIN http.tx.link = {}
    /\ http.op = "maintain" /\ http.want => rows[http.site].enabled

NamesInv ==
  /\ \A s \in Live : OwnName(rows[s])
  /\ http # Null /\ http.op = "create" => OwnName(http.row)
  /\ JobLinks

LinkInv ==
  ~spent.lost /\ ~spent.stale /\ ~spent.astray =>
    HttpLinks /\ \A s \in Live : LinkOK(s)

HeldInv == PendInv /\ NamesInv /\ OwnInv /\ LinkInv

Grows ==
  /\ spent.lost => spent'.lost
  /\ spent.stale => spent'.stale
  /\ spent.astray => spent'.astray

(* No row is made, removed, enabled or disabled, but for what is noted.    *)
Kin ==
  /\ Live' = Live
  /\ \A s \in Live : rows'[s].conf = rows[s].conf /\ rows'[s].name = rows[s].name /\ rows'[s].flag = rows[s].flag
  /\ ~spent'.lost /\ ~spent'.stale /\ ~spent'.astray =>
       \A s \in Live : rows'[s].enabled = rows[s].enabled

LEMMA HeldStep ==
  ASSUME SiteInv, HeldInv, PendInv', Grows, Kin, \A s \in Live : disk'.link[rows[s].name] = disk.link[rows[s].name],
         \A s \in Live : Unlinking(s) => Unlinking(s)',
         http' # Null /\ http'.op = "create" => OwnName(http'.row),
         ~spent'.lost /\ ~spent'.stale => JobOwn' /\ HttpOwn',
         ~spent'.lost /\ ~spent'.stale /\ ~spent'.astray => HttpLinks', JobLinks'
  PROVE  HeldInv'
<1>1. NamesInv'
  BY DEF HeldInv, NamesInv, OwnName, Imported, Kin
<1>2. OwnInv'
  BY DEF OwnInv
<1>3. LinkInv'
  <2> SUFFICES ASSUME ~spent'.lost, ~spent'.stale, ~spent'.astray, NEW s \in Live
               PROVE  LinkOK(s)'
    BY DEF LinkInv, Kin
  <2>1. LinkOK(s)
    BY DEF HeldInv, LinkInv, Grows
  <2>2. QED
    BY <2>1 DEF LinkOK, Kin, Imported
<1>4. QED
  BY <1>1, <1>2, <1>3 DEF HeldInv

(* The request goes on as it was.                                          *)
LEMMA HttpHeld ==
  ASSUME SiteInv, HeldInv, Grows, Kin, UNCHANGED http,
         ~spent'.stale => \A s \in Live : rows'[s].domain = rows[s].domain,
         \A l \in Confs : disk'.link[l] = disk.link[l],
         ~spent'.lost /\ ~spent'.stale => \A p \in Confs : disk.conf[p] # Absent =>
           disk'.conf[p] # Absent /\ disk'.conf[p].owner = disk.conf[p].owner
  PROVE  /\ http' # Null /\ http'.op = "create" => OwnName(http'.row)
         /\ ~spent'.lost /\ ~spent'.stale => HttpOwn'
         /\ ~spent'.lost /\ ~spent'.stale /\ ~spent'.astray => HttpLinks'
<1>1. http' # Null /\ http'.op = "create" => OwnName(http'.row)
  BY DEF HeldInv, NamesInv, OwnName, Imported
<1>2. ASSUME ~spent'.lost, ~spent'.stale, http # Null
      PROVE  HttpOwn'
  <2>1. HttpOwn
    BY <1>2 DEF HeldInv, OwnInv, Grows
  <2>2. http.op # "defaults" => DOMAIN http.tx.conf \subseteq Confs
    BY <1>2 DEF SiteInv, HttpInv, TxOK
  <2>3. http.op = "create" => \A o \in Live' : rows'[o].domain # http.row.domain
    BY <1>2, <2>1 DEF HttpOwn, Kin
  <2>4. QED
    BY <1>2, <2>1, <2>2, <2>3 DEF HttpOwn
<1>3. ASSUME ~spent'.lost, ~spent'.stale, ~spent'.astray, http # Null
      PROVE  HttpLinks'
  <2>1. HttpLinks
    BY <1>3 DEF HeldInv, LinkInv, Grows
  <2>2. http.op \notin {"create", "defaults"} => http.site \in Live
    BY <1>3 DEF SiteInv, HttpInv
  <2>3. PICK s : s = http.site
    OBVIOUS
  <2>4. http.op \notin {"create", "defaults"} =>
          /\ rows'[s].conf = rows[s].conf /\ rows'[s].name = rows[s].name
          /\ rows'[s].domain = rows[s].domain /\ rows'[s].enabled = rows[s].enabled
          /\ LinkOf(rows'[s]) = LinkOf(rows[s]) /\ LinkOf(rows[s]) \in Confs
    BY <1>3, <2>2, <2>3, LiveRow DEF SiteInv, Kin, LinkOf, Imported, Row, Confs
  <2>5. http.op = "create" => http.row.name \in Confs
    BY <1>3 DEF SiteInv, HttpInv, Row, Confs
  <2>6. QED
    BY <1>3, <2>1, <2>3, <2>4, <2>5 DEF HttpLinks, Imported
<1>4. QED
  BY <1>1, <1>2, <1>3 DEF HttpOwn, HttpLinks

LEMMA JobHeld ==
  ASSUME SiteInv, HeldInv, Grows,
         job' = job \/ job' = Null \/ (job # Null /\ job.kind = "deploy" /\ job' = [job EXCEPT !.pc = "store"])
  PROVE  JobLinks' /\ (~spent'.lost /\ ~spent'.stale => JobOwn')
<1>1. CASE job' = job \/ job' = Null
  BY <1>1 DEF HeldInv, OwnInv, NamesInv, Grows, JobOwn, JobLinks
<1>2. CASE job # Null /\ job.kind = "deploy" /\ job' = [job EXCEPT !.pc = "store"]
  <2>1. job'.tx = job.tx /\ job'.kind = job.kind /\ job.kind = "deploy"
    BY <1>2
  <2>2. QED
    BY <1>2, <2>1 DEF HeldInv, OwnInv, NamesInv, Grows, JobOwn, JobLinks
<1>3. QED
  BY <1>1, <1>2

(* What is not noted as stale writes a row's domain and status as they are. *)
LEMMA OverwriteHeld ==
  ASSUME SiteInv, NEW s \in SiteIds, NEW r \in Row, Overwrite(s, r), NoteStale(StaleRow(s, r))
  PROVE  /\ Kin
         /\ ~spent'.stale => \A o \in Live : rows'[o].domain = rows[o].domain
<1>1. /\ Live' = Live
      /\ \A o \in Live : /\ rows'[o].conf = rows[o].conf /\ rows'[o].flag = rows[o].flag
                         /\ rows'[o].name = rows[o].name
      /\ \A o \in SiteIds : o # s => rows'[o] = rows[o]
      /\ s \in Live => rows'[s] = rows[s] \/
           rows'[s] = [r EXCEPT !.flag = rows[s].flag, !.conf = rows[s].conf, !.name = rows[s].name]
  BY OverwriteKeeps DEF SiteInv
<1>2. ASSUME s \in Live, ~spent'.stale
      PROVE  rows'[s].domain = rows[s].domain /\ rows'[s].enabled = rows[s].enabled
  <2>1. PICK old \in Row : old = rows[s]
    BY <1>2, LiveRow DEF SiteInv
  <2>2. ~StaleRow(s, r)
    BY <1>2 DEF NoteStale, SiteInv, SpentOK
  <2>3. [old EXCEPT !.logs = r.logs, !.flag = r.flag] = r
    BY <1>2, <2>1, <2>2 DEF StaleRow
  <2>4. old.domain = r.domain /\ old.enabled = r.enabled
    BY <2>3 DEF Row
  <2>5. PICK new : new = [r EXCEPT !.flag = old.flag, !.conf = old.conf, !.name = old.name]
    OBVIOUS
  <2>6. new.domain = r.domain /\ new.enabled = r.enabled
    BY <2>5 DEF Row
  <2>7. rows'[s] = old \/ rows'[s] = new
    BY <1>1, <1>2, <2>1, <2>5
  <2>8. QED
    BY <2>1, <2>4, <2>6, <2>7
<1>3. ~spent'.stale => \A o \in Live : rows'[o].domain = rows[o].domain /\ rows'[o].enabled = rows[o].enabled
  BY <1>1, <1>2 DEF Live
<1>4. QED
  BY <1>1, <1>3 DEF Kin

(* Whatever background work writes, the file keeps its owner, but for what *)
(* is noted as stale.                                                      *)
LEMMA JobCallOwners ==
  ASSUME SiteInv, HeldInv, Grows, JobCall, ~spent'.lost, ~spent'.stale
  PROVE  \A p \in Confs : disk.conf[p] # Absent =>
           disk'.conf[p] # Absent /\ disk'.conf[p].owner = disk.conf[p].owner
<1>1. CASE UNCHANGED disk
  BY <1>1
<1>2. CASE /\ Acceptable(disk, job.tx) /\ disk' = After(disk, job.tx)
           /\ NoteStale(job.kind = "challenge" /\ StaleFile(job.tx))
  <2>1. PICK t : t = job.tx
    OBVIOUS
  <2>2. TxOK(t) /\ Acceptable(disk, t) /\ disk' = After(disk, t)
    BY <1>2, <2>1 DEF JobCall, SiteInv, JobInv
  <2>3. ~spent.lost /\ ~spent.stale /\ job # Null
    BY DEF Grows, JobCall
  <2>4. Stays(t)
    BY <2>1, <2>3 DEF HeldInv, PendInv, JobPend
  <2>5. \A p \in Confs : disk'.conf[p] = IF p \in DOMAIN t.conf THEN t.conf[p] ELSE disk.conf[p]
    BY <2>2, AfterOK DEF SiteInv
  <2>7. ASSUME NEW p \in Confs, disk.conf[p] # Absent, p \in DOMAIN t.conf
        PROVE  t.conf[p] # Absent /\ t.conf[p].owner = disk.conf[p].owner
    <3>1. t.conf[p] # Absent
      BY <2>4, <2>7 DEF Stays
    <3>2. PICK b \in Body : b = t.conf[p]
      BY <2>2, <2>7, <3>1 DEF TxOK
    <3>3. CASE t.hash # Null
      <4>1. disk.conf[p] = t.hash
        BY <2>2, <2>7, <3>3 DEF Acceptable
      <4>2. t.conf[p].owner = t.hash.owner
        BY <2>1, <2>3, <2>7, <3>3 DEF HeldInv, OwnInv, JobOwn
      <4>3. QED
        BY <3>1, <4>1, <4>2
    <3>4. CASE t.hash = Null
      <4>1. job.kind = "challenge"
        BY <2>1, <2>3, <3>4 DEF HeldInv, OwnInv, JobOwn, JobCall
      <4>2. ~StaleFile(t)
        BY <1>2, <2>1, <4>1 DEF NoteStale, SiteInv, SpentOK
      <4>3. [b EXCEPT !.tls = "plain"] = disk.conf[p]
        BY <2>7, <3>2, <4>2 DEF StaleFile
      <4>4. QED
        BY <3>1, <3>2, <4>3 DEF Body
    <3>5. QED
      BY <3>3, <3>4
  <2>8. QED
    BY <2>1, <2>5, <2>7
<1>3. QED
  BY <1>1, <1>2 DEF JobCall

LEMMA HeldLost ==
  ASSUME HeldInv, PendInv', spent'.lost, UNCHANGED tables, JobLinks',
         http' = Null \/ http' = http \/ (http # Null /\ http'.op = http.op /\ http'.row = http.row)
  PROVE  HeldInv'
BY DEF HeldInv, OwnInv, LinkInv, NamesInv, OwnName, Imported, tables, Live

LEMMA HeldWork ==
  ASSUME SiteInv, HeldInv, PendInv', Grows, Work, SiteInv'
  PROVE  HeldInv'
<1>1. ASSUME NEW s \in SiteIds, RefreshStart(s) \/ ChallengeStart(s) \/ (\E c \in Certs : DeployStart(s, c))
      PROVE  HeldInv'
  <2>1. /\ JobAsks(job'.tx) /\ UNCHANGED <<tables, disk, http, late>>
        /\ job'.kind \in {"refresh", "challenge", "deploy"}
        /\ job'.kind = "refresh" => job'.pc # "call"
        /\ job'.kind = "deploy" => job'.tx.hash # Null
    BY <1>1, BackgroundAsks
  <2>2. JobOwn' /\ JobLinks'
    BY <2>1 DEF JobAsks, JobOwn, JobLinks
  <2>3. Kin /\ \A s1 \in Live : rows'[s1].domain = rows[s1].domain
    BY <2>1 DEF Kin, tables, Live
  <2>4. /\ http' # Null /\ http'.op = "create" => OwnName(http'.row)
        /\ ~spent'.lost /\ ~spent'.stale => HttpOwn'
        /\ ~spent'.lost /\ ~spent'.stale /\ ~spent'.astray => HttpLinks'
    BY <2>1, <2>3, HttpHeld
  <2>5. \A s1 \in Live : Unlinking(s1) => Unlinking(s1)'
    BY <2>1 DEF Unlinking
  <2>6. QED
    BY <2>1, <2>2, <2>3, <2>4, <2>5, HeldStep
<1>2. ASSUME UNCHANGED <<disk, http>>, Kin, job' = job \/ job' = Null,
             ~spent'.stale => \A o \in Live : rows'[o].domain = rows[o].domain
      PROVE  HeldInv'
  <2>1. JobLinks' /\ (~spent'.lost /\ ~spent'.stale => JobOwn')
    BY <1>2, JobHeld
  <2>2. /\ http' # Null /\ http'.op = "create" => OwnName(http'.row)
        /\ ~spent'.lost /\ ~spent'.stale => HttpOwn'
        /\ ~spent'.lost /\ ~spent'.stale /\ ~spent'.astray => HttpLinks'
    BY <1>2, HttpHeld
  <2>3. \A s \in Live : Unlinking(s) => Unlinking(s)'
    BY <1>2 DEF Unlinking
  <2>4. QED
    BY <1>2, <2>1, <2>2, <2>3, HeldStep
<1>3. CASE RefreshLogPaths
  <2>1. CASE UNCHANGED rows
    BY <1>2, <1>3, <2>1 DEF RefreshLogPaths, Kin, Live
  <2>2. CASE ~UNCHANGED rows
    <3>1. PICK s \in SiteIds : s = job.site
      BY <1>3 DEF RefreshLogPaths, SiteInv, JobInv
    <3>2. PICK row \in Row : row = job.row
      BY <1>3 DEF RefreshLogPaths, SiteInv, JobInv
    <3>3. PICK body : body = disk.conf[row.conf]
      OBVIOUS
    <3>4. body # Absent
      BY <1>3, <2>2, <3>2, <3>3 DEF RefreshLogPaths
    <3>5. body \in Body
      BY <3>3, <3>4 DEF SiteInv, DiskOK, Row
    <3>6. PICK new \in Row : new = [row EXCEPT !.logs = body.text]
      BY <3>5 DEF Row, Body
    <3>7. Overwrite(s, new) /\ NoteStale(StaleRow(s, new))
      BY <1>3, <2>2, <3>1, <3>2, <3>3, <3>6 DEF RefreshLogPaths
    <3>8. Kin /\ (~spent'.stale => \A o \in Live : rows'[o].domain = rows[o].domain)
      BY <3>7, OverwriteHeld
    <3>9. QED
      BY <1>2, <1>3, <3>8 DEF RefreshLogPaths
  <2>3. QED
    BY <2>1, <2>2
<1>4. CASE DeployFinish
  <2>1. PICK s \in SiteIds : s = job.site
    BY <1>4 DEF DeployFinish, SiteInv, JobInv
  <2>2. PICK row \in Row : row = job.row
    BY <1>4 DEF DeployFinish, SiteInv, JobInv
  <2>3. Overwrite(s, row) /\ NoteStale(StaleRow(s, row))
    BY <1>4, <2>1, <2>2 DEF DeployFinish
  <2>4. Kin /\ (~spent'.stale => \A o \in Live : rows'[o].domain = rows[o].domain)
    BY <2>3, OverwriteHeld
  <2>5. QED
    BY <1>2, <1>4, <2>4 DEF DeployFinish
<1>5. CASE JobCall
  <2>1. job # Null /\ UNCHANGED <<tables, http, late>>
    BY <1>5 DEF JobCall
  <2>2. job' = Null \/ (job # Null /\ job.kind = "deploy" /\ job' = [job EXCEPT !.pc = "store"])
    BY <1>5 DEF JobCall
  <2>3. JobLinks' /\ (~spent'.lost /\ ~spent'.stale => JobOwn')
    BY <2>2, JobHeld
  <2>4. Kin /\ \A s \in Live : rows'[s].domain = rows[s].domain
    BY <2>1 DEF Kin, tables, Live
  <2>5. \A l \in Confs : disk'.link[l] = disk.link[l]
    <3>1. CASE UNCHANGED disk
      BY <3>1
    <3>2. CASE disk' = After(disk, job.tx)
      <4>1. PICK t : t = job.tx
        OBVIOUS
      <4>2. TxOK(t) /\ DOMAIN t.link = {} /\ disk' = After(disk, t)
        BY <2>1, <3>2, <4>1 DEF SiteInv, JobInv, HeldInv, NamesInv, JobLinks
      <4>3. QED
        BY <4>2, AfterOK DEF SiteInv
    <3>3. QED
      BY <1>5, <3>1, <3>2 DEF JobCall
  <2>6. /\ http' # Null /\ http'.op = "create" => OwnName(http'.row)
        /\ ~spent'.lost /\ ~spent'.stale => HttpOwn'
        /\ ~spent'.lost /\ ~spent'.stale /\ ~spent'.astray => HttpLinks'
    BY <1>5, <2>1, <2>4, <2>5, HttpHeld, JobCallOwners
  <2>7. \A s \in Live : Unlinking(s) => Unlinking(s)'
    BY <2>1 DEF Unlinking
  <2>8. \A s \in Live : rows[s].name \in Confs
    BY LiveRow DEF SiteInv, Row, Confs
  <2>9. QED
    BY <2>3, <2>4, <2>5, <2>6, <2>7, <2>8, HeldStep
<1>6. CASE JobGivesUp
  <2>1. spent'.lost
    BY <1>6, SpentLost DEF JobGivesUp, SiteInv
  <2>2. JobLinks' /\ UNCHANGED <<tables, http>>
    BY <1>6 DEF JobGivesUp, JobLinks
  <2>3. QED
    BY <2>1, <2>2, HeldLost
<1>7. QED
  BY <1>1, <1>3, <1>4, <1>5, <1>6 DEF Work

(* Requests that end, or go on with the next site of a default page.       *)
LEMMA HeldEnd ==
  ASSUME SiteInv, HeldInv, PendInv', Grows, UNCHANGED <<disk, job>>,
         http' = Null \/ http'.op = "defaults",
         \A s \in Live' : OwnName(rows'[s]),
         ~spent'.lost /\ ~spent'.stale /\ ~spent'.astray =>
           \A s \in Live' :
             /\ ~Imported(rows'[s]) /\ rows'[s].enabled => disk.link[rows'[s].name] = rows'[s].conf
             /\ rows'[s].flag => rows'[s].enabled
  PROVE  HeldInv'
<1>1. NamesInv'
  BY DEF HeldInv, NamesInv, JobLinks, OwnName, Imported
<1>2. OwnInv'
  BY DEF HeldInv, OwnInv, Grows, JobOwn, HttpOwn
<1>3. LinkInv'
  BY DEF LinkInv, HttpLinks, LinkOK, Imported
<1>4. QED
  BY <1>1, <1>2, <1>3 DEF HeldInv

(* Before a site is disabled or deleted, its link is there.                *)
LEMMA LinkedNow ==
  ASSUME SiteInv, HeldInv, Grows, ~spent'.lost, ~spent'.stale, ~spent'.astray, NEW s \in Live, ~Unlinking(s)
  PROVE  /\ ~Imported(rows[s]) /\ rows[s].enabled => disk.link[rows[s].name] = rows[s].conf
         /\ rows[s].flag => rows[s].enabled
BY DEF HeldInv, LinkInv, Grows, LinkOK

LEMMA HeldMaintain ==
  ASSUME SiteInv, HeldInv, PendInv', Grows, NEW s \in Live, NEW on \in BOOLEAN,
         NEW html \in Htmls \cup {Null}, NEW todo \in SUBSET SiteIds, Maintain(s, on, html, todo),
         ConfOf(s) # Absent, on => rows[s].enabled, UNCHANGED <<rows, disk, job, late>>,
         http = Null \/ http.op = "defaults"
  PROVE  HeldInv'
<1>1. http'.site = s /\ http'.op = "maintain" /\ http'.want = on
  BY DEF Maintain
<1>2. DOMAIN http'.tx.conf = {rows[s].conf} /\ http'.tx.conf[rows[s].conf] \in Body
  BY TransitionOK
<1>3. http'.tx.conf[rows[s].conf].owner = ConfOf(s).owner /\ DOMAIN http'.tx.link = {}
  BY TransitionOK
<1>4. HttpOwn'
  BY <1>1, <1>2, <1>3, SitesAssumption DEF HttpOwn, ConfOf
<1>5. HttpLinks'
  BY <1>1, <1>3 DEF HttpLinks
<1>6. JobLinks' /\ (~spent'.lost /\ ~spent'.stale => JobOwn')
  BY JobHeld
<1>7. Kin
  BY DEF Kin, Live
<1>8. \A o \in Live : Unlinking(o) => Unlinking(o)'
  BY DEF Unlinking
<1>9. QED
  BY <1>1, <1>4, <1>5, <1>6, <1>7, <1>8, HeldStep

LEMMA HeldRequest ==
  ASSUME SiteInv, HeldInv, PendInv', Grows, Request
  PROVE  HeldInv'
<1>1. http = Null
  <2>1. (Serve => http = Null) /\ \A s \in SiteIds : ServeNew(s) => http = Null
    BY DEF Serve, ServeNew
  <2>2. PICK s \in SiteIds :
          \/ \E d \in Domains, b \in BOOLEAN : StartCreate(s, d, b)
          \/ \E c \in Certs : StartReplace(s, c)
          \/ \E f \in Foreign : StartImport(s, f)
          \/ \E d \in Domains, text \in Texts : StartUpdate(s, d, text) \/ StartSave(s, d, text)
          \/ \E text \in Texts : StartUpdateDocument(s, text)
          \/ StartEnable(s) \/ StartDisable(s) \/ StartDelete(s)
          \/ \E b \in BOOLEAN, html \in Htmls \cup {Null} : StartMaintain(s, b, html)
    BY DEF Request
  <2>3. ServeNew(s) \/ Serve
    BY <2>2 DEF StartCreate, StartReplace, StartImport, StartUpdate, StartSave,
       StartUpdateDocument, StartEnable, StartDisable, StartDelete, StartMaintain
  <2>4. QED
    BY <2>1, <2>3
<1>2. CASE \E s \in SiteIds : Asked(s)
  <2>1. PICK s, op, r, t :
          /\ s \in SiteIds /\ op \in Ops \ {"maintain", "defaults"}
          /\ Calling(op, s, r, t) /\ Asks(op, s, r, t) /\ (op # "create" => s \in Live)
          /\ UNCHANGED <<tables, disk, job, late>>
    BY <1>2 DEF Asked
  <2>2. http'.op = op /\ http'.site = s /\ http'.tx = t /\ http'.row = r /\ http'.pc = "call"
    BY <2>1 DEF Calling
  <2>3. Live' = Live /\ UNCHANGED rows
    BY <2>1 DEF tables, Live
  <2>4. HttpOwn'
    BY <2>1, <2>2, <2>3 DEF Asks, HttpOwn, ConfOf, Ops, Stays
  <2>5. HttpLinks'
    <3>1. op \in {"disable", "delete"} => Removal(http')
      <4> SUFFICES ASSUME op \in {"disable", "delete"}
                   PROVE  Removal(http')
        OBVIOUS
      <4>1. PICK q \in Row : t \in {Unlink(q), Erase(q)} /\ r = Null
        BY <2>1 DEF Asks
      <4>2. http' = Removing(op, "call", s, t)
        BY <2>1, <4>1 DEF Calling, Removing
      <4>3. QED
        BY <2>1, <4>1, <4>2 DEF Removal
    <3>2. QED
      BY <2>1, <2>2, <2>3, <3>1 DEF Asks, HttpLinks, Ops
  <2>6. http'.op = "create" => OwnName(http'.row)
    BY <2>1, <2>2 DEF Asks, OwnName, Imported
  <2>7. JobLinks' /\ (~spent'.lost /\ ~spent'.stale => JobOwn')
    BY <2>1, JobHeld
  <2>8. Kin
    BY <2>3 DEF Kin
  <2>9. \A o \in Live : Unlinking(o) => Unlinking(o)'
    BY <1>1 DEF Unlinking
  <2>10. QED
    BY <2>1, <2>4, <2>5, <2>6, <2>7, <2>8, <2>9, HeldStep
<1>3. CASE \E s \in Live, on \in BOOLEAN, html \in Htmls \cup {Null} : StartMaintain(s, on, html)
  <2>1. PICK s \in Live, on \in BOOLEAN, html \in Htmls \cup {Null} : StartMaintain(s, on, html)
    BY <1>3
  <2>2. /\ ConfOf(s) # Absent /\ Maintain(s, on, html, {}) /\ UNCHANGED <<rows, disk, job, late>>
        /\ on => rows[s].enabled
    BY <2>1 DEF StartMaintain, MayMaintain
  <2>3. {} \in SUBSET SiteIds
    OBVIOUS
  <2>4. QED
    BY <1>1, <2>2, <2>3, HeldMaintain
<1>4. QED
  BY <1>2, <1>3, RequestAsks

LEMMA HeldDefaults ==
  ASSUME SiteInv, HeldInv, PendInv', Grows, NEW html \in Htmls, SetDefaults(html)
  PROVE  HeldInv'
<1>1. http = Null /\ UNCHANGED <<rows, disk, job>> /\ (http' = Null \/ http'.op = "defaults")
  BY DEF SetDefaults, Serve, NextOf
<1>2. \A s \in Live' : OwnName(rows'[s]) /\ s \in Live /\ rows'[s] = rows[s]
  BY <1>1 DEF HeldInv, NamesInv, Live
<1>3. \A s \in Live : ~Unlinking(s)
  BY <1>1 DEF Unlinking
<1>4. QED
  BY <1>1, <1>2, <1>3, HeldEnd, LinkedNow

LEMMA RemovalGoesOn ==
  ASSUME NEW q, Removal(q), NEW new \in {"done", "failed"}
  PROVE  /\ Removal([q EXCEPT !.pc = new])
         /\ new = "done" => [q EXCEPT !.pc = new] # Null
<1>1. PICK op \in {"disable", "delete"}, pc \in {"call", "done", "failed"}, s \in SiteIds, r \in Row :
        \E t \in {Unlink(r), Erase(r)} : q = Removing(op, pc, s, t)
  BY DEF Removal
<1>2. PICK t \in {Unlink(r), Erase(r)} : q = Removing(op, pc, s, t)
  BY <1>1
<1>3. [q EXCEPT !.pc = new] = Removing(op, new, s, t)
  <2>1. PICK no, none : no = FALSE /\ none = {}
    OBVIOUS
  <2>2. q = [op |-> op, pc |-> pc, site |-> s, row |-> Null, tx |-> t, want |-> no, todo |-> none]
    BY <1>2, <2>1 DEF Removing
  <2>3. Removing(op, new, s, t) =
          [op |-> op, pc |-> new, site |-> s, row |-> Null, tx |-> t, want |-> no, todo |-> none]
    BY <2>1 DEF Removing
  <2>4. QED
    BY <2>2, <2>3
<1>4. Removal([q EXCEPT !.pc = new])
  BY <1>1, <1>2, <1>3 DEF Removal
<1>5. new = "done" => [q EXCEPT !.pc = new] # Null
  BY <1>1, <1>2, <1>3, RequestAssumption DEF Removing
<1>6. QED
  BY <1>4, <1>5

(* What a transaction links is its own site's, and leads to its file.      *)
LEMMA LinksWritten ==
  ASSUME SiteInv, HeldInv, Grows, http # Null, http.pc = "call", ~spent'.lost, ~spent'.stale, ~spent'.astray,
         disk' = After(disk, http.tx), NEW s \in Live, ~Imported(rows[s]), rows[s].enabled
  PROVE  \/ disk'.link[rows[s].name] = rows[s].conf
         \/ http.op \in {"disable", "delete"} /\ http.site = s
<1>1. PICK t : t = http.tx
  OBVIOUS
<1>2. http.op \in Ops \ {"defaults"} /\ http.site \in SiteIds /\ TxOK(t)
  BY <1>1 DEF SiteInv, HttpInv
<1>3. PICK row \in Row : row = rows[s]
  BY LiveRow DEF SiteInv
<1>4. row.name \in Confs /\ row.name \notin Foreign /\ row.name = row.conf
  BY <1>3, SitesAssumption DEF Row, Confs, HeldInv, NamesInv, OwnName
<1>5. disk'.link[row.name] = IF row.name \in DOMAIN t.link THEN t.link[row.name] ELSE disk.link[row.name]
  BY <1>1, <1>2, <1>4, AfterOK DEF SiteInv
<1>6. disk.link[row.name] = row.conf
  BY <1>3, LinkedNow DEF Unlinking
<1>7. HttpLinks
  BY DEF HeldInv, LinkInv, Grows
<1>8. CASE http.op = "create"
  BY <1>1, <1>3, <1>4, <1>5, <1>6, <1>7, <1>8 DEF HttpLinks
<1>9. CASE http.op \in {"edit", "replace", "maintain"}
  BY <1>1, <1>3, <1>5, <1>6, <1>7, <1>9 DEF HttpLinks
<1>10. CASE http.op = "enable"
  <2>1. http.site \in Live /\ http.site # s
    BY <1>7, <1>10 DEF SiteInv, HttpInv, HttpLinks
  <2>2. row.name # LinkOf(rows[http.site])
    BY <1>3, <1>4, <2>1 DEF LinkOf, Imported, SiteInv, RowsInv
  <2>3. QED
    BY <1>1, <1>3, <1>5, <1>6, <1>7, <1>10, <2>2 DEF HttpLinks
<1>11. CASE http.op \in {"disable", "delete"} /\ http.site # s
  <2>1. row.name # rows[http.site].name
    BY <1>3, <1>11 DEF SiteInv, HttpInv, RowsInv
  <2>2. QED
    BY <1>1, <1>3, <1>5, <1>6, <1>7, <1>11, <2>1 DEF HttpLinks
<1>12. QED
  BY <1>2, <1>8, <1>9, <1>10, <1>11 DEF Ops

LEMMA HeldCall ==
  ASSUME SiteInv, HeldInv, PendInv', Grows, Call
  PROVE  HeldInv'
<1>1. /\ http # Null /\ http.pc = "call" /\ late = Null /\ UNCHANGED <<tables, job, late>>
  BY DEF Call
<1>2. PICK pc \in {"done", "failed"} : http' = [http EXCEPT !.pc = pc]
  BY DEF Call
<1>3. PICK t : t = http.tx
  OBVIOUS
<1>4. http.op \in Ops \ {"defaults"} /\ http.site \in SiteIds /\ TxOK(t)
  BY <1>1, <1>3 DEF SiteInv, HttpInv
<1>5. /\ http'.op = http.op /\ http'.site = http.site /\ http'.tx = http.tx /\ http'.row = http.row
      /\ http'.want = http.want
  BY <1>2
<1>6. http'.pc = pc
  BY <1>2
<1>7. Live' = Live /\ UNCHANGED rows /\ Kin
  BY <1>1 DEF tables, Live, Kin
<1>8. JobLinks' /\ (~spent'.lost /\ ~spent'.stale => JobOwn')
  BY <1>1, JobHeld
<1>9. http'.op = "create" => OwnName(http'.row)
  BY <1>1, <1>5 DEF HeldInv, NamesInv, OwnName, Imported
<1>10. ~spent'.lost /\ ~spent'.stale => HttpOwn'
  <2> SUFFICES ASSUME ~spent'.lost, ~spent'.stale
               PROVE  HttpOwn'
    OBVIOUS
  <2>1. HttpOwn
    BY DEF HeldInv, OwnInv, Grows
  <2>2. QED
    BY <1>1, <1>2, <1>5, <1>6, <1>7, <2>1 DEF HttpOwn
<1>11. ASSUME pc = "done" => \A l \in Confs : l \in DOMAIN t.link => disk'.link[l] = t.link[l]
       PROVE  ~spent'.lost /\ ~spent'.stale /\ ~spent'.astray => HttpLinks'
  <2> SUFFICES ASSUME ~spent'.lost, ~spent'.stale, ~spent'.astray
               PROVE  HttpLinks'
    OBVIOUS
  <2>1. HttpLinks
    BY DEF HeldInv, LinkInv, Grows
  <2>2. DOMAIN t.link \subseteq Confs
    BY <1>4 DEF TxOK
  <2>3. PICK s : s = http.site
    OBVIOUS
  <2>4. http.op = "enable" /\ pc = "done" => disk'.link[LinkOf(rows[s])] = rows[s].domain
    BY <1>1, <1>3, <1>11, <2>1, <2>2, <2>3 DEF HttpLinks
  <2>5. http.op = "create" /\ pc = "done" /\ ~Imported(http.row) /\ http.row.enabled =>
          disk'.link[http.row.name] = http.row.name
    BY <1>1, <1>3, <1>11, <2>1, <2>2 DEF HttpLinks
  <2>6. UNCHANGED rows
    BY <1>7
  <2>7. Removal(http) => Removal(http')
    BY <1>2, RemovalGoesOn
  <2>8. QED
    BY <1>1, <1>5, <1>6, <2>1, <2>3, <2>4, <2>5, <2>6, <2>7 DEF HttpLinks, Imported, LinkOf
<1>12. CASE http' = [http EXCEPT !.pc = "failed"] /\ UNCHANGED disk
  <2>1. pc = "failed"
    BY <1>6, <1>12
  <2>2. ~spent'.lost /\ ~spent'.stale /\ ~spent'.astray => HttpLinks'
    BY <1>11, <2>1
  <2>3. \A s \in Live : Unlinking(s) => Unlinking(s)'
    BY <1>1 DEF Unlinking
  <2>4. QED
    BY <1>7, <1>8, <1>9, <1>10, <1>12, <2>2, <2>3, HeldStep
<1>13. CASE disk' = After(disk, http.tx) /\ http' = [http EXCEPT !.pc = "done"]
  <2>1. \A l \in Confs : l \in DOMAIN t.link => disk'.link[l] = t.link[l]
    BY <1>3, <1>4, <1>13, AfterOK DEF SiteInv
  <2>2. ~spent'.lost /\ ~spent'.stale /\ ~spent'.astray => HttpLinks'
    BY <1>11, <2>1
  <2>3. ASSUME ~spent'.lost, ~spent'.stale, ~spent'.astray, http.op \in {"disable", "delete"}
        PROVE  http' # Null
    <3>1. HttpLinks
      BY <2>3 DEF HeldInv, LinkInv, Grows
    <3>2. Removal(http)
      BY <1>1, <2>3, <3>1 DEF HttpLinks
    <3>3. QED
      BY <1>13, <3>2, RemovalGoesOn
  <2>4. ~spent'.lost /\ ~spent'.stale /\ ~spent'.astray =>
          \A s \in Live : http.op \in {"disable", "delete"} /\ http.site = s => Unlinking(s)'
    BY <1>5, <1>13, <2>3 DEF Unlinking
  <2>5. ASSUME ~spent'.lost, ~spent'.stale, ~spent'.astray, NEW s \in Live
        PROVE  LinkOK(s)'
    <3>1. rows[s].flag => rows[s].enabled
      BY <1>1, <2>5, LinkedNow DEF Unlinking
    <3>2. ~Imported(rows[s]) /\ rows[s].enabled =>
            \/ disk'.link[rows[s].name] = rows[s].conf
            \/ http.op \in {"disable", "delete"} /\ http.site = s
      BY <1>1, <1>13, <2>5, LinksWritten
    <3>3. ~Imported(rows[s]) /\ rows[s].enabled => disk'.link[rows[s].name] = rows[s].conf \/ Unlinking(s)'
      BY <2>4, <2>5, <3>2
    <3>4. UNCHANGED rows
      BY <1>7
    <3>5. QED
      BY <3>1, <3>3, <3>4 DEF LinkOK, Imported
  <2>6. LinkInv'
    BY <1>7, <2>2, <2>5 DEF LinkInv
  <2>7. NamesInv'
    BY <1>7, <1>8, <1>9 DEF NamesInv, OwnName, Imported, HeldInv
  <2>8. OwnInv'
    BY <1>8, <1>10 DEF OwnInv
  <2>9. QED
    BY <2>6, <2>7, <2>8 DEF HeldInv
<1>14. QED
  BY <1>12, <1>13 DEF Call

LEMMA HeldCreate ==
  ASSUME SiteInv, HeldInv, PendInv', Grows, FinishCreate
  PROVE  HeldInv'
<1>1. /\ http # Null /\ http.op = "create" /\ http.pc = "done" /\ http' = Null /\ UNCHANGED <<disk, job>>
  BY DEF FinishCreate, Finishing, EndRequest
<1>2. PICK s \in SiteIds : s = http.site
  BY <1>1 DEF SiteInv, HttpInv
<1>3. PICK r \in Row : r = http.row /\ ~r.flag /\ OwnName(r)
  BY <1>1 DEF SiteInv, HttpInv, HeldInv, NamesInv
<1>4. rows' = rows \/ rows' = [rows EXCEPT ![s] = r]
  BY <1>2, <1>3 DEF FinishCreate, Insert
<1>5. \A o \in Live' : rows'[o] = r \/ (o \in Live /\ rows'[o] = rows[o])
  BY <1>4 DEF Live, SiteInv, TablesOK
<1>6. \A o \in Live' : OwnName(rows'[o])
  BY <1>3, <1>5 DEF HeldInv, NamesInv
<1>7. ASSUME ~spent'.lost, ~spent'.stale, ~spent'.astray, NEW o \in Live'
      PROVE  /\ ~Imported(rows'[o]) /\ rows'[o].enabled => disk.link[rows'[o].name] = rows'[o].conf
             /\ rows'[o].flag => rows'[o].enabled
  <2>1. CASE rows'[o] = r
    <3>1. HttpLinks
      BY <1>7 DEF HeldInv, LinkInv, Grows
    <3>2. ~Imported(r) /\ r.enabled => disk.link[r.name] = r.name
      BY <1>1, <1>3, <3>1 DEF HttpLinks
    <3>3. QED
      BY <1>3, <2>1, <3>2 DEF OwnName
  <2>2. CASE o \in Live /\ rows'[o] = rows[o]
    <3>1. ~Unlinking(o)
      BY <1>1 DEF Unlinking
    <3>2. QED
      BY <1>7, <2>2, <3>1, LinkedNow
  <2>3. QED
    BY <1>5, <2>1, <2>2
<1>8. QED
  BY <1>1, <1>6, <1>7, HeldEnd

LEMMA HeldEdit ==
  ASSUME SiteInv, HeldInv, PendInv', Grows, FinishEdit
  PROVE  HeldInv'
<1>1. /\ http # Null /\ http.op = "edit" /\ http.pc = "done" /\ http' = Null /\ UNCHANGED <<disk, job>>
  BY DEF FinishEdit, Finishing, EndRequest
<1>2. PICK s \in Live : s = http.site
  BY <1>1 DEF SiteInv, HttpInv
<1>3. PICK r \in Row : r = http.row
  BY <1>1 DEF SiteInv, HttpInv
<1>4. s \in SiteIds /\ Overwrite(s, r)
  BY <1>2, <1>3 DEF FinishEdit, Live
<1>5. /\ Live' = Live
      /\ \A o \in Live : /\ rows'[o].conf = rows[o].conf /\ rows'[o].flag = rows[o].flag
                         /\ rows'[o].name = rows[o].name
      /\ \A o \in SiteIds : o # s => rows'[o] = rows[o]
      /\ rows'[s] = rows[s] \/
           rows'[s] = [r EXCEPT !.flag = rows[s].flag, !.conf = rows[s].conf, !.name = rows[s].name]
  BY <1>4, OverwriteKeeps DEF SiteInv
<1>6. ASSUME ~spent'.lost, ~spent'.stale, ~spent'.astray, NEW o \in Live
      PROVE  rows'[o].enabled = rows[o].enabled
  <2>1. r.enabled = rows[s].enabled
    BY <1>1, <1>2, <1>3, <1>6 DEF HeldInv, LinkInv, Grows, HttpLinks
  <2>2. PICK old : old = rows[s]
    OBVIOUS
  <2>3. PICK new : new = [r EXCEPT !.flag = old.flag, !.conf = old.conf, !.name = old.name]
    OBVIOUS
  <2>4. new.enabled = r.enabled
    BY <2>3 DEF Row
  <2>5. o = s => rows'[o] = old \/ rows'[o] = new
    BY <1>5, <2>2, <2>3
  <2>6. QED
    BY <1>5, <2>1, <2>2, <2>4, <2>5 DEF Live
<1>7. \A o \in Live' : OwnName(rows'[o]) /\ o \in Live
  BY <1>5 DEF HeldInv, NamesInv, OwnName, Imported
<1>8. \A o \in Live : ~Unlinking(o)
  BY <1>1 DEF Unlinking
<1>9. ASSUME ~spent'.lost, ~spent'.stale, ~spent'.astray, NEW o \in Live'
      PROVE  /\ ~Imported(rows'[o]) /\ rows'[o].enabled => disk.link[rows'[o].name] = rows'[o].conf
             /\ rows'[o].flag => rows'[o].enabled
  <2>1. o \in Live
    BY <1>7
  <2>2. /\ ~Imported(rows[o]) /\ rows[o].enabled => disk.link[rows[o].name] = rows[o].conf
        /\ rows[o].flag => rows[o].enabled
    BY <1>8, <1>9, <2>1, LinkedNow
  <2>3. QED
    BY <1>5, <1>6, <1>9, <2>1, <2>2 DEF Imported
<1>10. QED
  BY <1>1, <1>7, <1>9, HeldEnd

(* The link that enabling wrote leads to the site's file, unless the site  *)
(* went by another domain, which is noted.                                 *)
LEMMA HeldStatus ==
  ASSUME SiteInv, HeldInv, PendInv', Grows, FinishEnable \/ FinishDisable
  PROVE  HeldInv'
<1>1. /\ http # Null /\ http.op \in {"enable", "disable"} /\ http.pc = "done" /\ http' = Null
      /\ UNCHANGED <<disk, job>>
  BY DEF FinishEnable, FinishDisable, Finishing, EndRequest
<1>2. PICK s \in Live : s = http.site
  BY <1>1 DEF SiteInv, HttpInv
<1>3. PICK old \in Row : old = rows[s]
  BY LiveRow DEF SiteInv
<1>4. PICK on \in BOOLEAN : on = (http.op = "enable") /\ rows' = [rows EXCEPT ![s].enabled = on]
  BY <1>1, <1>2 DEF FinishEnable, FinishDisable, Finishing
<1>5. PICK new \in Row : new = [old EXCEPT !.enabled = on]
  BY DEF Row
<1>6. new.conf = old.conf /\ new.name = old.name /\ new.flag = old.flag /\ new.enabled = on /\ new # Null
  BY <1>5, SitesAssumption DEF Row
<1>7. rows' = [rows EXCEPT ![s] = new]
  BY <1>3, <1>4, <1>5
<1>8. \A o \in Live' : o \in Live /\ rows'[o] = IF o = s THEN new ELSE rows[o]
  BY <1>7 DEF Live, SiteInv, TablesOK
<1>9. \A o \in Live' : OwnName(rows'[o])
  BY <1>3, <1>6, <1>8 DEF HeldInv, NamesInv, OwnName, Imported
<1>10. ASSUME ~spent'.lost, ~spent'.stale, ~spent'.astray, NEW o \in Live'
       PROVE  /\ ~Imported(rows'[o]) /\ rows'[o].enabled => disk.link[rows'[o].name] = rows'[o].conf
              /\ rows'[o].flag => rows'[o].enabled
  <2>1. CASE o # s
    <3>1. o \in Live /\ ~Unlinking(o) /\ rows'[o] = rows[o]
      BY <1>2, <1>8, <2>1 DEF Unlinking
    <3>2. QED
      BY <1>10, <3>1, LinkedNow
  <2>2. CASE o = s
    <3>1. ~old.flag
      BY <1>1, <1>2, <1>3 DEF SiteInv, HttpInv, Blocked
    <3>2. ASSUME ~Imported(old), on
          PROVE  disk.link[old.name] = old.conf
      <4>1. http.op = "enable"
        BY <1>4, <3>2
      <4>2. FinishEnable
        BY <4>1 DEF FinishDisable, Finishing
      <4>3. ~Renamed(old)
        BY <1>2, <1>3, <1>10, <4>2 DEF FinishEnable, NoteAstray, SiteInv, SpentOK
      <4>4. old.domain = old.conf
        BY <3>2, <4>3 DEF Renamed
      <4>5. disk.link[LinkOf(old)] = old.domain
        BY <1>1, <1>2, <1>3, <1>10, <4>1 DEF HeldInv, LinkInv, Grows, HttpLinks
      <4>6. QED
        BY <3>2, <4>4, <4>5 DEF LinkOf
    <3>3. QED
      BY <1>6, <1>8, <2>2, <3>1, <3>2 DEF Imported
  <2>3. QED
    BY <2>1, <2>2
<1>11. QED
  BY <1>1, <1>9, <1>10, HeldEnd

LEMMA HeldDelete ==
  ASSUME SiteInv, HeldInv, PendInv', Grows, FinishDelete
  PROVE  HeldInv'
<1>1. /\ http # Null /\ http.op = "delete" /\ http.pc = "done" /\ http' = Null
      /\ UNCHANGED <<disk, job>>
  BY DEF FinishDelete, Finishing, EndRequest
<1>2. PICK s \in Live : s = http.site
  BY <1>1 DEF SiteInv, HttpInv
<1>3. CASE DeleteRow(s)
  <2>1. \A o \in Live' : o \in Live /\ o # s /\ rows'[o] = rows[o]
    BY <1>3 DEF DeleteRow, Live, SiteInv, TablesOK
  <2>2. \A o \in Live' : OwnName(rows'[o])
    BY <2>1 DEF HeldInv, NamesInv
  <2>3. \A o \in Live' : ~Unlinking(o)
    BY <1>2, <2>1 DEF Unlinking
  <2>4. ASSUME ~spent'.lost, ~spent'.stale, ~spent'.astray, NEW o \in Live'
        PROVE  /\ ~Imported(rows'[o]) /\ rows'[o].enabled => disk.link[rows'[o].name] = rows'[o].conf
               /\ rows'[o].flag => rows'[o].enabled
    <3>1. o \in Live /\ rows'[o] = rows[o]
      BY <2>1
    <3>2. QED
      BY <2>3, <2>4, <3>1, LinkedNow
  <2>5. QED
    BY <1>1, <2>2, <2>4, HeldEnd
<1>4. CASE Kept /\ UNCHANGED rows
  <2>1. spent'.astray
    BY <1>4 DEF Kept, SiteInv, SpentOK
  <2>2. \A o \in Live' : OwnName(rows'[o])
    BY <1>4 DEF HeldInv, NamesInv, Live
  <2>3. QED
    BY <1>1, <2>1, <2>2, HeldEnd
<1>5. QED
  BY <1>2, <1>3, <1>4 DEF FinishDelete

(* Only an enabled site is confirmed to be in maintenance.                 *)
LEMMA HeldConfirm ==
  ASSUME SiteInv, HeldInv, PendInv', Grows, FinishMaintain
  PROVE  HeldInv'
<1>1. /\ http # Null /\ http.op = "maintain" /\ http.pc = "done"
      /\ (http' = Null \/ http'.op = "defaults") /\ UNCHANGED <<disk, job>>
  BY DEF FinishMaintain, Finishing, NextOf
<1>2. PICK s \in Live : s = http.site
  BY <1>1 DEF SiteInv, HttpInv
<1>3. PICK on \in BOOLEAN : on = http.want
  BY <1>1 DEF SiteInv, HttpInv
<1>4. PICK old \in Row : old = rows[s]
  BY LiveRow DEF SiteInv
<1>5. PICK new \in Row : new = [old EXCEPT !.flag = on]
  BY DEF Row
<1>6. new.conf = old.conf /\ new.name = old.name /\ new.enabled = old.enabled /\ new.flag = on /\ new # Null
  BY <1>5, SitesAssumption DEF Row
<1>7. \A o \in Live' : o \in Live /\ (rows'[o] = rows[o] \/ (o = s /\ rows'[o] = new))
  <2>1. CASE Confirm(s, on)
    <3>1. rows' = [rows EXCEPT ![s] = new]
      BY <1>4, <1>5, <2>1 DEF Confirm
    <3>2. QED
      BY <3>1 DEF Live, SiteInv, TablesOK
  <2>2. CASE UNCHANGED rows
    BY <2>2 DEF Live
  <2>3. QED
    BY <1>2, <1>3, <2>1, <2>2 DEF FinishMaintain
<1>8. \A o \in Live' : OwnName(rows'[o])
  BY <1>4, <1>6, <1>7 DEF HeldInv, NamesInv, OwnName, Imported
<1>9. ASSUME ~spent'.lost, ~spent'.stale, ~spent'.astray, NEW o \in Live'
      PROVE  /\ ~Imported(rows'[o]) /\ rows'[o].enabled => disk.link[rows'[o].name] = rows'[o].conf
             /\ rows'[o].flag => rows'[o].enabled
  <2>1. o \in Live /\ ~Unlinking(o)
    BY <1>1, <1>7 DEF Unlinking
  <2>2. /\ ~Imported(rows[o]) /\ rows[o].enabled => disk.link[rows[o].name] = rows[o].conf
        /\ rows[o].flag => rows[o].enabled
    BY <1>9, <2>1, LinkedNow
  <2>3. on => old.enabled
    BY <1>1, <1>2, <1>3, <1>4, <1>9 DEF HeldInv, LinkInv, Grows, HttpLinks
  <2>4. CASE rows'[o] = rows[o]
    BY <2>2, <2>4
  <2>5. CASE o = s /\ rows'[o] = new
    BY <1>4, <1>6, <2>2, <2>3, <2>5 DEF Imported
  <2>6. QED
    BY <1>7, <2>4, <2>5
<1>10. QED
  BY <1>1, <1>8, <1>9, HeldEnd

LEMMA HeldHandler ==
  ASSUME SiteInv, HeldInv, PendInv', Grows, Handler
  PROVE  HeldInv'
<1>1. CASE Call
  BY <1>1, HeldCall
<1>2. CASE FinishCreate
  BY <1>2, HeldCreate
<1>3. CASE FinishEdit
  BY <1>3, HeldEdit
<1>4. CASE FinishEnable \/ FinishDisable
  BY <1>4, HeldStatus
<1>5. CASE FinishDelete
  BY <1>5, HeldDelete
<1>6. CASE FinishMaintain
  BY <1>6, HeldConfirm
<1>7. ASSUME UNCHANGED <<rows, disk, job>>, http' = Null \/ http'.op = "defaults",
             \A s \in Live : ~Unlinking(s)
      PROVE  HeldInv'
  <2>1. \A s \in Live' : OwnName(rows'[s]) /\ s \in Live /\ rows'[s] = rows[s]
    BY <1>7 DEF HeldInv, NamesInv, Live
  <2>2. QED
    BY <1>7, <2>1, HeldEnd, LinkedNow
<1>8. CASE FailRequest \/ FinishReplace \/ FailMaintain
  BY <1>7, <1>8 DEF FailRequest, FinishReplace, FailMaintain, EndRequest, NextOf, Finishing, Unlinking, tables
<1>9. CASE DefaultsNext
  <2>1. http # Null /\ http.op = "defaults" /\ UNCHANGED <<rows, disk, job, late>>
    BY <1>9 DEF DefaultsNext
  <2>2. PICK s \in http.todo :
          IF MayMaintain(s, states[s].desired)
          THEN Maintain(s, states[s].desired, states[s].html, http.todo \ {s})
          ELSE NextOf(http.todo \ {s}) /\ UNCHANGED states
    BY <1>9 DEF DefaultsNext
  <2>3. PICK todo \in SUBSET SiteIds : todo = http.todo \ {s}
    BY <2>1 DEF SiteInv, HttpInv
  <2>4. CASE MayMaintain(s, states[s].desired)
    <3>1. s \in Live /\ ConfOf(s) # Absent
      BY <2>4 DEF MayMaintain
    <3>2. PICK on \in BOOLEAN : on = states[s].desired
      BY <3>1 DEF SiteInv, TablesOK, Live
    <3>3. PICK html \in Htmls \cup {Null} : html = states[s].html
      BY <3>1 DEF SiteInv, TablesOK, Live
    <3>4. Maintain(s, on, html, todo) /\ (on => rows[s].enabled)
      BY <2>2, <2>3, <2>4, <3>2, <3>3 DEF MayMaintain
    <3>5. QED
      BY <2>1, <3>1, <3>4, HeldMaintain
  <2>5. CASE ~MayMaintain(s, states[s].desired)
    <3>1. http' = Null \/ http'.op = "defaults"
      BY <2>2, <2>5 DEF NextOf
    <3>2. \A o \in Live : ~Unlinking(o)
      BY <2>1 DEF Unlinking
    <3>3. QED
      BY <1>7, <2>1, <3>1, <3>2
  <2>6. QED
    BY <2>4, <2>5
<1>10. QED
  BY <1>1, <1>2, <1>3, <1>4, <1>5, <1>6, <1>8, <1>9 DEF Handler

LEMMA HeldNext ==
  ASSUME SiteInv, HeldInv, [Next]_vars
  PROVE  HeldInv'
<1>1. Grows
  BY HistoryGrows DEF Grows
<1>2. SiteInv' /\ PendInv'
  BY SiteNext, PendNext DEF HeldInv
<1>3. CASE Request
  BY <1>1, <1>2, <1>3, HeldRequest
<1>4. CASE \E html \in Htmls : SetDefaults(html)
  BY <1>1, <1>2, <1>4, HeldDefaults
<1>5. CASE Handler
  BY <1>1, <1>2, <1>5, HeldHandler
<1>6. CASE Work
  BY <1>1, <1>2, <1>6, HeldWork
<1>7. CASE GiveUp
  <2>1. spent'.lost
    BY <1>7, SpentLost DEF GiveUp, SiteInv
  <2>2. JobLinks' /\ UNCHANGED tables
    BY <1>7 DEF GiveUp, JobLinks, HeldInv, NamesInv
  <2>3. http # Null /\ http' = [http EXCEPT !.pc = "failed"]
    BY <1>7 DEF GiveUp
  <2>4. http'.op = http.op /\ http'.row = http.row
    BY <2>3
  <2>5. QED
    BY <1>2, <2>1, <2>2, <2>3, <2>4, HeldLost
<1>8. CASE Crash
  <2>1. spent'.lost
    BY <1>8, SpentLost DEF Crash, SiteInv
  <2>2. JobLinks' /\ UNCHANGED tables /\ http' = Null
    BY <1>8 DEF Crash, JobLinks
  <2>3. QED
    BY <1>2, <2>1, <2>2, HeldLost
<1>9. CASE LateEnds
  <2>1. spent'.lost
    BY <1>1, <1>9 DEF LateEnds, HeldInv, PendInv, Grows
  <2>2. JobLinks' /\ UNCHANGED tables /\ http' = http
    BY <1>9 DEF LateEnds, JobLinks, HeldInv, NamesInv
  <2>3. QED
    BY <1>2, <2>1, <2>2, HeldLost
<1>10. CASE UNCHANGED vars
  <2>1. Kin /\ UNCHANGED <<rows, disk, http, job>>
    BY <1>10 DEF vars, Kin, Live
  <2>2. JobLinks' /\ (~spent'.lost /\ ~spent'.stale => JobOwn')
    BY <1>1, <2>1, JobHeld
  <2>3. /\ http' # Null /\ http'.op = "create" => OwnName(http'.row)
        /\ ~spent'.lost /\ ~spent'.stale => HttpOwn'
        /\ ~spent'.lost /\ ~spent'.stale /\ ~spent'.astray => HttpLinks'
    BY <1>1, <2>1, HttpHeld
  <2>4. \A s \in Live : Unlinking(s) => Unlinking(s)'
    BY <2>1 DEF Unlinking
  <2>5. QED
    BY <1>1, <1>2, <2>1, <2>2, <2>3, <2>4, HeldStep
<1>11. QED
  BY <1>3, <1>4, <1>5, <1>6, <1>7, <1>8, <1>9, <1>10 DEF Next

(* What every step keeps: names, links and owners of the files agree with  *)
(* the rows until an answer is lost or background work writes an older     *)
(* state back.                                                             *)
THEOREM HeldInvariant == Spec => []HeldInv
<1>1. Init => HeldInv
  BY DEF Init, HeldInv, PendInv, JobPend, HttpPend, NamesInv, OwnInv, JobOwn, HttpOwn, LinkInv, JobLinks,
     HttpLinks, Live
<1>2. SiteInv /\ HeldInv /\ [Next]_vars => HeldInv'
  BY HeldNext
<1>3. QED
  BY <1>1, <1>2, SiteInvariant, PTL DEF Spec

(* The maintenance page is where visitors look: nginx loads the file of a  *)
(* site in maintenance through the site's own link.                        *)
THEOREM MaintenanceServed == Spec => []MaintenanceIsServed
<1>1. SiteInv /\ HeldInv => MaintenanceIsServed
  <2> SUFFICES ASSUME SiteInv, HeldInv, ~spent.lost, ~spent.stale, ~spent.astray,
                      NEW s \in Live, rows[s].flag, ~Imported(rows[s])
               PROVE  Behind(disk, rows[s].name) = ConfOf(s)
    BY DEF MaintenanceIsServed
  <2>1. PICK row \in Row : row = rows[s]
    BY LiveRow DEF SiteInv
  <2>2. row.conf \in Domains /\ row.name = row.conf
    BY <2>1 DEF Row, Confs, Imported, OwnName, HeldInv, NamesInv
  <2>3. LinkOK(s)
    BY DEF HeldInv, LinkInv
  <2>4. ~Unlinking(s)
    BY DEF Unlinking, SiteInv, HttpInv, Blocked
  <2>5. disk.link[row.name] = row.conf
    BY <2>1, <2>3, <2>4 DEF LinkOK
  <2>6. QED
    BY <2>1, <2>2, <2>5 DEF Behind, ConfOf
<1>2. QED
  BY <1>1, SiteInvariant, HeldInvariant, PTL

(* Only the answers of the agent change files.                              *)
LEMMA OnlyCallsWrite ==
  ASSUME [Next]_vars
  PROVE  Call \/ JobCall \/ LateEnds \/ disk' = disk
<1>1. Request => disk' = disk
  BY DEF Request, StartCreate, StartReplace, StartImport, StartUpdate, StartSave, StartUpdateDocument,
     StartEnable, StartDisable, StartDelete, StartMaintain
<1>2. ASSUME NEW html \in Htmls, SetDefaults(html)
      PROVE  disk' = disk
  BY <1>2 DEF SetDefaults
<1>3. Handler => Call \/ disk' = disk
  BY DEF Handler, FailRequest, FinishCreate, FinishEdit, FinishEnable, FinishDisable, FinishDelete,
     FinishReplace, FinishMaintain, FailMaintain, DefaultsNext
<1>4. Work => JobCall \/ disk' = disk
  BY DEF Work, RefreshStart, ChallengeStart, DeployStart, RefreshLogPaths, JobGivesUp, DeployFinish
<1>5. (GiveUp \/ Crash) => disk' = disk
  BY DEF GiveUp, Crash
<1>6. UNCHANGED vars => disk' = disk
  BY DEF vars
<1>7. QED
  BY <1>1, <1>2, <1>3, <1>4, <1>5, <1>6 DEF Next

(* One site's file becomes another's only when a site was renamed: the row *)
(* of the first no longer claims the name its file keeps.                  *)
THEOREM TakenOverCorrect == Spec => TakenOverAfterRename
<1> DEFINE Taken ==
      ~spent'.lost /\ ~spent'.stale => \A s \in Live :
        /\ rows'[s] # Null /\ ConfOf(s) # Absent /\ ConfOf(s).owner = s
        /\ disk'.conf[rows[s].conf] # Absent /\ disk'.conf[rows[s].conf].owner # s
        => rows[s].domain # rows[s].conf
<1>1. ASSUME SiteInv, HeldInv, [Next]_vars
      PROVE  Taken
  <2> SUFFICES ASSUME ~spent'.lost, ~spent'.stale, NEW s \in Live,
                      disk.conf[rows[s].conf] # Absent, disk.conf[rows[s].conf].owner = s,
                      disk'.conf[rows[s].conf] # Absent, disk'.conf[rows[s].conf].owner # s
               PROVE  rows[s].domain # rows[s].conf
    BY DEF ConfOf
  <2>1. Grows
    BY <1>1, HistoryGrows DEF Grows
  <2>2. PICK p \in Confs : p = rows[s].conf
    BY <1>1, LiveRow DEF SiteInv
  <2>3. disk'.conf[p] # disk.conf[p]
    BY <2>2
  <2>4. Call \/ JobCall
    <3>1. ~LateEnds
      BY <1>1, <2>1 DEF LateEnds, HeldInv, PendInv, Grows
    <3>2. Call \/ JobCall \/ disk' = disk
      BY <1>1, <3>1, OnlyCallsWrite
    <3>3. QED
      BY <2>3, <3>2
  <2>5. ~JobCall
    BY <1>1, <2>1, <2>2, JobCallOwners
  <2>6. http # Null /\ http.pc = "call" /\ disk' = After(disk, http.tx)
    BY <2>3, <2>4, <2>5 DEF Call
  <2>7. HttpOwn
    BY <1>1, <2>1 DEF HeldInv, OwnInv, Grows
  <2>8. PICK t : t = http.tx
    OBVIOUS
  <2>9. http.op \in Ops \ {"defaults"} /\ TxOK(t)
    BY <1>1, <2>6, <2>8 DEF SiteInv, HttpInv
  <2>10. p \in DOMAIN t.conf /\ disk'.conf[p] = t.conf[p]
    BY <1>1, <2>3, <2>6, <2>8, <2>9, AfterOK DEF SiteInv
  <2>11. http.op = "create"
    BY <2>2, <2>6, <2>7, <2>8, <2>9, <2>10 DEF HttpOwn, Ops
  <2>12. p = http.row.domain /\ rows[s].domain # http.row.domain
    BY <2>6, <2>7, <2>8, <2>10, <2>11 DEF HttpOwn
  <2>13. QED
    BY <2>2, <2>12
<1>2. QED
  BY <1>1, SiteInvariant, HeldInvariant, PTL DEF Spec, TakenOverAfterRename
=============================================================================
