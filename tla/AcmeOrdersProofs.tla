--------------------------- MODULE AcmeOrdersProofs ---------------------------
(***************************************************************************)
(* Theorems about AcmeOrders for every value of the constants: which      *)
(* thread holds certificateMu and what each of them is about to write, no  *)
(* order stays in progress without its job (internal/acme/service.go),     *)
(* automatic renewal survives every failure (CompleteRenewal), the files   *)
(* nginx is told to load are there, and a site's row is what it serves.    *)
(***************************************************************************)
EXTENDS AcmeOrders, FiniteSetTheorems, TLAPS

-----------------------------------------------------------------------------
(* The inductive invariant.                                                *)

(* Every row that names something names a path.                            *)
RowOK(row) == row # Null /\ row.mode # "disabled" => row.path \in Paths

Spent == [requests : Nat, faults : Nat, sweeps : Nat, mishap : BOOLEAN, stale : BOOLEAN,
          left : SUBSET Orders, edited : SUBSET Sites]

TablesOK ==
  /\ live \subseteq Sites
  /\ ssl \in [Sites -> SslRow \cup {Null}] /\ \A s \in Sites : RowOK(ssl[s])
  /\ links \in [Sites -> Entries \cup {Null}]
  /\ entries \in [Entries -> Entry \cup {Null}] /\ lastEntry \in 0..MaxEntries
  /\ \A k \in Entries : entries[k] # Null => k <= lastEntry
  /\ orders \in [Orders -> Order \cup {Null, Gone}]

DiskOK   == files \in [Paths -> Bytes \cup {Absent}] /\ conf \in [Sites -> Named]
MemoryOK ==
  /\ thread \in [Threads -> Thread(Sites) \cup {Null}]
  /\ mu \in Threads \cup {Null}
  /\ sweep \in Sweep(Sites) \cup {Null}

Typed == TablesOK /\ DiskOK /\ MemoryOK /\ spent \in Spent

(* The threads that have written, or are about to change, a site's row.    *)
RowOps      == {"use", "disable", "deploy", "redeploy"}
Rewrites(r) == (r.op \in RowOps /\ r.pc # "admitted") \/ r.pc \in {"install", "settle", "rollback"}
Holds(r)    == r # Null /\ (Rewrites(r) \/ r.op \in {"upload", "delete", "replace"})

(* certificateMu is held by the thread that should hold it, and no other.  *)
LockInv == \A t \in Threads : mu = t <=> Holds(thread[t])

Matches(row, c) == IF row # Null /\ row.mode # "disabled" THEN c = row.path ELSE c = Null

Brings(x, k) == Stored(k) \in DOMAIN x.files /\ x.files[Stored(k)] # Absent

(* What a thread is, and what its transaction writes.                      *)
Placed(t, r) ==
  IF t = Req
  THEN /\ r.op \notin {"obtain", "forced"} /\ r.pc \in ReqPlaces
       /\ r.pc = "admitted" => r.op = "redeploy"
  ELSE r.op \in {"obtain", "forced"} /\ r.pc \in JobPlaces

Fits(t, r) ==
  /\ Placed(t, r)
  /\ RowOK(r.undo)
  /\ r.op \in {"upload", "delete", "replace"} => r.entry \in Entries /\ entries[r.entry] # Null
  /\ r.op \in {"replace", "site", "redeploy"} \/ t # Req => r.site \in Sites
  /\ r.op = "redeploy" => r.order \in Orders
  /\ Rewrites(r) => r.site \in Marked
  /\ r.op = "replace" => entries[r.entry].path[1] = "store"
  /\ r.op = "upload" => entries[r.entry].path = Stored(r.entry)

Rewriting(t, r) ==
  /\ r.tx.test /\ DOMAIN r.tx.conf = {r.site}
  /\ r.site \in live => Matches(ssl[r.site], r.tx.conf[r.site])
  /\ t # Req => r.tx.hash # {} /\ Absent \notin r.tx.hash
  /\ \A k \in Entries : ~Brings(r.tx, k)

Replacing(r) ==
  /\ r.tx.test /\ DOMAIN r.tx.files = {} /\ DOMAIN r.tx.conf = {r.site}
  /\ r.tx.conf[r.site] = entries[r.entry].path
  /\ r.tx.hash # {} /\ Absent \notin r.tx.hash

Uploading(r) ==
  /\ DOMAIN r.tx.conf = {} /\ DOMAIN r.tx.files = {Stored(r.entry)}
  /\ r.tx.files[Stored(r.entry)] = entries[r.entry].sha

Deleting(r) ==
  /\ DOMAIN r.tx.conf = {} /\ DOMAIN r.tx.files = {entries[r.entry].path}
  /\ r.tx.files[entries[r.entry].path] = Absent

Removing(r) ==
  /\ r.tx.test /\ DOMAIN r.tx.conf = {r.site} /\ r.tx.conf[r.site] = Absent
  /\ \A x \in DOMAIN r.tx.files : r.tx.files[x] = Absent

UsedRow(s) == s \in live /\ ssl[s] # Null /\ ssl[s].path \in Paths /\ ssl[s].sha \in Bytes

Writes(t, r) ==
  /\ r.op = "use" => UsedRow(r.site)
  /\ Rewrites(r) /\ r.pc \in {"call", "install"} => Rewriting(t, r)
  /\ r.pc = "call" =>
       /\ r.op = "replace" => Replacing(r)
       /\ r.op = "upload" => Uploading(r)
       /\ r.op = "delete" => Deleting(r)
       /\ r.op = "site" => Removing(r)
  /\ r.pc = "complete" => r.order \in Orders
  /\ r.pc = "challenge" => r.tx.test /\ DOMAIN r.tx.files = {} /\ DOMAIN r.tx.conf = {r.site}
  /\ r.pc = "save" => r.tx.test /\ DOMAIN r.tx.files = {Issued(t)} /\ DOMAIN r.tx.conf = {}

ThreadsInv == \A t \in Threads : \A r \in Thread(Sites) : thread[t] = r => Fits(t, r) /\ Writes(t, r)

(* Orders are numbered without a gap; a job's order has been recorded.     *)
NumbersInv ==
  /\ \A o \in Orders : orders[o] # Null => \A p \in 1..o : orders[p] # Null
  /\ \A o \in Orders : thread[o] # Null => orders[o] # Null

CInv == Typed /\ LockInv /\ ThreadsInv /\ NumbersInv

-----------------------------------------------------------------------------
(* Transactions.                                                           *)

LEMMA PutIsPart ==
  ASSUME NEW S, NEW T, NEW p \in S, NEW c \in T
  PROVE  Put(p, c) \in Partly(S, T) /\ DOMAIN Put(p, c) = {p} /\ Put(p, c)[p] = c
<1>1. Put(p, c) \in [{p} -> T] /\ {p} \in SUBSET S
  BY DEF Put
<1>2. DOMAIN Put(p, c) = {p} /\ Put(p, c)[p] = c
  BY DEF Put
<1>3. QED
  BY <1>1, <1>2 DEF Partly

LEMMA PutConf ==
  ASSUME NEW s \in Sites, NEW p \in Named
  PROVE  Put(s, p) \in Partly(Sites, Named) /\ DOMAIN Put(s, p) = {s} /\ Put(s, p)[s] = p
BY PutIsPart

LEMMA NothingIsPart ==
  ASSUME NEW S, NEW T
  PROVE  Nothing \in Partly(S, T) /\ DOMAIN Nothing = {}
BY DEF Nothing, Partly

LEMMA PartFacts ==
  ASSUME NEW S, NEW T, NEW f \in Partly(S, T)
  PROVE  DOMAIN f \subseteq S /\ \A x \in DOMAIN f : f[x] \in T
BY DEF Partly

LEMMA OverIsTotal ==
  ASSUME NEW S, NEW T, NEW old \in [S -> T], NEW new \in Partly(S, T)
  PROVE  /\ Over(old, new) \in [S -> T]
         /\ \A x \in S : Over(old, new)[x] = IF x \in DOMAIN new THEN new[x] ELSE old[x]
BY PartFacts DEF Over

(* Transactions made from the empty one.                                   *)
LEMMA NoTxForm ==
  /\ NoTx \in Tx(Sites) /\ NoTx.files = Nothing /\ NoTx.conf = Nothing /\ NoTx.hash = {} /\ NoTx.test = TRUE
  /\ DOMAIN Nothing = {}
BY NothingIsPart DEF NoTx, Tx

-----------------------------------------------------------------------------
(* Steps of one thread.                                                    *)

Alters(t, n) == thread' = [thread EXCEPT ![t] = n]

Alike(n, r) == n.op = r.op /\ n.site = r.site /\ n.order = r.order /\ n.undo = r.undo
Same(n, r)  == Alike(n, r) /\ n.entry = r.entry /\ n.tx = r.tx

LEMMA Altered ==
  ASSUME MemoryOK, NEW t \in Threads, NEW n, Alters(t, n)
  PROVE  thread'[t] = n /\ \A u \in Threads : u # t => thread'[u] = thread[u]
BY DEF MemoryOK, Alters

LEMMA AlteredType ==
  ASSUME MemoryOK, NEW t \in Threads, NEW n \in Thread(Sites) \cup {Null}, Alters(t, n)
  PROVE  thread' \in [Threads -> Thread(Sites) \cup {Null}]
BY DEF MemoryOK, Alters

LEMMA IsThread ==
  ASSUME MemoryOK, NEW t \in Threads, thread[t] # Null
  PROVE  thread[t] \in Thread(Sites)
BY DEF MemoryOK

LEMMA ThreadNotNull ==
  ASSUME NEW n \in Thread(Sites)
  PROVE  n # Null
BY NothingAssumption

(* Moving on.                                                              *)
LEMMA Moved ==
  ASSUME MemoryOK, NEW t \in Threads, thread[t] # Null, NEW pc \in ReqPlaces \cup JobPlaces,
         thread' = [thread EXCEPT ![t].pc = pc]
  PROVE  \E n \in Thread(Sites) : Alters(t, n) /\ n.pc = pc /\ Same(n, thread[t])
<1>1. thread[t] \in Thread(Sites)
  BY IsThread
<1>2. PICK n : n = [thread[t] EXCEPT !.pc = pc]
  OBVIOUS
<1>3. n \in Thread(Sites) /\ n.pc = pc /\ Same(n, thread[t])
  BY <1>1, <1>2 DEF Thread, Same, Alike
<1>4. Alters(t, n)
  BY <1>2 DEF Alters
<1>5. QED
  BY <1>3, <1>4

(* A new request.                                                          *)
LEMMA Requested ==
  ASSUME Typed, NEW op \in {"use", "disable", "deploy", "upload", "delete", "replace", "site", "redeploy"},
         NEW pc \in ReqPlaces, NEW s \in Sites \cup {Null}, NEW k \in Entries \cup {Null},
         NEW o \in Orders \cup {Null}, NEW x \in Tx(Sites), Request(op, pc, s, k, o, x)
  PROVE  \E n \in Thread(Sites) :
           /\ Alters(Req, n)
           /\ n.op = op /\ n.pc = pc /\ n.site = s /\ n.entry = k /\ n.order = o /\ n.tx = x
           /\ n.undo = (IF s \in live THEN ssl[s] ELSE Null) /\ RowOK(n.undo)
<1>1. PICK u : u = IF s \in live THEN ssl[s] ELSE Null
  OBVIOUS
<1>2. u \in SslRow \cup {Null} /\ RowOK(u)
  BY <1>1 DEF Typed, TablesOK, RowOK
<1>3. PICK n : n = [op |-> op, pc |-> pc, site |-> s, entry |-> k, order |-> o, tx |-> x, undo |-> u]
  OBVIOUS
<1>4. n \in Thread(Sites)
  BY <1>2, <1>3 DEF Thread
<1>5. Alters(Req, n)
  BY <1>1, <1>3 DEF Request, Alters
<1>6. QED
  BY <1>1, <1>2, <1>3, <1>4, <1>5

-----------------------------------------------------------------------------
(* The oldest and the newest.                                              *)

LEMMA InitialSegment ==
  ASSUME NEW N \in Nat, NEW S \in SUBSET (1..N), \A x \in S : \A y \in 1..x : y \in S
  PROVE  /\ Cardinality(S) \in 0..N
         /\ S = 1..Cardinality(S)
<1>1. IsFiniteSet(1..N) /\ Cardinality(1..N) = N
  BY FS_Interval
<1>2. IsFiniteSet(S) /\ Cardinality(S) <= N
  BY <1>1, FS_Subset
<1>3. PICK c \in Nat : c = Cardinality(S)
  BY <1>2, FS_CardinalityType
<1>4. ASSUME NEW x \in S PROVE x \in 1..c
  <2>1. x \in 1..N /\ 1..x \subseteq S
    OBVIOUS
  <2>2. IsFiniteSet(1..x) /\ Cardinality(1..x) = x
    BY <2>1, FS_Interval
  <2>3. x <= c
    BY <1>2, <1>3, <2>1, <2>2, FS_Subset
  <2>4. QED
    BY <2>1, <2>3
<1>5. IsFiniteSet(1..c) /\ Cardinality(1..c) = c
  BY FS_Interval
<1>6. S = 1..c
  BY <1>3, <1>4, <1>5, FS_Subset
<1>7. QED
  BY <1>2, <1>3, <1>6

LEMMA Oldest ==
  ASSUME NEW N \in Nat, NEW T \in SUBSET (1..N), T # {}
  PROVE  \E k \in T : \A j \in T : k <= j
<1> DEFINE S == {i \in 1..N : \A j \in T : i < j}
<1>1. \A x \in S : \A y \in 1..x : y \in S
  OBVIOUS
<1>2. PICK c \in 0..N : S = 1..c
  BY <1>1, InitialSegment
<1>3. c + 1 \notin S
  BY <1>2
<1>4. PICK i \in T : i \in 1..N
  OBVIOUS
<1>5. i \notin S
  BY <1>4
<1>6. c + 1 \in 1..N
  BY <1>2, <1>4, <1>5
<1>7. PICK j \in T : j <= c + 1
  BY <1>3, <1>6
<1>8. \A x \in T : x > c
  BY <1>2, <1>6
<1>9. QED
  BY <1>7, <1>8

LEMMA Latest ==
  ASSUME NEW N \in Nat, NEW T \in SUBSET (1..N), T # {}
  PROVE  \E k \in T : \A j \in T : j <= k
<1> DEFINE U == {i \in 1..N : N + 1 - i \in T}
<1>1. PICK x \in T : x \in 1..N
  OBVIOUS
<1>2. N + 1 - x \in 1..N /\ N + 1 - (N + 1 - x) = x
  BY <1>1
<1>3. U # {}
  BY <1>1, <1>2
<1>4. PICK u \in U : \A j \in U : u <= j
  BY <1>3, Oldest
<1>5. N + 1 - u \in T /\ u \in 1..N
  BY <1>4
<1>6. ASSUME NEW j \in T PROVE j <= N + 1 - u
  <2>1. j \in 1..N
    OBVIOUS
  <2>2. N + 1 - j \in 1..N /\ N + 1 - (N + 1 - j) = j
    BY <2>1
  <2>3. N + 1 - j \in U
    BY <2>2
  <2>4. u <= N + 1 - j
    BY <1>4, <2>3
  <2>5. QED
    BY <1>5, <2>1, <2>4
<1>7. QED
  BY <1>5, <1>6

-----------------------------------------------------------------------------
(* What a step of the thread t leaves to the others.                       *)

Turn(t, n) ==
  \/ mu' = mu /\ (Holds(thread[t]) <=> Holds(n))
  \/ mu = Null /\ mu' = t /\ Holds(n)
  \/ mu = t /\ mu' = Null /\ ~Holds(n)

Frame(t) ==
  /\ live' \subseteq live
  /\ t = Req \/ (live' = live /\ \A k \in Entries : entries[k] # Null => entries'[k] = entries[k])
  /\ mu \in {Null, t} \/ \A s \in live' : ssl'[s] = ssl[s]

LEMMA LockKept ==
  ASSUME CInv, NEW t \in Threads, NEW n, Alters(t, n), Turn(t, n)
  PROVE  LockInv' /\ mu' \in Threads \cup {Null}
BY Altered, CertificatesAssumption DEF CInv, Typed, LockInv, Turn, MemoryOK, Holds

LEMMA FitsKept ==
  ASSUME CInv, NEW t \in Threads, Frame(t), NEW u \in Threads, u # t, NEW r \in Thread(Sites), thread[u] = r
  PROVE  Fits(u, r)'
BY DEF CInv, ThreadsInv, Fits, Placed, Frame, RowOK, Rewrites

LEMMA WritesKept ==
  ASSUME CInv, NEW t \in Threads, Frame(t), NEW u \in Threads, u # t, NEW r \in Thread(Sites), thread[u] = r
  PROVE  Writes(u, r)'
<1>1. Fits(u, r) /\ Placed(u, r) /\ Writes(u, r)
  BY DEF CInv, ThreadsInv, Fits
<1>2. r.op \in {"upload", "delete", "replace"} => u = Req /\ r.entry \in Entries /\ entries'[r.entry] = entries[r.entry]
  BY <1>1 DEF Frame, Fits, Placed
<1>3. Rewrites(r) => mu = u /\ u # Null
  BY CertificatesAssumption, ThreadNotNull DEF CInv, LockInv, Holds
<1>4. Rewrites(r) => \A s \in live' : s \in live /\ ssl'[s] = ssl[s]
  BY <1>3 DEF Frame
<1>5. ASSUME Rewrites(r), r.pc \in {"call", "install"}
      PROVE  Rewriting(u, r)'
  BY <1>1, <1>5, <1>4 DEF Writes, Rewriting, Matches, Brings
<1>6. (Rewrites(r) /\ r.pc \in {"call", "install"} => Rewriting(u, r))'
  BY <1>5 DEF Rewrites
<1>7. ASSUME r.pc = "call"
      PROVE  /\ r.op = "replace" => Replacing(r)'
             /\ r.op = "upload" => Uploading(r)'
             /\ r.op = "delete" => Deleting(r)'
             /\ r.op = "site" => Removing(r)'
  BY <1>1, <1>2, <1>7 DEF Writes, Replacing, Uploading, Deleting, Removing
<1>8. ASSUME r.op = "use"
      PROVE  UsedRow(r.site)'
  BY <1>1, <1>8, <1>4 DEF Writes, Placed, Rewrites, RowOps, Frame, UsedRow
<1>9. QED
  BY <1>1, <1>6, <1>7, <1>8 DEF Writes, Rewrites

LEMMA OneThread ==
  ASSUME CInv, NEW t \in Threads, NEW n, Alters(t, n), Turn(t, n), Frame(t),
         n \in Thread(Sites) => Fits(t, n)' /\ Writes(t, n)'
  PROVE  LockInv' /\ ThreadsInv' /\ mu' \in Threads \cup {Null}
<1>1. thread'[t] = n /\ \A u \in Threads : u # t => thread'[u] = thread[u]
  BY Altered DEF CInv, Typed
<1>2. ASSUME NEW u \in Threads, NEW r \in Thread(Sites), thread'[u] = r
      PROVE  Fits(u, r)' /\ Writes(u, r)'
  <2>1. CASE u = t
    BY <1>1, <1>2, <2>1
  <2>2. CASE u # t
    BY <1>1, <1>2, <2>2, FitsKept, WritesKept
  <2>3. QED
    BY <2>1, <2>2
<1>3. ThreadsInv'
  BY <1>2 DEF ThreadsInv
<1>4. QED
  BY <1>3, LockKept

-----------------------------------------------------------------------------
(* The rows.                                                               *)

LEMMA NamingFacts ==
  ASSUME NEW mode \in {"manual_pem", "existing_files", "from_store", "disabled"},
         NEW p \in Paths \cup {Null}, NEW c \in Bytes \cup {Null}, NEW k \in Entries \cup {Null},
         p \in Paths \/ mode = "disabled", NEW r, r = Naming(mode, p, c, k)
  PROVE  /\ r \in SslRow /\ r # Null /\ RowOK(r)
         /\ r.mode = mode /\ r.path = p /\ r.sha = c /\ r.entry = k
BY NothingAssumption DEF Naming, SslRow, RowOK

(* One site's row is written.                                              *)
LEMMA RowWritten ==
  ASSUME TablesOK, NEW s \in Sites, NEW r \in SslRow \cup {Null}, RowOK(r), ssl' = [ssl EXCEPT ![s] = r]
  PROVE  /\ ssl' \in [Sites -> SslRow \cup {Null}] /\ \A x \in Sites : RowOK(ssl'[x])
         /\ ssl'[s] = r /\ \A x \in Sites : x # s => ssl'[x] = ssl[x]
BY DEF TablesOK

(* ssl' = ssl with other fields in some rows.                              *)
LEMMA EntriesAre == Entries \subseteq Nat \ {0} /\ 0 \notin Entries /\ Entries = 1..MaxEntries /\ MaxEntries \in Nat
BY CertificatesAssumption DEF Entries

LEMMA NewEntryFacts ==
  ASSUME TablesOK, NEW p \in Paths, NEW c \in Bytes, NEW source \in {"panel", "external"},
         NewEntry(p, c, source)
  PROVE  /\ NextEntry \in Entries /\ entries[NextEntry] = Null /\ lastEntry' = NextEntry
         /\ entries' \in [Entries -> Entry \cup {Null}] /\ lastEntry' \in 0..MaxEntries
         /\ entries'[NextEntry] # Null /\ entries'[NextEntry].path = p
         /\ entries'[NextEntry].sha = c /\ entries'[NextEntry].source = source
         /\ \A k \in Entries : k # NextEntry => entries'[k] = entries[k]
         /\ \A k \in Entries : entries[k] # Null => entries'[k] = entries[k] /\ k < NextEntry
         /\ \A k \in Entries : entries'[k] # Null => k <= lastEntry'
BY EntriesAre, NothingAssumption DEF NewEntry, TablesOK, NextEntry, Entry

LEMMA BySHAFacts ==
  ASSUME TablesOK, NEW c
  PROVE  /\ BySHA256(c) \subseteq Entries
         /\ \A k \in Entries : k \in BySHA256(c) <=> entries[k] # Null /\ entries[k].sha = c
         /\ BySHA256(c) # {} => \E k \in BySHA256(c) : \A j \in BySHA256(c) : k <= j
BY EntriesAre, Oldest DEF BySHA256, Kept

(* Its entry: the oldest of its certificate, or a new one.                 *)
LEMMA AdoptFacts ==
  ASSUME TablesOK, NEW s \in Sites, NEW p \in Paths, NEW c \in Bytes, AdoptExternal(s, p, c)
  PROVE  \E k \in Entries :
    /\ \/ /\ UNCHANGED <<entries, lastEntry>> /\ entries[k] # Null /\ entries[k].sha = c
          /\ \A j \in Entries : entries[j] # Null /\ entries[j].sha = c => k <= j
       \/ /\ NewEntry(p, c, "external") /\ k = NextEntry
          /\ \A j \in Entries : entries[j] # Null => entries[j].sha # c
    /\ links' \in [Sites -> Entries \cup {Null}] /\ links'[s] = k
    /\ \A x \in Sites : x # s => links'[x] = links[x]
    /\ ssl' \in [Sites -> SslRow \cup {Null}] /\ \A x \in Sites : RowOK(ssl'[x])
    /\ \A x \in Sites : x # s => ssl'[x] = ssl[x]
    /\ IF ssl[s] = Null THEN ssl'[s] = Null
       ELSE ssl'[s] # Null /\ ssl'[s].mode = ssl[s].mode /\ ssl'[s].path = p /\ ssl'[s].sha = c
<1> DEFINE known == BySHA256(c)
           k0 == IF known = {} THEN NextEntry ELSE CHOOSE i \in known : \A j \in known : i <= j
<1>1. PICK k : k = k0
  OBVIOUS
<1>2. /\ IF known = {} THEN NewEntry(p, c, "external") ELSE UNCHANGED <<entries, lastEntry>>
      /\ links' = [links EXCEPT ![s] = k]
      /\ ssl' = IF ssl[s] = Null THEN ssl
                ELSE [ssl EXCEPT ![s] = [@ EXCEPT !.path = p, !.sha = c, !.entry = k]]
  BY <1>1 DEF AdoptExternal
<1>3. known # {} => k \in known /\ \A j \in known : k <= j
  BY <1>1, BySHAFacts
<1>4. k \in Entries
  BY <1>1, <1>2, <1>3, NewEntryFacts, BySHAFacts
<1>5. \/ /\ UNCHANGED <<entries, lastEntry>> /\ entries[k] # Null /\ entries[k].sha = c
         /\ \A j \in Entries : entries[j] # Null /\ entries[j].sha = c => k <= j
      \/ /\ NewEntry(p, c, "external") /\ k = NextEntry
         /\ \A j \in Entries : entries[j] # Null => entries[j].sha # c
  BY <1>1, <1>2, <1>3, BySHAFacts
<1>6. links' \in [Sites -> Entries \cup {Null}] /\ links'[s] = k /\ \A x \in Sites : x # s => links'[x] = links[x]
  BY <1>2, <1>4 DEF TablesOK
<1>7. PICK r : r = IF ssl[s] = Null THEN Null ELSE [ssl[s] EXCEPT !.path = p, !.sha = c, !.entry = k]
  OBVIOUS
<1>8. /\ r \in SslRow \cup {Null} /\ RowOK(r)
      /\ IF ssl[s] = Null THEN r = Null ELSE r # Null /\ r.mode = ssl[s].mode /\ r.path = p /\ r.sha = c
  <2>1. ssl[s] \in SslRow \cup {Null}
    BY DEF TablesOK
  <2>2. ssl[s] # Null => r \in SslRow /\ r.mode = ssl[s].mode /\ r.path = p /\ r.sha = c
    BY <1>4, <1>7, <2>1 DEF SslRow
  <2>3. QED
    BY <1>7, <2>2, NothingAssumption DEF RowOK
<1>9. ssl' = [ssl EXCEPT ![s] = r]
  BY <1>2, <1>7 DEF TablesOK
<1>10. /\ ssl' \in [Sites -> SslRow \cup {Null}] /\ \A x \in Sites : RowOK(ssl'[x])
       /\ ssl'[s] = r /\ \A x \in Sites : x # s => ssl'[x] = ssl[x]
  BY <1>8, <1>9, RowWritten
<1>11. QED
  BY <1>4, <1>5, <1>6, <1>8, <1>10

LEMMA ForgetFacts ==
  ASSUME TablesOK, NEW k \in Entries, ForgetExternal(k)
  PROVE  /\ entries' \in [Entries -> Entry \cup {Null}] /\ entries'[k] = Null
         /\ \A j \in Entries : j # k => entries'[j] = entries[j]
         /\ links' \in [Sites -> Entries \cup {Null}]
         /\ \A s \in Sites : links[s] # k => links'[s] = links[s]
         /\ ssl' \in [Sites -> SslRow \cup {Null}]
         /\ \A s \in Sites : IF ssl[s] = Null THEN ssl'[s] = Null
              ELSE ssl'[s] # Null /\ ssl'[s].mode = ssl[s].mode /\ ssl'[s].path = ssl[s].path /\ ssl'[s].sha = ssl[s].sha
         /\ \A s \in Sites : RowOK(ssl'[s])
<1>1. /\ entries' \in [Entries -> Entry \cup {Null}] /\ entries'[k] = Null
      /\ \A j \in Entries : j # k => entries'[j] = entries[j]
  BY DEF TablesOK, ForgetExternal
<1>2. links' \in [Sites -> Entries \cup {Null}] /\ \A s \in Sites : links[s] # k => links'[s] = links[s]
  BY DEF TablesOK, ForgetExternal
<1>3. ASSUME NEW s \in Sites
      PROVE  \E r \in SslRow \cup {Null} :
               /\ r = IF ssl[s] # Null /\ ssl[s].entry = k THEN [ssl[s] EXCEPT !.entry = Null] ELSE ssl[s]
               /\ IF ssl[s] = Null THEN r = Null
                  ELSE r # Null /\ r.mode = ssl[s].mode /\ r.path = ssl[s].path /\ r.sha = ssl[s].sha
  <2>1. ssl[s] \in SslRow \cup {Null}
    BY DEF TablesOK
  <2>2. PICK r : r = IF ssl[s] # Null /\ ssl[s].entry = k THEN [ssl[s] EXCEPT !.entry = Null] ELSE ssl[s]
    OBVIOUS
  <2>3. ssl[s] # Null => r \in SslRow /\ r.mode = ssl[s].mode /\ r.path = ssl[s].path /\ r.sha = ssl[s].sha
    BY <2>1, <2>2 DEF SslRow
  <2>4. QED
    BY <2>2, <2>3, NothingAssumption
<1>4. ssl' \in [Sites -> SslRow \cup {Null}] /\ \A s \in Sites :
        IF ssl[s] = Null THEN ssl'[s] = Null
        ELSE ssl'[s] # Null /\ ssl'[s].mode = ssl[s].mode /\ ssl'[s].path = ssl[s].path /\ ssl'[s].sha = ssl[s].sha
  BY <1>3 DEF ForgetExternal
<1>5. \A s \in Sites : RowOK(ssl'[s])
  BY <1>4 DEF TablesOK, RowOK
<1>6. QED
  BY <1>1, <1>2, <1>4, <1>5

-----------------------------------------------------------------------------
(* What is used up, and the calls of the agent.                            *)

Calm == /\ spent'.mishap = spent.mishap /\ spent'.stale = spent.stale
        /\ spent'.left = spent.left /\ spent'.edited = spent.edited

Good == ~spent.mishap /\ ~spent.stale

LEMMA SpentFacts ==
  ASSUME spent \in Spent
  PROVE  /\ UNCHANGED spent => spent' \in Spent /\ Calm /\ spent'.requests = spent.requests
         /\ Fault => spent' \in Spent /\ Calm /\ spent'.requests = spent.requests
         /\ Served => spent' \in Spent /\ Calm /\ spent'.requests = spent.requests + 1
         /\ Mishap => spent' \in Spent /\ spent'.mishap /\ spent'.left = spent.left /\ spent'.requests = spent.requests
<1>1. UNCHANGED spent => spent' \in Spent /\ Calm /\ spent'.requests = spent.requests
  BY DEF Calm
<1>2. Fault => spent' \in Spent /\ Calm /\ spent'.requests = spent.requests
  BY DEF Calm, Fault, Spent
<1>3. Served => spent' \in Spent /\ Calm /\ spent'.requests = spent.requests + 1
  BY DEF Calm, Served, Spent
<1>4. Mishap => spent' \in Spent /\ spent'.mishap /\ spent'.left = spent.left /\ spent'.requests = spent.requests
  <2>1. ASSUME Mishap PROVE spent' \in Spent
    <3>1. PICK m : m = TRUE
      OBVIOUS
    <3>2. m \in BOOLEAN
      BY <3>1
    <3>3. spent' = [spent EXCEPT !.faults = @ + 1, !.mishap = m]
      BY <2>1, <3>1 DEF Mishap
    <3>4. PICK f \in Nat : f = spent.faults + 1
      BY DEF Spent
    <3>5. spent' = [[spent EXCEPT !.faults = f] EXCEPT !.mishap = m]
      BY <3>3, <3>4 DEF Spent
    <3>6. PICK q : q = [spent EXCEPT !.faults = f]
      OBVIOUS
    <3>7. q \in Spent
      BY <3>4, <3>6 DEF Spent
    <3>8. [q EXCEPT !.mishap = m] \in Spent
      BY <3>2, <3>7 DEF Spent
    <3>9. QED
      BY <3>5, <3>6, <3>8
  <2>2. Mishap => spent'.left = spent.left /\ spent'.requests = spent.requests
    BY DEF Mishap, Spent
  <2>3. Mishap => spent'.mishap
    BY DEF Mishap, Spent
  <2>4. QED
    BY <2>1, <2>2, <2>3
<1>5. QED
  BY <1>1, <1>2, <1>3, <1>4

LEMMA InstallFacts ==
  ASSUME DiskOK, NEW x \in Tx(Sites), Install(x)
  PROVE  /\ DiskOK'
         /\ \A p \in Paths : files'[p] = IF p \in DOMAIN x.files THEN x.files[p] ELSE files[p]
         /\ \A s \in Sites : conf'[s] = IF s \in DOMAIN x.conf THEN x.conf[s] ELSE conf[s]
BY OverIsTotal DEF Tx, Install, DiskOK

(* The call of the thread t, whose transaction is x.                       *)
LEMMA CalledFacts ==
  ASSUME Typed, NEW t \in Threads, thread[t] # Null,
         NEW a \in ReqPlaces \cup JobPlaces, NEW b \in ReqPlaces \cup JobPlaces, Called(t, a, b)
  PROVE  \E n \in Thread(Sites) :
    /\ Alters(t, n) /\ Same(n, thread[t]) /\ DiskOK' /\ spent' \in Spent
    /\ spent'.left = spent.left /\ spent'.requests = spent.requests
    /\ \/ /\ n.pc = a /\ Acceptable(n.tx) /\ Install(n.tx) /\ Calm
       \/ n.pc = b /\ UNCHANGED disk /\ Calm
       \/ n.pc = b /\ spent'.mishap
<1>1. thread[t] \in Thread(Sites) /\ thread[t].tx \in Tx(Sites)
  BY IsThread DEF Typed, Thread
<1>2. CASE /\ Acceptable(thread[t].tx) /\ Install(thread[t].tx)
           /\ thread' = [thread EXCEPT ![t].pc = a] /\ UNCHANGED spent
  BY <1>2, Moved, <1>1, InstallFacts, SpentFacts DEF Typed, Same, Calm
<1>3. CASE /\ UNCHANGED spent \/ Fault
           /\ thread' = [thread EXCEPT ![t].pc = b] /\ UNCHANGED disk
  BY <1>3, Moved, SpentFacts DEF Typed, DiskOK, disk, Calm
<1>4. CASE Mishap /\ Install(thread[t].tx) /\ thread' = [thread EXCEPT ![t].pc = b]
  BY <1>4, Moved, <1>1, InstallFacts, SpentFacts DEF Typed
<1>5. QED
  BY <1>2, <1>3, <1>4 DEF Called

-----------------------------------------------------------------------------
(* A step of one thread preserves the invariant.                           *)

SameNumbers == \A o \in Orders : orders'[o] = Null <=> orders[o] = Null

LEMMA OneStep ==
  ASSUME CInv, NEW t \in Threads, NEW n \in Thread(Sites) \cup {Null}, Alters(t, n), Turn(t, n), Frame(t),
         n \in Thread(Sites) => Fits(t, n)' /\ Writes(t, n)',
         t = Req \/ n = Null \/ thread[t] # Null, SameNumbers,
         TablesOK', DiskOK', sweep' \in Sweep(Sites) \cup {Null}, spent' \in Spent
  PROVE  CInv'
BY OneThread, AlteredType, Altered, CertificatesAssumption DEF CInv, Typed, MemoryOK, Threads,
   Orders, NumbersInv, SameNumbers, Req

(* The thread of a request that changes nothing.                           *)
LEMMA NoThreadStep ==
  ASSUME CInv, thread[Req] = Null, UNCHANGED thread, mu' = mu, Frame(Req), SameNumbers,
         TablesOK', DiskOK', sweep' \in Sweep(Sites) \cup {Null}, spent' \in Spent
  PROVE  CInv'
BY NothingAssumption, OneStep DEF Threads, Alters, CInv, Typed, MemoryOK, Turn

(* Steps of the sweep.                                                     *)
LEMMA SweepStep ==
  ASSUME CInv, UNCHANGED <<tables, disk, thread, mu>>,
         sweep' \in Sweep(Sites) \cup {Null}, spent' \in Spent
  PROVE  CInv'
<1>1. TablesOK' /\ DiskOK'
  BY DEF CInv, Typed, TablesOK, DiskOK, tables, disk, RowOK
<1>2. Typed'
  BY <1>1 DEF CInv, Typed, MemoryOK
<1>3. LockInv' /\ NumbersInv'
  BY DEF CInv, LockInv, NumbersInv, Holds, Rewrites, tables
<1>4. ASSUME NEW t \in Threads, NEW r \in Thread(Sites), thread'[t] = r
      PROVE  Fits(t, r)' /\ Writes(t, r)'
  <2>1. Fits(t, r) /\ Writes(t, r) /\ UNCHANGED <<live, ssl, entries>>
    BY <1>4 DEF CInv, ThreadsInv, tables
  <2>2. Fits(t, r)'
    BY <2>1 DEF Fits, Placed, Rewrites, RowOK
  <2>3. Rewriting(t, r) => Rewriting(t, r)'
    BY <2>1 DEF Rewriting, Matches, Brings
  <2>4. Writes(t, r)'
    BY <2>1, <2>3 DEF Writes, Replacing, Uploading, Deleting, Removing, Rewrites, UsedRow
  <2>5. QED
    BY <2>2, <2>4
<1>5. QED
  BY <1>2, <1>3, <1>4 DEF CInv, ThreadsInv

LEMMA MarkFacts ==
  ASSUME orders \in [Orders -> Order \cup {Null, Gone}], NEW o \in Orders,
         NEW status \in {"pending", "processing", "failed", "pre_validation_failed", "success"},
         NEW err \in {"", "error", "deployment_pending", "deployment_failed", "renewal_finalize_failed"},
         orders' = Mark(orders, o, status, err)
  PROVE  /\ orders' \in [Orders -> Order \cup {Null, Gone}] /\ SameNumbers
         /\ \A p \in Orders : p # o => orders'[p] = orders[p]
         /\ \A p \in Orders : (orders'[p] = Gone <=> orders[p] = Gone)
         /\ ~Known(o) => orders'[o] = orders[o]
         /\ Known(o) => /\ orders'[o].status = status /\ orders'[o].err = err
                        /\ orders'[o].site = orders[o].site /\ orders'[o].auto = orders[o].auto
<1>1. CASE ~Known(o)
  BY <1>1 DEF Mark, SameNumbers
<1>2. CASE Known(o)
  <2>1. orders[o] \in Order
    BY <1>2 DEF Known
  <2>2. PICK r : r = [orders[o] EXCEPT !.status = status, !.err = err]
    OBVIOUS
  <2>3. /\ r \in Order /\ r.status = status /\ r.err = err
        /\ r.site = orders[o].site /\ r.auto = orders[o].auto
    BY <2>1, <2>2 DEF Order
  <2>4. orders' = [orders EXCEPT ![o] = r]
    BY <1>2, <2>2 DEF Mark
  <2>5. r \notin {Null, Gone} /\ orders[o] \notin {Null, Gone}
    BY <1>2, <2>3, OrderAssumption DEF Known
  <2>6. orders' \in [Orders -> Order \cup {Null, Gone}] /\ orders'[o] = r /\ \A p \in Orders : p # o => orders'[p] = orders[p]
    BY <2>3, <2>4
  <2>7. QED
    BY <1>2, <2>3, <2>5, <2>6 DEF SameNumbers
<1>3. QED
  BY <1>1, <1>2

(* Saved, or not.                                                          *)
LEMMA SavedFacts ==
  ASSUME CInv, NEW o \in Orders,
         NEW status \in {"pending", "processing", "failed", "pre_validation_failed", "success"},
         NEW err \in {"", "error", "deployment_pending", "deployment_failed", "renewal_finalize_failed"},
         \/ MarkIfSaved(o, status, err)
         \/ (UNCHANGED spent \/ Fault \/ Mishap) /\ orders' \in {Mark(orders, o, status, err), orders}
  PROVE  /\ orders' \in [Orders -> Order \cup {Null, Gone}] /\ SameNumbers /\ spent' \in Spent
         /\ orders' = Mark(orders, o, status, err) \/ orders' = orders
         /\ spent'.left = spent.left /\ spent'.requests = spent.requests
<1>1. /\ UNCHANGED spent \/ Fault \/ Mishap
      /\ orders' = Mark(orders, o, status, err) \/ orders' = orders
  BY DEF MarkIfSaved
<1>2. orders \in [Orders -> Order \cup {Null, Gone}] /\ spent \in Spent
  BY DEF CInv, Typed, TablesOK
<1>3. spent' \in Spent /\ spent'.left = spent.left /\ spent'.requests = spent.requests
  BY <1>1, <1>2, SpentFacts DEF Calm
<1>4. CASE orders' = orders
  BY <1>1, <1>2, <1>3, <1>4 DEF SameNumbers
<1>5. CASE orders' = Mark(orders, o, status, err)
  BY <1>1, <1>2, <1>3, <1>5, MarkFacts
<1>6. QED
  BY <1>1, <1>4, <1>5

LEMMA UnsavedFacts ==
  ASSUME CInv, NEW o \in Orders, Unsaved(o)
  PROVE  /\ orders' \in [Orders -> Order \cup {Null, Gone}] /\ SameNumbers /\ spent' \in Spent
         /\ spent'.left = spent.left \cup {o} /\ spent'.requests = spent.requests
         /\ spent'.mishap = spent.mishap /\ spent'.stale = spent.stale /\ spent'.edited = spent.edited
<1>1. orders' = orders /\ spent \in Spent /\ orders \in [Orders -> Order \cup {Null, Gone}]
  BY DEF Unsaved, CInv, Typed, TablesOK
<1>2. PICK l \in SUBSET Orders : l = spent.left \cup {o}
  BY <1>1 DEF Spent
<1>3. PICK f \in Nat : f = spent.faults + 1
  BY <1>1 DEF Spent
<1>4. PICK q : q = [spent EXCEPT !.faults = f]
  OBVIOUS
<1>5. q \in Spent /\ q.mishap = spent.mishap /\ q.stale = spent.stale /\ q.edited = spent.edited /\ q.requests = spent.requests
  BY <1>1, <1>3, <1>4 DEF Spent
<1>6. spent' = [q EXCEPT !.left = l]
  BY <1>2, <1>3, <1>4 DEF Unsaved
<1>7. /\ spent' \in Spent /\ spent'.left = l /\ spent'.requests = q.requests
      /\ spent'.mishap = q.mishap /\ spent'.stale = q.stale /\ spent'.edited = q.edited
  BY <1>5, <1>6 DEF Spent
<1>8. QED
  BY <1>1, <1>2, <1>5, <1>7 DEF SameNumbers

(* The number of a new order.                                              *)
LEMMA NumberIsNew ==
  ASSUME CInv, NextOrder \in Orders
  PROVE  /\ orders[NextOrder] = Null /\ thread[NextOrder] = Null /\ NextOrder \in Threads
         /\ \A p \in 1..NextOrder : p # NextOrder => orders[p] # Null
<1> DEFINE S == {o \in Orders : orders[o] # Null}
<1>1. Orders = 1..MaxOrders /\ MaxOrders \in Nat
  BY CertificatesAssumption DEF Orders
<1>2. \A x \in S : \A y \in 1..x : y \in S
  BY <1>1 DEF CInv, NumbersInv
<1>3. PICK c \in Nat : c = Cardinality(S) /\ S = 1..c
  <2>1. PICK N \in Nat : N = MaxOrders
    BY <1>1
  <2>2. PICK T : T = S
    OBVIOUS
  <2>3. T \in SUBSET (1..N) /\ \A x \in T : \A y \in 1..x : y \in T
    BY <1>1, <1>2, <2>1, <2>2
  <2>4. Cardinality(T) \in 0..N /\ T = 1..Cardinality(T)
    BY <2>3, InitialSegment
  <2>5. QED
    BY <2>2, <2>4
<1>4. NextOrder = c + 1
  BY <1>3 DEF NextOrder
<1>5. NextOrder \notin S /\ \A p \in 1..NextOrder : p # NextOrder => p \in S
  <2>1. \A p : p \in S <=> p \in 1..c
    BY <1>3
  <2>2. QED
    BY <1>4, <2>1
<1>6. orders[NextOrder] = Null /\ \A p \in 1..NextOrder : p # NextOrder => orders[p] # Null
  BY <1>5
<1>7. QED
  BY <1>6 DEF CInv, NumbersInv, Threads

-----------------------------------------------------------------------------
(* Requests.                                                               *)

LEMMA PlacesAre ==
  /\ Req \in Threads /\ Req \notin Orders /\ Null \notin Thread(Sites) /\ Null \notin Threads
  /\ "call" \in ReqPlaces /\ "done" \in ReqPlaces /\ "failed" \in ReqPlaces /\ "admitted" \in ReqPlaces
  /\ ReqPlaces \cap JobPlaces = {}
  /\ Holds(Null) = FALSE
BY NothingAssumption, CertificatesAssumption DEF Threads, Req, Orders, ReqPlaces, JobPlaces, Holds

LEMMA RefusedConfigure ==
  ASSUME CInv, NEW s \in Sites, NEW r \in SslRow, RowOK(r), ssl' = [ssl EXCEPT ![s] = r],
         thread[Req] = Null, mu = Null, UNCHANGED <<thread, mu, live, entries, links, orders, lastEntry, disk, sweep>>,
         spent' \in Spent
  PROVE  CInv'
<1>1. ssl' \in [Sites -> SslRow \cup {Null}] /\ \A x \in Sites : RowOK(ssl'[x])
  BY RowWritten DEF CInv, Typed
<1>2. TablesOK' /\ DiskOK'
  BY <1>1 DEF CInv, Typed, TablesOK, DiskOK, RowOK, disk
<1>3. Frame(Req) /\ SameNumbers
  BY DEF Frame, SameNumbers
<1>4. QED
  BY <1>2, <1>3, NoThreadStep DEF CInv, Typed, MemoryOK

LEMMA ConfigureStep ==
  ASSUME CInv, NEW s \in Sites, NEW op \in {"use", "disable"},
         NEW mode \in {"manual_pem", "existing_files", "disabled"},
         NEW p \in Paths \cup {Null}, p \in Paths <=> mode # "disabled", NEW c \in Bytes \cup {Null},
         op = "use" => p \in Paths /\ c \in Bytes,
         NEW w \in Partly(Paths, Bytes \cup {Absent}),
         \A k \in Entries : Stored(k) \in DOMAIN w => w[Stored(k)] = Absent,
         Configure(op, s, mode, p, c, w)
  PROVE  CInv'
<1>1. PICK r : r = Naming(mode, p, c, Null)
  OBVIOUS
<1>2. /\ r \in SslRow /\ r # Null /\ RowOK(r)
      /\ r.mode = mode /\ r.path = p /\ r.sha = c /\ r.entry = Null
  BY <1>1, NamingFacts
<1>3. ssl' = [ssl EXCEPT ![s] = r] /\ thread[Req] = Null /\ mu = Null /\ s \in live
  BY <1>1 DEF Configure, Serve
<1>4. /\ ssl' \in [Sites -> SslRow \cup {Null}] /\ \A x \in Sites : RowOK(ssl'[x])
      /\ ssl'[s] = r /\ \A x \in Sites : x # s => ssl'[x] = ssl[x]
  BY <1>2, <1>3, RowWritten DEF CInv, Typed
<1>5. CASE /\ Renderable(s) /\ Request(op, "call", s, Null, Null, [NoTx EXCEPT !.files = w, !.conf = Put(s, p)])
           /\ mu' = Req /\ Served
  <2>0. p \in Named
    BY DEF Named
  <2>1. Put(s, p) \in Partly(Sites, Named) /\ DOMAIN Put(s, p) = {s} /\ Put(s, p)[s] = p
    BY <2>0, PutConf
  <2>2. PICK y : y = Put(s, p)
    OBVIOUS
  <2>2a. PICK x : x = [NoTx EXCEPT !.files = w, !.conf = y]
    OBVIOUS
  <2>3. x \in Tx(Sites) /\ x.files = w /\ x.conf = Put(s, p) /\ x.hash = {} /\ x.test = TRUE
    BY <2>1, <2>2, <2>2a, NoTxForm DEF Tx
  <2>4. PICK n \in Thread(Sites) :
           /\ Alters(Req, n)
           /\ n.op = op /\ n.pc = "call" /\ n.site = s /\ n.entry = Null /\ n.order = Null /\ n.tx = x
           /\ RowOK(n.undo)
    BY <1>5, <2>2, <2>2a, <2>3, Requested, PlacesAre DEF CInv
  <2>5. Fits(Req, n)'
    BY <1>5, <2>4, PlacesAre DEF Fits, Placed, RowOK, Renderable
  <2>6. Rewriting(Req, n)'
    BY <1>2, <1>4, <2>1, <2>3, <2>4, PlacesAre DEF Rewriting, Matches, Brings
  <2>7. Writes(Req, n)'
    BY <1>3, <1>2, <1>4, <2>4, <2>6 DEF Configure, UsedRow, Writes, Rewrites
  <2>8. Turn(Req, n)
    BY <1>3, <1>5, <2>4, PlacesAre DEF Turn, Holds, Rewrites, RowOps
  <2>9. UNCHANGED <<live, entries, links, orders, lastEntry, disk, sweep>>
    BY DEF Configure
  <2>10. TablesOK' /\ DiskOK' /\ SameNumbers /\ Frame(Req)
    BY <1>3, <1>4, <2>9 DEF CInv, Typed, TablesOK, DiskOK, RowOK, disk, SameNumbers, Frame
  <2>11. sweep' \in Sweep(Sites) \cup {Null} /\ spent' \in Spent
    BY <1>5, <2>9, SpentFacts DEF CInv, Typed, MemoryOK
  <2>12. QED
    BY <2>4, <2>5, <2>7, <2>8, <2>10, <2>11, OneStep, PlacesAre
<1>6. CASE UNCHANGED <<thread, mu>> /\ spent' \in Spent
  BY <1>2, <1>3, <1>6, RefusedConfigure DEF Configure
<1>7. ASSUME spent' = [spent EXCEPT !.requests = @ + 1, !.faults = @ + 1, !.mishap = TRUE]
      PROVE  spent' \in Spent
  <2>1. PICK m \in BOOLEAN : m = TRUE
    OBVIOUS
  <2>2. PICK f \in Nat, g \in Nat : f = spent.requests + 1 /\ g = spent.faults + 1
    BY DEF CInv, Typed, Spent
  <2>3. PICK q : q = [spent EXCEPT !.requests = f, !.faults = g]
    OBVIOUS
  <2>4. q \in Spent
    BY <2>3 DEF CInv, Typed, Spent
  <2>5. [q EXCEPT !.mishap = m] \in Spent
    BY <2>4 DEF Spent
  <2>6. spent' = [q EXCEPT !.mishap = m]
    BY <1>7, <2>1, <2>2, <2>3 DEF CInv, Typed, Spent
  <2>7. QED
    BY <2>5, <2>6
<1>8. Served => spent' \in Spent
  BY SpentFacts DEF CInv, Typed
<1>9. QED
  BY <1>5, <1>6, <1>7, <1>8 DEF Configure

LEMMA DeployFacts ==
  ASSUME Typed, NEW s \in Sites, NEW k \in Entries, conf[s] # Absent, entries[k] # Null
  PROVE  LET x == Deployment(s, k) IN
         /\ x \in Tx(Sites) /\ DOMAIN x.files = {} /\ DOMAIN x.conf = {s} /\ x.conf[s] = entries[k].path
         /\ x.hash = {conf[s]} /\ x.test = TRUE /\ entries[k].path \in Paths
<1>1. entries[k] \in Entry /\ conf[s] \in Named
  BY DEF Typed, TablesOK, DiskOK
<1>2. PICK p \in Paths : p = entries[k].path
  BY <1>1 DEF Entry
<1>3. p \in Named
  BY DEF Named
<1>4. PICK y : y = Put(s, p)
  OBVIOUS
<1>4a. Put(s, p) \in Partly(Sites, Named) /\ DOMAIN Put(s, p) = {s} /\ Put(s, p)[s] = p
  BY <1>3, PutConf
<1>5. y \in Partly(Sites, Named) /\ DOMAIN y = {s} /\ y[s] = p
  BY <1>4, <1>4a
<1>6. PICK h : h = {conf[s]}
  OBVIOUS
<1>7. PICK x : x = [NoTx EXCEPT !.conf = y, !.hash = h]
  OBVIOUS
<1>8. x \in Tx(Sites) /\ x.files = Nothing /\ x.conf = y /\ x.hash = h /\ x.test = TRUE
  BY <1>1, <1>5, <1>6, <1>7, NoTxForm DEF Tx
<1>9. x = Deployment(s, k)
  BY <1>2, <1>4, <1>6, <1>7 DEF Deployment
<1>10. QED
  BY <1>2, <1>5, <1>6, <1>8, <1>9, NoTxForm

LEMMA DeployingFacts ==
  ASSUME Typed, NEW s, NEW k, Deployable(s, k), Deploying(s, k)
  PROVE  /\ s \in Sites /\ s \in live /\ s \in Marked /\ k \in Entries /\ entries[k] # Null
         /\ conf[s] # Absent /\ conf[s] \in Named
         /\ entries[k].path \in Paths /\ files[entries[k].path] # Absent
         /\ ssl' \in [Sites -> SslRow \cup {Null}] /\ \A x \in Sites : RowOK(ssl'[x])
         /\ ssl'[s] # Null /\ ssl'[s].mode = "from_store" /\ ssl'[s].path = entries[k].path
         /\ \A x \in Sites : x # s => ssl'[x] = ssl[x]
BY NamingFacts, RowWritten DEF Deployable, Kept, Typed, TablesOK, DiskOK, Entry, Deploying

(* A request or a redeployment that takes the mutex and rewrites the row.  *)
LEMMA DeployStep ==
  ASSUME CInv, NEW s, NEW k, NEW op \in {"deploy", "redeploy"}, NEW o \in Orders \cup {Null},
         op = "redeploy" => o \in Orders, mu = Null, mu' = Req, Deployable(s, k), Deploying(s, k),
         Request(op, "call", s, k, o, Deployment(s, k)),
         UNCHANGED <<live, entries, links, orders, lastEntry, disk, sweep>>, spent' \in Spent
  PROVE  CInv'
<1>1. /\ s \in Sites /\ s \in live /\ s \in Marked /\ k \in Entries /\ entries[k] # Null
      /\ conf[s] # Absent
      /\ ssl' \in [Sites -> SslRow \cup {Null}] /\ \A x \in Sites : RowOK(ssl'[x])
      /\ ssl'[s] # Null /\ ssl'[s].mode = "from_store" /\ ssl'[s].path = entries[k].path
  BY DeployingFacts DEF CInv
<1>2. PICK x : x = Deployment(s, k)
  OBVIOUS
<1>3. /\ x \in Tx(Sites) /\ DOMAIN x.files = {} /\ DOMAIN x.conf = {s} /\ x.conf[s] = entries[k].path
      /\ x.test = TRUE
  BY <1>1, <1>2, DeployFacts DEF CInv
<1>4. PICK n \in Thread(Sites) :
         /\ Alters(Req, n)
         /\ n.op = op /\ n.pc = "call" /\ n.site = s /\ n.entry = k /\ n.order = o /\ n.tx = x
         /\ RowOK(n.undo)
  BY <1>1, <1>2, <1>3, Requested, PlacesAre DEF CInv
<1>5. Fits(Req, n)'
  BY <1>1, <1>4, PlacesAre DEF Fits, Placed, RowOK
<1>6. Rewriting(Req, n)'
  BY <1>1, <1>3, <1>4, PlacesAre DEF Rewriting, Matches, Brings
<1>7. Writes(Req, n)'
  BY <1>4, <1>6 DEF Writes, Rewrites
<1>8. Turn(Req, n)
  BY <1>4, PlacesAre DEF Turn, Holds, Rewrites, RowOps
<1>9. TablesOK' /\ DiskOK' /\ SameNumbers /\ Frame(Req)
  BY <1>1 DEF CInv, Typed, TablesOK, DiskOK, RowOK, disk, SameNumbers, Frame
<1>10. sweep' \in Sweep(Sites) \cup {Null}
  BY DEF CInv, Typed, MemoryOK
<1>11. QED
  BY <1>4, <1>5, <1>7, <1>8, <1>9, <1>10, OneStep, PlacesAre

LEMMA PathKinds ==
  /\ \A k \in Entries : Stored(k) \in Paths /\ Stored(k)[1] = "store"
  /\ \A s \in Sites : Manual(s) \in Paths /\ Manual(s)[1] = "manual"
  /\ \A o \in Orders : Issued(o) \in Paths /\ Issued(o)[1] = "issued"
  /\ \A x \in Outside : External(x) \in Paths /\ External(x)[1] = "outside"
  /\ \A j, k \in Entries : Stored(j) = Stored(k) => j = k
  /\ \A p \in Paths : p[1] = "store" => \E k \in Entries : p = Stored(k)
  /\ \A p \in Paths : p[1] = "outside" => \E x \in Outside : p = External(x)
BY DEF Paths, Stored, Manual, Issued, External

LEMMA UploadStep ==
  ASSUME CInv, NEW c \in Certs, UploadToStore(c)
  PROVE  CInv'
<1>1. PICK k : k = NextEntry
  OBVIOUS
<1>2. /\ thread[Req] = Null /\ mu = Null /\ mu' = Req /\ Served /\ NewEntry(Stored(k), c, "panel")
      /\ UNCHANGED <<live, ssl, links, orders, disk, sweep>>
  BY <1>1 DEF UploadToStore, Locked, Served, Serve
<1>3. k \in Entries /\ Stored(k) \in Paths /\ c \in Bytes
  BY <1>1, <1>2, PathKinds DEF NewEntry, Bytes
<1>4. /\ lastEntry' \in 0..MaxEntries /\ entries' \in [Entries -> Entry \cup {Null}]
      /\ entries'[k] # Null /\ entries'[k].path = Stored(k) /\ entries'[k].sha = c
      /\ \A j \in Entries : entries'[j] # Null => j <= lastEntry'
  BY <1>1, <1>2, <1>3, NewEntryFacts DEF CInv, Typed
<1>5. /\ Put(Stored(k), c) \in Partly(Paths, Bytes \cup {Absent}) /\ DOMAIN Put(Stored(k), c) = {Stored(k)}
      /\ Put(Stored(k), c)[Stored(k)] = c
  BY <1>3, PutIsPart
<1>6. PICK y : y = Put(Stored(k), c)
  OBVIOUS
<1>7. PICK x : x = [NoTx EXCEPT !.files = y, !.test = FALSE]
  OBVIOUS
<1>8. x \in Tx(Sites) /\ x.files = y /\ DOMAIN x.conf = {}
  BY <1>5, <1>6, <1>7, NoTxForm DEF Tx
<1>9. PICK n \in Thread(Sites) :
         /\ Alters(Req, n) /\ n.op = "upload" /\ n.pc = "call" /\ n.site = Null /\ n.entry = k /\ n.tx = x
         /\ RowOK(n.undo)
  BY <1>1, <1>3, <1>6, <1>7, <1>8, Requested, PlacesAre DEF CInv, UploadToStore
<1>10. Fits(Req, n)'
  BY <1>3, <1>4, <1>9, PlacesAre DEF Fits, Placed, RowOK, Rewrites, RowOps
<1>11. Uploading(n)'
  BY <1>4, <1>5, <1>6, <1>8, <1>9 DEF Uploading
<1>12. Writes(Req, n)'
  BY <1>9, <1>11 DEF Writes, Rewrites, RowOps
<1>13. Turn(Req, n)
  BY <1>2, <1>9, PlacesAre DEF Turn, Holds, Rewrites, RowOps
<1>14. TablesOK' /\ DiskOK' /\ SameNumbers /\ Frame(Req)
  BY <1>2, <1>4 DEF CInv, Typed, TablesOK, DiskOK, RowOK, disk, SameNumbers, Frame
<1>15. sweep' \in Sweep(Sites) \cup {Null} /\ spent' \in Spent
  BY <1>2, SpentFacts DEF CInv, Typed, MemoryOK
<1>16. QED
  BY <1>9, <1>10, <1>12, <1>13, <1>14, <1>15, OneStep, PlacesAre

LEMMA DeleteFromStoreStep ==
  ASSUME CInv, NEW k \in Entries, DeleteFromStore(k)
  PROVE  CInv'
<1>1. /\ thread[Req] = Null /\ mu = Null /\ Served /\ entries[k] # Null
      /\ UNCHANGED <<live, orders, lastEntry, disk, sweep>>
  BY DEF DeleteFromStore, Served, Serve, Kept
<1>2. sweep' \in Sweep(Sites) \cup {Null} /\ spent' \in Spent /\ DiskOK' /\ SameNumbers
  BY <1>1, SpentFacts DEF CInv, Typed, MemoryOK, SameNumbers, DiskOK, disk
<1>3. CASE ForgetExternal(k) /\ UNCHANGED <<thread, mu>>
  BY <1>3, ForgetFacts, <1>1, <1>2, NoThreadStep DEF CInv, Typed, TablesOK, RowOK, Frame
<1>4. CASE /\ Request("delete", "call", Null, k, Null,
                [NoTx EXCEPT !.files = Put(entries[k].path, Absent), !.test = FALSE])
           /\ mu' = Req /\ UNCHANGED <<ssl, entries, links>>
  <2>1. PICK p \in Paths : p = entries[k].path
    BY <1>1 DEF CInv, Typed, TablesOK, Entry
  <2>2. /\ Put(p, Absent) \in Partly(Paths, Bytes \cup {Absent}) /\ DOMAIN Put(p, Absent) = {p}
        /\ Put(p, Absent)[p] = Absent
    BY PutIsPart
  <2>3. PICK y : y = Put(p, Absent)
    OBVIOUS
  <2>4. PICK x : x = [NoTx EXCEPT !.files = y, !.test = FALSE]
    OBVIOUS
  <2>5. x \in Tx(Sites) /\ x.files = y /\ DOMAIN x.conf = {}
    BY <2>2, <2>3, <2>4, NoTxForm DEF Tx
  <2>6. PICK n \in Thread(Sites) :
           /\ Alters(Req, n) /\ n.op = "delete" /\ n.pc = "call" /\ n.site = Null /\ n.entry = k /\ n.tx = x
           /\ RowOK(n.undo)
    BY <1>4, <2>1, <2>3, <2>4, <2>5, Requested, PlacesAre DEF CInv
  <2>7. Fits(Req, n)'
    BY <1>1, <1>4, <2>6, PlacesAre DEF Fits, Placed, RowOK, Rewrites, RowOps
  <2>8. Deleting(n)'
    BY <1>4, <2>1, <2>2, <2>3, <2>5, <2>6 DEF Deleting
  <2>9. Writes(Req, n)'
    BY <2>6, <2>8 DEF Writes, Rewrites, RowOps
  <2>10. Turn(Req, n)
    BY <1>1, <1>4, <2>6, PlacesAre DEF Turn, Holds, Rewrites, RowOps
  <2>11. TablesOK' /\ Frame(Req)
    BY <1>1, <1>4 DEF CInv, Typed, TablesOK, RowOK, Frame
  <2>12. QED
    BY <1>2, <2>6, <2>7, <2>9, <2>10, <2>11, OneStep, PlacesAre
<1>5. QED
  BY <1>3, <1>4 DEF DeleteFromStore

LEMMA AdoptStep ==
  ASSUME CInv, NEW s \in Sites, AdoptCertificate(s)
  PROVE  CInv'
<1>1. /\ thread[Req] = Null /\ mu = Null /\ Served /\ Scanned(s) /\ AdoptExternal(s, conf[s], files[conf[s]])
      /\ UNCHANGED <<live, orders, disk, thread, mu, sweep>>
  BY DEF AdoptCertificate, Served, Serve
<1>2. PICK p \in Paths : p = conf[s]
  BY <1>1 DEF Scanned
<1>3. PICK c \in Bytes : c = files[p]
  BY <1>1, <1>2 DEF Scanned, CInv, Typed, DiskOK
<1>4. AdoptExternal(s, p, c)
  BY <1>1, <1>2, <1>3
<1>5. /\ links' \in [Sites -> Entries \cup {Null}]
      /\ ssl' \in [Sites -> SslRow \cup {Null}] /\ \A x \in Sites : RowOK(ssl'[x])
      /\ UNCHANGED <<entries, lastEntry>> \/ NewEntry(p, c, "external")
  BY <1>4, AdoptFacts DEF CInv, Typed
<1>6. /\ entries' \in [Entries -> Entry \cup {Null}] /\ lastEntry' \in 0..MaxEntries
      /\ \A k \in Entries : entries'[k] # Null => k <= lastEntry'
  BY NewEntryFacts, <1>5 DEF CInv, Typed, TablesOK
<1>7. TablesOK' /\ DiskOK' /\ SameNumbers /\ Frame(Req)
  BY <1>1, <1>5, <1>6 DEF CInv, Typed, TablesOK, DiskOK, RowOK, disk, SameNumbers, Frame
<1>8. sweep' \in Sweep(Sites) \cup {Null} /\ spent' \in Spent
  BY <1>1, SpentFacts DEF CInv, Typed, MemoryOK
<1>9. QED
  BY <1>1, <1>7, <1>8, NoThreadStep

LEMMA ReplaceStep ==
  ASSUME CInv, NEW s \in Sites, NEW k \in Entries, ReplaceCertificate(s, k)
  PROVE  CInv'
<1>1. /\ thread[Req] = Null /\ mu = Null /\ mu' = Req /\ Served /\ conf[s] \in Paths
      /\ entries[k] # Null /\ entries[k].path[1] = "store"
      /\ UNCHANGED <<tables, disk, sweep>>
      /\ Request("replace", "call", s, k, Null, Deployment(s, k))
  BY DEF ReplaceCertificate, Served, Serve, Locked, Scanned, Kept
<1>2. conf[s] # Absent
  BY <1>1, PathsAssumption
<1>3. PICK x : x = Deployment(s, k)
  OBVIOUS
<1>4. /\ x \in Tx(Sites) /\ DOMAIN x.files = {} /\ DOMAIN x.conf = {s} /\ x.conf[s] = entries[k].path
      /\ x.test = TRUE /\ x.hash = {conf[s]}
  BY <1>1, <1>2, <1>3, DeployFacts DEF CInv
<1>5. PICK n \in Thread(Sites) :
         /\ Alters(Req, n) /\ n.op = "replace" /\ n.pc = "call" /\ n.site = s /\ n.entry = k /\ n.tx = x
         /\ RowOK(n.undo)
  BY <1>1, <1>3, <1>4, Requested, PlacesAre DEF CInv
<1>6. UNCHANGED <<live, ssl, entries, links, orders, lastEntry>>
  BY <1>1 DEF tables
<1>7. Fits(Req, n)'
  BY <1>1, <1>5, <1>6, PlacesAre DEF Fits, Placed, RowOK, Rewrites, RowOps
<1>8. Replacing(n)'
  BY <1>2, <1>4, <1>5, <1>6 DEF Replacing
<1>9. Writes(Req, n)'
  BY <1>5, <1>8 DEF Writes, Rewrites, RowOps
<1>10. Turn(Req, n)
  BY <1>1, <1>5, PlacesAre DEF Turn, Holds, Rewrites, RowOps
<1>11. TablesOK' /\ DiskOK' /\ SameNumbers /\ Frame(Req)
  BY <1>1, <1>6 DEF CInv, Typed, TablesOK, DiskOK, RowOK, disk, SameNumbers, Frame
<1>12. sweep' \in Sweep(Sites) \cup {Null} /\ spent' \in Spent
  BY <1>1, SpentFacts DEF CInv, Typed, MemoryOK
<1>13. QED
  BY <1>5, <1>7, <1>9, <1>10, <1>11, <1>12, OneStep, PlacesAre

LEMMA DeleteSiteStep ==
  ASSUME CInv, NEW s \in Sites, NEW b \in BOOLEAN, DeleteSite(s, b)
  PROVE  CInv'
<1> DEFINE named == b /\ ssl[s] # Null /\ ssl[s].path # Null
<1>1. /\ thread[Req] = Null /\ Served /\ s \in live /\ UNCHANGED <<tables, disk, mu, sweep>>
      /\ Request("site", "call", s, Null, Null,
          [NoTx EXCEPT !.conf = Put(s, Absent), !.files = IF named THEN Put(ssl[s].path, Absent) ELSE Nothing])
  BY DEF DeleteSite, Served, Serve
<1>2. PICK w : w = IF named THEN Put(ssl[s].path, Absent) ELSE Nothing
  OBVIOUS
<1>3. w \in Partly(Paths, Bytes \cup {Absent}) /\ \A p \in DOMAIN w : w[p] = Absent
  <2>1. CASE named
    <3>1. PICK p \in Paths : p = ssl[s].path
      BY <2>1 DEF CInv, Typed, TablesOK, SslRow
    <3>2. Put(p, Absent) \in Partly(Paths, Bytes \cup {Absent}) /\ DOMAIN Put(p, Absent) = {p} /\ Put(p, Absent)[p] = Absent
      BY PutIsPart
    <3>3. QED
      BY <1>2, <2>1, <3>1, <3>2
  <2>2. CASE ~named
    BY <1>2, <2>2, NothingIsPart
  <2>3. QED
    BY <2>1, <2>2
<1>4. Put(s, Absent) \in Partly(Sites, Named) /\ DOMAIN Put(s, Absent) = {s} /\ Put(s, Absent)[s] = Absent
  BY PutConf DEF Named
<1>5. PICK y : y = Put(s, Absent)
  OBVIOUS
<1>6. PICK x : x = [NoTx EXCEPT !.conf = y, !.files = w]
  OBVIOUS
<1>7. x \in Tx(Sites) /\ x.files = w /\ x.conf = y /\ x.test = TRUE
  BY <1>3, <1>4, <1>5, <1>6, NoTxForm DEF Tx
<1>8. Request("site", "call", s, Null, Null, x)
  BY <1>1, <1>2, <1>5, <1>6
<1>9. PICK n \in Thread(Sites) :
         /\ Alters(Req, n) /\ n.op = "site" /\ n.pc = "call" /\ n.site = s /\ n.tx = x /\ RowOK(n.undo)
  BY <1>7, <1>8, Requested, PlacesAre DEF CInv
<1>10. UNCHANGED <<live, ssl, entries, links, orders, lastEntry>>
  BY <1>1 DEF tables
<1>11. Fits(Req, n)'
  BY <1>9, PlacesAre DEF Fits, Placed, RowOK, Rewrites, RowOps
<1>12. Removing(n)'
  BY <1>3, <1>4, <1>5, <1>7, <1>9 DEF Removing
<1>13. Writes(Req, n)'
  BY <1>9, <1>12 DEF Writes, Rewrites, RowOps
<1>14. Turn(Req, n)
  BY <1>1, <1>9, PlacesAre DEF Turn, Holds, Rewrites, RowOps
<1>15. TablesOK' /\ DiskOK' /\ SameNumbers /\ Frame(Req)
  BY <1>1, <1>10 DEF CInv, Typed, TablesOK, DiskOK, RowOK, disk, SameNumbers, Frame
<1>16. sweep' \in Sweep(Sites) \cup {Null} /\ spent' \in Spent
  BY <1>1, SpentFacts DEF CInv, Typed, MemoryOK
<1>17. QED
  BY <1>9, <1>11, <1>13, <1>14, <1>15, <1>16, OneStep, PlacesAre

LEMMA EditStep ==
  ASSUME CInv, NEW s \in Sites, NEW p \in Paths, EditConfiguration(s, p)
  PROVE  CInv'
<1>1. /\ thread[Req] = Null /\ conf' = [conf EXCEPT ![s] = p]
      /\ spent' = [spent EXCEPT !.requests = @ + 1, !.edited = @ \cup {s}]
      /\ UNCHANGED <<tables, files, thread, mu, sweep>>
  BY DEF EditConfiguration, Serve
<1>2. spent' \in Spent
  <2>1. spent.requests \in Nat /\ spent.edited \in SUBSET Sites
    BY DEF CInv, Typed, Spent
  <2>2. PICK f \in Nat : f = spent.requests + 1
    BY <2>1
  <2>3. PICK e \in SUBSET Sites : e = spent.edited \cup {s}
    BY <2>1
  <2>4. spent' = [spent EXCEPT !.requests = f, !.edited = e]
    BY <1>1, <2>2, <2>3
  <2>5. QED
    BY <2>4 DEF CInv, Typed, Spent
<1>3. DiskOK'
  BY <1>1 DEF CInv, Typed, DiskOK, Named
<1>4. UNCHANGED <<live, ssl, entries, links, orders, lastEntry>>
  BY <1>1 DEF tables
<1>5. TablesOK' /\ SameNumbers /\ Frame(Req)
  BY <1>4 DEF CInv, Typed, TablesOK, RowOK, SameNumbers, Frame
<1>6. QED
  BY <1>1, <1>2, <1>3, <1>5, NoThreadStep DEF CInv, Typed, MemoryOK

(* A new order and its job.                                                *)
LEMMA LaunchFacts ==
  ASSUME CInv, NEW s \in Sites, NEW auto \in BOOLEAN, NEW previous \in Orders \cup {Null},
         NEW forced \in BOOLEAN, Launch(s, auto, previous, forced)
  PROVE  /\ NextOrder \in Orders /\ NextOrder \in Threads /\ NextOrder # Req /\ Admits(s)
         /\ orders[NextOrder] = Null /\ thread[NextOrder] = Null
         /\ orders' \in [Orders -> Order \cup {Null, Gone}]
         /\ orders'[NextOrder] \in Order /\ orders'[NextOrder].site = s /\ orders'[NextOrder].status = "pending"
         /\ orders'[NextOrder].auto = auto
         /\ \A o \in Orders : o # NextOrder => orders'[o] = orders[o]
         /\ \E n \in Thread(Sites) :
              /\ Alters(NextOrder, n) /\ n.op \in {"obtain", "forced"} /\ n.pc = "prepare"
              /\ n.site = s /\ n.order = previous /\ n.undo = Null
<1>1. NextOrder \in Orders /\ Admits(s)
  BY DEF Launch
<1>2. orders[NextOrder] = Null /\ thread[NextOrder] = Null /\ NextOrder \in Threads /\ NextOrder # Req
  BY <1>1, NumberIsNew, PlacesAre
<1>3. PICK r : r = [site |-> s, status |-> "pending", err |-> "", entry |-> Null, auto |-> auto]
  OBVIOUS
<1>4. r \in Order /\ r.site = s /\ r.status = "pending" /\ r.auto = auto
  BY <1>3 DEF Order
<1>5. orders' = [orders EXCEPT ![NextOrder] = r]
  BY <1>3 DEF Launch
<1>6. /\ orders' \in [Orders -> Order \cup {Null, Gone}] /\ orders'[NextOrder] = r
      /\ \A o \in Orders : o # NextOrder => orders'[o] = orders[o]
  BY <1>1, <1>4, <1>5 DEF CInv, Typed, TablesOK
<1>7. PICK op : op = IF forced THEN "forced" ELSE "obtain"
  OBVIOUS
<1>8. PICK x : x = NoTx
  OBVIOUS
<1>9. x \in Tx(Sites)
  BY <1>8, NoTxForm
<1>10. PICK n : n = [op |-> op, pc |-> "prepare", site |-> s, entry |-> Null, order |-> previous, tx |-> x, undo |-> Null]
  OBVIOUS
<1>11. "prepare" \in JobPlaces /\ op \in {"obtain", "forced"}
  BY <1>7 DEF JobPlaces
<1>12. /\ n \in Thread(Sites) /\ n.op \in {"obtain", "forced"} /\ n.pc = "prepare"
       /\ n.site = s /\ n.order = previous /\ n.undo = Null
  BY <1>9, <1>10, <1>11 DEF Thread
<1>13. Alters(NextOrder, n)
  BY <1>7, <1>8, <1>10 DEF Launch, Alters
<1>14. QED
  BY <1>1, <1>2, <1>4, <1>6, <1>12, <1>13

LEMMA LaunchStep ==
  ASSUME CInv, NEW s \in Sites, NEW auto \in BOOLEAN, NEW previous \in Orders \cup {Null},
         NEW forced \in BOOLEAN, Launch(s, auto, previous, forced),
         UNCHANGED <<live, ssl, entries, links, lastEntry, disk, mu>>,
         sweep' \in Sweep(Sites) \cup {Null}, spent' \in Spent
  PROVE  CInv'
<1>0. PICK t : t = NextOrder
  OBVIOUS
<1>1. /\ t \in Orders /\ t \in Threads /\ t # Req
      /\ orders[t] = Null /\ thread[t] = Null
      /\ orders' \in [Orders -> Order \cup {Null, Gone}] /\ orders'[t] \in Order
      /\ \A o \in Orders : o # t => orders'[o] = orders[o]
  BY <1>0, LaunchFacts
<1>2. PICK n \in Thread(Sites) :
         /\ Alters(t, n) /\ n.op \in {"obtain", "forced"} /\ n.pc = "prepare"
         /\ n.site = s /\ n.order = previous /\ n.undo = Null
  BY <1>0, LaunchFacts
<1>3. "prepare" \in JobPlaces
  BY DEF JobPlaces
<1>4. Fits(t, n)'
  BY <1>1, <1>2, <1>3 DEF Fits, Placed, RowOK, Rewrites, RowOps
<1>5. Writes(t, n)'
  BY <1>2 DEF Writes, Rewrites, RowOps
<1>6. Turn(t, n)
  BY <1>1, <1>2, PlacesAre DEF Turn, Holds, Rewrites, RowOps
<1>7. TablesOK' /\ DiskOK' /\ Frame(t)
  BY <1>1 DEF CInv, Typed, TablesOK, DiskOK, RowOK, disk, Frame
<1>8. LockInv' /\ ThreadsInv' /\ mu' \in Threads \cup {Null}
  BY <1>1, <1>2, <1>4, <1>5, <1>6, <1>7, OneThread
<1>9. thread' \in [Threads -> Thread(Sites) \cup {Null}]
  BY <1>1, <1>2, AlteredType DEF CInv, Typed
<1>10. Typed'
  BY <1>7, <1>8, <1>9 DEF Typed, MemoryOK
<1>11. /\ thread'[t] = n /\ \A o \in Orders : o # t => thread'[o] = thread[o]
       /\ orders'[t] # Null
  BY <1>1, <1>2, Altered, OrderAssumption DEF CInv, Typed, Threads
<1>12. \A p \in 1..t : p # t => orders[p] # Null
  BY <1>0, <1>1, NumberIsNew
<1>13. NumbersInv'
  BY CertificatesAssumption, <1>1, <1>11, <1>12 DEF Orders, CInv, NumbersInv
<1>14. QED
  BY <1>8, <1>10, <1>13 DEF CInv

(* Requests about an order.                                                *)
LEMMA OrderRequestStep ==
  ASSUME CInv, NEW o \in Orders,
         ForceObtain(o) \/ RenewOrder(o) \/ DeleteOrder(o) \/ DeployOrder(o) \/ \E b \in BOOLEAN : SetAutoRenew(o, b)
  PROVE  CInv'
<1>1. Known(o) /\ Served /\ thread[Req] = Null
  BY DEF ForceObtain, RenewOrder, DeleteOrder, DeployOrder, SetAutoRenew, Served, Serve
<1>2. orders[o] \in Order /\ orders[o].site \in Sites /\ orders[o].auto \in BOOLEAN
  BY <1>1 DEF Known, CInv, Typed, TablesOK, Order
<1>3. spent' \in Spent /\ sweep \in Sweep(Sites) \cup {Null}
  BY <1>1, SpentFacts DEF CInv, Typed, MemoryOK
<1>4. ASSUME ForceObtain(o) \/ RenewOrder(o) PROVE CInv'
  BY <1>2, <1>3, LaunchStep, <1>4 DEF ForceObtain, RenewOrder
<1>5. ASSUME UNCHANGED <<live, ssl, entries, links, lastEntry, disk, thread, mu, sweep>>,
             NEW r, r \in Order \cup {Gone}, orders' = [orders EXCEPT ![o] = r]
      PROVE  CInv'
  <2>1. r # Null
    BY <1>5, OrderAssumption, CertificatesAssumption
  <2>2. orders' \in [Orders -> Order \cup {Null, Gone}] /\ SameNumbers
    BY <1>1, <1>5, <2>1 DEF CInv, Typed, TablesOK, SameNumbers, Known
  <2>3. TablesOK' /\ DiskOK' /\ Frame(Req)
    BY <1>5, <2>2 DEF CInv, Typed, TablesOK, DiskOK, RowOK, disk, Frame
  <2>4. QED
    BY <1>1, <1>3, <1>5, <2>2, <2>3, NoThreadStep
<1>6. CASE DeleteOrder(o)
  BY <1>5, <1>6 DEF DeleteOrder
<1>7. ASSUME NEW b \in BOOLEAN, SetAutoRenew(o, b) PROVE CInv'
  BY <1>2, <1>7, <1>5 DEF Order, SetAutoRenew
<1>8. CASE DeployOrder(o)
  <2>1. PICK k \in Entries \cup {Null}, s \in Sites : k = orders[o].entry /\ s = orders[o].site
    BY <1>2 DEF Order
  <2>2. Request("redeploy", "admitted", s, k, o, NoTx) /\ UNCHANGED <<tables, disk, mu, sweep>>
    BY <1>8, <2>1 DEF DeployOrder
  <2>3. NoTx \in Tx(Sites)
    BY NoTxForm
  <2>4. PICK n \in Thread(Sites) :
           /\ Alters(Req, n) /\ n.op = "redeploy" /\ n.pc = "admitted" /\ n.site = s /\ n.order = o /\ RowOK(n.undo)
    BY <2>2, <2>3, Requested, PlacesAre DEF CInv
  <2>5. UNCHANGED <<live, ssl, entries, links, orders, lastEntry>>
    BY <2>2 DEF tables
  <2>6. Fits(Req, n)'
    BY <2>4, PlacesAre DEF Fits, Placed, RowOK, Rewrites, RowOps
  <2>7. Writes(Req, n)'
    BY <2>4 DEF Writes, Rewrites, RowOps
  <2>8. Turn(Req, n)
    BY <1>1, <2>2, <2>4, PlacesAre DEF Turn, Holds, Rewrites, RowOps
  <2>9. TablesOK' /\ DiskOK' /\ SameNumbers /\ Frame(Req)
    BY <2>2, <2>5 DEF CInv, Typed, TablesOK, DiskOK, RowOK, disk, SameNumbers, Frame
  <2>10. QED
    BY <1>3, <2>2, <2>4, <2>6, <2>7, <2>8, <2>9, OneStep, PlacesAre
<1>9. QED
  BY <1>4, <1>6, <1>7, <1>8

LEMMA ManualStep ==
  ASSUME CInv, NEW s \in Sites, NEW c \in Certs, ManualPEM(s, c)
  PROVE  CInv'
<1>1. PICK p \in Paths : p = Manual(s)
  BY PathKinds
<1>2. c \in Bytes
  BY DEF Bytes
<1>3. Put(p, c) \in Partly(Paths, Bytes \cup {Absent}) /\ DOMAIN Put(p, c) = {p}
  BY <1>2, PutIsPart
<1>4. PICK w : w = Put(p, c)
  OBVIOUS
<1>5. Configure("use", s, "manual_pem", p, c, w)
  BY <1>1, <1>4 DEF ManualPEM
<1>6. \A k \in Entries : Stored(k) \notin DOMAIN w
  BY <1>1, <1>3, <1>4, PathKinds
<1>7. QED
  BY <1>2, <1>3, <1>4, <1>5, <1>6, ConfigureStep

LEMMA ExistingStep ==
  ASSUME CInv, NEW s \in Sites, NEW p \in Paths, ExistingFiles(s, p)
  PROVE  CInv'
BY NothingIsPart, ConfigureStep DEF ExistingFiles, CInv, Typed, DiskOK

(* What Disable writes.                                                    *)
LEMMA DisableFacts ==
  ASSUME Typed, NEW s \in Sites, NEW b \in BOOLEAN, Disable(s, b)
  PROVE  \E w \in Partly(Paths, Bytes \cup {Absent}) :
           /\ Configure("disable", s, "disabled", Null, Null, w)
           /\ \A p \in DOMAIN w : w[p] = Absent
           /\ \A p \in DOMAIN w : ssl[s] # Null /\ ssl[s].mode = "manual_pem" /\ p = ssl[s].path
                                  /\ BySHA256(ssl[s].sha) = {}
<1> DEFINE own == b /\ ssl[s] # Null /\ ssl[s].mode = "manual_pem" /\ BySHA256(ssl[s].sha) = {}
<1>1. PICK w : w = IF own THEN Put(ssl[s].path, Absent) ELSE Nothing
  OBVIOUS
<1>2. Configure("disable", s, "disabled", Null, Null, w)
  BY <1>1 DEF Disable
<1>3. CASE own
  <2>1. PICK p \in Paths : p = ssl[s].path
    BY <1>3 DEF Typed, TablesOK, RowOK
  <2>2. Put(p, Absent) \in Partly(Paths, Bytes \cup {Absent}) /\ DOMAIN Put(p, Absent) = {p} /\ Put(p, Absent)[p] = Absent
    BY PutIsPart
  <2>3. w = Put(p, Absent)
    BY <1>1, <1>3, <2>1
  <2>4. QED
    BY <1>2, <1>3, <2>1, <2>2, <2>3
<1>4. CASE ~own
  BY <1>1, <1>4, NothingIsPart, <1>2
<1>5. QED
  BY <1>3, <1>4

LEMMA DisableStep ==
  ASSUME CInv, NEW s \in Sites, NEW b \in BOOLEAN, Disable(s, b)
  PROVE  CInv'
BY DisableFacts, PathsAssumption, ConfigureStep DEF CInv

LEMMA DeployRequestStep ==
  ASSUME CInv, NEW s \in Sites, NEW k \in Entries, DeployFromStore(s, k)
  PROVE  CInv'
BY SpentFacts, DeployStep DEF DeployFromStore, CInv, Typed, Locked

LEMMA ApplyStep ==
  ASSUME CInv, NEW s \in Sites, ApplyCertificate(s)
  PROVE  CInv'
BY SpentFacts, LaunchStep DEF ApplyCertificate, CInv, Typed, MemoryOK

LEMMA RequestsStep ==
  ASSUME CInv, Requests
  PROVE  CInv'
<1>1. ASSUME NEW s \in Sites,
             \/ \E c \in Certs : ManualPEM(s, c)
             \/ \E p \in Paths : ExistingFiles(s, p) \/ EditConfiguration(s, p)
             \/ \E b \in BOOLEAN : Disable(s, b) \/ DeleteSite(s, b)
             \/ \E k \in Entries : DeployFromStore(s, k) \/ ReplaceCertificate(s, k)
             \/ AdoptCertificate(s) \/ ApplyCertificate(s)
      PROVE  CInv'
  BY <1>1, ManualStep, ExistingStep, EditStep, DisableStep, DeleteSiteStep, DeployRequestStep, ReplaceStep,
     AdoptStep, ApplyStep
<1>2. QED
  BY <1>1, UploadStep, DeleteFromStoreStep, OrderRequestStep DEF Requests

-----------------------------------------------------------------------------
(* The end of a request.                                                   *)

LEMMA RequestEnds ==
  ASSUME CInv, Ended, Turn(Req, Null), Frame(Req), SameNumbers,
         TablesOK', DiskOK', sweep' \in Sweep(Sites) \cup {Null}, spent' \in Spent
  PROVE  CInv'
BY OneStep, PlacesAre DEF Ended, Alters

(* A thread that goes on fits as it did.                                   *)
LEMMA SameFits ==
  ASSUME CInv, NEW t \in Threads, thread[t] # Null, NEW n \in Thread(Sites),
         Alike(n, thread[t]), n.entry = thread[t].entry \/ n.op \in {"obtain", "forced"},
         Placed(t, n), Rewrites(n) => Rewrites(thread[t]),
         \A k \in Entries : entries[k] # Null => entries'[k] = entries[k]
  PROVE  Fits(t, n)'
BY IsThread DEF CInv, Typed, ThreadsInv, Fits, Alike, Placed, RowOK, Rewrites

LEMMA CallStep ==
  ASSUME CInv, CallOfRequest
  PROVE  CInv'
<1>1. thread[Req] # Null /\ thread[Req].pc = "call" /\ Called(Req, "done", "failed") /\ UNCHANGED <<tables, mu, sweep>>
  BY DEF CallOfRequest
<1>2. PICK n \in Thread(Sites) :
         /\ Alters(Req, n) /\ Same(n, thread[Req]) /\ DiskOK' /\ spent' \in Spent /\ n.pc \in {"done", "failed"}
  BY <1>1, CalledFacts, PlacesAre DEF CInv
<1>3. PICK r \in Thread(Sites) : r = thread[Req]
  BY <1>1, IsThread, PlacesAre DEF CInv, Typed
<1>4. Fits(Req, r) /\ Placed(Req, r)
  BY <1>3, PlacesAre DEF CInv, ThreadsInv, Fits
<1>5. UNCHANGED <<live, ssl, entries, links, orders, lastEntry>>
  BY <1>1 DEF tables
<1>6. Alike(n, thread[Req]) /\ n.entry = thread[Req].entry /\ Placed(Req, n) /\ (Rewrites(n) <=> Rewrites(thread[Req]))
  BY <1>1, <1>2, <1>3, <1>4, PlacesAre DEF Same, Alike, Placed, Rewrites
<1>7. Fits(Req, n)'
  BY <1>1, <1>5, <1>6, SameFits, PlacesAre
<1>8. Writes(Req, n)'
  BY <1>2, <1>3, PlacesAre, <1>5 DEF CInv, ThreadsInv, Writes, Same, Alike, UsedRow, Rewrites
<1>9. Turn(Req, n)
  BY <1>1, <1>2, <1>6, PlacesAre DEF Turn, Holds, Same, Alike
<1>10. TablesOK' /\ SameNumbers /\ Frame(Req)
  BY <1>5 DEF CInv, Typed, TablesOK, RowOK, SameNumbers, Frame
<1>11. QED
  BY <1>1, <1>2, <1>7, <1>8, <1>9, <1>10, OneStep, PlacesAre DEF CInv, Typed, MemoryOK

(* The request in progress, as the invariant describes it.                 *)
LEMMA RequestIs ==
  ASSUME CInv, thread[Req] # Null
  PROVE  /\ thread[Req] \in Thread(Sites) /\ Fits(Req, thread[Req]) /\ Placed(Req, thread[Req])
         /\ thread[Req].op = "use" => UsedRow(thread[Req].site)
         /\ mu = Req <=> Holds(thread[Req])
BY IsThread, PlacesAre DEF CInv, Typed, ThreadsInv, LockInv, Fits, Writes

LEMMA SyncFacts ==
  ASSUME TablesOK, NEW p \in Paths, NEW c \in Bytes, SyncToStore(p, c) \/ UNCHANGED <<entries, lastEntry>>
  PROVE  /\ entries' \in [Entries -> Entry \cup {Null}] /\ lastEntry' \in 0..MaxEntries
         /\ \A k \in Entries : entries'[k] # Null => k <= lastEntry'
         /\ \A k \in Entries : entries[k] # Null => entries'[k] = entries[k]
<1>1. CASE UNCHANGED <<entries, lastEntry>>
  BY <1>1 DEF TablesOK
<1>2. CASE SyncToStore(p, c) /\ BySHA256(c) = {}
  BY <1>2, NewEntryFacts DEF SyncToStore
<1>3. QED
  BY <1>1, <1>2 DEF SyncToStore

LEMMA FinishUseStep ==
  ASSUME CInv, FinishUse
  PROVE  CInv'
<1>1. /\ thread[Req] # Null /\ thread[Req].op = "use" /\ thread[Req].pc = "done" /\ Ended /\ mu' = Null
      /\ UNCHANGED <<live, ssl, links, orders, disk, sweep>>
  BY DEF FinishUse, Ending, Unlock
<1>2. UsedRow(thread[Req].site) /\ mu = Req
  BY <1>1, RequestIs DEF Holds, Rewrites, RowOps
<1>3. PICK p \in Paths, c \in Bytes : p = ssl[thread[Req].site].path /\ c = ssl[thread[Req].site].sha
  BY <1>2 DEF UsedRow
<1>4. SyncToStore(p, c) \/ UNCHANGED <<entries, lastEntry>>
  BY <1>3 DEF FinishUse
<1>5. /\ entries' \in [Entries -> Entry \cup {Null}] /\ lastEntry' \in 0..MaxEntries
      /\ \A k \in Entries : entries'[k] # Null => k <= lastEntry'
  BY <1>4, SyncFacts DEF CInv, Typed
<1>6. TablesOK' /\ DiskOK' /\ SameNumbers /\ Frame(Req) /\ Turn(Req, Null)
  BY <1>1, <1>2, <1>5, PlacesAre DEF CInv, Typed, TablesOK, DiskOK, RowOK, disk, SameNumbers, Frame, Turn
<1>7. spent' \in Spent /\ sweep' \in Sweep(Sites) \cup {Null}
  BY <1>1, SpentFacts DEF FinishUse, CInv, Typed, MemoryOK
<1>8. QED
  BY <1>1, <1>6, <1>7, RequestEnds

LEMMA FinishPlainStep ==
  ASSUME CInv, FinishPlain \/ FailDeleteSite
  PROVE  CInv'
<1>1. /\ thread[Req] # Null /\ Ended /\ UNCHANGED <<tables, disk, sweep, spent>>
      /\ IF thread[Req].op = "site" THEN thread[Req].pc = "failed" /\ mu' = mu
         ELSE thread[Req].op \in {"disable", "deploy", "upload", "delete", "replace"} /\ thread[Req].pc # "admitted" /\ mu' = Null
  BY DEF FinishPlain, FailDeleteSite, Ending, Unlock
<1>2. IF thread[Req].op = "site" THEN mu # Req ELSE mu = Req
  BY <1>1, RequestIs, PlacesAre DEF Holds, Rewrites, RowOps
<1>3. Turn(Req, Null)
  BY <1>1, <1>2, RequestIs, PlacesAre DEF Turn
<1>4. UNCHANGED <<live, ssl, entries, links, orders, lastEntry>>
  BY <1>1 DEF tables
<1>5. TablesOK' /\ DiskOK' /\ SameNumbers /\ Frame(Req)
  BY <1>1, <1>4 DEF CInv, Typed, TablesOK, DiskOK, RowOK, disk, SameNumbers, Frame
<1>6. QED
  BY <1>1, <1>3, <1>5, RequestEnds DEF CInv, Typed, MemoryOK

LEMMA FailConfigureStep ==
  ASSUME CInv, FailConfigure
  PROVE  CInv'
<1>1. /\ thread[Req] # Null /\ thread[Req].op \in RowOps /\ thread[Req].pc = "failed" /\ Ended /\ mu' = Null
      /\ RollbackSSL(thread[Req].site, thread[Req].undo) \/ UNCHANGED ssl
      /\ UNCHANGED spent \/ Mishap
      /\ UNCHANGED <<live, entries, links, orders, lastEntry, disk, sweep>>
  BY DEF FailConfigure, Ending, Unlock, RowOps
<1>2. mu = Req /\ Fits(Req, thread[Req]) /\ thread[Req] \in Thread(Sites) /\ Rewrites(thread[Req])
  BY <1>1, RequestIs DEF Holds, Rewrites
<1>3. PICK s \in Sites : s = thread[Req].site
  BY <1>2, CertificatesAssumption DEF Fits
<1>4. PICK u \in SslRow \cup {Null} : u = thread[Req].undo
  BY <1>2 DEF Thread
<1>5. RowOK(u) /\ (ssl' = [ssl EXCEPT ![s] = u] \/ ssl' = ssl) /\ spent' \in Spent
  BY <1>1, <1>2, <1>3, <1>4, SpentFacts DEF Fits, RollbackSSL, CInv, Typed
<1>6. ssl' \in [Sites -> SslRow \cup {Null}] /\ \A x \in Sites : RowOK(ssl'[x])
  BY <1>5, RowWritten DEF CInv, Typed, TablesOK, RowOK
<1>7. TablesOK' /\ DiskOK' /\ SameNumbers /\ Frame(Req) /\ Turn(Req, Null)
  BY <1>1, <1>2, <1>6, PlacesAre DEF CInv, Typed, TablesOK, DiskOK, RowOK, disk, SameNumbers, Frame, Turn
<1>8. QED
  BY <1>1, <1>5, <1>7, RequestEnds DEF CInv, Typed, MemoryOK

(* The entry's row goes, or stays.                                         *)
LEMMA EntryGone ==
  ASSUME CInv, thread[Req] # Null, thread[Req].op \in {"upload", "delete"}, Ended, mu' = Null,
         entries' = [entries EXCEPT ![thread[Req].entry] = Null] \/ UNCHANGED entries,
         UNCHANGED <<live, ssl, links, orders, lastEntry, disk, sweep>>, spent' \in Spent
  PROVE  CInv'
<1>1. mu = Req
  BY RequestIs DEF Holds
<1>2. entries' \in [Entries -> Entry \cup {Null}] /\ \A k \in Entries : entries'[k] # Null => entries[k] # Null
  BY DEF CInv, Typed, TablesOK
<1>3. TablesOK' /\ DiskOK' /\ SameNumbers /\ Frame(Req) /\ Turn(Req, Null)
  BY <1>1, <1>2, PlacesAre DEF CInv, Typed, TablesOK, DiskOK, RowOK, disk, SameNumbers, Frame, Turn
<1>4. QED
  BY <1>3, RequestEnds DEF CInv, Typed, MemoryOK

LEMMA EntryEndsStep ==
  ASSUME CInv, FailUpload \/ FinishDelete
  PROVE  CInv'
BY SpentFacts, EntryGone DEF FailUpload, FinishDelete, CInv, Typed, Ending, Unlock

LEMMA FinishReplaceStep ==
  ASSUME CInv, FinishReplace
  PROVE  CInv'
<1>1. /\ thread[Req] # Null /\ thread[Req].op = "replace" /\ Ended /\ mu' = Null
      /\ UNCHANGED <<live, orders, disk, sweep>>
  BY DEF FinishReplace, Ending, Unlock
<1>2. mu = Req /\ Fits(Req, thread[Req])
  BY <1>1, RequestIs DEF Holds
<1>3. thread[Req].site \in Sites /\ thread[Req].entry \in Entries /\ entries[thread[Req].entry] # Null
  BY <1>1, <1>2 DEF Fits
<1>4. PICK s \in Sites, p \in Paths, c \in Bytes :
         s = thread[Req].site /\ p = entries[thread[Req].entry].path /\ c = entries[thread[Req].entry].sha
  BY <1>3 DEF CInv, Typed, TablesOK, Entry
<1>5. (AdoptExternal(s, p, c) /\ UNCHANGED spent) \/ (Mishap /\ UNCHANGED <<entries, links, ssl, lastEntry>>)
  BY <1>4 DEF FinishReplace
<1>6. /\ links' \in [Sites -> Entries \cup {Null}]
      /\ ssl' \in [Sites -> SslRow \cup {Null}] /\ \A x \in Sites : RowOK(ssl'[x])
      /\ entries' \in [Entries -> Entry \cup {Null}] /\ lastEntry' \in 0..MaxEntries
      /\ \A k \in Entries : entries'[k] # Null => k <= lastEntry'
  <2>1. CASE AdoptExternal(s, p, c)
    BY <2>1, AdoptFacts, NewEntryFacts DEF CInv, Typed, TablesOK
  <2>2. CASE UNCHANGED <<entries, links, ssl, lastEntry>>
    BY <2>2 DEF CInv, Typed, TablesOK, RowOK
  <2>3. QED
    BY <1>5, <2>1, <2>2
<1>7. TablesOK' /\ DiskOK' /\ SameNumbers /\ Frame(Req) /\ Turn(Req, Null)
  BY <1>1, <1>2, <1>6, PlacesAre DEF CInv, Typed, TablesOK, DiskOK, RowOK, disk, SameNumbers, Frame, Turn
<1>8. spent' \in Spent /\ sweep' \in Sweep(Sites) \cup {Null}
  BY <1>1, <1>5, SpentFacts DEF CInv, Typed, MemoryOK
<1>9. QED
  BY <1>1, <1>7, <1>8, RequestEnds

LEMMA FinishDeleteSiteStep ==
  ASSUME CInv, FinishDeleteSite
  PROVE  CInv'
<1>1. PICK s : s = thread[Req].site
  OBVIOUS
<1>2. /\ thread[Req] # Null /\ thread[Req].op = "site" /\ thread[Req].pc = "done" /\ Ended /\ live' = live \ {s}
      /\ ssl' = [ssl EXCEPT ![s] = Null] /\ links' = [links EXCEPT ![s] = Null]
      /\ orders' = [o \in Orders |-> IF Known(o) /\ orders[o].site = s THEN Gone ELSE orders[o]]
      /\ UNCHANGED <<entries, lastEntry, disk, mu, sweep, spent>>
  BY <1>1 DEF FinishDeleteSite, Ending
<1>3. s \in Sites /\ mu # Req
  BY <1>1, <1>2, RequestIs, PlacesAre DEF Fits, Holds, Rewrites, RowOps
<1>4. /\ ssl' \in [Sites -> SslRow \cup {Null}] /\ \A x \in Sites : RowOK(ssl'[x])
      /\ \A x \in Sites : x # s => ssl'[x] = ssl[x]
  BY <1>2, <1>3, RowWritten DEF CInv, Typed, RowOK
<1>5. orders' \in [Orders -> Order \cup {Null, Gone}] /\ SameNumbers
  BY <1>2, CertificatesAssumption DEF CInv, Typed, TablesOK, SameNumbers, Known
<1>6. links' \in [Sites -> Entries \cup {Null}]
  BY <1>2 DEF CInv, Typed, TablesOK
<1>7. TablesOK' /\ DiskOK'
  BY <1>2, <1>4, <1>5, <1>6 DEF CInv, Typed, TablesOK, DiskOK, RowOK, disk
<1>8. Frame(Req) /\ Turn(Req, Null)
  BY <1>2, <1>3, <1>4, RequestIs, PlacesAre DEF CInv, Typed, TablesOK, Frame, Turn
<1>9. QED
  BY <1>2, <1>5, <1>7, <1>8, RequestEnds DEF CInv, Typed, MemoryOK

LEMMA RedeployLocksStep ==
  ASSUME CInv, RedeployLocks
  PROVE  CInv'
<1>1. PICK s, k, o : s = thread[Req].site /\ k = thread[Req].entry /\ o = thread[Req].order
  OBVIOUS
<1>2. /\ thread[Req] # Null /\ thread[Req].op = "redeploy" /\ thread[Req].pc = "admitted" /\ mu = Null
      /\ UNCHANGED <<live, entries, links, orders, lastEntry, disk, sweep, spent>>
      /\ IF Deployable(s, k)
         THEN Deploying(s, k) /\ mu' = Req /\ Request("redeploy", "call", s, k, o, Deployment(s, k))
         ELSE Ended /\ UNCHANGED <<ssl, mu>>
  BY <1>1 DEF RedeployLocks, Ending
<1>3. CASE Deployable(s, k)
  BY <1>1, <1>2, RequestIs, <1>3, DeployStep DEF Fits, CInv, Typed
<1>4. CASE ~Deployable(s, k)
  <2>1. Turn(Req, Null)
    BY <1>2, <1>4, RequestIs, PlacesAre DEF Turn
  <2>2. TablesOK' /\ DiskOK' /\ SameNumbers /\ Frame(Req)
    BY <1>2, <1>4 DEF CInv, Typed, TablesOK, DiskOK, RowOK, disk, SameNumbers, Frame
  <2>3. QED
    BY <1>2, <1>4, <2>1, <2>2, RequestEnds DEF CInv, Typed, MemoryOK
<1>5. QED
  BY <1>3, <1>4

LEMMA FinishRedeployStep ==
  ASSUME CInv, FinishRedeploy
  PROVE  CInv'
<1>1. /\ thread[Req] # Null /\ thread[Req].op = "redeploy" /\ thread[Req].pc = "done" /\ Ended /\ mu' = Null
      /\ MarkIfSaved(thread[Req].order, "success", "")
      /\ UNCHANGED <<live, ssl, entries, links, lastEntry, disk, sweep>>
  BY DEF FinishRedeploy, Ending, Unlock
<1>2. mu = Req /\ thread[Req] \in Thread(Sites)
  BY <1>1, RequestIs DEF Holds, Rewrites, RowOps
<1>3. orders' \in [Orders -> Order \cup {Null, Gone}] /\ SameNumbers /\ spent' \in Spent
  BY <1>1, RequestIs, SavedFacts DEF Fits
<1>4. TablesOK' /\ DiskOK' /\ Frame(Req) /\ Turn(Req, Null)
  BY <1>1, <1>2, <1>3, PlacesAre DEF CInv, Typed, TablesOK, DiskOK, RowOK, disk, Frame, Turn
<1>5. QED
  BY <1>1, <1>3, <1>4, RequestEnds DEF CInv, Typed, MemoryOK

LEMMA RequestGoesOnStep ==
  ASSUME CInv, RequestGoesOn
  PROVE  CInv'
BY CallStep, FinishUseStep, FinishPlainStep, FailConfigureStep, EntryEndsStep, FinishReplaceStep,
   FinishDeleteSiteStep, RedeployLocksStep, FinishRedeployStep DEF RequestGoesOn

-----------------------------------------------------------------------------
(* The jobs.                                                               *)

LEMMA JobPlacesAre ==
  /\ "prepare" \in JobPlaces /\ "challenge" \in JobPlaces /\ "ask" \in JobPlaces /\ "save" \in JobPlaces
  /\ "record" \in JobPlaces /\ "deploy" \in JobPlaces /\ "install" \in JobPlaces /\ "settle" \in JobPlaces
  /\ "rollback" \in JobPlaces /\ "complete" \in JobPlaces /\ "failing" \in JobPlaces
BY DEF JobPlaces

LEMMA JobIs ==
  ASSUME CInv, NEW o \in Orders, thread[o] # Null
  PROVE  /\ o \in Threads /\ o # Req /\ thread[o] \in Thread(Sites) /\ Fits(o, thread[o]) /\ Placed(o, thread[o])
         /\ thread[o].op \in {"obtain", "forced"} /\ thread[o].pc \in JobPlaces /\ thread[o].site \in Sites
         /\ thread[o].order \in Orders \cup {Null} /\ RowOK(thread[o].undo)
         /\ (mu = o <=> thread[o].pc \in {"install", "settle", "rollback"})
         /\ orders[o] # Null
<1>1. o \in Threads /\ o # Req
  BY PlacesAre DEF Threads
<1>2. PICK r \in Thread(Sites) : r = thread[o]
  BY <1>1, IsThread DEF CInv, Typed
<1>3. Fits(o, r) /\ (mu = o <=> Holds(r)) /\ orders[o] # Null
  BY <1>1, <1>2 DEF CInv, ThreadsInv, LockInv, NumbersInv
<1>4. Placed(o, r) /\ r.site \in Sites /\ RowOK(r.undo)
  BY <1>1, <1>3 DEF Fits
<1>5. r.op \in {"obtain", "forced"} /\ r.pc \in JobPlaces
  BY <1>1, <1>4 DEF Placed
<1>6. Holds(r) <=> r.pc \in {"install", "settle", "rollback"}
  BY <1>2, <1>5, PlacesAre DEF Holds, Rewrites, RowOps
<1>7. QED
  BY <1>1, <1>2, <1>3, <1>4, <1>5, <1>6 DEF Thread

GoOnWith(t, pc, x) == thread' = [thread EXCEPT ![t].pc = pc, ![t].tx = x]

LEMMA MovedWith ==
  ASSUME MemoryOK, NEW t \in Threads, thread[t] # Null, NEW pc \in ReqPlaces \cup JobPlaces,
         NEW x \in Tx(Sites), GoOnWith(t, pc, x)
  PROVE  \E n \in Thread(Sites) : /\ Alters(t, n) /\ n.pc = pc /\ n.tx = x /\ n.entry = thread[t].entry
                                  /\ Alike(n, thread[t])
<1>1. thread[t] \in Thread(Sites)
  BY IsThread
<1>2. PICK n : n = [[thread[t] EXCEPT !.pc = pc] EXCEPT !.tx = x]
  OBVIOUS
<1>3. n \in Thread(Sites) /\ n.pc = pc /\ n.tx = x /\ n.entry = thread[t].entry /\ Alike(n, thread[t])
  BY <1>1, <1>2 DEF Thread, Alike
<1>4. Alters(t, n)
  BY <1>2 DEF Alters, MemoryOK, GoOnWith
<1>5. QED
  BY <1>3, <1>4

(* A job that does not touch the mutex, the rows or the disk goes on.      *)
LEMMA JobOn ==
  ASSUME CInv, NEW o \in Orders, thread[o] # Null, NEW n \in Thread(Sites), Alters(o, n), Alike(n, thread[o]),
         n.pc \in JobPlaces, ~Holds(thread[o]) /\ ~Holds(n), Writes(o, n)',
         UNCHANGED <<live, ssl, links, mu, sweep>>, SameNumbers,
         orders' \in [Orders -> Order \cup {Null, Gone}], DiskOK', spent' \in Spent,
         entries' \in [Entries -> Entry \cup {Null}], lastEntry' \in 0..MaxEntries,
         \A k \in Entries : entries'[k] # Null => k <= lastEntry',
         \A k \in Entries : entries[k] # Null => entries'[k] = entries[k]
  PROVE  CInv'
<1>1. /\ o \in Threads /\ o # Req /\ thread[o].op \in {"obtain", "forced"}
  BY JobIs
<1>2. n.op \in {"obtain", "forced"}
  BY <1>1 DEF Alike
<1>3. Placed(o, n) /\ ~Rewrites(n)
  BY <1>1, <1>2, PlacesAre DEF Placed, Holds
<1>4. Fits(o, n)'
  BY <1>1, <1>2, <1>3, SameFits
<1>5. TablesOK' /\ Frame(o) /\ Turn(o, n)
  BY DEF CInv, Typed, TablesOK, RowOK, Frame, Turn
<1>6. QED
  BY <1>1, <1>4, <1>5, OneStep DEF CInv, Typed, MemoryOK

LEMMA JobEndsKeeps ==
  ASSUME CInv, NEW o \in Orders, thread[o] # Null, JobEnded(o), Turn(o, Null), Frame(o), SameNumbers,
         TablesOK', DiskOK', UNCHANGED sweep, spent' \in Spent
  PROVE  CInv'
BY OneStep, PlacesAre, JobIs DEF JobEnded, Alters, CInv, Typed, MemoryOK

(* A job that leaves the files, the rows and the mutex alone.              *)
LEMMA QuietJob ==
  ASSUME CInv, NEW o \in Orders, thread[o] # Null, ~Holds(thread[o]),
         orders' \in [Orders -> Order \cup {Null, Gone}], SameNumbers,
         UNCHANGED <<live, ssl, entries, links, lastEntry, mu, sweep>>, DiskOK', spent' \in Spent,
         \/ JobEnded(o)
         \/ \E n \in Thread(Sites) : /\ Alters(o, n) /\ Alike(n, thread[o]) /\ n.pc \in JobPlaces
                                     /\ ~Holds(n) /\ Writes(o, n)'
  PROVE  CInv'
<1>1. /\ entries' \in [Entries -> Entry \cup {Null}] /\ lastEntry' \in 0..MaxEntries
      /\ \A k \in Entries : entries'[k] # Null => k <= lastEntry'
  BY DEF CInv, Typed, TablesOK
<1>2. CASE JobEnded(o)
  BY PlacesAre, <1>2, JobEndsKeeps DEF CInv, Typed, TablesOK, RowOK, Frame, Turn
<1>3. CASE \E n \in Thread(Sites) : /\ Alters(o, n) /\ Alike(n, thread[o]) /\ n.pc \in JobPlaces
                                    /\ ~Holds(n) /\ Writes(o, n)'
  BY <1>1, <1>3, JobOn
<1>4. QED
  BY <1>2, <1>3

LEMMA MovedQuietly ==
  ASSUME CInv, NEW o \in Orders, thread[o] # Null, NEW pc \in {"ask", "record", "deploy", "failing"},
         GoOn(o, pc)
  PROVE  \E n \in Thread(Sites) : /\ Alters(o, n) /\ Same(n, thread[o]) /\ n.pc = pc /\ n.pc \in JobPlaces
                                  /\ Alike(n, thread[o]) /\ ~Holds(n) /\ Writes(o, n)'
<1>1. o \in Threads /\ thread[o].op \in {"obtain", "forced"} /\ pc \in ReqPlaces \cup JobPlaces
  BY JobIs, JobPlacesAre
<1>2. PICK n \in Thread(Sites) : Alters(o, n) /\ n.pc = pc /\ Same(n, thread[o])
  BY <1>1, Moved DEF CInv, Typed, GoOn
<1>3. n.op \in {"obtain", "forced"} /\ n.pc \in JobPlaces /\ Alike(n, thread[o])
  BY <1>1, <1>2, JobPlacesAre DEF Same, Alike
<1>4. ~Holds(n) /\ Writes(o, n)'
  BY <1>2, <1>3 DEF Holds, Rewrites, RowOps, Writes
<1>5. QED
  BY <1>2, <1>3, <1>4

LEMMA JobPrepareStep ==
  ASSUME CInv, NEW o \in Orders, JobPrepare(o)
  PROVE  CInv'
<1>1. PICK s \in Sites : s = thread[o].site
  BY JobIs DEF JobPrepare, At
<1>2. /\ thread[o] # Null /\ thread[o].pc = "prepare"
      /\ UNCHANGED spent \/ Fault
      /\ orders' \in {Mark(orders, o, "processing", ""), orders}
      /\ UNCHANGED <<live, ssl, entries, links, lastEntry, disk, mu, sweep>>
      /\ \/ thread' = [thread EXCEPT ![o].pc = "failing"]
         \/ thread' = [thread EXCEPT ![o].pc = "ask"]
         \/ thread' = [thread EXCEPT ![o].pc = "challenge", ![o].tx = [NoTx EXCEPT !.conf = Put(s, conf[s])]]
  BY <1>1 DEF JobPrepare, At, GoOn
<1>3. orders' \in [Orders -> Order \cup {Null, Gone}] /\ SameNumbers /\ spent' \in Spent /\ DiskOK'
  BY <1>2, SavedFacts DEF CInv, Typed, DiskOK, disk
<1>4. ~Holds(thread[o]) /\ o \in Threads /\ o # Req
  BY <1>2, JobIs DEF Holds, Rewrites, RowOps
<1>5. CASE GoOn(o, "failing") \/ GoOn(o, "ask")
  BY <1>2, <1>5, MovedQuietly, <1>3, <1>4, QuietJob DEF CInv, Typed
<1>6. CASE thread' = [thread EXCEPT ![o].pc = "challenge", ![o].tx = [NoTx EXCEPT !.conf = Put(s, conf[s])]]
  <2>1. PICK c \in Named : c = conf[s]
    BY DEF CInv, Typed, DiskOK
  <2>2. Put(s, c) \in Partly(Sites, Named) /\ DOMAIN Put(s, c) = {s}
    BY PutConf
  <2>3. PICK y : y = Put(s, c)
    OBVIOUS
  <2>4. PICK x : x = [NoTx EXCEPT !.conf = y]
    OBVIOUS
  <2>5. x \in Tx(Sites) /\ x.files = Nothing /\ x.conf = y /\ x.test = TRUE
    BY <2>2, <2>3, <2>4, NoTxForm DEF Tx
  <2>6. PICK pc \in ReqPlaces \cup JobPlaces : pc = "challenge"
    BY JobPlacesAre
  <2>7. GoOnWith(o, pc, x)
    BY <1>6, <2>1, <2>3, <2>4, <2>6 DEF GoOnWith
  <2>8. MemoryOK /\ o \in Threads /\ thread[o] # Null /\ x \in Tx(Sites)
    BY <1>2, <1>4, <2>5 DEF CInv, Typed
  <2>9. PICK n \in Thread(Sites) : /\ Alters(o, n) /\ n.pc = pc /\ n.tx = x /\ n.entry = thread[o].entry
                                  /\ Alike(n, thread[o])
    BY <2>7, <2>8, MovedWith
  <2>10. n.site = s /\ n.op \in {"obtain", "forced"} /\ n.pc \in JobPlaces
    BY <1>1, <1>2, <2>6, <2>9, JobIs, JobPlacesAre DEF Alike
  <2>11. n.tx.test /\ DOMAIN n.tx.files = {} /\ DOMAIN n.tx.conf = {n.site}
    BY <2>2, <2>3, <2>5, <2>9, <2>10, NoTxForm
  <2>12. Writes(o, n)' /\ ~Holds(n)
    BY <2>6, <2>9, <2>10, <2>11 DEF Writes, Rewrites, RowOps, Holds
  <2>13. QED
    BY <1>2, <1>3, <1>4, <2>9, <2>10, <2>12, QuietJob DEF CInv, Typed
<1>7. QED
  BY <1>2, <1>5, <1>6 DEF GoOn

LEMMA StaleSpent ==
  ASSUME spent \in Spent, NEW b \in BOOLEAN, spent' = [spent EXCEPT !.stale = b]
  PROVE  /\ spent' \in Spent /\ spent'.stale = b /\ spent'.mishap = spent.mishap /\ spent'.edited = spent.edited
         /\ spent'.left = spent.left /\ spent'.requests = spent.requests
BY DEF Spent

LEMMA JobChallengeStep ==
  ASSUME CInv, NEW o \in Orders, JobChallenge(o)
  PROVE  CInv'
<1>1. thread[o] # Null /\ thread[o].pc = "challenge" /\ UNCHANGED <<tables, mu, sweep>>
  BY DEF JobChallenge, At
<1>2. UNCHANGED <<live, ssl, entries, links, lastEntry, orders>>
  BY <1>1 DEF tables
<1>3. orders' \in [Orders -> Order \cup {Null, Gone}] /\ SameNumbers
  BY <1>2 DEF CInv, Typed, TablesOK, SameNumbers
<1>4. ~Holds(thread[o]) /\ thread[o].tx \in Tx(Sites)
  BY <1>1, JobIs DEF Holds, Rewrites, RowOps, Thread
<1>5. CASE /\ Acceptable(thread[o].tx) /\ Install(thread[o].tx) /\ GoOn(o, "ask")
           /\ spent' = [spent EXCEPT !.stale = @ \/ conf[thread[o].site] # thread[o].tx.conf[thread[o].site]]
  <2>1. DiskOK'
    BY <1>4, <1>5, InstallFacts DEF CInv, Typed
  <2>2. PICK b \in BOOLEAN : b = (spent.stale \/ conf[thread[o].site] # thread[o].tx.conf[thread[o].site])
    BY DEF CInv, Typed, Spent
  <2>3. spent' = [spent EXCEPT !.stale = b]
    BY <1>5, <2>2
  <2>4. spent' \in Spent
    BY <2>3, StaleSpent DEF CInv, Typed
  <2>5. \E n \in Thread(Sites) : Alters(o, n) /\ Alike(n, thread[o]) /\ n.pc \in JobPlaces /\ ~Holds(n) /\ Writes(o, n)'
    BY <1>1, <1>5, MovedQuietly
  <2>6. QED
    BY <1>1, <1>2, <1>3, <1>4, <2>1, <2>4, <2>5, QuietJob
<1>6. CASE (UNCHANGED spent \/ Fault) /\ GoOn(o, "failing") /\ UNCHANGED disk
  <2>1. DiskOK' /\ spent' \in Spent
    BY <1>6, SpentFacts DEF CInv, Typed, DiskOK, disk
  <2>2. \E n \in Thread(Sites) : Alters(o, n) /\ Alike(n, thread[o]) /\ n.pc \in JobPlaces /\ ~Holds(n) /\ Writes(o, n)'
    BY <1>1, <1>6, MovedQuietly
  <2>3. QED
    BY <1>1, <1>2, <1>3, <1>4, <2>1, <2>2, QuietJob
<1>7. QED
  BY <1>5, <1>6 DEF JobChallenge

LEMMA JobAskStep ==
  ASSUME CInv, NEW o \in Orders, JobAsk(o)
  PROVE  CInv'
<1>1. /\ thread[o] # Null /\ thread[o].pc = "ask"
      /\ UNCHANGED <<live, ssl, entries, links, lastEntry, disk, mu, sweep, spent>>
      /\ \/ /\ thread' = [thread EXCEPT ![o].pc = "save", ![o].tx = [NoTx EXCEPT !.files = Put(Issued(o), o)]]
            /\ UNCHANGED orders
         \/ GoOn(o, "failing") /\ UNCHANGED orders
         \/ JobEnded(o) /\ orders' = Mark(orders, o, "pre_validation_failed", "error")
  BY DEF JobAsk, Unprepared, At, PreValidationFailed
<1>2. ~Holds(thread[o]) /\ o \in Threads /\ o # Req
  BY <1>1, JobIs DEF Holds, Rewrites, RowOps
<1>3. orders' \in [Orders -> Order \cup {Null, Gone}] /\ SameNumbers
  BY MarkFacts, <1>1 DEF CInv, Typed, TablesOK, SameNumbers
<1>4. DiskOK' /\ spent' \in Spent
  BY <1>1 DEF CInv, Typed, DiskOK, disk
<1>5. CASE GoOn(o, "failing")
  <2>1. \E n \in Thread(Sites) : Alters(o, n) /\ Alike(n, thread[o]) /\ n.pc \in JobPlaces /\ ~Holds(n) /\ Writes(o, n)'
    BY <1>1, <1>5, MovedQuietly
  <2>2. QED
    BY <1>1, <1>2, <1>3, <1>4, <2>1, QuietJob
<1>6. CASE JobEnded(o)
  BY <1>1, <1>2, <1>3, <1>4, <1>6, QuietJob
<1>7. CASE thread' = [thread EXCEPT ![o].pc = "save", ![o].tx = [NoTx EXCEPT !.files = Put(Issued(o), o)]]
  <2>1. PICK p \in Paths : p = Issued(o)
    BY PathKinds
  <2>2. o \in Bytes
    BY DEF Bytes
  <2>3. Put(p, o) \in Partly(Paths, Bytes \cup {Absent}) /\ DOMAIN Put(p, o) = {p}
    BY <2>2, PutIsPart
  <2>4. PICK y : y = Put(p, o)
    OBVIOUS
  <2>5. PICK x : x = [NoTx EXCEPT !.files = y]
    OBVIOUS
  <2>6. x \in Tx(Sites) /\ x.files = y /\ x.conf = Nothing /\ x.test = TRUE
    BY <2>3, <2>4, <2>5, NoTxForm DEF Tx
  <2>7. PICK pc \in ReqPlaces \cup JobPlaces : pc = "save"
    BY JobPlacesAre
  <2>8. GoOnWith(o, pc, x)
    BY <1>7, <2>1, <2>4, <2>5, <2>7 DEF GoOnWith
  <2>9. MemoryOK /\ o \in Threads /\ thread[o] # Null /\ x \in Tx(Sites)
    BY <1>1, <1>2, <2>6 DEF CInv, Typed
  <2>10. PICK n \in Thread(Sites) : /\ Alters(o, n) /\ n.pc = pc /\ n.tx = x /\ n.entry = thread[o].entry
                                  /\ Alike(n, thread[o])
    BY <2>8, <2>9, MovedWith
  <2>11. n.op \in {"obtain", "forced"} /\ n.pc \in JobPlaces
    BY <1>1, <2>7, <2>10, JobIs, JobPlacesAre DEF Alike
  <2>12. n.tx.test /\ DOMAIN n.tx.files = {Issued(o)} /\ DOMAIN n.tx.conf = {}
    BY <2>1, <2>3, <2>4, <2>6, <2>10, NoTxForm
  <2>13. Writes(o, n)' /\ ~Holds(n)
    BY <2>7, <2>10, <2>11, <2>12 DEF Writes, Rewrites, RowOps, Holds
  <2>14. QED
    BY <1>1, <1>2, <1>3, <1>4, <2>10, <2>11, <2>13, QuietJob
<1>8. QED
  BY <1>1, <1>5, <1>6, <1>7

LEMMA JobSaveStep ==
  ASSUME CInv, NEW o \in Orders, JobSave(o)
  PROVE  CInv'
<1>1. thread[o] # Null /\ thread[o].pc = "save" /\ Called(o, "record", "failing") /\ UNCHANGED <<tables, mu, sweep>>
  BY DEF JobSave, At
<1>2. ~Holds(thread[o]) /\ o \in Threads /\ thread[o].op \in {"obtain", "forced"}
  BY <1>1, JobIs DEF Holds, Rewrites, RowOps
<1>3. UNCHANGED <<live, ssl, entries, links, lastEntry, orders>>
  BY <1>1 DEF tables
<1>4. orders' \in [Orders -> Order \cup {Null, Gone}] /\ SameNumbers
  BY <1>3 DEF CInv, Typed, TablesOK, SameNumbers
<1>5. PICK a \in ReqPlaces \cup JobPlaces, b \in ReqPlaces \cup JobPlaces : a = "record" /\ b = "failing"
  BY JobPlacesAre
<1>6. Typed /\ Called(o, a, b)
  BY <1>1, <1>5 DEF CInv
<1>7. PICK n \in Thread(Sites) :
         /\ Alters(o, n) /\ Same(n, thread[o]) /\ DiskOK' /\ spent' \in Spent /\ n.pc \in {a, b}
  BY <1>1, <1>2, <1>6, CalledFacts
<1>8. Alike(n, thread[o]) /\ n.op \in {"obtain", "forced"} /\ n.pc \in JobPlaces
  BY <1>2, <1>5, <1>7, JobPlacesAre DEF Same, Alike
<1>9. ~Holds(n) /\ Writes(o, n)'
  BY <1>5, <1>7, <1>8 DEF Holds, Rewrites, RowOps, Writes
<1>10. QED
  BY <1>1, <1>2, <1>3, <1>4, <1>7, <1>8, <1>9, QuietJob

LEMMA JobFailStep ==
  ASSUME CInv, NEW o \in Orders, JobFail(o)
  PROVE  CInv'
<1>1. /\ thread[o] # Null /\ thread[o].pc = "failing" /\ JobEnded(o)
      /\ (orders' = Mark(orders, o, "failed", "error") /\ UNCHANGED spent) \/ Unsaved(o)
      /\ UNCHANGED <<live, ssl, entries, links, lastEntry, disk, mu, sweep>>
  BY DEF JobFail, At
<1>2. ~Holds(thread[o]) /\ DiskOK'
  BY <1>1, JobIs DEF Holds, Rewrites, RowOps, CInv, Typed, DiskOK, disk
<1>3. orders' \in [Orders -> Order \cup {Null, Gone}] /\ SameNumbers /\ spent' \in Spent
  BY <1>1, SavedFacts, UnsavedFacts
<1>4. QED
  BY <1>1, <1>2, <1>3, QuietJob DEF CInv, Typed

LEMMA JobRecordStep ==
  ASSUME CInv, NEW o \in Orders, JobRecord(o)
  PROVE  CInv'
<1>1. thread[o] # Null /\ thread[o].pc = "record" /\ UNCHANGED <<live, ssl, links, disk, mu, sweep>>
  BY DEF JobRecord, At
<1>2. ~Holds(thread[o]) /\ o \in Threads /\ o # Req /\ thread[o] \in Thread(Sites) /\ thread[o].op \in {"obtain", "forced"}
  BY <1>1, JobIs DEF Holds, Rewrites, RowOps
<1>3. PICK p \in Paths, c \in Bytes : p = Issued(o) /\ c = o
  BY PathKinds DEF Bytes
<1>4. PICK k : k = NextEntry
  OBVIOUS
<1>5. NewEntry(Issued(o), o, "panel") => NewEntry(p, c, "panel")
  BY <1>3
<1>6. (NewEntry(p, c, "panel") \/ UNCHANGED <<entries, lastEntry>>) =>
        /\ entries' \in [Entries -> Entry \cup {Null}] /\ lastEntry' \in 0..MaxEntries
        /\ \A j \in Entries : entries'[j] # Null => j <= lastEntry'
        /\ \A j \in Entries : entries[j] # Null => entries'[j] = entries[j]
  BY NewEntryFacts DEF CInv, Typed, TablesOK
<1>7. DiskOK' /\ spent' \in Spent
  BY <1>1, SpentFacts DEF JobRecord, CInv, Typed, DiskOK, disk
<1>8. CASE /\ NewEntry(p, c, "panel")
           /\ orders' = IF Known(o) THEN [Mark(orders, o, "success", "deployment_pending") EXCEPT ![o].entry = k]
                        ELSE orders
           /\ thread' = [thread EXCEPT ![o].pc = "deploy", ![o].entry = k]
  <2>1. k \in Entries
    BY <1>4, <1>8 DEF NewEntry
  <2>2. orders' \in [Orders -> Order \cup {Null, Gone}] /\ SameNumbers
    <3>1. CASE ~Known(o)
      BY <1>8, <3>1 DEF CInv, Typed, TablesOK, SameNumbers
    <3>2. CASE Known(o)
      <4>1. orders[o] \in Order /\ orders[o] # Null
        BY <3>2 DEF Known, CInv, Typed, TablesOK
      <4>2. PICK r : r = [[[orders[o] EXCEPT !.status = "success"] EXCEPT !.err = "deployment_pending"] EXCEPT !.entry = k]
        OBVIOUS
      <4>3. r \in Order
        BY <2>1, <4>1, <4>2 DEF Order
      <4>4. orders' = [orders EXCEPT ![o] = r]
        BY <1>8, <3>2, <4>2 DEF Mark, CInv, Typed, TablesOK
      <4>5. r # Null
        BY <4>3, OrderAssumption
      <4>6. QED
        BY <4>1, <4>3, <4>4, <4>5 DEF CInv, Typed, TablesOK, SameNumbers
    <3>3. QED
      BY <3>1, <3>2
  <2>3. PICK n : n = [[thread[o] EXCEPT !.pc = "deploy"] EXCEPT !.entry = k]
    OBVIOUS
  <2>4. n \in Thread(Sites) /\ n.pc = "deploy" /\ n.op = thread[o].op /\ Alike(n, thread[o])
    BY <1>2, <2>1, <2>3, JobPlacesAre DEF Thread, Alike
  <2>5. Alters(o, n)
    BY <1>2, <1>8, <2>3 DEF Alters, CInv, Typed, MemoryOK
  <2>6. ~Holds(n) /\ Writes(o, n)' /\ n.pc \in JobPlaces
    BY <1>2, <2>4, JobPlacesAre DEF Holds, Rewrites, RowOps, Writes
  <2>7. QED
    BY <1>1, <1>2, <1>6, <1>7, <1>8, <2>2, <2>4, <2>5, <2>6, JobOn
<1>9. CASE GoOn(o, "failing") /\ UNCHANGED orders /\ (NewEntry(p, c, "panel") \/ UNCHANGED <<entries, lastEntry>>)
  <2>1. orders' \in [Orders -> Order \cup {Null, Gone}] /\ SameNumbers
    BY <1>9 DEF CInv, Typed, TablesOK, SameNumbers
  <2>2. PICK n \in Thread(Sites) : Alters(o, n) /\ Alike(n, thread[o]) /\ n.pc \in JobPlaces /\ ~Holds(n) /\ Writes(o, n)'
    BY <1>1, <1>9, MovedQuietly
  <2>3. QED
    BY <1>1, <1>2, <1>6, <1>7, <1>9, <2>1, <2>2, JobOn
<1>10. QED
  BY <1>3, <1>4, <1>5, <1>8, <1>9 DEF JobRecord

(* A job takes the mutex and writes the site's row.                        *)
LEMMA JobDeployStep ==
  ASSUME CInv, NEW o \in Orders, JobDeploy(o)
  PROVE  CInv'
<1>1. PICK s, k : s = thread[o].site /\ k = thread[o].entry
  OBVIOUS
<1>2. /\ thread[o] # Null /\ thread[o].pc = "deploy" /\ mu = Null
      /\ UNCHANGED <<live, entries, links, lastEntry, disk, sweep>>
      /\ IF Deployable(s, k)
         THEN /\ Deploying(s, k) /\ mu' = o
              /\ thread' = [thread EXCEPT ![o].pc = "install", ![o].tx = Deployment(s, k), ![o].undo = ssl[s]]
              /\ UNCHANGED <<orders, spent>>
         ELSE /\ MarkIfSaved(o, "success", "deployment_failed") /\ JobEnded(o) /\ UNCHANGED <<ssl, mu>>
  BY <1>1 DEF JobDeploy, At
<1>3. /\ ~Holds(thread[o]) /\ o \in Threads /\ o # Req /\ thread[o] \in Thread(Sites)
      /\ thread[o].op \in {"obtain", "forced"} /\ s \in Sites
  BY <1>1, <1>2, JobIs DEF Holds, Rewrites, RowOps
<1>4. DiskOK' /\ spent' \in Spent /\ sweep' \in Sweep(Sites) \cup {Null}
  BY <1>2, SavedFacts DEF CInv, Typed, MemoryOK, DiskOK, disk
<1>5. CASE ~Deployable(s, k)
  BY <1>2, <1>5, SavedFacts, <1>3, <1>4, QuietJob
<1>6. CASE Deployable(s, k)
  <2>1. /\ s \in Marked /\ k \in Entries /\ entries[k] # Null /\ conf[s] # Absent
        /\ ssl' \in [Sites -> SslRow \cup {Null}] /\ \A x \in Sites : RowOK(ssl'[x])
        /\ ssl'[s] # Null /\ ssl'[s].mode = "from_store" /\ ssl'[s].path = entries[k].path
    BY <1>2, <1>6, DeployingFacts DEF CInv
  <2>2. PICK x : x = Deployment(s, k)
    OBVIOUS
  <2>3. /\ x \in Tx(Sites) /\ DOMAIN x.files = {} /\ DOMAIN x.conf = {s} /\ x.conf[s] = entries[k].path
        /\ x.hash = {conf[s]} /\ x.test = TRUE
    BY <1>3, <2>1, <2>2, DeployFacts DEF CInv
  <2>4. PICK u \in SslRow \cup {Null} : u = ssl[s] /\ RowOK(u)
    BY <1>3 DEF CInv, Typed, TablesOK
  <2>5. PICK n : n = [[[thread[o] EXCEPT !.pc = "install"] EXCEPT !.tx = x] EXCEPT !.undo = u]
    OBVIOUS
  <2>6. /\ n \in Thread(Sites) /\ n.pc = "install" /\ n.op = thread[o].op /\ n.site = s /\ n.tx = x /\ n.undo = u
        /\ n.order = thread[o].order
    BY <1>1, <1>3, <2>3, <2>5, JobPlacesAre DEF Thread
  <2>7. Alters(o, n)
    BY <1>2, <1>3, <1>6, <2>2, <2>4, <2>5 DEF Alters, CInv, Typed, MemoryOK
  <2>8. Fits(o, n)'
    BY <1>3, <2>1, <2>4, <2>6, JobPlacesAre DEF Fits, Placed, RowOK, Rewrites, RowOps
  <2>9. Rewriting(o, n)'
    BY <1>3, <2>1, <2>3, <2>6 DEF Rewriting, Matches, Brings
  <2>10. Writes(o, n)'
    BY <1>3, <2>6, <2>9 DEF Writes, Rewrites
  <2>11. Turn(o, n) /\ SameNumbers /\ Frame(o)
    BY <1>2, <1>6, <2>6, PlacesAre DEF Turn, Holds, Rewrites, SameNumbers, Frame
  <2>12. TablesOK'
    BY <1>2, <1>6, <2>1 DEF CInv, Typed, TablesOK, RowOK
  <2>13. QED
    BY <1>2, <1>3, <1>4, <2>6, <2>7, <2>8, <2>10, <2>11, <2>12, OneStep
<1>7. QED
  BY <1>5, <1>6

LEMMA JobInstallStep ==
  ASSUME CInv, NEW o \in Orders, JobInstall(o)
  PROVE  CInv'
<1>1. thread[o] # Null /\ thread[o].pc = "install" /\ Called(o, "settle", "rollback") /\ UNCHANGED <<tables, mu, sweep>>
  BY DEF JobInstall, At
<1>2. o \in Threads /\ o # Req /\ thread[o].op \in {"obtain", "forced"}
  BY <1>1, JobIs
<1>3. UNCHANGED <<live, ssl, entries, links, lastEntry, orders>>
  BY <1>1 DEF tables
<1>4. PICK a \in ReqPlaces \cup JobPlaces, b \in ReqPlaces \cup JobPlaces : a = "settle" /\ b = "rollback"
  BY JobPlacesAre
<1>5. Typed /\ Called(o, a, b)
  BY <1>1, <1>4 DEF CInv
<1>6. PICK n \in Thread(Sites) :
         /\ Alters(o, n) /\ Same(n, thread[o]) /\ DiskOK' /\ spent' \in Spent /\ n.pc \in {a, b}
  BY <1>1, <1>2, <1>5, CalledFacts
<1>7. Alike(n, thread[o]) /\ n.op \in {"obtain", "forced"} /\ n.pc \in JobPlaces /\ Rewrites(n) /\ Rewrites(thread[o])
  BY <1>1, <1>2, <1>4, <1>6, JobPlacesAre DEF Same, Alike, Rewrites
<1>8. Fits(o, n)'
  BY <1>1, <1>2, <1>3, <1>7, SameFits DEF Placed
<1>9. Writes(o, n)'
  BY <1>4, <1>6, <1>7, PlacesAre DEF Writes
<1>10. Turn(o, n)
  BY <1>1, <1>7, NothingAssumption DEF Turn, Holds
<1>11. TablesOK' /\ SameNumbers /\ Frame(o)
  BY <1>3 DEF CInv, Typed, TablesOK, RowOK, SameNumbers, Frame
<1>12. QED
  BY <1>1, <1>2, <1>6, <1>8, <1>9, <1>10, <1>11, OneStep DEF CInv, Typed, MemoryOK

LEMMA JobRollbackStep ==
  ASSUME CInv, NEW o \in Orders, JobRollback(o)
  PROVE  CInv'
<1>1. /\ thread[o] # Null /\ thread[o].pc = "rollback" /\ JobEnded(o) /\ mu' = Null
      /\ ssl' = [ssl EXCEPT ![thread[o].site] = thread[o].undo] \/ ssl' = ssl
      /\ \/ MarkIfSaved(o, "success", "deployment_failed")
         \/ Mishap /\ orders' = Mark(orders, o, "success", "deployment_failed")
      /\ UNCHANGED <<live, entries, links, lastEntry, disk, sweep>>
  BY DEF JobRollback, At, Unlock, RollbackSSL
<1>2. mu = o /\ o \in Threads /\ thread[o] \in Thread(Sites)
  BY <1>1, JobIs
<1>3. PICK s \in Sites, u \in SslRow \cup {Null} : s = thread[o].site /\ u = thread[o].undo /\ RowOK(u)
  BY <1>1, <1>2, JobIs DEF Thread
<1>4. ssl' \in [Sites -> SslRow \cup {Null}] /\ \A x \in Sites : RowOK(ssl'[x])
  BY <1>1, <1>3, RowWritten DEF CInv, Typed, TablesOK
<1>5. orders' \in [Orders -> Order \cup {Null, Gone}] /\ SameNumbers /\ spent' \in Spent
  BY <1>1, SavedFacts
<1>6. TablesOK' /\ DiskOK' /\ Frame(o) /\ Turn(o, Null)
  BY <1>1, <1>2, <1>4, <1>5, PlacesAre DEF CInv, Typed, TablesOK, DiskOK, RowOK, disk, Frame, Turn
<1>7. QED
  BY <1>1, <1>5, <1>6, JobEndsKeeps DEF CInv, Typed

LEMMA JobSettleStep ==
  ASSUME CInv, NEW o \in Orders, JobSettle(o)
  PROVE  CInv'
<1>1. /\ thread[o] # Null /\ thread[o].pc = "settle" /\ mu' = Null
      /\ UNCHANGED <<live, ssl, entries, links, lastEntry, disk, sweep>>
      /\ UNCHANGED spent \/ Fault
      /\ \E status \in {"success", "failed"}, err \in {"", "error"} : orders' \in {Mark(orders, o, status, err), orders}
      /\ JobEnded(o) \/ (thread[o].order # Null /\ GoOn(o, "complete"))
  BY DEF JobSettle, At, Unlock
<1>2. mu = o /\ o \in Threads /\ o # Req /\ thread[o].op \in {"obtain", "forced"} /\ thread[o].order \in Orders \cup {Null}
  BY <1>1, JobIs
<1>3. orders' \in [Orders -> Order \cup {Null, Gone}] /\ SameNumbers
  BY <1>1, SavedFacts
<1>4. TablesOK' /\ DiskOK' /\ Frame(o)
  BY <1>1, <1>2, <1>3 DEF CInv, Typed, TablesOK, DiskOK, RowOK, disk, Frame
<1>5. spent' \in Spent
  BY <1>1, SpentFacts DEF CInv, Typed
<1>6. CASE JobEnded(o)
  <2>1. Turn(o, Null)
    BY <1>1, <1>2, PlacesAre DEF Turn
  <2>2. QED
    BY <1>1, <1>3, <1>4, <1>5, <1>6, <2>1, JobEndsKeeps
<1>7. CASE thread[o].order # Null /\ GoOn(o, "complete")
  <2>1. PICK pc \in ReqPlaces \cup JobPlaces : pc = "complete"
    BY JobPlacesAre
  <2>2. MemoryOK /\ thread' = [thread EXCEPT ![o].pc = pc]
    BY <1>7, <2>1 DEF CInv, Typed, GoOn
  <2>3. PICK n \in Thread(Sites) : Alters(o, n) /\ n.pc = pc /\ Same(n, thread[o])
    BY <1>1, <1>2, <2>2, Moved
  <2>4. n.op \in {"obtain", "forced"} /\ n.order \in Orders /\ Alike(n, thread[o]) /\ ~Rewrites(n) /\ Placed(o, n)
    BY <1>2, <1>7, <2>1, <2>3, JobPlacesAre DEF Same, Alike, Rewrites, RowOps, Placed
  <2>5. Fits(o, n)'
    BY <1>1, <1>2, <2>4, SameFits
  <2>6. Writes(o, n)'
    BY <2>1, <2>3, <2>4 DEF Writes, Rewrites
  <2>7. Turn(o, n)
    BY <1>1, <1>2, <2>4 DEF Turn, Holds
  <2>8. QED
    BY <1>1, <1>2, <1>3, <1>4, <1>5, <2>3, <2>5, <2>6, <2>7, OneStep DEF CInv, Typed, MemoryOK
<1>8. QED
  BY <1>1, <1>6, <1>7

LEMMA RetireFacts ==
  ASSUME orders \in [Orders -> Order \cup {Null, Gone}], NEW old \in Orders, NEW new \in Orders,
         Known(old), Known(new), orders' = Retire(orders, old, new)
  PROVE  /\ orders' \in [Orders -> Order \cup {Null, Gone}] /\ SameNumbers
         /\ \A p \in Orders : p \notin {old, new} => orders'[p] = orders[p]
         /\ \A p \in Orders : Known(p)' <=> Known(p)
         /\ \A p \in {old, new} : /\ orders'[p].site = orders[p].site /\ orders'[p].status = orders[p].status
                                  /\ orders'[p].err = orders[p].err
         /\ orders'[old].auto = FALSE
         /\ old # new => orders'[new].auto = orders[old].auto
<1>1. orders[old] \in Order /\ orders[new] \in Order
  BY DEF Known
<1>2. PICK b \in BOOLEAN : b = orders[old].auto
  BY <1>1 DEF Order
<1>3. PICK f \in BOOLEAN : f = FALSE
  OBVIOUS
<1>4. PICK r : r = [orders[new] EXCEPT !.auto = b]
  OBVIOUS
<1>5. r \in Order /\ r.site = orders[new].site /\ r.status = orders[new].status /\ r.err = orders[new].err /\ r.auto = b
  BY <1>1, <1>4 DEF Order
<1>6. PICK mid : mid = [orders EXCEPT ![new] = r]
  OBVIOUS
<1>7. mid \in [Orders -> Order \cup {Null, Gone}] /\ mid[new] = r /\ \A p \in Orders : p # new => mid[p] = orders[p]
  BY <1>5, <1>6
<1>8. mid[old] \in Order /\ mid[old].site = orders[old].site /\ mid[old].status = orders[old].status /\ mid[old].err = orders[old].err
  BY <1>1, <1>5, <1>7
<1>9. PICK q : q = [mid[old] EXCEPT !.auto = f]
  OBVIOUS
<1>10. q \in Order /\ q.site = orders[old].site /\ q.status = orders[old].status /\ q.err = orders[old].err /\ q.auto = f
  BY <1>8, <1>9 DEF Order
<1>11. orders' = [mid EXCEPT ![old] = q]
  BY <1>2, <1>3, <1>4, <1>6, <1>9 DEF Retire
<1>12. orders' \in [Orders -> Order \cup {Null, Gone}] /\ orders'[old] = q /\ \A p \in Orders : p # old => orders'[p] = mid[p]
  BY <1>7, <1>10, <1>11
<1>13. q \notin {Null, Gone} /\ r \notin {Null, Gone}
  BY <1>5, <1>10, OrderAssumption
<1>14. \A p \in Orders : p \notin {old, new} => orders'[p] = orders[p]
  BY <1>7, <1>12
<1>15. orders'[old] = q /\ (old # new => orders'[new] = r)
  BY <1>7, <1>12
<1>16. SameNumbers /\ \A p \in Orders : Known(p)' <=> Known(p)
  BY <1>13, <1>14, <1>15 DEF SameNumbers, Known
<1>17. QED
  BY <1>2, <1>3, <1>5, <1>10, <1>12, <1>14, <1>15, <1>16

LEMMA JobCompleteStep ==
  ASSUME CInv, NEW o \in Orders, JobComplete(o)
  PROVE  CInv'
<1>1. PICK old : old = thread[o].order
  OBVIOUS
<1>2. /\ thread[o] # Null /\ thread[o].pc = "complete" /\ JobEnded(o)
      /\ UNCHANGED <<live, ssl, entries, links, lastEntry, disk, mu, sweep>>
      /\ \/ Known(old) /\ Known(o) /\ orders' = Retire(orders, old, o) /\ UNCHANGED spent
         \/ MarkIfSaved(o, "success", "renewal_finalize_failed")
         \/ Fault /\ orders' \in {Mark(orders, o, "success", "renewal_finalize_failed"), orders}
  BY <1>1 DEF JobComplete, At
<1>3. PICK r \in Thread(Sites) : r = thread[o] /\ Writes(o, r)
  BY <1>2, JobIs DEF CInv, ThreadsInv
<1>4. old \in Orders
  BY <1>1, <1>2, <1>3 DEF Writes
<1>5. orders' \in [Orders -> Order \cup {Null, Gone}] /\ SameNumbers /\ spent' \in Spent
  BY <1>2, <1>4, RetireFacts, SavedFacts DEF CInv, Typed, TablesOK
<1>6. ~Holds(thread[o])
  BY <1>2, JobIs DEF Holds, Rewrites, RowOps
<1>7. DiskOK'
  BY <1>2 DEF CInv, Typed, DiskOK, disk
<1>8. QED
  BY <1>2, <1>5, <1>6, <1>7, QuietJob

LEMMA JobStep ==
  ASSUME CInv, NEW o \in Orders, JobGoesOn(o)
  PROVE  CInv'
BY JobPrepareStep, JobChallengeStep, JobAskStep, JobSaveStep, JobFailStep, JobRecordStep, JobDeployStep,
   JobInstallStep, JobRollbackStep, JobSettleStep, JobCompleteStep DEF JobGoesOn

-----------------------------------------------------------------------------
(* The scheduled renewal, a crash, the beginning.                          *)

LEMMA PartOf ==
  ASSUME NEW S, NEW T, NEW D \in SUBSET S, NEW f \in [D -> T]
  PROVE  f \in Partly(S, T)
BY DEF Partly

LEMMA SweepFacts ==
  ASSUME Typed, sweep # Null
  PROVE  /\ sweep \in Sweep(Sites) /\ sweep.todo \in Partly(Orders, Sites) /\ sweep.waiting \in Orders \cup {Null}
         /\ DOMAIN sweep.todo \subseteq Orders /\ \A o \in DOMAIN sweep.todo : sweep.todo[o] \in Sites
         /\ \A o : Others(o) \in Partly(Orders, Sites) /\ DOMAIN Others(o) = DOMAIN sweep.todo \ {o}
                     /\ \A p \in DOMAIN Others(o) : Others(o)[p] = sweep.todo[p]
<1>1. sweep \in Sweep(Sites)
  BY DEF Typed, MemoryOK
<1>2. sweep.todo \in Partly(Orders, Sites) /\ sweep.waiting \in Orders \cup {Null}
  BY <1>1 DEF Sweep
<1>3. DOMAIN sweep.todo \subseteq Orders /\ \A o \in DOMAIN sweep.todo : sweep.todo[o] \in Sites
  BY <1>2, PartFacts
<1>4. ASSUME NEW o
      PROVE  /\ Others(o) \in Partly(Orders, Sites) /\ DOMAIN Others(o) = DOMAIN sweep.todo \ {o}
             /\ \A p \in DOMAIN Others(o) : Others(o)[p] = sweep.todo[p]
  BY <1>3, PartOf DEF Others
<1>5. QED
  BY <1>1, <1>2, <1>3, <1>4

LEMMA SweepTyped ==
  ASSUME NEW f \in Partly(Orders, Sites), NEW w \in Orders \cup {Null}, NEW r, r = [todo |-> f, waiting |-> w]
  PROVE  r \in Sweep(Sites) /\ r.todo = f /\ r.waiting = w
BY DEF Sweep

(* The orders that are due, with their sites.                              *)
LEMMA DueFacts ==
  ASSUME CInv, RunScheduledRenewal
  PROVE  /\ sweep' \in Sweep(Sites) /\ sweep'.waiting = Null
         /\ \A o \in DOMAIN sweep'.todo : o \in Orders /\ Known(o) /\ sweep'.todo[o] = orders[o].site
<1>1. PICK due \in SUBSET ListExpiringOrders : sweep' = [todo |-> [o \in due |-> orders[o].site], waiting |-> Null]
  BY DEF RunScheduledRenewal
<1>2. ASSUME NEW o \in due
      PROVE  o \in Orders /\ Known(o) /\ orders[o].site \in Sites
  <2>1. PICK s \in Sites : o = Newest(s) /\ Renewable(s)
    BY <1>1, <1>2 DEF ListExpiringOrders
  <2>2. PICK C : C = Clean(s)
    OBVIOUS
  <2>3. C # {} /\ C \subseteq Orders /\ \A p \in C : Known(p)
    BY <2>1, <2>2 DEF Renewable, Clean
  <2>4. MaxOrders \in Nat /\ C \in SUBSET (1..MaxOrders)
    BY <2>3, CertificatesAssumption DEF Orders
  <2>5. \E m \in C : \A p \in C : p <= m
    BY <2>3, <2>4, Latest
  <2>6. o \in C
    BY <2>1, <2>2, <2>5 DEF Newest
  <2>7. orders[o] \in Order
    BY <2>3, <2>6 DEF Known, CInv, Typed, TablesOK
  <2>8. QED
    BY <2>3, <2>6, <2>7 DEF Order
<1>3. PICK f : f = [o \in due |-> orders[o].site]
  OBVIOUS
<1>4. due \in SUBSET Orders /\ f \in [due -> Sites] /\ \A o \in due : f[o] = orders[o].site
  BY <1>2, <1>3
<1>5. f \in Partly(Orders, Sites)
  BY <1>4, PartOf
<1>6. sweep' = [todo |-> f, waiting |-> Null]
  BY <1>1, <1>3
<1>7. sweep' \in Sweep(Sites) /\ sweep'.todo = f /\ sweep'.waiting = Null
  BY <1>5, <1>6, SweepTyped
<1>8. QED
  BY <1>2, <1>4, <1>7

LEMMA SweepStepsStep ==
  ASSUME CInv, SweepSteps
  PROVE  CInv'
<1>1. CASE RunScheduledRenewal
  <2>1. spent' \in Spent /\ UNCHANGED <<tables, disk, thread, mu>>
    BY <1>1 DEF RunScheduledRenewal, CInv, Typed, Spent
  <2>2. QED
    BY <1>1, <2>1, DueFacts, SweepStep
<1>2. ASSUME NEW o \in Orders, RenewOrderForScheduledTask(o) PROVE CInv'
  <2>1. sweep # Null /\ o \in DOMAIN sweep.todo /\ UNCHANGED <<live, ssl, entries, links, lastEntry, disk, mu, spent>>
    BY <1>2 DEF RenewOrderForScheduledTask
  <2>2. PICK f \in Partly(Orders, Sites), s \in Sites : f = Others(o) /\ s = sweep.todo[o]
    BY <2>1, SweepFacts DEF CInv
  <2>3. CASE Launch(s, TRUE, o, FALSE) /\ sweep' = [todo |-> f, waiting |-> NextOrder]
    BY <2>3, SweepTyped, <2>1, LaunchStep DEF Launch, CInv, Typed
  <2>4. CASE sweep' = [sweep EXCEPT !.todo = f] /\ UNCHANGED <<orders, thread>>
    BY <2>1, <2>4, SweepFacts, SweepStep DEF Sweep, CInv, tables, Typed
  <2>5. QED
    BY <1>2, <2>2, <2>3, <2>4 DEF RenewOrderForScheduledTask
<1>3. CASE SweepGoesOn
  BY <1>3, SweepFacts, SweepStep DEF SweepGoesOn, Sweep, CInv, Typed
<1>4. QED
  BY <1>1, <1>2, <1>3 DEF SweepSteps

LEMMA CrashStep ==
  ASSUME CInv, Crash
  PROVE  CInv'
<1>1. /\ thread' = [t \in Threads |-> Null] /\ mu' = Null /\ sweep' = Null /\ UNCHANGED tables
      /\ spent' = [spent EXCEPT !.faults = @ + 1, !.mishap = TRUE, !.left = @ \cup Jobs]
  BY DEF Crash
<1>2. spent' \in Spent
  <2>1. PICK m \in BOOLEAN : m = TRUE
    OBVIOUS
  <2>2. PICK f \in Nat : f = spent.faults + 1
    BY DEF CInv, Typed, Spent
  <2>3. PICK q : q = [spent EXCEPT !.faults = f]
    OBVIOUS
  <2>4. q \in Spent
    BY <2>3 DEF CInv, Typed, Spent
  <2>5. PICK w : w = [q EXCEPT !.mishap = m]
    OBVIOUS
  <2>6. w \in Spent
    BY <2>4, <2>5 DEF Spent
  <2>7. PICK l \in SUBSET Orders : l = spent.left \cup Jobs
    BY DEF CInv, Typed, Spent, Jobs
  <2>8. [w EXCEPT !.left = l] \in Spent
    BY <2>6, <2>7 DEF Spent
  <2>9. w.left = spent.left
    BY <2>3, <2>5 DEF CInv, Typed, Spent
  <2>10. spent' = [w EXCEPT !.left = l]
    BY <1>1, <2>1, <2>2, <2>3, <2>5, <2>7, <2>9
  <2>11. QED
    BY <2>8, <2>10
<1>3. DiskOK'
  <2>1. CASE UNCHANGED disk
    BY <2>1 DEF CInv, Typed, DiskOK, disk
  <2>2. ASSUME NEW t \in Threads, thread[t] # Null, Install(thread[t].tx) PROVE DiskOK'
    BY <2>2, IsThread, InstallFacts DEF CInv, Typed, Thread
  <2>3. QED
    BY <2>1, <2>2 DEF Crash
<1>4. UNCHANGED <<live, ssl, entries, links, orders, lastEntry>>
  BY <1>1 DEF tables
<1>5. TablesOK' /\ MemoryOK'
  BY <1>1, <1>4 DEF CInv, Typed, TablesOK, RowOK, MemoryOK
<1>6. LockInv' /\ ThreadsInv' /\ NumbersInv'
  BY <1>1, PlacesAre, <1>4 DEF LockInv, Holds, ThreadsInv, NumbersInv, CInv, Threads
<1>7. QED
  BY <1>2, <1>3, <1>5, <1>6 DEF CInv, Typed

LEMMA AtFirst ==
  ASSUME Init
  PROVE  CInv
<1>1. TablesOK
  BY EntriesAre DEF Init, TablesOK, RowOK
<1>2. files \in [Paths -> Bytes \cup {Absent}]
  <2>1. PICK outside \in [Outside -> Certs] :
           files = [p \in Paths |-> IF p[1] = "outside" THEN outside[p[2]] ELSE Absent]
    BY DEF Init
  <2>2. ASSUME NEW p \in Paths, p[1] = "outside" PROVE outside[p[2]] \in Bytes
    BY <2>2, PathKinds DEF External, Bytes
  <2>3. QED
    BY <2>1, <2>2
<1>3. conf \in [Sites -> Named]
  BY PathKinds DEF Init, Named
<1>4. MemoryOK /\ \A t \in Threads : thread[t] = Null
  BY DEF Init, MemoryOK
<1>5. spent \in Spent
  BY DEF Init, Spent
<1>6. LockInv
  BY <1>4, PlacesAre DEF Init, LockInv
<1>7. ThreadsInv
  BY <1>4, PlacesAre DEF ThreadsInv
<1>8. NumbersInv
  BY <1>4 DEF Init, NumbersInv, Threads
<1>9. QED
  BY <1>1, <1>2, <1>3, <1>4, <1>5, <1>6, <1>7, <1>8 DEF CInv, Typed, DiskOK

LEMMA StutterStep ==
  ASSUME CInv, UNCHANGED vars
  PROVE  CInv'
BY SweepStep DEF vars, CInv, Typed, MemoryOK

LEMMA EachStep ==
  ASSUME CInv, [Next]_vars
  PROVE  CInv'
BY RequestsStep, RequestGoesOnStep, JobStep, SweepStepsStep, CrashStep, StutterStep DEF Next

(* The types, the mutex, what each thread writes and the numbers of the    *)
(* orders, in every state.                                                 *)
THEOREM CInvariant == Spec => []CInv
<1>1. Init => CInv
  BY AtFirst
<1>2. CInv /\ [Next]_vars => CInv'
  BY EachStep
<1>3. QED
  BY <1>1, <1>2, PTL DEF Spec

-----------------------------------------------------------------------------
(* The orders: which are worked on, which are done.                        *)

CleanRow(o)  == orders[o].status = "success" /\ orders[o].err = ""
Unsettled(o) == Known(o) /\ orders[o].status \in {"pending", "processing"}

(* A job works for the site of its order and of the order it renews, an    *)
(* earlier one.                                                            *)
JobSites == \A o \in Orders : thread[o] # Null =>
  /\ Known(o) => orders[o].site = thread[o].site
  /\ thread[o].order # Null =>
       /\ thread[o].order \in Orders /\ thread[o].order < o /\ orders[thread[o].order] # Null
       /\ Known(thread[o].order) => orders[thread[o].order].site = thread[o].site

(* An order is not done before its job has settled it.                     *)
NotYet == \A o \in Orders : thread[o] # Null /\ Known(o) /\ thread[o].pc # "complete" => ~CleanRow(o)

(* From its record on the order of a job says neither.                     *)
Late    == {"deploy", "install", "settle", "rollback", "complete"}
Settled == \A o \in Orders : thread[o] # Null /\ thread[o].pc \in Late => ~Unsettled(o)

(* No job works for the site of a redeployment.                            *)
RedeployInv == thread[Req] # Null /\ thread[Req].op = "redeploy" =>
  /\ orders[thread[Req].order] # Null
  /\ Known(thread[Req].order) => orders[thread[Req].order].site = thread[Req].site
  /\ \A o \in Orders : thread[o] # Null => thread[o].site # thread[Req].site

SweepInv == sweep # Null => \A o \in DOMAIN sweep.todo :
  orders[o] # Null /\ (Known(o) => orders[o].site = sweep.todo[o])

OInv == JobSites /\ NotYet /\ Settled /\ RedeployInv /\ SweepInv /\ WorkedOnOrSettled

(* Rows stay, and stay their sites'.                                       *)
Steady == \A o \in Orders :
  /\ orders[o] # Null => orders'[o] # Null
  /\ Known(o)' => Known(o) /\ orders'[o].site = orders[o].site

(* No order becomes done whose job goes on, but by the last of its steps.  *)
Unfinished == \A o \in Orders : thread'[o] # Null /\ Known(o)' /\ CleanRow(o)' => CleanRow(o) \/ thread'[o].pc = "complete"

(* The orders of other threads say no more that they are worked on, and    *)
(* the one of t does not when t is past its record.                        *)
Retains(t)     == \A o \in Orders : o # t /\ Unsettled(o)' => Unsettled(o)
Advances(t, n) == t # Req /\ n # Null /\ n.pc \in Late => ~Unsettled(t)'

Kin(n, r) == n.op = r.op /\ n.site = r.site /\ n.order = r.order

(* What the thread t becomes.                                              *)
Becomes(t, n) ==
  \/ n = Null
  \/ thread[t] # Null /\ Kin(n, thread[t]) /\ (n.pc = "complete" \/ thread[t].pc # "complete")
  \/ t = Req /\ n.op # "redeploy"
  \/ /\ t = Req /\ n.op = "redeploy" /\ n.order \in Orders /\ Known(n.order) /\ orders[n.order].site = n.site
     /\ \A o \in Orders : thread[o] # Null => thread[o].site # n.site

LEMMA SitesKept ==
  ASSUME CInv, OInv, NEW t \in Threads, NEW n, Alters(t, n), Becomes(t, n), Steady
  PROVE  JobSites'
<1>1. thread'[t] = n /\ \A u \in Threads : u # t => thread'[u] = thread[u]
  BY Altered DEF CInv, Typed
<1>2. ASSUME NEW o \in Orders, thread'[o] # Null
      PROVE  /\ Known(o)' => orders'[o].site = thread'[o].site
             /\ thread'[o].order # Null =>
                  /\ thread'[o].order \in Orders /\ thread'[o].order < o /\ orders'[thread'[o].order] # Null
                  /\ (orders'[thread'[o].order] \notin {Null, Gone}) => orders'[thread'[o].order].site = thread'[o].site
  <2>1. thread[o] # Null /\ thread'[o].site = thread[o].site /\ thread'[o].order = thread[o].order
    BY <1>1, <1>2, PlacesAre DEF Becomes, Kin, Threads
  <2>2. /\ Known(o) => orders[o].site = thread[o].site
        /\ thread[o].order # Null =>
             /\ thread[o].order \in Orders /\ thread[o].order < o /\ orders[thread[o].order] # Null
             /\ Known(thread[o].order) => orders[thread[o].order].site = thread[o].site
    BY <2>1 DEF OInv, JobSites
  <2>3. Known(o)' => orders'[o].site = thread'[o].site
    BY <2>1, <2>2 DEF Steady
  <2>4. CASE thread[o].order # Null
    BY <2>2, <2>4, <2>1, <2>3 DEF Steady, Known
  <2>5. QED
    BY <2>1, <2>3, <2>4
<1>3. QED
  BY <1>2 DEF JobSites, Known

LEMMA RedeployKept ==
  ASSUME CInv, OInv, NEW t \in Threads, NEW n, Alters(t, n), Becomes(t, n), Steady
  PROVE  RedeployInv'
<1>1. thread'[t] = n /\ \A u \in Threads : u # t => thread'[u] = thread[u]
  BY Altered DEF CInv, Typed
<1>2. SUFFICES ASSUME thread'[Req] # Null, thread'[Req].op = "redeploy"
               PROVE  /\ orders'[thread'[Req].order] # Null
                      /\ orders'[thread'[Req].order] \notin {Null, Gone} => orders'[thread'[Req].order].site = thread'[Req].site
                      /\ \A o \in Orders : thread'[o] # Null => thread'[o].site # thread'[Req].site
  BY DEF RedeployInv, Known
<1>3. PICK p, s : p = thread'[Req].order /\ s = thread'[Req].site
  OBVIOUS
<1>4. /\ p \in Orders /\ orders[p] # Null /\ (Known(p) => orders[p].site = s)
      /\ \A o \in Orders : thread[o] # Null => thread[o].site # s
  <2>1. CASE t # Req \/ (t = Req /\ thread[t] # Null /\ Kin(n, thread[t]))
    BY <1>1, <1>2, <1>3, <2>1, PlacesAre, RequestIs DEF Kin, Fits, OInv, RedeployInv
  <2>2. CASE /\ t = Req /\ n.op = "redeploy" /\ n.order \in Orders /\ Known(n.order) /\ orders[n.order].site = n.site
             /\ \A o \in Orders : thread[o] # Null => thread[o].site # n.site
    BY <1>1, <1>3, <2>2 DEF Known
  <2>3. QED
    BY <1>1, <1>2, <2>1, <2>2 DEF Becomes
<1>5. ASSUME NEW o \in Orders, thread'[o] # Null PROVE thread'[o].site # s
  BY <1>1, <1>5, PlacesAre, <1>4 DEF Becomes, Kin, Threads
<1>6. orders'[p] # Null /\ (orders'[p] \notin {Null, Gone} => orders'[p].site = s)
  BY <1>4 DEF Steady, Known
<1>7. QED
  BY <1>3, <1>5, <1>6

LEMMA SweepKept ==
  ASSUME CInv, OInv, Steady, sweep' = sweep
  PROVE  SweepInv'
BY SweepFacts DEF SweepInv, CInv, OInv, Steady

LEMMA NotYetKept ==
  ASSUME CInv, OInv, NEW t \in Threads, NEW n, Alters(t, n), Becomes(t, n), Steady, Unfinished
  PROVE  NotYet'
<1>1. thread'[t] = n /\ \A u \in Threads : u # t => thread'[u] = thread[u]
  BY Altered DEF CInv, Typed
<1>2. ASSUME NEW o \in Orders, thread'[o] # Null, Known(o)', thread'[o].pc # "complete", CleanRow(o)'
      PROVE  FALSE
  BY <1>2, <1>1, PlacesAre DEF Unfinished, Steady, Becomes, Threads, OInv, NotYet
<1>3. QED
  BY <1>2 DEF NotYet

(* The orders' part of a step of one thread.                               *)
LEMMA OStep ==
  ASSUME CInv, OInv, NEW t \in Threads, NEW n, Alters(t, n), Becomes(t, n), Steady, Unfinished,
         Retains(t), Advances(t, n),
         t # Req /\ n = Null => ~Unsettled(t)' \/ t \in spent'.left,
         sweep' = sweep, spent.left \subseteq spent'.left
  PROVE  OInv'
<1>1. JobSites' /\ NotYet' /\ SweepInv'
  BY SitesKept, NotYetKept, SweepKept
<1>2. RedeployInv'
  BY RedeployKept
<1>3. thread'[t] = n /\ \A u \in Threads : u # t => thread'[u] = thread[u]
  BY Altered DEF CInv, Typed
<1>0. Settled'
  BY <1>3, PlacesAre DEF OInv, Settled, Retains, Advances, Threads
<1>4. ASSUME NEW o \in Orders, o \notin spent'.left, Unsettled(o)' PROVE thread'[o] # Null
  BY <1>4, <1>3, PlacesAre DEF OInv, WorkedOnOrSettled, Unsettled, Threads, Retains
<1>5. WorkedOnOrSettled'
  BY <1>4 DEF WorkedOnOrSettled, Unsettled
<1>6. QED
  BY <1>0, <1>1, <1>2, <1>5 DEF OInv

LEMMA OSame ==
  ASSUME CInv, OInv, NEW t \in Threads, NEW n, Alters(t, n), Becomes(t, n), orders' = orders, t = Req \/ n # Null,
         t = Req \/ n.pc \notin Late \/ ~Unsettled(t),
         sweep' = sweep, spent'.left = spent.left
  PROVE  OInv'
BY OStep DEF Steady, Unfinished, Unsettled, Known, CleanRow, Retains, Advances

LEMMA OMarked ==
  ASSUME CInv, OInv, NEW o \in Orders, thread[o] # Null, NEW n, Alters(o, n), Becomes(o, n),
         NEW status \in {"pending", "processing", "failed", "pre_validation_failed", "success"},
         NEW err \in {"", "error", "deployment_pending", "deployment_failed", "renewal_finalize_failed"},
         orders' = Mark(orders, o, status, err),
         n = Null \/ n.pc \in Late => status \notin {"pending", "processing"},
         n # Null => ~(status = "success" /\ err = "") \/ n.pc = "complete",
         sweep' = sweep, spent'.left = spent.left
  PROVE  OInv'
<1>1. /\ orders' \in [Orders -> Order \cup {Null, Gone}] /\ SameNumbers
      /\ \A p \in Orders : p # o => orders'[p] = orders[p]
      /\ \A p \in Orders : (orders'[p] = Gone <=> orders[p] = Gone)
      /\ ~Known(o) => orders'[o] = orders[o]
      /\ Known(o) => orders'[o].status = status /\ orders'[o].err = err /\ orders'[o].site = orders[o].site
  <2>1. orders \in [Orders -> Order \cup {Null, Gone}]
    BY DEF CInv, Typed, TablesOK
  <2>2. /\ orders' \in [Orders -> Order \cup {Null, Gone}] /\ SameNumbers
        /\ \A p \in Orders : p # o => orders'[p] = orders[p]
        /\ \A p \in Orders : (orders'[p] = Gone <=> orders[p] = Gone)
        /\ ~Known(o) => orders'[o] = orders[o]
        /\ Known(o) => /\ orders'[o].status = status /\ orders'[o].err = err
                       /\ orders'[o].site = orders[o].site /\ orders'[o].auto = orders[o].auto
    BY <2>1, MarkFacts, ZenonT(40)
  <2>3. QED
    BY <2>2
<1>2. o \in Threads /\ thread'[o] = n /\ \A u \in Threads : u # o => thread'[u] = thread[u]
  BY Altered DEF CInv, Typed, Threads
<1>3. Steady
  BY <1>1 DEF Steady, Known, SameNumbers
<1>4. Unfinished
  BY <1>1, <1>2, <1>3 DEF Unfinished, CleanRow, Known, Steady
<1>5. Retains(o)
  BY <1>1 DEF Unsettled, Known, Retains
<1>6. (n = Null => ~Unsettled(o)') /\ Advances(o, n)
  BY <1>1 DEF Unsettled, Known, Advances
<1>7. QED
  BY <1>2, <1>3, <1>4, <1>5, <1>6, OStep

(* The same when the row may stay as it is.                                *)
LEMMA OSaved ==
  ASSUME CInv, OInv, NEW o \in Orders, thread[o] # Null, NEW n, Alters(o, n), Becomes(o, n),
         NEW status \in {"pending", "processing", "failed", "pre_validation_failed", "success"},
         NEW err \in {"", "error", "deployment_pending", "deployment_failed", "renewal_finalize_failed"},
         orders' \in {Mark(orders, o, status, err), orders},
         n = Null \/ n.pc \in Late => status \notin {"pending", "processing"},
         n # Null => ~(status = "success" /\ err = "") \/ n.pc = "complete",
         orders' = orders /\ (n = Null \/ n.pc \in Late) => ~Unsettled(o),
         sweep' = sweep, spent'.left = spent.left
  PROVE  OInv'
<1>1. CASE orders' = Mark(orders, o, status, err)
  BY <1>1, OMarked
<1>2. CASE orders' = orders
  <2>1. Steady /\ Unfinished
    BY <1>2 DEF Steady, Unfinished, Known, CleanRow
  <2>2. \A p \in Orders : Unsettled(p)' <=> Unsettled(p)
    BY <1>2 DEF Unsettled, Known
  <2>3. QED
    BY <1>2, <2>1, <2>2, OStep DEF Threads, Retains, Advances
<1>3. QED
  BY <1>1, <1>2

LEMMA RequestAlters ==
  ASSUME NEW op, NEW pc, NEW s, NEW k, NEW o, NEW x, Request(op, pc, s, k, o, x)
  PROVE  \E n : Alters(Req, n) /\ n.op = op /\ n.pc = pc /\ n.site = s /\ n.order = o
<1>1. PICK u : u = IF s \in live THEN ssl[s] ELSE Null
  OBVIOUS
<1>2. PICK n : n = [op |-> op, pc |-> pc, site |-> s, entry |-> k, order |-> o, tx |-> x, undo |-> u]
  OBVIOUS
<1>3. Alters(Req, n) /\ n.op = op /\ n.pc = pc /\ n.site = s /\ n.order = o
  BY <1>1, <1>2 DEF Request, Alters
<1>4. QED
  BY <1>3

LEMMA NoOneBecomes ==
  ASSUME CInv, thread[Req] = Null, UNCHANGED thread
  PROVE  Alters(Req, Null) /\ Becomes(Req, Null)
BY PlacesAre DEF CInv, Typed, MemoryOK, Alters, Becomes

(* A request that has nothing to do with orders.                           *)
LEMMA PlainRequest ==
  ASSUME CInv, OInv, thread[Req] = Null, UNCHANGED <<orders, sweep>>, spent'.left = spent.left,
         \/ UNCHANGED thread
         \/ \E op, pc, s, k, o, x : op # "redeploy" /\ Request(op, pc, s, k, o, x)
  PROVE  OInv'
<1>1. CASE UNCHANGED thread
  BY <1>1, NoOneBecomes, OSame, PlacesAre
<1>2. CASE \E op, pc, s, k, o, x : op # "redeploy" /\ Request(op, pc, s, k, o, x)
  BY <1>2, RequestAlters, OSame, PlacesAre DEF Becomes
<1>3. QED
  BY <1>1, <1>2

LEMMA ConfigureOrders ==
  ASSUME CInv, OInv, NEW op, op # "redeploy", NEW s, NEW mode, NEW p, NEW c, NEW w, Configure(op, s, mode, p, c, w)
  PROVE  OInv'
<1>1. thread[Req] = Null /\ UNCHANGED <<orders, sweep>>
  BY DEF Configure, Serve
<1>2. UNCHANGED thread \/ \E x : Request(op, "call", s, Null, Null, x)
  BY DEF Configure
<1>3. spent'.left = spent.left
  BY SpentFacts DEF CInv, Typed, Calm, Spent, Configure
<1>4. QED
  BY <1>1, <1>2, <1>3, PlainRequest

(* A new order; its job is the only one of its site.                       *)
LEMMA LaunchOrders ==
  ASSUME CInv, OInv, NEW s \in Sites, NEW auto \in BOOLEAN, NEW previous \in Orders \cup {Null},
         NEW forced \in BOOLEAN, Launch(s, auto, previous, forced),
         previous # Null => orders[previous] # Null /\ (Known(previous) => orders[previous].site = s),
         spent'.left = spent.left,
         sweep' # Null => \A o \in DOMAIN sweep'.todo :
           o \in Orders /\ orders[o] # Null /\ (Known(o) => orders[o].site = sweep'.todo[o])
  PROVE  OInv'
<1>1. PICK t : t = NextOrder
  OBVIOUS
<1>2. /\ t \in Orders /\ t \in Threads /\ t # Req /\ Admits(s)
      /\ orders[t] = Null /\ thread[t] = Null
      /\ orders'[t] \in Order /\ orders'[t].site = s /\ orders'[t].status = "pending"
      /\ \A o \in Orders : o # t => orders'[o] = orders[o]
  BY <1>1, LaunchFacts
<1>3. PICK n \in Thread(Sites) : Alters(t, n) /\ n.op \in {"obtain", "forced"} /\ n.pc = "prepare" /\ n.site = s /\ n.order = previous
  BY <1>1, LaunchFacts
<1>4. thread'[t] = n /\ n # Null /\ \A u \in Threads : u # t => thread'[u] = thread[u]
  BY <1>2, <1>3, Altered, ThreadNotNull DEF CInv, Typed
<1>5. orders'[t] \notin {Null, Gone}
  BY <1>2, OrderAssumption
<1>6. previous # Null => previous < t
  BY CertificatesAssumption, <1>2 DEF Orders, CInv, NumbersInv
<1>7. JobSites'
  <2>1. ASSUME NEW o \in Orders, thread'[o] # Null
        PROVE  /\ (orders'[o] \notin {Null, Gone}) => orders'[o].site = thread'[o].site
               /\ thread'[o].order # Null =>
                    /\ thread'[o].order \in Orders /\ thread'[o].order < o /\ orders'[thread'[o].order] # Null
                    /\ (orders'[thread'[o].order] \notin {Null, Gone}) => orders'[thread'[o].order].site = thread'[o].site
    <3>1. CASE o = t
      BY <1>2, <1>3, <1>4, <3>1, <1>6 DEF Known
    <3>2. CASE o # t
      BY <1>2, <1>4, <3>2, <2>1 DEF Threads, OInv, JobSites, Known
    <3>3. QED
      BY <3>1, <3>2
  <2>2. QED
    BY <2>1 DEF JobSites, Known
<1>8. NotYet'
  <2>1. ASSUME NEW o \in Orders, thread'[o] # Null, Known(o)', thread'[o].pc # "complete", CleanRow(o)'
        PROVE  FALSE
    BY <1>2, <2>1, <1>4 DEF CleanRow, Threads, OInv, NotYet, Known
  <2>2. QED
    BY <2>1 DEF NotYet
<1>9. RedeployInv'
  <2>1. SUFFICES ASSUME thread'[Req] # Null, thread'[Req].op = "redeploy"
                 PROVE  /\ orders'[thread'[Req].order] # Null
                        /\ orders'[thread'[Req].order] \notin {Null, Gone} => orders'[thread'[Req].order].site = thread'[Req].site
                        /\ \A o \in Orders : thread'[o] # Null => thread'[o].site # thread'[Req].site
    BY DEF RedeployInv, Known
  <2>2. thread'[Req] = thread[Req]
    BY <1>2, <1>4, PlacesAre
  <2>3. PICK p \in Orders : p = thread[Req].order
    BY <2>1, <2>2, RequestIs DEF Fits
  <2>4. /\ orders[p] # Null /\ (Known(p) => orders[p].site = thread[Req].site)
        /\ \A o \in Orders : thread[o] # Null => thread[o].site # thread[Req].site
    BY <2>1, <2>2, <2>3 DEF OInv, RedeployInv
  <2>5. p # t /\ orders'[p] = orders[p]
    BY <1>2, <2>3, <2>4
  <2>6. s # thread[Req].site
    BY <2>1, <2>2, RequestIs, <1>2 DEF Fits, Busy, Admits
  <2>7. \A o \in Orders : thread'[o] # Null => thread'[o].site # thread[Req].site
    BY <1>3, <1>4, <2>4, <2>6 DEF Threads
  <2>8. QED
    BY <2>2, <2>3, <2>4, <2>5, <2>7 DEF Known
<1>10. SweepInv'
  BY <1>2 DEF Known, SweepInv
<1>11. WorkedOnOrSettled'
  <2>1. ASSUME NEW o \in Orders, o \notin spent'.left, orders'[o] \notin {Null, Gone}, orders'[o].status \in {"pending", "processing"}
        PROVE  thread'[o] # Null
    BY <1>4, <1>2, <2>1 DEF OInv, WorkedOnOrSettled, Known, Threads
  <2>2. QED
    BY <2>1 DEF WorkedOnOrSettled, Known
<1>12. Settled'
  <2>1. ASSUME NEW o \in Orders, thread'[o] # Null, thread'[o].pc \in Late PROVE ~Unsettled(o)'
    BY <1>2, <1>3, <1>4, <2>1 DEF OInv, Settled, Unsettled, Known, Threads, Late
  <2>2. QED
    BY <2>1 DEF Settled
<1>13. QED
  BY <1>7, <1>8, <1>9, <1>10, <1>11, <1>12 DEF OInv

LEMMA ServedKeeps ==
  ASSUME CInv, Served \/ Fault \/ Mishap \/ UNCHANGED spent
  PROVE  spent'.left = spent.left
BY SpentFacts DEF CInv, Typed, Calm

LEMMA SiteRequestOrders ==
  ASSUME CInv, OInv, NEW s \in Sites,
         \/ \E c \in Certs : ManualPEM(s, c)
         \/ \E p \in Paths : ExistingFiles(s, p) \/ EditConfiguration(s, p)
         \/ \E b \in BOOLEAN : Disable(s, b) \/ DeleteSite(s, b)
         \/ \E k \in Entries : DeployFromStore(s, k) \/ ReplaceCertificate(s, k)
         \/ AdoptCertificate(s)
  PROVE  OInv'
<1>1. ASSUME NEW c \in Certs, ManualPEM(s, c) PROVE OInv'
  BY <1>1, ConfigureOrders DEF ManualPEM
<1>2. ASSUME NEW p \in Paths, ExistingFiles(s, p) PROVE OInv'
  BY <1>2, ConfigureOrders DEF ExistingFiles
<1>3. ASSUME NEW b \in BOOLEAN, Disable(s, b) PROVE OInv'
  BY <1>3, DisableFacts, ConfigureOrders DEF CInv
<1>4. ASSUME NEW p \in Paths, EditConfiguration(s, p) PROVE OInv'
  BY <1>4, PlainRequest DEF EditConfiguration, Serve, tables, CInv, Typed, Spent
<1>5. ASSUME NEW b \in BOOLEAN, DeleteSite(s, b) PROVE OInv'
  BY <1>5, PlainRequest, ServedKeeps DEF DeleteSite, Served, Serve, tables
<1>6. ASSUME NEW k \in Entries, DeployFromStore(s, k) PROVE OInv'
  BY <1>6, PlainRequest, ServedKeeps DEF DeployFromStore, Served, Serve
<1>7. ASSUME NEW k \in Entries, ReplaceCertificate(s, k) PROVE OInv'
  BY <1>7, PlainRequest, ServedKeeps DEF ReplaceCertificate, Served, Serve, tables
<1>8. CASE AdoptCertificate(s)
  BY <1>8, PlainRequest, ServedKeeps DEF AdoptCertificate, Served, Serve
<1>9. QED
  BY <1>1, <1>2, <1>3, <1>4, <1>5, <1>6, <1>7, <1>8

LEMMA StoreRequestOrders ==
  ASSUME CInv, OInv, (\E c \in Certs : UploadToStore(c)) \/ (\E k \in Entries : DeleteFromStore(k))
  PROVE  OInv'
<1>1. ASSUME NEW c \in Certs, UploadToStore(c) PROVE OInv'
  BY <1>1, PlainRequest, ServedKeeps DEF UploadToStore, Served, Serve
<1>2. ASSUME NEW k \in Entries, DeleteFromStore(k) PROVE OInv'
  BY <1>2, PlainRequest, ServedKeeps DEF DeleteFromStore, Served, Serve
<1>3. QED
  BY <1>1, <1>2

(* One row of an order becomes r.                                          *)
LEMMA RowChanged ==
  ASSUME CInv, OInv, thread[Req] = Null, UNCHANGED <<thread, sweep>>, spent'.left = spent.left,
         NEW o \in Orders, Known(o), NEW r, orders' = [orders EXCEPT ![o] = r],
         \/ r = Gone
         \/ r \in Order /\ r.site = orders[o].site /\ r.status = orders[o].status /\ r.err = orders[o].err
  PROVE  OInv'
BY OrderAssumption, CertificatesAssumption, NoOneBecomes, OStep, PlacesAre DEF CInv, Typed,
   TablesOK, Steady, Unfinished, Unsettled, Known, CleanRow, Retains, Advances

LEMMA OrderRequestOrders ==
  ASSUME CInv, OInv, NEW o \in Orders,
         ForceObtain(o) \/ RenewOrder(o) \/ DeleteOrder(o) \/ DeployOrder(o) \/ \E b \in BOOLEAN : SetAutoRenew(o, b)
  PROVE  OInv'
<1>1. Known(o) /\ Served /\ thread[Req] = Null /\ spent'.left = spent.left
  BY ServedKeeps DEF ForceObtain, RenewOrder, DeleteOrder, DeployOrder, SetAutoRenew, Served, Serve
<1>2. orders[o] \in Order /\ orders[o].site \in Sites /\ orders[o].auto \in BOOLEAN
  BY <1>1 DEF Known, CInv, Typed, TablesOK, Order
<1>3. sweep # Null => \A p \in DOMAIN sweep.todo : p \in Orders /\ orders[p] # Null /\ (Known(p) => orders[p].site = sweep.todo[p])
  BY SweepFacts DEF OInv, SweepInv, CInv
<1>4. PICK s \in Sites, a \in BOOLEAN : s = orders[o].site /\ a = orders[o].auto
  BY <1>2
<1>5. CASE ForceObtain(o)
  BY <1>4, <1>5, <1>1, <1>3, LaunchOrders DEF ForceObtain
<1>6. CASE RenewOrder(o)
  BY <1>4, <1>6, <1>1, <1>3, LaunchOrders DEF RenewOrder, Known
<1>7. CASE DeleteOrder(o)
  BY <1>1, <1>7, RowChanged DEF DeleteOrder
<1>8. ASSUME NEW b \in BOOLEAN, SetAutoRenew(o, b) PROVE OInv'
  BY <1>2, <1>8, <1>1, RowChanged DEF Order, SetAutoRenew
<1>9. CASE DeployOrder(o)
  BY <1>4, <1>9, RequestAlters, <1>1, OSame, PlacesAre DEF DeployOrder, tables, Admits, Busy, Jobs,
     Becomes
<1>10. QED
  BY <1>5, <1>6, <1>7, <1>8, <1>9

LEMMA RequestsOrders ==
  ASSUME CInv, OInv, Requests
  PROVE  OInv'
<1>1. ASSUME NEW s \in Sites, ApplyCertificate(s) PROVE OInv'
  BY <1>1, SweepFacts, LaunchOrders, ServedKeeps DEF ApplyCertificate, OInv, SweepInv, CInv
<1>2. QED
  BY <1>1, SiteRequestOrders, StoreRequestOrders, OrderRequestOrders DEF Requests

(* A request that ends, or goes on.                                        *)
LEMMA RequestGoesOnOrders ==
  ASSUME CInv, OInv, RequestGoesOn
  PROVE  OInv'
<1>1. spent'.left = spent.left
  BY ServedKeeps, SpentFacts DEF MarkIfSaved, RequestGoesOn, CallOfRequest, Called, FinishUse, FinishPlain, FailConfigure, FailUpload,
     FinishDelete, FinishReplace, FinishDeleteSite, FailDeleteSite, RedeployLocks, FinishRedeploy
<1>2. thread[Req] # Null /\ sweep' = sweep
  BY DEF RequestGoesOn, CallOfRequest, FinishUse, FinishPlain, FailConfigure, FailUpload,
     FinishDelete, FinishReplace, FinishDeleteSite, FailDeleteSite, RedeployLocks, FinishRedeploy, Ending
<1>3. Ended => Alters(Req, Null) /\ Becomes(Req, Null)
  BY DEF Ended, Alters, Becomes
<1>4. CASE CallOfRequest
  BY <1>4, <1>2, CalledFacts, PlacesAre, <1>1, OSame DEF CallOfRequest, tables, CInv, Becomes,
     Same, Alike, Kin
<1>5. CASE FinishUse \/ FinishPlain \/ FailConfigure \/ FailUpload \/ FinishDelete \/ FinishReplace \/ FailDeleteSite
  BY <1>5, <1>1, <1>2, <1>3, OSame, PlacesAre DEF FinishUse, FinishPlain, FailConfigure,
     FailUpload, FinishDelete, FinishReplace, FailDeleteSite, tables
<1>6. CASE FinishDeleteSite
  <2>1. PICK s : s = thread[Req].site
    OBVIOUS
  <2>2. /\ Ended
        /\ orders' = [o \in Orders |-> IF Known(o) /\ orders[o].site = s THEN Gone ELSE orders[o]]
    BY <1>6, <2>1 DEF FinishDeleteSite
  <2>3. \A o \in Orders : orders'[o] = orders[o] \/ (orders'[o] = Gone /\ orders[o] # Null)
    BY <2>2 DEF Known
  <2>4. Gone # Null
    BY CertificatesAssumption
  <2>5. Steady
    BY <2>3, <2>4 DEF Steady, Known
  <2>6. Unfinished
    BY <2>3 DEF Unfinished, Known, CleanRow
  <2>7. Retains(Req) /\ Advances(Req, Null)
    BY <2>3 DEF Unsettled, Known, Retains, Advances
  <2>8. QED
    BY <1>1, <1>2, <1>3, <2>2, <2>5, <2>6, <2>7, OStep, PlacesAre
<1>7. CASE RedeployLocks
  <2>1. orders' = orders /\ thread[Req].op = "redeploy" /\ thread[Req].pc = "admitted"
    BY <1>7 DEF RedeployLocks, Ending
  <2>2. Ended \/ \E pc, s, k, o, x : s = thread[Req].site /\ o = thread[Req].order /\ Request("redeploy", pc, s, k, o, x)
    BY <1>7 DEF RedeployLocks
  <2>3. CASE Ended
    BY <1>1, <1>2, <1>3, <2>1, <2>3, OSame, PlacesAre
  <2>4. CASE \E pc, s, k, o, x : s = thread[Req].site /\ o = thread[Req].order /\ Request("redeploy", pc, s, k, o, x)
    <3>1. PICK n : Alters(Req, n) /\ n.op = "redeploy" /\ n.site = thread[Req].site /\ n.order = thread[Req].order
      BY <2>4, RequestAlters
    <3>2. Becomes(Req, n)
      BY <1>2, <2>1, <3>1 DEF Becomes, Kin
    <3>3. QED
      BY <1>1, <1>2, <2>1, <3>1, <3>2, OSame, PlacesAre
  <2>5. QED
    BY <2>2, <2>3, <2>4
<1>8. CASE FinishRedeploy
  <2>1. thread[Req].op = "redeploy" /\ Ended /\ MarkIfSaved(thread[Req].order, "success", "")
    BY <1>8 DEF FinishRedeploy, Ending
  <2>2. PICK p \in Orders : p = thread[Req].order
    BY <1>2, <2>1, RequestIs DEF Fits
  <2>3. /\ Known(p) => orders[p].site = thread[Req].site
        /\ \A o \in Orders : thread[o] # Null => thread[o].site # thread[Req].site
    BY <1>2, <2>1, <2>2 DEF OInv, RedeployInv
  <2>4. Known(p) => thread[p] = Null
    BY <2>3 DEF OInv, JobSites
  <2>5. /\ \A o \in Orders : o # p => orders'[o] = orders[o]
        /\ \A o \in Orders : (orders'[o] = Gone <=> orders[o] = Gone) /\ (orders'[o] = Null <=> orders[o] = Null)
        /\ ~Known(p) => orders'[p] = orders[p]
        /\ Known(p) => orders'[p] = orders[p] \/ (orders'[p].status = "success" /\ orders'[p].site = orders[p].site)
    <3>1. CASE orders' = orders
      BY <3>1
    <3>2. CASE orders' = Mark(orders, p, "success", "")
      BY <3>2, MarkFacts DEF CInv, Typed, TablesOK, SameNumbers
    <3>3. QED
      BY <2>1, <2>2, <3>1, <3>2 DEF MarkIfSaved
  <2>6. \A o \in Orders : thread'[o] = thread[o]
    BY <1>3, <2>1, Altered, PlacesAre DEF CInv, Typed, Threads
  <2>7. Steady /\ Unfinished /\ Retains(Req) /\ Advances(Req, Null)
    BY <2>4, <2>5, <2>6 DEF Steady, Unfinished, Unsettled, Known, CleanRow, Retains, Advances
  <2>8. QED
    BY <1>1, <1>2, <1>3, <2>1, <2>7, OStep, PlacesAre
<1>9. QED
  BY <1>4, <1>5, <1>6, <1>7, <1>8 DEF RequestGoesOn

(* The jobs' steps.                                                        *)
LEMMA JobMoves ==
  ASSUME NEW o \in Orders, thread[o] # Null, NEW n \in Thread(Sites), Alike(n, thread[o]),
         n.pc = "complete" \/ thread[o].pc # "complete"
  PROVE  n # Null /\ Becomes(o, n)
BY ThreadNotNull DEF Becomes, Kin, Alike

LEMMA JobStops ==
  ASSUME NEW o \in Orders, JobEnded(o)
  PROVE  Alters(o, Null) /\ Becomes(o, Null)
BY DEF JobEnded, Alters, Becomes

LEMMA JobPrepareOrders ==
  ASSUME CInv, OInv, NEW o \in Orders, JobPrepare(o)
  PROVE  OInv'
<1>1. PICK s \in Sites : s = thread[o].site
  BY JobIs DEF JobPrepare, At
<1>2. /\ thread[o] # Null /\ thread[o].pc = "prepare" /\ sweep' = sweep
      /\ UNCHANGED spent \/ Fault
      /\ orders' \in {Mark(orders, o, "processing", ""), orders}
      /\ \/ GoOn(o, "failing")
         \/ GoOn(o, "ask")
         \/ thread' = [thread EXCEPT ![o].pc = "challenge", ![o].tx = [NoTx EXCEPT !.conf = Put(s, conf[s])]]
  BY <1>1 DEF JobPrepare, At, GoOn
<1>3. \E n \in Thread(Sites) : Alters(o, n) /\ Alike(n, thread[o]) /\ n.pc \notin Late
  <2>1. CASE GoOn(o, "failing") \/ GoOn(o, "ask")
    BY <1>2, <2>1, MovedQuietly DEF Late
  <2>2. CASE thread' = [thread EXCEPT ![o].pc = "challenge", ![o].tx = [NoTx EXCEPT !.conf = Put(s, conf[s])]]
    <3>1. PICK c \in Named : c = conf[s]
      BY DEF CInv, Typed, DiskOK
    <3>2. Put(s, c) \in Partly(Sites, Named)
      BY PutConf
    <3>3. PICK y : y = Put(s, c)
      OBVIOUS
    <3>4. PICK x : x = [NoTx EXCEPT !.conf = y]
      OBVIOUS
    <3>5. x \in Tx(Sites)
      BY <3>2, <3>3, <3>4, NoTxForm DEF Tx
    <3>6. PICK pc \in ReqPlaces \cup JobPlaces : pc = "challenge"
      BY JobPlacesAre
    <3>7. GoOnWith(o, pc, x)
      BY <2>2, <3>1, <3>3, <3>4, <3>6 DEF GoOnWith
    <3>8. MemoryOK /\ o \in Threads /\ thread[o] # Null
      BY <1>2 DEF CInv, Typed, Threads
    <3>9. QED
      BY <3>5, <3>6, <3>7, <3>8, MovedWith DEF Late
  <2>3. QED
    BY <1>2, <2>1, <2>2
<1>4. PICK n \in Thread(Sites) : Alters(o, n) /\ Alike(n, thread[o]) /\ n.pc \notin Late
  BY <1>3
<1>5. n # Null /\ Becomes(o, n) /\ (n.pc = "complete" => n.pc \in Late)
  BY <1>2, <1>4, JobMoves DEF Late
<1>6. spent'.left = spent.left
  BY <1>2, ServedKeeps
<1>7. QED
  BY <1>2, <1>4, <1>5, <1>6, OSaved

LEMMA JobChallengeOrders ==
  ASSUME CInv, OInv, NEW o \in Orders, JobChallenge(o)
  PROVE  OInv'
<1>1. /\ thread[o] # Null /\ thread[o].pc = "challenge" /\ orders' = orders /\ sweep' = sweep
      /\ GoOn(o, "ask") \/ GoOn(o, "failing")
  BY DEF JobChallenge, At, tables
<1>2. spent'.left = spent.left
  BY StaleSpent, ServedKeeps DEF CInv, Typed, Spent, JobChallenge
<1>3. PICK n \in Thread(Sites) : Alters(o, n) /\ Alike(n, thread[o]) /\ n.pc \notin Late
  BY <1>1, MovedQuietly DEF Late
<1>4. n # Null /\ Becomes(o, n) /\ o \in Threads
  BY <1>1, <1>3, JobMoves DEF Threads
<1>5. QED
  BY <1>1, <1>2, <1>3, <1>4, OSame

LEMMA JobAskOrders ==
  ASSUME CInv, OInv, NEW o \in Orders, JobAsk(o)
  PROVE  OInv'
<1>1. /\ thread[o] # Null /\ thread[o].pc = "ask" /\ UNCHANGED <<sweep, spent>>
      /\ \/ /\ thread' = [thread EXCEPT ![o].pc = "save", ![o].tx = [NoTx EXCEPT !.files = Put(Issued(o), o)]]
            /\ UNCHANGED orders
         \/ GoOn(o, "failing") /\ UNCHANGED orders
         \/ JobEnded(o) /\ orders' = Mark(orders, o, "pre_validation_failed", "error")
  BY DEF JobAsk, Unprepared, At, PreValidationFailed
<1>2. o \in Threads
  BY DEF Threads
<1>3. CASE GoOn(o, "failing") /\ UNCHANGED orders
  <2>1. PICK n \in Thread(Sites) : Alters(o, n) /\ Alike(n, thread[o]) /\ n.pc \notin Late
    BY <1>1, <1>3, MovedQuietly DEF Late
  <2>2. QED
    BY <1>1, <1>2, <1>3, <2>1, JobMoves, OSame
<1>4. CASE JobEnded(o) /\ orders' = Mark(orders, o, "pre_validation_failed", "error")
  BY <1>1, <1>4, JobStops, OMarked
<1>5. CASE /\ thread' = [thread EXCEPT ![o].pc = "save", ![o].tx = [NoTx EXCEPT !.files = Put(Issued(o), o)]]
           /\ UNCHANGED orders
  <2>1. PICK p \in Paths : p = Issued(o)
    BY PathKinds
  <2>2. o \in Bytes
    BY DEF Bytes
  <2>3. Put(p, o) \in Partly(Paths, Bytes \cup {Absent})
    BY <2>2, PutIsPart
  <2>4. PICK y : y = Put(p, o)
    OBVIOUS
  <2>5. PICK x : x = [NoTx EXCEPT !.files = y]
    OBVIOUS
  <2>6. x \in Tx(Sites)
    BY <2>3, <2>4, <2>5, NoTxForm DEF Tx
  <2>7. PICK pc \in ReqPlaces \cup JobPlaces : pc = "save"
    BY JobPlacesAre
  <2>8. GoOnWith(o, pc, x)
    BY <1>5, <2>1, <2>4, <2>5, <2>7 DEF GoOnWith
  <2>9. MemoryOK /\ o \in Threads /\ thread[o] # Null
    BY <1>1, <1>2 DEF CInv, Typed
  <2>10. PICK n \in Thread(Sites) : Alters(o, n) /\ Alike(n, thread[o]) /\ n.pc \notin Late
    BY <2>6, <2>7, <2>8, <2>9, MovedWith DEF Late
  <2>11. QED
    BY <1>1, <1>2, <1>5, <2>10, JobMoves, OSame
<1>6. QED
  BY <1>1, <1>3, <1>4, <1>5

LEMMA JobCallOrders ==
  ASSUME CInv, OInv, NEW o \in Orders, JobSave(o) \/ JobInstall(o)
  PROVE  OInv'
<1>1. /\ thread[o] # Null /\ o \in Threads /\ orders' = orders /\ sweep' = sweep /\ Typed
      /\ \/ thread[o].pc = "save" /\ Called(o, "record", "failing")
         \/ thread[o].pc = "install" /\ Called(o, "settle", "rollback")
  BY DEF JobSave, JobInstall, At, tables, Threads, CInv
<1>2. PICK a \in ReqPlaces \cup JobPlaces, b \in ReqPlaces \cup JobPlaces :
        /\ Called(o, a, b)
        /\ \/ thread[o].pc = "save" /\ a = "record" /\ b = "failing"
           \/ thread[o].pc = "install"
  BY <1>1, JobPlacesAre
<1>3. PICK n \in Thread(Sites) : /\ Alters(o, n) /\ Same(n, thread[o]) /\ n.pc \in {a, b}
                                 /\ spent'.left = spent.left
  BY <1>1, <1>2, CalledFacts
<1>4. n.pc \in Late => ~Unsettled(o)
  BY <1>1, <1>2, <1>3 DEF OInv, Settled, Late
<1>5. n # Null /\ Becomes(o, n)
  BY <1>1, <1>3, JobMoves DEF Same
<1>6. QED
  BY <1>1, <1>3, <1>4, <1>5, OSame

LEMMA JobEndsOrders ==
  ASSUME CInv, OInv, NEW o \in Orders, JobFail(o)
  PROVE  OInv'
<1>1. /\ thread[o] # Null /\ JobEnded(o) /\ sweep' = sweep
      /\ (orders' = Mark(orders, o, "failed", "error") /\ UNCHANGED spent) \/ Unsaved(o)
  BY DEF JobFail, At
<1>2. Alters(o, Null) /\ Becomes(o, Null) /\ o \in Threads
  BY <1>1, JobStops DEF Threads
<1>3. CASE orders' = Mark(orders, o, "failed", "error") /\ UNCHANGED spent
  BY <1>1, <1>2, <1>3, OMarked
<1>4. CASE Unsaved(o)
  <2>1. orders' = orders /\ spent'.left = spent.left \cup {o}
    BY <1>4, UnsavedFacts DEF Unsaved
  <2>2. Steady /\ Unfinished /\ Retains(o) /\ Advances(o, Null)
    BY <2>1 DEF Steady, Unfinished, Known, CleanRow, Unsettled, Retains, Advances
  <2>3. QED
    BY <1>1, <1>2, <2>1, <2>2, OStep
<1>5. QED
  BY <1>1, <1>3, <1>4

LEMMA JobRollbackOrders ==
  ASSUME CInv, OInv, NEW o \in Orders, JobRollback(o)
  PROVE  OInv'
<1>1. /\ thread[o] # Null /\ thread[o].pc = "rollback" /\ JobEnded(o) /\ sweep' = sweep
      /\ UNCHANGED spent \/ Fault \/ Mishap
      /\ orders' \in {Mark(orders, o, "success", "deployment_failed"), orders}
  BY DEF JobRollback, MarkIfSaved, At
<1>2. Alters(o, Null) /\ Becomes(o, Null) /\ spent'.left = spent.left
  BY <1>1, JobStops, ServedKeeps
<1>3. ~Unsettled(o)
  BY <1>1 DEF OInv, Settled, Late
<1>4. QED
  BY <1>1, <1>2, <1>3, OSaved

LEMMA JobRecordOrders ==
  ASSUME CInv, OInv, NEW o \in Orders, JobRecord(o)
  PROVE  OInv'
<1>1. thread[o] # Null /\ thread[o].pc = "record" /\ sweep' = sweep
  BY DEF JobRecord, At
<1>2. o \in Threads /\ thread[o] \in Thread(Sites) /\ spent'.left = spent.left
  BY <1>1, JobIs, ServedKeeps DEF JobRecord
<1>3. PICK k : k = NextEntry
  OBVIOUS
<1>4. CASE /\ k \in Entries
           /\ orders' = IF Known(o) THEN [Mark(orders, o, "success", "deployment_pending") EXCEPT ![o].entry = k]
                        ELSE orders
           /\ thread' = [thread EXCEPT ![o].pc = "deploy", ![o].entry = k]
  <2>1. PICK n : n = [[thread[o] EXCEPT !.pc = "deploy"] EXCEPT !.entry = k]
    OBVIOUS
  <2>2. n \in Thread(Sites) /\ Alike(n, thread[o])
    BY <1>2, <1>4, <2>1, JobPlacesAre DEF Thread, Alike
  <2>3. Alters(o, n) /\ n # Null /\ Becomes(o, n)
    BY <1>1, <1>2, <1>4, <2>1, <2>2, JobMoves DEF Alters, CInv, Typed, MemoryOK
  <2>4. CASE ~Known(o)
    BY <1>1, <1>2, <1>4, <2>3, <2>4, OSame DEF Unsettled
  <2>5. CASE Known(o)
    <3>1. orders[o] \in Order
      BY <2>5 DEF Known, CInv, Typed, TablesOK
    <3>2. PICK r : r = [[[orders[o] EXCEPT !.status = "success"] EXCEPT !.err = "deployment_pending"] EXCEPT !.entry = k]
      OBVIOUS
    <3>3. r.status = "success" /\ r.err = "deployment_pending" /\ r.site = orders[o].site
      BY <3>1, <3>2 DEF Order
    <3>4. orders' = [orders EXCEPT ![o] = r]
      BY <1>4, <2>5, <3>2 DEF Mark, CInv, Typed, TablesOK
    <3>5. orders'[o] = r /\ \A p \in Orders : p # o => orders'[p] = orders[p]
      BY <3>4 DEF CInv, Typed, TablesOK
    <3>6. r # Null
      BY <1>4, <3>1, <3>2, OrderAssumption DEF Order
    <3>7. Steady /\ Unfinished /\ Retains(o) /\ Advances(o, n)
      BY <2>5, <3>3, <3>5, <3>6 DEF Steady, Unfinished, Unsettled, Known, CleanRow, Retains, Advances
    <3>8. QED
      BY <1>1, <1>2, <2>3, <3>7, OStep
  <2>6. QED
    BY <2>4, <2>5
<1>5. CASE GoOn(o, "failing") /\ UNCHANGED orders
  <2>1. PICK n \in Thread(Sites) : Alters(o, n) /\ Alike(n, thread[o]) /\ n.pc \notin Late
    BY <1>1, <1>5, MovedQuietly DEF Late
  <2>2. QED
    BY <1>1, <1>2, <1>5, <2>1, JobMoves, OSame
<1>6. QED
  BY <1>3, <1>4, <1>5 DEF JobRecord, NewEntry

LEMMA JobDeployOrders ==
  ASSUME CInv, OInv, NEW o \in Orders, JobDeploy(o)
  PROVE  OInv'
<1>1. PICK s, k : s = thread[o].site /\ k = thread[o].entry
  OBVIOUS
<1>2. /\ thread[o] # Null /\ thread[o].pc = "deploy" /\ sweep' = sweep
      /\ UNCHANGED spent \/ Fault
      /\ \/ /\ Deployable(s, k) /\ Deploying(s, k) /\ UNCHANGED orders
            /\ thread' = [thread EXCEPT ![o].pc = "install", ![o].tx = Deployment(s, k), ![o].undo = ssl[s]]
         \/ orders' \in {Mark(orders, o, "success", "deployment_failed"), orders} /\ JobEnded(o)
  BY <1>1 DEF JobDeploy, MarkIfSaved, At
<1>3. /\ o \in Threads /\ thread[o] \in Thread(Sites) /\ ~Unsettled(o)
      /\ spent'.left = spent.left
  BY <1>2, JobIs, ServedKeeps DEF OInv, Settled, Late
<1>4. CASE orders' \in {Mark(orders, o, "success", "deployment_failed"), orders} /\ JobEnded(o)
  BY <1>2, <1>3, <1>4, JobStops, OSaved
<1>5. CASE /\ Deployable(s, k) /\ Deploying(s, k) /\ UNCHANGED orders
           /\ thread' = [thread EXCEPT ![o].pc = "install", ![o].tx = Deployment(s, k), ![o].undo = ssl[s]]
  <2>1. /\ s \in Sites /\ k \in Entries /\ entries[k] # Null /\ conf[s] # Absent
    BY <1>5, DeployingFacts DEF CInv
  <2>2. PICK x \in Tx(Sites) : x = Deployment(s, k)
    BY <2>1, DeployFacts DEF CInv
  <2>3. PICK n : n = [[[thread[o] EXCEPT !.pc = "install"] EXCEPT !.tx = x] EXCEPT !.undo = ssl[s]]
    OBVIOUS
  <2>4. PICK u \in SslRow \cup {Null} : u = ssl[s]
    BY <2>1 DEF CInv, Typed, TablesOK
  <2>5. n \in Thread(Sites) /\ n.op = thread[o].op /\ n.site = thread[o].site /\ n.order = thread[o].order
    BY <1>3, <2>3, <2>4, JobPlacesAre DEF Thread
  <2>6. Alters(o, n)
    BY <1>3, <1>5, <2>2, <2>3 DEF Alters, CInv, Typed, MemoryOK
  <2>7. n # Null /\ Becomes(o, n)
    BY <1>2, <2>5, ThreadNotNull DEF Becomes, Kin
  <2>8. QED
    BY <1>2, <1>3, <1>5, <2>6, <2>7, OSame
<1>6. QED
  BY <1>2, <1>4, <1>5

LEMMA JobSettleOrders ==
  ASSUME CInv, OInv, NEW o \in Orders, JobSettle(o)
  PROVE  OInv'
<1>1. /\ thread[o] # Null /\ thread[o].pc = "settle" /\ sweep' = sweep
      /\ \/ /\ orders' = Mark(orders, o, "success", "") /\ UNCHANGED spent
            /\ JobEnded(o) \/ GoOn(o, "complete")
         \/ Fault /\ JobEnded(o) /\ orders' \in {Mark(orders, o, "failed", "error"), orders}
  BY DEF JobSettle, At
<1>2. spent'.left = spent.left /\ o \in Threads /\ MemoryOK /\ ~Unsettled(o)
  BY <1>1, ServedKeeps DEF Threads, CInv, Typed, OInv, Settled, Late
<1>3. CASE JobEnded(o)
  BY <1>3, JobStops, <1>1, <1>2, OSaved
<1>4. CASE GoOn(o, "complete") /\ orders' = Mark(orders, o, "success", "")
  <2>1. PICK pc \in ReqPlaces \cup JobPlaces : pc = "complete"
    BY JobPlacesAre
  <2>2. PICK n \in Thread(Sites) : Alters(o, n) /\ n.pc = pc /\ Same(n, thread[o])
    BY <1>1, <1>2, <1>4, <2>1, Moved DEF GoOn
  <2>3. n # Null /\ Becomes(o, n) /\ n.pc = "complete"
    BY <1>1, <2>1, <2>2, JobMoves DEF Same
  <2>4. QED
    BY <1>1, <1>2, <1>4, <2>2, <2>3, OMarked
<1>5. QED
  BY <1>1, <1>3, <1>4

LEMMA JobCompleteOrders ==
  ASSUME CInv, OInv, NEW o \in Orders, JobComplete(o)
  PROVE  OInv'
<1>1. PICK old : old = thread[o].order
  OBVIOUS
<1>2. /\ thread[o] # Null /\ thread[o].pc = "complete" /\ JobEnded(o) /\ sweep' = sweep
      /\ UNCHANGED spent \/ Fault
      /\ \/ Known(old) /\ Known(o) /\ CleanRow(o) /\ orders' = Retire(orders, old, o)
         \/ orders' \in {Mark(orders, o, "success", "renewal_finalize_failed"), orders}
  BY <1>1 DEF JobComplete, MarkIfSaved, At, CleanRow
<1>3. /\ Alters(o, Null) /\ Becomes(o, Null) /\ o \in Threads /\ ~Unsettled(o)
      /\ spent'.left = spent.left
  BY <1>2, JobStops, ServedKeeps DEF Threads, OInv, Settled, Late
<1>4. CASE orders' \in {Mark(orders, o, "success", "renewal_finalize_failed"), orders}
  BY <1>2, <1>3, <1>4, OSaved
<1>5. CASE Known(old) /\ Known(o) /\ CleanRow(o) /\ orders' = Retire(orders, old, o)
  <2>1. PICK r \in Thread(Sites) : r = thread[o] /\ Writes(o, r)
    BY <1>2, JobIs DEF CInv, ThreadsInv
  <2>2. old \in Orders
    BY <1>1, <1>2, <2>1 DEF Writes
  <2>3. /\ \A p \in Orders : p \notin {old, o} => orders'[p] = orders[p]
        /\ \A p \in Orders : Known(p)' <=> Known(p)
        /\ \A p \in {old, o} : /\ orders'[p].site = orders[p].site /\ orders'[p].status = orders[p].status
                               /\ orders'[p].err = orders[p].err
        /\ SameNumbers
    BY <1>5, <2>2, RetireFacts DEF CInv, Typed, TablesOK
  <2>4. Steady /\ Unfinished /\ Retains(o) /\ Advances(o, Null)
    BY <2>3 DEF Steady, Unfinished, Unsettled, CleanRow, SameNumbers, Retains, Advances
  <2>5. ~Unsettled(o)'
    BY <1>5, <2>3 DEF Unsettled, CleanRow
  <2>6. QED
    BY <1>2, <1>3, <2>4, <2>5, OStep
<1>6. QED
  BY <1>2, <1>4, <1>5

LEMMA JobOrders ==
  ASSUME CInv, OInv, NEW o \in Orders, JobGoesOn(o)
  PROVE  OInv'
BY JobPrepareOrders, JobChallengeOrders, JobAskOrders, JobCallOrders, JobEndsOrders, JobRecordOrders,
   JobDeployOrders, JobRollbackOrders, JobSettleOrders, JobCompleteOrders DEF JobGoesOn

(* The scheduled renewal.                                                  *)
LEMMA SweepOrders ==
  ASSUME CInv, OInv, SweepSteps
  PROVE  OInv'
<1>1. ASSUME UNCHANGED <<orders, thread>>, spent'.left = spent.left,
             sweep' # Null => \A o \in DOMAIN sweep'.todo :
               orders[o] # Null /\ (Known(o) => orders[o].site = sweep'.todo[o])
      PROVE  OInv'
  BY <1>1 DEF OInv, JobSites, NotYet, Settled, Unsettled, RedeployInv, WorkedOnOrSettled, CleanRow, Known, SweepInv
<1>2. sweep # Null => \A o \in DOMAIN sweep.todo :
        o \in Orders /\ orders[o] # Null /\ (Known(o) => orders[o].site = sweep.todo[o])
  BY SweepFacts DEF OInv, SweepInv, CInv
<1>3. CASE RunScheduledRenewal
  BY <1>3, DueFacts, <1>1 DEF RunScheduledRenewal, tables, CInv, Typed, Spent, Known
<1>4. CASE SweepGoesOn
  BY <1>4, SweepFacts, <1>1, <1>2 DEF SweepGoesOn, tables, CInv, Sweep
<1>5. ASSUME NEW o \in Orders, RenewOrderForScheduledTask(o) PROVE OInv'
  <2>1. sweep # Null /\ o \in DOMAIN sweep.todo /\ spent' = spent
    BY <1>5 DEF RenewOrderForScheduledTask
  <2>2. PICK f \in Partly(Orders, Sites), s \in Sites : f = Others(o) /\ s = sweep.todo[o]
    BY <2>1, SweepFacts DEF CInv
  <2>3. \A p \in DOMAIN f : p \in Orders /\ orders[p] # Null /\ (Known(p) => orders[p].site = f[p])
    BY <1>2, <2>1, <2>2, SweepFacts DEF CInv
  <2>4. CASE Launch(s, TRUE, o, FALSE) /\ sweep' = [todo |-> f, waiting |-> NextOrder]
    BY <2>4, <1>2, <2>1, <2>2, <2>3, LaunchOrders
  <2>5. CASE sweep' = [sweep EXCEPT !.todo = f] /\ UNCHANGED <<orders, thread>>
    BY <2>1, <2>5, SweepFacts, <1>1, <2>3 DEF CInv, Sweep
  <2>6. QED
    BY <1>5, <2>2, <2>4, <2>5 DEF RenewOrderForScheduledTask
<1>6. QED
  BY <1>3, <1>4, <1>5 DEF SweepSteps

LEMMA CrashOrders ==
  ASSUME CInv, OInv, Crash
  PROVE  OInv'
<1>1. /\ thread' = [t \in Threads |-> Null] /\ sweep' = Null /\ orders' = orders
      /\ spent'.left = spent.left \cup Jobs
  BY DEF Crash, CInv, Typed, Spent, tables
<1>2. \A t \in Threads : thread'[t] = Null
  BY <1>1
<1>3. \A o \in Orders : thread'[o] = Null
  BY <1>2 DEF Threads
<1>4. JobSites' /\ NotYet' /\ Settled' /\ RedeployInv' /\ SweepInv'
  BY <1>1, <1>2, <1>3, PlacesAre DEF JobSites, NotYet, Settled, RedeployInv, SweepInv
<1>5. WorkedOnOrSettled'
  BY <1>1 DEF OInv, WorkedOnOrSettled, Jobs, Known
<1>6. QED
  BY <1>4, <1>5 DEF OInv

LEMMA OrdersAtFirst ==
  ASSUME Init
  PROVE  OInv
<1>1. (\A t \in Threads : thread[t] = Null) /\ sweep = Null /\ \A o \in Orders : orders[o] = Null
  BY DEF Init
<1>2. \A o \in Orders : thread[o] = Null
  BY <1>1 DEF Threads
<1>3. QED
  BY <1>1, <1>2, PlacesAre DEF OInv, JobSites, NotYet, Settled, RedeployInv, SweepInv, WorkedOnOrSettled, Known

(* The jobs and the orders, in every state.                                *)
THEOREM OInvariant == Spec => [](CInv /\ OInv)
<1>1. Init => OInv
  BY OrdersAtFirst
<1>2. CInv /\ OInv /\ [Next]_vars => OInv'
  <2>1. ASSUME CInv, OInv, UNCHANGED vars PROVE OInv'
    BY <2>1 DEF vars, tables, OInv, JobSites, NotYet, Settled, Unsettled, RedeployInv, SweepInv, WorkedOnOrSettled, CleanRow, Known
  <2>2. QED
    BY <2>1, RequestsOrders, RequestGoesOnOrders, JobOrders, SweepOrders, CrashOrders DEF Next
<1>3. QED
  BY <1>1, <1>2, CInvariant, PTL DEF Spec

(* An order that says it is worked on has its job, unless the panel was    *)
(* stopped while that ran or the database refused to save its failure:     *)
(* whatever way a job ends, it settles its order first.                    *)
THEOREM OrdersAreWorkedOnOrSettled == Spec => []WorkedOnOrSettled
<1>1. OInv => WorkedOnOrSettled
  BY DEF OInv
<1>2. QED
  BY <1>1, OInvariant, PTL

-----------------------------------------------------------------------------
(* Automatic renewal survives.                                             *)

LEMMA TheNewest ==
  ASSUME NEW C \in SUBSET Orders, C # {}, NEW m, m = (CHOOSE o \in C : \A p \in C : p <= o)
  PROVE  m \in C /\ \A p \in C : p <= m
BY CertificatesAssumption, Latest DEF Orders

LEMMA CleanIs ==
  ASSUME NEW s
  PROVE  /\ Clean(s) \in SUBSET Orders
         /\ \A p \in Orders : p \in Clean(s) <=> Known(p) /\ orders[p].site = s /\ CleanRow(p)
         /\ Clean(s)' \in SUBSET Orders
         /\ \A p \in Orders : p \in Clean(s)' <=> Known(p)' /\ orders'[p].site = s /\ CleanRow(p)'
BY DEF Clean, CleanRow, Known

(* Done orders stay, new ones are renewed, and the newest stays renewed.   *)
LEMMA StaysRenewable ==
  ASSUME NEW s, Renewable(s),
         \A p \in Clean(s) : /\ p \in Clean(s)'
                             /\ orders'[p].auto \/ ~orders[p].auto \/ \E q \in Clean(s) : ~(q <= p),
         \A p \in Clean(s)' : p \in Clean(s) \/ orders'[p].auto
  PROVE  Renewable(s)'
<1>1. PICK C, D : C = Clean(s) /\ D = Clean(s)'
  OBVIOUS
<1>2. PICK m, n : m = (CHOOSE o \in C : \A p \in C : p <= o) /\ n = (CHOOSE o \in D : \A p \in D : p <= o)
  OBVIOUS
<1>3. C \in SUBSET Orders /\ D \in SUBSET Orders /\ C # {} /\ D # {}
  BY <1>1, CleanIs DEF Renewable
<1>4. m \in C /\ (\A p \in C : p <= m) /\ n \in D /\ (\A p \in D : p <= n)
  BY <1>2, <1>3, TheNewest
<1>5. orders[m].auto
  BY <1>1, <1>2 DEF Renewable, Newest
<1>6. orders'[n].auto
  <2>1. CASE n \in C
    BY <1>1, <1>4, <2>1, <1>3, <1>5 DEF Orders
  <2>2. QED
    BY <1>1, <1>4, <2>1
<1>7. QED
  BY <1>1, <1>2, <1>3, <1>6 DEF Renewable, Newest

(* The rows of one site stay, but for one that is not done.                *)
LEMMA OthersStay ==
  ASSUME NEW s, Renewable(s), NEW o \in Orders, \A p \in Orders : p # o /\ Known(p) /\ orders[p].site = s => orders'[p] = orders[p],
         \A p \in Orders : p # o /\ Known(p)' /\ orders'[p].site = s => orders'[p] = orders[p],
         o \in Clean(s) => orders'[o] = orders[o],
         o \in Clean(s)' => o \in Clean(s) \/ orders'[o].auto
  PROVE  Renewable(s)'
<1>0. /\ \A p \in Orders : p \in Clean(s) <=> orders[p] \notin {Null, Gone} /\ orders[p].site = s /\ CleanRow(p)
      /\ \A p \in Orders : p \in Clean(s)' <=>
           orders'[p] \notin {Null, Gone} /\ orders'[p].site = s /\ orders'[p].status = "success" /\ orders'[p].err = ""
      /\ Clean(s) \subseteq Orders /\ Clean(s)' \subseteq Orders
  BY DEF Clean, CleanRow, Known
<1>1. ASSUME NEW p \in Clean(s)
      PROVE  p \in Clean(s)' /\ (orders'[p].auto \/ ~orders[p].auto \/ \E q \in Clean(s) : ~(q <= p))
  <2>1. p \in Orders /\ orders[p] \notin {Null, Gone} /\ orders[p].site = s /\ CleanRow(p)
    BY <1>0
  <2>2. orders'[p] = orders[p]
    BY <2>1 DEF Known
  <2>3. p \in Clean(s)'
    BY <1>0, <2>1, <2>2 DEF CleanRow
  <2>4. QED
    BY <2>2, <2>3
<1>2. ASSUME NEW p \in Clean(s)' PROVE p \in Clean(s) \/ orders'[p].auto
  <2>1. p \in Orders /\ orders'[p] \notin {Null, Gone} /\ orders'[p].site = s /\ orders'[p].status = "success" /\ orders'[p].err = ""
    BY <1>0
  <2>2. CASE p # o
    BY <2>1, <2>2, <1>0 DEF Known, CleanRow
  <2>3. QED
    BY <2>2
<1>3. QED
  BY <1>1, <1>2, StaysRenewable

(* What may stop a renewal.                                                *)
Interrupted ==
  \/ spent'.requests > spent.requests
  \/ thread[Req] # Null /\ thread[Req].op = "redeploy"
  \/ \E o \in Jobs : ~Known(o) \/ ~orders[o].auto
       \/ (thread[o].order # Null /\ (~Known(thread[o].order) \/ ~orders[thread[o].order].auto))
       \/ (thread[o].pc = "complete" /\ Known(o)' /\ orders'[o].err = "renewal_finalize_failed")

LEMMA RequestsCount ==
  ASSUME CInv, Requests
  PROVE  spent'.requests > spent.requests
<1>1. spent.requests \in Nat
  BY DEF CInv, Typed, Spent
<1>2. \/ Served
      \/ spent' = [spent EXCEPT !.requests = @ + 1, !.faults = @ + 1, !.mishap = TRUE]
      \/ \E s \in Sites : spent' = [spent EXCEPT !.requests = @ + 1, !.edited = @ \cup {s}]
  BY DEF Requests, ManualPEM, ExistingFiles, Disable, Configure, EditConfiguration, DeleteSite, DeployFromStore,
     ReplaceCertificate, AdoptCertificate, ApplyCertificate, UploadToStore, DeleteFromStore, ForceObtain,
     RenewOrder, DeleteOrder, DeployOrder, SetAutoRenew
<1>3. Served => spent'.requests = spent.requests + 1
  BY SpentFacts DEF CInv, Typed
<1>4. spent'.requests = spent.requests + 1
  BY <1>2, <1>3 DEF CInv, Typed, Spent
<1>5. QED
  BY <1>1, <1>4

LEMMA SameOrdersSurvive ==
  ASSUME NEW s, Renewable(s), orders' = orders
  PROVE  Renewable(s)'
BY DEF Renewable, Newest, Clean, Known

LEMMA RequestSurvives ==
  ASSUME CInv, RequestGoesOn, ~Interrupted, NEW s \in live', Renewable(s)
  PROVE  Renewable(s)'
<1>1. CASE FinishDeleteSite
  <2>1. PICK gone : gone = thread[Req].site
    OBVIOUS
  <2>2. live' = live \ {gone} /\ orders' = [o \in Orders |-> IF Known(o) /\ orders[o].site = gone THEN Gone ELSE orders[o]]
    BY <1>1, <2>1 DEF FinishDeleteSite
  <2>3. s # gone
    BY <2>2
  <2>4. PICK o \in Orders : o \in Clean(s)
    BY CleanIs DEF Renewable
  <2>5. \A p \in Orders : Known(p) /\ orders[p].site = s => orders'[p] = orders[p]
    BY <2>2, <2>3
  <2>6. \A p \in Orders : Known(p)' => orders'[p] = orders[p]
    BY <2>2, CertificatesAssumption DEF Known
  <2>7. o \in Orders /\ Known(o) /\ orders[o].site = s
    BY <2>4 DEF Clean
  <2>8. QED
    BY <2>4, <2>5, <2>6, <2>7, OthersStay
<1>2. CASE FinishRedeploy \/ RedeployLocks
  BY <1>2 DEF FinishRedeploy, RedeployLocks, Ending, Interrupted
<1>3. CASE orders' = orders
  BY <1>3, SameOrdersSurvive
<1>4. QED
  BY <1>1, <1>2, <1>3 DEF RequestGoesOn, CallOfRequest, FinishUse, FinishPlain, FailConfigure, FailUpload,
     FinishDelete, FinishReplace, FailDeleteSite, tables

(* A job marks its order.                                                  *)
LEMMA MarkSurvives ==
  ASSUME CInv, NEW o \in Orders, orders[o] # Null,
         NEW status \in {"pending", "processing", "failed", "pre_validation_failed", "success"},
         NEW err \in {"", "error", "deployment_pending", "deployment_failed", "renewal_finalize_failed"},
         orders' = Mark(orders, o, status, err),
         ~(Known(o) /\ CleanRow(o)),
         status = "success" /\ err = "" /\ Known(o) => orders[o].auto,
         NEW s, Renewable(s)
  PROVE  Renewable(s)'
<1>1. /\ \A p \in Orders : p # o => orders'[p] = orders[p]
      /\ (orders'[o] = Gone <=> orders[o] = Gone)
      /\ ~Known(o) => orders'[o] = orders[o]
      /\ Known(o) => orders'[o].status = status /\ orders'[o].err = err /\ orders'[o].auto = orders[o].auto
  BY MarkFacts DEF CInv, Typed, TablesOK
<1>2. o \notin Clean(s)
  BY CleanIs
<1>3. o \in Clean(s)' => orders'[o].auto
  BY <1>1 DEF Clean, Known
<1>4. QED
  BY <1>1, <1>2, <1>3, OthersStay

LEMMA JobSurvives ==
  ASSUME CInv, OInv, NEW o \in Orders, JobGoesOn(o), ~Interrupted, NEW s, Renewable(s)
  PROVE  Renewable(s)'
<1>1. thread[o] # Null
  BY DEF JobGoesOn, JobPrepare, JobChallenge, JobAsk, Unprepared, JobSave, JobFail, JobRecord, JobDeploy, JobInstall,
     JobRollback, JobSettle, JobComplete, At
<1>2. /\ orders[o] # Null /\ Known(o) /\ orders[o].auto
      /\ ~(thread[o].pc = "complete" /\ Known(o)' /\ orders'[o].err = "renewal_finalize_failed")
      /\ thread[o].order # Null => Known(thread[o].order) /\ orders[thread[o].order].auto
  BY <1>1, JobIs DEF Interrupted, Jobs
<1>3. thread[o].pc # "complete" => ~CleanRow(o)
  BY <1>1, <1>2 DEF OInv, NotYet
<1>4. ASSUME NEW status \in {"pending", "processing", "failed", "pre_validation_failed", "success"},
             NEW err \in {"", "error", "deployment_pending", "deployment_failed", "renewal_finalize_failed"},
             orders' = Mark(orders, o, status, err), ~CleanRow(o)
      PROVE  Renewable(s)'
  BY <1>2, <1>4, MarkSurvives
<1>5. CASE orders' = orders
  BY <1>5, SameOrdersSurvive
<1>6. CASE JobPrepare(o) \/ JobFail(o) \/ JobRollback(o)
  BY <1>6, <1>3, <1>4, <1>5 DEF JobPrepare, JobFail, Unsaved, JobRollback, MarkIfSaved, At
<1>7. CASE JobAsk(o) \/ JobDeploy(o) \/ JobSettle(o)
  BY <1>7, <1>3, <1>4, <1>5 DEF JobAsk, Unprepared, JobDeploy, JobSettle, MarkIfSaved, At, PreValidationFailed
<1>8. CASE JobRecord(o)
  <2>1. PICK k : k = NextEntry
    OBVIOUS
  <2>2. \/ orders' = orders
        \/ orders' = [Mark(orders, o, "success", "deployment_pending") EXCEPT ![o].entry = k]
    BY <1>8, <2>1 DEF JobRecord
  <2>3. CASE orders' = [Mark(orders, o, "success", "deployment_pending") EXCEPT ![o].entry = k]
    <3>1. orders[o] \in Order
      BY <1>2 DEF Known, CInv, Typed, TablesOK
    <3>2. PICK r : r = [[[orders[o] EXCEPT !.status = "success"] EXCEPT !.err = "deployment_pending"] EXCEPT !.entry = k]
      OBVIOUS
    <3>3. r.err = "deployment_pending"
      BY <3>1, <3>2 DEF Order
    <3>4. orders' = [orders EXCEPT ![o] = r]
      BY <1>2, <2>3, <3>2 DEF Mark, CInv, Typed, TablesOK
    <3>5. orders'[o] = r /\ \A p \in Orders : p # o => orders'[p] = orders[p]
      BY <3>4 DEF CInv, Typed, TablesOK
    <3>6. o \notin Clean(s) /\ o \notin Clean(s)'
      BY <1>8, <1>3, <3>3, <3>5 DEF JobRecord, At, Clean, CleanRow
    <3>7. QED
      BY <3>5, <3>6, OthersStay
  <2>4. QED
    BY <1>5, <2>2, <2>3
<1>9. CASE JobComplete(o)
  <2>1. PICK old : old = thread[o].order
    OBVIOUS
  <2>2. thread[o].pc = "complete"
    BY <1>9 DEF JobComplete, At
  <2>3. PICK r \in Thread(Sites) : r = thread[o] /\ Writes(o, r)
    BY <1>1, JobIs DEF CInv, ThreadsInv
  <2>4. old \in Orders /\ old # Null
    BY <2>1, <2>2, <2>3, CertificatesAssumption DEF Writes, Threads
  <2>5. Known(old) /\ orders[old].auto /\ old < o /\ orders[old].site = orders[o].site
    BY <1>1, <1>2, <2>1, <2>4 DEF OInv, JobSites
  <2>0. orders' # Mark(orders, o, "success", "renewal_finalize_failed")
    <3> SUFFICES ASSUME orders' = Mark(orders, o, "success", "renewal_finalize_failed") PROVE FALSE
      OBVIOUS
    <3>1. orders \in [Orders -> Order \cup {Null, Gone}]
      BY DEF CInv, Typed, TablesOK
    <3>2. /\ SameNumbers /\ \A p \in Orders : (orders'[p] = Gone <=> orders[p] = Gone)
          /\ Known(o) => orders'[o].err = "renewal_finalize_failed"
      BY <3>1, MarkFacts
    <3>3. Known(o) /\ ~(thread[o].pc = "complete" /\ Known(o)' /\ orders'[o].err = "renewal_finalize_failed")
      BY <1>2, <2>2
    <3>4. QED
      BY <3>2, <3>3, <2>2 DEF SameNumbers, Known
  <2>6. CASE orders' # orders
    <3>1. orders' = Retire(orders, old, o) /\ CleanRow(o)
      BY <1>9, <2>0, <2>1, <2>6 DEF JobComplete, MarkIfSaved, CleanRow
    <3>2. old # o
      BY CertificatesAssumption, <2>5 DEF Orders
    <3>3. /\ \A p \in Orders : p \notin {old, o} => orders'[p] = orders[p]
          /\ \A p \in Orders : Known(p)' <=> Known(p)
          /\ \A p \in {old, o} : /\ orders'[p].site = orders[p].site /\ orders'[p].status = orders[p].status
                                 /\ orders'[p].err = orders[p].err
          /\ orders'[o].auto = orders[old].auto
      BY <1>2, <2>4, <2>5, <3>1, <3>2, RetireFacts DEF CInv, Typed, TablesOK
    <3>4. Clean(s)' = Clean(s)
      BY <3>3 DEF Clean, Known
    <3>5. ASSUME NEW p \in Clean(s) PROVE orders'[p].auto \/ ~orders[p].auto \/ \E q \in Clean(s) : ~(q <= p)
      <4>1. CASE p = old
        <5>1. o \in Clean(s)
          BY <1>2, <2>5, <3>1, <3>5, <4>1 DEF Clean, CleanRow
        <5>2. o \in Nat /\ old \in Nat
          BY <2>4, CertificatesAssumption DEF Orders
        <5>3. ~(o <= p)
          BY <2>5, <4>1, <5>2
        <5>4. QED
          BY <5>1, <5>3
      <4>2. CASE p # old
        BY <2>5, <3>3, <3>5, <4>2 DEF Clean
      <4>3. QED
        BY <4>1, <4>2
    <3>6. QED
      BY <3>4, <3>5, StaysRenewable
  <2>7. QED
    BY <1>5, <2>6
<1>10. QED
  BY <1>5, <1>6, <1>7, <1>8, <1>9 DEF JobGoesOn, JobChallenge, JobSave, JobInstall, tables

LEMMA SweepSurvives ==
  ASSUME CInv, SweepSteps, NEW s, Renewable(s)
  PROVE  Renewable(s)'
<1>1. CASE orders' = orders
  BY <1>1, SameOrdersSurvive
<1>2. ASSUME NEW o \in Orders, RenewOrderForScheduledTask(o), orders' # orders PROVE Renewable(s)'
  <2>1. sweep # Null /\ o \in DOMAIN sweep.todo
    BY <1>2 DEF RenewOrderForScheduledTask
  <2>2. PICK x \in Sites : x = sweep.todo[o]
    BY <2>1, SweepFacts DEF CInv
  <2>3. PICK a \in BOOLEAN, forced \in BOOLEAN : a = TRUE /\ forced = FALSE
    OBVIOUS
  <2>4. Launch(x, a, o, forced)
    BY <1>2, <2>2, <2>3 DEF RenewOrderForScheduledTask
  <2>5. PICK t : t = NextOrder
    OBVIOUS
  <2>6. /\ t \in Orders /\ orders[t] = Null /\ orders'[t].status = "pending"
        /\ \A p \in Orders : p # t => orders'[p] = orders[p]
    BY <2>4, <2>5, LaunchFacts
  <2>7. t \notin Clean(s) /\ t \notin Clean(s)'
    BY <2>6 DEF Clean, Known
  <2>8. QED
    BY <2>6, <2>7, OthersStay
<1>3. QED
  BY <1>1, <1>2 DEF SweepSteps, RunScheduledRenewal, SweepGoesOn, tables

(* A site renewed automatically stays so until a request stops it.         *)
THEOREM AutomaticRenewalSurvives == Spec => RenewalSurvives
<1>1. ASSUME CInv, OInv, [Next]_vars, ~Interrupted, NEW s \in live', Renewable(s)
      PROVE  Renewable(s)'
  BY <1>1, SameOrdersSurvive, RequestsCount, RequestSurvives, JobSurvives, SweepSurvives DEF vars,
     tables, Crash, Next, Interrupted
<1>2. ASSUME CInv /\ OInv, [Next]_vars
      PROVE  \A s \in live' : Renewable(s) /\ ~Renewable(s)' =>
               \/ spent'.requests > spent.requests
               \/ thread[Req] # Null /\ thread[Req].op = "redeploy"
               \/ \E o \in Jobs : ~Known(o) \/ ~orders[o].auto
                    \/ (thread[o].order # Null /\ (~Known(thread[o].order) \/ ~orders[thread[o].order].auto))
                    \/ (thread[o].pc = "complete" /\ Known(o)' /\ orders'[o].err = "renewal_finalize_failed")
  BY <1>1, <1>2 DEF Interrupted
<1>3. QED
  BY <1>2, OInvariant, PTL DEF Spec, RenewalSurvives

-----------------------------------------------------------------------------
(* nginx is never told to load a file that is gone, and what the panel     *)
(* shows of a site's certificate is what the site's configuration says:    *)
(* the inductive invariant.                                                *)

(* At s the row is ahead of the configuration, or the configuration of the *)
(* row.                                                                    *)
HolderAt(s) == mu # Null /\ thread[mu].site = s /\ thread[mu].op \notin {"upload", "delete"}
Ahead(s)    == HolderAt(s) /\ thread[mu].op # "replace" /\ thread[mu].pc \in {"call", "failed", "install", "rollback"}
Swapping(s) == HolderAt(s) /\ thread[mu].op = "replace"
Swapped(s)  == Swapping(s) /\ thread[mu].pc = "done"

(* A request that writes a site's configuration keeps its site.            *)
LiveInv == thread[Req] # Null /\ (thread[Req].op = "replace" \/ (thread[Req].op \in RowOps /\ thread[Req].pc # "admitted"))
             => thread[Req].site \in live

(* A file of the store belongs to its entry, the oldest of that            *)
(* certificate, which is the panel's.                                      *)
FileInv == \A k \in Entries : files[Stored(k)] # Absent =>
  entries[k] # Null /\ entries[k].path = Stored(k) /\ entries[k].sha = files[Stored(k)]

OldestInv == \A j, k \in Entries : entries[k] # Null /\ entries[k].path = Stored(j) =>
  /\ j = k /\ entries[k].source = "panel"
  /\ \A i \in Entries : entries[i] # Null /\ entries[i].sha = entries[k].sha => k <= i

UseInv == thread[Req] # Null /\ thread[Req].op = "use" =>
  \A k \in Entries : ssl[thread[Req].site].path = Stored(k) =>
    entries[k] # Null /\ entries[k].sha = ssl[thread[Req].site].sha

UploadInv == thread[Req] # Null /\ thread[Req].op = "upload" /\ thread[Req].pc \in {"call", "failed"} =>
  files[Stored(thread[Req].entry)] = Absent

(* Nobody names the file that is being deleted; a file of the store is     *)
(* gone when it is done.                                                   *)
DeleteInv == thread[Req] # Null /\ thread[Req].op = "delete" =>
  /\ \A s \in Sites : s \notin spent.edited => conf[s] # entries[thread[Req].entry].path
  /\ thread[Req].pc = "done" /\ entries[thread[Req].entry].path = Stored(thread[Req].entry) =>
       files[Stored(thread[Req].entry)] = Absent

DeadInv ==
  /\ \A s \in Sites : s \notin live => conf[s] = Absent
  /\ thread[Req] # Null /\ thread[Req].op = "site" /\ thread[Req].pc = "done" => conf[thread[Req].site] = Absent

RowsInv == \A s \in Sites : s \in live /\ s \in Marked /\ s \notin spent.edited /\ conf[s] # Absent =>
  /\ Ahead(s) => Matches(thread[mu].undo, conf[s])
  /\ Swapping(s) => Enabled(s)
  /\ ~Ahead(s) /\ ~Swapped(s) => Matches(ssl[s], conf[s])

SwapInv == \A s \in Sites : s \in live /\ s \notin spent.edited /\ Swapped(s) => conf[s] = entries[thread[mu].entry].path

(* An imported site names what it was imported with, or what it was given  *)
(* in its place.                                                           *)
Named0(s) == conf[s] \in {Null, Absent} \cup {External(x) : x \in Outside}
NamedAs(s, k) ==
  conf[s] = Stored(k) /\ entries[k] # Null /\ entries[k].path = Stored(k) /\ (links[s] = k \/ Swapped(s))
UnmarkedInv == \A s \in Sites : s \in live /\ s \notin Marked /\ s \notin spent.edited =>
  Named0(s) \/ \E k \in Entries : NamedAs(s, k)

ServedInv == \A s \in Sites : s \notin spent.edited /\ conf[s] \in Paths => files[conf[s]] # Absent

StoreInv == FileInv /\ OldestInv
ReqInv   == LiveInv /\ UseInv /\ UploadInv /\ DeleteInv
SoundInv == StoreInv /\ ReqInv /\ DeadInv /\ RowsInv /\ SwapInv /\ UnmarkedInv /\ ServedInv

-----------------------------------------------------------------------------
(* What steps leave alone.                                                 *)

StoredStays == \A k \in Entries : entries[k] # Null => entries'[k] = entries[k]
MoreEdited  == \A s \in Sites : s \in spent.edited => s \in spent'.edited

LEMMA StoreKept ==
  ASSUME StoreInv, UNCHANGED <<files, entries>>
  PROVE  StoreInv'
BY DEF StoreInv, FileInv, OldestInv

LEMMA ServedKept ==
  ASSUME ServedInv, UNCHANGED disk, MoreEdited
  PROVE  ServedInv'
BY DEF ServedInv, disk, MoreEdited

(* No request, or one that has changed nothing yet.                        *)
Idle(r) == r = Null \/ (r.op = "redeploy" /\ r.pc = "admitted") \/ (r.op = "site" /\ r.pc = "call")

(* What is known of the request in progress, by the steps of others.       *)
LEMMA ReqKept ==
  ASSUME CInv, ReqInv, DeadInv, thread'[Req] = thread[Req] \/ Idle(thread'[Req]), UNCHANGED <<live, conf>>, MoreEdited,
         mu = Req => /\ StoredStays
                     /\ \A k \in Entries : files'[Stored(k)] # Absent => files[Stored(k)] # Absent
                     /\ \A s \in Sites : s \in live => ssl'[s] = ssl[s]
  PROVE  ReqInv' /\ DeadInv'
<1>0. CASE Idle(thread'[Req])
  BY <1>0 DEF Idle, ReqInv, LiveInv, UseInv, UploadInv, DeleteInv, DeadInv, RowOps
<1>h. ASSUME thread[Req] # Null, thread[Req].op \in {"use", "upload", "delete"}
      PROVE  mu = Req
  BY <1>h, RequestIs DEF Fits, Placed, Holds, Rewrites, RowOps
<1>1. CASE thread'[Req] = thread[Req]
  <2>0. LiveInv'
    BY <1>1 DEF ReqInv, LiveInv
  <2>1. UseInv'
    <3>1. ASSUME thread[Req] # Null, thread[Req].op = "use"
          PROVE  mu = Req /\ ssl'[thread[Req].site] = ssl[thread[Req].site]
      BY <3>1, RequestIs, <1>h DEF CInv, Typed, TablesOK, UsedRow
    <3>2. QED
      BY <1>1, <3>1 DEF ReqInv, UseInv, StoredStays
  <2>2. ASSUME thread[Req] # Null, thread[Req].op \in {"upload", "delete"}
        PROVE  thread[Req].entry \in Entries /\ entries'[thread[Req].entry] = entries[thread[Req].entry] /\ mu = Req
    BY <1>h, <2>2, RequestIs DEF Fits, StoredStays
  <2>3. UploadInv'
    BY <1>1, <2>2 DEF ReqInv, UploadInv
  <2>4. DeleteInv'
    BY <1>1, <2>2 DEF ReqInv, DeleteInv, MoreEdited
  <2>5. DeadInv'
    BY <1>1 DEF DeadInv
  <2>6. QED
    BY <2>0, <2>1, <2>3, <2>4, <2>5 DEF ReqInv
<1>2. QED
  BY <1>0, <1>1

LEMMA UnmarkedKept ==
  ASSUME UnmarkedInv, UNCHANGED <<live, links, conf>>, MoreEdited, StoredStays,
         \A s \in Sites : Swapped(s) => Swapped(s)'
  PROVE  UnmarkedInv'
<1>1. ASSUME NEW s \in Sites, s \in live', s \notin Marked, s \notin spent'.edited
      PROVE  Named0(s)' \/ \E k \in Entries : NamedAs(s, k)'
  BY <1>1 DEF UnmarkedInv, MoreEdited, Named0, NamedAs, StoredStays
<1>2. QED
  BY <1>1 DEF UnmarkedInv

(* The holder's thread goes on as it is.                                   *)
LEMMA HolderKept ==
  ASSUME CInv, RowsInv, SwapInv, UNCHANGED <<live, conf, mu>>, mu # Null => thread'[mu] = thread[mu],
         MoreEdited, StoredStays, \A s \in Sites : s \in live => ssl'[s] = ssl[s]
  PROVE  RowsInv' /\ SwapInv' /\ \A s \in Sites : Swapped(s) => Swapped(s)'
<1>1. \A s \in Sites : /\ HolderAt(s)' <=> HolderAt(s)
                       /\ Ahead(s)' <=> Ahead(s)
                       /\ Swapping(s)' <=> Swapping(s)
                       /\ Swapped(s)' <=> Swapped(s)
  BY DEF HolderAt, Ahead, Swapping, Swapped
<1>2. RowsInv'
  <2>1. ASSUME NEW s \in Sites, s \in live', s \in Marked, s \notin spent'.edited, conf'[s] # Absent
        PROVE  /\ Ahead(s)' => Matches(thread'[mu'].undo, conf'[s])
               /\ Swapping(s)' => Enabled(s)'
               /\ ~Ahead(s)' /\ ~Swapped(s)' => Matches(ssl'[s], conf'[s])
    BY <2>1, <1>1 DEF RowsInv, MoreEdited, Ahead, HolderAt, Enabled, Matches
  <2>2. QED
    BY <2>1 DEF RowsInv, Matches
<1>3. SwapInv'
  <2>1. ASSUME NEW s \in Sites, s \in live', s \notin spent'.edited, Swapped(s)'
        PROVE  conf'[s] = entries'[thread'[mu'].entry].path
    <3>1. Swapped(s) /\ conf[s] = entries[thread[mu].entry].path
      BY <1>1, <2>1 DEF SwapInv, MoreEdited
    <3>2. mu # Null /\ thread'[mu'] = thread[mu] /\ thread[mu].op = "replace"
      BY <3>1 DEF Swapped, Swapping, HolderAt
    <3>3. entries'[thread[mu].entry] = entries[thread[mu].entry]
      BY <3>2, IsThread, ThreadNotNull DEF CInv, Typed, MemoryOK, LockInv, Holds, ThreadsInv, Fits,
         StoredStays
    <3>4. QED
      BY <3>1, <3>2, <3>3
  <2>2. QED
    BY <2>1 DEF SwapInv
<1>4. QED
  BY <1>1, <1>2, <1>3

(* A step that leaves the rows, the configurations and the mutex alone.    *)
LEMMA Apart ==
  ASSUME CInv, SoundInv, UNCHANGED <<live, ssl, links, conf, mu>>, thread'[Req] = thread[Req] \/ Idle(thread'[Req]),
         mu # Null => thread'[mu] = thread[mu], MoreEdited, StoredStays,
         \A k \in Entries : files'[Stored(k)] # Absent => files[Stored(k)] # Absent,
         StoreInv', ServedInv'
  PROVE  SoundInv'
BY ReqKept, HolderKept, UnmarkedKept DEF SoundInv

(* And the entries and the disk.                                           *)
LEMMA Quiet ==
  ASSUME CInv, SoundInv, UNCHANGED <<live, ssl, links, entries, disk, mu>>,
         thread'[Req] = thread[Req] \/ Idle(thread'[Req]), mu # Null => thread'[mu] = thread[mu], MoreEdited
  PROVE  SoundInv'
BY StoreKept, ServedKept, Apart DEF disk, StoredStays, SoundInv

-----------------------------------------------------------------------------
(* Steps that take or release the mutex.                                   *)

LEMMA Taken ==
  ASSUME CInv, SoundInv, NEW t \in Threads, NEW n \in Thread(Sites), Alters(t, n), mu = Null, mu' = t,
         UNCHANGED <<live, links, disk>>, MoreEdited, StoredStays,
         \A s \in Sites : s # n.site => ssl'[s] = ssl[s],
         \/ n.site = Null
         \/ n.op \notin {"replace", "upload", "delete"} /\ n.pc \in {"call", "install"} /\ n.site \in live /\ n.undo = ssl[n.site]
         \/ n.op = "replace" /\ n.pc = "call" /\ n.site \in live /\ conf[n.site] \in Paths /\ ssl' = ssl,
         StoreInv', t = Req => ReqInv' /\ n.pc # "done"
  PROVE  SoundInv'
<1>1. UNCHANGED <<files, conf>> /\ mu' # Null /\ thread'[mu'] = n /\ MemoryOK /\ Null \notin Sites
  BY Altered, PlacesAre, CertificatesAssumption DEF CInv, Typed, disk
<1>2. ReqInv' /\ DeadInv'
  <2>1. CASE t = Req
    BY <1>1, <2>1 DEF SoundInv, DeadInv
  <2>2. CASE t # Req
    BY <1>1, <2>2, Altered, PlacesAre, ReqKept DEF SoundInv
  <2>3. QED
    BY <2>1, <2>2
<1>3. \A s \in Sites : ~Swapped(s) /\ ~Ahead(s) /\ ~Swapping(s)
  BY DEF Swapped, Swapping, Ahead, HolderAt
<1>4. \A s \in Sites : /\ HolderAt(s)' <=> n.site = s
                       /\ ~Swapped(s)'
                       /\ Ahead(s)' <=> n.site = s /\ n.op # "replace"
                       /\ Swapping(s)' <=> n.site = s /\ n.op = "replace"
  BY <1>1 DEF HolderAt, Swapped, Ahead, Swapping
<1>5. RowsInv'
  <2>1. ASSUME NEW s \in Sites, s \in live, s \in Marked, s \notin spent'.edited, conf[s] # Absent
        PROVE  /\ Ahead(s)' => Matches(n.undo, conf[s])
               /\ Swapping(s)' => Enabled(s)'
               /\ ~Ahead(s)' /\ ~Swapped(s)' => Matches(ssl'[s], conf[s])
    BY <1>3, <2>1, <1>1, <1>4, PathsAssumption DEF SoundInv, RowsInv, MoreEdited, Matches, Enabled
  <2>2. QED
    BY <1>1, <2>1 DEF RowsInv
<1>6. SwapInv'
  BY <1>4 DEF SwapInv
<1>7. UnmarkedInv'
  BY <1>1, <1>3, UnmarkedKept DEF SoundInv
<1>8. ServedInv'
  BY ServedKept DEF SoundInv
<1>9. QED
  BY <1>2, <1>5, <1>6, <1>7, <1>8 DEF SoundInv

LEMMA Released ==
  ASSUME CInv, SoundInv, NEW t \in Threads, NEW n, Alters(t, n), mu = t, mu' = Null, t = Req => n = Null,
         UNCHANGED <<live, disk>>, MoreEdited, \A s \in Sites : s # thread[t].site => ssl'[s] = ssl[s],
         \A s \in Sites : s = thread[t].site /\ s \in live /\ s \in Marked /\ s \notin spent.edited /\ conf[s] # Absent
           => Matches(ssl'[s], conf[s]),
         StoreInv', UnmarkedInv'
  PROVE  SoundInv'
<1>1. UNCHANGED <<files, conf>> /\ MemoryOK
  BY DEF CInv, Typed, disk
<1>2. ReqInv' /\ DeadInv'
  <2>1. thread'[Req] = thread[Req] \/ Idle(thread'[Req])
    BY <1>1, Altered, PlacesAre DEF Idle
  <2>2. CASE t = Req
    BY <1>1, <2>2, Altered DEF ReqInv, LiveInv, UseInv, UploadInv, DeleteInv, SoundInv, DeadInv
  <2>3. CASE t # Req
    BY <1>1, <2>1, <2>3, ReqKept DEF SoundInv
  <2>4. QED
    BY <2>2, <2>3
<1>3. \A s \in Sites : ~HolderAt(s)' /\ ~Ahead(s)' /\ ~Swapping(s)' /\ ~Swapped(s)'
  BY DEF HolderAt, Ahead, Swapping, Swapped
<1>4. \A s \in Sites : s # thread[t].site => ~HolderAt(s) /\ ~Ahead(s) /\ ~Swapped(s)
  BY DEF HolderAt, Ahead, Swapped, Swapping
<1>5. RowsInv'
  <2>1. ASSUME NEW s \in Sites, s \in live, s \in Marked, s \notin spent'.edited, conf[s] # Absent
        PROVE  Matches(ssl'[s], conf[s])
    BY <2>1, <1>4 DEF MoreEdited, SoundInv, RowsInv
  <2>2. QED
    BY <1>1, <1>3, <2>1 DEF RowsInv
<1>6. SwapInv'
  BY <1>3 DEF SwapInv
<1>7. ServedInv'
  BY ServedKept DEF SoundInv
<1>8. QED
  BY <1>2, <1>5, <1>6, <1>7 DEF SoundInv

-----------------------------------------------------------------------------
(* The store.                                                              *)

(* A new entry of a file that is not the store's, or of one to be written. *)
LEMMA StoreGrows ==
  ASSUME Typed, StoreInv, NEW p \in Paths, NEW c \in Bytes, NEW source \in {"panel", "external"}, NewEntry(p, c, source),
         UNCHANGED files,
         \/ \A k \in Entries : p # Stored(k)
         \/ p = Stored(NextEntry) /\ source = "panel" /\ \A k \in Entries : entries[k] # Null => entries[k].sha # c
  PROVE  StoreInv' /\ StoredStays /\ files[Stored(NextEntry)] = Absent
<1>0. TablesOK
  BY DEF Typed
<1>1. /\ NextEntry \in Entries /\ entries[NextEntry] = Null
      /\ entries'[NextEntry] # Null /\ entries'[NextEntry].path = p
      /\ entries'[NextEntry].sha = c /\ entries'[NextEntry].source = source
      /\ \A k \in Entries : k # NextEntry => entries'[k] = entries[k]
      /\ \A k \in Entries : entries[k] # Null => entries'[k] = entries[k] /\ k < NextEntry
  BY <1>0, NewEntryFacts
<1>2. StoredStays
  BY <1>1 DEF StoredStays
<1>3. files[Stored(NextEntry)] = Absent
  BY <1>1 DEF StoreInv, FileInv
<1>4. FileInv'
  BY <1>2 DEF StoreInv, FileInv, StoredStays
<1>5. OldestInv'
  <2>1. ASSUME NEW j \in Entries, NEW k \in Entries, entries'[k] # Null, entries'[k].path = Stored(j)
        PROVE  /\ j = k /\ entries'[k].source = "panel"
               /\ \A i \in Entries : entries'[i] # Null /\ entries'[i].sha = entries'[k].sha => k <= i
    <3>1. CASE k = NextEntry
      BY <1>1, <2>1, <3>1, PathKinds, EntriesAre
    <3>2. CASE k # NextEntry
      BY <1>1, <2>1, <3>2, EntriesAre DEF StoreInv, OldestInv
    <3>3. QED
      BY <3>1, <3>2
  <2>2. QED
    BY <2>1 DEF OldestInv
<1>6. QED
  BY <1>2, <1>3, <1>4, <1>5 DEF StoreInv

(* An entry without a file of the store goes.                              *)
LEMMA StoreShrinks ==
  ASSUME StoreInv, NEW k \in Entries, \A j \in Entries : j # k => entries'[j] = entries[j], entries'[k] = Null,
         UNCHANGED files, files[Stored(k)] = Absent
  PROVE  StoreInv'
BY DEF StoreInv, FileInv, OldestInv

LEMMA FilesGo ==
  ASSUME StoreInv, entries' = entries, \A k \in Entries : files'[Stored(k)] # Absent => files'[Stored(k)] = files[Stored(k)]
  PROVE  StoreInv'
BY DEF StoreInv, FileInv, OldestInv

LEMMA StillCalm ==
  ASSUME spent \in Spent, Served \/ Fault \/ Mishap \/ UNCHANGED spent, Good'
  PROVE  MoreEdited /\ Good /\ Calm
BY SpentFacts DEF Good, Calm, MoreEdited

LEMMA JobAlone ==
  ASSUME CInv, NEW o \in Orders, thread[o] # Null, NEW n, Alters(o, n)
  PROVE  /\ thread'[Req] = thread[Req] /\ thread'[o] = n /\ \A u \in Threads : u # o => thread'[u] = thread[u]
         /\ thread[o].pc \notin {"install", "settle", "rollback"} => (mu # Null => thread'[mu] = thread[mu])
BY JobIs, Altered, PlacesAre DEF CInv, Typed, MemoryOK

(* What a transaction that nginx has loaded leaves.                        *)
LEMMA TestedServed ==
  ASSUME Typed, NEW x \in Tx(Sites), Acceptable(x), x.test, Install(x)
  PROVE  ServedInv' /\ \A s \in Sites : conf'[s] \in Paths => files'[conf'[s]] # Absent
BY DEF Acceptable, Install, Loads, ServedInv

-----------------------------------------------------------------------------
(* The steps of a job.                                                     *)

LEMMA GoesOn ==
  ASSUME NEW o, NEW pc, GoOn(o, pc)
  PROVE  \E n : Alters(o, n)
BY DEF GoOn, Alters

LEMMA GoesOnWith ==
  ASSUME NEW o, NEW pc, NEW x, GoOnWith(o, pc, x)
  PROVE  \E n : Alters(o, n)
BY DEF GoOnWith, Alters

LEMMA QuietJobSound ==
  ASSUME CInv, SoundInv, NEW o \in Orders, thread[o] # Null, thread[o].pc \notin {"install", "settle", "rollback"},
         \E n : Alters(o, n), UNCHANGED <<live, ssl, links, entries, disk, mu>>, MoreEdited
  PROVE  SoundInv'
BY JobAlone, Quiet

LEMMA JobPrepareSound ==
  ASSUME CInv, SoundInv, NEW o \in Orders, JobPrepare(o)
  PROVE  SoundInv'
<1>1. /\ thread[o] # Null /\ thread[o].pc = "prepare" /\ \E n : Alters(o, n)
      /\ UNCHANGED <<live, ssl, links, entries, disk, mu>> /\ (UNCHANGED spent \/ Fault)
  BY GoesOn, GoesOnWith DEF JobPrepare, At, GoOnWith
<1>2. MoreEdited
  BY <1>1, SpentFacts DEF CInv, Typed, Calm, MoreEdited
<1>3. QED
  BY <1>1, <1>2, QuietJobSound

(* The old configuration is still the one there is.                        *)
LEMMA JobChallengeSound ==
  ASSUME CInv, SoundInv, Good', NEW o \in Orders, JobChallenge(o)
  PROVE  SoundInv'
<1>1. thread[o] # Null /\ thread[o].pc = "challenge" /\ UNCHANGED <<tables, mu, sweep>>
  BY DEF JobChallenge, At
<1>2. UNCHANGED <<live, ssl, entries, links, lastEntry, orders>>
  BY <1>1 DEF tables
<1>3. PICK r \in Thread(Sites) : r = thread[o] /\ Writes(o, r) /\ o \in Threads /\ r.tx \in Tx(Sites)
  BY <1>1, JobIs DEF CInv, ThreadsInv, Thread
<1>4. DOMAIN r.tx.files = {} /\ DOMAIN r.tx.conf = {r.site}
  BY <1>1, <1>3 DEF Writes
<1>5. CASE /\ Acceptable(thread[o].tx) /\ Install(thread[o].tx) /\ GoOn(o, "ask")
           /\ spent' = [spent EXCEPT !.stale = @ \/ conf[thread[o].site] # thread[o].tx.conf[thread[o].site]]
  <2>1. PICK b \in BOOLEAN : b = (spent.stale \/ conf[r.site] # r.tx.conf[r.site])
    BY DEF CInv, Typed, Spent
  <2>2. spent' = [spent EXCEPT !.stale = b]
    BY <1>3, <1>5, <2>1
  <2>3. spent'.stale = b /\ spent'.edited = spent.edited
    BY <2>2, StaleSpent DEF CInv, Typed
  <2>4. conf[r.site] = r.tx.conf[r.site]
    BY <2>1, <2>3 DEF Good
  <2>5. /\ DiskOK /\ DiskOK'
        /\ \A p \in Paths : files'[p] = files[p]
        /\ \A s \in Sites : conf'[s] = conf[s]
    BY <1>3, <1>4, <1>5, <2>4, InstallFacts DEF CInv, Typed
  <2>6. UNCHANGED disk
    BY <2>5 DEF disk, DiskOK
  <2>7. MoreEdited
    BY <2>3 DEF MoreEdited
  <2>8. \E n : Alters(o, n)
    BY <1>5, GoesOn
  <2>9. QED
    BY <1>1, <1>2, <2>6, <2>7, <2>8, QuietJobSound
<1>6. CASE (UNCHANGED spent \/ Fault) /\ GoOn(o, "failing") /\ UNCHANGED disk
  BY <1>6, StillCalm, GoesOn, <1>1, <1>2, QuietJobSound DEF CInv, Typed
<1>7. QED
  BY <1>5, <1>6 DEF JobChallenge

LEMMA JobAskSound ==
  ASSUME CInv, SoundInv, NEW o \in Orders, JobAsk(o)
  PROVE  SoundInv'
BY GoesOn, GoesOnWith, JobStops, QuietJobSound DEF JobAsk, Unprepared, At, GoOnWith, MoreEdited

LEMMA JobEndsSound ==
  ASSUME CInv, SoundInv, NEW o \in Orders, JobFail(o) \/ JobComplete(o)
  PROVE  SoundInv'
<1>1. /\ thread[o] # Null /\ thread[o].pc \in {"failing", "complete"} /\ \E n : Alters(o, n)
      /\ UNCHANGED <<live, ssl, links, entries, disk, mu>> /\ (UNCHANGED spent \/ Fault \/ Unsaved(o))
  BY JobStops DEF JobFail, JobComplete, MarkIfSaved, At
<1>2. MoreEdited
  BY <1>1, SpentFacts, UnsavedFacts DEF CInv, Typed, Calm, MoreEdited
<1>3. QED
  BY <1>1, <1>2, QuietJobSound

LEMMA JobSaveSound ==
  ASSUME CInv, SoundInv, Good', NEW o \in Orders, JobSave(o)
  PROVE  SoundInv'
<1>1. thread[o] # Null /\ thread[o].pc = "save" /\ Called(o, "record", "failing") /\ UNCHANGED <<tables, mu, sweep>>
  BY DEF JobSave, At
<1>2. UNCHANGED <<live, ssl, entries, links, lastEntry, orders>>
  BY <1>1 DEF tables
<1>3. PICK a \in ReqPlaces \cup JobPlaces, b \in ReqPlaces \cup JobPlaces : a = "record" /\ b = "failing"
  BY JobPlacesAre
<1>4. Typed /\ Called(o, a, b) /\ o \in Threads
  BY <1>1, <1>3, JobIs DEF CInv
<1>5. PICK n \in Thread(Sites) :
         /\ Alters(o, n) /\ Same(n, thread[o])
         /\ \/ Acceptable(n.tx) /\ Install(n.tx) /\ Calm
            \/ UNCHANGED disk /\ Calm
            \/ spent'.mishap
  BY <1>1, <1>4, CalledFacts
<1>6. Calm /\ MoreEdited
  BY <1>5 DEF Calm, MoreEdited, Good
<1>7. CASE UNCHANGED disk
  BY <1>1, <1>2, <1>5, <1>6, <1>7, QuietJobSound
<1>8. CASE Acceptable(n.tx) /\ Install(n.tx)
  <2>1. Writes(o, thread[o]) /\ thread[o].tx = n.tx /\ n.tx \in Tx(Sites)
    BY <1>1, <1>5, JobIs DEF CInv, ThreadsInv, Thread, Same
  <2>2. n.tx.test /\ DOMAIN n.tx.files = {Issued(o)} /\ DOMAIN n.tx.conf = {}
    BY <1>1, <2>1 DEF Writes
  <2>3. /\ \A p \in Paths : p # Issued(o) => files'[p] = files[p]
        /\ \A s \in Sites : conf'[s] = conf[s]
        /\ DiskOK'
    BY <1>4, <1>8, <2>1, <2>2, InstallFacts DEF Typed
  <2>4. \A k \in Entries : files'[Stored(k)] = files[Stored(k)]
    BY <2>3, PathKinds
  <2>5. conf' = conf
    BY <1>4, <2>3 DEF Typed, DiskOK
  <2>6. ServedInv'
    BY <1>4, <1>8, <2>1, <2>2, TestedServed
  <2>7. StoreInv'
    BY <1>2, <2>4, FilesGo DEF SoundInv
  <2>8. thread'[Req] = thread[Req] /\ (mu # Null => thread'[mu] = thread[mu])
    BY <1>1, <1>5, JobAlone
  <2>9. StoredStays
    BY <1>2 DEF StoredStays
  <2>10. QED
    BY <1>1, <1>2, <1>6, <2>4, <2>5, <2>6, <2>7, <2>8, <2>9, Apart
<1>9. QED
  BY <1>5, <1>7, <1>8 DEF Good

LEMMA JobRecordSound ==
  ASSUME CInv, SoundInv, Good', NEW o \in Orders, JobRecord(o)
  PROVE  SoundInv'
<1>1. thread[o] # Null /\ thread[o].pc = "record" /\ UNCHANGED <<live, ssl, links, disk, mu, sweep>>
  BY DEF JobRecord, At
<1>2. PICK k : k = NextEntry
  OBVIOUS
<1>3. \E n : Alters(o, n)
  BY <1>2, GoesOn DEF JobRecord, Alters
<1>4. MoreEdited
  BY StillCalm DEF JobRecord, CInv, Typed
<1>5. CASE UNCHANGED <<entries, lastEntry>>
  BY <1>1, <1>3, <1>4, <1>5, QuietJobSound
<1>6. CASE NewEntry(Issued(o), o, "panel")
  <2>1. PICK p \in Paths, c \in Bytes : p = Issued(o) /\ c = o
    BY PathKinds DEF Bytes
  <2>2. NewEntry(p, c, "panel") /\ \A j \in Entries : p # Stored(j)
    BY <1>6, <2>1, PathKinds
  <2>3. files' = files /\ conf' = conf
    BY <1>1 DEF disk
  <2>4. StoreInv' /\ StoredStays
    BY <2>2, <2>3, StoreGrows DEF CInv, SoundInv
  <2>5. ServedInv'
    BY <1>1, <1>4, ServedKept DEF SoundInv
  <2>6. thread'[Req] = thread[Req] /\ (mu # Null => thread'[mu] = thread[mu])
    BY <1>1, <1>3, JobAlone
  <2>7. QED
    BY <1>1, <1>4, <2>3, <2>4, <2>5, <2>6, Apart
<1>7. QED
  BY <1>5, <1>6 DEF JobRecord

LEMMA JobDeploySound ==
  ASSUME CInv, SoundInv, NEW o \in Orders, JobDeploy(o)
  PROVE  SoundInv'
<1>1. PICK s, k : s = thread[o].site /\ k = thread[o].entry
  OBVIOUS
<1>2. /\ thread[o] # Null /\ thread[o].pc = "deploy" /\ mu = Null
      /\ UNCHANGED <<live, entries, links, lastEntry, disk, sweep>> /\ (UNCHANGED spent \/ Fault)
      /\ IF Deployable(s, k)
         THEN /\ Deploying(s, k) /\ mu' = o
              /\ thread' = [thread EXCEPT ![o].pc = "install", ![o].tx = Deployment(s, k), ![o].undo = ssl[s]]
              /\ UNCHANGED orders
         ELSE /\ JobEnded(o) /\ UNCHANGED <<ssl, mu>>
  BY <1>1 DEF JobDeploy, MarkIfSaved, At
<1>3. MoreEdited /\ StoredStays
  BY <1>2, SpentFacts DEF MoreEdited, StoredStays, CInv, Typed, Calm
<1>4. CASE ~Deployable(s, k)
  BY <1>2, <1>4, JobStops, <1>3, QuietJobSound
<1>5. CASE Deployable(s, k)
  <2>1. /\ s \in Sites /\ s \in live /\ k \in Entries /\ entries[k] # Null /\ conf[s] # Absent
        /\ \A x \in Sites : x # s => ssl'[x] = ssl[x]
    BY <1>2, <1>5, DeployingFacts DEF CInv
  <2>2. PICK x : x = Deployment(s, k)
    OBVIOUS
  <2>3. x \in Tx(Sites)
    BY <2>1, <2>2, DeployFacts DEF CInv
  <2>4. PICK u \in SslRow \cup {Null} : u = ssl[s]
    BY <2>1 DEF CInv, Typed, TablesOK
  <2>5. PICK n : n = [[[thread[o] EXCEPT !.pc = "install"] EXCEPT !.tx = x] EXCEPT !.undo = u]
    OBVIOUS
  <2>6. thread[o] \in Thread(Sites) /\ thread[o].op \in {"obtain", "forced"} /\ o \in Threads /\ o # Req
    BY <1>2, JobIs
  <2>7. n \in Thread(Sites) /\ n.pc = "install" /\ n.op = thread[o].op /\ n.site = s /\ n.undo = u
    BY <1>1, <2>3, <2>5, <2>6, JobPlacesAre DEF Thread
  <2>8. Alters(o, n)
    BY <1>2, <1>5, <2>2, <2>4, <2>5 DEF Alters
  <2>9. StoreInv'
    BY <1>2, StoreKept DEF SoundInv, disk
  <2>10. QED
    BY <1>2, <1>3, <1>5, <2>1, <2>4, <2>6, <2>7, <2>8, <2>9, Taken
<1>6. QED
  BY <1>4, <1>5

LEMMA ThreadIs ==
  ASSUME CInv, NEW t \in Threads, thread[t] # Null
  PROVE  thread[t] \in Thread(Sites) /\ Fits(t, thread[t]) /\ Placed(t, thread[t]) /\ Writes(t, thread[t])
BY IsThread DEF CInv, Typed, ThreadsInv, Fits

(* What an imported site names, when configurations change.                *)
LEMMA UnmarkedMoves ==
  ASSUME UnmarkedInv, live' \subseteq live, MoreEdited,
         \A s \in Sites : s \in live /\ s \notin Marked /\ s \notin spent'.edited =>
           \/ /\ conf'[s] = conf[s] /\ links'[s] = links[s] /\ (Swapped(s) => Swapped(s)')
              /\ \A k \in Entries : NamedAs(s, k) => entries'[k] = entries[k]
           \/ Named0(s)' \/ \E k \in Entries : NamedAs(s, k)'
  PROVE  UnmarkedInv'
<1>1. ASSUME NEW s \in Sites, s \in live', s \notin Marked, s \notin spent'.edited
      PROVE  Named0(s)' \/ \E k \in Entries : NamedAs(s, k)'
  <2>1. Named0(s) \/ \E k \in Entries : NamedAs(s, k)
    BY <1>1 DEF UnmarkedInv, MoreEdited
  <2>2. s \in live
    BY <1>1
  <2>3. CASE /\ conf'[s] = conf[s] /\ links'[s] = links[s] /\ (Swapped(s) => Swapped(s)')
             /\ \A k \in Entries : NamedAs(s, k) => entries'[k] = entries[k]
    BY <2>3, <2>1 DEF Named0, NamedAs
  <2>4. QED
    BY <1>1, <2>2, <2>3
<1>2. QED
  BY <1>1 DEF UnmarkedInv

(* The configuration of the row is installed.                              *)
LEMMA Rewritten ==
  ASSUME CInv, SoundInv, NEW t \in Threads, NEW n \in Thread(Sites), thread[t] # Null, Alters(t, n), Same(n, thread[t]),
         mu = t, mu' = mu, Rewrites(thread[t]), thread[t].pc \in {"call", "install"}, n.pc \in {"done", "settle"},
         Acceptable(n.tx), Install(n.tx), UNCHANGED <<live, ssl, links, entries>>, MoreEdited,
         n.site \in live, t # Req => conf[n.site] # Absent
  PROVE  SoundInv'
<1>1. PICK r \in Thread(Sites) : r = thread[t] /\ Fits(t, r) /\ Placed(t, r) /\ Writes(t, r)
  BY ThreadIs
<1>2. /\ n.op = r.op /\ n.site = r.site /\ n.tx = r.tx /\ n.entry = r.entry
      /\ r.site \in Sites /\ r.site \in live /\ r.site \in Marked /\ Rewriting(t, r) /\ r.tx \in Tx(Sites)
  BY <1>1 DEF Same, Alike, Fits, Writes, Thread, Rewriting, CInv, Typed, TablesOK
<1>3. r.op \notin {"replace", "upload", "delete", "site"} /\ (t = Req => r.op \in RowOps)
  BY <1>1 DEF Rewrites, Placed, RowOps, JobPlaces, ReqPlaces
<1>4. /\ r.tx.test /\ DOMAIN r.tx.conf = {r.site} /\ Matches(ssl[r.site], r.tx.conf[r.site])
      /\ \A k \in Entries : ~Brings(r.tx, k)
  BY <1>2 DEF Rewriting
<1>5. /\ \A p \in Paths : files'[p] = IF p \in DOMAIN r.tx.files THEN r.tx.files[p] ELSE files[p]
      /\ \A s \in Sites : s # r.site => conf'[s] = conf[s]
      /\ conf'[r.site] = r.tx.conf[r.site]
  BY <1>2, <1>4, InstallFacts DEF CInv, Typed
<1>6. thread'[t] = n /\ (\A u \in Threads : u # t => thread'[u] = thread[u]) /\ mu' = t /\ t # Null
  BY Altered, PlacesAre DEF CInv, Typed
<1>7. \A s \in Sites : /\ HolderAt(s) <=> s = r.site
                       /\ ~Ahead(s)' /\ ~Swapped(s)' /\ ~Swapping(s)' /\ ~Swapped(s) /\ ~Swapping(s)
  BY <1>1, <1>2, <1>3, <1>6 DEF HolderAt, Ahead, Swapped, Swapping
<1>8. StoreInv'
  BY <1>4, <1>5, PathKinds, FilesGo DEF Brings, SoundInv
<1>9. ServedInv'
  BY <1>2, <1>4, TestedServed DEF CInv
<1>10. RowsInv'
  <2>1. ASSUME NEW s \in Sites, s \in live, s \in Marked, s \notin spent'.edited, conf'[s] # Absent
        PROVE  Matches(ssl[s], conf'[s])
    <3>1. CASE s = r.site
      BY <1>4, <1>5, <3>1
    <3>2. CASE s # r.site
      BY <1>7, <3>2, <1>5, <2>1 DEF Ahead, SoundInv, RowsInv, MoreEdited
    <3>3. QED
      BY <3>1, <3>2
  <2>2. QED
    BY <1>7, <2>1 DEF RowsInv
<1>11. SwapInv'
  BY <1>7 DEF SwapInv
<1>12. UnmarkedInv'
  BY <1>2, <1>5, <1>7, UnmarkedMoves DEF SoundInv
<1>13. DeadInv'
  <2>1. \A s \in Sites : s \notin live => conf'[s] = Absent
    BY <1>2, <1>5 DEF SoundInv, DeadInv
  <2>2. ASSUME thread'[Req] # Null, thread'[Req].op = "site", thread'[Req].pc = "done"
        PROVE  conf'[thread'[Req].site] = Absent
    <3>1. t # Req /\ thread'[Req] = thread[Req]
      BY <1>2, <1>3, <1>6, <2>2, PlacesAre
    <3>2. conf[thread[Req].site] = Absent /\ thread[Req].site \in Sites
      BY <2>2, <3>1, RequestIs DEF SoundInv, DeadInv, Fits
    <3>3. thread[Req].site # r.site
      BY <1>2, <3>1, <3>2
    <3>4. QED
      BY <1>5, <3>1, <3>2, <3>3
  <2>3. QED
    BY <2>1, <2>2 DEF DeadInv
<1>14. ReqInv'
  <2>1. CASE t = Req
    BY <1>2, <1>6, <2>1, <1>1, <1>3 DEF LiveInv, SoundInv, ReqInv, UseInv, UploadInv, DeleteInv
  <2>2. CASE t # Req
    <3>1. thread'[Req] = thread[Req]
      BY <1>6, <2>2, PlacesAre
    <3>2. thread[Req] = Null \/ thread[Req].op \notin {"use", "upload", "delete"}
      BY <2>2, RequestIs DEF Fits, Placed, Holds, Rewrites, RowOps
    <3>3. LiveInv'
      BY <3>1 DEF SoundInv, ReqInv, LiveInv
    <3>4. QED
      BY <3>1, <3>2, <3>3 DEF ReqInv, UseInv, UploadInv, DeleteInv
  <2>3. QED
    BY <2>1, <2>2
<1>15. QED
  BY <1>8, <1>9, <1>10, <1>11, <1>12, <1>13, <1>14 DEF SoundInv

(* A call that was refused or failed.                                      *)
LEMMA Refused ==
  ASSUME CInv, SoundInv, NEW t \in Threads, NEW n \in Thread(Sites), thread[t] # Null, Alters(t, n), Same(n, thread[t]),
         thread[t].pc \in {"call", "install"}, n.pc \in {"failed", "rollback"}, UNCHANGED <<tables, disk, mu>>, MoreEdited
  PROVE  SoundInv'
<1>1. /\ thread'[t] = n /\ \A u \in Threads : u # t => thread'[u] = thread[u]
      /\ n.op = thread[t].op /\ n.site = thread[t].site /\ n.entry = thread[t].entry /\ n.undo = thread[t].undo /\ n # Null
  BY Altered, ThreadNotNull DEF CInv, Typed, Same, Alike
<1>2. UNCHANGED <<live, ssl, links, entries, files, conf>>
  BY DEF tables, disk
<1>3. \A s \in Sites : /\ HolderAt(s)' <=> HolderAt(s)
                       /\ Ahead(s)' <=> Ahead(s)
                       /\ Swapping(s)' <=> Swapping(s)
                       /\ (~Swapped(s)' /\ ~Swapped(s)) \/ (mu # t /\ (Swapped(s)' <=> Swapped(s)))
                       /\ mu # Null => thread'[mu].undo = thread[mu].undo /\ thread'[mu].entry = thread[mu].entry
  <2>1. mu \in Threads \cup {Null}
    BY DEF CInv, Typed, MemoryOK
  <2>2. CASE mu = t
    BY PlacesAre, <1>1, <2>2 DEF HolderAt, Ahead, Swapping, Swapped
  <2>3. CASE mu # t
    BY <1>1, <2>1, <2>3 DEF HolderAt, Ahead, Swapping, Swapped
  <2>4. QED
    BY <2>2, <2>3
<1>4. \A s \in Sites : Swapped(s)' <=> Swapped(s)
  BY <1>3
<1>5. RowsInv'
  <2>1. ASSUME NEW s \in Sites, s \in live, s \in Marked, s \notin spent'.edited, conf[s] # Absent
        PROVE  /\ Ahead(s)' => Matches(thread'[mu'].undo, conf[s])
               /\ Swapping(s)' => Enabled(s)'
               /\ ~Ahead(s)' /\ ~Swapped(s)' => Matches(ssl[s], conf[s])
    BY <2>1, <1>3, <1>2, <1>4 DEF SoundInv, RowsInv, MoreEdited, Ahead, HolderAt, Enabled
  <2>2. QED
    BY <1>2, <2>1 DEF RowsInv
<1>6. SwapInv'
  <2>1. ASSUME NEW s \in Sites, s \in live', s \notin spent'.edited, Swapped(s)'
        PROVE  conf'[s] = entries'[thread'[mu'].entry].path
    BY <1>2, <1>4, <2>1, <1>3 DEF SoundInv, SwapInv, MoreEdited, Swapped, Swapping, HolderAt
  <2>2. QED
    BY <2>1 DEF SwapInv
<1>7. UnmarkedInv'
  BY <1>2, <1>4, UnmarkedMoves DEF SoundInv
<1>8. StoreInv' /\ ServedInv'
  BY <1>2, StoreKept, ServedKept DEF SoundInv
<1>9. ReqInv' /\ DeadInv'
  <2>1. CASE t = Req
    <3>1. thread[Req].pc = "call"
      BY <1>1, <2>1, ThreadIs DEF Placed, ReqPlaces
    <3>2. LiveInv'
      BY <1>1, <1>2, <2>1, <3>1 DEF SoundInv, ReqInv, LiveInv
    <3>3. UseInv'
      BY <1>1, <1>2, <2>1 DEF SoundInv, ReqInv, UseInv
    <3>4. UploadInv'
      BY <1>1, <1>2, <2>1, <3>1 DEF SoundInv, ReqInv, UploadInv
    <3>5. DeleteInv'
      BY <1>1, <1>2, <2>1, <3>1 DEF SoundInv, ReqInv, DeleteInv, MoreEdited
    <3>6. DeadInv'
      BY <1>1, <1>2, <2>1, <3>1 DEF SoundInv, DeadInv
    <3>7. QED
      BY <3>2, <3>3, <3>4, <3>5, <3>6 DEF ReqInv
  <2>2. CASE t # Req
    BY <1>1, <2>2, PlacesAre, <1>2, ReqKept DEF StoredStays, SoundInv
  <2>3. QED
    BY <2>1, <2>2
<1>10. QED
  BY <1>5, <1>6, <1>7, <1>8, <1>9 DEF SoundInv

LEMMA JobInstallSound ==
  ASSUME CInv, SoundInv, Good', NEW o \in Orders, JobInstall(o)
  PROVE  SoundInv'
<1>1. thread[o] # Null /\ thread[o].pc = "install" /\ Called(o, "settle", "rollback") /\ UNCHANGED <<tables, mu, sweep>>
  BY DEF JobInstall, At
<1>2. UNCHANGED <<live, ssl, entries, links>>
  BY <1>1 DEF tables
<1>3. PICK a \in ReqPlaces \cup JobPlaces, b \in ReqPlaces \cup JobPlaces : a = "settle" /\ b = "rollback"
  BY JobPlacesAre
<1>4. Typed /\ Called(o, a, b) /\ o \in Threads /\ o # Req /\ mu = o
  BY <1>1, <1>3, JobIs DEF CInv
<1>5. PICK n \in Thread(Sites) :
         /\ Alters(o, n) /\ Same(n, thread[o])
         /\ \/ n.pc = a /\ Acceptable(n.tx) /\ Install(n.tx) /\ Calm
            \/ n.pc = b /\ UNCHANGED disk /\ Calm
            \/ spent'.mishap
  BY <1>1, <1>4, CalledFacts
<1>6. MoreEdited
  BY <1>5 DEF Calm, MoreEdited, Good
<1>7. CASE n.pc = b /\ UNCHANGED disk
  BY <1>1, <1>3, <1>4, <1>5, <1>6, <1>7, Refused
<1>8. CASE n.pc = a /\ Acceptable(n.tx) /\ Install(n.tx)
  <2>1. PICK r \in Thread(Sites) : r = thread[o] /\ Writes(o, r) /\ r.site \in Sites
    BY <1>1, <1>4, ThreadIs, JobIs
  <2>2. Rewrites(r) /\ r.tx.hash # {} /\ Absent \notin r.tx.hash /\ DOMAIN r.tx.conf = {r.site}
    BY <1>1, <1>4, <2>1 DEF Rewrites, Writes, Rewriting
  <2>3. n.tx = r.tx /\ n.site = r.site
    BY <1>5, <2>1 DEF Same, Alike
  <2>4. conf[n.site] # Absent
    BY <1>8, <2>2, <2>3 DEF Acceptable
  <2>5. n.site \in live
    BY <2>1, <2>3, <2>4 DEF SoundInv, DeadInv
  <2>6. QED
    BY <1>1, <1>2, <1>3, <1>4, <1>5, <1>6, <1>8, <2>1, <2>2, <2>4, <2>5, Rewritten
<1>9. QED
  BY <1>5, <1>7, <1>8 DEF Good

LEMMA JobRollbackSound ==
  ASSUME CInv, SoundInv, Good', NEW o \in Orders, JobRollback(o)
  PROVE  SoundInv'
<1>1. /\ thread[o] # Null /\ thread[o].pc = "rollback" /\ JobEnded(o) /\ mu' = Null
      /\ ssl' = [ssl EXCEPT ![thread[o].site] = thread[o].undo]
      /\ UNCHANGED <<live, entries, links, lastEntry, disk, sweep>> /\ MoreEdited
  <2>1. ~Mishap
    BY SpentFacts DEF CInv, Typed, Good
  <2>2. UNCHANGED spent \/ Fault => MoreEdited
    BY SpentFacts DEF CInv, Typed, Calm, MoreEdited
  <2>3. QED
    BY <2>1, <2>2 DEF JobRollback, MarkIfSaved, At, Unlock, RollbackSSL
<1>2. mu = o /\ o \in Threads /\ o # Req /\ thread[o] \in Thread(Sites) /\ thread[o].op \in {"obtain", "forced"}
  BY <1>1, JobIs
<1>3. PICK s \in Sites, u \in SslRow \cup {Null} : s = thread[o].site /\ u = thread[o].undo /\ RowOK(u)
  BY <1>1, <1>2, JobIs DEF Thread
<1>4. ssl' = [ssl EXCEPT ![s] = u]
  BY <1>1, <1>3
<1>5. ssl'[s] = u /\ \A x \in Sites : x # s => ssl'[x] = ssl[x]
  BY <1>3, <1>4, RowWritten DEF CInv, Typed
<1>6. Ahead(s) /\ (\A x \in Sites : ~Swapped(x)) /\ MoreEdited /\ Alters(o, Null)
  BY <1>1, <1>2, <1>3, PlacesAre, JobStops DEF Ahead, HolderAt, Swapped, Swapping, MoreEdited
<1>7. s \in live /\ s \in Marked /\ s \notin spent.edited /\ conf[s] # Absent => Matches(ssl'[s], conf[s])
  BY <1>2, <1>3, <1>5, <1>6 DEF SoundInv, RowsInv
<1>8. StoreInv' /\ UnmarkedInv'
  BY <1>1, StoreKept, <1>6, UnmarkedMoves DEF disk, SoundInv
<1>9. QED
  BY <1>1, <1>2, <1>3, <1>5, <1>6, <1>7, <1>8, Released

LEMMA JobSettleSound ==
  ASSUME CInv, SoundInv, Good', NEW o \in Orders, JobSettle(o)
  PROVE  SoundInv'
<1>1. /\ thread[o] # Null /\ thread[o].pc = "settle" /\ mu' = Null
      /\ UNCHANGED <<live, ssl, entries, links, lastEntry, disk, sweep>>
      /\ UNCHANGED spent \/ Fault
      /\ JobEnded(o) \/ GoOn(o, "complete")
  BY DEF JobSettle, At, Unlock
<1>2. mu = o /\ o \in Threads /\ o # Req /\ thread[o].op \in {"obtain", "forced"} /\ thread[o].site \in Sites
  BY <1>1, JobIs
<1>3. PICK n : Alters(o, n)
  BY <1>1, GoesOn, JobStops
<1>4. (\A x \in Sites : ~Swapped(x) /\ ~Ahead(x)) /\ MoreEdited
  BY <1>1, <1>2, StillCalm DEF Ahead, HolderAt, Swapped, Swapping, CInv, Typed
<1>5. \A s \in Sites : s \in live /\ s \in Marked /\ s \notin spent.edited /\ conf[s] # Absent => Matches(ssl'[s], conf[s])
  BY <1>1, <1>4 DEF SoundInv, RowsInv
<1>6. StoreInv' /\ UnmarkedInv'
  BY <1>1, StoreKept, <1>4, UnmarkedMoves DEF disk, SoundInv
<1>7. QED
  BY <1>1, <1>2, <1>3, <1>4, <1>5, <1>6, Released

LEMMA JobSound ==
  ASSUME CInv, SoundInv, Good', NEW o \in Orders, JobGoesOn(o)
  PROVE  SoundInv'
BY JobPrepareSound, JobChallengeSound, JobAskSound, JobSaveSound, JobEndsSound, JobRecordSound, JobDeploySound,
   JobInstallSound, JobRollbackSound, JobSettleSound DEF JobGoesOn

(* A new job, and the scheduled renewal.                                   *)
LEMMA LaunchSound ==
  ASSUME CInv, SoundInv, NEW s \in Sites, NEW auto \in BOOLEAN, NEW previous \in Orders \cup {Null},
         NEW forced \in BOOLEAN, Launch(s, auto, previous, forced),
         UNCHANGED <<live, ssl, entries, links, disk, mu>>, MoreEdited
  PROVE  SoundInv'
BY LaunchFacts, Altered, PlacesAre, Quiet DEF CInv, Typed, LockInv, MemoryOK

LEMMA SweepSound ==
  ASSUME CInv, SoundInv, SweepSteps
  PROVE  SoundInv'
<1>1. CASE UNCHANGED <<tables, disk, thread, mu>> /\ MoreEdited
  BY <1>1, Quiet DEF tables
<1>2. CASE RunScheduledRenewal
  BY <1>2, <1>1 DEF RunScheduledRenewal, CInv, Typed, Spent, MoreEdited
<1>3. CASE SweepGoesOn
  BY <1>1, <1>3 DEF SweepGoesOn, MoreEdited
<1>4. ASSUME NEW o \in Orders, RenewOrderForScheduledTask(o)
      PROVE  SoundInv'
  <2>1. UNCHANGED <<live, ssl, entries, links, lastEntry, disk, mu, spent>> /\ o \in DOMAIN sweep.todo /\ sweep # Null
    BY <1>4 DEF RenewOrderForScheduledTask
  <2>2. MoreEdited
    BY <2>1 DEF MoreEdited
  <2>3. CASE UNCHANGED <<orders, thread>>
    BY <2>1, <2>2, <2>3, Quiet
  <2>4. CASE Launch(sweep.todo[o], TRUE, o, FALSE)
    BY <2>1, SweepFacts, <2>4, <2>2, LaunchSound DEF CInv
  <2>5. QED
    BY <1>4, <2>3, <2>4 DEF RenewOrderForScheduledTask
<1>5. QED
  BY <1>2, <1>3, <1>4 DEF SweepSteps

-----------------------------------------------------------------------------
(* Requests.                                                               *)

(* Steps while no thread holds the mutex.                                  *)
LEMMA Unheld ==
  ASSUME CInv, SoundInv, mu = Null, mu' = Null, thread'[Req] = thread[Req] \/ Idle(thread'[Req]), UNCHANGED <<live, disk>>, MoreEdited,
         \A s \in Sites : s \in live /\ s \in Marked /\ s \notin spent.edited /\ conf[s] # Absent => Matches(ssl'[s], conf[s]),
         StoreInv', UnmarkedInv'
  PROVE  SoundInv'
<1>1. UNCHANGED <<files, conf>> /\ mu # Req
  BY PlacesAre DEF disk
<1>2. ReqInv' /\ DeadInv'
  BY <1>1, ReqKept DEF SoundInv
<1>3. \A s \in Sites : ~Ahead(s)' /\ ~Swapping(s)' /\ ~Swapped(s)'
  BY DEF HolderAt, Ahead, Swapping, Swapped
<1>4. RowsInv'
  BY <1>1, <1>3 DEF RowsInv, MoreEdited
<1>5. SwapInv'
  BY <1>3 DEF SwapInv
<1>6. ServedInv'
  BY ServedKept DEF SoundInv
<1>7. QED
  BY <1>2, <1>4, <1>5, <1>6 DEF SoundInv

(* What is served while no thread holds the mutex.                         *)
LEMMA RowsMatch ==
  ASSUME SoundInv, mu = Null
  PROVE  /\ \A s \in Sites : ~Swapped(s)
         /\ \A s \in Sites : s \in live /\ s \in Marked /\ s \notin spent.edited /\ conf[s] # Absent => Matches(ssl[s], conf[s])
BY DEF SoundInv, RowsInv, HolderAt, Ahead, Swapping, Swapped

LEMMA ConfigureSound ==
  ASSUME CInv, SoundInv, Good', NEW s \in Sites, NEW op \in {"use", "disable"},
         NEW mode \in {"manual_pem", "existing_files", "disabled"},
         NEW p \in Paths \cup {Null}, p \in Paths <=> mode # "disabled", NEW c \in Bytes \cup {Null},
         op = "use" => \A k \in Entries : p = Stored(k) => entries[k] # Null /\ entries[k].sha = c,
         NEW w \in Partly(Paths, Bytes \cup {Absent}),
         Configure(op, s, mode, p, c, w)
  PROVE  SoundInv'
<1>1. PICK r : r = Naming(mode, p, c, Null)
  OBVIOUS
<1>2. /\ r \in SslRow /\ r # Null /\ RowOK(r)
      /\ r.mode = mode /\ r.path = p /\ r.sha = c /\ r.entry = Null
  BY <1>1, NamingFacts
<1>3. /\ ssl' = [ssl EXCEPT ![s] = r] /\ thread[Req] = Null /\ mu = Null /\ s \in live
      /\ UNCHANGED <<live, entries, links, orders, lastEntry, disk, sweep>>
  BY <1>1 DEF Configure, Serve
<1>4. ssl'[s] = r /\ \A x \in Sites : x # s => ssl'[x] = ssl[x]
  BY <1>2, <1>3, RowWritten DEF CInv, Typed
<1>5. StoreInv' /\ StoredStays
  BY <1>3, StoreKept DEF SoundInv, disk, StoredStays
<1>6. Served
  <2>1. ASSUME spent' = [spent EXCEPT !.requests = @ + 1, !.faults = @ + 1, !.mishap = TRUE]
        PROVE  spent'.mishap
    BY <2>1 DEF CInv, Typed, Spent
  <2>2. QED
    BY <2>1 DEF Configure, Good
<1>7. MoreEdited
  BY <1>6, StillCalm DEF CInv, Typed
<1>8. CASE /\ Renderable(s) /\ Request(op, "call", s, Null, Null, [NoTx EXCEPT !.files = w, !.conf = Put(s, p)])
           /\ mu' = Req
  <2>0. p \in Named
    BY DEF Named
  <2>1. Put(s, p) \in Partly(Sites, Named)
    BY <2>0, PutConf
  <2>2. PICK y : y = Put(s, p)
    OBVIOUS
  <2>3. PICK x : x = [NoTx EXCEPT !.files = w, !.conf = y]
    OBVIOUS
  <2>4. x \in Tx(Sites)
    BY <2>1, <2>2, <2>3, NoTxForm DEF Tx
  <2>5. PICK n \in Thread(Sites) :
           /\ Alters(Req, n) /\ n.op = op /\ n.pc = "call" /\ n.site = s
           /\ n.undo = (IF s \in live THEN ssl[s] ELSE Null)
    BY <1>8, <2>2, <2>3, <2>4, Requested, PlacesAre DEF CInv
  <2>6. thread'[Req] = n
    BY <2>5, Altered, PlacesAre DEF CInv, Typed
  <2>7. ReqInv'
    BY <1>3, <2>5, <2>6, <1>2, <1>4 DEF LiveInv, UseInv, UploadInv, DeleteInv, ReqInv
  <2>8. n.op \notin {"replace", "upload", "delete"} /\ n.pc \in {"call", "install"} /\ n.site \in live /\ n.undo = ssl[n.site] /\ n.pc # "done"
    BY <1>3, <2>5
  <2>9. \A x1 \in Sites : x1 # n.site => ssl'[x1] = ssl[x1]
    BY <1>4, <2>5
  <2>10. QED
    BY <1>3, <1>5, <1>7, <1>8, <2>5, <2>7, <2>8, <2>9, Taken, PlacesAre
<1>9. CASE ~Renderable(s) /\ UNCHANGED <<thread, mu>>
  <2>1. \A x \in Sites : x \in live /\ x \in Marked /\ x \notin spent.edited /\ conf[x] # Absent => Matches(ssl'[x], conf[x])
    BY <1>3, <1>4, <1>9, RowsMatch DEF Renderable
  <2>2. UnmarkedInv'
    BY <1>3, <1>5, <1>7, RowsMatch, UnmarkedKept DEF SoundInv, disk
  <2>3. QED
    BY <1>3, <1>5, <1>7, <1>9, <2>1, <2>2, Unheld
<1>10. QED
  <2>1. Renderable(s) \/ ~Renderable(s)
    OBVIOUS
  <2>2. ASSUME spent' = [spent EXCEPT !.requests = @ + 1, !.faults = @ + 1, !.mishap = TRUE]
        PROVE  FALSE
    BY <2>2 DEF CInv, Typed, Spent, Good
  <2>3. QED
    BY <1>8, <1>9, <2>2 DEF Configure

LEMMA ManualSound ==
  ASSUME CInv, SoundInv, Good', NEW s \in Sites, NEW c \in Certs, ManualPEM(s, c)
  PROVE  SoundInv'
BY PathKinds, PutIsPart, ConfigureSound DEF Bytes, ManualPEM

LEMMA ExistingSound ==
  ASSUME CInv, SoundInv, Good', NEW s \in Sites, NEW p \in Paths, ExistingFiles(s, p)
  PROVE  SoundInv'
BY NothingIsPart, ConfigureSound DEF ExistingFiles, CInv, Typed, DiskOK, SoundInv, StoreInv,
   FileInv

LEMMA DisableSound ==
  ASSUME CInv, SoundInv, Good', NEW s \in Sites, NEW b \in BOOLEAN, Disable(s, b)
  PROVE  SoundInv'
BY DisableFacts, PathsAssumption, ConfigureSound DEF CInv

(* A request or a redeployment that takes the mutex and rewrites the row.  *)
LEMMA DeploySound ==
  ASSUME CInv, SoundInv, NEW s, NEW k, NEW op \in {"deploy", "redeploy"}, NEW o \in Orders \cup {Null},
         mu = Null, mu' = Req, Deployable(s, k), Deploying(s, k),
         Request(op, "call", s, k, o, Deployment(s, k)),
         UNCHANGED <<live, entries, links, disk>>, MoreEdited
  PROVE  SoundInv'
<1>1. /\ s \in Sites /\ s \in live /\ k \in Entries /\ entries[k] # Null /\ conf[s] # Absent
      /\ \A x \in Sites : x # s => ssl'[x] = ssl[x]
  BY DeployingFacts DEF CInv
<1>2. PICK x : x = Deployment(s, k)
  OBVIOUS
<1>3. x \in Tx(Sites)
  BY <1>1, <1>2, DeployFacts DEF CInv
<1>4. PICK n \in Thread(Sites) :
         /\ Alters(Req, n) /\ n.op = op /\ n.pc = "call" /\ n.site = s
         /\ n.undo = (IF s \in live THEN ssl[s] ELSE Null)
  BY <1>1, <1>2, <1>3, Requested, PlacesAre DEF CInv
<1>5. thread'[Req] = n
  BY <1>4, Altered, PlacesAre DEF CInv, Typed
<1>6. ReqInv'
  BY <1>1, <1>4, <1>5 DEF ReqInv, LiveInv, UseInv, UploadInv, DeleteInv
<1>7. StoreInv' /\ StoredStays
  BY StoreKept DEF SoundInv, disk, StoredStays
<1>8. n.op \notin {"replace", "upload", "delete"} /\ n.pc \in {"call", "install"} /\ n.site \in live /\ n.undo = ssl[n.site] /\ n.pc # "done"
  BY <1>1, <1>4
<1>9. \A y \in Sites : y # n.site => ssl'[y] = ssl[y]
  BY <1>1, <1>4
<1>10. QED
  BY <1>4, <1>6, <1>7, <1>8, <1>9, Taken, PlacesAre

LEMMA DeployRequestSound ==
  ASSUME CInv, SoundInv, Good', NEW s \in Sites, NEW k \in Entries, DeployFromStore(s, k)
  PROVE  SoundInv'
BY StillCalm, DeploySound DEF DeployFromStore, CInv, Typed, Locked

LEMMA UploadSound ==
  ASSUME CInv, SoundInv, Good', NEW c \in Certs, UploadToStore(c)
  PROVE  SoundInv'
<1>1. PICK k : k = NextEntry
  OBVIOUS
<1>2. /\ mu = Null /\ mu' = Req /\ Served /\ NewEntry(Stored(k), c, "panel") /\ BySHA256(c) = {}
      /\ UNCHANGED <<live, ssl, links, orders, disk, sweep>>
  BY <1>1 DEF UploadToStore, Locked, Served, Serve
<1>3. k \in Entries /\ Stored(k) \in Paths /\ c \in Bytes
  BY <1>1, <1>2, PathKinds DEF NewEntry, Bytes
<1>4. \A j \in Entries : entries[j] # Null => entries[j].sha # c
  BY <1>2, BySHAFacts DEF CInv, Typed
<1>5. StoreInv' /\ StoredStays /\ files[Stored(k)] = Absent /\ files' = files
  BY <1>1, <1>2, <1>3, <1>4, StoreGrows DEF CInv, SoundInv, disk
<1>6. Put(Stored(k), c) \in Partly(Paths, Bytes \cup {Absent})
  BY <1>3, PutIsPart
<1>7. PICK y : y = Put(Stored(k), c)
  OBVIOUS
<1>8. PICK x : x = [NoTx EXCEPT !.files = y, !.test = FALSE]
  OBVIOUS
<1>9. x \in Tx(Sites)
  BY <1>6, <1>7, <1>8, NoTxForm DEF Tx
<1>10. PICK n \in Thread(Sites) : Alters(Req, n) /\ n.op = "upload" /\ n.pc = "call" /\ n.site = Null /\ n.entry = k
  BY <1>1, <1>3, <1>7, <1>8, <1>9, Requested, PlacesAre DEF CInv, UploadToStore
<1>11. thread'[Req] = n
  BY <1>10, Altered, PlacesAre DEF CInv, Typed
<1>12. ReqInv'
  BY <1>5, <1>10, <1>11 DEF ReqInv, LiveInv, UseInv, UploadInv, DeleteInv, RowOps
<1>13. MoreEdited
  BY <1>2, StillCalm DEF CInv, Typed
<1>14. n.site = Null /\ n.pc # "done" /\ ssl' = ssl
  BY <1>2, <1>10
<1>15. QED
  BY <1>2, <1>5, <1>10, <1>12, <1>13, <1>14, Taken, PlacesAre

(* Nobody names the file of an entry that no site has to do with.          *)
LEMMA NobodyNames ==
  ASSUME CInv, SoundInv, NEW k \in Entries, entries[k] # Null, CertificateSource(k) = "panel", mu = Null,
         AssociatedSites(k) = {}, NEW s \in Sites, s \notin spent.edited
  PROVE  conf[s] # entries[k].path
<1>1. entries[k].path \in Paths /\ entries[k].path[1] # "outside"
  BY DEF CertificateSource, ManagedPath, CInv, Typed, TablesOK, Entry
<1>2. CASE s \notin live
  BY <1>2, <1>1, PathsAssumption DEF SoundInv, DeadInv
<1>3. CASE s \in live /\ s \in Marked
  BY <1>1, PathsAssumption, <1>3, RowsMatch DEF Matches, AssociatedSites
<1>4. CASE s \in live /\ s \notin Marked
  BY <1>1, PathKinds, PathsAssumption, <1>4, RowsMatch DEF Named0, SoundInv, UnmarkedInv, NamedAs,
     StoreInv, OldestInv, AssociatedSites
<1>5. QED
  BY <1>2, <1>3, <1>4

LEMMA DeleteFromStoreSound ==
  ASSUME CInv, SoundInv, Good', NEW k \in Entries, DeleteFromStore(k)
  PROVE  SoundInv'
<1>1. /\ thread[Req] = Null /\ mu = Null /\ Served /\ entries[k] # Null
      /\ UNCHANGED <<live, orders, lastEntry, disk, sweep>>
  BY DEF DeleteFromStore, Served, Serve, Kept
<1>2. MoreEdited /\ files' = files /\ conf' = conf
  BY <1>1, StillCalm DEF CInv, Typed, disk
<1>3. CASE CertificateSource(k) = "external" /\ ForgetExternal(k) /\ UNCHANGED <<thread, mu>>
  <2>1. /\ entries'[k] = Null
        /\ \A j \in Entries : j # k => entries'[j] = entries[j]
        /\ \A s \in Sites : links[s] # k => links'[s] = links[s]
        /\ \A s \in Sites : IF ssl[s] = Null THEN ssl'[s] = Null
             ELSE ssl'[s] # Null /\ ssl'[s].mode = ssl[s].mode /\ ssl'[s].path = ssl[s].path
    BY <1>3, ForgetFacts DEF CInv, Typed
  <2>2. \A j \in Entries : entries[k].path # Stored(j)
    <3>1. ASSUME NEW j \in Entries, entries[k].path = Stored(j)
          PROVE  FALSE
      BY <1>1, <3>1, <1>3, PathKinds DEF SoundInv, StoreInv, OldestInv, CertificateSource,
         ManagedPath
    <3>2. QED
      BY <3>1
  <2>3. files[Stored(k)] = Absent
    BY <2>2 DEF SoundInv, StoreInv, FileInv
  <2>4. StoreInv'
    BY <1>2, <2>1, <2>3, StoreShrinks DEF SoundInv
  <2>5. UnmarkedInv'
    <3>1. ASSUME NEW s \in Sites, s \in live, s \notin Marked, s \notin spent'.edited
          PROVE  Named0(s)' \/ \E j \in Entries : NamedAs(s, j)'
      <4>1. CASE Named0(s)
        BY <1>2, <4>1 DEF Named0
      <4>2. ASSUME NEW j \in Entries, NamedAs(s, j)
            PROVE  NamedAs(s, j)'
        BY <2>2, <4>2, <1>1, RowsMatch, <1>2, <2>1 DEF NamedAs
      <4>3. QED
        BY <1>2, <3>1, <4>1, <4>2 DEF SoundInv, UnmarkedInv, MoreEdited
    <3>2. QED
      BY <1>1, <3>1 DEF UnmarkedInv
  <2>6. \A s \in Sites : s \in live /\ s \in Marked /\ s \notin spent.edited /\ conf[s] # Absent => Matches(ssl'[s], conf[s])
    BY <1>1, <2>1, RowsMatch DEF Matches
  <2>7. QED
    BY <1>1, <1>2, <1>3, <2>4, <2>5, <2>6, Unheld
<1>4. CASE /\ CertificateSource(k) # "external" /\ AssociatedSites(k) = {}
           /\ Request("delete", "call", Null, k, Null,
                [NoTx EXCEPT !.files = Put(entries[k].path, Absent), !.test = FALSE])
           /\ mu' = Req /\ UNCHANGED <<ssl, entries, links>>
  <2>1. PICK p \in Paths : p = entries[k].path
    BY <1>1 DEF CInv, Typed, TablesOK, Entry
  <2>2. Put(p, Absent) \in Partly(Paths, Bytes \cup {Absent})
    BY PutIsPart
  <2>3. PICK y : y = Put(p, Absent)
    OBVIOUS
  <2>4. PICK x : x = [NoTx EXCEPT !.files = y, !.test = FALSE]
    OBVIOUS
  <2>5. x \in Tx(Sites)
    BY <2>2, <2>3, <2>4, NoTxForm DEF Tx
  <2>6. PICK n \in Thread(Sites) : Alters(Req, n) /\ n.op = "delete" /\ n.pc = "call" /\ n.site = Null /\ n.entry = k
    BY <1>4, <2>1, <2>3, <2>4, <2>5, Requested, PlacesAre DEF CInv
  <2>7. thread'[Req] = n
    BY <2>6, Altered, PlacesAre DEF CInv, Typed
  <2>8. CertificateSource(k) = "panel"
    BY <1>4 DEF CertificateSource
  <2>9. \A s \in Sites : s \notin spent.edited => conf[s] # entries[k].path
    BY <1>1, <1>4, <2>8, NobodyNames
  <2>10. DeleteInv'
    BY <1>2, <1>4, <2>6, <2>7, <2>9 DEF DeleteInv, MoreEdited
  <2>11. ReqInv'
    BY <2>6, <2>7, <2>10 DEF ReqInv, LiveInv, UseInv, UploadInv, RowOps
  <2>12. StoreInv' /\ StoredStays
    BY <1>2, <1>4, StoreKept DEF SoundInv, StoredStays
  <2>13. n.site = Null /\ n.pc # "done" /\ ssl' = ssl
    BY <1>4, <2>6
  <2>14. QED
    BY <1>1, <1>2, <1>4, <2>6, <2>11, <2>12, <2>13, Taken, PlacesAre
<1>5. QED
  BY <1>3, <1>4 DEF DeleteFromStore

(* The entry of a certificate of the store's own is the oldest.            *)
LEMMA AdoptedIs ==
  ASSUME CInv, SoundInv, NEW s \in Sites, NEW p \in Paths, NEW c \in Bytes, AdoptExternal(s, p, c), UNCHANGED files,
         \A j \in Entries : p = Stored(j) => entries[j] # Null /\ entries[j].path = p /\ entries[j].sha = c
  PROVE  /\ StoreInv' /\ StoredStays
         /\ \A j \in Entries : p = Stored(j) => links'[s] = j
         /\ \A x \in Sites : x # s => links'[x] = links[x]
         /\ \A x \in Sites : x # s => ssl'[x] = ssl[x]
         /\ IF ssl[s] = Null THEN ssl'[s] = Null
            ELSE ssl'[s] # Null /\ ssl'[s].mode = ssl[s].mode /\ ssl'[s].path = p
<1>1. PICK k \in Entries :
    /\ \/ /\ UNCHANGED <<entries, lastEntry>> /\ entries[k] # Null /\ entries[k].sha = c
          /\ \A j \in Entries : entries[j] # Null /\ entries[j].sha = c => k <= j
       \/ /\ NewEntry(p, c, "external") /\ k = NextEntry
          /\ \A j \in Entries : entries[j] # Null => entries[j].sha # c
    /\ links'[s] = k
    /\ \A x \in Sites : x # s => links'[x] = links[x]
    /\ \A x \in Sites : x # s => ssl'[x] = ssl[x]
    /\ IF ssl[s] = Null THEN ssl'[s] = Null
       ELSE ssl'[s] # Null /\ ssl'[s].mode = ssl[s].mode /\ ssl'[s].path = p
  BY AdoptFacts DEF CInv, Typed
<1>2. CASE NewEntry(p, c, "external") /\ \A j \in Entries : entries[j] # Null => entries[j].sha # c
  BY <1>2, StoreGrows, <1>1 DEF CInv, SoundInv
<1>3. CASE /\ UNCHANGED <<entries, lastEntry>> /\ entries[k] # Null /\ entries[k].sha = c
           /\ \A j \in Entries : entries[j] # Null /\ entries[j].sha = c => k <= j
  <2>1. StoreInv' /\ StoredStays
    BY <1>3, StoreKept DEF SoundInv, StoredStays
  <2>2. ASSUME NEW j \in Entries, p = Stored(j)
        PROVE  k = j
    BY <2>2, <1>3, EntriesAre DEF SoundInv, StoreInv, OldestInv
  <2>3. QED
    BY <1>1, <2>1, <2>2
<1>4. QED
  BY <1>1, <1>2, <1>3

LEMMA AdoptSound ==
  ASSUME CInv, SoundInv, Good', NEW s \in Sites, AdoptCertificate(s)
  PROVE  SoundInv'
<1>1. /\ thread[Req] = Null /\ mu = Null /\ Served /\ Scanned(s) /\ AdoptExternal(s, conf[s], files[conf[s]])
      /\ UNCHANGED <<live, orders, disk, thread, mu, sweep>>
  BY DEF AdoptCertificate, Served, Serve
<1>2. PICK p \in Paths : p = conf[s]
  BY <1>1 DEF Scanned
<1>3. PICK c \in Bytes : c = files[p] /\ c # Absent
  BY <1>1, <1>2 DEF Scanned, CInv, Typed, DiskOK
<1>4. AdoptExternal(s, p, c) /\ files' = files /\ conf' = conf /\ MoreEdited
  BY <1>1, <1>2, <1>3, StillCalm DEF disk, CInv, Typed
<1>5. \A j \in Entries : p = Stored(j) => entries[j] # Null /\ entries[j].path = p /\ entries[j].sha = c
  BY <1>3 DEF SoundInv, StoreInv, FileInv
<1>6. /\ StoreInv' /\ StoredStays
      /\ \A j \in Entries : p = Stored(j) => links'[s] = j
      /\ \A x \in Sites : x # s => links'[x] = links[x]
      /\ \A x \in Sites : x # s => ssl'[x] = ssl[x]
      /\ IF ssl[s] = Null THEN ssl'[s] = Null
         ELSE ssl'[s] # Null /\ ssl'[s].mode = ssl[s].mode /\ ssl'[s].path = p
  BY <1>4, <1>5, AdoptedIs
<1>7. \A x \in Sites : x \in live /\ x \in Marked /\ x \notin spent.edited /\ conf[x] # Absent => Matches(ssl'[x], conf[x])
  <2>1. ASSUME NEW x \in Sites, x \in live, x \in Marked, x \notin spent.edited, conf[x] # Absent
        PROVE  Matches(ssl'[x], conf[x])
    <3>1. Matches(ssl[x], conf[x])
      BY <1>1, <2>1, RowsMatch
    <3>2. CASE x # s
      BY <1>6, <3>1, <3>2
    <3>3. CASE x = s
      BY <1>2, PathsAssumption, <1>6, <3>1, <3>3 DEF Matches
    <3>4. QED
      BY <3>2, <3>3
  <2>2. QED
    BY <2>1
<1>8. UnmarkedInv'
  <2>1. ASSUME NEW x \in Sites, x \in live, x \notin Marked, x \notin spent'.edited
        PROVE  Named0(x)' \/ \E j \in Entries : NamedAs(x, j)'
    <3>1. CASE Named0(x)
      BY <1>4, <3>1 DEF Named0
    <3>2. ASSUME NEW j \in Entries, NamedAs(x, j)
          PROVE  NamedAs(x, j)'
      BY <1>1, <3>2, RowsMatch, <1>2, <1>6, <1>4 DEF NamedAs, StoredStays
    <3>3. QED
      BY <1>4, <2>1, <3>1, <3>2 DEF SoundInv, UnmarkedInv, MoreEdited
  <2>2. QED
    BY <1>1, <2>1 DEF UnmarkedInv
<1>9. QED
  BY <1>1, <1>4, <1>6, <1>7, <1>8, Unheld

LEMMA ReplaceSound ==
  ASSUME CInv, SoundInv, Good', NEW s \in Sites, NEW k \in Entries, ReplaceCertificate(s, k)
  PROVE  SoundInv'
<1>1. /\ mu = Null /\ mu' = Req /\ Served /\ conf[s] \in Paths /\ s \in live
      /\ entries[k] # Null /\ UNCHANGED <<tables, disk, sweep>>
      /\ Request("replace", "call", s, k, Null, Deployment(s, k))
  BY DEF ReplaceCertificate, Served, Serve, Locked, Scanned, Kept
<1>2. conf[s] # Absent
  BY <1>1, PathsAssumption
<1>3. PICK x : x = Deployment(s, k)
  OBVIOUS
<1>4. x \in Tx(Sites)
  BY <1>1, <1>2, <1>3, DeployFacts DEF CInv
<1>5. PICK n \in Thread(Sites) : Alters(Req, n) /\ n.op = "replace" /\ n.pc = "call" /\ n.site = s /\ n.entry = k
  BY <1>1, <1>3, <1>4, Requested, PlacesAre DEF CInv
<1>6. UNCHANGED <<live, ssl, entries, links>>
  BY <1>1 DEF tables
<1>7. thread'[Req] = n
  BY <1>5, Altered, PlacesAre DEF CInv, Typed
<1>8. ReqInv'
  BY <1>1, <1>5, <1>6, <1>7 DEF ReqInv, LiveInv, UseInv, UploadInv, DeleteInv, RowOps
<1>9. StoreInv' /\ StoredStays
  BY <1>1, <1>6, StoreKept DEF SoundInv, disk, StoredStays
<1>10. MoreEdited
  BY <1>1, StillCalm DEF CInv, Typed
<1>11. n.op = "replace" /\ n.pc = "call" /\ n.pc # "done" /\ n.site \in live /\ conf[n.site] \in Paths /\ ssl' = ssl
  BY <1>1, <1>5, <1>6
<1>12. QED
  BY <1>1, <1>5, <1>6, <1>8, <1>9, <1>10, <1>11, Taken, PlacesAre

(* A request that leaves the tables but the orders' and the disk alone.    *)
LEMMA QuietRequest ==
  ASSUME CInv, SoundInv, mu # Req, NEW n, Alters(Req, n), Idle(n), UNCHANGED <<live, ssl, links, entries, disk, mu>>, MoreEdited
  PROVE  SoundInv'
BY Altered, PlacesAre, Quiet DEF CInv, Typed, MemoryOK

LEMMA NoRequestHolds ==
  ASSUME CInv, thread[Req] = Null
  PROVE  mu # Req
BY PlacesAre DEF CInv, LockInv

LEMMA DeleteSiteSound ==
  ASSUME CInv, SoundInv, Good', NEW s \in Sites, NEW b \in BOOLEAN, DeleteSite(s, b)
  PROVE  SoundInv'
BY RequestAlters, StillCalm, NoRequestHolds, QuietRequest DEF DeleteSite, Served, Serve, CInv,
   Typed, tables, Idle

LEMMA EditSound ==
  ASSUME CInv, SoundInv, NEW s \in Sites, NEW p \in Paths, EditConfiguration(s, p)
  PROVE  SoundInv'
<1>1. /\ thread[Req] = Null /\ s \in live /\ conf' = [conf EXCEPT ![s] = p]
      /\ spent' = [spent EXCEPT !.requests = @ + 1, !.edited = @ \cup {s}]
      /\ UNCHANGED <<tables, files, thread, mu, sweep>>
  BY DEF EditConfiguration, Serve
<1>2. spent'.edited = spent.edited \cup {s}
  BY <1>1 DEF CInv, Typed, Spent
<1>3. UNCHANGED <<live, ssl, links, entries, files>> /\ \A x \in Sites : x # s => conf'[x] = conf[x]
  BY <1>1 DEF tables, CInv, Typed, DiskOK
<1>4. \A x \in Sites : x \notin spent'.edited => x # s /\ x \notin spent.edited /\ conf'[x] = conf[x]
  BY <1>2, <1>3
<1>5. \A x \in Sites : /\ HolderAt(x)' <=> HolderAt(x)
                       /\ Ahead(x)' <=> Ahead(x)
                       /\ Swapping(x)' <=> Swapping(x)
                       /\ Swapped(x)' <=> Swapped(x)
  BY <1>1 DEF HolderAt, Ahead, Swapping, Swapped
<1>6. StoreInv'
  BY <1>3, StoreKept DEF SoundInv
<1>7. ReqInv'
  BY <1>1 DEF ReqInv, LiveInv, UseInv, UploadInv, DeleteInv
<1>8. DeadInv'
  BY <1>1, <1>3 DEF SoundInv, DeadInv
<1>9. RowsInv'
  <2>1. ASSUME NEW x \in Sites, x \in live, x \in Marked, x \notin spent'.edited, conf'[x] # Absent
        PROVE  /\ Ahead(x)' => Matches(thread'[mu'].undo, conf'[x])
               /\ Swapping(x)' => Enabled(x)'
               /\ ~Ahead(x)' /\ ~Swapped(x)' => Matches(ssl'[x], conf'[x])
    BY <1>4, <2>1, <1>1, <1>3, <1>5 DEF SoundInv, RowsInv, Enabled
  <2>2. QED
    BY <1>3, <2>1 DEF RowsInv
<1>10. SwapInv'
  BY <1>1, <1>3, <1>4, <1>5 DEF SoundInv, SwapInv
<1>11. UnmarkedInv'
  BY <1>2, <1>3, <1>4, <1>5, UnmarkedMoves DEF MoreEdited, SoundInv
<1>12. ServedInv'
  BY <1>3, <1>4 DEF SoundInv, ServedInv
<1>13. QED
  BY <1>6, <1>7, <1>8, <1>9, <1>10, <1>11, <1>12 DEF SoundInv

LEMMA ApplySound ==
  ASSUME CInv, SoundInv, Good', NEW s \in Sites, ApplyCertificate(s)
  PROVE  SoundInv'
BY StillCalm, LaunchSound DEF ApplyCertificate, CInv, Typed

LEMMA OrderRequestSound ==
  ASSUME CInv, SoundInv, Good', NEW o \in Orders,
         ForceObtain(o) \/ RenewOrder(o) \/ DeleteOrder(o) \/ DeployOrder(o) \/ \E b \in BOOLEAN : SetAutoRenew(o, b)
  PROVE  SoundInv'
<1>1. Served /\ Known(o) /\ thread[Req] = Null
  BY DEF ForceObtain, RenewOrder, DeleteOrder, DeployOrder, SetAutoRenew, Served, Serve
<1>2. MoreEdited
  BY <1>1, StillCalm DEF CInv, Typed
<1>3. orders[o].site \in Sites /\ orders[o].auto \in BOOLEAN
  BY <1>1 DEF Known, CInv, Typed, TablesOK, Order
<1>4. CASE ForceObtain(o)
  BY <1>4, <1>2, <1>3, LaunchSound DEF ForceObtain
<1>5. CASE RenewOrder(o)
  BY <1>5, <1>2, <1>3, LaunchSound DEF RenewOrder
<1>6. CASE DeleteOrder(o) \/ \E b \in BOOLEAN : SetAutoRenew(o, b)
  BY <1>6, <1>2, Quiet DEF DeleteOrder, SetAutoRenew
<1>7. CASE DeployOrder(o)
  BY <1>7, RequestAlters, <1>1, NoRequestHolds, <1>2, QuietRequest DEF DeployOrder, tables, Idle
<1>8. QED
  BY <1>4, <1>5, <1>6, <1>7

LEMMA RequestsSound ==
  ASSUME CInv, SoundInv, Good', Requests
  PROVE  SoundInv'
<1>1. ASSUME NEW s \in Sites,
             \/ \E c \in Certs : ManualPEM(s, c)
             \/ \E p \in Paths : ExistingFiles(s, p) \/ EditConfiguration(s, p)
             \/ \E b \in BOOLEAN : Disable(s, b) \/ DeleteSite(s, b)
             \/ \E k \in Entries : DeployFromStore(s, k) \/ ReplaceCertificate(s, k)
             \/ AdoptCertificate(s) \/ ApplyCertificate(s)
      PROVE  SoundInv'
  BY <1>1, ManualSound, ExistingSound, EditSound, DisableSound, DeleteSiteSound, DeployRequestSound, ReplaceSound,
     AdoptSound, ApplySound
<1>2. QED
  BY <1>1, UploadSound, DeleteFromStoreSound, OrderRequestSound DEF Requests

-----------------------------------------------------------------------------
(* The end of a request.                                                   *)

(* The request that holds the mutex ends: what is left to show.            *)
LEMMA RequestReleases ==
  ASSUME CInv, SoundInv, Ended, mu = Req, mu' = Null, UNCHANGED <<live, disk>>, MoreEdited,
         \A s \in Sites : s # thread[Req].site => ssl'[s] = ssl[s],
         \A s \in Sites : s = thread[Req].site /\ s \in live /\ s \in Marked /\ s \notin spent.edited /\ conf[s] # Absent
           => Matches(ssl'[s], conf[s]),
         StoreInv', UnmarkedInv'
  PROVE  SoundInv'
BY PlacesAre, Released DEF Ended, Alters

LEMMA FinishUseSound ==
  ASSUME CInv, SoundInv, Good', FinishUse
  PROVE  SoundInv'
<1>1. /\ thread[Req] # Null /\ thread[Req].op = "use" /\ thread[Req].pc = "done" /\ Ended /\ mu' = Null
      /\ UNCHANGED <<live, ssl, links, orders, disk, sweep>>
  BY DEF FinishUse, Ending, Unlock
<1>2. UsedRow(thread[Req].site) /\ mu = Req
  BY <1>1, RequestIs DEF Holds, Rewrites, RowOps
<1>3. PICK p \in Paths, c \in Bytes : p = ssl[thread[Req].site].path /\ c = ssl[thread[Req].site].sha
  BY <1>2 DEF UsedRow
<1>4. SyncToStore(p, c) \/ UNCHANGED <<entries, lastEntry>>
  BY <1>3 DEF FinishUse
<1>5. \A k \in Entries : p = Stored(k) => entries[k] # Null /\ entries[k].sha = c
  BY <1>1, <1>3 DEF SoundInv, ReqInv, UseInv
<1>6. files' = files /\ conf' = conf
  BY <1>1 DEF disk
<1>7. StoreInv' /\ StoredStays
  <2>1. CASE UNCHANGED <<entries, lastEntry>>
    BY <1>6, <2>1, StoreKept DEF SoundInv, StoredStays
  <2>2. CASE SyncToStore(p, c) /\ BySHA256(c) = {}
    BY <2>2, <1>5, BySHAFacts, <1>6, StoreGrows DEF SyncToStore, CInv, Typed, SoundInv
  <2>3. QED
    BY <1>4, <2>1, <2>2 DEF SyncToStore
<1>8. MoreEdited
  BY StillCalm DEF FinishUse, CInv, Typed
<1>9. \A x \in Sites : ~Swapped(x) /\ ~Ahead(x)
  BY <1>1, <1>2 DEF Swapped, Swapping, Ahead
<1>10. UnmarkedInv'
  BY <1>1, <1>6, <1>7, <1>8, <1>9, UnmarkedKept DEF SoundInv
<1>11. \A s \in Sites : s \in live /\ s \in Marked /\ s \notin spent.edited /\ conf[s] # Absent => Matches(ssl'[s], conf[s])
  BY <1>1, <1>9 DEF SoundInv, RowsInv
<1>12. QED
  BY <1>1, <1>2, <1>7, <1>8, <1>10, <1>11, RequestReleases

LEMMA FinishPlainSound ==
  ASSUME CInv, SoundInv, FinishPlain
  PROVE  SoundInv'
<1>1. /\ thread[Req] # Null /\ Ended /\ UNCHANGED <<tables, disk, sweep, spent>> /\ mu' = Null
      /\ \/ thread[Req].op \in {"disable", "deploy", "upload"} /\ thread[Req].pc = "done"
         \/ thread[Req].op \in {"delete", "replace"} /\ thread[Req].pc = "failed"
  BY DEF FinishPlain, Ending, Unlock
<1>2. mu = Req
  BY <1>1, RequestIs DEF Holds, Rewrites, RowOps
<1>3. UNCHANGED <<live, ssl, links, entries, files, conf>> /\ MoreEdited /\ StoredStays
  BY <1>1 DEF tables, disk, MoreEdited, StoredStays
<1>4. \A x \in Sites : ~Swapped(x)
  BY <1>1, <1>2 DEF Swapped, Swapping
<1>5. \A x \in Sites : ~Ahead(x)
  BY <1>1, <1>2 DEF Ahead, HolderAt
<1>6. \A s \in Sites : s \in live /\ s \in Marked /\ s \notin spent.edited /\ conf[s] # Absent => Matches(ssl'[s], conf[s])
  BY <1>3, <1>4, <1>5 DEF SoundInv, RowsInv
<1>7. StoreInv' /\ UnmarkedInv'
  BY <1>3, <1>4, StoreKept, UnmarkedKept DEF SoundInv
<1>8. QED
  BY <1>1, <1>2, <1>3, <1>6, <1>7, RequestReleases

LEMMA FailConfigureSound ==
  ASSUME CInv, SoundInv, Good', FailConfigure
  PROVE  SoundInv'
<1>1. /\ thread[Req] # Null /\ thread[Req].op \in RowOps /\ thread[Req].pc = "failed" /\ Ended /\ mu' = Null
      /\ RollbackSSL(thread[Req].site, thread[Req].undo)
      /\ UNCHANGED <<live, entries, links, orders, lastEntry, disk, sweep, spent>>
  <2>1. ~Mishap
    BY SpentFacts DEF CInv, Typed, Good
  <2>2. QED
    BY <2>1 DEF FailConfigure, Ending, Unlock, RowOps
<1>2. mu = Req /\ Fits(Req, thread[Req]) /\ thread[Req] \in Thread(Sites) /\ Rewrites(thread[Req])
  BY <1>1, RequestIs DEF Holds, Rewrites
<1>3. thread[Req].site \in live
  BY <1>1 DEF SoundInv, ReqInv, LiveInv
<1>4. PICK s \in Sites, u \in SslRow \cup {Null} : s = thread[Req].site /\ u = thread[Req].undo /\ RowOK(u)
  BY <1>2, <1>3 DEF Fits, Thread, CInv, Typed, TablesOK
<1>5. ssl' = [ssl EXCEPT ![s] = u]
  BY <1>1, <1>4 DEF RollbackSSL
<1>6. ssl'[s] = u /\ \A x \in Sites : x # s => ssl'[x] = ssl[x]
  BY <1>4, <1>5, RowWritten DEF CInv, Typed
<1>7. /\ files' = files /\ conf' = conf /\ MoreEdited /\ StoredStays
  BY <1>1 DEF disk, MoreEdited, StoredStays
<1>8. Ahead(s) /\ \A x \in Sites : ~Swapped(x)
  BY <1>1, <1>2, <1>4, PlacesAre DEF RowOps, Ahead, HolderAt, Swapped, Swapping
<1>9. s \in live /\ s \in Marked /\ s \notin spent.edited /\ conf[s] # Absent => Matches(ssl'[s], conf[s])
  BY <1>2, <1>4, <1>6, <1>8 DEF SoundInv, RowsInv
<1>10. StoreInv' /\ UnmarkedInv'
  BY <1>1, <1>7, <1>8, StoreKept, UnmarkedKept DEF SoundInv
<1>11. QED
  BY <1>1, <1>2, <1>4, <1>6, <1>7, <1>9, <1>10, RequestReleases

(* The entry's row goes; what it named is not the configuration of a site. *)
LEMMA EntryGoneSound ==
  ASSUME CInv, SoundInv, Good', thread[Req] # Null, thread[Req].op \in {"upload", "delete"}, Ended, mu' = Null,
         entries' = [entries EXCEPT ![thread[Req].entry] = Null] \/ UNCHANGED entries,
         files[Stored(thread[Req].entry)] = Absent \/ UNCHANGED entries,
         UNCHANGED <<live, ssl, links, orders, lastEntry, disk, sweep>>, MoreEdited
  PROVE  SoundInv'
<1>1. mu = Req /\ thread[Req].entry \in Entries
  BY RequestIs DEF Holds, Fits
<1>2. PICK k \in Entries : k = thread[Req].entry
  BY <1>1
<1>3. files' = files /\ conf' = conf
  BY DEF disk
<1>4. \A x \in Sites : ~Swapped(x) /\ ~Ahead(x)
  BY <1>1 DEF Swapped, Swapping, Ahead, HolderAt
<1>5. \A s \in Sites : s \in live /\ s \in Marked /\ s \notin spent.edited /\ conf[s] # Absent => Matches(ssl'[s], conf[s])
  BY <1>4 DEF SoundInv, RowsInv
<1>6. CASE UNCHANGED entries
  <2>1. StoreInv' /\ UnmarkedInv'
    BY <1>3, <1>4, <1>6, StoreKept, UnmarkedKept DEF SoundInv, StoredStays
  <2>2. QED
    BY <1>1, <1>5, <2>1, RequestReleases
<1>7. CASE entries' = [entries EXCEPT ![k] = Null] /\ files[Stored(k)] = Absent
  <2>1. entries'[k] = Null /\ \A j \in Entries : j # k => entries'[j] = entries[j]
    BY <1>7 DEF CInv, Typed, TablesOK
  <2>2. StoreInv'
    BY <1>3, <1>7, <2>1, StoreShrinks DEF SoundInv
  <2>3. \A s \in Sites : s \notin spent'.edited => conf[s] # Stored(k)
    BY <1>7, PathKinds DEF SoundInv, ServedInv, MoreEdited
  <2>4. \A s \in Sites : s \notin spent'.edited => \A j \in Entries : NamedAs(s, j) => entries'[j] = entries[j]
    BY <2>1, <2>3 DEF NamedAs
  <2>5. UnmarkedInv'
    BY <1>3, <1>4, <2>4, UnmarkedMoves DEF SoundInv
  <2>6. QED
    BY <1>1, <1>5, <2>2, <2>5, RequestReleases
<1>8. QED
  BY <1>2, <1>6, <1>7

LEMMA EntryEndsSound ==
  ASSUME CInv, SoundInv, Good', FailUpload \/ FinishDelete
  PROVE  SoundInv'
<1>1. CASE FailUpload
  BY <1>1, EntryGoneSound DEF FailUpload, Ending, SoundInv, ReqInv, UploadInv, MoreEdited, Unlock
<1>2. CASE FinishDelete
  <2>1. thread[Req] # Null /\ thread[Req].op = "delete" /\ thread[Req].pc = "done"
    BY <1>2 DEF FinishDelete, Ending
  <2>2. PICK k \in Entries : k = thread[Req].entry
    BY <2>1, RequestIs DEF Fits
  <2>3. files[Stored(k)] = Absent
    BY <2>1, <2>2 DEF SoundInv, ReqInv, DeleteInv, StoreInv, FileInv
  <2>4. MoreEdited
    BY <1>2, StillCalm DEF FinishDelete, CInv, Typed
  <2>5. QED
    BY <1>2, <2>2, <2>3, <2>4, EntryGoneSound DEF FinishDelete, Ending, Unlock
<1>3. QED
  BY <1>1, <1>2

LEMMA FinishReplaceSound ==
  ASSUME CInv, SoundInv, Good', FinishReplace
  PROVE  SoundInv'
<1>1. /\ thread[Req] # Null /\ thread[Req].op = "replace" /\ thread[Req].pc = "done" /\ Ended /\ mu' = Null
      /\ UNCHANGED <<live, orders, disk, sweep>>
  BY DEF FinishReplace, Ending, Unlock
<1>2. mu = Req /\ Fits(Req, thread[Req]) /\ thread[Req].site \in live
  BY <1>1, RequestIs DEF Holds, SoundInv, ReqInv, LiveInv
<1>3. PICK k \in Entries : k = thread[Req].entry /\ entries[k] # Null /\ entries[k].path[1] = "store"
  BY <1>1, <1>2 DEF Fits
<1>4. PICK s \in Sites, p \in Paths, c \in Bytes : s = thread[Req].site /\ p = entries[k].path /\ c = entries[k].sha
  BY <1>1, <1>2, <1>3 DEF CInv, Typed, TablesOK, Entry, Fits
<1>5. AdoptExternal(s, p, c) /\ UNCHANGED spent
  BY SpentFacts, <1>3, <1>4 DEF CInv, Typed, Good, FinishReplace
<1>6. \A j \in Entries : p = Stored(j) => j = k
  BY <1>3, <1>4 DEF SoundInv, StoreInv, OldestInv
<1>7. files' = files /\ conf' = conf /\ MoreEdited
  BY <1>1, <1>5 DEF disk, MoreEdited
<1>8. /\ StoreInv' /\ StoredStays
      /\ \A j \in Entries : p = Stored(j) => links'[s] = j
      /\ \A x \in Sites : x # s => links'[x] = links[x]
      /\ \A x \in Sites : x # s => ssl'[x] = ssl[x]
      /\ IF ssl[s] = Null THEN ssl'[s] = Null
         ELSE ssl'[s] # Null /\ ssl'[s].mode = ssl[s].mode /\ ssl'[s].path = p
  BY <1>3, <1>4, <1>5, <1>6, <1>7, AdoptedIs
<1>9. Swapped(s) /\ \A x \in Sites : x # s => ~Swapped(x)
  BY <1>1, <1>2, <1>4, PlacesAre DEF Swapped, Swapping, HolderAt
<1>10. s \in live /\ s \in Marked /\ s \notin spent.edited /\ conf[s] # Absent => Matches(ssl'[s], conf[s])
  <2>1. ASSUME s \in Marked, s \notin spent.edited, conf[s] # Absent
        PROVE  Matches(ssl'[s], conf[s])
    BY <1>2, <1>3, <1>4, <1>9, <2>1, <1>8 DEF SoundInv, SwapInv, RowsInv, Swapped, Enabled, Matches
  <2>2. QED
    BY <2>1
<1>11. UnmarkedInv'
  <2>1. ASSUME NEW x \in Sites, x \in live, x \notin Marked, x \notin spent'.edited
        PROVE  Named0(x)' \/ \E j \in Entries : NamedAs(x, j)'
    <3>1. CASE Named0(x)
      BY <1>7, <3>1 DEF Named0
    <3>2. ASSUME NEW j \in Entries, NamedAs(x, j)
          PROVE  NamedAs(x, j)'
      <4>1. conf[x] = Stored(j) /\ entries[j] # Null /\ entries[j].path = Stored(j) /\ (links[x] = j \/ Swapped(x))
        BY <3>2 DEF NamedAs
      <4>2. links'[x] = j
        <5>1. CASE x # s
          BY <1>8, <1>9, <4>1, <5>1
        <5>2. CASE x = s
          <6>1. conf[s] = p
            BY <1>2, <1>3, <1>4, <1>7, <1>9, <2>1, <5>2 DEF SoundInv, SwapInv, MoreEdited
          <6>2. QED
            BY <1>8, <4>1, <5>2, <6>1
        <5>3. QED
          BY <5>1, <5>2
      <4>3. QED
        BY <1>7, <1>8, <4>1, <4>2 DEF NamedAs, StoredStays
    <3>3. QED
      BY <1>7, <2>1, <3>1, <3>2 DEF SoundInv, UnmarkedInv, MoreEdited
  <2>2. QED
    BY <1>1, <2>1 DEF UnmarkedInv
<1>12. QED
  BY <1>1, <1>2, <1>4, <1>7, <1>8, <1>10, <1>11, RequestReleases

LEMMA FailDeleteSiteSound ==
  ASSUME CInv, SoundInv, FailDeleteSite
  PROVE  SoundInv'
<1>1. thread[Req] # Null /\ thread[Req].op = "site" /\ Ended /\ UNCHANGED <<tables, disk, mu, sweep, spent>>
  BY DEF FailDeleteSite, Ending
<1>2. mu # Req
  BY <1>1, RequestIs DEF Holds, Rewrites, RowOps, Placed, ReqPlaces
<1>3. UNCHANGED <<live, ssl, links, entries>> /\ MoreEdited /\ Alters(Req, Null)
  BY <1>1 DEF tables, MoreEdited, Ended, Alters
<1>4. QED
  BY <1>1, <1>2, <1>3, QuietRequest DEF Idle

LEMMA RedeployLocksSound ==
  ASSUME CInv, SoundInv, RedeployLocks
  PROVE  SoundInv'
<1>1. PICK s, k, o : s = thread[Req].site /\ k = thread[Req].entry /\ o = thread[Req].order
  OBVIOUS
<1>2. /\ thread[Req] # Null /\ thread[Req].op = "redeploy" /\ thread[Req].pc = "admitted" /\ mu = Null
      /\ UNCHANGED <<live, entries, links, orders, lastEntry, disk, sweep, spent>>
      /\ IF Deployable(s, k)
         THEN Deploying(s, k) /\ mu' = Req /\ Request("redeploy", "call", s, k, o, Deployment(s, k))
         ELSE Ended /\ UNCHANGED <<ssl, mu>>
  BY <1>1 DEF RedeployLocks, Ending
<1>3. MoreEdited
  BY <1>2 DEF MoreEdited
<1>4. CASE Deployable(s, k)
  BY <1>1, <1>2, RequestIs, <1>3, <1>4, DeploySound DEF Fits
<1>5. CASE ~Deployable(s, k)
  BY <1>2, <1>5, PlacesAre, <1>3, QuietRequest DEF Ended, Alters, Idle
<1>6. QED
  BY <1>4, <1>5

LEMMA FinishRedeploySound ==
  ASSUME CInv, SoundInv, FinishRedeploy
  PROVE  SoundInv'
<1>1. /\ thread[Req] # Null /\ thread[Req].op = "redeploy" /\ thread[Req].pc = "done" /\ Ended /\ mu' = Null
      /\ UNCHANGED <<live, ssl, entries, links, lastEntry, disk, sweep>> /\ (UNCHANGED spent \/ Fault)
  BY DEF FinishRedeploy, MarkIfSaved, Ending, Unlock
<1>2. mu = Req
  BY <1>1, RequestIs DEF Holds, Rewrites, RowOps
<1>3. files' = files /\ conf' = conf /\ MoreEdited /\ StoredStays
  BY <1>1, SpentFacts DEF disk, MoreEdited, StoredStays, CInv, Typed, Calm
<1>4. \A x \in Sites : ~Swapped(x) /\ ~Ahead(x)
  BY <1>1, <1>2 DEF Swapped, Swapping, Ahead
<1>5. \A s \in Sites : s \in live /\ s \in Marked /\ s \notin spent.edited /\ conf[s] # Absent => Matches(ssl'[s], conf[s])
  BY <1>1, <1>4 DEF SoundInv, RowsInv
<1>6. StoreInv' /\ UnmarkedInv'
  BY <1>1, <1>3, <1>4, StoreKept, UnmarkedKept DEF SoundInv
<1>7. QED
  BY <1>1, <1>2, <1>3, <1>5, <1>6, RequestReleases

LEMMA FinishDeleteSiteSound ==
  ASSUME CInv, SoundInv, FinishDeleteSite
  PROVE  SoundInv'
<1>1. PICK s : s = thread[Req].site
  OBVIOUS
<1>2. /\ thread[Req] # Null /\ thread[Req].op = "site" /\ thread[Req].pc = "done" /\ Ended /\ live' = live \ {s}
      /\ ssl' = [ssl EXCEPT ![s] = Null] /\ links' = [links EXCEPT ![s] = Null]
      /\ UNCHANGED <<entries, lastEntry, disk, mu, sweep, spent>>
  BY <1>1 DEF FinishDeleteSite, Ending
<1>3. s \in Sites /\ mu # Req /\ conf[s] = Absent
  BY <1>1, <1>2, RequestIs, PlacesAre DEF Fits, Holds, Rewrites, RowOps, SoundInv, DeadInv
<1>4. /\ \A x \in Sites : x # s => ssl'[x] = ssl[x] /\ links'[x] = links[x]
      /\ files' = files /\ conf' = conf /\ MoreEdited /\ StoredStays
  BY <1>2 DEF CInv, Typed, TablesOK, disk, MoreEdited, StoredStays
<1>5. thread'[Req] = Null /\ \A u \in Threads : u # Req => thread'[u] = thread[u]
  BY <1>2, PlacesAre, Altered DEF Ended, Alters, CInv, Typed
<1>6. mu # Null => thread'[mu] = thread[mu]
  BY <1>3, <1>5 DEF CInv, Typed, MemoryOK
<1>7. \A x \in Sites : /\ Ahead(x)' <=> Ahead(x)
                       /\ Swapping(x)' <=> Swapping(x)
                       /\ Swapped(x)' <=> Swapped(x)
  BY <1>2, <1>6 DEF HolderAt, Ahead, Swapping, Swapped
<1>8. StoreInv' /\ ServedInv'
  BY <1>2, <1>4, StoreKept, ServedKept DEF SoundInv
<1>9. ReqInv'
  BY <1>5 DEF ReqInv, LiveInv, UseInv, UploadInv, DeleteInv
<1>10. DeadInv'
  BY <1>2, <1>3, <1>4, <1>5 DEF SoundInv, DeadInv
<1>11. RowsInv'
  <2>1. ASSUME NEW x \in Sites, x \in live', x \in Marked, x \notin spent'.edited, conf'[x] # Absent
        PROVE  /\ Ahead(x)' => Matches(thread'[mu'].undo, conf'[x])
               /\ Swapping(x)' => Enabled(x)'
               /\ ~Ahead(x)' /\ ~Swapped(x)' => Matches(ssl'[x], conf'[x])
    BY <1>2, <1>4, <2>1, <1>6, <1>7 DEF SoundInv, RowsInv, Ahead, HolderAt, Enabled
  <2>2. QED
    BY <2>1 DEF RowsInv
<1>12. SwapInv'
  <2>1. ASSUME NEW x \in Sites, x \in live', x \notin spent'.edited, Swapped(x)'
        PROVE  conf'[x] = entries'[thread'[mu'].entry].path
    BY <1>2, <1>7, <2>1, <1>6, <1>4 DEF SoundInv, SwapInv, Swapped, Swapping, HolderAt
  <2>2. QED
    BY <2>1 DEF SwapInv
<1>13. UnmarkedInv'
  <2>1. \A x \in Sites : x \in live /\ x \notin Marked /\ x \notin spent'.edited =>
          \/ /\ conf'[x] = conf[x] /\ links'[x] = links[x] /\ (Swapped(x) => Swapped(x)')
             /\ \A k \in Entries : NamedAs(x, k) => entries'[k] = entries[k]
          \/ Named0(x)'
    BY <1>3, <1>4, <1>2, <1>7 DEF Named0
  <2>2. live' \subseteq live
    BY <1>2
  <2>3. QED
    BY <1>4, <2>1, <2>2, UnmarkedMoves DEF SoundInv
<1>14. QED
  BY <1>8, <1>9, <1>10, <1>11, <1>12, <1>13 DEF SoundInv

(* The call of a request.                                                  *)
LEMMA StoreCallSound ==
  ASSUME CInv, SoundInv, mu = Req, thread[Req].op \in {"upload", "delete"}, NEW n, thread'[Req] = n, n.op = thread[Req].op, n # Null,
         UNCHANGED <<live, ssl, links, entries, conf, mu>>, MoreEdited, StoreInv', ServedInv', UploadInv', DeleteInv'
  PROVE  SoundInv'
<1>1. \A x \in Sites : /\ ~Ahead(x) /\ ~Swapping(x) /\ ~Swapped(x)
                       /\ ~Ahead(x)' /\ ~Swapping(x)' /\ ~Swapped(x)'
  BY DEF HolderAt, Ahead, Swapping, Swapped
<1>2. ReqInv'
  BY DEF ReqInv, LiveInv, UseInv, RowOps
<1>3. DeadInv'
  BY DEF SoundInv, DeadInv
<1>4. RowsInv'
  BY <1>1 DEF SoundInv, RowsInv, MoreEdited
<1>5. SwapInv'
  BY <1>1 DEF SwapInv
<1>6. UnmarkedInv'
  BY <1>1, UnmarkedMoves DEF SoundInv
<1>7. QED
  BY <1>2, <1>3, <1>4, <1>5, <1>6 DEF SoundInv

LEMMA UploadCallSound ==
  ASSUME CInv, SoundInv, thread[Req] # Null, thread[Req].op = "upload", thread[Req].pc = "call",
         NEW n \in Thread(Sites), Alters(Req, n), Same(n, thread[Req]), n.pc = "done", Install(n.tx),
         UNCHANGED <<live, ssl, links, entries, mu>>, MoreEdited
  PROVE  SoundInv'
<1>1. PICK r \in Thread(Sites) : r = thread[Req] /\ Fits(Req, r) /\ Writes(Req, r) /\ mu = Req
  BY ThreadIs, RequestIs, PlacesAre DEF Holds
<1>2. PICK k \in Entries : k = r.entry /\ entries[k] # Null /\ entries[k].path = Stored(k)
  BY <1>1 DEF Fits
<1>3. n.op = r.op /\ n.tx = r.tx /\ n.entry = k /\ n # Null /\ r.tx \in Tx(Sites)
  BY <1>1, <1>2, ThreadNotNull DEF Same, Alike, Thread
<1>4. DOMAIN r.tx.conf = {} /\ DOMAIN r.tx.files = {Stored(k)} /\ r.tx.files[Stored(k)] = entries[k].sha
  BY <1>1, <1>2 DEF Writes, Uploading
<1>5. thread'[Req] = n
  BY Altered, PlacesAre DEF CInv, Typed
<1>6. /\ \A p \in Paths : p # Stored(k) => files'[p] = files[p]
      /\ files'[Stored(k)] = entries[k].sha
      /\ \A s \in Sites : conf'[s] = conf[s]
      /\ DiskOK'
  BY <1>3, <1>4, InstallFacts, PathKinds DEF CInv, Typed
<1>7. conf' = conf
  BY <1>6 DEF CInv, Typed, DiskOK
<1>8. entries[k].sha # Absent
  BY <1>2, CertificatesAssumption DEF CInv, Typed, TablesOK, Entry
<1>9. FileInv'
  <2>1. ASSUME NEW j \in Entries, files'[Stored(j)] # Absent
        PROVE  entries[j] # Null /\ entries[j].path = Stored(j) /\ entries[j].sha = files'[Stored(j)]
    <3>1. CASE j = k
      BY <1>2, <1>6, <3>1
    <3>2. CASE j # k
      BY <1>6, <3>2, PathKinds, <2>1 DEF SoundInv, StoreInv, FileInv
    <3>3. QED
      BY <3>1, <3>2
  <2>2. QED
    BY <2>1 DEF FileInv
<1>10. OldestInv'
  BY DEF SoundInv, StoreInv, OldestInv
<1>11. ServedInv'
  BY <1>6, <1>7, <1>8 DEF SoundInv, ServedInv, MoreEdited
<1>12. UploadInv' /\ DeleteInv'
  BY <1>1, <1>3, <1>5 DEF UploadInv, DeleteInv
<1>13. QED
  BY <1>1, <1>3, <1>5, <1>7, <1>9, <1>10, <1>11, <1>12, StoreCallSound DEF StoreInv

LEMMA DeleteCallSound ==
  ASSUME CInv, SoundInv, thread[Req] # Null, thread[Req].op = "delete", thread[Req].pc = "call",
         NEW n \in Thread(Sites), Alters(Req, n), Same(n, thread[Req]), n.pc = "done", Install(n.tx),
         UNCHANGED <<live, ssl, links, entries, mu>>, MoreEdited
  PROVE  SoundInv'
<1>1. PICK r \in Thread(Sites) : r = thread[Req] /\ Fits(Req, r) /\ Writes(Req, r) /\ mu = Req
  BY ThreadIs, RequestIs, PlacesAre DEF Holds
<1>2. PICK k \in Entries, p \in Paths : k = r.entry /\ entries[k] # Null /\ p = entries[k].path
  BY <1>1 DEF Fits, CInv, Typed, TablesOK, Entry
<1>3. n.op = r.op /\ n.tx = r.tx /\ n.entry = k /\ n # Null /\ r.tx \in Tx(Sites)
  BY <1>1, <1>2, ThreadNotNull DEF Same, Alike, Thread
<1>4. DOMAIN r.tx.conf = {} /\ DOMAIN r.tx.files = {p} /\ r.tx.files[p] = Absent
  BY <1>1, <1>2 DEF Writes, Deleting
<1>5. thread'[Req] = n
  BY Altered, PlacesAre DEF CInv, Typed
<1>6. /\ \A q \in Paths : q # p => files'[q] = files[q]
      /\ files'[p] = Absent
      /\ \A s \in Sites : conf'[s] = conf[s]
      /\ DiskOK'
  BY <1>3, <1>4, InstallFacts DEF CInv, Typed
<1>7. conf' = conf
  BY <1>6 DEF CInv, Typed, DiskOK
<1>8. StoreInv'
  BY <1>6, PathKinds, FilesGo DEF SoundInv
<1>9. \A s \in Sites : s \notin spent'.edited => conf[s] # p
  BY <1>1, <1>2 DEF SoundInv, ReqInv, DeleteInv, MoreEdited
<1>10. ServedInv'
  BY <1>6, <1>7, <1>9 DEF SoundInv, ServedInv, MoreEdited
<1>11. UploadInv'
  BY <1>1, <1>3, <1>5 DEF UploadInv
<1>12. DeleteInv'
  BY <1>2, <1>3, <1>5, <1>6, <1>7, <1>9 DEF DeleteInv
<1>13. QED
  BY <1>1, <1>3, <1>5, <1>7, <1>8, <1>10, <1>11, <1>12, StoreCallSound

LEMMA ReplaceCallSound ==
  ASSUME CInv, SoundInv, thread[Req] # Null, thread[Req].op = "replace", thread[Req].pc = "call",
         NEW n \in Thread(Sites), Alters(Req, n), Same(n, thread[Req]), n.pc = "done", Acceptable(n.tx), Install(n.tx),
         UNCHANGED <<live, ssl, links, entries, mu>>, MoreEdited
  PROVE  SoundInv'
<1>1. PICK r \in Thread(Sites) : r = thread[Req] /\ Fits(Req, r) /\ Writes(Req, r) /\ mu = Req
  BY ThreadIs, RequestIs, PlacesAre DEF Holds
<1>2. PICK k \in Entries, s \in Sites : /\ k = r.entry /\ entries[k] # Null /\ s = r.site /\ s \in live
                                        /\ entries[k].path[1] = "store" /\ entries[k].path \in Paths
  BY <1>1 DEF Fits, SoundInv, ReqInv, LiveInv, CInv, Typed, TablesOK, Entry
<1>3. n.op = "replace" /\ n.tx = r.tx /\ n.entry = k /\ n.site = s /\ n # Null /\ r.tx \in Tx(Sites)
  BY <1>1, <1>2, ThreadNotNull DEF Same, Alike, Thread
<1>4. r.tx.test /\ DOMAIN r.tx.files = {} /\ DOMAIN r.tx.conf = {s} /\ r.tx.conf[s] = entries[k].path
  BY <1>1, <1>2 DEF Writes, Replacing
<1>5. thread'[Req] = n
  BY Altered, PlacesAre DEF CInv, Typed
<1>6. /\ \A q \in Paths : files'[q] = files[q]
      /\ \A x \in Sites : x # s => conf'[x] = conf[x]
      /\ conf'[s] = entries[k].path
  BY <1>3, <1>4, InstallFacts DEF CInv, Typed
<1>7. \A x \in Sites : /\ ~Ahead(x) /\ ~Swapped(x) /\ ~Ahead(x)'
                       /\ Swapping(x) <=> x = s
                       /\ Swapping(x)' <=> x = s
                       /\ Swapped(x)' <=> x = s
  BY <1>1, <1>2, <1>3, <1>5, PlacesAre DEF HolderAt, Ahead, Swapping, Swapped
<1>8. StoreInv'
  BY <1>6, PathKinds, FilesGo DEF SoundInv
<1>9. ServedInv'
  BY <1>3, <1>4, TestedServed DEF CInv
<1>10. ReqInv'
  BY <1>2, <1>3, <1>5 DEF ReqInv, LiveInv, UseInv, UploadInv, DeleteInv
<1>11. DeadInv'
  BY <1>2, <1>3, <1>5, <1>6 DEF SoundInv, DeadInv
<1>12. RowsInv'
  <2>1. ASSUME NEW x \in Sites, x \in live, x \in Marked, x \notin spent'.edited, conf'[x] # Absent
        PROVE  /\ Swapping(x)' => Enabled(x)'
               /\ ~Swapped(x)' => Matches(ssl[x], conf'[x])
    <3>1. CASE x = s
      <4>1. conf[s] # Absent
        BY <1>1, <1>2, <1>3, <1>4 DEF Acceptable, Writes, Replacing
      <4>2. QED
        BY <1>7, <2>1, <3>1, <4>1 DEF SoundInv, RowsInv, Enabled, MoreEdited
    <3>2. CASE x # s
      BY <1>6, <1>7, <2>1, <3>2 DEF SoundInv, RowsInv, MoreEdited
    <3>3. QED
      BY <3>1, <3>2
  <2>2. QED
    BY <1>7, <2>1 DEF RowsInv
<1>13. SwapInv'
  BY <1>1, <1>3, <1>5, <1>6, <1>7 DEF SwapInv
<1>14. UnmarkedInv'
  BY <1>2, PathKinds, <1>6, <1>7, UnmarkedMoves DEF SoundInv, StoreInv, OldestInv, NamedAs
<1>15. QED
  BY <1>8, <1>9, <1>10, <1>11, <1>12, <1>13, <1>14 DEF SoundInv

LEMMA SiteCallSound ==
  ASSUME CInv, SoundInv, thread[Req] # Null, thread[Req].op = "site", thread[Req].pc = "call",
         NEW n \in Thread(Sites), Alters(Req, n), Same(n, thread[Req]), n.pc = "done", Acceptable(n.tx), Install(n.tx),
         UNCHANGED <<live, ssl, links, entries, mu>>, MoreEdited
  PROVE  SoundInv'
<1>1. PICK r \in Thread(Sites) : r = thread[Req] /\ Fits(Req, r) /\ Writes(Req, r) /\ mu # Req
  BY ThreadIs, RequestIs, PlacesAre DEF Holds, Rewrites, RowOps
<1>2. PICK s \in Sites : s = r.site
  BY <1>1 DEF Fits
<1>3. n.op = "site" /\ n.tx = r.tx /\ n.site = s /\ n # Null /\ r.tx \in Tx(Sites)
  BY <1>1, <1>2, ThreadNotNull DEF Same, Alike, Thread
<1>4. /\ r.tx.test /\ DOMAIN r.tx.conf = {s} /\ r.tx.conf[s] = Absent
      /\ \A x \in DOMAIN r.tx.files : r.tx.files[x] = Absent
  BY <1>1, <1>2 DEF Writes, Removing
<1>5. /\ thread'[Req] = n /\ \A u \in Threads : u # Req => thread'[u] = thread[u]
      /\ mu # Null => thread'[mu] = thread[mu] /\ thread[mu].op # "replace"
  BY Altered, PlacesAre, <1>1, JobIs DEF CInv, Typed, MemoryOK, LockInv, Threads, Placed
<1>6. /\ \A q \in Paths : files'[q] = files[q] \/ files'[q] = Absent
      /\ \A x \in Sites : x # s => conf'[x] = conf[x]
      /\ conf'[s] = Absent
  BY <1>3, <1>4, InstallFacts DEF CInv, Typed
<1>7. \A x \in Sites : /\ ~Swapping(x) /\ ~Swapped(x) /\ ~Swapping(x)' /\ ~Swapped(x)'
                       /\ Ahead(x)' <=> Ahead(x)
  BY <1>5 DEF HolderAt, Ahead, Swapping, Swapped
<1>8. StoreInv'
  BY <1>6, PathKinds, FilesGo DEF SoundInv
<1>9. ServedInv'
  BY <1>3, <1>4, TestedServed DEF CInv
<1>10. ReqInv'
  BY <1>3, <1>5 DEF ReqInv, LiveInv, UseInv, UploadInv, DeleteInv, RowOps
<1>11. DeadInv'
  BY <1>3, <1>5, <1>6 DEF SoundInv, DeadInv
<1>12. RowsInv'
  <2>1. ASSUME NEW x \in Sites, x \in live, x \in Marked, x \notin spent'.edited, conf'[x] # Absent
        PROVE  /\ Ahead(x)' => Matches(thread'[mu'].undo, conf'[x])
               /\ ~Ahead(x)' => Matches(ssl'[x], conf'[x])
    BY <1>6, <2>1, <1>7, <1>5 DEF SoundInv, RowsInv, MoreEdited, Ahead, HolderAt
  <2>2. QED
    BY <1>7, <2>1 DEF RowsInv
<1>13. SwapInv'
  BY <1>7 DEF SwapInv
<1>14. UnmarkedInv'
  BY <1>6, <1>7, UnmarkedMoves DEF Named0, SoundInv
<1>15. QED
  BY <1>8, <1>9, <1>10, <1>11, <1>12, <1>13, <1>14 DEF SoundInv

LEMMA CallOfRequestSound ==
  ASSUME CInv, SoundInv, Good', CallOfRequest
  PROVE  SoundInv'
<1>1. thread[Req] # Null /\ thread[Req].pc = "call" /\ Called(Req, "done", "failed") /\ UNCHANGED <<tables, mu, sweep>>
  BY DEF CallOfRequest
<1>2. UNCHANGED <<live, ssl, entries, links>>
  BY <1>1 DEF tables
<1>3. PICK a \in ReqPlaces \cup JobPlaces, b \in ReqPlaces \cup JobPlaces : a = "done" /\ b = "failed"
  BY PlacesAre
<1>4. Typed /\ Called(Req, a, b) /\ Req \in Threads
  BY <1>1, <1>3, PlacesAre DEF CInv
<1>5. PICK n \in Thread(Sites) :
         /\ Alters(Req, n) /\ Same(n, thread[Req])
         /\ \/ n.pc = a /\ Acceptable(n.tx) /\ Install(n.tx) /\ Calm
            \/ n.pc = b /\ UNCHANGED disk /\ Calm
            \/ spent'.mishap
  BY <1>1, <1>4, CalledFacts
<1>6. MoreEdited
  BY <1>5 DEF Calm, MoreEdited, Good
<1>7. CASE n.pc = b /\ UNCHANGED disk
  BY <1>1, <1>3, <1>4, <1>5, <1>6, <1>7, Refused
<1>8. CASE n.pc = a /\ Acceptable(n.tx) /\ Install(n.tx)
  <2>1. PICK r \in Thread(Sites) : r = thread[Req] /\ Placed(Req, r) /\ (mu = Req <=> Holds(r))
    BY <1>1, RequestIs
  <2>2. CASE r.op \in RowOps
    <3>1. Rewrites(r) /\ mu = Req /\ r.site \in live
      BY <1>1, <2>1, <2>2 DEF Rewrites, Holds, SoundInv, ReqInv, LiveInv
    <3>2. n.site = r.site
      BY <1>5, <2>1 DEF Same, Alike
    <3>3. QED
      BY <1>1, <1>2, <1>3, <1>4, <1>5, <1>6, <1>8, <2>1, <3>1, <3>2, Rewritten
  <2>3. CASE r.op = "upload"
    BY <1>1, <1>2, <1>3, <1>5, <1>6, <1>8, <2>1, <2>3, UploadCallSound
  <2>4. CASE r.op = "delete"
    BY <1>1, <1>2, <1>3, <1>5, <1>6, <1>8, <2>1, <2>4, DeleteCallSound
  <2>5. CASE r.op = "replace"
    BY <1>1, <1>2, <1>3, <1>5, <1>6, <1>8, <2>1, <2>5, ReplaceCallSound
  <2>6. CASE r.op = "site"
    BY <1>1, <1>2, <1>3, <1>5, <1>6, <1>8, <2>1, <2>6, SiteCallSound
  <2>7. QED
    BY <2>1, <2>2, <2>3, <2>4, <2>5, <2>6 DEF Thread, Placed, RowOps
<1>9. QED
  BY <1>5, <1>7, <1>8 DEF Good

LEMMA RequestGoesOnSound ==
  ASSUME CInv, SoundInv, Good', RequestGoesOn
  PROVE  SoundInv'
BY CallOfRequestSound, FinishUseSound, FinishPlainSound, FailConfigureSound, EntryEndsSound, FinishReplaceSound,
   FinishDeleteSiteSound, FailDeleteSiteSound, RedeployLocksSound, FinishRedeploySound DEF RequestGoesOn

-----------------------------------------------------------------------------
(* What went wrong stays noted.                                            *)

LEMMA StillNoted ==
  ASSUME spent \in Spent,
         \/ Served \/ Fault \/ Mishap \/ UNCHANGED spent
         \/ spent' = [spent EXCEPT !.requests = @ + 1, !.faults = @ + 1, !.mishap = TRUE]
         \/ \E s \in Sites : spent' = [spent EXCEPT !.requests = @ + 1, !.edited = @ \cup {s}]
         \/ \E o \in Orders : spent' = [spent EXCEPT !.stale = @ \/ conf[thread[o].site] # thread[o].tx.conf[thread[o].site]]
         \/ spent' = [spent EXCEPT !.sweeps = @ + 1],
         Good'
  PROVE  Good
BY DEF Spent, Served, Fault, Mishap, Good

LEMMA GoodBefore ==
  ASSUME CInv, [Next]_vars, Good'
  PROVE  Good
<1>0. spent \in Spent
  BY DEF CInv, Typed
<1>1. CASE Requests
  <2>1. \/ Served
        \/ spent' = [spent EXCEPT !.requests = @ + 1, !.faults = @ + 1, !.mishap = TRUE]
        \/ \E s \in Sites : spent' = [spent EXCEPT !.requests = @ + 1, !.edited = @ \cup {s}]
    BY <1>1 DEF Requests, ManualPEM, ExistingFiles, Disable, Configure, EditConfiguration, DeleteSite, DeployFromStore,
       ReplaceCertificate, AdoptCertificate, ApplyCertificate, UploadToStore, DeleteFromStore, ForceObtain,
       RenewOrder, DeleteOrder, DeployOrder, SetAutoRenew
  <2>2. QED
    BY <1>0, <2>1, StillNoted
<1>2. CASE RequestGoesOn
  <2>1. Fault \/ Mishap \/ UNCHANGED spent
    BY <1>2 DEF RequestGoesOn, CallOfRequest, Called, FinishUse, FinishPlain, FailConfigure, FailUpload, FinishDelete,
       FinishReplace, FinishDeleteSite, FailDeleteSite, RedeployLocks, FinishRedeploy, MarkIfSaved
  <2>2. QED
    BY <1>0, <2>1, StillNoted
<1>3. ASSUME NEW o \in Orders, JobGoesOn(o)
      PROVE  Good
  <2>1. \/ Fault \/ Mishap \/ UNCHANGED spent
        \/ spent' = [spent EXCEPT !.stale = @ \/ conf[thread[o].site] # thread[o].tx.conf[thread[o].site]]
        \/ Unsaved(o)
    BY <1>3 DEF JobGoesOn, JobPrepare, JobChallenge, JobAsk, Unprepared, JobSave, JobFail, JobRecord, JobDeploy, JobInstall,
       JobRollback, JobSettle, JobComplete, MarkIfSaved, Called
  <2>2. Unsaved(o) => Good
    BY UnsavedFacts DEF Good
  <2>3. QED
    BY <1>0, <2>1, <2>2, StillNoted
<1>4. CASE SweepSteps
  BY <1>4, <1>0, StillNoted DEF SweepSteps, RunScheduledRenewal, RenewOrderForScheduledTask,
     SweepGoesOn
<1>5. CASE Crash
  BY <1>0, <1>5 DEF Crash, Good, Spent
<1>6. CASE UNCHANGED vars
  BY <1>0, <1>6, StillNoted DEF vars
<1>7. QED
  BY <1>1, <1>2, <1>3, <1>4, <1>5, <1>6 DEF Next

LEMMA EachStepSound ==
  ASSUME CInv, SoundInv, [Next]_vars, Good'
  PROVE  SoundInv'
<1>1. CASE Crash
  BY <1>1 DEF Crash, Good, CInv, Typed, Spent
<1>2. CASE UNCHANGED vars
  BY <1>2, Quiet DEF vars, tables, MoreEdited
<1>3. QED
  BY <1>1, <1>2, RequestsSound, RequestGoesOnSound, JobSound, SweepSound DEF Next

LEMMA SoundAtFirst ==
  ASSUME Init
  PROVE  SoundInv
<1>1. /\ live = Sites /\ ssl = [s \in Sites |-> Null] /\ entries = [k \in Entries |-> Null]
      /\ mu = Null /\ thread = [t \in Threads |-> Null]
      /\ conf \in [Sites -> {External(x) : x \in Outside} \cup {Null}]
      /\ \A s \in Marked : conf[s] = Null
  BY DEF Init
<1>2. thread[Req] = Null
  BY <1>1, PlacesAre
<1>3. PICK outside \in [Outside -> Certs] :
         files = [p \in Paths |-> IF p[1] = "outside" THEN outside[p[2]] ELSE Absent]
  BY DEF Init
<1>4. StoreInv
  BY <1>3, PathKinds, <1>1 DEF StoreInv, FileInv, OldestInv
<1>5. ReqInv /\ DeadInv
  BY <1>1, <1>2 DEF ReqInv, LiveInv, UseInv, UploadInv, DeleteInv, DeadInv
<1>6. \A s \in Sites : ~HolderAt(s) /\ ~Ahead(s) /\ ~Swapping(s) /\ ~Swapped(s)
  BY <1>1 DEF HolderAt, Ahead, Swapping, Swapped
<1>7. RowsInv /\ SwapInv
  BY <1>1, <1>6 DEF RowsInv, SwapInv, Matches
<1>8. UnmarkedInv
  BY <1>1 DEF UnmarkedInv, Named0
<1>9. ServedInv
  <2>1. ASSUME NEW s \in Sites, conf[s] \in Paths
        PROVE  files[conf[s]] # Absent
    BY <1>1, <2>1, PathsAssumption, <1>3, PathKinds, CertificatesAssumption DEF External, Bytes
  <2>2. QED
    BY <2>1 DEF ServedInv
<1>10. QED
  BY <1>4, <1>5, <1>7, <1>8, <1>9 DEF SoundInv

(* The rows, the store, the configurations and the files agree, in every   *)
(* state before an answer is lost, a write of the records fails, the panel *)
(* stops, or a job writes back a configuration it read too early.          *)
THEOREM SInvariant == Spec => [](CInv /\ (Good => SoundInv))
<1>1. Init => SoundInv
  BY SoundAtFirst
<1>2. ASSUME CInv, Good => SoundInv, [Next]_vars
      PROVE  (Good => SoundInv)'
  BY <1>2, GoodBefore, EachStepSound
<1>3. QED
  BY <1>1, <1>2, CInvariant, PTL DEF Spec

(* What nginx is told to load is there, whoever saves, deletes, deploys,   *)
(* replaces and renews meanwhile: the next reload of any site works.       *)
THEOREM ServedFilesAreThere == Spec => []ServedFilesExist
<1>1. (Good => SoundInv) => ServedFilesExist
  BY DEF Good, SoundInv, ServedInv, ServedFilesExist
<1>2. QED
  BY <1>1, SInvariant, PTL

(* Between operations the panel shows of a site's certificate what the     *)
(* site's configuration says, after refusals and rollbacks too.            *)
THEOREM RowsAreServed == Spec => []RowIsServed
<1>1. ASSUME Good => SoundInv
      PROVE  RowIsServed
  BY CertificatesAssumption, <1>1, RowsMatch DEF RowIsServed, Good, Matches, Enabled
<1>2. QED
  BY <1>1, SInvariant, PTL
====
