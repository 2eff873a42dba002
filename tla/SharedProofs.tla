---- MODULE SharedProofs ----
(* The theorems of SharedConfig: what is on the disk loads, whoever wrote it *)
(* last, and the upstreams shown as applied are the ones that are there.     *)

EXTENDS SharedConfig, TLAPS

-----------------------------------------------------------------------------

ContentOf(f) ==
  CASE f = "main" -> Main [] f = "pools" -> Servers [] f \in {"https", "cache"} -> BOOLEAN
    [] OTHER -> SiteFile

Fitting(changes) == \A f \in DOMAIN changes : f \in SharedFiles /\ changes[f] \in ContentOf(f)

Spent == [ops : Nat, faults : Nat, unsure : BOOLEAN, late : BOOLEAN, overlap : BOOLEAN]

SharedTyped ==
  /\ pool \in Servers /\ uses \in [Sites -> [up : Pools \cup {None}, cache : BOOLEAN]]
  /\ setting \in [default : Sites \cup {None}, hijack : BOOLEAN] /\ applied \in Servers \cup {None}
  /\ disk \in [SharedFiles -> Content] /\ Fitting(disk)
  /\ lock \in Calls \cup {None}
  /\ request \in [Threads -> PanelRequest \cup {None}]
  /\ call \in [Calls -> AgentCall \cup {None}]
  /\ spent \in Spent

(* A call: what its changes are of, and what is kept of before.              *)
HoldsIn(k) == k # None /\ k.ans = "none" /\ k.do = "files" /\ k.pc = "test"
AddsIn(k) == k # None /\ k.do = "include" /\ k.ans = "none" /\ k.pc # "look"
OnPoolsIn(k) == k # None /\ "pools" \in DOMAIN k.changes

CallFits(k) ==
  /\ Fitting(k.changes) /\ k.test
  /\ k.do = "include" => k.pc # "lock"
  /\ HoldsIn(k) => DOMAIN k.before = DOMAIN k.changes /\ Fitting(k.before)
  /\ AddsIn(k) => k.before \in Main

CallsFit ==
  \A c \in Calls :
    /\ call[c] # None => CallFits(call[c]) /\ (call[c].left <=> c = "old")
    /\ HoldsIn(call[c]) => lock = c

(* A request and its call.                                                   *)
HttpFits(r, k) ==
  /\ r # None /\ r.op = "pools" =>
       r.value \in Servers /\ r.pc \in {"call", "done"} /\ (r.pc = "call" => OnPoolsIn(k))
  /\ r # None /\ r.op = "default" => r.site \in Sites \cup {None} /\ r.value \in Sites \cup {None}
  /\ r # None /\ r.op = "hijack" => r.value \in BOOLEAN
  /\ r # None /\ r.op = "proxy" => r.site \in Sites
  /\ k # None => r # None /\ r.pc = "call"
  /\ OnPoolsIn(k) => r.op = "pools" /\ k.do = "files" /\ k.changes["pools"] = r.value

JobFits(r, k) ==
  /\ r # None => r.op = "renew" /\ r.site \in Sites
  /\ k # None => r # None /\ r.pc = "call"
  /\ ~OnPoolsIn(k)

RequestsFit == HttpFits(request["http"], call["http"]) /\ JobFits(request["job"], call["job"])

(* Transactions and installations, one at a time: each can be gone back on.  *)
FilesLoad ==
  /\ lock = None /\ ~Installing => Loads(disk)
  /\ lock # None => ~Installing
  /\ \A c \in Calls : HoldsIn(call[c]) => Loads(Rewritten(call[c].before, disk))
  /\ \A c \in Calls : AddsIn(call[c]) => Loads([disk EXCEPT !["main"] = call[c].before])
  /\ \A c, d \in Calls : AddsIn(call[c]) /\ AddsIn(call[d]) => c = d

(* What was recorded of the upstreams is what there is, or what it would go  *)
(* back to; what the request sent is there once it is carried out.           *)
CarriedBy(r, k) == r # None /\ r.op = "pools" /\ (r.pc = "done" \/ (k # None /\ k.ans = "ok"))
Carried == CarriedBy(request["http"], call["http"])
ApplyingIn(k) == HoldsIn(k) /\ OnPoolsIn(k)
Recorded(servers) == applied = None \/ servers = applied

PoolsFollow ==
  /\ Carried \/ ApplyingIn(call["http"]) => disk["pools"] = request["http"].value
  /\ Carried => ~ApplyingIn(call["old"])
  /\ ~spent.unsure =>
       /\ ~ApplyingIn(call["old"])
       /\ ~Carried /\ ~ApplyingIn(call["http"]) => Recorded(disk["pools"])
       /\ ApplyingIn(call["http"]) => Recorded(call["http"].before["pools"])

SharedBase == SharedTyped /\ CallsFit /\ RequestsFit
SharedInv ==
  /\ SharedBase
  /\ ~spent.overlap => FilesLoad
  /\ ~spent.late => PoolsFollow

-----------------------------------------------------------------------------

LEMMA SharedNames ==
  /\ "http" \in Calls /\ "job" \in Calls /\ "old" \in Calls /\ "http" \in Threads /\ "job" \in Threads
  /\ "main" \in SharedFiles /\ "pools" \in SharedFiles /\ "https" \in SharedFiles /\ "cache" \in SharedFiles
  /\ Sites \subseteq SharedFiles /\ Threads \subseteq Calls
  /\ \A s \in Sites : s # "main" /\ s # "pools" /\ s # "https" /\ s # "cache" /\ s # None
BY SharedAssumption DEF Calls, Threads, SharedFiles, Common

LEMMA ContentTyped ==
  /\ ContentOf("main") = Main /\ ContentOf("pools") = Servers
  /\ ContentOf("https") = BOOLEAN /\ ContentOf("cache") = BOOLEAN
  /\ \A s \in Sites : ContentOf(s) = SiteFile
  /\ \A f \in SharedFiles : ContentOf(f) \subseteq Content
BY SharedNames DEF ContentOf, Content, SharedFiles, Common

LEMMA DiskTyped ==
  ASSUME SharedTyped
  PROVE  /\ disk["main"] \in Main /\ disk["pools"] \in Servers
         /\ disk["https"] \in BOOLEAN /\ disk["cache"] \in BOOLEAN
         /\ \A s \in Sites : disk[s] \in SiteFile
BY SharedNames, ContentTyped DEF SharedTyped, Fitting

LEMMA ChangesTyped ==
  ASSUME NEW some \in SUBSET SharedFiles, NEW w \in [some -> Content]
  PROVE  w \in Changes
BY DEF Changes

LEMMA OneTyped ==
  ASSUME NEW f \in SharedFiles, NEW v \in ContentOf(f)
  PROVE  Only(f, v) \in Changes /\ Fitting(Only(f, v)) /\ DOMAIN Only(f, v) = {f} /\ Only(f, v)[f] = v
<1>1. PICK w : w = Only(f, v)
  OBVIOUS
<1>2. w \in [{f} -> Content] /\ DOMAIN w = {f} /\ w[f] = v
  BY <1>1, ContentTyped DEF Only
<1>3. {f} \in SUBSET SharedFiles
  OBVIOUS
<1>4. w \in Changes
  BY <1>2, <1>3, ChangesTyped
<1>5. Fitting(w)
  BY <1>2 DEF Fitting
<1>6. QED
  BY <1>1, <1>2, <1>4, <1>5

LEMMA RewrittenTyped ==
  ASSUME NEW d \in [SharedFiles -> Content], Fitting(d), NEW w, Fitting(w)
  PROVE  /\ Rewritten(w, d) \in [SharedFiles -> Content] /\ Fitting(Rewritten(w, d))
         /\ \A f \in SharedFiles : Rewritten(w, d)[f] = IF f \in DOMAIN w THEN w[f] ELSE d[f]
<1>1. PICK r : r = Rewritten(w, d)
  OBVIOUS
<1>2. r = [f \in SharedFiles |-> IF f \in DOMAIN w THEN w[f] ELSE d[f]]
  BY <1>1 DEF Rewritten
<1>3. \A f \in SharedFiles : r[f] = IF f \in DOMAIN w THEN w[f] ELSE d[f]
  BY <1>2
<1>4. DOMAIN r = SharedFiles
  BY <1>2
<1>5. \A f \in SharedFiles : r[f] \in ContentOf(f)
  BY <1>3 DEF Fitting
<1>6. Fitting(r)
  BY <1>4, <1>5 DEF Fitting
<1>7. r \in [SharedFiles -> Content]
  BY <1>2, <1>4, <1>5, ContentTyped
<1>8. QED
  BY <1>1, <1>3, <1>6, <1>7

(* What is kept of before puts everything back.                              *)
LEMMA PutBack ==
  ASSUME NEW d \in [SharedFiles -> Content], Fitting(d), NEW w, Fitting(w),
         NEW b, b = [f \in DOMAIN w |-> d[f]]
  PROVE  Rewritten(b, Rewritten(w, d)) = d /\ Fitting(b) /\ DOMAIN b = DOMAIN w /\ b \in Changes
<1>1. DOMAIN b = DOMAIN w /\ (\A f \in DOMAIN w : b[f] = d[f] /\ f \in SharedFiles)
  BY DEF Fitting
<1>2. Fitting(b)
  BY <1>1 DEF Fitting
<1>3. PICK r : r = Rewritten(w, d)
  OBVIOUS
<1>4. r \in [SharedFiles -> Content] /\ Fitting(r)
      /\ \A f \in SharedFiles : r[f] = IF f \in DOMAIN w THEN w[f] ELSE d[f]
  BY <1>3, RewrittenTyped
<1>5. PICK q : q = Rewritten(b, r)
  OBVIOUS
<1>6. q \in [SharedFiles -> Content] /\ \A f \in SharedFiles : q[f] = IF f \in DOMAIN b THEN b[f] ELSE r[f]
  BY <1>2, <1>4, <1>5, RewrittenTyped
<1>7. \A f \in SharedFiles : q[f] = d[f]
  BY <1>1, <1>4, <1>6
<1>8. q = d
  BY <1>6, <1>7
<1>9. DOMAIN w \in SUBSET SharedFiles /\ b \in [DOMAIN w -> Content]
  BY <1>1
<1>10. b \in Changes
  BY <1>9, ChangesTyped
<1>11. QED
  BY <1>1, <1>2, <1>3, <1>5, <1>8, <1>10

(* A step changes what one goroutine is doing, and its call.                 *)
Now(t, r, k) == request' = [request EXCEPT ![t] = r] /\ call' = [call EXCEPT ![t] = k]
Becomes(c, k) == call' = [call EXCEPT ![c] = k]

SameFlags ==
  spent'.unsure = spent.unsure /\ spent'.late = spent.late /\ spent'.overlap = spent.overlap

(* A call that is being sent.                                                *)
Fresh(k) ==
  /\ Fitting(k.changes) /\ k.test /\ ~k.left /\ k.ans = "none"
  /\ (k.do = "files" /\ k.pc = "lock") \/ (k.do = "include" /\ k.pc = "look")

LEMMA FreshFits ==
  ASSUME NEW k \in AgentCall, Fresh(k)
  PROVE  CallFits(k) /\ ~k.left /\ ~HoldsIn(k) /\ ~AddsIn(k) /\ k.ans = "none"
BY DEF Fresh, CallFits, HoldsIn, AddsIn

LEMMA NowPoints ==
  ASSUME SharedTyped, NEW t \in Threads, NEW r \in PanelRequest \cup {None},
         NEW k \in AgentCall \cup {None}, Now(t, r, k)
  PROVE  /\ request' \in [Threads -> PanelRequest \cup {None}] /\ call' \in [Calls -> AgentCall \cup {None}]
         /\ request'[t] = r /\ call'[t] = k
         /\ \A d \in Threads : d # t => request'[d] = request[d]
         /\ \A c \in Calls : c # t => call'[c] = call[c]
BY SharedNames DEF Now, SharedTyped

(* What the panel does of itself leaves the files, the lock and the other    *)
(* calls alone.                                                              *)
LEMMA PanelStep ==
  ASSUME SharedInv, NEW t \in Threads, NEW r \in PanelRequest \cup {None},
         NEW k \in AgentCall \cup {None}, Now(t, r, k),
         disk' = disk, lock' = lock, applied' = applied,
         pool' \in Servers, uses' \in [Sites -> [up : Pools \cup {None}, cache : BOOLEAN]],
         setting' \in [default : Sites \cup {None}, hijack : BOOLEAN],
         spent' \in Spent, SameFlags,
         ~HoldsIn(call[t]), ~AddsIn(call[t]),
         k # None => Fresh(k),
         t = "http" => HttpFits(r, k), t = "job" => JobFits(r, k),
         t = "http" => (CarriedBy(r, k) <=> Carried),
         t = "http" /\ Carried => r.value = request["http"].value
  PROVE  SharedInv'
<1>1. /\ request' \in [Threads -> PanelRequest \cup {None}] /\ call' \in [Calls -> AgentCall \cup {None}]
      /\ request'[t] = r /\ call'[t] = k
      /\ \A d \in Threads : d # t => request'[d] = request[d]
      /\ \A c \in Calls : c # t => call'[c] = call[c]
  BY NowPoints DEF SharedInv, SharedBase
<1>2. SharedTyped'
  BY <1>1 DEF SharedInv, SharedBase, SharedTyped, Fitting
<1>3. t \in Calls /\ t # "old" /\ (t = "http" \/ t = "job")
  BY SharedNames DEF Threads
<1>4. k # None => CallFits(k) /\ ~k.left /\ k.ans = "none"
  BY FreshFits
<1>5. ~HoldsIn(k) /\ ~AddsIn(k)
  BY FreshFits DEF HoldsIn, AddsIn
<1>6. CallsFit'
  <2> SUFFICES ASSUME NEW c \in Calls
               PROVE  /\ call'[c] # None => CallFits(call'[c]) /\ (call'[c].left <=> c = "old")
                      /\ HoldsIn(call'[c]) => lock' = c
    BY DEF CallsFit, CallFits, HoldsIn, AddsIn
  <2>1. CASE c = t
    BY <2>1, <1>1, <1>3, <1>4, <1>5
  <2>2. CASE c # t
    BY <2>2, <1>1 DEF SharedInv, SharedBase, CallsFit
  <2>3. QED
    BY <2>1, <2>2
<1>7. RequestsFit'
  <2>1. HttpFits(request'["http"], call'["http"])
    BY <1>1, <1>3, SharedNames DEF SharedInv, SharedBase, RequestsFit
  <2>2. JobFits(request'["job"], call'["job"])
    BY <1>1, <1>3, SharedNames DEF SharedInv, SharedBase, RequestsFit
  <2>3. QED
    BY <2>1, <2>2 DEF RequestsFit, HttpFits, JobFits, OnPoolsIn
<1>8. \A c \in Calls : (HoldsIn(call'[c]) <=> HoldsIn(call[c])) /\ (AddsIn(call'[c]) <=> AddsIn(call[c]))
                        /\ (HoldsIn(call'[c]) \/ AddsIn(call'[c]) => call'[c] = call[c])
  BY <1>1, <1>5
<1>9. Installing' <=> Installing
  <2>1. Installing <=> \E c \in Calls : AddsIn(call[c])
    BY DEF Installing, AddsIn
  <2>2. Installing' <=> \E c \in Calls : AddsIn(call'[c])
    BY DEF Installing, AddsIn
  <2>3. QED
    BY <2>1, <2>2, <1>8
<1>10. (~spent.overlap => FilesLoad)'
  <2>1. SUFFICES ASSUME ~spent.overlap, FilesLoad
                 PROVE  FilesLoad'
    BY DEF SharedInv, SameFlags
  <2>2. (lock' = None /\ ~Installing' => Loads(disk')) /\ (lock' # None => ~Installing')
    BY <2>1, <1>9 DEF FilesLoad
  <2>3. \A c \in Calls : HoldsIn(call'[c]) => Loads(Rewritten(call'[c].before, disk'))
    BY <2>1, <1>8 DEF FilesLoad
  <2>4. \A c \in Calls : AddsIn(call'[c]) => Loads([disk' EXCEPT !["main"] = call'[c].before])
    <3> SUFFICES ASSUME NEW c \in Calls, AddsIn(call'[c])
                 PROVE  Loads([disk' EXCEPT !["main"] = call'[c].before])
      OBVIOUS
    <3>1. AddsIn(call[c]) /\ call'[c] = call[c]
      BY <1>8
    <3>2. Loads([disk EXCEPT !["main"] = call[c].before])
      BY <2>1, <3>1 DEF FilesLoad
    <3>3. QED
      BY <3>1, <3>2
  <2>5. \A c, d \in Calls : AddsIn(call'[c]) /\ AddsIn(call'[d]) => c = d
    BY <2>1, <1>8 DEF FilesLoad
  <2>6. QED
    BY <2>2, <2>3, <2>4, <2>5 DEF FilesLoad, AddsIn, HoldsIn
<1>11. (~spent.late => PoolsFollow)'
  <2>1. SUFFICES ASSUME ~spent.late, PoolsFollow
                 PROVE  PoolsFollow'
    BY DEF SharedInv, SameFlags
  <2>2. (Carried' <=> Carried) /\ (Carried => request'["http"].value = request["http"].value)
    BY <1>1, <1>3, SharedNames DEF Carried, CarriedBy
  <2>3. (ApplyingIn(call'["http"]) <=> ApplyingIn(call["http"]))
        /\ (ApplyingIn(call["http"]) => call'["http"] = call["http"] /\ request'["http"] = request["http"])
    BY <1>1, <1>5, <1>8, SharedNames DEF ApplyingIn
  <2>4. ApplyingIn(call'["old"]) <=> ApplyingIn(call["old"])
    BY <1>1, <1>3, SharedNames
  <2>5. PICK a : a = applied
    OBVIOUS
  <2>6. \A v : Recorded(v) <=> (a = None \/ v = a)
    BY <2>5 DEF Recorded
  <2>7. Carried' \/ ApplyingIn(call'["http"]) => disk'["pools"] = request'["http"].value
    BY <2>1, <2>2, <2>3 DEF PoolsFollow
  <2>8. Carried' => ~ApplyingIn(call'["old"])
    BY <2>1, <2>2, <2>4 DEF PoolsFollow
  <2>9. ~spent'.unsure => ~ApplyingIn(call'["old"])
    BY <2>1, <2>4 DEF PoolsFollow, SameFlags
  <2>10. ~spent'.unsure /\ ~Carried' /\ ~ApplyingIn(call'["http"]) => Recorded(disk["pools"])
    BY <2>1, <2>2, <2>3 DEF PoolsFollow, SameFlags
  <2>11. ~spent'.unsure /\ ApplyingIn(call'["http"]) => Recorded(call["http"].before["pools"])
    BY <2>1, <2>3 DEF PoolsFollow, SameFlags
  <2>12. QED
    BY <2>3, <2>7, <2>8, <2>9, <2>10, <2>11
       DEF PoolsFollow, Recorded, Carried, CarriedBy, ApplyingIn, HoldsIn, OnPoolsIn
<1>12. QED
  BY <1>2, <1>6, <1>7, <1>10, <1>11 DEF SharedInv, SharedBase

(* A step of the agent changes one call, and keeps what it is about.         *)
Like(k, m) ==
  /\ k.do = m.do /\ k.changes = m.changes /\ k.test = m.test /\ k.left = m.left
  /\ k.pc = "lock" => m.pc = "lock"

LEMMA BecomesPoints ==
  ASSUME SharedTyped, NEW c \in Calls, NEW k \in AgentCall \cup {None}, Becomes(c, k)
  PROVE  /\ call' \in [Calls -> AgentCall \cup {None}]
         /\ call'[c] = k /\ \A d \in Calls : d # c => call'[d] = call[d]
BY DEF Becomes, SharedTyped

LEMMA AgentBase ==
  ASSUME SharedBase, NEW c \in Calls, call[c] # None, NEW k \in AgentCall \cup {None}, Becomes(c, k),
         UNCHANGED <<rows, request>>, spent' \in Spent,
         disk' \in [SharedFiles -> Content], Fitting(disk'), lock' \in Calls \cup {None},
         k = None => call[c].left, k # None => Like(k, call[c]) /\ CallFits(k),
         HoldsIn(k) => lock' = c,
         \A d \in Calls : d # c /\ HoldsIn(call[d]) => lock' = d
  PROVE  SharedBase'
<1>1. /\ call' \in [Calls -> AgentCall \cup {None}]
      /\ call'[c] = k /\ \A d \in Calls : d # c => call'[d] = call[d]
  BY BecomesPoints DEF SharedBase
<1>2. SharedTyped'
  BY <1>1 DEF SharedBase, SharedTyped, rows, Fitting
<1>3. CallsFit'
  <2> SUFFICES ASSUME NEW d \in Calls
               PROVE  /\ call'[d] # None => CallFits(call'[d]) /\ (call'[d].left <=> d = "old")
                      /\ HoldsIn(call'[d]) => lock' = d
    BY DEF CallsFit, CallFits, HoldsIn, AddsIn
  <2>1. CASE d = c
    BY <2>1, <1>1 DEF SharedBase, CallsFit, Like
  <2>2. CASE d # c
    BY <2>2, <1>1 DEF SharedBase, CallsFit
  <2>3. QED
    BY <2>1, <2>2
<1>4. k = None => c = "old"
  BY DEF SharedBase, CallsFit
<1>5. HttpFits(request'["http"], call'["http"])
  <2>1. CASE c # "http"
    BY <2>1, <1>1, SharedNames DEF SharedBase, RequestsFit
  <2>2. CASE c = "http"
    <3>1. k # None /\ k.do = call[c].do /\ k.changes = call[c].changes
      BY <2>2, <1>4 DEF Like
    <3>2. HttpFits(request["http"], call["http"])
      BY DEF SharedBase, RequestsFit
    <3>3. QED
      BY <2>2, <3>1, <3>2, <1>1 DEF HttpFits, OnPoolsIn
  <2>3. QED
    BY <2>1, <2>2
<1>6. JobFits(request'["job"], call'["job"])
  <2>1. CASE c # "job"
    BY <2>1, <1>1, SharedNames DEF SharedBase, RequestsFit
  <2>2. CASE c = "job"
    <3>1. k # None /\ k.changes = call[c].changes
      BY <2>2, <1>4 DEF Like
    <3>2. JobFits(request["job"], call["job"])
      BY DEF SharedBase, RequestsFit
    <3>3. QED
      BY <2>2, <3>1, <3>2, <1>1 DEF JobFits, OnPoolsIn
  <2>3. QED
    BY <2>1, <2>2
<1>7. QED
  BY <1>2, <1>3, <1>5, <1>6 DEF SharedBase, RequestsFit, HttpFits, JobFits, OnPoolsIn

(* A step that is not one of a transaction on the upstreams, nor the answer  *)
(* of one, leaves what is known of them as it is.                            *)
LEMMA PoolsKept ==
  ASSUME SharedBase, PoolsFollow, NEW c \in Calls, NEW k \in AgentCall \cup {None}, Becomes(c, k),
         request' = request, applied' = applied, spent'.unsure = spent.unsure,
         disk'["pools"] = disk["pools"], ~ApplyingIn(call[c]), ~ApplyingIn(k),
         c = "http" => (CarriedBy(request["http"], k) <=> Carried)
  PROVE  PoolsFollow'
<1>1. call'[c] = k /\ \A d \in Calls : d # c => call'[d] = call[d]
  BY BecomesPoints DEF SharedBase
<1>2. Carried' <=> Carried
  BY <1>1, SharedNames DEF Carried
<1>3. (ApplyingIn(call'["http"]) <=> ApplyingIn(call["http"]))
      /\ (ApplyingIn(call["http"]) => call'["http"] = call["http"])
      /\ (ApplyingIn(call'["old"]) <=> ApplyingIn(call["old"]))
  BY <1>1, SharedNames
<1>4. Carried' \/ ApplyingIn(call'["http"]) => disk'["pools"] = request'["http"].value
  BY <1>2, <1>3 DEF PoolsFollow
<1>5. Carried' => ~ApplyingIn(call'["old"])
  BY <1>2, <1>3 DEF PoolsFollow
<1>6. ~spent'.unsure => ~ApplyingIn(call'["old"])
  BY <1>3 DEF PoolsFollow
<1>7. ~spent'.unsure /\ ~Carried' /\ ~ApplyingIn(call'["http"]) => Recorded(disk["pools"])
  BY <1>2, <1>3 DEF PoolsFollow
<1>8. ~spent'.unsure /\ ApplyingIn(call'["http"]) => Recorded(call["http"].before["pools"])
  BY <1>3 DEF PoolsFollow
<1>9. QED
  BY <1>3, <1>4, <1>5, <1>6, <1>7, <1>8
     DEF PoolsFollow, Recorded, Carried, CarriedBy, ApplyingIn, HoldsIn, OnPoolsIn

(* The call of a request that is not about the upstreams is not carried.     *)
LEMMA NotCarried ==
  ASSUME SharedBase, call["http"] # None, NEW k,
         ~OnPoolsIn(call["http"]) \/ call["http"].ans = "none", ~OnPoolsIn(call["http"]) \/ k.ans # "ok"
  PROVE  ~Carried /\ ~CarriedBy(request["http"], k)
BY DEF SharedBase, RequestsFit, HttpFits, Carried, CarriedBy

(* Files and lock untouched, and no transaction or installation of this call.*)
LEMMA LoadKept ==
  ASSUME SharedBase, FilesLoad, NEW c \in Calls, NEW k \in AgentCall \cup {None}, Becomes(c, k),
         disk' = disk, lock' = lock, ~HoldsIn(call[c]), ~AddsIn(call[c]), ~HoldsIn(k), ~AddsIn(k)
  PROVE  FilesLoad'
<1>1. call'[c] = k /\ \A d \in Calls : d # c => call'[d] = call[d]
  BY BecomesPoints DEF SharedBase
<1>2. \A d \in Calls : (HoldsIn(call'[d]) <=> HoldsIn(call[d])) /\ (AddsIn(call'[d]) <=> AddsIn(call[d]))
                        /\ (HoldsIn(call'[d]) \/ AddsIn(call'[d]) => call'[d] = call[d])
  BY <1>1
<1>3. Installing' <=> Installing
  <2>1. Installing <=> \E d \in Calls : AddsIn(call[d])
    BY DEF Installing, AddsIn
  <2>2. Installing' <=> \E d \in Calls : AddsIn(call'[d])
    BY DEF Installing, AddsIn
  <2>3. QED
    BY <2>1, <2>2, <1>2
<1>4. (lock' = None /\ ~Installing' => Loads(disk')) /\ (lock' # None => ~Installing')
  BY <1>3 DEF FilesLoad
<1>5. \A d \in Calls : HoldsIn(call'[d]) => Loads(Rewritten(call'[d].before, disk'))
  BY <1>2 DEF FilesLoad
<1>6. \A d \in Calls : AddsIn(call'[d]) => Loads([disk' EXCEPT !["main"] = call'[d].before])
  <2> SUFFICES ASSUME NEW d \in Calls, AddsIn(call'[d])
               PROVE  Loads([disk' EXCEPT !["main"] = call'[d].before])
    OBVIOUS
  <2>1. AddsIn(call[d]) /\ call'[d] = call[d]
    BY <1>2
  <2>2. Loads([disk EXCEPT !["main"] = call[d].before])
    BY <2>1 DEF FilesLoad
  <2>3. QED
    BY <2>1, <2>2
<1>7. \A d, e \in Calls : AddsIn(call'[d]) /\ AddsIn(call'[e]) => d = e
  BY <1>2 DEF FilesLoad
<1>8. QED
  BY <1>4, <1>5, <1>6, <1>7 DEF FilesLoad, AddsIn, HoldsIn

(* Files, lock and calls untouched.                                          *)
LEMMA LoadStays ==
  ASSUME FilesLoad, disk' = disk, lock' = lock, call' = call
  PROVE  FilesLoad'
<1>1. Installing' <=> Installing
  BY DEF Installing
<1>2. (lock' = None /\ ~Installing' => Loads(disk')) /\ (lock' # None => ~Installing')
  BY <1>1 DEF FilesLoad
<1>3. \A c \in Calls : HoldsIn(call'[c]) => Loads(Rewritten(call'[c].before, disk'))
  BY DEF FilesLoad
<1>4. \A c \in Calls : AddsIn(call'[c]) => Loads([disk' EXCEPT !["main"] = call'[c].before])
  BY DEF FilesLoad
<1>5. \A c, d \in Calls : AddsIn(call'[c]) /\ AddsIn(call'[d]) => c = d
  BY DEF FilesLoad
<1>6. QED
  BY <1>2, <1>3, <1>4, <1>5 DEF FilesLoad, AddsIn, HoldsIn

LEMMA Replied ==
  ASSUME SharedBase, NEW c \in Calls, call[c] # None, call[c].ans = "none",
         NEW ans \in {"ok", "failed"}, ReplyTo(c, ans)
  PROVE  \E k \in AgentCall \cup {None} :
           /\ Becomes(c, k) /\ (k = None <=> call[c].left)
           /\ k # None => Like(k, call[c]) /\ CallFits(k) /\ k.ans = ans
           /\ ~HoldsIn(k) /\ ~AddsIn(k)
<1>1. call[c] \in AgentCall /\ CallFits(call[c]) /\ call \in [Calls -> AgentCall \cup {None}]
  BY DEF SharedBase, SharedTyped, CallsFit
<1>2. CASE call[c].left
  <2>1. Becomes(c, None)
    BY <1>2, <1>1 DEF ReplyTo, Becomes
  <2>2. QED
    BY <2>1, <1>2 DEF HoldsIn, AddsIn
<1>3. CASE ~call[c].left
  <2>1. PICK k : k = [call[c] EXCEPT !.ans = ans]
    OBVIOUS
  <2>2. Becomes(c, k)
    BY <2>1, <1>1, <1>3 DEF ReplyTo, Becomes
  <2>3. k \in AgentCall
    BY <2>1, <1>1 DEF AgentCall
  <2>4. k.do = call[c].do /\ k.changes = call[c].changes /\ k.test = call[c].test
        /\ k.left = call[c].left /\ k.pc = call[c].pc /\ k.ans = ans
    BY <2>1, <1>1 DEF AgentCall
  <2>5. Like(k, call[c])
    BY <2>4 DEF Like
  <2>6. ~HoldsIn(k) /\ ~AddsIn(k)
    BY <2>4 DEF HoldsIn, AddsIn
  <2>7. CallFits(k)
    BY <2>4, <2>6, <1>1 DEF CallFits
  <2>8. k # None
    BY <2>3, SharedAssumption
  <2>9. QED
    BY <2>2, <2>3, <2>4, <2>5, <2>6, <2>7, <2>8, <1>3
<1>4. QED
  BY <1>2, <1>3

LEMMA NoneHolds ==
  ASSUME SharedBase, lock = None
  PROVE  \A c \in Calls : ~HoldsIn(call[c])
BY SharedAssumption DEF SharedBase, CallsFit

LEMMA OneHolds ==
  ASSUME SharedBase, NEW c \in Calls, HoldsIn(call[c])
  PROVE  lock = c /\ lock # None /\ \A d \in Calls : d # c => ~HoldsIn(call[d])
BY SharedAssumption DEF SharedBase, CallsFit

LEMMA RefuseKeeps ==
  ASSUME SharedInv, NEW c \in Calls, Refuse(c)
  PROVE  SharedInv'
<1>1. SharedBase /\ call[c] # None /\ call[c].ans = "none" /\ call[c].do = "files" /\ call[c].pc = "lock"
      /\ call[c].left /\ lock = None
  BY DEF Refuse, Doing, SharedInv
<1>2. UNCHANGED <<rows, disk, lock, request, spent>> /\ applied' = applied
  BY DEF Refuse, rows
<1>3. PICK k \in AgentCall \cup {None} :
           /\ Becomes(c, k) /\ (k = None <=> call[c].left)
           /\ k # None => Like(k, call[c]) /\ CallFits(k) /\ k.ans = "failed"
           /\ ~HoldsIn(k) /\ ~AddsIn(k)
  BY <1>1, Replied DEF Refuse
<1>4. SharedBase'
  <2>1. \A d \in Calls : d # c /\ HoldsIn(call[d]) => lock' = d
    BY <1>1, NoneHolds
  <2>2. disk' \in [SharedFiles -> Content] /\ Fitting(disk') /\ lock' \in Calls \cup {None} /\ spent' \in Spent
    BY <1>1, <1>2 DEF SharedBase, SharedTyped
  <2>3. QED
    BY <1>1, <1>2, <1>3, <2>1, <2>2, AgentBase
<1>5. ~HoldsIn(call[c]) /\ ~AddsIn(call[c])
  BY <1>1 DEF HoldsIn, AddsIn
<1>6. (~spent.overlap => FilesLoad)'
  BY <1>1, <1>2, <1>3, <1>5, LoadKept DEF SharedInv
<1>7. (~spent.late => PoolsFollow)'
  <2>1. c # "http"
    BY <1>1 DEF SharedBase, CallsFit
  <2>2. ~ApplyingIn(call[c]) /\ ~ApplyingIn(k)
    BY <1>3, <1>5 DEF ApplyingIn
  <2>3. QED
    BY <1>1, <1>2, <1>3, <2>1, <2>2, PoolsKept DEF SharedInv
<1>8. QED
  BY <1>4, <1>6, <1>7 DEF SharedInv

LEMMA KeepKeeps ==
  ASSUME SharedInv, NEW c \in Calls, Keep(c)
  PROVE  SharedInv'
<1>1. SharedBase /\ call[c] # None /\ call[c].ans = "none" /\ HoldsIn(call[c]) /\ lock' = None
  BY DEF Keep, Doing, SharedInv, HoldsIn
<1>2. UNCHANGED <<rows, request>> /\ disk' = disk /\ spent' = spent /\ applied' = applied
  BY DEF Keep, rows
<1>3. PICK k \in AgentCall \cup {None} :
           /\ Becomes(c, k) /\ (k = None <=> call[c].left)
           /\ k # None => Like(k, call[c]) /\ CallFits(k) /\ k.ans = "ok"
           /\ ~HoldsIn(k) /\ ~AddsIn(k)
  BY <1>1, Replied DEF Keep
<1>4. lock = c /\ lock # None /\ \A d \in Calls : d # c => ~HoldsIn(call[d])
  BY <1>1, OneHolds
<1>5. SharedBase'
  <2>1. disk' \in [SharedFiles -> Content] /\ Fitting(disk') /\ spent' \in Spent
    BY <1>1, <1>2 DEF SharedBase, SharedTyped
  <2>2. QED
    BY <1>1, <1>2, <1>3, <1>4, <2>1, AgentBase
<1>6. call'[c] = k /\ \A d \in Calls : d # c => call'[d] = call[d]
  BY <1>1, <1>3, BecomesPoints DEF SharedBase
<1>7. Loads(disk)
  BY <1>1 DEF Keep, SharedBase, CallsFit, CallFits
<1>8. (~spent.overlap => FilesLoad)'
  <2>1. SUFFICES ASSUME ~spent.overlap, FilesLoad
                 PROVE  FilesLoad'
    BY <1>2 DEF SharedInv
  <2>2. \A d \in Calls : ~AddsIn(call[d])
    BY <2>1, <1>4 DEF FilesLoad, Installing, AddsIn
  <2>3. \A d \in Calls : ~AddsIn(call'[d]) /\ ~HoldsIn(call'[d])
    BY <2>2, <1>3, <1>4, <1>6
  <2>4. QED
    BY <2>3, <1>1, <1>2, <1>7 DEF FilesLoad, Installing, AddsIn, HoldsIn
<1>9. (~spent.late => PoolsFollow)'
  <2>1. SUFFICES ASSUME ~spent.late, PoolsFollow
                 PROVE  PoolsFollow'
    BY <1>2 DEF SharedInv
  <2>2. ~ApplyingIn(k)
    BY <1>3 DEF ApplyingIn
  <2>3. CASE ~OnPoolsIn(call[c])
    <3>1. ~ApplyingIn(call[c])
      BY <2>3 DEF ApplyingIn
    <3>2. c = "http" => (CarriedBy(request["http"], k) <=> Carried)
      <4>1. HAVE c = "http"
      <4>2. ~OnPoolsIn(call["http"]) /\ call["http"] # None
        BY <4>1, <2>3, <1>1
      <4>3. ~Carried /\ ~CarriedBy(request["http"], k)
        BY <4>2, <1>1, NotCarried
      <4>4. QED
        BY <4>3
    <3>3. QED
      BY <1>1, <1>2, <1>3, <2>1, <2>2, <3>1, <3>2, PoolsKept
  <2>4. CASE OnPoolsIn(call[c]) /\ c = "http"
    <3>1. k # None /\ k.ans = "ok"
      BY <1>1, <1>3, <2>4 DEF SharedBase, CallsFit
    <3>2. request["http"] # None /\ request["http"].op = "pools"
      BY <1>1, <2>4 DEF SharedBase, RequestsFit, HttpFits
    <3>3. Carried'
      BY <3>1, <3>2, <1>2, <1>6, <2>4 DEF Carried, CarriedBy
    <3>4. ApplyingIn(call["http"])
      BY <1>1, <2>4 DEF ApplyingIn
    <3>5. disk'["pools"] = request'["http"].value
      BY <2>1, <3>4, <1>2 DEF PoolsFollow
    <3>6. ~ApplyingIn(call'["old"])
      BY <1>4, <1>6, <2>4, SharedNames DEF ApplyingIn
    <3>7. ~ApplyingIn(call'["http"])
      BY <1>6, <2>2, <2>4
    <3>8. QED
      BY <3>3, <3>5, <3>6, <3>7 DEF PoolsFollow, ApplyingIn, HoldsIn, OnPoolsIn, Carried, CarriedBy
  <2>5. CASE OnPoolsIn(call[c]) /\ c # "http"
    <3>1. c = "old"
      BY <1>1, <2>5 DEF SharedBase, RequestsFit, JobFits, Calls, Threads
    <3>2. ApplyingIn(call["old"]) /\ ~Carried
      BY <1>1, <2>1, <2>5, <3>1 DEF ApplyingIn, PoolsFollow
    <3>3. spent.unsure
      BY <2>1, <3>2 DEF PoolsFollow
    <3>4. call'["http"] = call["http"] /\ ~HoldsIn(call["http"])
      BY <1>4, <1>6, <3>1, SharedNames
    <3>5. ~Carried' /\ ~ApplyingIn(call'["http"]) /\ spent'.unsure
      BY <3>2, <3>3, <3>4, <1>2 DEF Carried, ApplyingIn
    <3>6. QED
      BY <3>5 DEF PoolsFollow, ApplyingIn, HoldsIn, OnPoolsIn, Carried, CarriedBy
  <2>6. QED
    BY <2>3, <2>4, <2>5
<1>10. QED
  BY <1>5, <1>8, <1>9 DEF SharedInv

LEMMA RollBackKeeps ==
  ASSUME SharedInv, NEW c \in Calls, RollBack(c)
  PROVE  SharedInv'
<1>1. SharedBase /\ call[c] # None /\ call[c].ans = "none" /\ HoldsIn(call[c]) /\ lock' = None
  BY DEF RollBack, Doing, SharedInv, HoldsIn
<1>2. UNCHANGED <<rows, request>> /\ disk' = Rewritten(call[c].before, disk) /\ applied' = applied
  BY DEF RollBack, rows
<1>3. spent' \in Spent /\ SameFlags
  <2>1. spent \in Spent
    BY <1>1 DEF SharedBase, SharedTyped
  <2>2. CASE spent' = spent
    BY <2>1, <2>2 DEF SameFlags
  <2>3. CASE Failing
    <3>1. PICK n \in Nat : n = spent.faults + 1
      BY <2>1 DEF Spent
    <3>2. spent' = [spent EXCEPT !.faults = n]
      BY <2>3, <3>1 DEF Failing
    <3>3. QED
      BY <2>1, <3>2 DEF Spent, SameFlags
  <2>4. QED
    BY <2>2, <2>3 DEF RollBack
<1>4. PICK k \in AgentCall \cup {None} :
           /\ Becomes(c, k) /\ (k = None <=> call[c].left)
           /\ k # None => Like(k, call[c]) /\ CallFits(k) /\ k.ans = "failed"
           /\ ~HoldsIn(k) /\ ~AddsIn(k)
  BY <1>1, Replied DEF RollBack
<1>5. lock = c /\ lock # None /\ \A d \in Calls : d # c => ~HoldsIn(call[d])
  BY <1>1, OneHolds
<1>6. DOMAIN call[c].before = DOMAIN call[c].changes /\ Fitting(call[c].before)
  BY <1>1 DEF SharedBase, CallsFit, CallFits
<1>7. disk' \in [SharedFiles -> Content] /\ Fitting(disk')
      /\ \A f \in SharedFiles : disk'[f] = IF f \in DOMAIN call[c].before THEN call[c].before[f] ELSE disk[f]
  BY <1>1, <1>2, <1>6, RewrittenTyped DEF SharedBase, SharedTyped
<1>8. SharedBase'
  BY <1>1, <1>2, <1>3, <1>4, <1>5, <1>7, AgentBase
<1>9. call'[c] = k /\ \A d \in Calls : d # c => call'[d] = call[d]
  BY <1>1, <1>4, BecomesPoints DEF SharedBase
<1>10. (~spent.overlap => FilesLoad)'
  <2>1. SUFFICES ASSUME ~spent.overlap, FilesLoad
                 PROVE  FilesLoad'
    BY <1>3 DEF SharedInv, SameFlags
  <2>2. \A d \in Calls : ~AddsIn(call[d])
    BY <2>1, <1>5 DEF FilesLoad, Installing, AddsIn
  <2>3. \A d \in Calls : ~AddsIn(call'[d]) /\ ~HoldsIn(call'[d])
    BY <2>2, <1>4, <1>5, <1>9
  <2>4. Loads(Rewritten(call[c].before, disk))
    BY <2>1, <1>1 DEF FilesLoad
  <2>5. Loads(disk')
    BY <2>4, <1>2
  <2>6. QED
    BY <2>3, <2>5, <1>1 DEF FilesLoad, Installing, AddsIn, HoldsIn
<1>11. (~spent.late => PoolsFollow)'
  <2>1. SUFFICES ASSUME ~spent.late, PoolsFollow
                 PROVE  PoolsFollow'
    BY <1>3 DEF SharedInv, SameFlags
  <2>2. ~ApplyingIn(k)
    BY <1>4 DEF ApplyingIn
  <2>3. CASE ~OnPoolsIn(call[c])
    <3>1. ~ApplyingIn(call[c])
      BY <2>3 DEF ApplyingIn
    <3>2. disk'["pools"] = disk["pools"]
      BY <2>3, <1>1, <1>6, <1>7, SharedNames DEF OnPoolsIn
    <3>3. c = "http" => (CarriedBy(request["http"], k) <=> Carried)
      <4>1. HAVE c = "http"
      <4>2. ~OnPoolsIn(call["http"]) /\ call["http"] # None
        BY <4>1, <2>3, <1>1
      <4>3. ~Carried /\ ~CarriedBy(request["http"], k)
        BY <4>2, <1>1, NotCarried
      <4>4. QED
        BY <4>3
    <3>4. spent'.unsure = spent.unsure
      BY <1>3 DEF SameFlags
    <3>5. request' = request
      BY <1>2
    <3>6. QED
      BY <1>1, <1>2, <1>4, <2>1, <2>2, <3>1, <3>2, <3>3, <3>4, <3>5, PoolsKept
  <2>4. CASE OnPoolsIn(call[c]) /\ c = "http"
    <3>1. ApplyingIn(call["http"]) /\ call["http"] # None /\ call["http"].ans = "none"
      BY <1>1, <2>4 DEF ApplyingIn
    <3>2. k # None /\ k.ans = "failed"
      BY <1>1, <1>4, <2>4 DEF SharedBase, CallsFit
    <3>3. ~Carried /\ ~CarriedBy(request["http"], k)
      BY <1>1, <3>1, <3>2, NotCarried
    <3>4. ~Carried'
      BY <3>3, <1>2, <1>9, <2>4 DEF Carried
    <3>5. ~ApplyingIn(call'["http"]) /\ ~ApplyingIn(call'["old"])
      BY <1>5, <1>9, <2>2, <2>4, SharedNames DEF ApplyingIn
    <3>6. ~spent.unsure => Recorded(call["http"].before["pools"])
      BY <2>1, <3>1 DEF PoolsFollow
    <3>7. disk'["pools"] = call["http"].before["pools"]
      BY <2>4, <1>1, <1>6, <1>7, SharedNames DEF OnPoolsIn
    <3>8. ~spent'.unsure => applied' = None \/ disk'["pools"] = applied'
      BY <3>6, <3>7, <1>2, <1>3 DEF Recorded, SameFlags
    <3>9. QED
      BY <3>4, <3>5, <3>8 DEF PoolsFollow, Recorded, ApplyingIn, HoldsIn, OnPoolsIn, Carried, CarriedBy
  <2>5. CASE OnPoolsIn(call[c]) /\ c # "http"
    <3>1. c = "old"
      BY <1>1, <2>5 DEF SharedBase, RequestsFit, JobFits, Calls, Threads
    <3>2. ApplyingIn(call["old"]) /\ ~Carried
      BY <1>1, <2>1, <2>5, <3>1 DEF ApplyingIn, PoolsFollow
    <3>3. spent.unsure
      BY <2>1, <3>2 DEF PoolsFollow
    <3>4. call'["http"] = call["http"] /\ ~HoldsIn(call["http"])
      BY <1>5, <1>9, <3>1, SharedNames
    <3>5. ~Carried' /\ ~ApplyingIn(call'["http"]) /\ spent'.unsure
      BY <3>2, <3>3, <3>4, <1>2, <1>3 DEF Carried, ApplyingIn, SameFlags
    <3>6. QED
      BY <3>5 DEF PoolsFollow, ApplyingIn, HoldsIn, OnPoolsIn, Carried, CarriedBy
  <2>6. QED
    BY <2>3, <2>4, <2>5
<1>12. QED
  BY <1>8, <1>10, <1>11 DEF SharedInv

LEMMA ApplyKeeps ==
  ASSUME SharedInv, NEW c \in Calls, Apply(c)
  PROVE  SharedInv'
<1>1. /\ SharedBase /\ call[c] # None /\ call[c].ans = "none" /\ call[c].do = "files" /\ call[c].pc = "lock"
      /\ lock = None /\ lock' = c
      /\ call[c] \in AgentCall /\ CallFits(call[c]) /\ call \in [Calls -> AgentCall \cup {None}]
  BY DEF Apply, Doing, SharedInv, SharedBase, SharedTyped, CallsFit
<1>2. UNCHANGED <<rows, request>> /\ disk' = Rewritten(call[c].changes, disk) /\ applied' = applied
  BY DEF Apply, rows
<1>3. /\ disk \in [SharedFiles -> Content] /\ Fitting(disk) /\ spent \in Spent
      /\ Fitting(call[c].changes)
  BY <1>1 DEF SharedBase, SharedTyped, CallFits
<1>4. /\ spent' \in Spent /\ spent'.unsure = spent.unsure
      /\ spent'.late <=> spent.late \/ (call[c].left /\ OnPoolsIn(call[c]))
      /\ spent'.overlap <=> spent.overlap \/ Installing
  <2>1. PICK l \in BOOLEAN : l <=> spent.late \/ (call[c].left /\ Touches(c, "pools"))
    OBVIOUS
  <2>2. PICK o \in BOOLEAN : o <=> spent.overlap \/ Installing
    OBVIOUS
  <2>3. spent' = [spent EXCEPT !.late = l, !.overlap = o]
    BY <1>3, <2>1, <2>2 DEF Apply, Spent
  <2>4. Touches(c, "pools") <=> OnPoolsIn(call[c])
    BY <1>1 DEF Touches, OnPoolsIn
  <2>5. QED
    BY <1>3, <2>1, <2>2, <2>3, <2>4 DEF Spent
<1>5. PICK b : b = [f \in DOMAIN call[c].changes |-> disk[f]]
  OBVIOUS
<1>6. Rewritten(b, disk') = disk /\ Fitting(b) /\ DOMAIN b = DOMAIN call[c].changes /\ b \in Changes
  BY <1>2, <1>3, <1>5, PutBack
<1>7. PICK k : k = [call[c] EXCEPT !.pc = "test", !.before = b]
  OBVIOUS
<1>8. Becomes(c, k)
  BY <1>1, <1>5, <1>7 DEF Apply, Becomes
<1>9. k \in AgentCall /\ k # None
  BY <1>1, <1>6, <1>7, SharedAssumption DEF AgentCall
<1>10. k.do = call[c].do /\ k.changes = call[c].changes /\ k.test = call[c].test
        /\ k.left = call[c].left /\ k.pc = "test" /\ k.ans = "none" /\ k.before = b
  BY <1>1, <1>7 DEF AgentCall
<1>11. HoldsIn(k) /\ ~AddsIn(k) /\ Like(k, call[c]) /\ CallFits(k)
  BY <1>1, <1>6, <1>9, <1>10 DEF HoldsIn, AddsIn, Like, CallFits
<1>12. disk' \in [SharedFiles -> Content] /\ Fitting(disk')
       /\ \A f \in SharedFiles : disk'[f] = IF f \in DOMAIN call[c].changes THEN call[c].changes[f] ELSE disk[f]
  BY <1>2, <1>3, RewrittenTyped
<1>13. \A d \in Calls : ~HoldsIn(call[d])
  BY <1>1, NoneHolds
<1>14. SharedBase'
  BY <1>1, <1>2, <1>4, <1>8, <1>9, <1>11, <1>12, <1>13, AgentBase
<1>15. call'[c] = k /\ \A d \in Calls : d # c => call'[d] = call[d]
  BY <1>1, <1>8, <1>9, BecomesPoints DEF SharedBase
<1>16. (~spent.overlap => FilesLoad)'
  <2>1. SUFFICES ASSUME ~spent.overlap, ~Installing, FilesLoad
                 PROVE  FilesLoad'
    BY <1>4 DEF SharedInv
  <2>2. \A d \in Calls : ~AddsIn(call[d])
    BY <2>1 DEF Installing, AddsIn
  <2>3. \A d \in Calls : ~AddsIn(call'[d])
    BY <2>2, <1>11, <1>15
  <2>4. Loads(disk)
    BY <2>1, <1>1 DEF FilesLoad
  <2>5. \A d \in Calls : HoldsIn(call'[d]) => Loads(Rewritten(call'[d].before, disk'))
    BY <2>4, <1>6, <1>10, <1>13, <1>15
  <2>6. lock' # None
    BY <1>1, SharedAssumption
  <2>7. QED
    BY <2>3, <2>5, <2>6 DEF FilesLoad, Installing, AddsIn, HoldsIn
<1>17. (~spent.late => PoolsFollow)'
  <2>1. SUFFICES ASSUME ~spent.late, ~(call[c].left /\ OnPoolsIn(call[c])), PoolsFollow
                 PROVE  PoolsFollow'
    BY <1>4 DEF SharedInv
  <2>2. ~ApplyingIn(call[c])
    BY <1>13 DEF ApplyingIn
  <2>3. CASE ~OnPoolsIn(call[c])
    <3>1. ~ApplyingIn(k)
      BY <2>3, <1>9, <1>10, <1>1 DEF ApplyingIn, OnPoolsIn
    <3>2. disk'["pools"] = disk["pools"]
      BY <2>3, <1>1, <1>12, SharedNames DEF OnPoolsIn
    <3>3. c = "http" => (CarriedBy(request["http"], k) <=> Carried)
      BY <1>1, <1>10 DEF Carried, CarriedBy
    <3>4. request' = request
      BY <1>2
    <3>5. k \in AgentCall \cup {None}
      BY <1>9
    <3>6. QED
      BY <1>1, <1>2, <1>4, <1>8, <2>1, <2>2, <3>1, <3>2, <3>3, <3>4, <3>5, PoolsKept
  <2>4. CASE OnPoolsIn(call[c])
    <3>1. c = "http"
      BY <1>1, <2>1, <2>4 DEF SharedBase, RequestsFit, JobFits, CallsFit, Calls, Threads
    <3>2. ~Carried
      BY <1>1, <3>1, NotCarried
    <3>3. ~Carried'
      BY <3>2, <3>1, <1>1, <1>2, <1>10, <1>15 DEF Carried, CarriedBy
    <3>4. disk'["pools"] = request'["http"].value
      BY <3>1, <2>4, <1>1, <1>2, <1>12, SharedNames DEF SharedBase, RequestsFit, HttpFits, OnPoolsIn
    <3>5. ~ApplyingIn(call'["old"])
      BY <1>13, <1>15, <3>1, SharedNames DEF ApplyingIn
    <3>6. ApplyingIn(call'["http"])
      BY <1>11, <1>9, <1>10, <1>15, <2>4, <3>1 DEF ApplyingIn, OnPoolsIn
    <3>7. ~spent.unsure => Recorded(disk["pools"])
      BY <2>1, <2>2, <3>1, <3>2 DEF PoolsFollow
    <3>8. call'["http"].before["pools"] = disk["pools"]
      BY <1>5, <1>10, <1>15, <2>4, <3>1 DEF OnPoolsIn
    <3>9. ~spent'.unsure => applied' = None \/ call'["http"].before["pools"] = applied'
      BY <3>7, <3>8, <1>2, <1>4 DEF Recorded
    <3>10. QED
      BY <3>3, <3>4, <3>5, <3>6, <3>9 DEF PoolsFollow, Recorded, ApplyingIn, HoldsIn, OnPoolsIn, Carried, CarriedBy
  <2>5. QED
    BY <2>3, <2>4
<1>18. QED
  BY <1>14, <1>16, <1>17 DEF SharedInv

(* The installation of the include touches the main configuration only.      *)
LEMMA MainTyped ==
  ASSUME SharedTyped, NEW m \in Main
  PROVE  /\ [disk EXCEPT !["main"] = m] \in [SharedFiles -> Content]
         /\ Fitting([disk EXCEPT !["main"] = m])
         /\ [disk EXCEPT !["main"] = m]["pools"] = disk["pools"]
<1>1. disk \in [SharedFiles -> Content] /\ Fitting(disk) /\ DOMAIN disk = SharedFiles
  BY DEF SharedTyped
<1>2. PICK e : e = [disk EXCEPT !["main"] = m]
  OBVIOUS
<1>3. DOMAIN e = SharedFiles /\ e["main"] = m /\ \A f \in SharedFiles : f # "main" => e[f] = disk[f]
  BY <1>1, <1>2, SharedNames
<1>4. m \in Content
  BY DEF Content
<1>5. e \in [SharedFiles -> Content]
  BY <1>1, <1>2, <1>4
<1>6. Fitting(e)
  BY <1>1, <1>3, ContentTyped DEF Fitting
<1>7. e["pools"] = disk["pools"]
  BY <1>3, SharedNames
<1>8. QED
  BY <1>2, <1>5, <1>6, <1>7

(* A step of an installation says nothing of the upstreams.                  *)
LEMMA IncludeAside ==
  ASSUME SharedBase, NEW c \in Calls, call[c] # None, call[c].do = "include", call[c].ans = "none",
         NEW k \in AgentCall \cup {None}, k # None => Like(k, call[c])
  PROVE  /\ ~ApplyingIn(call[c]) /\ ~ApplyingIn(k) /\ ~HoldsIn(call[c]) /\ ~HoldsIn(k)
         /\ c = "http" => (CarriedBy(request["http"], k) <=> Carried)
<1>1. ~HoldsIn(call[c]) /\ ~HoldsIn(k)
  BY DEF HoldsIn, Like
<1>2. c = "http" => (CarriedBy(request["http"], k) <=> Carried)
  <2>1. HAVE c = "http"
  <2>2. ~OnPoolsIn(call["http"]) /\ call["http"] # None
    BY <2>1 DEF SharedBase, RequestsFit, HttpFits
  <2>3. QED
    BY <2>2, NotCarried
<1>3. QED
  BY <1>1, <1>2 DEF ApplyingIn

LEMMA LookKeeps ==
  ASSUME SharedInv, NEW c \in Calls, Look(c)
  PROVE  SharedInv'
<1>1. /\ SharedBase /\ call[c] # None /\ call[c].ans = "none" /\ call[c].do = "include" /\ call[c].pc = "look"
      /\ call[c] \in AgentCall /\ CallFits(call[c]) /\ call \in [Calls -> AgentCall \cup {None}]
      /\ disk \in [SharedFiles -> Content] /\ Fitting(disk) /\ lock \in Calls \cup {None} /\ spent \in Spent
  BY DEF Look, Doing, SharedInv, SharedBase, SharedTyped, CallsFit
<1>2. UNCHANGED <<rows, request>> /\ request' = request /\ disk' = disk /\ lock' = lock /\ applied' = applied
  BY DEF Look, rows
<1>3. disk' \in [SharedFiles -> Content] /\ Fitting(disk') /\ lock' \in Calls \cup {None}
      /\ disk'["pools"] = disk["pools"] /\ \A d \in Calls : HoldsIn(call[d]) => lock' = d
  BY <1>1, <1>2 DEF SharedBase, CallsFit
<1>4. ~HoldsIn(call[c]) /\ ~AddsIn(call[c])
  BY <1>1 DEF HoldsIn, AddsIn
<1>5. CASE disk["main"].include /\ Loads(disk)
  <2>1. ReplyTo(c, "ok") /\ spent' = spent
    BY <1>5 DEF Look
  <2>2. PICK k \in AgentCall \cup {None} :
           /\ Becomes(c, k) /\ (k = None <=> call[c].left)
           /\ k # None => Like(k, call[c]) /\ CallFits(k) /\ k.ans = "ok"
           /\ ~HoldsIn(k) /\ ~AddsIn(k)
    BY <1>1, <2>1, Replied
  <2>3. SharedBase'
    BY <1>1, <1>2, <1>3, <2>1, <2>2, AgentBase
  <2>4. (~spent.overlap => FilesLoad)'
    BY <1>1, <1>2, <1>4, <2>1, <2>2, LoadKept DEF SharedInv
  <2>5. /\ ~ApplyingIn(call[c]) /\ ~ApplyingIn(k)
        /\ c = "http" => (CarriedBy(request["http"], k) <=> Carried)
    BY <1>1, <2>2, IncludeAside
  <2>6. (~spent.late => PoolsFollow)'
    BY <1>1, <1>2, <1>3, <2>1, <2>2, <2>5, PoolsKept DEF SharedInv
  <2>7. QED
    BY <2>3, <2>4, <2>6 DEF SharedInv
<1>6. CASE ~(disk["main"].include /\ Loads(disk))
  <2>1. PICK m : m = disk["main"]
    OBVIOUS
  <2>2. PICK k : k = [call[c] EXCEPT !.pc = "write", !.before = m]
    OBVIOUS
  <2>3. Becomes(c, k)
    BY <1>1, <1>6, <2>1, <2>2 DEF Look, Becomes
  <2>4. m \in Main
    BY <1>1, <2>1, DiskTyped DEF SharedBase
  <2>5. k \in AgentCall /\ k # None
    BY <1>1, <2>2, <2>4, SharedAssumption DEF AgentCall
  <2>6. k.do = call[c].do /\ k.changes = call[c].changes /\ k.test = call[c].test
        /\ k.left = call[c].left /\ k.pc = "write" /\ k.ans = "none" /\ k.before = m
    BY <1>1, <2>2 DEF AgentCall
  <2>7. Like(k, call[c]) /\ CallFits(k) /\ ~HoldsIn(k) /\ AddsIn(k)
    BY <1>1, <2>4, <2>5, <2>6 DEF Like, CallFits, HoldsIn, AddsIn
  <2>8. /\ spent' \in Spent /\ spent'.unsure = spent.unsure /\ spent'.late = spent.late
        /\ spent'.overlap <=> spent.overlap \/ lock # None \/ Installing
    <3>1. PICK o \in BOOLEAN : o <=> spent.overlap \/ lock # None \/ Installing
      OBVIOUS
    <3>2. spent' = [spent EXCEPT !.overlap = o]
      BY <1>1, <1>6, <3>1 DEF Look, Spent
    <3>3. QED
      BY <1>1, <3>1, <3>2 DEF Spent
  <2>9. SharedBase'
    BY <1>1, <1>2, <1>3, <2>3, <2>5, <2>7, <2>8, AgentBase
  <2>10. call'[c] = k /\ \A d \in Calls : d # c => call'[d] = call[d]
    BY <1>1, <2>3, <2>5, BecomesPoints DEF SharedBase
  <2>11. (~spent.overlap => FilesLoad)'
    <3>1. SUFFICES ASSUME lock = None, ~Installing, FilesLoad
                   PROVE  FilesLoad'
      BY <2>8 DEF SharedInv
    <3>2. \A d \in Calls : ~AddsIn(call[d]) /\ ~HoldsIn(call[d])
      BY <1>1, <3>1, NoneHolds DEF Installing, AddsIn
    <3>3. \A d \in Calls : ~HoldsIn(call'[d]) /\ (AddsIn(call'[d]) => d = c)
      BY <2>7, <2>10, <3>2
    <3>4. Loads(disk)
      BY <3>1 DEF FilesLoad
    <3>5. [disk EXCEPT !["main"] = m] = disk
      BY <1>1, <2>1
    <3>6. \A d \in Calls : AddsIn(call'[d]) => Loads([disk' EXCEPT !["main"] = call'[d].before])
      <4> SUFFICES ASSUME NEW d \in Calls, AddsIn(call'[d])
                   PROVE  Loads([disk' EXCEPT !["main"] = call'[d].before])
        OBVIOUS
      <4>1. call'[d].before = m
        BY <2>6, <2>10, <3>3
      <4>2. [disk' EXCEPT !["main"] = call'[d].before] = disk
        BY <1>2, <3>5, <4>1
      <4>3. QED
        BY <3>4, <4>2
    <3>7. lock' = None /\ Loads(disk')
      BY <1>2, <3>1, <3>4
    <3>8. \A d \in Calls : ~HoldsIn(call'[d])
      BY <3>3
    <3>9. \A d, e \in Calls : AddsIn(call'[d]) /\ AddsIn(call'[e]) => d = e
      BY <3>3
    <3>10. QED
      BY <3>6, <3>7, <3>8, <3>9 DEF FilesLoad, AddsIn, HoldsIn
  <2>12. /\ ~ApplyingIn(call[c]) /\ ~ApplyingIn(k)
         /\ c = "http" => (CarriedBy(request["http"], k) <=> Carried)
    BY <1>1, <2>5, <2>7, IncludeAside
  <2>13. k \in AgentCall \cup {None}
    BY <2>5
  <2>14. (~spent.late => PoolsFollow)'
    BY <1>1, <1>2, <1>3, <2>3, <2>13, <2>8, <2>12, PoolsKept DEF SharedInv
  <2>15. QED
    BY <2>9, <2>11, <2>14 DEF SharedInv
<1>7. QED
  BY <1>5, <1>6

LEMMA WriteIncludeKeeps ==
  ASSUME SharedInv, NEW c \in Calls, WriteInclude(c)
  PROVE  SharedInv'
<1>1. /\ SharedBase /\ call[c] # None /\ call[c].ans = "none" /\ call[c].do = "include" /\ call[c].pc = "write"
      /\ call[c] \in AgentCall /\ CallFits(call[c]) /\ call \in [Calls -> AgentCall \cup {None}]
      /\ disk \in [SharedFiles -> Content] /\ lock \in Calls \cup {None} /\ spent \in Spent /\ SharedTyped
  BY DEF WriteInclude, Doing, SharedInv, SharedBase, SharedTyped, CallsFit
<1>2. UNCHANGED <<rows, request>> /\ request' = request /\ lock' = lock /\ applied' = applied /\ spent' = spent
  BY DEF WriteInclude, rows
<1>3. AddsIn(call[c]) /\ call[c].before \in Main
  BY <1>1 DEF AddsIn, CallFits
<1>4. PICK m \in Main : m = [call[c].before EXCEPT !.include = TRUE]
  BY <1>3 DEF Main
<1>5. disk' = [disk EXCEPT !["main"] = m]
  BY <1>4 DEF WriteInclude
<1>6. disk' \in [SharedFiles -> Content] /\ Fitting(disk') /\ disk'["pools"] = disk["pools"]
  BY <1>1, <1>5, MainTyped
<1>7. PICK k : k = [call[c] EXCEPT !.pc = "test"]
  OBVIOUS
<1>8. Becomes(c, k)
  BY <1>1, <1>7 DEF WriteInclude, Becomes
<1>9. k \in AgentCall /\ k # None
  BY <1>1, <1>7, SharedAssumption DEF AgentCall
<1>10. k.do = call[c].do /\ k.changes = call[c].changes /\ k.test = call[c].test
        /\ k.left = call[c].left /\ k.pc = "test" /\ k.ans = "none" /\ k.before = call[c].before
  BY <1>1, <1>7 DEF AgentCall
<1>11. Like(k, call[c]) /\ CallFits(k) /\ ~HoldsIn(k) /\ AddsIn(k)
  BY <1>1, <1>3, <1>9, <1>10 DEF Like, CallFits, HoldsIn, AddsIn
<1>12. \A d \in Calls : HoldsIn(call[d]) => lock' = d
  BY <1>1, <1>2 DEF SharedBase, CallsFit
<1>13. SharedBase'
  <2>1. lock' \in Calls \cup {None} /\ spent' \in Spent
    BY <1>1, <1>2
  <2>2. QED
    BY <1>1, <1>2, <1>6, <1>8, <1>9, <1>11, <1>12, <2>1, AgentBase
<1>14. call'[c] = k /\ \A d \in Calls : d # c => call'[d] = call[d]
  BY <1>1, <1>8, <1>9, BecomesPoints DEF SharedBase
<1>15. (~spent.overlap => FilesLoad)'
  <2>1. SUFFICES ASSUME FilesLoad
                 PROVE  FilesLoad'
    BY <1>2 DEF SharedInv
  <2>2. Installing /\ lock = None
    BY <1>3, <2>1 DEF FilesLoad, Installing, AddsIn
  <2>3. \A d \in Calls : AddsIn(call[d]) => d = c
    BY <1>3, <2>1 DEF FilesLoad
  <2>4. \A d \in Calls : ~HoldsIn(call'[d]) /\ (AddsIn(call'[d]) => d = c)
    BY <1>1, <1>11, <1>14, <2>2, <2>3, NoneHolds
  <2>5. Loads([disk EXCEPT !["main"] = call[c].before])
    BY <2>1, <1>3 DEF FilesLoad
  <2>6. [disk' EXCEPT !["main"] = call[c].before] = [disk EXCEPT !["main"] = call[c].before]
    BY <1>1, <1>5
  <2>7. \A d \in Calls : AddsIn(call'[d]) => Loads([disk' EXCEPT !["main"] = call'[d].before])
    <3> SUFFICES ASSUME NEW d \in Calls, AddsIn(call'[d])
                 PROVE  Loads([disk' EXCEPT !["main"] = call'[d].before])
      OBVIOUS
    <3>1. call'[d].before = call[c].before
      BY <1>10, <1>14, <2>4
    <3>2. QED
      BY <2>5, <2>6, <3>1
  <2>8. Installing' /\ lock' = None
    BY <1>2, <1>11, <1>14, <2>2 DEF Installing, AddsIn
  <2>9. \A d \in Calls : ~HoldsIn(call'[d])
    BY <2>4
  <2>10. \A d, e \in Calls : AddsIn(call'[d]) /\ AddsIn(call'[e]) => d = e
    BY <2>4
  <2>11. QED
    BY <2>7, <2>8, <2>9, <2>10 DEF FilesLoad, AddsIn, HoldsIn
<1>16. /\ ~ApplyingIn(call[c]) /\ ~ApplyingIn(k)
       /\ c = "http" => (CarriedBy(request["http"], k) <=> Carried)
  BY <1>1, <1>9, <1>11, IncludeAside
<1>17. k \in AgentCall \cup {None}
  BY <1>9
<1>18. (~spent.late => PoolsFollow)'
  BY <1>1, <1>2, <1>6, <1>8, <1>16, <1>17, PoolsKept DEF SharedInv
<1>19. QED
  BY <1>13, <1>15, <1>18 DEF SharedInv

LEMMA TestIncludeKeeps ==
  ASSUME SharedInv, NEW c \in Calls, TestInclude(c)
  PROVE  SharedInv'
<1>1. /\ SharedBase /\ call[c] # None /\ call[c].ans = "none" /\ call[c].do = "include" /\ call[c].pc = "test"
      /\ CallFits(call[c]) /\ disk \in [SharedFiles -> Content] /\ Fitting(disk)
      /\ lock \in Calls \cup {None} /\ spent \in Spent /\ SharedTyped
  BY DEF TestInclude, Doing, SharedInv, SharedBase, SharedTyped, CallsFit
<1>2. UNCHANGED <<rows, request>> /\ request' = request /\ lock' = lock /\ applied' = applied /\ spent' = spent
  BY DEF TestInclude, rows
<1>3. AddsIn(call[c]) /\ call[c].before \in Main
  BY <1>1 DEF AddsIn, CallFits
<1>4. PICK m \in Main : m = call[c].before
  BY <1>3
<1>5. \/ Loads(disk) /\ disk' = disk
      \/ disk' = [disk EXCEPT !["main"] = m]
  BY <1>4 DEF TestInclude
<1>6. disk' \in [SharedFiles -> Content] /\ Fitting(disk') /\ disk'["pools"] = disk["pools"]
  BY <1>1, <1>5, MainTyped
<1>7. \E a \in {"ok", "failed"} : ReplyTo(c, a)
  BY DEF TestInclude
<1>8. PICK k \in AgentCall \cup {None} :
           /\ Becomes(c, k) /\ (k = None <=> call[c].left)
           /\ k # None => Like(k, call[c]) /\ CallFits(k)
           /\ ~HoldsIn(k) /\ ~AddsIn(k)
  BY <1>1, <1>7, Replied
<1>9. \A d \in Calls : HoldsIn(call[d]) => lock' = d
  BY <1>1, <1>2 DEF SharedBase, CallsFit
<1>10. SharedBase'
  <2>1. lock' \in Calls \cup {None} /\ spent' \in Spent
    BY <1>1, <1>2
  <2>2. QED
    BY <1>1, <1>2, <1>6, <1>8, <1>9, <2>1, AgentBase
<1>11. call'[c] = k /\ \A d \in Calls : d # c => call'[d] = call[d]
  BY <1>1, <1>8, BecomesPoints DEF SharedBase
<1>12. (~spent.overlap => FilesLoad)'
  <2>1. SUFFICES ASSUME FilesLoad
                 PROVE  FilesLoad'
    BY <1>2 DEF SharedInv
  <2>2. Installing /\ lock = None
    BY <1>3, <2>1 DEF FilesLoad, Installing, AddsIn
  <2>3. \A d \in Calls : AddsIn(call[d]) => d = c
    BY <1>3, <2>1 DEF FilesLoad
  <2>4. \A d \in Calls : ~HoldsIn(call'[d]) /\ ~AddsIn(call'[d])
    BY <1>1, <1>8, <1>11, <2>2, <2>3, NoneHolds
  <2>5. Loads([disk EXCEPT !["main"] = m])
    <3>1. Loads([disk EXCEPT !["main"] = call[c].before])
      BY <2>1, <1>3 DEF FilesLoad
    <3>2. QED
      BY <3>1, <1>4
  <2>6. Loads(disk')
    BY <2>5, <1>5
  <2>7. lock' = None
    BY <1>2, <2>2
  <2>8. QED
    BY <2>4, <2>6, <2>7 DEF FilesLoad, Installing, AddsIn, HoldsIn
<1>13. /\ ~ApplyingIn(call[c]) /\ ~ApplyingIn(k)
       /\ c = "http" => (CarriedBy(request["http"], k) <=> Carried)
  BY <1>1, <1>8, IncludeAside
<1>14. (~spent.late => PoolsFollow)'
  BY <1>1, <1>2, <1>6, <1>8, <1>13, PoolsKept DEF SharedInv
<1>15. QED
  BY <1>10, <1>12, <1>14 DEF SharedInv

(* A request that begins counts, and nothing else of what is counted moves.  *)
OneMore == spent' = [spent EXCEPT !.ops = @ + 1]

LEMMA OneMoreTyped ==
  ASSUME spent \in Spent, OneMore
  PROVE  spent' \in Spent /\ SameFlags
<1>1. PICK n \in Nat : n = spent.ops + 1
  BY DEF Spent
<1>2. spent' = [spent EXCEPT !.ops = n]
  BY <1>1 DEF OneMore
<1>3. QED
  BY <1>2 DEF Spent, SameFlags

LEMMA FailingTyped ==
  ASSUME spent \in Spent, Failing
  PROVE  spent' \in Spent /\ SameFlags
<1>1. PICK n \in Nat : n = spent.faults + 1
  BY DEF Spent
<1>2. spent' = [spent EXCEPT !.faults = n]
  BY <1>1 DEF Failing
<1>3. QED
  BY <1>2 DEF Spent, SameFlags

LEMMA NothingChanges == << >> \in Changes /\ Fitting(<< >>) /\ DOMAIN << >> = {}
<1>1. DOMAIN << >> = {}
  OBVIOUS
<1>2. << >> \in [{} -> Content]
  OBVIOUS
<1>3. << >> \in Changes
  BY <1>2, ChangesTyped
<1>4. QED
  BY <1>1, <1>3 DEF Fitting

LEMMA TransactionTyped ==
  ASSUME NEW w \in Changes, Fitting(w)
  PROVE  /\ Transaction(w) \in AgentCall /\ Fresh(Transaction(w)) /\ Transaction(w) # None
         /\ Transaction(w).changes = w /\ Transaction(w).do = "files"
<1>1. PICK k : k = Transaction(w)
  OBVIOUS
<1>2. << >> \in Changes
  BY NothingChanges
<1>3. k \in AgentCall
  BY <1>1, <1>2 DEF Transaction, AgentCall
<1>4. k.changes = w /\ k.do = "files" /\ k.pc = "lock" /\ k.test /\ ~k.left /\ k.ans = "none"
  BY <1>1 DEF Transaction
<1>5. Fresh(k)
  BY <1>4 DEF Fresh
<1>6. QED
  BY <1>1, <1>3, <1>4, <1>5, SharedAssumption

LEMMA StartKeeps ==
  ASSUME SharedInv, NEW t \in Threads, Idle(t), OneMore, NEW r \in PanelRequest,
         NEW k \in AgentCall \cup {None}, Now(t, r, k),
         disk' = disk, lock' = lock, applied' = applied,
         pool' \in Servers, uses' \in [Sites -> [up : Pools \cup {None}, cache : BOOLEAN]],
         setting' \in [default : Sites \cup {None}, hijack : BOOLEAN],
         k # None => Fresh(k), t = "http" => HttpFits(r, k), t = "job" => JobFits(r, k),
         r.op = "pools" => r.pc = "call"
  PROVE  SharedInv'
<1>1. request[t] = None /\ call[t] = None
  BY DEF Idle
<1>2. spent' \in Spent /\ SameFlags
  BY OneMoreTyped DEF SharedInv, SharedBase, SharedTyped
<1>3. ~HoldsIn(call[t]) /\ ~AddsIn(call[t])
  BY <1>1 DEF HoldsIn, AddsIn
<1>4. t = "http" => ~Carried /\ ~CarriedBy(r, k)
  BY <1>1 DEF Carried, CarriedBy, Fresh
<1>5. QED
  BY <1>2, <1>3, <1>4, PanelStep

(* What the rows and the calls are, for the steps of the panel.              *)
LEMMA RowsTyped ==
  ASSUME SharedInv
  PROVE  /\ pool \in Servers /\ uses \in [Sites -> [up : Pools \cup {None}, cache : BOOLEAN]]
         /\ setting \in [default : Sites \cup {None}, hijack : BOOLEAN] /\ spent \in Spent
         /\ request \in [Threads -> PanelRequest \cup {None}] /\ call \in [Calls -> AgentCall \cup {None}]
BY DEF SharedInv, SharedBase, SharedTyped

LEMMA UpstreamsKeep ==
  ASSUME SharedInv, (\E u \in Pools : SaveUpstream(u)) \/ SyncUpstreams
  PROVE  SharedInv'
<1>1. pool' \in Servers
  BY RowsTyped DEF SaveUpstream, SyncUpstreams, WritePool, Servers, rows
<1>2. PICK w : w = Only("pools", pool')
  OBVIOUS
<1>3. w \in Changes /\ Fitting(w) /\ DOMAIN w = {"pools"} /\ w["pools"] = pool'
  BY <1>1, <1>2, OneTyped, ContentTyped, SharedNames
<1>4. PICK r : r = [op |-> "pools", pc |-> "call", site |-> None, value |-> pool']
  OBVIOUS
<1>5. r \in PanelRequest /\ r.op = "pools" /\ r.pc = "call" /\ r.value = pool'
  BY <1>1, <1>4 DEF PanelRequest
<1>6. PICK k : k = Transaction(w)
  OBVIOUS
<1>7. k \in AgentCall /\ Fresh(k) /\ k # None /\ k.changes = w /\ k.do = "files"
  BY <1>3, <1>6, TransactionTyped
<1>8. Now("http", r, k) /\ Idle("http") /\ OneMore
  BY <1>1, <1>2, <1>4, <1>6 DEF SaveUpstream, SyncUpstreams, Requested, Send, Now, OneMore, rows
<1>9. disk' = disk /\ lock' = lock /\ applied' = applied /\ uses' = uses /\ setting' = setting
  BY DEF SaveUpstream, SyncUpstreams, rows
<1>10. HttpFits(r, k)
  BY <1>1, <1>3, <1>5, <1>7, SharedAssumption DEF HttpFits, OnPoolsIn
<1>11. QED
  BY <1>1, <1>5, <1>7, <1>8, <1>9, <1>10, RowsTyped, StartKeeps, SharedNames

LEMMA ChangeProxyKeeps ==
  ASSUME SharedInv, NEW s \in Sites, ChangeProxy(s)
  PROVE  SharedInv'
<1>1. uses' \in [Sites -> [up : Pools \cup {None}, cache : BOOLEAN]]
  <2>1. PICK u \in Targets, c \in BOOLEAN :
          uses' = [uses EXCEPT ![s] = [up |-> u, cache |-> c]]
    BY DEF ChangeProxy
  <2>2. QED
    BY <2>1, RowsTyped DEF Targets
<1>2. PICK r : r = [op |-> "proxy", pc |-> "read", site |-> s, value |-> None]
  OBVIOUS
<1>3. r \in PanelRequest /\ r.op = "proxy" /\ r.pc = "read" /\ r.site = s
  BY <1>2 DEF PanelRequest
<1>4. Now("http", r, None) /\ Idle("http") /\ OneMore
  BY <1>2, RowsTyped, SharedNames DEF ChangeProxy, Requested, Now, OneMore, Idle
<1>5. disk' = disk /\ lock' = lock /\ applied' = applied /\ pool' = pool /\ setting' = setting
  BY DEF ChangeProxy
<1>6. HttpFits(r, None)
  BY <1>3 DEF HttpFits, OnPoolsIn
<1>7. QED
  BY <1>1, <1>3, <1>4, <1>5, <1>6, RowsTyped, StartKeeps, SharedNames

LEMMA UpdateDefaultSiteKeeps ==
  ASSUME SharedInv, NEW new \in Sites \cup {None}, UpdateDefaultSite(new)
  PROVE  SharedInv'
<1>1. PICK pc \in {"done", "read"}, site \in Sites \cup {None} :
        Requested("http", "default", pc, site, new)
  BY RowsTyped DEF UpdateDefaultSite
<1>2. PICK r : r = [op |-> "default", pc |-> pc, site |-> site, value |-> new]
  OBVIOUS
<1>3. r \in PanelRequest /\ r.op = "default" /\ r.site = site /\ r.value = new
  BY <1>2 DEF PanelRequest
<1>4. Now("http", r, None) /\ Idle("http") /\ OneMore
  BY <1>1, <1>2, RowsTyped, SharedNames DEF UpdateDefaultSite, Requested, Now, OneMore, Idle
<1>5. disk' = disk /\ lock' = lock /\ applied' = applied /\ pool' = pool /\ uses' = uses /\ setting' = setting
  BY DEF UpdateDefaultSite, rows
<1>6. HttpFits(r, None)
  BY <1>3 DEF HttpFits, OnPoolsIn
<1>7. QED
  BY <1>3, <1>4, <1>5, <1>6, RowsTyped, StartKeeps, SharedNames

LEMMA UpdateHTTPSHijackKeeps ==
  ASSUME SharedInv, NEW on \in BOOLEAN, UpdateHTTPSHijack(on)
  PROVE  SharedInv'
<1>1. PICK w : w = Only("https", on)
  OBVIOUS
<1>2. w \in Changes /\ Fitting(w) /\ DOMAIN w = {"https"}
  BY <1>1, OneTyped, ContentTyped, SharedNames
<1>3. PICK r : r = [op |-> "hijack", pc |-> "call", site |-> None, value |-> on]
  OBVIOUS
<1>4. r \in PanelRequest /\ r # None /\ r.op = "hijack" /\ r.pc = "call" /\ r.value = on
  BY <1>3, SharedAssumption DEF PanelRequest
<1>5. PICK k : k = Transaction(w)
  OBVIOUS
<1>6. k \in AgentCall /\ Fresh(k) /\ k # None /\ k.changes = w
  BY <1>2, <1>5, TransactionTyped
<1>7. Now("http", r, k) /\ Idle("http") /\ OneMore
  BY <1>1, <1>3, <1>5 DEF UpdateHTTPSHijack, Requested, Send, Now, OneMore
<1>8. disk' = disk /\ lock' = lock /\ applied' = applied /\ pool' = pool /\ uses' = uses /\ setting' = setting
  BY DEF UpdateHTTPSHijack, rows
<1>9. HttpFits(r, k)
  BY <1>2, <1>4, <1>6 DEF HttpFits, OnPoolsIn
<1>10. QED
  BY <1>4, <1>6, <1>7, <1>8, <1>9, RowsTyped, StartKeeps, SharedNames

LEMMA SaveNginxConfKeeps ==
  ASSUME SharedInv, SaveNginxConf
  PROVE  SharedInv'
<1>1. PICK x \in 0..MaxVersion, i \in BOOLEAN : Send("http", Only("main", [text |-> x, include |-> i]))
  BY DEF SaveNginxConf
<1>2. PICK m \in Main : m = [text |-> x, include |-> i]
  <2>1. x \in Nat
    BY SharedAssumption
  <2>2. QED
    BY <2>1 DEF Main
<1>3. PICK w : w = Only("main", m)
  OBVIOUS
<1>4. w \in Changes /\ Fitting(w) /\ DOMAIN w = {"main"}
  BY <1>3, OneTyped, ContentTyped, SharedNames
<1>5. PICK r : r = [op |-> "main", pc |-> "call", site |-> None, value |-> None]
  OBVIOUS
<1>6. r \in PanelRequest /\ r # None /\ r.op = "main" /\ r.pc = "call"
  BY <1>5, SharedAssumption DEF PanelRequest
<1>7. PICK k : k = Transaction(w)
  OBVIOUS
<1>8. k \in AgentCall /\ Fresh(k) /\ k # None /\ k.changes = w
  BY <1>4, <1>7, TransactionTyped
<1>9. Now("http", r, k) /\ Idle("http") /\ OneMore
  BY <1>1, <1>2, <1>3, <1>5, <1>7 DEF SaveNginxConf, Requested, Send, Now, OneMore
<1>10. disk' = disk /\ lock' = lock /\ applied' = applied /\ pool' = pool /\ uses' = uses /\ setting' = setting
  BY DEF SaveNginxConf, rows
<1>11. HttpFits(r, k)
  BY <1>4, <1>6, <1>8 DEF HttpFits, OnPoolsIn
<1>12. QED
  BY <1>6, <1>8, <1>9, <1>10, <1>11, RowsTyped, StartKeeps, SharedNames

LEMMA SaveNginxParametersKeeps ==
  ASSUME SharedInv, SaveNginxParameters
  PROVE  SharedInv'
<1>1. PICK r : r = [op |-> "main", pc |-> "read", site |-> None, value |-> None]
  OBVIOUS
<1>2. r \in PanelRequest /\ r.op = "main"
  BY <1>1 DEF PanelRequest
<1>3. Now("http", r, None) /\ Idle("http") /\ OneMore
  BY <1>1, RowsTyped, SharedNames DEF SaveNginxParameters, Requested, Now, OneMore, Idle
<1>4. disk' = disk /\ lock' = lock /\ applied' = applied /\ pool' = pool /\ uses' = uses /\ setting' = setting
  BY DEF SaveNginxParameters, rows
<1>5. HttpFits(r, None)
  BY <1>2 DEF HttpFits, OnPoolsIn
<1>6. QED
  BY <1>2, <1>3, <1>4, <1>5, RowsTyped, StartKeeps, SharedNames

LEMMA EnsureIncludeKeeps ==
  ASSUME SharedInv, EnsureInclude
  PROVE  SharedInv'
<1>1. << >> \in Changes /\ Fitting(<< >>) /\ DOMAIN << >> = {}
  BY NothingChanges
<1>2. PICK k : k = [Transaction(<< >>) EXCEPT !.do = "include", !.pc = "look"]
  OBVIOUS
<1>3. k = [do |-> "include", pc |-> "look", changes |-> << >>, before |-> << >>,
           test |-> TRUE, left |-> FALSE, ans |-> "none"]
  BY <1>2 DEF Transaction
<1>4. k \in AgentCall
  BY <1>1, <1>3 DEF AgentCall
<1>5. Fresh(k) /\ k # None /\ k.changes = << >>
  BY <1>1, <1>3, <1>4, SharedAssumption DEF Fresh
<1>6. PICK r : r = [op |-> "include", pc |-> "call", site |-> None, value |-> None]
  OBVIOUS
<1>7. r \in PanelRequest /\ r # None /\ r.op = "include" /\ r.pc = "call"
  BY <1>6, SharedAssumption DEF PanelRequest
<1>8. Now("http", r, k) /\ Idle("http") /\ OneMore
  BY <1>2, <1>6 DEF EnsureInclude, Requested, Now, OneMore
<1>9. disk' = disk /\ lock' = lock /\ applied' = applied /\ pool' = pool /\ uses' = uses /\ setting' = setting
  BY DEF EnsureInclude, rows
<1>10. HttpFits(r, k)
  BY <1>1, <1>5, <1>7 DEF HttpFits, OnPoolsIn
<1>11. QED
  BY <1>4, <1>5, <1>7, <1>8, <1>9, <1>10, RowsTyped, StartKeeps, SharedNames

LEMMA RenewKeeps ==
  ASSUME SharedInv, NEW s \in Sites, Renew(s)
  PROVE  SharedInv'
<1>1. PICK r : r = [op |-> "renew", pc |-> "read", site |-> s, value |-> None]
  OBVIOUS
<1>2. r \in PanelRequest /\ r.op = "renew" /\ r.site = s
  BY <1>1 DEF PanelRequest
<1>3. Now("job", r, None) /\ Idle("job") /\ OneMore
  BY <1>1, RowsTyped, SharedNames DEF Renew, Requested, Now, OneMore, Idle
<1>4. disk' = disk /\ lock' = lock /\ applied' = applied /\ pool' = pool /\ uses' = uses /\ setting' = setting
  BY DEF Renew, rows
<1>5. JobFits(r, None)
  BY <1>2 DEF JobFits, OnPoolsIn
<1>6. QED
  BY <1>2, <1>3, <1>4, <1>5, RowsTyped, StartKeeps, SharedNames

(* What is read is sent.                                                     *)
LEMMA ReadKeeps ==
  ASSUME SharedInv, NEW t \in Threads, request[t] # None, request[t].pc = "read",
         NEW w \in Changes, Fitting(w), "pools" \notin DOMAIN w, Send(t, w), Sent(t),
         spent' \in Spent, SameFlags, UNCHANGED <<rows, disk, lock>>
  PROVE  SharedInv'
<1>1. /\ request \in [Threads -> PanelRequest \cup {None}] /\ request[t] \in PanelRequest
      /\ call \in [Calls -> AgentCall \cup {None}]
  BY DEF SharedInv, SharedBase, SharedTyped
<1>2. HttpFits(request["http"], call["http"]) /\ JobFits(request["job"], call["job"])
  BY DEF SharedInv, SharedBase, RequestsFit
<1>3. PICK r : r = [request[t] EXCEPT !.pc = "call"]
  OBVIOUS
<1>4. r \in PanelRequest /\ r.pc = "call" /\ r.op = request[t].op /\ r.site = request[t].site
      /\ r.value = request[t].value /\ r # None
  BY <1>1, <1>3, SharedAssumption DEF PanelRequest
<1>5. PICK k : k = Transaction(w)
  OBVIOUS
<1>6. k \in AgentCall /\ Fresh(k) /\ k # None /\ k.changes = w
  BY <1>5, TransactionTyped
<1>7. Now(t, r, k)
  BY <1>3, <1>5 DEF Send, Sent, Now
<1>8. t = "http" \/ t = "job"
  BY DEF Threads
<1>9. call[t] = None
  BY <1>2, <1>8 DEF HttpFits, JobFits
<1>10. ~HoldsIn(call[t]) /\ ~AddsIn(call[t])
  BY <1>9 DEF HoldsIn, AddsIn
<1>11. t = "http" => r.op # "pools"
  BY <1>2, <1>4 DEF HttpFits
<1>12. t = "http" => HttpFits(r, k)
  BY <1>2, <1>4, <1>6, <1>11 DEF HttpFits, OnPoolsIn
<1>13. t = "job" => JobFits(r, k)
  BY <1>2, <1>4, <1>6 DEF JobFits, OnPoolsIn
<1>14. t = "http" => ~Carried /\ ~CarriedBy(r, k)
  BY <1>4, <1>11 DEF Carried, CarriedBy
<1>15. disk' = disk /\ lock' = lock /\ applied' = applied /\ pool' = pool /\ uses' = uses /\ setting' = setting
  BY DEF rows
<1>16. QED
  BY <1>4, <1>6, <1>7, <1>10, <1>12, <1>13, <1>14, <1>15, RowsTyped, PanelStep

LEMMA ReadForProxyKeeps ==
  ASSUME SharedInv, ReadForProxy
  PROVE  SharedInv'
<1>1. request["http"] # None /\ request["http"].op = "proxy" /\ request["http"].pc = "read"
      /\ request["http"].site \in Sites /\ SharedTyped
  BY DEF ReadForProxy, Reading, SharedInv, SharedBase, RequestsFit, HttpFits
<1>2. PICK s \in Sites : s = request["http"].site
  BY <1>1
<1>3. disk[s] \in SiteFile /\ uses[s] \in [up : Pools \cup {None}, cache : BOOLEAN]
  BY <1>1, DiskTyped DEF SharedTyped
<1>4. PICK file : file = [disk[s] EXCEPT !.up = uses[s].up, !.cache = uses[s].cache]
  OBVIOUS
<1>5. file \in SiteFile
  BY <1>3, <1>4 DEF SiteFile
<1>6. PICK b \in BOOLEAN : b = uses[s].cache
  BY <1>3
<1>7. PICK w : w = [f \in {s, "cache"} |-> IF f = s THEN file ELSE b]
  OBVIOUS
<1>8. DOMAIN w = {s, "cache"} /\ w[s] = file /\ w["cache"] = b /\ s # "cache" /\ s # "pools"
  BY <1>7, SharedNames
<1>9. Fitting(w)
  BY <1>5, <1>8, ContentTyped, SharedNames DEF Fitting
<1>10. w \in Changes
  <2>1. {s, "cache"} \in SUBSET SharedFiles
    BY SharedNames
  <2>2. w \in [{s, "cache"} -> Content]
    BY <1>5, <1>7 DEF Content
  <2>3. QED
    BY <2>1, <2>2, ChangesTyped
<1>11. Send("http", w) /\ Sent("http") /\ UNCHANGED <<rows, disk, lock>> /\ spent' = spent
  BY <1>2, <1>4, <1>6, <1>7 DEF ReadForProxy
<1>12. spent' \in Spent /\ SameFlags
  BY <1>11, RowsTyped DEF SameFlags
<1>13. QED
  BY <1>1, <1>8, <1>9, <1>10, <1>11, <1>12, ReadKeeps, SharedNames

LEMMA ReadForDefaultKeeps ==
  ASSUME SharedInv, ReadForDefault
  PROVE  SharedInv'
<1>1. request["http"] # None /\ request["http"].op = "default" /\ request["http"].pc = "read"
      /\ request["http"].site \in Sites \cup {None} /\ request["http"].value \in Sites \cup {None} /\ SharedTyped
  BY DEF ReadForDefault, Reading, SharedInv, SharedBase, RequestsFit, HttpFits
<1>2. PICK old \in Sites \cup {None} : old = request["http"].site
  BY <1>1
<1>3. PICK new \in Sites \cup {None} : new = request["http"].value
  BY <1>1
<1>4. \A s \in Sites : [disk[s] EXCEPT !.default = (s = new)] \in SiteFile
  <2> SUFFICES ASSUME NEW s \in Sites
               PROVE  [disk[s] EXCEPT !.default = (s = new)] \in SiteFile
    OBVIOUS
  <2>1. PICK b \in BOOLEAN : b = (s = new)
    OBVIOUS
  <2>2. disk[s] \in SiteFile
    BY <1>1, DiskTyped
  <2>3. [disk[s] EXCEPT !.default = b] \in SiteFile
    BY <2>2 DEF SiteFile
  <2>4. QED
    BY <2>1, <2>3
<1>5. UNCHANGED <<rows, disk, lock>>
  BY DEF ReadForDefault
<1>6. \/ /\ Send("http", [s \in {old, new} \ {None} |-> [disk[s] EXCEPT !.default = (s = new)]])
         /\ Sent("http") /\ spent' = spent
      \/ /\ None \notin {old, new} /\ Sent("http")
         /\ Send("http", Only(new, [disk[new] EXCEPT !.default = (new = new)])) /\ Failing
      \/ request' = [request EXCEPT !["http"].pc = "done"] /\ call' = call /\ Failing
  BY <1>2, <1>3 DEF ReadForDefault
<1>7. spent' \in Spent /\ SameFlags
  BY <1>6, RowsTyped, FailingTyped DEF SameFlags
<1>8. CASE Sent("http") /\ Send("http", [s \in {old, new} \ {None} |-> [disk[s] EXCEPT !.default = (s = new)]])
  <2>1. PICK some \in SUBSET Sites : some = {old, new} \ {None}
    OBVIOUS
  <2>2. PICK w : w = [s \in some |-> [disk[s] EXCEPT !.default = (s = new)]]
    OBVIOUS
  <2>3. DOMAIN w = some /\ \A s \in some : w[s] \in SiteFile
    BY <1>4, <2>2
  <2>4. Fitting(w)
    BY <2>3, ContentTyped, SharedNames DEF Fitting
  <2>5. w \in [some -> Content]
    BY <2>2, <2>3 DEF Content
  <2>6. some \in SUBSET SharedFiles /\ "pools" \notin some
    BY SharedNames
  <2>7. w \in Changes
    BY <2>5, <2>6, ChangesTyped
  <2>8. Send("http", w)
    BY <1>8, <2>1, <2>2
  <2>9. QED
    BY <1>1, <1>5, <1>7, <1>8, <2>3, <2>4, <2>6, <2>7, <2>8, ReadKeeps, SharedNames
<1>9. CASE None \notin {old, new} /\ Sent("http") /\ Send("http", Only(new, [disk[new] EXCEPT !.default = (new = new)]))
  <2>1. new \in Sites
    BY <1>9
  <2>2. PICK file : file = [disk[new] EXCEPT !.default = (new = new)]
    OBVIOUS
  <2>3. file \in SiteFile
    BY <1>4, <2>1, <2>2
  <2>4. PICK w : w = Only(new, file)
    OBVIOUS
  <2>5. w \in Changes /\ Fitting(w) /\ DOMAIN w = {new} /\ new # "pools"
    BY <2>1, <2>3, <2>4, OneTyped, ContentTyped, SharedNames
  <2>6. Send("http", w)
    BY <1>9, <2>2, <2>4
  <2>7. QED
    BY <1>1, <1>5, <1>7, <1>9, <2>5, <2>6, ReadKeeps, SharedNames
<1>10. CASE request' = [request EXCEPT !["http"].pc = "done"] /\ call' = call
  <2>1. PICK r : r = [request["http"] EXCEPT !.pc = "done"]
    OBVIOUS
  <2>2. request["http"] \in PanelRequest /\ "http" \in Threads /\ call["http"] = None
        /\ call \in [Calls -> AgentCall \cup {None}] /\ HttpFits(request["http"], call["http"])
    BY <1>1 DEF SharedInv, SharedBase, SharedTyped, RequestsFit, HttpFits, Threads
  <2>3. r \in PanelRequest /\ r # None /\ r.op = "default" /\ r.pc = "done"
        /\ r.site = request["http"].site /\ r.value = request["http"].value
    BY <1>1, <2>1, <2>2, SharedAssumption DEF PanelRequest
  <2>4. Now("http", r, None)
    BY <1>10, <2>1, <2>2 DEF Now
  <2>5. HttpFits(r, None) /\ ~HoldsIn(call["http"]) /\ ~AddsIn(call["http"])
    BY <1>1, <2>2, <2>3 DEF HttpFits, OnPoolsIn, HoldsIn, AddsIn
  <2>6. ~CarriedBy(r, None) /\ ~Carried
    BY <1>1, <2>2, <2>3 DEF Carried, CarriedBy
  <2>7. disk' = disk /\ lock' = lock /\ applied' = applied /\ pool' = pool /\ uses' = uses
        /\ setting' = setting
    BY <1>5 DEF rows
  <2>8. QED
    BY <1>7, <2>2, <2>3, <2>4, <2>5, <2>6, <2>7, RowsTyped, PanelStep
<1>11. QED
  BY <1>6, <1>8, <1>9, <1>10

LEMMA ReadForParametersKeeps ==
  ASSUME SharedInv, ReadForParameters
  PROVE  SharedInv'
<1>1. request["http"] # None /\ request["http"].pc = "read" /\ SharedTyped
  BY DEF ReadForParameters, Reading, SharedInv, SharedBase
<1>2. PICK x \in 0..MaxVersion : Send("http", Only("main", [disk["main"] EXCEPT !.text = x]))
  BY DEF ReadForParameters
<1>3. x \in Nat
  BY SharedAssumption
<1>4. disk["main"] \in Main
  BY <1>1, DiskTyped
<1>5. PICK m \in Main : m = [disk["main"] EXCEPT !.text = x]
  BY <1>3, <1>4 DEF Main
<1>6. PICK w : w = Only("main", m)
  OBVIOUS
<1>7. w \in Changes /\ Fitting(w) /\ DOMAIN w = {"main"}
  BY <1>6, OneTyped, ContentTyped, SharedNames
<1>8. Send("http", w)
  BY <1>2, <1>5, <1>6
<1>9. Sent("http") /\ UNCHANGED <<rows, disk, lock>> /\ spent' = spent
  BY DEF ReadForParameters
<1>10. spent' \in Spent /\ SameFlags
  BY <1>9, RowsTyped DEF SameFlags
<1>11. QED
  BY <1>1, <1>7, <1>8, <1>9, <1>10, ReadKeeps, SharedNames

LEMMA ReadForRenewalKeeps ==
  ASSUME SharedInv, ReadForRenewal
  PROVE  SharedInv'
<1>1. request["job"] # None /\ request["job"].pc = "read" /\ request["job"].site \in Sites /\ SharedTyped
  BY DEF ReadForRenewal, Reading, SharedInv, SharedBase, RequestsFit, JobFits
<1>2. PICK s \in Sites : s = request["job"].site
  BY <1>1
<1>3. PICK file \in SiteFile : file = disk[s]
  BY <1>1, DiskTyped
<1>4. PICK w : w = Only(s, file)
  OBVIOUS
<1>5. w \in Changes /\ Fitting(w) /\ DOMAIN w = {s} /\ s # "pools"
  BY <1>4, OneTyped, ContentTyped, SharedNames
<1>6. Send("job", w) /\ Sent("job") /\ UNCHANGED <<rows, disk, lock>> /\ spent' = spent
  BY <1>2, <1>3, <1>4 DEF ReadForRenewal
<1>7. spent' \in Spent /\ SameFlags
  BY <1>6, RowsTyped DEF SameFlags
<1>8. QED
  BY <1>1, <1>5, <1>6, <1>7, ReadKeeps, SharedNames

(* The answers, and the ends of the requests.                                *)
LEMMA CallReturnsKeeps ==
  ASSUME SharedInv, NEW t \in Threads, CallReturns(t)
  PROVE  SharedInv'
<1>1. /\ request \in [Threads -> PanelRequest \cup {None}] /\ call \in [Calls -> AgentCall \cup {None}]
      /\ HttpFits(request["http"], call["http"]) /\ JobFits(request["job"], call["job"])
  BY DEF SharedInv, SharedBase, SharedTyped, RequestsFit
<1>2. call[t] # None /\ call[t].ans # "none" /\ UNCHANGED <<rows, disk, lock, spent>>
  BY DEF CallReturns
<1>3. t = "http" \/ t = "job"
  BY DEF Threads
<1>4. request[t] # None /\ request[t].pc = "call" /\ request[t] \in PanelRequest
  BY <1>1, <1>2, <1>3 DEF HttpFits, JobFits
<1>5. PICK r : r = IF call[t].ans = "ok" THEN [request[t] EXCEPT !.pc = "done"] ELSE None
  OBVIOUS
<1>6. r \in PanelRequest \cup {None}
  BY <1>4, <1>5 DEF PanelRequest
<1>7. Now(t, r, None)
  BY <1>5 DEF CallReturns, Ends, Now
<1>8. call[t].ans = "ok" => r # None /\ r.pc = "done" /\ r.op = request[t].op /\ r.site = request[t].site
                             /\ r.value = request[t].value
  BY <1>4, <1>5, SharedAssumption DEF PanelRequest
<1>9. call[t].ans # "ok" => r = None
  BY <1>5
<1>10. ~HoldsIn(call[t]) /\ ~AddsIn(call[t])
  BY <1>2 DEF HoldsIn, AddsIn
<1>11. t = "http" => HttpFits(r, None)
  BY <1>1, <1>4, <1>8, <1>9 DEF HttpFits, OnPoolsIn
<1>12. t = "job" => JobFits(r, None)
  BY <1>1, <1>4, <1>8, <1>9 DEF JobFits, OnPoolsIn
<1>13. t = "http" => (CarriedBy(r, None) <=> Carried) /\ (Carried => r.value = request["http"].value)
  BY <1>2, <1>4, <1>8, <1>9 DEF Carried, CarriedBy
<1>14. disk' = disk /\ lock' = lock /\ applied' = applied /\ pool' = pool /\ uses' = uses
       /\ setting' = setting /\ spent' = spent
  BY <1>2 DEF rows
<1>15. spent' \in Spent /\ SameFlags
  BY <1>14, RowsTyped DEF SameFlags
<1>16. QED
  BY <1>6, <1>7, <1>10, <1>11, <1>12, <1>13, <1>14, <1>15, RowsTyped, PanelStep

(* A request that ends without a call, or whose call never began.            *)
LEMMA EndKeeps ==
  ASSUME SharedInv, NEW t \in Threads, Now(t, None, None), ~HoldsIn(call[t]), ~AddsIn(call[t]),
         t = "http" => ~Carried,
         disk' = disk, lock' = lock, applied' = applied, pool' = pool, uses' = uses,
         setting' \in [default : Sites \cup {None}, hijack : BOOLEAN],
         spent' \in Spent, SameFlags
  PROVE  SharedInv'
<1>1. HttpFits(None, None) /\ JobFits(None, None) /\ ~CarriedBy(None, None)
  BY DEF HttpFits, JobFits, OnPoolsIn, CarriedBy
<1>2. QED
  BY <1>1, RowsTyped, PanelStep

LEMMA UnreachedKeeps ==
  ASSUME SharedInv, NEW t \in Threads, Unreached(t)
  PROVE  SharedInv'
<1>1. Now(t, None, None)
  BY DEF Unreached, Ends, Now
<1>2. call[t] # None /\ call[t].ans = "none" /\ call[t] \in AgentCall /\ CallFits(call[t])
      /\ call[t].pc \in {"lock", "look"}
  BY SharedNames DEF Unreached, SharedInv, SharedBase, SharedTyped, CallsFit
<1>3. ~HoldsIn(call[t]) /\ ~AddsIn(call[t])
  BY <1>2 DEF HoldsIn, AddsIn, CallFits
<1>4. t = "http" => ~Carried
  <2>1. HAVE t = "http"
  <2>2. request["http"].pc = "call"
    BY <1>2, <2>1 DEF SharedInv, SharedBase, RequestsFit, HttpFits
  <2>3. QED
    BY <1>2, <2>1, <2>2 DEF Carried, CarriedBy
<1>5. spent' \in Spent /\ SameFlags
  BY RowsTyped, FailingTyped DEF Unreached
<1>6. disk' = disk /\ lock' = lock /\ applied' = applied /\ pool' = pool /\ uses' = uses /\ setting' = setting
  BY DEF Unreached, rows
<1>7. QED
  BY <1>1, <1>3, <1>4, <1>5, <1>6, RowsTyped, EndKeeps

(* A request that is done has no call.                                       *)
LEMMA DoneAlone ==
  ASSUME SharedInv, NEW t \in Threads, NEW op, Done(t, op), call' = call, Ends(t)
  PROVE  Now(t, None, None) /\ call[t] = None /\ ~HoldsIn(call[t]) /\ ~AddsIn(call[t])
<1>1. t = "http" \/ t = "job"
  BY DEF Threads
<1>2. call[t] = None
  BY <1>1 DEF Done, SharedInv, SharedBase, RequestsFit, HttpFits, JobFits
<1>3. call' = [call EXCEPT ![t] = None]
  BY <1>2, RowsTyped, SharedNames
<1>4. QED
  BY <1>2, <1>3 DEF Now, Ends, HoldsIn, AddsIn

LEMMA FinishKeeps ==
  ASSUME SharedInv, NEW t \in Threads, Finish(t)
  PROVE  SharedInv'
<1>1. PICK op \in {"proxy", "main", "include", "renew"} : Done(t, op)
  BY DEF Finish
<1>2. Now(t, None, None) /\ ~HoldsIn(call[t]) /\ ~AddsIn(call[t])
  BY <1>1, DoneAlone DEF Finish
<1>3. t = "http" => ~Carried
  BY <1>1 DEF Done, Carried, CarriedBy
<1>4. disk' = disk /\ lock' = lock /\ applied' = applied /\ pool' = pool /\ uses' = uses
      /\ setting' = setting /\ spent' = spent
  BY DEF Finish, rows
<1>5. spent' \in Spent /\ SameFlags
  BY <1>4, RowsTyped DEF SameFlags
<1>6. QED
  BY <1>2, <1>3, <1>4, <1>5, RowsTyped, EndKeeps

LEMMA SettingKeeps ==
  ASSUME SharedInv, SetSetting \/ SetFails
  PROVE  SharedInv'
<1>1. PICK op \in {"default", "hijack"} : Done("http", op)
  BY DEF SetSetting, SetFails
<1>2. call' = call /\ Ends("http") /\ disk' = disk /\ lock' = lock /\ applied' = applied
      /\ pool' = pool /\ uses' = uses
  BY DEF SetSetting, SetFails, rows
<1>3. Now("http", None, None) /\ ~HoldsIn(call["http"]) /\ ~AddsIn(call["http"])
  BY <1>1, <1>2, DoneAlone, SharedNames
<1>4. ~Carried
  BY <1>1 DEF Done, Carried, CarriedBy
<1>5. setting' \in [default : Sites \cup {None}, hijack : BOOLEAN]
  <2>1. CASE Done("http", "default") /\ setting' = [setting EXCEPT !.default = request["http"].value]
    <3>1. PICK v \in Sites \cup {None} : v = request["http"].value
      BY <2>1 DEF Done, SharedInv, SharedBase, RequestsFit, HttpFits
    <3>2. setting' = [setting EXCEPT !.default = v]
      BY <2>1, <3>1
    <3>3. QED
      BY <3>2, RowsTyped
  <2>2. CASE Done("http", "hijack") /\ setting' = [setting EXCEPT !.hijack = request["http"].value]
    <3>1. PICK v \in BOOLEAN : v = request["http"].value
      BY <2>2 DEF Done, SharedInv, SharedBase, RequestsFit, HttpFits
    <3>2. setting' = [setting EXCEPT !.hijack = v]
      BY <2>2, <3>1
    <3>3. QED
      BY <3>2, RowsTyped
  <2>3. CASE setting' = setting
    BY <2>3, RowsTyped
  <2>4. QED
    BY <2>1, <2>2, <2>3 DEF SetSetting, SetFails, rows
<1>6. spent' \in Spent /\ SameFlags
  <2>1. spent' = spent \/ Failing
    BY DEF SetSetting, SetFails
  <2>2. QED
    BY <2>1, RowsTyped, FailingTyped DEF SameFlags
<1>7. QED
  BY <1>2, <1>3, <1>4, <1>5, <1>6, EndKeeps, SharedNames

(* The call that is given up goes on, under its new name.                    *)
LEMMA AbandonKeeps ==
  ASSUME SharedInv, Abandon
  PROVE  SharedInv'
<1>1. /\ SharedBase /\ SharedTyped /\ call \in [Calls -> AgentCall \cup {None}] /\ spent \in Spent
      /\ request \in [Threads -> PanelRequest \cup {None}] /\ lock \in Calls \cup {None}
  BY DEF SharedInv, SharedBase, SharedTyped
<1>2. /\ call["http"] # None /\ call["http"].ans = "none" /\ call["old"] = None
      /\ call["http"] \in AgentCall /\ CallFits(call["http"])
      /\ UNCHANGED <<rows, disk>> /\ disk' = disk /\ applied' = applied
  BY <1>1, SharedNames DEF Abandon, SharedBase, CallsFit, rows
<1>3. request["http"] # None /\ request["http"].pc = "call"
  BY <1>1, <1>2 DEF SharedBase, RequestsFit, HttpFits
<1>4. PICK k : k = [call["http"] EXCEPT !.left = TRUE]
  OBVIOUS
<1>5. /\ k \in AgentCall /\ k # None /\ k.left /\ k.do = call["http"].do /\ k.changes = call["http"].changes
      /\ k.test = call["http"].test /\ k.pc = call["http"].pc /\ k.ans = "none" /\ k.before = call["http"].before
  BY <1>2, <1>4, SharedAssumption DEF AgentCall
<1>6. CallFits(k) /\ (HoldsIn(k) <=> HoldsIn(call["http"])) /\ (AddsIn(k) <=> AddsIn(call["http"]))
      /\ (OnPoolsIn(k) <=> OnPoolsIn(call["http"]))
  BY <1>2, <1>5 DEF CallFits, HoldsIn, AddsIn, OnPoolsIn
<1>7. /\ call' \in [Calls -> AgentCall \cup {None}] /\ call'["http"] = None /\ call'["old"] = k
      /\ call'["job"] = call["job"] /\ \A c \in Calls : c = "http" \/ c = "old" \/ c = "job"
  <2>1. call' = [call EXCEPT !["http"] = None, !["old"] = k]
    BY <1>4 DEF Abandon
  <2>2. QED
    BY <1>1, <1>5, <2>1, SharedNames DEF Calls, Threads
<1>8. /\ request' \in [Threads -> PanelRequest \cup {None}] /\ request'["http"] = None
      /\ request'["job"] = request["job"]
  BY <1>1, SharedNames DEF Abandon, Ends
<1>9. /\ spent' \in Spent /\ spent'.late = spent.late /\ spent'.overlap = spent.overlap
      /\ spent'.unsure <=> spent.unsure \/ OnPoolsIn(call["http"])
  <2>1. PICK n \in Nat : n = spent.faults + 1
    BY <1>1 DEF Spent
  <2>2. PICK b \in BOOLEAN : b <=> spent.unsure \/ Touches("http", "pools")
    OBVIOUS
  <2>3. spent' = [spent EXCEPT !.faults = n, !.unsure = b]
    BY <1>1, <2>1, <2>2 DEF Abandon, Spent
  <2>4. Touches("http", "pools") <=> OnPoolsIn(call["http"])
    BY <1>2 DEF Touches, OnPoolsIn
  <2>5. QED
    BY <1>1, <2>2, <2>3, <2>4 DEF Spent
<1>10. lock' = (IF lock = "http" THEN "old" ELSE lock) /\ "old" # None /\ "http" # None
  BY SharedNames, SharedAssumption DEF Abandon
<1>11. SharedTyped'
  BY <1>1, <1>2, <1>7, <1>8, <1>9, <1>10, SharedNames DEF SharedTyped, rows, Fitting
<1>12. CallsFit'
  <2> SUFFICES ASSUME NEW c \in Calls
               PROVE  /\ call'[c] # None => CallFits(call'[c]) /\ (call'[c].left <=> c = "old")
                      /\ HoldsIn(call'[c]) => lock' = c
    BY DEF CallsFit, CallFits, HoldsIn, AddsIn
  <2>1. CASE c = "http"
    BY <2>1, <1>7 DEF HoldsIn
  <2>2. CASE c = "old"
    <3>1. HoldsIn(k) => lock = "http"
      BY <1>1, <1>6, SharedNames DEF SharedBase, CallsFit
    <3>2. QED
      BY <2>2, <3>1, <1>5, <1>6, <1>7, <1>10
  <2>3. CASE c = "job"
    <3>1. call["job"] # None => CallFits(call["job"]) /\ ~call["job"].left
      BY <1>1, SharedNames DEF SharedBase, CallsFit
    <3>2. HoldsIn(call["job"]) => lock = "job"
      BY <1>1, SharedNames DEF SharedBase, CallsFit
    <3>3. QED
      BY <2>3, <3>1, <3>2, <1>7, <1>10
  <2>4. QED
    BY <2>1, <2>2, <2>3, <1>7
<1>13. RequestsFit'
  <2>1. HttpFits(request'["http"], call'["http"])
    BY <1>7, <1>8 DEF HttpFits, OnPoolsIn
  <2>2. JobFits(request'["job"], call'["job"])
    BY <1>1, <1>7, <1>8 DEF SharedBase, RequestsFit
  <2>3. QED
    BY <2>1, <2>2 DEF RequestsFit, HttpFits, JobFits, OnPoolsIn
<1>14. (~spent.overlap => FilesLoad)'
  <2>1. SUFFICES ASSUME FilesLoad
                 PROVE  FilesLoad'
    BY <1>9 DEF SharedInv
  <2>2. Installing <=> AddsIn(call["http"]) \/ AddsIn(call["job"])
    BY <1>2, <1>7, SharedNames DEF Installing, AddsIn
  <2>3. Installing' <=> AddsIn(k) \/ AddsIn(call["job"])
    BY <1>7, SharedNames DEF Installing, AddsIn
  <2>4. (lock' = None <=> lock = None) /\ (Installing' <=> Installing)
    BY <1>6, <1>10, <2>2, <2>3
  <2>5. \A c \in Calls : HoldsIn(call'[c]) => Loads(Rewritten(call'[c].before, disk'))
    <3> SUFFICES ASSUME NEW c \in Calls, HoldsIn(call'[c])
                 PROVE  Loads(Rewritten(call'[c].before, disk'))
      OBVIOUS
    <3>1. PICK d \in Calls : HoldsIn(call[d]) /\ call'[c].before = call[d].before
      <4>1. CASE c = "http"
        BY <4>1, <1>7 DEF HoldsIn
      <4>2. CASE c = "old"
        BY <4>2, <1>5, <1>6, <1>7, SharedNames
      <4>3. CASE c = "job"
        BY <4>3, <1>7
      <4>4. QED
        BY <4>1, <4>2, <4>3, <1>7
    <3>2. Loads(Rewritten(call[d].before, disk))
      BY <2>1, <3>1 DEF FilesLoad
    <3>3. QED
      BY <3>1, <3>2, <1>2
  <2>6. \A c \in Calls : AddsIn(call'[c]) => Loads([disk' EXCEPT !["main"] = call'[c].before])
    <3> SUFFICES ASSUME NEW c \in Calls, AddsIn(call'[c])
                 PROVE  Loads([disk' EXCEPT !["main"] = call'[c].before])
      OBVIOUS
    <3>1. PICK d \in Calls : AddsIn(call[d]) /\ call'[c].before = call[d].before
      <4>1. CASE c = "http"
        BY <4>1, <1>7 DEF AddsIn
      <4>2. CASE c = "old"
        BY <4>2, <1>5, <1>6, <1>7, SharedNames
      <4>3. CASE c = "job"
        BY <4>3, <1>7
      <4>4. QED
        BY <4>1, <4>2, <4>3, <1>7
    <3>2. Loads([disk EXCEPT !["main"] = call[d].before])
      BY <2>1, <3>1 DEF FilesLoad
    <3>3. QED
      BY <3>1, <3>2, <1>2
  <2>7. \A c, d \in Calls : AddsIn(call'[c]) /\ AddsIn(call'[d]) => c = d
    <3>1. ~(AddsIn(call["http"]) /\ AddsIn(call["job"]))
      BY <2>1, SharedNames DEF FilesLoad
    <3>2. ~AddsIn(call'["http"])
      BY <1>7 DEF AddsIn
    <3>3. QED
      BY <3>1, <3>2, <1>6, <1>7
  <2>8. (lock' = None /\ ~Installing' => Loads(disk')) /\ (lock' # None => ~Installing')
    BY <2>1, <2>4, <1>2 DEF FilesLoad
  <2>9. QED
    BY <2>5, <2>6, <2>7, <2>8 DEF FilesLoad, AddsIn, HoldsIn
<1>15. (~spent.late => PoolsFollow)'
  <2>1. SUFFICES ASSUME PoolsFollow
                 PROVE  PoolsFollow'
    BY <1>9 DEF SharedInv
  <2>2. ~Carried
    BY <1>2, <1>3 DEF Carried, CarriedBy
  <2>3. ~Carried' /\ ~ApplyingIn(call'["http"])
    BY <1>7, <1>8 DEF Carried, CarriedBy, ApplyingIn, HoldsIn
  <2>4. ~spent'.unsure => ~OnPoolsIn(call["http"]) /\ ~spent.unsure
    BY <1>9
  <2>5. ~spent'.unsure => ~ApplyingIn(call'["old"])
    BY <2>4, <1>6, <1>7 DEF ApplyingIn
  <2>6. ~spent'.unsure => Recorded(disk["pools"])
    BY <2>1, <2>2, <2>4 DEF PoolsFollow, ApplyingIn
  <2>7. QED
    BY <2>3, <2>5, <2>6, <1>2 DEF PoolsFollow, Recorded, ApplyingIn, HoldsIn, OnPoolsIn, Carried, CarriedBy
<1>16. QED
  BY <1>11, <1>12, <1>13, <1>14, <1>15 DEF SharedInv, SharedBase

(* What is recorded is what was carried out.                                 *)
LEMMA RecordAppliedKeeps ==
  ASSUME SharedInv, RecordApplied
  PROVE  SharedInv'
<1>1. /\ SharedBase /\ SharedTyped /\ spent \in Spent
      /\ request["http"] # None /\ request["http"].op = "pools" /\ request["http"].pc = "done"
      /\ Done("http", "pools") /\ Ends("http") /\ call' = call /\ disk' = disk /\ lock' = lock
      /\ pool' = pool /\ uses' = uses /\ setting' = setting
  BY DEF RecordApplied, Done, SharedInv, SharedBase, SharedTyped
<1>2. request["http"].value \in Servers
  BY <1>1 DEF SharedBase, RequestsFit, HttpFits
<1>3. call["http"] = None /\ call'["http"] = None
  BY <1>1, DoneAlone, SharedNames
<1>4. /\ request' \in [Threads -> PanelRequest \cup {None}] /\ request'["http"] = None
      /\ request'["job"] = request["job"]
  BY <1>1, SharedNames DEF Ends, SharedTyped
<1>5. /\ spent' \in Spent /\ spent'.late = spent.late /\ spent'.overlap = spent.overlap
      /\ (applied' = request["http"].value /\ ~spent'.unsure) \/ (applied' = applied /\ spent'.unsure)
  <2>1. CASE applied' = request["http"].value /\ spent' = [spent EXCEPT !.unsure = FALSE]
    BY <1>1, <2>1 DEF Spent
  <2>2. CASE applied' = applied /\ spent' = [spent EXCEPT !.faults = @ + 1, !.unsure = TRUE]
    <3>1. PICK n \in Nat : n = spent.faults + 1
      BY <1>1 DEF Spent
    <3>2. spent' = [spent EXCEPT !.faults = n, !.unsure = TRUE]
      BY <2>2, <3>1
    <3>3. QED
      BY <1>1, <2>2, <3>2 DEF Spent
  <2>3. QED
    BY <2>1, <2>2 DEF RecordApplied
<1>6. SharedTyped'
  BY <1>1, <1>2, <1>4, <1>5 DEF SharedTyped, Fitting
<1>7. CallsFit'
  BY <1>1 DEF SharedBase, CallsFit, CallFits, HoldsIn, AddsIn, Fitting
<1>8. RequestsFit'
  <2>1. HttpFits(request'["http"], call'["http"])
    BY <1>3, <1>4 DEF HttpFits, OnPoolsIn
  <2>2. JobFits(request'["job"], call'["job"])
    BY <1>1, <1>4 DEF SharedBase, RequestsFit
  <2>3. QED
    BY <2>1, <2>2 DEF RequestsFit, HttpFits, JobFits, OnPoolsIn
<1>9. (~spent.overlap => FilesLoad)'
  <2>1. SUFFICES ASSUME FilesLoad
                 PROVE  FilesLoad'
    BY <1>5 DEF SharedInv
  <2>2. QED
    BY <2>1, <1>1, LoadStays
<1>10. (~spent.late => PoolsFollow)'
  <2>1. SUFFICES ASSUME PoolsFollow
                 PROVE  PoolsFollow'
    BY <1>5 DEF SharedInv
  <2>2. Carried
    BY <1>1 DEF Carried, CarriedBy
  <2>3. disk["pools"] = request["http"].value /\ ~ApplyingIn(call["old"])
    BY <2>1, <2>2 DEF PoolsFollow
  <2>4. ~Carried' /\ ~ApplyingIn(call'["http"]) /\ ~ApplyingIn(call'["old"])
    BY <2>3, <1>1, <1>3, <1>4 DEF Carried, CarriedBy, ApplyingIn, HoldsIn
  <2>5. ~spent'.unsure => disk'["pools"] = applied'
    BY <2>3, <1>1, <1>5
  <2>6. QED
    BY <2>4, <2>5 DEF PoolsFollow, Recorded, ApplyingIn, HoldsIn, OnPoolsIn, Carried, CarriedBy
<1>11. QED
  BY <1>6, <1>7, <1>8, <1>9, <1>10 DEF SharedInv, SharedBase

-----------------------------------------------------------------------------

LEMMA SharedStarts ==
  ASSUME SharedInit
  PROVE  SharedInv
<1>1. /\ request = [t \in Threads |-> None] /\ call = [c \in Calls |-> None] /\ lock = None /\ applied = None
      /\ pool = [u \in Pools |-> 0] /\ uses = [s \in Sites |-> [up |-> None, cache |-> FALSE]]
      /\ setting = [default |-> None, hijack |-> FALSE]
      /\ spent = [ops |-> 0, faults |-> 0, unsure |-> FALSE, late |-> FALSE, overlap |-> FALSE]
  BY DEF SharedInit
<1>2. pool \in Servers /\ applied \in Servers \cup {None} /\ spent \in Spent
  BY <1>1 DEF Servers, Spent
<1>3. /\ DOMAIN disk = SharedFiles /\ disk["main"] = [text |-> 1, include |-> FALSE] /\ disk["pools"] = pool
      /\ disk["https"] = FALSE /\ disk["cache"] = FALSE
      /\ \A s \in Sites : disk[s] = [up |-> None, cache |-> FALSE, default |-> FALSE]
  BY SharedNames DEF SharedInit
<1>4. \A f \in SharedFiles : disk[f] \in ContentOf(f)
  <2>1. disk["main"] \in Main
    BY <1>3 DEF Main
  <2>2. \A s \in Sites : disk[s] \in SiteFile
    <3>1. [up |-> None, cache |-> FALSE, default |-> FALSE] \in SiteFile
      BY DEF SiteFile
    <3>2. QED
      BY <1>3, <3>1
  <2>3. QED
    BY <1>2, <1>3, <2>1, <2>2, ContentTyped DEF SharedFiles, Common
<1>5. Fitting(disk)
  BY <1>3, <1>4 DEF Fitting
<1>6. disk \in [SharedFiles -> Content]
  <2>1. \A f \in SharedFiles : disk[f] \in Content
    BY <1>4, ContentTyped
  <2>2. PICK d : d = disk
    OBVIOUS
  <2>3. d = [f \in SharedFiles |-> d[f]]
    BY <2>2 DEF SharedInit
  <2>4. d \in [SharedFiles -> Content]
    BY <2>1, <2>2, <2>3
  <2>5. QED
    BY <2>2, <2>4
<1>7. SharedTyped
  BY <1>1, <1>2, <1>5, <1>6 DEF SharedTyped
<1>8. \A c \in Calls : call[c] = None
  BY <1>1
<1>9. CallsFit
  BY <1>8 DEF CallsFit, HoldsIn
<1>10. request["http"] = None /\ request["job"] = None /\ call["http"] = None /\ call["job"] = None
       /\ call["old"] = None
  BY <1>1, SharedNames
<1>11. RequestsFit
  BY <1>10 DEF RequestsFit, HttpFits, JobFits, OnPoolsIn
<1>12. Loads(disk)
  BY <1>3 DEF Loads, Broken
<1>13. FilesLoad
  BY <1>1, <1>8, <1>12 DEF FilesLoad, HoldsIn, AddsIn
<1>14. PoolsFollow
  BY <1>1, <1>10 DEF PoolsFollow, Carried, CarriedBy, ApplyingIn, HoldsIn, Recorded
<1>15. QED
  BY <1>7, <1>9, <1>11, <1>13, <1>14 DEF SharedInv, SharedBase

LEMMA SharedStutters ==
  ASSUME SharedInv, UNCHANGED sharedVars
  PROVE  SharedInv'
<1>1. /\ pool' = pool /\ uses' = uses /\ setting' = setting /\ applied' = applied /\ disk' = disk
      /\ lock' = lock /\ request' = request /\ call' = call /\ spent' = spent
  BY DEF sharedVars
<1>2. SharedBase'
  BY <1>1 DEF SharedInv, SharedBase, SharedTyped, CallsFit, RequestsFit, CallFits, HttpFits, JobFits,
              HoldsIn, AddsIn, OnPoolsIn, Fitting
<1>3. (~spent.overlap => FilesLoad)'
  BY <1>1, LoadStays DEF SharedInv
<1>4. (~spent.late => PoolsFollow)'
  BY <1>1 DEF SharedInv, PoolsFollow, Carried, CarriedBy, ApplyingIn, HoldsIn, OnPoolsIn, Recorded
<1>5. QED
  BY <1>2, <1>3, <1>4 DEF SharedInv

(* Each file a call would put back loads with the others as they are, and    *)
(* what was recorded of the upstreams is what there is or would be put back. *)
THEOREM SharedInvariant == SharedSpec => []SharedInv
<1>1. SharedInit => SharedInv
  BY SharedStarts
<1>2. ASSUME SharedInv, [SharedNext]_sharedVars
      PROVE  SharedInv'
  <2>1. ASSUME NEW u \in Pools, SaveUpstream(u)
        PROVE  SharedInv'
    BY <1>2, <2>1, UpstreamsKeep
  <2>2. CASE SyncUpstreams
    BY <1>2, <2>2, UpstreamsKeep
  <2>3. ASSUME NEW s \in Sites, ChangeProxy(s) \/ Renew(s)
        PROVE  SharedInv'
    BY <1>2, <2>3, ChangeProxyKeeps, RenewKeeps
  <2>4. ASSUME NEW s \in Sites \cup {None}, UpdateDefaultSite(s)
        PROVE  SharedInv'
    BY <1>2, <2>4, UpdateDefaultSiteKeeps
  <2>5. ASSUME NEW on \in BOOLEAN, UpdateHTTPSHijack(on)
        PROVE  SharedInv'
    BY <1>2, <2>5, UpdateHTTPSHijackKeeps
  <2>6. CASE SaveNginxConf \/ SaveNginxParameters \/ EnsureInclude
    BY <1>2, <2>6, SaveNginxConfKeeps, SaveNginxParametersKeeps, EnsureIncludeKeeps
  <2>7. CASE ReadForProxy \/ ReadForDefault \/ ReadForParameters \/ ReadForRenewal
    BY <1>2, <2>7, ReadForProxyKeeps, ReadForDefaultKeeps, ReadForParametersKeeps, ReadForRenewalKeeps
  <2>8. ASSUME NEW c \in Calls, Refuse(c) \/ Apply(c) \/ Keep(c) \/ RollBack(c)
        PROVE  SharedInv'
    BY <1>2, <2>8, RefuseKeeps, ApplyKeeps, KeepKeeps, RollBackKeeps
  <2>9. ASSUME NEW c \in Calls, Look(c) \/ WriteInclude(c) \/ TestInclude(c)
        PROVE  SharedInv'
    BY <1>2, <2>9, LookKeeps, WriteIncludeKeeps, TestIncludeKeeps
  <2>10. ASSUME NEW t \in Threads, CallReturns(t) \/ Unreached(t) \/ Finish(t)
         PROVE  SharedInv'
    BY <1>2, <2>10, CallReturnsKeeps, UnreachedKeeps, FinishKeeps
  <2>11. CASE Abandon \/ RecordApplied
    BY <1>2, <2>11, AbandonKeeps, RecordAppliedKeeps
  <2>12. CASE SetSetting \/ SetFails
    BY <1>2, <2>12, SettingKeeps
  <2>13. CASE UNCHANGED sharedVars
    BY <1>2, <2>13, SharedStutters
  <2>14. QED
    BY <1>2, <2>1, <2>2, <2>3, <2>4, <2>5, <2>6, <2>7, <2>8, <2>9, <2>10, <2>11, <2>12, <2>13 DEF SharedNext
<1>3. QED
  BY <1>1, <1>2, PTL DEF SharedSpec

(* EveryFileLoads: whoever wrote the shared files last, the configuration    *)
(* loads when no transaction and no installation is under way.               *)
THEOREM EveryFileAlwaysLoads == SharedSpec => []EveryFileLoads
<1>1. SharedInv => EveryFileLoads
  BY DEF SharedInv, FilesLoad, EveryFileLoads
<1>2. QED
  BY <1>1, SharedInvariant, PTL

(* SyncedIsTrue: what is recorded as applied and equals the rows is on disk. *)
THEOREM SyncedIsAlwaysTrue == SharedSpec => []SyncedIsTrue
<1>1. SharedInv => SyncedIsTrue
  <2>1. SUFFICES ASSUME SharedInv, ~spent.unsure, ~spent.late, request["http"] = None, applied = pool
                 PROVE  disk["pools"] = pool
    BY DEF SyncedIsTrue
  <2>2. PoolsFollow /\ pool \in Servers
    BY <2>1, RowsTyped DEF SharedInv
  <2>3. call["http"] = None
    BY <2>1 DEF SharedInv, SharedBase, RequestsFit, HttpFits
  <2>4. ~Carried /\ ~ApplyingIn(call["http"])
    BY <2>1, <2>3 DEF Carried, CarriedBy, ApplyingIn, HoldsIn
  <2>5. Recorded(disk["pools"])
    BY <2>1, <2>2, <2>4 DEF PoolsFollow
  <2>6. applied # None
    BY <2>1, <2>2, SharedAssumption
  <2>7. QED
    BY <2>1, <2>5, <2>6 DEF Recorded
<1>2. QED
  BY <1>1, SharedInvariant, PTL
====
