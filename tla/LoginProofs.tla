----------------------------- MODULE LoginProofs -----------------------------
(***************************************************************************)
(* Theorems about Login for every value of the constants: any number of    *)
(* requests side by side, codes, sessions and tokens.                      *)
(***************************************************************************)
EXTENDS Login, FiniteSetTheorems, TLAPS

-----------------------------------------------------------------------------
(* The inductive invariant.                                                *)

(* The code of a second step is of the kind its path takes.                *)
CodeFits(r) ==
  /\ r.op \in {"totp", "disable", "regenerate"} => r.code \in Steps
  /\ r.op = "recover" => r.code \in Code

Processes ==
  /\ proc \in [Threads -> Process \cup {Null}]
  /\ \A t \in Threads : proc[t] # Null => CodeFits(proc[t])

Typed ==
  /\ admin \in Admin \cup {Null}
  /\ sessions \subseteq Session /\ IsFiniteSet(sessions)
  /\ tokens \subseteq Token /\ IsFiniteSet(tokens)
  /\ counts \in Nat
  /\ Processes
  /\ serial \in [id : Nat, pw : Nat, secret : Nat, codes : Nat]
  /\ used \in [codes : SUBSET (Code \X Nat), tokens : SUBSET (Nat \X Nat)]
  /\ spent \in [ops : Nat, failed : BOOLEAN]

(* Before there is an administrator there is nothing but setup.            *)
Present ==
  admin = Null =>
    /\ sessions = {} /\ tokens = {}
    /\ \A t \in Threads : proc[t] # Null => proc[t].op = "setup"

(* Tokens have numbers of their own, and none that was accepted is there.  *)
TokensNew ==
  /\ \A k \in tokens : k.id < serial.id
  /\ \A j, k \in tokens : j.id = k.id => j = k
  /\ \A x \in used.tokens : x[1] < serial.id /\ \A k \in tokens : x[1] # k.id
  /\ \A x, y \in used.tokens : x[1] = y[1] => x = y

(* The same of recovery codes; those of a set to come are not accepted yet.*)
CodesNew ==
  /\ \A x \in used.codes : x[1][1] < serial.codes
  /\ admin # Null =>
       \A c \in admin.codes : c[1] < serial.codes /\ \A x \in used.codes : x[1] # c
  /\ \A x, y \in used.codes : x[1] = y[1] => x = y

(* Requests past their count hold a place each.                            *)
Inserting == {t \in Threads : proc[t] # Null /\ proc[t].pc = "insert"}

Capped == Cardinality(Live) + Cardinality(Inserting) < MaxSessions + Cardinality(Threads)

LInv == Typed /\ Present /\ TokensNew /\ CodesNew /\ CountsAgree /\ Capped /\ NoSessionFromBefore

-----------------------------------------------------------------------------
(* What a step of a request does to the others: nothing.                   *)

LEMMA Going ==
  ASSUME Processes, NEW t \in Threads, proc[t] # Null, NEW pc \in Pcs, Goes(t, pc)
  PROVE  /\ Processes'
         /\ \A u \in Threads : proc'[u] # Null => proc[u] # Null /\ proc'[u].op = proc[u].op
         /\ \A u \in Threads \ {t} : proc'[u] = proc[u]
         /\ proc'[t].pc = pc
BY DEF Processes, Goes, Process, CodeFits

LEMMA Ending ==
  ASSUME Processes, NEW t \in Threads, Ends(t)
  PROVE  /\ Processes'
         /\ \A u \in Threads : proc'[u] # Null => u # t /\ proc'[u] = proc[u]
         /\ \A u \in Threads \ {t} : proc'[u] = proc[u]
  BY DEF Processes, Ends

LEMMA Beginning ==
  ASSUME Processes, spent \in [ops : Nat, failed : BOOLEAN],
         NEW t \in Threads, NEW r \in Process, CodeFits(r), Begins(t, r)
  PROVE  /\ Processes'
         /\ spent' \in [ops : Nat, failed : BOOLEAN] /\ spent'.failed = spent.failed
         /\ \A u \in Threads \ {t} : proc'[u] = proc[u]
         /\ proc'[t].op = r.op /\ proc'[t].pc = r.pc
BY DEF Begins, Processes, Process, CodeFits

-----------------------------------------------------------------------------
(* Types and presence: requests that begin.                                *)

(* A request that only begins leaves everything else as it is.             *)
LEMMA BeginningTyped ==
  ASSUME Typed, Present, NEW t \in Threads, NEW r \in Process, CodeFits(r), Begins(t, r),
         r.op = "setup" \/ admin # Null,
         UNCHANGED <<admin, sessions, tokens, counts, serial, used>>
  PROVE  Typed' /\ Present'
BY Beginning DEF Typed, Present

LEMMA SubsetFinite ==
  ASSUME NEW S, IsFiniteSet(S), NEW T, T \subseteq S
  PROVE  IsFiniteSet(T)
  BY FS_Subset

LEMMA CountWithoutFew ==
  ASSUME counts \in Nat
  PROVE  /\ CountWithout({}) = counts
         /\ \A k : CountWithout({k}) = IF counts = 0 THEN 0 ELSE counts - 1
<1>1. Cardinality({}) = 0 /\ \A k : Cardinality({k}) = 1
  BY FS_EmptySet, FS_Singleton
<1>2. CountWithout({}) = counts
  BY <1>1 DEF CountWithout
<1>3. ASSUME NEW k
      PROVE  CountWithout({k}) = IF counts = 0 THEN 0 ELSE counts - 1
  BY <1>1 DEF CountWithout
<1> QED
  BY <1>2, <1>3

LEMMA CountsNat ==
  ASSUME Typed, NEW gone, gone \subseteq tokens
  PROVE  CountWithout(gone) \in Nat
BY SubsetFinite, FS_CardinalityType DEF Typed, CountWithout

LEMMA DropTyped ==
  ASSUME Typed, NEW id, DropUnusable(id)
  PROVE  tokens' \subseteq tokens /\ IsFiniteSet(tokens') /\ counts' \in Nat
<1> DEFINE gone == {k \in tokens : k.id = id /\ ~Usable(k)}
<1>1. tokens' = tokens \ gone /\ counts' = CountWithout(gone)
  BY DEF DropUnusable
<1>2. tokens' \subseteq tokens /\ gone \subseteq tokens
  BY <1>1
<1>3. IsFiniteSet(tokens')
  BY <1>2, SubsetFinite DEF Typed
<1> QED
  BY <1>1, <1>2, <1>3, CountsNat

LEMMA RequestTyped ==
  ASSUME Typed, Present, NEW t \in Threads, Request(t)
  PROVE  Typed' /\ Present'
<1>0. \A id \in LoggedIn : id \in Nat
  BY DEF LoggedIn, Live, Typed, Session
<1>1. CASE Setup(t)
  <2> DEFINE r == [Idle EXCEPT !.op = "setup", !.pc = "create"]
  <2>1. r \in Process
    BY DEF Ops, Pcs, Idle, Process
  <2>2. r.op = "setup"
    BY DEF Idle
  <2>3. CodeFits(r)
    BY <2>2 DEF CodeFits
  <2> QED
    BY <1>1, <2>1, <2>2, <2>3, BeginningTyped DEF Setup
<1>2. ASSUME NEW pw \in Passwords, Login(t, pw)
      PROVE  Typed' /\ Present'
  <2> DEFINE r == [Idle EXCEPT !.op = "login", !.pc = "compare", !.row = admin, !.pw = pw]
  <2>1. pw \in Nat
    BY <1>2 DEF Passwords, Typed, Admin
  <2>2. r \in Process /\ CodeFits(r)
    BY <2>1 DEF Ops, Pcs, Idle, Process, CodeFits, Typed
  <2> QED
    BY <1>2, <2>2, BeginningTyped DEF Login
<1>3. ASSUME NEW id \in LoggedIn, NEW pw \in Passwords, ChangePassword(t, id, pw)
      PROVE  Typed' /\ Present'
  <2> DEFINE r == [Idle EXCEPT !.op = "password", !.pc = "store", !.mine = id]
  <2>1. r \in Process /\ CodeFits(r)
    BY <1>0, <1>3 DEF Ops, Pcs, Idle, Process, CodeFits, Typed
  <2> QED
    BY <1>3, <2>1, BeginningTyped DEF ChangePassword
<1>4. ASSUME NEW id \in LoggedIn, Enable(t, id)
      PROVE  Typed' /\ Present'
  <2> DEFINE r == [Idle EXCEPT !.op = "enable", !.pc = "store"]
  <2>1. r \in Process /\ CodeFits(r)
    BY DEF Ops, Pcs, Idle, Process, CodeFits
  <2> QED
    BY <1>4, <2>1, BeginningTyped DEF Enable
<1>5. ASSUME NEW id \in LoggedIn, NEW code \in Steps, Disable(t, id, code)
      PROVE  Typed' /\ Present'
  <2> DEFINE r == [Idle EXCEPT !.op = "disable", !.pc = "consume", !.row = admin, !.code = code, !.mine = id]
  <2>1. r \in Process /\ CodeFits(r)
    BY <1>0, <1>5 DEF Ops, Pcs, Idle, Process, CodeFits, Typed
  <2> QED
    BY <1>5, <2>1, BeginningTyped DEF Disable
<1>6. ASSUME NEW id \in LoggedIn, NEW code \in Steps, RegenerateRecoveryCodes(t, id, code)
      PROVE  Typed' /\ Present'
  <2> DEFINE r == [Idle EXCEPT !.op = "regenerate", !.pc = "consume", !.row = admin, !.code = code]
  <2>1. r \in Process /\ CodeFits(r)
    BY <1>6 DEF Ops, Pcs, Idle, Process, CodeFits, Typed
  <2> QED
    BY <1>6, <2>1, BeginningTyped DEF RegenerateRecoveryCodes
<1>7. ASSUME NEW k \in tokens, NEW code \in Steps \cup Issued, Login2FA(t, k.id, code)
      PROVE  Typed' /\ Present'
  <2>1. CASE Valid(k.id)
    <3> DEFINE r == [Idle EXCEPT !.op = IF code \in Steps THEN "totp" ELSE "recover", !.pc = "read",
                       !.token = k.id, !.code = code]
    <3>1. k.id \in Nat
      BY DEF Typed, Token
    <3>2. code \in Steps \/ code \in Code
      BY DEF Issued, Code, Typed
    <3>3. r \in Process /\ CodeFits(r)
      BY <3>1, <3>2 DEF Ops, Pcs, Idle, Process, CodeFits, Typed
    <3> QED
      BY <1>7, <2>1, <3>3, BeginningTyped DEF Login2FA
  <2>2. CASE ~Valid(k.id)
    BY <1>7, <2>2, DropTyped DEF Login2FA, Typed, Present, Processes
  <2> QED
    BY <2>1, <2>2
<1> QED
  BY <1>1, <1>2, <1>3, <1>4, <1>5, <1>6, <1>7 DEF Request

-----------------------------------------------------------------------------
(* Types and presence: steps of the handlers, and the rest.                *)

LEMMA ReadingTyped ==
  ASSUME NEW r \in Process, NEW row \in Admin \cup {Null}
  PROVE  /\ [r EXCEPT !.row = row, !.pc = "consume"] \in Process
         /\ [r EXCEPT !.row = row, !.pc = "consume"].op = r.op
         /\ [r EXCEPT !.row = row, !.pc = "consume"].code = r.code
  BY DEF Process, Pcs

LEMMA CountingTyped ==
  ASSUME Typed, Present, NEW t \in Threads,
         \/ ComparePassword(t) \/ ReadAdmin(t) \/ CountSessions(t) \/ DeleteOldestSession(t)
  PROVE  Typed' /\ Present'
<1>1. /\ Processes'
      /\ \A u \in Threads : proc'[u] # Null => proc[u] # Null /\ proc'[u].op = proc[u].op
  <2>1. CASE ComparePassword(t)
    <3>1. CASE Ends(t)
      BY <3>1, Ending DEF Typed
    <3>2. CASE ~Ends(t)
      BY <2>1, <3>2, Going DEF ComparePassword, Typed, At, Pcs
    <3> QED
      BY <3>1, <3>2
  <2>2. CASE ReadAdmin(t)
    <3>1. proc[t] \in Process /\ proc[t] # Null /\ proc' = [proc EXCEPT ![t].row = admin, ![t].pc = "consume"]
      BY <2>2 DEF ReadAdmin, At, Typed, Processes
    <3>2. proc'[t] = [proc[t] EXCEPT !.row = admin, !.pc = "consume"] /\ \A u \in Threads \ {t} : proc'[u] = proc[u]
      BY <3>1 DEF Typed, Processes
    <3>3. proc'[t] \in Process /\ proc'[t].op = proc[t].op /\ proc'[t].code = proc[t].code
      <4>1. admin \in Admin \cup {Null}
        BY DEF Typed
      <4>2. /\ [proc[t] EXCEPT !.row = admin, !.pc = "consume"] \in Process
            /\ [proc[t] EXCEPT !.row = admin, !.pc = "consume"].op = proc[t].op
            /\ [proc[t] EXCEPT !.row = admin, !.pc = "consume"].code = proc[t].code
        BY <3>1, <4>1, ReadingTyped, Zenon
      <4> QED
        BY <3>2, <4>2, Zenon
    <3>4. proc' \in [Threads -> Process \cup {Null}]
      BY <3>1, <3>3, <3>2 DEF Typed, Processes
    <3> QED
      BY <3>1, <3>2, <3>3, <3>4 DEF Typed, Processes, CodeFits
  <2>3. CASE CountSessions(t)
    BY <2>3, Going DEF CountSessions, Typed, At, Pcs
  <2>4. CASE DeleteOldestSession(t)
    BY <2>4, Going DEF Typed, DeleteOldestSession, At, Pcs
  <2> QED
    BY <2>1, <2>2, <2>3, <2>4
<1>2. sessions' \subseteq sessions /\ UNCHANGED <<admin, tokens, counts, serial, used, spent>>
  BY DEF ComparePassword, ReadAdmin, CountSessions, DeleteOldestSession
<1>3. IsFiniteSet(sessions')
  BY <1>2, SubsetFinite DEF Typed
<1>4. Typed'
  BY <1>1, <1>2, <1>3 DEF Typed
<1>5. Present'
  BY <1>1, <1>2 DEF Present
<1> QED
  BY <1>4, <1>5

LEMMA SessionsTyped ==
  ASSUME Typed, Present, NEW t \in Threads,
         InsertSession(t) \/ DestroyAllSessions(t) \/ CreateToken(t)
  PROVE  Typed' /\ Present'
<1>1. proc[t] # Null /\ proc[t].op # "setup" /\ admin # Null /\ Ends(t)
  BY DEF InsertSession, DestroyAllSessions, CreateToken, At, Present
<1>2. Processes'
  BY <1>1, Ending DEF Typed
<1>3. CASE InsertSession(t)
  <2> DEFINE new == [id |-> serial.id, under |-> admin.pw, live |-> TRUE]
  <2>1. new \in Session /\ serial.id \in Nat
    BY <1>1 DEF Session, Typed, Admin
  <2>2. sessions' = sessions \cup {new} /\ serial' = [serial EXCEPT !.id = @ + 1]
        /\ UNCHANGED <<admin, tokens, counts, used, spent>>
    BY <1>3 DEF InsertSession
  <2>3. IsFiniteSet(sessions') /\ sessions' \subseteq Session
    BY <2>1, <2>2, FS_AddElement DEF Typed
  <2>4. serial' \in [id : Nat, pw : Nat, secret : Nat, codes : Nat]
    BY <2>1, <2>2 DEF Typed
  <2>5. Typed'
    BY <1>2, <2>2, <2>3, <2>4 DEF Typed
  <2> QED
    BY <1>1, <2>2, <2>5 DEF Present
<1>4. CASE DestroyAllSessions(t)
  <2>1. sessions' \subseteq sessions /\ UNCHANGED <<admin, tokens, counts, serial, used>>
    BY <1>4 DEF DestroyAllSessions, Kept
  <2>2. IsFiniteSet(sessions')
    BY <2>1, SubsetFinite DEF Typed
  <2>3. spent' \in [ops : Nat, failed : BOOLEAN]
    BY <1>4 DEF DestroyAllSessions, Typed
  <2>4. Typed'
    BY <1>2, <2>1, <2>2, <2>3 DEF Typed
  <2> QED
    BY <1>1, <2>1, <2>4 DEF Present
<1>5. CASE CreateToken(t)
  <2> DEFINE new == [id |-> serial.id, attempts |-> 0, old |-> FALSE]
  <2>1. new \in Token /\ serial.id \in Nat
    BY LoginAssumption DEF Token, Typed
  <2>2. Purge \in Nat
    BY CountsNat DEF Purge, Expired
  <2>3. IsFiniteSet(tokens \ Expired)
    BY SubsetFinite DEF Typed
  <2>4. IsFiniteSet((tokens \ Expired) \cup {new})
    BY <2>3, FS_AddElement
  <2>5. IsFiniteSet(tokens') /\ tokens' \subseteq Token /\ counts' \in Nat
    <3>1. tokens \subseteq Token /\ Purge + 1 \in Nat
      BY <2>2 DEF Typed
    <3>2. \/ tokens' = tokens \ Expired /\ counts' = Purge
          \/ tokens' = (tokens \ Expired) \cup {new} /\ counts' = Purge + 1
      BY <1>5 DEF CreateToken
    <3> QED
      BY <2>1, <2>2, <2>3, <2>4, <3>1, <3>2
  <2>6. serial' \in [id : Nat, pw : Nat, secret : Nat, codes : Nat]
    BY <1>5, <2>1 DEF CreateToken, Typed
  <2>7. UNCHANGED <<admin, sessions, used, spent>>
    BY <1>5 DEF CreateToken
  <2>8. Typed'
    BY <1>2, <2>5, <2>6, <2>7 DEF Typed
  <2> QED
    BY <1>1, <2>7, <2>8 DEF Present
<1> QED
  BY <1>3, <1>4, <1>5

(* RecordFailure: a token is changed, or gone.                             *)
LEMMA FailureTyped ==
  ASSUME Typed, TokensNew, NEW id, RecordFailure(id)
  PROVE  /\ tokens' \subseteq Token /\ IsFiniteSet(tokens') /\ counts' \in Nat
         /\ counts = Cardinality(tokens) => counts' = Cardinality(tokens')
         /\ \A j \in tokens' : \E k \in tokens : j.id = k.id
         /\ \A j, k \in tokens' : j.id = k.id => j = k
<1> DEFINE failed == {k \in tokens : k.id = id}
           worn   == {k \in failed : Worn(k)}
           More(k) == [k EXCEPT !.attempts = @ + 1]
<1>1. tokens' = (tokens \ failed) \cup {More(k) : k \in failed \ worn} /\ counts' = CountWithout(worn)
  BY DEF RecordFailure
<1>2. \A k \in tokens : k.id = id => failed = {k}
  BY DEF TokensNew
<1>3. counts' \in Nat
  BY <1>1, CountsNat
<1>4. CASE failed = {}
  <2>1. tokens' = tokens /\ worn = {}
    BY <1>1, <1>4
  <2>2. counts' = counts
    BY <1>1, <2>1, CountWithoutFew DEF Typed
  <2> QED
    BY <1>3, <2>1, <2>2 DEF Typed, TokensNew
<1>5. ASSUME NEW k \in tokens, k.id = id
      PROVE  /\ tokens' \subseteq Token /\ IsFiniteSet(tokens')
             /\ counts = Cardinality(tokens) => counts' = Cardinality(tokens')
             /\ \A j \in tokens' : \E l \in tokens : j.id = l.id
             /\ \A j, l \in tokens' : j.id = l.id => j = l
  <2>1. failed = {k} /\ IsFiniteSet(tokens) /\ k \in Token /\ tokens \subseteq Token
    BY <1>2, <1>5 DEF Typed
  <2>2. IsFiniteSet(tokens \ {k}) /\ Cardinality(tokens \ {k}) = Cardinality(tokens) - 1
    BY <2>1, <1>5, FS_RemoveElement
  <2>3. Cardinality(tokens) \in Nat
    BY <2>1, FS_CardinalityType
  <2>4. CASE Worn(k)
    <3>1. worn = {k} /\ failed \ worn = {}
      BY <2>1, <2>4
    <3>2. tokens' = tokens \ {k}
      BY <1>1, <2>1, <3>1
    <3>3. counts = Cardinality(tokens) => counts' = Cardinality(tokens')
      <4>1. Cardinality(tokens \ {k}) \in Nat
        BY <2>2, FS_CardinalityType
      <4>2. counts' = IF counts = 0 THEN 0 ELSE counts - 1
        BY <1>1, <3>1, CountWithoutFew DEF Typed
      <4> QED
        BY <2>2, <2>3, <3>2, <4>1, <4>2
    <3> QED
      BY <2>1, <2>2, <3>2, <3>3 DEF TokensNew
  <2>5. CASE ~Worn(k)
    <3>1. worn = {} /\ failed \ worn = {k}
      BY <2>1, <2>5
    <3>2. tokens' = (tokens \ {k}) \cup {More(k)}
      BY <1>1, <2>1, <3>1
    <3>3. More(k) \in Token /\ More(k).id = id
      BY <2>1, <2>5, <1>5, LoginAssumption DEF Token, Worn
    <3>4. \A j \in tokens \ {k} : j.id # id
      BY <1>5, <2>1
    <3>5. More(k) \notin tokens \ {k}
      BY <3>3, <3>4
    <3>6. IsFiniteSet(tokens') /\ Cardinality(tokens') = Cardinality(tokens)
      BY <2>2, <2>3, <3>2, <3>5, FS_AddElement
    <3>7. counts' = counts
      BY <1>1, <3>1, CountWithoutFew DEF Typed
    <3> QED
      BY <1>5, <2>1, <3>2, <3>3, <3>4, <3>6, <3>7 DEF TokensNew
  <2> QED
    BY <2>4, <2>5
<1>6. failed = {} \/ \E k \in tokens : k.id = id
  OBVIOUS
<1> QED
  BY <1>3, <1>4, <1>5, <1>6

LEMMA SerialTyped ==
  ASSUME NEW n \in [id : Nat, pw : Nat, secret : Nat, codes : Nat], NEW s \in Nat, NEW c \in Nat
  PROVE  [n EXCEPT !.secret = s, !.codes = c] \in [id : Nat, pw : Nat, secret : Nat, codes : Nat]
  OBVIOUS

(* Steps that write the administrator's row.                               *)
LEMMA AdminTyped ==
  ASSUME Typed, Present, NEW t \in Threads,
         \/ CreateAdmin(t) \/ UpdatePassword(t) \/ StoreSecret(t) \/ Disabled(t) \/ Regenerated(t)
  PROVE  Typed' /\ Present'
<1>1. proc[t] # Null /\ UNCHANGED <<tokens, counts, used, spent>> /\ sessions' \subseteq sessions
  BY DEF CreateAdmin, UpdatePassword, StoreSecret, Disabled, Regenerated, At
<1>2. IsFiniteSet(sessions') /\ sessions' \subseteq Session
  BY <1>1, SubsetFinite DEF Typed
<1>3. Processes'
  <2>1. CASE UpdatePassword(t)
    BY <2>1, <1>1, Going DEF UpdatePassword, Pcs, Typed
  <2>2. CASE ~UpdatePassword(t)
    BY <2>2, Ending DEF CreateAdmin, StoreSecret, Disabled, Regenerated, Typed
  <2> QED
    BY <2>1, <2>2
<1>4. CASE CreateAdmin(t)
  <2>1. admin' # Null => admin' \in Admin
    BY <1>4 DEF CreateAdmin, Admin, Typed
  <2>2. serial' = serial /\ sessions' = sessions
    BY <1>4 DEF CreateAdmin
  <2>3. CASE admin # Null
    <3>1. admin' = admin
      BY <1>4, <2>3 DEF CreateAdmin
    <3> QED
      BY <1>1, <1>2, <1>3, <2>2, <2>3, <3>1 DEF Typed, Present
  <2>4. CASE admin = Null
    <3>1. sessions' = {} /\ tokens' = {}
      BY <1>1, <2>2, <2>4 DEF Present
    <3>2. \A u \in Threads : proc'[u] # Null => proc'[u] = proc[u]
      BY <1>4, Ending DEF CreateAdmin, Typed
    <3>3. \A u \in Threads : proc'[u] # Null => proc'[u].op = "setup"
      BY <2>4, <3>2 DEF Present
    <3>4. admin' \in Admin \cup {Null}
      BY <2>1
    <3> QED
      BY <1>1, <1>2, <1>3, <2>2, <3>1, <3>3, <3>4 DEF Typed, Present
  <2> QED
    BY <2>3, <2>4
<1>5. CASE ~CreateAdmin(t)
  <2>1. admin # Null /\ admin \in Admin
    BY <1>5 DEF UpdatePassword, StoreSecret, Disabled, Regenerated, At, Present, Typed
  <2>2. NewCodes \in SUBSET Code
    BY DEF NewCodes, Code, Typed
  <2>3. admin' \in Admin /\ serial' \in [id : Nat, pw : Nat, secret : Nat, codes : Nat]
    <3>1. CASE UpdatePassword(t)
      BY <2>1, <3>1 DEF UpdatePassword, Admin, Typed
    <3>2. CASE StoreSecret(t)
      <4>1. serial.secret \in Nat /\ serial.codes \in Nat
        BY DEF Typed
      <4>2. admin' \in Admin
        BY <2>1, <2>2, <3>2, <4>1 DEF StoreSecret, Admin
      <4>3. serial' \in [id : Nat, pw : Nat, secret : Nat, codes : Nat]
        <5>1. serial \in [id : Nat, pw : Nat, secret : Nat, codes : Nat]
          BY DEF Typed
        <5>2. serial' = [serial EXCEPT !.secret = serial.secret + 1, !.codes = serial.codes + 1]
          BY <3>2 DEF StoreSecret
        <5>3. serial.secret + 1 \in Nat /\ serial.codes + 1 \in Nat
          BY <4>1
        <5>4. [serial EXCEPT !.secret = serial.secret + 1, !.codes = serial.codes + 1]
                \in [id : Nat, pw : Nat, secret : Nat, codes : Nat]
          BY <5>1, <5>3, SerialTyped, Zenon
        <5> QED
          BY <5>2, <5>4, Zenon
      <4> QED
        BY <4>2, <4>3
    <3>3. CASE Disabled(t)
      BY <2>1, <3>3 DEF Disabled, Admin, Typed
    <3>4. CASE Regenerated(t)
      BY <2>1, <2>2, <3>4 DEF Regenerated, Admin, Typed
    <3> QED
      BY <1>5, <3>1, <3>2, <3>3, <3>4
  <2>4. Typed'
    BY <1>1, <1>2, <1>3, <2>3 DEF Typed
  <2> QED
    BY <2>3, <2>4, NullAssumption DEF Present
<1> QED
  BY <1>4, <1>5

(* Steps that consume a code or a token.                                   *)
LEMMA ConsumeTyped ==
  ASSUME Typed, Present, TokensNew, NEW t \in Threads,
         ConsumeCode(t) \/ ConsumeRecoveryCode(t) \/ ConsumeToken(t)
  PROVE  Typed' /\ Present'
<1>1. /\ proc[t] # Null /\ proc[t] \in Process /\ proc[t].op # "setup"
      /\ UNCHANGED <<sessions, serial, spent>>
  BY DEF ConsumeCode, ConsumeRecoveryCode, ConsumeToken, At, Typed, Processes
<1>2. admin # Null /\ admin \in Admin
  BY <1>1 DEF Present, Typed
<1>3. Processes'
  <2>1. CASE Ends(t)
    BY <2>1, Ending DEF Typed
  <2>2. CASE ~Ends(t)
    <3>1. PICK pc \in {"consumed", "count"} : Goes(t, pc)
      BY <2>2 DEF ConsumeCode, ConsumeRecoveryCode, ConsumeToken, Refused
    <3>2. pc \in Pcs
      BY DEF Pcs
    <3> QED
      BY <1>1, <3>1, <3>2, Going DEF Typed
  <2> QED
    BY <2>1, <2>2
<1>4. admin' \in Admin /\ used' \in [codes : SUBSET (Code \X Nat), tokens : SUBSET (Nat \X Nat)]
  <2>1. CASE ConsumeCode(t)
    <3>1. proc[t].code \in Steps /\ used' = used
      BY <2>1, <1>1 DEF ConsumeCode, At, Typed, Processes, CodeFits
    <3>2. admin' = admin \/ admin' = [admin EXCEPT !.last = proc[t].code]
      BY <2>1 DEF ConsumeCode
    <3> QED
      BY <1>2, <3>1, <3>2 DEF Admin, Typed
  <2>2. CASE ConsumeRecoveryCode(t)
    <3>1. proc[t].code \in Code /\ proc[t].n \in Nat
      BY <2>2, <1>1 DEF ConsumeRecoveryCode, At, Typed, Processes, CodeFits, Process
    <3>2. \/ admin' = admin /\ used' = used
          \/ /\ admin' = [admin EXCEPT !.codes = admin.codes \ {proc[t].code}]
             /\ used' = [used EXCEPT !.codes = @ \cup {<<proc[t].code, proc[t].n>>}]
      BY <2>2 DEF ConsumeRecoveryCode, AsRead
    <3> QED
      BY <1>2, <3>1, <3>2 DEF Admin, Typed
  <2>3. CASE ConsumeToken(t)
    BY <1>1, <2>3, <1>2 DEF Process, ConsumeToken, Typed
  <2> QED
    BY <2>1, <2>2, <2>3
<1>5. tokens' \subseteq Token /\ IsFiniteSet(tokens') /\ counts' \in Nat
  <2>1. CASE UNCHANGED <<tokens, counts>>
    BY <2>1 DEF Typed
  <2>2. CASE RecordFailure(proc[t].token)
    BY <2>2, FailureTyped
  <2>3. CASE ConsumeToken(t)
    <3>1. CASE Valid(proc[t].token)
      <4> DEFINE gone == {k \in tokens : k.id = proc[t].token}
      <4>1. tokens' = {k \in tokens : k.id # proc[t].token} /\ counts' = CountWithout(gone)
        BY <2>3, <3>1 DEF ConsumeToken
      <4>2. tokens' \subseteq tokens
        BY <4>1
      <4> QED
        BY <4>1, <4>2, SubsetFinite, CountsNat DEF Typed
    <3>2. CASE ~Valid(proc[t].token)
      BY <2>3, <3>2, DropTyped DEF ConsumeToken, Typed
    <3> QED
      BY <3>1, <3>2
  <2> QED
    BY <2>1, <2>2, <2>3 DEF ConsumeCode, ConsumeRecoveryCode, Refused
<1>6. Typed'
  BY <1>1, <1>3, <1>4, <1>5 DEF Typed
<1> QED
  BY <1>4, <1>6, NullAssumption DEF Present

(* What happens beside the requests.                                       *)
LEMMA BesideTyped ==
  ASSUME Typed, Present,
         \/ \E id \in LoggedIn : Logout(id)
         \/ TimePasses \/ CleanupTokens \/ CleanupSessions \/ Crash
  PROVE  Typed' /\ Present'
<1>1. UNCHANGED <<admin, serial, used>>
  BY DEF Logout, TimePasses, CleanupTokens, CleanupSessions, Crash
<1>2. CASE \E id \in LoggedIn : Logout(id)
  BY <1>2, SubsetFinite, <1>1 DEF Logout, Typed, Present, Processes
<1>3. CASE TimePasses
  <2>1. UNCHANGED <<counts, proc, spent>>
    BY <1>3 DEF TimePasses
  <2>2. ASSUME NEW s \in Live, sessions' = (sessions \ {s}) \cup {[s EXCEPT !.live = FALSE]}, tokens' = tokens
        PROVE  Typed' /\ Present'
    <3>1. [s EXCEPT !.live = FALSE] \in Session /\ s \in sessions
      BY DEF Live, Typed, Session
    <3>2. IsFiniteSet(sessions \ {s})
      BY FS_RemoveElement DEF Typed
    <3>3. IsFiniteSet(sessions') /\ sessions' \subseteq Session
      BY <2>2, <3>1, <3>2, FS_AddElement DEF Typed
    <3> QED
      BY <1>1, <2>1, <2>2, <3>1, <3>3 DEF Typed, Present, Processes
  <2>3. ASSUME NEW k \in tokens, tokens' = (tokens \ {k}) \cup {[k EXCEPT !.old = TRUE]}, sessions' = sessions
        PROVE  Typed' /\ Present'
    <3>1. [k EXCEPT !.old = TRUE] \in Token
      BY DEF Typed, Token
    <3>2. IsFiniteSet(tokens \ {k})
      BY FS_RemoveElement DEF Typed
    <3>3. IsFiniteSet(tokens') /\ tokens' \subseteq Token
      BY <2>3, <3>1, <3>2, FS_AddElement DEF Typed
    <3> QED
      BY <1>1, <2>1, <2>3, <3>1, <3>3 DEF Typed, Present, Processes
  <2> QED
    BY <1>3, <2>2, <2>3 DEF TimePasses, Expire
<1>4. CASE CleanupTokens
  <2>1. tokens' \subseteq tokens /\ counts' = CountWithout(Expired) /\ UNCHANGED <<sessions, proc, spent>>
    BY <1>4 DEF CleanupTokens, Purge
  <2>2. IsFiniteSet(tokens') /\ counts' \in Nat
    BY <2>1, SubsetFinite, CountsNat DEF Typed, Expired
  <2> QED
    BY <1>1, <2>1, <2>2 DEF Typed, Present, Processes
<1>5. CASE CleanupSessions
  BY <1>5, SubsetFinite, <1>1 DEF CleanupSessions, Live, Typed, Present, Processes
<1>6. CASE Crash
  BY <1>6, FS_EmptySet, <1>1 DEF Crash, Processes, Typed, Present
<1> QED
  BY <1>2, <1>3, <1>4, <1>5, <1>6

LEMMA TypedStep ==
  ASSUME Typed, Present, TokensNew, [Next]_vars
  PROVE  Typed' /\ Present'
<1>1. ASSUME NEW t \in Threads, Request(t)
      PROVE  Typed' /\ Present'
  BY <1>1, RequestTyped
<1>2. ASSUME NEW t \in Threads, Handler(t)
      PROVE  Typed' /\ Present'
  BY <1>2, CountingTyped, SessionsTyped, AdminTyped, ConsumeTyped DEF Handler
<1>3. CASE UNCHANGED vars
  BY <1>3 DEF vars, Typed, Present, Processes
<1> QED
  BY <1>1, <1>2, <1>3, BesideTyped DEF Next

-----------------------------------------------------------------------------
(* Tokens and codes count once.                                            *)

(* Tokens that go, or change under their numbers, leave TokensNew alone.   *)
LEMMA TokensKept ==
  ASSUME TokensNew, UNCHANGED <<serial, used>>,
         \A j \in tokens' : \E k \in tokens : j.id = k.id,
         \A j, k \in tokens' : j.id = k.id => j = k
  PROVE  TokensNew'
  BY DEF TokensNew

LEMMA TokensFewer ==
  ASSUME TokensNew, serial'.id = serial.id, used'.tokens = used.tokens, tokens' \subseteq tokens
  PROVE  TokensNew'
  BY DEF TokensNew

LEMMA TokensStep ==
  ASSUME LInv, [Next]_vars
  PROVE  TokensNew'
<1> USE DEF LInv
<1>1. ASSUME NEW t \in Threads, Request(t)
      PROVE  TokensNew'
  <2>1. UNCHANGED <<serial, used>> /\ tokens' \subseteq tokens
    BY <1>1 DEF Request, Setup, Login, ChangePassword, Enable, Disable, RegenerateRecoveryCodes, Login2FA, DropUnusable
  <2> QED
    BY <2>1, TokensFewer
<1>2. ASSUME NEW t \in Threads, Handler(t)
      PROVE  TokensNew'
  <2>1. CASE CreateToken(t)
    <3> DEFINE new == [id |-> serial.id, attempts |-> 0, old |-> FALSE]
    <3>1. used' = used /\ serial.id \in Nat
      BY <2>1 DEF CreateToken, Typed
    <3>2. CASE tokens' = tokens \ Expired /\ serial' = serial
      BY <3>1, <3>2, TokensFewer
    <3>3. CASE tokens' = (tokens \ Expired) \cup {new} /\ serial' = [serial EXCEPT !.id = @ + 1]
      <4>1. serial'.id = serial.id + 1
        BY <3>3 DEF Typed
      <4>2. \A k \in tokens' : k = new \/ k \in tokens
        BY <3>3
      <4>3. \A k \in tokens : k.id \in Nat /\ k.id < serial.id
        BY DEF Typed, Token, TokensNew
      <4>4. \A x \in used.tokens : x[1] \in Nat
        BY DEF Typed
      <4>5. new.id = serial.id
        OBVIOUS
      <4>6. \A k \in tokens' : k.id < serial'.id
        BY <3>1, <4>1, <4>2, <4>3, <4>5
      <4>7. \A j, k \in tokens' : j.id = k.id => j = k
        <5>1. \A k \in tokens : k.id # new.id
          BY <3>1, <4>3, <4>5
        <5>2. \A j, k \in tokens : j.id = k.id => j = k
          BY DEF TokensNew
        <5> HIDE DEF new
        <5> QED
          BY <4>2, <5>1, <5>2
      <4>8. \A x \in used'.tokens : x[1] < serial'.id /\ \A k \in tokens' : x[1] # k.id
        BY <3>1, <4>1, <4>2, <4>4, <4>5 DEF TokensNew
      <4> QED
        BY <3>1, <4>6, <4>7, <4>8 DEF TokensNew
    <3> QED
      BY <2>1, <3>2, <3>3 DEF CreateToken
  <2>2. CASE ConsumeToken(t) /\ Valid(proc[t].token)
    <3> DEFINE id == proc[t].token
               new == <<proc[t].token, proc[t].n>>
    <3>1. /\ tokens' = {k \in tokens : k.id # id}
          /\ used' = [used EXCEPT !.tokens = @ \cup {new}]
          /\ serial' = serial
      BY <2>2 DEF ConsumeToken
    <3>2. used'.tokens = used.tokens \cup {new}
      BY <3>1 DEF Typed
    <3>3. PICK k \in tokens : k.id = id
      BY <2>2 DEF Valid
    <3>4. \A x \in used.tokens : x[1] # id
      BY <3>3 DEF TokensNew
    <3>5. id < serial.id
      BY <3>3 DEF TokensNew
    <3> QED
      BY <3>1, <3>2, <3>4, <3>5 DEF TokensNew
  <2>3. CASE ConsumeToken(t) /\ ~Valid(proc[t].token)
    BY <2>3, TokensFewer DEF ConsumeToken, DropUnusable
  <2>4. CASE ConsumeCode(t) \/ ConsumeRecoveryCode(t)
    <3>1. used'.tokens = used.tokens /\ serial' = serial
      BY <2>4 DEF ConsumeCode, ConsumeRecoveryCode, Typed
    <3>2. tokens' = tokens \/ (RecordFailure(proc[t].token) /\ used' = used)
      BY <2>4 DEF ConsumeCode, ConsumeRecoveryCode, Refused
    <3>3. CASE tokens' = tokens
      BY <3>1, <3>3, TokensFewer
    <3>4. CASE RecordFailure(proc[t].token) /\ used' = used
      BY <3>1, <3>4, FailureTyped, TokensKept
    <3> QED
      BY <3>2, <3>3, <3>4
  <2>5. CASE \/ CreateAdmin(t) \/ ComparePassword(t) \/ ReadAdmin(t) \/ CountSessions(t)
             \/ DeleteOldestSession(t) \/ DestroyAllSessions(t)
    <3>1. UNCHANGED <<serial, used, tokens>>
      BY <2>5 DEF CreateAdmin, ComparePassword, ReadAdmin, CountSessions, DeleteOldestSession, DestroyAllSessions
    <3> QED
      BY <3>1, TokensFewer
  <2>6. CASE UpdatePassword(t) \/ StoreSecret(t) \/ Disabled(t) \/ Regenerated(t)
    BY <2>6, TokensFewer DEF UpdatePassword, StoreSecret, Disabled, Regenerated, Typed
  <2>7. CASE InsertSession(t)
    BY <2>7 DEF InsertSession, Typed, Token, TokensNew
  <2> QED
    BY <1>2, <2>1, <2>2, <2>3, <2>4, <2>5, <2>6, <2>7 DEF Handler
<1>3. CASE (\E id \in LoggedIn : Logout(id)) \/ CleanupTokens \/ CleanupSessions \/ Crash \/ UNCHANGED vars
  BY <1>3, TokensFewer DEF Logout, CleanupTokens, CleanupSessions, Crash, vars
<1>4. CASE TimePasses
  <2>1. UNCHANGED <<serial, used>>
    BY <1>4 DEF TimePasses
  <2>2. CASE tokens' = tokens
    BY <2>1, <2>2, TokensFewer
  <2>3. ASSUME NEW k \in tokens, tokens' = (tokens \ {k}) \cup {[k EXCEPT !.old = TRUE]}
        PROVE  TokensNew'
    BY <2>3, <2>1, TokensKept DEF Typed, Token, TokensNew
  <2> QED
    BY <1>4, <2>2, <2>3 DEF TimePasses, Expire
<1> QED
  BY <1>1, <1>2, <1>3, <1>4 DEF Next

(* Codes that go leave CodesNew alone.                                     *)
LEMMA CodesFewer ==
  ASSUME CodesNew, serial'.codes = serial.codes, used'.codes = used.codes,
         admin' # Null => admin # Null /\ admin'.codes \subseteq admin.codes
  PROVE  CodesNew'
  BY DEF CodesNew

(* A set of codes of a number that is new.                                 *)
LEMMA CodesRenewed ==
  ASSUME Typed, CodesNew, used' = used, serial'.codes = serial.codes + 1, admin'.codes = NewCodes
  PROVE  CodesNew'
BY DEF Typed, Code, CodesNew, NewCodes

LEMMA CodesStep ==
  ASSUME LInv, [Next]_vars
  PROVE  CodesNew'
<1> USE DEF LInv
<1>1. ASSUME NEW t \in Threads, Handler(t)
      PROVE  CodesNew'
  <2>1. CASE CreateAdmin(t)
    <3>1. UNCHANGED <<serial, used>>
      BY <2>1 DEF CreateAdmin
    <3>2. CASE admin # Null
      BY <2>1, <3>1, <3>2, CodesFewer DEF CreateAdmin
    <3>3. CASE admin = Null
      BY <2>1, <3>3, <3>1 DEF CreateAdmin, CodesNew
    <3> QED
      BY <3>2, <3>3
  <2>2. CASE ConsumeRecoveryCode(t)
    <3>1. serial' = serial /\ proc[t] # Null /\ proc[t].op = "recover"
      BY <2>2 DEF ConsumeRecoveryCode, At
    <3>2. admin # Null /\ admin \in Admin
      BY <3>1 DEF Present, Typed
    <3>3. CASE UNCHANGED <<admin, used>>
      BY <3>1, <3>3, CodesFewer
    <3>4. CASE /\ proc[t].code \in proc[t].row.codes /\ AsRead(t)
               /\ admin' = [admin EXCEPT !.codes = proc[t].row.codes \ {proc[t].code}]
               /\ used' = [used EXCEPT !.codes = @ \cup {<<proc[t].code, proc[t].n>>}]
      <4> DEFINE code == proc[t].code
      <4>1. code \in admin.codes /\ admin'.codes = admin.codes \ {code}
        BY <3>2, <3>4 DEF AsRead, Admin
      <4>2. used'.codes = used.codes \cup {<<code, proc[t].n>>}
        BY <3>4 DEF Typed
      <4>3. code[1] < serial.codes /\ \A x \in used.codes : x[1] # code
        BY <3>2, <4>1 DEF CodesNew
      <4> HIDE DEF code
      <4> QED
        BY <3>1, <3>2, <4>1, <4>2, <4>3 DEF CodesNew
    <3> QED
      BY <2>2, <3>3, <3>4 DEF ConsumeRecoveryCode
  <2>3. CASE ConsumeCode(t)
    BY <2>3, CodesFewer DEF ConsumeCode, At, Present, Typed, Admin
  <2>4. CASE UpdatePassword(t)
    BY <2>4, CodesFewer DEF UpdatePassword, At, Typed, Present, Admin
  <2>5. CASE StoreSecret(t) \/ Regenerated(t)
    <3>1. used' = used /\ proc[t] # Null /\ proc[t].op # "setup"
      BY <2>5 DEF StoreSecret, Regenerated, At
    <3>2. admin # Null /\ admin \in Admin
      BY <3>1 DEF Present, Typed
    <3>3. admin'.codes = NewCodes
      BY <2>5, <3>2 DEF StoreSecret, Regenerated, Admin
    <3>4. serial'.codes = serial.codes + 1
      BY <2>5 DEF StoreSecret, Regenerated, Typed
    <3> QED
      BY <3>1, <3>3, <3>4, CodesRenewed
  <2>6. CASE Disabled(t)
    BY <2>6, CodesFewer DEF Disabled, At, Present, Typed, Admin
  <2>7. CASE ConsumeToken(t)
    BY <2>7, CodesFewer DEF ConsumeToken, Typed
  <2>8. CASE CreateToken(t) \/ InsertSession(t)
    BY <2>8, CodesFewer DEF CreateToken, InsertSession, Typed
  <2>9. CASE \/ ComparePassword(t) \/ ReadAdmin(t) \/ CountSessions(t)
             \/ DeleteOldestSession(t) \/ DestroyAllSessions(t)
    BY <2>9, CodesFewer DEF ComparePassword, ReadAdmin, CountSessions, DeleteOldestSession,
       DestroyAllSessions
  <2> QED
    BY <1>1, <2>1, <2>2, <2>3, <2>4, <2>5, <2>6, <2>7, <2>8, <2>9 DEF Handler
<1>2. CASE ~\E t \in Threads : Handler(t)
  <2>1. UNCHANGED <<admin, serial, used>>
    BY <1>2 DEF Next, Request, Setup, Login, ChangePassword, Enable, Disable, RegenerateRecoveryCodes, Login2FA,
                Logout, TimePasses, CleanupTokens, CleanupSessions, Crash, vars
  <2> QED
    BY <2>1, CodesFewer
<1> QED
  BY <1>1, <1>2

-----------------------------------------------------------------------------
(* The count of tokens.                                                    *)

LEMMA CountGone ==
  ASSUME Typed, CountsAgree, NEW gone, gone \subseteq tokens
  PROVE  CountWithout(gone) = Cardinality(tokens \ gone)
<1>1. IsFiniteSet(tokens) /\ IsFiniteSet(gone) /\ counts = Cardinality(tokens)
  BY SubsetFinite DEF Typed, CountsAgree
<1>2. Cardinality(tokens) \in Nat /\ Cardinality(gone) \in Nat
  BY <1>1, FS_CardinalityType
<1>3. tokens \cap gone = gone
  OBVIOUS
<1>4. Cardinality(tokens \ gone) = Cardinality(tokens) - Cardinality(gone)
  BY <1>1, <1>3, FS_Difference
<1>5. Cardinality(gone) <= Cardinality(tokens)
  BY <1>1, FS_Subset
<1> QED
  BY <1>1, <1>2, <1>4, <1>5 DEF CountWithout

LEMMA CountsStep ==
  ASSUME LInv, [Next]_vars
  PROVE  CountsAgree'
<1> USE DEF LInv
<1>1. CASE UNCHANGED <<tokens, counts>>
  BY <1>1 DEF CountsAgree
<1>2. ASSUME NEW gone, gone \subseteq tokens, tokens' = tokens \ gone, counts' = CountWithout(gone)
      PROVE  CountsAgree'
  BY <1>2, CountGone DEF CountsAgree
<1>3. ASSUME NEW t \in Threads, Request(t)
      PROVE  CountsAgree'
  <2>1. ASSUME NEW id, DropUnusable(id)
        PROVE  CountsAgree'
    <3> DEFINE gone == {k \in tokens : k.id = id /\ ~Usable(k)}
    <3>1. gone \subseteq tokens /\ tokens' = tokens \ gone /\ counts' = CountWithout(gone)
      BY <2>1 DEF DropUnusable
    <3> QED
      BY <1>2, <3>1
  <2> QED
    BY <1>1, <1>3, <2>1
      DEF Request, Setup, Login, ChangePassword, Enable, Disable, RegenerateRecoveryCodes, Login2FA
<1>4. ASSUME NEW t \in Threads, CreateToken(t)
      PROVE  CountsAgree'
  <2> DEFINE new == [id |-> serial.id, attempts |-> 0, old |-> FALSE]
  <2>1. Purge = Cardinality(tokens \ Expired)
    BY CountGone DEF Purge, Expired
  <2>2. CASE tokens' = tokens \ Expired /\ counts' = Purge
    BY <2>1, <2>2 DEF CountsAgree
  <2>3. CASE tokens' = (tokens \ Expired) \cup {new} /\ counts' = Purge + 1
    <3>1. IsFiniteSet(tokens \ Expired)
      BY SubsetFinite DEF Typed
    <3>2. \A k \in tokens : k.id < serial.id
      BY DEF TokensNew
    <3>3. new.id = serial.id /\ serial.id \in Nat
      BY DEF Typed
    <3>4. new \notin tokens \ Expired
      BY <3>2, <3>3
    <3>5. Cardinality((tokens \ Expired) \cup {new}) = Cardinality(tokens \ Expired) + 1
      BY <3>1, <3>4, FS_AddElement
    <3> QED
      BY <2>1, <2>3, <3>5 DEF CountsAgree
  <2> QED
    BY <1>4, <2>2, <2>3 DEF CreateToken
<1>5. ASSUME NEW t \in Threads, ConsumeToken(t)
      PROVE  CountsAgree'
  <2>1. CASE Valid(proc[t].token)
    <3> DEFINE gone == {k \in tokens : k.id = proc[t].token}
    <3>1. tokens' = {k \in tokens : k.id # proc[t].token} /\ counts' = CountWithout(gone)
      BY <1>5, <2>1 DEF ConsumeToken
    <3>2. tokens' = tokens \ gone /\ gone \subseteq tokens
      BY <3>1
    <3> QED
      BY <1>2, <3>1, <3>2
  <2>2. CASE ~Valid(proc[t].token)
    <3> DEFINE gone == {k \in tokens : k.id = proc[t].token /\ ~Usable(k)}
    <3>1. gone \subseteq tokens /\ tokens' = tokens \ gone /\ counts' = CountWithout(gone)
      BY <1>5, <2>2 DEF ConsumeToken, DropUnusable
    <3> QED
      BY <1>2, <3>1
  <2> QED
    BY <2>1, <2>2
<1>6. ASSUME NEW t \in Threads, Handler(t)
      PROVE  CountsAgree'
  <2>1. CASE ConsumeCode(t) \/ ConsumeRecoveryCode(t)
    BY <2>1, <1>1, FailureTyped DEF ConsumeCode, ConsumeRecoveryCode, Refused, CountsAgree
  <2>2. CASE ~(CreateToken(t) \/ ConsumeToken(t) \/ ConsumeCode(t) \/ ConsumeRecoveryCode(t))
    <3>1. UNCHANGED <<tokens, counts>>
      BY <1>6, <2>2 DEF Handler, CreateAdmin, ComparePassword, ReadAdmin, CountSessions, DeleteOldestSession,
           InsertSession, UpdatePassword, DestroyAllSessions, StoreSecret, Disabled, Regenerated
    <3> QED
      BY <1>1, <3>1
  <2> QED
    BY <1>4, <1>5, <2>1, <2>2
<1>7. CASE (\E id \in LoggedIn : Logout(id)) \/ CleanupSessions \/ UNCHANGED vars
  BY <1>1, <1>7 DEF Logout, CleanupSessions, vars
<1>8. CASE CleanupTokens
  BY <1>2, <1>8 DEF CleanupTokens, Purge, Expired
<1>9. CASE Crash
  BY <1>9, FS_EmptySet DEF Crash, CountsAgree
<1>10. CASE TimePasses
  <2>1. counts' = counts
    BY <1>10 DEF TimePasses
  <2>2. ASSUME NEW k \in tokens, tokens' = (tokens \ {k}) \cup {[k EXCEPT !.old = TRUE]}
        PROVE  CountsAgree'
    <3> DEFINE older == [k EXCEPT !.old = TRUE]
    <3>1. older.id = k.id
      BY DEF Typed, Token
    <3>2. older \notin tokens \ {k}
      BY <3>1 DEF TokensNew
    <3>3. IsFiniteSet(tokens \ {k}) /\ Cardinality(tokens \ {k}) = Cardinality(tokens) - 1
      BY FS_RemoveElement DEF Typed
    <3>4. Cardinality(tokens') = Cardinality(tokens \ {k}) + 1
      BY <2>2, <3>2, <3>3, FS_AddElement
    <3>5. Cardinality(tokens) \in Nat
      BY FS_CardinalityType DEF Typed
    <3> QED
      BY <2>1, <3>3, <3>4, <3>5 DEF CountsAgree
  <2> QED
    BY <1>1, <1>10, <2>1, <2>2 DEF TimePasses, Expire
<1> QED
  BY <1>3, <1>6, <1>7, <1>8, <1>9, <1>10 DEF Next

-----------------------------------------------------------------------------
(* The sessions there are, and those about to be.                          *)

LEMMA PlacesFinite ==
  ASSUME Typed
  PROVE  /\ IsFiniteSet(Live) /\ Cardinality(Live) \in Nat
         /\ IsFiniteSet(Inserting) /\ Cardinality(Inserting) \in Nat
         /\ IsFiniteSet(Threads) /\ Cardinality(Threads) \in Nat
         /\ Cardinality(Inserting) <= Cardinality(Threads)
<1>1. Live \subseteq sessions /\ Inserting \subseteq Threads
  BY DEF Live, Inserting
<1>2. IsFiniteSet(Live) /\ IsFiniteSet(Threads) /\ IsFiniteSet(Inserting)
  BY <1>1, SubsetFinite, LoginAssumption DEF Typed
<1> QED
  BY <1>1, <1>2, FS_CardinalityType, FS_Subset

LEMMA CapKept ==
  ASSUME Typed, Typed', Capped, Live' \subseteq Live, Inserting' \subseteq Inserting
  PROVE  Capped'
<1>1. Cardinality(Live') <= Cardinality(Live) /\ Cardinality(Inserting') <= Cardinality(Inserting)
  BY PlacesFinite, FS_Subset
<1>2. IsFiniteSet(Live') /\ IsFiniteSet(Inserting')
  BY PlacesFinite, SubsetFinite
<1>3. Cardinality(Live') \in Nat /\ Cardinality(Inserting') \in Nat
  BY <1>2, FS_CardinalityType
<1> QED
  BY <1>1, <1>3, PlacesFinite, LoginAssumption DEF Capped

(* Only the count lets a request insert, and only there is a place held.   *)
LEMMA GoingElsewhere ==
  ASSUME Processes, NEW t \in Threads, proc[t] # Null,
         Ends(t) \/ \E pc \in Pcs \ {"insert"} : Goes(t, pc)
  PROVE  Inserting' \subseteq Inserting \ {t}
BY Ending, Going DEF Inserting

LEMMA CapStep ==
  ASSUME LInv, Typed', [Next]_vars
  PROVE  Capped'
<1> USE DEF LInv
<1>1. ASSUME sessions' \subseteq sessions, Inserting' \subseteq Inserting
      PROVE  Capped'
  BY <1>1, CapKept DEF Live
<1>2. ASSUME NEW t \in Threads, Request(t)
      PROVE  Capped'
  <2>1. sessions' = sessions
    BY <1>2 DEF Request, Setup, Login, ChangePassword, Enable, Disable, RegenerateRecoveryCodes, Login2FA
  <2>2. Inserting' \subseteq Inserting
    <3>1. proc' = proc \/ \E r : r.pc # "insert" /\ proc' = [proc EXCEPT ![t] = r]
      <4>1. ASSUME NEW r, Begins(t, r), NEW pc, r.pc = pc, pc # "insert", [r EXCEPT !.n = spent.ops].pc = pc
            PROVE  \E q : q.pc # "insert" /\ proc' = [proc EXCEPT ![t] = q]
        BY <4>1 DEF Begins
      <4> QED
        BY <1>2, <4>1 DEF Request, Setup, Login, ChangePassword, Enable, Disable, RegenerateRecoveryCodes,
                          Login2FA, Idle, Begins
    <3> QED
      BY <3>1 DEF Inserting, Typed, Processes
  <2> QED
    BY <1>1, <2>1, <2>2
<1>3. ASSUME NEW t \in Threads, CountSessions(t)
      PROVE  Capped'
  <2>1. CASE Room
    <3>1. Live' = Live
      BY <1>3 DEF CountSessions, Live
    <3>2. Cardinality(Inserting') <= Cardinality(Threads) /\ Cardinality(Inserting') \in Nat
      <4>1. Inserting' \subseteq Threads /\ IsFiniteSet(Inserting')
        BY SubsetFinite, LoginAssumption DEF Inserting
      <4> QED
        BY <4>1, FS_Subset, FS_CardinalityType, LoginAssumption
    <3> QED
      BY <2>1, <3>1, <3>2, PlacesFinite, LoginAssumption DEF Room, Capped
  <2>2. CASE ~Room
    <3>1. Goes(t, "evict") /\ "evict" \in Pcs \ {"insert"} /\ sessions' = sessions /\ proc[t] # Null
      BY <1>3, <2>2 DEF CountSessions, At, Pcs
    <3>2. Inserting' \subseteq Inserting
      BY <3>1, GoingElsewhere DEF Typed
    <3> QED
      BY <1>1, <3>1, <3>2
  <2> QED
    BY <2>1, <2>2
<1>4. ASSUME NEW t \in Threads, InsertSession(t)
      PROVE  Capped'
  <2> DEFINE new == [id |-> serial.id, under |-> admin.pw, live |-> TRUE]
  <2>1. Ends(t) /\ proc[t] # Null /\ t \in Inserting /\ sessions' = sessions \cup {new}
    BY <1>4 DEF InsertSession, At, Inserting
  <2>2. Inserting' \subseteq Inserting \ {t}
    BY <2>1, GoingElsewhere DEF Typed
  <2>3. Live' \subseteq Live \cup {new}
    BY <2>1 DEF Live
  <2>4. IsFiniteSet(Inserting \ {t}) /\ Cardinality(Inserting \ {t}) = Cardinality(Inserting) - 1
    BY <2>1, PlacesFinite, FS_RemoveElement
  <2>5. IsFiniteSet(Live \cup {new}) /\ Cardinality(Live \cup {new}) <= Cardinality(Live) + 1
    <3>1. IsFiniteSet(Live) /\ Cardinality(Live) \in Nat
      BY PlacesFinite
    <3>2. /\ IsFiniteSet(Live \cup {new})
          /\ Cardinality(Live \cup {new}) = IF new \in Live THEN Cardinality(Live) ELSE Cardinality(Live) + 1
      BY <3>1, FS_AddElement
    <3> QED
      BY <3>1, <3>2
  <2>6. /\ IsFiniteSet(Live') /\ Cardinality(Live') <= Cardinality(Live \cup {new})
        /\ IsFiniteSet(Inserting') /\ Cardinality(Inserting') <= Cardinality(Inserting \ {t})
    BY <2>2, <2>3, <2>4, <2>5, FS_Subset
  <2>7. /\ Cardinality(Live') \in Nat /\ Cardinality(Inserting') \in Nat
        /\ Cardinality(Live \cup {new}) \in Nat
    BY <2>5, <2>6, FS_CardinalityType
  <2> QED
    BY <2>4, <2>5, <2>6, <2>7, PlacesFinite, LoginAssumption DEF Capped
<1>5. ASSUME NEW t \in Threads, Handler(t)
      PROVE  Capped'
  <2>1. CASE ReadAdmin(t)
    <3>1. sessions' = sessions /\ proc' = [proc EXCEPT ![t].row = admin, ![t].pc = "consume"]
      BY <2>1 DEF ReadAdmin
    <3>2. Inserting' \subseteq Inserting
      <4>1. proc[t] # Null /\ proc[t] \in Process
        BY <2>1 DEF ReadAdmin, At, Typed, Processes
      <4>2. proc'[t].pc = "consume" /\ \A u \in Threads \ {t} : proc'[u] = proc[u]
        BY <3>1, <4>1 DEF Typed, Processes, Process
      <4> QED
        BY <4>2 DEF Inserting
    <3> QED
      BY <1>1, <3>1, <3>2
  <2>2. CASE ~(ReadAdmin(t) \/ CountSessions(t) \/ InsertSession(t))
    <3>1. proc[t] # Null /\ sessions' \subseteq sessions
      BY <1>5, <2>2 DEF Handler, CreateAdmin, ComparePassword, CreateToken, ConsumeCode, ConsumeRecoveryCode,
           ConsumeToken, DeleteOldestSession, UpdatePassword, DestroyAllSessions, Kept, StoreSecret, Disabled,
           Regenerated, At
    <3>2. Ends(t) \/ \E pc \in {"count", "token", "consumed", "close"} : Goes(t, pc)
      BY <1>5, <2>2 DEF Handler, CreateAdmin, ComparePassword, CreateToken, ConsumeCode, ConsumeRecoveryCode,
           ConsumeToken, DeleteOldestSession, UpdatePassword, DestroyAllSessions, StoreSecret, Disabled,
           Regenerated, Refused
    <3>3. Ends(t) \/ \E pc \in Pcs \ {"insert"} : Goes(t, pc)
      BY <3>2 DEF Pcs
    <3>4. Inserting' \subseteq Inserting
      BY <3>1, <3>3, GoingElsewhere DEF Typed
    <3> QED
      BY <1>1, <3>1, <3>4
  <2> QED
    BY <1>3, <1>4, <2>1, <2>2
<1>6. CASE (\E id \in LoggedIn : Logout(id)) \/ CleanupTokens \/ CleanupSessions \/ Crash \/ UNCHANGED vars
  <2>1. sessions' \subseteq sessions
    BY <1>6 DEF Logout, CleanupTokens, CleanupSessions, Crash, Live, vars
  <2>2. proc' = proc \/ proc' = [t \in Threads |-> Null]
    BY <1>6 DEF Logout, CleanupTokens, CleanupSessions, Crash, vars
  <2>3. Inserting' \subseteq Inserting
    BY <2>2 DEF Inserting
  <2> QED
    BY <1>1, <2>1, <2>3
<1>7. CASE TimePasses
  <2>1. Inserting' = Inserting
    BY <1>7 DEF TimePasses, Inserting
  <2>2. Live' \subseteq Live
    <3>1. CASE sessions' = sessions
      BY <3>1 DEF Live
    <3>2. ASSUME NEW s \in Live, sessions' = (sessions \ {s}) \cup {[s EXCEPT !.live = FALSE]}
          PROVE  Live' \subseteq Live
      BY <3>2 DEF Live, Typed, Session
    <3> QED
      BY <1>7, <3>1, <3>2 DEF TimePasses, Expire
  <2> QED
    BY <2>1, <2>2, CapKept
<1> QED
  BY <1>2, <1>5, <1>6, <1>7 DEF Next

-----------------------------------------------------------------------------
(* Sessions from before a password.                                        *)

(* Requests that change the password go on to close the sessions.          *)
LEMMA ClosingGoesOn ==
  ASSUME Processes, NEW t \in Threads, ~At(t, {"password"}, "close"),
         \A u \in Threads \ {t} : proc'[u] = proc[u]
  PROVE  \A u \in Threads : At(u, {"password"}, "close") => At(u, {"password"}, "close")'
  BY DEF At

LEMMA ClosedKept ==
  ASSUME NoSessionFromBefore, spent.failed => spent'.failed,
         \A t \in Threads : At(t, {"password"}, "close") => At(t, {"password"}, "close")',
         sessions' = {} \/ admin'.pw = admin.pw,
         \A s \in sessions' : s.under = admin.pw \/ \E r \in sessions : s.under = r.under
  PROVE  NoSessionFromBefore'
  BY DEF NoSessionFromBefore

LEMMA ClosedStep ==
  ASSUME LInv, [Next]_vars
  PROVE  NoSessionFromBefore'
<1> USE DEF LInv
<1>1. ASSUME NEW t \in Threads, Request(t)
      PROVE  NoSessionFromBefore'
  <2>1. sessions' = sessions /\ admin' = admin
    BY <1>1 DEF Request, Setup, Login, ChangePassword, Enable, Disable, RegenerateRecoveryCodes, Login2FA
  <2>2. \/ UNCHANGED <<proc, spent>>
        \/ proc[t] = Null /\ (\E r : proc' = [proc EXCEPT ![t] = r]) /\ spent' = [spent EXCEPT !.ops = @ + 1]
    BY <1>1 DEF Request, Setup, Login, ChangePassword, Enable, Disable, RegenerateRecoveryCodes, Login2FA, Begins
  <2>3. spent.failed => spent'.failed
    BY <2>2 DEF Typed
  <2>4. \A u \in Threads : At(u, {"password"}, "close") => At(u, {"password"}, "close")'
    BY <2>2 DEF At, Typed, Processes
  <2> QED
    BY <2>1, <2>3, <2>4, ClosedKept
<1>2. ASSUME NEW t \in Threads, Handler(t)
      PROVE  NoSessionFromBefore'
  <2>1. CASE UpdatePassword(t)
    <3>1. proc[t] # Null /\ proc[t].op = "password" /\ Goes(t, "close") /\ "close" \in Pcs
      BY <2>1 DEF UpdatePassword, At, Pcs
    <3>2. proc'[t] = [proc[t] EXCEPT !.pc = "close"] /\ proc[t] \in Process
      BY <3>1 DEF Goes, Typed, Processes
    <3>3. proc'[t].op = "password" /\ proc'[t].pc = "close" /\ proc'[t] \in Process
      BY <3>1, <3>2 DEF Process
    <3>4. proc'[t] # Null
      BY <3>3, NullAssumption
    <3> QED
      BY <3>3, <3>4 DEF NoSessionFromBefore, At
  <2>2. CASE DestroyAllSessions(t)
    BY <2>2 DEF DestroyAllSessions, Kept, NoSessionFromBefore, Typed
  <2>3. CASE ~(UpdatePassword(t) \/ DestroyAllSessions(t))
    <3>1. ~At(t, {"password"}, "close") /\ spent' = spent
      BY <1>2, <2>3 DEF Handler, At, CreateAdmin, ComparePassword, CreateToken, ReadAdmin, ConsumeCode,
           ConsumeRecoveryCode, ConsumeToken, CountSessions, DeleteOldestSession, InsertSession, StoreSecret,
           Disabled, Regenerated
    <3>2. \A u \in Threads \ {t} : proc'[u] = proc[u]
      <4>1. \/ Ends(t) \/ \E pc \in Pcs : Goes(t, pc)
            \/ proc' = [proc EXCEPT ![t].row = admin, ![t].pc = "consume"]
        BY <1>2, <2>3 DEF Handler, CreateAdmin, ComparePassword, CreateToken, ReadAdmin, ConsumeCode,
             ConsumeRecoveryCode, ConsumeToken, CountSessions, DeleteOldestSession, InsertSession, StoreSecret,
             Disabled, Regenerated, Refused, Pcs
      <4> QED
        BY <4>1 DEF Ends, Goes, Typed, Processes
    <3>3. \A u \in Threads : At(u, {"password"}, "close") => At(u, {"password"}, "close")'
      BY <3>1, <3>2, ClosingGoesOn DEF Typed
    <3>4. sessions' = {} \/ admin'.pw = admin.pw
      <4>1. CASE CreateAdmin(t)
        BY <4>1 DEF CreateAdmin, Present
      <4>2. CASE \/ ConsumeCode(t) \/ ConsumeRecoveryCode(t) \/ StoreSecret(t) \/ Disabled(t) \/ Regenerated(t)
        <5>1. proc[t] # Null /\ proc[t].op # "setup"
          BY <4>2 DEF At, ConsumeCode, ConsumeRecoveryCode, StoreSecret, Disabled, Regenerated
        <5>2. admin \in Admin
          BY <5>1 DEF Present, Typed
        <5> QED
          BY <4>2, <5>2 DEF ConsumeCode, ConsumeRecoveryCode, StoreSecret, Disabled, Regenerated, Admin
      <4>3. CASE \/ ComparePassword(t) \/ CreateToken(t) \/ ReadAdmin(t) \/ ConsumeToken(t) \/ CountSessions(t)
                 \/ DeleteOldestSession(t) \/ InsertSession(t)
        BY <4>3 DEF ComparePassword, CreateToken, ReadAdmin, ConsumeToken, CountSessions, DeleteOldestSession,
             InsertSession
      <4> QED
        BY <1>2, <2>3, <4>1, <4>2, <4>3 DEF Handler
    <3>5. \A s \in sessions' : s.under = admin.pw \/ \E r \in sessions : s.under = r.under
      BY <1>2, <2>3 DEF Handler, CreateAdmin, ComparePassword, CreateToken, ReadAdmin, ConsumeCode,
           ConsumeRecoveryCode, ConsumeToken, CountSessions, DeleteOldestSession, InsertSession, StoreSecret,
           Disabled, Regenerated
    <3> QED
      BY <3>1, <3>3, <3>4, <3>5, ClosedKept
  <2> QED
    BY <2>1, <2>2, <2>3
<1>3. CASE (\E id \in LoggedIn : Logout(id)) \/ CleanupTokens \/ CleanupSessions \/ UNCHANGED vars
  <2>1. sessions' \subseteq sessions /\ UNCHANGED <<admin, proc, spent>>
    BY <1>3 DEF Logout, CleanupTokens, CleanupSessions, Live, vars
  <2> QED
    BY <2>1 DEF NoSessionFromBefore, At
<1>4. CASE Crash
  BY <1>4 DEF Crash, NoSessionFromBefore, Typed
<1>5. CASE TimePasses
  <2>1. UNCHANGED <<admin, proc, spent>>
    BY <1>5 DEF TimePasses
  <2>2. \A s \in sessions' : \E r \in sessions : s.under = r.under
    <3>1. ASSUME NEW s \in Live, sessions' = (sessions \ {s}) \cup {[s EXCEPT !.live = FALSE]}
          PROVE  \A j \in sessions' : \E r \in sessions : j.under = r.under
      BY <3>1 DEF Live, Typed, Session
    <3> QED
      BY <1>5, <3>1 DEF TimePasses, Expire
  <2> QED
    BY <2>1, <2>2 DEF NoSessionFromBefore, At
<1> QED
  BY <1>1, <1>2, <1>3, <1>4, <1>5 DEF Next

-----------------------------------------------------------------------------
(* The invariant.                                                          *)

LEMMA LInvInit ==
  ASSUME Init
  PROVE  LInv
<1>1. Typed
  BY FS_EmptySet DEF Init, Typed, Processes
<1>2. Present /\ TokensNew /\ CodesNew
  BY DEF Init, Present, TokensNew, CodesNew
<1>3. CountsAgree
  BY FS_EmptySet DEF Init, CountsAgree
<1>4. Capped
  <2>1. Live = {} /\ Inserting = {}
    BY DEF Init, Live, Inserting
  <2>2. Cardinality({}) = 0
    BY FS_EmptySet
  <2>3. Cardinality(Threads) \in Nat
    BY FS_CardinalityType, LoginAssumption
  <2> QED
    BY <2>1, <2>2, <2>3, LoginAssumption DEF Capped
<1>5. NoSessionFromBefore
  BY DEF Init, NoSessionFromBefore
<1> QED
  BY <1>1, <1>2, <1>3, <1>4, <1>5 DEF LInv

LEMMA LInvStep ==
  ASSUME LInv, [Next]_vars
  PROVE  LInv'
<1>1. Typed' /\ Present'
  BY TypedStep DEF LInv
<1>2. TokensNew' /\ CodesNew' /\ CountsAgree' /\ NoSessionFromBefore'
  BY TokensStep, CodesStep, CountsStep, ClosedStep
<1>3. Capped'
  BY <1>1, CapStep
<1> QED
  BY <1>1, <1>2, <1>3 DEF LInv

(* The inductive invariant holds in every reachable state of the login     *)
(* handlers, the session table and the token store.                        *)
THEOREM LoginInvariant == Spec => []LInv
<1>1. Init => LInv
  BY LInvInit
<1>2. LInv /\ [Next]_vars => LInv'
  BY LInvStep
<1> QED
  BY <1>1, <1>2, PTL DEF Spec

(* The administrator's row, sessions, tokens and requests keep their types,*)
(* and a token is gone with its last attempt, for any number of requests.  *)
THEOREM LoginTypeCorrect == Spec => []TypeOK
<1>1. LInv => TypeOK
  BY DEF LInv, Typed, Processes, TokensNew, TypeOK
<1> QED
  BY <1>1, LoginInvariant, PTL

(* A recovery code and a temporary token let in one request each, however  *)
(* many requests race for them and however often the codes are made anew.  *)
THEOREM CodesCountOnce == Spec => []UsedOnce
<1>1. LInv => UsedOnce
  BY DEF LInv, TokensNew, CodesNew, UsedOnce
<1> QED
  BY <1>1, LoginInvariant, PTL

(* The count of an account's tokens is the number of its tokens: expiry,   *)
(* failures, purges and use never leave one behind that is not there.      *)
THEOREM TokensAreCounted == Spec => []CountsAgree
<1>1. LInv => CountsAgree
  BY DEF LInv
<1> QED
  BY <1>1, LoginInvariant, PTL

(* Sessions exceed max_sessions by fewer than the requests side by side,   *)
(* although they are counted, evicted and inserted in statements apart.    *)
THEOREM SessionsAreCapped == Spec => []SessionCap
<1>1. LInv => SessionCap
  BY PlacesFinite, LoginAssumption DEF LInv, Capped, SessionCap
<1> QED
  BY <1>1, LoginInvariant, PTL

(* A password change that was answered has closed every session opened     *)
(* before the new password was stored.                                     *)
THEOREM OldSessionsAreClosed == Spec => []NoSessionFromBefore
<1>1. LInv => NoSessionFromBefore
  BY DEF LInv
<1> QED
  BY <1>1, LoginInvariant, PTL
=============================================================================
