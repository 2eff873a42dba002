--------------------------------- MODULE Login ---------------------------------
(***************************************************************************)
(* Logging in: internal/auth, internal/twofa and the handlers of           *)
(* api/auth_handler.go and api/twofa_handler.go, for the one administrator *)
(* (admin_account) with several browsers.  Requests run side by side; each *)
(* statement of the database and each section under the token store's      *)
(* mutex is a step.                                                        *)
(*                                                                         *)
(* Passwords, secrets and sets of recovery codes are numbered in the order *)
(* they come into use.  All requests come from one address and browser     *)
(* kind, so sessions and tokens never mismatch; the failure budgets and    *)
(* the captcha are left out.                                               *)
(***************************************************************************)
EXTENDS Naturals, FiniteSets

CONSTANTS
  Threads,                  \* requests that may run side by side
  Codes,                    \* the recovery codes of a set
  Steps,                    \* one-time passwords that are valid now
  MaxSessions, MaxTokens,   \* max_sessions, the tokens of an account
  MaxAttempts,              \* failures a token survives
  Null,
  MaxOps                    \* bound of the model: requests that begin

ASSUME LoginAssumption ==
  /\ IsFiniteSet(Threads) /\ Threads # {} /\ Null \notin Threads \cup Codes \cup Steps
  /\ MaxSessions \in Nat \ {0} /\ MaxTokens \in Nat \ {0} /\ MaxAttempts \in Nat \ {0}
  /\ MaxOps \in Nat

VARIABLES
  admin,      \* admin_account: its row, or Null
  sessions,   \* sessions: with the password they were opened under
  tokens,     \* TempTokenStore.tokens
  counts,     \* TempTokenStore.accountCounts of the administrator
  proc,       \* what each request is doing, or Null
  serial,     \* numbers given out: sessions and tokens, passwords, secrets, code sets
  used,       \* history: the recovery codes and tokens accepted, each with its request
  spent       \* requests begun, and what failed

vars == <<admin, sessions, tokens, counts, proc, serial, used, spent>>

Session == [id : Nat, under : Nat, live : BOOLEAN]
Token   == [id : Nat, attempts : 0..(MaxAttempts - 1), old : BOOLEAN]
Code    == Nat \X Codes
Admin   == [pw : Nat, secret : Nat, codes : SUBSET Code, last : Steps \cup {Null}]

(* A request that is being handled.                                        *)
Ops == {"", "setup", "login", "totp", "recover", "password", "enable", "disable", "regenerate"}
Pcs == {"", "create", "compare", "token", "read", "consume", "consumed", "count", "evict", "insert",
        "store", "close"}

Process == [op : Ops, pc : Pcs, row : Admin \cup {Null}, pw : Nat, token : Nat,
            code : Steps \cup Code \cup {Null}, mine : Nat, n : Nat]

(* No row and no request are told from a row and a request.                *)
ASSUME NullAssumption == Null \notin Admin /\ Null \notin Process

Live == {s \in sessions : s.live}

-----------------------------------------------------------------------------
At(t, op, pc) == proc[t] # Null /\ proc[t].op \in op /\ proc[t].pc = pc
Goes(t, pc)   == proc' = [proc EXCEPT ![t].pc = pc]
Ends(t)       == proc' = [proc EXCEPT ![t] = Null]

Idle == [op |-> "", pc |-> "", row |-> Null, pw |-> 0, token |-> 0, code |-> Null, mine |-> 0, n |-> 0]

(* A request begins: its fields are those of r.                            *)
Begins(t, r) ==
  /\ proc[t] = Null /\ spent.ops < MaxOps
  /\ spent' = [spent EXCEPT !.ops = @ + 1]
  /\ proc' = [proc EXCEPT ![t] = [r EXCEPT !.n = spent.ops]]

-----------------------------------------------------------------------------
(* The first administrator: looked for, then inserted with id 1, which the *)
(* table holds once.                                                       *)
Setup(t) ==
  /\ admin = Null /\ Begins(t, [Idle EXCEPT !.op = "setup", !.pc = "create"])
  /\ UNCHANGED <<admin, sessions, tokens, counts, serial, used>>

CreateAdmin(t) ==
  /\ At(t, {"setup"}, "create")
  /\ admin' = IF admin # Null THEN admin
              ELSE [pw |-> 1, secret |-> 0, codes |-> {}, last |-> Null]
  /\ Ends(t)
  /\ UNCHANGED <<sessions, tokens, counts, serial, used, spent>>

-----------------------------------------------------------------------------
(* Login: the row is read, the password compared, which takes a while, and *)
(* with a second step to come a temporary token is made.                   *)
Login(t, pw) ==
  /\ admin # Null
  /\ Begins(t, [Idle EXCEPT !.op = "login", !.pc = "compare", !.row = admin, !.pw = pw])
  /\ UNCHANGED <<admin, sessions, tokens, counts, serial, used>>

ComparePassword(t) ==
  /\ At(t, {"login"}, "compare")
  /\ LET row == proc[t].row
     IN IF proc[t].pw # row.pw THEN Ends(t)
        ELSE Goes(t, IF row.secret = 0 THEN "count" ELSE "token")
  /\ UNCHANGED <<admin, sessions, tokens, counts, serial, used, spent>>

(* deleteLocked, of each of gone: the count never goes below zero.         *)
CountWithout(gone) == IF counts <= Cardinality(gone) THEN 0 ELSE counts - Cardinality(gone)

(* purgeExpiredLocked.                                                     *)
Expired == {k \in tokens : k.old}

(* Wrong: purged tokens are still counted.                                 *)
Uncounted == counts

Purge == CountWithout(Expired)

CreateToken(t) ==
  /\ At(t, {"login"}, "token")
  /\ IF Purge >= MaxTokens
     THEN tokens' = tokens \ Expired /\ counts' = Purge /\ UNCHANGED serial
     ELSE /\ serial' = [serial EXCEPT !.id = @ + 1]
          /\ tokens' = (tokens \ Expired) \cup {[id |-> serial.id, attempts |-> 0, old |-> FALSE]}
          /\ counts' = Purge + 1
  /\ Ends(t)
  /\ UNCHANGED <<admin, sessions, used, spent>>

-----------------------------------------------------------------------------
(* The second step, by a one-time password or a recovery code.             *)

Usable(k) == ~k.old /\ k.attempts < MaxAttempts
Valid(id) == \E k \in tokens : k.id = id /\ Usable(k)

(* validateLocked deletes what has expired or is worn out.                 *)
DropUnusable(id) ==
  LET gone == {k \in tokens : k.id = id /\ ~Usable(k)}
  IN tokens' = tokens \ gone /\ counts' = CountWithout(gone)

Login2FA(t, id, code) ==
  /\ admin # Null
  /\ IF Valid(id)
     THEN /\ Begins(t, [Idle EXCEPT !.op = IF code \in Steps THEN "totp" ELSE "recover", !.pc = "read",
                          !.token = id, !.code = code])
          /\ UNCHANGED <<tokens, counts>>
     ELSE DropUnusable(id) /\ UNCHANGED <<proc, spent>>
  /\ UNCHANGED <<admin, sessions, serial, used>>

(* GetAdminInfo, or the codes as ConsumeRecoveryCode reads them.           *)
ReadAdmin(t) ==
  /\ At(t, {"totp", "recover"}, "read")
  /\ proc' = [proc EXCEPT ![t].row = admin, ![t].pc = "consume"]
  /\ UNCHANGED <<admin, sessions, tokens, counts, serial, used, spent>>

(* RecordFailure: the token goes with its last attempt.                    *)
Worn(k) == k.attempts + 1 >= MaxAttempts

RecordFailure(id) ==
  LET failed == {k \in tokens : k.id = id}
      worn   == {k \in failed : Worn(k)}
  IN /\ tokens' = (tokens \ failed) \cup {[k EXCEPT !.attempts = @ + 1] : k \in failed \ worn}
     /\ counts' = CountWithout(worn)

Refused(t) ==
  /\ Ends(t)
  /\ IF proc[t].op \in {"totp", "recover"} THEN RecordFailure(proc[t].token) ELSE UNCHANGED <<tokens, counts>>

(* VerifyAndConsumeCode, of a login or before 2FA is switched off or its   *)
(* codes are made anew: the secret is the one that was read, the last code *)
(* the one that is stored.  A code may also be wrong, or too old by now.   *)
ConsumeCode(t) ==
  /\ At(t, {"totp", "disable", "regenerate"}, "consume")
  /\ \/ /\ proc[t].row.secret # 0 /\ admin.last # proc[t].code
        /\ admin' = [admin EXCEPT !.last = proc[t].code]
        /\ Goes(t, "consumed") /\ UNCHANGED <<tokens, counts>>
     \/ Refused(t) /\ UNCHANGED admin
  /\ UNCHANGED <<sessions, serial, used, spent>>

(* Wrong: the codes are written back whatever they are by now.             *)
Overwritten(t) == TRUE

(* The codes are still the ones that were read.                            *)
AsRead(t) == admin.codes = proc[t].row.codes

ConsumeRecoveryCode(t) ==
  /\ At(t, {"recover"}, "consume")
  /\ \/ /\ proc[t].code \in proc[t].row.codes /\ AsRead(t)
        /\ admin' = [admin EXCEPT !.codes = proc[t].row.codes \ {proc[t].code}]
        /\ used' = [used EXCEPT !.codes = @ \cup {<<proc[t].code, proc[t].n>>}]
        /\ Goes(t, "consumed") /\ UNCHANGED <<tokens, counts>>
     \/ /\ ~(proc[t].code \in proc[t].row.codes /\ AsRead(t))
        /\ Refused(t) /\ UNCHANGED <<admin, used>>
  /\ UNCHANGED <<sessions, serial, spent>>

(* Consume: of the requests with one token the first goes on.              *)
ConsumeToken(t) ==
  /\ At(t, {"totp", "recover"}, "consumed")
  /\ IF Valid(proc[t].token)
     THEN /\ tokens' = {k \in tokens : k.id # proc[t].token}
          /\ counts' = CountWithout({k \in tokens : k.id = proc[t].token})
          /\ used' = [used EXCEPT !.tokens = @ \cup {<<proc[t].token, proc[t].n>>}]
          /\ Goes(t, "count")
     ELSE DropUnusable(proc[t].token) /\ Ends(t) /\ UNCHANGED used
  /\ UNCHANGED <<admin, sessions, serial, spent>>

-----------------------------------------------------------------------------
(* CreateSession: the sessions that have not expired are counted, the      *)
(* oldest deleted as long as there are too many, and one is inserted, each *)
(* in a statement of its own.  Creation times are kept to the second, so   *)
(* the oldest may be any.                                                  *)

(* Wrong: the limit is what may be there before the new one.               *)
OneTooMany == Cardinality(Live) <= MaxSessions

Room == Cardinality(Live) < MaxSessions

CountSessions(t) ==
  /\ At(t, {"login", "totp", "recover"}, "count")
  /\ Goes(t, IF Room THEN "insert" ELSE "evict")
  /\ UNCHANGED <<admin, sessions, tokens, counts, serial, used, spent>>

DeleteOldestSession(t) ==
  /\ At(t, {"login", "totp", "recover"}, "evict")
  /\ \/ \E s \in Live : sessions' = sessions \ {s}
     \/ Live = {} /\ UNCHANGED sessions
  /\ Goes(t, "count")
  /\ UNCHANGED <<admin, tokens, counts, serial, used, spent>>

InsertSession(t) ==
  /\ At(t, {"login", "totp", "recover"}, "insert")
  /\ serial' = [serial EXCEPT !.id = @ + 1]
  /\ sessions' = sessions \cup {[id |-> serial.id, under |-> admin.pw, live |-> TRUE]}
  /\ Ends(t)
  /\ UNCHANGED <<admin, tokens, counts, used, spent>>

(* ValidateSession deletes a session that has expired, CleanupExpired all. *)
Logout(id) ==
  /\ sessions' = {s \in sessions : s.id # id}
  /\ UNCHANGED <<admin, tokens, counts, proc, serial, used, spent>>

Expire ==
  \/ \E s \in Live : sessions' = (sessions \ {s}) \cup {[s EXCEPT !.live = FALSE]} /\ UNCHANGED tokens
  \/ \E k \in tokens \ Expired : tokens' = (tokens \ {k}) \cup {[k EXCEPT !.old = TRUE]} /\ UNCHANGED sessions

TimePasses ==
  /\ Expire
  /\ UNCHANGED <<admin, counts, proc, serial, used, spent>>

(* The tickers of the token store and of the sessions.                     *)
CleanupTokens ==
  /\ tokens' = tokens \ Expired /\ counts' = Purge
  /\ UNCHANGED <<admin, sessions, proc, serial, used, spent>>

CleanupSessions ==
  /\ sessions' = Live
  /\ UNCHANGED <<admin, tokens, counts, proc, serial, used, spent>>

-----------------------------------------------------------------------------
(* Changing the password: compared, stored, and all sessions closed, where *)
(* a failure is only logged.                                               *)
ChangePassword(t, id, pw) ==
  /\ admin # Null /\ pw = admin.pw
  /\ Begins(t, [Idle EXCEPT !.op = "password", !.pc = "store", !.mine = id])
  /\ UNCHANGED <<admin, sessions, tokens, counts, serial, used>>

UpdatePassword(t) ==
  /\ At(t, {"password"}, "store")
  /\ serial' = [serial EXCEPT !.pw = @ + 1]
  /\ admin' = [admin EXCEPT !.pw = serial.pw]
  /\ Goes(t, "close")
  /\ UNCHANGED <<sessions, tokens, counts, used, spent>>

(* Wrong: the session of the request stays.                                *)
OwnKept(t) == {s \in sessions : s.id = proc[t].mine}

Kept(t) == {}

DestroyAllSessions(t) ==
  /\ At(t, {"password"}, "close")
  /\ \/ sessions' = Kept(t) /\ UNCHANGED spent
     \/ ~spent.failed /\ spent' = [spent EXCEPT !.failed = TRUE] /\ UNCHANGED sessions
  /\ Ends(t)
  /\ UNCHANGED <<admin, tokens, counts, serial, used>>

-----------------------------------------------------------------------------
(* 2FA switched on: the secret a session was shown is confirmed, and the   *)
(* recovery codes made and stored.                                         *)
Enable(t, id) ==
  /\ admin # Null /\ admin.secret = 0
  /\ Begins(t, [Idle EXCEPT !.op = "enable", !.pc = "store"])
  /\ UNCHANGED <<admin, sessions, tokens, counts, serial, used>>

NewCodes == {<<serial.codes, c>> : c \in Codes}

StoreSecret(t) ==
  /\ At(t, {"enable"}, "store")
  /\ serial' = [serial EXCEPT !.secret = @ + 1, !.codes = @ + 1]
  /\ admin' = [admin EXCEPT !.secret = serial.secret, !.codes = NewCodes]
  /\ Ends(t)
  /\ UNCHANGED <<sessions, tokens, counts, used, spent>>

(* Switched off, or its codes made anew, by a one-time password.           *)
Disable(t, id, code) ==
  /\ admin # Null /\ admin.secret # 0
  /\ Begins(t, [Idle EXCEPT !.op = "disable", !.pc = "consume", !.row = admin, !.code = code, !.mine = id])
  /\ UNCHANGED <<admin, sessions, tokens, counts, serial, used>>

Disabled(t) ==
  /\ At(t, {"disable"}, "consumed")
  /\ admin' = [admin EXCEPT !.secret = 0, !.codes = {}]
  /\ sessions' = {s \in sessions : s.id # proc[t].mine}
  /\ Ends(t)
  /\ UNCHANGED <<tokens, counts, serial, used, spent>>

RegenerateRecoveryCodes(t, id, code) ==
  /\ admin # Null /\ admin.secret # 0
  /\ Begins(t, [Idle EXCEPT !.op = "regenerate", !.pc = "consume", !.row = admin, !.code = code])
  /\ UNCHANGED <<admin, sessions, tokens, counts, serial, used>>

Regenerated(t) ==
  /\ At(t, {"regenerate"}, "consumed")
  /\ serial' = [serial EXCEPT !.codes = @ + 1]
  /\ admin' = [admin EXCEPT !.codes = NewCodes]
  /\ Ends(t)
  /\ UNCHANGED <<sessions, tokens, counts, used, spent>>

-----------------------------------------------------------------------------
(* The panel stops: the requests and the token store are gone.             *)
Crash ==
  /\ ~spent.failed /\ spent' = [spent EXCEPT !.failed = TRUE]
  /\ tokens' = {} /\ counts' = 0 /\ proc' = [t \in Threads |-> Null]
  /\ UNCHANGED <<admin, sessions, serial, used>>

Init ==
  /\ admin = Null /\ sessions = {} /\ tokens = {} /\ counts = 0
  /\ proc = [t \in Threads |-> Null]
  /\ serial = [id |-> 1, pw |-> 2, secret |-> 1, codes |-> 1]
  /\ used = [codes |-> {}, tokens |-> {}]
  /\ spent = [ops |-> 0, failed |-> FALSE]

Passwords == IF admin = Null THEN {} ELSE 1..admin.pw
Issued    == {<<g, c>> : g \in 1..(serial.codes - 1), c \in Codes}
LoggedIn  == {s.id : s \in Live}

(* A request with a session or a token that is not there changes nothing.  *)
Request(t) ==
  \/ Setup(t)
  \/ \E pw \in Passwords : Login(t, pw) \/ \E id \in LoggedIn : ChangePassword(t, id, pw)
  \/ \E id \in LoggedIn :
       \/ Enable(t, id)
       \/ \E code \in Steps : Disable(t, id, code) \/ RegenerateRecoveryCodes(t, id, code)
  \/ \E k \in tokens, code \in Steps \cup Issued : Login2FA(t, k.id, code)

Handler(t) ==
  \/ CreateAdmin(t) \/ ComparePassword(t) \/ CreateToken(t)
  \/ ReadAdmin(t) \/ ConsumeCode(t) \/ ConsumeRecoveryCode(t) \/ ConsumeToken(t)
  \/ CountSessions(t) \/ DeleteOldestSession(t) \/ InsertSession(t)
  \/ UpdatePassword(t) \/ DestroyAllSessions(t)
  \/ StoreSecret(t) \/ Disabled(t) \/ Regenerated(t)

Next ==
  \/ \E t \in Threads : Request(t) \/ Handler(t)
  \/ \E id \in LoggedIn : Logout(id)
  \/ TimePasses \/ CleanupTokens \/ CleanupSessions \/ Crash

Spec == Init /\ [][Next]_vars

-----------------------------------------------------------------------------
TypeOK ==
  /\ admin \in Admin \cup {Null}
  /\ sessions \subseteq Session /\ tokens \subseteq Token /\ counts \in Nat
  /\ proc \in [Threads -> Process \cup {Null}]
  /\ \A j, k \in tokens : j.id = k.id => j = k

(* A recovery code and a temporary token let in one request each, whatever *)
(* requests race for it and however often the codes are made anew.         *)
UsedOnce ==
  /\ \A x, y \in used.codes : x[1] = y[1] => x = y
  /\ \A x, y \in used.tokens : x[1] = y[1] => x = y

(* The count that refuses new tokens is that of the tokens there are: no   *)
(* expiry, failure or purge leaves one behind that would never go.         *)
CountsAgree == counts = Cardinality(tokens)

(* max_sessions is exceeded by no more than the requests that were past    *)
(* their count when the last place was taken.                              *)
SessionCap == Cardinality(Live) < MaxSessions + Cardinality(Threads)

(* A password change that has been answered has closed every session that  *)
(* was opened before the new password was stored.                          *)
NoSessionFromBefore ==
  ~spent.failed /\ (\A t \in Threads : ~At(t, {"password"}, "close")) =>
    \A s \in sessions : s.under = admin.pw
=============================================================================
