------------------------------ MODULE FileManager ------------------------------
(* The file manager: the agent's handlers that write, upload, remove, move,  *)
(* copy, compress and extract files (internal/agent/file_handlers.go,        *)
(* archive_operations.go, atomic.go) and the requests of the panel that call  *)
(* them (internal/api/file_handler.go, files_global_handler.go).              *)
(*                                                                           *)
(* configurationWriteMu lets the panel send one call at a time (`http'); the *)
(* agent goes on with a call that was given up (`old'), until it looks at the *)
(* request's context, if it does.  The content of a file is a number, 0 for   *)
(* no file, Half for one whose copy is not complete; the archive is what it   *)
(* holds of each file.  A copy has two files open: `src' and `at' are the     *)
(* names by which they are known now, or Nobody when they have none any more. *)
(* Directories, owners and modes are left out.                                *)
EXTENDS Naturals, FiniteSets

CONSTANTS
  Names,         \* files of the site
  Half,
  Nobody,
  MaxRequests,   \* bound: requests
  MaxMishaps     \* bound: failures, answers that nobody waits for

(* What a file holds, and the agent's handling of a call.                    *)
FileContent == Nat \cup {Half}

FileCall ==
  [op : {"write", "upload", "remove", "move", "copy", "compress", "extract"},
   pc : {"put", "each", "rename", "open", "fill", "preflight", "look", "entry", "clean"},
   from : Names, to : Names, all : SUBSET Names, todo : SUBSET Names, got : [Names -> FileContent],
   aim : [Names -> Names], at : Names \cup {Nobody}, src : Names \cup {Nobody}, read : FileContent,
   mixed : BOOLEAN, had : BOOLEAN, created : SUBSET Names, kept : SUBSET Names,
   beside : BOOLEAN, left : BOOLEAN, ans : {"none", "ok", "failed"}]

ASSUME NamesAssumption == Names \subseteq Nat /\ IsFiniteSet(Names) /\ Nobody \notin FileCall \cup Names

VARIABLES
  tree,          \* the files
  packed,        \* the archive
  work,          \* the agent's handling of the two calls
  told,          \* history: what each file may hold by the answers so far
  unsure,        \* history: the files that an abandoned call may still change
  tried          \* what the bounds count

fileVars == <<tree, packed, work, told, unsure, tried>>

Hands == {"http", "old"}
Empty == [n \in Names |-> 0]

FilesInit ==
  /\ tree \in [Names -> {0, 1}] /\ packed = Empty
  /\ work = [h \in Hands |-> Nobody]
  /\ told = [n \in Names |-> {tree[n]}] /\ unsure = {}
  /\ tried = [requests |-> 0, mishaps |-> 0]

Mishap == tried.mishaps < MaxMishaps /\ tried' = [tried EXCEPT !.mishaps = @ + 1]

-----------------------------------------------------------------------------
(* Requests.                                                                 *)

Same == [n \in Names |-> n]

Ask(op, pc, from, to, all, todo, aim) ==
  /\ work["http"] = Nobody /\ tried.requests < MaxRequests
  /\ tried' = [tried EXCEPT !.requests = @ + 1]
  /\ work' = [work EXCEPT !["http"] =
       [op |-> op, pc |-> pc, from |-> from, to |-> to, all |-> all, todo |-> todo,
        got |-> [Empty EXCEPT ![to] = tried.requests + 2], aim |-> aim,
        at |-> Nobody, src |-> Nobody, read |-> 0, mixed |-> FALSE,
        had |-> FALSE, created |-> {}, kept |-> {},
        beside |-> work["old"] # Nobody, left |-> FALSE, ans |-> "none"]]
  /\ UNCHANGED <<tree, packed, told, unsure>>

AskFor(op, pc, s, all, aim) == \E n \in s : (\A m \in s : n <= m) /\ Ask(op, pc, n, n, all, s, aim)

AskWrite(n) == \E op \in {"write", "upload"} : Ask(op, "put", n, n, {n}, {n}, Same)
AskRemove(s) == AskFor("remove", "each", s, s, Same)
AskMove(n, m) == Ask("move", "rename", n, m, {n, m}, {n, m}, Same)
AskCompress(s) == AskFor("compress", "each", s, s, Same)
AskExtract == \E n \in Names : (\A m \in Names : n <= m) /\ Ask("extract", "preflight", n, n, {}, {}, Same)

\* The files of s, each to the name `aim' gives it in one directory: what is
\* there already would be copied to itself.
AskCopy(s, aim) ==
  /\ \A n \in s : aim[n] \in s => aim[aim[n]] = aim[n]
  /\ \A n \in Names \ s : aim[n] = n
  /\ AskFor("copy", "open", s, {aim[n] : n \in s}, aim)

Handling(h, op, pc) ==
  work[h] # Nobody /\ work[h].ans = "none" /\ work[h].op = op /\ work[h].pc = pc

Replied(h, ans) == IF work[h].left THEN Nobody ELSE [work[h] EXCEPT !.ans = ans]
AnswerTo(h, ans) == work' = [work EXCEPT ![h] = Replied(h, ans)]
Set(n, v) == tree' = [tree EXCEPT ![n] = v]

(* A name is given to another file, taken away or changed by one hand; what  *)
(* the other has open stays open: f gives each file's new name.              *)
Other(h) == IF h = "http" THEN "old" ELSE "http"
Unlinked(n) == [Same EXCEPT ![n] = Nobody]
Renamed(n, m) == [Same EXCEPT ![m] = Nobody, ![n] = m]
Known(f, n) == IF n = Nobody THEN Nobody ELSE f[n]
Tracked(c, f) ==
  IF c = Nobody THEN c
  ELSE [c EXCEPT !.at = Known(f, @), !.src = Known(f, @),
                 !.read = IF c.src # Nobody /\ f[c.src] = Nobody THEN tree[c.src] ELSE @]
Moves(h, r, f) == work' = [work EXCEPT ![h] = r, ![Other(h)] = Tracked(@, f)]

\* The context is looked at between two steps; any step can fail.
Interrupted(h) == IF work[h].left THEN tried' = tried ELSE Mishap

-----------------------------------------------------------------------------
(* handleFilesWrite, handleFilesUpload: a temporary file is renamed, so that *)
(* there is the old file or the new one.                                     *)

Put(h) ==
  /\ Handling(h, "write", "put") \/ Handling(h, "upload", "put")
  /\ LET n == work[h].to IN Set(n, work[h].got[n]) /\ Moves(h, Replied(h, "ok"), Unlinked(n))
  /\ UNCHANGED <<packed, told, unsure, tried>>

PutFails(h) ==
  /\ Handling(h, "write", "put") \/ Handling(h, "upload", "put")
  /\ IF work[h].op = "upload" THEN Interrupted(h) ELSE Mishap
  /\ AnswerTo(h, "failed")
  /\ UNCHANGED <<tree, packed, told, unsure>>

(* handleFilesRemove: what cannot be removed is skipped, and the answer is   *)
(* the same.                                                                 *)
RemoveOne(h) ==
  /\ Handling(h, "remove", "each")
  /\ \E n \in work[h].todo :
       /\ \A m \in work[h].todo : n <= m
       /\ \/ Set(n, 0) /\ Moves(h, [work[h] EXCEPT !.todo = @ \ {n}], Unlinked(n)) /\ tried' = tried
          \/ tree' = tree /\ work' = [work EXCEPT ![h].todo = @ \ {n}] /\ Mishap
  /\ UNCHANGED <<packed, told, unsure>>

Removed(h) ==
  /\ Handling(h, "remove", "each") /\ work[h].todo = {}
  /\ AnswerTo(h, "ok")
  /\ UNCHANGED <<tree, packed, told, unsure, tried>>

\* handleFilesMove.  A file that a call may still change is moved with it.
MoveFile(h) ==
  /\ Handling(h, "move", "rename")
  /\ LET n == work[h].from
         m == work[h].to
         r == IF work[h].left THEN Nobody
              ELSE [work[h] EXCEPT !.ans = "ok", !.got = [Empty EXCEPT ![m] = tree[n]]]
     IN IF tree[n] = 0 THEN AnswerTo(h, "failed") /\ tree' = tree /\ unsure' = unsure
        ELSE /\ tree' = [tree EXCEPT ![n] = 0, ![m] = tree[n]]
             /\ Moves(h, r, Renamed(n, m))
             /\ unsure' = IF n \in unsure THEN unsure \cup {m} ELSE unsure
  /\ UNCHANGED <<packed, told, tried>>

MoveFails(h) ==
  /\ Handling(h, "move", "rename") /\ Mishap /\ AnswerTo(h, "failed")
  /\ UNCHANGED <<tree, packed, told, unsure>>

(* copyFile, file after file: the target is opened for writing in place, and *)
(* then filled from the source, by whatever name either is known then and    *)
(* whoever has stopped waiting for it.  A file that both hands fill may be    *)
(* left with a part of each.                                                 *)
Open(h) ==
  /\ Handling(h, "copy", "open")
  /\ \E n \in work[h].todo :
       LET m == work[h].aim[n]
           c == work[Other(h)]
           both == c # Nobody /\ c.pc = "fill" /\ c.at = m
           q == [work[h] EXCEPT !.pc = "fill", !.todo = @ \ {n}, !.to = m, !.at = m, !.src = n, !.mixed = both]
       IN IF n = m \/ tree[n] = 0 THEN AnswerTo(h, "failed") /\ tree' = tree
          ELSE /\ Set(m, Half)
               /\ work' = [work EXCEPT ![h] = q, ![Other(h)] = IF both THEN [c EXCEPT !.mixed = TRUE] ELSE c]
  /\ UNCHANGED <<packed, told, unsure, tried>>

\* What a copy reads: what its source holds now, or held when it lost its name.
Source(r) == IF r.src = Nobody THEN r.read ELSE tree[r.src]
WriteTo(n, v) == IF n = Nobody THEN tree' = tree ELSE Set(n, v)

Fill(h) ==
  /\ Handling(h, "copy", "fill")
  /\ \E v \in {Source(work[h])} \cup (IF work[h].mixed THEN {Half} ELSE {}) :
       LET r == [work[h] EXCEPT !.pc = "open", !.got[work[h].to] = v, !.created = @ \cup {work[h].to}]
       IN /\ WriteTo(work[h].at, v)
          /\ work' = [work EXCEPT ![h] =
               IF r.todo # {} THEN r ELSE IF r.left THEN Nobody ELSE [r EXCEPT !.ans = "ok"]]
  /\ UNCHANGED <<packed, told, unsure, tried>>

CopyFails(h) ==
  /\ \/ Handling(h, "copy", "open") /\ tree' = tree
     \/ Handling(h, "copy", "fill") /\ WriteTo(work[h].at, Half)
  /\ Mishap /\ AnswerTo(h, "failed")
  /\ UNCHANGED <<packed, told, unsure>>

-----------------------------------------------------------------------------
(* Archives.                                                                 *)

\* compressToZipWithLimits: file after file into a temporary one.
Pack(h) ==
  /\ Handling(h, "compress", "each") /\ work[h].todo # {}
  /\ \E n \in work[h].todo :
       /\ \A m \in work[h].todo : n <= m
       /\ IF tree[n] = 0 THEN AnswerTo(h, "failed")
          ELSE work' = [work EXCEPT ![h].todo = @ \ {n}, ![h].got[n] = tree[n]]
  /\ UNCHANGED <<tree, packed, told, unsure, tried>>

Packed(h) ==
  /\ Handling(h, "compress", "each") /\ work[h].todo = {}
  /\ packed' = work[h].got /\ AnswerTo(h, "ok")
  /\ UNCHANGED <<tree, told, unsure, tried>>

PackFails(h) ==
  /\ Handling(h, "compress", "each") /\ Interrupted(h) /\ AnswerTo(h, "failed")
  /\ UNCHANGED <<tree, packed, told, unsure>>

\* preflightZip, preflightTar: everything is looked at before anything is
\* written.
Preflight(h) ==
  /\ Handling(h, "extract", "preflight")
  /\ IF packed = Empty THEN AnswerTo(h, "failed")
     ELSE LET some == {n \in Names : packed[n] # 0}
          IN work' = [work EXCEPT ![h].pc = "look", ![h].got = packed, ![h].todo = some, ![h].all = some]
  /\ UNCHANGED <<tree, packed, told, unsure, tried>>

PreflightFails(h) ==
  /\ Handling(h, "extract", "preflight") /\ Interrupted(h) /\ AnswerTo(h, "failed")
  /\ UNCHANGED <<tree, packed, told, unsure>>

NextEntry(h) == CHOOSE n \in work[h].todo : \A m \in work[h].todo : n <= m

\* os.Stat, and then the temporary file that is renamed over it.
LookAtEntry(h) ==
  /\ Handling(h, "extract", "look") /\ work[h].todo # {}
  /\ work' = [work EXCEPT ![h].pc = "entry", ![h].had = tree[NextEntry(h)] # 0]
  /\ UNCHANGED <<tree, packed, told, unsure, tried>>

(* Wrong: every entry is noted, and cleaned up.                              *)
Every(h, n) == work[h].created \cup {n}
Created(h, n) == IF work[h].had THEN work[h].created ELSE work[h].created \cup {n}

Entry(h) ==
  /\ Handling(h, "extract", "entry")
  /\ LET n == NextEntry(h)
     IN /\ Set(n, work[h].got[n])
        /\ Moves(h, [work[h] EXCEPT !.pc = "look", !.todo = @ \ {n}, !.created = Created(h, n)], Unlinked(n))
  /\ UNCHANGED <<packed, told, unsure, tried>>

AllExtracted(h) ==
  /\ Handling(h, "extract", "look") /\ work[h].todo = {} /\ AnswerTo(h, "ok")
  /\ UNCHANGED <<tree, packed, told, unsure, tried>>

EntryFails(h) ==
  /\ (Handling(h, "extract", "look") /\ work[h].todo # {}) \/ Handling(h, "extract", "entry")
  /\ Interrupted(h)
  /\ work' = [work EXCEPT ![h].pc = "clean"]
  /\ UNCHANGED <<tree, packed, told, unsure>>

\* cleanupExtractedPaths: by name, from the last one; what cannot be removed
\* is left.
CleanOne(h) ==
  /\ Handling(h, "extract", "clean")
  /\ \E n \in work[h].created :
       LET r == [work[h] EXCEPT !.created = @ \ {n}]
       IN /\ \A m \in work[h].created : m <= n
          /\ \/ Set(n, 0) /\ Moves(h, r, Unlinked(n)) /\ tried' = tried
             \/ tree' = tree /\ work' = [work EXCEPT ![h] = [r EXCEPT !.kept = @ \cup {n}]] /\ Mishap
  /\ UNCHANGED <<packed, told, unsure>>

Cleaned(h) ==
  /\ Handling(h, "extract", "clean") /\ work[h].created = {} /\ AnswerTo(h, "failed")
  /\ UNCHANGED <<tree, packed, told, unsure, tried>>

-----------------------------------------------------------------------------
(* The answer, and what it tells of each file.                               *)

\* A file that was not removed is answered like one that was.
ToldOk(r, n) ==
  IF r.op = "remove" THEN told[n] \cup {0}
  ELSE IF n = r.from /\ r.op = "move" /\ r.from # r.to THEN {0} ELSE {r.got[n]}

\* A failure leaves things alone, but for the targets of a copy and the files
\* that an extraction had replaced or could not remove again.
ToldFailed(r, n) ==
  CASE r.op = "copy" -> IF n \in r.created THEN {Half, r.got[n]} ELSE told[n] \cup {Half}
    [] r.op = "extract" /\ (told[n] # {0} \/ n \in r.kept) -> told[n] \cup {r.got[n]}
    [] OTHER -> told[n]

FileAnswered ==
  /\ work["http"] # Nobody /\ work["http"].ans # "none"
  /\ LET r == work["http"]
         touched == IF r.op = "compress" THEN {} ELSE r.all
     IN /\ told' = [n \in Names |->
             IF n \notin touched THEN told[n]
             ELSE IF r.ans = "ok" THEN ToldOk(r, n) ELSE ToldFailed(r, n)]
        /\ unsure' = IF r.beside \/ r.ans # "ok" \/ r.op = "remove" THEN unsure ELSE unsure \ touched
  /\ work' = [work EXCEPT !["http"] = Nobody]
  /\ UNCHANGED <<tree, packed, tried>>

\* The browser or the panel stops waiting: the next request can come.
StopWaiting ==
  /\ work["http"] # Nobody /\ work["http"].ans = "none" /\ work["old"] = Nobody /\ Mishap
  /\ work' = [work EXCEPT !["http"] = Nobody, !["old"] = [work["http"] EXCEPT !.left = TRUE]]
  /\ unsure' = unsure \cup (CASE work["http"].op = "compress" -> {}
                              [] work["http"].op = "extract" -> Names
                              [] OTHER -> work["http"].all)
  /\ UNCHANGED <<tree, packed, told>>

FilesNext ==
  \/ \E n \in Names : AskWrite(n)
  \/ \E s \in SUBSET Names : AskRemove(s) \/ AskCompress(s)
  \/ \E n, m \in Names : AskMove(n, m)
  \/ \E s \in SUBSET Names, aim \in [Names -> Names] : AskCopy(s, aim)
  \/ AskExtract
  \/ \E h \in Hands :
       \/ Put(h) \/ PutFails(h) \/ RemoveOne(h) \/ Removed(h) \/ MoveFile(h) \/ MoveFails(h)
       \/ Open(h) \/ Fill(h) \/ CopyFails(h) \/ Pack(h) \/ Packed(h) \/ PackFails(h)
       \/ Preflight(h) \/ PreflightFails(h) \/ LookAtEntry(h) \/ Entry(h) \/ AllExtracted(h)
       \/ EntryFails(h) \/ CleanOne(h) \/ Cleaned(h)
  \/ FileAnswered \/ StopWaiting

FilesSpec == FilesInit /\ [][FilesNext]_fileVars

-----------------------------------------------------------------------------
(* What the answers said of a file is so: it is as the last request made it,  *)
(* one that failed has left it as it was, and an extraction that failed has   *)
(* removed none that was there before.  Unless a call that was given up acts  *)
(* on it, by its name or on what was moved there with its copy still at work,  *)
(* which no later answer tells.                                               *)
AnswersHold ==
  \A n \in Names \ unsure :
    (work["http"] = Nobody \/ n \notin work["http"].all) => tree[n] \in told[n]
=============================================================================
