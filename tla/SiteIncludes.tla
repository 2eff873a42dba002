------------------------------ MODULE SiteIncludes ------------------------------
(* Two files that a site's configuration includes: the hotlink rules, which  *)
(* the panel renders from rows (internal/hotlink), and the custom locations,  *)
(* whose text is in the file alone while a row keeps its hash                 *)
(* (internal/rewrite).  configurationWriteMu lets one request change them at  *)
(* a time; reading is not held up by it, and the agent carries out late what  *)
(* the panel no longer waits for.  A text is a number, and its own hash.      *)
EXTENDS Naturals, FiniteSets

CONSTANTS
  Rules,         \* hotlink rules that can exist
  Extensions,    \* what a rule is about
  Editors,       \* browsers with the custom locations open
  Absent,
  MaxIncludeOps, \* bound: requests
  MaxIncludeFaults  \* bound: refusals, lost answers, crashes, other edits

HotlinkRow == [on : BOOLEAN, ext : Extensions, text : Nat]
Rendered == SUBSET (Rules \X Extensions \X Nat)
HotlinkUpdate ==
  [file : {"hotlinks"}, pc : {"failed", "call", "done"}, rule : Rules \cup {Absent},
   base : {Absent}, editor : {Absent}, write : Rendered]
LocationUpdate ==
  [file : {"location"}, pc : {"call", "done"}, rule : {Absent}, base : Nat \cup {Absent},
   editor : Editors, write : Nat]

ASSUME IncludesAssumption ==
  /\ Absent \notin Rules /\ Absent \notin Nat /\ Absent \notin HotlinkRow
  /\ Absent \notin HotlinkUpdate /\ Absent \notin LocationUpdate
  /\ MaxIncludeOps \in Nat /\ MaxIncludeFaults \in Nat

VARIABLES
  hotlinks,      \* site_hotlink_rules
  hotlinkFile,   \* the rules that nginx reads
  location,      \* the text of the custom locations
  recorded,      \* site_rewrite.content_hash
  seen,          \* what each editor shows
  writing,       \* the request under configurationWriteMu
  strayUpdate,   \* a transaction that nobody waits for
  apart,         \* history: files that may differ from their rows
  blind,         \* history: a save replaced what its editor had not seen
  includeUsed    \* what the bounds count

includeVars == <<hotlinks, hotlinkFile, location, recorded, seen, writing, strayUpdate, apart,
                 blind, includeUsed>>
hotlinkVars == <<hotlinks, hotlinkFile>>
locationVars == <<location, recorded, seen, blind>>

IncludesInit ==
  /\ hotlinks = [r \in Rules |-> Absent] /\ hotlinkFile = {}
  /\ location = 1 /\ recorded = Absent
  /\ seen = [e \in Editors |-> [text |-> Absent, hash |-> Absent, sure |-> FALSE]]
  /\ writing = Absent /\ strayUpdate = Absent /\ apart = {} /\ blind = FALSE
  /\ includeUsed = [ops |-> 0, faults |-> 0]

IncludeTrouble ==
  includeUsed.faults < MaxIncludeFaults /\ includeUsed' = [includeUsed EXCEPT !.faults = @ + 1]

BeginUpdate ==
  /\ writing = Absent /\ includeUsed.ops < MaxIncludeOps
  /\ includeUsed' = [includeUsed EXCEPT !.ops = @ + 1]

Text == includeUsed.ops + 2
WritingAt(pc) == writing # Absent /\ writing.pc = pc

-----------------------------------------------------------------------------
(* Hotlink rules: the row, and then the file of all rows.                    *)

InForceOf(rows) == {r \in Rules : rows[r] # Absent /\ rows[r].on}

\* renderHotlinkInclude
Rendering(rows) == {<<r, rows[r].ext, rows[r].text>> : r \in InForceOf(rows)}

\* rejectExtensionOverlap
Overlap(rows) == \E r, q \in InForceOf(rows) : r # q /\ rows[r].ext = rows[q].ext

\* normalizeRequest
RuleRow == [on : BOOLEAN, ext : Extensions, text : {Text}]

\* renderAndApply reads the rows again, those of other rules too.  A creation
\* takes its row back when that fails, a change and a removal do not.
RenderAndApply(rows, created) ==
  /\ BeginUpdate /\ hotlinks' = rows
  /\ writing' = [file |-> "hotlinks", pc |-> IF Overlap(rows) THEN "failed" ELSE "call",
                rule |-> created, base |-> Absent, editor |-> Absent,
                write |-> Rendering(rows)]
  /\ UNCHANGED <<hotlinkFile, locationVars, strayUpdate, apart>>

CreateHotlink(r) ==
  /\ hotlinks[r] = Absent
  /\ \E row \in RuleRow : RenderAndApply([hotlinks EXCEPT ![r] = row], r)

UpdateHotlink(r) ==
  /\ hotlinks[r] # Absent
  /\ \E row \in RuleRow : RenderAndApply([hotlinks EXCEPT ![r] = row], Absent)

DeleteHotlink(r) ==
  /\ hotlinks[r] # Absent
  /\ RenderAndApply([hotlinks EXCEPT ![r] = Absent], Absent)

-----------------------------------------------------------------------------
(* Custom locations.  Get reads the file, and later the row, whose hash it   *)
(* answers with the file's text if there is one.  A file that cannot be read  *)
(* is shown as an empty text (0), with that hash all the same.  An answer is  *)
(* `sure' when it shows the file, and the file's hash: a save between the two *)
(* readings, one that fails or a row behind the file make one that is not.    *)

GetFile(e) ==
  /\ includeUsed.ops < MaxIncludeOps
  /\ \E text \in {0, location} :
       /\ seen' = [seen EXCEPT ![e] = [text |-> text, hash |-> Absent, sure |-> FALSE]]
       /\ IF text = location THEN UNCHANGED includeUsed ELSE IncludeTrouble
  /\ UNCHANGED <<hotlinkVars, location, recorded, writing, strayUpdate, apart, blind>>

OwnHash(text) == IF text = 0 THEN Absent ELSE text

Shown(e, hash) ==
  seen' = [seen EXCEPT ![e].hash = hash, ![e].sure = seen[e].text = location /\ hash = seen[e].text]

GetHash(e) ==
  /\ seen[e].text # Absent /\ seen[e].hash = Absent
  /\ \/ recorded # Absent /\ Shown(e, recorded) /\ UNCHANGED includeUsed
     \/ recorded = Absent /\ Shown(e, OwnHash(seen[e].text)) /\ UNCHANGED includeUsed
     \/ recorded # Absent /\ Shown(e, OwnHash(seen[e].text)) /\ IncludeTrouble
  /\ UNCHANGED <<hotlinkVars, location, recorded, writing, strayUpdate, apart, blind>>

(* Wrong: a save is taken whatever was saved since the editor was opened.    *)
NeverDrifted(e) == FALSE

Drifted(e) == recorded # Absent /\ recorded # seen[e].hash

BeginSave(e, base) ==
  /\ BeginUpdate
  /\ writing' = [file |-> "location", pc |-> "call", rule |-> Absent, base |-> base,
                editor |-> e, write |-> Text]
  /\ UNCHANGED <<hotlinkVars, locationVars, strayUpdate, apart>>

\* Update: expected_content_hash is compared with the row's, if there is one
\* and both can be read.
SaveLocation(e) ==
  \/ /\ seen[e].hash # Absent /\ ~Drifted(e)
     /\ BeginSave(e, IF seen[e].sure THEN seen[e].text ELSE Absent)
  \/ BeginSave(e, Absent)

\* ApplyTemplate: in place of the text, or after the text as it is now; after
\* none, if that cannot be read.
ApplyTemplate(e) == SaveLocation(e) \/ \E base \in {location, Absent} : BeginSave(e, base)

-----------------------------------------------------------------------------
(* The transaction and its answer.                                           *)

Write(u) ==
  IF u.file = "hotlinks" THEN hotlinkFile' = u.write /\ UNCHANGED location
  ELSE location' = u.write /\ UNCHANGED hotlinkFile

IncludeCommit ==
  /\ WritingAt("call") /\ Write(writing)
  /\ blind' = (blind \/ (writing.file = "location" /\ "location" \notin apart
                          /\ writing.base \notin {Absent, location}))
  /\ apart' = apart \ {writing.file}
  /\ writing' = [writing EXCEPT !.pc = "done"]
  /\ UNCHANGED <<hotlinks, recorded, seen, strayUpdate, includeUsed>>

\* The answer: of custom locations the row is written now, if it can be.
IncludeDone ==
  /\ WritingAt("done") /\ writing' = Absent
  /\ IF writing.file = "hotlinks" THEN UNCHANGED <<recorded, seen, apart, includeUsed>>
     ELSE LET sure == location = writing.write IN
          /\ seen' = [seen EXCEPT ![writing.editor] =
               [text |-> writing.write, hash |-> writing.write, sure |-> sure]]
          /\ \/ recorded' = writing.write /\ UNCHANGED <<apart, includeUsed>>
             \/ IncludeTrouble /\ apart' = apart \cup {"location"} /\ UNCHANGED recorded
  /\ UNCHANGED <<hotlinkVars, location, blind, strayUpdate>>

\* The rows or the transaction are refused, or the answer does not arrive.
WriteRefused ==
  /\ \/ WritingAt("failed") /\ UNCHANGED <<strayUpdate, includeUsed>>
     \/ WritingAt("call") /\ IncludeTrouble /\ strayUpdate' \in {strayUpdate, writing}
     \/ WritingAt("done") /\ IncludeTrouble /\ UNCHANGED strayUpdate
  /\ writing' = Absent
  /\ UNCHANGED <<hotlinkFile, locationVars>>

Unknown == WritingAt("done") \/ strayUpdate' # strayUpdate

IncludeFails ==
  /\ WriteRefused
  /\ hotlinks' = IF writing.rule = Absent THEN hotlinks ELSE [hotlinks EXCEPT ![writing.rule] = Absent]
  /\ apart' = IF Unknown \/ (writing.file = "hotlinks" /\ writing.rule = Absent)
              THEN apart \cup {writing.file} ELSE apart

IncludeCrash ==
  /\ writing # Absent /\ IncludeTrouble /\ writing' = Absent
  /\ strayUpdate' \in {strayUpdate, IF WritingAt("call") THEN writing ELSE strayUpdate}
  /\ apart' = apart \cup {writing.file}
  /\ UNCHANGED <<hotlinkVars, locationVars>>

IncludeLate ==
  /\ strayUpdate # Absent /\ Write(strayUpdate)
  /\ strayUpdate' = Absent /\ apart' = apart \cup {strayUpdate.file}
  /\ UNCHANGED <<hotlinks, recorded, seen, blind, writing, includeUsed>>

\* The file manager, a restored backup.
OtherEdit ==
  /\ BeginUpdate /\ UNCHANGED writing
  /\ location' = Text /\ apart' = apart \cup {"location"}
  /\ UNCHANGED <<hotlinkVars, recorded, seen, blind, strayUpdate>>

IncludesNext ==
  \/ \E r \in Rules : CreateHotlink(r) \/ UpdateHotlink(r) \/ DeleteHotlink(r)
  \/ \E e \in Editors : GetFile(e) \/ GetHash(e) \/ SaveLocation(e) \/ ApplyTemplate(e)
  \/ IncludeCommit \/ IncludeDone \/ IncludeFails \/ IncludeCrash \/ IncludeLate \/ OtherEdit

IncludesSpec == IncludesInit /\ [][IncludesNext]_includeVars

-----------------------------------------------------------------------------
(* Between requests the hotlink rules nginx reads are those of the rows, and *)
(* the hash of the custom locations is the file's, unless an answer was lost, *)
(* a change of a rule was refused (its row is kept), the hash could not be    *)
(* saved or somebody else wrote the file; and a save that was compared with   *)
(* the row replaces just the text that its editor showed, or a template adds  *)
(* to what it read.  Excepted is an editor that shows another text than its   *)
(* hash is of: opened while a save ended, or when the file could not be read. *)
IncludesFollowRows ==
  /\ writing = Absent =>
       /\ "hotlinks" \in apart \/ hotlinkFile = Rendering(hotlinks)
       /\ "location" \in apart \/ recorded \in {Absent, location}
  /\ ~blind
=============================================================================
